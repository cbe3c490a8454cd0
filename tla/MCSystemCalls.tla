----------------------------- MODULE MCSystemCalls -----------------------------
(* Two processes and two free descriptors beside the standard ones: a lost *)
(* one of each leaves the program one to go on with, and two leave it none. *)
EXTENDS SystemCalls

MCFds == 0 .. 3
===============================================================================
