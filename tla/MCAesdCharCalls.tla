--------------------------- MODULE MCAesdCharCalls ---------------------------
(* The instance of MCAesdChar, with the history of the whole calls. *)
EXTENDS MCAesdChar, AesdCharCalls
===============================================================================
