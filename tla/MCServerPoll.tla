----------------------------- MODULE MCServerPoll -----------------------------
(* The poll server with two entries for clients, so that a third client    *)
(* finds an entry that was used before, or the table full.                 *)
EXTENDS ServerPoll

CONSTANT a

Three == 1 .. 3

\* A line, and one that strchr does not find: it is stored like the beginning of
\* a line.
MCMessages == {<<a, NL, NUL, NL>>}
===============================================================================
