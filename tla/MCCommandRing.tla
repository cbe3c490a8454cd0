---------------------------- MODULE MCCommandRing ----------------------------
(* CommandRing with three slots, three buffers and sizes 1 to 3: the buffer *)
(* wraps several times and neighbouring commands differ in size.            *)
EXTENDS CommandRing
=============================================================================
