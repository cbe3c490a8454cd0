----------------------------- MODULE MCServerThrd -----------------------------
(* The threaded server with two or three connections, and a table of      *)
(* descriptors that two connections and one use of the device fill.       *)
EXTENDS ServerThrd

CONSTANT a

Two == 1 .. 2
Three == 1 .. 3

FourFds == 0 .. 3
FiveFds == 0 .. 4

SecondByte == [write_cmd |-> 0, write_cmd_offset |-> 1]

MCSeekTos == {SecondByte}

\* A line and a seek.
MCMessages == {<<a, NL>>, <<SecondByte>>}

OneLine == {<<a, NL>>}
===============================================================================
