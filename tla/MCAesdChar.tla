------------------------------ MODULE MCAesdChar ------------------------------
(* The driver with two tasks on one file.  A run chooses the calls: the    *)
(* writes below end a line, its own or the one that another has begun, and *)
(* leave the beginning of the next.                                        *)
EXTENDS AesdChar

CONSTANTS a, b

MCWrites == {<<NL>>, <<b, NL, a>>}

\* Offsets inside, at, and beyond every size, and the two ends of loff_t.
MCLseekArgs ==
  ({"SEEK_SET"} \X {-1, 1})
    \cup ({"SEEK_CUR"} \X {-1, 2, SizeMod \div 2 - 1})
    \cup ({"SEEK_END"} \X {-SizeMod \div 2, -1, 1})

MCLseeks == {[whence |-> x[1], offset |-> x[2]] : x \in MCLseekArgs}

MCSeekTos ==
  {[write_cmd |-> k, write_cmd_offset |-> off] : k \in 0 .. 2, off \in {0, 2}}

MCReadWrites == {<<a, NL>>, <<NL>>}

\* For the liveness run, which cannot use symmetry: one argument of each kind.
MCOneLseek == {[whence |-> "SEEK_END", offset |-> -1]}

MCOneSeekTo == {[write_cmd |-> 1, write_cmd_offset |-> 0]}

MCOneWrite == {<<NL>>}

None == {}

Blocks == Permutations(Addr)
Callers == Permutations(Addr) \cup Permutations(Tasks)
===============================================================================
