---------------------------- MODULE MCAesdCharTorn ----------------------------
(* The driver with a history variable: the largest size its data ever had. *)
EXTENDS MCAesdChar

VARIABLE longest

MCInit == Init /\ longest = 0

MCNext ==
  /\ Next
  /\ longest' = Max({longest, BufferSize(circular_buf)', BufferSize(Completed)'})

MCSpec == MCInit /\ [][MCNext]_<<vars, longest>>

\* aesd_circular_buffer.c: "any necessary locking must be performed by caller".
\* With it, the size llseek measures is one the data had; at the very least it
\* is not larger than the data ever was.
MeasuredSizeExisted ==
  \A t \in Tasks : At(t, "l_check") => call[t].acc <= longest
===============================================================================
