--------------------------- MODULE CircularBuffer ---------------------------
(***************************************************************************)
(* The circular buffer of aesd-char-driver/aesd-circular-buffer.c: a fixed *)
(* array of (buffptr, size) entries, the slot the next command is stored   *)
(* in, the slot of the oldest command, and the flag that tells a full      *)
(* buffer from an empty one.                                               *)
(*                                                                         *)
(* The module has no variable: a buffer is a value, each C function an     *)
(* operator on it.  CommandRing runs it under one caller, AesdChar under   *)
(* the concurrent callers of the device.                                   *)
(***************************************************************************)
EXTENDS Integers, FiniteSetsExt

CONSTANTS
  MaxOps,  \* AESDCHAR_MAX_WRITE_OPERATIONS_SUPPORTED, 10 in the code
  NULL     \* the null pointer

ASSUME MaxOpsAssumption == MaxOps \in Nat \ {0}

Slots == 0 .. MaxOps - 1

\* An entry of the array, its buffptr drawn from Ptrs.
Entries(Ptrs) == [buffptr : Ptrs \cup {NULL}, size : Nat]

\* struct aesd_circular_buffer.
Buffers(Ptrs) ==
  [entry : [Slots -> Entries(Ptrs)], in_offs : Slots, out_offs : Slots,
   full : BOOLEAN]

\* aesd_circular_buffer_init: memset to zero.
EmptyBuffer ==
  [entry |-> [s \in Slots |-> [buffptr |-> NULL, size |-> 0]],
   in_offs |-> 0, out_offs |-> 0, full |-> FALSE]

\* Faulty variants of NextSlot, AddEntry, OldBuff, FindEntry and the walks from
\* slot 0: the runs tell them from the code.
NextSlotUnwrapped(s) == s + 1

AddEntryKeepsOldest(b, e) ==
  LET in == (b.in_offs + 1) % MaxOps
  IN  [entry |-> [b.entry EXCEPT ![b.in_offs] = e], in_offs |-> in,
       out_offs |-> b.out_offs, full |-> in = b.out_offs]

OldBuffForgotten(b) == NULL

FindEntryLate(b, char_offset) ==
  LET total[k \in 0 .. MaxOps] ==
        IF k = 0
        THEN 0
        ELSE total[k - 1] + b.entry[(b.out_offs + k - 1) % MaxOps].size
      hits == {k \in Slots : total[k + 1] > char_offset + 1}
  IN  IF hits = {}
      THEN [found |-> FALSE]
      ELSE LET k == Min(hits)
           IN  [found |-> TRUE, entry |-> b.entry[(b.out_offs + k) % MaxOps],
                entry_offset |-> char_offset - total[k]]

UsedBeforeNewest(b, s) == s < b.in_offs

SeekOffsetPast(b, command) ==
  LET sum[s \in 0 .. MaxOps] ==
        IF s = 0 THEN 0 ELSE sum[s - 1] + b.entry[s - 1].size
  IN  IF command >= MaxOps THEN 0 ELSE sum[command + 1]

NextSlot(s) == (s + 1) % MaxOps

(***************************************************************************)
(* aesd_circular_buffer_add_entry: the entry goes into slot in_offs, and   *)
(* the buffer is full when that makes in_offs meet out_offs.               *)
(***************************************************************************)
AddEntry(b, e) ==
  LET in  == NextSlot(b.in_offs)
      out == IF b.full THEN NextSlot(b.out_offs) ELSE b.out_offs
  IN  [entry    |-> [b.entry EXCEPT ![b.in_offs] = e],
       in_offs  |-> in,
       out_offs |-> out,
       full     |-> in = out]

\* What a caller without the lock may see in the middle of add_entry: one of
\* the two fields of the slot is stored, in either order.
HalfAdded(b, e) ==
  {[b EXCEPT !.entry[b.in_offs].buffptr = e.buffptr],
   [b EXCEPT !.entry[b.in_offs].size = e.size]}

\* The pointer add_entry returns: the one it overwrites in a full buffer.
OldBuff(b) == IF b.full THEN b.entry[b.in_offs].buffptr ELSE NULL

(***************************************************************************)
(* aesd_circular_buffer_find_entry_offset_for_fpos: the k-th entry from    *)
(* out_offs is visited when no earlier one was empty and the walk has not  *)
(* come round to in_offs of a buffer that is not full; the first visited   *)
(* entry that ends beyond char_offset is the answer.                       *)
(***************************************************************************)
Visited(b, k) == b.entry[(b.out_offs + k) % MaxOps]

TotalBytesSize(b) ==
  LET total[k \in 0 .. MaxOps] ==
        IF k = 0 THEN 0 ELSE total[k - 1] + Visited(b, k - 1).size
  IN  total

FindEntry(b, char_offset) ==
  LET total == TotalBytesSize(b)
      Reaches(k) ==
        /\ \A j \in 0 .. k : Visited(b, j).size # 0
        /\ \A j \in 1 .. k : b.full \/ (b.out_offs + j) % MaxOps # b.in_offs
      hits == {k \in Slots : Reaches(k) /\ total[k + 1] > char_offset}
  IN  IF hits = {}
      THEN [found |-> FALSE]
      ELSE LET k == Min(hits)
           IN  [found |-> TRUE, entry |-> Visited(b, k),
                entry_offset |-> char_offset - total[k]]

(***************************************************************************)
(* The three functions added for seeking walk the array from slot 0 (not   *)
(* from out_offs) up to the first null buffptr.                            *)
(***************************************************************************)
Used(b, s) == \A j \in 0 .. s : b.entry[j].buffptr # NULL

SizeUpTo(b) ==
  LET sum[s \in 0 .. MaxOps] ==
        IF s = 0
        THEN 0
        ELSE sum[s - 1] + (IF Used(b, s - 1) THEN b.entry[s - 1].size ELSE 0)
  IN  sum

\* aesd_circular_buffer_size: the bytes stored.
BufferSize(b) == SizeUpTo(b)[MaxOps]

\* aesd_circullar_buffer_size: the commands stored.
CommandCount(b) == Cardinality({s \in Slots : Used(b, s)})

\* aesd_circular_buffer_seek: the bytes in the slots before `command`.
SeekOffset(b, command) ==
  IF command >= MaxOps THEN 0 ELSE SizeUpTo(b)[command]

(***************************************************************************)
(* What a buffer stands for: its commands from the oldest to the newest.   *)
(***************************************************************************)
Count(b) == IF b.full THEN MaxOps ELSE b.in_offs

OldestFirst(b) == [k \in 1 .. Count(b) |-> Visited(b, k - 1)]

(***************************************************************************)
(* The shape every reachable buffer has: out_offs moves only once the      *)
(* buffer is full, and a buffer that is full stays full.                   *)
(***************************************************************************)
RingShape(b) ==
  /\ b.full => b.in_offs = b.out_offs
  /\ ~b.full => b.out_offs = 0
  /\ \A s \in Slots :
       IF b.full \/ s < b.in_offs
       THEN b.entry[s].buffptr # NULL /\ b.entry[s].size > 0
       ELSE b.entry[s] = [buffptr |-> NULL, size |-> 0]
=============================================================================
