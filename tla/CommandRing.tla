----------------------------- MODULE CommandRing -----------------------------
(***************************************************************************)
(* The circular buffer under a single caller, as the unit test of          *)
(* CMakeLists.txt drives it: commands are added one after another, and     *)
(* between two additions the buffer is searched and measured.  The search  *)
(* and the measures change nothing, so they appear in the invariants.      *)
(***************************************************************************)
EXTENDS CircularBuffer, SequencesExt

CONSTANTS
  Ptrs,     \* the buffers a command can live in
  MaxSize   \* bound on the size of a command

ASSUME RingAssumption == NULL \notin Ptrs /\ MaxSize \in Nat

VARIABLES
  circular_buf,
  old_buff      \* what the last aesd_circular_buffer_add_entry returned

vars == <<circular_buf, old_buff>>

\* The commands a caller adds: the driver adds no command without its '\n'.
Commands == [buffptr : Ptrs, size : 1 .. MaxSize]

Init ==
  /\ circular_buf = EmptyBuffer
  /\ old_buff = NULL

Add(e) ==
  /\ circular_buf' = AddEntry(circular_buf, e)
  /\ old_buff' = OldBuff(circular_buf)

Next == \E e \in Commands : Add(e)

Spec == Init /\ [][Next]_vars

-----------------------------------------------------------------------------
TypeOK ==
  /\ circular_buf \in Buffers(Ptrs)
  /\ old_buff \in Ptrs \cup {NULL}

\* The index, flag and slot contents stay consistent through every wrap.
RingConsistent == RingShape(circular_buf)

Window == OldestFirst(circular_buf)

\* The commands end to end, each byte named by its buffer and its offset.
Bytes(w) ==
  FlattenSeq([k \in DOMAIN w |->
                [j \in 1 .. w[k].size |-> <<w[k].buffptr, j - 1>>]])

\* aesd_circular_buffer_find_entry_offset_for_fpos returns the byte its
\* comment describes: the one at char_offset "if all buffer strings were
\* concatenated end to end", and nothing beyond the last one.
FindMatchesConcatenation ==
  LET bytes == Bytes(Window)
  IN  \A off \in 0 .. MaxOps * MaxSize :
        LET found == FindEntry(circular_buf, off)
        IN  /\ found.found <=> off < Len(bytes)
            /\ found.found =>
                 bytes[off + 1] = <<found.entry.buffptr, found.entry_offset>>

\* The measures aesd_seek and aesd_unlocked_ioctl rely on agree with the
\* window, although they walk the array from slot 0 and ignore the indices.
MeasuresMatchWindow ==
  /\ BufferSize(circular_buf) = Len(Bytes(Window))
  /\ CommandCount(circular_buf) = Len(Window)

\* The offset at which the k-th oldest command of w starts, k from 0.
StartOf(w, k) == Len(Bytes(SubSeq(w, 1, k)))

\* aesd_circular_buffer_seek finds the start of a command as long as the
\* oldest one is in slot 0, that is until the buffer drops its first command
\* and at every MaxOps-th addition from there.
SeekOffsetBeforeWrap ==
  circular_buf.out_offs = 0 =>
    \A k \in 0 .. Len(Window) - 1 :
      SeekOffset(circular_buf, k) = StartOf(Window, k)

\* aesd_circular_buffer_seek finds "the zero referenced write command"
\* (aesd_ioctl.h) at any time: the offset is where command k starts, whether
\* commands are counted from the oldest one or from slot 0.
SeekOffsetIsCommandStart ==
  \A k \in 0 .. Len(Window) - 1 :
    \/ SeekOffset(circular_buf, k) = StartOf(Window, k)
    \/ SeekOffset(circular_buf, k)
         = StartOf(Window, (k - circular_buf.out_offs) % MaxOps)

\* The buffer keeps the last MaxOps commands in order and returns exactly the
\* pointer of the one it drops, which is the one the driver then frees.
Kept == INSTANCE CommandWindow
          WITH window <- Window, dropped <- old_buff, Nothing <- NULL

KeepsLastCommands == Kept!Spec
=============================================================================
