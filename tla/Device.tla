------------------------------- MODULE Device -------------------------------
(***************************************************************************)
(* The device as its callers see it when no two calls overlap: the circular *)
(* buffer with the line itself for each buffptr, and the line that no      *)
(* newline has ended yet.  One operator stands for one call.               *)
(*                                                                         *)
(* ServerThrd is built on these operators.  AesdCharCalls shows how far the *)
(* driver, with its blocks, its lock and its many steps, agrees with them. *)
(***************************************************************************)
EXTENDS CircularBuffer, SequencesExt

CONSTANT NL    \* '\n'

EmptyDevice == [buf |-> EmptyBuffer, line |-> <<>>]

Contents(buf) ==
  FlattenSeq([k \in 1 .. Count(buf) |-> OldestFirst(buf)[k].buffptr])

\* aesd_write, one byte.
PutByte(dev, byte) ==
  LET line == Append(dev.line, byte)
  IN  IF byte = NL
      THEN [buf  |-> AddEntry(dev.buf, [buffptr |-> line, size |-> Len(line)]),
            line |-> <<>>]
      ELSE [dev EXCEPT !.line = line]

\* aesd_write: the device after each number of the bytes.  A write that runs
\* out of memory ends before the last.
PutBytes(dev, bytes) ==
  LET after[k \in 0 .. Len(bytes)] ==
        IF k = 0 THEN dev ELSE PutByte(after[k - 1], bytes[k])
  IN  after

\* aesd_read: what it copies out for up to `count` bytes.
ReadAt(buf, pos, count) ==
  SubSeq(Contents(buf), pos + 1, Min({pos + count, Len(Contents(buf))}))

\* AESDCHAR_IOCSEEKTO: whether it accepts x, and where it goes.
SeekOK(buf, x) ==
  /\ x.write_cmd < CommandCount(buf)
  /\ x.write_cmd_offset <= buf.entry[x.write_cmd].size

SeekPosition(buf, x) == SeekOffset(buf, x.write_cmd) + x.write_cmd_offset
=============================================================================
