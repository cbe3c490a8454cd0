---------------------------- MODULE AesdCharCalls ----------------------------
(***************************************************************************)
(* What one call of the driver does as a whole.  Two history variables are *)
(* added to AesdChar: the device as it was when no write was under way,    *)
(* and the tasks whose call no write has overlapped.                       *)
(***************************************************************************)
EXTENDS AesdChar

VARIABLES
  before,   \* the device when no write was under way last
  alone     \* the tasks that no write has met since they were idle

ASSUME TextAssumption == NULL \notin Seq(Chars)

\* A pointer replaced by the bytes it points to.
Text(p) == IF p = NULL THEN NULL ELSE heap[p]

Texts(b) ==
  [b EXCEPT !.entry = [s \in Slots |-> [buffptr |-> Text(b.entry[s].buffptr),
                                        size    |-> b.entry[s].size]]]

\* The driver's state as a device, the add_entry under way complete.
Dev ==
  IF loaded
  THEN [buf |-> Texts(Completed), line |-> IF Pending = NULL THEN <<>> ELSE heap[Pending]]
  ELSE EmptyDevice

callsVars == <<vars, before, alone>>

CallsInit == Init /\ before = EmptyDevice /\ alone = Tasks

CallsNext ==
  /\ Next
  /\ before' = IF WriterIn' THEN before ELSE Dev'
  /\ alone' = IF WriterIn' THEN {} ELSE alone \cup {t \in Tasks : At(t, "idle")'}

CallsSpec == CallsInit /\ [][CallsNext]_callsVars
-----------------------------------------------------------------------------
(***************************************************************************)
(* Properties.                                                             *)
(***************************************************************************)

\* A write takes effect as if it were one step, whatever runs at the same time,
\* is interrupted or fails: its first bytes, and nothing comes between them.
Whole == INSTANCE WholeWrites WITH dev <- before

ImplementsWrites == Whole!Spec

\* A write that aesd_write does not give up on has stored every byte of it.
WriteStoresAll ==
  [][\A t \in Tasks :
       LET bytes == call[t].arg.bytes
       IN  At(t, "w_byte") /\ At(t, "done")' =>
             before' = PutBytes(before, bytes)[Len(bytes)]]_callsVars

\* A read returns what the device held between two writes.
ReadsWhole ==
  [][\A t \in Tasks :
       At(t, "r_copy") /\ At(t, "done")' =>
         call'[t].data = ReadAt(before.buf, call[t].pos, call[t].arg.count)]_callsVars

\* AESDCHAR_IOCSEEKTO, which takes no lock, goes where the device says, and
\* refuses what the device refuses, if no write comes between its steps.
SeeksWhole ==
  [][\A t \in alone :
       LET x == call[t].arg
       IN  /\ At(t, "i_store") /\ At(t, "idle")' =>
                /\ SeekOK(before.buf, x)
                /\ f_pos'[call[t].file] = SeekPosition(before.buf, x)
           /\ At(t, "i_check") /\ At(t, "idle")' => ~SeekOK(before.buf, x)]_callsVars
===============================================================================
