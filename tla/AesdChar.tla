------------------------------- MODULE AesdChar -------------------------------
(***************************************************************************)
(* The character device of aesd-char-driver/main.c under concurrent        *)
(* callers.                                                                *)
(*                                                                         *)
(* Tasks call read, write, llseek and ioctl on open files, which they may  *)
(* share.  read and write run under aesd_device.mtx.  llseek and ioctl do  *)
(* not take it: they walk the array entry by entry while a writer stores   *)
(* into it, and one step of theirs looks at one entry.  The kernel does    *)
(* not serialise the calls on a character device's file position either:   *)
(* it hands read and write a copy of f_pos and stores the copy back        *)
(* afterwards, although aesd_write leaves the copy alone.                  *)
(***************************************************************************)
EXTENDS Device

CONSTANTS
  Tasks,       \* the callers
  NoTask,      \* the holder of a free mutex
  Files,       \* struct file objects
  Addr,        \* blocks the kernel allocator hands out
  Chars,       \* the bytes that are written
  Writes,      \* the buffers a task may write
  Counts,      \* the byte counts a task may read
  LseekArgs,   \* the arguments of llseek
  SeekTos,     \* the struct aesd_seekto values passed to ioctl
  SizeMod,     \* 2^w, w the width of size_t and loff_t
  MaxLine      \* bound: at this length of a line krealloc finds no memory

Whence == {"SEEK_SET", "SEEK_CUR", "SEEK_END"}

ASSUME DriverAssumption ==
  /\ NULL \notin Addr
  /\ NoTask \notin Tasks
  /\ NL \in Chars
  /\ Writes \subseteq Seq(Chars)
  /\ Counts \subseteq Nat
  /\ LseekArgs \subseteq [whence : Whence, offset : Int]
  /\ SeekTos \subseteq [write_cmd : Nat, write_cmd_offset : Nat]
  /\ SizeMod \in Nat \ {0}
  /\ MaxLine \in Nat

VARIABLES
  loaded,        \* the module is in the kernel
  circular_buf,
  g_buff,        \* the line that no newline has ended yet
  g_len,
  heap,          \* the bytes in each block, none in a free one
  allocated,     \* the blocks in use
  mtx,           \* who holds aesd_device.mtx
  oops,          \* the kernel has crashed in mutex_lock_interruptible
  opened,        \* the open files
  f_pos,         \* filp->f_pos
  call           \* what each task is doing in the driver

memVars == <<heap, allocated>>
devVars == <<loaded, circular_buf, g_buff, g_len>>
lockVars == <<mtx, oops>>
fileVars == <<opened, f_pos>>
vars == <<memVars, devVars, lockVars, fileVars, call>>

Writing == {"w_byte", "w_entry"}          \* inside aesd_write's lock
Critical == Writing \cup {"r_copy"}       \* where the mutex is held
Waiting == {"w_lock", "r_lock"}           \* in mutex_lock_interruptible
Walking == {"l_size", "i_count", "i_seek"}
PCs == {"idle", "done", "l_check", "l_store", "i_check", "i_store"}
         \cup Critical \cup Waiting \cup Walking

Args == [bytes : Writes] \cup [count : Counts] \cup LseekArgs \cup SeekTos

\* A call and its locals: i is the loop counter, acc what a walk of the array
\* has added up, pos the copy of f_pos or the new position, data what read has
\* copied to the caller.
Calls ==
  [pc : PCs, file : Files \cup {NULL}, arg : Args \cup {NULL},
   wbuff : Addr \cup {NULL}, old_buff : Addr \cup {NULL},
   i : Nat, acc : Nat, pos : Int, data : Seq(Chars)]

NewCall(pc, file, arg, wbuff, pos) ==
  [pc |-> pc, file |-> file, arg |-> arg, wbuff |-> wbuff,
   old_buff |-> NULL, i |-> 0, acc |-> 0, pos |-> pos, data |-> <<>>]

NoCall == NewCall("idle", NULL, NULL, NULL, 0)

Init ==
  /\ loaded = FALSE
  /\ circular_buf = EmptyBuffer
  /\ g_buff = NULL
  /\ g_len = 0
  /\ heap = [a \in Addr |-> <<>>]
  /\ allocated = {}
  /\ mtx = NoTask
  /\ oops = FALSE
  /\ opened = {}
  /\ f_pos = [f \in Files |-> 0]
  /\ call = [t \in Tasks |-> NoCall]

-----------------------------------------------------------------------------
(***************************************************************************)
(* The module and its files.                                               *)
(***************************************************************************)

\* insmod: the static data is fresh, the mutex is only zeroed.
\* When a device number or the cdev cannot be had nothing stays behind.
aesd_init_module ==
  /\ ~loaded
  /\ loaded' = TRUE
  /\ circular_buf' = EmptyBuffer
  /\ g_buff' = NULL
  /\ g_len' = 0
  /\ UNCHANGED <<memVars, lockVars, fileVars, call>>

\* rmmod, which the kernel refuses while a file is open.
aesd_cleanup_module ==
  /\ loaded
  /\ opened = {}
  /\ loaded' = FALSE
  /\ LET freed == {g_buff} \cup {circular_buf.entry[s].buffptr : s \in Slots}
     IN  /\ allocated' = allocated \ freed
         /\ heap' = [a \in Addr |-> IF a \in freed THEN <<>> ELSE heap[a]]
  /\ circular_buf' =
       [circular_buf EXCEPT
          !.entry = [s \in Slots |-> [@[s] EXCEPT !.buffptr = NULL]]]
  /\ g_buff' = NULL
  /\ UNCHANGED <<g_len, lockVars, fileVars, call>>

aesd_open(f) ==
  /\ loaded
  /\ f \notin opened
  /\ opened' = opened \cup {f}
  /\ f_pos' = [f_pos EXCEPT ![f] = 0]
  /\ UNCHANGED <<memVars, devVars, lockVars, call>>

\* The last reference is gone: no call on the file is under way.
aesd_release(f) ==
  /\ f \in opened
  /\ \A t \in Tasks : call[t].file # f
  /\ opened' = opened \ {f}
  /\ f_pos' = [f_pos EXCEPT ![f] = 0]
  /\ UNCHANGED <<memVars, devVars, lockVars, call>>

(***************************************************************************)
(* What the calls share.                                                   *)
(***************************************************************************)
At(t, pc) == call[t].pc = pc

\* The call of task t goes on as c.
Continue(t, c) == call' = [call EXCEPT ![t] = c]

\* Task t enters the driver with call c.  A read or write gets a copy of the
\* file position.
Enter(t, c) ==
  /\ At(t, "idle")
  /\ c.file \in opened
  /\ Continue(t, c)
  /\ UNCHANGED <<devVars, lockVars, fileVars>>

\* Task t leaves the driver; its locals are gone.
Return(t) == Continue(t, NoCall)

kfree(p) ==
  /\ allocated' = allocated \ {p}
  /\ heap' = [a \in Addr |-> IF a = p THEN <<>> ELSE heap[a]]

Unlock == mtx' = NoTask

ThisByte(t) == heap[call[t].wbuff][call[t].i + 1]

\* A faulty variant, as those below: the loop stops one byte early.
HasByteButLast(t) == At(t, "w_byte") /\ call[t].i + 1 < Len(heap[call[t].wbuff])

HasByte(t) == At(t, "w_byte") /\ call[t].i < Len(heap[call[t].wbuff])

ThisEntry == [buffptr |-> g_buff, size |-> g_len]

SizeAt(s) == circular_buf.entry[s].size

(***************************************************************************)
(* Faulty variants, one for each property: the runs tell them from the     *)
(* code.                                                                   *)
(***************************************************************************)
LockAlways(t) ==
  /\ call[t].pc \in Waiting
  /\ mtx' = t
  /\ Continue(t, [call[t] EXCEPT
                    !.pc = IF @ = "w_lock" THEN "w_byte" ELSE "r_copy"])
  /\ UNCHANGED <<memVars, devVars, oops, fileVars>>

InterruptedLeaks(t) ==
  /\ call[t].pc \in Waiting
  /\ mtx # NoTask
  /\ Return(t)
  /\ UNCHANGED <<memVars, devVars, lockVars, fileVars>>

WriteEntryKeepsLen(t) ==
  /\ At(t, "w_entry")
  /\ circular_buf' = AddEntry(circular_buf, ThisEntry)
  /\ kfree(call[t].old_buff)
  /\ g_buff' = NULL
  /\ Continue(t, [call[t] EXCEPT !.pc = "w_byte", !.old_buff = NULL])
  /\ UNCHANGED <<loaded, g_len, lockVars, fileVars>>

WriteNoMemLocked(t) ==
  /\ HasByte(t)
  /\ kfree(call[t].wbuff)
  /\ Return(t)
  /\ UNCHANGED <<devVars, lockVars, fileVars>>

CopiedWholeEntries(from, count) ==
  LET found == FindEntry(circular_buf, from)
  IN  IF found.found
      THEN SubSeq(heap[found.entry.buffptr], found.entry_offset + 1,
                  found.entry.size)
      ELSE <<>>

SeekEndUnchecked(whence, np, buff_size) ==
  IF whence = "SEEK_END" THEN np >= 0 ELSE np >= 0 /\ np < buff_size

IoctlCheckRetries(t) ==
  /\ At(t, "i_check")
  /\ LET c == call[t]
         k == c.arg.write_cmd
     IN  Continue(t, IF k < c.acc /\ c.arg.write_cmd_offset <= SizeAt(k)
                     THEN [c EXCEPT !.pc = "i_seek", !.i = 0, !.acc = 0]
                     ELSE [c EXCEPT !.pc = "i_count", !.i = 0, !.acc = 0])
  /\ UNCHANGED <<memVars, devVars, lockVars, fileVars>>

IoctlCheckKeepsCount(t) ==
  /\ At(t, "i_check")
  /\ LET c == call[t]
         k == c.arg.write_cmd
     IN  Continue(t, IF k < c.acc /\ c.arg.write_cmd_offset <= SizeAt(k)
                     THEN [c EXCEPT !.pc = "i_seek", !.i = 0]
                     ELSE NoCall)
  /\ UNCHANGED <<memVars, devVars, lockVars, fileVars>>

\* mutex_lock_interruptible on a free mutex.
Lock(t) ==
  /\ call[t].pc \in Waiting
  /\ mtx = NoTask
  /\ mtx' = t
  /\ Continue(t, [call[t] EXCEPT
                    !.pc = IF @ = "w_lock" THEN "w_byte" ELSE "r_copy"])
  /\ UNCHANGED <<memVars, devVars, oops, fileVars>>

\* A signal ends the wait for a held mutex: -ERESTARTSYS.
Interrupted(t) ==
  /\ call[t].pc \in Waiting
  /\ mtx # NoTask
  /\ kfree(call[t].wbuff)
  /\ Return(t)
  /\ UNCHANGED <<devVars, lockVars, fileVars>>

\* The mutex is zeroed and never given to mutex_init.  A waiter that has to
\* queue on it follows a null list head; one that spins until the holder is
\* gone gets through, which is Lock.
LockOops(t) ==
  /\ call[t].pc \in Waiting
  /\ mtx # NoTask
  /\ oops' = TRUE
  /\ UNCHANGED <<memVars, devVars, mtx, fileVars, call>>

StorePosition(t, p) ==
  /\ f_pos' = [f_pos EXCEPT ![call[t].file] = p]
  /\ Return(t)
  /\ UNCHANGED <<memVars, devVars, lockVars, opened>>

\* A read or write without an error: the kernel stores the copy of the file
\* position back, whatever became of the position in the meantime.
CallDone(t) == At(t, "done") /\ StorePosition(t, call[t].pos)

(***************************************************************************)
(* aesd_write.                                                             *)
(***************************************************************************)

\* kmalloc and copy_from_user; when one fails nothing stays behind.
WriteBegin(t, f, bytes) ==
  \E a \in Addr \ allocated :
    /\ Enter(t, NewCall("w_lock", f, [bytes |-> bytes], a, f_pos[f]))
    /\ allocated' = allocated \cup {a}
    /\ heap' = [heap EXCEPT ![a] = bytes]

\* krealloc( g_buff, g_len + 1 ) and the store of the byte: the block grows in
\* place, or moves to a block that was free.
GrowTo(b, byte) ==
  /\ g_len < MaxLine
  /\ b \in (Addr \ allocated) \cup ({g_buff} \ {NULL})
  /\ allocated' = (allocated \ {g_buff}) \cup {b}
  /\ LET line == Append(IF g_buff = NULL THEN <<>> ELSE heap[g_buff], byte)
     IN  heap' = [a \in Addr |-> IF a = b THEN line
                                 ELSE IF a = g_buff THEN <<>> ELSE heap[a]]
  /\ g_buff' = b
  /\ g_len' = g_len + 1

WriteChar(t) ==
  /\ HasByte(t)
  /\ ThisByte(t) # NL
  /\ \E b \in Addr : GrowTo(b, ThisByte(t))
  /\ Continue(t, [call[t] EXCEPT !.i = @ + 1])
  /\ UNCHANGED <<loaded, circular_buf, lockVars, fileVars>>

\* The newline makes g_buff the next entry; add_entry has stored one field.
WriteNewline(t) ==
  /\ HasByte(t)
  /\ ThisByte(t) = NL
  /\ \E b \in Addr : GrowTo(b, NL)
  /\ circular_buf' \in HalfAdded(circular_buf, ThisEntry')
  /\ Continue(t, [call[t] EXCEPT !.pc = "w_entry", !.i = @ + 1,
                                  !.old_buff = OldBuff(circular_buf)])
  /\ UNCHANGED <<loaded, lockVars, fileVars>>

\* The rest of add_entry, then the block it handed back is freed.
WriteEntry(t) ==
  /\ At(t, "w_entry")
  /\ circular_buf' = AddEntry(circular_buf, ThisEntry)
  /\ kfree(call[t].old_buff)
  /\ g_buff' = NULL
  /\ g_len' = 0
  /\ Continue(t, [call[t] EXCEPT !.pc = "w_byte", !.old_buff = NULL])
  /\ UNCHANGED <<loaded, lockVars, fileVars>>

\* krealloc fails: the bytes before this one stay where they are.
WriteNoMem(t) ==
  /\ HasByte(t)
  /\ kfree(call[t].wbuff)
  /\ Unlock
  /\ Return(t)
  /\ UNCHANGED <<devVars, oops, fileVars>>

WriteEnd(t) ==
  /\ At(t, "w_byte")
  /\ ~HasByte(t)
  /\ Unlock
  /\ kfree(call[t].wbuff)
  /\ Continue(t, [call[t] EXCEPT !.pc = "done", !.wbuff = NULL])
  /\ UNCHANGED <<devVars, oops, fileVars>>

(***************************************************************************)
(* aesd_read.                                                              *)
(***************************************************************************)
ReadBegin(t, f, count) ==
  /\ Enter(t, NewCall("r_lock", f, [count |-> count], NULL, f_pos[f]))
  /\ UNCHANGED memVars

\* One turn of the loop of aesd_read: the bytes it copies after those in done.
Chunk(from, count, done) ==
  LET found == FindEntry(circular_buf, from + Len(done))
      cpsz == Min({found.entry.size - found.entry_offset, count - Len(done)})
  IN  IF Len(done) < count /\ found.found
      THEN SubSeq(heap[found.entry.buffptr], found.entry_offset + 1,
                  found.entry_offset + cpsz)
      ELSE <<>>

\* The whole loop, which looks at each entry at most once.
Copied(from, count) ==
  LET turn[k \in 0 .. MaxOps] ==
        IF k = 0
        THEN <<>>
        ELSE turn[k - 1] \o Chunk(from, count, turn[k - 1])
  IN  turn[MaxOps]

ReadCopy(t) ==
  /\ At(t, "r_copy")
  /\ LET bytes == Copied(call[t].pos, call[t].arg.count)
     IN  Continue(t, [call[t] EXCEPT !.pc = "done", !.data = bytes,
                                     !.pos = @ + Len(bytes)])
  /\ Unlock
  /\ UNCHANGED <<memVars, devVars, oops, fileVars>>

\* copy_to_user fails: -EFAULT, and the file position stays.
ReadFault(t) ==
  /\ At(t, "r_copy")
  /\ Copied(call[t].pos, call[t].arg.count) # <<>>
  /\ Unlock
  /\ Return(t)
  /\ UNCHANGED <<memVars, devVars, oops, fileVars>>

(***************************************************************************)
(* aesd_seek and aesd_unlocked_ioctl, without the lock.                    *)
(***************************************************************************)

\* One turn of the loops of aesd_circular_buffer_size, _seek and
\* aesd_circullar_buffer_size, which end at the first empty entry.
Walk(t, last, amount, next) ==
  /\ LET c == call[t]
     IN  IF c.i # last /\ c.i < MaxOps /\ circular_buf.entry[c.i].buffptr # NULL
         THEN Continue(t, [c EXCEPT !.i = @ + 1, !.acc = @ + amount])
         ELSE Continue(t, [c EXCEPT !.pc = next])
  /\ UNCHANGED <<memVars, devVars, lockVars, fileVars>>

LseekBegin(t, f, x) ==
  /\ Enter(t, NewCall("l_size", f, x, NULL, 0))
  /\ UNCHANGED memVars

LseekSize(t) ==
  At(t, "l_size") /\ Walk(t, MaxOps, SizeAt(call[t].i), "l_check")

ToUnsigned(n) == n % SizeMod

ToSigned(n) ==
  IF ToUnsigned(n) < SizeMod \div 2
  THEN ToUnsigned(n) ELSE ToUnsigned(n) - SizeMod

\* The new position, and whether the switch accepts it.  buff_size is a
\* size_t: the sum of SEEK_END is unsigned and so never negative, that of
\* SEEK_CUR is a loff_t until it is compared with buff_size.
SeekTarget(whence, offset, f, buff_size) ==
  CASE whence = "SEEK_SET" -> offset
    [] whence = "SEEK_CUR" -> ToSigned(f_pos[f] + offset)
    [] whence = "SEEK_END" -> ToUnsigned(buff_size + offset)

SeekAccepted(whence, np, buff_size) ==
  IF whence = "SEEK_END" THEN np <= buff_size
                         ELSE np >= 0 /\ np < buff_size

LseekCheck(t) ==
  /\ At(t, "l_check")
  /\ LET c  == call[t]
         np == SeekTarget(c.arg.whence, c.arg.offset, c.file, c.acc)
     IN  Continue(t, IF SeekAccepted(c.arg.whence, np, c.acc)
                     THEN [c EXCEPT !.pc = "l_store", !.pos = np]
                     ELSE NoCall)
  /\ UNCHANGED <<memVars, devVars, lockVars, fileVars>>

LseekStore(t) == At(t, "l_store") /\ StorePosition(t, call[t].pos)

\* A command other than AESDCHAR_IOCSEEKTO, and an argument that cannot be
\* read, change nothing.
IoctlBegin(t, f, x) ==
  /\ Enter(t, NewCall("i_count", f, x, NULL, 0))
  /\ UNCHANGED memVars

IoctlCount(t) == At(t, "i_count") /\ Walk(t, MaxOps, 1, "i_check")

IoctlCheck(t) ==
  /\ At(t, "i_check")
  /\ LET c == call[t]
         k == c.arg.write_cmd
     IN  Continue(t, IF /\ k < MaxOps
                        /\ k < c.acc
                        /\ c.arg.write_cmd_offset <= SizeAt(k)
                     THEN [c EXCEPT !.pc = "i_seek", !.i = 0, !.acc = 0]
                     ELSE NoCall)
  /\ UNCHANGED <<memVars, devVars, lockVars, fileVars>>

IoctlSeek(t) ==
  /\ At(t, "i_seek")
  /\ Walk(t, call[t].arg.write_cmd, SizeAt(call[t].i), "i_store")

IoctlStore(t) ==
  /\ At(t, "i_store")
  /\ StorePosition(t, call[t].acc + call[t].arg.write_cmd_offset)

-----------------------------------------------------------------------------
Begin(t, f) ==
  \/ \E bytes \in Writes : WriteBegin(t, f, bytes)
  \/ \E count \in Counts : ReadBegin(t, f, count)
  \/ \E x \in LseekArgs : LseekBegin(t, f, x)
  \/ \E x \in SeekTos : IoctlBegin(t, f, x)

\* The steps that no other task can hold up.
Step(t) ==
  \/ WriteChar(t) \/ WriteNewline(t) \/ WriteEntry(t)
  \/ WriteNoMem(t) \/ WriteEnd(t)
  \/ ReadCopy(t) \/ ReadFault(t) \/ CallDone(t)
  \/ LseekSize(t) \/ LseekCheck(t) \/ LseekStore(t)
  \/ IoctlCount(t) \/ IoctlCheck(t) \/ IoctlSeek(t) \/ IoctlStore(t)

\* After an oops the mutex and the driver are of no use any more.
Next ==
  /\ ~oops
  /\ \/ aesd_init_module
     \/ aesd_cleanup_module
     \/ \E f \in Files : aesd_open(f) \/ aesd_release(f)
     \/ \E t \in Tasks :
          \/ \E f \in Files : Begin(t, f)
          \/ Lock(t)
          \/ Interrupted(t)
          \/ LockOops(t)
          \/ Step(t)

Spec == Init /\ [][Next]_vars

\* A task inside the driver is scheduled again until it waits for the mutex.
FairSpec == Spec /\ \A t \in Tasks : WF_vars(~oops /\ Step(t))
-----------------------------------------------------------------------------
(***************************************************************************)
(* Properties.                                                             *)
(***************************************************************************)
TypeOK ==
  /\ loaded \in BOOLEAN
  /\ circular_buf \in Buffers(Addr)
  /\ g_buff \in Addr \cup {NULL}
  /\ g_len \in 0 .. MaxLine
  /\ heap \in [Addr -> Seq(Chars)]
  /\ allocated \subseteq Addr
  /\ mtx \in Tasks \cup {NoTask}
  /\ oops \in BOOLEAN
  /\ opened \subseteq Files
  /\ f_pos \in [Files -> Int]
  /\ call \in [Tasks -> Calls]

\* A task holds the mutex exactly while it is in a critical section: every
\* return of read and write, the ones for an error too, lets go of it.
LockMatchesSections ==
  \A t \in Tasks : call[t].pc \in Critical <=> mtx = t

\* The buffer once the add_entry under way, if there is one, is complete.
Completed ==
  IF mtx # NoTask /\ At(mtx, "w_entry")
  THEN AddEntry(circular_buf, ThisEntry)
  ELSE circular_buf

Pending == IF mtx # NoTask /\ At(mtx, "w_entry") THEN NULL ELSE g_buff

Line(e) == SubSeq(heap[e.buffptr], 1, e.size)

Lines(b) == [k \in 1 .. Count(b) |-> Line(OldestFirst(b)[k])]

Content == FlattenSeq(Lines(circular_buf))

\* Who must free a block: a slot, g_buff, or a local of a task.
Owners == (({"slot"} \X Slots) \cup {<<"g_buff", NULL>>})
            \cup ({"wbuff", "old_buff"} \X Tasks)

Owned(o) ==
  CASE o[1] = "slot"     -> Completed.entry[o[2]].buffptr
    [] o[1] = "g_buff"   -> Pending
    [] o[1] = "wbuff"    -> call[o[2]].wbuff
    [] o[1] = "old_buff" -> call[o[2]].old_buff

\* Every block in use has exactly one owner, and every owner's block is in use:
\* nothing leaks, is freed twice, or is reached after it was freed, on any
\* path of aesd_write, through every wrap and across rmmod.
MemoryOwned ==
  /\ {Owned(o) : o \in Owners} \ {NULL} = allocated
  /\ \A o, p \in Owners : Owned(o) = Owned(p) /\ o # p => Owned(o) = NULL

\* The index, flag and slots agree whenever no add_entry is under way.
RingConsistent == loaded => RingShape(Completed)

\* A stored command is one line: its size is the length of its block, and the
\* newline is its last byte and no other.  What is collected in g_buff is the
\* beginning of one, whichever writers it came from and whatever failed.
LinesWellFormed ==
  loaded =>
    /\ \A k \in 1 .. Count(Completed) :
         LET e == OldestFirst(Completed)[k]
         IN  /\ Len(heap[e.buffptr]) = e.size
             /\ \A j \in 1 .. e.size :
                  heap[e.buffptr][j] = NL <=> j = e.size
    /\ Pending # NULL =>
         /\ Len(heap[g_buff]) = g_len
         /\ \A j \in 1 .. g_len : heap[g_buff][j] # NL

\* A read returns a slice of the commands concatenated, from the position it
\* was given: nothing is skipped at the seam of two commands or at the end of
\* the array, and it falls short of count only at the end of the data.
ReadReturnsSlice ==
  [][\A t \in Tasks :
       LET c == call[t]
           bytes == call'[t].data
       IN  bytes # c.data /\ bytes # <<>> =>
             bytes = SubSeq(Content, c.pos + 1,
                            Min({c.pos + c.arg.count, Len(Content)}))]_vars

\* A read that returns nothing was at the end of the data, or beyond it.
ReadEndsAtEnd ==
  [][\A t \in Tasks :
       At(t, "r_copy") /\ At(t, "done")' /\ call[t].arg.count > 0 =>
         (call'[t].data = <<>> <=> call[t].pos >= Len(Content))]_vars

\* llseek never stores a position outside the size it measured, for any
\* offset: the unsigned sum of SEEK_END does not let one through that wraps.
LseekWithinSize ==
  [][\A t \in Tasks :
       At(t, "l_store") /\ At(t, "idle")' =>
         f_pos'[call[t].file] \in 0 .. call[t].acc]_vars

\* The position of byte `offset` of the k-th oldest command, k from 0.
PositionOf(k, offset) == Len(FlattenSeq(SubSeq(Lines(Completed), 1, k))) + offset

\* Until the buffer is full AESDCHAR_IOCSEEKTO finds the command it names,
\* although it takes no lock and writers add commands while it counts them.
SeekToBeforeWrap ==
  [][\A t \in Tasks :
       At(t, "i_store") /\ At(t, "idle")' /\ ~Completed.full =>
         f_pos'[call[t].file]
           = PositionOf(call[t].arg.write_cmd,
                        call[t].arg.write_cmd_offset)]_vars

\* The device keeps its writers' promise: the last MaxOps lines in order, and
\* the bytes of each write together, whatever else runs, fails or is lost.
WriterIn == mtx # NoTask /\ call[mtx].pc \in Writing

BytesLeft(c) == SubSeq(c.arg.bytes, c.i + 1, Len(c.arg.bytes))

Log == INSTANCE CommandLog
         WITH window  <- IF loaded THEN Lines(Completed) ELSE <<>>,
              pending <- IF loaded /\ Pending # NULL THEN heap[g_buff] ELSE <<>>,
              writer  <- IF WriterIn THEN mtx ELSE NoTask,
              left    <- IF WriterIn THEN BytesLeft(call[mtx]) ELSE <<>>

ImplementsLog == Log!Spec

\* Whoever takes the mutex releases it.
MutexReleased == \A t \in Tasks : mtx = t ~> mtx # t \/ oops

\* llseek and ioctl return, however long writers keep changing the array.
WalksEnd ==
  \A t \in Tasks : call[t].pc \in Walking ~> At(t, "idle") \/ oops
=============================================================================
