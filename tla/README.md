# Verification of the AESD character device and socket server

TLA+ models of the programs in this repository, the TLC runs that check them on
small instances, and the theorems TLAPS proves about them for every instance.

## The system

The repository is a course project that grew from exercises into a small system:
a Linux character device, `/dev/aesdchar`, that keeps the last ten commands
written to it, and a socket server on port 9000 that appends what its clients
send to the device and sends the contents back. Older exercises stand beside it.

| component | state it keeps | operations | talks to |
|---|---|---|---|
| circular buffer (`aesd-char-driver/aesd-circular-buffer.c`) | ten (buffptr, size) entries, `in_offs`, `out_offs`, `full` | add an entry, find the entry at a position, total size, count, offset of a command | called by the device, under its lock or not |
| character device (`aesd-char-driver/main.c`) | the circular buffer, the partial line `g_buff`/`g_len`, the mutex, the file position of each open file, the blocks it allocated | load, unload, open, release, read, write, llseek, ioctl | the kernel's allocator, mutex and file layer; user tasks |
| threaded server (`server/aesd_server_thrd.c`, `main_thrd.c`; the one the Makefile builds) | listening socket, one thread per client, the thread list, `write_lock`, the global `log_fd`, signal flags | initialise, accept loop, connection handler, message handling (write, dump, seek), maintenance, shutdown | clients, the device, signals |
| poll server (`server/aesdsocket.c`, `main.c`; no longer built) | client table, log file and its descriptor, signal flags | initialise, poll loop, message handling, dump, shutdown | clients, a log file, signals |
| SLIST (`server/slist/queue.h`) | singly linked list | insert head, remove, safe iteration | the thread list |
| threading example (`examples/threading`) | a mutex given by the caller, one record per thread | start, thread body | pthreads |
| system call example (`examples/systemcalls`) | none between calls; processes and descriptors within one | `do_system`, `do_exec`, `do_exec_redirect` | fork, exec, wait |
| finder-app, autotest, student-test, build and load scripts | none | straight-line programs and scripts | files |

What is hard in it:

- *Concurrency in the device.* `read` and `write` hold `aesd_device.mtx`;
  `llseek` and `ioctl` take no lock and walk the array while a writer stores into
  it. A line may be written in pieces by several callers through the one
  `g_buff`. The kernel does not serialise calls on a character device's file
  position, so calls on a shared file race on `f_pos` too.
- *Failure in the middle.* `aesd_write` reallocates for every byte; an allocation
  can fail after part of the buffer was taken. Signals interrupt the wait for the
  lock; copying to the caller can fault.
- *Boundaries.* A full and an empty buffer have equal indices; the search has
  three exits; `SEEK_END` mixes a signed offset with an unsigned size.
- *Processes in the system call example.* The child shares what `stdout` had buffered
  and the open files with the program; either side has several ways to fail, and a
  child that fails must not go on as the program.
- *Concurrency in the servers.* One global descriptor for all threads, closed
  after the lock is released; an error path that keeps the lock; shutdown that
  destroys the lock before it joins the threads; signals against a blocking wait.

What makes each component correct:

- circular buffer: it always holds exactly the last ten commands in order, it
  hands back exactly the block it drops, search and measures agree with the
  commands concatenated;
- device: every block it allocates has one owner and is freed once; the lock is
  released on every path; the bytes of one write stay together and the lines in
  order; a read returns a slice of the contents; positions stay inside the data;
- threaded server: descriptors are closed once, by their owner; the lock is
  released on every path; every thread is joined; every client is answered;
  a signal ends the server;
- poll server: every client in the table is served; the table holds the connections
  and nothing else, so that only a full house or a signal ends the server; the log
  holds what was received, also after a crash and a restart;
- examples: descriptors and memory do not leak on any path, and the result says
  whether the command ran.

## The modules

| module | models | kind |
|---|---|---|
| `CircularBuffer` | every function of `aesd-circular-buffer.c`, as an operator on a buffer value | operators |
| `CommandWindow` | what the circular buffer promises: the last `MaxOps` commands, and the one dropped | abstract specification |
| `CommandRing` | the circular buffer under one caller; implements `CommandWindow` | state machine |
| `CommandRingProofs` (with `CircularBufferProofs`) | proofs about the buffer and `CommandRing` | proofs |
| `CommandLog` | what the device promises its writers: whole lines, in order, writes not mixed | abstract specification |
| `AesdChar` | the device under concurrent callers; implements `CommandLog` | state machine |
| `Device` | the device as a caller sees it that is alone: the effect of each call as one operator | operators |
| `WholeWrites` | what a write promises as a whole: one step of `Device`, or the part before memory ran out | abstract specification |
| `AesdCharCalls` | `AesdChar` with the history of its whole calls; implements `WholeWrites` | state machine |
| `AesdCharProofs` | the inductive invariants of `AesdChar` and `AesdCharCalls` and the theorems they give | proofs |
| `ServerThrd` | the threaded server, its clients and the kernel's descriptor table, over the device | state machine |
| `ServerThrdProofs` | the lock and the list of threads of `ServerThrd` | proofs |
| `ServerFdsProofs` | who owns which descriptor in `ServerThrd` | proofs |
| `ServerAnswerProofs` | the types of `ServerThrd`, what a message is answered with, and that connections are kept | proofs |
| `ServerPoll` | the poll server, its clients and the log file | state machine |
| `ServerPollProofs` | the inductive invariant of `ServerPoll` and the theorems it gives | proofs |
| `SystemCalls` | `systemcalls.c`: the program, its children and the commands they become | state machine |
| `SystemCallsProofs` | the inductive invariant of `SystemCalls` and the theorems it gives | proofs |
| `MCCommandRing`, `MCAesdChar`, `MCAesdCharTorn`, `MCAesdCharCalls`, `MCServerThrd`, `MCServerPoll`, `MCSystemCalls` | instances for TLC | |

`AesdChar`, `ServerThrd` and `WholeWrites` EXTEND `Device`, which EXTENDS `CircularBuffer`;
`CommandRing`, `AesdChar` and `AesdCharCalls` INSTANCE their abstract specifications under a
refinement mapping. So the operators that `ServerThrd` takes for the calls of the device are
the ones that the driver is shown to keep to. `ServerAnswerProofs`
EXTENDS `ServerFdsProofs`, which EXTENDS `ServerThrdProofs`: each needs the invariants of the
one before. All proofs about the buffer, the device and the threaded server cite the lemmas
of `CircularBufferProofs`.

### How AesdChar corresponds to `aesd-char-driver/main.c`

The static variables `circular_buf`, `g_buff` and `g_len` keep their names. `heap`
and `allocated` are the kernel's allocator, `mtx` is who holds
`aesd_device.mtx`, `opened` and `f_pos` are the open files, and `call[t]` is the
call task `t` has under way: where it is, its arguments and its locals. A call
begins in `WriteBegin`, `ReadBegin`, `LseekBegin` or `IoctlBegin`.

- *write* waits in `Lock`, or leaves in `Interrupted`; stores one byte a step
  (`WriteChar`, `WriteNewline`), the call of `add_entry` with the `kfree` that
  follows it as a second step (`WriteEntry`), so that unlocked callers see the
  array between its two assignments; and leaves in `WriteEnd` or, when
  `krealloc` fails, in `WriteNoMem`.
- *read* copies under the lock in one step (`ReadCopy`; nobody can see inside),
  or faults (`ReadFault`).
- *llseek* and *ioctl* look at one entry a step (`LseekSize`, `IoctlCount`,
  `IoctlSeek`), then decide, then store the position.
- `CallDone` is the kernel storing its copy of the position back, with which it
  undoes an llseek on the same file in between.
- `aesd_init_module` and `aesd_cleanup_module` are insmod and rmmod.
- `LockOops`: the code zeroes the mutex and never calls `mutex_init`, so a caller
  that must queue may follow a null pointer. It is a step that ends the run
  (`oops`), and the other way, a mutex that works, is a step too.

Sizes and positions keep their width in the one place where it matters, the
`SEEK_END` case of `aesd_seek` (`ToUnsigned`, `ToSigned`, modulo `SizeMod`).

`AesdCharCalls` adds two history variables and changes no step. `Dev` is the driver's state
as a `Device`: each pointer replaced by the bytes it points to, the `add_entry` under way
done. `before` is what `Dev` was when no write was under way last; `alone` are the tasks that
no write has met since they were idle.

### How ServerThrd corresponds to `server/aesd_server_thrd.c`

`log_fd`, `write_lock`, `thread_clients`, `slh_first` and `sle_next` keep their
names; the two signal flags, which are only ever tested together, are
`sig_triggered`. `fds` is the kernel's descriptor table: what each number stands
for, looked up again at each call, because the hazard of this code is a number
whose meaning changes. `destroyed` says whether `pthread_mutex_destroy`
succeeded. `main` and `thr[t]` are where the main thread and each connection
thread are; `td` holds the ThreadData blocks in use. `wire`, `peer` and `sends` are
the clients. The device is the one of `Device`, its calls single steps.
`overlapped` and the field `answer` are history.

Each action is one system call or lock operation. `Socket`, `Bind`, `make_daemon`,
`Listen` and `StartFails` are `aesd_thrd_initialize`; a server started with `-d`
closes the descriptors it inherited (`Std`), so that their numbers go to the first
connection and to the device. `listen` on a bound socket is taken to succeed. `Accept` ... `MaintainEnd` are
`aesd_thrd_run` with `add_thread` and `do_maintenance`, `CloseListen` ... `Exit` are
`aesd_thrd_shutdown`, `Read` ... `LogPeer` are `connection_handler`. `Lock`,
`OpenLog`, `TestLog`, `CloseLog`, `ReadLog` and `SendChunk` are the calls that
`write_safe`, `dump_file_to_client` and the seek command have in common; the prefix
of `pc` (`w_`, `d_`, `s_`) says in which of the three a thread is, and what comes
next differs as it does in the code: `write_safe` unlocks before it closes and
keeps the lock when open fails, `dump_file_to_client` does neither.

### How ServerPoll corresponds to `server/aesdsocket.c`

`client`, `maxi`, `nready` and `file_size` keep their names; `client[0]`, the
listening socket, is `listen_revents`. A descriptor is the connection it stands
for: this server has one thread and one place that closes a connection, so
numbers are never confused. `Start`, `make_daemon` and `StartFails` are
`aesd_initialize`; its `setsockopt`, which is given `sockfd` (still 0) where the
listening socket is meant (`aesdsocket.c:73`), changes nothing here. `file` and `pos` are the log file and the position of
`log_fd`, with `Overwritten` for what `write` does at a position, holes included.
`main` is where the server is (`loop` before poll, `poll` in it, `test` after it,
then `accept`, `scan`, `message`, `dump`, `shutdown`) with the index `i`, what is
left of the message and of the answer. A message ends for `strchr` at its first NUL
(`LineEnds`), so that what follows is stored as if it were the beginning of a line.
`Crash` kills the process at any time, which closes its connections and keeps the
file; `Restart` starts it on that file. `received` and `short` are history. The
server is modelled with the regular file of the configuration without
`USE_AESD_CHAR_DEVICE`, for which it was written: on it `lseek` does not fail.
`Leave` has the three ways a connection ends: at its end, reset, or with another
error, which `read` reports once before the end.

### How SystemCalls corresponds to `examples/systemcalls/systemcalls.c`

One action is one system call with the assignments that follow it, of the program
or of a child; the two interleave. `call` is the call under way with its locals
(`fd`, `pid`, `result`), `proc` the children with a copy of the descriptors and of
what `stdout` has buffered (`unflushed`): `fork` copies both, `exit` writes the buffer
out, `execv` drops it. `do_system` is one step, as the library promises no more
than its status. `do_exec_redirect` goes through `Flush`, `Fork`, `Close` and `Wait`, its
child through `DupOut`, `DupErr`, `ChildClose` and `Exec`; a child that fails leaves
through `ChildExit`. `content`, `leaked`, `orphans` and the fields `ran`, `status` and
`wrote` are history. The program may have been started without a standard output
or error, in which case the file gets their number.

## The runs

| run | question | bounds | states | result |
|---|---|---|---|---|
| `ring` | Does the buffer keep the last commands, hand back the one dropped, and do search and measures agree with the commands concatenated? | 3 slots, 3 pointers, sizes 1 to 3 | all | holds |
| `ring_seek` | Is the offset for a command where the command starts? | the same | | violated: finding 1 |
| `device` | Are memory, lock and contents right under two callers, failures and reloading, and does each write and read do as a whole what `Device` says? | 2 tasks, 1 file, 2 slots, 5 blocks, 2 buffers to write, lines of at most 2 bytes | all | holds |
| `device_seek` | What can be said of llseek and ioctl without the lock, and does a seek that no write meets do what `Device` says? | 2 tasks, 1 file, 4 blocks, offsets at and beyond every edge, width 2^5 | all | holds |
| `device_live` | Is the mutex released, do the walks end? | 2 tasks, 4 blocks, lines of 1 byte, no symmetry | all | holds |
| `device_torn` | Did a size that llseek measured ever exist? | as `device_seek` | | violated: finding 2 |
| `server_threads` | Are list, lock and descriptors right from the start through connecting, failing, leaving and shutdown, as a daemon or not? | 3 clients, 2 blocks for threads, 4 descriptors of which 1 is inherited, 2 messages | 4.2 million | holds |
| `server_messages` | Is everyone answered while clients take turns, and does a signal end the server? | 2 clients, 2 threads, 4 descriptors, 2 messages of 2 kinds | 1.0 million | holds |
| `server_poll` | Is everyone served, does the table hold the connections and the file what was received, is a signal noticed? | 3 clients, 2 entries, 2 messages of a line and of one that `strchr` does not see, crashes and restarts | 0.6 million | holds |
| `system_calls` | Does the result say how the command ended, is nothing left behind, does the file hold the command's output, does every call return? | 2 processes, 4 descriptors, 1 file, with or without a standard output and error | 0.9 million | holds |
| `server_connection` | Does a client that stays keep its connection? | 3 clients and threads, 5 descriptors of which 1 is inherited, 2 messages | | violated: finding 3 |
| `server_term` | Does SIGTERM end the server? | 2 clients and threads, 2 messages | | violated: finding 4 |

Three properties of the driver and one of the ring are proved and are in no run: the runs
check `ReadsWhole`, which implies `ReadReturnsSlice` and `ReadEndsAtEnd`; `RingConsistent`
of the buffer alone, which the driver's extends to a store under way; and `TypeOK` of the
driver, which has the ring's types in it.

Every run that passes explores its state space completely, and each of its
properties comes with a faulty variant of one definition (an operator next to the
one it varies, listed under `mutants` in `PROJECT.json`) for which the same run
finds the property violated.

*Why the bounds are enough.* The ring has no state beyond its indices, flag and
slots, so with 3 slots every combination of empty, partial, full and wrapped
occurs, and the theorems below lift the core of it to every size. For the device,
two slots wrap after three lines; the blocks beyond those two are the partial
line and one buffer for each writer, and `krealloc` and `kmalloc` may fail whether blocks
are left or not. One buffer is a newline, the other a line and the beginning of the next: a
write may end the line that another has begun, or meet it when memory runs out.
`MaxLine` is the length at which
`krealloc` finds no memory, which the code handles, so the bound cuts no behaviour
off but ends every line in an error path. One shared file is the harder case: two
files share nothing but the device. `SizeMod` is 32, more than twice
the largest sum of sizes, so that only offsets near the ends of a `loff_t` wrap.
For the threaded server, four descriptors are the one it inherits, the listening
socket and two more, for connections and for the device; a daemon has three. So
`open` and `accept` both meet a full table, and the number that `make_daemon` closes is
given away again. One inherited descriptor stands for the three of the program:
what matters is that there is a number below the listening socket's which is taken or
free. The third client finds no ThreadData block. Two messages are the least for two
threads to handle messages at once, and the deepest behaviours of the findings need no
more. For the poll server, three clients on two entries give an entry a second life,
leave a hole below `maxi`, and fill the table; the message is a line followed by one
that `strchr` misses, which takes two writes and an answer of two chunks, and the second
message meets what the first, or a process that was killed after it, has left in the
file. For the system calls, two processes let a call run while the child of an
interrupted one is still there, four descriptors leave one free for the file when
the standard ones are open and none for a second, and the calls go on for ever, so
that any of them may follow any other.

*Deadlock* is not checked where the system may really stop: after a kernel oops
(device), and once the server's process has ended (servers) or is stuck, which is
finding 4. The ring and the system calls check it.

*Fairness.* `AesdChar!FairSpec` gives weak fairness to the steps of a task inside the
driver that no other task can hold up: the kernel schedules it again. Nothing is
assumed of getting the mutex, and nobody must make a call. `ServerThrd!FairSpec`
gives weak fairness to the main thread and to each connection thread, lock
included: every thread that shutdown joins makes a bounded number of
acquisitions, so that weak fairness is enough. It also lets every client leave in
the end, without which `pthread_join` waits for as long as the client likes: the
code sets no timeout and does not close the connections of the threads it joins.
That clients leave is an assumption, not something the code provides.
`ServerPoll!FairSpec` gives weak fairness to the server and strong fairness to a
`poll` that succeeds, because `PollFails` may come between; that clients read
their answers, so that `write` does not block the only thread, is part of it. A
restart is never assumed. `SystemCalls!FairSpec` gives weak fairness to the program
and to each child, and lets every command end, without which `waitpid` waits for as
long as the command likes.

## The findings

1. `aesd_circular_buffer_seek` (`aesd-circular-buffer.c:145`) adds up sizes from slot 0,
   not from the oldest command: wrong once a command was dropped.
2. `aesd_seek` (`main.c:155`) measures the size without the lock and can get one
   larger than the data ever had.
3. `write_safe` (`aesd_server_thrd.c:314`) closes the global `log_fd` after it
   released the lock. Thread 1 unlocks; thread 2 locks and stores its own
   descriptor in `log_fd`; thread 1 closes that one; `accept` gives the number to a
   new client; thread 2 closes the new client's connection.
4. `write_safe` (`aesd_server_thrd.c:309`) keeps the lock when `open` fails, which it
   does once shutdown has removed the device node. The next message waits forever
   and so does shutdown. `SignalStops` shows that this is the only way: unless
   the lock is lost, the server ends.

Also modelled, without a property because nothing in the repository promises
otherwise: SIGPIPE and a failed `malloc` end the server (`Sigpipe`, `MallocFails`);
the uninitialised mutex (`LockOops`); a position stored back over an llseek
(`CallDone`); a poll server that ends when its table is full (`TableFull`), that
goes on after a short write with a hole in the file (`WriteLine`), and that sleeps
through a signal which comes just before `poll` (`Idle`); an `AESDCHAR_IOCSEEKTO` whose
offset equals the command's size, which is accepted (`SeekToOK`). Two failures in
`systemcalls.c` are named as exceptions in the properties: when `fork` fails `do_exec`
returns true although its comment (line 42) promises false, and `do_exec_redirect` leaves its
file open (`ForkFails`); when `waitpid` is interrupted the child stays a zombie
(`WaitFails`). The properties `DescriptorsOwned` and `MessageAnswered` speak of
clients that take turns (`~overlapped`): once two messages were handled at the
same time finding 3 is possible and neither can be promised any more.

## The proofs

TLAPS proves every safety property of every passing run, and the refinements, for every
value of the constants that the ASSUMEs allow: any number of slots, tasks, files, blocks,
clients, threads, descriptors and processes, any bytes, messages and buffer sizes, any
width. The assumptions are named in the module that declares the constants. They say of
which sort a constant is (numbers are numbers, messages are sequences, a "none" is none of
the things it stands beside), and that the threads are finitely many.

- *Circular buffer.* `RingTypeCorrect` and `RingStaysConsistent`. The inductive
  invariant is `TypeOK` with `RingShape`: indices, flag and the set of filled slots
  determine each other. Most of the work is arithmetic of intervals modulo the
  number of slots, stated once as lemmas in `CircularBufferProofs`.
  `RingImplementsWindow`: every step of `CommandRing` is a step of `CommandWindow`
  under the mapping that reads the slots oldest first.
  `RingFindMatches`, `RingMeasuresMatch` and `RingSeekBeforeWrap` are about the search and
  the measures. A command's start is a running total of the sizes before it. The search
  walks slots from the oldest and the concatenation puts the same lines end to end, so that
  both are decided by the same totals (`FlattenedPlaces` says where each byte of a
  concatenation is). The measures sum from slot 0 instead: a sum around the ring is the
  same from wherever it starts (`TotalsRotate`), and the two orders agree while the oldest
  command is in slot 0 (`TotalsUnrotated`), which is the case finding 1 leaves.
- *Device.* `DriverTypeCorrect`, `DriverLocksSections`, `DriverOwnsMemory`,
  `DriverRingConsistent`, `DriverLinesWellFormed` and `DriverLseekWithinSize`. None
  of these is inductive alone. Types need the lock (two writers would grow
  `g_buff` at once), memory needs the ring (the slot that `add_entry` overwrites is
  the one whose block is handed back), and lines need memory (a block that had two
  owners could change under a stored command). The inductive invariant is
  therefore their conjunction, with what each call knows at each of its steps.
  Memory is argued through the map from owners to blocks (`Owned`): every action
  moves a block from one owner to another, adds one or drops one, and a few
  lemmas about such changes stand for all the actions. `Completed` is the buffer as it will be
  when the `add_entry` under way is done, which lets the ring's lemmas apply
  although the array is stored to in two steps. `DriverLseekWithinSize` is an action
  property from the same invariant; the case `SEEK_END` is the one that needs the
  arithmetic of the unsigned sum.
- *The device implements `CommandLog`* (`DriverImplementsLog`). The mapping shows the lines
  of `Completed` (`LogWindow`), the bytes behind the last newline (`LogPending`), and who is
  between taking and releasing the lock with what is left of its bytes (`LogWriter`,
  `LogLeft`). Step by step: taking the lock begins a write; `WriteChar` and `WriteNewline`
  put one byte, and the line is complete at the newline although the array is stored to
  only in `WriteEntry`, which is therefore a stutter; `WriteEnd` and `WriteNoMem` end
  the write; rmmod forgets everything. All other steps, the unlocked readers among them,
  leave what the mapping looks at alone (`QuietSteps`).
- *Reading and seeking.* `DriverReadReturnsSlice` and `DriverReadEndsAtEnd`: each turn of the
  read loop copies what the search finds, up to the end of one command, and the loop
  invariant is that what was copied is the slice of the concatenation from the start to
  here. `DriverSeekToBeforeWrap` needs an inductive invariant of its own on top of the
  first (`SeeksOK`): what an ioctl has counted and summed so far, without the lock, while
  writers add commands. It holds until the buffer is full, because until then slots are only
  ever filled, so that a sum over slots already passed does not change.
- *Whole calls of the device*, which join the proofs about the device and those about the
  threaded server. `DriverImplementsWrites`: seen between two writes the driver is a device
  that takes each write in one step. `DriverWriteStoresAll`: a write that runs to its end has
  stored all its bytes. `DriverReadsWhole` and `DriverSeeksWhole`: a read, and a seek that no
  write meets, find that device. The invariant is `History`: while a write is under way `Dev`
  is `PutBytes` of `before` after as many bytes as the loop has taken (`PutBytesSteps` is the
  step of that recursion), and otherwise it is `before`. Only the holder of the lock moves
  `Dev` (`StepIs`), which is where the lock and the ownership of memory come in: a block
  that is freed or written to must not be one that `Dev` reads. A seek takes no lock; its
  proof needs `AloneOK`, what the three walks of an ioctl have found so far. Writes hold the
  lock to their end, so `alone` is empty during one and the walks see a buffer that does not
  change. It says more than `DriverSeekToBeforeWrap` in one way, as it also holds of a buffer
  that has wrapped, and less in another, as no write may come between.
- *Threaded server, the lock.* `ServerLockExcludes`: no two threads are inside `write_safe`
  and `dump_file_to_client`, for any number of clients, threads and descriptors.
  The inductive invariant `LockInv` adds only that every thread has its record. That
  is enough because a thread enters with a mutex that was free, destroyed or not, a
  destroyed mutex otherwise sends it away, and only a thread inside ever unlocks: a
  lock that `write_safe` kept, or that a destroyed mutex did not give back, shuts
  everybody out and lets nobody in.
- *Threaded server, the list.* `ServerThreadsListed` and `ServerJoinsAll`. `ListInv` says
  that there is a sequence `l` of blocks along which `slh_first` and `sle_next` lead
  (`Links`), that it has every block in use once (all but the one about to be put
  there), and that `thread_clients` is its length. Insertion puts one in front (`AddLinks`);
  `SLIST_REMOVE`, at the head or behind any element, leaves the sequence without it
  (`RemoveLinks`). The walk of the property, a recursive function, is then shown to be `l`.
- *Threaded server, the descriptors.* `ServerDescriptorsOwned`. What each owner must close is
  a set of duties by kind: connections of threads, the connection just accepted, the
  device, the listening socket, the inherited ones. `Owned` makes duties and open numbers
  correspond one to one, and each action gains a duty with a number, loses one with it, or
  passes one on. That the device has one owner at a time rests on `TakesTurns`: while
  `overlapped` is false at most one thread is inside `process_message`. `write_safe` closing
  after its unlock is harmless exactly there.
- *Threaded server, types and answers.* `ServerTypeCorrect` is the conjunction of the
  invariants above with `DataOK`, by which the device holds whole lines. `ServerMessageAnswered`
  adds `AnswerInv`: once a line was written something is stored, and in the loop that reads
  the device what was read is the slice of its content from where the loop began to the
  position of `log_fd` (`ReadFrom`). It is inductive only together with `Owned`, as
  `log_fd` must stand for the device at every turn and no thread may take the device for its
  connection, and with `TakesTurns`, as the content must not change between two reads.
  `ServerConnectionKept` is the other side of finding 3: `ConnectionKept` does hold while
  clients take turns (`KeptInTurns`), as only the thread of a connection closes its number
  (`ConnsClosed`), after a read that got nothing from a client that has gone (`EndsOK`).
- *Poll server.* `Typed`, `TableHolds`, `ScanReadsReady`, `EndsFull`, `FileHolds` and
  `Answered`. `PollInv` has four parts beside the types: the table holds the
  connections once and none beyond `maxi` (`TableOK`); what `nready` still counts is what is
  marked from `i` on, so that it reaches zero no later than the marks do (`MarksOK`);
  in each phase of a message the file is what was received up to here (`FileOK`);
  and `EndsOnlyFull` itself. `Answered` is an action property from `FileOK`.
- *System calls.* `CallsTypeCorrect`, `CallsTellEnd`, `CallsLeaveNothing` and
  `CallsRedirect`, for any number of processes, descriptors and files. The inductive
  invariant adds what a call and a child know at each step (`CallOK`, `ChildOK`) and how
  far a child has come with its file (`Redirecting`). The last is where the argument
  is: `dup2` and `close` undo each other if the file was opened at 1 or 2, which cannot be
  while the program has a standard output and error, and a child inherits every file that an
  earlier call lost, which is why the theorem speaks of the descriptors outside `leaked`.
  A step of a child is shown to preserve everything once (`ChildMoves`), from
  what holds of its new record. `CallsWriteOutput` has a second invariant, `OutInv`: the
  program's text stays in its buffer or in its own output, because it is flushed before the
  fork, and whoever writes to the file is the command of the call under way.

*Time limits.* A leaf that takes a good part of a prover's default time states a longer limit
of its own (`SMTT(30)`, `ZenonT(60)`), so that the proofs do not depend on the machine's speed.

*Recursion.* What a recursive definition computes is proved by induction over an interval
(`IntervalInduction`), with the property given as a set, since the induction theorems of the
library that take an operator cannot be instantiated; that a recursive definition has a value
at all is `IterationExists`.

*Only model-checked:* liveness (`MutexReleased`, `WalksEnd`, both `SignalStops`,
`EveryoneServed`, `CallsReturn`), which TLAPS cannot do, and the four findings, which
are counterexamples.

## What is not modelled

- In the device: device numbers, cdev and mode bits, and the ioctl commands that
  are rejected before they look at anything.
- In the threaded server: logging, the
  timestamp timer, which is not compiled when the device is used, and partial
  writes to a socket. Delivery of a signal to a thread other than the main one,
  which the kernel prefers. The result of `open` is stored in `log_fd` in the same
  step.
- In the poll server: logging, and messages that fill the whole buffer, behind which
  the code stores a NUL.
- In `systemcalls.c`: what the command does besides writing to 1 and 2 and ending,
  the mode and the missing O_TRUNC of the output file, and `argv`.
- The threading example: one thread that sleeps, locks its caller's mutex, sleeps and
  unlocks it. It shares nothing but that mutex, so a model of it would restate its
  two calls.
- `queue.h` beyond the four macros in use, finder-app, the tests and the scripts: no
  state of their own that outlives a call, see the notes in `PROJECT.json`.

## Plan

Done: every component with state of its own is modelled, the threading example excepted;
every safety property of the passing runs is proved; and the device on which the threaded
server is modelled is the one that the driver is proved to be. What is left:

- The threaded server opens the device anew for every operation, and at most one thread is
  inside `write_safe` or `dump_file_to_client`. Its seek command takes no such lock, so that
  another thread's write may meet it: there `SeeksWhole` promises nothing, while `ServerThrd`
  makes the ioctl one step. A model of the server over `AesdChar` itself would show what the
  client may then be sent; it is beyond TLC for two clients and a device of several slots.
