------------------------------ MODULE ServerThrd ------------------------------
(***************************************************************************)
(* The threaded server of server/aesd_server_thrd.c and main_thrd.c, from  *)
(* the point where main has installed its signal handlers.                 *)
(*                                                                         *)
(* The main thread accepts connections, starts a thread for each, keeps    *)
(* the threads in a singly linked list and joins those that have ended.    *)
(* Every message that a thread reads from its client is written to the     *)
(* device, or is a seek command; a line, and a seek command, is answered   *)
(* from the device.  All threads use one global descriptor, log_fd, for    *)
(* the device, and not all of its uses are under write_lock.               *)
(*                                                                         *)
(* One action is one system call or lock operation of one thread.  The     *)
(* device is the one of Device, each of its calls one step: AesdCharCalls  *)
(* shows how far the driver keeps to that.  The result of an open is       *)
(* stored in log_fd in the same step; each later use reads log_fd anew, as *)
(* in the unoptimised build of the Makefile.                               *)
(*                                                                         *)
(* The definitions whose names say what is wrong with them (Uncounted,     *)
(* DropsRest, AsHead, KeepsOpen, IgnoresEnd, Unchecked, Once, Leaks) are   *)
(* faulty variants of the one that follows them: the runs tell them from   *)
(* the code.                                                               *)
(***************************************************************************)
EXTENDS Device

CONSTANTS
  Clients,    \* the connections, numbered in the order of accept
  Threads,    \* the ThreadData blocks malloc finds, with the thread of each
  NoThread,   \* the holder of a free mutex
  Fds,        \* the descriptor numbers below the limit of the process
  Std,        \* those that it is started with: input, output and error
  SeekTos,    \* the pairs that AESDCHAR_IOCSEEKTO:x,y may carry
  Messages,   \* what one read of a connection may return
  MaxSends,   \* bound: the messages of all clients together
  BUFFSIZE

\* The bytes, and the seek commands, that a message is made of.
Chars == UNION {ToSet(m) : m \in Messages}

ASSUME ServerAssumption ==
  /\ NoThread \notin Threads
  /\ NULL \notin Threads \cup Clients
  /\ Threads \subseteq Nat /\ IsFiniteSet(Threads)
  /\ Clients \subseteq Nat
  /\ Fds \subseteq Nat
  /\ Std \subseteq Fds
  /\ SeekTos \subseteq [write_cmd : Nat, write_cmd_offset : Nat]
  /\ \A m \in Messages : m \in Seq(ToSet(m))
  /\ NULL \notin Seq(Chars)
  /\ MaxSends \in Nat
  /\ BUFFSIZE \in Nat \ {0}

VARIABLES
  (* the device and its node in the file system *)
  circular_buf,       \* each buffptr is the line itself
  g_buff,             \* the line that no newline has ended yet
  node,               \* filename_ exists
  (* the connections *)
  peer,               \* where each client is: "new", "here" or "gone"
  wire,               \* what a client has sent and the server has not read
  sends,              \* how many messages the clients have sent
  (* the process *)
  fds,                \* what each descriptor number stands for
  log_fd,
  write_lock,         \* who holds it
  destroyed,          \* pthread_mutex_destroy was called on it
  sig_triggered,      \* sigint_triggered or sigterm_triggered
  main,               \* where the main thread is, and its locals
  td,                 \* the ThreadData blocks in use
  slh_first,          \* the list of them
  sle_next,
  thread_clients,
  thr,                \* where each thread is, and its locals
  overlapped          \* history: two threads were handling messages at once

devVars == <<circular_buf, g_buff, node>>
netVars == <<peer, wire, sends>>
lockVars == <<write_lock, destroyed>>
listVars == <<td, slh_first, sle_next, thread_clients>>
vars == <<devVars, netVars, fds, log_fd, lockVars, sig_triggered, main, listVars,
          thr, overlapped>>

Free == [kind |-> "free", client |-> NULL, pos |-> 0]
Inherited == [kind |-> "std", client |-> NULL, pos |-> 0]
Listening == [kind |-> "listen", client |-> NULL, pos |-> 0]
Connected(c) == [kind |-> "conn", client |-> c, pos |-> 0]
LogAt(pos) == [kind |-> "log", client |-> NULL, pos |-> pos]

NoBlock == [fd |-> -1, is_completed |-> FALSE]

\* A thread: the message in buf, the chunk in tmpbuf that it copies to its
\* client, whether its last write went well, and, as history, all that it has
\* read from the device to answer the message.
NoThr == [pc |-> "none", buf |-> <<>>, tmpbuf |-> <<>>, ok |-> TRUE,
          answer |-> <<>>]

Init ==
  /\ circular_buf = EmptyBuffer
  /\ g_buff = <<>>
  /\ node = TRUE
  /\ peer = [c \in Clients |-> "new"]
  /\ wire = [c \in Clients |-> <<>>]
  /\ sends = 0
  /\ fds = [n \in Fds |-> IF n \in Std THEN Inherited ELSE Free]
  /\ log_fd = -1
  /\ write_lock = NoThread
  /\ destroyed = FALSE
  /\ sig_triggered = FALSE
  /\ main = [pc |-> "socket", listenfd |-> -1, connfd |-> -1, item |-> NULL]
  /\ td = [t \in {} |-> NoBlock]
  /\ slh_first = NULL
  /\ sle_next = [t \in Threads |-> NULL]
  /\ thread_clients = 0
  /\ thr = [t \in Threads |-> NoThr]
  /\ overlapped = FALSE

-----------------------------------------------------------------------------
(***************************************************************************)
(* The device.                                                             *)
(***************************************************************************)
Dev == [buf |-> circular_buf, line |-> g_buff]

Content == Contents(circular_buf)

SeekToOK(x) == SeekOK(circular_buf, x)

SeekToPosition(x) == SeekPosition(circular_buf, x)

(***************************************************************************)
(* Descriptors.  A number is what the process calls a file by: what it     *)
(* stands for is looked up at each call.                                   *)
(***************************************************************************)
Open(n) == IF n \in Fds THEN fds[n] ELSE Free

FreeFds == {n \in Fds : fds[n] = Free}

\* The number the kernel gives a new file, -1 when the table is full.
NewFd == IF FreeFds = {} THEN -1 ELSE Min(FreeFds)

SetFd(n, file) == fds' = [m \in Fds |-> IF m = n THEN file ELSE fds[m]]

close(n) == SetFd(n, Free)

\* read on a connection waits for a message or for the client to leave.
ReadBlocks(n) ==
  /\ Open(n).kind = "conn"
  /\ wire[Open(n).client] = <<>>
  /\ peer[Open(n).client] = "here"

\* What a read of up to `count` bytes gets, nothing at the end and on an error.
ReadGets(n, count) ==
  LET file == Open(n)
  IN  CASE file.kind = "conn" -> wire[file.client]
        [] file.kind = "log"  ->
             ReadAt(circular_buf, file.pos, count)
        [] OTHER -> <<>>

ReadTakes(n, bytes) ==
  LET file == Open(n)
  IN  /\ wire' = IF file.kind = "conn"
                 THEN [wire EXCEPT ![file.client] = <<>>] ELSE wire
      /\ IF file.kind = "log"
         THEN SetFd(n, LogAt(file.pos + Len(bytes))) ELSE UNCHANGED fds
      /\ UNCHANGED <<peer, sends>>

\* write stores what the device takes, and `ok` says whether that was all.
\* What a connection gets goes to its client, unless that is gone.
WritePuts(n, bytes, ok) ==
  CASE Open(n).kind = "log"  -> \E k \in 0 .. Len(bytes) :
                                  LET dev == PutBytes(Dev, bytes)[k]
                                  IN  /\ ok = (k = Len(bytes))
                                      /\ circular_buf' = dev.buf
                                      /\ g_buff' = dev.line
    [] Open(n).kind = "conn" -> /\ peer[Open(n).client] = "here" => ok
                                /\ UNCHANGED <<circular_buf, g_buff>>
    [] OTHER                 -> ~ok /\ UNCHANGED <<circular_buf, g_buff>>

(***************************************************************************)
(* The clients, and the signal.                                            *)
(***************************************************************************)
procVars == <<log_fd, lockVars, main, listVars, overlapped>>

\* What a client does before it is accepted is seen only afterwards.
Accepted(c) == peer[c] = "here" /\ \E n \in Fds : fds[n] = Connected(c)

\* A client sends when what it sent before was read: what TCP puts together
\* is one message of Messages.
Send(c, m) ==
  /\ Accepted(c)
  /\ wire[c] = <<>>
  /\ sends < MaxSends
  /\ wire' = [wire EXCEPT ![c] = m]
  /\ sends' = sends + 1
  /\ UNCHANGED <<devVars, peer, fds, procVars, sig_triggered, thr>>

\* A client closes its connection, or is cut off.
Leave(c) ==
  /\ Accepted(c)
  /\ peer' = [peer EXCEPT ![c] = "gone"]
  /\ UNCHANGED <<devVars, wire, sends, fds, procVars, sig_triggered, thr>>

\* SIGINT or SIGTERM.
Signal ==
  /\ ~sig_triggered
  /\ sig_triggered' = TRUE
  /\ UNCHANGED <<devVars, netVars, fds, procVars, thr>>

-----------------------------------------------------------------------------
(***************************************************************************)
(* The start: aesd_thrd_initialize.                                        *)
(***************************************************************************)
MainAt(pc) == main.pc = pc

Goto(pc) == main' = [main EXCEPT !.pc = pc]

Socket ==
  /\ MainAt("socket")
  /\ NewFd # -1
  /\ SetFd(NewFd, Listening)
  /\ main' = [main EXCEPT !.pc = "bind", !.listenfd = NewFd]
  /\ UNCHANGED <<devVars, netVars, log_fd, lockVars, sig_triggered, listVars, thr,
                 overlapped>>

\* bind, and whether the program was called with -d.
Bind ==
  /\ MainAt("bind")
  /\ \E is_daemon \in BOOLEAN : Goto(IF is_daemon THEN "daemon" ELSE "listen")
  /\ UNCHANGED <<devVars, netVars, fds, log_fd, lockVars, sig_triggered, listVars, thr,
                 overlapped>>

\* The server goes on as the second child, with copies of all that it had; its
\* parents have exited.  The numbers of Std are free for what comes.
make_daemon ==
  /\ MainAt("daemon")
  /\ fds' = [n \in Fds |-> IF n \in Std THEN Free ELSE fds[n]]
  /\ Goto("listen")
  /\ UNCHANGED <<devVars, netVars, log_fd, lockVars, sig_triggered, listVars, thr,
                 overlapped>>

\* listen, on a socket that is bound.
Listen ==
  /\ MainAt("listen")
  /\ Goto("poll")
  /\ UNCHANGED <<devVars, netVars, fds, log_fd, lockVars, sig_triggered, listVars, thr,
                 overlapped>>

\* pthread_mutex_init, socket, bind, fork, setsid or chdir fails: main returns,
\* or make_daemon exits.
StartFails ==
  /\ main.pc \in {"socket", "bind", "daemon"}
  /\ Goto("exited")
  /\ UNCHANGED <<devVars, netVars, fds, log_fd, lockVars, sig_triggered, listVars, thr,
                 overlapped>>

(***************************************************************************)
(* The main thread: aesd_thrd_run.                                         *)
(***************************************************************************)

\* poll is interrupted, or returns after 10 seconds, or with a connection: the
\* signal is looked at first.
PollSignal ==
  /\ MainAt("poll")
  /\ sig_triggered
  /\ Goto("close_listen")
  /\ UNCHANGED <<devVars, netVars, fds, log_fd, lockVars, sig_triggered, listVars,
                 thr, overlapped>>

\* poll returns because a client connects, and accept takes it.  The result of
\* accept is not looked at; a connection without a descriptor goes on waiting.
Accept ==
  /\ MainAt("poll")
  /\ ~sig_triggered
  /\ Open(main.listenfd) = Listening
  /\ \E c \in Clients : peer[c] = "new"
  /\ main' = [main EXCEPT !.pc = "create", !.connfd = NewFd]
  /\ IF NewFd = -1
     THEN UNCHANGED <<fds, peer>>
     ELSE LET c == Min({d \in Clients : peer[d] = "new"})
          IN  SetFd(NewFd, Connected(c)) /\ peer' = [peer EXCEPT ![c] = "here"]
  /\ UNCHANGED <<devVars, wire, sends, log_fd, lockVars, sig_triggered, listVars,
                 thr, overlapped>>

\* malloc and pthread_create: the new thread runs at once.  Which block malloc
\* finds does not matter.
Create(t) ==
  /\ MainAt("create")
  /\ DOMAIN td # Threads
  /\ t = Min(Threads \ DOMAIN td)
  /\ td' = [u \in DOMAIN td \cup {t} |->
              IF u = t THEN [fd |-> main.connfd, is_completed |-> FALSE]
                       ELSE td[u]]
  /\ thr' = [thr EXCEPT ![t] = [NoThr EXCEPT !.pc = "read"]]
  /\ main' = [main EXCEPT !.pc = "add", !.item = t]
  /\ UNCHANGED <<devVars, netVars, fds, log_fd, lockVars, sig_triggered, slh_first,
                 sle_next, thread_clients, overlapped>>

CreateFailsKeepsOpen ==
  /\ MainAt("create")
  /\ DOMAIN td # Threads
  /\ main' = [main EXCEPT !.pc = "maintain", !.item = slh_first]
  /\ UNCHANGED <<devVars, netVars, fds, log_fd, lockVars, sig_triggered, listVars, thr,
                 overlapped>>

\* pthread_create fails.
CreateFails ==
  /\ MainAt("create")
  /\ DOMAIN td # Threads
  /\ close(main.connfd)
  /\ main' = [main EXCEPT !.pc = "maintain", !.item = slh_first]
  /\ UNCHANGED <<devVars, netVars, log_fd, lockVars, sig_triggered, listVars, thr,
                 overlapped>>

\* The result of malloc is not looked at either.
MallocFails ==
  /\ MainAt("create")
  /\ DOMAIN td = Threads
  /\ Goto("killed")
  /\ UNCHANGED <<devVars, netVars, fds, log_fd, lockVars, sig_triggered, listVars,
                 thr, overlapped>>

\* SLIST_INSERT_HEAD, then do_maintenance starts at the head.
AddThreadUncounted ==
  /\ MainAt("add")
  /\ sle_next' = [sle_next EXCEPT ![main.item] = slh_first]
  /\ slh_first' = main.item
  /\ Goto("maintain")
  /\ UNCHANGED <<devVars, netVars, fds, log_fd, lockVars, sig_triggered, td, thr,
                 overlapped, thread_clients>>

AddThreadDropsRest ==
  /\ MainAt("add")
  /\ slh_first' = main.item
  /\ thread_clients' = thread_clients + 1
  /\ Goto("maintain")
  /\ UNCHANGED <<devVars, netVars, fds, log_fd, lockVars, sig_triggered, td, thr,
                 overlapped, sle_next>>

add_thread ==
  /\ MainAt("add")
  /\ sle_next' = [sle_next EXCEPT ![main.item] = slh_first]
  /\ slh_first' = main.item
  /\ thread_clients' = thread_clients + 1
  /\ Goto("maintain")
  /\ UNCHANGED <<devVars, netVars, fds, log_fd, lockVars, sig_triggered, td, thr,
                 overlapped>>

RemoveAsHead(elm) ==
  slh_first' = sle_next[elm] /\ sle_next' = [sle_next EXCEPT ![elm] = NULL]

\* SLIST_REMOVE: the head, or the one that follows some other element.
SLIST_REMOVE(elm) ==
  IF slh_first = elm
  THEN slh_first' = sle_next[elm] /\ sle_next' = [sle_next EXCEPT ![elm] = NULL]
  ELSE LET curelm == CHOOSE u \in DOMAIN td : sle_next[u] = elm
       IN  /\ sle_next' = [sle_next EXCEPT ![curelm] = sle_next[elm],
                                           ![elm] = NULL]
           /\ UNCHANGED slh_first

\* pthread_join waits for the end of the thread; then its blocks are freed.
JoinAndFree(t) ==
  /\ thr[t].pc = "ended"
  /\ thr' = [thr EXCEPT ![t] = NoThr]
  /\ td' = [u \in DOMAIN td \ {t} |-> td[u]]

\* One element of do_maintenance.
Maintain ==
  /\ MainAt("maintain")
  /\ main.item # NULL
  /\ main' = [main EXCEPT !.item = sle_next[main.item]]
  /\ IF td[main.item].is_completed
     THEN /\ JoinAndFree(main.item)
          /\ SLIST_REMOVE(main.item)
          /\ thread_clients' = thread_clients - 1
     ELSE UNCHANGED <<listVars, thr>>
  /\ UNCHANGED <<devVars, netVars, fds, log_fd, lockVars, sig_triggered, overlapped>>

MaintainEnd ==
  /\ MainAt("maintain")
  /\ main.item = NULL
  /\ main' = [main EXCEPT !.pc = "poll", !.connfd = -1]
  /\ UNCHANGED <<devVars, netVars, fds, log_fd, lockVars, sig_triggered, listVars,
                 thr, overlapped>>

(***************************************************************************)
(* aesd_thrd_shutdown, and the end of main.                                *)
(***************************************************************************)
CloseListen ==
  /\ MainAt("close_listen")
  /\ close(main.listenfd)
  /\ Goto("remove")
  /\ UNCHANGED <<devVars, netVars, log_fd, lockVars, sig_triggered, listVars, thr,
                 overlapped>>

RemoveFile ==
  /\ MainAt("remove")
  /\ node' = FALSE
  /\ Goto("destroy")
  /\ UNCHANGED <<circular_buf, g_buff, netVars, fds, log_fd, lockVars, sig_triggered,
                 listVars, thr, overlapped>>

\* pthread_mutex_destroy refuses a mutex that is held.
DestroyLock ==
  /\ MainAt("destroy")
  /\ destroyed' = (write_lock = NoThread)
  /\ Goto("join")
  /\ UNCHANGED <<devVars, netVars, fds, log_fd, write_lock, sig_triggered, listVars,
                 thr, overlapped>>

JoinFirst ==
  /\ MainAt("join")
  /\ slh_first # NULL
  /\ JoinAndFree(slh_first)
  /\ slh_first' = sle_next[slh_first]
  /\ sle_next' = [sle_next EXCEPT ![slh_first] = NULL]
  /\ UNCHANGED <<devVars, netVars, fds, log_fd, lockVars, sig_triggered, main,
                 thread_clients, overlapped>>

Exit ==
  /\ MainAt("join")
  /\ slh_first = NULL
  /\ Goto("exited")
  /\ UNCHANGED <<devVars, netVars, fds, log_fd, lockVars, sig_triggered, listVars,
                 thr, overlapped>>

-----------------------------------------------------------------------------
(***************************************************************************)
(* A connection's thread: connection_handler.                              *)
(***************************************************************************)
At(t, pc) == thr[t].pc = pc

Become(t, r) == thr' = [thr EXCEPT ![t] = r]

To(t, pc) == Become(t, [thr[t] EXCEPT !.pc = pc])

mainVars == <<sig_triggered, main, listVars>>

\* Outside process_message.
Outside == {"none", "read", "close", "log_peer", "ended"}

IsSeek(buf) == Head(buf) \in SeekTos

ReadIgnoresEnd(t) ==
  /\ At(t, "read")
  /\ ~ReadBlocks(td[t].fd)
  /\ LET bytes == ReadGets(td[t].fd, BUFFSIZE)
     IN  /\ bytes # <<>>
         /\ ReadTakes(td[t].fd, bytes)
         /\ Become(t, [NoThr EXCEPT
                         !.pc = IF IsSeek(bytes) THEN "s_open" ELSE "w_lock",
                         !.buf = bytes])
  /\ UNCHANGED <<devVars, log_fd, lockVars, mainVars, overlapped>>

\* read, and the branch of process_message.
Read(t) ==
  /\ At(t, "read")
  /\ ~ReadBlocks(td[t].fd)
  /\ LET bytes == ReadGets(td[t].fd, BUFFSIZE)
     IN  /\ ReadTakes(td[t].fd, bytes)
         /\ IF bytes = <<>>
            THEN To(t, "close") /\ UNCHANGED overlapped
            ELSE /\ Become(t, [NoThr EXCEPT
                                 !.pc = IF IsSeek(bytes) THEN "s_open" ELSE "w_lock",
                                 !.buf = bytes])
                 /\ overlapped' = (\/ overlapped
                                   \/ \E u \in Threads \ {t} : thr[u].pc \notin Outside)
  /\ UNCHANGED <<devVars, log_fd, lockVars, mainVars>>

\* The connection is reset or at its end.
CloseConn(t) ==
  /\ At(t, "close")
  /\ close(td[t].fd)
  /\ td' = [td EXCEPT ![t].is_completed = TRUE]
  /\ To(t, "log_peer")
  /\ UNCHANGED <<devVars, netVars, log_fd, lockVars, sig_triggered, main, slh_first,
                 sle_next, thread_clients, overlapped>>

\* log_remote_peer_name( td->fd ), and the thread returns.
LogPeer(t) ==
  /\ At(t, "log_peer")
  /\ To(t, "ended")
  /\ UNCHANGED <<devVars, netVars, fds, log_fd, lockVars, mainVars, overlapped>>

(***************************************************************************)
(* What the three uses of log_fd share.                                    *)
(***************************************************************************)

LockUnchecked(t) ==
  /\ thr[t].pc \in {"w_lock", "d_lock"}
  /\ \/ write_lock = NoThread /\ write_lock' = t
     \/ destroyed /\ UNCHANGED write_lock
  /\ To(t, IF At(t, "w_lock") THEN "w_open" ELSE "d_open")
  /\ UNCHANGED <<devVars, netVars, fds, log_fd, destroyed, mainVars, overlapped>>

\* pthread_mutex_lock.  A destroyed mutex is refused, but not to a thread that
\* was already waiting for it.
Lock(t) ==
  /\ thr[t].pc \in {"w_lock", "d_lock"}
  /\ \/ /\ write_lock = NoThread
        /\ write_lock' = t
        /\ To(t, IF At(t, "w_lock") THEN "w_open" ELSE "d_open")
     \/ destroyed /\ To(t, "read") /\ UNCHANGED write_lock
  /\ UNCHANGED <<devVars, netVars, fds, log_fd, destroyed, mainVars, overlapped>>

\* pthread_mutex_unlock, which a destroyed mutex may ignore.
Unlock ==
  /\ write_lock' \in IF destroyed THEN {NoThread, write_lock} ELSE {NoThread}
  /\ UNCHANGED destroyed

OpenLog(t) ==
  /\ thr[t].pc \in {"w_open", "d_open", "s_open"}
  /\ log_fd' = IF node THEN NewFd ELSE -1
  /\ IF log_fd' = -1 THEN UNCHANGED fds ELSE SetFd(log_fd', LogAt(0))
  /\ To(t, CASE At(t, "w_open") -> "w_test"
             [] At(t, "d_open") -> "d_test"
             [] At(t, "s_open") -> "s_test")
  /\ UNCHANGED <<devVars, netVars, lockVars, mainVars, overlapped>>

\* What becomes of the open: write_safe returns with the lock.
TestLog(t) ==
  /\ thr[t].pc \in {"w_test", "d_test", "s_test"}
  /\ To(t, CASE At(t, "w_test") -> IF log_fd < 0 THEN "read" ELSE "w_write"
             [] At(t, "d_test") -> IF log_fd < 0 THEN "d_unlock" ELSE "d_read"
             [] At(t, "s_test") -> IF log_fd < 0 THEN "read" ELSE "s_ioctl")
  /\ UNCHANGED <<devVars, netVars, fds, log_fd, lockVars, mainVars, overlapped>>

CloseLog(t) ==
  /\ thr[t].pc \in {"w_close", "d_close", "s_close"}
  /\ close(log_fd)
  /\ To(t, CASE At(t, "w_close") -> IF thr[t].ok /\ Contains(thr[t].buf, NL)
                                    THEN "d_lock" ELSE "read"
             [] At(t, "d_close") -> "d_unlock"
             [] At(t, "s_close") -> "read")
  /\ UNCHANGED <<devVars, netVars, log_fd, lockVars, mainVars, overlapped>>

\* read( log_fd ) of dump_file_to_client and of the seek command.
ReadLog(t) ==
  /\ thr[t].pc \in {"d_read", "s_read"}
  /\ ~ReadBlocks(log_fd)
  /\ LET bytes == ReadGets(log_fd, BUFFSIZE)
     IN  /\ ReadTakes(log_fd, bytes)
         /\ Become(t, [thr[t] EXCEPT
              !.pc = IF bytes = <<>>
                     THEN IF @ = "d_read" THEN "d_close" ELSE "s_close"
                     ELSE IF @ = "d_read" THEN "d_send" ELSE "s_send",
              !.tmpbuf = bytes,
              !.answer = @ \o bytes])
  /\ UNCHANGED <<devVars, log_fd, lockVars, mainVars, overlapped>>

SendChunkOnce(t) ==
  /\ thr[t].pc \in {"d_send", "s_send"}
  /\ \E ok \in BOOLEAN : WritePuts(td[t].fd, thr[t].tmpbuf, ok)
  /\ To(t, IF At(t, "d_send") THEN "d_close" ELSE "s_close")
  /\ UNCHANGED <<node, netVars, fds, log_fd, lockVars, mainVars, overlapped>>

\* write( fd_client ): a failure is logged and the loop goes on.
SendChunk(t) ==
  /\ thr[t].pc \in {"d_send", "s_send"}
  /\ \E ok \in BOOLEAN : WritePuts(td[t].fd, thr[t].tmpbuf, ok)
  /\ Become(t, [thr[t] EXCEPT !.pc = IF @ = "d_send" THEN "d_read" ELSE "s_read",
                              !.tmpbuf = <<>>])
  /\ UNCHANGED <<node, netVars, fds, log_fd, lockVars, mainVars, overlapped>>

(***************************************************************************)
(* write_safe, dump_file_to_client and the seek command.                   *)
(***************************************************************************)
WriteLog(t) ==
  /\ At(t, "w_write")
  /\ \E ok \in BOOLEAN :
       /\ WritePuts(log_fd, thr[t].buf, ok)
       /\ Become(t, [thr[t] EXCEPT !.pc = "w_unlock", !.ok = ok])
  /\ UNCHANGED <<node, netVars, fds, log_fd, lockVars, mainVars, overlapped>>

\* write_safe unlocks before it closes log_fd, dump_file_to_client after.
WriteUnlock(t) ==
  /\ At(t, "w_unlock")
  /\ Unlock
  /\ To(t, "w_close")
  /\ UNCHANGED <<devVars, netVars, fds, log_fd, mainVars, overlapped>>

DumpUnlock(t) ==
  /\ At(t, "d_unlock")
  /\ Unlock
  /\ To(t, "read")
  /\ UNCHANGED <<devVars, netVars, fds, log_fd, mainVars, overlapped>>

SeekIoctlLeaks(t) ==
  /\ At(t, "s_ioctl")
  /\ LET x == Head(thr[t].buf)
     IN  IF Open(log_fd).kind = "log" /\ SeekToOK(x)
         THEN SetFd(log_fd, LogAt(SeekToPosition(x))) /\ To(t, "s_read")
         ELSE To(t, "read") /\ UNCHANGED fds
  /\ UNCHANGED <<devVars, netVars, log_fd, lockVars, mainVars, overlapped>>

SeekIoctl(t) ==
  /\ At(t, "s_ioctl")
  /\ LET x == Head(thr[t].buf)
     IN  IF Open(log_fd).kind = "log" /\ SeekToOK(x)
         THEN SetFd(log_fd, LogAt(SeekToPosition(x))) /\ To(t, "s_read")
         ELSE To(t, "s_close") /\ UNCHANGED fds
  /\ UNCHANGED <<devVars, netVars, log_fd, lockVars, mainVars, overlapped>>

\* No handler for SIGPIPE: a write to a client that is gone may be the end.
Sigpipe(t) ==
  /\ \/ /\ thr[t].pc \in {"d_send", "s_send"}
        /\ Open(td[t].fd).kind = "conn" /\ peer[Open(td[t].fd).client] = "gone"
     \/ /\ At(t, "w_write")
        /\ Open(log_fd).kind = "conn" /\ peer[Open(log_fd).client] = "gone"
  /\ Goto("killed")
  /\ UNCHANGED <<devVars, netVars, fds, log_fd, lockVars, sig_triggered, listVars,
                 thr, overlapped>>

-----------------------------------------------------------------------------
Running == main.pc \notin {"exited", "killed"}

MainStep ==
  \/ Socket \/ Bind \/ make_daemon \/ Listen \/ StartFails
  \/ PollSignal \/ (\E t \in Threads : Create(t)) \/ CreateFails \/ MallocFails
  \/ add_thread \/ Maintain \/ MaintainEnd
  \/ CloseListen \/ RemoveFile \/ DestroyLock \/ JoinFirst \/ Exit

ThreadStep(t) ==
  \/ Read(t) \/ CloseConn(t) \/ LogPeer(t)
  \/ Lock(t) \/ OpenLog(t) \/ TestLog(t) \/ CloseLog(t) \/ ReadLog(t) \/ SendChunk(t)
  \/ WriteLog(t) \/ WriteUnlock(t) \/ DumpUnlock(t) \/ SeekIoctl(t)

Next ==
  /\ Running
  /\ \/ \E c \in Clients : Leave(c) \/ \E m \in Messages : Send(c, m)
     \/ Signal
     \/ Accept
     \/ MainStep
     \/ \E t \in Threads : ThreadStep(t) \/ Sigpipe(t)

Spec == Init /\ [][Next]_vars

\* Every thread is scheduled and gets the mutex in the end, and no client stays
\* connected forever.
FairSpec ==
  /\ Spec
  /\ WF_vars(Running /\ MainStep)
  /\ \A t \in Threads : WF_vars(Running /\ ThreadStep(t))
  /\ \A c \in Clients : WF_vars(Running /\ Leave(c))
-----------------------------------------------------------------------------
(***************************************************************************)
(* Properties.                                                             *)
(***************************************************************************)
Files ==
  {Free, Inherited, Listening} \cup {Connected(c) : c \in Clients}
    \cup [kind : {"log"}, client : {NULL}, pos : Nat]

ThreadPCs ==
  Outside \cup {"w_lock", "w_open", "w_test", "w_write", "w_unlock", "w_close",
                "d_lock", "d_open", "d_test", "d_read", "d_send", "d_close", "d_unlock",
                "s_open", "s_test", "s_ioctl", "s_read", "s_send", "s_close"}

MainPCs ==
  {"socket", "bind", "daemon", "listen", "poll", "create", "add", "maintain",
   "close_listen", "remove", "destroy", "join", "exited", "killed"}

TypeOK ==
  /\ node \in BOOLEAN /\ destroyed \in BOOLEAN /\ sig_triggered \in BOOLEAN
  /\ overlapped \in BOOLEAN
  /\ peer \in [Clients -> {"new", "here", "gone"}]
  /\ fds \in [Fds -> Files]
  /\ log_fd \in Fds \cup {-1}
  /\ write_lock \in Threads \cup {NoThread}
  /\ main \in [pc : MainPCs, listenfd : Fds \cup {-1}, connfd : Fds \cup {-1},
              item : Threads \cup {NULL}]
  /\ DOMAIN td \subseteq Threads
  /\ \A t \in DOMAIN td : td[t] \in [fd : Fds \cup {-1}, is_completed : BOOLEAN]
  /\ slh_first \in Threads \cup {NULL}
  /\ sle_next \in [Threads -> Threads \cup {NULL}]
  /\ thread_clients \in Nat
  /\ \A t \in Threads : thr[t].pc \in ThreadPCs

\* The list from its head, at most every element once.
ListOf ==
  LET from[n \in 0 .. Cardinality(Threads)] ==
        IF n = 0
        THEN IF slh_first = NULL THEN <<>> ELSE <<slh_first>>
        ELSE LET l == from[n - 1]
             IN  IF l = <<>> \/ sle_next[Last(l)] = NULL
                 THEN l ELSE Append(l, sle_next[Last(l)])
  IN  from[Cardinality(Threads)]

\* Every block in use is in the list once, or about to be put there, and no
\* other: none is lost, none is reached after it was freed, through removals
\* from every place of the list.  A thread that has not ended has its block.
ThreadsListed ==
  Running =>
    /\ IsInjective(ListOf)
    /\ ToSet(ListOf) = DOMAIN td \ (IF MainAt("add") THEN {main.item} ELSE {})
    /\ MainAt("maintain") => main.item = NULL \/ main.item \in DOMAIN td
    /\ \A t \in Threads : thr[t].pc # "none" => t \in DOMAIN td
    /\ ~sig_triggered => thread_clients = Len(ListOf)

\* aesd_thrd_shutdown leaves no thread behind.
NoThreadLeft == MainAt("exited") => \A t \in Threads : At(t, "none")

\* Where write_lock is meant to be held.
Locked == {"w_open", "w_test", "w_write", "w_unlock",
           "d_open", "d_test", "d_read", "d_send", "d_close", "d_unlock"}

\* No two threads are inside write_safe and dump_file_to_client, not even while
\* shutdown takes the mutex away.
LockExcludes == \A t \in Threads : thr[t].pc \in Locked => write_lock = t

\* write_safe kept the lock when its open failed.
LockLost ==
  write_lock # NoThread /\ thr[write_lock].pc \notin Locked

LogIsOpen ==
  \E t \in Threads :
    \/ thr[t].pc \in {"w_write", "w_unlock", "w_close", "d_read", "d_send", "d_close",
                      "s_ioctl", "s_read", "s_send", "s_close"}
    \/ thr[t].pc \in {"w_test", "d_test", "s_test"} /\ log_fd # -1

\* Who must close which number.
Serving == {t \in DOMAIN td : thr[t].pc \notin {"log_peer", "ended"}}

Duties ==
  {<<"conn", td[t].fd, t>> : t \in {u \in Serving : td[u].fd # -1}}
    \cup (IF MainAt("create") /\ main.connfd # -1
          THEN {<<"conn", main.connfd, NULL>>} ELSE {})
    \cup (IF LogIsOpen THEN {<<"log", log_fd, NULL>>} ELSE {})
    \cup (IF main.pc \in {"socket", "remove", "destroy", "join"}
          THEN {} ELSE {<<"listen", main.listenfd, NULL>>})
    \cup {<<"std", n, NULL>> : n \in {m \in Std : fds[m] = Inherited}}

\* While clients take turns every open descriptor is of the kind its one owner
\* takes it for, and every owner's is open: none leaks, none is closed twice.
DescriptorsOwned ==
  Running /\ ~overlapped =>
    /\ {d[2] : d \in Duties} = {n \in Fds : fds[n] # Free}
    /\ \A d \in Duties : fds[d[2]].kind = d[1]
    /\ \A d, e \in Duties : d[2] = e[2] => d = e

\* While clients take turns a line is answered with all that the device holds,
\* its own line last, and a seek with all from its position on: no chunk is left
\* out or sent twice.
MessageAnswered ==
  [][\A t \in Threads :
       ~overlapped =>
         /\ At(t, "d_close")' /\ ~At(t, "d_close") =>
              /\ thr'[t].answer = Content
              /\ Last(thr[t].buf) = NL => IsSuffix(<<NL>>, thr'[t].answer)
         /\ At(t, "s_close")' /\ thr[t].pc \in {"s_read", "s_send"} =>
              LET from == SeekToPosition(Head(thr[t].buf)) + 1
              IN  thr'[t].answer = SubSeq(Content, from, Len(Content))]_vars

\* A client that stays keeps its connection: connection_handler closes one that
\* was reset or is at its end, and main one that got no thread.
ConnectionKept ==
  [][\A c \in Clients :
       /\ \E n \in Fds : fds[n] = Connected(c)
       /\ \A n \in Fds : fds'[n] # Connected(c)
       => peer[c] = "gone" \/ MainAt("create")]_vars

\* SIGTERM ends the server once its clients are gone, unless write_safe has
\* kept the lock.
SignalStops == sig_triggered ~> ~Running \/ LockLost

\* server/aesdsocket-start-stop stops the server with SIGTERM.
TermStops == sig_triggered ~> ~Running
===============================================================================
