---------------------------- MODULE ServerFdsProofs ----------------------------
(***************************************************************************)
(* The descriptors of the threaded server: while clients take turns every  *)
(* open number has one owner, which takes it for what it is, and every     *)
(* owner's number is open, for any number of clients, threads and          *)
(* descriptors.                                                            *)
(***************************************************************************)
EXTENDS ServerThrdProofs

-----------------------------------------------------------------------------
(***************************************************************************)
(* The duties by kind.                                                     *)
(***************************************************************************)
ConnDuties ==
  {<<"conn", td[t].fd, t>> : t \in {u \in Serving : td[u].fd # -1}}

AcceptDuty ==
  IF MainAt("create") /\ main.connfd # -1 THEN {<<"conn", main.connfd, NULL>>} ELSE {}

LogDuty == IF LogIsOpen THEN {<<"log", log_fd, NULL>>} ELSE {}

ListenDuty ==
  IF main.pc \in {"socket", "remove", "destroy", "join"}
  THEN {} ELSE {<<"listen", main.listenfd, NULL>>}

StdDuties == {<<"std", n, NULL>> : n \in {m \in Std : fds[m] = Inherited}}

\* Where a thread has the device open.
LogPCs ==
  {"w_write", "w_unlock", "w_close", "d_read", "d_send", "d_close", "s_ioctl", "s_read",
   "s_send", "s_close"}

TestPCs == {"w_test", "d_test", "s_test"}

UsesLog(t) ==
  \/ thr[t].pc \in LogPCs
  \/ thr[t].pc \in TestPCs /\ log_fd # -1

(***************************************************************************)
(* The inductive invariant.                                                *)
(***************************************************************************)

\* What overlapped remembers.
TakesTurns ==
  ~overlapped =>
    \A t, u \in Threads : thr[t].pc \notin Outside /\ thr[u].pc \notin Outside => t = u

Frame ==
  /\ DOMAIN fds = Fds
  /\ log_fd \in Numbers
  /\ overlapped \in BOOLEAN
  /\ TakesTurns
  /\ main.pc \in {"socket", "bind", "daemon"} => \A n \in Std : fds[n] = Inherited

Owned ==
  /\ \A d \in Duties : d[2] \in Fds /\ fds[d[2]].kind = d[1]
  /\ \A n \in Fds : fds[n] # Free => \E d \in Duties : d[2] = n
  /\ \A d, e \in Duties : d[2] = e[2] => d = e

FdsInv == Frame /\ (Running /\ ~overlapped => Owned)

USE ServerAssumption

-----------------------------------------------------------------------------
(***************************************************************************)
(* Where a step of connection_handler takes its thread.                    *)
(***************************************************************************)
LEMMA SetFdTable ==
  ASSUME NEW n, NEW file, SetFd(n, file)
  PROVE  DOMAIN fds' = Fds /\ \A m \in Fds : fds'[m] = IF m = n THEN file ELSE fds[m]
  BY DEF SetFd

LEMMA BecomeGoes ==
  ASSUME ThreadsOK, NEW t \in Threads, NEW r, Become(t, r)
  PROVE  thr'[t] = r /\ \A u \in Threads \ {t} : thr'[u] = thr[u]
  BY DEF ThreadsOK, Become

LEMMA ToGoes ==
  ASSUME ThreadsOK, NEW t \in Threads, NEW pc, To(t, pc)
  PROVE  thr'[t].pc = pc /\ \A u \in Threads \ {t} : thr'[u] = thr[u]
  <1> DEFINE r == [thr[t] EXCEPT !.pc = pc]
  <1>1. r.pc = pc
    BY DEF ThreadsOK, ThreadFields
  <1>2. Become(t, r)
    BY DEF To
  <1> HIDE DEF r
  <1> QED
    BY <1>1, <1>2, BecomeGoes

\* What a step of t does to the others, and where it takes t.
Moves(t, froms, tos) ==
  /\ thr[t].pc \in froms
  /\ thr'[t].pc \in tos
  /\ \A u \in Threads \ {t} : thr'[u] = thr[u]

LEMMA ReadMoves ==
  ASSUME ThreadsOK, NEW t \in Threads, Read(t)
  PROVE  /\ Moves(t, {"read"}, {"close", "s_open", "w_lock"})
         /\ thr'[t].pc \in Outside => overlapped' = overlapped
         /\ thr'[t].pc \notin Outside =>
              overlapped' = (\/ overlapped
                             \/ \E u \in Threads \ {t} : thr[u].pc \notin Outside)
         /\ \E bytes : ReadTakes(td[t].fd, bytes)
         /\ UNCHANGED <<log_fd, mainVars>>
  <1> DEFINE bytes == ReadGets(td[t].fd, BUFFSIZE)
             pc == IF IsSeek(bytes) THEN "s_open" ELSE "w_lock"
             r == [NoThr EXCEPT !.pc = pc, !.buf = bytes]
  <1>1. thr[t].pc = "read" /\ ReadTakes(td[t].fd, bytes) /\ UNCHANGED <<log_fd, mainVars>>
    BY DEF Read, At
  <1>2. CASE bytes = <<>>
    <2>1. To(t, "close") /\ overlapped' = overlapped
      BY <1>2 DEF Read
    <2>2. thr'[t].pc = "close" /\ \A u \in Threads \ {t} : thr'[u] = thr[u]
      BY <2>1, ToGoes
    <2> QED
      BY <1>1, <2>1, <2>2 DEF Moves, Outside
  <1>3. CASE bytes # <<>>
    <2>1. /\ Become(t, r)
          /\ overlapped' = (\/ overlapped
                            \/ \E u \in Threads \ {t} : thr[u].pc \notin Outside)
      BY <1>3 DEF Read
    <2>2. pc \in {"s_open", "w_lock"}
      OBVIOUS
    <2> HIDE DEF pc, bytes
    <2>3. r.pc = pc
      BY DEF NoThr
    <2> HIDE DEF r
    <2>4. thr'[t].pc = pc /\ \A u \in Threads \ {t} : thr'[u] = thr[u]
      BY <2>1, <2>3, BecomeGoes
    <2> QED
      BY <1>1, <2>1, <2>2, <2>4 DEF Moves, Outside
  <1> QED
    BY <1>2, <1>3

\* The end of a connection.
LEMMA EndMoves ==
  ASSUME ThreadsOK, NEW t \in Threads
  PROVE  /\ CloseConn(t) => Moves(t, {"close"}, {"log_peer"})
         /\ LogPeer(t) => Moves(t, {"log_peer"}, {"ended"})
  BY ToGoes DEF CloseConn, LogPeer, Moves, At

\* The steps that open the device and close it.
LEMMA OpenMoves ==
  ASSUME ThreadsOK, NEW t \in Threads
  PROVE  /\ OpenLog(t) => Moves(t, {"w_open", "d_open", "s_open"}, TestPCs)
         /\ CloseLog(t) => Moves(t, {"w_close", "d_close", "s_close"},
                                 {"d_lock", "read", "d_unlock"})
  <1>1. ASSUME OpenLog(t) PROVE Moves(t, {"w_open", "d_open", "s_open"}, TestPCs)
    <2> DEFINE pc == CASE At(t, "w_open") -> "w_test"
                       [] At(t, "d_open") -> "d_test"
                       [] At(t, "s_open") -> "s_test"
    <2>1. To(t, pc) /\ thr[t].pc \in {"w_open", "d_open", "s_open"}
      BY <1>1 DEF OpenLog
    <2>2. pc \in TestPCs
      BY <2>1 DEF At, TestPCs
    <2> HIDE DEF pc
    <2> QED
      BY <2>1, <2>2, ToGoes DEF Moves
  <1>2. ASSUME CloseLog(t)
        PROVE  Moves(t, {"w_close", "d_close", "s_close"}, {"d_lock", "read", "d_unlock"})
    <2> DEFINE pc == CASE At(t, "w_close") ->
                            IF thr[t].ok /\ Contains(thr[t].buf, NL)
                            THEN "d_lock" ELSE "read"
                       [] At(t, "d_close") -> "d_unlock"
                       [] At(t, "s_close") -> "read"
    <2>1. To(t, pc) /\ thr[t].pc \in {"w_close", "d_close", "s_close"}
      BY <1>2 DEF CloseLog
    <2>2. pc \in {"d_lock", "read", "d_unlock"}
      BY <2>1 DEF At
    <2> HIDE DEF pc
    <2> QED
      BY <2>1, <2>2, ToGoes DEF Moves
  <1> QED
    BY <1>1, <1>2

Idle == {"w_lock", "w_open", "d_lock", "d_open", "d_unlock", "s_open", "read"}

\* A step that neither opens nor closes the device, with the device open or not.
Keeps(t) ==
  \/ Moves(t, Idle \ {"read"}, Idle)
  \/ Moves(t, LogPCs, LogPCs)
  \/ Moves(t, TestPCs, IF log_fd = -1 THEN Idle ELSE LogPCs)

LEMMA KeepsMoves ==
  ASSUME ThreadsOK, log_fd \in Numbers, NEW t \in Threads,
         \/ Lock(t) \/ TestLog(t) \/ ReadLog(t) \/ SendChunk(t) \/ WriteLog(t)
         \/ WriteUnlock(t) \/ DumpUnlock(t) \/ SeekIoctl(t)
  PROVE  Keeps(t)
  <1>1. ASSUME NEW pc, To(t, pc)
        PROVE  thr'[t].pc = pc /\ \A u \in Threads \ {t} : thr'[u] = thr[u]
    BY <1>1, ToGoes
  <1>2. CASE Lock(t) \/ DumpUnlock(t)
    <2>1. /\ thr[t].pc \in {"w_lock", "d_lock", "d_unlock"}
          /\ \E pc \in {"w_open", "d_open", "read"} : To(t, pc)
      BY <1>2 DEF Lock, DumpUnlock, At
    <2> QED
      BY <1>1, <2>1 DEF Keeps, Moves, Idle
  <1>3. CASE WriteUnlock(t) \/ SeekIoctl(t)
    <2>1. /\ thr[t].pc \in {"w_unlock", "s_ioctl"}
          /\ \E pc \in {"w_close", "s_read", "s_close"} : To(t, pc)
      BY <1>3 DEF WriteUnlock, SeekIoctl, At
    <2> QED
      BY <1>1, <2>1 DEF Keeps, Moves, LogPCs
  <1>4. CASE TestLog(t)
    <2> DEFINE pc == CASE At(t, "w_test") -> IF log_fd < 0 THEN "read" ELSE "w_write"
                       [] At(t, "d_test") -> IF log_fd < 0 THEN "d_unlock" ELSE "d_read"
                       [] At(t, "s_test") -> IF log_fd < 0 THEN "read" ELSE "s_ioctl"
    <2>1. To(t, pc) /\ thr[t].pc \in TestPCs
      BY <1>4 DEF TestLog, TestPCs
    <2>2. log_fd < 0 <=> log_fd = -1
      BY DEF Numbers
    <2>3. pc \in IF log_fd = -1 THEN Idle ELSE LogPCs
      BY <2>1, <2>2 DEF TestPCs, At, Idle, LogPCs
    <2> HIDE DEF pc
    <2> QED
      BY <1>1, <2>1, <2>3 DEF Keeps, Moves
  <1>5. ASSUME NEW r, Become(t, r), thr[t].pc \in LogPCs, r.pc \in LogPCs
        PROVE  Keeps(t)
    <2>1. thr'[t] = r /\ \A u \in Threads \ {t} : thr'[u] = thr[u]
      BY <1>5, BecomeGoes
    <2> QED
      BY <1>5, <2>1 DEF Keeps, Moves
  <1>6. CASE ReadLog(t)
    <2> DEFINE bytes == ReadGets(log_fd, BUFFSIZE)
               pc == IF bytes = <<>>
                     THEN IF At(t, "d_read") THEN "d_close" ELSE "s_close"
                     ELSE IF At(t, "d_read") THEN "d_send" ELSE "s_send"
               r == [thr[t] EXCEPT !.pc = pc, !.tmpbuf = bytes, !.answer = @ \o bytes]
    <2>1. Become(t, r) /\ thr[t].pc \in LogPCs /\ pc \in LogPCs
      BY <1>6 DEF ReadLog, At, LogPCs
    <2> HIDE DEF pc, bytes
    <2>2. r.pc = pc
      BY DEF ThreadsOK, ThreadFields
    <2> HIDE DEF r
    <2> QED
      BY <2>1, <2>2, <1>5
  <1>7. CASE SendChunk(t)
    <2> DEFINE pc == IF At(t, "d_send") THEN "d_read" ELSE "s_read"
               r == [thr[t] EXCEPT !.pc = pc, !.tmpbuf = <<>>]
    <2>1. Become(t, r) /\ thr[t].pc \in LogPCs /\ pc \in LogPCs
      BY <1>7 DEF SendChunk, At, LogPCs
    <2> HIDE DEF pc
    <2>2. r.pc = pc
      BY DEF ThreadsOK, ThreadFields
    <2> HIDE DEF r
    <2> QED
      BY <2>1, <2>2, <1>5
  <1>8. CASE WriteLog(t)
    <2>1. PICK ok \in BOOLEAN : Become(t, [thr[t] EXCEPT !.pc = "w_unlock", !.ok = ok])
      BY <1>8 DEF WriteLog
    <2> DEFINE r == [thr[t] EXCEPT !.pc = "w_unlock", !.ok = ok]
    <2>2. r.pc = "w_unlock"
      BY DEF ThreadsOK, ThreadFields
    <2>3. Become(t, r) /\ thr[t].pc \in LogPCs /\ "w_unlock" \in LogPCs
      BY <1>8, <2>1 DEF WriteLog, At, LogPCs
    <2> HIDE DEF r
    <2> QED
      BY <2>2, <2>3, <1>5
  <1> QED
    BY <1>2, <1>3, <1>4, <1>6, <1>7, <1>8

\* What the steps between an open and a close do to the descriptors.
LEMMA KeepsFds ==
  ASSUME NEW t,
         \/ Lock(t) \/ TestLog(t) \/ ReadLog(t) \/ SendChunk(t) \/ WriteLog(t)
         \/ WriteUnlock(t) \/ DumpUnlock(t) \/ SeekIoctl(t)
  PROVE  /\ UNCHANGED <<log_fd, overlapped, mainVars>>
         /\ \/ UNCHANGED fds
            \/ Open(log_fd).kind = "log" /\ \E p : SetFd(log_fd, LogAt(p))
  <1>1. CASE Lock(t) \/ TestLog(t) \/ SendChunk(t) \/ WriteLog(t) \/ WriteUnlock(t)
             \/ DumpUnlock(t)
    BY <1>1 DEF Lock, TestLog, SendChunk, WriteLog, WriteUnlock, DumpUnlock
  <1>2. CASE SeekIoctl(t)
    BY <1>2 DEF SeekIoctl
  <1>3. CASE ReadLog(t)
    <2>1. /\ UNCHANGED <<log_fd, overlapped, mainVars>>
          /\ \E bytes : ReadTakes(log_fd, bytes)
      BY <1>3 DEF ReadLog
    <2> QED
      BY <2>1 DEF ReadTakes
  <1> QED
    BY <1>1, <1>2, <1>3, SMTT(30)

-----------------------------------------------------------------------------
(***************************************************************************)
(* The frame.                                                              *)
(***************************************************************************)
LEMMA NewFdFree ==
  ASSUME NewFd # -1
  PROVE  NewFd \in Fds /\ fds[NewFd] = Free
  <1>1. FreeFds # {} /\ NewFd = Min(FreeFds) /\ FreeFds \subseteq Nat
    BY DEF NewFd, FreeFds
  <1>2. PICK n \in FreeFds : \A m \in FreeFds : n <= m
    BY <1>1, LeastNatural
  <1>3. Min(FreeFds) \in FreeFds
    BY <1>2 DEF Min
  <1> QED
    BY <1>1, <1>3 DEF FreeFds

\* A thread that moves inside process_message, or leaves it, is the only one.
LEMMA TurnsMove ==
  ASSUME TakesTurns, overlapped \in BOOLEAN, NEW t \in Threads, UNCHANGED overlapped,
         \A u \in Threads \ {t} : thr'[u] = thr[u],
         thr[t].pc \notin Outside \/ thr'[t].pc \in Outside
  PROVE  TakesTurns'
  BY DEF TakesTurns

LEMMA InitFrame == Init => Frame
  <1> SUFFICES ASSUME Init PROVE Frame
    OBVIOUS
  <1>1. /\ fds = [n \in Fds |-> IF n \in Std THEN Inherited ELSE Free]
        /\ log_fd = -1 /\ overlapped = FALSE /\ main.pc = "socket"
        /\ thr = [t \in Threads |-> NoThr]
    BY DEF Init
  <1>2. TakesTurns
    BY <1>1 DEF TakesTurns, NoThr, Outside
  <1> QED
    BY <1>1, <1>2 DEF Frame, Numbers

LEMMA ThreadFrame ==
  ASSUME ListInv, Frame, NEW t \in Threads, ThreadStep(t)
  PROVE  Frame' /\ (overlapped => overlapped')
  <1>1. ThreadsOK /\ log_fd \in Numbers
    BY DEF ListInv, Frame
  <1> DEFINE Quiet == \/ Lock(t) \/ TestLog(t) \/ ReadLog(t) \/ SendChunk(t) \/ WriteLog(t)
                      \/ WriteUnlock(t) \/ DumpUnlock(t) \/ SeekIoctl(t)
  <1>2. CASE Read(t)
    <2>1. /\ Moves(t, {"read"}, {"close", "s_open", "w_lock"})
          /\ thr'[t].pc \in Outside => overlapped' = overlapped
          /\ thr'[t].pc \notin Outside =>
               overlapped' = (\/ overlapped
                              \/ \E u \in Threads \ {t} : thr[u].pc \notin Outside)
          /\ \E bytes : ReadTakes(td[t].fd, bytes)
          /\ UNCHANGED <<log_fd, mainVars>>
      BY <1>1, <1>2, ReadMoves
    <2>2. UNCHANGED fds \/ DOMAIN fds' = Fds
      BY <2>1 DEF ReadTakes, SetFd
    <2>3. overlapped' \in BOOLEAN /\ (overlapped => overlapped')
      <3> DEFINE met == \E u \in Threads \ {t} : thr[u].pc \notin Outside
      <3>1. overlapped \in BOOLEAN
        BY DEF Frame
      <3>2. overlapped' = overlapped \/ overlapped' = (overlapped \/ met)
        BY <2>1
      <3> HIDE DEF met
      <3>3. (overlapped \/ met) \in BOOLEAN /\ (overlapped => (overlapped \/ met))
        OBVIOUS
      <3> QED
        BY <3>1, <3>2, <3>3, Zenon
    <2>4. TakesTurns'
      <3>1. CASE thr'[t].pc \in Outside
        BY <2>1, <3>1, TurnsMove DEF Frame, Moves
      <3>2. CASE thr'[t].pc \notin Outside
        BY <2>1, <3>2 DEF TakesTurns, Moves
      <3> QED
        BY <3>1, <3>2
    <2>5. main.pc \notin {"socket", "bind", "daemon"} /\ main' = main
      BY <2>1 DEF ListInv, ListOK, BlocksOK, Starting, Moves, mainVars
    <2> QED
      BY <1>1, <2>1, <2>2, <2>3, <2>4, <2>5 DEF Frame
  <1>3. CASE CloseConn(t) \/ LogPeer(t)
    <2>1. Moves(t, {"close", "log_peer"}, {"log_peer", "ended"})
      BY <1>1, <1>3, EndMoves DEF Moves
    <2>2. /\ UNCHANGED <<log_fd, overlapped, main>>
          /\ UNCHANGED fds \/ DOMAIN fds' = Fds
      BY <1>3 DEF CloseConn, LogPeer, mainVars, close, SetFd
    <2>3. TakesTurns'
      BY <2>1, <2>2, TurnsMove DEF Frame, Moves, Outside
    <2>4. main.pc \notin {"socket", "bind", "daemon"}
      BY <2>1 DEF ListInv, ListOK, BlocksOK, Starting, Moves
    <2> QED
      BY <1>1, <2>2, <2>3, <2>4 DEF Frame
  <1>4. CASE OpenLog(t)
    <2>1. Moves(t, {"w_open", "d_open", "s_open"}, TestPCs)
      BY <1>1, <1>4, OpenMoves
    <2>2. /\ UNCHANGED <<overlapped, main>>
          /\ UNCHANGED fds \/ DOMAIN fds' = Fds
          /\ log_fd' = NewFd \/ log_fd' = -1
      BY <1>4 DEF OpenLog, mainVars, SetFd
    <2>3. log_fd' \in Numbers
      BY <2>2, NewFdNumber DEF Numbers
    <2>4. TakesTurns'
      BY <2>1, <2>2, TurnsMove DEF Frame, Moves, Outside
    <2>5. main.pc \notin {"socket", "bind", "daemon"}
      BY <2>1 DEF ListInv, ListOK, BlocksOK, Starting, Moves
    <2> QED
      BY <2>2, <2>3, <2>4, <2>5 DEF Frame
  <1>5. CASE CloseLog(t)
    <2>1. Moves(t, {"w_close", "d_close", "s_close"}, {"d_lock", "read", "d_unlock"})
      BY <1>1, <1>5, OpenMoves
    <2>2. UNCHANGED <<overlapped, main, log_fd>> /\ DOMAIN fds' = Fds
      BY <1>5 DEF CloseLog, mainVars, close, SetFd
    <2>3. TakesTurns'
      BY <2>1, <2>2, TurnsMove DEF Frame, Moves, Outside
    <2>4. main.pc \notin {"socket", "bind", "daemon"}
      BY <2>1 DEF ListInv, ListOK, BlocksOK, Starting, Moves
    <2> QED
      BY <1>1, <2>2, <2>3, <2>4 DEF Frame
  <1>6. CASE Quiet
    <2>1. Keeps(t)
      BY <1>1, <1>6, KeepsMoves
    <2>2. /\ UNCHANGED <<log_fd, overlapped, mainVars>>
          /\ UNCHANGED fds \/ DOMAIN fds' = Fds
      BY <1>6, KeepsFds DEF SetFd
    <2>3. /\ thr[t].pc \notin Outside
          /\ \A u \in Threads \ {t} : thr'[u] = thr[u]
      BY <2>1 DEF Keeps, Moves, Idle, LogPCs, TestPCs, Outside
    <2>4. TakesTurns'
      BY <2>2, <2>3, TurnsMove DEF Frame
    <2>5. main.pc \notin {"socket", "bind", "daemon"}
      BY <2>3 DEF ListInv, ListOK, BlocksOK, Starting, Outside
    <2> QED
      BY <1>1, <2>2, <2>4, <2>5 DEF Frame, mainVars
  <1> QED
    BY <1>2, <1>3, <1>4, <1>5, <1>6 DEF ThreadStep

\* Threads start and are joined outside process_message.
LEMMA TurnsMain ==
  ASSUME TakesTurns, UNCHANGED overlapped,
         \A u \in Threads : thr'[u] = thr[u] \/ thr'[u].pc \in Outside
  PROVE  TakesTurns'
  BY DEF TakesTurns

LEMMA JoinOutside ==
  ASSUME ThreadsOK, NEW t, JoinAndFree(t)
  PROVE  \A u \in Threads : thr'[u] = thr[u] \/ thr'[u].pc \in Outside
  <1>1. thr' = [thr EXCEPT ![t] = NoThr] /\ DOMAIN thr = Threads
    BY DEF JoinAndFree, ThreadsOK
  <1>2. NoThr.pc \in Outside
    BY DEF NoThr, Outside
  <1>3. \A u \in Threads : thr'[u] = thr[u] \/ thr'[u] = NoThr
    BY <1>1
  <1> QED
    BY <1>2, <1>3

LEMMA MainFrame ==
  ASSUME ListInv, Frame, MainStep \/ Accept
  PROVE  Frame' /\ overlapped' = overlapped
  <1>1. /\ ThreadsOK /\ TakesTurns
        /\ main \in [pc : MainPCs, listenfd : Numbers, connfd : Numbers,
                     item : Threads \cup {NULL}]
    BY DEF ListInv, BlocksOK, Frame
  <1>2. CASE Socket \/ Bind \/ make_daemon
    <2>1. /\ UNCHANGED <<log_fd, thr, overlapped>>
          /\ UNCHANGED fds \/ DOMAIN fds' = Fds
          /\ main.pc \in {"socket", "bind", "daemon"}
      BY <1>2 DEF Socket, Bind, make_daemon, SetFd, MainAt
    <2>2. TakesTurns'
      BY <1>1, <2>1, TurnsMain
    <2>3. main'.pc \in {"socket", "bind", "daemon"} => \A n \in Std : fds'[n] = Inherited
      <3>1. CASE Socket
        <4>1. NewFd # -1 /\ SetFd(NewFd, Listening)
          BY <3>1 DEF Socket
        <4>2. fds[NewFd] = Free /\ \A n \in Std : fds[n] = Inherited
          BY <2>1, <4>1, NewFdFree DEF Frame
        <4>3. \A n \in Std : n # NewFd
          BY <4>2 DEF Free, Inherited
        <4> QED
          BY <4>1, <4>2, <4>3, SetFdTable
      <3>2. CASE Bind
        BY <2>1, <3>2 DEF Bind, Frame
      <3>3. CASE make_daemon
        <4>1. main'.pc = "listen"
          BY <1>1, <3>3 DEF make_daemon, Goto
        <4> QED
          BY <4>1
      <3> QED
        BY <1>2, <3>1, <3>2, <3>3
    <2> QED
      BY <2>1, <2>2, <2>3 DEF Frame
  <1>3. CASE Listen \/ StartFails \/ PollSignal \/ MallocFails \/ MaintainEnd \/ CloseListen
             \/ RemoveFile \/ DestroyLock \/ Exit \/ Accept \/ CreateFails \/ add_thread
    <2>1. /\ UNCHANGED <<log_fd, thr, overlapped>>
          /\ UNCHANGED fds \/ DOMAIN fds' = Fds
      BY <1>3 DEF Listen, StartFails, PollSignal, MallocFails, MaintainEnd, CloseListen,
                  RemoveFile, DestroyLock, Exit, Accept, CreateFails, add_thread, close, SetFd
    <2>2. main'.pc \notin {"socket", "bind", "daemon"}
      BY <1>1, <1>3 DEF Listen, StartFails, PollSignal, MallocFails, MaintainEnd, CloseListen,
                  RemoveFile, DestroyLock, Exit, Accept, CreateFails, add_thread, Goto
    <2>3. TakesTurns'
      BY <1>1, <2>1, TurnsMain
    <2> QED
      BY <2>1, <2>2, <2>3 DEF Frame
  <1>4. CASE Maintain \/ JoinFirst
    <2>1. /\ UNCHANGED <<log_fd, overlapped, fds>>
          /\ main'.pc \notin {"socket", "bind", "daemon"}
      BY <1>1, <1>4 DEF Maintain, JoinFirst, MainAt
    <2>2. \A u \in Threads : thr'[u] = thr[u] \/ thr'[u].pc \in Outside
      BY <1>1, <1>4, JoinOutside DEF Maintain, JoinFirst
    <2>3. TakesTurns'
      BY <1>1, <2>1, <2>2, TurnsMain
    <2> QED
      BY <2>1, <2>3 DEF Frame
  <1>5. ASSUME NEW t \in Threads, Create(t)
        PROVE  Frame' /\ overlapped' = overlapped
    <2>1. /\ UNCHANGED <<log_fd, overlapped, fds>>
          /\ main'.pc \notin {"socket", "bind", "daemon"}
          /\ thr' = [thr EXCEPT ![t] = [NoThr EXCEPT !.pc = "read"]]
      BY <1>1, <1>5 DEF Create
    <2>2. \A u \in Threads : thr'[u] = thr[u] \/ thr'[u].pc \in Outside
      <3> DEFINE r == [NoThr EXCEPT !.pc = "read"]
      <3>1. r.pc \in Outside
        BY DEF NoThr, Outside
      <3>2. thr' = [thr EXCEPT ![t] = r] /\ DOMAIN thr = Threads
        BY <1>1, <2>1 DEF ThreadsOK
      <3> HIDE DEF r
      <3>3. \A u \in Threads : thr'[u] = thr[u] \/ thr'[u] = r
        BY <3>2
      <3> QED
        BY <3>1, <3>3
    <2>3. TakesTurns'
      BY <1>1, <2>1, <2>2, TurnsMain
    <2> QED
      BY <2>1, <2>3 DEF Frame
  <1> QED
    BY <1>2, <1>3, <1>4, <1>5 DEF MainStep

-----------------------------------------------------------------------------
(***************************************************************************)
(* Owners come and go.                                                     *)
(***************************************************************************)
Parts == (((ConnDuties \cup AcceptDuty) \cup LogDuty) \cup ListenDuty) \cup StdDuties

LEMMA DutiesParts == Duties = Parts /\ Duties' = Parts'
  BY DEF Duties, Parts, ConnDuties, AcceptDuty, LogDuty, ListenDuty, StdDuties

LEMMA DutyKinds ==
  ASSUME DOMAIN td \subseteq Threads
  PROVE  /\ \A d \in ConnDuties : d[1] = "conn" /\ d[3] \in Threads
         /\ \A d \in AcceptDuty : d[1] = "conn" /\ d[3] = NULL
         /\ \A d \in LogDuty : d[1] = "log"
         /\ \A d \in ListenDuty : d[1] = "listen"
         /\ \A d \in StdDuties : d[1] = "std"
  BY DEF ConnDuties, AcceptDuty, LogDuty, ListenDuty, StdDuties, Serving

LEMMA NoDutyFree ==
  ASSUME DOMAIN td \subseteq Threads
  PROVE  \A d \in Duties : d[1] # "free"
  <1>1. \A d \in Duties : d[1] \in {"conn", "log", "listen", "std"}
    BY DutiesParts, DutyKinds DEF Parts
  <1> QED
    BY <1>1

LEMMA OwnedSame ==
  ASSUME Owned, Duties' = Duties,
         \A n \in Fds : fds'[n] = fds[n] \/ (fds'[n].kind = fds[n].kind /\ fds[n] # Free)
  PROVE  Owned'
  <1>1. \A d \in Duties : d[2] \in Fds /\ fds'[d[2]].kind = d[1]
    BY DEF Owned
  <1>2. \A n \in Fds : fds'[n] # Free => \E d \in Duties : d[2] = n
    BY DEF Owned
  <1>3. \A d, e \in Duties : d[2] = e[2] => d = e
    BY DEF Owned
  <1> QED
    BY <1>1, <1>2, <1>3 DEF Owned

LEMMA OwnedGains ==
  ASSUME Owned, DOMAIN td \subseteq Threads, NEW k, NEW n \in Fds, NEW o,
         fds[n] = Free, fds'[n].kind = k,
         \A m \in Fds \ {n} : fds'[m] = fds[m],
         Duties' = Duties \cup {<<k, n, o>>}
  PROVE  Owned'
  <1> DEFINE x == <<k, n, o>>
  <1>1. x[1] = k /\ x[2] = n
    OBVIOUS
  <1>2. \A d \in Duties : d[2] \in Fds /\ fds[d[2]].kind = d[1] /\ d[1] # "free"
    BY NoDutyFree DEF Owned
  <1>3. \A d \in Duties : d[2] # n
    <2>1. fds[n].kind = "free"
      BY DEF Free
    <2> QED
      BY <1>2, <2>1
  <1>4. Duties' = Duties \cup {x}
    OBVIOUS
  <1> HIDE DEF x
  <1>5. \A d \in Duties' : d[2] \in Fds /\ fds'[d[2]].kind = d[1]
    BY <1>1, <1>2, <1>3, <1>4, ZenonT(60)
  <1>6. \A m \in Fds : fds'[m] # Free => \E d \in Duties' : d[2] = m
    BY <1>1, <1>4, ZenonT(60) DEF Owned
  <1>7. \A d, e \in Duties' : d[2] = e[2] => d = e
    <2>1. \A d, e \in Duties : d[2] = e[2] => d = e
      BY DEF Owned
    <2> QED
      BY <1>1, <1>3, <1>4, <2>1
  <1> QED
    BY <1>5, <1>6, <1>7 DEF Owned

LEMMA OwnedLoses ==
  ASSUME Owned, NEW d \in Duties, fds'[d[2]] = Free,
         \A m \in Fds \ {d[2]} : fds'[m] = fds[m],
         Duties' = Duties \ {d}
  PROVE  Owned'
  <1>1. \A e \in Duties' : e[2] \in Fds /\ e[2] # d[2] /\ fds'[e[2]].kind = e[1]
    BY ZenonT(60) DEF Owned
  <1>2. \A n \in Fds : fds'[n] # Free => \E e \in Duties' : e[2] = n
    BY DEF Owned
  <1>3. \A c, e \in Duties' : c[2] = e[2] => c = e
    BY DEF Owned
  <1> QED
    BY <1>1, <1>2, <1>3 DEF Owned

LEMMA OwnedPasses ==
  ASSUME Owned, NEW k, NEW n, NEW o, NEW p, <<k, n, o>> \in Duties, UNCHANGED fds,
         Duties' = (Duties \ {<<k, n, o>>}) \cup {<<k, n, p>>}
  PROVE  Owned'
  <1> DEFINE x == <<k, n, o>>
             y == <<k, n, p>>
  <1>1. x[1] = k /\ x[2] = n /\ y[1] = k /\ y[2] = n
    OBVIOUS
  <1>2. x \in Duties /\ Duties' = (Duties \ {x}) \cup {y}
    OBVIOUS
  <1> HIDE DEF x, y
  <1>3. \A d \in Duties' : d[2] \in Fds /\ fds'[d[2]].kind = d[1]
    BY <1>1, <1>2 DEF Owned
  <1>4. \A m \in Fds : fds'[m] # Free => \E d \in Duties' : d[2] = m
    BY <1>1, <1>2 DEF Owned
  <1>5. \A d, e \in Duties' : d[2] = e[2] => d = e
    <2>1. \A d, e \in Duties : d[2] = e[2] => d = e
      BY DEF Owned
    <2>2. \A d \in Duties : d # x => d[2] # n
      BY <1>1, <1>2, <2>1
    <2> QED
      BY <1>1, <1>2, <2>1, <2>2
  <1> QED
    BY <1>3, <1>4, <1>5 DEF Owned

(***************************************************************************)
(* The parts that a step does not touch.                                   *)
(***************************************************************************)
LEMMA ConnKept ==
  ASSUME DOMAIN td' = DOMAIN td, DOMAIN td \subseteq Threads,
         \A u \in DOMAIN td : td'[u].fd = td[u].fd,
         \A u \in Threads : thr'[u].pc \in {"log_peer", "ended"}
                              <=> thr[u].pc \in {"log_peer", "ended"}
  PROVE  ConnDuties' = ConnDuties
  <1>1. Serving' = Serving
    BY DEF Serving
  <1>2. \A u \in Serving : td'[u].fd = td[u].fd
    BY DEF Serving
  <1> QED
    BY <1>1, <1>2 DEF ConnDuties

LEMMA StdKept ==
  ASSUME \A n \in Std : fds'[n] = Inherited <=> fds[n] = Inherited
  PROVE  StdDuties' = StdDuties
  BY DEF StdDuties

LEMMA LogUsers ==
  /\ LogIsOpen <=> \E t \in Threads : UsesLog(t)
  /\ LogIsOpen' <=> \E t \in Threads : UsesLog(t)'
  BY DEF LogIsOpen, UsesLog, LogPCs, TestPCs

LEMMA LogKept ==
  ASSUME NEW t \in Threads, \A u \in Threads \ {t} : thr'[u] = thr[u],
         UNCHANGED log_fd, UsesLog(t)' <=> UsesLog(t)
  PROVE  LogDuty' = LogDuty
  <1>1. \A u \in Threads : UsesLog(u)' <=> UsesLog(u)
    <2>1. \A u \in Threads \ {t} : UsesLog(u)' <=> UsesLog(u)
      BY DEF UsesLog
    <2> QED
      BY <2>1
  <1>2. LogIsOpen' <=> LogIsOpen
    BY <1>1, LogUsers
  <1> QED
    BY <1>2 DEF LogDuty

\* Only the thread inside process_message has the device open.
LEMMA LogAlone ==
  ASSUME TakesTurns, ~overlapped, NEW t \in Threads, thr[t].pc \notin Outside,
         \A u \in Threads \ {t} : thr'[u] = thr[u]
  PROVE  /\ LogIsOpen <=> UsesLog(t)
         /\ LogIsOpen' <=> UsesLog(t)'
  <1>1. \A u \in Threads \ {t} : thr[u].pc \in Outside /\ thr'[u].pc \in Outside
    BY DEF TakesTurns
  <1>2. \A u \in Threads \ {t} : ~UsesLog(u) /\ ~UsesLog(u)'
    BY <1>1 DEF UsesLog, LogPCs, TestPCs, Outside
  <1> QED
    BY <1>2, LogUsers

-----------------------------------------------------------------------------
(***************************************************************************)
(* The steps of connection_handler, while clients take turns.              *)
(***************************************************************************)

\* A step that is neither in nor out of LogPCs and TestPCs.
LEMMA AwayFromLog ==
  ASSUME NEW t \in Threads, \A u \in Threads \ {t} : thr'[u] = thr[u], UNCHANGED log_fd,
         thr[t].pc \notin LogPCs \cup TestPCs, thr'[t].pc \notin LogPCs \cup TestPCs
  PROVE  LogDuty' = LogDuty
  <1>1. UsesLog(t)' <=> UsesLog(t)
    BY DEF UsesLog
  <1> QED
    BY <1>1, LogKept

\* The main thread and the blocks stay; so do the duties that are theirs.
LEMMA MainDuties ==
  ASSUME UNCHANGED mainVars
  PROVE  AcceptDuty' = AcceptDuty /\ ListenDuty' = ListenDuty
  BY DEF mainVars, AcceptDuty, ListenDuty, MainAt

LEMMA ReadOwned ==
  ASSUME ListInv, Frame, Owned, NEW t \in Threads, Read(t)
  PROVE  Owned'
  <1>1. /\ Moves(t, {"read"}, {"close", "s_open", "w_lock"})
        /\ \E bytes : ReadTakes(td[t].fd, bytes)
        /\ UNCHANGED <<log_fd, mainVars>>
    BY ReadMoves DEF ListInv
  <1>2. \A u \in Threads \ {t} : thr'[u] = thr[u]
    BY <1>1 DEF Moves
  <1>3. t \in Serving /\ td[t].fd \in Numbers /\ DOMAIN td \subseteq Threads
    BY <1>1 DEF ListInv, BlocksOK, Moves, Serving
  <1>4. Open(td[t].fd).kind # "log"
    <2>1. CASE td[t].fd = -1
      BY <2>1 DEF Open, Free
    <2>2. CASE td[t].fd # -1
      <3> DEFINE d == <<"conn", td[t].fd, t>>
      <3>1. d \in Duties
        BY <1>3, <2>2 DEF Duties
      <3>2. d[1] = "conn" /\ d[2] = td[t].fd
        OBVIOUS
      <3> HIDE DEF d
      <3>3. td[t].fd \in Fds /\ fds[td[t].fd].kind = "conn"
        BY <3>1, <3>2 DEF Owned
      <3> QED
        BY <3>3 DEF Open
    <2> QED
      BY <2>1, <2>2
  <1>5. UNCHANGED fds
    BY <1>1, <1>4 DEF ReadTakes
  <1>6. ConnDuties' = ConnDuties
    BY <1>1, <1>2, <1>3, ConnKept DEF Moves, mainVars, listVars
  <1>7. LogDuty' = LogDuty
    <2>1. thr[t].pc \notin LogPCs \cup TestPCs /\ thr'[t].pc \notin LogPCs \cup TestPCs
      BY <1>1 DEF Moves, LogPCs, TestPCs
    <2> QED
      BY <1>1, <1>2, <2>1, AwayFromLog
  <1>8. StdDuties' = StdDuties
    BY <1>5, StdKept
  <1>9. Duties' = Duties
    BY <1>1, <1>6, <1>7, <1>8, MainDuties, DutiesParts DEF Parts
  <1>10. \A n \in Fds : fds'[n] = fds[n]
    BY <1>5
  <1> QED
    BY <1>9, <1>10, OwnedSame

LEMMA KeepsOwned ==
  ASSUME ListInv, Frame, Owned, ~overlapped, NEW t \in Threads,
         \/ Lock(t) \/ TestLog(t) \/ ReadLog(t) \/ SendChunk(t) \/ WriteLog(t)
         \/ WriteUnlock(t) \/ DumpUnlock(t) \/ SeekIoctl(t)
  PROVE  Owned'
  <1>1. Keeps(t)
    BY KeepsMoves DEF ListInv, Frame
  <1>2. /\ UNCHANGED <<log_fd, overlapped, mainVars>>
        /\ \/ UNCHANGED fds
           \/ Open(log_fd).kind = "log" /\ \E p : SetFd(log_fd, LogAt(p))
    BY KeepsFds
  <1>3. \A u \in Threads \ {t} : thr'[u] = thr[u]
    BY <1>1 DEF Keeps, Moves
  <1>4. /\ thr[t].pc \notin {"log_peer", "ended"}
        /\ thr'[t].pc \notin {"log_peer", "ended"}
    BY <1>1 DEF Keeps, Moves, Idle, LogPCs, TestPCs
  <1>5. UsesLog(t)' <=> UsesLog(t)
    <2>1. \A pc \in Idle : pc \notin LogPCs /\ pc \notin TestPCs
      BY DEF Idle, LogPCs, TestPCs
    <2>2. \A pc \in LogPCs : pc \notin TestPCs
      BY DEF LogPCs, TestPCs
    <2>3. CASE Moves(t, Idle \ {"read"}, Idle) \/ Moves(t, LogPCs, LogPCs)
      BY <2>1, <2>3 DEF Moves, UsesLog
    <2>4. CASE Moves(t, TestPCs, IF log_fd = -1 THEN Idle ELSE LogPCs)
      BY <1>2, <2>1, <2>2, <2>4 DEF Moves, UsesLog
    <2> QED
      BY <1>1, <2>3, <2>4 DEF Keeps
  <1>6. LogDuty' = LogDuty
    BY <1>2, <1>3, <1>5, LogKept
  <1>7. ConnDuties' = ConnDuties
    <2>1. DOMAIN td \subseteq Threads /\ td' = td
      BY <1>2 DEF ListInv, BlocksOK, mainVars, listVars
    <2> QED
      BY <1>3, <1>4, <2>1, ConnKept
  <1>8. \A n \in Fds : \/ fds'[n] = fds[n]
                       \/ /\ fds'[n].kind = "log" /\ fds[n].kind = "log"
                          /\ fds[n] # Free /\ fds[n] # Inherited /\ fds'[n] # Inherited
    <2>1. CASE UNCHANGED fds
      BY <2>1
    <2>2. CASE Open(log_fd).kind = "log" /\ \E p : SetFd(log_fd, LogAt(p))
      <3>1. PICK p : SetFd(log_fd, LogAt(p))
        BY <2>2
      <3>2. log_fd \in Fds /\ fds[log_fd].kind = "log"
        BY <2>2 DEF Open, Free
      <3>3. fds[log_fd] # Free /\ fds[log_fd] # Inherited
        BY <3>2 DEF Free, Inherited
      <3>4. LogAt(p).kind = "log" /\ LogAt(p) # Inherited
        BY DEF LogAt, Inherited
      <3>5. \A n \in Fds : fds'[n] = IF n = log_fd THEN LogAt(p) ELSE fds[n]
        BY <3>1, SetFdTable
      <3> QED
        BY <3>2, <3>3, <3>4, <3>5
    <2> QED
      BY <1>2, <2>1, <2>2
  <1>9. StdDuties' = StdDuties
    <2>1. \A n \in Std : fds'[n] = Inherited <=> fds[n] = Inherited
      BY <1>8
    <2> QED
      BY <2>1, StdKept
  <1>10. Duties' = Duties
    BY <1>2, <1>6, <1>7, <1>9, MainDuties, DutiesParts DEF Parts
  <1>11. \A n \in Fds : fds'[n] = fds[n] \/ (fds'[n].kind = fds[n].kind /\ fds[n] # Free)
    BY <1>8
  <1> QED
    BY <1>10, <1>11, OwnedSame

\* The number that an open finds free is the one that it stores in log_fd.
LEMMA OpenOwned ==
  ASSUME ListInv, Frame, Owned, ~overlapped, NEW t \in Threads, OpenLog(t)
  PROVE  Owned'
  <1>1. Moves(t, {"w_open", "d_open", "s_open"}, TestPCs)
    BY OpenMoves DEF ListInv
  <1>2. \A u \in Threads \ {t} : thr'[u] = thr[u]
    BY <1>1 DEF Moves
  <1>3. /\ log_fd' = NewFd \/ log_fd' = -1
        /\ IF log_fd' = -1 THEN UNCHANGED fds ELSE SetFd(log_fd', LogAt(0))
        /\ UNCHANGED <<mainVars, overlapped>>
    BY DEF OpenLog
  <1>4. (LogIsOpen <=> UsesLog(t)) /\ (LogIsOpen' <=> UsesLog(t)')
    <2>1. thr[t].pc \notin Outside
      BY <1>1 DEF Moves, Outside
    <2> QED
      BY <1>2, <2>1, LogAlone DEF Frame
  <1>5. LogDuty = {} /\ (LogIsOpen' <=> log_fd' # -1)
    <2>1. ~UsesLog(t)
      BY <1>1 DEF Moves, UsesLog, LogPCs, TestPCs
    <2>2. UsesLog(t)' <=> log_fd' # -1
      BY <1>1 DEF Moves, UsesLog, LogPCs, TestPCs
    <2> QED
      BY <1>4, <2>1, <2>2 DEF LogDuty
  <1>6. DOMAIN td \subseteq Threads /\ td' = td
    BY <1>3 DEF ListInv, BlocksOK, mainVars, listVars
  <1>7. ConnDuties' = ConnDuties
    <2>1. /\ thr[t].pc \notin {"log_peer", "ended"}
          /\ thr'[t].pc \notin {"log_peer", "ended"}
      BY <1>1 DEF Moves, TestPCs
    <2> QED
      BY <1>2, <1>6, <2>1, ConnKept
  <1>8. CASE log_fd' = -1
    <2>1. LogDuty' = {}
      BY <1>5, <1>8 DEF LogDuty
    <2>2. UNCHANGED fds
      BY <1>3, <1>8
    <2>3. StdDuties' = StdDuties
      BY <2>2, StdKept
    <2>4. Duties' = Duties
      BY <1>3, <1>5, <1>7, <2>1, <2>3, MainDuties, DutiesParts DEF Parts
    <2>5. \A n \in Fds : fds'[n] = fds[n]
      BY <2>2
    <2> QED
      BY <2>4, <2>5, OwnedSame
  <1>9. CASE log_fd' # -1
    <2>1. NewFd # -1 /\ log_fd' = NewFd
      BY <1>3, <1>9
    <2>2. PICK n \in Fds : n = log_fd' /\ fds[n] = Free
      BY <2>1, NewFdFree
    <2>3. SetFd(n, LogAt(0))
      BY <1>3, <1>9, <2>2
    <2>4. fds'[n] = LogAt(0) /\ \A m \in Fds \ {n} : fds'[m] = fds[m]
      BY <2>3, SetFdTable
    <2>5. LogDuty' = {<<"log", n, NULL>>}
      BY <1>5, <1>9, <2>2 DEF LogDuty
    <2>6. StdDuties' = StdDuties
      <3>1. fds[n] # Inherited /\ fds'[n] # Inherited
        BY <2>2, <2>4 DEF LogAt, Free, Inherited
      <3>2. \A m \in Std : fds'[m] = Inherited <=> fds[m] = Inherited
        BY <2>4, <3>1
      <3> QED
        BY <3>2, StdKept
    <2>7. Duties' = Duties \cup {<<"log", n, NULL>>}
      BY <1>3, <1>5, <1>7, <2>5, <2>6, MainDuties, DutiesParts DEF Parts
    <2>8. fds'[n].kind = "log"
      BY <2>4 DEF LogAt
    <2> QED
      BY <1>6, <2>2, <2>4, <2>7, <2>8, OwnedGains
  <1> QED
    BY <1>8, <1>9

\* The number that is closed is the one that was opened.
LEMMA CloseLogOwned ==
  ASSUME ListInv, Frame, Owned, ~overlapped, NEW t \in Threads, CloseLog(t)
  PROVE  Owned'
  <1>1. Moves(t, {"w_close", "d_close", "s_close"}, {"d_lock", "read", "d_unlock"})
    BY OpenMoves DEF ListInv
  <1>2. \A u \in Threads \ {t} : thr'[u] = thr[u]
    BY <1>1 DEF Moves
  <1>3. SetFd(log_fd, Free) /\ UNCHANGED <<mainVars, overlapped, log_fd>>
    BY DEF CloseLog, close
  <1>4. (LogIsOpen <=> UsesLog(t)) /\ (LogIsOpen' <=> UsesLog(t)')
    <2>1. thr[t].pc \notin Outside
      BY <1>1 DEF Moves, Outside
    <2> QED
      BY <1>2, <2>1, LogAlone DEF Frame
  <1>5. LogDuty = {<<"log", log_fd, NULL>>} /\ LogDuty' = {}
    <2>1. UsesLog(t) /\ ~UsesLog(t)'
      BY <1>1 DEF Moves, UsesLog, LogPCs, TestPCs
    <2> QED
      BY <1>4, <2>1 DEF LogDuty
  <1> DEFINE d == <<"log", log_fd, NULL>>
  <1>6. d = <<"log", log_fd, NULL>> /\ d[1] = "log" /\ d[2] = log_fd
    OBVIOUS
  <1> HIDE DEF d
  <1>7. d \in Duties
    BY <1>5, <1>6, DutiesParts DEF Parts
  <1>8. log_fd \in Fds /\ fds[log_fd].kind = "log"
    BY <1>6, <1>7 DEF Owned
  <1>9. fds'[log_fd] = Free /\ \A m \in Fds \ {log_fd} : fds'[m] = fds[m]
    BY <1>3, <1>8, SetFdTable
  <1>10. DOMAIN td \subseteq Threads /\ td' = td
    BY <1>3 DEF ListInv, BlocksOK, mainVars, listVars
  <1>11. ConnDuties' = ConnDuties
    <2>1. /\ thr[t].pc \notin {"log_peer", "ended"}
          /\ thr'[t].pc \notin {"log_peer", "ended"}
      BY <1>1 DEF Moves
    <2> QED
      BY <1>2, <1>10, <2>1, ConnKept
  <1>12. StdDuties' = StdDuties
    <2>1. fds[log_fd] # Inherited /\ Free # Inherited
      BY <1>8 DEF Inherited, Free
    <2>2. \A m \in Std : fds'[m] = Inherited <=> fds[m] = Inherited
      BY <1>9, <2>1
    <2> QED
      BY <2>2, StdKept
  <1>13. d \notin ConnDuties /\ d \notin AcceptDuty /\ d \notin ListenDuty /\ d \notin StdDuties
    BY <1>6, <1>10, DutyKinds
  <1>14. Duties' = Duties \ {d}
    BY <1>3, <1>5, <1>6, <1>11, <1>12, <1>13, MainDuties, DutiesParts DEF Parts
  <1> QED
    BY <1>6, <1>7, <1>9, <1>14, OwnedLoses

\* A connection is closed by the thread that has it.
LEMMA EndOwned ==
  ASSUME ListInv, Frame, Owned, NEW t \in Threads, CloseConn(t) \/ LogPeer(t)
  PROVE  Owned'
  <1>1. Moves(t, {"close", "log_peer"}, {"log_peer", "ended"})
    BY EndMoves DEF ListInv, Moves
  <1>2. \A u \in Threads \ {t} : thr'[u] = thr[u]
    BY <1>1 DEF Moves
  <1>3. /\ UNCHANGED <<log_fd, main>>
        /\ AcceptDuty' = AcceptDuty /\ ListenDuty' = ListenDuty
    BY DEF CloseConn, LogPeer, mainVars, AcceptDuty, ListenDuty, MainAt
  <1>4. t \in DOMAIN td /\ DOMAIN td \subseteq Threads /\ td[t].fd \in Numbers
    BY <1>1 DEF ListInv, BlocksOK, Moves
  <1>5. LogDuty' = LogDuty
    <2>1. thr[t].pc \notin LogPCs \cup TestPCs /\ thr'[t].pc \notin LogPCs \cup TestPCs
      BY <1>1 DEF Moves, LogPCs, TestPCs
    <2> QED
      BY <1>2, <1>3, <2>1, AwayFromLog
  <1>6. DOMAIN td' = DOMAIN td /\ \A u \in DOMAIN td : td'[u].fd = td[u].fd
    <2>1. CASE LogPeer(t)
      BY <2>1 DEF LogPeer, mainVars, listVars
    <2>2. CASE CloseConn(t)
      <3> DEFINE b == [td[t] EXCEPT !.is_completed = TRUE]
      <3>1. td[t] \in [fd : Numbers, is_completed : BOOLEAN]
        BY <1>4 DEF ListInv, BlocksOK
      <3>2. b.fd = td[t].fd
        BY <3>1
      <3>3. td' = [td EXCEPT ![t] = b]
        BY <2>2 DEF CloseConn
      <3> HIDE DEF b
      <3> QED
        BY <3>2, <3>3
    <2> QED
      BY <2>1, <2>2
  <1>7. CASE LogPeer(t)
    <2>1. thr[t].pc = "log_peer" /\ thr'[t].pc = "ended" /\ UNCHANGED fds
      BY <1>7, EndMoves DEF ListInv, Moves, LogPeer
    <2>2. ConnDuties' = ConnDuties
      BY <1>2, <1>4, <1>6, <2>1, ConnKept
    <2>3. StdDuties' = StdDuties
      BY <2>1, StdKept
    <2>4. Duties' = Duties
      BY <1>3, <1>5, <2>2, <2>3, DutiesParts DEF Parts
    <2>5. \A n \in Fds : fds'[n] = fds[n]
      BY <2>1
    <2> QED
      BY <2>4, <2>5, OwnedSame
  <1>8. CASE CloseConn(t)
    <2>1. thr[t].pc = "close" /\ thr'[t].pc = "log_peer" /\ SetFd(td[t].fd, Free)
      BY <1>8, EndMoves DEF ListInv, Moves, CloseConn, close
    <2>2. Serving' = Serving \ {t} /\ t \in Serving
      BY <1>2, <1>4, <1>6, <2>1 DEF Serving
    <2>3. \A u \in Serving : td'[u].fd = td[u].fd
      BY <1>6 DEF Serving
    <2>4. CASE td[t].fd = -1
      <3>1. ConnDuties' = ConnDuties
        BY <2>2, <2>3, <2>4 DEF ConnDuties
      <3>2. \A n \in Fds : fds'[n] = fds[n]
        BY <2>1, <2>4, SetFdTable
      <3>3. StdDuties' = StdDuties
        BY <3>2, StdKept
      <3>4. Duties' = Duties
        BY <1>3, <1>5, <3>1, <3>3, DutiesParts DEF Parts
      <3> QED
        BY <3>2, <3>4, OwnedSame
    <2>5. CASE td[t].fd # -1
      <3>1. PICK d : d = <<"conn", td[t].fd, t>>
        OBVIOUS
      <3>2. d[1] = "conn" /\ d[2] = td[t].fd /\ d[3] = t
        BY <3>1
      <3>3. d \in ConnDuties
        BY <2>2, <2>5, <3>1 DEF ConnDuties
      <3>4. d \in Duties
        BY <3>3, DutiesParts DEF Parts
      <3>5. td[t].fd \in Fds /\ fds[td[t].fd].kind = "conn"
        BY <3>2, <3>4 DEF Owned
      <3>6. fds'[td[t].fd] = Free /\ \A m \in Fds \ {td[t].fd} : fds'[m] = fds[m]
        BY <2>1, <3>5, SetFdTable, ZenonT(60)
      <3>7. ConnDuties' = ConnDuties \ {d}
        BY <2>2, <2>3, <3>1 DEF ConnDuties
      <3>8. d \notin AcceptDuty /\ d \notin LogDuty /\ d \notin ListenDuty /\ d \notin StdDuties
        BY <1>4, <3>2, DutyKinds, ServerAssumption
      <3>9. StdDuties' = StdDuties
        <4>1. fds[td[t].fd] # Inherited /\ Free # Inherited
          BY <3>5 DEF Inherited, Free
        <4>2. \A m \in Std : fds'[m] = Inherited <=> fds[m] = Inherited
          BY <3>6, <4>1
        <4> QED
          BY <4>2, StdKept
      <3>10. Duties' = Duties \ {d}
        BY <1>3, <1>5, <3>7, <3>8, <3>9, DutiesParts DEF Parts
      <3> QED
        BY <3>2, <3>4, <3>6, <3>10, OwnedLoses
    <2> QED
      BY <2>4, <2>5
  <1> QED
    BY <1>7, <1>8

LEMMA ThreadOwned ==
  ASSUME ListInv, Frame, Owned, ~overlapped, NEW t \in Threads, ThreadStep(t)
  PROVE  Owned'
  BY ReadOwned, KeepsOwned, OpenOwned, CloseLogOwned, EndOwned DEF ThreadStep

-----------------------------------------------------------------------------
(***************************************************************************)
(* The steps of the main thread.                                           *)
(***************************************************************************)

\* A step that changes neither threads, nor blocks, nor descriptors.
LEMMA MainPasses ==
  ASSUME ListInv, Owned, UNCHANGED <<thr, td, log_fd>>,
         \A n \in Fds : fds'[n] = fds[n],
         AcceptDuty' = AcceptDuty, ListenDuty' = ListenDuty
  PROVE  Owned'
  <1>1. ConnDuties' = ConnDuties /\ LogDuty' = LogDuty
    BY DEF ConnDuties, Serving, LogDuty, LogIsOpen
  <1>2. StdDuties' = StdDuties
    BY StdKept, ServerAssumption
  <1>3. Duties' = Duties
    BY <1>1, <1>2, DutiesParts DEF Parts
  <1> QED
    BY <1>3, OwnedSame

\* Any other number than those of d is left alone.
LEMMA MainCloses ==
  ASSUME ListInv, Owned, UNCHANGED <<thr, td, log_fd>>, NEW d, d[1] # "std",
         SetFd(d[2], Free),
         d \in AcceptDuty \/ d \in ListenDuty,
         AcceptDuty' = AcceptDuty \ {d}, ListenDuty' = ListenDuty \ {d}
  PROVE  Owned'
  <1>1. DOMAIN td \subseteq Threads
    BY DEF ListInv, BlocksOK
  <1>2. ConnDuties' = ConnDuties /\ LogDuty' = LogDuty
    BY DEF ConnDuties, Serving, LogDuty, LogIsOpen
  <1>3. d \in Duties
    BY DutiesParts DEF Parts
  <1>4. d[2] \in Fds /\ fds[d[2]].kind = d[1]
    BY <1>3 DEF Owned
  <1>5. fds'[d[2]] = Free /\ \A m \in Fds \ {d[2]} : fds'[m] = fds[m]
    BY <1>4, SetFdTable, SMTT(30)
  <1>6. StdDuties' = StdDuties
    <2>1. fds[d[2]] # Inherited /\ Free # Inherited
      BY <1>4 DEF Inherited, Free
    <2>2. \A m \in Std : fds'[m] = Inherited <=> fds[m] = Inherited
      BY <1>5, <2>1
    <2> QED
      BY <2>2, StdKept
  <1>7. d \notin ConnDuties /\ d \notin LogDuty /\ d \notin StdDuties
    BY <1>1, DutyKinds, ServerAssumption
  <1>8. Duties' = Duties \ {d}
    BY <1>2, <1>6, <1>7, DutiesParts DEF Parts
  <1> QED
    BY <1>3, <1>5, <1>8, OwnedLoses

\* A new socket or connection.
LEMMA MainOpens ==
  ASSUME ListInv, Owned, UNCHANGED <<thr, td, log_fd>>, NewFd # -1,
         NEW file, file.kind \in {"listen", "conn"}, SetFd(NewFd, file),
         AcceptDuty' \cup ListenDuty'
           = (AcceptDuty \cup ListenDuty) \cup {<<file.kind, NewFd, NULL>>}
  PROVE  Owned'
  <1>1. DOMAIN td \subseteq Threads
    BY DEF ListInv, BlocksOK
  <1>2. ConnDuties' = ConnDuties /\ LogDuty' = LogDuty
    BY DEF ConnDuties, Serving, LogDuty, LogIsOpen
  <1>3. PICK n \in Fds : n = NewFd /\ fds[n] = Free
    BY NewFdFree
  <1>4. fds'[n] = file /\ \A m \in Fds \ {n} : fds'[m] = fds[m]
    BY <1>3, SetFdTable
  <1>5. StdDuties' = StdDuties
    <2>1. fds[n] # Inherited /\ fds'[n] # Inherited
      BY <1>3, <1>4 DEF Free, Inherited
    <2>2. \A m \in Std : fds'[m] = Inherited <=> fds[m] = Inherited
      BY <1>4, <2>1
    <2> QED
      BY <2>2, StdKept
  <1>6. Duties' = Duties \cup {<<file.kind, n, NULL>>}
    BY <1>2, <1>3, <1>5, DutiesParts DEF Parts
  <1>7. fds'[n].kind = file.kind
    BY <1>4
  <1> QED
    BY <1>1, <1>3, <1>4, <1>6, <1>7, OwnedGains

\* What main is made of after a step that says so.
LEMMA MainFields ==
  ASSUME ListInv
  PROVE  /\ \A pc : Goto(pc) => /\ main'.pc = pc
                                /\ main'.listenfd = main.listenfd
                                /\ main'.connfd = main.connfd
         /\ main.listenfd \in Numbers /\ main.connfd \in Numbers
  <1>1. main \in [pc : MainPCs, listenfd : Numbers, connfd : Numbers,
                  item : Threads \cup {NULL}]
    BY DEF ListInv, BlocksOK
  <1> QED
    BY <1>1 DEF Goto

\* The main thread goes from one place to another with what it has.
LEMMA MainPassesOwned ==
  ASSUME ListInv, Owned, Running',
         \/ Bind \/ Listen \/ StartFails \/ PollSignal \/ MallocFails \/ add_thread
         \/ MaintainEnd \/ RemoveFile \/ DestroyLock \/ Exit
  PROVE  Owned'
  <1>1. main \in [pc : MainPCs, listenfd : Numbers, connfd : Numbers,
                  item : Threads \cup {NULL}]
    BY DEF ListInv, BlocksOK
  <1>2. UNCHANGED <<thr, td, fds, log_fd>>
    BY DEF Bind, Listen, StartFails, PollSignal, MallocFails, add_thread, MaintainEnd,
           RemoveFile, DestroyLock, Exit, listVars
  <1>3. /\ main'.listenfd = main.listenfd
        /\ ~MainAt("create") /\ ~MainAt("create")'
        /\ \/ /\ main.pc \in {"remove", "destroy"}
              /\ main'.pc \in {"destroy", "join"}
           \/ /\ main.pc \notin {"socket", "remove", "destroy", "join"}
              /\ main'.pc \notin {"socket", "remove", "destroy", "join"}
    <2>1. CASE Bind
      BY <1>1, <2>1 DEF Bind, Goto, MainAt
    <2>2. CASE Listen \/ PollSignal
      BY <1>1, <2>2 DEF Listen, PollSignal, Goto, MainAt
    <2>3. CASE StartFails \/ MallocFails \/ Exit
      BY <1>1, <2>3 DEF StartFails, MallocFails, Exit, Goto, Running
    <2>4. CASE add_thread
      BY <1>1, <2>4 DEF add_thread, Goto, MainAt
    <2>5. CASE MaintainEnd
      BY <1>1, <2>5 DEF MaintainEnd, MainAt
    <2>6. CASE RemoveFile \/ DestroyLock
      BY <1>1, <2>6 DEF RemoveFile, DestroyLock, Goto, MainAt
    <2> QED
      BY <2>1, <2>2, <2>3, <2>4, <2>5, <2>6
  <1>4. AcceptDuty' = AcceptDuty /\ ListenDuty' = ListenDuty
    BY <1>3 DEF AcceptDuty, ListenDuty, MainAt
  <1> QED
    BY <1>2, <1>4, MainPasses

LEMMA CreateOwned ==
  ASSUME ListInv, Owned, NEW t \in Threads, Create(t)
  PROVE  Owned'
  <1>1. /\ MainAt("create") /\ t = Min(Threads \ DOMAIN td) /\ DOMAIN td # Threads
        /\ td' = [u \in DOMAIN td \cup {t} |->
                    IF u = t THEN [fd |-> main.connfd, is_completed |-> FALSE] ELSE td[u]]
        /\ thr' = [thr EXCEPT ![t] = [NoThr EXCEPT !.pc = "read"]]
        /\ main' = [main EXCEPT !.pc = "add", !.item = t]
        /\ UNCHANGED <<fds, log_fd>>
    BY DEF Create
  <1>2. /\ main \in [pc : MainPCs, listenfd : Numbers, connfd : Numbers,
                     item : Threads \cup {NULL}]
        /\ DOMAIN td \subseteq Threads /\ ThreadsOK
    BY DEF ListInv, BlocksOK
  <1>3. t \notin DOMAIN td
    <2>1. Threads \ DOMAIN td \subseteq Nat /\ Threads \ DOMAIN td # {}
      BY <1>1, <1>2
    <2>2. PICK n \in Threads \ DOMAIN td : \A m \in Threads \ DOMAIN td : n <= m
      BY <2>1, LeastNatural
    <2>3. Min(Threads \ DOMAIN td) \in Threads \ DOMAIN td
      BY <2>2 DEF Min
    <2> QED
      BY <1>1, <2>3
  <1>4. thr'[t].pc = "read" /\ \A u \in Threads \ {t} : thr'[u] = thr[u]
    <2> DEFINE r == [NoThr EXCEPT !.pc = "read"]
    <2>1. r.pc = "read"
      BY DEF NoThr
    <2>2. thr' = [thr EXCEPT ![t] = r] /\ DOMAIN thr = Threads
      BY <1>1, <1>2 DEF ThreadsOK
    <2> HIDE DEF r
    <2> QED
      BY <2>1, <2>2
  <1>5. /\ DOMAIN td' = DOMAIN td \cup {t}
        /\ td'[t].fd = main.connfd
        /\ \A u \in DOMAIN td : td'[u] = td[u]
    BY <1>1, <1>3
  <1>6. Serving' = Serving \cup {t} /\ t \notin Serving
    BY <1>2, <1>3, <1>4, <1>5, ZenonT(60) DEF Serving
  <1>7. LogDuty' = LogDuty
    <2>1. thr[t].pc = "none"
      BY <1>3 DEF ListInv, BlocksOK
    <2>2. thr[t].pc \notin LogPCs \cup TestPCs /\ thr'[t].pc \notin LogPCs \cup TestPCs
      BY <1>4, <2>1 DEF LogPCs, TestPCs
    <2> QED
      BY <1>1, <1>4, <2>2, AwayFromLog
  <1>8. ListenDuty' = ListenDuty /\ AcceptDuty' = {}
    <2>1. main'.pc = "add" /\ main'.listenfd = main.listenfd
      BY <1>1, <1>2
    <2> QED
      BY <1>1, <2>1 DEF ListenDuty, AcceptDuty, MainAt
  <1>9. StdDuties' = StdDuties
    BY <1>1, StdKept
  <1>10. \A u \in Serving : td'[u].fd = td[u].fd
    BY <1>5 DEF Serving
  <1>11. CASE main.connfd = -1
    <2>1. AcceptDuty = {}
      BY <1>11 DEF AcceptDuty
    <2>2. ConnDuties' = ConnDuties
      BY <1>5, <1>6, <1>10, <1>11 DEF ConnDuties
    <2>3. Duties' = Duties
      BY <1>7, <1>8, <1>9, <2>1, <2>2, DutiesParts DEF Parts
    <2>4. \A n \in Fds : fds'[n] = fds[n]
      BY <1>1
    <2> QED
      BY <2>3, <2>4, OwnedSame
  <1>12. CASE main.connfd # -1
    <2>1. PICK n : n = main.connfd
      OBVIOUS
    <2> DEFINE x == <<"conn", n, NULL>>
               y == <<"conn", n, t>>
    <2>2. AcceptDuty = {x}
      BY <1>1, <1>12, <2>1 DEF AcceptDuty
    <2>3. ConnDuties' = ConnDuties \cup {y}
      BY <1>5, <1>6, <1>10, <1>12, <2>1 DEF ConnDuties
    <2> HIDE DEF y
    <2>4. x[1] = "conn" /\ x[3] = NULL
      OBVIOUS
    <2> HIDE DEF x
    <2>5. x \notin ConnDuties /\ x \notin LogDuty /\ x \notin ListenDuty /\ x \notin StdDuties
      BY <1>2, <2>4, DutyKinds, ServerAssumption
    <2>6. x \in Duties /\ Duties' = (Duties \ {x}) \cup {y}
      BY <1>7, <1>8, <1>9, <2>2, <2>3, <2>5, DutiesParts DEF Parts
    <2> USE DEF x, y
    <2> QED
      BY <1>1, <2>6, OwnedPasses
  <1> QED
    BY <1>11, <1>12

\* A thread that is joined has closed its connection.
LEMMA JoinOwned ==
  ASSUME ListInv, Owned, NEW t \in DOMAIN td, JoinAndFree(t), UNCHANGED <<fds, log_fd>>,
         AcceptDuty' = AcceptDuty, ListenDuty' = ListenDuty
  PROVE  Owned'
  <1>1. /\ thr[t].pc = "ended"
        /\ thr' = [thr EXCEPT ![t] = NoThr]
        /\ td' = [u \in DOMAIN td \ {t} |-> td[u]]
    BY DEF JoinAndFree
  <1>2. DOMAIN td \subseteq Threads /\ DOMAIN thr = Threads /\ t \in Threads
    BY DEF ListInv, BlocksOK, ThreadsOK
  <1>3. thr'[t].pc = "none" /\ \A u \in Threads \ {t} : thr'[u] = thr[u]
    <2>1. NoThr.pc = "none"
      BY DEF NoThr
    <2>2. thr'[t] = NoThr /\ \A u \in Threads \ {t} : thr'[u] = thr[u]
      BY <1>1, <1>2
    <2> QED
      BY <2>1, <2>2
  <1>4. Serving' = Serving /\ \A u \in Serving : td'[u] = td[u]
    <2>1. DOMAIN td' = DOMAIN td \ {t} /\ \A u \in DOMAIN td \ {t} : td'[u] = td[u]
      BY <1>1
    <2> QED
      BY <1>1, <1>2, <1>3, <2>1 DEF Serving
  <1>5. ConnDuties' = ConnDuties
    BY <1>4 DEF ConnDuties
  <1>6. LogDuty' = LogDuty
    <2>1. thr[t].pc \notin LogPCs \cup TestPCs /\ thr'[t].pc \notin LogPCs \cup TestPCs
      BY <1>1, <1>3 DEF LogPCs, TestPCs
    <2> QED
      BY <1>2, <1>3, <2>1, AwayFromLog
  <1>7. StdDuties' = StdDuties
    BY StdKept
  <1>8. Duties' = Duties
    BY <1>5, <1>6, <1>7, DutiesParts DEF Parts
  <1>9. \A n \in Fds : fds'[n] = fds[n]
    OBVIOUS
  <1> QED
    BY <1>8, <1>9, OwnedSame

\* The start: the listening socket, and the numbers that make_daemon frees.
LEMMA StartOwned ==
  ASSUME ListInv, Frame, Owned, Socket \/ make_daemon
  PROVE  Owned'
  <1>1. main \in [pc : MainPCs, listenfd : Numbers, connfd : Numbers,
                  item : Threads \cup {NULL}]
    BY DEF ListInv, BlocksOK
  <1>2. CASE Socket
    <2>1. /\ MainAt("socket") /\ NewFd # -1 /\ SetFd(NewFd, Listening)
          /\ main' = [main EXCEPT !.pc = "bind", !.listenfd = NewFd]
          /\ UNCHANGED <<thr, td, log_fd>>
      BY <1>2 DEF Socket, listVars
    <2>2. main'.pc = "bind" /\ main'.listenfd = NewFd
      BY <1>1, <2>1
    <2>3. /\ AcceptDuty = {} /\ AcceptDuty' = {} /\ ListenDuty = {}
          /\ ListenDuty' = {<<"listen", NewFd, NULL>>}
      BY <2>1, <2>2 DEF AcceptDuty, ListenDuty, MainAt
    <2>4. PICK file : file = Listening
      OBVIOUS
    <2>5. file.kind = "listen"
      BY <2>4 DEF Listening
    <2>6. file.kind \in {"listen", "conn"} /\ SetFd(NewFd, file)
      BY <2>1, <2>4, <2>5
    <2>7. AcceptDuty' \cup ListenDuty'
            = (AcceptDuty \cup ListenDuty) \cup {<<file.kind, NewFd, NULL>>}
      BY <2>3, <2>5
    <2> QED
      BY <2>1, <2>6, <2>7, MainOpens
  <1>3. CASE make_daemon
    <2>1. /\ MainAt("daemon") /\ Goto("listen")
          /\ fds' = [n \in Fds |-> IF n \in Std THEN Free ELSE fds[n]]
          /\ UNCHANGED <<thr, td, log_fd>>
      BY <1>3 DEF make_daemon, listVars
    <2>2. main'.pc = "listen" /\ main'.listenfd = main.listenfd
      BY <1>1, <2>1 DEF Goto
    <2>3. AcceptDuty' = AcceptDuty /\ ListenDuty' = ListenDuty /\ AcceptDuty = {}
      BY <2>1, <2>2 DEF AcceptDuty, ListenDuty, MainAt
    <2>4. DOMAIN td = {} /\ \A t \in Threads : thr[t].pc = "none"
      BY <2>1 DEF ListInv, ListOK, BlocksOK, Starting, MainAt
    <2>5. ConnDuties = {} /\ ConnDuties' = {}
      BY <2>1, <2>4 DEF ConnDuties, Serving
    <2>6. LogDuty = {} /\ LogDuty' = {}
      <3>1. ~LogIsOpen /\ ~LogIsOpen'
        BY <2>1, <2>4 DEF LogIsOpen
      <3> QED
        BY <3>1 DEF LogDuty
    <2>7. StdDuties' = {}
      <3>1. \A n \in Std : fds'[n] = Free
        BY <2>1, ServerAssumption
      <3>2. Free # Inherited
        BY DEF Free, Inherited
      <3> QED
        BY <3>1, <3>2 DEF StdDuties
    <2>8. Duties = ListenDuty \cup StdDuties /\ Duties' = ListenDuty
      BY <2>3, <2>5, <2>6, <2>7, DutiesParts DEF Parts
    <2>9. \A d \in StdDuties : d[2] \in Std
      BY DEF StdDuties
    <2>10. \A n \in Std : \E d \in StdDuties : d[2] = n /\ d[1] = "std"
      <3>1. \A n \in Std : fds[n] = Inherited
        BY <2>1 DEF Frame, MainAt
      <3> SUFFICES ASSUME NEW n \in Std PROVE \E d \in StdDuties : d[2] = n /\ d[1] = "std"
        OBVIOUS
      <3> DEFINE d == <<"std", n, NULL>>
      <3>2. d \in StdDuties /\ d[2] = n /\ d[1] = "std"
        BY <3>1 DEF StdDuties
      <3> HIDE DEF d
      <3> QED
        BY <3>2
    <2>11. \A d \in ListenDuty : d[2] \notin Std /\ d \in Duties /\ d[1] = "listen"
      <3>1. \A d \in ListenDuty : d[1] = "listen" /\ d \in Duties
        BY <2>8 DEF ListenDuty
      <3>2. \A d \in StdDuties : d \in Duties
        BY <2>8
      <3>3. \A c, e \in Duties : c[2] = e[2] => c = e
        BY DEF Owned
      <3> SUFFICES ASSUME NEW d \in ListenDuty, d[2] \in Std PROVE FALSE
        BY <3>1
      <3>4. PICK e \in StdDuties : e[2] = d[2] /\ e[1] = "std"
        BY <2>10
      <3>5. e = d
        BY <3>1, <3>2, <3>3, <3>4
      <3> QED
        BY <3>1, <3>4, <3>5
    <2>12. \A d \in Duties' : d[2] \in Fds /\ fds'[d[2]].kind = d[1]
      <3> SUFFICES ASSUME NEW d \in ListenDuty
                   PROVE  d[2] \in Fds /\ fds'[d[2]].kind = d[1]
        BY <2>8
      <3>1. d[2] \in Fds /\ fds[d[2]].kind = d[1] /\ d[2] \notin Std
        BY <2>11 DEF Owned
      <3> QED
        BY <2>1, <3>1
    <2>13. \A n \in Fds : fds'[n] # Free => \E d \in Duties' : d[2] = n
      <3> SUFFICES ASSUME NEW n \in Fds, fds'[n] # Free
                   PROVE  \E d \in ListenDuty : d[2] = n
        BY <2>8
      <3>1. n \notin Std /\ fds[n] # Free
        BY <2>1
      <3>2. PICK d \in Duties : d[2] = n
        BY <3>1 DEF Owned
      <3> QED
        BY <2>8, <2>9, <3>1, <3>2
    <2>14. \A d, e \in Duties' : d[2] = e[2] => d = e
      BY <2>8 DEF Owned
    <2> QED
      BY <2>12, <2>13, <2>14 DEF Owned
  <1> QED
    BY <1>2, <1>3

\* accept, and what is closed of it when it gets no thread.
LEMMA AcceptOwned ==
  ASSUME ListInv, Frame, Owned, Accept
  PROVE  Owned'
  <1>1. /\ MainAt("poll")
        /\ main' = [main EXCEPT !.pc = "create", !.connfd = NewFd]
        /\ UNCHANGED <<thr, td, log_fd>>
    BY DEF Accept, listVars
  <1>2. main'.pc = "create" /\ main'.connfd = NewFd /\ main'.listenfd = main.listenfd
    BY <1>1 DEF ListInv, BlocksOK
  <1>3. /\ AcceptDuty = {} /\ ListenDuty' = ListenDuty
        /\ AcceptDuty' = IF NewFd # -1 THEN {<<"conn", NewFd, NULL>>} ELSE {}
    BY <1>1, <1>2 DEF AcceptDuty, ListenDuty, MainAt
  <1>4. CASE NewFd = -1
    <2>1. UNCHANGED fds /\ AcceptDuty' = AcceptDuty
      BY <1>3, <1>4 DEF Accept
    <2> QED
      BY <1>1, <1>3, <2>1, MainPasses
  <1>5. CASE NewFd # -1
    <2>1. PICK file : file.kind = "conn" /\ SetFd(NewFd, file)
      <3> DEFINE c == Min({d \in Clients : peer[d] = "new"})
      <3>1. SetFd(NewFd, Connected(c))
        BY <1>5 DEF Accept
      <3>2. Connected(c).kind = "conn"
        BY DEF Connected
      <3> QED
        BY <3>1, <3>2
    <2>2. AcceptDuty' \cup ListenDuty'
            = (AcceptDuty \cup ListenDuty) \cup {<<file.kind, NewFd, NULL>>}
      BY <1>3, <1>5, <2>1
    <2> QED
      BY <1>1, <1>5, <2>1, <2>2, MainOpens
  <1> QED
    BY <1>4, <1>5

LEMMA CreateFailsOwned ==
  ASSUME ListInv, Frame, Owned, CreateFails
  PROVE  Owned'
  <1>1. /\ MainAt("create") /\ SetFd(main.connfd, Free)
        /\ main' = [main EXCEPT !.pc = "maintain", !.item = slh_first]
        /\ UNCHANGED <<thr, td, log_fd>>
    BY DEF CreateFails, listVars, close
  <1>2. main'.pc = "maintain" /\ main'.listenfd = main.listenfd
    BY <1>1 DEF ListInv, BlocksOK
  <1>3. AcceptDuty' = {} /\ ListenDuty' = ListenDuty
    BY <1>1, <1>2 DEF AcceptDuty, ListenDuty, MainAt
  <1>4. CASE main.connfd = -1
    <2>1. AcceptDuty = {}
      BY <1>4 DEF AcceptDuty
    <2>2. \A n \in Fds : fds'[n] = fds[n]
      BY <1>1, <1>4, SetFdTable
    <2> QED
      BY <1>1, <1>3, <2>1, <2>2, MainPasses
  <1>5. CASE main.connfd # -1
    <2> DEFINE d == <<"conn", main.connfd, NULL>>
    <2>1. d[1] = "conn" /\ d[2] = main.connfd
      OBVIOUS
    <2>2. AcceptDuty = {d}
      BY <1>1, <1>5 DEF AcceptDuty
    <2> HIDE DEF d
    <2>3. \A e \in ListenDuty : e[1] = "listen"
      BY DEF ListenDuty
    <2>4. PICK e : e = d
      OBVIOUS
    <2>5. AcceptDuty' = AcceptDuty \ {e} /\ ListenDuty' = ListenDuty \ {e} /\ e \in AcceptDuty
      BY <1>3, <2>1, <2>2, <2>3, <2>4
    <2>6. e[1] # "std" /\ SetFd(e[2], Free)
      BY <1>1, <2>1, <2>4
    <2> QED
      BY <1>1, <2>5, <2>6, MainCloses
  <1> QED
    BY <1>4, <1>5

LEMMA CloseListenOwned ==
  ASSUME ListInv, Frame, Owned, CloseListen
  PROVE  Owned'
  <1>1. /\ MainAt("close_listen") /\ SetFd(main.listenfd, Free) /\ Goto("remove")
        /\ UNCHANGED <<thr, td, log_fd>>
    BY DEF CloseListen, listVars, close
  <1>2. main'.pc = "remove"
    BY <1>1, MainFields
  <1> DEFINE d == <<"listen", main.listenfd, NULL>>
  <1>3. d[1] = "listen" /\ d[2] = main.listenfd
    OBVIOUS
  <1>4. ListenDuty = {d} /\ ListenDuty' = {} /\ AcceptDuty = {} /\ AcceptDuty' = {}
    BY <1>1, <1>2 DEF AcceptDuty, ListenDuty, MainAt
  <1> HIDE DEF d
  <1>5. PICK e : e = d
    OBVIOUS
  <1>6. AcceptDuty' = AcceptDuty \ {e} /\ ListenDuty' = ListenDuty \ {e} /\ e \in ListenDuty
    BY <1>4, <1>5
  <1>7. e[1] # "std" /\ SetFd(e[2], Free)
    BY <1>1, <1>3, <1>5
  <1> QED
    BY <1>1, <1>6, <1>7, MainCloses

\* do_maintenance, and the joins of shutdown.
LEMMA JoinsOwned ==
  ASSUME ListInv, Frame, Owned, Running, Maintain \/ JoinFirst
  PROVE  Owned'
  <1>1. UNCHANGED <<fds, log_fd>>
    BY DEF Maintain, JoinFirst
  <1>2. CASE Maintain
    <2>1. main'.pc = main.pc /\ main'.listenfd = main.listenfd /\ MainAt("maintain")
      BY <1>2 DEF Maintain, ListInv, BlocksOK
    <2>2. AcceptDuty' = AcceptDuty /\ ListenDuty' = ListenDuty
      BY <2>1 DEF AcceptDuty, ListenDuty, MainAt
    <2>3. CASE td[main.item].is_completed
      <3>1. JoinAndFree(main.item)
        BY <1>2, <2>3 DEF Maintain
      <3>2. main.item \in DOMAIN td
        BY <1>2, <2>1 DEF Maintain, ListInv, ListOK
      <3>3. PICK t \in DOMAIN td : t = main.item
        BY <3>2
      <3>4. JoinAndFree(t)
        BY <3>1, <3>3
      <3> QED
        BY <1>1, <2>2, <3>4, JoinOwned
    <2>4. CASE ~td[main.item].is_completed
      <3>1. UNCHANGED <<thr, td>>
        BY <1>2, <2>4 DEF Maintain, listVars
      <3> QED
        BY <1>1, <2>2, <3>1, MainPasses
    <2> QED
      BY <2>3, <2>4
  <1>3. CASE JoinFirst
    <2>1. /\ MainAt("join") /\ slh_first # NULL /\ JoinAndFree(slh_first) /\ main' = main
      BY <1>3 DEF JoinFirst
    <2>2. AcceptDuty' = AcceptDuty /\ ListenDuty' = ListenDuty
      BY <2>1 DEF AcceptDuty, ListenDuty, MainAt
    <2>3. PICK l : Lists(l)
      BY DEF ListInv, ListOK
    <2>4. slh_first \in DOMAIN td
      <3>1. l \in Seq(Threads) /\ l # <<>> /\ slh_first = l[1]
        BY <2>1, <2>3 DEF Lists, Links
      <3>2. 1 \in 1 .. Len(l)
        BY <3>1, EmptySeq
      <3>3. slh_first \in Elements
        BY <2>3, <3>1, <3>2 DEF Lists, Members
      <3> QED
        BY <3>3 DEF Elements
    <2>5. PICK t \in DOMAIN td : t = slh_first
      BY <2>4
    <2>6. JoinAndFree(t)
      BY <2>1, <2>5
    <2> QED
      BY <1>1, <2>2, <2>6, JoinOwned
  <1> QED
    BY <1>2, <1>3

-----------------------------------------------------------------------------
LEMMA InitFds == Init => FdsInv
  <1> SUFFICES ASSUME Init PROVE FdsInv
    OBVIOUS
  <1>1. /\ fds = [n \in Fds |-> IF n \in Std THEN Inherited ELSE Free]
        /\ main.pc = "socket" /\ DOMAIN td = {}
        /\ \A t \in Threads : thr[t].pc = "none"
    BY DEF Init, NoThr
  <1>2. ConnDuties = {} /\ AcceptDuty = {} /\ LogDuty = {} /\ ListenDuty = {}
    BY <1>1 DEF ConnDuties, Serving, AcceptDuty, LogDuty, LogIsOpen, ListenDuty, MainAt
  <1>3. Duties = StdDuties
    BY <1>2, DutiesParts DEF Parts
  <1>4. Free # Inherited /\ Inherited.kind = "std"
    BY DEF Free, Inherited
  <1>5. \A d \in Duties : d[2] \in Fds /\ fds[d[2]].kind = d[1]
    <2> SUFFICES ASSUME NEW d \in StdDuties PROVE d[2] \in Fds /\ fds[d[2]].kind = d[1]
      BY <1>3
    <2>1. PICK n \in Std : fds[n] = Inherited /\ d = <<"std", n, NULL>>
      BY DEF StdDuties
    <2>2. d[1] = "std" /\ d[2] = n /\ n \in Fds
      BY <2>1
    <2> QED
      BY <1>4, <2>1, <2>2
  <1>6. \A n \in Fds : fds[n] # Free => \E d \in Duties : d[2] = n
    <2> SUFFICES ASSUME NEW n \in Fds, fds[n] # Free
                 PROVE  \E d \in StdDuties : d[2] = n
      BY <1>3
    <2>1. n \in Std /\ fds[n] = Inherited
      BY <1>1
    <2> DEFINE d == <<"std", n, NULL>>
    <2>2. d \in StdDuties /\ d[2] = n
      BY <2>1 DEF StdDuties
    <2> HIDE DEF d
    <2> QED
      BY <2>2
  <1>7. \A d, e \in Duties : d[2] = e[2] => d = e
    BY <1>3 DEF StdDuties
  <1> QED
    BY <1>5, <1>6, <1>7, InitFrame DEF FdsInv, Owned

LEMMA NextFds == ListInv /\ FdsInv /\ [Next]_vars => FdsInv'
  <1> SUFFICES ASSUME ListInv, FdsInv, [Next]_vars PROVE FdsInv'
    OBVIOUS
  <1>1. Frame /\ (Running /\ ~overlapped => Owned)
    BY DEF FdsInv
  <1>2. ASSUME UNCHANGED <<thr, td, fds, log_fd, main, overlapped>>
        PROVE  FdsInv'
    <2>1. Frame'
      BY <1>1, <1>2 DEF Frame, TakesTurns
    <2>2. AcceptDuty' = AcceptDuty /\ ListenDuty' = ListenDuty /\ (Running' <=> Running)
      BY <1>2 DEF AcceptDuty, ListenDuty, MainAt, Running
    <2>3. \A n \in Fds : fds'[n] = fds[n]
      BY <1>2
    <2>4. Owned => Owned'
      BY <1>2, <2>2, <2>3, MainPasses
    <2> QED
      BY <1>1, <1>2, <2>1, <2>2, <2>4 DEF FdsInv
  <1>3. ASSUME NEW c \in Clients, NEW m, Leave(c) \/ Send(c, m) PROVE FdsInv'
    BY <1>2, <1>3 DEF Leave, Send, procVars, listVars
  <1>4. CASE Signal
    BY <1>2, <1>4 DEF Signal, procVars, listVars
  <1>5. CASE UNCHANGED vars
    BY <1>2, <1>5 DEF vars, listVars
  <1>6. ASSUME NEW t \in Threads, Running, ThreadStep(t) PROVE FdsInv'
    <2>1. Frame' /\ (overlapped => overlapped')
      BY <1>1, <1>6, ThreadFrame
    <2>2. ~overlapped => Owned'
      BY <1>1, <1>6, ThreadOwned
    <2> QED
      BY <2>1, <2>2 DEF FdsInv
  <1>7. ASSUME NEW t \in Threads, Sigpipe(t) PROVE FdsInv'
    <2>1. Goto("killed") /\ UNCHANGED <<thr, fds, log_fd, overlapped>>
      BY <1>7 DEF Sigpipe
    <2>2. main'.pc = "killed"
      BY <2>1, MainFields
    <2> QED
      BY <1>1, <2>1, <2>2 DEF FdsInv, Frame, TakesTurns, Running
  <1>8. CASE Running /\ (MainStep \/ Accept)
    <2>1. Frame' /\ overlapped' = overlapped
      BY <1>1, <1>8, MainFrame
    <2>2. ASSUME Running', ~overlapped' PROVE Owned'
      <3>1. Owned
        BY <1>1, <1>8, <2>1, <2>2
      <3> QED
        BY <1>1, <1>8, <2>2, <3>1, StartOwned, MainPassesOwned, AcceptOwned, CreateOwned,
           CreateFailsOwned, CloseListenOwned, JoinsOwned DEF MainStep
    <2> QED
      BY <2>1, <2>2 DEF FdsInv
  <1> QED
    BY <1>3, <1>4, <1>5, <1>6, <1>7, <1>8 DEF Next

\* While clients take turns every descriptor that is open is of the kind that its
\* one owner takes it for: a thread its connection until CloseConn, main the
\* connection that it has just accepted and the listening socket, and whoever is
\* inside process_message the number in log_fd, from its open to its close.  No
\* path through connection_handler, do_maintenance and aesd_thrd_shutdown leaks a
\* number or closes one twice, accepts that find the table full included.
THEOREM ServerDescriptorsOwned == Spec => []DescriptorsOwned
  <1>1. Init => LockInv /\ ListInv /\ FdsInv
    BY InitLock, InitList, InitFds
  <1>2. LockInv /\ ListInv /\ FdsInv /\ [Next]_vars => (LockInv /\ ListInv /\ FdsInv)'
    BY NextLock, NextList, NextFds
  <1>3. ListInv /\ FdsInv => DescriptorsOwned
    <2> SUFFICES ASSUME ListInv, Owned PROVE
          /\ {d[2] : d \in Duties} = {n \in Fds : fds[n] # Free}
          /\ \A d \in Duties : fds[d[2]].kind = d[1]
          /\ \A d, e \in Duties : d[2] = e[2] => d = e
      BY DEF FdsInv, DescriptorsOwned
    <2>1. \A d \in Duties : d[2] \in Fds /\ fds[d[2]].kind = d[1]
      BY DEF Owned
    <2>2. \A n \in Fds : fds[n] # Free => \E d \in Duties : d[2] = n
      BY DEF Owned
    <2>3. \A d, e \in Duties : d[2] = e[2] => d = e
      BY DEF Owned
    <2>4. \A d \in Duties : fds[d[2]] # Free
      <3>1. DOMAIN td \subseteq Threads
        BY DEF ListInv, BlocksOK
      <3>2. \A d \in Duties : d[1] # "free"
        BY <3>1, NoDutyFree
      <3>3. Free.kind = "free"
        BY DEF Free
      <3> QED
        BY <2>1, <3>2, <3>3
    <2>5. {d[2] : d \in Duties} = {n \in Fds : fds[n] # Free}
      <3> DEFINE owed == {d[2] : d \in Duties}
                 open == {n \in Fds : fds[n] # Free}
      <3>1. \A n \in owed : n \in open
        BY <2>1, <2>4, Zenon
      <3>2. \A n \in open : n \in owed
        BY <2>2, Zenon
      <3> HIDE DEF owed, open
      <3>3. owed = open
        BY <3>1, <3>2, Zenon
      <3> QED
        BY <3>3 DEF owed, open
    <2> QED
      BY <2>1, <2>3, <2>5
  <1> QED
    BY <1>1, <1>2, <1>3, PTL DEF Spec
===============================================================================
