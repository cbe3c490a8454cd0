--------------------------- MODULE ServerThrdProofs ---------------------------
(***************************************************************************)
(* write_lock keeps threads out of each other's write_safe and             *)
(* dump_file_to_client, although write_safe may return with the lock and   *)
(* shutdown destroys it before the threads have ended.  Every thread is in *)
(* the list until it is joined, through insertions and removals anywhere,  *)
(* and shutdown joins them all.  Both for any number of clients, threads,  *)
(* descriptors and slots.                                                  *)
(***************************************************************************)
EXTENDS ServerThrd, CircularBufferProofs, SequenceTheorems, FiniteSetTheorems

(***************************************************************************)
(* The lock.                                                               *)
(***************************************************************************)
ThreadFields == {"pc", "buf", "tmpbuf", "ok", "answer"}

\* What a thread is made of.
ThreadsOK == DOMAIN thr = Threads /\ \A t \in Threads : DOMAIN thr[t] = ThreadFields

LockInv == ThreadsOK /\ LockExcludes

LEMMA InitLock == Init => LockInv
  BY DEF Init, LockInv, ThreadsOK, ThreadFields, LockExcludes, Locked, NoThr

\* A step of thread t keeps the invariant when t holds the lock afterwards, if it
\* needs it, and takes it from nobody who does.
LEMMA ThreadMoves ==
  ASSUME LockInv, NEW t \in Threads, NEW r,
         thr' = [thr EXCEPT ![t] = r],
         DOMAIN r = ThreadFields,
         r.pc \in Locked => write_lock' = t,
         \A u \in Threads \ {t} : thr[u].pc \in Locked => write_lock' = u
  PROVE  LockInv'
  <1>1. DOMAIN thr' = Threads /\ thr'[t] = r
    BY DEF LockInv, ThreadsOK
  <1>2. \A u \in Threads \ {t} : thr'[u] = thr[u]
    BY DEF LockInv, ThreadsOK
  <1>3. ThreadsOK'
    BY <1>1, <1>2 DEF LockInv, ThreadsOK
  <1>4. LockExcludes'
    BY <1>1, <1>2 DEF LockExcludes
  <1> QED
    BY <1>3, <1>4 DEF LockInv

\* What is needed of a step of t that goes on elsewhere and leaves the lock
\* alone: where it goes needs no lock, or t is already there with it.
LEMMA ThreadStays ==
  ASSUME LockInv, NEW t \in Threads, NEW r,
         thr' = [thr EXCEPT ![t] = r],
         DOMAIN r = ThreadFields,
         UNCHANGED write_lock,
         r.pc \in Locked => thr[t].pc \in Locked
  PROVE  LockInv'
  <1>1. r.pc \in Locked => write_lock' = t
    BY DEF LockInv, LockExcludes
  <1>2. \A u \in Threads \ {t} : thr[u].pc \in Locked => write_lock' = u
    BY DEF LockInv, LockExcludes
  <1> QED
    BY <1>1, <1>2, ThreadMoves

LEMMA ToPc ==
  ASSUME LockInv, NEW t \in Threads, NEW pc
  PROVE  /\ DOMAIN [thr[t] EXCEPT !.pc = pc] = ThreadFields
         /\ [thr[t] EXCEPT !.pc = pc].pc = pc
  BY DEF LockInv, ThreadsOK, ThreadFields

\* The same for a step that only says where t goes.
LEMMA GoesOn ==
  ASSUME LockInv, NEW t \in Threads, NEW pc, To(t, pc),
         UNCHANGED write_lock,
         pc \in Locked => thr[t].pc \in Locked
  PROVE  LockInv'
  <1> DEFINE r == [thr[t] EXCEPT !.pc = pc]
  <1>1. thr' = [thr EXCEPT ![t] = r]
    BY DEF To, Become
  <1>2. DOMAIN r = ThreadFields /\ r.pc = pc
    BY ToPc
  <1> HIDE DEF r
  <1> QED
    BY <1>1, <1>2, ThreadStays

\* A thread that starts or is joined is outside.
LEMMA OutsideMoves ==
  ASSUME LockInv, NEW t, NEW pc \in {"none", "read"},
         thr' = [thr EXCEPT ![t] = [NoThr EXCEPT !.pc = pc]],
         UNCHANGED write_lock
  PROVE  LockInv'
  <1> DEFINE r == [NoThr EXCEPT !.pc = pc]
  <1>1. DOMAIN r = ThreadFields /\ r.pc = pc
    BY DEF NoThr, ThreadFields
  <1>2. pc \notin Locked
    BY DEF Locked
  <1>3. \A u \in Threads : thr'[u] = thr[u] \/ thr'[u] = r
    BY DEF LockInv, ThreadsOK
  <1>4. DOMAIN thr' = Threads
    BY DEF LockInv, ThreadsOK
  <1> HIDE DEF r
  <1>5. ThreadsOK'
    BY <1>1, <1>3, <1>4 DEF LockInv, ThreadsOK
  <1>6. LockExcludes'
    BY <1>1, <1>2, <1>3 DEF LockInv, LockExcludes
  <1> QED
    BY <1>5, <1>6 DEF LockInv

LEMMA JoinMoves ==
  ASSUME LockInv, NEW t, JoinAndFree(t), UNCHANGED write_lock
  PROVE  LockInv'
  <1>1. [NoThr EXCEPT !.pc = "none"] = NoThr
    BY DEF NoThr
  <1>2. thr' = [thr EXCEPT ![t] = [NoThr EXCEPT !.pc = "none"]]
    BY <1>1 DEF JoinAndFree
  <1> QED
    BY <1>2, OutsideMoves

LEMMA MainLock == LockInv /\ MainStep => LockInv'
  <1> SUFFICES ASSUME LockInv, MainStep PROVE LockInv'
    OBVIOUS
  <1>1. ASSUME UNCHANGED <<thr, write_lock>> PROVE LockInv'
    BY <1>1 DEF LockInv, ThreadsOK, LockExcludes
  <1>2. CASE PollSignal \/ CreateFails \/ MallocFails \/ add_thread \/ MaintainEnd
    BY <1>1, <1>2 DEF PollSignal, CreateFails, MallocFails, add_thread, MaintainEnd,
                      lockVars
  <1>3. CASE CloseListen \/ RemoveFile \/ DestroyLock \/ Exit
    BY <1>1, <1>3 DEF CloseListen, RemoveFile, DestroyLock, Exit, lockVars
  <1>4. ASSUME NEW t \in Threads, Create(t) PROVE LockInv'
    BY <1>4, OutsideMoves DEF Create, lockVars
  <1>5. CASE Maintain
    <2>1. CASE td[main.item].is_completed
      BY <1>5, <2>1, JoinMoves DEF Maintain, lockVars
    <2>2. CASE ~td[main.item].is_completed
      BY <1>5, <2>2, <1>1 DEF Maintain, lockVars
    <2> QED
      BY <2>1, <2>2
  <1>6. CASE JoinFirst
    BY <1>6, JoinMoves DEF JoinFirst, lockVars
  <1>7. CASE Socket \/ Bind \/ make_daemon \/ Listen \/ StartFails
    BY <1>1, <1>7 DEF Socket, Bind, make_daemon, Listen, StartFails, lockVars
  <1> QED
    BY <1>2, <1>3, <1>4, <1>5, <1>6, <1>7 DEF MainStep

\* The steps of connection_handler, outside the lock.
LEMMA HandlerLock ==
  ASSUME LockInv, NEW t \in Threads, Read(t) \/ CloseConn(t) \/ LogPeer(t)
  PROVE  LockInv'
  <1>1. ASSUME NEW pc \in Outside, To(t, pc), UNCHANGED write_lock PROVE LockInv'
    <2>1. pc \notin Locked
      BY DEF Outside, Locked
    <2> QED
      BY <1>1, <2>1, GoesOn
  <1>2. CASE CloseConn(t)
    BY <1>1, <1>2 DEF CloseConn, lockVars, Outside
  <1>3. CASE LogPeer(t)
    BY <1>1, <1>3 DEF LogPeer, lockVars, Outside
  <1>4. CASE Read(t)
    <2> DEFINE bytes == ReadGets(td[t].fd, BUFFSIZE)
               pc == IF IsSeek(bytes) THEN "s_open" ELSE "w_lock"
               r == [NoThr EXCEPT !.pc = pc, !.buf = bytes]
    <2>1. UNCHANGED write_lock
      BY <1>4 DEF Read, lockVars
    <2>2. CASE bytes = <<>>
      BY <1>1, <1>4, <2>1, <2>2 DEF Read, Outside
    <2>3. CASE bytes # <<>>
      <3>1. thr' = [thr EXCEPT ![t] = r]
        BY <1>4, <2>3 DEF Read, Become
      <3>2. pc \notin Locked
        BY DEF Locked
      <3> HIDE DEF pc, bytes
      <3>3. DOMAIN r = ThreadFields /\ r.pc = pc
        BY DEF NoThr, ThreadFields
      <3> HIDE DEF r
      <3> QED
        BY <2>1, <3>1, <3>2, <3>3, ThreadStays
    <2> QED
      BY <2>2, <2>3
  <1> QED
    BY <1>2, <1>3, <1>4

\* The lock changes hands: it is taken when it is free, and given back by the one
\* who has it.
LEMMA TakeLock ==
  ASSUME LockInv, NEW t \in Threads, Lock(t)
  PROVE  LockInv'
  <1>1. CASE write_lock = NoThread /\ write_lock' = t
             /\ To(t, IF At(t, "w_lock") THEN "w_open" ELSE "d_open")
    <2>1. \A u \in Threads \ {t} : thr[u].pc \notin Locked
      BY <1>1, ServerAssumption DEF LockInv, LockExcludes
    <2> QED
      BY <1>1, <2>1, ToPc, ThreadMoves DEF To, Become
  <1>2. CASE destroyed /\ To(t, "read") /\ UNCHANGED write_lock
    <2>1. "read" \notin Locked
      BY DEF Locked
    <2> QED
      BY <1>2, <2>1, GoesOn
  <1> QED
    BY <1>1, <1>2 DEF Lock

LEMMA GiveBack ==
  ASSUME LockInv, NEW t \in Threads, NEW pc \in {"w_close", "read"},
         thr[t].pc \in Locked, To(t, pc)
  PROVE  LockInv'
  <1>1. \A u \in Threads \ {t} : thr[u].pc \notin Locked
    BY DEF LockInv, LockExcludes
  <1>2. pc \notin Locked
    BY DEF Locked
  <1> QED
    BY <1>1, <1>2, ToPc, ThreadMoves, ZenonT(60) DEF To, Become

\* The steps that leave the lock alone, inside and outside of it.
LEMMA OtherStepsLock ==
  ASSUME LockInv, NEW t \in Threads,
         \/ OpenLog(t) \/ TestLog(t) \/ CloseLog(t) \/ ReadLog(t) \/ SendChunk(t)
         \/ WriteLog(t) \/ SeekIoctl(t)
  PROVE  LockInv'
  <1>1. UNCHANGED write_lock
    BY DEF OpenLog, TestLog, CloseLog, ReadLog, SendChunk, WriteLog, SeekIoctl, lockVars
  <1>2. CASE OpenLog(t)
    <2> DEFINE pc == CASE At(t, "w_open") -> "w_test"
                       [] At(t, "d_open") -> "d_test"
                       [] At(t, "s_open") -> "s_test"
    <2>1. To(t, pc)
      BY <1>2 DEF OpenLog
    <2>2. pc \in Locked => thr[t].pc \in Locked
      BY <1>2 DEF OpenLog, At, Locked
    <2> QED
      BY <1>1, <2>1, <2>2, GoesOn
  <1>3. CASE TestLog(t)
    <2> DEFINE pc == CASE At(t, "w_test") -> IF log_fd < 0 THEN "read" ELSE "w_write"
                       [] At(t, "d_test") -> IF log_fd < 0 THEN "d_unlock" ELSE "d_read"
                       [] At(t, "s_test") -> IF log_fd < 0 THEN "read" ELSE "s_ioctl"
    <2>1. To(t, pc)
      BY <1>3 DEF TestLog
    <2>2. pc \in Locked => thr[t].pc \in Locked
      BY <1>3 DEF TestLog, At, Locked
    <2> QED
      BY <1>1, <2>1, <2>2, GoesOn
  <1>4. CASE CloseLog(t)
    <2> DEFINE pc == CASE At(t, "w_close") ->
                            IF thr[t].ok /\ Contains(thr[t].buf, NL)
                            THEN "d_lock" ELSE "read"
                       [] At(t, "d_close") -> "d_unlock"
                       [] At(t, "s_close") -> "read"
    <2>1. To(t, pc)
      BY <1>4 DEF CloseLog
    <2>2. pc \in Locked => thr[t].pc \in Locked
      BY <1>4 DEF CloseLog, At, Locked
    <2> QED
      BY <1>1, <2>1, <2>2, GoesOn
  <1>5. CASE ReadLog(t)
    <2> DEFINE bytes == ReadGets(log_fd, BUFFSIZE)
               pc == IF bytes = <<>>
                     THEN IF At(t, "d_read") THEN "d_close" ELSE "s_close"
                     ELSE IF At(t, "d_read") THEN "d_send" ELSE "s_send"
               r == [thr[t] EXCEPT !.pc = pc, !.tmpbuf = bytes, !.answer = @ \o bytes]
    <2>1. thr' = [thr EXCEPT ![t] = r]
      BY <1>5 DEF ReadLog, Become, At
    <2>2. pc \in Locked => thr[t].pc \in Locked
      BY <1>5 DEF ReadLog, At, Locked
    <2> HIDE DEF pc, bytes
    <2>3. DOMAIN r = ThreadFields /\ r.pc = pc
      BY DEF LockInv, ThreadsOK, ThreadFields
    <2> HIDE DEF r
    <2> QED
      BY <1>1, <2>1, <2>2, <2>3, ThreadStays
  <1>6. CASE SendChunk(t)
    <2> DEFINE pc == IF At(t, "d_send") THEN "d_read" ELSE "s_read"
               r == [thr[t] EXCEPT !.pc = pc, !.tmpbuf = <<>>]
    <2>1. thr' = [thr EXCEPT ![t] = r]
      BY <1>6 DEF SendChunk, Become, At
    <2>2. pc \in Locked => thr[t].pc \in Locked
      BY <1>6 DEF SendChunk, At, Locked
    <2> HIDE DEF pc
    <2>3. DOMAIN r = ThreadFields /\ r.pc = pc
      BY DEF LockInv, ThreadsOK, ThreadFields
    <2> HIDE DEF r
    <2> QED
      BY <1>1, <2>1, <2>2, <2>3, ThreadStays
  <1>7. CASE WriteLog(t)
    <2>1. PICK ok \in BOOLEAN :
            thr' = [thr EXCEPT ![t] = [thr[t] EXCEPT !.pc = "w_unlock", !.ok = ok]]
      BY <1>7 DEF WriteLog, Become
    <2> DEFINE r == [thr[t] EXCEPT !.pc = "w_unlock", !.ok = ok]
    <2>2. thr[t].pc \in Locked
      BY <1>7 DEF WriteLog, At, Locked
    <2>3. DOMAIN r = ThreadFields
      BY DEF LockInv, ThreadsOK, ThreadFields
    <2>4. thr' = [thr EXCEPT ![t] = r]
      BY <2>1
    <2> HIDE DEF r
    <2> QED
      BY <1>1, <2>2, <2>3, <2>4, ThreadStays
  <1>8. CASE SeekIoctl(t)
    <2>1. "s_read" \notin Locked /\ "s_close" \notin Locked
      BY DEF Locked
    <2> QED
      BY <1>1, <1>8, <2>1, GoesOn DEF SeekIoctl
  <1> QED
    BY <1>2, <1>3, <1>4, <1>5, <1>6, <1>7, <1>8

LEMMA UnlockSteps ==
  ASSUME LockInv, NEW t \in Threads, WriteUnlock(t) \/ DumpUnlock(t)
  PROVE  LockInv'
  <1>1. thr[t].pc \in Locked
    BY DEF WriteUnlock, DumpUnlock, At, Locked
  <1>2. To(t, "w_close") \/ To(t, "read")
    BY DEF WriteUnlock, DumpUnlock
  <1> QED
    BY <1>1, <1>2, GiveBack

LEMMA NextLock == LockInv /\ [Next]_vars => LockInv'
  <1> SUFFICES ASSUME LockInv, [Next]_vars PROVE LockInv'
    OBVIOUS
  <1>1. ASSUME UNCHANGED <<thr, write_lock>> PROVE LockInv'
    BY <1>1 DEF LockInv, ThreadsOK, LockExcludes
  <1>2. ASSUME NEW c \in Clients, NEW m, Leave(c) \/ Send(c, m) PROVE LockInv'
    BY <1>1, <1>2 DEF Leave, Send, procVars, lockVars
  <1>3. CASE Signal \/ Accept
    BY <1>1, <1>3 DEF Signal, Accept, procVars, lockVars
  <1>4. CASE MainStep
    BY <1>4, MainLock
  <1>5. ASSUME NEW t \in Threads, ThreadStep(t) PROVE LockInv'
    BY <1>5, HandlerLock, TakeLock, UnlockSteps, OtherStepsLock DEF ThreadStep
  <1>6. ASSUME NEW t \in Threads, Sigpipe(t) PROVE LockInv'
    BY <1>1, <1>6 DEF Sigpipe, lockVars
  <1>7. CASE UNCHANGED vars
    BY <1>1, <1>7 DEF vars, lockVars
  <1> QED
    BY <1>2, <1>3, <1>4, <1>5, <1>6, <1>7 DEF Next

\* While a thread is inside write_safe or dump_file_to_client it has write_lock,
\* so no second one is inside: not after an open that failed with the lock kept,
\* and not while aesd_thrd_shutdown destroys the mutex.
THEOREM ServerLockExcludes == Spec => []LockExcludes
  <1>1. LockInv => LockExcludes
    BY DEF LockInv
  <1> QED
    BY <1>1, InitLock, NextLock, PTL DEF Spec

-----------------------------------------------------------------------------
(***************************************************************************)
(* Where the main thread and the threads are.                              *)
(***************************************************************************)
Numbers == Fds \cup {-1}

\* The main thread and the blocks have their types, and a thread has a block
\* from pthread_create to pthread_join.
BlocksOK ==
  /\ main \in [pc : MainPCs, listenfd : Numbers, connfd : Numbers,
               item : Threads \cup {NULL}]
  /\ DOMAIN td \subseteq Threads
  /\ \A t \in DOMAIN td : td[t] \in [fd : Numbers, is_completed : BOOLEAN]
  /\ \A t \in Threads : thr[t].pc # "none" <=> t \in DOMAIN td

Members(l) == {l[k] : k \in 1 .. Len(l)}

\* l is the list: from slh_first along sle_next to the end.
Links(l) ==
  /\ l \in Seq(Threads)
  /\ \A j, k \in 1 .. Len(l) : l[j] = l[k] => j = k
  /\ slh_first = IF l = <<>> THEN NULL ELSE l[1]
  /\ sle_next \in [Threads -> Threads \cup {NULL}]
  /\ \A k \in 1 .. Len(l) : sle_next[l[k]] = IF k = Len(l) THEN NULL ELSE l[k + 1]

\* Which blocks are in it.
Elements == DOMAIN td \ (IF MainAt("add") THEN {main.item} ELSE {})

Lists(l) ==
  /\ Links(l)
  /\ Members(l) = Elements
  /\ ~MainAt("join") => thread_clients = Len(l)

Starting == {"socket", "bind", "daemon", "listen"}

ListOK ==
  /\ Running => \E l : Lists(l)
  /\ MainAt("add") => main.item \in DOMAIN td
  /\ MainAt("maintain") => main.item = NULL \/ main.item \in DOMAIN td
  /\ main.pc \in Starting => DOMAIN td = {}
  /\ MainAt("join") => sig_triggered
  /\ main.pc \in {"close_listen", "remove", "destroy"} => sig_triggered
  /\ NoThreadLeft

ListInv == ThreadsOK /\ BlocksOK /\ ListOK

USE ServerAssumption

LEMMA InitList == Init => ListInv
  <1> SUFFICES ASSUME Init PROVE ListInv
    OBVIOUS
  <1>1. ThreadsOK
    BY InitLock DEF LockInv
  <1>2. DOMAIN td = {} /\ \A t \in Threads : thr[t].pc = "none"
    BY DEF Init, NoThr
  <1>3. /\ main.pc = "socket"
        /\ main \in [pc : MainPCs, listenfd : Numbers, connfd : Numbers,
                     item : Threads \cup {NULL}]
    BY DEF Init, MainPCs, Numbers
  <1>4. BlocksOK
    BY <1>2, <1>3 DEF BlocksOK
  <1>5. Lists(<<>>)
    <2>1. <<>> \in Seq(Threads) /\ Len(<<>>) = 0
      BY EmptySeq
    <2>2. /\ slh_first = NULL /\ sle_next \in [Threads -> Threads \cup {NULL}]
          /\ thread_clients = 0
      BY DEF Init
    <2>3. 1 .. 0 = {}
      OBVIOUS
    <2>4. Elements = {}
      BY <1>2 DEF Elements
    <2> QED
      BY <2>1, <2>2, <2>3, <2>4 DEF Lists, Links, Members
  <1>6. ListOK
    BY <1>2, <1>3, <1>5 DEF ListOK, MainAt, NoThreadLeft
  <1> QED
    BY <1>1, <1>4, <1>6 DEF ListInv

-----------------------------------------------------------------------------
(***************************************************************************)
(* Steps that leave the list alone.                                        *)
(***************************************************************************)
LEMMA NewFdNumber == NewFd \in Numbers
  <1>1. CASE FreeFds = {}
    BY <1>1 DEF NewFd, Numbers
  <1>2. CASE FreeFds # {}
    <2>1. FreeFds \subseteq Nat
      BY DEF FreeFds
    <2>2. PICK n \in FreeFds : \A m \in FreeFds : n <= m
      BY <1>2, <2>1, LeastNatural
    <2>3. Min(FreeFds) \in FreeFds
      BY <2>2 DEF Min
    <2> QED
      BY <1>2, <2>3 DEF NewFd, FreeFds, Numbers
  <1> QED
    BY <1>1, <1>2

\* A thread that goes on without starting or ending keeps what the list needs.
LEMMA ThreadGoesOn ==
  ASSUME ListInv, Running, ThreadsOK', UNCHANGED <<main, slh_first, sle_next, thread_clients>>,
         sig_triggered => sig_triggered',
         DOMAIN td' = DOMAIN td,
         \A t \in DOMAIN td : td'[t] \in [fd : Numbers, is_completed : BOOLEAN],
         \A t \in Threads : thr'[t].pc = "none" <=> thr[t].pc = "none"
  PROVE  ListInv'
  <1>1. BlocksOK'
    BY DEF ListInv, BlocksOK
  <1>2. ASSUME NEW l, Lists(l)
        PROVE  Lists(l)'
    BY <1>2 DEF Lists, Links, Elements, MainAt
  <1>3. ListOK'
    BY <1>2 DEF ListInv, ListOK, MainAt, Running, NoThreadLeft
  <1> QED
    BY <1>1, <1>3 DEF ListInv

\* The main thread goes from pc to the next with the list as it is.
LEMMA MainGoesOn ==
  ASSUME ListInv, UNCHANGED <<thr, td, slh_first, sle_next, thread_clients, sig_triggered>>,
         main' \in [pc : MainPCs, listenfd : Numbers, connfd : Numbers,
                    item : Threads \cup {NULL}],
         Running, ~MainAt("add"), ~MainAt("join"), main'.pc \notin {"add", "exited"},
         main'.pc = "maintain" => main'.item = NULL \/ main'.item \in DOMAIN td,
         main'.pc \in Starting => main.pc \in Starting,
         main'.pc \in {"join", "close_listen", "remove", "destroy"} => sig_triggered
  PROVE  ListInv'
  <1>1. ThreadsOK' /\ BlocksOK'
    BY DEF ListInv, ThreadsOK, BlocksOK
  <1>2. Elements' = Elements
    BY DEF Elements, MainAt
  <1>3. ASSUME NEW l, Lists(l)
        PROVE  Lists(l)'
    BY <1>2, <1>3 DEF Lists, Links, MainAt
  <1>4. ListOK'
    BY <1>3 DEF ListInv, ListOK, MainAt, Running, NoThreadLeft
  <1> QED
    BY <1>1, <1>4 DEF ListInv

LEMMA BecomesAlive ==
  ASSUME ThreadsOK, NEW t \in Threads, NEW r, Become(t, r), r.pc # "none", thr[t].pc # "none"
  PROVE  \A u \in Threads : thr'[u].pc = "none" <=> thr[u].pc = "none"
  <1>1. thr' = [thr EXCEPT ![t] = r] /\ DOMAIN thr = Threads
    BY DEF Become, ThreadsOK
  <1>2. thr'[t] = r /\ \A u \in Threads \ {t} : thr'[u] = thr[u]
    BY <1>1
  <1> QED
    BY <1>2

LEMMA GoesAlive ==
  ASSUME ThreadsOK, NEW t \in Threads, NEW pc, To(t, pc), pc # "none", thr[t].pc # "none"
  PROVE  \A u \in Threads : thr'[u].pc = "none" <=> thr[u].pc = "none"
  <1> DEFINE r == [thr[t] EXCEPT !.pc = pc]
  <1>1. r.pc = pc
    BY DEF ThreadsOK, ThreadFields
  <1>2. Become(t, r)
    BY DEF To
  <1> HIDE DEF r
  <1> QED
    BY <1>1, <1>2, BecomesAlive

\* No step of connection_handler starts or ends a thread.
LEMMA StepsAlive ==
  ASSUME ThreadsOK, NEW t \in Threads, ThreadStep(t)
  PROVE  \A u \in Threads : thr'[u].pc = "none" <=> thr[u].pc = "none"
  <1>1. CASE Read(t)
    <2>1. thr[t].pc # "none"
      BY <1>1 DEF Read, At
    <2> DEFINE bytes == ReadGets(td[t].fd, BUFFSIZE)
               pc == IF IsSeek(bytes) THEN "s_open" ELSE "w_lock"
               r == [NoThr EXCEPT !.pc = pc, !.buf = bytes]
    <2>2. CASE bytes = <<>>
      BY <1>1, <2>1, <2>2, GoesAlive DEF Read
    <2>3. CASE bytes # <<>>
      <3>1. Become(t, r)
        BY <1>1, <2>3 DEF Read
      <3>2. pc # "none"
        OBVIOUS
      <3> HIDE DEF pc, bytes
      <3>3. r.pc = pc
        BY DEF NoThr
      <3> HIDE DEF r
      <3> QED
        BY <2>1, <3>1, <3>2, <3>3, BecomesAlive
    <2> QED
      BY <2>2, <2>3
  <1>2. CASE CloseConn(t) \/ LogPeer(t)
    BY <1>2, GoesAlive DEF CloseConn, LogPeer, At
  <1>3. CASE Lock(t)
    BY <1>3, GoesAlive DEF Lock, At
  <1>4. CASE OpenLog(t)
    <2> DEFINE pc == CASE At(t, "w_open") -> "w_test"
                       [] At(t, "d_open") -> "d_test"
                       [] At(t, "s_open") -> "s_test"
    <2>1. To(t, pc) /\ thr[t].pc # "none" /\ pc # "none"
      BY <1>4 DEF OpenLog, At
    <2> QED
      BY <2>1, GoesAlive
  <1>5. CASE TestLog(t)
    <2> DEFINE pc == CASE At(t, "w_test") -> IF log_fd < 0 THEN "read" ELSE "w_write"
                       [] At(t, "d_test") -> IF log_fd < 0 THEN "d_unlock" ELSE "d_read"
                       [] At(t, "s_test") -> IF log_fd < 0 THEN "read" ELSE "s_ioctl"
    <2>1. To(t, pc) /\ thr[t].pc # "none" /\ pc # "none"
      BY <1>5 DEF TestLog, At
    <2> QED
      BY <2>1, GoesAlive
  <1>6. CASE CloseLog(t)
    <2> DEFINE pc == CASE At(t, "w_close") ->
                            IF thr[t].ok /\ Contains(thr[t].buf, NL)
                            THEN "d_lock" ELSE "read"
                       [] At(t, "d_close") -> "d_unlock"
                       [] At(t, "s_close") -> "read"
    <2>1. To(t, pc) /\ thr[t].pc # "none" /\ pc # "none"
      BY <1>6 DEF CloseLog, At
    <2> QED
      BY <2>1, GoesAlive
  <1>7. CASE ReadLog(t)
    <2> DEFINE bytes == ReadGets(log_fd, BUFFSIZE)
               pc == IF bytes = <<>>
                     THEN IF At(t, "d_read") THEN "d_close" ELSE "s_close"
                     ELSE IF At(t, "d_read") THEN "d_send" ELSE "s_send"
               r == [thr[t] EXCEPT !.pc = pc, !.tmpbuf = bytes, !.answer = @ \o bytes]
    <2>1. Become(t, r) /\ thr[t].pc # "none" /\ pc # "none"
      BY <1>7 DEF ReadLog, At
    <2> HIDE DEF pc, bytes
    <2>2. r.pc = pc
      BY DEF ThreadsOK, ThreadFields
    <2> HIDE DEF r
    <2> QED
      BY <2>1, <2>2, BecomesAlive
  <1>8. CASE SendChunk(t)
    <2> DEFINE pc == IF At(t, "d_send") THEN "d_read" ELSE "s_read"
               r == [thr[t] EXCEPT !.pc = pc, !.tmpbuf = <<>>]
    <2>1. Become(t, r) /\ thr[t].pc # "none" /\ pc # "none"
      BY <1>8 DEF SendChunk, At
    <2> HIDE DEF pc
    <2>2. r.pc = pc
      BY DEF ThreadsOK, ThreadFields
    <2> HIDE DEF r
    <2> QED
      BY <2>1, <2>2, BecomesAlive
  <1>9. CASE WriteLog(t)
    <2>1. PICK ok \in BOOLEAN : Become(t, [thr[t] EXCEPT !.pc = "w_unlock", !.ok = ok])
      BY <1>9 DEF WriteLog
    <2> DEFINE r == [thr[t] EXCEPT !.pc = "w_unlock", !.ok = ok]
    <2>2. r.pc = "w_unlock" /\ thr[t].pc # "none"
      BY <1>9 DEF WriteLog, At, ThreadsOK, ThreadFields
    <2>3. Become(t, r)
      BY <2>1
    <2> HIDE DEF r
    <2> QED
      BY <2>2, <2>3, BecomesAlive
  <1>10. CASE WriteUnlock(t) \/ DumpUnlock(t)
    BY <1>10, GoesAlive DEF WriteUnlock, DumpUnlock, At
  <1>11. CASE SeekIoctl(t)
    <2>1. thr[t].pc # "none" /\ (To(t, "s_read") \/ To(t, "s_close"))
      BY <1>11 DEF SeekIoctl, At
    <2> QED
      BY <2>1, GoesAlive
  <1> QED
    BY <1>1, <1>2, <1>3, <1>4, <1>5, <1>6, <1>7, <1>8, <1>9, <1>10, <1>11 DEF ThreadStep

LEMMA ThreadStepList ==
  ASSUME ListInv, Running, ThreadsOK', NEW t \in Threads, ThreadStep(t)
  PROVE  ListInv'
  <1>1. \A u \in Threads : thr'[u].pc = "none" <=> thr[u].pc = "none"
    BY StepsAlive DEF ListInv
  <1>2. /\ UNCHANGED <<main, slh_first, sle_next, thread_clients, sig_triggered>>
        /\ DOMAIN td' = DOMAIN td
        /\ \A u \in DOMAIN td : td'[u] \in [fd : Numbers, is_completed : BOOLEAN]
    <2>1. CASE CloseConn(t)
      <3>1. /\ UNCHANGED <<main, slh_first, sle_next, thread_clients, sig_triggered>>
            /\ td' = [td EXCEPT ![t].is_completed = TRUE]
        BY <2>1 DEF CloseConn
      <3>2. \A u \in DOMAIN td : td[u] \in [fd : Numbers, is_completed : BOOLEAN]
        BY DEF ListInv, BlocksOK
      <3> DEFINE b == [td[t] EXCEPT !.is_completed = TRUE]
      <3>3. t \in DOMAIN td => b \in [fd : Numbers, is_completed : BOOLEAN]
        BY <3>2
      <3>4. td' = [td EXCEPT ![t] = b]
        BY <3>1
      <3> HIDE DEF b
      <3>5. DOMAIN td' = DOMAIN td /\ \A u \in DOMAIN td : td'[u] = IF u = t THEN b ELSE td[u]
        BY <3>4
      <3> QED
        BY <3>1, <3>2, <3>3, <3>5
    <2>2. CASE ~CloseConn(t)
      <3>1. UNCHANGED mainVars
        BY <2>2 DEF ThreadStep, Read, LogPeer, Lock, OpenLog, TestLog, CloseLog, ReadLog,
                    SendChunk, WriteLog, WriteUnlock, DumpUnlock, SeekIoctl
      <3> QED
        BY <3>1 DEF mainVars, listVars, ListInv, BlocksOK
    <2> QED
      BY <2>1, <2>2
  <1> QED
    BY <1>1, <1>2, ThreadGoesOn

-----------------------------------------------------------------------------
(***************************************************************************)
(* The main thread, away from the list.                                    *)
(***************************************************************************)
LEMMA GotoMain ==
  ASSUME ListInv, NEW pc \in MainPCs, Goto(pc)
  PROVE  /\ main' \in [pc : MainPCs, listenfd : Numbers, connfd : Numbers,
                       item : Threads \cup {NULL}]
         /\ main'.pc = pc /\ main'.item = main.item
  BY DEF ListInv, BlocksOK, Goto

LEMMA StartList ==
  ASSUME ListInv, Running, Socket \/ Bind \/ make_daemon \/ Listen
  PROVE  ListInv'
  <1>1. /\ main.pc \in Starting
        /\ UNCHANGED <<thr, td, slh_first, sle_next, thread_clients, sig_triggered>>
    BY DEF Socket, Bind, make_daemon, Listen, listVars, MainAt, Starting
  <1>2. /\ main' \in [pc : MainPCs, listenfd : Numbers, connfd : Numbers,
                      item : Threads \cup {NULL}]
        /\ main'.pc \in {"bind", "daemon", "listen", "poll"}
    <2>1. CASE Socket
      <3>1. main' = [main EXCEPT !.pc = "bind", !.listenfd = NewFd]
        BY <2>1 DEF Socket
      <3>2. /\ main \in [pc : MainPCs, listenfd : Numbers, connfd : Numbers,
                         item : Threads \cup {NULL}]
            /\ NewFd \in Numbers /\ "bind" \in MainPCs
        BY NewFdNumber DEF ListInv, BlocksOK, MainPCs
      <3> QED
        BY <3>1, <3>2
    <2>2. CASE Bind \/ make_daemon \/ Listen
      <3>1. PICK pc \in {"daemon", "listen", "poll"} : Goto(pc)
        BY <2>2 DEF Bind, make_daemon, Listen
      <3>2. pc \in MainPCs
        BY DEF MainPCs
      <3> QED
        BY <3>1, <3>2, GotoMain
    <2> QED
      BY <2>1, <2>2
  <1> QED
    BY <1>1, <1>2, MainGoesOn DEF MainAt, Starting

\* main returns, or make_daemon exits, before there is a thread; or it returns
\* after all are joined.
LEMMA ExitList ==
  ASSUME ListInv, StartFails \/ Exit, Running
  PROVE  ListInv'
  <1>1. /\ main.pc \in {"socket", "bind", "daemon", "join"} /\ Goto("exited")
        /\ UNCHANGED <<thr, td, slh_first, sle_next, thread_clients, sig_triggered>>
    BY DEF StartFails, Exit, listVars, MainAt
  <1>2. main' \in [pc : MainPCs, listenfd : Numbers, connfd : Numbers,
                   item : Threads \cup {NULL}] /\ main'.pc = "exited"
    BY <1>1, GotoMain DEF MainPCs
  <1>3. DOMAIN td = {}
    <2>1. CASE main.pc # "join"
      BY <1>1, <2>1 DEF ListInv, ListOK, Starting
    <2>2. CASE main.pc = "join"
      <3>1. slh_first = NULL
        BY <2>2 DEF StartFails, Exit
      <3>2. PICK l : Lists(l)
        BY DEF ListInv, ListOK
      <3>3. l = <<>>
        <4> SUFFICES ASSUME l # <<>> PROVE FALSE
          OBVIOUS
        <4>1. l \in Seq(Threads) /\ l[1] = NULL
          BY <3>1, <3>2 DEF Lists, Links
        <4>2. 1 \in 1 .. Len(l)
          BY <4>1, EmptySeq
        <4> QED
          BY <4>1, <4>2, ElementOfSeq
      <3>4. Len(l) = 0
        BY <3>3
      <3>5. Elements = {}
        BY <3>2, <3>4 DEF Lists, Members
      <3> QED
        BY <2>2, <3>5 DEF Elements, MainAt
    <2> QED
      BY <2>1, <2>2
  <1>4. ThreadsOK' /\ BlocksOK'
    BY <1>1, <1>2 DEF ListInv, ThreadsOK, BlocksOK
  <1>5. \A t \in Threads : thr[t].pc = "none"
    BY <1>3 DEF ListInv, BlocksOK
  <1>6. ListOK'
    BY <1>1, <1>2, <1>5 DEF ListOK, Running, MainAt, NoThreadLeft, At, Starting
  <1> QED
    BY <1>4, <1>6 DEF ListInv

LEMMA QuietMainList ==
  ASSUME ListInv, Running,
         \/ PollSignal \/ Accept \/ CreateFails \/ MallocFails \/ MaintainEnd
         \/ CloseListen \/ RemoveFile \/ DestroyLock
  PROVE  ListInv'
  <1>1. UNCHANGED <<thr, td, slh_first, sle_next, thread_clients, sig_triggered>>
    BY DEF PollSignal, Accept, CreateFails, MallocFails, MaintainEnd, CloseListen,
           RemoveFile, DestroyLock, listVars
  <1>2. /\ main \in [pc : MainPCs, listenfd : Numbers, connfd : Numbers,
                     item : Threads \cup {NULL}]
        /\ NewFd \in Numbers /\ -1 \in Numbers
    BY NewFdNumber DEF ListInv, BlocksOK, Numbers
  <1>3. CASE PollSignal \/ MallocFails \/ CloseListen \/ RemoveFile \/ DestroyLock
    <2>1. PICK pc \in {"close_listen", "killed", "remove", "destroy", "join"} : Goto(pc)
      BY <1>3 DEF PollSignal, MallocFails, CloseListen, RemoveFile, DestroyLock
    <2>2. pc \in MainPCs
      BY DEF MainPCs
    <2>3. /\ main' \in [pc : MainPCs, listenfd : Numbers, connfd : Numbers,
                        item : Threads \cup {NULL}]
          /\ main'.pc = pc
      BY <2>1, <2>2, GotoMain
    <2>4. pc # "killed" => sig_triggered
      <3>1. MainAt("close_listen") \/ MainAt("remove") \/ MainAt("destroy") => sig_triggered
        BY DEF ListInv, ListOK, MainAt
      <3>2. PollSignal => sig_triggered
        BY DEF PollSignal
      <3>3. MallocFails => pc = "killed"
        BY <2>3 DEF MallocFails, Goto, ListInv, BlocksOK
      <3> QED
        BY <1>3, <3>1, <3>2, <3>3 DEF CloseListen, RemoveFile, DestroyLock
    <2>5. ~MainAt("add") /\ ~MainAt("join")
      BY <1>3 DEF PollSignal, MallocFails, CloseListen, RemoveFile, DestroyLock, MainAt
    <2> QED
      BY <1>1, <2>3, <2>4, <2>5, MainGoesOn DEF Starting
  <1>4. CASE Accept
    <2>1. MainAt("poll") /\ main' = [main EXCEPT !.pc = "create", !.connfd = NewFd]
      BY <1>4 DEF Accept
    <2>2. /\ main' \in [pc : MainPCs, listenfd : Numbers, connfd : Numbers,
                        item : Threads \cup {NULL}]
          /\ main'.pc = "create"
      BY <1>2, <2>1 DEF MainPCs
    <2> QED
      BY <1>1, <2>1, <2>2, MainGoesOn DEF MainAt, Starting
  <1>5. CASE MaintainEnd
    <2>1. MainAt("maintain") /\ main' = [main EXCEPT !.pc = "poll", !.connfd = -1]
      BY <1>5 DEF MaintainEnd
    <2>2. /\ main' \in [pc : MainPCs, listenfd : Numbers, connfd : Numbers,
                        item : Threads \cup {NULL}]
          /\ main'.pc = "poll"
      BY <1>2, <2>1 DEF MainPCs
    <2> QED
      BY <1>1, <2>1, <2>2, MainGoesOn DEF MainAt, Starting
  <1>6. CASE CreateFails
    <2>1. MainAt("create") /\ main' = [main EXCEPT !.pc = "maintain", !.item = slh_first]
      BY <1>6 DEF CreateFails
    <2>2. PICK l : Lists(l)
      BY DEF ListInv, ListOK
    <2>3. slh_first = NULL \/ slh_first \in DOMAIN td
      <3>1. CASE l = <<>>
        BY <2>2, <3>1 DEF Lists, Links
      <3>2. CASE l # <<>>
        <4>1. slh_first = l[1] /\ l \in Seq(Threads)
          BY <2>2, <3>2 DEF Lists, Links
        <4>2. 1 \in 1 .. Len(l)
          BY <3>2, <4>1, EmptySeq
        <4>3. l[1] \in Elements
          BY <2>2, <4>2 DEF Lists, Members
        <4> QED
          BY <4>1, <4>3 DEF Elements
      <3> QED
        BY <3>1, <3>2
    <2>4. slh_first \in Threads \cup {NULL}
      BY <2>3 DEF ListInv, BlocksOK
    <2>5. /\ main' \in [pc : MainPCs, listenfd : Numbers, connfd : Numbers,
                        item : Threads \cup {NULL}]
          /\ main'.pc = "maintain" /\ main'.item = slh_first
      BY <1>2, <2>1, <2>4 DEF MainPCs
    <2> QED
      BY <1>1, <2>1, <2>3, <2>5, MainGoesOn DEF MainAt, Starting
  <1> QED
    BY <1>3, <1>4, <1>5, <1>6

-----------------------------------------------------------------------------
(***************************************************************************)
(* A thread starts and its block is put at the head of the list.           *)
(***************************************************************************)
LEMMA CreateList ==
  ASSUME ListInv, Running, ThreadsOK', NEW t \in Threads, Create(t)
  PROVE  ListInv'
  <1>1. /\ MainAt("create") /\ t = Min(Threads \ DOMAIN td) /\ DOMAIN td # Threads
        /\ td' = [u \in DOMAIN td \cup {t} |->
                    IF u = t THEN [fd |-> main.connfd, is_completed |-> FALSE] ELSE td[u]]
        /\ thr' = [thr EXCEPT ![t] = [NoThr EXCEPT !.pc = "read"]]
        /\ main' = [main EXCEPT !.pc = "add", !.item = t]
        /\ UNCHANGED <<sig_triggered, slh_first, sle_next, thread_clients>>
    BY DEF Create
  <1>2. /\ main \in [pc : MainPCs, listenfd : Numbers, connfd : Numbers,
                     item : Threads \cup {NULL}]
        /\ DOMAIN td \subseteq Threads /\ DOMAIN thr = Threads
    BY DEF ListInv, BlocksOK, ThreadsOK
  <1>3. t \notin DOMAIN td
    <2>1. Threads \ DOMAIN td \subseteq Nat /\ Threads \ DOMAIN td # {}
      BY <1>1, <1>2
    <2>2. PICK n \in Threads \ DOMAIN td : \A m \in Threads \ DOMAIN td : n <= m
      BY <2>1, LeastNatural
    <2>3. Min(Threads \ DOMAIN td) \in Threads \ DOMAIN td
      BY <2>2 DEF Min
    <2> QED
      BY <1>1, <2>3
  <1>4. /\ DOMAIN td' = DOMAIN td \cup {t}
        /\ td'[t] = [fd |-> main.connfd, is_completed |-> FALSE]
        /\ \A u \in DOMAIN td : td'[u] = td[u]
    BY <1>1, <1>3
  <1>5. thr'[t].pc = "read" /\ \A u \in Threads \ {t} : thr'[u] = thr[u]
    <2> DEFINE r == [NoThr EXCEPT !.pc = "read"]
    <2>1. r.pc = "read"
      BY DEF NoThr
    <2>2. thr' = [thr EXCEPT ![t] = r]
      BY <1>1
    <2> HIDE DEF r
    <2> QED
      BY <1>2, <2>1, <2>2
  <1>6. /\ main' \in [pc : MainPCs, listenfd : Numbers, connfd : Numbers,
                      item : Threads \cup {NULL}]
        /\ main'.pc = "add" /\ main'.item = t
    BY <1>1, <1>2 DEF MainPCs
  <1>7. BlocksOK'
    <2>1. \A u \in DOMAIN td' : td'[u] \in [fd : Numbers, is_completed : BOOLEAN]
      <3>1. main.connfd \in Numbers
        BY <1>2
      <3>2. td'[t] \in [fd : Numbers, is_completed : BOOLEAN]
        BY <1>4, <3>1
      <3>3. \A u \in DOMAIN td : td[u] \in [fd : Numbers, is_completed : BOOLEAN]
        BY DEF ListInv, BlocksOK
      <3> QED
        BY <1>4, <3>2, <3>3
    <2>2. \A u \in Threads : thr'[u].pc # "none" <=> u \in DOMAIN td'
      BY <1>4, <1>5 DEF ListInv, BlocksOK
    <2> QED
      BY <1>2, <1>4, <1>6, <2>1, <2>2 DEF BlocksOK
  <1>8. ASSUME NEW l, Lists(l)
        PROVE  Lists(l)'
    <2>1. Elements' = Elements
      BY <1>1, <1>3, <1>4, <1>6 DEF Elements, MainAt
    <2> QED
      BY <1>1, <1>6, <1>8, <2>1 DEF Lists, Links, MainAt
  <1>9. ListOK'
    BY <1>4, <1>6, <1>8 DEF ListInv, ListOK, MainAt, Running, NoThreadLeft, Starting
  <1> QED
    BY <1>7, <1>9 DEF ListInv

\* A list that gains an element at its head.
LEMMA AddLinks ==
  ASSUME NEW l, Links(l), NEW e \in Threads, \A k \in 1 .. Len(l) : l[k] # e,
         slh_first' = e, sle_next' = [sle_next EXCEPT ![e] = slh_first]
  PROVE  \E m : /\ Links(m)'
                /\ Len(m) = Len(l) + 1
                /\ Members(m) = Members(l) \cup {e}
  <1> DEFINE n == Len(l)
             m == [k \in 1 .. n + 1 |-> IF k = 1 THEN e ELSE l[k - 1]]
  <1>1. l \in Seq(Threads) /\ n \in Nat
    BY DEF Links
  <1>2. \A k \in 1 .. n : l[k] \in Threads
    BY <1>1, ElementOfSeq
  <1>3. \A k \in 1 .. n + 1 : m[k] = IF k = 1 THEN e ELSE l[k - 1]
    OBVIOUS
  <1>4. m \in Seq(Threads) /\ Len(m) = n + 1
    <2>1. \A k \in 1 .. n + 1 : (IF k = 1 THEN e ELSE l[k - 1]) \in Threads
      BY <1>1, <1>2
    <2>2. m \in [1 .. n + 1 -> Threads]
      BY <2>1
    <2>3. n + 1 \in Nat
      BY <1>1
    <2> HIDE DEF m, n
    <2>4. m \in Seq(Threads)
      BY <2>2, <2>3
    <2>5. DOMAIN m = 1 .. n + 1
      BY <2>2
    <2> QED
      BY <2>3, <2>4, <2>5, LenProperties
  <1>5. \A j, k \in 1 .. n : l[j] = l[k] => j = k
    BY DEF Links
  <1>6. sle_next'[e] = slh_first /\ \A u \in Threads \ {e} : sle_next'[u] = sle_next[u]
    BY DEF Links
  <1>7. sle_next' \in [Threads -> Threads \cup {NULL}]
    <2>1. slh_first \in Threads \cup {NULL}
      <3>1. CASE l = <<>>
        BY <3>1 DEF Links
      <3>2. CASE l # <<>>
        <4>1. slh_first = l[1] /\ 1 \in 1 .. n
          BY <1>1, <3>2, EmptySeq DEF Links
        <4> QED
          BY <1>2, <4>1
      <3> QED
        BY <3>1, <3>2
    <2> QED
      BY <2>1 DEF Links
  <1>8. slh_first = IF n = 0 THEN NULL ELSE l[1]
    BY <1>1, EmptySeq DEF Links
  <1>9. \A k \in 1 .. n : sle_next[l[k]] = IF k = n THEN NULL ELSE l[k + 1]
    BY DEF Links
  <1> HIDE DEF m, n
  <1>10. \A j, k \in 1 .. n + 1 : m[j] = m[k] => j = k
    <2> SUFFICES ASSUME NEW j \in 1 .. n + 1, NEW k \in 1 .. n + 1, m[j] = m[k]
                 PROVE  j = k
      OBVIOUS
    <2>1. \A i \in 1 .. n + 1 : i # 1 => i - 1 \in 1 .. n /\ m[i] = l[i - 1] /\ m[i] # e
      BY <1>1, <1>3 DEF n
    <2>2. m[1] = e
      BY <1>1, <1>3
    <2>3. j # 1 /\ k # 1 => j - 1 = k - 1
      BY <1>5, <2>1
    <2> QED
      BY <2>1, <2>2, <2>3
  <1>11. m # <<>> /\ m[1] = e
    BY <1>1, <1>3, <1>4, EmptySeq
  <1>12. \A k \in 1 .. n + 1 : sle_next'[m[k]] = IF k = n + 1 THEN NULL ELSE m[k + 1]
    <2> SUFFICES ASSUME NEW k \in 1 .. n + 1
                 PROVE  sle_next'[m[k]] = IF k = n + 1 THEN NULL ELSE m[k + 1]
      OBVIOUS
    <2>1. k # n + 1 => m[k + 1] = l[k]
      BY <1>1, <1>3
    <2>2. CASE k = 1
      <3>1. sle_next'[m[k]] = IF n = 0 THEN NULL ELSE l[1]
        BY <1>6, <1>8, <1>11, <2>2
      <3> QED
        BY <1>1, <2>1, <2>2, <3>1
    <2>3. CASE k # 1
      <3>1. k - 1 \in 1 .. n /\ m[k] = l[k - 1]
        BY <1>1, <1>3, <2>3
      <3>2. l[k - 1] \in Threads \ {e}
        BY <1>2, <3>1 DEF n
      <3>3. sle_next'[m[k]] = sle_next[l[k - 1]]
        BY <1>6, <3>1, <3>2
      <3>4. sle_next[l[k - 1]] = IF k - 1 = n THEN NULL ELSE l[(k - 1) + 1]
        BY <1>9, <3>1
      <3>5. (k - 1) + 1 = k /\ (k - 1 = n <=> k = n + 1)
        BY <1>1, <3>1
      <3> QED
        BY <2>1, <3>3, <3>4, <3>5
    <2> QED
      BY <2>2, <2>3
  <1>13. Links(m)'
    BY <1>4, <1>7, <1>10, <1>11, <1>12 DEF Links
  <1>14. Members(m) = Members(l) \cup {e}
    <2>1. ASSUME NEW k \in 1 .. n + 1
          PROVE  m[k] \in {l[i] : i \in 1 .. n} \cup {e}
      <3>1. k # 1 => k - 1 \in 1 .. n
        BY <1>1
      <3> QED
        BY <1>3, <3>1
    <2>2. ASSUME NEW k \in 1 .. n
          PROVE  \E i \in 1 .. n + 1 : m[i] = l[k]
      <3>1. k + 1 \in 1 .. n + 1 /\ k + 1 # 1 /\ (k + 1) - 1 = k
        BY <1>1
      <3>2. m[k + 1] = l[k]
        BY <1>3, <3>1
      <3> QED
        BY <3>1, <3>2
    <2>3. 1 \in 1 .. n + 1
      BY <1>1
    <2> QED
      BY <1>4, <1>11, <2>1, <2>2, <2>3, SMTT(30) DEF Members, n
  <1> QED
    BY <1>4, <1>13, <1>14 DEF n

LEMMA AddList ==
  ASSUME ListInv, Running, add_thread
  PROVE  ListInv'
  <1>1. /\ MainAt("add") /\ Goto("maintain")
        /\ sle_next' = [sle_next EXCEPT ![main.item] = slh_first]
        /\ slh_first' = main.item
        /\ thread_clients' = thread_clients + 1
        /\ UNCHANGED <<sig_triggered, td, thr>>
    BY DEF add_thread
  <1>2. /\ main' \in [pc : MainPCs, listenfd : Numbers, connfd : Numbers,
                      item : Threads \cup {NULL}]
        /\ main'.pc = "maintain" /\ main'.item = main.item
    BY <1>1, GotoMain DEF MainPCs
  <1>3. main.item \in DOMAIN td /\ main.item \in Threads
    BY <1>1 DEF ListInv, ListOK, BlocksOK
  <1>4. PICK l : Lists(l)
    BY DEF ListInv, ListOK
  <1>5. \A k \in 1 .. Len(l) : l[k] # main.item
    BY <1>1, <1>4 DEF Lists, Elements, Members
  <1>6. PICK m : /\ Links(m)'
                 /\ Len(m) = Len(l) + 1
                 /\ Members(m) = Members(l) \cup {main.item}
    <2>1. PICK e \in Threads : e = main.item
      BY <1>3
    <2>2. Links(l) /\ \A k \in 1 .. Len(l) : l[k] # e
      BY <1>4, <1>5, <2>1 DEF Lists
    <2>3. slh_first' = e /\ sle_next' = [sle_next EXCEPT ![e] = slh_first]
      BY <1>1, <2>1
    <2>4. \E m : /\ Links(m)'
                 /\ Len(m) = Len(l) + 1
                 /\ Members(m) = Members(l) \cup {e}
      BY <2>2, <2>3, AddLinks
    <2> QED
      BY <2>1, <2>4
  <1>7. Members(m) = Elements'
    <2>1. Members(l) = DOMAIN td \ {main.item}
      BY <1>1, <1>4 DEF Lists, Elements
    <2>2. Elements' = DOMAIN td
      BY <1>1, <1>2 DEF Elements, MainAt
    <2> QED
      BY <1>3, <1>6, <2>1, <2>2
  <1>8. thread_clients' = Len(m)
    BY <1>1, <1>4, <1>6 DEF Lists, MainAt
  <1>9. Lists(m)'
    BY <1>6, <1>7, <1>8 DEF Lists
  <1>10. ThreadsOK' /\ BlocksOK'
    BY <1>1, <1>2 DEF ListInv, ThreadsOK, BlocksOK
  <1>11. ListOK'
    BY <1>1, <1>2, <1>3, <1>9 DEF ListOK, MainAt, NoThreadLeft, Starting
  <1> QED
    BY <1>10, <1>11 DEF ListInv

-----------------------------------------------------------------------------
(***************************************************************************)
(* A thread that has ended leaves the list, wherever it is in it.          *)
(***************************************************************************)

\* An element of the list is one of the blocks, and what follows it another.
LEMMA NextElement ==
  ASSUME NEW l, Lists(l), NEW e, e \in Elements
  PROVE  \E i \in 1 .. Len(l) :
           /\ l[i] = e
           /\ sle_next[e] = IF i = Len(l) THEN NULL ELSE l[i + 1]
           /\ i # Len(l) => l[i + 1] \in Elements /\ l[i + 1] # e
  <1>1. PICK i \in 1 .. Len(l) : l[i] = e
    BY DEF Lists, Members
  <1>2. sle_next[e] = IF i = Len(l) THEN NULL ELSE l[i + 1]
    BY <1>1 DEF Lists, Links
  <1>3. ASSUME i # Len(l) PROVE l[i + 1] \in Elements /\ l[i + 1] # e
    <2>1. l \in Seq(Threads) /\ Len(l) \in Nat
      BY DEF Lists, Links
    <2>2. i + 1 \in 1 .. Len(l) /\ i + 1 # i
      BY <1>3, <2>1
    <2>3. l[i + 1] \in Elements
      BY <2>2 DEF Lists, Members
    <2>4. \A j, k \in 1 .. Len(l) : l[j] = l[k] => j = k
      BY DEF Lists, Links
    <2> QED
      BY <1>1, <2>2, <2>3, <2>4
  <1> QED
    BY <1>1, <1>2, <1>3

LEMMA RemoveLinks ==
  ASSUME NEW l, Links(l), NEW i \in 1 .. Len(l),
         slh_first' = IF i = 1 THEN sle_next[l[1]] ELSE slh_first,
         sle_next' \in [Threads -> Threads \cup {NULL}],
         \A k \in 1 .. Len(l) :
           /\ k = i - 1 => sle_next'[l[k]] = sle_next[l[i]]
           /\ k # i - 1 /\ k # i => sle_next'[l[k]] = sle_next[l[k]]
  PROVE  \E m : /\ Links(m)'
                /\ Len(m) = Len(l) - 1
                /\ Members(m) = Members(l) \ {l[i]}
  <1> DEFINE n == Len(l)
             m == [k \in 1 .. n - 1 |-> IF k < i THEN l[k] ELSE l[k + 1]]
             from(k) == IF k < i THEN k ELSE k + 1
  <1>1. l \in Seq(Threads) /\ n \in Nat /\ n >= 1
    BY DEF Links
  <1>2. \A k \in 1 .. n : l[k] \in Threads
    BY <1>1, ElementOfSeq
  <1>3. \A k \in 1 .. n - 1 : from(k) \in 1 .. n /\ from(k) # i /\ m[k] = l[from(k)]
    BY <1>1
  <1>4. m \in Seq(Threads) /\ Len(m) = n - 1
    <2>1. \A k \in 1 .. n - 1 : (IF k < i THEN l[k] ELSE l[k + 1]) \in Threads
      BY <1>1, <1>2
    <2>2. m \in [1 .. n - 1 -> Threads]
      BY <2>1
    <2>3. n - 1 \in Nat
      BY <1>1
    <2> HIDE DEF m, n
    <2>4. m \in Seq(Threads)
      BY <2>2, <2>3
    <2>5. DOMAIN m = 1 .. n - 1
      BY <2>2
    <2> QED
      BY <2>3, <2>4, <2>5, LenProperties
  <1>5. \A j, k \in 1 .. n : l[j] = l[k] => j = k
    BY DEF Links
  <1>6. \A k \in 1 .. n : sle_next[l[k]] = IF k = n THEN NULL ELSE l[k + 1]
    BY DEF Links
  <1>7. slh_first = l[1]
    BY <1>1 DEF Links
  <1> HIDE DEF m, n
  <1>8. m = <<>> <=> n = 1
    <2>1. m = <<>> <=> Len(m) = 0
      BY <1>4, EmptySeq
    <2> QED
      BY <1>1, <1>4, <2>1
  <1>9. \A j, k \in 1 .. n - 1 : m[j] = m[k] => j = k
    <2> SUFFICES ASSUME NEW j \in 1 .. n - 1, NEW k \in 1 .. n - 1, m[j] = m[k]
                 PROVE  j = k
      OBVIOUS
    <2>1. from(j) = from(k)
      BY <1>3, <1>5
    <2> QED
      BY <1>1, <2>1 DEF n
  <1>10. slh_first' = IF m = <<>> THEN NULL ELSE m[1]
    <2>1. CASE n = 1
      <3>1. i = 1 /\ m = <<>> /\ 1 \in 1 .. n
        BY <1>1, <1>8, <2>1 DEF n
      <3> QED
        BY <1>6, <2>1, <3>1
    <2>2. CASE n # 1
      <3>1. 1 \in 1 .. n - 1 /\ 1 \in 1 .. n
        BY <1>1, <2>2
      <3>2. m[1] = IF 1 < i THEN l[1] ELSE l[2]
        BY <1>3, <3>1
      <3>3. sle_next[l[1]] = l[2]
        BY <1>6, <2>2, <3>1
      <3>4. 1 < i <=> i # 1
        BY <1>1 DEF n
      <3> QED
        BY <1>7, <1>8, <2>2, <3>2, <3>3, <3>4
    <2> QED
      BY <2>1, <2>2
  <1>11. \A k \in 1 .. n - 1 : sle_next'[m[k]] = IF k = n - 1 THEN NULL ELSE m[k + 1]
    <2> SUFFICES ASSUME NEW k \in 1 .. n - 1
                 PROVE  sle_next'[m[k]] = IF k = n - 1 THEN NULL ELSE m[k + 1]
      OBVIOUS
    <2>1. i \in 1 .. n
      BY DEF n
    <2>2. from(k) \in 1 .. n /\ from(k) # i /\ m[k] = l[from(k)]
      BY <1>3
    <2>3. k # n - 1 => k + 1 \in 1 .. n - 1 /\ m[k + 1] = l[from(k + 1)]
      BY <1>1, <1>3
    <2>4. CASE k = i - 1
      <3>1. m[k] = l[k] /\ k \in 1 .. n
        BY <1>1, <2>1, <2>2, <2>4
      <3>2. sle_next'[m[k]] = IF i = n THEN NULL ELSE l[i + 1]
        BY <1>6, <2>1, <2>4, <3>1 DEF n
      <3>3. from(k + 1) = i + 1 /\ (i = n <=> k = n - 1)
        BY <1>1, <2>1, <2>4
      <3> QED
        BY <2>3, <3>2, <3>3
    <2>5. CASE k # i - 1
      <3>1. from(k) # i - 1
        BY <1>1, <2>1, <2>5
      <3>2. sle_next'[m[k]] = sle_next[l[from(k)]]
        BY <2>2, <3>1 DEF n
      <3>3. sle_next[l[from(k)]] = IF from(k) = n THEN NULL ELSE l[from(k) + 1]
        BY <1>6, <2>2
      <3>4. from(k) = n <=> k = n - 1
        BY <1>1, <2>1, <2>5
      <3>5. k # n - 1 => from(k + 1) = from(k) + 1
        BY <1>1, <2>1, <2>5
      <3> HIDE DEF from
      <3> QED
        BY <2>3, <3>2, <3>3, <3>4, <3>5
    <2> QED
      BY <2>4, <2>5
  <1>12. Links(m)'
    <2>1. \A j, k \in 1 .. Len(m) : m[j] = m[k] => j = k
      BY <1>4, <1>9
    <2>2. \A k \in 1 .. Len(m) : sle_next'[m[k]] = IF k = Len(m) THEN NULL ELSE m[k + 1]
      BY <1>4, <1>11
    <2> QED
      BY <1>4, <1>10, <2>1, <2>2 DEF Links
  <1>13. Members(m) = Members(l) \ {l[i]}
    <2>1. i \in 1 .. n
      BY DEF n
    <2>2. ASSUME NEW k \in 1 .. n - 1
          PROVE  \E j \in 1 .. n : m[k] = l[j] /\ l[j] # l[i]
      <3>1. from(k) \in 1 .. n /\ from(k) # i /\ m[k] = l[from(k)]
        BY <1>3
      <3> HIDE DEF from
      <3> QED
        BY <1>5, <2>1, <3>1
    <2>3. ASSUME NEW k \in 1 .. n, l[k] # l[i]
          PROVE  \E j \in 1 .. n - 1 : m[j] = l[k]
      <3>1. k # i
        BY <2>3
      <3> DEFINE j == IF k < i THEN k ELSE k - 1
      <3>2. j \in 1 .. n - 1 /\ from(j) = k
        BY <1>1, <2>1, <3>1
      <3> HIDE DEF j
      <3> QED
        BY <1>3, <3>2
    <2>4. Members(m) = {m[k] : k \in 1 .. n - 1} /\ Members(l) = {l[k] : k \in 1 .. n}
      BY <1>4 DEF Members, n
    <2> QED
      BY <2>1, <2>2, <2>3, <2>4
  <1> QED
    BY <1>4, <1>12, <1>13 DEF n

\* A thread that has ended is joined and its block is freed.
LEMMA JoinBlocks ==
  ASSUME ListInv, NEW e \in DOMAIN td, JoinAndFree(e),
         main' \in [pc : MainPCs, listenfd : Numbers, connfd : Numbers,
                    item : Threads \cup {NULL}]
  PROVE  BlocksOK' /\ DOMAIN td' = DOMAIN td \ {e}
  <1>1. thr' = [thr EXCEPT ![e] = NoThr] /\ td' = [u \in DOMAIN td \ {e} |-> td[u]]
    BY DEF JoinAndFree
  <1>2. DOMAIN td \subseteq Threads /\ DOMAIN thr = Threads
    BY DEF ListInv, BlocksOK, ThreadsOK
  <1>3. DOMAIN td' = DOMAIN td \ {e} /\ \A u \in DOMAIN td' : td'[u] = td[u]
    BY <1>1
  <1>4. thr'[e].pc = "none" /\ \A u \in Threads \ {e} : thr'[u] = thr[u]
    <2>1. NoThr.pc = "none"
      BY DEF NoThr
    <2>2. thr'[e] = NoThr /\ \A u \in Threads \ {e} : thr'[u] = thr[u]
      BY <1>1, <1>2
    <2> QED
      BY <2>1, <2>2
  <1>5. \A u \in DOMAIN td' : td'[u] \in [fd : Numbers, is_completed : BOOLEAN]
    BY <1>3 DEF ListInv, BlocksOK
  <1>6. \A u \in Threads : thr'[u].pc # "none" <=> u \in DOMAIN td'
    BY <1>3, <1>4 DEF ListInv, BlocksOK
  <1>7. BlocksOK'
    BY <1>2, <1>3, <1>5, <1>6 DEF BlocksOK
  <1> QED
    BY <1>3, <1>7

LEMMA MaintainList ==
  ASSUME ListInv, Running, ThreadsOK', Maintain
  PROVE  ListInv'
  <1> DEFINE e == main.item
             next == sle_next[e]
  <1>1. /\ MainAt("maintain") /\ e # NULL
        /\ main' = [main EXCEPT !.item = next]
        /\ UNCHANGED sig_triggered
    BY DEF Maintain
  <1>2. e \in DOMAIN td /\ Elements = DOMAIN td
    BY <1>1 DEF ListInv, ListOK, Elements, MainAt
  <1>3. PICK l : Lists(l)
    BY DEF ListInv, ListOK
  <1>4. PICK i \in 1 .. Len(l) :
          /\ l[i] = e
          /\ next = IF i = Len(l) THEN NULL ELSE l[i + 1]
          /\ i # Len(l) => l[i + 1] \in DOMAIN td /\ l[i + 1] # e
    BY <1>2, <1>3, NextElement
  <1>5. next = NULL \/ next \in DOMAIN td \ {e}
    BY <1>4
  <1> HIDE DEF next
  <1>6. /\ main' \in [pc : MainPCs, listenfd : Numbers, connfd : Numbers,
                      item : Threads \cup {NULL}]
        /\ main'.pc = "maintain" /\ main'.item = next
    <2>1. /\ main \in [pc : MainPCs, listenfd : Numbers, connfd : Numbers,
                       item : Threads \cup {NULL}]
          /\ next \in Threads \cup {NULL}
      BY <1>5 DEF ListInv, BlocksOK
    <2> QED
      BY <1>1, <2>1 DEF MainAt
  <1>7. CASE ~td[e].is_completed
    <2>1. UNCHANGED <<thr, td, slh_first, sle_next, thread_clients>>
      BY <1>7 DEF Maintain, listVars
    <2> QED
      BY <1>1, <1>5, <1>6, <2>1, MainGoesOn DEF MainAt, Starting
  <1>8. CASE td[e].is_completed
    <2>1. JoinAndFree(e) /\ SLIST_REMOVE(e) /\ thread_clients' = thread_clients - 1
      BY <1>8 DEF Maintain
    <2>2. BlocksOK' /\ DOMAIN td' = DOMAIN td \ {e}
      BY <1>2, <1>6, <2>1, JoinBlocks
    <2>3. /\ slh_first' = IF i = 1 THEN sle_next[l[1]] ELSE slh_first
          /\ sle_next' \in [Threads -> Threads \cup {NULL}]
          /\ \A k \in 1 .. Len(l) :
               /\ k = i - 1 => sle_next'[l[k]] = sle_next[l[i]]
               /\ k # i - 1 /\ k # i => sle_next'[l[k]] = sle_next[l[k]]
      <3>1. l \in Seq(Threads) /\ Len(l) \in Nat /\ \A k \in 1 .. Len(l) : l[k] \in Threads
        <4>1. l \in Seq(Threads)
          BY <1>3 DEF Lists, Links
        <4> QED
          BY <4>1, ElementOfSeq
      <3>2. slh_first = l[1]
        BY <1>3, <3>1 DEF Lists, Links
      <3>3. \A j, k \in 1 .. Len(l) : l[j] = l[k] => j = k
        BY <1>3 DEF Lists, Links
      <3>4. \A k \in 1 .. Len(l) : sle_next[l[k]] = IF k = Len(l) THEN NULL ELSE l[k + 1]
        BY <1>3 DEF Lists, Links
      <3>5. sle_next \in [Threads -> Threads \cup {NULL}] /\ e \in Threads
        BY <1>2, <1>3 DEF Lists, Links, ListInv, BlocksOK
      <3>6. 1 \in 1 .. Len(l)
        BY <3>1
      <3>7. next = sle_next[e] /\ sle_next[e] \in Threads \cup {NULL}
        BY <3>5 DEF next
      <3>8. CASE slh_first = e
        <4>1. i = 1
          BY <1>4, <3>2, <3>3, <3>6, <3>8
        <4>2. slh_first' = sle_next[e] /\ sle_next' = [sle_next EXCEPT ![e] = NULL]
          BY <2>1, <3>8 DEF SLIST_REMOVE
        <4>3. \A u \in Threads \ {e} : sle_next'[u] = sle_next[u]
          BY <3>5, <4>2
        <4>4. \A k \in 1 .. Len(l) : k # i => l[k] # e
          BY <1>4, <3>3
        <4>5. \A k \in 1 .. Len(l) : k # i - 1
          BY <4>1
        <4>6. sle_next' \in [Threads -> Threads \cup {NULL}]
          BY <3>5, <4>2
        <4> QED
          BY <1>4, <3>1, <4>1, <4>2, <4>3, <4>4, <4>5, <4>6
      <3>9. CASE slh_first # e
        <4> DEFINE curelm == CHOOSE u \in DOMAIN td : sle_next[u] = e
        <4>1. i # 1
          BY <1>4, <3>2, <3>9
        <4>2. i - 1 \in 1 .. Len(l) /\ i - 1 # Len(l) /\ (i - 1) + 1 = i
          BY <3>1, <4>1
        <4>3. sle_next[l[i - 1]] = e
          BY <1>4, <3>4, <4>2
        <4>4. l[i - 1] \in DOMAIN td
          BY <1>2, <1>3, <4>2 DEF Lists, Members
        <4>5. curelm \in DOMAIN td /\ sle_next[curelm] = e
          BY <4>3, <4>4
        <4>6. sle_next' = [sle_next EXCEPT ![curelm] = sle_next[e], ![e] = NULL]
              /\ slh_first' = slh_first
          BY <2>1, <3>9 DEF SLIST_REMOVE
        <4> HIDE DEF curelm
        <4>7. curelm = l[i - 1]
          <5>1. PICK j \in 1 .. Len(l) : l[j] = curelm
            BY <1>2, <1>3, <4>5 DEF Lists, Members
          <5>2. e # NULL
            BY <1>1
          <5>3. j # Len(l) /\ l[j + 1] = l[i]
            BY <1>4, <3>4, <4>5, <5>1, <5>2
          <5>4. j + 1 \in 1 .. Len(l)
            BY <3>1, <5>3
          <5>5. j + 1 = i
            BY <3>3, <5>3, <5>4
          <5>6. j = i - 1
            BY <5>5
          <5> QED
            BY <5>1, <5>6
        <4>8. curelm # e /\ curelm \in Threads
          BY <1>4, <3>1, <3>3, <4>2, <4>7
        <4>9. /\ sle_next'[curelm] = sle_next[e]
              /\ \A u \in Threads \ {e, curelm} : sle_next'[u] = sle_next[u]
              /\ sle_next' \in [Threads -> Threads \cup {NULL}]
          BY <3>5, <3>7, <4>6, <4>8
        <4>10. \A k \in 1 .. Len(l) : k # i /\ k # i - 1 => l[k] \in Threads \ {e, curelm}
          BY <1>4, <3>1, <3>3, <4>2, <4>7
        <4> QED
          BY <1>4, <4>1, <4>6, <4>7, <4>9, <4>10
      <3> QED
        BY <3>8, <3>9
    <2>4. PICK m : /\ Links(m)'
                   /\ Len(m) = Len(l) - 1
                   /\ Members(m) = Members(l) \ {l[i]}
      BY <1>3, <2>3, RemoveLinks DEF Lists
    <2>5. Elements' = DOMAIN td'
      BY <1>6 DEF Elements, MainAt
    <2>6. Lists(m)'
      <3>1. Members(m) = Elements'
        BY <1>2, <1>3, <1>4, <2>2, <2>4, <2>5 DEF Lists
      <3>2. thread_clients' = Len(m)
        BY <1>1, <1>3, <2>1, <2>4 DEF Lists, MainAt
      <3> QED
        BY <2>4, <3>1, <3>2 DEF Lists
    <2>7. ListOK'
      BY <1>1, <1>5, <1>6, <2>2, <2>6 DEF ListOK, MainAt, NoThreadLeft, Starting
    <2> QED
      BY <2>2, <2>7 DEF ListInv
  <1> QED
    BY <1>7, <1>8

LEMMA JoinFirstList ==
  ASSUME ListInv, Running, ThreadsOK', JoinFirst
  PROVE  ListInv'
  <1>1. /\ MainAt("join") /\ slh_first # NULL /\ JoinAndFree(slh_first)
        /\ slh_first' = sle_next[slh_first]
        /\ sle_next' = [sle_next EXCEPT ![slh_first] = NULL]
        /\ UNCHANGED <<main, sig_triggered>>
    BY DEF JoinFirst
  <1>2. PICK l : Lists(l)
    BY DEF ListInv, ListOK
  <1>3. Elements = DOMAIN td
    BY <1>1 DEF Elements, MainAt
  <1>4. l \in Seq(Threads) /\ l # <<>> /\ slh_first = l[1]
    BY <1>1, <1>2 DEF Lists, Links
  <1>5. Len(l) \in Nat /\ 1 \in 1 .. Len(l) /\ \A k \in 1 .. Len(l) : l[k] \in Threads
    BY <1>4, EmptySeq, ElementOfSeq
  <1>6. slh_first \in DOMAIN td
    BY <1>2, <1>3, <1>4, <1>5 DEF Lists, Members
  <1>7. BlocksOK' /\ DOMAIN td' = DOMAIN td \ {slh_first}
    BY <1>1, <1>6, JoinBlocks DEF ListInv, BlocksOK
  <1>8. PICK m : /\ Links(m)'
                 /\ Len(m) = Len(l) - 1
                 /\ Members(m) = Members(l) \ {l[1]}
    <2>1. sle_next \in [Threads -> Threads \cup {NULL}]
      BY <1>2 DEF Lists, Links
    <2>2. /\ sle_next' \in [Threads -> Threads \cup {NULL}]
          /\ \A u \in Threads \ {slh_first} : sle_next'[u] = sle_next[u]
      BY <1>1, <2>1
    <2>3. \A j, k \in 1 .. Len(l) : l[j] = l[k] => j = k
      BY <1>2 DEF Lists, Links
    <2>4. \A k \in 1 .. Len(l) :
            /\ k = 1 - 1 => sle_next'[l[k]] = sle_next[l[1]]
            /\ k # 1 - 1 /\ k # 1 => sle_next'[l[k]] = sle_next[l[k]]
      <3> SUFFICES ASSUME NEW k \in 1 .. Len(l)
                   PROVE  /\ k # 1 - 1
                          /\ k # 1 => sle_next'[l[k]] = sle_next[l[k]]
        OBVIOUS
      <3>1. k # 1 => l[k] \in Threads \ {slh_first}
        BY <1>4, <1>5, <2>3
      <3>2. k # 1 - 1
        OBVIOUS
      <3> QED
        BY <2>2, <3>1, <3>2
    <2>5. slh_first' = IF 1 = 1 THEN sle_next[l[1]] ELSE slh_first
      BY <1>1, <1>4
    <2> QED
      BY <1>2, <1>5, <2>2, <2>4, <2>5, RemoveLinks, ZenonT(60) DEF Lists
  <1>9. Elements' = DOMAIN td'
    BY <1>1 DEF Elements, MainAt
  <1>10. Lists(m)'
    <2>1. Members(m) = Elements'
      BY <1>2, <1>3, <1>4, <1>7, <1>8, <1>9 DEF Lists
    <2> QED
      BY <1>1, <1>8, <2>1 DEF Lists, MainAt
  <1>11. ListOK'
    <2>1. MainAt("join")' /\ sig_triggered'
      BY <1>1 DEF MainAt, ListInv, ListOK
    <2> QED
      BY <1>10, <2>1 DEF ListOK, MainAt, NoThreadLeft, Starting
  <1> QED
    BY <1>7, <1>11 DEF ListInv

\* A write to a client that is gone ends the process.
LEMMA KilledList ==
  ASSUME ListInv, NEW t \in Threads, Sigpipe(t)
  PROVE  ListInv'
  <1>1. Goto("killed") /\ UNCHANGED <<thr, td, slh_first, sle_next, thread_clients>>
    BY DEF Sigpipe, listVars
  <1>2. /\ main' \in [pc : MainPCs, listenfd : Numbers, connfd : Numbers,
                      item : Threads \cup {NULL}]
        /\ main'.pc = "killed"
    BY <1>1, GotoMain DEF MainPCs
  <1>3. ThreadsOK' /\ BlocksOK'
    BY <1>1, <1>2 DEF ListInv, ThreadsOK, BlocksOK
  <1>4. ListOK'
    BY <1>2 DEF ListOK, Running, MainAt, NoThreadLeft, Starting
  <1> QED
    BY <1>3, <1>4 DEF ListInv

-----------------------------------------------------------------------------
LEMMA NextList == LockInv /\ ListInv /\ [Next]_vars => ListInv'
  <1> SUFFICES ASSUME LockInv, ListInv, [Next]_vars PROVE ListInv'
    OBVIOUS
  <1>1. ThreadsOK'
    BY NextLock DEF LockInv
  <1>2. ASSUME UNCHANGED <<main, listVars, thr>>, sig_triggered => sig_triggered'
        PROVE  ListInv'
    <2>1. Elements' = Elements
      BY <1>2 DEF listVars, Elements, MainAt
    <2>2. ASSUME NEW l, Lists(l) PROVE Lists(l)'
      BY <1>2, <2>1, <2>2 DEF listVars, Lists, Links, MainAt
    <2>3. BlocksOK'
      BY <1>2 DEF listVars, ListInv, BlocksOK
    <2>4. ListOK'
      BY <1>2, <2>2 DEF listVars, ListInv, ListOK, Running, MainAt, NoThreadLeft, At
    <2> QED
      BY <1>1, <2>3, <2>4 DEF ListInv
  <1>3. ASSUME NEW c \in Clients, NEW m, Leave(c) \/ Send(c, m) PROVE ListInv'
    BY <1>2, <1>3 DEF Leave, Send, procVars
  <1>4. CASE Signal
    BY <1>2, <1>4 DEF Signal, procVars
  <1>5. CASE UNCHANGED vars
    BY <1>2, <1>5 DEF vars
  <1>6. CASE Running /\ (MainStep \/ Accept)
    BY <1>1, <1>6, StartList, ExitList, QuietMainList, CreateList, AddList, MaintainList,
       JoinFirstList DEF MainStep
  <1>7. ASSUME NEW t \in Threads, Running, ThreadStep(t) \/ Sigpipe(t) PROVE ListInv'
    BY <1>1, <1>7, ThreadStepList, KilledList
  <1> QED
    BY <1>3, <1>4, <1>5, <1>6, <1>7 DEF Next

-----------------------------------------------------------------------------
(***************************************************************************)
(* The walk from the head gives the list.                                  *)
(***************************************************************************)
LEMMA ListedOnce ==
  ASSUME NEW l, Links(l)
  PROVE  Len(l) \in 0 .. Cardinality(Threads) /\ Cardinality(Threads) \in Nat
  <1>1. l \in Seq(Threads) /\ \A j, k \in 1 .. Len(l) : l[j] = l[k] => j = k
    BY DEF Links
  <1>2. Len(l) \in Nat /\ DOMAIN l = 1 .. Len(l) /\ l \in [1 .. Len(l) -> Threads]
    BY <1>1, LenProperties
  <1>3. l \in Injection(1 .. Len(l), Threads)
    BY <1>1, <1>2 DEF Injection, IsInjective
  <1>4. Cardinality(1 .. Len(l)) <= Cardinality(Threads)
    BY <1>3, FS_Injection
  <1>5. Cardinality(1 .. Len(l)) = Len(l)
    <2>1. 1 \in Int /\ Len(l) \in Int
      BY <1>2
    <2>2. Cardinality(1 .. Len(l)) = IF 1 > Len(l) THEN 0 ELSE Len(l) - 1 + 1
      BY <2>1, FS_Interval
    <2> QED
      BY <1>2, <2>2
  <1>6. Cardinality(Threads) \in Nat
    BY FS_CardinalityType
  <1> QED
    BY <1>2, <1>4, <1>5, <1>6

\* The first n + 1 elements, or all.
Walked(l, n) == [k \in 1 .. (IF n < Len(l) THEN n + 1 ELSE Len(l)) |-> l[k]]

Further(l) ==
  IF l = <<>> \/ sle_next[Last(l)] = NULL THEN l ELSE Append(l, sle_next[Last(l)])

LEMMA WalkedPart ==
  ASSUME NEW l \in Seq(Threads), NEW n \in Nat
  PROVE  /\ Walked(l, n) \in Seq(Threads)
         /\ Len(Walked(l, n)) = IF n < Len(l) THEN n + 1 ELSE Len(l)
         /\ \A k \in 1 .. Len(Walked(l, n)) : Walked(l, n)[k] = l[k]
         /\ n >= Len(l) => Walked(l, n) = l
  <1> DEFINE w == Walked(l, n)
             h == IF n < Len(l) THEN n + 1 ELSE Len(l)
  <1>1. h \in Nat /\ 1 .. h \subseteq 1 .. Len(l) /\ (n >= Len(l) => h = Len(l))
    OBVIOUS
  <1>2. \A k \in 1 .. Len(l) : l[k] \in Threads
    BY ElementOfSeq
  <1>3. w = [k \in 1 .. h |-> l[k]]
    BY DEF Walked
  <1>4. w \in [1 .. h -> Threads]
    BY <1>1, <1>2, <1>3
  <1> HIDE DEF h, w
  <1>5. w \in Seq(Threads) /\ DOMAIN w = 1 .. h
    BY <1>1, <1>4
  <1>6. Len(w) = h
    BY <1>1, <1>5, LenProperties
  <1>7. \A k \in 1 .. h : w[k] = l[k]
    BY <1>3
  <1>8. n >= Len(l) => w = l
    BY <1>1, <1>5, <1>6, <1>7, SameSequence
  <1> QED
    BY <1>5, <1>6, <1>7, <1>8 DEF w, h

LEMMA WalkStep ==
  ASSUME NEW l, Links(l), NEW n \in Nat, n >= 1
  PROVE  Walked(l, n) = Further(Walked(l, n - 1))
  <1> DEFINE v == Walked(l, n - 1)
             w == Walked(l, n)
  <1>1. l \in Seq(Threads) /\ Len(l) \in Nat /\ n - 1 \in Nat
    BY DEF Links
  <1>2. \A k \in 1 .. Len(l) : sle_next[l[k]] = IF k = Len(l) THEN NULL ELSE l[k + 1]
    BY DEF Links
  <1>3. /\ v \in Seq(Threads) /\ Len(v) = IF n - 1 < Len(l) THEN n ELSE Len(l)
        /\ \A k \in 1 .. Len(v) : v[k] = l[k]
        /\ n - 1 >= Len(l) => v = l
    BY <1>1, WalkedPart
  <1>4. /\ w \in Seq(Threads) /\ Len(w) = IF n < Len(l) THEN n + 1 ELSE Len(l)
        /\ \A k \in 1 .. Len(w) : w[k] = l[k]
        /\ n >= Len(l) => w = l
    BY <1>1, WalkedPart
  <1> HIDE DEF v, w
  <1>5. CASE l = <<>>
    <2>1. Len(l) = 0
      BY <1>1, <1>5, EmptySeq
    <2>2. v = <<>> /\ w = <<>>
      BY <1>1, <1>3, <1>4, <1>5, <2>1
    <2> QED
      BY <2>2 DEF Further, v, w
  <1>6. CASE l # <<>> /\ n >= Len(l)
    <2>1. Len(l) >= 1
      BY <1>1, <1>6, EmptySeq
    <2>2. Len(v) = Len(l) /\ w = l
      BY <1>1, <1>3, <1>4, <1>6
    <2>3. v = l
      BY <1>1, <1>3, <2>2, SameSequence
    <2>4. sle_next[Last(v)] = NULL
      BY <1>1, <1>2, <2>1, <2>3 DEF Last
    <2> QED
      BY <2>2, <2>3, <2>4 DEF Further, v, w
  <1>7. CASE n < Len(l)
    <2>1. Len(v) = n /\ Len(w) = n + 1 /\ n \in 1 .. Len(l) /\ n + 1 \in 1 .. Len(w)
      BY <1>1, <1>3, <1>4, <1>7
    <2>2. v # <<>> /\ Last(v) = l[n]
      BY <1>3, <2>1, EmptySeq DEF Last
    <2>3. sle_next[Last(v)] = l[n + 1] /\ l[n + 1] \in Threads
      <3>1. n + 1 \in 1 .. Len(l)
        BY <1>1, <1>7
      <3>2. l[n + 1] \in Threads
        BY <1>1, <3>1, ElementOfSeq
      <3> QED
        BY <1>2, <1>7, <2>1, <2>2, <3>2
    <2>4. Further(v) = Append(v, l[n + 1])
      BY <2>2, <2>3, ServerAssumption DEF Further
    <2>5. /\ Append(v, l[n + 1]) \in Seq(Threads) /\ Len(Append(v, l[n + 1])) = n + 1
          /\ \A k \in 1 .. n : Append(v, l[n + 1])[k] = v[k]
          /\ Append(v, l[n + 1])[n + 1] = l[n + 1]
      BY <1>3, <2>1, <2>3, AppendProperties
    <2>6. \A k \in 1 .. n + 1 : Append(v, l[n + 1])[k] = w[k]
      <3> SUFFICES ASSUME NEW k \in 1 .. n + 1
                   PROVE  Append(v, l[n + 1])[k] = w[k]
        OBVIOUS
      <3>1. w[k] = l[k]
        BY <1>4, <2>1
      <3>2. k # n + 1 => k \in 1 .. n /\ v[k] = l[k]
        BY <1>3, <2>1
      <3> QED
        BY <2>5, <3>1, <3>2
    <2>7. w = Append(v, l[n + 1])
      BY <1>4, <2>1, <2>5, <2>6, SameSequence
    <2> QED
      BY <2>4, <2>7 DEF v, w
  <1> QED
    BY <1>1, <1>5, <1>6, <1>7

\* Following sle_next from slh_first visits the list and stops at its end.
LEMMA ListWalk ==
  ASSUME NEW l, Links(l)
  PROVE  ListOf = l
  <1> DEFINE N == Cardinality(Threads)
             first == IF slh_first = NULL THEN <<>> ELSE <<slh_first>>
             Def(f) == f = [n \in 0 .. N |-> IF n = 0 THEN first ELSE Further(f[n - 1])]
             g == [n \in 0 .. N |-> Walked(l, n)]
  <1>1. N \in Nat /\ Len(l) <= N /\ l \in Seq(Threads)
    BY ListedOnce DEF Links
  <1>2. Walked(l, 0) = first
    <2>1. /\ Walked(l, 0) \in Seq(Threads) /\ Len(Walked(l, 0)) = IF 0 < Len(l) THEN 1 ELSE 0
          /\ \A k \in 1 .. Len(Walked(l, 0)) : Walked(l, 0)[k] = l[k]
      <3>1. 0 \in Nat /\ 0 + 1 = 1 /\ (~ (0 < Len(l)) => Len(l) = 0)
        BY <1>1
      <3>2. /\ Walked(l, 0) \in Seq(Threads)
            /\ Len(Walked(l, 0)) = IF 0 < Len(l) THEN 0 + 1 ELSE Len(l)
            /\ \A k \in 1 .. Len(Walked(l, 0)) : Walked(l, 0)[k] = l[k]
        BY <1>1, <3>1, WalkedPart
      <3> QED
        BY <3>1, <3>2
    <2> DEFINE w == Walked(l, 0)
    <2> HIDE DEF w
    <2>2. CASE l = <<>>
      <3>1. Len(w) = 0
        BY <2>1, <2>2 DEF w
      <3>2. w = <<>>
        BY <2>1, <3>1, EmptySeq DEF w
      <3> QED
        BY <2>2, <3>2 DEF Links, w
    <2>3. CASE l # <<>>
      <3>1. Len(l) \in Nat /\ Len(l) > 0 /\ slh_first = l[1]
        BY <1>1, <2>3, EmptySeq DEF Links
      <3>2. l[1] \in Threads
        BY <1>1, <3>1, ElementOfSeq
      <3>3. first = <<l[1]>>
        BY <3>1, <3>2, ServerAssumption
      <3>4. Len(w) = 1 /\ w[1] = l[1] /\ w \in Seq(Threads)
        BY <2>1, <3>1 DEF w
      <3>5. w = <<l[1]>>
        BY <3>2, <3>4
      <3> QED
        BY <3>3, <3>5 DEF w
    <2> QED
      BY <2>2, <2>3
  <1>3. Def(g)
    <2>1. \A n \in 0 .. N : n # 0 => n \in Nat /\ n >= 1 /\ n - 1 \in 0 .. N
      BY <1>1
    <2>2. \A n \in 0 .. N : n # 0 => g[n - 1] = Walked(l, n - 1)
      BY <2>1
    <2>3. \A n \in 0 .. N : n # 0 => Walked(l, n) = Further(Walked(l, n - 1))
      BY <2>1, WalkStep
    <2> HIDE DEF first
    <2>4. \A n \in 0 .. N : Walked(l, n) = IF n = 0 THEN first ELSE Further(g[n - 1])
      BY <1>2, <2>2, <2>3
    <2> QED
      BY <2>4
  <1>4. ListOf = (CHOOSE f : Def(f))[N]
    BY DEF ListOf, Further
  <1>5. PICK f : Def(f) /\ ListOf = f[N]
    BY <1>3, <1>4
  <1> DEFINE T == {n \in 0 .. N : f[n] = Walked(l, n)}
  <1> HIDE DEF first
  <1>6. f[0] = first /\ \A n \in 1 .. N : f[n] = Further(f[n - 1])
    BY <1>1, <1>5
  <1>7. 0 \in T
    BY <1>1, <1>2, <1>6
  <1>8. \A n \in 1 .. N : n - 1 \in T => n \in T
    BY <1>1, <1>6, WalkStep
  <1>9. N \in T
    <2> HIDE DEF T
    <2>1. 0 .. N \subseteq T
      BY <1>1, <1>7, <1>8, IntervalInduction
    <2> QED
      BY <1>1, <2>1
  <1>10. Walked(l, N) = l
    BY <1>1, WalkedPart
  <1> QED
    BY <1>5, <1>9, <1>10

-----------------------------------------------------------------------------
(***************************************************************************)
(* The theorems.                                                           *)
(***************************************************************************)
LEMMA ListedFromInv == ListInv => ThreadsListed
  <1> SUFFICES ASSUME ListInv, Running PROVE ThreadsListed
    BY DEF ThreadsListed
  <1>1. PICK l : Lists(l)
    BY DEF ListInv, ListOK
  <1>2. ListOf = l
    BY <1>1, ListWalk DEF Lists
  <1>3. l \in Seq(Threads) /\ DOMAIN l = 1 .. Len(l)
    <2>1. l \in Seq(Threads)
      BY <1>1, SMTT(30) DEF Lists, Links
    <2> QED
      BY <2>1, LenProperties
  <1>4. IsInjective(l)
    BY <1>1, <1>3 DEF IsInjective, Lists, Links
  <1>5. ToSet(l) = Elements
    BY <1>1, <1>3 DEF ToSet, Lists, Members
  <1>6. ~sig_triggered => thread_clients = Len(l)
    BY <1>1 DEF ListInv, ListOK, Lists
  <1> QED
    BY <1>2, <1>4, <1>5, <1>6 DEF ThreadsListed, ListInv, ListOK, BlocksOK, Elements

\* Following the list from its head visits every block in use exactly once, the
\* one that is about to be put there excepted, and no other: insertion at the
\* head and SLIST_REMOVE at any place lose none and reach none that was freed.
\* do_maintenance goes on at an element of the list, every thread has its block,
\* and thread_clients is the length of the list.
THEOREM ServerThreadsListed == Spec => []ThreadsListed
  <1>1. Init => LockInv /\ ListInv
    BY InitLock, InitList
  <1>2. LockInv /\ ListInv /\ [Next]_vars => (LockInv /\ ListInv)'
    BY NextLock, NextList
  <1>3. LockInv /\ ListInv => ThreadsListed
    BY ListedFromInv
  <1> QED
    BY <1>1, <1>2, <1>3, PTL DEF Spec

\* When main has returned every thread has been joined: aesd_thrd_shutdown
\* reaches each through the list.
THEOREM ServerJoinsAll == Spec => []NoThreadLeft
  <1>1. Init => LockInv /\ ListInv
    BY InitLock, InitList
  <1>2. LockInv /\ ListInv /\ [Next]_vars => (LockInv /\ ListInv)'
    BY NextLock, NextList
  <1>3. LockInv /\ ListInv => NoThreadLeft
    BY DEF ListInv, ListOK
  <1> QED
    BY <1>1, <1>2, <1>3, PTL DEF Spec
===============================================================================
