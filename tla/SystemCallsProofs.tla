--------------------------- MODULE SystemCallsProofs ---------------------------
(***************************************************************************)
(* What the calls of systemcalls.c promise, for any number of processes,   *)
(* descriptors and files.                                                  *)
(***************************************************************************)
EXTENDS SystemCalls, WellFoundedInduction, TLAPS

\* The kernel finds the lowest free number when there is a free one.
LEMMA MinInSet ==
  ASSUME NEW S, S \subseteq Nat, S # {}
  PROVE  Min(S) \in S
  <1> DEFINE R == OpToRel(<, Nat)
  <1>1. \A k, n \in Nat : k < n => <<k, n>> \in R
    BY ZenonT(30) DEF OpToRel
  <1>2. IsWellFoundedOn(R, Nat)
    BY NatLessThanWellFounded
  <1> HIDE DEF R
  <1>3. PICK x \in S : \A y \in S : ~ (<<y, x>> \in R)
    BY <1>2, WFMin
  <1>4. \A y \in S : x \in Nat /\ y \in Nat /\ ~ (y < x)
    BY <1>1, <1>3
  <1>5. \A y \in S : x =< y
    BY <1>4
  <1> QED
    BY <1>5 DEF Min

-----------------------------------------------------------------------------
(***************************************************************************)
(* The inductive invariant.                                                *)
(***************************************************************************)

\* What a call knows at each of its steps.
CallOK ==
  /\ call.pc # "idle" =>
       call.kind \in {"exec", "redirect"} /\ ~call.ran /\ call.status = "none"
  /\ call.pc \in {"flush", "close"} => call.kind = "redirect"
  /\ call.pc \in {"flush", "fork", "close"} /\ call.kind = "redirect" =>
       call.fd \in Fds \ leaked /\ call.out \in Outputs /\ fds[call.fd] = call.out
  /\ call.kind = "exec" => call.fd = -1 /\ call.out = NULL
  /\ call.pc \in {"flush", "fork"} => call.pid = NULL
  /\ call.pc \in {"close", "wait"} => call.pid \in Pids \ orphans

\* The same for a child.
ChildOK ==
  \A p \in Pids :
    /\ proc[p].pc \in {"dup out", "dup err"} => proc[p].fd \in Fds
    /\ proc[p].pc = "command" => proc[p].ran
    /\ proc[p].status = "exit 0" => proc[p].ran

Holding(p) == {n \in Fds \ leaked : proc[p].fds[n] = proc[p].out}

\* How far a child has come with its file, which is then what CommandRedirected
\* says.  A number may be in leaked although the child has its file there: the
\* program may have lost it in a later call.
Redirecting(p) ==
  LET r == proc[p]
  IN  /\ r.pc \in {"dup out", "dup err", "close"} =>
           r.fd \notin {1, 2} /\ r.fds[r.fd] = r.out
      /\ r.pc \in {"dup err", "close", "exec", "command"} => r.fds[1] = r.out
      /\ r.pc \in {"close", "exec", "command"} => r.fds[2] = r.out
      /\ r.pc \in {"dup out", "dup err", "close"} => Holding(p) \subseteq {1, 2, r.fd}
      /\ r.pc \in {"exec", "command"} => Holding(p) \subseteq {1, 2}

Redirected ==
  HasStdout => \A p \in Pids : proc[p].out # NULL => Redirecting(p)

Inv ==
  TypeOK /\ CallOK /\ ChildOK /\ ResultTellsEnd /\ NothingLeftBehind /\ Redirected

USE SystemAssumption

LEMMA InitInv == Init => Inv
  <1> SUFFICES ASSUME Init PROVE Inv
    OBVIOUS
  <1>1. 0 \in Fds /\ 1 \in Fds /\ 2 \in Fds
    BY DEF Std
  <1>2. PICK out \in Streams \cup {"free"}, err \in {"terminal", "free"} :
          fds = [n \in Fds |-> IF n = 0 THEN "terminal"
                               ELSE IF n = 1 THEN out
                               ELSE IF n = 2 THEN err ELSE "free"]
    BY DEF Init
  <1>3. \A n \in Fds : fds[n] \in Streams \cup {"free"}
    BY <1>2 DEF Streams
  <1>4. TypeOK
    <2>1. fds \in Descriptors
      BY <1>2, <1>3 DEF Descriptors
    <2>2. call \in Calls
      BY DEF Init, NoCall, Calls, Statuses
    <2>3. NoProc \in Processes
      BY DEF NoProc, Processes, Descriptors, Statuses
    <2>4. proc \in [Pids -> Processes]
      BY <2>3 DEF Init
    <2> QED
      BY <2>1, <2>2, <2>4 DEF Init, TypeOK
  <1>5. CallOK /\ ResultTellsEnd
    BY DEF Init, NoCall, CallOK, ResultTellsEnd, At
  <1>6. \A p \in Pids : proc[p].pc = "none" /\ proc[p].out = NULL /\ proc[p].status = "none"
    BY DEF Init, NoProc
  <1>7. ChildOK /\ Redirected
    BY <1>6 DEF ChildOK, Redirected
  <1>8. NothingLeftBehind
    BY <1>3, <1>6 DEF Init, NoCall, NothingLeftBehind, ChildAt
  <1> QED
    BY <1>4, <1>5, <1>7, <1>8 DEF Inv

-----------------------------------------------------------------------------
(***************************************************************************)
(* The steps of the program.                                               *)
(***************************************************************************)
LEMMA TextTyped ==
  ASSUME TypeOK, NEW table, NEW n, TextGoes(table, n)
  PROVE  content' \in [Outputs -> SUBSET (Pids \cup {"text"})]
  BY DEF TypeOK, TextGoes

\* What the children know does not change when the program moves, unless it
\* starts or ends one.
LEMMA ChildrenStay ==
  ASSUME Inv, UNCHANGED proc, leaked \subseteq leaked', HasStdout' => HasStdout
  PROVE  ChildOK' /\ Redirected'
  <1>1. ChildOK'
    BY DEF Inv, ChildOK
  <1>2. ASSUME NEW p \in Pids PROVE Holding(p)' \subseteq Holding(p)
    BY DEF Holding
  <1>3. Redirected'
    BY <1>2 DEF Inv, Redirected, Redirecting
  <1> QED
    BY <1>1, <1>3

\* A call that is not under way knows nothing and owns nothing.
LEMMA CallReturns ==
  ASSUME Inv, call'.pc = "idle", call'.kind = "exec" => call'.fd = -1 /\ call'.out = NULL
  PROVE  CallOK'
  BY DEF CallOK

LEMMA CallBegins ==
  ASSUME Inv, Call
  PROVE  Inv'
  <1>1. CASE do_system
    <2> USE <1>1 DEF do_system
    <2>10. PICK status \in Statuses \cup {"none"} :
            Return([NoCall EXCEPT !.kind = "system", !.ran = status # "none",
                                  !.status = status, !.result = ResultOf(status)])
      OBVIOUS
    <2> DEFINE ran == status # "none"
               result == ResultOf(status)
    <2>11. ran \in BOOLEAN /\ result \in BOOLEAN /\ (result <=> ran /\ status = "exit 0")
      BY DEF ResultOf
    <2> HIDE DEF ran, result
    <2>1. call' = [NoCall EXCEPT !.pc = "idle", !.kind = "system", !.ran = ran,
                                 !.status = status, !.result = result]
      BY <2>10, ZenonT(60) DEF Return, NoCall, ran, result
    <2>2. TypeOK'
      <3>1. call' \in Calls
        BY <2>1, <2>11 DEF Calls, NoCall
      <3> QED
        BY <3>1 DEF Inv, TypeOK
    <2>3. CallOK'
      BY <2>1, CallReturns DEF NoCall
    <2>4. ChildOK' /\ Redirected'
      BY ChildrenStay DEF HasStdout
    <2>5. ResultTellsEnd'
      BY <2>1, <2>11 DEF ResultTellsEnd, ForkFailed, NoCall
    <2>6. NothingLeftBehind'
      BY <2>1 DEF Inv, NothingLeftBehind, ChildAt, At, NoCall
    <2> QED
      BY <2>2, <2>3, <2>4, <2>5, <2>6 DEF Inv
  <1>2. CASE do_exec
    <2> USE <1>2 DEF do_exec
    <2>1. TypeOK'
      BY DEF Inv, TypeOK, Calls, NoCall
    <2>2. CallOK' /\ ResultTellsEnd'
      BY DEF CallOK, ResultTellsEnd, At, NoCall
    <2>3. ChildOK' /\ Redirected'
      BY ChildrenStay DEF HasStdout
    <2>4. NothingLeftBehind'
      BY DEF Inv, NothingLeftBehind, ChildAt, At, NoCall
    <2> QED
      BY <2>1, <2>2, <2>3, <2>4 DEF Inv
  <1>3. ASSUME NEW out \in Outputs, do_exec_redirect(out) PROVE Inv'
    <2> DEFINE c == [NoCall EXCEPT !.kind = "redirect", !.out = out]
               free == {n \in Fds : fds[n] = "free"}
    <2>1. CASE /\ free # {}
               /\ fds' = [fds EXCEPT ![Min(free)] = out]
               /\ call' = [c EXCEPT !.pc = "flush", !.fd = Min(free)]
               /\ content' = [content EXCEPT ![out] = {}]
      <3> DEFINE m == Min(free)
      <3>1. m \in Fds /\ fds[m] = "free"
        BY <2>1, MinInSet
      <3> HIDE DEF m
      <3>2. UNCHANGED <<unflushed, proc, leaked, orphans>>
        BY <1>3 DEF do_exec_redirect
      <3>3. fds' = [fds EXCEPT ![m] = out] /\ fds \in Descriptors
        BY <2>1 DEF m, Inv, TypeOK
      <3>4. call' = [NoCall EXCEPT !.kind = "redirect", !.out = out, !.pc = "flush", !.fd = m]
        BY <2>1 DEF m, NoCall
      <3>5. TypeOK'
        <4>1. call' \in Calls
          BY <3>1, <3>4 DEF Calls, NoCall
        <4>2. fds' \in Descriptors
          BY <3>1, <3>3 DEF Descriptors
        <4>3. content' \in [Outputs -> SUBSET (Pids \cup {"text"})]
          BY <2>1 DEF Inv, TypeOK
        <4> QED
          BY <3>2, <4>1, <4>2, <4>3 DEF Inv, TypeOK
      <3>6. At("idle")
        BY <1>3 DEF do_exec_redirect
      <3>7. m \notin leaked
        BY <3>1, <3>6 DEF Inv, NothingLeftBehind, At
      <3>8. CallOK' /\ ResultTellsEnd'
        BY <3>1, <3>2, <3>3, <3>4, <3>7
           DEF CallOK, ResultTellsEnd, At, NoCall, Descriptors
      <3>9. HasStdout' => HasStdout
        BY <3>1, <3>3 DEF HasStdout, Descriptors, Std
      <3>10. ChildOK' /\ Redirected'
        BY <3>2, <3>9, ChildrenStay
      <3>11. {n \in Fds : fds'[n] \in Outputs} = {n \in Fds : fds[n] \in Outputs} \cup {m}
        BY <3>1, <3>3 DEF Descriptors
      <3>12. NothingLeftBehind'
        BY <3>1, <3>2, <3>4, <3>6, <3>11 DEF Inv, NothingLeftBehind, ChildAt, At, NoCall
      <3> QED
        BY <3>5, <3>8, <3>10, <3>12 DEF Inv
    <2>2. CASE Return([c EXCEPT !.result = FALSE]) /\ UNCHANGED <<fds, content>>
      <3>1. call' = [NoCall EXCEPT !.kind = "redirect", !.out = out, !.pc = "idle",
                                   !.result = FALSE]
        BY <2>2 DEF Return, NoCall
      <3>2. UNCHANGED <<fds, content, unflushed, proc, leaked, orphans>> /\ At("idle")
        BY <1>3, <2>2 DEF do_exec_redirect
      <3>3. TypeOK'
        BY <3>1, <3>2, ZenonT(60) DEF Inv, TypeOK, Calls, NoCall
      <3>4. CallOK' /\ ResultTellsEnd'
        BY <3>1, CallReturns DEF ResultTellsEnd, ForkFailed, NoCall
      <3>5. ChildOK' /\ Redirected'
        BY <3>2, ChildrenStay DEF HasStdout
      <3>6. NothingLeftBehind'
        BY <3>1, <3>2 DEF Inv, NothingLeftBehind, ChildAt, At, NoCall
      <3> QED
        BY <3>3, <3>4, <3>5, <3>6 DEF Inv
    <2> QED
      BY <1>3, <2>1, <2>2 DEF do_exec_redirect
  <1> QED
    BY <1>1, <1>2, <1>3 DEF Call

LEMMA FlushInv == Inv /\ Flush => Inv'
  <1> SUFFICES ASSUME Inv, Flush PROVE Inv'
    OBVIOUS
  <1> USE DEF Flush
  <1>1. call' = [call EXCEPT !.pc = "fork"] /\ call \in Calls
    BY DEF Inv, TypeOK
  <1>2. TypeOK'
    <2>1. content' \in [Outputs -> SUBSET (Pids \cup {"text"})]
      BY TextTyped DEF Inv, TypeOK
    <2>2. unflushed' \in BOOLEAN
      OBVIOUS
    <2>3. call' \in Calls
      BY <1>1 DEF Calls
    <2> QED
      BY <2>1, <2>2, <2>3 DEF Inv, TypeOK
  <1>3. CallOK' /\ ResultTellsEnd'
    BY <1>1 DEF Inv, CallOK, ResultTellsEnd, At, Calls
  <1>4. ChildOK' /\ Redirected'
    BY ChildrenStay DEF HasStdout
  <1>5. NothingLeftBehind'
    BY <1>1 DEF Inv, NothingLeftBehind, ChildAt, At, Calls
  <1> QED
    BY <1>2, <1>3, <1>4, <1>5 DEF Inv

\* The new child has the program's descriptors: its file is at its number only,
\* and at those that were lost.
LEMMA ForkInv == ASSUME Inv, NEW p \in Pids, Fork(p) PROVE Inv'
  <1> DEFINE exec == call.kind = "exec"
             text == unflushed \/ (exec /\ Buffers)
             child == [NoProc EXCEPT !.pc = IF exec THEN "exec" ELSE "dup out",
                                     !.out = call.out, !.fd = call.fd, !.fds = fds,
                                     !.unflushed = text]
             pc == IF exec THEN "wait" ELSE "close"
  <1>1. /\ At("fork") /\ proc[p].pc = "none"
        /\ proc' = [proc EXCEPT ![p] = child]
        /\ call' = [call EXCEPT !.pc = pc, !.pid = p]
        /\ UNCHANGED <<fds, unflushed, content, leaked, orphans>>
    BY DEF Fork
  <1>2. TypeOK
    BY DEF Inv
  <1>3. text \in BOOLEAN
    BY <1>2 DEF TypeOK
  <1> HIDE DEF text
  <1>4. /\ child.pc = (IF exec THEN "exec" ELSE "dup out")
        /\ child.out = call.out /\ child.fd = call.fd /\ child.fds = fds
        /\ child.status = "none" /\ child \in Processes
    <2>1. /\ call.out \in Outputs \cup {NULL} /\ call.fd \in Fds \cup {-1}
          /\ fds \in Descriptors
      BY <1>2 DEF TypeOK, Calls
    <2>2. NoProc \in Processes /\ NoProc.status = "none"
      BY SystemAssumption DEF NoProc, Processes, Descriptors
    <2> HIDE DEF exec
    <2> QED
      BY <1>3, <2>1, <2>2, ZenonT(60) DEF Processes
  <1> HIDE DEF child
  <1>5. \A q \in Pids : proc'[q] = IF q = p THEN child ELSE proc[q]
    BY <1>1, <1>2 DEF TypeOK
  <1>6. call'.pc = pc /\ call'.pid = p /\ call' \in Calls
        /\ call'.kind = call.kind /\ call'.fd = call.fd /\ call'.out = call.out
        /\ call'.ran = call.ran /\ call'.status = call.status
    BY <1>1, <1>2, ZenonT(60) DEF TypeOK, Calls
  <1>7. TypeOK'
    BY <1>1, <1>2, <1>4, <1>6 DEF TypeOK
  <1>8. /\ call.kind \in {"exec", "redirect"} /\ ~call.ran /\ call.status = "none"
        /\ call.kind = "redirect" =>
             call.fd \in Fds \ leaked /\ call.out \in Outputs /\ fds[call.fd] = call.out
        /\ call.kind = "exec" => call.fd = -1 /\ call.out = NULL
    BY <1>1 DEF Inv, CallOK, At
  <1>9. p \notin orphans
    BY <1>1 DEF Inv, NothingLeftBehind, At, ChildAt
  <1>10. CallOK' /\ ResultTellsEnd'
    BY <1>1, <1>6, <1>8, <1>9 DEF CallOK, ResultTellsEnd, At
  <1>11. ChildOK'
    <2>1. child.pc = "dup out" => child.fd \in Fds
      BY <1>4, <1>8
    <2> QED
      BY <1>4, <1>5, <2>1 DEF Inv, ChildOK
  <1>12. NothingLeftBehind'
    <2>1. {q \in Pids : ~ChildAt(q, "none")'} = orphans \cup {p}
      <3>1. child.pc # "none"
        BY <1>4
      <3>2. \A q \in Pids : ChildAt(q, "none")' <=> q # p /\ ChildAt(q, "none")
        BY <1>5, <3>1 DEF ChildAt
      <3>3. {q \in Pids : ~ChildAt(q, "none")} = orphans
        BY <1>1 DEF Inv, NothingLeftBehind, At
      <3> QED
        BY <3>2, <3>3
    <2>2. {n \in Fds : fds[n] \in Outputs} = leaked \cup ({call.fd} \ {-1})
      BY <1>1 DEF Inv, NothingLeftBehind, At
    <2>3. CASE exec
      BY <1>1, <1>6, <1>8, <2>1, <2>2, <2>3 DEF NothingLeftBehind
    <2>4. CASE ~exec
      BY <1>1, <1>6, <1>8, <2>1, <2>2, <2>4 DEF NothingLeftBehind
    <2> QED
      BY <2>3, <2>4
  <1>13. Redirected'
    <2> SUFFICES ASSUME HasStdout', NEW q \in Pids, proc'[q].out # NULL
                 PROVE  Redirecting(q)'
      BY DEF Redirected
    <2>1. HasStdout
      BY <1>1 DEF HasStdout
    <2>2. CASE q # p
      <3>1. proc'[q] = proc[q]
        BY <1>5, <2>2
      <3>2. Holding(q)' = Holding(q)
        BY <1>1, <3>1 DEF Holding
      <3>3. Redirecting(q)
        BY <2>1, <3>1 DEF Inv, Redirected
      <3> QED
        BY <3>1, <3>2, <3>3 DEF Redirecting
    <2>3. CASE q = p
      <3>1. call.kind = "redirect"
        BY <1>4, <1>5, <1>8, <2>3
      <3>2. child.pc = "dup out" /\ child.fds[child.fd] = child.out
        BY <1>4, <1>8, <3>1
      <3>3. child.fd \notin {1, 2}
        BY <1>4, <1>8, <2>1, <3>1 DEF HasStdout
      <3>4. {n \in Fds \ leaked : fds[n] = call.out} \subseteq {call.fd}
        BY <1>1, <1>8, <3>1 DEF Inv, NothingLeftBehind, At
      <3>5. Holding(p)' \subseteq {child.fd}
        <4>1. proc'[p].fds = fds /\ proc'[p].out = call.out /\ child.fd = call.fd
          BY <1>4, <1>5
        <4>2. leaked' = leaked
          BY <1>1
        <4>3. Holding(p)' = {n \in Fds \ leaked : fds[n] = call.out}
          BY <4>1, <4>2 DEF Holding
        <4> QED
          BY <3>4, <4>1, <4>3
      <3> QED
        BY <1>5, <2>3, <3>2, <3>3, <3>5 DEF Redirecting
    <2> QED
      BY <2>2, <2>3
  <1> QED
    BY <1>7, <1>10, <1>11, <1>12, <1>13 DEF Inv

\* do_exec ends with result still true: the exception in ResultTellsEnd.
LEMMA ForkFailsInv == Inv /\ ForkFails => Inv'
  <1> SUFFICES ASSUME Inv, ForkFails PROVE Inv'
    OBVIOUS
  <1>1. /\ At("fork") /\ leaked' = leaked \cup ({call.fd} \ {-1})
        /\ UNCHANGED <<fds, unflushed, proc, content, orphans>>
        /\ TypeOK
    BY DEF Inv, ForkFails
  <1> DEFINE result == call.kind = "exec"
  <1>2. result \in BOOLEAN /\ (result <=> call.kind = "exec")
    OBVIOUS
  <1>3. call' = [call EXCEPT !.result = result, !.pc = "idle"]
    BY <1>1 DEF ForkFails, Return, TypeOK, Calls
  <1> HIDE DEF result
  <1>4. call' \in Calls
    BY <1>1, <1>2, <1>3 DEF TypeOK, Calls
  <1>5. /\ call'.pc = "idle" /\ call'.result = result
        /\ call'.kind = call.kind /\ call'.fd = call.fd /\ call'.out = call.out
        /\ call'.ran = call.ran /\ call'.pid = call.pid
    BY <1>1, <1>3 DEF TypeOK, Calls
  <1>6. TypeOK'
    BY <1>1, <1>4 DEF TypeOK, Calls
  <1>7. CallOK'
    BY <1>5, CallReturns DEF Inv, CallOK
  <1>8. ~call.ran /\ call.pid = NULL
    BY <1>1 DEF Inv, CallOK, At
  <1>9. ResultTellsEnd'
    BY <1>2, <1>5, <1>8 DEF ResultTellsEnd, ForkFailed
  <1>10. ChildOK' /\ Redirected'
    BY <1>1, ChildrenStay DEF HasStdout
  <1>11. NothingLeftBehind'
    BY <1>1, <1>5 DEF Inv, NothingLeftBehind, At, ChildAt
  <1> QED
    BY <1>6, <1>7, <1>9, <1>10, <1>11 DEF Inv

LEMMA CloseInv == Inv /\ Close => Inv'
  <1> SUFFICES ASSUME Inv, Close PROVE Inv'
    OBVIOUS
  <1>1. /\ At("close") /\ fds' = [fds EXCEPT ![call.fd] = "free"]
        /\ call' = [call EXCEPT !.pc = "wait"]
        /\ UNCHANGED <<unflushed, proc, content, leaked, orphans>>
        /\ TypeOK
    BY DEF Inv, Close
  <1>2. /\ call.kind = "redirect" /\ call.fd \in Fds \ leaked
        /\ fds[call.fd] \in Outputs /\ call.fd # -1
    BY <1>1 DEF Inv, CallOK, At
  <1>3. call' \in Calls /\ fds' \in Descriptors
    BY <1>1 DEF TypeOK, Calls, Descriptors
  <1>4. /\ call'.pc = "wait" /\ call'.kind = call.kind /\ call'.fd = call.fd
        /\ call'.ran = call.ran /\ call'.status = call.status /\ call'.pid = call.pid
    BY <1>1 DEF TypeOK, Calls
  <1>5. TypeOK'
    BY <1>1, <1>3 DEF TypeOK
  <1>6. CallOK' /\ ResultTellsEnd'
    BY <1>1, <1>2, <1>4 DEF Inv, CallOK, ResultTellsEnd, At
  <1>7. HasStdout' => HasStdout
    BY <1>1, <1>2 DEF HasStdout, TypeOK, Descriptors, Std, Streams
  <1>8. ChildOK' /\ Redirected'
    BY <1>1, <1>7, ChildrenStay
  <1>9. {n \in Fds : fds'[n] \in Outputs} = {n \in Fds : fds[n] \in Outputs} \ {call.fd}
    BY <1>1, <1>2 DEF TypeOK, Descriptors
  <1>10. NothingLeftBehind'
    BY <1>1, <1>2, <1>4, <1>9 DEF Inv, NothingLeftBehind, At, ChildAt
  <1> QED
    BY <1>5, <1>6, <1>8, <1>10 DEF Inv

\* The call takes over what its child did.
LEMMA WaitInv == Inv /\ Wait => Inv'
  <1> SUFFICES ASSUME Inv, Wait PROVE Inv'
    OBVIOUS
  <1> DEFINE child == proc[call.pid]
             result == ResultOf(child.status)
  <1>1. /\ At("wait") /\ child.pc = "zombie" /\ Prints
        /\ proc' = [proc EXCEPT ![call.pid] = NoProc]
        /\ UNCHANGED <<fds, content, leaked, orphans>>
        /\ TypeOK
    BY DEF Inv, Wait
  <1>2. /\ call.kind \in {"exec", "redirect"} /\ call.pid \in Pids \ orphans
        /\ call.kind = "exec" => call.fd = -1 /\ call.out = NULL
    BY <1>1 DEF Inv, CallOK, At
  <1>3. child \in Processes
    BY <1>1, <1>2 DEF TypeOK
  <1>4. result \in BOOLEAN /\ (result <=> child.ran /\ child.status = "exit 0")
    BY <1>2 DEF ResultOf, Inv, ChildOK
  <1>5. call' = [call EXCEPT !.pc = "idle", !.result = result, !.ran = child.ran,
                             !.status = child.status, !.wrote = child.wrote]
    BY <1>1 DEF Wait, Return, TypeOK, Calls
  <1> HIDE DEF child, result
  <1>6. /\ call' \in Calls /\ call'.pc = "idle" /\ call'.result = result
        /\ call'.ran = child.ran /\ call'.status = child.status
        /\ call'.kind = call.kind /\ call'.fd = call.fd /\ call'.out = call.out
        /\ call'.pid = call.pid
    BY <1>1, <1>3, <1>4, <1>5, ZenonT(60) DEF TypeOK, Calls, Processes
  <1>7. \A q \in Pids : proc'[q] = IF q = call.pid THEN NoProc ELSE proc[q]
    BY <1>1 DEF TypeOK
  <1>8. /\ NoProc.pc = "none" /\ NoProc.out = NULL /\ NoProc.status = "none"
        /\ NoProc \in Processes
    BY DEF NoProc, Processes, Descriptors
  <1>9. TypeOK'
    <2>1. unflushed' \in BOOLEAN
      BY <1>1 DEF Prints, TypeOK
    <2>2. proc' \in [Pids -> Processes]
      BY <1>1, <1>8 DEF TypeOK
    <2> QED
      BY <1>1, <1>6, <2>1, <2>2 DEF TypeOK
  <1>10. CallOK'
    BY <1>2, <1>6, CallReturns
  <1>11. ResultTellsEnd'
    BY <1>2, <1>4, <1>6 DEF ResultTellsEnd, ForkFailed
  <1>12. ChildOK'
    BY <1>7, <1>8 DEF Inv, ChildOK
  <1>13. Redirected'
    <2> SUFFICES ASSUME HasStdout', NEW q \in Pids, proc'[q].out # NULL
                 PROVE  Redirecting(q)'
      BY DEF Redirected
    <2>1. proc'[q] = proc[q]
      BY <1>7, <1>8
    <2>2. Holding(q)' = Holding(q)
      BY <1>1, <2>1 DEF Holding
    <2>3. HasStdout
      BY <1>1 DEF HasStdout
    <2>4. Redirecting(q)
      BY <2>1, <2>3 DEF Inv, Redirected
    <2> QED
      BY <2>1, <2>2, <2>4 DEF Redirecting
  <1>14. NothingLeftBehind'
    <2>1. \A q \in Pids : ChildAt(q, "none")' <=> q = call.pid \/ ChildAt(q, "none")
      BY <1>7, <1>8 DEF ChildAt
    <2>2. {q \in Pids : ~ChildAt(q, "none")} = orphans \cup {call.pid}
      BY <1>1 DEF Inv, NothingLeftBehind, At
    <2>3. {q \in Pids : ~ChildAt(q, "none")'} = orphans
      BY <1>2, <2>1, <2>2
    <2>4. {n \in Fds : fds[n] \in Outputs} = leaked
      BY <1>1 DEF Inv, NothingLeftBehind, At
    <2> QED
      BY <1>1, <1>6, <2>3, <2>4 DEF NothingLeftBehind
  <1> QED
    BY <1>9, <1>10, <1>11, <1>12, <1>13, <1>14 DEF Inv

\* The child is no longer the call's.
LEMMA WaitFailsInv == Inv /\ WaitFails => Inv'
  <1> SUFFICES ASSUME Inv, WaitFails PROVE Inv'
    OBVIOUS
  <1>1. /\ At("wait") /\ orphans' = orphans \cup {call.pid} /\ Prints
        /\ UNCHANGED <<fds, proc, content, leaked>>
        /\ TypeOK
    BY DEF Inv, WaitFails
  <1>2. /\ call.kind \in {"exec", "redirect"} /\ call.pid \in Pids \ orphans
        /\ call.kind = "exec" => call.fd = -1 /\ call.out = NULL
        /\ ~call.ran
    BY <1>1 DEF Inv, CallOK, At
  <1>3. call' = [call EXCEPT !.result = FALSE, !.pc = "idle"]
    BY DEF WaitFails, Return
  <1>4. /\ call' \in Calls /\ call'.pc = "idle" /\ call'.result = FALSE
        /\ call'.ran = call.ran /\ call'.pid = call.pid
        /\ call'.kind = call.kind /\ call'.fd = call.fd /\ call'.out = call.out
    BY <1>1, <1>3 DEF TypeOK, Calls
  <1>5. unflushed' \in BOOLEAN
    BY <1>1 DEF Prints, TypeOK
  <1>6. TypeOK'
    BY <1>1, <1>2, <1>4, <1>5 DEF TypeOK
  <1>7. CallOK'
    BY <1>2, <1>4, CallReturns
  <1>8. ResultTellsEnd'
    BY <1>2, <1>4 DEF ResultTellsEnd, ForkFailed
  <1>9. ChildOK' /\ Redirected'
    BY <1>1, ChildrenStay DEF HasStdout
  <1>10. NothingLeftBehind'
    BY <1>1, <1>4 DEF Inv, NothingLeftBehind, At, ChildAt
  <1> QED
    BY <1>6, <1>7, <1>8, <1>9, <1>10 DEF Inv

-----------------------------------------------------------------------------
(***************************************************************************)
(* The steps of a child, which touch nothing of the program's.             *)
(***************************************************************************)

\* What holds of the new record of one child holds of them all.
LEMMA ChildMoves ==
  ASSUME Inv, NEW p \in Pids, NEW r \in Processes, Becomes(p, r), ProgramStays,
         content' \in [Outputs -> SUBSET (Pids \cup {"text"})],
         proc[p].pc # "none", r.pc # "none",
         r.pc \in {"dup out", "dup err"} => r.fd \in Fds,
         r.pc = "command" => r.ran,
         r.status = "exit 0" => r.ran,
         HasStdout /\ r.out # NULL => Redirecting(p)'
  PROVE  Inv'
  <1>1. TypeOK /\ UNCHANGED <<fds, unflushed, call, leaked, orphans>>
    BY DEF Inv, ProgramStays
  <1>2. proc' = [proc EXCEPT ![p] = r]
    BY DEF Becomes
  <1>3. \A q \in Pids : proc'[q] = IF q = p THEN r ELSE proc[q]
    BY <1>1, <1>2 DEF TypeOK
  <1>4. TypeOK'
    <2>1. proc' \in [Pids -> Processes]
      BY <1>1, <1>2 DEF TypeOK
    <2> QED
      BY <1>1, <2>1 DEF TypeOK
  <1>5. CallOK' /\ ResultTellsEnd'
    BY <1>1 DEF Inv, CallOK, ResultTellsEnd, At, ForkFailed
  <1>6. ChildOK'
    BY <1>3 DEF Inv, ChildOK
  <1>7. NothingLeftBehind'
    <2>1. \A q \in Pids : ChildAt(q, "none")' <=> ChildAt(q, "none")
      BY <1>3 DEF ChildAt
    <2>2. {q \in Pids : ~ChildAt(q, "none")'} = {q \in Pids : ~ChildAt(q, "none")}
      BY <2>1
    <2> QED
      BY <1>1, <2>2 DEF Inv, NothingLeftBehind
  <1>8. Redirected'
    <2> SUFFICES ASSUME HasStdout', NEW q \in Pids, proc'[q].out # NULL
                 PROVE  Redirecting(q)'
      BY DEF Redirected
    <2>1. HasStdout
      BY <1>1 DEF HasStdout
    <2>2. CASE q = p
      BY <1>3, <2>1, <2>2
    <2>3. CASE q # p
      <3>1. proc'[q] = proc[q]
        BY <1>3, <2>3
      <3>2. Holding(q)' = Holding(q)
        BY <1>1, <3>1 DEF Holding
      <3>3. Redirecting(q)
        BY <2>1, <3>1 DEF Inv, Redirected
      <3> QED
        BY <3>1, <3>2, <3>3 DEF Redirecting
    <2> QED
      BY <2>2, <2>3
  <1> QED
    BY <1>4, <1>5, <1>6, <1>7, <1>8 DEF Inv

\* A child that ends has no file left to be redirected to.
LEMMA ZombieInv ==
  ASSUME Inv, NEW p \in Pids, NEW status \in Statuses, Zombie(p, status), ProgramStays,
         content' \in [Outputs -> SUBSET (Pids \cup {"text"})],
         proc[p].pc # "none", status = "exit 0" => proc[p].ran
  PROVE  Inv'
  <1> DEFINE r == [proc[p] EXCEPT !.pc = "zombie", !.status = status,
                                  !.unflushed = FALSE, !.fds = NoProc.fds]
  <1>1. proc[p] \in Processes /\ proc \in [Pids -> Processes]
    BY DEF Inv, TypeOK
  <1>2. NoProc.fds \in Descriptors
    BY DEF NoProc, Descriptors
  <1>3. r \in Processes /\ r.pc = "zombie" /\ r.status = status /\ r.ran = proc[p].ran
    BY <1>1, <1>2 DEF Processes
  <1>4. Becomes(p, r)
    BY DEF Zombie
  <1> HIDE DEF r
  <1>5. Redirecting(p)'
    BY <1>1, <1>3, <1>4 DEF Becomes, Redirecting
  <1> QED
    BY <1>3, <1>4, <1>5, ChildMoves

LEMMA ChildExitInv ==
  ASSUME Inv, NEW p \in Pids, ChildExit(p), ProgramStays, proc[p].pc # "none"
  PROVE  Inv'
  <1>1. content' \in [Outputs -> SUBSET (Pids \cup {"text"})]
    BY TextTyped DEF ChildExit, Inv, TypeOK
  <1>2. "exit 1" \in Statuses /\ Zombie(p, "exit 1")
    BY DEF ChildExit, Statuses
  <1> QED
    BY <1>1, <1>2, ZombieInv

\* What a child that has a file knows before it moves.
LEMMA ChildKnows ==
  ASSUME Inv, NEW p \in Pids
  PROVE  /\ proc[p] \in Processes /\ proc[p].fds \in Descriptors
         /\ content \in [Outputs -> SUBSET (Pids \cup {"text"})]
         /\ HasStdout /\ proc[p].out # NULL => Redirecting(p)
  BY DEF Inv, TypeOK, Processes, Redirected

\* One of the descriptors of a child changes.
LEMMA HoldingMoves ==
  ASSUME Inv, NEW p \in Pids, NEW r, NEW n, Becomes(p, r), ProgramStays,
         r.out = proc[p].out, \A k \in Fds \ {n} : r.fds[k] = proc[p].fds[k]
  PROVE  /\ Holding(p)' \subseteq Holding(p) \cup {n}
         /\ (n \in Fds => r.fds[n] # r.out) => Holding(p)' \subseteq Holding(p) \ {n}
  <1>1. proc'[p] = r /\ leaked' = leaked
    BY DEF Becomes, ProgramStays, Inv, TypeOK
  <1> QED
    BY <1>1 DEF Holding

LEMMA DupOutInv == ASSUME Inv, NEW p \in Pids, DupOut(p) PROVE Inv'
  <1> DEFINE file == proc[p].fds[proc[p].fd]
             table == [proc[p].fds EXCEPT ![1] = file]
             r == [proc[p] EXCEPT !.pc = "dup err", !.fds = table]
  <1>1. /\ proc[p].pc = "dup out" /\ Becomes(p, r) /\ ProgramStays /\ UNCHANGED content
    BY DEF DupOut, ChildAt
  <1>2. /\ proc[p] \in Processes /\ proc[p].fds \in Descriptors
        /\ HasStdout /\ proc[p].out # NULL => Redirecting(p)
        /\ content \in [Outputs -> SUBSET (Pids \cup {"text"})]
        /\ 1 \in Fds
    BY ChildKnows DEF Std
  <1>3. proc[p].fd \in Fds /\ (proc[p].status = "exit 0" => proc[p].ran)
    BY <1>1 DEF Inv, ChildOK
  <1>4. table \in Descriptors /\ table[1] = file
        /\ \A n \in Fds \ {1} : table[n] = proc[p].fds[n]
    BY <1>2, <1>3 DEF Descriptors
  <1>5. /\ r \in Processes /\ r.pc = "dup err" /\ r.fds = table /\ r.fd = proc[p].fd
        /\ r.out = proc[p].out /\ r.status = proc[p].status /\ r.ran = proc[p].ran
    BY <1>2, <1>4 DEF Processes
  <1> HIDE DEF r, table
  <1>6. Holding(p)' \subseteq Holding(p) \cup {1}
    <2>1. \A n \in Fds \ {1} : r.fds[n] = proc[p].fds[n]
      BY <1>4, <1>5
    <2>2. r.out = proc[p].out
      BY <1>5
    <2> QED
      BY <1>1, <2>1, <2>2, HoldingMoves
  <1>7. ASSUME HasStdout, r.out # NULL PROVE Redirecting(p)'
    <2>1. Redirecting(p)
      BY <1>2, <1>5, <1>7
    <2>2. /\ proc[p].fd \notin {1, 2} /\ file = proc[p].out
          /\ Holding(p) \subseteq {1, 2, proc[p].fd}
      BY <1>1, <2>1 DEF Redirecting
    <2>3. proc'[p] = r
      BY <1>1 DEF Becomes, Inv, TypeOK
    <2>4. r.fds[r.fd] = r.out /\ r.fds[1] = r.out
      BY <1>2, <1>3, <1>4, <1>5, <2>2, ZenonT(60)
    <2> QED
      BY <1>5, <1>6, <2>2, <2>3, <2>4 DEF Redirecting
  <1> QED
    BY <1>1, <1>2, <1>3, <1>5, <1>7, ChildMoves

LEMMA DupErrInv == ASSUME Inv, NEW p \in Pids, DupErr(p) PROVE Inv'
  <1> DEFINE file == proc[p].fds[proc[p].fd]
             table == [proc[p].fds EXCEPT ![2] = file]
             r == [proc[p] EXCEPT !.pc = "close", !.fds = table]
  <1>1. /\ proc[p].pc = "dup err" /\ Becomes(p, r) /\ ProgramStays /\ UNCHANGED content
    BY DEF DupErr, ChildAt
  <1>2. /\ proc[p] \in Processes /\ proc[p].fds \in Descriptors
        /\ HasStdout /\ proc[p].out # NULL => Redirecting(p)
        /\ content \in [Outputs -> SUBSET (Pids \cup {"text"})]
        /\ 1 \in Fds /\ 2 \in Fds
    BY ChildKnows DEF Std
  <1>3. proc[p].fd \in Fds /\ (proc[p].status = "exit 0" => proc[p].ran)
    BY <1>1 DEF Inv, ChildOK
  <1>4. table \in Descriptors /\ table[2] = file
        /\ \A n \in Fds \ {2} : table[n] = proc[p].fds[n]
    BY <1>2, <1>3 DEF Descriptors
  <1>5. /\ r \in Processes /\ r.pc = "close" /\ r.fds = table /\ r.fd = proc[p].fd
        /\ r.out = proc[p].out /\ r.status = proc[p].status /\ r.ran = proc[p].ran
    BY <1>2, <1>4 DEF Processes
  <1> HIDE DEF r, table
  <1>6. Holding(p)' \subseteq Holding(p) \cup {2}
    <2>1. \A n \in Fds \ {2} : r.fds[n] = proc[p].fds[n]
      BY <1>4, <1>5
    <2>2. r.out = proc[p].out
      BY <1>5
    <2> QED
      BY <1>1, <2>1, <2>2, HoldingMoves
  <1>7. ASSUME HasStdout, r.out # NULL PROVE Redirecting(p)'
    <2>1. Redirecting(p)
      BY <1>2, <1>5, <1>7
    <2>2. /\ proc[p].fd \notin {1, 2} /\ file = proc[p].out
          /\ proc[p].fds[1] = proc[p].out
          /\ Holding(p) \subseteq {1, 2, proc[p].fd}
      BY <1>1, <2>1 DEF Redirecting
    <2>3. proc'[p] = r
      BY <1>1 DEF Becomes, Inv, TypeOK
    <2>4. r.fds[r.fd] = r.out /\ r.fds[1] = r.out /\ r.fds[2] = r.out
      BY <1>2, <1>3, <1>4, <1>5, <2>2, ZenonT(60)
    <2> QED
      BY <1>5, <1>6, <2>2, <2>3, <2>4 DEF Redirecting
  <1> QED
    BY <1>1, <1>2, <1>3, <1>5, <1>7, ChildMoves

LEMMA ChildCloseInv == ASSUME Inv, NEW p \in Pids, ChildClose(p) PROVE Inv'
  <1> DEFINE fd == proc[p].fd
             table == [proc[p].fds EXCEPT ![fd] = "free"]
             r == [proc[p] EXCEPT !.pc = "exec", !.fds = table]
  <1>1. /\ proc[p].pc = "close" /\ Becomes(p, r) /\ ProgramStays /\ UNCHANGED content
    BY DEF ChildClose, ChildAt
  <1>2. /\ proc[p] \in Processes /\ proc[p].fds \in Descriptors
        /\ HasStdout /\ proc[p].out # NULL => Redirecting(p)
        /\ content \in [Outputs -> SUBSET (Pids \cup {"text"})]
        /\ 1 \in Fds /\ 2 \in Fds
    BY ChildKnows DEF Std
  <1> HIDE DEF fd
  <1>3. proc[p].status = "exit 0" => proc[p].ran
    BY DEF Inv, ChildOK
  <1>4. /\ table \in Descriptors
        /\ \A n \in Fds \ {fd} : table[n] = proc[p].fds[n]
        /\ fd \in Fds => table[fd] = "free"
    BY <1>2 DEF Descriptors
  <1>5. /\ r \in Processes /\ r.pc = "exec" /\ r.fds = table /\ r.fd = fd
        /\ r.out = proc[p].out /\ r.status = proc[p].status /\ r.ran = proc[p].ran
    BY <1>2, <1>4 DEF Processes, fd
  <1> HIDE DEF r, table
  <1>6. ASSUME r.out # "free" PROVE Holding(p)' \subseteq Holding(p) \ {fd}
    <2>1. \A k \in Fds \ {fd} : r.fds[k] = proc[p].fds[k]
      BY <1>4, <1>5
    <2>2. fd \in Fds => r.fds[fd] # r.out
      BY <1>4, <1>5, <1>6
    <2>3. r.out = proc[p].out
      BY <1>5
    <2> QED
      BY <1>1, <2>1, <2>2, <2>3, HoldingMoves
  <1>7. ASSUME HasStdout, r.out # NULL PROVE Redirecting(p)'
    <2>1. Redirecting(p)
      BY <1>2, <1>5, <1>7
    <2>2. /\ fd \notin {1, 2}
          /\ proc[p].fds[1] = proc[p].out /\ proc[p].fds[2] = proc[p].out
          /\ Holding(p) \subseteq {1, 2, fd}
      BY <1>1, <2>1 DEF Redirecting, fd
    <2>3. proc'[p] = r
      BY <1>1 DEF Becomes, Inv, TypeOK
    <2>4. r.out \in Outputs
      BY <1>2, <1>5, <1>7 DEF Processes
    <2>5. Holding(p)' \subseteq {1, 2}
      BY <1>6, <2>2, <2>4
    <2>6. r.fds[1] = r.out /\ r.fds[2] = r.out
      BY <1>2, <1>4, <1>5, <2>2
    <2> QED
      BY <1>5, <2>3, <2>5, <2>6 DEF Redirecting
  <1> QED
    BY <1>1, <1>2, <1>3, <1>5, <1>7, ChildMoves

LEMMA ExecInv == ASSUME Inv, NEW p \in Pids, Exec(p) PROVE Inv'
  <1> DEFINE r == [proc[p] EXCEPT !.pc = "command", !.unflushed = FALSE, !.ran = TRUE]
  <1>1. /\ proc[p].pc = "exec" /\ Becomes(p, r) /\ ProgramStays /\ UNCHANGED content
    BY DEF Exec, ChildAt
  <1>2. /\ proc[p] \in Processes
        /\ HasStdout /\ proc[p].out # NULL => Redirecting(p)
        /\ content \in [Outputs -> SUBSET (Pids \cup {"text"})]
    BY ChildKnows
  <1>3. /\ r \in Processes /\ r.pc = "command" /\ r.fds = proc[p].fds
        /\ r.fd = proc[p].fd /\ r.out = proc[p].out /\ r.ran
    BY <1>2 DEF Processes
  <1> HIDE DEF r
  <1>4. proc'[p] = r /\ leaked' = leaked
    BY <1>1 DEF Becomes, ProgramStays, Inv, TypeOK
  <1>5. Holding(p)' = Holding(p)
    BY <1>3, <1>4 DEF Holding
  <1>6. ASSUME HasStdout, r.out # NULL PROVE Redirecting(p)'
    <2>1. Redirecting(p)
      BY <1>2, <1>3, <1>6
    <2> QED
      BY <1>1, <1>3, <1>4, <1>5, <2>1 DEF Redirecting
  <1> QED
    BY <1>1, <1>2, <1>3, <1>6, ChildMoves

LEMMA CommandWritesInv == ASSUME Inv, NEW p \in Pids, CommandWrites(p) PROVE Inv'
  <1> DEFINE r == [proc[p] EXCEPT !.wrote = TRUE]
  <1>1. /\ proc[p].pc = "command" /\ Becomes(p, r) /\ ProgramStays
    BY DEF CommandWrites, ChildAt
  <1>2. /\ proc[p] \in Processes
        /\ HasStdout /\ proc[p].out # NULL => Redirecting(p)
        /\ content \in [Outputs -> SUBSET (Pids \cup {"text"})]
    BY ChildKnows
  <1>3. content' \in [Outputs -> SUBSET (Pids \cup {"text"})]
    BY <1>2 DEF CommandWrites
  <1>4. proc[p].ran
    BY <1>1 DEF Inv, ChildOK
  <1>5. /\ r \in Processes /\ r.pc = "command" /\ r.fds = proc[p].fds
        /\ r.fd = proc[p].fd /\ r.out = proc[p].out /\ r.ran = proc[p].ran
    BY <1>1, <1>2 DEF Processes
  <1> HIDE DEF r
  <1>6. proc'[p] = r /\ leaked' = leaked
    BY <1>1 DEF Becomes, ProgramStays, Inv, TypeOK
  <1>7. Holding(p)' = Holding(p)
    BY <1>5, <1>6 DEF Holding
  <1>8. ASSUME HasStdout, r.out # NULL PROVE Redirecting(p)'
    <2>1. Redirecting(p)
      BY <1>2, <1>5, <1>8
    <2> QED
      BY <1>1, <1>5, <1>6, <1>7, <2>1 DEF Redirecting
  <1> QED
    BY <1>1, <1>3, <1>4, <1>5, <1>8, ChildMoves

LEMMA ChildInv ==
  ASSUME Inv, NEW p \in Pids, ChildStep(p) \/ CommandWrites(p)
  PROVE  Inv'
  <1>1. CASE DupFails(p)
    BY <1>1, ChildExitInv DEF DupFails
  <1>2. CASE ExecFails(p)
    BY <1>2, ChildExitInv DEF ExecFails, ChildAt
  <1>3. CASE CommandEnds(p)
    <2>1. PICK status \in Statuses : Zombie(p, status)
      BY <1>3 DEF CommandEnds
    <2>2. proc[p].pc = "command" /\ ProgramStays /\ UNCHANGED content
      BY <1>3 DEF CommandEnds, ChildAt
    <2>3. proc[p].ran /\ content \in [Outputs -> SUBSET (Pids \cup {"text"})]
      BY <2>2 DEF Inv, ChildOK, TypeOK
    <2> QED
      BY <2>1, <2>2, <2>3, ZombieInv
  <1> QED
    BY <1>1, <1>2, <1>3, DupOutInv, DupErrInv, ChildCloseInv, ExecInv, CommandWritesInv
       DEF ChildStep

-----------------------------------------------------------------------------
LEMMA NextInv == Inv /\ [Next]_vars => Inv'
  <1> SUFFICES ASSUME Inv, [Next]_vars PROVE Inv'
    OBVIOUS
  <1>1. CASE Next
    <2>1. CASE CallStep
      BY <2>1, FlushInv, ForkInv, ForkFailsInv, CloseInv, WaitInv DEF CallStep
    <2> QED
      BY <1>1, <2>1, CallBegins, WaitFailsInv, ChildInv DEF Next
  <1>2. CASE UNCHANGED vars
    BY <1>2, ZenonT(60)
    DEF vars, Inv, TypeOK, CallOK, ChildOK, ResultTellsEnd, ForkFailed, At,
        NothingLeftBehind, ChildAt, Redirected, Redirecting, Holding, HasStdout
  <1> QED
    BY <1>1, <1>2 DEF Next

LEMMA SpecInv == Spec => []Inv
  BY InitInv, NextInv, PTL DEF Spec

\* The variables of systemcalls.c and of the processes it makes have their
\* types in every state.
THEOREM CallsTypeCorrect == Spec => []TypeOK
  <1>1. Inv => TypeOK
    BY DEF Inv
  <1> QED
    BY <1>1, SpecInv, PTL

\* do_system, do_exec and do_exec_redirect return true exactly when the command
\* was run and exited with 0; do_exec also when fork failed.
THEOREM CallsTellEnd == Spec => []ResultTellsEnd
  <1>1. Inv => ResultTellsEnd
    BY DEF Inv
  <1> QED
    BY <1>1, SpecInv, PTL

\* No call leaves a file open or a child behind, except when fork fails or
\* waitpid is interrupted.
THEOREM CallsLeaveNothing == Spec => []NothingLeftBehind
  <1>1. Inv => NothingLeftBehind
    BY DEF Inv
  <1> QED
    BY <1>1, SpecInv, PTL

\* A command that do_exec_redirect runs has its file at descriptors 1 and 2 and
\* nowhere else.
THEOREM CallsRedirect == Spec => []CommandRedirected
  <1>1. Inv => CommandRedirected
    <2> SUFFICES ASSUME Inv, HasStdout, NEW p \in Pids,
                        ChildAt(p, "command"), proc[p].out # NULL
                 PROVE  {n \in Fds \ leaked : proc[p].fds[n] = proc[p].out} = {1, 2}
      BY DEF CommandRedirected
    <2>1. Redirecting(p)
      BY DEF Inv, Redirected
    <2>2. proc[p].fds[1] = proc[p].out /\ proc[p].fds[2] = proc[p].out
          /\ Holding(p) \subseteq {1, 2}
      BY <2>1 DEF Redirecting, ChildAt
    <2>3. 1 \in Fds \ leaked /\ 2 \in Fds \ leaked
      BY DEF HasStdout, Inv, NothingLeftBehind, Std
    <2> QED
      BY <2>2, <2>3 DEF Holding
  <1> QED
    BY <1>1, SpecInv, PTL

-----------------------------------------------------------------------------
(***************************************************************************)
(* Who writes to the files.                                                *)
(***************************************************************************)

\* A process that can write no text of the program to a file.
Mute(r) ==
  IF r.out # NULL THEN ~r.unflushed
  ELSE /\ r.pc \notin {"dup out", "dup err", "close"}
       /\ r.fds[1] \notin Outputs /\ r.fds[2] \notin Outputs

\* No text of the program is on its way to a file.
TextKept ==
  /\ At("fork") /\ call.kind = "redirect" => ~unflushed
  /\ \A p \in Pids : Mute(proc[p])
  /\ \A f \in Outputs : "text" \notin content[f]

Redirects == call.kind = "redirect" /\ call.fd # -1 /\ orphans = {}

\* Who has written to the file of the call, while no other child is left that
\* could.
WrittenByChild ==
  /\ ~At("idle") => ~call.wrote
  /\ call.kind = "redirect" => call.out \in Outputs
  /\ Redirects =>
       /\ call.pc \in {"flush", "fork"} => content[call.out] = {}
       /\ content[call.out] \subseteq {call.pid}
       /\ call.wrote => call.pid \in content[call.out]
       /\ call.pc \in {"close", "wait"} =>
            /\ proc[call.pid].out = call.out
            /\ proc[call.pid].wrote => call.pid \in content[call.out]

OutInv == HasStdout => TextKept /\ WrittenByChild

LEMMA InitOut == Init => OutInv
  <1> SUFFICES ASSUME Init PROVE TextKept /\ WrittenByChild
    BY DEF OutInv
  <1>1. \A p \in Pids : Mute(proc[p])
    BY DEF Init, NoProc, Std, Mute
  <1>2. call.pc = "idle" /\ call.kind = "none"
    BY DEF Init, NoCall
  <1>3. \A f \in Outputs : content[f] = {}
    BY DEF Init
  <1>4. TextKept
    BY <1>1, <1>2, <1>3 DEF TextKept, At
  <1> QED
    BY <1>2, <1>4 DEF WrittenByChild, Redirects, At

\* The standard descriptors of the program stay what they were.
LEMMA StdoutStays == Inv /\ [Next]_vars => (HasStdout' => HasStdout)
  <1> SUFFICES ASSUME Inv, [Next]_vars, HasStdout' PROVE HasStdout
    OBVIOUS
  <1>1. fds \in Descriptors /\ 1 \in Fds /\ 2 \in Fds /\ Streams \cap Outputs = {}
        /\ "free" \notin Streams
    BY DEF Inv, TypeOK, Std, Streams
  <1>2. CASE UNCHANGED fds
    BY <1>2 DEF HasStdout
  <1>3. ASSUME NEW out \in Outputs, do_exec_redirect(out) PROVE HasStdout
    <2>1. CASE UNCHANGED fds
      BY <1>2, <2>1
    <2>2. CASE fds' = [fds EXCEPT ![Min({n \in Fds : fds[n] = "free"})] = out]
      <3> DEFINE m == Min({n \in Fds : fds[n] = "free"})
      <3>1. fds' = [fds EXCEPT ![m] = out]
        BY <2>2
      <3> HIDE DEF m
      <3>2. fds'[1] = fds[1] \/ fds'[1] = out
        BY <1>1, <3>1 DEF Descriptors
      <3>3. fds'[2] = fds[2] \/ fds'[2] = out
        BY <1>1, <3>1 DEF Descriptors
      <3> QED
        BY <1>1, <3>2, <3>3 DEF HasStdout
    <2> QED
      BY <1>3, <2>1, <2>2 DEF do_exec_redirect
  <1>4. CASE Close
    <2>1. fds' = [fds EXCEPT ![call.fd] = "free"]
      BY <1>4 DEF Close
    <2>2. fds'[1] = fds[1] \/ fds'[1] = "free"
      BY <1>1, <2>1 DEF Descriptors
    <2>3. fds'[2] = fds[2] \/ fds'[2] = "free"
      BY <1>1, <2>1 DEF Descriptors
    <2> QED
      BY <1>1, <2>2, <2>3 DEF HasStdout
  <1>5. CASE do_system \/ do_exec
    BY <1>2, <1>5 DEF do_system, do_exec
  <1>6. CASE Flush \/ ForkFails \/ Wait \/ WaitFails \/ UNCHANGED vars
    BY <1>2, <1>6 DEF Flush, ForkFails, Wait, WaitFails, vars
  <1>7. ASSUME NEW p \in Pids, Fork(p) PROVE HasStdout
    BY <1>2, <1>7 DEF Fork
  <1>8. ASSUME NEW p \in Pids, ChildStep(p) \/ CommandWrites(p) PROVE HasStdout
    BY <1>2, <1>8 DEF ChildStep, CommandWrites, DupOut, DupErr, DupFails, ChildClose,
                      Exec, ExecFails, CommandEnds, ProgramStays
  <1> QED
    BY <1>3, <1>4, <1>5, <1>6, <1>7, <1>8 DEF Next, Call, CallStep

\* Text written to a descriptor that is no file changes none.
LEMMA TextElsewhere ==
  ASSUME TypeOK, NEW table, NEW n, TextGoes(table, n), table[n] \notin Outputs
  PROVE  content' = content
  BY DEF TypeOK, TextGoes

LEMMA CallOut ==
  ASSUME Inv, HasStdout, TextKept, WrittenByChild, Call
  PROVE  TextKept' /\ WrittenByChild'
  <1>1. UNCHANGED <<unflushed, proc, orphans>>
    BY DEF Call, do_system, do_exec, do_exec_redirect
  <1>2. ASSUME call'.pc # "fork" \/ call'.kind # "redirect",
               \A f \in Outputs : content'[f] \subseteq content[f]
        PROVE  TextKept'
    BY <1>1, <1>2 DEF TextKept, At
  <1>3. CASE do_system
    <2>1. PICK status \in Statuses \cup {"none"} :
            Return([NoCall EXCEPT !.kind = "system", !.ran = status # "none",
                                  !.status = status, !.result = ResultOf(status)])
      BY <1>3 DEF do_system
    <2>2. call'.pc = "idle" /\ call'.kind = "system" /\ content' = content
      BY <1>3, <2>1 DEF Return, NoCall, do_system
    <2> QED
      BY <1>2, <2>2 DEF WrittenByChild, Redirects, At
  <1>4. CASE do_exec
    <2>1. call'.kind = "exec" /\ ~call'.wrote /\ content' = content
      BY <1>4 DEF do_exec, NoCall
    <2> QED
      BY <1>2, <2>1 DEF WrittenByChild, Redirects
  <1>5. ASSUME NEW out \in Outputs, do_exec_redirect(out)
        PROVE  TextKept' /\ WrittenByChild'
    <2> DEFINE m == Min({n \in Fds : fds[n] = "free"})
    <2>1. CASE /\ call' = [NoCall EXCEPT !.kind = "redirect", !.out = out,
                                         !.pc = "flush", !.fd = m]
               /\ content' = [content EXCEPT ![out] = {}]
      <3> HIDE DEF m
      <3>1. /\ call'.pc = "flush" /\ call'.out = out /\ ~call'.wrote
        BY <2>1 DEF NoCall
      <3>2. content'[out] = {} /\ \A f \in Outputs : content'[f] \subseteq content[f]
        BY <2>1 DEF Inv, TypeOK
      <3> QED
        BY <1>2, <3>1, <3>2 DEF WrittenByChild, At
    <2>2. CASE /\ Return([[NoCall EXCEPT !.kind = "redirect", !.out = out]
                            EXCEPT !.result = FALSE])
               /\ UNCHANGED content
      <3>1. call'.pc = "idle" /\ call'.out = out /\ call'.fd = -1
        BY <2>2 DEF Return, NoCall
      <3> QED
        BY <1>2, <2>2, <3>1 DEF WrittenByChild, Redirects, At
    <2>3. [[NoCall EXCEPT !.kind = "redirect", !.out = out] EXCEPT !.pc = "flush", !.fd = m]
            = [NoCall EXCEPT !.kind = "redirect", !.out = out, !.pc = "flush", !.fd = m]
      BY DEF NoCall
    <2> QED
      BY <1>5, <2>1, <2>2, <2>3 DEF do_exec_redirect
  <1> QED
    BY <1>3, <1>4, <1>5 DEF Call

LEMMA FlushOut ==
  ASSUME Inv, HasStdout, TextKept, WrittenByChild, Flush
  PROVE  TextKept' /\ WrittenByChild'
  <1>1. /\ At("flush") /\ unflushed' = (unflushed /\ fds[1] = "free")
        /\ IF unflushed THEN TextGoes(fds, 1) ELSE UNCHANGED content
        /\ call' = [call EXCEPT !.pc = "fork"]
        /\ UNCHANGED <<fds, proc, leaked, orphans>>
        /\ TypeOK
    BY DEF Flush, Inv
  <1>2. fds[1] # "free" /\ fds[1] \notin Outputs
    BY DEF HasStdout, Streams
  <1>3. content' = content
    BY <1>1, <1>2, TextElsewhere
  <1>4. ~unflushed'
    BY <1>1, <1>2
  <1>5. /\ call'.pc = "fork" /\ call'.kind = call.kind /\ call'.out = call.out
        /\ call'.fd = call.fd /\ call'.pid = call.pid /\ call'.wrote = call.wrote
    BY <1>1 DEF TypeOK, Calls
  <1>6. TextKept'
    BY <1>1, <1>3, <1>4 DEF TextKept
  <1>7. WrittenByChild'
    BY <1>1, <1>3, <1>5 DEF WrittenByChild, Redirects, At
  <1> QED
    BY <1>6, <1>7

LEMMA ForkOut ==
  ASSUME Inv, HasStdout, TextKept, WrittenByChild, NEW p \in Pids, Fork(p)
  PROVE  TextKept' /\ WrittenByChild'
  <1> DEFINE exec == call.kind = "exec"
             text == unflushed \/ (exec /\ Buffers)
             child == [NoProc EXCEPT !.pc = IF exec THEN "exec" ELSE "dup out",
                                     !.out = call.out, !.fd = call.fd, !.fds = fds,
                                     !.unflushed = text]
             pc == IF exec THEN "wait" ELSE "close"
  <1>1. /\ At("fork") /\ proc' = [proc EXCEPT ![p] = child]
        /\ call' = [call EXCEPT !.pc = pc, !.pid = p]
        /\ UNCHANGED <<fds, unflushed, content, leaked, orphans>>
    BY DEF Fork
  <1>2. call \in Calls /\ proc \in [Pids -> Processes]
    BY DEF Inv, TypeOK
  <1>3. call.kind = "redirect" => ~text
    BY <1>1 DEF TextKept
  <1> HIDE DEF text
  <1>4. /\ child.pc = (IF exec THEN "exec" ELSE "dup out") /\ child.out = call.out
        /\ child.fds = fds /\ child.unflushed = text /\ ~child.wrote
    BY DEF NoProc
  <1> HIDE DEF child
  <1>5. \A q \in Pids : proc'[q] = IF q = p THEN child ELSE proc[q]
    BY <1>1, <1>2
  <1>6. /\ call'.pc = pc /\ call'.pid = p /\ call'.kind = call.kind /\ call'.fd = call.fd
        /\ call'.out = call.out /\ call'.wrote = call.wrote
    BY <1>1, <1>2 DEF Calls
  <1>7. /\ call.kind = "exec" \/ call.kind = "redirect"
        /\ call.kind = "exec" => call.out = NULL
        /\ call.kind = "redirect" => call.out \in Outputs
    BY <1>1 DEF Inv, CallOK, At
  <1>8. fds[1] \notin Outputs /\ fds[2] \notin Outputs
    BY DEF HasStdout, Streams
  <1>9. Mute(child)
    <2>1. CASE call.kind = "redirect"
      BY <1>3, <1>4, <1>7, <2>1 DEF Mute
    <2>2. CASE call.kind = "exec"
      BY <1>4, <1>7, <1>8, <2>2 DEF Mute
    <2> QED
      BY <1>7, <2>1, <2>2
  <1>10. TextKept'
    BY <1>1, <1>5, <1>6, <1>9 DEF TextKept, At
  <1>11. WrittenByChild'
    <2>1. proc'[p].out = call.out /\ ~proc'[p].wrote
      BY <1>4, <1>5
    <2>2. ~call.wrote
      BY <1>1 DEF WrittenByChild, At
    <2>3. Redirects' => content[call.out] = {}
      BY <1>1, <1>6 DEF WrittenByChild, Redirects, At
    <2> QED
      BY <1>1, <1>6, <1>7, <2>1, <2>2, <2>3 DEF WrittenByChild
  <1> QED
    BY <1>10, <1>11

\* The program goes on alone, with the same files and children.
LEMMA AloneOut ==
  ASSUME Inv, HasStdout, TextKept, WrittenByChild, UNCHANGED <<proc, content>>,
         call' \in Calls, call'.pc \in {"wait", "idle"},
         call'.pc = "wait" => call.pc = "close",
         call'.kind = call.kind, call'.out = call.out, call'.fd = call.fd,
         call'.pid = call.pid, call'.wrote = call.wrote, orphans \subseteq orphans'
  PROVE  TextKept' /\ WrittenByChild'
  <1>1. TextKept'
    BY DEF TextKept, At
  <1>2. WrittenByChild'
    <2>1. Redirects' => Redirects
      BY DEF Redirects
    <2> QED
      BY <2>1 DEF WrittenByChild, At
  <1> QED
    BY <1>1, <1>2

LEMMA WaitOut ==
  ASSUME Inv, HasStdout, TextKept, WrittenByChild, Wait
  PROVE  TextKept' /\ WrittenByChild'
  <1> DEFINE child == proc[call.pid]
             result == ResultOf(child.status)
  <1>1. /\ At("wait") /\ proc' = [proc EXCEPT ![call.pid] = NoProc]
        /\ UNCHANGED <<fds, content, leaked, orphans>>
        /\ call' = [[call EXCEPT !.result = result, !.ran = child.ran,
                                 !.status = child.status, !.wrote = child.wrote]
                      EXCEPT !.pc = "idle"]
    BY DEF Wait, Return
  <1>2. call \in Calls /\ proc \in [Pids -> Processes]
    BY DEF Inv, TypeOK
  <1> HIDE DEF result
  <1>3. /\ call'.pc = "idle" /\ call'.kind = call.kind /\ call'.fd = call.fd
        /\ call'.out = call.out /\ call'.pid = call.pid /\ call'.wrote = child.wrote
    BY <1>1, <1>2 DEF Calls
  <1>4. \A q \in Pids : proc'[q] = IF q = call.pid THEN NoProc ELSE proc[q]
    BY <1>1, <1>2
  <1>5. Mute(NoProc)
    BY DEF NoProc, Std, Mute
  <1>6. TextKept'
    BY <1>1, <1>3, <1>4, <1>5 DEF TextKept, At
  <1>7. WrittenByChild'
    BY <1>1, <1>3 DEF WrittenByChild, Redirects, At
  <1> QED
    BY <1>6, <1>7

LEMMA ProgramOut ==
  ASSUME Inv, HasStdout, TextKept, WrittenByChild, CallStep \/ WaitFails
  PROVE  TextKept' /\ WrittenByChild'
  <1>1. call \in Calls
    BY DEF Inv, TypeOK
  <1>2. CASE ForkFails
    <2> DEFINE result == call.kind = "exec"
    <2>1. /\ call' = [[call EXCEPT !.result = result] EXCEPT !.pc = "idle"]
          /\ UNCHANGED <<proc, content, orphans>>
      BY <1>2 DEF ForkFails, Return
    <2>2. result \in BOOLEAN
      OBVIOUS
    <2> HIDE DEF result
    <2>3. /\ call' \in Calls /\ call'.pc = "idle"
          /\ call'.kind = call.kind /\ call'.out = call.out /\ call'.fd = call.fd
          /\ call'.pid = call.pid /\ call'.wrote = call.wrote
      BY <1>1, <2>1, <2>2 DEF Calls
    <2> QED
      BY <2>1, <2>3, AloneOut
  <1>3. CASE WaitFails
    <2>1. /\ call' = [[call EXCEPT !.result = FALSE] EXCEPT !.pc = "idle"]
          /\ UNCHANGED <<proc, content>> /\ orphans \subseteq orphans'
      BY <1>3 DEF WaitFails, Return
    <2>2. /\ call' \in Calls /\ call'.pc = "idle"
          /\ call'.kind = call.kind /\ call'.out = call.out /\ call'.fd = call.fd
          /\ call'.pid = call.pid /\ call'.wrote = call.wrote
      BY <1>1, <2>1 DEF Calls
    <2> QED
      BY <2>1, <2>2, AloneOut
  <1>4. CASE Close
    <2>1. /\ call' = [call EXCEPT !.pc = "wait"] /\ call.pc = "close"
          /\ UNCHANGED <<proc, content, orphans>>
      BY <1>4 DEF Close, At
    <2>2. /\ call' \in Calls /\ call'.pc = "wait"
          /\ call'.kind = call.kind /\ call'.out = call.out /\ call'.fd = call.fd
          /\ call'.pid = call.pid /\ call'.wrote = call.wrote
      BY <1>1, <2>1 DEF Calls
    <2> QED
      BY <2>1, <2>2, AloneOut
  <1> QED
    BY <1>2, <1>3, <1>4, FlushOut, ForkOut, WaitOut DEF CallStep

\* A child moves and writes at most to its own file.
LEMMA ChildOut ==
  ASSUME Inv, HasStdout, TextKept, WrittenByChild,
         NEW p \in Pids, NEW r, Becomes(p, r), ProgramStays, proc[p].pc # "none",
         r.out = proc[p].out, Mute(r),
         \A f \in Outputs : content[f] \subseteq content'[f]
                            /\ content'[f] \subseteq content[f] \cup {p},
         \A f \in Outputs : f # r.out => content'[f] = content[f],
         r.out \in Outputs => (r.wrote => proc[p].wrote \/ p \in content'[r.out])
  PROVE  TextKept' /\ WrittenByChild'
  <1>1. /\ UNCHANGED <<fds, unflushed, call, leaked, orphans>>
        /\ proc \in [Pids -> Processes] /\ proc' = [proc EXCEPT ![p] = r]
    BY DEF ProgramStays, Becomes, Inv, TypeOK
  <1>2. \A q \in Pids : proc'[q] = IF q = p THEN r ELSE proc[q]
    BY <1>1
  <1>3. TextKept'
    <2>1. \A q \in Pids : Mute(proc'[q])
      BY <1>2 DEF TextKept
    <2>2. \A f \in Outputs : "text" \notin content'[f]
      BY DEF TextKept
    <2> QED
      BY <1>1, <2>1, <2>2 DEF TextKept, At
  <1>4. ASSUME Redirects
        PROVE  call.pc \in {"idle", "close", "wait"} /\ ~At("idle") /\ p = call.pid
    <2>1. p \in {q \in Pids : ~ChildAt(q, "none")}
      BY DEF ChildAt
    <2>2. p \in orphans \cup (IF call.pc \in {"close", "wait"} THEN {call.pid} ELSE {})
      BY <2>1 DEF Inv, NothingLeftBehind
    <2> QED
      BY <1>4, <2>2 DEF Redirects, At
  <1>5. WrittenByChild'
    <2>1. call.kind = "redirect" => call.out \in Outputs
      BY DEF WrittenByChild
    <2>2. CASE ~Redirects
      BY <1>1, <2>2 DEF WrittenByChild, Redirects, At
    <2>3. CASE Redirects
      <3>1. /\ call.pc \in {"close", "wait"} /\ p = call.pid /\ ~call.wrote
            /\ call.out \in Outputs
        BY <1>4, <2>1, <2>3 DEF WrittenByChild, At, Redirects
      <3>2. /\ content[call.out] \subseteq {p} /\ r.out = call.out
            /\ proc[p].wrote => p \in content[call.out]
        BY <2>3, <3>1 DEF WrittenByChild
      <3>3. content'[call.out] \subseteq {p} /\ (r.wrote => p \in content'[call.out])
        BY <3>1, <3>2
      <3>4. proc'[p] = r
        BY <1>2
      <3> QED
        BY <1>1, <3>1, <3>2, <3>3, <3>4 DEF WrittenByChild, Redirects, At
    <2> QED
      BY <2>2, <2>3
  <1> QED
    BY <1>3, <1>5

\* A child that leaves writes none of the program's text to a file.
LEMMA ZombieOut ==
  ASSUME Inv, HasStdout, TextKept, WrittenByChild,
         NEW p \in Pids, NEW status, Zombie(p, status), ProgramStays,
         proc[p].pc # "none", content' = content
  PROVE  TextKept' /\ WrittenByChild'
  <1> DEFINE r == [proc[p] EXCEPT !.pc = "zombie", !.status = status,
                                  !.unflushed = FALSE, !.fds = NoProc.fds]
  <1>1. proc[p] \in Processes
    BY DEF Inv, TypeOK
  <1>2. NoProc.fds[1] = "free" /\ NoProc.fds[2] = "free"
    BY DEF NoProc, Std
  <1>3. /\ r.pc = "zombie" /\ r.out = proc[p].out /\ r.wrote = proc[p].wrote
        /\ ~r.unflushed /\ r.fds = NoProc.fds
    BY <1>1 DEF Processes
  <1>4. Becomes(p, r)
    BY DEF Zombie
  <1> HIDE DEF r
  <1>5. Mute(r)
    BY <1>2, <1>3 DEF Mute
  <1> QED
    BY <1>3, <1>4, <1>5, ChildOut

LEMMA ChildExitOut ==
  ASSUME Inv, HasStdout, TextKept, WrittenByChild,
         NEW p \in Pids, ChildExit(p), ProgramStays, proc[p].pc # "none"
  PROVE  TextKept' /\ WrittenByChild'
  <1>1. Mute(proc[p]) /\ TypeOK
    BY DEF TextKept, Inv
  <1>2. content' = content
    <2>1. CASE ~proc[p].unflushed
      BY <2>1 DEF ChildExit
    <2>2. CASE proc[p].unflushed
      <3>1. TextGoes(proc[p].fds, 1) /\ proc[p].fds[1] \notin Outputs
        BY <1>1, <2>2 DEF ChildExit, Mute
      <3> QED
        BY <1>1, <3>1, TextElsewhere
    <2> QED
      BY <2>1, <2>2
  <1>3. Zombie(p, "exit 1")
    BY DEF ChildExit
  <1> QED
    BY <1>2, <1>3, ZombieOut

LEMMA CommandWritesOut ==
  ASSUME Inv, HasStdout, TextKept, WrittenByChild, NEW p \in Pids, CommandWrites(p)
  PROVE  TextKept' /\ WrittenByChild'
  <1> DEFINE r == [proc[p] EXCEPT !.wrote = TRUE]
  <1>1. /\ proc[p].pc = "command" /\ Becomes(p, r) /\ ProgramStays
    BY DEF CommandWrites, ChildAt
  <1>2. proc[p] \in Processes /\ Mute(proc[p])
        /\ content \in [Outputs -> SUBSET (Pids \cup {"text"})]
    BY DEF Inv, TypeOK, TextKept
  <1>3. /\ r.pc = proc[p].pc /\ r.out = proc[p].out /\ r.fds = proc[p].fds
        /\ r.unflushed = proc[p].unflushed
    BY <1>2 DEF Processes
  <1> HIDE DEF r
  <1>4. Mute(r)
    BY <1>2, <1>3 DEF Mute
  <1>5. PICK n \in {1, 2} :
          content' = [f \in Outputs |-> IF proc[p].fds[n] = f THEN content[f] \cup {p}
                                                              ELSE content[f]]
    BY DEF CommandWrites
  <1>6. proc[p].fds[n] = r.out \/ proc[p].fds[n] \notin Outputs
    <2>1. CASE r.out = NULL
      BY <1>2, <1>3, <2>1 DEF Mute
    <2>2. CASE r.out # NULL
      <3>1. Redirecting(p)
        BY <1>3, <2>2 DEF Inv, Redirected
      <3> QED
        BY <1>1, <1>3, <3>1 DEF Redirecting
    <2> QED
      BY <2>1, <2>2
  <1>7. r.out \in Outputs => proc[p].fds[n] = r.out
    <2> SUFFICES ASSUME r.out \in Outputs PROVE proc[p].fds[n] = r.out
      OBVIOUS
    <2>1. Redirecting(p)
      BY <1>3 DEF Inv, Redirected
    <2> QED
      BY <1>1, <1>3, <2>1 DEF Redirecting
  <1>8. \A f \in Outputs : content[f] \subseteq content'[f]
                           /\ content'[f] \subseteq content[f] \cup {p}
    BY <1>5
  <1>9. \A f \in Outputs : f # r.out => content'[f] = content[f]
    BY <1>5, <1>6
  <1>10. r.out \in Outputs => p \in content'[r.out]
    BY <1>5, <1>7
  <1> QED
    BY <1>1, <1>3, <1>4, <1>8, <1>9, <1>10, ChildOut

\* A child on its way to its command.
LEMMA ChildGoes ==
  ASSUME Inv, HasStdout, TextKept, WrittenByChild, NEW p \in Pids,
         DupOut(p) \/ DupErr(p) \/ ChildClose(p) \/ Exec(p)
  PROVE  TextKept' /\ WrittenByChild'
  <1> DEFINE file == proc[p].fds[proc[p].fd]
             out == [proc[p] EXCEPT !.pc = "dup err", !.fds[1] = file]
             err == [proc[p] EXCEPT !.pc = "close", !.fds[2] = file]
             closed == [proc[p] EXCEPT !.pc = "exec", !.fds[proc[p].fd] = "free"]
             command == [proc[p] EXCEPT !.pc = "command", !.unflushed = FALSE, !.ran = TRUE]
  <1>1. proc[p] \in Processes /\ Mute(proc[p])
    BY DEF Inv, TypeOK, TextKept
  <1>2. /\ proc[p].pc # "none" /\ ProgramStays /\ content' = content
    BY DEF DupOut, DupErr, ChildClose, Exec, ChildAt
  <1>3. ASSUME NEW r, Becomes(p, r), r.out = proc[p].out, r.wrote = proc[p].wrote,
               r.unflushed => proc[p].unflushed, Mute(r)
        PROVE  TextKept' /\ WrittenByChild'
    BY <1>2, <1>3, ChildOut
  <1>4. CASE DupOut(p)
    <2>1. Becomes(p, out) /\ proc[p].pc = "dup out"
      BY <1>4 DEF DupOut, ChildAt
    <2>2. out.out = proc[p].out /\ out.wrote = proc[p].wrote
          /\ out.unflushed = proc[p].unflushed
      BY <1>1 DEF Processes
    <2> HIDE DEF out
    <2>3. Mute(out)
      BY <1>1, <2>1, <2>2 DEF Mute
    <2> QED
      BY <1>3, <2>1, <2>2, <2>3
  <1>5. CASE DupErr(p)
    <2>1. Becomes(p, err) /\ proc[p].pc = "dup err"
      BY <1>5 DEF DupErr, ChildAt
    <2>2. err.out = proc[p].out /\ err.wrote = proc[p].wrote
          /\ err.unflushed = proc[p].unflushed
      BY <1>1 DEF Processes
    <2> HIDE DEF err
    <2>3. Mute(err)
      BY <1>1, <2>1, <2>2 DEF Mute
    <2> QED
      BY <1>3, <2>1, <2>2, <2>3
  <1>6. CASE ChildClose(p)
    <2>1. Becomes(p, closed) /\ proc[p].pc = "close"
      BY <1>6 DEF ChildClose, ChildAt
    <2>2. closed.out = proc[p].out /\ closed.wrote = proc[p].wrote
          /\ closed.unflushed = proc[p].unflushed
      BY <1>1 DEF Processes
    <2> HIDE DEF closed
    <2>3. Mute(closed)
      BY <1>1, <2>1, <2>2 DEF Mute
    <2> QED
      BY <1>3, <2>1, <2>2, <2>3
  <1>7. CASE Exec(p)
    <2>1. Becomes(p, command)
      BY <1>7 DEF Exec
    <2>2. command.out = proc[p].out /\ command.wrote = proc[p].wrote
          /\ ~command.unflushed /\ command.pc = "command" /\ command.fds = proc[p].fds
      BY <1>1 DEF Processes
    <2> HIDE DEF command
    <2>3. Mute(command)
      BY <1>1, <2>2 DEF Mute
    <2> QED
      BY <1>3, <2>1, <2>2, <2>3
  <1> QED
    BY <1>4, <1>5, <1>6, <1>7

LEMMA NextOut == Inv /\ OutInv /\ [Next]_vars => OutInv'
  <1> SUFFICES ASSUME Inv, OutInv, [Next]_vars, HasStdout'
               PROVE  TextKept' /\ WrittenByChild'
    BY DEF OutInv
  <1>1. HasStdout /\ TextKept /\ WrittenByChild
    BY StdoutStays DEF OutInv
  <1>2. CASE Call \/ CallStep \/ WaitFails
    BY <1>1, <1>2, CallOut, ProgramOut
  <1>3. ASSUME NEW p \in Pids, ChildStep(p) \/ CommandWrites(p)
        PROVE  TextKept' /\ WrittenByChild'
    <2>1. CASE DupFails(p) \/ ExecFails(p)
      <3>1. ChildExit(p) /\ ProgramStays /\ proc[p].pc # "none"
        BY <2>1 DEF DupFails, ExecFails, ChildAt
      <3> QED
        BY <1>1, <3>1, ChildExitOut
    <2>2. CASE CommandEnds(p)
      <3>1. PICK status \in Statuses : Zombie(p, status)
        BY <2>2 DEF CommandEnds
      <3>2. proc[p].pc # "none" /\ ProgramStays /\ content' = content
        BY <2>2 DEF CommandEnds, ChildAt
      <3> QED
        BY <1>1, <3>1, <3>2, ZombieOut
    <2> QED
      BY <1>1, <1>3, <2>1, <2>2, CommandWritesOut, ChildGoes DEF ChildStep
  <1>4. CASE UNCHANGED vars
    BY <1>1, <1>4 DEF vars, TextKept, WrittenByChild, Redirects, At
  <1> QED
    BY <1>2, <1>3, <1>4 DEF Next

\* The file holds what the command of the call wrote and nothing that the
\* program had printed, whether execv succeeds or fails.
THEOREM CallsWriteOutput == Spec => []OutputIsCommands
  <1>1. Init => Inv /\ OutInv
    BY InitInv, InitOut
  <1>2. Inv /\ OutInv /\ [Next]_vars => (Inv /\ OutInv)'
    BY NextInv, NextOut
  <1>3. OutInv => OutputIsCommands
    BY DEF OutInv, OutputIsCommands, TextKept, WrittenByChild, Redirects, At
  <1> QED
    BY <1>1, <1>2, <1>3, PTL DEF Spec
===============================================================================
