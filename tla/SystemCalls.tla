------------------------------ MODULE SystemCalls ------------------------------
(***************************************************************************)
(* examples/systemcalls/systemcalls.c: a program that runs commands with   *)
(* do_system, do_exec and do_exec_redirect, one after the other.           *)
(*                                                                         *)
(* The program and the children it forks are processes of their own: each  *)
(* has its descriptors and its copy of what stdout has buffered, and their *)
(* steps interleave.  One action is one system call, with the assignments  *)
(* that follow it.                                                         *)
(*                                                                         *)
(* The definitions whose names say what is wrong with them are faulty      *)
(* variants of the one that follows them: the runs tell them from the code.*)
(***************************************************************************)
EXTENDS Integers, FiniteSets, FiniteSetsExt

CONSTANTS
  Pids,      \* the processes the kernel can make; fork fails beyond them
  Fds,       \* the descriptor numbers below the limit of a process
  Outputs,   \* the files that commands may be redirected to
  NULL       \* no file, no process

Streams == {"terminal", "pipe"}

Std == {0, 1, 2}

ASSUME SystemAssumption ==
  /\ Fds \subseteq Nat /\ Std \subseteq Fds
  /\ NULL \notin Outputs \cup Pids
  /\ Outputs \cap (Streams \cup {"free"}) = {}
  /\ "text" \notin Pids

VARIABLES
  fds,         \* the program's descriptors
  unflushed,   \* stdout of the program has buffered text
  call,        \* the call under way, or what is left of the last one
  proc,        \* the children
  content,     \* who has written to an output since a call opened it
  leaked,      \* history: descriptors that ForkFails left open
  orphans      \* history: children that WaitFails left alone

vars == <<fds, unflushed, call, proc, content, leaked, orphans>>

\* A call, with what its child did as history: whether execv ran the command,
\* how the child ended, and whether the command wrote anything.
NoCall == [pc |-> "idle", kind |-> "none", out |-> NULL, fd |-> -1, pid |-> NULL,
           result |-> TRUE, ran |-> FALSE, status |-> "none", wrote |-> FALSE]

NoProc == [pc |-> "none", out |-> NULL, fd |-> -1, fds |-> [n \in Fds |-> "free"],
           unflushed |-> FALSE, ran |-> FALSE, status |-> "none", wrote |-> FALSE]

\* A program may be started without a standard output or error.
Init ==
  /\ \E out \in Streams \cup {"free"}, err \in {"terminal", "free"} :
       fds = [n \in Fds |-> IF n = 0 THEN "terminal"
                            ELSE IF n = 1 THEN out
                            ELSE IF n = 2 THEN err ELSE "free"]
  /\ unflushed = FALSE
  /\ call = NoCall
  /\ proc = [p \in Pids |-> NoProc]
  /\ content = [f \in Outputs |-> {}]
  /\ leaked = {}
  /\ orphans = {}

At(pc) == call.pc = pc

Return(c) == call' = [c EXCEPT !.pc = "idle"]

\* printf: a terminal gets each line at once.
Buffers == fds[1] # "terminal"

Statuses == {"exit 0", "exit 1", "killed"}

ResultOfAnyExit(status) == status # "exit 1"

\* WIFEXITED and WEXITSTATUS.
ResultOf(status) == status = "exit 0"

\* Text that a process writes out through descriptor n of the table.
TextGoes(table, n) ==
  content' = [f \in Outputs |-> IF table[n] = f THEN content[f] \cup {"text"}
                                                ELSE content[f]]

-----------------------------------------------------------------------------
(***************************************************************************)
(* The program.                                                            *)
(***************************************************************************)

\* system() forks, waits and gives -1 when it cannot.
do_system ==
  /\ At("idle")
  /\ \E status \in Statuses \cup {"none"} :
       Return([NoCall EXCEPT !.kind = "system", !.ran = status # "none",
                             !.status = status, !.result = ResultOf(status)])
  /\ UNCHANGED <<fds, unflushed, proc, content, leaked, orphans>>

do_exec ==
  /\ At("idle")
  /\ call' = [NoCall EXCEPT !.pc = "fork", !.kind = "exec"]
  /\ UNCHANGED <<fds, unflushed, proc, content, leaked, orphans>>

\* do_exec_redirect opens the file first, which may fail.
do_exec_redirect(out) ==
  /\ At("idle")
  /\ LET c == [NoCall EXCEPT !.kind = "redirect", !.out = out]
         free == {n \in Fds : fds[n] = "free"}
     IN  \/ /\ free # {}
            /\ fds' = [fds EXCEPT ![Min(free)] = out]
            /\ call' = [c EXCEPT !.pc = "flush", !.fd = Min(free)]
            /\ content' = [content EXCEPT ![out] = {}]
         \/ /\ Return([c EXCEPT !.result = FALSE])
            /\ UNCHANGED <<fds, content>>
  /\ UNCHANGED <<unflushed, proc, leaked, orphans>>

FlushSkipped ==
  /\ At("flush")
  /\ call' = [call EXCEPT !.pc = "fork"]
  /\ UNCHANGED <<fds, unflushed, content, proc, leaked, orphans>>

\* fflush(stdout) keeps the text when there is nowhere to write it.
Flush ==
  /\ At("flush")
  /\ unflushed' = (unflushed /\ fds[1] = "free")
  /\ IF unflushed THEN TextGoes(fds, 1) ELSE UNCHANGED content
  /\ call' = [call EXCEPT !.pc = "fork"]
  /\ UNCHANGED <<fds, proc, leaked, orphans>>

\* fork: the child has a copy of everything.  The child of do_exec prints.
Fork(p) ==
  /\ At("fork")
  /\ proc[p].pc = "none"
  /\ LET exec == call.kind = "exec"
     IN  /\ proc' = [proc EXCEPT ![p] =
              [NoProc EXCEPT !.pc = IF exec THEN "exec" ELSE "dup out",
                             !.out = call.out, !.fd = call.fd, !.fds = fds,
                             !.unflushed = unflushed \/ (exec /\ Buffers)]]
         /\ call' = [call EXCEPT !.pc = IF exec THEN "wait" ELSE "close", !.pid = p]
  /\ UNCHANGED <<fds, unflushed, content, leaked, orphans>>

\* do_exec goes to its end with result still true, do_exec_redirect with its
\* file open.
ForkFails ==
  /\ At("fork")
  /\ Return([call EXCEPT !.result = call.kind = "exec"])
  /\ leaked' = leaked \cup ({call.fd} \ {-1})
  /\ UNCHANGED <<fds, unflushed, proc, content, orphans>>

CloseSkipped ==
  /\ At("close")
  /\ call' = [call EXCEPT !.pc = "wait"]
  /\ UNCHANGED <<fds, unflushed, proc, content, leaked, orphans>>

Close ==
  /\ At("close")
  /\ fds' = [fds EXCEPT ![call.fd] = "free"]
  /\ call' = [call EXCEPT !.pc = "wait"]
  /\ UNCHANGED <<unflushed, proc, content, leaked, orphans>>

\* do_exec prints what waitpid returned.
Prints == unflushed' = (unflushed \/ (call.kind = "exec" /\ Buffers))

\* waitpid returns when the child has ended.
Wait ==
  /\ At("wait")
  /\ LET child == proc[call.pid]
     IN  /\ child.pc = "zombie"
         /\ Return([call EXCEPT !.result = ResultOf(child.status), !.ran = child.ran,
                                !.status = child.status, !.wrote = child.wrote])
  /\ proc' = [proc EXCEPT ![call.pid] = NoProc]
  /\ Prints
  /\ UNCHANGED <<fds, content, leaked, orphans>>

\* A signal that the program handles ends the wait.
WaitFails ==
  /\ At("wait")
  /\ Return([call EXCEPT !.result = FALSE])
  /\ orphans' = orphans \cup {call.pid}
  /\ Prints
  /\ UNCHANGED <<fds, proc, content, leaked>>

-----------------------------------------------------------------------------
(***************************************************************************)
(* A child, until it is the command.                                       *)
(***************************************************************************)
ChildAt(p, pc) == proc[p].pc = pc

Becomes(p, r) == proc' = [proc EXCEPT ![p] = r]

ProgramStays == UNCHANGED <<fds, unflushed, call, leaked, orphans>>

\* The kernel closes the descriptors of a process that ends.
Zombie(p, status) ==
  Becomes(p, [proc[p] EXCEPT !.pc = "zombie", !.status = status,
                             !.unflushed = FALSE, !.fds = NoProc.fds])

\* exit( EXIT_FAILURE ) writes out what stdout has buffered, the text that was
\* there at the fork included.
ChildExit(p) ==
  /\ Zombie(p, "exit 1")
  /\ IF proc[p].unflushed THEN TextGoes(proc[p].fds, 1) ELSE UNCHANGED content

\* dup2( fd, 1 ), then dup2( fd, 2 ).
DupOut(p) ==
  /\ ChildAt(p, "dup out")
  /\ Becomes(p, [proc[p] EXCEPT !.pc = "dup err", !.fds[1] = proc[p].fds[proc[p].fd]])
  /\ ProgramStays /\ UNCHANGED content

DupErrSkipped(p) ==
  /\ ChildAt(p, "dup err")
  /\ Becomes(p, [proc[p] EXCEPT !.pc = "close"])
  /\ ProgramStays /\ UNCHANGED content

DupErr(p) ==
  /\ ChildAt(p, "dup err")
  /\ Becomes(p, [proc[p] EXCEPT !.pc = "close", !.fds[2] = proc[p].fds[proc[p].fd]])
  /\ ProgramStays /\ UNCHANGED content

DupFails(p) ==
  /\ proc[p].pc \in {"dup out", "dup err"}
  /\ ChildExit(p)
  /\ ProgramStays

\* close( fd ), also when fd is 1 or 2.
ChildClose(p) ==
  /\ ChildAt(p, "close")
  /\ Becomes(p, [proc[p] EXCEPT !.pc = "exec", !.fds[proc[p].fd] = "free"])
  /\ ProgramStays /\ UNCHANGED content

\* execv: what stdout had buffered is gone with the program's memory.
Exec(p) ==
  /\ ChildAt(p, "exec")
  /\ Becomes(p, [proc[p] EXCEPT !.pc = "command", !.unflushed = FALSE, !.ran = TRUE])
  /\ ProgramStays /\ UNCHANGED content

ExecFailsReturns(p) ==
  /\ ChildAt(p, "exec")
  /\ Becomes(p, [proc[p] EXCEPT !.pc = "program"])
  /\ ProgramStays /\ UNCHANGED content

ExecFails(p) ==
  /\ ChildAt(p, "exec")
  /\ ChildExit(p)
  /\ ProgramStays

(***************************************************************************)
(* The command.                                                            *)
(***************************************************************************)
CommandWrites(p) ==
  /\ ChildAt(p, "command")
  /\ \E n \in {1, 2} :
       content' = [f \in Outputs |-> IF proc[p].fds[n] = f THEN content[f] \cup {p}
                                                           ELSE content[f]]
  /\ Becomes(p, [proc[p] EXCEPT !.wrote = TRUE])
  /\ ProgramStays

CommandEnds(p) ==
  /\ ChildAt(p, "command")
  /\ \E status \in Statuses : Zombie(p, status)
  /\ ProgramStays /\ UNCHANGED content

-----------------------------------------------------------------------------
Call == do_system \/ do_exec \/ \E out \in Outputs : do_exec_redirect(out)

CallStep ==
  Flush \/ (\E p \in Pids : Fork(p)) \/ ForkFails \/ Close \/ Wait

ChildStep(p) ==
  \/ DupOut(p) \/ DupErr(p) \/ DupFails(p) \/ ChildClose(p)
  \/ Exec(p) \/ ExecFails(p) \/ CommandEnds(p)

Next ==
  \/ Call
  \/ CallStep
  \/ WaitFails
  \/ \E p \in Pids : ChildStep(p) \/ CommandWrites(p)

Spec == Init /\ [][Next]_vars

\* The processes are scheduled, and every command ends.
FairSpec == Spec /\ WF_vars(CallStep) /\ \A p \in Pids : WF_vars(ChildStep(p))
-----------------------------------------------------------------------------
(***************************************************************************)
(* Properties.                                                             *)
(***************************************************************************)
Descriptors == [Fds -> Streams \cup Outputs \cup {"free"}]

Calls ==
  [pc : {"idle", "flush", "fork", "close", "wait"},
   kind : {"none", "system", "exec", "redirect"}, out : Outputs \cup {NULL},
   fd : Fds \cup {-1}, pid : Pids \cup {NULL}, result : BOOLEAN, ran : BOOLEAN,
   status : Statuses \cup {"none"}, wrote : BOOLEAN]

Processes ==
  [pc : {"none", "dup out", "dup err", "close", "exec", "command", "zombie"},
   out : Outputs \cup {NULL}, fd : Fds \cup {-1}, fds : Descriptors,
   unflushed : BOOLEAN, ran : BOOLEAN, status : Statuses \cup {"none"},
   wrote : BOOLEAN]

TypeOK ==
  /\ fds \in Descriptors
  /\ unflushed \in BOOLEAN
  /\ call \in Calls
  /\ proc \in [Pids -> Processes]
  /\ content \in [Outputs -> SUBSET (Pids \cup {"text"})]
  /\ leaked \subseteq Fds
  /\ orphans \subseteq Pids

ForkFailed == call.kind = "exec" /\ call.pid = NULL

\* A call returns true when its command was run and exited with 0, and only
\* then: not when the command was killed, nor when execv failed in the child.
\* The one exception is do_exec when fork fails.
ResultTellsEnd ==
  At("idle") /\ call.kind # "none" =>
    (call.result <=> (call.ran /\ call.status = "exit 0") \/ ForkFailed)

\* Between calls no output is open and no child is left, other than those of a
\* failed fork and of an interrupted wait; a call has its own and no more.
NothingLeftBehind ==
  /\ {n \in Fds : fds[n] \in Outputs}
       = leaked \cup (IF call.pc \in {"flush", "fork", "close"} THEN {call.fd} \ {-1}
                                                                ELSE {})
  /\ {p \in Pids : ~ChildAt(p, "none")}
       = orphans \cup (IF call.pc \in {"close", "wait"} THEN {call.pid} ELSE {})

\* The program was started with a standard output and error.
HasStdout == fds[1] \in Streams /\ fds[2] \in Streams

\* A redirected command finds its file at 1 and 2, and at no other number that
\* the call could have closed.
CommandRedirected ==
  HasStdout =>
    \A p \in Pids :
      ChildAt(p, "command") /\ proc[p].out # NULL =>
        {n \in Fds \ leaked : proc[p].fds[n] = proc[p].out} = {1, 2}

\* The file holds what the command wrote, and nothing that the program had
\* printed before: also not when execv fails and the child exits with a copy
\* of the program's stdout.
OutputIsCommands ==
  HasStdout =>
    /\ \A f \in Outputs : "text" \notin content[f]
    /\ At("idle") /\ call.kind = "redirect" /\ call.fd # -1 /\ orphans = {} =>
         /\ content[call.out] \subseteq {call.pid}
         /\ call.wrote => call.pid \in content[call.out]

\* Every call returns, whatever fails in the child: none is left waiting for a
\* child that went back into the program.
CallsReturn == call.pc # "idle" ~> call.pc = "idle"
===============================================================================
