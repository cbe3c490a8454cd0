------------------------------ MODULE ServerPoll ------------------------------
(***************************************************************************)
(* The poll server of server/aesdsocket.c and main.c, with the log file    *)
(* /var/tmp/aesdsocketdata, from the point where main has installed its    *)
(* signal handlers.                                                        *)
(*                                                                         *)
(* One thread waits in poll for the listening socket and for all clients,  *)
(* accepts a client into the table, reads from those that poll has marked, *)
(* appends what they send to the file, and answers each line with the file *)
(* from its beginning.                                                     *)
(*                                                                         *)
(* Clients and the signal interleave with the server's system calls.  The  *)
(* definitions whose names say what is wrong with them are faulty variants *)
(* of the one that follows them: the runs tell them from the code.         *)
(***************************************************************************)
EXTENDS Integers, Sequences, FiniteSets, SequencesExt

CONSTANTS
  Clients,    \* the connections, numbered in the order of accept
  NULL,       \* no connection: descriptor -1
  OPEN_MAX,   \* the size of the table, the listening socket included
  NL,         \* '\n'
  NUL,        \* '\0', what a hole in a file reads as
  Messages,   \* what one read of a connection may return
  MaxSends,   \* bound: the messages of all clients together
  BUFFSIZE

ASSUME PollAssumption ==
  /\ Clients \subseteq Nat
  /\ NULL \notin Clients
  /\ OPEN_MAX \in Nat \ {0}
  /\ NL # NUL
  /\ <<>> \notin Messages
  /\ \A m \in Messages : m \in Seq(ToSet(m))
  /\ MaxSends \in Nat
  /\ BUFFSIZE \in Nat \ {0}

VARIABLES
  (* the connections *)
  peer,             \* where each client is, or what became of it
  wire,             \* what a client has sent and the server has not read
  sends,            \* how many messages the clients have sent
  opened,           \* the connections that are descriptors of the process
  (* the file *)
  file,
  pos,              \* the position of log_fd
  file_size,        \* what the server takes for the size
  (* the table *)
  client,           \* client[1] to client[OPEN_MAX - 1]
  listen_revents,   \* client[0].revents
  maxi,
  nready,
  (* the process *)
  sig_triggered,    \* sigint_triggered or sigterm_triggered
  main,             \* where the server is, and its locals
  (* history *)
  received,         \* the bytes that the server has written, in order
  short             \* a write stored less than it was given

netVars == <<peer, wire, sends, opened>>
fileVars == <<file, pos, file_size, received, short>>
tableVars == <<client, listen_revents, maxi>>
vars == <<netVars, fileVars, tableVars, nready, sig_triggered, main>>

Slot == 1 .. OPEN_MAX - 1

Unused == [fd |-> NULL, revents |-> FALSE]

NewMain == [pc |-> "open", i |-> 1, rest |-> <<>>, left |-> 0, answer |-> <<>>]

\* The file is not truncated when it is opened.  The entries of the table are
\* set to -1 at the end of the start, before anyone looks at them.
Init ==
  /\ peer = [c \in Clients |-> "new"]
  /\ wire = [c \in Clients |-> <<>>]
  /\ sends = 0
  /\ opened = {}
  /\ file = <<>>
  /\ pos = 0
  /\ file_size = 0
  /\ client = [j \in Slot |-> Unused]
  /\ listen_revents = FALSE
  /\ maxi = 0
  /\ nready = 0
  /\ sig_triggered = FALSE
  /\ main = NewMain
  /\ received = <<>>
  /\ short = FALSE

At(pc) == main.pc = pc

Goto(pc) == main' = [main EXCEPT !.pc = pc]

Running == main.pc \notin {"exited", "killed"}

(***************************************************************************)
(* The clients, and the signal.                                            *)
(***************************************************************************)
Here(c) == c \in opened /\ peer[c] = "here"

\* A client sends when what it sent before was read: what TCP puts together is
\* one message of Messages.
Send(c, m) ==
  /\ Here(c)
  /\ wire[c] = <<>>
  /\ sends < MaxSends
  /\ wire' = [wire EXCEPT ![c] = m]
  /\ sends' = sends + 1
  /\ UNCHANGED <<peer, opened, fileVars, tableVars, nready, sig_triggered, main>>

\* A client closes its connection, resets it, or the network fails: the last
\* two are errors that read reports once, and what was sent is lost.
Leave(c) ==
  /\ Here(c)
  /\ \E how \in {"closed", "reset", "failed"} :
       /\ peer' = [peer EXCEPT ![c] = how]
       /\ wire' = IF how = "closed" THEN wire ELSE [wire EXCEPT ![c] = <<>>]
  /\ UNCHANGED <<sends, opened, fileVars, tableVars, nready, sig_triggered, main>>

\* SIGINT or SIGTERM: a poll that waits returns with EINTR.
Signal ==
  /\ ~sig_triggered
  /\ sig_triggered' = TRUE
  /\ IF At("poll") THEN Goto("test") /\ nready' = -1 ELSE UNCHANGED <<main, nready>>
  /\ UNCHANGED <<netVars, fileVars, tableVars>>

(***************************************************************************)
(* aesd_initialize.                                                        *)
(***************************************************************************)

\* From one call to the next; bind is followed by make_daemon after -d.
StartCalls ==
  [open |-> {"socket"}, socket |-> {"bind"}, bind |-> {"daemon", "listen"},
   listen |-> {"loop"}]

Start ==
  /\ main.pc \in DOMAIN StartCalls
  /\ \E pc \in StartCalls[main.pc] : Goto(pc)
  /\ UNCHANGED <<netVars, fileVars, tableVars, nready, sig_triggered>>

\* The server goes on as the second child: its parents have exited.
make_daemon ==
  /\ At("daemon")
  /\ Goto("listen")
  /\ UNCHANGED <<netVars, fileVars, tableVars, nready, sig_triggered>>

\* open, socket, bind, fork or setsid fails: the process ends, and the file that
\* it may have created stays.
StartFails ==
  /\ main.pc \in {"open", "socket", "bind", "daemon"}
  /\ Goto("exited")
  /\ UNCHANGED <<netVars, fileVars, tableVars, nready, sig_triggered>>

(***************************************************************************)
(* aesd_run: poll.                                                         *)
(***************************************************************************)
Ready(c) == wire[c] # <<>> \/ peer[c] # "here"

Waiting == {c \in Clients : peer[c] = "new"}

Enter ==
  /\ At("loop")
  /\ Goto("poll")
  /\ UNCHANGED <<netVars, fileVars, tableVars, nready, sig_triggered>>

\* poll looks at the listening socket and the first maxi entries; an entry
\* without a descriptor is never ready.  It waits for one that is.
PollReady ==
  /\ At("poll")
  /\ LET ready == {j \in 1 .. maxi : client[j].fd # NULL /\ Ready(client[j].fd)}
     IN  /\ ready # {} \/ Waiting # {}
         /\ listen_revents' = (Waiting # {})
         /\ client' = [j \in Slot |->
              IF j <= maxi THEN [client[j] EXCEPT !.revents = j \in ready]
                           ELSE client[j]]
         /\ nready' = Cardinality(ready) + (IF Waiting # {} THEN 1 ELSE 0)
  /\ Goto("test")
  /\ UNCHANGED <<netVars, fileVars, maxi, sig_triggered>>

\* poll fails, and not because of a signal.
PollFails ==
  /\ At("poll")
  /\ nready' = -1
  /\ Goto("test")
  /\ UNCHANGED <<netVars, fileVars, tableVars, sig_triggered>>

\* The signal is looked at after every poll.
TestIgnoresSignal ==
  /\ At("test")
  /\ main' = [main EXCEPT !.pc = IF nready = -1 THEN "loop"
                                 ELSE IF listen_revents THEN "accept"
                                 ELSE "scan",
                          !.i = 1]
  /\ UNCHANGED <<netVars, fileVars, tableVars, nready, sig_triggered>>

Test ==
  /\ At("test")
  /\ main' = [main EXCEPT !.pc = IF sig_triggered THEN "shutdown"
                                 ELSE IF nready = -1 THEN "loop"
                                 ELSE IF listen_revents THEN "accept"
                                 ELSE "scan",
                          !.i = 1]
  /\ UNCHANGED <<netVars, fileVars, tableVars, nready, sig_triggered>>

(***************************************************************************)
(* aesd_run: accept.                                                       *)
(***************************************************************************)
Available == {j \in Slot : client[j].fd = NULL}

\* accept may find no descriptor for the connection, which goes on waiting; its
\* result is not looked at.
accept(connfd) ==
  IF connfd = NULL
  THEN UNCHANGED <<peer, opened>>
  ELSE /\ peer' = [peer EXCEPT ![connfd] = "here"]
       /\ opened' = opened \cup {connfd}

AcceptKeepsMaxi ==
  /\ At("accept")
  /\ Available # {}
  /\ LET j == Min(Available)
     IN  \E connfd \in {Min(Waiting), NULL} :
           accept(connfd) /\ client' = [client EXCEPT ![j].fd = connfd]
  /\ nready' = nready - 1
  /\ Goto(IF nready' <= 0 THEN "loop" ELSE "scan")
  /\ UNCHANGED <<wire, sends, fileVars, listen_revents, maxi, sig_triggered>>

AcceptCountsMaxi ==
  /\ At("accept")
  /\ Available # {}
  /\ LET j == Min(Available)
     IN  \E connfd \in {Min(Waiting), NULL} :
           accept(connfd) /\ client' = [client EXCEPT ![j].fd = connfd]
  /\ maxi' = maxi + 1
  /\ nready' = nready - 1
  /\ Goto(IF nready' <= 0 THEN "loop" ELSE "scan")
  /\ UNCHANGED <<wire, sends, fileVars, listen_revents, sig_triggered>>

\* The connection is put into the first entry without a descriptor.
Accept ==
  /\ At("accept")
  /\ Available # {}
  /\ LET j == Min(Available)
     IN  /\ \E connfd \in {Min(Waiting), NULL} :
              /\ accept(connfd)
              /\ client' = [client EXCEPT ![j].fd = connfd]
         /\ maxi' = Max({maxi, j})
  /\ nready' = nready - 1
  /\ Goto(IF nready' <= 0 THEN "loop" ELSE "scan")
  /\ UNCHANGED <<wire, sends, fileVars, listen_revents, sig_triggered>>

\* The table is full: the server ends.
TableFull ==
  /\ At("accept")
  /\ Available = {}
  /\ \E connfd \in {Min(Waiting), NULL} : accept(connfd)
  /\ Goto("shutdown")
  /\ UNCHANGED <<wire, sends, fileVars, tableVars, nready, sig_triggered>>

(***************************************************************************)
(* aesd_run: the entries of the table.                                     *)
(***************************************************************************)
Entry == client[main.i]

Marked(j) == client[j].fd # NULL /\ client[j].revents

AfterEntryUncounted ==
  /\ main' = [main EXCEPT !.pc = "scan", !.i = @ + 1]
  /\ UNCHANGED nready

\* The next entry, unless all that were ready have been served.
AfterEntry ==
  /\ nready' = nready - 1
  /\ main' = [main EXCEPT !.pc = IF nready' <= 0 THEN "loop" ELSE "scan",
                          !.i = @ + 1]

ScanNext ==
  /\ At("scan")
  /\ main.i <= maxi => ~Marked(main.i)
  /\ main' = IF main.i <= maxi THEN [main EXCEPT !.i = @ + 1]
                               ELSE [main EXCEPT !.pc = "loop"]
  /\ UNCHANGED <<netVars, fileVars, tableVars, nready, sig_triggered>>

Reading(c) == At("scan") /\ main.i <= maxi /\ Marked(main.i) /\ c = Entry.fd

CloseKeepsEntry(c) ==
  /\ Reading(c)
  /\ peer[c] \in {"closed", "reset"} /\ wire[c] = <<>>
  /\ opened' = opened \ {c}
  /\ peer' = [peer EXCEPT ![c] = "closed"]
  /\ AfterEntry
  /\ UNCHANGED <<wire, sends, fileVars, tableVars, sig_triggered>>

\* The connection is at its end or was reset.
Close(c) ==
  /\ Reading(c)
  /\ peer[c] \in {"closed", "reset"} /\ wire[c] = <<>>
  /\ opened' = opened \ {c}
  /\ client' = [client EXCEPT ![main.i].fd = NULL]
  /\ peer' = [peer EXCEPT ![c] = "closed"]
  /\ AfterEntry
  /\ UNCHANGED <<wire, sends, fileVars, listen_revents, maxi, sig_triggered>>

\* Any other error ends the scan and leaves the entry; the socket is at its end
\* once the error was reported.
ReadFails(c) ==
  /\ Reading(c)
  /\ peer[c] = "failed"
  /\ peer' = [peer EXCEPT ![c] = "closed"]
  /\ Goto("loop")
  /\ UNCHANGED <<wire, sends, opened, fileVars, tableVars, nready, sig_triggered>>

Read(c) ==
  /\ Reading(c)
  /\ wire[c] # <<>>
  /\ wire' = [wire EXCEPT ![c] = <<>>]
  /\ main' = [main EXCEPT !.pc = "message", !.rest = wire[c]]
  /\ UNCHANGED <<peer, sends, opened, fileVars, tableVars, nready, sig_triggered>>

(***************************************************************************)
(* process_message: one line of the message at a time.                     *)
(***************************************************************************)

\* strchr finds a newline unless there is a NUL before it.
LineEnds(bytes) ==
  {k \in DOMAIN bytes : bytes[k] = NL /\ NUL \notin ToSet(SubSeq(bytes, 1, k))}

\* Up to the first newline, or all that is left.
Line(bytes) ==
  IF LineEnds(bytes) = {} THEN bytes ELSE SubSeq(bytes, 1, Min(LineEnds(bytes)))

\* The file with the bytes written at position p.
Overwritten(p, bytes) ==
  [k \in 1 .. Max({Len(file), p + Len(bytes)}) |->
     IF k \in p + 1 .. p + Len(bytes) THEN bytes[k - p]
     ELSE IF k <= Len(file) THEN file[k] ELSE NUL]

\* write( log_fd ) stores all or, on a full disk, the beginning; file_size grows
\* by the whole line.
WriteLine ==
  /\ At("message")
  /\ LET line == Line(main.rest)
         rest == SubSeq(main.rest, Len(line) + 1, Len(main.rest))
     IN  /\ \E k \in 1 .. Len(line) :
              /\ file' = Overwritten(pos, SubSeq(line, 1, k))
              /\ short' = (short \/ k < Len(line))
              /\ IF LineEnds(line) # {}
                 THEN /\ pos' = 0
                      /\ main' = [main EXCEPT !.pc = "dump", !.rest = rest,
                                              !.left = file_size + Len(line),
                                              !.answer = <<>>]
                      /\ UNCHANGED nready
                 ELSE pos' = pos + k /\ AfterEntry
         /\ file_size' = file_size + Len(line)
         /\ received' = received \o line
  /\ UNCHANGED <<netVars, tableVars, sig_triggered>>

\* A write that stores nothing fails, and the rest of the message is dropped.
WriteFails ==
  /\ At("message")
  /\ AfterEntry
  /\ UNCHANGED <<netVars, fileVars, tableVars, sig_triggered>>

(***************************************************************************)
(* dump_file_to_client.                                                    *)
(***************************************************************************)

DumpChunkOnce ==
  /\ At("dump")
  /\ main.left > 0
  /\ pos < Len(file)
  /\ LET chunk == SubSeq(file, pos + 1, Min({pos + BUFFSIZE, Len(file)}))
     IN  /\ pos' = pos + Len(chunk)
         /\ main' = [main EXCEPT !.left = 0, !.answer = chunk]
  /\ UNCHANGED <<netVars, file, file_size, received, short, tableVars, nready,
                 sig_triggered>>

\* A chunk may be longer than what is left.
DumpChunk ==
  /\ At("dump")
  /\ main.left > 0
  /\ pos < Len(file)
  /\ LET chunk == SubSeq(file, pos + 1, Min({pos + BUFFSIZE, Len(file)}))
     IN  /\ pos' = pos + Len(chunk)
         /\ main' = [main EXCEPT !.left = @ - Len(chunk), !.answer = @ \o chunk]
  /\ UNCHANGED <<netVars, file, file_size, received, short, tableVars, nready,
                 sig_triggered>>

DumpEndStays ==
  /\ At("dump")
  /\ main.left <= 0 \/ pos >= Len(file)
  /\ UNCHANGED pos
  /\ IF main.rest = <<>> THEN AfterEntry ELSE Goto("message") /\ UNCHANGED nready
  /\ UNCHANGED <<netVars, file, file_size, received, short, tableVars, sig_triggered>>

\* Back to where the next line goes, then the rest of the message.
DumpEnd ==
  /\ At("dump")
  /\ main.left <= 0 \/ pos >= Len(file)
  /\ pos' = file_size
  /\ IF main.rest = <<>> THEN AfterEntry ELSE Goto("message") /\ UNCHANGED nready
  /\ UNCHANGED <<netVars, file, file_size, received, short, tableVars, sig_triggered>>

(***************************************************************************)
(* The end of the process.                                                 *)
(***************************************************************************)

\* The process is killed: what is left of it is the file.
Killed ==
  /\ main' = [NewMain EXCEPT !.pc = "killed"]
  /\ peer' = [c \in Clients |-> IF c \in opened THEN "closed" ELSE peer[c]]
  /\ wire' = [c \in Clients |-> <<>>]
  /\ opened' = {}
  /\ pos' = 0 /\ file_size' = 0 /\ received' = <<>> /\ short' = FALSE
  /\ client' = [j \in Slot |-> Unused]
  /\ listen_revents' = FALSE /\ maxi' = 0 /\ nready' = 0
  /\ sig_triggered' = FALSE
  /\ UNCHANGED <<sends, file>>

\* At any time, for whatever reason.
Crash == Killed

\* The server is started again, with the file as it was left.
Restart ==
  /\ At("killed")
  /\ Goto("open")
  /\ UNCHANGED <<netVars, fileVars, tableVars, nready, sig_triggered>>

\* No handler for SIGPIPE: an answer to a client that is gone may be the end.
Sigpipe ==
  /\ At("dump")
  /\ main.left > 0
  /\ pos < Len(file)
  /\ peer[Entry.fd] # "here"
  /\ Killed

\* aesd_shutdown: the file is removed, and the process ends.
Shutdown ==
  /\ At("shutdown")
  /\ file' = <<>>
  /\ opened' = {}
  /\ Goto("exited")
  /\ UNCHANGED <<peer, wire, sends, pos, file_size, received, short, tableVars, nready,
                 sig_triggered>>

-----------------------------------------------------------------------------
ServerStep ==
  \/ Start \/ make_daemon \/ StartFails
  \/ Enter \/ Test \/ Accept \/ TableFull
  \/ ScanNext \/ (\E c \in Clients : Close(c) \/ ReadFails(c) \/ Read(c))
  \/ WriteLine \/ WriteFails \/ DumpChunk \/ DumpEnd \/ Shutdown

Next ==
  \/ /\ Running
     /\ \/ \E c \in Clients : Leave(c) \/ \E m \in Messages : Send(c, m)
        \/ Signal
        \/ PollReady \/ PollFails
        \/ ServerStep
        \/ Sigpipe \/ Crash
  \/ Restart

Spec == Init /\ [][Next]_vars

\* The server is scheduled, poll does not fail forever when something is ready,
\* and no client blocks the server by not reading its answers.
FairSpec == Spec /\ WF_vars(ServerStep) /\ SF_vars(PollReady)
-----------------------------------------------------------------------------
(***************************************************************************)
(* Properties.                                                             *)
(***************************************************************************)
PCs ==
  DOMAIN StartCalls \cup
    {"daemon", "loop", "poll", "test", "accept", "scan", "message", "dump",
     "shutdown", "exited", "killed"}

TypeOK ==
  /\ peer \in [Clients -> {"new", "here", "closed", "reset", "failed"}]
  /\ opened \subseteq Clients
  /\ pos \in Nat /\ file_size \in Nat
  /\ client \in [Slot -> [fd : Clients \cup {NULL}, revents : BOOLEAN]]
  /\ listen_revents \in BOOLEAN
  /\ maxi \in 0 .. OPEN_MAX - 1
  /\ nready \in -1 .. OPEN_MAX
  /\ sig_triggered \in BOOLEAN
  /\ main.pc \in PCs
  /\ main.i \in 1 .. OPEN_MAX

\* Every connection that the process has open is in the part of the table that
\* poll looks at, once, and no other: none is forgotten, none is polled after it
\* was closed.
TableHoldsConnections ==
  Running /\ ~At("shutdown") =>
    /\ {client[j].fd : j \in Slot} \ {NULL} = opened
    /\ \A j \in Slot : client[j].fd # NULL =>
         /\ j <= maxi
         /\ \A k \in Slot : client[k].fd = client[j].fd => k = j

\* The scan reads only where poll has said that it will not have to wait, also
\* in an entry that was given to a new client after poll: one silent client
\* would stop the server for everybody.  nready counts what is left to read, so
\* that the scan does not end early.
ReadsOnlyReady ==
  At("scan") =>
    /\ \A j \in main.i .. maxi : Marked(j) => Ready(client[j].fd)
    /\ nready = Cardinality({j \in main.i .. maxi : Marked(j)})

\* Without a signal the loop ends only when every entry of the table holds a
\* connection that is open: clients that came and went, or whose connection
\* failed, never make the server believe that it is full.
EndsOnlyFull ==
  At("shutdown") /\ ~sig_triggered =>
    Cardinality({client[j].fd : j \in Slot} \cap opened) = OPEN_MAX - 1

\* As long as no write was cut short, what the server has received is the
\* beginning of the file, and the next line will be put behind it.
FileHoldsReceived ==
  Running /\ ~short =>
    /\ file_size = Len(received)
    /\ IsPrefix(received, file)
    /\ ~At("dump") => pos = file_size

\* A line is answered with all that was received, the line last; if a process
\* that was killed has left a file, the rest of that may follow.
LineAnswered ==
  [][At("dump") /\ ~At("dump")' /\ Running' /\ ~short =>
       /\ Last(received) = NL
       /\ IsPrefix(received, main.answer)
       /\ IsPrefix(main.answer, file)]_vars

\* What a client has sent is read in the end, or lost with its connection,
\* however many others are ready, failing or arriving at the same time.
EveryoneServed ==
  \A c \in Clients : wire[c] # <<>> ~> wire[c] = <<>> \/ ~Running

\* Nothing but a signal can end the wait.
Idle ==
  /\ At("poll")
  /\ Waiting = {}
  /\ \A j \in 1 .. maxi : client[j].fd # NULL => ~Ready(client[j].fd)

\* A signal that interrupts poll ends the server, and so does one at any other
\* time, unless nobody has anything for the server when it comes to poll again:
\* it then waits with the signal unseen.
SignalStops ==
  /\ sig_triggered /\ At("test") ~> ~Running
  /\ sig_triggered ~> ~Running \/ Idle
===============================================================================
