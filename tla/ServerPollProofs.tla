---------------------------- MODULE ServerPollProofs ----------------------------
(***************************************************************************)
(* The poll server: its table holds its connections, the scan never waits, *)
(* and the file and the answers hold what was received, for any number of  *)
(* clients and entries, any messages and any BUFFSIZE, through crashes and *)
(* restarts.                                                               *)
(***************************************************************************)
EXTENDS ServerPoll, FiniteSetTheorems, SequenceTheorems, WellFoundedInduction, TLAPS

USE PollAssumption

(***************************************************************************)
(* The inductive invariant.                                                *)
(***************************************************************************)
Bytes == (UNION {ToSet(m) : m \in Messages}) \cup {NUL}

Mains == [pc : PCs, i : 1 .. OPEN_MAX, rest : Seq(Bytes), left : Int, answer : Seq(Bytes)]

Types ==
  /\ TypeOK
  /\ wire \in [Clients -> Seq(Bytes)]
  /\ file \in Seq(Bytes) /\ received \in Seq(Bytes)
  /\ short \in BOOLEAN
  /\ main \in Mains

\* While the server serves, or could be started again.
Alive == main.pc \notin {"shutdown", "exited"}

\* TableHoldsConnections, with what it needs of the entries behind maxi and of
\* the clients that were never accepted.
TableOK ==
  Alive =>
    /\ {client[j].fd : j \in Slot} \ {NULL} = opened
    /\ \A j \in Slot : client[j].fd # NULL =>
         j <= maxi /\ \A k \in Slot : client[k].fd = client[j].fd => k = j
    /\ \A j \in Slot : j > maxi => ~client[j].revents
    /\ \A c \in opened : peer[c] # "new"

\* What poll has left to do, from entry n on.
Marks(n) == {j \in n .. maxi : Marked(j)}

\* ReadsOnlyReady from poll on, also while an entry is being served.
MarksOK ==
  /\ At("accept") \/ (At("test") /\ nready # -1) =>
       /\ \A j \in 1 .. maxi : client[j].revents => client[j].fd # NULL /\ Ready(client[j].fd)
       /\ nready = Cardinality(Marks(1)) + (IF listen_revents THEN 1 ELSE 0)
       /\ listen_revents => Waiting # {}
  /\ At("accept") => listen_revents /\ main.i = 1
  /\ main.pc \in {"scan", "message", "dump"} =>
       /\ \A j \in Marks(main.i) : Ready(client[j].fd) \/ (j = main.i /\ ~At("scan"))
       /\ nready = Cardinality(Marks(main.i))
  /\ main.pc \in {"message", "dump"} => main.i <= maxi /\ Marked(main.i)

\* FileHoldsReceived, and what a dump has sent so far.
FileOK ==
  main.pc # "exited" =>
    /\ file_size = Len(received)
    /\ ~short => IsPrefix(received, file)
    /\ ~short /\ ~At("dump") => pos = file_size
    /\ At("message") => main.rest # <<>>
    /\ At("dump") =>
         /\ pos <= Len(file) /\ main.answer = SubSeq(file, 1, pos)
         /\ main.left = file_size - pos
         /\ received # <<>> /\ Last(received) = NL

PollInv == Types /\ TableOK /\ MarksOK /\ FileOK /\ EndsOnlyFull

-----------------------------------------------------------------------------
(***************************************************************************)
(* The operators.                                                          *)
(***************************************************************************)

\* The first client that waits, the first free entry and the first newline exist.
LEMMA MinInSet ==
  ASSUME NEW S, S \subseteq Nat, S # {}
  PROVE  Min(S) \in S /\ \A y \in S : Min(S) =< y
  <1> DEFINE R == OpToRel(<, Nat)
  <1>1. \A k, n \in Nat : k < n => <<k, n>> \in R
    BY ZenonT(30) DEF OpToRel
  <1>2. IsWellFoundedOn(R, Nat)
    BY NatLessThanWellFounded
  <1> HIDE DEF R
  <1>3. PICK x \in S : \A y \in S : ~ (<<y, x>> \in R)
    BY <1>2, WFMin
  <1>4. \A y \in S : x \in Nat /\ y \in Nat /\ ~ (y < x)
    BY <1>1, <1>3
  <1>5. \A y \in S : x =< y
    BY <1>4
  <1> QED
    BY <1>5 DEF Min

LEMMA MaxOfTwo ==
  ASSUME NEW p \in Int, NEW q \in Int
  PROVE  Max({p, q}) = IF p < q THEN q ELSE p
  <1> DEFINE r == IF p < q THEN q ELSE p
  <1>1. r \in {p, q} /\ \A y \in {p, q} : r >= y
    OBVIOUS
  <1>2. \A x \in {p, q} : (\A y \in {p, q} : x >= y) => x = r
    OBVIOUS
  <1> QED
    BY <1>1, <1>2 DEF Max

LEMMA MinOfTwo ==
  ASSUME NEW p \in Int, NEW q \in Int
  PROVE  Min({p, q}) = IF p < q THEN p ELSE q
  <1> DEFINE r == IF p < q THEN p ELSE q
  <1>1. r \in {p, q} /\ \A y \in {p, q} : r =< y
    OBVIOUS
  <1>2. \A x \in {p, q} : (\A y \in {p, q} : x =< y) => x = r
    OBVIOUS
  <1> QED
    BY <1>1, <1>2 DEF Min

\* A prefix, byte by byte.
LEMMA PrefixPointwise ==
  ASSUME NEW s \in Seq(Bytes), NEW t \in Seq(Bytes)
  PROVE  IsPrefix(s, t) <=> Len(s) <= Len(t) /\ \A k \in 1 .. Len(s) : s[k] = t[k]
  <1>1. Len(s) \in Nat /\ Len(t) \in Nat
    OBVIOUS
  <1>2. ASSUME Len(s) <= Len(t)
        PROVE  SubSeq(s, 1, Len(s)) = SubSeq(t, 1, Len(s)) <=>
                 \A k \in 1 .. Len(s) : s[k] = t[k]
    <2>1. SubSeq(s, 1, Len(s)) = s
      BY SubSeqFull
    <2>2. /\ SubSeq(t, 1, Len(s)) \in Seq(Bytes)
          /\ Len(SubSeq(t, 1, Len(s))) = Len(s)
          /\ \A k \in 1 .. Len(s) : SubSeq(t, 1, Len(s))[k] = t[k]
      <3>1. \A k \in 1 .. Len(s) : t[k] \in Bytes
        BY <1>1, <1>2, ElementOfSeq
      <3> QED
        BY <1>1, <3>1, SubSeqProperties
    <2>3. s = SubSeq(t, 1, Len(s)) <=> \A k \in 1 .. Len(s) : s[k] = SubSeq(t, 1, Len(s))[k]
      BY <2>2, SeqEqual
    <2> QED
      BY <2>1, <2>2, <2>3
  <1> QED
    BY <1>1, <1>2 DEF IsPrefix

LEMMA SubSeqOfBytes ==
  ASSUME NEW s \in Seq(Bytes), NEW m \in Nat \ {0}, NEW n \in Nat, n <= Len(s)
  PROVE  /\ SubSeq(s, m, n) \in Seq(Bytes)
         /\ Len(SubSeq(s, m, n)) = IF m <= n THEN n - m + 1 ELSE 0
         /\ \A k \in 1 .. n - m + 1 : SubSeq(s, m, n)[k] = s[m + k - 1]
  <1>1. \A k \in m .. n : s[k] \in Bytes
    BY ElementOfSeq
  <1> QED
    BY <1>1, SubSeqProperties

LEMMA MessageOfBytes ==
  ASSUME NEW m \in Messages
  PROVE  m \in Seq(Bytes) /\ m # <<>>
  <1>1. m \in Seq(ToSet(m)) /\ m # <<>>
    BY PollAssumption
  <1>2. ToSet(m) \subseteq Bytes
    BY DEF Bytes
  <1> QED
    BY <1>1, <1>2, SeqMonotonic

\* What process_message writes at once: a beginning of what is left, never
\* nothing, up to a newline if it looks for one.
LEMMA LineOfBytes ==
  ASSUME NEW bytes \in Seq(Bytes), bytes # <<>>
  PROVE  /\ Line(bytes) \in Seq(Bytes)
         /\ Len(Line(bytes)) \in 1 .. Len(bytes)
         /\ LineEnds(Line(bytes)) # {} => Line(bytes)[Len(Line(bytes))] = NL
         /\ LineEnds(Line(bytes)) = {} => Line(bytes) = bytes
  <1>1. Len(bytes) \in Nat \ {0}
    BY EmptySeq
  <1>2. CASE LineEnds(bytes) = {}
    BY <1>1, <1>2 DEF Line
  <1>3. CASE LineEnds(bytes) # {}
    <2> DEFINE n == Min(LineEnds(bytes))
               line == Line(bytes)
    <2>1. DOMAIN bytes = 1 .. Len(bytes)
      BY LenProperties
    <2>2. LineEnds(bytes) \subseteq 1 .. Len(bytes)
      BY <2>1 DEF LineEnds
    <2>3. LineEnds(bytes) \subseteq Nat
      BY <1>1, <2>2
    <2>4. n \in LineEnds(bytes)
      BY <1>3, <2>3, MinInSet
    <2>5. n \in 1 .. Len(bytes) /\ bytes[n] = NL /\ NUL \notin ToSet(SubSeq(bytes, 1, n))
      BY <2>2, <2>4 DEF LineEnds
    <2>6. line = SubSeq(bytes, 1, n)
      BY <1>3 DEF Line
    <2> HIDE DEF n, line
    <2>7. line \in Seq(Bytes) /\ Len(line) = n /\ \A k \in 1 .. n : line[k] = bytes[k]
      BY <1>1, <2>5, <2>6, SubSeqOfBytes
    <2>8. n \in LineEnds(line)
      <3>1. DOMAIN line = 1 .. n
        BY <2>7, LenProperties
      <3>2. SubSeq(line, 1, n) = line
        BY <2>7, SubSeqFull
      <3>3. NUL \notin ToSet(SubSeq(line, 1, n))
        BY <2>5, <2>6, <3>2
      <3>4. n \in 1 .. n /\ line[n] = NL
        BY <1>1, <2>5, <2>7
      <3> QED
        BY <3>1, <3>3, <3>4 DEF LineEnds
    <2>9. line[Len(line)] = NL
      BY <1>1, <2>5, <2>7
    <2> QED
      BY <2>5, <2>7, <2>8, <2>9 DEF line
  <1> QED
    BY <1>2, <1>3

\* The file after a write: as long as the old file and the bytes need, with the
\* bytes at their place.
LEMMA OverwrittenBytes ==
  ASSUME file \in Seq(Bytes), NEW p \in Nat, NEW bytes \in Seq(Bytes)
  PROVE  /\ Overwritten(p, bytes) \in Seq(Bytes)
         /\ Len(Overwritten(p, bytes)) =
              IF Len(file) < p + Len(bytes) THEN p + Len(bytes) ELSE Len(file)
         /\ \A k \in 1 .. Len(bytes) : Overwritten(p, bytes)[p + k] = bytes[k]
         /\ \A k \in 1 .. Len(file) : k <= p => Overwritten(p, bytes)[k] = file[k]
  <1> DEFINE n == Max({Len(file), p + Len(bytes)})
             new == Overwritten(p, bytes)
  <1>1. Len(file) \in Nat /\ Len(bytes) \in Nat
    OBVIOUS
  <1>2. n = IF Len(file) < p + Len(bytes) THEN p + Len(bytes) ELSE Len(file)
    BY <1>1, MaxOfTwo
  <1>3. new = [k \in 1 .. n |->
                 IF k \in p + 1 .. p + Len(bytes) THEN bytes[k - p]
                 ELSE IF k <= Len(file) THEN file[k] ELSE NUL]
    BY DEF Overwritten
  <1> HIDE DEF n, new
  <1>4. n \in Nat
    BY <1>1, <1>2
  <1>5. ASSUME NEW k \in 1 .. n
        PROVE  new[k] \in Bytes
    <2>1. CASE k \in p + 1 .. p + Len(bytes)
      <3>1. k - p \in 1 .. Len(bytes)
        BY <1>1, <2>1
      <3>2. new[k] = bytes[k - p]
        BY <1>3, <2>1
      <3> QED
        BY <3>1, <3>2, ElementOfSeq
    <2>2. CASE k \notin p + 1 .. p + Len(bytes) /\ k <= Len(file)
      <3>1. new[k] = file[k]
        BY <1>3, <2>2
      <3> QED
        BY <1>1, <1>4, <2>2, <3>1, ElementOfSeq
    <2>3. CASE k \notin p + 1 .. p + Len(bytes) /\ ~ (k <= Len(file))
      BY <1>3, <2>3 DEF Bytes
    <2> QED
      BY <2>1, <2>2, <2>3
  <1>6. new \in [1 .. n -> Bytes]
    BY <1>3, <1>5
  <1>7. new \in Seq(Bytes)
    BY <1>4, <1>6, SeqDef
  <1>8. Len(new) = n
    BY <1>4, <1>6, <1>7, LenProperties
  <1>9. \A k \in 1 .. Len(bytes) : new[p + k] = bytes[k]
    <2> TAKE k \in 1 .. Len(bytes)
    <2>1. p + k \in 1 .. n /\ p + k \in p + 1 .. p + Len(bytes) /\ (p + k) - p = k
      BY <1>1, <1>2
    <2> QED
      BY <1>3, <2>1
  <1>10. \A k \in 1 .. Len(file) : k <= p => new[k] = file[k]
    <2> SUFFICES ASSUME NEW k \in 1 .. Len(file), k <= p
                 PROVE  new[k] = file[k]
      OBVIOUS
    <2>1. k \in 1 .. n /\ k \notin p + 1 .. p + Len(bytes) /\ k <= Len(file)
      BY <1>1, <1>2
    <2> QED
      BY <1>3, <2>1
  <1> QED
    BY <1>2, <1>7, <1>8, <1>9, <1>10 DEF new

\* The entries that the scan has still to serve are counted down one by one.
LEMMA MarksFinite ==
  ASSUME maxi \in Nat, NEW n \in Nat \ {0}
  PROVE  /\ IsFiniteSet(Marks(n)) /\ Cardinality(Marks(n)) \in Nat
         /\ Cardinality(Marks(n)) <= maxi
  <1>1. /\ IsFiniteSet(n .. maxi)
        /\ Cardinality(n .. maxi) = IF n > maxi THEN 0 ELSE maxi - n + 1
    BY FS_Interval
  <1>2. Marks(n) \in SUBSET (n .. maxi)
    BY DEF Marks
  <1>3. IsFiniteSet(Marks(n)) /\ Cardinality(Marks(n)) <= Cardinality(n .. maxi)
    BY <1>1, <1>2, FS_Subset
  <1>4. Cardinality(Marks(n)) \in Nat
    BY <1>3, FS_CardinalityType
  <1> QED
    BY <1>1, <1>3, <1>4

LEMMA MarksStep ==
  ASSUME maxi \in Nat, NEW n \in Nat \ {0}
  PROVE  /\ n > maxi => Marks(n) = {} /\ Cardinality(Marks(n)) = 0
         /\ n <= maxi /\ ~Marked(n) => Marks(n) = Marks(n + 1)
         /\ n <= maxi /\ Marked(n) =>
              Cardinality(Marks(n)) = Cardinality(Marks(n + 1)) + 1
  <1>1. ASSUME n > maxi
        PROVE  Marks(n) = {} /\ Cardinality(Marks(n)) = 0
    <2>1. Marks(n) = {}
      BY <1>1 DEF Marks
    <2> QED
      BY <2>1, FS_EmptySet
  <1>2. ASSUME n <= maxi, ~Marked(n)
        PROVE  Marks(n) = Marks(n + 1)
    BY <1>2 DEF Marks
  <1>3. ASSUME n <= maxi, Marked(n)
        PROVE  Cardinality(Marks(n)) = Cardinality(Marks(n + 1)) + 1
    <2>1. Marks(n) = Marks(n + 1) \cup {n} /\ n \notin Marks(n + 1)
      BY <1>3 DEF Marks
    <2>2. IsFiniteSet(Marks(n + 1))
      BY MarksFinite
    <2> QED
      BY <2>1, <2>2, FS_AddElement
  <1> QED
    BY <1>1, <1>2, <1>3

-----------------------------------------------------------------------------
(***************************************************************************)
(* What several actions have in common.                                    *)
(***************************************************************************)
LEMMA GotoTyped ==
  ASSUME Types, NEW pc \in PCs, Goto(pc)
  PROVE  /\ main' \in Mains /\ main'.pc = pc
         /\ main'.i = main.i /\ main'.rest = main.rest
         /\ main'.left = main.left /\ main'.answer = main.answer
  BY DEF Types, Mains, Goto

\* The entries and the connections stay, and no connection becomes a new one.
LEMMA TableStays ==
  ASSUME TableOK, UNCHANGED <<client, maxi, opened>>, Alive' => Alive,
         \A c \in opened : peer[c] # "new" => peer'[c] # "new"
  PROVE  TableOK'
  BY DEF TableOK

\* Outside poll and the scan there is nothing to say about what is ready.
LEMMA NoMarks ==
  ASSUME main'.pc \notin {"accept", "test", "scan", "message", "dump"}
  PROVE  MarksOK'
  BY DEF MarksOK, At

LEMMA FileStays ==
  ASSUME FileOK, UNCHANGED fileVars, main.pc # "exited" \/ main'.pc = "exited",
         main'.pc \notin {"message", "dump"}, main.pc # "dump"
  PROVE  FileOK'
  BY DEF FileOK, fileVars, At

LEMMA NoShutdown ==
  ASSUME main'.pc # "shutdown"
  PROVE  EndsOnlyFull'
  BY DEF EndsOnlyFull, At

\* The scan goes on behind an entry that was marked and has been served.
LEMMA AfterEntryMarks ==
  ASSUME Types, MarksOK, main.pc \in {"scan", "message", "dump"},
         main.i <= maxi, Marked(main.i), AfterEntry, maxi' = maxi,
         \A j \in Slot : j # main.i => client'[j] = client[j],
         \A j \in Marks(main.i) : j # main.i =>
           (Ready(client[j].fd) => Ready(client[j].fd)')
  PROVE  /\ main' \in Mains /\ main'.pc \in {"loop", "scan"} /\ main'.i = main.i + 1
         /\ nready' \in -1 .. OPEN_MAX
         /\ MarksOK'
  <1>1. /\ main.i \in 1 .. OPEN_MAX /\ maxi \in 0 .. OPEN_MAX - 1
        /\ nready \in -1 .. OPEN_MAX /\ OPEN_MAX \in Nat \ {0}
    BY DEF Types, TypeOK
  <1>2. main.i + 1 \in 1 .. OPEN_MAX
    BY <1>1
  <1>3. /\ main' \in Mains /\ main'.i = main.i + 1
        /\ main'.pc = IF nready' <= 0 THEN "loop" ELSE "scan"
    BY <1>2 DEF AfterEntry, Types, Mains, PCs
  <1>4. /\ \A j \in Marks(main.i) : Ready(client[j].fd) \/ (j = main.i /\ ~At("scan"))
        /\ nready = Cardinality(Marks(main.i))
    BY DEF MarksOK
  <1>5. nready = Cardinality(Marks(main.i + 1)) + 1
    BY <1>1, <1>4, MarksStep
  <1>6. Cardinality(Marks(main.i + 1)) \in Nat
    BY <1>1, MarksFinite
  <1>7. nready' = Cardinality(Marks(main.i + 1))
    BY <1>5, <1>6 DEF AfterEntry
  <1>8. nready' \in -1 .. OPEN_MAX
    BY <1>1, <1>5, <1>6, <1>7
  <1>9. \A j \in main.i + 1 .. maxi : j \in Slot /\ j # main.i /\ client'[j] = client[j]
    BY <1>1 DEF Slot
  <1>10. \A j \in main.i + 1 .. maxi : Marked(j)' <=> Marked(j)
    BY <1>9 DEF Marked
  <1>11. \A j \in Marks(main.i + 1) : j \in Marks(main.i) /\ j # main.i
    BY <1>1 DEF Marks
  <1>12. \A j \in Marks(main.i + 1) : Ready(client[j].fd)'
    BY <1>4, <1>11
  <1>13. Marks(main.i)' = Marks(main.i + 1)
    BY <1>3, <1>10 DEF Marks
  <1> HIDE DEF Marks
  <1>14. MarksOK'
    BY <1>3, <1>7, <1>12, <1>13 DEF MarksOK, At
  <1> QED
    BY <1>3, <1>8, <1>14

LEMMA InitInv == Init => PollInv
  <1> SUFFICES ASSUME Init PROVE PollInv
    OBVIOUS
  <1>1. NewMain \in Mains /\ NewMain.pc = "open"
    BY EmptySeq DEF NewMain, Mains, PCs, StartCalls
  <1>2. client \in [Slot -> [fd : Clients \cup {NULL}, revents : BOOLEAN]]
    BY DEF Init, Unused
  <1>3. TypeOK
    <2>1. peer \in [Clients -> {"new", "here", "closed", "reset", "failed"}]
      BY DEF Init
    <2>2. main.pc \in PCs /\ main.i \in 1 .. OPEN_MAX
      BY <1>1 DEF Init, Mains
    <2>3. maxi \in 0 .. OPEN_MAX - 1 /\ nready \in -1 .. OPEN_MAX
      BY DEF Init
    <2> QED
      BY <1>2, <2>1, <2>2, <2>3 DEF Init, TypeOK
  <1>4. wire \in [Clients -> Seq(Bytes)] /\ file \in Seq(Bytes) /\ received \in Seq(Bytes)
    BY EmptySeq DEF Init
  <1>5. Types
    BY <1>1, <1>3, <1>4 DEF Types, Init
  <1>6. TableOK
    <2>1. \A j \in Slot : client[j].fd = NULL /\ ~client[j].revents
      BY DEF Init, Unused
    <2> QED
      BY <2>1 DEF Init, TableOK
  <1>7. MarksOK /\ EndsOnlyFull
    BY <1>1 DEF Init, MarksOK, EndsOnlyFull, At
  <1>8. FileOK
    <2>1. received = <<>> /\ Len(received) = 0 /\ Len(file) = 0
      BY EmptySeq DEF Init
    <2>2. Len(received) <= Len(file) /\ \A k \in 1 .. Len(received) : received[k] = file[k]
      BY <2>1
    <2>3. IsPrefix(received, file)
      BY <1>4, <2>2, PrefixPointwise
    <2> QED
      BY <1>1, <2>1, <2>3 DEF Init, FileOK, At
  <1> QED
    BY <1>5, <1>6, <1>7, <1>8 DEF PollInv

-----------------------------------------------------------------------------
(***************************************************************************)
(* The start, and the steps that only move the server.                     *)
(***************************************************************************)
LEMMA TypesMove ==
  ASSUME Types, main' \in Mains, nready' \in -1 .. OPEN_MAX, sig_triggered' \in BOOLEAN,
         UNCHANGED <<netVars, fileVars, tableVars>>
  PROVE  Types'
  <1>1. main'.pc \in PCs /\ main'.i \in 1 .. OPEN_MAX
    BY DEF Mains
  <1> QED
    BY <1>1 DEF Types, TypeOK, netVars, fileVars, tableVars

LEMMA QuietStep ==
  ASSUME PollInv, main' \in Mains, nready' \in -1 .. OPEN_MAX,
         UNCHANGED <<netVars, fileVars, tableVars, sig_triggered>>,
         main.pc \notin {"exited", "shutdown", "dump"},
         main'.pc \notin {"accept", "test", "scan", "message", "dump", "shutdown"}
  PROVE  PollInv'
  <1>1. Types'
    BY TypesMove DEF PollInv, Types, TypeOK
  <1>2. TableOK'
    BY TableStays DEF PollInv, Alive, netVars, tableVars
  <1>3. MarksOK'
    BY NoMarks
  <1>4. FileOK'
    BY FileStays DEF PollInv
  <1> QED
    BY <1>1, <1>2, <1>3, <1>4, NoShutdown DEF PollInv

LEMMA StartInv ==
  ASSUME PollInv, Start \/ make_daemon \/ StartFails \/ Enter \/ Restart
  PROVE  PollInv'
  <1>1. PICK pc \in {"socket", "bind", "daemon", "listen", "loop", "poll", "open", "exited"} :
          Goto(pc)
    <2>1. CASE Start
      <3>1. main.pc \in {"open", "socket", "bind", "listen"}
        BY <2>1 DEF Start, StartCalls
      <3>2. StartCalls[main.pc] \subseteq {"socket", "bind", "daemon", "listen", "loop"}
        BY <3>1 DEF StartCalls
      <3> QED
        BY <2>1, <3>2 DEF Start
    <2> QED
      BY <2>1 DEF make_daemon, StartFails, Enter, Restart
  <1>2. pc \in PCs
    BY DEF PCs, StartCalls
  <1>3. main' \in Mains /\ main'.pc = pc
    BY <1>1, <1>2, GotoTyped DEF PollInv
  <1>4. /\ main.pc \notin {"exited", "shutdown", "dump"}
        /\ UNCHANGED <<netVars, fileVars, tableVars, nready, sig_triggered>>
    BY DEF Start, make_daemon, StartFails, Enter, Restart, StartCalls, At
  <1>5. nready' \in -1 .. OPEN_MAX
    BY <1>4 DEF PollInv, Types, TypeOK
  <1> QED
    BY <1>3, <1>4, <1>5, QuietStep

LEMMA PollFailsInv ==
  ASSUME PollInv, At("poll"), nready' = -1, Goto("test"), sig_triggered' \in BOOLEAN,
         UNCHANGED <<netVars, fileVars, tableVars>>
  PROVE  PollInv'
  <1>1. main' \in Mains /\ main'.pc = "test"
    BY GotoTyped DEF PollInv, PCs
  <1>2. nready' \in -1 .. OPEN_MAX
    OBVIOUS
  <1>3. Types'
    BY <1>1, <1>2, TypesMove DEF PollInv
  <1>4. TableOK'
    BY TableStays DEF PollInv, Alive, At, netVars, tableVars
  <1>5. MarksOK'
    BY <1>1 DEF MarksOK, At
  <1>6. FileOK'
    BY <1>1, FileStays DEF PollInv, At
  <1> QED
    BY <1>1, <1>3, <1>4, <1>5, <1>6, NoShutdown DEF PollInv

\* What is ready, and what of the table is in use, does not depend on the signal.
LEMMA SignalInv ==
  ASSUME PollInv, Signal
  PROVE  PollInv'
  <1>1. CASE At("poll")
    BY <1>1, PollFailsInv DEF Signal
  <1>2. CASE ~At("poll")
    <2>1. /\ UNCHANGED <<main, nready, netVars, fileVars, tableVars>>
          /\ sig_triggered' = TRUE
      BY <1>2 DEF Signal
    <2>2. Types'
      BY <2>1, TypesMove DEF PollInv, Types, TypeOK
    <2>3. TableOK' /\ FileOK'
      BY <2>1 DEF PollInv, TableOK, FileOK, Alive, At, netVars, fileVars, tableVars
    <2>4. MarksOK'
      BY <2>1 DEF PollInv, MarksOK, Marks, Marked, Ready, Waiting, At, netVars, tableVars
    <2>5. EndsOnlyFull'
      BY <2>1 DEF EndsOnlyFull
    <2> QED
      BY <2>2, <2>3, <2>4, <2>5 DEF PollInv
  <1> QED
    BY <1>1, <1>2

LEMMA TestInv ==
  ASSUME PollInv, Test
  PROVE  PollInv'
  <1>1. /\ At("test")
        /\ UNCHANGED <<netVars, fileVars, tableVars, nready, sig_triggered>>
    BY DEF Test
  <1>2. /\ main'.i = 1
        /\ main'.pc = IF sig_triggered THEN "shutdown"
                      ELSE IF nready = -1 THEN "loop"
                      ELSE IF listen_revents THEN "accept"
                      ELSE "scan"
        /\ main' \in Mains
    <2>1. 1 \in 1 .. OPEN_MAX
      OBVIOUS
    <2> QED
      BY <2>1 DEF Test, PollInv, Types, Mains, PCs, StartCalls
  <1>3. Types'
    BY <1>1, <1>2, TypesMove DEF PollInv, Types, TypeOK
  <1>4. TableOK'
    BY <1>1, TableStays DEF PollInv, Alive, At, netVars, tableVars
  <1>5. FileOK'
    BY <1>1, <1>2, FileStays DEF PollInv, At
  <1>6. EndsOnlyFull'
    BY <1>1, <1>2 DEF EndsOnlyFull, At
  <1>7. MarksOK'
    <2>1. CASE main'.pc \in {"shutdown", "loop"}
      BY <2>1, NoMarks
    <2>2. CASE main'.pc \in {"accept", "scan"}
      <3>1. /\ nready # -1
            /\ listen_revents = (main'.pc = "accept")
        BY <1>2, <2>2 DEF PollInv, Types, TypeOK
      <3>2. /\ \A j \in 1 .. maxi :
                 client[j].revents => client[j].fd # NULL /\ Ready(client[j].fd)
            /\ nready = Cardinality(Marks(1)) + (IF listen_revents THEN 1 ELSE 0)
            /\ listen_revents => Waiting # {}
        BY <1>1, <3>1 DEF PollInv, MarksOK
      <3>3. /\ \A j \in 1 .. maxi :
                 client'[j].revents => client'[j].fd # NULL /\ Ready(client[j].fd)'
            /\ Marks(main.i)' = Marks(1) /\ Waiting' = Waiting
        BY <1>1, <1>2, <3>2 DEF Marks, Marked, Ready, Waiting, netVars, tableVars
      <3>4. Marks(1)' = Marks(1)
        BY <1>1 DEF Marks, Marked, tableVars
      <3>5. \A j \in Marks(1) : j \in 1 .. maxi /\ client'[j].revents
        BY <1>1 DEF Marks, Marked, tableVars
      <3>6. \A j \in Marks(1) : Ready(client[j].fd)'
        BY <3>3, <3>5
      <3>7. listen_revents' = listen_revents /\ nready' = nready /\ maxi' = maxi
        BY <1>1 DEF tableVars
      <3>8. CASE main'.pc = "accept"
        BY <1>2, <3>1, <3>2, <3>3, <3>4, <3>7, <3>8 DEF MarksOK, At
      <3>9. CASE main'.pc = "scan"
        <4>1. Cardinality(Marks(1)) \in Nat
          BY MarksFinite DEF PollInv, Types, TypeOK
        <4>2. ~listen_revents
          BY <3>1, <3>9
        <4>3. nready' = Cardinality(Marks(1))
          BY <3>2, <3>7, <4>1, <4>2
        <4> HIDE DEF Marks
        <4> QED
          BY <3>3, <3>6, <3>9, <4>3 DEF MarksOK, At
      <3> QED
        BY <2>2, <3>8, <3>9
    <2> QED
      BY <1>2, <2>1, <2>2
  <1> QED
    BY <1>3, <1>4, <1>5, <1>6, <1>7 DEF PollInv

-----------------------------------------------------------------------------
(***************************************************************************)
(* The clients: what is ready stays ready until the server has read it.    *)
(***************************************************************************)
LEMMA ReadyStays ==
  ASSUME MarksOK, UNCHANGED <<tableVars, nready, main>>, Waiting' = Waiting,
         client \in [Slot -> [fd : Clients \cup {NULL}, revents : BOOLEAN]],
         maxi \in 0 .. OPEN_MAX - 1, main.i \in 1 .. OPEN_MAX,
         \A c \in Clients : Ready(c) => Ready(c)'
  PROVE  MarksOK'
  <1>1. Marks(1)' = Marks(1) /\ Marks(main.i)' = Marks(main.i)
    BY DEF Marks, Marked, tableVars
  <1>2. \A j \in Slot : client[j].fd # NULL => client[j].fd \in Clients
    OBVIOUS
  <1>3. \A j \in 1 .. maxi : j \in Slot
    BY DEF Slot
  <1>4. \A j \in 1 .. maxi : client[j].fd # NULL /\ Ready(client[j].fd) => Ready(client[j].fd)'
    BY <1>2, <1>3 DEF tableVars
  <1>5. \A j \in Marks(main.i) : j \in 1 .. maxi /\ client[j].fd # NULL
    BY DEF Marks, Marked
  <1>6. main'.pc = main.pc /\ main'.i = main.i /\ nready' = nready /\ maxi' = maxi
        /\ listen_revents' = listen_revents /\ client' = client
    BY DEF tableVars
  <1>7. Marked(main.i)' = Marked(main.i)
    BY DEF Marked, tableVars
  <1> HIDE DEF Marks, Marked, Ready
  <1>8. At("accept") \/ (At("test") /\ nready # -1) =>
          /\ \A j \in 1 .. maxi :
               client[j].revents => client[j].fd # NULL /\ Ready(client[j].fd)'
          /\ nready = Cardinality(Marks(1)) + (IF listen_revents THEN 1 ELSE 0)
          /\ listen_revents => Waiting # {}
    BY <1>4 DEF MarksOK
  <1>9. main.pc \in {"scan", "message", "dump"} =>
          /\ \A j \in Marks(main.i) : Ready(client[j].fd)' \/ (j = main.i /\ ~At("scan"))
          /\ nready = Cardinality(Marks(main.i))
    BY <1>4, <1>5 DEF MarksOK
  <1> QED
    BY <1>1, <1>6, <1>7, <1>8, <1>9 DEF MarksOK, At

LEMMA ClientStep ==
  ASSUME PollInv, UNCHANGED <<opened, fileVars, tableVars, nready, sig_triggered, main>>,
         peer' \in [Clients -> {"new", "here", "closed", "reset", "failed"}],
         wire' \in [Clients -> Seq(Bytes)],
         \A c \in Clients : peer'[c] = "new" <=> peer[c] = "new",
         \A c \in Clients : Ready(c) => Ready(c)'
  PROVE  PollInv'
  <1>1. Types'
    BY DEF PollInv, Types, TypeOK, fileVars, tableVars
  <1>2. opened \subseteq Clients
    BY DEF PollInv, Types, TypeOK
  <1>3. TableOK'
    <2>1. \A c \in opened : peer[c] # "new" => peer'[c] # "new"
      BY <1>2
    <2> QED
      BY <2>1, TableStays DEF PollInv, Alive, tableVars
  <1>4. Waiting' = Waiting
    BY DEF Waiting
  <1>5. MarksOK'
    BY <1>4, ReadyStays DEF PollInv, Types, TypeOK
  <1>6. FileOK' /\ EndsOnlyFull'
    BY DEF PollInv, FileOK, EndsOnlyFull, At, fileVars, tableVars
  <1> QED
    BY <1>1, <1>3, <1>5, <1>6 DEF PollInv

LEMMA SendInv ==
  ASSUME PollInv, NEW c \in Clients, NEW m \in Messages, Send(c, m)
  PROVE  PollInv'
  <1>1. m \in Seq(Bytes) /\ m # <<>>
    BY MessageOfBytes
  <1>2. /\ wire' = [wire EXCEPT ![c] = m] /\ peer' = peer
        /\ UNCHANGED <<opened, fileVars, tableVars, nready, sig_triggered, main>>
    BY DEF Send
  <1>3. wire \in [Clients -> Seq(Bytes)] /\
        peer \in [Clients -> {"new", "here", "closed", "reset", "failed"}]
    BY DEF PollInv, Types, TypeOK
  <1>4. wire' \in [Clients -> Seq(Bytes)]
    BY <1>1, <1>2, <1>3
  <1>5. \A d \in Clients : Ready(d) => Ready(d)'
    BY <1>1, <1>2, <1>3 DEF Ready
  <1> QED
    BY <1>2, <1>3, <1>4, <1>5, ClientStep

LEMMA LeaveInv ==
  ASSUME PollInv, NEW c \in Clients, Leave(c)
  PROVE  PollInv'
  <1>1. PICK how \in {"closed", "reset", "failed"} :
          /\ peer' = [peer EXCEPT ![c] = how]
          /\ wire' = IF how = "closed" THEN wire ELSE [wire EXCEPT ![c] = <<>>]
    BY DEF Leave
  <1>2. peer[c] = "here" /\ UNCHANGED <<opened, fileVars, tableVars, nready, sig_triggered, main>>
    BY DEF Leave, Here
  <1>3. wire \in [Clients -> Seq(Bytes)] /\
        peer \in [Clients -> {"new", "here", "closed", "reset", "failed"}]
    BY DEF PollInv, Types, TypeOK
  <1>4. wire' \in [Clients -> Seq(Bytes)]
    <2>1. <<>> \in Seq(Bytes)
      OBVIOUS
    <2> QED
      BY <1>1, <1>3, <2>1
  <1>5. peer' \in [Clients -> {"new", "here", "closed", "reset", "failed"}]
    BY <1>1, <1>3
  <1>6. \A d \in Clients : peer'[d] = IF d = c THEN how ELSE peer[d]
    BY <1>1, <1>3
  <1>7. \A d \in Clients : d # c => wire'[d] = wire[d]
    BY <1>1, <1>3
  <1>8. \A d \in Clients : Ready(d) => Ready(d)'
    BY <1>6, <1>7 DEF Ready
  <1>9. \A d \in Clients : peer'[d] = "new" <=> peer[d] = "new"
    BY <1>2, <1>6
  <1> QED
    BY <1>2, <1>4, <1>5, <1>8, <1>9, ClientStep

-----------------------------------------------------------------------------
(***************************************************************************)
(* poll and accept.                                                        *)
(***************************************************************************)
LEMMA PollReadyInv ==
  ASSUME PollInv, PollReady
  PROVE  PollInv'
  <1> DEFINE ready == {j \in 1 .. maxi : client[j].fd # NULL /\ Ready(client[j].fd)}
  <1>1. /\ At("poll") /\ Goto("test")
        /\ listen_revents' = (Waiting # {})
        /\ client' = [j \in Slot |->
             IF j <= maxi THEN [client[j] EXCEPT !.revents = j \in ready] ELSE client[j]]
        /\ nready' = Cardinality(ready) + (IF Waiting # {} THEN 1 ELSE 0)
        /\ UNCHANGED <<netVars, fileVars, maxi, sig_triggered>>
    BY DEF PollReady
  <1>2. /\ client \in [Slot -> [fd : Clients \cup {NULL}, revents : BOOLEAN]]
        /\ maxi \in 0 .. OPEN_MAX - 1
    BY DEF PollInv, Types, TypeOK
  <1>3. ready \subseteq 1 .. maxi /\ Slot = 1 .. OPEN_MAX - 1
    BY DEF Slot
  <1>4. \A j \in Slot :
          /\ client'[j].fd = client[j].fd
          /\ client'[j].revents = IF j <= maxi THEN j \in ready ELSE client[j].revents
          /\ client'[j] \in [fd : Clients \cup {NULL}, revents : BOOLEAN]
    <2> SUFFICES ASSUME NEW j \in Slot
                 PROVE  /\ client'[j].fd = client[j].fd
                        /\ client'[j].revents = IF j <= maxi THEN j \in ready
                                                             ELSE client[j].revents
                        /\ client'[j] \in [fd : Clients \cup {NULL}, revents : BOOLEAN]
      OBVIOUS
    <2> DEFINE is == j \in ready
    <2>1. is \in BOOLEAN
      OBVIOUS
    <2>2. client'[j] = IF j <= maxi THEN [client[j] EXCEPT !.revents = is] ELSE client[j]
      BY <1>1
    <2> HIDE DEF is, ready
    <2>3. client[j] \in [fd : Clients \cup {NULL}, revents : BOOLEAN]
      BY <1>2
    <2>4. /\ client'[j].fd = client[j].fd
          /\ client'[j].revents = IF j <= maxi THEN is ELSE client[j].revents
          /\ client'[j] \in [fd : Clients \cup {NULL}, revents : BOOLEAN]
      BY <2>1, <2>2, <2>3
    <2> QED
      BY <2>4 DEF is
  <1>5. client' \in [Slot -> [fd : Clients \cup {NULL}, revents : BOOLEAN]]
    <2>1. DOMAIN client' = Slot /\ client' = [j \in Slot |-> client'[j]]
      BY <1>1
    <2> QED
      BY <1>4, <2>1
  <1>6. Waiting' = Waiting /\ \A c : Ready(c)' = Ready(c)
    BY <1>1 DEF Waiting, Ready, netVars
  <1>7. Marks(1)' = ready
    <2>1. \A j \in 1 .. maxi : j \in Slot /\ j <= maxi
      BY <1>2 DEF Slot
    <2>2. \A j \in 1 .. maxi : (client'[j].fd # NULL /\ client'[j].revents) <=> j \in ready
      BY <1>4, <2>1
    <2>3. ready = {j \in 1 .. maxi : j \in ready}
      BY <1>3
    <2> QED
      BY <1>1, <2>2, <2>3 DEF Marks, Marked
  <1>8. IsFiniteSet(ready) /\ Cardinality(ready) \in Nat /\ Cardinality(ready) <= maxi
    <2>1. IsFiniteSet(1 .. maxi) /\ Cardinality(1 .. maxi) = maxi
      BY <1>2, FS_Interval
    <2>2. IsFiniteSet(ready) /\ Cardinality(ready) <= maxi
      BY <1>3, <2>1, FS_Subset
    <2> QED
      BY <2>2, FS_CardinalityType
  <1>9. \A j \in 1 .. maxi :
          client'[j].revents => client'[j].fd # NULL /\ Ready(client'[j].fd)
    <2>1. \A j \in 1 .. maxi : j \in Slot /\ j <= maxi
      BY <1>2 DEF Slot
    <2> QED
      BY <1>4, <2>1
  <1> HIDE DEF ready
  <1>10. /\ main' \in Mains /\ main'.pc = "test"
         /\ main'.pc \in PCs /\ main'.i \in 1 .. OPEN_MAX
    <2>1. main' \in Mains /\ main'.pc = "test"
      BY <1>1, GotoTyped DEF PollInv, PCs
    <2> QED
      BY <2>1 DEF Mains
  <1>11. Types'
    <2>1. nready' \in -1 .. OPEN_MAX
      BY <1>1, <1>2, <1>8
    <2>2. listen_revents' \in BOOLEAN
      BY <1>1
    <2> QED
      BY <1>1, <1>5, <1>10, <2>1, <2>2 DEF PollInv, Types, TypeOK, netVars, fileVars
  <1>12. TableOK'
    <2>1. /\ {client[j].fd : j \in Slot} \ {NULL} = opened
          /\ \A j \in Slot : client[j].fd # NULL =>
               j <= maxi /\ \A k \in Slot : client[k].fd = client[j].fd => k = j
          /\ \A j \in Slot : j > maxi => ~client[j].revents
          /\ \A c \in opened : peer[c] # "new"
      BY <1>1 DEF PollInv, TableOK, Alive, At
    <2>2. {client'[j].fd : j \in Slot} = {client[j].fd : j \in Slot}
      BY <1>4
    <2>3. \A j \in Slot : j > maxi => ~client'[j].revents
      BY <1>2, <1>3, <1>4, <2>1
    <2> QED
      BY <1>1, <1>4, <2>1, <2>2, <2>3 DEF TableOK, netVars
  <1>13. MarksOK'
    <2>1. /\ \A j \in 1 .. maxi' :
               client'[j].revents => client'[j].fd # NULL /\ Ready(client[j].fd)'
          /\ nready' = Cardinality(Marks(1)') + (IF listen_revents' THEN 1 ELSE 0)
          /\ listen_revents' => Waiting' # {}
      BY <1>1, <1>6, <1>7, <1>9 DEF Ready, netVars
    <2> HIDE DEF Marks
    <2> QED
      BY <1>10, <2>1 DEF MarksOK, At
  <1>14. FileOK'
    BY <1>1, <1>10, FileStays DEF PollInv, At
  <1>15. EndsOnlyFull'
    BY <1>10, NoShutdown
  <1> QED
    BY <1>11, <1>12, <1>13, <1>14, <1>15 DEF PollInv

\* What accept may return: the first client that waits, which is in no entry,
\* or nothing.
LEMMA AcceptResult ==
  ASSUME PollInv, At("accept"), NEW connfd \in {Min(Waiting), NULL}, accept(connfd)
  PROVE  /\ connfd \in Clients \cup {NULL}
         /\ connfd # NULL => connfd \notin opened /\ peer[connfd] = "new"
         /\ peer' \in [Clients -> {"new", "here", "closed", "reset", "failed"}]
         /\ \A c \in Clients : c # connfd => peer'[c] = peer[c]
         /\ connfd # NULL => peer'[connfd] = "here"
         /\ opened' = opened \cup ({connfd} \ {NULL})
         /\ opened' \subseteq Clients
  <1>1. /\ peer \in [Clients -> {"new", "here", "closed", "reset", "failed"}]
        /\ opened \subseteq Clients
        /\ \A c \in opened : peer[c] # "new"
        /\ Waiting # {}
    BY DEF PollInv, Types, TypeOK, TableOK, Alive, MarksOK, At
  <1>2. Min(Waiting) \in Waiting
    <2>1. Waiting \subseteq Nat
      BY DEF Waiting
    <2> QED
      BY <1>1, <2>1, MinInSet
  <1>3. Min(Waiting) \in Clients /\ peer[Min(Waiting)] = "new"
    BY <1>2 DEF Waiting
  <1>4. CASE connfd = NULL
    BY <1>1, <1>4 DEF accept
  <1>5. CASE connfd # NULL
    <2>1. connfd \in Clients /\ peer[connfd] = "new"
      BY <1>3, <1>5
    <2>2. peer' = [peer EXCEPT ![connfd] = "here"] /\ opened' = opened \cup {connfd}
      BY <1>5 DEF accept
    <2>3. peer' \in [Clients -> {"new", "here", "closed", "reset", "failed"}]
      BY <1>1, <2>1, <2>2
    <2>4. peer'[connfd] = "here" /\ \A c \in Clients : c # connfd => peer'[c] = peer[c]
      BY <1>1, <2>1, <2>2
    <2> QED
      BY <1>1, <1>5, <2>1, <2>2, <2>3, <2>4
  <1> QED
    BY <1>4, <1>5

LEMMA AcceptInv ==
  ASSUME PollInv, Accept
  PROVE  PollInv'
  <1> DEFINE a == Min(Available)
  <1>1. PICK connfd \in {Min(Waiting), NULL} :
          accept(connfd) /\ client' = [client EXCEPT ![a].fd = connfd]
    BY DEF Accept
  <1>2. /\ At("accept") /\ Available # {}
        /\ maxi' = Max({maxi, a})
        /\ nready' = nready - 1
        /\ Goto(IF nready' <= 0 THEN "loop" ELSE "scan")
        /\ UNCHANGED <<wire, sends, fileVars, listen_revents, sig_triggered>>
    BY DEF Accept
  <1>3. /\ connfd \in Clients \cup {NULL}
        /\ connfd # NULL => connfd \notin opened /\ peer[connfd] = "new"
        /\ peer' \in [Clients -> {"new", "here", "closed", "reset", "failed"}]
        /\ \A c \in Clients : c # connfd => peer'[c] = peer[c]
        /\ connfd # NULL => peer'[connfd] = "here"
        /\ opened' = opened \cup ({connfd} \ {NULL})
        /\ opened' \subseteq Clients
    BY <1>1, <1>2, AcceptResult
  <1>4. a \in Slot /\ client[a].fd = NULL
    <2>1. Available \subseteq Nat
      BY DEF Available, Slot
    <2>2. a \in Available
      BY <1>2, <2>1, MinInSet
    <2> QED
      BY <2>2 DEF Available
  <1> HIDE DEF a
  <1>5. /\ client \in [Slot -> [fd : Clients \cup {NULL}, revents : BOOLEAN]]
        /\ maxi \in 0 .. OPEN_MAX - 1 /\ nready \in -1 .. OPEN_MAX
        /\ wire \in [Clients -> Seq(Bytes)]
        /\ opened \subseteq Clients /\ main.i \in 1 .. OPEN_MAX
    BY DEF PollInv, Types, TypeOK
  <1>6. /\ {client[j].fd : j \in Slot} \ {NULL} = opened
        /\ \A j \in Slot : client[j].fd # NULL =>
             j <= maxi /\ \A k \in Slot : client[k].fd = client[j].fd => k = j
        /\ \A j \in Slot : j > maxi => ~client[j].revents
        /\ \A c \in opened : peer[c] # "new"
    BY <1>2 DEF PollInv, TableOK, Alive, At
  <1>7. /\ \A j \in 1 .. maxi :
             client[j].revents => client[j].fd # NULL /\ Ready(client[j].fd)
        /\ nready = Cardinality(Marks(1)) + 1
        /\ main.i = 1
    BY <1>2 DEF PollInv, MarksOK
  <1>8. /\ maxi' = IF maxi < a THEN a ELSE maxi
        /\ maxi' \in 0 .. OPEN_MAX - 1 /\ maxi <= maxi' /\ a <= maxi'
    BY <1>2, <1>4, <1>5, MaxOfTwo DEF Slot
  <1>9. /\ client'[a] = [fd |-> connfd, revents |-> client[a].revents]
        /\ \A j \in Slot : j # a => client'[j] = client[j]
        /\ client' \in [Slot -> [fd : Clients \cup {NULL}, revents : BOOLEAN]]
    <2> DEFINE e == [fd |-> connfd, revents |-> client[a].revents]
    <2>1. client[a] \in [fd : Clients \cup {NULL}, revents : BOOLEAN]
      BY <1>4, <1>5
    <2>2. e \in [fd : Clients \cup {NULL}, revents : BOOLEAN]
      BY <1>3, <2>1
    <2>3. [client[a] EXCEPT !.fd = connfd] = e
      BY <2>1
    <2>4. client' = [client EXCEPT ![a] = e]
      BY <1>1, <2>3
    <2> HIDE DEF e
    <2>5. /\ client'[a] = e
          /\ \A j \in Slot : j # a => client'[j] = client[j]
          /\ client' \in [Slot -> [fd : Clients \cup {NULL}, revents : BOOLEAN]]
      BY <1>4, <1>5, <2>2, <2>4
    <2> QED
      BY <2>5 DEF e
  <1>10. client'[a].fd = connfd /\ client'[a].revents = client[a].revents
    BY <1>9
  <1>11. ~client[a].revents
    BY <1>4, <1>5, <1>6, <1>7 DEF Slot
  <1>12. main' \in Mains /\ main'.i = 1
         /\ main'.pc = IF nready' <= 0 THEN "loop" ELSE "scan"
    <2> DEFINE pc == IF nready' <= 0 THEN "loop" ELSE "scan"
    <2>1. pc \in PCs
      BY DEF PCs
    <2> QED
      BY <1>2, <1>7, <2>1, GotoTyped DEF PollInv
  <1>13. Cardinality(Marks(1)) \in Nat
    BY <1>5, MarksFinite
  <1>14. Types'
    <2>1. nready' \in -1 .. OPEN_MAX
      BY <1>2, <1>5, <1>7, <1>13
    <2>2. main'.pc \in PCs /\ main'.i \in 1 .. OPEN_MAX
      BY <1>12 DEF Mains
    <2> QED
      BY <1>2, <1>3, <1>8, <1>9, <1>12, <2>1, <2>2 DEF PollInv, Types, TypeOK, fileVars
  <1>15. TableOK'
    <2>1. \A j \in Slot : client'[j].fd = IF j = a THEN connfd ELSE client[j].fd
      BY <1>9, <1>10
    <2>2. {client'[j].fd : j \in Slot} \ {NULL} = opened'
      <3>1. ASSUME NEW j \in Slot, client'[j].fd # NULL
            PROVE  client'[j].fd \in opened'
        BY <1>3, <1>6, <2>1, <3>1
      <3>2. ASSUME NEW c \in opened'
            PROVE  c # NULL /\ \E j \in Slot : client'[j].fd = c
        <4>1. c # NULL
          BY <1>3
        <4>2. CASE c = connfd
          BY <1>4, <1>10, <4>1, <4>2
        <4>3. CASE c # connfd
          <5>1. PICK j \in Slot : client[j].fd = c
            BY <1>3, <1>6, <4>3
          <5>2. j # a
            BY <1>4, <4>1, <5>1
          <5> QED
            BY <2>1, <4>1, <5>1, <5>2
        <4> QED
          BY <4>1, <4>2, <4>3
      <3> QED
        BY <3>1, <3>2
    <2>3. \A j \in Slot : client'[j].fd # NULL =>
            j <= maxi' /\ \A k \in Slot : client'[k].fd = client'[j].fd => k = j
      <3> SUFFICES ASSUME NEW j \in Slot, client'[j].fd # NULL
                   PROVE  /\ j <= maxi'
                          /\ \A k \in Slot : client'[k].fd = client'[j].fd => k = j
        OBVIOUS
      <3>1. CASE j = a
        <4>1. client'[j].fd = connfd /\ connfd \notin opened
          BY <1>3, <1>10, <3>1
        <4>2. \A k \in Slot : k # a => client[k].fd # connfd
          BY <1>6, <4>1
        <4> QED
          BY <1>8, <2>1, <3>1, <4>1, <4>2
      <3>2. CASE j # a
        <4>1. client'[j].fd = client[j].fd /\ j <= maxi /\ client[j].fd \in opened
          BY <1>6, <2>1, <3>2
        <4>2. client'[j].fd # connfd
          BY <1>3, <4>1
        <4>3. j <= maxi'
          BY <1>5, <1>8, <4>1 DEF Slot
        <4> QED
          BY <1>6, <2>1, <4>1, <4>2, <4>3
      <3> QED
        BY <3>1, <3>2
    <2>4. \A j \in Slot : j > maxi' => ~client'[j].revents
      <3>1. \A j \in Slot : j > maxi' => j > maxi /\ j # a
        BY <1>4, <1>5, <1>8 DEF Slot
      <3> QED
        BY <1>6, <1>9, <3>1
    <2>5. \A c \in opened' : peer'[c] # "new"
      BY <1>3, <1>5, <1>6
    <2> QED
      BY <2>2, <2>3, <2>4, <2>5 DEF TableOK
  <1>16. MarksOK'
    <2>1. \A j \in Slot : Marked(j)' <=> Marked(j)
      BY <1>9, <1>10, <1>11 DEF Marked
    <2>2. \A j \in Slot : j > maxi => ~Marked(j)
      BY <1>6 DEF Marked
    <2>3. \A j \in 1 .. maxi' : j \in Slot
      <3>1. maxi' \in 0 .. OPEN_MAX - 1
        BY <1>8
      <3> QED
        BY <3>1 DEF Slot
    <2>4. {j \in 1 .. maxi' : Marked(j)'} = Marks(1)
      <3>1. \A j \in 1 .. maxi' : Marked(j)' => j \in 1 .. maxi /\ Marked(j)
        BY <1>5, <1>8, <2>1, <2>2, <2>3
      <3>2. \A j \in 1 .. maxi : j \in 1 .. maxi' /\ (Marked(j) => Marked(j)')
        BY <1>5, <1>8, <2>1, <2>3
      <3> QED
        BY <3>1, <3>2 DEF Marks
    <2>5. Marks(main.i)' = Marks(1)
      BY <1>12, <2>4 DEF Marks
    <2>6. \A j \in Marks(1) : Ready(client[j].fd)'
      <3> SUFFICES ASSUME NEW j \in Marks(1)
                   PROVE  Ready(client[j].fd)'
        OBVIOUS
      <3>1. j \in 1 .. maxi /\ j \in Slot /\ client[j].fd # NULL /\ client[j].revents
        BY <1>5 DEF Marks, Marked, Slot
      <3>2. Ready(client[j].fd) /\ client[j].fd \in opened /\ j # a
        BY <1>4, <1>6, <1>7, <3>1
      <3>3. client'[j].fd = client[j].fd /\ client[j].fd \in Clients /\ client[j].fd # connfd
        BY <1>3, <1>5, <1>9, <3>1, <3>2
      <3>4. peer'[client[j].fd] = peer[client[j].fd] /\ wire' = wire
        BY <1>2, <1>3, <3>3
      <3> QED
        BY <3>2, <3>3, <3>4 DEF Ready
    <2>7. nready' = Cardinality(Marks(1))
      BY <1>2, <1>7, <1>13
    <2> HIDE DEF Marks
    <2> QED
      BY <1>12, <2>5, <2>6, <2>7 DEF MarksOK, At
  <1>17. FileOK'
    BY <1>2, <1>12, FileStays DEF PollInv, At
  <1>18. EndsOnlyFull'
    BY <1>12, NoShutdown
  <1> QED
    BY <1>14, <1>15, <1>16, <1>17, <1>18 DEF PollInv

LEMMA TableFullInv ==
  ASSUME PollInv, TableFull
  PROVE  PollInv'
  <1>1. PICK connfd \in {Min(Waiting), NULL} : accept(connfd)
    BY DEF TableFull
  <1>2. /\ At("accept") /\ Available = {} /\ Goto("shutdown")
        /\ UNCHANGED <<wire, sends, fileVars, tableVars, nready, sig_triggered>>
    BY DEF TableFull
  <1>3. /\ peer' \in [Clients -> {"new", "here", "closed", "reset", "failed"}]
        /\ opened' = opened \cup ({connfd} \ {NULL})
        /\ opened' \subseteq Clients
        /\ connfd # NULL => connfd \notin opened
    BY <1>1, <1>2, AcceptResult
  <1>4. main' \in Mains /\ main'.pc = "shutdown"
    BY <1>2, GotoTyped DEF PollInv, PCs
  <1>5. Types'
    <2>1. main'.pc \in PCs /\ main'.i \in 1 .. OPEN_MAX
      BY <1>4 DEF Mains
    <2> QED
      BY <1>2, <1>3, <1>4, <2>1 DEF PollInv, Types, TypeOK, fileVars, tableVars
  <1>6. TableOK'
    BY <1>4 DEF TableOK, Alive
  <1>7. MarksOK'
    BY <1>4, NoMarks
  <1>8. FileOK'
    BY <1>2, <1>4, FileStays DEF PollInv, At
  <1>9. EndsOnlyFull'
    <2> DEFINE fds == {client[j].fd : j \in Slot}
    <2>1. /\ fds \ {NULL} = opened
          /\ \A j \in Slot : client[j].fd # NULL =>
               \A k \in Slot : client[k].fd = client[j].fd => k = j
      BY <1>2 DEF PollInv, TableOK, Alive, At
    <2>2. \A j \in Slot : client[j].fd # NULL
      BY <1>2 DEF Available
    <2>3. fds = opened /\ fds \cap opened' = fds
      BY <1>3, <2>1, <2>2
    <2>4. Cardinality(fds) = OPEN_MAX - 1
      <3> DEFINE f == [j \in Slot |-> client[j].fd]
      <3>1. f \in Bijection(Slot, fds)
        <4>1. f \in [Slot -> fds]
          OBVIOUS
        <4>2. \A j, k \in Slot : f[j] = f[k] => j = k
          BY <2>1, <2>2
        <4>3. \A x \in fds : \E j \in Slot : f[j] = x
          OBVIOUS
        <4> QED
          BY <4>1, <4>2, <4>3 DEF Bijection, Injection, Surjection, IsInjective
      <3>2. IsFiniteSet(Slot) /\ Cardinality(Slot) = OPEN_MAX - 1
        BY FS_Interval DEF Slot
      <3>3. ExistsBijection(Slot, fds)
        BY <3>1 DEF ExistsBijection
      <3> QED
        BY <3>2, <3>3, FS_Bijection
    <2>5. {client'[j].fd : j \in Slot} = fds
      BY <1>2 DEF tableVars
    <2> QED
      BY <2>3, <2>4, <2>5 DEF EndsOnlyFull
  <1> QED
    BY <1>5, <1>6, <1>7, <1>8, <1>9 DEF PollInv

-----------------------------------------------------------------------------
(***************************************************************************)
(* The scan.                                                               *)
(***************************************************************************)

\* An entry that is not marked is passed; behind maxi nothing is left.
LEMMA ScanNextInv ==
  ASSUME PollInv, ScanNext
  PROVE  PollInv'
  <1>1. /\ At("scan")
        /\ main.i <= maxi => ~Marked(main.i)
        /\ UNCHANGED <<netVars, fileVars, tableVars, nready, sig_triggered>>
    BY DEF ScanNext
  <1>2. /\ main \in Mains /\ main.i \in 1 .. OPEN_MAX /\ maxi \in 0 .. OPEN_MAX - 1
        /\ nready \in -1 .. OPEN_MAX
    BY DEF PollInv, Types, TypeOK
  <1>3. CASE main.i <= maxi
    <2>1. main.i + 1 \in 1 .. OPEN_MAX
      BY <1>2, <1>3
    <2>2. /\ main' \in Mains /\ main'.pc = "scan" /\ main'.i = main.i + 1
      BY <1>1, <1>2, <1>3, <2>1 DEF ScanNext, Mains, At
    <2>3. Types'
      BY <1>1, <1>2, <2>2, TypesMove DEF PollInv, Types, TypeOK
    <2>4. TableOK'
      BY <1>1, TableStays DEF PollInv, Alive, At, netVars, tableVars
    <2>5. FileOK'
      BY <1>1, <2>2, FileStays DEF PollInv, At
    <2>6. Marks(main.i)' = Marks(main.i)
      <3>1. Marks(main.i)' = Marks(main.i + 1)
        BY <1>1, <2>2 DEF Marks, Marked, tableVars
      <3> QED
        BY <1>1, <1>2, <1>3, <3>1, MarksStep
    <2>7. /\ \A j \in Marks(main.i) : Ready(client[j].fd)'
          /\ nready' = Cardinality(Marks(main.i))
      <3>1. /\ \A j \in Marks(main.i) : Ready(client[j].fd)
            /\ nready = Cardinality(Marks(main.i))
        BY <1>1 DEF PollInv, MarksOK, At
      <3>2. wire' = wire /\ peer' = peer /\ client' = client /\ nready' = nready
        BY <1>1 DEF netVars, tableVars
      <3> QED
        BY <3>1, <3>2 DEF Ready
    <2>8. MarksOK'
      <3> HIDE DEF Marks
      <3> QED
        BY <2>2, <2>6, <2>7 DEF MarksOK, At
    <2> QED
      BY <2>2, <2>3, <2>4, <2>5, <2>8, NoShutdown DEF PollInv
  <1>4. CASE ~ (main.i <= maxi)
    <2>1. main' \in Mains /\ main'.pc = "loop"
      BY <1>2, <1>4 DEF ScanNext, Mains, PCs
    <2>2. /\ nready' \in -1 .. OPEN_MAX
          /\ main.pc \notin {"exited", "shutdown", "dump"}
          /\ main'.pc \notin {"accept", "test", "scan", "message", "dump", "shutdown"}
          /\ UNCHANGED <<netVars, fileVars, tableVars, sig_triggered>>
      BY <1>1, <1>2, <2>1 DEF At
    <2> QED
      BY <2>1, <2>2, QuietStep
  <1> QED
    BY <1>3, <1>4

\* The entry that is served holds an open connection, and no other entry does.
LEMMA ReadingEntry ==
  ASSUME PollInv, main.pc \in {"scan", "message", "dump"}, main.i <= maxi, Marked(main.i)
  PROVE  /\ main.i \in Slot /\ Entry.fd \in Clients /\ Entry.fd \in opened
         /\ \A j \in Slot : client[j].fd = Entry.fd => j = main.i
  <1>1. /\ client \in [Slot -> [fd : Clients \cup {NULL}, revents : BOOLEAN]]
        /\ main.i \in 1 .. OPEN_MAX /\ maxi \in 0 .. OPEN_MAX - 1
    BY DEF PollInv, Types, TypeOK
  <1>2. main.i \in Slot
    BY <1>1 DEF Slot
  <1>3. /\ {client[j].fd : j \in Slot} \ {NULL} = opened
        /\ \A j \in Slot : client[j].fd # NULL =>
             \A k \in Slot : client[k].fd = client[j].fd => k = j
    BY DEF PollInv, TableOK, Alive
  <1>4. Entry.fd # NULL
    BY DEF Marked, Entry
  <1> QED
    BY <1>1, <1>2, <1>3, <1>4 DEF Entry

LEMMA CloseInv ==
  ASSUME PollInv, NEW c \in Clients, Close(c)
  PROVE  PollInv'
  <1>1. /\ At("scan") /\ main.i <= maxi /\ Marked(main.i) /\ c = client[main.i].fd
        /\ opened' = opened \ {c}
        /\ client' = [client EXCEPT ![main.i].fd = NULL]
        /\ peer' = [peer EXCEPT ![c] = "closed"]
        /\ AfterEntry
        /\ UNCHANGED <<wire, sends, fileVars, listen_revents, maxi, sig_triggered>>
    BY DEF Close, Reading, Entry
  <1>2. /\ main.i \in Slot /\ c \in opened
        /\ \A j \in Slot : client[j].fd = c => j = main.i
    BY <1>1, ReadingEntry DEF Entry, At
  <1>3. /\ client \in [Slot -> [fd : Clients \cup {NULL}, revents : BOOLEAN]]
        /\ peer \in [Clients -> {"new", "here", "closed", "reset", "failed"}]
        /\ maxi \in 0 .. OPEN_MAX - 1 /\ opened \subseteq Clients
        /\ wire \in [Clients -> Seq(Bytes)]
    BY DEF PollInv, Types, TypeOK
  <1>4. /\ {client[j].fd : j \in Slot} \ {NULL} = opened
        /\ \A j \in Slot : client[j].fd # NULL =>
             j <= maxi /\ \A k \in Slot : client[k].fd = client[j].fd => k = j
        /\ \A j \in Slot : j > maxi => ~client[j].revents
        /\ \A d \in opened : peer[d] # "new"
    BY <1>1 DEF PollInv, TableOK, Alive, At
  <1>5. /\ client'[main.i].fd = NULL /\ client'[main.i].revents = client[main.i].revents
        /\ \A j \in Slot : j # main.i => client'[j] = client[j]
        /\ client' \in [Slot -> [fd : Clients \cup {NULL}, revents : BOOLEAN]]
    <2> DEFINE e == [fd |-> NULL, revents |-> client[main.i].revents]
    <2>1. client[main.i] \in [fd : Clients \cup {NULL}, revents : BOOLEAN]
      BY <1>2, <1>3
    <2>2. e \in [fd : Clients \cup {NULL}, revents : BOOLEAN]
      BY <2>1
    <2>3. [client[main.i] EXCEPT !.fd = NULL] = e
      BY <2>1
    <2>4. client' = [client EXCEPT ![main.i] = e]
      BY <1>1, <2>3
    <2>5. e.fd = NULL /\ e.revents = client[main.i].revents
      OBVIOUS
    <2> HIDE DEF e
    <2>6. /\ client'[main.i] = e
          /\ \A j \in Slot : j # main.i => client'[j] = client[j]
          /\ client' \in [Slot -> [fd : Clients \cup {NULL}, revents : BOOLEAN]]
      BY <1>2, <1>3, <2>2, <2>4
    <2> QED
      BY <2>5, <2>6
  <1>6. /\ peer' \in [Clients -> {"new", "here", "closed", "reset", "failed"}]
        /\ peer'[c] = "closed" /\ \A d \in Clients : d # c => peer'[d] = peer[d]
    BY <1>1, <1>3
  <1>7. \A j \in Marks(main.i) : j # main.i => (Ready(client[j].fd) => Ready(client[j].fd)')
    <2> SUFFICES ASSUME NEW j \in Marks(main.i), j # main.i, Ready(client[j].fd)
                 PROVE  Ready(client[j].fd)'
      OBVIOUS
    <2>1. main.i \in 1 .. OPEN_MAX
      BY DEF PollInv, Types, TypeOK
    <2>2. j \in Slot /\ client[j].fd # NULL
      BY <1>3, <2>1 DEF Marks, Marked, Slot
    <2>3. client'[j] = client[j] /\ client[j].fd \in Clients /\ client[j].fd # c
      BY <1>2, <1>3, <1>5, <2>2
    <2>4. peer'[client[j].fd] = peer[client[j].fd] /\ wire' = wire
      BY <1>1, <1>6, <2>3
    <2> QED
      BY <2>3, <2>4 DEF Ready
  <1>8. /\ main' \in Mains /\ main'.pc \in {"loop", "scan"}
        /\ nready' \in -1 .. OPEN_MAX
        /\ MarksOK'
    BY <1>1, <1>5, <1>7, AfterEntryMarks DEF PollInv, At
  <1>9. Types'
    <2>1. main'.pc \in PCs /\ main'.i \in 1 .. OPEN_MAX
      BY <1>8 DEF Mains
    <2>2. opened' \subseteq Clients
      BY <1>1, <1>3
    <2> QED
      BY <1>1, <1>5, <1>6, <1>8, <2>1, <2>2 DEF PollInv, Types, TypeOK, fileVars
  <1>10. TableOK'
    <2>1. \A j \in Slot : client'[j].fd = IF j = main.i THEN NULL ELSE client[j].fd
      BY <1>5
    <2>2. {client'[j].fd : j \in Slot} \ {NULL} = opened'
      <3>1. ASSUME NEW j \in Slot, client'[j].fd # NULL
            PROVE  client'[j].fd \in opened'
        BY <1>1, <1>2, <1>4, <2>1, <3>1
      <3>2. ASSUME NEW d \in opened'
            PROVE  d # NULL /\ \E j \in Slot : client'[j].fd = d
        <4>1. d \in opened /\ d # c
          BY <1>1
        <4>2. PICK j \in Slot : client[j].fd = d
          BY <1>4, <4>1
        <4>3. j # main.i
          BY <1>1, <4>1, <4>2
        <4>4. d # NULL
          BY <1>4, <4>1
        <4> QED
          BY <2>1, <4>2, <4>3, <4>4
      <3> QED
        BY <3>1, <3>2
    <2>3. \A j \in Slot : client'[j].fd # NULL =>
            j <= maxi' /\ \A k \in Slot : client'[k].fd = client'[j].fd => k = j
      BY <1>1, <1>4, <2>1
    <2>4. \A j \in Slot : j > maxi' => ~client'[j].revents
      BY <1>1, <1>4, <1>5
    <2>5. \A d \in opened' : peer'[d] # "new"
      BY <1>1, <1>3, <1>4, <1>6
    <2> QED
      BY <2>2, <2>3, <2>4, <2>5 DEF TableOK
  <1>11. FileOK'
    BY <1>1, <1>8, FileStays DEF PollInv, At
  <1>12. EndsOnlyFull'
    BY <1>8, NoShutdown
  <1> QED
    BY <1>8, <1>9, <1>10, <1>11, <1>12 DEF PollInv

LEMMA ReadFailsInv ==
  ASSUME PollInv, NEW c \in Clients, ReadFails(c)
  PROVE  PollInv'
  <1>1. /\ At("scan") /\ peer' = [peer EXCEPT ![c] = "closed"] /\ Goto("loop")
        /\ UNCHANGED <<wire, sends, opened, fileVars, tableVars, nready, sig_triggered>>
    BY DEF ReadFails, Reading
  <1>2. /\ peer \in [Clients -> {"new", "here", "closed", "reset", "failed"}]
        /\ opened \subseteq Clients
    BY DEF PollInv, Types, TypeOK
  <1>3. /\ peer' \in [Clients -> {"new", "here", "closed", "reset", "failed"}]
        /\ \A d \in opened : peer[d] # "new" => peer'[d] # "new"
    BY <1>1, <1>2
  <1>4. main' \in Mains /\ main'.pc = "loop"
    BY <1>1, GotoTyped DEF PollInv, PCs
  <1>5. Types'
    <2>1. main'.pc \in PCs /\ main'.i \in 1 .. OPEN_MAX
      BY <1>4 DEF Mains
    <2> QED
      BY <1>1, <1>3, <1>4, <2>1 DEF PollInv, Types, TypeOK, fileVars, tableVars
  <1>6. TableOK'
    BY <1>1, <1>3, TableStays DEF PollInv, Alive, At, tableVars
  <1>7. MarksOK'
    BY <1>4, NoMarks
  <1>8. FileOK'
    BY <1>1, <1>4, FileStays DEF PollInv, At
  <1> QED
    BY <1>4, <1>5, <1>6, <1>7, <1>8, NoShutdown DEF PollInv

\* From here to the end of the message the entry may be one whose client has
\* nothing more to read.
LEMMA ReadInv ==
  ASSUME PollInv, NEW c \in Clients, Read(c)
  PROVE  PollInv'
  <1>1. /\ At("scan") /\ main.i <= maxi /\ Marked(main.i) /\ c = client[main.i].fd
        /\ wire[c] # <<>> /\ wire' = [wire EXCEPT ![c] = <<>>]
        /\ main' = [main EXCEPT !.pc = "message", !.rest = wire[c]]
        /\ UNCHANGED <<peer, sends, opened, fileVars, tableVars, nready, sig_triggered>>
    BY DEF Read, Reading, Entry
  <1>2. /\ main.i \in Slot
        /\ \A j \in Slot : client[j].fd = c => j = main.i
    BY <1>1, ReadingEntry DEF Entry, At
  <1>3. /\ client \in [Slot -> [fd : Clients \cup {NULL}, revents : BOOLEAN]]
        /\ maxi \in 0 .. OPEN_MAX - 1 /\ wire \in [Clients -> Seq(Bytes)]
        /\ main \in Mains /\ main.i \in 1 .. OPEN_MAX
    BY DEF PollInv, Types, TypeOK
  <1>4. /\ main' \in Mains /\ main'.pc = "message" /\ main'.i = main.i
        /\ main'.rest = wire[c]
    <2>1. wire[c] \in Seq(Bytes)
      BY <1>3
    <2> QED
      BY <1>1, <1>3, <2>1 DEF Mains, PCs
  <1>5. wire' \in [Clients -> Seq(Bytes)]
    <2>1. <<>> \in Seq(Bytes)
      OBVIOUS
    <2> QED
      BY <1>1, <1>3, <2>1
  <1>6. Types'
    <2>1. main'.pc \in PCs /\ main'.i \in 1 .. OPEN_MAX
      BY <1>4 DEF Mains
    <2> QED
      BY <1>1, <1>4, <1>5, <2>1 DEF PollInv, Types, TypeOK, fileVars, tableVars
  <1>7. TableOK'
    BY <1>1, TableStays DEF PollInv, Alive, At, tableVars
  <1>8. MarksOK'
    <2>1. Marks(main.i)' = Marks(main.i) /\ Marked(main.i)' = Marked(main.i)
      BY <1>1, <1>4 DEF Marks, Marked, tableVars
    <2>2. \A j \in Marks(main.i) : Ready(client[j].fd) /\ j \in Slot
      BY <1>1, <1>3 DEF PollInv, MarksOK, At, Marks, Slot
    <2>3. \A j \in Marks(main.i) : j # main.i => Ready(client[j].fd)'
      <3> SUFFICES ASSUME NEW j \in Marks(main.i), j # main.i
                   PROVE  Ready(client[j].fd)'
        OBVIOUS
      <3>1. j \in Slot /\ client[j].fd # NULL /\ Ready(client[j].fd)
        BY <2>2 DEF Marks, Marked
      <3>2. client'[j].fd = client[j].fd /\ client[j].fd \in Clients /\ client[j].fd # c
        BY <1>1, <1>2, <1>3, <3>1 DEF tableVars
      <3>3. wire'[client[j].fd] = wire[client[j].fd] /\ peer' = peer
        BY <1>1, <1>3, <3>2
      <3> QED
        BY <3>1, <3>2, <3>3 DEF Ready
    <2>4. nready' = Cardinality(Marks(main.i)) /\ maxi' = maxi
      BY <1>1 DEF PollInv, MarksOK, At, tableVars
    <2> HIDE DEF Marks, Marked
    <2> QED
      BY <1>1, <1>4, <2>1, <2>3, <2>4 DEF MarksOK, At
  <1>9. FileOK'
    BY <1>1, <1>4 DEF PollInv, FileOK, At, fileVars
  <1> QED
    BY <1>4, <1>6, <1>7, <1>8, <1>9, NoShutdown DEF PollInv

-----------------------------------------------------------------------------
(***************************************************************************)
(* The lines of a message and their answers.                               *)
(***************************************************************************)

\* A write of the whole line at the end of what was received extends it.
LEMMA WriteExtends ==
  ASSUME file \in Seq(Bytes), received \in Seq(Bytes), NEW line \in Seq(Bytes),
         IsPrefix(received, file)
  PROVE  IsPrefix(received \o line, Overwritten(Len(received), line))
  <1> DEFINE new == Overwritten(Len(received), line)
             all == received \o line
             n == Len(received)
             m == Len(line)
  <1>1. n \in Nat /\ m \in Nat
    OBVIOUS
  <1>2. n <= Len(file) /\ \A k \in 1 .. n : received[k] = file[k]
    BY PrefixPointwise
  <1>3. /\ new \in Seq(Bytes)
        /\ Len(new) = IF Len(file) < n + m THEN n + m ELSE Len(file)
        /\ \A k \in 1 .. m : new[n + k] = line[k]
        /\ \A k \in 1 .. Len(file) : k <= n => new[k] = file[k]
    BY <1>1, OverwrittenBytes
  <1>4. /\ all \in Seq(Bytes) /\ Len(all) = n + m
        /\ \A k \in 1 .. n + m : all[k] = IF k <= n THEN received[k] ELSE line[k - n]
    BY ConcatProperties
  <1> HIDE DEF new, all, n, m
  <1>5. Len(all) <= Len(new)
    BY <1>1, <1>3, <1>4
  <1>6. \A k \in 1 .. Len(all) : all[k] = new[k]
    <2> SUFFICES ASSUME NEW k \in 1 .. n + m
                 PROVE  all[k] = new[k]
      BY <1>4
    <2>1. CASE k <= n
      <3>1. k \in 1 .. n /\ k \in 1 .. Len(file)
        BY <1>1, <1>2, <2>1
      <3> QED
        BY <1>2, <1>3, <1>4, <2>1, <3>1
    <2>2. CASE ~ (k <= n)
      <3>1. k - n \in 1 .. m /\ n + (k - n) = k
        BY <1>1, <2>2
      <3> QED
        BY <1>3, <1>4, <2>2, <3>1
    <2> QED
      BY <2>1, <2>2
  <1>7. IsPrefix(all, new)
    BY <1>3, <1>4, <1>5, <1>6, PrefixPointwise
  <1> QED
    BY <1>7 DEF all, new, n

LEMMA WriteLineInv ==
  ASSUME PollInv, WriteLine
  PROVE  PollInv'
  <1> DEFINE line == Line(main.rest)
             rest == SubSeq(main.rest, Len(line) + 1, Len(main.rest))
  <1>1. PICK k \in 1 .. Len(line) :
          /\ file' = Overwritten(pos, SubSeq(line, 1, k))
          /\ short' = (short \/ k < Len(line))
          /\ IF LineEnds(line) # {}
             THEN /\ pos' = 0
                  /\ main' = [main EXCEPT !.pc = "dump", !.rest = rest,
                                          !.left = file_size + Len(line),
                                          !.answer = <<>>]
                  /\ UNCHANGED nready
             ELSE pos' = pos + k /\ AfterEntry
    BY DEF WriteLine
  <1>2. /\ At("message")
        /\ file_size' = file_size + Len(line)
        /\ received' = received \o line
        /\ UNCHANGED <<netVars, tableVars, sig_triggered>>
    BY DEF WriteLine
  <1>3. /\ file \in Seq(Bytes) /\ received \in Seq(Bytes) /\ pos \in Nat /\ file_size \in Nat
        /\ main \in Mains /\ main.rest \in Seq(Bytes) /\ maxi \in 0 .. OPEN_MAX - 1
        /\ short \in BOOLEAN /\ nready \in -1 .. OPEN_MAX
    BY DEF PollInv, Types, TypeOK, Mains
  <1>4. /\ main.rest # <<>> /\ file_size = Len(received)
        /\ ~short => IsPrefix(received, file) /\ pos = file_size
    BY <1>2 DEF PollInv, FileOK, At
  <1>5. /\ line \in Seq(Bytes) /\ Len(line) \in 1 .. Len(main.rest)
        /\ LineEnds(line) # {} => line[Len(line)] = NL
    BY <1>3, <1>4, LineOfBytes
  <1>6. Len(main.rest) \in Nat /\ Len(line) \in Nat \ {0}
    BY <1>3, <1>5
  <1>7. rest \in Seq(Bytes)
    BY <1>3, <1>5, <1>6, SubSeqOfBytes
  <1> HIDE DEF line, rest
  <1>8. SubSeq(line, 1, k) \in Seq(Bytes) /\ (k = Len(line) => SubSeq(line, 1, k) = line)
    BY <1>5, <1>6, SubSeqOfBytes, SubSeqFull
  <1>9. file' \in Seq(Bytes)
    BY <1>1, <1>3, <1>8, OverwrittenBytes
  <1>10. /\ received' \in Seq(Bytes) /\ Len(received') = Len(received) + Len(line)
         /\ received'[Len(received')] = line[Len(line)]
    <2>1. Len(received) \in Nat
      BY <1>3
    <2>2. /\ received \o line \in Seq(Bytes)
          /\ Len(received \o line) = Len(received) + Len(line)
          /\ \A j \in 1 .. Len(received) + Len(line) : (received \o line)[j] =
               IF j <= Len(received) THEN received[j] ELSE line[j - Len(received)]
      BY <1>3, <1>5, ConcatProperties
    <2>3. /\ Len(received) + Len(line) \in 1 .. Len(received) + Len(line)
          /\ ~ (Len(received) + Len(line) <= Len(received))
          /\ (Len(received) + Len(line)) - Len(received) = Len(line)
      BY <1>6, <2>1
    <2> QED
      BY <1>2, <2>2, <2>3
  <1>11. file_size' = Len(received') /\ file_size' \in Nat /\ received' # <<>>
    BY <1>2, <1>3, <1>4, <1>6, <1>10
  <1>12. ~short' => IsPrefix(received', file') /\ k = Len(line)
    <2> SUFFICES ASSUME ~short'
                 PROVE  IsPrefix(received', file') /\ k = Len(line)
      OBVIOUS
    <2>1. ~short /\ k = Len(line)
      <3>1. ~short /\ ~ (k < Len(line))
        BY <1>1
      <3>2. k \in 1 .. Len(line)
        OBVIOUS
      <3> QED
        BY <1>6, <3>1, <3>2
    <2>2. file' = Overwritten(Len(received), line)
      BY <1>1, <1>4, <1>8, <2>1
    <2> QED
      BY <1>2, <1>3, <1>4, <1>5, <2>1, <2>2, WriteExtends
  <1>13. short' \in BOOLEAN
    BY <1>1
  <1>14. main.i <= maxi /\ Marked(main.i)
    BY <1>2 DEF PollInv, MarksOK, At
  <1>15. CASE LineEnds(line) # {}
    <2>1. /\ pos' = 0 /\ nready' = nready
          /\ main' = [main EXCEPT !.pc = "dump", !.rest = rest,
                                  !.left = file_size + Len(line), !.answer = <<>>]
      BY <1>1, <1>15
    <2>2. file_size + Len(line) \in Int /\ <<>> \in Seq(Bytes)
      BY <1>3, <1>6
    <2>3. /\ main' \in Mains /\ main'.pc = "dump" /\ main'.i = main.i
          /\ main'.left = file_size + Len(line) /\ main'.answer = <<>>
      BY <1>3, <1>7, <2>1, <2>2 DEF Mains, PCs
    <2>4. Types'
      <3>1. main'.pc \in PCs /\ main'.i \in 1 .. OPEN_MAX
        BY <2>3 DEF Mains
      <3> QED
        BY <1>2, <1>9, <1>10, <1>11, <1>13, <2>1, <2>3, <3>1
           DEF PollInv, Types, TypeOK, netVars, tableVars
    <2>5. TableOK'
      BY <1>2, TableStays DEF PollInv, Alive, At, netVars, tableVars
    <2>6. MarksOK'
      <3>1. /\ Marks(main.i)' = Marks(main.i) /\ Marked(main.i)' = Marked(main.i)
            /\ maxi' = maxi
            /\ \A j : Ready(client[j].fd)' = Ready(client[j].fd)
        BY <1>2, <2>3 DEF Marks, Marked, Ready, netVars, tableVars
      <3>2. /\ \A j \in Marks(main.i) : Ready(client[j].fd) \/ j = main.i
            /\ nready = Cardinality(Marks(main.i))
        BY <1>2 DEF PollInv, MarksOK, At
      <3> HIDE DEF Marks, Marked, Ready
      <3> QED
        BY <1>14, <2>1, <2>3, <3>1, <3>2 DEF MarksOK, At
    <2>7. FileOK'
      <3>1. main'.answer = SubSeq(file', 1, pos') /\ pos' <= Len(file')
        <4>1. SubSeq(file', 1, 0) = <<>>
          BY SubSeqEmpty
        <4>2. Len(file') \in Nat
          BY <1>9
        <4> QED
          BY <2>1, <2>3, <4>1, <4>2
      <3>2. main'.left = file_size' - pos'
        BY <1>2, <1>3, <1>6, <2>1, <2>3, SMTT(30)
      <3>3. Last(received') = NL
        BY <1>5, <1>10, <1>15 DEF Last
      <3> QED
        BY <1>11, <1>12, <2>3, <3>1, <3>2, <3>3 DEF FileOK, At
    <2> QED
      BY <2>3, <2>4, <2>5, <2>6, <2>7, NoShutdown DEF PollInv
  <1>16. CASE LineEnds(line) = {}
    <2>1. pos' = pos + k /\ AfterEntry
      BY <1>1, <1>16
    <2>2. /\ \A j \in Marks(main.i) : j # main.i => (Ready(client[j].fd) => Ready(client[j].fd)')
          /\ maxi' = maxi /\ \A j \in Slot : j # main.i => client'[j] = client[j]
      BY <1>2 DEF Ready, netVars, tableVars
    <2>3. /\ main' \in Mains /\ main'.pc \in {"loop", "scan"}
          /\ nready' \in -1 .. OPEN_MAX
          /\ MarksOK'
      BY <1>2, <1>14, <2>1, <2>2, AfterEntryMarks DEF PollInv, At
    <2>4. pos' \in Nat
      BY <1>3, <1>6, <2>1
    <2>5. Types'
      <3>1. main'.pc \in PCs /\ main'.i \in 1 .. OPEN_MAX
        BY <2>3 DEF Mains
      <3> QED
        BY <1>2, <1>9, <1>10, <1>11, <1>13, <2>3, <2>4, <3>1
           DEF PollInv, Types, TypeOK, netVars, tableVars
    <2>6. TableOK'
      BY <1>2, TableStays DEF PollInv, Alive, At, netVars, tableVars
    <2>7. FileOK'
      <3>1. ~short' => pos' = file_size'
        <4> SUFFICES ASSUME ~short'
                     PROVE  pos' = file_size'
          OBVIOUS
        <4>1. ~short
          BY <1>1
        <4> QED
          BY <1>2, <1>4, <1>12, <2>1, <4>1
      <3> QED
        BY <1>11, <1>12, <2>3, <3>1 DEF FileOK, At
    <2> QED
      BY <2>3, <2>5, <2>6, <2>7, NoShutdown DEF PollInv
  <1> QED
    BY <1>15, <1>16

LEMMA WriteFailsInv ==
  ASSUME PollInv, WriteFails
  PROVE  PollInv'
  <1>1. /\ At("message") /\ AfterEntry
        /\ UNCHANGED <<netVars, fileVars, tableVars, sig_triggered>>
    BY DEF WriteFails
  <1>2. main.i <= maxi /\ Marked(main.i)
    BY <1>1 DEF PollInv, MarksOK, At
  <1>3. /\ \A j \in Marks(main.i) : j # main.i => (Ready(client[j].fd) => Ready(client[j].fd)')
        /\ maxi' = maxi /\ \A j \in Slot : j # main.i => client'[j] = client[j]
    BY <1>1 DEF Ready, netVars, tableVars
  <1>4. /\ main' \in Mains /\ main'.pc \in {"loop", "scan"}
        /\ nready' \in -1 .. OPEN_MAX
        /\ MarksOK'
    BY <1>1, <1>2, <1>3, AfterEntryMarks DEF PollInv, At
  <1>5. Types'
    BY <1>1, <1>4, TypesMove DEF PollInv, Types, TypeOK
  <1>6. TableOK'
    BY <1>1, TableStays DEF PollInv, Alive, At, netVars, tableVars
  <1>7. FileOK'
    BY <1>1, <1>4, FileStays DEF PollInv, At
  <1> QED
    BY <1>4, <1>5, <1>6, <1>7, NoShutdown DEF PollInv

\* What has been sent is always the beginning of the file, up to pos.
LEMMA DumpChunkInv ==
  ASSUME PollInv, DumpChunk
  PROVE  PollInv'
  <1> DEFINE n == Min({pos + BUFFSIZE, Len(file)})
             chunk == SubSeq(file, pos + 1, n)
  <1>1. /\ At("dump") /\ pos < Len(file)
        /\ pos' = pos + Len(chunk)
        /\ main' = [main EXCEPT !.left = @ - Len(chunk), !.answer = @ \o chunk]
        /\ UNCHANGED <<netVars, file, file_size, received, short, tableVars, nready,
                       sig_triggered>>
    BY DEF DumpChunk
  <1>2. /\ file \in Seq(Bytes) /\ pos \in Nat /\ file_size \in Nat
        /\ main \in Mains /\ main.left \in Int /\ main.answer \in Seq(Bytes)
    BY DEF PollInv, Types, TypeOK, Mains
  <1>3. Len(file) \in Nat
    BY <1>2
  <1>4. n \in pos + 1 .. Len(file)
    <2>1. n = IF pos + BUFFSIZE < Len(file) THEN pos + BUFFSIZE ELSE Len(file)
      BY <1>2, <1>3, MinOfTwo
    <2> QED
      BY <1>1, <1>2, <1>3, <2>1, SMTT(30)
  <1> HIDE DEF n
  <1>5. chunk \in Seq(Bytes) /\ Len(chunk) = n - pos
    <2>1. /\ pos + 1 \in Nat \ {0} /\ n \in Nat /\ n <= Len(file) /\ pos + 1 <= n
          /\ n - (pos + 1) + 1 = n - pos
      BY <1>2, <1>3, <1>4
    <2> QED
      BY <1>2, <2>1, SubSeqOfBytes
  <1>6. main.answer = SubSeq(file, 1, pos) /\ main.left = file_size - pos
    BY <1>1 DEF PollInv, FileOK, At
  <1>7. main.answer \o chunk = SubSeq(file, 1, n)
    <2>1. 1 \in 1 .. Len(file) + 1 /\ pos \in 1 - 1 .. Len(file) /\ n \in pos .. Len(file)
      BY <1>1, <1>2, <1>3, <1>4, SMTT(30)
    <2> QED
      BY <1>2, <1>6, <2>1, ConcatAdjacentSubSeq
  <1> HIDE DEF chunk
  <1>8. /\ pos' = n /\ n \in Nat /\ n <= Len(file)
        /\ main.left - Len(chunk) = file_size - n /\ main.left - Len(chunk) \in Int
    BY <1>1, <1>2, <1>3, <1>4, <1>5, <1>6, SMTT(30)
  <1>9. /\ main' \in Mains /\ main'.pc = "dump" /\ main'.i = main.i
        /\ main'.left = file_size - n /\ main'.answer = SubSeq(file, 1, n)
    <2>1. main.answer \o chunk \in Seq(Bytes)
      BY <1>2, <1>5, ConcatProperties
    <2>2. /\ main' \in Mains /\ main'.pc = main.pc /\ main'.i = main.i
          /\ main'.left = main.left - Len(chunk) /\ main'.answer = main.answer \o chunk
      BY <1>1, <1>2, <1>8, <2>1 DEF Mains
    <2> QED
      BY <1>1, <1>7, <1>8, <2>2 DEF At
  <1>10. Types'
    <2>1. main'.pc \in PCs /\ main'.i \in 1 .. OPEN_MAX
      BY <1>9 DEF Mains
    <2> QED
      BY <1>1, <1>8, <1>9, <2>1 DEF PollInv, Types, TypeOK, netVars, tableVars
  <1>11. TableOK'
    BY <1>1, TableStays DEF PollInv, Alive, At, netVars, tableVars
  <1>12. MarksOK'
    <2>1. /\ Marks(main.i)' = Marks(main.i) /\ Marked(main.i)' = Marked(main.i)
          /\ maxi' = maxi /\ nready' = nready
          /\ \A j : Ready(client[j].fd)' = Ready(client[j].fd)
      BY <1>1, <1>9 DEF Marks, Marked, Ready, netVars, tableVars
    <2>2. /\ \A j \in Marks(main.i) : Ready(client[j].fd) \/ j = main.i
          /\ nready = Cardinality(Marks(main.i))
          /\ main.i <= maxi /\ Marked(main.i)
      BY <1>1 DEF PollInv, MarksOK, At
    <2> HIDE DEF Marks, Marked, Ready
    <2> QED
      BY <1>9, <2>1, <2>2 DEF MarksOK, At
  <1>13. FileOK'
    BY <1>1, <1>8, <1>9 DEF PollInv, FileOK, At
  <1> QED
    BY <1>9, <1>10, <1>11, <1>12, <1>13, NoShutdown DEF PollInv

LEMMA DumpEndInv ==
  ASSUME PollInv, DumpEnd
  PROVE  PollInv'
  <1>1. /\ At("dump") /\ pos' = file_size
        /\ IF main.rest = <<>> THEN AfterEntry ELSE Goto("message") /\ UNCHANGED nready
        /\ UNCHANGED <<netVars, file, file_size, received, short, tableVars, sig_triggered>>
    BY DEF DumpEnd
  <1>2. main.i <= maxi /\ Marked(main.i)
    BY <1>1 DEF PollInv, MarksOK, At
  <1>3. /\ \A j : Ready(client[j].fd)' = Ready(client[j].fd)
        /\ maxi' = maxi /\ client' = client
    BY <1>1 DEF Ready, netVars, tableVars
  <1>4. /\ main' \in Mains /\ main'.pc \in {"loop", "scan", "message"}
        /\ nready' \in -1 .. OPEN_MAX
        /\ main'.pc = "message" => main'.rest # <<>>
        /\ MarksOK'
    <2>1. CASE main.rest = <<>>
      <3>1. AfterEntry
        BY <1>1, <2>1
      <3>2. main' \in Mains /\ main'.pc \in {"loop", "scan"} /\ nready' \in -1 .. OPEN_MAX /\ MarksOK'
        BY <1>1, <1>2, <1>3, <3>1, AfterEntryMarks DEF PollInv, At
      <3> QED
        BY <3>2
    <2>2. CASE main.rest # <<>>
      <3>1. Goto("message") /\ nready' = nready
        BY <1>1, <2>2
      <3>2. main' \in Mains /\ main'.pc = "message" /\ main'.i = main.i /\ main'.rest # <<>>
        BY <2>2, <3>1, GotoTyped DEF PollInv, PCs
      <3>3. nready' \in -1 .. OPEN_MAX
        BY <3>1 DEF PollInv, Types, TypeOK
      <3>4. Marks(main.i)' = Marks(main.i) /\ Marked(main.i)' = Marked(main.i)
        BY <1>3, <3>2 DEF Marks, Marked
      <3>5. /\ \A j \in Marks(main.i) : Ready(client[j].fd) \/ j = main.i
            /\ nready = Cardinality(Marks(main.i))
        BY <1>1 DEF PollInv, MarksOK, At
      <3>6. MarksOK'
        <4> HIDE DEF Marks, Marked, Ready
        <4> QED
          BY <1>2, <1>3, <3>1, <3>2, <3>4, <3>5 DEF MarksOK, At
      <3> QED
        BY <3>2, <3>3, <3>6
    <2> QED
      BY <2>1, <2>2
  <1>5. Types'
    <2>1. main'.pc \in PCs /\ main'.i \in 1 .. OPEN_MAX
      BY <1>4 DEF Mains
    <2> QED
      BY <1>1, <1>4, <2>1 DEF PollInv, Types, TypeOK, netVars, tableVars
  <1>6. TableOK'
    BY <1>1, TableStays DEF PollInv, Alive, At, netVars, tableVars
  <1>7. FileOK'
    BY <1>1, <1>4 DEF PollInv, FileOK, At
  <1> QED
    BY <1>4, <1>5, <1>6, <1>7, NoShutdown DEF PollInv

-----------------------------------------------------------------------------
(***************************************************************************)
(* The end of the process, and the whole.                                  *)
(***************************************************************************)
LEMMA KilledInv ==
  ASSUME PollInv, Killed
  PROVE  PollInv'
  <1>1. /\ main' = [NewMain EXCEPT !.pc = "killed"]
        /\ peer' = [c \in Clients |-> IF c \in opened THEN "closed" ELSE peer[c]]
        /\ wire' = [c \in Clients |-> <<>>]
        /\ opened' = {}
        /\ pos' = 0 /\ file_size' = 0 /\ received' = <<>> /\ short' = FALSE
        /\ client' = [j \in Slot |-> Unused]
        /\ listen_revents' = FALSE /\ maxi' = 0 /\ nready' = 0
        /\ sig_triggered' = FALSE
        /\ UNCHANGED <<sends, file>>
    BY DEF Killed
  <1>2. main' \in Mains /\ main'.pc = "killed"
    <2>1. NewMain \in Mains
      BY EmptySeq DEF NewMain, Mains, PCs, StartCalls
    <2> QED
      BY <1>1, <2>1 DEF Mains, PCs
  <1>3. Types'
    <2>1. main'.pc \in PCs /\ main'.i \in 1 .. OPEN_MAX
      BY <1>2 DEF Mains
    <2>2. client' \in [Slot -> [fd : Clients \cup {NULL}, revents : BOOLEAN]]
      BY <1>1 DEF Unused
    <2>3. peer' \in [Clients -> {"new", "here", "closed", "reset", "failed"}]
      BY <1>1 DEF PollInv, Types, TypeOK
    <2>4. /\ wire' \in [Clients -> Seq(Bytes)] /\ received' \in Seq(Bytes)
          /\ file' \in Seq(Bytes)
      BY <1>1, EmptySeq DEF PollInv, Types
    <2>5. /\ pos' \in Nat /\ file_size' \in Nat
          /\ maxi' \in 0 .. OPEN_MAX - 1 /\ nready' \in -1 .. OPEN_MAX
      BY <1>1
    <2>6. /\ short' \in BOOLEAN /\ opened' \subseteq Clients
          /\ listen_revents' \in BOOLEAN /\ sig_triggered' \in BOOLEAN
      BY <1>1
    <2> QED
      BY <1>2, <2>1, <2>2, <2>3, <2>4, <2>5, <2>6 DEF Types, TypeOK
  <1>4. TableOK'
    <2>1. \A j \in Slot : client'[j].fd = NULL /\ ~client'[j].revents
      BY <1>1 DEF Unused
    <2> QED
      BY <1>1, <2>1 DEF TableOK
  <1>5. MarksOK'
    BY <1>2, NoMarks
  <1>6. FileOK'
    <2>1. file' \in Seq(Bytes) /\ received' \in Seq(Bytes) /\ Len(received') = 0
      BY <1>1, EmptySeq DEF PollInv, Types
    <2>2. /\ Len(received') <= Len(file')
          /\ \A k \in 1 .. Len(received') : received'[k] = file'[k]
      BY <2>1
    <2>3. IsPrefix(received', file')
      BY <2>1, <2>2, PrefixPointwise
    <2> QED
      BY <1>1, <1>2, <2>1, <2>3 DEF FileOK, At
  <1> QED
    BY <1>2, <1>3, <1>4, <1>5, <1>6, NoShutdown DEF PollInv

LEMMA ShutdownInv ==
  ASSUME PollInv, Shutdown
  PROVE  PollInv'
  <1>1. /\ file' = <<>> /\ opened' = {} /\ Goto("exited")
        /\ UNCHANGED <<peer, wire, sends, pos, file_size, received, short, tableVars, nready,
                       sig_triggered>>
    BY DEF Shutdown
  <1>2. main' \in Mains /\ main'.pc = "exited"
    BY <1>1, GotoTyped DEF PollInv, PCs
  <1>3. Types'
    <2>1. main'.pc \in PCs /\ main'.i \in 1 .. OPEN_MAX
      BY <1>2 DEF Mains
    <2>2. file' \in Seq(Bytes) /\ opened' \subseteq Clients
      BY <1>1, EmptySeq
    <2> QED
      BY <1>1, <1>2, <2>1, <2>2 DEF PollInv, Types, TypeOK, tableVars
  <1>4. TableOK' /\ FileOK'
    BY <1>2 DEF TableOK, FileOK, Alive
  <1> QED
    BY <1>2, <1>3, <1>4, NoMarks, NoShutdown DEF PollInv

LEMMA NextInv == PollInv /\ [Next]_vars => PollInv'
  <1> SUFFICES ASSUME PollInv, [Next]_vars
               PROVE  PollInv'
    OBVIOUS
  <1>1. ASSUME NEW c \in Clients, Leave(c)
        PROVE  PollInv'
    BY <1>1, LeaveInv
  <1>2. ASSUME NEW c \in Clients, NEW m \in Messages, Send(c, m)
        PROVE  PollInv'
    BY <1>2, SendInv
  <1>3. CASE Signal
    BY <1>3, SignalInv
  <1>4. CASE PollReady
    BY <1>4, PollReadyInv
  <1>5. CASE PollFails
    <2>1. sig_triggered' \in BOOLEAN
      BY <1>5 DEF PollFails, PollInv, Types, TypeOK
    <2> QED
      BY <1>5, <2>1, PollFailsInv DEF PollFails
  <1>6. CASE Start \/ make_daemon \/ StartFails \/ Enter \/ Restart
    BY <1>6, StartInv
  <1>7. CASE Test
    BY <1>7, TestInv
  <1>8. CASE Accept
    BY <1>8, AcceptInv
  <1>9. CASE TableFull
    BY <1>9, TableFullInv
  <1>10. CASE ScanNext
    BY <1>10, ScanNextInv
  <1>11. ASSUME NEW c \in Clients, Close(c) \/ ReadFails(c) \/ Read(c)
         PROVE  PollInv'
    BY <1>11, CloseInv, ReadFailsInv, ReadInv
  <1>12. CASE WriteLine
    BY <1>12, WriteLineInv
  <1>13. CASE WriteFails
    BY <1>13, WriteFailsInv
  <1>14. CASE DumpChunk
    BY <1>14, DumpChunkInv
  <1>15. CASE DumpEnd
    BY <1>15, DumpEndInv
  <1>16. CASE Sigpipe \/ Crash
    BY <1>16, KilledInv DEF Sigpipe, Crash
  <1>17. CASE Shutdown
    BY <1>17, ShutdownInv
  <1>18. CASE UNCHANGED vars
    BY <1>18 DEF vars, netVars, fileVars, tableVars, PollInv, Types, TypeOK, TableOK,
                 MarksOK, FileOK, EndsOnlyFull, Alive, Marks, Marked, Ready, Waiting, At
  <1> QED
    BY <1>1, <1>2, <1>3, <1>4, <1>5, <1>6, <1>7, <1>8, <1>9, <1>10, <1>11, <1>12,
       <1>13, <1>14, <1>15, <1>16, <1>17, <1>18 DEF Next, ServerStep

LEMMA SpecInv == Spec => []PollInv
  BY InitInv, NextInv, PTL DEF Spec

\* Every variable has its type in every behaviour of the poll server: nready and
\* maxi stay within the table, whatever the clients and the failures do.
THEOREM Typed == Spec => []TypeOK
  <1>1. PollInv => TypeOK
    BY DEF PollInv, Types
  <1> QED
    BY <1>1, SpecInv, PTL

\* The table of aesd_run holds every open connection exactly once, before maxi.
THEOREM TableHolds == Spec => []TableHoldsConnections
  <1>1. PollInv => TableHoldsConnections
    BY DEF PollInv, TableOK, TableHoldsConnections, Alive, Running, At
  <1> QED
    BY <1>1, SpecInv, PTL

\* The scan of aesd_run reads only where read will not wait, and nready counts
\* what is left, also when accept has just filled an entry.
THEOREM ScanReadsReady == Spec => []ReadsOnlyReady
  <1>1. PollInv => ReadsOnlyReady
    BY DEF PollInv, MarksOK, ReadsOnlyReady, Marks, At
  <1> QED
    BY <1>1, SpecInv, PTL

\* Without a signal the loop of aesd_run ends only when all entries are open.
THEOREM EndsFull == Spec => []EndsOnlyFull
  <1>1. PollInv => EndsOnlyFull
    BY DEF PollInv
  <1> QED
    BY <1>1, SpecInv, PTL

\* Unless a write was cut short, the file begins with what was received, and the
\* next line of process_message goes behind it.
THEOREM FileHolds == Spec => []FileHoldsReceived
  <1>1. PollInv => FileHoldsReceived
    BY DEF PollInv, FileOK, FileHoldsReceived, Running, At
  <1> QED
    BY <1>1, SpecInv, PTL

LEMMA DumpEndAnswers ==
  ASSUME PollInv, DumpEnd, ~short
  PROVE  /\ Last(received) = NL
         /\ IsPrefix(received, main.answer)
         /\ IsPrefix(main.answer, file)
  <1>1. /\ file_size = Len(received) /\ IsPrefix(received, file)
        /\ pos <= Len(file) /\ main.answer = SubSeq(file, 1, pos)
        /\ main.left = file_size - pos /\ Last(received) = NL
    BY DEF PollInv, FileOK, DumpEnd, At
  <1>2. file \in Seq(Bytes) /\ received \in Seq(Bytes) /\ pos \in Nat
    BY DEF PollInv, Types, TypeOK
  <1>3. Len(file) \in Nat /\ Len(received) \in Nat
    BY <1>2
  <1>4. Len(received) <= Len(file) /\ \A k \in 1 .. Len(received) : received[k] = file[k]
    BY <1>1, <1>2, PrefixPointwise
  <1>5. Len(received) <= pos
    BY <1>1, <1>2, <1>3, <1>4 DEF DumpEnd
  <1>6. /\ main.answer \in Seq(Bytes) /\ Len(main.answer) = pos
        /\ \A k \in 1 .. pos : main.answer[k] = file[k]
    <2>1. /\ SubSeq(file, 1, pos) \in Seq(Bytes)
          /\ Len(SubSeq(file, 1, pos)) = IF 1 <= pos THEN pos - 1 + 1 ELSE 0
          /\ \A k \in 1 .. pos - 1 + 1 : SubSeq(file, 1, pos)[k] = file[1 + k - 1]
      BY <1>1, <1>2, SubSeqOfBytes
    <2> QED
      BY <1>1, <1>2, <2>1
  <1>7. IsPrefix(received, main.answer)
    <2>1. \A k \in 1 .. Len(received) : k \in 1 .. pos
      BY <1>2, <1>3, <1>5
    <2>2. \A k \in 1 .. Len(received) : received[k] = main.answer[k]
      BY <1>4, <1>6, <2>1
    <2> QED
      BY <1>2, <1>5, <1>6, <2>2, PrefixPointwise
  <1>8. IsPrefix(main.answer, file)
    BY <1>1, <1>2, <1>6, PrefixPointwise
  <1> QED
    BY <1>1, <1>7, <1>8

\* When dump_file_to_client has ended, the client has got all that was received,
\* its own line last, and nothing that is not in the file.
THEOREM Answered == Spec => LineAnswered
  <1>1. ASSUME PollInv, [Next]_vars, At("dump"), ~At("dump")', Running', ~short
        PROVE  DumpEnd
    <2>1. main' # main /\ main.pc = "dump" /\ main'.pc \notin {"dump", "killed", "exited"}
      BY <1>1 DEF At, Running
    <2>2. ~Killed
      BY <2>1 DEF Killed, NewMain
    <2>3. ~DumpChunk
      <3> SUFFICES ASSUME DumpChunk
                   PROVE  FALSE
        OBVIOUS
      <3>1. PollInv'
        BY <1>1, DumpChunkInv
      <3>2. main \in Mains
        BY <1>1 DEF PollInv, Types
      <3>3. main'.pc = main.pc
        BY <3>2 DEF DumpChunk, Mains
      <3> QED
        BY <2>1, <3>3
    <2> QED
      BY <1>1, <2>1, <2>2, <2>3
         DEF Next, vars, ServerStep, Leave, Send, Signal, PollReady, PollFails, Start,
             StartCalls, make_daemon, StartFails, Enter, Test, Accept, TableFull, ScanNext,
             Close, ReadFails, Read, Reading, WriteLine, WriteFails, Shutdown, Sigpipe,
             Crash, Restart, At
  <1>2. PollInv /\ [Next]_vars =>
          [At("dump") /\ ~At("dump")' /\ Running' /\ ~short =>
             /\ Last(received) = NL
             /\ IsPrefix(received, main.answer)
             /\ IsPrefix(main.answer, file)]_vars
    BY <1>1, DumpEndAnswers
  <1> QED
    BY <1>2, SpecInv, PTL DEF Spec, LineAnswered
===============================================================================
