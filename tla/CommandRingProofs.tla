-------------------------- MODULE CommandRingProofs --------------------------
(***************************************************************************)
(* The circular buffer under one caller keeps its shape, implements the    *)
(* window of the last commands, and is searched and measured as if they    *)
(* were concatenated, for every number of slots and every set of commands. *)
(***************************************************************************)
EXTENDS CommandRing, CircularBufferProofs

(***************************************************************************)
(* One addition.                                                           *)
(***************************************************************************)

\* add_entry pushes onto the window, and returns what the window drops.
LEMMA AddEntryPushes ==
  ASSUME NEW P, NEW b \in Buffers(P), NEW e \in Entries(P),
         e.buffptr # NULL, e.size > 0, RingShape(b)
  PROVE  /\ OldestFirst(AddEntry(b, e)) = Kept!Pushed(OldestFirst(b), e, MaxOps)
         /\ OldBuff(b) = IF Len(OldestFirst(b)) < MaxOps
                         THEN NULL
                         ELSE Head(OldestFirst(b)).buffptr
  BY AddEntryWindow DEF Kept!Pushed

(***************************************************************************)
(* The specification.                                                      *)
(***************************************************************************)

\* The inductive invariant: add_entry needs the shape to keep the shape.
Inv == TypeOK /\ RingConsistent

LEMMA InitInv == Init => Inv
  BY EmptyBufferShape DEF Init, Inv, TypeOK, RingConsistent

\* What a caller adds is an entry the ring lemmas apply to.
LEMMA CommandsAreEntries ==
  ASSUME NEW e \in Commands
  PROVE  e \in Entries(Ptrs) /\ e.buffptr # NULL /\ e.size > 0
  BY RingAssumption DEF Commands, Entries

LEMMA NextInv == Inv /\ [Next]_vars => Inv'
  <1> SUFFICES ASSUME Inv, [Next]_vars PROVE Inv'
    OBVIOUS
  <1>1. circular_buf \in Buffers(Ptrs) /\ RingShape(circular_buf)
    BY DEF Inv, TypeOK, RingConsistent
  <1>2. ASSUME NEW e \in Commands, Add(e)
        PROVE  Inv'
    <2>1. e \in Entries(Ptrs) /\ e.buffptr # NULL /\ e.size > 0
      BY CommandsAreEntries
    <2>2. circular_buf' \in Buffers(Ptrs)
      BY <1>1, <1>2, <2>1, AddEntryFields DEF Add
    <2>3. RingShape(circular_buf')
      BY <1>1, <1>2, <2>1, AddEntryShape DEF Add
    <2>4. old_buff' \in Ptrs \cup {NULL}
      <3>1. circular_buf.entry[circular_buf.in_offs] \in Entries(Ptrs)
        BY <1>1 DEF Buffers
      <3> QED
        BY <1>2, <3>1 DEF Add, OldBuff, Entries
    <2> QED
      BY <2>2, <2>3, <2>4 DEF Inv, TypeOK, RingConsistent
  <1>3. CASE UNCHANGED vars
    BY <1>3 DEF vars, Inv, TypeOK, RingConsistent
  <1> QED
    BY <1>2, <1>3 DEF Next

\* The indices stay inside the array and every slot holds an entry.
THEOREM RingTypeCorrect == Spec => []TypeOK
  BY InitInv, NextInv, PTL DEF Spec, Inv

\* The indices, the flag and the slots agree, through every wrap.
THEOREM RingStaysConsistent == Spec => []RingConsistent
  BY InitInv, NextInv, PTL DEF Spec, Inv

\* The circular buffer implements the window of the last MaxOps commands: each
\* add_entry is one Push of the same command, and the pointer it returns is
\* the one of the command that leaves the window.
THEOREM RingImplementsWindow == Spec => KeepsLastCommands
  <1>1. Init => Kept!Init
    <2> SUFFICES ASSUME Init PROVE Kept!Init
      OBVIOUS
    <2>1. Count(EmptyBuffer) = 0
      BY DEF EmptyBuffer, Count
    <2>2. OldestFirst(EmptyBuffer) = <<>>
      BY <2>1 DEF OldestFirst
    <2> QED
      BY <2>2 DEF Init, Kept!Init, Window
  <1>2. Inv /\ [Next]_vars => [Kept!Next]_(Kept!vars)
    <2> SUFFICES ASSUME Inv, [Next]_vars PROVE [Kept!Next]_(Kept!vars)
      OBVIOUS
    <2>1. ASSUME NEW e \in Commands, Add(e)
          PROVE  Kept!Push(e)
      <3>1. e \in Entries(Ptrs) /\ e.buffptr # NULL /\ e.size > 0
        BY CommandsAreEntries
      <3>2. circular_buf \in Buffers(Ptrs) /\ RingShape(circular_buf)
        BY DEF Inv, TypeOK, RingConsistent
      <3> QED
        BY <2>1, <3>1, <3>2, AddEntryPushes DEF Add, Kept!Push, Window
    <2>2. CASE UNCHANGED vars
      BY <2>2 DEF vars, Kept!vars, Window
    <2> QED
      BY <2>1, <2>2 DEF Next, Kept!Next
  <1> QED
    BY <1>1, <1>2, InitInv, NextInv, PTL DEF Spec, KeepsLastCommands, Kept!Spec

(***************************************************************************)
(* The search and the measures.                                            *)
(***************************************************************************)

\* The bytes of commands that start at the positions given.
LEMMA BytesPlaces ==
  ASSUME NEW P, NEW w \in Seq(Entries(P)), NEW start \in [0 .. Len(w) -> Nat],
         start[0] = 0, \A k \in 1 .. Len(w) : start[k] = start[k - 1] + w[k].size
  PROVE  /\ Len(Bytes(w)) = start[Len(w)]
         /\ \A k \in 1 .. Len(w) : \A j \in 1 .. w[k].size :
              Bytes(w)[start[k - 1] + j] = <<w[k].buffptr, j - 1>>
  <1> DEFINE S == (P \cup {NULL}) \X Nat
             command(k) == [j \in 1 .. w[k].size |-> <<w[k].buffptr, j - 1>>]
             v == [k \in 1 .. Len(w) |-> command(k)]
  <1>1. DOMAIN w = 1 .. Len(w) /\ Len(w) \in Nat
    OBVIOUS
  <1>2. ASSUME NEW k \in 1 .. Len(w)
        PROVE  w[k].size \in Nat /\ w[k].buffptr \in P \cup {NULL}
    <2>1. w[k] \in Entries(P)
      OBVIOUS
    <2> QED
      BY <2>1 DEF Entries
  <1>3. Bytes(w) = FlattenSeq(v)
    BY <1>1 DEF Bytes
  <1>4. ASSUME NEW k \in 1 .. Len(w)
        PROVE  /\ command(k) \in Seq(S) /\ Len(command(k)) = w[k].size
               /\ \A j \in 1 .. w[k].size : command(k)[j] = <<w[k].buffptr, j - 1>>
    <2> DEFINE c == command(k)
               n == w[k].size
    <2>1. \A j \in 1 .. n : <<w[k].buffptr, j - 1>> \in S
      BY <1>2
    <2>2. c = [j \in 1 .. n |-> c[j]] /\ \A j \in 1 .. n : c[j] = <<w[k].buffptr, j - 1>>
      OBVIOUS
    <2>3. n \in Nat
      BY <1>2
    <2> HIDE DEF S, c, n
    <2>4. \A j \in 1 .. n : c[j] \in S
      BY <2>1, <2>2
    <2>5. c \in Seq(S) /\ Len(c) = n
      BY <2>2, <2>3, <2>4, TableIsSeq
    <2> QED
      BY <2>2, <2>5 DEF c, n
  <1> HIDE DEF command, S
  <1>5. /\ v \in Seq(Seq(S)) /\ Len(v) = Len(w)
        /\ \A k \in 1 .. Len(w) : v[k] = command(k)
    <2>1. v = [k \in 1 .. Len(w) |-> v[k]] /\ \A k \in 1 .. Len(w) : v[k] = command(k)
      OBVIOUS
    <2> HIDE DEF v
    <2>2. \A k \in 1 .. Len(w) : v[k] \in Seq(S)
      BY <1>4, <2>1
    <2> DEFINE Q == Seq(S)
    <2>3. \A k \in 1 .. Len(w) : v[k] \in Q
      BY <2>2
    <2> HIDE DEF Q
    <2>4. v \in Seq(Q) /\ Len(v) = Len(w)
      BY <1>1, <2>1, <2>3, TableIsSeq
    <2> QED
      BY <2>1, <2>4 DEF Q
  <1> HIDE DEF v
  <1>6. \A k \in 1 .. Len(v) : start[k] = start[k - 1] + Len(v[k])
    BY <1>4, <1>5
  <1>7. start \in [0 .. Len(v) -> Nat]
    BY <1>5
  <1>8. /\ Len(FlattenSeq(v)) = start[Len(v)]
        /\ \A k \in 1 .. Len(v) : \A j \in 1 .. Len(v[k]) :
             FlattenSeq(v)[start[k - 1] + j] = v[k][j]
    BY <1>5, <1>6, <1>7, FlattenedPlaces, ZenonT(60) DEF Placed
  <1>9. Len(Bytes(w)) = start[Len(w)]
    BY <1>3, <1>5, <1>8
  <1>10. ASSUME NEW k \in 1 .. Len(w), NEW j \in 1 .. w[k].size
         PROVE  Bytes(w)[start[k - 1] + j] = <<w[k].buffptr, j - 1>>
    <2>1. k \in 1 .. Len(v) /\ v[k] = command(k)
      BY <1>5
    <2>2. j \in 1 .. Len(v[k]) /\ v[k][j] = <<w[k].buffptr, j - 1>>
      BY <1>4, <2>1
    <2>3. FlattenSeq(v)[start[k - 1] + j] = v[k][j]
      BY <1>8, <2>1, <2>2
    <2> QED
      BY <1>3, <2>2, <2>3
  <1> QED
    BY <1>9, <1>10

\* The bytes of the first n commands of a buffer, by the sums of the loop.
LEMMA WindowBytes ==
  ASSUME NEW P, NEW b \in Buffers(P), RingShape(b), NEW n \in 0 .. Count(b)
  PROVE  LET w == SubSeq(OldestFirst(b), 1, n)
             total == TotalBytesSize(b)
         IN  /\ Len(Bytes(w)) = total[n]
             /\ \A k \in 1 .. n : \A j \in 1 .. OldestFirst(b)[k].size :
                  Bytes(w)[total[k - 1] + j] = <<OldestFirst(b)[k].buffptr, j - 1>>
  <1> DEFINE v == OldestFirst(b)
             w == SubSeq(v, 1, n)
             total == TotalBytesSize(b)
             start == [k \in 0 .. n |-> total[k]]
  <1>1. /\ Count(b) \in 0 .. MaxOps /\ v \in Seq(Entries(P)) /\ Len(v) = Count(b)
    BY WindowElements
  <1>2. /\ total \in [0 .. MaxOps -> Nat] /\ total[0] = 0
        /\ \A k \in 1 .. Count(b) : total[k] = total[k - 1] + v[k].size
    BY WindowTotals
  <1>3. MaxOps \in Nat
    BY MaxOpsAssumption
  <1> HIDE DEF v, total
  <1>4. /\ w \in Seq(Entries(P)) /\ Len(w) = n
        /\ \A k \in 1 .. n : w[k] = v[k]
    BY <1>1
  <1> HIDE DEF w
  <1>5. start \in [0 .. n -> Nat] /\ start[0] = 0
    BY <1>1, <1>2, <1>3
  <1>6. ASSUME NEW k \in 1 .. n
        PROVE  start[k] = start[k - 1] + w[k].size /\ start[k - 1] = total[k - 1]
    <2>1. k \in 1 .. Count(b) /\ k \in 0 .. n /\ k - 1 \in 0 .. n
      BY <1>1
    <2> QED
      BY <1>2, <1>4, <2>1
  <1>7. start[n] = total[n] /\ n \in Nat
    BY <1>1
  <1> HIDE DEF start
  <1>8. /\ Len(Bytes(w)) = start[n]
        /\ \A k \in 1 .. n : \A j \in 1 .. w[k].size :
             Bytes(w)[start[k - 1] + j] = <<w[k].buffptr, j - 1>>
    <2>1. w \in Seq(Entries(P)) /\ start \in [0 .. Len(w) -> Nat] /\ start[0] = 0
      BY <1>4, <1>5
    <2>2. \A k \in 1 .. Len(w) : start[k] = start[k - 1] + w[k].size
      BY <1>4, <1>6
    <2>3. /\ Len(Bytes(w)) = start[Len(w)]
          /\ \A k \in 1 .. Len(w) : \A j \in 1 .. w[k].size :
               Bytes(w)[start[k - 1] + j] = <<w[k].buffptr, j - 1>>
      BY <2>1, <2>2, BytesPlaces
    <2> QED
      BY <1>4, <2>3
  <1> QED
    BY <1>4, <1>6, <1>7, <1>8 DEF v, w, total

\* The same of the whole window.
LEMMA AllBytes ==
  ASSUME NEW P, NEW b \in Buffers(P), RingShape(b)
  PROVE  LET w == OldestFirst(b)
             total == TotalBytesSize(b)
         IN  /\ Len(Bytes(w)) = total[Count(b)]
             /\ \A k \in 1 .. Count(b) : \A j \in 1 .. w[k].size :
                  Bytes(w)[total[k - 1] + j] = <<w[k].buffptr, j - 1>>
  <1> DEFINE n == Count(b)
  <1>1. n \in 0 .. n /\ SubSeq(OldestFirst(b), 1, n) = OldestFirst(b)
    BY WindowElements
  <1>2. n = Count(b)
    OBVIOUS
  <1> HIDE DEF n
  <1>3. n \in 0 .. Count(b)
    BY <1>1, <1>2
  <1>4. LET w == SubSeq(OldestFirst(b), 1, n)
            total == TotalBytesSize(b)
        IN  /\ Len(Bytes(w)) = total[n]
            /\ \A k \in 1 .. n : \A j \in 1 .. OldestFirst(b)[k].size :
                 Bytes(w)[total[k - 1] + j] = <<OldestFirst(b)[k].buffptr, j - 1>>
    BY <1>3, WindowBytes
  <1> QED
    BY <1>1, <1>2, <1>4

LEMMA InvFind == Inv => FindMatchesConcatenation
  <1> SUFFICES ASSUME Inv, NEW off \in 0 .. MaxOps * MaxSize
               PROVE  LET found == FindEntry(circular_buf, off)
                          bytes == Bytes(Window)
                      IN  /\ found.found <=> off < Len(bytes)
                          /\ found.found =>
                               bytes[off + 1] = <<found.entry.buffptr, found.entry_offset>>
    BY DEF FindMatchesConcatenation
  <1> DEFINE b == circular_buf
             w == OldestFirst(b)
             total == TotalBytesSize(b)
             found == FindEntry(b, off)
  <1>1. b \in Buffers(Ptrs) /\ RingShape(b)
    BY DEF Inv, TypeOK, RingConsistent
  <1>2. Window = w
    BY DEF Window
  <1> HIDE DEF b
  <1>3. off \in Nat
    BY MaxOpsAssumption, RingAssumption
  <1>4. /\ Len(Bytes(w)) = total[Count(b)]
        /\ \A k \in 1 .. Count(b) : \A j \in 1 .. w[k].size :
             Bytes(w)[total[k - 1] + j] = <<w[k].buffptr, j - 1>>
    BY <1>1, AllBytes
  <1>5. /\ found.found <=> off < total[Count(b)]
        /\ found.found => \E k \in 1 .. Count(b) :
             /\ found.entry = w[k] /\ found.entry_offset = off - total[k - 1]
             /\ total[k - 1] <= off /\ off < total[k]
    BY <1>1, <1>3, FindEntryInWindow
  <1>6. /\ total \in [0 .. MaxOps -> Nat]
        /\ \A k \in 1 .. Count(b) : total[k] = total[k - 1] + w[k].size
    BY <1>1, WindowTotals
  <1>7. /\ Count(b) \in 0 .. MaxOps /\ w \in Seq(Entries(Ptrs)) /\ Len(w) = Count(b)
        /\ MaxOps \in Nat
    BY <1>1, WindowElements, MaxOpsAssumption
  <1> HIDE DEF w, total, found
  <1>8. ASSUME found.found
        PROVE  Bytes(w)[off + 1] = <<found.entry.buffptr, found.entry_offset>>
    <2>1. PICK k \in 1 .. Count(b) :
            /\ found.entry = w[k] /\ found.entry_offset = off - total[k - 1]
            /\ total[k - 1] <= off /\ off < total[k]
      BY <1>5, <1>8
    <2>2. k - 1 \in 0 .. MaxOps /\ k \in 1 .. Len(w)
      BY <1>7
    <2>3. total[k - 1] \in Nat /\ total[k] = total[k - 1] + w[k].size
          /\ w[k].size \in Nat
      <3>1. w[k] \in Entries(Ptrs)
        BY <1>7, <2>2
      <3> QED
        BY <1>6, <2>2, <3>1 DEF Entries
    <2> DEFINE start == total[k - 1]
               j == off - start + 1
    <2>4. j \in 1 .. w[k].size /\ start + j = off + 1 /\ j - 1 = off - start
      BY <1>3, <2>1, <2>3
    <2>5. Bytes(w)[start + j] = <<w[k].buffptr, j - 1>>
      <3> HIDE DEF j
      <3> QED
        BY <1>4, <2>4
    <2> QED
      BY <2>1, <2>4, <2>5
  <1> QED
    BY <1>2, <1>4, <1>5, <1>8 DEF b, found

\* The search returns the byte at the position it is given, counted through
\* the commands end to end from the oldest, and fails just beyond the last
\* one, for buffers of any number of slots at any turn of the indices.
THEOREM RingFindMatches == Spec => []FindMatchesConcatenation
  BY InitInv, NextInv, InvFind, PTL DEF Spec

LEMMA InvMeasures == Inv => MeasuresMatchWindow
  <1> SUFFICES ASSUME Inv
               PROVE  /\ BufferSize(circular_buf) = Len(Bytes(OldestFirst(circular_buf)))
                      /\ CommandCount(circular_buf) = Len(OldestFirst(circular_buf))
    BY DEF MeasuresMatchWindow, Window
  <1> DEFINE b == circular_buf
  <1>1. b \in Buffers(Ptrs) /\ RingShape(b)
    BY DEF Inv, TypeOK, RingConsistent
  <1> HIDE DEF b
  <1>2. Len(Bytes(OldestFirst(b))) = TotalBytesSize(b)[Count(b)]
    BY <1>1, AllBytes
  <1>3. BufferSize(b) = TotalBytesSize(b)[Count(b)]
    BY <1>1, SameSize
  <1>4. CommandCount(b) = Count(b) /\ Len(OldestFirst(b)) = Count(b)
    BY <1>1, CountsCommands, WindowElements
  <1> QED
    BY <1>2, <1>3, <1>4 DEF b

\* With the oldest command in slot 0 the two ways to count coincide.
LEMMA InvSeek == Inv => SeekOffsetBeforeWrap
  <1> SUFFICES ASSUME Inv, circular_buf.out_offs = 0,
                      NEW k \in 0 .. Len(OldestFirst(circular_buf)) - 1
               PROVE  SeekOffset(circular_buf, k)
                        = Len(Bytes(SubSeq(OldestFirst(circular_buf), 1, k)))
    BY DEF SeekOffsetBeforeWrap, StartOf, Window
  <1> DEFINE b == circular_buf
  <1>1. b \in Buffers(Ptrs) /\ RingShape(b) /\ b.out_offs = 0
        /\ k \in 0 .. Len(OldestFirst(b)) - 1
    BY DEF Inv, TypeOK, RingConsistent
  <1> HIDE DEF b
  <1>2. Count(b) \in 0 .. MaxOps /\ Len(OldestFirst(b)) = Count(b) /\ MaxOps \in Nat
    BY <1>1, WindowElements, MaxOpsAssumption
  <1>3. k \in 0 .. Count(b) /\ k \in 0 .. MaxOps /\ ~(k >= MaxOps) /\ 0 + k = k /\ k <= MaxOps
    BY <1>1, <1>2
  <1>4. Len(Bytes(SubSeq(OldestFirst(b), 1, k))) = TotalBytesSize(b)[k]
    BY <1>1, <1>3, WindowBytes
  <1>5. TotalBytesSize(b)[k] = SizeUpTo(b)[k]
    BY <1>1, <1>3, TotalsUnrotated
  <1>6. SeekOffset(b, k) = SizeUpTo(b)[k]
    BY <1>3 DEF SeekOffset
  <1> QED
    BY <1>4, <1>5, <1>6 DEF b

\* The size and the number of commands that llseek and ioctl rely on are those
\* of the window, although they are counted from slot 0, past the indices.
THEOREM RingMeasuresMatch == Spec => []MeasuresMatchWindow
  BY InitInv, NextInv, InvMeasures, PTL DEF Spec

\* While the oldest command is in slot 0 the seek finds the start of every
\* command.
THEOREM RingSeekBeforeWrap == Spec => []SeekOffsetBeforeWrap
  BY InitInv, NextInv, InvSeek, PTL DEF Spec
=============================================================================
