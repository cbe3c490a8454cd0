------------------------- MODULE CircularBufferProofs -------------------------
(***************************************************************************)
(* Lemmas about the circular buffer, for every number of slots: what       *)
(* add_entry does to the fields, the shape and the window of a buffer,     *)
(* which byte the search for a file position finds, and what the walks     *)
(* from slot 0 add up.  The recursive definitions among them are reasoned  *)
(* about by induction over intervals, which is proved here too.            *)
(***************************************************************************)
EXTENDS Device, FiniteSetTheorems, WellFoundedInduction, TLAPS

\* Advancing an index stays inside the array and wraps at its end.
LEMMA NextSlotWraps ==
  ASSUME NEW s \in Slots
  PROVE  /\ NextSlot(s) \in Slots
         /\ NextSlot(s) = IF s = MaxOps - 1 THEN 0 ELSE s + 1
  BY MaxOpsAssumption DEF Slots, NextSlot

\* The slot of the k-th entry from out_offs, without the modulus.
LEMMA SlotFromOldest ==
  ASSUME NEW s \in Slots, NEW k \in 0 .. MaxOps - 1
  PROVE  /\ (s + k) % MaxOps \in Slots
         /\ (s + k) % MaxOps = IF s + k < MaxOps THEN s + k ELSE s + k - MaxOps
  BY MaxOpsAssumption DEF Slots

(***************************************************************************)
(* The empty buffer.                                                       *)
(***************************************************************************)
LEMMA EmptyBufferShape ==
  ASSUME NEW P
  PROVE  /\ EmptyBuffer \in Buffers(P)
         /\ RingShape(EmptyBuffer)
         /\ \A s \in Slots : EmptyBuffer.entry[s].buffptr = NULL
  BY MaxOpsAssumption DEF EmptyBuffer, Buffers, Entries, RingShape, Slots

(***************************************************************************)
(* Adding a command.                                                       *)
(***************************************************************************)

\* The buffer after add_entry, field by field.
LEMMA AddEntryFields ==
  ASSUME NEW P, NEW b \in Buffers(P), NEW e \in Entries(P)
  PROVE  /\ AddEntry(b, e) \in Buffers(P)
         /\ AddEntry(b, e).entry = [b.entry EXCEPT ![b.in_offs] = e]
         /\ AddEntry(b, e).in_offs = NextSlot(b.in_offs)
         /\ AddEntry(b, e).out_offs =
              IF b.full THEN NextSlot(b.out_offs) ELSE b.out_offs
         /\ AddEntry(b, e).full <=>
              AddEntry(b, e).in_offs = AddEntry(b, e).out_offs
  <1>1. /\ b.in_offs \in Slots
        /\ b.out_offs \in Slots
        /\ b.entry \in [Slots -> Entries(P)]
    BY DEF Buffers
  <1>2. /\ NextSlot(b.in_offs) \in Slots
        /\ NextSlot(b.out_offs) \in Slots
    BY <1>1, NextSlotWraps
  <1>3. [b.entry EXCEPT ![b.in_offs] = e] \in [Slots -> Entries(P)]
    BY <1>1
  <1> QED
    BY <1>1, <1>2, <1>3 DEF AddEntry, Buffers

\* add_entry keeps the shape of a buffer.
LEMMA AddEntryShape ==
  ASSUME NEW P, NEW b \in Buffers(P), NEW e \in Entries(P),
         e.buffptr # NULL, e.size > 0, RingShape(b)
  PROVE  RingShape(AddEntry(b, e))
  <1> DEFINE a == AddEntry(b, e)
  <1>1. /\ b.in_offs \in Slots
        /\ b.out_offs \in Slots
        /\ b.entry \in [Slots -> Entries(P)]
        /\ b.full \in BOOLEAN
    BY DEF Buffers
  <1>2. /\ a.entry = [b.entry EXCEPT ![b.in_offs] = e]
        /\ a.in_offs = NextSlot(b.in_offs)
        /\ a.out_offs = IF b.full THEN NextSlot(b.out_offs) ELSE b.out_offs
        /\ a.full <=> a.in_offs = a.out_offs
    BY AddEntryFields
  <1>3. \A s \in Slots : a.entry[s] = IF s = b.in_offs THEN e ELSE b.entry[s]
    BY <1>1, <1>2
  <1> SUFFICES RingShape(a)
    OBVIOUS
  <1> HIDE DEF a
  <1>4. CASE b.full
    <2>1. a.in_offs = a.out_offs /\ a.full
      BY <1>2, <1>4 DEF RingShape
    <2>2. \A s \in Slots : a.entry[s].buffptr # NULL /\ a.entry[s].size > 0
      BY <1>3, <1>4 DEF RingShape
    <2> QED
      BY <2>1, <2>2 DEF RingShape
  <1>5. CASE ~b.full
    <2>1. /\ a.out_offs = 0
          /\ a.in_offs = IF b.in_offs = MaxOps - 1 THEN 0 ELSE b.in_offs + 1
          /\ a.full <=> b.in_offs = MaxOps - 1
      <3>1. a.out_offs = 0
        BY <1>2, <1>5 DEF RingShape
      <3>2. a.in_offs = IF b.in_offs = MaxOps - 1 THEN 0 ELSE b.in_offs + 1
        BY <1>1, <1>2, NextSlotWraps
      <3>3. a.full <=> a.in_offs = a.out_offs
        BY <1>2
      <3>4. (b.in_offs = MaxOps - 1) <=> a.in_offs = 0
        BY <1>1, <3>2, MaxOpsAssumption DEF Slots
      <3> QED
        BY <3>1, <3>2, <3>3, <3>4
    <2>2. \A s \in Slots :
            IF s < b.in_offs
            THEN b.entry[s].buffptr # NULL /\ b.entry[s].size > 0
            ELSE b.entry[s] = [buffptr |-> NULL, size |-> 0]
      BY <1>5 DEF RingShape
    <2>3. CASE a.full
      <3>1. \A s \in Slots : s = b.in_offs \/ s < b.in_offs
        BY <2>1, <2>3, MaxOpsAssumption DEF Slots
      <3>2. \A s \in Slots : a.entry[s].buffptr # NULL /\ a.entry[s].size > 0
        BY <1>3, <2>2, <3>1
      <3>3. a.in_offs = a.out_offs
        BY <2>1, <2>3
      <3> QED
        BY <2>3, <3>2, <3>3 DEF RingShape
    <2>4. CASE ~a.full
      <3>1. \A s \in Slots : s < a.in_offs <=> s = b.in_offs \/ s < b.in_offs
        BY <1>1, <2>1, <2>4 DEF Slots
      <3>2. \A s \in Slots :
              IF s < a.in_offs
              THEN a.entry[s].buffptr # NULL /\ a.entry[s].size > 0
              ELSE a.entry[s] = [buffptr |-> NULL, size |-> 0]
        BY <1>3, <2>2, <3>1
      <3> QED
        BY <2>1, <2>4, <3>2 DEF RingShape
    <2> QED
      BY <2>3, <2>4
  <1> QED
    BY <1>1, <1>4, <1>5

(***************************************************************************)
(* The commands a buffer stands for.                                       *)
(***************************************************************************)

\* The window of a buffer as a sequence, its slots without the modulus.
LEMMA WindowElements ==
  ASSUME NEW P, NEW b \in Buffers(P), RingShape(b)
  PROVE  /\ Count(b) \in 0 .. MaxOps
         /\ OldestFirst(b) \in Seq(Entries(P))
         /\ Len(OldestFirst(b)) = Count(b)
         /\ \A k \in 1 .. Count(b) :
              OldestFirst(b)[k] =
                b.entry[IF b.out_offs + k - 1 < MaxOps
                        THEN b.out_offs + k - 1
                        ELSE b.out_offs + k - 1 - MaxOps]
  <1>1. /\ b.in_offs \in Slots
        /\ b.out_offs \in Slots
        /\ b.entry \in [Slots -> Entries(P)]
        /\ b.full \in BOOLEAN
    BY DEF Buffers
  <1>2. Count(b) \in 0 .. MaxOps
    BY <1>1, MaxOpsAssumption DEF Count, Slots
  <1>3. ASSUME NEW k \in 1 .. Count(b)
        PROVE  /\ Visited(b, k - 1) \in Entries(P)
               /\ Visited(b, k - 1) =
                    b.entry[IF b.out_offs + k - 1 < MaxOps
                            THEN b.out_offs + k - 1
                            ELSE b.out_offs + k - 1 - MaxOps]
    <2>1. k - 1 \in 0 .. MaxOps - 1
      BY <1>2, MaxOpsAssumption
    <2>2. /\ (b.out_offs + (k - 1)) % MaxOps \in Slots
          /\ (b.out_offs + (k - 1)) % MaxOps =
               IF b.out_offs + (k - 1) < MaxOps
               THEN b.out_offs + (k - 1)
               ELSE b.out_offs + (k - 1) - MaxOps
      BY <1>1, <2>1, SlotFromOldest
    <2>3. b.out_offs + (k - 1) = b.out_offs + k - 1
      BY <1>1, <2>1, MaxOpsAssumption DEF Slots
    <2>4. Visited(b, k - 1) = b.entry[(b.out_offs + (k - 1)) % MaxOps]
      BY DEF Visited
    <2> QED
      BY <1>1, <2>2, <2>3, <2>4
  <1>4. OldestFirst(b) \in [1 .. Count(b) -> Entries(P)]
    BY <1>3 DEF OldestFirst
  <1>5. OldestFirst(b) \in Seq(Entries(P)) /\ Len(OldestFirst(b)) = Count(b)
    BY <1>2, <1>4
  <1> QED
    BY <1>2, <1>3, <1>5 DEF OldestFirst

\* The k-th oldest command is in a slot in use.
LEMMA WindowSlots ==
  ASSUME NEW P, NEW b \in Buffers(P), RingShape(b), NEW k \in 1 .. Count(b)
  PROVE  \E s \in Slots : OldestFirst(b)[k] = b.entry[s] /\ b.entry[s].buffptr # NULL
  <1> DEFINE s == IF b.out_offs + k - 1 < MaxOps
                  THEN b.out_offs + k - 1
                  ELSE b.out_offs + k - 1 - MaxOps
  <1>1. OldestFirst(b)[k] = b.entry[s] /\ Count(b) \in 0 .. MaxOps
    BY WindowElements
  <1>2. b.in_offs \in Slots /\ b.out_offs \in Slots /\ b.full \in BOOLEAN
    BY DEF Buffers
  <1>3. s \in Slots /\ (b.full \/ s < b.in_offs)
    <2>1. CASE b.full
      BY <1>1, <1>2, <2>1, MaxOpsAssumption DEF Slots
    <2>2. CASE ~b.full
      <3>1. b.out_offs = 0 /\ Count(b) = b.in_offs
        BY <2>2 DEF RingShape, Count
      <3> QED
        BY <1>1, <1>2, <3>1, MaxOpsAssumption DEF Slots
    <2> QED
      BY <2>1, <2>2
  <1> HIDE DEF s
  <1>4. b.entry[s].buffptr # NULL
    BY <1>3 DEF RingShape
  <1> QED
    BY <1>1, <1>3, <1>4

\* Two sequences with the same elements in the same places are the same.
LEMMA SameSequence ==
  ASSUME NEW S, NEW v \in Seq(S), NEW w \in Seq(S), Len(v) = Len(w),
         \A k \in 1 .. Len(v) : v[k] = w[k]
  PROVE  v = w
  OBVIOUS

\* add_entry puts the entry behind the others; from a full buffer the oldest
\* goes, and its pointer is the one returned.
LEMMA AddEntryWindow ==
  ASSUME NEW P, NEW b \in Buffers(P), NEW e \in Entries(P),
         e.buffptr # NULL, e.size > 0, RingShape(b)
  PROVE  /\ OldestFirst(AddEntry(b, e)) = IF Len(OldestFirst(b)) < MaxOps
                                          THEN Append(OldestFirst(b), e)
                                          ELSE Append(Tail(OldestFirst(b)), e)
         /\ OldBuff(b) = IF Len(OldestFirst(b)) < MaxOps
                         THEN NULL
                         ELSE Head(OldestFirst(b)).buffptr
  <1> DEFINE a == AddEntry(b, e)
             v == OldestFirst(a)
             w == OldestFirst(b)
  <1>1. /\ b.in_offs \in 0 .. MaxOps - 1
        /\ b.out_offs \in 0 .. MaxOps - 1
        /\ b.entry \in [0 .. MaxOps - 1 -> Entries(P)]
        /\ b.full \in BOOLEAN
    BY DEF Buffers, Slots
  <1>2. /\ a \in Buffers(P)
        /\ a.entry = [b.entry EXCEPT ![b.in_offs] = e]
        /\ a.in_offs = NextSlot(b.in_offs)
        /\ a.out_offs = IF b.full THEN NextSlot(b.out_offs) ELSE b.out_offs
        /\ a.full <=> a.in_offs = a.out_offs
    BY AddEntryFields
  <1>3. RingShape(a)
    BY AddEntryShape
  <1>4. /\ Count(a) \in 0 .. MaxOps
        /\ v \in Seq(Entries(P))
        /\ Len(v) = Count(a)
        /\ \A k \in 1 .. Count(a) :
             v[k] = a.entry[IF a.out_offs + k - 1 < MaxOps
                            THEN a.out_offs + k - 1
                            ELSE a.out_offs + k - 1 - MaxOps]
    BY <1>2, <1>3, WindowElements, ZenonT(60)
  <1>5. /\ Count(b) \in 0 .. MaxOps
        /\ w \in Seq(Entries(P))
        /\ Len(w) = Count(b)
        /\ \A k \in 1 .. Count(b) :
             w[k] = b.entry[IF b.out_offs + k - 1 < MaxOps
                            THEN b.out_offs + k - 1
                            ELSE b.out_offs + k - 1 - MaxOps]
    BY WindowElements
  <1>6. \A s \in 0 .. MaxOps - 1 :
          a.entry[s] = IF s = b.in_offs THEN e ELSE b.entry[s]
    BY <1>1, <1>2, ZenonT(60)
  <1>7. \A s \in 0 .. MaxOps - 1 :
          NextSlot(s) = IF s = MaxOps - 1 THEN 0 ELSE s + 1
    BY NextSlotWraps DEF Slots
  <1> SUFFICES /\ v = IF Len(w) < MaxOps THEN Append(w, e) ELSE Append(Tail(w), e)
               /\ OldBuff(b) = IF Len(w) < MaxOps
                               THEN NULL ELSE Head(w).buffptr
    OBVIOUS
  <1> HIDE DEF a, v, w
  <1>8. CASE ~b.full
    <2>1. /\ b.out_offs = 0 /\ a.out_offs = 0
          /\ Count(b) = b.in_offs
      BY <1>2, <1>8 DEF RingShape, Count
    <2>2. Count(a) = b.in_offs + 1
      <3>1. CASE b.in_offs = MaxOps - 1
        <4>1. a.in_offs = 0
          BY <1>1, <1>2, <1>7, <3>1
        <4>2. a.full
          BY <1>2, <2>1, <4>1
        <4> QED
          BY <3>1, <4>2, MaxOpsAssumption DEF Count
      <3>2. CASE b.in_offs # MaxOps - 1
        <4>1. a.in_offs = b.in_offs + 1
          BY <1>1, <1>2, <1>7, <3>2
        <4>2. ~a.full
          BY <1>1, <1>2, <2>1, <4>1
        <4> QED
          BY <4>1, <4>2 DEF Count
      <3> QED
        BY <3>1, <3>2
    <2>3. Len(w) < MaxOps
      BY <1>1, <1>5, <2>1, MaxOpsAssumption
    <2>4. /\ Append(w, e) \in Seq(Entries(P))
          /\ Len(Append(w, e)) = b.in_offs + 1
          /\ \A k \in 1 .. b.in_offs : Append(w, e)[k] = w[k]
          /\ Append(w, e)[b.in_offs + 1] = e
      BY <1>5, <2>1
    <2>5. \A k \in 1 .. b.in_offs : v[k] = w[k]
      <3> SUFFICES ASSUME NEW k \in 1 .. b.in_offs
                   PROVE  v[k] = w[k]
        OBVIOUS
      <3>1. k - 1 \in 0 .. MaxOps - 1 /\ k - 1 # b.in_offs
        BY <1>1, MaxOpsAssumption
      <3>2. 0 + k - 1 = k - 1 /\ k - 1 < MaxOps
        BY <1>1, <3>1, MaxOpsAssumption
      <3>3. k \in 1 .. Count(a) /\ k \in 1 .. Count(b)
        BY <1>1, <2>1, <2>2
      <3>4. v[k] = a.entry[k - 1]
        BY <1>4, <2>1, <3>2, <3>3
      <3>5. w[k] = b.entry[k - 1]
        BY <1>5, <2>1, <3>2, <3>3
      <3> QED
        BY <1>6, <3>1, <3>4, <3>5
    <2>6. v[b.in_offs + 1] = e
      <3>1. /\ 0 + (b.in_offs + 1) - 1 = b.in_offs
            /\ b.in_offs < MaxOps
            /\ b.in_offs + 1 \in 1 .. Count(a)
        BY <1>1, <2>2, MaxOpsAssumption
      <3>2. v[b.in_offs + 1] = a.entry[b.in_offs]
        BY <1>4, <2>1, <3>1
      <3> QED
        BY <1>1, <1>6, <3>2
    <2>7. v = Append(w, e)
      BY <1>1, <1>4, <2>2, <2>4, <2>5, <2>6, SameSequence
    <2>8. OldBuff(b) = NULL /\ Len(w) < MaxOps
      BY <1>1, <1>5, <1>8, <2>1, MaxOpsAssumption DEF OldBuff
    <2> QED
      BY <2>3, <2>7, <2>8
  <1>9. CASE b.full
    <2>1. /\ b.in_offs = b.out_offs
          /\ a.in_offs = a.out_offs /\ a.full
          /\ Count(b) = MaxOps /\ Count(a) = MaxOps
      BY <1>2, <1>9 DEF RingShape, Count
    <2>2. a.out_offs = IF b.out_offs = MaxOps - 1 THEN 0 ELSE b.out_offs + 1
      BY <1>1, <1>2, <1>7, <1>9
    <2>3. ~(Len(w) < MaxOps)
      BY <1>5, <2>1, MaxOpsAssumption
    <2>4. /\ Tail(w) \in Seq(Entries(P))
          /\ Len(Tail(w)) = MaxOps - 1
          /\ \A k \in 1 .. MaxOps - 1 : Tail(w)[k] = w[k + 1]
      BY <1>5, <2>1, MaxOpsAssumption
    <2>5. /\ Append(Tail(w), e) \in Seq(Entries(P))
          /\ Len(Append(Tail(w), e)) = MaxOps
          /\ \A k \in 1 .. MaxOps - 1 : Append(Tail(w), e)[k] = w[k + 1]
          /\ Append(Tail(w), e)[MaxOps] = e
      BY <2>4, MaxOpsAssumption
    <2>6. \A k \in 1 .. MaxOps - 1 : v[k] = w[k + 1]
      <3> SUFFICES ASSUME NEW k \in 1 .. MaxOps - 1
                   PROVE  v[k] = w[k + 1]
        OBVIOUS
      <3> DEFINE s == IF b.out_offs + k < MaxOps
                      THEN b.out_offs + k ELSE b.out_offs + k - MaxOps
      <3>1. s \in 0 .. MaxOps - 1 /\ s # b.in_offs
        BY <1>1, <2>1, MaxOpsAssumption
      <3>2. s = IF a.out_offs + k - 1 < MaxOps
                THEN a.out_offs + k - 1 ELSE a.out_offs + k - 1 - MaxOps
        BY <1>1, <2>2, MaxOpsAssumption
      <3>3. v[k] = a.entry[s]
        BY <1>4, <2>1, <3>2, MaxOpsAssumption
      <3>4. k + 1 \in 1 .. Count(b) /\ b.out_offs + (k + 1) - 1 = b.out_offs + k
        BY <1>1, <2>1, MaxOpsAssumption
      <3>5. w[k + 1] = b.entry[s]
        BY <1>5, <3>4
      <3> QED
        BY <1>6, <3>1, <3>3, <3>5
    <2>7. v[MaxOps] = e
      <3>1. (IF a.out_offs + MaxOps - 1 < MaxOps
             THEN a.out_offs + MaxOps - 1
             ELSE a.out_offs + MaxOps - 1 - MaxOps) = b.in_offs
        BY <1>1, <2>1, <2>2, MaxOpsAssumption
      <3>2. v[MaxOps] = a.entry[b.in_offs]
        BY <1>4, <2>1, <3>1, MaxOpsAssumption
      <3> QED
        BY <1>1, <1>6, <3>2
    <2>8. v = Append(Tail(w), e)
      BY <1>4, <2>1, <2>5, <2>6, <2>7, MaxOpsAssumption, SameSequence
    <2>9. OldBuff(b) = Head(w).buffptr
      <3>1. w[1] = b.entry[b.in_offs]
        BY <1>1, <1>5, <2>1, MaxOpsAssumption
      <3>2. Head(w) = w[1]
        BY <1>5, <2>1, MaxOpsAssumption
      <3> QED
        BY <1>9, <3>1, <3>2 DEF OldBuff
    <2> QED
      BY <1>5, <2>1, <2>3, <2>8, <2>9, MaxOpsAssumption
  <1> QED
    BY <1>1, <1>8, <1>9

(***************************************************************************)
(* Functions defined by recursion on 0 .. N.                               *)
(***************************************************************************)

\* A set of numbers that is not empty has a least one.
LEMMA LeastNatural ==
  ASSUME NEW T, T \subseteq Nat, T # {}
  PROVE  \E n \in T : \A m \in T : n <= m
  <1>1. \E n \in T : \A m \in T : <<m, n>> \notin OpToRel(<, Nat)
    BY NatLessThanWellFounded, WFMin
  <1>2. \A m, n \in Nat : m < n => <<m, n>> \in OpToRel(<, Nat)
    BY Zenon DEF OpToRel
  <1>3. \A m, n \in Nat : ~ (m < n) => n <= m
    OBVIOUS
  <1>4. PICK n \in T : \A m \in T : <<m, n>> \notin OpToRel(<, Nat)
    BY <1>1
  <1>5. \A m \in T : ~ (m < n)
    BY <1>2, <1>4, Zenon
  <1> QED
    BY <1>3, <1>4, <1>5, Zenon

\* The lesser of two numbers.
LEMMA LesserOfTwo ==
  ASSUME NEW a \in Int, NEW b \in Int
  PROVE  Min({a, b}) = IF a <= b THEN a ELSE b
  <1> DEFINE m == IF a <= b THEN a ELSE b
  <1>1. m \in {a, b} /\ \A y \in {a, b} : m <= y
    OBVIOUS
  <1>2. \A x \in {a, b} : (\A y \in {a, b} : x <= y) => x = m
    OBVIOUS
  <1> HIDE DEF m
  <1>3. Min({a, b}) = m
    BY <1>1, <1>2 DEF Min
  <1> QED
    BY <1>3 DEF m

\* Induction over an interval, for a property given by the set of the numbers
\* that have it.
LEMMA IntervalInduction ==
  ASSUME NEW N \in Nat, NEW T, 0 \in T,
         \A k \in 1 .. N : k - 1 \in T => k \in T
  PROVE  0 .. N \subseteq T
  <1>1. SUFFICES ASSUME 0 .. N \ T # {} PROVE FALSE
    OBVIOUS
  <1>2. PICK n \in 0 .. N \ T : \A m \in 0 .. N \ T : n <= m
    <2>1. 0 .. N \ T \subseteq Nat
      OBVIOUS
    <2> QED
      BY <1>1, <2>1, LeastNatural
  <1>3. n \in 1 .. N
    BY <1>2
  <1>4. n - 1 \in 0 .. N /\ ~ (n <= n - 1)
    BY <1>3
  <1> QED
    BY <1>2, <1>3, <1>4

\* f starts at z and goes on with F.
Iterates(f, z, F, N) == f[0] = z /\ \A k \in 1 .. N : f[k] = F[k][f[k - 1]]

\* Such a function exists.
LEMMA IterationExists ==
  ASSUME NEW S, NEW z \in S, NEW N \in Nat, NEW F \in [1 .. N -> [S -> S]]
  PROVE  \E f \in [0 .. N -> S] : Iterates(f, z, F, N)
  <1> DEFINE Goes(f, n) == f[0] = z /\ \A k \in 1 .. n : f[k] = F[k][f[k - 1]]
             T == {n \in 0 .. N : \E f \in [0 .. n -> S] : Goes(f, n)}
  <1>1. 0 \in T
    <2> DEFINE f == [k \in 0 .. 0 |-> z]
    <2>1. f \in [0 .. 0 -> S] /\ Goes(f, 0)
      OBVIOUS
    <2> HIDE DEF f
    <2> QED
      BY <2>1
  <1>2. ASSUME NEW n \in 1 .. N, n - 1 \in T
        PROVE  n \in T
    <2>1. PICK g \in [0 .. n - 1 -> S] : Goes(g, n - 1)
      BY <1>2
    <2> DEFINE f == [k \in 0 .. n |-> IF k < n THEN g[k] ELSE F[n][g[n - 1]]]
    <2>2. g[n - 1] \in S /\ F[n] \in [S -> S]
      BY <2>1
    <2>3. f \in [0 .. n -> S]
      <3> SUFFICES ASSUME NEW k \in 0 .. n
                   PROVE  (IF k < n THEN g[k] ELSE F[n][g[n - 1]]) \in S
        OBVIOUS
      <3>1. k < n => k \in 0 .. n - 1
        OBVIOUS
      <3> QED
        BY <2>1, <2>2, <3>1
    <2>4. f[0] = z
      BY <2>1
    <2>5. \A k \in 1 .. n : f[k] = F[k][f[k - 1]]
      <3> SUFFICES ASSUME NEW k \in 1 .. n
                   PROVE  f[k] = F[k][f[k - 1]]
        OBVIOUS
      <3>1. f[k - 1] = g[k - 1]
        OBVIOUS
      <3>2. CASE k = n
        BY <3>1, <3>2
      <3>3. CASE k # n
        <4>1. k \in 1 .. n - 1 /\ f[k] = g[k]
          BY <3>3
        <4> QED
          BY <2>1, <3>1, <4>1
      <3> QED
        BY <3>2, <3>3
    <2> HIDE DEF f
    <2> QED
      BY <2>3, <2>4, <2>5, SMTT(30)
  <1>3. 0 .. N \subseteq T
    <2> HIDE DEF T
    <2> QED
      BY <1>1, <1>2, IntervalInduction
  <1>4. N \in T
    BY <1>3
  <1> QED
    BY <1>4 DEF Iterates

(***************************************************************************)
(* Sequences end to end.                                                   *)
(***************************************************************************)

\* Running totals grow.
LEMMA TotalsGrow ==
  ASSUME NEW N \in Nat, NEW start \in [0 .. N -> Nat],
         \A k \in 1 .. N : start[k - 1] <= start[k]
  PROVE  \A k \in 0 .. N : \A j \in 0 .. k : start[j] <= start[k]
  <1> DEFINE T == {k \in 0 .. N : \A j \in 0 .. k : start[j] <= start[k]}
  <1>1. 0 \in T
    OBVIOUS
  <1>2. ASSUME NEW k \in 1 .. N, k - 1 \in T
        PROVE  k \in T
    <2>1. ASSUME NEW j \in 0 .. k
          PROVE  start[j] <= start[k]
      <3>1. k \in 0 .. N /\ k - 1 \in 0 .. N /\ j \in 0 .. N
        OBVIOUS
      <3>2. start[k] \in Nat /\ start[k - 1] \in Nat /\ start[j] \in Nat
        BY <3>1
      <3>3. CASE j = k
        BY <3>2, <3>3
      <3>4. CASE j # k
        <4>1. j \in 0 .. k - 1
          BY <3>4
        <4>2. start[j] <= start[k - 1] /\ start[k - 1] <= start[k]
          BY <1>2, <4>1
        <4> QED
          BY <3>2, <4>2
      <3> QED
        BY <3>3, <3>4
    <2> QED
      BY <2>1
  <1>3. 0 .. N \subseteq T
    <2> HIDE DEF T
    <2> QED
      BY <1>1, <1>2, IntervalInduction
  <1> QED
    BY <1>3

\* A function on 1 .. n is a sequence.
LEMMA TableIsSeq ==
  ASSUME NEW S, NEW n \in Nat, NEW f, f = [j \in 1 .. n |-> f[j]],
         \A j \in 1 .. n : f[j] \in S
  PROVE  f \in Seq(S) /\ Len(f) = n
  <1>1. f \in [1 .. n -> S]
    OBVIOUS
  <1>2. DOMAIN f = 1 .. n
    OBVIOUS
  <1> QED
    BY <1>1, <1>2

LEMMA ConcatPlaces ==
  ASSUME NEW S, NEW u \in Seq(S), NEW v \in Seq(S)
  PROVE  /\ u \o v \in Seq(S) /\ Len(u \o v) = Len(u) + Len(v)
         /\ \A n \in 1 .. Len(u) : (u \o v)[n] = u[n]
         /\ \A j \in 1 .. Len(v) : (u \o v)[Len(u) + j] = v[j]
  OBVIOUS

\* The m-th to the z-th element of c, the m-th itself left out.
LEMMA SliceElements ==
  ASSUME NEW S, NEW c \in Seq(S), NEW m \in Nat, NEW z \in Nat, m <= z, z <= Len(c)
  PROVE  /\ SubSeq(c, m + 1, z) \in Seq(S)
         /\ Len(SubSeq(c, m + 1, z)) = z - m
         /\ \A i \in 1 .. z - m : SubSeq(c, m + 1, z)[i] = c[m + i]
  <1>1. SubSeq(c, m + 1, z) \in Seq(S) /\ Len(SubSeq(c, m + 1, z)) = z - m
    OBVIOUS
  <1>2. ASSUME NEW i \in 1 .. z - m
        PROVE  SubSeq(c, m + 1, z)[i] = c[m + i]
    <2>1. (m + 1) + i - 1 = m + i
      OBVIOUS
    <2>2. i \in 1 .. z - (m + 1) + 1
      OBVIOUS
    <2> QED
      BY <2>1, <2>2
  <1> QED
    BY <1>1, <1>2

\* Two slices that meet are one.
LEMMA SlicesMeet ==
  ASSUME NEW S, NEW c \in Seq(S), NEW a \in Nat, NEW m \in Nat, NEW z \in Nat,
         a <= m, m <= z, z <= Len(c)
  PROVE  SubSeq(c, a + 1, m) \o SubSeq(c, m + 1, z) = SubSeq(c, a + 1, z)
  <1> DEFINE u == SubSeq(c, a + 1, m)
             v == SubSeq(c, m + 1, z)
             w == SubSeq(c, a + 1, z)
  <1>1. /\ u \in Seq(S) /\ Len(u) = m - a
        /\ \A i \in 1 .. m - a : u[i] = c[a + i]
    BY SliceElements
  <1>2. /\ v \in Seq(S) /\ Len(v) = z - m
        /\ \A i \in 1 .. z - m : v[i] = c[m + i]
    BY SliceElements
  <1>3. /\ w \in Seq(S) /\ Len(w) = z - a
        /\ \A i \in 1 .. z - a : w[i] = c[a + i]
    BY SliceElements
  <1> HIDE DEF u, v, w
  <1>4. /\ u \o v \in Seq(S) /\ Len(u \o v) = Len(u) + Len(v)
        /\ \A n \in 1 .. Len(u) : (u \o v)[n] = u[n]
        /\ \A j \in 1 .. Len(v) : (u \o v)[Len(u) + j] = v[j]
    <2>1. u \in Seq(S) /\ v \in Seq(S)
      BY <1>1, <1>2
    <2> QED
      BY <2>1, ConcatPlaces
  <1>5. Len(u \o v) = Len(w)
    BY <1>1, <1>2, <1>3, <1>4
  <1>6. ASSUME NEW i \in 1 .. z - a
        PROVE  (u \o v)[i] = w[i]
    <2>1. CASE i <= m - a
      <3>1. i \in 1 .. m - a
        BY <2>1
      <3> QED
        BY <1>1, <1>3, <1>4, <3>1
    <2>2. CASE ~(i <= m - a)
      <3> DEFINE j == i - (m - a)
      <3>1. j \in 1 .. z - m /\ (m - a) + j = i /\ m + j = a + i
        BY <2>2
      <3> HIDE DEF j
      <3>2. (u \o v)[i] = v[j]
        BY <1>1, <1>2, <1>4, <3>1
      <3>3. v[j] = c[m + j]
        BY <1>2, <3>1
      <3> QED
        BY <1>3, <3>1, <3>2, <3>3
    <2> QED
      BY <2>1, <2>2
  <1>7. u \o v = w
    BY <1>3, <1>4, <1>5, <1>6, SameSequence
  <1> QED
    BY <1>7 DEF u, v, w

\* The k-th sequence of w is in FlattenSeq(w) from place start[k - 1] on.
Placed(S, w, start) ==
  /\ FlattenSeq(w) \in Seq(S)
  /\ Len(FlattenSeq(w)) = start[Len(w)]
  /\ \A k \in 1 .. Len(w) : \A j \in 1 .. Len(w[k]) :
       FlattenSeq(w)[start[k - 1] + j] = w[k][j]

\* FlattenSeq puts the k-th sequence behind the bytes of those before it.
LEMMA FlattenedPlaces ==
  ASSUME NEW S, NEW w \in Seq(Seq(S)), NEW start \in [0 .. Len(w) -> Nat],
         start[0] = 0, \A k \in 1 .. Len(w) : start[k] = start[k - 1] + Len(w[k])
  PROVE  Placed(S, w, start)
  <1> USE DEF Placed
  <1> DEFINE N == Len(w)
             Q == Seq(S)
  <1>1. N \in Nat /\ \A k \in 1 .. N : w[k] \in Q /\ Len(w[k]) \in Nat
    OBVIOUS
  <1>2. \A k \in 0 .. N : start[k] \in Nat
    OBVIOUS
  <1>3. ASSUME NEW k \in 1 .. N
        PROVE  start[k - 1] \in Nat /\ start[k] = start[k - 1] + Len(w[k])
    <2>1. k - 1 \in 0 .. N
      BY <1>1
    <2> QED
      BY <1>2, <2>1
  <1>4. \A k \in 0 .. N : \A j \in 0 .. k : start[j] <= start[k]
    <2>1. \A k \in 1 .. N : start[k - 1] <= start[k]
      <3> SUFFICES ASSUME NEW k \in 1 .. N PROVE start[k - 1] <= start[k]
        OBVIOUS
      <3>1. start[k - 1] \in Nat /\ start[k] = start[k - 1] + Len(w[k])
            /\ Len(w[k]) \in Nat
        BY <1>1, <1>3
      <3> QED
        BY <3>1
    <2> QED
      BY <1>1, <2>1, TotalsGrow
  <1>5. CASE N = 0
    <2>1. FlattenSeq(w) = w /\ w = <<>>
      BY <1>5 DEF FlattenSeq
    <2> QED
      BY <1>5, <2>1
  <1>6. CASE N # 0
    <2> DEFINE F == [k \in 1 .. N - 1 |-> [v \in Q |-> v \o w[k + 1]]]
               Def(f) == f = [i \in 1 .. N |-> IF i = 1 THEN w[i] ELSE f[i - 1] \o w[i]]
               flatten == CHOOSE f : Def(f)
    <2>1. FlattenSeq(w) = flatten[N]
      BY <1>6 DEF FlattenSeq
    <2>2. F \in [1 .. N - 1 -> [Q -> Q]]
      <3>1. \A k \in 1 .. N - 1 : k + 1 \in 1 .. N
        BY <1>1
      <3>2. \A k \in 1 .. N - 1, v \in Q : v \o w[k + 1] \in Q
        BY <1>1, <3>1
      <3> HIDE DEF Q, N
      <3> QED
        BY <3>2
    <2>3. PICK f \in [0 .. N - 1 -> Q] : Iterates(f, w[1], F, N - 1)
      <3>1. N - 1 \in Nat /\ w[1] \in Q
        BY <1>1, <1>6
      <3> HIDE DEF F, Q, N
      <3> QED
        BY <2>2, <3>1, IterationExists
    <2> DEFINE g == [i \in 1 .. N |-> f[i - 1]]
    <2>4. ASSUME NEW i \in 1 .. N
          PROVE  g[i] = IF i = 1 THEN w[i] ELSE g[i - 1] \o w[i]
      <3>1. CASE i = 1
        BY <1>6, <2>3, <3>1 DEF Iterates
      <3>2. CASE i # 1
        <4>1. i - 1 \in 1 .. N - 1 /\ i - 1 \in 1 .. N /\ (i - 1) + 1 = i
              /\ (i - 1) - 1 \in 0 .. N - 1
          BY <1>1, <3>2
        <4>2. f[i - 1] = F[i - 1][f[(i - 1) - 1]]
          BY <2>3, <4>1 DEF Iterates
        <4>3. f[(i - 1) - 1] \in Q
          BY <2>3, <4>1
        <4>4. F[i - 1][f[(i - 1) - 1]] = f[(i - 1) - 1] \o w[i]
          BY <4>1, <4>3
        <4>5. g[i] = f[i - 1] /\ g[i - 1] = f[(i - 1) - 1]
          BY <4>1
        <4> QED
          BY <3>2, <4>2, <4>4, <4>5
      <3> QED
        BY <3>1, <3>2
    <2>5. Def(g)
      <3>1. g = [i \in 1 .. N |-> g[i]]
        OBVIOUS
      <3> HIDE DEF g, N
      <3> QED
        BY <2>4, <3>1
    <2>6. Def(flatten)
      <3> HIDE DEF g
      <3> QED
        BY <2>5
    <2> HIDE DEF flatten
    <2>7. ASSUME NEW i \in 1 .. N
          PROVE  flatten[i] = IF i = 1 THEN w[i] ELSE flatten[i - 1] \o w[i]
      <3> HIDE DEF N
      <3> QED
        BY <2>6
    <2> HIDE DEF F
    <2> DEFINE Good(i) == /\ flatten[i] \in Q /\ Len(flatten[i]) = start[i]
                          /\ \A k \in 1 .. i : \A j \in 1 .. Len(w[k]) :
                               flatten[i][start[k - 1] + j] = w[k][j]
               T == {i \in 0 .. N : i # 0 => Good(i)}
    <2>8. 0 \in T
      BY <1>1
    <2>9. ASSUME NEW i \in 1 .. N, i - 1 \in T
           PROVE  i \in T
      <3>1. CASE i = 1
        <4>1. flatten[1] = w[1]
          BY <2>7, <3>1
        <4>2. start[1] = Len(w[1]) /\ start[0] = 0
          BY <1>1, <3>1
        <4>3. ASSUME NEW k \in 1 .. 1, NEW j \in 1 .. Len(w[k])
              PROVE  flatten[1][start[k - 1] + j] = w[k][j]
          <5>1. k = 1 /\ start[k - 1] + j = j
            BY <4>2
          <5> QED
            BY <4>1, <5>1
        <4> QED
          BY <1>1, <3>1, <4>1, <4>2, <4>3
      <3>2. CASE i # 1
        <4> DEFINE u == flatten[i - 1]
                   v == w[i]
                   m == start[i - 1]
        <4>1. i - 1 \in 1 .. N /\ i - 1 \in 0 .. N /\ i - 1 # 0
          BY <1>1, <3>2
        <4>2. Good(i - 1)
          BY <2>9, <4>1
        <4>3. u \in Q /\ v \in Q /\ Len(u) = m /\ m \in Nat
              /\ flatten[i] = u \o v /\ start[i] = m + Len(v)
          BY <1>1, <2>7, <3>2, <4>1, <4>2
        <4>4. ASSUME NEW k \in 1 .. i - 1, NEW j \in 1 .. Len(w[k])
              PROVE  u[start[k - 1] + j] = w[k][j] /\ start[k - 1] + j \in 1 .. m
          <5>1. u[start[k - 1] + j] = w[k][j]
            BY <4>2
          <5>2. k \in 1 .. N /\ k \in 0 .. i - 1 /\ k - 1 \in 0 .. N
            BY <1>1, <4>1, SMTT(30)
          <5>3. start[k] = start[k - 1] + Len(w[k]) /\ start[k - 1] \in Nat
                /\ start[k] <= m /\ Len(w[k]) \in Nat
            BY <1>1, <1>3, <1>4, <4>1, <5>2
          <5>4. start[k - 1] + j \in 1 .. m
            <6> DEFINE a == start[k - 1]
                       l == Len(w[k])
            <6>1. a \in Nat /\ l \in Nat /\ a + l <= m /\ m \in Nat /\ j \in 1 .. l
              BY <4>3, <5>3
            <6> HIDE DEF a, l, m
            <6>2. a + j \in 1 .. m
              BY <6>1
            <6> QED
              BY <6>2 DEF a
          <5> QED
            BY <5>1, <5>4
        <4> HIDE DEF u, v, m
        <4>5. /\ u \o v \in Q /\ Len(u \o v) = m + Len(v)
              /\ \A n \in 1 .. m : (u \o v)[n] = u[n]
              /\ \A j \in 1 .. Len(v) : (u \o v)[m + j] = v[j]
          <5>1. u \in Seq(S) /\ v \in Seq(S)
            BY <4>3 DEF Q
          <5>2. /\ u \o v \in Seq(S) /\ Len(u \o v) = Len(u) + Len(v)
                /\ \A n \in 1 .. Len(u) : (u \o v)[n] = u[n]
                /\ \A j \in 1 .. Len(v) : (u \o v)[Len(u) + j] = v[j]
            BY <5>1, ConcatPlaces
          <5> QED
            BY <4>3, <5>2 DEF Q
        <4>6. ASSUME NEW k \in 1 .. i, NEW j \in 1 .. Len(w[k])
              PROVE  flatten[i][start[k - 1] + j] = w[k][j]
          <5>1. CASE k = i
            BY <4>3, <4>5, <5>1 DEF v, m
          <5>2. CASE k # i
            <6>1. k \in 1 .. i - 1
              BY <5>2
            <6> QED
              BY <4>3, <4>4, <4>5, <6>1
          <5> QED
            BY <5>1, <5>2
        <4>7. Good(i)
          BY <4>3, <4>5, <4>6
        <4>8. i \in 0 .. N
          BY <1>1
        <4> QED
          BY <4>7, <4>8
      <3> QED
        BY <3>1, <3>2
    <2>10. 0 .. N \subseteq T
      <3> HIDE DEF T
      <3> QED
        BY <1>1, <2>8, <2>9, IntervalInduction
    <2>11. N \in 0 .. N
      BY <1>1
    <2>12. Good(N)
      BY <1>6, <2>10, <2>11
    <2> QED
      BY <2>1, <2>12
  <1> QED
    BY <1>5, <1>6

(***************************************************************************)
(* The search for a file position.                                         *)
(***************************************************************************)

\* The k-th entry from the oldest is one of the array.
LEMMA VisitedIsEntry ==
  ASSUME NEW P, NEW b \in Buffers(P), NEW k \in Slots
  PROVE  /\ Visited(b, k) \in Entries(P)
         /\ \E s \in Slots : Visited(b, k) = b.entry[s]
  <1>1. b.out_offs \in Slots /\ b.entry \in [Slots -> Entries(P)]
    BY DEF Buffers
  <1>2. (b.out_offs + k) % MaxOps \in Slots
    BY <1>1, SlotFromOldest DEF Slots
  <1> QED
    BY <1>1, <1>2 DEF Visited

\* What the loop has summed up before the k-th entry.
LEMMA TotalBytes ==
  ASSUME NEW P, NEW b \in Buffers(P)
  PROVE  /\ TotalBytesSize(b) \in [0 .. MaxOps -> Nat]
         /\ TotalBytesSize(b)[0] = 0
         /\ \A k \in 1 .. MaxOps :
              TotalBytesSize(b)[k] =
                TotalBytesSize(b)[k - 1] + Visited(b, k - 1).size
  <1> DEFINE size(k) == Visited(b, k - 1).size
             F == [k \in 1 .. MaxOps |-> [n \in Nat |-> n + size(k)]]
             Def(f) == f = [k \in 0 .. MaxOps |->
                              IF k = 0 THEN 0 ELSE f[k - 1] + size(k)]
  <1>1. MaxOps \in Nat
    BY MaxOpsAssumption
  <1>2. \A k \in 1 .. MaxOps : size(k) \in Nat
    <2> SUFFICES ASSUME NEW k \in 1 .. MaxOps PROVE size(k) \in Nat
      OBVIOUS
    <2>1. k - 1 \in Slots
      BY <1>1 DEF Slots
    <2> QED
      BY <2>1, VisitedIsEntry DEF Entries
  <1> HIDE DEF size
  <1>3. F \in [1 .. MaxOps -> [Nat -> Nat]]
    BY <1>2
  <1>4. PICK f \in [0 .. MaxOps -> Nat] :
          f[0] = 0 /\ \A k \in 1 .. MaxOps : f[k] = F[k][f[k - 1]]
    <2> HIDE DEF F
    <2>1. 0 \in Nat
      OBVIOUS
    <2>2. \E f \in [0 .. MaxOps -> Nat] : Iterates(f, 0, F, MaxOps)
      BY <1>1, <1>3, <2>1, IterationExists
    <2> QED
      BY <2>2 DEF Iterates
  <1>5. \A k \in 1 .. MaxOps : f[k] = f[k - 1] + size(k)
    <2> SUFFICES ASSUME NEW k \in 1 .. MaxOps PROVE f[k] = f[k - 1] + size(k)
      OBVIOUS
    <2>1. k - 1 \in 0 .. MaxOps
      BY <1>1
    <2> QED
      BY <1>4, <2>1
  <1>6. \A k \in 0 .. MaxOps : k # 0 => k \in 1 .. MaxOps
    BY <1>1
  <1>7. Def(f)
    BY <1>4, <1>5, <1>6
  <1>8. TotalBytesSize(b) = CHOOSE g : Def(g)
    BY DEF TotalBytesSize, size
  <1>9. Def(TotalBytesSize(b))
    BY <1>7, <1>8
  <1> DEFINE total == TotalBytesSize(b)
  <1>10. total = [k \in 0 .. MaxOps |->
                    IF k = 0 THEN 0 ELSE total[k - 1] + size(k)]
    BY <1>9
  <1>11. total[0] = 0 /\ \A k \in 1 .. MaxOps : total[k] = total[k - 1] + size(k)
    <2> HIDE DEF total
    <2> QED
      BY <1>1, <1>10
  <1>12. total \in [0 .. MaxOps -> Nat]
    <2> HIDE DEF total
    <2> DEFINE T == {k \in 0 .. MaxOps : total[k] \in Nat}
    <2>1. 0 \in T
      BY <1>1, <1>11
    <2>2. \A k \in 1 .. MaxOps : k - 1 \in T => k \in T
      BY <1>1, <1>2, <1>11
    <2>3. 0 .. MaxOps \subseteq T
      <3> HIDE DEF T
      <3> QED
        BY <1>1, <2>1, <2>2, IntervalInduction
    <2> QED
      BY <1>10, <2>3
  <1> QED
    BY <1>11, <1>12 DEF size

\* The entry the search returns has bytes, and the offset is that of one of
\* them: never before the first or beyond the last byte of the entry.
LEMMA FindEntryInside ==
  ASSUME NEW P, NEW b \in Buffers(P), NEW off \in Nat, FindEntry(b, off).found
  PROVE  \E s \in Slots :
           /\ FindEntry(b, off).entry = b.entry[s]
           /\ b.entry[s].size > 0
           /\ FindEntry(b, off).entry_offset \in 0 .. b.entry[s].size - 1
  <1> DEFINE total == TotalBytesSize(b)
             Reaches(k) ==
               /\ \A j \in 0 .. k : Visited(b, j).size # 0
               /\ \A j \in 1 .. k : b.full \/ (b.out_offs + j) % MaxOps # b.in_offs
             hits == {k \in Slots : Reaches(k) /\ total[k + 1] > off}
             k0 == Min(hits)
  <1>1. FindEntry(b, off) =
          IF hits = {}
          THEN [found |-> FALSE]
          ELSE [found |-> TRUE, entry |-> Visited(b, k0),
                entry_offset |-> off - total[k0]]
    BY DEF FindEntry
  <1>2. hits # {}
    BY <1>1
  <1>3. /\ FindEntry(b, off).entry = Visited(b, k0)
        /\ FindEntry(b, off).entry_offset = off - total[k0]
    BY <1>1, <1>2
  <1>4. k0 \in hits /\ \A k \in hits : k0 <= k
    <2>1. hits \subseteq Nat
      BY DEF Slots
    <2> HIDE DEF hits
    <2>2. \E n \in hits : \A k \in hits : n <= k
      BY <1>2, <2>1, LeastNatural
    <2> QED
      BY <2>2 DEF Min
  <1>5. /\ total \in [0 .. MaxOps -> Nat]
        /\ total[0] = 0
        /\ \A k \in 1 .. MaxOps : total[k] = total[k - 1] + Visited(b, k - 1).size
    BY TotalBytes
  <1>6. k0 \in Slots /\ Reaches(k0) /\ total[k0 + 1] > off
    <2> HIDE DEF k0
    <2> QED
      BY <1>4
  <1> HIDE DEF k0, total
  <1>7. /\ k0 \in 0 .. MaxOps /\ k0 + 1 \in 1 .. MaxOps
        /\ (k0 + 1) - 1 = k0
        /\ k0 \in 0 .. k0
    BY <1>6, MaxOpsAssumption DEF Slots
  <1>8. PICK s \in Slots : Visited(b, k0) = b.entry[s]
    BY <1>6, VisitedIsEntry
  <1>9. b.entry[s].size \in Nat
    BY DEF Buffers, Entries
  <1>10. total[k0 + 1] = total[k0] + b.entry[s].size
    BY <1>5, <1>7, <1>8
  <1>11. b.entry[s].size > 0
    BY <1>6, <1>7, <1>8, <1>9
  <1>12. total[k0] <= off
    <2>1. CASE k0 = 0
      BY <1>5, <2>1
    <2>2. CASE k0 # 0
      <3>1. k0 - 1 \in Slots /\ ~ (k0 <= k0 - 1) /\ (k0 - 1) + 1 = k0
        BY <1>6, <2>2, MaxOpsAssumption DEF Slots
      <3>2. 0 .. k0 - 1 \subseteq 0 .. k0 /\ 1 .. k0 - 1 \subseteq 1 .. k0
        BY <1>7
      <3>3. Reaches(k0 - 1)
        BY <1>6, <3>2
      <3>4. ~ (total[k0] > off)
        BY <1>4, <3>1, <3>3
      <3> QED
        BY <1>5, <1>7, <3>4
    <2> QED
      BY <2>1, <2>2
  <1>13. off - total[k0] \in 0 .. b.entry[s].size - 1
    BY <1>5, <1>6, <1>7, <1>9, <1>10, <1>12, SMTT(30)
  <1> QED
    BY <1>3, <1>8, <1>11, <1>13

(***************************************************************************)
(* The search in a buffer of proper shape.                                 *)
(***************************************************************************)

\* The first Count(b) entries from the oldest are the commands, and have bytes.
LEMMA VisitedShape ==
  ASSUME NEW P, NEW b \in Buffers(P), RingShape(b), NEW k \in Slots
  PROVE  /\ Count(b) \in 0 .. MaxOps
         /\ k < Count(b) => /\ Visited(b, k) = OldestFirst(b)[k + 1]
                            /\ Visited(b, k).buffptr # NULL
                            /\ Visited(b, k).size > 0
         /\ Visited(b, k).size # 0 => k < Count(b)
         /\ k < Count(b) => \A j \in 1 .. k :
                              b.full \/ (b.out_offs + j) % MaxOps # b.in_offs
  <1>1. /\ b.in_offs \in Slots /\ b.out_offs \in Slots /\ b.full \in BOOLEAN
        /\ MaxOps \in Nat \ {0} /\ k \in 0 .. MaxOps - 1
    BY MaxOpsAssumption DEF Buffers, Slots
  <1>2. Count(b) \in 0 .. MaxOps
    BY <1>1 DEF Count, Slots
  <1>3. k < Count(b) => Visited(b, k) = OldestFirst(b)[k + 1]
    BY <1>1, <1>2 DEF OldestFirst
  <1>4. CASE b.full
    <2>1. (b.out_offs + k) % MaxOps \in Slots
      BY <1>1, SlotFromOldest DEF Slots
    <2>2. Visited(b, k).buffptr # NULL /\ Visited(b, k).size > 0
      BY <1>4, <2>1 DEF Visited, RingShape
    <2> QED
      BY <1>1, <1>2, <1>3, <1>4, <2>2 DEF Count
  <1>5. CASE ~b.full
    <2>1. b.out_offs = 0 /\ Count(b) = b.in_offs
      BY <1>5 DEF RingShape, Count
    <2>2. \A j \in 0 .. MaxOps - 1 : (b.out_offs + j) % MaxOps = j
      BY <1>1, <2>1
    <2>3. Visited(b, k) = b.entry[k]
      BY <1>1, <2>2 DEF Visited
    <2>4. k < b.in_offs => b.entry[k].buffptr # NULL /\ b.entry[k].size > 0
      BY <1>5 DEF RingShape
    <2>5. ~(k < b.in_offs) => b.entry[k].size = 0
      BY <1>5 DEF RingShape
    <2>6. k < b.in_offs => \A j \in 1 .. k : (b.out_offs + j) % MaxOps # b.in_offs
      <3> SUFFICES ASSUME k < b.in_offs, NEW j \in 1 .. k
                   PROVE  (b.out_offs + j) % MaxOps # b.in_offs
        OBVIOUS
      <3>1. j \in 0 .. MaxOps - 1 /\ j < b.in_offs
        BY <1>1 DEF Slots
      <3> QED
        BY <1>1, <2>2, <3>1
    <2> QED
      BY <1>2, <1>3, <2>1, <2>3, <2>4, <2>5, <2>6
  <1> QED
    BY <1>4, <1>5

\* The loop's sum before the k-th entry is where the k-th command starts.
LEMMA WindowTotals ==
  ASSUME NEW P, NEW b \in Buffers(P), RingShape(b)
  PROVE  /\ TotalBytesSize(b) \in [0 .. MaxOps -> Nat]
         /\ TotalBytesSize(b)[0] = 0
         /\ \A k \in 1 .. Count(b) :
              TotalBytesSize(b)[k] = TotalBytesSize(b)[k - 1] + OldestFirst(b)[k].size
         /\ \A k \in 0 .. MaxOps : \A j \in 0 .. k :
              TotalBytesSize(b)[j] <= TotalBytesSize(b)[k]
  <1> DEFINE total == TotalBytesSize(b)
  <1>1. /\ total \in [0 .. MaxOps -> Nat] /\ total[0] = 0
        /\ \A k \in 1 .. MaxOps : total[k] = total[k - 1] + Visited(b, k - 1).size
    BY TotalBytes
  <1> HIDE DEF total
  <1>2. MaxOps \in Nat
    BY MaxOpsAssumption
  <1>3. \A k \in 1 .. MaxOps : k - 1 \in Slots /\ (k - 1) + 1 = k /\ k - 1 \in 0 .. MaxOps
    BY <1>2 DEF Slots
  <1>4. \A k \in 1 .. Count(b) : total[k] = total[k - 1] + OldestFirst(b)[k].size
    <2> SUFFICES ASSUME NEW k \in 1 .. Count(b)
                 PROVE  total[k] = total[k - 1] + OldestFirst(b)[k].size
      OBVIOUS
    <2>1. Count(b) \in 0 .. MaxOps
      BY WindowElements
    <2>2. k \in 1 .. MaxOps /\ k - 1 < Count(b)
      BY <1>2, <2>1
    <2>3. k - 1 \in Slots /\ (k - 1) + 1 = k
      BY <1>3, <2>2
    <2>4. Visited(b, k - 1) = OldestFirst(b)[k]
      <3> DEFINE i == k - 1
      <3>1. i \in Slots /\ i < Count(b) /\ i + 1 = k
        BY <2>2, <2>3
      <3> HIDE DEF i
      <3>2. Visited(b, i) = OldestFirst(b)[i + 1]
        BY <3>1, VisitedShape
      <3> QED
        BY <3>1, <3>2 DEF i
    <2> QED
      BY <1>1, <2>2, <2>4
  <1>5. \A k \in 1 .. MaxOps : total[k - 1] <= total[k]
    <2> SUFFICES ASSUME NEW k \in 1 .. MaxOps PROVE total[k - 1] <= total[k]
      OBVIOUS
    <2> DEFINE i == k - 1
    <2>1. i \in Slots /\ i \in 0 .. MaxOps
      BY <1>3
    <2>2. total[k] = total[i] + Visited(b, i).size
      BY <1>1
    <2> HIDE DEF i
    <2>3. Visited(b, i).size \in Nat /\ total[i] \in Nat
      BY <1>1, <2>1, VisitedIsEntry DEF Entries
    <2>4. total[i] <= total[k]
      BY <2>2, <2>3
    <2> QED
      BY <2>4 DEF i
  <1>6. \A k \in 0 .. MaxOps : \A j \in 0 .. k : total[j] <= total[k]
    BY <1>1, <1>2, <1>5, TotalsGrow
  <1> QED
    BY <1>1, <1>4, <1>6 DEF total

\* The search finds the command that a position is in, and nothing beyond the
\* last one.
LEMMA FindEntryInWindow ==
  ASSUME NEW P, NEW b \in Buffers(P), RingShape(b), NEW off \in Nat
  PROVE  /\ FindEntry(b, off).found <=> off < TotalBytesSize(b)[Count(b)]
         /\ FindEntry(b, off).found =>
              \E k \in 1 .. Count(b) :
                /\ FindEntry(b, off).entry = OldestFirst(b)[k]
                /\ FindEntry(b, off).entry_offset = off - TotalBytesSize(b)[k - 1]
                /\ TotalBytesSize(b)[k - 1] <= off
                /\ off < TotalBytesSize(b)[k]
  <1> DEFINE total == TotalBytesSize(b)
             n == Count(b)
             Reaches(k) ==
               /\ \A j \in 0 .. k : Visited(b, j).size # 0
               /\ \A j \in 1 .. k : b.full \/ (b.out_offs + j) % MaxOps # b.in_offs
             hits == {k \in Slots : Reaches(k) /\ total[k + 1] > off}
             k0 == Min(hits)
             found == FindEntry(b, off)
  <1>1. found = IF hits = {}
                THEN [found |-> FALSE]
                ELSE [found |-> TRUE, entry |-> Visited(b, k0),
                      entry_offset |-> off - total[k0]]
    BY DEF FindEntry
  <1>2. /\ total \in [0 .. MaxOps -> Nat] /\ total[0] = 0
        /\ \A k \in 0 .. MaxOps : \A j \in 0 .. k : total[j] <= total[k]
    BY WindowTotals
  <1>3. n \in 0 .. MaxOps /\ MaxOps \in Nat
    BY WindowElements, MaxOpsAssumption
  <1>4. \A k \in Slots : Reaches(k) <=> k < n
    <2> SUFFICES ASSUME NEW k \in Slots PROVE Reaches(k) <=> k < n
      OBVIOUS
    <2>1. k \in 0 .. k /\ k \in Nat /\ \A j \in 0 .. k : j \in Slots
      BY <1>3 DEF Slots
    <2>2. ASSUME Reaches(k) PROVE k < n
      BY <2>1, <2>2, VisitedShape
    <2>3. ASSUME k < n PROVE Reaches(k)
      <3>1. \A j \in 1 .. k : b.full \/ (b.out_offs + j) % MaxOps # b.in_offs
        BY <2>3, VisitedShape
      <3>2. \A j \in 0 .. k : Visited(b, j).size # 0
        <4> SUFFICES ASSUME NEW j \in 0 .. k PROVE Visited(b, j).size # 0
          OBVIOUS
        <4>1. j \in Slots /\ j < n
          BY <1>3, <2>1, <2>3
        <4>2. Visited(b, j).size > 0
          BY <4>1, VisitedShape
        <4>3. Visited(b, j).size \in Nat
          BY <4>1, VisitedIsEntry DEF Entries
        <4> QED
          BY <4>2, <4>3
      <3> QED
        BY <3>1, <3>2
    <2> QED
      BY <2>2, <2>3
  <1>5. hits = {k \in Slots : k < n /\ total[k + 1] > off}
    <2> HIDE DEF total, n
    <2> QED
      BY <1>4
  <1>6. hits # {} => k0 \in hits /\ \A k \in hits : k0 <= k
    <2>1. hits \subseteq Nat
      BY DEF Slots
    <2> HIDE DEF hits
    <2>2. hits # {} => \E m \in hits : \A k \in hits : m <= k
      BY <2>1, LeastNatural
    <2> QED
      BY <2>2 DEF Min
  <1> HIDE DEF total, n, Reaches, k0, hits
  <1>7. ASSUME off < total[n]
        PROVE  hits # {}
    <2>1. n # 0
      BY <1>2, <1>7
    <2>2. n - 1 \in Slots /\ n - 1 < n /\ (n - 1) + 1 = n
      BY <1>3, <2>1 DEF Slots
    <2>3. total[n] \in Nat
      BY <1>2, <1>3
    <2>4. n - 1 \in hits
      BY <1>5, <1>7, <2>2, <2>3
    <2> QED
      BY <2>4
  <1>8. ASSUME hits # {}
        PROVE  /\ off < total[n]
               /\ \E k \in 1 .. n :
                    /\ found.entry = OldestFirst(b)[k]
                    /\ found.entry_offset = off - total[k - 1]
                    /\ total[k - 1] <= off /\ off < total[k]
    <2>1. /\ k0 \in Slots /\ k0 < n /\ total[k0 + 1] > off
          /\ \A k \in hits : k0 <= k
      BY <1>5, <1>6, <1>8
    <2>2. /\ k0 \in 0 .. MaxOps /\ k0 + 1 \in 0 .. n /\ k0 + 1 \in 0 .. MaxOps
          /\ k0 + 1 \in 1 .. n /\ (k0 + 1) - 1 = k0
      BY <1>3, <2>1 DEF Slots
    <2>3. total[k0] \in Nat /\ total[k0 + 1] \in Nat /\ total[n] \in Nat
          /\ total[k0 + 1] <= total[n]
      BY <1>2, <1>3, <2>2
    <2>4. total[k0] <= off
      <3>1. CASE k0 = 0
        BY <1>2, <3>1
      <3>2. CASE k0 # 0
        <4>1. k0 - 1 \in Slots /\ k0 - 1 < n /\ ~(k0 <= k0 - 1) /\ (k0 - 1) + 1 = k0
          BY <1>3, <2>1, <3>2 DEF Slots
        <4>2. k0 - 1 \notin hits
          BY <2>1, <4>1
        <4>3. ~(total[(k0 - 1) + 1] > off)
          BY <1>5, <4>1, <4>2
        <4> QED
          BY <2>3, <4>1, <4>3
      <3> QED
        BY <3>1, <3>2
    <2>5. found.entry = Visited(b, k0) /\ found.entry_offset = off - total[k0]
      BY <1>1, <1>8
    <2>6. Visited(b, k0) = OldestFirst(b)[k0 + 1]
      BY <2>1, VisitedShape DEF n
    <2>7. off < total[n] /\ off < total[k0 + 1]
      BY <2>1, <2>3
    <2> DEFINE k == k0 + 1
    <2>8. /\ k \in 1 .. n /\ k - 1 = k0 /\ found.entry = OldestFirst(b)[k]
          /\ off < total[k]
      BY <2>2, <2>5, <2>6, <2>7
    <2> HIDE DEF k, found
    <2> QED
      BY <2>4, <2>5, <2>7, <2>8
  <1>9. found.found <=> hits # {}
    BY <1>1
  <1> QED
    BY <1>7, <1>8, <1>9 DEF total, n, found

(***************************************************************************)
(* The walks from slot 0.                                                  *)
(***************************************************************************)

\* The slots in use are the first Count(b).
LEMMA UsedShape ==
  ASSUME NEW P, NEW b \in Buffers(P), RingShape(b), NEW s \in Slots
  PROVE  /\ Used(b, s) <=> s < Count(b)
         /\ b.entry[s].size \in Nat
         /\ ~Used(b, s) => b.entry[s].size = 0
  <1>1. /\ b.in_offs \in Slots /\ b.full \in BOOLEAN
        /\ MaxOps \in Nat \ {0} /\ s \in 0 .. MaxOps - 1
        /\ s \in 0 .. s /\ \A j \in 0 .. s : j \in Slots /\ j <= s
    BY MaxOpsAssumption DEF Buffers, Slots
  <1>2. b.entry[s].size \in Nat
    BY DEF Buffers, Entries
  <1>3. CASE b.full
    <2>1. \A j \in 0 .. s : b.entry[j].buffptr # NULL
      BY <1>1, <1>3 DEF RingShape
    <2> QED
      BY <1>1, <1>2, <1>3, <2>1 DEF Used, Count
  <1>4. CASE ~b.full
    <2>1. Count(b) = b.in_offs /\ b.in_offs \in Nat
      BY <1>1, <1>4 DEF Count, Slots
    <2>2. \A j \in 0 .. s : j < b.in_offs => b.entry[j].buffptr # NULL
      BY <1>1, <1>4 DEF RingShape
    <2>3. \A j \in 0 .. s : ~(j < b.in_offs) => /\ b.entry[j].buffptr = NULL
                                                /\ b.entry[j].size = 0
      BY <1>1, <1>4 DEF RingShape
    <2>4. s < b.in_offs => \A j \in 0 .. s : j < b.in_offs
      BY <1>1, <2>1
    <2> QED
      BY <1>1, <1>2, <2>1, <2>2, <2>3, <2>4 DEF Used
  <1> QED
    BY <1>3, <1>4

\* The slots in use are as many as the commands.
LEMMA CountsCommands ==
  ASSUME NEW P, NEW b \in Buffers(P), RingShape(b)
  PROVE  CommandCount(b) = Count(b)
  <1> DEFINE n == Count(b)
  <1>1. MaxOps \in Nat /\ n \in 0 .. MaxOps
    BY MaxOpsAssumption, WindowElements
  <1>2. \A s \in Slots : Used(b, s) <=> s < n
    BY UsedShape
  <1> HIDE DEF n
  <1>3. {s \in Slots : Used(b, s)} = 0 .. n - 1
    <2>1. \A s \in Slots : s < n <=> s \in 0 .. n - 1
      BY <1>1 DEF Slots
    <2>2. 0 .. n - 1 \subseteq Slots
      BY <1>1 DEF Slots
    <2> QED
      BY <1>2, <2>1, <2>2
  <1>4. Cardinality(0 .. n - 1) = IF 0 > n - 1 THEN 0 ELSE (n - 1) - 0 + 1
    BY <1>1, FS_Interval
  <1>5. Cardinality(0 .. n - 1) = n
    BY <1>1, <1>4
  <1> QED
    BY <1>3, <1>5 DEF CommandCount, n

\* The sums of the walks from slot 0.
LEMMA SizeSums ==
  ASSUME NEW P, NEW b \in Buffers(P), RingShape(b)
  PROVE  /\ SizeUpTo(b) \in [0 .. MaxOps -> Nat]
         /\ SizeUpTo(b)[0] = 0
         /\ \A k \in 1 .. MaxOps :
              SizeUpTo(b)[k] = SizeUpTo(b)[k - 1] + b.entry[k - 1].size
  <1> DEFINE size(k) == IF Used(b, k - 1) THEN b.entry[k - 1].size ELSE 0
             F == [k \in 1 .. MaxOps |-> [n \in Nat |-> n + size(k)]]
             Def(f) == f = [k \in 0 .. MaxOps |->
                              IF k = 0 THEN 0 ELSE f[k - 1] + size(k)]
             sum == SizeUpTo(b)
  <1>1. MaxOps \in Nat
    BY MaxOpsAssumption
  <1>2. ASSUME NEW k \in 1 .. MaxOps
        PROVE  size(k) = b.entry[k - 1].size /\ size(k) \in Nat /\ k - 1 \in 0 .. MaxOps
    <2> DEFINE s == k - 1
    <2>1. s \in Slots /\ s \in 0 .. MaxOps
      BY <1>1 DEF Slots
    <2> HIDE DEF s
    <2>2. b.entry[s].size \in Nat /\ (~Used(b, s) => b.entry[s].size = 0)
      BY <2>1, UsedShape
    <2> QED
      BY <2>1, <2>2 DEF s
  <1>3. sum = CHOOSE g : Def(g)
    BY DEF SizeUpTo
  <1> HIDE DEF size
  <1>4. F \in [1 .. MaxOps -> [Nat -> Nat]]
    BY <1>2
  <1>5. PICK f \in [0 .. MaxOps -> Nat] : Iterates(f, 0, F, MaxOps)
    <2> HIDE DEF F
    <2>1. 0 \in Nat
      OBVIOUS
    <2> QED
      BY <1>1, <1>4, <2>1, IterationExists
  <1>6. \A k \in 1 .. MaxOps : f[k] = f[k - 1] + size(k)
    <2> SUFFICES ASSUME NEW k \in 1 .. MaxOps PROVE f[k] = f[k - 1] + size(k)
      OBVIOUS
    <2>1. f[k] = F[k][f[k - 1]]
      BY <1>5 DEF Iterates
    <2>2. f[k - 1] \in Nat
      BY <1>2
    <2> QED
      BY <2>1, <2>2
  <1>7. Def(f)
    <2>1. \A k \in 0 .. MaxOps : k # 0 => k \in 1 .. MaxOps
      BY <1>1
    <2> QED
      BY <1>5, <1>6, <2>1 DEF Iterates
  <1>8. Def(sum)
    BY <1>3, <1>7
  <1> HIDE DEF sum, F
  <1>9. sum[0] = 0
    <2>1. 0 \in 0 .. MaxOps
      BY <1>1
    <2> QED
      BY <1>8, <2>1
  <1>10. \A k \in 1 .. MaxOps : sum[k] = sum[k - 1] + size(k)
    BY <1>1, <1>8
  <1>11. sum \in [0 .. MaxOps -> Nat]
    <2> DEFINE T == {k \in 0 .. MaxOps : sum[k] \in Nat}
    <2>1. 0 \in T
      BY <1>1, <1>9
    <2>2. \A k \in 1 .. MaxOps : k - 1 \in T => k \in T
      BY <1>1, <1>2, <1>10
    <2>3. 0 .. MaxOps \subseteq T
      <3> HIDE DEF T
      <3> QED
        BY <1>1, <2>1, <2>2, IntervalInduction
    <2> QED
      BY <1>8, <2>3
  <1>12. \A k \in 1 .. MaxOps : sum[k] = sum[k - 1] + b.entry[k - 1].size
    BY <1>2, <1>10
  <1> QED
    BY <1>9, <1>11, <1>12 DEF sum

\* The sums from out_offs, in terms of those from slot 0.
LEMMA TotalsRotate ==
  ASSUME NEW P, NEW b \in Buffers(P), RingShape(b), NEW k \in 0 .. MaxOps
  PROVE  TotalBytesSize(b)[k] =
           IF b.out_offs + k <= MaxOps
           THEN SizeUpTo(b)[b.out_offs + k] - SizeUpTo(b)[b.out_offs]
           ELSE SizeUpTo(b)[MaxOps] - SizeUpTo(b)[b.out_offs]
                  + SizeUpTo(b)[b.out_offs + k - MaxOps]
  <1> DEFINE o == b.out_offs
             M == MaxOps
             A == SizeUpTo(b)
             total == TotalBytesSize(b)
             Rotated(n) == IF o + n <= M THEN A[o + n] - A[o]
                                         ELSE A[M] - A[o] + A[o + n - M]
             T == {n \in 0 .. M : total[n] = Rotated(n)}
  <1>1. M \in Nat /\ o \in 0 .. M - 1 /\ o \in Slots
    BY MaxOpsAssumption DEF Buffers, Slots
  <1>2. /\ A \in [0 .. M -> Nat] /\ A[0] = 0
        /\ \A n \in 1 .. M : A[n] = A[n - 1] + b.entry[n - 1].size
    BY SizeSums
  <1>3. /\ total \in [0 .. M -> Nat] /\ total[0] = 0
        /\ \A n \in 1 .. M : total[n] = total[n - 1] + Visited(b, n - 1).size
    BY TotalBytes
  <1> HIDE DEF total, A
  <1>4. 0 \in T
    <2>1. o + 0 = o /\ o \in 0 .. M /\ 0 \in 0 .. M
      BY <1>1
    <2>2. A[o] \in Nat
      BY <1>2, <2>1
    <2>3. Rotated(0) = 0
      BY <1>1, <2>1, <2>2
    <2> QED
      BY <1>3, <2>1, <2>3
  <1>5. ASSUME NEW n \in 1 .. M, n - 1 \in T
        PROVE  n \in T
    <2> DEFINE i == n - 1
    <2>1. /\ i \in 0 .. M - 1 /\ i + 1 = n /\ n \in 0 .. M
          /\ total[i] = Rotated(i)
      BY <1>1, <1>5
    <2>2. total[n] = total[i] + Visited(b, i).size
      BY <1>3
    <2> HIDE DEF i
    <2>3. Visited(b, i) = b.entry[(o + i) % M]
      BY DEF Visited
    <2>4. (o + i) % M = IF o + i < M THEN o + i ELSE o + i - M
      BY <1>1, <2>1, SlotFromOldest
    <2>5. A[o] \in Nat /\ A[M] \in Nat
      BY <1>1, <1>2
    <2>6. CASE o + i < M
      <3> DEFINE r == o + i
      <3>1. /\ r + 1 \in 1 .. M /\ (r + 1) - 1 = r /\ o + n = r + 1
            /\ r \in 0 .. M /\ r + 1 \in 0 .. M
        BY <1>1, <2>1, <2>6
      <3> HIDE DEF r
      <3>2. A[r + 1] = A[r] + b.entry[r].size /\ A[r] \in Nat /\ A[r + 1] \in Nat
        BY <1>2, <3>1
      <3>3. total[i] = A[r] - A[o]
        <4>1. o + i <= M
          BY <1>1, <2>1, <2>6
        <4>2. Rotated(i) = A[o + i] - A[o]
          BY <4>1
        <4> QED
          BY <2>1, <4>2 DEF r
      <3>4. total[n] = (A[r] - A[o]) + b.entry[r].size
        BY <2>2, <2>3, <2>4, <2>6, <3>3 DEF r
      <3>5. b.entry[r].size \in Int
        BY <3>2, <1>1, <3>1, <2>6, UsedShape DEF Slots, r
      <3>6. total[n] = A[r + 1] - A[o]
        BY <2>5, <3>2, <3>4, <3>5
      <3>7. Rotated(n) = A[r + 1] - A[o]
        BY <3>1
      <3> QED
        BY <2>1, <3>6, <3>7
    <2>7. CASE ~(o + i < M)
      <3> DEFINE r == o + i - M
      <3>1. /\ r + 1 \in 1 .. M /\ (r + 1) - 1 = r /\ o + n - M = r + 1
            /\ r \in 0 .. M /\ r + 1 \in 0 .. M /\ ~(o + n <= M) /\ r \in 0 .. M - 1
        BY <1>1, <2>1, <2>7
      <3>2. total[i] = A[M] - A[o] + A[r]
        <4>1. CASE o + i = M
          <5>1. r = 0 /\ o + i <= M
            BY <1>1, <2>1, <4>1
          <5>2. Rotated(i) = A[M] - A[o]
            BY <4>1, <5>1
          <5> QED
            BY <1>2, <2>1, <2>5, <5>1, <5>2, SMTT(30)
        <4>2. CASE o + i # M
          <5>1. ~(o + i <= M)
            BY <1>1, <2>1, <2>7, <4>2
          <5> QED
            BY <2>1, <5>1
        <4> QED
          BY <4>1, <4>2
      <3>3. total[n] = total[i] + b.entry[r].size
        BY <2>2, <2>3, <2>4, <2>7
      <3>4. Rotated(n) = A[M] - A[o] + A[r + 1]
        BY <3>1
      <3> HIDE DEF r
      <3>5. A[r + 1] = A[r] + b.entry[r].size /\ A[r] \in Nat /\ A[r + 1] \in Nat
        BY <1>2, <3>1
      <3>6. b.entry[r].size \in Nat
        BY <3>1, UsedShape DEF Slots
      <3>7. total[n] = A[M] - A[o] + A[r + 1]
        BY <2>5, <3>2, <3>3, <3>5, <3>6
      <3> QED
        BY <2>1, <3>4, <3>7
    <2> QED
      BY <2>6, <2>7
  <1>6. 0 .. M \subseteq T
    <2> HIDE DEF T
    <2> QED
      BY <1>1, <1>4, <1>5, IntervalInduction
  <1>7. total[k] = Rotated(k)
    BY <1>6
  <1> QED
    BY <1>7 DEF total, A

\* With the oldest command in slot 0 the two walks agree command by command.
LEMMA TotalsUnrotated ==
  ASSUME NEW P, NEW b \in Buffers(P), RingShape(b), b.out_offs = 0,
         NEW k \in 0 .. MaxOps
  PROVE  TotalBytesSize(b)[k] = SizeUpTo(b)[k]
  <1>1. TotalBytesSize(b)[k] = IF b.out_offs + k <= MaxOps
           THEN SizeUpTo(b)[b.out_offs + k] - SizeUpTo(b)[b.out_offs]
           ELSE SizeUpTo(b)[MaxOps] - SizeUpTo(b)[b.out_offs]
                  + SizeUpTo(b)[b.out_offs + k - MaxOps]
    BY TotalsRotate
  <1>2. k <= MaxOps /\ 0 + k = k
    BY MaxOpsAssumption
  <1>3. SizeUpTo(b)[0] = 0 /\ SizeUpTo(b)[k] \in Nat
    BY SizeSums
  <1>4. TotalBytesSize(b)[k] = SizeUpTo(b)[k] - 0
    BY <1>1, <1>2, <1>3
  <1> QED
    BY <1>3, <1>4

\* Both walks add up every command, and to the same sum.
LEMMA SameSize ==
  ASSUME NEW P, NEW b \in Buffers(P), RingShape(b)
  PROVE  BufferSize(b) = TotalBytesSize(b)[Count(b)]
  <1> DEFINE total == TotalBytesSize(b)
             A == SizeUpTo(b)
             n == Count(b)
             o == b.out_offs
  <1>1. MaxOps \in Nat /\ n \in 0 .. MaxOps /\ o \in 0 .. MaxOps - 1
    BY MaxOpsAssumption, WindowElements DEF Buffers, Slots
  <1>2. A \in [0 .. MaxOps -> Nat] /\ A[0] = 0
    BY SizeSums
  <1>3. /\ total \in [0 .. MaxOps -> Nat]
        /\ \A k \in 1 .. MaxOps : total[k] = total[k - 1] + Visited(b, k - 1).size
    BY TotalBytes
  <1>4. MaxOps \in 0 .. MaxOps
    BY <1>1
  <1>5. total[MaxOps] = IF o + MaxOps <= MaxOps
                        THEN A[o + MaxOps] - A[o]
                        ELSE A[MaxOps] - A[o] + A[o + MaxOps - MaxOps]
    BY <1>4, TotalsRotate
  <1> HIDE DEF total, A, n
  <1>6. total[MaxOps] = A[MaxOps]
    <2>1. A[MaxOps] \in Nat /\ A[o] \in Nat
      BY <1>1, <1>2
    <2>2. o + MaxOps - MaxOps = o
      BY <1>1
    <2>3. CASE o = 0
      <3>1. o + MaxOps <= MaxOps /\ o + MaxOps = MaxOps
        BY <1>1, <2>3
      <3> QED
        BY <1>2, <1>5, <2>1, <2>3, <3>1
    <2>4. CASE o # 0
      <3>1. ~(o + MaxOps <= MaxOps)
        BY <1>1, <2>4
      <3> QED
        BY <1>5, <2>1, <2>2, <3>1
    <2> QED
      BY <2>3, <2>4
  <1>7. \A k \in 0 .. MaxOps : k >= n => total[k] = total[n]
    <2> DEFINE T == {k \in 0 .. MaxOps : k >= n => total[k] = total[n]}
    <2>1. 0 \in T
      BY <1>1
    <2>2. ASSUME NEW k \in 1 .. MaxOps, k - 1 \in T
          PROVE  k \in T
      <3> DEFINE i == k - 1
      <3>1. i \in Slots /\ i + 1 = k /\ i \in 0 .. MaxOps /\ k \in 0 .. MaxOps
        BY <1>1 DEF Slots
      <3>2. total[k] = total[i] + Visited(b, i).size
        BY <1>3
      <3>3. i >= n => total[i] = total[n]
        BY <2>2
      <3> HIDE DEF i
      <3>4. Visited(b, i).size # 0 => i < n
        BY <3>1, VisitedShape DEF n
      <3>5. total[i] \in Nat
        BY <1>3, <3>1
      <3>6. CASE k = n
        BY <3>1, <3>6
      <3>7. CASE k > n
        <4>1. i >= n /\ ~(i < n)
          BY <1>1, <3>1, <3>7
        <4>2. total[k] = total[n]
          BY <3>2, <3>3, <3>4, <3>5, <4>1
        <4> QED
          BY <3>1, <4>2
      <3>8. CASE ~(k >= n)
        BY <3>1, <3>8
      <3> QED
        BY <1>1, <3>1, <3>6, <3>7, <3>8
    <2>3. 0 .. MaxOps \subseteq T
      <3> HIDE DEF T
      <3> QED
        BY <1>1, <2>1, <2>2, IntervalInduction
    <2> QED
      BY <2>3
  <1>8. total[MaxOps] = total[n]
    BY <1>1, <1>4, <1>7
  <1> QED
    BY <1>6, <1>8 DEF BufferSize, total, A, n

(***************************************************************************)
(* An addition that is only half done.                                     *)
(***************************************************************************)

\* Both halves are buffers, and completing the addition forgets which field
\* was stored first.
LEMMA HalfAddedCompletes ==
  ASSUME NEW P, NEW b \in Buffers(P), NEW e \in Entries(P),
         NEW h \in HalfAdded(b, e)
  PROVE  h \in Buffers(P) /\ AddEntry(h, e) = AddEntry(b, e)
  <1> DEFINE old == b.entry[b.in_offs]
  <1>1. /\ b.in_offs \in Slots
        /\ b.out_offs \in Slots
        /\ b.entry \in [Slots -> Entries(P)]
        /\ b.full \in BOOLEAN
        /\ old \in Entries(P)
    BY DEF Buffers
  <1>2. PICK x \in Entries(P) : h = [b EXCEPT !.entry = [@ EXCEPT ![b.in_offs] = x]]
    <2>1. CASE h = [b EXCEPT !.entry[b.in_offs].buffptr = e.buffptr]
      <3>1. [old EXCEPT !.buffptr = e.buffptr] \in Entries(P)
        BY <1>1 DEF Entries
      <3> QED
        BY <2>1, <3>1
    <2>2. CASE h = [b EXCEPT !.entry[b.in_offs].size = e.size]
      <3>1. [old EXCEPT !.size = e.size] \in Entries(P)
        BY <1>1 DEF Entries
      <3> QED
        BY <2>2, <3>1
    <2> QED
      BY <2>1, <2>2 DEF HalfAdded
  <1>3. /\ h.entry = [b.entry EXCEPT ![b.in_offs] = x]
        /\ h.in_offs = b.in_offs
        /\ h.out_offs = b.out_offs
        /\ h.full = b.full
    BY <1>2 DEF Buffers
  <1>4. h \in Buffers(P)
    <2>1. h.entry \in [Slots -> Entries(P)]
      BY <1>1, <1>3
    <2> QED
      BY <1>1, <1>2, <2>1 DEF Buffers
  <1>5. [h.entry EXCEPT ![h.in_offs] = e] = [b.entry EXCEPT ![b.in_offs] = e]
    BY <1>1, <1>3
  <1> QED
    BY <1>3, <1>4, <1>5 DEF AddEntry

\* d holds the commands of b, which is not full, in the slots they have there.
Grows(b, d) ==
  /\ ~b.full
  /\ Count(b) <= Count(d)
  /\ \A k \in 0 .. Count(b) : SizeUpTo(d)[k] = SizeUpTo(b)[k]

\* Until the buffer is full add_entry leaves the sums before each command.
LEMMA AddEntryGrows ==
  ASSUME NEW P, NEW b \in Buffers(P), NEW e \in Entries(P),
         e.buffptr # NULL, e.size > 0, RingShape(b), ~AddEntry(b, e).full
  PROVE  Grows(b, AddEntry(b, e))
  <1> DEFINE a == AddEntry(b, e)
             A == SizeUpTo(a)
             B == SizeUpTo(b)
             n == Count(b)
  <1>1. /\ b.in_offs \in Slots /\ b.out_offs \in Slots /\ b.full \in BOOLEAN
        /\ b.entry \in [Slots -> Entries(P)] /\ MaxOps \in Nat \ {0}
    BY MaxOpsAssumption DEF Buffers
  <1>2. /\ a \in Buffers(P) /\ a.entry = [b.entry EXCEPT ![b.in_offs] = e]
        /\ a.in_offs = NextSlot(b.in_offs)
        /\ a.out_offs = IF b.full THEN NextSlot(b.out_offs) ELSE b.out_offs
        /\ a.full <=> a.in_offs = a.out_offs
    BY AddEntryFields
  <1>3. RingShape(a) /\ ~a.full
    BY AddEntryShape
  <1>4. /\ B \in [0 .. MaxOps -> Nat] /\ B[0] = 0
        /\ \A k \in 1 .. MaxOps : B[k] = B[k - 1] + b.entry[k - 1].size
    BY SizeSums
  <1> HIDE DEF a
  <1>5. /\ A \in [0 .. MaxOps -> Nat] /\ A[0] = 0
        /\ \A k \in 1 .. MaxOps : A[k] = A[k - 1] + a.entry[k - 1].size
    BY <1>2, <1>3, SizeSums
  <1>6. ~b.full
    BY <1>2, <1>3 DEF RingShape
  <1>7. a.in_offs = b.in_offs + 1
    <2>1. a.out_offs = 0
      BY <1>3 DEF RingShape
    <2>2. NextSlot(b.in_offs) = IF b.in_offs = MaxOps - 1 THEN 0 ELSE b.in_offs + 1
      BY <1>1, NextSlotWraps
    <2> QED
      BY <1>2, <1>3, <2>1, <2>2
  <1>8. n = b.in_offs /\ Count(a) = n + 1 /\ n \in 0 .. MaxOps - 1
    BY <1>1, <1>3, <1>6, <1>7 DEF Count, Slots
  <1> HIDE DEF A, B, n
  <1> DEFINE T == {k \in 0 .. n : A[k] = B[k]}
  <1>9. 0 \in T
    BY <1>4, <1>5, <1>8
  <1>10. ASSUME NEW k \in 1 .. n, k - 1 \in T
         PROVE  k \in T
    <2> DEFINE i == k - 1
    <2>1. /\ k \in 1 .. MaxOps /\ k \in 0 .. n /\ i \in Slots /\ i # b.in_offs
          /\ A[i] = B[i]
      BY <1>1, <1>8, <1>10 DEF Slots
    <2>2. A[k] = A[i] + a.entry[i].size /\ B[k] = B[i] + b.entry[i].size
      BY <1>4, <1>5, <2>1
    <2> HIDE DEF i
    <2>3. a.entry[i] = b.entry[i]
      BY <1>1, <1>2, <2>1
    <2> QED
      BY <2>1, <2>2, <2>3
  <1>11. 0 .. n \subseteq T
    <2>1. n \in Nat
      BY <1>8
    <2> HIDE DEF T
    <2> QED
      BY <1>9, <1>10, <2>1, IntervalInduction
  <1>12. \A k \in 0 .. n : A[k] = B[k]
    BY <1>11
  <1>13. n <= n + 1
    BY <1>8
  <1> QED
    BY <1>6, <1>8, <1>12, <1>13 DEF Grows, A, B, n, a

-----------------------------------------------------------------------------
(***************************************************************************)
(* The bytes of a write, one after the other.                              *)
(***************************************************************************)

\* PutBytes is the recursion it is defined by, on a set of devices D that no
\* byte of the write leads out of.
LEMMA PutBytesSteps ==
  ASSUME NEW D, NEW dev \in D, NEW bytes, Len(bytes) \in Nat,
         \A k \in 1 .. Len(bytes) : \A d \in D : PutByte(d, bytes[k]) \in D
  PROVE  /\ PutBytes(dev, bytes)[0] = dev
         /\ \A k \in 1 .. Len(bytes) :
              PutBytes(dev, bytes)[k] = PutByte(PutBytes(dev, bytes)[k - 1], bytes[k])
  <1> DEFINE N == Len(bytes)
             F == [k \in 1 .. N |-> [d \in D |-> PutByte(d, bytes[k])]]
             Def(f) == f = [k \in 0 .. N |->
                              IF k = 0 THEN dev ELSE PutByte(f[k - 1], bytes[k])]
             after == CHOOSE f : Def(f)
  <1>1. PutBytes(dev, bytes) = after
    BY DEF PutBytes
  <1>2. F \in [1 .. N -> [D -> D]]
    <2> HIDE DEF N
    <2> QED
      BY DEF N
  <1>3. PICK f \in [0 .. N -> D] :
          f[0] = dev /\ \A k \in 1 .. N : f[k] = F[k][f[k - 1]]
    <2> HIDE DEF F
    <2>1. \E f \in [0 .. N -> D] : Iterates(f, dev, F, N)
      BY <1>2, IterationExists
    <2> QED
      BY <2>1 DEF Iterates
  <1>4. N \in Nat
    OBVIOUS
  <1> HIDE DEF N
  <1>5. \A k \in 1 .. N : f[k] = PutByte(f[k - 1], bytes[k])
    <2> SUFFICES ASSUME NEW k \in 1 .. N PROVE f[k] = PutByte(f[k - 1], bytes[k])
      OBVIOUS
    <2>1. k - 1 \in 0 .. N
      BY <1>4
    <2>2. f[k - 1] \in D
      BY <2>1
    <2> QED
      BY <1>3, <2>2
  <1>6. \A k \in 0 .. N : k # 0 => k \in 1 .. N
    BY <1>4
  <1>7. Def(f)
    BY <1>3, <1>5, <1>6
  <1>8. Def(after)
    BY <1>7
  <1> HIDE DEF after
  <1>9. after[0] = dev /\ \A k \in 1 .. N : after[k] = PutByte(after[k - 1], bytes[k])
    BY <1>4, <1>8
  <1> QED
    BY <1>1, <1>9 DEF N
===============================================================================
