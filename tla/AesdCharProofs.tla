---------------------------- MODULE AesdCharProofs ----------------------------
(***************************************************************************)
(* The driver under concurrent callers is type correct, locks what it      *)
(* changes, keeps its buffer consistent, owns its memory, implements       *)
(* CommandLog, reads the bytes at its position and seeks to the command it *)
(* is asked for, for any number of tasks, files, blocks and slots.  Each   *)
(* write is, as a whole, one step of a device; reads, and seeks that no    *)
(* write meets, find that device as it is between two writes.              *)
(***************************************************************************)
EXTENDS AesdCharCalls, CircularBufferProofs

(***************************************************************************)
(* The inductive invariant.                                                *)
(***************************************************************************)

\* aesd_write from its kmalloc to the last kfree.
InWrite == {"w_lock"} \cup Writing

Adding == mtx # NoTask /\ At(mtx, "w_entry")

\* What the code relies on at each point of a call: the file is open, the
\* argument is of the kind of the call, wbuff is there exactly while the write
\* runs and still holds the bytes that were passed, a pointer that add_entry
\* gave back is dealt with at once, and positions are not negative.
CallOK(t) ==
  LET c == call[t]
  IN  /\ c.pc # "idle" => c.file \in opened
      /\ c.wbuff # NULL <=> c.pc \in InWrite
      /\ c.old_buff # NULL => c.pc = "w_entry"
      /\ c.pos >= 0
      /\ c.pc \in InWrite => /\ c.arg \in [bytes : Writes]
                             /\ heap[c.wbuff] = c.arg.bytes
                             /\ c.i <= Len(c.arg.bytes)
      /\ c.pc = "w_lock" => c.i = 0
      /\ c.pc \in {"r_lock", "r_copy"} => c.arg \in [count : Counts]
      /\ c.pc \in {"l_size", "l_check", "l_store"} => c.arg \in LseekArgs
      /\ c.pc = "l_store" => c.pos <= c.acc
      /\ c.pc \in {"i_count", "i_check", "i_seek", "i_store"} => c.arg \in SeekTos

CallsOK == \A t \in Tasks : CallOK(t)

FilesOK == \A f \in Files : f_pos[f] >= 0

\* A module that is not loaded holds nothing, and g_len goes with g_buff.
DeviceOK ==
  /\ opened # {} => loaded
  /\ ~loaded => /\ g_buff = NULL
                /\ \A s \in Slots : circular_buf.entry[s].buffptr = NULL
  /\ loaded /\ g_buff = NULL => g_len = 0
  /\ Adding => g_buff # NULL

\* The block of an entry holds one line, to its newline and no further.
HoldsLine(h, e) ==
  /\ Len(h[e.buffptr]) = e.size
  /\ \A j \in 1 .. e.size : h[e.buffptr][j] = NL <=> j = e.size

SlotLines ==
  \A s \in Slots :
    Completed.entry[s].buffptr # NULL => HoldsLine(heap, Completed.entry[s])

PendingLine ==
  Pending # NULL => /\ Len(heap[g_buff]) = g_len
                    /\ \A j \in 1 .. g_len : heap[g_buff][j] # NL

\* Who owns which block, as a function of the state it is read from.
OwnerMap(entry, pending, c) ==
  [o \in Owners |-> CASE o[1] = "slot"     -> entry[o[2]].buffptr
                      [] o[1] = "g_buff"   -> pending
                      [] o[1] = "wbuff"    -> c[o[2]].wbuff
                      [] o[1] = "old_buff" -> c[o[2]].old_buff]

\* The blocks of `used` have one owner each in `own`, the others none.
Ownership(own, used) ==
  /\ own \in [Owners -> Addr \cup {NULL}]
  /\ \A o \in Owners : own[o] # NULL => own[o] \in used
  /\ \A m \in used : \E o \in Owners : own[o] = m
  /\ \A o, p \in Owners : own[o] = own[p] /\ own[o] # NULL => o = p

BlocksOwned == Ownership(OwnerMap(Completed.entry, Pending, call), allocated)

\* What only writers, insmod and rmmod change.
StoreOK ==
  BlocksOwned /\ RingConsistent /\ SlotLines /\ PendingLine /\ DeviceOK

Inv == TypeOK /\ LockMatchesSections /\ CallsOK /\ FilesOK /\ StoreOK

(***************************************************************************)
(* Ownership.                                                              *)
(***************************************************************************)

\* The owners, one kind at a time.
LEMMA OwnerKinds ==
  /\ \A s \in Slots : <<"slot", s>> \in Owners
  /\ <<"g_buff", NULL>> \in Owners
  /\ \A t \in Tasks : <<"wbuff", t>> \in Owners /\ <<"old_buff", t>> \in Owners
  /\ \A o \in Owners : \/ \E s \in Slots : o = <<"slot", s>>
                       \/ o = <<"g_buff", NULL>>
                       \/ \E t \in Tasks : o = <<"wbuff", t>>
                       \/ \E t \in Tasks : o = <<"old_buff", t>>
  BY DEF Owners

\* What each owner holds.
Holds(own, entry, pending, c) ==
  /\ own = [o \in Owners |-> own[o]]
  /\ \A s \in Slots : own[<<"slot", s>>] = entry[s].buffptr
  /\ own[<<"g_buff", NULL>>] = pending
  /\ \A t \in Tasks : own[<<"wbuff", t>>] = c[t].wbuff
  /\ \A t \in Tasks : own[<<"old_buff", t>>] = c[t].old_buff

LEMMA OwnerMapHolds ==
  ASSUME NEW entry, NEW pending, NEW c
  PROVE  Holds(OwnerMap(entry, pending, c), entry, pending, c)
  <1> DEFINE holding(o) == CASE o[1] = "slot"     -> entry[o[2]].buffptr
                             [] o[1] = "g_buff"   -> pending
                             [] o[1] = "wbuff"    -> c[o[2]].wbuff
                             [] o[1] = "old_buff" -> c[o[2]].old_buff
             own == [o \in Owners |-> holding(o)]
  <1>1. \A s \in Slots : holding(<<"slot", s>>) = entry[s].buffptr
    OBVIOUS
  <1>2. holding(<<"g_buff", NULL>>) = pending
    OBVIOUS
  <1>3. \A t \in Tasks : holding(<<"wbuff", t>>) = c[t].wbuff
    OBVIOUS
  <1>4. \A t \in Tasks : holding(<<"old_buff", t>>) = c[t].old_buff
    OBVIOUS
  <1>5. own = OwnerMap(entry, pending, c)
    BY DEF OwnerMap
  <1> HIDE DEF holding
  <1>6. Holds(own, entry, pending, c)
    BY <1>1, <1>2, <1>3, <1>4, OwnerKinds DEF Holds
  <1> QED
    BY <1>5, <1>6

\* Nothing else holds the same.
LEMMA HoldsTheSame ==
  ASSUME NEW own, NEW new, NEW entry, NEW pending, NEW c,
         Holds(own, entry, pending, c), Holds(new, entry, pending, c)
  PROVE  own = new
  <1>1. \A o \in Owners : own[o] = new[o]
    <2>1. \A s \in Slots : own[<<"slot", s>>] = new[<<"slot", s>>]
      BY DEF Holds
    <2>2. own[<<"g_buff", NULL>>] = new[<<"g_buff", NULL>>]
      BY DEF Holds
    <2>3. \A t \in Tasks : own[<<"wbuff", t>>] = new[<<"wbuff", t>>]
      BY DEF Holds
    <2>4. \A t \in Tasks : own[<<"old_buff", t>>] = new[<<"old_buff", t>>]
      BY DEF Holds
    <2> QED
      BY <2>1, <2>2, <2>3, <2>4, OwnerKinds, ZenonT(60)
  <1>2. /\ own = [o \in Owners |-> own[o]]
        /\ new = [o \in Owners |-> new[o]]
    BY Zenon DEF Holds
  <1> QED
    BY <1>1, <1>2

\* The invariant of the runs says the same.
LEMMA BlocksOwnedIsMemoryOwned ==
  ASSUME TypeOK, BlocksOwned
  PROVE  MemoryOwned
  <1> DEFINE own == OwnerMap(Completed.entry, Pending, call)
  <1>1. \A o \in Owners : Owned(o) = own[o]
    <2>1. ASSUME NEW s \in Slots
          PROVE  Owned(<<"slot", s>>) = own[<<"slot", s>>]
      BY OwnerMapHolds DEF Owned, Holds
    <2>2. Owned(<<"g_buff", NULL>>) = own[<<"g_buff", NULL>>]
      BY OwnerMapHolds DEF Owned, Holds
    <2>3. ASSUME NEW t \in Tasks
          PROVE  /\ Owned(<<"wbuff", t>>) = own[<<"wbuff", t>>]
                 /\ Owned(<<"old_buff", t>>) = own[<<"old_buff", t>>]
      BY OwnerMapHolds DEF Owned, Holds
    <2> HIDE DEF own
    <2> QED
      BY <2>1, <2>2, <2>3, OwnerKinds, ZenonT(60)
  <1>2. Ownership(own, allocated)
    BY DEF BlocksOwned
  <1> HIDE DEF own
  <1>3. {Owned(o) : o \in Owners} \ {NULL} \subseteq allocated
    BY <1>1, <1>2 DEF Ownership
  <1>4. ASSUME NEW m \in allocated
        PROVE  m \in {Owned(o) : o \in Owners} \ {NULL}
    <2>1. PICK o \in Owners : own[o] = m
      BY <1>2 DEF Ownership
    <2>2. m # NULL
      BY DriverAssumption DEF TypeOK
    <2> QED
      BY <1>1, <2>1, <2>2
  <1> QED
    BY <1>1, <1>2, <1>3, <1>4 DEF MemoryOwned, Ownership

\* An owner frees its block, or had none.
LEMMA OwnerFrees ==
  ASSUME NEW own, NEW used \in SUBSET Addr, Ownership(own, used),
         NEW o \in Owners
  PROVE  Ownership([own EXCEPT ![o] = NULL], used \ {own[o]})
  <1> DEFINE new == [own EXCEPT ![o] = NULL]
  <1>1. /\ new \in [Owners -> Addr \cup {NULL}]
        /\ new[o] = NULL
        /\ \A p \in Owners \ {o} : new[p] = own[p]
    BY DEF Ownership
  <1> SUFFICES Ownership(new, used \ {own[o]})
    OBVIOUS
  <1> HIDE DEF new
  <1>2. ASSUME NEW p \in Owners, new[p] # NULL
        PROVE  new[p] \in used \ {own[o]}
    BY <1>1, <1>2 DEF Ownership
  <1>3. ASSUME NEW m \in used \ {own[o]}
        PROVE  \E p \in Owners : new[p] = m
    <2>1. PICK p \in Owners : own[p] = m
      BY DEF Ownership
    <2> QED
      BY <1>1, <2>1
  <1>4. ASSUME NEW p \in Owners, NEW q \in Owners, new[p] = new[q], new[p] # NULL
        PROVE  p = q
    BY <1>1, <1>4 DEF Ownership
  <1> QED
    BY <1>1, <1>2, <1>3, <1>4 DEF Ownership

\* An owner without a block gets one that was free.
LEMMA OwnerTakes ==
  ASSUME NEW own, NEW used \in SUBSET Addr, Ownership(own, used),
         NEW o \in Owners, own[o] = NULL, NEW m \in Addr \ used
  PROVE  Ownership([own EXCEPT ![o] = m], used \cup {m})
  <1> DEFINE new == [own EXCEPT ![o] = m]
  <1>1. /\ new \in [Owners -> Addr \cup {NULL}]
        /\ new[o] = m
        /\ \A p \in Owners \ {o} : new[p] = own[p]
    BY DEF Ownership
  <1> SUFFICES Ownership(new, used \cup {m})
    OBVIOUS
  <1> HIDE DEF new
  <1>2. ASSUME NEW p \in Owners, new[p] # NULL
        PROVE  new[p] \in used \cup {m}
    BY <1>1, <1>2 DEF Ownership
  <1>3. ASSUME NEW n \in used \cup {m}
        PROVE  \E p \in Owners : new[p] = n
    <2>1. CASE n = m
      BY <1>1, <2>1
    <2>2. CASE n # m
      <3>1. PICK p \in Owners : own[p] = n
        BY <2>2 DEF Ownership
      <3>2. p # o
        BY <3>1, DriverAssumption
      <3> QED
        BY <1>1, <3>1, <3>2
    <2> QED
      BY <2>1, <2>2
  <1>4. ASSUME NEW p \in Owners, NEW q \in Owners, new[p] = new[q], new[p] # NULL
        PROVE  p = q
    BY <1>1, <1>4 DEF Ownership
  <1> QED
    BY <1>1, <1>2, <1>3, <1>4 DEF Ownership

\* An owner hands its block on to one that has none.
LEMMA OwnerHandsOver ==
  ASSUME NEW own, NEW used \in SUBSET Addr, Ownership(own, used),
         NEW o \in Owners, NEW p \in Owners \ {o}, own[p] = NULL
  PROVE  Ownership([own EXCEPT ![o] = NULL, ![p] = own[o]], used)
  <1> DEFINE new == [own EXCEPT ![o] = NULL, ![p] = own[o]]
  <1>1. /\ new \in [Owners -> Addr \cup {NULL}]
        /\ new[o] = NULL
        /\ new[p] = own[o]
        /\ \A q \in Owners \ {o, p} : new[q] = own[q]
    BY DEF Ownership
  <1> SUFFICES Ownership(new, used)
    OBVIOUS
  <1> HIDE DEF new
  <1>2. ASSUME NEW q \in Owners, new[q] # NULL
        PROVE  new[q] \in used
    BY <1>1, <1>2 DEF Ownership
  <1>3. ASSUME NEW m \in used
        PROVE  \E q \in Owners : new[q] = m
    <2>1. PICK q \in Owners : own[q] = m
      BY DEF Ownership
    <2>2. q # p
      BY <2>1, DriverAssumption
    <2> QED
      BY <1>1, <2>1, <2>2
  <1>4. ASSUME NEW q \in Owners, NEW r \in Owners, new[q] = new[r], new[q] # NULL
        PROVE  q = r
    BY <1>1, <1>4 DEF Ownership
  <1> QED
    BY <1>1, <1>2, <1>3, <1>4 DEF Ownership

\* kfree of a task's wbuff.
LEMMA WbuffFreed ==
  ASSUME NEW entry, NEW pending, NEW c, NEW d, NEW used \in SUBSET Addr,
         Ownership(OwnerMap(entry, pending, c), used),
         NEW t \in Tasks, d[t].wbuff = NULL, d[t].old_buff = c[t].old_buff,
         \A u \in Tasks \ {t} : d[u] = c[u]
  PROVE  Ownership(OwnerMap(entry, pending, d), used \ {c[t].wbuff})
  <1> DEFINE o == <<"wbuff", t>>
             own == OwnerMap(entry, pending, c)
             new == [own EXCEPT ![o] = NULL]
  <1>1. Holds(own, entry, pending, c)
    BY OwnerMapHolds
  <1>2. Ownership(own, used)
    OBVIOUS
  <1> HIDE DEF own
  <1>3. own[o] = c[t].wbuff
    BY <1>1 DEF Holds
  <1>4. Holds(new, entry, pending, d)
    BY <1>1, OwnerKinds DEF Holds
  <1>5. o \in Owners
    BY OwnerKinds
  <1>6. Ownership(new, used \ {own[o]})
    <2> HIDE DEF o
    <2> QED
      BY <1>2, <1>5, OwnerFrees
  <1>7. new = OwnerMap(entry, pending, d)
    <2> HIDE DEF new
    <2> QED
      BY <1>4, OwnerMapHolds, HoldsTheSame
  <1> QED
    BY <1>3, <1>6, <1>7

\* kfree of the block that add_entry gave back.
LEMMA OldBuffFreed ==
  ASSUME NEW entry, NEW pending, NEW c, NEW d, NEW used \in SUBSET Addr,
         Ownership(OwnerMap(entry, pending, c), used),
         NEW t \in Tasks, d[t].old_buff = NULL, d[t].wbuff = c[t].wbuff,
         \A u \in Tasks \ {t} : d[u] = c[u]
  PROVE  Ownership(OwnerMap(entry, pending, d), used \ {c[t].old_buff})
  <1> DEFINE o == <<"old_buff", t>>
             own == OwnerMap(entry, pending, c)
             new == [own EXCEPT ![o] = NULL]
  <1>1. Holds(own, entry, pending, c)
    BY OwnerMapHolds
  <1>2. Ownership(own, used)
    OBVIOUS
  <1> HIDE DEF own
  <1>3. own[o] = c[t].old_buff
    BY <1>1 DEF Holds
  <1>4. Holds(new, entry, pending, d)
    BY <1>1, OwnerKinds DEF Holds
  <1>5. o \in Owners
    BY OwnerKinds
  <1>6. Ownership(new, used \ {own[o]})
    <2> HIDE DEF o
    <2> QED
      BY <1>2, <1>5, OwnerFrees
  <1>7. new = OwnerMap(entry, pending, d)
    <2> HIDE DEF new
    <2> QED
      BY <1>4, OwnerMapHolds, HoldsTheSame
  <1> QED
    BY <1>3, <1>6, <1>7

\* kmalloc of a task's wbuff.
LEMMA WbuffTaken ==
  ASSUME NEW entry, NEW pending, NEW c, NEW d, NEW used \in SUBSET Addr,
         Ownership(OwnerMap(entry, pending, c), used),
         NEW t \in Tasks, NEW m \in Addr \ used,
         c[t].wbuff = NULL, d[t].wbuff = m, d[t].old_buff = c[t].old_buff,
         \A u \in Tasks \ {t} : d[u] = c[u]
  PROVE  Ownership(OwnerMap(entry, pending, d), used \cup {m})
  <1> DEFINE o == <<"wbuff", t>>
             own == OwnerMap(entry, pending, c)
             new == [own EXCEPT ![o] = m]
  <1>1. Holds(own, entry, pending, c)
    BY OwnerMapHolds
  <1>2. Ownership(own, used)
    OBVIOUS
  <1> HIDE DEF own
  <1>3. own[o] = NULL
    BY <1>1 DEF Holds
  <1>4. Holds(new, entry, pending, d)
    BY <1>1, OwnerKinds DEF Holds
  <1>5. o \in Owners
    BY OwnerKinds
  <1>6. Ownership(new, used \cup {m})
    <2> HIDE DEF o
    <2> QED
      BY <1>2, <1>3, <1>5, OwnerTakes
  <1>7. new = OwnerMap(entry, pending, d)
    <2> HIDE DEF new
    <2> QED
      BY <1>4, OwnerMapHolds, HoldsTheSame
  <1> QED
    BY <1>6, <1>7

\* krealloc of g_buff: the old block goes before the new one is there.
LEMMA PendingMoved ==
  ASSUME NEW entry, NEW pending, NEW c, NEW used \in SUBSET Addr,
         Ownership(OwnerMap(entry, pending, c), used),
         NEW m \in Addr \ (used \ {pending})
  PROVE  Ownership(OwnerMap(entry, m, c), (used \ {pending}) \cup {m})
  <1> DEFINE o == <<"g_buff", NULL>>
             own == OwnerMap(entry, pending, c)
             mid == [own EXCEPT ![o] = NULL]
             new == [mid EXCEPT ![o] = m]
  <1>1. Holds(own, entry, pending, c)
    BY OwnerMapHolds
  <1>2. Ownership(own, used)
    OBVIOUS
  <1> HIDE DEF own
  <1>3. own[o] = pending
    BY <1>1 DEF Holds
  <1>4. Holds(mid, entry, NULL, c)
    BY <1>1, OwnerKinds DEF Holds
  <1>5. o \in Owners
    BY OwnerKinds
  <1>6. Ownership(mid, used \ {own[o]})
    <2> HIDE DEF o
    <2> QED
      BY <1>2, <1>5, OwnerFrees
  <1> HIDE DEF mid
  <1>7. mid[o] = NULL
    BY <1>4 DEF Holds
  <1>8. Holds(new, entry, m, c)
    BY <1>4, OwnerKinds DEF Holds
  <1>9. Ownership(new, (used \ {pending}) \cup {m})
    <2> HIDE DEF o
    <2>1. used \ {pending} \in SUBSET Addr
      OBVIOUS
    <2>2. Ownership(mid, used \ {pending})
      BY <1>3, <1>6
    <2> QED
      BY <1>5, <1>7, <2>1, <2>2, OwnerTakes
  <1>10. new = OwnerMap(entry, m, c)
    <2> HIDE DEF new
    <2> QED
      BY <1>8, OwnerMapHolds, HoldsTheSame
  <1> QED
    BY <1>9, <1>10

\* add_entry: the slot's block goes to old_buff, the one of g_buff to the slot.
LEMMA SlotReplaced ==
  ASSUME NEW entry, NEW pending, NEW c, NEW d, NEW used \in SUBSET Addr,
         Ownership(OwnerMap(entry, pending, c), used),
         NEW t \in Tasks, NEW s \in Slots, NEW new_entry,
         new_entry[s].buffptr = pending,
         \A r \in Slots \ {s} : new_entry[r] = entry[r],
         c[t].old_buff = NULL, d[t].old_buff = entry[s].buffptr,
         d[t].wbuff = c[t].wbuff,
         \A u \in Tasks \ {t} : d[u] = c[u]
  PROVE  Ownership(OwnerMap(new_entry, NULL, d), used)
  <1> DEFINE slot == <<"slot", s>>
             g == <<"g_buff", NULL>>
             old == <<"old_buff", t>>
             own == OwnerMap(entry, pending, c)
             mid == [own EXCEPT ![slot] = NULL, ![old] = own[slot]]
             new == [mid EXCEPT ![g] = NULL, ![slot] = mid[g]]
  <1>1. Holds(own, entry, pending, c)
    BY OwnerMapHolds
  <1>2. Ownership(own, used)
    OBVIOUS
  <1> HIDE DEF own
  <1>3. /\ slot \in Owners
        /\ old \in Owners \ {slot}
        /\ g \in Owners
        /\ slot \in Owners \ {g}
        /\ g # old
    BY OwnerKinds
  <1>4. own[old] = NULL /\ own[slot] = entry[s].buffptr /\ own[g] = pending
    BY <1>1 DEF Holds
  <1>5. Ownership(mid, used)
    <2> HIDE DEF slot, old
    <2> QED
      BY <1>2, <1>3, <1>4, OwnerHandsOver
  <1>6. /\ mid = [o \in Owners |-> mid[o]]
        /\ mid[slot] = NULL /\ mid[old] = entry[s].buffptr
        /\ \A o \in Owners \ {slot, old} : mid[o] = own[o]
    <2> HIDE DEF slot, old
    <2>1. own = [o \in Owners |-> own[o]]
      BY <1>1, Zenon DEF Holds
    <2> QED
      BY <1>3, <1>4, <2>1
  <1> HIDE DEF mid
  <1>7. Ownership(new, used)
    <2> HIDE DEF slot, g
    <2> QED
      BY <1>3, <1>5, <1>6, OwnerHandsOver
  <1>8. /\ new = [o \in Owners |-> new[o]]
        /\ new[g] = NULL /\ new[slot] = pending /\ new[old] = entry[s].buffptr
        /\ \A o \in Owners \ {slot, old, g} : new[o] = own[o]
    <2> HIDE DEF slot, old, g
    <2> QED
      BY <1>3, <1>4, <1>6
  <1> HIDE DEF new
  <1>9. Holds(new, new_entry, NULL, d)
    <2>1. \A r \in Slots : new[<<"slot", r>>] = new_entry[r].buffptr
      <3> SUFFICES ASSUME NEW r \in Slots
                   PROVE  new[<<"slot", r>>] = new_entry[r].buffptr
        OBVIOUS
      <3>1. CASE r = s
        BY <1>8, <3>1
      <3>2. CASE r # s
        <4>1. <<"slot", r>> \in Owners \ {slot, old, g}
          BY <3>2, OwnerKinds
        <4> QED
          BY <1>1, <1>8, <3>2, <4>1 DEF Holds
      <3> QED
        BY <3>1, <3>2
    <2>2. ASSUME NEW u \in Tasks
          PROVE  /\ new[<<"wbuff", u>>] = d[u].wbuff
                 /\ new[<<"old_buff", u>>] = d[u].old_buff
      <3>1. <<"wbuff", u>> \in Owners \ {slot, old, g}
        BY OwnerKinds
      <3>2. new[<<"wbuff", u>>] = d[u].wbuff
        BY <1>1, <1>8, <3>1, ZenonT(60) DEF Holds
      <3>3. CASE u = t
        BY <1>8, <3>2, <3>3
      <3>4. CASE u # t
        <4>1. <<"old_buff", u>> \in Owners \ {slot, old, g}
          BY <3>4, OwnerKinds
        <4> QED
          BY <1>1, <1>8, <3>2, <3>4, <4>1 DEF Holds
      <3> QED
        BY <3>3, <3>4
    <2> QED
      BY <1>8, <2>1, <2>2 DEF Holds
  <1>10. new = OwnerMap(new_entry, NULL, d)
    BY <1>9, OwnerMapHolds, HoldsTheSame
  <1> QED
    BY <1>7, <1>10

\* An owner map depends on the locals of the tasks only through their blocks.
LEMMA SameBlocks ==
  ASSUME NEW entry, NEW pending, NEW c, NEW d,
         \A t \in Tasks : d[t].wbuff = c[t].wbuff /\ d[t].old_buff = c[t].old_buff
  PROVE  OwnerMap(entry, pending, d) = OwnerMap(entry, pending, c)
  <1> DEFINE own == OwnerMap(entry, pending, d)
  <1>1. Holds(own, entry, pending, d)
    BY OwnerMapHolds
  <1> HIDE DEF own
  <1>2. Holds(own, entry, pending, c)
    BY <1>1 DEF Holds
  <1>3. own = OwnerMap(entry, pending, c)
    BY <1>2, OwnerMapHolds, HoldsTheSame
  <1> QED
    BY <1>3 DEF own

(***************************************************************************)
(* What a read copies.                                                     *)
(***************************************************************************)

\* Every entry of a consistent buffer that has bytes has a block, and the
\* block is as long as the entry says.
BytesInPlace ==
  \A s \in Slots :
    circular_buf.entry[s].size > 0 =>
      /\ circular_buf.entry[s].buffptr \in Addr
      /\ Len(heap[circular_buf.entry[s].buffptr]) = circular_buf.entry[s].size

\* One turn of the loop stays inside the block of the entry it found.
LEMMA ChunkIsBytes ==
  ASSUME circular_buf \in Buffers(Addr), heap \in [Addr -> Seq(Chars)],
         BytesInPlace, NEW from \in Nat, NEW count \in Nat, NEW done \in Seq(Chars)
  PROVE  Chunk(from, count, done) \in Seq(Chars)
  <1> DEFINE off == from + Len(done)
             found == FindEntry(circular_buf, off)
             cpsz == Min({found.entry.size - found.entry_offset,
                          count - Len(done)})
  <1>1. Chunk(from, count, done) =
          IF Len(done) < count /\ found.found
          THEN SubSeq(heap[found.entry.buffptr], found.entry_offset + 1,
                      found.entry_offset + cpsz)
          ELSE <<>>
    BY DEF Chunk
  <1>2. CASE Len(done) < count /\ found.found
    <2>1. off \in Nat /\ Len(done) \in Nat
      OBVIOUS
    <2>2. PICK s \in Slots :
            /\ found.entry = circular_buf.entry[s]
            /\ circular_buf.entry[s].size > 0
            /\ found.entry_offset \in 0 .. circular_buf.entry[s].size - 1
      <3> HIDE DEF off
      <3> QED
        BY <1>2, <2>1, FindEntryInside
    <2> DEFINE size == circular_buf.entry[s].size
               block == heap[circular_buf.entry[s].buffptr]
               a == size - found.entry_offset
               b == count - Len(done)
    <2>3. size \in Nat
      BY DEF Buffers, Entries
    <2>4. block \in Seq(Chars) /\ Len(block) = size
      BY <2>2 DEF BytesInPlace
    <2> HIDE DEF found, size, block
    <2>5. a \in Int /\ b \in Int
      BY <2>1, <2>2, <2>3
    <2>6. cpsz = IF a <= b THEN a ELSE b
      <3>1. cpsz = Min({a, b})
        BY <2>2 DEF size
      <3> HIDE DEF a, b, cpsz
      <3>2. Min({a, b}) = IF a <= b THEN a ELSE b
        BY <2>5, LesserOfTwo
      <3> QED
        BY <3>1, <3>2
    <2>7. cpsz \in Int /\ found.entry_offset + cpsz <= size
      <3> HIDE DEF cpsz
      <3> QED
        BY <2>1, <2>2, <2>3, <2>5, <2>6, SMTT(30) DEF size
    <2> HIDE DEF cpsz
    <2>8. /\ found.entry_offset + 1 \in Int /\ found.entry_offset + cpsz \in Int
          /\ found.entry_offset + 1 >= 1
          /\ found.entry_offset + cpsz <= Len(block)
      BY <2>2, <2>3, <2>4, <2>7 DEF size
    <2>9. SubSeq(block, found.entry_offset + 1, found.entry_offset + cpsz)
            \in Seq(Chars)
      BY <2>4, <2>8
    <2> QED
      BY <1>1, <1>2, <2>2, <2>9 DEF block
  <1>3. CASE ~ (Len(done) < count /\ found.found)
    BY <1>1, <1>3
  <1> QED
    BY <1>2, <1>3

\* The turns of the read loop.
LEMMA CopiedTurns ==
  ASSUME circular_buf \in Buffers(Addr), heap \in [Addr -> Seq(Chars)],
         BytesInPlace, NEW from \in Nat, NEW count \in Nat
  PROVE  \E turn \in [0 .. MaxOps -> Seq(Chars)] :
           /\ turn[0] = <<>>
           /\ \A k \in 1 .. MaxOps :
                turn[k] = turn[k - 1] \o Chunk(from, count, turn[k - 1])
           /\ Copied(from, count) = turn[MaxOps]
  <1> DEFINE S == Seq(Chars)
             chunk(done) == Chunk(from, count, done)
             F == [k \in 1 .. MaxOps |-> [done \in S |-> done \o chunk(done)]]
             Def(f) == f = [k \in 0 .. MaxOps |->
                              IF k = 0 THEN <<>> ELSE f[k - 1] \o chunk(f[k - 1])]
             turn == CHOOSE f : Def(f)
  <1>1. MaxOps \in Nat /\ <<>> \in S
    BY MaxOpsAssumption
  <1>2. \A done \in S : chunk(done) \in S
    BY ChunkIsBytes
  <1>3. Copied(from, count) = turn[MaxOps]
    BY DEF Copied
  <1> HIDE DEF chunk
  <1>4. F \in [1 .. MaxOps -> [S -> S]]
    BY <1>2
  <1>5. PICK f \in [0 .. MaxOps -> S] : Iterates(f, <<>>, F, MaxOps)
    <2> HIDE DEF F, S
    <2> QED
      BY <1>1, <1>4, IterationExists
  <1>6. \A k \in 1 .. MaxOps : f[k] = f[k - 1] \o chunk(f[k - 1])
    <2> SUFFICES ASSUME NEW k \in 1 .. MaxOps
                 PROVE  f[k] = f[k - 1] \o chunk(f[k - 1])
      OBVIOUS
    <2>1. k - 1 \in 0 .. MaxOps /\ f[k - 1] \in S
      BY <1>1
    <2> QED
      BY <1>5, <2>1 DEF Iterates
  <1>7. Def(f)
    <2>1. \A k \in 0 .. MaxOps : k # 0 => k \in 1 .. MaxOps
      BY <1>1
    <2> QED
      BY <1>5, <1>6, <2>1 DEF Iterates
  <1>8. Def(turn) /\ Def(f)
    BY <1>7
  <1> HIDE DEF turn
  <1> DEFINE T == {k \in 0 .. MaxOps : turn[k] = f[k]}
  <1>9. turn[0] = <<>> /\ f[0] = <<>>
    <2>1. 0 \in 0 .. MaxOps
      BY <1>1
    <2> QED
      BY <1>8, <2>1
  <1>10. ASSUME NEW k \in 1 .. MaxOps
         PROVE  turn[k] = turn[k - 1] \o chunk(turn[k - 1])
    <2>1. k \in 0 .. MaxOps /\ k # 0
      BY <1>1
    <2> QED
      BY <1>8, <2>1, Zenon
  <1>11. 0 \in T
    BY <1>1, <1>9
  <1>12. ASSUME NEW k \in 1 .. MaxOps, k - 1 \in T
         PROVE  k \in T
    <2>1. k \in 0 .. MaxOps /\ turn[k - 1] = f[k - 1]
      BY <1>1, <1>12
    <2> QED
      BY <1>6, <1>10, <2>1
  <1>13. 0 .. MaxOps \subseteq T
    <2> HIDE DEF T
    <2> QED
      BY <1>1, <1>11, <1>12, IntervalInduction
  <1>14. turn[MaxOps] = f[MaxOps]
    BY <1>1, <1>13
  <1> QED
    BY <1>3, <1>5, <1>6, <1>9, <1>14 DEF chunk

\* What a read returns are bytes that were written.
LEMMA CopiedIsBytes ==
  ASSUME circular_buf \in Buffers(Addr), heap \in [Addr -> Seq(Chars)],
         BytesInPlace, NEW from \in Nat, NEW count \in Nat
  PROVE  Copied(from, count) \in Seq(Chars)
  <1>1. MaxOps \in 0 .. MaxOps
    BY MaxOpsAssumption
  <1>2. PICK turn \in [0 .. MaxOps -> Seq(Chars)] : Copied(from, count) = turn[MaxOps]
    BY CopiedTurns
  <1> QED
    BY <1>1, <1>2

(***************************************************************************)
(* Steps that leave the buffer and the memory alone.                       *)
(***************************************************************************)

\* Only task t moves, and its blocks stay.
Moves(t) == /\ call' = [call EXCEPT ![t] = call'[t]]
            /\ call'[t] \in Calls

LEMMA ContinueMoves ==
  ASSUME TypeOK, NEW t \in Tasks, NEW c \in Calls, Continue(t, c)
  PROVE  Moves(t) /\ call'[t] = c
  BY DEF TypeOK, Continue, Moves

LEMMA OthersStay ==
  ASSUME TypeOK, NEW t \in Tasks, Moves(t)
  PROVE  /\ call' \in [Tasks -> Calls]
         /\ \A u \in Tasks \ {t} : call'[u] = call[u]
  BY DEF TypeOK, Moves

\* The mutex keeps its holder, and t stays where it was with regard to it.
LEMMA LockKept ==
  ASSUME TypeOK, LockMatchesSections, NEW t \in Tasks, Moves(t), mtx' = mtx,
         call'[t].pc \in Critical <=> call[t].pc \in Critical
  PROVE  LockMatchesSections'
  BY OthersStay DEF LockMatchesSections

\* t takes the free mutex.
LEMMA LockTaken ==
  ASSUME TypeOK, LockMatchesSections, NEW t \in Tasks, Moves(t),
         mtx = NoTask, mtx' = t, call'[t].pc \in Critical
  PROVE  LockMatchesSections'
  <1>1. NoTask \notin Tasks
    BY DriverAssumption
  <1> QED
    BY <1>1, OthersStay DEF LockMatchesSections

\* t returns the mutex.
LEMMA LockReleased ==
  ASSUME TypeOK, LockMatchesSections, NEW t \in Tasks, Moves(t),
         mtx = t, mtx' = NoTask, call'[t].pc \notin Critical
  PROVE  LockMatchesSections'
  <1>1. NoTask \notin Tasks
    BY DriverAssumption
  <1> QED
    BY <1>1, OthersStay DEF LockMatchesSections

\* add_entry is under way just when some task is in it.
LEMMA AddingIsInEntry ==
  ASSUME TypeOK, LockMatchesSections
  PROVE  Adding <=> \E u \in Tasks : call[u].pc = "w_entry"
  <1>1. NoTask \notin Tasks
    BY DriverAssumption
  <1> QED
    BY <1>1 DEF TypeOK, LockMatchesSections, Adding, At, Critical, Writing

\* add_entry is under way as before when t was not in it and is not now.
LEMMA AddingKept ==
  ASSUME TypeOK, LockMatchesSections, TypeOK', LockMatchesSections',
         NEW t \in Tasks, Moves(t),
         call[t].pc # "w_entry", call'[t].pc # "w_entry"
  PROVE  Adding' <=> Adding
  <1>1. \A u \in Tasks \ {t} : call'[u] = call[u]
    BY OthersStay
  <1>2. (\E u \in Tasks : call'[u].pc = "w_entry")
          <=> \E u \in Tasks : call[u].pc = "w_entry"
    BY <1>1
  <1>3. Adding <=> \E u \in Tasks : call[u].pc = "w_entry"
    BY AddingIsInEntry
  <1>4. (TypeOK /\ LockMatchesSections =>
           (Adding <=> \E u \in Tasks : call[u].pc = "w_entry"))'
    BY AddingIsInEntry, PTL
  <1> QED
    BY <1>2, <1>3, <1>4

\* What the two views of the buffer depend on.
LEMMA ViewsFrame ==
  ASSUME circular_buf' = circular_buf, g_buff' = g_buff, g_len' = g_len,
         Adding' <=> Adding
  PROVE  Completed' = Completed /\ Pending' = Pending
  BY DEF Completed, Pending, Adding, ThisEntry

\* Nothing that StoreOK speaks of changes.
LEMMA StoreFrame ==
  ASSUME StoreOK, UNCHANGED <<memVars, devVars>>, Adding' <=> Adding,
         OwnerMap(Completed.entry, Pending, call')
           = OwnerMap(Completed.entry, Pending, call),
         opened' # {} => loaded
  PROVE  StoreOK'
  <1>1. Completed' = Completed /\ Pending' = Pending
    BY ViewsFrame DEF devVars
  <1>2. /\ heap' = heap /\ allocated' = allocated /\ loaded' = loaded
        /\ circular_buf' = circular_buf /\ g_buff' = g_buff /\ g_len' = g_len
    BY DEF memVars, devVars
  <1>3. BlocksOwned'
    BY <1>1, <1>2 DEF StoreOK, BlocksOwned
  <1>4. RingConsistent'
    BY <1>1, <1>2 DEF StoreOK, RingConsistent
  <1>5. SlotLines'
    BY <1>1, <1>2 DEF StoreOK, SlotLines
  <1>6. PendingLine'
    BY <1>1, <1>2 DEF StoreOK, PendingLine
  <1>7. DeviceOK'
    BY <1>2 DEF StoreOK, DeviceOK
  <1> QED
    BY <1>3, <1>4, <1>5, <1>6, <1>7 DEF StoreOK

\* A step of t that is about its call and the positions only.
LEMMA QuietStep ==
  ASSUME Inv, NEW t \in Tasks, Moves(t), UNCHANGED <<memVars, devVars, opened>>,
         call'[t].wbuff = call[t].wbuff, call'[t].old_buff = call[t].old_buff,
         call[t].pc # "w_entry", call'[t].pc # "w_entry",
         mtx' \in Tasks \cup {NoTask}, oops' \in BOOLEAN,
         f_pos' \in [Files -> Int], FilesOK', LockMatchesSections', CallOK(t)'
  PROVE  Inv'
  <1>1. /\ TypeOK /\ LockMatchesSections /\ CallsOK /\ StoreOK
        /\ call' \in [Tasks -> Calls]
        /\ \A u \in Tasks \ {t} : call'[u] = call[u]
    BY OthersStay DEF Inv
  <1>2. TypeOK'
    BY <1>1 DEF TypeOK, memVars, devVars
  <1>3. CallsOK'
    <2>1. heap' = heap /\ opened' = opened
      BY DEF memVars
    <2>2. \A u \in Tasks \ {t} : CallOK(u) => CallOK(u)'
      BY <1>1, <2>1 DEF CallOK
    <2> QED
      BY <1>1, <2>2 DEF CallsOK
  <1>4. Adding' <=> Adding
    BY <1>1, <1>2, AddingKept
  <1>5. OwnerMap(Completed.entry, Pending, call')
          = OwnerMap(Completed.entry, Pending, call)
    <2>1. \A u \in Tasks : /\ call'[u].wbuff = call[u].wbuff
                           /\ call'[u].old_buff = call[u].old_buff
      BY <1>1
    <2> QED
      BY <2>1, SameBlocks
  <1>6. StoreOK'
    BY <1>1, <1>4, <1>5, StoreFrame DEF StoreOK, DeviceOK
  <1> QED
    BY <1>2, <1>3, <1>6 DEF Inv

\* A task outside the driver has the locals of no call.
LEMMA NoCallIsCall == NoCall \in Calls
  BY DEF NoCall, NewCall, Calls, PCs

\* A read starts with a copy of a position that is not negative.
LEMMA ReadBeginInv ==
  ASSUME Inv, NEW t \in Tasks, NEW f \in Files, NEW count \in Counts,
         ReadBegin(t, f, count)
  PROVE  Inv'
  <1> DEFINE c == NewCall("r_lock", f, [count |-> count], NULL, f_pos[f])
  <1>1. /\ TypeOK /\ LockMatchesSections /\ CallsOK /\ FilesOK
        /\ call[t].pc = "idle" /\ f \in opened
        /\ UNCHANGED <<memVars, devVars, lockVars, fileVars>>
    BY DEF Inv, ReadBegin, Enter, At, NewCall
  <1>2. Continue(t, c)
    BY DEF ReadBegin, Enter
  <1>3. f_pos[f] \in Int /\ f_pos[f] >= 0
    BY <1>1 DEF TypeOK, FilesOK
  <1>4. c \in Calls
    BY <1>3 DEF NewCall, Calls, PCs, Waiting, Args
  <1>5. Moves(t) /\ call'[t] = c
    <2> HIDE DEF c
    <2> QED
      BY <1>1, <1>2, <1>4, ContinueMoves
  <1>6. call[t].wbuff = NULL /\ call[t].old_buff = NULL
    BY <1>1 DEF CallsOK, CallOK, InWrite, Writing
  <1>7. LockMatchesSections'
    BY <1>1, <1>5, LockKept DEF NewCall, lockVars, Critical, Writing
  <1>8. CallOK(t)'
    BY <1>1, <1>3, <1>5 DEF NewCall, CallOK, InWrite, Writing, fileVars
  <1>9. /\ f_pos' \in [Files -> Int] /\ FilesOK'
        /\ mtx' \in Tasks \cup {NoTask} /\ oops' \in BOOLEAN
        /\ UNCHANGED opened
    BY <1>1 DEF TypeOK, FilesOK, fileVars, lockVars
  <1> QED
    BY <1>1, <1>5, <1>6, <1>7, <1>8, <1>9, QuietStep DEF NewCall

LEMMA LseekBeginInv ==
  ASSUME Inv, NEW t \in Tasks, NEW f \in Files, NEW x \in LseekArgs,
         LseekBegin(t, f, x)
  PROVE  Inv'
  <1> DEFINE c == NewCall("l_size", f, x, NULL, 0)
  <1>1. /\ TypeOK /\ LockMatchesSections /\ CallsOK /\ FilesOK
        /\ call[t].pc = "idle" /\ f \in opened
        /\ UNCHANGED <<memVars, devVars, lockVars, fileVars>>
    BY DEF Inv, LseekBegin, Enter, At, NewCall
  <1>2. Continue(t, c)
    BY DEF LseekBegin, Enter
  <1>3. c \in Calls
    BY DEF NewCall, Calls, PCs, Walking, Args
  <1>4. Moves(t) /\ call'[t] = c
    <2> HIDE DEF c
    <2> QED
      BY <1>1, <1>2, <1>3, ContinueMoves
  <1>5. call[t].wbuff = NULL /\ call[t].old_buff = NULL
    BY <1>1 DEF CallsOK, CallOK, InWrite, Writing
  <1>6. LockMatchesSections'
    BY <1>1, <1>4, LockKept DEF NewCall, lockVars, Critical, Writing
  <1>7. CallOK(t)'
    BY <1>1, <1>4 DEF NewCall, CallOK, InWrite, Writing, fileVars
  <1>8. /\ f_pos' \in [Files -> Int] /\ FilesOK'
        /\ mtx' \in Tasks \cup {NoTask} /\ oops' \in BOOLEAN
        /\ UNCHANGED opened
    BY <1>1 DEF TypeOK, FilesOK, fileVars, lockVars
  <1> QED
    BY <1>1, <1>4, <1>5, <1>6, <1>7, <1>8, QuietStep DEF NewCall

LEMMA IoctlBeginInv ==
  ASSUME Inv, NEW t \in Tasks, NEW f \in Files, NEW x \in SeekTos,
         IoctlBegin(t, f, x)
  PROVE  Inv'
  <1> DEFINE c == NewCall("i_count", f, x, NULL, 0)
  <1>1. /\ TypeOK /\ LockMatchesSections /\ CallsOK /\ FilesOK
        /\ call[t].pc = "idle" /\ f \in opened
        /\ UNCHANGED <<memVars, devVars, lockVars, fileVars>>
    BY DEF Inv, IoctlBegin, Enter, At, NewCall
  <1>2. Continue(t, c)
    BY DEF IoctlBegin, Enter
  <1>3. c \in Calls
    BY DEF NewCall, Calls, PCs, Walking, Args
  <1>4. Moves(t) /\ call'[t] = c
    <2> HIDE DEF c
    <2> QED
      BY <1>1, <1>2, <1>3, ContinueMoves
  <1>5. call[t].wbuff = NULL /\ call[t].old_buff = NULL
    BY <1>1 DEF CallsOK, CallOK, InWrite, Writing
  <1>6. LockMatchesSections'
    BY <1>1, <1>4, LockKept DEF NewCall, lockVars, Critical, Writing
  <1>7. CallOK(t)'
    BY <1>1, <1>4 DEF NewCall, CallOK, InWrite, Writing, fileVars
  <1>8. /\ f_pos' \in [Files -> Int] /\ FilesOK'
        /\ mtx' \in Tasks \cup {NoTask} /\ oops' \in BOOLEAN
        /\ UNCHANGED opened
    BY <1>1 DEF TypeOK, FilesOK, fileVars, lockVars
  <1> QED
    BY <1>1, <1>4, <1>5, <1>6, <1>7, <1>8, QuietStep DEF NewCall

\* A walk adds numbers up and stays inside the array.
LEMMA WalkInv ==
  ASSUME Inv, NEW t \in Tasks, NEW last, NEW amount, NEW next,
         call[t].i < MaxOps => amount \in Nat,
         call[t].pc \in Walking, Walk(t, last, amount, next),
         \/ call[t].pc = "l_size" /\ next = "l_check"
         \/ call[t].pc = "i_count" /\ next = "i_check"
         \/ call[t].pc = "i_seek" /\ next = "i_store"
  PROVE  Inv'
  <1>1. /\ TypeOK /\ LockMatchesSections /\ CallsOK /\ FilesOK
        /\ UNCHANGED <<memVars, devVars, lockVars, fileVars>>
    BY DEF Inv, Walk
  <1>2. call[t] \in Calls /\ CallOK(t)
    BY <1>1 DEF TypeOK, CallsOK
  <1>3. PICK c : /\ Continue(t, c)
                 /\ \/ /\ call[t].i < MaxOps
                       /\ c = [call[t] EXCEPT !.i = @ + 1, !.acc = @ + amount]
                    \/ c = [call[t] EXCEPT !.pc = next]
    BY DEF Walk
  <1>4. /\ c \in Calls
        /\ c.pc = call[t].pc \/ c.pc = next
        /\ c.file = call[t].file /\ c.arg = call[t].arg /\ c.pos = call[t].pos
        /\ c.wbuff = call[t].wbuff /\ c.old_buff = call[t].old_buff
    <2>1. call[t].i + 1 \in Nat /\ (call[t].i < MaxOps => call[t].acc + amount \in Nat)
      BY <1>2 DEF Calls
    <2>2. next \in PCs
      BY DEF PCs
    <2> QED
      BY <1>2, <1>3, <2>1, <2>2, ZenonT(60) DEF Calls
  <1>5. Moves(t) /\ call'[t] = c
    BY <1>1, <1>3, <1>4, ContinueMoves
  <1>6. call[t].pc # "w_entry" /\ c.pc # "w_entry"
    BY <1>4 DEF Walking
  <1>7. LockMatchesSections'
    BY <1>1, <1>4, <1>5, LockKept DEF lockVars, Critical, Writing, Walking
  <1>8. CallOK(t)'
    BY <1>1, <1>2, <1>4, <1>5 DEF CallOK, InWrite, Writing, Walking, fileVars
  <1>9. /\ f_pos' \in [Files -> Int] /\ FilesOK'
        /\ mtx' \in Tasks \cup {NoTask} /\ oops' \in BOOLEAN
        /\ UNCHANGED opened
    BY <1>1 DEF TypeOK, FilesOK, fileVars, lockVars
  <1> QED
    BY <1>1, <1>4, <1>5, <1>6, <1>7, <1>8, <1>9, QuietStep

LEMMA LseekSizeInv ==
  ASSUME Inv, NEW t \in Tasks, LseekSize(t)
  PROVE  Inv'
  <1>1. call[t].i < MaxOps => SizeAt(call[t].i) \in Nat
    <2>1. call[t].i \in Nat /\ circular_buf \in Buffers(Addr)
      BY DEF Inv, TypeOK, Calls
    <2>2. call[t].i < MaxOps => call[t].i \in Slots
      BY <2>1, MaxOpsAssumption DEF Slots
    <2> QED
      BY <2>1, <2>2 DEF SizeAt, Buffers, Entries
  <1> QED
    BY <1>1, WalkInv DEF LseekSize, At, Walking

LEMMA IoctlCountInv ==
  ASSUME Inv, NEW t \in Tasks, IoctlCount(t)
  PROVE  Inv'
  BY WalkInv DEF IoctlCount, At, Walking

LEMMA IoctlSeekInv ==
  ASSUME Inv, NEW t \in Tasks, IoctlSeek(t)
  PROVE  Inv'
  <1>1. call[t].i < MaxOps => SizeAt(call[t].i) \in Nat
    <2>1. call[t].i \in Nat /\ circular_buf \in Buffers(Addr)
      BY DEF Inv, TypeOK, Calls
    <2>2. call[t].i < MaxOps => call[t].i \in Slots
      BY <2>1, MaxOpsAssumption DEF Slots
    <2> QED
      BY <2>1, <2>2 DEF SizeAt, Buffers, Entries
  <1> QED
    BY <1>1, WalkInv DEF IoctlSeek, At, Walking

\* Both reductions give integers.
LEMMA Reduced ==
  ASSUME NEW n \in Int
  PROVE  /\ ToUnsigned(n) \in Nat
         /\ ToSigned(n) \in Int
  <1>1. SizeMod \in Nat \ {0}
    BY DriverAssumption
  <1>2. n % SizeMod \in 0 .. SizeMod - 1
    BY <1>1
  <1> QED
    BY <1>1, <1>2 DEF ToUnsigned, ToSigned

\* What the switch of aesd_seek accepts lies between 0 and the size.
LEMMA AcceptedIsInside ==
  ASSUME NEW x \in LseekArgs, NEW f \in Files, f_pos[f] \in Int,
         NEW size \in Nat,
         SeekAccepted(x.whence, SeekTarget(x.whence, x.offset, f, size), size)
  PROVE  SeekTarget(x.whence, x.offset, f, size) \in 0 .. size
  <1>1. x.whence \in Whence /\ x.offset \in Int
    BY DriverAssumption
  <1> DEFINE np == SeekTarget(x.whence, x.offset, f, size)
  <1>2. CASE x.whence = "SEEK_SET"
    <2>1. np = x.offset
      BY <1>2 DEF SeekTarget
    <2> QED
      BY <1>1, <1>2, <2>1 DEF SeekAccepted
  <1>3. CASE x.whence = "SEEK_CUR"
    <2>1. np = ToSigned(f_pos[f] + x.offset)
      BY <1>3 DEF SeekTarget
    <2>2. f_pos[f] + x.offset \in Int
      BY <1>1
    <2>3. np \in Int
      BY <2>1, <2>2, Reduced
    <2> QED
      BY <1>3, <2>3 DEF SeekAccepted
  <1>4. CASE x.whence = "SEEK_END"
    <2>1. np = ToUnsigned(size + x.offset)
      BY <1>4 DEF SeekTarget
    <2>2. size + x.offset \in Int
      BY <1>1
    <2>3. np \in Nat
      BY <2>1, <2>2, Reduced
    <2> QED
      BY <1>4, <2>3 DEF SeekAccepted
  <1> QED
    BY <1>1, <1>2, <1>3, <1>4 DEF Whence

\* A task that returns outside the locked sections leaves nothing behind.
LEMMA ReturnQuietly ==
  ASSUME Inv, NEW t \in Tasks, Return(t), call[t].pc \notin Critical \cup InWrite
  PROVE  /\ Moves(t) /\ call'[t] = NoCall
         /\ call[t].wbuff = NULL /\ call[t].old_buff = NULL
         /\ call[t].pc # "w_entry"
         /\ mtx' = mtx => LockMatchesSections'
         /\ CallOK(t)'
  <1>1. /\ TypeOK /\ LockMatchesSections /\ CallsOK
        /\ CallOK(t) /\ call[t].pc # "w_entry"
    BY DEF Inv, CallsOK, Critical, Writing
  <1>2. Moves(t) /\ call'[t] = NoCall
    BY <1>1, NoCallIsCall, ContinueMoves DEF Return
  <1>3. call[t].wbuff = NULL /\ call[t].old_buff = NULL
    BY <1>1 DEF CallOK
  <1>4. mtx' = mtx => LockMatchesSections'
    BY <1>1, <1>2, LockKept DEF NoCall, NewCall, Critical, Writing
  <1>5. CallOK(t)'
    BY <1>2 DEF CallOK, NoCall, NewCall, InWrite, Writing
  <1> QED
    BY <1>1, <1>2, <1>3, <1>4, <1>5

LEMMA StorePositionInv ==
  ASSUME Inv, NEW t \in Tasks, NEW p \in Nat, StorePosition(t, p),
         call[t].pc \in {"done", "l_store", "i_store"}
  PROVE  Inv'
  <1>1. /\ TypeOK /\ FilesOK
        /\ Return(t) /\ f_pos' = [f_pos EXCEPT ![call[t].file] = p]
        /\ UNCHANGED <<memVars, devVars, lockVars, opened>>
    BY DEF Inv, StorePosition
  <1>2. call[t].pc \notin Critical \cup InWrite
    BY DEF Critical, InWrite, Writing
  <1>3. /\ Moves(t) /\ call'[t] = NoCall
        /\ call[t].wbuff = NULL /\ call[t].old_buff = NULL
        /\ call[t].pc # "w_entry"
        /\ LockMatchesSections' /\ CallOK(t)'
    BY <1>1, <1>2, ReturnQuietly DEF lockVars
  <1>4. /\ f_pos' \in [Files -> Int] /\ FilesOK'
        /\ mtx' \in Tasks \cup {NoTask} /\ oops' \in BOOLEAN
    <2>1. f_pos \in [Files -> Int] /\ \A f \in Files : f_pos[f] >= 0
      BY <1>1 DEF TypeOK, FilesOK
    <2> DEFINE file == call[t].file
    <2>2. file \in Files /\ p \in Int
      BY DEF Inv, TypeOK, CallsOK, CallOK
    <2>3. f_pos' = [f_pos EXCEPT ![file] = p]
      BY <1>1
    <2> HIDE DEF file
    <2>4. f_pos' \in [Files -> Int]
      BY <2>1, <2>2, <2>3
    <2>5. \A f \in Files : f_pos'[f] >= 0
      BY <2>1, <2>2, <2>3
    <2> QED
      BY <1>1, <2>4, <2>5 DEF TypeOK, FilesOK, lockVars
  <1>5. NoCall.pc = "idle" /\ NoCall.wbuff = NULL /\ NoCall.old_buff = NULL
    BY DEF NoCall, NewCall
  <1> QED
    BY <1>1, <1>3, <1>4, <1>5, QuietStep

LEMMA CallDoneInv ==
  ASSUME Inv, NEW t \in Tasks, CallDone(t)
  PROVE  Inv'
  <1>1. call[t].pos \in Nat
    BY DEF Inv, TypeOK, Calls, CallsOK, CallOK
  <1> QED
    BY <1>1, StorePositionInv DEF CallDone, At

LEMMA LseekStoreInv ==
  ASSUME Inv, NEW t \in Tasks, LseekStore(t)
  PROVE  Inv'
  <1>1. call[t].pos \in Nat
    BY DEF Inv, TypeOK, Calls, CallsOK, CallOK
  <1> QED
    BY <1>1, StorePositionInv DEF LseekStore, At

LEMMA IoctlStoreInv ==
  ASSUME Inv, NEW t \in Tasks, IoctlStore(t)
  PROVE  Inv'
  <1>1. call[t].acc \in Nat
    BY DEF Inv, TypeOK, Calls
  <1>2. call[t].arg \in SeekTos
    BY DEF Inv, CallsOK, CallOK, IoctlStore, At
  <1>3. call[t].acc + call[t].arg.write_cmd_offset \in Nat
    BY <1>1, <1>2, DriverAssumption
  <1> QED
    BY <1>3, StorePositionInv DEF IoctlStore, At

\* A check outside the locks goes on, or gives up.
LEMMA CheckInv ==
  ASSUME Inv, NEW t \in Tasks, NEW c \in Calls, Continue(t, c),
         UNCHANGED <<memVars, devVars, lockVars, fileVars>>,
         call[t].pc \notin Critical \cup InWrite,
         c.pc \notin Critical \cup InWrite,
         c.wbuff = NULL, c.old_buff = NULL, CallOK(t)'
  PROVE  Inv'
  <1>1. /\ TypeOK /\ LockMatchesSections /\ FilesOK
        /\ CallOK(t) /\ call[t].pc # "w_entry" /\ c.pc # "w_entry"
    BY DEF Inv, CallsOK, Critical, Writing
  <1>2. Moves(t) /\ call'[t] = c
    BY <1>1, ContinueMoves
  <1>3. call[t].wbuff = NULL /\ call[t].old_buff = NULL
    BY <1>1 DEF CallOK
  <1>4. LockMatchesSections'
    BY <1>1, <1>2, LockKept DEF lockVars
  <1>5. /\ f_pos' \in [Files -> Int] /\ FilesOK'
        /\ mtx' \in Tasks \cup {NoTask} /\ oops' \in BOOLEAN
        /\ UNCHANGED opened
    BY <1>1 DEF TypeOK, FilesOK, fileVars, lockVars
  <1> QED
    BY <1>1, <1>2, <1>3, <1>4, <1>5, QuietStep

LEMMA LseekCheckInv ==
  ASSUME Inv, NEW t \in Tasks, LseekCheck(t)
  PROVE  Inv'
  <1> DEFINE x == call[t].arg
             np == SeekTarget(x.whence, x.offset, call[t].file, call[t].acc)
  <1>1. /\ call[t] \in Calls /\ CallOK(t) /\ call[t].pc = "l_check"
        /\ opened \subseteq Files /\ f_pos \in [Files -> Int]
        /\ UNCHANGED <<memVars, devVars, lockVars, fileVars>>
    BY DEF Inv, TypeOK, CallsOK, LseekCheck, At
  <1>2. /\ x \in LseekArgs /\ call[t].file \in Files /\ call[t].acc \in Nat
        /\ call[t].wbuff = NULL /\ call[t].old_buff = NULL
    BY <1>1 DEF CallOK, Calls, InWrite, Writing
  <1>3. call[t].pc \notin Critical \cup InWrite
    BY <1>1 DEF Critical, InWrite, Writing
  <1>4. CASE SeekAccepted(x.whence, np, call[t].acc)
    <2> DEFINE c == [call[t] EXCEPT !.pc = "l_store", !.pos = np]
    <2>1. Continue(t, c)
      BY <1>4 DEF LseekCheck
    <2>2. np \in 0 .. call[t].acc
      BY <1>1, <1>2, <1>4, AcceptedIsInside
    <2> HIDE DEF np, x
    <2> np \in Int
      BY <1>2, <2>2
    <2>3. /\ c \in Calls
          /\ c.pc = "l_store" /\ c.pos = np
          /\ c.file = call[t].file /\ c.arg = call[t].arg /\ c.acc = call[t].acc
          /\ c.wbuff = NULL /\ c.old_buff = NULL
      BY <1>1, <1>2, <2>2 DEF Calls, PCs
    <2> HIDE DEF c
    <2>4. call'[t] = c
      BY <2>1, <2>3, ContinueMoves DEF Inv
    <2>5. CallOK(t)'
      BY <1>1, <1>2, <2>2, <2>3, <2>4 DEF CallOK, InWrite, Writing, fileVars
    <2> QED
      BY <1>1, <1>3, <2>1, <2>3, <2>5, CheckInv DEF Critical, InWrite, Writing
  <1>5. CASE ~ SeekAccepted(x.whence, np, call[t].acc)
    <2>1. Return(t)
      BY <1>5 DEF LseekCheck, Return
    <2>2. CallOK(t)'
      BY <1>3, <2>1, ReturnQuietly
    <2> QED
      BY <1>1, <1>3, <2>1, <2>2, NoCallIsCall, CheckInv
         DEF Return, NoCall, NewCall, Critical, InWrite, Writing
  <1> QED
    BY <1>4, <1>5

LEMMA IoctlCheckInv ==
  ASSUME Inv, NEW t \in Tasks, IoctlCheck(t)
  PROVE  Inv'
  <1>1. /\ call[t] \in Calls /\ CallOK(t) /\ call[t].pc = "i_check"
        /\ UNCHANGED <<memVars, devVars, lockVars, fileVars>>
    BY DEF Inv, TypeOK, CallsOK, IoctlCheck, At
  <1>2. /\ call[t].arg \in SeekTos /\ call[t].file \in opened
        /\ call[t].wbuff = NULL /\ call[t].old_buff = NULL /\ call[t].pos >= 0
    BY <1>1 DEF CallOK, InWrite, Writing
  <1>3. call[t].pc \notin Critical \cup InWrite
    BY <1>1 DEF Critical, InWrite, Writing
  <1> DEFINE c == [call[t] EXCEPT !.pc = "i_seek", !.i = 0, !.acc = 0]
  <1>4. CASE Continue(t, c)
    <2>1. /\ c \in Calls
          /\ c.pc = "i_seek" /\ c.pos = call[t].pos
          /\ c.file = call[t].file /\ c.arg = call[t].arg
          /\ c.wbuff = NULL /\ c.old_buff = NULL
      BY <1>1, <1>2 DEF Calls, PCs, Walking
    <2> HIDE DEF c
    <2>2. call'[t] = c
      BY <1>4, <2>1, ContinueMoves DEF Inv
    <2>3. CallOK(t)'
      BY <1>1, <1>2, <2>1, <2>2 DEF CallOK, InWrite, Writing, fileVars
    <2> QED
      BY <1>1, <1>3, <1>4, <2>1, <2>3, CheckInv DEF Critical, InWrite, Writing
  <1>5. CASE Return(t)
    <2>1. CallOK(t)'
      BY <1>3, <1>5, ReturnQuietly
    <2> QED
      BY <1>1, <1>3, <1>5, <2>1, NoCallIsCall, CheckInv
         DEF Return, NoCall, NewCall, Critical, InWrite, Writing
  <1> QED
    BY <1>4, <1>5 DEF IoctlCheck, Return

\* Who holds the mutex in the read loop sees a complete buffer.
LEMMA ReaderSeesLines ==
  ASSUME Inv, NEW t \in Tasks, call[t].pc = "r_copy"
  PROVE  mtx = t /\ Completed = circular_buf /\ BytesInPlace
  <1>1. mtx = t
    BY DEF Inv, LockMatchesSections, Critical
  <1>2. Completed = circular_buf
    BY <1>1 DEF Completed, At
  <1>3. loaded
    BY DEF Inv, CallsOK, CallOK, StoreOK, DeviceOK
  <1>4. RingShape(circular_buf)
    BY <1>2, <1>3 DEF Inv, StoreOK, RingConsistent
  <1>5. ASSUME NEW s \in Slots, circular_buf.entry[s].size > 0
        PROVE  /\ circular_buf.entry[s].buffptr \in Addr
               /\ Len(heap[circular_buf.entry[s].buffptr])
                    = circular_buf.entry[s].size
    <2> DEFINE e == circular_buf.entry[s]
    <2>1. e \in Entries(Addr)
      BY DEF Inv, TypeOK, Buffers
    <2>2. e.buffptr # NULL
      BY <1>4, <1>5 DEF RingShape
    <2>3. HoldsLine(heap, e)
      BY <1>2, <2>2 DEF Inv, StoreOK, SlotLines
    <2> QED
      BY <2>1, <2>2, <2>3 DEF Entries, HoldsLine
  <1> QED
    BY <1>1, <1>2, <1>5 DEF BytesInPlace

LEMMA ReadCopyInv ==
  ASSUME Inv, NEW t \in Tasks, ReadCopy(t)
  PROVE  Inv'
  <1> DEFINE bytes == Copied(call[t].pos, call[t].arg.count)
             pos == call[t].pos + Len(bytes)
             c == [call[t] EXCEPT !.pc = "done", !.data = bytes, !.pos = pos]
  <1>1. /\ TypeOK /\ LockMatchesSections /\ FilesOK /\ CallOK(t)
        /\ call[t] \in Calls /\ call[t].pc = "r_copy"
        /\ Continue(t, c) /\ mtx' = NoTask
        /\ UNCHANGED <<memVars, devVars, oops, fileVars>>
    BY DEF Inv, TypeOK, CallsOK, ReadCopy, At, Unlock
  <1>2. mtx = t /\ BytesInPlace
    BY <1>1, ReaderSeesLines
  <1>3. call[t].pos \in Nat /\ call[t].arg.count \in Nat
    BY <1>1, DriverAssumption DEF CallOK, Calls
  <1>4. bytes \in Seq(Chars)
    BY <1>1, <1>2, <1>3, CopiedIsBytes DEF TypeOK
  <1> HIDE DEF bytes
  <1>5. pos \in Nat
    BY <1>3, <1>4
  <1> HIDE DEF pos
  <1>6. /\ c \in Calls
        /\ c.pc = "done" /\ c.pos >= 0 /\ c.file = call[t].file
        /\ c.wbuff = call[t].wbuff /\ c.old_buff = call[t].old_buff
    <2>1. call[t] \in Calls /\ pos \in Int /\ pos >= 0 /\ "done" \in PCs
      BY <1>1, <1>5 DEF PCs
    <2> QED
      BY <1>4, <2>1 DEF Calls
  <1> HIDE DEF c
  <1>7. Moves(t) /\ call'[t] = c
    BY <1>1, <1>6, ContinueMoves
  <1>8. LockMatchesSections'
    BY <1>1, <1>2, <1>6, <1>7, LockReleased DEF Critical, Writing
  <1>9. CallOK(t)'
    BY <1>1, <1>6, <1>7 DEF CallOK, InWrite, Writing, fileVars
  <1>10. /\ f_pos' \in [Files -> Int] /\ FilesOK'
         /\ mtx' \in Tasks \cup {NoTask} /\ oops' \in BOOLEAN
         /\ UNCHANGED opened
    BY <1>1 DEF TypeOK, FilesOK, fileVars
  <1> QED
    BY <1>1, <1>6, <1>7, <1>8, <1>9, <1>10, QuietStep

LEMMA ReadFaultInv ==
  ASSUME Inv, NEW t \in Tasks, ReadFault(t)
  PROVE  Inv'
  <1>1. /\ TypeOK /\ LockMatchesSections /\ FilesOK /\ CallOK(t)
        /\ call[t].pc = "r_copy"
        /\ Return(t) /\ mtx' = NoTask
        /\ UNCHANGED <<memVars, devVars, oops, fileVars>>
    BY DEF Inv, CallsOK, ReadFault, At, Unlock
  <1>2. mtx = t
    BY <1>1, ReaderSeesLines
  <1>3. Moves(t) /\ call'[t] = NoCall
    BY <1>1, NoCallIsCall, ContinueMoves DEF Return
  <1>4. call[t].wbuff = NULL /\ call[t].old_buff = NULL
    BY <1>1 DEF CallOK, InWrite, Writing
  <1>5. NoCall.pc = "idle" /\ NoCall.wbuff = NULL /\ NoCall.old_buff = NULL
    BY DEF NoCall, NewCall
  <1>6. LockMatchesSections'
    BY <1>1, <1>2, <1>3, <1>5, LockReleased DEF Critical, Writing
  <1>7. CallOK(t)'
    BY <1>3 DEF CallOK, NoCall, NewCall, InWrite, Writing
  <1>8. /\ f_pos' \in [Files -> Int] /\ FilesOK'
        /\ mtx' \in Tasks \cup {NoTask} /\ oops' \in BOOLEAN
        /\ UNCHANGED opened
    BY <1>1 DEF TypeOK, FilesOK, fileVars
  <1> QED
    BY <1>1, <1>3, <1>4, <1>5, <1>6, <1>7, <1>8, QuietStep

LEMMA LockInv ==
  ASSUME Inv, NEW t \in Tasks, Lock(t)
  PROVE  Inv'
  <1> DEFINE pc == IF call[t].pc = "w_lock" THEN "w_byte" ELSE "r_copy"
             c == [call[t] EXCEPT !.pc = pc]
  <1>1. /\ TypeOK /\ LockMatchesSections /\ FilesOK /\ CallOK(t)
        /\ call[t] \in Calls /\ call[t].pc \in {"w_lock", "r_lock"}
        /\ Continue(t, c) /\ mtx = NoTask /\ mtx' = t
        /\ UNCHANGED <<memVars, devVars, oops, fileVars>>
    BY DEF Inv, TypeOK, CallsOK, Lock, Waiting
  <1>2. pc \in {"w_byte", "r_copy"}
    OBVIOUS
  <1>3. pc \in PCs
    BY <1>2 DEF PCs, Critical, Writing
  <1>4. /\ c \in Calls
        /\ c.pc = pc /\ c.pos = call[t].pos /\ c.file = call[t].file
        /\ c.arg = call[t].arg /\ c.i = call[t].i
        /\ c.wbuff = call[t].wbuff /\ c.old_buff = call[t].old_buff
    <2> HIDE DEF pc
    <2> QED
      BY <1>1, <1>3 DEF Calls
  <1> HIDE DEF c
  <1>5. Moves(t) /\ call'[t] = c
    BY <1>1, <1>4, ContinueMoves
  <1>6. LockMatchesSections'
    BY <1>1, <1>2, <1>4, <1>5, LockTaken DEF Critical, Writing
  <1>7. CallOK(t)'
    <2>1. heap' = heap /\ opened' = opened
      BY <1>1 DEF memVars, fileVars
    <2> QED
      BY <1>1, <1>4, <1>5, <2>1 DEF CallOK, InWrite, Writing
  <1>8. /\ f_pos' \in [Files -> Int] /\ FilesOK'
        /\ mtx' \in Tasks \cup {NoTask} /\ oops' \in BOOLEAN
        /\ UNCHANGED opened
    BY <1>1 DEF TypeOK, FilesOK, fileVars
  <1>9. call[t].pc # "w_entry" /\ c.pc # "w_entry"
    BY <1>1, <1>2, <1>4
  <1> QED
    BY <1>1, <1>4, <1>5, <1>6, <1>7, <1>8, <1>9, QuietStep

(***************************************************************************)
(* Steps that free or fill a block.                                        *)
(***************************************************************************)

\* Two owners never hold the same block.
LEMMA BlocksApart ==
  ASSUME NEW entry, NEW pending, NEW c, NEW used,
         Ownership(OwnerMap(entry, pending, c), used)
  PROVE  /\ \A s \in Slots : entry[s].buffptr # NULL =>
              /\ entry[s].buffptr \in used
              /\ entry[s].buffptr # pending
              /\ \A r \in Slots \ {s} : entry[r].buffptr # entry[s].buffptr
              /\ \A t \in Tasks : /\ entry[s].buffptr # c[t].wbuff
                                  /\ entry[s].buffptr # c[t].old_buff
         /\ pending # NULL => /\ pending \in used
                              /\ \A t \in Tasks : /\ pending # c[t].wbuff
                                                  /\ pending # c[t].old_buff
         /\ \A t \in Tasks : c[t].wbuff # NULL =>
              /\ c[t].wbuff \in used
              /\ \A u \in Tasks \ {t} : c[u].wbuff # c[t].wbuff
              /\ \A u \in Tasks : c[u].old_buff # c[t].wbuff
         /\ \A t \in Tasks : c[t].old_buff # NULL => c[t].old_buff \in used
  <1> DEFINE own == OwnerMap(entry, pending, c)
  <1>1. Holds(own, entry, pending, c)
    BY OwnerMapHolds
  <1>2. Ownership(own, used)
    OBVIOUS
  <1> HIDE DEF own
  <1>3. \A o \in Owners : own[o] # NULL => own[o] \in used
    BY <1>2 DEF Ownership
  <1>4. \A o, p \in Owners : o # p /\ own[o] # NULL => own[o] # own[p]
    BY <1>2 DEF Ownership
  <1>5. ASSUME NEW s \in Slots, entry[s].buffptr # NULL
        PROVE  /\ entry[s].buffptr \in used
               /\ entry[s].buffptr # pending
               /\ \A r \in Slots \ {s} : entry[r].buffptr # entry[s].buffptr
               /\ \A t \in Tasks : /\ entry[s].buffptr # c[t].wbuff
                                   /\ entry[s].buffptr # c[t].old_buff
    <2> DEFINE o == <<"slot", s>>
    <2>1. /\ o \in Owners /\ own[o] = entry[s].buffptr
          /\ o # <<"g_buff", NULL>>
          /\ \A r \in Slots \ {s} : o # <<"slot", r>>
          /\ \A t \in Tasks : o # <<"wbuff", t>> /\ o # <<"old_buff", t>>
      BY <1>1, OwnerKinds DEF Holds
    <2> HIDE DEF o
    <2>2. \A p \in Owners : o # p => own[o] # own[p]
      BY <1>4, <1>5, <2>1
    <2>3. /\ \A r \in Slots \ {s} : own[o] # own[<<"slot", r>>]
          /\ own[o] # own[<<"g_buff", NULL>>]
          /\ \A t \in Tasks : /\ own[o] # own[<<"wbuff", t>>]
                              /\ own[o] # own[<<"old_buff", t>>]
      BY <2>1, <2>2, OwnerKinds
    <2>4. own[o] \in used
      BY <1>3, <1>5, <2>1
    <2> QED
      BY <1>1, <2>1, <2>3, <2>4 DEF Holds
  <1>6. ASSUME pending # NULL
        PROVE  /\ pending \in used
               /\ \A t \in Tasks : pending # c[t].wbuff /\ pending # c[t].old_buff
    <2> DEFINE o == <<"g_buff", NULL>>
    <2>1. /\ o \in Owners /\ own[o] = pending
          /\ \A t \in Tasks : o # <<"wbuff", t>> /\ o # <<"old_buff", t>>
      BY <1>1, OwnerKinds DEF Holds
    <2>2. \A t \in Tasks : /\ own[<<"wbuff", t>>] = c[t].wbuff
                           /\ own[<<"old_buff", t>>] = c[t].old_buff
      BY <1>1 DEF Holds
    <2> HIDE DEF o
    <2>3. \A t \in Tasks : own[o] # own[<<"wbuff", t>>]
                           /\ own[o] # own[<<"old_buff", t>>]
      BY <1>4, <1>6, <2>1, OwnerKinds
    <2> QED
      BY <1>3, <1>6, <2>1, <2>2, <2>3
  <1>7. ASSUME NEW t \in Tasks, c[t].wbuff # NULL
        PROVE  /\ c[t].wbuff \in used
               /\ \A u \in Tasks \ {t} : c[u].wbuff # c[t].wbuff
               /\ \A u \in Tasks : c[u].old_buff # c[t].wbuff
    <2> DEFINE o == <<"wbuff", t>>
    <2>1. /\ o \in Owners /\ own[o] = c[t].wbuff
          /\ \A u \in Tasks \ {t} : o # <<"wbuff", u>>
          /\ \A u \in Tasks : o # <<"old_buff", u>>
      BY <1>1, OwnerKinds DEF Holds
    <2> HIDE DEF o
    <2>2. \A p \in Owners : o # p => own[o] # own[p]
      BY <1>4, <1>7, <2>1
    <2>3. /\ \A u \in Tasks \ {t} : own[o] # own[<<"wbuff", u>>]
          /\ \A u \in Tasks : own[o] # own[<<"old_buff", u>>]
      BY <2>1, <2>2, OwnerKinds
    <2>4. own[o] \in used
      BY <1>3, <1>7, <2>1
    <2> QED
      BY <1>1, <2>1, <2>3, <2>4 DEF Holds
  <1>8. ASSUME NEW t \in Tasks, c[t].old_buff # NULL
        PROVE  c[t].old_buff \in used
    BY <1>1, <1>3, <1>8, OwnerKinds DEF Holds
  <1> QED
    BY <1>5, <1>6, <1>7, <1>8

\* The lines stay when every block that holds one stays.
LEMMA LinesFrame ==
  ASSUME TypeOK, StoreOK, Completed' = Completed, Pending' = Pending,
         g_buff' = g_buff, g_len' = g_len,
         \A s \in Slots : Completed.entry[s].buffptr # NULL =>
           heap'[Completed.entry[s].buffptr] = heap[Completed.entry[s].buffptr],
         Pending # NULL => heap'[g_buff] = heap[g_buff]
  PROVE  SlotLines' /\ PendingLine'
  <1>1. SlotLines'
    BY DEF StoreOK, SlotLines, HoldsLine
  <1>2. PendingLine'
    BY DEF StoreOK, PendingLine
  <1> QED
    BY <1>1, <1>2

\* The call of another task goes on as before when its block stays.
LEMMA OthersOK ==
  ASSUME TypeOK, CallsOK, NEW t \in Tasks, Moves(t), UNCHANGED opened,
         \A u \in Tasks \ {t} : call[u].wbuff # NULL =>
                                  heap'[call[u].wbuff] = heap[call[u].wbuff],
         CallOK(t)'
  PROVE  CallsOK'
  <1>1. \A u \in Tasks \ {t} : call'[u] = call[u]
    BY OthersStay
  <1>2. \A u \in Tasks \ {t} : CallOK(u)'
    BY <1>1 DEF CallsOK, CallOK
  <1> QED
    BY <1>2 DEF CallsOK

\* kfree clears the block and nothing else; kfree of a null pointer does nothing.
LEMMA kfreeFrees ==
  ASSUME TypeOK, NEW p \in Addr \cup {NULL}, kfree(p)
  PROVE  /\ allocated' = allocated \ {p}
         /\ allocated' \subseteq Addr
         /\ heap' \in [Addr -> Seq(Chars)]
         /\ \A m \in Addr \ {p} : heap'[m] = heap[m]
  BY DEF TypeOK, kfree

\* A call gives its wbuff back: interrupted, out of memory, or complete.
LEMMA WbuffGoneInv ==
  ASSUME Inv, NEW t \in Tasks, Moves(t), kfree(call[t].wbuff),
         UNCHANGED <<devVars, oops, fileVars>>,
         call[t].pc # "w_entry", call'[t].pc # "w_entry",
         call'[t].wbuff = NULL, call'[t].old_buff = NULL,
         mtx' \in Tasks \cup {NoTask}, LockMatchesSections', CallOK(t)'
  PROVE  Inv'
  <1>1. /\ TypeOK /\ LockMatchesSections /\ CallsOK /\ FilesOK /\ StoreOK
        /\ call[t] \in Calls /\ CallOK(t)
        /\ call' \in [Tasks -> Calls]
        /\ \A u \in Tasks \ {t} : call'[u] = call[u]
    BY OthersStay DEF Inv, TypeOK, CallsOK
  <1> DEFINE p == call[t].wbuff
  <1>2. p \in Addr \cup {NULL}
    BY <1>1 DEF Calls
  <1>3. /\ allocated' = allocated \ {p}
        /\ allocated' \subseteq Addr
        /\ heap' \in [Addr -> Seq(Chars)]
        /\ \A m \in Addr \ {p} : heap'[m] = heap[m]
    BY <1>1, <1>2, kfreeFrees
  <1>4. TypeOK'
    BY <1>1, <1>3 DEF TypeOK, devVars, fileVars
  <1>5. Adding' <=> Adding
    BY <1>1, <1>4, AddingKept
  <1>6. Completed' = Completed /\ Pending' = Pending
    BY <1>5, ViewsFrame DEF devVars
  <1>7. Ownership(OwnerMap(Completed.entry, Pending, call), allocated)
    BY <1>1 DEF StoreOK, BlocksOwned
  <1>8. BlocksOwned'
    <2>1. allocated \in SUBSET Addr /\ call[t].old_buff = NULL
      BY <1>1 DEF TypeOK, CallOK
    <2>2. Ownership(OwnerMap(Completed.entry, Pending, call'), allocated \ {p})
      BY <1>1, <1>7, <2>1, WbuffFreed
    <2> QED
      BY <1>3, <1>6, <2>2 DEF BlocksOwned
  <1>9. /\ \A s \in Slots : Completed.entry[s].buffptr # NULL =>
             /\ Completed.entry[s].buffptr \in allocated
             /\ Completed.entry[s].buffptr # p
        /\ Pending # NULL => Pending \in allocated /\ Pending # p
        /\ \A u \in Tasks \ {t} : call[u].wbuff # NULL =>
             call[u].wbuff \in allocated /\ call[u].wbuff # p
    BY <1>7, BlocksApart
  <1>10. allocated \subseteq Addr /\ (Pending # NULL => Pending = g_buff)
    BY <1>1 DEF TypeOK, Pending
  <1> HIDE DEF p
  <1>11. SlotLines' /\ PendingLine'
    <2>1. \A s \in Slots : Completed.entry[s].buffptr # NULL =>
            heap'[Completed.entry[s].buffptr] = heap[Completed.entry[s].buffptr]
      BY <1>3, <1>9, <1>10
    <2>2. Pending # NULL => heap'[g_buff] = heap[g_buff]
      BY <1>3, <1>9, <1>10
    <2> QED
      BY <1>1, <1>6, <2>1, <2>2, LinesFrame DEF devVars
  <1>12. CallsOK'
    <2>1. \A u \in Tasks \ {t} : call[u].wbuff # NULL =>
            heap'[call[u].wbuff] = heap[call[u].wbuff]
      BY <1>3, <1>9, <1>10
    <2> QED
      BY <1>1, <2>1, OthersOK DEF fileVars
  <1>13. RingConsistent'
    BY <1>1, <1>6 DEF StoreOK, RingConsistent, devVars
  <1>14. DeviceOK'
    BY <1>1, <1>5 DEF StoreOK, DeviceOK, devVars, fileVars
  <1>15. FilesOK'
    BY <1>1 DEF FilesOK, fileVars
  <1> QED
    BY <1>4, <1>8, <1>11, <1>12, <1>13, <1>14, <1>15 DEF Inv, StoreOK

LEMMA InterruptedInv ==
  ASSUME Inv, NEW t \in Tasks, Interrupted(t)
  PROVE  Inv'
  <1>1. /\ TypeOK /\ LockMatchesSections
        /\ call[t].pc \in {"w_lock", "r_lock"}
        /\ kfree(call[t].wbuff) /\ Return(t)
        /\ UNCHANGED <<devVars, lockVars, fileVars>>
    BY DEF Inv, Interrupted, Waiting
  <1>2. Moves(t) /\ call'[t] = NoCall
    BY <1>1, NoCallIsCall, ContinueMoves DEF Return
  <1>3. NoCall.pc = "idle" /\ NoCall.wbuff = NULL /\ NoCall.old_buff = NULL
    BY DEF NoCall, NewCall
  <1>4. LockMatchesSections'
    BY <1>1, <1>2, <1>3, LockKept DEF lockVars, Critical, Writing
  <1>5. CallOK(t)'
    BY <1>2 DEF CallOK, NoCall, NewCall, InWrite, Writing
  <1>6. mtx' \in Tasks \cup {NoTask} /\ oops' = oops
    BY <1>1 DEF TypeOK, lockVars
  <1> QED
    BY <1>1, <1>2, <1>3, <1>4, <1>5, <1>6, WbuffGoneInv

LEMMA WriteNoMemInv ==
  ASSUME Inv, NEW t \in Tasks, WriteNoMem(t)
  PROVE  Inv'
  <1>1. /\ TypeOK /\ LockMatchesSections
        /\ call[t].pc = "w_byte"
        /\ kfree(call[t].wbuff) /\ Return(t) /\ mtx' = NoTask
        /\ UNCHANGED <<devVars, oops, fileVars>>
    BY DEF Inv, WriteNoMem, HasByte, At, Unlock
  <1>2. Moves(t) /\ call'[t] = NoCall
    BY <1>1, NoCallIsCall, ContinueMoves DEF Return
  <1>3. NoCall.pc = "idle" /\ NoCall.wbuff = NULL /\ NoCall.old_buff = NULL
    BY DEF NoCall, NewCall
  <1>4. mtx = t
    BY <1>1 DEF LockMatchesSections, Critical, Writing
  <1>5. LockMatchesSections'
    BY <1>1, <1>2, <1>3, <1>4, LockReleased DEF Critical, Writing
  <1>6. CallOK(t)'
    BY <1>2 DEF CallOK, NoCall, NewCall, InWrite, Writing
  <1> QED
    BY <1>1, <1>2, <1>3, <1>5, <1>6, WbuffGoneInv

LEMMA WriteEndInv ==
  ASSUME Inv, NEW t \in Tasks, WriteEnd(t)
  PROVE  Inv'
  <1> DEFINE c == [call[t] EXCEPT !.pc = "done", !.wbuff = NULL]
  <1>1. /\ TypeOK /\ LockMatchesSections /\ CallOK(t)
        /\ call[t] \in Calls /\ call[t].pc = "w_byte"
    BY DEF Inv, TypeOK, CallsOK, WriteEnd, At
  <1>2. /\ kfree(call[t].wbuff) /\ Continue(t, c) /\ mtx' = NoTask
        /\ UNCHANGED <<devVars, oops, fileVars>>
    BY DEF WriteEnd, Unlock
  <1>3. /\ c \in Calls
        /\ c.pc = "done" /\ c.pos = call[t].pos /\ c.file = call[t].file
        /\ c.wbuff = NULL /\ c.old_buff = call[t].old_buff
    <2>1. "done" \in PCs
      BY DEF PCs
    <2> QED
      BY <1>1, <2>1 DEF Calls
  <1> HIDE DEF c
  <1>4. Moves(t) /\ call'[t] = c
    BY <1>1, <1>2, <1>3, ContinueMoves
  <1>5. mtx = t
    BY <1>1 DEF LockMatchesSections, Critical, Writing
  <1>6. LockMatchesSections'
    BY <1>1, <1>2, <1>3, <1>4, <1>5, LockReleased DEF Critical, Writing
  <1>7. call[t].old_buff = NULL
    BY <1>1 DEF CallOK
  <1>8. CallOK(t)'
    BY <1>1, <1>2, <1>3, <1>4, <1>7 DEF CallOK, InWrite, Writing, fileVars
  <1> QED
    BY <1>1, <1>2, <1>3, <1>4, <1>6, <1>7, <1>8, WbuffGoneInv

LEMMA WriteBeginInv ==
  ASSUME Inv, NEW t \in Tasks, NEW f \in Files, NEW bytes \in Writes,
         WriteBegin(t, f, bytes)
  PROVE  Inv'
  <1>1. /\ TypeOK /\ LockMatchesSections /\ CallsOK /\ FilesOK /\ StoreOK
        /\ CallOK(t) /\ call[t].pc = "idle" /\ f \in opened
    BY DEF Inv, CallsOK, WriteBegin, Enter, At, NewCall
  <1>2. PICK a \in Addr \ allocated :
          /\ Continue(t, NewCall("w_lock", f, [bytes |-> bytes], a, f_pos[f]))
          /\ UNCHANGED <<devVars, lockVars, fileVars>>
          /\ allocated' = allocated \cup {a}
          /\ heap' = [heap EXCEPT ![a] = bytes]
    BY DEF WriteBegin, Enter
  <1> DEFINE c == NewCall("w_lock", f, [bytes |-> bytes], a, f_pos[f])
  <1>3. f_pos[f] \in Int /\ f_pos[f] >= 0 /\ bytes \in Seq(Chars)
    BY <1>1, DriverAssumption DEF TypeOK, FilesOK
  <1>4. /\ c \in Calls
        /\ c.pc = "w_lock" /\ c.pos = f_pos[f] /\ c.file = f /\ c.i = 0
        /\ c.arg = [bytes |-> bytes] /\ c.wbuff = a /\ c.old_buff = NULL
    <2>1. "w_lock" \in PCs /\ [bytes |-> bytes] \in Args
      BY DEF PCs, Waiting, Args
    <2> QED
      BY <1>1, <1>3, <2>1 DEF NewCall, Calls
  <1> HIDE DEF c
  <1>5. Moves(t) /\ call'[t] = c
    BY <1>1, <1>2, <1>4, ContinueMoves DEF c
  <1>6. call' \in [Tasks -> Calls] /\ \A u \in Tasks \ {t} : call'[u] = call[u]
    BY <1>1, <1>5, OthersStay
  <1>7. /\ heap \in [Addr -> Seq(Chars)] /\ allocated \subseteq Addr
        /\ heap' \in [Addr -> Seq(Chars)] /\ heap'[a] = bytes
        /\ \A m \in Addr \ {a} : heap'[m] = heap[m]
    BY <1>1, <1>2, <1>3 DEF TypeOK
  <1>8. TypeOK'
    BY <1>1, <1>2, <1>6, <1>7 DEF TypeOK, devVars, fileVars, lockVars
  <1>9. LockMatchesSections'
    BY <1>1, <1>2, <1>4, <1>5, LockKept DEF lockVars, Critical, Writing
  <1>10. Adding' <=> Adding
    BY <1>1, <1>4, <1>5, <1>8, <1>9, AddingKept
  <1>11. Completed' = Completed /\ Pending' = Pending
    BY <1>2, <1>10, ViewsFrame DEF devVars
  <1>12. Ownership(OwnerMap(Completed.entry, Pending, call), allocated)
    BY <1>1 DEF StoreOK, BlocksOwned
  <1>13. BlocksOwned'
    <2>1. call[t].wbuff = NULL /\ call[t].old_buff = NULL
      BY <1>1 DEF CallOK, InWrite, Writing
    <2>2. allocated \in SUBSET Addr
      BY <1>7
    <2>3. Ownership(OwnerMap(Completed.entry, Pending, call'),
                    allocated \cup {a})
      BY <1>4, <1>5, <1>6, <1>12, <2>1, <2>2, WbuffTaken
    <2> QED
      BY <1>2, <1>11, <2>3 DEF BlocksOwned
  <1>14. /\ \A s \in Slots : Completed.entry[s].buffptr # NULL =>
              Completed.entry[s].buffptr \in allocated
         /\ Pending # NULL => Pending \in allocated
         /\ \A u \in Tasks : call[u].wbuff # NULL => call[u].wbuff \in allocated
    BY <1>12, BlocksApart
  <1>15. Pending # NULL => Pending = g_buff
    BY DEF Pending
  <1>16. SlotLines' /\ PendingLine'
    <2>1. \A s \in Slots : Completed.entry[s].buffptr # NULL =>
            heap'[Completed.entry[s].buffptr] = heap[Completed.entry[s].buffptr]
      BY <1>7, <1>14
    <2>2. Pending # NULL => heap'[g_buff] = heap[g_buff]
      BY <1>7, <1>14, <1>15
    <2> QED
      BY <1>1, <1>2, <1>11, <2>1, <2>2, LinesFrame DEF devVars
  <1>17. CallsOK'
    <2>1. \A u \in Tasks \ {t} : call[u].wbuff # NULL =>
            heap'[call[u].wbuff] = heap[call[u].wbuff]
      BY <1>7, <1>14
    <2>2. a # NULL /\ opened' = opened
      BY <1>2, DriverAssumption DEF fileVars
    <2>3. CallOK(t)'
      BY <1>1, <1>3, <1>4, <1>5, <1>7, <2>2 DEF CallOK, InWrite, Writing
    <2> QED
      BY <1>1, <1>5, <2>1, <2>2, <2>3, OthersOK
  <1>18. RingConsistent'
    BY <1>1, <1>2, <1>11 DEF StoreOK, RingConsistent, devVars
  <1>19. DeviceOK'
    BY <1>1, <1>2, <1>10 DEF StoreOK, DeviceOK, devVars, fileVars
  <1>20. FilesOK'
    BY <1>1, <1>2 DEF FilesOK, fileVars
  <1> QED
    BY <1>8, <1>9, <1>13, <1>16, <1>17, <1>18, <1>19, <1>20 DEF Inv, StoreOK

\* The pending line grows by one byte, wherever its block ends up.
LEMMA GrowToGrows ==
  ASSUME TypeOK, StoreOK, loaded, ~Adding,
         NEW b \in Addr, NEW byte \in Chars, GrowTo(b, byte)
  PROVE  /\ g_buff' = b /\ g_len' = g_len + 1 /\ g_len' \in 0 .. MaxLine
         /\ allocated' \subseteq Addr
         /\ heap' \in [Addr -> Seq(Chars)]
         /\ Len(heap'[b]) = g_len + 1
         /\ heap'[b][g_len + 1] = byte
         /\ \A j \in 1 .. g_len : heap'[b][j] # NL
         /\ \A m \in allocated \ {g_buff} : heap'[m] = heap[m]
         /\ Ownership(OwnerMap(circular_buf.entry, b, call), allocated')
  <1> DEFINE line == IF g_buff = NULL THEN <<>> ELSE heap[g_buff]
             grown == Append(line, byte)
  <1>1. /\ g_len < MaxLine /\ g_buff' = b /\ g_len' = g_len + 1
        /\ b \in (Addr \ allocated) \cup ({g_buff} \ {NULL})
        /\ allocated' = (allocated \ {g_buff}) \cup {b}
        /\ heap' = [m \in Addr |-> IF m = b THEN grown
                                   ELSE IF m = g_buff THEN <<>> ELSE heap[m]]
    BY DEF GrowTo
  <1>2. /\ heap \in [Addr -> Seq(Chars)] /\ allocated \subseteq Addr
        /\ g_buff \in Addr \cup {NULL} /\ g_len \in 0 .. MaxLine /\ MaxLine \in Nat
    BY DriverAssumption DEF TypeOK
  <1>3. Completed = circular_buf /\ Pending = g_buff
    BY DEF Adding, Completed, Pending
  <1>4. /\ line \in Seq(Chars) /\ Len(line) = g_len
        /\ \A j \in 1 .. g_len : line[j] # NL
    <2>1. CASE g_buff = NULL
      <3>1. g_len = 0
        BY <2>1 DEF StoreOK, DeviceOK
      <3> QED
        BY <2>1, <3>1
    <2>2. CASE g_buff # NULL
      <3>1. Len(heap[g_buff]) = g_len /\ \A j \in 1 .. g_len : heap[g_buff][j] # NL
        BY <1>3, <2>2 DEF StoreOK, PendingLine
      <3> QED
        BY <1>2, <2>2, <3>1
    <2> QED
      BY <2>1, <2>2
  <1> HIDE DEF line
  <1>5. /\ grown \in Seq(Chars) /\ Len(grown) = g_len + 1
        /\ grown[g_len + 1] = byte
        /\ \A j \in 1 .. g_len : grown[j] = line[j]
    BY <1>2, <1>4
  <1> HIDE DEF grown
  <1>6. /\ heap' \in [Addr -> Seq(Chars)] /\ heap'[b] = grown
        /\ \A m \in Addr : m # b /\ m # g_buff => heap'[m] = heap[m]
    BY <1>1, <1>2, <1>5
  <1>7. \A m \in allocated \ {g_buff} : heap'[m] = heap[m]
    BY <1>1, <1>2, <1>6
  <1>8. Ownership(OwnerMap(circular_buf.entry, b, call), allocated')
    <2>1. Ownership(OwnerMap(circular_buf.entry, g_buff, call), allocated)
      BY <1>3 DEF StoreOK, BlocksOwned
    <2>2. allocated \in SUBSET Addr /\ b \in Addr \ (allocated \ {g_buff})
      BY <1>1, <1>2
    <2> QED
      BY <1>1, <2>1, <2>2, PendingMoved
  <1>9. g_len' \in 0 .. MaxLine /\ allocated' \subseteq Addr
    BY <1>1, <1>2
  <1> QED
    BY <1>1, <1>4, <1>5, <1>6, <1>7, <1>8, <1>9

\* What a task knows that is about to store its next byte.
LEMMA WriterHasByte ==
  ASSUME Inv, NEW t \in Tasks, HasByte(t)
  PROVE  /\ call[t] \in Calls /\ CallOK(t) /\ call[t].pc = "w_byte"
         /\ mtx = t /\ ~Adding /\ loaded
         /\ Completed = circular_buf /\ Pending = g_buff
         /\ ThisByte(t) \in Chars
         /\ call[t].i + 1 \in Nat /\ call[t].i + 1 <= Len(call[t].arg.bytes)
         /\ \A u \in Tasks : call[u].wbuff # NULL =>
                               call[u].wbuff \in allocated \ {g_buff}
         /\ call[t].old_buff = NULL
  <1>1. /\ call[t] \in Calls /\ CallOK(t) /\ call[t].pc = "w_byte"
        /\ heap \in [Addr -> Seq(Chars)]
        /\ call[t].i < Len(heap[call[t].wbuff])
    BY DEF Inv, TypeOK, CallsOK, HasByte, At
  <1>2. mtx = t
    BY <1>1 DEF Inv, LockMatchesSections, Critical, Writing
  <1>3. ~Adding /\ Completed = circular_buf /\ Pending = g_buff
    BY <1>1, <1>2 DEF Adding, Completed, Pending, At
  <1>4. loaded
    BY <1>1 DEF Inv, CallOK, StoreOK, DeviceOK
  <1>5. /\ call[t].wbuff \in Addr /\ call[t].i \in Nat
        /\ call[t].arg \in [bytes : Writes]
        /\ heap[call[t].wbuff] = call[t].arg.bytes
    BY <1>1 DEF CallOK, Calls, InWrite, Writing
  <1>6. heap[call[t].wbuff] \in Seq(Chars)
    BY <1>1, <1>5
  <1>7. ThisByte(t) \in Chars /\ call[t].i + 1 \in Nat
    BY <1>1, <1>5, <1>6, SMTT(30) DEF ThisByte
  <1>8. call[t].i + 1 <= Len(call[t].arg.bytes)
    BY <1>1, <1>5, <1>6
  <1>9. Ownership(OwnerMap(Completed.entry, Pending, call), allocated)
    BY DEF Inv, StoreOK, BlocksOwned
  <1>10. \A u \in Tasks : call[u].wbuff # NULL =>
                            call[u].wbuff \in allocated \ {g_buff}
    BY <1>3, <1>9, BlocksApart
  <1>11. call[t].old_buff = NULL
    BY <1>1 DEF CallOK
  <1> QED
    BY <1>1, <1>2, <1>3, <1>4, <1>7, <1>8, <1>10, <1>11

LEMMA WriteCharInv ==
  ASSUME Inv, NEW t \in Tasks, WriteChar(t)
  PROVE  Inv'
  <1> DEFINE c == [call[t] EXCEPT !.i = @ + 1]
  <1>1. /\ HasByte(t) /\ ThisByte(t) # NL /\ Continue(t, c)
        /\ UNCHANGED <<loaded, circular_buf, lockVars, fileVars>>
    BY DEF WriteChar
  <1>2. PICK b \in Addr : GrowTo(b, ThisByte(t))
    BY DEF WriteChar
  <1>3. TypeOK /\ LockMatchesSections /\ CallsOK /\ FilesOK /\ StoreOK
    BY DEF Inv
  <1>4. /\ call[t] \in Calls /\ CallOK(t) /\ call[t].pc = "w_byte"
        /\ mtx = t /\ ~Adding /\ loaded
        /\ Completed = circular_buf /\ Pending = g_buff
        /\ ThisByte(t) \in Chars
        /\ call[t].i + 1 \in Nat /\ call[t].i + 1 <= Len(call[t].arg.bytes)
        /\ \A u \in Tasks : call[u].wbuff # NULL =>
                              call[u].wbuff \in allocated \ {g_buff}
    BY <1>1, WriterHasByte
  <1> DEFINE byte == ThisByte(t)
  <1>5. GrowTo(b, byte) /\ byte \in Chars /\ byte # NL
    BY <1>1, <1>2, <1>4
  <1> HIDE DEF byte
  <1>6. /\ g_buff' = b /\ g_len' = g_len + 1 /\ g_len' \in 0 .. MaxLine
        /\ allocated' \subseteq Addr
        /\ heap' \in [Addr -> Seq(Chars)]
        /\ Len(heap'[b]) = g_len + 1
        /\ heap'[b][g_len + 1] = byte
        /\ \A j \in 1 .. g_len : heap'[b][j] # NL
        /\ \A m \in allocated \ {g_buff} : heap'[m] = heap[m]
        /\ Ownership(OwnerMap(circular_buf.entry, b, call), allocated')
    BY <1>3, <1>4, <1>5, GrowToGrows
  <1>7. /\ c \in Calls
        /\ c.pc = "w_byte" /\ c.i = call[t].i + 1 /\ c.pos = call[t].pos
        /\ c.file = call[t].file /\ c.arg = call[t].arg
        /\ c.wbuff = call[t].wbuff /\ c.old_buff = call[t].old_buff
    BY <1>4 DEF Calls
  <1> HIDE DEF c
  <1>8. Moves(t) /\ call'[t] = c
    BY <1>1, <1>3, <1>7, ContinueMoves
  <1>9. call' \in [Tasks -> Calls] /\ \A u \in Tasks \ {t} : call'[u] = call[u]
    BY <1>3, <1>8, OthersStay
  <1>10. TypeOK'
    BY <1>1, <1>3, <1>6, <1>9 DEF TypeOK, lockVars, fileVars
  <1>11. LockMatchesSections'
    BY <1>1, <1>3, <1>4, <1>7, <1>8, LockKept DEF lockVars
  <1>12. ~Adding' /\ Completed' = circular_buf /\ Pending' = b
    <2>1. mtx' = t /\ call'[t].pc # "w_entry"
      BY <1>1, <1>4, <1>7, <1>8 DEF lockVars
    <2> QED
      BY <1>1, <1>6, <2>1 DEF Adding, Completed, Pending, At
  <1>13. BlocksOwned'
    <2>1. \A u \in Tasks : /\ call'[u].wbuff = call[u].wbuff
                           /\ call'[u].old_buff = call[u].old_buff
      BY <1>7, <1>8, <1>9
    <2>2. OwnerMap(circular_buf.entry, b, call')
            = OwnerMap(circular_buf.entry, b, call)
      BY <2>1, SameBlocks
    <2> QED
      BY <1>6, <1>12, <2>2 DEF BlocksOwned
  <1>14. SlotLines'
    <2>1. \A s \in Slots : circular_buf.entry[s].buffptr # NULL =>
            circular_buf.entry[s].buffptr \in allocated \ {g_buff}
      BY <1>3, <1>4, BlocksApart DEF StoreOK, BlocksOwned
    <2> QED
      BY <1>3, <1>4, <1>6, <1>12, <2>1 DEF StoreOK, SlotLines, HoldsLine
  <1>15. PendingLine'
    <2>1. \A j \in 1 .. g_len + 1 : j = g_len + 1 \/ j \in 1 .. g_len
      BY <1>3 DEF TypeOK
    <2>2. \A j \in 1 .. g_len + 1 : heap'[b][j] # NL
      BY <1>5, <1>6, <2>1
    <2> QED
      BY <1>6, <2>2 DEF PendingLine
  <1>16. CallsOK'
    <2>1. \A u \in Tasks : call[u].wbuff # NULL =>
            heap'[call[u].wbuff] = heap[call[u].wbuff]
      BY <1>4, <1>6
    <2>2. CallOK(t)'
      BY <1>1, <1>4, <1>7, <1>8, <2>1 DEF CallOK, InWrite, Writing, fileVars
    <2> QED
      BY <1>1, <1>3, <1>8, <2>1, <2>2, OthersOK DEF fileVars
  <1>17. RingConsistent'
    BY <1>1, <1>3, <1>4, <1>12 DEF StoreOK, RingConsistent
  <1>18. DeviceOK'
    <2>1. b # NULL
      BY DriverAssumption
    <2> QED
      BY <1>1, <1>3, <1>4, <1>6, <1>12, <2>1 DEF StoreOK, DeviceOK, fileVars
  <1>19. FilesOK'
    BY <1>1, <1>3 DEF FilesOK, fileVars
  <1> QED
    BY <1>10, <1>11, <1>13, <1>14, <1>15, <1>16, <1>17, <1>18, <1>19
       DEF Inv, StoreOK

LEMMA WriteNewlineInv ==
  ASSUME Inv, NEW t \in Tasks, WriteNewline(t)
  PROVE  Inv'
  <1> DEFINE c == [call[t] EXCEPT !.pc = "w_entry", !.i = @ + 1,
                                  !.old_buff = OldBuff(circular_buf)]
             in == circular_buf.in_offs
             e == [buffptr |-> g_buff', size |-> g_len']
             full_buf == AddEntry(circular_buf, e)
  <1>1. /\ HasByte(t) /\ ThisByte(t) = NL /\ Continue(t, c)
        /\ circular_buf' \in HalfAdded(circular_buf, e)
        /\ UNCHANGED <<loaded, lockVars, fileVars>>
    BY DEF WriteNewline, ThisEntry
  <1>2. PICK b \in Addr : GrowTo(b, NL)
    BY DEF WriteNewline
  <1>3. TypeOK /\ LockMatchesSections /\ CallsOK /\ FilesOK /\ StoreOK
    BY DEF Inv
  <1>4. /\ call[t] \in Calls /\ CallOK(t) /\ call[t].pc = "w_byte"
        /\ mtx = t /\ ~Adding /\ loaded
        /\ Completed = circular_buf /\ Pending = g_buff
        /\ call[t].i + 1 \in Nat /\ call[t].i + 1 <= Len(call[t].arg.bytes)
        /\ \A u \in Tasks : call[u].wbuff # NULL =>
                              call[u].wbuff \in allocated \ {g_buff}
        /\ call[t].old_buff = NULL
    BY <1>1, WriterHasByte
  <1>5. /\ g_buff' = b /\ g_len' = g_len + 1 /\ g_len' \in 0 .. MaxLine
        /\ allocated' \subseteq Addr
        /\ heap' \in [Addr -> Seq(Chars)]
        /\ Len(heap'[b]) = g_len + 1
        /\ heap'[b][g_len + 1] = NL
        /\ \A j \in 1 .. g_len : heap'[b][j] # NL
        /\ \A m \in allocated \ {g_buff} : heap'[m] = heap[m]
        /\ Ownership(OwnerMap(circular_buf.entry, b, call), allocated')
    BY <1>2, <1>3, <1>4, DriverAssumption, GrowToGrows
  <1>6. /\ circular_buf \in Buffers(Addr) /\ RingShape(circular_buf)
        /\ in \in Slots /\ circular_buf.entry \in [Slots -> Entries(Addr)]
        /\ circular_buf.full \in BOOLEAN /\ g_len \in Nat
    BY <1>3, <1>4 DEF TypeOK, StoreOK, RingConsistent, Buffers
  <1>7. /\ e \in Entries(Addr) /\ e.buffptr = b /\ e.size = g_len + 1
        /\ b # NULL /\ e.buffptr # NULL /\ e.size > 0
    BY <1>5, <1>6, DriverAssumption DEF Entries
  <1> HIDE DEF e
  <1>8. circular_buf' \in Buffers(Addr) /\ AddEntry(circular_buf', e) = full_buf
    BY <1>1, <1>6, <1>7, HalfAddedCompletes
  <1>9. /\ full_buf.entry = [circular_buf.entry EXCEPT ![in] = e]
        /\ RingShape(full_buf)
    BY <1>6, <1>7, AddEntryFields, AddEntryShape
  <1>10. OldBuff(circular_buf) = circular_buf.entry[in].buffptr
    <2>1. ~circular_buf.full => circular_buf.entry[in].buffptr = NULL
      BY <1>6 DEF RingShape, Slots
    <2> QED
      BY <2>1 DEF OldBuff
  <1> DEFINE old == OldBuff(circular_buf)
  <1>11. old \in Addr \cup {NULL}
    BY <1>6, <1>10 DEF Entries
  <1> HIDE DEF full_buf, in, old
  <1>12. /\ c \in Calls
         /\ c.pc = "w_entry" /\ c.i = call[t].i + 1 /\ c.pos = call[t].pos
         /\ c.file = call[t].file /\ c.arg = call[t].arg
         /\ c.wbuff = call[t].wbuff /\ c.old_buff = old
    <2>1. "w_entry" \in PCs
      BY DEF PCs, Critical, Writing
    <2>2. c = [call[t] EXCEPT !.pc = "w_entry", !.i = @ + 1, !.old_buff = old]
      BY DEF old
    <2> HIDE DEF c
    <2> QED
      BY <1>4, <1>11, <2>1, <2>2, ZenonT(60) DEF Calls
  <1> HIDE DEF c
  <1>13. Moves(t) /\ call'[t] = c
    BY <1>1, <1>3, <1>12, ContinueMoves
  <1>14. call' \in [Tasks -> Calls] /\ \A u \in Tasks \ {t} : call'[u] = call[u]
    BY <1>3, <1>13, OthersStay
  <1>15. TypeOK'
    BY <1>1, <1>3, <1>5, <1>8, <1>14 DEF TypeOK, lockVars, fileVars
  <1>16. LockMatchesSections'
    BY <1>1, <1>3, <1>4, <1>12, <1>13, LockKept DEF lockVars, Critical, Writing
  <1>17. Adding' /\ Completed' = full_buf /\ Pending' = NULL
    <2>1. mtx' = t /\ call'[t].pc = "w_entry" /\ t # NoTask
      BY <1>1, <1>4, <1>12, <1>13, DriverAssumption DEF lockVars
    <2>2. ThisEntry' = e
      BY DEF ThisEntry, e
    <2> QED
      BY <1>8, <2>1, <2>2 DEF Adding, Completed, Pending, At
  <1>18. /\ full_buf.entry[in] = e
         /\ \A r \in Slots \ {in} : full_buf.entry[r] = circular_buf.entry[r]
    BY <1>6, <1>9
  <1>19. BlocksOwned'
    <2>1. allocated' \in SUBSET Addr
      BY <1>5
    <2>2. Ownership(OwnerMap(full_buf.entry, NULL, call'), allocated')
      <3>1. Ownership(OwnerMap(circular_buf.entry, b, call), allocated')
        BY <1>5
      <3>2. t \in Tasks /\ in \in Slots /\ full_buf.entry[in].buffptr = b
        BY <1>6, <1>7, <1>18
      <3>3. \A r \in Slots \ {in} : full_buf.entry[r] = circular_buf.entry[r]
        BY <1>18
      <3>4. /\ call[t].old_buff = NULL
            /\ call'[t].old_buff = circular_buf.entry[in].buffptr
            /\ call'[t].wbuff = call[t].wbuff
        BY <1>4, <1>10, <1>12, <1>13 DEF old
      <3>5. \A u \in Tasks \ {t} : call'[u] = call[u]
        BY <1>14
      <3> QED
        BY ONLY <2>1, <3>1, <3>2, <3>3, <3>4, <3>5, SlotReplaced
    <2> QED
      BY <1>17, <2>2 DEF BlocksOwned
  <1>20. SlotLines'
    <2>1. \A s \in Slots : circular_buf.entry[s].buffptr # NULL =>
            /\ circular_buf.entry[s].buffptr \in allocated \ {g_buff}
            /\ HoldsLine(heap, circular_buf.entry[s])
      BY <1>3, <1>4, BlocksApart DEF StoreOK, BlocksOwned, SlotLines
    <2>2. HoldsLine(heap', e)
      <3>1. \A j \in 1 .. g_len + 1 : j = g_len + 1 \/ j \in 1 .. g_len
        BY <1>6
      <3>2. \A j \in 1 .. g_len : j # g_len + 1
        BY <1>6
      <3>3. \A j \in 1 .. g_len + 1 : heap'[b][j] = NL <=> j = g_len + 1
        BY <1>5, <3>1, <3>2
      <3> QED
        BY <1>5, <1>7, <3>3 DEF HoldsLine
    <2>3. ASSUME NEW s \in Slots, full_buf.entry[s].buffptr # NULL
          PROVE  HoldsLine(heap', full_buf.entry[s])
      <3>1. CASE s = in
        BY <1>18, <2>2, <3>1
      <3>2. CASE s # in
        <4>1. full_buf.entry[s] = circular_buf.entry[s]
          BY <1>18, <3>2
        <4> QED
          BY <1>5, <2>1, <2>3, <4>1 DEF HoldsLine
      <3> QED
        BY <3>1, <3>2
    <2> QED
      BY <1>17, <2>3 DEF SlotLines
  <1>21. PendingLine'
    BY <1>17 DEF PendingLine
  <1>22. CallsOK'
    <2>1. \A u \in Tasks : call[u].wbuff # NULL =>
            heap'[call[u].wbuff] = heap[call[u].wbuff]
      BY <1>4, <1>5
    <2>2. CallOK(t)'
      BY <1>1, <1>4, <1>12, <1>13, <2>1 DEF CallOK, InWrite, Writing, fileVars
    <2> QED
      BY <1>1, <1>3, <1>13, <2>1, <2>2, OthersOK DEF fileVars
  <1>23. RingConsistent'
    BY <1>9, <1>17 DEF RingConsistent
  <1>24. DeviceOK'
    BY <1>1, <1>4, <1>5, <1>7 DEF DeviceOK
  <1>25. FilesOK'
    BY <1>1, <1>3 DEF FilesOK, fileVars
  <1> QED
    BY <1>15, <1>16, <1>19, <1>20, <1>21, <1>22, <1>23, <1>24, <1>25
       DEF Inv, StoreOK

LEMMA WriteEntryInv ==
  ASSUME Inv, NEW t \in Tasks, WriteEntry(t)
  PROVE  Inv'
  <1> DEFINE c == [call[t] EXCEPT !.pc = "w_byte", !.old_buff = NULL]
             p == call[t].old_buff
  <1>1. /\ TypeOK /\ LockMatchesSections /\ CallsOK /\ FilesOK /\ StoreOK
        /\ call[t] \in Calls /\ CallOK(t) /\ call[t].pc = "w_entry"
    BY DEF Inv, TypeOK, CallsOK, WriteEntry, At
  <1>2. /\ circular_buf' = AddEntry(circular_buf, ThisEntry)
        /\ kfree(p) /\ g_buff' = NULL /\ g_len' = 0 /\ Continue(t, c)
        /\ UNCHANGED <<loaded, lockVars, fileVars>>
    BY DEF WriteEntry
  <1>3. mtx = t /\ t # NoTask
    BY <1>1, DriverAssumption DEF LockMatchesSections, Critical, Writing
  <1>4. Adding /\ Completed = AddEntry(circular_buf, ThisEntry) /\ Pending = NULL
    BY <1>1, <1>3 DEF Adding, Completed, Pending, At
  <1>5. loaded /\ g_buff # NULL
    BY <1>1, <1>4 DEF CallOK, StoreOK, DeviceOK
  <1>6. circular_buf' \in Buffers(Addr)
    <2>1. circular_buf \in Buffers(Addr) /\ ThisEntry \in Entries(Addr)
      BY <1>1 DEF TypeOK, ThisEntry, Entries
    <2> QED
      BY <1>2, <2>1, AddEntryFields
  <1>7. p \in Addr \cup {NULL}
    BY <1>1 DEF Calls
  <1>8. /\ allocated' = allocated \ {p}
        /\ allocated' \subseteq Addr
        /\ heap' \in [Addr -> Seq(Chars)]
        /\ \A m \in Addr \ {p} : heap'[m] = heap[m]
    BY <1>1, <1>2, <1>7, kfreeFrees
  <1>9. /\ c \in Calls
        /\ c.pc = "w_byte" /\ c.i = call[t].i /\ c.pos = call[t].pos
        /\ c.file = call[t].file /\ c.arg = call[t].arg
        /\ c.wbuff = call[t].wbuff /\ c.old_buff = NULL
    <2>1. "w_byte" \in PCs
      BY DEF PCs, Critical, Writing
    <2> QED
      BY <1>1, <2>1 DEF Calls
  <1> HIDE DEF c
  <1>10. Moves(t) /\ call'[t] = c
    BY <1>1, <1>2, <1>9, ContinueMoves
  <1>11. call' \in [Tasks -> Calls] /\ \A u \in Tasks \ {t} : call'[u] = call[u]
    BY <1>1, <1>10, OthersStay
  <1>12. TypeOK'
    <2>1. g_buff' \in Addr \cup {NULL} /\ g_len' \in 0 .. MaxLine
      BY <1>2, DriverAssumption
    <2> QED
      BY <1>1, <1>2, <1>6, <1>8, <1>11, <2>1 DEF TypeOK, lockVars, fileVars
  <1>13. LockMatchesSections'
    BY <1>1, <1>2, <1>9, <1>10, LockKept DEF lockVars, Critical, Writing
  <1>14. ~Adding' /\ Completed' = Completed /\ Pending' = Pending
    <2>1. mtx' = t /\ call'[t].pc # "w_entry"
      BY <1>2, <1>3, <1>9, <1>10 DEF lockVars
    <2>2. ~Adding' /\ Completed' = circular_buf' /\ Pending' = NULL
      BY <1>2, <2>1 DEF Adding, Completed, Pending, At
    <2> QED
      BY <1>2, <1>4, <2>2
  <1>15. Ownership(OwnerMap(Completed.entry, Pending, call), allocated)
    BY <1>1 DEF StoreOK, BlocksOwned
  <1>16. BlocksOwned'
    <2>1. allocated \in SUBSET Addr
      BY <1>1 DEF TypeOK
    <2>2. Ownership(OwnerMap(Completed.entry, Pending, call'), allocated \ {p})
      BY <1>9, <1>10, <1>11, <1>15, <2>1, OldBuffFreed
    <2> QED
      BY <1>8, <1>14, <2>2 DEF BlocksOwned
  <1>17. /\ \A s \in Slots : Completed.entry[s].buffptr # NULL =>
              /\ Completed.entry[s].buffptr \in allocated
              /\ Completed.entry[s].buffptr # p
         /\ \A u \in Tasks : call[u].wbuff # NULL =>
              call[u].wbuff \in allocated /\ call[u].wbuff # p
    BY <1>15, BlocksApart
  <1>18. allocated \subseteq Addr
    BY <1>1 DEF TypeOK
  <1> HIDE DEF p
  <1>19. SlotLines'
    BY <1>1, <1>8, <1>14, <1>17, <1>18 DEF StoreOK, SlotLines, HoldsLine
  <1>20. PendingLine'
    BY <1>4, <1>14 DEF PendingLine
  <1>21. CallsOK'
    <2>1. \A u \in Tasks : call[u].wbuff # NULL =>
            heap'[call[u].wbuff] = heap[call[u].wbuff]
      BY <1>8, <1>17, <1>18
    <2>2. CallOK(t)'
      BY <1>1, <1>2, <1>9, <1>10, <2>1 DEF CallOK, InWrite, Writing, fileVars
    <2> QED
      BY <1>1, <1>2, <1>10, <2>1, <2>2, OthersOK DEF fileVars
  <1>22. RingConsistent'
    BY <1>1, <1>2, <1>14 DEF StoreOK, RingConsistent
  <1>23. DeviceOK'
    BY <1>2, <1>5, <1>14 DEF DeviceOK
  <1>24. FilesOK'
    BY <1>1, <1>2 DEF FilesOK, fileVars
  <1> QED
    BY <1>12, <1>13, <1>16, <1>19, <1>20, <1>21, <1>22, <1>23, <1>24
       DEF Inv, StoreOK

(***************************************************************************)
(* The module, its files, and what else no call does.                      *)
(***************************************************************************)

\* A step that no call takes and that leaves the device alone.
LEMMA FileStep ==
  ASSUME Inv, UNCHANGED <<memVars, devVars, mtx, call>>,
         oops' \in BOOLEAN, f_pos' \in [Files -> Int], FilesOK',
         opened' \subseteq Files, opened' # {} => loaded,
         \A t \in Tasks : call[t].pc # "idle" => call[t].file \in opened'
  PROVE  Inv'
  <1>1. /\ TypeOK /\ LockMatchesSections /\ CallsOK /\ StoreOK
        /\ heap' = heap /\ mtx' = mtx /\ call' = call
    BY DEF Inv, memVars
  <1>2. TypeOK'
    BY <1>1 DEF TypeOK, memVars, devVars
  <1>3. LockMatchesSections'
    BY <1>1 DEF LockMatchesSections
  <1>4. CallsOK'
    BY <1>1 DEF CallsOK, CallOK
  <1>5. Adding' <=> Adding
    BY <1>1 DEF Adding, At
  <1>6. OwnerMap(Completed.entry, Pending, call')
          = OwnerMap(Completed.entry, Pending, call)
    BY <1>1
  <1>7. StoreOK'
    BY <1>1, <1>5, <1>6, StoreFrame
  <1> QED
    BY <1>2, <1>3, <1>4, <1>7 DEF Inv

LEMMA aesd_openInv ==
  ASSUME Inv, NEW f \in Files, aesd_open(f)
  PROVE  Inv'
  <1>1. f_pos' \in [Files -> Int] /\ FilesOK'
    BY DEF Inv, TypeOK, FilesOK, aesd_open
  <1>2. opened' = opened \cup {f} /\ opened' \subseteq Files /\ loaded
    BY DEF Inv, TypeOK, aesd_open
  <1>3. \A t \in Tasks : call[t].pc # "idle" => call[t].file \in opened'
    BY <1>2 DEF Inv, CallsOK, CallOK
  <1>4. UNCHANGED <<memVars, devVars, mtx, call>> /\ oops' \in BOOLEAN
    BY DEF Inv, TypeOK, aesd_open, lockVars
  <1> QED
    BY <1>1, <1>2, <1>3, <1>4, FileStep

LEMMA aesd_releaseInv ==
  ASSUME Inv, NEW f \in Files, aesd_release(f)
  PROVE  Inv'
  <1>1. f_pos' \in [Files -> Int] /\ FilesOK'
    BY DEF Inv, TypeOK, FilesOK, aesd_release
  <1>2. /\ opened' = opened \ {f} /\ opened' \subseteq Files
        /\ opened' # {} => loaded
    BY DEF Inv, TypeOK, aesd_release, StoreOK, DeviceOK
  <1>3. \A t \in Tasks : call[t].pc # "idle" => call[t].file \in opened'
    BY <1>2 DEF Inv, CallsOK, CallOK, aesd_release
  <1>4. UNCHANGED <<memVars, devVars, mtx, call>> /\ oops' \in BOOLEAN
    BY DEF Inv, TypeOK, aesd_release, lockVars
  <1> QED
    BY <1>1, <1>2, <1>3, <1>4, FileStep

\* The same files as before, so the same is true of them.
LEMMA SameFiles ==
  ASSUME Inv, UNCHANGED <<memVars, devVars, mtx, fileVars, call>>,
         oops' \in BOOLEAN
  PROVE  Inv'
  <1>1. f_pos' \in [Files -> Int] /\ FilesOK'
    BY DEF Inv, TypeOK, FilesOK, fileVars
  <1>2. /\ opened' \subseteq Files
        /\ opened' # {} => loaded
    BY DEF Inv, TypeOK, StoreOK, DeviceOK, fileVars
  <1>3. \A t \in Tasks : call[t].pc # "idle" => call[t].file \in opened'
    BY DEF Inv, CallsOK, CallOK, fileVars
  <1> QED
    BY <1>1, <1>2, <1>3, FileStep

\* While no file is open no task is in the driver, and the mutex is free.
LEMMA NobodyInside ==
  ASSUME Inv, opened = {}
  PROVE  /\ mtx = NoTask
         /\ \A t \in Tasks : /\ call[t].pc = "idle"
                             /\ call[t].wbuff = NULL
                             /\ call[t].old_buff = NULL
         /\ Completed = circular_buf /\ Pending = g_buff
  <1>1. \A t \in Tasks : /\ call[t].pc = "idle"
                         /\ call[t].wbuff = NULL
                         /\ call[t].old_buff = NULL
    BY DEF Inv, CallsOK, CallOK, InWrite, Writing
  <1>2. mtx = NoTask
    BY <1>1 DEF Inv, TypeOK, LockMatchesSections, Critical, Writing
  <1> QED
    BY <1>1, <1>2 DEF Completed, Pending

\* The blocks of a device that holds nothing, when nobody is inside.
LEMMA NothingOwned ==
  ASSUME NEW entry, NEW c,
         \A s \in Slots : entry[s].buffptr = NULL,
         \A t \in Tasks : c[t].wbuff = NULL /\ c[t].old_buff = NULL
  PROVE  /\ \A o \in Owners : OwnerMap(entry, NULL, c)[o] = NULL
         /\ Ownership(OwnerMap(entry, NULL, c), {})
  <1> DEFINE own == OwnerMap(entry, NULL, c)
  <1>1. Holds(own, entry, NULL, c)
    BY OwnerMapHolds
  <1> HIDE DEF own
  <1>2. \A o \in Owners : own[o] = NULL
    <2>1. \A s \in Slots : own[<<"slot", s>>] = NULL
      BY <1>1 DEF Holds
    <2>2. own[<<"g_buff", NULL>>] = NULL
      BY <1>1 DEF Holds
    <2>3. \A t \in Tasks : own[<<"wbuff", t>>] = NULL
      BY <1>1 DEF Holds
    <2>4. \A t \in Tasks : own[<<"old_buff", t>>] = NULL
      BY <1>1 DEF Holds
    <2> QED
      BY <2>1, <2>2, <2>3, <2>4, OwnerKinds, Zenon
  <1>3. own = [o \in Owners |-> own[o]]
    BY <1>1, Zenon DEF Holds
  <1>4. own \in [Owners -> Addr \cup {NULL}]
    BY <1>2, <1>3
  <1>5. Ownership(own, {})
    BY <1>2, <1>4 DEF Ownership
  <1> QED
    BY <1>2, <1>5 DEF own

\* The module before insmod or after rmmod, or fresh: it holds nothing, and
\* nobody is inside.
NothingHeld ==
  /\ loaded => RingShape(circular_buf) /\ g_len = 0
  /\ g_buff = NULL
  /\ \A s \in Slots : circular_buf.entry[s].buffptr = NULL
  /\ \A t \in Tasks : call[t].wbuff = NULL /\ call[t].old_buff = NULL
  /\ mtx = NoTask
  /\ allocated = {}
  /\ opened # {} => loaded

LEMMA EmptyStore == NothingHeld => StoreOK
  <1> SUFFICES ASSUME NothingHeld
               PROVE  StoreOK
    OBVIOUS
  <1>1. Completed = circular_buf /\ Pending = NULL /\ ~Adding
    BY DEF NothingHeld, Completed, Pending, Adding
  <1>2. BlocksOwned
    BY <1>1, NothingOwned DEF NothingHeld, BlocksOwned
  <1>3. RingConsistent
    BY <1>1 DEF NothingHeld, RingConsistent
  <1>4. SlotLines /\ PendingLine
    BY <1>1 DEF NothingHeld, SlotLines, PendingLine
  <1>5. DeviceOK
    BY <1>1 DEF NothingHeld, DeviceOK
  <1> QED
    BY <1>2, <1>3, <1>4, <1>5 DEF StoreOK

\* At insmod the device owned nothing, so nothing is lost.
LEMMA aesd_init_moduleInv ==
  ASSUME Inv, aesd_init_module
  PROVE  Inv'
  <1>1. /\ ~loaded /\ loaded' = TRUE /\ circular_buf' = EmptyBuffer
        /\ g_buff' = NULL /\ g_len' = 0
        /\ heap' = heap /\ allocated' = allocated
        /\ mtx' = mtx /\ oops' = oops
        /\ opened' = opened /\ f_pos' = f_pos /\ call' = call
    BY DEF aesd_init_module, memVars, lockVars, fileVars
  <1>2. /\ TypeOK /\ LockMatchesSections /\ CallsOK /\ FilesOK /\ StoreOK
        /\ opened = {}
    BY <1>1 DEF Inv, StoreOK, DeviceOK
  <1>3. /\ mtx = NoTask
        /\ \A t \in Tasks : /\ call[t].pc = "idle"
                            /\ call[t].wbuff = NULL
                            /\ call[t].old_buff = NULL
        /\ Completed = circular_buf /\ Pending = g_buff
    BY <1>2, NobodyInside
  <1>4. allocated = {}
    <2>1. /\ g_buff = NULL
          /\ \A s \in Slots : Completed.entry[s].buffptr = NULL
      BY <1>1, <1>2, <1>3 DEF StoreOK, DeviceOK
    <2>2. \A o \in Owners : OwnerMap(Completed.entry, NULL, call)[o] = NULL
      BY <1>3, <2>1, NothingOwned
    <2>3. \A m \in allocated :
            \E o \in Owners : OwnerMap(Completed.entry, NULL, call)[o] = m
      BY <1>2, <1>3, <2>1 DEF StoreOK, BlocksOwned, Ownership
    <2>4. allocated \subseteq Addr /\ NULL \notin Addr
      BY <1>2, DriverAssumption DEF TypeOK
    <2> QED
      BY <2>2, <2>3, <2>4
  <1>5. StoreOK'
    <2>1. NothingHeld'
      BY <1>1, <1>2, <1>3, <1>4, EmptyBufferShape DEF NothingHeld
    <2>2. (NothingHeld => StoreOK)'
      BY EmptyStore, PTL
    <2> QED
      BY <2>1, <2>2
  <1>6. TypeOK'
    BY <1>1, <1>2, EmptyBufferShape, DriverAssumption DEF TypeOK
  <1>7. LockMatchesSections'
    BY <1>1, <1>2 DEF LockMatchesSections
  <1>8. CallsOK'
    BY <1>1, <1>2 DEF CallsOK, CallOK
  <1>9. FilesOK'
    BY <1>1, <1>2 DEF FilesOK
  <1> QED
    BY <1>5, <1>6, <1>7, <1>8, <1>9 DEF Inv

\* rmmod frees every block: with nobody inside they are those of the slots and
\* of g_buff.
LEMMA aesd_cleanup_moduleInv ==
  ASSUME Inv, aesd_cleanup_module
  PROVE  Inv'
  <1> DEFINE freed == {g_buff} \cup {circular_buf.entry[s].buffptr : s \in Slots}
             entry == [s \in Slots |-> [circular_buf.entry[s] EXCEPT !.buffptr = NULL]]
  <1>1. /\ loaded /\ opened = {} /\ loaded' = FALSE
        /\ allocated' = allocated \ freed
        /\ heap' = [a \in Addr |-> IF a \in freed THEN <<>> ELSE heap[a]]
        /\ circular_buf' = [circular_buf EXCEPT !.entry = entry]
        /\ g_buff' = NULL /\ g_len' = g_len
        /\ mtx' = mtx /\ oops' = oops
        /\ opened' = opened /\ f_pos' = f_pos /\ call' = call
    BY DEF aesd_cleanup_module, lockVars, fileVars
  <1>2. /\ TypeOK /\ LockMatchesSections /\ CallsOK /\ FilesOK /\ StoreOK
    BY DEF Inv
  <1>3. /\ mtx = NoTask
        /\ \A t \in Tasks : /\ call[t].pc = "idle"
                            /\ call[t].wbuff = NULL
                            /\ call[t].old_buff = NULL
        /\ Completed = circular_buf /\ Pending = g_buff
    BY <1>1, <1>2, NobodyInside
  <1>4. /\ circular_buf' \in Buffers(Addr)
        /\ \A s \in Slots : circular_buf'.entry[s].buffptr = NULL
    <2>1. circular_buf.entry \in [Slots -> Entries(Addr)]
      BY <1>2 DEF TypeOK, Buffers
    <2>2. \A s \in Slots : entry[s] \in Entries(Addr) /\ entry[s].buffptr = NULL
      BY <2>1 DEF Entries
    <2>3. entry = [s \in Slots |-> entry[s]]
      OBVIOUS
    <2> HIDE DEF entry
    <2>4. entry \in [Slots -> Entries(Addr)]
      BY <2>2, <2>3
    <2>5. circular_buf \in Buffers(Addr)
      BY <1>2 DEF TypeOK
    <2> QED
      BY <1>1, <2>2, <2>4, <2>5 DEF Buffers
  <1>5. allocated' = {}
    <2> DEFINE own == OwnerMap(circular_buf.entry, g_buff, call)
    <2>1. \A m \in allocated : \E o \in Owners : own[o] = m
      BY <1>2, <1>3 DEF StoreOK, BlocksOwned, Ownership
    <2>2. Holds(own, circular_buf.entry, g_buff, call)
      BY OwnerMapHolds
    <2>3. allocated \subseteq Addr /\ NULL \notin Addr
      BY <1>2, DriverAssumption DEF TypeOK
    <2> HIDE DEF own
    <2>4. /\ \A s \in Slots : own[<<"slot", s>>] \in freed
          /\ own[<<"g_buff", NULL>>] \in freed
          /\ \A t \in Tasks : /\ own[<<"wbuff", t>>] = NULL
                              /\ own[<<"old_buff", t>>] = NULL
      BY <1>3, <2>2 DEF Holds
    <2> HIDE DEF freed
    <2>5. \A o \in Owners : own[o] \in freed \/ own[o] = NULL
      BY <2>4, OwnerKinds, Zenon
    <2> QED
      BY <1>1, <2>1, <2>3, <2>5
  <1>6. heap' \in [Addr -> Seq(Chars)]
    <2>1. heap \in [Addr -> Seq(Chars)] /\ <<>> \in Seq(Chars)
      BY <1>2 DEF TypeOK
    <2> HIDE DEF freed
    <2> QED
      BY <1>1, <2>1
  <1> HIDE DEF freed, entry
  <1>7. StoreOK'
    <2>1. NothingHeld'
      BY <1>1, <1>3, <1>4, <1>5 DEF NothingHeld
    <2>2. (NothingHeld => StoreOK)'
      BY EmptyStore, PTL
    <2> QED
      BY <2>1, <2>2
  <1>8. TypeOK'
    BY <1>1, <1>2, <1>4, <1>5, <1>6 DEF TypeOK
  <1>9. LockMatchesSections'
    BY <1>1, <1>2 DEF LockMatchesSections
  <1>10. CallsOK'
    BY <1>1, <1>2, <1>3 DEF CallsOK, CallOK, InWrite, Writing
  <1>11. FilesOK'
    BY <1>1, <1>2 DEF FilesOK
  <1> QED
    BY <1>7, <1>8, <1>9, <1>10, <1>11 DEF Inv

(***************************************************************************)
(* The invariant holds, and the properties follow.                         *)
(***************************************************************************)

LEMMA InitInv == Init => Inv
  <1> SUFFICES ASSUME Init
               PROVE  Inv
    OBVIOUS
  <1>1. \A t \in Tasks : call[t] = NoCall
    BY DEF Init
  <1>2. NoCall.pc = "idle" /\ NoCall.wbuff = NULL /\ NoCall.old_buff = NULL
        /\ NoCall.pos = 0
    BY DEF NoCall, NewCall
  <1>3. TypeOK
    <2>1. call \in [Tasks -> Calls]
      BY NoCallIsCall DEF Init
    <2>2. heap \in [Addr -> Seq(Chars)]
      BY DEF Init
    <2>3. f_pos \in [Files -> Int]
      BY DEF Init
    <2>4. circular_buf \in Buffers(Addr) /\ g_len \in 0 .. MaxLine
      BY EmptyBufferShape, DriverAssumption DEF Init
    <2>5. /\ loaded \in BOOLEAN /\ g_buff \in Addr \cup {NULL}
          /\ allocated \subseteq Addr /\ mtx \in Tasks \cup {NoTask}
          /\ oops \in BOOLEAN /\ opened \subseteq Files
      BY DEF Init
    <2> QED
      BY <2>1, <2>2, <2>3, <2>4, <2>5 DEF TypeOK
  <1>4. LockMatchesSections
    BY <1>1, <1>2, DriverAssumption
       DEF Init, LockMatchesSections, Critical, Writing
  <1>5. CallsOK
    BY <1>1, <1>2 DEF CallsOK, CallOK, InWrite, Writing
  <1>6. FilesOK
    BY DEF Init, FilesOK
  <1>7. StoreOK
    <2>1. NothingHeld
      BY <1>1, <1>2, EmptyBufferShape DEF Init, NothingHeld
    <2> QED
      BY <2>1, EmptyStore
  <1> QED
    BY <1>3, <1>4, <1>5, <1>6, <1>7 DEF Inv

\* One step per action.
LEMMA StepInv ==
  ASSUME Inv, NEW t \in Tasks, Step(t)
  PROVE  Inv'
  <1>1. CASE WriteChar(t)
    BY <1>1, WriteCharInv
  <1>2. CASE WriteNewline(t)
    BY <1>2, WriteNewlineInv
  <1>3. CASE WriteEntry(t)
    BY <1>3, WriteEntryInv
  <1>4. CASE WriteNoMem(t)
    BY <1>4, WriteNoMemInv
  <1>5. CASE WriteEnd(t)
    BY <1>5, WriteEndInv
  <1>6. CASE ReadCopy(t)
    BY <1>6, ReadCopyInv
  <1>7. CASE ReadFault(t)
    BY <1>7, ReadFaultInv
  <1>8. CASE CallDone(t)
    BY <1>8, CallDoneInv
  <1>9. CASE LseekSize(t)
    BY <1>9, LseekSizeInv
  <1>10. CASE LseekCheck(t)
    BY <1>10, LseekCheckInv
  <1>11. CASE LseekStore(t)
    BY <1>11, LseekStoreInv
  <1>12. CASE IoctlCount(t)
    BY <1>12, IoctlCountInv
  <1>13. CASE IoctlCheck(t)
    BY <1>13, IoctlCheckInv
  <1>14. CASE IoctlSeek(t)
    BY <1>14, IoctlSeekInv
  <1>15. CASE IoctlStore(t)
    BY <1>15, IoctlStoreInv
  <1> QED
    BY <1>1, <1>2, <1>3, <1>4, <1>5, <1>6, <1>7, <1>8, <1>9, <1>10, <1>11,
       <1>12, <1>13, <1>14, <1>15 DEF Step

LEMMA NextInv == Inv /\ [Next]_vars => Inv'
  <1> SUFFICES ASSUME Inv, [Next]_vars
               PROVE  Inv'
    OBVIOUS
  <1>1. CASE aesd_init_module
    BY <1>1, aesd_init_moduleInv
  <1>2. CASE aesd_cleanup_module
    BY <1>2, aesd_cleanup_moduleInv
  <1>3. ASSUME NEW f \in Files, aesd_open(f)
        PROVE  Inv'
    BY <1>3, aesd_openInv
  <1>4. ASSUME NEW f \in Files, aesd_release(f)
        PROVE  Inv'
    BY <1>4, aesd_releaseInv
  <1>5. ASSUME NEW t \in Tasks, NEW f \in Files, Begin(t, f)
        PROVE  Inv'
    <2>1. ASSUME NEW bytes \in Writes, WriteBegin(t, f, bytes)
          PROVE  Inv'
      BY <2>1, WriteBeginInv
    <2>2. ASSUME NEW count \in Counts, ReadBegin(t, f, count)
          PROVE  Inv'
      BY <2>2, ReadBeginInv
    <2>3. ASSUME NEW x \in LseekArgs, LseekBegin(t, f, x)
          PROVE  Inv'
      BY <2>3, LseekBeginInv
    <2>4. ASSUME NEW x \in SeekTos, IoctlBegin(t, f, x)
          PROVE  Inv'
      BY <2>4, IoctlBeginInv
    <2> QED
      BY <1>5, <2>1, <2>2, <2>3, <2>4 DEF Begin
  <1>6. ASSUME NEW t \in Tasks, Lock(t)
        PROVE  Inv'
    BY <1>6, LockInv
  <1>7. ASSUME NEW t \in Tasks, Interrupted(t)
        PROVE  Inv'
    BY <1>7, InterruptedInv
  <1>8. ASSUME NEW t \in Tasks, LockOops(t)
        PROVE  Inv'
    BY <1>8, SameFiles DEF LockOops
  <1>9. ASSUME NEW t \in Tasks, Step(t)
        PROVE  Inv'
    BY <1>9, StepInv
  <1>10. CASE UNCHANGED vars
    <2>1. /\ UNCHANGED <<memVars, devVars, mtx, fileVars, call>>
          /\ oops' = oops
      BY <1>10 DEF vars, lockVars
    <2>2. oops' \in BOOLEAN
      BY <2>1 DEF Inv, TypeOK
    <2> QED
      BY <2>1, <2>2, SameFiles
  <1> QED
    BY <1>1, <1>2, <1>3, <1>4, <1>5, <1>6, <1>7, <1>8, <1>9, <1>10 DEF Next

LEMMA InvHolds == Spec => []Inv
  BY InitInv, NextInv, PTL DEF Spec

\* The buffer is one at every step of add_entry.
LEMMA CompletedIsBuffer ==
  ASSUME TypeOK
  PROVE  Completed \in Buffers(Addr)
  <1>1. circular_buf \in Buffers(Addr) /\ ThisEntry \in Entries(Addr)
    BY DEF TypeOK, ThisEntry, Entries
  <1>2. AddEntry(circular_buf, ThisEntry) \in Buffers(Addr)
    BY <1>1, AddEntryFields
  <1> QED
    BY <1>1, <1>2 DEF Completed

\* The commands in the window hold one line each, for the used slots do.
LEMMA InvLines == Inv => LinesWellFormed
  <1> SUFFICES ASSUME Inv, loaded
               PROVE  /\ \A k \in 1 .. Count(Completed) :
                           HoldsLine(heap, OldestFirst(Completed)[k])
                      /\ PendingLine
    BY DEF LinesWellFormed, HoldsLine, PendingLine
  <1>1. RingShape(Completed) /\ SlotLines /\ PendingLine
    BY DEF Inv, StoreOK, RingConsistent
  <1> DEFINE b == Completed
  <1>2. b \in Buffers(Addr)
    BY CompletedIsBuffer DEF Inv
  <1>3. \A s \in Slots : b.entry[s].buffptr # NULL => HoldsLine(heap, b.entry[s])
    BY <1>1 DEF SlotLines
  <1>4. RingShape(b)
    BY <1>1
  <1> HIDE DEF b
  <1>5. ASSUME NEW k \in 1 .. Count(b)
        PROVE  HoldsLine(heap, OldestFirst(b)[k])
    BY <1>2, <1>3, <1>4, WindowSlots
  <1> QED
    BY <1>1, <1>5 DEF b

\* A step of one task is none of another, and leaves the call alone or goes on
\* with it.
LEMMA StepMoves ==
  ASSUME NEW u \in Tasks, Step(u)
  PROVE  \E c : Continue(u, c)
  <1>1. CASE CallDone(u) \/ LseekStore(u) \/ IoctlStore(u)
    BY <1>1 DEF CallDone, LseekStore, IoctlStore, StorePosition, Return
  <1>2. CASE LseekSize(u) \/ IoctlCount(u) \/ IoctlSeek(u)
    BY <1>2 DEF LseekSize, IoctlCount, IoctlSeek, Walk
  <1>3. CASE LseekCheck(u) \/ IoctlCheck(u)
    BY <1>3 DEF LseekCheck, IoctlCheck
  <1>4. CASE WriteChar(u) \/ WriteNewline(u) \/ WriteEntry(u)
    BY <1>4 DEF WriteChar, WriteNewline, WriteEntry
  <1>5. CASE WriteNoMem(u) \/ WriteEnd(u) \/ ReadCopy(u) \/ ReadFault(u)
    BY <1>5 DEF WriteNoMem, WriteEnd, ReadCopy, ReadFault, Return
  <1> QED
    BY <1>1, <1>2, <1>3, <1>4, <1>5 DEF Step

\* Only the step that stores the position ends an llseek that was accepted.
LEMMA EndsInStore ==
  ASSUME TypeOK, Next, NEW t \in Tasks, At(t, "l_store") \/ At(t, "i_store"),
         At(t, "idle")'
  PROVE  LseekStore(t) \/ IoctlStore(t)
  <1>1. call'[t] # call[t]
    BY DEF At
  <1>2. ASSUME NEW u \in Tasks, NEW c, Continue(u, c)
        PROVE  u = t
    BY <1>1, <1>2 DEF Continue, TypeOK
  <1>3. PICK u \in Tasks : \/ \E f \in Files : Begin(u, f)
                           \/ Lock(u) \/ Interrupted(u) \/ Step(u)
    BY <1>1 DEF Next, aesd_init_module, aesd_cleanup_module, aesd_open,
                aesd_release, LockOops
  <1>4. ASSUME NEW f \in Files
        PROVE  ~Begin(u, f)
    <2>1. ASSUME NEW c
          PROVE  ~Enter(u, c)
      BY <1>2 DEF Enter, At
    <2> QED
      BY <2>1 DEF Begin, WriteBegin, ReadBegin, LseekBegin, IoctlBegin
  <1>5. ~Lock(u)
    BY <1>2 DEF Lock, At, Waiting
  <1>6. ~Interrupted(u)
    BY <1>2 DEF Interrupted, Return, At, Waiting
  <1>7. Step(u)
    BY <1>3, <1>4, <1>5, <1>6
  <1>8. Step(t)
    BY <1>2, <1>7, StepMoves
  <1>9. call[t].pc = "l_store" \/ call[t].pc = "i_store"
    BY DEF At
  <1>10. \/ CallDone(t) \/ LseekStore(t) \/ IoctlStore(t)
         \/ LseekSize(t) \/ IoctlCount(t) \/ IoctlSeek(t)
         \/ LseekCheck(t) \/ IoctlCheck(t)
    BY <1>8, <1>9 DEF Step, WriteChar, WriteNewline, WriteEntry, WriteNoMem,
                      WriteEnd, ReadCopy, ReadFault, HasByte, At
  <1> QED
    BY <1>9, <1>10 DEF CallDone, LseekSize, IoctlCount, IoctlSeek,
                       LseekCheck, IoctlCheck, At

LEMMA InvLseek ==
  ASSUME Inv, [Next]_vars, NEW t \in Tasks, At(t, "l_store"), At(t, "idle")'
  PROVE  f_pos'[call[t].file] \in 0 .. call[t].acc
  <1>1. call'[t] # call[t]
    BY DEF At
  <1>2. LseekStore(t)
    BY <1>1, EndsInStore DEF Inv, vars, IoctlStore, At
  <1>3. call[t] \in Calls /\ CallOK(t)
    BY DEF Inv, TypeOK, CallsOK
  <1>4. call[t].file \in Files /\ f_pos \in [Files -> Int]
    BY <1>3 DEF Inv, TypeOK, CallOK, At
  <1>5. f_pos'[call[t].file] = call[t].pos
    BY <1>2, <1>4 DEF LseekStore, StorePosition
  <1>6. call[t].pos \in 0 .. call[t].acc
    BY <1>3 DEF Calls, CallOK, At
  <1> QED
    BY <1>5, <1>6

\* Every state of the driver has the types declared for it: the indices stay
\* inside the array, a position is an integer, a block holds bytes.
THEOREM DriverTypeCorrect == Spec => []TypeOK
  BY InvHolds, PTL DEF Inv

\* The mutex is held exactly in the critical sections of read and write, for
\* any number of tasks.
THEOREM DriverLocksSections == Spec => []LockMatchesSections
  BY InvHolds, PTL DEF Inv

\* The driver leaks no block, frees none twice and keeps no pointer to a freed
\* one, on any path and for any number of slots, blocks and callers.
THEOREM DriverOwnsMemory == Spec => []MemoryOwned
  <1>1. Inv => MemoryOwned
    BY BlocksOwnedIsMemoryOwned DEF Inv, StoreOK
  <1> QED
    BY <1>1, InvHolds, PTL

\* Concurrent callers leave the circular buffer in one of its proper shapes.
THEOREM DriverRingConsistent == Spec => []RingConsistent
  <1>1. Inv => RingConsistent
    BY DEF Inv, StoreOK
  <1> QED
    BY <1>1, InvHolds, PTL

\* Each stored command is one line, whole and ended by its only newline.
THEOREM DriverLinesWellFormed == Spec => []LinesWellFormed
  BY InvLines, InvHolds, PTL

\* llseek stores no position outside the size that it measured, whatever the
\* width of the integers and the offset.
THEOREM DriverLseekWithinSize == Spec => LseekWithinSize
  <1>1. Inv /\ [Next]_vars =>
          [\A t \in Tasks : At(t, "l_store") /\ At(t, "idle")' =>
             f_pos'[call[t].file] \in 0 .. call[t].acc]_vars
    BY InvLseek
  <1> QED
    BY <1>1, InvHolds, PTL DEF Spec, LseekWithinSize

(***************************************************************************)
(* The driver implements CommandLog: the abstract variables, and when they *)
(* stay.                                                                   *)
(***************************************************************************)

LineIn(h, e) == SubSeq(h[e.buffptr], 1, e.size)

LinesIn(h, b) == [k \in 1 .. Count(b) |-> LineIn(h, OldestFirst(b)[k])]

\* The refinement mapping of ImplementsLog.
LogWindow == IF loaded THEN LinesIn(heap, Completed) ELSE <<>>

LogPending == IF loaded /\ Pending # NULL THEN heap[g_buff] ELSE <<>>

LogWriter == IF WriterIn THEN mtx ELSE NoTask

LogLeft == IF WriterIn THEN BytesLeft(call[mtx]) ELSE <<>>

\* While the module is loaded the commands are lines of the heap.
LEMMA WindowLines ==
  ASSUME Inv, loaded
  PROVE  /\ Completed \in Buffers(Addr) /\ RingShape(Completed)
         /\ \A k \in 1 .. Count(Completed) :
              LET e == OldestFirst(Completed)[k]
              IN  /\ e.buffptr \in Addr
                  /\ \E s \in Slots : e = Completed.entry[s]
                  /\ LineIn(heap, e) = heap[e.buffptr]
                  /\ heap[e.buffptr] \in Seq(Chars)
  <1>1. Completed \in Buffers(Addr)
    BY CompletedIsBuffer DEF Inv
  <1>2. RingShape(Completed) /\ SlotLines
    BY DEF Inv, StoreOK, RingConsistent
  <1>3. ASSUME NEW k \in 1 .. Count(Completed)
        PROVE  LET e == OldestFirst(Completed)[k]
               IN  /\ e.buffptr \in Addr
                   /\ \E s \in Slots : e = Completed.entry[s]
                   /\ LineIn(heap, e) = heap[e.buffptr]
                   /\ heap[e.buffptr] \in Seq(Chars)
    <2>1. PICK s \in Slots : /\ OldestFirst(Completed)[k] = Completed.entry[s]
                             /\ Completed.entry[s].buffptr # NULL
      BY <1>1, <1>2, WindowSlots
    <2> DEFINE e == Completed.entry[s]
    <2>2. e.buffptr \in Addr /\ e.size \in Nat
      BY <1>1, <2>1 DEF Buffers, Entries
    <2>3. heap[e.buffptr] \in Seq(Chars)
      BY <2>2 DEF Inv, TypeOK
    <2>4. Len(heap[e.buffptr]) = e.size
      BY <1>2, <2>1 DEF SlotLines, HoldsLine
    <2> HIDE DEF e
    <2>5. LineIn(heap, e) = heap[e.buffptr]
      BY <2>3, <2>4 DEF LineIn
    <2> QED
      BY <2>1, <2>2, <2>3, <2>5 DEF e
  <1> QED
    BY <1>1, <1>2, <1>3

\* The commands stay when the buffer and their blocks do.
LEMMA WindowStays ==
  ASSUME Inv, loaded' = loaded, Completed' = Completed,
         \A s \in Slots : Completed.entry[s].buffptr # NULL =>
           heap'[Completed.entry[s].buffptr] = heap[Completed.entry[s].buffptr]
  PROVE  LogWindow' = LogWindow
  <1>1. CASE ~loaded
    BY <1>1 DEF LogWindow
  <1>2. CASE loaded
    <2>1. \A k \in 1 .. Count(Completed) :
            LineIn(heap', OldestFirst(Completed)[k]) = LineIn(heap, OldestFirst(Completed)[k])
      <3> SUFFICES ASSUME NEW k \in 1 .. Count(Completed)
                   PROVE  LineIn(heap', OldestFirst(Completed)[k])
                            = LineIn(heap, OldestFirst(Completed)[k])
        OBVIOUS
      <3>1. Completed \in Buffers(Addr) /\ RingShape(Completed)
        BY <1>2, WindowLines
      <3>2. PICK s \in Slots : /\ OldestFirst(Completed)[k] = Completed.entry[s]
                               /\ Completed.entry[s].buffptr # NULL
        BY <3>1, WindowSlots
      <3> DEFINE e == OldestFirst(Completed)[k]
      <3>3. heap'[e.buffptr] = heap[e.buffptr]
        BY <3>2
      <3> HIDE DEF e
      <3>4. LineIn(heap', e) = LineIn(heap, e)
        BY <3>3 DEF LineIn
      <3> QED
        BY <3>4 DEF e
    <2>2. LinesIn(heap', Completed) = LinesIn(heap, Completed)
      BY <2>1 DEF LinesIn
    <2> QED
      BY <1>2, <2>2 DEF LogWindow
  <1> QED
    BY <1>1, <1>2

\* So does the partial line.
LEMMA LogStays ==
  ASSUME Inv, loaded' = loaded, Completed' = Completed, Pending' = Pending,
         Pending # NULL => g_buff' = g_buff /\ heap'[g_buff] = heap[g_buff],
         \A s \in Slots : Completed.entry[s].buffptr # NULL =>
           heap'[Completed.entry[s].buffptr] = heap[Completed.entry[s].buffptr]
  PROVE  LogWindow' = LogWindow /\ LogPending' = LogPending
  <1>1. LogPending' = LogPending
    BY DEF LogPending
  <1> QED
    BY <1>1, WindowStays

\* A step that leaves the commands and the partial line alone.
StoreStays ==
  /\ loaded' = loaded /\ Completed' = Completed /\ Pending' = Pending
  /\ Pending # NULL => g_buff' = g_buff /\ heap'[g_buff] = heap[g_buff]
  /\ \A s \in Slots : Completed.entry[s].buffptr # NULL =>
       heap'[Completed.entry[s].buffptr] = heap[Completed.entry[s].buffptr]

\* A step that leaves the writer alone.
WriterStays ==
  /\ WriterIn' <=> WriterIn
  /\ WriterIn => mtx' = mtx /\ call'[mtx] = call[mtx]

\* A step that has nothing to do with a write under way.
Aside == StoreStays /\ WriterStays

LEMMA WriterStaysInLog ==
  ASSUME WriterStays
  PROVE  LogWriter' = LogWriter /\ LogLeft' = LogLeft
  BY DEF WriterStays, LogWriter, LogLeft, BytesLeft

\* The actions of CommandLog under the mapping.
LEMMA LogStutters ==
  ASSUME UNCHANGED <<LogWindow, LogPending, LogWriter, LogLeft>>
  PROVE  UNCHANGED Log!vars
  BY DEF Log!vars, LogWindow, LogPending, LogWriter, LogLeft, LinesIn, LineIn, Lines, Line

LEMMA AsideStutters ==
  ASSUME Inv, Aside
  PROVE  UNCHANGED Log!vars
  BY LogStays, WriterStaysInLog, LogStutters DEF Aside, StoreStays

LEMMA LogBegins ==
  ASSUME NEW t \in Tasks, LogWriter = NoTask, LogWriter' = t, LogLeft' \in Seq(Chars),
         UNCHANGED <<LogWindow, LogPending>>
  PROVE  Log!Begin(t)
  BY DEF Log!Begin, LogWindow, LogPending, LogWriter, LogLeft, LinesIn, LineIn, Lines, Line

LEMMA LogPuts ==
  ASSUME LogLeft # <<>>, LogLeft' = Tail(LogLeft), LogWriter' = LogWriter,
         NEW line, line = Append(LogPending, Head(LogLeft)),
         \/ /\ Head(LogLeft) = NL /\ LogPending' = <<>>
            /\ LogWindow' = IF Len(LogWindow) < MaxOps
                            THEN Append(LogWindow, line)
                            ELSE Append(Tail(LogWindow), line)
         \/ Head(LogLeft) # NL /\ LogPending' = line /\ LogWindow' = LogWindow
  PROVE  Log!PutByte
  BY DEF Log!PutByte, Log!Commit, LogWindow, LogPending, LogWriter, LogLeft,
         LinesIn, LineIn, Lines, Line

LEMMA LogEnds ==
  ASSUME LogWriter # NoTask, LogWriter' = NoTask, LogLeft' = <<>>,
         UNCHANGED <<LogWindow, LogPending>>
  PROVE  Log!End
  BY DEF Log!End, LogWindow, LogPending, LogWriter, LogLeft, LinesIn, LineIn, Lines, Line

LEMMA LogForgets ==
  ASSUME LogWriter = NoTask, LogWindow' = <<>>, LogPending' = <<>>,
         UNCHANGED <<LogWriter, LogLeft>>
  PROVE  Log!Forget
  BY DEF Log!Forget, LogWindow, LogPending, LogWriter, LogLeft, LinesIn, LineIn, Lines, Line

LEMMA LogStarts ==
  ASSUME LogWindow = <<>>, LogPending = <<>>, LogWriter = NoTask, LogLeft = <<>>
  PROVE  Log!Init
  BY DEF Log!Init, LogWindow, LogPending, LogWriter, LogLeft, LinesIn, LineIn, Lines, Line

(***************************************************************************)
(* The steps of the driver, in the abstract.                               *)
(***************************************************************************)
LEMMA WriterIs ==
  ASSUME TypeOK, LockMatchesSections, NEW t \in Tasks, call[t].pc \in Writing
  PROVE  mtx = t /\ LogWriter = t /\ LogLeft = BytesLeft(call[t])
  <1>1. mtx = t /\ t # NoTask
    BY DriverAssumption DEF LockMatchesSections, Critical
  <1> QED
    BY <1>1 DEF WriterIn, LogWriter, LogLeft

LEMMA WriterIsNext ==
  ASSUME TypeOK', LockMatchesSections', NEW t \in Tasks, call'[t].pc \in Writing
  PROVE  mtx' = t /\ LogWriter' = t /\ LogLeft' = BytesLeft(call'[t])
  <1>1. mtx' = t /\ t # NoTask
    BY DriverAssumption DEF LockMatchesSections, Critical
  <1>2. WriterIn'
    BY <1>1 DEF WriterIn
  <1>3. LogWriter' = t
    BY <1>1, <1>2 DEF LogWriter
  <1>4. LogLeft' = BytesLeft(call'[t])
    BY <1>1, <1>2 DEF LogLeft, BytesLeft
  <1> QED
    BY <1>1, <1>3, <1>4

\* A step of a task that is not writing leaves the writer alone.
LEMMA WriterKept ==
  ASSUME Inv, Inv', NEW t \in Tasks, Moves(t),
         call[t].pc \notin Writing, call'[t].pc \notin Writing
  PROVE  WriterStays
  <1>1. /\ TypeOK /\ LockMatchesSections /\ TypeOK' /\ LockMatchesSections'
        /\ \A u \in Tasks \ {t} : call'[u] = call[u]
        /\ NoTask \notin Tasks
    BY OthersStay, DriverAssumption DEF Inv
  <1>2. CASE WriterIn
    <2>1. PICK u \in Tasks : u = mtx /\ call[u].pc \in Writing
      BY <1>1, <1>2 DEF WriterIn, TypeOK
    <2>2. call'[u] = call[u] /\ call'[u].pc \in Writing
      BY <1>1, <2>1
    <2>3. mtx' = u
      BY <1>1, <2>2, WriterIsNext
    <2>4. WriterIn'
      BY <1>1, <2>2, <2>3 DEF WriterIn
    <2> QED
      BY <1>2, <2>1, <2>2, <2>3, <2>4 DEF WriterStays
  <1>3. CASE ~WriterIn
    <2>1. ~WriterIn'
      <3> SUFFICES ASSUME WriterIn' PROVE FALSE
        OBVIOUS
      <3>1. PICK u \in Tasks : u = mtx' /\ call'[u].pc \in Writing
        BY <1>1 DEF WriterIn, TypeOK
      <3>2. call[u].pc \in Writing
        BY <1>1, <3>1
      <3>3. mtx = u
        BY <1>1, <3>2, WriterIs
      <3> QED
        BY <1>1, <1>3, <3>2, <3>3 DEF WriterIn
    <2> QED
      BY <1>3, <2>1 DEF WriterStays
  <1> QED
    BY <1>2, <1>3

\* The blocks of the commands and of the partial line have other owners than a
\* call.
LEMMA LineBlocks ==
  ASSUME Inv
  PROVE  /\ \A s \in Slots : Completed.entry[s].buffptr # NULL =>
              /\ Completed.entry[s].buffptr \in allocated
              /\ Completed.entry[s].buffptr # Pending
              /\ \A t \in Tasks : /\ Completed.entry[s].buffptr # call[t].wbuff
                                  /\ Completed.entry[s].buffptr # call[t].old_buff
         /\ Pending # NULL => /\ Pending = g_buff /\ Pending \in allocated
                              /\ \A t \in Tasks : Pending # call[t].wbuff
         /\ allocated \subseteq Addr
  <1>1. Ownership(OwnerMap(Completed.entry, Pending, call), allocated)
    BY DEF Inv, StoreOK, BlocksOwned
  <1>2. Pending # NULL => Pending = g_buff
    BY DEF Pending
  <1>3. allocated \subseteq Addr
    BY DEF Inv, TypeOK
  <1> QED
    BY <1>1, <1>2, <1>3, BlocksApart

\* A task that is not writing, or is still waiting to, changes nothing that the
\* log speaks of: at most it takes or frees a block of its own.
LEMMA QuietAside ==
  ASSUME Inv, Inv', NEW t \in Tasks, Moves(t), UNCHANGED devVars,
         call[t].pc \notin Writing, call'[t].pc \notin Writing,
         \A m \in allocated : m # call[t].wbuff => heap'[m] = heap[m]
  PROVE  Aside
  <1>1. Adding' <=> Adding
    BY AddingKept DEF Inv, Writing
  <1>2. Completed' = Completed /\ Pending' = Pending /\ loaded' = loaded /\ g_buff' = g_buff
    BY <1>1, ViewsFrame DEF devVars
  <1>3. \A s \in Slots : Completed.entry[s].buffptr # NULL =>
          heap'[Completed.entry[s].buffptr] = heap[Completed.entry[s].buffptr]
    BY LineBlocks
  <1>4. Pending # NULL => heap'[g_buff] = heap[g_buff]
    BY LineBlocks
  <1>5. StoreStays
    BY <1>2, <1>3, <1>4 DEF StoreStays
  <1>6. WriterStays
    BY WriterKept
  <1> QED
    BY <1>5, <1>6 DEF Aside

\* A step goes on with its call.
LEMMA ContinueGoes ==
  ASSUME Inv, Inv', NEW t \in Tasks, NEW c, Continue(t, c)
  PROVE  Moves(t) /\ call'[t] = c
  BY DEF Inv, TypeOK, Continue, Moves

LEMMA BeginAside ==
  ASSUME Inv, Inv', NEW t \in Tasks, NEW f \in Files, Begin(t, f)
  PROVE  Aside
  <1>1. ASSUME NEW c, Enter(t, c), c.pc \notin Writing,
               \A m \in allocated : heap'[m] = heap[m]
        PROVE  Aside
    <2>1. /\ Continue(t, c) /\ call[t].pc \notin Writing /\ UNCHANGED devVars
      BY <1>1 DEF Enter, At, Writing
    <2>2. Moves(t) /\ call'[t] = c
      BY <2>1, ContinueGoes
    <2> QED
      BY <1>1, <2>1, <2>2, QuietAside
  <1>2. \A pc, file, arg, wbuff, pos : NewCall(pc, file, arg, wbuff, pos).pc = pc
    BY DEF NewCall
  <1>3. ASSUME NEW bytes \in Writes, WriteBegin(t, f, bytes)
        PROVE  Aside
    <2>1. PICK a \in Addr \ allocated :
            /\ Enter(t, NewCall("w_lock", f, [bytes |-> bytes], a, f_pos[f]))
            /\ heap' = [heap EXCEPT ![a] = bytes]
      BY <1>3 DEF WriteBegin
    <2>2. \A m \in allocated : heap'[m] = heap[m]
      BY <2>1 DEF Inv, TypeOK
    <2> DEFINE c == NewCall("w_lock", f, [bytes |-> bytes], a, f_pos[f])
    <2>3. Enter(t, c) /\ c.pc = "w_lock"
      BY <1>2, <2>1
    <2> HIDE DEF c
    <2> QED
      BY <1>1, <2>2, <2>3 DEF Writing
  <1>4. ASSUME NEW count \in Counts, ReadBegin(t, f, count)
        PROVE  Aside
    <2> DEFINE c == NewCall("r_lock", f, [count |-> count], NULL, f_pos[f])
    <2>1. Enter(t, c) /\ c.pc = "r_lock" /\ heap' = heap
      BY <1>2, <1>4 DEF ReadBegin, memVars
    <2> HIDE DEF c
    <2> QED
      BY <1>1, <2>1 DEF Writing
  <1>5. ASSUME NEW x \in LseekArgs, LseekBegin(t, f, x)
        PROVE  Aside
    <2> DEFINE c == NewCall("l_size", f, x, NULL, 0)
    <2>1. Enter(t, c) /\ c.pc = "l_size" /\ heap' = heap
      BY <1>2, <1>5 DEF LseekBegin, memVars
    <2> HIDE DEF c
    <2> QED
      BY <1>1, <2>1 DEF Writing
  <1>6. ASSUME NEW x \in SeekTos, IoctlBegin(t, f, x)
        PROVE  Aside
    <2> DEFINE c == NewCall("i_count", f, x, NULL, 0)
    <2>1. Enter(t, c) /\ c.pc = "i_count" /\ heap' = heap
      BY <1>2, <1>6 DEF IoctlBegin, memVars
    <2> HIDE DEF c
    <2> QED
      BY <1>1, <2>1 DEF Writing
  <1> QED
    BY <1>3, <1>4, <1>5, <1>6 DEF Begin

\* What is left of the bytes of a write, and its first one.
LEMMA Suffix ==
  ASSUME NEW S, NEW s \in Seq(S), NEW i \in Nat, i < Len(s)
  PROVE  /\ SubSeq(s, i + 1, Len(s)) # <<>>
         /\ Head(SubSeq(s, i + 1, Len(s))) = s[i + 1]
         /\ Tail(SubSeq(s, i + 1, Len(s))) = SubSeq(s, i + 1 + 1, Len(s))
  <1> DEFINE v == SubSeq(s, i + 1, Len(s))
             w == SubSeq(s, i + 1 + 1, Len(s))
  <1>1. v \in Seq(S) /\ Len(v) = Len(s) - i /\ \A j \in 1 .. Len(v) : v[j] = s[i + j]
    OBVIOUS
  <1>2. w \in Seq(S) /\ Len(w) = Len(s) - i - 1 /\ \A j \in 1 .. Len(w) : w[j] = s[i + 1 + j]
    OBVIOUS
  <1> HIDE DEF v, w
  <1>3. v # <<>> /\ Head(v) = s[i + 1]
    BY <1>1
  <1>4. /\ Tail(v) \in Seq(S) /\ Len(Tail(v)) = Len(s) - i - 1
        /\ \A j \in 1 .. Len(Tail(v)) : Tail(v)[j] = v[j + 1]
    BY <1>1, <1>3
  <1>5. Tail(v) = w
    <2>1. \A j \in 1 .. Len(w) : j + 1 \in 1 .. Len(v) /\ i + (j + 1) = i + 1 + j
      BY <1>1, <1>2
    <2>2. \A j \in 1 .. Len(Tail(v)) : Tail(v)[j] = w[j]
      BY <1>1, <1>2, <1>4, <2>1, SMTT(30)
    <2> QED
      BY <1>2, <1>4, <2>2, SameSequence
  <1> QED
    BY <1>3, <1>5 DEF v, w

\* A reader that gets the lock is no writer; a writer that does begins with its
\* first byte.
LEMMA LockBegins ==
  ASSUME Inv, Inv', NEW t \in Tasks, Lock(t)
  PROVE  \/ Aside
         \/ /\ StoreStays /\ ~WriterIn /\ WriterIn' /\ mtx' = t
            /\ call[t].arg \in [bytes : Writes] /\ call'[t].arg = call[t].arg
            /\ call'[t].i = 0 /\ call'[t].pc = "w_byte"
  <1> DEFINE pc == IF call[t].pc = "w_lock" THEN "w_byte" ELSE "r_copy"
             c == [call[t] EXCEPT !.pc = pc]
  <1>1. /\ call[t].pc \in {"w_lock", "r_lock"} /\ Continue(t, c)
        /\ mtx = NoTask /\ mtx' = t /\ UNCHANGED devVars /\ heap' = heap
    BY DEF Lock, Waiting, memVars
  <1>2. call[t] \in Calls /\ CallOK(t)
    BY DEF Inv, TypeOK, CallsOK
  <1>3. c.pc = pc /\ c.arg = call[t].arg /\ c.i = call[t].i
    BY <1>2 DEF Calls
  <1>4. Moves(t) /\ call'[t] = c
    BY <1>1, ContinueGoes
  <1> HIDE DEF c
  <1>5. CASE call[t].pc = "r_lock"
    BY <1>1, <1>3, <1>4, <1>5, QuietAside DEF Writing
  <1>6. CASE call[t].pc = "w_lock"
    <2>1. c.pc = "w_byte" /\ t # NoTask
      BY <1>3, <1>6, DriverAssumption
    <2>2. ~WriterIn /\ WriterIn'
      BY <1>1, <1>4, <2>1 DEF WriterIn, Writing
    <2>3. call[t].arg \in [bytes : Writes] /\ call[t].i = 0
      BY <1>2, <1>6 DEF CallOK, InWrite
    <2>4. ~Adding /\ ~Adding'
      BY <1>1, <1>4, <2>1 DEF Adding, At
    <2>5. Completed' = Completed /\ Pending' = Pending
          /\ loaded' = loaded /\ g_buff' = g_buff
      BY <1>1, <2>4, ViewsFrame DEF devVars
    <2>6. StoreStays
      BY <1>1, <2>5 DEF StoreStays
    <2> QED
      BY <1>1, <1>3, <1>4, <2>1, <2>2, <2>3, <2>6
  <1> QED
    BY <1>1, <1>5, <1>6

LEMMA LockLog ==
  ASSUME Inv, Inv', NEW t \in Tasks, Lock(t)
  PROVE  Log!Begin(t) \/ UNCHANGED Log!vars
  <1>1. CASE Aside
    BY <1>1, AsideStutters
  <1>2. CASE /\ StoreStays /\ ~WriterIn /\ WriterIn' /\ mtx' = t
             /\ call[t].arg \in [bytes : Writes] /\ call'[t].arg = call[t].arg
             /\ call'[t].i = 0 /\ call'[t].pc = "w_byte"
    <2>1. LogWriter = NoTask
      BY <1>2 DEF LogWriter
    <2>2. LogWriter' = t /\ LogLeft' = BytesLeft(call'[t])
      BY <1>2, WriterIsNext DEF Inv, Writing
    <2>3. call[t].arg.bytes \in Seq(Chars)
      BY <1>2, DriverAssumption
    <2>4. BytesLeft(call'[t]) \in Seq(Chars)
      BY <1>2, <2>3 DEF BytesLeft
    <2>5. LogWindow' = LogWindow /\ LogPending' = LogPending
      BY <1>2, LogStays DEF StoreStays
    <2> QED
      BY <2>1, <2>2, <2>4, <2>5, LogBegins
  <1> QED
    BY <1>1, <1>2, LockBegins

\* A call that is not writing goes on as one that is not.
LEMMA QuietContinue ==
  ASSUME Inv, Inv', NEW t \in Tasks, NEW c, Continue(t, c), UNCHANGED devVars,
         call[t].pc \notin Writing, c.pc \notin Writing,
         \A m \in allocated : m # call[t].wbuff => heap'[m] = heap[m]
  PROVE  Aside
  <1>1. Moves(t) /\ call'[t] = c
    BY ContinueGoes
  <1> QED
    BY <1>1, QuietAside

\* kfree of a wbuff leaves the other blocks alone.
LEMMA OthersKept ==
  ASSUME Inv, NEW t \in Tasks, kfree(call[t].wbuff)
  PROVE  \A m \in allocated : m # call[t].wbuff => heap'[m] = heap[m]
  <1> DEFINE p == call[t].wbuff
  <1>1. p \in Addr \cup {NULL} /\ TypeOK /\ allocated \subseteq Addr
    BY DEF Inv, TypeOK, Calls
  <1> HIDE DEF p
  <1>2. kfree(p)
    BY DEF p
  <1>3. \A m \in allocated : m # p => heap'[m] = heap[m]
    BY <1>1, <1>2, kfreeFrees
  <1> QED
    BY <1>3 DEF p

LEMMA InterruptedAside ==
  ASSUME Inv, Inv', NEW t \in Tasks, Interrupted(t)
  PROVE  Aside
  <1>1. /\ Continue(t, NoCall) /\ UNCHANGED devVars /\ kfree(call[t].wbuff)
        /\ call[t].pc \notin Writing
    BY DEF Interrupted, Return, Waiting, Writing
  <1>2. NoCall.pc \notin Writing
    BY DEF NoCall, NewCall, Writing
  <1>3. \A m \in allocated : m # call[t].wbuff => heap'[m] = heap[m]
    BY <1>1, OthersKept
  <1> QED
    BY <1>1, <1>2, <1>3, QuietContinue

\* The steps of read, llseek and ioctl.
QuietSteps(t) ==
  \/ ReadCopy(t) \/ ReadFault(t) \/ CallDone(t)
  \/ LseekSize(t) \/ LseekCheck(t) \/ LseekStore(t)
  \/ IoctlCount(t) \/ IoctlCheck(t) \/ IoctlSeek(t) \/ IoctlStore(t)

LEMMA QuietStepsAside ==
  ASSUME Inv, Inv', NEW t \in Tasks, QuietSteps(t)
  PROVE  Aside
  <1>1. call[t] \in Calls
    BY DEF Inv, TypeOK
  <1>2. UNCHANGED devVars /\ heap' = heap
    BY DEF QuietSteps, ReadCopy, ReadFault, CallDone, LseekSize, LseekCheck,
           LseekStore, IoctlCount, IoctlCheck, IoctlSeek, IoctlStore,
           StorePosition, Walk, memVars
  <1>3. NoCall.pc = "idle"
    BY DEF NoCall, NewCall
  <1>4. \A pc : pc \notin {"w_byte", "w_entry"} =>
          \A c : c = [call[t] EXCEPT !.pc = pc] => c.pc \notin Writing
    BY <1>1 DEF Calls, Writing
  <1>5. ASSUME NEW last, NEW amount, NEW next, Walk(t, last, amount, next),
               call[t].pc \notin Writing, next \notin Writing
        PROVE  \E c : Continue(t, c) /\ c.pc \notin Writing
    <2>1. \/ Continue(t, [call[t] EXCEPT !.i = @ + 1, !.acc = @ + amount])
          \/ Continue(t, [call[t] EXCEPT !.pc = next])
      BY <1>5 DEF Walk
    <2>2. [call[t] EXCEPT !.i = @ + 1, !.acc = @ + amount].pc = call[t].pc
      BY <1>1 DEF Calls
    <2>3. [call[t] EXCEPT !.pc = next].pc = next
      BY <1>1 DEF Calls
    <2> QED
      BY <1>5, <2>1, <2>2, <2>3
  <1>6. call[t].pc \notin Writing /\ \E c : Continue(t, c) /\ c.pc \notin Writing
    <2>1. CASE ReadFault(t) \/ CallDone(t) \/ LseekStore(t) \/ IoctlStore(t)
      <3>1. Continue(t, NoCall) /\ call[t].pc \notin Writing
        BY <2>1 DEF ReadFault, CallDone, LseekStore, IoctlStore, StorePosition,
                    Return, At, Writing
      <3> QED
        BY <1>3, <3>1 DEF Writing
    <2>2. CASE LseekSize(t) \/ IoctlCount(t) \/ IoctlSeek(t)
      BY <1>5, <2>2 DEF LseekSize, IoctlCount, IoctlSeek, At, Writing
    <2>3. CASE ReadCopy(t)
      <3>1. PICK bytes : Continue(t, [call[t] EXCEPT !.pc = "done", !.data = bytes,
                                                     !.pos = @ + Len(bytes)])
        BY <2>3 DEF ReadCopy
      <3>2. [call[t] EXCEPT !.pc = "done", !.data = bytes,
                            !.pos = @ + Len(bytes)].pc = "done"
        BY <1>1 DEF Calls
      <3> QED
        BY <2>3, <3>1, <3>2 DEF ReadCopy, At, Writing
    <2>4. CASE LseekCheck(t)
      <3>1. PICK np : \/ Continue(t, [call[t] EXCEPT !.pc = "l_store", !.pos = np])
                      \/ Continue(t, NoCall)
        BY <2>4 DEF LseekCheck
      <3>2. [call[t] EXCEPT !.pc = "l_store", !.pos = np].pc = "l_store"
        BY <1>1 DEF Calls
      <3> QED
        BY <1>3, <2>4, <3>1, <3>2 DEF LseekCheck, At, Writing
    <2>5. CASE IoctlCheck(t)
      <3>1. \/ Continue(t, [call[t] EXCEPT !.pc = "i_seek", !.i = 0, !.acc = 0])
            \/ Continue(t, NoCall)
        BY <2>5 DEF IoctlCheck
      <3>2. [call[t] EXCEPT !.pc = "i_seek", !.i = 0, !.acc = 0].pc = "i_seek"
        BY <1>1 DEF Calls
      <3> QED
        BY <1>3, <2>5, <3>1, <3>2 DEF IoctlCheck, At, Writing
    <2> QED
      BY <2>1, <2>2, <2>3, <2>4, <2>5 DEF QuietSteps
  <1> QED
    BY <1>2, <1>6, QuietContinue

\* The write ends, or runs out of memory: the lock and wbuff go.
LEMMA WriterLeaves ==
  ASSUME Inv, Inv', NEW t \in Tasks, NEW c, Continue(t, c), At(t, "w_byte"),
         c.pc \notin Critical, Unlock, UNCHANGED devVars, kfree(call[t].wbuff)
  PROVE  StoreStays /\ WriterIn /\ mtx = t /\ ~WriterIn'
  <1>1. /\ TypeOK /\ LockMatchesSections /\ TypeOK' /\ LockMatchesSections'
        /\ call[t].pc = "w_byte" /\ NoTask \notin Tasks /\ mtx' = NoTask
    BY DriverAssumption DEF Inv, At, Unlock
  <1>2. mtx = t
    BY <1>1, WriterIs DEF Writing
  <1>3. WriterIn /\ ~WriterIn'
    BY <1>1, <1>2 DEF WriterIn, Writing
  <1>4. Completed' = Completed /\ Pending' = Pending
        /\ loaded' = loaded /\ g_buff' = g_buff
    <2>1. ~Adding /\ ~Adding'
      BY <1>1, <1>2 DEF Adding, At
    <2> QED
      BY <2>1, ViewsFrame DEF devVars
  <1>5. \A m \in allocated : m # call[t].wbuff => heap'[m] = heap[m]
    BY OthersKept
  <1>6. StoreStays
    <2>1. \A s \in Slots : Completed.entry[s].buffptr # NULL =>
            heap'[Completed.entry[s].buffptr] = heap[Completed.entry[s].buffptr]
      BY <1>5, LineBlocks
    <2>2. Pending # NULL => g_buff' = g_buff /\ heap'[g_buff] = heap[g_buff]
      BY <1>4, <1>5, LineBlocks
    <2> QED
      BY <1>4, <2>1, <2>2 DEF StoreStays
  <1> QED
    BY <1>2, <1>3, <1>6

LEMMA WriteEnds ==
  ASSUME Inv, Inv', NEW t \in Tasks, WriteNoMem(t) \/ WriteEnd(t)
  PROVE  StoreStays /\ WriterIn /\ mtx = t /\ ~WriterIn'
  <1>1. CASE WriteNoMem(t)
    <2>1. /\ Continue(t, NoCall) /\ At(t, "w_byte") /\ Unlock /\ UNCHANGED devVars
          /\ kfree(call[t].wbuff)
      BY <1>1 DEF WriteNoMem, HasByte, Return
    <2>2. NoCall.pc \notin Critical
      BY DEF NoCall, NewCall, Critical, Writing
    <2> QED
      BY <2>1, <2>2, WriterLeaves
  <1>2. CASE WriteEnd(t)
    <2> DEFINE c == [call[t] EXCEPT !.pc = "done", !.wbuff = NULL]
    <2>1. /\ Continue(t, c) /\ At(t, "w_byte") /\ Unlock /\ UNCHANGED devVars
          /\ kfree(call[t].wbuff)
      BY <1>2 DEF WriteEnd
    <2>2. c.pc = "done"
      BY DEF Inv, TypeOK, Calls
    <2> HIDE DEF c
    <2>3. c.pc \notin Critical
      BY <2>2 DEF Critical, Writing
    <2> QED
      BY <2>1, <2>3, WriterLeaves
  <1> QED
    BY <1>1, <1>2

LEMMA WriteEndsLog ==
  ASSUME Inv, Inv', NEW t \in Tasks, WriteNoMem(t) \/ WriteEnd(t)
  PROVE  Log!End
  <1>1. StoreStays /\ WriterIn /\ mtx = t /\ ~WriterIn'
    BY WriteEnds
  <1>2. LogWriter # NoTask /\ LogWriter' = NoTask /\ LogLeft' = <<>>
    BY <1>1, DriverAssumption DEF LogWriter, LogLeft
  <1>3. LogWindow' = LogWindow /\ LogPending' = LogPending
    BY <1>1, LogStays DEF StoreStays
  <1> QED
    BY <1>2, <1>3, LogEnds

\* The line that krealloc and the store leave behind.
LEMMA GrownLine ==
  ASSUME NEW b \in Addr, NEW byte, GrowTo(b, byte)
  PROVE  heap'[b] = Append(IF g_buff = NULL THEN <<>> ELSE heap[g_buff], byte)
  BY DEF GrowTo

\* What a writer's next byte does to the log's left, whichever it is.
LEMMA WriterNext ==
  ASSUME Inv, Inv', NEW t \in Tasks, HasByte(t), call'[t].pc \in Writing,
         call'[t].i = call[t].i + 1, call'[t].arg = call[t].arg
  PROVE  /\ LogLeft # <<>> /\ Head(LogLeft) = ThisByte(t)
         /\ LogLeft' = Tail(LogLeft) /\ LogWriter' = LogWriter
         /\ LogPending = IF g_buff = NULL THEN <<>> ELSE heap[g_buff]
  <1>1. /\ call[t] \in Calls /\ CallOK(t) /\ call[t].pc = "w_byte" /\ loaded
        /\ Pending = g_buff
    BY WriterHasByte
  <1>2. LogWriter = t /\ LogLeft = BytesLeft(call[t])
    BY <1>1, WriterIs DEF Inv, Writing
  <1>3. LogWriter' = t /\ LogLeft' = BytesLeft(call'[t])
    BY WriterIsNext DEF Inv
  <1> DEFINE bytes == call[t].arg.bytes
             i == call[t].i
  <1>4. /\ heap[call[t].wbuff] = bytes /\ bytes \in Seq(Chars) /\ i \in Nat
        /\ i < Len(bytes)
    BY <1>1, DriverAssumption DEF CallOK, InWrite, Writing, Calls, HasByte
  <1>5. ThisByte(t) = bytes[i + 1]
    BY <1>4 DEF ThisByte
  <1>6. /\ BytesLeft(call[t]) = SubSeq(bytes, i + 1, Len(bytes))
        /\ BytesLeft(call'[t]) = SubSeq(bytes, i + 1 + 1, Len(bytes))
    BY DEF BytesLeft
  <1> HIDE DEF bytes, i
  <1>7. /\ SubSeq(bytes, i + 1, Len(bytes)) # <<>>
        /\ Head(SubSeq(bytes, i + 1, Len(bytes))) = bytes[i + 1]
        /\ Tail(SubSeq(bytes, i + 1, Len(bytes)))
             = SubSeq(bytes, i + 1 + 1, Len(bytes))
    BY <1>4, Suffix
  <1>8. LogPending = IF g_buff = NULL THEN <<>> ELSE heap[g_buff]
    BY <1>1 DEF LogPending
  <1> QED
    BY <1>2, <1>3, <1>5, <1>6, <1>7, <1>8

\* The block of every command is another than the one of the partial line, and
\* stays while that one grows.
LEMMA GrowKeepsLines ==
  ASSUME Inv, NEW t \in Tasks, HasByte(t),
         NEW b \in Addr, NEW byte \in Chars, GrowTo(b, byte)
  PROVE  \A s \in Slots : Completed.entry[s].buffptr # NULL =>
           heap'[Completed.entry[s].buffptr] = heap[Completed.entry[s].buffptr]
  <1>1. TypeOK /\ StoreOK /\ loaded /\ ~Adding /\ Pending = g_buff
    BY WriterHasByte DEF Inv
  <1>2. \A m \in allocated \ {g_buff} : heap'[m] = heap[m]
    BY <1>1, GrowToGrows
  <1> QED
    BY <1>1, <1>2, LineBlocks

LEMMA WriteCharLog ==
  ASSUME Inv, Inv', NEW t \in Tasks, WriteChar(t)
  PROVE  Log!PutByte
  <1> DEFINE c == [call[t] EXCEPT !.i = @ + 1]
  <1>1. /\ HasByte(t) /\ ThisByte(t) # NL /\ Continue(t, c)
        /\ loaded' = loaded /\ circular_buf' = circular_buf /\ mtx' = mtx
    BY DEF WriteChar, lockVars
  <1>2. PICK b \in Addr : GrowTo(b, ThisByte(t))
    BY DEF WriteChar
  <1>3. /\ call[t] \in Calls /\ call[t].pc = "w_byte" /\ mtx = t /\ loaded
        /\ Completed = circular_buf /\ ThisByte(t) \in Chars
    BY <1>1, WriterHasByte
  <1>4. c.pc = "w_byte" /\ c.i = call[t].i + 1 /\ c.arg = call[t].arg
    BY <1>3 DEF Calls
  <1> HIDE DEF c
  <1>5. call'[t] = c
    BY <1>1, ContinueGoes
  <1>6. /\ LogLeft # <<>> /\ Head(LogLeft) = ThisByte(t)
        /\ LogLeft' = Tail(LogLeft) /\ LogWriter' = LogWriter
        /\ LogPending = IF g_buff = NULL THEN <<>> ELSE heap[g_buff]
    BY <1>1, <1>4, <1>5, WriterNext DEF Writing
  <1>7. g_buff' = b /\ b # NULL
    BY <1>2, DriverAssumption DEF GrowTo
  <1>8. Completed' = circular_buf /\ Pending' = b
    <2>1. call'[mtx'].pc # "w_entry"
      BY <1>1, <1>3, <1>4, <1>5
    <2> QED
      BY <1>1, <1>7, <2>1 DEF Completed, Pending, At
  <1>9. LogPending' = Append(LogPending, Head(LogLeft))
    <2>1. heap'[b] = Append(LogPending, ThisByte(t))
      BY <1>2, <1>6, GrownLine
    <2>2. LogPending' = heap'[b]
      BY <1>1, <1>3, <1>7, <1>8 DEF LogPending
    <2> QED
      BY <1>6, <2>1, <2>2
  <1>10. LogWindow' = LogWindow
    <2>1. \A s \in Slots : Completed.entry[s].buffptr # NULL =>
            heap'[Completed.entry[s].buffptr] = heap[Completed.entry[s].buffptr]
      BY <1>1, <1>2, <1>3, GrowKeepsLines
    <2>2. Completed' = Completed
      BY <1>3, <1>8
    <2> QED
      BY <1>1, <2>1, <2>2, WindowStays
  <1>11. Head(LogLeft) # NL
    BY <1>1, <1>6
  <1> DEFINE line == Append(LogPending, Head(LogLeft))
  <1>12. line = Append(LogPending, Head(LogLeft)) /\ LogPending' = line
    BY <1>9
  <1> HIDE DEF line
  <1> QED
    BY <1>6, <1>10, <1>11, <1>12, LogPuts

\* The lines of a buffer with one more entry, in a memory where the others stay.
LEMMA LinesGrow ==
  ASSUME NEW P, NEW b \in Buffers(P), NEW e \in Entries(P),
         e.buffptr # NULL, e.size > 0, RingShape(b), NEW g, NEW h,
         \A k \in 1 .. Count(b) :
           LineIn(h, OldestFirst(b)[k]) = LineIn(g, OldestFirst(b)[k])
  PROVE  LinesIn(h, AddEntry(b, e)) = IF Len(LinesIn(g, b)) < MaxOps
                                      THEN Append(LinesIn(g, b), LineIn(h, e))
                                      ELSE Append(Tail(LinesIn(g, b)), LineIn(h, e))
  <1> DEFINE a == AddEntry(b, e)
             v == OldestFirst(a)
             w == OldestFirst(b)
             S == {LineIn(g, w[k]) : k \in 1 .. Count(b)} \cup {LineIn(h, e)}
             x == LineIn(h, e)
             p == LinesIn(g, b)
             q == LinesIn(h, a)
  <1>1. /\ Count(b) \in 0 .. MaxOps /\ w \in Seq(Entries(P)) /\ Len(w) = Count(b)
    BY WindowElements
  <1>2. a \in Buffers(P) /\ RingShape(a)
    BY AddEntryFields, AddEntryShape
  <1>3. /\ Count(a) \in 0 .. MaxOps /\ v \in Seq(Entries(P)) /\ Len(v) = Count(a)
    BY <1>2, WindowElements
  <1>4. v = IF Len(w) < MaxOps THEN Append(w, e) ELSE Append(Tail(w), e)
    BY AddEntryWindow
  <1>5. /\ p = [k \in 1 .. Count(b) |-> LineIn(g, w[k])]
        /\ q = [k \in 1 .. Count(a) |-> LineIn(h, v[k])]
    BY DEF LinesIn
  <1>6. \A k \in 1 .. Count(b) : LineIn(h, w[k]) = LineIn(g, w[k])
    OBVIOUS
  <1>7. x = LineIn(h, e) /\ x \in S /\ \A k \in 1 .. Count(b) : LineIn(g, w[k]) \in S
    OBVIOUS
  <1> SUFFICES q = IF Len(p) < MaxOps THEN Append(p, x) ELSE Append(Tail(p), x)
    OBVIOUS
  <1> HIDE DEF a, v, w, p, q, S, x
  <1>8. p \in Seq(S) /\ Len(p) = Count(b) /\ \A k \in 1 .. Count(b) : p[k] = LineIn(g, w[k])
    BY <1>1, <1>5, <1>7
  <1>9. CASE Len(w) < MaxOps
    <2>1. Count(a) = Count(b) + 1
      BY <1>1, <1>3, <1>4, <1>9
    <2>2. /\ \A k \in 1 .. Count(b) : v[k] = w[k]
          /\ v[Count(b) + 1] = e
      BY <1>1, <1>4, <1>9
    <2>3. \A k \in 1 .. Count(b) + 1 : q[k] = IF k = Count(b) + 1 THEN x ELSE p[k]
      BY <1>1, <1>5, <1>6, <1>7, <1>8, <2>1, <2>2
    <2>4. \A k \in 1 .. Count(b) + 1 : q[k] \in S
      <3>1. \A k \in 1 .. Count(b) : p[k] \in S
        BY <1>7, <1>8
      <3>2. \A k \in 1 .. Count(b) + 1 : k = Count(b) + 1 \/ k \in 1 .. Count(b)
        BY <1>1
      <3> QED
        BY <1>7, <2>3, <3>1, <3>2
    <2>5. q \in Seq(S) /\ Len(q) = Count(b) + 1
      BY <1>1, <1>5, <2>1, <2>4
    <2>6. /\ Append(p, x) \in Seq(S) /\ Len(Append(p, x)) = Count(b) + 1
          /\ \A k \in 1 .. Count(b) + 1 :
               Append(p, x)[k] = IF k = Count(b) + 1 THEN x ELSE p[k]
      BY <1>1, <1>7, <1>8
    <2>7. q = Append(p, x)
      BY <2>3, <2>5, <2>6, SameSequence
    <2> QED
      BY <1>1, <1>8, <1>9, <2>7
  <1>10. CASE ~(Len(w) < MaxOps)
    <2>1. /\ Count(b) = MaxOps /\ MaxOps \in Nat /\ MaxOps > 0
      BY <1>1, <1>10, MaxOpsAssumption
    <2>2. Count(a) = MaxOps
      BY <1>1, <1>3, <1>4, <1>10, <2>1
    <2>3. /\ \A k \in 1 .. MaxOps - 1 : v[k] = w[k + 1]
          /\ v[MaxOps] = e
      BY <1>1, <1>4, <1>10, <2>1
    <2>4. \A k \in 1 .. MaxOps : q[k] = IF k = MaxOps THEN x ELSE p[k + 1]
      BY <1>1, <1>5, <1>6, <1>7, <1>8, <2>1, <2>2, <2>3
    <2>5. \A k \in 1 .. MaxOps : q[k] \in S
      <3>1. \A k \in 1 .. MaxOps : p[k] \in S
        BY <1>7, <1>8, <2>1
      <3>2. \A k \in 1 .. MaxOps : k = MaxOps \/ k + 1 \in 1 .. MaxOps
        BY <2>1
      <3> QED
        BY <1>7, <2>4, <3>1, <3>2
    <2>6. q \in Seq(S) /\ Len(q) = MaxOps
      BY <1>5, <2>1, <2>2, <2>5
    <2>7. /\ Tail(p) \in Seq(S) /\ Len(Tail(p)) = MaxOps - 1
          /\ \A k \in 1 .. MaxOps - 1 : Tail(p)[k] = p[k + 1]
      BY <1>8, <2>1
    <2>8. /\ Append(Tail(p), x) \in Seq(S) /\ Len(Append(Tail(p), x)) = MaxOps
          /\ \A k \in 1 .. MaxOps :
               Append(Tail(p), x)[k] = IF k = MaxOps THEN x ELSE p[k + 1]
      BY <1>7, <2>1, <2>7
    <2>9. q = Append(Tail(p), x)
      BY <2>4, <2>6, <2>8, SameSequence
    <2> QED
      BY <1>1, <1>8, <1>10, <2>9
  <1> QED
    BY <1>9, <1>10

LEMMA WriteNewlineLog ==
  ASSUME Inv, Inv', NEW t \in Tasks, WriteNewline(t)
  PROVE  Log!PutByte
  <1> DEFINE c == [call[t] EXCEPT !.pc = "w_entry", !.i = @ + 1,
                                  !.old_buff = OldBuff(circular_buf)]
             e == [buffptr |-> g_buff', size |-> g_len']
  <1>1. /\ HasByte(t) /\ ThisByte(t) = NL /\ Continue(t, c)
        /\ circular_buf' \in HalfAdded(circular_buf, e)
        /\ loaded' = loaded /\ mtx' = mtx
    BY DEF WriteNewline, ThisEntry, lockVars
  <1>2. PICK b \in Addr : GrowTo(b, NL)
    BY DEF WriteNewline
  <1>3. /\ call[t] \in Calls /\ call[t].pc = "w_byte" /\ mtx = t /\ loaded
        /\ Completed = circular_buf /\ ~Adding
    BY <1>1, WriterHasByte
  <1>4. c.pc = "w_entry" /\ c.i = call[t].i + 1 /\ c.arg = call[t].arg
    BY <1>3 DEF Calls
  <1> HIDE DEF c
  <1>5. call'[t] = c
    BY <1>1, ContinueGoes
  <1>6. /\ LogLeft # <<>> /\ Head(LogLeft) = ThisByte(t)
        /\ LogLeft' = Tail(LogLeft) /\ LogWriter' = LogWriter
        /\ LogPending = IF g_buff = NULL THEN <<>> ELSE heap[g_buff]
    BY <1>1, <1>4, <1>5, WriterNext DEF Writing
  <1>7. /\ g_buff' = b /\ g_len' = g_len + 1 /\ Len(heap'[b]) = g_len + 1
        /\ heap'[b] \in Seq(Chars) /\ b # NULL
    <2>1. TypeOK /\ StoreOK
      BY DEF Inv
    <2> QED
      BY <1>2, <1>3, <2>1, DriverAssumption, GrowToGrows
  <1>8. circular_buf \in Buffers(Addr) /\ RingShape(circular_buf) /\ g_len \in Nat
    BY <1>3 DEF Inv, TypeOK, StoreOK, RingConsistent
  <1>9. /\ e \in Entries(Addr) /\ e.buffptr = b /\ e.size = g_len + 1
        /\ e.buffptr # NULL /\ e.size > 0
    BY <1>7, <1>8 DEF Entries
  <1>10. ThisEntry' = e
    BY DEF ThisEntry
  <1> HIDE DEF e
  <1>11. AddEntry(circular_buf', e) = AddEntry(circular_buf, e)
    BY <1>1, <1>8, <1>9, HalfAddedCompletes
  <1>12. Completed' = AddEntry(circular_buf, e) /\ Pending' = NULL
    <2>1. mtx' = t /\ call'[t].pc = "w_entry" /\ t # NoTask
      BY <1>1, <1>3, <1>4, <1>5, DriverAssumption
    <2> QED
      BY <1>10, <1>11, <2>1 DEF Completed, Pending, At
  <1> DEFINE line == Append(LogPending, Head(LogLeft))
  <1>13. heap'[b] = line
    BY <1>1, <1>2, <1>6, GrownLine
  <1>14. LineIn(heap', e) = heap'[b]
    BY <1>7, <1>8, <1>9 DEF LineIn
  <1>15. \A s \in Slots : Completed.entry[s].buffptr # NULL =>
           heap'[Completed.entry[s].buffptr] = heap[Completed.entry[s].buffptr]
    BY <1>1, <1>2, DriverAssumption, GrowKeepsLines
  <1>16. \A k \in 1 .. Count(circular_buf) :
           LineIn(heap', OldestFirst(circular_buf)[k])
             = LineIn(heap, OldestFirst(circular_buf)[k])
    <2> SUFFICES ASSUME NEW k \in 1 .. Count(circular_buf)
                 PROVE  LineIn(heap', OldestFirst(circular_buf)[k])
                          = LineIn(heap, OldestFirst(circular_buf)[k])
      OBVIOUS
    <2>1. PICK s \in Slots : /\ OldestFirst(circular_buf)[k] = circular_buf.entry[s]
                             /\ circular_buf.entry[s].buffptr # NULL
      BY <1>8, WindowSlots
    <2> DEFINE d == OldestFirst(circular_buf)[k]
    <2>2. heap'[d.buffptr] = heap[d.buffptr]
      BY <1>3, <1>15, <2>1
    <2> HIDE DEF d
    <2>3. LineIn(heap', d) = LineIn(heap, d)
      BY <2>2 DEF LineIn
    <2> QED
      BY <2>3 DEF d
  <1>17. LinesIn(heap', AddEntry(circular_buf, e))
           = IF Len(LinesIn(heap, circular_buf)) < MaxOps
             THEN Append(LinesIn(heap, circular_buf), LineIn(heap', e))
             ELSE Append(Tail(LinesIn(heap, circular_buf)), LineIn(heap', e))
    <2> DEFINE h == heap'
    <2>1. \A k \in 1 .. Count(circular_buf) :
            LineIn(h, OldestFirst(circular_buf)[k])
              = LineIn(heap, OldestFirst(circular_buf)[k])
      BY <1>16
    <2> HIDE DEF h
    <2>2. LinesIn(h, AddEntry(circular_buf, e))
            = IF Len(LinesIn(heap, circular_buf)) < MaxOps
              THEN Append(LinesIn(heap, circular_buf), LineIn(h, e))
              ELSE Append(Tail(LinesIn(heap, circular_buf)), LineIn(h, e))
      BY <1>8, <1>9, <2>1, LinesGrow, SMTT(30)
    <2> QED
      BY <2>2 DEF h
  <1> HIDE DEF line
  <1>18. LogWindow' = IF Len(LogWindow) < MaxOps
                      THEN Append(LogWindow, line)
                      ELSE Append(Tail(LogWindow), line)
    <2>1. LogWindow = LinesIn(heap, circular_buf)
      BY <1>3 DEF LogWindow
    <2>2. LogWindow' = LinesIn(heap', AddEntry(circular_buf, e))
      BY <1>1, <1>3, <1>12 DEF LogWindow
    <2> QED
      BY <1>13, <1>14, <1>17, <2>1, <2>2
  <1>19. LogPending' = <<>>
    BY <1>12 DEF LogPending
  <1>20. Head(LogLeft) = NL /\ line = Append(LogPending, Head(LogLeft))
    BY <1>1, <1>6 DEF line
  <1> QED
    BY <1>6, <1>18, <1>19, <1>20, LogPuts

\* add_entry was complete already to who looks at the log; the block it handed
\* back holds a line that has left the window.
LEMMA WriteEntryStays ==
  ASSUME Inv, Inv', NEW t \in Tasks, WriteEntry(t)
  PROVE  /\ StoreStays /\ WriterIn /\ WriterIn' /\ mtx = t /\ mtx' = t
         /\ call'[t].arg = call[t].arg /\ call'[t].i = call[t].i
  <1> DEFINE c == [call[t] EXCEPT !.pc = "w_byte", !.old_buff = NULL]
             p == call[t].old_buff
  <1>1. /\ TypeOK /\ LockMatchesSections /\ TypeOK' /\ LockMatchesSections'
        /\ call[t] \in Calls /\ call[t].pc = "w_entry"
    BY DEF Inv, TypeOK, WriteEntry, At
  <1>2. /\ circular_buf' = AddEntry(circular_buf, ThisEntry)
        /\ kfree(p) /\ g_buff' = NULL /\ Continue(t, c)
        /\ loaded' = loaded /\ mtx' = mtx
    BY DEF WriteEntry, lockVars
  <1>3. mtx = t /\ t # NoTask
    BY <1>1, DriverAssumption, WriterIs DEF Writing
  <1>4. Completed = AddEntry(circular_buf, ThisEntry) /\ Pending = NULL
    BY <1>1, <1>3 DEF Completed, Pending, At
  <1>5. c.pc = "w_byte" /\ c.i = call[t].i /\ c.arg = call[t].arg
    BY <1>1 DEF Calls
  <1> HIDE DEF c
  <1>6. call'[t] = c
    BY <1>2, ContinueGoes
  <1>7. Completed' = Completed /\ Pending' = Pending
    <2>1. mtx' = t /\ call'[t].pc # "w_entry"
      BY <1>2, <1>3, <1>5, <1>6
    <2>2. Completed' = circular_buf' /\ Pending' = NULL
      BY <1>2, <2>1 DEF Completed, Pending, At
    <2> QED
      BY <1>2, <1>4, <2>2
  <1>8. WriterIn /\ WriterIn' /\ mtx' = t
    BY <1>1, <1>2, <1>3, <1>5, <1>6 DEF WriterIn, Writing
  <1>9. \A m \in Addr \ {p} : heap'[m] = heap[m]
    <2>1. p \in Addr \cup {NULL}
      BY <1>1 DEF Calls
    <2> HIDE DEF p
    <2> QED
      BY <1>1, <1>2, <2>1, kfreeFrees
  <1>10. \A s \in Slots : Completed.entry[s].buffptr # NULL =>
           heap'[Completed.entry[s].buffptr] = heap[Completed.entry[s].buffptr]
    BY <1>9, LineBlocks
  <1>11. StoreStays
    BY <1>2, <1>4, <1>7, <1>10 DEF StoreStays
  <1> QED
    BY <1>3, <1>5, <1>6, <1>8, <1>11

LEMMA WriteEntryLog ==
  ASSUME Inv, Inv', NEW t \in Tasks, WriteEntry(t)
  PROVE  UNCHANGED Log!vars
  <1>1. /\ StoreStays /\ WriterIn /\ WriterIn' /\ mtx = t /\ mtx' = t
        /\ call'[t].arg = call[t].arg /\ call'[t].i = call[t].i
    BY WriteEntryStays
  <1>2. LogWriter' = LogWriter /\ LogLeft' = LogLeft
    BY <1>1 DEF LogWriter, LogLeft, BytesLeft
  <1>3. LogWindow' = LogWindow /\ LogPending' = LogPending
    BY <1>1, LogStays DEF StoreStays
  <1> QED
    BY <1>2, <1>3, LogStutters

\* Neither a file that is opened or closed nor an oops shows in the log.
LEMMA SameStoreAside ==
  ASSUME UNCHANGED <<memVars, devVars, mtx, call>>
  PROVE  Aside
  <1>1. /\ heap' = heap /\ loaded' = loaded /\ circular_buf' = circular_buf
        /\ g_buff' = g_buff /\ g_len' = g_len /\ mtx' = mtx /\ call' = call
    BY DEF memVars, devVars
  <1>2. Completed' = Completed /\ Pending' = Pending
    BY <1>1 DEF Completed, Pending, At, ThisEntry
  <1>3. StoreStays
    BY <1>1, <1>2 DEF StoreStays, Pending
  <1>4. WriterStays
    BY <1>1 DEF WriterStays, WriterIn
  <1> QED
    BY <1>3, <1>4 DEF Aside

\* Outside insmod and rmmod, with nobody inside, there is no writer.
LEMMA NobodyWrites ==
  ASSUME mtx = NoTask
  PROVE  LogWriter = NoTask /\ LogLeft = <<>>
  BY DEF LogWriter, LogLeft, WriterIn

LEMMA aesd_init_moduleLog ==
  ASSUME Inv, Inv', aesd_init_module
  PROVE  UNCHANGED Log!vars
  <1>1. /\ ~loaded /\ loaded' /\ circular_buf' = EmptyBuffer /\ g_buff' = NULL
        /\ mtx' = mtx /\ call' = call
    BY DEF aesd_init_module, lockVars
  <1>2. mtx = NoTask
    <2>1. opened = {}
      BY <1>1 DEF Inv, StoreOK, DeviceOK
    <2> QED
      BY <2>1, NobodyInside
  <1>3. Completed' = EmptyBuffer /\ Pending' = NULL
    BY <1>1, <1>2 DEF Completed, Pending
  <1>4. LogWindow = <<>> /\ LogPending = <<>>
    BY <1>1 DEF LogWindow, LogPending
  <1>5. LogWindow' = <<>> /\ LogPending' = <<>>
    <2>1. Count(EmptyBuffer) = 0
      BY DEF EmptyBuffer, Count
    <2> DEFINE h == heap'
    <2> HIDE DEF h
    <2>2. LinesIn(h, EmptyBuffer) = <<>>
      BY <2>1 DEF LinesIn
    <2>3. LinesIn(heap', EmptyBuffer) = <<>>
      BY <2>2 DEF h
    <2> QED
      BY <1>1, <1>3, <2>3 DEF LogWindow, LogPending
  <1>6. LogWriter' = LogWriter /\ LogLeft' = LogLeft
    BY <1>1, <1>2 DEF LogWriter, LogLeft, WriterIn
  <1> QED
    BY <1>4, <1>5, <1>6, LogStutters

LEMMA aesd_cleanup_moduleLog ==
  ASSUME Inv, aesd_cleanup_module
  PROVE  Log!Forget
  <1>1. opened = {} /\ ~loaded' /\ mtx' = mtx
    BY DEF aesd_cleanup_module, lockVars
  <1>2. mtx = NoTask
    BY <1>1, NobodyInside
  <1>3. LogWriter = NoTask /\ LogLeft = <<>>
    BY <1>2, NobodyWrites
  <1>4. LogWriter' = LogWriter /\ LogLeft' = LogLeft
    BY <1>1, <1>2 DEF LogWriter, LogLeft, WriterIn
  <1>5. LogWindow' = <<>> /\ LogPending' = <<>>
    BY <1>1 DEF LogWindow, LogPending
  <1> QED
    BY <1>3, <1>4, <1>5, LogForgets

LEMMA InitLog == Init => Log!Init
  <1> SUFFICES ASSUME Init
               PROVE  Log!Init
    OBVIOUS
  <1>1. ~loaded /\ mtx = NoTask
    BY DEF Init
  <1>2. LogWindow = <<>> /\ LogPending = <<>>
    BY <1>1 DEF LogWindow, LogPending
  <1> QED
    BY <1>1, <1>2, NobodyWrites, LogStarts

\* One step per action.
LEMMA NextLog == Inv /\ Inv' /\ [Next]_vars => [Log!Next]_(Log!vars)
  <1> SUFFICES ASSUME Inv, Inv', [Next]_vars
               PROVE  Log!Next \/ UNCHANGED Log!vars
    OBVIOUS
  <1>1. CASE aesd_init_module
    BY <1>1, aesd_init_moduleLog
  <1>2. CASE aesd_cleanup_module
    BY <1>2, aesd_cleanup_moduleLog DEF Log!Next
  <1>3. ASSUME NEW f \in Files, aesd_open(f) \/ aesd_release(f)
        PROVE  UNCHANGED Log!vars
    <2>1. UNCHANGED <<memVars, devVars, mtx, call>>
      BY <1>3 DEF aesd_open, aesd_release, lockVars
    <2> QED
      BY <2>1, SameStoreAside, AsideStutters
  <1>4. ASSUME NEW t \in Tasks, NEW f \in Files, Begin(t, f)
        PROVE  UNCHANGED Log!vars
    BY <1>4, BeginAside, AsideStutters
  <1>5. ASSUME NEW t \in Tasks, Lock(t)
        PROVE  Log!Next \/ UNCHANGED Log!vars
    BY <1>5, LockLog DEF Log!Next
  <1>6. ASSUME NEW t \in Tasks, Interrupted(t)
        PROVE  UNCHANGED Log!vars
    BY <1>6, InterruptedAside, AsideStutters
  <1>7. ASSUME NEW t \in Tasks, LockOops(t)
        PROVE  UNCHANGED Log!vars
    BY <1>7, SameStoreAside, AsideStutters DEF LockOops
  <1>8. ASSUME NEW t \in Tasks, Step(t)
        PROVE  Log!Next \/ UNCHANGED Log!vars
    <2>1. CASE WriteChar(t)
      BY <2>1, WriteCharLog DEF Log!Next
    <2>2. CASE WriteNewline(t)
      BY <2>2, WriteNewlineLog DEF Log!Next
    <2>3. CASE WriteEntry(t)
      BY <2>3, WriteEntryLog
    <2>4. CASE WriteNoMem(t) \/ WriteEnd(t)
      BY <2>4, WriteEndsLog DEF Log!Next
    <2>5. CASE QuietSteps(t)
      BY <2>5, QuietStepsAside, AsideStutters
    <2> QED
      BY <1>8, <2>1, <2>2, <2>3, <2>4, <2>5 DEF Step, QuietSteps
  <1>9. CASE UNCHANGED vars
    BY <1>9, SameStoreAside, AsideStutters DEF vars, lockVars
  <1> QED
    BY <1>1, <1>2, <1>3, <1>4, <1>5, <1>6, <1>7, <1>8, <1>9 DEF Next

\* The device keeps its writers' promise for any number of callers, files,
\* blocks and slots: the last MaxOps lines in the order they were completed,
\* and the bytes of each write together, whatever else runs, fails, is
\* interrupted or is unloaded.
THEOREM DriverImplementsLog == Spec => ImplementsLog
  <1>1. Init => Log!Init
    BY InitLog
  <1>2. Inv /\ Inv' /\ [Next]_vars => [Log!Next]_(Log!vars)
    BY NextLog
  <1> QED
    BY <1>1, <1>2, InvHolds, PTL DEF Spec, ImplementsLog, Log!Spec

(***************************************************************************)
(* The commands end to end.                                                *)
(***************************************************************************)

\* The k-th oldest command, by its block.
Block(k) == heap[OldestFirst(Completed)[k].buffptr]

\* The first n commands are sequences of bytes, as long as their entries say.
LEMMA FirstLines ==
  ASSUME Inv, loaded, NEW n \in 0 .. Count(Completed)
  PROVE  /\ SubSeq(Lines(Completed), 1, n) \in Seq(Seq(Chars))
         /\ Len(SubSeq(Lines(Completed), 1, n)) = n
         /\ \A k \in 1 .. n :
              /\ SubSeq(Lines(Completed), 1, n)[k] = Block(k)
              /\ Block(k) \in Seq(Chars)
              /\ Len(Block(k)) = OldestFirst(Completed)[k].size
  <1> DEFINE v == Lines(Completed)
             w == SubSeq(v, 1, n)
             c == Count(Completed)
  <1>1. /\ Completed \in Buffers(Addr) /\ RingShape(Completed)
        /\ \A k \in 1 .. c : /\ LineIn(heap, OldestFirst(Completed)[k]) = Block(k)
                             /\ Block(k) \in Seq(Chars)
    BY WindowLines DEF Block
  <1>2. c \in 0 .. MaxOps /\ MaxOps \in Nat
    BY <1>1, WindowElements, MaxOpsAssumption
  <1>3. \A k \in 1 .. c : Len(Block(k)) = OldestFirst(Completed)[k].size
    BY InvLines DEF LinesWellFormed, Block
  <1>4. v = [k \in 1 .. c |-> Line(OldestFirst(Completed)[k])]
    BY DEF Lines
  <1>5. \A k \in 1 .. c : v[k] = Block(k)
    BY <1>1, <1>4 DEF Line, LineIn
  <1>6. n \in 0 .. c
    OBVIOUS
  <1> HIDE DEF c
  <1>7. v = [k \in 1 .. c |-> v[k]]
    BY <1>4
  <1> HIDE DEF v
  <1>8. v \in Seq(Seq(Chars)) /\ Len(v) = c
    <2> DEFINE Q == Seq(Chars)
    <2>1. \A k \in 1 .. c : v[k] \in Q
      BY <1>1, <1>5
    <2>2. c \in Nat
      BY <1>2
    <2> HIDE DEF Q
    <2>3. v \in Seq(Q) /\ Len(v) = c
      BY <1>7, <2>1, <2>2, TableIsSeq
    <2> QED
      BY <2>3 DEF Q
  <1>9. /\ w \in Seq(Seq(Chars)) /\ Len(w) = n
        /\ \A k \in 1 .. n : w[k] = v[k]
    <2> DEFINE Q == Seq(Chars)
    <2>1. v \in Seq(Q) /\ Len(v) = c /\ n \in 0 .. c /\ c \in Nat
      BY <1>2, <1>6, <1>8
    <2> HIDE DEF Q
    <2>2. w \in Seq(Q) /\ Len(w) = n /\ \A k \in 1 .. n : w[k] = v[k]
      BY <2>1
    <2> QED
      BY <2>2 DEF Q
  <1>10. \A k \in 1 .. n : k \in 1 .. c
    BY <1>2, <1>6
  <1> HIDE DEF w
  <1>11. \A k \in 1 .. n : /\ w[k] = Block(k)
                           /\ Block(k) \in Seq(Chars)
                           /\ Len(Block(k)) = OldestFirst(Completed)[k].size
    BY <1>1, <1>3, <1>5, <1>9, <1>10 DEF c
  <1> QED
    BY <1>9, <1>11 DEF v, w

\* Where each byte of the first n commands is, by the sums of the search loop.
LEMMA LinesPlaces ==
  ASSUME Inv, loaded, NEW n \in 0 .. Count(Completed)
  PROVE  LET s == FlattenSeq(SubSeq(Lines(Completed), 1, n))
             total == TotalBytesSize(Completed)
         IN  /\ s \in Seq(Chars)
             /\ Len(s) = total[n]
             /\ \A k \in 1 .. n : \A j \in 1 .. OldestFirst(Completed)[k].size :
                  s[total[k - 1] + j] = Block(k)[j]
  <1> DEFINE w == SubSeq(Lines(Completed), 1, n)
             total == TotalBytesSize(Completed)
             v == OldestFirst(Completed)
             start == [k \in 0 .. n |-> total[k]]
             c == Count(Completed)
  <1>1. Completed \in Buffers(Addr) /\ RingShape(Completed)
    BY WindowLines
  <1>2. c \in 0 .. MaxOps /\ MaxOps \in Nat /\ n \in 0 .. c
    BY <1>1, WindowElements, MaxOpsAssumption
  <1>3. /\ total \in [0 .. MaxOps -> Nat] /\ total[0] = 0
        /\ \A k \in 1 .. c : total[k] = total[k - 1] + v[k].size
    BY <1>1, WindowTotals
  <1>4. /\ w \in Seq(Seq(Chars)) /\ Len(w) = n
        /\ \A k \in 1 .. n : w[k] = Block(k) /\ Len(Block(k)) = v[k].size
    BY FirstLines
  <1> HIDE DEF w, total, v, c
  <1>5. start \in [0 .. n -> Nat] /\ start[0] = 0
    BY <1>2, <1>3
  <1>6. ASSUME NEW k \in 1 .. n
        PROVE  start[k] = start[k - 1] + Len(w[k]) /\ start[k - 1] = total[k - 1]
    <2>1. k \in 1 .. c /\ k \in 0 .. n /\ k - 1 \in 0 .. n
      BY <1>2
    <2> QED
      BY <1>3, <1>4, <2>1
  <1>7. start[n] = total[n] /\ n \in Nat
    BY <1>2
  <1> HIDE DEF start
  <1>8. /\ FlattenSeq(w) \in Seq(Chars)
        /\ Len(FlattenSeq(w)) = start[n]
        /\ \A k \in 1 .. n : \A j \in 1 .. Len(w[k]) :
             FlattenSeq(w)[start[k - 1] + j] = w[k][j]
    <2>1. w \in Seq(Seq(Chars)) /\ start \in [0 .. Len(w) -> Nat] /\ start[0] = 0
      BY <1>4, <1>5
    <2>2. \A k \in 1 .. Len(w) : start[k] = start[k - 1] + Len(w[k])
      BY <1>4, <1>6
    <2>3. Placed(Chars, w, start)
      BY <2>1, <2>2, FlattenedPlaces
    <2> QED
      BY <1>4, <2>3 DEF Placed
  <1>9. ASSUME NEW k \in 1 .. n, NEW j \in 1 .. v[k].size
        PROVE  FlattenSeq(w)[total[k - 1] + j] = Block(k)[j]
    <2>1. start[k - 1] = total[k - 1]
      BY <1>6
    <2>2. j \in 1 .. Len(w[k]) /\ w[k] = Block(k)
      BY <1>4
    <2>3. FlattenSeq(w)[start[k - 1] + j] = w[k][j]
      BY <1>8, <2>2
    <2> QED
      BY <2>1, <2>2, <2>3
  <1> QED
    BY <1>7, <1>8, <1>9 DEF w, total, v

\* What a reader sees: all the commands, each byte where the sums say.
LEMMA ContentPlaces ==
  ASSUME Inv, NEW t \in Tasks, call[t].pc = "r_copy"
  PROVE  LET total == TotalBytesSize(circular_buf)
             n == Count(circular_buf)
         IN  /\ circular_buf \in Buffers(Addr) /\ RingShape(circular_buf)
             /\ Content \in Seq(Chars)
             /\ Len(Content) = total[n]
             /\ \A k \in 1 .. n :
                  LET e == OldestFirst(circular_buf)[k]
                  IN  /\ e.size \in Nat
                      /\ heap[e.buffptr] \in Seq(Chars)
                      /\ Len(heap[e.buffptr]) = e.size
                      /\ \A j \in 1 .. e.size :
                           Content[total[k - 1] + j] = heap[e.buffptr][j]
  <1> DEFINE n == Count(Completed)
             total == TotalBytesSize(Completed)
             v == OldestFirst(Completed)
             w == SubSeq(Lines(Completed), 1, n)
  <1>1. Completed = circular_buf
    BY ReaderSeesLines
  <1>2. loaded
    BY DEF Inv, CallsOK, CallOK, StoreOK, DeviceOK
  <1>3. Completed \in Buffers(Addr) /\ RingShape(Completed)
    BY <1>2, WindowLines
  <1>4. n \in 0 .. MaxOps /\ MaxOps \in Nat
    BY <1>3, WindowElements, MaxOpsAssumption
  <1>5. n \in 0 .. Count(Completed)
    BY <1>4
  <1>6. /\ \A k \in 1 .. n : /\ Block(k) \in Seq(Chars)
                             /\ Len(Block(k)) = v[k].size
    BY <1>2, <1>5, FirstLines
  <1>7. /\ FlattenSeq(w) \in Seq(Chars)
        /\ Len(FlattenSeq(w)) = total[n]
        /\ \A k \in 1 .. n : \A j \in 1 .. v[k].size :
             FlattenSeq(w)[total[k - 1] + j] = Block(k)[j]
    BY <1>2, <1>5, LinesPlaces
  <1>8. w = Lines(Completed)
    <2>1. Lines(Completed) = [k \in 1 .. n |-> Line(v[k])]
      BY DEF Lines
    <2>2. /\ w = [k \in 1 .. n |-> Lines(Completed)[k]]
      BY <1>4, <2>1
    <2> QED
      BY <2>1, <2>2
  <1>9. FlattenSeq(w) = Content
    BY <1>1, <1>8 DEF Content
  <1>10. \A k \in 1 .. n : v[k].size \in Nat
    BY <1>6
  <1> HIDE DEF w
  <1> QED
    BY <1>1, <1>3, <1>6, <1>7, <1>9, <1>10 DEF Block

(***************************************************************************)
(* What a read returns.                                                    *)
(***************************************************************************)

\* Where a read from `from` of `count` bytes ends.
ReadEnd(from, count) ==
  IF from >= Len(Content)
  THEN from
  ELSE IF from + count <= Len(Content) THEN from + count ELSE Len(Content)

\* One turn of the loop copies up to the end of an entry or of the request.
LEMMA ChunkIsSlice ==
  ASSUME Inv, NEW t \in Tasks, call[t].pc = "r_copy",
         NEW from \in Nat, NEW count \in Nat, NEW done \in Seq(Chars)
  PROVE  LET off == from + Len(done)
             total == TotalBytesSize(circular_buf)
         IN  IF Len(done) < count /\ off < Len(Content)
             THEN \E k \in 1 .. Count(circular_buf) :
                    LET z == IF total[k] <= from + count THEN total[k] ELSE from + count
                    IN  /\ total[k - 1] <= off /\ off < total[k]
                        /\ z <= Len(Content)
                        /\ Chunk(from, count, done) = SubSeq(Content, off + 1, z)
             ELSE Chunk(from, count, done) = <<>>
  <1> DEFINE b == circular_buf
             off == from + Len(done)
             total == TotalBytesSize(b)
             n == Count(b)
             v == OldestFirst(b)
             found == FindEntry(b, off)
             chunk == Chunk(from, count, done)
  <1>1. /\ b \in Buffers(Addr) /\ RingShape(b)
        /\ Content \in Seq(Chars) /\ Len(Content) = total[n]
        /\ \A k \in 1 .. n : /\ v[k].size \in Nat
                             /\ heap[v[k].buffptr] \in Seq(Chars)
                             /\ Len(heap[v[k].buffptr]) = v[k].size
                             /\ \A j \in 1 .. v[k].size :
                                  Content[total[k - 1] + j] = heap[v[k].buffptr][j]
    BY ContentPlaces
  <1>2. /\ n \in 0 .. MaxOps /\ MaxOps \in Nat /\ off \in Nat /\ Len(done) \in Nat
    BY <1>1, WindowElements, MaxOpsAssumption
  <1>3. /\ total \in [0 .. MaxOps -> Nat]
        /\ \A k \in 1 .. n : total[k] = total[k - 1] + v[k].size
        /\ \A k \in 0 .. MaxOps : \A j \in 0 .. k : total[j] <= total[k]
    BY <1>1, WindowTotals
  <1>4. chunk = IF Len(done) < count /\ found.found
                THEN SubSeq(heap[found.entry.buffptr], found.entry_offset + 1,
                            found.entry_offset
                              + Min({found.entry.size - found.entry_offset,
                                     count - Len(done)}))
                ELSE <<>>
    BY DEF Chunk
  <1> DEFINE hit == found.found
             at == found.entry_offset
             entry == found.entry
  <1>5. /\ hit <=> off < total[n]
        /\ hit => \E k \in 1 .. n : /\ entry = v[k]
                                    /\ at = off - total[k - 1]
                                    /\ total[k - 1] <= off
                                    /\ off < total[k]
    <2> HIDE DEF off
    <2> QED
      BY <1>1, <1>2, FindEntryInWindow
  <1>6. chunk = IF Len(done) < count /\ hit
                THEN SubSeq(heap[entry.buffptr], at + 1,
                            at + Min({entry.size - at, count - Len(done)}))
                ELSE <<>>
    BY <1>4
  <1>7. off = from + Len(done)
    OBVIOUS
  <1> HIDE DEF found, hit, at, entry, b, n, v, total, chunk, off
  <1>8. CASE Len(done) < count /\ hit
    <2>1. PICK k \in 1 .. n : /\ entry = v[k]
                              /\ at = off - total[k - 1]
                              /\ total[k - 1] <= off
                              /\ off < total[k]
      BY <1>5, <1>8
    <2> DEFINE lo == total[k - 1]
               hi == total[k]
               size == v[k].size
               block == heap[v[k].buffptr]
               len == Len(Content)
               want == from + count
               z == IF hi <= want THEN hi ELSE want
    <2>2. lo \in Nat /\ hi \in Nat /\ len \in Nat /\ hi = lo + size /\ hi <= len
      <3>1. /\ k - 1 \in 0 .. MaxOps /\ k \in 0 .. MaxOps /\ n \in 0 .. MaxOps
            /\ k \in 0 .. n
        BY <1>2
      <3>2. total[k] <= total[n] /\ total[n] \in Nat
        BY <1>3, <3>1
      <3> QED
        BY <1>1, <1>3, <3>1, <3>2
    <2>3. at = off - lo /\ lo <= off /\ off < hi
      BY <2>1
    <2>4. entry.size = size /\ entry.buffptr = v[k].buffptr
      BY <2>1
    <2>5. block \in Seq(Chars) /\ Len(block) = size /\ size \in Nat
      BY <1>1
    <2>6. \A j \in 1 .. size : Content[lo + j] = block[j]
      BY <1>1
    <2>7. want \in Nat /\ off < want /\ count - Len(done) = want - off
      BY <1>2, <1>7, <1>8
    <2>8. chunk = SubSeq(block, at + 1, at + Min({size - at, want - off}))
      BY <1>6, <1>8, <2>4, <2>7
    <2>9. lo = total[k - 1] /\ hi = total[k]
      OBVIOUS
    <2> HIDE DEF lo, hi, size, block, len, want
    <2>10. /\ at \in Nat /\ size - at = hi - off /\ off \in Nat
           /\ size - at \in Int /\ want - off \in Int
      BY <1>2, <2>2, <2>3, <2>5, <2>7
    <2>11. Min({size - at, want - off}) = z - off
      <3>1. Min({size - at, want - off})
              = IF size - at <= want - off THEN size - at ELSE want - off
        <4> DEFINE x == size - at
                   y == want - off
        <4>1. x \in Int /\ y \in Int
          BY <2>10
        <4> HIDE DEF x, y
        <4>2. Min({x, y}) = IF x <= y THEN x ELSE y
          BY <4>1, LesserOfTwo
        <4> QED
          BY <4>2 DEF x, y
      <3>2. size - at <= want - off <=> hi <= want
        BY <2>2, <2>7, <2>10, SMTT(30)
      <3> QED
        BY <2>10, <3>1, <3>2
    <2>12. z \in Nat /\ off <= z /\ z <= len /\ z <= hi
      BY <2>2, <2>3, <2>7, <2>10, SMTT(30)
    <2>13. chunk = SubSeq(block, at + 1, at + (z - off))
      BY <2>8, <2>11
    <2> HIDE DEF z
    <2>14. chunk = SubSeq(Content, off + 1, z)
      <3> DEFINE q == at + (z - off)
                 s == SubSeq(block, at + 1, q)
                 u == SubSeq(Content, off + 1, z)
      <3>1. q \in Nat /\ at <= q /\ q <= size /\ q - at = z - off
        BY <2>2, <2>3, <2>5, <2>10, <2>12
      <3>2. chunk = s
        BY <2>13
      <3> HIDE DEF q
      <3>3. /\ s \in Seq(Chars) /\ Len(s) = q - at
            /\ \A m \in 1 .. q - at : s[m] = block[at + m]
        <4>1. q <= Len(block)
          BY <2>5, <3>1
        <4> QED
          BY <2>5, <2>10, <3>1, <4>1, SliceElements
      <3>4. /\ u \in Seq(Chars) /\ Len(u) = z - off
            /\ \A m \in 1 .. z - off : u[m] = Content[off + m]
        <4>1. Content \in Seq(Chars) /\ z <= Len(Content)
          BY <1>1, <2>12 DEF len
        <4> QED
          BY <2>10, <2>12, <4>1, SliceElements
      <3> HIDE DEF s, u
      <3>5. ASSUME NEW m \in 1 .. z - off
            PROVE  s[m] = u[m]
        <4> DEFINE j == at + m
        <4>1. j \in 1 .. size /\ lo + j = off + m
          BY <2>2, <2>3, <2>5, <2>10, <2>12
        <4>2. m \in 1 .. q - at
          BY <3>1
        <4> HIDE DEF j
        <4>3. Content[lo + j] = block[j]
          BY <2>6, <4>1
        <4> QED
          BY <3>3, <3>4, <4>1, <4>2, <4>3 DEF j
      <3>6. Len(s) = Len(u) /\ \A m \in 1 .. Len(s) : s[m] = u[m]
        BY <3>1, <3>3, <3>4, <3>5
      <3>7. s = u
        BY <3>3, <3>4, <3>6, SameSequence
      <3> QED
        BY <3>2, <3>7 DEF u
    <2>15. off < Len(Content)
      BY <1>1, <1>5, <1>8
    <2>16. \E k_1 \in 1 .. n :
             LET z_1 == IF total[k_1] <= from + count THEN total[k_1] ELSE from + count
             IN  /\ total[k_1 - 1] <= off /\ off < total[k_1]
                 /\ z_1 <= Len(Content)
                 /\ chunk = SubSeq(Content, off + 1, z_1)
      BY <2>1, <2>12, <2>14 DEF z, hi, want, len
    <2> QED
      BY <1>8, <2>15, <2>16 DEF b, n, total, chunk, off
  <1>9. CASE ~(Len(done) < count /\ hit)
    <2>1. chunk = <<>>
      BY <1>6, <1>9
    <2>2. ~(Len(done) < count /\ off < Len(Content))
      BY <1>1, <1>5, <1>9
    <2> QED
      BY <2>1, <2>2 DEF chunk, off
  <1> QED
    BY <1>8, <1>9

\* What a read returns: the bytes from its position to its end.
LEMMA CopiedIsSlice ==
  ASSUME Inv, NEW t \in Tasks, call[t].pc = "r_copy",
         NEW from \in Nat, NEW count \in Nat
  PROVE  /\ Content \in Seq(Chars)
         /\ Copied(from, count) \in Seq(Chars)
         /\ from + Len(Copied(from, count)) = ReadEnd(from, count)
         /\ from < Len(Content) =>
              Copied(from, count) = SubSeq(Content, from + 1, ReadEnd(from, count))
  <1> DEFINE b == circular_buf
             total == TotalBytesSize(b)
             n == Count(b)
             len == Len(Content)
             end == ReadEnd(from, count)
             chunk(d) == Chunk(from, count, d)
  <1>1. b \in Buffers(Addr) /\ RingShape(b) /\ Content \in Seq(Chars) /\ len = total[n]
    BY ContentPlaces
  <1>2. n \in 0 .. MaxOps /\ MaxOps \in Nat /\ len \in Nat
    BY <1>1, WindowElements, MaxOpsAssumption
  <1>3. /\ total \in [0 .. MaxOps -> Nat] /\ total[0] = 0
        /\ \A k \in 0 .. MaxOps : \A j \in 0 .. k : total[j] <= total[k]
    BY <1>1, WindowTotals
  <1>4. PICK turn \in [0 .. MaxOps -> Seq(Chars)] :
          /\ turn[0] = <<>>
          /\ \A k \in 1 .. MaxOps : turn[k] = turn[k - 1] \o chunk(turn[k - 1])
          /\ Copied(from, count) = turn[MaxOps]
    <2>1. BytesInPlace /\ circular_buf \in Buffers(Addr)
          /\ heap \in [Addr -> Seq(Chars)]
      BY ReaderSeesLines DEF Inv, TypeOK
    <2> QED
      BY <2>1, CopiedTurns
  <1>5. /\ end \in Nat /\ from <= end /\ end <= from + count
        /\ from < len => end <= len
        /\ ~(from < len) => end = from
        /\ end = from + count \/ end >= len
    BY <1>2 DEF ReadEnd
  <1>6. ASSUME NEW d \in Seq(Chars), from + Len(d) <= end
        PROVE  /\ from + Len(d) = end => chunk(d) = <<>>
               /\ from + Len(d) # end =>
                    \E k \in 1 .. n : \E z \in Nat :
                      /\ total[k - 1] <= from + Len(d) /\ from + Len(d) < total[k]
                      /\ z = (IF total[k] <= end THEN total[k] ELSE end)
                      /\ chunk(d) = SubSeq(Content, from + Len(d) + 1, z)
    <2> DEFINE off == from + Len(d)
               want == from + count
    <2>1. Len(d) \in Nat /\ off \in Nat
      OBVIOUS
    <2>2. IF Len(d) < count /\ off < len
          THEN \E k \in 1 .. n :
                 LET z == IF total[k] <= want THEN total[k] ELSE want
                 IN  /\ total[k - 1] <= off /\ off < total[k]
                     /\ z <= len
                     /\ chunk(d) = SubSeq(Content, off + 1, z)
          ELSE chunk(d) = <<>>
      BY ChunkIsSlice
    <2>4. want = from + count /\ off = from + Len(d) /\ off <= end
      BY <1>6
    <2> HIDE DEF total, n, len, end, chunk, off, want
    <2>3. off = end <=> ~(Len(d) < count /\ off < len)
      <3> DEFINE m == Len(d)
      <3>1. m \in Nat /\ off = from + m
        BY <2>1, <2>4
      <3> HIDE DEF m
      <3>2. off = end <=> ~(m < count /\ off < len)
        BY <1>2, <1>5, <2>1, <2>4, <3>1
      <3> QED
        BY <3>2 DEF m
    <2>5. CASE off = end
      BY <2>2, <2>3, <2>5, SMTT(30) DEF off
    <2>6. CASE off # end
      <3>1. PICK k \in 1 .. n :
              /\ total[k - 1] <= off /\ off < total[k]
              /\ (IF total[k] <= want THEN total[k] ELSE want) <= len
              /\ chunk(d) = SubSeq(Content, off + 1,
                                   IF total[k] <= want THEN total[k] ELSE want)
        BY <2>2, <2>3, <2>6
      <3> DEFINE hi == total[k]
                 z == IF hi <= end THEN hi ELSE end
      <3>2. hi \in Nat /\ hi <= len
        <4>1. k \in 0 .. MaxOps /\ n \in 0 .. MaxOps /\ k \in 0 .. n
          BY <1>2
        <4> QED
          BY <1>1, <1>3, <4>1 DEF total, n, len, b
      <3>3. hi = total[k]
        OBVIOUS
      <3> HIDE DEF hi
      <3>4. from < len /\ want \in Nat
        BY <1>2, <2>1, <2>3, <2>4, <2>6 DEF off
      <3>5. z = (IF hi <= want THEN hi ELSE want) /\ z \in Nat
        BY <1>2, <1>5, <2>4, <3>2, <3>4
      <3> QED
        BY <2>6, <3>1, <3>3, <3>5 DEF off
    <2> QED
      BY <2>5, <2>6
  <1>7. total[n] = len /\ end = ReadEnd(from, count)
    BY <1>1
  <1> HIDE DEF b, total, n, len, end, chunk
  <1> DEFINE Here(k) == /\ from + Len(turn[k]) <= end
                        /\ from + Len(turn[k]) = end \/ total[k] <= from + Len(turn[k])
                        /\ turn[k] = <<>> \/ from < len
                        /\ from < len =>
                             turn[k] = SubSeq(Content, from + 1, from + Len(turn[k]))
             T == {k \in 0 .. MaxOps : Here(k)}
  <1>8. 0 \in T
    <2>1. turn[0] = <<>> /\ Len(turn[0]) = 0 /\ total[0] = 0 /\ 0 \in 0 .. MaxOps
      BY <1>2, <1>3, <1>4
    <2>2. from < len => SubSeq(Content, from + 1, from) = <<>>
      BY <1>1
    <2> QED
      BY <1>5, <2>1, <2>2
  <1>9. ASSUME NEW k \in 1 .. MaxOps, k - 1 \in T
        PROVE  k \in T
    <2> DEFINE d == turn[k - 1]
               off == from + Len(d)
    <2>1. /\ d \in Seq(Chars) /\ Len(d) \in Nat /\ off \in Nat /\ k \in 0 .. MaxOps
          /\ k - 1 \in 0 .. MaxOps /\ turn[k] \in Seq(Chars)
      <3>1. k - 1 \in 0 .. MaxOps /\ k \in 0 .. MaxOps
        BY <1>2
      <3>2. d \in Seq(Chars)
        BY <3>1
      <3> QED
        BY <3>1, <3>2
    <2>2. /\ off <= end
          /\ off = end \/ total[k - 1] <= off
          /\ d = <<>> \/ from < len
          /\ from < len => d = SubSeq(Content, from + 1, off)
      BY <1>9
    <2>3. turn[k] = d \o chunk(d)
      BY <1>4
    <2>4. off = from + Len(d)
      OBVIOUS
    <2>5. CASE off = end
      <3>1. turn[k] = d
        BY <1>6, <2>1, <2>2, <2>3, <2>5
      <3> QED
        BY <1>9, <2>1, <2>2, <2>5, <3>1
    <2>6. CASE off # end
      <3>1. PICK j \in 1 .. n : \E z \in Nat :
              /\ total[j - 1] <= off /\ off < total[j]
              /\ z = (IF total[j] <= end THEN total[j] ELSE end)
              /\ chunk(d) = SubSeq(Content, off + 1, z)
        <4>1. d \in Seq(Chars) /\ from + Len(d) <= end /\ from + Len(d) # end
          BY <2>1, <2>2, <2>6
        <4> HIDE DEF d
        <4>2. \E j \in 1 .. n : \E z \in Nat :
                /\ total[j - 1] <= from + Len(d) /\ from + Len(d) < total[j]
                /\ z = (IF total[j] <= end THEN total[j] ELSE end)
                /\ chunk(d) = SubSeq(Content, from + Len(d) + 1, z)
          BY <1>6, <4>1
        <4> QED
          BY <4>2
      <3> DEFINE hi == total[j]
                 z == IF hi <= end THEN hi ELSE end
      <3> HIDE DEF off, d
      <3>11. /\ off < hi /\ hi = total[j]
             /\ z \in Nat /\ chunk(d) = SubSeq(Content, off + 1, z)
        BY <3>1
      <3>13. off \in Nat /\ end \in Nat /\ off <= end
        BY <1>5, <2>1, <2>2
      <3>14. from <= off
        BY <2>1, <2>4
      <3>2. from < len
        BY <1>5, <2>6, <3>13, <3>14
      <3>3. j \in 0 .. MaxOps /\ total[j] \in Nat /\ total[k] \in Nat /\ total[k - 1] \in Nat
        <4>1. j \in 0 .. MaxOps
          BY <1>2
        <4> QED
          BY <1>3, <2>1, <4>1
      <3>12. hi \in Nat
        BY <3>3
      <3> HIDE DEF hi
      <3>4. total[k] <= total[j]
        <4>1. CASE k <= j
          <5>1. k \in 0 .. j
            BY <2>1, <4>1
          <5> QED
            BY <1>3, <3>3, <5>1
        <4>2. CASE ~(k <= j)
          <5>1. j \in 0 .. k - 1
            BY <2>1, <3>3, <4>2
          <5>2. total[j] <= total[k - 1]
            BY <1>3, <2>1, <5>1
          <5>3. total[k - 1] <= off
            BY <2>2, <2>6
          <5> QED
            BY <2>1, <3>3, <3>11, <5>2, <5>3
        <4> QED
          BY <4>1, <4>2
      <3>5. off <= z /\ z <= end /\ (z = end \/ z = total[j])
        BY <3>11, <3>12, <3>13
      <3> HIDE DEF z
      <3>6. z <= Len(Content) /\ from <= off
        <4>1. z \in Nat /\ len \in Nat /\ end <= len
          BY <1>2, <1>5, <3>2, <3>11
        <4>2. z <= len
          BY <3>5, <3>13, <4>1
        <4> QED
          BY <3>14, <4>2 DEF len
      <3>7. turn[k] = SubSeq(Content, from + 1, z)
        <4>1. turn[k] = SubSeq(Content, from + 1, off) \o SubSeq(Content, off + 1, z)
          BY <2>2, <2>3, <3>2, <3>11
        <4>2. /\ Content \in Seq(Chars) /\ from \in Nat /\ off \in Nat /\ z \in Nat
              /\ from <= off /\ off <= z /\ z <= Len(Content)
          BY <1>1, <2>1, <3>5, <3>6, <3>11
        <4>3. SubSeq(Content, from + 1, off) \o SubSeq(Content, off + 1, z)
                = SubSeq(Content, from + 1, z)
          BY ONLY <4>2, SlicesMeet
        <4> QED
          BY <4>1, <4>3
      <3>8. Len(turn[k]) = z - from
        <4>1. from <= z
          BY <3>5, <3>6, <3>11, <3>13
        <4> QED
          BY <1>1, <3>6, <3>7, <3>11, <4>1, SliceElements
      <3>9. from + Len(turn[k]) = z
        BY <3>8, <3>11
      <3>10. z = end \/ total[k] <= z
        BY <3>3, <3>4, <3>5
      <3> QED
        BY <2>1, <3>2, <3>5, <3>7, <3>9, <3>10
    <2> QED
      BY <2>5, <2>6
  <1>10. 0 .. MaxOps \subseteq T
    <2> HIDE DEF T
    <2> QED
      BY <1>2, <1>8, <1>9, IntervalInduction
  <1>11. /\ MaxOps \in 0 .. MaxOps /\ Here(MaxOps)
         /\ turn[MaxOps] \in Seq(Chars) /\ Len(turn[MaxOps]) \in Nat
    <2>1. MaxOps \in 0 .. MaxOps
      BY <1>2
    <2>2. MaxOps \in T
      BY <1>10, <2>1
    <2>3. turn[MaxOps] \in Seq(Chars)
      BY <2>1
    <2> QED
      BY <2>1, <2>2, <2>3
  <1>12. from + Len(turn[MaxOps]) = end
    <2> DEFINE m == from + Len(turn[MaxOps])
    <2>1. m <= end /\ (m = end \/ total[MaxOps] <= m) /\ m \in Nat
      BY <1>11
    <2>2. (turn[MaxOps] = <<>> \/ from < len) /\ (turn[MaxOps] = <<>> => m = from)
      BY <1>11
    <2>3. len <= total[MaxOps] /\ total[MaxOps] \in Nat
      <3>1. MaxOps \in 0 .. MaxOps
        BY <1>2
      <3>2. total[n] <= total[MaxOps]
        BY <1>2, <1>3, <3>1
      <3> QED
        BY <1>3, <1>7, <3>1, <3>2
    <2> HIDE DEF m
    <2>4. m = end
      BY <1>2, <1>5, <2>1, <2>2, <2>3
    <2> QED
      BY <2>4 DEF m
  <1> QED
    BY <1>1, <1>4, <1>7, <1>11, <1>12 DEF len

\* Only the read loop gives a call bytes to return, and it alone ends there.
LEMMA DataFromRead ==
  ASSUME Inv, Next, NEW t \in Tasks,
         \/ call'[t].data # call[t].data /\ call'[t].data # <<>>
         \/ At(t, "r_copy") /\ At(t, "done")'
  PROVE  ReadCopy(t)
  <1>1. call'[t] # call[t] /\ call'[t] # NoCall
    BY DEF At, NoCall, NewCall
  <1>2. TypeOK
    BY DEF Inv
  <1>3. ASSUME NEW u \in Tasks, NEW c, Continue(u, c)
        PROVE  u = t /\ call'[t] = c
    BY <1>1, <1>2, <1>3 DEF Continue, TypeOK
  <1>4. PICK u \in Tasks : \/ \E f \in Files : Begin(u, f)
                           \/ Lock(u) \/ Interrupted(u) \/ Step(u)
    BY <1>1 DEF Next, aesd_init_module, aesd_cleanup_module, aesd_open,
                aesd_release, LockOops
  <1>5. call[t] \in Calls
    BY <1>2 DEF TypeOK
  <1>6. ASSUME NEW f \in Files
        PROVE  ~Begin(u, f)
    <2>1. ASSUME NEW pc, NEW arg, NEW wbuff, NEW pos, pc # "done",
                 Enter(u, NewCall(pc, f, arg, wbuff, pos))
          PROVE  FALSE
      BY <1>3, <2>1 DEF Enter, At, NewCall
    <2> QED
      BY <2>1 DEF Begin, WriteBegin, ReadBegin, LseekBegin, IoctlBegin
  <1>7. ~Interrupted(u)
    BY <1>1, <1>3 DEF Interrupted, Return
  <1>8. ~Lock(u)
    BY <1>3, <1>5 DEF Lock, At, Waiting, Calls
  <1>9. Step(u) /\ u = t
    BY <1>3, <1>4, <1>6, <1>7, <1>8, StepMoves
  <1>10. ~CallDone(t) /\ ~LseekStore(t) /\ ~IoctlStore(t)
    BY <1>1, <1>3 DEF CallDone, LseekStore, IoctlStore, StorePosition, Return
  <1>11. ASSUME NEW c, Continue(t, c), c.data = call[t].data, call[t].pc # "r_copy"
         PROVE  FALSE
    BY <1>3, <1>11 DEF At
  <1>12. ASSUME NEW next
         PROVE  [call[t] EXCEPT !.pc = next].data = call[t].data
    BY <1>5 DEF Calls
  <1>13. ~LseekSize(t) /\ ~IoctlCount(t) /\ ~IoctlSeek(t)
    <2> SUFFICES ASSUME NEW last, NEW amount, NEW next, call[t].pc # "r_copy",
                        Walk(t, last, amount, next)
                 PROVE  FALSE
      BY DEF LseekSize, IoctlCount, IoctlSeek, At
    <2>1. [call[t] EXCEPT !.i = @ + 1, !.acc = @ + amount].data = call[t].data
      BY <1>5 DEF Calls
    <2>2. \/ Continue(t, [call[t] EXCEPT !.i = @ + 1, !.acc = @ + amount])
          \/ Continue(t, [call[t] EXCEPT !.pc = next])
      BY DEF Walk
    <2> QED
      BY <1>11, <1>12, <2>1, <2>2
  <1>14. ~LseekCheck(t)
    <2> SUFFICES ASSUME LseekCheck(t) PROVE FALSE
      OBVIOUS
    <2>1. call[t].pc # "r_copy" /\ ~Continue(t, NoCall)
      BY <1>1, <1>3 DEF LseekCheck, At
    <2>2. PICK np : Continue(t, [call[t] EXCEPT !.pc = "l_store", !.pos = np])
      BY <2>1 DEF LseekCheck
    <2>3. [call[t] EXCEPT !.pc = "l_store", !.pos = np].data = call[t].data
      BY <1>5 DEF Calls
    <2> QED
      BY <1>11, <2>1, <2>2, <2>3
  <1>15. ~IoctlCheck(t)
    <2> SUFFICES ASSUME IoctlCheck(t) PROVE FALSE
      OBVIOUS
    <2>1. call[t].pc # "r_copy" /\ ~Continue(t, NoCall)
      BY <1>1, <1>3 DEF IoctlCheck, At
    <2>2. Continue(t, [call[t] EXCEPT !.pc = "i_seek", !.i = 0, !.acc = 0])
      BY <2>1 DEF IoctlCheck
    <2>3. [call[t] EXCEPT !.pc = "i_seek", !.i = 0, !.acc = 0].data = call[t].data
      BY <1>5 DEF Calls
    <2> QED
      BY <1>11, <2>1, <2>2, <2>3
  <1>16. ~WriteChar(t)
    <2> SUFFICES ASSUME WriteChar(t) PROVE FALSE
      OBVIOUS
    <2>1. /\ call[t].pc # "r_copy"
          /\ Continue(t, [call[t] EXCEPT !.i = @ + 1])
      BY DEF WriteChar, HasByte, At
    <2>2. [call[t] EXCEPT !.i = @ + 1].data = call[t].data
      BY <1>5 DEF Calls
    <2> QED
      BY <1>11, <2>1, <2>2
  <1>17. ~WriteNewline(t)
    <2> SUFFICES ASSUME WriteNewline(t) PROVE FALSE
      OBVIOUS
    <2>1. call[t].pc # "r_copy"
      BY DEF WriteNewline, HasByte, At
    <2>2. PICK old : Continue(t, [call[t] EXCEPT !.pc = "w_entry", !.i = @ + 1,
                                                 !.old_buff = old])
      BY DEF WriteNewline
    <2>3. [call[t] EXCEPT !.pc = "w_entry", !.i = @ + 1, !.old_buff = old].data
            = call[t].data
      BY <1>5 DEF Calls
    <2> QED
      BY <1>11, <2>1, <2>2, <2>3
  <1>18. ~WriteEntry(t)
    <2> SUFFICES ASSUME WriteEntry(t) PROVE FALSE
      OBVIOUS
    <2>1. /\ call[t].pc # "r_copy"
          /\ Continue(t, [call[t] EXCEPT !.pc = "w_byte", !.old_buff = NULL])
      BY DEF WriteEntry, At
    <2>2. [call[t] EXCEPT !.pc = "w_byte", !.old_buff = NULL].data = call[t].data
      BY <1>5 DEF Calls
    <2> QED
      BY <1>11, <2>1, <2>2
  <1>19. ~WriteEnd(t)
    <2> SUFFICES ASSUME WriteEnd(t) PROVE FALSE
      OBVIOUS
    <2>1. /\ call[t].pc # "r_copy"
          /\ Continue(t, [call[t] EXCEPT !.pc = "done", !.wbuff = NULL])
      BY DEF WriteEnd, At
    <2>2. [call[t] EXCEPT !.pc = "done", !.wbuff = NULL].data = call[t].data
      BY <1>5 DEF Calls
    <2> QED
      BY <1>11, <2>1, <2>2
  <1>20. ~WriteNoMem(t) /\ ~ReadFault(t)
    BY <1>1, <1>3 DEF WriteNoMem, ReadFault, Return
  <1> QED
    BY <1>9, <1>10, <1>13, <1>14, <1>15, <1>16, <1>17, <1>18, <1>19, <1>20 DEF Step

\* The read loop takes what CopiedIsSlice says.
LEMMA ReadCopyTakes ==
  ASSUME Inv, NEW t \in Tasks, ReadCopy(t)
  PROVE  /\ call[t].pc = "r_copy"
         /\ call[t].pos \in Nat /\ call[t].arg.count \in Nat
         /\ call'[t].data = Copied(call[t].pos, call[t].arg.count)
  <1>1. call[t].pc = "r_copy" /\ TypeOK /\ CallOK(t)
    BY DEF Inv, CallsOK, ReadCopy, At
  <1>2. call[t] \in Calls
    BY <1>1 DEF TypeOK
  <1>3. call[t].pos \in Nat /\ call[t].arg.count \in Nat
    <2>1. call[t].arg \in [count : Counts]
      BY <1>1 DEF CallOK
    <2>2. call[t].arg.count \in Counts
      BY <2>1
    <2>3. Counts \subseteq Nat
      BY DriverAssumption
    <2>4. call[t].pos >= 0 /\ call[t].pos \in Int
      BY <1>1, <1>2 DEF CallOK, Calls
    <2>5. call[t].pos \in Nat
      BY <2>4
    <2> QED
      BY <2>2, <2>3, <2>5
  <1>4. call'[t].data = Copied(call[t].pos, call[t].arg.count)
    BY <1>1, <1>2 DEF ReadCopy, Continue, TypeOK, Calls
  <1> QED
    BY <1>1, <1>3, <1>4

\* The end of a read, as ReadReturnsSlice has it.
LEMMA ReadEndIsMin ==
  ASSUME NEW from \in Nat, NEW count \in Nat, Content \in Seq(Chars),
         from < Len(Content)
  PROVE  ReadEnd(from, count) = Min({from + count, Len(Content)})
  <1> DEFINE x == from + count
             y == Len(Content)
  <1>1. x \in Int /\ y \in Int
    OBVIOUS
  <1>2. ReadEnd(from, count) = IF x <= y THEN x ELSE y
    BY DEF ReadEnd
  <1> HIDE DEF x, y
  <1>3. Min({x, y}) = IF x <= y THEN x ELSE y
    BY <1>1, LesserOfTwo
  <1> QED
    BY <1>2, <1>3 DEF x, y

LEMMA InvSlice ==
  ASSUME Inv, [Next]_vars, NEW t \in Tasks,
         call'[t].data # call[t].data, call'[t].data # <<>>
  PROVE  call'[t].data =
           SubSeq(Content, call[t].pos + 1,
                  Min({call[t].pos + call[t].arg.count, Len(Content)}))
  <1>1. Next
    BY DEF vars
  <1>2. ReadCopy(t)
    BY <1>1, DataFromRead
  <1> DEFINE from == call[t].pos
             count == call[t].arg.count
             bytes == Copied(from, count)
  <1>3. call[t].pc = "r_copy" /\ from \in Nat /\ count \in Nat /\ call'[t].data = bytes
    BY <1>2, ReadCopyTakes
  <1> HIDE DEF from, count
  <1>4. /\ Content \in Seq(Chars) /\ bytes \in Seq(Chars)
        /\ from + Len(bytes) = ReadEnd(from, count)
        /\ from < Len(Content) => bytes = SubSeq(Content, from + 1, ReadEnd(from, count))
    BY <1>3, CopiedIsSlice
  <1> HIDE DEF bytes
  <1>5. from < Len(Content)
    <2>1. Len(bytes) # 0
      BY <1>3, <1>4
    <2>2. ReadEnd(from, count) # from
      BY <1>3, <1>4, <2>1
    <2>3. Len(Content) \in Nat
      BY <1>4
    <2> QED
      BY <1>3, <2>2, <2>3 DEF ReadEnd
  <1>6. ReadEnd(from, count) = Min({from + count, Len(Content)})
    BY <1>3, <1>4, <1>5, ReadEndIsMin
  <1> QED
    BY <1>3, <1>4, <1>5, <1>6 DEF from, count

LEMMA InvReadEnds ==
  ASSUME Inv, [Next]_vars, NEW t \in Tasks,
         At(t, "r_copy"), At(t, "done")', call[t].arg.count > 0
  PROVE  call'[t].data = <<>> <=> call[t].pos >= Len(Content)
  <1>1. Next
    BY DEF vars, At
  <1>2. ReadCopy(t)
    BY <1>1, DataFromRead
  <1> DEFINE from == call[t].pos
             count == call[t].arg.count
             bytes == Copied(from, count)
  <1>3. /\ call[t].pc = "r_copy" /\ from \in Nat /\ count \in Nat /\ count > 0
        /\ call'[t].data = bytes
    BY <1>2, ReadCopyTakes
  <1> HIDE DEF from, count
  <1>4. /\ Content \in Seq(Chars) /\ bytes \in Seq(Chars)
        /\ from + Len(bytes) = ReadEnd(from, count)
    BY <1>3, CopiedIsSlice
  <1> HIDE DEF bytes
  <1>5. bytes = <<>> <=> Len(bytes) = 0
    BY <1>4
  <1>6. Len(bytes) \in Nat /\ Len(Content) \in Nat
    BY <1>4
  <1>7. Len(bytes) = 0 <=> from >= Len(Content)
    BY <1>3, <1>4, <1>6 DEF ReadEnd
  <1> QED
    BY <1>3, <1>5, <1>7 DEF from

\* A read returns the bytes of the commands end to end from its position on,
\* as many as it asked for or as there are, over any seam of two commands and
\* past the end of the array, whatever other callers do.
THEOREM DriverReadReturnsSlice == Spec => ReadReturnsSlice
  <1>1. Inv /\ [Next]_vars =>
          [\A t \in Tasks :
             LET c == call[t]
                 bytes == call'[t].data
             IN  bytes # c.data /\ bytes # <<>> =>
                   bytes = SubSeq(Content, c.pos + 1,
                                  Min({c.pos + c.arg.count, Len(Content)}))]_vars
    BY InvSlice
  <1> QED
    BY <1>1, InvHolds, PTL DEF Spec, ReadReturnsSlice

\* A read that asks for bytes and returns none had them all behind it.
THEOREM DriverReadEndsAtEnd == Spec => ReadEndsAtEnd
  <1>1. Inv /\ [Next]_vars =>
          [\A t \in Tasks :
             At(t, "r_copy") /\ At(t, "done")' /\ call[t].arg.count > 0 =>
               (call'[t].data = <<>> <=> call[t].pos >= Len(Content))]_vars
    BY InvReadEnds
  <1> QED
    BY <1>1, InvHolds, PTL DEF Spec, ReadEndsAtEnd

(***************************************************************************)
(* Where AESDCHAR_IOCSEEKTO goes.                                          *)
(***************************************************************************)

\* What an ioctl has found out about the buffer and may rely on, at each of its
\* steps: it has counted no more commands than there are, the command is one of
\* them, and acc is the sum of the sizes before slot i.
FoundOK(c, b) ==
  /\ c.pc = "i_count" => c.acc = c.i /\ c.acc <= Count(b)
  /\ c.pc = "i_check" => c.acc <= Count(b)
  /\ c.pc = "i_seek" => /\ c.arg.write_cmd < Count(b)
                        /\ c.i <= c.arg.write_cmd
                        /\ c.acc = SizeUpTo(b)[c.i]
  /\ c.pc = "i_store" => /\ c.arg.write_cmd < Count(b)
                         /\ c.acc = SizeUpTo(b)[c.arg.write_cmd]

\* In a full buffer the next command moves the others, and none of it holds.
SeeksOK == ~Completed.full => \A t \in Tasks : FoundOK(call[t], Completed)

Seeking == {"i_count", "i_check", "i_seek", "i_store"}

LEMMA NotSeeking ==
  ASSUME NEW c, NEW b, c.pc \notin Seeking
  PROVE  FoundOK(c, b)
  BY DEF FoundOK, Seeking

\* What an ioctl relies on survives the commands that are added meanwhile.
LEMMA FoundOKGrows ==
  ASSUME NEW c \in Calls, NEW b, NEW d, Count(b) \in Nat, Count(d) \in Nat,
         Grows(b, d), FoundOK(c, b), c.pc \in Seeking => c.arg \in SeekTos
  PROVE  FoundOK(c, d)
  <1> DEFINE m == Count(b)
             n == Count(d)
             A == SizeUpTo(b)
             B == SizeUpTo(d)
  <1>1. m \in Nat /\ n \in Nat /\ m <= n /\ \A k \in 0 .. m : B[k] = A[k]
    BY DEF Grows
  <1>2. c.acc \in Nat /\ c.i \in Nat
    BY DEF Calls
  <1>3. c.pc \in Seeking => c.arg.write_cmd \in Nat
    BY DriverAssumption
  <1>4. /\ c.pc = "i_count" => c.acc = c.i /\ c.acc <= m
        /\ c.pc = "i_check" => c.acc <= m
        /\ c.pc = "i_seek" => /\ c.arg.write_cmd < m
                              /\ c.i <= c.arg.write_cmd
                              /\ c.acc = A[c.i]
        /\ c.pc = "i_store" => /\ c.arg.write_cmd < m
                               /\ c.acc = A[c.arg.write_cmd]
    BY DEF FoundOK
  <1> HIDE DEF m, n, A, B
  <1> DEFINE i == c.i
             k == c.arg.write_cmd
  <1>5. c.pc = "i_seek" => k < n /\ i <= k /\ c.acc = B[i]
    <2> SUFFICES ASSUME c.pc = "i_seek"
                 PROVE  k < n /\ i <= k /\ c.acc = B[i]
      OBVIOUS
    <2>1. k \in Nat /\ i \in Nat /\ k < m /\ i <= k /\ c.acc = A[i]
      BY <1>2, <1>3, <1>4 DEF Seeking
    <2> HIDE DEF i, k
    <2>2. i \in 0 .. m /\ k < n
      BY <1>1, <2>1
    <2> QED
      BY <1>1, <2>1, <2>2
  <1>6. c.pc = "i_store" => k < n /\ c.acc = B[k]
    <2> SUFFICES ASSUME c.pc = "i_store"
                 PROVE  k < n /\ c.acc = B[k]
      OBVIOUS
    <2>1. k \in Nat /\ k < m /\ c.acc = A[k]
      BY <1>3, <1>4 DEF Seeking
    <2> HIDE DEF k
    <2>2. k \in 0 .. m /\ k < n
      BY <1>1, <2>1
    <2> QED
      BY <1>1, <2>1, <2>2
  <1>7. /\ c.pc = "i_count" => c.acc = c.i /\ c.acc <= n
        /\ c.pc = "i_check" => c.acc <= n
    BY <1>1, <1>2, <1>4
  <1> QED
    BY <1>5, <1>6, <1>7 DEF FoundOK, n, B

\* Which slots a walk without the lock finds in use, in the middle of an
\* add_entry too: one field of the new slot may be there, the others are whole.
LEMMA SlotsSeen ==
  ASSUME Inv, loaded, ~Completed.full
  PROVE  /\ Count(Completed) \in 0 .. MaxOps
         /\ \A s \in Slots :
              /\ circular_buf.entry[s].buffptr # NULL => s < Count(Completed)
              /\ s + 1 < Count(Completed) =>
                   /\ circular_buf.entry[s] = Completed.entry[s]
                   /\ circular_buf.entry[s].buffptr # NULL
  <1> DEFINE b == Completed
             n == Count(b)
  <1>1. b \in Buffers(Addr) /\ RingShape(b) /\ ~b.full
    BY CompletedIsBuffer DEF Inv, StoreOK, RingConsistent
  <1>2. n \in 0 .. MaxOps /\ n = b.in_offs /\ b.out_offs = 0 /\ MaxOps \in Nat \ {0}
    BY <1>1, WindowElements, MaxOpsAssumption DEF Count, RingShape
  <1>3. \A s \in Slots : /\ s < n => b.entry[s].buffptr # NULL
                         /\ ~(s < n) => b.entry[s].buffptr = NULL
    BY <1>1, <1>2 DEF RingShape
  <1>4. CASE ~Adding
    <2>1. b = circular_buf
      BY <1>4 DEF Completed, Adding
    <2> HIDE DEF b, n
    <2>2. \A s \in Slots : s + 1 < n => s < n
      BY <1>2 DEF Slots
    <2> QED
      BY <1>2, <1>3, <2>1, <2>2 DEF b, n
  <1>5. CASE Adding
    <2> DEFINE e == ThisEntry
               in == circular_buf.in_offs
    <2>1. /\ b = AddEntry(circular_buf, e)
          /\ circular_buf \in Buffers(Addr) /\ e \in Entries(Addr)
      BY <1>5 DEF Completed, Adding, Inv, TypeOK, ThisEntry, Entries
    <2> HIDE DEF b, n, e
    <2>2. /\ b.entry = [circular_buf.entry EXCEPT ![in] = e]
          /\ b.in_offs = NextSlot(in)
          /\ b.full <=> b.in_offs = b.out_offs
      BY <2>1, AddEntryFields
    <2>3. in \in Slots /\ circular_buf.entry \in [Slots -> Entries(Addr)]
      BY <2>1 DEF Buffers
    <2> HIDE DEF in
    <2>4. NextSlot(in) = IF in = MaxOps - 1 THEN 0 ELSE in + 1
      BY <2>3, NextSlotWraps
    <2>5. n = in + 1
      BY <1>1, <1>2, <2>2, <2>4
    <2>6. \A s \in Slots : s # in => circular_buf.entry[s] = b.entry[s]
      BY <2>2, <2>3
    <2>7. ASSUME NEW s \in Slots
          PROVE  /\ circular_buf.entry[s].buffptr # NULL => s < n
                 /\ s + 1 < n => /\ circular_buf.entry[s] = b.entry[s]
                                 /\ circular_buf.entry[s].buffptr # NULL
      <3>1. CASE s = in
        BY <2>3, <2>5, <3>1 DEF Slots
      <3>2. CASE s # in
        <4>1. circular_buf.entry[s] = b.entry[s]
          BY <2>6, <3>2
        <4>2. s + 1 < n => s < n
          BY <1>2 DEF Slots
        <4> QED
          BY <1>3, <4>1, <4>2
      <3> QED
        BY <3>1, <3>2
    <2> QED
      BY <1>2, <2>7 DEF b, n
  <1> QED
    BY <1>4, <1>5

\* A step that changes no command leaves what the other calls rely on.
LEMMA SeeksKept ==
  ASSUME Inv, SeeksOK, NEW t \in Tasks, NEW c, Continue(t, c),
         Completed' = Completed, ~Completed.full => FoundOK(c, Completed)
  PROVE  SeeksOK'
  <1> SUFFICES ASSUME ~Completed.full, NEW u \in Tasks
               PROVE  FoundOK(call'[u], Completed)
    BY DEF SeeksOK, FoundOK
  <1>1. call'[u] = IF u = t THEN c ELSE call[u]
    BY DEF Inv, TypeOK, Continue
  <1> QED
    BY <1>1 DEF SeeksOK

\* The same, for a step that touches neither the buffer nor the line and does
\* not come from or go to the middle of an add_entry.
LEMMA SeeksQuiet ==
  ASSUME Inv, Inv', SeeksOK, NEW t \in Tasks, NEW c, Continue(t, c),
         UNCHANGED devVars, call[t].pc # "w_entry", c.pc # "w_entry",
         ~Completed.full => FoundOK(c, Completed)
  PROVE  SeeksOK'
  <1>1. Moves(t) /\ call'[t] = c
    BY ContinueGoes
  <1>2. /\ TypeOK /\ LockMatchesSections /\ TypeOK' /\ LockMatchesSections'
    BY DEF Inv
  <1>3. Adding' <=> Adding
    BY <1>1, <1>2, AddingKept
  <1>4. Completed' = Completed
    BY <1>3, ViewsFrame DEF devVars
  <1> QED
    BY <1>4, SeeksKept

\* What is sure of an ioctl under way.
LEMMA SeekCall ==
  ASSUME Inv, NEW t \in Tasks, call[t].pc \in Seeking
  PROVE  /\ call[t] \in Calls /\ call[t].arg \in SeekTos
         /\ call[t].i \in Nat /\ call[t].acc \in Nat
         /\ call[t].arg.write_cmd \in Nat /\ call[t].arg.write_cmd_offset \in Nat
         /\ loaded
  <1>1. call[t] \in Calls /\ CallOK(t)
    BY DEF Inv, TypeOK, CallsOK
  <1>2. call[t].arg \in SeekTos
    BY <1>1 DEF CallOK, Seeking
  <1>3. call[t].arg.write_cmd \in Nat /\ call[t].arg.write_cmd_offset \in Nat
    BY <1>2, DriverAssumption
  <1>4. loaded
    BY <1>1 DEF Inv, StoreOK, DeviceOK, CallOK, Seeking
  <1> QED
    BY <1>1, <1>2, <1>3, <1>4 DEF Calls

LEMMA IoctlBeginSeeks ==
  ASSUME Inv, Inv', SeeksOK, NEW t \in Tasks, NEW f \in Files, NEW x,
         IoctlBegin(t, f, x)
  PROVE  SeeksOK'
  <1> DEFINE c == NewCall("i_count", f, x, NULL, 0)
  <1>1. Continue(t, c) /\ UNCHANGED devVars /\ call[t].pc = "idle" /\ c.file \in opened
    BY DEF IoctlBegin, Enter, At
  <1>2. c.pc = "i_count" /\ c.acc = 0 /\ c.i = 0 /\ c.file = f
    BY DEF NewCall
  <1> HIDE DEF c
  <1>3. loaded
    BY <1>1 DEF Inv, StoreOK, DeviceOK
  <1>4. ~Completed.full => FoundOK(c, Completed)
    <2> SUFFICES ASSUME ~Completed.full PROVE FoundOK(c, Completed)
      OBVIOUS
    <2>1. Count(Completed) \in 0 .. MaxOps
      BY <1>3, SlotsSeen
    <2>2. c.acc = c.i /\ c.acc <= Count(Completed)
      BY <1>2, <2>1, MaxOpsAssumption
    <2> QED
      BY <1>2, <2>2 DEF FoundOK
  <1> QED
    BY <1>1, <1>2, <1>4, SeeksQuiet

LEMMA IoctlCountSeeks ==
  ASSUME Inv, Inv', SeeksOK, NEW t \in Tasks, IoctlCount(t)
  PROVE  SeeksOK'
  <1> DEFINE c == call[t]
             n == Count(Completed)
             d == [c EXCEPT !.i = @ + 1, !.acc = @ + 1]
             e == [c EXCEPT !.pc = "i_check"]
  <1>1. /\ c.pc = "i_count" /\ UNCHANGED devVars
        /\ \/ /\ c.i < MaxOps /\ circular_buf.entry[c.i].buffptr # NULL
              /\ Continue(t, d)
           \/ Continue(t, e)
    BY DEF IoctlCount, At, Walk
  <1>2. c \in Calls /\ c.i \in Nat /\ c.acc \in Nat /\ loaded
    BY <1>1, SeekCall DEF Seeking
  <1>3. ~Completed.full => c.acc = c.i /\ c.acc <= n
    BY <1>1 DEF SeeksOK, FoundOK
  <1>4. ~Completed.full =>
          /\ n \in Nat
          /\ c.i < MaxOps /\ circular_buf.entry[c.i].buffptr # NULL => c.i < n
    <2> SUFFICES ASSUME ~Completed.full
                 PROVE  /\ n \in Nat
                        /\ c.i < MaxOps /\ circular_buf.entry[c.i].buffptr # NULL
                             => c.i < n
      OBVIOUS
    <2>1. /\ n \in 0 .. MaxOps
          /\ \A s \in Slots : circular_buf.entry[s].buffptr # NULL => s < n
      BY <1>2, SlotsSeen
    <2>2. c.i < MaxOps => c.i \in Slots
      BY <1>2, MaxOpsAssumption DEF Slots
    <2> QED
      BY <2>1, <2>2, MaxOpsAssumption
  <1>5. /\ d.pc = "i_count" /\ d.i = c.i + 1 /\ d.acc = c.acc + 1
        /\ e.pc = "i_check" /\ e.acc = c.acc
    BY <1>1, <1>2 DEF Calls
  <1> HIDE DEF n, d, e
  <1>6. CASE /\ c.i < MaxOps /\ circular_buf.entry[c.i].buffptr # NULL
             /\ Continue(t, d)
    <2>1. ~Completed.full => d.acc = d.i /\ d.acc <= n
      BY <1>2, <1>3, <1>4, <1>5, <1>6
    <2>2. ~Completed.full => FoundOK(d, Completed)
      BY <1>5, <2>1 DEF FoundOK, n
    <2> QED
      BY <1>1, <1>5, <1>6, <2>2, SeeksQuiet
  <1>7. CASE Continue(t, e)
    <2>1. ~Completed.full => FoundOK(e, Completed)
      BY <1>3, <1>5 DEF FoundOK, n
    <2> QED
      BY <1>1, <1>5, <1>7, <2>1, SeeksQuiet
  <1> QED
    BY <1>1, <1>6, <1>7

LEMMA IoctlCheckSeeks ==
  ASSUME Inv, Inv', SeeksOK, NEW t \in Tasks, IoctlCheck(t)
  PROVE  SeeksOK'
  <1> DEFINE c == call[t]
             k == c.arg.write_cmd
             n == Count(Completed)
             d == [c EXCEPT !.pc = "i_seek", !.i = 0, !.acc = 0]
  <1>1. /\ c.pc = "i_check" /\ UNCHANGED devVars
        /\ \/ k < c.acc /\ Continue(t, d)
           \/ Continue(t, NoCall)
    BY DEF IoctlCheck, At
  <1>2. c \in Calls /\ c.acc \in Nat /\ k \in Nat /\ loaded
    BY <1>1, SeekCall DEF Seeking
  <1>3. ~Completed.full => c.acc <= n
    BY <1>1 DEF SeeksOK, FoundOK
  <1>4. ~Completed.full => n \in Nat /\ SizeUpTo(Completed)[0] = 0
    <2> SUFFICES ASSUME ~Completed.full
                 PROVE  n \in Nat /\ SizeUpTo(Completed)[0] = 0
      OBVIOUS
    <2>1. n \in 0 .. MaxOps
      BY <1>2, SlotsSeen
    <2>2. Completed \in Buffers(Addr) /\ RingShape(Completed)
      BY <1>2, WindowLines
    <2>3. SizeUpTo(Completed)[0] = 0
      BY <2>2, SizeSums
    <2> QED
      BY <2>1, <2>3, MaxOpsAssumption
  <1>5. /\ d.pc = "i_seek" /\ d.i = 0 /\ d.acc = 0 /\ d.arg = c.arg
        /\ NoCall.pc = "idle"
    BY <1>2 DEF Calls, NoCall, NewCall
  <1>6. CASE k < c.acc /\ Continue(t, d)
    <2>1. ~Completed.full => d.arg.write_cmd < n /\ d.i <= d.arg.write_cmd
      BY <1>2, <1>3, <1>4, <1>5, <1>6
    <2> HIDE DEF d
    <2>2. ~Completed.full => FoundOK(d, Completed)
      BY <1>4, <1>5, <2>1 DEF FoundOK
    <2> QED
      BY <1>1, <1>5, <1>6, <2>2, SeeksQuiet
  <1>7. CASE Continue(t, NoCall)
    <2>1. FoundOK(NoCall, Completed)
      BY <1>5, NotSeeking DEF Seeking
    <2> QED
      BY <1>1, <1>5, <1>7, <2>1, SeeksQuiet
  <1> QED
    BY <1>1, <1>6, <1>7

LEMMA IoctlSeekSeeks ==
  ASSUME Inv, Inv', SeeksOK, NEW t \in Tasks, IoctlSeek(t)
  PROVE  SeeksOK'
  <1> DEFINE c == call[t]
             i == c.i
             k == c.arg.write_cmd
             n == Count(Completed)
             A == SizeUpTo(Completed)
             here == circular_buf.entry[i]
             d == [c EXCEPT !.i = @ + 1, !.acc = @ + here.size]
             e == [c EXCEPT !.pc = "i_store"]
  <1>1. /\ c.pc = "i_seek" /\ UNCHANGED devVars
        /\ \/ i # k /\ Continue(t, d)
           \/ /\ i = k \/ ~(i < MaxOps) \/ here.buffptr = NULL
              /\ Continue(t, e)
    BY DEF IoctlSeek, At, Walk, SizeAt
  <1>2. c \in Calls /\ i \in Nat /\ k \in Nat /\ loaded
    BY <1>1, SeekCall DEF Seeking
  <1>3. ~Completed.full => k < n /\ i <= k /\ c.acc = A[i]
    BY <1>1 DEF SeeksOK, FoundOK
  <1>4. ~Completed.full /\ i # k =>
          /\ n \in Nat /\ i < MaxOps /\ here.buffptr # NULL
          /\ A[i + 1] = A[i] + here.size
    <2> SUFFICES ASSUME ~Completed.full, i # k
                 PROVE  /\ n \in Nat /\ i < MaxOps /\ here.buffptr # NULL
                        /\ A[i + 1] = A[i] + here.size
      OBVIOUS
    <2> DEFINE b == Completed
    <2>1. /\ n \in 0 .. MaxOps
          /\ \A s \in Slots : s + 1 < n => /\ circular_buf.entry[s] = b.entry[s]
                                           /\ circular_buf.entry[s].buffptr # NULL
      BY <1>2, SlotsSeen
    <2>2. b \in Buffers(Addr) /\ RingShape(b)
      BY <1>2, WindowLines
    <2>3. \A j \in 1 .. MaxOps : A[j] = A[j - 1] + b.entry[j - 1].size
      BY <2>2, SizeSums
    <2>4. k < n /\ i <= k
      BY <1>3
    <2> HIDE DEF n, A, i, k, b
    <2>5. /\ n \in Nat /\ i \in Slots /\ i + 1 < n /\ i < MaxOps
          /\ i + 1 \in 1 .. MaxOps /\ (i + 1) - 1 = i
      BY <1>2, <2>1, <2>4, MaxOpsAssumption DEF Slots
    <2>6. here = b.entry[i] /\ here.buffptr # NULL
      BY <2>1, <2>5
    <2> QED
      BY <2>3, <2>5, <2>6
  <1>5. /\ d.pc = "i_seek" /\ d.i = i + 1 /\ d.acc = c.acc + here.size /\ d.arg = c.arg
        /\ e.pc = "i_store" /\ e.acc = c.acc /\ e.arg = c.arg
    BY <1>1, <1>2 DEF Calls
  <1> HIDE DEF n, A, here, d, e
  <1>6. CASE i # k /\ Continue(t, d)
    <2>1. ~Completed.full => /\ d.arg.write_cmd < n
                             /\ d.i <= d.arg.write_cmd
                             /\ d.acc = A[d.i]
      BY <1>2, <1>3, <1>4, <1>5, <1>6
    <2>2. ~Completed.full => FoundOK(d, Completed)
      BY <1>5, <2>1 DEF FoundOK, n, A
    <2> QED
      BY <1>1, <1>5, <1>6, <2>2, SeeksQuiet
  <1>7. CASE /\ i = k \/ ~(i < MaxOps) \/ here.buffptr = NULL
             /\ Continue(t, e)
    <2>1. ~Completed.full => i = k
      BY <1>4, <1>7
    <2>2. ~Completed.full => /\ e.arg.write_cmd < n
                             /\ e.acc = A[e.arg.write_cmd]
      BY <1>3, <1>5, <2>1
    <2>3. ~Completed.full => FoundOK(e, Completed)
      BY <1>5, <2>2 DEF FoundOK, n, A
    <2> QED
      BY <1>1, <1>5, <1>7, <2>3, SeeksQuiet
  <1> QED
    BY <1>1, <1>6, <1>7

\* The steps of the other calls, outside add_entry.
LEMMA SeeksAside ==
  ASSUME Inv, Inv', SeeksOK, NEW t \in Tasks, NEW c, Continue(t, c),
         UNCHANGED devVars, call[t].pc # "w_entry",
         c.pc \notin Seeking, c.pc # "w_entry"
  PROVE  SeeksOK'
  <1>1. FoundOK(c, Completed)
    BY NotSeeking
  <1> QED
    BY <1>1, SeeksQuiet

LEMMA ReturnSeeks ==
  ASSUME Inv, Inv', SeeksOK, NEW t \in Tasks, Return(t),
         UNCHANGED devVars, call[t].pc # "w_entry"
  PROVE  SeeksOK'
  <1>1. NoCall.pc \notin Seeking /\ NoCall.pc # "w_entry" /\ Continue(t, NoCall)
    BY DEF NoCall, NewCall, Seeking, Return
  <1> QED
    BY <1>1, SeeksAside

LEMMA BeginSeeks ==
  ASSUME Inv, Inv', SeeksOK, NEW t \in Tasks, NEW f \in Files, Begin(t, f)
  PROVE  SeeksOK'
  <1>1. ASSUME NEW pc \in {"w_lock", "r_lock", "l_size"}, NEW arg, NEW wbuff, NEW pos,
               Enter(t, NewCall(pc, f, arg, wbuff, pos))
        PROVE  SeeksOK'
    <2> DEFINE c == NewCall(pc, f, arg, wbuff, pos)
    <2>1. Continue(t, c) /\ UNCHANGED devVars /\ call[t].pc # "w_entry"
      BY <1>1 DEF Enter, At
    <2>2. c.pc \notin Seeking /\ c.pc # "w_entry"
      BY DEF NewCall, Seeking
    <2> HIDE DEF c
    <2> QED
      BY <2>1, <2>2, SeeksAside
  <1>2. ASSUME NEW x \in SeekTos, IoctlBegin(t, f, x)
        PROVE  SeeksOK'
    BY <1>2, IoctlBeginSeeks
  <1>3. ASSUME NEW bytes \in Writes, WriteBegin(t, f, bytes)
        PROVE  SeeksOK'
    BY <1>1, <1>3 DEF WriteBegin
  <1>4. ASSUME NEW count \in Counts, ReadBegin(t, f, count)
        PROVE  SeeksOK'
    BY <1>1, <1>4 DEF ReadBegin
  <1>5. ASSUME NEW x \in LseekArgs, LseekBegin(t, f, x)
        PROVE  SeeksOK'
    BY <1>1, <1>5 DEF LseekBegin
  <1> QED
    BY <1>2, <1>3, <1>4, <1>5 DEF Begin

LEMMA LockSeeks ==
  ASSUME Inv, Inv', SeeksOK, NEW t \in Tasks, Lock(t)
  PROVE  SeeksOK'
  <1> DEFINE c == [call[t] EXCEPT !.pc = IF @ = "w_lock" THEN "w_byte" ELSE "r_copy"]
  <1>1. Continue(t, c) /\ UNCHANGED devVars /\ call[t].pc # "w_entry"
    BY DEF Lock, Waiting
  <1>2. c.pc \notin Seeking /\ c.pc # "w_entry"
    BY DEF Inv, TypeOK, Calls, Seeking
  <1> HIDE DEF c
  <1> QED
    BY <1>1, <1>2, SeeksAside

\* The steps of read, llseek and the end of every call.
LEMMA OtherSeeks ==
  ASSUME Inv, Inv', SeeksOK, NEW t \in Tasks,
         \/ WriteEnd(t) \/ ReadCopy(t) \/ LseekSize(t) \/ LseekCheck(t)
         \/ WriteNoMem(t) \/ ReadFault(t) \/ CallDone(t)
         \/ LseekStore(t) \/ IoctlStore(t)
  PROVE  SeeksOK'
  <1>1. call[t] \in Calls
    BY DEF Inv, TypeOK
  <1>2. CASE WriteNoMem(t) \/ ReadFault(t) \/ CallDone(t) \/ LseekStore(t) \/ IoctlStore(t)
    <2>1. Return(t) /\ UNCHANGED devVars /\ call[t].pc # "w_entry"
      BY <1>2 DEF WriteNoMem, ReadFault, CallDone, LseekStore, IoctlStore,
                  StorePosition, HasByte, At
    <2> QED
      BY <2>1, ReturnSeeks
  <1>3. CASE WriteEnd(t)
    <2> DEFINE c == [call[t] EXCEPT !.pc = "done", !.wbuff = NULL]
    <2>1. Continue(t, c) /\ UNCHANGED devVars /\ call[t].pc # "w_entry"
      BY <1>3 DEF WriteEnd, At
    <2>2. c.pc \notin Seeking /\ c.pc # "w_entry"
      BY <1>1 DEF Calls, Seeking
    <2> HIDE DEF c
    <2> QED
      BY <2>1, <2>2, SeeksAside
  <1>4. CASE ReadCopy(t)
    <2>1. PICK bytes : Continue(t, [call[t] EXCEPT !.pc = "done", !.data = bytes,
                                                   !.pos = @ + Len(bytes)])
      BY <1>4 DEF ReadCopy
    <2> DEFINE c == [call[t] EXCEPT !.pc = "done", !.data = bytes,
                                    !.pos = @ + Len(bytes)]
    <2>2. Continue(t, c) /\ UNCHANGED devVars /\ call[t].pc # "w_entry"
      BY <1>4, <2>1 DEF ReadCopy, At
    <2>3. c.pc \notin Seeking /\ c.pc # "w_entry"
      BY <1>1 DEF Calls, Seeking
    <2> HIDE DEF c
    <2> QED
      BY <2>2, <2>3, SeeksAside
  <1>5. CASE LseekSize(t)
    <2> DEFINE n == SizeAt(call[t].i)
               c == [call[t] EXCEPT !.i = @ + 1, !.acc = @ + n]
               d == [call[t] EXCEPT !.pc = "l_check"]
    <2>1. /\ Continue(t, c) \/ Continue(t, d)
          /\ UNCHANGED devVars /\ call[t].pc = "l_size"
      BY <1>5 DEF LseekSize, Walk, At
    <2>2. c.pc = "l_size" /\ d.pc = "l_check"
      BY <1>1, <2>1 DEF Calls
    <2> HIDE DEF c, d
    <2> QED
      BY <2>1, <2>2, SeeksAside DEF Seeking
  <1>6. CASE LseekCheck(t)
    <2>1. PICK np : \/ Continue(t, [call[t] EXCEPT !.pc = "l_store", !.pos = np])
                    \/ Return(t)
      BY <1>6 DEF LseekCheck, Return
    <2> DEFINE c == [call[t] EXCEPT !.pc = "l_store", !.pos = np]
    <2>2. /\ Continue(t, c) \/ Return(t)
          /\ UNCHANGED devVars /\ call[t].pc # "w_entry"
      BY <1>6, <2>1 DEF LseekCheck, At
    <2>3. c.pc \notin Seeking /\ c.pc # "w_entry"
      BY <1>1 DEF Calls, Seeking
    <2> HIDE DEF c
    <2> QED
      BY <2>2, <2>3, SeeksAside, ReturnSeeks, SMTT(30)
  <1> QED
    BY <1>2, <1>3, <1>4, <1>5, <1>6

LEMMA WriteCharSeeks ==
  ASSUME Inv, Inv', SeeksOK, NEW t \in Tasks, WriteChar(t)
  PROVE  SeeksOK'
  <1> DEFINE c == [call[t] EXCEPT !.i = @ + 1]
  <1>1. /\ HasByte(t) /\ Continue(t, c) /\ circular_buf' = circular_buf /\ mtx' = mtx
    BY DEF WriteChar, lockVars
  <1>2. /\ call[t] \in Calls /\ call[t].pc = "w_byte" /\ mtx = t
        /\ Completed = circular_buf
    BY <1>1, WriterHasByte
  <1>3. c.pc = "w_byte"
    BY <1>2 DEF Calls
  <1> HIDE DEF c
  <1>4. call'[t] = c
    BY <1>1, ContinueGoes
  <1>5. Completed' = Completed
    BY <1>1, <1>2, <1>3, <1>4 DEF Completed, At
  <1>6. FoundOK(c, Completed)
    BY <1>3, NotSeeking DEF Seeking
  <1> QED
    BY <1>1, <1>5, <1>6, SeeksKept

LEMMA WriteEntrySeeks ==
  ASSUME Inv, Inv', SeeksOK, NEW t \in Tasks, WriteEntry(t)
  PROVE  SeeksOK'
  <1> DEFINE c == [call[t] EXCEPT !.pc = "w_byte", !.old_buff = NULL]
  <1>1. /\ call[t] \in Calls /\ call[t].pc = "w_entry" /\ mtx = t /\ t # NoTask
    BY DriverAssumption DEF Inv, TypeOK, LockMatchesSections, WriteEntry, At,
                            Critical, Writing
  <1>2. /\ circular_buf' = AddEntry(circular_buf, ThisEntry)
        /\ Continue(t, c) /\ mtx' = mtx
    BY DEF WriteEntry, lockVars
  <1>3. c.pc = "w_byte"
    BY <1>1 DEF Calls
  <1> HIDE DEF c
  <1>4. call'[t] = c
    BY <1>2, ContinueGoes
  <1>5. Completed = AddEntry(circular_buf, ThisEntry)
    BY <1>1 DEF Completed, At
  <1>6. Completed' = circular_buf'
    BY <1>1, <1>2, <1>3, <1>4 DEF Completed, At
  <1>7. FoundOK(c, Completed)
    BY <1>3, NotSeeking DEF Seeking
  <1> QED
    BY <1>2, <1>5, <1>6, <1>7, SeeksKept

\* The newline adds a command behind those the other calls have counted.
LEMMA WriteNewlineSeeks ==
  ASSUME Inv, Inv', SeeksOK, NEW t \in Tasks, WriteNewline(t)
  PROVE  SeeksOK'
  <1> DEFINE c == [call[t] EXCEPT !.pc = "w_entry", !.i = @ + 1,
                                  !.old_buff = OldBuff(circular_buf)]
             e == [buffptr |-> g_buff', size |-> g_len']
             b == circular_buf
             d == AddEntry(b, e)
  <1>1. /\ HasByte(t) /\ Continue(t, c)
        /\ circular_buf' \in HalfAdded(b, e) /\ mtx' = mtx
    BY DEF WriteNewline, ThisEntry, lockVars
  <1>2. PICK m \in Addr : GrowTo(m, NL)
    BY DEF WriteNewline
  <1>3. /\ call[t] \in Calls /\ call[t].pc = "w_byte" /\ mtx = t /\ loaded
        /\ Completed = b /\ ~Adding
    BY <1>1, WriterHasByte
  <1>4. c.pc = "w_entry"
    BY <1>3 DEF Calls
  <1> HIDE DEF c
  <1>5. call'[t] = c
    BY <1>1, ContinueGoes
  <1>6. b \in Buffers(Addr) /\ RingShape(b) /\ g_len \in Nat
    BY <1>3 DEF Inv, TypeOK, StoreOK, RingConsistent
  <1>7. /\ e \in Entries(Addr) /\ e.buffptr # NULL /\ e.size > 0
    <2>1. g_buff' = m /\ g_len' = g_len + 1 /\ m # NULL
      BY <1>2, DriverAssumption DEF GrowTo
    <2> QED
      BY <1>6, <2>1 DEF Entries
  <1>8. ThisEntry' = e
    BY DEF ThisEntry
  <1> HIDE DEF e
  <1>9. AddEntry(circular_buf', e) = d
    BY <1>1, <1>6, <1>7, HalfAddedCompletes
  <1>10. Completed' = d
    <2>1. mtx' = t /\ call'[t].pc = "w_entry" /\ t # NoTask
      BY <1>1, <1>3, <1>4, <1>5, DriverAssumption
    <2> QED
      BY <1>8, <1>9, <2>1 DEF Completed, At
  <1>11. d \in Buffers(Addr) /\ RingShape(d)
    BY <1>6, <1>7, AddEntryFields, AddEntryShape
  <1>12. Count(b) \in Nat /\ Count(d) \in Nat
    <2>1. Count(b) \in 0 .. MaxOps
      BY <1>6, WindowElements
    <2> HIDE DEF d
    <2>2. Count(d) \in 0 .. MaxOps
      BY <1>11, WindowElements
    <2> QED
      BY <2>1, <2>2, MaxOpsAssumption
  <1>13. ~d.full => Grows(b, d)
    BY <1>6, <1>7, AddEntryGrows
  <1> HIDE DEF d
  <1>14. ASSUME ~d.full, NEW u \in Tasks
         PROVE  FoundOK(call'[u], d)
    <2>1. CASE u = t
      BY <1>4, <1>5, <2>1, NotSeeking DEF Seeking
    <2>2. CASE u # t
      <3>1. call'[u] = call[u] /\ call[u] \in Calls
        BY <1>1, <2>2 DEF Inv, TypeOK, Continue
      <3>2. call[u].pc \in Seeking => call[u].arg \in SeekTos
        BY SeekCall
      <3>3. Grows(b, d)
        BY <1>13, <1>14
      <3>4. FoundOK(call[u], b)
        BY <1>3, <3>3 DEF SeeksOK, Grows
      <3>5. FoundOK(call[u], d)
        BY <1>12, <3>1, <3>2, <3>3, <3>4, FoundOKGrows
      <3> QED
        BY <3>1, <3>5
    <2> QED
      BY <2>1, <2>2
  <1> QED
    BY <1>10, <1>14 DEF SeeksOK, FoundOK

\* insmod and rmmod find nobody inside.
LEMMA ModuleSeeks ==
  ASSUME Inv, aesd_init_module \/ aesd_cleanup_module
  PROVE  SeeksOK'
  <1>1. opened = {} /\ call' = call
    BY DEF aesd_init_module, aesd_cleanup_module, Inv, StoreOK, DeviceOK
  <1>2. \A u \in Tasks : call'[u].pc = "idle"
    BY <1>1, NobodyInside
  <1> QED
    BY <1>2 DEF SeeksOK, FoundOK

LEMMA NextSeeks == Inv /\ Inv' /\ SeeksOK /\ [Next]_vars => SeeksOK'
  <1> SUFFICES ASSUME Inv, Inv', SeeksOK, [Next]_vars
               PROVE  SeeksOK'
    OBVIOUS
  <1>1. CASE aesd_init_module \/ aesd_cleanup_module
    BY <1>1, ModuleSeeks
  <1>2. CASE UNCHANGED <<devVars, mtx, call>>
    <2>1. Completed' = Completed
      BY <1>2 DEF Completed, At, ThisEntry, devVars
    <2> QED
      BY <1>2, <2>1 DEF SeeksOK
  <1>3. ASSUME NEW f \in Files, aesd_open(f) \/ aesd_release(f)
        PROVE  SeeksOK'
    BY <1>2, <1>3 DEF aesd_open, aesd_release, lockVars
  <1>4. ASSUME NEW t \in Tasks, NEW f \in Files, Begin(t, f)
        PROVE  SeeksOK'
    BY <1>4, BeginSeeks
  <1>5. ASSUME NEW t \in Tasks, Lock(t)
        PROVE  SeeksOK'
    BY <1>5, LockSeeks
  <1>6. ASSUME NEW t \in Tasks, Interrupted(t)
        PROVE  SeeksOK'
    <2>1. Return(t) /\ UNCHANGED devVars /\ call[t].pc # "w_entry"
      BY <1>6 DEF Interrupted, Waiting
    <2> QED
      BY <2>1, ReturnSeeks
  <1>7. ASSUME NEW t \in Tasks, LockOops(t)
        PROVE  SeeksOK'
    BY <1>2, <1>7 DEF LockOops
  <1>8. ASSUME NEW t \in Tasks, Step(t)
        PROVE  SeeksOK'
    <2>1. CASE WriteChar(t)
      BY <2>1, WriteCharSeeks
    <2>2. CASE WriteNewline(t)
      BY <2>2, WriteNewlineSeeks
    <2>3. CASE WriteEntry(t)
      BY <2>3, WriteEntrySeeks
    <2>4. CASE IoctlCount(t)
      BY <2>4, IoctlCountSeeks
    <2>5. CASE IoctlCheck(t)
      BY <2>5, IoctlCheckSeeks
    <2>6. CASE IoctlSeek(t)
      BY <2>6, IoctlSeekSeeks
    <2>7. CASE \/ WriteEnd(t) \/ ReadCopy(t) \/ LseekSize(t) \/ LseekCheck(t)
               \/ WriteNoMem(t) \/ ReadFault(t) \/ CallDone(t)
               \/ LseekStore(t) \/ IoctlStore(t)
      BY <2>7, OtherSeeks
    <2> QED
      BY <1>8, <2>1, <2>2, <2>3, <2>4, <2>5, <2>6, <2>7 DEF Step
  <1>9. CASE UNCHANGED vars
    BY <1>2, <1>9 DEF vars, lockVars
  <1> QED
    BY <1>1, <1>3, <1>4, <1>5, <1>6, <1>7, <1>8, <1>9 DEF Next

LEMMA InitSeeks == Init => SeeksOK
  BY DEF Init, SeeksOK, FoundOK, NoCall, NewCall

\* A command that is stored before the buffer is full keeps its place among the
\* bytes, so what the call added up is where the command starts.
LEMMA InvSeekTo ==
  ASSUME Inv, SeeksOK, [Next]_vars, NEW t \in Tasks, At(t, "i_store"),
         At(t, "idle")', ~Completed.full
  PROVE  f_pos'[call[t].file]
           = PositionOf(call[t].arg.write_cmd, call[t].arg.write_cmd_offset)
  <1> DEFINE c == call[t]
             b == Completed
             k == c.arg.write_cmd
             offset == c.arg.write_cmd_offset
             start == FlattenSeq(SubSeq(Lines(b), 1, k))
  <1>1. c.pc = "i_store" /\ call'[t] # call[t]
    BY DEF At
  <1>2. IoctlStore(t)
    BY <1>1, EndsInStore DEF Inv, vars, LseekStore, At
  <1>3. /\ c \in Calls /\ c.file \in Files /\ f_pos \in [Files -> Int]
        /\ k \in Nat /\ offset \in Nat /\ loaded
    <2>1. CallOK(t) /\ opened \subseteq Files
      BY DEF Inv, TypeOK, CallsOK
    <2> QED
      BY <1>1, <2>1, SeekCall DEF Seeking, CallOK, Inv, TypeOK
  <1>4. f_pos'[c.file] = c.acc + offset
    BY <1>2, <1>3 DEF IoctlStore, StorePosition
  <1>5. k < Count(b) /\ c.acc = SizeUpTo(b)[k]
    BY <1>1 DEF SeeksOK, FoundOK
  <1>6. b \in Buffers(Addr) /\ RingShape(b) /\ b.out_offs = 0
    BY <1>3, WindowLines DEF RingShape
  <1>7. Count(b) \in 0 .. MaxOps
    BY <1>6, WindowElements
  <1>8. k \in 0 .. Count(b) /\ k \in 0 .. MaxOps
    BY <1>3, <1>5, <1>7, MaxOpsAssumption
  <1>9. Len(start) = TotalBytesSize(b)[k]
    BY <1>3, <1>8, LinesPlaces
  <1>10. TotalBytesSize(b)[k] = SizeUpTo(b)[k]
    BY <1>6, <1>8, TotalsUnrotated
  <1> QED
    BY <1>4, <1>5, <1>9, <1>10 DEF PositionOf

\* An ioctl that finds its command finds the right one, without the lock, as
\* long as no command has been dropped.
THEOREM DriverSeekToBeforeWrap == Spec => SeekToBeforeWrap
  <1>1. Spec => [](Inv /\ SeeksOK)
    <2>1. Init => SeeksOK
      BY InitSeeks
    <2>2. Inv /\ Inv' /\ SeeksOK /\ [Next]_vars => SeeksOK'
      BY NextSeeks
    <2> QED
      BY <2>1, <2>2, InvHolds, PTL DEF Spec
  <1>2. Inv /\ SeeksOK /\ [Next]_vars =>
          [\A t \in Tasks :
             At(t, "i_store") /\ At(t, "idle")' /\ ~Completed.full =>
               f_pos'[call[t].file]
                 = PositionOf(call[t].arg.write_cmd,
                              call[t].arg.write_cmd_offset)]_vars
    BY InvSeekTo
  <1> QED
    BY <1>1, <1>2, PTL DEF Spec, SeekToBeforeWrap

(***************************************************************************)
(* One call as a whole: the driver's state as a device.                    *)
(***************************************************************************)
TextIn(h, p) == IF p = NULL THEN NULL ELSE h[p]

TextsIn(h, b) ==
  [b EXCEPT !.entry = [s \in Slots |-> [buffptr |-> TextIn(h, b.entry[s].buffptr),
                                        size    |-> b.entry[s].size]]]

Devices == [buf : Buffers(Seq(Chars)), line : Seq(Chars)]

\* What replacing the pointers leaves as it is.
LEMMA TextsFields ==
  ASSUME NEW h \in [Addr -> Seq(Chars)], NEW b \in Buffers(Addr)
  PROVE  /\ TextsIn(h, b) \in Buffers(Seq(Chars))
         /\ TextsIn(h, b).in_offs = b.in_offs
         /\ TextsIn(h, b).out_offs = b.out_offs
         /\ TextsIn(h, b).full = b.full
         /\ \A s \in Slots :
              TextsIn(h, b).entry[s]
                = [buffptr |-> TextIn(h, b.entry[s].buffptr), size |-> b.entry[s].size]
  <1> DEFINE entry == [s \in Slots |->
                         [buffptr |-> TextIn(h, b.entry[s].buffptr),
                          size    |-> b.entry[s].size]]
  <1>1. TextsIn(h, b) = [b EXCEPT !.entry = entry]
    BY DEF TextsIn
  <1>2. \A s \in Slots : /\ b.entry[s].buffptr \in Addr \cup {NULL}
                         /\ b.entry[s].size \in Nat
                         /\ b.entry[s] \in Entries(Addr)
    BY DEF Buffers, Entries
  <1>3. \A s \in Slots :
          /\ entry[s] = [buffptr |-> TextIn(h, b.entry[s].buffptr),
                         size |-> b.entry[s].size]
          /\ TextIn(h, b.entry[s].buffptr) \in Seq(Chars) \cup {NULL}
    BY <1>2 DEF TextIn
  <1>4. entry \in [Slots -> Entries(Seq(Chars))]
    BY <1>2, <1>3 DEF Entries
  <1> HIDE DEF entry
  <1>5. [b EXCEPT !.entry = entry]
          = [entry |-> entry, in_offs |-> b.in_offs, out_offs |-> b.out_offs,
             full |-> b.full]
    BY DEF Buffers
  <1>6. b.in_offs \in Slots /\ b.out_offs \in Slots /\ b.full \in BOOLEAN
    BY DEF Buffers
  <1> QED
    BY <1>1, <1>3, <1>4, <1>5, <1>6 DEF Buffers

LEMMA SameBuffer ==
  ASSUME NEW P, NEW a \in Buffers(P), NEW b \in Buffers(P),
         a.in_offs = b.in_offs, a.out_offs = b.out_offs, a.full = b.full,
         \A s \in Slots : a.entry[s] = b.entry[s]
  PROVE  a = b
  <1>1. a.entry = b.entry
    BY DEF Buffers
  <1> QED
    BY <1>1 DEF Buffers

LEMMA TextsStay ==
  ASSUME NEW g, NEW h, NEW b \in Buffers(Addr),
         \A s \in Slots : b.entry[s].buffptr # NULL =>
           h[b.entry[s].buffptr] = g[b.entry[s].buffptr]
  PROVE  TextsIn(h, b) = TextsIn(g, b)
  <1>1. \A s \in Slots : TextIn(h, b.entry[s].buffptr) = TextIn(g, b.entry[s].buffptr)
    BY DEF TextIn
  <1>2. [s \in Slots |-> [buffptr |-> TextIn(h, b.entry[s].buffptr),
                         size    |-> b.entry[s].size]]
          = [s \in Slots |-> [buffptr |-> TextIn(g, b.entry[s].buffptr),
                             size    |-> b.entry[s].size]]
    BY <1>1
  <1> QED
    BY <1>2 DEF TextsIn

\* The lines of a buffer and the buffer of its lines have the same shape.
LEMMA TextsShape ==
  ASSUME NEW h \in [Addr -> Seq(Chars)], NEW b \in Buffers(Addr), RingShape(b)
  PROVE  RingShape(TextsIn(h, b)) /\ Count(TextsIn(h, b)) = Count(b)
  <1> DEFINE d == TextsIn(h, b)
  <1>1. /\ d.in_offs = b.in_offs /\ d.out_offs = b.out_offs /\ d.full = b.full
        /\ \A s \in Slots : /\ d.entry[s] = [buffptr |-> TextIn(h, b.entry[s].buffptr),
                                            size |-> b.entry[s].size]
                            /\ b.entry[s].buffptr \in Addr \cup {NULL}
    BY TextsFields DEF Buffers, Entries
  <1> HIDE DEF d
  <1>2. \A p \in Addr : h[p] # NULL
    BY TextAssumption
  <1>3. \A s \in Slots : /\ d.entry[s].size = b.entry[s].size
                         /\ b.entry[s].buffptr # NULL => d.entry[s].buffptr # NULL
                         /\ b.entry[s] = [buffptr |-> NULL, size |-> 0] =>
                              d.entry[s] = [buffptr |-> NULL, size |-> 0]
    <2>1. \A s \in Slots :
            /\ d.entry[s].size = b.entry[s].size
            /\ d.entry[s].buffptr = TextIn(h, b.entry[s].buffptr)
      <3> SUFFICES ASSUME NEW s \in Slots
                   PROVE  /\ d.entry[s].size = b.entry[s].size
                          /\ d.entry[s].buffptr = TextIn(h, b.entry[s].buffptr)
        OBVIOUS
      <3>1. d.entry[s] = [buffptr |-> TextIn(h, b.entry[s].buffptr),
                          size |-> b.entry[s].size]
        BY <1>1
      <3> QED
        BY <3>1
    <2>2. \A p \in Addr \cup {NULL} : TextIn(h, p) = NULL <=> p = NULL
      BY <1>2 DEF TextIn
    <2> SUFFICES ASSUME NEW s \in Slots
                 PROVE  /\ d.entry[s].size = b.entry[s].size
                        /\ b.entry[s].buffptr # NULL => d.entry[s].buffptr # NULL
                        /\ b.entry[s] = [buffptr |-> NULL, size |-> 0] =>
                             d.entry[s] = [buffptr |-> NULL, size |-> 0]
      OBVIOUS
    <2> DEFINE p == b.entry[s].buffptr
               x == TextIn(h, p)
    <2>3. /\ d.entry[s] = [buffptr |-> x, size |-> b.entry[s].size]
          /\ d.entry[s].buffptr = x /\ d.entry[s].size = b.entry[s].size
          /\ x = NULL <=> p = NULL
      BY <1>1, <2>1, <2>2
    <2> QED
      BY <2>3
  <1>4. RingShape(d)
    BY <1>1, <1>3 DEF RingShape
  <1>5. Count(d) = Count(b)
    BY <1>1 DEF Count
  <1> QED
    BY <1>4, <1>5 DEF d

\* Adding a block and replacing the pointers commute.
LEMMA TextsAdd ==
  ASSUME NEW h \in [Addr -> Seq(Chars)], NEW b \in Buffers(Addr),
         NEW e \in Entries(Addr)
  PROVE  TextsIn(h, AddEntry(b, e))
           = AddEntry(TextsIn(h, b), [buffptr |-> TextIn(h, e.buffptr), size |-> e.size])
  <1> DEFINE x == TextsIn(h, b)
             f == [buffptr |-> TextIn(h, e.buffptr), size |-> e.size]
             a == AddEntry(b, e)
             y == TextsIn(h, a)
             z == AddEntry(x, f)
  <1>1. /\ x \in Buffers(Seq(Chars))
        /\ x.in_offs = b.in_offs /\ x.out_offs = b.out_offs /\ x.full = b.full
        /\ \A s \in Slots : x.entry[s] = [buffptr |-> TextIn(h, b.entry[s].buffptr),
                                         size |-> b.entry[s].size]
    BY TextsFields
  <1>2. f \in Entries(Seq(Chars))
    BY DEF Entries, TextIn
  <1>3. /\ a \in Buffers(Addr) /\ a.entry = [b.entry EXCEPT ![b.in_offs] = e]
        /\ a.in_offs = NextSlot(b.in_offs)
        /\ a.out_offs = IF b.full THEN NextSlot(b.out_offs) ELSE b.out_offs
        /\ a.full <=> a.in_offs = a.out_offs
    BY AddEntryFields
  <1> HIDE DEF a
  <1>4. /\ y \in Buffers(Seq(Chars))
        /\ y.in_offs = a.in_offs /\ y.out_offs = a.out_offs /\ y.full = a.full
        /\ \A s \in Slots : y.entry[s] = [buffptr |-> TextIn(h, a.entry[s].buffptr),
                                         size |-> a.entry[s].size]
    BY <1>3, TextsFields
  <1>5. f = [buffptr |-> TextIn(h, e.buffptr), size |-> e.size]
    OBVIOUS
  <1> HIDE DEF x, y, f
  <1>6. /\ z \in Buffers(Seq(Chars)) /\ z.entry = [x.entry EXCEPT ![x.in_offs] = f]
        /\ z.in_offs = NextSlot(x.in_offs)
        /\ z.out_offs = IF x.full THEN NextSlot(x.out_offs) ELSE x.out_offs
        /\ z.full <=> z.in_offs = z.out_offs
    BY <1>1, <1>2, AddEntryFields
  <1> HIDE DEF z
  <1>7. /\ y.in_offs = z.in_offs /\ y.out_offs = z.out_offs
    BY <1>1, <1>3, <1>4, <1>6
  <1>8. y.full = z.full
    <2>1. /\ y.full \in BOOLEAN /\ z.full \in BOOLEAN /\ a.full \in BOOLEAN
      BY <1>3, <1>4, <1>6 DEF Buffers
    <2> QED
      BY <1>1, <1>3, <1>4, <1>6, <1>7, <2>1
  <1>9. \A s \in Slots : y.entry[s] = z.entry[s]
    <2>1. /\ b.entry \in [Slots -> Entries(Addr)] /\ b.in_offs \in Slots
          /\ x.entry \in [Slots -> Entries(Seq(Chars))]
      BY <1>1 DEF Buffers
    <2>2. \A s \in Slots : /\ a.entry[s] = IF s = b.in_offs THEN e ELSE b.entry[s]
                           /\ z.entry[s] = IF s = b.in_offs THEN f ELSE x.entry[s]
      BY <1>1, <1>3, <1>6, <2>1
    <2> SUFFICES ASSUME NEW s \in Slots PROVE y.entry[s] = z.entry[s]
      OBVIOUS
    <2>3. y.entry[s] = [buffptr |-> TextIn(h, a.entry[s].buffptr),
                        size |-> a.entry[s].size]
      BY <1>4
    <2>4. CASE s = b.in_offs
      <3>1. a.entry[s] = e /\ z.entry[s] = f
        BY <2>2, <2>4
      <3> QED
        BY <1>5, <2>3, <3>1
    <2>5. CASE s # b.in_offs
      <3>1. a.entry[s] = b.entry[s] /\ z.entry[s] = x.entry[s]
        BY <2>2, <2>5
      <3>2. x.entry[s] = [buffptr |-> TextIn(h, b.entry[s].buffptr),
                          size |-> b.entry[s].size]
        BY <1>1
      <3> QED
        BY <2>3, <3>1, <3>2
    <2> QED
      BY <2>4, <2>5
  <1> QED
    BY <1>4, <1>6, <1>7, <1>8, <1>9, SameBuffer DEF x, y, z, f, a

LEMMA PutByteIsDevice ==
  ASSUME NEW d \in Devices, NEW byte \in Chars
  PROVE  PutByte(d, byte) \in Devices
  <1> DEFINE line == Append(d.line, byte)
             e == [buffptr |-> line, size |-> Len(line)]
  <1>1. d.buf \in Buffers(Seq(Chars)) /\ d.line \in Seq(Chars)
    BY DEF Devices
  <1>2. line \in Seq(Chars) /\ Len(line) \in Nat /\ <<>> \in Seq(Chars)
    BY <1>1
  <1>3. PutByte(d, byte) = IF byte = NL THEN [buf |-> AddEntry(d.buf, e), line |-> <<>>]
                                        ELSE [buf |-> d.buf, line |-> line]
    <2>1. [d EXCEPT !.line = line] = [buf |-> d.buf, line |-> line]
      <3> HIDE DEF line
      <3> QED
        BY DEF Devices
    <2> QED
      BY <2>1 DEF PutByte
  <1>4. e \in Entries(Seq(Chars))
    BY <1>2 DEF Entries
  <1> HIDE DEF line, e
  <1>5. AddEntry(d.buf, e) \in Buffers(Seq(Chars))
    BY <1>1, <1>4, AddEntryFields
  <1> QED
    BY <1>1, <1>2, <1>3, <1>5 DEF Devices

\* A write, byte by byte.
LEMMA PutBytesOne ==
  ASSUME NEW d \in Devices, NEW bytes \in Seq(Chars)
  PROVE  /\ PutBytes(d, bytes)[0] = d
         /\ \A k \in 1 .. Len(bytes) :
              PutBytes(d, bytes)[k] = PutByte(PutBytes(d, bytes)[k - 1], bytes[k])
  <1>1. \A k \in 1 .. Len(bytes) : \A x \in Devices : PutByte(x, bytes[k]) \in Devices
    BY PutByteIsDevice
  <1> QED
    BY <1>1, PutBytesSteps

(***************************************************************************)
(* The device at each step of the driver.                                  *)
(***************************************************************************)
DevIn(l, h, b, line) ==
  IF l THEN [buf |-> TextsIn(h, b), line |-> line] ELSE EmptyDevice

LEMMA DevIs ==
  /\ Dev = DevIn(loaded, heap, Completed, LogPending)
  /\ Dev' = DevIn(loaded', heap', Completed', LogPending')
  <1>1. Dev = DevIn(loaded, heap, Completed, LogPending)
    BY DEF Dev, DevIn, Texts, TextsIn, Text, TextIn, LogPending, Pending
  <1>2. Dev' = DevIn(loaded', heap', Completed', LogPending')
    BY DEF Dev, DevIn, Texts, TextsIn, Text, TextIn, LogPending, Pending
  <1> QED
    BY <1>1, <1>2

LEMMA EmptyDeviceIsDevice == EmptyDevice \in Devices
  <1>1. EmptyBuffer \in Buffers(Seq(Chars)) /\ <<>> \in Seq(Chars)
    BY EmptyBufferShape
  <1> QED
    BY <1>1 DEF EmptyDevice, Devices

DevIsDevice == Dev \in Devices

LEMMA InvDevice == Inv => DevIsDevice
  <1> SUFFICES ASSUME Inv PROVE Dev \in Devices
    BY DEF DevIsDevice
  <1>1. CASE ~loaded
    BY <1>1, DevIs, EmptyDeviceIsDevice DEF DevIn
  <1>2. CASE loaded
    <2>1. Completed \in Buffers(Addr) /\ heap \in [Addr -> Seq(Chars)]
      BY CompletedIsBuffer DEF Inv, TypeOK
    <2>2. TextsIn(heap, Completed) \in Buffers(Seq(Chars))
      BY <2>1, TextsFields
    <2>3. LogPending \in Seq(Chars)
      <3>1. Pending # NULL => g_buff \in Addr
        BY DEF Inv, TypeOK, Pending
      <3> QED
        BY <2>1, <3>1 DEF LogPending
    <2> QED
      BY <1>2, <2>2, <2>3, DevIs DEF DevIn, Devices
  <1> QED
    BY <1>1, <1>2

LEMMA DevStays ==
  ASSUME Inv, StoreStays
  PROVE  Dev' = Dev
  <1>1. Completed \in Buffers(Addr)
    BY CompletedIsBuffer DEF Inv
  <1>2. /\ loaded' = loaded /\ Completed' = Completed
        /\ \A s \in Slots : Completed.entry[s].buffptr # NULL =>
             heap'[Completed.entry[s].buffptr] = heap[Completed.entry[s].buffptr]
    BY DEF StoreStays
  <1>3. TextsIn(heap', Completed) = TextsIn(heap, Completed)
    <2> DEFINE h == heap'
               b == Completed
    <2>1. \A s \in Slots : b.entry[s].buffptr # NULL =>
            h[b.entry[s].buffptr] = heap[b.entry[s].buffptr]
      BY <1>2
    <2> HIDE DEF h, b
    <2>2. TextsIn(h, b) = TextsIn(heap, b)
      BY <1>1, <2>1, TextsStay DEF b
    <2> QED
      BY <2>2 DEF h, b
  <1>4. LogPending' = LogPending
    BY LogStays DEF StoreStays
  <1> QED
    BY <1>2, <1>3, <1>4, DevIs DEF DevIn

LEMMA EmptyTexts ==
  ASSUME NEW h \in [Addr -> Seq(Chars)]
  PROVE  TextsIn(h, EmptyBuffer) = EmptyBuffer
  <1> DEFINE b == EmptyBuffer
             d == TextsIn(h, b)
  <1>1. b \in Buffers(Addr) /\ b \in Buffers(Seq(Chars))
    BY EmptyBufferShape
  <1>2. \A s \in Slots : b.entry[s] = [buffptr |-> NULL, size |-> 0]
    BY DEF EmptyBuffer
  <1> HIDE DEF b
  <1>3. /\ d \in Buffers(Seq(Chars))
        /\ d.in_offs = b.in_offs /\ d.out_offs = b.out_offs /\ d.full = b.full
        /\ \A s \in Slots : d.entry[s] = [buffptr |-> TextIn(h, b.entry[s].buffptr),
                                         size |-> b.entry[s].size]
    BY <1>1, TextsFields
  <1> HIDE DEF d
  <1>4. \A s \in Slots : d.entry[s] = b.entry[s]
    BY <1>2, <1>3 DEF TextIn
  <1> QED
    BY <1>1, <1>3, <1>4, SameBuffer DEF b, d

\* The store of a byte puts it into the device.
LEMMA WriteCharPuts ==
  ASSUME Inv, Inv', NEW t \in Tasks, WriteChar(t)
  PROVE  /\ Dev' = PutByte(Dev, ThisByte(t))
         /\ mtx = t /\ mtx' = t /\ WriterIn /\ WriterIn'
         /\ call'[t].arg = call[t].arg /\ call'[t].i = call[t].i + 1
  <1> DEFINE c == [call[t] EXCEPT !.i = @ + 1]
             byte == ThisByte(t)
  <1>1. /\ HasByte(t) /\ byte # NL /\ Continue(t, c)
        /\ loaded' = loaded /\ circular_buf' = circular_buf /\ mtx' = mtx
    BY DEF WriteChar, lockVars
  <1>2. PICK b \in Addr : GrowTo(b, byte)
    BY DEF WriteChar
  <1>3. /\ call[t] \in Calls /\ call[t].pc = "w_byte" /\ mtx = t /\ loaded
        /\ Completed = circular_buf /\ Pending = g_buff /\ byte \in Chars
    BY <1>1, WriterHasByte
  <1>4. c.pc = "w_byte" /\ c.i = call[t].i + 1 /\ c.arg = call[t].arg
    BY <1>3 DEF Calls
  <1> HIDE DEF c
  <1>5. call'[t] = c
    BY <1>1, ContinueGoes
  <1>6. WriterIn /\ WriterIn'
    BY <1>1, <1>3, <1>4, <1>5, DriverAssumption DEF WriterIn, Writing
  <1>7. g_buff' = b /\ b # NULL
    BY <1>2, DriverAssumption DEF GrowTo
  <1>8. Completed' = Completed /\ Pending' = b
    <2>1. call'[mtx'].pc # "w_entry"
      BY <1>1, <1>3, <1>4, <1>5
    <2> QED
      BY <1>1, <1>3, <1>7, <2>1 DEF Completed, Pending, At
  <1> HIDE DEF byte
  <1>9. LogPending' = Append(LogPending, byte)
    <2>1. LogPending = IF g_buff = NULL THEN <<>> ELSE heap[g_buff]
      BY <1>3 DEF LogPending
    <2>2. heap'[b] = Append(LogPending, byte)
      BY <1>2, <2>1, GrownLine
    <2>3. LogPending' = heap'[b]
      BY <1>1, <1>3, <1>7, <1>8 DEF LogPending
    <2> QED
      BY <2>2, <2>3
  <1>10. TextsIn(heap', Completed) = TextsIn(heap, Completed)
    <2> DEFINE h == heap'
               d == Completed
    <2>1. \A s \in Slots : d.entry[s].buffptr # NULL =>
            h[d.entry[s].buffptr] = heap[d.entry[s].buffptr]
      BY <1>1, <1>2, <1>3, GrowKeepsLines
    <2>2. d \in Buffers(Addr)
      BY CompletedIsBuffer DEF Inv
    <2> HIDE DEF h, d
    <2>3. TextsIn(h, d) = TextsIn(heap, d)
      BY <2>1, <2>2, TextsStay
    <2> QED
      BY <2>3 DEF h, d
  <1> DEFINE x == TextsIn(heap, Completed)
             line == Append(LogPending, byte)
  <1>11. Dev = [buf |-> x, line |-> LogPending]
    BY <1>3, DevIs DEF DevIn
  <1>12. Dev' = [buf |-> x, line |-> line]
    BY <1>1, <1>3, <1>8, <1>9, <1>10, DevIs DEF DevIn
  <1> HIDE DEF x
  <1>13. PutByte(Dev, byte) = [buf |-> x, line |-> line]
    BY <1>1, <1>11 DEF PutByte
  <1> QED
    BY <1>1, <1>3, <1>4, <1>5, <1>6, <1>12, <1>13 DEF byte

\* The newline, too: add_entry, half done, is complete to who looks at the
\* device.
LEMMA WriteNewlinePuts ==
  ASSUME Inv, Inv', NEW t \in Tasks, WriteNewline(t)
  PROVE  /\ Dev' = PutByte(Dev, ThisByte(t))
         /\ mtx = t /\ mtx' = t /\ WriterIn /\ WriterIn'
         /\ call'[t].arg = call[t].arg /\ call'[t].i = call[t].i + 1
  <1> DEFINE c == [call[t] EXCEPT !.pc = "w_entry", !.i = @ + 1,
                                  !.old_buff = OldBuff(circular_buf)]
             e == [buffptr |-> g_buff', size |-> g_len']
             d == circular_buf
  <1>1. /\ HasByte(t) /\ ThisByte(t) = NL /\ Continue(t, c)
        /\ circular_buf' \in HalfAdded(d, e)
        /\ loaded' = loaded /\ mtx' = mtx
    BY DEF WriteNewline, ThisEntry, lockVars
  <1>2. PICK b \in Addr : GrowTo(b, NL)
    BY DEF WriteNewline
  <1>3. /\ call[t] \in Calls /\ call[t].pc = "w_byte" /\ mtx = t /\ loaded
        /\ Completed = d /\ Pending = g_buff /\ ~Adding /\ t # NoTask
    BY <1>1, WriterHasByte, DriverAssumption
  <1>4. c.pc = "w_entry" /\ c.i = call[t].i + 1 /\ c.arg = call[t].arg
    BY <1>3 DEF Calls
  <1> HIDE DEF c
  <1>5. call'[t] = c
    BY <1>1, ContinueGoes
  <1>6. WriterIn /\ WriterIn'
    BY <1>1, <1>3, <1>4, <1>5, SMTT(30) DEF WriterIn, Writing
  <1>7. /\ g_buff' = b /\ g_len' = g_len + 1 /\ Len(heap'[b]) = g_len + 1
        /\ heap' \in [Addr -> Seq(Chars)] /\ b # NULL
    <2>1. TypeOK /\ StoreOK
      BY DEF Inv
    <2> QED
      BY <1>2, <1>3, <2>1, DriverAssumption, GrowToGrows
  <1>8. d \in Buffers(Addr) /\ RingShape(d) /\ g_len \in Nat
    BY <1>3 DEF Inv, TypeOK, StoreOK, RingConsistent
  <1>9. /\ e \in Entries(Addr) /\ e.buffptr = b /\ e.size = g_len + 1
        /\ e.buffptr # NULL /\ e.size > 0
    BY <1>7, <1>8 DEF Entries
  <1>10. ThisEntry' = e
    BY DEF ThisEntry
  <1> HIDE DEF e
  <1>11. AddEntry(circular_buf', e) = AddEntry(d, e)
    BY <1>1, <1>8, <1>9, HalfAddedCompletes
  <1>12. Completed' = AddEntry(d, e) /\ Pending' = NULL
    <2>1. mtx' = t /\ call'[t].pc = "w_entry"
      BY <1>1, <1>3, <1>4, <1>5
    <2> QED
      BY <1>3, <1>10, <1>11, <2>1 DEF Completed, Pending, At
  <1> DEFINE line == Append(LogPending, NL)
             f == [buffptr |-> line, size |-> Len(line)]
             x == TextsIn(heap, d)
  <1>13. heap'[b] = line
    <2>1. LogPending = IF g_buff = NULL THEN <<>> ELSE heap[g_buff]
      BY <1>3 DEF LogPending
    <2> QED
      BY <1>2, <2>1, GrownLine
  <1>14. TextsIn(heap', d) = x
    <2> DEFINE h == heap'
    <2>1. \A s \in Slots : d.entry[s].buffptr # NULL =>
            h[d.entry[s].buffptr] = heap[d.entry[s].buffptr]
      BY <1>1, <1>2, <1>3, DriverAssumption, GrowKeepsLines
    <2> HIDE DEF h
    <2>2. TextsIn(h, d) = TextsIn(heap, d)
      BY <1>8, <2>1, TextsStay
    <2> QED
      BY <2>2 DEF h
  <1> HIDE DEF line
  <1>15. TextsIn(heap', AddEntry(d, e)) = AddEntry(TextsIn(heap', d), f)
    <2> DEFINE h == heap'
    <2>1. h \in [Addr -> Seq(Chars)] /\ h[b] = line /\ Len(line) = g_len + 1
      BY <1>7, <1>13
    <2> HIDE DEF h
    <2>2. TextsIn(h, AddEntry(d, e))
            = AddEntry(TextsIn(h, d), [buffptr |-> TextIn(h, e.buffptr), size |-> e.size])
      BY <1>8, <1>9, <2>1, TextsAdd
    <2>3. TextIn(h, e.buffptr) = line /\ e.size = Len(line)
      BY <1>9, <2>1 DEF TextIn
    <2> QED
      BY <2>2, <2>3 DEF h
  <1>16. Dev = [buf |-> x, line |-> LogPending]
    BY <1>3, DevIs DEF DevIn
  <1>17. LogPending' = <<>>
    BY <1>12 DEF LogPending
  <1> HIDE DEF x, f
  <1>18. Dev' = [buf |-> AddEntry(x, f), line |-> <<>>]
    BY <1>1, <1>3, <1>12, <1>14, <1>15, <1>17, DevIs DEF DevIn
  <1>19. PutByte(Dev, NL) = [buf |-> AddEntry(x, f), line |-> <<>>]
    BY <1>16 DEF PutByte, f, line
  <1> QED
    BY <1>1, <1>3, <1>4, <1>5, <1>6, <1>18, <1>19

(***************************************************************************)
(* The device before the write under way.                                  *)
(***************************************************************************)

\* Outside a write `before` is the device, and during one the device has its
\* first i bytes on top of it.
History ==
  /\ before \in Devices
  /\ ~WriterIn => before = Dev
  /\ WriterIn => Dev = PutBytes(before, call[mtx].arg.bytes)[call[mtx].i]

LEMMA InitHistory == CallsInit => History
  <1> SUFFICES ASSUME CallsInit PROVE History
    OBVIOUS
  <1>1. ~WriterIn /\ Dev = EmptyDevice /\ before = EmptyDevice
    BY DEF CallsInit, Init, WriterIn, Dev
  <1> QED
    BY <1>1, EmptyDeviceIsDevice DEF History

\* What a step does to the write under way.
AsideStep == /\ Dev' = Dev /\ WriterStays

Begins(t) ==
  /\ Dev' = Dev /\ ~WriterIn /\ WriterIn' /\ mtx' = t
  /\ call'[t].arg \in [bytes : Writes] /\ call'[t].i = 0

\* Task t puts its next byte.
Puts(t) ==
  /\ Dev' = PutByte(Dev, call[t].arg.bytes[call[t].i + 1])
  /\ mtx = t /\ mtx' = t /\ WriterIn /\ WriterIn'
  /\ call[t].i + 1 \in 1 .. Len(call[t].arg.bytes)
  /\ call'[t].arg = call[t].arg /\ call'[t].i = call[t].i + 1

Completes(t) ==
  /\ Dev' = Dev /\ mtx = t /\ mtx' = t /\ WriterIn /\ WriterIn'
  /\ call'[t].arg = call[t].arg /\ call'[t].i = call[t].i

Ends(t) == Dev' = Dev /\ WriterIn /\ mtx = t /\ ~WriterIn'

Unloads == Dev' = EmptyDevice /\ ~WriterIn /\ ~WriterIn'

LEMMA AsideIs ==
  ASSUME Inv, Aside
  PROVE  AsideStep
  BY DevStays DEF Aside, AsideStep

LEMMA PutsIs ==
  ASSUME Inv, Inv', NEW t \in Tasks, WriteChar(t) \/ WriteNewline(t)
  PROVE  Puts(t)
  <1>1. HasByte(t)
    BY DEF WriteChar, WriteNewline
  <1>2. /\ Dev' = PutByte(Dev, ThisByte(t))
        /\ mtx = t /\ mtx' = t /\ WriterIn /\ WriterIn'
        /\ call'[t].arg = call[t].arg /\ call'[t].i = call[t].i + 1
    BY WriteCharPuts, WriteNewlinePuts
  <1>3. /\ CallOK(t) /\ call[t].pc = "w_byte" /\ call[t] \in Calls
        /\ call[t].i + 1 <= Len(call[t].arg.bytes)
    BY <1>1, WriterHasByte
  <1>4. heap[call[t].wbuff] = call[t].arg.bytes /\ call[t].i \in Nat
    BY <1>3 DEF CallOK, InWrite, Writing, Calls
  <1>5. ThisByte(t) = call[t].arg.bytes[call[t].i + 1]
    BY <1>4 DEF ThisByte
  <1>6. call[t].i + 1 \in 1 .. Len(call[t].arg.bytes)
    <2>1. Len(call[t].arg.bytes) \in Nat
      BY <1>3, DriverAssumption DEF CallOK, InWrite, Writing
    <2> QED
      BY <1>3, <1>4, <2>1
  <1> QED
    BY <1>2, <1>5, <1>6 DEF Puts

LEMMA ModuleIs ==
  ASSUME Inv, Inv', aesd_init_module \/ aesd_cleanup_module
  PROVE  Unloads
  <1>1. opened = {} /\ mtx' = mtx
    BY DEF aesd_init_module, aesd_cleanup_module, lockVars, Inv, StoreOK, DeviceOK
  <1>2. mtx = NoTask
    BY <1>1, NobodyInside
  <1>3. ~WriterIn /\ ~WriterIn'
    BY <1>1, <1>2 DEF WriterIn
  <1>4. CASE aesd_cleanup_module
    BY <1>3, <1>4 DEF aesd_cleanup_module, Dev, Unloads
  <1>5. CASE aesd_init_module
    <2>1. loaded' /\ circular_buf' = EmptyBuffer /\ g_buff' = NULL
      BY <1>5 DEF aesd_init_module
    <2>2. Completed' = EmptyBuffer /\ LogPending' = <<>>
      BY <1>1, <1>2, <2>1 DEF Completed, LogPending, Pending
    <2>3. TextsIn(heap', EmptyBuffer) = EmptyBuffer
      BY EmptyTexts DEF Inv, TypeOK
    <2> QED
      BY <1>3, <2>1, <2>2, <2>3, DevIs DEF DevIn, EmptyDevice, Unloads
  <1> QED
    BY <1>4, <1>5

\* One step per action.
LEMMA StepIs ==
  ASSUME Inv, Inv', [Next]_vars
  PROVE  \/ AsideStep \/ Unloads
         \/ \E t \in Tasks : Begins(t) \/ Puts(t) \/ Completes(t) \/ Ends(t)
  <1>1. CASE aesd_init_module \/ aesd_cleanup_module
    BY <1>1, ModuleIs
  <1>2. ASSUME NEW f \in Files, aesd_open(f) \/ aesd_release(f)
        PROVE  AsideStep
    <2>1. UNCHANGED <<memVars, devVars, mtx, call>>
      BY <1>2 DEF aesd_open, aesd_release, lockVars
    <2> QED
      BY <2>1, SameStoreAside, AsideIs
  <1>3. ASSUME NEW t \in Tasks, NEW f \in Files, Begin(t, f)
        PROVE  AsideStep
    BY <1>3, BeginAside, AsideIs
  <1>4. ASSUME NEW t \in Tasks, Lock(t)
        PROVE  AsideStep \/ Begins(t)
    BY <1>4, LockBegins, AsideIs, DevStays DEF Begins
  <1>5. ASSUME NEW t \in Tasks, Interrupted(t)
        PROVE  AsideStep
    BY <1>5, InterruptedAside, AsideIs
  <1>6. ASSUME NEW t \in Tasks, LockOops(t)
        PROVE  AsideStep
    BY <1>6, SameStoreAside, AsideIs DEF LockOops
  <1>7. ASSUME NEW t \in Tasks, Step(t)
        PROVE  AsideStep \/ Puts(t) \/ Completes(t) \/ Ends(t)
    <2>1. CASE WriteChar(t) \/ WriteNewline(t)
      BY <2>1, PutsIs
    <2>2. CASE WriteEntry(t)
      BY <2>2, WriteEntryStays, DevStays DEF Completes
    <2>3. CASE WriteNoMem(t) \/ WriteEnd(t)
      BY <2>3, WriteEnds, DevStays DEF Ends
    <2>4. CASE QuietSteps(t)
      BY <2>4, QuietStepsAside, AsideIs
    <2> QED
      BY <1>7, <2>1, <2>2, <2>3, <2>4 DEF Step, QuietSteps
  <1>8. CASE UNCHANGED vars
    BY <1>8, SameStoreAside, AsideIs DEF vars, lockVars
  <1> QED
    BY <1>1, <1>2, <1>3, <1>4, <1>5, <1>6, <1>7, <1>8 DEF Next

\* What is sure of the write under way.
LEMMA WriterCall ==
  ASSUME Inv, WriterIn
  PROVE  /\ mtx \in Tasks /\ CallOK(mtx)
         /\ call[mtx].arg.bytes \in Writes /\ call[mtx].arg.bytes \in Seq(Chars)
         /\ call[mtx].i \in 0 .. Len(call[mtx].arg.bytes)
  <1>1. mtx \in Tasks /\ call[mtx].pc \in Writing
    BY DEF WriterIn, Inv, TypeOK
  <1>2. CallOK(mtx) /\ call[mtx] \in Calls
    BY <1>1 DEF Inv, CallsOK, TypeOK
  <1>3. call[mtx].arg \in [bytes : Writes] /\ call[mtx].i <= Len(call[mtx].arg.bytes)
    BY <1>1, <1>2 DEF CallOK, InWrite
  <1>4. call[mtx].arg.bytes \in Writes /\ call[mtx].arg.bytes \in Seq(Chars)
    BY <1>3, DriverAssumption
  <1>5. call[mtx].i \in Nat
    BY <1>2 DEF Calls
  <1> QED
    BY <1>1, <1>2, <1>3, <1>4, <1>5

\* The operators of WholeWrites are those of Device.
LEMMA WholeDevice ==
  /\ Whole!EmptyDevice = EmptyDevice
  /\ \A d, bytes : Whole!PutBytes(d, bytes) = PutBytes(d, bytes)
  <1>1. Whole!EmptyDevice = EmptyDevice
    BY DEF Whole!EmptyDevice, EmptyDevice, Whole!EmptyBuffer, EmptyBuffer, Whole!Slots, Slots
  <1>2. \A d, bytes : Whole!PutBytes(d, bytes) = PutBytes(d, bytes)
    BY DEF Whole!PutBytes, PutBytes, Whole!PutByte, PutByte, Whole!AddEntry, AddEntry,
           Whole!NextSlot, NextSlot
  <1> QED
    BY <1>1, <1>2

LEMMA NextHistory == Inv /\ Inv' /\ History /\ [CallsNext]_callsVars => History'
  <1>0. Inv' => DevIsDevice'
    BY InvDevice, PTL
  <1> SUFFICES ASSUME Inv, Inv', History, [CallsNext]_callsVars
               PROVE  History'
    OBVIOUS
  <1>1. [Next]_vars
    BY DEF CallsNext, callsVars
  <1>2. Dev \in Devices /\ Dev' \in Devices
    BY <1>0, InvDevice DEF DevIsDevice
  <1>3. \/ before' = IF WriterIn' THEN before ELSE Dev'
        \/ before' = before /\ UNCHANGED vars
    BY DEF CallsNext, callsVars
  <1>4. \/ AsideStep \/ Unloads
        \/ \E t \in Tasks : Begins(t) \/ Puts(t) \/ Completes(t) \/ Ends(t)
    BY <1>1, StepIs
  <1>5. UNCHANGED vars => Dev' = Dev /\ (WriterIn' <=> WriterIn)
    BY SameStoreAside, AsideIs DEF vars, lockVars, AsideStep, WriterStays
  <1>6. ~WriterIn' => before' = Dev'
    BY <1>3, <1>5 DEF History
  <1>7. WriterIn' => before' = before
    BY <1>3
  <1>8. before' \in Devices
    BY <1>2, <1>6, <1>7 DEF History
  <1>9. ASSUME WriterIn'
        PROVE  Dev' = PutBytes(before, call'[mtx'].arg.bytes)[call'[mtx'].i]
    <2>1. CASE WriterIn
      <3> DEFINE bytes == call[mtx].arg.bytes
                 i == call[mtx].i
      <3>1. mtx \in Tasks /\ bytes \in Seq(Chars) /\ i \in 0 .. Len(bytes)
        BY <2>1, WriterCall
      <3>2. Dev = PutBytes(before, bytes)[i] /\ before \in Devices
        BY <2>1 DEF History
      <3>3. CASE \/ AsideStep
                 \/ \E t \in Tasks : Completes(t)
        <4>1. /\ Dev' = Dev /\ mtx' = mtx
              /\ call'[mtx].arg = call[mtx].arg /\ call'[mtx].i = call[mtx].i
          BY <2>1, <3>3 DEF AsideStep, WriterStays, Completes
        <4> QED
          BY <3>2, <4>1
      <3>4. CASE \E t \in Tasks : Puts(t)
        <4>1. /\ Dev' = PutByte(Dev, bytes[i + 1]) /\ mtx' = mtx
              /\ i + 1 \in 1 .. Len(bytes)
              /\ call'[mtx].arg = call[mtx].arg /\ call'[mtx].i = i + 1
          BY <3>4 DEF Puts
        <4> HIDE DEF bytes, i
        <4>2. PutBytes(before, bytes)[i + 1] = PutByte(PutBytes(before, bytes)[i], bytes[i + 1])
          <5>1. PutBytes(before, bytes)[i + 1]
                  = PutByte(PutBytes(before, bytes)[(i + 1) - 1], bytes[i + 1])
            BY <3>1, <3>2, <4>1, PutBytesOne
          <5>2. (i + 1) - 1 = i
            BY <3>1
          <5> QED
            BY <5>1, <5>2
        <4> QED
          BY <3>2, <4>1, <4>2 DEF bytes
      <3> QED
        BY <1>4, <1>9, <2>1, <3>3, <3>4 DEF Unloads, Begins, Ends
    <2>2. CASE ~WriterIn
      <3>1. PICK t \in Tasks : Begins(t)
        BY <1>4, <1>9, <2>2 DEF AsideStep, WriterStays, Unloads, Puts, Completes, Ends
      <3>2. before = Dev /\ before \in Devices
        BY <2>2 DEF History
      <3>3. /\ Dev' = Dev /\ mtx' = t /\ call'[t].i = 0
            /\ call'[t].arg.bytes \in Writes
        BY <3>1 DEF Begins
      <3>4. PutBytes(before, call'[t].arg.bytes)[0] = before
        BY <3>2, <3>3, PutBytesOne, DriverAssumption
      <3> QED
        BY <3>2, <3>3, <3>4
    <2> QED
      BY <2>1, <2>2
  <1> QED
    BY <1>6, <1>7, <1>8, <1>9 DEF History

LEMMA NextWhole ==
  Inv /\ Inv' /\ History /\ [CallsNext]_callsVars => [Whole!Next]_before
  <1> SUFFICES ASSUME Inv, Inv', History, [CallsNext]_callsVars, before' # before
               PROVE  Whole!Next
    OBVIOUS
  <1>1. [Next]_vars /\ ~WriterIn' /\ before' = Dev'
    BY DEF CallsNext, callsVars
  <1>2. \/ AsideStep \/ Unloads
        \/ \E t \in Tasks : Begins(t) \/ Puts(t) \/ Completes(t) \/ Ends(t)
    BY <1>1, StepIs
  <1>3. CASE WriterIn
    <2> DEFINE bytes == call[mtx].arg.bytes
               i == call[mtx].i
    <2>1. bytes \in Writes /\ i \in 0 .. Len(bytes)
      BY <1>3, WriterCall
    <2>2. Dev = PutBytes(before, bytes)[i]
      BY <1>3 DEF History
    <2>3. Dev' = Dev
      BY <1>1, <1>2, <1>3
         DEF AsideStep, WriterStays, Unloads, Begins, Puts, Completes, Ends
    <2> HIDE DEF bytes, i
    <2>4. Whole!Write(bytes)
      BY <1>1, <2>1, <2>2, <2>3, WholeDevice DEF Whole!Write
    <2> QED
      BY <2>1, <2>4 DEF Whole!Next
  <1>4. CASE ~WriterIn
    <2>1. before = Dev
      BY <1>4 DEF History
    <2>2. Unloads
      BY <1>1, <1>2, <1>4, <2>1
         DEF AsideStep, Begins, Puts, Completes, Ends
    <2> QED
      BY <1>1, <2>2, WholeDevice DEF Unloads, Whole!Next, Whole!Unload
  <1> QED
    BY <1>3, <1>4

LEMMA CallsInvHolds == CallsSpec => [](Inv /\ History)
  <1>1. CallsInit => Inv /\ History
    BY InitInv, InitHistory DEF CallsInit
  <1>2. [CallsNext]_callsVars => [Next]_vars
    BY DEF CallsNext, callsVars
  <1> QED
    BY <1>1, <1>2, NextInv, NextHistory, PTL DEF CallsSpec

\* Every run of the driver is, seen between two writes, a run of a device that
\* takes each write in one step: its bytes in order, all of them or those before
\* the kmalloc or krealloc that failed, with no byte of another call among them.
THEOREM DriverImplementsWrites == CallsSpec => ImplementsWrites
  <1>1. CallsInit => Whole!Init
    BY WholeDevice DEF CallsInit, Whole!Init
  <1> QED
    BY <1>1, CallsInvHolds, NextWhole, PTL DEF CallsSpec, ImplementsWrites, Whole!Spec

\* The task whose call changes is the one that acts.
LEMMA MoverActs ==
  ASSUME TypeOK, Next, NEW t \in Tasks, call'[t] # call[t]
  PROVE  (\E f \in Files : Begin(t, f)) \/ Lock(t) \/ Interrupted(t) \/ Step(t)
  <1>1. ASSUME NEW u \in Tasks, NEW c, Continue(u, c)
        PROVE  u = t
    BY <1>1 DEF Continue, TypeOK
  <1>2. PICK u \in Tasks : \/ \E f \in Files : Begin(u, f)
                           \/ Lock(u) \/ Interrupted(u) \/ Step(u)
    BY DEF Next, aesd_init_module, aesd_cleanup_module, aesd_open, aesd_release, LockOops
  <1>3. ASSUME NEW f \in Files, Begin(u, f)
        PROVE  u = t
    BY <1>1, <1>3 DEF Begin, WriteBegin, ReadBegin, LseekBegin, IoctlBegin, Enter
  <1>4. Lock(u) \/ Interrupted(u) => u = t
    BY <1>1 DEF Lock, Interrupted, Return
  <1>5. Step(u) => u = t
    BY <1>1, StepMoves
  <1> QED
    BY <1>2, <1>3, <1>4, <1>5

\* Only the end of aesd_write's loop ends a write that is not given up.
LEMMA DoneFromWriteEnd ==
  ASSUME Inv, Next, NEW t \in Tasks, At(t, "w_byte"), At(t, "done")'
  PROVE  WriteEnd(t)
  <1>1. call[t].pc = "w_byte" /\ call'[t].pc = "done" /\ TypeOK /\ call[t] \in Calls
    BY DEF At, Inv, TypeOK
  <1>2. (\E f \in Files : Begin(t, f)) \/ Lock(t) \/ Interrupted(t) \/ Step(t)
    BY <1>1, MoverActs
  <1>3. ~(\E f \in Files : Begin(t, f))
    BY <1>1 DEF Begin, WriteBegin, ReadBegin, LseekBegin, IoctlBegin, Enter, At
  <1>4. ~Lock(t) /\ ~Interrupted(t)
    BY <1>1 DEF Lock, Interrupted, Waiting
  <1>5. ASSUME NEW c, Continue(t, c)
        PROVE  call'[t] = c
    BY <1>1, <1>5 DEF Continue, TypeOK
  <1>6. \/ WriteChar(t) \/ WriteNewline(t) \/ WriteNoMem(t) \/ WriteEnd(t)
    BY <1>1, <1>2, <1>3, <1>4
       DEF Step, WriteEntry, ReadCopy, ReadFault, CallDone, LseekSize, LseekCheck,
           LseekStore, IoctlCount, IoctlCheck, IoctlSeek, IoctlStore, At
  <1>7. ~WriteChar(t)
    <2>1. [call[t] EXCEPT !.i = @ + 1].pc = "w_byte"
      BY <1>1 DEF Calls
    <2> QED
      BY <1>1, <1>5, <2>1 DEF WriteChar
  <1>8. ~WriteNewline(t)
    <2>1. [call[t] EXCEPT !.pc = "w_entry", !.i = @ + 1,
                          !.old_buff = OldBuff(circular_buf)].pc = "w_entry"
      BY <1>1 DEF Calls
    <2> QED
      BY <1>1, <1>5, <2>1 DEF WriteNewline
  <1>9. ~WriteNoMem(t)
    BY <1>1, <1>5 DEF WriteNoMem, Return, NoCall, NewCall
  <1> QED
    BY <1>6, <1>7, <1>8, <1>9

LEMMA StoresAll ==
  ASSUME Inv, Inv', History, CallsNext, NEW t \in Tasks, At(t, "w_byte"), At(t, "done")'
  PROVE  before' = PutBytes(before, call[t].arg.bytes)[Len(call[t].arg.bytes)]
  <1>1. WriteEnd(t) /\ Next
    BY DoneFromWriteEnd DEF CallsNext
  <1>2. WriterIn /\ mtx = t /\ ~WriterIn' /\ Dev' = Dev
    BY <1>1, WriteEnds, DevStays
  <1>3. before' = Dev'
    BY <1>2 DEF CallsNext
  <1> DEFINE bytes == call[t].arg.bytes
             i == call[t].i
  <1>4. i \in 0 .. Len(bytes) /\ CallOK(t) /\ bytes \in Seq(Chars)
    BY <1>2, WriterCall
  <1>5. heap[call[t].wbuff] = bytes
    BY <1>4 DEF CallOK, InWrite, Writing, At
  <1>6. i = Len(bytes)
    BY <1>1, <1>4, <1>5 DEF WriteEnd, HasByte
  <1> QED
    BY <1>2, <1>3, <1>6 DEF History

\* aesd_write that runs to its end has put every byte it was given into the
\* device, and nothing else has.
THEOREM DriverWriteStoresAll == CallsSpec => WriteStoresAll
  <1>1. Inv /\ Inv' /\ History /\ [CallsNext]_callsVars =>
          [\A t \in Tasks :
             LET bytes == call[t].arg.bytes
             IN  At(t, "w_byte") /\ At(t, "done")' =>
                   before' = PutBytes(before, bytes)[Len(bytes)]]_callsVars
    BY StoresAll
  <1> QED
    BY <1>1, CallsInvHolds, PTL DEF CallsSpec, WriteStoresAll

\* The bytes of the device are those of the commands.
LEMMA ContentsIsContent ==
  ASSUME Inv, loaded, ~Adding
  PROVE  Contents(Dev.buf) = Content
  <1> DEFINE b == Completed
             d == TextsIn(heap, b)
  <1>1. Dev.buf = d /\ b = circular_buf
    BY DevIs DEF DevIn, Completed, Adding
  <1>2. /\ b \in Buffers(Addr) /\ RingShape(b)
        /\ \A k \in 1 .. Count(b) : /\ OldestFirst(b)[k].buffptr \in Addr
                                    /\ LineIn(heap, OldestFirst(b)[k])
                                         = heap[OldestFirst(b)[k].buffptr]
    BY WindowLines
  <1>3. heap \in [Addr -> Seq(Chars)]
    BY DEF Inv, TypeOK
  <1> HIDE DEF b, d
  <1>4. /\ Count(d) = Count(b) /\ d.out_offs = b.out_offs
        /\ Count(b) \in 0 .. MaxOps
        /\ \A s \in Slots : d.entry[s].buffptr = TextIn(heap, b.entry[s].buffptr)
    <2>1. Count(b) \in 0 .. MaxOps
      BY <1>2, WindowElements
    <2>2. Count(d) = Count(b)
      BY <1>2, <1>3, TextsShape DEF d
    <2>3. d.out_offs = b.out_offs
      BY <1>2, <1>3, TextsFields DEF d
    <2>4. ASSUME NEW s \in Slots
          PROVE  d.entry[s].buffptr = TextIn(heap, b.entry[s].buffptr)
      <3>1. d.entry[s] = [buffptr |-> TextIn(heap, b.entry[s].buffptr),
                          size |-> b.entry[s].size]
        BY <1>2, <1>3, TextsFields DEF d
      <3> QED
        BY <3>1
    <2> QED
      BY <2>1, <2>2, <2>3, <2>4
  <1>5. ASSUME NEW k \in 1 .. Count(b)
        PROVE  OldestFirst(d)[k].buffptr = Line(OldestFirst(b)[k])
    <2>1. /\ OldestFirst(d)[k] = Visited(d, k - 1)
          /\ OldestFirst(b)[k] = Visited(b, k - 1)
      BY <1>4 DEF OldestFirst
    <2> DEFINE s == (b.out_offs + (k - 1)) % MaxOps
    <2>2. s \in Slots
      BY <1>2, <1>4, MaxOpsAssumption DEF Slots, Buffers
    <2>3. /\ OldestFirst(d)[k].buffptr = TextIn(heap, b.entry[s].buffptr)
          /\ OldestFirst(b)[k] = b.entry[s]
      BY <1>4, <2>1, <2>2 DEF Visited
    <2> HIDE DEF s
    <2>4. b.entry[s].buffptr # NULL
      BY <1>2, <2>3, DriverAssumption
    <2> QED
      BY <1>2, <2>3, <2>4 DEF TextIn, LineIn, Line
  <1>6. [k \in 1 .. Count(d) |-> OldestFirst(d)[k].buffptr] = Lines(b)
    BY <1>4, <1>5 DEF Lines
  <1> QED
    BY <1>1, <1>6 DEF Contents, Content

LEMMA ReadsContents ==
  ASSUME Inv, History, Next, NEW t \in Tasks, At(t, "r_copy"), At(t, "done")'
  PROVE  call'[t].data = ReadAt(before.buf, call[t].pos, call[t].arg.count)
  <1>1. ReadCopy(t)
    BY DataFromRead
  <1> DEFINE from == call[t].pos
             count == call[t].arg.count
             bytes == Copied(from, count)
  <1>2. call[t].pc = "r_copy" /\ from \in Nat /\ count \in Nat /\ call'[t].data = bytes
    BY <1>1, ReadCopyTakes
  <1>3. mtx = t /\ ~WriterIn /\ ~Adding /\ loaded
    <2>1. mtx = t /\ CallOK(t)
      BY <1>2 DEF Inv, LockMatchesSections, Critical, CallsOK
    <2> QED
      BY <1>2, <2>1 DEF WriterIn, Writing, Adding, At, CallOK, Inv, StoreOK, DeviceOK
  <1>4. Contents(before.buf) = Content
    BY <1>3, ContentsIsContent DEF History
  <1> HIDE DEF from, count
  <1>5. /\ Content \in Seq(Chars) /\ bytes \in Seq(Chars)
        /\ from + Len(bytes) = ReadEnd(from, count)
        /\ from < Len(Content) => bytes = SubSeq(Content, from + 1, ReadEnd(from, count))
    BY <1>2, CopiedIsSlice
  <1>6. Len(Content) \in Nat
    BY <1>5
  <1> HIDE DEF bytes
  <1>7. CASE from < Len(Content)
    <2>1. ReadEnd(from, count) = Min({from + count, Len(Content)})
      BY <1>2, <1>5, <1>7, ReadEndIsMin
    <2> QED
      BY <1>2, <1>4, <1>5, <1>7, <2>1 DEF ReadAt, from, count
  <1>8. CASE ~(from < Len(Content))
    <2> DEFINE x == from + count
               y == Len(Content)
    <2>1. x \in Int /\ y \in Int /\ y <= x /\ y < from + 1
      BY <1>2, <1>6, <1>8
    <2> HIDE DEF x, y
    <2>2. Min({x, y}) = y
      <3>1. Min({x, y}) = IF x <= y THEN x ELSE y
        BY <2>1, LesserOfTwo
      <3> QED
        BY <2>1, <3>1
    <2>3. SubSeq(Content, from + 1, y) = <<>>
      BY <1>2, <1>5, <2>1 DEF y
    <2>4. bytes = <<>>
      <3>1. Len(bytes) = 0
        BY <1>2, <1>5, <1>6, <1>8 DEF ReadEnd
      <3> QED
        BY <1>5, <3>1
    <2> QED
      BY <1>2, <1>4, <2>2, <2>3, <2>4 DEF ReadAt, from, count, x, y
  <1> QED
    BY <1>7, <1>8

\* What aesd_read copies out is what the device held between two writes, from
\* the position on: never a line that a write is only half through with.
THEOREM DriverReadsWhole == CallsSpec => ReadsWhole
  <1>1. Inv /\ History /\ [CallsNext]_callsVars =>
          [\A t \in Tasks :
             At(t, "r_copy") /\ At(t, "done")' =>
               call'[t].data
                 = ReadAt(before.buf, call[t].pos, call[t].arg.count)]_callsVars
    BY ReadsContents DEF CallsNext
  <1> QED
    BY <1>1, CallsInvHolds, PTL DEF CallsSpec, ReadsWhole

(***************************************************************************)
(* AESDCHAR_IOCSEEKTO when no write comes between its steps.               *)
(***************************************************************************)

\* What an ioctl that no write has met has found out, at each of its steps.
FoundAll(c, b) ==
  /\ c.pc = "i_count" => c.acc = c.i /\ c.acc <= Count(b)
  /\ c.pc = "i_check" => c.acc = CommandCount(b)
  /\ c.pc = "i_seek" => /\ SeekOK(b, c.arg)
                        /\ c.i <= c.arg.write_cmd
                        /\ c.acc = SizeUpTo(b)[c.i]
  /\ c.pc = "i_store" => /\ SeekOK(b, c.arg)
                         /\ c.acc = SizeUpTo(b)[c.arg.write_cmd]

AloneOK ==
  /\ alone \subseteq Tasks
  /\ WriterIn => alone = {}
  /\ \A t \in alone : FoundAll(call[t], circular_buf)

\* A buffer without an add_entry under way, as the walks find it.
LEMMA WalkedBuffer ==
  ASSUME Inv, loaded, ~WriterIn
  PROVE  /\ circular_buf \in Buffers(Addr) /\ RingShape(circular_buf)
         /\ Completed = circular_buf /\ ~Adding
         /\ Count(circular_buf) \in 0 .. MaxOps
         /\ CommandCount(circular_buf) = Count(circular_buf)
         /\ \A s \in Slots :
              circular_buf.entry[s].buffptr # NULL <=> s < Count(circular_buf)
  <1>1. ~Adding
    BY DEF WriterIn, Adding, At, Writing
  <1>2. Completed = circular_buf
    BY <1>1 DEF Completed, Adding
  <1>3. circular_buf \in Buffers(Addr) /\ RingShape(circular_buf)
    BY <1>2 DEF Inv, TypeOK, StoreOK, RingConsistent
  <1>4. Count(circular_buf) \in 0 .. MaxOps
    BY <1>3, WindowElements
  <1>5. CommandCount(circular_buf) = Count(circular_buf)
    BY <1>3, CountsCommands
  <1>6. ASSUME NEW s \in Slots
        PROVE  circular_buf.entry[s].buffptr # NULL <=> s < Count(circular_buf)
    <2>1. s < MaxOps
      BY MaxOpsAssumption DEF Slots
    <2> QED
      BY <1>3, <2>1 DEF RingShape, Count
  <1> QED
    BY <1>1, <1>2, <1>3, <1>4, <1>5, <1>6

LEMMA CountFindsAll ==
  ASSUME Inv, ~WriterIn, NEW t \in Tasks, IoctlCount(t),
         FoundAll(call[t], circular_buf)
  PROVE  FoundAll(call'[t], circular_buf)
  <1> DEFINE c == call[t]
             b == circular_buf
             n == Count(b)
             d == [c EXCEPT !.i = @ + 1, !.acc = @ + 1]
             e == [c EXCEPT !.pc = "i_check"]
  <1>1. c.pc = "i_count"
    BY DEF IoctlCount, At
  <1>2. c \in Calls /\ c.i \in Nat /\ c.acc \in Nat /\ loaded
    BY <1>1, SeekCall DEF Seeking
  <1>3. /\ n \in 0 .. MaxOps /\ CommandCount(b) = n
        /\ \A s \in Slots : b.entry[s].buffptr # NULL <=> s < n
    BY <1>2, WalkedBuffer
  <1>4. c.acc = c.i /\ c.acc <= n
    BY <1>1 DEF FoundAll
  <1>5. call'[t] = IF /\ c.i # MaxOps /\ c.i < MaxOps
                      /\ b.entry[c.i].buffptr # NULL THEN d ELSE e
    BY DEF IoctlCount, Walk, Continue, Inv, TypeOK
  <1>6. /\ d.pc = "i_count" /\ d.i = c.i + 1 /\ d.acc = c.acc + 1
        /\ e.pc = "i_check" /\ e.acc = c.acc
    BY <1>1, <1>2 DEF Calls
  <1>7. c.i < MaxOps => c.i \in Slots
    BY <1>2, MaxOpsAssumption DEF Slots
  <1> HIDE DEF c, b, n, d, e
  <1>8. CASE c.i < n
    <2>1. c.i < MaxOps /\ c.i # MaxOps
      BY <1>2, <1>3, <1>8, MaxOpsAssumption
    <2>2. call'[t] = d
      BY <1>3, <1>5, <1>7, <1>8, <2>1
    <2>3. d.acc = d.i /\ d.acc <= n
      BY <1>2, <1>3, <1>4, <1>6, <1>8
    <2> QED
      BY <1>6, <2>2, <2>3 DEF FoundAll, n, b
  <1>9. CASE ~(c.i < n)
    <2>1. call'[t] = e
      BY <1>3, <1>5, <1>7, <1>9
    <2>2. e.acc = CommandCount(b)
      BY <1>2, <1>3, <1>4, <1>6, <1>9
    <2> QED
      BY <1>6, <2>1, <2>2 DEF FoundAll, b
  <1> QED
    BY <1>8, <1>9

\* The check accepts what the device accepts.
LEMMA CheckFindsAll ==
  ASSUME Inv, ~WriterIn, NEW t \in Tasks, IoctlCheck(t),
         FoundAll(call[t], circular_buf)
  PROVE  /\ FoundAll(call'[t], circular_buf)
         /\ At(t, "idle")' => ~SeekOK(circular_buf, call[t].arg)
  <1> DEFINE c == call[t]
             b == circular_buf
             k == c.arg.write_cmd
             d == [c EXCEPT !.pc = "i_seek", !.i = 0, !.acc = 0]
  <1>1. c.pc = "i_check"
    BY DEF IoctlCheck, At
  <1>2. c \in Calls /\ k \in Nat /\ loaded
    BY <1>1, SeekCall DEF Seeking
  <1>3. /\ Count(b) \in 0 .. MaxOps /\ CommandCount(b) = Count(b)
        /\ b \in Buffers(Addr) /\ RingShape(b)
    BY <1>2, WalkedBuffer
  <1>4. c.acc = CommandCount(b)
    BY <1>1 DEF FoundAll
  <1>5. call'[t] = IF k < MaxOps /\ k < c.acc /\ c.arg.write_cmd_offset <= b.entry[k].size
                   THEN d ELSE NoCall
    BY DEF IoctlCheck, Continue, SizeAt, Inv, TypeOK
  <1>6. /\ d.pc = "i_seek" /\ d.i = 0 /\ d.acc = 0 /\ d.arg = c.arg
        /\ NoCall.pc = "idle"
    BY <1>2 DEF Calls, NoCall, NewCall
  <1>7. SizeUpTo(b)[0] = 0
    BY <1>3, SizeSums
  <1>8. SeekOK(b, c.arg) <=>
          k < MaxOps /\ k < c.acc /\ c.arg.write_cmd_offset <= b.entry[k].size
    <2>1. k < c.acc => k < MaxOps
      BY <1>2, <1>3, <1>4, MaxOpsAssumption
    <2> QED
      BY <1>4, <2>1 DEF SeekOK
  <1> HIDE DEF c, b, d
  <1>9. CASE SeekOK(b, c.arg)
    <2>1. call'[t] = d
      BY <1>5, <1>8, <1>9
    <2>2. SeekOK(b, d.arg) /\ d.i <= d.arg.write_cmd /\ d.acc = SizeUpTo(b)[d.i]
      BY <1>2, <1>6, <1>7, <1>9
    <2> QED
      BY <1>6, <2>1, <2>2 DEF FoundAll, At, b
  <1>10. CASE ~SeekOK(b, c.arg)
    <2>1. call'[t] = NoCall
      BY <1>5, <1>8, <1>10
    <2> QED
      BY <1>6, <1>10, <2>1 DEF FoundAll, b, c
  <1> QED
    BY <1>9, <1>10

LEMMA SeekFindsAll ==
  ASSUME Inv, ~WriterIn, NEW t \in Tasks, IoctlSeek(t),
         FoundAll(call[t], circular_buf)
  PROVE  FoundAll(call'[t], circular_buf)
  <1> DEFINE c == call[t]
             b == circular_buf
             i == c.i
             k == c.arg.write_cmd
             n == Count(b)
             A == SizeUpTo(b)
             d == [c EXCEPT !.i = @ + 1, !.acc = @ + b.entry[i].size]
             e == [c EXCEPT !.pc = "i_store"]
  <1>1. c.pc = "i_seek"
    BY DEF IoctlSeek, At
  <1>2. c \in Calls /\ i \in Nat /\ k \in Nat /\ loaded
    BY <1>1, SeekCall DEF Seeking
  <1>3. /\ n \in 0 .. MaxOps /\ CommandCount(b) = n
        /\ b \in Buffers(Addr) /\ RingShape(b)
        /\ \A s \in Slots : b.entry[s].buffptr # NULL <=> s < n
    BY <1>2, WalkedBuffer
  <1>4. SeekOK(b, c.arg) /\ i <= k /\ c.acc = A[i]
    BY <1>1 DEF FoundAll
  <1>5. k < n
    BY <1>3, <1>4 DEF SeekOK
  <1>6. call'[t] = IF i # k /\ i < MaxOps /\ b.entry[i].buffptr # NULL THEN d ELSE e
    BY DEF IoctlSeek, Walk, SizeAt, Continue, Inv, TypeOK
  <1>7. /\ d.pc = "i_seek" /\ d.i = i + 1 /\ d.acc = c.acc + b.entry[i].size
        /\ d.arg = c.arg /\ e.pc = "i_store" /\ e.acc = c.acc /\ e.arg = c.arg
    BY <1>1, <1>2 DEF Calls
  <1>8. \A j \in 1 .. MaxOps : A[j] = A[j - 1] + b.entry[j - 1].size
    BY <1>3, SizeSums
  <1> HIDE DEF c, b, i, k, n, A, d, e
  <1>9. CASE i # k
    <2>1. /\ i < MaxOps /\ i < n /\ i \in Slots /\ i + 1 <= k
          /\ i + 1 \in 1 .. MaxOps /\ (i + 1) - 1 = i
      BY <1>2, <1>3, <1>4, <1>5, <1>9, MaxOpsAssumption DEF Slots
    <2>2. call'[t] = d
      BY <1>3, <1>6, <1>9, <2>1
    <2>3. A[i + 1] = A[i] + b.entry[i].size
      BY <1>8, <2>1
    <2>4. SeekOK(b, d.arg) /\ d.i <= d.arg.write_cmd /\ d.acc = A[d.i]
      BY <1>4, <1>7, <2>1, <2>3 DEF k
    <2> QED
      BY <1>7, <2>2, <2>4 DEF FoundAll, A, b
  <1>10. CASE i = k
    <2>1. call'[t] = e
      BY <1>6, <1>10
    <2>2. SeekOK(b, e.arg) /\ e.acc = A[e.arg.write_cmd]
      BY <1>4, <1>7, <1>10 DEF k
    <2> QED
      BY <1>7, <2>1, <2>2 DEF FoundAll, A, b
  <1> QED
    BY <1>9, <1>10

\* Only the walks of an ioctl leave a task inside an ioctl.
LEMMA SeekingSteps ==
  ASSUME Inv, NEW t \in Tasks, Step(t), call'[t].pc \in Seeking
  PROVE  IoctlCount(t) \/ IoctlCheck(t) \/ IoctlSeek(t)
  <1>1. call[t] \in Calls /\ TypeOK
    BY DEF Inv, TypeOK
  <1>2. ASSUME NEW c, Continue(t, c)
        PROVE  c.pc \in Seeking
    BY <1>1, <1>2 DEF Continue, TypeOK
  <1>3. ~Return(t)
    BY <1>2 DEF Return, NoCall, NewCall, Seeking
  <1>4. \A pc : pc \notin Seeking =>
          \A c : c = [call[t] EXCEPT !.pc = pc] => ~Continue(t, c)
    BY <1>1, <1>2 DEF Calls
  <1>5. ~WriteChar(t)
    <2>1. WriteChar(t) => [call[t] EXCEPT !.i = @ + 1].pc = "w_byte"
      BY <1>1 DEF Calls, WriteChar, HasByte, At
    <2> QED
      BY <1>2, <2>1 DEF WriteChar, Seeking
  <1>6. ~WriteNewline(t)
    <2>1. [call[t] EXCEPT !.pc = "w_entry", !.i = @ + 1,
                          !.old_buff = OldBuff(circular_buf)].pc = "w_entry"
      BY <1>1 DEF Calls
    <2> QED
      BY <1>2, <2>1 DEF WriteNewline, Seeking
  <1>7. ~WriteEntry(t)
    <2>1. [call[t] EXCEPT !.pc = "w_byte", !.old_buff = NULL].pc = "w_byte"
      BY <1>1 DEF Calls
    <2> QED
      BY <1>2, <2>1 DEF WriteEntry, Seeking
  <1>8. ~WriteEnd(t)
    <2>1. [call[t] EXCEPT !.pc = "done", !.wbuff = NULL].pc = "done"
      BY <1>1 DEF Calls
    <2> QED
      BY <1>2, <2>1 DEF WriteEnd, Seeking
  <1>9. ~ReadCopy(t)
    <2>1. \A bytes : [call[t] EXCEPT !.pc = "done", !.data = bytes,
                                     !.pos = @ + Len(bytes)].pc = "done"
      BY <1>1 DEF Calls
    <2> QED
      BY <1>2, <2>1 DEF ReadCopy, Seeking
  <1>10. ~LseekSize(t)
    <2>1. ASSUME LseekSize(t)
          PROVE  FALSE
      <3> DEFINE c == [call[t] EXCEPT !.i = @ + 1, !.acc = @ + SizeAt(call[t].i)]
                 d == [call[t] EXCEPT !.pc = "l_check"]
      <3>1. (Continue(t, c) \/ Continue(t, d)) /\ call[t].pc = "l_size"
        BY <2>1 DEF LseekSize, Walk, At
      <3>2. c.pc = "l_size" /\ d.pc = "l_check"
        BY <1>1, <3>1 DEF Calls
      <3> HIDE DEF c, d
      <3> QED
        BY <1>2, <3>1, <3>2 DEF Seeking
    <2> QED
      BY <2>1
  <1>11. ~LseekCheck(t)
    <2>1. \A np : [call[t] EXCEPT !.pc = "l_store", !.pos = np].pc = "l_store"
      BY <1>1 DEF Calls
    <2>2. ASSUME LseekCheck(t)
          PROVE  \/ \E np : Continue(t, [call[t] EXCEPT !.pc = "l_store", !.pos = np])
                 \/ Return(t)
      BY <2>2 DEF LseekCheck, Return
    <2> QED
      BY <1>2, <1>3, <2>1, <2>2 DEF Seeking
  <1>12. ~WriteNoMem(t) /\ ~ReadFault(t) /\ ~CallDone(t) /\ ~LseekStore(t) /\ ~IoctlStore(t)
    BY <1>3 DEF WriteNoMem, ReadFault, CallDone, LseekStore, IoctlStore, StorePosition
  <1> QED
    BY <1>5, <1>6, <1>7, <1>8, <1>9, <1>10, <1>11, <1>12 DEF Step

\* While nobody writes the array stays, unless there is nobody inside.
LEMMA ArrayStays ==
  ASSUME Inv, Next, ~WriterIn
  PROVE  circular_buf' = circular_buf \/ \A u \in Tasks : call'[u].pc = "idle"
  <1>1. CASE aesd_init_module \/ aesd_cleanup_module
    <2>1. opened = {} /\ call' = call
      BY <1>1 DEF aesd_init_module, aesd_cleanup_module, Inv, StoreOK, DeviceOK
    <2> QED
      BY <2>1, NobodyInside
  <1>2. ASSUME NEW t \in Tasks, Step(t), ~(circular_buf' = circular_buf)
        PROVE  FALSE
    <2>1. WriteNewline(t) \/ WriteEntry(t)
      BY <1>2 DEF Step, WriteChar, WriteNoMem, WriteEnd, ReadCopy, ReadFault, CallDone,
                  LseekSize, LseekCheck, LseekStore, IoctlCount, IoctlCheck, IoctlSeek,
                  IoctlStore, StorePosition, Walk, devVars
    <2>2. call[t].pc \in Writing
      BY <2>1 DEF WriteNewline, WriteEntry, HasByte, At, Writing
    <2>3. mtx = t /\ t # NoTask
      BY <2>2, WriterIs, DriverAssumption DEF Inv
    <2> QED
      BY <2>2, <2>3 DEF WriterIn
  <1>3. ASSUME NEW t \in Tasks, NEW f \in Files, Begin(t, f)
        PROVE  circular_buf' = circular_buf
    BY <1>3 DEF Begin, WriteBegin, ReadBegin, LseekBegin, IoctlBegin, Enter, devVars
  <1> QED
    BY <1>1, <1>2, <1>3
       DEF Next, aesd_open, aesd_release, Lock, Interrupted, LockOops, devVars

LEMMA BeginFindsAll ==
  ASSUME Inv, ~WriterIn, NEW t \in Tasks, NEW f \in Files, Begin(t, f),
         call'[t].pc \in Seeking
  PROVE  FoundAll(call'[t], circular_buf)
  <1>1. ASSUME NEW pc, NEW arg, NEW wbuff, NEW pos, Enter(t, NewCall(pc, f, arg, wbuff, pos))
        PROVE  /\ call'[t] = NewCall(pc, f, arg, wbuff, pos)
               /\ call'[t].pc = pc /\ call'[t].i = 0 /\ call'[t].acc = 0 /\ loaded
    <2> DEFINE c == NewCall(pc, f, arg, wbuff, pos)
    <2>1. c.pc = pc /\ c.i = 0 /\ c.acc = 0 /\ c.file = f
      BY DEF NewCall
    <2> HIDE DEF c
    <2>2. call'[t] = c /\ c.file \in opened
      BY <1>1 DEF Enter, Continue, Inv, TypeOK, c
    <2> QED
      BY <2>1, <2>2 DEF c, Inv, StoreOK, DeviceOK
  <1>2. call'[t].pc = "i_count" /\ call'[t].i = 0 /\ call'[t].acc = 0 /\ loaded
    BY <1>1 DEF Begin, WriteBegin, ReadBegin, LseekBegin, IoctlBegin, Seeking
  <1>3. Count(circular_buf) \in 0 .. MaxOps
    BY <1>2, WalkedBuffer
  <1> QED
    BY <1>2, <1>3, MaxOpsAssumption DEF FoundAll

LEMMA NotFinding ==
  ASSUME NEW c, NEW b, c.pc \notin Seeking
  PROVE  FoundAll(c, b)
  BY DEF FoundAll, Seeking

LEMMA InitAlone == CallsInit => AloneOK
  BY DEF CallsInit, Init, AloneOK, FoundAll, NoCall, NewCall, WriterIn

LEMMA NextAlone == Inv /\ Inv' /\ AloneOK /\ [CallsNext]_callsVars => AloneOK'
  <1> SUFFICES ASSUME Inv, Inv', AloneOK, [CallsNext]_callsVars
               PROVE  AloneOK'
    OBVIOUS
  <1>1. CASE UNCHANGED callsVars
    <2>1. WriterIn' <=> WriterIn
      BY <1>1, SameStoreAside DEF callsVars, vars, lockVars, Aside, WriterStays
    <2> QED
      BY <1>1, <2>1 DEF callsVars, vars, devVars, AloneOK
  <1>2. CASE CallsNext
    <2>1. /\ alone' = IF WriterIn' THEN {} ELSE alone \cup {t \in Tasks : At(t, "idle")'}
          /\ Next
      BY <1>2 DEF CallsNext
    <2>2. ASSUME ~WriterIn', NEW u \in alone', call'[u].pc \in Seeking
          PROVE  FoundAll(call'[u], circular_buf')
      <3>1. u \in alone /\ u \in Tasks /\ ~WriterIn /\ FoundAll(call[u], circular_buf)
        BY <2>1, <2>2 DEF At, Seeking, AloneOK
      <3>2. circular_buf' = circular_buf
        BY <2>1, <2>2, <3>1, ArrayStays DEF Seeking
      <3>3. CASE call'[u] = call[u]
        BY <3>1, <3>2, <3>3
      <3>4. CASE call'[u] # call[u]
        <4>1. (\E f \in Files : Begin(u, f)) \/ Lock(u) \/ Interrupted(u) \/ Step(u)
          BY <2>1, <3>1, <3>4, MoverActs DEF Inv
        <4>2. ~Lock(u) /\ ~Interrupted(u)
          <5>1. call[u] \in Calls /\ TypeOK
            BY <3>1 DEF Inv, TypeOK
          <5>2. ASSUME Lock(u)
                PROVE  FALSE
            <6> DEFINE pc == IF call[u].pc = "w_lock" THEN "w_byte" ELSE "r_copy"
                       c == [call[u] EXCEPT !.pc = pc]
            <6>1. call'[u] = c
              BY <3>1, <5>1, <5>2 DEF Lock, Continue, TypeOK
            <6>2. c.pc = pc
              BY <5>1 DEF Calls
            <6> QED
              BY <2>2, <6>1, <6>2 DEF Seeking
          <5>3. ~Interrupted(u)
            BY <2>2, <3>1, <5>1 DEF Interrupted, Return, Continue, TypeOK, NoCall,
                                    NewCall, Seeking
          <5> QED
            BY <5>2, <5>3
        <4>3. CASE \E f \in Files : Begin(u, f)
          BY <2>2, <3>1, <3>2, <4>3, BeginFindsAll
        <4>4. CASE Step(u)
          <5>1. IoctlCount(u) \/ IoctlCheck(u) \/ IoctlSeek(u)
            BY <2>2, <3>1, <4>4, SeekingSteps
          <5> QED
            BY <3>1, <3>2, <5>1, CountFindsAll, CheckFindsAll, SeekFindsAll
        <4> QED
          BY <4>1, <4>2, <4>3, <4>4
      <3> QED
        BY <3>3, <3>4
    <2>3. alone' \subseteq Tasks
      BY <2>1 DEF AloneOK
    <2>4. WriterIn' => alone' = {}
      BY <2>1
    <2>5. ASSUME NEW u \in alone'
          PROVE  FoundAll(call'[u], circular_buf')
      BY <2>2, <2>4, <2>5, NotFinding
    <2> QED
      BY <2>3, <2>4, <2>5 DEF AloneOK
  <1> QED
    BY <1>1, <1>2

\* The device and the array agree on what a seek finds.
LEMMA SameSeek ==
  ASSUME Inv, History, loaded, ~WriterIn, NEW x \in SeekTos
  PROVE  /\ SeekOK(before.buf, x) <=> SeekOK(circular_buf, x)
         /\ SeekOK(circular_buf, x) =>
              SeekPosition(before.buf, x)
                = SizeUpTo(circular_buf)[x.write_cmd] + x.write_cmd_offset
  <1> DEFINE b == circular_buf
             d == TextsIn(heap, b)
             k == x.write_cmd
  <1>1. before.buf = d
    <2>1. before = Dev /\ Completed = b
      BY WalkedBuffer DEF History
    <2> QED
      BY <2>1, DevIs DEF DevIn
  <1>2. /\ b \in Buffers(Addr) /\ RingShape(b) /\ Count(b) \in 0 .. MaxOps
        /\ CommandCount(b) = Count(b) /\ heap \in [Addr -> Seq(Chars)]
    BY WalkedBuffer DEF Inv, TypeOK
  <1>3. k \in Nat /\ x.write_cmd_offset \in Nat
    BY DriverAssumption
  <1> HIDE DEF b, d, k
  <1>4. /\ d \in Buffers(Seq(Chars))
        /\ \A s \in Slots : d.entry[s] = [buffptr |-> TextIn(heap, b.entry[s].buffptr),
                                         size |-> b.entry[s].size]
    BY <1>2, TextsFields DEF d
  <1>5. RingShape(d) /\ Count(d) = Count(b)
    BY <1>2, TextsShape DEF d
  <1>6. CommandCount(d) = Count(b)
    BY <1>4, <1>5, CountsCommands
  <1>7. \A s \in Slots : d.entry[s].size = b.entry[s].size
    <2> SUFFICES ASSUME NEW s \in Slots PROVE d.entry[s].size = b.entry[s].size
      OBVIOUS
    <2>1. d.entry[s] = [buffptr |-> TextIn(heap, b.entry[s].buffptr),
                        size |-> b.entry[s].size]
      BY <1>4
    <2> QED
      BY <2>1
  <1>8. SizeUpTo(d) = SizeUpTo(b)
    <2> DEFINE A == SizeUpTo(b)
               B == SizeUpTo(d)
               T == {j \in 0 .. MaxOps : B[j] = A[j]}
    <2>1. /\ A \in [0 .. MaxOps -> Nat] /\ A[0] = 0
          /\ \A j \in 1 .. MaxOps : A[j] = A[j - 1] + b.entry[j - 1].size
      BY <1>2, SizeSums
    <2>2. /\ B \in [0 .. MaxOps -> Nat] /\ B[0] = 0
          /\ \A j \in 1 .. MaxOps : B[j] = B[j - 1] + d.entry[j - 1].size
      BY <1>4, <1>5, SizeSums
    <2> HIDE DEF A, B
    <2>3. 0 \in T
      BY <2>1, <2>2, MaxOpsAssumption
    <2>4. ASSUME NEW j \in 1 .. MaxOps, j - 1 \in T
          PROVE  j \in T
      <3>1. j - 1 \in Slots
        BY MaxOpsAssumption DEF Slots
      <3> QED
        BY <1>7, <2>1, <2>2, <2>4, <3>1, MaxOpsAssumption
    <2> HIDE DEF T
    <2>5. 0 .. MaxOps \subseteq T
      BY <2>3, <2>4, IntervalInduction, MaxOpsAssumption
    <2>6. \A j \in 0 .. MaxOps : B[j] = A[j]
      BY <2>5 DEF T
    <2>7. /\ A = [j \in 0 .. MaxOps |-> A[j]]
          /\ B = [j \in 0 .. MaxOps |-> B[j]]
      BY <2>1, <2>2
    <2>8. B = A
      BY <2>6, <2>7
    <2> QED
      BY <2>8 DEF A, B
  <1>9. k < Count(b) => k \in Slots /\ ~(k >= MaxOps)
    BY <1>2, <1>3, MaxOpsAssumption DEF Slots
  <1>10. SeekOK(d, x) <=> SeekOK(b, x)
    BY <1>2, <1>6, <1>7, <1>9 DEF SeekOK, k
  <1>11. SeekOK(b, x) => SeekPosition(d, x) = SizeUpTo(b)[k] + x.write_cmd_offset
    <2>1. SeekOK(b, x) => ~(k >= MaxOps)
      BY <1>2, <1>9 DEF SeekOK, k
    <2> QED
      BY <1>8, <2>1 DEF SeekPosition, SeekOffset, k
  <1> QED
    BY <1>1, <1>10, <1>11 DEF b, k

\* Only IoctlCheck refuses a seek.
LEMMA RefusedByCheck ==
  ASSUME Inv, Next, NEW t \in Tasks, At(t, "i_check"), At(t, "idle")'
  PROVE  IoctlCheck(t)
  <1>1. call[t].pc = "i_check" /\ call'[t].pc = "idle"
    BY DEF At
  <1>2. (\E f \in Files : Begin(t, f)) \/ Lock(t) \/ Interrupted(t) \/ Step(t)
    BY <1>1, MoverActs DEF Inv
  <1>3. ~(\E f \in Files : Begin(t, f))
    BY <1>1 DEF Begin, WriteBegin, ReadBegin, LseekBegin, IoctlBegin, Enter, At
  <1>4. ~Lock(t) /\ ~Interrupted(t)
    BY <1>1 DEF Lock, Interrupted, Waiting
  <1> QED
    BY <1>1, <1>2, <1>3, <1>4
       DEF Step, WriteChar, WriteNewline, WriteEntry, WriteNoMem, WriteEnd, HasByte,
           ReadCopy, ReadFault, CallDone, LseekSize, LseekCheck,
           LseekStore, IoctlCount, IoctlSeek, IoctlStore, At

LEMMA SeeksDevice ==
  ASSUME Inv, History, AloneOK, Next, NEW t \in alone
  PROVE  LET x == call[t].arg
         IN  /\ At(t, "i_store") /\ At(t, "idle")' =>
                  /\ SeekOK(before.buf, x)
                  /\ f_pos'[call[t].file] = SeekPosition(before.buf, x)
             /\ At(t, "i_check") /\ At(t, "idle")' => ~SeekOK(before.buf, x)
  <1> DEFINE x == call[t].arg
  <1>1. t \in Tasks /\ ~WriterIn /\ FoundAll(call[t], circular_buf)
    BY DEF AloneOK
  <1>2. call[t].pc \in Seeking => x \in SeekTos /\ loaded
    BY <1>1, SeekCall
  <1>3. ASSUME At(t, "i_store"), At(t, "idle")'
        PROVE  /\ SeekOK(before.buf, x)
               /\ f_pos'[call[t].file] = SeekPosition(before.buf, x)
    <2>1. call[t].pc = "i_store" /\ x \in SeekTos /\ loaded
      BY <1>2, <1>3 DEF At, Seeking
    <2>2. IoctlStore(t)
      BY <1>1, <1>3, <2>1, EndsInStore DEF Inv, LseekStore, At
    <2>3. SeekOK(circular_buf, x) /\ call[t].acc = SizeUpTo(circular_buf)[x.write_cmd]
      BY <1>1, <2>1 DEF FoundAll
    <2>4. call[t].file \in Files /\ f_pos \in [Files -> Int]
      BY <1>1, <2>1 DEF Inv, TypeOK, CallsOK, CallOK
    <2>5. f_pos'[call[t].file] = call[t].acc + x.write_cmd_offset
      BY <2>2, <2>4 DEF IoctlStore, StorePosition
    <2> HIDE DEF x
    <2> QED
      BY <1>1, <2>1, <2>3, <2>5, SameSeek
  <1>4. ASSUME At(t, "i_check"), At(t, "idle")'
        PROVE  ~SeekOK(before.buf, x)
    <2>1. call[t].pc = "i_check" /\ x \in SeekTos /\ loaded
      BY <1>2, <1>4 DEF At, Seeking
    <2>2. IoctlCheck(t)
      BY <1>1, <1>4, RefusedByCheck
    <2>3. ~SeekOK(circular_buf, x)
      BY <1>1, <1>4, <2>2, CheckFindsAll
    <2> HIDE DEF x
    <2> QED
      BY <1>1, <2>1, <2>3, SameSeek
  <1> QED
    BY <1>3, <1>4

\* AESDCHAR_IOCSEEKTO, which takes no lock, is right about a device that no write
\* touches while it runs: it accepts what the device accepts, and the position
\* it stores is the one the device gives, though it sums it over many steps.
THEOREM DriverSeeksWhole == CallsSpec => SeeksWhole
  <1>1. CallsSpec => []AloneOK
    BY CallsInvHolds, InitAlone, NextAlone, PTL DEF CallsSpec
  <1>2. Inv /\ History /\ AloneOK /\ [CallsNext]_callsVars =>
          [\A t \in alone :
             LET x == call[t].arg
             IN  /\ At(t, "i_store") /\ At(t, "idle")' =>
                      /\ SeekOK(before.buf, x)
                      /\ f_pos'[call[t].file] = SeekPosition(before.buf, x)
                 /\ At(t, "i_check") /\ At(t, "idle")' =>
                      ~SeekOK(before.buf, x)]_callsVars
    BY SeeksDevice DEF CallsNext
  <1> QED
    BY <1>1, <1>2, CallsInvHolds, PTL DEF CallsSpec, SeeksWhole
===============================================================================
