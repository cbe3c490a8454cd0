--------------------------- MODULE ServerAnswerProofs ---------------------------
(***************************************************************************)
(* The data of the threaded server: the types of all its state, and, while *)
(* clients take turns, the answers.  A line that was stored is answered    *)
(* with all that the device holds and a seek command with all from its     *)
(* position on, and no client loses its connection, for any messages, any  *)
(* number of clients and any buffer size.                                  *)
(***************************************************************************)
EXTENDS ServerFdsProofs

-----------------------------------------------------------------------------
(***************************************************************************)
(* The inductive invariants.                                               *)
(***************************************************************************)
Text == Seq(Chars)

\* Every command that is stored is a line, and as long as its entry says.
LinesIn(b) ==
  \A s \in Slots :
    LET e == b.entry[s]
    IN  e.buffptr # NULL => e.size = Len(e.buffptr) /\ e.buffptr[e.size] = NL

DevOK(b, line) ==
  /\ b \in Buffers(Text) /\ RingShape(b) /\ LinesIn(b)
  /\ line \in Text

ThreadRecords ==
  [pc : ThreadPCs, buf : Text, tmpbuf : Text, ok : BOOLEAN, answer : Text]

ThreadsTyped == thr \in [Threads -> ThreadRecords]

\* process_message takes the branch of the seek command only for one.
SeekPCs == {"s_open", "s_test", "s_ioctl", "s_read", "s_send", "s_close"}

SeeksNamed ==
  \A t \in Threads : thr[t].pc \in SeekPCs => IsSeek(thr[t].buf)

DataOK ==
  /\ DevOK(circular_buf, g_buff)
  /\ wire \in [Clients -> Text]
  /\ fds \in [Fds -> Files]
  /\ ThreadsTyped
  /\ SeeksNamed

\* A line has been stored; none is dropped before there are MaxOps of them.
Stored == Count(circular_buf) > 0

DumpPCs == {"d_lock", "d_open", "d_test", "d_read", "d_send", "d_close"}

\* Where nothing has been read from the device yet.
AnswerPending == {"w_lock", "w_open", "w_test", "w_write", "w_unlock", "w_close",
                  "d_lock", "d_open", "d_test", "s_open", "s_test", "s_ioctl"}

\* What was read from the device, from the position `from` on, is what lies
\* before the position of log_fd.
ReadFrom(t, from) ==
  LET pos == fds[log_fd].pos
  IN  /\ from <= pos
      /\ pos = from \/ pos <= Len(Content)
      /\ thr[t].answer = SubSeq(Content, from + 1, pos)

Answering(t) ==
  LET r == thr[t]
  IN  /\ r.pc \in AnswerPending => r.answer = <<>>
      /\ r.pc \in {"w_unlock", "w_close"} /\ r.ok /\ Contains(r.buf, NL) => Stored
      /\ r.pc \in DumpPCs => Stored
      /\ r.pc = "d_test" /\ log_fd # -1 => fds[log_fd].pos = 0
      /\ r.pc \in {"d_read", "d_send"} => ReadFrom(t, 0)
      /\ r.pc \in {"s_read", "s_send"} =>
           ReadFrom(t, SeekToPosition(Head(r.buf)))

AnswerInv == Running /\ ~overlapped => \A t \in Threads : Answering(t)

USE ServerAssumption

-----------------------------------------------------------------------------
(***************************************************************************)
(* The device: what aesd_write does to it, and what it holds.              *)
(***************************************************************************)
Devs == {d \in [buf : Buffers(Text), line : Text] : DevOK(d.buf, d.line)}

LEMMA CharsOfMessages ==
  ASSUME NEW m \in Messages
  PROVE  m \in Text
  <1>1. m \in Seq(ToSet(m)) /\ ToSet(m) \subseteq Chars
    BY DEF Chars
  <1> QED
    BY <1>1 DEF Text

\* A slot in use makes the buffer not empty.
LEMMA UsedCounts ==
  ASSUME NEW P, NEW b \in Buffers(P), RingShape(b), NEW s \in Slots,
         b.entry[s].buffptr # NULL
  PROVE  Count(b) > 0
  <1>1. b.full \/ s < b.in_offs
    BY DEF RingShape
  <1>2. b.in_offs \in Nat /\ s \in Nat
    BY MaxOpsAssumption DEF Buffers, Slots
  <1> QED
    BY <1>1, <1>2, MaxOpsAssumption DEF Count

\* One byte of aesd_write: the newline adds the line to the buffer.
LEMMA PutByteKeeps ==
  ASSUME NEW d \in Devs, NEW c \in Chars
  PROVE  /\ PutByte(d, c) \in Devs
         /\ Count(d.buf) > 0 => Count(PutByte(d, c).buf) > 0
         /\ c = NL => Count(PutByte(d, c).buf) > 0
  <1> DEFINE b == d.buf
             line == Append(d.line, c)
             e == [buffptr |-> line, size |-> Len(line)]
             a == AddEntry(b, e)
  <1>1. /\ d = [buf |-> b, line |-> d.line] /\ b \in Buffers(Text) /\ RingShape(b)
        /\ LinesIn(b) /\ d.line \in Seq(Chars)
    BY DEF Devs, DevOK, Text
  <1>2. /\ line \in Seq(Chars) /\ Len(line) = Len(d.line) + 1 /\ Len(line) \in Nat
        /\ line[Len(line)] = c
    BY <1>1
  <1>3. line \in Text /\ line # NULL /\ Len(line) > 0
    BY <1>1, <1>2, SMTT(30) DEF Text
  <1>4. CASE c # NL
    <2>1. PutByte(d, c) = [d EXCEPT !.line = line]
      BY <1>4 DEF PutByte
    <2> HIDE DEF line, b
    <2>2. PutByte(d, c).buf = b /\ PutByte(d, c) = [buf |-> b, line |-> line]
      BY <1>1, <2>1
    <2>3. DevOK(b, line)
      BY <1>1, <1>3 DEF DevOK
    <2> QED
      BY <1>1, <1>3, <1>4, <2>2, <2>3 DEF Devs, b
  <1>5. CASE c = NL
    <2>1. PutByte(d, c) = [buf |-> a, line |-> <<>>]
      BY <1>5 DEF PutByte
    <2> HIDE DEF line
    <2>2. e \in Entries(Text) /\ e.buffptr = line /\ e.size = Len(line)
      BY <1>2, <1>3 DEF Entries
    <2> HIDE DEF e, b
    <2>3. /\ a \in Buffers(Text) /\ RingShape(a)
          /\ a.entry = [b.entry EXCEPT ![b.in_offs] = e]
      BY <1>1, <1>3, <2>2, AddEntryFields, AddEntryShape
    <2>4. b.in_offs \in Slots /\ b.entry \in [Slots -> Entries(Text)]
      BY <1>1 DEF Buffers
    <2> HIDE DEF a
    <2>5. Count(a) > 0
      <3>1. a.entry[b.in_offs].buffptr # NULL
        BY <1>3, <2>2, <2>3, <2>4
      <3> QED
        BY <2>3, <2>4, <3>1, UsedCounts
    <2>6. LinesIn(a)
      <3> SUFFICES ASSUME NEW s \in Slots, a.entry[s].buffptr # NULL
                   PROVE  /\ a.entry[s].size = Len(a.entry[s].buffptr)
                          /\ a.entry[s].buffptr[a.entry[s].size] = NL
        BY DEF LinesIn
      <3>1. CASE s = b.in_offs
        BY <1>2, <1>5, <2>2, <2>3, <2>4, <3>1
      <3>2. CASE s # b.in_offs
        <4>1. a.entry[s] = b.entry[s]
          BY <2>3, <2>4, <3>2
        <4> QED
          BY <1>1, <4>1 DEF LinesIn
      <3> QED
        BY <3>1, <3>2
    <2>7. <<>> \in Text
      BY DEF Text
    <2>8. DevOK(a, <<>>)
      BY <2>3, <2>6, <2>7 DEF DevOK
    <2> QED
      BY <2>1, <2>3, <2>5, <2>7, <2>8 DEF Devs
  <1> QED
    BY <1>4, <1>5

\* What aesd_write stores, all or the first n bytes, it stores line by line.
LEMMA PutBytesKeeps ==
  ASSUME DevOK(circular_buf, g_buff), NEW bytes \in Text, NEW n \in 0 .. Len(bytes),
         circular_buf' = PutBytes(Dev, bytes)[n].buf,
         g_buff' = PutBytes(Dev, bytes)[n].line
  PROVE  /\ DevOK(circular_buf', g_buff')
         /\ Stored => Stored'
         /\ n = Len(bytes) /\ Contains(bytes, NL) => Stored'
  <1> DEFINE N == Len(bytes)
             dev == PutBytes(Dev, bytes)
  <1>1. circular_buf' = dev[n].buf /\ g_buff' = dev[n].line
    OBVIOUS
  <1>2. N \in Nat /\ n \in 0 .. N /\ \A k \in 1 .. N : bytes[k] \in Chars
    BY DEF Text
  <1>3. Dev \in Devs /\ Dev.buf = circular_buf
    BY DEF Devs, DevOK, Dev
  <1>4. \A k \in 1 .. N : \A d \in Devs : PutByte(d, bytes[k]) \in Devs
    BY <1>2, PutByteKeeps
  <1>10. dev[0] = Dev /\ \A k \in 1 .. N : dev[k] = PutByte(dev[k - 1], bytes[k])
    BY <1>2, <1>3, <1>4, PutBytesSteps
  <1> HIDE DEF dev, N
  <1> DEFINE T == {k \in 0 .. N :
                     /\ dev[k] \in Devs
                     /\ Stored => Count(dev[k].buf) > 0
                     /\ (\E j \in 1 .. k : bytes[j] = NL) => Count(dev[k].buf) > 0}
  <1>11. 0 \in T
    <2>1. \A j \in 1 .. 0 : FALSE
      OBVIOUS
    <2>2. 0 \in 0 .. N
      BY <1>2
    <2> QED
      BY <1>3, <1>10, <2>1, <2>2 DEF Stored
  <1>12. ASSUME NEW k \in 1 .. N, k - 1 \in T
         PROVE  k \in T
    <2> DEFINE i == k - 1
               d == dev[i]
    <2>1. /\ d \in Devs
          /\ Stored => Count(d.buf) > 0
          /\ (\E j \in 1 .. i : bytes[j] = NL) => Count(d.buf) > 0
      BY <1>12
    <2>2. dev[k] = PutByte(d, bytes[k])
      BY <1>10
    <2>3. bytes[k] \in Chars /\ k \in 0 .. N
      BY <1>2
    <2>4. \A j \in 1 .. k : j \in 1 .. i \/ j = k
      BY <1>2
    <2> HIDE DEF d, i
    <2>5. /\ PutByte(d, bytes[k]) \in Devs
          /\ Count(d.buf) > 0 => Count(PutByte(d, bytes[k]).buf) > 0
          /\ bytes[k] = NL => Count(PutByte(d, bytes[k]).buf) > 0
      BY <2>1, <2>3, PutByteKeeps
    <2>6. (\E j \in 1 .. k : bytes[j] = NL) => Count(dev[k].buf) > 0
      BY <2>1, <2>2, <2>4, <2>5
    <2> QED
      BY <2>1, <2>2, <2>3, <2>5, <2>6
  <1>13. 0 .. N \subseteq T
    <2> HIDE DEF T
    <2> QED
      BY <1>2, <1>11, <1>12, IntervalInduction
  <1>15. n \in T
    BY <1>2, <1>13
  <1>16. DevOK(circular_buf', g_buff')
    BY <1>1, <1>15 DEF Devs
  <1>17. Contains(bytes, NL) => \E j \in 1 .. N : bytes[j] = NL
    BY DEF Contains, N
  <1> QED
    BY <1>1, <1>15, <1>16, <1>17 DEF Stored, N

\* What lies before the k-th command, and what the k-th is, in Content.
LEMMA ContentLines ==
  ASSUME DevOK(circular_buf, g_buff)
  PROVE  /\ Content \in Text
         /\ Stored => Len(Content) > 0 /\ Content[Len(Content)] = NL
  <1> DEFINE b == circular_buf
             n == Count(b)
             v == OldestFirst(b)
             total == TotalBytesSize(b)
             w == [k \in 1 .. n |-> v[k].buffptr]
             start == [k \in 0 .. n |-> total[k]]
  <1>1. b \in Buffers(Text) /\ RingShape(b) /\ LinesIn(b)
    BY DEF DevOK
  <1>2. n \in 0 .. MaxOps /\ MaxOps \in Nat /\ n \in Nat
    BY <1>1, WindowElements, MaxOpsAssumption
  <1>3. /\ total \in [0 .. MaxOps -> Nat] /\ total[0] = 0
        /\ \A k \in 1 .. n : total[k] = total[k - 1] + v[k].size
    BY <1>1, WindowTotals
  <1>4. ASSUME NEW k \in 1 .. n
        PROVE  /\ v[k].buffptr \in Text /\ v[k].size = Len(v[k].buffptr)
               /\ v[k].buffptr[v[k].size] = NL /\ v[k].size > 0
    <2>1. PICK s \in Slots : v[k] = b.entry[s] /\ v[k].buffptr # NULL /\ v[k].size > 0
      <3> DEFINE i == k - 1
      <3>1. i \in Slots /\ i < n /\ i + 1 = k
        BY <1>2 DEF Slots
      <3> HIDE DEF i, n, v
      <3>2. Visited(b, i) = v[k] /\ v[k].buffptr # NULL /\ v[k].size > 0
        BY <1>1, <3>1, VisitedShape DEF n, v
      <3>3. b.out_offs \in Slots
        BY <1>1 DEF Buffers
      <3>4. (b.out_offs + i) % MaxOps \in Slots
        BY <3>1, <3>3, SlotFromOldest DEF Slots
      <3> QED
        BY <3>2, <3>4 DEF Visited
    <2> HIDE DEF v, b
    <2>2. b.entry[s] \in Entries(Text)
      BY <1>1 DEF Buffers
    <2>3. v[k].buffptr \in Text
      BY <2>1, <2>2 DEF Entries
    <2> QED
      BY <1>1, <2>1, <2>3 DEF LinesIn
  <1>5. Content = FlattenSeq(w)
    BY DEF Content, Contents
  <1> HIDE DEF n, v, total, b
  <1>6. w \in Seq(Seq(Chars)) /\ Len(w) = n /\ \A k \in 1 .. n : w[k] = v[k].buffptr
    BY <1>2, <1>4 DEF Text
  <1> HIDE DEF w
  <1>7. start \in [0 .. n -> Nat] /\ start[0] = 0
    BY <1>2, <1>3
  <1>8. ASSUME NEW k \in 1 .. n
        PROVE  start[k] = start[k - 1] + Len(w[k])
    <2>1. k \in 0 .. n /\ k - 1 \in 0 .. n
      BY <1>2
    <2>2. Len(w[k]) = v[k].size
      BY <1>4, <1>6
    <2> QED
      BY <1>3, <2>1, <2>2
  <1> HIDE DEF start
  <1>9. /\ FlattenSeq(w) \in Seq(Chars)
        /\ Len(FlattenSeq(w)) = start[n]
        /\ \A k \in 1 .. n : \A j \in 1 .. Len(w[k]) :
             FlattenSeq(w)[start[k - 1] + j] = w[k][j]
    <2>1. w \in Seq(Seq(Chars)) /\ start \in [0 .. Len(w) -> Nat] /\ start[0] = 0
      BY <1>6, <1>7
    <2>2. \A k \in 1 .. Len(w) : start[k] = start[k - 1] + Len(w[k])
      BY <1>6, <1>8
    <2>3. Placed(Chars, w, start)
      BY <2>1, <2>2, FlattenedPlaces
    <2> QED
      BY <1>6, <2>3 DEF Placed
  <1>10. ASSUME n > 0
         PROVE  Len(Content) > 0 /\ Content[Len(Content)] = NL
    <2> DEFINE m == Len(w[n])
    <2>1. n \in 1 .. n /\ n - 1 \in 0 .. n
      BY <1>2, <1>10
    <2>2. m = v[n].size /\ m > 0 /\ m \in Nat /\ w[n][m] = NL
      <3>1. w[n] = v[n].buffptr /\ w[n] \in Seq(Chars)
        BY <1>4, <1>6, <2>1 DEF Text
      <3> QED
        BY <1>4, <2>1, <3>1
    <2>3. start[n] = start[n - 1] + m /\ start[n - 1] \in Nat
      BY <1>7, <1>8, <2>1
    <2>4. m \in 1 .. m
      BY <2>2
    <2>5. FlattenSeq(w)[start[n - 1] + m] = w[n][m]
      BY <1>9, <2>1, <2>4
    <2> HIDE DEF m
    <2> QED
      BY <1>5, <1>9, <2>2, <2>3, <2>5
  <1> QED
    BY <1>5, <1>9, <1>10 DEF Stored, Text, n, b

LEMMA SeekToNat ==
  ASSUME DevOK(circular_buf, g_buff), NEW x \in SeekTos
  PROVE  SeekToPosition(x) \in Nat
  <1>1. x.write_cmd \in Nat /\ x.write_cmd_offset \in Nat
    OBVIOUS
  <1>2. SizeUpTo(circular_buf) \in [0 .. MaxOps -> Nat]
    BY SizeSums DEF DevOK
  <1>3. SeekOffset(circular_buf, x.write_cmd) \in Nat
    <2>1. ~(x.write_cmd >= MaxOps) => x.write_cmd \in 0 .. MaxOps
      BY <1>1, MaxOpsAssumption
    <2> QED
      BY <1>2, <2>1 DEF SeekOffset
  <1> QED
    BY <1>1, <1>3 DEF SeekToPosition, SeekPosition

\* A number that stands for the device has a position.
LEMMA LogFile ==
  ASSUME fds \in [Fds -> Files], NEW n, Open(n).kind = "log"
  PROVE  /\ n \in Fds /\ Open(n) = fds[n] /\ Open(n).pos \in Nat
         /\ Open(n) = LogAt(Open(n).pos)
  <1>1. n \in Fds /\ Open(n) = fds[n]
    BY DEF Open, Free
  <1>2. fds[n] \in [kind : {"log"}, client : {NULL}, pos : Nat]
    <2>1. fds[n] \in Files
      BY <1>1
    <2>2. fds[n] \notin {Free, Inherited, Listening} \cup {Connected(c) : c \in Clients}
      BY <1>1 DEF Free, Inherited, Listening, Connected
    <2> QED
      BY <2>1, <2>2 DEF Files
  <1> QED
    BY <1>1, <1>2 DEF LogAt

LEMMA ConnFile ==
  ASSUME fds \in [Fds -> Files], NEW n, Open(n).kind = "conn"
  PROVE  n \in Fds /\ Open(n) = fds[n] /\ Open(n).client \in Clients
  <1>1. n \in Fds /\ Open(n) = fds[n]
    BY DEF Open, Free
  <1>2. fds[n] \in Files
    BY <1>1
  <1>3. \E c \in Clients : fds[n] = Connected(c)
    BY <1>1, <1>2 DEF Files, Free, Inherited, Listening
  <1> QED
    BY <1>1, <1>3 DEF Connected

\* A read of the device: the next bytes from the position, none only at the end.
LEMMA LogReads ==
  ASSUME DevOK(circular_buf, g_buff), fds \in [Fds -> Files], NEW n,
         Open(n).kind = "log"
  PROVE  LET bytes == ReadGets(n, BUFFSIZE)
             pos == Open(n).pos
         IN  /\ bytes \in Text
             /\ bytes = <<>> => Len(Content) <= pos
             /\ bytes # <<>> =>
                  /\ pos + Len(bytes) <= Len(Content)
                  /\ bytes = SubSeq(Content, pos + 1, pos + Len(bytes))
  <1> DEFINE pos == Open(n).pos
             l == Len(Content)
             z == IF pos + BUFFSIZE <= l THEN pos + BUFFSIZE ELSE l
             bytes == SubSeq(Content, pos + 1, z)
  <1>1. pos \in Nat
    BY LogFile
  <1>2. Content \in Seq(Chars)
    BY ContentLines DEF Text
  <1>3. l \in Nat /\ BUFFSIZE \in Nat /\ BUFFSIZE > 0
    BY <1>2
  <1> HIDE DEF pos
  <1>4. ReadGets(n, BUFFSIZE) = bytes
    <2>1. ReadGets(n, BUFFSIZE)
            = SubSeq(Content, pos + 1, Min({pos + BUFFSIZE, l}))
      BY DEF ReadGets, ReadAt, Content, pos
    <2>2. pos + BUFFSIZE \in Int /\ l \in Int
      BY <1>1, <1>3
    <2>3. Min({pos + BUFFSIZE, l}) = z
      BY <2>2, LesserOfTwo
    <2> QED
      BY <2>1, <2>3
  <1> HIDE DEF l
  <1>5. z \in Nat /\ z <= l
    BY <1>1, <1>3
  <1>6. CASE l <= pos
    <2>1. z <= pos
      BY <1>5, <1>1, <1>3, <1>6
    <2> HIDE DEF z
    <2>2. bytes = <<>> /\ <<>> \in Seq(Chars)
      BY <1>1, <1>2, <1>5, <2>1
    <2> QED
      BY <1>4, <1>6, <2>2 DEF Text, pos, l
  <1>7. CASE ~(l <= pos)
    <2>1. pos < z
      BY <1>1, <1>3, <1>7
    <2> HIDE DEF z
    <2>2. bytes \in Seq(Chars) /\ Len(bytes) = z - pos
      BY <1>1, <1>2, <1>5, <2>1, SliceElements DEF l
    <2> HIDE DEF bytes
    <2>3. pos + Len(bytes) = z /\ Len(bytes) # 0
      BY <1>1, <1>5, <2>1, <2>2
    <2>6. bytes # <<>>
      BY <2>3
    <2>4. pos + Len(bytes) <= l
      BY <1>5, <2>3
    <2>5. bytes = SubSeq(Content, pos + 1, pos + Len(bytes))
      BY <2>3 DEF bytes
    <2> QED
      BY <1>4, <1>7, <2>2, <2>4, <2>5, <2>6 DEF Text, pos, l
  <1> QED
    BY <1>6, <1>7

\* What a read of any number gets is text.
LEMMA ReadGetsText ==
  ASSUME DevOK(circular_buf, g_buff), fds \in [Fds -> Files],
         wire \in [Clients -> Text], NEW n
  PROVE  ReadGets(n, BUFFSIZE) \in Text
  <1>1. CASE Open(n).kind = "conn"
    <2>1. ReadGets(n, BUFFSIZE) = wire[Open(n).client]
      BY <1>1 DEF ReadGets
    <2>2. Open(n).client \in Clients
      BY <1>1, ConnFile
    <2> QED
      BY <2>1, <2>2
  <1>2. CASE Open(n).kind = "log"
    BY <1>2, LogReads
  <1>3. CASE Open(n).kind # "conn" /\ Open(n).kind # "log"
    <2>1. ReadGets(n, BUFFSIZE) = <<>>
      BY <1>3 DEF ReadGets
    <2> QED
      BY <2>1 DEF Text
  <1> QED
    BY <1>1, <1>2, <1>3

-----------------------------------------------------------------------------
(***************************************************************************)
(* The data of the threads, the connections and the descriptors.           *)
(***************************************************************************)
LEMMA SetFdTyped ==
  ASSUME fds \in [Fds -> Files], NEW n, NEW file \in Files, SetFd(n, file)
  PROVE  fds' \in [Fds -> Files]
  BY DEF SetFd

LEMMA CloseTyped ==
  ASSUME fds \in [Fds -> Files], NEW n, close(n)
  PROVE  fds' \in [Fds -> Files]
  <1>1. Free \in Files
    BY DEF Files
  <1> QED
    BY <1>1, SetFdTyped DEF close

LEMMA LogAtFile ==
  ASSUME NEW pos \in Nat
  PROVE  LogAt(pos) \in Files
  BY DEF LogAt, Files

LEMMA ReadTakesTyped ==
  ASSUME DataOK, NEW n, NEW bytes \in Text, ReadTakes(n, bytes)
  PROVE  fds' \in [Fds -> Files] /\ wire' \in [Clients -> Text]
  <1>1. fds \in [Fds -> Files] /\ wire \in [Clients -> Text] /\ <<>> \in Text
    BY DEF DataOK, Text
  <1>2. wire' \in [Clients -> Text]
    BY <1>1 DEF ReadTakes
  <1>3. CASE Open(n).kind = "log"
    <2>1. SetFd(n, LogAt(Open(n).pos + Len(bytes)))
      BY <1>3 DEF ReadTakes
    <2>2. Open(n).pos \in Nat /\ Len(bytes) \in Nat
      BY <1>1, <1>3, LogFile DEF Text
    <2>3. Open(n).pos + Len(bytes) \in Nat
      BY <2>2
    <2>4. LogAt(Open(n).pos + Len(bytes)) \in Files
      BY <2>3, LogAtFile
    <2> QED
      BY <1>1, <1>2, <2>1, <2>4, SetFdTyped
  <1>4. CASE Open(n).kind # "log"
    BY <1>1, <1>2, <1>4 DEF ReadTakes
  <1> QED
    BY <1>3, <1>4

LEMMA WritePutsKeeps ==
  ASSUME DataOK, NEW n, NEW bytes \in Text, NEW ok, WritePuts(n, bytes, ok)
  PROVE  /\ DevOK(circular_buf', g_buff')
         /\ Stored => Stored'
         /\ Open(n).kind = "log" /\ ok /\ Contains(bytes, NL) => Stored'
         /\ Open(n).kind # "log" => UNCHANGED <<circular_buf, g_buff>>
  <1>1. DevOK(circular_buf, g_buff)
    BY DEF DataOK
  <1>2. CASE Open(n).kind = "log"
    <2>1. PICK k \in 0 .. Len(bytes) :
            /\ ok = (k = Len(bytes))
            /\ circular_buf' = PutBytes(Dev, bytes)[k].buf
            /\ g_buff' = PutBytes(Dev, bytes)[k].line
      BY <1>2 DEF WritePuts
    <2> QED
      BY <1>1, <1>2, <2>1, PutBytesKeeps
  <1>3. CASE Open(n).kind # "log"
    <2>1. UNCHANGED <<circular_buf, g_buff>>
      BY <1>3 DEF WritePuts
    <2> QED
      BY <1>1, <1>3, <2>1 DEF Stored
  <1> QED
    BY <1>2, <1>3

LEMMA BecomeTyped ==
  ASSUME ThreadsTyped, SeeksNamed, NEW t \in Threads, NEW r \in ThreadRecords,
         r.pc \in SeekPCs => IsSeek(r.buf), Become(t, r)
  PROVE  ThreadsTyped' /\ SeeksNamed'
  <1>1. thr' = [thr EXCEPT ![t] = r]
    BY DEF Become
  <1>2. \A u \in Threads : thr'[u] = IF u = t THEN r ELSE thr[u]
    BY <1>1 DEF ThreadsTyped
  <1>3. ThreadsTyped'
    BY <1>1 DEF ThreadsTyped
  <1>4. SeeksNamed'
    BY <1>2 DEF SeeksNamed, IsSeek
  <1> QED
    BY <1>3, <1>4

LEMMA ToTyped ==
  ASSUME ThreadsTyped, SeeksNamed, NEW t \in Threads, NEW pc \in ThreadPCs,
         pc \in SeekPCs => thr[t].pc \in SeekPCs, To(t, pc)
  PROVE  ThreadsTyped' /\ SeeksNamed'
  <1> DEFINE r == [thr[t] EXCEPT !.pc = pc]
  <1>1. thr[t] \in ThreadRecords
    BY DEF ThreadsTyped
  <1>2. r \in ThreadRecords /\ r.pc = pc /\ r.buf = thr[t].buf
    BY <1>1 DEF ThreadRecords
  <1>3. r.pc \in SeekPCs => IsSeek(r.buf)
    BY <1>2 DEF SeeksNamed
  <1>4. Become(t, r)
    BY DEF To
  <1> HIDE DEF r
  <1> QED
    BY <1>2, <1>3, <1>4, BecomeTyped

LEMMA NoThrTyped ==
  ASSUME NEW pc \in ThreadPCs, NEW buf \in Text
  PROVE  /\ [NoThr EXCEPT !.pc = pc, !.buf = buf] \in ThreadRecords
         /\ [NoThr EXCEPT !.pc = pc] \in ThreadRecords
         /\ NoThr \in ThreadRecords
  <1>1. <<>> \in Text /\ "none" \in ThreadPCs
    BY DEF Text, ThreadPCs, Outside
  <1> QED
    BY <1>1 DEF NoThr, ThreadRecords

LEMMA ReadData ==
  ASSUME DataOK, NEW t \in Threads, Read(t)
  PROVE  DataOK'
  <1> DEFINE bytes == ReadGets(td[t].fd, BUFFSIZE)
             pc == IF IsSeek(bytes) THEN "s_open" ELSE "w_lock"
             r == [NoThr EXCEPT !.pc = pc, !.buf = bytes]
  <1>1. ReadTakes(td[t].fd, bytes) /\ UNCHANGED devVars
    BY DEF Read
  <1>2. bytes \in Text
    BY ReadGetsText DEF DataOK
  <1>3. fds' \in [Fds -> Files] /\ wire' \in [Clients -> Text]
    BY <1>1, <1>2, ReadTakesTyped
  <1>4. ThreadsTyped' /\ SeeksNamed'
    <2>1. CASE bytes = <<>>
      <3>1. To(t, "close")
        BY <2>1 DEF Read
      <3>2. "close" \in ThreadPCs /\ "close" \notin SeekPCs
        BY DEF ThreadPCs, Outside, SeekPCs
      <3> QED
        BY <3>1, <3>2, ToTyped DEF DataOK
    <2>2. CASE bytes # <<>>
      <3>1. Become(t, r)
        BY <2>2 DEF Read
      <3>2. pc \in ThreadPCs /\ (pc \in SeekPCs => IsSeek(bytes))
        BY DEF ThreadPCs, SeekPCs
      <3> HIDE DEF pc, bytes
      <3>3. r \in ThreadRecords
        BY <1>2, <3>2, NoThrTyped
      <3>4. r.pc = pc /\ r.buf = bytes
        BY DEF NoThr
      <3> HIDE DEF r
      <3> QED
        BY <3>1, <3>2, <3>3, <3>4, BecomeTyped DEF DataOK
    <2> QED
      BY <2>1, <2>2
  <1> QED
    BY <1>1, <1>3, <1>4 DEF DataOK, devVars

LEMMA ReadLogData ==
  ASSUME DataOK, NEW t \in Threads, ReadLog(t)
  PROVE  DataOK'
  <1> DEFINE bytes == ReadGets(log_fd, BUFFSIZE)
             pc == IF bytes = <<>>
                   THEN IF thr[t].pc = "d_read" THEN "d_close" ELSE "s_close"
                   ELSE IF thr[t].pc = "d_read" THEN "d_send" ELSE "s_send"
             r == [thr[t] EXCEPT !.pc = pc, !.tmpbuf = bytes, !.answer = @ \o bytes]
  <1>1. /\ ReadTakes(log_fd, bytes) /\ UNCHANGED devVars
        /\ thr[t].pc \in {"d_read", "s_read"} /\ Become(t, r)
    BY DEF ReadLog
  <1>2. bytes \in Text
    BY ReadGetsText DEF DataOK
  <1>3. fds' \in [Fds -> Files] /\ wire' \in [Clients -> Text]
    BY <1>1, <1>2, ReadTakesTyped
  <1>4. pc \in ThreadPCs /\ (pc \in SeekPCs => thr[t].pc \in SeekPCs)
    BY <1>1 DEF ThreadPCs, SeekPCs
  <1>5. thr[t] \in ThreadRecords /\ (thr[t].pc \in SeekPCs => IsSeek(thr[t].buf))
    BY DEF DataOK, ThreadsTyped, SeeksNamed
  <1> HIDE DEF pc, bytes
  <1>6. thr[t].answer \o bytes \in Text
    <2>1. thr[t].answer \in Text
      BY <1>5 DEF ThreadRecords
    <2> QED
      BY <1>2, <2>1 DEF Text
  <1>7. r \in ThreadRecords /\ r.pc = pc /\ r.buf = thr[t].buf
    BY <1>2, <1>4, <1>5, <1>6 DEF ThreadRecords
  <1> HIDE DEF r
  <1>8. ThreadsTyped' /\ SeeksNamed'
    BY <1>1, <1>4, <1>5, <1>7, BecomeTyped DEF DataOK
  <1> QED
    BY <1>1, <1>3, <1>8 DEF DataOK, devVars

LEMMA SendChunkData ==
  ASSUME DataOK, NEW t \in Threads, SendChunk(t)
  PROVE  DataOK'
  <1> DEFINE pc == IF thr[t].pc = "d_send" THEN "d_read" ELSE "s_read"
             r == [thr[t] EXCEPT !.pc = pc, !.tmpbuf = <<>>]
  <1>1. /\ UNCHANGED <<wire, fds>>
        /\ thr[t].pc \in {"d_send", "s_send"} /\ Become(t, r)
    BY DEF SendChunk, netVars
  <1>2. PICK ok \in BOOLEAN : WritePuts(td[t].fd, thr[t].tmpbuf, ok)
    BY DEF SendChunk
  <1>3. pc \in ThreadPCs /\ (pc \in SeekPCs => thr[t].pc \in SeekPCs)
    BY <1>1 DEF ThreadPCs, SeekPCs
  <1>4. thr[t] \in ThreadRecords /\ (thr[t].pc \in SeekPCs => IsSeek(thr[t].buf))
    BY DEF DataOK, ThreadsTyped, SeeksNamed
  <1>5. thr[t].tmpbuf \in Text /\ <<>> \in Text
    BY <1>4 DEF ThreadRecords, Text
  <1>6. DevOK(circular_buf', g_buff')
    BY <1>2, <1>5, WritePutsKeeps
  <1> HIDE DEF pc
  <1>7. r \in ThreadRecords /\ r.pc = pc /\ r.buf = thr[t].buf
    BY <1>3, <1>4, <1>5 DEF ThreadRecords
  <1> HIDE DEF r
  <1>8. ThreadsTyped' /\ SeeksNamed'
    BY <1>1, <1>3, <1>4, <1>7, BecomeTyped DEF DataOK
  <1> QED
    BY <1>1, <1>6, <1>8 DEF DataOK

LEMMA WriteLogData ==
  ASSUME DataOK, NEW t \in Threads, WriteLog(t)
  PROVE  DataOK'
  <1>1. At(t, "w_write") /\ UNCHANGED <<wire, fds>>
    BY DEF WriteLog, netVars
  <1>2. PICK ok \in BOOLEAN :
          /\ WritePuts(log_fd, thr[t].buf, ok)
          /\ Become(t, [thr[t] EXCEPT !.pc = "w_unlock", !.ok = ok])
    BY DEF WriteLog
  <1> DEFINE r == [thr[t] EXCEPT !.pc = "w_unlock", !.ok = ok]
  <1>3. thr[t] \in ThreadRecords
    BY DEF DataOK, ThreadsTyped
  <1>4. thr[t].buf \in Text
    BY <1>3 DEF ThreadRecords
  <1>5. DevOK(circular_buf', g_buff')
    BY <1>2, <1>4, WritePutsKeeps
  <1>6. "w_unlock" \in ThreadPCs /\ "w_unlock" \notin SeekPCs
    BY DEF ThreadPCs, SeekPCs
  <1>7. r \in ThreadRecords /\ r.pc = "w_unlock" /\ Become(t, r)
    BY <1>2, <1>3, <1>6 DEF ThreadRecords
  <1> HIDE DEF r
  <1>8. ThreadsTyped' /\ SeeksNamed'
    BY <1>6, <1>7, BecomeTyped DEF DataOK
  <1> QED
    BY <1>1, <1>5, <1>8 DEF DataOK

LEMMA SeekIoctlData ==
  ASSUME DataOK, NEW t \in Threads, SeekIoctl(t)
  PROVE  DataOK'
  <1> DEFINE x == Head(thr[t].buf)
  <1>1. thr[t].pc = "s_ioctl" /\ UNCHANGED <<devVars, netVars>>
    BY DEF SeekIoctl, At
  <1>2. \/ SetFd(log_fd, LogAt(SeekToPosition(x))) /\ To(t, "s_read")
        \/ To(t, "s_close") /\ UNCHANGED fds
    BY DEF SeekIoctl
  <1>3. x \in SeekTos
    BY <1>1 DEF DataOK, SeeksNamed, SeekPCs, IsSeek
  <1> HIDE DEF x
  <1>4. LogAt(SeekToPosition(x)) \in Files
    BY <1>3, SeekToNat, LogAtFile DEF DataOK
  <1>5. fds' \in [Fds -> Files]
    BY <1>2, <1>4, SetFdTyped DEF DataOK
  <1>6. {"s_read", "s_close", "s_ioctl"} \subseteq ThreadPCs \cap SeekPCs
    BY DEF ThreadPCs, SeekPCs
  <1>7. ThreadsTyped' /\ SeeksNamed'
    BY <1>1, <1>2, <1>6, ToTyped DEF DataOK
  <1> QED
    BY <1>1, <1>5, <1>7 DEF DataOK, devVars, netVars

\* The steps that only go on, with or without an open or a close.
LEMMA PlainData ==
  ASSUME DataOK, NEW t \in Threads,
         \/ CloseConn(t) \/ LogPeer(t) \/ Lock(t) \/ OpenLog(t) \/ TestLog(t)
         \/ CloseLog(t) \/ WriteUnlock(t) \/ DumpUnlock(t)
  PROVE  DataOK'
  <1>1. UNCHANGED <<circular_buf, g_buff, wire>>
    BY DEF CloseConn, LogPeer, Lock, OpenLog, TestLog, CloseLog, WriteUnlock, DumpUnlock,
           devVars, netVars
  <1>2. fds \in [Fds -> Files]
    BY DEF DataOK
  <1>3. fds' \in [Fds -> Files]
    <2>1. CASE CloseConn(t) \/ CloseLog(t)
      BY <1>2, <2>1, CloseTyped DEF CloseConn, CloseLog
    <2>2. CASE OpenLog(t)
      <3>1. UNCHANGED fds \/ SetFd(log_fd', LogAt(0))
        BY <2>2 DEF OpenLog
      <3>2. CASE SetFd(log_fd', LogAt(0))
        <4>1. PICK n : n = log_fd'
          OBVIOUS
        <4>2. SetFd(n, LogAt(0))
          BY <3>2, <4>1
        <4>3. LogAt(0) \in Files
          BY LogAtFile
        <4> QED
          BY <1>2, <4>2, <4>3, SetFdTyped
      <3> QED
        BY <1>2, <3>1, <3>2
    <2>3. CASE LogPeer(t) \/ Lock(t) \/ TestLog(t) \/ WriteUnlock(t) \/ DumpUnlock(t)
      BY <1>2, <2>3 DEF LogPeer, Lock, TestLog, WriteUnlock, DumpUnlock
    <2> QED
      BY <2>1, <2>2, <2>3
  <1>4. PICK pc : To(t, pc) /\ pc \in ThreadPCs /\ (pc \in SeekPCs => thr[t].pc \in SeekPCs)
    <2>1. CASE CloseConn(t)
      BY <2>1 DEF CloseConn, ThreadPCs, Outside, SeekPCs
    <2>2. CASE LogPeer(t)
      BY <2>2 DEF LogPeer, ThreadPCs, Outside, SeekPCs
    <2>3. CASE Lock(t)
      <3>1. \E pc \in {"w_open", "d_open", "read"} : To(t, pc)
        BY <2>3 DEF Lock
      <3> QED
        BY <3>1 DEF ThreadPCs, Outside, SeekPCs
    <2>4. CASE OpenLog(t)
      <3> DEFINE pc == CASE At(t, "w_open") -> "w_test"
                         [] At(t, "d_open") -> "d_test"
                         [] At(t, "s_open") -> "s_test"
      <3>1. To(t, pc) /\ thr[t].pc \in {"w_open", "d_open", "s_open"}
        BY <2>4 DEF OpenLog
      <3>2. pc \in ThreadPCs /\ (pc \in SeekPCs => thr[t].pc \in SeekPCs)
        BY <3>1 DEF At, ThreadPCs, SeekPCs
      <3> HIDE DEF pc
      <3> QED
        BY <3>1, <3>2
    <2>5. CASE TestLog(t)
      <3> DEFINE pc == CASE At(t, "w_test") -> IF log_fd < 0 THEN "read" ELSE "w_write"
                         [] At(t, "d_test") -> IF log_fd < 0 THEN "d_unlock" ELSE "d_read"
                         [] At(t, "s_test") -> IF log_fd < 0 THEN "read" ELSE "s_ioctl"
      <3>1. To(t, pc) /\ thr[t].pc \in {"w_test", "d_test", "s_test"}
        BY <2>5 DEF TestLog
      <3>2. pc \in ThreadPCs /\ (pc \in SeekPCs => thr[t].pc \in SeekPCs)
        BY <3>1 DEF At, ThreadPCs, Outside, SeekPCs
      <3> HIDE DEF pc
      <3> QED
        BY <3>1, <3>2
    <2>6. CASE CloseLog(t)
      <3>1. \E pc \in {"d_lock", "d_unlock", "read"} : To(t, pc)
        <4> DEFINE pc == CASE At(t, "w_close") ->
                                IF thr[t].ok /\ Contains(thr[t].buf, NL)
                                THEN "d_lock" ELSE "read"
                           [] At(t, "d_close") -> "d_unlock"
                           [] At(t, "s_close") -> "read"
        <4>1. To(t, pc) /\ thr[t].pc \in {"w_close", "d_close", "s_close"}
          BY <2>6 DEF CloseLog
        <4>2. pc \in {"d_lock", "read", "d_unlock"}
          BY <4>1 DEF At
        <4> HIDE DEF pc
        <4> QED
          BY <4>1, <4>2
      <3> QED
        BY <3>1 DEF ThreadPCs, Outside, SeekPCs
    <2>7. CASE WriteUnlock(t) \/ DumpUnlock(t)
      BY <2>7 DEF WriteUnlock, DumpUnlock, ThreadPCs, Outside, SeekPCs
    <2> QED
      BY <2>1, <2>2, <2>3, <2>4, <2>5, <2>6, <2>7
  <1>5. ThreadsTyped' /\ SeeksNamed'
    BY <1>4, ToTyped DEF DataOK
  <1> QED
    BY <1>1, <1>3, <1>5 DEF DataOK

\* A step of the main thread that leaves the threads and the descriptors alone.
LEMMA JoinTyped ==
  ASSUME ThreadsTyped, SeeksNamed, NEW t \in Threads, JoinAndFree(t)
  PROVE  ThreadsTyped' /\ SeeksNamed'
  <1>1. Become(t, NoThr)
    BY DEF JoinAndFree, Become
  <1>2. NoThr \in ThreadRecords /\ NoThr.pc \notin SeekPCs
    <2>1. <<>> \in Text /\ "none" \in ThreadPCs
      BY DEF Text, ThreadPCs, Outside
    <2> QED
      BY <2>1 DEF NoThr, ThreadRecords, SeekPCs
  <1> QED
    BY <1>1, <1>2, BecomeTyped

LEMMA MainData ==
  ASSUME ListInv, Running, DataOK, MainStep
  PROVE  DataOK'
  <1>1. UNCHANGED <<circular_buf, g_buff, wire>>
    BY DEF MainStep, Socket, Bind, make_daemon, Listen, StartFails, PollSignal, Create,
           CreateFails, MallocFails, add_thread, Maintain, MaintainEnd, CloseListen,
           RemoveFile, DestroyLock, JoinFirst, Exit, devVars, netVars
  <1>2. fds \in [Fds -> Files] /\ {Free, Listening} \subseteq Files
    BY DEF DataOK, Files
  <1>3. fds' \in [Fds -> Files]
    <2>1. CASE Socket
      <3>1. SetFd(NewFd, Listening)
        BY <2>1 DEF Socket
      <3> QED
        BY <1>2, <3>1, SetFdTyped
    <2>2. CASE make_daemon
      BY <1>2, <2>2 DEF make_daemon
    <2>3. CASE CreateFails \/ CloseListen
      BY <1>2, <2>3, CloseTyped DEF CreateFails, CloseListen
    <2>4. CASE UNCHANGED fds
      BY <1>2, <2>4
    <2> QED
      BY <2>1, <2>2, <2>3, <2>4
         DEF MainStep, Bind, Listen, StartFails, PollSignal, Create, MallocFails,
             add_thread, Maintain, MaintainEnd, RemoveFile, DestroyLock, JoinFirst, Exit
  <1>4. ThreadsTyped' /\ SeeksNamed'
    <2>1. ASSUME NEW t \in Threads, Create(t)
          PROVE  ThreadsTyped' /\ SeeksNamed'
      <3> DEFINE r == [NoThr EXCEPT !.pc = "read"]
      <3>1. Become(t, r)
        BY <2>1 DEF Create, Become
      <3>2. "read" \in ThreadPCs /\ "read" \notin SeekPCs /\ <<>> \in Text
        BY DEF ThreadPCs, Outside, SeekPCs, Text
      <3>3. r \in ThreadRecords /\ r.pc = "read"
        BY <3>2, NoThrTyped DEF NoThr
      <3> HIDE DEF r
      <3> QED
        BY <3>1, <3>2, <3>3, BecomeTyped DEF DataOK
    <2>2. CASE Maintain
      <3>1. main.item \in Threads
        BY <2>2 DEF Maintain, ListInv, BlocksOK
      <3>2. JoinAndFree(main.item) \/ UNCHANGED thr
        BY <2>2 DEF Maintain
      <3>3. CASE JoinAndFree(main.item)
        <4>1. PICK t \in Threads : t = main.item
          BY <3>1
        <4> QED
          BY <3>3, <4>1, JoinTyped DEF DataOK
      <3> QED
        BY <3>2, <3>3 DEF DataOK, ThreadsTyped, SeeksNamed
    <2>3. CASE JoinFirst
      <3>1. PICK t \in Threads : t = slh_first
        <4>1. PICK l : Lists(l)
          BY DEF ListInv, ListOK
        <4>2. l \in Seq(Threads) /\ slh_first = IF l = <<>> THEN NULL ELSE l[1]
          BY <4>1 DEF Lists, Links
        <4>3. slh_first # NULL
          BY <2>3 DEF JoinFirst
        <4>4. Len(l) \in Nat /\ Len(l) # 0
          BY <4>2, <4>3
        <4>5. l[1] \in Threads
          BY <4>2, <4>4
        <4> QED
          BY <4>2, <4>3, <4>5
      <3>2. JoinAndFree(t)
        BY <2>3, <3>1 DEF JoinFirst
      <3> QED
        BY <3>2, JoinTyped DEF DataOK
    <2>4. CASE UNCHANGED thr
      BY <2>4 DEF DataOK, ThreadsTyped, SeeksNamed
    <2> QED
      BY <2>1, <2>2, <2>3, <2>4
         DEF MainStep, Socket, Bind, make_daemon, Listen, StartFails, PollSignal,
             CreateFails, MallocFails, add_thread, MaintainEnd, CloseListen,
             RemoveFile, DestroyLock, Exit
  <1> QED
    BY <1>1, <1>3, <1>4 DEF DataOK

LEMMA OldestClient ==
  ASSUME NEW S, S \subseteq Clients, S # {}
  PROVE  Min(S) \in Clients
  <1>1. PICK c \in S : \A d \in S : c <= d
    BY LeastNatural
  <1>2. Min(S) \in S
    BY <1>1 DEF Min
  <1> QED
    BY <1>2

LEMMA AcceptData ==
  ASSUME DataOK, Accept
  PROVE  DataOK' /\ (peer \in [Clients -> {"new", "here", "gone"}]
                       => peer' \in [Clients -> {"new", "here", "gone"}])
  <1> DEFINE S == {d \in Clients : peer[d] = "new"}
             c == Min(S)
  <1>1. UNCHANGED <<circular_buf, g_buff, wire, thr>>
    BY DEF Accept, devVars
  <1>2. S \subseteq Clients /\ S # {}
    BY DEF Accept
  <1>3. \/ UNCHANGED <<fds, peer>>
        \/ SetFd(NewFd, Connected(c)) /\ peer' = [peer EXCEPT ![c] = "here"]
    BY DEF Accept
  <1> HIDE DEF S
  <1>4. c \in Clients
    BY <1>2, OldestClient
  <1> HIDE DEF c
  <1>5. Connected(c) \in Files /\ fds \in [Fds -> Files]
    BY <1>4 DEF Files, DataOK
  <1>6. fds' \in [Fds -> Files]
    BY <1>3, <1>5, SetFdTyped
  <1> QED
    BY <1>1, <1>3, <1>6 DEF DataOK, ThreadsTyped, SeeksNamed

LEMMA InitData == Init => DataOK
  <1> SUFFICES ASSUME Init PROVE DataOK
    OBVIOUS
  <1>1. /\ circular_buf = EmptyBuffer /\ g_buff = <<>>
        /\ wire = [c \in Clients |-> <<>>] /\ thr = [t \in Threads |-> NoThr]
        /\ fds = [n \in Fds |-> IF n \in Std THEN Inherited ELSE Free]
    BY DEF Init
  <1>2. <<>> \in Text /\ "none" \in ThreadPCs /\ "none" \notin SeekPCs
    BY DEF Text, ThreadPCs, Outside, SeekPCs
  <1>3. EmptyBuffer \in Buffers(Text) /\ RingShape(EmptyBuffer)
    BY EmptyBufferShape
  <1>4. LinesIn(EmptyBuffer)
    BY DEF LinesIn, EmptyBuffer
  <1>5. NoThr \in ThreadRecords /\ NoThr.pc = "none"
    BY <1>2 DEF NoThr, ThreadRecords
  <1>6. Inherited \in Files /\ Free \in Files
    BY DEF Files
  <1>7. ThreadsTyped /\ SeeksNamed
    BY <1>1, <1>2, <1>5 DEF ThreadsTyped, SeeksNamed
  <1> QED
    BY <1>1, <1>2, <1>3, <1>4, <1>6, <1>7 DEF DataOK, DevOK

LEMMA NextData == ListInv /\ DataOK /\ [Next]_vars => DataOK'
  <1> SUFFICES ASSUME ListInv, DataOK, [Next]_vars PROVE DataOK'
    OBVIOUS
  <1>1. ASSUME UNCHANGED <<circular_buf, g_buff, fds, thr>>, wire' \in [Clients -> Text]
        PROVE  DataOK'
    BY <1>1 DEF DataOK, ThreadsTyped, SeeksNamed
  <1>2. wire \in [Clients -> Text]
    BY DEF DataOK
  <1>3. ASSUME NEW c \in Clients, NEW m \in Messages, Send(c, m) PROVE DataOK'
    <2>1. m \in Text
      BY CharsOfMessages
    <2>2. wire' \in [Clients -> Text]
      BY <1>2, <1>3, <2>1 DEF Send
    <2> QED
      BY <1>1, <1>3, <2>2 DEF Send, devVars
  <1>4. ASSUME NEW c \in Clients, Leave(c) PROVE DataOK'
    BY <1>1, <1>2, <1>4 DEF Leave, devVars
  <1>5. CASE Signal
    BY <1>1, <1>2, <1>5 DEF Signal, devVars, netVars
  <1>6. CASE UNCHANGED vars
    BY <1>1, <1>2, <1>6 DEF vars, devVars, netVars
  <1>7. ASSUME NEW t \in Threads, Sigpipe(t) PROVE DataOK'
    BY <1>1, <1>2, <1>7 DEF Sigpipe, devVars, netVars
  <1>8. CASE Accept
    BY <1>8, AcceptData
  <1>9. CASE Running /\ MainStep
    BY <1>9, MainData
  <1>10. ASSUME NEW t \in Threads, ThreadStep(t) PROVE DataOK'
    BY <1>10, ReadData, ReadLogData, SendChunkData, WriteLogData, SeekIoctlData, PlainData
       DEF ThreadStep
  <1> QED
    BY <1>3, <1>4, <1>5, <1>6, <1>7, <1>8, <1>9, <1>10 DEF Next

(***************************************************************************)
(* Type correctness.                                                       *)
(***************************************************************************)
SmallOK ==
  /\ node \in BOOLEAN /\ destroyed \in BOOLEAN /\ sig_triggered \in BOOLEAN
  /\ peer \in [Clients -> {"new", "here", "gone"}]
  /\ write_lock \in Threads \cup {NoThread}
  /\ slh_first \in Threads \cup {NULL}
  /\ sle_next \in [Threads -> Threads \cup {NULL}]
  /\ thread_clients \in Nat

LEMMA TypesFromParts == ListInv /\ Frame /\ DataOK /\ SmallOK => TypeOK
  <1> SUFFICES ASSUME ListInv, Frame, DataOK, SmallOK PROVE TypeOK
    OBVIOUS
  <1>1. \A t \in Threads : thr[t].pc \in ThreadPCs
    BY DEF DataOK, ThreadsTyped, ThreadRecords
  <1>2. BlocksOK /\ fds \in [Fds -> Files]
    BY DEF ListInv, DataOK
  <1> QED
    BY <1>1, <1>2 DEF TypeOK, BlocksOK, Frame, SmallOK, Numbers

\* The list is left alone by the steps that end the server, and the counter
\* when shutdown joins the threads.
LEMMA ListRests ==
  ASSUME ListInv, [Next]_vars
  PROVE  /\ ~Running' => UNCHANGED <<slh_first, sle_next, thread_clients>>
         /\ MainAt("join")' => UNCHANGED thread_clients
  <1>1. CASE add_thread \/ Maintain
    <2>1. main'.pc = "maintain"
      BY <1>1 DEF add_thread, Maintain, Goto, MainAt, ListInv, BlocksOK
    <2> QED
      BY <2>1 DEF Running, MainAt
  <1>2. CASE JoinFirst
    BY <1>2 DEF JoinFirst, Running, MainAt
  <1>3. CASE UNCHANGED <<slh_first, sle_next, thread_clients>>
    BY <1>3
  <1>4. CASE UNCHANGED vars
    BY <1>3, <1>4 DEF vars, listVars
  <1>5. CASE MainStep
    BY <1>1, <1>2, <1>3, <1>5, ZenonT(60)
       DEF MainStep, Socket, Bind, make_daemon, Listen, StartFails, PollSignal, Create,
           CreateFails, MallocFails, MaintainEnd, CloseListen, RemoveFile, DestroyLock,
           Exit, listVars
  <1>6. ASSUME NEW t \in Threads, ThreadStep(t)
        PROVE  UNCHANGED <<slh_first, sle_next, thread_clients>>
    BY <1>6 DEF ThreadStep, Read, CloseConn, LogPeer, Lock, OpenLog, TestLog, CloseLog,
                ReadLog, SendChunk, WriteLog, WriteUnlock, DumpUnlock, SeekIoctl,
                mainVars, listVars
  <1>7. ASSUME NEW c \in Clients, NEW m, Leave(c) \/ Send(c, m)
        PROVE  UNCHANGED <<slh_first, sle_next, thread_clients>>
    BY <1>7 DEF Leave, Send, procVars, listVars
  <1>8. ASSUME NEW t \in Threads, Sigpipe(t)
        PROVE  UNCHANGED <<slh_first, sle_next, thread_clients>>
    BY <1>8 DEF Sigpipe, listVars
  <1>9. CASE Signal \/ Accept
    BY <1>3, <1>9 DEF Signal, Accept, procVars, listVars
  <1> QED
    BY <1>3, <1>4, <1>5, <1>6, <1>7, <1>8, <1>9 DEF Next

LEMMA NextSmall ==
  ASSUME ListInv, ListInv', DataOK, SmallOK, [Next]_vars
  PROVE  SmallOK'
  <1>1. /\ thread_clients' \in Nat
        /\ slh_first' \in Threads \cup {NULL}
        /\ sle_next' \in [Threads -> Threads \cup {NULL}]
    <2>1. CASE ~Running'
      BY <2>1, ListRests DEF SmallOK
    <2>2. CASE Running'
      <3>1. PICK l : Lists(l)'
        BY <2>2 DEF ListInv, ListOK
      <3>2. /\ l \in Seq(Threads)
            /\ slh_first' = IF l = <<>> THEN NULL ELSE l[1]
            /\ sle_next' \in [Threads -> Threads \cup {NULL}]
            /\ ~MainAt("join")' => thread_clients' = Len(l)
        BY <3>1 DEF Lists, Links
      <3>3. thread_clients' \in Nat
        BY <3>2, ListRests DEF SmallOK
      <3>4. l # <<>> => l[1] \in Threads
        BY <3>2
      <3> QED
        BY <3>2, <3>3, <3>4
    <2> QED
      BY <2>1, <2>2
  <1>2. ASSUME UNCHANGED <<node, lockVars>>, sig_triggered' \in BOOLEAN,
               peer' \in [Clients -> {"new", "here", "gone"}]
        PROVE  SmallOK'
    BY <1>1, <1>2 DEF SmallOK, lockVars
  <1>3. /\ node \in BOOLEAN /\ destroyed \in BOOLEAN /\ sig_triggered \in BOOLEAN
        /\ peer \in [Clients -> {"new", "here", "gone"}]
        /\ write_lock \in Threads \cup {NoThread}
    BY DEF SmallOK
  <1>4. ASSUME NEW c \in Clients, NEW m, Leave(c) \/ Send(c, m)
        PROVE  SmallOK'
    <2>1. UNCHANGED <<node, lockVars, sig_triggered>>
      BY <1>4 DEF Leave, Send, devVars, procVars
    <2>2. peer' \in [Clients -> {"new", "here", "gone"}]
      BY <1>3, <1>4 DEF Leave, Send
    <2> QED
      BY <1>2, <1>3, <2>1, <2>2
  <1>5. CASE Signal \/ UNCHANGED vars
    BY <1>2, <1>3, <1>5 DEF Signal, vars, devVars, netVars, procVars
  <1>6. CASE Accept
    <2>1. UNCHANGED <<node, lockVars, sig_triggered>>
      BY <1>6 DEF Accept, devVars
    <2>2. peer' \in [Clients -> {"new", "here", "gone"}]
      BY <1>3, <1>6, AcceptData
    <2> QED
      BY <1>2, <1>3, <2>1, <2>2
  <1>7. CASE MainStep
    <2>1. CASE RemoveFile
      BY <1>1, <1>3, <2>1 DEF RemoveFile, SmallOK, netVars, lockVars
    <2>2. CASE DestroyLock
      BY <1>1, <1>3, <2>2 DEF DestroyLock, SmallOK, netVars, devVars
    <2>3. CASE UNCHANGED <<node, lockVars, sig_triggered, peer>>
      BY <1>2, <1>3, <2>3
    <2> QED
      BY <1>7, <2>1, <2>2, <2>3
         DEF MainStep, Socket, Bind, make_daemon, Listen, StartFails, PollSignal, Create,
             CreateFails, MallocFails, add_thread, Maintain, MaintainEnd, CloseListen,
             JoinFirst, Exit, devVars, netVars
  <1>8. ASSUME NEW t \in Threads, ThreadStep(t) PROVE SmallOK'
    <2>1. UNCHANGED <<node, sig_triggered, peer>>
      BY <1>8 DEF ThreadStep, Read, CloseConn, LogPeer, Lock, OpenLog, TestLog, CloseLog,
                  ReadLog, ReadTakes, SendChunk, WriteLog, WriteUnlock, DumpUnlock,
                  SeekIoctl, devVars, netVars, mainVars
    <2>2. CASE Lock(t) \/ WriteUnlock(t) \/ DumpUnlock(t)
      <3>1. destroyed' = destroyed /\ write_lock' \in Threads \cup {NoThread}
        BY <1>3, <2>2 DEF Lock, WriteUnlock, DumpUnlock, Unlock
      <3> QED
        BY <1>1, <1>3, <2>1, <3>1 DEF SmallOK
    <2>3. CASE UNCHANGED lockVars
      BY <1>2, <1>3, <2>1, <2>3
    <2> QED
      BY <1>8, <2>2, <2>3
         DEF ThreadStep, Read, CloseConn, LogPeer, OpenLog, TestLog, CloseLog, ReadLog,
             SendChunk, WriteLog, SeekIoctl
  <1>9. ASSUME NEW t \in Threads, Sigpipe(t) PROVE SmallOK'
    BY <1>2, <1>3, <1>9 DEF Sigpipe, devVars, netVars
  <1> QED
    BY <1>4, <1>5, <1>6, <1>7, <1>8, <1>9 DEF Next

LEMMA InitSmall == Init => SmallOK
  <1> SUFFICES ASSUME Init PROVE SmallOK
    OBVIOUS
  <1>1. node = TRUE /\ destroyed = FALSE /\ sig_triggered = FALSE
    BY DEF Init
  <1>2. node \in BOOLEAN /\ destroyed \in BOOLEAN /\ sig_triggered \in BOOLEAN
    BY <1>1
  <1>3. peer \in [Clients -> {"new", "here", "gone"}]
    BY DEF Init
  <1>4. write_lock \in Threads \cup {NoThread} /\ slh_first \in Threads \cup {NULL}
    BY DEF Init
  <1>5. sle_next \in [Threads -> Threads \cup {NULL}] /\ thread_clients \in Nat
    BY DEF Init
  <1> QED
    BY <1>2, <1>3, <1>4, <1>5 DEF SmallOK

\* Everything that was shown so far holds together.
ServerInv == LockInv /\ ListInv /\ FdsInv /\ DataOK

LEMMA ServerInvHolds == Spec => []ServerInv
  <1>1. Init => ServerInv
    BY InitLock, InitList, InitFds, InitData DEF ServerInv
  <1>2. ServerInv /\ [Next]_vars => ServerInv'
    BY NextLock, NextList, NextFds, NextData DEF ServerInv
  <1> QED
    BY <1>1, <1>2, PTL DEF Spec

\* Every state of the threaded server has the types declared for it.
THEOREM ServerTypeCorrect == Spec => []TypeOK
  <1>1. Init => SmallOK
    BY InitSmall
  <1>2. ServerInv /\ ServerInv' /\ SmallOK /\ [Next]_vars => SmallOK'
    BY NextSmall DEF ServerInv
  <1>3. ServerInv /\ SmallOK => TypeOK
    BY TypesFromParts DEF ServerInv, FdsInv
  <1> QED
    BY <1>1, <1>2, <1>3, ServerInvHolds, PTL DEF Spec

-----------------------------------------------------------------------------
(***************************************************************************)
(* The answers.                                                            *)
(***************************************************************************)

\* While clients take turns log_fd stands for the device where it is used, and
\* no thread takes the device for its connection.
LogTaken ==
  Running /\ ~overlapped =>
    \A t \in Threads : UsesLog(t) => log_fd \in Fds /\ fds[log_fd].kind = "log"

ConnTaken ==
  Running /\ ~overlapped =>
    \A t \in Serving : Open(td[t].fd).kind # "log"

LEMMA LogIsTaken ==
  /\ FdsInv => LogTaken
  /\ FdsInv' => LogTaken'
  <1>1. ASSUME FdsInv PROVE LogTaken
    <2> SUFFICES ASSUME Running, ~overlapped, NEW t \in Threads, UsesLog(t)
                 PROVE  log_fd \in Fds /\ fds[log_fd].kind = "log"
      BY DEF LogTaken
    <2>1. Owned
      BY <1>1 DEF FdsInv
    <2> DEFINE d == <<"log", log_fd, NULL>>
    <2>2. d \in Duties
      BY DutiesParts, LogUsers DEF Parts, LogDuty
    <2>3. d[1] = "log" /\ d[2] = log_fd
      OBVIOUS
    <2> HIDE DEF d
    <2> QED
      BY <2>1, <2>2, <2>3 DEF Owned
  <1>2. ASSUME FdsInv' PROVE LogTaken'
    <2> SUFFICES ASSUME Running', ~overlapped', NEW t \in Threads, UsesLog(t)'
                 PROVE  log_fd' \in Fds /\ fds'[log_fd'].kind = "log"
      BY DEF LogTaken
    <2>1. Owned'
      BY <1>2 DEF FdsInv
    <2> DEFINE d == <<"log", log_fd', NULL>>
    <2>2. d \in Duties'
      <3>1. LogIsOpen'
        BY LogUsers
      <3> QED
        BY <3>1, DutiesParts DEF Parts, LogDuty
    <2>3. d[1] = "log" /\ d[2] = log_fd'
      OBVIOUS
    <2> HIDE DEF d
    <2> QED
      BY <2>1, <2>2, <2>3 DEF Owned
  <1> QED
    BY <1>1, <1>2

LEMMA ConnIsTaken == FdsInv => ConnTaken
  <1> SUFFICES ASSUME FdsInv, Running, ~overlapped, NEW t \in Serving
               PROVE  Open(td[t].fd).kind # "log"
    BY DEF ConnTaken
  <1>1. Owned
    BY DEF FdsInv
  <1>2. CASE td[t].fd = -1
    BY <1>2 DEF Open, Free
  <1>3. CASE td[t].fd # -1
    <2> DEFINE d == <<"conn", td[t].fd, t>>
    <2>1. d \in Duties
      BY <1>3, DutiesParts DEF Parts, ConnDuties
    <2>2. d[1] = "conn" /\ d[2] = td[t].fd
      OBVIOUS
    <2> HIDE DEF d
    <2>3. td[t].fd \in Fds /\ fds[td[t].fd].kind = "conn"
      BY <1>1, <2>1, <2>2 DEF Owned
    <2> QED
      BY <2>3 DEF Open
  <1> QED
    BY <1>2, <1>3

LEMMA ServesWhileIn ==
  ASSUME BlocksOK, NEW t \in Threads, thr[t].pc \notin {"none", "log_peer", "ended"}
  PROVE  t \in Serving
  BY DEF BlocksOK, Serving

LEMMA OutsideAnswers ==
  ASSUME NEW t \in Threads, thr'[t].pc \in Outside
  PROVE  Answering(t)'
  BY DEF Answering, Outside, AnswerPending, DumpPCs

\* A step that leaves the device and its position alone.
LEMMA QuietAnswers ==
  ASSUME NEW u \in Threads, Answering(u), thr'[u] = thr[u],
         UNCHANGED <<circular_buf, log_fd>>,
         UsesLog(u) => fds'[log_fd].pos = fds[log_fd].pos
  PROVE  Answering(u)'
  <1>1. Content' = Content /\ (Stored' <=> Stored)
    BY DEF Content, Contents, Stored
  <1>2. SeekToPosition(Head(thr[u].buf))' = SeekToPosition(Head(thr[u].buf))
    BY DEF SeekToPosition, SeekPosition
  <1>3. /\ thr[u].pc \in {"d_read", "d_send", "s_read", "s_send"} => UsesLog(u)
        /\ thr[u].pc = "d_test" /\ log_fd # -1 => UsesLog(u)
    BY DEF UsesLog, LogPCs, TestPCs
  <1> DEFINE from == SeekToPosition(Head(thr[u].buf))
  <1>4. thr[u].pc \in {"d_read", "d_send"} => ReadFrom(u, 0)'
    BY <1>1, <1>3 DEF Answering, ReadFrom
  <1>5. thr[u].pc \in {"s_read", "s_send"} => ReadFrom(u, from)'
    <2>1. from' = from
      BY <1>2
    <2> HIDE DEF from
    <2>2. thr[u].pc \in {"s_read", "s_send"} => ReadFrom(u, from)
      BY DEF Answering, from
    <2> QED
      BY <1>1, <1>3, <2>1, <2>2 DEF ReadFrom
  <1> QED
    BY <1>1, <1>2, <1>3, <1>4, <1>5 DEF Answering

\* The new record of a thread.
LEMMA ToRecord ==
  ASSUME ThreadsTyped, NEW t \in Threads, NEW pc, To(t, pc)
  PROVE  /\ thr'[t].pc = pc /\ thr'[t].buf = thr[t].buf
         /\ thr'[t].ok = thr[t].ok /\ thr'[t].answer = thr[t].answer
  <1>1. thr[t] \in ThreadRecords /\ DOMAIN thr = Threads
    BY DEF ThreadsTyped
  <1> DEFINE r == [thr[t] EXCEPT !.pc = pc]
  <1>2. r.pc = pc /\ r.buf = thr[t].buf /\ r.ok = thr[t].ok /\ r.answer = thr[t].answer
    BY <1>1 DEF ThreadRecords
  <1>3. thr' = [thr EXCEPT ![t] = r]
    BY DEF To, Become
  <1> HIDE DEF r
  <1> QED
    BY <1>1, <1>2, <1>3

LEMMA BecomeRecord ==
  ASSUME ThreadsTyped, NEW t \in Threads, NEW r, Become(t, r)
  PROVE  thr'[t] = r
  BY DEF ThreadsTyped, Become

LEMMA ReadAnswers ==
  ASSUME DataOK, NEW t \in Threads, Read(t)
  PROVE  Answering(t)'
  <1> DEFINE bytes == ReadGets(td[t].fd, BUFFSIZE)
             pc == IF IsSeek(bytes) THEN "s_open" ELSE "w_lock"
             r == [NoThr EXCEPT !.pc = pc, !.buf = bytes]
  <1>1. CASE bytes = <<>>
    <2>1. To(t, "close")
      BY <1>1 DEF Read
    <2>2. thr'[t].pc = "close"
      BY <2>1, ToRecord DEF DataOK
    <2> QED
      BY <2>2, OutsideAnswers DEF Outside
  <1>2. CASE bytes # <<>>
    <2>1. Become(t, r)
      BY <1>2 DEF Read
    <2>2. pc \in {"s_open", "w_lock"}
      OBVIOUS
    <2> HIDE DEF pc, bytes
    <2>3. r.pc = pc /\ r.answer = <<>>
      BY DEF NoThr
    <2> HIDE DEF r
    <2>4. thr'[t] = r
      BY <2>1, BecomeRecord DEF DataOK
    <2>5. thr'[t].pc \in {"s_open", "w_lock"} /\ thr'[t].answer = <<>>
      BY <2>2, <2>3, <2>4
    <2> QED
      BY <2>5 DEF Answering, DumpPCs
  <1> QED
    BY <1>1, <1>2

LEMMA LockAnswers ==
  ASSUME DataOK, NEW t \in Threads, Answering(t), Lock(t)
  PROVE  Answering(t)'
  <1>1. thr[t].pc \in {"w_lock", "d_lock"} /\ UNCHANGED circular_buf
    BY DEF Lock, devVars
  <1>2. /\ thr[t].answer = <<>>
        /\ thr[t].pc = "d_lock" => Stored
    BY <1>1 DEF Answering, AnswerPending, DumpPCs
  <1>3. \/ thr'[t].pc = (IF thr[t].pc = "w_lock" THEN "w_open" ELSE "d_open")
        \/ thr'[t].pc = "read"
    BY ToRecord DEF Lock, At, DataOK
  <1>4. thr'[t].answer = thr[t].answer
    BY ToRecord DEF Lock, DataOK
  <1>5. Stored' <=> Stored
    BY <1>1 DEF Stored
  <1>6. CASE thr'[t].pc = "read"
    BY <1>6, OutsideAnswers DEF Outside
  <1>7. CASE thr'[t].pc = "w_open"
    BY <1>2, <1>4, <1>7 DEF Answering, DumpPCs
  <1>8. CASE thr'[t].pc = "d_open" /\ thr[t].pc = "d_lock"
    BY <1>2, <1>4, <1>5, <1>8 DEF Answering
  <1> QED
    BY <1>1, <1>3, <1>6, <1>7, <1>8

LEMMA OpenAnswers ==
  ASSUME DataOK, NEW t \in Threads, Answering(t), OpenLog(t)
  PROVE  Answering(t)'
  <1>1. /\ thr[t].pc \in {"w_open", "d_open", "s_open"} /\ UNCHANGED circular_buf
        /\ log_fd' = IF node THEN NewFd ELSE -1
        /\ IF log_fd' = -1 THEN UNCHANGED fds ELSE SetFd(log_fd', LogAt(0))
    BY DEF OpenLog, devVars
  <1>2. /\ thr[t].answer = <<>>
        /\ thr[t].pc = "d_open" => Stored
    BY <1>1 DEF Answering, AnswerPending, DumpPCs
  <1>3. /\ thr'[t].pc = IF thr[t].pc = "w_open" THEN "w_test"
                        ELSE IF thr[t].pc = "d_open" THEN "d_test" ELSE "s_test"
        /\ thr'[t].answer = thr[t].answer
    <2> DEFINE pc == CASE At(t, "w_open") -> "w_test"
                       [] At(t, "d_open") -> "d_test"
                       [] At(t, "s_open") -> "s_test"
    <2>1. To(t, pc)
      BY DEF OpenLog
    <2>2. pc = IF thr[t].pc = "w_open" THEN "w_test"
               ELSE IF thr[t].pc = "d_open" THEN "d_test" ELSE "s_test"
      BY <1>1 DEF At
    <2> HIDE DEF pc
    <2> QED
      BY <2>1, <2>2, ToRecord DEF DataOK
  <1>4. Stored' <=> Stored
    BY <1>1 DEF Stored
  <1>5. log_fd' # -1 => fds'[log_fd'].pos = 0
    <2> SUFFICES ASSUME log_fd' # -1 PROVE fds'[log_fd'].pos = 0
      OBVIOUS
    <2>1. NewFd # -1 /\ log_fd' = NewFd /\ SetFd(log_fd', LogAt(0))
      BY <1>1
    <2>2. NewFd \in Fds
      BY <2>1, NewFdFree
    <2>3. fds'[log_fd'] = LogAt(0)
      BY <2>1, <2>2, SetFdTable
    <2> QED
      BY <2>3 DEF LogAt
  <1>6. CASE thr[t].pc = "d_open"
    BY <1>2, <1>3, <1>4, <1>5, <1>6 DEF Answering
  <1>7. CASE thr[t].pc # "d_open"
    <2>1. thr'[t].pc \in {"w_test", "s_test"}
      BY <1>1, <1>3, <1>7
    <2> QED
      BY <1>2, <1>3, <2>1 DEF Answering, DumpPCs
  <1> QED
    BY <1>6, <1>7

LEMMA TestAnswers ==
  ASSUME DataOK, log_fd \in Numbers, NEW t \in Threads, Answering(t), TestLog(t)
  PROVE  Answering(t)'
  <1>1. thr[t].pc \in {"w_test", "d_test", "s_test"}
        /\ UNCHANGED <<circular_buf, fds, log_fd>>
    BY DEF TestLog, devVars
  <1>2. /\ thr[t].answer = <<>>
        /\ thr[t].pc = "d_test" => Stored
        /\ thr[t].pc = "d_test" /\ log_fd # -1 => fds[log_fd].pos = 0
    BY <1>1 DEF Answering, AnswerPending, DumpPCs
  <1>3. /\ thr'[t].pc = IF thr[t].pc = "w_test"
                        THEN IF log_fd < 0 THEN "read" ELSE "w_write"
                        ELSE IF thr[t].pc = "d_test"
                        THEN IF log_fd < 0 THEN "d_unlock" ELSE "d_read"
                        ELSE IF log_fd < 0 THEN "read" ELSE "s_ioctl"
        /\ thr'[t].answer = thr[t].answer
    <2> DEFINE pc == CASE At(t, "w_test") -> IF log_fd < 0 THEN "read" ELSE "w_write"
                       [] At(t, "d_test") -> IF log_fd < 0 THEN "d_unlock" ELSE "d_read"
                       [] At(t, "s_test") -> IF log_fd < 0 THEN "read" ELSE "s_ioctl"
    <2>1. To(t, pc)
      BY DEF TestLog
    <2>2. pc = IF thr[t].pc = "w_test" THEN IF log_fd < 0 THEN "read" ELSE "w_write"
               ELSE IF thr[t].pc = "d_test"
               THEN IF log_fd < 0 THEN "d_unlock" ELSE "d_read"
               ELSE IF log_fd < 0 THEN "read" ELSE "s_ioctl"
      BY <1>1 DEF At
    <2> HIDE DEF pc
    <2> QED
      BY <2>1, <2>2, ToRecord DEF DataOK
  <1>4. Stored' <=> Stored
    BY <1>1 DEF Stored
  <1>5. CASE thr'[t].pc = "d_read"
    <2>1. thr[t].pc = "d_test" /\ ~(log_fd < 0)
      BY <1>1, <1>3, <1>5
    <2>2. log_fd # -1
      BY <2>1
    <2>3. fds'[log_fd'].pos = 0 /\ thr'[t].answer = <<>> /\ Stored'
      BY <1>1, <1>2, <1>3, <1>4, <2>1, <2>2
    <2>4. Content' \in Text
      <3>1. Content' = Content
        BY <1>1 DEF Content
      <3> QED
        BY <3>1, ContentLines DEF DataOK
    <2>5. SubSeq(Content', 0 + 1, 0) = <<>>
      BY <2>4 DEF Text
    <2>6. ReadFrom(t, 0)'
      BY <2>3, <2>5 DEF ReadFrom
    <2> QED
      BY <1>5, <2>3, <2>6 DEF Answering, AnswerPending
  <1>6. CASE thr'[t].pc # "d_read"
    <2>1. thr'[t].pc \in {"read", "w_write", "d_unlock", "s_ioctl"}
      BY <1>3, <1>6
    <2> QED
      BY <1>2, <1>3, <2>1 DEF Answering, AnswerPending, DumpPCs
  <1> QED
    BY <1>5, <1>6

LEMMA CloseAnswers ==
  ASSUME DataOK, NEW t \in Threads, Answering(t), CloseLog(t)
  PROVE  Answering(t)'
  <1>1. thr[t].pc \in {"w_close", "d_close", "s_close"} /\ UNCHANGED circular_buf
    BY DEF CloseLog, devVars
  <1> DEFINE stored == thr[t].ok /\ Contains(thr[t].buf, NL)
  <1>2. /\ thr'[t].pc = IF thr[t].pc = "w_close"
                        THEN IF stored THEN "d_lock" ELSE "read"
                        ELSE IF thr[t].pc = "d_close" THEN "d_unlock" ELSE "read"
        /\ thr'[t].answer = thr[t].answer
    <2> DEFINE pc == CASE At(t, "w_close") -> IF stored THEN "d_lock" ELSE "read"
                       [] At(t, "d_close") -> "d_unlock"
                       [] At(t, "s_close") -> "read"
    <2>1. To(t, pc)
      BY DEF CloseLog
    <2> HIDE DEF stored
    <2>2. pc = IF thr[t].pc = "w_close" THEN IF stored THEN "d_lock" ELSE "read"
               ELSE IF thr[t].pc = "d_close" THEN "d_unlock" ELSE "read"
      BY <1>1 DEF At
    <2> HIDE DEF pc
    <2> QED
      BY <2>1, <2>2, ToRecord DEF DataOK
  <1>3. Stored' <=> Stored
    BY <1>1 DEF Stored
  <1>4. CASE thr'[t].pc = "d_lock"
    <2>1. thr[t].pc = "w_close" /\ stored
      <3> HIDE DEF stored
      <3> QED
        BY <1>2, <1>4
    <2>2. Stored /\ thr[t].answer = <<>>
      BY <2>1 DEF Answering, AnswerPending
    <2> QED
      BY <1>2, <1>3, <1>4, <2>2 DEF Answering
  <1>5. CASE thr'[t].pc # "d_lock"
    <2>1. thr'[t].pc \in {"read", "d_unlock"}
      <3> HIDE DEF stored
      <3> QED
        BY <1>2, <1>5
    <2> QED
      BY <2>1 DEF Answering, AnswerPending, DumpPCs
  <1> QED
    BY <1>4, <1>5

\* One turn of the loop that reads the device.
LEMMA TurnReads ==
  ASSUME DataOK, log_fd \in Fds, fds[log_fd].kind = "log", NEW t \in Threads,
         NEW from \in Nat, ReadFrom(t, from)
  PROVE  LET bytes == ReadGets(log_fd, BUFFSIZE)
             pos == fds[log_fd].pos
             answer == thr[t].answer \o bytes
         IN  /\ bytes = <<>> => answer = SubSeq(Content, from + 1, Len(Content))
             /\ bytes # <<>> =>
                  /\ from <= pos + Len(bytes) /\ pos + Len(bytes) <= Len(Content)
                  /\ answer = SubSeq(Content, from + 1, pos + Len(bytes))
  <1> DEFINE bytes == ReadGets(log_fd, BUFFSIZE)
             pos == fds[log_fd].pos
             answer == thr[t].answer
             l == Len(Content)
  <1>1. Open(log_fd) = fds[log_fd]
    BY DEF Open
  <1>2. Open(log_fd).kind = "log" /\ Open(log_fd).pos = pos
    BY <1>1
  <1>3. /\ bytes \in Seq(Chars)
        /\ bytes = <<>> => l <= pos
        /\ bytes # <<>> => /\ pos + Len(bytes) <= l
                           /\ bytes = SubSeq(Content, pos + 1, pos + Len(bytes))
    BY <1>2, LogReads DEF DataOK, Text
  <1>4. pos \in Nat
    BY <1>2, LogFile DEF DataOK
  <1>5. Content \in Seq(Chars) /\ l \in Nat
    BY ContentLines DEF DataOK, Text
  <1>6. /\ from <= pos
        /\ pos = from \/ pos <= l
        /\ answer = SubSeq(Content, from + 1, pos)
    BY DEF ReadFrom
  <1> HIDE DEF pos, bytes, answer
  <1>7. CASE bytes = <<>>
    <2>1. SubSeq(Content, from + 1, pos) = SubSeq(Content, from + 1, l)
      <3>1. CASE pos = l
        BY <3>1
      <3>2. CASE pos # l
        <4>1. pos = from /\ l <= from
          BY <1>3, <1>4, <1>5, <1>6, <1>7, <3>2
        <4> HIDE DEF l
        <4>2. SubSeq(Content, from + 1, from) = <<>>
          BY <1>5
        <4>3. SubSeq(Content, from + 1, l) = <<>>
          BY <1>5, <4>1
        <4> QED
          BY <4>1, <4>2, <4>3
      <3> QED
        BY <3>1, <3>2
    <2>2. answer \in Seq(Chars)
      BY DEF DataOK, ThreadsTyped, ThreadRecords, Text, answer
    <2>3. answer \o bytes = answer
      BY <1>7, <2>2
    <2> QED
      BY <1>6, <1>7, <2>1, <2>3 DEF bytes, answer
  <1>8. CASE bytes # <<>>
    <2> DEFINE z == pos + Len(bytes)
    <2>1. z \in Nat /\ pos <= z /\ z <= l /\ from <= z
      <3>1. Len(bytes) \in Nat
        BY <1>3
      <3> QED
        BY <1>3, <1>4, <1>6, <1>8, <3>1
    <2>2. bytes = SubSeq(Content, pos + 1, z)
      BY <1>3, <1>8
    <2> HIDE DEF z
    <2>3. answer \o bytes = SubSeq(Content, from + 1, z)
      BY <1>4, <1>5, <1>6, <2>1, <2>2, SlicesMeet, SMTT(30)
    <2> QED
      BY <1>8, <2>1, <2>3 DEF bytes, answer, pos, z
  <1> QED
    BY <1>7, <1>8

\* What a line is answered with, and what a seek command.
LEMMA SeekNamed ==
  ASSUME DataOK, NEW t \in Threads, thr[t].pc \in SeekPCs
  PROVE  SeekToPosition(Head(thr[t].buf)) \in Nat
  <1>1. Head(thr[t].buf) \in SeekTos
    BY DEF DataOK, SeeksNamed, IsSeek
  <1> QED
    BY <1>1, SeekToNat DEF DataOK

LEMMA ReadLogAnswers ==
  ASSUME DataOK, log_fd \in Fds, fds[log_fd].kind = "log", NEW t \in Threads,
         Answering(t), ReadLog(t)
  PROVE  /\ Answering(t)'
         /\ thr'[t].pc = "d_close" => thr'[t].answer = Content /\ Stored
         /\ thr'[t].pc = "s_close" =>
              thr'[t].answer = SubSeq(Content, SeekToPosition(Head(thr[t].buf)) + 1,
                                      Len(Content))
  <1> DEFINE bytes == ReadGets(log_fd, BUFFSIZE)
             pos == fds[log_fd].pos
             next == pos + Len(bytes)
             answer == thr[t].answer \o bytes
             pc == IF bytes = <<>>
                   THEN IF thr[t].pc = "d_read" THEN "d_close" ELSE "s_close"
                   ELSE IF thr[t].pc = "d_read" THEN "d_send" ELSE "s_send"
             r == [thr[t] EXCEPT !.pc = pc, !.tmpbuf = bytes, !.answer = @ \o bytes]
             from == SeekToPosition(Head(thr[t].buf))
  <1>1. /\ ReadTakes(log_fd, bytes) /\ UNCHANGED <<circular_buf, log_fd>>
        /\ thr[t].pc \in {"d_read", "s_read"} /\ Become(t, r)
    BY DEF ReadLog, devVars
  <1>2. thr[t] \in ThreadRecords
    BY DEF DataOK, ThreadsTyped
  <1>3. Open(log_fd) = fds[log_fd]
    BY DEF Open
  <1>4. fds'[log_fd] = LogAt(next)
    <2>1. SetFd(log_fd, LogAt(next))
      BY <1>1, <1>3 DEF ReadTakes
    <2> HIDE DEF next
    <2> QED
      BY <2>1, SetFdTable
  <1>5. fds'[log_fd'].pos = next
    BY <1>1, <1>4 DEF LogAt
  <1>6. Content' = Content /\ (Stored' <=> Stored)
    BY <1>1 DEF Content, Contents, Stored
  <1> HIDE DEF pc, bytes, next, from
  <1>7. r.pc = pc /\ r.buf = thr[t].buf /\ r.answer = answer
    BY <1>2 DEF ThreadRecords
  <1> HIDE DEF r, answer
  <1>8. thr'[t].pc = pc /\ thr'[t].buf = thr[t].buf /\ thr'[t].answer = answer
    BY <1>1, <1>7, BecomeRecord DEF DataOK
  <1>9. from' = from
    BY <1>1, <1>8 DEF from, SeekToPosition, SeekPosition
  <1>10. CASE thr[t].pc = "d_read"
    <2>1. ReadFrom(t, 0) /\ Stored
      BY <1>10 DEF Answering, DumpPCs
    <2>2. /\ bytes = <<>> => answer = SubSeq(Content, 0 + 1, Len(Content))
          /\ bytes # <<>> => 0 <= next /\ next <= Len(Content)
                             /\ answer = SubSeq(Content, 0 + 1, next)
      BY <2>1, TurnReads DEF bytes, next, answer
    <2>3. CASE bytes = <<>>
      <3>1. pc = "d_close"
        BY <1>10, <2>3 DEF pc
      <3>2. SubSeq(Content, 0 + 1, Len(Content)) = Content
        BY ContentLines DEF DataOK, Text
      <3>3. answer = Content
        BY <2>2, <2>3, <3>2
      <3> QED
        BY <1>6, <1>8, <2>1, <3>1, <3>3 DEF Answering, AnswerPending
    <2>4. CASE bytes # <<>>
      <3>1. pc = "d_send"
        BY <1>10, <2>4 DEF pc
      <3>2. ReadFrom(t, 0)'
        BY <1>5, <1>6, <1>8, <2>2, <2>4 DEF ReadFrom
      <3> QED
        BY <1>6, <1>8, <2>1, <3>1, <3>2 DEF Answering, AnswerPending
    <2> QED
      BY <2>3, <2>4
  <1>11. CASE thr[t].pc = "s_read"
    <2>1. ReadFrom(t, from)
      BY <1>11 DEF Answering, from
    <2>2. from \in Nat
      BY <1>11, SeekNamed DEF from, SeekPCs
    <2>3. /\ bytes = <<>> => answer = SubSeq(Content, from + 1, Len(Content))
          /\ bytes # <<>> => from <= next /\ next <= Len(Content)
                             /\ answer = SubSeq(Content, from + 1, next)
      BY <2>1, <2>2, TurnReads DEF bytes, next, answer
    <2>4. CASE bytes = <<>>
      <3>1. pc = "s_close"
        BY <1>11, <2>4 DEF pc
      <3>2. Answering(t)'
        BY <1>8, <3>1 DEF Answering, AnswerPending, DumpPCs
      <3> QED
        BY <1>8, <2>3, <2>4, <3>1, <3>2 DEF from
    <2>5. CASE bytes # <<>>
      <3>1. pc = "s_send"
        BY <1>11, <2>5 DEF pc
      <3>2. ReadFrom(t, from)'
        BY <1>5, <1>6, <1>8, <1>9, <2>3, <2>5 DEF ReadFrom
      <3>3. ReadFrom(t, SeekToPosition(Head(thr[t].buf)))'
        BY <3>2 DEF from
      <3> QED
        BY <1>8, <3>1, <3>3 DEF Answering, AnswerPending, DumpPCs
    <2> QED
      BY <2>4, <2>5
  <1> QED
    BY <1>1, <1>10, <1>11

LEMMA SendAnswers ==
  ASSUME DataOK, NEW t \in Threads, Open(td[t].fd).kind # "log", Answering(t), SendChunk(t)
  PROVE  Answering(t)'
  <1> DEFINE pc == IF thr[t].pc = "d_send" THEN "d_read" ELSE "s_read"
             r == [thr[t] EXCEPT !.pc = pc, !.tmpbuf = <<>>]
             from == SeekToPosition(Head(thr[t].buf))
  <1>1. /\ UNCHANGED <<fds, log_fd>>
        /\ thr[t].pc \in {"d_send", "s_send"} /\ Become(t, r)
    BY DEF SendChunk
  <1>2. thr[t] \in ThreadRecords
    BY DEF DataOK, ThreadsTyped
  <1>3. UNCHANGED circular_buf
    <2>1. PICK ok \in BOOLEAN : WritePuts(td[t].fd, thr[t].tmpbuf, ok)
      BY DEF SendChunk
    <2>2. thr[t].tmpbuf \in Text
      BY <1>2 DEF ThreadRecords
    <2> QED
      BY <2>1, <2>2, WritePutsKeeps
  <1>4. Content' = Content /\ (Stored' <=> Stored)
    BY <1>3 DEF Content, Contents, Stored
  <1> HIDE DEF pc, from
  <1>5. r.pc = pc /\ r.buf = thr[t].buf /\ r.answer = thr[t].answer
    BY <1>2 DEF ThreadRecords
  <1> HIDE DEF r
  <1>6. thr'[t].pc = pc /\ thr'[t].buf = thr[t].buf /\ thr'[t].answer = thr[t].answer
    BY <1>1, <1>5, BecomeRecord DEF DataOK
  <1>7. from' = from
    BY <1>3, <1>6 DEF from, SeekToPosition, SeekPosition
  <1>8. CASE thr[t].pc = "d_send"
    <2>1. ReadFrom(t, 0) /\ Stored
      BY <1>8 DEF Answering, DumpPCs
    <2>2. ReadFrom(t, 0)'
      BY <1>1, <1>4, <1>6, <2>1 DEF ReadFrom
    <2>3. thr'[t].pc = "d_read"
      BY <1>6, <1>8 DEF pc
    <2> QED
      BY <1>4, <2>1, <2>2, <2>3 DEF Answering, AnswerPending
  <1>9. CASE thr[t].pc = "s_send"
    <2>1. ReadFrom(t, from)
      BY <1>9 DEF Answering, from
    <2>2. ReadFrom(t, from)'
      BY <1>1, <1>4, <1>6, <1>7, <2>1 DEF ReadFrom
    <2>3. ReadFrom(t, SeekToPosition(Head(thr[t].buf)))'
      BY <2>2 DEF from
    <2>4. thr'[t].pc = "s_read"
      BY <1>6, <1>9 DEF pc
    <2> QED
      BY <2>3, <2>4 DEF Answering, AnswerPending, DumpPCs
  <1> QED
    BY <1>1, <1>8, <1>9

LEMMA WriteAnswers ==
  ASSUME DataOK, Open(log_fd).kind = "log", NEW t \in Threads, Answering(t), WriteLog(t)
  PROVE  Answering(t)'
  <1>1. thr[t].pc = "w_write"
    BY DEF WriteLog, At
  <1>2. PICK ok \in BOOLEAN : /\ WritePuts(log_fd, thr[t].buf, ok)
                              /\ Become(t, [thr[t] EXCEPT !.pc = "w_unlock", !.ok = ok])
    BY DEF WriteLog
  <1> DEFINE r == [thr[t] EXCEPT !.pc = "w_unlock", !.ok = ok]
  <1>3. thr[t] \in ThreadRecords
    BY DEF DataOK, ThreadsTyped
  <1>4. /\ r.pc = "w_unlock" /\ r.buf = thr[t].buf /\ r.ok = ok
        /\ r.answer = thr[t].answer
    BY <1>3 DEF ThreadRecords
  <1>5. Become(t, r)
    BY <1>2
  <1> HIDE DEF r
  <1>6. thr'[t] = r
    BY <1>5, BecomeRecord DEF DataOK
  <1>7. ok /\ Contains(thr[t].buf, NL) => Stored'
    <2>1. thr[t].buf \in Text
      BY <1>3 DEF ThreadRecords
    <2> QED
      BY <1>2, <2>1, WritePutsKeeps
  <1>8. thr[t].answer = <<>>
    BY <1>1 DEF Answering, AnswerPending
  <1>9. r.ok /\ Contains(r.buf, NL) => Stored'
    BY <1>4, <1>7
  <1> QED
    BY <1>4, <1>6, <1>8, <1>9 DEF Answering, DumpPCs

LEMMA UnlockAnswers ==
  ASSUME DataOK, NEW t \in Threads, Answering(t), WriteUnlock(t) \/ DumpUnlock(t)
  PROVE  Answering(t)'
  <1>1. UNCHANGED circular_buf
    BY DEF WriteUnlock, DumpUnlock, devVars
  <1>2. CASE WriteUnlock(t)
    <2>1. thr[t].pc = "w_unlock" /\ To(t, "w_close")
      BY <1>2 DEF WriteUnlock, At
    <2>2. /\ thr'[t].pc = "w_close" /\ thr'[t].buf = thr[t].buf
          /\ thr'[t].ok = thr[t].ok /\ thr'[t].answer = thr[t].answer
      BY <2>1, ToRecord DEF DataOK
    <2>3. thr[t].answer = <<>> /\ (thr[t].ok /\ Contains(thr[t].buf, NL) => Stored)
      BY <2>1 DEF Answering, AnswerPending
    <2>4. Stored' <=> Stored
      BY <1>1 DEF Stored
    <2>5. thr'[t].ok /\ Contains(thr'[t].buf, NL) => Stored'
      BY <2>2, <2>3, <2>4
    <2> QED
      BY <2>2, <2>3, <2>5 DEF Answering, DumpPCs
  <1>3. CASE DumpUnlock(t)
    <2>1. To(t, "read")
      BY <1>3 DEF DumpUnlock
    <2>2. thr'[t].pc = "read"
      BY <2>1, ToRecord DEF DataOK
    <2> QED
      BY <2>2, OutsideAnswers DEF Outside
  <1> QED
    BY <1>2, <1>3

LEMMA SeekAnswers ==
  ASSUME DataOK, log_fd \in Fds, NEW t \in Threads, Answering(t), SeekIoctl(t)
  PROVE  Answering(t)'
  <1> DEFINE from == SeekToPosition(Head(thr[t].buf))
  <1>1. /\ thr[t].pc = "s_ioctl" /\ UNCHANGED <<circular_buf, log_fd>>
        /\ \/ SetFd(log_fd, LogAt(from)) /\ To(t, "s_read")
           \/ To(t, "s_close")
    BY DEF SeekIoctl, At, devVars
  <1>2. thr[t].answer = <<>>
    BY <1>1 DEF Answering, AnswerPending
  <1>3. from \in Nat
    BY <1>1, SeekNamed DEF SeekPCs
  <1>4. Content' = Content /\ Content \in Seq(Chars)
    BY <1>1, ContentLines DEF Content, DataOK, Text
  <1> HIDE DEF from
  <1>5. CASE To(t, "s_close")
    <2>1. thr'[t].pc = "s_close"
      BY <1>5, ToRecord DEF DataOK
    <2> QED
      BY <2>1 DEF Answering, AnswerPending, DumpPCs
  <1>6. CASE SetFd(log_fd, LogAt(from)) /\ To(t, "s_read")
    <2>1. /\ thr'[t].pc = "s_read" /\ thr'[t].buf = thr[t].buf
          /\ thr'[t].answer = thr[t].answer
      BY <1>6, ToRecord DEF DataOK
    <2>2. from' = from
      BY <1>1, <2>1 DEF from, SeekToPosition, SeekPosition
    <2>3. fds'[log_fd'].pos = from
      <3>1. fds'[log_fd] = LogAt(from)
        BY <1>6, SetFdTable
      <3> QED
        BY <1>1, <3>1 DEF LogAt
    <2>4. SubSeq(Content, from + 1, from) = <<>>
      BY <1>3, <1>4
    <2>5. ReadFrom(t, from)'
      BY <1>2, <1>3, <1>4, <2>1, <2>2, <2>3, <2>4 DEF ReadFrom
    <2>6. ReadFrom(t, SeekToPosition(Head(thr[t].buf)))'
      BY <2>5 DEF from
    <2> QED
      BY <2>1, <2>6 DEF Answering, AnswerPending, DumpPCs
  <1> QED
    BY <1>1, <1>5, <1>6

-----------------------------------------------------------------------------
(***************************************************************************)
(* A step that answers one thread leaves the answers of the others alone.  *)
(***************************************************************************)
LogsKept == \A n \in Fds : fds'[n] = fds[n] \/ fds'[n].kind # "log"

LEMMA OtherAnswers ==
  ASSUME FdsInv', Running', ~overlapped', NEW u \in Threads, Answering(u),
         thr'[u] = thr[u] \/ thr'[u].pc \in Outside,
         UNCHANGED <<circular_buf, log_fd>>, LogsKept
  PROVE  Answering(u)'
  <1>1. CASE thr'[u].pc \in Outside
    BY <1>1, OutsideAnswers
  <1>2. CASE thr'[u] = thr[u]
    <2>1. ASSUME UsesLog(u) PROVE fds'[log_fd].pos = fds[log_fd].pos
      <3>1. UsesLog(u)'
        BY <1>2, <2>1 DEF UsesLog
      <3>2. log_fd' \in Fds /\ fds'[log_fd'].kind = "log"
        BY <3>1, LogIsTaken DEF LogTaken
      <3>3. log_fd \in Fds /\ fds'[log_fd].kind = "log"
        BY <3>2
      <3> QED
        BY <3>3 DEF LogsKept
    <2> QED
      BY <1>2, <2>1, QuietAnswers
  <1> QED
    BY <1>1, <1>2

\* What main and the clients do to the descriptors and the threads.
LEMMA MainKeeps ==
  ASSUME ListInv, Frame, Running, MainStep \/ Accept
  PROVE  /\ UNCHANGED <<circular_buf, log_fd>> /\ LogsKept
         /\ \A u \in Threads : thr'[u] = thr[u] \/ thr'[u].pc \in Outside
  <1>1. ThreadsOK /\ DOMAIN fds = Fds
    BY DEF ListInv, Frame
  <1>2. UNCHANGED <<circular_buf, log_fd>>
    BY DEF MainStep, Socket, Bind, make_daemon, Listen, StartFails, PollSignal, Create,
           CreateFails, MallocFails, add_thread, Maintain, MaintainEnd, CloseListen,
           RemoveFile, DestroyLock, JoinFirst, Exit, Accept, devVars
  <1>3. ASSUME NEW n, NEW file, file.kind # "log", SetFd(n, file) PROVE LogsKept
    <2>1. \A m \in Fds : fds'[m] = IF m = n THEN file ELSE fds[m]
      BY <1>3, SetFdTable
    <2> QED
      BY <1>3, <2>1 DEF LogsKept
  <1>4. /\ Free.kind # "log" /\ Listening.kind # "log"
        /\ \A c : Connected(c).kind # "log"
    BY DEF Free, Listening, Connected
  <1>5. UNCHANGED fds => LogsKept
    BY DEF LogsKept
  <1>6. LogsKept
    <2>1. CASE make_daemon
      <3>1. fds' = [n \in Fds |-> IF n \in Std THEN Free ELSE fds[n]]
        BY <2>1 DEF make_daemon
      <3> QED
        BY <1>4, <3>1 DEF LogsKept
    <2>2. CASE Accept
      <3>1. UNCHANGED fds \/ \E c : SetFd(NewFd, Connected(c))
        BY <2>2 DEF Accept
      <3> QED
        BY <1>3, <1>4, <1>5, <3>1
    <2>3. CASE Socket \/ CreateFails \/ CloseListen
      <3>1. \E n : SetFd(n, Free) \/ SetFd(n, Listening)
        BY <2>3 DEF Socket, CreateFails, CloseListen, close
      <3> QED
        BY <1>3, <1>4, <3>1
    <2>4. CASE UNCHANGED fds
      BY <1>5, <2>4
    <2> QED
      BY <2>1, <2>2, <2>3, <2>4
         DEF MainStep, Bind, Listen, StartFails, PollSignal, Create, MallocFails,
             add_thread, Maintain, MaintainEnd, RemoveFile, DestroyLock, JoinFirst, Exit
  <1>7. \A u \in Threads : thr'[u] = thr[u] \/ thr'[u].pc \in Outside
    <2>1. ASSUME NEW t \in Threads, Create(t)
          PROVE  \A u \in Threads : thr'[u] = thr[u] \/ thr'[u].pc \in Outside
      <3>1. thr' = [thr EXCEPT ![t] = [NoThr EXCEPT !.pc = "read"]]
        BY <2>1 DEF Create
      <3>2. [NoThr EXCEPT !.pc = "read"].pc \in Outside
        BY DEF NoThr, Outside
      <3> QED
        BY <1>1, <3>1, <3>2 DEF ThreadsOK
    <2>2. CASE Maintain \/ JoinFirst
      <3>1. UNCHANGED thr \/ \E t : JoinAndFree(t)
        BY <2>2 DEF Maintain, JoinFirst
      <3> QED
        BY <1>1, <3>1, JoinOutside
    <2>3. CASE UNCHANGED thr
      BY <2>3
    <2> QED
      BY <2>1, <2>2, <2>3
         DEF MainStep, Socket, Bind, make_daemon, Listen, StartFails, PollSignal,
             CreateFails, MallocFails, add_thread, MaintainEnd, CloseListen, RemoveFile,
             DestroyLock, Exit, Accept
  <1> QED
    BY <1>2, <1>6, <1>7

LEMMA OwnAnswers ==
  ASSUME ListInv, FdsInv, DataOK, Running, ~overlapped, NEW t \in Threads,
         Answering(t), ThreadStep(t)
  PROVE  Answering(t)'
  <1>1. UsesLog(t) => log_fd \in Fds /\ fds[log_fd].kind = "log"
    BY LogIsTaken DEF LogTaken
  <1>2. log_fd \in Numbers
    BY DEF FdsInv, Frame
  <1>3. CASE Read(t)
    BY <1>3, ReadAnswers
  <1>4. CASE CloseConn(t) \/ LogPeer(t)
    <2>1. thr'[t].pc \in Outside
      BY <1>4, EndMoves DEF ListInv, Moves, Outside
    <2> QED
      BY <2>1, OutsideAnswers
  <1>5. CASE Lock(t)
    BY <1>5, LockAnswers
  <1>6. CASE OpenLog(t) \/ CloseLog(t)
    BY <1>6, OpenAnswers, CloseAnswers
  <1>7. CASE TestLog(t)
    BY <1>2, <1>7, TestAnswers
  <1>8. CASE ReadLog(t)
    <2>1. UsesLog(t)
      BY <1>8 DEF ReadLog, UsesLog, LogPCs
    <2> QED
      BY <1>1, <1>8, <2>1, ReadLogAnswers
  <1>9. CASE SendChunk(t)
    <2>1. thr[t].pc \in {"d_send", "s_send"}
      BY <1>9 DEF SendChunk
    <2>2. t \in Serving
      BY <2>1, ServesWhileIn DEF ListInv
    <2>3. Open(td[t].fd).kind # "log"
      BY <2>2, ConnIsTaken DEF ConnTaken
    <2> QED
      BY <1>9, <2>3, SendAnswers
  <1>10. CASE WriteLog(t)
    <2>1. UsesLog(t)
      BY <1>10 DEF WriteLog, At, UsesLog, LogPCs
    <2>2. Open(log_fd).kind = "log"
      BY <1>1, <2>1 DEF Open
    <2> QED
      BY <1>10, <2>2, WriteAnswers
  <1>11. CASE WriteUnlock(t) \/ DumpUnlock(t)
    BY <1>11, UnlockAnswers
  <1>12. CASE SeekIoctl(t)
    <2>1. UsesLog(t)
      BY <1>12 DEF SeekIoctl, At, UsesLog, LogPCs
    <2> QED
      BY <1>1, <1>12, <2>1, SeekAnswers
  <1> QED
    BY <1>3, <1>4, <1>5, <1>6, <1>7, <1>8, <1>9, <1>10, <1>11, <1>12 DEF ThreadStep

\* While one thread is inside process_message the others can only read from their
\* clients and end.
LEMMA ThreadAnswers ==
  ASSUME ListInv, FdsInv, FdsInv', DataOK, Running, Running', ~overlapped, ~overlapped',
         \A u \in Threads : Answering(u), NEW t \in Threads, ThreadStep(t)
  PROVE  \A u \in Threads : Answering(u)'
  <1>1. Answering(t)'
    BY OwnAnswers
  <1>2. ASSUME NEW u \in Threads \ {t} PROVE Answering(u)'
    <2>1. thr'[u] = thr[u]
      <3>1. ThreadsOK /\ log_fd \in Numbers
        BY DEF ListInv, FdsInv, Frame
      <3> QED
        BY <3>1, ReadMoves, EndMoves, OpenMoves, KeepsMoves
           DEF ThreadStep, Moves, Keeps
    <2>2. CASE thr[u].pc \in Outside
      BY <2>1, <2>2, OutsideAnswers
    <2>3. CASE thr[u].pc \notin Outside
      <3>1. thr[t].pc \in Outside
        BY <2>3 DEF FdsInv, Frame, TakesTurns
      <3>2. Read(t) \/ CloseConn(t) \/ LogPeer(t)
        BY <3>1 DEF ThreadStep, Lock, OpenLog, TestLog, CloseLog, ReadLog, SendChunk,
                    WriteLog, WriteUnlock, DumpUnlock, SeekIoctl, At, Outside
      <3>3. UNCHANGED <<circular_buf, log_fd>>
        BY <3>2 DEF Read, CloseConn, LogPeer, devVars
      <3>4. LogsKept
        <4>1. CASE Read(t)
          <5>1. thr[t].pc = "read"
            BY <4>1 DEF Read, At
          <5>2. t \in Serving
            BY <5>1, ServesWhileIn DEF ListInv
          <5>3. Open(td[t].fd).kind # "log"
            BY <5>2, ConnIsTaken DEF ConnTaken
          <5>4. UNCHANGED fds
            BY <4>1, <5>3 DEF Read, ReadTakes
          <5> QED
            BY <5>4 DEF LogsKept
        <4>2. CASE CloseConn(t)
          <5>1. SetFd(td[t].fd, Free)
            BY <4>2 DEF CloseConn, close
          <5>2. \A m \in Fds : fds'[m] = IF m = td[t].fd THEN Free ELSE fds[m]
            BY <5>1, SetFdTable
          <5> QED
            BY <5>2 DEF LogsKept, Free
        <4>3. CASE LogPeer(t)
          BY <4>3 DEF LogPeer, LogsKept
        <4> QED
          BY <3>2, <4>1, <4>2, <4>3
      <3> QED
        BY <2>1, <3>3, <3>4, OtherAnswers
    <2> QED
      BY <2>2, <2>3
  <1> QED
    BY <1>1, <1>2

LEMMA InitAnswer == Init => AnswerInv
  <1> SUFFICES ASSUME Init, NEW t \in Threads PROVE Answering(t)
    BY DEF AnswerInv
  <1>1. thr[t].pc = "none"
    BY DEF Init, NoThr
  <1> QED
    BY <1>1 DEF Answering, AnswerPending, DumpPCs

LEMMA NextAnswer ==
  ServerInv /\ ServerInv' /\ AnswerInv /\ [Next]_vars => AnswerInv'
  <1> SUFFICES ASSUME ServerInv, ServerInv', AnswerInv, [Next]_vars, Running', ~overlapped'
               PROVE  \A u \in Threads : Answering(u)'
    BY DEF AnswerInv
  <1>1. ListInv /\ FdsInv /\ DataOK /\ FdsInv' /\ Frame
    BY DEF ServerInv, FdsInv
  <1>2. Running
    BY DEF Next, Running, vars
  <1>3. ASSUME overlapped' = overlapped, UNCHANGED <<circular_buf, log_fd>>, LogsKept,
               \A u \in Threads : thr'[u] = thr[u] \/ thr'[u].pc \in Outside
        PROVE  \A u \in Threads : Answering(u)'
    <2>1. \A u \in Threads : Answering(u)
      BY <1>2, <1>3 DEF AnswerInv
    <2> QED
      BY <1>1, <1>3, <2>1, OtherAnswers
  <1>4. UNCHANGED fds => LogsKept
    BY DEF LogsKept
  <1>5. ASSUME NEW c \in Clients, NEW m, Leave(c) \/ Send(c, m)
        PROVE  \A u \in Threads : Answering(u)'
    BY <1>3, <1>4, <1>5 DEF Leave, Send, devVars, procVars
  <1>6. CASE Signal \/ UNCHANGED vars
    BY <1>3, <1>4, <1>6 DEF Signal, vars, devVars, procVars
  <1>7. ASSUME NEW t \in Threads, Sigpipe(t)
        PROVE  \A u \in Threads : Answering(u)'
    BY <1>3, <1>4, <1>7 DEF Sigpipe, devVars
  <1>8. CASE MainStep \/ Accept
    <2>1. overlapped' = overlapped
      BY <1>1, <1>8, MainFrame
    <2> QED
      BY <1>1, <1>2, <1>3, <1>8, <2>1, MainKeeps
  <1>9. ASSUME NEW t \in Threads, ThreadStep(t)
        PROVE  \A u \in Threads : Answering(u)'
    <2>1. ~overlapped
      BY <1>1, <1>9, ThreadFrame
    <2>2. \A u \in Threads : Answering(u)
      BY <1>2, <2>1 DEF AnswerInv
    <2> QED
      BY <1>1, <1>2, <1>9, <2>1, <2>2, ThreadAnswers
  <1> QED
    BY <1>5, <1>6, <1>7, <1>8, <1>9 DEF Next

LEMMA FirstElement ==
  ASSUME NEW S, NEW c \in Seq(S), Len(c) > 0
  PROVE  SubSeq(c, 1, 1) = <<c[1]>>
  <1> DEFINE s == SubSeq(c, 0 + 1, 1)
  <1>1. Len(c) \in Nat /\ 1 <= Len(c)
    OBVIOUS
  <1>2. s \in Seq(S) /\ Len(s) = 1 - 0 /\ \A i \in 1 .. 1 - 0 : s[i] = c[0 + i]
    BY <1>1, SliceElements
  <1>3. s \in Seq(S) /\ Len(s) = 1 /\ s[1] = c[1]
    BY <1>2
  <1>4. s = SubSeq(c, 1, 1)
    OBVIOUS
  <1> HIDE DEF s
  <1>5. s = <<s[1]>>
    BY <1>3
  <1> QED
    BY <1>3, <1>4, <1>5

\* A text that ends with a newline.
LEMMA EndsLine ==
  ASSUME NEW c \in Text, Len(c) > 0, c[Len(c)] = NL
  PROVE  IsSuffix(<<NL>>, c)
  <1> DEFINE a == Reverse(<<NL>>)
             b == Reverse(c)
  <1>1. a = <<NL>> /\ Len(a) = 1
    BY DEF Reverse
  <1>2. b \in Seq(Chars) /\ Len(b) = Len(c) /\ b[1] = NL
    <2>1. Len(c) \in Nat /\ c \in Seq(Chars)
      BY DEF Text
    <2>2. b = [i \in 1 .. Len(c) |-> c[(Len(c) - i) + 1]]
      BY DEF Reverse
    <2>3. \A i \in 1 .. Len(c) : (Len(c) - i) + 1 \in 1 .. Len(c)
      BY <2>1
    <2>4. \A i \in 1 .. Len(c) : c[(Len(c) - i) + 1] \in Chars
      BY <2>1, <2>3
    <2>5. b \in Seq(Chars) /\ Len(b) = Len(c)
      BY <2>1, <2>2, <2>4
    <2>6. 1 \in 1 .. Len(c) /\ (Len(c) - 1) + 1 = Len(c)
      BY <2>1
    <2> QED
      BY <2>2, <2>5, <2>6
  <1> HIDE DEF a, b
  <1>3. Len(a) <= Len(b)
    BY <1>1, <1>2 DEF Text
  <1>4. SubSeq(b, 1, 1) = <<NL>>
    BY <1>2, FirstElement DEF Text
  <1>5. SubSeq(a, 1, 1) = <<NL>>
    <2>1. a \in Seq({NL}) /\ Len(a) > 0 /\ a[1] = NL
      BY <1>1
    <2> QED
      BY <2>1, FirstElement
  <1>6. IsPrefix(a, b)
    BY <1>1, <1>3, <1>4, <1>5 DEF IsPrefix
  <1> QED
    BY <1>6 DEF IsSuffix, a, b

\* The step that finds the device at its end.
LEMMA AnswerEnds ==
  ASSUME ServerInv, AnswerInv, Running, ~overlapped, NEW t \in Threads, [Next]_vars
  PROVE  /\ thr'[t].pc = "d_close" /\ thr[t].pc # "d_close" =>
              thr'[t].answer = Content /\ Stored
         /\ thr'[t].pc = "s_close" /\ thr[t].pc \in {"s_read", "s_send"} =>
              thr'[t].answer = SubSeq(Content, SeekToPosition(Head(thr[t].buf)) + 1,
                                      Len(Content))
  <1> DEFINE Ends == \/ thr'[t].pc = "d_close" /\ thr[t].pc # "d_close"
                     \/ thr'[t].pc = "s_close" /\ thr[t].pc \in {"s_read", "s_send"}
  <1>1. ListInv /\ FdsInv /\ DataOK /\ Frame /\ ThreadsOK /\ log_fd \in Numbers
    BY DEF ServerInv, FdsInv, ListInv, Frame
  <1>2. Answering(t)
    BY DEF AnswerInv
  <1>3. ASSUME Ends PROVE ReadLog(t)
    <2>1. thr'[t] # thr[t] /\ thr'[t].pc \notin Outside
      BY <1>3 DEF Outside
    <2>2. ASSUME NEW c \in Clients, NEW m, Leave(c) \/ Send(c, m) PROVE FALSE
      BY <2>1, <2>2 DEF Leave, Send
    <2>3. ~Signal /\ ~UNCHANGED vars
      BY <2>1 DEF Signal, vars
    <2>4. ASSUME NEW u \in Threads, Sigpipe(u) PROVE FALSE
      BY <2>1, <2>4 DEF Sigpipe
    <2>5. ~(MainStep \/ Accept)
      BY <1>1, <2>1, MainKeeps
    <2>6. PICK u \in Threads : ThreadStep(u)
      BY <2>2, <2>3, <2>4, <2>5 DEF Next
    <2>7. u = t
      BY <1>1, <2>1, <2>6, ReadMoves, EndMoves, OpenMoves, KeepsMoves
         DEF ThreadStep, Moves, Keeps
    <2>8. CASE Lock(t) \/ WriteUnlock(t) \/ DumpUnlock(t)
      <3>1. \E pc \in {"w_open", "d_open", "read", "w_close"} : To(t, pc)
        BY <2>8 DEF Lock, WriteUnlock, DumpUnlock
      <3> QED
        BY <1>1, <1>3, <3>1, ToGoes
    <2>9. CASE TestLog(t)
      <3>1. \E pc \in {"w_write", "read", "d_unlock", "d_read", "s_ioctl"} : To(t, pc)
        BY <2>9 DEF TestLog, At
      <3> QED
        BY <1>1, <1>3, <3>1, ToGoes
    <2>10. CASE SendChunk(t) \/ WriteLog(t)
      <3> DEFINE pc == IF thr[t].pc = "d_send" THEN "d_read" ELSE "s_read"
                 sent == [thr[t] EXCEPT !.pc = pc, !.tmpbuf = <<>>]
                 written(ok) == [thr[t] EXCEPT !.pc = "w_unlock", !.ok = ok]
      <3>1. thr[t] \in ThreadRecords
        BY <1>1 DEF DataOK, ThreadsTyped
      <3>2. CASE SendChunk(t)
        <4>1. Become(t, sent)
          BY <3>2 DEF SendChunk
        <4>2. sent.pc \in {"d_read", "s_read"}
          BY <3>1 DEF ThreadRecords
        <4> HIDE DEF sent
        <4> QED
          BY <1>1, <1>3, <4>1, <4>2, BecomeGoes
      <3>3. CASE WriteLog(t)
        <4>1. PICK ok \in BOOLEAN : Become(t, written(ok))
          BY <3>3 DEF WriteLog
        <4>2. written(ok).pc = "w_unlock"
          BY <3>1 DEF ThreadRecords
        <4> HIDE DEF written
        <4> QED
          BY <1>1, <1>3, <4>1, <4>2, BecomeGoes
      <3> QED
        BY <2>10, <3>2, <3>3
    <2>11. CASE SeekIoctl(t)
      <3>1. thr[t].pc = "s_ioctl" /\ \E pc \in {"s_read", "s_close"} : To(t, pc)
        BY <2>11 DEF SeekIoctl, At
      <3> QED
        BY <1>1, <1>3, <3>1, ToGoes
    <2>12. CASE Read(t) \/ CloseConn(t) \/ LogPeer(t) \/ OpenLog(t) \/ CloseLog(t)
      BY <1>1, <1>3, <2>12, ReadMoves, EndMoves, OpenMoves DEF Moves, TestPCs
    <2> QED
      BY <2>6, <2>7, <2>8, <2>9, <2>10, <2>11, <2>12 DEF ThreadStep
  <1>4. ASSUME ReadLog(t)
        PROVE  /\ thr'[t].pc = "d_close" => thr'[t].answer = Content /\ Stored
               /\ thr'[t].pc = "s_close" =>
                    thr'[t].answer = SubSeq(Content, SeekToPosition(Head(thr[t].buf)) + 1,
                                            Len(Content))
    <2>1. UsesLog(t)
      BY <1>4 DEF ReadLog, UsesLog, LogPCs
    <2>2. log_fd \in Fds /\ fds[log_fd].kind = "log"
      BY <1>1, <2>1, LogIsTaken DEF LogTaken
    <2> QED
      BY <1>1, <1>2, <1>4, <2>2, ReadLogAnswers
  <1> QED
    BY <1>3, <1>4

\* While clients take turns the answer to a line is all that the device holds, the
\* line itself last, and the answer to a seek command all from its position on, for
\* any messages, any buffer size and any number of chunks: write_safe puts the line
\* where dump_file_to_client finds it, and the loop over read( log_fd ) leaves
\* nothing out and sends nothing twice.
THEOREM ServerMessageAnswered == Spec => MessageAnswered
  <1> DEFINE Answers(t) ==
        ~overlapped =>
          /\ At(t, "d_close")' /\ ~At(t, "d_close") =>
               /\ thr'[t].answer = Content
               /\ Last(thr[t].buf) = NL => IsSuffix(<<NL>>, thr'[t].answer)
          /\ At(t, "s_close")' /\ thr[t].pc \in {"s_read", "s_send"} =>
               LET from == SeekToPosition(Head(thr[t].buf)) + 1
               IN  thr'[t].answer = SubSeq(Content, from, Len(Content))
  <1>1. Init => AnswerInv
    BY InitAnswer
  <1>2. ServerInv /\ ServerInv' /\ AnswerInv /\ [Next]_vars => AnswerInv'
    BY NextAnswer
  <1>3. ASSUME ServerInv, AnswerInv, [Next]_vars, ~UNCHANGED vars, NEW t \in Threads
        PROVE  Answers(t)
    <2> SUFFICES ASSUME ~overlapped PROVE Answers(t)
      OBVIOUS
    <2>1. Running
      BY <1>3 DEF Next
    <2>2. At(t, "d_close")' /\ ~At(t, "d_close") => thr'[t].answer = Content /\ Stored
      BY <1>3, <2>1, AnswerEnds DEF At
    <2>3. At(t, "s_close")' /\ thr[t].pc \in {"s_read", "s_send"} =>
            thr'[t].answer = SubSeq(Content, SeekToPosition(Head(thr[t].buf)) + 1,
                                    Len(Content))
      BY <1>3, <2>1, AnswerEnds DEF At
    <2>4. Stored => IsSuffix(<<NL>>, Content)
      BY <1>3, ContentLines, EndsLine DEF ServerInv, DataOK
    <2> QED
      BY <2>2, <2>3, <2>4
  <1>4. ServerInv /\ AnswerInv /\ [Next]_vars
          => [\A t \in Threads : Answers(t)]_vars
    BY <1>3
  <1>5. MessageAnswered <=> [][\A t \in Threads : Answers(t)]_vars
    BY DEF MessageAnswered
  <1> HIDE DEF Answers
  <1> QED
    BY <1>1, <1>2, <1>4, <1>5, ServerInvHolds, PTL DEF Spec

-----------------------------------------------------------------------------
(***************************************************************************)
(* Connections that are kept.                                              *)
(***************************************************************************)

\* A client that stays keeps its connection while clients take turns: what is left
\* of ConnectionKept, which fails once two messages were handled at the same time.
KeptInTurns ==
  [][\A c \in Clients :
       /\ ~overlapped
       /\ \E n \in Fds : fds[n] = Connected(c)
       /\ \A n \in Fds : fds'[n] # Connected(c)
       => peer[c] = "gone" \/ MainAt("create")]_vars

\* A thread is past its last read only when its client has gone.
EndsOK ==
  Running /\ ~overlapped =>
    \A t \in Threads :
      At(t, "close") /\ Open(td[t].fd).kind = "conn" =>
        peer[Open(td[t].fd).client] = "gone"

PeersOK ==
  \A c \in Clients : (\E n \in Fds : fds[n] = Connected(c)) => peer[c] # "new"

PeersTyped == peer \in [Clients -> {"new", "here", "gone"}]

LEMMA ConnOf ==
  ASSUME fds \in [Fds -> Files], NEW n, Open(n).kind = "conn"
  PROVE  n \in Fds /\ Open(n) = fds[n] /\ fds[n] = Connected(Open(n).client)
         /\ Open(n).client \in Clients
  <1>1. n \in Fds /\ Open(n) = fds[n]
    BY DEF Open, Free
  <1>2. PICK c \in Clients : fds[n] = Connected(c)
    <2>1. fds[n] \in Files
      BY <1>1
    <2> QED
      BY <1>1, <2>1 DEF Files, Free, Inherited, Listening
  <1>3. Connected(c).client = c
    BY DEF Connected
  <1> QED
    BY <1>1, <1>2, <1>3

\* What a step does to one number, but for those that say so.
LEMMA SetFdOther ==
  ASSUME NEW n, NEW file, SetFd(n, file), NEW m \in Fds, m # n
  PROVE  fds'[m] = fds[m]
  BY SetFdTable

\* Only the thread of a connection closes it, and main one that got no thread.
LEMMA ConnsClosed ==
  ASSUME ListInv, FdsInv, Running, ~overlapped, [Next]_vars,
         NEW n \in Fds, fds[n].kind = "conn", fds'[n] # fds[n]
  PROVE  /\ fds'[n] = Free
         /\ MainAt("create") \/ \E t \in Threads : CloseConn(t) /\ td[t].fd = n
  <1>1. Frame /\ Owned /\ LogTaken /\ ConnTaken /\ BlocksOK
    BY LogIsTaken, ConnIsTaken DEF FdsInv, ListInv
  <1>2. fds[n] # Free /\ fds[n] # Inherited
    BY DEF Free, Inherited
  <1>3. ASSUME NEW file, NewFd # -1, SetFd(NewFd, file) PROVE FALSE
    <2>1. n # NewFd
      BY <1>2, <1>3, NewFdFree
    <2> QED
      BY <1>3, <2>1, SetFdOther
  <1>4. ASSUME NEW file, SetFd(log_fd, file), fds[log_fd].kind = "log" PROVE FALSE
    <2>1. n # log_fd
      BY <1>4
    <2> QED
      BY <1>4, <2>1, SetFdOther
  <1>5. ~UNCHANGED fds
    OBVIOUS
  <1>6. ASSUME NEW c \in Clients, NEW m, Leave(c) \/ Send(c, m) PROVE FALSE
    BY <1>5, <1>6 DEF Leave, Send
  <1>7. ~Signal /\ ~UNCHANGED vars
    BY <1>5 DEF Signal, vars
  <1>8. ASSUME NEW t, Sigpipe(t) PROVE FALSE
    BY <1>5, <1>8 DEF Sigpipe
  <1>9. ~Accept
    BY <1>3, <1>5 DEF Accept
  <1>10. ASSUME MainStep
         PROVE  fds'[n] = Free /\ MainAt("create")
    <2>1. ~Socket
      BY <1>3 DEF Socket
    <2>2. ~make_daemon
      <3> SUFFICES ASSUME make_daemon PROVE FALSE
        OBVIOUS
      <3>1. /\ main.pc = "daemon"
            /\ fds' = [m \in Fds |-> IF m \in Std THEN Free ELSE fds[m]]
        BY DEF make_daemon, MainAt
      <3>2. \A m \in Std : fds[m] = Inherited
        BY <1>1, <3>1 DEF Frame
      <3>3. n \notin Std
        BY <1>2, <3>2
      <3> QED
        BY <3>1, <3>3
    <2>3. ~CloseListen
      <3> SUFFICES ASSUME CloseListen PROVE FALSE
        OBVIOUS
      <3>1. main.pc = "close_listen" /\ SetFd(main.listenfd, Free)
        BY DEF CloseListen, MainAt, close
      <3> DEFINE d == <<"listen", main.listenfd, NULL>>
      <3>2. d \in Duties
        BY <3>1, DutiesParts DEF Parts, ListenDuty
      <3>3. d[1] = "listen" /\ d[2] = main.listenfd
        OBVIOUS
      <3> HIDE DEF d
      <3>4. fds[main.listenfd].kind = "listen"
        BY <1>1, <3>2, <3>3 DEF Owned
      <3>5. n # main.listenfd
        BY <3>4
      <3> QED
        BY <3>1, <3>5, SetFdOther
    <2>4. CreateFails
      BY <1>5, <1>10, <2>1, <2>2, <2>3
         DEF MainStep, Bind, Listen, StartFails, PollSignal, Create, MallocFails,
             add_thread, Maintain, MaintainEnd, RemoveFile, DestroyLock, JoinFirst, Exit
    <2>5. SetFd(main.connfd, Free) /\ MainAt("create")
      BY <2>4 DEF CreateFails, close
    <2>6. n = main.connfd
      BY <2>5, SetFdOther
    <2> QED
      BY <2>5, <2>6, SetFdTable
  <1>11. ASSUME NEW t \in Threads, ThreadStep(t)
         PROVE  CloseConn(t) /\ td[t].fd = n /\ fds'[n] = Free
    <2>1. ~Read(t)
      <3> SUFFICES ASSUME Read(t) PROVE FALSE
        OBVIOUS
      <3>1. thr[t].pc = "read"
        BY DEF Read, At
      <3>2. t \in Serving
        BY <1>1, <3>1, ServesWhileIn
      <3>3. Open(td[t].fd).kind # "log"
        BY <1>1, <3>2 DEF ConnTaken
      <3> QED
        BY <1>5, <3>3 DEF Read, ReadTakes
    <2>2. ~LogPeer(t)
      BY <1>5 DEF LogPeer
    <2>3. ~OpenLog(t)
      <3> SUFFICES ASSUME OpenLog(t) PROVE FALSE
        OBVIOUS
      <3>1. log_fd' # -1 /\ log_fd' = NewFd /\ SetFd(log_fd', LogAt(0))
        BY <1>5 DEF OpenLog
      <3>2. NewFd # -1 /\ SetFd(NewFd, LogAt(0))
        BY <3>1
      <3> QED
        BY <1>3, <3>2
    <2>4. ~CloseLog(t)
      <3> SUFFICES ASSUME CloseLog(t) PROVE FALSE
        OBVIOUS
      <3>1. thr[t].pc \in LogPCs /\ SetFd(log_fd, Free)
        BY DEF CloseLog, LogPCs, close
      <3>2. fds[log_fd].kind = "log"
        BY <1>1, <3>1 DEF LogTaken, UsesLog
      <3> QED
        BY <1>4, <3>1, <3>2
    <2>5. ~(\/ Lock(t) \/ TestLog(t) \/ ReadLog(t) \/ SendChunk(t) \/ WriteLog(t)
            \/ WriteUnlock(t) \/ DumpUnlock(t) \/ SeekIoctl(t))
      <3> SUFFICES ASSUME \/ Lock(t) \/ TestLog(t) \/ ReadLog(t) \/ SendChunk(t)
                          \/ WriteLog(t) \/ WriteUnlock(t) \/ DumpUnlock(t)
                          \/ SeekIoctl(t)
                   PROVE  FALSE
        OBVIOUS
      <3>1. Open(log_fd).kind = "log" /\ \E p : SetFd(log_fd, LogAt(p))
        BY <1>5, KeepsFds
      <3>2. fds[log_fd].kind = "log"
        BY <3>1 DEF Open, Free
      <3> QED
        BY <1>4, <3>1, <3>2
    <2>6. CloseConn(t)
      BY <1>11, <2>1, <2>2, <2>3, <2>4, <2>5 DEF ThreadStep
    <2>7. SetFd(td[t].fd, Free)
      BY <2>6 DEF CloseConn, close
    <2>8. n = td[t].fd
      BY <2>7, SetFdOther
    <2> QED
      BY <2>6, <2>7, <2>8, SetFdTable
  <1> QED
    BY <1>6, <1>7, <1>8, <1>9, <1>10, <1>11 DEF Next

\* Whoever has gone stays away, and nobody becomes new again.
LEMMA PeersStep ==
  ASSUME PeersTyped, [Next]_vars, NEW c \in Clients
  PROVE  /\ peer[c] = "gone" => peer'[c] = "gone"
         /\ peer[c] # "new" => peer'[c] # "new"
  <1>1. ASSUME NEW d \in Clients, Leave(d)
        PROVE  peer'[c] = peer[c] \/ peer'[c] = "gone"
    BY <1>1 DEF Leave, PeersTyped
  <1>2. CASE Accept
    <2> DEFINE S == {d \in Clients : peer[d] = "new"}
               first == Min(S)
    <2>1. \/ UNCHANGED peer
          \/ peer' = [peer EXCEPT ![first] = "here"]
      BY <1>2 DEF Accept
    <2>2. first \in S
      <3>1. S \subseteq Clients /\ S # {}
        BY <1>2 DEF Accept
      <3>2. S \subseteq Nat
        BY <3>1
      <3> HIDE DEF S
      <3>3. PICK e \in S : \A d \in S : e <= d
        BY <3>1, <3>2, LeastNatural
      <3> QED
        BY <3>3 DEF Min
    <2>3. first \in Clients /\ peer[first] = "new"
      BY <2>2
    <2> HIDE DEF first
    <2>4. peer'[c] = peer[c] \/ (peer[c] = "new" /\ peer'[c] = "here")
      BY <2>1, <2>3 DEF PeersTyped
    <2> QED
      BY <2>4
  <1>3. CASE UNCHANGED peer
    BY <1>3
  <1>4. CASE UNCHANGED vars
    BY <1>3, <1>4 DEF vars, netVars
  <1>5. ASSUME NEW d, NEW m, Send(d, m) PROVE UNCHANGED peer
    BY <1>5 DEF Send
  <1>6. MainStep => UNCHANGED peer
    BY ZenonT(60)
       DEF MainStep, Socket, Bind, make_daemon, Listen, StartFails, PollSignal, Create,
           CreateFails, MallocFails, add_thread, Maintain, MaintainEnd, CloseListen,
           RemoveFile, DestroyLock, JoinFirst, Exit, netVars
  <1>7. ASSUME NEW t \in Threads, ThreadStep(t) PROVE UNCHANGED peer
    BY <1>7 DEF ThreadStep, Read, CloseConn, LogPeer, Lock, OpenLog, TestLog, CloseLog,
                ReadLog, ReadTakes, SendChunk, WriteLog, WriteUnlock, DumpUnlock,
                SeekIoctl, netVars
  <1>8. ASSUME NEW t, Sigpipe(t) PROVE UNCHANGED peer
    BY <1>8 DEF Sigpipe, netVars
  <1>9. CASE Signal
    BY <1>3, <1>9 DEF Signal, netVars
  <1> QED
    BY <1>1, <1>2, <1>3, <1>4, <1>5, <1>6, <1>7, <1>8, <1>9 DEF Next

\* Only accept connects a client.
LEMMA ConnsOpened ==
  ASSUME DOMAIN fds = Fds, PeersTyped, [Next]_vars, NEW n \in Fds, NEW c \in Clients,
         fds'[n] = Connected(c), fds[n] # Connected(c)
  PROVE  peer'[c] = "here"
  <1>1. /\ Free # Connected(c) /\ Listening # Connected(c)
        /\ \A p : LogAt(p) # Connected(c)
    BY DEF Free, Listening, Connected, LogAt
  <1>2. ASSUME NEW m, NEW file, SetFd(m, file), file # Connected(c) PROVE FALSE
    <2>1. fds'[n] = IF n = m THEN file ELSE fds[n]
      BY <1>2, SetFdTable
    <2> QED
      BY <1>2, <2>1
  <1>3. ~UNCHANGED fds
    OBVIOUS
  <1>4. ASSUME NEW d \in Clients, NEW m, Leave(d) \/ Send(d, m) PROVE FALSE
    BY <1>3, <1>4 DEF Leave, Send
  <1>5. ~Signal /\ ~UNCHANGED vars
    BY <1>3 DEF Signal, vars
  <1>6. ASSUME NEW t, Sigpipe(t) PROVE FALSE
    BY <1>3, <1>6 DEF Sigpipe
  <1>7. ~MainStep
    <2>1. ~(Socket \/ CreateFails \/ CloseListen)
      BY <1>1, <1>2 DEF Socket, CreateFails, CloseListen, close
    <2>2. ~make_daemon
      <3> SUFFICES ASSUME make_daemon PROVE FALSE
        OBVIOUS
      <3>1. fds' = [m \in Fds |-> IF m \in Std THEN Free ELSE fds[m]]
        BY DEF make_daemon
      <3> QED
        BY <1>1, <3>1
    <2> QED
      BY <1>3, <2>1, <2>2
         DEF MainStep, Bind, Listen, StartFails, PollSignal, Create, MallocFails,
             add_thread, Maintain, MaintainEnd, RemoveFile, DestroyLock, JoinFirst, Exit
  <1>8. ASSUME NEW t \in Threads, ThreadStep(t) PROVE FALSE
    <2>1. \E m : (\E p : SetFd(m, LogAt(p))) \/ SetFd(m, Free)
      <3>1. CASE Read(t)
        BY <1>3, <3>1 DEF Read, ReadTakes
      <3>2. CASE CloseConn(t) \/ CloseLog(t)
        BY <3>2 DEF CloseConn, CloseLog, close
      <3>3. CASE OpenLog(t)
        BY <1>3, <3>3 DEF OpenLog
      <3>4. CASE LogPeer(t)
        BY <1>3, <3>4 DEF LogPeer
      <3>5. CASE \/ Lock(t) \/ TestLog(t) \/ ReadLog(t) \/ SendChunk(t) \/ WriteLog(t)
                 \/ WriteUnlock(t) \/ DumpUnlock(t) \/ SeekIoctl(t)
        BY <1>3, <3>5, KeepsFds
      <3> QED
        BY <1>8, <3>1, <3>2, <3>3, <3>4, <3>5 DEF ThreadStep
    <2> QED
      BY <1>1, <1>2, <2>1
  <1>9. Accept
    BY <1>4, <1>5, <1>6, <1>7, <1>8 DEF Next
  <1> DEFINE first == Min({d \in Clients : peer[d] = "new"})
  <1>10. SetFd(NewFd, Connected(first)) /\ peer' = [peer EXCEPT ![first] = "here"]
    BY <1>3, <1>9 DEF Accept
  <1> HIDE DEF first
  <1>11. Connected(first) = Connected(c)
    BY <1>2, <1>10
  <1>12. first = c
    BY <1>11 DEF Connected
  <1> QED
    BY <1>10, <1>12 DEF PeersTyped

LEMMA NextPeers ==
  ASSUME DOMAIN fds = Fds, PeersTyped, PeersOK, [Next]_vars
  PROVE  PeersOK'
  <1> SUFFICES ASSUME NEW c \in Clients, NEW n \in Fds, fds'[n] = Connected(c)
               PROVE  peer'[c] # "new"
    BY DEF PeersOK
  <1>1. CASE fds[n] = Connected(c)
    BY <1>1, PeersStep DEF PeersOK
  <1>2. CASE fds[n] # Connected(c)
    BY <1>2, ConnsOpened
  <1> QED
    BY <1>1, <1>2

\* A thread comes to its end only from a read that got nothing.
LEMMA EndsByRead ==
  ASSUME ListInv, log_fd \in Numbers, [Next]_vars, NEW t \in Threads,
         thr'[t].pc = "close", thr[t].pc # "close"
  PROVE  Read(t) /\ ReadGets(td[t].fd, BUFFSIZE) = <<>>
  <1>1. ThreadsOK
    BY DEF ListInv
  <1>2. thr'[t] # thr[t]
    OBVIOUS
  <1>3. ASSUME NEW c \in Clients, NEW m, Leave(c) \/ Send(c, m) PROVE FALSE
    BY <1>2, <1>3 DEF Leave, Send
  <1>4. ~Signal /\ ~UNCHANGED vars /\ ~Accept
    BY <1>2 DEF Signal, vars, Accept
  <1>5. ASSUME NEW u, Sigpipe(u) PROVE FALSE
    BY <1>2, <1>5 DEF Sigpipe
  <1>6. ~MainStep
    <2>1. ASSUME NEW u \in Threads, Create(u) PROVE FALSE
      <3>1. thr' = [thr EXCEPT ![u] = [NoThr EXCEPT !.pc = "read"]]
        BY <2>1 DEF Create
      <3>2. [NoThr EXCEPT !.pc = "read"].pc = "read"
        BY DEF NoThr
      <3> QED
        BY <1>1, <1>2, <3>1, <3>2 DEF ThreadsOK
    <2>2. ~(Maintain \/ JoinFirst)
      <3> SUFFICES ASSUME Maintain \/ JoinFirst PROVE FALSE
        OBVIOUS
      <3>1. \E u : JoinAndFree(u)
        BY <1>2 DEF Maintain, JoinFirst
      <3>2. PICK u : thr' = [thr EXCEPT ![u] = NoThr]
        BY <3>1 DEF JoinAndFree
      <3>3. NoThr.pc = "none"
        BY DEF NoThr
      <3> QED
        BY <1>1, <1>2, <3>2, <3>3 DEF ThreadsOK
    <2> QED
      BY <1>2, <2>1, <2>2
         DEF MainStep, Socket, Bind, make_daemon, Listen, StartFails, PollSignal,
             CreateFails, MallocFails, add_thread, MaintainEnd, CloseListen, RemoveFile,
             DestroyLock, Exit
  <1>7. PICK u \in Threads : ThreadStep(u)
    BY <1>3, <1>4, <1>5, <1>6 DEF Next
  <1>8. Read(u) /\ u = t
    <2>1. u = t
      BY <1>1, <1>2, <1>7, ReadMoves, EndMoves, OpenMoves, KeepsMoves
         DEF ThreadStep, Moves, Keeps
    <2>2. CASE CloseConn(t) \/ LogPeer(t) \/ OpenLog(t) \/ CloseLog(t)
      BY <1>1, <2>2, EndMoves, OpenMoves DEF Moves, TestPCs
    <2>3. CASE \/ Lock(t) \/ TestLog(t) \/ ReadLog(t) \/ SendChunk(t) \/ WriteLog(t)
               \/ WriteUnlock(t) \/ DumpUnlock(t) \/ SeekIoctl(t)
      BY <1>1, <2>3, KeepsMoves DEF Keeps, Moves, Idle, LogPCs
    <2> QED
      BY <1>7, <2>1, <2>2, <2>3 DEF ThreadStep
  <1>9. ReadGets(td[t].fd, BUFFSIZE) = <<>>
    <2> DEFINE bytes == ReadGets(td[t].fd, BUFFSIZE)
               pc == IF IsSeek(bytes) THEN "s_open" ELSE "w_lock"
               r == [NoThr EXCEPT !.pc = pc, !.buf = bytes]
    <2> SUFFICES ASSUME bytes # <<>> PROVE FALSE
      OBVIOUS
    <2>1. Become(t, r)
      BY <1>8 DEF Read
    <2>2. r.pc = pc /\ pc # "close"
      BY DEF NoThr
    <2> HIDE DEF r
    <2> QED
      BY <1>1, <2>1, <2>2, BecomeGoes
  <1> QED
    BY <1>8, <1>9

\* The connection of a thread stays the same until the thread is joined.
LEMMA ConnStays ==
  ASSUME ListInv, [Next]_vars, NEW u \in Threads,
         thr[u].pc # "none", thr'[u].pc # "none"
  PROVE  td'[u].fd = td[u].fd
  <1>1. u \in DOMAIN td /\ ThreadsOK /\ DOMAIN td \subseteq Threads
    BY DEF ListInv, BlocksOK
  <1>2. CASE UNCHANGED td
    BY <1>2
  <1>3. ASSUME NEW t, Create(t) PROVE td'[u].fd = td[u].fd
    <2>1. t = Min(Threads \ DOMAIN td)
      BY <1>3 DEF Create
    <2>2. t \notin DOMAIN td
      <3> DEFINE S == Threads \ DOMAIN td
      <3>1. S \subseteq Nat /\ S # {}
        BY <1>1, <1>3 DEF Create
      <3> HIDE DEF S
      <3>2. PICK e \in S : \A d \in S : e <= d
        BY <3>1, LeastNatural
      <3>3. Min(S) \in S
        BY <3>2 DEF Min
      <3> QED
        BY <2>1, <3>3 DEF S
    <2>3. td' = [v \in DOMAIN td \cup {t} |->
                   IF v = t THEN [fd |-> main.connfd, is_completed |-> FALSE] ELSE td[v]]
      BY <1>3 DEF Create
    <2> QED
      BY <1>1, <2>2, <2>3
  <1>4. ASSUME NEW t, JoinAndFree(t) PROVE td'[u].fd = td[u].fd
    <2>1. thr' = [thr EXCEPT ![t] = NoThr] /\ td' = [v \in DOMAIN td \ {t} |-> td[v]]
      BY <1>4 DEF JoinAndFree
    <2>2. NoThr.pc = "none"
      BY DEF NoThr
    <2>3. u # t
      BY <1>1, <2>1, <2>2 DEF ThreadsOK
    <2> QED
      BY <1>1, <2>1, <2>3
  <1>5. ASSUME NEW t, CloseConn(t) PROVE td'[u].fd = td[u].fd
    <2>1. td' = [td EXCEPT ![t].is_completed = TRUE]
      BY <1>5 DEF CloseConn
    <2>2. td[u] \in [fd : Numbers, is_completed : BOOLEAN]
      BY <1>1 DEF ListInv, BlocksOK
    <2> QED
      BY <1>1, <2>1, <2>2
  <1>6. CASE UNCHANGED vars
    BY <1>2, <1>6 DEF vars, listVars
  <1>7. CASE MainStep
    BY <1>2, <1>3, <1>4, <1>7, SMTT(30)
       DEF MainStep, Socket, Bind, make_daemon, Listen, StartFails, PollSignal,
           CreateFails, MallocFails, add_thread, Maintain, MaintainEnd, CloseListen,
           RemoveFile, DestroyLock, JoinFirst, Exit, listVars
  <1>8. ASSUME NEW t \in Threads, ThreadStep(t) PROVE td'[u].fd = td[u].fd
    BY <1>2, <1>5, <1>8
       DEF ThreadStep, Read, LogPeer, Lock, OpenLog, TestLog, CloseLog, ReadLog,
           SendChunk, WriteLog, WriteUnlock, DumpUnlock, SeekIoctl, mainVars, listVars
  <1>9. ASSUME NEW c \in Clients, NEW m, Leave(c) \/ Send(c, m) PROVE UNCHANGED td
    BY <1>9 DEF Leave, Send, procVars, listVars
  <1>10. ASSUME NEW t, Sigpipe(t) PROVE UNCHANGED td
    BY <1>10 DEF Sigpipe, listVars
  <1>11. Signal \/ Accept => UNCHANGED td
    BY DEF Signal, Accept, procVars, listVars
  <1> QED
    BY <1>2, <1>6, <1>7, <1>8, <1>9, <1>10, <1>11 DEF Next

LEMMA NextEnds ==
  ASSUME ServerInv, ServerInv', PeersTyped, PeersOK, EndsOK, [Next]_vars
  PROVE  EndsOK'
  <1> SUFFICES ASSUME Running', ~overlapped', NEW t \in Threads, thr'[t].pc = "close",
                      Open(td[t].fd)'.kind = "conn"
               PROVE  peer'[Open(td[t].fd)'.client] = "gone"
    BY DEF EndsOK, At
  <1>1. /\ ListInv /\ FdsInv /\ DataOK /\ Frame /\ ThreadsOK /\ BlocksOK
        /\ fds \in [Fds -> Files] /\ wire \in [Clients -> Text]
    BY DEF ServerInv, FdsInv, ListInv, DataOK
  <1>2. Running
    BY DEF Next, Running, vars
  <1>3. ~overlapped
    <2>1. MainStep \/ Accept => overlapped' = overlapped
      BY <1>1, MainFrame
    <2>2. ASSUME NEW u \in Threads, ThreadStep(u) PROVE overlapped => overlapped'
      BY <1>1, <2>2, ThreadFrame
    <2>3. ASSUME NEW c \in Clients, NEW m, Leave(c) \/ Send(c, m)
          PROVE  overlapped' = overlapped
      BY <2>3 DEF Leave, Send, procVars
    <2>4. Signal \/ UNCHANGED vars => overlapped' = overlapped
      BY DEF Signal, vars, procVars
    <2>5. ASSUME NEW u, Sigpipe(u) PROVE overlapped' = overlapped
      BY <2>5 DEF Sigpipe
    <2> QED
      BY <2>1, <2>2, <2>3, <2>4, <2>5 DEF Next
  <1> DEFINE n == td[t].fd
  <1>4. CASE thr[t].pc = "close"
    <2>1. td'[t].fd = n
      BY <1>1, <1>4, ConnStays
    <2>2. n \in Fds /\ fds'[n].kind = "conn" /\ Open(td[t].fd)' = fds'[n]
      BY <2>1 DEF Open, Free
    <2>3. fds[n].kind = "conn"
      <3>1. Owned /\ t \in Serving
        BY <1>1, <1>2, <1>3, <1>4, ServesWhileIn DEF FdsInv
      <3> DEFINE d == <<"conn", n, t>>
      <3>2. n # -1
        BY <2>2
      <3>3. d \in Duties
        BY <3>1, <3>2, DutiesParts DEF Parts, ConnDuties
      <3>4. d[1] = "conn" /\ d[2] = n
        OBVIOUS
      <3> HIDE DEF d, n
      <3> QED
        BY <3>1, <3>3, <3>4 DEF Owned
    <2> HIDE DEF n
    <2>4. fds'[n] = fds[n]
      <3> SUFFICES ASSUME fds'[n] # fds[n] PROVE FALSE
        OBVIOUS
      <3>1. fds'[n] = Free
        BY <1>1, <1>2, <1>3, <2>2, <2>3, ConnsClosed
      <3> QED
        BY <2>2, <3>1 DEF Free
    <2>5. Open(n) = fds[n]
      BY <2>2 DEF Open
    <2>6. Open(n).client \in Clients /\ peer[Open(n).client] = "gone"
      BY <1>1, <1>2, <1>3, <1>4, <2>3, <2>5, ConnOf DEF EndsOK, At, n
    <2>7. Open(td[t].fd)'.client = Open(n).client
      BY <2>2, <2>4, <2>5
    <2> QED
      BY <2>6, <2>7, PeersStep
  <1>5. CASE thr[t].pc # "close"
    <2>1. Read(t) /\ ReadGets(n, BUFFSIZE) = <<>>
      BY <1>1, <1>5, EndsByRead DEF Frame
    <2>2. thr[t].pc = "read" /\ ~ReadBlocks(n) /\ td' = td /\ peer' = peer
      BY <2>1 DEF Read, At, mainVars, listVars, ReadTakes
    <2>3. Open(n).kind # "log"
      <3>1. t \in Serving
        BY <1>1, <2>2, ServesWhileIn
      <3> QED
        BY <1>1, <1>2, <1>3, <3>1, ConnIsTaken DEF ConnTaken
    <2>4. UNCHANGED fds
      BY <2>1, <2>3 DEF Read, ReadTakes
    <2>5. Open(td[t].fd)' = Open(n)
      BY <2>2, <2>4 DEF Open
    <2> HIDE DEF n
    <2>6. /\ n \in Fds /\ fds[n] = Connected(Open(n).client)
          /\ Open(n).client \in Clients /\ Open(n).kind = "conn"
      BY <1>1, <2>5, ConnOf
    <2>7. wire[Open(n).client] = <<>>
      BY <2>1, <2>6 DEF ReadGets
    <2>8. peer[Open(n).client] # "here"
      BY <2>2, <2>6, <2>7 DEF ReadBlocks
    <2>9. peer[Open(n).client] # "new"
      BY <2>6 DEF PeersOK
    <2> QED
      BY <2>2, <2>5, <2>6, <2>8, <2>9 DEF PeersTyped
  <1> QED
    BY <1>4, <1>5

\* While clients take turns a client that stays keeps its connection: no thread and
\* no step of main closes a number that has become another's.  The close that
\* write_safe leaves until after its unlock therefore needs a second message under
\* way to do harm.
THEOREM ServerConnectionKept == Spec => KeptInTurns
  <1> DEFINE Kept == \A c \in Clients :
                       /\ ~overlapped
                       /\ \E n \in Fds : fds[n] = Connected(c)
                       /\ \A n \in Fds : fds'[n] # Connected(c)
                       => peer[c] = "gone" \/ MainAt("create")
  <1>1. Init => PeersOK /\ EndsOK
    <2> SUFFICES ASSUME Init PROVE PeersOK /\ EndsOK
      OBVIOUS
    <2>1. fds = [n \in Fds |-> IF n \in Std THEN Inherited ELSE Free]
      BY DEF Init
    <2>2. \A c : Connected(c) # Inherited /\ Connected(c) # Free
      BY DEF Connected, Inherited, Free
    <2>3. PeersOK
      BY <2>1, <2>2 DEF PeersOK
    <2>4. \A t \in Threads : thr[t].pc = "none"
      BY DEF Init, NoThr
    <2> QED
      BY <2>3, <2>4 DEF EndsOK, At
  <1>2. TypeOK => PeersTyped
    BY DEF TypeOK, PeersTyped
  <1>3. ServerInv /\ PeersTyped /\ PeersOK /\ [Next]_vars => PeersOK'
    BY NextPeers DEF ServerInv, FdsInv, Frame
  <1>4. ServerInv /\ ServerInv' /\ PeersTyped /\ PeersOK /\ EndsOK /\ [Next]_vars => EndsOK'
    BY NextEnds
  <1>5. ASSUME ServerInv, PeersTyped, EndsOK, [Next]_vars, ~UNCHANGED vars
        PROVE  Kept
    <2> SUFFICES ASSUME NEW c \in Clients, NEW n \in Fds, ~overlapped,
                        fds[n] = Connected(c), fds'[n] # Connected(c), ~MainAt("create")
                 PROVE  peer[c] = "gone"
      OBVIOUS
    <2>1. Running /\ ListInv /\ FdsInv /\ ThreadsOK
      BY <1>5 DEF Next, ServerInv, ListInv
    <2>2. fds[n].kind = "conn" /\ fds[n].client = c
      BY DEF Connected
    <2>3. PICK t \in Threads : CloseConn(t) /\ td[t].fd = n
      BY <1>5, <2>1, <2>2, ConnsClosed
    <2>4. At(t, "close") /\ Open(td[t].fd) = fds[n]
      BY <2>3 DEF CloseConn, Open
    <2> QED
      BY <1>5, <2>1, <2>2, <2>4 DEF EndsOK
  <1>6. ServerInv /\ PeersTyped /\ EndsOK /\ [Next]_vars => [Kept]_vars
    BY <1>5
  <1>7. KeptInTurns <=> [][Kept]_vars
    BY DEF KeptInTurns
  <1> HIDE DEF Kept
  <1> QED
    BY <1>1, <1>2, <1>3, <1>4, <1>6, <1>7, ServerInvHolds, ServerTypeCorrect, PTL DEF Spec
================================================================================
