------------------------ MODULE MessageChannelProofs ------------------------
(* Proofs about MessageChannel, for frames, messages and buffers of any size  *)
(* and any modulus: the operations of read_buffer keep its areas in order and *)
(* its bytes where they belong.                                               *)
EXTENDS MessageChannel, SequenceTheorems, TLAPS

Buffers == [data : Seq(Nat), cur : Nat, pend : Nat, free : Nat]

\* The areas of a buffer, one behind the other.
Ordered(b) == b.cur <= b.pend /\ b.pend <= b.free /\ b.free <= Len(b.data)

\* A message is never written further than its end.
WriterOK == wr.written <= Len(wr.msg)

IInv == TypeOK /\ AreasOrdered /\ WriterOK

-----------------------------------------------------------------------------
(* The operations of read_buffer.                                             *)

\* memmove keeps the size of the buffer, and every byte outside its target.
LEMMA MemmoveFacts ==
  ASSUME NEW data \in Seq(Nat), NEW to \in Nat, NEW from \in Nat, NEW n \in Nat,
         from + n <= Len(data)
  PROVE  /\ memmove(data, to, from, n) \in Seq(Nat)
         /\ Len(memmove(data, to, from, n)) = Len(data)
         /\ \A i \in 1..Len(data) :
              memmove(data, to, from, n)[i] =
                IF to < i /\ i <= to + n THEN data[i - to + from] ELSE data[i]
<1> DEFINE new == memmove(data, to, from, n)
<1>1. new = [i \in 1..Len(data) |->
               IF to < i /\ i <= to + n THEN data[i - to + from] ELSE data[i]]
  BY LenProperties DEF memmove
<1>2. Len(data) \in Nat
  BY LenProperties
<1>3. ASSUME NEW i \in 1..Len(data)
      PROVE  (IF to < i /\ i <= to + n THEN data[i - to + from] ELSE data[i]) \in Nat
  <2>1. CASE to < i /\ i <= to + n
    <3>1. i - to + from \in 1..Len(data)
      BY <1>2, <2>1
    <3> QED BY <2>1, <3>1, ElementOfSeq
  <2>2. CASE ~(to < i /\ i <= to + n)
    BY <2>2, ElementOfSeq
  <2> QED BY <2>1, <2>2
<1>4. new \in [1..Len(data) -> Nat]
  BY <1>1, <1>3
<1>5. new \in Seq(Nat) /\ Len(new) = Len(data)
  BY <1>2, <1>4, SMTT(30)
<1> QED BY <1>1, <1>5

\* A buffer, field by field.
LEMMA BufferForm ==
  ASSUME NEW b \in Buffers
  PROVE  \E data \in Seq(Nat), cur \in Nat, pend \in Nat, free \in Nat :
           b = [data |-> data, cur |-> cur, pend |-> pend, free |-> free]
  BY DEF Buffers

\* Moving bytes between areas.
LEMMA MoveFacts ==
  ASSUME NEW b \in Buffers, Ordered(b), NEW n \in Nat
  PROVE  /\ n <= current_message_size(b) =>
              /\ move_to_reserved(b, n) \in Buffers /\ Ordered(move_to_reserved(b, n))
              /\ move_to_reserved(b, n) =
                   [data |-> b.data, cur |-> b.cur + n, pend |-> b.pend, free |-> b.free]
         /\ n <= pending_size(b) =>
              /\ move_to_current_message(b, n) \in Buffers /\ Ordered(move_to_current_message(b, n))
              /\ move_to_current_message(b, n) =
                   [data |-> b.data, cur |-> b.cur, pend |-> b.pend + n, free |-> b.free]
<1>0. PICK data \in Seq(Nat), cur \in Nat, pend \in Nat, free \in Nat :
        b = [data |-> data, cur |-> cur, pend |-> pend, free |-> free]
  BY BufferForm
<1>1. /\ b.data = data /\ b.cur = cur /\ b.pend = pend /\ b.free = free
      /\ cur <= pend /\ pend <= free /\ free <= Len(data) /\ Len(data) \in Nat
  BY <1>0 DEF Ordered
<1>2. move_to_reserved(b, n) =
        [data |-> data, cur |-> cur + n, pend |-> pend, free |-> free]
  BY <1>0 DEF move_to_reserved
<1>3. move_to_current_message(b, n) =
        [data |-> data, cur |-> cur, pend |-> pend + n, free |-> free]
  BY <1>0 DEF move_to_current_message
<1>4. n <= current_message_size(b) =>
        move_to_reserved(b, n) \in Buffers /\ Ordered(move_to_reserved(b, n))
  BY <1>1, <1>2 DEF Buffers, Ordered, current_message_size
<1>5. n <= pending_size(b) =>
        move_to_current_message(b, n) \in Buffers /\ Ordered(move_to_current_message(b, n))
  BY <1>1, <1>3 DEF Buffers, Ordered, pending_size
<1> QED BY <1>1, <1>2, <1>3, <1>4, <1>5

\* remove_current_message_last drops the last n bytes of the current message:
\* the pending bytes move up, what lies before the dropped bytes stays.
LEMMA RemoveLastFacts ==
  ASSUME NEW b \in Buffers, Ordered(b), NEW n \in Nat, n <= current_message_size(b)
  PROVE  LET c == remove_current_message_last(b, n) IN
         /\ c \in Buffers /\ Ordered(c)
         /\ c.cur = b.cur /\ c.pend = b.pend - n /\ c.free = b.free - n
         /\ Len(c.data) = Len(b.data)
         /\ \A i \in 1..(b.pend - n) : c.data[i] = b.data[i]
         /\ \A i \in 1..pending_size(b) : c.data[c.pend + i] = b.data[b.pend + i]
<1> DEFINE c  == remove_current_message_last(b, n)
<1>0. PICK data \in Seq(Nat), cur \in Nat, pend \in Nat, free \in Nat :
        b = [data |-> data, cur |-> cur, pend |-> pend, free |-> free]
  BY BufferForm
<1>1. /\ b.data = data /\ b.cur = cur /\ b.pend = pend /\ b.free = free
      /\ cur <= pend /\ pend <= free /\ free <= Len(data) /\ Len(data) \in Nat
      /\ pending_size(b) = free - pend /\ n <= pend - cur
  BY <1>0 DEF Ordered, pending_size, current_message_size
<1>2. PICK to \in Nat, k \in Nat :
        to = pend - n /\ k = free - pend /\ free - n = to + k /\ pend + k <= Len(data)
  BY <1>1
<1> DEFINE d == memmove(data, to, pend, k)
<1>3. c = [data |-> d, cur |-> cur, pend |-> to, free |-> free - n]
  BY <1>0, <1>1, <1>2 DEF remove_current_message_last
<1>4. /\ d \in Seq(Nat) /\ Len(d) = Len(data)
      /\ \A i \in 1..Len(data) :
           d[i] = IF to < i /\ i <= to + k THEN data[i - to + pend] ELSE data[i]
  <2>1. pend + k <= Len(data)
    BY <1>2
  <2> QED BY <2>1, MemmoveFacts, SMTT(30)
<1> HIDE DEF c, d
<1>5. c \in Buffers /\ Ordered(c)
  <2>1. cur <= to /\ to <= free - n /\ free - n <= Len(data) /\ free - n \in Nat
    BY <1>1, <1>2
  <2> QED BY <1>3, <1>4, <2>1 DEF Buffers, Ordered
<1>6. ASSUME NEW i \in 1..to PROVE d[i] = data[i]
  <2>1. i \in 1..Len(data) /\ ~(to < i)
    BY <1>1, <1>2
  <2> QED BY <1>4, <2>1
<1>7. ASSUME NEW i \in 1..k PROVE d[to + i] = data[pend + i]
  <2>1. /\ to + i \in 1..Len(data) /\ to < to + i /\ to + i <= to + k
        /\ (to + i) - to + pend = pend + i
    BY <1>1, <1>2
  <2> QED BY <1>4, <2>1
<1>8. /\ c.cur = b.cur /\ c.pend = b.pend - n /\ c.free = b.free - n
      /\ Len(c.data) = Len(b.data) /\ c.data = d /\ c.pend = to
      /\ b.pend - n = to /\ pending_size(b) = k
  BY <1>1, <1>2, <1>3, <1>4
<1>9. /\ \A i \in 1..(b.pend - n) : c.data[i] = b.data[i]
      /\ \A i \in 1..pending_size(b) : c.data[c.pend + i] = b.data[b.pend + i]
  BY <1>1, <1>6, <1>7, <1>8
<1> QED BY <1>5, <1>8, <1>9 DEF c

\* remove_reserved moves all that is in use to the front.
LEMMA RemoveReservedFacts ==
  ASSUME NEW b \in Buffers, Ordered(b)
  PROVE  LET c == remove_reserved(b) IN
         /\ c \in Buffers /\ Ordered(c)
         /\ c.cur = 0 /\ c.pend = b.pend - b.cur /\ c.free = b.free - b.cur
         /\ Len(c.data) = Len(b.data)
         /\ \A i \in 1..(b.free - b.cur) : c.data[i] = b.data[b.cur + i]
<1> DEFINE c == remove_reserved(b)
<1>0. PICK data \in Seq(Nat), cur \in Nat, pend \in Nat, free \in Nat :
        b = [data |-> data, cur |-> cur, pend |-> pend, free |-> free]
  BY BufferForm
<1>1. /\ b.data = data /\ b.cur = cur /\ b.pend = pend /\ b.free = free
      /\ cur <= pend /\ pend <= free /\ free <= Len(data) /\ Len(data) \in Nat
  BY <1>0 DEF Ordered
<1>2. PICK k \in Nat : k = free - cur /\ cur + k <= Len(data)
  BY <1>1
<1> DEFINE d == memmove(data, 0, cur, k)
<1>3. c = [data |-> d, cur |-> 0, pend |-> pend - cur, free |-> k]
  BY <1>0, <1>1, <1>2 DEF remove_reserved
<1>4. /\ d \in Seq(Nat) /\ Len(d) = Len(data)
      /\ \A i \in 1..Len(data) :
           d[i] = IF 0 < i /\ i <= 0 + k THEN data[i - 0 + cur] ELSE data[i]
  BY <1>2, MemmoveFacts
<1> HIDE DEF c, d
<1>5. c \in Buffers /\ Ordered(c)
  BY <1>1, <1>2, <1>3, <1>4 DEF Buffers, Ordered
<1>6. ASSUME NEW i \in 1..k PROVE d[i] = data[cur + i]
  <2>1. i \in 1..Len(data) /\ 0 < i /\ i <= 0 + k /\ i - 0 + cur = cur + i
    BY <1>1, <1>2
  <2> QED BY <1>4, <2>1
<1>7. /\ c.cur = 0 /\ c.pend = b.pend - b.cur /\ c.free = b.free - b.cur
      /\ Len(c.data) = Len(b.data) /\ c.data = d /\ b.free - b.cur = k
  BY <1>1, <1>2, <1>3, <1>4
<1>8. \A i \in 1..(b.free - b.cur) : c.data[i] = b.data[b.cur + i]
  BY <1>1, <1>6, <1>7
<1> QED BY <1>5, <1>7, <1>8 DEF c

\* grow_to_fit makes room for n bytes and changes nothing that is there.
LEMMA GrownFacts ==
  ASSUME NEW b \in Buffers, Ordered(b), NEW n \in Nat
  PROVE  LET c == grown(b, n) IN
         /\ c \in Buffers /\ Ordered(c)
         /\ c.cur = b.cur /\ c.pend = b.pend /\ c.free = b.free
         /\ Len(b.data) <= Len(c.data) /\ n <= free_size(c)
         /\ \A i \in 1..Len(b.data) : c.data[i] = b.data[i]
<1> DEFINE c    == grown(b, n)
           need == Len(b.data) + n - free_size(b)
           size == IF free_size(b) < n THEN Larger(need, 2 * Len(b.data)) ELSE Len(b.data)
           d    == [i \in 1..size |-> IF i <= Len(b.data) THEN b.data[i] ELSE 0]
<1>1. /\ b.data \in Seq(Nat) /\ b.cur \in Nat /\ b.pend \in Nat /\ b.free \in Nat
      /\ Len(b.data) \in Nat
  BY DEF Buffers
<1>2. size \in Nat /\ Len(b.data) <= size /\ n <= size - b.free
  BY <1>1 DEF Ordered, free_size, Larger
<1>3. c = [data |-> d, cur |-> b.cur, pend |-> b.pend, free |-> b.free]
  <2>1. c = [b EXCEPT !.data = d]
    BY DEF grown
  <2> HIDE DEF c, d
  <2> QED BY <2>1 DEF Buffers
<1> HIDE DEF c, size
<1>4. d \in [1..size -> Nat]
  BY <1>1, <1>2, ElementOfSeq, SMTT(30)
<1>5. d \in Seq(Nat) /\ Len(d) = size
  BY <1>2, <1>4
<1>6. \A i \in 1..Len(b.data) : d[i] = b.data[i]
  BY <1>1, <1>2
<1> HIDE DEF d
<1>7. /\ c \in Buffers /\ Ordered(c)
      /\ c.cur = b.cur /\ c.pend = b.pend /\ c.free = b.free
      /\ Len(b.data) <= Len(c.data) /\ n <= free_size(c)
      /\ \A i \in 1..Len(b.data) : c.data[i] = b.data[i]
  BY <1>1, <1>2, <1>3, <1>5, <1>6 DEF Buffers, Ordered, free_size
<1> QED BY <1>7 DEF c

\* The bytes a read takes from the front of the stream become pending behind
\* those that are; nothing else in the buffer changes.
filled(b, n, s) ==
  [b EXCEPT !.free = @ + n,
            !.data = [i \in DOMAIN @ |->
               IF b.free < i /\ i <= b.free + n THEN s[i - b.free] ELSE @[i]]]

\* What a read adds lies behind the bytes the buffer held, which it leaves alone.
LEMMA FilledFacts ==
  ASSUME NEW b \in Buffers, Ordered(b), NEW s \in Seq(Nat), NEW n \in Nat,
         n <= free_size(b), n <= Len(s)
  PROVE  LET c == filled(b, n, s) IN
         /\ c \in Buffers /\ Ordered(c)
         /\ c.cur = b.cur /\ c.pend = b.pend /\ c.free = b.free + n
         /\ Len(c.data) = Len(b.data)
         /\ \A i \in 1..b.free : c.data[i] = b.data[i]
         /\ \A i \in 1..n : c.data[b.free + i] = s[i]
<1> DEFINE c == filled(b, n, s)
<1>0. PICK data \in Seq(Nat), cur \in Nat, pend \in Nat, free \in Nat :
        b = [data |-> data, cur |-> cur, pend |-> pend, free |-> free]
  BY BufferForm
<1>1. /\ b.data = data /\ b.cur = cur /\ b.pend = pend /\ b.free = free
      /\ cur <= pend /\ pend <= free /\ free + n <= Len(data) /\ Len(data) \in Nat
      /\ Len(s) \in Nat
  BY <1>0 DEF Ordered, free_size
<1> DEFINE d == [i \in 1..Len(data) |->
                   IF free < i /\ i <= free + n THEN s[i - free] ELSE data[i]]
<1>2. DOMAIN data = 1..Len(data)
  BY LenProperties
<1>3. c = [data |-> d, cur |-> cur, pend |-> pend, free |-> free + n]
  <2> DEFINE e == [i \in DOMAIN data |->
                     IF free < i /\ i <= free + n THEN s[i - free] ELSE data[i]]
  <2>1. e = d
    BY <1>2
  <2>2. c = [b EXCEPT !.free = free + n, !.data = e]
    BY <1>1 DEF filled
  <2> HIDE DEF c, d, e
  <2> QED BY <1>0, <2>1, <2>2
<1>4. ASSUME NEW i \in 1..Len(data)
      PROVE  (IF free < i /\ i <= free + n THEN s[i - free] ELSE data[i]) \in Nat
  <2>1. CASE free < i /\ i <= free + n
    <3>1. i - free \in 1..Len(s)
      BY <1>1, <2>1
    <3> QED BY <2>1, <3>1, ElementOfSeq
  <2>2. CASE ~(free < i /\ i <= free + n)
    BY <2>2, ElementOfSeq
  <2> QED BY <2>1, <2>2
<1>5. d \in [1..Len(data) -> Nat]
  BY <1>4
<1>6. d \in Seq(Nat) /\ Len(d) = Len(data)
  BY <1>1, <1>5, SMTT(30)
<1>7. ASSUME NEW i \in 1..free PROVE d[i] = data[i]
  BY <1>1
<1>8. ASSUME NEW i \in 1..n PROVE d[free + i] = s[i]
  <2>1. /\ free + i \in 1..Len(data) /\ free < free + i /\ free + i <= free + n
        /\ (free + i) - free = i
    BY <1>1
  <2> QED BY <2>1
<1> HIDE DEF c, d
<1>9. c \in Buffers /\ Ordered(c)
  <2>1. pend <= free + n /\ free + n \in Nat
    BY <1>1
  <2> QED BY <1>1, <1>3, <1>6, <2>1 DEF Buffers, Ordered
<1>10. /\ c.cur = b.cur /\ c.pend = b.pend /\ c.free = b.free + n /\ c.data = d
  BY <1>1, <1>3
<1> QED BY <1>1, <1>6, <1>7, <1>8, <1>9, <1>10 DEF c

-----------------------------------------------------------------------------
(* The writer's side.                                                         *)

\* A slice of a sequence.
LEMMA SliceFacts ==
  ASSUME NEW s \in Seq(Nat), NEW a \in Nat, NEW b \in Nat, a <= b, b <= Len(s)
  PROVE  /\ SubSeq(s, a + 1, b) \in Seq(Nat)
         /\ Len(SubSeq(s, a + 1, b)) = b - a
         /\ \A i \in 1..(b - a) : SubSeq(s, a + 1, b)[i] = s[a + i]
<1>1. \A i \in (a + 1)..b : s[i] \in Nat
  <2> SUFFICES ASSUME NEW i \in (a + 1)..b PROVE s[i] \in Nat
    OBVIOUS
  <2>1. i \in 1..Len(s)
    BY LenProperties
  <2> QED BY <2>1, ElementOfSeq
<1>2. a + 1 \in Int /\ b \in Int
  OBVIOUS
<1> DEFINE m == a + 1
<1>3. m \in Int
  OBVIOUS
<1> HIDE DEF m
<1>4. /\ SubSeq(s, m, b) \in Seq(Nat)
      /\ Len(SubSeq(s, m, b)) = IF m <= b THEN b - m + 1 ELSE 0
      /\ \A i \in 1..(b - m + 1) : SubSeq(s, m, b)[i] = s[m + i - 1]
  BY <1>1, <1>3, SubSeqProperties, SMTT(30) DEF m
<1> QED BY <1>4 DEF m

\* A header's four bytes say the size and the sequence number of its frame.
LEMMA HeaderFacts ==
  ASSUME NEW size \in Nat, NEW seqnum \in Nat
  PROVE  LET h == packet_header(size, seqnum) IN
         /\ h \in Seq(Nat) /\ Len(h) = HEADER_SIZE
         /\ packet_size(h) = size
         /\ sequence_number(h) = seqnum
<1> DEFINE x == size % 256
           y == (size \div 256) % 256
           z == size \div 65536
<1>1. x \in Nat /\ y \in Nat /\ z \in Nat /\ x + 256 * y + 65536 * z = size
  OBVIOUS
<1>2. packet_header(size, seqnum) = <<x, y, z, seqnum>>
  BY DEF packet_header
<1> HIDE DEF x, y, z
<1>3. <<x, y, z, seqnum>> \in Seq(Nat) /\ Len(<<x, y, z, seqnum>>) = 4
  BY <1>1
<1> QED BY <1>1, <1>2, <1>3 DEF HEADER_SIZE, packet_size, sequence_number

\* What follows what in the stream when a frame is added.
LEMMA StreamFacts ==
  ASSUME NEW s \in Seq(Nat), NEW h \in Seq(Nat), NEW f \in Seq(Nat)
  PROVE  /\ (s \o h) \o f \in Seq(Nat)
         /\ Len((s \o h) \o f) = Len(s) + Len(h) + Len(f)
         /\ \A i \in 1..Len(s) : ((s \o h) \o f)[i] = s[i]
         /\ \A i \in 1..Len(h) : ((s \o h) \o f)[Len(s) + i] = h[i]
         /\ \A i \in 1..Len(f) : ((s \o h) \o f)[Len(s) + Len(h) + i] = f[i]
<1> DEFINE t == s \o h
           u == t \o f
<1>0. Len(s) \in Nat /\ Len(h) \in Nat /\ Len(f) \in Nat
  BY LenProperties
<1>1. /\ t \in Seq(Nat) /\ Len(t) = Len(s) + Len(h)
      /\ \A i \in 1..(Len(s) + Len(h)) : t[i] = IF i <= Len(s) THEN s[i] ELSE h[i - Len(s)]
  BY ConcatProperties
<1> HIDE DEF t
<1>2. /\ u \in Seq(Nat) /\ Len(u) = Len(t) + Len(f)
      /\ \A i \in 1..(Len(t) + Len(f)) : u[i] = IF i <= Len(t) THEN t[i] ELSE f[i - Len(t)]
  BY <1>1, ConcatProperties, SMTT(30)
<1> HIDE DEF u
<1>3. ASSUME NEW i \in 1..Len(s) PROVE u[i] = s[i]
  BY <1>0, <1>1, <1>2, SMTT(30)
<1>4. ASSUME NEW i \in 1..Len(h) PROVE u[Len(s) + i] = h[i]
  <2>1. /\ Len(s) + i \in 1..(Len(s) + Len(h)) /\ ~(Len(s) + i <= Len(s))
        /\ (Len(s) + i) - Len(s) = i
    BY <1>0
  <2>2. t[Len(s) + i] = h[i]
    BY <1>1, <2>1
  <2>3. Len(s) + i \in 1..(Len(t) + Len(f)) /\ Len(s) + i <= Len(t)
    BY <1>0, <1>1, <2>1
  <2> QED BY <1>2, <2>2, <2>3
<1>5. ASSUME NEW i \in 1..Len(f) PROVE u[Len(s) + Len(h) + i] = f[i]
  <2>1. /\ Len(t) + i \in 1..(Len(t) + Len(f)) /\ ~(Len(t) + i <= Len(t))
        /\ (Len(t) + i) - Len(t) = i
    BY <1>0, <1>1
  <2> QED BY <1>1, <1>2, <2>1
<1> QED BY <1>1, <1>2, <1>3, <1>4, <1>5 DEF t, u

\* The next frame of a message takes it further, but not beyond its end.
LEMMA ChunkFacts ==
  ASSUME TypeOK, WriterOK
  PROVE  /\ compute_size_to_write \in Nat
         /\ wr.written + compute_size_to_write \in Nat
         /\ wr.written + compute_size_to_write <= Len(wr.msg)
         /\ compute_size_to_write <= MaxFrame
         /\ compute_size_to_write < MaxFrame => wr.written + compute_size_to_write = Len(wr.msg)
<1>1. wr.msg \in Seq(Nat) /\ wr.written \in Nat /\ Len(wr.msg) \in Nat /\ MaxFrame \in Nat
  BY ChannelAssumption, LenProperties DEF TypeOK
<1> QED BY <1>1 DEF compute_size_to_write, Smaller, WriterOK

\* Sequence numbers stay below the modulus.
LEMMA SeqnumFacts == \A s \in Nat : next_seqnum(s) \in 0..(SeqMod - 1)
  BY ChannelAssumption DEF next_seqnum

-----------------------------------------------------------------------------
(* The inductive invariant.                                                   *)

\* A new connection.
LEMMA InitIInv == Init => IInv
<1> SUFFICES ASSUME Init PROVE IInv
  OBVIOUS
<1>1. [i \in 1..InitialBuffer |-> 0] \in Seq(Nat)
  BY ChannelAssumption
<1>2. rb \in Buffers /\ Ordered(rb)
  <2> DEFINE d == [i \in 1..InitialBuffer |-> 0]
  <2>1. d \in Seq(Nat) /\ Len(d) \in Nat
    BY <1>1, LenProperties
  <2>2. rb = [data |-> d, cur |-> 0, pend |-> 0, free |-> 0]
    BY DEF Init
  <2> HIDE DEF d
  <2> QED BY <2>1, <2>2 DEF Buffers, Ordered
<1>3. wr \in [active : BOOLEAN, msg : Seq(Nat), written : Nat, empty : BOOLEAN]
  BY DEF Init, NoWrite
<1>4. wseq \in 0..(SeqMod - 1) /\ rseq \in 0..(SeqMod - 1)
  BY ChannelAssumption DEF Init
<1>5. TypeOK
  <2>1. ps \in [first_frame : BOOLEAN, seq_first : Nat, seq_last : Nat, header : BOOLEAN,
                remaining : Nat, more : BOOLEAN, mismatch : BOOLEAN]
    BY DEF Init, NewState
  <2>2. res \in [has : BOOLEAN, required : Nat, seq_first : Nat, seq_last : Nat,
                 size : Nat, mismatch : BOOLEAN]
    BY DEF Init, NoResult
  <2>3. rpc \in [at : {"idle", "reading", "parsing"}, back : {"idle", "reading"}]
    BY DEF Init
  <2>4. /\ sent \in Seq(Messages) /\ got \in Seq(Seq(Nat)) /\ stream \in Seq(Nat)
        /\ views \in Seq([first : Nat, message : Nat])
    BY EmptySeq DEF Init
  <2>5. down \in BOOLEAN /\ err \in BOOLEAN
    BY DEF Init
  <2> QED BY <1>2, <1>3, <1>4, <2>1, <2>2, <2>3, <2>4, <2>5 DEF TypeOK, Buffers
<1>6. AreasOrdered
  BY <1>2 DEF AreasOrdered, Ordered, Init, NoResult
<1>7. WriterOK
  BY DEF WriterOK, Init, NoWrite
<1> QED BY <1>5, <1>6, <1>7 DEF IInv

\* The writer's part of the types and of the invariant.
WriterTypes ==
  /\ sent \in Seq(Messages)
  /\ wr \in [active : BOOLEAN, msg : Seq(Nat), written : Nat, empty : BOOLEAN]
  /\ wseq \in 0..(SeqMod - 1)

\* The reader's part, without the buffer.
ReaderTypes ==
  /\ got \in Seq(Seq(Nat))
  /\ rseq \in 0..(SeqMod - 1)
  /\ ps \in [first_frame : BOOLEAN, seq_first : Nat, seq_last : Nat, header : BOOLEAN,
             remaining : Nat, more : BOOLEAN, mismatch : BOOLEAN]
  /\ res \in [has : BOOLEAN, required : Nat, seq_first : Nat, seq_last : Nat,
              size : Nat, mismatch : BOOLEAN]
  /\ rpc \in [at : {"idle", "reading", "parsing"}, back : {"idle", "reading"}]
  /\ views \in Seq([first : Nat, message : Nat])
  /\ err \in BOOLEAN

\* The parts make the whole.
LEMMA IInvParts ==
  IInv <=> /\ WriterTypes /\ ReaderTypes
           /\ stream \in Seq(Nat) /\ down \in BOOLEAN
           /\ rb \in Buffers /\ Ordered(rb)
           /\ res.has => res.size <= rb.cur
           /\ WriterOK
  BY DEF IInv, TypeOK, WriterTypes, ReaderTypes, AreasOrdered, Ordered, Buffers

\* The same after a step.
LEMMA IInvPartsPrimed ==
  IInv' <=> /\ WriterTypes' /\ ReaderTypes'
            /\ (stream \in Seq(Nat))' /\ (down \in BOOLEAN)'
            /\ (rb \in Buffers)' /\ Ordered(rb)'
            /\ (res.has => res.size <= rb.cur)'
            /\ WriterOK'
  BY IInvParts, PTL

\* An action that leaves the reader alone keeps the reader's types and areas.
LEMMA ReaderKept ==
  ASSUME IInv, UNCHANGED readerVars
  PROVE  ReaderTypes' /\ rb' \in Buffers /\ Ordered(rb)' /\ (res.has => res.size <= rb.cur)'
  BY IInvParts DEF readerVars, ReaderTypes, Ordered

\* A step that leaves the writer alone keeps its parts.
LEMMA WriterKept ==
  ASSUME IInv, UNCHANGED writerVars
  PROVE  WriterTypes' /\ WriterOK'
  BY IInvParts DEF writerVars, WriterTypes, WriterOK

\* The writer's operations.
LEMMA WriteStep ==
  ASSUME IInv, NEW m \in Messages, Write(m)
  PROVE  IInv'
<1>1. m \in Seq(Nat) /\ Len(m) \in Nat
  BY ChannelAssumption, LenProperties
<1>2. sent' \in Seq(Messages)
  BY IInvParts, AppendProperties DEF Write, WriterTypes
<1>3. WriterTypes' /\ WriterOK'
  <2>1. wr' = [active |-> TRUE, msg |-> m, written |-> 0, empty |-> m = <<>>]
    BY DEF Write
  <2>2. (m = <<>>) \in BOOLEAN
    OBVIOUS
  <2>3. wr' \in [active : BOOLEAN, msg : Seq(Nat), written : Nat, empty : BOOLEAN]
    BY <1>1, <2>1, <2>2
  <2>4. wr'.written = 0 /\ wr'.msg = m
    BY <2>1
  <2> QED BY <1>1, <1>2, <2>3, <2>4, IInvParts DEF Write, WriterTypes, WriterOK
<1>4. UNCHANGED readerVars /\ stream' = stream /\ down' = down
  BY DEF Write
<1> QED BY <1>3, <1>4, ReaderKept, IInvParts, IInvPartsPrimed

\* A frame is written, with its header.
LEMMA WriteChunkStep ==
  ASSUME IInv, WriteChunk
  PROVE  IInv'
<1> DEFINE size    == compute_size_to_write
           written == wr.written + size
           h       == packet_header(size, wseq)
           f       == SubSeq(wr.msg, wr.written + 1, written)
           empty   == send_empty_frame(size, written)
<1>1. /\ size \in Nat /\ written \in Nat /\ wr.written \in Nat /\ wr.written <= written
      /\ written <= Len(wr.msg) /\ wr.msg \in Seq(Nat) /\ wseq \in Nat /\ stream \in Seq(Nat)
  BY ChunkFacts, IInvParts, ChannelAssumption DEF IInv, WriterTypes
<1>2. h \in Seq(Nat)
  BY <1>1, HeaderFacts
<1>3. f \in Seq(Nat)
  BY <1>1, SliceFacts
<1>4. stream' = (stream \o h) \o f
  BY DEF WriteChunk
<1>5. stream' \in Seq(Nat)
  <2> HIDE DEF h, f
  <2> QED BY <1>1, <1>2, <1>3, <1>4, StreamFacts
<1>6. wr' = NoWrite \/ wr' = [wr EXCEPT !.written = written, !.empty = empty]
  BY DEF WriteChunk
<1>7. wr' \in [active : BOOLEAN, msg : Seq(Nat), written : Nat, empty : BOOLEAN] /\ WriterOK'
  <2>1. CASE wr' = NoWrite
    BY <2>1 DEF NoWrite, WriterOK
  <2>2. CASE wr' = [wr EXCEPT !.written = written, !.empty = empty]
    <3>1. empty \in BOOLEAN
      BY DEF send_empty_frame
    <3>2. wr \in [active : BOOLEAN, msg : Seq(Nat), written : Nat, empty : BOOLEAN]
      BY IInvParts DEF WriterTypes
    <3> HIDE DEF empty, written, size
    <3> QED BY <1>1, <2>2, <3>1, <3>2 DEF WriterOK
  <2> QED BY <1>6, <2>1, <2>2
<1>8. wseq' \in 0..(SeqMod - 1)
  BY <1>1, SeqnumFacts DEF WriteChunk
<1>9. UNCHANGED readerVars /\ sent' = sent /\ down' = down
  BY DEF WriteChunk
<1>10. WriterTypes'
  BY <1>7, <1>8, <1>9, IInvParts DEF WriterTypes
<1> QED BY <1>5, <1>7, <1>9, <1>10, ReaderKept, IInvParts, IInvPartsPrimed

\* Part of a sequence behind another.
LEMMA PrefixFacts ==
  ASSUME NEW s \in Seq(Nat), NEW c \in Seq(Nat), NEW n \in 0..Len(c)
  PROVE  /\ s \o SubSeq(c, 1, n) \in Seq(Nat)
         /\ Len(s \o SubSeq(c, 1, n)) = Len(s) + n
         /\ \A i \in 1..Len(s) : (s \o SubSeq(c, 1, n))[i] = s[i]
         /\ \A i \in 1..n : (s \o SubSeq(c, 1, n))[Len(s) + i] = c[i]
<1> DEFINE f == SubSeq(c, 1, n)
<1>1. n \in Nat /\ n <= Len(c) /\ Len(c) \in Nat /\ Len(s) \in Nat
  BY LenProperties
<1>2. f \in Seq(Nat) /\ Len(f) = n /\ \A i \in 1..n : f[i] = c[i]
  <2>1. /\ SubSeq(c, 0 + 1, n) \in Seq(Nat)
        /\ Len(SubSeq(c, 0 + 1, n)) = n - 0
        /\ \A i \in 1..(n - 0) : SubSeq(c, 0 + 1, n)[i] = c[0 + i]
    BY <1>1, SliceFacts
  <2>2. 0 + 1 = 1 /\ n - 0 = n /\ \A i \in 1..n : 0 + i = i
    BY <1>1
  <2> QED BY <2>1, <2>2
<1> HIDE DEF f
<1>3. /\ s \o f \in Seq(Nat) /\ Len(s \o f) = Len(s) + Len(f)
      /\ \A i \in 1..(Len(s) + Len(f)) : (s \o f)[i] = IF i <= Len(s) THEN s[i] ELSE f[i - Len(s)]
  BY <1>2, ConcatProperties
<1>4. ASSUME NEW i \in 1..Len(s) PROVE (s \o f)[i] = s[i]
  BY <1>1, <1>2, <1>3
<1>5. ASSUME NEW i \in 1..n PROVE (s \o f)[Len(s) + i] = c[i]
  <2>1. /\ Len(s) + i \in 1..(Len(s) + Len(f)) /\ ~(Len(s) + i <= Len(s))
        /\ (Len(s) + i) - Len(s) = i
    BY <1>1, <1>2
  <2> QED BY <1>2, <1>3, <2>1
<1> QED BY <1>2, <1>3, <1>4, <1>5 DEF f

\* A write fails, having put some part of a frame on the stream.
LEMMA WriteFailsStep ==
  ASSUME IInv, WriteFails
  PROVE  IInv'
<1> DEFINE size  == compute_size_to_write
           h     == packet_header(size, wseq)
           f     == SubSeq(wr.msg, wr.written + 1, wr.written + size)
           chunk == h \o f
<1>1. /\ size \in Nat /\ wr.written + size \in Nat /\ wr.written \in Nat
      /\ wr.written <= wr.written + size
      /\ wr.written + size <= Len(wr.msg) /\ wr.msg \in Seq(Nat) /\ wseq \in Nat
      /\ stream \in Seq(Nat)
  BY ChunkFacts, IInvParts, ChannelAssumption DEF IInv, WriterTypes
<1>2. h \in Seq(Nat)
  BY <1>1, HeaderFacts
<1>3. f \in Seq(Nat)
  BY <1>1, SliceFacts
<1>4. chunk \in Seq(Nat) /\ Len(chunk) = Len(h) + Len(f) /\ Len(h) = 4 /\ Len(f) \in Nat
  <2>1. Len(h) = 4
    BY <1>1, HeaderFacts DEF HEADER_SIZE
  <2> HIDE DEF h, f
  <2> QED BY <1>2, <1>3, <2>1, ConcatProperties, LenProperties
<1>5. PICK n \in 0..Len(chunk) : stream' = stream \o SubSeq(chunk, 1, n)
  <2>1. PICK n \in 0..(IF down THEN 0 ELSE Len(chunk) - 1) : stream' = stream \o SubSeq(chunk, 1, n)
    BY DEF WriteFails
  <2> HIDE DEF chunk, h, f
  <2>2. Len(chunk) \in Nat /\ Len(chunk) >= 1
    BY <1>4
  <2>3. n \in 0..Len(chunk)
    <3>1. CASE down
      BY <2>1, <2>2, <3>1
    <3>2. CASE ~down
      <4>1. n \in 0..(Len(chunk) - 1)
        BY <2>1, <3>2
      <4> QED BY <2>2, <4>1
    <3> QED BY <3>1, <3>2
  <2> QED BY <2>1, <2>3
<1>6. stream' \in Seq(Nat)
  <2> HIDE DEF chunk
  <2> QED BY <1>1, <1>4, <1>5, PrefixFacts
<1>7. WriterTypes' /\ WriterOK'
  <2>1. wr' = NoWrite /\ sent' = sent /\ wseq' \in 0..(SeqMod - 1)
    BY <1>1, SeqnumFacts DEF WriteFails
  <2> QED BY <2>1, IInvParts DEF WriterTypes, WriterOK, NoWrite
<1>8. UNCHANGED readerVars /\ down' = TRUE
  BY DEF WriteFails
<1> QED BY <1>6, <1>7, <1>8, ReaderKept, IInvParts, IInvPartsPrimed

\* The reader's operations.

\* Where a read loop or a parse may end.
LEMMA RpcTypes ==
  ASSUME IInv
  PROVE  /\ [rpc EXCEPT !.at = rpc.back] \in [at : {"idle", "reading", "parsing"}, back : {"idle", "reading"}]
         /\ [rpc EXCEPT !.at = "parsing"] \in [at : {"idle", "reading", "parsing"}, back : {"idle", "reading"}]
  BY IInvParts DEF ReaderTypes

\* What ParseHeader takes out of the buffer: four bytes, and a size.
HeaderBytes == SubSeq(rb.data, rb.pend + 1, rb.pend + HEADER_SIZE)

\* They are in the buffer, and tell a size and a number.
LEMMA HeaderBytesFacts ==
  ASSUME IInv, HEADER_SIZE <= pending_size(rb)
  PROVE  /\ HeaderBytes \in Seq(Nat) /\ Len(HeaderBytes) = HEADER_SIZE
         /\ \A i \in 1..HEADER_SIZE :
              HeaderBytes[i] \in Nat /\ HeaderBytes[i] = rb.data[rb.pend + i]
         /\ packet_size(HeaderBytes) \in Nat /\ sequence_number(HeaderBytes) \in Nat
<1>0. PICK data \in Seq(Nat), cur \in Nat, pend \in Nat, free \in Nat :
        rb = [data |-> data, cur |-> cur, pend |-> pend, free |-> free]
  BY IInvParts, BufferForm
<1>1. /\ rb.data = data /\ rb.pend = pend
      /\ pend + 4 <= Len(data) /\ Len(data) \in Nat
  BY <1>0, IInvParts DEF Ordered, pending_size, HEADER_SIZE
<1>2. PICK to \in Nat : to = pend + 4 /\ pend <= to /\ to <= Len(data) /\ to - pend = 4
  BY <1>1
<1> DEFINE h == SubSeq(data, pend + 1, to)
<1>3. HeaderBytes = h
  BY <1>1, <1>2 DEF HeaderBytes, HEADER_SIZE
<1>4. h \in Seq(Nat) /\ Len(h) = to - pend /\ \A i \in 1..(to - pend) : h[i] = data[pend + i]
  BY <1>2, SliceFacts
<1> HIDE DEF h
<1>5. \A i \in 1..4 : h[i] \in Nat
  BY <1>2, <1>4, ElementOfSeq
<1>6. h[1] \in Nat /\ h[2] \in Nat /\ h[3] \in Nat /\ h[4] \in Nat
  BY <1>5
<1>7. packet_size(h) \in Nat /\ sequence_number(h) \in Nat
  <2>1. PICK x \in Nat, y \in Nat, z \in Nat : x = h[1] /\ y = h[2] /\ z = h[3]
    BY <1>6
  <2>2. x + 256 * y + 65536 * z \in Nat
    OBVIOUS
  <2>3. packet_size(h) = x + 256 * y + 65536 * z
    BY <2>1 DEF packet_size
  <2> QED BY <1>6, <2>2, <2>3 DEF sequence_number
<1>8. Len(h) = 4 /\ \A i \in 1..4 : h[i] \in Nat /\ h[i] = data[pend + i]
  BY <1>2, <1>4, <1>5
<1>9. \A i \in 1..4 : h[i] \in Nat /\ h[i] = rb.data[rb.pend + i]
  BY <1>1, <1>8
<1>10. HeaderBytes \in Seq(Nat) /\ Len(HeaderBytes) = 4
  BY <1>3, <1>4, <1>8
<1>11. packet_size(HeaderBytes) \in Nat /\ sequence_number(HeaderBytes) \in Nat
  BY <1>3, <1>7
<1>12. \A i \in 1..4 : HeaderBytes[i] \in Nat /\ HeaderBytes[i] = rb.data[rb.pend + i]
  BY <1>3, <1>9
<1> QED BY <1>10, <1>11, <1>12 DEF HEADER_SIZE

\* The parser's state behind a header, field by field.
LEMMA ProcessHeaderFacts ==
  ASSUME IInv, NEW h, packet_size(h) \in Nat, sequence_number(h) \in Nat
  PROVE  /\ process_header(h) \in
              [first_frame : BOOLEAN, seq_first : Nat, seq_last : Nat, header : BOOLEAN,
               remaining : Nat, more : BOOLEAN, mismatch : BOOLEAN]
         /\ ~process_header(h).first_frame /\ ~process_header(h).header
         /\ process_header(h).remaining = packet_size(h)
         /\ process_header(h).more <=> packet_size(h) = MaxFrame
         /\ process_header(h).seq_first = IF ps.first_frame THEN sequence_number(h) ELSE ps.seq_first
         /\ process_header(h).seq_last = IF ps.first_frame THEN sequence_number(h) ELSE expected_seqnum
         /\ process_header(h).mismatch <=>
              ps.mismatch \/ (~ps.first_frame /\ sequence_number(h) # expected_seqnum)
<1> DEFINE x == IF ps.first_frame THEN sequence_number(h) ELSE ps.seq_first
           y == IF ps.first_frame THEN sequence_number(h) ELSE expected_seqnum
           z == packet_size(h) = MaxFrame
           w == ps.mismatch \/ (~ps.first_frame /\ sequence_number(h) # expected_seqnum)
<1>1. expected_seqnum \in Nat
  BY SeqnumFacts, IInvParts, ChannelAssumption, SMTT(30) DEF expected_seqnum, ReaderTypes
<1>2. x \in Nat /\ y \in Nat
  BY <1>1, IInvParts DEF ReaderTypes
<1>3. z \in BOOLEAN
  OBVIOUS
<1>4. w \in BOOLEAN
  OBVIOUS
<1>5. process_header(h) =
        [first_frame |-> FALSE, seq_first |-> x, seq_last |-> y, header |-> FALSE,
         remaining |-> packet_size(h), more |-> z, mismatch |-> w]
  BY DEF process_header
<1> HIDE DEF x, y, z, w
<1>6. /\ process_header(h) \in
              [first_frame : BOOLEAN, seq_first : Nat, seq_last : Nat, header : BOOLEAN,
               remaining : Nat, more : BOOLEAN, mismatch : BOOLEAN]
      /\ process_header(h).first_frame = FALSE /\ process_header(h).header = FALSE
      /\ process_header(h).remaining = packet_size(h)
      /\ process_header(h).more = z /\ process_header(h).mismatch = w
      /\ process_header(h).seq_first = x /\ process_header(h).seq_last = y
  BY <1>2, <1>3, <1>4, <1>5
<1>7. process_header(h).more <=> z
  BY <1>6, Zenon
<1>8. process_header(h).mismatch <=> w
  BY <1>6, Zenon
<1> QED BY <1>6, <1>7, <1>8 DEF x, y, z, w

\* The parser takes a header, or finds that it has too few bytes.
LEMMA ParseHeaderStep ==
  ASSUME IInv, ParseHeader
  PROVE  IInv'
<1>0. /\ UNCHANGED writerVars /\ stream' = stream /\ down' = down
      /\ got' = got /\ rseq' = rseq /\ views' = views /\ err' = err
  BY DEF ParseHeader
<1>1. CASE pending_size(rb) < HEADER_SIZE
  <2>1. /\ rb' = rb /\ ps' = ps
        /\ res' = [res EXCEPT !.has = FALSE, !.required = HEADER_SIZE - pending_size(rb)]
        /\ rpc' = [rpc EXCEPT !.at = rpc.back]
    BY <1>1, IInvParts DEF ParseHeader, Buffers, pending_size, HEADER_SIZE
  <2>2. HEADER_SIZE - pending_size(rb) \in Nat
    BY <1>1, IInvParts DEF Buffers, pending_size, Ordered, HEADER_SIZE
  <2>3. ReaderTypes' /\ ~res'.has
    BY <1>0, <2>1, <2>2, RpcTypes, IInvParts DEF ReaderTypes
  <2>4. rb' \in Buffers /\ Ordered(rb)'
    BY <2>1, IInvParts DEF Ordered
  <2> QED BY <1>0, <2>3, <2>4, WriterKept, IInvParts, IInvPartsPrimed
<1>2. CASE pending_size(rb) >= HEADER_SIZE
  <2> DEFINE h == HeaderBytes
             b == move_to_current_message(rb, HEADER_SIZE)
             c == IF ps.first_frame THEN move_to_reserved(b, HEADER_SIZE)
                  ELSE remove_current_message_last(b, HEADER_SIZE)
  <2>1. ps' = process_header(h) /\ rb' = c /\ res' = res /\ rpc' = rpc
    <3>1. ~(pending_size(rb) < HEADER_SIZE)
      BY <1>2, IInvParts DEF Buffers, pending_size, HEADER_SIZE
    <3> QED BY <3>1 DEF ParseHeader, HeaderBytes
  <2> USE DEF HEADER_SIZE
  <2>2. ReaderTypes'
    <3>1. packet_size(h) \in Nat /\ sequence_number(h) \in Nat
      BY <1>2, HeaderBytesFacts DEF pending_size, HEADER_SIZE
    <3>2. ps' \in [first_frame : BOOLEAN, seq_first : Nat, seq_last : Nat, header : BOOLEAN,
                   remaining : Nat, more : BOOLEAN, mismatch : BOOLEAN]
      BY <2>1, <3>1, ProcessHeaderFacts
    <3> QED BY <1>0, <2>1, <3>2, IInvParts DEF ReaderTypes
  <2>3. /\ b \in Buffers /\ Ordered(b)
        /\ b = [data |-> rb.data, cur |-> rb.cur, pend |-> rb.pend + HEADER_SIZE, free |-> rb.free]
        /\ HEADER_SIZE <= current_message_size(b)
    <3>1. rb \in Buffers /\ Ordered(rb) /\ HEADER_SIZE <= pending_size(rb)
      BY <1>2, IInvParts DEF pending_size, Buffers
    <3>2. /\ b \in Buffers /\ Ordered(b)
          /\ b = [data |-> rb.data, cur |-> rb.cur, pend |-> rb.pend + HEADER_SIZE, free |-> rb.free]
      BY <3>1, MoveFacts
    <3> HIDE DEF b
    <3>3. b.pend = rb.pend + HEADER_SIZE /\ b.cur = rb.cur
      BY <3>2
    <3> QED BY <3>1, <3>2, <3>3 DEF current_message_size, Buffers, Ordered
  <2> HIDE DEF b
  <2>4. c \in Buffers /\ Ordered(c) /\ rb.cur <= c.cur
    <3>1. b.cur = rb.cur /\ rb.cur \in Nat
      BY <2>3, IInvParts DEF Buffers
    <3>2. CASE ps.first_frame
      <4>1. c = move_to_reserved(b, HEADER_SIZE)
        BY <3>2
      <4> HIDE DEF c
      <4>2. c \in Buffers /\ Ordered(c) /\ c.cur = b.cur + HEADER_SIZE
        BY <2>3, <4>1, MoveFacts
      <4> QED BY <3>1, <4>2
    <3>3. CASE ~ps.first_frame
      <4>1. c = remove_current_message_last(b, HEADER_SIZE)
        BY <3>3
      <4> HIDE DEF c
      <4>2. c \in Buffers /\ Ordered(c) /\ c.cur = b.cur
        BY <2>3, <4>1, RemoveLastFacts
      <4> QED BY <3>1, <4>2
    <3> QED BY <3>2, <3>3
  <2>5. (res.has => res.size <= rb.cur)'
    <3> HIDE DEF c
    <3> QED BY <2>1, <2>4, IInvParts, SMTT(30) DEF ReaderTypes, Buffers
  <2>6. rb' \in Buffers /\ Ordered(rb)'
    BY <2>1, <2>4 DEF Ordered
  <2> QED BY <1>0, <2>2, <2>5, <2>6, WriterKept, IInvParts, IInvPartsPrimed
<1> QED BY <1>1, <1>2 DEF ParseHeader

\* What ParseBody takes for the current message.
LEMMA BodyFacts ==
  ASSUME IInv
  PROVE  LET new == Smaller(pending_size(rb), ps.remaining)
             b   == move_to_current_message(rb, new)
         IN  /\ new \in Nat /\ new <= pending_size(rb) /\ new <= ps.remaining
             /\ new < ps.remaining => new = pending_size(rb)
             /\ b \in Buffers /\ Ordered(b)
             /\ b = [data |-> rb.data, cur |-> rb.cur, pend |-> rb.pend + new, free |-> rb.free]
             /\ current_message_size(b) \in Nat
             /\ current_message_size(b) = rb.pend + new - rb.cur
             /\ move_to_reserved(b, current_message_size(b)) \in Buffers
             /\ Ordered(move_to_reserved(b, current_message_size(b)))
             /\ move_to_reserved(b, current_message_size(b)) =
                  [data |-> rb.data, cur |-> rb.pend + new, pend |-> rb.pend + new, free |-> rb.free]
<1> DEFINE new == Smaller(pending_size(rb), ps.remaining)
           b   == move_to_current_message(rb, new)
<1>1. rb \in Buffers /\ Ordered(rb) /\ pending_size(rb) \in Nat /\ ps.remaining \in Nat
      /\ rb.cur \in Nat /\ rb.pend \in Nat /\ rb.cur <= rb.pend
  BY IInvParts DEF Buffers, Ordered, pending_size, ReaderTypes
<1>2. new \in Nat /\ new <= pending_size(rb) /\ new <= ps.remaining
      /\ (new < ps.remaining => new = pending_size(rb))
  BY <1>1 DEF Smaller
<1> HIDE DEF new
<1>3. /\ b \in Buffers /\ Ordered(b)
      /\ b = [data |-> rb.data, cur |-> rb.cur, pend |-> rb.pend + new, free |-> rb.free]
  BY <1>1, <1>2, MoveFacts
<1> HIDE DEF b
<1>4. /\ b.pend = rb.pend + new /\ b.cur = rb.cur /\ b.data = rb.data /\ b.free = rb.free
      /\ current_message_size(b) \in Nat
      /\ current_message_size(b) = rb.pend + new - rb.cur
  BY <1>1, <1>2, <1>3 DEF current_message_size
<1>5. PICK s \in Nat : s = current_message_size(b)
  BY <1>4
<1>6. /\ move_to_reserved(b, s) \in Buffers
      /\ Ordered(move_to_reserved(b, s))
      /\ move_to_reserved(b, s) =
           [data |-> b.data, cur |-> b.cur + s, pend |-> b.pend, free |-> b.free]
  BY <1>3, <1>5, MoveFacts
<1>7. b.cur + s = rb.pend + new
  BY <1>1, <1>2, <1>4, <1>5
<1> QED BY <1>2, <1>3, <1>4, <1>5, <1>6, <1>7 DEF new, b

\* The parser takes a frame's body, or what there is of it.
LEMMA ParseBodyStep ==
  ASSUME IInv, ParseBody
  PROVE  IInv'
<1> DEFINE new  == Smaller(pending_size(rb), ps.remaining)
           b    == move_to_current_message(rb, new)
           size == current_message_size(b)
           c    == move_to_reserved(b, size)
<1>0. /\ UNCHANGED writerVars /\ stream' = stream /\ down' = down
      /\ got' = got /\ rseq' = rseq /\ views' = views /\ err' = err
  BY DEF ParseBody
<1>1. /\ new \in Nat /\ new <= ps.remaining /\ ps.remaining \in Nat
      /\ b \in Buffers /\ Ordered(b)
      /\ b = [data |-> rb.data, cur |-> rb.cur, pend |-> rb.pend + new, free |-> rb.free]
      /\ size \in Nat /\ size <= rb.pend + new /\ rb.pend \in Nat
      /\ c \in Buffers /\ Ordered(c)
      /\ c = [data |-> rb.data, cur |-> rb.pend + new, pend |-> rb.pend + new, free |-> rb.free]
  <2>1. rb.pend \in Nat /\ rb.cur \in Nat /\ ps.remaining \in Nat
    BY IInvParts DEF Buffers, ReaderTypes
  <2>2. /\ new \in Nat /\ new <= ps.remaining
        /\ b \in Buffers /\ Ordered(b)
        /\ b = [data |-> rb.data, cur |-> rb.cur, pend |-> rb.pend + new, free |-> rb.free]
        /\ size \in Nat /\ size = rb.pend + new - rb.cur
        /\ c \in Buffers /\ Ordered(c)
        /\ c = [data |-> rb.data, cur |-> rb.pend + new, pend |-> rb.pend + new, free |-> rb.free]
    BY BodyFacts
  <2> HIDE DEF new, b, size, c
  <2>3. size <= rb.pend + new
    BY <2>1, <2>2
  <2> QED BY <2>1, <2>2, <2>3
<1>2. \/ /\ rb' = b
         /\ ps' = [ps EXCEPT !.remaining = @ - new]
         /\ res' = [res EXCEPT !.has = FALSE, !.required = ps.remaining - new]
         /\ rpc' = [rpc EXCEPT !.at = rpc.back]
      \/ /\ rb' = b
         /\ ps' = [ps EXCEPT !.remaining = 0, !.header = TRUE]
         /\ UNCHANGED <<res, rpc>>
      \/ /\ rb' = c
         /\ res' = [has |-> TRUE, required |-> res.required,
                    seq_first |-> ps.seq_first, seq_last |-> ps.seq_last,
                    size |-> size, mismatch |-> ps.mismatch]
         /\ ps' = NewState
         /\ rpc' = [at |-> "idle", back |-> "idle"]
  BY DEF ParseBody
<1> HIDE DEF new, b, size, c
<1>3. CASE /\ rb' = b
           /\ ps' = [ps EXCEPT !.remaining = @ - new]
           /\ res' = [res EXCEPT !.has = FALSE, !.required = ps.remaining - new]
           /\ rpc' = [rpc EXCEPT !.at = rpc.back]
  <2>1. ps.remaining - new \in Nat
    BY <1>1
  <2>2. ReaderTypes' /\ ~res'.has
    BY <1>0, <1>3, <2>1, RpcTypes, IInvParts DEF ReaderTypes
  <2>3. rb' \in Buffers /\ Ordered(rb)'
    BY <1>1, <1>3 DEF Ordered
  <2> QED BY <1>0, <2>2, <2>3, WriterKept, IInvParts, IInvPartsPrimed
<1>4. CASE /\ rb' = b
           /\ ps' = [ps EXCEPT !.remaining = 0, !.header = TRUE]
           /\ UNCHANGED <<res, rpc>>
  <2>1. ReaderTypes'
    BY <1>0, <1>4, IInvParts DEF ReaderTypes
  <2>2. rb' \in Buffers /\ Ordered(rb)' /\ (res.has => res.size <= rb.cur)'
    BY <1>1, <1>4, IInvParts DEF Ordered
  <2> QED BY <1>0, <2>1, <2>2, WriterKept, IInvParts, IInvPartsPrimed
<1>5. CASE /\ rb' = c
           /\ res' = [has |-> TRUE, required |-> res.required,
                      seq_first |-> ps.seq_first, seq_last |-> ps.seq_last,
                      size |-> size, mismatch |-> ps.mismatch]
           /\ ps' = NewState
           /\ rpc' = [at |-> "idle", back |-> "idle"]
  <2>1. ReaderTypes'
    <3>1. ps' \in [first_frame : BOOLEAN, seq_first : Nat, seq_last : Nat, header : BOOLEAN,
                   remaining : Nat, more : BOOLEAN, mismatch : BOOLEAN]
      BY <1>5 DEF NewState
    <3>2. res' \in [has : BOOLEAN, required : Nat, seq_first : Nat, seq_last : Nat,
                    size : Nat, mismatch : BOOLEAN]
      BY <1>1, <1>5, IInvParts DEF ReaderTypes
    <3>3. rpc' \in [at : {"idle", "reading", "parsing"}, back : {"idle", "reading"}]
      BY <1>5
    <3> QED BY <1>0, <3>1, <3>2, <3>3, IInvParts DEF ReaderTypes
  <2>2. rb' \in Buffers /\ Ordered(rb)'
    BY <1>1, <1>5 DEF Ordered
  <2>3. (res.has => res.size <= rb.cur)'
    <3>1. rb'.cur = rb.pend + new /\ res'.size = size
      BY <1>1, <1>5
    <3> QED BY <1>1, <3>1
  <2> QED BY <1>0, <2>1, <2>2, <2>3, WriterKept, IInvParts, IInvPartsPrimed
<1> QED BY <1>2, <1>3, <1>4, <1>5

\* A read begins: the reserved area may be closed up.
LEMMA ReadSomeStep ==
  ASSUME IInv, NEW keep \in BOOLEAN, ReadSome(keep)
  PROVE  IInv'
<1>0. /\ UNCHANGED writerVars /\ stream' = stream /\ down' = down
      /\ got' = got /\ ps' = ps /\ res' = res /\ rseq' = rseq /\ err' = err
      /\ rpc' = [at |-> "reading", back |-> "reading"] /\ ~res.has
  BY DEF ReadSome
<1>1. /\ rb' \in Buffers /\ Ordered(rb)'
      /\ views' \in Seq([first : Nat, message : Nat])
  <2>1. CASE rb' = rb /\ views' = views
    BY <2>1, IInvParts DEF ReaderTypes, Ordered
  <2>2. CASE rb' = remove_reserved(rb) /\ views' = <<>>
    <3>1. remove_reserved(rb) \in Buffers /\ Ordered(remove_reserved(rb))
      BY IInvParts, RemoveReservedFacts
    <3> QED BY <2>2, <3>1, EmptySeq DEF Ordered
  <2> QED BY <2>1, <2>2 DEF ReadSome
<1>2. ReaderTypes'
  BY <1>0, <1>1, IInvParts DEF ReaderTypes
<1> QED BY <1>0, <1>1, <1>2, WriterKept, IInvParts, IInvPartsPrimed

\* What ReadBytes leaves in the buffer and in the stream.
LEMMA ReadBytesForm ==
  ASSUME IInv, ReadBytes
  PROVE  LET b == grown(rb, res.required) IN
         \E n \in Nat :
            /\ n <= free_size(b) /\ n <= Len(stream)
            /\ n = 0 <=> free_size(b) = 0
            /\ rb' = filled(b, n, stream)
            /\ stream' = SubSeq(stream, n + 1, Len(stream))
<1> DEFINE b == grown(rb, res.required)
<1>1. res.required \in Nat /\ rb \in Buffers /\ Ordered(rb) /\ stream \in Seq(Nat)
  BY IInvParts DEF ReaderTypes
<1>2. b \in Buffers /\ Ordered(b)
  BY <1>1, GrownFacts
<1>3. free_size(b) \in Nat /\ Len(stream) \in Nat
  <2> HIDE DEF b
  <2> QED BY <1>1, <1>2, LenProperties, SMTT(30) DEF Buffers, Ordered, free_size
<1>4. PICK n \in 0..Smaller(free_size(b), Len(stream)) :
         /\ n = 0 <=> free_size(b) = 0
         /\ rb' = filled(b, n, stream)
         /\ stream' = SubSeq(stream, n + 1, Len(stream))
  BY DEF ReadBytes, filled
<1>5. n \in Nat /\ n <= free_size(b) /\ n <= Len(stream)
  <2> HIDE DEF b
  <2> QED BY <1>3, <1>4 DEF Smaller
<1> QED BY <1>4, <1>5

\* The stream delivers bytes.
LEMMA ReadBytesStep ==
  ASSUME IInv, ReadBytes
  PROVE  IInv'
<1> DEFINE b == grown(rb, res.required)
<1>0. /\ UNCHANGED writerVars /\ down' = down
      /\ got' = got /\ ps' = ps /\ res' = res /\ rseq' = rseq /\ views' = views /\ err' = err
      /\ rpc' = [rpc EXCEPT !.at = "parsing"]
  BY DEF ReadBytes
<1>1. res.required \in Nat /\ rb \in Buffers /\ Ordered(rb) /\ stream \in Seq(Nat)
  BY IInvParts DEF ReaderTypes
<1>2. b \in Buffers /\ Ordered(b) /\ b.cur = rb.cur
  BY <1>1, GrownFacts
<1>3. PICK n \in Nat :
         /\ n <= free_size(b) /\ n <= Len(stream)
         /\ rb' = filled(b, n, stream)
         /\ stream' = SubSeq(stream, n + 1, Len(stream))
  BY ReadBytesForm
<1> HIDE DEF b
<1>4. rb' \in Buffers /\ Ordered(rb') /\ rb'.cur = rb.cur
  BY <1>1, <1>2, <1>3, FilledFacts
<1>5. stream' \in Seq(Nat)
  BY <1>1, <1>3, SliceFacts, LenProperties
<1>6. ReaderTypes'
  BY <1>0, RpcTypes, IInvParts DEF ReaderTypes
<1>7. Ordered(rb)' /\ (res.has => res.size <= rb.cur)'
  BY <1>0, <1>4, IInvParts DEF Ordered
<1> QED BY <1>0, <1>4, <1>5, <1>6, <1>7, WriterKept, IInvParts, IInvPartsPrimed

\* A read fails, after the buffer was grown for it.
LEMMA ReadFailsStep ==
  ASSUME IInv, ReadFails
  PROVE  IInv'
<1>0. /\ UNCHANGED writerVars /\ stream' = stream /\ down' = down
      /\ got' = got /\ ps' = ps /\ res' = res /\ rseq' = rseq /\ views' = views /\ err' = err
      /\ rpc' = [at |-> "idle", back |-> "idle"]
      /\ rb' = grown(rb, res.required)
  BY DEF ReadFails
<1>1. res.required \in Nat /\ rb \in Buffers /\ Ordered(rb)
  BY IInvParts DEF ReaderTypes
<1>2. rb' \in Buffers /\ Ordered(rb') /\ rb'.cur = rb.cur
  BY <1>0, <1>1, GrownFacts
<1>3. ReaderTypes'
  BY <1>0, IInvParts DEF ReaderTypes
<1>4. Ordered(rb)' /\ (res.has => res.size <= rb.cur)'
  BY <1>0, <1>2, IInvParts DEF Ordered
<1> QED BY <1>0, <1>2, <1>3, <1>4, WriterKept, IInvParts, IInvPartsPrimed

\* The message that is ready, as it lies in the buffer.
LEMMA ReadyFacts ==
  ASSUME IInv, res.has
  PROVE  LET first == rb.cur - res.size
             m     == SubSeq(rb.data, first + 1, rb.cur)
         IN  /\ first \in Nat
             /\ m \in Seq(Nat) /\ Len(m) = res.size
             /\ \A i \in 1..res.size : m[i] = rb.data[first + i]
<1>1. /\ rb.data \in Seq(Nat) /\ rb.cur \in Nat /\ res.size \in Nat /\ res.size <= rb.cur
      /\ rb.cur <= rb.pend /\ rb.pend <= rb.free /\ rb.free <= Len(rb.data)
      /\ rb.pend \in Nat /\ rb.free \in Nat /\ Len(rb.data) \in Nat
  BY IInvParts DEF Buffers, Ordered, ReaderTypes
<1>2. PICK first \in Nat, to \in Nat, size \in Nat, data \in Seq(Nat) :
        /\ first = rb.cur - res.size /\ to = rb.cur /\ size = res.size /\ data = rb.data
        /\ first <= to /\ to <= Len(data) /\ to - first = size
  BY <1>1, SMTT(30)
<1>3. /\ SubSeq(data, first + 1, to) \in Seq(Nat)
      /\ Len(SubSeq(data, first + 1, to)) = to - first
      /\ \A i \in 1..(to - first) : SubSeq(data, first + 1, to)[i] = data[first + i]
  BY <1>2, SliceFacts, ZenonT(40)
<1> QED BY <1>2, <1>3

\* A message is handed out.
LEMMA GetNextMessageStep ==
  ASSUME IInv, GetNextMessage
  PROVE  IInv'
<1> DEFINE first == rb.cur - res.size
           m     == SubSeq(rb.data, first + 1, rb.cur)
<1>0. /\ UNCHANGED writerVars /\ stream' = stream /\ down' = down
      /\ rb' = rb /\ ps' = ps /\ res' = res /\ res.has
  BY DEF GetNextMessage
<1>1. ReaderTypes'
  <2>1. CASE err' = TRUE /\ UNCHANGED <<got, rseq, views, rpc>>
    BY <1>0, <2>1, IInvParts DEF ReaderTypes
  <2>2. CASE /\ rseq' = next_seqnum(res.seq_last)
             /\ got' = Append(got, m)
             /\ views' = Append(views, [first |-> first, message |-> Len(got) + 1])
             /\ rpc' = [at |-> "parsing", back |-> "idle"]
             /\ UNCHANGED err
    <3>1. first \in Nat /\ m \in Seq(Nat)
      BY <1>0, ReadyFacts
    <3>2. /\ got \in Seq(Seq(Nat)) /\ views \in Seq([first : Nat, message : Nat])
          /\ Len(got) \in Nat /\ res.seq_last \in Nat
      BY IInvParts, LenProperties DEF ReaderTypes
    <3> HIDE DEF m, first
    <3>3. got' \in Seq(Seq(Nat))
      BY <2>2, <3>1, <3>2, AppendProperties
    <3>4. views' \in Seq([first : Nat, message : Nat])
      BY <2>2, <3>1, <3>2, AppendProperties
    <3>5. rseq' \in 0..(SeqMod - 1)
      BY <2>2, <3>2, SeqnumFacts
    <3> QED BY <1>0, <2>2, <3>3, <3>4, <3>5, IInvParts DEF ReaderTypes
  <2> QED BY <2>1, <2>2 DEF GetNextMessage
<1>2. Ordered(rb)' /\ (res.has => res.size <= rb.cur)' /\ rb' \in Buffers
  BY <1>0, IInvParts DEF Ordered
<1> QED BY <1>0, <1>1, <1>2, WriterKept, IInvParts, IInvPartsPrimed

\* The stream is lost.
LEMMA LoseStep ==
  ASSUME IInv, Lose
  PROVE  IInv'
<1>1. UNCHANGED writerVars /\ UNCHANGED readerVars /\ stream' = stream /\ down' = TRUE
  BY DEF Lose
<1> QED BY <1>1, WriterKept, ReaderKept, IInvParts, IInvPartsPrimed

\* Every step keeps the invariant.
LEMMA StepIInv == IInv /\ [Next]_vars => IInv'
<1> SUFFICES ASSUME IInv, [Next]_vars PROVE IInv'
  OBVIOUS
<1>1. CASE \E m \in Messages : Write(m)
  BY <1>1, WriteStep
<1>2. CASE WriteChunk
  BY <1>2, WriteChunkStep
<1>3. CASE WriteFails
  BY <1>3, WriteFailsStep
<1>4. CASE \E keep \in BOOLEAN : ReadSome(keep)
  BY <1>4, ReadSomeStep
<1>5. CASE ReadBytes
  BY <1>5, ReadBytesStep
<1>6. CASE ReadFails
  BY <1>6, ReadFailsStep
<1>7. CASE ParseHeader
  BY <1>7, ParseHeaderStep
<1>8. CASE ParseBody
  BY <1>8, ParseBodyStep
<1>9. CASE GetNextMessage
  BY <1>9, GetNextMessageStep
<1>10. CASE Lose
  BY <1>10, LoseStep
<1>11. CASE UNCHANGED vars
  <2>1. UNCHANGED writerVars /\ UNCHANGED readerVars /\ stream' = stream /\ down' = down
    BY <1>11 DEF vars, writerVars, readerVars
  <2> QED BY <2>1, WriterKept, ReaderKept, IInvParts, IInvPartsPrimed
<1> QED BY <1>1, <1>2, <1>3, <1>4, <1>5, <1>6, <1>7, <1>8, <1>9, <1>10, <1>11 DEF Next, ParseMessage

\* The invariant holds in every reachable state.
THEOREM InvariantHolds == Spec => []IInv
  BY InitIInv, StepIInv, PTL DEF Spec

\* The fields of the writer, the buffer and the parser keep their types, and
\* both sequence numbers stay below the modulus, for frames of any size.
THEOREM TypeCorrect == Spec => []TypeOK
<1>1. IInv => TypeOK
  BY DEF IInv
<1> QED BY <1>1, InvariantHolds, PTL

\* The areas of the read buffer keep their order, whatever is moved, removed,
\* grown or filled, and the message that is ready lies in the reserved area: no
\* assert of read_buffer.ipp can fail.
THEOREM AreasStayOrdered == Spec => []AreasOrdered
<1>1. IInv => AreasOrdered
  BY DEF IInv
<1> QED BY <1>1, InvariantHolds, PTL
=============================================================================
