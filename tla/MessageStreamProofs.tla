------------------------ MODULE MessageStreamProofs ------------------------
(* Proofs about MessageChannel: what goes through the stream.  However the    *)
(* messages are cut into frames and the frames into pieces, the reader gives  *)
(* out the messages that were written, whole and in order, never meets a      *)
(* sequence number it does not expect, and never disturbs a message that is   *)
(* kept.                                                                      *)
(*                                                                            *)
(* The argument follows the bytes: a log of every byte and every frame that   *)
(* was ever put on the stream (it exists, no variable holds it), of which the *)
(* writer is at the end and the reader somewhere before it.                   *)
EXTENDS MessageChannelProofs

USE DEF HEADER_SIZE

(* A log.  all[1..bytes] are the bytes; frame j of the n frames begins behind *)
(* byte at[j] and has a header with len[j] and num[j] and, behind it, the     *)
(* bytes of message msg[j] from off[j] + 1 on.  Entry n + 1 is where the next *)
(* frame goes.  Of the last frame only a part may have been sent.             *)
Logs == [n : Nat, bytes : Nat, all : [Nat -> Nat], at : [Nat -> Nat], len : [Nat -> Nat],
         num : [Nat -> Nat], msg : [Nat -> Nat], off : [Nat -> Nat]]

\* Frame j of log l holds the bytes of its message it should, and the next one
\* follows it as the writer's rules say.
FrameOK(l, j) ==
  /\ l.msg[j] \in 1..Len(sent)
  /\ l.len[j] <= MaxFrame /\ l.off[j] + l.len[j] <= Len(sent[l.msg[j]])
  /\ l.len[j] < MaxFrame => l.off[j] + l.len[j] = Len(sent[l.msg[j]])
  /\ l.at[j + 1] = l.at[j] + HEADER_SIZE + l.len[j]
  /\ l.at[j + 1] <= l.at[l.n + 1]
  /\ l.num[j + 1] = next_seqnum(l.num[j])
  /\ l.len[j] = MaxFrame => l.msg[j + 1] = l.msg[j] /\ l.off[j + 1] = l.off[j] + MaxFrame
  /\ l.len[j] < MaxFrame => l.msg[j + 1] = l.msg[j] + 1 /\ l.off[j + 1] = 0
  /\ \A p \in 1..HEADER_SIZE :
        l.at[j] + p <= l.bytes => l.all[l.at[j] + p] = packet_header(l.len[j], l.num[j])[p]
  /\ \A p \in 1..l.len[j] :
        l.at[j] + HEADER_SIZE + p <= l.bytes =>
           l.all[l.at[j] + HEADER_SIZE + p] = sent[l.msg[j]][l.off[j] + p]

Laid(l) == l.bytes <= l.at[l.n + 1] /\ \A j \in 1..l.n : FrameOK(l, j)

\* The writer is at the end of the log, unless the connection is lost.
WriterAt(l) ==
  /\ wr.active => Len(sent) >= 1 /\ wr.msg = sent[Len(sent)]
  /\ ~down => /\ l.at[l.n + 1] = l.bytes
              /\ l.num[l.n + 1] = wseq
              /\ wr.active => l.msg[l.n + 1] = Len(sent) /\ l.off[l.n + 1] = wr.written
              /\ ~wr.active => l.msg[l.n + 1] = Len(sent) + 1 /\ l.off[l.n + 1] = 0

\* What the reader has not parsed yet is the log behind byte base.
StreamIs(l, base) ==
  /\ base + pending_size(rb) + Len(stream) = l.bytes
  /\ \A p \in 1..pending_size(rb) : rb.data[rb.pend + p] = l.all[base + p]
  /\ \A p \in 1..Len(stream) : stream[p] = l.all[base + pending_size(rb) + p]

\* A message is there to be had.
ready == res.has /\ rpc.at = "idle"

\* The message that is being read, or the next one, and the number expected in
\* the next header.
Here == IF ready THEN Len(got) + 2 ELSE Len(got) + 1
NextNumber == IF ready THEN next_seqnum(res.seq_last)
              ELSE IF ps.first_frame THEN rseq ELSE next_seqnum(ps.seq_last)

\* The reader has taken the headers of k frames and all bytes up to base.
ReaderAt(l, k, base) ==
  /\ k <= l.n
  /\ l.at[k + 1] = base + ps.remaining
  /\ l.num[k + 1] = NextNumber
  /\ ps.first_frame => l.msg[k + 1] = Here /\ l.off[k + 1] = 0
  /\ ~ps.first_frame => /\ k >= 1 /\ l.msg[k] = Here
                        /\ l.off[k] + l.len[k] = current_message_size(rb) + ps.remaining
                        /\ ps.remaining <= l.len[k]
                        /\ ps.more <=> l.len[k] = MaxFrame
                        /\ ps.seq_first = rseq /\ ~ready

\* The parser's fields fit one another, and no number was unexpected.
ParserOK ==
  /\ ps.first_frame => ps.header /\ rb.cur = rb.pend
  /\ ps.header => ps.remaining = 0
  /\ ps.header /\ ~ps.first_frame => ps.more
  /\ ~ps.mismatch /\ (ready => ~res.mismatch) /\ ~err
  /\ rpc.at = "reading" => ~res.has

\* What was given out, what is ready, what is being gathered and what is kept
\* are what was written.
GotOK == Len(got) <= Len(sent) /\ \A i \in 1..Len(got) : got[i] = sent[i]

ReadyOK ==
  ready => /\ Len(got) < Len(sent) /\ res.seq_first = rseq
           /\ res.size = Len(sent[Len(got) + 1])
           /\ \A p \in 1..res.size : rb.data[rb.cur - res.size + p] = sent[Len(got) + 1][p]

CurrentOK ==
  ~ps.first_frame =>
     /\ Len(got) < Len(sent)
     /\ \A p \in 1..current_message_size(rb) : rb.data[rb.cur + p] = sent[Len(got) + 1][p]

ViewsOK ==
  \A i \in 1..Len(views) :
     /\ views[i].message \in 1..Len(got)
     /\ views[i].first + Len(sent[views[i].message]) <= rb.cur
     /\ \A p \in 1..Len(sent[views[i].message]) :
           rb.data[views[i].first + p] = sent[views[i].message][p]

ContentsOK == GotOK /\ ReadyOK /\ CurrentOK /\ ViewsOK

LogOK(l, k, base) == Laid(l) /\ WriterAt(l) /\ StreamIs(l, base) /\ ReaderAt(l, k, base)

SInv == /\ IInv /\ ParserOK /\ ContentsOK
        /\ \E l \in Logs, k \in Nat, base \in Nat : LogOK(l, k, base)

-----------------------------------------------------------------------------
\* Every message that was sent is a sequence of bytes.
LEMMA SentFacts ==
  ASSUME IInv
  PROVE  /\ Len(sent) \in Nat
         /\ \A i \in 1..Len(sent) : sent[i] \in Seq(Nat) /\ Len(sent[i]) \in Nat
<1>1. sent \in Seq(Messages) /\ Len(sent) \in Nat
  BY IInvParts, LenProperties DEF WriterTypes
<1>2. ASSUME NEW i \in 1..Len(sent) PROVE sent[i] \in Seq(Nat) /\ Len(sent[i]) \in Nat
  <2>1. sent[i] \in Messages
    BY <1>1, ElementOfSeq
  <2>2. sent[i] \in Seq(Nat)
    BY <2>1, ChannelAssumption
  <2> QED BY <2>2, LenProperties
<1> QED BY <1>1, <1>2

\* The next sequence number is a number.
LEMMA NextNat == \A s \in Nat : next_seqnum(s) \in Nat
  BY SeqnumFacts, ChannelAssumption

\* What is in a log.
LEMMA LogTypes ==
  ASSUME NEW l \in Logs, NEW j \in Nat
  PROVE  /\ l.n \in Nat /\ l.bytes \in Nat /\ l.all[j] \in Nat /\ l.at[j] \in Nat
         /\ l.len[j] \in Nat /\ l.num[j] \in Nat /\ l.msg[j] \in Nat /\ l.off[j] \in Nat
  BY DEF Logs

\* The messages that were sent stay, and with them the frames.
LEMMA LaidKept ==
  ASSUME IInv, NEW l \in Logs, Laid(l),
         Len(sent) <= Len(sent'), Len(sent') \in Nat,
         \A i \in 1..Len(sent) : sent'[i] = sent[i]
  PROVE  Laid(l)'
<1>1. ASSUME NEW j \in 1..l.n PROVE FrameOK(l, j)'
  <2>1. FrameOK(l, j)
    BY DEF Laid
  <2>2. l.msg[j] \in 1..Len(sent)
    BY <2>1 DEF FrameOK
  <2>3. l.msg[j] \in 1..Len(sent') /\ sent'[l.msg[j]] = sent[l.msg[j]]
    BY <2>2, SentFacts
  <2> QED BY <2>1, <2>3 DEF FrameOK
<1> QED BY <1>1 DEF Laid

\* The bytes of the next frame.
Frame == packet_header(compute_size_to_write, wseq)
           \o SubSeq(wr.msg, wr.written + 1, wr.written + compute_size_to_write)

\* They are a header and a part of the message.
LEMMA FrameBytes ==
  ASSUME IInv
  PROVE  /\ Frame \in Seq(Nat) /\ Len(Frame) = HEADER_SIZE + compute_size_to_write
         /\ \A p \in 1..HEADER_SIZE :
               Frame[p] = packet_header(compute_size_to_write, wseq)[p]
         /\ \A p \in 1..compute_size_to_write : Frame[HEADER_SIZE + p] = wr.msg[wr.written + p]
<1>0. /\ compute_size_to_write \in Nat /\ wr.written \in Nat /\ wr.msg \in Seq(Nat)
      /\ wseq \in Nat /\ Len(wr.msg) \in Nat
      /\ wr.written + compute_size_to_write <= Len(wr.msg)
  <2>1. wr.written \in Nat /\ wr.msg \in Seq(Nat) /\ wseq \in Nat
    BY IInvParts, ChannelAssumption DEF WriterTypes
  <2> QED BY <2>1, ChunkFacts, LenProperties DEF IInv
<1>1. PICK size \in Nat, a \in Nat, b \in Nat, m \in Seq(Nat), q \in Nat :
        /\ size = compute_size_to_write /\ a = wr.written /\ m = wr.msg /\ q = wseq
        /\ b = wr.written + compute_size_to_write
        /\ a <= b /\ b <= Len(m) /\ b - a = size
  <2> DEFINE z == compute_size_to_write
  <2>1. z \in Nat /\ wr.written + z \in Nat /\ (wr.written + z) - wr.written = z
        /\ wr.written <= wr.written + z
    BY <1>0
  <2> QED BY <1>0, <2>1
<1> DEFINE h == packet_header(size, q)
           f == SubSeq(m, a + 1, b)
<1>2. Frame = h \o f
  BY <1>1 DEF Frame
<1>3. h \in Seq(Nat) /\ Len(h) = 4
  BY HeaderFacts
<1>4. f \in Seq(Nat) /\ Len(f) = size /\ \A i \in 1..size : f[i] = m[a + i]
  <2>1. a <= b /\ b <= Len(m)
    BY <1>1
  <2>2. f \in Seq(Nat) /\ Len(f) = b - a /\ \A i \in 1..(b - a) : f[i] = m[a + i]
    BY <2>1, SliceFacts
  <2> QED BY <1>1, <2>2
<1> HIDE DEF h, f
<1>5. /\ h \o f \in Seq(Nat) /\ Len(h \o f) = Len(h) + Len(f)
      /\ \A i \in 1..(Len(h) + Len(f)) : (h \o f)[i] = IF i <= Len(h) THEN h[i] ELSE f[i - Len(h)]
  BY <1>3, <1>4, ConcatProperties
<1>6. Len(h \o f) = 4 + size
  BY <1>3, <1>4, <1>5
<1>7. ASSUME NEW p \in 1..4 PROVE (h \o f)[p] = h[p]
  <2>1. p \in 1..(Len(h) + Len(f)) /\ p <= Len(h)
    BY <1>3, <1>4
  <2> QED BY <1>5, <2>1
<1>8. ASSUME NEW p \in 1..size PROVE (h \o f)[4 + p] = m[a + p]
  <2>1. 4 + p \in 1..(Len(h) + Len(f)) /\ ~(4 + p <= Len(h)) /\ (4 + p) - Len(h) = p
    BY <1>3, <1>4
  <2> QED BY <1>4, <1>5, <2>1
<1>9. h = packet_header(compute_size_to_write, wseq)
  BY <1>1 DEF h
<1> QED BY <1>1, <1>2, <1>5, <1>6, <1>7, <1>8, <1>9

\* Log e is log l with one frame more, the writer's next one, of which c bytes
\* have been sent.
ExtendsBy(l, e, size, c) ==
  /\ e.n = l.n + 1 /\ e.bytes = l.bytes + c
  /\ \A i \in 1..l.bytes : e.all[i] = l.all[i]
  /\ \A i \in 1..c : e.all[l.bytes + i] = Frame[i]
  /\ \A j \in 1..(l.n + 1) : /\ e.at[j] = l.at[j] /\ e.num[j] = l.num[j]
                             /\ e.msg[j] = l.msg[j] /\ e.off[j] = l.off[j]
  /\ \A j \in 1..l.n : e.len[j] = l.len[j]
  /\ e.len[l.n + 1] = size
  /\ e.at[l.n + 2] = l.at[l.n + 1] + HEADER_SIZE + size
  /\ e.num[l.n + 2] = next_seqnum(l.num[l.n + 1])
  /\ size = MaxFrame => /\ e.msg[l.n + 2] = l.msg[l.n + 1]
                        /\ e.off[l.n + 2] = l.off[l.n + 1] + MaxFrame
  /\ size # MaxFrame => e.msg[l.n + 2] = l.msg[l.n + 1] + 1 /\ e.off[l.n + 2] = 0

\* There is such a log.
LEMMA LogExtends ==
  ASSUME IInv, NEW l \in Logs, NEW size \in Nat, NEW c \in Nat,
         size = compute_size_to_write, c <= HEADER_SIZE + size
  PROVE  \E e \in Logs : ExtendsBy(l, e, size, c)
<1>0. PICK n \in Nat, bytes \in Nat, all0 \in [Nat -> Nat], at0 \in [Nat -> Nat],
           len0 \in [Nat -> Nat], num0 \in [Nat -> Nat], msg0 \in [Nat -> Nat],
           off0 \in [Nat -> Nat] :
        /\ n = l.n /\ bytes = l.bytes /\ all0 = l.all /\ at0 = l.at /\ len0 = l.len
        /\ num0 = l.num /\ msg0 = l.msg /\ off0 = l.off
  BY DEF Logs
<1> DEFINE full == size = MaxFrame
           all == [i \in Nat |-> IF i > bytes /\ i <= bytes + c THEN Frame[i - bytes] ELSE all0[i]]
           at  == [at0 EXCEPT ![n + 2] = at0[n + 1] + HEADER_SIZE + size]
           len == [len0 EXCEPT ![n + 1] = size]
           num == [num0 EXCEPT ![n + 2] = next_seqnum(num0[n + 1])]
           msg == [msg0 EXCEPT ![n + 2] = IF full THEN msg0[n + 1] ELSE msg0[n + 1] + 1]
           off == [off0 EXCEPT ![n + 2] = IF full THEN off0[n + 1] + MaxFrame ELSE 0]
           e == [n |-> n + 1, bytes |-> bytes + c, all |-> all, at |-> at, len |-> len,
                 num |-> num, msg |-> msg, off |-> off]
<1>1. MaxFrame \in Nat
  BY ChannelAssumption
<1>2. all \in [Nat -> Nat]
  <2>1. ASSUME NEW i \in Nat
        PROVE  (IF i > bytes /\ i <= bytes + c THEN Frame[i - bytes] ELSE all0[i]) \in Nat
    <3>1. CASE i > bytes /\ i <= bytes + c
      <4>1. Frame \in Seq(Nat) /\ Len(Frame) = HEADER_SIZE + size
        BY FrameBytes
      <4>2. i - bytes \in 1..Len(Frame)
        BY <3>1, <4>1
      <4>3. Frame[i - bytes] \in Nat
        BY <4>1, <4>2, ElementOfSeq
      <4> QED BY <3>1, <4>3
    <3>2. CASE ~(i > bytes /\ i <= bytes + c)
      BY <3>2
    <3> QED BY <3>1, <3>2
  <2> QED BY <2>1
<1>3. /\ \A i \in 1..bytes : all[i] = all0[i]
      /\ \A i \in 1..c : all[bytes + i] = Frame[i]
  <2>1. ASSUME NEW i \in 1..bytes PROVE all[i] = all0[i]
    OBVIOUS
  <2>2. ASSUME NEW i \in 1..c PROVE all[bytes + i] = Frame[i]
    <3>1. /\ bytes + i \in Nat /\ bytes + i > bytes /\ bytes + i <= bytes + c
          /\ (bytes + i) - bytes = i
      OBVIOUS
    <3> QED BY <3>1
  <2> QED BY <2>1, <2>2
<1> HIDE DEF all
<1>4. /\ at \in [Nat -> Nat] /\ \A j \in 1..(n + 1) : at[j] = at0[j]
      /\ at[n + 2] = at0[n + 1] + HEADER_SIZE + size
  OBVIOUS
<1> HIDE DEF at
<1>5. len \in [Nat -> Nat] /\ (\A j \in 1..n : len[j] = len0[j]) /\ len[n + 1] = size
  OBVIOUS
<1> HIDE DEF len
<1>6. /\ num \in [Nat -> Nat] /\ \A j \in 1..(n + 1) : num[j] = num0[j]
      /\ num[n + 2] = next_seqnum(num0[n + 1])
  <2>1. num0[n + 1] \in Nat
    OBVIOUS
  <2>2. PICK v \in Nat : v = next_seqnum(num0[n + 1])
    BY <2>1, NextNat
  <2> QED BY <2>2, SMTT(30)
<1> HIDE DEF num
<1>7. /\ msg \in [Nat -> Nat] /\ \A j \in 1..(n + 1) : msg[j] = msg0[j]
      /\ size = MaxFrame => msg[n + 2] = msg0[n + 1]
      /\ size # MaxFrame => msg[n + 2] = msg0[n + 1] + 1
  <2>1. PICK v \in Nat : v = IF full THEN msg0[n + 1] ELSE msg0[n + 1] + 1
    BY <1>1
  <2>2. msg = [msg0 EXCEPT ![n + 2] = v]
    BY <2>1
  <2> HIDE DEF msg
  <2> QED BY <2>1, <2>2, SMTT(30)
<1> HIDE DEF msg
<1>8. /\ off \in [Nat -> Nat] /\ \A j \in 1..(n + 1) : off[j] = off0[j]
      /\ size = MaxFrame => off[n + 2] = off0[n + 1] + MaxFrame
      /\ size # MaxFrame => off[n + 2] = 0
  <2>1. PICK v \in Nat : v = IF full THEN off0[n + 1] + MaxFrame ELSE 0
    BY <1>1
  <2>2. off = [off0 EXCEPT ![n + 2] = v]
    BY <2>1
  <2> HIDE DEF off
  <2>3. off \in [Nat -> Nat] /\ (\A j \in 1..(n + 1) : off[j] = off0[j]) /\ off[n + 2] = v
    BY <2>2, SMTT(30)
  <2> QED BY <2>1, <2>3
<1> HIDE DEF off
<1>9. e \in Logs
  <2>1. n + 1 \in Nat /\ bytes + c \in Nat
    OBVIOUS
  <2> QED BY <1>2, <1>4, <1>5, <1>6, <1>7, <1>8, <2>1 DEF Logs
<1>10. /\ e.n = n + 1 /\ e.bytes = bytes + c /\ e.all = all /\ e.at = at /\ e.len = len
       /\ e.num = num /\ e.msg = msg /\ e.off = off
  OBVIOUS
<1> HIDE DEF e
<1>11. ExtendsBy(l, e, size, c)
  BY <1>0, <1>3, <1>4, <1>5, <1>6, <1>7, <1>8, <1>10 DEF ExtendsBy
<1> QED BY <1>9, <1>11

\* The frames that were there are there still.
LEMMA OldFramesOK ==
  ASSUME IInv, NEW l \in Logs, Laid(l), l.at[l.n + 1] = l.bytes,
         NEW e \in Logs, NEW size \in Nat, NEW c \in Nat, ExtendsBy(l, e, size, c),
         NEW j \in 1..l.n
  PROVE  FrameOK(e, j)
<1>1. PICK n \in Nat, bytes \in Nat : n = l.n /\ bytes = l.bytes
  BY LogTypes
<1>2. /\ e.n = n + 1 /\ e.bytes = bytes + c
      /\ \A i \in 1..bytes : e.all[i] = l.all[i]
      /\ \A i \in 1..(n + 1) : /\ e.at[i] = l.at[i] /\ e.num[i] = l.num[i]
                               /\ e.msg[i] = l.msg[i] /\ e.off[i] = l.off[i]
      /\ \A i \in 1..n : e.len[i] = l.len[i]
      /\ e.at[n + 2] = l.at[n + 1] + HEADER_SIZE + size
  BY <1>1 DEF ExtendsBy
<1>3. /\ FrameOK(l, j) /\ j \in Nat /\ j + 1 \in Nat /\ j \in 1..(n + 1) /\ j + 1 \in 1..(n + 1)
      /\ j \in 1..n /\ j # 0
  BY <1>1 DEF Laid
<1>4. /\ e.at[j] = l.at[j] /\ e.num[j] = l.num[j] /\ e.msg[j] = l.msg[j] /\ e.off[j] = l.off[j]
      /\ e.at[j + 1] = l.at[j + 1] /\ e.num[j + 1] = l.num[j + 1]
      /\ e.msg[j + 1] = l.msg[j + 1] /\ e.off[j + 1] = l.off[j + 1]
      /\ e.len[j] = l.len[j]
  BY <1>2, <1>3
<1>5. PICK at \in Nat, nx \in Nat, len \in Nat, end \in Nat :
        at = l.at[j] /\ nx = l.at[j + 1] /\ len = l.len[j] /\ end = l.at[n + 1]
  <2>1. n + 1 \in Nat
    OBVIOUS
  <2> QED BY <1>3, <2>1, LogTypes
<1>6. nx = at + 4 + len /\ nx <= end /\ end = bytes
  BY <1>1, <1>3, <1>5 DEF FrameOK
<1>7. e.at[j + 1] <= e.at[e.n + 1]
  <2>1. e.n + 1 = n + 2
    BY <1>2
  <2>2. e.at[e.n + 1] = end + 4 + size
    BY <1>2, <1>5, <2>1
  <2> QED BY <1>4, <1>5, <1>6, <2>2
<1>8. ASSUME NEW p \in 1..4 PROVE e.all[e.at[j] + p] = packet_header(e.len[j], e.num[j])[p]
  <2>1. at + p \in 1..bytes /\ at + p <= bytes
    BY <1>6
  <2>2. l.all[l.at[j] + p] = packet_header(l.len[j], l.num[j])[p]
    BY <1>1, <1>3, <1>5, <2>1 DEF FrameOK
  <2>3. e.all[at + p] = l.all[at + p]
    BY <1>2, <2>1
  <2> QED BY <1>4, <1>5, <2>2, <2>3
<1>9. ASSUME NEW p \in 1..e.len[j]
      PROVE  e.all[e.at[j] + 4 + p] = sent[e.msg[j]][e.off[j] + p]
  <2>0. p \in 1..len /\ p \in 1..l.len[j]
    BY <1>4, <1>5
  <2>1. at + 4 + p \in 1..bytes /\ at + 4 + p <= bytes
    BY <1>6, <2>0
  <2>2. l.all[l.at[j] + 4 + p] = sent[l.msg[j]][l.off[j] + p]
    BY <1>1, <1>3, <1>5, <2>0, <2>1 DEF FrameOK
  <2>3. e.all[at + 4 + p] = l.all[at + 4 + p]
    BY <1>2, <2>1
  <2> QED BY <1>4, <1>5, <2>2, <2>3
<1>10. /\ e.msg[j] \in 1..Len(sent)
       /\ e.len[j] <= MaxFrame /\ e.off[j] + e.len[j] <= Len(sent[e.msg[j]])
       /\ e.len[j] < MaxFrame => e.off[j] + e.len[j] = Len(sent[e.msg[j]])
       /\ e.at[j + 1] = e.at[j] + HEADER_SIZE + e.len[j]
       /\ e.num[j + 1] = next_seqnum(e.num[j])
       /\ e.len[j] = MaxFrame => e.msg[j + 1] = e.msg[j] /\ e.off[j + 1] = e.off[j] + MaxFrame
       /\ e.len[j] < MaxFrame => e.msg[j + 1] = e.msg[j] + 1 /\ e.off[j + 1] = 0
  BY <1>3, <1>4 DEF FrameOK
<1> QED BY <1>7, <1>8, <1>9, <1>10 DEF FrameOK

\* The new frame is as it should be.
LEMMA NewFrameOK ==
  ASSUME IInv, NEW l \in Logs, WriterAt(l), wr.active, ~down,
         NEW e \in Logs, NEW size \in Nat, NEW c \in Nat, ExtendsBy(l, e, size, c),
         size = compute_size_to_write, c <= HEADER_SIZE + size
  PROVE  FrameOK(e, l.n + 1)
<1>1. PICK n \in Nat, bytes \in Nat : n = l.n /\ bytes = l.bytes
  BY LogTypes
<1>2. /\ e.n = n + 1 /\ e.bytes = bytes + c
      /\ \A i \in 1..c : e.all[bytes + i] = Frame[i]
      /\ \A i \in 1..(n + 1) : /\ e.at[i] = l.at[i] /\ e.num[i] = l.num[i]
                               /\ e.msg[i] = l.msg[i] /\ e.off[i] = l.off[i]
      /\ e.len[n + 1] = size
      /\ e.at[n + 2] = l.at[n + 1] + HEADER_SIZE + size
      /\ e.num[n + 2] = next_seqnum(l.num[n + 1])
      /\ size = MaxFrame => e.msg[n + 2] = l.msg[n + 1] /\ e.off[n + 2] = l.off[n + 1] + MaxFrame
      /\ size # MaxFrame => e.msg[n + 2] = l.msg[n + 1] + 1 /\ e.off[n + 2] = 0
  BY <1>1 DEF ExtendsBy
<1>3. PICK j \in Nat, nj \in Nat : j = n + 1 /\ nj = n + 2 /\ nj = j + 1 /\ j \in 1..(n + 1)
  OBVIOUS
<1>4. /\ l.at[j] = bytes /\ l.num[j] = wseq /\ l.msg[j] = Len(sent) /\ l.off[j] = wr.written
      /\ Len(sent) >= 1 /\ wr.msg = sent[Len(sent)]
  BY <1>1, <1>3 DEF WriterAt
<1>5. /\ e.at[j] = bytes /\ e.num[j] = wseq /\ e.msg[j] = Len(sent) /\ e.off[j] = wr.written
      /\ e.len[j] = size /\ e.at[nj] = bytes + 4 + size /\ e.num[nj] = next_seqnum(wseq)
      /\ size = MaxFrame => e.msg[nj] = Len(sent) /\ e.off[nj] = wr.written + MaxFrame
      /\ size # MaxFrame => e.msg[nj] = Len(sent) + 1 /\ e.off[nj] = 0
  BY <1>2, <1>3, <1>4
<1>6. /\ Len(sent) \in Nat /\ wr.written \in Nat /\ MaxFrame \in Nat
      /\ sent[Len(sent)] = wr.msg
      /\ wr.written + size <= Len(wr.msg) /\ size <= MaxFrame
      /\ size < MaxFrame => wr.written + size = Len(wr.msg)
  BY <1>4, ChunkFacts, ChannelAssumption, IInvParts, SentFacts DEF IInv, WriterTypes
<1>7. /\ e.msg[j] \in 1..Len(sent)
      /\ e.len[j] <= MaxFrame /\ e.off[j] + e.len[j] <= Len(sent[e.msg[j]])
      /\ e.len[j] < MaxFrame => e.off[j] + e.len[j] = Len(sent[e.msg[j]])
      /\ e.at[nj] = e.at[j] + HEADER_SIZE + e.len[j]
      /\ e.at[nj] <= e.at[e.n + 1]
      /\ e.num[nj] = next_seqnum(e.num[j])
      /\ e.len[j] = MaxFrame => e.msg[nj] = e.msg[j] /\ e.off[nj] = e.off[j] + MaxFrame
      /\ e.len[j] < MaxFrame => e.msg[nj] = e.msg[j] + 1 /\ e.off[nj] = 0
  <2>1. e.n + 1 = nj
    BY <1>2, <1>3
  <2>2. e.at[nj] <= e.at[e.n + 1]
    BY <1>5, <2>1
  <2>3. e.msg[j] \in 1..Len(sent) /\ sent[e.msg[j]] = wr.msg
    BY <1>4, <1>5, <1>6
  <2> QED BY <1>5, <1>6, <2>2, <2>3
<1>8. ASSUME NEW p \in 1..4, e.at[j] + p <= e.bytes
      PROVE  e.all[e.at[j] + p] = packet_header(e.len[j], e.num[j])[p]
  <2>1. p \in 1..c
    BY <1>2, <1>5, <1>8, SMTT(30)
  <2>2. Frame[p] = packet_header(size, wseq)[p]
    BY FrameBytes
  <2> QED BY <1>2, <1>5, <2>1, <2>2
<1>9. ASSUME NEW p \in 1..e.len[j], e.at[j] + 4 + p <= e.bytes
      PROVE  e.all[e.at[j] + 4 + p] = sent[e.msg[j]][e.off[j] + p]
  <2>0. p \in 1..size
    BY <1>5
  <2>1. 4 + p \in 1..c /\ bytes + (4 + p) = bytes + 4 + p
    BY <1>2, <1>5, <1>9, <2>0
  <2>2. Frame[4 + p] = wr.msg[wr.written + p]
    BY <2>0, FrameBytes
  <2>3. e.all[bytes + 4 + p] = wr.msg[wr.written + p]
    BY <1>2, <2>1, <2>2
  <2> QED BY <1>4, <1>5, <2>3
<1>10. FrameOK(e, j)
  BY <1>3, <1>7, <1>8, <1>9 DEF FrameOK
<1> QED BY <1>1, <1>3, <1>10

\* Sending c bytes of a frame puts them in the log and behind what the reader
\* has to parse; where the reader is does not change.
LEMMA ExtendedOK ==
  ASSUME SInv, NEW l \in Logs, NEW k \in Nat, NEW base \in Nat, LogOK(l, k, base),
         wr.active, ~down,
         NEW e \in Logs, NEW size \in Nat, NEW c \in Nat, ExtendsBy(l, e, size, c),
         size = compute_size_to_write, c <= HEADER_SIZE + size,
         stream' \in Seq(Nat), Len(stream') = Len(stream) + c,
         \A i \in 1..Len(stream) : stream'[i] = stream[i],
         \A i \in 1..c : stream'[Len(stream) + i] = Frame[i],
         UNCHANGED readerVars, sent' = sent
  PROVE  Laid(e)' /\ StreamIs(e, base)' /\ ReaderAt(e, k, base)'
<1>1. PICK n \in Nat, bytes \in Nat : n = l.n /\ bytes = l.bytes
  BY LogTypes
<1>2. IInv /\ Laid(l) /\ WriterAt(l) /\ StreamIs(l, base) /\ ReaderAt(l, k, base)
  BY DEF SInv, LogOK
<1>3. l.at[n + 1] = bytes
  BY <1>1, <1>2 DEF WriterAt
<1>4. e.n = n + 1 /\ e.bytes = bytes + c
  BY <1>1 DEF ExtendsBy
<1>5. \A i \in 1..bytes : e.all[i] = l.all[i]
  BY <1>1 DEF ExtendsBy
<1>6. \A i \in 1..c : e.all[bytes + i] = Frame[i]
  BY <1>1 DEF ExtendsBy
<1>7. \A i \in 1..(n + 1) : /\ e.at[i] = l.at[i] /\ e.num[i] = l.num[i]
                            /\ e.msg[i] = l.msg[i] /\ e.off[i] = l.off[i]
  BY <1>1 DEF ExtendsBy
<1>8. \A i \in 1..n : e.len[i] = l.len[i]
  BY <1>1 DEF ExtendsBy
<1>9. e.at[n + 2] = bytes + 4 + size
  BY <1>1, <1>3 DEF ExtendsBy
<1>10. Laid(e)'
  <2>1. ASSUME NEW j \in 1..(n + 1) PROVE FrameOK(e, j)
    <3>1. CASE j \in 1..n
      BY <1>1, <1>2, <1>3, <3>1, OldFramesOK
    <3>2. CASE j = n + 1
      BY <1>1, <1>2, <3>2, NewFrameOK
    <3> QED BY <3>1, <3>2
  <2>2. e.bytes <= e.at[e.n + 1]
    <3>1. e.n + 1 = n + 2
      BY <1>4
    <3>2. bytes + c <= bytes + 4 + size
      OBVIOUS
    <3> QED BY <1>4, <1>9, <3>1, <3>2
  <2>3. ASSUME NEW j \in 1..e.n PROVE FrameOK(e, j)'
    <3>1. FrameOK(e, j)
      BY <1>4, <2>1
    <3> QED BY <3>1 DEF FrameOK
  <2> QED BY <2>2, <2>3 DEF Laid
<1>11. StreamIs(e, base)'
  <2>1. PICK p0 \in Nat, s0 \in Nat : p0 = pending_size(rb) /\ s0 = Len(stream)
    BY <1>2, IInvParts, LenProperties DEF Buffers, Ordered, pending_size
  <2>2. /\ base + p0 + s0 = bytes
        /\ \A p \in 1..p0 : rb.data[rb.pend + p] = l.all[base + p]
        /\ \A p \in 1..s0 : stream[p] = l.all[base + p0 + p]
    BY <1>1, <1>2, <2>1 DEF StreamIs
  <2>3. rb' = rb /\ pending_size(rb') = p0 /\ Len(stream') = s0 + c
    BY <2>1 DEF readerVars
  <2>4. base + p0 + (s0 + c) = e.bytes
    BY <1>4, <2>2
  <2>5. ASSUME NEW p \in 1..p0 PROVE rb.data[rb.pend + p] = e.all[base + p]
    <3>1. base + p \in 1..bytes
      BY <2>2
    <3> QED BY <1>5, <2>2, <3>1
  <2>6. ASSUME NEW p \in 1..(s0 + c) PROVE stream'[p] = e.all[base + p0 + p]
    <3>1. CASE p <= s0
      <4>1. p \in 1..s0 /\ base + p0 + p \in 1..bytes
        BY <2>2, <3>1
      <4>2. stream'[p] = stream[p]
        BY <2>1, <4>1
      <4> QED BY <1>5, <2>2, <4>1, <4>2
    <3>2. CASE p > s0
      <4>1. PICK i \in 1..c : p = s0 + i /\ base + p0 + p = bytes + i
        <5>1. p - s0 \in 1..c /\ p = s0 + (p - s0) /\ base + p0 + p = bytes + (p - s0)
          BY <2>2, <3>2
        <5> QED BY <5>1
      <4>2. stream'[s0 + i] = Frame[i]
        BY <2>1
      <4>3. e.all[bytes + i] = Frame[i]
        BY <1>6
      <4> QED BY <4>1, <4>2, <4>3
    <3> QED BY <3>1, <3>2
  <2> QED BY <2>3, <2>4, <2>5, <2>6 DEF StreamIs
<1>12. ReaderAt(e, k, base)'
  <2>1. k <= n /\ k + 1 \in 1..(n + 1) /\ k + 1 \in Nat
    BY <1>1, <1>2 DEF ReaderAt
  <2>2. /\ e.at[k + 1] = l.at[k + 1] /\ e.num[k + 1] = l.num[k + 1]
        /\ e.msg[k + 1] = l.msg[k + 1] /\ e.off[k + 1] = l.off[k + 1]
    BY <1>7, <2>1
  <2>3. k >= 1 => e.msg[k] = l.msg[k] /\ e.off[k] = l.off[k] /\ e.len[k] = l.len[k]
    <3> SUFFICES ASSUME k >= 1
                 PROVE e.msg[k] = l.msg[k] /\ e.off[k] = l.off[k] /\ e.len[k] = l.len[k]
      OBVIOUS
    <3>1. k \in 1..(n + 1) /\ k \in 1..n
      BY <2>1
    <3> QED BY <1>7, <1>8, <3>1
  <2>4. k <= e.n
    BY <1>4, <2>1
  <2>5. ReaderAt(e, k, base)
    BY <1>2, <2>2, <2>3, <2>4 DEF ReaderAt
  <2>6. /\ ps' = ps /\ rb' = rb /\ rseq' = rseq /\ res' = res /\ rpc' = rpc /\ got' = got
    BY DEF readerVars
  <2> QED BY <2>5, <2>6 DEF ReaderAt, Here, NextNumber, ready
<1> QED BY <1>10, <1>11, <1>12

\* An action that leaves the reader alone and only adds to what was sent keeps
\* what the reader holds.
LEMMA ContentsKept ==
  ASSUME SInv, UNCHANGED readerVars,
         Len(sent) <= Len(sent'), Len(sent') \in Nat,
         \A i \in 1..Len(sent) : sent'[i] = sent[i]
  PROVE  ParserOK' /\ ContentsOK'
<1>1. /\ ps' = ps /\ rb' = rb /\ rseq' = rseq /\ res' = res /\ rpc' = rpc /\ got' = got
      /\ views' = views /\ err' = err
  BY DEF readerVars
<1>2. IInv /\ ParserOK /\ GotOK /\ ReadyOK /\ CurrentOK /\ ViewsOK
  BY DEF SInv, ContentsOK
<1>3. ParserOK'
  BY <1>1, <1>2 DEF ParserOK, ready
<1>4. Len(got) \in Nat /\ Len(sent) \in Nat
  BY <1>2, IInvParts, SentFacts, LenProperties DEF ReaderTypes
<1>5. GotOK'
  BY <1>1, <1>2, <1>4 DEF GotOK
<1>6. Len(got) < Len(sent) => sent'[Len(got) + 1] = sent[Len(got) + 1] /\ Len(got) < Len(sent')
  <2> SUFFICES ASSUME Len(got) < Len(sent)
               PROVE  sent'[Len(got) + 1] = sent[Len(got) + 1] /\ Len(got) < Len(sent')
    OBVIOUS
  <2>1. Len(got) + 1 \in 1..Len(sent) /\ Len(got) < Len(sent')
    BY <1>4
  <2> QED BY <2>1
<1>7. ReadyOK'
  BY <1>1, <1>2, <1>6 DEF ReadyOK, ready
<1>8. CurrentOK'
  BY <1>1, <1>2, <1>6 DEF CurrentOK
<1>9. ViewsOK'
  <2> SUFFICES ASSUME NEW i \in 1..Len(views)
               PROVE  /\ views[i].message \in 1..Len(got)
                      /\ views[i].first + Len(sent'[views[i].message]) <= rb.cur
                      /\ \A p \in 1..Len(sent'[views[i].message]) :
                            rb.data[views[i].first + p] = sent'[views[i].message][p]
    BY <1>1 DEF ViewsOK
  <2>1. views[i].message \in 1..Len(got)
    BY <1>2 DEF ViewsOK
  <2>2. views[i].message \in 1..Len(sent)
    BY <1>2, <1>4, <2>1 DEF GotOK
  <2>3. sent'[views[i].message] = sent[views[i].message]
    BY <2>2
  <2> QED BY <1>2, <2>1, <2>3 DEF ViewsOK
<1> QED BY <1>3, <1>5, <1>7, <1>8, <1>9 DEF ContentsOK

\* The invariant once a log is known.
LEMMA SInvPrimed ==
  ASSUME IInv', ParserOK', ContentsOK',
         NEW l \in Logs, NEW k \in Nat, NEW base \in Nat,
         Laid(l)', WriterAt(l)', StreamIs(l, base)', ReaderAt(l, k, base)'
  PROVE  SInv'
BY DEF SInv, LogOK

-----------------------------------------------------------------------------
(* The writer's steps.                                                        *)

\* A new connection has an empty log.
LEMMA InitSInv == Init => SInv
<1> SUFFICES ASSUME Init PROVE SInv
  OBVIOUS
<1>1. IInv
  BY InitIInv
<1>2. /\ ps = NewState /\ res = NoResult /\ ~err /\ wr = NoWrite /\ wseq = 0 /\ rseq = 0
      /\ rb.cur = 0 /\ rb.pend = 0 /\ rb.free = 0 /\ stream = <<>>
      /\ sent = <<>> /\ got = <<>> /\ views = <<>> /\ rpc.at = "idle"
  BY DEF Init
<1>3. /\ Len(sent) = 0 /\ Len(got) = 0 /\ Len(views) = 0 /\ Len(stream) = 0
      /\ ps.first_frame /\ ps.header /\ ps.remaining = 0 /\ ~ps.mismatch /\ ~res.has /\ ~wr.active
  BY <1>2 DEF NewState, NoResult, NoWrite
<1>4. ParserOK /\ ContentsOK
  BY <1>2, <1>3 DEF ParserOK, ContentsOK, GotOK, ReadyOK, CurrentOK, ViewsOK, ready
<1> DEFINE zero == [i \in Nat |-> 0]
           one  == [i \in Nat |-> 1]
           l    == [n |-> 0, bytes |-> 0, all |-> zero, at |-> zero, len |-> zero,
                    num |-> zero, msg |-> one, off |-> zero]
<1>5. zero \in [Nat -> Nat] /\ one \in [Nat -> Nat] /\ zero[1] = 0 /\ one[1] = 1
  OBVIOUS
<1> HIDE DEF zero, one
<1>6. l \in Logs
  BY <1>5 DEF Logs
<1>7. /\ l.n = 0 /\ l.bytes = 0 /\ l.at = zero /\ l.num = zero /\ l.msg = one /\ l.off = zero
  OBVIOUS
<1> HIDE DEF l
<1>8. LogOK(l, 0, 0)
  <2>1. Laid(l)
    <3>1. l.n + 1 = 1 /\ 1..l.n = {} /\ l.at[l.n + 1] = 0
      BY <1>5, <1>7
    <3>2. \A j \in 1..l.n : FrameOK(l, j)
      BY <3>1, Zenon
    <3>3. l.bytes <= l.at[l.n + 1]
      BY <1>7, <3>1
    <3> QED BY <3>2, <3>3 DEF Laid
  <2>2. WriterAt(l)
    <3>1. /\ l.at[l.n + 1] = 0 /\ l.num[l.n + 1] = 0
          /\ l.msg[l.n + 1] = 1 /\ l.off[l.n + 1] = 0
      <4>1. l.n + 1 = 1
        BY <1>7
      <4> QED BY <1>5, <1>7, <4>1
    <3> QED BY <1>2, <1>3, <1>7, <3>1 DEF WriterAt
  <2>3. StreamIs(l, 0)
    BY <1>2, <1>3, <1>7 DEF StreamIs, pending_size
  <2>4. ReaderAt(l, 0, 0)
    BY <1>2, <1>3, <1>5, <1>7 DEF ReaderAt, Here, NextNumber, ready
  <2> QED BY <2>1, <2>2, <2>3, <2>4 DEF LogOK
<1> QED BY <1>1, <1>4, <1>6, <1>8 DEF SInv

\* Where the reader is in a log does not depend on the writer.
LEMMA ReaderAtKept ==
  ASSUME UNCHANGED readerVars, NEW l \in Logs, NEW k \in Nat, NEW base \in Nat, ReaderAt(l, k, base)
  PROVE  ReaderAt(l, k, base)'
<1>1. ps' = ps /\ rb' = rb /\ rseq' = rseq /\ res' = res /\ rpc' = rpc /\ got' = got
  BY DEF readerVars
<1> QED BY <1>1 DEF ReaderAt, Here, NextNumber, ready

\* A write that begins is at the place of the next frame.
LEMMA WriteKeepsSInv ==
  ASSUME SInv, NEW m \in Messages, Write(m)
  PROVE  SInv'
<1>1. /\ UNCHANGED readerVars /\ sent' = Append(sent, m) /\ ~wr.active
      /\ wr' = [active |-> TRUE, msg |-> m, written |-> 0, empty |-> m = <<>>]
      /\ wseq' = wseq /\ stream' = stream /\ down' = down
  BY DEF Write
<1>2. IInv /\ ParserOK /\ ContentsOK
  BY DEF SInv
<1>3. PICK l \in Logs, k \in Nat, base \in Nat : LogOK(l, k, base)
  BY DEF SInv
<1>4. /\ Len(sent) \in Nat /\ Len(sent') = Len(sent) + 1
      /\ \A i \in 1..Len(sent) : sent'[i] = sent[i]
      /\ sent'[Len(sent) + 1] = m
  <2>1. sent \in Seq(Messages) /\ Len(sent) \in Nat
    BY <1>2, IInvParts, LenProperties DEF WriterTypes
  <2> QED BY <1>1, <2>1, AppendProperties
<1>5. IInv'
  BY <1>2, WriteStep
<1>6. ParserOK' /\ ContentsOK'
  BY <1>1, <1>4, ContentsKept
<1>7. Laid(l)'
  BY <1>2, <1>3, <1>4, LaidKept DEF LogOK
<1>8. WriterAt(l)'
  <2>1. wr'.msg = m /\ wr'.written = 0 /\ wr'.active
    <3>1. wr'.active = TRUE
      BY <1>1
    <3> QED BY <1>1, <3>1
  <2>2. WriterAt(l)
    BY <1>3 DEF LogOK
  <2> QED BY <1>1, <1>4, <2>1, <2>2 DEF WriterAt
<1>9. StreamIs(l, base)'
  <2>1. StreamIs(l, base)
    BY <1>3 DEF LogOK
  <2> QED BY <1>1, <2>1 DEF StreamIs, readerVars
<1>10. ReaderAt(l, k, base)'
  BY <1>1, <1>3, ReaderAtKept DEF LogOK
<1> QED BY <1>5, <1>6, <1>7, <1>8, <1>9, <1>10, SInvPrimed

\* What a message already sent is not changed by.
LEMMA SentKept ==
  ASSUME SInv, sent' = sent
  PROVE  /\ Len(sent) <= Len(sent') /\ Len(sent') \in Nat
         /\ \A i \in 1..Len(sent) : sent'[i] = sent[i]
<1>1. IInv
  BY DEF SInv
<1> QED BY <1>1, SentFacts

\* A chunk puts a whole frame on the stream.
LEMMA WriteChunkKeepsSInv ==
  ASSUME SInv, WriteChunk
  PROVE  SInv'
<1> DEFINE written == wr.written + compute_size_to_write
           empty   == send_empty_frame(compute_size_to_write, written)
           done    == ~empty /\ written >= Len(wr.msg)
<1>1. /\ UNCHANGED readerVars /\ sent' = sent /\ wr.active /\ ~down
      /\ wr' = IF done THEN NoWrite ELSE [wr EXCEPT !.written = written, !.empty = empty]
      /\ wseq' = next_seqnum(wseq) /\ down' = down
  BY DEF WriteChunk
<1>2. IInv /\ ParserOK /\ ContentsOK
  BY DEF SInv
<1>3. PICK l \in Logs, k \in Nat, base \in Nat : LogOK(l, k, base)
  BY DEF SInv
<1>4. IInv'
  BY <1>2, WriteChunkStep
<1>5. ParserOK' /\ ContentsOK'
  BY <1>1, SentKept, ContentsKept
<1>6. PICK size \in Nat, c \in Nat : size = compute_size_to_write /\ c = HEADER_SIZE + size
  <2>1. compute_size_to_write \in Nat
    BY <1>2, ChunkFacts DEF IInv
  <2>2. HEADER_SIZE + compute_size_to_write \in Nat
    BY <2>1
  <2> QED BY <2>1, <2>2
<1>7. PICK e \in Logs : ExtendsBy(l, e, size, c)
  BY <1>2, <1>6, LogExtends
<1>8. /\ stream' \in Seq(Nat) /\ Len(stream') = Len(stream) + c
      /\ \A i \in 1..Len(stream) : stream'[i] = stream[i]
      /\ \A i \in 1..c : stream'[Len(stream) + i] = Frame[i]
  <2> DEFINE h == packet_header(compute_size_to_write, wseq)
             f == SubSeq(wr.msg, wr.written + 1, wr.written + compute_size_to_write)
  <2>1. stream' = (stream \o h) \o f
    BY DEF WriteChunk
  <2>2. PICK q \in Nat, a \in Nat, b \in Nat, m \in Seq(Nat) :
          q = wseq /\ a = wr.written /\ b = wr.written + size /\ m = wr.msg /\ a <= b /\ b <= Len(m)
          /\ b - a = size
    <3>1. wr.written \in Nat /\ wr.msg \in Seq(Nat) /\ wseq \in Nat
      BY <1>2, IInvParts, ChannelAssumption DEF WriterTypes
    <3>2. wr.written + size <= Len(wr.msg)
      BY <1>2, <1>6, ChunkFacts DEF IInv
    <3>3. wr.written + size \in Nat /\ wr.written <= wr.written + size
          /\ (wr.written + size) - wr.written = size
      BY <3>1
    <3> QED BY <3>1, <3>2, <3>3
  <2>3. h \in Seq(Nat) /\ Len(h) = 4
    BY <1>6, <2>2, HeaderFacts
  <2>4. f \in Seq(Nat) /\ Len(f) = size
    <3>1. f = SubSeq(m, a + 1, b)
      BY <1>6, <2>2
    <3>2. a <= b /\ b <= Len(m)
      BY <2>2
    <3>3. SubSeq(m, a + 1, b) \in Seq(Nat) /\ Len(SubSeq(m, a + 1, b)) = b - a
      BY <3>2, SliceFacts
    <3> HIDE DEF f
    <3> QED BY <2>2, <3>1, <3>3
  <2>5. Frame = h \o f
    BY DEF Frame
  <2>6. stream \in Seq(Nat) /\ Len(stream) \in Nat
    BY <1>2, IInvParts, LenProperties
  <2> HIDE DEF h, f
  <2>7. /\ (stream \o h) \o f = stream \o (h \o f)
        /\ h \o f \in Seq(Nat) /\ Len(h \o f) = c
    <3>1. (stream \o h) \o f = stream \o (h \o f)
      BY <2>3, <2>4, <2>6, ConcatAssociative, SMTT(30)
    <3>2. h \o f \in Seq(Nat) /\ Len(h \o f) = Len(h) + Len(f)
      BY <2>3, <2>4, ConcatProperties
    <3> QED BY <1>6, <2>3, <2>4, <3>1, <3>2
  <2>8. stream' = stream \o Frame /\ Frame \in Seq(Nat) /\ Len(Frame) = c
    BY <2>1, <2>5, <2>7
  <2>9. /\ stream' \in Seq(Nat) /\ Len(stream') = Len(stream) + c
        /\ \A i \in 1..(Len(stream) + c) :
             stream'[i] = IF i <= Len(stream) THEN stream[i] ELSE Frame[i - Len(stream)]
    BY <2>6, <2>8, ConcatProperties
  <2>10. \A i \in 1..Len(stream) : stream'[i] = stream[i]
    BY <2>6, <2>9
  <2>11. ASSUME NEW i \in 1..c PROVE stream'[Len(stream) + i] = Frame[i]
    <3>1. /\ Len(stream) + i \in 1..(Len(stream) + c) /\ ~(Len(stream) + i <= Len(stream))
          /\ (Len(stream) + i) - Len(stream) = i
      BY <2>6
    <3> QED BY <2>9, <3>1
  <2> QED BY <2>9, <2>10, <2>11
<1>9. Laid(e)' /\ StreamIs(e, base)' /\ ReaderAt(e, k, base)'
  BY <1>1, <1>3, <1>6, <1>7, <1>8, ExtendedOK, SMTT(30)
<1>10. WriterAt(e)'
  <2>1. PICK n \in Nat, bytes \in Nat : n = l.n /\ bytes = l.bytes
    BY LogTypes
  <2>2. /\ wr.msg = sent[Len(sent)] /\ Len(sent) >= 1
        /\ l.at[n + 1] = bytes /\ l.num[n + 1] = wseq
        /\ l.msg[n + 1] = Len(sent) /\ l.off[n + 1] = wr.written
    BY <1>1, <1>3, <2>1 DEF LogOK, WriterAt
  <2>3. /\ e.n = n + 1 /\ e.bytes = bytes + c
        /\ e.at[n + 2] = bytes + c
        /\ e.num[n + 2] = next_seqnum(wseq)
        /\ size = MaxFrame => e.msg[n + 2] = Len(sent) /\ e.off[n + 2] = wr.written + MaxFrame
        /\ size # MaxFrame => e.msg[n + 2] = Len(sent) + 1 /\ e.off[n + 2] = 0
    <3>1. /\ e.n = n + 1 /\ e.bytes = bytes + c
          /\ e.at[n + 2] = l.at[n + 1] + HEADER_SIZE + size
          /\ e.num[n + 2] = next_seqnum(l.num[n + 1])
          /\ size = MaxFrame => /\ e.msg[n + 2] = l.msg[n + 1]
                                /\ e.off[n + 2] = l.off[n + 1] + MaxFrame
          /\ size # MaxFrame => e.msg[n + 2] = l.msg[n + 1] + 1 /\ e.off[n + 2] = 0
      BY <1>7, <2>1 DEF ExtendsBy
    <3>2. bytes + HEADER_SIZE + size = bytes + c
      BY <1>6
    <3> QED BY <2>2, <3>1, <3>2
  <2>4. e.n + 1 = n + 2
    BY <2>3
  <2>5. /\ wr.written \in Nat /\ MaxFrame \in Nat /\ Len(wr.msg) \in Nat
        /\ written <= Len(wr.msg) /\ size <= MaxFrame /\ written = wr.written + size
        /\ size < MaxFrame => written = Len(wr.msg)
    <3>1. wr.written \in Nat /\ wr.msg \in Seq(Nat) /\ Len(wr.msg) \in Nat
      BY <1>2, IInvParts, LenProperties DEF WriterTypes
    <3> QED BY <1>2, <1>6, <3>1, ChunkFacts, ChannelAssumption DEF IInv
  <2>6. CASE size = MaxFrame
    <3>1. ~done
      BY <1>6, <2>5, <2>6 DEF send_empty_frame
    <3>2. wr' = [wr EXCEPT !.written = written, !.empty = empty]
      BY <1>1, <3>1
    <3>3. wr \in [active : BOOLEAN, msg : Seq(Nat), written : Nat, empty : BOOLEAN]
      BY <1>2, IInvParts DEF WriterTypes
    <3> HIDE DEF written, empty, done
    <3>4. wr'.active = wr.active /\ wr'.msg = wr.msg /\ wr'.written = written
      BY <3>2, <3>3
    <3>5. wr'.active
      BY <1>1, <3>4
    <3> QED BY <1>1, <2>2, <2>3, <2>4, <2>5, <2>6, <3>4, <3>5 DEF WriterAt
  <2>7. CASE size # MaxFrame
    <3>1. done
      BY <1>6, <2>5, <2>7 DEF send_empty_frame
    <3>2. wr' = NoWrite
      BY <1>1, <3>1
    <3>3. ~wr'.active
      BY <3>2 DEF NoWrite
    <3> HIDE DEF done
    <3> QED BY <1>1, <2>2, <2>3, <2>4, <2>7, <3>3 DEF WriterAt
  <2> QED BY <2>6, <2>7
<1> QED BY <1>4, <1>5, <1>9, <1>10, SInvPrimed

\* A write that fails may leave the beginning of a frame behind, the last thing
\* that ever gets on the stream.
LEMMA WriteFailsKeepsSInv ==
  ASSUME SInv, WriteFails
  PROVE  SInv'
<1>1. /\ UNCHANGED readerVars /\ sent' = sent /\ wr.active /\ wr' = NoWrite /\ down' = TRUE
  BY DEF WriteFails
<1>2. IInv /\ ParserOK /\ ContentsOK
  BY DEF SInv
<1>3. PICK l \in Logs, k \in Nat, base \in Nat : LogOK(l, k, base)
  BY DEF SInv
<1>4. IInv'
  BY <1>2, WriteFailsStep
<1>5. ParserOK' /\ ContentsOK'
  BY <1>1, SentKept, ContentsKept
<1>6. PICK size \in Nat : size = compute_size_to_write
  BY <1>2, ChunkFacts DEF IInv
<1>7. Frame \in Seq(Nat) /\ Len(Frame) = HEADER_SIZE + size /\ stream \in Seq(Nat)
  BY <1>2, <1>6, FrameBytes, IInvParts
<1>8. PICK c \in Nat :
        /\ c <= HEADER_SIZE + size /\ c \in 0..Len(Frame)
        /\ down => c = 0
        /\ stream' = stream \o SubSeq(Frame, 1, c)
  <2>1. PICK c \in 0..(IF down THEN 0 ELSE Len(Frame) - 1) : stream' = stream \o SubSeq(Frame, 1, c)
    BY DEF WriteFails, Frame
  <2>2. c \in Nat /\ c <= HEADER_SIZE + size /\ c \in 0..Len(Frame) /\ (down => c = 0)
    <3>1. CASE down
      BY <1>7, <2>1, <3>1
    <3>2. CASE ~down
      <4>1. c \in 0..(Len(Frame) - 1)
        BY <2>1, <3>2
      <4> QED BY <1>7, <3>2, <4>1
    <3> QED BY <3>1, <3>2
  <2> QED BY <2>1, <2>2
<1>9. /\ stream' \in Seq(Nat) /\ Len(stream') = Len(stream) + c
      /\ \A i \in 1..Len(stream) : stream'[i] = stream[i]
      /\ \A i \in 1..c : stream'[Len(stream) + i] = Frame[i]
  BY <1>7, <1>8, PrefixFacts
<1>10. ~wr'.active
  BY <1>1 DEF NoWrite
<1>11. CASE ~down
  <2>1. PICK e \in Logs : ExtendsBy(l, e, size, c)
    BY <1>2, <1>6, <1>8, LogExtends
  <2>2. Laid(e)' /\ StreamIs(e, base)' /\ ReaderAt(e, k, base)'
    BY <1>1, <1>3, <1>6, <1>8, <1>9, <1>11, <2>1, ExtendedOK
  <2>3. WriterAt(e)'
    BY <1>1, <1>10 DEF WriterAt
  <2> QED BY <1>4, <1>5, <2>2, <2>3, SInvPrimed
<1>12. CASE down
  <2>1. Laid(l)'
    BY <1>1, <1>2, <1>3, SentKept, LaidKept DEF LogOK
  <2>2. WriterAt(l)'
    BY <1>1, <1>10 DEF WriterAt
  <2>3. StreamIs(l, base)'
    <3>1. StreamIs(l, base) /\ rb' = rb
      BY <1>1, <1>3 DEF LogOK, readerVars
    <3>2. Len(stream) \in Nat
      BY <1>7, LenProperties
    <3>3. Len(stream') = Len(stream) /\ \A i \in 1..Len(stream) : stream'[i] = stream[i]
      BY <1>8, <1>9, <1>12, <3>2
    <3> QED BY <3>1, <3>3 DEF StreamIs
  <2>4. ReaderAt(l, k, base)'
    BY <1>1, <1>3, ReaderAtKept DEF LogOK
  <2> QED BY <1>4, <1>5, <2>1, <2>2, <2>3, <2>4, SInvPrimed
<1> QED BY <1>11, <1>12

\* The connection may be lost at any time.
LEMMA LoseKeepsSInv ==
  ASSUME SInv, Lose
  PROVE  SInv'
<1>1. /\ UNCHANGED readerVars /\ sent' = sent /\ wr' = wr /\ wseq' = wseq
      /\ stream' = stream /\ down' = TRUE
  BY DEF Lose, writerVars
<1>2. IInv /\ ParserOK /\ ContentsOK
  BY DEF SInv
<1>3. PICK l \in Logs, k \in Nat, base \in Nat : LogOK(l, k, base)
  BY DEF SInv
<1>4. IInv'
  BY <1>2, LoseStep
<1>5. ParserOK' /\ ContentsOK'
  BY <1>1, SentKept, ContentsKept
<1>6. Laid(l)'
  BY <1>1, <1>2, <1>3, SentKept, LaidKept DEF LogOK
<1>7. WriterAt(l)'
  BY <1>1, <1>3 DEF LogOK, WriterAt
<1>8. StreamIs(l, base)'
  BY <1>1, <1>3 DEF LogOK, StreamIs, readerVars
<1>9. ReaderAt(l, k, base)'
  BY <1>1, <1>3, ReaderAtKept DEF LogOK
<1> QED BY <1>4, <1>5, <1>6, <1>7, <1>8, <1>9, SInvPrimed

-----------------------------------------------------------------------------
(* The reader's steps.                                                        *)

\* The reader's steps leave the writer where it is.
LEMMA WriterUnmoved ==
  ASSUME SInv, NEW l \in Logs, Laid(l), WriterAt(l), UNCHANGED writerVars, down' = down
  PROVE  Laid(l)' /\ WriterAt(l)'
<1>1. sent' = sent /\ wr' = wr /\ wseq' = wseq
  BY DEF writerVars
<1>2. IInv
  BY DEF SInv
<1>3. Laid(l)'
  BY <1>1, <1>2, SentKept, LaidKept
<1>4. WriterAt(l)'
  BY <1>1 DEF WriterAt
<1> QED BY <1>3, <1>4

\* A step that neither parses nor hands out, and keeps the bytes of the buffer
\* up to the pending ones, changes nothing the reader holds.
LEMMA ReaderWaits ==
  ASSUME SInv, NEW l \in Logs, NEW k \in Nat, NEW base \in Nat, LogOK(l, k, base),
         sent' = sent, got' = got, views' = views, ps' = ps, rseq' = rseq, err' = err,
         ~ready, ~ready', (rpc.at = "reading" => ~res.has)',
         rb'.cur = rb.cur, rb'.pend = rb.pend,
         \A i \in 1..rb.pend : rb'.data[i] = rb.data[i]
  PROVE  ParserOK' /\ ContentsOK' /\ ReaderAt(l, k, base)'
<1>1. /\ IInv /\ ParserOK /\ GotOK /\ CurrentOK /\ ViewsOK /\ ReaderAt(l, k, base)
  BY DEF SInv, ContentsOK, LogOK
<1>2. /\ rb.cur \in Nat /\ rb.pend \in Nat /\ rb.cur <= rb.pend
      /\ current_message_size(rb) = rb.pend - rb.cur
      /\ current_message_size(rb)' = current_message_size(rb)
  BY <1>1, IInvParts DEF Buffers, Ordered, current_message_size
<1>3. ParserOK'
  BY <1>1 DEF ParserOK
<1>4. GotOK' /\ ReadyOK'
  BY <1>1 DEF GotOK, ReadyOK
<1>5. CurrentOK'
  <2> SUFFICES ASSUME ~ps.first_frame
               PROVE  /\ Len(got) < Len(sent)
                      /\ \A p \in 1..current_message_size(rb) :
                            rb'.data[rb.cur + p] = sent[Len(got) + 1][p]
    BY <1>2 DEF CurrentOK
  <2>1. ASSUME NEW p \in 1..current_message_size(rb)
        PROVE  rb'.data[rb.cur + p] = sent[Len(got) + 1][p]
    <3>1. rb.cur + p \in 1..rb.pend
      BY <1>2
    <3> QED BY <1>1, <3>1 DEF CurrentOK
  <2> QED BY <1>1, <2>1 DEF CurrentOK
<1>6. ViewsOK'
  <2> SUFFICES ASSUME NEW i \in 1..Len(views)
               PROVE  /\ views[i].message \in 1..Len(got)
                      /\ views[i].first + Len(sent[views[i].message]) <= rb.cur
                      /\ \A p \in 1..Len(sent[views[i].message]) :
                            rb'.data[views[i].first + p] = sent[views[i].message][p]
    BY DEF ViewsOK
  <2>1. /\ views[i].message \in 1..Len(got)
        /\ views[i].first + Len(sent[views[i].message]) <= rb.cur
        /\ \A p \in 1..Len(sent[views[i].message]) :
              rb.data[views[i].first + p] = sent[views[i].message][p]
    BY <1>1 DEF ViewsOK
  <2>2. views[i].first \in Nat /\ Len(sent[views[i].message]) \in Nat
    <3>1. views[i] \in [first : Nat, message : Nat]
      BY <1>1, IInvParts, ElementOfSeq DEF ReaderTypes
    <3>2. views[i].message \in 1..Len(sent)
      <4>1. Len(got) \in Nat /\ Len(sent) \in Nat /\ Len(got) <= Len(sent)
        BY <1>1, IInvParts, SentFacts, LenProperties DEF ReaderTypes, GotOK
      <4> QED BY <2>1, <4>1
    <3> QED BY <1>1, <3>1, <3>2, SentFacts
  <2>3. ASSUME NEW p \in 1..Len(sent[views[i].message])
        PROVE  rb'.data[views[i].first + p] = sent[views[i].message][p]
    <3>1. views[i].first + p \in 1..rb.pend
      <4>1. PICK f \in Nat, len \in Nat : f = views[i].first /\ len = Len(sent[views[i].message])
        BY <2>2
      <4>2. p \in 1..len /\ f + len <= rb.cur
        BY <2>1, <4>1
      <4>3. f + p \in 1..rb.pend
        BY <1>2, <4>2
      <4> QED BY <4>1, <4>3
    <3> QED BY <2>1, <3>1
  <2> QED BY <2>1, <2>3
<1>7. ReaderAt(l, k, base)'
  <2>1. Here' = Here /\ NextNumber' = NextNumber
    BY DEF Here, NextNumber
  <2> QED BY <1>1, <1>2, <2>1 DEF ReaderAt
<1> QED BY <1>3, <1>4, <1>5, <1>6, <1>7 DEF ContentsOK

\* The bytes the reader has still to parse, when the buffer's pending bytes are
\* where they were, or somewhere else.
LEMMA StreamKept ==
  ASSUME SInv, NEW l \in Logs, NEW base \in Nat, StreamIs(l, base), stream' = stream,
         pending_size(rb') = pending_size(rb),
         \A p \in 1..pending_size(rb) : rb'.data[rb'.pend + p] = rb.data[rb.pend + p]
  PROVE  StreamIs(l, base)'
BY DEF StreamIs

\* A read fails: the buffer may have grown and holds the same bytes.
LEMMA ReadFailsKeepsSInv ==
  ASSUME SInv, ReadFails
  PROVE  SInv'
<1>1. /\ UNCHANGED writerVars /\ stream' = stream /\ down' = down
      /\ got' = got /\ ps' = ps /\ res' = res /\ rseq' = rseq /\ views' = views /\ err' = err
      /\ rpc.at = "reading" /\ rpc' = [at |-> "idle", back |-> "idle"]
      /\ rb' = grown(rb, res.required)
  BY DEF ReadFails
<1>2. IInv /\ ParserOK
  BY DEF SInv
<1>3. PICK l \in Logs, k \in Nat, base \in Nat : LogOK(l, k, base)
  BY DEF SInv
<1>4. IInv'
  BY <1>2, ReadFailsStep
<1>5. Laid(l)' /\ WriterAt(l)'
  BY <1>1, <1>3, WriterUnmoved DEF LogOK
<1>6. /\ rb'.cur = rb.cur /\ rb'.pend = rb.pend /\ rb'.free = rb.free
      /\ \A i \in 1..Len(rb.data) : rb'.data[i] = rb.data[i]
      /\ rb.pend \in Nat /\ rb.free \in Nat /\ Len(rb.data) \in Nat
      /\ rb.pend <= rb.free /\ rb.free <= Len(rb.data)
  <2>1. res.required \in Nat /\ rb \in Buffers /\ Ordered(rb)
    BY <1>2, IInvParts DEF ReaderTypes
  <2>2. /\ rb'.cur = rb.cur /\ rb'.pend = rb.pend /\ rb'.free = rb.free
        /\ \A i \in 1..Len(rb.data) : rb'.data[i] = rb.data[i]
    BY <1>1, <2>1, GrownFacts
  <2>3. /\ rb.pend \in Nat /\ rb.free \in Nat /\ Len(rb.data) \in Nat
        /\ rb.pend <= rb.free /\ rb.free <= Len(rb.data)
    BY <2>1, LenProperties DEF Buffers, Ordered
  <2> QED BY <2>2, <2>3
<1>7. ~ready /\ ~ready' /\ (rpc.at = "reading" => ~res.has)'
  <2>1. ~res.has
    BY <1>1, <1>2 DEF ParserOK
  <2> QED BY <1>1, <2>1 DEF ready
<1>8. \A i \in 1..rb.pend : rb'.data[i] = rb.data[i]
  BY <1>6
<1>9. ParserOK' /\ ContentsOK' /\ ReaderAt(l, k, base)'
  <2>1. sent' = sent
    BY <1>1 DEF writerVars
  <2> QED BY <1>1, <1>3, <1>6, <1>7, <1>8, <2>1, ReaderWaits
<1>10. StreamIs(l, base)'
  <2>1. pending_size(rb') = pending_size(rb) /\ pending_size(rb) = rb.free - rb.pend
    BY <1>6 DEF pending_size
  <2>2. ASSUME NEW p \in 1..pending_size(rb) PROVE rb'.data[rb'.pend + p] = rb.data[rb.pend + p]
    <3>1. rb.pend + p \in 1..Len(rb.data)
      BY <1>6, <2>1
    <3> QED BY <1>6, <3>1
  <2> QED BY <1>1, <1>3, <2>1, <2>2, StreamKept DEF LogOK
<1> QED BY <1>4, <1>5, <1>9, <1>10, SInvPrimed

\* What is read moves from the stream to the pending bytes.
LEMMA ReadBytesKeepsSInv ==
  ASSUME SInv, ReadBytes
  PROVE  SInv'
<1>1. /\ UNCHANGED writerVars /\ down' = down
      /\ got' = got /\ ps' = ps /\ res' = res /\ rseq' = rseq /\ views' = views /\ err' = err
      /\ rpc.at = "reading" /\ rpc' = [rpc EXCEPT !.at = "parsing"]
  BY DEF ReadBytes
<1>2. IInv /\ ParserOK
  BY DEF SInv
<1>3. PICK l \in Logs, k \in Nat, base \in Nat : LogOK(l, k, base)
  BY DEF SInv
<1>4. IInv'
  BY <1>2, ReadBytesStep
<1>5. Laid(l)' /\ WriterAt(l)'
  BY <1>1, <1>3, WriterUnmoved DEF LogOK
<1> DEFINE b == grown(rb, res.required)
<1>6. res.required \in Nat /\ rb \in Buffers /\ Ordered(rb) /\ stream \in Seq(Nat)
  BY <1>2, IInvParts DEF ReaderTypes
<1>7. /\ b \in Buffers /\ Ordered(b)
      /\ b.cur = rb.cur /\ b.pend = rb.pend /\ b.free = rb.free
      /\ \A i \in 1..Len(rb.data) : b.data[i] = rb.data[i]
  BY <1>6, GrownFacts
<1>8. PICK n \in Nat :
         /\ n <= free_size(b) /\ n <= Len(stream)
         /\ rb' = filled(b, n, stream)
         /\ stream' = SubSeq(stream, n + 1, Len(stream))
  BY <1>2, ReadBytesForm
<1> HIDE DEF b
<1>9. /\ rb'.cur = rb.cur /\ rb'.pend = rb.pend /\ rb'.free = rb.free + n
      /\ \A i \in 1..b.free : rb'.data[i] = b.data[i]
      /\ \A i \in 1..n : rb'.data[b.free + i] = stream[i]
  BY <1>6, <1>7, <1>8, FilledFacts, SMTT(30)
<1>10. /\ rb.pend \in Nat /\ rb.free \in Nat /\ Len(rb.data) \in Nat
       /\ rb.pend <= rb.free /\ rb.free <= Len(rb.data) /\ Len(stream) \in Nat
  BY <1>6, LenProperties DEF Buffers, Ordered
<1>11. \A i \in 1..rb.free : rb'.data[i] = rb.data[i]
  BY <1>7, <1>9, <1>10
<1>12. ~ready /\ ~ready' /\ (rpc.at = "reading" => ~res.has)'
  <2>1. ~res.has
    BY <1>1, <1>2 DEF ParserOK
  <2> QED BY <1>1, <2>1 DEF ready
<1>13. ParserOK' /\ ContentsOK' /\ ReaderAt(l, k, base)'
  <2>1. sent' = sent
    BY <1>1 DEF writerVars
  <2>2. \A i \in 1..rb.pend : rb'.data[i] = rb.data[i]
    BY <1>10, <1>11
  <2> QED BY <1>1, <1>3, <1>9, <1>12, <2>1, <2>2, ReaderWaits
<1>14. StreamIs(l, base)'
  <2>1. PICK s0 \in Nat, p0 \in Nat, pend \in Nat, free \in Nat :
          s0 = Len(stream) /\ pend = rb.pend /\ free = rb.free /\ pend <= free /\ p0 = free - pend
    <3>1. rb.free - rb.pend \in Nat
      BY <1>10
    <3> QED BY <1>10, <3>1
  <2>2. pending_size(rb) = p0 /\ pending_size(rb') = p0 + n /\ n <= s0
    BY <1>8, <1>9, <2>1 DEF pending_size
  <2>3. /\ base + p0 + s0 = l.bytes
        /\ \A p \in 1..p0 : rb.data[pend + p] = l.all[base + p]
        /\ \A p \in 1..s0 : stream[p] = l.all[base + p0 + p]
    BY <1>3, <2>1, <2>2 DEF LogOK, StreamIs
  <2>4. /\ Len(stream') = s0 - n
        /\ \A i \in 1..(s0 - n) : stream'[i] = stream[n + i]
    BY <1>6, <1>8, <2>1, <2>2, SliceFacts
  <2>5. base + (p0 + n) + (s0 - n) = l.bytes
    BY <2>2, <2>3
  <2>6. ASSUME NEW p \in 1..(p0 + n) PROVE rb'.data[pend + p] = l.all[base + p]
    <3>1. CASE p <= p0
      <4>1. p \in 1..p0 /\ pend + p \in 1..free
        BY <2>1, <3>1, SMTT(30)
      <4> QED BY <1>11, <2>1, <2>3, <4>1
    <3>2. CASE p > p0
      <4>1. PICK i \in 1..n : p = p0 + i /\ pend + p = free + i /\ base + p = base + p0 + i /\ i \in 1..s0
        <5>1. PICK i \in 1..n : p = p0 + i
          <6>1. p - p0 \in 1..n /\ p = p0 + (p - p0)
            BY <3>2
          <6> QED BY <6>1
        <5>2. i \in 1..s0
          BY <2>2
        <5>3. pend + p = free + i
          <6>1. free = pend + p0
            BY <2>1
          <6> QED BY <5>1, <6>1
        <5> QED BY <5>1, <5>2, <5>3
      <4>2. rb'.data[free + i] = stream[i]
        BY <1>7, <1>9, <2>1
      <4>3. stream[i] = l.all[base + p0 + i]
        BY <2>3, <4>1
      <4> QED BY <4>1, <4>2, <4>3
    <3> QED BY <3>1, <3>2
  <2>7. ASSUME NEW p \in 1..(s0 - n) PROVE stream'[p] = l.all[base + (p0 + n) + p]
    <3>1. n + p \in 1..s0 /\ base + p0 + (n + p) = base + (p0 + n) + p
      BY <2>2
    <3> QED BY <2>3, <2>4, <3>1
  <2> QED BY <1>9, <2>1, <2>2, <2>4, <2>5, <2>6, <2>7 DEF StreamIs
<1> QED BY <1>4, <1>5, <1>13, <1>14, SInvPrimed

\* A new read drops what is reserved, or keeps it.
LEMMA ReadSomeKeepsSInv ==
  ASSUME SInv, NEW keep \in BOOLEAN, ReadSome(keep)
  PROVE  SInv'
<1>1. /\ UNCHANGED writerVars /\ stream' = stream /\ down' = down /\ ~res.has
      /\ got' = got /\ ps' = ps /\ res' = res /\ rseq' = rseq /\ err' = err
      /\ rpc' = [at |-> "reading", back |-> "reading"]
  BY DEF ReadSome
<1>2. /\ IInv /\ ParserOK /\ GotOK /\ CurrentOK /\ sent' = sent
  BY <1>1 DEF SInv, ContentsOK, writerVars
<1>3. PICK l \in Logs, k \in Nat, base \in Nat : LogOK(l, k, base)
  BY DEF SInv
<1>4. IInv'
  BY <1>2, ReadSomeStep
<1>5. Laid(l)' /\ WriterAt(l)'
  BY <1>1, <1>3, WriterUnmoved DEF LogOK
<1>6. ~ready /\ ~ready' /\ (rpc.at = "reading" => ~res.has)'
  BY <1>1 DEF ready
<1>7. CASE rb' = rb /\ views' = views
  <2>1. ParserOK' /\ ContentsOK' /\ ReaderAt(l, k, base)'
    BY <1>1, <1>2, <1>3, <1>6, <1>7, ReaderWaits
  <2>2. StreamIs(l, base)'
    BY <1>1, <1>3, <1>7 DEF LogOK, StreamIs
  <2> QED BY <1>4, <1>5, <2>1, <2>2, SInvPrimed
<1>8. CASE rb' = remove_reserved(rb) /\ views' = <<>>
  <2>1. PICK cur \in Nat, pend \in Nat, free \in Nat :
          /\ cur = rb.cur /\ pend = rb.pend /\ free = rb.free /\ cur <= pend /\ pend <= free
    BY <1>2, IInvParts DEF Buffers, Ordered
  <2>2. /\ rb'.cur = 0 /\ rb'.pend = pend - cur /\ rb'.free = free - cur
        /\ \A i \in 1..(free - cur) : rb'.data[i] = rb.data[cur + i]
    BY <1>2, <1>8, <2>1, IInvParts, RemoveReservedFacts
  <2>3. /\ current_message_size(rb) = pend - cur /\ current_message_size(rb)' = pend - cur
        /\ pending_size(rb) = free - pend /\ pending_size(rb') = free - pend
    BY <2>1, <2>2 DEF current_message_size, pending_size
  <2>4. ParserOK'
    <3>1. ps.first_frame => rb'.cur = rb'.pend
      BY <1>2, <2>1, <2>2 DEF ParserOK
    <3> QED BY <1>1, <1>2, <1>6, <3>1 DEF ParserOK
  <2>5. GotOK' /\ ReadyOK'
    BY <1>1, <1>2, <1>6 DEF GotOK, ReadyOK
  <2>6. CurrentOK'
    <3> SUFFICES ASSUME ~ps.first_frame
                 PROVE  /\ Len(got) < Len(sent)
                        /\ \A p \in 1..(pend - cur) : rb'.data[0 + p] = sent[Len(got) + 1][p]
      BY <1>1, <1>2, <2>2, <2>3 DEF CurrentOK
    <3>1. ASSUME NEW p \in 1..(pend - cur) PROVE rb'.data[0 + p] = sent[Len(got) + 1][p]
      <4>1. p \in 1..(free - cur) /\ 0 + p = p
        BY <2>1
      <4>2. rb.data[cur + p] = sent[Len(got) + 1][p]
        BY <1>2, <2>1, <2>3 DEF CurrentOK
      <4> QED BY <2>2, <4>1, <4>2
    <3> QED BY <1>2, <3>1 DEF CurrentOK
  <2>7. ViewsOK'
    <3>1. 1..Len(views') = {}
      BY <1>8
    <3> QED BY <3>1, Zenon DEF ViewsOK
  <2>8. StreamIs(l, base)'
    <3>1. ASSUME NEW p \in 1..(free - pend) PROVE rb'.data[rb'.pend + p] = rb.data[rb.pend + p]
      <4>1. /\ (pend - cur) + p \in 1..(free - cur) /\ cur + ((pend - cur) + p) = pend + p
        BY <2>1
      <4> QED BY <2>1, <2>2, <4>1
    <3> QED BY <1>1, <1>3, <2>3, <3>1, StreamKept DEF LogOK
  <2>9. ReaderAt(l, k, base)'
    <3>1. Here' = Here /\ NextNumber' = NextNumber
      BY <1>1, <1>6 DEF Here, NextNumber
    <3> QED BY <1>1, <1>3, <1>6, <2>3, <3>1 DEF LogOK, ReaderAt
  <2> QED BY <1>4, <1>5, <2>4, <2>5, <2>6, <2>7, <2>8, <2>9, SInvPrimed DEF ContentsOK
<1> QED BY <1>7, <1>8 DEF ReadSome

\* A header that is not there yet.
LEMMA HeaderAsked ==
  ASSUME SInv, ParseHeader, pending_size(rb) < HEADER_SIZE
  PROVE  SInv'
<1>1. /\ UNCHANGED writerVars /\ stream' = stream /\ down' = down /\ rpc.at = "parsing"
      /\ got' = got /\ rseq' = rseq /\ views' = views /\ err' = err
      /\ rb' = rb /\ ps' = ps
      /\ res' = [res EXCEPT !.has = FALSE, !.required = HEADER_SIZE - pending_size(rb)]
  <2>1. ~(pending_size(rb) >= HEADER_SIZE)
    BY IInvParts DEF SInv, Buffers, pending_size
  <2> QED BY <2>1 DEF ParseHeader
<1>2. IInv
  BY DEF SInv
<1>3. PICK l \in Logs, k \in Nat, base \in Nat : LogOK(l, k, base)
  BY DEF SInv
<1>4. IInv'
  BY <1>2, ParseHeaderStep
<1>5. Laid(l)' /\ WriterAt(l)'
  BY <1>1, <1>3, WriterUnmoved DEF LogOK
<1>6. ~ready /\ ~ready' /\ (rpc.at = "reading" => ~res.has)'
  <2>1. ~res'.has
    BY <1>1, <1>2, IInvParts DEF ReaderTypes
  <2> QED BY <1>1, <2>1 DEF ready
<1>7. ParserOK' /\ ContentsOK' /\ ReaderAt(l, k, base)'
  <2>1. sent' = sent
    BY <1>1 DEF writerVars
  <2> QED BY <1>1, <1>3, <1>6, <2>1, ReaderWaits
<1>8. StreamIs(l, base)'
  BY <1>1, <1>3 DEF LogOK, StreamIs
<1> QED BY <1>4, <1>5, <1>7, <1>8, SInvPrimed

\* The four bytes at the head of the pending ones are the header of the next
\* frame of the log.
LEMMA HeaderIsNextFrames ==
  ASSUME SInv, NEW l \in Logs, NEW k \in Nat, NEW base \in Nat, LogOK(l, k, base),
         ps.header, HEADER_SIZE <= pending_size(rb)
  PROVE  /\ k + 1 \in 1..l.n /\ l.at[k + 1] = base
         /\ packet_size(HeaderBytes) = l.len[k + 1]
         /\ sequence_number(HeaderBytes) = l.num[k + 1]
<1>1. /\ IInv /\ ParserOK /\ Laid(l) /\ StreamIs(l, base) /\ ReaderAt(l, k, base)
  BY DEF SInv, LogOK
<1>2. PICK n \in Nat, bytes \in Nat, j \in Nat : n = l.n /\ bytes = l.bytes /\ j = k + 1
  BY LogTypes
<1>3. PICK at \in Nat : at = l.at[j] /\ at = base
  <2>1. ps.remaining = 0
    BY <1>1 DEF ParserOK
  <2>2. l.at[j] = base
    BY <1>1, <1>2, <2>1 DEF ReaderAt
  <2> QED BY <2>2
<1>4. base + 4 <= bytes
  <2>1. PICK p0 \in Nat, s0 \in Nat : p0 = pending_size(rb) /\ s0 = Len(stream)
    BY <1>1, IInvParts, LenProperties DEF Buffers, Ordered, pending_size
  <2>2. base + p0 + s0 = bytes
    BY <1>1, <1>2, <2>1 DEF StreamIs
  <2> QED BY <2>1, <2>2
<1>5. j \in 1..n
  <2>1. k <= n
    BY <1>1, <1>2 DEF ReaderAt
  <2>2. CASE k = n
    <3>1. bytes <= l.at[j]
      BY <1>1, <1>2, <2>2 DEF Laid
    <3> QED BY <1>3, <1>4, <3>1
  <2>3. CASE k < n
    BY <1>2, <2>3
  <2> QED BY <2>1, <2>2, <2>3
<1>6. FrameOK(l, j)
  BY <1>1, <1>2, <1>5 DEF Laid
<1>7. PICK len \in Nat, num \in Nat : len = l.len[j] /\ num = l.num[j]
  BY LogTypes
<1> DEFINE h == packet_header(len, num)
<1>8. ASSUME NEW i \in 1..4 PROVE HeaderBytes[i] = h[i]
  <2>1. HeaderBytes[i] = rb.data[rb.pend + i]
    BY <1>1, HeaderBytesFacts
  <2>2. rb.data[rb.pend + i] = l.all[base + i]
    <3>1. i \in 1..pending_size(rb)
      <4>1. pending_size(rb) \in Nat
        BY <1>1, IInvParts, SMTT(30) DEF Buffers, Ordered, pending_size
      <4> QED BY <4>1
    <3> QED BY <1>1, <3>1 DEF StreamIs
  <2>3. at + i <= l.bytes
    BY <1>2, <1>3, <1>4
  <2>4. l.all[at + i] = h[i]
    BY <1>3, <1>6, <1>7, <2>3 DEF FrameOK
  <2> QED BY <1>3, <2>1, <2>2, <2>4
<1>9. packet_size(h) = len /\ sequence_number(h) = num
  BY HeaderFacts
<1>10. HeaderBytes[1] = h[1] /\ HeaderBytes[2] = h[2] /\ HeaderBytes[3] = h[3] /\ HeaderBytes[4] = h[4]
  BY <1>8
<1> HIDE DEF h
<1>11. packet_size(HeaderBytes) = packet_size(h) /\ sequence_number(HeaderBytes) = sequence_number(h)
  BY <1>10 DEF packet_size, sequence_number
<1> QED BY <1>2, <1>3, <1>5, <1>7, <1>9, <1>11

\* What taking a header does to the buffer: the message so far stays, without
\* the header, and what was behind the header is pending.
LEMMA HeaderTaken ==
  ASSUME IInv, ParseHeader, HEADER_SIZE <= pending_size(rb),
         ps.first_frame => rb.cur = rb.pend
  PROVE  /\ ps' = process_header(HeaderBytes) /\ res' = res /\ rpc' = rpc
         /\ current_message_size(rb') = current_message_size(rb)
         /\ pending_size(rb') = pending_size(rb) - HEADER_SIZE
         /\ rb.cur <= rb'.cur /\ (ps.first_frame => rb'.cur = rb'.pend)
         /\ ~ps.first_frame => rb'.cur = rb.cur
         /\ \A i \in 1..rb.pend : rb'.data[i] = rb.data[i]
         /\ \A p \in 1..(pending_size(rb) - HEADER_SIZE) :
               rb'.data[rb'.pend + p] = rb.data[rb.pend + HEADER_SIZE + p]
<1> DEFINE b == move_to_current_message(rb, HEADER_SIZE)
<1>1. PICK cur \in Nat, pend \in Nat, free \in Nat, data \in Seq(Nat) :
        /\ cur = rb.cur /\ pend = rb.pend /\ free = rb.free /\ data = rb.data
        /\ cur <= pend /\ pend + 4 <= free /\ free <= Len(data) /\ Len(data) \in Nat
  BY IInvParts DEF Buffers, Ordered, pending_size
<1>2. /\ ps' = process_header(HeaderBytes) /\ res' = res /\ rpc' = rpc
      /\ rb' = IF ps.first_frame THEN move_to_reserved(b, HEADER_SIZE)
               ELSE remove_current_message_last(b, HEADER_SIZE)
  <2>1. ~(pending_size(rb) < HEADER_SIZE)
    BY IInvParts DEF Buffers, pending_size
  <2> QED BY <2>1 DEF ParseHeader, HeaderBytes
<1>3. b \in Buffers /\ Ordered(b)
      /\ b.data = data /\ b.cur = cur /\ b.pend = pend + 4 /\ b.free = free
  <2>1. rb \in Buffers /\ Ordered(rb)
    BY IInvParts
  <2>2. /\ b \in Buffers /\ Ordered(b)
        /\ b = [data |-> rb.data, cur |-> rb.cur, pend |-> rb.pend + HEADER_SIZE, free |-> rb.free]
    BY <2>1, MoveFacts
  <2> HIDE DEF b
  <2> QED BY <1>1, <2>2
<1> HIDE DEF b
<1>4. /\ current_message_size(b) = (pend + 4) - cur /\ pending_size(b) = free - (pend + 4)
      /\ current_message_size(rb) = pend - cur /\ pending_size(rb) = free - pend
      /\ 4 <= current_message_size(b)
  BY <1>1, <1>3 DEF current_message_size, pending_size
<1>5. CASE ps.first_frame
  <2>1. rb' = [data |-> b.data, cur |-> b.cur + 4, pend |-> b.pend, free |-> b.free]
    BY <1>2, <1>3, <1>4, <1>5, MoveFacts
  <2>2. rb'.data = data /\ rb'.cur = cur + 4 /\ rb'.pend = pend + 4 /\ rb'.free = free
    BY <1>3, <2>1
  <2>3. cur = pend
    BY <1>1, <1>5
  <2>4. /\ current_message_size(rb') = 0 /\ current_message_size(rb) = 0
        /\ pending_size(rb') = pending_size(rb) - 4
    <3>1. current_message_size(rb') = (pend + 4) - (cur + 4)
      BY <2>2 DEF current_message_size
    <3>2. pending_size(rb') = free - (pend + 4)
      BY <2>2 DEF pending_size
    <3>3. pend - cur = 0 /\ (pend + 4) - (cur + 4) = 0 /\ free - (pend + 4) = (free - pend) - 4
      BY <2>3
    <3> QED BY <1>4, <3>1, <3>2, <3>3
  <2>5. pend + 4 + 0 = pend + 4 /\ cur <= cur + 4
    OBVIOUS
  <2> QED BY <1>1, <1>2, <1>5, <2>2, <2>3, <2>4, <2>5
<1>6. CASE ~ps.first_frame
  <2>1. /\ rb'.cur = b.cur /\ rb'.pend = b.pend - 4 /\ rb'.free = b.free - 4
        /\ \A i \in 1..(b.pend - 4) : rb'.data[i] = b.data[i]
        /\ \A i \in 1..pending_size(b) : rb'.data[rb'.pend + i] = b.data[b.pend + i]
    <3>1. rb' = remove_current_message_last(b, 4)
      BY <1>2, <1>6
    <3>2. 4 \in Nat
      OBVIOUS
    <3> QED BY <1>3, <1>4, <3>1, <3>2, RemoveLastFacts
  <2>2. rb'.cur = cur /\ rb'.pend = pend /\ rb'.free = free - 4 /\ b.pend - 4 = pend
    BY <1>1, <1>3, <2>1
  <2>3. /\ current_message_size(rb') = current_message_size(rb)
        /\ pending_size(rb') = pending_size(rb) - 4
        /\ pending_size(b) = pending_size(rb) - 4
    BY <1>1, <1>4, <2>2, SMTT(30) DEF current_message_size, pending_size
  <2>4. \A i \in 1..pend : rb'.data[i] = data[i]
    BY <1>3, <2>1, <2>2
  <2>5. \A p \in 1..(pending_size(rb) - 4) : rb'.data[rb'.pend + p] = data[pend + 4 + p]
    BY <1>3, <2>1, <2>3
  <2>6. rb.cur <= rb'.cur
    BY <1>1, <2>2
  <2>7. /\ \A i \in 1..rb.pend : rb'.data[i] = rb.data[i]
        /\ \A p \in 1..(pending_size(rb) - 4) :
              rb'.data[rb'.pend + p] = rb.data[rb.pend + 4 + p]
    BY <1>1, <2>4, <2>5
  <2> QED BY <1>1, <1>2, <1>6, <2>2, <2>3, <2>6, <2>7
<1> QED BY <1>5, <1>6

\* What is kept stays as long as the reserved area does.
LEMMA ViewsKept ==
  ASSUME SInv, sent' = sent, got' = got, views' = views,
         rb'.cur \in Nat, rb.cur <= rb'.cur,
         \A i \in 1..rb.cur : rb'.data[i] = rb.data[i]
  PROVE  ViewsOK'
<1>1. IInv /\ GotOK /\ ViewsOK /\ rb.cur \in Nat
  BY IInvParts DEF SInv, ContentsOK, Buffers
<1> SUFFICES ASSUME NEW i \in 1..Len(views)
             PROVE  /\ views[i].message \in 1..Len(got)
                    /\ views[i].first + Len(sent[views[i].message]) <= rb'.cur
                    /\ \A p \in 1..Len(sent[views[i].message]) :
                          rb'.data[views[i].first + p] = sent[views[i].message][p]
  BY DEF ViewsOK
<1>2. /\ views[i].message \in 1..Len(got)
      /\ views[i].first + Len(sent[views[i].message]) <= rb.cur
      /\ \A p \in 1..Len(sent[views[i].message]) :
            rb.data[views[i].first + p] = sent[views[i].message][p]
  BY <1>1 DEF ViewsOK
<1>3. PICK f \in Nat, len \in Nat : f = views[i].first /\ len = Len(sent[views[i].message])
  <2>1. views[i] \in [first : Nat, message : Nat]
    BY <1>1, IInvParts, ElementOfSeq DEF ReaderTypes
  <2>2. views[i].message \in 1..Len(sent)
    <3>1. Len(got) \in Nat /\ Len(sent) \in Nat /\ Len(got) <= Len(sent)
      BY <1>1, IInvParts, SentFacts, LenProperties DEF ReaderTypes, GotOK
    <3> QED BY <1>2, <3>1
  <2>3. Len(sent[views[i].message]) \in Nat
    BY <1>1, <2>2, SentFacts
  <2> QED BY <2>1, <2>3
<1>4. f + len <= rb'.cur
  <2>1. PICK cur0 \in Nat, cur1 \in Nat : cur0 = rb.cur /\ cur1 = rb'.cur /\ cur0 <= cur1
    BY <1>1
  <2>2. f + len <= cur0
    BY <1>2, <1>3, <2>1
  <2>3. f + len <= cur1
    BY <2>1, <2>2
  <2> QED BY <2>1, <2>3
<1>5. ASSUME NEW p \in 1..len PROVE rb'.data[f + p] = sent[views[i].message][p]
  <2>1. f + p \in 1..rb.cur
    BY <1>1, <1>2, <1>3, SMTT(30)
  <2> QED BY <1>2, <1>3, <2>1
<1> QED BY <1>2, <1>3, <1>4, <1>5

\* The reader takes the header of the next frame, with the number it expects.
LEMMA HeaderTakenKeepsSInv ==
  ASSUME SInv, ParseHeader, HEADER_SIZE <= pending_size(rb)
  PROVE  SInv'
<1>1. /\ UNCHANGED writerVars /\ stream' = stream /\ down' = down /\ rpc.at = "parsing"
      /\ got' = got /\ rseq' = rseq /\ views' = views /\ err' = err /\ ps.header
  BY DEF ParseHeader
<1>2. /\ IInv /\ ParserOK /\ GotOK /\ CurrentOK /\ sent' = sent
  BY <1>1 DEF SInv, ContentsOK, writerVars
<1>3. PICK l \in Logs, k \in Nat, base \in Nat : LogOK(l, k, base)
  BY DEF SInv
<1>4. IInv'
  BY <1>2, ParseHeaderStep
<1>5. Laid(l)' /\ WriterAt(l)'
  BY <1>1, <1>3, WriterUnmoved DEF LogOK
<1>6. /\ ps' = process_header(HeaderBytes) /\ res' = res /\ rpc' = rpc
      /\ current_message_size(rb') = current_message_size(rb)
      /\ pending_size(rb') = pending_size(rb) - HEADER_SIZE
      /\ rb.cur <= rb'.cur /\ (ps.first_frame => rb'.cur = rb'.pend)
      /\ ~ps.first_frame => rb'.cur = rb.cur
      /\ \A i \in 1..rb.pend : rb'.data[i] = rb.data[i]
      /\ \A p \in 1..(pending_size(rb) - HEADER_SIZE) :
            rb'.data[rb'.pend + p] = rb.data[rb.pend + HEADER_SIZE + p]
  BY <1>2, HeaderTaken DEF ParserOK
<1>7. PICK cur \in Nat, pend \in Nat, p0 \in Nat, s0 \in Nat, c0 \in Nat :
        /\ cur = rb.cur /\ pend = rb.pend /\ p0 = pending_size(rb) /\ s0 = Len(stream)
        /\ cur <= pend /\ c0 = current_message_size(rb) /\ c0 = pend - cur
  BY <1>2, IInvParts, LenProperties DEF Buffers, Ordered, pending_size, current_message_size
<1>8. rb'.cur \in Nat
  BY <1>4, IInvPartsPrimed DEF Buffers
<1>9. PICK j \in Nat, n \in Nat : j = k + 1 /\ n = l.n
  <2>1. k + 1 \in Nat /\ l.n \in Nat
    BY DEF Logs
  <2> QED BY <2>1
<1>10. PICK len \in Nat, num \in Nat : len = l.len[j] /\ num = l.num[j]
  BY LogTypes
<1>11. /\ j \in 1..n /\ l.at[j] = base
       /\ packet_size(HeaderBytes) = len /\ sequence_number(HeaderBytes) = num
  BY <1>1, <1>3, <1>9, <1>10, HeaderIsNextFrames
<1>12. FrameOK(l, j)
  BY <1>3, <1>9, <1>11 DEF LogOK, Laid
<1>13. ~ready /\ ~ready'
  BY <1>1, <1>6 DEF ready
<1>14. num = NextNumber /\ l.msg[j] = Len(got) + 1
  <2>1. ReaderAt(l, k, base) /\ Here = Len(got) + 1
    BY <1>3, <1>13 DEF LogOK, Here
  <2>2. num = NextNumber
    BY <1>9, <1>10, <2>1 DEF ReaderAt
  <2>3. CASE ps.first_frame
    BY <1>9, <2>1, <2>2, <2>3 DEF ReaderAt
  <2>4. CASE ~ps.first_frame
    <3>1. k \in 1..n /\ l.msg[k] = Len(got) + 1 /\ l.len[k] = MaxFrame
      BY <1>1, <1>2, <1>9, <1>11, <2>1, <2>4 DEF ReaderAt, ParserOK
    <3>2. FrameOK(l, k)
      BY <1>3, <1>9, <3>1 DEF LogOK, Laid
    <3> QED BY <1>9, <2>2, <3>1, <3>2 DEF FrameOK
  <2> QED BY <2>3, <2>4
<1>15. /\ ~ps'.first_frame /\ ~ps'.header /\ ps'.remaining = len
       /\ ps'.more <=> len = MaxFrame
       /\ ps'.seq_first = IF ps.first_frame THEN num ELSE ps.seq_first
       /\ ps'.seq_last = IF ps.first_frame THEN num ELSE expected_seqnum
       /\ ps'.mismatch <=> ps.mismatch \/ (~ps.first_frame /\ num # expected_seqnum)
  BY <1>2, <1>6, <1>11, ProcessHeaderFacts
<1>16. /\ ps'.seq_last = num /\ ps'.seq_first = rseq /\ ~ps'.mismatch
  <2>1. ~ps.mismatch
    BY <1>2 DEF ParserOK
  <2>2. CASE ps.first_frame
    BY <1>13, <1>14, <1>15, <2>1, <2>2 DEF NextNumber
  <2>3. CASE ~ps.first_frame
    <3>1. num = expected_seqnum
      BY <1>13, <1>14, <2>3 DEF NextNumber, expected_seqnum
    <3>2. ps.seq_first = rseq
      BY <1>3, <2>3 DEF LogOK, ReaderAt
    <3> QED BY <1>15, <2>1, <2>3, <3>1, <3>2
  <2> QED BY <2>2, <2>3
<1>17. ParserOK'
  <2>1. ~err /\ (rpc.at = "reading" => ~res.has)
    BY <1>2 DEF ParserOK
  <2> QED BY <1>1, <1>6, <1>13, <1>15, <1>16, <2>1 DEF ParserOK
<1>18. GotOK' /\ ReadyOK'
  BY <1>1, <1>2, <1>13 DEF GotOK, ReadyOK
<1>19. Len(got) < Len(sent)
  <2>1. l.msg[j] \in 1..Len(sent)
    BY <1>12 DEF FrameOK
  <2>2. Len(got) \in Nat /\ Len(sent) \in Nat
    BY <1>2, IInvParts, SentFacts, LenProperties DEF ReaderTypes
  <2> QED BY <1>14, <2>1, <2>2
<1>20. CurrentOK'
  <2> SUFFICES ASSUME NEW p \in 1..c0
               PROVE  rb'.data[rb'.cur + p] = sent[Len(got) + 1][p]
    BY <1>1, <1>2, <1>6, <1>7, <1>19 DEF CurrentOK
  <2>1. CASE ps.first_frame
    <3>1. c0 = 0
      BY <1>2, <1>7, <2>1 DEF ParserOK
    <3> QED BY <3>1
  <2>2. CASE ~ps.first_frame
    <3>1. cur + p \in 1..pend
      BY <1>7
    <3>2. rb.data[cur + p] = sent[Len(got) + 1][p]
      BY <1>2, <1>7, <2>2 DEF CurrentOK
    <3> QED BY <1>6, <1>7, <2>2, <3>1, <3>2
  <2> QED BY <2>1, <2>2
<1>21. ViewsOK'
  <2>1. \A i \in 1..rb.cur : rb'.data[i] = rb.data[i]
    BY <1>6, <1>7
  <2> QED BY <1>1, <1>2, <1>6, <1>8, <2>1, ViewsKept
<1>22. PICK base2 \in Nat : base2 = base + 4
  OBVIOUS
<1>23. StreamIs(l, base2)'
  <2>1. StreamIs(l, base)
    BY <1>3 DEF LogOK
  <2>2. /\ base + p0 + s0 = l.bytes
        /\ \A p \in 1..p0 : rb.data[pend + p] = l.all[base + p]
        /\ \A p \in 1..s0 : stream[p] = l.all[base + p0 + p]
    BY <1>7, <2>1 DEF StreamIs
  <2>3. PICK p1 \in Nat : p0 = p1 + 4
    <3>1. p0 - 4 \in Nat /\ p0 = (p0 - 4) + 4
      BY <1>7
    <3> QED BY <3>1
  <2>4. pending_size(rb') = p1 /\ pending_size(rb) - 4 = p1
    BY <1>6, <1>7, <2>3
  <2>5. base2 + p1 + s0 = l.bytes /\ base2 + p1 = base + p0
    BY <1>22, <2>2, <2>3
  <2>6. ASSUME NEW p \in 1..p1 PROVE rb'.data[rb'.pend + p] = l.all[base2 + p]
    <3>1. 4 + p \in 1..p0 /\ pend + (4 + p) = pend + 4 + p /\ base + (4 + p) = base2 + p
      BY <1>22, <2>3
    <3>2. rb'.data[rb'.pend + p] = rb.data[pend + 4 + p]
      BY <1>6, <1>7, <2>4
    <3>3. rb.data[pend + (4 + p)] = l.all[base + (4 + p)]
      BY <2>2, <3>1
    <3> QED BY <3>1, <3>2, <3>3
  <2> QED BY <1>1, <1>7, <2>2, <2>4, <2>5, <2>6, ZenonT(40) DEF StreamIs
<1>24. ReaderAt(l, j, base2)'
  <2>1. Here' = Len(got) + 1
    BY <1>1, <1>13 DEF Here
  <2>2. NextNumber' = next_seqnum(num)
    BY <1>13, <1>15, <1>16 DEF NextNumber
  <2>3. j <= n /\ j >= 1
    BY <1>11
  <2>4. l.at[j + 1] = base2 + len /\ l.num[j + 1] = next_seqnum(num)
    <3>1. l.at[j + 1] = base + 4 + len
      BY <1>10, <1>11, <1>12 DEF FrameOK
    <3> QED BY <1>10, <1>12, <1>22, <3>1 DEF FrameOK
  <2>5. l.off[j] + len = c0 + len
    <3>1. CASE ps.first_frame
      <4>1. c0 = 0 /\ l.off[j] = 0
        BY <1>2, <1>3, <1>7, <1>9, <3>1 DEF ParserOK, LogOK, ReaderAt
      <4> QED BY <4>1
    <3>2. CASE ~ps.first_frame
      <4>1. k \in 1..n /\ l.len[k] = MaxFrame /\ l.off[k] + l.len[k] = c0 + ps.remaining
            /\ ps.remaining = 0
        BY <1>1, <1>2, <1>3, <1>7, <1>9, <1>11, <3>2 DEF LogOK, ReaderAt, ParserOK
      <4>2. FrameOK(l, k)
        BY <1>3, <1>9, <4>1 DEF LogOK, Laid
      <4>3. l.off[j] = l.off[k] + MaxFrame
        BY <1>9, <4>1, <4>2 DEF FrameOK
      <4> QED BY <1>7, <4>1, <4>3
    <3> QED BY <3>1, <3>2
  <2>6. current_message_size(rb)' = c0
    BY <1>6, <1>7
  <2> QED BY <1>1, <1>9, <1>10, <1>13, <1>14, <1>15, <1>16, <2>1, <2>2, <2>3, <2>4, <2>5, <2>6, SMTT(30)
      DEF ReaderAt
<1> QED BY <1>4, <1>5, <1>17, <1>18, <1>20, <1>21, <1>23, <1>24, SInvPrimed DEF ContentsOK

\* The bytes a body takes are the next ones of the message that is read.
LEMMA BodyBytes ==
  ASSUME SInv, NEW l \in Logs, NEW k \in Nat, NEW base \in Nat, LogOK(l, k, base),
         ~ps.header, ~ready,
         NEW new \in Nat, new <= pending_size(rb), new <= ps.remaining
  PROVE  /\ ~ps.first_frame /\ k \in 1..l.n /\ FrameOK(l, k) /\ l.msg[k] = Len(got) + 1
         /\ Len(got) < Len(sent)
         /\ \A p \in 1..(current_message_size(rb) + new) :
               rb.data[rb.cur + p] = sent[Len(got) + 1][p]
<1>1. /\ IInv /\ ParserOK /\ CurrentOK /\ Laid(l) /\ StreamIs(l, base) /\ ReaderAt(l, k, base)
  BY DEF SInv, ContentsOK, LogOK
<1>2. ~ps.first_frame
  BY <1>1 DEF ParserOK
<1>3. k \in 1..l.n
  <2>1. k <= l.n /\ k >= 1 /\ l.n \in Nat
    BY <1>1, <1>2, LogTypes DEF ReaderAt
  <2> QED BY <2>1
<1>4. FrameOK(l, k)
  BY <1>1, <1>3 DEF Laid
<1>5. l.msg[k] = Len(got) + 1
  BY <1>1, <1>2 DEF ReaderAt, Here
<1>6. Len(got) < Len(sent)
  BY <1>1, <1>2 DEF CurrentOK
<1>7. PICK cur \in Nat, pend \in Nat, p0 \in Nat, s0 \in Nat, c0 \in Nat, rem \in Nat :
        /\ cur = rb.cur /\ pend = rb.pend /\ p0 = pending_size(rb) /\ s0 = Len(stream)
        /\ cur <= pend /\ c0 = current_message_size(rb) /\ pend = cur + c0
        /\ rem = ps.remaining
  <2>1. PICK cur \in Nat, pend \in Nat, free \in Nat, s0 \in Nat, rem \in Nat :
          /\ cur = rb.cur /\ pend = rb.pend /\ free = rb.free /\ cur <= pend /\ pend <= free
          /\ s0 = Len(stream) /\ rem = ps.remaining
    BY <1>1, IInvParts, LenProperties DEF Buffers, Ordered, ReaderTypes
  <2>2. pending_size(rb) = free - pend /\ current_message_size(rb) = pend - cur
    BY <2>1 DEF pending_size, current_message_size
  <2>3. free - pend \in Nat /\ pend - cur \in Nat /\ pend = cur + (pend - cur)
    BY <2>1, SMTT(30)
  <2> QED BY <2>1, <2>2, <2>3
<1>8. PICK at \in Nat, len \in Nat, off \in Nat, nx \in Nat, bytes \in Nat :
        /\ at = l.at[k] /\ len = l.len[k] /\ off = l.off[k] /\ nx = l.at[k + 1] /\ bytes = l.bytes
  <2>1. k + 1 \in Nat
    OBVIOUS
  <2> QED BY <2>1, LogTypes
<1>9. nx = base + rem /\ nx = at + 4 + len /\ off + len = c0 + rem /\ rem <= len
  BY <1>1, <1>2, <1>4, <1>7, <1>8 DEF ReaderAt, FrameOK
<1>10. /\ base + p0 + s0 = bytes
       /\ \A p \in 1..p0 : rb.data[pend + p] = l.all[base + p]
  BY <1>1, <1>7, <1>8 DEF StreamIs
<1>11. ASSUME NEW p \in 1..(c0 + new) PROVE rb.data[cur + p] = sent[Len(got) + 1][p]
  <2>1. CASE p <= c0
    <3>1. p \in 1..c0
      BY <2>1
    <3> QED BY <1>1, <1>2, <1>7, <3>1 DEF CurrentOK
  <2>2. CASE p > c0
    <3>1. PICK i \in 1..new : p = c0 + i
      <4>1. p - c0 \in 1..new /\ p = c0 + (p - c0)
        BY <2>2
      <4> QED BY <4>1
    <3>2. i \in 1..p0 /\ cur + p = pend + i /\ base + i <= bytes /\ i <= rem
      <4>1. new <= p0 /\ new <= rem
        BY <1>7
      <4>2. i \in 1..p0 /\ i <= rem
        BY <4>1
      <4>3. base + i <= bytes
        BY <1>10, <4>2
      <4>4. cur + p = pend + i
        BY <1>7, <3>1, SMTT(30)
      <4> QED BY <4>2, <4>3, <4>4
    <3>3. PICK q \in 1..len : q = (len - rem) + i
      <4>1. (len - rem) + i \in 1..len
        BY <1>9, <3>2
      <4> QED BY <4>1
    <3>4. at + 4 + q = base + i /\ off + q = p
      BY <1>9, <3>1, <3>3
    <3>5. l.all[at + 4 + q] = sent[l.msg[k]][off + q]
      BY <1>4, <1>8, <3>2, <3>4 DEF FrameOK
    <3> QED BY <1>5, <1>10, <3>2, <3>4, <3>5
  <2> QED BY <2>1, <2>2
<1> QED BY <1>2, <1>3, <1>4, <1>5, <1>6, <1>7, <1>11

\* What is behind the bytes a body takes.
LEMMA StreamBehind ==
  ASSUME SInv, NEW l \in Logs, NEW base \in Nat, StreamIs(l, base), stream' = stream,
         NEW new \in Nat, new <= pending_size(rb), NEW base2 \in Nat, base2 = base + new,
         rb'.data = rb.data, rb'.pend = rb.pend + new, rb'.free = rb.free
  PROVE  StreamIs(l, base2)'
<1>1. IInv
  BY DEF SInv
<1>2. PICK pend \in Nat, p0 \in Nat, s0 \in Nat, p1 \in Nat :
        /\ pend = rb.pend /\ p0 = pending_size(rb) /\ s0 = Len(stream) /\ p0 = new + p1
        /\ pending_size(rb') = p1
  <2>1. PICK pend \in Nat, free \in Nat, s0 \in Nat :
          pend = rb.pend /\ free = rb.free /\ pend <= free /\ s0 = Len(stream)
    BY <1>1, IInvParts, LenProperties DEF Buffers, Ordered
  <2>2. pending_size(rb) = free - pend /\ pending_size(rb') = free - (pend + new)
    BY <2>1 DEF pending_size
  <2>3. /\ free - pend \in Nat /\ free - (pend + new) \in Nat
        /\ free - pend = new + (free - (pend + new))
    BY <2>1, <2>2, SMTT(30)
  <2> QED BY <2>1, <2>2, <2>3
<1>3. /\ base + p0 + s0 = l.bytes
      /\ \A p \in 1..p0 : rb.data[pend + p] = l.all[base + p]
      /\ \A p \in 1..s0 : stream[p] = l.all[base + p0 + p]
  BY <1>2 DEF StreamIs
<1>4. base2 + p1 = base + p0 /\ base2 + p1 + s0 = l.bytes
  BY <1>2, <1>3
<1>5. ASSUME NEW p \in 1..p1 PROVE rb.data[(pend + new) + p] = l.all[base2 + p]
  <2>1. new + p \in 1..p0 /\ pend + (new + p) = (pend + new) + p /\ base + (new + p) = base2 + p
    BY <1>2
  <2> QED BY <1>3, <2>1
<1> QED BY <1>2, <1>3, <1>4, <1>5 DEF StreamIs

\* Part of a frame, the last part of one that is not the last of its message,
\* or the end of a message.
LEMMA ParseBodyKeepsSInv ==
  ASSUME SInv, ParseBody
  PROVE  SInv'
<1> DEFINE take == Smaller(pending_size(rb), ps.remaining)
           b    == move_to_current_message(rb, take)
           c    == move_to_reserved(b, current_message_size(b))
<1>1. /\ UNCHANGED writerVars /\ stream' = stream /\ down' = down /\ rpc.at = "parsing"
      /\ got' = got /\ rseq' = rseq /\ views' = views /\ err' = err /\ ~ps.header
  BY DEF ParseBody
<1>2. /\ IInv /\ ParserOK /\ GotOK /\ CurrentOK /\ sent' = sent /\ ~ready
  BY <1>1 DEF SInv, ContentsOK, writerVars, ready
<1>3. PICK l \in Logs, k \in Nat, base \in Nat : LogOK(l, k, base)
  BY DEF SInv
<1>4. IInv'
  BY <1>2, ParseBodyStep
<1>5. Laid(l)' /\ WriterAt(l)'
  BY <1>1, <1>3, WriterUnmoved DEF LogOK
<1>6. PICK cur \in Nat, pend \in Nat, c0 \in Nat, rem \in Nat, new \in Nat, left \in Nat :
        /\ cur = rb.cur /\ pend = rb.pend /\ pend = cur + c0 /\ c0 = current_message_size(rb)
        /\ rem = ps.remaining /\ new = take /\ rem = new + left /\ new <= pending_size(rb)
  <2>1. /\ rb.cur \in Nat /\ rb.pend \in Nat /\ rb.cur <= rb.pend /\ ps.remaining \in Nat
        /\ current_message_size(rb) = rb.pend - rb.cur
    BY <1>2, IInvParts DEF Buffers, Ordered, ReaderTypes, current_message_size
  <2>2. take \in Nat /\ take <= pending_size(rb) /\ take <= ps.remaining
    BY <1>2, BodyFacts
  <2> HIDE DEF take
  <2>3. /\ rb.pend - rb.cur \in Nat /\ ps.remaining - take \in Nat
        /\ rb.pend = rb.cur + (rb.pend - rb.cur)
        /\ ps.remaining = take + (ps.remaining - take)
    BY <2>1, <2>2
  <2> QED BY <2>1, <2>2, <2>3
<1>7. /\ b = [data |-> rb.data, cur |-> cur, pend |-> pend + new, free |-> rb.free]
      /\ c = [data |-> rb.data, cur |-> pend + new, pend |-> pend + new, free |-> rb.free]
      /\ current_message_size(b) = c0 + new
  <2>1. /\ b = [data |-> rb.data, cur |-> rb.cur, pend |-> rb.pend + take, free |-> rb.free]
        /\ c = [data |-> rb.data, cur |-> rb.pend + take, pend |-> rb.pend + take, free |-> rb.free]
        /\ current_message_size(b) = rb.pend + take - rb.cur
    BY <1>2, BodyFacts
  <2> HIDE DEF take, b, c
  <2>2. pend + new - cur = c0 + new
    BY <1>6
  <2> QED BY <1>6, <2>1, <2>2
<1>8. \/ /\ left # 0 /\ rb' = b
         /\ ps' = [ps EXCEPT !.remaining = left]
         /\ res' = [res EXCEPT !.has = FALSE, !.required = left]
         /\ rpc' = [rpc EXCEPT !.at = rpc.back]
      \/ /\ left = 0 /\ ps.more /\ rb' = b
         /\ ps' = [ps EXCEPT !.remaining = 0, !.header = TRUE]
         /\ res' = res /\ rpc' = rpc
      \/ /\ left = 0 /\ ~ps.more /\ rb' = c
         /\ res' = [has |-> TRUE, required |-> res.required,
                    seq_first |-> ps.seq_first, seq_last |-> ps.seq_last,
                    size |-> c0 + new, mismatch |-> ps.mismatch]
         /\ ps' = NewState
         /\ rpc' = [at |-> "idle", back |-> "idle"]
  <2>1. rem - new = left /\ (new < rem <=> left # 0) /\ (new = rem <=> left = 0)
    BY <1>6
  <2>2. \/ /\ new < rem /\ rb' = b
           /\ ps' = [ps EXCEPT !.remaining = rem - new]
           /\ res' = [res EXCEPT !.has = FALSE, !.required = rem - new]
           /\ rpc' = [rpc EXCEPT !.at = rpc.back]
        \/ /\ new = rem /\ ps.more /\ rb' = b
           /\ ps' = [ps EXCEPT !.remaining = 0, !.header = TRUE]
           /\ res' = res /\ rpc' = rpc
        \/ /\ new = rem /\ ~ps.more /\ rb' = c
           /\ res' = [has |-> TRUE, required |-> res.required,
                      seq_first |-> ps.seq_first, seq_last |-> ps.seq_last,
                      size |-> current_message_size(b), mismatch |-> ps.mismatch]
           /\ ps' = NewState
           /\ rpc' = [at |-> "idle", back |-> "idle"]
    BY <1>6 DEF ParseBody
  <2> HIDE DEF b, c, take
  <2> QED BY <1>7, <2>1, <2>2
<1> HIDE DEF take, b, c
<1>9. /\ rb'.data = rb.data /\ rb'.pend = pend + new /\ rb'.free = rb.free
  BY <1>7, <1>8
<1>10. PICK base2 \in Nat : base2 = base + new
  OBVIOUS
<1>11. StreamIs(l, base2)'
  <2>1. StreamIs(l, base)
    BY <1>3 DEF LogOK
  <2> QED BY <1>1, <1>6, <1>9, <1>10, <2>1, StreamBehind
<1>12. /\ ~ps.first_frame /\ k \in 1..l.n /\ FrameOK(l, k) /\ l.msg[k] = Len(got) + 1
       /\ Len(got) < Len(sent)
       /\ \A p \in 1..(c0 + new) : rb.data[cur + p] = sent[Len(got) + 1][p]
  <2>1. new <= ps.remaining
    BY <1>6
  <2> QED BY <1>1, <1>2, <1>3, <1>6, <2>1, BodyBytes
<1>13. /\ l.at[k + 1] = base2 + left /\ l.num[k + 1] = next_seqnum(ps.seq_last)
       /\ l.off[k] + l.len[k] = (c0 + new) + left
       /\ ps.more <=> l.len[k] = MaxFrame
       /\ ps.seq_first = rseq /\ k <= l.n /\ k >= 1 /\ left <= l.len[k]
  <2>1. /\ ReaderAt(l, k, base) /\ NextNumber = next_seqnum(ps.seq_last)
    BY <1>2, <1>3, <1>12 DEF LogOK, NextNumber
  <2>2. /\ l.at[k + 1] = base + rem /\ l.off[k] + l.len[k] = c0 + rem /\ rem <= l.len[k]
        /\ k <= l.n /\ k >= 1
    BY <1>6, <1>12, <2>1 DEF ReaderAt
  <2>3. base + rem = base2 + left /\ c0 + rem = (c0 + new) + left
    BY <1>6, <1>10
  <2>4. left <= l.len[k]
    <3>1. l.len[k] \in Nat
      BY LogTypes
    <3> QED BY <1>6, <2>2, <3>1
  <2> QED BY <1>12, <2>1, <2>2, <2>3, <2>4 DEF ReaderAt
<1>14. ASSUME rb' = b, ~ready', ~ps'.first_frame, ps'.remaining = left,
              ps'.seq_first = ps.seq_first, ps'.seq_last = ps.seq_last,
              ps'.more <=> ps.more
       PROVE  ContentsOK' /\ ReaderAt(l, k, base2)'
  <2>1. rb'.cur = cur /\ current_message_size(rb)' = c0 + new
    BY <1>7, <1>14
  <2>2. GotOK' /\ ReadyOK'
    BY <1>1, <1>2, <1>14 DEF GotOK, ReadyOK
  <2>3. CurrentOK'
    BY <1>1, <1>2, <1>9, <1>12, <2>1 DEF CurrentOK
  <2>4. ViewsOK'
    BY <1>1, <1>2, <1>6, <1>9, <2>1, ViewsKept
  <2>5. Here' = Len(got) + 1 /\ NextNumber' = next_seqnum(ps.seq_last)
    BY <1>1, <1>14 DEF Here, NextNumber
  <2>6. ReaderAt(l, k, base2)'
    BY <1>1, <1>12, <1>13, <1>14, <2>1, <2>5 DEF ReaderAt
  <2> QED BY <2>2, <2>3, <2>4, <2>6 DEF ContentsOK
<1>15. ASSUME left # 0, rb' = b,
              ps' = [ps EXCEPT !.remaining = left],
              res' = [res EXCEPT !.has = FALSE, !.required = left],
              rpc' = [rpc EXCEPT !.at = rpc.back]
       PROVE  ParserOK' /\ ContentsOK' /\ ReaderAt(l, k, base2)'
  <2>1. /\ ps'.remaining = left /\ ps'.seq_first = ps.seq_first /\ ps'.seq_last = ps.seq_last
        /\ ps'.first_frame = ps.first_frame /\ ps'.header = ps.header /\ ps'.more = ps.more
        /\ ps'.mismatch = ps.mismatch
    BY <1>2, <1>15, IInvParts DEF ReaderTypes
  <2>2. ~res'.has
    BY <1>2, <1>15, IInvParts DEF ReaderTypes
  <2>3. ~ready'
    BY <2>2 DEF ready
  <2>4. ParserOK'
    <3>1. ~ps'.first_frame /\ ~ps'.header /\ ~ps'.mismatch /\ ~err'
      BY <1>1, <1>2, <1>12, <2>1 DEF ParserOK
    <3> QED BY <2>2, <2>3, <3>1 DEF ParserOK
  <2>5. ~ps'.first_frame
    BY <1>12, <2>1
  <2>6. ps'.more <=> ps.more
    BY <2>1, Zenon
  <2> QED BY <1>14, <1>15, <2>1, <2>3, <2>4, <2>5, <2>6
<1>16. ASSUME left = 0, ps.more, rb' = b,
              ps' = [ps EXCEPT !.remaining = 0, !.header = TRUE],
              res' = res, rpc' = rpc
       PROVE  ParserOK' /\ ContentsOK' /\ ReaderAt(l, k, base2)'
  <2>1. /\ ps'.remaining = left /\ ps'.seq_first = ps.seq_first /\ ps'.seq_last = ps.seq_last
        /\ ps'.first_frame = ps.first_frame /\ ps'.more = ps.more /\ ps'.mismatch = ps.mismatch
    BY <1>2, <1>16, IInvParts DEF ReaderTypes
  <2>2. ~ready'
    BY <1>2, <1>16 DEF ready
  <2>3. ~ps'.first_frame
    BY <1>12, <2>1
  <2>4. ps'.more <=> ps.more
    BY <2>1, Zenon
  <2>5. ParserOK'
    <3>1. ~ps'.mismatch /\ ~err' /\ ps'.remaining = 0 /\ ps'.more
      BY <1>1, <1>2, <1>16, <2>1, <2>4 DEF ParserOK
    <3>2. rpc'.at # "reading"
      BY <1>1, <1>16
    <3> QED BY <2>2, <2>3, <3>1, <3>2 DEF ParserOK
  <2> QED BY <1>14, <1>16, <2>1, <2>2, <2>3, <2>4, <2>5
<1>17. ASSUME left = 0, ~ps.more, rb' = c,
              res' = [has |-> TRUE, required |-> res.required,
                      seq_first |-> ps.seq_first, seq_last |-> ps.seq_last,
                      size |-> c0 + new, mismatch |-> ps.mismatch],
              ps' = NewState,
              rpc' = [at |-> "idle", back |-> "idle"]
       PROVE  ParserOK' /\ ContentsOK' /\ ReaderAt(l, k, base2)'
  <2>1. /\ ps'.first_frame /\ ps'.header /\ ps'.remaining = 0 /\ ~ps'.mismatch
    BY <1>17 DEF NewState
  <2>2. /\ res'.has = TRUE /\ res'.seq_first = ps.seq_first /\ res'.seq_last = ps.seq_last
        /\ res'.size = c0 + new /\ res'.mismatch = ps.mismatch /\ rpc'.at = "idle"
    BY <1>17
  <2>3. ready'
    BY <2>2 DEF ready
  <2>4. rb'.cur = pend + new
    BY <1>7, <1>17
  <2>5. ParserOK'
    <3>1. ~ps.mismatch /\ ~err'
      BY <1>1, <1>2 DEF ParserOK
    <3> QED BY <1>9, <2>1, <2>2, <2>4, <3>1 DEF ParserOK
  <2>6. l.len[k] < MaxFrame /\ c0 + new = Len(sent[Len(got) + 1])
    <3>1. PICK len \in Nat, max \in Nat : len = l.len[k] /\ max = MaxFrame
      BY LogTypes, ChannelAssumption
    <3>2. len <= max /\ len # max
      BY <1>12, <1>13, <1>17, <3>1 DEF FrameOK
    <3>3. len < max
      BY <3>2
    <3>4. l.off[k] + l.len[k] = Len(sent[Len(got) + 1])
      BY <1>12, <3>1, <3>3 DEF FrameOK
    <3> QED BY <1>13, <1>17, <3>1, <3>3, <3>4
  <2>7. GotOK' /\ CurrentOK'
    BY <1>1, <1>2, <2>1 DEF GotOK, CurrentOK
  <2>8. ReadyOK'
    <3>1. (pend + new) - (c0 + new) = cur
      BY <1>6
    <3>2. rb'.cur - res'.size = cur
      BY <2>2, <2>4, <3>1
    <3>3. \A p \in 1..(c0 + new) : rb'.data[cur + p] = sent[Len(got) + 1][p]
      BY <1>9, <1>12
    <3> QED BY <1>1, <1>2, <1>12, <1>13, <2>2, <2>6, <3>2, <3>3 DEF ReadyOK
  <2>9. ViewsOK'
    <3>1. rb'.cur \in Nat /\ rb.cur <= rb'.cur
      BY <1>6, <2>4
    <3> QED BY <1>1, <1>2, <1>9, <3>1, ViewsKept
  <2>10. ReaderAt(l, k, base2)'
    <3>1. Here' = Len(got) + 2 /\ NextNumber' = next_seqnum(ps.seq_last)
      BY <1>1, <2>2, <2>3 DEF Here, NextNumber
    <3>2. l.msg[k + 1] = Len(got) + 2 /\ l.off[k + 1] = 0
      <4>1. Len(got) \in Nat /\ (Len(got) + 1) + 1 = Len(got) + 2
        BY <1>2, IInvParts, LenProperties DEF ReaderTypes
      <4> QED BY <1>12, <2>6, <4>1 DEF FrameOK
    <3> QED BY <1>13, <1>17, <2>1, <3>1, <3>2 DEF ReaderAt
  <2> QED BY <2>5, <2>7, <2>8, <2>9, <2>10 DEF ContentsOK
<1>18. ParserOK' /\ ContentsOK' /\ ReaderAt(l, k, base2)'
  BY <1>8, <1>15, <1>16, <1>17
<1> QED BY <1>4, <1>5, <1>11, <1>18, SInvPrimed

\* The message that is ready is the next one that was sent.
LEMMA ReadyIsNext ==
  ASSUME IInv, ReadyOK, ready
  PROVE  SubSeq(rb.data, (rb.cur - res.size) + 1, rb.cur) = sent[Len(got) + 1]
<1> DEFINE first == rb.cur - res.size
           m     == SubSeq(rb.data, first + 1, rb.cur)
           s     == sent[Len(got) + 1]
<1>1. m \in Seq(Nat) /\ Len(m) = res.size /\ \A i \in 1..res.size : m[i] = rb.data[first + i]
  <2>1. res.has
    BY DEF ready
  <2> QED BY <2>1, ReadyFacts
<1>2. Len(got) + 1 \in 1..Len(sent)
  <2>1. Len(got) \in Nat /\ Len(sent) \in Nat /\ Len(got) < Len(sent)
    BY IInvParts, SentFacts, LenProperties DEF ReaderTypes, ReadyOK
  <2> QED BY <2>1
<1>3. s \in Seq(Nat)
  BY <1>2, SentFacts
<1>4. Len(s) = res.size /\ \A i \in 1..res.size : rb.data[first + i] = s[i]
  BY DEF ReadyOK
<1> HIDE DEF m, s
<1>5. \A i \in 1..Len(m) : m[i] = s[i]
  BY <1>1, <1>4
<1>6. m = s
  BY <1>1, <1>3, <1>4, <1>5, SeqEqual
<1> QED BY <1>6 DEF m, s

\* A message that is had is handed out: it is never refused for its number.
LEMMA MessageHandedOut ==
  ASSUME SInv, GetNextMessage
  PROVE  /\ ready /\ Len(got) < Len(sent)
         /\ rseq' = next_seqnum(res.seq_last) /\ err' = err
         /\ got' = Append(got, sent[Len(got) + 1])
         /\ views' = Append(views, [first |-> rb.cur - res.size, message |-> Len(got) + 1])
         /\ rpc' = [at |-> "parsing", back |-> "idle"]
<1>1. IInv /\ ParserOK /\ ReadyOK
  BY DEF SInv, ContentsOK
<1>2. ready
  BY DEF ready, GetNextMessage
<1>3. ~res.mismatch /\ rseq = res.seq_first /\ Len(got) < Len(sent)
  BY <1>1, <1>2 DEF ParserOK, ReadyOK
<1>4. /\ rseq' = next_seqnum(res.seq_last) /\ err' = err
      /\ got' = Append(got, SubSeq(rb.data, (rb.cur - res.size) + 1, rb.cur))
      /\ views' = Append(views, [first |-> rb.cur - res.size, message |-> Len(got) + 1])
      /\ rpc' = [at |-> "parsing", back |-> "idle"]
  BY <1>3 DEF GetNextMessage
<1> QED BY <1>1, <1>2, <1>3, <1>4, ReadyIsNext

\* A message is handed out: it is the next one that was written.
LEMMA GetNextMessageKeepsSInv ==
  ASSUME SInv, GetNextMessage
  PROVE  SInv'
<1>1. /\ UNCHANGED writerVars /\ stream' = stream /\ down' = down
      /\ rb' = rb /\ ps' = ps /\ res' = res
  BY DEF GetNextMessage
<1>2. /\ IInv /\ ParserOK /\ GotOK /\ ReadyOK /\ ViewsOK /\ sent' = sent
  BY <1>1 DEF SInv, ContentsOK, writerVars
<1>3. PICK l \in Logs, k \in Nat, base \in Nat : LogOK(l, k, base)
  BY DEF SInv
<1>4. IInv'
  BY <1>2, GetNextMessageStep
<1>5. Laid(l)' /\ WriterAt(l)'
  BY <1>1, <1>3, WriterUnmoved DEF LogOK
<1>6. StreamIs(l, base)'
  BY <1>1, <1>3 DEF LogOK, StreamIs
<1>7. /\ ready /\ Len(got) < Len(sent) /\ rseq' = next_seqnum(res.seq_last) /\ err' = err
      /\ got' = Append(got, sent[Len(got) + 1])
      /\ views' = Append(views, [first |-> rb.cur - res.size, message |-> Len(got) + 1])
      /\ rpc' = [at |-> "parsing", back |-> "idle"]
  BY MessageHandedOut
<1>8. ~ready' /\ rpc'.at = "parsing"
  BY <1>7 DEF ready
<1>9. PICK n \in Nat, ns \in Nat, nv \in Nat :
        n = Len(got) /\ ns = Len(sent) /\ nv = Len(views) /\ n < ns /\ n + 1 \in 1..ns
  <2>1. Len(got) \in Nat /\ Len(sent) \in Nat /\ Len(views) \in Nat
    BY <1>2, IInvParts, SentFacts, LenProperties DEF ReaderTypes
  <2> QED BY <1>7, <2>1
<1>10. /\ Len(got') = n + 1 /\ (\A i \in 1..n : got'[i] = got[i]) /\ got'[n + 1] = sent[n + 1]
  <2>1. got \in Seq(Seq(Nat)) /\ sent[n + 1] \in Seq(Nat)
    BY <1>2, <1>9, IInvParts, SentFacts DEF ReaderTypes
  <2> QED BY <1>7, <1>9, <2>1, AppendProperties
<1>11. ReaderAt(l, k, base) /\ ps.first_frame
  BY <1>3, <1>7 DEF LogOK, ReaderAt
<1>12. ParserOK'
  BY <1>1, <1>2, <1>7, <1>8 DEF ParserOK
<1>13. GotOK'
  <2>1. ASSUME NEW i \in 1..(n + 1) PROVE got'[i] = sent[i]
    <3>1. CASE i \in 1..n
      BY <1>2, <1>9, <1>10, <3>1 DEF GotOK
    <3>2. CASE i = n + 1
      BY <1>10, <3>2
    <3> QED BY <1>9, <3>1, <3>2
  <2> QED BY <1>2, <1>9, <1>10, <2>1 DEF GotOK
<1>14. ReadyOK' /\ CurrentOK'
  BY <1>1, <1>8, <1>11 DEF ReadyOK, CurrentOK
<1>15. ViewsOK'
  <2> DEFINE v == [first |-> rb.cur - res.size, message |-> n + 1]
  <2>1. /\ Len(views') = nv + 1 /\ (\A i \in 1..nv : views'[i] = views[i]) /\ views'[nv + 1] = v
    <3>1. rb.cur - res.size \in Nat
      BY <1>2, <1>7, ReadyFacts DEF ready
    <3>2. views \in Seq([first : Nat, message : Nat]) /\ v \in [first : Nat, message : Nat]
      BY <1>2, <1>9, <3>1, IInvParts DEF ReaderTypes
    <3>3. views' = Append(views, v)
      BY <1>7, <1>9
    <3> HIDE DEF v
    <3> QED BY <1>9, <3>2, <3>3, AppendProperties
  <2>2. v.first = rb.cur - res.size /\ v.message = n + 1
    OBVIOUS
  <2> HIDE DEF v
  <2>3. ASSUME NEW i \in 1..(nv + 1)
        PROVE  /\ views'[i].message \in 1..(n + 1)
               /\ views'[i].first + Len(sent[views'[i].message]) <= rb.cur
               /\ \A p \in 1..Len(sent[views'[i].message]) :
                     rb.data[views'[i].first + p] = sent[views'[i].message][p]
    <3>1. CASE i \in 1..nv
      <4>1. views'[i] = views[i]
        BY <2>1, <3>1
      <4>2. /\ views[i].message \in 1..n
            /\ views[i].first + Len(sent[views[i].message]) <= rb.cur
            /\ \A p \in 1..Len(sent[views[i].message]) :
                  rb.data[views[i].first + p] = sent[views[i].message][p]
        BY <1>2, <1>9, <3>1 DEF ViewsOK
      <4>3. views[i].message \in 1..(n + 1)
        BY <4>2
      <4> QED BY <4>1, <4>2, <4>3
    <3>2. CASE i = nv + 1
      <4>1. /\ res.size = Len(sent[n + 1])
            /\ \A p \in 1..res.size : rb.data[rb.cur - res.size + p] = sent[n + 1][p]
        BY <1>2, <1>7, <1>9 DEF ReadyOK
      <4>2. (rb.cur - res.size) + res.size <= rb.cur
        <5>1. rb.cur \in Nat /\ res.size \in Nat
          BY <1>2, IInvParts DEF Buffers, ReaderTypes
        <5> QED BY <5>1
      <4>3. n + 1 \in 1..(n + 1)
        OBVIOUS
      <4>4. views'[i] = v
        BY <2>1, <3>2
      <4> QED BY <2>2, <4>1, <4>2, <4>3, <4>4
    <3> QED BY <3>1, <3>2, SMTT(30)
  <2> QED BY <1>1, <1>2, <1>10, <2>1, <2>3 DEF ViewsOK
<1>16. ReaderAt(l, k, base)'
  <2>1. Here' = Here
    <3>1. Here = n + 2 /\ Here' = (n + 1) + 1
      BY <1>7, <1>8, <1>9, <1>10 DEF Here
    <3> QED BY <3>1
  <2>2. NextNumber' = NextNumber
    BY <1>1, <1>7, <1>8, <1>11 DEF NextNumber
  <2> QED BY <1>1, <1>11, <2>1, <2>2 DEF ReaderAt
<1> QED BY <1>4, <1>5, <1>6, <1>12, <1>13, <1>14, <1>15, <1>16, SInvPrimed DEF ContentsOK

-----------------------------------------------------------------------------
(* The theorems.                                                              *)

\* Every step keeps the invariant.
LEMMA StepSInv == SInv /\ [Next]_vars => SInv'
<1> SUFFICES ASSUME SInv, [Next]_vars PROVE SInv'
  OBVIOUS
<1>1. CASE \E m \in Messages : Write(m)
  BY <1>1, WriteKeepsSInv
<1>2. CASE WriteChunk
  BY <1>2, WriteChunkKeepsSInv
<1>3. CASE WriteFails
  BY <1>3, WriteFailsKeepsSInv
<1>4. CASE \E keep \in BOOLEAN : ReadSome(keep)
  BY <1>4, ReadSomeKeepsSInv
<1>5. CASE ReadBytes
  BY <1>5, ReadBytesKeepsSInv
<1>6. CASE ReadFails
  BY <1>6, ReadFailsKeepsSInv
<1>7. CASE ParseHeader
  <2>1. pending_size(rb) \in Int
    BY IInvParts DEF SInv, Buffers, pending_size
  <2>2. CASE pending_size(rb) < HEADER_SIZE
    BY <1>7, <2>2, HeaderAsked
  <2>3. CASE HEADER_SIZE <= pending_size(rb)
    BY <1>7, <2>3, HeaderTakenKeepsSInv
  <2> QED BY <2>1, <2>2, <2>3
<1>8. CASE ParseBody
  BY <1>8, ParseBodyKeepsSInv
<1>9. CASE GetNextMessage
  BY <1>9, GetNextMessageKeepsSInv
<1>10. CASE Lose
  BY <1>10, LoseKeepsSInv
<1>11. CASE UNCHANGED vars
  <2>1. UNCHANGED readerVars /\ UNCHANGED writerVars /\ stream' = stream /\ down' = down
    BY <1>11 DEF vars, readerVars, writerVars
  <2>2. PICK l \in Logs, k \in Nat, base \in Nat : LogOK(l, k, base)
    BY DEF SInv
  <2>3. Laid(l)' /\ WriterAt(l)'
    BY <2>1, <2>2, WriterUnmoved DEF LogOK
  <2>4. StreamIs(l, base)'
    BY <2>1, <2>2 DEF LogOK, StreamIs, readerVars
  <2>5. ReaderAt(l, k, base)'
    BY <2>1, <2>2, ReaderAtKept DEF LogOK
  <2>6. ParserOK' /\ ContentsOK'
    <3>1. sent' = sent
      BY <2>1 DEF writerVars
    <3> QED BY <2>1, <3>1, SentKept, ContentsKept
  <2>7. IInv'
    <3>1. IInv
      BY DEF SInv
    <3> QED BY <1>11, <3>1, StepIInv
  <2> QED BY <2>3, <2>4, <2>5, <2>6, <2>7, SInvPrimed
<1> QED BY <1>1, <1>2, <1>3, <1>4, <1>5, <1>6, <1>7, <1>8, <1>9, <1>10, <1>11
    DEF Next, ParseMessage

\* The bytes on their way, in the buffer and in the writer's hands are always
\* those of the frames of the messages that were written, in order, and both
\* ends are where they believe to be in them.
THEOREM StreamInvariantHolds == Spec => []SInv
<1>1. Init => SInv
  BY InitSInv
<1>2. SInv /\ [Next]_vars => SInv'
  BY StepSInv
<1> QED BY <1>1, <1>2, PTL DEF Spec

\* get_next_message never reports sequence_number_mismatch between two ends
\* that frame alike, wherever the numbers wrap and however the bytes arrive.
THEOREM NoMismatchEver == Spec => []NoMismatch
<1>1. SInv => NoMismatch
  BY DEF SInv, ParserOK, NoMismatch
<1> QED BY <1>1, StreamInvariantHolds, PTL

\* A view handed out shows its message for as long as it is to be kept alive:
\* no later read, removed header or growth of the buffer touches its bytes.
LEMMA ViewsAreIntact == SInv => KeptMessagesIntact
<1> SUFFICES ASSUME SInv, NEW i \in DOMAIN views
             PROVE  SubSeq(rb.data, views[i].first + 1,
                           views[i].first + Len(sent[views[i].message]))
                      = sent[views[i].message]
  BY DEF KeptMessagesIntact
<1>1. IInv /\ GotOK /\ ViewsOK
  BY DEF SInv, ContentsOK
<1>2. i \in 1..Len(views) /\ views[i] \in [first : Nat, message : Nat]
  <2>1. views \in Seq([first : Nat, message : Nat])
    BY <1>1, IInvParts DEF ReaderTypes
  <2>2. i \in 1..Len(views)
    BY <2>1, LenProperties
  <2> QED BY <2>1, <2>2, ElementOfSeq
<1> DEFINE s == sent[views[i].message]
<1>3. /\ views[i].message \in 1..Len(got)
      /\ views[i].first + Len(s) <= rb.cur
      /\ \A p \in 1..Len(s) : rb.data[views[i].first + p] = s[p]
  BY <1>1, <1>2 DEF ViewsOK
<1>4. s \in Seq(Nat) /\ Len(s) \in Nat
  <2>1. Len(got) \in Nat /\ Len(sent) \in Nat /\ Len(got) <= Len(sent)
    BY <1>1, IInvParts, SentFacts, LenProperties DEF ReaderTypes, GotOK
  <2>2. views[i].message \in 1..Len(sent)
    BY <1>3, <2>1
  <2> QED BY <1>1, <2>2, SentFacts
<1> HIDE DEF s
<1>5. PICK a \in Nat, b \in Nat, n \in Nat, data \in Seq(Nat) :
        /\ a = views[i].first /\ b = views[i].first + Len(s) /\ n = Len(s) /\ data = rb.data
        /\ a <= b /\ b - a = n /\ b <= Len(data)
  <2>1. PICK cur \in Nat, len \in Nat : cur = rb.cur /\ len = Len(rb.data) /\ cur <= len
        /\ rb.data \in Seq(Nat)
    BY <1>1, IInvParts, LenProperties DEF Buffers, Ordered
  <2>2. PICK a \in Nat, n \in Nat : a = views[i].first /\ n = Len(s)
    BY <1>2, <1>4
  <2>3. a + n \in Nat /\ a <= a + n /\ (a + n) - a = n /\ a + n <= len
    BY <1>3, <2>1, <2>2, SMTT(30)
  <2> QED BY <2>1, <2>2, <2>3
<1> DEFINE t == SubSeq(data, a + 1, b)
<1>6. t \in Seq(Nat) /\ Len(t) = n /\ \A p \in 1..n : t[p] = data[a + p]
  <2>1. a <= b /\ b <= Len(data) /\ b - a = n
    BY <1>5
  <2>2. t \in Seq(Nat) /\ Len(t) = b - a /\ \A p \in 1..(b - a) : t[p] = data[a + p]
    BY <2>1, SliceFacts
  <2> HIDE DEF t
  <2> QED BY <2>1, <2>2
<1> HIDE DEF t
<1>7. \A p \in 1..Len(t) : t[p] = s[p]
  BY <1>3, <1>5, <1>6
<1>8. t = s
  BY <1>4, <1>5, <1>6, <1>7, SeqEqual
<1> QED BY <1>5, <1>8 DEF t, s

\* A message that was handed out and is kept is never overwritten: read_buffer's
\* moves and growth leave the bytes that its view names what they were.
THEOREM KeptViewsStayIntact == Spec => []KeptMessagesIntact
<1> QED BY ViewsAreIntact, StreamInvariantHolds, PTL

\* What MessageFifo allows.
FifoSafety == Fifo!Init /\ [][Fifo!Next]_<<sent, got, down>>

\* A step of the framing layer is one of the queue of messages, or none: the
\* reader hands out the next message that was written, whole, or nothing.
LEMMA StepIsFifos == SInv /\ [Next]_vars => [Fifo!Next]_<<sent, got, down>>
<1> SUFFICES ASSUME SInv, [Next]_vars
             PROVE  Fifo!Next \/ UNCHANGED <<sent, got, down>>
  OBVIOUS
<1>0. down \in BOOLEAN
  BY DEF SInv, IInv, TypeOK
<1>1. CASE \E m \in Messages : Write(m)
  BY <1>1 DEF Write, readerVars, Fifo!Next, Fifo!Send
<1>2. CASE WriteChunk
  BY <1>2 DEF WriteChunk, readerVars
<1>3. CASE WriteFails
  <2>1. sent' = sent /\ got' = got /\ down' = TRUE
    BY <1>3 DEF WriteFails, readerVars
  <2> QED BY <1>0, <2>1 DEF Fifo!Next, Fifo!Lose
<1>4. CASE \E keep \in BOOLEAN : ReadSome(keep)
  BY <1>4 DEF ReadSome, writerVars
<1>5. CASE ReadBytes
  BY <1>5 DEF ReadBytes, writerVars
<1>6. CASE ReadFails
  BY <1>6 DEF ReadFails, writerVars
<1>7. CASE ParseHeader
  BY <1>7 DEF ParseHeader, writerVars
<1>8. CASE ParseBody
  BY <1>8 DEF ParseBody, writerVars
<1>9. CASE GetNextMessage
  <2>1. Len(got) < Len(sent) /\ got' = Append(got, sent[Len(got) + 1])
    BY <1>9, MessageHandedOut
  <2>2. sent' = sent /\ down' = down
    BY <1>9 DEF GetNextMessage, writerVars
  <2> QED BY <2>1, <2>2 DEF Fifo!Next, Fifo!Receive
<1>10. CASE Lose
  BY <1>10 DEF Lose, writerVars, readerVars, Fifo!Next, Fifo!Lose
<1>11. CASE UNCHANGED vars
  BY <1>11 DEF vars
<1> QED BY <1>1, <1>2, <1>3, <1>4, <1>5, <1>6, <1>7, <1>8, <1>9, <1>10, <1>11
    DEF Next, ParseMessage

\* The framing layer implements the queue of messages it is to be: whatever it
\* does, messages arrive whole, once and in order.  (That they do arrive, the
\* queue's fairness, is checked by TLC.)
THEOREM FramingIsAFifo == Spec => FifoSafety
<1>1. Init => Fifo!Init
  BY DEF Init, Fifo!Init
<1>2. SInv /\ [Next]_vars => [Fifo!Next]_<<sent, got, down>>
  BY StepIsFifos
<1> QED BY <1>1, <1>2, StreamInvariantHolds, PTL DEF Spec, FifoSafety
=============================================================================
