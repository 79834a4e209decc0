--------------------------- MODULE MessageChannel ---------------------------
(* The framing layer of boost_mysql (detail/channel): message_writer cuts a   *)
(* message into frames of at most MaxFrame bytes, each behind a header with   *)
(* its size and a sequence number; the stream delivers the bytes in pieces of *)
(* any size; message_reader gathers them in a read_buffer, where              *)
(* message_parser joins the frames of a message in place, and hands out views *)
(* into that buffer.                                                          *)
(*                                                                            *)
(* A byte is a number.  Writer and reader are the two ends of one connection: *)
(* the far end (the MySQL server) frames its messages as the writer does.     *)
EXTENDS Naturals, Sequences

CONSTANTS MaxFrame,      \* max_frame_size_; MAX_PACKET_SIZE (0xffffff) in the program
          SeqMod,        \* sequence numbers are taken modulo this; 256 in the program
          InitialBuffer, \* initial_read_buffer_size, 0 unless asked for
          Messages,      \* the messages that may be written, sequences of bytes
          MaxMessages    \* bound: how many are written

ASSUME ChannelAssumption ==
    /\ MaxFrame \in Nat \ {0}
    /\ SeqMod \in Nat \ {0}
    /\ InitialBuffer \in Nat
    /\ MaxMessages \in Nat
    /\ Messages \subseteq Seq(Nat)

VARIABLES sent, got,  \* history: what was given to the writer, what the reader gave out
          wr,         \* message_writer_processor: what is being written, and how far
          wseq,       \* the sequence number the writer uses
          stream,     \* bytes on their way
          down,       \* the connection is lost: reads and writes fail
          rb,         \* read_buffer: the bytes and the ends of its areas
          ps,         \* message_parser::state_t
          res,        \* message_parser::result
          rseq,       \* the sequence number the reader expects
          rpc,        \* where the reader is: idle, reading, or parsing
          views,      \* the messages handed out that are still to be kept alive
          err         \* sequence_number_mismatch was reported

vars == <<sent, got, wr, wseq, stream, down, rb, ps, res, rseq, rpc, views, err>>
writerVars == <<sent, wr, wseq>>
readerVars == <<got, rb, ps, res, rseq, rpc, views, err>>

HEADER_SIZE == 4

\* A uint8_t counts modulo 256.
next_seqnum_mutant(s) == s + 1
next_seqnum(s) == (s + 1) % SeqMod

Smaller(a, b) == IF a <= b THEN a ELSE b
Larger(a, b) == IF a <= b THEN b ELSE a

-----------------------------------------------------------------------------
(* Writing.                                                                   *)

NoWrite == [active |-> FALSE, msg |-> <<>>, written |-> 0, empty |-> FALSE]

compute_size_to_write == Smaller(MaxFrame, Len(wr.msg) - wr.written)

\* packet_header: three bytes of size, the lowest first, and the sequence number.
packet_header(size, seqnum) ==
    <<size % 256, (size \div 256) % 256, size \div 65536, seqnum>>

\* All bytes were sent but the last frame was a full one: the far end would take
\* it for one of several, so an empty frame has to follow.
send_empty_frame_mutant(size, written) == FALSE
send_empty_frame(size, written) == size = MaxFrame /\ written = Len(wr.msg)

\* write / write_op up to the first chunk: processor_.reset().
Write(m) ==
    /\ ~wr.active
    /\ Len(sent) < MaxMessages
    /\ wr' = [active |-> TRUE, msg |-> m, written |-> 0, empty |-> m = <<>>]
    /\ sent' = Append(sent, m)
    /\ UNCHANGED <<wseq, stream, down, readerVars>>

\* One turn of the write loop: prepare_next_chunk, the write, on_bytes_written
\* and the test of is_complete.
WriteChunk ==
    LET size    == compute_size_to_write
        written == wr.written + size
        empty   == send_empty_frame(size, written)
        done    == ~empty /\ written >= Len(wr.msg)
    IN  /\ wr.active /\ ~down
        /\ stream' = stream \o packet_header(size, wseq)
                            \o SubSeq(wr.msg, wr.written + 1, written)
        /\ wseq' = next_seqnum(wseq)
        /\ wr' = IF done THEN NoWrite
                 ELSE [wr EXCEPT !.written = written, !.empty = empty]
        /\ UNCHANGED <<sent, down, readerVars>>

\* The write of a chunk fails: part of it may have left, the operation ends.
WriteFails ==
    LET size  == compute_size_to_write
        chunk == packet_header(size, wseq)
                     \o SubSeq(wr.msg, wr.written + 1, wr.written + size)
    IN  /\ wr.active
        /\ \E n \in 0..(IF down THEN 0 ELSE Len(chunk) - 1) :
              stream' = stream \o SubSeq(chunk, 1, n)
        /\ wseq' = next_seqnum(wseq)
        /\ wr' = NoWrite
        /\ down' = TRUE
        /\ UNCHANGED <<sent, readerVars>>

-----------------------------------------------------------------------------
(* read_buffer.  cur, pend and free are the offsets at which the current      *)
(* message, the pending bytes and the free area begin.                        *)

current_message_size(b) == b.pend - b.cur
pending_size(b) == b.free - b.pend
free_size(b) == Len(b.data) - b.free

\* memmove of the n bytes at offset from to offset to.
memmove(data, to, from, n) ==
    [i \in DOMAIN data |->
        IF to < i /\ i <= to + n THEN data[i - to + from] ELSE data[i]]

move_to_reserved(b, n) == [b EXCEPT !.cur = @ + n]
move_to_current_message(b, n) == [b EXCEPT !.pend = @ + n]

remove_current_message_last_mutant(b, n) ==
    [data |-> memmove(b.data, b.cur - n, b.pend, pending_size(b)),
     cur  |-> b.cur,
     pend |-> b.pend - n,
     free |-> b.free - n]

remove_current_message_last(b, n) ==
    [data |-> memmove(b.data, b.pend - n, b.pend, pending_size(b)),
     cur  |-> b.cur,
     pend |-> b.pend - n,
     free |-> b.free - n]

remove_reserved_mutant(b) ==
    [data |-> memmove(b.data, 0, b.cur, b.free - b.cur),
     cur  |-> 0,
     pend |-> b.pend,
     free |-> b.free - b.cur]

remove_reserved(b) ==
    [data |-> memmove(b.data, 0, b.cur, b.free - b.cur),
     cur  |-> 0,
     pend |-> b.pend - b.cur,
     free |-> b.free - b.cur]

\* grow_to_fit(n) when there is too little room: the vector grows to what is
\* needed or, if that is more, to twice its size, and all of it is used.
grown(b, n) ==
    LET need == Len(b.data) + n - free_size(b)
        size == IF free_size(b) < n THEN Larger(need, 2 * Len(b.data)) ELSE Len(b.data)
    IN  [b EXCEPT !.data =
            [i \in 1..size |-> IF i <= Len(b.data) THEN b.data[i] ELSE 0]]

-----------------------------------------------------------------------------
(* Reading.                                                                   *)

NewState == [first_frame |-> TRUE, seq_first |-> 0, seq_last |-> 0, header |-> TRUE,
             remaining |-> 0, more |-> FALSE, mismatch |-> FALSE]

NoResult == [has |-> FALSE, required |-> 0, seq_first |-> 0, seq_last |-> 0,
             size |-> 0, mismatch |-> FALSE]

expected_seqnum_mutant == ps.seq_last + 1
expected_seqnum == next_seqnum(ps.seq_last)

\* What the four bytes of a header say: the size of its frame, the lowest byte
\* first, and the frame's sequence number.
packet_size(h) == h[1] + 256 * h[2] + 65536 * h[3]
sequence_number(h) == h[4]

\* The state of the parser once it has taken the header h.
process_header(h) ==
    LET number == sequence_number(h)
    IN  [first_frame |-> FALSE,
         seq_first |-> IF ps.first_frame THEN number ELSE ps.seq_first,
         seq_last  |-> IF ps.first_frame THEN number ELSE expected_seqnum,
         header    |-> FALSE,
         remaining |-> packet_size(h),
         more      |-> packet_size(h) = MaxFrame,
         mismatch  |-> ps.mismatch \/ (~ps.first_frame /\ number # expected_seqnum)]

\* parse_message, the part that needs a header; it asks for the missing bytes
\* of one (and ends) or takes it and goes on with the body.
ParseHeader ==
    LET h == SubSeq(rb.data, rb.pend + 1, rb.pend + HEADER_SIZE)
        b == move_to_current_message(rb, HEADER_SIZE)
    IN  /\ rpc.at = "parsing" /\ ps.header
        /\ \/ /\ pending_size(rb) < HEADER_SIZE
              /\ res' = [res EXCEPT !.has = FALSE,
                                    !.required = HEADER_SIZE - pending_size(rb)]
              /\ rpc' = [rpc EXCEPT !.at = rpc.back]
              /\ UNCHANGED <<rb, ps>>
           \/ /\ pending_size(rb) >= HEADER_SIZE
              /\ ps' = process_header(h)
              /\ rb' = IF ps.first_frame THEN move_to_reserved(b, HEADER_SIZE)
                       ELSE remove_current_message_last(b, HEADER_SIZE)
              /\ UNCHANGED <<res, rpc>>
        /\ UNCHANGED <<got, rseq, views, err, writerVars, stream, down>>

\* parse_message, the part that takes the bytes of a frame: it asks for the
\* rest of the frame, goes on to the next frame, or has a message.
ParseBody ==
    LET new  == Smaller(pending_size(rb), ps.remaining)
        b    == move_to_current_message(rb, new)
        size == current_message_size(b)
    IN  /\ rpc.at = "parsing" /\ ~ps.header
        /\ \/ /\ new < ps.remaining
              /\ rb' = b
              /\ ps' = [ps EXCEPT !.remaining = @ - new]
              /\ res' = [res EXCEPT !.has = FALSE, !.required = ps.remaining - new]
              /\ rpc' = [rpc EXCEPT !.at = rpc.back]
           \/ /\ new = ps.remaining /\ ps.more
              /\ rb' = b
              /\ ps' = [ps EXCEPT !.remaining = 0, !.header = TRUE]
              /\ UNCHANGED <<res, rpc>>
           \/ /\ new = ps.remaining /\ ~ps.more
              /\ rb' = move_to_reserved(b, size)
              /\ res' = [has |-> TRUE, required |-> res.required,
                         seq_first |-> ps.seq_first, seq_last |-> ps.seq_last,
                         size |-> size, mismatch |-> ps.mismatch]
              /\ ps' = NewState
              /\ rpc' = [at |-> "idle", back |-> "idle"]
        /\ UNCHANGED <<got, rseq, views, err, writerVars, stream, down>>

\* read_some / read_some_op when there is no message: with keep_messages the
\* reserved area stays, otherwise it goes and with it the messages handed out.
ReadSome(keep_messages) ==
    /\ rpc.at = "idle" /\ ~res.has
    /\ \/ keep_messages /\ UNCHANGED <<rb, views>>
       \/ ~keep_messages /\ rb' = remove_reserved(rb) /\ views' = <<>>
    /\ rpc' = [at |-> "reading", back |-> "reading"]
    /\ UNCHANGED <<got, ps, res, rseq, err, writerVars, stream, down>>

\* One turn of the read loop: maybe_resize_buffer, a read of what the stream
\* has, at most as much as is free (nothing at once when nothing is free),
\* move_to_pending.  parse_message follows.
ReadBytes ==
    LET b == grown(rb, res.required)
    IN  /\ rpc.at = "reading"
        /\ free_size(b) = 0 \/ stream # <<>>
        /\ \E n \in 0..Smaller(free_size(b), Len(stream)) :
              /\ n = 0 <=> free_size(b) = 0
              /\ rb' = [b EXCEPT !.free = @ + n,
                                 !.data = [i \in DOMAIN @ |->
                                    IF b.free < i /\ i <= b.free + n
                                    THEN stream[i - b.free] ELSE @[i]]]
              /\ stream' = SubSeq(stream, n + 1, Len(stream))
        /\ rpc' = [rpc EXCEPT !.at = "parsing"]
        /\ UNCHANGED <<got, ps, res, rseq, views, err, writerVars, down>>

\* The read fails: the operation ends, the buffer keeps its new size and what
\* it holds.
ReadFails ==
    /\ rpc.at = "reading" /\ down
    /\ rb' = grown(rb, res.required)
    /\ rpc' = [at |-> "idle", back |-> "idle"]
    /\ UNCHANGED <<got, ps, res, rseq, views, err, writerVars, stream, down>>

\* get_next_message: a sequence number that does not fit is an error and leaves
\* the message where it is; otherwise the message is handed out as a view of
\* the buffer and what follows it is parsed.
GetNextMessage ==
    LET first == rb.cur - res.size
    IN  /\ rpc.at = "idle" /\ res.has
        /\ \/ /\ res.mismatch \/ rseq # res.seq_first
              /\ err' = TRUE
              /\ UNCHANGED <<got, rseq, views, rpc>>
           \/ /\ ~res.mismatch /\ rseq = res.seq_first
              /\ rseq' = next_seqnum(res.seq_last)
              /\ got' = Append(got, SubSeq(rb.data, first + 1, rb.cur))
              /\ views' = Append(views, [first |-> first, message |-> Len(got) + 1])
              /\ rpc' = [at |-> "parsing", back |-> "idle"]
              /\ UNCHANGED err
        /\ UNCHANGED <<rb, ps, res, writerVars, stream, down>>

-----------------------------------------------------------------------------
\* The far end or the network goes away.
Lose == /\ ~down
        /\ down' = TRUE
        /\ UNCHANGED <<writerVars, stream, readerVars>>

\* A connection right after channel::reset: nothing read, nothing written.
Init == /\ sent = <<>> /\ got = <<>>
        /\ wr = NoWrite /\ wseq = 0
        /\ stream = <<>> /\ down = FALSE
        /\ rb = [data |-> [i \in 1..InitialBuffer |-> 0], cur |-> 0, pend |-> 0, free |-> 0]
        /\ ps = NewState /\ res = NoResult
        /\ rseq = 0
        /\ rpc = [at |-> "idle", back |-> "idle"]
        /\ views = <<>>
        /\ err = FALSE

ParseMessage == ParseHeader \/ ParseBody

Next == \/ \E m \in Messages : Write(m)
        \/ WriteChunk
        \/ WriteFails
        \/ \E keep \in BOOLEAN : ReadSome(keep)
        \/ ReadBytes
        \/ ReadFails
        \/ ParseMessage
        \/ GetNextMessage
        \/ Lose

\* A started write goes on or fails, the reader's own steps are taken, and its client
\* keeps reading.
Fairness == /\ WF_vars(WriteChunk \/ WriteFails)
            /\ WF_vars(\E keep \in BOOLEAN : ReadSome(keep))
            /\ WF_vars(ReadBytes \/ ReadFails)
            /\ WF_vars(ParseMessage)
            /\ WF_vars(GetNextMessage)

Spec == Init /\ [][Next]_vars /\ Fairness

-----------------------------------------------------------------------------
(* Properties.                                                                *)

\* Types; sequence numbers fit the uint8_t that holds them at either end.
TypeOK ==
    /\ sent \in Seq(Messages) /\ got \in Seq(Seq(Nat))
    /\ wr \in [active : BOOLEAN, msg : Seq(Nat), written : Nat, empty : BOOLEAN]
    /\ wseq \in 0..(SeqMod - 1) /\ rseq \in 0..(SeqMod - 1)
    /\ stream \in Seq(Nat) /\ down \in BOOLEAN
    /\ rb \in [data : Seq(Nat), cur : Nat, pend : Nat, free : Nat]
    /\ ps \in [first_frame : BOOLEAN, seq_first : Nat, seq_last : Nat, header : BOOLEAN,
               remaining : Nat, more : BOOLEAN, mismatch : BOOLEAN]
    /\ res \in [has : BOOLEAN, required : Nat, seq_first : Nat, seq_last : Nat,
                size : Nat, mismatch : BOOLEAN]
    /\ rpc \in [at : {"idle", "reading", "parsing"}, back : {"idle", "reading"}]
    /\ views \in Seq([first : Nat, message : Nat])
    /\ err \in BOOLEAN

\* The areas of the read buffer never overlap or leave it, and the message that
\* is ready lies in the reserved area: the asserts of read_buffer.ipp never
\* fail and get_next_message never points before the buffer.
AreasOrdered ==
    /\ rb.cur <= rb.pend /\ rb.pend <= rb.free /\ rb.free <= Len(rb.data)
    /\ res.has => res.size <= rb.cur

\* Two ends that frame alike never report sequence_number_mismatch, however
\* long the messages are and wherever the sequence number wraps.
NoMismatch == ~err

\* A message handed out with keep_messages stays what it was while later
\* messages are read behind it, the headers between their frames are removed
\* from under them and the buffer grows.
KeptMessagesIntact ==
    \A i \in DOMAIN views :
        LET v == views[i]
            m == sent[v.message]
        IN  SubSeq(rb.data, v.first + 1, v.first + Len(m)) = m

\* Messages arrive whole, once, in order, and while the connection lasts all of
\* them arrive, whatever pieces the stream delivers them in.
Fifo == INSTANCE MessageFifo
ImplementsFifo == Fifo!Spec
=============================================================================
