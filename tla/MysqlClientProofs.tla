------------------------- MODULE MysqlClientProofs -------------------------
(* Proofs about MysqlClient, for servers that announce any capabilities,      *)
(* results of any size and any modulus of the sequence numbers.               *)
(*                                                                            *)
(* Messages have no identifiers, so everything depends on both ends agreeing  *)
(* on what is still to come.  The invariant says, for every place an          *)
(* operation can wait at, what is on its way to either side.                  *)
EXTENDS MysqlClient, SequenceTheorems, TLAPS

Caps == {"mandatory", "db", "ssl"}
Plugins == {"native", "sha2", "other"}
Operations == {"none", "greeting", "ssl", "auth", "response", "fields", "prepared", "meta",
               "one", "some", "all"}
RowReads == {"one", "some", "all"}

\* A row.
RowData == [command : Nat, row : Nat, columns : 1..MaxColumns]

\* The messages the server sends.
Msgs ==
  [t : {"ok", "err", "eof", "column", "malformed"}, arg : {<<>>}, seq : SeqNum]
  \cup [t : {"greeting"}, arg : [caps : ServerCaps, plugin : Plugins], seq : SeqNum]
  \cup [t : {"auth_switch"}, arg : [plugin : Plugins, challenge : {"nonce"}], seq : SeqNum]
  \cup [t : {"auth_more_data"}, arg : [challenge : {"full", "fast_auth_complete"}], seq : SeqNum]
  \cup [t : {"num_fields"}, arg : 1..MaxColumns, seq : SeqNum]
  \cup [t : {"row"}, arg : RowData, seq : SeqNum]
  \cup [t : {"prepare_ok"}, arg : [columns : 0..MaxColumns, params : 0..MaxParams], seq : SeqNum]

\* The messages the client sends.
Requests ==
  [t : {"prepare", "close_statement", "quit"}, arg : {<<>>}, seq : SeqNum, ssl : BOOLEAN]
  \cup [t : {"query", "execute"}, arg : Nat, seq : SeqNum, ssl : BOOLEAN]
  \cup [t : {"ssl_request"}, arg : SUBSET Caps, seq : SeqNum, ssl : BOOLEAN]
  \cup [t : {"response"}, arg : [caps : SUBSET Caps, auth : Responses], seq : SeqNum, ssl : BOOLEAN]
  \cup [t : {"auth_data"}, arg : [auth : Responses], seq : SeqNum, ssl : BOOLEAN]

Channels == [open : BOOLEAN, ssl : BOOLEAN, caps : SUBSET Caps, seq : SeqNum]
Auths == [caps : SUBSET Caps, plugin : {"none", "native", "sha2"}, response : Responses]
Resultsets == [seq : SeqNum, meta : 0..MaxColumns, complete : BOOLEAN]
Statements == [valid : BOOLEAN, params : 0..MaxParams]
Apps == [connected : BOOLEAN, rows : BOOLEAN, commands : 0..MaxCommands, got : Seq(RowData)]
Servers == [phase : {"none", "accept", "auth", "tls", "command", "closed"}, seq : SeqNum,
            caps : SUBSET Caps, rounds : 0..MaxRounds, rows : Seq(RowData),
            end : {"none", "ok", "err", "eof"}, timedout : BOOLEAN]

Types ==
  /\ params \in Params /\ at \in Operations /\ last \in Results
  /\ chan \in Channels /\ auth \in Auths /\ rs \in Resultsets /\ left \in Nat
  /\ stmt \in Statements /\ fields \in Seq(RowData) /\ app \in Apps
  /\ toServer \in Seq(Requests) /\ wire \in Seq(Msgs) /\ inbox \in Seq(Msgs)
  /\ down \in BOOLEAN /\ srv \in Servers

\* What is still to come: the messages in the buffer and those on their way.
\* The error of a server that timed out comes last and answers nothing.
Coming == inbox \o wire
Extra == IF srv.timedout THEN 1 ELSE 0
Rest == Len(Coming) - Extra

TimedOutOK ==
  srv.timedout => /\ down /\ srv.phase = "closed" /\ Len(Coming) >= 1
                  /\ Coming[Len(Coming)].t = "err" /\ Coming[Len(Coming)].seq = 0

\* The messages to come are numbered from s on.
InOrder == \A i \in 1..(Rest - 1) : Coming[i + 1].seq = next_seqnum(Coming[i].seq)
NumbersFrom(s) == InOrder /\ (Rest >= 1 => Coming[1].seq = s)

\* Messages a..b are columns; the rows of a result begin at a; or something the
\* client cannot read.
ColumnsAt(a, b) == \A i \in a..b : Coming[i].t \in {"column", "malformed"}
RowsAt(a) ==
  /\ a <= Rest
  /\ \A i \in a..(Rest - 1) : Coming[i].t \in {"row", "malformed"}
  /\ Coming[Rest].t \in {"eof", "err", "malformed"}

\* The last request is one of kinds and was not taken yet.
Waiting(kinds) ==
  /\ Rest = 0 /\ Len(toServer) >= 1
  /\ toServer[Len(toServer)].t \in kinds
  /\ \A i \in 1..(Len(toServer) - 1) : toServer[i].t = "close_statement"

-----------------------------------------------------------------------------
(* Where an operation waits, and what is to come then.                        *)

NoneYet == srv.phase = "none" =>
  /\ at = "none" /\ ~chan.open /\ ~chan.ssl /\ ~app.connected
  /\ Len(toServer) = 0 /\ Len(Coming) = 0 /\ ~srv.timedout

GreetingOK == at = "greeting" =>
  /\ Len(toServer) = 0 /\ chan.seq = 0 /\ ~chan.ssl /\ ~srv.timedout
  /\ \/ srv.phase = "accept" /\ Len(Coming) = 0
     \/ /\ srv.phase = "auth" /\ srv.seq = next_seqnum(0)
        /\ Len(Coming) = 1 /\ Coming[1].t = "greeting" /\ Coming[1].seq = 0
     \/ /\ srv.phase = "closed"
        /\ Len(Coming) = 1 /\ Coming[1].t \in {"err", "malformed"} /\ Coming[1].seq = 0

\* What was negotiated has what the client asked for.
NegotiatedOK == at \in {"ssl", "auth"} =>
  /\ params.ssl = "require" => "ssl" \in auth.caps
  /\ params.db => "db" \in auth.caps

SslOK == at = "ssl" =>
  /\ "ssl" \in auth.caps /\ ~chan.ssl /\ ~srv.timedout /\ Len(Coming) = 0
  /\ \/ /\ srv.phase = "auth" /\ chan.seq = next_seqnum(srv.seq)
        /\ Len(toServer) = 1 /\ toServer[1].t = "ssl_request" /\ toServer[1].seq = srv.seq
     \/ srv.phase = "tls" /\ chan.seq = srv.seq /\ Len(toServer) = 0

AuthOK == at = "auth" =>
  /\ chan.ssl <=> "ssl" \in auth.caps
  /\ \/ /\ srv.phase \in {"auth", "tls"} /\ ~srv.timedout /\ Len(Coming) = 0
        /\ Len(toServer) = 1 /\ toServer[1].t \in {"response", "auth_data"}
        /\ toServer[1].seq = srv.seq /\ chan.seq = next_seqnum(srv.seq)
        /\ toServer[1].t = "response" => toServer[1].arg.caps = auth.caps
        /\ toServer[1].t = "auth_data" => srv.caps = auth.caps
     \/ /\ srv.phase = "command" \/ srv.timedout
        /\ srv.caps = auth.caps /\ Len(toServer) = 0
        /\ \/ Rest = 1 /\ Coming[1].t = "ok" /\ Coming[1].seq = chan.seq
           \/ /\ Rest = 2 /\ Coming[1].t = "auth_more_data"
              /\ Coming[1].arg.challenge = "fast_auth_complete" /\ Coming[1].seq = chan.seq
              /\ Coming[2].t = "ok" /\ Coming[2].seq = next_seqnum(chan.seq)
     \/ /\ srv.phase = "closed" /\ ~srv.timedout /\ Len(toServer) = 0
        /\ Len(Coming) = 1 /\ Coming[1].t \in {"err", "malformed"} /\ Coming[1].seq = chan.seq
     \/ /\ srv.phase = "auth" /\ ~srv.timedout /\ Len(toServer) = 0
        /\ srv.caps = auth.caps /\ srv.seq = next_seqnum(chan.seq)
        /\ Len(Coming) = 1 /\ Coming[1].t \in {"auth_switch", "auth_more_data"}
        /\ Coming[1].t = "auth_more_data" => Coming[1].arg.challenge = "full"
        /\ Coming[1].seq = chan.seq

\* A connection in use.
ConnectedOK ==
  /\ app.connected => ConnectedMeansAgreed /\ (srv.phase = "command" \/ srv.timedout)
                      /\ at \notin Handshaking
  /\ at \notin Handshaking \cup {"none"} => app.connected
  /\ at \in RowReads => app.rows
  /\ app.rows => app.connected /\ at \in RowReads \cup {"none"}

IdleOK == at = "none" /\ app.connected /\ ~app.rows =>
  Rest = 0 /\ \A i \in 1..Len(toServer) : toServer[i].t = "close_statement"

ResponseOK == at = "response" =>
  /\ rs.seq = 1 /\ rs.meta = 0 /\ ~rs.complete
  /\ \/ Waiting({"query", "execute"})
     \/ /\ Len(toServer) = 0 /\ NumbersFrom(1) /\ Rest >= 1
        /\ Coming[1].t \in {"ok", "err", "malformed", "num_fields"}
        /\ Coming[1].t \in {"ok", "err"} => Rest = 1
        /\ Coming[1].t = "num_fields" =>
              ColumnsAt(2, Coming[1].arg + 1) /\ RowsAt(Coming[1].arg + 2)

FieldsOK == at = "fields" =>
  /\ Len(toServer) = 0 /\ NumbersFrom(rs.seq) /\ ~rs.complete
  /\ left >= 1 /\ rs.meta + left <= MaxColumns
  /\ ColumnsAt(1, left) /\ RowsAt(left + 1)

RowsOK == app.rows =>
  Len(toServer) = 0 /\ NumbersFrom(rs.seq) /\ RowsAt(1) /\ ~rs.complete

PreparedOK == at = "prepared" =>
  /\ chan.seq = 1
  /\ \/ Waiting({"prepare"})
     \/ /\ Len(toServer) = 0 /\ NumbersFrom(1) /\ Rest >= 1
        /\ Coming[1].t \in {"err", "malformed", "prepare_ok"}
        /\ Coming[1].t = "err" => Rest = 1
        /\ Coming[1].t = "prepare_ok" => Rest = 1 + Coming[1].arg.columns + Coming[1].arg.params

MetaOK == at = "meta" =>
  Len(toServer) = 0 /\ NumbersFrom(chan.seq) /\ left >= 1 /\ Rest = left

\* What the server finds when it looks for a request, whatever became of the
\* client.
RequestsOK ==
  /\ srv.phase = "accept" => Len(toServer) = 0
  /\ srv.phase \in {"auth", "tls"} =>
        Len(toServer) <= 1 /\ \A i \in 1..Len(toServer) : toServer[i].seq = srv.seq
  /\ srv.phase = "command" =>
        srv.seq = 0 /\ \A i \in 1..Len(toServer) : toServer[i].seq = 0

\* An open connection that is between operations was accepted; an operation that
\* goes on has an open connection.
OpenOK == /\ at = "none" /\ chan.open => srv.phase \in {"command", "closed"}
          /\ at # "none" => chan.open

Always == Types /\ TimedOutOK /\ NoneYet /\ PasswordOverSsl /\ RequestsOK /\ OpenOK
IInv == /\ Always /\ ConnectedOK
        /\ GreetingOK /\ NegotiatedOK /\ SslOK /\ AuthOK /\ IdleOK /\ ResponseOK
        /\ FieldsOK /\ RowsOK /\ PreparedOK /\ MetaOK

-----------------------------------------------------------------------------
(* Sequence numbers.                                                          *)

\* A number is a multiple of the modulus and a rest, in one way only.
LEMMA ModForm ==
  ASSUME NEW x \in Nat
  PROVE  /\ x = SeqModulus * (x \div SeqModulus) + (x % SeqModulus)
         /\ x \div SeqModulus \in Nat /\ x % SeqModulus \in SeqNum
  BY ClientAssumption DEF SeqNum

\* That way is the only one: the rest of a multiple and a rest is that rest.
LEMMA ModUnique ==
  ASSUME NEW q \in Nat, NEW r \in SeqNum
  PROVE  (SeqModulus * q + r) % SeqModulus = r
<1>1. SeqModulus \in Nat \ {0, 1}
  BY ClientAssumption
<1>2. SeqModulus * q + r \in Nat
  BY <1>1 DEF SeqNum
<1>3. PICK y \in Nat : y = SeqModulus * q + r
  BY <1>2
<1>4. PICK p \in Nat, s \in SeqNum : y = SeqModulus * p + s /\ s = y % SeqModulus
  BY ModForm
<1>5. r = s
  <2>1. SeqModulus * q + r = SeqModulus * p + s
    BY <1>3, <1>4
  <2>2. CASE q >= p + 1
    <3>1. SeqModulus * q >= SeqModulus * (p + 1)
      BY <1>1, <2>2
    <3> QED BY <1>1, <2>1, <3>1 DEF SeqNum
  <2>3. CASE p >= q + 1
    <3>1. SeqModulus * p >= SeqModulus * (q + 1)
      BY <1>1, <2>3
    <3> QED BY <1>1, <2>1, <3>1 DEF SeqNum
  <2>4. CASE p = q
    BY <1>1, <2>1, <2>4 DEF SeqNum
  <2> QED BY <2>2, <2>3, <2>4
<1> QED BY <1>3, <1>4, <1>5

\* The next number is a number; the number i + 1 after another is the one next
\* to the number i after it.
LEMMA NextSeqnum ==
  /\ 0 \in SeqNum /\ 1 \in SeqNum /\ next_seqnum(0) = 1
  /\ \A s \in SeqNum : next_seqnum(s) \in SeqNum
  BY ClientAssumption DEF SeqNum, next_seqnum

\* Counting on and reducing comes to the same as the next of the reduced number.
LEMMA ModNext ==
  ASSUME NEW x \in Nat
  PROVE  (x + 1) % SeqModulus = next_seqnum(x % SeqModulus)
<1>1. SeqModulus \in Nat \ {0, 1}
  BY ClientAssumption
<1>2. PICK q \in Nat, r \in SeqNum : x = SeqModulus * q + r /\ r = x % SeqModulus
  BY ModForm
<1>3. CASE r + 1 < SeqModulus
  <2>1. x + 1 = SeqModulus * q + (r + 1) /\ r + 1 \in SeqNum
    BY <1>1, <1>2, <1>3 DEF SeqNum
  <2>2. (x + 1) % SeqModulus = r + 1
    BY <2>1, ModUnique
  <2>3. (r + 1) % SeqModulus = r + 1
    BY <1>1, <1>3 DEF SeqNum
  <2> QED BY <1>2, <2>2, <2>3 DEF next_seqnum
<1>4. CASE r + 1 = SeqModulus
  <2>1. x + 1 = SeqModulus * (q + 1) + 0 /\ 0 \in SeqNum
    BY <1>1, <1>2, <1>4 DEF SeqNum
  <2>2. (x + 1) % SeqModulus = 0
    BY <2>1, ModUnique
  <2>3. (r + 1) % SeqModulus = 0
    BY <1>1, <1>4
  <2> QED BY <1>2, <2>2, <2>3 DEF next_seqnum
<1> QED BY <1>1, <1>3, <1>4 DEF SeqNum

-----------------------------------------------------------------------------
(* Messages.                                                                  *)

\* What a message to the client holds.
LEMMA MsgFacts ==
  ASSUME NEW m \in Msgs
  PROVE  /\ m.seq \in SeqNum
         /\ m.t = "num_fields" => m.arg \in 1..MaxColumns
         /\ m.t = "row" => m.arg \in RowData
         /\ m.t = "prepare_ok" => m.arg.columns \in Nat /\ m.arg.params \in 0..MaxParams
         /\ m.t = "auth_switch" => m.arg.plugin \in Plugins /\ m.arg.challenge = "nonce"
  BY ClientAssumption DEF Msgs

\* What a message to the server holds.
LEMMA RequestFacts ==
  ASSUME NEW m \in Requests
  PROVE  /\ m.seq \in SeqNum
         /\ m.t \in {"query", "execute"} => m.arg \in Nat
         /\ m.t = "response" => m.arg.caps \in SUBSET Caps
  BY DEF Requests

\* A message with another number is a message.
LEMMA Renumbered ==
  ASSUME NEW m \in Msgs, NEW s \in SeqNum
  PROVE  LET n == [m EXCEPT !.seq = s]
         IN  n \in Msgs /\ n.t = m.t /\ n.arg = m.arg /\ n.seq = s
  BY DEF Msgs

\* The sequence of a single message.
LEMMA Single ==
  ASSUME NEW S, NEW m \in S
  PROVE  <<m>> \in Seq(S) /\ Len(<<m>>) = 1 /\ <<m>>[1] = m
  OBVIOUS

\* Messages that the server sends.
LEMMA MsgsAre ==
  /\ \A t \in {"ok", "err", "eof", "column", "malformed"} : Msg(t, <<>>) \in Msgs
  /\ \A caps \in ServerCaps, plugin \in Plugins :
        Msg("greeting", [caps |-> caps, plugin |-> plugin]) \in Msgs
  /\ \A c \in 1..MaxColumns : Msg("num_fields", c) \in Msgs
  /\ \A r \in RowData : Msg("row", r) \in Msgs
  /\ \A c \in 0..MaxColumns, p \in 0..MaxParams :
        Msg("prepare_ok", [columns |-> c, params |-> p]) \in Msgs
  /\ \A q \in Questions : q \in Msgs
  /\ \A c \in {"full", "fast_auth_complete"} : Msg("auth_more_data", [challenge |-> c]) \in Msgs
<1>1. 0 \in SeqNum
  BY NextSeqnum
<1>2. \A t \in {"ok", "err", "eof", "column", "malformed"} : Msg(t, <<>>) \in Msgs
  BY <1>1 DEF Msgs, Msg
<1>3. \A caps \in ServerCaps, plugin \in Plugins :
        Msg("greeting", [caps |-> caps, plugin |-> plugin]) \in Msgs
  BY <1>1 DEF Msgs, Msg
<1>4. \A c \in 1..MaxColumns : Msg("num_fields", c) \in Msgs
  BY <1>1 DEF Msgs, Msg
<1>5. \A r \in RowData : Msg("row", r) \in Msgs
  BY <1>1 DEF Msgs, Msg
<1>6. \A c \in 0..MaxColumns, p \in 0..MaxParams :
        Msg("prepare_ok", [columns |-> c, params |-> p]) \in Msgs
  BY <1>1 DEF Msgs, Msg
<1>7. \A c \in {"full", "fast_auth_complete"} : Msg("auth_more_data", [challenge |-> c]) \in Msgs
  BY <1>1 DEF Msgs, Msg
<1>8. \A q \in Questions : q \in Msgs
  <2>1. \A p \in Plugins : Msg("auth_switch", [plugin |-> p, challenge |-> "nonce"]) \in Msgs
    BY <1>1 DEF Msgs, Msg
  <2> QED BY <1>7, <2>1 DEF Questions, Plugins
<1> QED BY <1>2, <1>3, <1>4, <1>5, <1>6, <1>7, <1>8

\* The number of an answer's message i.
LEMMA NumberedFacts ==
  ASSUME NEW a \in Seq(Msgs), NEW s \in SeqNum
  PROVE  /\ Numbered(a, s) \in Seq(Msgs) /\ Len(Numbered(a, s)) = Len(a)
         /\ \A i \in 1..Len(a) : /\ Numbered(a, s)[i].t = a[i].t
                                 /\ Numbered(a, s)[i].arg = a[i].arg
                                 /\ Numbered(a, s)[i].seq = (s + i) % SeqModulus
<1>1. Len(a) \in Nat /\ DOMAIN a = 1..Len(a)
  BY LenProperties
<1>2. Numbered(a, s) = [i \in 1..Len(a) |-> [a[i] EXCEPT !.seq = (s + i) % SeqModulus]]
  BY <1>1 DEF Numbered
<1>3. ASSUME NEW i \in 1..Len(a)
      PROVE  /\ [a[i] EXCEPT !.seq = (s + i) % SeqModulus] \in Msgs
             /\ Numbered(a, s)[i].t = a[i].t /\ Numbered(a, s)[i].arg = a[i].arg
             /\ Numbered(a, s)[i].seq = (s + i) % SeqModulus
  <2>1. a[i] \in Msgs
    BY ElementOfSeq
  <2>2. (s + i) % SeqModulus \in SeqNum
    <3>1. s + i \in Nat
      BY <1>1 DEF SeqNum
    <3> QED BY <3>1, ModForm
  <2>3. Numbered(a, s)[i] = [a[i] EXCEPT !.seq = (s + i) % SeqModulus]
    BY <1>2
  <2> QED BY <2>1, <2>2, <2>3, Renumbered
<1>4. Numbered(a, s) \in [1..Len(a) -> Msgs]
  BY <1>2, <1>3
<1>5. Numbered(a, s) \in Seq(Msgs) /\ Len(Numbered(a, s)) = Len(a)
  BY <1>1, <1>4
<1> QED BY <1>3, <1>5

\* In an answer to a message numbered 0 the numbers are 1, 2, and so on; the
\* answer to a message numbered s begins with the next number.
LEMMA NumberedInOrder ==
  ASSUME NEW a \in Seq(Msgs), NEW s \in SeqNum
  PROVE  /\ Len(a) >= 1 => Numbered(a, s)[1].seq = next_seqnum(s)
         /\ \A i \in 1..(Len(a) - 1) :
               Numbered(a, s)[i + 1].seq = next_seqnum(Numbered(a, s)[i].seq)
<1>1. Len(a) \in Nat
  BY LenProperties
<1>2. ASSUME Len(a) >= 1 PROVE Numbered(a, s)[1].seq = next_seqnum(s)
  BY <1>1, <1>2, NumberedFacts DEF next_seqnum
<1>3. ASSUME NEW i \in 1..(Len(a) - 1)
      PROVE  Numbered(a, s)[i + 1].seq = next_seqnum(Numbered(a, s)[i].seq)
  <2>1. i \in 1..Len(a) /\ i + 1 \in 1..Len(a) /\ s + i \in Nat /\ s + (i + 1) = (s + i) + 1
    BY <1>1 DEF SeqNum
  <2>2. Numbered(a, s)[i].seq = (s + i) % SeqModulus
    BY <2>1, NumberedFacts
  <2>3. Numbered(a, s)[i + 1].seq = (s + (i + 1)) % SeqModulus
    BY <2>1, NumberedFacts
  <2> QED BY <2>1, <2>2, <2>3, ModNext
<1> QED BY <1>2, <1>3

\* One message of an answer may be spoiled.
LEMMA SpoiledFacts ==
  ASSUME NEW messages \in Seq(Msgs), NEW a \in Spoiled(messages)
  PROVE  /\ a \in Seq(Msgs) /\ Len(a) = Len(messages)
         /\ \A i \in 1..Len(messages) : a[i] = messages[i] \/ a[i] = Msg("malformed", <<>>)
<1>1. DOMAIN messages = 1..Len(messages) /\ Msg("malformed", <<>>) \in Msgs
  BY LenProperties, MsgsAre
<1>2. CASE a = messages
  BY <1>2
<1>3. CASE \E k \in DOMAIN messages : a = [messages EXCEPT ![k] = Msg("malformed", <<>>)]
  <2>1. PICK k \in 1..Len(messages) : a = [messages EXCEPT ![k] = Msg("malformed", <<>>)]
    BY <1>1, <1>3
  <2> QED BY <1>1, <2>1, ExceptSeq
<1> QED BY <1>2, <1>3 DEF Spoiled

\* A result r of c columns, n rows and an end has c + n + 2 messages.
IsResult(r, rows, command, c, n, end) ==
  /\ rows = Rows(command, c, n) /\ Len(rows) = n
  /\ \A i \in 1..n : rows[i].columns = c
  /\ r = Result(c, rows, end) /\ Len(r) = c + n + 2
  /\ r[1] = Msg("num_fields", c)
  /\ \A i \in 1..c : r[1 + i] = Msg("column", <<>>)
  /\ \A i \in 1..n : r[1 + c + i] = Msg("row", rows[i])
  /\ r[c + n + 2] = Msg(end, <<>>)

\* The server's results are such.
LEMMA ResultFacts ==
  ASSUME NEW c \in 1..MaxColumns, NEW n \in Nat, NEW command \in Nat, NEW end \in {"eof", "err"}
  PROVE  \E rows \in Seq(RowData), r \in Seq(Msgs) : IsResult(r, rows, command, c, n, end)
<1> DEFINE rows == Rows(command, c, n)
           s1 == <<Msg("num_fields", c)>>
           s2 == [i \in 1..c |-> Msg("column", <<>>)]
           s3 == [i \in DOMAIN rows |-> Msg("row", rows[i])]
           s4 == <<Msg(end, <<>>)>>
<1>0. c \in Nat
  BY ClientAssumption
<1>1. rows \in [1..n -> RowData] /\ \A i \in 1..n : rows[i].columns = c
  BY DEF Rows, RowData
<1>2. rows \in Seq(RowData) /\ Len(rows) = n /\ DOMAIN rows = 1..n
  BY <1>1
<1> HIDE DEF rows
<1>3. s1 \in Seq(Msgs) /\ Len(s1) = 1 /\ s1[1] = Msg("num_fields", c)
  BY MsgsAre
<1>4. s2 \in Seq(Msgs) /\ Len(s2) = c /\ \A i \in 1..c : s2[i] = Msg("column", <<>>)
  <2>1. s2 \in [1..c -> Msgs]
    BY MsgsAre
  <2> QED BY <1>0, <2>1
<1>5. s3 \in Seq(Msgs) /\ Len(s3) = n /\ \A i \in 1..n : s3[i] = Msg("row", rows[i])
  <2>1. s3 \in [1..n -> Msgs]
    BY <1>1, <1>2, MsgsAre
  <2> QED BY <1>2, <2>1
<1>6. s4 \in Seq(Msgs) /\ Len(s4) = 1 /\ s4[1] = Msg(end, <<>>)
  BY MsgsAre
<1>7. Result(c, rows, end) = ((s1 \o s2) \o s3) \o s4
  BY DEF Result
<1> HIDE DEF s1, s2, s3, s4
<1>8. /\ s1 \o s2 \in Seq(Msgs) /\ Len(s1 \o s2) = 1 + c
      /\ (s1 \o s2)[1] = Msg("num_fields", c)
      /\ \A i \in 1..c : (s1 \o s2)[1 + i] = Msg("column", <<>>)
  <2>1. /\ s1 \o s2 \in Seq(Msgs) /\ Len(s1 \o s2) = Len(s1) + Len(s2)
        /\ \A i \in 1..(Len(s1) + Len(s2)) :
              (s1 \o s2)[i] = IF i <= Len(s1) THEN s1[i] ELSE s2[i - Len(s1)]
    BY <1>3, <1>4, ConcatProperties
  <2>2. (s1 \o s2)[1] = Msg("num_fields", c)
    BY <1>0, <1>3, <1>4, <2>1
  <2>3. ASSUME NEW i \in 1..c PROVE (s1 \o s2)[1 + i] = Msg("column", <<>>)
    <3>1. 1 + i \in 1..(Len(s1) + Len(s2)) /\ ~(1 + i <= Len(s1)) /\ (1 + i) - Len(s1) = i
      BY <1>0, <1>3, <1>4
    <3> QED BY <1>4, <2>1, <3>1
  <2> QED BY <1>3, <1>4, <2>1, <2>2, <2>3
<1> DEFINE t == s1 \o s2
<1> HIDE DEF t
<1>9. /\ t \in Seq(Msgs) /\ Len(t) = 1 + c /\ t[1] = Msg("num_fields", c)
      /\ \A i \in 1..c : t[1 + i] = Msg("column", <<>>)
  BY <1>8 DEF t
<1>10. /\ t \o s3 \in Seq(Msgs) /\ Len(t \o s3) = 1 + c + n
       /\ \A i \in 1..(1 + c) : (t \o s3)[i] = t[i]
       /\ \A i \in 1..n : (t \o s3)[1 + c + i] = Msg("row", rows[i])
  <2>1. /\ t \o s3 \in Seq(Msgs) /\ Len(t \o s3) = Len(t) + Len(s3)
        /\ \A i \in 1..(Len(t) + Len(s3)) :
              (t \o s3)[i] = IF i <= Len(t) THEN t[i] ELSE s3[i - Len(t)]
    BY <1>5, <1>9, ConcatProperties
  <2>2. \A i \in 1..(1 + c) : (t \o s3)[i] = t[i]
    BY <1>0, <1>5, <1>9, <2>1
  <2>3. ASSUME NEW i \in 1..n PROVE (t \o s3)[1 + c + i] = Msg("row", rows[i])
    <3>1. /\ 1 + c + i \in 1..(Len(t) + Len(s3)) /\ ~(1 + c + i <= Len(t))
          /\ (1 + c + i) - Len(t) = i
      BY <1>0, <1>5, <1>9
    <3> QED BY <1>5, <2>1, <3>1
  <2>4. Len(t \o s3) = 1 + c + n
    BY <1>0, <1>5, <1>9, <2>1
  <2> QED BY <2>1, <2>2, <2>3, <2>4
<1> DEFINE u == t \o s3
<1> HIDE DEF u
<1>11. /\ u \in Seq(Msgs) /\ Len(u) = 1 + c + n /\ \A i \in 1..(1 + c) : u[i] = t[i]
       /\ \A i \in 1..n : u[1 + c + i] = Msg("row", rows[i])
  BY <1>10 DEF u
<1>12. /\ u \o s4 \in Seq(Msgs) /\ Len(u \o s4) = c + n + 2
       /\ \A i \in 1..(1 + c + n) : (u \o s4)[i] = u[i]
       /\ (u \o s4)[c + n + 2] = Msg(end, <<>>)
  <2>1. /\ u \o s4 \in Seq(Msgs) /\ Len(u \o s4) = Len(u) + Len(s4)
        /\ \A i \in 1..(Len(u) + Len(s4)) :
              (u \o s4)[i] = IF i <= Len(u) THEN u[i] ELSE s4[i - Len(u)]
    BY <1>6, <1>11, ConcatProperties
  <2>2. \A i \in 1..(1 + c + n) : (u \o s4)[i] = u[i]
    BY <1>0, <1>6, <1>11, <2>1
  <2>3. (u \o s4)[c + n + 2] = Msg(end, <<>>)
    <3>1. /\ c + n + 2 \in 1..(Len(u) + Len(s4)) /\ ~(c + n + 2 <= Len(u))
          /\ (c + n + 2) - Len(u) = 1
      BY <1>0, <1>6, <1>11
    <3> QED BY <1>6, <2>1, <3>1
  <2>4. Len(u \o s4) = c + n + 2
    BY <1>0, <1>6, <1>11, <2>1
  <2> QED BY <2>1, <2>2, <2>3, <2>4
<1>13. Result(c, rows, end) = u \o s4
  BY <1>7 DEF t, u
<1> DEFINE r == Result(c, rows, end)
<1>14. r \in Seq(Msgs) /\ Len(r) = c + n + 2 /\ r[c + n + 2] = Msg(end, <<>>)
  BY <1>12, <1>13
<1>15. r[1] = Msg("num_fields", c)
  <2>1. 1 \in 1..(1 + c) /\ 1 \in 1..(1 + c + n)
    BY <1>0
  <2> QED BY <1>9, <1>11, <1>12, <1>13, <2>1
<1>16. ASSUME NEW i \in 1..c PROVE r[1 + i] = Msg("column", <<>>)
  <2>1. 1 + i \in 1..(1 + c) /\ 1 + i \in 1..(1 + c + n)
    BY <1>0
  <2> QED BY <1>9, <1>11, <1>12, <1>13, <2>1
<1>17. ASSUME NEW i \in 1..n PROVE r[1 + c + i] = Msg("row", rows[i])
  <2>1. 1 + c + i \in 1..(1 + c + n)
    BY <1>0
  <2> QED BY <1>11, <1>12, <1>13, <2>1
<1> HIDE DEF r
<1> QED BY <1>1, <1>2, <1>14, <1>15, <1>16, <1>17 DEF r, rows, IsResult

-----------------------------------------------------------------------------
(* What is to come, and how steps change it.                                  *)

\* The sequences of messages are typed.
LEMMA TypesParts ==
  Types => /\ toServer \in Seq(Requests) /\ wire \in Seq(Msgs) /\ inbox \in Seq(Msgs)
           /\ srv.timedout \in BOOLEAN
  BY DEF Types, Servers

\* What is to come is a sequence of messages, of which the first is in the
\* buffer, if there is one.
LEMMA ComingFacts ==
  ASSUME Types
  PROVE  /\ Coming \in Seq(Msgs) /\ Len(Coming) \in Nat /\ Extra \in {0, 1}
         /\ Len(Coming) = Len(inbox) + Len(wire)
         /\ \A i \in 1..Len(Coming) : Coming[i] \in Msgs
         /\ inbox # <<>> => /\ Len(Coming) >= 1 /\ Coming[1] = Head(inbox)
                            /\ Head(inbox) \in Msgs
<1>1. inbox \in Seq(Msgs) /\ wire \in Seq(Msgs)
  BY TypesParts
<1>2. Len(inbox) \in Nat /\ Len(wire) \in Nat
  BY <1>1, LenProperties
<1>3. /\ Coming \in Seq(Msgs) /\ Len(Coming) = Len(inbox) + Len(wire)
      /\ \A i \in 1..Len(Coming) :
            Coming[i] = IF i <= Len(inbox) THEN inbox[i] ELSE wire[i - Len(inbox)]
  BY <1>1, ConcatProperties DEF Coming
<1>4. Extra \in {0, 1}
  BY DEF Extra
<1>5. \A i \in 1..Len(Coming) : Coming[i] \in Msgs
  BY <1>3, ElementOfSeq
<1>6. ASSUME inbox # <<>>
      PROVE  Len(Coming) >= 1 /\ Coming[1] = Head(inbox) /\ Head(inbox) \in Msgs
  <2>1. Len(inbox) \in Nat \ {0}
    BY <1>1, <1>6, EmptySeq
  <2>2. Head(inbox) = inbox[1] /\ Head(inbox) \in Msgs
    BY <1>1, <1>6, HeadTailProperties
  <2> QED BY <1>2, <1>3, <2>1, <2>2
<1> QED BY <1>2, <1>3, <1>4, <1>5, <1>6

\* The first request to come.
LEMMA RequestsFacts ==
  ASSUME Types
  PROVE  /\ Len(toServer) \in Nat /\ (toServer = <<>> <=> Len(toServer) = 0)
         /\ \A i \in 1..Len(toServer) : toServer[i] \in Requests
         /\ toServer # <<>> => /\ Head(toServer) = toServer[1] /\ Head(toServer) \in Requests
                               /\ Tail(toServer) \in Seq(Requests)
                               /\ Len(Tail(toServer)) = Len(toServer) - 1
                               /\ \A i \in 1..Len(Tail(toServer)) :
                                     Tail(toServer)[i] = toServer[i + 1]
<1>1. toServer \in Seq(Requests)
  BY TypesParts
<1>2. Len(toServer) \in Nat
  BY <1>1, LenProperties
<1>3. toServer = <<>> <=> Len(toServer) = 0
  BY <1>1, EmptySeq
<1>4. \A i \in 1..Len(toServer) : toServer[i] \in Requests
  BY <1>1, ElementOfSeq
<1>5. ASSUME toServer # <<>>
      PROVE  /\ Head(toServer) = toServer[1] /\ Head(toServer) \in Requests
             /\ Tail(toServer) \in Seq(Requests)
             /\ Len(Tail(toServer)) = Len(toServer) - 1
             /\ \A i \in 1..Len(Tail(toServer)) : Tail(toServer)[i] = toServer[i + 1]
  <2>1. Head(toServer) = toServer[1]
    BY <1>1
  <2> QED BY <1>1, <1>5, <2>1, HeadTailProperties
<1> QED BY <1>2, <1>3, <1>4, <1>5

\* A request is sent.
LEMMA SentFacts ==
  ASSUME Types, NEW m \in Requests, toServer' = Append(toServer, m)
  PROVE  /\ toServer' \in Seq(Requests) /\ Len(toServer') = Len(toServer) + 1
         /\ \A i \in 1..Len(toServer) : toServer'[i] = toServer[i]
         /\ toServer'[Len(toServer) + 1] = m
  BY TypesParts, AppendProperties

\* A message is taken: the others move up.
LEMMA TakeFacts ==
  ASSUME Types, inbox # <<>>, Take
  PROVE  /\ inbox' \in Seq(Msgs) /\ wire' = wire /\ srv' = srv /\ down' = down
         /\ Len(Coming') = Len(Coming) - 1 /\ Rest' = Rest - 1 /\ Extra' = Extra
         /\ \A i \in 1..Len(Coming') : Coming'[i] = Coming[i + 1]
<1>1. inbox \in Seq(Msgs) /\ wire \in Seq(Msgs)
  BY TypesParts
<1>2. Len(inbox) \in Nat \ {0} /\ Len(wire) \in Nat
  BY <1>1, LenProperties, EmptySeq
<1>3. /\ inbox' = Tail(inbox) /\ inbox' \in Seq(Msgs) /\ Len(inbox') = Len(inbox) - 1
      /\ \A i \in 1..Len(inbox') : inbox'[i] = inbox[i + 1]
      /\ wire' = wire /\ srv' = srv /\ down' = down
  BY <1>1, HeadTailProperties DEF Take
<1>4. /\ Len(Coming) = Len(inbox) + Len(wire)
      /\ \A i \in 1..Len(Coming) :
            Coming[i] = IF i <= Len(inbox) THEN inbox[i] ELSE wire[i - Len(inbox)]
  BY <1>1, ConcatProperties DEF Coming
<1>5. /\ Len(Coming') = Len(inbox') + Len(wire)
      /\ \A i \in 1..Len(Coming') :
            Coming'[i] = IF i <= Len(inbox') THEN inbox'[i] ELSE wire[i - Len(inbox')]
  BY <1>1, <1>3, ConcatProperties DEF Coming
<1>6. Len(Coming') = Len(Coming) - 1
  BY <1>2, <1>3, <1>4, <1>5
<1>7. ASSUME NEW i \in 1..Len(Coming') PROVE Coming'[i] = Coming[i + 1]
  <2>1. i + 1 \in 1..Len(Coming)
    BY <1>2, <1>4, <1>6
  <2>2. CASE i <= Len(inbox')
    BY <1>2, <1>3, <1>4, <1>5, <2>1, <2>2
  <2>3. CASE ~(i <= Len(inbox'))
    <3>1. Coming'[i] = wire[i - Len(inbox')]
      BY <1>5, <2>3
    <3>2. Coming[i + 1] = wire[(i + 1) - Len(inbox)]
      BY <1>2, <1>3, <1>4, <2>1, <2>3
    <3>3. (i + 1) - Len(inbox) = i - Len(inbox')
      BY <1>2, <1>3, <1>5
    <3> QED BY <3>1, <3>2, <3>3
  <2> QED BY <2>2, <2>3
<1>8. Extra' = Extra
  BY <1>3 DEF Extra
<1>9. Rest' = Rest - 1
  <2>1. Len(Coming) \in Nat /\ Extra \in {0, 1}
    BY ComingFacts
  <2> QED BY <1>6, <1>8, <2>1 DEF Rest
<1> QED BY <1>3, <1>6, <1>7, <1>8, <1>9

\* Messages arrive in the buffer: what is to come is the same.
LEMMA ArriveFacts ==
  ASSUME Types, Arrive
  PROVE  inbox' \in Seq(Msgs) /\ wire' \in Seq(Msgs) /\ Coming' = Coming
<1>1. inbox = <<>> /\ wire \in Seq(Msgs)
  BY TypesParts DEF Arrive
<1>2. PICK n \in 1..Len(wire) :
         inbox' = SubSeq(wire, 1, n) /\ wire' = SubSeq(wire, n + 1, Len(wire))
  BY DEF Arrive
<1>3. Len(wire) \in Nat
  BY <1>1, LenProperties
<1>4. inbox' \in Seq(Msgs) /\ wire' \in Seq(Msgs)
  <2>1. \A i \in 1..n : wire[i] \in Msgs
    BY <1>1, <1>3, ElementOfSeq
  <2>2. \A i \in (n + 1)..Len(wire) : wire[i] \in Msgs
    BY <1>1, <1>3, ElementOfSeq
  <2> QED BY <1>2, <1>3, <2>1, <2>2, SubSeqProperties
<1>5. SubSeq(wire, 1, n) \o SubSeq(wire, n + 1, Len(wire)) = wire
  <2>1. 1 \in 1..(Len(wire) + 1) /\ n \in (1 - 1)..Len(wire) /\ Len(wire) \in n..Len(wire)
    BY <1>3
  <2>2. SubSeq(wire, 1, n) \o SubSeq(wire, n + 1, Len(wire)) = SubSeq(wire, 1, Len(wire))
    BY <1>1, <2>1, ConcatAdjacentSubSeq
  <2> QED BY <1>1, <2>2, SubSeqFull
<1>6. Coming = wire
  BY <1>1, ConcatEmptySeq DEF Coming
<1> QED BY <1>2, <1>4, <1>5, <1>6 DEF Coming

\* The server sends messages: they come last.
LEMMA ServerSends ==
  ASSUME Types, NEW a \in Seq(Msgs), wire' = wire \o a, inbox' = inbox
  PROVE  /\ wire' \in Seq(Msgs) /\ Len(Coming') = Len(Coming) + Len(a)
         /\ \A i \in 1..Len(Coming) : Coming'[i] = Coming[i]
         /\ \A i \in 1..Len(a) : Coming'[Len(Coming) + i] = a[i]
<1>1. inbox \in Seq(Msgs) /\ wire \in Seq(Msgs) /\ Coming \in Seq(Msgs)
  BY TypesParts, ComingFacts
<1>2. Coming' = Coming \o a
  BY <1>1, ConcatAssociative, SMTT(30) DEF Coming
<1>3. Len(Coming) \in Nat /\ Len(a) \in Nat
  BY <1>1, LenProperties
<1>4. /\ Len(Coming') = Len(Coming) + Len(a)
      /\ \A i \in 1..(Len(Coming) + Len(a)) :
            Coming'[i] = IF i <= Len(Coming) THEN Coming[i] ELSE a[i - Len(Coming)]
  BY <1>1, <1>2, ConcatProperties
<1>5. wire' \in Seq(Msgs)
  BY <1>1, ConcatProperties
<1>6. ASSUME NEW i \in 1..Len(a) PROVE Coming'[Len(Coming) + i] = a[i]
  <2>1. /\ Len(Coming) + i \in 1..(Len(Coming) + Len(a)) /\ ~(Len(Coming) + i <= Len(Coming))
        /\ (Len(Coming) + i) - Len(Coming) = i
    BY <1>3
  <2> QED BY <1>4, <2>1
<1> QED BY <1>3, <1>4, <1>5, <1>6

\* Of what is to come in order, the rest is in order.
LEMMA TakenInOrder ==
  ASSUME Types, inbox # <<>>, Take, InOrder, Rest >= 1
  PROVE  InOrder' /\ (Rest' >= 1 => Coming'[1].seq = next_seqnum(Coming[1].seq))
<1>1. /\ Rest' = Rest - 1 /\ Len(Coming') = Len(Coming) - 1
      /\ \A i \in 1..Len(Coming') : Coming'[i] = Coming[i + 1]
  BY TakeFacts
<1>2. Len(Coming) \in Nat /\ Rest \in Nat /\ Rest <= Len(Coming)
  BY ComingFacts DEF Rest
<1>3. ASSUME NEW i \in 1..(Rest' - 1)
      PROVE  Coming'[i + 1].seq = next_seqnum(Coming'[i].seq)
  <2>1. /\ i \in 1..Len(Coming') /\ i + 1 \in 1..Len(Coming') /\ i + 1 \in 1..(Rest - 1)
    BY <1>1, <1>2
  <2>2. Coming'[i] = Coming[i + 1] /\ Coming'[i + 1] = Coming[(i + 1) + 1]
    BY <1>1, <2>1
  <2> QED BY <2>1, <2>2 DEF InOrder
<1>4. ASSUME Rest' >= 1 PROVE Coming'[1].seq = next_seqnum(Coming[1].seq)
  <2>1. 1 \in 1..Len(Coming') /\ 1 \in 1..(Rest - 1)
    BY <1>1, <1>2, <1>4
  <2> QED BY <1>1, <2>1 DEF InOrder
<1> QED BY <1>3, <1>4 DEF InOrder

\* The rows of a result move up.
LEMMA TakenRowsAt ==
  ASSUME Types, inbox # <<>>, Take, NEW a \in Nat \ {0}, NEW b \in Nat \ {0},
         RowsAt(a), b >= a - 1, b <= Rest - 1
  PROVE  RowsAt(b)'
<1>1. /\ Rest' = Rest - 1 /\ Len(Coming') = Len(Coming) - 1
      /\ \A i \in 1..Len(Coming') : Coming'[i] = Coming[i + 1]
  BY TakeFacts
<1>2. Len(Coming) \in Nat /\ Rest \in Int /\ Rest <= Len(Coming)
  BY ComingFacts DEF Rest
<1>3. \A i \in a..(Rest - 1) : Coming[i].t \in {"row", "malformed"}
  BY DEF RowsAt
<1>4. ASSUME NEW i \in b..(Rest' - 1) PROVE Coming'[i].t \in {"row", "malformed"}
  <2>1. i \in 1..Len(Coming') /\ i + 1 \in a..(Rest - 1)
    BY <1>1, <1>2
  <2> QED BY <1>1, <1>3, <2>1
<1>5. Coming'[Rest'].t \in {"eof", "err", "malformed"}
  <2>1. Rest' \in 1..Len(Coming') /\ Rest' + 1 = Rest
    BY <1>1, <1>2
  <2>2. Coming'[Rest'] = Coming[Rest]
    BY <1>1, <2>1
  <2> QED BY <2>2 DEF RowsAt
<1> QED BY <1>1, <1>4, <1>5 DEF RowsAt

\* So do its columns.
LEMMA TakenColumnsAt ==
  ASSUME Types, inbox # <<>>, Take, NEW a \in Nat \ {0}, NEW n \in Nat, NEW k \in Nat \ {0},
         ColumnsAt(a, n), k + 1 >= a, n <= Rest
  PROVE  ColumnsAt(k, n - 1)'
<1>1. /\ Len(Coming') = Len(Coming) - 1
      /\ \A i \in 1..Len(Coming') : Coming'[i] = Coming[i + 1]
  BY TakeFacts
<1>2. Len(Coming) \in Nat /\ Rest \in Int /\ Rest <= Len(Coming)
  BY ComingFacts DEF Rest
<1>3. ASSUME NEW i \in k..(n - 1) PROVE Coming'[i].t \in {"column", "malformed"}
  <2>1. i \in 1..Len(Coming') /\ i + 1 \in a..n
    BY <1>1, <1>2
  <2> QED BY <1>1, <2>1 DEF ColumnsAt
<1> QED BY <1>3 DEF ColumnsAt

-----------------------------------------------------------------------------
(* The invariant, taken apart and put together.                               *)

\* The parts of the invariant.
LEMMA IInvParts ==
  IInv => /\ Types /\ TimedOutOK /\ NoneYet /\ PasswordOverSsl /\ RequestsOK /\ OpenOK
          /\ ConnectedOK /\ GreetingOK /\ NegotiatedOK /\ SslOK /\ AuthOK /\ IdleOK
          /\ ResponseOK /\ FieldsOK /\ RowsOK /\ PreparedOK /\ MetaOK
  BY DEF IInv, Always

\* Wherever the client is, only some of the claims say anything.
LEMMA AtNone == Always /\ at = "none" /\ ConnectedOK /\ IdleOK /\ RowsOK => IInv
  BY DEF IInv, GreetingOK, NegotiatedOK, SslOK, AuthOK, ResponseOK, FieldsOK, PreparedOK, MetaOK

\* A client that is between operations and has no connection: nothing to claim.
LEMMA GivenUp == Always /\ at = "none" /\ ~app.connected /\ ~app.rows => IInv
  BY AtNone DEF ConnectedOK, IdleOK, RowsOK, Handshaking, RowReads

\* The claims about a client that waits for the greeting, ...
LEMMA AtGreeting == Always /\ ConnectedOK /\ at = "greeting" /\ GreetingOK => IInv
  BY DEF IInv, NegotiatedOK, SslOK, AuthOK, ConnectedOK, IdleOK, ResponseOK, FieldsOK, RowsOK,
         PreparedOK, MetaOK, Handshaking, RowReads

\* ... for the SSL handshake, ...
LEMMA AtSsl == Always /\ ConnectedOK /\ at = "ssl" /\ NegotiatedOK /\ SslOK => IInv
  BY DEF IInv, GreetingOK, AuthOK, ConnectedOK, IdleOK, ResponseOK, FieldsOK, RowsOK,
         PreparedOK, MetaOK, Handshaking, RowReads

\* ... for an answer of the authentication, ...
LEMMA AtAuth == Always /\ ConnectedOK /\ at = "auth" /\ NegotiatedOK /\ AuthOK => IInv
  BY DEF IInv, GreetingOK, SslOK, ConnectedOK, IdleOK, ResponseOK, FieldsOK, RowsOK,
         PreparedOK, MetaOK, Handshaking, RowReads

\* ... for the answer to a query, ...
LEMMA AtResponse == Always /\ ConnectedOK /\ at = "response" /\ ResponseOK => IInv
  BY DEF IInv, GreetingOK, NegotiatedOK, SslOK, AuthOK, ConnectedOK, IdleOK, FieldsOK, RowsOK,
         PreparedOK, MetaOK, Handshaking, RowReads

\* ... for a field's definition, ...
LEMMA AtFields == Always /\ ConnectedOK /\ at = "fields" /\ FieldsOK => IInv
  BY DEF IInv, GreetingOK, NegotiatedOK, SslOK, AuthOK, ConnectedOK, IdleOK, ResponseOK, RowsOK,
         PreparedOK, MetaOK, Handshaking, RowReads

\* ... for the answer to a prepare request, ...
LEMMA AtPrepared == Always /\ ConnectedOK /\ at = "prepared" /\ PreparedOK => IInv
  BY DEF IInv, GreetingOK, NegotiatedOK, SslOK, AuthOK, ConnectedOK, IdleOK, ResponseOK, FieldsOK,
         RowsOK, MetaOK, Handshaking, RowReads

\* ... for the metadata of a statement, ...
LEMMA AtMeta == Always /\ ConnectedOK /\ at = "meta" /\ MetaOK => IInv
  BY DEF IInv, GreetingOK, NegotiatedOK, SslOK, AuthOK, ConnectedOK, IdleOK, ResponseOK, FieldsOK,
         RowsOK, PreparedOK, Handshaking, RowReads

\* ... and for a row.
LEMMA AtRowReads == Always /\ ConnectedOK /\ at \in RowReads /\ RowsOK => IInv
  BY DEF IInv, GreetingOK, NegotiatedOK, SslOK, AuthOK, IdleOK, ResponseOK, FieldsOK,
         PreparedOK, MetaOK, RowReads

\* The same after a step.
LEMMA Assembled ==
  /\ (Always /\ at = "none" /\ ConnectedOK /\ IdleOK /\ RowsOK)' => IInv'
  /\ (Always /\ at = "none" /\ ~app.connected /\ ~app.rows)' => IInv'
  /\ (Always /\ ConnectedOK /\ at = "greeting" /\ GreetingOK)' => IInv'
  /\ (Always /\ ConnectedOK /\ at = "ssl" /\ NegotiatedOK /\ SslOK)' => IInv'
  /\ (Always /\ ConnectedOK /\ at = "auth" /\ NegotiatedOK /\ AuthOK)' => IInv'
  /\ (Always /\ ConnectedOK /\ at = "response" /\ ResponseOK)' => IInv'
  /\ (Always /\ ConnectedOK /\ at = "fields" /\ FieldsOK)' => IInv'
  /\ (Always /\ ConnectedOK /\ at = "prepared" /\ PreparedOK)' => IInv'
  /\ (Always /\ ConnectedOK /\ at = "meta" /\ MetaOK)' => IInv'
  /\ (Always /\ ConnectedOK /\ at \in RowReads /\ RowsOK)' => IInv'
<1>1. (Always /\ at = "none" /\ ConnectedOK /\ IdleOK /\ RowsOK)' => IInv'
  BY AtNone, PTL
<1>2. (Always /\ at = "none" /\ ~app.connected /\ ~app.rows)' => IInv'
  BY GivenUp, PTL
<1>3. (Always /\ ConnectedOK /\ at = "greeting" /\ GreetingOK)' => IInv'
  BY AtGreeting, PTL
<1>4. (Always /\ ConnectedOK /\ at = "ssl" /\ NegotiatedOK /\ SslOK)' => IInv'
  BY AtSsl, PTL
<1>5. (Always /\ ConnectedOK /\ at = "auth" /\ NegotiatedOK /\ AuthOK)' => IInv'
  BY AtAuth, PTL
<1>6. (Always /\ ConnectedOK /\ at = "response" /\ ResponseOK)' => IInv'
  BY AtResponse, PTL
<1>7. (Always /\ ConnectedOK /\ at = "fields" /\ FieldsOK)' => IInv'
  BY AtFields, PTL
<1>8. (Always /\ ConnectedOK /\ at = "prepared" /\ PreparedOK)' => IInv'
  BY AtPrepared, PTL
<1>9. (Always /\ ConnectedOK /\ at = "meta" /\ MetaOK)' => IInv'
  BY AtMeta, PTL
<1>10. (Always /\ ConnectedOK /\ at \in RowReads /\ RowsOK)' => IInv'
  BY AtRowReads, PTL
<1> QED BY <1>1, <1>2, <1>3, <1>4, <1>5, <1>6, <1>7, <1>8, <1>9, <1>10

-----------------------------------------------------------------------------
(* What the client's steps have in common.                                    *)

\* Whoever has begun has met a server.
LEMMA Begun ==
  IInv /\ (at # "none" \/ chan.open \/ app.connected) => srv.phase # "none"
  BY IInvParts DEF NoneYet

\* A message that has the number expected is an answer, and not the error of a
\* server that timed out.
LEMMA AnswerComes ==
  ASSUME IInv, at \notin {"none", "ssl"}, Expected(Expecting)
  PROVE  /\ inbox # <<>> /\ Rest \in Nat /\ Rest >= 1 /\ Rest <= Len(Coming)
         /\ Coming[1] = Head(inbox) /\ Head(inbox) \in Msgs /\ Coming[1].seq = Expecting
         /\ srv.phase # "none"
<1>1. /\ inbox # <<>> /\ Len(Coming) \in Nat /\ Len(Coming) >= 1 /\ Extra \in {0, 1}
      /\ Coming[1] = Head(inbox) /\ Head(inbox) \in Msgs /\ Coming[1].seq = Expecting
  BY IInvParts, ComingFacts DEF Expected
<1>2. srv.phase # "none"
  BY Begun
<1>3. Rest \in Nat /\ Rest <= Len(Coming)
  BY <1>1 DEF Rest
<1>4. ASSUME Rest = 0 PROVE srv.timedout /\ Coming[1].seq = 0
  <2>1. Len(Coming) = 1 /\ srv.timedout
    BY <1>1, <1>4 DEF Rest, Extra
  <2> QED BY <2>1, IInvParts DEF TimedOutOK
<1>5. ASSUME at = "greeting" PROVE Rest >= 1
  BY <1>1, <1>3, <1>4, <1>5, IInvParts DEF GreetingOK
<1>6. ASSUME at = "auth" PROVE Rest >= 1
  BY <1>1, <1>3, <1>4, <1>6, IInvParts DEF AuthOK
<1>7. ASSUME at = "response" PROVE Rest >= 1
  BY <1>1, <1>3, <1>4, <1>7, IInvParts DEF ResponseOK, Expecting, Handshaking
<1>8. ASSUME at = "fields" PROVE Rest >= 1
  BY <1>1, <1>3, <1>4, <1>8, IInvParts DEF FieldsOK, RowsAt, Types
<1>9. ASSUME at = "prepared" PROVE Rest >= 1
  BY <1>1, <1>3, <1>4, <1>9, IInvParts DEF PreparedOK, Expecting, Handshaking
<1>10. ASSUME at = "meta" PROVE Rest >= 1
  BY <1>1, <1>3, <1>4, <1>10, IInvParts DEF MetaOK
<1>11. ASSUME at \in RowReads PROVE Rest >= 1
  BY <1>1, <1>3, <1>4, <1>11, IInvParts DEF ConnectedOK, RowsOK, RowsAt
<1>12. Rest >= 1
  <2>1. at \in Operations
    BY IInvParts DEF Types
  <2> QED BY <2>1, <1>3, <1>5, <1>6, <1>7, <1>8, <1>9, <1>10, <1>11 DEF Operations, RowReads
<1> QED BY <1>1, <1>2, <1>3, <1>12

\* Taking an answer leaves the error of a server that timed out where it is.
LEMMA TimedOutKept ==
  ASSUME IInv, inbox # <<>>, Take, Rest >= 1
  PROVE  TimedOutOK'
<1>1. /\ Types /\ TimedOutOK /\ srv' = srv /\ down' = down /\ Len(Coming') = Len(Coming) - 1
      /\ Len(Coming) \in Nat /\ \A i \in 1..Len(Coming') : Coming'[i] = Coming[i + 1]
  BY IInvParts, TakeFacts, ComingFacts
<1>2. ASSUME srv.timedout PROVE Len(Coming') >= 1 /\ Coming'[Len(Coming')] = Coming[Len(Coming)]
  <2>1. Extra = 1
    BY <1>2 DEF Extra
  <2>2. Len(Coming') \in 1..Len(Coming') /\ Len(Coming') + 1 = Len(Coming)
    BY <1>1, <2>1 DEF Rest
  <2> QED BY <1>1, <2>2
<1> QED BY <1>1, <1>2 DEF TimedOutOK

\* A step of the client that takes an answer or no message, and sends nothing.
LEMMA ClientKeeps ==
  ASSUME IInv, srv.phase # "none", params' = params, toServer' = toServer,
         \/ inbox # <<>> /\ Take /\ Rest >= 1
         \/ wire' = wire /\ inbox' = inbox /\ srv' = srv /\ (down => down')
  PROVE  TimedOutOK' /\ NoneYet' /\ PasswordOverSsl' /\ RequestsOK'
<1>1. srv' = srv
  BY DEF Take
<1>2. TimedOutOK'
  <2>1. CASE inbox # <<>> /\ Take /\ Rest >= 1
    BY <2>1, TimedOutKept
  <2>2. CASE wire' = wire /\ inbox' = inbox /\ srv' = srv /\ (down => down')
    <3>1. Coming' = Coming
      BY <2>2 DEF Coming
    <3> QED BY <2>2, <3>1, IInvParts DEF TimedOutOK
  <2> QED BY <2>1, <2>2
<1>3. NoneYet'
  BY <1>1 DEF NoneYet
<1>4. PasswordOverSsl'
  BY IInvParts DEF PasswordOverSsl
<1>5. RequestsOK'
  BY <1>1, IInvParts DEF RequestsOK
<1> QED BY <1>2, <1>3, <1>4, <1>5

\* A step of the client that sends a request.
LEMMA ClientSends ==
  ASSUME IInv, srv.phase # "none", params' = params,
         NEW m \in Requests, toServer' = Append(toServer, m),
         srv.phase # "accept",
         srv.phase \in {"auth", "tls"} => Len(toServer) = 0 /\ m.seq = srv.seq,
         srv.phase = "command" => m.seq = 0,
         m.t \in {"response", "auth_data"} =>
            /\ m.arg.auth = "password" => m.ssl
            /\ params.ssl = "require" => m.ssl,
         \/ inbox # <<>> /\ Take /\ Rest >= 1
         \/ wire' = wire /\ inbox' = inbox /\ srv' = srv /\ down' = down
  PROVE  TimedOutOK' /\ NoneYet' /\ PasswordOverSsl' /\ RequestsOK'
<1>1. srv' = srv
  BY DEF Take
<1>2. TimedOutOK'
  <2>1. CASE inbox # <<>> /\ Take /\ Rest >= 1
    BY <2>1, TimedOutKept
  <2>2. CASE wire' = wire /\ inbox' = inbox /\ srv' = srv /\ down' = down
    <3>1. Coming' = Coming
      BY <2>2 DEF Coming
    <3> QED BY <2>2, <3>1, IInvParts DEF TimedOutOK
  <2> QED BY <2>1, <2>2
<1>3. NoneYet'
  BY <1>1 DEF NoneYet
<1>4. /\ toServer' \in Seq(Requests) /\ Len(toServer') = Len(toServer) + 1
      /\ Len(toServer) \in Nat
      /\ \A i \in 1..Len(toServer) : toServer'[i] = toServer[i]
      /\ toServer'[Len(toServer) + 1] = m
  BY IInvParts, SentFacts, RequestsFacts
<1>5. DOMAIN toServer' = 1..Len(toServer') /\ DOMAIN toServer = 1..Len(toServer)
  BY <1>4, IInvParts, TypesParts, LenProperties
<1>6. PasswordOverSsl'
  <2> SUFFICES ASSUME NEW i \in 1..Len(toServer'), toServer'[i].t \in {"response", "auth_data"}
               PROVE  /\ toServer'[i].arg.auth = "password" => toServer'[i].ssl
                      /\ params.ssl = "require" => toServer'[i].ssl
    BY <1>5 DEF PasswordOverSsl
  <2>1. CASE i \in 1..Len(toServer)
    BY <1>4, <1>5, <2>1, IInvParts DEF PasswordOverSsl
  <2>2. CASE i = Len(toServer) + 1
    BY <1>4, <2>2
  <2> QED BY <1>4, <2>1, <2>2
<1>7. RequestsOK'
  BY <1>1, <1>4, IInvParts DEF RequestsOK
<1> QED BY <1>2, <1>3, <1>6, <1>7

\* A step that changes neither what the claims speak of nor what is to come.
LEMMA Same ==
  ASSUME IInv, Types', Coming' = Coming, down => down',
         UNCHANGED <<params, at, chan, auth, rs, left, app, toServer, srv>>
  PROVE  IInv'
<1>1. Extra' = Extra /\ Rest' = Rest
  BY DEF Extra, Rest
<1>2. InOrder' <=> InOrder
  BY <1>1 DEF InOrder
<1>3. TimedOutOK' /\ NoneYet' /\ PasswordOverSsl' /\ RequestsOK' /\ OpenOK'
  BY IInvParts DEF TimedOutOK, NoneYet, PasswordOverSsl, RequestsOK, OpenOK
<1>4. GreetingOK' /\ NegotiatedOK' /\ SslOK'
  BY IInvParts DEF GreetingOK, NegotiatedOK, SslOK
<1>5. AuthOK'
  BY <1>1, IInvParts DEF AuthOK
<1>6. ConnectedOK' /\ IdleOK'
  BY <1>1, IInvParts DEF ConnectedOK, IdleOK, ConnectedMeansAgreed
<1>7. ResponseOK'
  BY <1>1, <1>2, IInvParts DEF ResponseOK, Waiting, NumbersFrom, ColumnsAt, RowsAt
<1>8. FieldsOK'
  BY <1>1, <1>2, IInvParts DEF FieldsOK, NumbersFrom, ColumnsAt, RowsAt
<1>9. RowsOK'
  BY <1>1, <1>2, IInvParts DEF RowsOK, NumbersFrom, RowsAt
<1>10. PreparedOK' /\ MetaOK'
  BY <1>1, <1>2, IInvParts DEF PreparedOK, MetaOK, Waiting, NumbersFrom
<1> QED BY <1>3, <1>4, <1>5, <1>6, <1>7, <1>8, <1>9, <1>10 DEF IInv, Always

\* The application gives a connection up.
LEMMA GivesUp ==
  ASSUME IInv, Types', srv.phase # "none", params' = params, toServer' = toServer,
         \/ inbox # <<>> /\ Take /\ Rest >= 1
         \/ wire' = wire /\ inbox' = inbox /\ srv' = srv /\ (down => down'),
         at' = "none", ~app'.connected, ~app'.rows,
         chan'.open => srv.phase \in {"command", "closed"}
  PROVE  IInv'
<1>1. TimedOutOK' /\ NoneYet' /\ PasswordOverSsl' /\ RequestsOK'
  BY ClientKeeps
<1>2. srv' = srv
  BY DEF Take
<1>3. Always'
  BY <1>1, <1>2 DEF Always, OpenOK
<1> QED BY <1>3, Assembled

\* The fields of the records of a typed state.
LEMMA RecordFacts ==
  ASSUME Types
  PROVE  /\ chan.open \in BOOLEAN /\ chan.ssl \in BOOLEAN /\ chan.caps \in SUBSET Caps
         /\ chan.seq \in SeqNum
         /\ auth.caps \in SUBSET Caps /\ auth.plugin \in {"none", "native", "sha2"}
         /\ auth.response \in Responses
         /\ rs.seq \in SeqNum /\ rs.meta \in 0..MaxColumns /\ rs.complete \in BOOLEAN
         /\ app.connected \in BOOLEAN /\ app.rows \in BOOLEAN
         /\ app.commands \in 0..MaxCommands /\ app.got \in Seq(RowData)
         /\ srv.seq \in SeqNum /\ srv.caps \in SUBSET Caps /\ srv.rounds \in 0..MaxRounds
         /\ srv.rows \in Seq(RowData) /\ srv.timedout \in BOOLEAN
  BY DEF Types, Channels, Auths, Resultsets, Apps, Servers

\* An operation that fails leaves a connection open only after the handshake.
LEMMA OpenAfterwards ==
  ASSUME IInv, at # "none", at \notin Handshaking
  PROVE  app.connected /\ srv.phase \in {"command", "closed"}
  BY IInvParts DEF ConnectedOK, TimedOutOK

-----------------------------------------------------------------------------
(* Connecting.                                                                *)

\* connect reaches the server, or does not.
LEMMA ConnectIInv ==
  ASSUME IInv, Connect
  PROVE  IInv'
<1>1. /\ at = "none" /\ ~chan.open /\ ~chan.ssl /\ ~app.connected /\ ~app.rows
      /\ Len(toServer) = 0 /\ Len(Coming) = 0 /\ ~srv.timedout /\ srv.phase = "none"
  BY IInvParts DEF Connect, NoneYet, ConnectedOK
<1>2. /\ Coming' = Coming
      /\ UNCHANGED <<params, auth, rs, left, stmt, fields, app, toServer, wire, inbox, down>>
  BY DEF Connect, Coming
<1>3. CASE /\ chan' = [open |-> TRUE, ssl |-> FALSE, caps |-> {}, seq |-> 0]
           /\ at' = "greeting" /\ srv' = [srv EXCEPT !.phase = "accept"] /\ last' = "none"
  <2>1. chan' \in Channels
    BY <1>3, NextSeqnum DEF Channels
  <2>2. srv' \in Servers /\ srv'.phase = "accept" /\ srv'.timedout = srv.timedout
    BY <1>3, IInvParts DEF Types, Servers
  <2>3. Types'
    BY <1>2, <1>3, <2>1, <2>2, IInvParts DEF Types, Operations, Results
  <2>4. TimedOutOK' /\ NoneYet' /\ OpenOK' /\ RequestsOK' /\ PasswordOverSsl'
    BY <1>1, <1>2, <1>3, <2>2, IInvParts
       DEF TimedOutOK, NoneYet, OpenOK, RequestsOK, PasswordOverSsl
  <2>5. GreetingOK'
    BY <1>1, <1>2, <1>3, <2>2 DEF GreetingOK
  <2>6. ConnectedOK'
    BY <1>1, <1>2, <1>3 DEF ConnectedOK, Handshaking, RowReads
  <2> QED BY <1>3, <2>3, <2>4, <2>5, <2>6, Assembled DEF Always
<1>4. CASE Complete("connect_failed") /\ UNCHANGED <<chan, srv>>
  <2>1. at' = at /\ Types'
    BY <1>1, <1>2, <1>4, IInvParts DEF Complete, Types, Operations, Results
  <2> QED BY <1>2, <1>4, <2>1, Same
<1> QED BY <1>3, <1>4 DEF Connect

\* What the plugins answer.
LEMMA CalculateFacts ==
  ASSUME NEW plugin, NEW challenge, NEW use_ssl \in BOOLEAN
  PROVE  LET c == calculate(plugin, challenge, use_ssl)
         IN  /\ c \in Responses => plugin \in {"native", "sha2"}
             /\ c \notin Responses => c \in Results
             /\ c = "password" => use_ssl /\ challenge = "full"
  BY DEF calculate, Responses, Results

\* A handshake that fails closes the socket.
LEMMA ConnectFailsIInv ==
  ASSUME IInv, at \in Handshaking, NEW error \in Results, ConnectFails(error),
         UNCHANGED <<params, rs, left, stmt, fields, app>>,
         \/ inbox # <<>> /\ Take /\ Rest >= 1
         \/ wire' = wire /\ inbox' = inbox /\ srv' = srv /\ down' = down
  PROVE  IInv'
<1>1. /\ at' = "none" /\ last' = error /\ toServer' = toServer /\ auth' = NoAuth
      /\ chan' = [chan EXCEPT !.open = FALSE]
  BY DEF ConnectFails, Complete
<1>2. Types' /\ ~chan'.open
  <2>1. chan' \in Channels /\ ~chan'.open
    BY <1>1, IInvParts DEF Types, Channels
  <2>2. auth' \in Auths
    BY <1>1 DEF NoAuth, Auths, Responses
  <2>3. inbox' \in Seq(Msgs) /\ wire' = wire /\ srv' = srv /\ down' = down
    BY IInvParts, TakeFacts, TypesParts
  <2> QED BY <1>1, <2>1, <2>2, <2>3, IInvParts DEF Types, Operations
<1>3. ~app.connected /\ ~app.rows
  BY IInvParts DEF ConnectedOK, Handshaking
<1>4. srv.phase # "none"
  BY Begun DEF Handshaking
<1> QED BY <1>1, <1>2, <1>3, <1>4, GivesUp

\* The greeting is answered by a request for SSL or by the response, or fails connect.
LEMMA ReadGreetingIInv ==
  ASSUME IInv, ReadGreeting
  PROVE  IInv'
<1> DEFINE m == Head(inbox)
           caps == m.arg.caps \cap wanted_caps
           response == calculate(m.arg.plugin, "nonce", "ssl" \in caps)
           seq == next_seqnum(chan.seq)
<1>0. /\ at = "greeting" /\ Expected(chan.seq) /\ Take
      /\ UNCHANGED <<params, rs, left, stmt, fields, app>>
      /\ \/ m.t = "err" /\ ConnectFails("server_error")
         \/ m.t = "malformed" /\ \E error \in {"server_unsupported", "protocol_value_error"} :
                                   ConnectFails(error)
         \/ m.t = "greeting" /\ ~(required_caps \subseteq m.arg.caps)
                             /\ ConnectFails("server_unsupported")
         \/ /\ m.t = "greeting" /\ required_caps \subseteq m.arg.caps
            /\ response \notin Responses /\ ConnectFails(response)
         \/ /\ m.t = "greeting" /\ required_caps \subseteq m.arg.caps
            /\ response \in Responses
            /\ auth' = [caps |-> caps, plugin |-> m.arg.plugin, response |-> response]
            /\ chan' = [chan EXCEPT !.seq = next_seqnum(seq)]
            /\ IF "ssl" \in caps
               THEN Send("ssl_request", caps, seq) /\ at' = "ssl"
               ELSE Send("response", [caps |-> caps, auth |-> response], seq) /\ at' = "auth"
            /\ UNCHANGED last
  BY DEF ReadGreeting
<1>1. /\ inbox # <<>> /\ Rest >= 1 /\ Coming[1] = m /\ srv.phase # "none"
      /\ Rest \in Nat /\ Rest <= Len(Coming) /\ Len(Coming) \in Nat
  <2>1. Expecting = chan.seq
    BY <1>0 DEF Expecting, Handshaking
  <2> QED BY <1>0, <2>1, AnswerComes, IInvParts, ComingFacts
<1>2. /\ Len(toServer) = 0 /\ chan.seq = 0 /\ ~chan.ssl /\ ~srv.timedout /\ Len(Coming) = 1
      /\ m.t = "greeting" => srv.phase = "auth" /\ srv.seq = next_seqnum(0)
  BY <1>0, <1>1, IInvParts DEF GreetingOK
<1>3. ("ssl" \in caps) \in BOOLEAN
  OBVIOUS
<1>4. CASE m.t = "err" /\ ConnectFails("server_error")
  BY <1>0, <1>1, <1>4, ConnectFailsIInv DEF Handshaking, Results
<1>8. CASE m.t = "malformed" /\ \E error \in {"server_unsupported", "protocol_value_error"} :
                                  ConnectFails(error)
  <2>1. PICK error \in {"server_unsupported", "protocol_value_error"} : ConnectFails(error)
    BY <1>8
  <2>2. error \in Results
    BY DEF Results
  <2> QED BY <1>0, <1>1, <2>1, <2>2, ConnectFailsIInv DEF Handshaking
<1>5. CASE m.t = "greeting" /\ ConnectFails("server_unsupported")
  BY <1>0, <1>1, <1>5, ConnectFailsIInv DEF Handshaking, Results
<1>6. CASE response \notin Responses /\ ConnectFails(response)
  <2>1. response \in Results
    BY <1>3, <1>6, CalculateFacts
  <2> QED BY <1>0, <1>1, <1>6, <2>1, ConnectFailsIInv DEF Handshaking
<1>7. CASE /\ m.t = "greeting" /\ required_caps \subseteq m.arg.caps
           /\ response \in Responses
           /\ auth' = [caps |-> caps, plugin |-> m.arg.plugin, response |-> response]
           /\ chan' = [chan EXCEPT !.seq = next_seqnum(seq)]
           /\ IF "ssl" \in caps
              THEN Send("ssl_request", caps, seq) /\ at' = "ssl"
              ELSE Send("response", [caps |-> caps, auth |-> response], seq) /\ at' = "auth"
           /\ UNCHANGED last
  <2>1. caps \in SUBSET Caps
    BY DEF wanted_caps, required_caps, Caps
  <2>2. m.arg.plugin \in {"native", "sha2"} /\ response # "password"
    <3>1. PICK plugin \in {m.arg.plugin}, use_ssl \in BOOLEAN :
            use_ssl = ("ssl" \in caps) /\ response = calculate(plugin, "nonce", use_ssl)
      BY <1>3
    <3>2. "nonce" # "full" /\ response \in Responses
      BY <1>7
    <3> HIDE DEF response, caps, m
    <3> QED BY <3>1, <3>2, CalculateFacts, ZenonT(40)
  <2>3. /\ params.ssl = "require" => "ssl" \in caps
        /\ params.db => "db" \in caps
    BY <1>7 DEF wanted_caps, required_caps
  <2>4. seq = srv.seq /\ seq \in SeqNum /\ next_seqnum(seq) \in SeqNum
    BY <1>2, <1>7, NextSeqnum
  <2>5. PICK c \in SUBSET Caps, r \in Responses, s \in SeqNum :
          /\ c = caps /\ r = response /\ s = seq /\ r # "password"
          /\ s = srv.seq /\ next_seqnum(s) \in SeqNum
          /\ params.ssl = "require" => "ssl" \in c
          /\ params.db => "db" \in c
    BY <1>7, <2>1, <2>2, <2>3, <2>4
  <2>6. PICK req \in Requests :
          /\ toServer' = Append(toServer, req) /\ req.seq = s /\ req.ssl = chan.ssl
          /\ "ssl" \in c => req.t = "ssl_request" /\ at' = "ssl"
          /\ "ssl" \notin c => /\ req.t = "response" /\ at' = "auth"
                               /\ req.arg.caps = c /\ req.arg.auth = r
    <3>1. chan.ssl \in BOOLEAN
      BY IInvParts, RecordFacts
    <3>2. CASE "ssl" \in c
      <4>1. [t |-> "ssl_request", arg |-> c, seq |-> s, ssl |-> chan.ssl] \in Requests
        BY <3>1 DEF Requests
      <4>2. toServer' = Append(toServer, [t |-> "ssl_request", arg |-> c, seq |-> s, ssl |-> chan.ssl])
            /\ at' = "ssl"
        BY <1>7, <2>5, <3>2 DEF Send
      <4> QED BY <3>2, <4>1, <4>2
    <3>3. CASE "ssl" \notin c
      <4>1. [t |-> "response", arg |-> [caps |-> c, auth |-> r], seq |-> s, ssl |-> chan.ssl]
                \in Requests
        BY <3>1 DEF Requests
      <4>2. /\ toServer' = Append(toServer, [t |-> "response", arg |-> [caps |-> c, auth |-> r],
                                             seq |-> s, ssl |-> chan.ssl])
            /\ at' = "auth"
        BY <1>7, <2>5, <3>3 DEF Send
      <4> QED BY <3>3, <4>1, <4>2
    <3> QED BY <3>2, <3>3
  <2>7. /\ auth' \in Auths /\ auth'.caps = c
        /\ chan' \in Channels /\ chan'.seq = next_seqnum(s) /\ chan'.open = chan.open
        /\ chan'.ssl = chan.ssl
    BY <1>7, <2>1, <2>2, <2>5, IInvParts DEF Types, Channels, Auths
  <2>8. /\ inbox' \in Seq(Msgs) /\ wire' = wire /\ srv' = srv /\ down' = down
        /\ Len(Coming') = 0
    BY <1>0, <1>1, <1>2, IInvParts, TakeFacts
  <2>9. /\ toServer' \in Seq(Requests) /\ Len(toServer') = 1 /\ toServer'[1] = req
    BY <1>2, <2>6, IInvParts, SentFacts
  <2>10. at' \in {"ssl", "auth"} /\ Types'
    BY <1>0, <1>7, <2>6, <2>7, <2>8, <2>9, IInvParts, TypesParts DEF Types, Operations
  <2>11. TimedOutOK' /\ NoneYet' /\ PasswordOverSsl' /\ RequestsOK'
    <3>1. srv.phase \in {"accept", "auth", "tls"} => Len(toServer) = 0 /\ req.seq = srv.seq
      BY <1>2, <2>5, <2>6
    <3>2. srv.phase = "auth"
      BY <1>2, <1>7
    <3>3. req.t \in {"response", "auth_data"} =>
            /\ req.arg.auth = "password" => req.ssl
            /\ params.ssl = "require" => req.ssl
      BY <2>5, <2>6
    <3> HIDE DEF m, caps, response, seq
    <3> QED BY <1>0, <1>1, <2>6, <3>1, <3>2, <3>3, ClientSends
  <2>12. Always'
    BY <1>0, <2>7, <2>10, <2>11, IInvParts DEF Always, OpenOK
  <2>13. ConnectedOK'
    <3>1. ~app.connected /\ ~app.rows
      BY <1>0, IInvParts DEF ConnectedOK, Handshaking
    <3> QED BY <1>0, <2>10, <3>1 DEF ConnectedOK, Handshaking, RowReads
  <2>14. NegotiatedOK'
    BY <1>0, <2>5, <2>7 DEF NegotiatedOK
  <2>15. CASE "ssl" \in c
    <3>1. SslOK'
      BY <1>2, <1>7, <2>5, <2>6, <2>7, <2>8, <2>9, <2>15 DEF SslOK
    <3> QED BY <2>6, <2>12, <2>13, <2>14, <2>15, <3>1, Assembled
  <2>16. CASE "ssl" \notin c
    <3>1. AuthOK'
      BY <1>2, <1>7, <2>5, <2>6, <2>7, <2>8, <2>9, <2>16 DEF AuthOK
    <3> QED BY <2>6, <2>12, <2>13, <2>14, <2>16, <3>1, Assembled
  <2> QED BY <2>15, <2>16
<1> QED BY <1>0, <1>4, <1>5, <1>6, <1>7, <1>8

\* The SSL handshake succeeds and the response is sent over SSL, or it fails.
LEMMA SslHandshakeIInv ==
  ASSUME IInv, SslHandshake
  PROVE  IInv'
<1>1. at = "ssl" /\ UNCHANGED <<params, rs, left, stmt, fields, app, wire, inbox, down, srv>>
  BY DEF SslHandshake
<1>2. CASE ConnectFails("ssl_error")
  BY <1>1, <1>2, ConnectFailsIInv DEF Handshaking, Results
<1>3. CASE /\ srv.phase = "tls"
           /\ chan' = [chan EXCEPT !.ssl = TRUE, !.seq = next_seqnum(@)]
           /\ toServer' = Append(toServer,
                [t |-> "response", arg |-> [caps |-> auth.caps, auth |-> auth.response],
                 seq |-> chan.seq, ssl |-> TRUE])
           /\ at' = "auth"
           /\ UNCHANGED <<last, auth>>
  <2>1. /\ "ssl" \in auth.caps /\ ~srv.timedout /\ Len(Coming) = 0 /\ Len(toServer) = 0
        /\ chan.seq = srv.seq
    BY <1>1, <1>3, IInvParts DEF SslOK
  <2>2. /\ chan' \in Channels /\ chan'.ssl = TRUE /\ chan'.open = chan.open
        /\ chan'.seq = next_seqnum(chan.seq)
        /\ next_seqnum(chan.seq) \in SeqNum
    BY <1>3, IInvParts, RecordFacts, NextSeqnum DEF Types, Channels
  <2>3. PICK req \in Requests :
          /\ toServer' = Append(toServer, req) /\ req.t = "response" /\ req.ssl = TRUE
          /\ req.seq = chan.seq /\ req.arg.caps = auth.caps
    <3>1. [t |-> "response", arg |-> [caps |-> auth.caps, auth |-> auth.response],
           seq |-> chan.seq, ssl |-> TRUE] \in Requests
      BY IInvParts, RecordFacts DEF Requests
    <3> QED BY <1>3, <3>1
  <2>4. toServer' \in Seq(Requests) /\ Len(toServer') = 1 /\ toServer'[1] = req
    BY <2>1, <2>3, IInvParts, SentFacts
  <2>5. Types'
    BY <1>1, <1>3, <2>2, <2>4, IInvParts DEF Types, Operations
  <2>6. TimedOutOK' /\ NoneYet' /\ PasswordOverSsl' /\ RequestsOK'
    BY <1>1, <1>3, <2>1, <2>3, ClientSends
  <2>7. Always'
    BY <1>1, <1>3, <2>2, <2>5, <2>6, IInvParts DEF Always, OpenOK
  <2>8. ConnectedOK'
    <3>1. ~app.connected /\ ~app.rows
      BY <1>1, IInvParts DEF ConnectedOK, Handshaking
    <3> QED BY <1>1, <1>3, <3>1 DEF ConnectedOK, Handshaking, RowReads
  <2>9. NegotiatedOK'
    BY <1>1, <1>3, IInvParts DEF NegotiatedOK
  <2>10. Coming' = Coming
    BY <1>1 DEF Coming
  <2>11. AuthOK'
    BY <1>1, <1>3, <2>1, <2>2, <2>3, <2>4, <2>10 DEF AuthOK
  <2> QED BY <1>3, <2>7, <2>8, <2>9, <2>11, Assembled
<1> QED BY <1>2, <1>3 DEF SslHandshake

\* The authentication goes on, succeeds or fails.
LEMMA ReadAuthResponseIInv ==
  ASSUME IInv, ReadAuthResponse
  PROVE  IInv'
<1> DEFINE m == Head(inbox)
           plugin == IF m.t = "auth_switch" THEN m.arg.plugin ELSE auth.plugin
           response == calculate(plugin, m.arg.challenge, "ssl" \in auth.caps)
           seq == next_seqnum(chan.seq)
<1>0. /\ at = "auth" /\ Expected(chan.seq) /\ Take
      /\ UNCHANGED <<params, rs, left, stmt, fields>>
      /\ \/ /\ m.t = "ok"
            /\ Complete("ok")
            /\ chan' = [chan EXCEPT !.seq = seq, !.caps = auth.caps]
            /\ app' = [app EXCEPT !.connected = TRUE]
            /\ auth' = NoAuth
            /\ UNCHANGED toServer
         \/ m.t \in {"err", "malformed"} /\ ConnectFails(Refusal(m)) /\ UNCHANGED app
         \/ /\ m.t = "auth_more_data" /\ m.arg.challenge = "fast_auth_complete"
            /\ chan' = [chan EXCEPT !.seq = seq]
            /\ UNCHANGED <<at, last, auth, toServer, app>>
         \/ /\ \/ m.t = "auth_switch"
               \/ m.t = "auth_more_data" /\ m.arg.challenge # "fast_auth_complete"
            /\ IF response \in Responses
               THEN /\ auth' = [auth EXCEPT !.plugin = plugin, !.response = response]
                    /\ Send("auth_data", [auth |-> response], seq)
                    /\ chan' = [chan EXCEPT !.seq = next_seqnum(seq)]
                    /\ UNCHANGED <<at, last>>
               ELSE ConnectFails(response)
            /\ UNCHANGED app
  BY DEF ReadAuthResponse, set_current_capabilities
<1>1. /\ inbox # <<>> /\ Rest >= 1 /\ Coming[1] = m /\ srv.phase # "none" /\ m \in Msgs
      /\ Rest \in Nat /\ Rest <= Len(Coming) /\ Len(Coming) \in Nat
  <2>1. Expecting = chan.seq
    BY <1>0 DEF Expecting, Handshaking
  <2> QED BY <1>0, <2>1, AnswerComes, IInvParts, ComingFacts
<1>2. /\ inbox' \in Seq(Msgs) /\ wire' = wire /\ srv' = srv /\ down' = down
      /\ Rest' = Rest - 1 /\ Len(Coming') = Len(Coming) - 1
      /\ \A i \in 1..Len(Coming') : Coming'[i] = Coming[i + 1]
  BY <1>0, <1>1, IInvParts, TakeFacts
<1>3. /\ chan.ssl <=> "ssl" \in auth.caps
      /\ chan.seq \in SeqNum /\ seq \in SeqNum /\ next_seqnum(seq) \in SeqNum
      /\ ~app.connected /\ ~app.rows
      /\ ("ssl" \in auth.caps) \in BOOLEAN
  BY <1>0, IInvParts, RecordFacts, NextSeqnum DEF AuthOK, ConnectedOK, Handshaking
<1>4. CASE m.t \in {"err", "malformed"} /\ ConnectFails(Refusal(m)) /\ UNCHANGED app
  <2>1. Refusal(m) \in Results
    BY DEF Refusal, Results
  <2> QED BY <1>0, <1>1, <1>4, <2>1, ConnectFailsIInv DEF Handshaking
<1>5. CASE response \notin Responses /\ ConnectFails(response) /\ UNCHANGED app
  <2>1. response \in Results
    <3>1. PICK p \in {plugin}, c \in {m.arg.challenge}, use_ssl \in BOOLEAN :
            use_ssl = ("ssl" \in auth.caps) /\ response = calculate(p, c, use_ssl)
      BY <1>3
    <3>2. response \notin Responses
      BY <1>5
    <3> HIDE DEF response, plugin, m
    <3> QED BY <3>1, <3>2, CalculateFacts
  <2> QED BY <1>0, <1>1, <1>5, <2>1, ConnectFailsIInv DEF Handshaking
<1>6. CASE /\ m.t = "ok"
           /\ Complete("ok")
           /\ chan' = [chan EXCEPT !.seq = seq, !.caps = auth.caps]
           /\ app' = [app EXCEPT !.connected = TRUE]
           /\ auth' = NoAuth
           /\ UNCHANGED toServer
  <2>1. /\ Rest = 1 /\ srv.caps = auth.caps /\ Len(toServer) = 0
        /\ srv.phase = "command" \/ srv.timedout
    BY <1>0, <1>1, <1>6, IInvParts DEF AuthOK
  <2>2. /\ chan' \in Channels /\ chan'.caps = auth.caps /\ chan'.open = chan.open
        /\ chan'.ssl = chan.ssl
        /\ app' \in Apps /\ app'.connected = TRUE /\ app'.rows = app.rows
    BY <1>3, <1>6, IInvParts, RecordFacts DEF Types, Channels, Apps
  <2>3. auth' \in Auths
    BY <1>6 DEF NoAuth, Auths, Responses
  <2>4. at' = "none" /\ last' = "ok" /\ toServer' = toServer
    BY <1>6 DEF Complete
  <2>5. Types'
    BY <1>0, <1>2, <2>2, <2>3, <2>4, IInvParts DEF Types, Operations, Results
  <2>6. TimedOutOK' /\ NoneYet' /\ PasswordOverSsl' /\ RequestsOK'
    BY <1>0, <1>1, <2>4, ClientKeeps
  <2>7. srv.phase \in {"command", "closed"}
    BY <2>1, IInvParts DEF TimedOutOK
  <2>8. Always'
    BY <1>2, <2>4, <2>5, <2>6, <2>7 DEF Always, OpenOK
  <2>9. ConnectedMeansAgreed'
    <3>1. chan.open
      BY <1>0, IInvParts DEF OpenOK
    <3> QED BY <1>0, <1>2, <1>3, <2>1, <2>2, <2>7, <3>1, IInvParts
            DEF ConnectedMeansAgreed, NegotiatedOK
  <2>10. ConnectedOK'
    BY <1>2, <1>3, <2>1, <2>2, <2>4, <2>9 DEF ConnectedOK, Handshaking, RowReads
  <2>11. IdleOK' /\ RowsOK'
    BY <1>2, <1>3, <2>1, <2>2, <2>4 DEF IdleOK, RowsOK
  <2> QED BY <2>4, <2>8, <2>10, <2>11, Assembled
<1>7. CASE /\ m.t = "auth_more_data" /\ m.arg.challenge = "fast_auth_complete"
           /\ chan' = [chan EXCEPT !.seq = seq]
           /\ UNCHANGED <<at, last, auth, toServer, app>>
  <2>1. /\ Rest = 2 /\ srv.caps = auth.caps /\ Len(toServer) = 0
        /\ srv.phase = "command" \/ srv.timedout
        /\ Coming[2].t = "ok" /\ Coming[2].seq = seq
    BY <1>0, <1>1, <1>7, IInvParts DEF AuthOK
  <2>2. chan' \in Channels /\ chan'.seq = seq /\ chan'.open = chan.open /\ chan'.ssl = chan.ssl
    BY <1>3, <1>7, IInvParts DEF Types, Channels
  <2>3. Types'
    BY <1>0, <1>2, <1>7, <2>2, IInvParts DEF Types
  <2>4. TimedOutOK' /\ NoneYet' /\ PasswordOverSsl' /\ RequestsOK'
    BY <1>0, <1>1, <1>7, ClientKeeps
  <2>5. Always'
    BY <1>0, <1>7, <2>2, <2>3, <2>4, IInvParts DEF Always, OpenOK
  <2>6. ConnectedOK' /\ NegotiatedOK'
    BY <1>0, <1>3, <1>7, IInvParts DEF ConnectedOK, Handshaking, RowReads, NegotiatedOK
  <2>7. Coming'[1] = Coming[2]
    BY <1>1, <1>2, <2>1
  <2>8. AuthOK'
    BY <1>0, <1>2, <1>3, <1>7, <2>1, <2>2, <2>7 DEF AuthOK
  <2> QED BY <1>0, <1>7, <2>5, <2>6, <2>8, Assembled
<1>8. CASE /\ \/ m.t = "auth_switch"
              \/ m.t = "auth_more_data" /\ m.arg.challenge # "fast_auth_complete"
           /\ response \in Responses
           /\ auth' = [auth EXCEPT !.plugin = plugin, !.response = response]
           /\ Send("auth_data", [auth |-> response], seq)
           /\ chan' = [chan EXCEPT !.seq = next_seqnum(seq)]
           /\ UNCHANGED <<at, last>>
           /\ UNCHANGED app
  <2>1. /\ Len(Coming) = 1 /\ srv.caps = auth.caps /\ Len(toServer) = 0 /\ srv.phase = "auth"
        /\ ~srv.timedout /\ srv.seq = seq
    BY <1>0, <1>1, <1>8, IInvParts DEF AuthOK
  <2>2. plugin \in {"native", "sha2"} /\ (response = "password" => chan.ssl)
    <3>1. PICK p \in {plugin}, c \in {m.arg.challenge}, use_ssl \in BOOLEAN :
            use_ssl = ("ssl" \in auth.caps) /\ response = calculate(p, c, use_ssl)
      BY <1>3
    <3>2. response \in Responses
      BY <1>8
    <3> HIDE DEF response, plugin, m
    <3> QED BY <1>3, <3>1, <3>2, CalculateFacts, ZenonT(40)
  <2>3. PICK r \in Responses : r = response
    BY <1>8
  <2>4. /\ auth' \in Auths /\ auth'.caps = auth.caps
        /\ chan' \in Channels /\ chan'.seq = next_seqnum(seq) /\ chan'.ssl = chan.ssl
        /\ chan'.open = chan.open
    BY <1>3, <1>8, <2>2, IInvParts DEF Types, Auths, Channels
  <2>5. PICK req \in Requests :
          /\ toServer' = Append(toServer, req) /\ req.t = "auth_data" /\ req.seq = seq
          /\ req.ssl = chan.ssl /\ req.arg.auth = r
    <3>1. [t |-> "auth_data", arg |-> [auth |-> r], seq |-> seq, ssl |-> chan.ssl] \in Requests
      BY <1>3, IInvParts, RecordFacts DEF Requests
    <3>2. toServer' = Append(toServer,
                        [t |-> "auth_data", arg |-> [auth |-> r], seq |-> seq, ssl |-> chan.ssl])
      BY <1>8, <2>3 DEF Send
    <3> QED BY <3>1, <3>2
  <2>6. toServer' \in Seq(Requests) /\ Len(toServer') = 1 /\ toServer'[1] = req
    BY <2>1, <2>5, IInvParts, SentFacts
  <2>7. Types'
    BY <1>0, <1>2, <1>8, <2>4, <2>6, IInvParts DEF Types
  <2>8. params.ssl = "require" => chan.ssl
    BY <1>0, <1>3, IInvParts DEF NegotiatedOK
  <2>9. TimedOutOK' /\ NoneYet' /\ PasswordOverSsl' /\ RequestsOK'
    <3>1. req.t \in {"response", "auth_data"} =>
            /\ req.arg.auth = "password" => req.ssl
            /\ params.ssl = "require" => req.ssl
      BY <2>2, <2>3, <2>5, <2>8
    <3> HIDE DEF m, plugin, response, seq
    <3> QED BY <1>0, <1>1, <2>1, <2>5, <3>1, ClientSends
  <2>10. Always'
    BY <1>0, <1>8, <2>4, <2>7, <2>9, IInvParts DEF Always, OpenOK
  <2>11. ConnectedOK' /\ NegotiatedOK'
    BY <1>0, <1>3, <1>8, <2>4, IInvParts
       DEF ConnectedOK, Handshaking, RowReads, NegotiatedOK
  <2>12. AuthOK'
    BY <1>0, <1>2, <1>3, <1>8, <2>1, <2>4, <2>5, <2>6 DEF AuthOK
  <2> QED BY <1>0, <1>8, <2>10, <2>11, <2>12, Assembled
<1> QED BY <1>0, <1>4, <1>5, <1>6, <1>7, <1>8

-----------------------------------------------------------------------------
(* Commands.                                                                  *)

\* A connection in use has been accepted.
LEMMA InUse ==
  ASSUME IInv, app.connected
  PROVE  /\ chan.open /\ srv.phase \in {"command", "closed"} /\ at \notin Handshaking
         /\ srv.phase = "command" \/ srv.timedout
         /\ srv.phase = "command" => srv.seq = 0
  BY IInvParts DEF ConnectedOK, ConnectedMeansAgreed, RequestsOK

\* A connection in use stays one when neither end changes what was agreed.
LEMMA ConnectedKept ==
  ASSUME IInv, app.connected, params' = params, srv' = srv,
         chan'.open = chan.open, chan'.caps = chan.caps, chan'.ssl = chan.ssl,
         at' \notin Handshaking, app'.connected,
         at' \in RowReads => app'.rows, app'.rows => at' \in RowReads \cup {"none"}
  PROVE  ConnectedOK'
<1>1. ConnectedMeansAgreed /\ (srv.phase = "command" \/ srv.timedout)
  BY IInvParts DEF ConnectedOK
<1>2. ConnectedMeansAgreed'
  BY <1>1 DEF ConnectedMeansAgreed
<1> QED BY <1>1, <1>2 DEF ConnectedOK

\* What an operation that fails leaves to the application.
LEMMA FailFacts ==
  ASSUME Types, NEW error \in Results, Fail(error)
  PROVE  /\ at' = "none" /\ last' = error /\ app' \in Apps /\ ~app'.rows
         /\ app'.commands = app.commands /\ app'.got = app.got
         /\ app'.connected <=> app.connected /\ error \in Recoverable
  BY DEF Types, Apps, Fail, Complete

\* An operation ends, and all that was to come has been taken.
LEMMA EndsIdle ==
  ASSUME IInv, Types', app.connected, params' = params, toServer' = toServer,
         Len(toServer) = 0, inbox # <<>>, Take, Rest = 1,
         chan'.open = chan.open, chan'.caps = chan.caps, chan'.ssl = chan.ssl,
         at' = "none", app'.connected, ~app'.rows
  PROVE  IInv'
<1>1. srv' = srv /\ Rest' = 0
  BY IInvParts, TakeFacts
<1>2. srv.phase # "none" /\ srv.phase \in {"command", "closed"}
  BY InUse
<1>3. TimedOutOK' /\ NoneYet' /\ PasswordOverSsl' /\ RequestsOK'
  BY <1>2, ClientKeeps
<1>4. Always'
  BY <1>1, <1>2, <1>3 DEF Always, OpenOK
<1>5. ConnectedOK'
  BY <1>1, ConnectedKept DEF Handshaking, RowReads
<1>6. IdleOK' /\ RowsOK'
  BY <1>1 DEF IdleOK, RowsOK
<1> QED BY <1>4, <1>5, <1>6, Assembled

\* A command is sent when nothing is to come and no other one is unanswered.
LEMMA CommandSent ==
  ASSUME IInv, Ready, NEW m \in Requests, toServer' = Append(toServer, m),
         m.seq = 0, m.t \notin {"response", "auth_data"},
         UNCHANGED <<params, wire, inbox, down, srv>>
  PROVE  /\ TimedOutOK' /\ NoneYet' /\ PasswordOverSsl' /\ RequestsOK'
         /\ toServer' \in Seq(Requests) /\ Rest' = 0
         /\ Len(toServer') >= 1 /\ toServer'[Len(toServer')].t = m.t
         /\ \A i \in 1..(Len(toServer') - 1) : toServer'[i].t = "close_statement"
<1>1. srv.phase \in {"command", "closed"}
  BY InUse DEF Ready
<1>2. TimedOutOK' /\ NoneYet' /\ PasswordOverSsl' /\ RequestsOK'
  BY <1>1, ClientSends
<1>3. Rest = 0 /\ \A i \in 1..Len(toServer) : toServer[i].t = "close_statement"
  BY IInvParts DEF Ready, IdleOK
<1>4. Rest' = 0
  BY <1>3 DEF Rest, Extra, Coming
<1>5. /\ toServer' \in Seq(Requests) /\ Len(toServer') = Len(toServer) + 1
      /\ Len(toServer) \in Nat
      /\ \A i \in 1..Len(toServer) : toServer'[i] = toServer[i]
      /\ toServer'[Len(toServer) + 1] = m
  BY IInvParts, SentFacts, RequestsFacts
<1>6. ASSUME NEW i \in 1..(Len(toServer') - 1) PROVE toServer'[i].t = "close_statement"
  BY <1>3, <1>5
<1> QED BY <1>2, <1>4, <1>5, <1>6

\* A query or statement is sent, with nothing else to come.
LEMMA ExecuteIInv ==
  ASSUME IInv, Ready, NEW t \in {"query", "execute"}, Execute(t),
         UNCHANGED <<params, chan, auth, left, stmt, fields, wire, inbox, down, srv>>
  PROVE  IInv'
<1>1. app.commands \in Nat /\ app.commands < MaxCommands /\ MaxCommands \in Nat
  BY IInvParts, RecordFacts, ClientAssumption DEF Ready
<1>2. /\ rs' \in Resultsets /\ rs'.seq = 1 /\ rs'.meta = 0 /\ ~rs'.complete
  <2>1. 0 \in 0..MaxColumns
    BY ClientAssumption
  <2> QED BY <2>1, NextSeqnum DEF Execute, reset, Resultsets
<1>3. /\ app' \in Apps /\ app'.connected = app.connected /\ app'.rows = app.rows
      /\ app'.commands = app.commands + 1
  <2>1. app.commands + 1 \in 0..MaxCommands
    BY <1>1
  <2>2. <<>> \in Seq(RowData)
    BY EmptySeq
  <2> QED BY <2>1, <2>2, IInvParts DEF Types, Apps, Execute
<1>4. PICK m \in Requests :
         toServer' = Append(toServer, m) /\ m.seq = 0 /\ m.t = t /\ m.arg = app.commands + 1
  <2>1. chan.ssl \in BOOLEAN
    BY IInvParts, RecordFacts
  <2>2. [t |-> t, arg |-> app.commands + 1, seq |-> 0, ssl |-> chan.ssl] \in Requests
    BY <1>1, <2>1, NextSeqnum DEF Requests
  <2> QED BY <2>2 DEF Execute, Send, reset
<1>5. /\ TimedOutOK' /\ NoneYet' /\ PasswordOverSsl' /\ RequestsOK'
      /\ toServer' \in Seq(Requests) /\ Waiting({"query", "execute"})'
  BY <1>4, CommandSent DEF Waiting
<1>6. at' = "response" /\ last' = "none"
  BY DEF Execute
<1>7. Types'
  BY <1>2, <1>3, <1>5, <1>6, IInvParts DEF Types, Operations, Results
<1>8. app.connected /\ ~app.rows
  BY DEF Ready
<1>9. Always'
  BY <1>5, <1>6, <1>7, <1>8, InUse DEF Always, OpenOK
<1>10. ConnectedOK'
  BY <1>3, <1>6, <1>8, ConnectedKept DEF Handshaking, RowReads
<1>11. ResponseOK'
  BY <1>2, <1>5 DEF ResponseOK
<1> QED BY <1>6, <1>9, <1>10, <1>11, Assembled

\* So it is by execute_query, ...
LEMMA ExecuteQueryIInv ==
  ASSUME IInv, ExecuteQuery
  PROVE  IInv'
  BY ExecuteIInv DEF ExecuteQuery

\* ... and by execute_statement, if it sends anything.
LEMMA ExecuteStatementIInv ==
  ASSUME IInv, NEW n \in 0..MaxParams, ExecuteStatement(n)
  PROVE  IInv'
<1>1. CASE Execute("execute")
  BY <1>1, ExecuteIInv DEF ExecuteStatement
<1>2. CASE Complete("wrong_num_params") /\ UNCHANGED <<rs, app, toServer>>
  <2>1. UNCHANGED <<params, chan, auth, left, stmt, fields, wire, inbox, down, srv>> /\ at = "none"
    BY DEF ExecuteStatement, Ready
  <2>2. Types' /\ at' = at /\ Coming' = Coming
    BY <1>2, <2>1, IInvParts DEF Types, Complete, Results, Coming
  <2> QED BY <1>2, <2>1, <2>2, Same
<1> QED BY <1>1, <1>2 DEF ExecuteStatement

\* Reading an answer between commands and their ends.
LEMMA ReadFacts ==
  ASSUME IInv, at \notin Handshaking \cup {"none"}, Expected(Expecting), Take
  PROVE  /\ inbox # <<>> /\ Rest \in Nat /\ Rest >= 1 /\ Rest <= Len(Coming) /\ Len(Coming) \in Nat
         /\ Coming[1] = Head(inbox) /\ Head(inbox) \in Msgs /\ Coming[1].seq = Expecting
         /\ inbox' \in Seq(Msgs) /\ wire' = wire /\ srv' = srv /\ down' = down
         /\ Rest' = Rest - 1 /\ Len(Coming') = Len(Coming) - 1
         /\ \A i \in 1..Len(Coming') : Coming'[i] = Coming[i + 1]
         /\ app.connected /\ chan.open /\ srv.phase \in {"command", "closed"}
<1>1. app.connected
  BY IInvParts DEF ConnectedOK
<1>2. at \notin {"none", "ssl"}
  BY DEF Handshaking
<1> QED BY <1>1, <1>2, AnswerComes, InUse, IInvParts, TakeFacts, ComingFacts

\* The number that is expected next.
LEMMA NumbersTaken ==
  ASSUME IInv, inbox # <<>>, Take, NEW s \in SeqNum, NumbersFrom(s), Rest \in Nat, Rest >= 1
  PROVE  InOrder' /\ (Rest' >= 1 => Coming'[1].seq = next_seqnum(s))
  BY IInvParts, TakenInOrder DEF NumbersFrom

\* The answer to a query ends the operation or announces fields.
LEMMA ReadResponseIInv ==
  ASSUME IInv, ReadResponse
  PROVE  IInv'
<1> DEFINE m == Head(inbox)
<1>0. /\ at = "response" /\ Expected(rs.seq) /\ Take
      /\ UNCHANGED <<params, chan, auth, stmt, fields, toServer>>
      /\ rs'.seq = next_seqnum(rs.seq) /\ rs'.meta = rs.meta /\ rs' \in Resultsets
      /\ m.t # "ok" => rs'.complete = rs.complete
  <2>1. next_seqnum(rs.seq) \in SeqNum /\ rs \in Resultsets
    BY IInvParts, RecordFacts, NextSeqnum DEF Types
  <2> QED BY <2>1 DEF ReadResponse, Resultsets
<1>1. /\ inbox # <<>> /\ Rest \in Nat /\ Rest >= 1 /\ Rest <= Len(Coming) /\ Len(Coming) \in Nat
      /\ Coming[1] = m /\ m \in Msgs
      /\ inbox' \in Seq(Msgs) /\ wire' = wire /\ srv' = srv /\ down' = down
      /\ Rest' = Rest - 1 /\ Len(Coming') = Len(Coming) - 1
      /\ \A i \in 1..Len(Coming') : Coming'[i] = Coming[i + 1]
      /\ app.connected /\ chan.open /\ srv.phase \in {"command", "closed"}
  <2>1. Expecting = rs.seq /\ at \notin Handshaking \cup {"none"}
    BY <1>0 DEF Expecting, Handshaking
  <2> QED BY <1>0, <2>1, ReadFacts
<1>2. /\ rs.seq = 1 /\ rs.meta = 0 /\ ~rs.complete /\ Len(toServer) = 0 /\ NumbersFrom(1)
      /\ m.t \in {"ok", "err", "malformed", "num_fields"}
      /\ m.t \in {"ok", "err"} => Rest = 1
      /\ m.t = "num_fields" => ColumnsAt(2, m.arg + 1) /\ RowsAt(m.arg + 2)
  BY <1>0, <1>1, IInvParts DEF ResponseOK, Waiting
<1>3. ~app.rows /\ toServer' = toServer /\ toServer \in Seq(Requests)
  BY <1>0, IInvParts, TypesParts DEF ConnectedOK, RowReads
<1>4. CASE m.t = "ok" /\ Complete("ok") /\ UNCHANGED <<left, app>>
  <2>1. Types' /\ at' = "none"
    BY <1>0, <1>1, <1>4, IInvParts DEF Types, Complete, Operations, Results
  <2> QED BY <1>0, <1>1, <1>2, <1>3, <1>4, <2>1, EndsIdle
<1>5. CASE m.t \notin {"ok", "num_fields"} /\ Fail(Refusal(m)) /\ UNCHANGED left
  <2>1. Refusal(m) = IF m.t = "err" THEN "server_error" ELSE "protocol_value_error"
    BY DEF Refusal
  <2>2. /\ at' = "none" /\ last' = Refusal(m) /\ app' \in Apps /\ ~app'.rows
        /\ app'.connected <=> m.t = "err"
    BY <1>1, <1>5, <2>1, IInvParts, FailFacts DEF Results, Recoverable
  <2>3. Types'
    BY <1>0, <1>1, <1>5, <2>1, <2>2, IInvParts DEF Types, Operations, Results
  <2>4. CASE m.t = "err"
    BY <1>0, <1>1, <1>2, <1>3, <2>2, <2>3, <2>4, EndsIdle
  <2>5. CASE m.t # "err"
    BY <1>0, <1>1, <1>3, <2>2, <2>3, <2>5, GivesUp
  <2> QED BY <2>4, <2>5
<1>6. CASE m.t = "num_fields" /\ left' = m.arg /\ at' = "fields" /\ UNCHANGED <<last, app>>
  <2>1. m.arg \in Nat /\ m.arg >= 1 /\ m.arg <= MaxColumns
    BY <1>1, <1>6, MsgFacts, ClientAssumption
  <2>2. Types'
    BY <1>0, <1>1, <1>6, <2>1, IInvParts DEF Types, Operations
  <2>3. TimedOutOK' /\ NoneYet' /\ PasswordOverSsl' /\ RequestsOK'
    BY <1>0, <1>1, ClientKeeps
  <2>4. Always'
    BY <1>0, <1>1, <1>6, <2>2, <2>3 DEF Always, OpenOK
  <2>5. ConnectedOK'
    BY <1>0, <1>1, <1>3, <1>6, ConnectedKept DEF Handshaking, RowReads
  <2>6. InOrder' /\ (Rest' >= 1 => Coming'[1].seq = rs'.seq)
    BY <1>0, <1>1, <1>2, NumbersTaken, NextSeqnum
  <2>7. PICK c \in Nat : c = m.arg /\ c >= 1 /\ ColumnsAt(2, c + 1) /\ RowsAt(c + 2)
    BY <1>2, <1>6, <2>1
  <2>8. c + 2 <= Rest
    BY <2>7 DEF RowsAt
  <2>9. RowsAt(c + 1)'
    BY <1>0, <1>1, <2>7, <2>8, IInvParts, TakenRowsAt
  <2>10. ColumnsAt(1, c)'
    <3>1. ColumnsAt(1, (c + 1) - 1)'
      BY <1>0, <1>1, <2>7, <2>8, IInvParts, TakenColumnsAt
    <3>2. (c + 1) - 1 = c
      BY <2>7
    <3> QED BY <3>1, <3>2
  <2>11. left' = c /\ rs'.meta = 0 /\ ~rs'.complete
    BY <1>0, <1>2, <1>6, <2>7
  <2>12. FieldsOK'
    BY <1>2, <1>3, <2>1, <2>6, <2>7, <2>9, <2>10, <2>11
       DEF FieldsOK, NumbersFrom, ColumnsAt, RowsAt
  <2> QED BY <1>6, <2>4, <2>5, <2>12, Assembled
<1> QED BY <1>4, <1>5, <1>6 DEF ReadResponse

\* A field's definition is read; after the last one there are rows to come.
LEMMA ReadFieldIInv ==
  ASSUME IInv, ReadField
  PROVE  IInv'
<1> DEFINE m == Head(inbox)
<1>0. /\ at = "fields" /\ Expected(rs.seq) /\ Take
      /\ UNCHANGED <<params, chan, auth, stmt, fields, toServer>>
  BY DEF ReadField
<1>1. /\ inbox # <<>> /\ Rest \in Nat /\ Rest >= 1 /\ Rest <= Len(Coming) /\ Len(Coming) \in Nat
      /\ Coming[1] = m /\ m \in Msgs
      /\ inbox' \in Seq(Msgs) /\ wire' = wire /\ srv' = srv /\ down' = down
      /\ Rest' = Rest - 1 /\ Len(Coming') = Len(Coming) - 1
      /\ \A i \in 1..Len(Coming') : Coming'[i] = Coming[i + 1]
      /\ app.connected /\ chan.open /\ srv.phase \in {"command", "closed"}
  <2>1. Expecting = rs.seq /\ at \notin Handshaking \cup {"none"}
    BY <1>0 DEF Expecting, Handshaking
  <2> QED BY <1>0, <2>1, ReadFacts
<1>2. /\ Len(toServer) = 0 /\ NumbersFrom(rs.seq) /\ ~rs.complete
      /\ left >= 1 /\ rs.meta + left <= MaxColumns /\ left \in Nat
      /\ ColumnsAt(1, left) /\ RowsAt(left + 1)
  BY <1>0, IInvParts DEF FieldsOK, Types
<1>3. ~app.rows /\ toServer' = toServer /\ toServer \in Seq(Requests) /\ rs \in Resultsets
  BY <1>0, IInvParts, TypesParts DEF ConnectedOK, RowReads, Types
<1>4. next_seqnum(rs.seq) \in SeqNum /\ rs.seq \in SeqNum /\ rs.meta \in 0..MaxColumns
      /\ MaxColumns \in Nat
  BY IInvParts, RecordFacts, NextSeqnum, ClientAssumption
<1>5. CASE /\ m.t = "column"
           /\ rs' = [rs EXCEPT !.seq = next_seqnum(@), !.meta = @ + 1]
           /\ left' = left - 1
           /\ IF has_remaining(left') THEN UNCHANGED <<at, last, app>>
              ELSE Complete("ok") /\ app' = [app EXCEPT !.rows = TRUE]
  <2>1. /\ rs' \in Resultsets /\ rs'.seq = next_seqnum(rs.seq) /\ rs'.meta = rs.meta + 1
        /\ rs'.complete = rs.complete
    <3>1. rs.meta + 1 \in 0..MaxColumns
      BY <1>2, <1>4
    <3> QED BY <1>3, <1>4, <1>5, <3>1 DEF Resultsets
  <2>2. InOrder' /\ (Rest' >= 1 => Coming'[1].seq = rs'.seq)
    <3>1. PICK s \in SeqNum : s = rs.seq
      BY <1>4
    <3> QED BY <1>1, <1>0, <1>2, <2>1, <3>1, NumbersTaken
  <2>3. PICK n \in Nat : n = left /\ n >= 1 /\ ColumnsAt(1, n) /\ RowsAt(n + 1)
    BY <1>2
  <2>4. n + 1 <= Rest
    BY <2>3 DEF RowsAt
  <2>5. RowsAt(n)'
    BY <1>0, <1>1, <2>3, <2>4, IInvParts, TakenRowsAt
  <2>6. ColumnsAt(1, n - 1)'
    BY <1>0, <1>1, <2>3, <2>4, IInvParts, TakenColumnsAt
  <2>7. CASE left' # 0
    <3>1. UNCHANGED <<at, last, app>> /\ left' = n - 1 /\ left' \in Nat /\ left' >= 1
      BY <1>2, <1>5, <2>3, <2>7 DEF has_remaining
    <3>2. Types'
      BY <1>0, <1>1, <2>1, <3>1, IInvParts DEF Types
    <3>3. TimedOutOK' /\ NoneYet' /\ PasswordOverSsl' /\ RequestsOK'
      BY <1>0, <1>1, ClientKeeps
    <3>4. Always'
      BY <1>0, <1>1, <3>1, <3>2, <3>3 DEF Always, OpenOK
    <3>5. ConnectedOK'
      BY <1>0, <1>1, <1>3, <3>1, ConnectedKept DEF Handshaking, RowReads
    <3>6. RowsAt(left + 1)'
      <4>1. left' + 1 = n
        BY <3>1
      <4> QED BY <2>5, <4>1 DEF RowsAt
    <3>7. ColumnsAt(1, left)'
      BY <2>6, <3>1 DEF ColumnsAt
    <3>8. rs'.meta + left' <= MaxColumns
      BY <1>2, <1>4, <2>1, <2>3, <3>1
    <3>9. FieldsOK'
      BY <1>2, <1>3, <2>1, <2>2, <3>1, <3>6, <3>7, <3>8 DEF FieldsOK, NumbersFrom
    <3> QED BY <1>0, <3>1, <3>4, <3>5, <3>9, Assembled
  <2>8. CASE left' = 0
    <3>1. /\ at' = "none" /\ last' = "ok" /\ app' \in Apps /\ app'.rows /\ app'.connected
          /\ left' \in Nat /\ n = 1
      <4>1. at' = "none" /\ last' = "ok" /\ app' = [app EXCEPT !.rows = TRUE]
        BY <1>5, <2>8 DEF has_remaining, Complete
      <4>2. app' \in Apps /\ app'.rows /\ app'.connected
        BY <1>1, <4>1, IInvParts DEF Types, Apps
      <4>3. left' \in Nat /\ n = 1
        BY <1>5, <2>3, <2>8
      <4> QED BY <4>1, <4>2, <4>3
    <3>2. Types'
      BY <1>0, <1>1, <2>1, <3>1, IInvParts DEF Types, Operations, Results
    <3>3. TimedOutOK' /\ NoneYet' /\ PasswordOverSsl' /\ RequestsOK'
      BY <1>0, <1>1, ClientKeeps
    <3>4. Always'
      BY <1>0, <1>1, <3>1, <3>2, <3>3 DEF Always, OpenOK
    <3>5. ConnectedOK'
      BY <1>0, <1>1, <3>1, ConnectedKept DEF Handshaking, RowReads
    <3>6. RowsAt(1)'
      BY <2>5, <3>1
    <3>7. RowsOK' /\ IdleOK'
      BY <1>2, <1>3, <2>1, <2>2, <3>1, <3>6 DEF RowsOK, IdleOK, NumbersFrom
    <3> QED BY <3>1, <3>4, <3>5, <3>7, Assembled
  <2> QED BY <2>7, <2>8
<1>6. CASE /\ m.t # "column"
           /\ Fail("protocol_value_error")
           /\ rs' = [rs EXCEPT !.seq = next_seqnum(@)]
           /\ UNCHANGED left
  <2>1. rs' \in Resultsets
    BY <1>3, <1>4, <1>6 DEF Resultsets
  <2>2. /\ at' = "none" /\ last' = "protocol_value_error" /\ app' \in Apps /\ ~app'.rows
        /\ ~app'.connected
    BY <1>6, IInvParts, FailFacts DEF Results, Recoverable
  <2>3. Types'
    BY <1>0, <1>1, <1>6, <2>1, <2>2, IInvParts DEF Types, Operations, Results
  <2> QED BY <1>0, <1>1, <2>2, <2>3, GivesUp
<1> QED BY <1>5, <1>6 DEF ReadField

\* A statement is sent to be prepared, with nothing else to come.
LEMMA PrepareStatementIInv ==
  ASSUME IInv, PrepareStatement
  PROVE  IInv'
<1>0. /\ Ready /\ at' = "prepared" /\ last' = "none" /\ app.connected /\ ~app.rows
      /\ UNCHANGED <<params, auth, rs, left, stmt, fields, wire, inbox, down, srv>>
  BY DEF PrepareStatement, Ready
<1>1. /\ app' \in Apps /\ app'.connected = app.connected /\ app'.rows = app.rows
  <2>1. app.commands + 1 \in 0..MaxCommands
    BY IInvParts, RecordFacts, ClientAssumption DEF PrepareStatement, Ready
  <2> QED BY <2>1, IInvParts DEF Types, Apps, PrepareStatement
<1>2. /\ chan' \in Channels /\ chan'.seq = 1 /\ chan'.open = chan.open /\ chan'.ssl = chan.ssl
      /\ chan'.caps = chan.caps
  BY NextSeqnum, IInvParts DEF PrepareStatement, Types, Channels
<1>3. PICK m \in Requests : toServer' = Append(toServer, m) /\ m.seq = 0 /\ m.t = "prepare"
  <2>1. [t |-> "prepare", arg |-> <<>>, seq |-> 0, ssl |-> chan.ssl] \in Requests
    BY IInvParts, RecordFacts, NextSeqnum DEF Requests
  <2> QED BY <2>1 DEF PrepareStatement, Send
<1>4. /\ TimedOutOK' /\ NoneYet' /\ PasswordOverSsl' /\ RequestsOK'
      /\ toServer' \in Seq(Requests) /\ Waiting({"prepare"})'
  BY <1>0, <1>3, CommandSent DEF Waiting
<1>5. Types'
  BY <1>0, <1>1, <1>2, <1>4, IInvParts DEF Types, Operations, Results
<1>6. Always'
  BY <1>0, <1>2, <1>4, <1>5, InUse DEF Always, OpenOK
<1>7. ConnectedOK'
  BY <1>0, <1>1, <1>2, ConnectedKept DEF Handshaking, RowReads
<1>8. PreparedOK'
  BY <1>2, <1>4 DEF PreparedOK
<1> QED BY <1>0, <1>6, <1>7, <1>8, Assembled

\* The answer tells how many messages of metadata come, or is an error.
LEMMA ReadPreparedIInv ==
  ASSUME IInv, ReadPrepared
  PROVE  IInv'
<1> DEFINE m == Head(inbox)
<1>0. /\ at = "prepared" /\ Expected(chan.seq) /\ Take
      /\ UNCHANGED <<params, auth, rs, fields, toServer>>
  BY DEF ReadPrepared
<1>1. /\ inbox # <<>> /\ Rest \in Nat /\ Rest >= 1 /\ Rest <= Len(Coming) /\ Len(Coming) \in Nat
      /\ Coming[1] = m /\ m \in Msgs
      /\ inbox' \in Seq(Msgs) /\ wire' = wire /\ srv' = srv /\ down' = down
      /\ Rest' = Rest - 1 /\ Len(Coming') = Len(Coming) - 1
      /\ \A i \in 1..Len(Coming') : Coming'[i] = Coming[i + 1]
      /\ app.connected /\ chan.open /\ srv.phase \in {"command", "closed"}
  <2>1. Expecting = chan.seq /\ at \notin Handshaking \cup {"none"}
    BY <1>0 DEF Expecting, Handshaking
  <2> QED BY <1>0, <2>1, ReadFacts
<1>2. /\ chan.seq = 1 /\ Len(toServer) = 0 /\ NumbersFrom(1)
      /\ m.t \in {"err", "malformed", "prepare_ok"}
      /\ m.t = "err" => Rest = 1
      /\ m.t = "prepare_ok" => Rest = 1 + m.arg.columns + m.arg.params
  BY <1>0, <1>1, IInvParts DEF PreparedOK, Waiting
<1>3. ~app.rows /\ toServer' = toServer /\ toServer \in Seq(Requests)
  BY <1>0, IInvParts, TypesParts DEF ConnectedOK, RowReads
<1>4. /\ chan' \in Channels /\ chan'.seq = next_seqnum(1) /\ chan'.open = chan.open
      /\ chan'.ssl = chan.ssl /\ chan'.caps = chan.caps
  BY <1>2, NextSeqnum, IInvParts DEF ReadPrepared, Types, Channels
<1>5. CASE /\ m.t = "prepare_ok"
           /\ stmt' = [valid |-> TRUE, params |-> m.arg.params]
           /\ left' = remaining_meta(m.arg)
           /\ IF has_remaining(left') THEN at' = "meta" /\ UNCHANGED last ELSE Complete("ok")
           /\ UNCHANGED app
  <2>1. m.arg.columns \in Nat /\ m.arg.params \in 0..MaxParams /\ m.arg.params \in Nat
    BY <1>1, <1>5, MsgFacts
  <2>2. stmt' \in Statements /\ left' \in Nat /\ left' = Rest'
    <3>1. stmt' \in Statements
      BY <1>5, <2>1 DEF Statements
    <3>2. left' = m.arg.columns + m.arg.params
      BY <1>5 DEF remaining_meta
    <3>3. Rest = 1 + m.arg.columns + m.arg.params
      BY <1>2, <1>5
    <3>4. PICK c \in Nat, p \in Nat : c = m.arg.columns /\ p = m.arg.params
      BY <2>1
    <3>5. left' = c + p /\ Rest = 1 + c + p
      BY <3>2, <3>3, <3>4
    <3>6. left' \in Nat /\ left' = Rest - 1
      BY <3>5
    <3> QED BY <1>1, <3>1, <3>6
  <2>3. CASE left' # 0
    <3>1. at' = "meta" /\ UNCHANGED <<last, app>>
      BY <1>5, <2>3 DEF has_remaining
    <3>2. Types'
      BY <1>0, <1>1, <1>4, <2>2, <3>1, IInvParts DEF Types, Operations
    <3>3. TimedOutOK' /\ NoneYet' /\ PasswordOverSsl' /\ RequestsOK'
      BY <1>0, <1>1, ClientKeeps
    <3>4. Always'
      BY <1>1, <1>4, <3>1, <3>2, <3>3 DEF Always, OpenOK
    <3>5. ConnectedOK'
      BY <1>0, <1>1, <1>3, <1>4, <3>1, ConnectedKept DEF Handshaking, RowReads
    <3>6. InOrder' /\ (Rest' >= 1 => Coming'[1].seq = chan'.seq)
      BY <1>0, <1>1, <1>2, <1>4, NumbersTaken, NextSeqnum
    <3>7. MetaOK'
      BY <1>2, <1>3, <2>2, <2>3, <3>6 DEF MetaOK, NumbersFrom
    <3> QED BY <3>1, <3>4, <3>5, <3>7, Assembled
  <2>4. CASE left' = 0
    <3>1. at' = "none" /\ last' = "ok" /\ app' = app
      BY <1>5, <2>4 DEF has_remaining, Complete
    <3>2. Types'
      BY <1>0, <1>1, <1>4, <2>2, <3>1, IInvParts DEF Types, Operations, Results
    <3>3. Rest = 1
      BY <1>1, <2>2, <2>4
    <3> QED BY <1>0, <1>1, <1>2, <1>3, <1>4, <3>1, <3>2, <3>3, EndsIdle
  <2> QED BY <2>3, <2>4
<1>6. CASE /\ m.t # "prepare_ok"
           /\ Fail(Refusal(m))
           /\ stmt' \in IF m.t = "err" THEN {stmt} ELSE {stmt, [valid |-> TRUE, params |-> 0]}
           /\ UNCHANGED left
  <2>1. Refusal(m) = IF m.t = "err" THEN "server_error" ELSE "protocol_value_error"
    BY DEF Refusal
  <2>2. /\ at' = "none" /\ last' = Refusal(m) /\ app' \in Apps /\ ~app'.rows
        /\ app'.connected <=> m.t = "err"
    BY <1>1, <1>6, <2>1, IInvParts, FailFacts DEF Results, Recoverable
  <2>3. stmt' \in Statements
    <3>1. stmt' = stmt \/ stmt' = [valid |-> TRUE, params |-> 0]
      BY <1>6
    <3>2. stmt \in Statements
      BY IInvParts DEF Types
    <3>3. [valid |-> TRUE, params |-> 0] \in Statements
      BY ClientAssumption DEF Statements
    <3> QED BY <3>1, <3>2, <3>3
  <2>4. Types'
    BY <1>0, <1>1, <1>4, <1>6, <2>1, <2>2, <2>3, IInvParts DEF Types, Operations, Results
  <2>5. CASE m.t = "err"
    BY <1>0, <1>1, <1>2, <1>3, <1>4, <2>2, <2>4, <2>5, EndsIdle
  <2>6. CASE m.t # "err"
    BY <1>0, <1>1, <1>3, <2>2, <2>4, <2>6, GivesUp
  <2> QED BY <2>5, <2>6
<1> QED BY <1>5, <1>6 DEF ReadPrepared

\* A message of metadata is read; the last one ends the operation.
LEMMA ReadMetaIInv ==
  ASSUME IInv, ReadMeta
  PROVE  IInv'
<1>0. /\ at = "meta" /\ Expected(chan.seq) /\ Take /\ left' = left - 1
      /\ UNCHANGED <<params, auth, rs, stmt, fields, app, toServer>>
      /\ IF left' # 0 THEN UNCHANGED <<at, last>> ELSE Complete("ok")
  BY DEF ReadMeta, has_remaining
<1>1. /\ inbox # <<>> /\ Rest \in Nat /\ Rest >= 1 /\ Rest <= Len(Coming) /\ Len(Coming) \in Nat
      /\ inbox' \in Seq(Msgs) /\ wire' = wire /\ srv' = srv /\ down' = down
      /\ Rest' = Rest - 1
      /\ app.connected /\ chan.open /\ srv.phase \in {"command", "closed"}
  <2>1. Expecting = chan.seq /\ at \notin Handshaking \cup {"none"}
    BY <1>0 DEF Expecting, Handshaking
  <2> QED BY <1>0, <2>1, ReadFacts
<1>2. Len(toServer) = 0 /\ NumbersFrom(chan.seq) /\ left >= 1 /\ Rest = left /\ left' \in Nat
  BY <1>0, IInvParts DEF MetaOK, Types
<1>3. ~app.rows
  BY <1>0, IInvParts DEF ConnectedOK, RowReads
<1>4. /\ chan' \in Channels /\ chan'.seq = next_seqnum(chan.seq) /\ chan'.open = chan.open
      /\ chan'.ssl = chan.ssl /\ chan'.caps = chan.caps /\ chan.seq \in SeqNum
  <2>1. chan.seq \in SeqNum /\ next_seqnum(chan.seq) \in SeqNum
    BY IInvParts, RecordFacts, NextSeqnum
  <2> QED BY <2>1, IInvParts DEF ReadMeta, Types, Channels
<1>5. CASE left' # 0
  <2>1. UNCHANGED <<at, last>>
    BY <1>0, <1>5
  <2>2. Types'
    BY <1>0, <1>1, <1>2, <1>4, <2>1, IInvParts DEF Types
  <2>3. TimedOutOK' /\ NoneYet' /\ PasswordOverSsl' /\ RequestsOK'
    BY <1>0, <1>1, ClientKeeps
  <2>4. Always'
    BY <1>0, <1>1, <1>4, <2>1, <2>2, <2>3 DEF Always, OpenOK
  <2>5. ConnectedOK'
    BY <1>0, <1>1, <1>3, <1>4, <2>1, ConnectedKept DEF Handshaking, RowReads
  <2>6. InOrder' /\ (Rest' >= 1 => Coming'[1].seq = chan'.seq)
    <3>1. PICK s \in SeqNum : s = chan.seq
      BY <1>4
    <3> QED BY <1>0, <1>1, <1>2, <1>4, <3>1, NumbersTaken
  <2>7. MetaOK'
    BY <1>0, <1>1, <1>2, <1>5, <2>6 DEF MetaOK, NumbersFrom
  <2> QED BY <1>0, <2>1, <2>4, <2>5, <2>7, Assembled
<1>6. CASE left' = 0
  <2>1. at' = "none" /\ last' = "ok" /\ Rest = 1
    BY <1>0, <1>1, <1>2, <1>6 DEF Complete
  <2>2. Types'
    BY <1>0, <1>1, <1>2, <1>4, <2>1, IInvParts DEF Types, Operations, Results
  <2> QED BY <1>0, <1>1, <1>2, <1>3, <1>4, <2>1, <2>2, EndsIdle
<1> QED BY <1>5, <1>6

\* A statement is closed: a notice that needs no answer.
LEMMA CloseStatementIInv ==
  ASSUME IInv, CloseStatement
  PROVE  IInv'
<1>0. /\ Ready /\ at = "none" /\ app.connected /\ ~app.rows
      /\ UNCHANGED <<params, auth, rs, left, fields, wire, inbox, down, srv>>
  BY DEF CloseStatement, Ready
<1>1. /\ chan' \in Channels /\ chan'.open = chan.open /\ chan'.ssl = chan.ssl
      /\ chan'.caps = chan.caps
  BY NextSeqnum, IInvParts DEF CloseStatement, Types, Channels
<1>2. CASE /\ Send("close_statement", <<>>, 0)
           /\ stmt' = [stmt EXCEPT !.valid = FALSE]
           /\ Complete("ok")
           /\ app' = [app EXCEPT !.commands = @ + 1]
  <2>1. /\ app' \in Apps /\ app'.connected = app.connected /\ app'.rows = app.rows
    <3>1. app.commands + 1 \in 0..MaxCommands
      BY <1>0, IInvParts, RecordFacts, ClientAssumption DEF Ready
    <3> QED BY <1>2, <3>1, IInvParts DEF Types, Apps
  <2>2. stmt' \in Statements /\ at' = "none" /\ last' = "ok"
    BY <1>2, IInvParts DEF Types, Statements, Complete
  <2>3. PICK m \in Requests :
          toServer' = Append(toServer, m) /\ m.seq = 0 /\ m.t = "close_statement"
    <3>1. [t |-> "close_statement", arg |-> <<>>, seq |-> 0, ssl |-> chan.ssl] \in Requests
      BY IInvParts, RecordFacts, NextSeqnum DEF Requests
    <3> QED BY <1>2, <3>1 DEF Send
  <2>4. /\ TimedOutOK' /\ NoneYet' /\ PasswordOverSsl' /\ RequestsOK'
        /\ toServer' \in Seq(Requests) /\ Rest' = 0
        /\ Len(toServer') >= 1 /\ toServer'[Len(toServer')].t = "close_statement"
        /\ \A i \in 1..(Len(toServer') - 1) : toServer'[i].t = "close_statement"
    BY <1>0, <2>3, CommandSent
  <2>5. Types'
    BY <1>0, <1>1, <2>1, <2>2, <2>4, IInvParts DEF Types, Operations, Results
  <2>6. Always'
    BY <1>0, <1>1, <2>2, <2>4, <2>5, InUse DEF Always, OpenOK
  <2>7. ConnectedOK'
    BY <1>0, <1>1, <2>1, <2>2, ConnectedKept DEF Handshaking, RowReads
  <2>8. IdleOK' /\ RowsOK'
    <3>1. Len(toServer') \in Nat
      BY <2>4, LenProperties
    <3>2. \A i \in 1..Len(toServer') : toServer'[i].t = "close_statement"
      BY <2>4, <3>1
    <3> QED BY <1>0, <2>1, <2>4, <3>2 DEF IdleOK, RowsOK
  <2> QED BY <2>2, <2>6, <2>7, <2>8, Assembled
<1>3. CASE /\ stmt' \in {stmt, [stmt EXCEPT !.valid = FALSE]}
           /\ Fail("lost") /\ UNCHANGED toServer
  <2>1. at' = "none" /\ last' = "lost" /\ app' \in Apps /\ ~app'.rows /\ ~app'.connected
    BY <1>3, IInvParts, FailFacts DEF Results, Recoverable
  <2>4. stmt' \in Statements
    BY <1>3, IInvParts DEF Types, Statements
  <2>2. Types'
    BY <1>0, <1>1, <1>3, <2>1, <2>4, IInvParts DEF Types, Operations, Results
  <2>3. srv.phase \in {"command", "closed"}
    BY <1>0, InUse
  <2> QED BY <1>0, <1>3, <2>1, <2>2, <2>3, GivesUp
<1> QED BY <1>2, <1>3 DEF CloseStatement

-----------------------------------------------------------------------------
(* Rows, ends and failures.                                                   *)

\* A read of rows begins, or has nothing to do.
LEMMA ReadRowsIInv ==
  ASSUME IInv, NEW kind \in RowReads, ReadRows(kind)
  PROVE  IInv'
<1>0. /\ at = "none" /\ app.connected
      /\ UNCHANGED <<params, chan, auth, rs, left, stmt, app, toServer, wire, inbox, down, srv>>
  BY DEF ReadRows
<1>1. Coming' = Coming /\ Rest' = Rest
  BY <1>0 DEF Coming, Rest, Extra
<1>2. CASE app.rows /\ at' = kind /\ fields' = clear_shared_fields /\ last' = "none"
  <2>1. fields' \in Seq(RowData)
    BY <1>2, EmptySeq DEF clear_shared_fields
  <2>2. kind \in Operations /\ kind # "none" /\ kind \notin Handshaking
    BY DEF RowReads, Operations, Handshaking
  <2>3. Types'
    BY <1>0, <1>2, <2>1, <2>2, IInvParts DEF Types, Results
  <2>4. srv.phase # "none" /\ chan.open
    BY <1>0, InUse
  <2>5. TimedOutOK' /\ NoneYet' /\ PasswordOverSsl' /\ RequestsOK'
    BY <1>0, <2>4, ClientKeeps
  <2>6. Always'
    BY <1>0, <1>2, <2>2, <2>3, <2>4, <2>5 DEF Always, OpenOK
  <2>7. ConnectedOK'
    BY <1>0, <1>2, <2>2, ConnectedKept
  <2>8. RowsOK'
    BY <1>0, <1>1, <1>2, IInvParts DEF RowsOK, NumbersFrom, InOrder, RowsAt
  <2> QED BY <1>2, <2>6, <2>7, <2>8, Assembled
<1>3. CASE Complete("ok") /\ UNCHANGED fields
  <2>1. at' = at /\ Types'
    BY <1>0, <1>3, IInvParts DEF Complete, Types, Results
  <2> QED BY <1>0, <1>1, <2>1, Same
<1> QED BY <1>2, <1>3 DEF ReadRows

\* What an operation that hands rows over leaves.
LEMMA HandOverFacts ==
  ASSUME Types, NEW rows \in Seq(RowData), HandOver(rows), rs'.complete \in BOOLEAN
  PROVE  /\ at' = "none" /\ last' = "ok" /\ app' \in Apps
         /\ app'.connected = app.connected /\ app'.commands = app.commands
         /\ app'.got = app.got \o rows /\ (app'.rows <=> ~rs'.complete)
<1>1. app.got \o rows \in Seq(RowData)
  BY RecordFacts, ConcatProperties
<1>2. app' = [app EXCEPT !.got = app.got \o rows, !.rows = ~rs'.complete]
  BY DEF HandOver
<1>3. (~rs'.complete) \in BOOLEAN
  OBVIOUS
<1> QED BY <1>1, <1>2, <1>3 DEF Types, Apps, HandOver, Complete

\* What reads of rows start from.
LEMMA RowsFacts ==
  ASSUME IInv, at \in RowReads, Expected(rs.seq), Take
  PROVE  /\ inbox # <<>> /\ Rest \in Nat /\ Rest >= 1 /\ Rest <= Len(Coming) /\ Len(Coming) \in Nat
         /\ Coming[1] = Head(inbox) /\ Head(inbox) \in Msgs
         /\ inbox' \in Seq(Msgs) /\ wire' = wire /\ srv' = srv /\ down' = down
         /\ Rest' = Rest - 1 /\ Len(Coming') = Len(Coming) - 1
         /\ \A i \in 1..Len(Coming') : Coming'[i] = Coming[i + 1]
         /\ app.connected /\ chan.open /\ srv.phase \in {"command", "closed"}
         /\ app.rows /\ Len(toServer) = 0 /\ NumbersFrom(rs.seq) /\ RowsAt(1) /\ ~rs.complete
         /\ rs.seq \in SeqNum /\ next_seqnum(rs.seq) \in SeqNum
         /\ Head(inbox).t \notin {"row", "malformed"} => Rest = 1
         /\ Head(inbox).t = "row" => Rest >= 2
<1>1. Expecting = rs.seq /\ at \notin Handshaking \cup {"none"}
  BY DEF Expecting, Handshaking, RowReads
<1>2. /\ inbox # <<>> /\ Rest \in Nat /\ Rest >= 1 /\ Rest <= Len(Coming) /\ Len(Coming) \in Nat
      /\ Coming[1] = Head(inbox) /\ Head(inbox) \in Msgs
      /\ inbox' \in Seq(Msgs) /\ wire' = wire /\ srv' = srv /\ down' = down
      /\ Rest' = Rest - 1 /\ Len(Coming') = Len(Coming) - 1
      /\ \A i \in 1..Len(Coming') : Coming'[i] = Coming[i + 1]
      /\ app.connected /\ chan.open /\ srv.phase \in {"command", "closed"}
  BY <1>1, ReadFacts
<1>3. app.rows /\ Len(toServer) = 0 /\ NumbersFrom(rs.seq) /\ RowsAt(1) /\ ~rs.complete
  BY IInvParts DEF ConnectedOK, RowsOK
<1>4. rs.seq \in SeqNum /\ next_seqnum(rs.seq) \in SeqNum
  BY IInvParts, RecordFacts, NextSeqnum
<1>5. ASSUME Rest >= 2 PROVE Head(inbox).t \in {"row", "malformed"}
  BY <1>2, <1>3, <1>5 DEF RowsAt
<1>6. ASSUME Rest = 1 PROVE Head(inbox).t # "row"
  BY <1>2, <1>3, <1>6 DEF RowsAt
<1> QED BY <1>2, <1>3, <1>4, <1>5, <1>6

\* A row is read; the end of the result is still to come.
LEMMA ReadRowIInv ==
  ASSUME IInv, ReadRow
  PROVE  IInv'
<1> DEFINE m == Head(inbox)
<1>0. /\ at \in RowReads /\ Expected(rs.seq) /\ m.t = "row" /\ Take
      /\ UNCHANGED <<params, chan, auth, left, stmt, toServer>>
      /\ rs' = [rs EXCEPT !.seq = next_seqnum(@)]
      /\ fields' = Append(fields, m.arg)
      /\ HandOver(fields') \/ UNCHANGED <<at, last, app>>
  BY DEF ReadRow, RowReads
<1>1. /\ inbox # <<>> /\ Rest \in Nat /\ Rest <= Len(Coming) /\ Len(Coming) \in Nat
      /\ Coming[1] = m /\ m \in Msgs
      /\ inbox' \in Seq(Msgs) /\ wire' = wire /\ srv' = srv /\ down' = down
      /\ Rest' = Rest - 1 /\ Rest >= 2
      /\ app.connected /\ chan.open /\ srv.phase \in {"command", "closed"}
      /\ app.rows /\ Len(toServer) = 0 /\ NumbersFrom(rs.seq) /\ RowsAt(1) /\ ~rs.complete
      /\ rs.seq \in SeqNum /\ next_seqnum(rs.seq) \in SeqNum
  BY <1>0, RowsFacts
<1>2. /\ rs' \in Resultsets /\ rs'.seq = next_seqnum(rs.seq) /\ rs'.complete = rs.complete
      /\ rs'.complete \in BOOLEAN
  BY <1>0, <1>1, IInvParts DEF Types, Resultsets
<1>3. fields' \in Seq(RowData)
  <2>1. m.arg \in RowData
    BY <1>0, <1>1, MsgFacts
  <2> QED BY <1>0, <2>1, IInvParts, AppendProperties DEF Types
<1>4. /\ at' \in RowReads \cup {"none"} /\ last' \in Results /\ app' \in Apps
      /\ app'.connected /\ app'.rows
  <2>1. CASE HandOver(fields')
    BY <1>1, <1>2, <1>3, <2>1, IInvParts, HandOverFacts DEF Results
  <2>2. CASE UNCHANGED <<at, last, app>>
    BY <1>0, <1>1, <2>2, IInvParts DEF Types
  <2> QED BY <1>0, <2>1, <2>2
<1>5. Types'
  <2>1. at' \in Operations
    BY <1>4 DEF RowReads, Operations
  <2> QED BY <1>0, <1>1, <1>2, <1>3, <1>4, <2>1, IInvParts DEF Types
<1>6. TimedOutOK' /\ NoneYet' /\ PasswordOverSsl' /\ RequestsOK'
  BY <1>0, <1>1, ClientKeeps
<1>7. Always'
  BY <1>0, <1>1, <1>5, <1>6 DEF Always, OpenOK
<1>8. ConnectedOK'
  BY <1>0, <1>1, <1>4, ConnectedKept DEF Handshaking, RowReads
<1>9. InOrder' /\ (Rest' >= 1 => Coming'[1].seq = rs'.seq)
  <2>1. PICK s \in SeqNum : s = rs.seq
    BY <1>1
  <2> QED BY <1>0, <1>1, <1>2, <2>1, NumbersTaken
<1>10. RowsAt(1)'
  BY <1>0, <1>1, IInvParts, TakenRowsAt, SMTT(30)
<1>11. RowsOK'
  BY <1>0, <1>1, <1>2, <1>9, <1>10 DEF RowsOK, NumbersFrom
<1>12. IdleOK'
  BY <1>4 DEF IdleOK
<1> QED BY <1>4, <1>7, <1>8, <1>11, <1>12, Assembled

\* The last message of a result is read: nothing is to come.
LEMMA ReadEndIInv ==
  ASSUME IInv, ReadEnd
  PROVE  IInv'
<1> DEFINE m == Head(inbox)
<1>0. /\ at \in RowReads /\ Expected(rs.seq) /\ m.t # "row" /\ Take
      /\ UNCHANGED <<params, chan, auth, left, stmt, fields, toServer>>
  BY DEF ReadEnd, RowReads
<1>1. /\ inbox # <<>> /\ Rest \in Nat /\ Rest <= Len(Coming) /\ Len(Coming) \in Nat /\ Rest >= 1
      /\ Coming[1] = m /\ m \in Msgs
      /\ inbox' \in Seq(Msgs) /\ wire' = wire /\ srv' = srv /\ down' = down
      /\ Rest' = Rest - 1
      /\ app.connected /\ chan.open /\ srv.phase \in {"command", "closed"}
      /\ Len(toServer) = 0 /\ next_seqnum(rs.seq) \in SeqNum
      /\ m.t \notin {"row", "malformed"} => Rest = 1
  BY <1>0, RowsFacts
<1>2. CASE /\ m.t = "eof"
           /\ rs' = [rs EXCEPT !.seq = next_seqnum(@), !.complete = TRUE]
           /\ HandOver(fields)
  <2>1. rs' \in Resultsets /\ rs'.complete = TRUE
    BY <1>1, <1>2, IInvParts DEF Types, Resultsets
  <2>2. fields \in Seq(RowData)
    BY IInvParts DEF Types
  <2>3. /\ at' = "none" /\ last' = "ok" /\ app' \in Apps
        /\ app'.connected = app.connected /\ ~app'.rows
    BY <1>2, <2>1, <2>2, IInvParts, HandOverFacts
  <2>4. Types'
    BY <1>0, <1>1, <2>1, <2>3, IInvParts DEF Types, Operations, Results
  <2> QED BY <1>0, <1>1, <1>2, <2>3, <2>4, EndsIdle
<1>3. CASE /\ m.t # "eof"
           /\ rs' = [rs EXCEPT !.seq = next_seqnum(@)]
           /\ Fail(Refusal(m))
  <2>1. Refusal(m) = IF m.t = "err" THEN "server_error" ELSE "protocol_value_error"
    BY DEF Refusal
  <2>2. /\ at' = "none" /\ last' = Refusal(m) /\ app' \in Apps /\ ~app'.rows
        /\ app'.connected <=> m.t = "err"
    BY <1>1, <1>3, <2>1, IInvParts, FailFacts DEF Results, Recoverable
  <2>3. rs' \in Resultsets
    BY <1>1, <1>3, IInvParts DEF Types, Resultsets
  <2>4. Types'
    BY <1>0, <1>1, <2>1, <2>2, <2>3, IInvParts DEF Types, Operations, Results
  <2>5. CASE m.t = "err"
    BY <1>0, <1>1, <2>2, <2>4, <2>5, EndsIdle
  <2>6. CASE m.t # "err"
    BY <1>0, <1>1, <2>2, <2>4, <2>6, GivesUp
  <2> QED BY <2>5, <2>6
<1> QED BY <1>2, <1>3 DEF ReadEnd

\* The connection is closed, with or without a quit.
LEMMA CloseConnectionIInv ==
  ASSUME IInv, CloseConnection
  PROVE  IInv'
<1>0. /\ at = "none" /\ chan.open /\ at' = "none" /\ last' \in Results
      /\ UNCHANGED <<params, at, auth, rs, left, stmt, fields, wire, inbox, down, srv>>
      /\ chan' = [chan EXCEPT !.open = FALSE, !.seq = next_seqnum(0)]
      /\ app' = [app EXCEPT !.connected = FALSE, !.rows = FALSE]
  BY DEF CloseConnection, Results
<1>1. /\ chan' \in Channels /\ ~chan'.open
      /\ app' \in Apps /\ ~app'.connected /\ ~app'.rows
  BY <1>0, NextSeqnum, IInvParts DEF Types, Channels, Apps
<1>2. srv.phase \in {"command", "closed"}
  BY <1>0, IInvParts DEF OpenOK
<1>3. CASE Send("quit", <<>>, 0)
  <2>1. PICK m \in Requests : toServer' = Append(toServer, m) /\ m.seq = 0 /\ m.t = "quit"
    <3>1. [t |-> "quit", arg |-> <<>>, seq |-> 0, ssl |-> chan.ssl] \in Requests
      BY IInvParts, RecordFacts, NextSeqnum DEF Requests
    <3> QED BY <1>3, <3>1 DEF Send
  <2>2. TimedOutOK' /\ NoneYet' /\ PasswordOverSsl' /\ RequestsOK'
    BY <1>0, <1>2, <2>1, ClientSends
  <2>3. toServer' \in Seq(Requests)
    BY <2>1, IInvParts, SentFacts
  <2>4. Types'
    BY <1>0, <1>1, <2>3, IInvParts DEF Types
  <2>5. Always'
    BY <1>0, <1>1, <2>2, <2>4 DEF Always, OpenOK
  <2> QED BY <1>0, <1>1, <2>5, Assembled
<1>4. CASE UNCHANGED toServer
  <2>1. Types'
    BY <1>0, <1>1, <1>4, IInvParts DEF Types
  <2> QED BY <1>0, <1>1, <1>2, <1>4, <2>1, GivesUp
<1> QED BY <1>3, <1>4 DEF CloseConnection

\* An operation that ends with no message taken.
LEMMA BreaksOff ==
  ASSUME IInv, at # "none", NEW error \in Results \ Recoverable, Fail(error),
         chan' = [chan EXCEPT !.open = @ /\ at \notin Handshaking], auth' = NoAuth,
         UNCHANGED <<params, rs, left, stmt, fields, toServer, wire, inbox, down, srv>>
  PROVE  IInv'
<1>1. /\ at' = "none" /\ last' = error /\ app' \in Apps /\ ~app'.rows /\ ~app'.connected
  BY IInvParts, FailFacts
<1>2. chan' \in Channels /\ (chan'.open => at \notin Handshaking)
  BY IInvParts DEF Types, Channels
<1>3. auth' \in Auths
  BY DEF NoAuth, Auths, Responses
<1>4. Types'
  BY <1>1, <1>2, <1>3, IInvParts DEF Types, Operations
<1>5. chan'.open => srv.phase \in {"command", "closed"}
  BY <1>2, OpenAfterwards
<1>6. srv.phase # "none"
  BY Begun
<1> QED BY <1>1, <1>4, <1>5, <1>6, GivesUp

\* A read finds a wrong number, ...
LEMMA SeqnumMismatchIInv == IInv /\ SeqnumMismatch => IInv'
  BY BreaksOff DEF SeqnumMismatch, Results, Recoverable

\* ... or the connection lost.
LEMMA OperationFailsIInv == IInv /\ OperationFails => IInv'
  BY BreaksOff DEF OperationFails, Results, Recoverable

\* Messages arrive in the buffer.
LEMMA ArriveIInv == IInv /\ Arrive => IInv'
<1> SUFFICES ASSUME IInv, Arrive PROVE IInv'
  OBVIOUS
<1>1. UNCHANGED <<params, at, last, chan, auth, rs, left, stmt, fields, app, toServer, down, srv>>
  BY DEF Arrive
<1>2. inbox' \in Seq(Msgs) /\ wire' \in Seq(Msgs) /\ Coming' = Coming
  BY IInvParts, ArriveFacts
<1>3. Types'
  BY <1>1, <1>2, IInvParts DEF Types
<1> QED BY <1>1, <1>2, <1>3, Same

\* The connection is lost.
LEMMA LoseIInv == IInv /\ Lose => IInv'
<1> SUFFICES ASSUME IInv, Lose PROVE IInv'
  OBVIOUS
<1>1. /\ UNCHANGED <<params, at, last, chan, auth, rs, left, stmt, fields, app,
                     toServer, wire, inbox, srv>>
      /\ down'
  BY DEF Lose
<1>2. Types' /\ Coming' = Coming
  BY <1>1, IInvParts DEF Lose, Types, Coming
<1> QED BY <1>1, <1>2, Same

-----------------------------------------------------------------------------
(* The server's steps.                                                        *)

\* The server greets a client that waits for it, or one that is gone.
LEMMA ServerGreetsIInv ==
  ASSUME IInv, ServerGreets
  PROVE  IInv'
<1>0. /\ srv.phase = "accept"
      /\ UNCHANGED <<params, at, last, chan, auth, rs, left, stmt, fields, app, toServer, inbox, down>>
  BY DEF ServerGreets, clientVars
<1>1. srv.timedout = FALSE /\ srv.timedout \in BOOLEAN
  BY <1>0, IInvParts, RecordFacts DEF TimedOutOK
<1>2. ~app.connected /\ ~app.rows /\ at \in {"none", "greeting"}
  <2>1. ~app.connected /\ ~app.rows
    BY <1>0, <1>1, IInvParts DEF ConnectedOK
  <2>2. at \in Handshaking \cup {"none"}
    BY <2>1, IInvParts DEF ConnectedOK
  <2>3. at # "ssl"
    BY <1>0, IInvParts DEF SslOK
  <2>4. at # "auth"
    BY <1>0, <1>1, IInvParts DEF AuthOK
  <2> QED BY <2>1, <2>2, <2>3, <2>4 DEF Handshaking
<1>3. Len(toServer) = 0 /\ (at = "none" => ~chan.open) /\ (at # "none" => chan.open)
  BY <1>0, IInvParts DEF RequestsOK, OpenOK
<1>4. PICK msg \in Msgs :
         /\ wire' = <<msg>> /\ msg.seq = 0 /\ srv' \in Servers /\ srv'.timedout = FALSE
         /\ \/ msg.t = "greeting" /\ srv'.phase = "auth" /\ srv'.seq = next_seqnum(0)
            \/ msg.t \in {"err", "malformed"} /\ srv'.phase = "closed"
  <2>1. ASSUME NEW caps \in ServerCaps, NEW plugin \in Plugins,
               wire' = <<Msg("greeting", [caps |-> caps, plugin |-> plugin])>>,
               srv' = [srv EXCEPT !.phase = "auth", !.seq = next_seqnum(0)]
        PROVE  \E msg \in Msgs :
                 /\ wire' = <<msg>> /\ msg.seq = 0 /\ srv' \in Servers /\ srv'.timedout = FALSE
                 /\ msg.t = "greeting" /\ srv'.phase = "auth" /\ srv'.seq = next_seqnum(0)
    <3>1. /\ srv' \in Servers /\ srv'.timedout = FALSE
          /\ srv'.phase = "auth" /\ srv'.seq = next_seqnum(0)
      BY <1>1, <2>1, NextSeqnum, IInvParts DEF Types, Servers
    <3>2. Msg("greeting", [caps |-> caps, plugin |-> plugin]) \in Msgs
      BY MsgsAre
    <3>3. /\ Msg("greeting", [caps |-> caps, plugin |-> plugin]).seq = 0
          /\ Msg("greeting", [caps |-> caps, plugin |-> plugin]).t = "greeting"
      BY DEF Msg
    <3> QED BY <2>1, <3>1, <3>2, <3>3
  <2>2. ASSUME NEW t \in {"err", "malformed"},
               wire' = <<Msg(t, <<>>)>>, srv' = [srv EXCEPT !.phase = "closed"]
        PROVE  \E msg \in Msgs :
                 /\ wire' = <<msg>> /\ msg.seq = 0 /\ srv' \in Servers /\ srv'.timedout = FALSE
                 /\ msg.t \in {"err", "malformed"} /\ srv'.phase = "closed"
    <3>1. srv' \in Servers /\ srv'.timedout = FALSE /\ srv'.phase = "closed"
      BY <1>1, <2>2, IInvParts DEF Types, Servers
    <3>2. Msg(t, <<>>) \in Msgs
      BY MsgsAre
    <3>3. Msg(t, <<>>).seq = 0 /\ Msg(t, <<>>).t = t
      BY DEF Msg
    <3> QED BY <2>2, <3>1, <3>2, <3>3
  <2> QED BY <2>1, <2>2 DEF ServerGreets, Plugins
<1>5. wire' \in Seq(Msgs) /\ Len(wire') = 1 /\ wire'[1] = msg
  BY <1>4, Single
<1>6. Types'
  BY <1>0, <1>4, <1>5, IInvParts DEF Types
<1>7. TimedOutOK' /\ NoneYet' /\ PasswordOverSsl'
  BY <1>0, <1>4, IInvParts DEF TimedOutOK, NoneYet, PasswordOverSsl
<1>8. RequestsOK' /\ OpenOK'
  BY <1>0, <1>3, <1>4, IInvParts, RequestsFacts DEF RequestsOK, OpenOK
<1>9. Always'
  BY <1>6, <1>7, <1>8 DEF Always
<1>10. CASE at = "none"
  BY <1>0, <1>2, <1>9, <1>10, Assembled
<1>11. CASE at = "greeting"
  <2>1. Len(Coming) = 0 /\ chan.seq = 0 /\ ~chan.ssl
    BY <1>0, <1>11, IInvParts DEF GreetingOK
  <2>2. inbox = <<>>
    <3>1. Len(inbox) \in Nat /\ Len(wire) \in Nat /\ Len(inbox) + Len(wire) = 0
      BY <2>1, IInvParts, ComingFacts, LenProperties DEF Types
    <3>2. Len(inbox) = 0
      BY <3>1
    <3> QED BY <3>2, IInvParts, EmptySeq DEF Types
  <2>3. Coming' = wire'
    BY <1>0, <1>5, <2>2, ConcatEmptySeq DEF Coming
  <2>4. Len(Coming') = 1 /\ Coming'[1] = msg
    BY <1>5, <2>3
  <2>5. GreetingOK'
    BY <1>0, <1>3, <1>4, <2>1, <2>4 DEF GreetingOK
  <2>6. ConnectedOK'
    BY <1>0, <1>2, <1>11 DEF ConnectedOK, Handshaking, RowReads
  <2> QED BY <1>0, <1>9, <1>11, <2>5, <2>6, Assembled
<1> QED BY <1>2, <1>10, <1>11

\* A request is taken: the others move up.
LEMMA TakenRequest ==
  ASSUME IInv, toServer # <<>>, toServer' = Tail(toServer), params' = params
  PROVE  /\ toServer' \in Seq(Requests) /\ Len(toServer) \in Nat /\ Len(toServer) >= 1
         /\ Len(toServer') = Len(toServer) - 1
         /\ \A i \in 1..Len(toServer') : toServer'[i] = toServer[i + 1]
         /\ Head(toServer) = toServer[1] /\ Head(toServer) \in Requests
         /\ PasswordOverSsl'
<1>1. /\ toServer' \in Seq(Requests) /\ Len(toServer) \in Nat /\ Len(toServer) # 0
      /\ Len(toServer') = Len(toServer) - 1
      /\ \A i \in 1..Len(toServer') : toServer'[i] = toServer[i + 1]
      /\ Head(toServer) = toServer[1] /\ Head(toServer) \in Requests
  BY IInvParts, RequestsFacts
<1>2. /\ DOMAIN toServer = 1..Len(toServer) /\ DOMAIN toServer' = 1..Len(toServer')
  BY <1>1, IInvParts, LenProperties DEF Types
<1>3. PasswordOverSsl'
  <2> SUFFICES ASSUME NEW i \in DOMAIN toServer',
                      toServer'[i].t \in {"response", "auth_data"}
               PROVE  /\ toServer'[i].arg.auth = "password" => toServer'[i].ssl
                      /\ params'.ssl = "require" => toServer'[i].ssl
    BY DEF PasswordOverSsl
  <2>1. i + 1 \in DOMAIN toServer /\ toServer'[i] = toServer[i + 1]
    BY <1>1, <1>2
  <2> QED BY <2>1, IInvParts DEF PasswordOverSsl
<1> QED BY <1>1, <1>3

\* A server in the handshake deals with the one request of a client that is
\* gone, or that waits for its answer.
LEMMA AuthenticatesParts ==
  ASSUME IInv, srv.phase \in {"auth", "tls"}, toServer # <<>>
  PROVE  /\ srv.timedout = FALSE /\ ~app.connected /\ ~app.rows
         /\ Len(toServer) = 1 /\ toServer[1].seq = srv.seq
         /\ \/ at = "none" /\ ~chan.open
            \/ /\ at = "ssl" /\ chan.open /\ "ssl" \in auth.caps /\ ~chan.ssl /\ Len(Coming) = 0
               /\ chan.seq = next_seqnum(srv.seq) /\ toServer[1].t = "ssl_request"
            \/ /\ at = "auth" /\ chan.open /\ (chan.ssl <=> "ssl" \in auth.caps)
               /\ Len(Coming) = 0 /\ chan.seq = next_seqnum(srv.seq)
               /\ toServer[1].t \in {"response", "auth_data"}
               /\ toServer[1].t = "response" => toServer[1].arg.caps = auth.caps
               /\ toServer[1].t = "auth_data" => srv.caps = auth.caps
<1>1. srv.timedout = FALSE
  BY IInvParts, RecordFacts DEF TimedOutOK
<1>2. Len(toServer) \in Nat /\ Len(toServer) # 0
  BY IInvParts, RequestsFacts
<1>3. Len(toServer) = 1 /\ toServer[1].seq = srv.seq
  <2>1. Len(toServer) <= 1 /\ \A i \in 1..Len(toServer) : toServer[i].seq = srv.seq
    BY IInvParts DEF RequestsOK
  <2>8. PICK n \in Nat : n = Len(toServer) /\ n # 0 /\ n <= 1
    BY <1>2, <2>1, Zenon
  <2>9. n = 1
    BY <2>8
  <2>2. Len(toServer) = 1
    BY <2>8, <2>9
  <2>3. 1 \in 1..Len(toServer)
    BY <2>2
  <2> QED BY <2>1, <2>2, <2>3
<1>4. ~app.connected /\ ~app.rows /\ at \in Handshaking \cup {"none"}
  BY <1>1, IInvParts DEF ConnectedOK
<1>5. at # "greeting"
  BY <1>3, IInvParts DEF GreetingOK
<1>6. at = "none" => ~chan.open
  BY IInvParts DEF OpenOK
<1>7. at # "none" => chan.open
  BY IInvParts DEF OpenOK
<1>8. at = "ssl" => /\ "ssl" \in auth.caps /\ ~chan.ssl /\ Len(Coming) = 0
                    /\ chan.seq = next_seqnum(srv.seq) /\ toServer[1].t = "ssl_request"
  BY <1>3, IInvParts DEF SslOK
<1>9. at = "auth" =>
        /\ (chan.ssl <=> "ssl" \in auth.caps) /\ Len(Coming) = 0
        /\ chan.seq = next_seqnum(srv.seq) /\ toServer[1].t \in {"response", "auth_data"}
        /\ toServer[1].t = "response" => toServer[1].arg.caps = auth.caps
        /\ toServer[1].t = "auth_data" => srv.caps = auth.caps
  BY <1>1, <1>3, IInvParts DEF AuthOK
<1> QED BY <1>1, <1>3, <1>4, <1>5, <1>6, <1>7, <1>8, <1>9 DEF Handshaking

\* The server turns to SSL, accepts, refuses or asks; its answer begins with the
\* number the client expects.
LEMMA ServerAuthenticatesIInv ==
  ASSUME IInv, srv.phase \in {"auth", "tls"}, toServer # <<>>,
         ServerAuthenticates(Head(toServer)), toServer' = Tail(toServer),
         UNCHANGED <<params, at, last, chan, auth, rs, left, stmt, fields, app, inbox, down>>
  PROVE  IInv'
<1>1. PICK m \in Requests : m = Head(toServer) /\ m = toServer[1]
  BY TakenRequest
<1>2. /\ srv.timedout = FALSE /\ ~app.connected /\ ~app.rows /\ m.seq = srv.seq
      /\ m.seq \in SeqNum /\ srv.caps \in SUBSET Caps
      /\ toServer' \in Seq(Requests) /\ Len(toServer') = 0 /\ PasswordOverSsl'
  <2>1. srv.timedout = FALSE /\ ~app.connected /\ ~app.rows /\ m.seq = srv.seq /\ Len(toServer) = 1
    BY <1>1, AuthenticatesParts
  <2>2. m.seq \in SeqNum /\ srv.caps \in SUBSET Caps
    BY RequestFacts, IInvParts, RecordFacts
  <2>3. /\ toServer' \in Seq(Requests) /\ Len(toServer') = Len(toServer) - 1 /\ PasswordOverSsl'
    BY TakenRequest
  <2> QED BY <2>1, <2>2, <2>3
<1>3. \/ at = "none" /\ ~chan.open
      \/ /\ at = "ssl" /\ chan.open /\ "ssl" \in auth.caps /\ ~chan.ssl /\ Len(Coming) = 0
         /\ chan.seq = next_seqnum(srv.seq) /\ m.t = "ssl_request"
      \/ /\ at = "auth" /\ chan.open /\ (chan.ssl <=> "ssl" \in auth.caps)
         /\ Len(Coming) = 0 /\ chan.seq = next_seqnum(srv.seq)
         /\ m.t \in {"response", "auth_data"}
         /\ m.t = "response" => m.arg.caps = auth.caps
         /\ m.t = "auth_data" => srv.caps = auth.caps
  BY <1>1, AuthenticatesParts
<1>4. ConnectedOK' \/ at = "none"
  BY <1>2, <1>3 DEF ConnectedOK, Handshaking, RowReads
<1>5. ASSUME srv' \in Servers, wire' \in Seq(Msgs), srv'.timedout = FALSE,
             srv'.phase \in {"auth", "tls", "command", "closed"},
             srv'.phase = "command" => srv'.seq = 0
      PROVE  Always' /\ (at = "none" => IInv')
  <2>1. Types'
    BY <1>2, <1>5, IInvParts DEF Types
  <2>2. TimedOutOK' /\ NoneYet' /\ RequestsOK'
    BY <1>2, <1>5 DEF TimedOutOK, NoneYet, RequestsOK
  <2>3. OpenOK'
    BY <1>3 DEF OpenOK
  <2>4. Always'
    BY <1>2, <2>1, <2>2, <2>3 DEF Always
  <2> QED BY <1>2, <2>4, Assembled
<1>6. CASE /\ m.t = "ssl_request"
           /\ srv' = [srv EXCEPT !.phase = "tls", !.seq = next_seqnum(@)]
           /\ UNCHANGED wire
  <2>1. /\ srv' \in Servers /\ srv'.timedout = FALSE /\ srv'.phase = "tls"
        /\ srv'.seq = next_seqnum(srv.seq)
    BY <1>2, <1>6, NextSeqnum, IInvParts DEF Types, Servers
  <2>2. Always' /\ (at = "none" => IInv')
    BY <1>5, <1>6, <2>1, IInvParts DEF Types
  <2>3. CASE at = "ssl"
    <3>1. Coming' = Coming
      BY <1>6 DEF Coming
    <3>2. SslOK'
      BY <1>2, <1>3, <2>1, <2>3, <3>1 DEF SslOK
    <3>3. NegotiatedOK'
      BY IInvParts DEF NegotiatedOK
    <3> QED BY <1>4, <2>2, <2>3, <3>2, <3>3, Assembled
  <2> QED BY <1>3, <1>6, <2>2, <2>3
<1>7. ASSUME NEW a \in Seq(Msgs), wire' = wire \o Numbered(a, m.seq), Len(a) >= 1
      PROVE  /\ wire' \in Seq(Msgs)
             /\ at = "auth" =>
                  /\ Len(Coming') = Len(a)
                  /\ \A i \in 1..Len(a) : Coming'[i].t = a[i].t /\ Coming'[i].arg = a[i].arg
                  /\ Coming'[1].seq = chan.seq
                  /\ Len(a) >= 2 => Coming'[2].seq = next_seqnum(chan.seq)
  <2>1. PICK b \in Seq(Msgs) : b = Numbered(a, m.seq)
    BY <1>2, NumberedFacts
  <2>2. /\ Len(b) = Len(a) /\ Len(a) \in Nat
        /\ \A i \in 1..Len(a) : b[i].t = a[i].t /\ b[i].arg = a[i].arg
        /\ b[1].seq = next_seqnum(m.seq)
        /\ \A i \in 1..(Len(a) - 1) : b[i + 1].seq = next_seqnum(b[i].seq)
    BY <1>2, <1>7, <2>1, NumberedFacts, NumberedInOrder, LenProperties
  <2>3. /\ wire' \in Seq(Msgs) /\ Len(Coming') = Len(Coming) + Len(b)
        /\ \A i \in 1..Len(b) : Coming'[Len(Coming) + i] = b[i]
    BY <1>7, <2>1, IInvParts, ServerSends
  <2>4. at = "auth" => /\ Len(Coming') = Len(a) /\ \A i \in 1..Len(a) : Coming'[i] = b[i]
    BY <1>3, <2>2, <2>3
  <2>5. b[1].seq = next_seqnum(m.seq) /\ (Len(a) >= 2 => b[2].seq = next_seqnum(b[1].seq))
    <3>1. Len(a) >= 2 => 1 \in 1..(Len(a) - 1)
      BY <2>2
    <3> QED BY <2>2, <3>1
  <2>6. at = "auth" => chan.seq = next_seqnum(m.seq)
    BY <1>2, <1>3
  <2> QED BY <1>7, <2>2, <2>3, <2>4, <2>5, <2>6, SMTT(30)
<1>8. ASSUME m.t \in {"response", "auth_data"}, at = "auth", Always', AuthOK'
      PROVE  IInv'
  <2>1. NegotiatedOK'
    BY IInvParts DEF NegotiatedOK
  <2> QED BY <1>4, <1>8, <2>1, Assembled
<1> DEFINE caps == IF m.t = "response" THEN m.arg.caps ELSE srv.caps
<1>9. /\ caps \in SUBSET Caps
      /\ at = "auth" => caps = auth.caps
  BY <1>2, <1>3, RequestFacts
<1> HIDE DEF caps
<1>10. ASSUME m.t \in {"response", "auth_data"}, NEW a \in Accepted,
              wire' = wire \o Numbered(a, m.seq),
              srv' = [srv EXCEPT !.phase = "command", !.seq = 0, !.caps = caps, !.rounds = 0]
       PROVE  IInv'
  <2>1. /\ srv' \in Servers /\ srv'.timedout = FALSE /\ srv'.phase = "command"
        /\ srv'.seq = 0 /\ srv'.caps = caps
    <3>1. 0 \in 0..MaxRounds
      BY ClientAssumption
    <3> QED BY <1>2, <1>9, <1>10, <3>1, NextSeqnum, IInvParts DEF Types, Servers
  <2>2. /\ a \in Seq(Msgs)
        /\ \/ Len(a) = 1 /\ a[1].t = "ok"
           \/ /\ Len(a) = 2 /\ a[1].t = "auth_more_data"
              /\ a[1].arg.challenge = "fast_auth_complete" /\ a[2].t = "ok"
    <3>1. PICK ok \in Msgs, more \in Msgs :
            /\ ok = Msg("ok", <<>>)
            /\ more = Msg("auth_more_data", [challenge |-> "fast_auth_complete"])
      BY MsgsAre
    <3>2. ok.t = "ok" /\ more.t = "auth_more_data" /\ more.arg.challenge = "fast_auth_complete"
      BY <3>1 DEF Msg
    <3>3. a = <<ok>> \/ a = <<more, ok>>
      BY <3>1, <1>10 DEF Accepted
    <3>4. CASE a = <<ok>>
      BY <3>2, <3>4, Single
    <3>5. CASE a = <<more, ok>>
      <4>1. a \in Seq(Msgs) /\ Len(a) = 2 /\ a[1] = more /\ a[2] = ok
        BY <3>5
      <4> QED BY <3>2, <4>1
    <3> QED BY <3>3, <3>4, <3>5
  <2>8. Len(a) >= 1
    BY <2>2
  <2>9. wire' \in Seq(Msgs)
    BY <1>7, <1>10, <2>2, <2>8
  <2>3. Always' /\ (at = "none" => IInv')
    BY <1>5, <2>1, <2>9
  <2>4. CASE at = "auth"
    <3>1. /\ Len(Coming') = Len(a)
          /\ \A i \in 1..Len(a) : Coming'[i].t = a[i].t /\ Coming'[i].arg = a[i].arg
          /\ Coming'[1].seq = chan.seq
          /\ Len(a) >= 2 => Coming'[2].seq = next_seqnum(chan.seq)
      BY <1>7, <1>10, <2>2, <2>4
    <3>2. Rest' = Len(a)
      BY <2>1, <2>2, <3>1 DEF Rest, Extra
    <3>3. \/ Rest' = 1 /\ Coming'[1].t = "ok" /\ Coming'[1].seq = chan.seq
          \/ /\ Rest' = 2 /\ Coming'[1].t = "auth_more_data"
             /\ Coming'[1].arg.challenge = "fast_auth_complete" /\ Coming'[1].seq = chan.seq
             /\ Coming'[2].t = "ok" /\ Coming'[2].seq = next_seqnum(chan.seq)
      BY <2>2, <3>1, <3>2
    <3>4. AuthOK'
      BY <1>2, <1>3, <1>9, <2>1, <2>4, <3>3 DEF AuthOK
    <3> QED BY <1>8, <1>10, <2>3, <2>4, <3>4
  <2> QED BY <1>3, <1>10, <2>3, <2>4
<1>11. ASSUME m.t \in {"response", "auth_data"}, NEW t \in {"err", "malformed"},
              wire' = wire \o Numbered(<<Msg(t, <<>>)>>, m.seq),
              srv' = [srv EXCEPT !.phase = "closed"]
       PROVE  IInv'
  <2>1. srv' \in Servers /\ srv'.timedout = FALSE /\ srv'.phase = "closed"
    BY <1>2, <1>11, IInvParts DEF Types, Servers
  <2>2. PICK a \in Seq(Msgs) : a = <<Msg(t, <<>>)>> /\ Len(a) = 1 /\ a[1].t = t
    <3>1. Msg(t, <<>>) \in Msgs /\ Msg(t, <<>>).t = t
      BY MsgsAre DEF Msg
    <3> QED BY <3>1, Single
  <2>8. Len(a) >= 1 /\ wire' = wire \o Numbered(a, m.seq)
    BY <1>11, <2>2
  <2>9. /\ wire' \in Seq(Msgs)
        /\ at = "auth" =>
             /\ Len(Coming') = Len(a)
             /\ \A i \in 1..Len(a) : Coming'[i].t = a[i].t
             /\ Coming'[1].seq = chan.seq
    BY <1>7, <2>8
  <2>3. Always' /\ (at = "none" => IInv')
    BY <1>5, <2>1, <2>9
  <2>4. CASE at = "auth"
    <3>1. Len(Coming') = 1 /\ Coming'[1].t \in {"err", "malformed"} /\ Coming'[1].seq = chan.seq
      BY <2>2, <2>4, <2>9
    <3>2. AuthOK'
      BY <1>2, <1>3, <2>1, <2>4, <3>1 DEF AuthOK
    <3> QED BY <1>8, <1>11, <2>3, <2>4, <3>2
  <2> QED BY <1>3, <1>11, <2>3, <2>4
<1>12. ASSUME m.t \in {"response", "auth_data"}, srv.rounds < MaxRounds, NEW q \in Questions,
              wire' = wire \o Numbered(<<q>>, m.seq),
              srv' = [srv EXCEPT !.phase = "auth", !.seq = (m.seq + 2) % SeqModulus,
                                 !.rounds = @ + 1, !.caps = caps]
       PROVE  IInv'
  <2>1. /\ (m.seq + 2) % SeqModulus = next_seqnum(next_seqnum(m.seq))
        /\ (m.seq + 2) % SeqModulus \in SeqNum
    <3>1. PICK s \in Nat : s = m.seq /\ s \in SeqNum
      BY <1>2, ClientAssumption DEF SeqNum
    <3>2. PICK x \in Nat : x = s + 1
      BY <3>1
    <3>3. (x + 1) % SeqModulus = next_seqnum(x % SeqModulus)
      BY <3>2, ModNext
    <3>4. x + 1 = s + 2 /\ x % SeqModulus = next_seqnum(s)
      BY <3>2 DEF next_seqnum
    <3> QED BY <3>1, <3>3, <3>4, NextSeqnum
  <2>2. srv.rounds + 1 \in 0..MaxRounds
    BY <1>12, ClientAssumption, IInvParts, RecordFacts, SMTT(30)
  <2>3. /\ srv' \in Servers /\ srv'.timedout = FALSE /\ srv'.phase = "auth"
        /\ srv'.seq = next_seqnum(next_seqnum(m.seq)) /\ srv'.caps = caps
    BY <1>2, <1>9, <1>12, <2>1, <2>2, IInvParts DEF Types, Servers
  <2>4. /\ q \in Msgs /\ q.t \in {"auth_switch", "auth_more_data"}
        /\ q.t = "auth_more_data" => q.arg.challenge = "full"
    BY MsgsAre DEF Questions, Msg
  <2>5. PICK a \in Seq(Msgs) : a = <<q>> /\ Len(a) = 1 /\ a[1] = q
    BY <2>4, Single
  <2>8. Len(a) >= 1 /\ wire' = wire \o Numbered(a, m.seq)
    BY <1>12, <2>5
  <2>9. /\ wire' \in Seq(Msgs)
        /\ at = "auth" =>
             /\ Len(Coming') = Len(a)
             /\ \A i \in 1..Len(a) : Coming'[i].t = a[i].t /\ Coming'[i].arg = a[i].arg
             /\ Coming'[1].seq = chan.seq
    BY <1>7, <2>8
  <2>6. Always' /\ (at = "none" => IInv')
    BY <1>5, <2>3, <2>9
  <2>7. CASE at = "auth"
    <3>1. /\ Len(Coming') = 1 /\ Coming'[1].t = q.t /\ Coming'[1].arg = q.arg
          /\ Coming'[1].seq = chan.seq
      BY <2>5, <2>7, <2>9
    <3>2. chan.seq = next_seqnum(m.seq)
      BY <1>2, <1>3, <2>7
    <3>3. AuthOK'
      BY <1>2, <1>3, <1>9, <2>3, <2>4, <2>7, <3>1, <3>2 DEF AuthOK
    <3> QED BY <1>8, <1>12, <2>6, <2>7, <3>3
  <2> QED BY <1>3, <1>12, <2>6, <2>7
<1> QED BY <1>1, <1>6, <1>10, <1>11, <1>12 DEF ServerAuthenticates, caps

\* The server answers a command: what is to come then is the answer.
LEMMA AnswerFacts ==
  ASSUME IInv, srv.phase = "command", NEW m \in Requests, m.seq = 0,
         NEW messages \in Seq(Msgs), NEW rows \in Seq(RowData),
         NEW end \in {"none", "ok", "err", "eof"},
         Answer(messages, m, rows, end), inbox' = inbox
  PROVE  /\ wire' \in Seq(Msgs) /\ srv' \in Servers
         /\ srv'.phase = "command" /\ srv'.seq = srv.seq /\ srv'.timedout = FALSE
         /\ srv'.caps = srv.caps
         /\ Rest = 0 =>
              /\ Rest' = Len(messages)
              /\ Len(messages) >= 1 => Coming'[1].seq = 1
              /\ \A i \in 1..(Len(messages) - 1) :
                    Coming'[i + 1].seq = next_seqnum(Coming'[i].seq)
              /\ \A i \in 1..Len(messages) :
                    \/ Coming'[i].t = messages[i].t /\ Coming'[i].arg = messages[i].arg
                    \/ Coming'[i].t = "malformed"
<1>1. srv.timedout = FALSE
  BY IInvParts, RecordFacts DEF TimedOutOK
<1>2. /\ srv' \in Servers /\ srv'.phase = "command" /\ srv'.seq = srv.seq
      /\ srv'.timedout = FALSE /\ srv'.caps = srv.caps
  BY <1>1, IInvParts DEF Types, Servers, Answer
<1>3. PICK a \in Spoiled(messages) : wire' = wire \o Numbered(a, m.seq)
  BY DEF Answer
<1>4. /\ a \in Seq(Msgs) /\ Len(a) = Len(messages)
      /\ \A i \in 1..Len(messages) : a[i] = messages[i] \/ a[i] = Msg("malformed", <<>>)
  BY SpoiledFacts
<1>5. 0 \in SeqNum /\ next_seqnum(0) = 1
  BY NextSeqnum
<1>6. PICK b \in Seq(Msgs) : b = Numbered(a, 0)
  BY <1>4, <1>5, NumberedFacts
<1>7. /\ Len(b) = Len(messages)
      /\ \A i \in 1..Len(messages) : b[i].t = a[i].t /\ b[i].arg = a[i].arg
      /\ Len(messages) >= 1 => b[1].seq = 1
      /\ \A i \in 1..(Len(messages) - 1) : b[i + 1].seq = next_seqnum(b[i].seq)
  <2>1. /\ Len(b) = Len(a)
        /\ \A i \in 1..Len(a) : b[i].t = a[i].t /\ b[i].arg = a[i].arg
    BY <1>4, <1>5, <1>6, NumberedFacts
  <2>2. /\ Len(a) >= 1 => b[1].seq = next_seqnum(0)
        /\ \A i \in 1..(Len(a) - 1) : b[i + 1].seq = next_seqnum(b[i].seq)
    BY <1>4, <1>5, <1>6, NumberedInOrder
  <2> QED BY <1>4, <1>5, <2>1, <2>2
<1>8. /\ wire' \in Seq(Msgs) /\ Len(Coming') = Len(Coming) + Len(b)
      /\ \A i \in 1..Len(b) : Coming'[Len(Coming) + i] = b[i]
  <2>1. wire' = wire \o b
    BY <1>3, <1>6
  <2> QED BY <2>1, IInvParts, ServerSends
<1>9. ASSUME Rest = 0
      PROVE  /\ Rest' = Len(messages)
             /\ \A i \in 1..Len(messages) : Coming'[i] = b[i]
  <2>1. Len(Coming) \in Nat /\ Len(Coming) = 0
    BY <1>1, <1>9, IInvParts, ComingFacts DEF Rest, Extra
  <2>2. PICK n \in Nat : n = Len(messages) /\ n = Len(b)
    BY <1>7, LenProperties
  <2>3. Len(Coming') = n /\ \A i \in 1..n : Coming'[i] = b[i]
    BY <1>8, <2>1, <2>2
  <2>4. Rest' = n
    BY <1>2, <2>2, <2>3 DEF Rest, Extra
  <2> QED BY <2>2, <2>3, <2>4
<1>10. ASSUME Rest = 0
       PROVE  /\ Len(messages) >= 1 => Coming'[1].seq = 1
              /\ \A i \in 1..(Len(messages) - 1) :
                    Coming'[i + 1].seq = next_seqnum(Coming'[i].seq)
  <2>1. PICK n \in Nat : n = Len(messages)
    BY LenProperties
  <2>2. n >= 1 => 1 \in 1..n
    OBVIOUS
  <2>3. \A i \in 1..(n - 1) : i \in 1..n /\ i + 1 \in 1..n
    OBVIOUS
  <2> QED BY <1>7, <1>9, <1>10, <2>1, <2>2, <2>3
<1>11. ASSUME Rest = 0, NEW i \in 1..Len(messages)
       PROVE  \/ Coming'[i].t = messages[i].t /\ Coming'[i].arg = messages[i].arg
              \/ Coming'[i].t = "malformed"
  <2>1. Coming'[i].t = a[i].t /\ Coming'[i].arg = a[i].arg
    BY <1>7, <1>9, <1>11
  <2>2. Msg("malformed", <<>>).t = "malformed"
    BY DEF Msg
  <2> QED BY <1>4, <2>1, <2>2
<1> QED BY <1>2, <1>8, <1>9, <1>10, <1>11

\* The answer to a query is one message, or a result.
LEMMA QueryAnswered ==
  ASSUME IInv, srv.phase = "command", NEW m \in Requests, m.seq = 0, inbox' = inbox,
         m.t \in {"query", "execute"}, ServerAnswers(m)
  PROVE  /\ wire' \in Seq(Msgs) /\ srv' \in Servers
         /\ srv'.phase = "command" /\ srv'.seq = srv.seq /\ srv'.timedout = FALSE
         /\ srv'.caps = srv.caps
         /\ Rest = 0 =>
              /\ NumbersFrom(1)' /\ Rest' >= 1
              /\ Coming'[1].t \in {"ok", "err", "malformed", "num_fields"}
              /\ Coming'[1].t \in {"ok", "err"} => Rest' = 1
              /\ Coming'[1].t = "num_fields" =>
                    /\ ColumnsAt(2, Coming[1].arg + 1)'
                    /\ RowsAt(Coming[1].arg + 2)'
<1>1. CASE \E t \in {"ok", "err"} : Answer(<<Msg(t, <<>>)>>, m, <<>>, t)
  <2>1. PICK t \in {"ok", "err"} : Answer(<<Msg(t, <<>>)>>, m, <<>>, t)
    BY <1>1
  <2>2. PICK a \in Seq(Msgs) : a = <<Msg(t, <<>>)>> /\ Len(a) = 1 /\ a[1].t = t
    <3>1. Msg(t, <<>>) \in Msgs /\ Msg(t, <<>>).t = t
      BY MsgsAre DEF Msg
    <3> QED BY <3>1, Single
  <2>3. PICK rows \in Seq(RowData) : rows = <<>>
    BY EmptySeq
  <2>4. Answer(a, m, rows, t)
    BY <2>1, <2>2, <2>3
  <2>5. /\ wire' \in Seq(Msgs) /\ srv' \in Servers
        /\ srv'.phase = "command" /\ srv'.seq = srv.seq /\ srv'.timedout = FALSE
        /\ srv'.caps = srv.caps
        /\ Rest = 0 =>
             /\ Rest' = Len(a)
             /\ Len(a) >= 1 => Coming'[1].seq = 1
             /\ \A i \in 1..Len(a) : \/ Coming'[i].t = a[i].t /\ Coming'[i].arg = a[i].arg
                                     \/ Coming'[i].t = "malformed"
    BY <2>4, AnswerFacts
  <2>6. Rest = 0 => /\ Rest' = 1 /\ Coming'[1].seq = 1 /\ Coming'[1].t \in {t, "malformed"}
    BY <2>2, <2>5
  <2>7. Rest' = 1 /\ Coming'[1].seq = 1 => NumbersFrom(1)'
    BY DEF NumbersFrom, InOrder
  <2> QED BY <2>5, <2>6, <2>7
<1>2. CASE \E c \in 1..MaxColumns, n \in 0..MaxRows, end \in {"eof", "err"} :
              Answer(Result(c, Rows(m.arg, c, n), end), m, Rows(m.arg, c, n), end)
  <2>1. PICK c \in 1..MaxColumns, n \in 0..MaxRows, end \in {"eof", "err"} :
           Answer(Result(c, Rows(m.arg, c, n), end), m, Rows(m.arg, c, n), end)
    BY <1>2
  <2>2. c \in Nat /\ c >= 1 /\ n \in Nat /\ m.arg \in Nat
    BY ClientAssumption, RequestFacts
  <2>3. PICK command \in Nat : command = m.arg
    BY <2>2
  <2>4. PICK rows \in Seq(RowData), a \in Seq(Msgs) :
          /\ rows = Rows(m.arg, c, n) /\ a = Result(c, rows, end)
          /\ Len(a) = c + n + 2
          /\ a[1] = Msg("num_fields", c)
          /\ \A i \in 1..c : a[1 + i] = Msg("column", <<>>)
          /\ \A i \in 1..n : a[1 + c + i] = Msg("row", rows[i])
          /\ a[c + n + 2] = Msg(end, <<>>)
    <3>1. PICK rows \in Seq(RowData), a \in Seq(Msgs) : IsResult(a, rows, command, c, n, end)
      BY <2>2, ResultFacts
    <3> QED BY <2>3, <3>1 DEF IsResult
  <2>5. Answer(a, m, rows, end)
    BY <2>1, <2>4
  <2>6. /\ wire' \in Seq(Msgs) /\ srv' \in Servers
        /\ srv'.phase = "command" /\ srv'.seq = srv.seq /\ srv'.timedout = FALSE
        /\ srv'.caps = srv.caps
        /\ Rest = 0 =>
             /\ Rest' = Len(a)
             /\ Len(a) >= 1 => Coming'[1].seq = 1
             /\ \A i \in 1..(Len(a) - 1) : Coming'[i + 1].seq = next_seqnum(Coming'[i].seq)
             /\ \A i \in 1..Len(a) : \/ Coming'[i].t = a[i].t /\ Coming'[i].arg = a[i].arg
                                     \/ Coming'[i].t = "malformed"
    BY <2>5, AnswerFacts
  <2>7. ASSUME Rest = 0
        PROVE  /\ NumbersFrom(1)' /\ Rest' >= 1
               /\ Coming'[1].t \in {"malformed", "num_fields"}
               /\ Coming'[1].t = "num_fields" =>
                     /\ ColumnsAt(2, Coming[1].arg + 1)'
                     /\ RowsAt(Coming[1].arg + 2)'
    <3>1. Rest' = c + n + 2 /\ Rest' >= 1
      BY <2>2, <2>4, <2>6, <2>7
    <3>2. NumbersFrom(1)'
      <4>1. Len(a) >= 1
        BY <2>2, <2>4
      <4> QED BY <2>6, <2>7, <4>1 DEF NumbersFrom, InOrder
    <3>3. /\ Msg("num_fields", c).t = "num_fields" /\ Msg("num_fields", c).arg = c
          /\ Msg("column", <<>>).t = "column" /\ Msg(end, <<>>).t = end
          /\ \A i \in 1..n : Msg("row", rows[i]).t = "row"
      BY DEF Msg
    <3>4. /\ Coming'[1].t \in {"malformed", "num_fields"}
          /\ Coming'[1].t = "num_fields" => Coming'[1].arg = c
      <4>1. 1 \in 1..Len(a)
        BY <2>2, <2>4
      <4> QED BY <2>4, <2>6, <2>7, <3>3, <4>1
    <3>5. \A i \in 2..(c + 1) : Coming'[i].t \in {"column", "malformed"}
      <4> SUFFICES ASSUME NEW i \in 2..(c + 1) PROVE Coming'[i].t \in {"column", "malformed"}
        OBVIOUS
      <4>1. i \in 1..Len(a) /\ i - 1 \in 1..c /\ 1 + (i - 1) = i
        BY <2>2, <2>4
      <4>2. a[i] = Msg("column", <<>>)
        BY <2>4, <4>1
      <4> QED BY <2>6, <2>7, <3>3, <4>1, <4>2
    <3>6. \A i \in (c + 2)..(c + n + 1) : Coming'[i].t \in {"row", "malformed"}
      <4> SUFFICES ASSUME NEW i \in (c + 2)..(c + n + 1)
                   PROVE  Coming'[i].t \in {"row", "malformed"}
        OBVIOUS
      <4>1. PICK j \in 1..n : i = 1 + c + j /\ i \in 1..Len(a)
        <5>1. i - c - 1 \in 1..n /\ i = 1 + c + (i - c - 1) /\ i \in 1..Len(a)
          BY <2>2, <2>4
        <5> QED BY <5>1
      <4>2. a[i] = Msg("row", rows[j])
        BY <2>4, <4>1
      <4> QED BY <2>6, <2>7, <3>3, <4>1, <4>2
    <3>7. Coming'[c + n + 2].t \in {"eof", "err", "malformed"}
      <4>1. c + n + 2 \in 1..Len(a)
        BY <2>2, <2>4
      <4> QED BY <2>4, <2>6, <2>7, <3>3, <4>1
    <3>8. ASSUME Coming'[1].t = "num_fields"
          PROVE  ColumnsAt(2, Coming[1].arg + 1)' /\ RowsAt(Coming[1].arg + 2)'
      <4>1. Coming'[1].arg = c
        BY <3>4, <3>8
      <4>2. c + 2 <= Rest' /\ Rest' - 1 = c + n + 1 /\ Rest' = c + n + 2
        BY <2>2, <3>1
      <4> QED BY <3>5, <3>6, <3>7, <4>1, <4>2 DEF ColumnsAt, RowsAt
    <3> QED BY <3>1, <3>2, <3>4, <3>8
  <2> QED BY <2>6, <2>7
<1> QED BY <1>1, <1>2 DEF ServerAnswers

\* The answer to a request to prepare a statement is an error, or the number of
\* its columns and parameters and a message for each.
LEMMA PrepareAnswered ==
  ASSUME IInv, srv.phase = "command", NEW m \in Requests, m.seq = 0, inbox' = inbox,
         m.t = "prepare", ServerAnswers(m)
  PROVE  /\ wire' \in Seq(Msgs) /\ srv' \in Servers
         /\ srv'.phase = "command" /\ srv'.seq = srv.seq /\ srv'.timedout = FALSE
         /\ srv'.caps = srv.caps
         /\ Rest = 0 =>
              /\ NumbersFrom(1)' /\ Rest' >= 1
              /\ Coming'[1].t \in {"err", "malformed", "prepare_ok"}
              /\ Coming'[1].t = "err" => Rest' = 1
              /\ Coming'[1].t = "prepare_ok" =>
                    Rest' = 1 + Coming'[1].arg.columns + Coming'[1].arg.params
<1>0. PICK rows \in Seq(RowData) : rows = <<>>
  BY EmptySeq
<1>1. CASE Answer(<<Msg("err", <<>>)>>, m, <<>>, "err")
  <2>1. PICK a \in Seq(Msgs) : a = <<Msg("err", <<>>)>> /\ Len(a) = 1 /\ a[1].t = "err"
    <3>1. Msg("err", <<>>) \in Msgs /\ Msg("err", <<>>).t = "err"
      BY MsgsAre DEF Msg
    <3> QED BY <3>1, Single
  <2>2. Answer(a, m, rows, "err")
    BY <1>0, <1>1, <2>1
  <2>3. /\ wire' \in Seq(Msgs) /\ srv' \in Servers
        /\ srv'.phase = "command" /\ srv'.seq = srv.seq /\ srv'.timedout = FALSE
        /\ srv'.caps = srv.caps
        /\ Rest = 0 =>
             /\ Rest' = Len(a)
             /\ Len(a) >= 1 => Coming'[1].seq = 1
             /\ \A i \in 1..Len(a) : \/ Coming'[i].t = a[i].t /\ Coming'[i].arg = a[i].arg
                                     \/ Coming'[i].t = "malformed"
    BY <2>2, AnswerFacts
  <2>4. Rest = 0 => Rest' = 1 /\ Coming'[1].seq = 1 /\ Coming'[1].t \in {"err", "malformed"}
    BY <2>1, <2>3
  <2>5. Rest' = 1 /\ Coming'[1].seq = 1 => NumbersFrom(1)'
    BY DEF NumbersFrom, InOrder
  <2> QED BY <2>3, <2>4, <2>5
<1>2. CASE \E c \in 0..MaxColumns, p \in 0..MaxParams :
              Answer(<<Msg("prepare_ok", [columns |-> c, params |-> p])>>
                       \o [i \in 1..(c + p) |-> Msg("column", <<>>)], m, <<>>, "ok")
  <2>1. PICK c \in 0..MaxColumns, p \in 0..MaxParams :
              Answer(<<Msg("prepare_ok", [columns |-> c, params |-> p])>>
                       \o [i \in 1..(c + p) |-> Msg("column", <<>>)], m, <<>>, "ok")
    BY <1>2
  <2>2. PICK ok \in Msgs : /\ ok = Msg("prepare_ok", [columns |-> c, params |-> p])
                           /\ ok.t = "prepare_ok" /\ ok.arg.columns = c /\ ok.arg.params = p
    <3>1. Msg("prepare_ok", [columns |-> c, params |-> p]) \in Msgs
      BY MsgsAre
    <3> QED BY <3>1 DEF Msg
  <2>3. PICK k \in Nat : k = c + p /\ c \in Nat /\ p \in Nat
    BY ClientAssumption
  <2>4. PICK q \in Seq(Msgs) : q = [i \in 1..k |-> Msg("column", <<>>)] /\ Len(q) = k
    <3>1. Msg("column", <<>>) \in Msgs
      BY MsgsAre
    <3>2. [i \in 1..k |-> Msg("column", <<>>)] \in Seq(Msgs)
      BY <3>1
    <3>3. Len([i \in 1..k |-> Msg("column", <<>>)]) = k
      OBVIOUS
    <3> QED BY <3>2, <3>3
  <2>5. PICK a \in Seq(Msgs) : a = <<ok>> \o q /\ Len(a) = 1 + k /\ a[1] = ok
    <3>1. <<ok>> \in Seq(Msgs) /\ Len(<<ok>>) = 1 /\ <<ok>>[1] = ok
      BY Single
    <3>2. <<ok>> \o q \in Seq(Msgs) /\ Len(<<ok>> \o q) = 1 + k
      BY <2>4, <3>1, ConcatProperties
    <3>3. (<<ok>> \o q)[1] = ok
      BY <2>4, <3>1, ConcatProperties
    <3> QED BY <3>2, <3>3
  <2>6. Answer(a, m, rows, "ok")
    BY <1>0, <2>1, <2>2, <2>3, <2>4, <2>5
  <2>7. /\ wire' \in Seq(Msgs) /\ srv' \in Servers
        /\ srv'.phase = "command" /\ srv'.seq = srv.seq /\ srv'.timedout = FALSE
        /\ srv'.caps = srv.caps
        /\ Rest = 0 =>
             /\ Rest' = Len(a)
             /\ Len(a) >= 1 => Coming'[1].seq = 1
             /\ \A i \in 1..(Len(a) - 1) : Coming'[i + 1].seq = next_seqnum(Coming'[i].seq)
             /\ \A i \in 1..Len(a) : \/ Coming'[i].t = a[i].t /\ Coming'[i].arg = a[i].arg
                                     \/ Coming'[i].t = "malformed"
    BY <2>6, AnswerFacts
  <2>8. ASSUME Rest = 0
        PROVE  /\ NumbersFrom(1)' /\ Rest' = 1 + k /\ Rest' >= 1
               /\ Coming'[1].t \in {"malformed", "prepare_ok"}
               /\ Coming'[1].t = "prepare_ok" =>
                     Coming'[1].arg.columns = c /\ Coming'[1].arg.params = p
    <3>1. 1 \in 1..Len(a) /\ Len(a) >= 1 /\ Len(a) = 1 + k
      BY <2>3, <2>5
    <3>2. NumbersFrom(1)'
      BY <2>7, <2>8, <3>1 DEF NumbersFrom, InOrder
    <3>3. \/ Coming'[1].t = ok.t /\ Coming'[1].arg = ok.arg
          \/ Coming'[1].t = "malformed"
      BY <2>5, <2>7, <2>8, <3>1
    <3> QED BY <2>2, <2>7, <2>8, <3>1, <3>2, <3>3
  <2>9. 1 + k = 1 + c + p
    BY <2>3
  <2> QED BY <2>7, <2>8, <2>9
<1> QED BY <1>1, <1>2 DEF ServerAnswers

\* The server answers, or takes a notice that needs no answer.
LEMMA ServerAnswersIInv ==
  ASSUME IInv, srv.phase = "command", toServer # <<>>, Head(toServer).seq = srv.seq,
         ServerAnswers(Head(toServer)), toServer' = Tail(toServer),
         UNCHANGED <<params, at, last, chan, auth, rs, left, stmt, fields, app, inbox, down>>
  PROVE  IInv'
<1>1. PICK m \in Requests : m = Head(toServer) /\ m = toServer[1]
  BY TakenRequest
<1>2. PICK k \in Nat :
        /\ k = Len(toServer') /\ Len(toServer) = k + 1 /\ toServer' \in Seq(Requests)
        /\ \A i \in 1..k : toServer'[i] = toServer[i + 1]
  <2>1. /\ Len(toServer) \in Nat /\ Len(toServer) >= 1 /\ Len(toServer') = Len(toServer) - 1
        /\ toServer' \in Seq(Requests)
        /\ \A i \in 1..Len(toServer') : toServer'[i] = toServer[i + 1]
    BY TakenRequest, SMTT(30)
  <2>2. PICK n \in Nat : n = Len(toServer) /\ n >= 1 /\ Len(toServer') = n - 1
    BY <2>1
  <2>3. n - 1 \in Nat /\ n = (n - 1) + 1
    BY <2>2
  <2> QED BY <2>1, <2>2, <2>3
<1>3. /\ srv.timedout = FALSE /\ srv.seq = 0 /\ m.seq = 0
      /\ \A i \in 1..Len(toServer) : toServer[i].seq = 0
  BY <1>1, IInvParts, RecordFacts DEF TimedOutOK, RequestsOK
<1>4. ~app.rows /\ at \in {"none", "response", "prepared"}
  <2>1. Len(toServer) # 0
    BY <1>2
  <2>2. ~app.rows /\ at \notin RowReads
    BY <2>1, IInvParts DEF RowsOK, ConnectedOK
  <2>3. at # "greeting" /\ at # "fields" /\ at # "meta"
    BY <2>1, IInvParts DEF GreetingOK, FieldsOK, MetaOK
  <2>4. at # "ssl" /\ at # "auth"
    BY <2>1, <1>3, IInvParts DEF SslOK, AuthOK
  <2> QED BY <2>2, <2>3, <2>4, IInvParts DEF Types, Operations, RowReads
<1>5. PasswordOverSsl' /\ \A i \in 1..Len(toServer') : toServer'[i].seq = 0
  <2>1. \A i \in 1..k : i + 1 \in 1..(k + 1)
    OBVIOUS
  <2> QED BY <1>2, <1>3, <2>1, TakenRequest
<1>6. ASSUME wire' \in Seq(Msgs), srv' \in Servers, srv'.timedout = FALSE,
             \/ srv'.phase = "command" /\ srv'.seq = srv.seq
             \/ srv'.phase = "closed"
      PROVE  Always'
  <2>1. Types'
    BY <1>2, <1>6, IInvParts DEF Types
  <2>2. TimedOutOK' /\ NoneYet'
    BY <1>6 DEF TimedOutOK, NoneYet
  <2>3. RequestsOK' /\ OpenOK'
    BY <1>3, <1>5, <1>6, IInvParts DEF RequestsOK, OpenOK
  <2> QED BY <1>5, <2>1, <2>2, <2>3 DEF Always
<1>7. ASSUME srv'.phase = "command", srv'.caps = srv.caps
      PROVE  ConnectedOK'
  BY <1>7, IInvParts DEF ConnectedOK, ConnectedMeansAgreed, Handshaking, RowReads
<1>8. CASE m.t = "close_statement"
  <2>1. wire' = wire /\ srv' = srv
    BY <1>1, <1>8 DEF ServerAnswers
  <2>2. Always' /\ ConnectedOK'
    BY <1>3, <1>6, <1>7, <2>1, IInvParts DEF Types
  <2>3. Rest' = Rest /\ Coming' = Coming
    BY <2>1 DEF Rest, Extra, Coming
  <2>4. \A i \in 1..k : toServer[i].t = "close_statement" =>
           (i > 1 => toServer'[i - 1].t = "close_statement")
    BY <1>2
  <2>5. CASE at = "none"
    <3>1. IdleOK'
      BY <1>2, <2>3, IInvParts DEF IdleOK
    <3>2. RowsOK'
      BY <1>4 DEF RowsOK
    <3> QED BY <2>2, <2>5, <3>1, <3>2, Assembled
  <2>6. ASSUME NEW kinds, Waiting(kinds), "close_statement" \notin kinds
        PROVE  Waiting(kinds)'
    <3>1. /\ Rest = 0 /\ toServer[k + 1].t \in kinds
          /\ \A i \in 1..k : toServer[i].t = "close_statement"
      BY <1>2, <2>6 DEF Waiting
    <3>2. k >= 1
      BY <1>1, <1>8, <2>6, <3>1
    <3>3. toServer'[k].t \in kinds
      BY <1>2, <3>1, <3>2
    <3>4. \A i \in 1..(k - 1) : i \in 1..k /\ i + 1 \in 1..k
      OBVIOUS
    <3>5. \A i \in 1..(k - 1) : toServer'[i].t = "close_statement"
      BY <1>2, <3>1, <3>4
    <3> QED BY <1>2, <2>3, <3>1, <3>2, <3>3, <3>5 DEF Waiting
  <2>7. Len(toServer) # 0
    BY <1>2
  <2>8. CASE at = "response"
    <3>1. Waiting({"query", "execute"})
      BY <2>7, <2>8, IInvParts DEF ResponseOK
    <3>2. Waiting({"query", "execute"})'
      BY <2>6, <3>1
    <3>3. ResponseOK'
      BY <2>8, <3>2, IInvParts DEF ResponseOK
    <3> QED BY <2>2, <2>8, <3>3, Assembled
  <2>9. CASE at = "prepared"
    <3>1. Waiting({"prepare"})
      BY <2>7, <2>9, IInvParts DEF PreparedOK
    <3>2. Waiting({"prepare"})'
      BY <2>6, <3>1
    <3>3. PreparedOK'
      BY <2>9, <3>2, IInvParts DEF PreparedOK
    <3> QED BY <2>2, <2>9, <3>3, Assembled
  <2> QED BY <1>4, <2>5, <2>8, <2>9
<1>9. CASE m.t = "quit"
  <2>1. wire' = wire /\ srv' = [srv EXCEPT !.phase = "closed"]
    BY <1>1, <1>9 DEF ServerAnswers
  <2>2. srv' \in Servers /\ srv'.phase = "closed" /\ srv'.timedout = FALSE
    BY <1>3, <2>1, IInvParts DEF Types, Servers
  <2>3. Always'
    BY <1>6, <2>1, <2>2, IInvParts DEF Types
  <2>4. at = "none" /\ ~app.connected
    <3>1. 1 \in 1..Len(toServer) /\ Len(toServer) # 0
      BY <1>2
    <3>2. at # "none" \/ ~app.connected
      BY <1>1, <1>4, <1>9, <3>1, IInvParts DEF IdleOK
    <3>3. ASSUME NEW kinds, Waiting(kinds), "quit" \notin kinds
          PROVE  FALSE
      <4>1. /\ toServer[k + 1].t \in kinds
            /\ \A i \in 1..k : toServer[i].t = "close_statement"
        BY <1>2, <3>3 DEF Waiting
      <4>2. k = 0 \/ 1 \in 1..k
        OBVIOUS
      <4> QED BY <1>1, <1>9, <3>3, <4>1, <4>2
    <3>4. at # "response"
      BY <3>1, <3>3, IInvParts DEF ResponseOK
    <3>5. at # "prepared"
      BY <3>1, <3>3, IInvParts DEF PreparedOK
    <3> QED BY <1>4, <3>2, <3>4, <3>5
  <2> QED BY <1>4, <2>3, <2>4, Assembled
<1>10. CASE m.t \in {"query", "execute", "prepare"}
  <2>1. /\ wire' \in Seq(Msgs) /\ srv' \in Servers
        /\ srv'.phase = "command" /\ srv'.seq = srv.seq /\ srv'.timedout = FALSE
        /\ srv'.caps = srv.caps
    <3>1. ServerAnswers(m)
      BY <1>1
    <3> QED BY <1>3, <1>10, <3>1, QueryAnswered, PrepareAnswered
  <2>2. Always' /\ ConnectedOK'
    BY <1>6, <1>7, <2>1
  <2>3. 1 \in 1..Len(toServer) /\ Len(toServer) # 0
    BY <1>2
  <2>4. CASE at = "none"
    <3>1. ~app.connected
      BY <1>1, <1>4, <1>10, <2>3, <2>4, IInvParts DEF IdleOK
    <3> QED BY <1>4, <2>2, <2>4, <3>1, Assembled
  <2>5. ASSUME NEW kinds, Waiting(kinds)
        PROVE  Rest = 0 /\ Len(toServer') = 0 /\ m.t \in kinds
    <3>1. /\ Rest = 0 /\ toServer[k + 1].t \in kinds
          /\ \A i \in 1..k : toServer[i].t = "close_statement"
      BY <1>2, <2>5 DEF Waiting
    <3>2. k = 0 \/ 1 \in 1..k
      OBVIOUS
    <3>3. k = 0
      BY <1>1, <1>10, <3>1, <3>2
    <3> QED BY <1>1, <1>2, <3>1, <3>3
  <2>6. CASE at = "response"
    <3>1. Waiting({"query", "execute"}) /\ rs.seq = 1 /\ rs.meta = 0 /\ ~rs.complete
      BY <2>3, <2>6, IInvParts DEF ResponseOK
    <3>2. Rest = 0 /\ Len(toServer') = 0 /\ m.t \in {"query", "execute"}
      BY <2>5, <3>1
    <3>3. ServerAnswers(m)
      BY <1>1
    <3>4. /\ NumbersFrom(1)' /\ Rest' >= 1
          /\ Coming'[1].t \in {"ok", "err", "malformed", "num_fields"}
          /\ Coming'[1].t \in {"ok", "err"} => Rest' = 1
          /\ Coming'[1].t = "num_fields" =>
                /\ ColumnsAt(2, Coming[1].arg + 1)'
                /\ RowsAt(Coming[1].arg + 2)'
      BY <1>3, <3>2, <3>3, QueryAnswered
    <3>5. ResponseOK'
      BY <2>6, <3>1, <3>2, <3>4 DEF ResponseOK
    <3> QED BY <2>2, <2>6, <3>5, Assembled
  <2>7. CASE at = "prepared"
    <3>1. Waiting({"prepare"}) /\ chan.seq = 1
      BY <2>3, <2>7, IInvParts DEF PreparedOK
    <3>2. Rest = 0 /\ Len(toServer') = 0 /\ m.t = "prepare"
      BY <2>5, <3>1
    <3>3. ServerAnswers(m)
      BY <1>1
    <3>4. /\ NumbersFrom(1)' /\ Rest' >= 1
          /\ Coming'[1].t \in {"err", "malformed", "prepare_ok"}
          /\ Coming'[1].t = "err" => Rest' = 1
          /\ Coming'[1].t = "prepare_ok" =>
                Rest' = 1 + Coming'[1].arg.columns + Coming'[1].arg.params
      BY <1>3, <3>2, <3>3, PrepareAnswered
    <3>5. PreparedOK'
      BY <2>7, <3>1, <3>2, <3>4 DEF PreparedOK
    <3> QED BY <2>2, <2>7, <3>5, Assembled
  <2> QED BY <1>4, <2>4, <2>6, <2>7
<1>11. m.t \in {"close_statement", "quit", "query", "execute", "prepare"}
  BY <1>1 DEF ServerAnswers
<1> QED BY <1>8, <1>9, <1>10, <1>11

\* The server takes a request, in the handshake or a command.
LEMMA ServerTakesIInv == IInv /\ ServerTakes => IInv'
<1> SUFFICES ASSUME IInv, ServerTakes PROVE IInv'
  OBVIOUS
<1>1. /\ toServer # <<>> /\ Head(toServer).seq = srv.seq /\ toServer' = Tail(toServer)
      /\ \/ srv.phase \in {"auth", "tls"} /\ ServerAuthenticates(Head(toServer))
         \/ srv.phase = "command" /\ ServerAnswers(Head(toServer))
      /\ UNCHANGED <<params, at, last, chan, auth, rs, left, stmt, fields, app, inbox, down>>
  BY DEF ServerTakes, clientVars
<1> QED BY <1>1, ServerAuthenticatesIInv, ServerAnswersIInv

\* The server closes an idle connection; its error comes last and answers nothing.
LEMMA ServerTimesOutIInv == IInv /\ ServerTimesOut => IInv'
<1> SUFFICES ASSUME IInv, ServerTimesOut PROVE IInv'
  OBVIOUS
<1>1. /\ srv.phase = "command" /\ toServer = <<>>
      /\ wire' = Append(wire, Msg("err", <<>>))
      /\ srv' = [srv EXCEPT !.phase = "closed", !.timedout = TRUE]
      /\ down'
      /\ UNCHANGED <<params, at, last, chan, auth, rs, left, stmt, fields, app, toServer, inbox>>
  BY DEF ServerTimesOut, clientVars
<1>2. srv.timedout = FALSE /\ Len(toServer) = 0 /\ Len(toServer') = 0
  BY <1>1, IInvParts, RecordFacts, RequestsFacts DEF TimedOutOK
<1>3. /\ srv' \in Servers /\ srv'.phase = "closed" /\ srv'.timedout = TRUE
      /\ srv'.caps = srv.caps
  BY <1>1, IInvParts DEF Types, Servers
<1>4. PICK err \in Msgs : err = Msg("err", <<>>) /\ err.t = "err" /\ err.seq = 0
  BY MsgsAre DEF Msg
<1>5. PICK ms \in Seq(Msgs) : ms = <<err>> /\ Len(ms) = 1 /\ ms[1] = err
  BY Single
<1>6. wire' = wire \o ms
  BY <1>1, <1>4, <1>5, IInvParts, AppendIsConcat DEF Types
<1>7. /\ wire' \in Seq(Msgs) /\ Len(Coming) \in Nat /\ Len(Coming') = Len(Coming) + 1
      /\ \A i \in 1..Len(Coming) : Coming'[i] = Coming[i]
      /\ Coming'[Len(Coming')] = err
  <2>1. /\ wire' \in Seq(Msgs) /\ Len(Coming') = Len(Coming) + Len(ms)
        /\ \A i \in 1..Len(Coming) : Coming'[i] = Coming[i]
        /\ \A i \in 1..Len(ms) : Coming'[Len(Coming) + i] = ms[i]
    BY <1>1, <1>6, IInvParts, ServerSends
  <2>2. PICK n \in Nat : n = Len(Coming)
    BY IInvParts, ComingFacts
  <2>3. Len(Coming') = n + 1 /\ 1 \in 1..Len(ms)
    BY <1>5, <2>1, <2>2
  <2>4. Coming'[n + 1] = err
    BY <1>5, <2>1, <2>2, <2>3
  <2> QED BY <2>1, <2>2, <2>3, <2>4
<1>8. Rest' = Rest /\ Rest = Len(Coming)
  BY <1>2, <1>3, <1>7 DEF Rest, Extra
<1>9. Always'
  <2>1. Types'
    BY <1>1, <1>3, <1>7, IInvParts DEF Types
  <2>2. Len(Coming') >= 1
    BY <1>7
  <2>3. TimedOutOK' /\ NoneYet' /\ RequestsOK' /\ OpenOK'
    BY <1>1, <1>3, <1>4, <1>7, <2>2, IInvParts DEF TimedOutOK, NoneYet, RequestsOK, OpenOK
  <2>4. PasswordOverSsl'
    BY <1>1, IInvParts DEF PasswordOverSsl
  <2> QED BY <2>1, <2>3, <2>4 DEF Always
<1>10. ConnectedOK'
  BY <1>1, <1>3, IInvParts DEF ConnectedOK, ConnectedMeansAgreed, Handshaking, RowReads
<1>11. PICK n \in Nat : n = Rest /\ n = Rest' /\ \A i \in 1..n : Coming'[i] = Coming[i]
  BY <1>7, <1>8
<1>12. ASSUME NEW s, NumbersFrom(s) PROVE InOrder' /\ (Rest' >= 1 => Coming'[1].seq = s)
  <2>1. \A i \in 1..(n - 1) : i \in 1..n /\ i + 1 \in 1..n
    OBVIOUS
  <2>2. n >= 1 => 1 \in 1..n
    OBVIOUS
  <2> QED BY <1>11, <1>12, <2>1, <2>2 DEF NumbersFrom, InOrder
<1>13. ASSUME NEW a \in Nat \ {0}, NEW b \in Nat, b <= n, ColumnsAt(a, b)
       PROVE  ColumnsAt(a, b)'
  <2>1. \A i \in a..b : i \in 1..n
    BY <1>13
  <2> QED BY <1>11, <1>13, <2>1 DEF ColumnsAt
<1>14. ASSUME NEW a \in Nat \ {0}, RowsAt(a)
       PROVE  RowsAt(a)'
  <2>1. a <= n
    BY <1>11, <1>14 DEF RowsAt
  <2>2. n \in 1..n /\ \A i \in a..(n - 1) : i \in 1..n
    BY <2>1
  <2> QED BY <1>11, <1>14, <2>1, <2>2 DEF RowsAt
<1>24. RowsOK'
  <2>1. CASE app.rows
    <3>1. NumbersFrom(rs.seq) /\ RowsAt(1) /\ ~rs.complete
      BY <2>1, IInvParts DEF RowsOK
    <3>2. RowsAt(1)'
      BY <1>14, <3>1
    <3>3. NumbersFrom(rs.seq)'
      BY <1>1, <1>12, <3>1 DEF NumbersFrom
    <3> QED BY <1>1, <1>2, <3>1, <3>2, <3>3 DEF RowsOK
  <2>2. CASE ~app.rows
    BY <1>1, <2>2 DEF RowsOK
  <2> QED BY <2>1, <2>2
<1>15. CASE at = "none"
  <2>1. IdleOK'
    BY <1>1, <1>8, IInvParts DEF IdleOK
  <2> QED BY <1>1, <1>9, <1>10, <1>15, <1>24, <2>1, Assembled
<1>16. CASE at \in RowReads
  BY <1>1, <1>9, <1>10, <1>16, <1>24, Assembled
<1>17. CASE at = "greeting"
  BY <1>1, <1>17, IInvParts DEF GreetingOK
<1>18. CASE at = "ssl"
  BY <1>1, <1>18, IInvParts DEF SslOK
<1>19. CASE at = "auth"
  <2>1. /\ (chan.ssl <=> "ssl" \in auth.caps) /\ srv.caps = auth.caps
        /\ \/ Rest = 1 /\ Coming[1].t = "ok" /\ Coming[1].seq = chan.seq
           \/ /\ Rest = 2 /\ Coming[1].t = "auth_more_data"
              /\ Coming[1].arg.challenge = "fast_auth_complete" /\ Coming[1].seq = chan.seq
              /\ Coming[2].t = "ok" /\ Coming[2].seq = next_seqnum(chan.seq)
    BY <1>1, <1>2, <1>19, IInvParts DEF AuthOK
  <2>2. n \in {1, 2} /\ 1 \in 1..n /\ (n = 2 => 2 \in 1..n)
    BY <1>11, <2>1
  <2>3. \/ Rest' = 1 /\ Coming'[1].t = "ok" /\ Coming'[1].seq = chan.seq
        \/ /\ Rest' = 2 /\ Coming'[1].t = "auth_more_data"
           /\ Coming'[1].arg.challenge = "fast_auth_complete" /\ Coming'[1].seq = chan.seq
           /\ Coming'[2].t = "ok" /\ Coming'[2].seq = next_seqnum(chan.seq)
    BY <1>11, <2>1, <2>2
  <2>4. AuthOK'
    BY <1>1, <1>2, <1>3, <2>1, <2>3 DEF AuthOK
  <2>5. NegotiatedOK'
    BY <1>1, IInvParts DEF NegotiatedOK
  <2> QED BY <1>1, <1>9, <1>10, <1>19, <2>4, <2>5, Assembled
<1>20. CASE at = "response"
  <2>1. /\ rs.seq = 1 /\ rs.meta = 0 /\ ~rs.complete
        /\ NumbersFrom(1) /\ Rest >= 1
        /\ Coming[1].t \in {"ok", "err", "malformed", "num_fields"}
        /\ Coming[1].t \in {"ok", "err"} => Rest = 1
        /\ Coming[1].t = "num_fields" =>
              ColumnsAt(2, Coming[1].arg + 1) /\ RowsAt(Coming[1].arg + 2)
    BY <1>2, <1>20, IInvParts DEF ResponseOK, Waiting
  <2>2. 1 \in 1..n /\ Coming'[1] = Coming[1]
    BY <1>11, <2>1
  <2>3. ASSUME Coming[1].t = "num_fields"
        PROVE  ColumnsAt(2, Coming[1].arg + 1)' /\ RowsAt(Coming[1].arg + 2)'
    <3>1. Coming[1] \in Msgs
      BY <1>7, <1>8, <1>11, <2>2, IInvParts, ComingFacts
    <3>2. PICK c \in Nat : c = Coming[1].arg /\ c = Coming'[1].arg
      BY <2>2, <2>3, <3>1, MsgFacts, ClientAssumption
    <3>3. ColumnsAt(2, c + 1) /\ RowsAt(c + 2)
      BY <2>1, <2>3, <3>2
    <3>4. c + 2 <= n
      BY <1>11, <3>3 DEF RowsAt
    <3>5. ColumnsAt(2, c + 1)' /\ RowsAt(c + 2)'
      BY <1>13, <1>14, <3>3, <3>4
    <3> QED BY <3>2, <3>5 DEF ColumnsAt, RowsAt
  <2>4. NumbersFrom(1)'
    BY <1>12, <2>1 DEF NumbersFrom
  <2>5. ResponseOK'
    BY <1>1, <1>2, <1>11, <2>1, <2>2, <2>3, <2>4 DEF ResponseOK
  <2> QED BY <1>1, <1>9, <1>10, <1>20, <2>5, Assembled
<1>21. CASE at = "fields"
  <2>1. /\ NumbersFrom(rs.seq) /\ ~rs.complete
        /\ left >= 1 /\ rs.meta + left <= MaxColumns
        /\ ColumnsAt(1, left) /\ RowsAt(left + 1)
    BY <1>21, IInvParts DEF FieldsOK
  <2>2. PICK k \in Nat : k = left
    BY IInvParts DEF Types
  <2>3. k + 1 <= n
    BY <1>11, <2>1, <2>2 DEF RowsAt
  <2>4. ColumnsAt(1, k)' /\ RowsAt(k + 1)'
    BY <1>13, <1>14, <2>1, <2>2, <2>3
  <2>5. ColumnsAt(1, left)' /\ RowsAt(left + 1)'
    BY <1>1, <2>2, <2>4 DEF ColumnsAt, RowsAt
  <2>6. NumbersFrom(rs.seq)'
    BY <1>1, <1>12, <2>1 DEF NumbersFrom
  <2>7. FieldsOK'
    BY <1>1, <1>2, <2>1, <2>5, <2>6 DEF FieldsOK
  <2> QED BY <1>1, <1>9, <1>10, <1>21, <2>7, Assembled
<1>22. CASE at = "prepared"
  <2>1. /\ chan.seq = 1 /\ NumbersFrom(1) /\ Rest >= 1
        /\ Coming[1].t \in {"err", "malformed", "prepare_ok"}
        /\ Coming[1].t = "err" => Rest = 1
        /\ Coming[1].t = "prepare_ok" =>
              Rest = 1 + Coming[1].arg.columns + Coming[1].arg.params
    BY <1>2, <1>22, IInvParts DEF PreparedOK, Waiting
  <2>2. 1 \in 1..n /\ Coming'[1] = Coming[1]
    BY <1>11, <2>1
  <2>3. NumbersFrom(1)'
    BY <1>12, <2>1 DEF NumbersFrom
  <2>4. PreparedOK'
    BY <1>1, <1>2, <1>8, <2>1, <2>2, <2>3 DEF PreparedOK
  <2> QED BY <1>1, <1>9, <1>10, <1>22, <2>4, Assembled
<1>23. CASE at = "meta"
  <2>1. NumbersFrom(chan.seq) /\ left >= 1 /\ Rest = left
    BY <1>23, IInvParts DEF MetaOK
  <2>2. MetaOK'
    BY <1>1, <1>2, <1>8, <1>12, <2>1 DEF MetaOK, NumbersFrom
  <2> QED BY <1>1, <1>9, <1>10, <1>23, <2>2, Assembled
<1> QED BY <1>15, <1>16, <1>17, <1>18, <1>19, <1>20, <1>21, <1>22, <1>23, IInvParts
        DEF Types, Operations, RowReads

-----------------------------------------------------------------------------
(* The invariant holds.                                                       *)

\* The invariant holds at first.
LEMMA InitIInv == Init => IInv
<1> SUFFICES ASSUME Init PROVE IInv
  OBVIOUS
<1>1. /\ toServer \in Seq(Requests) /\ wire \in Seq(Msgs) /\ inbox \in Seq(Msgs)
      /\ fields \in Seq(RowData)
  BY EmptySeq DEF Init
<1>2. 0 \in 0..MaxColumns /\ 0 \in 0..MaxParams /\ 0 \in 0..MaxRounds /\ 0 \in 0..MaxCommands
  BY ClientAssumption
<1>3. chan \in Channels /\ auth \in Auths /\ rs \in Resultsets /\ stmt \in Statements
  BY <1>2, NextSeqnum
  DEF Init, Channels, Auths, NoAuth, Responses, Resultsets, Statements, Caps
<1>4. app \in Apps
  <2>1. app.got \in Seq(RowData) /\ app.commands \in 0..MaxCommands
    BY <1>2, EmptySeq DEF Init
  <2> QED BY <1>2, <2>1, EmptySeq DEF Init, Apps
<1>5. srv \in Servers
  BY <1>2, NextSeqnum, EmptySeq DEF Init, Servers, Caps
<1>6. Types
  BY <1>1, <1>3, <1>4, <1>5 DEF Init, Types, Operations, Results
<1>7. Coming = <<>> /\ Len(Coming) = 0 /\ Len(toServer) = 0
  <2>1. Coming = <<>>
    BY <1>6, ConcatEmptySeq DEF Init, Coming, Types
  <2> QED BY <2>1, EmptySeq DEF Init
<1>8. TimedOutOK /\ NoneYet /\ RequestsOK /\ OpenOK
  BY <1>7 DEF Init, TimedOutOK, NoneYet, RequestsOK, OpenOK
<1>9. PasswordOverSsl
  BY DEF Init, PasswordOverSsl
<1> QED BY <1>6, <1>8, <1>9, GivenUp DEF Init, Always

\* Every step preserves the invariant.
LEMMA StepIInv == IInv /\ [Next]_vars => IInv'
<1> SUFFICES ASSUME IInv, [Next]_vars PROVE IInv'
  OBVIOUS
<1>1. CASE Connect
  BY <1>1, ConnectIInv
<1>2. CASE Reading
  <2>1. CASE ReadGreeting     BY <2>1, ReadGreetingIInv
  <2>2. CASE SslHandshake     BY <2>2, SslHandshakeIInv
  <2>3. CASE ReadAuthResponse BY <2>3, ReadAuthResponseIInv
  <2>4. CASE ReadResponse     BY <2>4, ReadResponseIInv
  <2>5. CASE ReadField        BY <2>5, ReadFieldIInv
  <2>6. CASE ReadPrepared     BY <2>6, ReadPreparedIInv
  <2>7. CASE ReadMeta         BY <2>7, ReadMetaIInv
  <2>8. CASE ReadRow          BY <2>8, ReadRowIInv
  <2>9. CASE ReadEnd          BY <2>9, ReadEndIInv
  <2>10. CASE SeqnumMismatch  BY <2>10, SeqnumMismatchIInv
  <2>11. CASE OperationFails  BY <2>11, OperationFailsIInv
  <2>12. CASE Arrive          BY <2>12, ArriveIInv
  <2> QED BY <1>2, <2>1, <2>2, <2>3, <2>4, <2>5, <2>6, <2>7, <2>8, <2>9, <2>10, <2>11, <2>12
          DEF Reading
<1>3. CASE ExecuteQuery
  BY <1>3, ExecuteQueryIInv
<1>4. CASE PrepareStatement
  BY <1>4, PrepareStatementIInv
<1>5. CASE CloseStatement
  BY <1>5, CloseStatementIInv
<1>6. ASSUME NEW n \in 0..MaxParams, ExecuteStatement(n) PROVE IInv'
  BY <1>6, ExecuteStatementIInv
<1>7. ASSUME NEW kind \in {"one", "some", "all"}, ReadRows(kind) PROVE IInv'
  BY <1>7, ReadRowsIInv DEF RowReads
<1>8. CASE CloseConnection
  BY <1>8, CloseConnectionIInv
<1>9. CASE Lose
  BY <1>9, LoseIInv
<1>10. CASE ServerGreets
  BY <1>10, ServerGreetsIInv
<1>11. CASE ServerTakes
  BY <1>11, ServerTakesIInv
<1>12. CASE ServerTimesOut
  BY <1>12, ServerTimesOutIInv
<1>13. CASE UNCHANGED vars
  <2>1. /\ Types' /\ Coming' = Coming /\ down' = down
        /\ UNCHANGED <<params, at, chan, auth, rs, left, app, toServer, srv>>
    BY <1>13, IInvParts DEF vars, Types, Coming
  <2> QED BY <2>1, Same
<1> QED BY <1>1, <1>2, <1>3, <1>4, <1>5, <1>6, <1>7, <1>8, <1>9, <1>10, <1>11, <1>12, <1>13
        DEF Next

\* For every place an operation waits at, what is still to come from either side
\* is what that operation reads, in order and with the numbers it expects.
THEOREM InvariantHolds == Spec => []IInv
  BY InitIInv, StepIInv, PTL DEF Spec

-----------------------------------------------------------------------------
(* What follows from it.                                                      *)

\* The types of the proofs are stronger than those of the runs.
LEMMA TypesTypeOK == IInv => TypeOK
<1> SUFFICES ASSUME IInv PROVE TypeOK
  OBVIOUS
<1>1. Types
  BY IInvParts
<1>2. /\ params \in Params /\ at \in Operations /\ last \in Results
      /\ chan \in Channels /\ auth \in Auths /\ rs \in Resultsets /\ left \in Nat
      /\ stmt \in Statements
  BY <1>1 DEF Types
<1>3. app.commands \in 0..MaxCommands /\ srv.seq \in SeqNum /\ srv.rounds \in 0..MaxRounds
  BY <1>1, RecordFacts
<1>4. \A q \in {toServer, wire, inbox} : \A i \in DOMAIN q : q[i].seq \in SeqNum
  <2>1. ASSUME NEW i \in DOMAIN toServer PROVE toServer[i].seq \in SeqNum
    <3>1. toServer[i] \in Requests
      BY <1>1 DEF Types
    <3> QED BY <3>1, RequestFacts
  <2>2. ASSUME NEW i \in DOMAIN wire PROVE wire[i].seq \in SeqNum
    <3>1. wire[i] \in Msgs
      BY <1>1 DEF Types
    <3> QED BY <3>1, MsgFacts
  <2>3. ASSUME NEW i \in DOMAIN inbox PROVE inbox[i].seq \in SeqNum
    <3>1. inbox[i] \in Msgs
      BY <1>1 DEF Types
    <3> QED BY <3>1, MsgFacts
  <2> QED BY <2>1, <2>2, <2>3
<1> QED BY <1>2, <1>3, <1>4
        DEF TypeOK, Operations, Channels, Auths, Resultsets, Statements, Caps

\* Types; sequence numbers fit the uint8_t that holds them.
THEOREM TypeCorrect == Spec => []TypeOK
  BY InvariantHolds, TypesTypeOK, PTL

\* The password itself is sent only over SSL; with ssl_mode::require nothing of
\* the user is sent without, whatever the server asks for and how often.
THEOREM PasswordsAreSafe == Spec => []PasswordOverSsl
<1>1. IInv => PasswordOverSsl
  BY IInvParts
<1> QED BY <1>1, InvariantHolds, PTL

\* A connection reported as established was accepted by the server, and both
\* ends have the same idea of its capabilities and of SSL.
THEOREM ConnectedEndsAgree == Spec => []ConnectedMeansAgreed
<1>1. IInv => ConnectedMeansAgreed
  BY IInvParts DEF ConnectedOK, ConnectedMeansAgreed
<1> QED BY <1>1, InvariantHolds, PTL

\* Wherever the client waits, the message to come has the number expected.
LEMMA SequenceFollows == IInv => SequenceAgrees
<1> SUFFICES ASSUME IInv PROVE SequenceAgrees
  OBVIOUS
<1>1. ASSUME toServer # <<>>, srv.phase \notin {"none", "closed"}
      PROVE  Head(toServer).seq = srv.seq
  <2>1. PICK n \in Nat : n = Len(toServer) /\ n # 0 /\ Head(toServer) = toServer[1]
    BY <1>1, IInvParts, RequestsFacts
  <2>2. 1 \in 1..n
    BY <2>1
  <2>3. srv.phase \in {"accept", "auth", "tls", "command"}
    BY <1>1, IInvParts DEF Types, Servers
  <2> QED BY <2>1, <2>2, <2>3, IInvParts, SMTT(30) DEF RequestsOK
<1>2. ASSUME inbox # <<>>, at \notin {"none", "ssl"}, ~srv.timedout
      PROVE  Expected(Expecting)
  <2>1. PICK n \in Nat : /\ n = Len(Coming) /\ n = Rest /\ n >= 1
                         /\ Coming[1] = Head(inbox)
    BY <1>2, IInvParts, ComingFacts DEF Rest, Extra
  <2>2. CASE at = "greeting"
    BY <1>2, <2>1, <2>2, IInvParts DEF GreetingOK, Expected, Expecting, Handshaking
  <2>3. CASE at = "auth"
    <3>1. Coming[1].seq = chan.seq
      BY <1>2, <2>1, <2>3, IInvParts DEF AuthOK
    <3> QED BY <1>2, <2>1, <2>3, <3>1 DEF Expected, Expecting, Handshaking
  <2>4. CASE at = "response"
    <3>1. rs.seq = 1 /\ NumbersFrom(1)
      BY <2>1, <2>4, IInvParts DEF ResponseOK, Waiting
    <3>2. Coming[1].seq = rs.seq
      BY <2>1, <3>1 DEF NumbersFrom
    <3> QED BY <1>2, <2>1, <2>4, <3>2 DEF Expected, Expecting, Handshaking
  <2>5. CASE at = "prepared"
    <3>1. chan.seq = 1 /\ NumbersFrom(1)
      BY <2>1, <2>5, IInvParts DEF PreparedOK, Waiting
    <3>2. Coming[1].seq = chan.seq
      BY <2>1, <3>1 DEF NumbersFrom
    <3> QED BY <1>2, <2>1, <2>5, <3>2 DEF Expected, Expecting, Handshaking
  <2>6. CASE at = "meta"
    <3>1. Coming[1].seq = chan.seq
      BY <2>1, <2>6, IInvParts DEF MetaOK, NumbersFrom
    <3> QED BY <1>2, <2>1, <2>6, <3>1 DEF Expected, Expecting, Handshaking
  <2>7. CASE at = "fields"
    <3>1. Coming[1].seq = rs.seq
      BY <2>1, <2>7, IInvParts DEF FieldsOK, NumbersFrom
    <3> QED BY <1>2, <2>1, <2>7, <3>1 DEF Expected, Expecting, Handshaking
  <2>8. CASE at \in RowReads
    <3>1. Coming[1].seq = rs.seq
      BY <2>1, <2>8, IInvParts DEF ConnectedOK, RowsOK, NumbersFrom
    <3> QED BY <1>2, <2>1, <2>8, <3>1 DEF Expected, Expecting, Handshaking, RowReads
  <2> QED BY <1>2, <2>2, <2>3, <2>4, <2>5, <2>6, <2>7, <2>8, IInvParts
          DEF Types, Operations, RowReads
<1> QED BY <1>1, <1>2 DEF SequenceAgrees

\* The next message always has the sequence number its receiver expects, in both
\* directions, but for the error of a server that closes an idle connection.
THEOREM SequenceNumbersAgree == Spec => []SequenceAgrees
  BY InvariantHolds, SequenceFollows, PTL

\* An idle connection has nothing to come.
LEMMA SynchronizedFollows == IInv => Synchronized
<1> SUFFICES ASSUME IInv, at = "none", app.connected, ~app.rows, ~down
             PROVE  /\ inbox = <<>> /\ wire = <<>>
                    /\ \A i \in DOMAIN toServer : toServer[i].t = "close_statement"
                    /\ srv.phase = "command"
  BY DEF Synchronized
<1>1. ~srv.timedout /\ srv.phase = "command"
  BY IInvParts DEF TimedOutOK, ConnectedOK
<1>2. Rest = 0 /\ \A i \in 1..Len(toServer) : toServer[i].t = "close_statement"
  BY IInvParts DEF IdleOK
<1>3. Len(inbox) \in Nat /\ Len(wire) \in Nat /\ Len(inbox) + Len(wire) = 0
  <2>1. Len(Coming) = Len(inbox) + Len(wire) /\ Len(Coming) \in Nat
    BY IInvParts, ComingFacts
  <2>2. Len(Coming) = 0
    BY <1>1, <1>2, <2>1 DEF Rest, Extra
  <2>3. Len(inbox) \in Nat /\ Len(wire) \in Nat
    BY IInvParts, LenProperties DEF Types
  <2> QED BY <2>1, <2>2, <2>3
<1>4. Len(inbox) = 0 /\ Len(wire) = 0
  BY <1>3
<1>5. inbox = <<>> /\ wire = <<>>
  BY <1>4, IInvParts, EmptySeq DEF Types
<1>6. DOMAIN toServer = 1..Len(toServer)
  BY IInvParts, LenProperties DEF Types
<1> QED BY <1>1, <1>2, <1>5, <1>6

\* Between operations nothing is left to be read and nothing unanswered, also
\* after an error the server reports: a command is answered by its own answer.
THEOREM AlwaysSynchronized == Spec => []Synchronized
  BY InvariantHolds, SynchronizedFollows, PTL

-----------------------------------------------------------------------------
(* The rows that reach the application are those of the server's last result. *)

\* After a messages that are to come, the rows of the server's last result
\* follow, from the one behind row k on, each of c columns, and then its end.
RowsFrom(a, k, c) ==
  /\ Len(srv.rows) = k + (Rest - a - 1)
  /\ \A i \in 1..Len(srv.rows) : srv.rows[i].columns = c
  /\ \A i \in (a + 1)..(Rest - 1) : Coming[i].t = "row" => Coming[i].arg = srv.rows[(k + i) - a]
  /\ Coming[Rest].t \in {srv.end, "malformed"}

\* Of the rows, the application has got, and the read in progress has collected.
Collected == IF at \in RowReads THEN Len(fields) ELSE 0

\* What the application has, has the columns of the metadata.
GotOK == \A i \in 1..Len(app.got) : app.got[i].columns = rs.meta

\* Of a new result it has nothing yet.
FreshOK == at \in {"response", "fields"} => Len(app.got) = 0

\* The answer to a query.
AnswerOK == at = "response" /\ Len(toServer) = 0 =>
  /\ Coming[1].t = "ok" => srv.end = "ok"
  /\ Coming[1].t = "num_fields" => RowsFrom(Coming[1].arg + 1, 0, Coming[1].arg)

\* Its rows, behind the rest of its fields, ...
FieldRowsOK == at = "fields" => RowsFrom(left, 0, rs.meta + left)

\* ... and those the application has not read yet.
RowDataOK == app.rows =>
  /\ RowsFrom(0, Len(app.got) + Collected, rs.meta)
  /\ \A i \in 1..Len(app.got) : app.got[i] = srv.rows[i]
  /\ \A i \in 1..Collected : fields[i] = srv.rows[Len(app.got) + i]

\* The answer to a request to prepare a statement is not a result.
NoResultOK == at \in {"prepared", "meta"} /\ Len(toServer) = 0 => srv.end \in {"ok", "err"}

\* Before the first query no result is complete.
BeforeOK == srv.phase = "none" \/ at \in Handshaking => ~rs.complete

\* A complete result.
CompleteOK == at = "none" /\ app.connected /\ rs.complete /\ srv.end = "eof" =>
  app.got = srv.rows

DataOK == /\ GotOK /\ FreshOK /\ AnswerOK /\ FieldRowsOK /\ RowDataOK
          /\ NoResultOK /\ BeforeOK /\ CompleteOK
RInv == IInv /\ DataOK

-----------------------------------------------------------------------------
(* Lemmas.                                                                    *)

\* The parts of the invariant.
LEMMA RInvParts ==
  RInv => /\ IInv /\ GotOK /\ FreshOK /\ AnswerOK /\ FieldRowsOK /\ RowDataOK
          /\ NoResultOK /\ BeforeOK /\ CompleteOK
  BY DEF RInv, DataOK

\* How much is to come before the error of a server that timed out.
LEMMA RestFacts ==
  ASSUME IInv
  PROVE  Rest \in Nat /\ Len(Coming) \in Nat /\ Rest <= Len(Coming)
<1>1. Len(Coming) \in Nat /\ Extra \in {0, 1}
  BY IInvParts, ComingFacts
<1>2. srv.timedout => Len(Coming) >= 1
  BY IInvParts DEF TimedOutOK
<1>3. Extra = 1 => Len(Coming) >= 1
  BY <1>2 DEF Extra
<1> QED BY <1>1, <1>3 DEF Rest

\* The rows to come stay the same as long as nothing is taken and no new answer
\* is sent.
LEMMA RowsFromKept ==
  ASSUME IInv, srv'.rows = srv.rows, srv'.end = srv.end, Rest' = Rest,
         \A i \in 1..Rest : Coming'[i] = Coming[i],
         NEW a \in Nat, NEW k, NEW c, a + 1 <= Rest, RowsFrom(a, k, c)
  PROVE  RowsFrom(a, k, c)'
<1>1. PICK n \in Nat : n = Rest /\ a + 1 <= n
  BY RestFacts
<1>2. n \in 1..n /\ \A i \in (a + 1)..(n - 1) : i \in 1..n
  BY <1>1
<1> QED BY <1>1, <1>2 DEF RowsFrom

\* A message before the rows is taken.
LEMMA RowsFromTaken ==
  ASSUME IInv, inbox # <<>>, Take,
         NEW a \in Nat \ {0}, NEW k \in Nat, NEW c, a + 1 <= Rest, RowsFrom(a, k, c)
  PROVE  RowsFrom(a - 1, k, c)'
<1>1. /\ srv' = srv /\ Rest' = Rest - 1 /\ Len(Coming') = Len(Coming) - 1
      /\ \A i \in 1..Len(Coming') : Coming'[i] = Coming[i + 1]
  BY IInvParts, TakeFacts
<1>2. PICK n \in Nat : n = Rest /\ a + 1 <= n /\ n <= Len(Coming) /\ Len(Coming) \in Nat
  BY RestFacts
<1>3. \A i \in 1..(n - 1) : Coming'[i] = Coming[i + 1]
  BY <1>1, <1>2
<1>4. /\ Len(srv.rows) = k + (n - a - 1)
      /\ \A i \in 1..Len(srv.rows) : srv.rows[i].columns = c
      /\ \A i \in (a + 1)..(n - 1) : Coming[i].t = "row" => Coming[i].arg = srv.rows[(k + i) - a]
      /\ Coming[n].t \in {srv.end, "malformed"}
  BY <1>2 DEF RowsFrom
<1>5. Rest' = n - 1 /\ Len(srv.rows) = k + ((n - 1) - (a - 1) - 1)
  BY <1>1, <1>2, <1>4
<1>6. ASSUME NEW i \in ((a - 1) + 1)..((n - 1) - 1), Coming'[i].t = "row"
      PROVE  Coming'[i].arg = srv.rows[(k + i) - (a - 1)]
  <2>1. i \in 1..(n - 1) /\ i + 1 \in (a + 1)..(n - 1) /\ (k + (i + 1)) - a = (k + i) - (a - 1)
    BY <1>2
  <2> QED BY <1>3, <1>4, <1>6, <2>1
<1>7. Coming'[n - 1].t \in {srv.end, "malformed"}
  <2>1. n - 1 \in 1..(n - 1) /\ (n - 1) + 1 = n
    BY <1>2
  <2> QED BY <1>3, <1>4, <2>1
<1> QED BY <1>1, <1>4, <1>5, <1>6, <1>7 DEF RowsFrom

\* A row is taken.
LEMMA RowTaken ==
  ASSUME IInv, inbox # <<>>, Take, NEW k \in Nat, NEW c, 2 <= Rest, RowsFrom(0, k, c)
  PROVE  /\ RowsFrom(0, k + 1, c)'
         /\ Coming[1].t = "row" => Coming[1].arg = srv.rows[k + 1]
<1>1. /\ srv' = srv /\ Rest' = Rest - 1 /\ Len(Coming') = Len(Coming) - 1
      /\ \A i \in 1..Len(Coming') : Coming'[i] = Coming[i + 1]
  BY IInvParts, TakeFacts
<1>2. PICK n \in Nat : n = Rest /\ 2 <= n /\ n <= Len(Coming) /\ Len(Coming) \in Nat
  BY RestFacts
<1>3. \A i \in 1..(n - 1) : Coming'[i] = Coming[i + 1]
  BY <1>1, <1>2
<1>4. /\ Len(srv.rows) = k + (n - 0 - 1)
      /\ \A i \in 1..Len(srv.rows) : srv.rows[i].columns = c
      /\ \A i \in (0 + 1)..(n - 1) : Coming[i].t = "row" => Coming[i].arg = srv.rows[(k + i) - 0]
      /\ Coming[n].t \in {srv.end, "malformed"}
  BY <1>2 DEF RowsFrom
<1>5. Rest' = n - 1 /\ Len(srv.rows) = (k + 1) + ((n - 1) - 0 - 1)
  BY <1>1, <1>2, <1>4
<1>6. ASSUME NEW i \in (0 + 1)..((n - 1) - 1), Coming'[i].t = "row"
      PROVE  Coming'[i].arg = srv.rows[((k + 1) + i) - 0]
  <2>1. i \in 1..(n - 1) /\ i + 1 \in (0 + 1)..(n - 1) /\ (k + (i + 1)) - 0 = ((k + 1) + i) - 0
    BY <1>2
  <2> QED BY <1>3, <1>4, <1>6, <2>1
<1>7. Coming'[n - 1].t \in {srv.end, "malformed"}
  <2>1. n - 1 \in 1..(n - 1) /\ (n - 1) + 1 = n
    BY <1>2
  <2> QED BY <1>3, <1>4, <2>1
<1>8. Coming[1].t = "row" => Coming[1].arg = srv.rows[k + 1]
  <2>1. 1 \in (0 + 1)..(n - 1) /\ (k + 1) - 0 = k + 1
    BY <1>2
  <2> QED BY <1>4, <2>1
<1> QED BY <1>1, <1>4, <1>5, <1>6, <1>7, <1>8 DEF RowsFrom

\* A step that leaves the client without a result to read.
LEMMA NotConcerned ==
  ASSUME DataOK, rs'.meta = rs.meta, rs'.complete = rs.complete,
         app'.got = app.got, ~app'.rows,
         at' \notin {"response", "fields", "prepared", "meta"},
         ~app'.connected \/ ~rs.complete,
         srv'.phase = "none" \/ at' \in Handshaking => ~rs.complete
  PROVE  DataOK'
<1>1. GotOK'
  BY DEF DataOK, GotOK
<1>2. FreshOK' /\ AnswerOK' /\ FieldRowsOK' /\ RowDataOK' /\ NoResultOK' /\ BeforeOK' /\ CompleteOK'
  BY DEF FreshOK, AnswerOK, FieldRowsOK, RowDataOK, NoResultOK, BeforeOK, CompleteOK
<1> QED BY <1>1, <1>2 DEF DataOK

\* A step that takes nothing and sends no answer.
LEMMA DataSame ==
  ASSUME RInv, UNCHANGED <<at, rs, left, fields, app, toServer>>,
         srv'.rows = srv.rows, srv'.end = srv.end, srv'.phase = "none" => srv.phase = "none",
         Rest' = Rest, \A i \in 1..Rest : Coming'[i] = Coming[i]
  PROVE  DataOK'
<1>1. IInv /\ DataOK
  BY DEF RInv
<1>2. GotOK' /\ FreshOK' /\ NoResultOK' /\ BeforeOK' /\ CompleteOK'
  BY <1>1 DEF DataOK, GotOK, FreshOK, NoResultOK, BeforeOK, CompleteOK
<1>3. AnswerOK'
  <2>1. CASE at = "response" /\ Len(toServer) = 0
    <3>1. /\ Rest \in Nat /\ Rest >= 1
          /\ Coming[1].t = "num_fields" => RowsAt(Coming[1].arg + 2)
      BY <1>1, <2>1, IInvParts, RestFacts DEF ResponseOK, Waiting
    <3>2. Coming'[1] = Coming[1] /\ Coming[1] \in Msgs
      <4>1. 1 \in 1..Rest /\ 1 \in 1..Len(Coming)
        BY <1>1, <3>1, RestFacts
      <4> QED BY <1>1, <4>1, IInvParts, ComingFacts
    <3>3. ASSUME Coming[1].t = "num_fields"
          PROVE  RowsFrom(Coming[1].arg + 1, 0, Coming[1].arg)'
      <4>1. PICK c \in Nat : c = Coming[1].arg
        BY <3>2, <3>3, MsgFacts, ClientAssumption
      <4>2. c + 2 <= Rest /\ RowsFrom(c + 1, 0, c)
        BY <1>1, <2>1, <3>1, <3>3, <4>1 DEF RowsAt, DataOK, AnswerOK
      <4>3. PICK a \in Nat : a = c + 1 /\ a + 1 <= Rest
        BY <3>1, <4>2
      <4>4. RowsFrom(a, 0, c)'
        BY <1>1, <4>2, <4>3, RowsFromKept
      <4>5. a = Coming'[1].arg + 1 /\ c = Coming'[1].arg
        BY <3>2, <4>1, <4>3
      <4> QED BY <4>4, <4>5 DEF RowsFrom
    <3> QED BY <1>1, <2>1, <3>2, <3>3 DEF DataOK, AnswerOK
  <2>2. CASE ~(at = "response" /\ Len(toServer) = 0)
    BY <2>2 DEF AnswerOK
  <2> QED BY <2>1, <2>2
<1>4. FieldRowsOK'
  <2>1. CASE at = "fields"
    <3>1. PICK a \in Nat : a = left /\ a + 1 <= Rest
      BY <1>1, <2>1, IInvParts DEF Types, FieldsOK, RowsAt
    <3>2. PICK c : c = rs.meta + left
      OBVIOUS
    <3>3. RowsFrom(a, 0, c)'
      BY <1>1, <2>1, <3>1, <3>2, RowsFromKept DEF DataOK, FieldRowsOK
    <3> QED BY <3>1, <3>2, <3>3 DEF FieldRowsOK, RowsFrom
  <2>2. CASE at # "fields"
    BY <2>2 DEF FieldRowsOK
  <2> QED BY <2>1, <2>2
<1>5. RowDataOK'
  <2>1. CASE app.rows
    <3>1. Rest >= 1 /\ Collected' = Collected
      BY <1>1, <2>1, IInvParts DEF RowsOK, RowsAt, Collected
    <3>2. PICK k, c : k = Len(app.got) + Collected /\ c = rs.meta
      OBVIOUS
    <3>3. 0 \in Nat /\ 0 + 1 <= Rest
      BY <1>1, <3>1, RestFacts
    <3>4. RowsFrom(0, k, c)'
      BY <1>1, <2>1, <3>2, <3>3, RowsFromKept DEF DataOK, RowDataOK
    <3>5. RowsFrom(0, Len(app.got) + Collected, rs.meta)'
      BY <3>1, <3>2, <3>4 DEF RowsFrom
    <3> QED BY <1>1, <2>1, <3>1, <3>5 DEF DataOK, RowDataOK
  <2>2. CASE ~app.rows
    BY <2>2 DEF RowDataOK
  <2> QED BY <2>1, <2>2
<1> QED BY <1>2, <1>3, <1>4, <1>5 DEF DataOK

-----------------------------------------------------------------------------
(* The client's steps.                                                        *)

\* A step of the handshake.
LEMMA HandshakeData ==
  ASSUME RInv, at \in Handshaking \/ srv.phase = "none",
         rs' = rs, app'.got = app.got, app'.rows = app.rows, at' \in Handshaking \cup {"none"}
  PROVE  DataOK'
<1>1. ~rs.complete /\ ~app.rows /\ DataOK
  BY RInvParts, IInvParts DEF BeforeOK, NoneYet, ConnectedOK, Handshaking, RowReads, RInv
<1> QED BY <1>1, NotConcerned DEF Handshaking

\* A new connection: nothing of the old one is left to read.
LEMMA ConnectData == RInv /\ Connect => DataOK'
<1> SUFFICES ASSUME RInv, Connect PROVE DataOK'
  OBVIOUS
<1>1. srv.phase = "none" /\ rs' = rs /\ app' = app /\ at' \in Handshaking \cup {"none"}
  BY DEF Connect, Complete, Handshaking
<1> QED BY <1>1, HandshakeData

\* The server's greeting is taken.
LEMMA ReadGreetingData == RInv /\ ReadGreeting => DataOK'
<1> SUFFICES ASSUME RInv, ReadGreeting PROVE DataOK'
  OBVIOUS
<1>1. at = "greeting" /\ rs' = rs /\ app' = app
  BY DEF ReadGreeting
<1>2. at' \in {"none", "ssl", "auth"}
  BY DEF ReadGreeting, ConnectFails, Complete
<1> QED BY <1>1, <1>2, HandshakeData DEF Handshaking

\* The channel becomes TLS; no message is taken.
LEMMA SslHandshakeData == RInv /\ SslHandshake => DataOK'
<1> SUFFICES ASSUME RInv, SslHandshake PROVE DataOK'
  OBVIOUS
<1>1. at = "ssl" /\ rs' = rs /\ app' = app /\ at' \in {"none", "auth"}
  BY DEF SslHandshake, ConnectFails, Complete
<1> QED BY <1>1, HandshakeData DEF Handshaking

\* An answer of the authentication is taken.
LEMMA ReadAuthResponseData == RInv /\ ReadAuthResponse => DataOK'
<1> SUFFICES ASSUME RInv, ReadAuthResponse PROVE DataOK'
  OBVIOUS
<1>1. at = "auth" /\ rs' = rs
  BY DEF ReadAuthResponse
<1>2. at' \in {"none", "auth"}
  BY <1>1 DEF ReadAuthResponse, ConnectFails, Complete
<1>3. app' = app \/ app' = [app EXCEPT !.connected = TRUE]
  BY DEF ReadAuthResponse
<1>4. app'.got = app.got /\ app'.rows = app.rows
  BY <1>3, RInvParts, IInvParts DEF Types, Apps
<1> QED BY <1>1, <1>2, <1>4, HandshakeData DEF Handshaking

\* A query or statement is sent.
LEMMA ExecuteData ==
  ASSUME RInv, Ready, NEW t \in {"query", "execute"}, Execute(t)
  PROVE  DataOK'
<1>1. /\ at' = "response" /\ rs' = [reset(rs) EXCEPT !.seq = next_seqnum(@)]
      /\ app' = [app EXCEPT !.commands = @ + 1, !.got = <<>>] /\ ~app.rows
      /\ toServer' = Append(toServer, [t |-> t, arg |-> app.commands + 1,
                                       seq |-> reset(rs).seq, ssl |-> chan.ssl])
  BY DEF Execute, Ready, Send
<1>2. ~rs'.complete
  BY <1>1 DEF reset
<1>3. app'.got = <<>> /\ ~app'.rows
  BY <1>1, RInvParts, IInvParts DEF Types, Apps
<1>4. Len(toServer') # 0
  <2>1. Len(toServer') = Len(toServer) + 1 /\ Len(toServer) \in Nat
    BY <1>1, RInvParts, IInvParts, AppendProperties, LenProperties DEF Types
  <2> QED BY <2>1
<1>5. Len(app'.got) = 0
  BY <1>3
<1>6. GotOK' /\ FreshOK'
  BY <1>5 DEF GotOK, FreshOK
<1>7. AnswerOK' /\ FieldRowsOK' /\ RowDataOK' /\ NoResultOK' /\ BeforeOK' /\ CompleteOK'
  BY <1>1, <1>2, <1>3, <1>4
  DEF AnswerOK, FieldRowsOK, RowDataOK, NoResultOK, BeforeOK, CompleteOK
<1> QED BY <1>6, <1>7 DEF DataOK

\* COM_QUERY is sent.
LEMMA ExecuteQueryData == RInv /\ ExecuteQuery => DataOK'
  BY ExecuteData DEF ExecuteQuery

\* COM_STMT_EXECUTE is sent.
LEMMA ExecuteStatementData ==
  ASSUME RInv, NEW n \in 0..MaxParams, ExecuteStatement(n)
  PROVE  DataOK'
<1>1. CASE n # stmt.params
  <2>1. /\ at = "none" /\ at' = "none"
        /\ UNCHANGED <<params, chan, auth, rs, left, stmt, fields, app, toServer, wire, inbox, down, srv>>
    BY <1>1 DEF ExecuteStatement, Ready, Complete
  <2>2. Rest' = Rest /\ Coming' = Coming
    BY <2>1 DEF Rest, Extra, Coming
  <2> QED BY <2>1, <2>2, DataSame
<1>2. CASE n = stmt.params
  BY <1>2, ExecuteData DEF ExecuteStatement
<1> QED BY <1>1, <1>2

\* The first message of the answer to a query or statement is taken.
LEMMA ReadResponseData == RInv /\ ReadResponse => DataOK'
<1> SUFFICES ASSUME RInv, ReadResponse PROVE DataOK'
  OBVIOUS
<1> DEFINE m == Head(inbox)
<1>0. /\ at = "response" /\ Expected(rs.seq) /\ Take
      /\ UNCHANGED <<params, chan, auth, stmt, fields, toServer>> /\ DataOK /\ IInv
  BY DEF ReadResponse, RInv
<1>1. /\ inbox # <<>> /\ Rest \in Nat /\ Rest >= 1
      /\ Coming[1] = m /\ m \in Msgs /\ srv' = srv
      /\ app.connected /\ srv.phase \in {"command", "closed"}
  <2>1. Expecting = rs.seq /\ at \notin Handshaking \cup {"none"}
    BY <1>0 DEF Expecting, Handshaking
  <2> QED BY <1>0, <2>1, ReadFacts
<1>2. /\ rs.meta = 0 /\ ~rs.complete /\ Len(toServer) = 0
      /\ m.t = "num_fields" => RowsAt(m.arg + 2)
  BY <1>0, <1>1, IInvParts DEF ResponseOK, Waiting
<1>3. ~app.rows /\ Len(app.got) = 0
  BY <1>0, RInvParts, IInvParts DEF ConnectedOK, RowReads, FreshOK
<1>4. /\ m.t = "ok" => srv.end = "ok"
      /\ m.t = "num_fields" => RowsFrom(m.arg + 1, 0, m.arg)
  BY <1>0, <1>1, <1>2, RInvParts DEF AnswerOK
<1>5. CASE m.t = "ok" /\ Complete("ok")
           /\ rs' = [rs EXCEPT !.seq = next_seqnum(@), !.complete = TRUE]
           /\ UNCHANGED <<left, app>>
  <2>1. at' = "none" /\ app' = app
    BY <1>5 DEF Complete
  <2>2. GotOK' /\ FreshOK'
    BY <1>3, <2>1 DEF GotOK, FreshOK
  <2>3. AnswerOK' /\ FieldRowsOK' /\ RowDataOK' /\ NoResultOK' /\ BeforeOK' /\ CompleteOK'
    BY <1>1, <1>3, <1>4, <1>5, <2>1
    DEF AnswerOK, FieldRowsOK, RowDataOK, NoResultOK, BeforeOK, CompleteOK, Handshaking
  <2> QED BY <2>2, <2>3 DEF DataOK
<1>6. CASE m.t \notin {"ok", "num_fields"} /\ Fail(Refusal(m))
           /\ rs' = [rs EXCEPT !.seq = next_seqnum(@)]
           /\ UNCHANGED left
  <2>1. /\ at' = "none" /\ ~app'.rows /\ app'.got = app.got
        /\ rs'.meta = rs.meta /\ rs'.complete = rs.complete
    BY <1>6, IInvParts, RInvParts DEF Fail, Complete, Types, Apps, Resultsets
  <2> QED BY <1>0, <1>2, <2>1, NotConcerned
<1>7. CASE m.t = "num_fields" /\ left' = m.arg
           /\ rs' = [rs EXCEPT !.seq = next_seqnum(@)]
           /\ at' = "fields"
           /\ UNCHANGED <<last, app>>
  <2>1. rs'.meta = 0 /\ ~rs'.complete
    BY <1>2, <1>7, IInvParts, RInvParts DEF Types, Resultsets
  <2>2. PICK c \in Nat : c = m.arg
    BY <1>1, <1>7, MsgFacts, ClientAssumption
  <2>3. RowsFrom(c + 1, 0, c) /\ c + 2 <= Rest
    BY <1>2, <1>4, <1>7, <2>2 DEF RowsAt
  <2>4. PICK a \in Nat \ {0} : a = c + 1 /\ a + 1 <= Rest /\ a - 1 = c
    BY <1>1, <2>3
  <2>5. RowsFrom(a - 1, 0, c)'
    BY <1>0, <1>1, <2>3, <2>4, RowsFromTaken
  <2>6. left' = c /\ rs'.meta + left' = c
    BY <1>7, <2>1, <2>2
  <2>7. FieldRowsOK'
    BY <2>4, <2>5, <2>6 DEF FieldRowsOK, RowsFrom
  <2>8. GotOK' /\ FreshOK'
    BY <1>3, <1>7 DEF GotOK, FreshOK
  <2>9. AnswerOK' /\ RowDataOK' /\ NoResultOK' /\ BeforeOK' /\ CompleteOK'
    BY <1>3, <1>7, <2>1 DEF AnswerOK, RowDataOK, NoResultOK, BeforeOK, CompleteOK
  <2> QED BY <2>7, <2>8, <2>9 DEF DataOK
<1> QED BY <1>5, <1>6, <1>7 DEF ReadResponse

\* A field definition of a result's metadata is taken.
LEMMA ReadFieldData == RInv /\ ReadField => DataOK'
<1> SUFFICES ASSUME RInv, ReadField PROVE DataOK'
  OBVIOUS
<1> DEFINE m == Head(inbox)
<1>0. /\ at = "fields" /\ Expected(rs.seq) /\ Take
      /\ UNCHANGED <<params, chan, auth, stmt, fields, toServer>> /\ DataOK /\ IInv
  BY DEF ReadField, RInv
<1>1. /\ inbox # <<>> /\ Rest \in Nat /\ srv' = srv
      /\ app.connected /\ srv.phase \in {"command", "closed"}
  <2>1. Expecting = rs.seq /\ at \notin Handshaking \cup {"none"}
    BY <1>0 DEF Expecting, Handshaking
  <2> QED BY <1>0, <2>1, ReadFacts
<1>2. left \in Nat /\ left >= 1 /\ left + 1 <= Rest /\ ~rs.complete /\ rs.meta \in Nat
  <2>1. rs.meta \in 0..MaxColumns
    BY <1>0, IInvParts, RecordFacts
  <2> QED BY <1>0, <2>1, ClientAssumption, IInvParts DEF Types, FieldsOK, RowsAt
<1>3. ~app.rows /\ Len(app.got) = 0 /\ RowsFrom(left, 0, rs.meta + left)
  BY <1>0, RInvParts, IInvParts DEF ConnectedOK, RowReads, FreshOK, FieldRowsOK
<1>4. CASE /\ rs' = [rs EXCEPT !.seq = next_seqnum(@), !.meta = @ + 1]
           /\ left' = left - 1
           /\ IF has_remaining(left') THEN UNCHANGED <<at, last, app>>
              ELSE Complete("ok") /\ app' = [app EXCEPT !.rows = TRUE]
  <2>1. rs'.meta = rs.meta + 1 /\ ~rs'.complete
    BY <1>2, <1>4, IInvParts, RInvParts DEF Types, Resultsets
  <2>2. PICK a \in Nat \ {0}, c \in Nat :
           a = left /\ c = rs.meta + left /\ left' = a - 1 /\ rs'.meta + left' = c
    BY <1>2, <1>4, <2>1
  <2>3. RowsFrom(a - 1, 0, c)'
    BY <1>0, <1>1, <1>2, <1>3, <2>2, RowsFromTaken
  <2>4. CASE left' # 0
    <3>1. at' = "fields" /\ app' = app
      BY <1>0, <1>4, <2>4 DEF has_remaining
    <3>2. FieldRowsOK'
      BY <2>2, <2>3 DEF FieldRowsOK, RowsFrom
    <3>3. GotOK' /\ FreshOK'
      BY <1>3, <3>1 DEF GotOK, FreshOK
    <3>4. AnswerOK' /\ RowDataOK' /\ NoResultOK' /\ BeforeOK' /\ CompleteOK'
      BY <1>3, <2>1, <3>1 DEF AnswerOK, RowDataOK, NoResultOK, BeforeOK, CompleteOK
    <3> QED BY <3>2, <3>3, <3>4 DEF DataOK
  <2>5. CASE left' = 0
    <3>1. at' = "none" /\ app' = [app EXCEPT !.rows = TRUE]
      BY <1>4, <2>5 DEF has_remaining, Complete
    <3>2. app'.got = app.got /\ Len(app'.got) = 0
      BY <1>3, <3>1, IInvParts, RInvParts DEF Types, Apps
    <3>3. Collected' = 0
      BY <3>1 DEF Collected, RowReads
    <3>4. a - 1 = 0 /\ Len(app'.got) + Collected' = 0 /\ rs'.meta = c
      BY <1>2, <2>1, <2>2, <2>5, <3>2, <3>3
    <3>5. RowsFrom(0, Len(app.got) + Collected, rs.meta)'
      BY <2>3, <3>4 DEF RowsFrom
    <3>6. RowDataOK'
      BY <3>2, <3>3, <3>5 DEF RowDataOK
    <3>7. GotOK' /\ FreshOK'
      BY <3>2 DEF GotOK, FreshOK
    <3>8. AnswerOK' /\ FieldRowsOK' /\ NoResultOK' /\ BeforeOK' /\ CompleteOK'
      BY <2>1, <3>1 DEF AnswerOK, FieldRowsOK, NoResultOK, BeforeOK, CompleteOK
    <3> QED BY <3>6, <3>7, <3>8 DEF DataOK
  <2> QED BY <2>4, <2>5
<1>5. CASE /\ Fail("protocol_value_error")
           /\ rs' = [rs EXCEPT !.seq = next_seqnum(@)]
  <2>1. /\ at' = "none" /\ ~app'.rows /\ app'.got = app.got
        /\ rs'.meta = rs.meta /\ rs'.complete = rs.complete
    BY <1>5, IInvParts, RInvParts DEF Fail, Complete, Types, Apps, Resultsets
  <2> QED BY <1>0, <1>2, <2>1, NotConcerned
<1> QED BY <1>4, <1>5 DEF ReadField

\* COM_STMT_PREPARE is sent.
LEMMA PrepareStatementData == RInv /\ PrepareStatement => DataOK'
<1> SUFFICES ASSUME RInv, PrepareStatement PROVE DataOK'
  OBVIOUS
<1>1. /\ at' = "prepared" /\ rs' = rs /\ srv' = srv /\ ~app.rows /\ app.connected
      /\ app' = [app EXCEPT !.commands = @ + 1]
      /\ toServer' = Append(toServer, [t |-> "prepare", arg |-> <<>>, seq |-> 0, ssl |-> chan.ssl])
  BY DEF PrepareStatement, Ready, Send
<1>2. app'.got = app.got /\ ~app'.rows /\ srv.phase # "none"
  BY <1>1, RInvParts, IInvParts, Begun DEF Types, Apps
<1>3. Len(toServer') # 0
  <2>1. Len(toServer') = Len(toServer) + 1 /\ Len(toServer) \in Nat
    BY <1>1, RInvParts, IInvParts, AppendProperties, LenProperties DEF Types
  <2> QED BY <2>1
<1>4. GotOK' /\ FreshOK'
  BY <1>1, <1>2, RInvParts DEF GotOK, FreshOK
<1>5. AnswerOK' /\ FieldRowsOK' /\ RowDataOK' /\ NoResultOK' /\ BeforeOK' /\ CompleteOK'
  BY <1>1, <1>2, <1>3
  DEF AnswerOK, FieldRowsOK, RowDataOK, NoResultOK, BeforeOK, CompleteOK, Handshaking
<1> QED BY <1>4, <1>5 DEF DataOK

\* A message that answers a prepare request is taken; nothing of it concerns rows.
LEMMA PreparedData ==
  ASSUME RInv, at \in {"prepared", "meta"}, Len(toServer) = 0, toServer' = toServer,
         rs' = rs, srv' = srv, app.connected, app'.got = app.got, ~app'.rows,
         at' \in {"meta", "none"}
  PROVE  DataOK'
<1>1. srv.end \in {"ok", "err"} /\ srv.phase # "none"
  BY RInvParts, Begun DEF NoResultOK
<1>2. GotOK' /\ FreshOK'
  BY RInvParts DEF GotOK, FreshOK
<1>3. AnswerOK' /\ FieldRowsOK' /\ RowDataOK' /\ NoResultOK' /\ BeforeOK' /\ CompleteOK'
  BY <1>1 DEF AnswerOK, FieldRowsOK, RowDataOK, NoResultOK, BeforeOK, CompleteOK, Handshaking
<1> QED BY <1>2, <1>3 DEF DataOK

\* The first message of the answer to prepare_statement is taken.
LEMMA ReadPreparedData == RInv /\ ReadPrepared => DataOK'
<1> SUFFICES ASSUME RInv, ReadPrepared PROVE DataOK'
  OBVIOUS
<1>0. /\ at = "prepared" /\ Expected(chan.seq) /\ Take
      /\ rs' = rs /\ toServer' = toServer /\ IInv
  BY DEF ReadPrepared, RInv
<1>1. Rest \in Nat /\ Rest >= 1 /\ srv' = srv /\ app.connected
  <2>1. Expecting = chan.seq /\ at \notin Handshaking \cup {"none"}
    BY <1>0 DEF Expecting, Handshaking
  <2> QED BY <1>0, <2>1, ReadFacts
<1>2. Len(toServer) = 0 /\ ~app.rows
  BY <1>0, <1>1, IInvParts DEF PreparedOK, Waiting, ConnectedOK, RowReads
<1>3. at' \in {"meta", "none"}
  BY DEF ReadPrepared, Complete, Fail
<1>4. app'.got = app.got /\ ~app'.rows
  BY <1>0, <1>2, IInvParts DEF ReadPrepared, Fail, Types, Apps
<1> QED BY <1>0, <1>1, <1>2, <1>3, <1>4, PreparedData

\* A definition of a parameter or column of the statement is taken.
LEMMA ReadMetaData == RInv /\ ReadMeta => DataOK'
<1> SUFFICES ASSUME RInv, ReadMeta PROVE DataOK'
  OBVIOUS
<1>0. /\ at = "meta" /\ Expected(chan.seq) /\ Take
      /\ rs' = rs /\ toServer' = toServer /\ app' = app /\ IInv
  BY DEF ReadMeta, RInv
<1>1. srv' = srv /\ app.connected
  <2>1. Expecting = chan.seq /\ at \notin Handshaking \cup {"none"}
    BY <1>0 DEF Expecting, Handshaking
  <2> QED BY <1>0, <2>1, ReadFacts
<1>2. Len(toServer) = 0 /\ ~app.rows
  BY <1>0, IInvParts DEF MetaOK, ConnectedOK, RowReads
<1>3. at' \in {"meta", "none"}
  BY <1>0 DEF ReadMeta, Complete
<1> QED BY <1>0, <1>1, <1>2, <1>3, PreparedData

\* COM_STMT_CLOSE is sent, to which there is no answer.
LEMMA CloseStatementData == RInv /\ CloseStatement => DataOK'
<1> SUFFICES ASSUME RInv, CloseStatement PROVE DataOK'
  OBVIOUS
<1>1. /\ at = "none" /\ app.connected /\ ~app.rows /\ rs' = rs /\ srv' = srv /\ DataOK
  BY DEF CloseStatement, Ready, RInv
<1>2. srv.phase # "none"
  BY <1>1, RInvParts, Begun
<1>3. CASE Complete("ok") /\ app' = [app EXCEPT !.commands = @ + 1]
  <2>1. at' = "none" /\ app'.got = app.got /\ ~app'.rows /\ app'.connected
    BY <1>1, <1>3, RInvParts, IInvParts DEF Complete, Types, Apps
  <2>2. GotOK' /\ CompleteOK'
    BY <1>1, <2>1 DEF DataOK, GotOK, CompleteOK
  <2>3. FreshOK' /\ AnswerOK' /\ FieldRowsOK' /\ RowDataOK' /\ NoResultOK' /\ BeforeOK'
    BY <1>1, <1>2, <2>1
    DEF FreshOK, AnswerOK, FieldRowsOK, RowDataOK, NoResultOK, BeforeOK, Handshaking
  <2> QED BY <2>2, <2>3 DEF DataOK
<1>4. CASE Fail("lost")
  <2>1. at' = "none" /\ app'.got = app.got /\ ~app'.rows /\ ~app'.connected
    BY <1>4, RInvParts, IInvParts DEF Fail, Complete, Types, Apps, Recoverable
  <2> QED BY <1>1, <1>2, <2>1, NotConcerned DEF Handshaking
<1> QED BY <1>3, <1>4 DEF CloseStatement

\* Any step that gives the connection up.
LEMMA GivesUpData ==
  ASSUME RInv, srv.phase # "none", rs' = rs, srv' = srv, app'.got = app.got,
         ~app'.rows, ~app'.connected, at' = "none"
  PROVE  DataOK'
  BY NotConcerned DEF RInv, Handshaking

\* COM_QUIT is sent and the connection closed.
LEMMA CloseConnectionData == RInv /\ CloseConnection => DataOK'
<1> SUFFICES ASSUME RInv, CloseConnection PROVE DataOK'
  OBVIOUS
<1>1. /\ chan.open /\ at = "none" /\ at' = at /\ rs' = rs /\ srv' = srv
      /\ app' = [app EXCEPT !.connected = FALSE, !.rows = FALSE]
  BY DEF CloseConnection
<1>2. app'.got = app.got /\ ~app'.rows /\ ~app'.connected
  BY <1>1, RInvParts, IInvParts DEF Types, Apps
<1>3. srv.phase # "none"
  BY <1>1, RInvParts, Begun
<1> QED BY <1>1, <1>2, <1>3, GivesUpData

\* An operation ends with an error after which the connection is given up.
LEMMA BreaksOffData ==
  ASSUME RInv, at # "none", NEW error \in Results \ Recoverable, Fail(error),
         rs' = rs, srv' = srv
  PROVE  DataOK'
<1>1. at' = "none" /\ app'.got = app.got /\ ~app'.rows /\ ~app'.connected
  BY RInvParts, IInvParts, FailFacts
<1>2. srv.phase # "none"
  BY RInvParts, Begun
<1> QED BY <1>1, <1>2, GivesUpData

\* A message with another sequence number ends the operation.
LEMMA SeqnumMismatchData == RInv /\ SeqnumMismatch => DataOK'
  BY BreaksOffData DEF SeqnumMismatch, Results, Recoverable

\* An operation fails because the connection is lost.
LEMMA OperationFailsData == RInv /\ OperationFails => DataOK'
  BY BreaksOffData DEF OperationFails, Results, Recoverable

\* A message reaches the client: what is to come is the same.
LEMMA ArriveData == RInv /\ Arrive => DataOK'
<1> SUFFICES ASSUME RInv, Arrive PROVE DataOK'
  OBVIOUS
<1>1. UNCHANGED <<at, rs, left, fields, app, toServer, srv>>
  BY DEF Arrive
<1>2. Coming' = Coming
  BY RInvParts, IInvParts, ArriveFacts
<1>3. Rest' = Rest
  BY <1>1, <1>2 DEF Rest, Extra
<1> QED BY <1>1, <1>2, <1>3, DataSame

\* The connection is lost; what was sent may still arrive.
LEMMA LoseData == RInv /\ Lose => DataOK'
<1> SUFFICES ASSUME RInv, Lose PROVE DataOK'
  OBVIOUS
<1>1. UNCHANGED <<at, rs, left, fields, app, toServer, srv, wire, inbox>>
  BY DEF Lose
<1>2. Coming' = Coming /\ Rest' = Rest
  BY <1>1 DEF Coming, Rest, Extra
<1> QED BY <1>1, <1>2, DataSame

-----------------------------------------------------------------------------
(* Reading rows.                                                              *)

\* The application asks for rows: one, many or all.
LEMMA ReadRowsData ==
  ASSUME RInv, NEW kind \in RowReads, ReadRows(kind)
  PROVE  DataOK'
<1>0. /\ at = "none" /\ app.connected
      /\ UNCHANGED <<rs, left, app, toServer, wire, inbox, srv>> /\ DataOK /\ IInv
  BY DEF ReadRows, RInv
<1>1. Coming' = Coming /\ Rest' = Rest
  BY <1>0 DEF Coming, Rest, Extra
<1>2. CASE app.rows /\ at' = kind /\ fields' = clear_shared_fields
  <2>1. Collected = 0 /\ Collected' = 0
    BY <1>0, <1>2 DEF Collected, RowReads, clear_shared_fields
  <2>2. Rest >= 1 /\ 0 \in Nat /\ 0 + 1 <= Rest
    BY <1>0, <1>2, RestFacts, IInvParts DEF RowsOK, RowsAt
  <2>3. PICK k, c : k = Len(app.got) + Collected /\ c = rs.meta
    OBVIOUS
  <2>4. RowsFrom(0, k, c)'
    BY <1>0, <1>1, <1>2, <2>2, <2>3, RowsFromKept DEF DataOK, RowDataOK
  <2>5. RowsFrom(0, Len(app.got) + Collected, rs.meta)'
    BY <1>0, <2>1, <2>3, <2>4 DEF RowsFrom
  <2>6. RowDataOK'
    BY <1>0, <1>2, <2>1, <2>5 DEF DataOK, RowDataOK
  <2>7. GotOK' /\ ~rs.complete
    BY <1>0, <1>2, IInvParts DEF DataOK, GotOK, RowsOK
  <2>8. FreshOK' /\ AnswerOK' /\ FieldRowsOK' /\ NoResultOK' /\ BeforeOK' /\ CompleteOK'
    BY <1>0, <1>2, <2>7
    DEF FreshOK, AnswerOK, FieldRowsOK, NoResultOK, BeforeOK, CompleteOK, RowReads
  <2> QED BY <2>6, <2>7, <2>8 DEF DataOK
<1>3. CASE rs.complete /\ Complete("ok") /\ UNCHANGED fields
  <2>1. at' = at
    BY <1>0, <1>3 DEF Complete
  <2> QED BY <1>0, <1>1, <1>3, <2>1, DataSame
<1> QED BY <1>2, <1>3 DEF ReadRows

\* A row is taken: it is the next of those to come.
LEMMA ReadRowData == RInv /\ ReadRow => DataOK'
<1> SUFFICES ASSUME RInv, ReadRow PROVE DataOK'
  OBVIOUS
<1> DEFINE m == Head(inbox)
<1>0. /\ at \in RowReads /\ Expected(rs.seq) /\ m.t = "row" /\ Take
      /\ rs' = [rs EXCEPT !.seq = next_seqnum(@)] /\ fields' = Append(fields, m.arg)
      /\ DataOK /\ IInv
  BY DEF ReadRow, RowReads, RInv
<1>1. /\ inbox # <<>> /\ Rest \in Nat /\ Rest >= 2
      /\ Coming[1] = m /\ m \in Msgs /\ srv' = srv
      /\ app.connected /\ srv.phase # "none" /\ app.rows /\ ~rs.complete
  BY <1>0, RowsFacts
<1>2. rs'.meta = rs.meta /\ rs'.complete = rs.complete
  BY <1>0, IInvParts DEF Types, Resultsets
<1>3. /\ fields \in Seq(RowData) /\ app.got \in Seq(RowData) /\ m.arg \in RowData
      /\ srv.rows \in Seq(RowData)
  BY <1>0, <1>1, IInvParts, MsgFacts, RecordFacts DEF Types
<1>12. PICK g \in Nat : g = Len(app.got)
  BY <1>3, LenProperties
<1>13. PICK f \in Nat : f = Len(fields) /\ Collected = f
  BY <1>0, <1>3, LenProperties DEF Collected
<1>14. PICK k \in Nat : k = g + f
  OBVIOUS
<1>4. g = Len(app.got) /\ f = Len(fields) /\ k = Len(app.got) + Collected
  BY <1>12, <1>13, <1>14
<1>5. /\ RowsFrom(0, k, rs.meta)
      /\ \A i \in 1..g : app.got[i] = srv.rows[i]
      /\ \A i \in 1..f : fields[i] = srv.rows[g + i]
  <2>1. /\ RowsFrom(0, Len(app.got) + Collected, rs.meta)
        /\ \A i \in 1..Len(app.got) : app.got[i] = srv.rows[i]
        /\ \A i \in 1..Collected : fields[i] = srv.rows[Len(app.got) + i]
    BY <1>0, <1>1 DEF DataOK, RowDataOK
  <2> QED BY <1>12, <1>13, <1>4, <2>1
<1>6. PICK c : c = rs.meta
  OBVIOUS
<1>7. RowsFrom(0, k + 1, c)' /\ m.arg = srv.rows[k + 1]
  BY <1>0, <1>1, <1>5, <1>6, RowTaken
<1>8. /\ fields' \in Seq(RowData) /\ Len(fields') = f + 1
      /\ \A i \in 1..f : fields'[i] = fields[i]
      /\ fields'[f + 1] = m.arg
  BY <1>0, <1>3, <1>4, AppendProperties
<1>9. ASSUME NEW i \in 1..(f + 1) PROVE fields'[i] = srv.rows[g + i]
  <2>1. CASE i \in 1..f
    BY <1>5, <1>8, <2>1
  <2>2. CASE i = f + 1
    <3>1. g + i = k + 1
      BY <1>14, <2>2
    <3> QED BY <1>7, <1>8, <2>2, <3>1
  <2>3. i \in 1..f \/ i = f + 1
    OBVIOUS
  <2> QED BY <2>1, <2>2, <2>3
<1>10. CASE HandOver(fields')
  <2>1. at' = "none" /\ app' = [app EXCEPT !.got = @ \o fields', !.rows = ~rs'.complete]
    BY <1>10 DEF HandOver, Complete
  <2>2. app'.got = app.got \o fields' /\ app'.rows
    BY <1>1, <1>2, <2>1, IInvParts, RInvParts DEF Types, Apps
  <2>3. PICK h \in Seq(RowData) : h = app.got \o fields'
    BY <1>3, <1>8, ConcatProperties
  <2>4. /\ Len(h) = g + (f + 1)
        /\ \A i \in 1..(g + (f + 1)) : h[i] = IF i <= g THEN app.got[i] ELSE fields'[i - g]
    <3>1. /\ Len(h) = Len(app.got) + Len(fields')
          /\ \A i \in 1..(Len(app.got) + Len(fields')) :
                h[i] = IF i <= Len(app.got) THEN app.got[i] ELSE fields'[i - Len(app.got)]
      BY <1>3, <1>8, <2>3, ConcatProperties, ZenonT(40)
    <3> QED BY <1>8, <1>12, <3>1
  <2>5. ASSUME NEW i \in 1..(g + (f + 1)) PROVE h[i] = srv.rows[i]
    <3>1. CASE i <= g
      <4>1. i \in 1..g
        BY <3>1
      <4> QED BY <1>5, <2>4, <3>1, <4>1
    <3>2. CASE ~(i <= g)
      <4>1. i - g \in 1..(f + 1) /\ g + (i - g) = i
        BY <3>2
      <4> QED BY <1>9, <2>4, <3>2, <4>1
    <3> QED BY <3>1, <3>2
  <2>6. Collected' = 0
    BY <2>1 DEF Collected, RowReads
  <2>7. Len(app'.got) + Collected' = k + 1 /\ Len(app'.got) = g + (f + 1)
    BY <1>14, <2>2, <2>3, <2>4, <2>6
  <2>8. RowsFrom(0, Len(app.got) + Collected, rs.meta)'
    BY <1>2, <1>6, <1>7, <2>7 DEF RowsFrom
  <2>9. RowDataOK'
    BY <1>1, <2>2, <2>3, <2>5, <2>6, <2>7, <2>8 DEF RowDataOK
  <2>10. GotOK'
    <3>1. Len(srv.rows) = k + (Rest - 0 - 1) /\ \A i \in 1..Len(srv.rows) : srv.rows[i].columns = c
      BY <1>5, <1>6 DEF RowsFrom
    <3>2. g + (f + 1) <= Len(srv.rows) /\ Len(srv.rows) \in Nat
      BY <1>1, <1>14, <3>1
    <3>3. \A i \in 1..(g + (f + 1)) : i \in 1..Len(srv.rows)
      BY <3>2
    <3> QED BY <1>2, <1>6, <2>2, <2>3, <2>5, <2>7, <3>1, <3>3, ZenonT(40) DEF GotOK
  <2>11. FreshOK' /\ AnswerOK' /\ FieldRowsOK' /\ NoResultOK' /\ BeforeOK' /\ CompleteOK'
    BY <1>1, <1>2, <2>1 DEF FreshOK, AnswerOK, FieldRowsOK, NoResultOK, BeforeOK, CompleteOK
  <2> QED BY <2>9, <2>10, <2>11 DEF DataOK
<1>11. CASE UNCHANGED <<at, last, app>>
  <2>1. Collected' = f + 1
    BY <1>0, <1>8, <1>11 DEF Collected
  <2>2. Len(app'.got) + Collected' = k + 1
    <3>1. Len(app'.got) = g
      BY <1>11, <1>12
    <3> QED BY <1>14, <2>1, <3>1
  <2>3. RowsFrom(0, Len(app.got) + Collected, rs.meta)'
    BY <1>2, <1>6, <1>7, <2>2 DEF RowsFrom
  <2>4. RowDataOK'
    BY <1>1, <1>4, <1>5, <1>9, <1>11, <2>1, <2>3 DEF RowDataOK
  <2>5. GotOK'
    BY <1>0, <1>2, <1>11 DEF DataOK, GotOK
  <2>6. FreshOK' /\ AnswerOK' /\ FieldRowsOK' /\ NoResultOK' /\ BeforeOK' /\ CompleteOK'
    BY <1>0, <1>1, <1>2, <1>11
    DEF FreshOK, AnswerOK, FieldRowsOK, NoResultOK, BeforeOK, CompleteOK, RowReads
  <2> QED BY <2>4, <2>5, <2>6 DEF DataOK
<1> QED BY <1>10, <1>11 DEF ReadRow

\* The end of a result is taken: no row of it is to come.
LEMMA ReadEndData == RInv /\ ReadEnd => DataOK'
<1> SUFFICES ASSUME RInv, ReadEnd PROVE DataOK'
  OBVIOUS
<1> DEFINE m == Head(inbox)
<1>0. /\ at \in RowReads /\ Expected(rs.seq) /\ m.t # "row" /\ Take /\ fields' = fields
      /\ DataOK /\ IInv
  BY DEF ReadEnd, RowReads, RInv
<1>1. /\ inbox # <<>> /\ Rest \in Nat /\ srv' = srv
      /\ app.connected /\ srv.phase # "none" /\ app.rows /\ ~rs.complete
      /\ m.t = "eof" => Rest = 1
  BY <1>0, RowsFacts
<1>2. CASE /\ m.t = "eof"
           /\ rs' = [rs EXCEPT !.seq = next_seqnum(@), !.complete = TRUE]
           /\ HandOver(fields)
  <2>1. rs'.meta = rs.meta /\ rs'.complete = TRUE
    BY <1>2, IInvParts, RInvParts DEF Types, Resultsets
  <2>2. /\ fields \in Seq(RowData) /\ app.got \in Seq(RowData) /\ srv.rows \in Seq(RowData)
    BY <1>0, IInvParts, RecordFacts DEF Types
  <2>14. PICK g \in Nat : g = Len(app.got)
    BY <2>2, LenProperties
  <2>15. PICK f \in Nat : f = Len(fields) /\ Collected = f
    BY <1>0, <2>2, LenProperties DEF Collected
  <2>16. PICK k \in Nat : k = g + f
    OBVIOUS
  <2>3. g = Len(app.got) /\ f = Len(fields) /\ k = Len(app.got) + Collected
    BY <2>14, <2>15, <2>16
  <2>4. /\ RowsFrom(0, k, rs.meta)
        /\ \A i \in 1..g : app.got[i] = srv.rows[i]
        /\ \A i \in 1..f : fields[i] = srv.rows[g + i]
    <3>1. /\ RowsFrom(0, Len(app.got) + Collected, rs.meta)
          /\ \A i \in 1..Len(app.got) : app.got[i] = srv.rows[i]
          /\ \A i \in 1..Collected : fields[i] = srv.rows[Len(app.got) + i]
      BY <1>0, <1>1 DEF DataOK, RowDataOK
    <3> QED BY <2>14, <2>15, <2>3, <3>1
  <2>5. Len(srv.rows) = k /\ \A i \in 1..k : srv.rows[i].columns = rs.meta
    <3>1. Len(srv.rows) = k + (Rest - 0 - 1) /\ \A i \in 1..Len(srv.rows) : srv.rows[i].columns = rs.meta
      BY <2>4 DEF RowsFrom
    <3>2. Len(srv.rows) = k
      BY <1>1, <1>2, <3>1
    <3> QED BY <3>1, <3>2
  <2>6. /\ at' = "none" /\ app' = [app EXCEPT !.got = @ \o fields, !.rows = ~rs'.complete]
    BY <1>2 DEF HandOver, Complete
  <2>7. app'.got = app.got \o fields /\ ~app'.rows
    BY <2>1, <2>6, IInvParts, RInvParts DEF Types, Apps
  <2>8. PICK h \in Seq(RowData) : h = app.got \o fields
    BY <2>2, ConcatProperties
  <2>9. /\ Len(h) = g + f
        /\ \A i \in 1..(g + f) : h[i] = IF i <= g THEN app.got[i] ELSE fields[i - g]
    BY <2>2, <2>3, <2>8, ConcatProperties
  <2>10. ASSUME NEW i \in 1..(g + f) PROVE h[i] = srv.rows[i]
    <3>1. CASE i <= g
      <4>1. i \in 1..g
        BY <3>1
      <4> QED BY <2>4, <2>9, <3>1, <4>1
    <3>2. CASE ~(i <= g)
      <4>1. i - g \in 1..f /\ g + (i - g) = i
        BY <3>2
      <4> QED BY <2>4, <2>9, <3>2, <4>1
    <3> QED BY <3>1, <3>2
  <2>11. h = srv.rows
    <3>1. Len(h) = Len(srv.rows) /\ \A i \in 1..Len(h) : h[i] = srv.rows[i]
      BY <2>5, <2>9, <2>10, <2>16
    <3> QED BY <2>2, <3>1, SeqEqual
  <2>12. GotOK'
    BY <2>1, <2>5, <2>7, <2>8, <2>11 DEF GotOK
  <2>13. FreshOK' /\ AnswerOK' /\ FieldRowsOK' /\ RowDataOK' /\ NoResultOK' /\ BeforeOK' /\ CompleteOK'
    BY <1>1, <2>6, <2>7, <2>8, <2>11
    DEF FreshOK, AnswerOK, FieldRowsOK, RowDataOK, NoResultOK, BeforeOK, CompleteOK, Handshaking
  <2> QED BY <2>12, <2>13 DEF DataOK
<1>3. CASE /\ rs' = [rs EXCEPT !.seq = next_seqnum(@)]
           /\ Fail(Refusal(m))
  <2>1. /\ at' = "none" /\ ~app'.rows /\ app'.got = app.got
        /\ rs'.meta = rs.meta /\ rs'.complete = rs.complete
    BY <1>3, IInvParts, RInvParts DEF Fail, Complete, Types, Apps, Resultsets
  <2> QED BY <1>0, <1>1, <2>1, NotConcerned
<1> QED BY <1>2, <1>3 DEF ReadEnd

-----------------------------------------------------------------------------
(* The server's steps.                                                        *)

\* A step of a server that has not accepted the client.
LEMMA UnacceptedData ==
  ASSUME RInv, ~app.connected, UNCHANGED <<at, rs, app>>,
         at \in {"none", "greeting", "ssl", "auth"}, srv'.phase # "none"
  PROVE  DataOK'
<1>1. ~app.rows /\ DataOK
  BY RInvParts, IInvParts DEF ConnectedOK, RInv
<1>2. at \in Handshaking => ~rs.complete
  BY RInvParts DEF BeforeOK
<1> QED BY <1>1, <1>2, NotConcerned

\* The server greets.
LEMMA ServerGreetsData == RInv /\ ServerGreets => DataOK'
<1> SUFFICES ASSUME RInv, ServerGreets PROVE DataOK'
  OBVIOUS
<1>1. srv.phase = "accept" /\ UNCHANGED <<at, rs, app>>
  BY DEF ServerGreets, clientVars
<1>2. srv'.phase \in {"auth", "closed"}
  BY RInvParts, IInvParts DEF ServerGreets, Types, Servers
<1>3. ~srv.timedout
  BY <1>1, RInvParts, IInvParts DEF TimedOutOK
<1>4. ~app.connected
  BY <1>1, <1>3, RInvParts, IInvParts DEF ConnectedOK
<1>5. at \in {"none", "greeting", "ssl", "auth"}
  BY <1>4, RInvParts, IInvParts DEF ConnectedOK, Handshaking
<1> QED BY <1>1, <1>2, <1>4, <1>5, UnacceptedData

\* The server answers the authentication.
LEMMA ServerAuthenticatesData ==
  ASSUME RInv, srv.phase \in {"auth", "tls"}, toServer # <<>>,
         ServerAuthenticates(Head(toServer)), UNCHANGED <<at, rs, app>>
  PROVE  DataOK'
<1>1. srv'.phase \in {"tls", "command", "closed", "auth"}
  BY RInvParts, IInvParts DEF ServerAuthenticates, Types, Servers
<1>2. ~app.connected /\ at \in {"none", "ssl", "auth"}
  BY RInvParts, AuthenticatesParts
<1> QED BY <1>1, <1>2, UnacceptedData

\* What an answer makes of the server's last result.
LEMMA AnswerRows ==
  ASSUME RInv, NEW messages, NEW m, NEW rows, NEW end, Answer(messages, m, rows, end)
  PROVE  srv'.rows = rows /\ srv'.end = end /\ srv'.phase = srv.phase
  BY RInvParts, IInvParts DEF Answer, Types, Servers

\* The answer to a query tells how the result ends and holds its rows.
LEMMA QueryRows ==
  ASSUME RInv, srv.phase = "command", NEW m \in Requests, m.seq = 0, inbox' = inbox,
         m.t \in {"query", "execute"}, ServerAnswers(m), Rest = 0
  PROVE  /\ Coming'[1].t = "ok" => srv'.end = "ok"
         /\ Coming'[1].t = "num_fields" => RowsFrom(Coming[1].arg + 1, 0, Coming[1].arg)'
<1>0. IInv
  BY RInvParts
<1>1. CASE \E t \in {"ok", "err"} : Answer(<<Msg(t, <<>>)>>, m, <<>>, t)
  <2>1. PICK t \in {"ok", "err"} : Answer(<<Msg(t, <<>>)>>, m, <<>>, t)
    BY <1>1
  <2>2. PICK a \in Seq(Msgs) : a = <<Msg(t, <<>>)>> /\ Len(a) = 1 /\ a[1].t = t
    <3>1. Msg(t, <<>>) \in Msgs /\ Msg(t, <<>>).t = t
      BY MsgsAre DEF Msg
    <3> QED BY <3>1, Single
  <2>3. PICK rows \in Seq(RowData) : rows = <<>>
    BY EmptySeq
  <2>4. Answer(a, m, rows, t)
    BY <2>1, <2>2, <2>3
  <2>5. \A i \in 1..Len(a) : \/ Coming'[i].t = a[i].t /\ Coming'[i].arg = a[i].arg
                             \/ Coming'[i].t = "malformed"
    BY <1>0, <2>4, AnswerFacts
  <2>6. Coming'[1].t \in {t, "malformed"}
    BY <2>2, <2>5
  <2>7. srv'.end = t
    BY <2>4, AnswerRows
  <2> QED BY <2>6, <2>7
<1>2. CASE \E c \in 1..MaxColumns, n \in 0..MaxRows, end \in {"eof", "err"} :
              Answer(Result(c, Rows(m.arg, c, n), end), m, Rows(m.arg, c, n), end)
  <2>1. PICK c \in 1..MaxColumns, n \in 0..MaxRows, end \in {"eof", "err"} :
           Answer(Result(c, Rows(m.arg, c, n), end), m, Rows(m.arg, c, n), end)
    BY <1>2
  <2>2. c \in Nat /\ c >= 1 /\ n \in Nat /\ m.arg \in Nat
    BY ClientAssumption, RequestFacts
  <2>3. PICK command \in Nat : command = m.arg
    BY <2>2
  <2>4. PICK rows \in Seq(RowData), a \in Seq(Msgs) : IsResult(a, rows, command, c, n, end)
    BY <2>2, ResultFacts
  <2>5. Answer(a, m, rows, end)
    BY <2>1, <2>3, <2>4 DEF IsResult
  <2>6. /\ Rest' = Len(a)
        /\ \A i \in 1..Len(a) : \/ Coming'[i].t = a[i].t /\ Coming'[i].arg = a[i].arg
                                \/ Coming'[i].t = "malformed"
    BY <1>0, <2>5, AnswerFacts
  <2>7. srv'.rows = rows /\ srv'.end = end
    BY <2>5, AnswerRows
  <2>8. /\ Len(rows) = n /\ \A i \in 1..n : rows[i].columns = c
        /\ Len(a) = c + n + 2 /\ a[1] = Msg("num_fields", c)
        /\ \A i \in 1..n : a[1 + c + i] = Msg("row", rows[i])
        /\ a[c + n + 2] = Msg(end, <<>>)
    BY <2>4 DEF IsResult
  <2>9. /\ Msg("num_fields", c).t = "num_fields" /\ Msg("num_fields", c).arg = c
        /\ Msg(end, <<>>).t = end
        /\ \A i \in 1..n : Msg("row", rows[i]).t = "row" /\ Msg("row", rows[i]).arg = rows[i]
    BY DEF Msg
  <2>10. /\ Coming'[1].t \in {"malformed", "num_fields"}
         /\ Coming'[1].t = "num_fields" => Coming'[1].arg = c
    <3>1. 1 \in 1..Len(a)
      BY <2>2, <2>8
    <3> QED BY <2>6, <2>8, <2>9, <3>1
  <2>11. ASSUME NEW i \in (c + 2)..(c + n + 1), Coming'[i].t = "row"
         PROVE  Coming'[i].arg = rows[i - (c + 1)]
    <3>1. PICK j \in 1..n : i = 1 + c + j /\ i \in 1..Len(a) /\ j = i - (c + 1)
      <4>1. i - (c + 1) \in 1..n /\ i = 1 + c + (i - (c + 1)) /\ i \in 1..Len(a)
        BY <2>2, <2>8
      <4> QED BY <4>1
    <3>2. a[i] = Msg("row", rows[j])
      BY <2>8, <3>1
    <3> QED BY <2>6, <2>9, <2>11, <3>1, <3>2
  <2>12. Coming'[c + n + 2].t \in {end, "malformed"}
    <3>1. c + n + 2 \in 1..Len(a)
      BY <2>2, <2>8
    <3> QED BY <2>6, <2>8, <2>9, <3>1
  <2>13. RowsFrom(c + 1, 0, c)'
    <3>1. /\ Rest' = c + n + 2 /\ Rest' - 1 = c + n + 1
          /\ Len(rows) = 0 + (Rest' - (c + 1) - 1)
      BY <2>2, <2>6, <2>8
    <3>2. ASSUME NEW i \in ((c + 1) + 1)..(Rest' - 1), Coming'[i].t = "row"
          PROVE  Coming'[i].arg = rows[(0 + i) - (c + 1)]
      <4>1. i \in (c + 2)..(c + n + 1) /\ (0 + i) - (c + 1) = i - (c + 1)
        BY <2>2, <3>1
      <4> QED BY <2>11, <3>2, <4>1
    <3>3. Coming'[Rest'].t \in {end, "malformed"}
      BY <2>12, <3>1
    <3>4. \A i \in 1..Len(rows) : rows[i].columns = c
      BY <2>8
    <3> QED BY <2>7, <3>1, <3>2, <3>3, <3>4 DEF RowsFrom
  <2>14. Coming'[1].t = "num_fields" => RowsFrom(Coming[1].arg + 1, 0, Coming[1].arg)'
    BY <2>10, <2>13, ZenonT(40) DEF RowsFrom
  <2> QED BY <2>10, <2>14
<1> QED BY <1>1, <1>2 DEF ServerAnswers

\* The answer to a request to prepare a statement is no result.
LEMMA PrepareRows ==
  ASSUME RInv, NEW m, m.t = "prepare", ServerAnswers(m)
  PROVE  srv'.end \in {"ok", "err"} /\ srv'.phase = srv.phase
<1>1. CASE Answer(<<Msg("err", <<>>)>>, m, <<>>, "err")
  BY <1>1, AnswerRows
<1>2. CASE \E c \in 0..MaxColumns, p \in 0..MaxParams :
              Answer(<<Msg("prepare_ok", [columns |-> c, params |-> p])>>
                       \o [i \in 1..(c + p) |-> Msg("column", <<>>)], m, <<>>, "ok")
  BY <1>2, AnswerRows
<1> QED BY <1>1, <1>2 DEF ServerAnswers

\* What the server takes then, and who waits for it.
LEMMA AnswersParts ==
  ASSUME IInv, srv.phase = "command", toServer # <<>>
  PROVE  /\ ~app.rows /\ at \in {"none", "response", "prepared"}
         /\ toServer[1].seq = 0 /\ toServer[1].t = Head(toServer).t
         /\ at = "none" /\ app.connected => toServer[1].t = "close_statement"
         /\ at = "response" /\ toServer[1].t # "close_statement" =>
               toServer[1].t \in {"query", "execute"} /\ Rest = 0
         /\ at = "prepared" /\ toServer[1].t # "close_statement" => toServer[1].t = "prepare"
         /\ at \in {"response", "prepared"} /\ toServer[1].t = "close_statement" =>
               Len(toServer) >= 2
<1>1. PICK n \in Nat : n = Len(toServer) /\ n >= 1 /\ 1 \in 1..n
  <2>1. PICK n \in Nat : n = Len(toServer) /\ n # 0
    BY IInvParts, RequestsFacts
  <2> QED BY <2>1, SMTT(30)
<1>2. ~srv.timedout /\ toServer[1].seq = 0 /\ toServer[1].t = Head(toServer).t
  BY <1>1, IInvParts, RequestsFacts DEF TimedOutOK, RequestsOK
<1>3. ~app.rows /\ at \notin RowReads /\ at # "greeting" /\ at # "fields" /\ at # "meta"
  BY <1>1, IInvParts DEF RowsOK, ConnectedOK, GreetingOK, FieldsOK, MetaOK
<1>4. at # "ssl" /\ at # "auth"
  BY <1>1, <1>2, IInvParts DEF SslOK, AuthOK
<1>5. at \in {"none", "response", "prepared"}
  BY <1>3, <1>4, IInvParts DEF Types, Operations, RowReads
<1>6. ASSUME NEW kinds, Waiting(kinds)
      PROVE  /\ Rest = 0
             /\ toServer[1].t # "close_statement" => toServer[1].t \in kinds
             /\ toServer[1].t = "close_statement" /\ "close_statement" \notin kinds => n >= 2
  <2>1. /\ Rest = 0 /\ toServer[n].t \in kinds
        /\ \A i \in 1..(n - 1) : toServer[i].t = "close_statement"
    BY <1>1, <1>6 DEF Waiting
  <2>2. n = 1 \/ (n >= 2 /\ 1 \in 1..(n - 1))
    BY <1>1
  <2> QED BY <2>1, <2>2
<1>7. at = "response" => Waiting({"query", "execute"})
  BY <1>1, IInvParts DEF ResponseOK
<1>8. at = "prepared" => Waiting({"prepare"})
  BY <1>1, IInvParts DEF PreparedOK
<1>9. at = "none" /\ app.connected => toServer[1].t = "close_statement"
  BY <1>1, <1>3, IInvParts DEF IdleOK
<1>10. at = "response" => /\ Rest = 0
                          /\ toServer[1].t # "close_statement" => toServer[1].t \in {"query", "execute"}
                          /\ toServer[1].t = "close_statement" => n >= 2
  BY <1>6, <1>7
<1>11. at = "prepared" => /\ toServer[1].t # "close_statement" => toServer[1].t = "prepare"
                          /\ toServer[1].t = "close_statement" => n >= 2
  BY <1>6, <1>8
<1> QED BY <1>1, <1>2, <1>3, <1>5, <1>9, <1>10, <1>11

\* The server answers a command: its last result is the new one.
LEMMA ServerAnswersData ==
  ASSUME RInv, srv.phase = "command", toServer # <<>>,
         ServerAnswers(Head(toServer)), toServer' = Tail(toServer),
         UNCHANGED <<params, at, last, chan, auth, rs, left, stmt, fields, app, inbox, down>>
  PROVE  DataOK'
<1>0. IInv /\ DataOK
  BY DEF RInv
<1>1. PICK m \in Requests : m = Head(toServer) /\ m = toServer[1] /\ ServerAnswers(m)
  BY <1>0, TakenRequest
<1>2. /\ ~app.rows /\ at \in {"none", "response", "prepared"} /\ m.seq = 0
      /\ at = "none" /\ app.connected => m.t = "close_statement"
      /\ at = "response" /\ m.t # "close_statement" => m.t \in {"query", "execute"} /\ Rest = 0
      /\ at = "prepared" /\ m.t # "close_statement" => m.t = "prepare"
      /\ at \in {"response", "prepared"} /\ m.t = "close_statement" => Len(toServer) >= 2
  BY <1>0, <1>1, AnswersParts
<1>3. GotOK' /\ FreshOK' /\ FieldRowsOK' /\ RowDataOK'
  BY <1>0, <1>2 DEF DataOK, GotOK, FreshOK, FieldRowsOK, RowDataOK
<1>4. CASE m.t = "close_statement"
  <2>1. srv' = srv
    BY <1>1, <1>4 DEF ServerAnswers
  <2>2. at \in {"response", "prepared"} => Len(toServer') # 0
    <3>1. Len(toServer') = Len(toServer) - 1 /\ Len(toServer) \in Nat
      BY <1>0, TakenRequest
    <3> QED BY <1>2, <1>4, <3>1
  <2>3. AnswerOK' /\ NoResultOK'
    BY <1>2, <2>2 DEF AnswerOK, NoResultOK
  <2>4. BeforeOK' /\ CompleteOK'
    BY <1>0, <2>1 DEF DataOK, BeforeOK, CompleteOK
  <2> QED BY <1>3, <2>3, <2>4 DEF DataOK
<1>5. CASE m.t # "close_statement"
  <2>1. CASE at = "none"
    <3>1. ~app.connected
      BY <1>2, <1>5, <2>1
    <3>2. srv'.phase # "none"
      <4>1. CASE m.t = "quit"
        BY <1>1, <4>1, <1>0, IInvParts DEF ServerAnswers, Types, Servers
      <4>2. CASE m.t = "prepare"
        BY <1>1, <4>2, PrepareRows
      <4>3. CASE m.t \in {"query", "execute"}
        BY <1>0, <1>1, <1>2, <4>3, QueryAnswered
      <4>4. m.t \in {"close_statement", "quit", "query", "execute", "prepare"}
        BY <1>1 DEF ServerAnswers
      <4> QED BY <1>5, <4>1, <4>2, <4>3, <4>4
    <3> QED BY <2>1, <3>1, <3>2, UnacceptedData
  <2>2. CASE at = "response"
    <3>1. /\ Coming'[1].t = "ok" => srv'.end = "ok"
          /\ Coming'[1].t = "num_fields" => RowsFrom(Coming[1].arg + 1, 0, Coming[1].arg)'
      BY <1>1, <1>2, <1>5, <2>2, QueryRows
    <3>2. AnswerOK'
      BY <3>1 DEF AnswerOK
    <3>3. NoResultOK' /\ CompleteOK'
      BY <2>2 DEF NoResultOK, CompleteOK
    <3>4. BeforeOK'
      BY <1>0, <2>2, IInvParts DEF ResponseOK, BeforeOK
    <3> QED BY <1>3, <3>2, <3>3, <3>4 DEF DataOK
  <2>3. CASE at = "prepared"
    <3>1. srv'.end \in {"ok", "err"} /\ srv'.phase # "none"
      BY <1>1, <1>2, <1>5, <2>3, PrepareRows
    <3>2. AnswerOK' /\ NoResultOK' /\ CompleteOK' /\ BeforeOK'
      BY <2>3, <3>1 DEF AnswerOK, NoResultOK, CompleteOK, BeforeOK, Handshaking
    <3> QED BY <1>3, <3>2 DEF DataOK
  <2> QED BY <1>2, <2>1, <2>2, <2>3
<1> QED BY <1>4, <1>5

\* The server takes what the client sent.
LEMMA ServerTakesData == RInv /\ ServerTakes => DataOK'
<1> SUFFICES ASSUME RInv, ServerTakes PROVE DataOK'
  OBVIOUS
<1>1. /\ toServer # <<>> /\ toServer' = Tail(toServer)
      /\ \/ srv.phase \in {"auth", "tls"} /\ ServerAuthenticates(Head(toServer))
         \/ srv.phase = "command" /\ ServerAnswers(Head(toServer))
      /\ UNCHANGED <<params, at, last, chan, auth, rs, left, stmt, fields, app, inbox, down>>
  BY DEF ServerTakes, clientVars
<1> QED BY <1>1, ServerAuthenticatesData, ServerAnswersData

\* The server gives an idle client up, with an error behind what it sent.
LEMMA ServerTimesOutData == RInv /\ ServerTimesOut => DataOK'
<1> SUFFICES ASSUME RInv, ServerTimesOut PROVE DataOK'
  OBVIOUS
<1>1. /\ srv.phase = "command"
      /\ wire' = Append(wire, Msg("err", <<>>))
      /\ srv' = [srv EXCEPT !.phase = "closed", !.timedout = TRUE]
      /\ UNCHANGED <<at, rs, left, fields, app, toServer, inbox>>
  BY DEF ServerTimesOut, clientVars
<1>2. /\ srv'.rows = srv.rows /\ srv'.end = srv.end /\ srv'.phase = "closed"
      /\ srv'.timedout = TRUE
  BY <1>1, RInvParts, IInvParts DEF Types, Servers
<1>3. srv.timedout = FALSE
  BY <1>1, RInvParts, IInvParts, RecordFacts DEF TimedOutOK
<1>4. PICK a \in Seq(Msgs) : wire' = wire \o a /\ Len(a) = 1
  <2>1. PICK err \in Msgs : err = Msg("err", <<>>)
    BY MsgsAre
  <2>2. Append(wire, err) = wire \o <<err>> /\ <<err>> \in Seq(Msgs) /\ Len(<<err>>) = 1
    BY RInvParts, IInvParts, AppendIsConcat, Single DEF Types
  <2> QED BY <1>1, <2>1, <2>2
<1>5. /\ Len(Coming) \in Nat /\ Len(Coming') = Len(Coming) + 1
      /\ \A i \in 1..Len(Coming) : Coming'[i] = Coming[i]
  BY <1>1, <1>4, RInvParts, IInvParts, ServerSends, ComingFacts
<1>6. Rest' = Rest /\ Rest = Len(Coming)
  BY <1>2, <1>3, <1>5 DEF Rest, Extra
<1> QED BY <1>1, <1>2, <1>5, <1>6, DataSame

-----------------------------------------------------------------------------
(* Rows in order.                                                             *)

\* There is no result to begin with.
LEMMA InitData == Init => DataOK
<1> SUFFICES ASSUME Init PROVE DataOK
  OBVIOUS
<1>1. Len(app.got) = 0 /\ ~app.rows /\ at = "none" /\ ~app.connected /\ ~rs.complete
  BY EmptySeq DEF Init
<1> QED BY <1>1 DEF DataOK, GotOK, FreshOK, AnswerOK, FieldRowsOK, RowDataOK, NoResultOK,
                    BeforeOK, CompleteOK

\* Every step preserves the claims about rows.
LEMMA StepData == RInv /\ [Next]_vars => DataOK'
<1> SUFFICES ASSUME RInv, [Next]_vars PROVE DataOK'
  OBVIOUS
<1>1. CASE Connect
  BY <1>1, ConnectData
<1>2. CASE Reading
  <2>1. CASE ReadGreeting     BY <2>1, ReadGreetingData
  <2>2. CASE SslHandshake     BY <2>2, SslHandshakeData
  <2>3. CASE ReadAuthResponse BY <2>3, ReadAuthResponseData
  <2>4. CASE ReadResponse     BY <2>4, ReadResponseData
  <2>5. CASE ReadField        BY <2>5, ReadFieldData
  <2>6. CASE ReadPrepared     BY <2>6, ReadPreparedData
  <2>7. CASE ReadMeta         BY <2>7, ReadMetaData
  <2>8. CASE ReadRow          BY <2>8, ReadRowData
  <2>9. CASE ReadEnd          BY <2>9, ReadEndData
  <2>10. CASE SeqnumMismatch  BY <2>10, SeqnumMismatchData
  <2>11. CASE OperationFails  BY <2>11, OperationFailsData
  <2>12. CASE Arrive          BY <2>12, ArriveData
  <2> QED BY <1>2, <2>1, <2>2, <2>3, <2>4, <2>5, <2>6, <2>7, <2>8, <2>9, <2>10, <2>11, <2>12
          DEF Reading
<1>3. CASE ExecuteQuery
  BY <1>3, ExecuteQueryData
<1>4. CASE PrepareStatement
  BY <1>4, PrepareStatementData
<1>5. CASE CloseStatement
  BY <1>5, CloseStatementData
<1>6. ASSUME NEW n \in 0..MaxParams, ExecuteStatement(n) PROVE DataOK'
  BY <1>6, ExecuteStatementData
<1>7. ASSUME NEW kind \in {"one", "some", "all"}, ReadRows(kind) PROVE DataOK'
  BY <1>7, ReadRowsData DEF RowReads
<1>8. CASE CloseConnection
  BY <1>8, CloseConnectionData
<1>9. CASE Lose
  BY <1>9, LoseData
<1>10. CASE ServerGreets
  BY <1>10, ServerGreetsData
<1>11. CASE ServerTakes
  BY <1>11, ServerTakesData
<1>12. CASE ServerTimesOut
  BY <1>12, ServerTimesOutData
<1>13. CASE UNCHANGED vars
  <2>1. UNCHANGED <<at, rs, left, fields, app, toServer, srv, wire, inbox>>
    BY <1>13 DEF vars
  <2>2. Coming' = Coming /\ Rest' = Rest
    BY <2>1 DEF Coming, Rest, Extra
  <2> QED BY <2>1, <2>2, DataSame
<1> QED BY <1>1, <1>2, <1>3, <1>4, <1>5, <1>6, <1>7, <1>8, <1>9, <1>10, <1>11, <1>12, <1>13
        DEF Next

\* What the invariant says of rows is what the application relies on.
LEMMA RowsFollow == RInv => RowsInOrder
<1> SUFFICES ASSUME RInv PROVE RowsInOrder
  OBVIOUS
<1>1. app.got \in Seq(RowData) /\ srv.rows \in Seq(RowData)
  BY RInvParts, IInvParts, RecordFacts
<1>2. ASSUME app.rows, at = "none" PROVE IsPrefix(app.got, srv.rows)
  <2>1. PICK g \in Nat : g = Len(app.got)
    BY <1>1, LenProperties
  <2>2. Collected = 0
    BY <1>2 DEF Collected, RowReads
  <2>3. PICK r \in Nat : r = Rest /\ r >= 1
    BY <1>2, RInvParts, IInvParts, RestFacts DEF RowsOK, RowsAt
  <2>4. Len(srv.rows) = (g + 0) + (r - 0 - 1) /\ \A i \in 1..g : app.got[i] = srv.rows[i]
    BY <1>2, <2>1, <2>2, <2>3, RInvParts DEF RowDataOK, RowsFrom
  <2>5. PICK n \in Nat : n = Len(srv.rows) /\ g <= n
    BY <2>3, <2>4
  <2>6. SubSeq(app.got, 1, g) = SubSeq(srv.rows, 1, g)
    <3>1. /\ SubSeq(app.got, 1, g) \in Seq(RowData) /\ Len(SubSeq(app.got, 1, g)) = g
          /\ \A i \in 1..g : SubSeq(app.got, 1, g)[i] = app.got[i]
      BY <1>1, <2>1
    <3>2. /\ SubSeq(srv.rows, 1, g) \in Seq(RowData) /\ Len(SubSeq(srv.rows, 1, g)) = g
          /\ \A i \in 1..g : SubSeq(srv.rows, 1, g)[i] = srv.rows[i]
      BY <1>1, <2>5
    <3> QED BY <2>4, <3>1, <3>2, SeqEqual
  <2> QED BY <2>1, <2>5, <2>6 DEF IsPrefix
<1>3. \A i \in DOMAIN app.got : app.got[i].columns = rs.meta
  <2>1. DOMAIN app.got = 1..Len(app.got)
    BY <1>1, LenProperties
  <2> QED BY <2>1, RInvParts DEF GotOK
<1>4. ASSUME rs.complete, app.connected, srv.end = "eof", at \in {"none", "one", "some", "all"}
      PROVE  app.got = srv.rows
  <2>1. at = "none"
    BY <1>4, RInvParts, IInvParts DEF ConnectedOK, RowsOK, RowReads
  <2> QED BY <1>4, <2>1, RInvParts DEF CompleteOK
<1> QED BY <1>2, <1>3, <1>4 DEF RowsInOrder

\* The application gets the rows of the current command in the server's order,
\* each once, with the columns of the metadata, and a complete result whole,
\* however it mixes the ways to read and however the rows arrive.
THEOREM RowsComeInOrder == Spec => []RowsInOrder
<1>1. RInv /\ [Next]_vars => RInv'
  <2>1. RInv /\ [Next]_vars => IInv' /\ DataOK'
    BY RInvParts, StepIInv, StepData
  <2>2. (IInv /\ DataOK)' => RInv'
    BY DEF RInv
  <2> QED BY <2>1, <2>2
<1>2. Init => RInv
  BY InitIInv, InitData DEF RInv
<1> QED BY <1>1, <1>2, RowsFollow, PTL DEF Spec
=============================================================================
