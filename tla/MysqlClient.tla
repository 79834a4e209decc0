---------------------------- MODULE MysqlClient ----------------------------
(* The client side of the MySQL protocol as boost_mysql implements it         *)
(* (detail/network_algorithms): the handshake, text queries and prepared      *)
(* statements, the three ways to read rows, and closing.  One connection, one *)
(* operation at a time; every action is what an operation does between two    *)
(* points where it waits for the network.                                     *)
(*                                                                            *)
(* Messages travel in order and whole (MessageFifo, which MessageChannel      *)
(* implements), each with a sequence number: wire holds the ones on their way *)
(* to the client, inbox the ones whose bytes the reader already has.  The     *)
(* MySQL server is external and modelled from what the client expects of it;  *)
(* the application is the lobby server, which reads a result to its end       *)
(* before the next command (LobbyServer!ResultsDrained) and gives a           *)
(* connection up after any error but one that the server reports.             *)
EXTENDS Naturals, Sequences, SequencesExt

CONSTANTS Params,      \* the handshake_params a connection may be opened with
          ServerCaps,  \* the capability sets a server may announce
          SeqModulus,      \* sequence numbers are taken modulo this; 256 in the program
          MaxColumns, MaxRows, MaxParams,  \* bounds: the size of a result, of a statement
          MaxRounds,   \* bound: how often the server asks for authentication data again
          MaxCommands  \* bound: how many commands are sent

ASSUME ClientAssumption ==
    /\ Params \subseteq [ssl : {"disable", "enable", "require"}, db : BOOLEAN, blank : BOOLEAN]
    /\ ServerCaps \subseteq SUBSET {"mandatory", "db", "ssl"}
    /\ SeqModulus \in Nat \ {0, 1}
    /\ {MaxColumns, MaxRows, MaxParams, MaxRounds, MaxCommands} \subseteq Nat

VARIABLES params,    \* handshake_params of the connection
          at,        \* what the current operation waits for; "none" between operations
          last,      \* how the last operation ended; "none" while one runs
          chan,      \* channel: open, ssl active, current capabilities, shared sequence number
          auth,      \* handshake_processor: negotiated capabilities, plugin, response
          rs,        \* resultset_base: sequence number, columns, complete
          left,      \* remaining_fields_ or remaining_meta_
          stmt,      \* statement_base: valid, number of parameters
          fields,    \* channel::shared_fields, a row at a time
          app,       \* the application: connected, has rows to read, commands sent, rows got
          toServer,  \* messages to the server
          wire,      \* messages to the client that are on their way
          inbox,     \* messages to the client that are in the read buffer
          down,      \* the connection is lost
          srv        \* the server: phase, sequence number it expects, capabilities agreed,
                     \* rounds of authentication, the rows of its last result and its end

vars == <<params, at, last, chan, auth, rs, left, stmt, fields, app,
          toServer, wire, inbox, down, srv>>

next_seqnum_mutant(s) == s + 1
next_seqnum(s) == (s + 1) % SeqModulus

\* An operation ends.  After an error that is not the server's answer the
\* application uses the connection no more; after any error it reads no more rows.
Recoverable == {"ok", "server_error", "wrong_num_params"}

Complete(error) ==
    /\ at' = "none"
    /\ last' = error

Fail(error) ==
    /\ Complete(error)
    /\ app' = [app EXCEPT !.rows = FALSE, !.connected = @ /\ error \in Recoverable]

\* A write: the message goes out with the given sequence number.
Send(t, arg, seq) ==
    toServer' = Append(toServer, [t |-> t, arg |-> arg, seq |-> seq, ssl |-> chan.ssl])

\* get_next_message: the next message, if it has the sequence number expected.
Expected(seq) == inbox # <<>> /\ Head(inbox).seq = seq
Take == /\ inbox' = Tail(inbox)
        /\ UNCHANGED <<wire, down, srv>>

-----------------------------------------------------------------------------
(* Connecting.                                                                *)

NoAuth == [caps |-> {}, plugin |-> "none", response |-> "empty"]

\* connect: the physical connection, channel::reset, and on with the handshake.
Connect ==
    /\ at = "none" /\ ~chan.open /\ srv.phase = "none"
    /\ \/ /\ chan' = [open |-> TRUE, ssl |-> FALSE, caps |-> {}, seq |-> 0]
          /\ at' = "greeting"
          /\ srv' = [srv EXCEPT !.phase = "accept"]
          /\ last' = "none"
       \/ /\ Complete("connect_failed")
          /\ UNCHANGED <<chan, srv>>
    /\ UNCHANGED <<params, auth, rs, left, stmt, fields, app, toServer, wire, inbox, down>>

\* handshake failed: connect closes the socket.
ConnectFails(error) ==
    /\ Complete(error)
    /\ chan' = [chan EXCEPT !.open = FALSE]
    /\ auth' = NoAuth
    /\ UNCHANGED toServer

\* process_capabilities: what the client cannot do without, and what it takes if offered.
required_caps == {"mandatory"} \cup (IF params.db THEN {"db"} ELSE {})
                               \cup (IF params.ssl = "require" THEN {"ssl"} ELSE {})
wanted_caps == required_caps \cup (IF params.ssl = "enable" THEN {"ssl"} ELSE {})

\* auth_calculator::calculate with the two plugins.  The answer is empty for a
\* blank password, a hash, or the password itself, which caching_sha2_password
\* sends when the server asks for full authentication.
Responses == {"empty", "hash", "password"}
calculate_mutant(plugin, challenge, use_ssl) ==
    IF plugin \notin {"native", "sha2"}            THEN "unknown_auth_plugin"
    ELSE IF params.blank                           THEN "empty"
    ELSE IF plugin = "sha2" /\ challenge = "full"  THEN "password"
    ELSE IF challenge # "nonce"                    THEN "protocol_value_error"
    ELSE                                                "hash"
calculate(plugin, challenge, use_ssl) ==
    IF plugin \notin {"native", "sha2"}            THEN "unknown_auth_plugin"
    ELSE IF params.blank                           THEN "empty"
    ELSE IF plugin = "sha2" /\ challenge = "full"
         THEN IF use_ssl THEN "password" ELSE "auth_plugin_requires_ssl"
    ELSE IF challenge # "nonce"                    THEN "protocol_value_error"
    ELSE                                                "hash"

\* process_error_packet for an error the server reports; anything else that is
\* not expected cannot be deserialized.
Refusal(m) == IF m.t = "err" THEN "server_error" ELSE "protocol_value_error"

\* The greeting: process_handshake, then the request for SSL or the response.  A
\* greeting of protocol 9 and one that cannot be deserialized end the attempt.
ReadGreeting ==
    LET m        == Head(inbox)
        caps     == m.arg.caps \cap wanted_caps
        response == calculate(m.arg.plugin, "nonce", "ssl" \in caps)
        seq      == next_seqnum(chan.seq)
    IN  /\ at = "greeting" /\ Expected(chan.seq)
        /\ \/ m.t = "err" /\ ConnectFails("server_error")
           \/ /\ m.t = "malformed"
              /\ \E error \in {"server_unsupported", "protocol_value_error"} : ConnectFails(error)
           \/ m.t = "greeting" /\ ~(required_caps \subseteq m.arg.caps)
                               /\ ConnectFails("server_unsupported")
           \/ /\ m.t = "greeting" /\ required_caps \subseteq m.arg.caps
              /\ response \notin Responses /\ ConnectFails(response)
           \/ /\ m.t = "greeting" /\ required_caps \subseteq m.arg.caps
              /\ response \in Responses
              /\ auth' = [caps |-> caps, plugin |-> m.arg.plugin, response |-> response]
              /\ chan' = [chan EXCEPT !.seq = next_seqnum(seq)]
              /\ IF "ssl" \in caps
                 THEN Send("ssl_request", caps, seq) /\ at' = "ssl"
                 ELSE Send("response", [caps |-> caps, auth |-> response], seq) /\ at' = "auth"
              /\ UNCHANGED last
        /\ Take
        /\ UNCHANGED <<params, rs, left, stmt, fields, app>>

\* The SSL handshake, and the handshake response over SSL.
SslHandshake ==
    /\ at = "ssl"
    /\ \/ /\ srv.phase = "tls"
          /\ chan' = [chan EXCEPT !.ssl = TRUE, !.seq = next_seqnum(@)]
          /\ toServer' = Append(toServer,
                [t |-> "response", arg |-> [caps |-> auth.caps, auth |-> auth.response],
                 seq |-> chan.seq, ssl |-> TRUE])
          /\ at' = "auth"
          /\ UNCHANGED <<last, auth>>
       \/ ConnectFails("ssl_error")
    /\ UNCHANGED <<params, rs, left, stmt, fields, app, wire, inbox, down, srv>>

\* channel::set_current_capabilities, once the handshake is complete.
set_current_capabilities_mutant(caps) == chan.caps
set_current_capabilities(caps) == caps

\* process_handshake_server_response and what handshake does with its result.
ReadAuthResponse ==
    LET m        == Head(inbox)
        plugin   == IF m.t = "auth_switch" THEN m.arg.plugin ELSE auth.plugin
        response == calculate(plugin, m.arg.challenge, "ssl" \in auth.caps)
        seq      == next_seqnum(chan.seq)
    IN  /\ at = "auth" /\ Expected(chan.seq)
        /\ \/ /\ m.t = "ok"
              /\ Complete("ok")
              /\ chan' = [chan EXCEPT !.seq = seq, !.caps = set_current_capabilities(auth.caps)]
              /\ app' = [app EXCEPT !.connected = TRUE]
              /\ auth' = NoAuth
              /\ UNCHANGED toServer
           \/ m.t \in {"err", "malformed"} /\ ConnectFails(Refusal(m)) /\ UNCHANGED app
           \/ /\ m.t = "auth_more_data" /\ m.arg.challenge = "fast_auth_complete"
              /\ chan' = [chan EXCEPT !.seq = seq]
              /\ UNCHANGED <<at, last, auth, toServer, app>>
           \/ /\ \/ m.t = "auth_switch"
                 \/ m.t = "auth_more_data" /\ m.arg.challenge # "fast_auth_complete"
              /\ IF response \in Responses
                 THEN /\ auth' = [auth EXCEPT !.plugin = plugin, !.response = response]
                      /\ Send("auth_data", [auth |-> response], seq)
                      /\ chan' = [chan EXCEPT !.seq = next_seqnum(seq)]
                      /\ UNCHANGED <<at, last>>
                 ELSE ConnectFails(response)
              /\ UNCHANGED app
        /\ Take
        /\ UNCHANGED <<params, rs, left, stmt, fields>>

-----------------------------------------------------------------------------
(* Commands.                                                                  *)

Ready == /\ at = "none" /\ app.connected /\ ~app.rows
         /\ app.commands < MaxCommands

\* resultset_base::reset: nothing of the previous result is kept.
reset_mutant(r) == [r EXCEPT !.meta = 0, !.complete = FALSE]
reset(r) == [seq |-> 0, meta |-> 0, complete |-> FALSE]

\* execute_generic up to its first wait: the resultset is reset and the request
\* written, which counts its sequence number.
Execute(t) ==
    LET r == reset(rs)
    IN  /\ rs' = [r EXCEPT !.seq = next_seqnum(@)]
        /\ Send(t, app.commands + 1, r.seq)
        /\ at' = "response"
        /\ app' = [app EXCEPT !.commands = @ + 1, !.got = <<>>]
        /\ last' = "none"

ExecuteQuery ==
    /\ Ready
    /\ Execute("query")
    /\ UNCHANGED <<params, chan, auth, left, stmt, fields, wire, inbox, down, srv>>

\* execute_statement: nothing is sent when the number of parameters is wrong.
ExecuteStatement(num_params) ==
    /\ Ready /\ stmt.valid
    /\ IF num_params # stmt.params
       THEN Complete("wrong_num_params") /\ UNCHANGED <<rs, app, toServer>>
       ELSE Execute("execute")
    /\ UNCHANGED <<params, chan, auth, left, stmt, fields, wire, inbox, down, srv>>

\* process_response of execute_processor.
ReadResponse ==
    LET m == Head(inbox)
    IN  /\ at = "response" /\ Expected(rs.seq)
        /\ \/ /\ m.t = "ok"
              /\ Complete("ok")
              /\ rs' = [rs EXCEPT !.seq = next_seqnum(@), !.complete = TRUE]
              /\ UNCHANGED <<left, app>>
           \/ /\ m.t \notin {"ok", "num_fields"}
              /\ Fail(Refusal(m))
              /\ rs' = [rs EXCEPT !.seq = next_seqnum(@)]
              /\ UNCHANGED left
           \/ /\ m.t = "num_fields"
              /\ left' = m.arg
              /\ rs' = [rs EXCEPT !.seq = next_seqnum(@)]
              /\ at' = "fields"
              /\ UNCHANGED <<last, app>>
        /\ Take
        /\ UNCHANGED <<params, chan, auth, stmt, fields, toServer>>

\* has_remaining_fields, has_remaining_meta.
has_remaining_mutant(n) == n > 1
has_remaining(n) == n # 0

\* process_field_definition; after the last one the operation ends and the rows
\* are there to be read.
ReadField ==
    LET m == Head(inbox)
    IN  /\ at = "fields" /\ Expected(rs.seq)
        /\ \/ /\ m.t = "column"
              /\ rs' = [rs EXCEPT !.seq = next_seqnum(@), !.meta = @ + 1]
              /\ left' = left - 1
              /\ IF has_remaining(left') THEN UNCHANGED <<at, last, app>>
                 ELSE Complete("ok") /\ app' = [app EXCEPT !.rows = TRUE]
           \/ /\ m.t # "column"
              /\ Fail("protocol_value_error")
              /\ rs' = [rs EXCEPT !.seq = next_seqnum(@)]
              /\ UNCHANGED left
        /\ Take
        /\ UNCHANGED <<params, chan, auth, stmt, fields, toServer>>

\* prepare_statement: the request, ...
PrepareStatement ==
    /\ Ready /\ ~stmt.valid
    /\ Send("prepare", <<>>, 0)
    /\ chan' = [chan EXCEPT !.seq = next_seqnum(0)]
    /\ at' = "prepared"
    /\ app' = [app EXCEPT !.commands = @ + 1]
    /\ last' = "none"
    /\ UNCHANGED <<params, auth, rs, left, stmt, fields, wire, inbox, down, srv>>

\* remaining_meta_: one message for each column and for each parameter.
remaining_meta_mutant(ok) == ok.columns + ok.params + 1
remaining_meta(ok) == ok.columns + ok.params

\* ... the answer (a truncated one still makes the statement valid), ...
ReadPrepared ==
    LET m == Head(inbox)
    IN  /\ at = "prepared" /\ Expected(chan.seq)
        /\ chan' = [chan EXCEPT !.seq = next_seqnum(@)]
        /\ \/ /\ m.t = "prepare_ok"
              /\ stmt' = [valid |-> TRUE, params |-> m.arg.params]
              /\ left' = remaining_meta(m.arg)
              /\ IF has_remaining(left') THEN at' = "meta" /\ UNCHANGED last ELSE Complete("ok")
              /\ UNCHANGED app
           \/ /\ m.t # "prepare_ok"
              /\ Fail(Refusal(m))
              /\ stmt' \in IF m.t = "err" THEN {stmt} ELSE {stmt, [valid |-> TRUE, params |-> 0]}
              /\ UNCHANGED left
        /\ Take
        /\ UNCHANGED <<params, auth, rs, fields, toServer>>

\* ... and the metadata of its parameters and columns, which are ignored.
ReadMeta ==
    /\ at = "meta" /\ Expected(chan.seq)
    /\ chan' = [chan EXCEPT !.seq = next_seqnum(@)]
    /\ left' = left - 1
    /\ IF has_remaining(left') THEN UNCHANGED <<at, last>> ELSE Complete("ok")
    /\ Take
    /\ UNCHANGED <<params, auth, rs, stmt, fields, app, toServer>>

\* close_statement: no answer is expected.  When the request cannot be written,
\* close_statement makes the statement invalid and its asynchronous form does not.
CloseStatement ==
    /\ Ready /\ stmt.valid
    /\ chan' = [chan EXCEPT !.seq = next_seqnum(0)]
    /\ \/ /\ Send("close_statement", <<>>, 0)
          /\ stmt' = [stmt EXCEPT !.valid = FALSE]
          /\ Complete("ok")
          /\ app' = [app EXCEPT !.commands = @ + 1]
       \/ /\ down
          /\ stmt' \in {stmt, [stmt EXCEPT !.valid = FALSE]}
          /\ Fail("lost")
          /\ UNCHANGED toServer
    /\ UNCHANGED <<params, auth, rs, left, fields, wire, inbox, down, srv>>

-----------------------------------------------------------------------------
(* Rows.                                                                      *)

\* shared_fields().clear() before rows are collected.
clear_shared_fields_mutant == fields
clear_shared_fields == <<>>

\* read_one_row, read_some_rows, read_all_rows up to their first wait; nothing
\* is read when the resultset is complete.
ReadRows(kind) ==
    /\ at = "none" /\ app.connected
    /\ \/ /\ app.rows
          /\ at' = kind
          /\ fields' = clear_shared_fields
          /\ last' = "none"
       \/ /\ rs.complete
          /\ Complete("ok")
          /\ UNCHANGED fields
    /\ UNCHANGED <<params, chan, auth, rs, left, stmt, app, toServer, wire, inbox, down, srv>>

\* The operation ends and hands over the rows it collected.
HandOver(rows) ==
    /\ Complete("ok")
    /\ app' = [app EXCEPT !.got = @ \o rows, !.rows = ~rs'.complete]

\* deserialize_row for a row: read_one hands it over, read_some goes on while
\* the buffer holds messages, read_all until the end of the result.
ReadRow ==
    LET m == Head(inbox)
    IN  /\ at \in {"one", "some", "all"} /\ Expected(rs.seq)
        /\ m.t = "row"
        /\ rs' = [rs EXCEPT !.seq = next_seqnum(@)]
        /\ fields' = Append(fields, m.arg)
        /\ IF at = "one" \/ (at = "some" /\ Tail(inbox) = <<>>)
           THEN HandOver(fields')
           ELSE UNCHANGED <<at, last, app>>
        /\ Take
        /\ UNCHANGED <<params, chan, auth, left, stmt, toServer>>

\* deserialize_row for the packet that ends the rows, or for an error.
ReadEnd ==
    LET m == Head(inbox)
    IN  /\ at \in {"one", "some", "all"} /\ Expected(rs.seq)
        /\ m.t # "row"
        /\ \/ /\ m.t = "eof"
              /\ rs' = [rs EXCEPT !.seq = next_seqnum(@), !.complete = TRUE]
              /\ HandOver(fields)
           \/ /\ m.t # "eof"
              /\ rs' = [rs EXCEPT !.seq = next_seqnum(@)]
              /\ Fail(Refusal(m))
        /\ Take
        /\ UNCHANGED <<params, chan, auth, left, stmt, fields, toServer>>

-----------------------------------------------------------------------------
(* Ends and failures.                                                         *)

\* close_connection: quit, the SSL shutdown (its error ignored), and the socket
\* is closed whether or not quit could be sent.
CloseConnection ==
    /\ at = "none" /\ chan.open
    /\ \/ Send("quit", <<>>, 0) /\ last' = "ok"
       \/ down /\ last' = "lost" /\ UNCHANGED toServer
    /\ chan' = [chan EXCEPT !.open = FALSE, !.seq = next_seqnum(0)]
    /\ app' = [app EXCEPT !.connected = FALSE, !.rows = FALSE]
    /\ UNCHANGED <<params, at, auth, rs, left, stmt, fields, wire, inbox, down, srv>>

\* A read that finds a wrong sequence number.
Handshaking == {"greeting", "ssl", "auth"}
Expecting == IF at \in Handshaking \cup {"prepared", "meta"} THEN chan.seq ELSE rs.seq
SeqnumMismatch ==
    /\ at \notin {"none", "ssl"} /\ inbox # <<>>
    /\ ~Expected(Expecting)
    /\ Fail("sequence_number_mismatch")
    /\ chan' = [chan EXCEPT !.open = @ /\ at \notin Handshaking]
    /\ auth' = NoAuth
    /\ UNCHANGED <<params, rs, left, stmt, fields, toServer, wire, inbox, down, srv>>

\* A read or write fails because the connection is lost.
OperationFails ==
    /\ at # "none" /\ inbox = <<>> /\ down
    /\ Fail("lost")
    /\ chan' = [chan EXCEPT !.open = @ /\ at \notin Handshaking]
    /\ auth' = NoAuth
    /\ UNCHANGED <<params, rs, left, stmt, fields, toServer, wire, inbox, down, srv>>

\* message_reader::read_some: with no message left, it waits for one or more.
Arrive ==
    /\ at \notin {"none", "ssl"} /\ inbox = <<>>
    /\ \E n \in 1..Len(wire) :
          /\ inbox' = SubSeq(wire, 1, n)
          /\ wire' = SubSeq(wire, n + 1, Len(wire))
    /\ UNCHANGED <<params, at, last, chan, auth, rs, left, stmt, fields, app, toServer, down, srv>>

Lose ==
    /\ chan.open /\ ~down
    /\ down' = TRUE
    /\ UNCHANGED <<params, at, last, chan, auth, rs, left, stmt, fields, app,
                   toServer, wire, inbox, srv>>

-----------------------------------------------------------------------------
(* The server, as far as the client can tell.                                 *)

clientVars == <<params, at, last, chan, auth, rs, left, stmt, fields, app>>

Msg(t, arg) == [t |-> t, arg |-> arg, seq |-> 0]

\* The messages of an answer are numbered on from the one they answer.
Numbered(messages, seq) ==
    [i \in DOMAIN messages |-> [messages[i] EXCEPT !.seq = (seq + i) % SeqModulus]]

\* It greets whoever connects, refuses, or says nothing the client can read.
ServerGreets ==
    /\ srv.phase = "accept" /\ ~down
    /\ \/ \E caps \in ServerCaps, plugin \in {"native", "sha2", "other"} :
             /\ wire' = <<Msg("greeting", [caps |-> caps, plugin |-> plugin])>>
             /\ srv' = [srv EXCEPT !.phase = "auth", !.seq = next_seqnum(0)]
       \/ /\ \E t \in {"err", "malformed"} : wire' = <<Msg(t, <<>>)>>
          /\ srv' = [srv EXCEPT !.phase = "closed"]
    /\ UNCHANGED <<clientVars, toServer, inbox, down>>

\* It turns to SSL on request, accepts or rejects a handshake response, or asks
\* for something else first.
Accepted == {<<Msg("ok", <<>>)>>,
             <<Msg("auth_more_data", [challenge |-> "fast_auth_complete"]), Msg("ok", <<>>)>>}
Questions == {Msg("auth_switch", [plugin |-> p, challenge |-> "nonce"]) :
                    p \in {"native", "sha2", "other"}}
             \cup {Msg("auth_more_data", [challenge |-> "full"])}

ServerAuthenticates(m) ==
    LET caps == IF m.t = "response" THEN m.arg.caps ELSE srv.caps
    IN  \/ /\ m.t = "ssl_request"
           /\ srv' = [srv EXCEPT !.phase = "tls", !.seq = next_seqnum(@)]
           /\ UNCHANGED wire
        \/ /\ m.t \in {"response", "auth_data"}
           /\ \/ \E a \in Accepted :
                    /\ wire' = wire \o Numbered(a, m.seq)
                    /\ srv' = [srv EXCEPT !.phase = "command", !.seq = 0, !.caps = caps,
                                          !.rounds = 0]
              \/ /\ \E t \in {"err", "malformed"} :
                        wire' = wire \o Numbered(<<Msg(t, <<>>)>>, m.seq)
                 /\ srv' = [srv EXCEPT !.phase = "closed"]
              \/ /\ srv.rounds < MaxRounds
                 /\ \E q \in Questions : wire' = wire \o Numbered(<<q>>, m.seq)
                 /\ srv' = [srv EXCEPT !.phase = "auth", !.seq = (m.seq + 2) % SeqModulus,
                                       !.rounds = @ + 1, !.caps = caps]

\* A result: its columns, its rows, and how it ends.
Rows(command, columns, n) ==
    [i \in 1..n |-> [command |-> command, row |-> i, columns |-> columns]]
Result(columns, rows, end) ==
    <<Msg("num_fields", columns)>>
    \o [i \in 1..columns |-> Msg("column", <<>>)]
    \o [i \in DOMAIN rows |-> Msg("row", rows[i])]
    \o <<Msg(end, <<>>)>>

\* An answer; one of its messages may be nothing the client can read.
Spoiled(messages) ==
    {messages} \cup {[messages EXCEPT ![i] = Msg("malformed", <<>>)] : i \in DOMAIN messages}
Answer(messages, m, rows, end) ==
    /\ \E a \in Spoiled(messages) : wire' = wire \o Numbered(a, m.seq)
    /\ srv' = [srv EXCEPT !.rows = rows, !.end = end]

ServerAnswers(m) ==
    \/ /\ m.t \in {"query", "execute"}
       /\ \/ \E t \in {"ok", "err"} : Answer(<<Msg(t, <<>>)>>, m, <<>>, t)
          \/ \E c \in 1..MaxColumns, n \in 0..MaxRows, end \in {"eof", "err"} :
                Answer(Result(c, Rows(m.arg, c, n), end), m, Rows(m.arg, c, n), end)
    \/ /\ m.t = "prepare"
       /\ \/ Answer(<<Msg("err", <<>>)>>, m, <<>>, "err")
          \/ \E c \in 0..MaxColumns, p \in 0..MaxParams :
                Answer(<<Msg("prepare_ok", [columns |-> c, params |-> p])>>
                       \o [i \in 1..(c + p) |-> Msg("column", <<>>)], m, <<>>, "ok")
    \/ m.t = "close_statement" /\ UNCHANGED <<wire, srv>>
    \/ m.t = "quit" /\ srv' = [srv EXCEPT !.phase = "closed"] /\ UNCHANGED wire

\* It takes the next message, if that has the sequence number it expects.
ServerTakes ==
    LET m == Head(toServer)
    IN  /\ toServer # <<>> /\ ~down
        /\ m.seq = srv.seq
        /\ \/ srv.phase \in {"auth", "tls"} /\ ServerAuthenticates(m)
           \/ srv.phase = "command" /\ ServerAnswers(m)
        /\ toServer' = Tail(toServer)
        /\ UNCHANGED <<clientVars, inbox, down>>

\* It closes a connection that is idle for too long, with an error that answers
\* nothing and is numbered 0.
ServerTimesOut ==
    /\ srv.phase = "command" /\ toServer = <<>> /\ ~down
    /\ wire' = Append(wire, Msg("err", <<>>))
    /\ srv' = [srv EXCEPT !.phase = "closed", !.timedout = TRUE]
    /\ down' = TRUE
    /\ UNCHANGED <<clientVars, toServer, inbox>>

-----------------------------------------------------------------------------

Init ==
    /\ params \in Params
    /\ at = "none" /\ last = "none"
    /\ chan = [open |-> FALSE, ssl |-> FALSE, caps |-> {}, seq |-> 0]
    /\ auth = NoAuth
    /\ rs = [seq |-> 0, meta |-> 0, complete |-> FALSE]
    /\ left = 0
    /\ stmt = [valid |-> FALSE, params |-> 0]
    /\ fields = <<>>
    /\ app = [connected |-> FALSE, rows |-> FALSE, commands |-> 0, got |-> <<>>]
    /\ toServer = <<>> /\ wire = <<>> /\ inbox = <<>> /\ down = FALSE
    /\ srv = [phase |-> "none", seq |-> 0, caps |-> {}, rounds |-> 0, rows |-> <<>>,
              end |-> "none", timedout |-> FALSE]

Reading == \/ ReadGreeting \/ SslHandshake \/ ReadAuthResponse \/ ReadResponse \/ ReadField
           \/ ReadPrepared \/ ReadMeta \/ ReadRow \/ ReadEnd
           \/ SeqnumMismatch \/ OperationFails \/ Arrive

Next ==
    \/ Connect \/ Reading
    \/ ExecuteQuery \/ PrepareStatement \/ CloseStatement
    \/ \E n \in 0..MaxParams : ExecuteStatement(n)
    \/ \E kind \in {"one", "some", "all"} : ReadRows(kind)
    \/ CloseConnection \/ Lose
    \/ ServerGreets \/ ServerTakes \/ ServerTimesOut

\* A started operation is carried on by the io_context, the network delivers or
\* fails, and the server answers what it receives.
Fairness == WF_vars(Reading) /\ WF_vars(ServerGreets) /\ WF_vars(ServerTakes)

Spec == Init /\ [][Next]_vars /\ Fairness

-----------------------------------------------------------------------------
(* Properties.                                                                *)

SeqNum == 0..(SeqModulus - 1)
Results == {"none", "ok", "lost", "connect_failed", "ssl_error", "server_error",
            "server_unsupported", "wrong_num_params", "sequence_number_mismatch",
            "unknown_auth_plugin", "auth_plugin_requires_ssl", "protocol_value_error"}

\* Types; sequence numbers fit the uint8_t that holds them.
TypeOK ==
    /\ params \in Params
    /\ at \in {"none", "greeting", "ssl", "auth", "response", "fields", "prepared", "meta",
               "one", "some", "all"}
    /\ last \in Results
    /\ chan \in [open : BOOLEAN, ssl : BOOLEAN, caps : SUBSET {"mandatory", "db", "ssl"},
                 seq : SeqNum]
    /\ auth \in [caps : SUBSET {"mandatory", "db", "ssl"},
                 plugin : {"none", "native", "sha2"}, response : Responses]
    /\ rs \in [seq : SeqNum, meta : 0..MaxColumns, complete : BOOLEAN]
    /\ left \in Nat
    /\ stmt \in [valid : BOOLEAN, params : 0..MaxParams]
    /\ app.commands \in 0..MaxCommands
    /\ \A q \in {toServer, wire, inbox} : \A i \in DOMAIN q : q[i].seq \in SeqNum
    /\ srv.seq \in SeqNum /\ srv.rounds \in 0..MaxRounds

\* Rows reach the application in the server's order, each once and only those of
\* the current command, however read_one, read_some and read_all are mixed and
\* however the rows arrive; they have the columns the metadata tells, and a result
\* is complete only with all its rows.
RowsInOrder ==
    /\ app.rows /\ at = "none" => IsPrefix(app.got, srv.rows)
    /\ \A i \in DOMAIN app.got : app.got[i].columns = rs.meta
    /\ rs.complete /\ app.connected /\ srv.end = "eof" /\ at \in {"none", "one", "some", "all"}
            => app.got = srv.rows

\* Between operations client and server agree on where they are: nothing is left
\* to be read, nothing unanswered but a notice that needs no answer, so that the
\* next command is answered by its own answer.  This holds after an error the
\* server reports, too: the application may go on with the connection.
Synchronized ==
    at = "none" /\ app.connected /\ ~app.rows /\ ~down =>
        /\ inbox = <<>> /\ wire = <<>>
        /\ \A i \in DOMAIN toServer : toServer[i].t = "close_statement"
        /\ srv.phase = "command"

\* The next message always has the sequence number its receiver expects, in both
\* directions; only the error of a server that closes an idle connection has not.
SequenceAgrees ==
    /\ toServer # <<>> /\ srv.phase \notin {"none", "closed"} /\ ~down
            => Head(toServer).seq = srv.seq
    /\ inbox # <<>> /\ at \notin {"none", "ssl"} /\ ~srv.timedout => Expected(Expecting)

\* The password itself is sent only over SSL; with ssl_mode::require nothing of
\* the user is sent without.
PasswordOverSsl ==
    \A i \in DOMAIN toServer :
        toServer[i].t \in {"response", "auth_data"} =>
            /\ toServer[i].arg.auth = "password" => toServer[i].ssl
            /\ params.ssl = "require" => toServer[i].ssl

\* A connection that connect reports as established was accepted by the server,
\* and both ends have the same idea of its capabilities and of SSL.
ConnectedMeansAgreed ==
    app.connected => /\ srv.phase \in {"command", "closed"}
                     /\ chan.open
                     /\ chan.caps = srv.caps
                     /\ (chan.ssl <=> "ssl" \in chan.caps)
                     /\ params.ssl = "require" => chan.ssl
                     /\ params.db => "db" \in chan.caps

\* Every operation ends, with a result or an error, even if the connection is
\* lost or the server closes it.
OperationEnds == at # "none" ~> at = "none"
=============================================================================
