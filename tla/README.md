# mlnserver-web: a verification project

`mlnserver-web` is an HTTP lobby server. It is built on the C++ framework
*mlnsdk* (coroutines on one Boost.Asio `io_context`), keeps accounts and player
values in MySQL through a bundled copy of `boost_mysql`, and keeps login
sessions in Redis. This directory holds TLA+ models of the server's own code and of
the library code it depends on most (the MySQL client, the reading of design
tables), the TLC configurations that check them and TLAPS proofs about them.

Source paths below are relative to `src/mlnserver/`, those of `boost_mysql` to
`src/mlnserver/boost_mysql/include/boost/mysql/`.

## Inventory

| Part | State | Operations | Talks to |
|---|---|---|---|
| Handlers: `myPacketHandler/*`, `lobbyServerMacros.h`, `lobbyServerUtils.h` | a coroutine per request; per thread and source file `additional_info`, `paramStringForDev` | `/alive`, `/account/auth_pass`, `/player/value_set`, `/player/value_get` | ConnMgr (call), MySQL (suspending), SessionManager and Redis (blocking) |
| `SessionManager` | none | `genSessionKey`, `createSession`, `isValidSession` | RedisConnector |
| `RedisConnector` | `spRedis`; a detached subscriber thread | `init`, `publish`, `hset`, `hgetAll`, `ConsumerThreadTask` | the Redis server |
| `ConnMgr` (`mysqlConn/`) | `_opts`, `_pools`; a detached thread that creates connections | `initTarget`, `createPoolFunc`, `getConn`, `createConn`, `releaseConn`, destructor | MySQL |
| `main`, `LobbyServerCoro` | startup order | `main`, `start`, `run` | all of the above |
| `Configuration` | settings | `load` | a file |
| `TableManager` with `nlohmann::json` and `struct_mapping` | design tables; a parsed document; static members of the mapping | `loadTables`: parse, dump, `map_json_to_struct` | a file |
| `boost_mysql` channel (`detail/channel/`) | read buffer with four areas, parser state, writer state, sequence numbers | `write`, `read_some`, `get_next_message`, `reset` | a byte stream |
| `boost_mysql` algorithms (`detail/network_algorithms/`, `detail/auth/`) | resultset, statement, capabilities, shared fields | `connect`, `handshake`, `query`, `prepare`, `execute`, `read_one`, `read_some`, `read_all`, `close` | the channel |
| mlnsdk, redis++, MySQL, Redis | external | | |

What is hard about it:

* **Concurrency.** 20 worker threads run the coroutines. A handler suspends in
  every MySQL operation and resumes on whichever thread is free, yet uses
  thread-local variables before and after; Redis and `getConn` block the thread.
* **Two stores without a transaction.** A login is a SELECT, an INSERT, an HMSET
  and an EXPIRE, each of which can fail alone; two logins of one user interleave.
* **Late effects.** A statement whose connection broke may still execute.
* **Threads that nobody joins.** The pool thread and the subscriber thread are
  detached, and either of two threads may call `std::exit`, whose destructors then
  run while handlers go on.
* **Framing in place.** The channel joins the frames of a message inside its
  buffer, by removing headers from under bytes already handed out, while reads
  return any number of bytes and the buffer is reallocated.
* **A protocol without message identifiers.** Only order and one-byte sequence
  numbers relate an answer to its command; an error may end an answer anywhere.
* **Two parsers for one table.** A row is parsed by one library, written out,
  and parsed again by another with different ideas of strings, numbers and
  unknown members.

What would make each part correct: a session names the account it was issued
for and expires; a row of `player` belongs to someone who logged in; of several
`value_set` for a value one wins and the others are told so; a resultset is
drained before the connection is used again; every accepted request is
answered; a connection has one user; startup failures end the process;
messages arrive whole, once and in order; a command gets its own answer and all
its rows; the password is sent over SSL only; rows of a table are loaded as they
were written. The
`hazards` of `PROJECT.json` list where each of these could fail.

## Modules

| Module | Models | Role |
|---|---|---|
| `ConnSource` | what a handler relies on when it asks for a connection | abstract specification |
| `ConnMgr` | `mysqlConn/mysqlConnMgr.cpp` | implements `ConnSource` |
| `LobbyServer` | handlers, macros, `mysqlTemplate`, `SessionManager`, the client side of `RedisConnector`; MySQL and Redis as they use them | the core |
| `ServerProcess` | `main.cpp`, `lobbyServerCoro.cpp`, the subscriber thread | process life cycle |
| `MessageFifo` | what the message layer promises | abstract specification |
| `MessageChannel` | `detail/channel/` | implements `MessageFifo` |
| `MysqlClient` | `detail/network_algorithms/`, `detail/auth/` | written on top of `MessageFifo`'s promise |
| `JsonText` | lexer and serializer of `nlohmann/json.hpp` | operators used by `TableLoader` |
| `TableLoader` | `tableManager.cpp`, the parser of `nlohmann/json.hpp`, `struct_mapping` | composes both parsers |
| `TableReference` | the grammar of RFC 8259, and the table that rows are to give | reference definitions for `TableLoader` |
| `MC...` | | constants for TLC |
| `ConnMgrProofs`, `LobbyServerProofs`, `ServerProcessProofs`, `MessageChannelProofs`, `MessageStreamProofs`, `MysqlClientProofs`, `JsonTextProofs`, `TableLoaderProofs` | | theorems |

### LobbyServer

One action is one uninterrupted stretch of a handler: from a resumption to the
next suspension or blocking call, all the state changes of that stretch
included. The state of a request is where it waits (`pc`), its request, the
thread it occupies, its `sessionDataOpt` (`sess`), what it has read (`got`) and
its reply. Each request has its own connection, whose server side is `stmt`
(sent and not executed), `wire` (what MySQL still has to deliver), `dup` and
`complete`.

| Action | Code |
|---|---|
| `Accept` | `HTTP_CORO_HANDLE_CASUAL_BEGIN`, `..._SESSION_BEGIN`; header check; for `auth_pass` also the parsing of the body |
| `CheckSession`, `SessionCheckThrows` | `HTTP_CORO_SESSION_CHECK` with `isValidSession`, then the parsing; HGETALL throwing outside every `try` |
| `GetConn`, `GetConnNull` | `getConn` and the first `sendQuery`; the null pointer it dereferences |
| `QueryDone`, `ReadRow`, `ReadNone`, `PurgeRow`, `PurgeEnd` | `sendQuery`, `readOne`, `purgeResult` |
| `InsertAccountDone`, `InsertPlayerDone`, `DupEntry`, `IoError` | what follows an INSERT; `check_error` and the catch clauses |
| `Hmset`, `Expire`, `RedisThrows` | `createSession` and `RedisConnector::hset` |
| `DbSelectAccount`, `DbInsertAccount`, `DbInsertPlayer`, `DbSelectPlayer`, `DbDrop`, `SessionExpires` | external: MySQL and Redis |

A body is one of four kinds (unparsable, field missing, field of another type,
well formed), since the handlers treat exactly these differently: 400 with
"invalid json-string", 400 with "bad parameter", 500, or onward.
`paramStringForDev` is a `static thread_local` of a header, so each source file
has its own per thread; the model keeps it by thread and file. A Redis command
that throws may have been executed. `IoError` leaves the statement with MySQL,
which executes it later or (`DbDrop`) never.

`handleAccount.cpp:46`, `:56` and `handlePlayer.cpp:35`, `:73` put `user_id` and
`myvalue` into the text of the statement as the client sent them. The model
takes the statement that is meant, so all it says holds for values in which no
quote or backslash changes the statement.

### ConnMgr

`initTarget` starts the pool thread with `std::bind`, which copies the pool: the
thread's stack (`fillerStack`) and the member (`pools`) are two variables.
`createConn` connects or yields a null pointer. `getConn` is two steps, the
locked look at the pool and the unlocked `createConn`. Handlers never give
connections back; dropping the last `shared_ptr` closes the socket
(`DropConn`), and so does the end of the pool thread (`FillerReturns`).
`ConnSource` has two actions only: a connection that was never handed out gets
an owner, or is closed. The refinement mapping is `Owner`.

The singleton is destroyed by `std::exit` or behind `main`, without a lock and
while the other threads go on: `StartExit`, `DestroyPools` (the body of
`~ConnMgr`, a connection at a time), `DestroyMembers`, `ExitEnds`. A handler that
gets to `getConn` after the pools are cleared fails its assert (`getConnAborts`).
What `createConn` makes of the options once the members are destroyed is
undefined: the model lets `_opts.size()` be 0 or what it was, and then the assert
fails (`createConnAborts`) or the freed options are read (`createConnCrashes`, or
`createConn` as before). Accesses to the freed memory of `_pools` have no outcome
of their own, since its body has set its size to 0 before.

### ServerProcess

`main` moves through configuration, Redis, tables, serving, closing. The
subscriber thread connects, subscribes channel by channel and consumes. A
timeout of `consume` continues the loop, any other error is logged and the loop
goes on with a broken connection; an error before the loop ends the process.
`run` loads the configuration a second time, which may throw (`RunLobby`).
Handlers run from then on until the process is gone (`UseRedis`), also while
`std::exit` destroys the shared client (`DestroyClient`, `ExitEnds`): a handler
that finds no client crashes the process.

### MessageChannel

`wr` is `message_writer_processor`, `rb` the `read_buffer` with the ends of its
areas, `ps` and `res` the state and the result of `message_parser`. Bytes are
numbers, and headers are bytes in the stream like any others, encoded and
decoded as `packet_header` is. `WriteChunk` hands the stream one frame (the
stream cuts it up at the receiving end), `ReadBytes` delivers any number of
bytes that fits the free area, `ParseHeader` and `ParseBody` are the two halves of
the loop of `parse_message`, with the removal of headers between frames,
`ReadSome` closes up the reserved area unless messages are kept, and grows the
buffer. `views` remembers where handed-out messages lie: the program keeps
pointers to them (rows are views into the buffer until the next read), so
`KeptMessagesIntact` says that the bytes are still there. Each end is a user of
the other's framing: the MySQL server frames as the writer does. `Lose` ends the
stream; reads and writes then fail.

### MysqlClient

One connection, on messages instead of bytes. `at` is what the current operation
waits for, `last` how the previous one ended. `wire` and `inbox` distinguish
messages on their way from those already in the read buffer, since `read_some`
returns what has arrived and `read_one` leaves the rest.

| Action | Code |
|---|---|
| `Connect`, `ReadGreeting`, `SslHandshake`, `ReadAuthResponse` | `connect`, `handshake` with `process_capabilities`, the SSL request, the plugins and the switch of plugin |
| `ExecuteQuery`, `ExecuteStatement`, `ReadResponse`, `ReadField` | `execute_generic` |
| `PrepareStatement`, `ReadPrepared`, `ReadMeta`, `CloseStatement` | `prepare_statement`, `close_statement` |
| `ReadRows`, `ReadRow`, `ReadEnd`, `HandOver` | `read_one_row`, `read_some_rows`, `read_all_rows`, `deserialize_row` |
| `CloseConnection` | `close_connection`, `quit_connection` |
| `SeqnumMismatch`, `OperationFails` | the error paths of every operation |
| `Server...`, `Lose` | external: MySQL, the network |

The server may refuse, switch the plugin, ask for full authentication, send a
message that cannot be deserialized (a greeting of protocol 9 counts as one, with
an error of its own), end a result with an error, and close an
idle connection with an error whose sequence number is 0. The application is the
lobby server as `LobbyServer` describes it: it drains a result before the next
command (`ResultsDrained` there) and drops a connection after any error the
server did not report. A capability is one of three: the mandatory ones as a
whole, the database, SSL.

The model follows the synchronous functions, which `createConn` calls. The
asynchronous ones differ in three places. `close_statement_op` leaves the statement
valid when its request cannot be written and `close_statement` does not:
`CloseStatement` allows both. `handshake_op` sets the current capabilities
before authentication (`handshake.hpp:310`) and `handshake` after it (`:452`); no
message between the two depends on them, and the server has no asynchronous
handshake. `quit_connection_op` goes on after it has completed with an error
(`quit_connection.hpp:51-54`) and completes again; the server never quits
asynchronously, and the model leaves this out.

### JsonText and TableLoader

`JsonText` has the lexer (`scan_number` as its table of labels, `scan_string`,
`scan`) and the compact serializer. `TableLoader` runs three loops one step at a
time: `sax_parse_internal` feeding `json_sax_dom_parser` (`BeginObject` to
`EndOfInput`), the loop over the rows (`SkipRow`, `MapRow`, `BadID`, `Loaded`),
and the parser of `struct_mapping` over the text `dump` wrote (`MapMember` to
`BadCharacter`), with the callbacks that fill in `MyData` and the static
`member_deep_index` (`deep`), which outlives a member it should not.

Loops and recursion of the program are recursive functions over positions in
the text, or the first position where a condition holds; `dump`, which calls
itself for the values in a value, is written level by level (`Unfold`): a level
is a sequence of pieces, and a piece that is not text yet is replaced by its own
pieces. As many levels as the file has characters are enough, which is proved.
What these two modules are compared with, the grammar and the table the rows are
to give, is recursive by nature and has a module of its own, `TableReference`.
The lexer takes two liberties with the grammar: a byte order mark may come first
(`skip_bom`), and a NUL outside a string is the end of the input, whatever
follows it. `Accepted` is the grammar with these two. With the second, the
comment at `json.hpp:12223`, "in strict mode, input must be completely read",
does not hold: what follows such a NUL is never looked at.

Two properties speak of rows. `PlainRowsLoad`: a load that fails, or is
undefined, does so at a row that is not *plain*, where a plain row has an ID,
known members of their own types and unknown ones that neither parser trips
over. `NoRowLoadsWrong`: as long as the rows are *legible* (no escaped
characters, no objects inside, no float that is written without a point in the
place of an `int`), whatever their types and however large their numbers, the
table is exactly what the rows say; a row may be left out for its ID or end the
load, but is never loaded with another value than the one it has.

A text is a sequence of characters. The literals `true`, `false` and `null` are
one character each, a member's name is its first letter, one control character
stands for all, unicode escapes and the validity of UTF-8 are left out, and a
float is its digits and its decimal point, so that both notations of the
serializer are written as the program writes them. Widths are small:
an `int` is in -5..4 (`IntHalf`), a 64-bit number in -500..499 (`LongHalf`),
a double has its point up to 9 (`MaxPoint`) and is written without exponent up
to 3 digits (`kMaxExp`). Downwards, a double that is not 0 is normal with its
point at -5 or above (`MinPoint`), subnormal down to -7 (`TinyPoint`), and 0
below (`Flushed`): the limits of a double are rounded to powers of ten. `strtod`
as the JSON library calls it takes subnormal numbers, while `std::stod` throws for
them (`stod`). Where the program indexes `functions.init` with `NO_INDEX` the model ends
in `"undefined"`. A float ID out of range, undefined in C++, becomes the least
or the greatest `int`.

## Runs

Every run finishes in less than three minutes on two workers.

| Run | Expect | What it shows |
|---|---|---|
| `conn_mgr` | pass | connections are exclusive, none leaks, prewarmed connections are closed again, `ConnMgr` implements `ConnSource`, also while the singleton is destroyed |
| `conn_exit` | violation | `std::exit` clears the pools and a handler's `getConn` fails its assert |
| `conn_prewarmed` | violation | prewarmed connections are never handed out |
| `lobby` | pass | sessions, accounts, rows and replies stay consistent under concurrent requests, I/O errors, Redis errors and expiry; a refusal quotes the parameter of its own handler |
| `lobby_liveness` | pass | the same server on one thread, fed with bodies of every kind and wrong keys, and without a UNIQUE key on `account.user_id`, so that a SELECT may find several rows: a login names an account of the user, results are drained, every accepted request comes to an end |
| `session_ttl` | violation | HMSET was executed, EXPIRE throws: the session stays for ever |
| `value_get` | violation | `value_get` looks at another column than `value_set` writes |
| `process` | pass | with or without a Redis host: with one, no request finds the client missing before `std::exit` has destroyed it; startup failures end the process, messages are consumed as long as the connection lasts |
| `process_deaf` | violation | after a broken connection the server goes on without its subscriber |
| `channel` | pass | messages of 0, 2 and 3 bytes in frames of 2 arrive whole, once and in order, in whatever pieces; those kept stay intact; sequence numbers agree; with fairness, `MessageChannel` implements `MessageFifo` |
| `mysql_client` | pass | rows are exact and in order however they are read; after a command or an error of the server both ends are in step; sequence numbers agree; the password needs SSL; a connected client and its server agree; every operation ends |
| `table_load` | pass | the JSON grammar, with the two liberties, is what is accepted; what `dump` wrote is parsed again; an exception or undefined behaviour is met at a row that is not plain only; no legible row is loaded with a wrong value; the parsers read on |

The five violations are disagreements between a comment or an assertion of the
source and what the code does; `findings` in `PROJECT.json` quotes each of them.

**Bounds.** Three requests on two threads are the smallest instance in which two
requests interfere while a third one observes or occupies a thread; two users
and one or two values give both agreement and conflict. `MaxAccounts` covers
every INSERT that the requests can make, plus the numbers that failed INSERTs
use up. `MaxFaults` is 1 or 2, so that an error can follow an error. In
`ConnMgr` there are more connections than handlers, so that reuse of a closed
one would show. `MCMessageChannel` has sequence numbers modulo 3 and frames of
2 bytes: a message needs an empty last frame, another one two frames, and
numbers wrap inside a message; two messages make the parser join frames behind a
message that is kept. `MCMysqlClient` has sequence numbers modulo 4, two commands
of up to 2 columns and 2 rows, statements of up to 1 parameter and 1 more round
of authentication: enough for a wrap in a result, a command after a failed one
and rows that arrive in two reads. `MCTableLoader` takes all texts of up to 4
characters of numbers and strings and of up to 5 structural pieces, of up to
3 more behind a first member of an object (`MaxMore`: a comma that nothing
follows) and of up to 4 byte order marks, NULs and brackets (`MaxMarks`), tables of
up to 3 rows, single rows with every combination of an ID, a string and an array
from lists of boundary cases, and rows with a number at, above and below each
limit of a double. In `conn_mgr` the process may exit at any moment. Sessions may expire at any time. `lobby_liveness` has a single
thread, where a blocked handler would block the others. Deadlock checking is
off where all requests have been answered, or all messages and commands are
done, and the system may stop. It is on in `table_load`: only a load that has
ended may stutter. With `ReadsOn`, which says that every other step moves on in
the text, in the document or in the rows, this shows that loading ends.

**Fairness.** Weak fairness on the steps of a handler (threads are scheduled;
Redis and MySQL calls return or throw, since both clients report broken
connections), on resumptions and on MySQL executing what it received. Arrivals,
faults, expiry and `DbDrop` are not fair by themselves. `ConnMgr` and
`ServerProcess` assume weak fairness of each thread's own steps, the failing of an
assert among them, and `ServerProcess` that destructors return and `std::exit`
ends; never of outages, nor that somebody calls `std::exit`. `MessageChannel` and `MysqlClient` assume that a started operation is
carried on (the `io_context` runs), that the network delivers or fails (TCP
reports a lost connection) and that the server answers what it receives; never
that a new message or command is started, or that the connection is lost.

## Proofs

TLAPS proves, for every value of the constants:

| Module | Proved of | Theorems |
|---|---|---|
| `LobbyServerProofs` | `LobbyServer` | `TypeOK`, `SessionNamesAccount`, `RowsHaveLogin`, `PermanentHasCause`, `AuthNamesAccount`, `OneWinner`, `DupIsAnothers`, `ResultsDrained`, `BadParameterNamesOwn`, `SessionsNameOneUser` are invariants, and with a UNIQUE key on the user so is `OneAccountPerUser` |
| `ConnMgrProofs` | `ConnMgr` | `TypeOK`, `ExclusiveUse`, `NoLeak` are invariants; `ConnMgr` implements `ConnSource` |
| `ServerProcessProofs` | `ServerProcess` | `TypeOK`, `CrashHasCause` are invariants |
| `MessageChannelProofs` | `MessageChannel` | `TypeOK`, `AreasOrdered` are invariants |
| `MessageStreamProofs` | `MessageChannel` | so are `NoMismatch`, `KeptMessagesIntact`; every behaviour is one of `MessageFifo` without its fairness |
| `MysqlClientProofs` | `MysqlClient` | `TypeOK`, `PasswordOverSsl`, `ConnectedMeansAgreed`, `SequenceAgrees`, `Synchronized`, `RowsInOrder` are invariants |
| `JsonTextProofs` | `JsonText` | lemmas: `scan` reads on and gives a token; `dump` gives what the parts of a value are written as, joined; integers, strings and floats are scanned as they were written |
| `TableLoaderProofs` | `TableLoader` | `TypeOK` is an invariant, and every row is written out completely; every step is one of `ReadsOn`; if every file with a document was dumped from it, `ParsedIsWritten` is an invariant |

The assumptions are those of the modules. In `LobbyServer` numbers are naturals,
the values that stand for "nothing" differ from the others, `Kinds` are requests
that clients can send; nothing is assumed about finiteness. `ChannelAssumption`
asks that a frame can hold a byte and that messages are sequences of numbers,
and says nothing of the size of the buffer, of messages or of the modulus of the
sequence numbers; `ProcessAssumption` asks for natural bounds.
`ClientAssumption` asks for natural bounds on results, statements and rounds of
authentication, for a modulus of at least 2, and for connection parameters and
capabilities of the kinds the client knows. `TextAssumption` and
`LoaderAssumption` ask for natural bounds, with an `int` no wider than a 64-bit
number, for limits of a double in their order, and for names and files that are texts; nothing is assumed of what a
file holds or how long it is. They ask for an `int` of more than one bit, because
the ID of a row may be a boolean, and `true` is converted to 1: the proof of
`TypeOK` fails where 1 is no `int`. `UniqueUserId` is a hypothesis of one theorem only, since
nothing in the code tells whether the table has that key. No theorem uses
fairness.

*LobbyServer, sessions and accounts.* None of the properties is inductive: that
a session names an account depends on what a handler holds in `got` when it
reaches HMSET, hence on what MySQL put on the wire, hence on which statement
belongs to which request. `IInv` adds, per request, `IdleOK` (an unstarted
request has left no trace), `ControlOK` (the location determines the kind of
request), `StmtOK` (so does the statement still with MySQL, even after the
handler gave up) and `AccountOK` (what `auth_pass` has read or will read are
accounts of its user), and across requests `SessionOK` (every session, every
checked session and every row comes from a login). The argument has three
layers: a lemma `...Good` per action shows that the types, the request's own
part and the other requests are preserved (`LocalFrame` extends this to all
requests); `QuietStep`, `StoreStep`, `CheckStep` and `PlayerStep` show the part
across requests, most actions being "quiet"; `NextIInv` puts them together.

*LobbyServer, replies.* `RInv` is proved on top of `IInv`. Its core is `RowsOK`:
every row of `player` has a request that `Owns` it, having had its INSERT executed, every
request that was told "ok", or will be, owns its row, no two of them have the
same value, and every request that was refused, or will be, has a `Rival` that
owns a row with its value. The late effects make this delicate: a request may
own a row though it was told "server error", so ownership is by the row and
not by the reply, and a row once owned must stay owned while its request goes
on. `StatementOK` (a statement MySQL has not executed is the one being waited
for, unless the connection broke), `DrainedOK` (where a resultset has been read
to its end) and `QuotesOK` (each thread's copy of `paramStringForDev` holds
nothing or the parameter of its source file's handlers, whoever ran there)
carry the rest. `RowsFrame` shows that all steps but the INSERT itself keep
`RowsOK`.

*ConnMgr.* `IInv` adds to `ExclusiveUse` that the member pools are always empty
(the pool thread fills its copy) and that the pool thread owns what is on its
stack. The refinement is proved step by step with `OwnerIs`, which says what
the mapping yields in terms of `held` and `sock`.

*ServerProcess.* `CrashHasCause` needs `ClientBehindInit`: as long as `main` goes on behind
`RedisConnector::init`, with a host, the client is there or has been destroyed,
and requests are served only by then.

*MessageChannel.* `MessageChannelProofs` proves what each operation of
`read_buffer` does to the bytes (`MemmoveFacts` and the lemmas that follow it),
and with `WriterOK` (a message is never written beyond its end) the types and the
order of the areas. `MessageStreamProofs` says what the bytes mean. `SInv`
claims the existence of a log of every byte and every frame that was ever put
on the stream: frame j starts behind byte `at[j]`, holds `len[j]` bytes of
message `msg[j]` from `off[j]` on and has number `num[j]`. The writer is at the
end of the log (`WriterAt`), what the reader has not parsed is the log behind
some byte (`StreamIs`), and the reader has taken the headers of the first k
frames (`ReaderAt`); with `CurrentOK`, `ReadyOK` and `ViewsOK` the buffer holds
the messages the log says. No variable holds the log: each step that writes
shows that a longer one exists (`ExtendedOK`), each step that
reads moves k and the byte. From it follow that no number is unexpected, that
kept messages are never overwritten, and `FramingIsAFifo`, the safety part of
the refinement: initial states map to initial states and every step is a step of
`MessageFifo` or a stutter.

*MysqlClient.* Messages have no identifiers, so what an operation makes of the
next one is right only if both ends agree on what is still to come. `IInv` says
for each place an operation waits at what that is. `Coming` is what the buffer
holds and what is on its way, `Rest` its length without the error of a server
that timed out, which answers nothing and has number 0; `InOrder` and
`NumbersFrom` number the messages from the one the client expects, and
`Waiting(kinds)` is a request the server has not taken, with nothing but
`close_statement` before it. `GreetingOK`, `SslOK`, `AuthOK`, `ResponseOK` and
so on list the few ways the two ends can stand to each other there; a message
that cannot be deserialized may take the place of any. `SequenceAgrees` and
`Synchronized` follow for all states, `ConnectedMeansAgreed` and
`PasswordOverSsl` are carried along. One lemma `...IInv` per action shows that
the step leads from one such place to another; `ClientKeeps`, `ClientSends`,
`ServerSends` and `Assembled` are what these share. The last part adds what
the messages hold: `RowsFrom(a, k, c)` says that behind a messages those rows
follow that the server sent from row k on, each of c columns, and then its end.
`RowDataOK` joins the parts: the rows the application has, the rows the
operation has collected and the rows to come are together the server's, so
`RowsInOrder` does not depend on which of `read_one`, `read_some` and `read_all`
took them. A complete result is the case in which nothing is to come.

*TableLoader.* The model is made of recursive functions, so the proofs start
from induction on the naturals, in a form the provers can use: about sets
instead of operators. `LeastNatural` (every set of naturals has a least
element) follows from the library's theorems on well-founded relations;
`Induction` and `Recursion` follow from it, and `IntervalRecursion` and `First` are
the forms the lexer's loops have. `ScanType` says that `scan` yields a
token and that it reads on, `DumpType` that `dump` yields text, when it has as
many levels as the value is deep.

The invariant has two halves. `ParsingInv` says that all values the parser holds
are in some set `S` of values, closed under taking the parts of a value, each
with a rank above those of its parts (`Nested`), and that no rank is beyond what the
lexer has read (`Held`); when a value is finished, `Compose` adds it to the set
with the next rank. A value of the document is therefore less deep than the
text is long, which makes the rows that `MapRow` writes out texts without a value
left in them. `MappingInv` says that the second parser stands in or behind such
a text, and that what it has filled in is a `MyData`. One lemma `...Step` per
action shows that the invariant is preserved together with the part of `ReadsOn`
the action is responsible for: the parsers read on because `scan` does, and
because `wait`, `ClosingQuote` and `NumberEnd` never go back (`HereFacts`,
`ScalarAtFacts`).

`RoundTrip` is about what the parser finds in a text that `dump` wrote. Its
hypothesis `Dumped` speaks of `Files` alone: a file with a document has the text
`dump` gives for that document, with enough levels, and the document is built of
`Writable` scalars (null, booleans, integers of 64 bits, floats with the digits and
the point a finite double has, strings without a NUL or the character that
stands for the end of the text), arrays, and objects with `Names` for keys. `ScalarsBuilt`,
`ValuesBuilt` and `BuiltDumped` show that the hypothesis is not empty: scalars can be
documents, so can arrays and objects of what can, to any depth. Writable floats
have their point at `TinyPoint` or above, so that reading them does not flush them. The documents of
`MCTableLoader` are of this kind, its other files have none. Without the
hypothesis nothing ties a file's text to its document, and the property is about
that tie; the order `dump` writes members in, which strings it escapes, and how it
lays out a float are all in the text.

* `Left(text, q, t)`: behind its first `q` characters the text is `t`. All facts
  about the lexer have this form: if a value's text is left, and behind it a
  character that can follow a value (`Follow`), `scan` gives the value's token and
  what is left behind it. `PathWhole` and `PathLiteral` follow the number automaton
  over the texts of integers and floats, `NumberEnds` finds its end,
  `DigitsOfBack` and `IntegerBack` undo `DigitsOf`, `StringBack` undoes the escapes.
  For a float, `FormatBuffer` shows that each layout of `format_buffer` is a literal
  with the same digits between zeros, `StrtofParts` what `strtof` makes of the parts
  of a literal, and `FloatIs` that the zeros change nothing but the place of the
  point; `FloatBack` joins them.
* `DumpWrites`: however many levels `dump` is unfolded, the text of a value is that
  of its parts, joined (`Writes`). `Rest(w, x, k)` is what is left of the text of `x`
  behind its first `k` elements.
* `WrittenInv`, the inductive invariant on top of `IInv`: the parser is on a path of
  values that are being read, from the document to the innermost (`Due`); each open
  container holds the first `k` elements of its value (`Holds`), and what is left of
  the text is, from the innermost outwards, the rest of each of these values
  (`Progress`). One lemma `...Progress` per action moves it along; `NoBadValue`
  and `NoBadSeparator` show that the actions that reject a text are not taken.

The proofs found two places where a `CASE` of the model had arms that overlap
(`goto` behind a minus, and `TypeIn`): TLC takes the first one that is true, the
definition of `CASE` any. Both are now disjoint.

Only model-checked:

* liveness, which is outside the prover: `Answered`, `PrewarmedIsClosed`,
  `MessagesConsumed`, `StartupFailureExits`, `OperationEnds`, and the
  fairness of `MessageFifo`; and that `table_load` has a step until it has ended,
  which is a matter of ENABLED;
* `ParsesTheGrammar`, `PlainRowsLoad` and `NoRowLoadsWrong`, which compare `TableLoader` with
  recursive operators: these are outside the prover, too.

## Not modelled

* `boost_mysql`: byte formats of messages and fields, conversions of field
  values, the hashes of the plugins, SSL itself, error texts (`errc.hpp` and
  `error_descriptions.hpp` are tables of numbers and texts), the wrappers of the
  public interface. A message that cannot be deserialized is one kind of message.
* `boost_mysql-0.2.0_src`, an older copy that the server does not include.
* `nlohmann/json.hpp` beyond what the server uses of it: of its 24 600 lines the
  largest parts are binary formats, iterators, pointers, patches, type traits and
  a macro library without state.
* `struct_mapping`: options, maps, enumerations and writing, which have no caller.
* The members of the configuration file, string and UTF-8 conversion, uuid, the
  Windows tool `packetChecker`, the unused single-field `hset` and `readAll`.
* Statements whose text a quote in `user_id` or `myvalue` changes (see *LobbyServer*).
* What the asynchronous forms of `boost_mysql` do otherwise than the synchronous
  ones (see *MysqlClient*).
* The order in which `std::exit` destroys the singletons of different files:
  `ConnMgr` and `ServerProcess` each take the destruction of their own one.

## Plan

1. *Done*: `ConnSource`, `ConnMgr`, `LobbyServer`, `ServerProcess`, with the
   proofs above.
2. *Done*: `MessageFifo`, `MessageChannel`, `MysqlClient`, `JsonText`,
   `TableLoader`.
3. *Done*: proofs of every safety property that the runs check of `LobbyServer`,
   `ConnMgr`, `ServerProcess`, `MessageChannel` and `MysqlClient`, and of both
   refinements, `MessageFifo` without its fairness; of `TableLoader` its types and
   that it reads on and gives back what was dumped. The comparison with the
   references and liveness stay with TLC.
4. Left: UTF-8 and uuid conversions as pure operators against reference
   definitions.
