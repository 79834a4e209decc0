---------------------------- MODULE LobbyServer ----------------------------
(***************************************************************************)
(* The request handlers of the lobby server, running as coroutines on the  *)
(* worker threads of one io_context, in front of MySQL and Redis.          *)
(*                                                                         *)
(*   /alive              controlAlive        (handleAccount.cpp)           *)
(*   /account/auth_pass  controlAccountPass  (handleAccount.cpp)           *)
(*   /player/value_set   controlValueSet     (handlePlayer.cpp)            *)
(*   /player/value_get   controlValueGet     (handlePlayer.cpp)            *)
(*                                                                         *)
(* A handler runs on a thread until it suspends in a MySQL operation       *)
(* (async_..., sender.yield_) and resumes on whichever thread is free.     *)
(* Redis commands and getConn are synchronous: they block the thread, and  *)
(* other threads run meanwhile.  One action is one uninterrupted stretch.  *)
(*                                                                         *)
(* MySQL, Redis and the HTTP framework (mlnsdk) are external: they appear  *)
(* as the handlers use them.  A statement that was sent may execute even   *)
(* after its handler saw an I/O error; a Redis command that throws may or  *)
(* may not have taken effect.                                              *)
(***************************************************************************)
EXTENDS Naturals, FiniteSets

CONSTANTS
  Requests,       \* HTTP requests, each handled once
  Threads,        \* threads running the io_context
  Users,          \* values of the user_id parameter, without a quote in them
  Values,         \* values of the myValue parameter, without a quote in them
  MaxAccounts,    \* bound on the AUTO_INCREMENT column account.mbuid
  MaxFaults,      \* bound on injected faults
  UniqueUserId,   \* whether account.user_id carries a UNIQUE key
  Kinds,          \* the kinds of request that clients send
  None,           \* "nothing": no thread, no statement, no argument
  NoKey,          \* the request has no "mbsk" header
  ForeignKey      \* an "mbsk" header naming no session of this server

ASSUME LobbyAssumption ==
  /\ MaxAccounts \in Nat
  /\ MaxFaults \in Nat
  /\ UniqueUserId \in BOOLEAN
  /\ None \notin Threads \cup Users \cup Values
  /\ ForeignKey # NoKey

Mbuid == 1..MaxAccounts

\* SessionManager::genSessionKey: "mbsk" followed by the account number.
genSessionKey(m) == <<"mbsk", m>>
Keys == {genSessionKey(m) : m \in Mbuid}

ASSUME KeyAssumption == NoKey \notin Keys /\ ForeignKey \notin Keys

SessionOps == {"value_set", "value_get"}
Ops == {"alive", "auth_pass"} \cup SessionOps

\* The body: unparsable JSON, the field is missing (or the body is no object),
\* the field is not a string, or well formed.
Bodies == {"garbled", "nofield", "badtype", "ok"}

\* The requests clients can send.
RequestKinds ==
  {q \in [op : Ops, body : Bodies, arg : Users \cup Values \cup {None},
          key : Keys \cup {NoKey, ForeignKey}] :
     /\ q.op = "alive" => q.body = "ok" /\ q.arg = None
     /\ q.op = "auth_pass" /\ q.body = "ok" => q.arg \in Users
     /\ q.op \in SessionOps /\ q.body = "ok" => q.arg \in Values
     /\ q.body # "ok" => q.arg = None
     /\ q.op \notin SessionOps => q.key = NoKey}

ASSUME KindsAssumption == Kinds \subseteq RequestKinds

\* paramStringForDev and additional_info are static thread_local variables of a
\* header: every source file that includes it has a copy per thread.
Files == {"handleAccount", "handlePlayer"}
\* Mutant of FileOf: one copy per thread, shared by the source files.
FileOfShared(op) == "handleAccount"
FileOf(op) == IF op = "auth_pass" THEN "handleAccount" ELSE "handlePlayer"
ParamOf(op) == IF op = "auth_pass" THEN "user_id" ELSE "myValue"
ParamNames == {"", "user_id", "myValue"}

Absent == [mbuid |-> 0, ttl |-> FALSE]      \* no such key in Redis
Entries == {Absent} \cup [mbuid : Mbuid, ttl : BOOLEAN]

VARIABLES
  \* per request: the coroutine's state
  pc,       \* the operation the handler is waiting in, or where it ended
  req,      \* what the client sent
  thr,      \* the thread it occupies, None while suspended
  info,     \* the thread whose additional_info its MySQL operation refers to
  sess,     \* sessionDataOpt.mbuid
  got,      \* what was read from MySQL: an mbuid, or the EXISTS result
  resp,     \* the reply
  said,     \* the parameter name quoted in a "bad parameter" reply
  \* per request: its connection's server side
  stmt,     \* the statement MySQL has not executed yet
  dup,      \* MySQL answered dup_entry
  wire,     \* what MySQL has still to deliver: rows, or the last_insert_id
  complete, \* result.complete(): the end of the resultset has been read
  \* shared state
  tls,      \* paramStringForDev, by thread and source file
  account,  \* rows of table account
  player,   \* rows of table player
  nextId,   \* AUTO_INCREMENT counter of account
  redis,    \* the session hashes
  crashed,  \* the process died
  faults    \* faults injected so far

reqVars == <<req, sess, got, said>>
dbVars == <<stmt, dup, wire, complete>>
tables == <<account, player, nextId>>
vars == <<pc, req, thr, info, sess, got, resp, said, stmt, dup, wire, complete,
          tls, account, player, nextId, redis, crashed, faults>>

Statements == {"selAccount", "insAccount", "insPlayer", "selPlayer"}
ASSUME NoneAssumption == None \notin Statements
Reads == {"readOne", "purge"}
Blocked == {"session", "getConn", "hmset", "expire"}
Finished == {"done", "escaped"}
Locations == {"idle"} \cup Statements \cup Reads \cup Blocked \cup Finished
Replies == {"-", "hello", "ok", "not found session", "invalid session",
            "invalid json-string", "bad parameter", "server error",
            "exists myvalue", "existing nickname"}

Init ==
  /\ pc = [r \in Requests |-> "idle"]
  /\ req = [r \in Requests |-> None]
  /\ thr = [r \in Requests |-> None]
  /\ info = [r \in Requests |-> None]
  /\ sess = [r \in Requests |-> 0]
  /\ got = [r \in Requests |-> 0]
  /\ resp = [r \in Requests |-> "-"]
  /\ said = [r \in Requests |-> ""]
  /\ stmt = [r \in Requests |-> None]
  /\ dup = [r \in Requests |-> FALSE]
  /\ wire = [r \in Requests |-> {}]
  /\ complete = [r \in Requests |-> TRUE]
  /\ tls = [t \in Threads |-> [f \in Files |-> ""]]
  /\ account = {}
  /\ player = {}
  /\ nextId = 1
  /\ redis = [k \in Keys |-> Absent]
  /\ crashed = FALSE
  /\ faults = 0

----------------------------------------------------------------------------
(* What a stretch of a handler ends in. *)

Free(t) == \A r \in Requests : thr[r] # t

\* The handler sends its reply (SEND_RSP, SEND_INE) and returns.
Reply(r, msg) ==
  /\ pc' = [pc EXCEPT ![r] = "done"]
  /\ resp' = [resp EXCEPT ![r] = msg]
  /\ thr' = [thr EXCEPT ![r] = None]

\* On thread t the handler starts a MySQL operation and suspends; the operation
\* refers to the additional_info of t.
Suspend(r, t, at) ==
  /\ pc' = [pc EXCEPT ![r] = at]
  /\ thr' = [thr EXCEPT ![r] = None]
  /\ info' = [info EXCEPT ![r] = t]
  /\ UNCHANGED resp

\* sendQuery: the statement is on its way to MySQL.  The handlers format user_id
\* and myValue into its text as they are (handleAccount.cpp:46, 56,
\* handlePlayer.cpp:35, 73): that the statement is the one they mean holds for
\* values without a quote.
sendQuery(r, t, sql) ==
  /\ Suspend(r, t, sql)
  /\ stmt' = [stmt EXCEPT ![r] = sql]

\* On thread t the handler enters a synchronous call.
Block(r, t, at) ==
  /\ pc' = [pc EXCEPT ![r] = at]
  /\ thr' = [thr EXCEPT ![r] = t]
  /\ UNCHANGED resp

\* The last catch clauses of mysqlTemplate, on thread t: the reply quotes what
\* that thread's paramStringForDev holds.
BadParameter(r, t, op) ==
  /\ Reply(r, "bad parameter")
  /\ said' = [said EXCEPT ![r] = tls'[t][FileOf(op)]]

Fault == faults < MaxFaults /\ faults' = faults + 1

----------------------------------------------------------------------------
(* From the request to the first MySQL operation. *)

\* mysqlTemplate parses the body, then the callback takes its parameter
\* (CASUAL_OBJ_MOVE_AT_STRING notes the name first, then looks it up).
ParseBody(r, t, q) ==
  \/ /\ q.body = "garbled"
     /\ Reply(r, "invalid json-string")
     /\ UNCHANGED <<said, tls>>
  \/ /\ q.body # "garbled"
     /\ tls' = [tls EXCEPT ![t][FileOf(q.op)] = ParamOf(q.op)]
     /\ \/ q.body = "nofield" /\ BadParameter(r, t, q.op)
        \/ q.body = "badtype" /\ Reply(r, "server error") /\ UNCHANGED said
        \/ q.body = "ok" /\ Block(r, t, "getConn") /\ UNCHANGED said

\* A request arrives and its handler starts on a free thread.
Accept(r, t, q) ==
  /\ ~crashed
  /\ pc[r] = "idle"
  /\ Free(t)
  /\ req' = [req EXCEPT ![r] = q]
  /\ \/ /\ q.op = "alive"
        /\ Reply(r, "hello")
        /\ UNCHANGED <<said, tls>>
     \/ /\ q.op = "auth_pass"
        /\ ParseBody(r, t, q)
     \/ /\ q.op \in SessionOps
        /\ q.key = NoKey
        /\ Reply(r, "not found session")
        /\ UNCHANGED <<said, tls>>
     \/ /\ q.op \in SessionOps
        /\ q.key # NoKey
        /\ Block(r, t, "session")
        /\ UNCHANGED <<said, tls>>
  /\ UNCHANGED <<info, sess, got, dbVars, tables, redis, crashed, faults>>

\* Mutant of hgetAll: the number in the key is trusted, Redis is not asked.
hgetAllTrusts(k) == IF k \in Keys THEN [mbuid |-> k[2], ttl |-> TRUE] ELSE Absent

\* RedisConnector::hgetAll; a key of someone else has no usable mbuid field.
hgetAll(k) == IF k \in Keys THEN redis[k] ELSE Absent

\* Mutant of CheckSession: sessionDataOpt is shadowed and never filled.
CheckSessionForgets(r) ==
  /\ ~crashed
  /\ pc[r] = "session"
  /\ LET h == hgetAll(req[r].key) IN
     \/ /\ h = Absent
        /\ Reply(r, "invalid session")
        /\ UNCHANGED <<said, tls>>
     \/ /\ h # Absent
        /\ ParseBody(r, thr[r], req[r])
  /\ UNCHANGED <<req, info, sess, got, dbVars, tables, redis, crashed, faults>>

\* HTTP_CORO_SESSION_CHECK and isValidSession, then mysqlTemplate.
CheckSession(r) ==
  /\ ~crashed
  /\ pc[r] = "session"
  /\ LET h == hgetAll(req[r].key) IN
     \/ /\ h = Absent
        /\ Reply(r, "invalid session")
        /\ UNCHANGED <<sess, said, tls>>
     \/ /\ h # Absent
        /\ sess' = [sess EXCEPT ![r] = h.mbuid]
        /\ ParseBody(r, thr[r], req[r])
  /\ UNCHANGED <<req, info, got, dbVars, tables, redis, crashed, faults>>

\* HGETALL throws: the check runs outside mysqlTemplate's try block, so the
\* exception leaves the handler, which has sent no reply.
SessionCheckThrows(r) ==
  /\ ~crashed
  /\ pc[r] = "session"
  /\ Fault
  /\ pc' = [pc EXCEPT ![r] = "escaped"]
  /\ thr' = [thr EXCEPT ![r] = None]
  /\ UNCHANGED <<reqVars, info, resp, dbVars, tls, tables, redis, crashed>>

FirstQuery(op) == CASE op = "auth_pass" -> "selAccount"
                    [] op = "value_set" -> "insPlayer"
                    [] op = "value_get" -> "selPlayer"

\* getConn returns a connection and the first statement goes out on it.
GetConn(r) ==
  /\ ~crashed
  /\ pc[r] = "getConn"
  /\ sendQuery(r, thr[r], FirstQuery(req[r].op))
  /\ UNCHANGED <<reqVars, dup, wire, complete, tls, tables, redis, crashed, faults>>

\* getConn returns a null pointer, which sendQuery dereferences.
GetConnNull(r) ==
  /\ ~crashed
  /\ pc[r] = "getConn"
  /\ Fault
  /\ crashed' = TRUE
  /\ UNCHANGED <<pc, thr, info, resp, reqVars, dbVars, tls, tables, redis>>

----------------------------------------------------------------------------
(* MySQL executes a statement.  The handler may have given up by then. *)

\* SELECT mbuid FROM account WHERE user_id = ...: all matching rows.
DbSelectAccount(r) ==
  /\ stmt[r] = "selAccount"
  /\ stmt' = [stmt EXCEPT ![r] = None]
  /\ wire' = [wire EXCEPT ![r] =
                {a.mbuid : a \in {b \in account : b.user = req[r].arg}}]
  /\ complete' = [complete EXCEPT ![r] = FALSE]
  /\ UNCHANGED <<pc, thr, info, resp, reqVars, dup, tls, tables, redis, crashed, faults>>

\* INSERT INTO account: InnoDB uses up a number even if the key is taken.
DbInsertAccount(r) ==
  /\ stmt[r] = "insAccount"
  /\ nextId \in Mbuid
  /\ stmt' = [stmt EXCEPT ![r] = None]
  /\ nextId' = nextId + 1
  /\ \/ /\ UniqueUserId /\ \E a \in account : a.user = req[r].arg
        /\ dup' = [dup EXCEPT ![r] = TRUE]
        /\ UNCHANGED <<account, wire>>
     \/ /\ ~(UniqueUserId /\ \E a \in account : a.user = req[r].arg)
        /\ account' = account \cup {[mbuid |-> nextId, user |-> req[r].arg]}
        /\ wire' = [wire EXCEPT ![r] = {nextId}]
        /\ UNCHANGED dup
  /\ UNCHANGED <<pc, thr, info, resp, reqVars, complete, tls, player, redis, crashed, faults>>

\* INSERT INTO player(mbuid, myvalue): myvalue is UNIQUE (the handler expects
\* dup_entry); player_name is not among the columns, so it stays NULL.
DbInsertPlayer(r) ==
  /\ stmt[r] = "insPlayer"
  /\ stmt' = [stmt EXCEPT ![r] = None]
  /\ \/ /\ \E p \in player : p.myvalue = req[r].arg
        /\ dup' = [dup EXCEPT ![r] = TRUE]
        /\ UNCHANGED <<player, wire>>
     \/ /\ \A p \in player : p.myvalue # req[r].arg
        /\ player' = player \cup {[mbuid |-> sess[r], myvalue |-> req[r].arg,
                                   player_name |-> None]}
        /\ wire' = [wire EXCEPT ![r] = {1}]          \* affected_rows
        /\ UNCHANGED dup
  /\ UNCHANGED <<pc, thr, info, resp, reqVars, complete, tls, account, nextId,
                 redis, crashed, faults>>

\* SELECT EXISTS(SELECT * FROM player WHERE player_name = ...): one row.
DbSelectPlayer(r) ==
  /\ stmt[r] = "selPlayer"
  /\ stmt' = [stmt EXCEPT ![r] = None]
  /\ wire' = [wire EXCEPT ![r] =
                {IF \E p \in player : p.player_name = req[r].arg THEN 1 ELSE 0}]
  /\ complete' = [complete EXCEPT ![r] = FALSE]
  /\ UNCHANGED <<pc, thr, info, resp, reqVars, dup, tls, tables, redis, crashed, faults>>

\* A statement whose handler is gone may never execute.
DbDrop(r) ==
  /\ pc[r] = "done"
  /\ stmt[r] # None
  /\ stmt' = [stmt EXCEPT ![r] = None]
  /\ UNCHANGED <<pc, thr, info, resp, reqVars, dup, wire, complete, tls, tables,
                 redis, crashed, faults>>

----------------------------------------------------------------------------
(* A MySQL operation completes and its handler resumes on thread t. *)

Resumes(r, t, at) == ~crashed /\ pc[r] = at /\ stmt[r] = None /\ Free(t)

\* The SELECT has been answered: readOne starts.
QueryDone(r, t) ==
  /\ \/ Resumes(r, t, "selAccount")
     \/ Resumes(r, t, "selPlayer")
  /\ Suspend(r, t, "readOne")
  /\ UNCHANGED <<reqVars, dbVars, tls, tables, redis, crashed, faults>>

\* Mutant of ReadRow: auth_pass does not purge the rest of the resultset.
ReadRowNoPurge(r, t) ==
  /\ Resumes(r, t, "readOne")
  /\ req[r].op = "auth_pass"
  /\ \E v \in wire[r] : /\ got' = [got EXCEPT ![r] = v]
                        /\ wire' = [wire EXCEPT ![r] = @ \ {v}]
  /\ Block(r, t, "hmset")
  /\ UNCHANGED <<req, sess, said, info, stmt, dup, complete, tls, tables, redis,
                 crashed, faults>>

\* readOne returned a row; purgeResult reads on, as the end is still to come.
ReadRow(r, t) ==
  /\ Resumes(r, t, "readOne")
  /\ \E v \in wire[r] : /\ got' = [got EXCEPT ![r] = v]
                        /\ wire' = [wire EXCEPT ![r] = @ \ {v}]
  /\ Suspend(r, t, "purge")
  /\ UNCHANGED <<req, sess, said, stmt, dup, complete, tls, tables, redis, crashed, faults>>

\* readOne found the end: no such account (EXISTS always has a row).  The
\* resultset is complete, purgeResult does nothing, the INSERT goes out.
ReadNone(r, t) ==
  /\ Resumes(r, t, "readOne")
  /\ req[r].op = "auth_pass"
  /\ wire[r] = {}
  /\ complete' = [complete EXCEPT ![r] = TRUE]
  /\ sendQuery(r, t, "insAccount")
  /\ UNCHANGED <<reqVars, dup, wire, tls, tables, redis, crashed, faults>>

\* purgeResult skips a further row.
PurgeRow(r, t) ==
  /\ Resumes(r, t, "purge")
  /\ \E v \in wire[r] : wire' = [wire EXCEPT ![r] = @ \ {v}]
  /\ Suspend(r, t, "purge")
  /\ UNCHANGED <<reqVars, stmt, dup, complete, tls, tables, redis, crashed, faults>>

\* Mutant of PurgeEnd: the loop of purgeResult is not left at the end.
PurgeEndLoops(r, t) ==
  /\ Resumes(r, t, "purge")
  /\ wire[r] = {}
  /\ Suspend(r, t, "purge")
  /\ UNCHANGED <<reqVars, dbVars, tls, tables, redis, crashed, faults>>

\* purgeResult meets the end: auth_pass saves the session, value_get replies.
PurgeEnd(r, t) ==
  /\ Resumes(r, t, "purge")
  /\ wire[r] = {}
  /\ complete' = [complete EXCEPT ![r] = TRUE]
  /\ IF req[r].op = "auth_pass" THEN Block(r, t, "hmset") ELSE Reply(r, "ok")
  /\ UNCHANGED <<reqVars, info, stmt, dup, wire, tls, tables, redis, crashed, faults>>

\* Mutants of InsertAccountDone: affected_rows, or the AUTO_INCREMENT counter,
\* is taken for the new account's number.
InsertAccountDoneWith(r, t, id) ==
  /\ Resumes(r, t, "insAccount")
  /\ wire[r] # {}
  /\ got' = [got EXCEPT ![r] = id]
  /\ wire' = [wire EXCEPT ![r] = {}]
  /\ Block(r, t, "hmset")
  /\ UNCHANGED <<req, sess, said, info, stmt, dup, complete, tls, tables, redis,
                 crashed, faults>>
InsertAccountDoneAffected(r, t) == InsertAccountDoneWith(r, t, 1)
InsertAccountDoneCounter(r, t) == InsertAccountDoneWith(r, t, nextId)

\* The new account's number is the INSERT's last_insert_id.
InsertAccountDone(r, t) ==
  /\ Resumes(r, t, "insAccount")
  /\ \E v \in wire[r] : got' = [got EXCEPT ![r] = v]
  /\ wire' = [wire EXCEPT ![r] = {}]
  /\ Block(r, t, "hmset")
  /\ UNCHANGED <<req, sess, said, info, stmt, dup, complete, tls, tables, redis,
                 crashed, faults>>

\* value_set replies according to affected_rows.
InsertPlayerDone(r, t) ==
  /\ Resumes(r, t, "insPlayer")
  /\ ~dup[r]
  /\ Reply(r, IF wire[r] = {1} THEN "ok" ELSE "existing nickname")
  /\ wire' = [wire EXCEPT ![r] = {}]
  /\ UNCHANGED <<reqVars, info, stmt, dup, complete, tls, tables, redis, crashed, faults>>

\* Mutant of DupEntry: the catch clause falls through to the ok reply.
DupEntryFallsThrough(r, t) ==
  /\ \E at \in {"insAccount", "insPlayer"} : Resumes(r, t, at)
  /\ dup[r]
  /\ Reply(r, IF req[r].op = "value_set" THEN "ok" ELSE "server error")
  /\ UNCHANGED <<reqVars, info, dbVars, tls, tables, redis, crashed, faults>>

\* check_error throws on dup_entry: value_set has a reply of its own for it.
DupEntry(r, t) ==
  /\ \E at \in {"insAccount", "insPlayer"} : Resumes(r, t, at)
  /\ dup[r]
  /\ Reply(r, IF req[r].op = "value_set" THEN "exists myvalue" ELSE "server error")
  /\ UNCHANGED <<reqVars, info, dbVars, tls, tables, redis, crashed, faults>>

\* Mutant of IoError: a failed statement is sent once more.
IoErrorRetries(r, t) ==
  /\ ~crashed
  /\ pc[r] \in Statements
  /\ Free(t)
  /\ Fault
  /\ sendQuery(r, t, pc[r])
  /\ UNCHANGED <<reqVars, dup, wire, complete, tls, tables, redis, crashed>>

\* The connection breaks while an operation is outstanding: check_error throws
\* system_error.  Whatever was sent is left to MySQL.
IoError(r, t) ==
  /\ ~crashed
  /\ pc[r] \in Statements \cup Reads
  /\ Free(t)
  /\ Fault
  /\ Reply(r, "server error")
  /\ UNCHANGED <<reqVars, info, dbVars, tls, tables, redis, crashed>>

----------------------------------------------------------------------------
(* RedisConnector::hset(key, {mbuid}, expireSec): HMSET, then EXPIRE. *)

Key(r) == genSessionKey(got[r])

\* A new key has no time to live; an existing one keeps its own.
HMSET(r) == [redis EXCEPT ![Key(r)] = [mbuid |-> got[r], ttl |-> @.ttl]]
EXPIRE(r) == [redis EXCEPT ![Key(r)] =
                IF @ = Absent THEN Absent ELSE [@ EXCEPT !.ttl = TRUE]]

Hmset(r) ==
  /\ ~crashed
  /\ pc[r] = "hmset"
  /\ redis' = HMSET(r)
  /\ Block(r, thr[r], "expire")
  /\ UNCHANGED <<reqVars, info, dbVars, tls, tables, crashed, faults>>

\* Mutant of Expire: expireSec is 0, so hset leaves out the EXPIRE.
ExpireSkipped(r) ==
  /\ ~crashed
  /\ pc[r] = "expire"
  /\ Reply(r, "ok")
  /\ UNCHANGED <<reqVars, info, dbVars, tls, tables, redis, crashed, faults>>

Expire(r) ==
  /\ ~crashed
  /\ pc[r] = "expire"
  /\ redis' = EXPIRE(r)
  /\ Reply(r, "ok")
  /\ UNCHANGED <<reqVars, info, dbVars, tls, tables, crashed, faults>>

\* The command throws, executed or not: caught as std::exception.
RedisThrows(r) ==
  /\ ~crashed
  /\ Fault
  /\ \/ pc[r] = "hmset" /\ redis' \in {redis, HMSET(r)}
     \/ pc[r] = "expire" /\ redis' \in {redis, EXPIRE(r)}
  /\ UNCHANGED <<req, sess, got, info, dbVars, tls, tables, crashed>>
  /\ BadParameter(r, thr[r], req[r].op)

\* Redis removes a session whose time to live is over.
SessionExpires(k) ==
  /\ redis[k].ttl
  /\ redis' = [redis EXCEPT ![k] = Absent]
  /\ UNCHANGED <<pc, thr, info, resp, reqVars, dbVars, tls, tables, crashed, faults>>

----------------------------------------------------------------------------

ServerStep(r) ==
  \/ CheckSession(r)
  \/ SessionCheckThrows(r)
  \/ GetConn(r)
  \/ GetConnNull(r)
  \/ Hmset(r)
  \/ Expire(r)
  \/ RedisThrows(r)

ResumeStep(r, t) ==
  \/ QueryDone(r, t)
  \/ ReadRow(r, t)
  \/ ReadNone(r, t)
  \/ PurgeRow(r, t)
  \/ PurgeEnd(r, t)
  \/ InsertAccountDone(r, t)
  \/ InsertPlayerDone(r, t)
  \/ DupEntry(r, t)
  \/ IoError(r, t)

DbStep(r) ==
  \/ DbSelectAccount(r)
  \/ DbInsertAccount(r)
  \/ DbInsertPlayer(r)
  \/ DbSelectPlayer(r)

Next ==
  \/ \E r \in Requests, t \in Threads, q \in Kinds : Accept(r, t, q)
  \/ \E r \in Requests : ServerStep(r)
  \/ \E r \in Requests, t \in Threads : ResumeStep(r, t)
  \/ \E r \in Requests : DbStep(r)
  \/ \E r \in Requests : DbDrop(r)
  \/ \E k \in Keys : SessionExpires(k)

\* Threads are scheduled, synchronous calls return or throw (socket timeouts),
\* and MySQL answers or the connection breaks.  Arrivals are not fair.
Fairness ==
  \A r \in Requests :
    /\ WF_vars(ServerStep(r))
    /\ WF_vars(\E t \in Threads : ResumeStep(r, t))
    /\ WF_vars(DbStep(r))

Spec == Init /\ [][Next]_vars /\ Fairness

----------------------------------------------------------------------------
(* Properties *)

AccountRows == [mbuid : Mbuid, user : Users]
PlayerRows == [mbuid : Mbuid, myvalue : Values, player_name : {None}]

\* Type invariant of the handlers' state, the tables and the session store.
TypeOK ==
  /\ pc \in [Requests -> Locations]
  /\ req \in [Requests -> Kinds \cup {None}]
  /\ \A r \in Requests : pc[r] # "idle" => req[r] \in Kinds
  /\ thr \in [Requests -> Threads \cup {None}]
  /\ info \in [Requests -> Threads \cup {None}]
  /\ sess \in [Requests -> Nat]
  /\ got \in [Requests -> Nat]
  /\ resp \in [Requests -> Replies]
  /\ said \in [Requests -> ParamNames]
  /\ stmt \in [Requests -> Statements \cup {None}]
  /\ dup \in [Requests -> BOOLEAN]
  /\ wire \in [Requests -> SUBSET Nat]
  /\ complete \in [Requests -> BOOLEAN]
  /\ tls \in [Threads -> [Files -> ParamNames]]
  /\ account \subseteq AccountRows
  /\ player \subseteq PlayerRows
  /\ nextId \in Nat
  /\ redis \in [Keys -> Entries]
  /\ crashed \in BOOLEAN
  /\ faults \in Nat

\* Requests that have started and are of the given operation.
Started(op) == {r \in Requests : pc[r] # "idle" /\ req[r].op = op}
Acked(op) == {r \in Started(op) : resp[r] = "ok"}

\* A session in Redis is filed under the key of the account it names, and that
\* account exists (createSession and hset, sessionManager.cpp:21,
\* redisConnector.cpp:129): isValidSession never yields another player's mbuid.
SessionNamesAccount ==
  \A k \in Keys : redis[k] # Absent =>
    /\ k = genSessionKey(redis[k].mbuid)
    /\ \E a \in account : a.mbuid = redis[k].mbuid

\* A row of table player (controlValueSet, handlePlayer.cpp:73) belongs to an
\* account that logged in, even if the session expired between the session
\* check and the INSERT, or the INSERT ran after its handler had given up.
RowsHaveLogin ==
  \A p \in player : \E r \in Started("auth_pass") :
    got[r] = p.mbuid /\ pc[r] \in {"expire", "done"}

\* A session without a time to live is between the HMSET and the EXPIRE of an
\* auth_pass request, or that request failed with "bad parameter"
\* (RedisConnector::hset, redisConnector.cpp:131-134): nothing else leaves one.
PermanentHasCause ==
  \A k \in Keys : redis[k] # Absent /\ ~redis[k].ttl =>
    \E r \in Started("auth_pass") :
      /\ got[r] = redis[k].mbuid
      /\ pc[r] = "expire" \/ resp[r] = "bad parameter"

\* Of all value_set requests for one value at most one is acknowledged, and its
\* row is in the table (controlValueSet, handlePlayer.cpp:78-107).
OneWinner ==
  /\ \A r \in Acked("value_set") :
       \E p \in player : p.mbuid = sess[r] /\ p.myvalue = req[r].arg
  /\ \A r, s \in Acked("value_set") : req[r].arg = req[s].arg => r = s

\* "exists myvalue" (handlePlayer.cpp:84-86) is only ever caused by another
\* request's row, never by the request's own INSERT.
DupIsAnothers ==
  \A r \in Requests : resp[r] = "exists myvalue" =>
    \E s \in Started("value_set") \ {r} : \E p \in player :
      p.mbuid = sess[s] /\ p.myvalue = req[s].arg /\ req[s].arg = req[r].arg

\* auth_pass acknowledges an account of the user who asked for it, whether the
\* account was found or created (controlAccountPass, handleAccount.cpp:55-70),
\* for users whose user_id has no quote in it.
AuthNamesAccount ==
  \A r \in Acked("auth_pass") :
    [mbuid |-> got[r], user |-> req[r].arg] \in account

\* With a UNIQUE key on account.user_id, concurrent first logins of a user
\* (the SELECT and the INSERT of handleAccount.cpp:46-62) end in one account.
OneAccountPerUser ==
  \A r, s \in Acked("auth_pass") : req[r].arg = req[s].arg => got[r] = got[s]

\* purgeResult (lobbyServerUtils.h:52) has read a resultset to its end before
\* the handler uses the connection again or reports success.
ResultsDrained ==
  \A r \in Requests :
    pc[r] \in {"insAccount", "hmset", "expire"} \/ resp[r] = "ok" => complete[r]

\* A "bad parameter" reply names the handler's own parameter or nothing, even
\* after the coroutine moved to a thread that served other handlers; and the
\* missing field if that was the reason (lobbyServerUtils.h:138-172).
BadParameterNamesOwn ==
  \A r \in Requests : resp[r] = "bad parameter" =>
    /\ said[r] \in {"", ParamOf(req[r].op)}
    /\ req[r].body = "nofield" => said[r] = ParamOf(req[r].op)

\* Every request that was accepted is answered, escapes with an exception in the
\* session check, or dies with the process; no suspended handler is forgotten.
Answered ==
  \A r \in Requests : pc[r] # "idle" ~> pc[r] \in Finished \/ crashed

\* handleAccount.cpp:73 says "issues a temporary authentication right": when
\* hset, whose HMSET has written the session, is done with the EXPIRE as well, by
\* return or by exception (redisConnector.cpp:131-134), the session has a time to
\* live, or is gone.
TemporarySession ==
  [][\A r \in Requests : pc[r] = "expire" /\ pc'[r] # "expire" =>
       redis'[Key(r)] = Absent \/ redis'[Key(r)].ttl]_vars

\* handlePlayer.cpp:52 says "exists 0 -> no such nickname, 1 -> the nickname
\* exists": value_get reports the values that value_set has stored.
GetReportsStored ==
  [][\A r \in Requests : stmt[r] = "selPlayer" /\ DbSelectPlayer(r) =>
       (wire'[r] = {1} <=> \E p \in player : p.myvalue = req[r].arg)]_vars
============================================================================
