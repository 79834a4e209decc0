------------------------- MODULE LobbyServerProofs -------------------------
(***************************************************************************)
(* Proofs about LobbyServer, for any number of requests, threads, users,   *)
(* values and faults, and with or without a UNIQUE key on account.user_id. *)
(***************************************************************************)
EXTENDS LobbyServer, TLAPS

\* r is a well-formed request of the given operation.
Is(r, op) == req[r].op = op /\ req[r].body = "ok"

\* The account row that request r works for, with account number m.
RowOf(r, m) == [mbuid |-> m, user |-> req[r].arg]

\* A request that has not started has left no trace.
IdleOK(r) ==
  pc[r] = "idle" => stmt[r] = None /\ wire[r] = {} /\ got[r] = 0 /\ sess[r] = 0

\* Where a handler is tells which request it serves, and a reply ends it.
ControlOK(r) ==
  /\ pc[r] \in Blocked => thr[r] \in Threads
  /\ resp[r] # "-" => pc[r] = "done"
  /\ pc[r] = "session" => req[r].op \in SessionOps
  /\ pc[r] = "getConn" => \/ Is(r, "auth_pass")
                          \/ Is(r, "value_set") /\ sess[r] \in Mbuid
                          \/ Is(r, "value_get")
  /\ pc[r] \in {"selAccount", "insAccount", "hmset", "expire"} => Is(r, "auth_pass")
  /\ pc[r] = "insPlayer" => Is(r, "value_set")
  /\ pc[r] = "selPlayer" => Is(r, "value_get")
  /\ pc[r] \in Reads => Is(r, "auth_pass") \/ Is(r, "value_get")

\* So does the statement that MySQL has still to execute for it.
StmtOK(r) ==
  /\ stmt[r] \in {"selAccount", "insAccount"} => Is(r, "auth_pass")
  /\ stmt[r] = "insPlayer" => Is(r, "value_set") /\ sess[r] \in Mbuid
  /\ stmt[r] = "selPlayer" => Is(r, "value_get")

\* What auth_pass has read, or is about to read, are accounts of its user.
AccountOK(r) ==
  pc[r] # "idle" /\ req[r].op = "auth_pass" =>
    /\ \A v \in wire[r] : RowOf(r, v) \in account
    /\ got[r] # 0 => RowOf(r, got[r]) \in account
    /\ pc[r] \in {"purge", "hmset", "expire"} \/ resp[r] = "ok" => got[r] # 0

LocalOK(r) == IdleOK(r) /\ ControlOK(r) /\ StmtOK(r) /\ AccountOK(r)

\* The auth_pass requests that have stored a session for account m.
LoggedIn(m) ==
  \E r \in Requests :
    /\ pc[r] \in {"expire", "done"}
    /\ req[r].op = "auth_pass"
    /\ got[r] = m

\* Sessions, in Redis and in the handlers that have checked one, come from a
\* login.
SessionOK ==
  /\ \A k \in Keys : redis[k] # Absent => LoggedIn(redis[k].mbuid)
  /\ \A r \in Requests : sess[r] # 0 => LoggedIn(sess[r])
  /\ \A p \in player : LoggedIn(p.mbuid)

IInv == /\ TypeOK
        /\ \A r \in Requests : LocalOK(r)
        /\ SessionOK
        /\ SessionNamesAccount
        /\ PermanentHasCause

----------------------------------------------------------------------------
(* Facts about the constants. *)

\* What the proofs use of a request that a client may send.
LEMMA KindFacts ==
  \A q \in Kinds :
    /\ q.op \in Ops
    /\ q.op = "auth_pass" /\ q.body = "ok" => q.arg \in Users
    /\ q.op = "value_set" /\ q.body = "ok" => q.arg \in Values
    /\ q.op = "value_get" /\ q.body = "ok" => q.arg \in Values
  BY KindsAssumption DEF RequestKinds, SessionOps

\* The sets of locations, apart from each other.
LEMMA LocationFacts ==
  /\ \A at \in Statements \cup Reads \cup Blocked \cup Finished : at \in Locations
  /\ {"session", "getConn", "hmset", "expire"} \subseteq Blocked
  /\ {"readOne", "purge"} \subseteq Reads
  /\ {"selAccount", "insAccount", "insPlayer", "selPlayer"} \subseteq Statements
  /\ {"done", "escaped"} \subseteq Finished
  /\ "idle" \notin Statements \cup Reads \cup Blocked \cup Finished
  /\ Blocked \cap (Statements \cup Reads \cup Finished) = {}
  /\ Reads \cap (Statements \cup Finished) = {}
  /\ "done" \notin Statements /\ "escaped" \notin Statements
  BY DEF Locations, Statements, Reads, Blocked, Finished

\* The replies the handlers send.
LEMMA ReplyFacts ==
  {"hello", "ok", "not found session", "invalid session", "invalid json-string",
   "bad parameter", "server error", "exists myvalue", "existing nickname"}
    \subseteq Replies \ {"-"}
  BY DEF Replies

\* genSessionKey is a bijection between account numbers and keys.
LEMMA KeyFacts ==
  /\ \A m \in Mbuid : genSessionKey(m) \in Keys
  /\ \A m, n \in Mbuid : genSessionKey(m) = genSessionKey(n) => m = n
  /\ \A k \in Keys : \E m \in Mbuid : k = genSessionKey(m)
  BY DEF Keys, genSessionKey

\* 0 is no account number.
LEMMA MbuidFacts == Mbuid \subseteq Nat \ {0}
  BY LobbyAssumption DEF Mbuid

----------------------------------------------------------------------------
(* How a stretch of a handler ends, with the types. *)

\* The variables Reply, Suspend and Block are about have their types.
EndTypes ==
  /\ pc \in [Requests -> Locations]
  /\ thr \in [Requests -> Threads \cup {None}]
  /\ info \in [Requests -> Threads \cup {None}]
  /\ resp \in [Requests -> Replies]

\* A reply ends the handler.
LEMMA ReplyEnds ==
  ASSUME EndTypes, NEW r \in Requests, NEW msg \in Replies, Reply(r, msg), info' = info
  PROVE  EndTypes'
  BY LocationFacts DEF EndTypes, Reply

\* A MySQL operation suspends it.
LEMMA SuspendEnds ==
  ASSUME EndTypes, NEW r \in Requests, NEW t \in Threads \cup {None},
         NEW at \in Statements \cup Reads, Suspend(r, t, at)
  PROVE  EndTypes'
  BY LocationFacts DEF EndTypes, Suspend

\* A synchronous call blocks it.
LEMMA BlockEnds ==
  ASSUME EndTypes, NEW r \in Requests, NEW t \in Threads \cup {None},
         NEW at \in Blocked, Block(r, t, at), info' = info
  PROVE  EndTypes'
  BY LocationFacts DEF EndTypes, Block

\* Parsing the body ends in a reply or in getConn.
LEMMA ParseEnds ==
  ASSUME EndTypes, tls \in [Threads -> [Files -> ParamNames]],
         said \in [Requests -> ParamNames],
         NEW r \in Requests, NEW t \in Threads, NEW q, ParseBody(r, t, q), info' = info
  PROVE  /\ EndTypes'
         /\ tls' \in [Threads -> [Files -> ParamNames]]
         /\ said' \in [Requests -> ParamNames]
<1>0. FileOf(q.op) \in Files /\ ParamOf(q.op) \in ParamNames
  BY DEF FileOf, Files, ParamOf, ParamNames
<1>1. CASE q.body = "garbled"
  BY <1>1, ReplyEnds, ReplyFacts DEF ParseBody
<1>2. CASE q.body # "garbled"
  <2>1. tls' \in [Threads -> [Files -> ParamNames]]
    <3> DEFINE f == FileOf(q.op)
               p == ParamOf(q.op)
    <3>1. tls' = [tls EXCEPT ![t] = [tls[t] EXCEPT ![f] = p]]
      BY <1>2 DEF ParseBody
    <3>2. [tls[t] EXCEPT ![f] = p] \in [Files -> ParamNames]
      BY <1>0
    <3> HIDE DEF f, p
    <3> QED BY <3>1, <3>2
  <2>2. CASE q.body = "nofield" /\ BadParameter(r, t, q.op)
    BY <1>0, <2>1, <2>2, ReplyEnds, ReplyFacts DEF BadParameter
  <2>3. CASE q.body = "badtype" /\ Reply(r, "server error") /\ UNCHANGED said
    BY <2>1, <2>3, ReplyEnds, ReplyFacts
  <2>4. CASE q.body = "ok" /\ Block(r, t, "getConn") /\ UNCHANGED said
    BY <2>1, <2>4, BlockEnds, LocationFacts
  <2> QED BY <1>2, <2>2, <2>3, <2>4 DEF ParseBody
<1> QED BY <1>1, <1>2

----------------------------------------------------------------------------
(* Type correctness. *)

ReqTypes ==
  /\ req \in [Requests -> Kinds \cup {None}]
  /\ \A r \in Requests : pc[r] # "idle" => req[r] \in Kinds
  /\ sess \in [Requests -> Nat]
  /\ got \in [Requests -> Nat]

DbTypes ==
  /\ stmt \in [Requests -> Statements \cup {None}]
  /\ dup \in [Requests -> BOOLEAN]
  /\ wire \in [Requests -> SUBSET Nat]
  /\ complete \in [Requests -> BOOLEAN]

SaidTypes ==
  /\ tls \in [Threads -> [Files -> ParamNames]]
  /\ said \in [Requests -> ParamNames]

StoreTypes ==
  /\ account \subseteq AccountRows
  /\ player \subseteq PlayerRows
  /\ nextId \in Nat
  /\ redis \in [Keys -> Entries]

CounterTypes == crashed \in BOOLEAN /\ faults \in Nat

\* The type invariant, part by part.
LEMMA TypeParts ==
  TypeOK <=> /\ EndTypes /\ ReqTypes /\ DbTypes /\ SaidTypes
             /\ StoreTypes /\ CounterTypes
  BY DEF TypeOK, EndTypes, ReqTypes, DbTypes, SaidTypes, StoreTypes, CounterTypes

\* The same, after a step.
LEMMA TypePartsPrimed ==
  TypeOK' <=> /\ EndTypes' /\ ReqTypes' /\ DbTypes' /\ SaidTypes'
              /\ StoreTypes' /\ CounterTypes'
  BY TypeParts, PTL

----------------------------------------------------------------------------
(* A step works on one request and leaves the others alone. *)

OthersSame(r) ==
  \A s \in Requests \ {r} :
    /\ pc'[s] = pc[s]
    /\ req'[s] = req[s]
    /\ thr'[s] = thr[s]
    /\ resp'[s] = resp[s]
    /\ sess'[s] = sess[s]
    /\ got'[s] = got[s]
    /\ stmt'[s] = stmt[s]
    /\ wire'[s] = wire[s]

\* A step of r that preserves what is claimed of r preserves it of all.
LEMMA LocalFrame ==
  ASSUME \A s \in Requests : LocalOK(s), NEW r \in Requests, OthersSame(r),
         LocalOK(r)', account \subseteq account'
  PROVE  \A s \in Requests : LocalOK(s)'
<1> SUFFICES ASSUME NEW s \in Requests, s # r PROVE LocalOK(s)'
  OBVIOUS
<1>1. LocalOK(s)
  OBVIOUS
<1>2. IdleOK(s)' /\ ControlOK(s)' /\ StmtOK(s)'
  BY <1>1 DEF LocalOK, IdleOK, ControlOK, StmtOK, OthersSame, Is
<1>3. AccountOK(s)'
  BY <1>1 DEF LocalOK, AccountOK, OthersSame, RowOf
<1> QED BY <1>2, <1>3 DEF LocalOK

\* The facts about a step of r that are proved action by action.
Good(r) == /\ TypeOK'
           /\ OthersSame(r)
           /\ LocalOK(r)'
           /\ account \subseteq account'

\* A request in front of, or behind, the HMSET has the number of an account.
LEMMA SavesAccount ==
  ASSUME TypeOK, NEW r \in Requests, LocalOK(r), pc[r] \in {"hmset", "expire"}
  PROVE  /\ got[r] \in Mbuid
         /\ Key(r) \in Keys
         /\ req[r].op = "auth_pass"
         /\ RowOf(r, got[r]) \in account
<1>1. req[r].op = "auth_pass" /\ RowOf(r, got[r]) \in account
  BY DEF LocalOK, ControlOK, AccountOK, Is
<1>2. got[r] \in Mbuid
  BY <1>1 DEF TypeOK, RowOf, AccountRows
<1> QED BY <1>1, <1>2, KeyFacts DEF Key

\* What the two Redis commands make of the session store.
LEMMA SessionWrites ==
  ASSUME TypeOK, NEW r \in Requests, LocalOK(r), pc[r] \in {"hmset", "expire"}
  PROVE  HMSET(r) \in [Keys -> Entries] /\ EXPIRE(r) \in [Keys -> Entries]
<1>0. got[r] \in Mbuid /\ Key(r) \in Keys /\ redis \in [Keys -> Entries]
  BY SavesAccount DEF TypeOK
<1>1. redis[Key(r)] = Absent \/ redis[Key(r)] \in [mbuid : Mbuid, ttl : BOOLEAN]
  BY <1>0 DEF Entries
<1>2. HMSET(r) \in [Keys -> Entries]
  <2>1. redis[Key(r)].ttl \in BOOLEAN
    <3>1. CASE redis[Key(r)] = Absent
      BY <3>1 DEF Absent
    <3> QED BY <1>1, <3>1
  <2> DEFINE e == [mbuid |-> got[r], ttl |-> redis[Key(r)].ttl]
  <2>2. e \in Entries
    BY <1>0, <2>1 DEF Entries
  <2>3. HMSET(r) = [redis EXCEPT ![Key(r)] = e]
    BY DEF HMSET
  <2> HIDE DEF e
  <2> QED BY <1>0, <2>2, <2>3
<1>3. EXPIRE(r) \in [Keys -> Entries]
  <2>1. CASE redis[Key(r)] = Absent
    BY <1>0, <2>1 DEF EXPIRE, Entries
  <2>2. CASE redis[Key(r)] # Absent
    <3>1. [redis[Key(r)] EXCEPT !.ttl = TRUE] \in Entries
      BY <1>1, <2>2 DEF Entries
    <3> QED BY <1>0, <2>2, <3>1 DEF EXPIRE
  <2> QED BY <2>1, <2>2
<1> QED BY <1>2, <1>3

\* HGETALL throws and the handler is gone.
LEMMA SessionCheckThrowsGood ==
  ASSUME TypeOK, NEW r \in Requests, LocalOK(r),
         SessionCheckThrows(r)
  PROVE  Good(r)
<1>0. EndTypes /\ ReqTypes /\ DbTypes /\ SaidTypes /\ StoreTypes /\ CounterTypes
  BY TypeParts
<1>1. EndTypes'
  BY <1>0, LocationFacts DEF SessionCheckThrows, reqVars, dbVars, tables,
    Fault, EndTypes
<1>2. OthersSame(r)
  BY <1>0 DEF SessionCheckThrows, reqVars, dbVars, tables, Fault, EndTypes,
    ReqTypes, DbTypes, OthersSame
<1>3. ReqTypes' /\ DbTypes'
  BY <1>0, <1>2, LocationFacts DEF SessionCheckThrows, reqVars, dbVars,
    tables, Fault, EndTypes, ReqTypes, DbTypes, OthersSame
<1>4. SaidTypes' /\ CounterTypes'
  BY <1>0 DEF SessionCheckThrows, reqVars, Fault, SaidTypes, CounterTypes
<1>5. StoreTypes' /\ account \subseteq account'
  BY <1>0 DEF SessionCheckThrows, tables, StoreTypes
<1>6. IdleOK(r)' /\ ControlOK(r)' /\ StmtOK(r)'
  BY <1>0, LocationFacts, NoneAssumption DEF SessionCheckThrows, reqVars,
    dbVars, tables, Fault, EndTypes, ReqTypes, DbTypes, LocalOK, IdleOK,
    ControlOK, StmtOK, Is
<1>7. AccountOK(r)'
  BY <1>0, LocationFacts DEF SessionCheckThrows, reqVars, dbVars, tables,
    Fault, EndTypes, ReqTypes, DbTypes, LocalOK, ControlOK, AccountOK, RowOf,
    Is
<1> QED BY <1>1, <1>2, <1>3, <1>4, <1>5, <1>6, <1>7, TypePartsPrimed DEF Good, LocalOK

\* The first statement that goes out fits the request.
LEMMA GetConnGood ==
  ASSUME TypeOK, NEW r \in Requests, LocalOK(r),
         GetConn(r)
  PROVE  Good(r)
<1>0. EndTypes /\ ReqTypes /\ DbTypes /\ SaidTypes /\ StoreTypes /\ CounterTypes
  BY TypeParts
<1>a. PICK sql \in Statements :
        /\ pc' = [pc EXCEPT ![r] = sql] /\ stmt' = [stmt EXCEPT ![r] = sql]
        /\ thr[r] \in Threads
        /\ \/ sql = "selAccount" /\ Is(r, "auth_pass")
           \/ sql = "insPlayer" /\ Is(r, "value_set") /\ sess[r] \in Mbuid
           \/ sql = "selPlayer" /\ Is(r, "value_get")
  <2>1. /\ pc[r] = "getConn" /\ thr[r] \in Threads
        /\ \/ Is(r, "auth_pass")
           \/ Is(r, "value_set") /\ sess[r] \in Mbuid
           \/ Is(r, "value_get")
    BY LocationFacts DEF GetConn, LocalOK, ControlOK
  <2>2. /\ pc' = [pc EXCEPT ![r] = FirstQuery(req[r].op)]
        /\ stmt' = [stmt EXCEPT ![r] = FirstQuery(req[r].op)]
    BY DEF GetConn, sendQuery, Suspend
  <2>3. CASE Is(r, "auth_pass")
    BY <2>1, <2>2, <2>3 DEF FirstQuery, Is, Statements
  <2>4. CASE Is(r, "value_set") /\ sess[r] \in Mbuid
    BY <2>1, <2>2, <2>4 DEF FirstQuery, Is, Statements
  <2>5. CASE Is(r, "value_get")
    BY <2>1, <2>2, <2>5 DEF FirstQuery, Is, Statements
  <2> QED BY <2>1, <2>3, <2>4, <2>5
<1>1. EndTypes'
  BY <1>0, <1>a, LocationFacts DEF GetConn, sendQuery, Suspend, EndTypes
<1>2. OthersSame(r)
  BY <1>0 DEF GetConn, reqVars, tables, sendQuery, Suspend, EndTypes,
    ReqTypes, DbTypes, OthersSame
<1>3. ReqTypes' /\ DbTypes'
  BY <1>0, <1>a, LocationFacts DEF GetConn, reqVars, EndTypes, ReqTypes, DbTypes
<1>4. SaidTypes' /\ CounterTypes'
  BY <1>0 DEF GetConn, reqVars, SaidTypes, CounterTypes
<1>5. StoreTypes' /\ account \subseteq account'
  BY <1>0 DEF GetConn, tables, StoreTypes
<1>6. IdleOK(r)' /\ ControlOK(r)' /\ StmtOK(r)'
  BY <1>0, <1>1, <1>a, LocationFacts DEF GetConn, sendQuery, Suspend, reqVars,
    EndTypes, ReqTypes, DbTypes, LocalOK, IdleOK, ControlOK, StmtOK, Is
<1>7. AccountOK(r)'
  BY <1>0, <1>a, LocationFacts DEF GetConn, sendQuery, Suspend, reqVars, tables,
    EndTypes, ReqTypes, LocalOK, AccountOK, RowOf
<1> QED BY <1>1, <1>2, <1>3, <1>4, <1>5, <1>6, <1>7, TypePartsPrimed DEF Good, LocalOK

\* The process dies: nothing else changes.
LEMMA GetConnNullGood ==
  ASSUME TypeOK, NEW r \in Requests, LocalOK(r),
         GetConnNull(r)
  PROVE  Good(r)
<1>0. EndTypes /\ ReqTypes /\ DbTypes /\ SaidTypes /\ StoreTypes /\ CounterTypes
  BY TypeParts
<1>1. EndTypes'
  BY <1>0, LocationFacts DEF GetConnNull, reqVars, dbVars, tables, Fault,
    EndTypes
<1>2. OthersSame(r)
  BY <1>0 DEF GetConnNull, reqVars, dbVars, tables, Fault, EndTypes,
    ReqTypes, DbTypes, OthersSame
<1>3. ReqTypes' /\ DbTypes'
  BY <1>0, <1>2, LocationFacts DEF GetConnNull, reqVars, dbVars, tables,
    Fault, EndTypes, ReqTypes, DbTypes, OthersSame
<1>4. SaidTypes' /\ CounterTypes'
  BY <1>0 DEF GetConnNull, reqVars, Fault, SaidTypes, CounterTypes
<1>5. StoreTypes' /\ account \subseteq account'
  BY <1>0 DEF GetConnNull, tables, StoreTypes
<1>6. IdleOK(r)' /\ ControlOK(r)' /\ StmtOK(r)'
  BY <1>0, LocationFacts, NoneAssumption DEF GetConnNull, reqVars, dbVars,
    tables, Fault, EndTypes, ReqTypes, DbTypes, LocalOK, IdleOK, ControlOK,
    StmtOK, Is
<1>7. AccountOK(r)'
  BY <1>0, LocationFacts DEF GetConnNull, reqVars, dbVars, tables, Fault,
    EndTypes, ReqTypes, DbTypes, LocalOK, ControlOK, AccountOK, RowOf, Is
<1> QED BY <1>1, <1>2, <1>3, <1>4, <1>5, <1>6, <1>7, TypePartsPrimed DEF Good, LocalOK

\* HMSET writes the number of an account.
LEMMA HmsetGood ==
  ASSUME TypeOK, NEW r \in Requests, LocalOK(r),
         Hmset(r)
  PROVE  Good(r)
<1>0. EndTypes /\ ReqTypes /\ DbTypes /\ SaidTypes /\ StoreTypes /\ CounterTypes
  BY TypeParts
<1>1. EndTypes'
  BY <1>0, LocationFacts DEF Hmset, reqVars, dbVars, tables, Block, EndTypes
<1>2. OthersSame(r)
  BY <1>0 DEF Hmset, reqVars, dbVars, tables, Block, EndTypes, ReqTypes,
    DbTypes, OthersSame
<1>3. ReqTypes' /\ DbTypes'
  BY <1>0, <1>2, LocationFacts DEF Hmset, reqVars, dbVars, tables, Block,
    EndTypes, ReqTypes, DbTypes, OthersSame
<1>4. SaidTypes' /\ CounterTypes'
  BY <1>0 DEF Hmset, reqVars, SaidTypes, CounterTypes
<1>5. StoreTypes' /\ account \subseteq account'
  BY <1>0, SessionWrites DEF Hmset, tables, StoreTypes
<1>6. IdleOK(r)' /\ ControlOK(r)' /\ StmtOK(r)'
  BY <1>0, LocationFacts, NoneAssumption DEF Hmset, reqVars, dbVars, tables,
    Block, EndTypes, ReqTypes, DbTypes, LocalOK, IdleOK, ControlOK, StmtOK,
    Is
<1>7. AccountOK(r)'
  BY <1>0, LocationFacts DEF Hmset, reqVars, dbVars, tables, Block, EndTypes,
    ReqTypes, DbTypes, LocalOK, ControlOK, AccountOK, RowOf, Is
<1> QED BY <1>1, <1>2, <1>3, <1>4, <1>5, <1>6, <1>7, TypePartsPrimed DEF Good, LocalOK

\* EXPIRE ends the login.
LEMMA ExpireGood ==
  ASSUME TypeOK, NEW r \in Requests, LocalOK(r),
         Expire(r)
  PROVE  Good(r)
<1>0. EndTypes /\ ReqTypes /\ DbTypes /\ SaidTypes /\ StoreTypes /\ CounterTypes
  BY TypeParts
<1>1. EndTypes'
  BY <1>0, LocationFacts, ReplyFacts DEF Expire, reqVars, dbVars, tables,
    Reply, EndTypes
<1>2. OthersSame(r)
  BY <1>0 DEF Expire, reqVars, dbVars, tables, Reply, EndTypes, ReqTypes,
    DbTypes, OthersSame
<1>3. ReqTypes' /\ DbTypes'
  BY <1>0, <1>2, LocationFacts DEF Expire, reqVars, dbVars, tables, Reply,
    EndTypes, ReqTypes, DbTypes, OthersSame
<1>4. SaidTypes' /\ CounterTypes'
  BY <1>0 DEF Expire, reqVars, SaidTypes, CounterTypes
<1>5. StoreTypes' /\ account \subseteq account'
  BY <1>0, SessionWrites DEF Expire, tables, StoreTypes
<1>6. IdleOK(r)' /\ ControlOK(r)' /\ StmtOK(r)'
  BY <1>0, LocationFacts, NoneAssumption DEF Expire, reqVars, dbVars, tables,
    Reply, EndTypes, ReqTypes, DbTypes, LocalOK, IdleOK, ControlOK, StmtOK,
    Is
<1>7. AccountOK(r)'
  BY <1>0, LocationFacts DEF Expire, reqVars, dbVars, tables, Reply,
    EndTypes, ReqTypes, DbTypes, LocalOK, ControlOK, AccountOK, RowOf, Is
<1> QED BY <1>1, <1>2, <1>3, <1>4, <1>5, <1>6, <1>7, TypePartsPrimed DEF Good, LocalOK

\* The SELECT is answered.
LEMMA QueryDoneGood ==
  ASSUME TypeOK, NEW r \in Requests, NEW t \in Threads, LocalOK(r),
         QueryDone(r, t)
  PROVE  Good(r)
<1>0. EndTypes /\ ReqTypes /\ DbTypes /\ SaidTypes /\ StoreTypes /\ CounterTypes
  BY TypeParts
<1>1. EndTypes'
  BY <1>0, LocationFacts DEF QueryDone, reqVars, dbVars, tables, Resumes,
    Suspend, EndTypes
<1>2. OthersSame(r)
  BY <1>0 DEF QueryDone, reqVars, dbVars, tables, Resumes, Suspend, EndTypes,
    ReqTypes, DbTypes, OthersSame
<1>3. ReqTypes' /\ DbTypes'
  BY <1>0, <1>2, LocationFacts DEF QueryDone, reqVars, dbVars, tables,
    Resumes, Suspend, EndTypes, ReqTypes, DbTypes, OthersSame
<1>4. SaidTypes' /\ CounterTypes'
  BY <1>0 DEF QueryDone, reqVars, SaidTypes, CounterTypes
<1>5. StoreTypes' /\ account \subseteq account'
  BY <1>0 DEF QueryDone, tables, StoreTypes
<1>6. IdleOK(r)' /\ ControlOK(r)' /\ StmtOK(r)'
  BY <1>0, LocationFacts, NoneAssumption DEF QueryDone, reqVars, dbVars,
    tables, Resumes, Suspend, EndTypes, ReqTypes, DbTypes, LocalOK, IdleOK,
    ControlOK, StmtOK, Is
<1>7. AccountOK(r)'
  BY <1>0, LocationFacts DEF QueryDone, reqVars, dbVars, tables, Resumes,
    Suspend, EndTypes, ReqTypes, DbTypes, LocalOK, ControlOK, AccountOK,
    RowOf, Is
<1> QED BY <1>1, <1>2, <1>3, <1>4, <1>5, <1>6, <1>7, TypePartsPrimed DEF Good, LocalOK

\* A row that auth_pass reads is an account of its user.
LEMMA ReadRowGood ==
  ASSUME TypeOK, NEW r \in Requests, NEW t \in Threads, LocalOK(r),
         ReadRow(r, t)
  PROVE  Good(r)
<1>0. EndTypes /\ ReqTypes /\ DbTypes /\ SaidTypes /\ StoreTypes /\ CounterTypes
  BY TypeParts
<1>1. EndTypes'
  BY <1>0, LocationFacts DEF ReadRow, tables, Resumes, Suspend, EndTypes
<1>2. OthersSame(r)
  BY <1>0 DEF ReadRow, tables, Resumes, Suspend, EndTypes, ReqTypes, DbTypes,
    OthersSame
<1>3. ReqTypes' /\ DbTypes'
  BY <1>0, <1>2, LocationFacts DEF ReadRow, tables, Resumes, Suspend,
    EndTypes, ReqTypes, DbTypes, OthersSame
<1>4. SaidTypes' /\ CounterTypes'
  BY <1>0 DEF ReadRow, SaidTypes, CounterTypes
<1>5. StoreTypes' /\ account \subseteq account'
  BY <1>0 DEF ReadRow, tables, StoreTypes
<1>6. IdleOK(r)' /\ ControlOK(r)' /\ StmtOK(r)'
  BY <1>0, LocationFacts, NoneAssumption DEF ReadRow, tables, Resumes,
    Suspend, EndTypes, ReqTypes, DbTypes, LocalOK, IdleOK, ControlOK, StmtOK,
    Is
<1>7. AccountOK(r)'
  <2>1. PICK v \in wire[r] : /\ got' = [got EXCEPT ![r] = v]
                            /\ wire' = [wire EXCEPT ![r] = @ \ {v}]
    BY DEF ReadRow
  <2>2. pc[r] = "readOne" /\ req' = req /\ account' = account
    BY DEF ReadRow, Resumes, tables
  <2>3. CASE req[r].op = "auth_pass"
    <3>1. \A w \in wire[r] : RowOf(r, w) \in account /\ w # 0
      BY <1>0, <2>2, <2>3, MbuidFacts DEF LocalOK, AccountOK, RowOf, StoreTypes, AccountRows
    <3> QED BY <1>0, <2>1, <2>2, <3>1 DEF AccountOK, RowOf, ReqTypes, DbTypes
  <2>4. CASE req[r].op # "auth_pass"
    BY <2>2, <2>4 DEF AccountOK
  <2> QED BY <2>3, <2>4
<1> QED BY <1>1, <1>2, <1>3, <1>4, <1>5, <1>6, <1>7, TypePartsPrimed DEF Good, LocalOK

\* No row: the INSERT goes out.
LEMMA ReadNoneGood ==
  ASSUME TypeOK, NEW r \in Requests, NEW t \in Threads, LocalOK(r),
         ReadNone(r, t)
  PROVE  Good(r)
<1>0. EndTypes /\ ReqTypes /\ DbTypes /\ SaidTypes /\ StoreTypes /\ CounterTypes
  BY TypeParts
<1>1. EndTypes'
  BY <1>0, LocationFacts DEF ReadNone, reqVars, tables, Resumes, sendQuery,
    Suspend, EndTypes
<1>2. OthersSame(r)
  BY <1>0 DEF ReadNone, reqVars, tables, Resumes, sendQuery, Suspend,
    EndTypes, ReqTypes, DbTypes, OthersSame
<1>3. ReqTypes' /\ DbTypes'
  BY <1>0, <1>2, LocationFacts DEF ReadNone, reqVars, tables, Resumes,
    sendQuery, Suspend, EndTypes, ReqTypes, DbTypes, OthersSame
<1>4. SaidTypes' /\ CounterTypes'
  BY <1>0 DEF ReadNone, reqVars, SaidTypes, CounterTypes
<1>5. StoreTypes' /\ account \subseteq account'
  BY <1>0 DEF ReadNone, tables, StoreTypes
<1>6. IdleOK(r)' /\ ControlOK(r)' /\ StmtOK(r)'
  BY <1>0, LocationFacts, NoneAssumption DEF ReadNone, reqVars, tables,
    Resumes, sendQuery, Suspend, EndTypes, ReqTypes, DbTypes, LocalOK,
    IdleOK, ControlOK, StmtOK, Is
<1>7. AccountOK(r)'
  BY <1>0, LocationFacts DEF ReadNone, reqVars, tables, Resumes, sendQuery,
    Suspend, EndTypes, ReqTypes, DbTypes, LocalOK, ControlOK, AccountOK,
    RowOf, Is
<1> QED BY <1>1, <1>2, <1>3, <1>4, <1>5, <1>6, <1>7, TypePartsPrimed DEF Good, LocalOK

\* A further row is skipped.
LEMMA PurgeRowGood ==
  ASSUME TypeOK, NEW r \in Requests, NEW t \in Threads, LocalOK(r),
         PurgeRow(r, t)
  PROVE  Good(r)
<1>0. EndTypes /\ ReqTypes /\ DbTypes /\ SaidTypes /\ StoreTypes /\ CounterTypes
  BY TypeParts
<1>1. EndTypes'
  BY <1>0, LocationFacts DEF PurgeRow, reqVars, tables, Resumes, Suspend,
    EndTypes
<1>2. OthersSame(r)
  BY <1>0 DEF PurgeRow, reqVars, tables, Resumes, Suspend, EndTypes,
    ReqTypes, DbTypes, OthersSame
<1>3. ReqTypes' /\ DbTypes'
  BY <1>0, <1>2, LocationFacts DEF PurgeRow, reqVars, tables, Resumes,
    Suspend, EndTypes, ReqTypes, DbTypes, OthersSame
<1>4. SaidTypes' /\ CounterTypes'
  BY <1>0 DEF PurgeRow, reqVars, SaidTypes, CounterTypes
<1>5. StoreTypes' /\ account \subseteq account'
  BY <1>0 DEF PurgeRow, tables, StoreTypes
<1>6. IdleOK(r)' /\ ControlOK(r)' /\ StmtOK(r)'
  BY <1>0, LocationFacts, NoneAssumption DEF PurgeRow, reqVars, tables,
    Resumes, Suspend, EndTypes, ReqTypes, DbTypes, LocalOK, IdleOK,
    ControlOK, StmtOK, Is
<1>7. AccountOK(r)'
  BY <1>0, LocationFacts DEF PurgeRow, reqVars, tables, Resumes, Suspend,
    EndTypes, ReqTypes, DbTypes, LocalOK, ControlOK, AccountOK, RowOf, Is
<1> QED BY <1>1, <1>2, <1>3, <1>4, <1>5, <1>6, <1>7, TypePartsPrimed DEF Good, LocalOK

\* The resultset is drained, with what was read still at hand.
LEMMA PurgeEndGood ==
  ASSUME TypeOK, NEW r \in Requests, NEW t \in Threads, LocalOK(r),
         PurgeEnd(r, t)
  PROVE  Good(r)
<1>0. EndTypes /\ ReqTypes /\ DbTypes /\ SaidTypes /\ StoreTypes /\ CounterTypes
  BY TypeParts
<1>1. EndTypes'
  <2>1. CASE Block(r, t, "hmset")
    BY <1>0, <2>1, BlockEnds, LocationFacts DEF PurgeEnd
  <2>2. CASE Reply(r, "ok")
    BY <1>0, <2>2, ReplyEnds, ReplyFacts DEF PurgeEnd
  <2> QED BY <2>1, <2>2 DEF PurgeEnd
<1>2. OthersSame(r)
  BY <1>0 DEF PurgeEnd, reqVars, tables, Resumes, Block, Reply, EndTypes,
    ReqTypes, DbTypes, OthersSame
<1>3. ReqTypes' /\ DbTypes'
  BY <1>0, <1>2, LocationFacts DEF PurgeEnd, reqVars, tables, Resumes, Block,
    Reply, EndTypes, ReqTypes, DbTypes, OthersSame
<1>4. SaidTypes' /\ CounterTypes'
  BY <1>0 DEF PurgeEnd, reqVars, SaidTypes, CounterTypes
<1>5. StoreTypes' /\ account \subseteq account'
  BY <1>0 DEF PurgeEnd, tables, StoreTypes
<1>6. IdleOK(r)' /\ ControlOK(r)' /\ StmtOK(r)'
  BY <1>0, LocationFacts, NoneAssumption DEF PurgeEnd, reqVars, tables,
    Resumes, Block, Reply, EndTypes, ReqTypes, DbTypes, LocalOK, IdleOK,
    ControlOK, StmtOK, Is
<1>7. AccountOK(r)'
  BY <1>0, LocationFacts DEF PurgeEnd, reqVars, tables, Resumes, Block,
    Reply, EndTypes, ReqTypes, DbTypes, LocalOK, ControlOK, AccountOK, RowOf,
    Is
<1> QED BY <1>1, <1>2, <1>3, <1>4, <1>5, <1>6, <1>7, TypePartsPrimed DEF Good, LocalOK

\* last_insert_id is the account that this INSERT has created.
LEMMA InsertAccountDoneGood ==
  ASSUME TypeOK, NEW r \in Requests, NEW t \in Threads, LocalOK(r),
         InsertAccountDone(r, t)
  PROVE  Good(r)
<1>0. EndTypes /\ ReqTypes /\ DbTypes /\ SaidTypes /\ StoreTypes /\ CounterTypes
  BY TypeParts
<1>1. EndTypes'
  BY <1>0, LocationFacts DEF InsertAccountDone, tables, Resumes, Block,
    EndTypes
<1>2. OthersSame(r)
  BY <1>0 DEF InsertAccountDone, tables, Resumes, Block, EndTypes, ReqTypes,
    DbTypes, OthersSame
<1>3. ReqTypes' /\ DbTypes'
  BY <1>0, <1>2, LocationFacts DEF InsertAccountDone, tables, Resumes, Block,
    EndTypes, ReqTypes, DbTypes, OthersSame
<1>4. SaidTypes' /\ CounterTypes'
  BY <1>0 DEF InsertAccountDone, SaidTypes, CounterTypes
<1>5. StoreTypes' /\ account \subseteq account'
  BY <1>0 DEF InsertAccountDone, tables, StoreTypes
<1>6. IdleOK(r)' /\ ControlOK(r)' /\ StmtOK(r)'
  BY <1>0, LocationFacts, NoneAssumption DEF InsertAccountDone, tables,
    Resumes, Block, EndTypes, ReqTypes, DbTypes, LocalOK, IdleOK, ControlOK,
    StmtOK, Is
<1>7. AccountOK(r)'
  <2>1. PICK v \in wire[r] : got' = [got EXCEPT ![r] = v]
    BY DEF InsertAccountDone
  <2>2. /\ pc[r] = "insAccount" /\ req' = req /\ account' = account
        /\ wire' = [wire EXCEPT ![r] = {}]
    BY DEF InsertAccountDone, Resumes, tables
  <2>3. RowOf(r, v) \in account /\ v # 0
    BY <1>0, <2>1, <2>2, MbuidFacts
       DEF LocalOK, ControlOK, AccountOK, Is, RowOf, StoreTypes, AccountRows
  <2> QED BY <1>0, <2>1, <2>2, <2>3 DEF AccountOK, RowOf, ReqTypes, DbTypes
<1> QED BY <1>1, <1>2, <1>3, <1>4, <1>5, <1>6, <1>7, TypePartsPrimed DEF Good, LocalOK

\* value_set replies.
LEMMA InsertPlayerDoneGood ==
  ASSUME TypeOK, NEW r \in Requests, NEW t \in Threads, LocalOK(r),
         InsertPlayerDone(r, t)
  PROVE  Good(r)
<1>0. EndTypes /\ ReqTypes /\ DbTypes /\ SaidTypes /\ StoreTypes /\ CounterTypes
  BY TypeParts
<1>1. EndTypes'
  BY <1>0, LocationFacts, ReplyFacts DEF InsertPlayerDone, reqVars, tables,
    Resumes, Reply, EndTypes
<1>2. OthersSame(r)
  BY <1>0 DEF InsertPlayerDone, reqVars, tables, Resumes, Reply, EndTypes,
    ReqTypes, DbTypes, OthersSame
<1>3. ReqTypes' /\ DbTypes'
  BY <1>0, <1>2, LocationFacts DEF InsertPlayerDone, reqVars, tables,
    Resumes, Reply, EndTypes, ReqTypes, DbTypes, OthersSame
<1>4. SaidTypes' /\ CounterTypes'
  BY <1>0 DEF InsertPlayerDone, reqVars, SaidTypes, CounterTypes
<1>5. StoreTypes' /\ account \subseteq account'
  BY <1>0 DEF InsertPlayerDone, tables, StoreTypes
<1>6. IdleOK(r)' /\ ControlOK(r)' /\ StmtOK(r)'
  BY <1>0, LocationFacts, NoneAssumption DEF InsertPlayerDone, reqVars,
    tables, Resumes, Reply, EndTypes, ReqTypes, DbTypes, LocalOK, IdleOK,
    ControlOK, StmtOK, Is
<1>7. AccountOK(r)'
  BY <1>0, LocationFacts DEF InsertPlayerDone, reqVars, tables, Resumes,
    Reply, EndTypes, ReqTypes, DbTypes, LocalOK, ControlOK, AccountOK, RowOf,
    Is
<1> QED BY <1>1, <1>2, <1>3, <1>4, <1>5, <1>6, <1>7, TypePartsPrimed DEF Good, LocalOK

\* The unique key was taken.
LEMMA DupEntryGood ==
  ASSUME TypeOK, NEW r \in Requests, NEW t \in Threads, LocalOK(r),
         DupEntry(r, t)
  PROVE  Good(r)
<1>0. EndTypes /\ ReqTypes /\ DbTypes /\ SaidTypes /\ StoreTypes /\ CounterTypes
  BY TypeParts
<1>1. EndTypes'
  BY <1>0, LocationFacts, ReplyFacts DEF DupEntry, reqVars, dbVars, tables,
    Resumes, Reply, EndTypes
<1>2. OthersSame(r)
  BY <1>0 DEF DupEntry, reqVars, dbVars, tables, Resumes, Reply, EndTypes,
    ReqTypes, DbTypes, OthersSame
<1>3. ReqTypes' /\ DbTypes'
  BY <1>0, <1>2, LocationFacts DEF DupEntry, reqVars, dbVars, tables,
    Resumes, Reply, EndTypes, ReqTypes, DbTypes, OthersSame
<1>4. SaidTypes' /\ CounterTypes'
  BY <1>0 DEF DupEntry, reqVars, SaidTypes, CounterTypes
<1>5. StoreTypes' /\ account \subseteq account'
  BY <1>0 DEF DupEntry, tables, StoreTypes
<1>6. IdleOK(r)' /\ ControlOK(r)' /\ StmtOK(r)'
  BY <1>0, LocationFacts, NoneAssumption DEF DupEntry, reqVars, dbVars,
    tables, Resumes, Reply, EndTypes, ReqTypes, DbTypes, LocalOK, IdleOK,
    ControlOK, StmtOK, Is
<1>7. AccountOK(r)'
  BY <1>0, LocationFacts DEF DupEntry, reqVars, dbVars, tables, Resumes,
    Reply, EndTypes, ReqTypes, DbTypes, LocalOK, ControlOK, AccountOK, RowOf,
    Is
<1> QED BY <1>1, <1>2, <1>3, <1>4, <1>5, <1>6, <1>7, TypePartsPrimed DEF Good, LocalOK

\* The handler gives up, its statement stays with MySQL.
LEMMA IoErrorGood ==
  ASSUME TypeOK, NEW r \in Requests, NEW t \in Threads, LocalOK(r),
         IoError(r, t)
  PROVE  Good(r)
<1>0. EndTypes /\ ReqTypes /\ DbTypes /\ SaidTypes /\ StoreTypes /\ CounterTypes
  BY TypeParts
<1>1. EndTypes'
  BY <1>0, LocationFacts, ReplyFacts DEF IoError, reqVars, dbVars, tables,
    Fault, Reply, EndTypes
<1>2. OthersSame(r)
  BY <1>0 DEF IoError, reqVars, dbVars, tables, Fault, Reply, EndTypes,
    ReqTypes, DbTypes, OthersSame
<1>3. ReqTypes' /\ DbTypes'
  BY <1>0, <1>2, LocationFacts DEF IoError, reqVars, dbVars, tables, Fault,
    Reply, EndTypes, ReqTypes, DbTypes, OthersSame
<1>4. SaidTypes' /\ CounterTypes'
  <2>1. SaidTypes' /\ crashed' = crashed
    BY <1>0 DEF IoError, reqVars, SaidTypes
  <2>2. faults' = faults + 1
    BY DEF IoError, Fault
  <2> QED BY <1>0, <2>1, <2>2 DEF CounterTypes
<1>5. StoreTypes' /\ account \subseteq account'
  BY <1>0 DEF IoError, tables, StoreTypes
<1>6. IdleOK(r)' /\ ControlOK(r)' /\ StmtOK(r)'
  BY <1>0, LocationFacts, NoneAssumption DEF IoError, reqVars, dbVars,
    tables, Fault, Reply, EndTypes, ReqTypes, DbTypes, LocalOK, IdleOK,
    ControlOK, StmtOK, Is
<1>7. AccountOK(r)'
  BY <1>0, LocationFacts DEF IoError, reqVars, dbVars, tables, Fault, Reply,
    EndTypes, ReqTypes, DbTypes, LocalOK, ControlOK, AccountOK, RowOf, Is
<1> QED BY <1>1, <1>2, <1>3, <1>4, <1>5, <1>6, <1>7, TypePartsPrimed DEF Good, LocalOK

\* What SELECT sends are accounts of the user.
LEMMA DbSelectAccountGood ==
  ASSUME TypeOK, NEW r \in Requests, LocalOK(r),
         DbSelectAccount(r)
  PROVE  Good(r)
<1>0. EndTypes /\ ReqTypes /\ DbTypes /\ SaidTypes /\ StoreTypes /\ CounterTypes
  BY TypeParts
<1>a. \A v \in wire'[r] : RowOf(r, v) \in account /\ v \in Nat
  <2> SUFFICES ASSUME NEW v \in wire'[r] PROVE RowOf(r, v) \in account /\ v \in Nat
    OBVIOUS
  <2>1. PICK a \in account : a.user = req[r].arg /\ a.mbuid = v
    BY <1>0 DEF DbSelectAccount, DbTypes
  <2>2. a \in [mbuid : Mbuid, user : Users]
    BY <1>0 DEF StoreTypes, AccountRows
  <2>3. a = RowOf(r, v)
    BY <2>1, <2>2 DEF RowOf
  <2> QED BY <2>1, <2>2, <2>3, MbuidFacts
<1>b. wire'[r] \subseteq Nat /\ wire' = [wire EXCEPT ![r] = wire'[r]]
  BY <1>0, <1>a DEF DbSelectAccount, DbTypes
<1>1. EndTypes'
  BY <1>0, LocationFacts DEF DbSelectAccount, reqVars, tables, EndTypes
<1>2. OthersSame(r)
  BY <1>0 DEF DbSelectAccount, reqVars, tables, EndTypes, ReqTypes, DbTypes,
    OthersSame
<1>3. ReqTypes' /\ DbTypes'
  BY <1>0, <1>b DEF DbSelectAccount, reqVars, ReqTypes, DbTypes
<1>4. SaidTypes' /\ CounterTypes'
  BY <1>0 DEF DbSelectAccount, reqVars, SaidTypes, CounterTypes
<1>5. StoreTypes' /\ account \subseteq account'
  BY <1>0 DEF DbSelectAccount, tables, StoreTypes
<1>6. IdleOK(r)' /\ ControlOK(r)' /\ StmtOK(r)'
  BY <1>0, LocationFacts, NoneAssumption DEF DbSelectAccount, reqVars,
    DbTypes, LocalOK, IdleOK, ControlOK, StmtOK, Is, Statements
<1>7. AccountOK(r)'
  BY <1>0, <1>a DEF DbSelectAccount, reqVars, tables, LocalOK, AccountOK, RowOf
<1> QED BY <1>1, <1>2, <1>3, <1>4, <1>5, <1>6, <1>7, TypePartsPrimed DEF Good, LocalOK

\* INSERT adds an account of the user and sends its number.
LEMMA DbInsertAccountGood ==
  ASSUME TypeOK, NEW r \in Requests, LocalOK(r),
         DbInsertAccount(r)
  PROVE  Good(r)
<1>0. EndTypes /\ ReqTypes /\ DbTypes /\ SaidTypes /\ StoreTypes /\ CounterTypes
  BY TypeParts
<1>a. Is(r, "auth_pass") /\ req[r].arg \in Users /\ pc[r] # "idle"
  <2>1. Is(r, "auth_pass") /\ pc[r] # "idle"
    BY <1>0, NoneAssumption DEF DbInsertAccount, LocalOK, StmtOK, IdleOK, Statements
  <2> QED BY <1>0, <2>1, KindFacts DEF ReqTypes, Is
<1>b. RowOf(r, nextId) \in AccountRows /\ nextId \in Nat
  BY <1>a, MbuidFacts DEF DbInsertAccount, RowOf, AccountRows
<1>c. \/ account' = account /\ wire' = wire
      \/ account' = account \cup {RowOf(r, nextId)} /\ wire' = [wire EXCEPT ![r] = {nextId}]
  BY DEF DbInsertAccount, RowOf
<1>1. EndTypes'
  BY <1>0, LocationFacts DEF DbInsertAccount, reqVars, EndTypes
<1>2. OthersSame(r)
  BY <1>0 DEF DbInsertAccount, reqVars, EndTypes, ReqTypes, DbTypes,
    OthersSame
<1>3. ReqTypes' /\ DbTypes'
  <2>1. dup' \in [Requests -> BOOLEAN]
    <3>1. dup' = dup \/ dup' = [dup EXCEPT ![r] = TRUE]
      BY DEF DbInsertAccount
    <3> QED BY <1>0, <3>1 DEF DbTypes
  <2>2. wire' \in [Requests -> SUBSET Nat]
    BY <1>0, <1>b, <1>c DEF DbTypes
  <2>3. stmt' \in [Requests -> Statements \cup {None}] /\ complete' \in [Requests -> BOOLEAN]
    BY <1>0 DEF DbInsertAccount, DbTypes
  <2>4. ReqTypes'
    BY <1>0 DEF DbInsertAccount, reqVars, ReqTypes
  <2> QED BY <2>1, <2>2, <2>3, <2>4 DEF DbTypes
<1>4. SaidTypes' /\ CounterTypes'
  BY <1>0 DEF DbInsertAccount, reqVars, SaidTypes, CounterTypes
<1>5. StoreTypes' /\ account \subseteq account'
  BY <1>0, <1>b, <1>c DEF DbInsertAccount, StoreTypes
<1>6. IdleOK(r)' /\ ControlOK(r)' /\ StmtOK(r)'
  BY <1>0, <1>a, <1>c, NoneAssumption DEF DbInsertAccount, reqVars, DbTypes,
    LocalOK, IdleOK, ControlOK, StmtOK, Is, Statements
<1>7. AccountOK(r)'
  BY <1>0, <1>a, <1>c DEF DbInsertAccount, reqVars, DbTypes, LocalOK, AccountOK, RowOf
<1> QED BY <1>1, <1>2, <1>3, <1>4, <1>5, <1>6, <1>7, TypePartsPrimed DEF Good, LocalOK

\* INSERT adds a row with the number from the session check.
LEMMA DbInsertPlayerGood ==
  ASSUME TypeOK, NEW r \in Requests, LocalOK(r),
         DbInsertPlayer(r)
  PROVE  Good(r)
<1>0. EndTypes /\ ReqTypes /\ DbTypes /\ SaidTypes /\ StoreTypes /\ CounterTypes
  BY TypeParts
<1>a. Is(r, "value_set") /\ sess[r] \in Mbuid /\ req[r].arg \in Values /\ pc[r] # "idle"
  <2>1. Is(r, "value_set") /\ sess[r] \in Mbuid /\ pc[r] # "idle"
    BY <1>0, NoneAssumption DEF DbInsertPlayer, LocalOK, StmtOK, IdleOK, Statements
  <2> QED BY <1>0, <2>1, KindFacts DEF ReqTypes, Is
<1>c. \/ player' = player /\ wire' = wire
      \/ /\ player' = player \cup {[mbuid |-> sess[r], myvalue |-> req[r].arg,
                                    player_name |-> None]}
         /\ wire' = [wire EXCEPT ![r] = {1}]
  BY DEF DbInsertPlayer
<1>1. EndTypes'
  BY <1>0, LocationFacts DEF DbInsertPlayer, reqVars, EndTypes
<1>2. OthersSame(r)
  BY <1>0 DEF DbInsertPlayer, reqVars, EndTypes, ReqTypes, DbTypes,
    OthersSame
<1>3. ReqTypes' /\ DbTypes'
  <2>1. dup' \in [Requests -> BOOLEAN]
    <3>1. dup' = dup \/ dup' = [dup EXCEPT ![r] = TRUE]
      BY DEF DbInsertPlayer
    <3> QED BY <1>0, <3>1 DEF DbTypes
  <2>2. wire' \in [Requests -> SUBSET Nat]
    BY <1>0, <1>c DEF DbTypes
  <2>3. stmt' \in [Requests -> Statements \cup {None}] /\ complete' \in [Requests -> BOOLEAN]
    BY <1>0 DEF DbInsertPlayer, DbTypes
  <2>4. ReqTypes'
    BY <1>0 DEF DbInsertPlayer, reqVars, ReqTypes
  <2> QED BY <2>1, <2>2, <2>3, <2>4 DEF DbTypes
<1>4. SaidTypes' /\ CounterTypes'
  BY <1>0 DEF DbInsertPlayer, reqVars, SaidTypes, CounterTypes
<1>5. StoreTypes' /\ account \subseteq account'
  BY <1>0, <1>a, <1>c DEF DbInsertPlayer, StoreTypes, PlayerRows
<1>6. IdleOK(r)' /\ ControlOK(r)' /\ StmtOK(r)'
  BY <1>0, <1>a, <1>c, NoneAssumption DEF DbInsertPlayer, reqVars, DbTypes,
    LocalOK, IdleOK, ControlOK, StmtOK, Is, Statements
<1>7. AccountOK(r)'
  BY <1>0, <1>a DEF DbInsertPlayer, reqVars, AccountOK, Is
<1> QED BY <1>1, <1>2, <1>3, <1>4, <1>5, <1>6, <1>7, TypePartsPrimed DEF Good, LocalOK

\* EXISTS sends one number.
LEMMA DbSelectPlayerGood ==
  ASSUME TypeOK, NEW r \in Requests, LocalOK(r),
         DbSelectPlayer(r)
  PROVE  Good(r)
<1>0. EndTypes /\ ReqTypes /\ DbTypes /\ SaidTypes /\ StoreTypes /\ CounterTypes
  BY TypeParts
<1>a. Is(r, "value_get") /\ pc[r] # "idle"
  BY <1>0, NoneAssumption DEF DbSelectPlayer, LocalOK, StmtOK, IdleOK, Statements
<1>1. EndTypes'
  BY <1>0, LocationFacts DEF DbSelectPlayer, reqVars, tables, EndTypes
<1>2. OthersSame(r)
  BY <1>0 DEF DbSelectPlayer, reqVars, tables, EndTypes, ReqTypes, DbTypes,
    OthersSame
<1>3. ReqTypes' /\ DbTypes'
  BY <1>0, <1>2, LocationFacts DEF DbSelectPlayer, reqVars, tables, EndTypes,
    ReqTypes, DbTypes, OthersSame
<1>4. SaidTypes' /\ CounterTypes'
  BY <1>0 DEF DbSelectPlayer, reqVars, SaidTypes, CounterTypes
<1>5. StoreTypes' /\ account \subseteq account'
  BY <1>0 DEF DbSelectPlayer, tables, StoreTypes
<1>6. IdleOK(r)' /\ ControlOK(r)' /\ StmtOK(r)'
  BY <1>0, <1>a, NoneAssumption DEF DbSelectPlayer, reqVars, DbTypes,
    LocalOK, IdleOK, ControlOK, StmtOK, Is, Statements
<1>7. AccountOK(r)'
  BY <1>0, <1>a DEF DbSelectPlayer, reqVars, AccountOK, Is
<1> QED BY <1>1, <1>2, <1>3, <1>4, <1>5, <1>6, <1>7, TypePartsPrimed DEF Good, LocalOK

\* A statement whose handler is gone is lost.
LEMMA DbDropGood ==
  ASSUME TypeOK, NEW r \in Requests, LocalOK(r),
         DbDrop(r)
  PROVE  Good(r)
<1>0. EndTypes /\ ReqTypes /\ DbTypes /\ SaidTypes /\ StoreTypes /\ CounterTypes
  BY TypeParts
<1>1. EndTypes'
  BY <1>0, LocationFacts DEF DbDrop, reqVars, tables, EndTypes
<1>2. OthersSame(r)
  BY <1>0 DEF DbDrop, reqVars, tables, EndTypes, ReqTypes, DbTypes,
    OthersSame
<1>3. ReqTypes' /\ DbTypes'
  BY <1>0, <1>2, LocationFacts DEF DbDrop, reqVars, tables, EndTypes,
    ReqTypes, DbTypes, OthersSame
<1>4. SaidTypes' /\ CounterTypes'
  BY <1>0 DEF DbDrop, reqVars, SaidTypes, CounterTypes
<1>5. StoreTypes' /\ account \subseteq account'
  BY <1>0 DEF DbDrop, tables, StoreTypes
<1>6. IdleOK(r)' /\ ControlOK(r)' /\ StmtOK(r)'
  BY <1>0, NoneAssumption DEF DbDrop, reqVars, DbTypes, LocalOK, IdleOK, ControlOK,
    StmtOK, Is, Statements
<1>7. AccountOK(r)'
  BY <1>0, LocationFacts DEF DbDrop, reqVars, tables, EndTypes, ReqTypes,
    DbTypes, LocalOK, ControlOK, AccountOK, RowOf, Is
<1> QED BY <1>1, <1>2, <1>3, <1>4, <1>5, <1>6, <1>7, TypePartsPrimed DEF Good, LocalOK

\* What ParseBody comes to: a reply that is no success, or the way to getConn.
LEMMA ParseOutcome ==
  ASSUME NEW r, NEW t, NEW q, ParseBody(r, t, q)
  PROVE  \/ \E msg \in Replies \ {"-", "ok"} : Reply(r, msg)
         \/ q.body = "ok" /\ Block(r, t, "getConn")
<1>1. {"invalid json-string", "bad parameter", "server error"} \subseteq Replies \ {"-", "ok"}
  BY DEF Replies
<1> QED BY <1>1 DEF ParseBody, BadParameter

\* A request arrives: its handler starts from a clean slate.
LEMMA AcceptGood ==
  ASSUME TypeOK, NEW r \in Requests, NEW t \in Threads, NEW q \in Kinds, LocalOK(r),
         Accept(r, t, q)
  PROVE  Good(r)
<1>0. EndTypes /\ ReqTypes /\ DbTypes /\ SaidTypes /\ StoreTypes /\ CounterTypes
  BY TypeParts
<1>a. \/ \E msg \in Replies \ {"-", "ok"} : Reply(r, msg)
      \/ q.op = "auth_pass" /\ q.body = "ok" /\ Block(r, t, "getConn")
      \/ q.op \in SessionOps /\ Block(r, t, "session")
  <2>1. {"hello", "not found session"} \subseteq Replies \ {"-", "ok"}
    BY DEF Replies
  <2> QED BY <2>1, ParseOutcome DEF Accept
<1>b. pc[r] = "idle" /\ req' = [req EXCEPT ![r] = q] /\ resp[r] = "-"
  BY <1>0 DEF Accept, LocalOK, ControlOK, EndTypes
<1>1. EndTypes'
  <2>1. CASE \E msg \in Replies \ {"-", "ok"} : Reply(r, msg)
    BY <1>0, <2>1, ReplyEnds DEF Accept
  <2>2. CASE Block(r, t, "getConn")
    BY <1>0, <2>2, BlockEnds, LocationFacts DEF Accept
  <2>3. CASE Block(r, t, "session")
    BY <1>0, <2>3, BlockEnds, LocationFacts DEF Accept
  <2> QED BY <1>a, <2>1, <2>2, <2>3
<1>2. OthersSame(r)
  BY <1>0, <1>a, <1>b DEF Accept, dbVars, Reply, Block, EndTypes, ReqTypes, OthersSame
<1>3. ReqTypes' /\ DbTypes'
  <2>1. \A s \in Requests : pc'[s] # "idle" => req'[s] \in Kinds
    BY <1>0, <1>2, <1>b DEF ReqTypes, OthersSame
  <2>2. ReqTypes'
    BY <1>0, <1>b, <2>1 DEF Accept, ReqTypes
  <2> QED BY <1>0, <2>2 DEF Accept, dbVars, DbTypes
<1>4. SaidTypes' /\ CounterTypes'
  <2>1. CASE UNCHANGED <<said, tls>>
    BY <1>0, <2>1 DEF Accept, SaidTypes, CounterTypes
  <2>2. CASE ParseBody(r, t, q)
    BY <1>0, <2>2, ParseEnds DEF Accept, SaidTypes, CounterTypes
  <2> QED BY <2>1, <2>2 DEF Accept
<1>5. StoreTypes' /\ account \subseteq account'
  BY <1>0 DEF Accept, tables, StoreTypes
<1>6. IdleOK(r)' /\ ControlOK(r)' /\ StmtOK(r)'
  <2>1. stmt'[r] = None /\ wire'[r] = {} /\ got'[r] = 0 /\ sess'[r] = 0 /\ req'[r] = q
    BY <1>0, <1>b DEF Accept, dbVars, LocalOK, IdleOK, ReqTypes
  <2>2. CASE \E msg \in Replies \ {"-", "ok"} : Reply(r, msg)
    BY <1>0, <2>1, <2>2, LocationFacts, NoneAssumption
       DEF Reply, EndTypes, IdleOK, ControlOK, StmtOK, Statements
  <2>3. CASE q.op = "auth_pass" /\ q.body = "ok" /\ Block(r, t, "getConn")
    BY <1>0, <1>b, <2>1, <2>3, LocationFacts, NoneAssumption
       DEF Block, EndTypes, IdleOK, ControlOK, StmtOK, Statements, Is
  <2>4. CASE q.op \in SessionOps /\ Block(r, t, "session")
    BY <1>0, <1>b, <2>1, <2>4, LocationFacts, NoneAssumption
       DEF Block, EndTypes, IdleOK, ControlOK, StmtOK, Statements
  <2> QED BY <1>a, <2>2, <2>3, <2>4
<1>7. AccountOK(r)'
  <2>1. wire'[r] = {} /\ got'[r] = 0
    BY <1>b DEF Accept, dbVars, LocalOK, IdleOK
  <2>2. pc'[r] \in {"done", "getConn", "session"} /\ resp'[r] # "ok"
    BY <1>0, <1>a, <1>b DEF Reply, Block, EndTypes
  <2> QED BY <2>1, <2>2 DEF AccountOK
<1> QED BY <1>1, <1>2, <1>3, <1>4, <1>5, <1>6, <1>7, TypePartsPrimed DEF Good, LocalOK

\* The session check yields a number that Redis holds, or none.
LEMMA CheckSessionGood ==
  ASSUME TypeOK, NEW r \in Requests, LocalOK(r),
         CheckSession(r)
  PROVE  /\ Good(r)
         /\ \/ sess' = sess
            \/ \E k \in Keys : /\ redis[k] # Absent
                               /\ sess' = [sess EXCEPT ![r] = redis[k].mbuid]
<1>0. EndTypes /\ ReqTypes /\ DbTypes /\ SaidTypes /\ StoreTypes /\ CounterTypes
  BY TypeParts
<1>b. /\ pc[r] = "session" /\ resp[r] = "-" /\ req[r].op \in SessionOps
      /\ thr[r] \in Threads
  BY <1>0, LocationFacts DEF CheckSession, LocalOK, ControlOK, EndTypes
<1>c. \/ sess' = sess /\ Reply(r, "invalid session") /\ UNCHANGED <<said, tls>>
      \/ /\ \E k \in Keys : /\ redis[k] # Absent
                            /\ sess' = [sess EXCEPT ![r] = redis[k].mbuid]
         /\ ParseBody(r, thr[r], req[r])
  BY DEF CheckSession, hgetAll
<1>d. \A k \in Keys : redis[k] # Absent => redis[k].mbuid \in Mbuid
  BY <1>0 DEF StoreTypes, Entries
<1>a. \/ \E msg \in Replies \ {"-", "ok"} : Reply(r, msg)
      \/ sess'[r] \in Mbuid /\ req[r].body = "ok" /\ Block(r, thr[r], "getConn")
  <2>1. "invalid session" \in Replies \ {"-", "ok"}
    BY DEF Replies
  <2>2. CASE Reply(r, "invalid session")
    BY <2>1, <2>2
  <2>3. CASE /\ \E k \in Keys : /\ redis[k] # Absent
                                /\ sess' = [sess EXCEPT ![r] = redis[k].mbuid]
             /\ ParseBody(r, thr[r], req[r])
    <3>1. sess'[r] \in Mbuid
      BY <1>0, <1>d, <2>3 DEF ReqTypes
    <3> QED BY <2>3, <3>1, ParseOutcome
  <2> QED BY <1>c, <2>2, <2>3
<1>1. EndTypes'
  <2>1. CASE \E msg \in Replies \ {"-", "ok"} : Reply(r, msg)
    BY <1>0, <2>1, ReplyEnds DEF CheckSession
  <2>2. CASE Block(r, thr[r], "getConn")
    BY <1>0, <1>b, <2>2, BlockEnds, LocationFacts DEF CheckSession
  <2> QED BY <1>a, <2>1, <2>2
<1>2. OthersSame(r)
  BY <1>0, <1>a, <1>c DEF CheckSession, dbVars, Reply, Block, EndTypes, ReqTypes, OthersSame
<1>3. ReqTypes' /\ DbTypes'
  <2>1. \A s \in Requests : pc'[s] # "idle" => req'[s] \in Kinds
    BY <1>0, <1>2, <1>b DEF CheckSession, ReqTypes, OthersSame
  <2>2. sess' \in [Requests -> Nat]
    BY <1>0, <1>c, <1>d, MbuidFacts DEF ReqTypes
  <2>3. ReqTypes'
    BY <1>0, <2>1, <2>2 DEF CheckSession, ReqTypes
  <2> QED BY <1>0, <2>3 DEF CheckSession, dbVars, DbTypes
<1>4. SaidTypes' /\ CounterTypes'
  <2>1. CASE UNCHANGED <<said, tls>>
    BY <1>0, <2>1 DEF CheckSession, SaidTypes, CounterTypes
  <2>2. CASE ParseBody(r, thr[r], req[r])
    BY <1>0, <1>b, <2>2, ParseEnds DEF CheckSession, SaidTypes, CounterTypes
  <2> QED BY <1>c, <2>1, <2>2
<1>5. StoreTypes' /\ account \subseteq account'
  BY <1>0 DEF CheckSession, tables, StoreTypes
<1>6. IdleOK(r)' /\ ControlOK(r)' /\ StmtOK(r)'
  <2>1. req' = req /\ stmt' = stmt /\ (stmt[r] = "insPlayer" => sess'[r] \in Mbuid)
    BY <1>0, <1>c, <1>d DEF CheckSession, dbVars, LocalOK, StmtOK, ReqTypes
  <2>2. StmtOK(r)'
    BY <2>1 DEF LocalOK, StmtOK, Is
  <2>3. CASE \E msg \in Replies \ {"-", "ok"} : Reply(r, msg)
    BY <1>0, <2>1, <2>2, <2>3, LocationFacts DEF Reply, EndTypes, IdleOK, ControlOK
  <2>4. CASE sess'[r] \in Mbuid /\ req[r].body = "ok" /\ Block(r, thr[r], "getConn")
    BY <1>0, <1>b, <2>1, <2>2, <2>4, LocationFacts
       DEF Block, EndTypes, IdleOK, ControlOK, Is, SessionOps
  <2> QED BY <1>a, <2>3, <2>4
<1>7. AccountOK(r)'
  BY <1>b DEF CheckSession, AccountOK, SessionOps
<1>8. Good(r)
  BY <1>1, <1>2, <1>3, <1>4, <1>5, <1>6, <1>7, TypePartsPrimed DEF Good, LocalOK
<1> QED BY <1>8, <1>c

\* A Redis command throws, executed or not.
LEMMA RedisThrowsGood ==
  ASSUME TypeOK, NEW r \in Requests, LocalOK(r),
         RedisThrows(r)
  PROVE  Good(r)
<1>0. EndTypes /\ ReqTypes /\ DbTypes /\ SaidTypes /\ StoreTypes /\ CounterTypes
  BY TypeParts
<1>a. pc[r] \in {"hmset", "expire"} /\ Reply(r, "bad parameter")
  BY DEF RedisThrows, BadParameter
<1>c. thr[r] \in Threads
  BY <1>a, LocationFacts DEF LocalOK, ControlOK
<1>1. EndTypes'
  BY <1>0, <1>a, ReplyEnds, ReplyFacts DEF RedisThrows
<1>2. OthersSame(r)
  BY <1>0, <1>a DEF RedisThrows, dbVars, Reply, EndTypes, OthersSame
<1>3. ReqTypes' /\ DbTypes'
  <2>1. \A s \in Requests : pc'[s] # "idle" => req'[s] \in Kinds
    BY <1>0, <1>2, <1>a DEF RedisThrows, ReqTypes, OthersSame
  <2> QED BY <1>0, <2>1 DEF RedisThrows, dbVars, ReqTypes, DbTypes
<1>4. SaidTypes' /\ CounterTypes'
  <2>1. tls' = tls /\ said' = [said EXCEPT ![r] = tls'[thr[r]][FileOf(req[r].op)]]
    BY DEF RedisThrows, BadParameter
  <2>2. FileOf(req[r].op) \in Files
    BY DEF FileOf, Files
  <2>3. SaidTypes'
    BY <1>0, <1>c, <2>1, <2>2 DEF SaidTypes
  <2>4. faults' = faults + 1 /\ crashed' = crashed
    BY DEF RedisThrows, Fault
  <2> QED BY <1>0, <2>3, <2>4 DEF CounterTypes
<1>5. StoreTypes' /\ account \subseteq account'
  BY <1>0, <1>a, SessionWrites DEF RedisThrows, tables, StoreTypes
<1>6. IdleOK(r)' /\ ControlOK(r)' /\ StmtOK(r)'
  <2>1. pc'[r] = "done" /\ thr'[r] = None /\ req' = req /\ sess' = sess /\ stmt' = stmt
    BY <1>0, <1>a DEF RedisThrows, Reply, EndTypes, dbVars
  <2> QED BY <2>1, LocationFacts DEF LocalOK, IdleOK, ControlOK, StmtOK, Is
<1>7. AccountOK(r)'
  <2>1. /\ pc'[r] = "done" /\ resp'[r] = "bad parameter" /\ req' = req /\ got' = got
        /\ wire' = wire /\ account' = account
    BY <1>0, <1>a DEF RedisThrows, Reply, EndTypes, dbVars, tables
  <2> QED BY <1>a, <2>1 DEF LocalOK, AccountOK, RowOf
<1> QED BY <1>1, <1>2, <1>3, <1>4, <1>5, <1>6, <1>7, TypePartsPrimed DEF Good, LocalOK

----------------------------------------------------------------------------
(* Sessions and logins across the requests. *)

\* Of a request that stored a session, or failed to, a step of r changes nothing
\* that counts.
Stays(r) ==
  \/ pc[r] \notin {"expire", "done"}
  \/ pc'[r] = pc[r] /\ resp'[r] = resp[r] /\ req'[r] = req[r] /\ got'[r] = got[r]

SessionInv == SessionOK /\ SessionNamesAccount /\ PermanentHasCause

\* A login is never undone.
LEMMA LoginStable ==
  ASSUME NEW r \in Requests, OthersSame(r),
         pc[r] \in {"expire", "done"} =>
           pc'[r] \in {"expire", "done"} /\ req'[r] = req[r] /\ got'[r] = got[r],
         NEW m, LoggedIn(m)
  PROVE  LoggedIn(m)'
<1>1. PICK s \in Requests : pc[s] \in {"expire", "done"} /\ req[s].op = "auth_pass" /\ got[s] = m
  BY DEF LoggedIn
<1>2. CASE s = r
  BY <1>1, <1>2 DEF LoggedIn
<1>3. CASE s # r
  BY <1>1, <1>3 DEF LoggedIn, OthersSame
<1> QED BY <1>2, <1>3

\* A step that leaves Redis, the sessions and table player alone.
LEMMA QuietStep ==
  ASSUME \A s \in Requests : ControlOK(s), SessionInv, NEW r \in Requests,
         OthersSame(r), Stays(r), account \subseteq account',
         UNCHANGED <<redis, sess, player>>
  PROVE  SessionInv'
<1>1. \A m : LoggedIn(m) => LoggedIn(m)'
  BY LoginStable DEF Stays
<1>2. SessionOK'
  BY <1>1 DEF SessionInv, SessionOK
<1>3. SessionNamesAccount'
  BY DEF SessionInv, SessionNamesAccount
<1>4. PermanentHasCause'
  <2> SUFFICES ASSUME NEW k \in Keys, redis[k] # Absent, ~redis[k].ttl
               PROVE  \E s \in Started("auth_pass")' :
                        /\ got'[s] = redis[k].mbuid
                        /\ pc'[s] = "expire" \/ resp'[s] = "bad parameter"
    BY DEF PermanentHasCause
  <2>1. PICK s \in Started("auth_pass") :
          /\ got[s] = redis[k].mbuid
          /\ pc[s] = "expire" \/ resp[s] = "bad parameter"
    BY DEF SessionInv, PermanentHasCause
  <2>2. s \in Requests /\ pc[s] # "idle" /\ req[s].op = "auth_pass"
    BY DEF Started
  <2>3. pc[s] \in {"expire", "done"}
    BY <2>1, <2>2 DEF ControlOK
  <2>4. pc'[s] = pc[s] /\ resp'[s] = resp[s] /\ req'[s] = req[s] /\ got'[s] = got[s]
    BY <2>2, <2>3 DEF Stays, OthersSame
  <2> QED BY <2>1, <2>2, <2>4 DEF Started
<1> QED BY <1>2, <1>3, <1>4 DEF SessionInv

\* A step of an auth_pass request that writes its session, or may have written
\* it when the command threw.
LEMMA StoreStep ==
  ASSUME TypeOK, \A s \in Requests : LocalOK(s), SessionInv, NEW r \in Requests,
         OthersSame(r), pc[r] \in {"hmset", "expire"}, pc'[r] \in {"expire", "done"},
         redis' \in {redis, HMSET(r), EXPIRE(r)},
         redis' = EXPIRE(r) \/ pc'[r] = "expire" \/ resp'[r] = "bad parameter",
         UNCHANGED <<req, got, sess, account, player>>
  PROVE  SessionInv'
<1>0. /\ got[r] \in Mbuid /\ Key(r) \in Keys
      /\ req[r].op = "auth_pass" /\ RowOf(r, got[r]) \in account
  BY SavesAccount
<1>1. \A m : LoggedIn(m) => LoggedIn(m)'
  BY LoginStable
<1>2. LoggedIn(got[r])'
  BY <1>0 DEF LoggedIn
<1>3. \A k \in Keys : k # Key(r) => redis'[k] = redis[k]
  BY DEF HMSET, EXPIRE, TypeOK
<1>4. redis[Key(r)] # Absent => redis[Key(r)].mbuid = got[r]
  <2> SUFFICES ASSUME redis[Key(r)] # Absent PROVE redis[Key(r)].mbuid = got[r]
    OBVIOUS
  <2>1. redis[Key(r)].mbuid \in Mbuid
    BY <1>0 DEF TypeOK, Entries
  <2> QED BY <1>0, <2>1, KeyFacts DEF SessionInv, SessionNamesAccount, Key
<1>5. redis'[Key(r)] # Absent => redis'[Key(r)].mbuid = got[r]
  <2>1. CASE redis' = redis
    BY <1>4, <2>1
  <2>2. CASE redis' = HMSET(r)
    BY <1>0, <2>2 DEF HMSET, TypeOK
  <2>3. CASE redis' = EXPIRE(r)
    <3>1. redis[Key(r)] = Absent \/ redis[Key(r)] \in [mbuid : Mbuid, ttl : BOOLEAN]
      BY <1>0 DEF TypeOK, Entries
    <3> QED BY <1>0, <1>4, <2>3, <3>1 DEF EXPIRE, TypeOK
  <2> QED BY <2>1, <2>2, <2>3
<1>6. redis' = EXPIRE(r) => redis'[Key(r)] = Absent \/ redis'[Key(r)].ttl
  <2>1. redis[Key(r)] = Absent \/ redis[Key(r)] \in [mbuid : Mbuid, ttl : BOOLEAN]
    BY <1>0 DEF TypeOK, Entries
  <2> QED BY <1>0, <2>1 DEF EXPIRE, TypeOK
<1>7. SessionOK'
  <2>1. ASSUME NEW k \in Keys, redis'[k] # Absent PROVE LoggedIn(redis[k].mbuid)'
    <3>1. CASE k = Key(r)
      BY <1>2, <1>5, <2>1, <3>1 DEF LoggedIn
    <3>2. CASE k # Key(r)
      <4>1. redis'[k] = redis[k] /\ LoggedIn(redis[k].mbuid)
        BY <1>3, <2>1, <3>2 DEF SessionInv, SessionOK
      <4>2. PICK s \in Requests : /\ pc[s] \in {"expire", "done"}
                                  /\ req[s].op = "auth_pass" /\ got[s] = redis[k].mbuid
        BY <4>1 DEF LoggedIn
      <4>3. pc'[s] \in {"expire", "done"}
        BY <4>2 DEF OthersSame
      <4> QED BY <4>1, <4>2, <4>3 DEF LoggedIn
    <3> QED BY <3>1, <3>2
  <2>2. \A s \in Requests : sess'[s] # 0 => LoggedIn(sess[s])'
    BY <1>1 DEF SessionInv, SessionOK
  <2>3. \A p \in player' : LoggedIn(p.mbuid)'
    BY <1>1 DEF SessionInv, SessionOK
  <2> QED BY <2>1, <2>2, <2>3 DEF SessionOK, LoggedIn
<1>8. SessionNamesAccount'
  <2> SUFFICES ASSUME NEW k \in Keys, redis'[k] # Absent
               PROVE  /\ k = genSessionKey(redis'[k].mbuid)
                      /\ \E a \in account : a.mbuid = redis'[k].mbuid
    BY DEF SessionNamesAccount
  <2>1. CASE k = Key(r)
    BY <1>0, <1>5, <2>1 DEF Key, RowOf
  <2>2. CASE k # Key(r)
    BY <1>3, <2>2 DEF SessionInv, SessionNamesAccount
  <2> QED BY <2>1, <2>2
<1>9. PermanentHasCause'
  <2> SUFFICES ASSUME NEW k \in Keys, redis'[k] # Absent, ~redis'[k].ttl
               PROVE  \E s \in Started("auth_pass")' :
                        /\ got'[s] = redis'[k].mbuid
                        /\ pc'[s] = "expire" \/ resp'[s] = "bad parameter"
    BY DEF PermanentHasCause
  <2>1. CASE k = Key(r)
    <3>1. got'[r] = redis'[k].mbuid /\ (pc'[r] = "expire" \/ resp'[r] = "bad parameter")
      BY <1>5, <1>6, <2>1
    <3>2. r \in Started("auth_pass")'
      BY <1>0 DEF Started
    <3> QED BY <3>1, <3>2
  <2>2. CASE k # Key(r)
    <3>1. redis'[k] = redis[k]
      BY <1>3, <2>2
    <3>2. PICK s \in Started("auth_pass") :
            /\ got[s] = redis[k].mbuid
            /\ pc[s] = "expire" \/ resp[s] = "bad parameter"
      BY <3>1 DEF SessionInv, PermanentHasCause
    <3>3. s \in Requests /\ pc[s] # "idle" /\ req[s].op = "auth_pass"
      BY DEF Started
    <3>4. s # r
      BY <2>2, <3>1, <3>2 DEF SessionInv, SessionNamesAccount, Key
    <3>5. pc'[s] = pc[s] /\ resp'[s] = resp[s] /\ req'[s] = req[s] /\ got'[s] = got[s]
      BY <3>3, <3>4 DEF OthersSame
    <3>6. s \in Started("auth_pass")'
      BY <3>3, <3>5 DEF Started
    <3> QED BY <3>1, <3>2, <3>5, <3>6
  <2> QED BY <2>1, <2>2
<1> QED BY <1>7, <1>8, <1>9 DEF SessionInv

\* A session check that succeeds takes over a number that Redis has a login for.
LEMMA CheckStep ==
  ASSUME \A s \in Requests : LocalOK(s), SessionInv, NEW r \in Requests, OthersSame(r),
         CheckSession(r), sess \in [Requests -> Nat],
         \/ sess' = sess
         \/ \E k \in Keys : /\ redis[k] # Absent
                            /\ sess' = [sess EXCEPT ![r] = redis[k].mbuid]
  PROVE  SessionInv'
<1>0. pc[r] = "session" /\ UNCHANGED <<redis, player, account>>
  BY DEF CheckSession, tables
<1>1. \A m : LoggedIn(m) => LoggedIn(m)'
  BY <1>0, LoginStable
<1>2. \A s \in Requests : sess'[s] # 0 => LoggedIn(sess'[s])
  BY DEF SessionInv, SessionOK
<1>3. SessionOK'
  <2>1. \A s \in Requests : \A m : m = sess'[s] /\ m # 0 => LoggedIn(m)'
    BY <1>1, <1>2
  <2>2. \A k \in Keys : redis'[k] # Absent => LoggedIn(redis[k].mbuid)'
    BY <1>0, <1>1 DEF SessionInv, SessionOK
  <2>3. \A p \in player' : LoggedIn(p.mbuid)'
    BY <1>0, <1>1 DEF SessionInv, SessionOK
  <2> QED BY <1>0, <2>1, <2>2, <2>3 DEF SessionOK, LoggedIn
<1>4. SessionNamesAccount'
  BY <1>0 DEF SessionInv, SessionNamesAccount
<1>5. PermanentHasCause'
  <2> SUFFICES ASSUME NEW k \in Keys, redis[k] # Absent, ~redis[k].ttl
               PROVE  \E s \in Started("auth_pass")' :
                        /\ got'[s] = redis[k].mbuid
                        /\ pc'[s] = "expire" \/ resp'[s] = "bad parameter"
    BY <1>0 DEF PermanentHasCause
  <2>1. PICK s \in Started("auth_pass") :
          /\ got[s] = redis[k].mbuid
          /\ pc[s] = "expire" \/ resp[s] = "bad parameter"
    BY DEF SessionInv, PermanentHasCause
  <2>2. s \in Requests /\ s # r /\ pc[s] # "idle" /\ req[s].op = "auth_pass"
    BY <1>0, <2>1 DEF Started, LocalOK, ControlOK
  <2> QED BY <2>1, <2>2 DEF OthersSame, Started
<1> QED BY <1>3, <1>4, <1>5 DEF SessionInv

\* A row that INSERT INTO player adds carries a number the session check found.
LEMMA PlayerStep ==
  ASSUME TypeOK, \A s \in Requests : LocalOK(s), SessionInv, NEW r \in Requests,
         DbInsertPlayer(r)
  PROVE  SessionInv'
<1>1. UNCHANGED <<pc, resp, req, got, sess, account, redis>>
  BY DEF DbInsertPlayer, reqVars
<1>2. sess[r] # 0
  BY MbuidFacts DEF DbInsertPlayer, LocalOK, StmtOK
<1>3. LoggedIn(sess[r])
  BY <1>2 DEF SessionInv, SessionOK
<1>4. \A p \in player' : p \in player \/ p.mbuid = sess[r]
  BY DEF DbInsertPlayer
<1>5. SessionOK'
  BY <1>1, <1>3, <1>4 DEF SessionInv, SessionOK, LoggedIn
<1>6. SessionNamesAccount' /\ PermanentHasCause'
  BY <1>1 DEF SessionInv, SessionNamesAccount, PermanentHasCause, Started
<1> QED BY <1>5, <1>6 DEF SessionInv

\* What a quiet step leaves alone.
QuietVars == <<redis, sess, player>>

\* The steps on a thread that touch no session are quiet.
LEMMA QuietServer ==
  ASSUME TypeOK, NEW r \in Requests,
         SessionCheckThrows(r) \/ GetConn(r) \/ GetConnNull(r)
  PROVE  Stays(r) /\ UNCHANGED QuietVars
BY DEF SessionCheckThrows, GetConn, GetConnNull, sendQuery, Suspend, reqVars, tables,
   QuietVars, Stays, TypeOK

\* Arrivals are quiet.
LEMMA QuietAccept ==
  ASSUME NEW r \in Requests, NEW t \in Threads, NEW q \in Kinds, Accept(r, t, q)
  PROVE  Stays(r) /\ UNCHANGED QuietVars
BY DEF Accept, tables, QuietVars, Stays

\* So is every resumption.
LEMMA QuietResume ==
  ASSUME TypeOK, NEW r \in Requests, NEW t \in Threads, ResumeStep(r, t)
  PROVE  Stays(r) /\ UNCHANGED QuietVars
<1>1. CASE QueryDone(r, t)
  BY <1>1 DEF QueryDone, Resumes, reqVars, tables, QuietVars, Stays
<1>2. CASE ReadRow(r, t)
  BY <1>2 DEF ReadRow, Resumes, tables, QuietVars, Stays
<1>3. CASE ReadNone(r, t)
  BY <1>3 DEF ReadNone, Resumes, reqVars, tables, QuietVars, Stays
<1>4. CASE PurgeRow(r, t)
  BY <1>4 DEF PurgeRow, Resumes, reqVars, tables, QuietVars, Stays
<1>5. CASE PurgeEnd(r, t)
  BY <1>5 DEF PurgeEnd, Resumes, reqVars, tables, QuietVars, Stays
<1>6. CASE InsertAccountDone(r, t)
  BY <1>6 DEF InsertAccountDone, Resumes, tables, QuietVars, Stays
<1>7. CASE InsertPlayerDone(r, t)
  BY <1>7 DEF InsertPlayerDone, Resumes, reqVars, tables, QuietVars, Stays
<1>8. CASE DupEntry(r, t)
  BY <1>8 DEF DupEntry, Resumes, reqVars, tables, QuietVars, Stays
<1>9. CASE IoError(r, t)
  BY <1>9, LocationFacts DEF IoError, reqVars, tables, QuietVars, Stays, Reads, Statements
<1> QED BY <1>1, <1>2, <1>3, <1>4, <1>5, <1>6, <1>7, <1>8, <1>9 DEF ResumeStep

\* So is MySQL, but for the INSERT into player.
LEMMA QuietDb ==
  ASSUME NEW r \in Requests,
         \/ DbSelectAccount(r) \/ DbInsertAccount(r) \/ DbSelectPlayer(r) \/ DbDrop(r)
  PROVE  Stays(r) /\ UNCHANGED QuietVars
BY DEF DbSelectAccount, DbInsertAccount, DbSelectPlayer, DbDrop, reqVars, tables,
   QuietVars, Stays

----------------------------------------------------------------------------
(* The inductive invariant. *)

\* The invariant holds initially.
LEMMA InitIInv == Init => IInv
<1> SUFFICES ASSUME Init PROVE IInv
  OBVIOUS
<1>1. TypeOK
  <2>1. EndTypes
    BY DEF Init, EndTypes, Locations, Replies
  <2>2. ReqTypes
    BY DEF Init, ReqTypes
  <2>3. DbTypes
    BY DEF Init, DbTypes
  <2>4. SaidTypes
    BY DEF Init, SaidTypes, ParamNames
  <2>5. StoreTypes
    BY DEF Init, StoreTypes, Entries
  <2>6. CounterTypes
    BY DEF Init, CounterTypes
  <2> QED BY <2>1, <2>2, <2>3, <2>4, <2>5, <2>6, TypeParts
<1>2. ASSUME NEW r \in Requests PROVE LocalOK(r)
  BY LocationFacts, NoneAssumption
     DEF Init, LocalOK, IdleOK, ControlOK, StmtOK, AccountOK, Statements
<1>3. SessionOK /\ SessionNamesAccount /\ PermanentHasCause
  BY DEF Init, SessionOK, SessionNamesAccount, PermanentHasCause
<1> QED BY <1>1, <1>2, <1>3 DEF IInv

\* A step of r with the properties shown for its action.
LEMMA StepIInv ==
  ASSUME IInv, NEW r \in Requests, Good(r), SessionInv'
  PROVE  IInv'
<1>1. \A s \in Requests : LocalOK(s)'
  BY LocalFrame DEF IInv, Good
<1> QED BY <1>1 DEF IInv, Good, SessionInv

\* A quiet step preserves the invariant.
LEMMA QuietIInv ==
  ASSUME IInv, NEW r \in Requests, Good(r), Stays(r), UNCHANGED QuietVars
  PROVE  IInv'
<1>1. SessionInv /\ (\A s \in Requests : ControlOK(s))
  BY DEF IInv, SessionInv, LocalOK
<1>2. SessionInv'
  BY <1>1, QuietStep DEF Good, QuietVars
<1> QED BY <1>2, StepIInv

\* The stretches that run on a thread, and the synchronous calls.
LEMMA ServerStepIInv ==
  ASSUME IInv, NEW r \in Requests, ServerStep(r)
  PROVE  IInv'
<1>0. TypeOK /\ LocalOK(r) /\ SessionInv /\ (\A s \in Requests : LocalOK(s))
  BY DEF IInv, SessionInv
<1>1. CASE CheckSession(r)
  <2>1. /\ Good(r)
        /\ \/ sess' = sess
           \/ \E k \in Keys : /\ redis[k] # Absent
                              /\ sess' = [sess EXCEPT ![r] = redis[k].mbuid]
    BY <1>0, <1>1, CheckSessionGood
  <2>2. SessionInv'
    BY <1>0, <1>1, <2>1, CheckStep DEF Good, TypeOK
  <2> QED BY <2>1, <2>2, StepIInv
<1>2. CASE SessionCheckThrows(r)
  BY <1>0, <1>2, SessionCheckThrowsGood, QuietServer, QuietIInv
<1>3. CASE GetConn(r)
  BY <1>0, <1>3, GetConnGood, QuietServer, QuietIInv
<1>4. CASE GetConnNull(r)
  BY <1>0, <1>4, GetConnNullGood, QuietServer, QuietIInv
<1>5. CASE Hmset(r)
  <2>1. Good(r)
    BY <1>0, <1>5, HmsetGood
  <2>2. /\ pc[r] = "hmset" /\ pc'[r] = "expire" /\ redis' = HMSET(r)
        /\ UNCHANGED <<req, got, sess, account, player>>
    BY <1>0, <1>5 DEF Hmset, Block, TypeOK, reqVars, tables
  <2>3. SessionInv'
    BY <1>0, <2>1, <2>2, StoreStep DEF Good
  <2> QED BY <2>1, <2>3, StepIInv
<1>6. CASE Expire(r)
  <2>1. Good(r)
    BY <1>0, <1>6, ExpireGood
  <2>2. /\ pc[r] = "expire" /\ pc'[r] = "done" /\ redis' = EXPIRE(r)
        /\ UNCHANGED <<req, got, sess, account, player>>
    BY <1>0, <1>6 DEF Expire, Reply, TypeOK, reqVars, tables
  <2>3. SessionInv'
    BY <1>0, <2>1, <2>2, StoreStep DEF Good
  <2> QED BY <2>1, <2>3, StepIInv
<1>7. CASE RedisThrows(r)
  <2>1. Good(r)
    BY <1>0, <1>7, RedisThrowsGood
  <2>2. /\ pc[r] \in {"hmset", "expire"} /\ pc'[r] = "done" /\ resp'[r] = "bad parameter"
        /\ redis' \in {redis, HMSET(r), EXPIRE(r)}
        /\ UNCHANGED <<req, got, sess, account, player>>
    BY <1>0, <1>7 DEF RedisThrows, BadParameter, Reply, TypeOK, tables
  <2>3. SessionInv'
    BY <1>0, <2>1, <2>2, StoreStep DEF Good
  <2> QED BY <2>1, <2>3, StepIInv
<1> QED BY <1>1, <1>2, <1>3, <1>4, <1>5, <1>6, <1>7 DEF ServerStep

\* The resumptions.
LEMMA ResumeStepIInv ==
  ASSUME IInv, NEW r \in Requests, NEW t \in Threads, ResumeStep(r, t)
  PROVE  IInv'
<1>0. TypeOK /\ LocalOK(r)
  BY DEF IInv
<1>1. Good(r)
  BY <1>0, QueryDoneGood, ReadRowGood, ReadNoneGood, PurgeRowGood, PurgeEndGood,
     InsertAccountDoneGood, InsertPlayerDoneGood, DupEntryGood, IoErrorGood
  DEF ResumeStep
<1> QED BY <1>0, <1>1, QuietResume, QuietIInv

\* MySQL.
LEMMA DbStepIInv ==
  ASSUME IInv, NEW r \in Requests, DbStep(r) \/ DbDrop(r)
  PROVE  IInv'
<1>0. TypeOK /\ LocalOK(r) /\ SessionInv /\ (\A s \in Requests : LocalOK(s))
  BY DEF IInv, SessionInv
<1>1. CASE DbInsertPlayer(r)
  BY <1>0, <1>1, DbInsertPlayerGood, PlayerStep, StepIInv
<1>2. CASE DbSelectAccount(r) \/ DbInsertAccount(r) \/ DbSelectPlayer(r) \/ DbDrop(r)
  <2>1. Good(r)
    BY <1>0, <1>2, DbSelectAccountGood, DbInsertAccountGood, DbSelectPlayerGood, DbDropGood
  <2> QED BY <1>2, <2>1, QuietDb, QuietIInv
<1> QED BY <1>1, <1>2 DEF DbStep

\* Redis dropping a session touches nothing else.
LEMMA SessionExpiresIInv ==
  ASSUME IInv, NEW k \in Keys, SessionExpires(k)
  PROVE  IInv'
<1>1. /\ redis' = [redis EXCEPT ![k] = Absent]
      /\ UNCHANGED <<pc, req, thr, info, sess, got, resp, said, stmt, dup, wire, complete,
                     tls, account, player, nextId, crashed, faults>>
  BY DEF SessionExpires, reqVars, dbVars, tables
<1>2. TypeOK'
  <2>1. redis' \in [Keys -> Entries]
    BY <1>1 DEF IInv, TypeOK, Entries
  <2> QED BY <1>1, <2>1 DEF IInv, TypeOK
<1>3. \A r \in Requests : LocalOK(r)'
  BY <1>1 DEF IInv, LocalOK, IdleOK, ControlOK, StmtOK, AccountOK, RowOf, Is
<1>4. \A j \in Keys : redis'[j] # Absent => redis'[j] = redis[j]
  BY <1>1 DEF IInv, TypeOK
<1>5. SessionOK'
  BY <1>1, <1>4 DEF IInv, SessionOK, LoggedIn
<1>6. SessionNamesAccount'
  BY <1>1, <1>4 DEF IInv, SessionNamesAccount
<1>7. PermanentHasCause'
  <2>1. Started("auth_pass")' = Started("auth_pass")
    BY <1>1 DEF Started
  <2> SUFFICES ASSUME NEW j \in Keys, redis'[j] # Absent, ~redis'[j].ttl
               PROVE  \E s \in Started("auth_pass") :
                        /\ got[s] = redis'[j].mbuid
                        /\ pc[s] = "expire" \/ resp[s] = "bad parameter"
    BY <1>1, <2>1, Zenon DEF PermanentHasCause
  <2>2. redis'[j] = redis[j]
    BY <1>4
  <2>3. redis[j] # Absent /\ ~redis[j].ttl
    BY <2>2
  <2> QED BY <2>2, <2>3 DEF IInv, PermanentHasCause
<1> QED BY <1>2, <1>3, <1>5, <1>6, <1>7 DEF IInv

\* Every step preserves the invariant.
LEMMA NextIInv == IInv /\ [Next]_vars => IInv'
<1> SUFFICES ASSUME IInv, [Next]_vars PROVE IInv'
  OBVIOUS
<1>1. ASSUME NEW r \in Requests, NEW t \in Threads, NEW q \in Kinds, Accept(r, t, q)
      PROVE  IInv'
  <2>1. Good(r)
    BY <1>1, AcceptGood DEF IInv
  <2> QED BY <1>1, <2>1, QuietAccept, QuietIInv
<1>2. CASE UNCHANGED vars
  <2>1. TypeOK'
    BY <1>2 DEF vars, IInv, TypeOK
  <2>2. \A r \in Requests : LocalOK(r)'
    BY <1>2 DEF vars, IInv, LocalOK, IdleOK, ControlOK, StmtOK, AccountOK, RowOf, Is
  <2>3. SessionOK' /\ SessionNamesAccount'
    BY <1>2 DEF vars, IInv, SessionOK, LoggedIn, SessionNamesAccount
  <2>4. PermanentHasCause'
    BY <1>2 DEF vars, IInv, PermanentHasCause, Started
  <2> QED BY <2>1, <2>2, <2>3, <2>4 DEF IInv
<1> QED
  BY <1>1, <1>2, ServerStepIInv, ResumeStepIInv, DbStepIInv, SessionExpiresIInv DEF Next

\* The invariant holds of every behaviour of the server.
THEOREM InvariantHolds == Spec => []IInv
BY InitIInv, NextIInv, PTL DEF Spec

----------------------------------------------------------------------------
(* What it implies. *)

\* Type correctness of the handlers, the tables and the session store.
THEOREM TypeCorrect == Spec => []TypeOK
<1>1. IInv => TypeOK
  BY DEF IInv
<1> QED BY <1>1, InvariantHolds, PTL

\* No session ever names another account than its key, or a missing one
\* (SessionManager::createSession, isValidSession).
THEOREM SessionsNameAccounts == Spec => []SessionNamesAccount
<1>1. IInv => SessionNamesAccount
  BY DEF IInv
<1> QED BY <1>1, InvariantHolds, PTL

\* Only the gap between HMSET and EXPIRE leaves a session without a time to
\* live (RedisConnector::hset).
THEOREM PermanentSessionsHaveCause == Spec => []PermanentHasCause
<1>1. IInv => PermanentHasCause
  BY DEF IInv
<1> QED BY <1>1, InvariantHolds, PTL

\* Every row of table player belongs to an account that logged in, whatever
\* expired, failed or came late in between (controlValueSet).
THEOREM PlayerRowsHaveLogin == Spec => []RowsHaveLogin
<1>1. IInv => RowsHaveLogin
  BY DEF IInv, SessionOK, LoggedIn, RowsHaveLogin, Started
<1> QED BY <1>1, InvariantHolds, PTL

\* A login is acknowledged only with an account of its own user
\* (controlAccountPass), with or without the UNIQUE key.
THEOREM LoginsNameOwnAccount == Spec => []AuthNamesAccount
<1>1. IInv => AuthNamesAccount
  BY DEF IInv, LocalOK, AccountOK, RowOf, AuthNamesAccount, Acked, Started
<1> QED BY <1>1, InvariantHolds, PTL

----------------------------------------------------------------------------
(***************************************************************************)
(* The second half: what the replies say is true, whoever else was served  *)
(* meanwhile.  It rests on IInv above.                                     *)
(***************************************************************************)

\* A handler that has not sent a statement has had no answer; and a statement
\* that MySQL has not executed is being waited for, unless the connection broke.
StatementOK(r) ==
  /\ pc[r] \in {"idle", "session", "getConn"} =>
       stmt[r] = None /\ wire[r] = {} /\ ~dup[r]
  /\ stmt[r] # None =>
       \/ pc[r] = stmt[r]
       \/ pc[r] = "done" /\ resp[r] = "server error"

\* Where a resultset has been read to its end, or there has been none.
CompleteAt == {"idle", "session", "getConn", "insAccount", "insPlayer", "hmset", "expire"}
DrainedOK(r) == pc[r] \in CompleteAt \/ resp[r] = "ok" => complete[r]

\* What a "bad parameter" reply quotes.
QuoteOK(r) ==
  resp[r] = "bad parameter" =>
    /\ said[r] \in {"", ParamOf(req[r].op)}
    /\ req[r].body = "nofield" => said[r] = ParamOf(req[r].op)

\* Every copy of paramStringForDev holds nothing or the parameter of the
\* handlers of its source file, whichever of them ran on the thread.
QuotesOK == \A t \in Threads, op \in Ops : tls[t][FileOf(op)] \in {"", ParamOf(op)}

ReplyOK(r) == StatementOK(r) /\ DrainedOK(r) /\ QuoteOK(r)

----------------------------------------------------------------------------
(* The value_set requests and their rows. *)

Setter(r) == pc[r] # "idle" /\ req[r].op = "value_set"
RowSet(r) == [mbuid |-> sess[r], myvalue |-> req[r].arg, player_name |-> None]

\* MySQL has executed r's INSERT, and its row is in the table.
Owns(r) ==
  /\ Setter(r) /\ pc[r] \in {"insPlayer", "done"}
  /\ stmt[r] = None
  /\ RowSet(r) \in player

\* It was r's own INSERT that put it there.
Wins(r) == Setter(r) /\ (wire[r] # {} \/ resp[r] = "ok")

\* r was told that its value is taken.
Refused(r) == Setter(r) /\ (dup[r] \/ resp[r] = "exists myvalue")

Rival(r) == \E s \in Requests \ {r} : Owns(s) /\ req[s].arg = req[r].arg

\* Every row is a request's, every winner has its row and no rival, and every
\* refusal is a rival's doing.
RowsOK ==
  /\ \A p \in player : \E r \in Requests : Owns(r) /\ p = RowSet(r)
  /\ \A r \in Requests : Wins(r) => Owns(r)
  /\ \A r, s \in Requests : Wins(r) /\ Wins(s) /\ req[r].arg = req[s].arg => r = s
  /\ \A r \in Requests : Refused(r) => Rival(r)
  /\ \A r \in Requests : resp[r] = "exists myvalue" => Setter(r)

\* Account numbers are not used twice and, if there is a UNIQUE key, neither are
\* the users.
AccountsOK ==
  /\ \A a \in account : a.mbuid < nextId
  /\ \A a, b \in account : a.mbuid = b.mbuid => a = b
  /\ UniqueUserId => \A a, b \in account : a.user = b.user => a = b

RInv == /\ \A r \in Requests : ReplyOK(r)
        /\ QuotesOK
        /\ RowsOK
        /\ AccountsOK

----------------------------------------------------------------------------
(* A step of one request. *)

\* The variables OthersSame does not speak of.
OthersToo(r) ==
  \A s \in Requests \ {r} :
    dup'[s] = dup[s] /\ complete'[s] = complete[s] /\ said'[s] = said[s]

\* A step of r that preserves what is claimed of r preserves it of all.
LEMMA ReplyFrame ==
  ASSUME \A s \in Requests : ReplyOK(s), NEW r \in Requests, OthersSame(r), OthersToo(r),
         ReplyOK(r)'
  PROVE  \A s \in Requests : ReplyOK(s)'
<1> SUFFICES ASSUME NEW s \in Requests, s # r PROVE ReplyOK(s)'
  OBVIOUS
<1>1. ReplyOK(s)
  OBVIOUS
<1>2. StatementOK(s)' /\ DrainedOK(s)'
  BY <1>1 DEF ReplyOK, StatementOK, DrainedOK, CompleteAt, OthersSame, OthersToo
<1>3. QuoteOK(s)'
  BY <1>1 DEF ReplyOK, QuoteOK, OthersSame, OthersToo
<1> QED BY <1>2, <1>3 DEF ReplyOK

\* What a step of r must not do to the rows: take r's own away, make a winner,
\* or refuse r.
RowsStay(r) ==
  /\ player' = player
  /\ Owns(r) => Owns(r)' /\ RowSet(r)' = RowSet(r) /\ req'[r] = req[r]
  /\ Wins(r)' => Wins(r)
  /\ Refused(r)' => Refused(r)
  /\ resp'[r] = "exists myvalue" => Setter(r)'
  /\ Setter(r) => req'[r] = req[r]

\* Such a step leaves the rows in order.
LEMMA RowsFrame ==
  ASSUME RowsOK, NEW r \in Requests, OthersSame(r), OthersToo(r), RowsStay(r)
  PROVE  RowsOK'
<1>1. \A s \in Requests : Owns(s) => Owns(s)' /\ RowSet(s)' = RowSet(s) /\ req'[s] = req[s]
  BY DEF RowsStay, OthersSame, Owns, Setter, RowSet
<1>2. \A s \in Requests : Wins(s)' => Wins(s) /\ req'[s] = req[s]
  BY DEF RowsStay, OthersSame, Wins, Setter
<1>3. \A s \in Requests : Refused(s)' => Refused(s) /\ req'[s] = req[s]
  BY DEF RowsStay, OthersSame, OthersToo, Refused, Setter
<1>4. \A s \in Requests : resp'[s] = "exists myvalue" => Setter(s)'
  BY ZenonT(60) DEF RowsStay, OthersSame, RowsOK, Setter
<1>5. \A s \in Requests : Rival(s) /\ req'[s] = req[s] => Rival(s)'
  BY <1>1 DEF Rival
<1>6. \A p \in player' : \E s \in Requests : Owns(s)' /\ p = RowSet(s)'
  BY <1>1 DEF RowsOK, RowsStay
<1> QED BY <1>1, <1>2, <1>3, <1>4, <1>5, <1>6 DEF RowsOK

\* A request of another kind does nothing to them.
LEMMA NotSetter ==
  ASSUME NEW r \in Requests, pc[r] # "idle", req[r].op # "value_set",
         req'[r] = req[r], player' = player, resp'[r] # "exists myvalue"
  PROVE  RowsStay(r)
  BY DEF RowsStay, Owns, Wins, Refused, Setter

----------------------------------------------------------------------------
(* The actions, one by one. *)
\* What is proved of r's step, action by action.
Fair(r) == ReplyOK(r)' /\ OthersToo(r) /\ RowsStay(r)

\* The facts of IInv about r that the steps below use.
LEMMA WhereFacts ==
  ASSUME NEW r \in Requests, LocalOK(r)
  PROVE  /\ resp[r] # "-" => pc[r] = "done"
         /\ pc[r] \in {"selAccount", "insAccount", "hmset", "expire"} =>
              req[r].op = "auth_pass" /\ req[r].body = "ok"
         /\ pc[r] = "insPlayer" => req[r].op = "value_set"
         /\ pc[r] = "selPlayer" => req[r].op = "value_get"
         /\ pc[r] \in Reads => req[r].op \in {"auth_pass", "value_get"}
         /\ stmt[r] \in {"selAccount", "insAccount"} => req[r].op = "auth_pass"
         /\ stmt[r] = "selPlayer" => req[r].op = "value_get"
         /\ stmt[r] = "insPlayer" => req[r].op = "value_set"
  BY DEF LocalOK, ControlOK, StmtOK, Is

\* A request whose statement is still to be executed has had no reply but, at
\* most, "server error".
LEMMA PendingFacts ==
  ASSUME TypeOK, NEW r \in Requests, LocalOK(r), ReplyOK(r), stmt[r] # None
  PROVE  pc[r] # "idle" /\ resp[r] \in {"-", "server error"}
<1>1. stmt[r] \in Statements
  BY DEF TypeOK
<1> QED BY <1>1, WhereFacts, LocationFacts DEF ReplyOK, StatementOK

\* HGETALL throws: no reply.
LEMMA SessionCheckThrowsFair ==
  ASSUME TypeOK, NEW r \in Requests, LocalOK(r), ReplyOK(r), SessionCheckThrows(r)
  PROVE  Fair(r)
<1>0. EndTypes /\ DbTypes /\ SaidTypes
  BY TypeParts
<1>1. ReplyOK(r)'
  BY <1>0, WhereFacts, LocationFacts, NoneAssumption
  DEF SessionCheckThrows, Fault, reqVars, dbVars, tables, EndTypes, DbTypes, ReplyOK, StatementOK,
      DrainedOK, QuoteOK, CompleteAt
<1>2. OthersToo(r)
  BY <1>0 DEF SessionCheckThrows, Fault, reqVars, dbVars, tables, EndTypes, DbTypes, OthersToo
<1>3. RowsStay(r)
  BY <1>0, WhereFacts, LocationFacts
  DEF SessionCheckThrows, Fault, reqVars, dbVars, tables, EndTypes, DbTypes, ReplyOK, StatementOK,
      RowsStay, Owns, Wins, Refused, Setter, RowSet
<1> QED BY <1>1, <1>2, <1>3 DEF Fair

\* The first statement goes out.
LEMMA GetConnFair ==
  ASSUME TypeOK, NEW r \in Requests, LocalOK(r), ReplyOK(r), GetConn(r)
  PROVE  Fair(r)
<1>0. EndTypes /\ DbTypes /\ SaidTypes
  BY TypeParts
<1>a. PICK sql \in Statements :
        pc' = [pc EXCEPT ![r] = sql] /\ stmt' = [stmt EXCEPT ![r] = sql]
  <2>1. req[r].op \in {"auth_pass", "value_set", "value_get"}
    BY DEF GetConn, LocalOK, ControlOK, Is
  <2>2. FirstQuery(req[r].op) \in Statements
    BY <2>1 DEF FirstQuery, Statements
  <2> QED BY <2>2 DEF GetConn, sendQuery, Suspend
<1>b. /\ pc'[r] = stmt'[r] /\ stmt'[r] \in Statements /\ complete'[r]
      /\ resp'[r] = "-"
  BY <1>0, <1>a, WhereFacts DEF GetConn, Finished, reqVars, sendQuery, Suspend, EndTypes, DbTypes,
     ReplyOK, DrainedOK, CompleteAt
<1>1. ReplyOK(r)'
  BY <1>b, LocationFacts DEF ReplyOK, StatementOK, DrainedOK, QuoteOK
<1>2. OthersToo(r)
  BY <1>0 DEF GetConn, sendQuery, Suspend, reqVars, tables, FirstQuery, EndTypes, DbTypes, OthersToo
<1>3. RowsStay(r)
  BY <1>0, WhereFacts, LocationFacts
  DEF GetConn, sendQuery, Suspend, reqVars, tables, FirstQuery, EndTypes, DbTypes, ReplyOK, StatementOK,
      RowsStay, Owns, Wins, Refused, Setter, RowSet
<1> QED BY <1>1, <1>2, <1>3 DEF Fair

\* The process dies.
LEMMA GetConnNullFair ==
  ASSUME TypeOK, NEW r \in Requests, LocalOK(r), ReplyOK(r), GetConnNull(r)
  PROVE  Fair(r)
<1>0. EndTypes /\ DbTypes /\ SaidTypes
  BY TypeParts
<1>1. ReplyOK(r)'
  BY <1>0, WhereFacts, LocationFacts, NoneAssumption
  DEF GetConnNull, Fault, reqVars, dbVars, tables, EndTypes, DbTypes, ReplyOK, StatementOK,
      DrainedOK, QuoteOK, CompleteAt
<1>2. OthersToo(r)
  BY <1>0 DEF GetConnNull, Fault, reqVars, dbVars, tables, EndTypes, DbTypes, OthersToo
<1>3. RowsStay(r)
  BY <1>0, WhereFacts, LocationFacts
  DEF GetConnNull, Fault, reqVars, dbVars, tables, EndTypes, DbTypes, ReplyOK, StatementOK,
      RowsStay, Owns, Wins, Refused, Setter, RowSet
<1> QED BY <1>1, <1>2, <1>3 DEF Fair

\* HMSET returns.
LEMMA HmsetFair ==
  ASSUME TypeOK, NEW r \in Requests, LocalOK(r), ReplyOK(r), Hmset(r)
  PROVE  Fair(r)
<1>0. EndTypes /\ DbTypes /\ SaidTypes
  BY TypeParts
<1>a. stmt[r] = None
  BY <1>0, LocationFacts DEF Hmset, DbTypes, ReplyOK, StatementOK
<1>1. ReplyOK(r)'
  BY <1>0, <1>a, WhereFacts, LocationFacts, NoneAssumption
  DEF Hmset, Block, reqVars, dbVars, tables, EndTypes, DbTypes, ReplyOK, StatementOK,
      DrainedOK, QuoteOK, CompleteAt
<1>2. OthersToo(r)
  BY <1>0 DEF Hmset, Block, reqVars, dbVars, tables, EndTypes, DbTypes, OthersToo
<1>3. RowsStay(r)
  BY <1>0, WhereFacts, LocationFacts, NotSetter
  DEF Hmset, Block, reqVars, dbVars, tables, EndTypes, DbTypes
<1> QED BY <1>1, <1>2, <1>3 DEF Fair

\* EXPIRE returns.
LEMMA ExpireFair ==
  ASSUME TypeOK, NEW r \in Requests, LocalOK(r), ReplyOK(r), Expire(r)
  PROVE  Fair(r)
<1>0. EndTypes /\ DbTypes /\ SaidTypes
  BY TypeParts
<1>a. stmt[r] = None
  BY <1>0, LocationFacts DEF Expire, DbTypes, ReplyOK, StatementOK
<1>1. ReplyOK(r)'
  BY <1>0, <1>a, WhereFacts, LocationFacts, NoneAssumption
  DEF Expire, Reply, reqVars, dbVars, tables, EndTypes, DbTypes, ReplyOK, StatementOK,
      DrainedOK, QuoteOK, CompleteAt
<1>2. OthersToo(r)
  BY <1>0 DEF Expire, Reply, reqVars, dbVars, tables, EndTypes, DbTypes, OthersToo
<1>3. RowsStay(r)
  BY <1>0, WhereFacts, LocationFacts, NotSetter
  DEF Expire, Reply, reqVars, dbVars, tables, EndTypes, DbTypes
<1> QED BY <1>1, <1>2, <1>3 DEF Fair

\* The SELECT has been answered.
LEMMA QueryDoneFair ==
  ASSUME TypeOK, NEW r \in Requests, NEW t \in Threads, LocalOK(r), ReplyOK(r), QueryDone(r, t)
  PROVE  Fair(r)
<1>0. EndTypes /\ DbTypes /\ SaidTypes
  BY TypeParts
<1>1. ReplyOK(r)'
  BY <1>0, WhereFacts, LocationFacts, NoneAssumption
  DEF QueryDone, Resumes, Suspend, reqVars, dbVars, tables, EndTypes, DbTypes, ReplyOK, StatementOK,
      DrainedOK, QuoteOK, CompleteAt
<1>2. OthersToo(r)
  BY <1>0 DEF QueryDone, Resumes, Suspend, reqVars, dbVars, tables, EndTypes, DbTypes, OthersToo
<1>3. RowsStay(r)
  BY <1>0, WhereFacts, LocationFacts, NotSetter
  DEF QueryDone, Resumes, Suspend, reqVars, dbVars, tables, EndTypes, DbTypes
<1> QED BY <1>1, <1>2, <1>3 DEF Fair

\* readOne returns a row.
LEMMA ReadRowFair ==
  ASSUME TypeOK, NEW r \in Requests, NEW t \in Threads, LocalOK(r), ReplyOK(r), ReadRow(r, t)
  PROVE  Fair(r)
<1>0. EndTypes /\ DbTypes /\ SaidTypes
  BY TypeParts
<1>1. ReplyOK(r)'
  BY <1>0, WhereFacts, LocationFacts, NoneAssumption
  DEF ReadRow, Resumes, Suspend, tables, EndTypes, DbTypes, ReplyOK, StatementOK,
      DrainedOK, QuoteOK, CompleteAt
<1>2. OthersToo(r)
  BY <1>0 DEF ReadRow, Resumes, Suspend, tables, EndTypes, DbTypes, OthersToo
<1>3. RowsStay(r)
  BY <1>0, WhereFacts, LocationFacts, NotSetter
  DEF ReadRow, Resumes, Suspend, tables, EndTypes, DbTypes
<1> QED BY <1>1, <1>2, <1>3 DEF Fair

\* readOne meets the end: the resultset is complete before the INSERT.
LEMMA ReadNoneFair ==
  ASSUME TypeOK, NEW r \in Requests, NEW t \in Threads, LocalOK(r), ReplyOK(r), ReadNone(r, t)
  PROVE  Fair(r)
<1>0. EndTypes /\ DbTypes /\ SaidTypes
  BY TypeParts
<1>1. ReplyOK(r)'
  BY <1>0, WhereFacts, LocationFacts, NoneAssumption
  DEF ReadNone, Resumes, sendQuery, Suspend, reqVars, tables, EndTypes, DbTypes, ReplyOK, StatementOK,
      DrainedOK, QuoteOK, CompleteAt
<1>2. OthersToo(r)
  BY <1>0 DEF ReadNone, Resumes, sendQuery, Suspend, reqVars, tables, EndTypes, DbTypes, OthersToo
<1>3. RowsStay(r)
  BY <1>0, WhereFacts, LocationFacts, NotSetter
  DEF ReadNone, Resumes, sendQuery, Suspend, reqVars, tables, EndTypes, DbTypes
<1> QED BY <1>1, <1>2, <1>3 DEF Fair

\* purgeResult skips a row.
LEMMA PurgeRowFair ==
  ASSUME TypeOK, NEW r \in Requests, NEW t \in Threads, LocalOK(r), ReplyOK(r), PurgeRow(r, t)
  PROVE  Fair(r)
<1>0. EndTypes /\ DbTypes /\ SaidTypes
  BY TypeParts
<1>1. ReplyOK(r)'
  BY <1>0, WhereFacts, LocationFacts, NoneAssumption
  DEF PurgeRow, Resumes, Suspend, reqVars, tables, EndTypes, DbTypes, ReplyOK, StatementOK,
      DrainedOK, QuoteOK, CompleteAt
<1>2. OthersToo(r)
  BY <1>0 DEF PurgeRow, Resumes, Suspend, reqVars, tables, EndTypes, DbTypes, OthersToo
<1>3. RowsStay(r)
  BY <1>0, WhereFacts, LocationFacts, NotSetter
  DEF PurgeRow, Resumes, Suspend, reqVars, tables, EndTypes, DbTypes
<1> QED BY <1>1, <1>2, <1>3 DEF Fair

\* purgeResult meets the end.
LEMMA PurgeEndFair ==
  ASSUME TypeOK, NEW r \in Requests, NEW t \in Threads, LocalOK(r), ReplyOK(r), PurgeEnd(r, t)
  PROVE  Fair(r)
<1>0. EndTypes /\ DbTypes /\ SaidTypes
  BY TypeParts
<1>1. ReplyOK(r)'
  BY <1>0, WhereFacts, LocationFacts, NoneAssumption, ZenonT(60)
  DEF PurgeEnd, Resumes, Block, Reply, reqVars, tables, EndTypes, DbTypes, ReplyOK, StatementOK,
      DrainedOK, QuoteOK, CompleteAt
<1>2. OthersToo(r)
  BY <1>0 DEF PurgeEnd, Resumes, Block, Reply, reqVars, tables, EndTypes, DbTypes, OthersToo
<1>3. RowsStay(r)
  BY <1>0, WhereFacts, LocationFacts, NotSetter, ZenonT(60)
  DEF PurgeEnd, Resumes, Block, Reply, reqVars, tables, EndTypes, DbTypes
<1> QED BY <1>1, <1>2, <1>3 DEF Fair

\* last_insert_id has arrived.
LEMMA InsertAccountDoneFair ==
  ASSUME TypeOK, NEW r \in Requests, NEW t \in Threads, LocalOK(r), ReplyOK(r), InsertAccountDone(r, t)
  PROVE  Fair(r)
<1>0. EndTypes /\ DbTypes /\ SaidTypes
  BY TypeParts
<1>1. ReplyOK(r)'
  BY <1>0, WhereFacts, LocationFacts, NoneAssumption
  DEF InsertAccountDone, Resumes, Block, tables, EndTypes, DbTypes, ReplyOK, StatementOK,
      DrainedOK, QuoteOK, CompleteAt
<1>2. OthersToo(r)
  BY <1>0 DEF InsertAccountDone, Resumes, Block, tables, EndTypes, DbTypes, OthersToo
<1>3. RowsStay(r)
  BY <1>0, WhereFacts, LocationFacts, NotSetter
  DEF InsertAccountDone, Resumes, Block, tables, EndTypes, DbTypes
<1> QED BY <1>1, <1>2, <1>3 DEF Fair

\* value_set replies ok only to the request whose row was inserted.
LEMMA InsertPlayerDoneFair ==
  ASSUME TypeOK, NEW r \in Requests, NEW t \in Threads, LocalOK(r), ReplyOK(r), InsertPlayerDone(r, t)
  PROVE  Fair(r)
<1>0. EndTypes /\ DbTypes /\ SaidTypes
  BY TypeParts
<1>1. ReplyOK(r)'
  BY <1>0, WhereFacts, LocationFacts, NoneAssumption
  DEF InsertPlayerDone, Resumes, Reply, reqVars, tables, EndTypes, DbTypes, ReplyOK, StatementOK,
      DrainedOK, QuoteOK, CompleteAt
<1>2. OthersToo(r)
  BY <1>0 DEF InsertPlayerDone, Resumes, Reply, reqVars, tables, EndTypes, DbTypes, OthersToo
<1>3. RowsStay(r)
  BY <1>0, WhereFacts, LocationFacts
  DEF InsertPlayerDone, Resumes, Reply, reqVars, tables, EndTypes, DbTypes, ReplyOK, StatementOK,
      RowsStay, Owns, Wins, Refused, Setter, RowSet
<1> QED BY <1>1, <1>2, <1>3 DEF Fair

\* value_set's reply to dup_entry repeats what MySQL said.
LEMMA DupEntryFair ==
  ASSUME TypeOK, NEW r \in Requests, NEW t \in Threads, LocalOK(r), ReplyOK(r), DupEntry(r, t)
  PROVE  Fair(r)
<1>0. EndTypes /\ DbTypes /\ SaidTypes
  BY TypeParts
<1>1. ReplyOK(r)'
  BY <1>0, WhereFacts, LocationFacts, NoneAssumption
  DEF DupEntry, Resumes, Reply, reqVars, dbVars, tables, EndTypes, DbTypes, ReplyOK, StatementOK,
      DrainedOK, QuoteOK, CompleteAt
<1>2. OthersToo(r)
  BY <1>0 DEF DupEntry, Resumes, Reply, reqVars, dbVars, tables, EndTypes, DbTypes, OthersToo
<1>3. RowsStay(r)
  BY <1>0, WhereFacts, LocationFacts
  DEF DupEntry, Resumes, Reply, reqVars, dbVars, tables, EndTypes, DbTypes, ReplyOK, StatementOK,
      RowsStay, Owns, Wins, Refused, Setter, RowSet
<1> QED BY <1>1, <1>2, <1>3 DEF Fair

\* The connection breaks; the statement may yet be executed.
LEMMA IoErrorFair ==
  ASSUME TypeOK, NEW r \in Requests, NEW t \in Threads, LocalOK(r), ReplyOK(r), IoError(r, t)
  PROVE  Fair(r)
<1>0. EndTypes /\ DbTypes /\ SaidTypes
  BY TypeParts
<1>1. ReplyOK(r)'
  BY <1>0, WhereFacts, LocationFacts, NoneAssumption
  DEF IoError, Fault, Reply, reqVars, dbVars, tables, EndTypes, DbTypes, ReplyOK, StatementOK,
      DrainedOK, QuoteOK, CompleteAt
<1>2. OthersToo(r)
  BY <1>0 DEF IoError, Fault, Reply, reqVars, dbVars, tables, EndTypes, DbTypes, OthersToo
<1>3. RowsStay(r)
  BY <1>0, WhereFacts, LocationFacts
  DEF IoError, Fault, Reply, reqVars, dbVars, tables, EndTypes, DbTypes, ReplyOK, StatementOK,
      RowsStay, Owns, Wins, Refused, Setter, RowSet
<1> QED BY <1>1, <1>2, <1>3 DEF Fair

\* MySQL answers a SELECT: the resultset is not complete.
LEMMA DbSelectAccountFair ==
  ASSUME TypeOK, NEW r \in Requests, LocalOK(r), ReplyOK(r), DbSelectAccount(r)
  PROVE  Fair(r)
<1>0. EndTypes /\ DbTypes /\ SaidTypes
  BY TypeParts
<1>1. ReplyOK(r)'
  BY <1>0, WhereFacts, LocationFacts, NoneAssumption
  DEF DbSelectAccount, reqVars, tables, EndTypes, DbTypes, ReplyOK, StatementOK,
      DrainedOK, QuoteOK, CompleteAt
<1>2. OthersToo(r)
  BY <1>0 DEF DbSelectAccount, reqVars, tables, EndTypes, DbTypes, OthersToo
<1>a. pc[r] # "idle" /\ resp[r] # "exists myvalue"
  BY PendingFacts, NoneAssumption, LocationFacts DEF DbSelectAccount
<1>3. RowsStay(r)
  BY <1>0, <1>a, WhereFacts, LocationFacts, NotSetter
  DEF DbSelectAccount, reqVars, tables, EndTypes, DbTypes
<1> QED BY <1>1, <1>2, <1>3 DEF Fair

\* MySQL answers a SELECT: the resultset is not complete.
LEMMA DbSelectPlayerFair ==
  ASSUME TypeOK, NEW r \in Requests, LocalOK(r), ReplyOK(r), DbSelectPlayer(r)
  PROVE  Fair(r)
<1>0. EndTypes /\ DbTypes /\ SaidTypes
  BY TypeParts
<1>1. ReplyOK(r)'
  BY <1>0, WhereFacts, LocationFacts, NoneAssumption, ZenonT(60)
  DEF DbSelectPlayer, reqVars, tables, EndTypes, DbTypes, ReplyOK, StatementOK,
      DrainedOK, QuoteOK, CompleteAt
<1>2. OthersToo(r)
  BY <1>0 DEF DbSelectPlayer, reqVars, tables, EndTypes, DbTypes, OthersToo
<1>a. pc[r] # "idle" /\ resp[r] # "exists myvalue"
  BY PendingFacts, NoneAssumption, LocationFacts DEF DbSelectPlayer
<1>3. RowsStay(r)
  BY <1>0, <1>a, WhereFacts, LocationFacts, NotSetter
  DEF DbSelectPlayer, reqVars, tables, EndTypes, DbTypes
<1> QED BY <1>1, <1>2, <1>3 DEF Fair

\* MySQL inserts an account, or finds the user's.
LEMMA DbInsertAccountFair ==
  ASSUME TypeOK, NEW r \in Requests, LocalOK(r), ReplyOK(r), DbInsertAccount(r)
  PROVE  Fair(r)
<1>0. EndTypes /\ DbTypes /\ SaidTypes
  BY TypeParts
<1>1. ReplyOK(r)'
  BY <1>0, WhereFacts, LocationFacts, NoneAssumption, ZenonT(60)
  DEF DbInsertAccount, reqVars, EndTypes, DbTypes, ReplyOK, StatementOK,
      DrainedOK, QuoteOK, CompleteAt
<1>2. OthersToo(r)
  BY <1>0 DEF DbInsertAccount, reqVars, EndTypes, DbTypes, OthersToo
<1>a. pc[r] # "idle" /\ resp[r] # "exists myvalue"
  BY PendingFacts, NoneAssumption, LocationFacts DEF DbInsertAccount
<1>3. RowsStay(r)
  BY <1>0, <1>a, WhereFacts, LocationFacts, NotSetter
  DEF DbInsertAccount, reqVars, EndTypes, DbTypes
<1> QED BY <1>1, <1>2, <1>3 DEF Fair

\* A statement is dropped.
LEMMA DbDropFair ==
  ASSUME TypeOK, NEW r \in Requests, LocalOK(r), ReplyOK(r), DbDrop(r)
  PROVE  Fair(r)
<1>0. EndTypes /\ DbTypes /\ SaidTypes
  BY TypeParts
<1>1. ReplyOK(r)'
  BY <1>0, WhereFacts, LocationFacts, NoneAssumption
  DEF DbDrop, reqVars, tables, EndTypes, DbTypes, ReplyOK, StatementOK,
      DrainedOK, QuoteOK, CompleteAt
<1>2. OthersToo(r)
  BY <1>0 DEF DbDrop, reqVars, tables, EndTypes, DbTypes, OthersToo
<1>3. RowsStay(r)
  BY <1>0, PendingFacts, WhereFacts, LocationFacts
  DEF DbDrop, reqVars, tables, EndTypes, DbTypes, ReplyOK, StatementOK,
      RowsStay, Owns, Wins, Refused, Setter, RowSet
<1> QED BY <1>1, <1>2, <1>3 DEF Fair

----------------------------------------------------------------------------
(* The steps that quote paramStringForDev. *)

\* Parsing a body ends in a reply that quotes what it has just noted, in another
\* reply, or in getConn; the note is that of the handler's own source file.
LEMMA ParseQuotes ==
  ASSUME EndTypes, SaidTypes, QuotesOK, NEW r \in Requests, NEW t \in Threads,
         NEW q, q.op \in Ops, ParseBody(r, t, q)
  PROVE  /\ \/ Reply(r, "invalid json-string") /\ UNCHANGED said
            \/ Reply(r, "server error") /\ UNCHANGED said
            \/ Reply(r, "bad parameter") /\ said' = [said EXCEPT ![r] = ParamOf(q.op)]
            \/ q.body = "ok" /\ Block(r, t, "getConn") /\ UNCHANGED said
         /\ QuotesOK'
<1>0. FileOf(q.op) \in Files
  BY DEF FileOf, Files
<1>1. CASE q.body = "garbled"
  BY <1>1 DEF ParseBody, QuotesOK
<1>2. CASE q.body # "garbled"
  <2> DEFINE f == FileOf(q.op)
             p == ParamOf(q.op)
             row == [tls[t] EXCEPT ![f] = p]
  <2>0. /\ \/ q.body = "nofield" /\ BadParameter(r, t, q.op)
           \/ q.body = "badtype" /\ Reply(r, "server error") /\ UNCHANGED said
           \/ q.body = "ok" /\ Block(r, t, "getConn") /\ UNCHANGED said
        /\ tls' = [tls EXCEPT ![t][FileOf(q.op)] = ParamOf(q.op)]
    BY <1>2 DEF ParseBody
  <2>1. tls' = [tls EXCEPT ![t] = row]
    BY <2>0
  <2>2. tls[t] \in [Files -> ParamNames] /\ tls \in [Threads -> [Files -> ParamNames]]
    BY DEF SaidTypes
  <2>3. row[f] = p /\ \A g \in Files \ {f} : row[g] = tls[t][g]
    BY <1>0, <2>2
  <2>4. tls'[t] = row /\ \A u \in Threads \ {t} : tls'[u] = tls[u]
    BY <2>1, <2>2
  <2>5. QuotesOK'
    <3> SUFFICES ASSUME NEW u \in Threads, NEW op \in Ops
                 PROVE  tls'[u][FileOf(op)] \in {"", ParamOf(op)}
      BY DEF QuotesOK
    <3>1. tls[u][FileOf(op)] \in {"", ParamOf(op)} /\ FileOf(op) \in Files
      BY DEF QuotesOK, FileOf, Files
    <3>2. CASE u # t
      BY <2>4, <3>1, <3>2
    <3>3. CASE u = t /\ FileOf(op) # f
      BY <2>3, <2>4, <3>1, <3>3
    <3>4. CASE u = t /\ FileOf(op) = f
      <4>1. ParamOf(op) = p
        BY <3>4 DEF FileOf, ParamOf
      <4> QED BY <2>3, <2>4, <3>4, <4>1
    <3> QED BY <3>2, <3>3, <3>4
  <2>6. tls'[t][FileOf(q.op)] = ParamOf(q.op)
    BY <2>3, <2>4
  <2> QED BY <2>0, <2>5, <2>6 DEF BadParameter
<1> QED BY <1>1, <1>2

\* A request that was not sent to MySQL is replied to, or waits in the session
\* check or for a connection.
Unasked(r, q) ==
  \/ \E msg \in Replies \ {"-", "ok", "bad parameter", "exists myvalue"} :
       Reply(r, msg) /\ UNCHANGED said
  \/ Reply(r, "bad parameter") /\ said' = [said EXCEPT ![r] = ParamOf(q.op)]
  \/ \E t \in Threads, at \in {"session", "getConn"} : Block(r, t, at) /\ UNCHANGED said

\* That is the case as soon as a handler starts.
LEMMA UnaskedFair ==
  ASSUME TypeOK, NEW r \in Requests, LocalOK(r), ReplyOK(r), NEW q,
         pc[r] \in {"idle", "session"}, req'[r] = q, Unasked(r, q),
         pc[r] = "session" => req[r] = q,
         UNCHANGED <<player, stmt, wire, dup, complete>>
  PROVE  Fair(r)
<1>0. EndTypes /\ DbTypes /\ SaidTypes
  BY TypeParts
<1>1. resp[r] = "-"
  BY WhereFacts
<1>2. /\ stmt'[r] = None /\ wire'[r] = {} /\ ~dup'[r] /\ complete'[r]
  BY DEF ReplyOK, StatementOK, DrainedOK, CompleteAt
<1>3. /\ pc'[r] \in {"done", "session", "getConn"}
      /\ resp'[r] # "ok" /\ resp'[r] # "exists myvalue"
      /\ resp'[r] = "bad parameter" => said'[r] = ParamOf(q.op)
      /\ \A s \in Requests \ {r} : said'[s] = said[s]
  BY <1>0, <1>1 DEF Unasked, Reply, Block, EndTypes, SaidTypes
<1>4. ReplyOK(r)'
  BY <1>2, <1>3 DEF ReplyOK, StatementOK, DrainedOK, QuoteOK
<1>5. OthersToo(r)
  BY <1>3 DEF OthersToo
<1>6. RowsStay(r)
  BY <1>2, <1>3 DEF RowsStay, Owns, Wins, Refused, Setter
<1> QED BY <1>4, <1>5, <1>6 DEF Fair

\* A request arrives.
LEMMA AcceptFair ==
  ASSUME TypeOK, NEW r \in Requests, NEW t \in Threads, NEW q \in Kinds,
         LocalOK(r), ReplyOK(r), QuotesOK, Accept(r, t, q)
  PROVE  Fair(r) /\ QuotesOK'
<1>0. EndTypes /\ SaidTypes /\ ReqTypes
  BY TypeParts
<1>1. q.op \in Ops
  BY KindFacts
<1>2. Unasked(r, q) /\ QuotesOK'
  <2>1. {"hello", "not found session", "invalid json-string", "server error"}
          \subseteq Replies \ {"-", "ok", "bad parameter", "exists myvalue"}
    BY DEF Replies
  <2>2. CASE ParseBody(r, t, q)
    BY <1>0, <1>1, <2>1, <2>2, ParseQuotes DEF Unasked
  <2>3. CASE \/ Reply(r, "hello") /\ UNCHANGED <<said, tls>>
             \/ Reply(r, "not found session") /\ UNCHANGED <<said, tls>>
             \/ Block(r, t, "session") /\ UNCHANGED <<said, tls>>
    <3>1. QuotesOK'
      BY <2>3 DEF QuotesOK
    <3> QED BY <2>1, <2>3, <3>1 DEF Unasked
  <2> QED BY <2>2, <2>3 DEF Accept
<1>3. pc[r] = "idle" /\ req'[r] = q /\ UNCHANGED <<player, stmt, wire, dup, complete>>
  BY <1>0 DEF Accept, dbVars, tables, ReqTypes
<1> QED BY <1>2, <1>3, UnaskedFair

\* The session check lets a request pass or not.
LEMMA CheckSessionFair ==
  ASSUME TypeOK, NEW r \in Requests, LocalOK(r), ReplyOK(r), QuotesOK, CheckSession(r)
  PROVE  Fair(r) /\ QuotesOK'
<1>0. EndTypes /\ SaidTypes /\ ReqTypes
  BY TypeParts
<1>1. pc[r] = "session" /\ UNCHANGED <<req, player, stmt, wire, dup, complete>>
  BY DEF CheckSession, dbVars, tables
<1>2. thr[r] \in Threads /\ req[r] \in Kinds
  BY <1>0, <1>1, LocationFacts DEF LocalOK, ControlOK, ReqTypes
<1>3. req[r].op \in Ops
  BY <1>2, KindFacts
<1>4. Unasked(r, req[r]) /\ QuotesOK'
  <2>1. {"invalid session", "invalid json-string", "server error"}
          \subseteq Replies \ {"-", "ok", "bad parameter", "exists myvalue"}
    BY DEF Replies
  <2>2. CASE ParseBody(r, thr[r], req[r])
    BY <1>0, <1>2, <1>3, <2>1, <2>2, ParseQuotes DEF Unasked
  <2>3. CASE Reply(r, "invalid session") /\ UNCHANGED <<said, tls>>
    BY <2>1, <2>3 DEF Unasked, QuotesOK
  <2> QED BY <2>2, <2>3 DEF CheckSession
<1> QED BY <1>1, <1>4, UnaskedFair

\* A Redis command throws in createSession: the body was in order, and the
\* thread's note is of auth_pass or of nobody.
LEMMA RedisThrowsFair ==
  ASSUME TypeOK, NEW r \in Requests, LocalOK(r), ReplyOK(r), QuotesOK, RedisThrows(r)
  PROVE  Fair(r)
<1>0. EndTypes /\ DbTypes /\ SaidTypes
  BY TypeParts
<1>1. pc[r] \in {"hmset", "expire"} /\ UNCHANGED <<req, stmt, dup, wire, complete, player>>
  BY DEF RedisThrows, dbVars, tables
<1>2. req[r].op = "auth_pass" /\ req[r].body = "ok" /\ thr[r] \in Threads
  BY <1>1, WhereFacts, LocationFacts DEF LocalOK, ControlOK
<1>3. tls[thr[r]][FileOf(req[r].op)] \in {"", ParamOf(req[r].op)}
  BY <1>2 DEF QuotesOK, Ops
<1>4. /\ pc'[r] = "done" /\ resp'[r] = "bad parameter"
      /\ said'[r] \in {"", ParamOf(req[r].op)}
      /\ \A s \in Requests \ {r} : said'[s] = said[s]
  <2>1. Reply(r, "bad parameter")
         /\ said' = [said EXCEPT ![r] = tls'[thr[r]][FileOf(req[r].op)]] /\ tls' = tls
    BY DEF RedisThrows, BadParameter
  <2> QED BY <1>0, <1>3, <2>1 DEF Reply, EndTypes, SaidTypes
<1>5. stmt[r] = None
  BY <1>0, <1>1, LocationFacts DEF DbTypes, ReplyOK, StatementOK
<1>6. ReplyOK(r)'
  BY <1>1, <1>2, <1>4, <1>5 DEF ReplyOK, StatementOK, DrainedOK, QuoteOK, CompleteAt
<1>7. OthersToo(r)
  BY <1>1, <1>4 DEF OthersToo
<1>8. RowsStay(r)
  BY <1>1, <1>2, <1>4, NotSetter
<1> QED BY <1>6, <1>7, <1>8 DEF Fair

----------------------------------------------------------------------------
(* The two INSERTs. *)

\* MySQL executes r's INSERT into player, perhaps after r was told "server
\* error".
LEMMA DbInsertPlayerFair ==
  ASSUME TypeOK, NEW r \in Requests, LocalOK(r), ReplyOK(r), RowsOK, DbInsertPlayer(r)
  PROVE  ReplyOK(r)' /\ OthersToo(r) /\ RowsOK'
<1>0. EndTypes /\ DbTypes /\ SaidTypes
  BY TypeParts
<1>1. /\ stmt[r] = "insPlayer" /\ stmt[r] # None
      /\ stmt' = [stmt EXCEPT ![r] = None]
      /\ UNCHANGED <<pc, resp, req, sess, said, complete>>
  BY NoneAssumption DEF DbInsertPlayer, reqVars, Statements
<1>2. /\ pc[r] \in {"insPlayer", "done"} /\ Setter(r)
      /\ resp[r] \in {"-", "server error"} /\ ~Owns(r)
  <2>1. pc[r] # "idle" /\ resp[r] \in {"-", "server error"}
    BY <1>1, PendingFacts
  <2>2. pc[r] \in {"insPlayer", "done"}
    BY <1>1 DEF ReplyOK, StatementOK
  <2>3. req[r].op = "value_set"
    BY <1>1, WhereFacts
  <2> QED BY <1>1, <2>1, <2>2, <2>3 DEF Setter, Owns
<1>3. ReplyOK(r)'
  BY <1>0, <1>1, <1>2 DEF DbTypes, ReplyOK, StatementOK, DrainedOK, QuoteOK, CompleteAt
<1>4. OthersToo(r) /\ (\A s \in Requests \ {r} : stmt'[s] = stmt[s] /\ wire'[s] = wire[s])
  BY <1>0 DEF DbInsertPlayer, DbTypes, OthersToo, reqVars
<1>5. ASSUME NEW s \in Requests
      PROVE  RowSet(s)' = RowSet(s) /\ (Setter(s)' <=> Setter(s))
  BY <1>1 DEF RowSet, Setter
<1>6. player \subseteq player'
  BY DEF DbInsertPlayer
<1>7. ASSUME NEW s \in Requests, Owns(s) PROVE Owns(s)' /\ s # r
  BY <1>1, <1>2, <1>4, <1>5, <1>6, <1>7 DEF Owns
<1>8. ASSUME NEW s \in Requests, Rival(s) PROVE Rival(s)'
  BY <1>1, <1>7, <1>8 DEF Rival
<1>9. \A s \in Requests \ {r} : (Wins(s)' <=> Wins(s)) /\ (Refused(s)' <=> Refused(s))
  BY <1>1, <1>4, <1>5 DEF Wins, Refused, OthersToo
<1>10. \A s \in Requests : resp'[s] = "exists myvalue" => Setter(s)'
  BY <1>1, <1>5 DEF RowsOK
<1>11. CASE \E p \in player : p.myvalue = req[r].arg
  <2>1. player' = player /\ wire' = wire
    BY <1>11 DEF DbInsertPlayer
  <2>2. PICK s \in Requests : Owns(s) /\ RowSet(s).myvalue = req[r].arg
    BY <1>11 DEF RowsOK
  <2>3. Rival(r)'
    BY <1>1, <1>7, <2>2 DEF Rival, RowSet
  <2>4. Wins(r)' => Wins(r)
    BY <1>1, <1>5, <2>1 DEF Wins
  <2>5. \A p \in player' : \E u \in Requests : Owns(u)' /\ p = RowSet(u)'
    BY <1>5, <1>7, <2>1 DEF RowsOK
  <2> QED BY <1>1, <1>3, <1>4, <1>7, <1>8, <1>9, <1>10, <2>3, <2>4, <2>5 DEF RowsOK
<1>12. CASE ~ \E p \in player : p.myvalue = req[r].arg
  <2>1. player' = player \cup {RowSet(r)} /\ dup' = dup
    BY <1>12 DEF DbInsertPlayer, RowSet
  <2>2. Owns(r)'
    BY <1>0, <1>1, <1>2, <1>5, <2>1 DEF Owns, DbTypes
  <2>3. \A s \in Requests \ {r} : Wins(s) => req[s].arg # req[r].arg
    BY <1>12 DEF RowsOK, Owns, RowSet
  <2>4. \A p \in player' : \E u \in Requests : Owns(u)' /\ p = RowSet(u)'
    BY <1>5, <1>7, <2>1, <2>2 DEF RowsOK
  <2>5. \A s \in Requests : Wins(s)' => Owns(s)'
    BY <1>7, <1>9, <2>2 DEF RowsOK
  <2>6. \A s, u \in Requests : Wins(s)' /\ Wins(u)' /\ req'[s].arg = req'[u].arg => s = u
    BY <1>1, <1>9, <2>3 DEF RowsOK
  <2>7. \A s \in Requests : Refused(s)' => Refused(s)
    BY <1>1, <1>5, <1>9, <2>1 DEF Refused
  <2> QED BY <1>3, <1>4, <1>8, <1>10, <2>4, <2>5, <2>6, <2>7 DEF RowsOK
<1> QED BY <1>11, <1>12

\* MySQL executes r's INSERT into account: the number is fresh and, with the
\* UNIQUE key, the user is new.
LEMMA AccountsStep ==
  ASSUME TypeOK, AccountsOK, NEW r \in Requests, DbInsertAccount(r)
  PROVE  AccountsOK'
<1>0. account \subseteq AccountRows /\ nextId \in Nat /\ nextId' = nextId + 1
  BY DEF TypeOK, DbInsertAccount
<1>1. \A a \in account : a.mbuid \in Nat
  BY <1>0, MbuidFacts DEF AccountRows
<1>2. CASE account' = account
  BY <1>0, <1>1, <1>2 DEF AccountsOK
<1>3. CASE /\ ~(UniqueUserId /\ \E a \in account : a.user = req[r].arg)
           /\ account' = account \cup {[mbuid |-> nextId, user |-> req[r].arg]}
  <2>1. \A a \in account' : a.mbuid < nextId'
    BY <1>0, <1>1, <1>3 DEF AccountsOK
  <2>2. \A a, b \in account' : a.mbuid = b.mbuid => a = b
    BY <1>0, <1>1, <1>3 DEF AccountsOK
  <2>3. UniqueUserId => \A a, b \in account' : a.user = b.user => a = b
    BY <1>3 DEF AccountsOK
  <2> QED BY <2>1, <2>2, <2>3 DEF AccountsOK
<1> QED BY <1>2, <1>3 DEF DbInsertAccount

----------------------------------------------------------------------------
(* The invariant. *)

\* The invariant holds initially.
LEMMA InitRInv == Init => RInv
<1> SUFFICES ASSUME Init PROVE RInv
  OBVIOUS
<1>1. ASSUME NEW r \in Requests PROVE ReplyOK(r)
  BY DEF Init, ReplyOK, StatementOK, DrainedOK, QuoteOK
<1>2. QuotesOK
  BY DEF Init, QuotesOK, FileOf, Files
<1>3. RowsOK
  BY DEF Init, RowsOK, Wins, Refused, Setter
<1>4. AccountsOK
  BY DEF Init, AccountsOK
<1> QED BY <1>1, <1>2, <1>3, <1>4 DEF RInv

\* A step of r that was shown to be fair, with the notes and the accounts.
LEMMA FairStep ==
  ASSUME RInv, NEW r \in Requests, OthersSame(r), Fair(r), QuotesOK', AccountsOK'
  PROVE  RInv'
<1>1. \A s \in Requests : ReplyOK(s)'
  BY ReplyFrame DEF RInv, Fair
<1>2. RowsOK'
  BY RowsFrame DEF RInv, Fair
<1> QED BY <1>1, <1>2 DEF RInv

\* Arrivals.
LEMMA AcceptRInv ==
  ASSUME IInv, RInv, NEW r \in Requests, NEW t \in Threads, NEW q \in Kinds, Accept(r, t, q)
  PROVE  RInv'
<1>0. TypeOK /\ LocalOK(r) /\ ReplyOK(r) /\ QuotesOK /\ AccountsOK
  BY DEF IInv, RInv
<1>1. OthersSame(r) /\ Fair(r) /\ QuotesOK'
  BY <1>0, AcceptGood, AcceptFair DEF Good
<1>2. AccountsOK'
  BY <1>0 DEF Accept, tables, AccountsOK
<1> QED BY <1>1, <1>2, FairStep

\* The stretches that run on a thread, and the synchronous calls.
LEMMA ServerStepRInv ==
  ASSUME IInv, RInv, NEW r \in Requests, ServerStep(r)
  PROVE  RInv'
<1>0. TypeOK /\ LocalOK(r) /\ ReplyOK(r) /\ QuotesOK /\ AccountsOK
  BY DEF IInv, RInv
<1>1. UNCHANGED <<account, nextId>>
  BY DEF ServerStep, CheckSession, SessionCheckThrows, GetConn, GetConnNull, Hmset,
         Expire, RedisThrows, tables
<1>2. AccountsOK'
  BY <1>0, <1>1 DEF AccountsOK
<1>3. CASE CheckSession(r)
  <2>1. OthersSame(r) /\ Fair(r) /\ QuotesOK'
    BY <1>0, <1>3, CheckSessionGood, CheckSessionFair DEF Good
  <2> QED BY <1>2, <2>1, FairStep
<1>4. CASE ~CheckSession(r)
  <2>1. UNCHANGED tls
    BY <1>4 DEF ServerStep, SessionCheckThrows, GetConn, GetConnNull, Hmset, Expire, RedisThrows
  <2>2. QuotesOK'
    BY <1>0, <2>1 DEF QuotesOK
  <2>3. OthersSame(r)
    BY <1>0, <1>4, SessionCheckThrowsGood, GetConnGood, GetConnNullGood, HmsetGood,
       ExpireGood, RedisThrowsGood DEF ServerStep, Good
  <2>4. Fair(r)
    BY <1>0, <1>4, SessionCheckThrowsFair, GetConnFair, GetConnNullFair, HmsetFair,
       ExpireFair, RedisThrowsFair DEF ServerStep
  <2> QED BY <1>2, <2>2, <2>3, <2>4, FairStep
<1> QED BY <1>3, <1>4

\* The resumptions.
LEMMA ResumeStepRInv ==
  ASSUME IInv, RInv, NEW r \in Requests, NEW t \in Threads, ResumeStep(r, t)
  PROVE  RInv'
<1>0. TypeOK /\ LocalOK(r) /\ ReplyOK(r) /\ QuotesOK /\ AccountsOK
  BY DEF IInv, RInv
<1>1. UNCHANGED <<account, nextId, tls>>
  BY DEF ResumeStep, QueryDone, ReadRow, ReadNone, PurgeRow, PurgeEnd, InsertAccountDone,
         InsertPlayerDone, DupEntry, IoError, tables
<1>2. AccountsOK' /\ QuotesOK'
  BY <1>0, <1>1 DEF AccountsOK, QuotesOK
<1>3. OthersSame(r)
  BY <1>0, QueryDoneGood, ReadRowGood, ReadNoneGood, PurgeRowGood, PurgeEndGood,
     InsertAccountDoneGood, InsertPlayerDoneGood, DupEntryGood, IoErrorGood
  DEF ResumeStep, Good
<1>4. Fair(r)
  BY <1>0, QueryDoneFair, ReadRowFair, ReadNoneFair, PurgeRowFair, PurgeEndFair,
     InsertAccountDoneFair, InsertPlayerDoneFair, DupEntryFair, IoErrorFair
  DEF ResumeStep
<1> QED BY <1>2, <1>3, <1>4, FairStep

\* MySQL.
LEMMA DbStepRInv ==
  ASSUME IInv, RInv, NEW r \in Requests, DbStep(r) \/ DbDrop(r)
  PROVE  RInv'
<1>0. TypeOK /\ LocalOK(r) /\ ReplyOK(r) /\ QuotesOK /\ AccountsOK /\ RowsOK
  BY DEF IInv, RInv
<1>1. UNCHANGED tls
  BY DEF DbStep, DbSelectAccount, DbInsertAccount, DbInsertPlayer, DbSelectPlayer, DbDrop
<1>2. QuotesOK'
  BY <1>0, <1>1 DEF QuotesOK
<1>3. OthersSame(r)
  BY <1>0, DbSelectAccountGood, DbInsertAccountGood, DbInsertPlayerGood, DbSelectPlayerGood,
     DbDropGood DEF DbStep, Good
<1>4. AccountsOK'
  <2>1. CASE DbInsertAccount(r)
    BY <1>0, <2>1, AccountsStep
  <2>2. CASE ~DbInsertAccount(r)
    <3>1. UNCHANGED <<account, nextId>>
      BY <2>2 DEF DbStep, DbSelectAccount, DbInsertPlayer, DbSelectPlayer, DbDrop, tables
    <3> QED BY <1>0, <3>1 DEF AccountsOK
  <2> QED BY <2>1, <2>2
<1>5. CASE DbInsertPlayer(r)
  <2>1. ReplyOK(r)' /\ OthersToo(r) /\ RowsOK'
    BY <1>0, <1>5, DbInsertPlayerFair
  <2>2. \A s \in Requests : ReplyOK(s)'
    BY <1>3, <2>1, ReplyFrame DEF RInv
  <2> QED BY <1>2, <1>4, <2>1, <2>2 DEF RInv
<1>6. CASE ~DbInsertPlayer(r)
  <2>1. Fair(r)
    BY <1>0, <1>6, DbSelectAccountFair, DbInsertAccountFair, DbSelectPlayerFair, DbDropFair
    DEF DbStep
  <2> QED BY <1>2, <1>3, <1>4, <2>1, FairStep
<1> QED BY <1>5, <1>6

\* What stays as it is when only the session store changes, or nothing.
LEMMA StillRInv ==
  ASSUME RInv, UNCHANGED <<pc, resp, said, req, sess, stmt, dup, wire, complete, tls,
                           account, player, nextId>>
  PROVE  RInv'
<1>1. \A r \in Requests : ReplyOK(r)'
  BY DEF RInv, ReplyOK, StatementOK, DrainedOK, QuoteOK
<1>2. QuotesOK' /\ AccountsOK'
  BY DEF RInv, QuotesOK, AccountsOK
<1>3. \A r \in Requests : /\ RowSet(r)' = RowSet(r)
                          /\ Owns(r)' <=> Owns(r)
                          /\ Wins(r)' <=> Wins(r)
                          /\ Refused(r)' <=> Refused(r)
                          /\ Setter(r)' <=> Setter(r)
  BY DEF RowSet, Owns, Wins, Refused, Setter
<1>4. \A r \in Requests : Rival(r)' <=> Rival(r)
  BY <1>3 DEF Rival
<1>5. RowsOK'
  BY <1>3, <1>4 DEF RInv, RowsOK
<1> QED BY <1>1, <1>2, <1>5 DEF RInv

\* Every step preserves the invariant.
LEMMA NextRInv == IInv /\ RInv /\ [Next]_vars => RInv'
<1> SUFFICES ASSUME IInv, RInv, [Next]_vars PROVE RInv'
  OBVIOUS
<1>1. ASSUME NEW k \in Keys, SessionExpires(k) PROVE RInv'
  BY <1>1, StillRInv DEF SessionExpires, reqVars, dbVars, tables
<1>2. CASE UNCHANGED vars
  BY <1>2, StillRInv DEF vars
<1> QED
  BY <1>1, <1>2, AcceptRInv, ServerStepRInv, ResumeStepRInv, DbStepRInv DEF Next

\* It holds of every behaviour of the server.
THEOREM ReplyInvariantHolds == Spec => []RInv
<1>1. Spec => []IInv
  BY InvariantHolds
<1> QED BY <1>1, InitRInv, NextRInv, PTL DEF Spec

----------------------------------------------------------------------------
(* What it implies. *)

\* Of all value_set requests for one value at most one is acknowledged, and its
\* row is there (controlValueSet), even if statements are executed late.
THEOREM OneWinnerPerValue == Spec => []OneWinner
<1>1. RInv => OneWinner
  <2> SUFFICES ASSUME RInv PROVE OneWinner
    OBVIOUS
  <2>1. \A r \in Acked("value_set") : r \in Requests /\ Wins(r)
    BY DEF Acked, Started, Wins, Setter
  <2>2. \A r \in Acked("value_set") :
          \E p \in player : p.mbuid = sess[r] /\ p.myvalue = req[r].arg
    BY <2>1 DEF RInv, RowsOK, Owns, RowSet
  <2>3. \A r, s \in Acked("value_set") : req[r].arg = req[s].arg => r = s
    BY <2>1 DEF RInv, RowsOK
  <2> QED BY <2>2, <2>3 DEF OneWinner
<1> QED BY <1>1, ReplyInvariantHolds, PTL

\* "exists myvalue" is another request's doing, never the request's own INSERT's.
THEOREM RefusalsHaveRival == Spec => []DupIsAnothers
<1>1. RInv => DupIsAnothers
  <2> SUFFICES ASSUME RInv, NEW r \in Requests, resp[r] = "exists myvalue"
               PROVE  \E s \in Started("value_set") \ {r} : \E p \in player :
                        p.mbuid = sess[s] /\ p.myvalue = req[s].arg /\ req[s].arg = req[r].arg
    BY DEF DupIsAnothers
  <2>1. PICK s \in Requests \ {r} : Owns(s) /\ req[s].arg = req[r].arg
    BY DEF RInv, RowsOK, Refused, Rival
  <2>2. s \in Started("value_set") \ {r}
    BY <2>1 DEF Owns, Setter, Started
  <2>3. /\ RowSet(s) \in player
        /\ RowSet(s).mbuid = sess[s] /\ RowSet(s).myvalue = req[s].arg
    BY <2>1 DEF Owns, RowSet
  <2> QED BY <2>1, <2>2, <2>3
<1> QED BY <1>1, ReplyInvariantHolds, PTL

\* A connection is not used again, and success not reported, before the last
\* resultset on it was read to its end (purgeResult).
THEOREM ConnectionsAreDrained == Spec => []ResultsDrained
<1>1. RInv => ResultsDrained
  BY DEF RInv, ReplyOK, DrainedOK, CompleteAt, ResultsDrained
<1> QED BY <1>1, ReplyInvariantHolds, PTL

\* "bad parameter" never quotes another handler's parameter, although its name
\* is kept per thread and handlers change threads (lobbyServerUtils.h:138-172).
THEOREM RepliesQuoteOwnParameter == Spec => []BadParameterNamesOwn
<1>1. RInv => BadParameterNamesOwn
  BY DEF RInv, ReplyOK, QuoteOK, BadParameterNamesOwn
<1> QED BY <1>1, ReplyInvariantHolds, PTL

\* With a UNIQUE key on account.user_id, racing first logins of a user are given
\* the same account (controlAccountPass).
THEOREM UniqueKeyGivesOneAccount == UniqueUserId => (Spec => []OneAccountPerUser)
<1>1. UniqueUserId /\ IInv /\ RInv => OneAccountPerUser
  <2> SUFFICES ASSUME UniqueUserId, IInv, RInv,
                      NEW r \in Acked("auth_pass"), NEW s \in Acked("auth_pass"),
                      req[r].arg = req[s].arg
               PROVE  got[r] = got[s]
    BY DEF OneAccountPerUser
  <2>1. RowOf(r, got[r]) \in account /\ RowOf(s, got[s]) \in account
    BY DEF IInv, LocalOK, AccountOK, Acked, Started
  <2>2. RowOf(r, got[r]) = RowOf(s, got[s])
    BY <2>1 DEF RInv, AccountsOK, RowOf
  <2> QED BY <2>2 DEF RowOf
<1>2. SUFFICES ASSUME UniqueUserId PROVE Spec => []OneAccountPerUser
  OBVIOUS
<1>3. IInv /\ RInv => OneAccountPerUser
  BY <1>1, <1>2
<1> QED BY <1>3, InvariantHolds, ReplyInvariantHolds, PTL

\* A session names one user: the account it is filed under is nobody else's,
\* with or without the UNIQUE key (SessionManager::createSession).
SessionsNameOneUser ==
  \A k \in Keys : redis[k] # Absent =>
    \E a \in account : /\ k = genSessionKey(a.mbuid)
                      /\ \A b \in account : genSessionKey(b.mbuid) = k => b = a

\* It holds, as account numbers are not used twice.
THEOREM SessionsAreOneUsers == Spec => []SessionsNameOneUser
<1>1. IInv /\ RInv => SessionsNameOneUser
  <2> SUFFICES ASSUME IInv, RInv, NEW k \in Keys, redis[k] # Absent
               PROVE  \E a \in account : /\ k = genSessionKey(a.mbuid)
                                         /\ \A b \in account : genSessionKey(b.mbuid) = k => b = a
    BY DEF SessionsNameOneUser
  <2>1. PICK a \in account : k = genSessionKey(a.mbuid)
    BY DEF IInv, SessionNamesAccount
  <2>2. \A b \in account : b.mbuid \in Mbuid
    BY DEF IInv, TypeOK, AccountRows
  <2>3. ASSUME NEW b \in account, genSessionKey(b.mbuid) = k PROVE b = a
    BY <2>1, <2>2, <2>3, KeyFacts DEF RInv, AccountsOK
  <2> QED BY <2>1, <2>3
<1> QED BY <1>1, InvariantHolds, ReplyInvariantHolds, PTL
=============================================================================
