------------------------ MODULE ServerProcessProofs ------------------------
(***************************************************************************)
(* Proofs about ServerProcess, for any port, any number of channels, and   *)
(* any number of messages and outages.                                     *)
(***************************************************************************)
EXTENDS ServerProcess, TLAPS

\* What the order of the calls in main keeps true beside the types: with a
\* REDIS_HOST the shared client is there once main has passed
\* RedisConnector::init, until std::exit destroys it.
ClientBehindInit ==
  /\ main \notin {"config", "redis", "ended"} => (host => spRedis # "null")
  /\ CrashHasCause

\* No more messages are waiting than were published.
InboxOfPublished == inbox <= published

IInv == TypeOK /\ ClientBehindInit /\ InboxOfPublished

\* The invariant holds when main is entered.
LEMMA InitIInv == Init => IInv
<1> SUFFICES ASSUME Init PROVE IInv
  OBVIOUS
<1>1. host \in BOOLEAN /\ link \in BOOLEAN /\ redisUp \in BOOLEAN
  BY Zenon DEF Init
<1>2. TypeOK /\ InboxOfPublished
  BY <1>1, ProcessAssumption DEF Init, TypeOK, InboxOfPublished
<1>3. ClientBehindInit
  BY DEF Init, ClientBehindInit, CrashHasCause
<1> QED
  BY <1>2, <1>3 DEF IInv

----------------------------------------------------------------------------
\* The steps of main keep the invariant, and so do those of std::exit and of a
\* handler.
LEMMA MainIInv == IInv /\ (MainStep \/ UseRedis \/ ExitStep) => IInv'
<1> SUFFICES ASSUME IInv, MainStep \/ UseRedis \/ ExitStep PROVE IInv'
  OBVIOUS
<1> USE ProcessAssumption
    DEF IInv, TypeOK, ClientBehindInit, CrashHasCause, InboxOfPublished, MainGoes,
        consumerVars, redisVars, Over
<1>1. CASE LoadConfig
  BY <1>1 DEF LoadConfig
<1>2. CASE InitRedis
  BY <1>2 DEF InitRedis
<1>3. CASE LoadTables
  BY <1>3 DEF LoadTables
<1>4. CASE ExitAfterTables
  BY <1>4 DEF ExitAfterTables
<1>5. CASE RunLobby
  BY <1>5 DEF RunLobby
<1>6. CASE StopServing
  BY <1>6 DEF StopServing
<1>7. CASE Return
  BY <1>7 DEF Return
<1>8. CASE UseRedis
  BY <1>8 DEF UseRedis
<1>9. CASE DestroyClient
  BY <1>9 DEF DestroyClient
<1>10. CASE ExitEnds
  BY <1>10 DEF ExitEnds
<1> QED
  BY <1>1, <1>2, <1>3, <1>4, <1>5, <1>6, <1>7, <1>8, <1>9, <1>10
  DEF MainStep, ExitStep

\* So do those of the subscriber thread, which has no part in the shared client.
LEMMA ConsumerIInv == IInv /\ ConsumerStep => IInv'
<1> SUFFICES ASSUME IInv, ConsumerStep PROVE IInv'
  OBVIOUS
<1> USE ProcessAssumption
    DEF IInv, TypeOK, ClientBehindInit, CrashHasCause, InboxOfPublished, ConsumerGoes, redisVars,
        Over
<1>1. CASE Connect
  BY <1>1 DEF Connect
<1>2. CASE Subscribe
  BY <1>2 DEF Subscribe
<1>3. CASE Consume
  BY <1>3 DEF Consume
<1>4. CASE ConsumeThrows
  BY <1>4 DEF ConsumeThrows
<1>5. CASE ExitAfterConsumer
  BY <1>5 DEF ExitAfterConsumer
<1> QED
  BY <1>1, <1>2, <1>3, <1>4, <1>5 DEF ConsumerStep

\* And whatever the Redis server does.
LEMMA RedisIInv == IInv /\ RedisStep => IInv'
<1> SUFFICES ASSUME IInv, RedisStep PROVE IInv'
  OBVIOUS
<1> USE ProcessAssumption
    DEF IInv, TypeOK, ClientBehindInit, CrashHasCause, InboxOfPublished, consumerVars
<1>1. CASE Publish
  BY <1>1 DEF Publish
<1>2. CASE Outage
  <2>1. TypeOK'
    <3>1. link' \in BOOLEAN /\ redisUp' \in BOOLEAN
      BY <1>2, Zenon DEF Outage
    <3> QED BY <1>2, <3>1 DEF Outage
  <2>2. ClientBehindInit' /\ InboxOfPublished'
    BY <1>2 DEF Outage
  <2> QED BY <2>1, <2>2
<1>3. CASE Recover
  BY <1>3 DEF Recover
<1> QED
  BY <1>1, <1>2, <1>3 DEF RedisStep

\* The process keeps the inductive invariant.
THEOREM InvariantHolds == Spec => []IInv
<1>1. IInv /\ [Next]_vars => IInv'
  <2>1. IInv /\ UNCHANGED vars => IInv'
    BY DEF IInv, TypeOK, ClientBehindInit, CrashHasCause, InboxOfPublished, vars
  <2> QED
    BY <2>1, MainIInv, ConsumerIInv, RedisIInv DEF Next
<1> QED
  BY InitIInv, <1>1, PTL DEF Spec

----------------------------------------------------------------------------
\* Every variable keeps its type; no channel is subscribed to twice and no
\* message is received that was not published (redisConnector.cpp:33-64).
THEOREM TypeCorrect == Spec => []TypeOK
  BY InvariantHolds, PTL DEF IInv

\* A handler crashes on the shared client only in a process that was given no
\* REDIS_HOST, or behind the destruction of the client by std::exit (main.cpp:62,
\* redisConnector.cpp:76).
THEOREM CrashesHaveCause == Spec => []CrashHasCause
  BY InvariantHolds, PTL DEF IInv, ClientBehindInit
============================================================================
