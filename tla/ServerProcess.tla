--------------------------- MODULE ServerProcess ---------------------------
(***************************************************************************)
(* The life of the server process: main (main.cpp) brings the parts up in  *)
(* order, RedisConnector::init starts the detached subscriber thread       *)
(* ConsumerThreadTask (redisConnector.cpp), and either may end the process *)
(* with std::exit.  Handlers run from acceptAsync on; nothing in the       *)
(* program stops them before the process is gone, so they may outlive main *)
(* and the static objects, which std::exit destroys on its caller's        *)
(* thread.                                                                 *)
(***************************************************************************)
EXTENDS Naturals

CONSTANTS
  Port,          \* MYAPP_HTTP_PORT
  Channels,      \* length of REDIS_SUB_CHANNELS
  MaxMessages,   \* bound on published messages
  MaxOutages     \* bound on outages of the Redis server

ASSUME ProcessAssumption ==
  Port \in Nat /\ Channels \in Nat /\ MaxMessages \in Nat /\ MaxOutages \in Nat

VARIABLES
  status,      \* the process: "running", "exiting" (in std::exit), or over
  host,        \* REDIS_HOST is not empty
  main,        \* where main is
  consumer,    \* where ConsumerThreadTask is
  subscribed,  \* channels subscribed to so far
  link,        \* the subscriber's connection works
  spRedis,     \* the shared client: "null", "live" or "destroyed"
  redisUp,     \* the Redis server is reachable
  inbox,       \* messages on the subscriber's connection
  published,   \* messages published so far
  outages      \* outages so far

vars == <<status, host, main, consumer, subscribed, link, spRedis, redisUp,
          inbox, published, outages>>
consumerVars == <<consumer, subscribed, link, inbox>>
redisVars == <<redisUp, published, outages>>

Init ==
  /\ status = "running"
  /\ host \in BOOLEAN
  /\ main = "config"
  /\ consumer = "unborn"
  /\ subscribed = 0
  /\ link = FALSE
  /\ spRedis = "null"
  /\ redisUp \in BOOLEAN
  /\ inbox = 0
  /\ published = 0
  /\ outages = 0

\* How a process ends: by std::exit or main's return, by an exception that
\* nobody catches, or by an access through no client.
Over == status \in {"exited", "terminated", "crashed"}

----------------------------------------------------------------------------
(* main *)

MainGoes(from, to) == ~Over /\ main = from /\ main' = to

\* Configuration::load; a missing file throws, and nobody catches it.
LoadConfig ==
  /\ \/ MainGoes("config", "redis") /\ UNCHANGED status
     \/ MainGoes("config", "ended") /\ status' = "terminated"
  /\ UNCHANGED <<host, consumerVars, spRedis, redisVars>>

\* Mutant of InitRedis: the thread starts, the shared client is forgotten.
InitRedisNoClient ==
  /\ MainGoes("redis", "tables")
  /\ consumer' = IF host THEN "connect" ELSE consumer
  /\ UNCHANGED <<status, host, spRedis, subscribed, link, inbox, redisVars>>

\* RedisConnector::init, only if REDIS_HOST is not empty: the client connects on
\* first use, the subscriber gets a thread of its own.
InitRedis ==
  /\ MainGoes("redis", "tables")
  /\ IF host THEN spRedis' = "live" /\ consumer' = "connect"
             ELSE UNCHANGED <<spRedis, consumer>>
  /\ UNCHANGED <<status, host, subscribed, link, inbox, redisVars>>

\* TableManager::loadTables reports success or failure.
LoadTables ==
  /\ \/ MainGoes("tables", IF Port # 0 THEN "run" ELSE "closing")
     \/ MainGoes("tables", "failed")
  /\ UNCHANGED <<status, host, consumerVars, spRedis, redisVars>>

\* After a sleep of 3 s, std::exit.
ExitAfterTables ==
  /\ MainGoes("failed", "ended")
  /\ status' = "exiting"
  /\ UNCHANGED <<host, consumerVars, spRedis, redisVars>>

\* LobbyServerCoro::run loads the configuration again, which may throw, before
\* it accepts requests.
RunLobby ==
  /\ \/ MainGoes("run", "serve") /\ UNCHANGED status
     \/ MainGoes("run", "ended") /\ status' = "terminated"
  /\ UNCHANGED <<host, consumerVars, spRedis, redisVars>>

\* acceptAsync returns when the io_context is stopped.
StopServing ==
  /\ MainGoes("serve", "closing")
  /\ UNCHANGED <<status, host, consumerVars, spRedis, redisVars>>

\* After a sleep of 5 s main returns, which calls std::exit.
Return ==
  /\ MainGoes("closing", "returned")
  /\ status' = "exiting"
  /\ UNCHANGED <<host, consumerVars, spRedis, redisVars>>

\* A handler uses Redis: hgetAll and hset dereference spRedis.
UseRedis ==
  /\ ~Over
  /\ Port # 0
  /\ main \in {"serve", "closing", "returned"}
  /\ spRedis # "live"
  /\ status' = "crashed"
  /\ UNCHANGED <<host, main, consumerVars, spRedis, redisVars>>

\* std::exit: the static spRedis is destroyed, and with it the client; when all
\* static objects are, the process is gone.
DestroyClient ==
  /\ status = "exiting"
  /\ spRedis = "live"
  /\ spRedis' = "destroyed"
  /\ UNCHANGED <<status, host, main, consumerVars, redisVars>>

ExitEnds ==
  /\ status = "exiting"
  /\ spRedis # "live"
  /\ status' = "exited"
  /\ UNCHANGED <<host, main, consumerVars, spRedis, redisVars>>

----------------------------------------------------------------------------
(* ConsumerThreadTask *)

ConsumerGoes(from, to) == ~Over /\ consumer = from /\ consumer' = to

\* subscriber(): opens the connection or throws.
Connect ==
  /\ \/ redisUp /\ ConsumerGoes("connect", "subscribe") /\ link' = TRUE
     \/ ConsumerGoes("connect", "failed") /\ UNCHANGED link
  /\ UNCHANGED <<status, host, main, subscribed, inbox, spRedis, redisVars>>

\* Mutant of Subscribe: one channel too many.
SubscribeOffByOne ==
  /\ link /\ subscribed <= Channels
  /\ subscribed' = subscribed + 1
  /\ ConsumerGoes("subscribe", "subscribe")
  /\ UNCHANGED <<status, host, main, link, inbox, spRedis, redisVars>>

\* The loop over REDIS_SUB_CHANNELS; a broken connection throws.
Subscribe ==
  /\ \/ /\ link /\ subscribed < Channels
        /\ subscribed' = subscribed + 1
        /\ ConsumerGoes("subscribe", "subscribe")
     \/ /\ subscribed = Channels
        /\ ConsumerGoes("subscribe", "consume")
        /\ UNCHANGED subscribed
     \/ /\ ~link /\ subscribed < Channels
        /\ ConsumerGoes("subscribe", "failed")
        /\ UNCHANGED subscribed
  /\ UNCHANGED <<status, host, main, link, inbox, spRedis, redisVars>>

\* Mutant of Consume: the last message is left on the connection.
ConsumeLeavesLast ==
  /\ ConsumerGoes("consume", "consume")
  /\ link /\ inbox > 1
  /\ inbox' = inbox - 1
  /\ UNCHANGED <<status, host, main, subscribed, link, spRedis, redisVars>>

\* consume() handles one message.
Consume ==
  /\ ConsumerGoes("consume", "consume")
  /\ link /\ inbox > 0
  /\ inbox' = inbox - 1
  /\ UNCHANGED <<status, host, main, subscribed, link, spRedis, redisVars>>

\* consume() throws on a broken connection; the inner catch clause logs the
\* error and the inner loop calls consume() again, on the same Subscriber.
ConsumeThrows ==
  /\ ConsumerGoes("consume", "consume")
  /\ ~link
  /\ UNCHANGED <<status, host, main, subscribed, link, inbox, spRedis, redisVars>>

\* Mutant of ExitAfterConsumer: the exit call is removed.
ExitAfterConsumerStays ==
  /\ ConsumerGoes("failed", "failed")
  /\ UNCHANGED <<status, host, main, subscribed, link, inbox, spRedis, redisVars>>

\* The outer catch clause: a sleep of 3 s, then std::exit, which adds nothing to
\* one that main has called.
ExitAfterConsumer ==
  /\ ConsumerGoes("failed", "ended")
  /\ status' = "exiting"
  /\ UNCHANGED <<host, main, subscribed, link, inbox, spRedis, redisVars>>

----------------------------------------------------------------------------
(* The Redis server *)

\* Any client publishes (RedisConnector::publish does): the subscriber gets the
\* message if it is connected and subscribed.
Publish ==
  /\ redisUp
  /\ published < MaxMessages
  /\ published' = published + 1
  /\ inbox' = IF link /\ subscribed > 0 THEN inbox + 1 ELSE inbox
  /\ UNCHANGED <<status, host, main, consumer, subscribed, link, spRedis, redisUp, outages>>

\* The server goes away; connections break and what was on them is lost.
Outage ==
  /\ redisUp
  /\ outages < MaxOutages
  /\ outages' = outages + 1
  /\ redisUp' = FALSE
  /\ link' = FALSE
  /\ inbox' = 0
  /\ UNCHANGED <<status, host, main, consumer, subscribed, spRedis, published>>

Recover ==
  /\ ~redisUp
  /\ redisUp' = TRUE
  /\ UNCHANGED <<status, host, main, consumerVars, spRedis, published, outages>>

MainStep == LoadConfig \/ InitRedis \/ LoadTables \/ ExitAfterTables
            \/ RunLobby \/ StopServing \/ Return
ConsumerStep == Connect \/ Subscribe \/ Consume \/ ConsumeThrows
                \/ ExitAfterConsumer
RedisStep == Publish \/ Outage \/ Recover

ExitStep == DestroyClient \/ ExitEnds

Next == MainStep \/ UseRedis \/ ExitStep \/ ConsumerStep \/ RedisStep

\* Both threads are scheduled, their sleeps end and destructors return; whether
\* the io_context is ever stopped, and what Redis does, is left open.
Fairness ==
  /\ WF_vars(LoadConfig \/ InitRedis \/ LoadTables \/ ExitAfterTables \/ RunLobby
             \/ Return)
  /\ WF_vars(ConsumerStep)
  /\ WF_vars(ExitStep)

Spec == Init /\ [][Next]_vars /\ Fairness

----------------------------------------------------------------------------
(* Properties *)

\* Type invariant.
TypeOK ==
  /\ status \in {"running", "exiting", "exited", "terminated", "crashed"}
  /\ main \in {"config", "redis", "tables", "failed", "run", "serve", "closing",
              "returned", "ended"}
  /\ consumer \in {"unborn", "connect", "subscribe", "consume", "failed", "ended"}
  /\ subscribed \in 0..Channels
  /\ spRedis \in {"null", "live", "destroyed"}
  /\ host \in BOOLEAN /\ link \in BOOLEAN /\ redisUp \in BOOLEAN
  /\ inbox \in 0..MaxMessages
  /\ published \in 0..MaxMessages
  /\ outages \in 0..MaxOutages

\* With a REDIS_HOST, a handler finds the shared client until std::exit has
\* destroyed it: the process crashes on it only then, and never because a
\* request came before RedisConnector::init or because the subscriber or the
\* Redis server has failed (main.cpp:62-77, redisConnector.cpp:76, 80-108).
CrashHasCause == status = "crashed" => ~host \/ spRedis = "destroyed"

\* A message on the subscriber's connection is consumed or the connection is
\* lost with it, or the process ends (the loop of redisConnector.cpp:51-64).
MessagesConsumed == inbox > 0 ~> inbox = 0 \/ Over

\* If the tables cannot be loaded (main.cpp:66-73), or the subscriber fails
\* before it has subscribed (redisConnector.cpp:66-76), the process ends.
StartupFailureExits == main = "failed" \/ consumer = "failed" ~> Over

\* redisConnector.cpp:75 says "remove the exit if you want to go on serving even
\* though the consumer has a problem": a consumer that has lost its connection
\* gets it back or ends the server.
ConsumerProblemExits ==
  consumer \in {"subscribe", "consume"} /\ ~link ~> link \/ Over
============================================================================
