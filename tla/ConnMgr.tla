------------------------------ MODULE ConnMgr ------------------------------
(***************************************************************************)
(* MBMySQL::ConnMgr (mysqlConn/mysqlConnMgr.cpp): the singleton that hands *)
(* MySQL connections to the request handlers.                              *)
(*                                                                         *)
(* initTarget starts a detached thread that fills a pool in the            *)
(* background.  std::bind copies the pool it is given, so the thread fills *)
(* a stack of its own (fillerStack), which dies with the thread; the pool  *)
(* that getConn looks into stays empty.                                    *)
(*                                                                         *)
(* A connection is a shared_ptr: its socket closes when its last holder    *)
(* goes away.  createConn opens a connection or, after any exception,      *)
(* returns a null pointer.                                                 *)
(*                                                                         *)
(* std::exit, on the subscriber thread (redisConnector.cpp:76) or behind   *)
(* main, destroys the singleton while the handlers and the filler go on;   *)
(* they end with the process.                                              *)
(***************************************************************************)
EXTENDS Naturals, Sequences, SequencesExt

CONSTANTS Callers,   \* concurrent request handlers
          Conns,     \* identities of connections; bounds how many are opened
          PoolMax,   \* MYSQL_CONN_POOL_MAX
          Null,      \* ConnPtr(nullptr)
          NoConn     \* a handler that holds nothing yet

ASSUME ConnMgrAssumption ==
  /\ PoolMax \in Nat
  /\ Null \notin Conns
  /\ NoConn \notin Conns \cup {Null}
  /\ {Null, NoConn} \cap Callers = {}

VARIABLES
  phase,        \* how far the singleton's life has got (Phases)
  pools,        \* _pools: one stack of idle connections per target
  opts,         \* what _opts.size() returns
  filler,       \* the detached thread: "unborn", "running", "ended"
  fillerStack,  \* the thread's own copy of the pool
  pc,           \* where each handler is in getConn
  held,         \* the ConnPtr each handler holds
  sock          \* "unborn", "open" or "closed", for each connection

vars == <<phase, pools, opts, filler, fillerStack, pc, held, sock>>

Target == 1     \* DB_TARGET_LOBBY: the only target the program initialises

\* "exiting": ~ConnMgr is running; "cleared": its body has returned;
\* "destroyed": so are the members.  "ended", "aborted" (by an assert) and
\* "crashed" (by an access to freed memory): the process is gone.
Over == {"ended", "aborted", "crashed"}
Phases == {"boot", "serving", "exiting", "cleared", "destroyed"} \cup Over

\* The threads run: those of the io_context and the filler are not stopped by
\* std::exit.
Running == phase \in Phases \ (Over \cup {"boot"})

Init ==
  /\ phase = "boot"
  /\ pools = <<>>
  /\ opts = 0
  /\ filler = "unborn"
  /\ fillerStack = <<>>
  /\ pc = [c \in Callers |-> "idle"]
  /\ held = [c \in Callers |-> NoConn]
  /\ sock = [k \in Conns |-> "unborn"]

\* The connections of a stack, and the sockets once those of S are closed.
ConnsOf(stack) == {stack[i] : i \in DOMAIN stack} \ {Null}
Closed(S) == [k \in Conns |-> IF k \in S THEN "closed" ELSE sock[k]]

----------------------------------------------------------------------------
\* Mutant of createConn: an open connection is handed out again.
createConnShares(conn) ==
  /\ conn \in Conns
  /\ sock[conn] # "closed"
  /\ sock' = [sock EXCEPT ![conn] = "open"]

\* createConn behind its assert: conn is what the call returns.
createConn(conn) ==
  /\ Target <= opts
  /\ \/ conn = Null /\ UNCHANGED sock
     \/ /\ conn \in Conns
        /\ sock[conn] = "unborn"
        /\ sock' = [sock EXCEPT ![conn] = "open"]

\* initTarget, called once by LobbyServerCoro::run before requests are
\* accepted: push the options and an empty pool, bind a copy of the pool to
\* the filler thread.
initTarget ==
  /\ phase = "boot"
  /\ phase' = "serving"
  /\ opts' = opts + 1
  /\ pools' = Append(pools, <<>>)
  /\ filler' = "running"
  /\ fillerStack' = pools'[Target]
  /\ UNCHANGED <<pc, held, sock>>

\* Mutant of createPoolFunc: an uninitialised pointer is pushed.
createPoolFuncGarbage ==
  /\ filler = "running"
  /\ Len(fillerStack) < PoolMax
  /\ fillerStack' = Append(fillerStack, NoConn)
  /\ UNCHANGED <<phase, pools, opts, filler, pc, held, sock>>

\* One turn of createPoolFunc's loop: a failed createConn is pushed too.
createPoolFunc ==
  /\ filler = "running"
  /\ Len(fillerStack) < PoolMax
  /\ \E conn \in Conns \cup {Null} :
       createConn(conn) /\ fillerStack' = Append(fillerStack, conn)
  /\ UNCHANGED <<phase, pools, opts, filler, pc, held>>

\* Mutant of FillerReturns: the bound copy is leaked.
FillerReturnsLeaks ==
  /\ filler = "running"
  /\ Len(fillerStack) = PoolMax
  /\ filler' = "ended"
  /\ fillerStack' = <<>>
  /\ UNCHANGED <<phase, pools, opts, pc, held, sock>>

\* The filler thread returns; its bound copy of the pool is destroyed.
FillerReturns ==
  /\ filler = "running"
  /\ Len(fillerStack) = PoolMax
  /\ filler' = "ended"
  /\ fillerStack' = <<>>
  /\ sock' = Closed(ConnsOf(fillerStack))
  /\ UNCHANGED <<phase, pools, opts, pc, held>>

\* getConn up to the end of its locked block, behind its assert.
getConn(c) ==
  /\ Running
  /\ pc[c] = "idle"
  /\ Target \in DOMAIN pools
  /\ IF pools[Target] # <<>>
       THEN /\ held' = [held EXCEPT ![c] = Last(pools[Target])]
            /\ pools' = [pools EXCEPT ![Target] = Front(@)]
            /\ pc' = [pc EXCEPT ![c] = "using"]
       ELSE /\ pc' = [pc EXCEPT ![c] = "connect"]
            /\ UNCHANGED <<held, pools>>
  /\ UNCHANGED <<phase, opts, filler, fillerStack, sock>>

\* The rest of getConn: connect synchronously, outside the lock.
getConnConnect(c) ==
  /\ Running
  /\ pc[c] = "connect"
  /\ \E conn \in Conns \cup {Null} :
       createConn(conn) /\ held' = [held EXCEPT ![c] = conn]
  /\ pc' = [pc EXCEPT ![c] = "using"]
  /\ UNCHANGED <<phase, pools, opts, filler, fillerStack>>

\* Mutant of DropConn: the connection goes back to the pool, still in use.
DropConnToPool(c) ==
  /\ Running
  /\ pc[c] = "using"
  /\ pc' = [pc EXCEPT ![c] = "idle"]
  /\ held' = [held EXCEPT ![c] = NoConn]
  /\ pools' = [pools EXCEPT ![Target] = Append(@, held[c])]
  /\ UNCHANGED <<phase, opts, filler, fillerStack, sock>>

\* The handler ends and its connObj goes out of scope (releaseConn, which
\* does nothing, is never called).
DropConn(c) ==
  /\ Running
  /\ pc[c] = "using"
  /\ pc' = [pc EXCEPT ![c] = "idle"]
  /\ held' = [held EXCEPT ![c] = NoConn]
  /\ sock' = Closed({held[c]})
  /\ UNCHANGED <<phase, pools, opts, filler, fillerStack>>

\* std::exit is called, or main returns: the destructors of static objects
\* run on that thread.
StartExit ==
  /\ phase = "serving"
  /\ phase' = "exiting"
  /\ UNCHANGED <<pools, opts, filler, fillerStack, pc, held, sock>>

\* One turn of the loops of ~ConnMgr, which takes no lock: a pooled connection
\* is closed; when none is left the pools are cleared.
DestroyPools ==
  /\ phase = "exiting"
  /\ IF \E i \in DOMAIN pools : pools[i] # <<>>
       THEN \E i \in DOMAIN pools :
              /\ pools[i] # <<>>
              /\ pools' = [pools EXCEPT ![i] = Front(@)]
              /\ sock' = Closed({Last(pools[i])})
              /\ UNCHANGED phase
       ELSE /\ pools' = <<>>
            /\ phase' = "cleared"
            /\ UNCHANGED sock
  /\ UNCHANGED <<opts, filler, fillerStack, pc, held>>

\* The members are destroyed: who reads _opts from now on finds the pointers
\* it had, or others.
DestroyMembers ==
  /\ phase = "cleared"
  /\ phase' = "destroyed"
  /\ opts' \in {0, opts}
  /\ UNCHANGED <<pools, filler, fillerStack, pc, held, sock>>

\* The process ends, and with it all threads and sockets.
EndProcess(how) ==
  /\ phase' = how
  /\ pools' = <<>>
  /\ opts' = 0
  /\ filler' = "ended"
  /\ fillerStack' = <<>>
  /\ pc' = [c \in Callers |-> "idle"]
  /\ held' = [c \in Callers |-> NoConn]
  /\ sock' = Closed({k \in Conns : sock[k] = "open"})

\* A thread is at the beginning of createConn.
Creating ==
  \/ filler = "running" /\ Len(fillerStack) < PoolMax
  \/ \E c \in Callers : pc[c] = "connect"

\* The assert of getConn fails.
getConnAborts(c) ==
  /\ Running
  /\ pc[c] = "idle"
  /\ Target \notin DOMAIN pools
  /\ EndProcess("aborted")

\* The assert of createConn fails.
createConnAborts == Running /\ Creating /\ Target > opts /\ EndProcess("aborted")

\* createConn reads the freed options of a destroyed _opts.
createConnCrashes ==
  /\ phase = "destroyed"
  /\ Creating
  /\ Target <= opts
  /\ EndProcess("crashed")

\* The last destructor has run.
ExitEnds == phase = "destroyed" /\ EndProcess("ended")

Next ==
  \/ initTarget
  \/ createPoolFunc
  \/ FillerReturns
  \/ \E c \in Callers : getConn(c)
  \/ \E c \in Callers : getConnConnect(c)
  \/ \E c \in Callers : DropConn(c)
  \/ StartExit
  \/ DestroyPools
  \/ DestroyMembers
  \/ \E c \in Callers : getConnAborts(c)
  \/ createConnAborts
  \/ createConnCrashes
  \/ ExitEnds

\* The filler loop and every handler keep running: threads are scheduled and
\* the synchronous resolve/connect returns or throws.  Nothing makes the
\* process exit.
Fairness ==
  /\ WF_vars(createPoolFunc \/ FillerReturns)
  /\ WF_vars(createConnAborts)
  /\ \A c \in Callers : WF_vars(getConnConnect(c)) /\ WF_vars(DropConn(c))

Spec == Init /\ [][Next]_vars /\ Fairness

----------------------------------------------------------------------------
(* Properties *)

\* Type invariant: every variable keeps the type its C++ declaration gives it.
TypeOK ==
  /\ phase \in Phases
  /\ pools \in Seq(Seq(Conns \cup {Null}))
  /\ opts \in Nat
  /\ filler \in {"unborn", "running", "ended"}
  /\ fillerStack \in Seq(Conns \cup {Null})
  /\ pc \in [Callers -> {"idle", "connect", "using"}]
  /\ held \in [Callers -> Conns \cup {Null, NoConn}]
  /\ sock \in [Conns -> {"unborn", "open", "closed"}]

\* Every handler has a connection to itself (getConn, mysqlConnMgr.cpp:59): it
\* is open, no other handler holds it, and the background thread, which fills
\* its stack without taking the mutex, does not hold it either.
ExclusiveUse ==
  \A c \in Callers : held[c] \in Conns =>
    /\ sock[held[c]] = "open"
    /\ \A d \in Callers \ {c} : held[d] # held[c]
    /\ held[c] \notin ConnsOf(fillerStack)

\* No socket leaks: an open connection belongs to a handler or to the running
\* filler thread, and the filler never holds more than MYSQL_CONN_POOL_MAX
\* (createPoolFunc, mysqlConnMgr.cpp:36; the implicit close of DropConn).
NoLeak ==
  /\ \A k \in Conns : sock[k] = "open" =>
       \/ \E c \in Callers : held[c] = k
       \/ k \in ConnsOf(fillerStack)
  /\ Len(fillerStack) <= PoolMax

\* A connection that the filler thread opened is closed again in the end: by
\* the thread's return, which destroys the copy of the pool it has filled
\* (mysqlConnMgr.cpp:54), or by the end of the process, however that comes.
PrewarmedIsClosed ==
  \A k \in Conns :
    k \in ConnsOf(fillerStack) ~> sock[k] = "closed"

\* ConnMgr implements the contract the handlers rely on.
Owner == [k \in Conns |->
            IF \E c \in Callers : held[c] = k
              THEN CHOOSE c \in Callers : held[c] = k
              ELSE IF sock[k] = "closed" THEN Null ELSE NoConn]

Source == INSTANCE ConnSource WITH owner <- Owner, Nobody <- NoConn, Gone <- Null
ImplementsConnSource == Source!Spec

\* mysqlConnMgr.cpp:68 says "if there is a session created beforehand, return
\* it": getConn goes on to connect only when the sessions created beforehand
\* are used up.
ReturnsPrewarmed ==
  [][\A c \in Callers : pc[c] = "idle" /\ pc'[c] = "connect" =>
       ConnsOf(fillerStack) = {}]_vars

\* mysqlConnMgr.cpp:64 asserts targetIdx < _pools.size() and :83 the same of
\* _opts: no call of getConn or createConn fails its assert.
TargetExists == phase # "aborted"
============================================================================
