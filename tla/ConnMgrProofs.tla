--------------------------- MODULE ConnMgrProofs ---------------------------
(***************************************************************************)
(* Proofs about ConnMgr, for any number of handlers and connections and    *)
(* any MYSQL_CONN_POOL_MAX.                                                *)
(***************************************************************************)
EXTENDS ConnMgr, TLAPS

\* What the code keeps true beside the types: the pool the handlers look into
\* is there from initTarget to the destructor and stays empty, threads run
\* from initTarget to the end of the process, and a handler that is not using
\* a connection holds none.
PoolsEmpty ==
  /\ phase = "boot" <=> filler = "unborn"
  /\ phase \in {"serving", "exiting"} => pools = << <<>> >>
  /\ phase \notin {"serving", "exiting"} => pools = <<>>
  /\ ~Running => \A c \in Callers : pc[c] = "idle"
  /\ filler = "running" => Running
  /\ \A c \in Callers : pc[c] # "using" => held[c] = NoConn

\* The filler's connections are open and its own.
FillerOwns ==
  /\ filler # "running" => fillerStack = <<>>
  /\ \A i \in 1..Len(fillerStack) : fillerStack[i] # Null =>
       /\ sock[fillerStack[i]] = "open"
       /\ \A c \in Callers : held[c] # fillerStack[i]

IInv == TypeOK /\ PoolsEmpty /\ FillerOwns /\ ExclusiveUse

\* The invariant holds before initTarget has run.
LEMMA InitIInv == Init => IInv
  BY ConnMgrAssumption DEF Init, IInv, TypeOK, PoolsEmpty, FillerOwns, ExclusiveUse, ConnsOf, Running, Phases, Over

----------------------------------------------------------------------------
\* The destructor finds no pooled connection: its step clears the pools.
LEMMA NothingPooled ==
  IInv /\ DestroyPools =>
    /\ phase = "exiting" /\ phase' = "cleared" /\ pools' = <<>>
    /\ UNCHANGED <<opts, filler, fillerStack, pc, held, sock>>
  BY DEF IInv, PoolsEmpty, DestroyPools

\* Nor does a handler: getConn goes on to connect.
LEMMA ConnectsAnew ==
  ASSUME IInv, NEW c \in Callers, getConn(c)
  PROVE  /\ pc[c] = "idle" /\ pc' = [pc EXCEPT ![c] = "connect"]
         /\ UNCHANGED <<phase, pools, opts, filler, fillerStack, held, sock>>
<1>1. pools = << <<>> >> \/ pools = <<>>
  BY DEF IInv, PoolsEmpty
<1>2. Target \in DOMAIN pools
  BY DEF getConn
<1>3. pools[Target] = <<>>
  BY <1>1, <1>2 DEF Target
<1> QED
  BY <1>3 DEF getConn

\* The steps with which a process ends.
Ending ==
  \/ \E c \in Callers : getConnAborts(c)
  \/ createConnAborts
  \/ createConnCrashes
  \/ ExitEnds

\* They are alike.
LEMMA Endings == Ending => \E how \in Over : EndProcess(how)
  BY DEF Ending, getConnAborts, createConnAborts, createConnCrashes, ExitEnds, Over

\* The steps preserve the invariant; the action says what it needs of the rest.
LEMMA NextIInv == IInv /\ [Next]_vars => IInv'
<1> SUFFICES ASSUME IInv, [Next]_vars PROVE IInv'
  OBVIOUS
<1> USE ConnMgrAssumption DEF IInv, Running, Phases, Over
<1>1. CASE initTarget
  BY <1>1 DEF initTarget, TypeOK, PoolsEmpty, FillerOwns, ExclusiveUse, ConnsOf, Target
<1>2. CASE createPoolFunc
  <2>1. PICK conn \in Conns \cup {Null} :
          createConn(conn) /\ fillerStack' = Append(fillerStack, conn)
    BY <1>2 DEF createPoolFunc
  <2>2. TypeOK'
    <3>1. fillerStack' \in Seq(Conns \cup {Null})
      BY <2>1 DEF TypeOK
    <3>2. sock' \in [Conns -> {"unborn", "open", "closed"}]
      BY <2>1 DEF createConn, TypeOK
    <3> QED BY <1>2, <3>1, <3>2 DEF createPoolFunc, TypeOK
  <2>3. PoolsEmpty'
    BY <1>2 DEF createPoolFunc, PoolsEmpty
  <2>4. FillerOwns'
    BY <1>2, <2>1 DEF createPoolFunc, createConn, TypeOK, FillerOwns, ExclusiveUse, ConnsOf
  <2>5. ExclusiveUse'
    BY <1>2, <2>1 DEF createPoolFunc, createConn, TypeOK, FillerOwns, ExclusiveUse, ConnsOf
  <2> QED BY <2>2, <2>3, <2>4, <2>5
<1>3. CASE FillerReturns
  <2>1. TypeOK' /\ PoolsEmpty'
    BY <1>3 DEF FillerReturns, Closed, TypeOK, PoolsEmpty
  <2>2. FillerOwns' /\ ExclusiveUse'
    BY <1>3 DEF FillerReturns, Closed, TypeOK, FillerOwns, ExclusiveUse, ConnsOf
  <2> QED BY <2>1, <2>2
<1>4. ASSUME NEW c \in Callers, getConn(c) PROVE IInv'
  <2>1. /\ pc[c] = "idle" /\ pc' = [pc EXCEPT ![c] = "connect"]
        /\ UNCHANGED <<phase, pools, opts, filler, fillerStack, held, sock>>
    BY <1>4, ConnectsAnew
  <2>2. Running
    BY <1>4 DEF getConn
  <2> QED BY <2>1, <2>2 DEF TypeOK, PoolsEmpty, FillerOwns, ExclusiveUse, ConnsOf
<1>5. ASSUME NEW c \in Callers, getConnConnect(c) PROVE IInv'
  <2>1. PICK conn \in Conns \cup {Null} :
          createConn(conn) /\ held' = [held EXCEPT ![c] = conn]
    BY <1>5 DEF getConnConnect
  <2>2. TypeOK' /\ PoolsEmpty'
    BY <1>5, <2>1 DEF getConnConnect, createConn, TypeOK, PoolsEmpty
  <2>3. FillerOwns'
    BY <1>5, <2>1 DEF getConnConnect, createConn, TypeOK, FillerOwns
  <2>4. ExclusiveUse'
    BY <1>5, <2>1 DEF getConnConnect, createConn, TypeOK, FillerOwns, ExclusiveUse, ConnsOf
  <2> QED BY <2>2, <2>3, <2>4
<1>6. ASSUME NEW c \in Callers, DropConn(c) PROVE IInv'
  <2>1. TypeOK' /\ PoolsEmpty'
    BY <1>6 DEF DropConn, Closed, TypeOK, PoolsEmpty
  <2>2. FillerOwns'
    BY <1>6 DEF DropConn, Closed, TypeOK, FillerOwns
  <2>3. ExclusiveUse'
    BY <1>6 DEF DropConn, Closed, TypeOK, ExclusiveUse, ConnsOf
  <2> QED BY <2>1, <2>2, <2>3
<1>7. CASE StartExit
  BY <1>7 DEF StartExit, TypeOK, PoolsEmpty, FillerOwns, ExclusiveUse, ConnsOf
<1>8. CASE DestroyPools
  BY <1>8, NothingPooled DEF TypeOK, PoolsEmpty, FillerOwns, ExclusiveUse, ConnsOf
<1>9. CASE DestroyMembers
  BY <1>9 DEF DestroyMembers, TypeOK, PoolsEmpty, FillerOwns, ExclusiveUse, ConnsOf
<1>10. ASSUME NEW how \in Over, EndProcess(how) PROVE IInv'
  BY <1>10 DEF EndProcess, Closed, TypeOK, PoolsEmpty, FillerOwns, ExclusiveUse, ConnsOf
<1>11. CASE UNCHANGED vars
  BY <1>11 DEF vars, TypeOK, PoolsEmpty, FillerOwns, ExclusiveUse, ConnsOf
<1> QED
  BY <1>1, <1>2, <1>3, <1>4, <1>5, <1>6, <1>7, <1>8, <1>9, <1>10, <1>11, Endings DEF Next, Ending

\* ConnMgr keeps the inductive invariant, whatever its threads do.
THEOREM InvariantHolds == Spec => []IInv
  BY InitIInv, NextIInv, PTL DEF Spec

\* Every handler has its connection to itself, whatever the pool thread does
\* (ConnMgr::getConn).
THEOREM ConnectionsAreExclusive == Spec => []ExclusiveUse
  BY InvariantHolds, PTL DEF IInv

\* Every variable keeps its type.
THEOREM TypeCorrect == Spec => []TypeOK
  BY InvariantHolds, PTL DEF IInv

----------------------------------------------------------------------------
\* An open socket always has a holder: sockets are opened into a handler's
\* hands or onto the filler's stack, and closed when those let go.
LEMMA NoLeakStep == IInv /\ NoLeak /\ [Next]_vars => NoLeak'
<1> SUFFICES ASSUME IInv, NoLeak, [Next]_vars PROVE NoLeak'
  OBVIOUS
<1> USE ConnMgrAssumption DEF NoLeak, IInv, ConnsOf
<1>1. CASE initTarget
  BY <1>1 DEF initTarget, TypeOK, PoolsEmpty, FillerOwns, Target
<1>2. CASE createPoolFunc
  <2>1. PICK conn \in Conns \cup {Null} :
          createConn(conn) /\ fillerStack' = Append(fillerStack, conn)
    BY <1>2 DEF createPoolFunc
  <2>2. Len(fillerStack') <= PoolMax
    BY <1>2, <2>1 DEF createPoolFunc, TypeOK
  <2>3. ASSUME NEW k \in Conns, sock'[k] = "open"
        PROVE  (\E c \in Callers : held'[c] = k) \/ k \in ConnsOf(fillerStack')
    <3>1. CASE k = conn
      <4>1. fillerStack'[Len(fillerStack) + 1] = k
             /\ Len(fillerStack) + 1 \in DOMAIN fillerStack'
        BY <2>1, <3>1 DEF TypeOK
      <4> QED BY <4>1
    <3>2. CASE k # conn
      <4>1. sock[k] = "open"
        BY <2>1, <2>3, <3>2 DEF createConn, TypeOK
      <4>2. \A i \in DOMAIN fillerStack :
              i \in DOMAIN fillerStack' /\ fillerStack'[i] = fillerStack[i]
        BY <2>1 DEF TypeOK
      <4> QED BY <1>2, <4>1, <4>2 DEF createPoolFunc
    <3> QED BY <3>1, <3>2
  <2> QED BY <2>2, <2>3
<1>3. CASE FillerReturns
  BY <1>3 DEF FillerReturns, Closed, TypeOK
<1>4. ASSUME NEW c \in Callers, getConn(c) PROVE NoLeak'
  <2>1. held' = held /\ sock' = sock /\ fillerStack' = fillerStack
    BY <1>4, ConnectsAnew
  <2> QED BY <2>1
<1>5. ASSUME NEW c \in Callers, getConnConnect(c) PROVE NoLeak'
  <2>1. PICK conn \in Conns \cup {Null} :
          createConn(conn) /\ held' = [held EXCEPT ![c] = conn]
    BY <1>5 DEF getConnConnect
  <2> QED BY <1>5, <2>1 DEF getConnConnect, createConn, TypeOK, PoolsEmpty
<1>6. ASSUME NEW c \in Callers, DropConn(c) PROVE NoLeak'
  BY <1>6 DEF DropConn, Closed, TypeOK
<1>7. CASE StartExit \/ DestroyMembers \/ UNCHANGED vars
  BY <1>7 DEF StartExit, DestroyMembers, vars
<1>8. CASE DestroyPools
  BY <1>8, NothingPooled
<1>9. ASSUME NEW how \in Over, EndProcess(how) PROVE NoLeak'
  BY <1>9 DEF EndProcess, Closed, TypeOK
<1> QED
  BY <1>1, <1>2, <1>3, <1>4, <1>5, <1>6, <1>7, <1>8, <1>9, Endings DEF Next, Ending

\* No socket is leaked (createPoolFunc, the handlers' connObj).
THEOREM SocketsDoNotLeak == Spec => []NoLeak
<1>1. Init => NoLeak
  BY ConnMgrAssumption DEF Init, NoLeak
<1> QED
  BY InvariantHolds, NoLeakStep, <1>1, PTL DEF Spec

----------------------------------------------------------------------------
(* ConnMgr implements ConnSource. *)

\* Owner reads back who holds a connection, and which ones are closed.
OwnerReads ==
  \A k \in Conns :
    /\ \A c \in Callers : Owner[k] = c <=> held[c] = k
    /\ (\A c \in Callers : held[c] # k) =>
         Owner[k] = IF sock[k] = "closed" THEN Null ELSE NoConn

\* What the refinement mapping says of each connection.
LEMMA OwnerIs == IInv => OwnerReads
<1> SUFFICES ASSUME TypeOK, ExclusiveUse, NEW k \in Conns
             PROVE  /\ \A c \in Callers : Owner[k] = c <=> held[c] = k
                    /\ (\A c \in Callers : held[c] # k) =>
                         Owner[k] = IF sock[k] = "closed" THEN Null ELSE NoConn
  BY DEF IInv, OwnerReads
<1>1. CASE \E c \in Callers : held[c] = k
  <2>1. PICK d \in Callers : held[d] = k
    BY <1>1
  <2>2. \A c \in Callers : held[c] = k => c = d
    BY <2>1 DEF ExclusiveUse, TypeOK
  <2>3. (CHOOSE c \in Callers : held[c] = k) = d
    BY <2>1, <2>2
  <2> QED BY <1>1, <2>1, <2>2, <2>3 DEF Owner
<1>2. CASE \A c \in Callers : held[c] # k
  BY <1>2, ConnMgrAssumption DEF Owner
<1> QED BY <1>1, <1>2

\* The same, after a step.
LEMMA OwnerIsPrimed == IInv' => OwnerReads'
  BY OwnerIs, PTL

\* A step that changes no holder and closes no socket leaves the owners alone.
LEMMA OwnerSame ==
  ASSUME OwnerReads, OwnerReads',
         \A k \in Conns, c \in Callers : held'[c] = k <=> held[c] = k,
         \A k \in Conns : sock'[k] = "closed" <=> sock[k] = "closed"
  PROVE  Owner' = Owner
<1>1. \A k \in Conns : Owner'[k] = Owner[k]
  BY DEF OwnerReads
<1>2. Owner = [k \in Conns |-> Owner[k]] /\ Owner' = [k \in Conns |-> Owner'[k]]
  BY DEF Owner
<1> QED BY <1>1, <1>2, Zenon

\* A step after which nobody holds the connections of S, which are closed, and
\* that leaves the others alone, is a Close step.
LEMMA OwnerCloses ==
  ASSUME OwnerReads, OwnerReads', NEW S \in SUBSET Conns,
         \A k \in S : sock'[k] = "closed" /\ \A c \in Callers : held'[c] # k,
         \A k \in Conns \ S : /\ \A c \in Callers : held'[c] = k <=> held[c] = k
                              /\ sock'[k] = "closed" <=> sock[k] = "closed"
  PROVE  Source!Next
<1>1. \A k \in Conns : Owner'[k] = IF k \in S THEN Null ELSE Owner[k]
  BY DEF OwnerReads
<1>2. Owner' = [k \in Conns |-> Owner'[k]]
  BY DEF Owner
<1>3. Owner' = [k \in Conns |-> IF k \in S THEN Null ELSE Owner[k]]
  BY <1>1, <1>2
<1>4. Source!Close(S)
  BY <1>3 DEF Source!Close
<1> QED BY <1>4 DEF Source!Next

\* Every step of ConnMgr is a Hand or a Close of ConnSource, or a stutter.
LEMMA StepRefines == IInv /\ IInv' /\ [Next]_vars => [Source!Next]_Owner
<1> SUFFICES ASSUME IInv, IInv', [Next]_vars PROVE [Source!Next]_Owner
  OBVIOUS
<1> USE ConnMgrAssumption
<1>a. OwnerReads /\ OwnerReads'
  BY OwnerIs, OwnerIsPrimed
<1>1. CASE initTarget
  BY <1>a, <1>1, OwnerSame DEF initTarget
<1>2. CASE createPoolFunc
  <2>1. \A k \in Conns : sock'[k] = "closed" <=> sock[k] = "closed"
    BY <1>2 DEF createPoolFunc, createConn, IInv, TypeOK
  <2>2. held' = held
    BY <1>2 DEF createPoolFunc
  <2> QED BY <1>a, <2>1, <2>2, OwnerSame
<1>3. CASE FillerReturns
  <2> DEFINE S == ConnsOf(fillerStack)
  <2>0. fillerStack \in Seq(Conns \cup {Null})
    BY DEF IInv, TypeOK
  <2>1. S \in SUBSET Conns /\ \A k \in S, c \in Callers : held[c] # k
    BY <2>0 DEF ConnsOf, IInv, FillerOwns
  <2>2. held' = held /\ sock' = Closed(S)
    BY <1>3 DEF FillerReturns
  <2>3. \A k \in S : sock'[k] = "closed" /\ \A c \in Callers : held'[c] # k
    BY <2>1, <2>2 DEF Closed
  <2>4. \A k \in Conns \ S : /\ \A c \in Callers : held'[c] = k <=> held[c] = k
                             /\ sock'[k] = "closed" <=> sock[k] = "closed"
    BY <2>2 DEF Closed
  <2> HIDE DEF S
  <2> QED BY <1>a, <2>1, <2>3, <2>4, OwnerCloses
<1>4. ASSUME NEW c \in Callers, getConn(c) PROVE [Source!Next]_Owner
  <2>1. held' = held /\ sock' = sock
    BY <1>4, ConnectsAnew
  <2> QED BY <1>a, <2>1, OwnerSame
<1>5. ASSUME NEW c \in Callers, getConnConnect(c) PROVE [Source!Next]_Owner
  <2>1. PICK conn \in Conns \cup {Null} :
          createConn(conn) /\ held' = [held EXCEPT ![c] = conn]
    BY <1>5 DEF getConnConnect
  <2>2. held[c] = NoConn
    BY <1>5 DEF getConnConnect, IInv, PoolsEmpty
  <2>3. CASE conn = Null
    <3>1. \A k \in Conns, d \in Callers : held'[d] = k <=> held[d] = k
      BY <2>1, <2>2, <2>3 DEF IInv, TypeOK
    <3>2. sock' = sock
      BY <2>1, <2>3 DEF createConn
    <3> QED BY <1>a, <3>1, <3>2, OwnerSame
  <2>4. CASE conn \in Conns
    <3>1. sock[conn] = "unborn" /\ sock' = [sock EXCEPT ![conn] = "open"]
      BY <2>1, <2>4 DEF createConn
    <3>2. \A d \in Callers : held[d] # conn
      BY <3>1, <2>4 DEF IInv, ExclusiveUse
    <3>3. Owner[conn] = NoConn
      BY <1>a, <2>4, <3>1, <3>2 DEF OwnerReads
    <3>4. \A j \in Conns : Owner[j] # c
      BY <1>a, <2>2 DEF OwnerReads
    <3>5. Owner'[conn] = c
      BY <1>a, <2>1, <2>4 DEF OwnerReads, IInv, TypeOK
    <3>6. \A k \in Conns \ {conn}, d \in Callers : held'[d] = k <=> held[d] = k
      BY <2>1, <2>2, <2>4 DEF IInv, TypeOK
    <3>7. \A k \in Conns \ {conn} : sock'[k] = sock[k]
      BY <3>1 DEF IInv, TypeOK
    <3>8. \A k \in Conns \ {conn} : Owner'[k] = Owner[k]
      BY <1>a, <3>6, <3>7 DEF OwnerReads
    <3>9. Owner' = [Owner EXCEPT ![conn] = c]
      <4>1. Owner = [k \in Conns |-> Owner[k]] /\ Owner' = [k \in Conns |-> Owner'[k]]
        BY DEF Owner
      <4> HIDE DEF Owner
      <4> QED BY <2>4, <3>5, <3>8, <4>1
    <3>10. Source!Hand(c, conn)
      BY <3>3, <3>4, <3>9 DEF Source!Hand
    <3> QED BY <2>4, <3>10 DEF Source!Next
  <2> QED BY <2>3, <2>4
<1>6. ASSUME NEW c \in Callers, DropConn(c) PROVE [Source!Next]_Owner
  <2> DEFINE S == {held[c]} \cap Conns
  <2>1. held' = [held EXCEPT ![c] = NoConn] /\ sock' = Closed({held[c]})
    BY <1>6 DEF DropConn
  <2>2. \A k \in S : sock'[k] = "closed" /\ \A d \in Callers : held'[d] # k
    BY <2>1 DEF Closed, IInv, TypeOK, ExclusiveUse
  <2>3. \A k \in Conns \ S : /\ \A d \in Callers : held'[d] = k <=> held[d] = k
                             /\ sock'[k] = "closed" <=> sock[k] = "closed"
    BY <2>1 DEF Closed, IInv, TypeOK
  <2>4. S \in SUBSET Conns
    OBVIOUS
  <2> HIDE DEF S
  <2> QED BY <1>a, <2>2, <2>3, <2>4, OwnerCloses
<1>7. ASSUME NEW how \in Over, EndProcess(how) PROVE [Source!Next]_Owner
  <2> DEFINE S == {k \in Conns : sock[k] = "open"}
  <2>1. held' = [d \in Callers |-> NoConn] /\ sock' = Closed(S)
    BY <1>7 DEF EndProcess
  <2>2. \A k \in S : sock'[k] = "closed" /\ \A d \in Callers : held'[d] # k
    BY <2>1 DEF Closed
  <2>3. \A k \in Conns \ S : \A d \in Callers : held[d] # k
    BY DEF IInv, ExclusiveUse
  <2>4. \A k \in Conns \ S : /\ \A d \in Callers : held'[d] = k <=> held[d] = k
                             /\ sock'[k] = "closed" <=> sock[k] = "closed"
    BY <2>1, <2>3 DEF Closed
  <2>5. S \in SUBSET Conns
    OBVIOUS
  <2> HIDE DEF S
  <2> QED BY <1>a, <2>2, <2>4, <2>5, OwnerCloses
<1>8. CASE StartExit \/ DestroyMembers \/ UNCHANGED vars
  BY <1>a, <1>8, OwnerSame DEF StartExit, DestroyMembers, vars
<1>9. CASE DestroyPools
  BY <1>a, <1>9, NothingPooled, OwnerSame
<1> QED
  BY <1>1, <1>2, <1>3, <1>4, <1>5, <1>6, <1>7, <1>8, <1>9, Endings DEF Next, Ending

\* Initially no connection belongs to anyone.
LEMMA InitRefines == Init => Source!Init
  BY ConnMgrAssumption DEF Init, Source!Init, Owner

\* ConnMgr gives the handlers what ConnSource promises: a connection belongs to
\* one handler at a time, is handed out once and never after it was closed.
THEOREM Refinement == Spec => ImplementsConnSource
  BY InvariantHolds, InitRefines, StepRefines, PTL
  DEF Spec, ImplementsConnSource, Source!Spec
============================================================================
