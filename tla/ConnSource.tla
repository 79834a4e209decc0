----------------------------- MODULE ConnSource -----------------------------
(***************************************************************************)
(* What the request handlers rely on when they call ConnMgr::getConn: a    *)
(* connection belongs to one handler at a time, is handed out once, and is *)
(* never handed out after it has been closed.  How the connections are     *)
(* produced (a warm pool, a fresh connect) is left open; ConnMgr is shown  *)
(* to implement this specification.                                        *)
(***************************************************************************)

CONSTANTS Callers,   \* the handlers that ask for connections
          Conns,     \* identities of connections
          Nobody,    \* owner of a connection that no handler has received
          Gone       \* owner of a connection that has been closed

VARIABLE owner       \* who may use the connection now

Init == owner = [k \in Conns |-> Nobody]

\* getConn returns k to c.
Hand(c, k) ==
  /\ owner[k] = Nobody
  /\ \A j \in Conns : owner[j] # c
  /\ owner' = [owner EXCEPT ![k] = c]

\* Connections are closed: the handler that owns one lets go of it, an idle one
\* is discarded, or the process ends.  Nothing is ever handed out again.
Close(S) == owner' = [k \in Conns |-> IF k \in S THEN Gone ELSE owner[k]]

Next ==
  \/ \E c \in Callers, k \in Conns : Hand(c, k)
  \/ \E S \in SUBSET Conns : Close(S)

Spec == Init /\ [][Next]_owner
=============================================================================
