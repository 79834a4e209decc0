--------------------------- MODULE MCLobbyServer ---------------------------
(* Instances of LobbyServer for TLC. *)
EXTENDS LobbyServer, TLC

CONSTANTS r1, r2, r3, t1, t2, u1, u2, v1

TwoRequests == {r1, r2}
ThreeRequests == {r1, r2, r3}
OneThread == {t1}
TwoThreads == {t1, t2}
OneUser == {u1}
TwoUsers == {u1, u2}
OneValue == {v1}

\* Every well-formed request with a session key that can exist.
WellFormed == {q \in RequestKinds : q.op # "alive" /\ q.body = "ok"
                                    /\ q.key \notin {ForeignKey}
                                    /\ (q.op \in SessionOps => q.key # NoKey)}
\* ... and requests without their parameter.
WithoutField == WellFormed \cup
    {q \in RequestKinds : q.body = "nofield" /\ (q.op \in SessionOps => q.key \in Keys)}
\* Every kind of request with one thing wrong at most: the session key, or the
\* body; value_get checks the session and parses as value_set does, and comes
\* without a fault.
OneFault == {q \in RequestKinds :
                /\ q.op = "value_set" => (q.body = "ok" \/ q.key \in Keys)
                /\ q.op = "value_get" => (q.body = "ok" /\ q.key \in Keys)}

RequestSymmetry == Permutations(Requests) \cup Permutations(Threads)
============================================================================
