----------------------------- MODULE MCConnMgr -----------------------------
(* Instance of ConnMgr for TLC: two handlers at a time, four connections,  *)
(* enough for a full pool of two beside one connection for each handler.   *)
EXTENDS ConnMgr

CONSTANTS c1, c2, k1, k2, k3, k4

MCCallers == {c1, c2}
MCConns == {k1, k2, k3, k4}
============================================================================
