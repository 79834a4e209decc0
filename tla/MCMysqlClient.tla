---------------------------- MODULE MCMysqlClient ----------------------------
(* The parameters the lobby server uses (SSL required, a database, a password) *)
(* and one that takes SSL if it is offered; servers that lack a capability.    *)
EXTENDS MysqlClient

MCParams == {[ssl |-> "require", db |-> TRUE, blank |-> FALSE],
             [ssl |-> "enable", db |-> FALSE, blank |-> FALSE],
             [ssl |-> "disable", db |-> FALSE, blank |-> TRUE]}

MCServerCaps == {{"mandatory", "db", "ssl"}, {"mandatory", "db"}}
=============================================================================
