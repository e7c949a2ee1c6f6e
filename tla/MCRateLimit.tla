---------------------------- MODULE MCRateLimit ----------------------------
(* Three requests of one client to one route, each handled by a gateway of *)
(* its own.                                                                *)
EXTENDS RateLimit, TLC

CONSTANTS r1, r2, r3

MCGateway == [r \in Requests |-> r]
MCClient == [r \in Requests |-> "client"]
MCService == [r \in Requests |-> "users"]
MCRoute == [r \in Requests |-> "list"]
MCLimit == [second |-> 1, minute |-> 2, hour |-> 0]
MCLength == [second |-> 1, minute |-> 2, hour |-> 4]

RequestSymmetry == Permutations(Requests)
=============================================================================
