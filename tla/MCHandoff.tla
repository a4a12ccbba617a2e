---------------------------- MODULE MCHandoff ----------------------------
(* Small instances of Handoff: the last node leaves first, then the first. *)
EXTENDS Handoff

Last == Cardinality(Node)

MCSortitionKey(s) == [n \in Node |-> IF s.round = 0 THEN n ELSE Last - n]

Ordered(txs, ops) == [txs |-> txs, ops |-> ops]
Leave(n) == [kind |-> "remove", subject |-> n]

(* The last node publishes; then it leaves, and the first one too. *)
LeavePlan == <<Ordered({Last}, {}), Ordered({}, {Leave(Last), Leave(1)})>>

(* The leaver is connected to one node only. *)
Edge == [n \in Node |-> IF n = Last THEN {2} ELSE (Node \ {n, Last}) \cup {x \in {Last} : n = 2}]
=============================================================================
