---------------------------- MODULE MCVerdict ----------------------------
(* Small instances of Verdict: "a1" is a transaction of the author "a", "b" of another. *)
EXTENDS Verdict

MCOwner == [t \in Target |-> IF t = "a1" THEN "a" ELSE t]

Content(txs, ops) == [txs |-> txs, ops |-> ops]

Join(n) == [kind |-> "add", subject |-> n]
Leave(n) == [kind |-> "remove", subject |-> n]

(***************************************************************************)
(* Either the transactions come and the set stays as it is, or the first   *)
(* node leaves and the last one, a newcomer, joins.                        *)
(***************************************************************************)
MCPlan ==
    <<{Content({"a1", "b"}, {}), Content({}, {Leave(1), Join(Cardinality(Node))})}>>
=============================================================================
