---------------------------- MODULE MCConsensus ----------------------------
(* Small instances of Consensus: the nodes are 1, 2, .... *)
EXTENDS Consensus

(***************************************************************************)
(* Node h leads view 0 of height h, the next view the next node, as long   *)
(* as all are active; another view of the parent draws another beacon.     *)
(***************************************************************************)
MCLeaderKey(head) ==
    LET shift == Len(head) + (IF head = <<>> THEN 0 ELSE Tip(head).view)
    IN [n \in Node |-> (n - 1 - shift) % Cardinality(Node)]

(* Node 1 comes first at genesis and last at every later head. *)
FirstOnceKey(head) == [n \in Node |-> IF head = <<>> THEN n ELSE Cardinality(Node) - n]

(* How many views may be announced at each height. *)
Lockstep == [h \in 1..MaxHeight |-> 0]
OneChange == [h \in 1..MaxHeight |-> 1]
FirstChange == [h \in 1..MaxHeight |-> IF h = 1 THEN 1 ELSE 0]
LateChanges == [h \in 1..MaxHeight |-> IF h = MaxHeight THEN 2 ELSE 0]

Nobody == [n \in Node |-> 0]

(* Node 1 leaves at height 1; it comes back from height 3 on. *)
FirstAtOne == [n \in Node |-> IF n = 1 THEN 1 ELSE 0]
FirstAtThree == [n \in Node |-> IF n = 1 THEN 3 ELSE 0]
=============================================================================
