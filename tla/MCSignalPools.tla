--------------------------- MODULE MCSignalPools ---------------------------
(* Small instances of SignalPools: four scenarios among the same nodes. *)
EXTENDS SignalPools

Entry(txs, ops) == [txs |-> txs, ops |-> ops]
Join(n) == [kind |-> "add", subject |-> n]
Leave(n) == [kind |-> "remove", subject |-> n]

Nobody == [n \in Node |-> {}]
Empty == [j \in Item |-> 0]

(* A transaction of n that weighs one item. *)
Likes(id, n, j, w) == [id |-> id, by |-> n, malformed |-> FALSE, gossip |-> [Empty EXCEPT ![j] = w]]

Quiet == [up |-> {1, 2, 3}, plan |-> <<>>, observers |-> {}, rogue |-> Nobody, watchdogs |-> {}, rewinders |-> {},
          taste |-> [n \in Node |-> 1], leavers |-> {}]

(* Two join, both leave, one of them joins again. *)
Burst == [Quiet EXCEPT
    !.plan = <<Entry({}, {Join(4)}), Entry({}, {Leave(4), Join(5)}), Entry({}, {}),
               Entry({}, {Leave(5), Join(4)})>>,
    !.observers = {1}]

(* One node commits against two transactions, one of which proves to be malformed. *)
Rogue == [Quiet EXCEPT
    !.plan = <<Entry({}, {}), Entry({[id |-> 7, by |-> 3, malformed |-> TRUE, gossip |-> Empty]}, {})>>,
    !.rogue = [Nobody EXCEPT ![1] = {7, 8}],
    !.watchdogs = {2, 3}]

(* An item foreign to two nodes rises, then another that is not. *)
Spike == [Quiet EXCEPT
    !.plan = <<Entry({Likes(1, 1, 1, 1), Likes(2, 2, 2, 1), Likes(3, 3, 3, 0)}, {}),
               Entry({Likes(4, 3, 3, 3)}, {}),
               Entry({Likes(5, 1, 1, 2), Likes(6, 3, 3, 3)}, {})>>,
    !.rewinders = {1, 2, 3}, !.taste = [n \in Node |-> IF n \in Item THEN n ELSE 1]]

(* One publishes twice and leaves, and two more blocks follow. *)
Proof == [Quiet EXCEPT
    !.plan = <<Entry({Likes(1, 3, 1, 1)}, {}), Entry({Likes(2, 3, 1, 1)}, {Leave(3)}), Entry({}, {}), Entry({}, {})>>,
    !.leavers = {3}]

AllScenarios == {Burst, Rogue, Spike, Proof}
JustBurst == {Burst}
JustRogue == {Rogue}
JustSpike == {Spike}
JustProof == {Proof}
====
