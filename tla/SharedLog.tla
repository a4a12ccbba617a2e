----------------------------- MODULE SharedLog -----------------------------
(***************************************************************************)
(* What the protocols on top of the chain take for granted: the nodes read *)
(* one log, each as much of it as has reached it.  A block is put at the   *)
(* end by somebody who has the whole log, no block is ever replaced, and   *)
(* no node goes back.                                                      *)
(***************************************************************************)
EXTENDS Naturals, Sequences

CONSTANT Node

VARIABLES log,       \* the blocks that were finalized, in order
          copy       \* the chain of each node

Init == log = <<>> /\ copy = [n \in Node |-> <<>>]

(* Who has the whole log and sees the quorum of the next block appends it. *)
Extend(n) ==
    /\ copy[n] = log
    /\ Len(log') = Len(log) + 1 /\ SubSeq(log', 1, Len(log)) = log
    /\ copy' = [copy EXCEPT ![n] = log']

(* A node appends some of the blocks it has not got yet. *)
Follow(n) ==
    /\ log' = log
    /\ \E k \in Len(copy[n]) + 1..Len(log) : copy' = [copy EXCEPT ![n] = SubSeq(log, 1, k)]

Next == \E n \in Node : Extend(n) \/ Follow(n)

Spec == Init /\ [][Next]_<<log, copy>>
=============================================================================
