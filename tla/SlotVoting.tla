----------------------------- MODULE SlotVoting -----------------------------
(***************************************************************************)
(* What the votes of a height promise, without messages, leaders, rounds   *)
(* or timeouts: validators sign ballots, a block becomes final once a      *)
(* quorum of the validators its own past names has signed it in its view,  *)
(* and a validator that is not faulty signs one ballot per height and view.*)
(***************************************************************************)
EXTENDS ChainPath, BftQuorum

CONSTANT Faulty            \* the validators that may sign two ballots for one slot

VARIABLES ballots,         \* every signed vote
          certified        \* every block that was ever final at some node

Voters(b) == {x.voter : x \in {y \in ballots : y.block = b /\ y.height = Len(b) /\ y.view = Tip(b).view}}

(* The validators of the height of a block. *)
Electorate(b) == ActiveSet(Parent(b))

(* No voter outside Faulty signs two ids for one height and view. *)
OneVotePerSlot ==
    \A x, y \in ballots :
        /\ x.voter = y.voter /\ x.height = y.height /\ x.view = y.view
        /\ x.voter \notin Faulty
        => x.block = y.block

Init == ballots = {} /\ certified = {}

(* Ballots are signed, and blocks become final that have their quorum by then. *)
Next ==
    /\ ballots \subseteq ballots' /\ OneVotePerSlot'
    /\ certified \subseteq certified'
    /\ \A b \in certified' \ certified : b \in Block /\ IsQuorum(Voters(b)', Electorate(b))

Spec == Init /\ [][Next]_<<ballots, certified>>

(* One block per parent and view, unless a third of its validators are faulty. *)
SlotAgreement ==
    \A b, c \in certified :
        /\ Parent(b) = Parent(c) /\ Tip(b).view = Tip(c).view
        /\ 3 * Cardinality(Faulty \cap Electorate(b)) < Cardinality(Electorate(b))
        => b = c
=============================================================================
