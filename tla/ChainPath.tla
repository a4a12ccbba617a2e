------------------------------ MODULE ChainPath ------------------------------
(***************************************************************************)
(* Blocks, chains and the validator set they imply (chain.rs,              *)
(* membership.rs and Node::active_set_at).                                 *)
(*                                                                         *)
(* A block id is a hash of the header, and the header holds the id of the  *)
(* parent: an id determines the whole path of headers down to genesis.     *)
(* That path is the block here, so that equal ids are equal values, the    *)
(* parent of a block is the path without its last header, its height is    *)
(* the length of the path, and a chain is the block at its head (genesis   *)
(* being the empty path).                                                  *)
(***************************************************************************)
EXTENDS Integers, Sequences, FiniteSets

CONSTANTS Node,      \* everybody who may ever run: genesis validators and joiners
          Genesis    \* the genesis validator set

ASSUME GenesisAssumption == IsFiniteSet(Node) /\ Genesis \subseteq Node

(* A self-signed membership change: the subject asks to be added or removed. *)
Op == [kind : {"add", "remove"}, subject : Node]

(***************************************************************************)
(* The part of a BlockHeader that tells two blocks of one parent apart.    *)
(* `alt` marks the second, emptied variant that an equivocating leader     *)
(* signs beside the first (assemble_block with alt = true).                *)
(***************************************************************************)
Header == [view : Nat, proposer : Node, ops : SUBSET Op, alt : BOOLEAN]

Path == Seq(Header)

Block == Path \ {<<>>}

Tip(b) == b[Len(b)]

Parent(b) == SubSeq(b, 1, Len(b) - 1)

(* try_append: the block is at the next height and names the head as its parent. *)
Extends(b, head) == b # <<>> /\ Parent(b) = head

(* The heights of the blocks of a path that carry a membership op about v. *)
OpHeights(path, v) == {i \in 1..Len(path) : \E o \in path[i].ops : o.subject = v}

(* Mutant: the first op about a node decides. *)
MutIsActive(path, v) ==
    \/ OpHeights(path, v) = {} /\ v \in Genesis
    \/ \E i \in OpHeights(path, v) :
          /\ \A j \in OpHeights(path, v) : i <= j
          /\ [kind |-> "add", subject |-> v] \in path[i].ops

(* v is in the set after path: the latest op about it decides, or genesis if there is none. *)
IsActive(path, v) ==
    \/ OpHeights(path, v) = {} /\ v \in Genesis
    \/ \E i \in OpHeights(path, v) :
          /\ \A j \in OpHeights(path, v) : j <= i
          /\ [kind |-> "add", subject |-> v] \in path[i].ops

(***************************************************************************)
(* active_set_at(blocks, Len(path) + 1): genesis folded forward by every   *)
(* op of the blocks below that height (ACTIVATION_DELAY is 1).             *)
(***************************************************************************)
ActiveSet(path) == {v \in Node : IsActive(path, v)}

(* ValidatorSet::apply for every op of a block. *)
ApplyBlock(header, set) ==
    (set \ {o.subject : o \in {p \in header.ops : p.kind = "remove"}})
        \cup {o.subject : o \in {p \in header.ops : p.kind = "add"}}
=============================================================================
