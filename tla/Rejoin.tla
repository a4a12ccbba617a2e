------------------------------- MODULE Rejoin -------------------------------
(***************************************************************************)
(* The admission gate for those who join (node.rs, zkstmt5.rs): a joiner   *)
(* proves that its nullifier is not in the tree of suspended nullifiers    *)
(* whose root a recent block carries.  The proof shows the verifier its    *)
(* public inputs and nothing else; it cannot be had for a false statement. *)
(*                                                                         *)
(* A chain is the sequence of the sets of nullifiers that its blocks       *)
(* suspend; genesis has height 0.                                          *)
(***************************************************************************)
EXTENDS SparseMerkle

CONSTANT Window      \* STMT5_STALENESS_WINDOW

ASSUME WindowAssumption == Window \in Nat

(* The nullifiers in the tree of the block of height h: those suspended below it. *)
SuspKeysAt(chain, h) == UNION {chain[i] : i \in 1..(h - 1)}

SuspTree(chain, h) == FromKeys(SetToSeq(SuspKeysAt(chain, h)))
SuspRootAt(chain, h) == Root(SuspTree(chain, h))

(* The public inputs of a proof: the beacon of the block it refers to, the root in it, the joiner. *)
PublicInputs(chain, ref, peer) == [beacon |-> ref, root |-> SuspRootAt(chain, ref), peer |-> peer]

(* prove_rejoin: the path of an empty leaf must lead to the root. *)
Provable(chain, ref, key) ==
    VerifyProof(SuspRootAt(chain, ref), [Prove(SuspTree(chain, ref), key) EXCEPT !.present = FALSE])

(* build_rejoin_package at the head of a chain: one package, or none for who is suspended. *)
Packages(chain, key, peer) ==
    {[ref |-> h, inputs |-> PublicInputs(chain, h, peer)] : h \in {x \in {Len(chain)} : Provable(chain, x, key)}}

(* Mutant: one height too old. *)
MutWithinWindow(ref, head) == ref <= head /\ head - ref <= Window + 1

WithinWindow(ref, head) == ref <= head /\ head - ref <= Window

(* rejoin_admissible, for the join op of a peer. *)
Admissible(chain, package, peer) ==
    /\ WithinWindow(package.ref, Len(chain))
    /\ package.inputs = PublicInputs(chain, package.ref, peer)
=============================================================================
