---------------------------- MODULE SparseMerkle ----------------------------
(***************************************************************************)
(* The sparse Merkle trees of suspended and of decrypted nullifiers        *)
(* (smt.rs).  A hash is the term of what is hashed.                        *)
(***************************************************************************)
EXTENDS Integers, Sequences, SequencesExt

CONSTANT Depth       \* SMT_DEPTH

ASSUME DepthAssumption == Depth \in Nat \ {0}

EmptyLeaf == <<"empty">>
PresentLeaf == <<"susp">>
HashPair(left, right) == <<"hash", left, right>>

(* The roots of empty subtrees, by level. *)
Empties[level \in 0..Depth] ==
    IF level = 0 THEN EmptyLeaf ELSE HashPair(Empties[level - 1], Empties[level - 1])

(* Mutant: the next node is the sibling of every node. *)
MutSibling(index) == index + 1

Sibling(index) == IF index % 2 = 1 THEN index - 1 ELSE index + 1

(* The leaves below a node of a level. *)
Width[level \in 0..Depth] == IF level = 0 THEN 1 ELSE 2 * Width[level - 1]

(* The keys: every one has a leaf. *)
Key == 0..(Width[Depth] - 1)

(* The indices on the way from a leaf to the root, by level. *)
Above(key) ==
    LET index[level \in 0..Depth] == IF level = 0 THEN key ELSE index[level - 1] \div 2
    IN index

(* A node above the one of an index and its sibling: an odd index is the right child. *)
Compress(index, cur, sib) == IF index % 2 = 1 THEN HashPair(sib, cur) ELSE HashPair(cur, sib)

NodeAt(tree, level, index) ==
    IF <<level, index>> \in DOMAIN tree THEN tree[<<level, index>>] ELSE Empties[level]

Set(tree, level, index, node) ==
    [p \in DOMAIN tree \cup {<<level, index>>} |-> IF p = <<level, index>> THEN node ELSE tree[p]]

NewTree == [p \in {} |-> EmptyLeaf]

(* The node above those of a level, from what the tree holds there. *)
NodeAbove(tree, level, index) ==
    Compress(index, NodeAt(tree, level, index), NodeAt(tree, level, Sibling(index)))

(* Smt::insert: the leaf, then every node on the way to the root. *)
Insert(tree, key) ==
    LET index == Above(key)
        t[level \in 0..Depth] ==
            IF level = 0 THEN Set(tree, 0, key, PresentLeaf)
            ELSE Set(t[level - 1], level, index[level], NodeAbove(t[level - 1], level - 1, index[level - 1]))
    IN t[Depth]

FromKeys(keys) == FoldLeft(Insert, NewTree, keys)

Holds(tree, key) == <<0, key>> \in DOMAIN tree
Root(tree) == NodeAt(tree, Depth, 0)

Prove(tree, key) ==
    [key |-> key, present |-> Holds(tree, key),
     siblings |-> [i \in 1..Depth |-> NodeAt(tree, i - 1, Sibling(Above(key)[i - 1]))]]

(* The root is rebuilt from the claimed leaf and the siblings. *)
VerifyProof(root, proof) ==
    LET index == Above(proof.key)
        cur[level \in 0..Depth] ==
            IF level = 0 THEN IF proof.present THEN PresentLeaf ELSE EmptyLeaf
            ELSE Compress(index[level - 1], cur[level - 1], proof.siblings[level])
    IN Len(proof.siblings) = Depth /\ root = cur[Depth]
=============================================================================
