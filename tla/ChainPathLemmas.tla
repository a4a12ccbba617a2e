--------------------------- MODULE ChainPathLemmas ---------------------------
(* Lemmas about quorums, heights and blocks as paths, for the proofs of the other modules. *)
EXTENDS ChainPath, BftQuorum, FiniteSetsExt,
        FiniteSetTheorems, SequenceTheorems, WellFoundedInduction, TLAPS

(***************************************************************************)
(* quorum(n) = floor(2n/3) + 1: two quorums of one electorate share a      *)
(* voter that is not faulty when fewer than a third of it is.              *)
(***************************************************************************)
THEOREM QuorumsOverlap ==
    ASSUME NEW S, IsFiniteSet(S), NEW P, NEW Q, NEW F,
           IsQuorum(P, S), IsQuorum(Q, S),
           3 * Cardinality(F \cap S) < Cardinality(S)
    PROVE  \E v \in S : v \in P /\ v \in Q /\ v \notin F
<1> DEFINE A == P \cap S  B == Q \cap S  C == F \cap S  n == Cardinality(S)
<1>1. /\ IsFiniteSet(A) /\ IsFiniteSet(B) /\ IsFiniteSet(C)
      /\ IsFiniteSet(A \cap B) /\ IsFiniteSet(A \cup B)
  BY FS_Subset
<1>2. /\ n \in Nat /\ Cardinality(A) \in Nat /\ Cardinality(B) \in Nat /\ Cardinality(C) \in Nat
      /\ Cardinality(A \cap B) \in Nat /\ Cardinality(A \cup B) \in Nat
  BY <1>1, FS_CardinalityType
<1>3. Cardinality(A \cup B) = Cardinality(A) + Cardinality(B) - Cardinality(A \cap B)
  BY <1>1, FS_Union
<1>4. Cardinality(A \cup B) <= n
  <2>1. A \cup B \in SUBSET S
    OBVIOUS
  <2> QED BY <2>1, FS_Subset
<1>5. Cardinality(A) >= Quorum(n) /\ Cardinality(B) >= Quorum(n)
  BY DEF IsQuorum
<1>6. 3 * Quorum(n) > 2 * n
  BY <1>2 DEF Quorum
<1>7. Cardinality(A \cap B) > Cardinality(C)
  <2> HIDE DEF A, B, C, n
  <2>1. Quorum(n) \in Int
    BY <1>2 DEF Quorum
  <2>2. 3 * Cardinality(C) < n
    BY DEF C, n
  <2> QED BY <1>2, <1>3, <1>4, <1>5, <1>6, <2>1, <2>2
<1>8. ~(A \cap B \subseteq C)
  <2>1. ASSUME A \cap B \subseteq C PROVE FALSE
    <3>1. Cardinality(A \cap B) <= Cardinality(C)
      BY <1>1, <2>1, FS_Subset
    <3> QED BY <3>1, <1>2, <1>7
  <2> QED BY <2>1
<1> QED BY <1>8

-----------------------------------------------------------------------------
(* More voters keep a quorum a quorum. *)
LEMMA QuorumMonotone ==
    ASSUME NEW S, IsFiniteSet(S), NEW P, NEW Q, P \subseteq Q, IsQuorum(P, S)
    PROVE  IsQuorum(Q, S)
<1>1. IsFiniteSet(Q \cap S) /\ P \cap S \in SUBSET (Q \cap S)
  BY FS_Subset
<1>2. Cardinality(P \cap S) <= Cardinality(Q \cap S)
  BY <1>1, FS_Subset
<1>3. /\ Cardinality(P \cap S) \in Nat /\ Cardinality(Q \cap S) \in Nat /\ Cardinality(S) \in Nat
  BY <1>1, FS_Subset, FS_CardinalityType
<1> QED BY <1>2, <1>3 DEF IsQuorum, Quorum

-----------------------------------------------------------------------------
(* Least and greatest heights. *)

(* Below is well-founded on the natural numbers. *)
LEMMA LessThan == \E R : IsWellFoundedOn(R, Nat) /\ \A x, y \in Nat : y < x => <<y, x>> \in R
<1> DEFINE L == {ss \in Nat \X Nat : ss[1] < ss[2]}
<1>1. IsWellFoundedOn(L, Nat)
  BY NatLessThanWellFounded DEF OpToRel
<1>2. \A x, y \in Nat : y < x => <<y, x>> \in L
  OBVIOUS
<1> QED BY <1>1, <1>2

(* A set of heights has a least one. *)
LEMMA LeastElement == ASSUME NEW S \in SUBSET Nat, S # {} PROVE \E x \in S : \A y \in S : x <= y
<1>1. PICK R : IsWellFoundedOn(R, Nat) /\ \A x, y \in Nat : y < x => <<y, x>> \in R
  BY LessThan
<1>2. PICK x \in S : \A y \in S : ~(<<y, x>> \in R)
  BY <1>1, WFMin
<1>3. ASSUME NEW y \in S PROVE x <= y
  <2>1. x \in Nat /\ y \in Nat
    OBVIOUS
  <2>2. ~(<<y, x>> \in R)
    BY <1>2
  <2>3. ~(y < x)
    BY <1>1, <2>1, <2>2, Zenon
  <2> QED BY <2>1, <2>3
<1> QED BY <1>3

(* Of finitely many numbers one is greatest: the one with the fewest above it. *)
LEMMA GreatestValue ==
    ASSUME NEW S, IsFiniteSet(S), S # {}, NEW f, \A x \in S : f[x] \in Nat
    PROVE  \E x \in S : \A y \in S : f[y] <= f[x]
<1> DEFINE Above(x) == {y \in S : f[x] < f[y]}
           counts == {Cardinality(Above(x)) : x \in S}
<1>1. \A x \in S : IsFiniteSet(Above(x)) /\ Cardinality(Above(x)) \in Nat
  <2>1. ASSUME NEW x \in S PROVE Above(x) \subseteq S
    OBVIOUS
  <2> HIDE DEF Above
  <2> QED BY <2>1, FS_Subset, FS_CardinalityType
<1>2. counts \in SUBSET Nat /\ counts # {}
  <2> HIDE DEF Above
  <2> QED BY <1>1
<1>3. PICK c \in counts : \A d \in counts : c <= d
  BY <1>2, LeastElement
<1>4. PICK x \in S : c = Cardinality(Above(x))
  BY <1>3
<1>5. ASSUME NEW y \in S, ~(f[y] <= f[x]) PROVE FALSE
  <2>1. f[x] < f[y] /\ y \in Above(x) /\ y \notin Above(y)
    BY <1>5
  <2>2. Above(y) \subseteq Above(x) /\ Above(y) # Above(x)
    <3>1. \A z \in S : f[y] < f[z] => f[x] < f[z]
      BY <2>1
    <3> QED BY <2>1, <3>1
  <2>3. Cardinality(Above(y)) < Cardinality(Above(x))
    <3> HIDE DEF Above
    <3> QED BY <1>1, <2>2, FS_Subset
  <2>4. c <= Cardinality(Above(y)) /\ Cardinality(Above(y)) \in Nat /\ Cardinality(Above(x)) \in Nat
    <3> HIDE DEF Above
    <3> QED BY <1>1, <1>3
  <2> HIDE DEF Above, counts
  <2> QED BY <1>4, <2>3, <2>4
<1> QED BY <1>5

(* It is the one that Min chooses. *)
LEMMA MinType == ASSUME NEW S \in SUBSET Nat, S # {} PROVE Min(S) \in S /\ \A y \in S : Min(S) <= y
BY LeastElement DEF Min

(* And up to any height a greatest one, by counting down from there. *)
LEMMA MaxType ==
    ASSUME NEW b \in Nat, NEW S \in SUBSET (0..b), S # {}
    PROVE  Max(S) \in S /\ \A y \in S : y <= Max(S)
<1> DEFINE T == {b - x : x \in S}
<1>1. T \in SUBSET Nat /\ T # {}
  <2>1. \A x \in S : b - x \in Nat
    OBVIOUS
  <2> QED BY <2>1
<1>2. PICK t \in T : \A y \in T : t <= y
  BY <1>1, LeastElement
<1>3. PICK x \in S : t = b - x
  BY <1>2
<1>4. \A y \in S : x >= y
  BY <1>2, <1>3
<1> QED BY <1>4 DEF Max

-----------------------------------------------------------------------------
(* A validator set is a finite set of nodes. *)
LEMMA ActiveSetFinite == \A path : IsFiniteSet(ActiveSet(path)) /\ ActiveSet(path) \subseteq Node
BY GenesisAssumption, FS_Subset DEF ActiveSet

(* The first k headers of a path are a path of length k. *)
LEMMA PrefixIsPath ==
    ASSUME NEW b \in Path, NEW k \in 0..Len(b)
    PROVE  SubSeq(b, 1, k) \in Path /\ Len(SubSeq(b, 1, k)) = k
<1>1. Len(b) \in Nat
  BY DEF Path
<1>2. \A i \in 1..k : b[i] \in Header
  <2> DEFINE H == Header
  <2>1. b \in Seq(H)
    BY DEF Path
  <2> HIDE DEF H
  <2>2. \A i \in 1..k : b[i] \in H
    BY <1>1, <2>1
  <2> QED BY <2>2 DEF H
<1>3. /\ SubSeq(b, 1, k) \in Seq(Header)
      /\ Len(SubSeq(b, 1, k)) = IF 1 <= k THEN k - 1 + 1 ELSE 0
  BY <1>1, <1>2, SubSeqProperties
<1> QED BY <1>1, <1>3 DEF Path

(* A block is one header longer than its parent. *)
LEMMA ParentIsPath ==
    ASSUME NEW b \in Block
    PROVE  Len(b) \in Nat \ {0} /\ Parent(b) \in Path /\ Len(Parent(b)) = Len(b) - 1
<1>1. b \in Path /\ Len(b) \in Nat \ {0}
  BY DEF Block, Path
<1>2. Len(b) - 1 \in 0..Len(b)
  BY <1>1
<1> QED BY <1>1, <1>2, PrefixIsPath DEF Parent

(* Blocks of one parent are at one height. *)
LEMMA SiblingsSameHeight ==
    ASSUME NEW b \in Block, NEW c \in Block, Parent(b) = Parent(c)
    PROVE  Len(b) = Len(c)
BY ParentIsPath

(* A prefix of a prefix is a prefix. *)
LEMMA PrefixOfPrefix ==
    ASSUME NEW b \in Path, NEW k \in 0..Len(b), NEW i \in 0..k
    PROVE  SubSeq(SubSeq(b, 1, k), 1, i) = SubSeq(b, 1, i)
<1> DEFINE s == SubSeq(b, 1, k)  H == Header
<1>1. s \in Path /\ Len(s) = k /\ Len(b) \in Nat /\ i \in 0..Len(s) /\ i \in 0..Len(b)
  BY PrefixIsPath DEF Path
<1>2. /\ SubSeq(s, 1, i) \in Path /\ Len(SubSeq(s, 1, i)) = i
      /\ SubSeq(b, 1, i) \in Path /\ Len(SubSeq(b, 1, i)) = i
  BY <1>1, PrefixIsPath
<1>3. \A j \in 1..i : s[j] = b[j] /\ SubSeq(s, 1, i)[j] = s[j] /\ SubSeq(b, 1, i)[j] = b[j]
  <2>1. b \in Seq(H) /\ s \in Seq(H)
    BY <1>1 DEF Path
  <2> HIDE DEF H
  <2> QED BY <1>1, <2>1
<1>4. SubSeq(s, 1, i) \in Seq(H) /\ SubSeq(b, 1, i) \in Seq(H)
  BY <1>2 DEF Path
<1> HIDE DEF s, H
<1> QED BY <1>2, <1>3, <1>4, SeqEqual DEF s

(* A path is its own longest prefix. *)
LEMMA WholePrefix == ASSUME NEW b \in Path PROVE SubSeq(b, 1, Len(b)) = b
<1> DEFINE H == Header
<1>1. b \in Seq(H) /\ SubSeq(b, 1, Len(b)) \in Seq(H) /\ Len(SubSeq(b, 1, Len(b))) = Len(b)
  BY PrefixIsPath DEF Path
<1> HIDE DEF H
<1>2. \A j \in 1..Len(b) : SubSeq(b, 1, Len(b))[j] = b[j]
  BY <1>1
<1> QED BY <1>1, <1>2, SeqEqual

-----------------------------------------------------------------------------
(* The validator set of the empty chain is that of genesis. *)
LEMMA GenesisIsActive == ActiveSet(<<>>) = Genesis
<1>1. \A v : OpHeights(<<>>, v) = {}
  BY DEF OpHeights
<1> QED BY <1>1, GenesisAssumption DEF ActiveSet, IsActive

(***************************************************************************)
(* active_set_at folds every block into the set: reading it off the last   *)
(* op about each node, as ActiveSet does, is that fold, for any chain and  *)
(* any next block with one op about a node.                                *)
(***************************************************************************)
THEOREM ActiveSetFolds ==
    ASSUME NEW path \in Path, NEW header \in Header,
           \A o, p \in header.ops : o.subject = p.subject => o = p
    PROVE  ActiveSet(Append(path, header)) = ApplyBlock(header, ActiveSet(path))
<1> DEFINE q == Append(path, header)  k == Len(path)  ops == header.ops  H == Header
           gone == {o.subject : o \in {p \in ops : p.kind = "remove"}}
           come == {o.subject : o \in {p \in ops : p.kind = "add"}}
<1>1. k \in Nat /\ Len(q) = k + 1 /\ q[k + 1] = header /\ \A i \in 1..k : q[i] = path[i]
  <2>1. path \in Seq(H) /\ header \in H
    BY DEF Path
  <2> HIDE DEF H
  <2> QED BY <2>1
<1>2. ops \in SUBSET Op
  BY DEF Header
<1>3. ApplyBlock(header, ActiveSet(path)) = (ActiveSet(path) \ gone) \cup come
  BY DEF ApplyBlock
<1> HIDE DEF q, k, ops
<1>4. \A i : i \in 1..k + 1 <=> i \in 1..k \/ i = k + 1
  BY <1>1
<1>5. ASSUME NEW v PROVE OpHeights(q, v) = OpHeights(path, v) \cup {i \in {k + 1} : \E o \in ops : o.subject = v}
  BY <1>1, <1>4 DEF OpHeights, k, ops
<1>6. ASSUME NEW v PROVE OpHeights(path, v) \subseteq 1..k
  BY DEF OpHeights, k
<1>7. ASSUME NEW v \in Node, \A o \in ops : o.subject # v PROVE IsActive(q, v) <=> IsActive(path, v)
  <2>1. OpHeights(q, v) = OpHeights(path, v)
    BY <1>5, <1>7
  <2>2. \A i \in OpHeights(path, v) : q[i] = path[i]
    BY <1>1, <1>6
  <2> QED BY <2>1, <2>2 DEF IsActive
<1>8. ASSUME NEW v \in Node, NEW o \in ops, o.subject = v PROVE IsActive(q, v) <=> o.kind = "add"
  <2>1. k + 1 \in OpHeights(q, v) /\ \A i \in OpHeights(q, v) : i <= k + 1
    BY <1>1, <1>5, <1>6, <1>8
  <2>2. ASSUME NEW i \in OpHeights(q, v), \A j \in OpHeights(q, v) : j <= i PROVE i = k + 1
    BY <1>1, <1>5, <1>6, <2>1, <2>2
  <2>3. IsActive(q, v) <=> [kind |-> "add", subject |-> v] \in ops
    BY <1>1, <2>1, <2>2 DEF IsActive, ops
  <2>4. o.kind = "add" => o = [kind |-> "add", subject |-> v]
    BY <1>2, <1>8 DEF Op
  <2>5. [kind |-> "add", subject |-> v] \in ops => o = [kind |-> "add", subject |-> v]
    BY <1>8 DEF ops
  <2> QED BY <2>3, <2>4, <2>5
<1>9. ASSUME NEW v \in Node PROVE IsActive(q, v) <=> v \in (ActiveSet(path) \ gone) \cup come
  <2>1. CASE \A o \in ops : o.subject # v
    BY <1>7, <1>9, <2>1 DEF ActiveSet
  <2>2. ASSUME NEW o \in ops, o.subject = v PROVE IsActive(q, v) <=> v \in (ActiveSet(path) \ gone) \cup come
    <3>1. o.kind \in {"add", "remove"} /\ \A p \in ops : p.subject = v => p = o
      BY <1>2, <2>2 DEF Op, ops
    <3>2. (v \in come <=> o.kind = "add") /\ (v \in gone <=> o.kind = "remove")
      BY <2>2, <3>1
    <3> QED BY <1>8, <2>2, <3>1, <3>2
  <2> QED BY <2>1, <2>2
<1>10. come \subseteq Node
  BY <1>2 DEF Op
<1> QED BY <1>3, <1>9, <1>10 DEF ActiveSet, q
=============================================================================
