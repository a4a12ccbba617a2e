--------------------------- MODULE AlgorithmProofs ---------------------------
(***************************************************************************)
(* Theorems about the pure algorithms, for inputs of any size: the active  *)
(* set that is computed from the last op about each node is the one that   *)
(* genesis folded forward gives; a limb is decrypted to its value, if it   *)
(* has one; the proofs of a sealed share are sound and complete; fragments *)
(* of any messages, in any order, are reassembled; the root of a sparse    *)
(* Merkle tree is that of the full tree, and a proof is of what the tree   *)
(* holds; a rejoiner is admitted exactly if it isn't suspended; two peers  *)
(* agree on whether they share an interest; and packets of the mixnet and  *)
(* the answers to reply blocks arrive, damaged packets do not.             *)
(***************************************************************************)
EXTENDS MCAlgorithms, ChainPathLemmas

-----------------------------------------------------------------------------
(* A fold is a function on all subsets that takes one element away at a time: c chooses it, G deals with it. *)
Chooses(c, D) == \A s \in SUBSET D : s # {} => c[s] \in s

IsFold(it, D, A, base, c, G) ==
    /\ it \in [SUBSET D -> A]
    /\ it[{}] = base /\ \A s \in SUBSET D : s # {} => it[s] = G[c[s]][it[s \ {c[s]}]]

(* There is one. *)
LEMMA FoldExists ==
    ASSUME NEW D, IsFiniteSet(D), NEW A, NEW base \in A, NEW c, Chooses(c, D), NEW G \in [D -> [A -> A]]
    PROVE  \E it : IsFold(it, D, A, base, c, G)
<1> DEFINE Step(f, s) == IF s = {} THEN base ELSE G[c[s]][f[s \ {c[s]}]]
           UpTo(f, k) == \A s \in SUBSET D : Cardinality(s) <= k => f[s] = Step(f, s)
           bad == {k \in Nat : ~\E f \in [SUBSET D -> A] : UpTo(f, k)}
<1> USE DEF Chooses
<1>1. \A s \in SUBSET D : IsFiniteSet(s) /\ Cardinality(s) \in Nat /\ Cardinality(s) <= Cardinality(D)
  BY FS_Subset, FS_CardinalityType
<1>2. ASSUME NEW f \in [SUBSET D -> A], NEW s \in SUBSET D PROVE Step(f, s) \in A
  BY <1>2
<1>3. 0 \notin bad
  <2> DEFINE f == [s \in SUBSET D |-> base]
  <2>1. \A s \in SUBSET D : Cardinality(s) <= 0 => s = {}
    BY <1>1, FS_EmptySet
  <2>2. f \in [SUBSET D -> A] /\ UpTo(f, 0)
    BY <2>1
  <2> QED BY <2>2
<1>4. ASSUME NEW k \in Nat, k \notin bad PROVE k + 1 \notin bad
  <2>1. PICK f \in [SUBSET D -> A] : UpTo(f, k)
    BY <1>4
  <2> DEFINE g == [s \in SUBSET D |-> Step(f, s)]
  <2>2. g \in [SUBSET D -> A]
    <3> HIDE DEF Step
    <3> QED BY <1>2
  <2>3. ASSUME NEW s \in SUBSET D, Cardinality(s) <= k + 1 PROVE g[s] = Step(g, s)
    <3>1. CASE s = {}
      BY <3>1
    <3>2. CASE s # {}
      <4> DEFINE t == s \ {c[s]}
      <4>1. t \in SUBSET D /\ Cardinality(t) <= k
        <5>1. Cardinality(t) = Cardinality(s) - 1
          BY <1>1, <3>2, FS_RemoveElement
        <5> QED BY <1>1, <1>4, <2>3, <5>1
      <4>2. g[t] = f[t]
        <5> HIDE DEF t, Step
        <5>1. f[t] = Step(f, t)
          BY <2>1, <4>1
        <5> QED BY <4>1, <5>1
      <4>3. g[s] = G[c[s]][f[t]] /\ Step(g, s) = G[c[s]][g[t]]
        BY <3>2
      <4> QED BY <4>2, <4>3
    <3> QED BY <3>1, <3>2
  <2>4. UpTo(g, k + 1)
    <3> HIDE DEF g, Step
    <3> QED BY <2>3
  <2> HIDE DEF g, UpTo
  <2> QED BY <2>2, <2>4
<1>5. bad = {}
  <2> SUFFICES ASSUME bad # {} PROVE FALSE
    OBVIOUS
  <2> HIDE DEF UpTo
  <2>1. bad \in SUBSET Nat
    OBVIOUS
  <2> HIDE DEF bad
  <2>2. PICK m \in bad : \A y \in bad : m <= y
    BY <2>1, LeastElement
  <2>3. m # 0 /\ m \in Nat
    BY <1>3, <2>1, <2>2
  <2>4. m - 1 \in Nat /\ m - 1 \notin bad
    BY <2>1, <2>2, <2>3
  <2>5. (m - 1) + 1 \notin bad
    BY <1>4, <2>4
  <2> QED BY <2>2, <2>3, <2>5
<1>6. PICK f \in [SUBSET D -> A] : UpTo(f, Cardinality(D))
  <2> HIDE DEF UpTo
  <2> QED BY <1>1, <1>5
<1> QED BY <1>1, <1>6 DEF IsFold

-----------------------------------------------------------------------------
(* Blocks with at most one op for each subject, as AppendBlock adds them. *)
OpsOnce(p) == \A i \in 1..Len(p) : \A o, q \in p[i].ops : o.subject = q.subject => o = q

(* Genesis folded forward is what the last op about each node says. *)
LEMMA FoldIsActiveSet ==
    ASSUME NEW p \in Path, OpsOnce(p)
    PROVE  ActiveSet(p) = FoldLeft(LAMBDA set, header : ApplyBlock(header, set), Genesis, p)
<1> DEFINE D == DOMAIN p  A == SUBSET Node
           Solves(it) == it = [s \in SUBSET D |-> IF s = {} THEN Genesis
                                                  ELSE ApplyBlock(p[Max(s)], it[s \ {Max(s)}])]
           fold == CHOOSE it : Solves(it)
<1>1. FoldLeft(LAMBDA set, header : ApplyBlock(header, set), Genesis, p) = fold[D]
  BY DEF FoldLeft, MapThenFoldSet
<1>2. D = 1..Len(p) /\ Len(p) \in Nat /\ IsFiniteSet(D)
  <2>1. D = 1..Len(p) /\ Len(p) \in Nat
    BY DEF Path
  <2> QED BY <2>1, FS_Interval
<1>3. \A i \in D : p[i] \in Header
  BY <1>2 DEF Path
<1>4. ASSUME NEW s \in SUBSET D, s # {} PROVE Max(s) \in s /\ \A y \in s : y <= Max(s)
  <2>1. s \in SUBSET (0..Len(p))
    BY <1>2
  <2> QED BY <1>2, <1>4, <2>1, MaxType
<1>5. Solves(fold)
  <2> DEFINE c == [s \in SUBSET D |-> Max(s)]
             G == [i \in D |-> [a \in A |-> ApplyBlock(p[i], a)]]
  <2>1. \A i \in D, a \in A : ApplyBlock(p[i], a) \in A
    BY <1>3 DEF ApplyBlock, Header, Op
  <2>2. G \in [D -> [A -> A]]
    BY <2>1
  <2>3. Chooses(c, D)
    BY <1>4 DEF Chooses
  <2>4. PICK it : IsFold(it, D, A, Genesis, c, G)
    <3>1. Genesis \in A /\ IsFiniteSet(D)
      BY <1>2, GenesisAssumption
    <3> HIDE DEF c, G, D, A, Solves, fold
    <3> QED BY <2>2, <2>3, <3>1, FoldExists
  <2>5. ASSUME NEW s \in SUBSET D PROVE it[s] = IF s = {} THEN Genesis ELSE ApplyBlock(p[Max(s)], it[s \ {Max(s)}])
    BY <1>4, <2>1, <2>4 DEF IsFold
  <2>6. Solves(it)
    BY <2>4, <2>5 DEF IsFold
  <2> QED BY <2>6
<1>6. fold[{}] = Genesis /\ \A k \in D : fold[1..k] = ApplyBlock(p[k], fold[1..(k - 1)])
  <2>1. \A s \in SUBSET D : fold[s] = IF s = {} THEN Genesis ELSE ApplyBlock(p[Max(s)], fold[s \ {Max(s)}])
    <3> HIDE DEF fold
    <3> QED BY <1>5
  <2>2. ASSUME NEW k \in D PROVE 1..k \in SUBSET D /\ 1..k # {} /\ Max(1..k) = k /\ (1..k) \ {k} = 1..(k - 1)
    <3>1. k \in Nat /\ k >= 1 /\ 1..k \in SUBSET D /\ k \in 1..k /\ (1..k) \ {k} = 1..(k - 1)
      BY <1>2
    <3>2. Max(1..k) \in 1..k /\ k <= Max(1..k)
      BY <1>4, <3>1
    <3> QED BY <3>1, <3>2
  <2> HIDE DEF fold
  <2>3. ASSUME NEW k \in D PROVE fold[1..k] = ApplyBlock(p[k], fold[1..(k - 1)])
    <3>1. 1..k \in SUBSET D /\ 1..k # {} /\ Max(1..k) = k /\ (1..k) \ {k} = 1..(k - 1)
      BY <2>2
    <3> QED BY <2>1, <3>1
  <2> QED BY <2>1, <2>3
<1> HIDE DEF fold
<1> DEFINE Right(k) == fold[1..k] = ActiveSet(SubSeq(p, 1, k))
           wrong == {k \in 0..Len(p) : ~Right(k)}
<1>7. Right(0)
  <2>1. 1..0 = {} /\ SubSeq(p, 1, 0) = <<>>
    BY DEF Path
  <2> QED BY <1>6, <2>1, GenesisIsActive
<1>8. ASSUME NEW k \in D, Right(k - 1) PROVE Right(k)
  <2>1. SubSeq(p, 1, k - 1) \in Path /\ SubSeq(p, 1, k) = Append(SubSeq(p, 1, k - 1), p[k])
    <3> DEFINE H == Header
    <3>1. p \in Seq(H) /\ k \in 1..Len(p)
      BY <1>2 DEF Path
    <3> HIDE DEF H
    <3>2. SubSeq(p, 1, k - 1) \in Seq(H) /\ Len(SubSeq(p, 1, k - 1)) = k - 1
      BY <3>1
    <3>3. SubSeq(p, 1, k) = Append(SubSeq(p, 1, k - 1), p[k])
      BY <3>1, <3>2
    <3> QED BY <3>2, <3>3 DEF H, Path
  <2>2. ActiveSet(SubSeq(p, 1, k)) = ApplyBlock(p[k], ActiveSet(SubSeq(p, 1, k - 1)))
    BY <1>2, <1>3, <2>1, ActiveSetFolds DEF OpsOnce
  <2> QED BY <1>6, <1>8, <2>2
<1>9. wrong = {}
  <2> SUFFICES ASSUME wrong # {} PROVE FALSE
    OBVIOUS
  <2>1. wrong \in SUBSET Nat /\ \A k \in wrong : k \in 0..Len(p) /\ ~Right(k)
    BY <1>2
  <2>2. \A k \in 0..Len(p) : k \notin wrong => Right(k)
    OBVIOUS
  <2> HIDE DEF wrong, Right
  <2>3. PICK k \in wrong : \A y \in wrong : k <= y
    BY <2>1, LeastElement
  <2>4. k # 0 /\ k \in D /\ k - 1 \in 0..Len(p) /\ k - 1 \notin wrong
    BY <1>2, <1>7, <2>1, <2>3
  <2> QED BY <1>8, <2>1, <2>2, <2>3, <2>4
<1>10. SubSeq(p, 1, Len(p)) = p
  BY WholePrefix
<1>11. Len(p) \in 0..Len(p)
  BY <1>2
<1> QED BY <1>1, <1>2, <1>9, <1>10, <1>11

(* The chains of the inputs. *)
ChainOK == input[1] = "chain" => path \in Path /\ OpsOnce(path)

(* A block keeps them so. *)
LEMMA ChainStep == ChainOK /\ [Next]_vars => ChainOK'
<1> SUFFICES ASSUME ChainOK, [Next]_vars, input'[1] = "chain" PROVE path' \in Path /\ OpsOnce(path')
  BY DEF ChainOK
<1>1. input' = input
  BY DEF Next, vars, AppendBlock, AppendSuspensions, Arrive
<1>2. path \in Path /\ OpsOnce(path)
  BY <1>1 DEF ChainOK
<1>3. CASE path' = path
  BY <1>2, <1>3
<1>4. ASSUME NEW ops \in OpSets, AppendBlock(ops) PROVE path' \in Path /\ OpsOnce(path')
  <2> DEFINE H == Header  h == [view |-> 0, proposer |-> CHOOSE n \in Node : TRUE, alt |-> FALSE, ops |-> ops]
  <2>1. path' = Append(path, h)
    BY <1>4 DEF AppendBlock
  <2>2. h \in H /\ path \in Seq(H)
    BY <1>2, NodeAssumption DEF OpSets, Header, Path
  <2>3. \A o, q \in h.ops : o.subject = q.subject => o = q
    BY DEF OpSets
  <2> HIDE DEF H, h
  <2>4. /\ path' \in Seq(H) /\ Len(path') = Len(path) + 1 /\ Len(path) \in Nat
        /\ path'[Len(path) + 1] = h /\ \A i \in 1..Len(path) : path'[i] = path[i]
    BY <2>1, <2>2
  <2>5. \A i \in 1..Len(path') : i \in 1..Len(path) \/ i = Len(path) + 1
    BY <2>4
  <2> QED BY <1>2, <2>3, <2>4, <2>5 DEF OpsOnce, Path, H
<1> QED
  <2>1. CASE \E ops \in OpSets : AppendBlock(ops)
    BY <1>4, <2>1
  <2>2. CASE \E keys \in SUBSET Nullifiers : AppendSuspensions(keys)
    BY <1>1, <2>2 DEF AppendSuspensions
  <2>3. CASE \E frag \in AllFragments : Arrive(frag)
    BY <1>3, <2>3 DEF Arrive
  <2>4. CASE UNCHANGED vars
    BY <1>3, <2>4 DEF vars
  <2> QED BY <2>1, <2>2, <2>3, <2>4 DEF Next

(***************************************************************************)
(* For every chain, of any length and whatever its ops do, the set that    *)
(* the last op about each node gives is the one the code folds.            *)
(***************************************************************************)
THEOREM ActiveSetFolded == Spec => []ActiveSetIsFold
<1>1. Init => ChainOK
  <2> SUFFICES ASSUME Init PROVE path \in Path /\ OpsOnce(path)
    BY DEF ChainOK
  <2>1. path = <<>>
    BY DEF Init
  <2> QED BY <2>1 DEF Path, OpsOnce
<1>2. ChainOK => ActiveSetIsFold
  <2> SUFFICES ASSUME ChainOK, input[1] = "chain"
               PROVE  ActiveSet(path) = FoldLeft(LAMBDA set, header : ApplyBlock(header, set), Genesis, path)
    BY DEF ActiveSetIsFold
  <2> QED BY FoldIsActiveSet DEF ChainOK
<1> QED BY <1>1, <1>2, ChainStep, PTL DEF Spec

-----------------------------------------------------------------------------
(* Remainders, for any modulus. *)

(* The remainder is below the modulus, and a multiple of it away. *)
LEMMA RemainderIs ==
    ASSUME NEW p \in Nat, p > 1, NEW a \in Int
    PROVE  a % p \in 0..(p - 1) /\ \E k \in Int : a = k * p + (a % p)
<1>1. a % p \in 0..(p - 1) /\ a = p * (a \div p) + (a % p) /\ a \div p \in Int
  OBVIOUS
<1> DEFINE d == a \div p  x == a % p
<1>2. d \in Int /\ x \in 0..(p - 1) /\ a = p * d + x
  BY <1>1
<1> HIDE DEF d, x
<1>3. a = d * p + x
  BY <1>2
<1> QED BY <1>2, <1>3 DEF x

(* Two remainders that differ by a multiple of the modulus are the same. *)
LEMMA RemainderUnique ==
    ASSUME NEW p \in Nat, p > 1, NEW r \in 0..(p - 1), NEW s \in 0..(p - 1), NEW k \in Int, r = k * p + s
    PROVE  r = s
<1>1. r \in Int /\ s \in Int /\ r - s < p /\ s - r < p
  OBVIOUS
<1>2. CASE k >= 1
  <2>1. k * p >= p
    <3>1. k * p = p + (k - 1) * p /\ (k - 1) * p >= 0
      BY <1>2
    <3> QED BY <3>1
  <2> QED BY <1>1, <2>1
<1>3. CASE k <= -1
  <2>1. k * p <= -p
    <3>1. k * p = -p + (k + 1) * p /\ (k + 1) * p <= 0
      BY <1>3
    <3> QED BY <3>1
  <2> QED BY <1>1, <2>1
<1>4. CASE k = 0
  BY <1>1, <1>4
<1> QED BY <1>2, <1>3, <1>4

Divides(p, a) == \E k \in Int : a = k * p
Prime(p) == p \in Nat /\ p > 1 /\ \A d \in 2..(p - 1) : p % d # 0

(* A prime divides a product only with one of its factors. *)
LEMMA PrimeDivides ==
    ASSUME NEW p, Prime(p), NEW a \in Int, NEW b \in Int, Divides(p, a * b)
    PROVE  Divides(p, a) \/ Divides(p, b)
<1> USE DEF Divides
<1>1. p \in Nat /\ p > 1
  BY DEF Prime
<1> PICK k \in Int : a * b = k * p
  OBVIOUS
<1> DEFINE S == {n \in 1..(p - 1) : \E i \in Int : n * b = i * p}
<1>2. PICK m \in Int : a = m * p + (a % p)
  BY <1>1, RemainderIs
<1>3. a % p \in 0..(p - 1)
  BY <1>1, RemainderIs
<1> DEFINE x == a % p
<1>4. x \in Int /\ x \in 0..(p - 1) /\ a = m * p + x
  BY <1>2, <1>3
<1> HIDE DEF x
<1>5. CASE x = 0
  BY <1>1, <1>4, <1>5
<1>6. CASE x # 0
  <2>1. x \in S
    <3>1. x * b = (k - m * b) * p
      <4>1. x * b = (a - m * p) * b /\ (a - m * p) * b = a * b - (m * b) * p
        BY <1>1, <1>4
      <4>2. k * p - (m * b) * p = (k - m * b) * p
        BY <1>1
      <4> QED BY <4>1, <4>2
    <3>2. k - m * b \in Int /\ x \in 1..(p - 1)
      BY <1>1, <1>4, <1>6
    <3> QED BY <3>1, <3>2
  <2>2. PICK n \in S : \A q \in S : n <= q
    <3>1. S \in SUBSET Nat
      BY <1>1
    <3> HIDE DEF S
    <3> QED BY <2>1, <3>1, LeastElement
  <2>3. n \in 1..(p - 1) /\ n \in Nat /\ n >= 1
    BY <1>1, <2>2
  <2>4. PICK i \in Int : n * b = i * p
    BY <2>2
  <2>5. CASE n = 1
    BY <2>3, <2>4, <2>5
  <2>6. CASE n # 1
    <3> DEFINE d == p \div n  r == p % n
    <3>1. n \in 2..(p - 1)
      BY <1>1, <2>3, <2>6
    <3>2. d \in Int /\ r \in 0..(n - 1) /\ p = n * d + r
      BY <1>1, <2>3
    <3>3. r # 0
      BY <3>1 DEF Prime
    <3> HIDE DEF d, r
    <3>4. r * b = (b - d * i) * p
      <4>1. r * b = (p - n * d) * b /\ (p - n * d) * b = p * b - d * (n * b)
        BY <1>1, <2>3, <3>2
      <4>2. p * b - d * (i * p) = (b - d * i) * p
        BY <1>1, <3>2
      <4>3. d * (n * b) = d * (i * p)
        BY <2>4
      <4> QED BY <4>1, <4>2, <4>3
    <3>5. r \in S /\ r < n
      <4>1. b - d * i \in Int /\ r \in 1..(p - 1) /\ r < n
        BY <1>1, <2>3, <3>2, <3>3
      <4> QED BY <3>4, <4>1
    <3> QED BY <2>2, <2>3, <3>2, <3>5
  <2> QED BY <2>5, <2>6
<1> QED BY <1>5, <1>6

-----------------------------------------------------------------------------
(* The field. *)

(* The remainder is in the field, and a multiple of R away. *)
LEMMA ModIs == ASSUME NEW a \in Int PROVE a % R \in Field /\ \E k \in Int : a = k * R + (a % R)
BY OrderAssumption, RemainderIs DEF Field

(* The field as numbers. *)
LEMMA FieldIsInt == R \in Int /\ R > 1 /\ \A r \in Field : r \in Int /\ r >= 0 /\ r < R
BY OrderAssumption DEF Field

(* Two numbers that differ by a multiple of R are the same in the field, and only those. *)
LEMMA ModUnique ==
    ASSUME NEW r \in Field, NEW s \in Field, NEW k \in Int, r = k * R + s
    PROVE  r = s
BY OrderAssumption, RemainderUnique DEF Field

(* Numbers that differ by a multiple of R have one remainder. *)
LEMMA ModShift == ASSUME NEW a \in Int, NEW b \in Int, NEW k \in Int, a = b + k * R PROVE a % R = b % R
<1>1. PICK i \in Int : a = i * R + (a % R)
  BY ModIs
<1>2. PICK j \in Int : b = j * R + (b % R)
  BY ModIs
<1>3. R \in Int /\ a % R \in Field /\ b % R \in Field /\ a % R \in Int /\ b % R \in Int
  BY ModIs, FieldIsInt
<1> DEFINE x == a % R  y == b % R
<1>4. x = ((j + k) - i) * R + y
  <2> HIDE DEF x, y
  <2>1. i * R + x = (j * R + y) + k * R /\ x \in Int /\ y \in Int
    BY <1>1, <1>2, <1>3 DEF x, y
  <2> QED BY <1>3, <2>1
<1>5. (j + k) - i \in Int
  OBVIOUS
<1> QED BY <1>3, <1>4, <1>5, ModUnique

(* Numbers with one remainder differ by a multiple of R. *)
LEMMA ModSame == ASSUME NEW a \in Int, NEW b \in Int, a % R = b % R PROVE \E k \in Int : a = b + k * R
<1>1. PICK i \in Int : a = i * R + (a % R)
  BY ModIs
<1>2. PICK j \in Int : b = j * R + (b % R)
  BY ModIs
<1>3. R \in Int /\ a % R \in Int
  BY ModIs, FieldIsInt
<1> DEFINE x == a % R
<1>4. a = b + (i - j) * R /\ i - j \in Int
  <2>1. x \in Int /\ a = i * R + x /\ b = j * R + x
    BY <1>1, <1>2, <1>3
  <2> HIDE DEF x
  <2> QED BY <1>3, <2>1
<1> QED BY <1>4

(* The field is its own remainders. *)
LEMMA ModOfField == ASSUME NEW r \in Field PROVE r % R = r
<1>1. r \in Int
  BY OrderAssumption DEF Field
<1> QED BY <1>1, OrderAssumption DEF Field

(* Sums, differences and products may be reduced before or after. *)
LEMMA ModAdd == ASSUME NEW a \in Int, NEW b \in Int PROVE ((a % R) + b) % R = (a + b) % R
<1>1. PICK k \in Int : a = k * R + (a % R)
  BY ModIs
<1>2. a % R \in Int /\ R \in Int
  BY ModIs, FieldIsInt
<1> DEFINE x == a % R
<1>3. x \in Int /\ a = k * R + x
  BY <1>1, <1>2
<1> HIDE DEF x
<1>4. a + b = (x + b) + k * R /\ a + b \in Int /\ x + b \in Int
  BY <1>2, <1>3
<1> QED BY <1>4, ModShift DEF x

LEMMA ModSub == ASSUME NEW a \in Int, NEW b \in Int
                PROVE  ((a % R) - b) % R = (a - b) % R /\ (a - (b % R)) % R = (a - b) % R
<1>1. PICK k \in Int : a = k * R + (a % R)
  BY ModIs
<1>2. PICK j \in Int : b = j * R + (b % R)
  BY ModIs
<1>3. a % R \in Int /\ b % R \in Int /\ R \in Int
  BY ModIs, FieldIsInt
<1> DEFINE x == a % R  y == b % R
<1>4. x \in Int /\ y \in Int /\ a = k * R + x /\ b = j * R + y
  BY <1>1, <1>2, <1>3
<1> HIDE DEF x, y
<1>5. a - b = (x - b) + k * R /\ a - y = (a - b) + j * R
  BY <1>3, <1>4
<1>6. a - b \in Int /\ x - b \in Int /\ a - y \in Int
  BY <1>4
<1> QED BY <1>5, <1>6, ModShift DEF x, y

LEMMA ModMul == ASSUME NEW a \in Int, NEW b \in Int PROVE ((a % R) * b) % R = (a * b) % R
<1>1. PICK k \in Int : a = k * R + (a % R)
  BY ModIs
<1>2. a % R \in Int /\ R \in Int
  BY ModIs, FieldIsInt
<1> DEFINE x == a % R
<1>3. x \in Int /\ a = k * R + x
  BY <1>1, <1>2
<1> HIDE DEF x
<1>4. a * b = (x * b) + (k * b) * R
  <2>1. a * b = (k * R + x) * b
    BY <1>3
  <2>2. (k * R + x) * b = (k * b) * R + x * b
    BY <1>2, <1>3
  <2> QED BY <1>2, <1>3, <2>1, <2>2
<1>5. a * b \in Int /\ x * b \in Int /\ k * b \in Int
  BY <1>3
<1> QED BY <1>4, <1>5, ModShift DEF x

(* Only a factor that is zero makes a product zero. *)
LEMMA NoZeroDivisors ==
    ASSUME NEW a \in Int, NEW b \in Int, (a * b) % R = 0, a % R # 0
    PROVE  b % R = 0
<1>1. a * b \in Int /\ 0 \in Int /\ 0 % R = 0
  BY FieldIsInt
<1>2. PICK k \in Int : a * b = 0 + k * R
  BY <1>1, ModSame
<1>3. a * b = k * R
  BY <1>2, FieldIsInt
<1>4. Divides(R, a) \/ Divides(R, b)
  <2>1. Divides(R, a * b) /\ Prime(R)
    BY <1>3, OrderAssumption DEF Divides, Prime
  <2> QED BY <2>1, PrimeDivides
<1>5. ~Divides(R, a)
  <2> SUFFICES ASSUME NEW i \in Int, a = i * R PROVE FALSE
    BY DEF Divides
  <2>1. a = 0 + i * R
    BY FieldIsInt
  <2> QED BY <1>1, <2>1, ModShift
<1>6. PICK j \in Int : b = j * R
  BY <1>4, <1>5 DEF Divides
<1>7. b = 0 + j * R
  BY <1>6, FieldIsInt
<1> QED BY <1>1, <1>7, ModShift

(* So factors that are not zero cancel. *)
LEMMA Cancel ==
    ASSUME NEW q \in Int, q % R # 0, NEW m \in Int, NEW n \in Int, (q * m) % R = (q * n) % R
    PROVE  m % R = n % R
<1>1. q * m \in Int /\ q * n \in Int /\ m - n \in Int
  OBVIOUS
<1>2. PICK k \in Int : q * m = q * n + k * R
  BY <1>1, ModSame
<1>3. q * (m - n) = 0 + k * R /\ q * (m - n) \in Int /\ 0 % R = 0
  BY <1>2, FieldIsInt
<1>4. (q * (m - n)) % R = 0
  BY <1>3, ModShift
<1>5. (m - n) % R = 0 % R
  BY <1>1, <1>3, <1>4, NoZeroDivisors
<1>6. PICK j \in Int : m - n = 0 + j * R
  BY <1>1, <1>5, ModSame
<1>7. m = n + j * R
  BY <1>6, FieldIsInt
<1> QED BY <1>7, ModShift

-----------------------------------------------------------------------------
(* The search of a limb. *)

(* An input is what its tag says. *)
Tagged ==
    /\ input[1] = "sealed" => input \in Sealed
    /\ input[1] = "bit" => input \in BitPoint
    /\ input[1] = "statement" => input \in Statement
    /\ input[1] = "honest" => input \in Honest
    /\ input[1] = "keys" => input \in Keys
    /\ input[1] = "interest" => input \in Interest
    /\ input[1] = "onion" => input \in Onion

(* So it is to begin with. *)
LEMMA TaggedInit == Init => Tagged
<1> SUFFICES ASSUME Init PROVE Tagged
  OBVIOUS
<1> DEFINE tags == {"sealed", "bit", "statement", "honest", "keys", "interest", "onion"}
<1>1. input \in Growing => input[1] \notin tags
  BY DEF Growing
<1>2. input \in Onion => input[1] = "onion"
  BY DEF Onion
<1>3. input \in Group => input[1] \notin tags
  BY DEF Group
<1>4. /\ input \in Sealed => input[1] = "sealed"
      /\ input \in BitPoint => input[1] = "bit"
      /\ input \in Statement => input[1] = "statement"
  BY DEF Sealed, BitPoint, Statement
<1>5. /\ input \in Honest => input[1] = "honest"
      /\ input \in Keys => input[1] = "keys"
      /\ input \in Interest => input[1] = "interest"
  BY DEF Honest, Keys, Interest
<1> QED BY <1>1, <1>2, <1>3, <1>4, <1>5 DEF Init, Tagged

(* And stay so: an input does not change. *)
LEMMA TaggedStep == Tagged /\ [Next]_vars => Tagged'
BY DEF Tagged, Next, AppendBlock, AppendSuspensions, Arrive, vars

(* Numbers below R are told apart by their multiples. *)
LEMMA FewValues ==
    ASSUME NEW q \in Field \ {0}, NEW m \in LimbValues, NEW n \in LimbValues, (q * m) % R = (q * n) % R
    PROVE  m = n
<1>1. m \in Field /\ n \in Field /\ q \in Int /\ q % R = q
  BY LimbAssumption, FieldIsInt, ModOfField DEF LimbValues, Field
<1>2. m % R = n % R
  BY <1>1, FieldIsInt, Cancel
<1> QED BY <1>1, <1>2, ModOfField

(* A step i and a step j are a value of a limb, and each value is one of them. *)
LEMMA Steps ==
    /\ \A i \in GiantSteps, j \in 0..(BabySteps - 1) : i * BabySteps + j \in LimbValues
    /\ \A m \in LimbValues : \E i \in GiantSteps, j \in 0..(BabySteps - 1) : m = i * BabySteps + j
    /\ \A i, h \in GiantSteps, j, k \in 0..(BabySteps - 1) :
           i * BabySteps + j = h * BabySteps + k => i = h /\ j = k
<1> DEFINE B == BabySteps  L == Weight[LimbBits]
<1>1. B \in Nat /\ B * B = L /\ GiantSteps = 0..(B - 1) /\ LimbValues = 0..(L - 1)
  BY LimbAssumption DEF GiantSteps, LimbValues
<1> HIDE DEF B, L
<1>2. ASSUME NEW i \in 0..(B - 1), NEW j \in 0..(B - 1) PROVE i * B + j \in 0..(L - 1)
  <2>1. i * B + j >= 0
    <3>1. i * B >= 0
      BY <1>1
    <3> QED BY <1>1, <3>1
  <2>2. i * B + j <= B * B - 1
    <3>1. (B - 1 - i) * B >= 0 /\ (B - 1 - i) * B = B * B - B - i * B
      BY <1>1
    <3> QED BY <1>1, <3>1
  <2> QED BY <1>1, <2>1, <2>2
<1>3. ASSUME NEW m \in 0..(L - 1)
      PROVE  \E i \in 0..(B - 1), j \in 0..(B - 1) : m = i * B + j
  <2>1. B >= 1
    BY <1>1
  <2> DEFINE i == m \div B  j == m % B
  <2>2. i \in Int /\ j \in 0..(B - 1) /\ m = B * i + j /\ m \in Nat
    BY <1>1, <2>1
  <2> HIDE DEF i, j
  <2>3. i >= 0
    <3>1. i <= -1 => B * i <= -B
      BY <1>1, <2>1, <2>2
    <3> QED BY <1>1, <2>1, <2>2, <3>1
  <2>4. i <= B - 1
    <3>1. i >= B => B * i >= B * B
      BY <1>1, <2>1, <2>2
    <3> QED BY <1>1, <2>1, <2>2, <3>1
  <2>5. B * i = i * B
    BY <1>1, <2>2
  <2> QED BY <2>2, <2>3, <2>4, <2>5, <1>1
<1>4. ASSUME NEW i \in 0..(B - 1), NEW h \in 0..(B - 1), NEW j \in 0..(B - 1), NEW k \in 0..(B - 1),
             i * B + j = h * B + k
      PROVE  i = h /\ j = k
  <2>1. (i - h) * B = k - j /\ k - j < B /\ j - k < B
    BY <1>1, <1>4
  <2>2. i - h >= 1 => (i - h) * B >= B
    BY <1>1
  <2>3. i - h <= -1 => (i - h) * B <= -B
    BY <1>1
  <2>4. i = h
    BY <1>1, <2>1, <2>2, <2>3
  <2> QED BY <1>1, <1>4, <2>4
<1> QED BY <1>1, <1>2, <1>3, <1>4 DEF B

(* What is left of a ciphertext without its mask is its value, in the exponent. *)
LEMMA Unmasked ==
    ASSUME NEW x \in Field, NEW q \in Field, NEW u \in Field, NEW w \in Field, NEW m \in Int
    PROVE  LET T == GTDiv(w, Pairing(u, VerdictSignature(x, q))) IN
           /\ T \in Field
           /\ w = EncryptLimb(Params(x, q), m, u).w <=> (q * m) % R = T
<1> DEFINE T == GTDiv(w, Pairing(u, VerdictSignature(x, q)))  mask == x * q * u
<1>1. x \in Int /\ q \in Int /\ u \in Int /\ w \in Int /\ R \in Int
  BY FieldIsInt
<1>2. T = (w - mask) % R
  <2>1. VerdictSignature(x, q) = (q * x) % R
    BY DEF VerdictSignature, Times, Mul
  <2>2. Pairing(u, VerdictSignature(x, q)) = mask % R
    <3>1. Pairing(u, VerdictSignature(x, q)) = (u * ((q * x) % R)) % R
      BY <2>1 DEF Pairing, Mul
    <3>2. ((q * x) % R) \in Int /\ q * x \in Int
      BY <1>1, ModIs, FieldIsInt
    <3>3. u * ((q * x) % R) = ((q * x) % R) * u /\ (q * x) * u = mask
      BY <1>1, <3>2
    <3> QED BY <1>1, <3>1, <3>2, <3>3, ModMul
  <2>3. mask \in Int
    BY <1>1
  <2> HIDE DEF mask
  <2>4. T = (w - (mask % R)) % R
    BY <2>2 DEF GTDiv, Sub
  <2>5. (w - (mask % R)) % R = (w - mask) % R
    BY <1>1, <2>3, ModSub
  <2> QED BY <2>4, <2>5
<1>3. EncryptLimb(Params(x, q), m, u).w = (q * m + mask) % R
  <2>1. Params(x, q).gT = q /\ Params(x, q).kPub = (x * q) % R
    <3>1. (1 * q) % R = q
      BY <1>1, ModOfField
    <3> QED BY <3>1 DEF Params, Pairing, Mul
  <2>2. EncryptLimb(Params(x, q), m, u).w = (((q * m) % R) + ((((x * q) % R) * u) % R)) % R
    BY <2>1 DEF EncryptLimb, GTMul, GTPow, Add, Mul
  <2>3. (((x * q) % R) * u) % R = mask % R
    <3>1. x * q \in Int /\ (x * q) * u = mask
      BY <1>1
    <3>2. (((x * q) % R) * u) % R = ((x * q) * u) % R
      BY <1>1, <3>1, ModMul
    <3> QED BY <3>1, <3>2
  <2> DEFINE a == q * m  b == mask
  <2>4. a \in Int /\ b \in Int /\ a % R \in Int /\ b % R \in Int
    BY <1>1, ModIs, FieldIsInt
  <2>5. EncryptLimb(Params(x, q), m, u).w = ((a % R) + (b % R)) % R
    BY <2>2, <2>3
  <2> HIDE DEF a, b
  <2>6. ((a % R) + (b % R)) % R = (a + (b % R)) % R
    BY <2>4, ModAdd
  <2>7. (a + (b % R)) % R = ((b % R) + a) % R /\ ((b % R) + a) % R = (b + a) % R /\ b + a = a + b
    BY <2>4, ModAdd
  <2> QED BY <2>5, <2>6, <2>7 DEF a, b
<1> DEFINE a == q * m  b == mask
<1>4. a \in Int /\ b \in Int /\ w % R = w
  BY <1>1, ModOfField
<1> HIDE DEF a, b
<1>5. ASSUME w = (a + b) % R PROVE a % R = (w - b) % R
  <2>1. PICK k \in Int : w = (a + b) + k * R
    <3>1. w % R = (a + b) % R /\ a + b \in Int
      BY <1>4, <1>5
    <3> QED BY <1>1, <3>1, ModSame
  <2>2. w - b = a + k * R /\ w - b \in Int
    BY <1>1, <1>4, <2>1
  <2> QED BY <1>4, <2>2, ModShift
<1>6. ASSUME a % R = (w - b) % R PROVE w = (a + b) % R
  <2>1. PICK k \in Int : a = (w - b) + k * R
    <3>1. w - b \in Int
      BY <1>1, <1>4
    <3> QED BY <1>4, <1>6, <3>1, ModSame
  <2>2. a + b = w + k * R /\ a + b \in Int
    BY <1>1, <1>4, <2>1
  <2> QED BY <1>1, <1>4, <2>2, ModShift
<1>7. T \in Field
  <2>1. w - mask \in Int
    BY <1>1
  <2> QED BY <1>2, <2>1, ModIs
<1> QED BY <1>2, <1>3, <1>5, <1>6, <1>7 DEF a, b

(* The search finds the value whose power it is given, if there is one. *)
LEMMA SolveFinds ==
    ASSUME NEW q \in Field \ {0}, NEW T \in Field
    PROVE  LET fits == {m \in LimbValues : (q * m) % R = T} IN
           /\ fits = {} => Solve(q, T) = None
           /\ \A m \in fits : Solve(q, T) = m /\ fits = {m}
<1> DEFINE B == BabySteps  J == 0..(BabySteps - 1)
           fits == {m \in LimbValues : (q * m) % R = T}
           landed(i, j) == GTDiv(T, GTPow(q, i * B)) = GTPow(q, j)
           hits == {i \in GiantSteps : \E j \in J : landed(i, j)}
<1>1. q \in Int /\ T \in Int /\ T % R = T /\ R \in Int
  BY FieldIsInt, ModOfField
<1>2. B \in Int /\ \A i \in GiantSteps : i \in Nat
  BY LimbAssumption DEF GiantSteps
<1>3. ASSUME NEW i \in GiantSteps, NEW j \in J PROVE landed(i, j) <=> i * B + j \in fits
  <2> DEFINE a == q * (i * B)  b == q * j
  <2>1. a \in Int /\ b \in Int /\ i * B \in Int /\ j \in Int
    BY <1>1, <1>2, <1>3, LimbAssumption
  <2>2. GTDiv(T, GTPow(q, i * B)) = (T - a) % R /\ GTPow(q, j) = b % R
    <3>1. GTDiv(T, GTPow(q, i * B)) = (T - (a % R)) % R /\ GTPow(q, j) = b % R
      BY DEF GTDiv, GTPow, Sub, Mul
    <3> HIDE DEF a, b
    <3> QED BY <1>1, <2>1, <3>1, ModSub
  <2>3. q * (i * B + j) = a + b
    BY <1>1, <2>1
  <2> HIDE DEF a, b
  <2>4. ASSUME (T - a) % R = b % R PROVE (a + b) % R = T
    <3>1. PICK k \in Int : T - a = b + k * R
      BY <1>1, <2>1, <2>4, ModSame
    <3>2. T = (a + b) + k * R /\ a + b \in Int
      BY <1>1, <2>1, <3>1
    <3> QED BY <1>1, <3>2, ModShift
  <2>5. ASSUME (a + b) % R = T PROVE (T - a) % R = b % R
    <3>1. PICK k \in Int : a + b = T + k * R
      <4>1. (a + b) % R = T % R /\ a + b \in Int
        BY <1>1, <2>1, <2>5
      <4> QED BY <1>1, <4>1, ModSame
    <3>2. b = (T - a) + k * R /\ T - a \in Int
      BY <1>1, <2>1, <3>1
    <3> QED BY <2>1, <3>2, ModShift
  <2>6. i * B + j \in LimbValues
    BY <1>3, Steps
  <2> QED BY <2>2, <2>3, <2>4, <2>5, <2>6
<1> HIDE DEF landed
<1>4. Solve(q, T) = IF hits = {} THEN None ELSE Min(hits) * B + CHOOSE j \in J : landed(Min(hits), j)
  BY DEF Solve, landed
<1>5. ASSUME fits = {} PROVE Solve(q, T) = None
  BY <1>3, <1>4, <1>5
<1>6. ASSUME NEW m \in fits PROVE Solve(q, T) = m /\ fits = {m}
  <2>1. fits = {m}
    BY <1>6, FewValues
  <2>2. PICK i \in GiantSteps, j \in J : m = i * B + j
    BY <1>6, Steps
  <2>3. landed(i, j) /\ \A h \in GiantSteps, k \in J : landed(h, k) => h = i /\ k = j
    <3>1. ASSUME NEW h \in GiantSteps, NEW k \in J, landed(h, k) PROVE h = i /\ k = j
      <4>1. h * B + k = i * B + j
        BY <1>3, <2>1, <2>2, <3>1
      <4> QED BY <2>2, <3>1, <4>1, Steps
    <3> HIDE DEF fits, B
    <3> QED BY <1>3, <1>6, <2>2, <3>1
  <2> HIDE DEF fits, B, J
  <2>4. hits = {i}
    BY <2>2, <2>3
  <2>5. Min(hits) = i
    BY <2>4 DEF Min
  <2>6. (CHOOSE k \in J : landed(i, k)) = j
    BY <2>2, <2>3
  <2> QED BY <1>4, <2>1, <2>2, <2>4, <2>5, <2>6
<1> QED BY <1>5, <1>6

(***************************************************************************)
(* For every prime order, width of limbs, keys and ciphertexts: decryption *)
(* finds the value of a limb if it has one, and nothing otherwise.         *)
(***************************************************************************)
THEOREM LimbsDecryptHolds == Spec => []LimbsDecrypt
<1>1. Tagged => LimbsDecrypt
  <2> SUFFICES ASSUME Tagged, input[1] = "sealed" PROVE LimbsDecrypt
    BY DEF LimbsDecrypt
  <2>1. PICK x \in Field \ {0}, q \in Field \ {0}, u \in Field, w \in Field :
            input = <<"sealed", x, q, u, w>>
    BY DEF Tagged, Sealed
  <2> DEFINE limb == [u |-> u, w |-> w]
             fits == {m \in LimbValues : w = EncryptLimb(Params(x, q), m, u).w}
             T == GTDiv(w, Pairing(u, VerdictSignature(x, q)))
  <2>2. T \in Field /\ fits = {m \in LimbValues : (q * m) % R = T}
    <3>1. \A m \in LimbValues : m \in Int
      BY LimbAssumption, FieldIsInt DEF LimbValues
    <3> QED BY <3>1, Unmasked
  <2>3. DecryptLimb(limb, VerdictSignature(x, q), q) = Solve(q, T)
    <3>1. Pairing(1, q) = q
      BY ModOfField, FieldIsInt DEF Pairing, Mul
    <3> QED BY <3>1 DEF DecryptLimb
  <2> HIDE DEF T, fits
  <2>4. /\ fits = {} => Solve(q, T) = None
        /\ \A m \in fits : Solve(q, T) = m /\ fits = {m}
    BY <2>2, SolveFinds
  <2>5. Solve(q, T) = IF fits = {} THEN None ELSE CHOOSE m \in fits : TRUE
    BY <2>4
  <2> QED BY <2>1, <2>3, <2>5 DEF LimbsDecrypt, fits
<1> QED BY <1>1, TaggedInit, TaggedStep, PTL DEF Spec

-----------------------------------------------------------------------------
(* Special soundness. *)

(* A set with more than one element has two. *)
LEMMA TwoElements ==
    ASSUME NEW S, Cardinality(S) >= 2
    PROVE  \E c, d \in S : c # d
<1> SUFFICES ASSUME \A c, d \in S : c = d PROVE FALSE
  OBVIOUS
<1>1. CASE S = {}
  BY <1>1, FS_EmptySet
<1>2. CASE S # {}
  <2>1. PICK c \in S : TRUE
    BY <1>2
  <2>2. S = {c}
    BY <2>1
  <2>3. Cardinality(S) = 1
    BY <2>2, FS_Singleton
  <2> QED BY <2>3
<1> QED BY <1>1, <1>2

(* A linear equation with two solutions in the field has all of it. *)
LEMMA TwoRoots ==
    ASSUME NEW a \in Int, NEW b \in Int, NEW c \in Field, NEW d \in Field, c # d,
           (a + b * c) % R = 0, (a + b * d) % R = 0
    PROVE  b % R = 0
<1>1. c \in Int /\ d \in Int /\ a + b * c \in Int /\ a + b * d \in Int /\ b * c \in Int /\ b * d \in Int
  BY FieldIsInt
<1>2. PICK k \in Int : a + b * c = (a + b * d) + k * R
  BY <1>1, ModSame
<1>3. b * c = b * d + k * R
  BY <1>1, <1>2, FieldIsInt
<1>4. (b * c) % R = (b * d) % R
  BY <1>1, <1>3, ModShift
<1>5. b % R # 0 => c % R = d % R
  BY <1>1, <1>4, Cancel
<1> QED BY <1>5, ModOfField

(* Additions and products of the field, without the reductions on the way. *)
LEMMA MulAdd ==
    ASSUME NEW a \in Int, NEW b \in Int, NEW c \in Int
    PROVE  Add(a, Mul(b, c)) = (a + b * c) % R
<1> DEFINE t == b * c
<1>1. t \in Int /\ t % R \in Int
  BY ModIs, FieldIsInt
<1>2. Add(a, Mul(b, c)) = (a + (t % R)) % R
  BY DEF Add, Mul
<1> HIDE DEF t
<1>3. (a + (t % R)) % R = ((t % R) + a) % R /\ ((t % R) + a) % R = (t + a) % R /\ t + a = a + t
  <2>1. a + (t % R) = (t % R) + a /\ t + a = a + t
    BY <1>1
  <2>2. ((t % R) + a) % R = (t + a) % R
    BY <1>1, ModAdd
  <2> QED BY <2>1, <2>2
<1> QED BY <1>2, <1>3 DEF t

(* Equality in the field is a difference of zero. *)
LEMMA ZeroMeans ==
    ASSUME NEW a \in Int, NEW b \in Int
    PROVE  a % R = b % R <=> (a - b) % R = 0
<1>1. a - b \in Int /\ 0 % R = 0
  BY FieldIsInt
<1>2. ASSUME a % R = b % R PROVE (a - b) % R = 0
  <2>1. PICK k \in Int : a = b + k * R
    BY <1>2, ModSame
  <2>2. a - b = 0 + k * R
    BY <2>1, FieldIsInt
  <2> QED BY <1>1, <2>2, ModShift
<1>3. ASSUME (a - b) % R = 0 PROVE a % R = b % R
  <2>1. (a - b) % R = 0 % R
    BY <1>1, <1>3
  <2>2. PICK k \in Int : a - b = 0 + k * R
    BY <1>1, <2>1, ModSame
  <2>3. a = b + k * R
    BY <2>2, FieldIsInt
  <2> QED BY <2>3, ModShift
<1> QED BY <1>2, <1>3

(* The first generator's part of what verify_or checks. *)
LEMMA BitEquations ==
    ASSUME NEW p \in Point, NEW a0 \in Point, NEW a1 \in Point, NEW c \in Field,
           NEW e0 \in Field, NEW z0 \in Field, NEW z1 \in Field,
           VerifyBit(p, [a0 |-> a0, a1 |-> a1, e0 |-> e0, z0 |-> z0, z1 |-> z1], c)
    PROVE  /\ (a0.g + p.g * e0) % R = 0
           /\ (a1.g + (p.g - 1) * (c - e0)) % R = 0
<1>1. p.g \in Int /\ a0.g \in Int /\ a1.g \in Int /\ c \in Int /\ e0 \in Int /\ z0 \in Int /\ z1 \in Int /\ R \in Int
  BY FieldIsInt DEF Point
<1>2. (0 * z0) % R = 0 /\ (0 * z1) % R = 0
  BY <1>1, FieldIsInt
<1>3. Add(a0.g, Mul(p.g, e0)) = 0
  BY <1>2 DEF VerifyBit, PointMul, PointAdd, H1, Mul
<1>4. Add(a1.g, Mul(Add(p.g, Mul(1, R - 1)), Sub(c, e0))) = 0
  BY <1>2 DEF VerifyBit, PointMul, PointAdd, PointSub, G1, H1, Mul
<1>5. (a0.g + p.g * e0) % R = 0
  BY <1>1, <1>3, MulAdd
<1>6. Add(p.g, Mul(1, R - 1)) = (p.g - 1) % R
  <2>1. Add(p.g, Mul(1, R - 1)) = (p.g + 1 * (R - 1)) % R
    <3>1. R - 1 \in Int /\ 1 \in Int
      BY <1>1
    <3> QED BY <1>1, <3>1, MulAdd, Zenon
  <2>2. p.g + 1 * (R - 1) = (p.g - 1) + 1 * R
    BY <1>1
  <2> QED BY <1>1, <2>1, <2>2, ModShift
<1> DEFINE h == p.g - 1  r == c - e0
<1>7. h \in Int /\ r \in Int /\ h % R \in Int /\ r % R \in Int
  <2>1. h \in Int /\ r \in Int
    BY <1>1
  <2> HIDE DEF h, r
  <2> QED BY <2>1, ModIs, FieldIsInt
<1>8. Add(a1.g, Mul(h % R, r % R)) = 0
  BY <1>4, <1>6 DEF Sub
<1> HIDE DEF h, r
<1>9. Mul(h % R, r % R) = Mul(h, r)
  <2>1. Mul(h % R, r % R) = (h * (r % R)) % R
    BY <1>7, ModMul DEF Mul
  <2>2. h * (r % R) = (r % R) * h /\ r * h = h * r
    BY <1>7
  <2> QED BY <1>7, <2>1, <2>2, ModMul DEF Mul
<1>10. (a1.g + h * r) % R = 0
  <2>1. Add(a1.g, Mul(h, r)) = 0
    BY <1>8, <1>9
  <2> DEFINE k == a1.g
  <2>2. k \in Int /\ h \in Int /\ r \in Int
    BY <1>1, <1>7
  <2> HIDE DEF k
  <2>3. Add(k, Mul(h, r)) = (k + h * r) % R
    BY <2>2, MulAdd
  <2> QED BY <2>1, <2>3 DEF k
<1> QED BY <1>5, <1>10 DEF h, r

(* Two answers to one first message: the point is a commitment to a bit. *)
LEMMA BitsOpen ==
    ASSUME NEW p \in Point, NEW a0 \in Point, NEW a1 \in Point, Cardinality(BitAnswered(p, a0, a1)) >= 2
    PROVE  p.g \in {0, 1}
<1>1. PICK c, d \in BitAnswered(p, a0, a1) : c # d
  BY TwoElements
<1>2. c \in Field /\ d \in Field
  BY DEF BitAnswered
<1>3. PICK e \in Field : (a0.g + p.g * e) % R = 0 /\ (a1.g + (p.g - 1) * (c - e)) % R = 0
  <2>1. PICK e, z0, z1 \in Field : VerifyBit(p, [a0 |-> a0, a1 |-> a1, e0 |-> e, z0 |-> z0, z1 |-> z1], c)
    BY <1>1 DEF BitAnswered
  <2> QED BY <1>2, <2>1, BitEquations
<1>4. PICK f \in Field : (a0.g + p.g * f) % R = 0 /\ (a1.g + (p.g - 1) * (d - f)) % R = 0
  <2>1. PICK f, z0, z1 \in Field : VerifyBit(p, [a0 |-> a0, a1 |-> a1, e0 |-> f, z0 |-> z0, z1 |-> z1], d)
    BY <1>1 DEF BitAnswered
  <2> QED BY <1>2, <2>1, BitEquations
<1>5. p.g \in Field /\ p.g \in Int /\ a0.g \in Int /\ a1.g \in Int /\ c \in Int /\ d \in Int /\ e \in Int /\ R \in Int
  BY <1>2, FieldIsInt DEF Point
<1>6. CASE e # f
  <2>1. p.g % R = 0
    BY <1>3, <1>4, <1>5, <1>6, TwoRoots
  <2> QED BY <1>5, <2>1, ModOfField
<1>7. CASE e = f
  <2> DEFINE h == p.g - 1
  <2>1. h \in Int
    BY <1>5
  <2>2. (a1.g + h * (c - e)) % R = 0 /\ (a1.g + h * (d - e)) % R = 0
    BY <1>3, <1>4, <1>7
  <2> HIDE DEF h
  <2>3. a1.g + h * (c - e) = (a1.g - h * e) + h * c /\ a1.g + h * (d - e) = (a1.g - h * e) + h * d
    BY <1>5, <2>1
  <2>4. a1.g - h * e \in Int
    BY <1>5, <2>1
  <2>5. h % R = 0
    BY <1>1, <1>2, <2>1, <2>2, <2>3, <2>4, TwoRoots
  <2>6. p.g = 0 \/ h \in Field
    BY <1>5, <2>1, FieldIsInt DEF h, Field
  <2> QED BY <1>5, <2>1, <2>5, <2>6, ModOfField DEF h
<1> QED BY <1>6, <1>7

(* Factors may be reduced before they are multiplied. *)
LEMMA MulReduced ==
    ASSUME NEW a \in Int, NEW b \in Int
    PROVE  Mul(a, b % R) = (a * b) % R
<1> DEFINE t == b % R
<1>1. t \in Int
  BY ModIs, FieldIsInt
<1>2. (t * a) % R = (b * a) % R
  BY ModMul
<1> HIDE DEF t
<1>3. a * t = t * a /\ a * b = b * a
  BY <1>1
<1> QED BY <1>2, <1>3 DEF Mul, t

(* The same of terms. *)
LEMMA AddReduced ==
    ASSUME NEW a \in Int, NEW b \in Int
    PROVE  Add(a % R, b % R) = (a + b) % R
<1> DEFINE t == b % R
<1>1. t \in Int
  BY ModIs, FieldIsInt
<1>2. (t + a) % R = (b + a) % R
  BY ModAdd
<1> HIDE DEF t
<1>3. ((a % R) + t) % R = (a + t) % R
  BY <1>1, ModAdd
<1>4. a + t = t + a /\ a + b = b + a
  BY <1>1
<1> QED BY <1>2, <1>3, <1>4 DEF Add, t

(* A commitment without blinding. *)
LEMMA CommitsTo == ASSUME NEW v \in Field PROVE BitCommitment(v, 0) = [g |-> v, h |-> 0]
<1>1. v \in Int /\ v % R = v /\ 0 % R = 0 /\ R \in Int
  BY ModOfField, FieldIsInt
<1>2. (1 * v) % R = v /\ (0 * 0) % R = 0 /\ (0 * v) % R = 0 /\ (1 * 0) % R = 0 /\ (v + 0) % R = v /\ (0 + 0) % R = 0
  BY <1>1
<1> QED BY <1>2 DEF BitCommitment, PointAdd, PointMul, G1, H1, Add, Mul

(* What verify_link checks, in one equation that is linear in the challenge. *)
LEMMA LinkEquation ==
    ASSUME NEW q \in Field, NEW k \in Field, NEW m \in Field, NEW u \in Field, NEW w \in Field,
           NEW alpha \in Field, NEW rb \in Field, NEW rc \in Field,
           NEW c \in Field, NEW zm \in Field, NEW zrho \in Field,
           VerifyLink([gT |-> q, kPub |-> k], [u |-> u, w |-> w], BitCommitment(m, 0),
                      [ra |-> BitCommitment(alpha, 0), rb |-> rb, rc |-> rc], c,
                      [zm |-> zm, zt |-> 0, zrho |-> zrho])
    PROVE  ((q * alpha + k * rb - rc) + (q * m + k * u - w) * c) % R = 0
<1> DEFINE s == alpha + m * c  t == rb + u * c  right == rc + w * c
<1>1. /\ q \in Int /\ k \in Int /\ m \in Int /\ u \in Int /\ w \in Int
      /\ alpha \in Int /\ rb \in Int /\ rc \in Int /\ c \in Int /\ R \in Int
  BY FieldIsInt
<1>2. s \in Int /\ t \in Int /\ right \in Int /\ q * s \in Int /\ k * t \in Int
  BY <1>1
<1>3. zm = s % R
  <2>1. zm = Add(alpha, Mul(m, c))
    BY CommitsTo DEF VerifyLink, PointAdd, PointMul
  <2> QED BY <1>1, <2>1, MulAdd
<1>4. zrho = t % R
  <2>1. zrho = Add(rb, Mul(u, c))
    BY DEF VerifyLink
  <2> QED BY <1>1, <2>1, MulAdd
<1>5. Add(Mul(q, zm), Mul(k, zrho)) = Add(rc, Mul(w, c))
  BY DEF VerifyLink, GTMul, GTPow
<1>6. Add(rc, Mul(w, c)) = right % R
  BY <1>1, MulAdd
<1> HIDE DEF s, t, right
<1>7. Mul(q, zm) = (q * s) % R /\ Mul(k, zrho) = (k * t) % R
  BY <1>1, <1>2, <1>3, <1>4, MulReduced
<1>8. (q * s + k * t) % R = right % R
  BY <1>2, <1>5, <1>6, <1>7, AddReduced
<1>9. ((q * s + k * t) - right) % R = 0
  <2>1. q * s + k * t \in Int
    BY <1>2
  <2> QED BY <1>2, <1>8, <2>1, ZeroMeans
<1>10. (q * s + k * t) - right = (q * alpha + k * rb - rc) + (q * m + k * u - w) * c
  <2>1. q * s = q * alpha + (q * m) * c
    BY <1>1 DEF s
  <2>2. k * t = k * rb + (k * u) * c
    BY <1>1 DEF t
  <2>3. (q * m + k * u - w) * c = (q * m) * c + (k * u) * c - w * c
    BY <1>1
  <2> DEFINE qa == q * alpha  kr == k * rb  x == (q * m) * c  y == (k * u) * c  z == w * c
  <2>4. qa \in Int /\ kr \in Int /\ x \in Int /\ y \in Int /\ z \in Int
    BY <1>1
  <2>5. right = rc + z
    BY DEF right
  <2> HIDE DEF qa, kr, x, y, z
  <2> QED BY <1>1, <2>1, <2>2, <2>3, <2>4, <2>5 DEF qa, kr, x, y, z
<1> QED BY <1>9, <1>10

(* A ciphertext opens to its value. *)
LEMMA Opens ==
    ASSUME NEW x \in Field, NEW q \in Field \ {0}, NEW u \in Field, NEW w \in Field, NEW m \in LimbValues,
           w = EncryptLimb(Params(x, q), m, u).w
    PROVE  DecryptLimb([u |-> u, w |-> w], VerdictSignature(x, q), q) = m
<1> DEFINE T == GTDiv(w, Pairing(u, VerdictSignature(x, q)))
<1>1. m \in Int
  BY LimbAssumption, FieldIsInt DEF LimbValues
<1>2. T \in Field /\ (q * m) % R = T
  BY <1>1, Unmasked
<1>3. Pairing(1, q) = q
  BY ModOfField, FieldIsInt DEF Pairing, Mul
<1>4. DecryptLimb([u |-> u, w |-> w], VerdictSignature(x, q), q) = Solve(q, T)
  BY <1>3 DEF DecryptLimb
<1> HIDE DEF T
<1> QED BY <1>2, <1>4, SolveFinds

(* Two answers to one first message: the ciphertext opens to what is committed to. *)
LEMMA LimbOpens ==
    ASSUME NEW x \in Field, NEW q \in Field \ {0}, NEW m \in LimbValues, NEW u \in Field, NEW w \in Field,
           NEW alpha \in Field, NEW rb \in Field, NEW rc \in Field,
           Cardinality(LinkAnswered(Params(x, q), [u |-> u, w |-> w], BitCommitment(m, 0),
                                    [ra |-> BitCommitment(alpha, 0), rb |-> rb, rc |-> rc])) >= 2
    PROVE  DecryptLimb([u |-> u, w |-> w], VerdictSignature(x, q), q) = m
<1> DEFINE k == (x * q) % R  pr == [gT |-> q, kPub |-> k]
           first == [ra |-> BitCommitment(alpha, 0), rb |-> rb, rc |-> rc]
           limb == [u |-> u, w |-> w]
           a == q * alpha + k * rb - rc  b == q * m + k * u - w
<1>1. Params(x, q) = pr
  BY ModOfField, FieldIsInt DEF Params, Pairing, Mul
<1>2. k \in Field /\ m \in Field
  <2>1. x * q \in Int
    BY FieldIsInt
  <2>2. m \in Field
    BY LimbAssumption, FieldIsInt DEF LimbValues, Field
  <2> QED BY <2>1, <2>2, ModIs
<1> HIDE DEF k
<1>3. PICK c, d \in LinkAnswered(pr, limb, BitCommitment(m, 0), first) : c # d
  BY <1>1, TwoElements
<1>4. ASSUME NEW e \in LinkAnswered(pr, limb, BitCommitment(m, 0), first)
      PROVE  e \in Field /\ (a + b * e) % R = 0
  <2>1. e \in Field
    BY <1>4 DEF LinkAnswered
  <2>2. PICK zm, zrho \in Field :
            VerifyLink(pr, limb, BitCommitment(m, 0), first, e, [zm |-> zm, zt |-> 0, zrho |-> zrho])
    BY <1>4 DEF LinkAnswered
  <2> QED BY <1>2, <2>1, <2>2, LinkEquation
<1>5. /\ q \in Int /\ k \in Int /\ m \in Int /\ u \in Int /\ w \in Int
      /\ alpha \in Int /\ rb \in Int /\ rc \in Int
  BY <1>2, FieldIsInt
<1>6. a \in Int /\ b \in Int
  BY <1>5
<1> HIDE DEF a
<1>7. b % R = 0
  <2> HIDE DEF b
  <2> QED BY <1>3, <1>4, <1>6, TwoRoots
<1>8. (q * m + k * u) % R = w
  <2> DEFINE s == q * m + k * u
  <2>1. s \in Int /\ (s - w) % R = 0
    BY <1>5, <1>7
  <2> HIDE DEF s
  <2>2. s % R = w % R
    BY <1>5, <2>1, ZeroMeans
  <2> QED BY <2>2, ModOfField DEF s
<1>9. EncryptLimb(Params(x, q), m, u).w = (q * m + k * u) % R
  <2>1. EncryptLimb(Params(x, q), m, u).w = Add((q * m) % R, (k * u) % R)
    BY <1>1 DEF EncryptLimb, GTMul, GTPow, Mul
  <2>2. q * m \in Int /\ k * u \in Int
    BY <1>5
  <2> QED BY <2>1, <2>2, AddReduced
<1> QED BY <1>8, <1>9, Opens

(***************************************************************************)
(* For every prime order and width of limbs: a prover who can answer two   *)
(* challenges on what he sent first has committed to a bit, and the limb   *)
(* he sealed opens to the value he committed to.  The order is above 3,    *)
(* the hash of the verdict in the statements, for that hash not to be 0.   *)
(***************************************************************************)
THEOREM ProofsOpen == ASSUME R > 3 PROVE Spec => []AcceptedOpens
<1>1. Tagged => AcceptedOpens
  <2> SUFFICES ASSUME Tagged PROVE AcceptedOpens
    OBVIOUS
  <2>1. ASSUME input[1] = "bit", NEW a0 \in [g : Field, h : {0}], NEW a1 \in [g : Field, h : {0}],
               Cardinality(BitAnswered(input[2], a0, a1)) >= 2
        PROVE  input[2].g \in {0, 1}
    <3>1. input[2] \in Point
      BY <2>1 DEF Tagged, BitPoint
    <3>2. a0 \in Point /\ a1 \in Point
      BY FieldIsInt DEF Point, Field
    <3> QED BY <2>1, <3>1, <3>2, BitsOpen
  <2>2. ASSUME input[1] = "statement", NEW alpha \in Field, NEW rb \in Field, NEW rc \in Field,
               Cardinality(LinkAnswered(Params(2, VerdictHash), [u |-> input[3], w |-> input[4]],
                                        BitCommitment(input[2], 0),
                                        [ra |-> BitCommitment(alpha, 0), rb |-> rb, rc |-> rc])) >= 2
        PROVE  DecryptLimb([u |-> input[3], w |-> input[4]], VerdictSignature(2, VerdictHash), VerdictHash) = input[2]
    <3>1. input[2] \in LimbValues /\ input[3] \in Field /\ input[4] \in Field
      BY <2>2 DEF Tagged, Statement
    <3>2. 2 \in Field /\ VerdictHash \in Field \ {0}
      BY FieldIsInt DEF Field, VerdictHash
    <3> QED BY <2>2, <3>1, <3>2, LimbOpens
  <2> QED BY <2>1, <2>2 DEF AcceptedOpens
<1> QED BY <1>1, TaggedInit, TaggedStep, PTL DEF Spec

-----------------------------------------------------------------------------
(* The reassembly of fragments. *)

(* The fragments of a message, by index. *)
Count(id) ==
    IF Payloads[id] = <<>> THEN 1 ELSE (Len(Payloads[id]) + ChunkLen - 1) \div ChunkLen
Chunk(id, i) ==
    SubSeq(Payloads[id], i * ChunkLen + 1, Min({(i + 1) * ChunkLen, Len(Payloads[id])}))
Fragment(id, i) == [id |-> id, index |-> i, count |-> Count(id), chunk |-> Chunk(id, i)]

(* A message is split into its fragments. *)
LEMMA FragmentsAre ==
    ASSUME NEW id \in DOMAIN Payloads
    PROVE  Fragments(id, Payloads[id]) = [i \in 0..(Count(id) - 1) |-> Fragment(id, i)]
BY DEF Fragments, Fragment, Count, Chunk

(* As many chunks as it takes. *)
LEMMA CountIs ==
    ASSUME NEW id \in DOMAIN Payloads
    PROVE  LET L == Len(Payloads[id])  n == Count(id) IN
           /\ n \in Nat /\ n >= 1 /\ L \in Nat /\ ChunkLen \in Nat /\ ChunkLen >= 1
           /\ n * ChunkLen >= L /\ (n = 1 \/ (n - 1) * ChunkLen < L)
<1> DEFINE L == Len(Payloads[id])  C == ChunkLen  n == Count(id)
<1>1. L \in Nat /\ C \in Nat /\ C >= 1 /\ (Payloads[id] = <<>> <=> L = 0)
  <2>1. Payloads[id] \in Seq(Int)
    BY PayloadsAssumption
  <2> QED BY <2>1, MixnetAssumption
<1> HIDE DEF C
<1>2. CASE L = 0
  <2>1. n = 1
    BY <1>1, <1>2 DEF Count
  <2> QED BY <1>1, <1>2, <2>1 DEF C
<1>3. CASE L # 0
  <2> HIDE DEF L
  <2> DEFINE d == (L + C - 1) \div C  r == (L + C - 1) % C
  <2>1. d \in Int /\ r \in 0..(C - 1) /\ L + C - 1 = C * d + r
    BY <1>1
  <2>2. n = d
    BY <1>1, <1>3 DEF Count, L, C
  <2> HIDE DEF d, r, n
  <2>3. C * d >= L /\ C * d <= L + C - 1
    BY <1>1, <2>1
  <2>4. d >= 1
    <3>1. d <= 0 => C * d <= 0
      BY <1>1, <2>1
    <3> QED BY <1>1, <1>3, <2>1, <2>3, <3>1
  <2>5. C * d = d * C /\ (d - 1) * C = d * C - C
    BY <1>1, <2>1
  <2> QED BY <1>1, <2>1, <2>2, <2>3, <2>4, <2>5 DEF L, C, n
<1> QED BY <1>2, <1>3 DEF C

(* The chunks one after the other are the payload. *)
LEMMA WholeIs ==
    ASSUME NEW id \in DOMAIN Payloads, NEW partial, partial.count = Count(id),
           \A i \in 0..(Count(id) - 1) : partial.parts[i] = Chunk(id, i)
    PROVE  Whole(partial) = Payloads[id]
<1> DEFINE P == Payloads[id]  L == Len(P)  C == ChunkLen  n == Count(id)
           E(i) == Min({i * C, L})
           seqs == [i \in 1..n |-> partial.parts[i - 1]]
           IsFlat(f) == f = [i \in 1..Len(seqs) |-> IF i = 1 THEN seqs[i] ELSE f[i - 1] \o seqs[i]]
           flat == CHOOSE f : IsFlat(f)
           prefix == [i \in 1..n |-> SubSeq(P, 1, E(i))]
<1>1. P \in Seq(Int) /\ L \in Nat /\ n \in Nat /\ n >= 1 /\ C \in Nat /\ C >= 1 /\ n * C >= L /\ (n = 1 \/ (n - 1) * C < L)
  BY PayloadsAssumption, CountIs
<1>2. Len(seqs) = n /\ DOMAIN seqs = 1..n
  <2> HIDE DEF n
  <2> QED BY <1>1
<1>3. Whole(partial) = flat[n]
  <2>1. Whole(partial) = FlattenSeq(seqs)
    BY DEF Whole
  <2> HIDE DEF seqs, n
  <2> QED BY <1>1, <1>2, <2>1 DEF FlattenSeq
<1>4. \A i \in 1..n : seqs[i] = SubSeq(P, (i - 1) * C + 1, E(i))
  <2> HIDE DEF n
  <2> SUFFICES ASSUME NEW i \in 1..n PROVE seqs[i] = SubSeq(P, (i - 1) * C + 1, E(i))
    OBVIOUS
  <2>1. i - 1 \in 0..(n - 1) /\ (i - 1) + 1 = i
    BY <1>1
  <2> QED BY <2>1 DEF Chunk, n
<1>5. \A i \in 1..n : E(i) \in Nat /\ E(i) <= L /\ (E(i) = i * C \/ E(i) = L) /\ E(i) <= i * C
  <2> SUFFICES ASSUME NEW i \in 1..n PROVE E(i) \in Nat /\ E(i) <= L /\ (E(i) = i * C \/ E(i) = L) /\ E(i) <= i * C
    OBVIOUS
  <2>1. i * C \in Nat
    BY <1>1
  <2>2. Min({i * C, L}) \in {i * C, L} /\ \A y \in {i * C, L} : Min({i * C, L}) <= y
    <3> HIDE DEF L, C
    <3>1. {i * C, L} \in SUBSET Nat /\ {i * C, L} # {}
      BY <1>1, <2>1
    <3> QED BY <3>1, MinType
  <2> HIDE DEF L, C
  <2> QED BY <1>1, <2>1, <2>2
<1>6. \A i \in 1..n : i > 1 => E(i - 1) = (i - 1) * C /\ E(i - 1) <= E(i)
  <2> HIDE DEF E, n, L, C
  <2> SUFFICES ASSUME NEW i \in 1..n, i > 1 PROVE E(i - 1) = (i - 1) * C /\ E(i - 1) <= E(i)
    OBVIOUS
  <2>1. (i - 1) * C <= (n - 1) * C /\ (i - 1) * C <= i * C /\ (i - 1) * C \in Nat /\ i * C \in Nat
    BY <1>1
  <2> DEFINE x == (i - 1) * C  y == i * C  e == E(i - 1)  f == E(i)
  <2>2. e \in Nat /\ (e = x \/ e = L) /\ e <= x /\ f \in Nat /\ (f = y \/ f = L)
    BY <1>1, <1>5
  <2>3. x < L
    BY <1>1, <2>1
  <2>4. x \in Nat /\ y \in Nat /\ x <= y
    BY <2>1
  <2> HIDE DEF x, y, e, f
  <2>5. e = x /\ e <= f
    BY <1>1, <2>2, <2>3, <2>4
  <2> QED BY <2>5 DEF x, e, f
<1>7. E(n) = L
  <2> HIDE DEF E, n, L, C
  <2> DEFINE y == n * C
  <2>1. y \in Nat /\ y >= L /\ E(n) <= L /\ E(n) \in Nat /\ (E(n) = y \/ E(n) = L)
    BY <1>1, <1>5
  <2> HIDE DEF y
  <2> QED BY <1>1, <2>1
<1> HIDE DEF E, seqs
<1>8. \A i \in 1..n : prefix[i] = IF i = 1 THEN seqs[i] ELSE prefix[i - 1] \o seqs[i]
  <2> SUFFICES ASSUME NEW i \in 1..n PROVE SubSeq(P, 1, E(i)) = IF i = 1 THEN seqs[i] ELSE prefix[i - 1] \o seqs[i]
    OBVIOUS
  <2>1. CASE i = 1
    BY <1>1, <1>4, <2>1
  <2>2. CASE i # 1
    <3>1. prefix[i - 1] = SubSeq(P, 1, E(i - 1)) /\ E(i - 1) \in Nat /\ E(i - 1) <= E(i) /\ E(i) <= L
      <4>1. i - 1 \in 1..n /\ i > 1
        BY <1>1, <2>2
      <4> QED BY <1>5, <1>6, <4>1
    <3>2. seqs[i] = SubSeq(P, E(i - 1) + 1, E(i))
      <4>1. i > 1 /\ seqs[i] = SubSeq(P, (i - 1) * C + 1, E(i))
        BY <1>1, <1>4, <2>2
      <4>2. E(i - 1) = (i - 1) * C
        BY <1>6, <4>1
      <4> QED BY <4>1, <4>2
    <3>3. ASSUME NEW a \in Nat, NEW b \in Nat, a <= b, b <= L
          PROVE  SubSeq(P, 1, b) = SubSeq(P, 1, a) \o SubSeq(P, a + 1, b)
      <4>1. SubSeq(P, 1, b) \in Seq(Int) /\ SubSeq(P, 1, a) \in Seq(Int) /\ SubSeq(P, a + 1, b) \in Seq(Int)
        BY <1>1, <3>3
      <4>2. Len(SubSeq(P, 1, b)) = b /\ Len(SubSeq(P, 1, a)) = a /\ Len(SubSeq(P, a + 1, b)) = b - a
        BY <1>1, <3>3
      <4> QED BY <1>1, <3>3, <4>1, <4>2
    <3> QED BY <1>5, <2>2, <3>1, <3>2, <3>3
  <2> QED BY <2>1, <2>2
<1>9. IsFlat(flat)
  <2>1. IsFlat(prefix)
    BY <1>2, <1>8
  <2> HIDE DEF prefix, IsFlat
  <2> QED BY <2>1
<1> DEFINE Same(i) == flat[i] = prefix[i]
           wrong == {i \in 1..n : ~Same(i)}
<1>10. ASSUME NEW i \in 1..n, i = 1 \/ Same(i - 1) PROVE Same(i)
  <2>1. flat[i] = IF i = 1 THEN seqs[i] ELSE flat[i - 1] \o seqs[i]
    <3> HIDE DEF flat
    <3> QED BY <1>2, <1>9
  <2> HIDE DEF flat, prefix
  <2> QED BY <1>8, <1>10, <2>1
<1>11. wrong = {}
  <2> SUFFICES ASSUME wrong # {} PROVE FALSE
    OBVIOUS
  <2>1. wrong \in SUBSET Nat /\ \A i \in wrong : i \in 1..n /\ ~Same(i)
    <3> HIDE DEF Same
    <3> QED BY <1>1
  <2>2. \A i \in 1..n : i \notin wrong => Same(i)
    <3> HIDE DEF Same
    <3> QED OBVIOUS
  <2> HIDE DEF wrong, Same
  <2>3. PICK i \in wrong : \A j \in wrong : i <= j
    BY <2>1, LeastElement
  <2>4. i = 1 \/ (i - 1 \in 1..n /\ i - 1 \notin wrong)
    BY <1>1, <2>1, <2>3
  <2> QED BY <1>10, <2>1, <2>2, <2>3, <2>4
<1>12. flat[n] = SubSeq(P, 1, L)
  <2>1. n \in 1..n
    BY <1>1
  <2>2. Same(n)
    <3> HIDE DEF Same
    <3> QED BY <1>11, <2>1
  <2> QED BY <1>7, <2>1, <2>2
<1>13. SubSeq(P, 1, L) = P
  BY <1>1
<1> QED BY <1>3, <1>12, <1>13

(* The reassembler after the fragments a. *)
Reassembly(a, max) == FoldLeft(LAMBDA ra, f : Accept(ra, f, max), NewReassembler, a)

(* The function that the fold is defined by, on the positions of any part of a. *)
IsRun(it, a, max) ==
    it = [s \in SUBSET DOMAIN a |->
             IF s = {} THEN NewReassembler ELSE Accept(it[s \ {Max(s)}], a[Max(s)], max)]

(* There is such a function. *)
LEMMA RunExists ==
    ASSUME NEW a, NEW n \in Nat, DOMAIN a = 1..n, NEW max
    PROVE  \E it : IsRun(it, a, max)
<1> DEFINE D == DOMAIN a
           Step(f, s) == IF s = {} THEN NewReassembler ELSE Accept(f[s \ {Max(s)}], a[Max(s)], max)
           UpTo(f, k) == f = [s \in SUBSET D |-> f[s]] /\ \A s \in SUBSET D : Cardinality(s) <= k => f[s] = Step(f, s)
           bad == {k \in Nat : ~\E f : UpTo(f, k)}
<1>1. \A s \in SUBSET D : IsFiniteSet(s) /\ Cardinality(s) \in Nat /\ Cardinality(s) <= Cardinality(D)
  <2>1. IsFiniteSet(D)
    BY FS_Interval
  <2> QED BY <2>1, FS_Subset, FS_CardinalityType
<1>2. \A s \in SUBSET D : s # {} => Max(s) \in s
  <2> SUFFICES ASSUME NEW s \in SUBSET D, s # {} PROVE Max(s) \in s
    OBVIOUS
  <2>1. s \in SUBSET (0..n)
    OBVIOUS
  <2> QED BY <2>1, MaxType
<1>3. 0 \notin bad
  <2> DEFINE f == [s \in SUBSET D |-> NewReassembler]
  <2>1. \A s \in SUBSET D : Cardinality(s) <= 0 => s = {}
    BY <1>1, FS_EmptySet
  <2>2. UpTo(f, 0)
    BY <2>1
  <2> QED BY <2>2
<1>4. ASSUME NEW k \in Nat, k \notin bad PROVE k + 1 \notin bad
  <2>1. PICK f : UpTo(f, k)
    BY <1>4
  <2> DEFINE g == [s \in SUBSET D |-> Step(f, s)]
  <2>2. ASSUME NEW s \in SUBSET D, Cardinality(s) <= k + 1 PROVE g[s] = Step(g, s)
    <3>1. CASE s = {}
      BY <3>1
    <3>2. CASE s # {}
      <4> DEFINE t == s \ {Max(s)}
      <4>1. t \in SUBSET D /\ Cardinality(t) <= k
        <5>1. Cardinality(t) = Cardinality(s) - 1
          BY <1>1, <1>2, <3>2, FS_RemoveElement
        <5> QED BY <1>1, <1>4, <2>2, <5>1
      <4>2. g[t] = f[t]
        <5> HIDE DEF t, Step
        <5>1. f[t] = Step(f, t)
          BY <2>1, <4>1
        <5> QED BY <4>1, <5>1
      <4>3. g[s] = Accept(f[t], a[Max(s)], max) /\ Step(g, s) = Accept(g[t], a[Max(s)], max)
        BY <3>2
      <4> QED BY <4>2, <4>3
    <3> QED BY <3>1, <3>2
  <2>3. UpTo(g, k + 1)
    <3> HIDE DEF Step
    <3>1. g = [s \in SUBSET D |-> g[s]]
      OBVIOUS
    <3> HIDE DEF g
    <3> QED BY <2>2, <3>1
  <2> HIDE DEF g, UpTo
  <2> QED BY <2>3
<1>5. bad = {}
  <2> SUFFICES ASSUME bad # {} PROVE FALSE
    OBVIOUS
  <2> HIDE DEF UpTo
  <2>1. bad \in SUBSET Nat
    OBVIOUS
  <2> HIDE DEF bad
  <2>2. PICK m \in bad : \A y \in bad : m <= y
    BY <2>1, LeastElement
  <2>3. m # 0 /\ m \in Nat
    BY <1>3, <2>1, <2>2
  <2>4. m - 1 \in Nat /\ m - 1 \notin bad
    BY <2>1, <2>2, <2>3
  <2>5. (m - 1) + 1 \notin bad
    BY <1>4, <2>4
  <2> QED BY <2>2, <2>3, <2>5
<1>6. PICK f : UpTo(f, Cardinality(D))
  <2> HIDE DEF UpTo
  <2> QED BY <1>1, <1>5
<1>7. \A s \in SUBSET D : f[s] = Step(f, s)
  <2> HIDE DEF Step
  <2> QED BY <1>1, <1>6
<1>8. f = [s \in SUBSET D |-> Step(f, s)]
  <2> HIDE DEF Step
  <2> QED BY <1>6, <1>7
<1> QED BY <1>8 DEF IsRun

(* The fragments are taken one after the other. *)
LEMMA RunTakes ==
    ASSUME NEW a, NEW n \in Nat, DOMAIN a = 1..n, NEW max, NEW it, IsRun(it, a, max)
    PROVE  it[{}] = NewReassembler /\ \A k \in 1..n : it[1..k] = Accept(it[1..(k - 1)], a[k], max)
<1>1. \A s \in SUBSET (1..n) :
          it[s] = IF s = {} THEN NewReassembler ELSE Accept(it[s \ {Max(s)}], a[Max(s)], max)
  BY DEF IsRun
<1>2. ASSUME NEW k \in 1..n PROVE 1..k \in SUBSET (1..n) /\ 1..k # {} /\ Max(1..k) = k /\ (1..k) \ {k} = 1..(k - 1)
  <2>1. k \in Nat /\ k >= 1 /\ 1..k \in SUBSET (1..n) /\ k \in 1..k /\ (1..k) \ {k} = 1..(k - 1)
    OBVIOUS
  <2>2. 1..k \in SUBSET (0..n) /\ 1..k # {}
    <3>1. \A i \in 1..k : i \in 0..n
      OBVIOUS
    <3> QED BY <2>1, <3>1
  <2>3. Max(1..k) \in 1..k /\ k <= Max(1..k)
    BY <2>1, <2>2, MaxType
  <2> QED BY <2>1, <2>3
<1> QED BY <1>1, <1>2

(* The fold is its value for all positions. *)
LEMMA ReassemblyIs ==
    ASSUME NEW a, NEW n \in Nat, DOMAIN a = 1..n, NEW max
    PROVE  \E it : IsRun(it, a, max) /\ Reassembly(a, max) = it[1..n]
<1> DEFINE it == CHOOSE f : IsRun(f, a, max)
<1>1. Reassembly(a, max) = it[DOMAIN a]
  BY DEF Reassembly, FoldLeft, MapThenFoldSet, IsRun
<1>2. IsRun(it, a, max)
  BY RunExists
<1> HIDE DEF it
<1> QED BY <1>1, <1>2

(* Nothing has been taken at first. *)
LEMMA ReassemblyBegins == \A max : Reassembly(<<>>, max) = NewReassembler
<1> SUFFICES ASSUME NEW max PROVE Reassembly(<<>>, max) = NewReassembler
  OBVIOUS
<1>1. DOMAIN <<>> = 1..0 /\ 1..0 = {} /\ 0 \in Nat
  OBVIOUS
<1>2. PICK it : IsRun(it, <<>>, max) /\ Reassembly(<<>>, max) = it[1..0]
  BY <1>1, ReassemblyIs
<1> QED BY <1>1, <1>2, RunTakes

(* One more fragment is one more step of the reassembler. *)
LEMMA ReassemblyStep ==
    ASSUME NEW X, NEW a \in Seq(X), NEW f \in X, NEW max
    PROVE  Reassembly(Append(a, f), max) = Accept(Reassembly(a, max), f, max)
<1> DEFINE b == Append(a, f)  n == Len(a)
<1>1. n \in Nat /\ n + 1 \in Nat /\ DOMAIN a = 1..n /\ DOMAIN b = 1..(n + 1) /\ b[n + 1] = f /\ \A k \in 1..n : b[k] = a[k]
  OBVIOUS
<1> HIDE DEF b, n
<1>2. PICK it : IsRun(it, a, max) /\ Reassembly(a, max) = it[1..n]
  BY <1>1, ReassemblyIs
<1>3. PICK jt : IsRun(jt, b, max) /\ Reassembly(b, max) = jt[1..(n + 1)]
  BY <1>1, ReassemblyIs
<1>4. it[{}] = NewReassembler /\ \A k \in 1..n : it[1..k] = Accept(it[1..(k - 1)], a[k], max)
  BY <1>1, <1>2, RunTakes
<1>5. jt[{}] = NewReassembler /\ \A k \in 1..(n + 1) : jt[1..k] = Accept(jt[1..(k - 1)], b[k], max)
  BY <1>1, <1>3, RunTakes
<1> DEFINE wrong == {k \in 0..n : it[1..k] # jt[1..k]}
<1>6. wrong = {}
  <2> SUFFICES ASSUME wrong # {} PROVE FALSE
    OBVIOUS
  <2>1. wrong \in SUBSET Nat
    BY <1>1
  <2>2. PICK k \in wrong : \A j \in wrong : k <= j
    BY <2>1, LeastElement
  <2>3. k # 0
    BY <1>4, <1>5
  <2>4. k \in 1..n /\ k \in 1..(n + 1) /\ k - 1 \in 0..n /\ k - 1 \notin wrong
    BY <1>1, <2>2, <2>3
  <2>5. it[1..(k - 1)] = jt[1..(k - 1)]
    BY <2>4
  <2> QED BY <1>1, <1>4, <1>5, <2>2, <2>4, <2>5
<1>7. it[1..n] = jt[1..n]
  BY <1>1, <1>6
<1>8. jt[1..(n + 1)] = Accept(jt[1..n], f, max)
  BY <1>1, <1>5
<1> QED BY <1>2, <1>3, <1>7, <1>8 DEF b

(* Where fragments of a message are among the arrivals a, and whether all of them are. *)
At(a, id) == {k \in DOMAIN a : a[k].id = id}
Complete(a, id) == \A i \in 0..(Count(id) - 1) : \E k \in DOMAIN a : a[k] = Fragment(id, i)

(* The other messages met by t after the first fragment of one. *)
Others(a, id, t) == {a[k].id : k \in {j \in 1..t : a[j].id # id /\ \E h \in At(a, id) : h < j}}

(* There was no place for all of them, and the message was not complete. *)
Lost(a, id, max) ==
    \E t \in DOMAIN a :
        /\ Cardinality(Others(a, id, t)) >= max
        /\ \E i \in 0..(Count(id) - 1) : \A k \in 1..t : a[k] # Fragment(id, i)

(* A partial message holds the fragments that came since it was begun, and they are not all. *)
Gathers(a, p, id) ==
    /\ p = [count |-> Count(id), parts |-> p.parts, seq |-> p.seq]
    /\ p.seq \in Nat /\ p.seq < Len(a) /\ a[p.seq + 1].id = id
    /\ \A i \in DOMAIN p.parts : i \in 0..(Count(id) - 1) /\ p.parts[i] = Chunk(id, i)
    /\ \A i \in 0..(Count(id) - 1) :
           i \in DOMAIN p.parts <=> \E k \in DOMAIN a : k > p.seq /\ a[k] = Fragment(id, i)
Begun(a, p, id) == Gathers(a, p, id) /\ DOMAIN p.parts # 0..(Count(id) - 1)

(* The arrivals are fragments, none of them twice. *)
Order(a) == /\ a \in Seq(AllFragments)
            /\ \A i, j \in DOMAIN a : a[i] = a[j] => i = j

PartialsOK(a, r, max) ==
    /\ DOMAIN r.partials \subseteq DOMAIN Payloads /\ Cardinality(DOMAIN r.partials) <= max
    /\ \A id \in DOMAIN r.partials : Begun(a, r.partials[id], id)
OutOK(a, r) ==
    /\ r.out \in Seq({Payloads[id] : id \in DOMAIN Payloads})
    /\ \A i, j \in DOMAIN r.out : r.out[i] = r.out[j] => i = j
    /\ \A id \in DOMAIN Payloads : Payloads[id] \in ToSet(r.out) => Complete(a, id)
NotMissed(a, r, max, id) ==
    \/ At(a, id) = {} \/ Payloads[id] \in ToSet(r.out) \/ Lost(a, id, max)
    \/ id \in DOMAIN r.partials /\ \A k \in At(a, id) : k > r.partials[id].seq

Assembles(a, r, max) ==
    /\ r = [partials |-> r.partials, seq |-> Len(a), out |-> r.out]
    /\ PartialsOK(a, r, max)
    /\ OutOK(a, r)
    /\ \A id \in DOMAIN Payloads : NotMissed(a, r, max, id)

(* What an arrival leaves as it was. *)
LEMMA Arriving ==
    ASSUME NEW a, Order(a), NEW f \in AllFragments
    PROVE  LET b == Append(a, f)  n == Len(a) IN
           /\ n \in Nat /\ DOMAIN a = 1..n /\ Len(b) = n + 1 /\ DOMAIN b = 1..(n + 1)
           /\ b[n + 1] = f /\ \A k \in 1..n : b[k] = a[k]
BY DEF Order

(* What is complete stays so. *)
LEMMA CompleteStays ==
    ASSUME NEW a, Order(a), NEW f \in AllFragments, NEW j, Complete(a, j)
    PROVE  Complete(Append(a, f), j)
<1> DEFINE b == Append(a, f)  n == Len(a)
<1>1. n \in Nat /\ DOMAIN a = 1..n /\ DOMAIN b = 1..(n + 1) /\ \A k \in 1..n : b[k] = a[k]
  BY Arriving
<1> HIDE DEF b, n
<1>2. \A k \in DOMAIN a : k \in DOMAIN b /\ b[k] = a[k]
  BY <1>1
<1>3. Complete(b, j)
  BY <1>2 DEF Complete
<1> QED BY <1>3 DEF b

(* What is lost stays so. *)
LEMMA LostStays ==
    ASSUME NEW a, Order(a), NEW f \in AllFragments, NEW j, NEW max, Lost(a, j, max)
    PROVE  Lost(Append(a, f), j, max)
<1> DEFINE b == Append(a, f)  n == Len(a)
<1>1. n \in Nat /\ DOMAIN a = 1..n /\ DOMAIN b = 1..(n + 1) /\ \A k \in 1..n : b[k] = a[k]
  BY Arriving
<1>2. PICK t \in DOMAIN a : /\ Cardinality(Others(a, j, t)) >= max
                            /\ \E i \in 0..(Count(j) - 1) : \A k \in 1..t : a[k] # Fragment(j, i)
  BY DEF Lost
<1> HIDE DEF b, n
<1>3. t \in 1..n /\ t \in DOMAIN b /\ \A k \in 1..t : k \in 1..n /\ k \in DOMAIN b /\ b[k] = a[k]
  BY <1>1
<1>4. Others(b, j, t) = Others(a, j, t)
  <2>1. ASSUME NEW k \in 1..t
        PROVE  (\E h \in At(b, j) : h < k) <=> (\E h \in At(a, j) : h < k)
    <3>1. ASSUME NEW h \in 1..(n + 1), h < k PROVE h \in 1..n
      BY <1>1, <1>3, <3>1
    <3> QED BY <1>1, <3>1 DEF At
  <2> DEFINE K(c) == {k \in 1..t : c[k].id # j /\ \E h \in At(c, j) : h < k}
  <2>2. K(b) = K(a)
    BY <1>3, <2>1
  <2>3. \A k \in K(a) : b[k] = a[k]
    BY <1>3
  <2>4. Others(b, j, t) = {b[k].id : k \in K(b)} /\ Others(a, j, t) = {a[k].id : k \in K(a)}
    BY DEF Others
  <2> HIDE DEF K
  <2> QED BY <2>2, <2>3, <2>4
<1>5. Lost(b, j, max)
  BY <1>2, <1>3, <1>4 DEF Lost
<1> QED BY <1>5 DEF b

(* A fragment of another message is nothing to a partial one. *)
LEMMA BegunStays ==
    ASSUME NEW a, Order(a), NEW id \in DOMAIN Payloads, NEW i \in 0..(Count(id) - 1),
           Fragment(id, i) \in AllFragments, NEW j, j # id, NEW p, Begun(a, p, j)
    PROVE  Begun(Append(a, Fragment(id, i)), p, j)
<1> DEFINE f == Fragment(id, i)  b == Append(a, f)  n == Len(a)
<1>1. /\ n \in Nat /\ DOMAIN a = 1..n /\ Len(b) = n + 1 /\ DOMAIN b = 1..(n + 1)
      /\ b[n + 1] = f /\ \A k \in 1..n : b[k] = a[k]
  BY Arriving
<1>2. \A h : f # Fragment(j, h)
  BY DEF Fragment
<1> HIDE DEF b, n, f
<1>3. \A h : (\E k \in DOMAIN b : k > p.seq /\ b[k] = Fragment(j, h))
                <=> (\E k \in DOMAIN a : k > p.seq /\ a[k] = Fragment(j, h))
  BY <1>1, <1>2
<1>4. p.seq \in Nat /\ p.seq < Len(b) /\ b[p.seq + 1].id = j
  <2>1. p.seq \in Nat /\ p.seq < n /\ a[p.seq + 1].id = j
    BY DEF Begun, Gathers, n
  <2>2. p.seq + 1 \in 1..n
    BY <1>1, <2>1
  <2> QED BY <1>1, <2>1, <2>2
<1>5. Begun(b, p, j)
  BY <1>3, <1>4 DEF Begun, Gathers
<1> QED BY <1>5 DEF b, f

(* What arrives is a fragment of a message. *)
LEMMA FragmentIs ==
    \A f : f \in AllFragments <=> \E id \in DOMAIN Payloads : \E i \in 0..(Count(id) - 1) : f = Fragment(id, i)
<1>1. ASSUME NEW id \in DOMAIN Payloads
      PROVE  {Fragments(id, Payloads[id])[i] : i \in DOMAIN Fragments(id, Payloads[id])}
                = {Fragment(id, i) : i \in 0..(Count(id) - 1)}
  BY FragmentsAre
<1>2. AllFragments = UNION {{Fragment(id, i) : i \in 0..(Count(id) - 1)} : id \in DOMAIN Payloads}
  BY <1>1 DEF AllFragments
<1> QED BY <1>2

(* The partial message of id with fragment i, and the partial messages with it. *)
Fed(r, id, i) ==
    LET old == Partial(r, Fragment(id, i))
    IN [count |-> Count(id), seq |-> old.seq,
        parts |-> [x \in DOMAIN old.parts \cup {i} |-> IF x = i THEN Chunk(id, i) ELSE old.parts[x]]]
FedPartials(r, id, i) ==
    [x \in DOMAIN r.partials \cup {id} |-> IF x = id THEN Fed(r, id, i) ELSE r.partials[x]]

(* The two outcomes of a fragment: its message is whole, or it is kept. *)
LEMMA AcceptIs ==
    ASSUME NEW a, NEW r, NEW max, Assembles(a, r, max),
           NEW id \in DOMAIN Payloads, NEW i \in 0..(Count(id) - 1)
    PROVE  LET new == Fed(r, id, i)  partials == FedPartials(r, id, i) IN
           Accept(r, Fragment(id, i), max) =
              IF DOMAIN new.parts = 0..(Count(id) - 1)
              THEN [partials |-> Without(r.partials, id), seq |-> Len(a) + 1, out |-> Append(r.out, Whole(new))]
              ELSE [partials |-> IF Cardinality(DOMAIN partials) > max
                                 THEN Without(partials, Oldest(partials)) ELSE partials,
                    seq |-> Len(a) + 1, out |-> r.out]
<1> DEFINE f == Fragment(id, i)  old == Partial(r, f)
           grown == [old EXCEPT !.parts = [x \in DOMAIN @ \cup {f.index} |-> IF x = f.index THEN f.chunk ELSE @[x]]]
<1>1. f.id = id /\ f.index = i /\ f.count = Count(id) /\ f.chunk = Chunk(id, i)
  BY DEF Fragment
<1>2. Count(id) \in Nat /\ Count(id) >= 1 /\ i < Count(id) /\ i \in Int
  BY CountIs
<1>3. old = [count |-> Count(id), parts |-> old.parts, seq |-> old.seq]
  <2>1. CASE id \in DOMAIN r.partials
    <3>1. old = r.partials[id] /\ Gathers(a, r.partials[id], id)
      BY <1>1, <2>1 DEF Partial, Assembles, PartialsOK, Begun
    <3> HIDE DEF old
    <3> QED BY <3>1 DEF Gathers
  <2>2. CASE id \notin DOMAIN r.partials
    BY <1>1, <2>2 DEF Partial
  <2> QED BY <2>1, <2>2
<1>4. grown = Fed(r, id, i)
  <2> HIDE DEF old, f
  <2>1. grown = [count |-> Count(id), seq |-> old.seq,
                 parts |-> [x \in DOMAIN old.parts \cup {i} |-> IF x = i THEN Chunk(id, i) ELSE old.parts[x]]]
    BY <1>1, <1>3
  <2> QED BY <2>1 DEF Fed, old, f
<1>5. [x \in DOMAIN r.partials \cup {f.id} |-> IF x = f.id THEN grown ELSE r.partials[x]] = FedPartials(r, id, i)
  <2> HIDE DEF old, f, grown
  <2> QED BY <1>1, <1>4 DEF FedPartials
<1>6. old.count = f.count /\ ~(f.count = 0 \/ f.index >= f.count)
  <2> HIDE DEF old, f
  <2> QED BY <1>1, <1>2, <1>3
<1> DEFINE next == [r EXCEPT !.seq = @ + 1]
<1>7. next = [partials |-> r.partials, seq |-> Len(a) + 1, out |-> r.out]
  BY DEF Assembles
<1>8. Fed(r, id, i).count = Count(id)
  BY DEF Fed
<1>9. Accept(r, f, max) =
        IF DOMAIN grown.parts = 0..(grown.count - 1)
        THEN [next EXCEPT !.partials = Without(r.partials, f.id), !.out = Append(@, Whole(grown))]
        ELSE LET partials == [x \in DOMAIN r.partials \cup {f.id} |-> IF x = f.id THEN grown ELSE r.partials[x]]
             IN [next EXCEPT !.partials = IF Cardinality(DOMAIN partials) > max
                                          THEN Without(partials, Oldest(partials)) ELSE partials]
  <2> HIDE DEF f
  <2> QED BY <1>6 DEF Accept, old, next, grown
<1> HIDE DEF grown, old, next, f
<1>10. Accept(r, f, max) =
        LET partials == FedPartials(r, id, i) IN
        IF DOMAIN grown.parts = 0..(grown.count - 1)
        THEN [next EXCEPT !.partials = Without(r.partials, id), !.out = Append(@, Whole(grown))]
        ELSE [next EXCEPT !.partials = IF Cardinality(DOMAIN partials) > max
                                       THEN Without(partials, Oldest(partials)) ELSE partials]
  BY <1>1, <1>5, <1>9
<1> QED BY <1>4, <1>7, <1>8, <1>10 DEF f

(* A fragment that is new to a completes the partial message of its id, or is kept in it. *)
LEMMA FedGathers ==
    ASSUME NEW a, Order(a), NEW r, NEW max, Assembles(a, r, max),
           NEW id \in DOMAIN Payloads, NEW i \in 0..(Count(id) - 1),
           Fragment(id, i) \in AllFragments, \A k \in DOMAIN a : a[k] # Fragment(id, i)
    PROVE  /\ Gathers(Append(a, Fragment(id, i)), Fed(r, id, i), id)
           /\ id \in DOMAIN r.partials => Fed(r, id, i).seq = r.partials[id].seq
           /\ id \notin DOMAIN r.partials => Fed(r, id, i).seq = Len(a)
<1> DEFINE f == Fragment(id, i)  b == Append(a, f)  n == Len(a)  old == Partial(r, f)
           new == Fed(r, id, i)  I == 0..(Count(id) - 1)
<1>1. /\ n \in Nat /\ DOMAIN a = 1..n /\ Len(b) = n + 1 /\ DOMAIN b = 1..(n + 1)
      /\ b[n + 1] = f /\ \A k \in 1..n : b[k] = a[k]
  BY Arriving
<1>2. f.id = id /\ r.seq = n /\ \A h : Fragment(id, h).index = h /\ Fragment(id, h).id = id
  BY DEF Fragment, Assembles
<1>3. new = [count |-> Count(id), parts |-> new.parts, seq |-> old.seq]
      /\ new.parts = [x \in DOMAIN old.parts \cup {i} |-> IF x = i THEN Chunk(id, i) ELSE old.parts[x]]
  BY DEF Fed
<1> HIDE DEF b, n, new, f
<1>4. ASSUME old.seq \in Nat, old.seq <= n, b[old.seq + 1].id = id,
             \A h \in DOMAIN old.parts : h \in I /\ old.parts[h] = Chunk(id, h),
             \A h \in I : h \in DOMAIN old.parts <=> \E k \in DOMAIN a : k > old.seq /\ a[k] = Fragment(id, h)
      PROVE  Gathers(b, new, id)
  <2> HIDE DEF old
  <2>1. new.seq = old.seq /\ DOMAIN new.parts = DOMAIN old.parts \cup {i}
    BY <1>3
  <2>2. new.seq \in Nat /\ new.seq < Len(b) /\ b[new.seq + 1].id = id
    BY <1>1, <1>4, <2>1
  <2>3. \A h \in DOMAIN new.parts : h \in I /\ new.parts[h] = Chunk(id, h)
    BY <1>3, <1>4, <2>1
  <2>4. ASSUME NEW h \in I
        PROVE  h \in DOMAIN new.parts <=> \E k \in DOMAIN b : k > new.seq /\ b[k] = Fragment(id, h)
    <3>1. (\E k \in DOMAIN b : k > new.seq /\ b[k] = Fragment(id, h))
             <=> f = Fragment(id, h) \/ \E k \in DOMAIN a : k > old.seq /\ a[k] = Fragment(id, h)
      BY <1>1, <1>4, <2>1
    <3>2. f = Fragment(id, h) <=> h = i
      BY <1>2 DEF f
    <3> QED BY <1>4, <2>1, <3>1, <3>2
  <2>5. new = [count |-> Count(id), parts |-> new.parts, seq |-> new.seq]
    BY <1>3, <2>1
  <2> QED BY <2>2, <2>3, <2>4, <2>5 DEF Gathers
<1>5. CASE id \in DOMAIN r.partials
  <2>1. old = r.partials[id] /\ Gathers(a, old, id)
    BY <1>2, <1>5 DEF Partial, Assembles, PartialsOK, Begun
  <2> HIDE DEF old
  <2>2. old.seq \in Nat /\ old.seq < n /\ a[old.seq + 1].id = id
    BY <2>1 DEF Gathers, n
  <2>3. b[old.seq + 1].id = id
    <3>1. old.seq + 1 \in 1..n
      BY <1>1, <2>2
    <3> QED BY <1>1, <2>2, <3>1
  <2>4. /\ \A h \in DOMAIN old.parts : h \in I /\ old.parts[h] = Chunk(id, h)
        /\ \A h \in I : h \in DOMAIN old.parts <=> \E k \in DOMAIN a : k > old.seq /\ a[k] = Fragment(id, h)
    BY <2>1 DEF Gathers
  <2>5. Gathers(b, new, id)
    BY <1>1, <1>4, <2>2, <2>3, <2>4
  <2> QED BY <1>3, <1>5, <2>1, <2>5 DEF b, new, f
<1>6. CASE id \notin DOMAIN r.partials
  <2>1. old.parts = <<>> /\ old.seq = n
    BY <1>2, <1>6 DEF Partial
  <2> HIDE DEF old
  <2>2. b[old.seq + 1].id = id /\ old.seq \in Nat /\ old.seq <= n
    BY <1>1, <1>2, <2>1
  <2>3. DOMAIN old.parts = {} /\ \A k \in DOMAIN a : ~(k > old.seq)
    BY <1>1, <2>1
  <2>4. Gathers(b, new, id)
    BY <1>4, <2>2, <2>3
  <2> QED BY <1>3, <1>6, <2>1, <2>4 DEF b, new, f, n
<1> QED BY <1>5, <1>6

(* The partial messages with a new fragment, before any is evicted. *)
LEMMA FedPartialsOK ==
    ASSUME NEW a, Order(a), NEW r, NEW max, Assembles(a, r, max),
           NEW id \in DOMAIN Payloads, NEW i \in 0..(Count(id) - 1),
           Fragment(id, i) \in AllFragments, \A k \in DOMAIN a : a[k] # Fragment(id, i)
    PROVE  /\ DOMAIN FedPartials(r, id, i) = DOMAIN r.partials \cup {id}
           /\ \A x \in DOMAIN r.partials \ {id} :
                 /\ FedPartials(r, id, i)[x] = r.partials[x]
                 /\ Begun(Append(a, Fragment(id, i)), r.partials[x], x)
           /\ FedPartials(r, id, i)[id] = Fed(r, id, i)
<1>1. \A x \in DOMAIN r.partials : Begun(a, r.partials[x], x)
  BY DEF Assembles, PartialsOK
<1> QED BY <1>1, BegunStays DEF FedPartials

(* It is not the last of a complete message. *)
LEMMA NotYet ==
    ASSUME NEW a, NEW r, NEW max, Assembles(a, r, max),
           NEW id \in DOMAIN Payloads, NEW i \in 0..(Count(id) - 1), \A k \in DOMAIN a : a[k] # Fragment(id, i)
    PROVE  Payloads[id] \notin ToSet(r.out)
BY DEF Assembles, OutOK, Complete

(* With a new fragment no message is missed, nor is it kept wrongly, until one is evicted. *)
LEMMA FedNotMissed ==
    ASSUME NEW a, Order(a), NEW r, NEW max, Assembles(a, r, max),
           NEW id \in DOMAIN Payloads, NEW i \in 0..(Count(id) - 1),
           Fragment(id, i) \in AllFragments, \A k \in DOMAIN a : a[k] # Fragment(id, i),
           NEW s, DOMAIN s.partials = DOMAIN r.partials \cup {id} \/ DOMAIN s.partials = DOMAIN r.partials \ {id},
           \A x \in DOMAIN r.partials \ {id} : s.partials[x] = r.partials[x],
           id \in DOMAIN s.partials => s.partials[id] = Fed(r, id, i),
           ToSet(r.out) \subseteq ToSet(s.out),
           id \notin DOMAIN s.partials => Payloads[id] \in ToSet(s.out),
           NEW j \in DOMAIN Payloads
    PROVE  NotMissed(Append(a, Fragment(id, i)), s, max, j)
<1> DEFINE f == Fragment(id, i)  b == Append(a, f)  n == Len(a)
<1>1. /\ n \in Nat /\ DOMAIN a = 1..n /\ Len(b) = n + 1 /\ DOMAIN b = 1..(n + 1)
      /\ b[n + 1] = f /\ \A k \in 1..n : b[k] = a[k]
  BY Arriving
<1>2. f.id = id /\ NotMissed(a, r, max, j) /\ (Lost(a, j, max) => Lost(b, j, max))
  BY LostStays DEF Fragment, Assembles
<1> HIDE DEF b, n, f
<1>3. At(b, j) = IF j = id THEN At(a, j) \cup {n + 1} ELSE At(a, j)
  BY <1>1, <1>2 DEF At
<1>4. CASE j # id
  BY <1>2, <1>3, <1>4 DEF NotMissed, b, f
<1>5. CASE j = id /\ id \in DOMAIN s.partials /\ id \in DOMAIN r.partials
  <2>1. Payloads[id] \notin ToSet(r.out)
    BY NotYet
  <2>2. Fed(r, id, i).seq = r.partials[id].seq
    BY <1>5, FedGathers
  <2>3. r.partials[id].seq \in Nat /\ r.partials[id].seq < n
    BY <1>5 DEF Assembles, PartialsOK, Begun, Gathers, n
  <2>4. r.partials[id].seq + 1 \in At(a, id)
    <3>1. a[r.partials[id].seq + 1].id = id
      BY <1>5 DEF Assembles, PartialsOK, Begun, Gathers
    <3> QED BY <1>1, <2>3, <3>1 DEF At
  <2>5. CASE Lost(a, j, max)
    BY <1>2, <2>5 DEF NotMissed, b, f
  <2>6. CASE \A k \in At(a, id) : k > r.partials[id].seq
    <3>1. \A k \in At(b, id) : k > r.partials[id].seq
      BY <1>1, <1>3, <1>5, <2>3, <2>6
    <3> QED BY <1>5, <2>2, <3>1 DEF NotMissed, b, f
  <2> QED BY <1>2, <1>5, <2>1, <2>4, <2>5, <2>6 DEF NotMissed
<1>6. CASE j = id /\ id \in DOMAIN s.partials /\ id \notin DOMAIN r.partials
  <2>1. Payloads[id] \notin ToSet(r.out)
    BY NotYet
  <2>2. Fed(r, id, i).seq = n
    BY <1>6, FedGathers DEF n
  <2>3. CASE Lost(a, j, max)
    BY <1>2, <2>3 DEF NotMissed, b, f
  <2>4. CASE At(a, id) = {}
    <3>1. \A k \in At(b, id) : k > n
      BY <1>1, <1>3, <1>6, <2>4
    <3> QED BY <1>6, <2>2, <3>1 DEF NotMissed, b, f
  <2> QED BY <1>2, <1>6, <2>1, <2>3, <2>4 DEF NotMissed
<1>7. CASE j = id /\ id \notin DOMAIN s.partials
  BY <1>7 DEF NotMissed
<1> QED BY <1>4, <1>5, <1>6, <1>7

(* There are finitely many messages. *)
LEMMA IdsFinite == IsFiniteSet(DOMAIN Payloads)
<1>1. DOMAIN Payloads = 1..Len(Payloads) /\ Len(Payloads) \in Int /\ 1 \in Int
  BY PayloadsAssumption
<1>2. IsFiniteSet(1..Len(Payloads))
  BY <1>1, FS_Interval
<1> QED BY <1>1, <1>2

(* The last fragment of a message hands it on. *)
LEMMA Completing ==
    ASSUME NEW a, Order(a), NEW r, NEW max, Assembles(a, r, max),
           NEW id \in DOMAIN Payloads, NEW i \in 0..(Count(id) - 1),
           Fragment(id, i) \in AllFragments, \A k \in DOMAIN a : a[k] # Fragment(id, i),
           DOMAIN Fed(r, id, i).parts = 0..(Count(id) - 1), max \in Nat
    PROVE  Assembles(Append(a, Fragment(id, i)),
                     [partials |-> Without(r.partials, id), seq |-> Len(a) + 1,
                      out |-> Append(r.out, Whole(Fed(r, id, i)))], max)
<1> DEFINE f == Fragment(id, i)  b == Append(a, f)  n == Len(a)  new == Fed(r, id, i)
           s == [partials |-> Without(r.partials, id), seq |-> n + 1, out |-> Append(r.out, Whole(new))]
           P == {Payloads[j] : j \in DOMAIN Payloads}
<1>1. Len(b) = n + 1
  BY Arriving
<1>2. Whole(new) = Payloads[id] /\ Complete(b, id)
  <2>1. Gathers(b, new, id)
    BY FedGathers
  <2> HIDE DEF b, new
  <2>2. \A h \in 0..(Count(id) - 1) : new.parts[h] = Chunk(id, h) /\ \E k \in DOMAIN b : b[k] = Fragment(id, h)
    BY <2>1 DEF Gathers, new
  <2>3. new.count = Count(id)
    BY <2>1 DEF Gathers
  <2> QED BY <2>2, <2>3, WholeIs DEF Complete
<1>3. r.out \in Seq(P) /\ Payloads[id] \in P
  BY DEF Assembles, OutOK
<1>4. /\ s.out \in Seq(P) /\ ToSet(s.out) = ToSet(r.out) \cup {Payloads[id]}
      /\ Len(r.out) \in Nat /\ DOMAIN s.out = 1..(Len(r.out) + 1) /\ DOMAIN r.out = 1..Len(r.out)
      /\ s.out[Len(r.out) + 1] = Payloads[id] /\ \A k \in 1..Len(r.out) : s.out[k] = r.out[k]
  <2> DEFINE o == Append(r.out, Payloads[id])
  <2> HIDE DEF P
  <2>1. /\ o \in Seq(P) /\ Len(r.out) \in Nat /\ DOMAIN o = 1..(Len(r.out) + 1) /\ DOMAIN r.out = 1..Len(r.out)
        /\ o[Len(r.out) + 1] = Payloads[id] /\ \A k \in 1..Len(r.out) : o[k] = r.out[k]
    BY <1>3
  <2>2. s.out = o
    BY <1>2
  <2> HIDE DEF o, s
  <2>3. ToSet(o) = ToSet(r.out) \cup {Payloads[id]}
    BY <2>1 DEF ToSet
  <2> QED BY <2>1, <2>2, <2>3
<1>5. Payloads[id] \notin ToSet(r.out)
  BY NotYet
<1>6. s = [partials |-> s.partials, seq |-> Len(b), out |-> s.out]
  BY <1>1
<1>7. DOMAIN s.partials = DOMAIN r.partials \ {id} /\ \A x \in DOMAIN r.partials \ {id} : s.partials[x] = r.partials[x]
  BY DEF Without
<1> HIDE DEF s, new
<1>8. PartialsOK(b, s, max)
  <2>1. /\ DOMAIN r.partials \subseteq DOMAIN Payloads /\ Cardinality(DOMAIN r.partials) <= max
        /\ \A x \in DOMAIN r.partials \ {id} : Begun(b, r.partials[x], x)
    BY FedPartialsOK DEF Assembles, PartialsOK
  <2>2. Cardinality(DOMAIN s.partials) <= max
    <3>1. IsFiniteSet(DOMAIN r.partials)
      BY <2>1, IdsFinite, FS_Subset
    <3>2. Cardinality(DOMAIN s.partials) <= Cardinality(DOMAIN r.partials)
          /\ Cardinality(DOMAIN s.partials) \in Nat /\ Cardinality(DOMAIN r.partials) \in Nat
      BY <1>7, <3>1, FS_Subset, FS_CardinalityType
    <3> QED BY <2>1, <3>2
  <2> QED BY <1>7, <2>1, <2>2 DEF PartialsOK
<1>9. OutOK(b, s)
  <2>1. ASSUME NEW h \in DOMAIN s.out, NEW k \in DOMAIN s.out, s.out[h] = s.out[k] PROVE h = k
    <3>1. \A x \in 1..Len(r.out) : r.out[x] # Payloads[id]
      BY <1>4, <1>5 DEF ToSet
    <3>2. \A x, y \in 1..Len(r.out) : r.out[x] = r.out[y] => x = y
      BY <1>4 DEF Assembles, OutOK
    <3> DEFINE L == Len(r.out)
    <3>3. h \in 1..(L + 1) /\ k \in 1..(L + 1) /\ L \in Nat
      BY <1>4
    <3>4. s.out[L + 1] = Payloads[id] /\ \A x \in 1..L : s.out[x] = r.out[x] /\ r.out[x] # Payloads[id]
      BY <1>4, <3>1
    <3> HIDE DEF L
    <3>5. \A x \in 1..(L + 1) : x \in 1..L \/ x = L + 1
      BY <3>3
    <3> QED BY <2>1, <3>2, <3>3, <3>4, <3>5 DEF L
  <2>2. ASSUME NEW j \in DOMAIN Payloads, Payloads[j] \in ToSet(s.out) PROVE Complete(b, j)
    <3>1. CASE Payloads[j] = Payloads[id]
      BY <1>2, <3>1, PayloadsAssumption
    <3>2. CASE Payloads[j] \in ToSet(r.out)
      BY <3>2, CompleteStays DEF Assembles, OutOK
    <3> QED BY <1>4, <2>2, <3>1, <3>2
  <2> QED BY <1>4, <2>1, <2>2 DEF OutOK
<1>10. \A j \in DOMAIN Payloads : NotMissed(b, s, max, j)
  <2> SUFFICES ASSUME NEW j \in DOMAIN Payloads PROVE NotMissed(b, s, max, j)
    OBVIOUS
  <2> QED BY <1>4, <1>7, FedNotMissed
<1>11. Assembles(b, s, max)
  <2> HIDE DEF b
  <2> QED BY <1>6, <1>8, <1>9, <1>10 DEF Assembles
<1> QED BY <1>11 DEF s, new

(* There is an oldest partial message. *)
LEMMA OldestIs ==
    ASSUME NEW p, DOMAIN p # {}, \A x \in DOMAIN p : p[x].seq \in Nat
    PROVE  Oldest(p) \in DOMAIN p /\ \A x \in DOMAIN p : p[Oldest(p)].seq <= p[x].seq
<1> DEFINE S == {p[x].seq : x \in DOMAIN p}
<1>1. S \in SUBSET Nat /\ S # {}
  OBVIOUS
<1>2. PICK s \in S : \A t \in S : s <= t
  BY <1>1, LeastElement
<1>3. PICK o \in DOMAIN p : \A x \in DOMAIN p : p[o].seq <= p[x].seq
  BY <1>2
<1> QED BY <1>3 DEF Oldest

(* What is evicted has met as many others as there are places. *)
LEMMA EvictedIsLost ==
    ASSUME NEW b, NEW n \in Nat, DOMAIN b = 1..n, n >= 1, NEW p, NEW max \in Nat,
           \A k \in 1..n : b[k].id \in DOMAIN Payloads, \A j, i : Fragment(j, i).id = j,
           Len(b) = n, \A x \in DOMAIN p : Begun(b, p[x], x),
           NEW o \in DOMAIN p, \A x \in DOMAIN p : p[o].seq <= p[x].seq,
           Cardinality(DOMAIN p \ {o}) >= max,
           \A k \in At(b, o) : k > p[o].seq
    PROVE  Lost(b, o, max)
<1>1. \A x \in DOMAIN p : p[x].seq \in Nat /\ p[x].seq + 1 \in 1..n /\ b[p[x].seq + 1].id = x
  BY DEF Begun, Gathers
<1>2. DOMAIN p \ {o} \subseteq Others(b, o, n)
  <2> SUFFICES ASSUME NEW x \in DOMAIN p \ {o} PROVE x \in Others(b, o, n)
    OBVIOUS
  <2>1. p[o].seq # p[x].seq
    BY <1>1
  <2>2. p[o].seq + 1 < p[x].seq + 1
    BY <1>1, <2>1
  <2>3. p[o].seq + 1 \in At(b, o)
    BY <1>1 DEF At
  <2> QED BY <1>1, <2>2, <2>3 DEF Others
<1>3. IsFiniteSet(Others(b, o, n))
  <2>1. Others(b, o, n) \in SUBSET DOMAIN Payloads
    BY DEF Others
  <2> QED BY <2>1, IdsFinite, FS_Subset
<1>4. Cardinality(Others(b, o, n)) >= max
  <2>1. Cardinality(DOMAIN p \ {o}) <= Cardinality(Others(b, o, n))
    BY <1>2, <1>3, FS_Subset
  <2>2. Cardinality(DOMAIN p \ {o}) \in Nat /\ Cardinality(Others(b, o, n)) \in Nat
    BY <1>2, <1>3, FS_Subset, FS_CardinalityType
  <2> QED BY <2>1, <2>2
<1>5. PICK i \in 0..(Count(o) - 1) : i \notin DOMAIN p[o].parts
  BY DEF Begun, Gathers
<1>6. \A k \in 1..n : b[k] # Fragment(o, i)
  <2> SUFFICES ASSUME NEW k \in 1..n, b[k] = Fragment(o, i) PROVE FALSE
    OBVIOUS
  <2>1. k \in At(b, o)
    BY DEF At
  <2>2. k > p[o].seq
    BY <2>1
  <2> QED BY <1>5, <2>2 DEF Begun, Gathers
<1> QED BY <1>4, <1>6 DEF Lost

(* A fragment that does not complete its message is kept; if there is no place the oldest message goes. *)
LEMMA Keeping ==
    ASSUME NEW a, Order(a), NEW r, NEW max, Assembles(a, r, max),
           NEW id \in DOMAIN Payloads, NEW i \in 0..(Count(id) - 1),
           Fragment(id, i) \in AllFragments, \A k \in DOMAIN a : a[k] # Fragment(id, i),
           DOMAIN Fed(r, id, i).parts # 0..(Count(id) - 1), max \in Nat, max >= 1
    PROVE  LET partials == FedPartials(r, id, i) IN
           Assembles(Append(a, Fragment(id, i)),
                     [partials |-> IF Cardinality(DOMAIN partials) > max
                                   THEN Without(partials, Oldest(partials)) ELSE partials,
                      seq |-> Len(a) + 1, out |-> r.out], max)
<1> DEFINE f == Fragment(id, i)  b == Append(a, f)  n == Len(a)  p == FedPartials(r, id, i)
           all == [partials |-> p, seq |-> n + 1, out |-> r.out]
<1>1. n \in Nat /\ Len(b) = n + 1 /\ DOMAIN b = 1..(n + 1) /\ b[n + 1] = f /\ \A k \in 1..n : b[k] = a[k]
  BY Arriving
<1>2. /\ DOMAIN p = DOMAIN r.partials \cup {id} /\ p[id] = Fed(r, id, i)
      /\ \A x \in DOMAIN r.partials \ {id} : p[x] = r.partials[x] /\ Begun(b, r.partials[x], x)
  <2> HIDE DEF p, b
  <2>1. DOMAIN p = DOMAIN r.partials \cup {id} /\ p[id] = Fed(r, id, i)
    BY DEF p, FedPartials
  <2>2. \A x \in DOMAIN r.partials \ {id} : p[x] = r.partials[x] /\ Begun(b, r.partials[x], x)
    BY FedPartialsOK DEF p, b
  <2> QED BY <2>1, <2>2
<1>3. \A x \in DOMAIN p : Begun(b, p[x], x)
  <2>1. Begun(b, p[id], id)
    BY <1>2, FedGathers DEF Begun
  <2> QED BY <1>2, <2>1
<1>4. OutOK(b, all)
  BY CompleteStays DEF Assembles, OutOK
<1>5. \A j \in DOMAIN Payloads : NotMissed(b, all, max, j)
  <2> SUFFICES ASSUME NEW j \in DOMAIN Payloads PROVE NotMissed(b, all, max, j)
    OBVIOUS
  <2>1. /\ DOMAIN all.partials = DOMAIN r.partials \cup {id} /\ all.partials[id] = Fed(r, id, i)
        /\ \A x \in DOMAIN r.partials \ {id} : all.partials[x] = r.partials[x]
        /\ ToSet(r.out) \subseteq ToSet(all.out) /\ id \in DOMAIN all.partials
    BY <1>2
  <2> HIDE DEF all
  <2> QED BY <2>1, FedNotMissed
<1>6. /\ DOMAIN p \subseteq DOMAIN Payloads /\ IsFiniteSet(DOMAIN p) /\ IsFiniteSet(DOMAIN r.partials)
      /\ Cardinality(DOMAIN r.partials) <= max
      /\ Cardinality(DOMAIN r.partials) \in Nat /\ Cardinality(DOMAIN p) \in Nat
  <2>1. DOMAIN r.partials \subseteq DOMAIN Payloads /\ Cardinality(DOMAIN r.partials) <= max
    BY DEF Assembles, PartialsOK
  <2>2. DOMAIN p \subseteq DOMAIN Payloads
    BY <1>2, <2>1
  <2> QED BY <2>1, <2>2, IdsFinite, FS_Subset, FS_CardinalityType
<1> HIDE DEF b, p, n
<1>7. CASE ~(Cardinality(DOMAIN p) > max)
  <2>1. PartialsOK(b, all, max)
    BY <1>3, <1>6, <1>7 DEF PartialsOK
  <2>2. all = [partials |-> all.partials, seq |-> Len(b), out |-> all.out]
    BY <1>1
  <2>3. Assembles(b, all, max)
    <3> HIDE DEF all
    <3> QED BY <1>4, <1>5, <2>1, <2>2 DEF Assembles
  <2> QED BY <1>7, <2>3 DEF b, p, n
<1>8. CASE Cardinality(DOMAIN p) > max
  <2> DEFINE o == Oldest(p)  rest == Without(p, o)  s == [partials |-> rest, seq |-> n + 1, out |-> r.out]
  <2>1. id \notin DOMAIN r.partials /\ Cardinality(DOMAIN p) = Cardinality(DOMAIN r.partials) + 1
    <3>1. Cardinality(DOMAIN p) = IF id \in DOMAIN r.partials THEN Cardinality(DOMAIN r.partials)
                                  ELSE Cardinality(DOMAIN r.partials) + 1
      BY <1>2, <1>6, FS_AddElement
    <3> QED BY <1>6, <1>8, <3>1
  <2>2. o \in DOMAIN p /\ \A x \in DOMAIN p : p[o].seq <= p[x].seq
    <3>1. DOMAIN p # {}
      BY <1>2
    <3>2. \A x \in DOMAIN p : p[x].seq \in Nat
      BY <1>3 DEF Begun, Gathers
    <3> QED BY <3>1, <3>2, OldestIs
  <2>3. o # id
    <3> SUFFICES ASSUME o = id PROVE FALSE
      OBVIOUS
    <3>1. DOMAIN r.partials # {}
      BY <1>6, <1>8, <2>1, FS_EmptySet
    <3>2. PICK x \in DOMAIN r.partials : TRUE
      BY <3>1
    <3>3. r.partials[x].seq \in Nat /\ r.partials[x].seq < n
      BY DEF Assembles, PartialsOK, Begun, Gathers, n
    <3>4. p[id].seq = n /\ p[x].seq = r.partials[x].seq /\ x \in DOMAIN p
      BY <1>2, <2>1, FedGathers DEF n
    <3>5. p[id].seq <= p[x].seq
      BY <2>2, <3>4
    <3> QED BY <1>1, <3>3, <3>4, <3>5
  <2>4. Cardinality(DOMAIN p \ {o}) = Cardinality(DOMAIN p) - 1
    BY <1>6, <2>2, FS_RemoveElement
  <2>5. DOMAIN rest = DOMAIN p \ {o} /\ \A x \in DOMAIN p \ {o} : rest[x] = p[x]
    BY DEF Without
  <2> HIDE DEF o, rest
  <2>6. PartialsOK(b, s, max)
    BY <1>3, <1>6, <2>1, <2>4, <2>5 DEF PartialsOK
  <2>7. OutOK(b, s)
    BY <1>4 DEF OutOK
  <2>8. ASSUME NEW j \in DOMAIN Payloads PROVE NotMissed(b, s, max, j)
    <3>1. CASE j # o
      BY <1>5, <2>5, <3>1 DEF NotMissed
    <3>2. CASE j = o /\ \A k \in At(b, o) : k > p[o].seq
      <4>1. \A k \in 1..(n + 1) : b[k].id \in DOMAIN Payloads
        <5>1. \A k \in 1..n : a[k].id \in DOMAIN Payloads
          <6>1. \A g \in AllFragments : g.id \in DOMAIN Payloads
            BY FragmentIs DEF Fragment
          <6>2. a \in Seq(AllFragments)
            BY DEF Order
          <6> QED BY <1>1, <6>1, <6>2 DEF n
        <5>2. b[n + 1].id \in DOMAIN Payloads
          BY <1>1 DEF Fragment
        <5> QED BY <1>1, <5>1, <5>2
      <4>2. \A k, h : Fragment(k, h).id = k
        BY DEF Fragment
      <4>3. Cardinality(DOMAIN p \ {o}) >= max
        BY <1>6, <1>8, <2>4
      <4>4. n + 1 \in Nat /\ n + 1 >= 1
        BY <1>1
      <4>5. Lost(b, o, max)
        BY <1>1, <1>3, <2>2, <3>2, <4>1, <4>2, <4>3, <4>4, EvictedIsLost
      <4> QED BY <3>2, <4>5 DEF NotMissed
    <3>3. CASE j = o /\ ~(\A k \in At(b, o) : k > p[o].seq)
      BY <1>5, <3>3 DEF NotMissed
    <3> QED BY <3>1, <3>2, <3>3
  <2>9. s = [partials |-> s.partials, seq |-> Len(b), out |-> s.out]
    BY <1>1
  <2>10. Assembles(b, s, max)
    <3> HIDE DEF s
    <3> QED BY <2>6, <2>7, <2>8, <2>9 DEF Assembles
  <2> QED BY <1>8, <2>10 DEF b, p, n, rest, o
<1> QED BY <1>7, <1>8 DEF p

(* So whatever arrives, the messages stay assembled. *)
LEMMA Accepting ==
    ASSUME NEW a, Order(a), NEW max \in Nat, max >= 1, NEW f \in AllFragments, f \notin ToSet(a),
           Assembles(a, Reassembly(a, max), max)
    PROVE  Order(Append(a, f)) /\ Assembles(Append(a, f), Reassembly(Append(a, f), max), max)
<1> DEFINE r == Reassembly(a, max)  b == Append(a, f)  n == Len(a)
<1>1. Reassembly(b, max) = Accept(r, f, max)
  BY ReassemblyStep DEF Order
<1>2. PICK id \in DOMAIN Payloads : \E i \in 0..(Count(id) - 1) : f = Fragment(id, i)
  BY FragmentIs
<1>3. PICK i \in 0..(Count(id) - 1) : f = Fragment(id, i)
  BY <1>2
<1>4. \A k \in DOMAIN a : a[k] # f
  BY DEF ToSet
<1>5. Order(b)
  <2>1. n \in Nat /\ DOMAIN a = 1..n /\ DOMAIN b = 1..(n + 1) /\ b[n + 1] = f /\ \A k \in 1..n : b[k] = a[k]
    BY Arriving
  <2>2. b \in Seq(AllFragments)
    BY DEF Order
  <2> HIDE DEF b, n
  <2>3. \A k \in 1..(n + 1) : k \in 1..n \/ k = n + 1
    BY <2>1
  <2>4. \A h, k \in 1..(n + 1) : b[h] = b[k] => h = k
    BY <1>4, <2>1, <2>3 DEF Order
  <2> QED BY <2>1, <2>2, <2>4 DEF Order
<1> HIDE DEF r
<1>6. Assembles(b, Accept(r, f, max), max)
  <2>1. Assembles(a, r, max)
    BY DEF r
  <2>2. CASE DOMAIN Fed(r, id, i).parts = 0..(Count(id) - 1)
    BY <1>3, <1>4, <2>1, <2>2, AcceptIs, Completing
  <2>3. CASE DOMAIN Fed(r, id, i).parts # 0..(Count(id) - 1)
    BY <1>3, <1>4, <2>1, <2>3, AcceptIs, Keeping
  <2> QED BY <2>2, <2>3
<1> QED BY <1>1, <1>5, <1>6

(* A message has all arrived if as many of its fragments came as it has. *)
LEMMA ArrivedIsComplete ==
    ASSUME Order(arrived), NEW id \in DOMAIN Payloads
    PROVE  /\ AllArrived(id) <=> Complete(arrived, id)
           /\ Positions(id) = At(arrived, id) /\ Positions(id) \subseteq 1..Len(arrived) /\ Len(arrived) \in Nat
<1> DEFINE I == 0..(Count(id) - 1)  P == Positions(id)  index == [k \in P |-> arrived[k].index]
<1>1. arrived \in Seq(AllFragments) /\ Len(arrived) \in Nat /\ DOMAIN arrived = 1..Len(arrived)
  BY DEF Order
<1>2. P = At(arrived, id) /\ P \subseteq 1..Len(arrived)
  BY <1>1 DEF Positions, At
<1>3. ASSUME NEW k \in P PROVE index[k] \in I /\ arrived[k] = Fragment(id, index[k])
  <2>1. arrived[k] \in AllFragments /\ arrived[k].id = id
    BY <1>1, <1>3 DEF Positions
  <2>2. PICK j \in DOMAIN Payloads : \E i \in 0..(Count(j) - 1) : arrived[k] = Fragment(j, i)
    BY <2>1, FragmentIs
  <2>3. PICK i \in 0..(Count(j) - 1) : arrived[k] = Fragment(j, i)
    BY <2>2
  <2>4. arrived[k].id = j /\ arrived[k].index = i
    BY <2>3 DEF Fragment
  <2> QED BY <2>1, <2>3, <2>4
<1>4. \A i \in I, k \in DOMAIN arrived : arrived[k] = Fragment(id, i) => k \in P /\ index[k] = i
  BY DEF Positions, Fragment
<1> HIDE DEF P, I
<1>5. index \in Injection(P, I)
  <2> HIDE DEF index
  <2>1. index \in [P -> I]
    <3>1. index = [k \in P |-> index[k]]
      BY DEF index
    <3> QED BY <1>3, <3>1
  <2>2. \A h, k \in P : index[h] = index[k] => h = k
    <3>1. P \subseteq DOMAIN arrived
      BY <1>1, <1>2
    <3> QED BY <1>3, <3>1 DEF Order
  <2> QED BY <2>1, <2>2 DEF Injection, IsInjective
<1>6. IsFiniteSet(I) /\ Cardinality(I) = Count(id) /\ Count(id) \in Nat
  <2>1. Count(id) \in Nat /\ Count(id) >= 1
    BY CountIs
  <2>2. 0 \in Int /\ Count(id) - 1 \in Int
    BY <2>1
  <2>3. IsFiniteSet(0..(Count(id) - 1)) /\ Cardinality(0..(Count(id) - 1)) = Count(id)
    BY <2>1, <2>2, FS_Interval
  <2> QED BY <2>1, <2>3 DEF I
<1>7. Cardinality(P) = Cardinality(I) <=> index \in Surjection(P, I)
  <2> HIDE DEF index
  <2> QED BY <1>5, <1>6, FS_Injection
<1>8. index \in Surjection(P, I) <=> \A i \in I : \E k \in P : index[k] = i
  BY <1>5 DEF Injection, Surjection
<1>9. (\A i \in I : \E k \in P : index[k] = i) <=> Complete(arrived, id)
  <2> HIDE DEF index
  <2>1. ASSUME NEW i \in I
        PROVE  (\E k \in P : index[k] = i) <=> \E k \in DOMAIN arrived : arrived[k] = Fragment(id, i)
    BY <1>1, <1>2, <1>3, <1>4
  <2> QED BY <2>1 DEF Complete, I
<1>10. AllArrived(id) <=> Cardinality(P) = Cardinality(I)
  <2>1. DOMAIN Fragments(id, Payloads[id]) = I
    BY FragmentsAre DEF I
  <2> QED BY <2>1 DEF AllArrived, P
<1> QED BY <1>1, <1>2, <1>7, <1>8, <1>9, <1>10 DEF P

(* What was lost met as many others between its first and its last fragment. *)
LEMMA LostBetween ==
    ASSUME Order(arrived), NEW id \in DOMAIN Payloads, NEW max \in Nat,
           AllArrived(id), Lost(arrived, id, max)
    PROVE  Cardinality(Between(id)) >= max
<1> DEFINE n == Len(arrived)
<1>1. Complete(arrived, id) /\ Positions(id) = At(arrived, id) /\ Positions(id) \subseteq 1..n /\ n \in Nat
  BY ArrivedIsComplete
<1>2. PICK t \in 1..n : /\ Cardinality(Others(arrived, id, t)) >= max
                        /\ \E i \in 0..(Count(id) - 1) : \A k \in 1..t : arrived[k] # Fragment(id, i)
  BY DEF Lost, Order
<1>3. PICK i \in 0..(Count(id) - 1) : \A k \in 1..t : arrived[k] # Fragment(id, i)
  BY <1>2
<1>4. PICK last \in 1..n : arrived[last] = Fragment(id, i) /\ last > t
  <2>1. PICK k \in DOMAIN arrived : arrived[k] = Fragment(id, i)
    BY <1>1 DEF Complete
  <2>2. k \in 1..n /\ k \notin 1..t
    BY <1>3, <2>1 DEF Order
  <2> QED BY <1>1, <2>1, <2>2
<1>5. last \in Positions(id)
  BY <1>1, <1>4 DEF At, Fragment, Order
<1>6. last <= Max(Positions(id)) /\ Max(Positions(id)) \in 1..n
  <2>1. Positions(id) \in SUBSET (0..n) /\ Positions(id) # {}
    <3>1. \A k \in 1..n : k \in 0..n
      BY <1>1
    <3> QED BY <1>1, <1>5, <3>1
  <2> QED BY <1>1, <1>5, <2>1, MaxType
<1>7. Min(Positions(id)) \in 1..n /\ \A k \in Positions(id) : Min(Positions(id)) <= k
  <2>1. Positions(id) \in SUBSET Nat /\ Positions(id) # {}
    BY <1>1, <1>5
  <2> QED BY <1>1, <2>1, MinType
<1>8. Others(arrived, id, t) \subseteq Between(id)
  <2> SUFFICES ASSUME NEW j \in 1..t, arrived[j].id # id, NEW h \in At(arrived, id), h < j
               PROVE  arrived[j].id \in Between(id)
    BY DEF Others
  <2>1. j \in Min(Positions(id))..Max(Positions(id))
    <3>1. h \in Positions(id) /\ h \in 1..n
      BY <1>1
    <3>2. Min(Positions(id)) <= h /\ j <= t /\ j \in Int /\ t \in Int
      BY <1>1, <1>7, <3>1
    <3> QED BY <1>1, <1>4, <1>6, <1>7, <3>1, <3>2
  <2> QED BY <2>1 DEF Between
<1>9. IsFiniteSet(Between(id))
  <2>1. Between(id) \in SUBSET DOMAIN Payloads
    <3> SUFFICES ASSUME NEW k \in Min(Positions(id))..Max(Positions(id)) PROVE arrived[k].id \in DOMAIN Payloads
      BY DEF Between
    <3>1. k \in 1..n
      BY <1>1, <1>6, <1>7
    <3>2. arrived[k] \in AllFragments
      BY <3>1 DEF Order
    <3> QED BY <3>2, FragmentIs DEF Fragment
  <2> QED BY <2>1, IdsFinite, FS_Subset
<1>10. /\ Cardinality(Others(arrived, id, t)) <= Cardinality(Between(id))
       /\ Cardinality(Others(arrived, id, t)) \in Nat /\ Cardinality(Between(id)) \in Nat
  BY <1>8, <1>9, FS_Subset, FS_CardinalityType
<1> QED BY <1>2, <1>10

(* The fragments of the inputs. *)
Assembled ==
    input[1] = "fragments" =>
        /\ input[2] \in Nat /\ input[2] >= 1 /\ Order(arrived)
        /\ Assembles(arrived, Reassembly(arrived, input[2]), input[2])

(* Nothing has arrived at first. *)
LEMMA AssembledInit == Init => Assembled
<1> SUFFICES ASSUME Init, input[1] = "fragments"
             PROVE  /\ input[2] \in Nat /\ input[2] >= 1 /\ Order(arrived)
                    /\ Assembles(arrived, Reassembly(arrived, input[2]), input[2])
  BY DEF Assembled
<1>1. input[2] \in Nat /\ input[2] >= 1
  <2>1. input \notin Onion
    BY DEF Onion
  <2>2. input \notin Group
    BY DEF Group
  <2>3. input \notin Sealed /\ input \notin Statement /\ input \notin Honest
    BY DEF Sealed, Statement, Honest
  <2>4. input \notin BitPoint /\ input \notin Keys /\ input \notin Interest
    BY DEF BitPoint, Keys, Interest
  <2>5. input \in Growing
    BY <2>1, <2>2, <2>3, <2>4 DEF Init
  <2> QED BY <2>5 DEF Growing
<1>2. arrived = <<>>
  BY DEF Init
<1>3. Order(<<>>)
  BY DEF Order
<1>4. Assembles(<<>>, NewReassembler, input[2])
  <2>1. NewReassembler.partials = <<>> /\ NewReassembler.seq = 0 /\ NewReassembler.out = <<>>
    BY DEF NewReassembler
  <2>2. DOMAIN <<>> = {} /\ Len(<<>>) = 0 /\ Cardinality({}) = 0
    BY FS_EmptySet
  <2>3. PartialsOK(<<>>, NewReassembler, input[2])
    BY <1>1, <2>1, <2>2 DEF PartialsOK
  <2>4. OutOK(<<>>, NewReassembler)
    BY <2>1, <2>2 DEF OutOK, ToSet
  <2>5. \A id \in DOMAIN Payloads : NotMissed(<<>>, NewReassembler, input[2], id)
    BY <2>2 DEF NotMissed, At
  <2>6. NewReassembler = [partials |-> NewReassembler.partials, seq |-> Len(<<>>), out |-> NewReassembler.out]
    BY <2>2 DEF NewReassembler
  <2> QED BY <2>3, <2>4, <2>5, <2>6 DEF Assembles
<1> QED BY <1>1, <1>2, <1>3, <1>4, ReassemblyBegins

(* Every arrival keeps what is assembled. *)
LEMMA AssembledStep == Assembled /\ [Next]_vars => Assembled'
<1> SUFFICES ASSUME Assembled, [Next]_vars, input'[1] = "fragments"
             PROVE  /\ input'[2] \in Nat /\ input'[2] >= 1 /\ Order(arrived')
                    /\ Assembles(arrived', Reassembly(arrived', input'[2]), input'[2])
  BY DEF Assembled
<1>1. input' = input
  BY DEF Next, vars, AppendBlock, AppendSuspensions, Arrive
<1>2. /\ input[2] \in Nat /\ input[2] >= 1 /\ Order(arrived)
      /\ Assembles(arrived, Reassembly(arrived, input[2]), input[2])
  BY <1>1 DEF Assembled
<1>3. CASE arrived' = arrived
  BY <1>1, <1>2, <1>3
<1>4. CASE \E frag \in AllFragments : Arrive(frag)
  <2>1. PICK frag \in AllFragments : frag \notin ToSet(arrived) /\ arrived' = Append(arrived, frag)
    BY <1>4 DEF Arrive
  <2> QED BY <1>1, <1>2, <2>1, Accepting
<1> QED BY <1>3, <1>4 DEF Next, vars, AppendBlock, AppendSuspensions

(***************************************************************************)
(* For any messages, any number of places and any order of arrival: what   *)
(* is handed on was sent and is complete, none twice; a complete message   *)
(* is missed only if as many others came in between as there are places.   *)
(***************************************************************************)
THEOREM MessagesReassemble == Spec => []FragmentsReassemble
<1>1. Assembled => FragmentsReassemble
  <2> SUFFICES ASSUME Assembled, input[1] = "fragments" PROVE FragmentsReassemble
    BY DEF FragmentsReassemble
  <2> DEFINE max == input[2]  ra == Reassembly(arrived, max)
  <2>1. max \in Nat /\ Order(arrived) /\ Assembles(arrived, ra, max)
    BY DEF Assembled
  <2>2. Reassembled(max) = ra
    BY DEF Reassembled, Reassembly
  <2> HIDE DEF ra, max
  <2>3. Cardinality(DOMAIN ra.partials) <= max
    BY <2>1 DEF Assembles, PartialsOK
  <2>4. \A i, j \in DOMAIN ra.out : ra.out[i] = ra.out[j] => i = j
    BY <2>1 DEF Assembles, OutOK
  <2>5. ASSUME NEW i \in DOMAIN ra.out
        PROVE  \E id \in DOMAIN Payloads : ra.out[i] = Payloads[id] /\ AllArrived(id)
    <3>1. ra.out \in Seq({Payloads[id] : id \in DOMAIN Payloads})
      BY <2>1 DEF Assembles, OutOK
    <3>2. ra.out[i] \in {Payloads[id] : id \in DOMAIN Payloads}
      BY <2>5, <3>1
    <3>3. PICK id \in DOMAIN Payloads : ra.out[i] = Payloads[id]
      BY <3>2
    <3>4. Complete(arrived, id)
      BY <2>1, <2>5, <3>3 DEF Assembles, OutOK, ToSet
    <3> QED BY <2>1, <3>3, <3>4, ArrivedIsComplete
  <2>6. ASSUME NEW id \in DOMAIN Payloads, AllArrived(id)
        PROVE  Payloads[id] \in ToSet(ra.out) \/ Cardinality(Between(id)) >= max
    <3>1. Complete(arrived, id) /\ NotMissed(arrived, ra, max, id)
      BY <2>1, <2>6, ArrivedIsComplete DEF Assembles
    <3>2. At(arrived, id) # {}
      <4>1. 0 \in 0..(Count(id) - 1)
        BY CountIs
      <4> QED BY <3>1, <4>1 DEF Complete, At, Fragment
    <3>3. CASE Lost(arrived, id, max)
      BY <2>1, <2>6, <3>3, LostBetween
    <3>4. CASE id \in DOMAIN ra.partials /\ \A k \in At(arrived, id) : k > ra.partials[id].seq
      <4> DEFINE p == ra.partials[id]  I == 0..(Count(id) - 1)
      <4>1. Begun(arrived, p, id)
        BY <2>1, <3>4 DEF Assembles, PartialsOK
      <4>2. \A i \in I : \E k \in DOMAIN arrived : k > p.seq /\ arrived[k] = Fragment(id, i)
        BY <3>1, <3>4 DEF Complete, At, Fragment
      <4> HIDE DEF p
      <4>3. DOMAIN p.parts = I
        BY <4>1, <4>2 DEF Begun, Gathers
      <4> QED BY <4>1, <4>3 DEF Begun
    <3> QED BY <3>1, <3>2, <3>3, <3>4 DEF NotMissed
  <2> QED BY <2>2, <2>3, <2>4, <2>5, <2>6 DEF FragmentsReassemble, max
<1> QED BY <1>1, AssembledInit, AssembledStep, PTL DEF Spec

-----------------------------------------------------------------------------
(* Sparse Merkle trees. *)

(* Induction on the levels of a tree. *)
LEMMA LevelInduction ==
    ASSUME NEW S, 0 \in S, \A l \in 1..Depth : l - 1 \in S => l \in S
    PROVE  \A l \in 0..Depth : l \in S
<1> DEFINE bad == {l \in 0..Depth : l \notin S}
<1> SUFFICES ASSUME bad # {} PROVE FALSE
  OBVIOUS
<1>1. bad \in SUBSET Nat
  BY DepthAssumption
<1>2. PICK l \in bad : \A y \in bad : l <= y
  <2> HIDE DEF bad
  <2> QED BY <1>1, LeastElement
<1>3. l \in 1..Depth /\ l - 1 \in 0..Depth /\ ~(l <= l - 1)
  BY <1>2, DepthAssumption
<1> QED BY <1>2, <1>3

(* A value for every level, from base on, each computed from the one before. *)
Climbs(A, base, G) == base \in A[0] /\ \A l \in 1..Depth : \A x \in A[l - 1] : G[l][x] \in A[l]
Climb(f, A, base, G) ==
    /\ f = [l \in 0..Depth |-> IF l = 0 THEN base ELSE G[l][f[l - 1]]]
    /\ \A l \in 0..Depth : f[l] \in A[l]

(* There are such values. *)
LEMMA LevelsExist == ASSUME NEW A, NEW base, NEW G, Climbs(A, base, G) PROVE \E f : Climb(f, A, base, G)
<1> USE DEF Climbs, Climb
<1> DEFINE UpTo(f, m) == /\ f[0] = base /\ \A l \in 1..m : f[l] = G[l][f[l - 1]]
                         /\ \A l \in 0..m : f[l] \in A[l]
           S == {m \in 0..Depth : \E f : UpTo(f, m)}
<1>1. 0 \in S
  <2> DEFINE f == [l \in {0} |-> base]
  <2>1. UpTo(f, 0)
    OBVIOUS
  <2> HIDE DEF f, UpTo
  <2> QED BY <2>1, DepthAssumption
<1>2. ASSUME NEW m \in 1..Depth, m - 1 \in S PROVE m \in S
  <2>1. PICK f : UpTo(f, m - 1)
    BY <1>2
  <2> DEFINE g == [l \in 0..m |-> IF l = m THEN G[m][f[m - 1]] ELSE f[l]]
  <2>2. m \in Nat /\ m # 0 /\ m - 1 \in 0..(m - 1) /\ m \in 0..Depth
    BY DepthAssumption
  <2>3. \A l \in 0..m : l = m \/ l \in 0..(m - 1)
    BY <2>2
  <2>4. g[m] = G[m][f[m - 1]] /\ \A l \in 0..(m - 1) : g[l] = f[l]
    BY <2>2
  <2> HIDE DEF g
  <2>5. g[0] = base /\ f[m - 1] \in A[m - 1]
    BY <2>1, <2>2, <2>4
  <2>6. ASSUME NEW l \in 1..m PROVE g[l] = G[l][g[l - 1]]
    <3>1. l - 1 \in 0..(m - 1) /\ (l = m \/ l \in 1..(m - 1))
      BY <2>2
    <3> QED BY <2>1, <2>4, <3>1
  <2>7. \A l \in 0..m : g[l] \in A[l]
    BY <2>1, <2>3, <2>4, <2>5
  <2>8. UpTo(g, m)
    BY <2>5, <2>6, <2>7
  <2> HIDE DEF UpTo
  <2> QED BY <2>2, <2>8
<1>3. Depth \in S
  <2>1. Depth \in 0..Depth
    BY DepthAssumption
  <2> HIDE DEF S
  <2> QED BY <1>1, <1>2, <2>1, LevelInduction
<1>4. PICK g : UpTo(g, Depth)
  BY <1>3
<1> DEFINE f == [l \in 0..Depth |-> g[l]]
<1>5. ASSUME NEW l \in 0..Depth PROVE f[l] = IF l = 0 THEN base ELSE G[l][f[l - 1]]
  <2>1. l = 0 \/ (l \in 1..Depth /\ l - 1 \in 0..Depth)
    BY DepthAssumption
  <2> QED BY <1>4, <2>1
<1>6. \A l \in 0..Depth : f[l] \in A[l]
  BY <1>4
<1>7. f = [l \in 0..Depth |-> IF l = 0 THEN base ELSE G[l][f[l - 1]]]
  <2>1. f = [l \in 0..Depth |-> f[l]]
    OBVIOUS
  <2> HIDE DEF f
  <2> QED BY <1>5, <2>1
<1> QED BY <1>6, <1>7

(* The leaves below a node double with every level. *)
LEMMA WidthIs == /\ Width[0] = 1 /\ \A l \in 1..Depth : Width[l] = 2 * Width[l - 1]
                 /\ \A l \in 0..Depth : Width[l] \in Nat
<1> DEFINE Solves(f) == f = [level \in 0..Depth |-> IF level = 0 THEN 1 ELSE 2 * f[level - 1]]
           A == [l \in 0..Depth |-> Nat]
           G == [l \in 1..Depth |-> [x \in Nat |-> 2 * x]]
<1>1. Width = CHOOSE f : Solves(f)
  BY DEF Width
<1>2. 1 \in A[0] /\ \A l \in 0..Depth : A[l] = Nat
  BY DepthAssumption
<1>3. \A l \in 1..Depth : \A x \in A[l - 1] : G[l][x] \in A[l]
  BY <1>2, DepthAssumption
<1>4. PICK f : Climb(f, A, 1, G)
  <2> HIDE DEF A, G
  <2> QED BY <1>2, <1>3, LevelsExist DEF Climbs
<1>5. ASSUME NEW l \in 0..Depth PROVE f[l] = IF l = 0 THEN 1 ELSE 2 * f[l - 1]
  <2>1. l = 0 \/ (l \in 1..Depth /\ l - 1 \in 0..Depth)
    BY DepthAssumption
  <2> QED BY <1>2, <1>4, <2>1 DEF Climb
<1>6. f = [l \in 0..Depth |-> f[l]]
  <2> HIDE DEF G
  <2> QED BY <1>4 DEF Climb
<1>7. Solves(f)
  BY <1>5, <1>6
<1>8. Solves(Width)
  BY <1>1, <1>7
<1>9. \A l \in 0..Depth : Width[l] = IF l = 0 THEN 1 ELSE 2 * Width[l - 1]
  BY <1>8
<1>10. 0 \in 0..Depth /\ \A l \in 1..Depth : l \in 0..Depth /\ l # 0
  BY DepthAssumption
<1>11. Width[0] = 1 /\ \A l \in 1..Depth : Width[l] = 2 * Width[l - 1]
  BY <1>9, <1>10
<1> DEFINE S == {l \in 0..Depth : Width[l] \in Nat}
<1>12. \A l \in 0..Depth : l \in S
  <2>1. 0 \in S /\ \A l \in 1..Depth : l - 1 \in S => l \in S
    BY <1>10, <1>11
  <2> HIDE DEF S
  <2> QED BY <2>1, LevelInduction
<1> QED BY <1>11, <1>12

(* The levels, for the steps below. *)
LEMMA LevelIs ==
    /\ 0 \in 0..Depth /\ Depth \in 0..Depth
    /\ \A l \in 1..Depth : l \in 0..Depth /\ l # 0 /\ l - 1 \in 0..Depth /\ Depth - l \in 0..Depth
                          /\ Depth - (l - 1) \in 1..Depth /\ (Depth - (l - 1)) - 1 = Depth - l
    /\ \A l \in 0..Depth : l = 0 \/ l \in 1..Depth
BY DepthAssumption

(* The nodes above a leaf. *)
LEMMA AboveIs ==
    ASSUME NEW key \in Nat
    PROVE  /\ Above(key)[0] = key /\ \A l \in 1..Depth : Above(key)[l] = Above(key)[l - 1] \div 2
           /\ \A l \in 0..Depth : Above(key)[l] \in Nat
<1> DEFINE Solves(f) == f = [level \in 0..Depth |-> IF level = 0 THEN key ELSE f[level - 1] \div 2]
           A == [l \in 0..Depth |-> Nat]
           G == [l \in 1..Depth |-> [x \in Nat |-> x \div 2]]
<1>1. Above(key) = CHOOSE f : Solves(f)
  BY DEF Above
<1>2. key \in A[0] /\ \A l \in 0..Depth : A[l] = Nat
  BY DepthAssumption
<1>3. \A l \in 1..Depth : \A x \in A[l - 1] : G[l][x] \in A[l]
  BY <1>2, DepthAssumption
<1>4. PICK f : Climb(f, A, key, G)
  <2> HIDE DEF A, G
  <2> QED BY <1>2, <1>3, LevelsExist DEF Climbs
<1>5. ASSUME NEW l \in 0..Depth PROVE f[l] = IF l = 0 THEN key ELSE f[l - 1] \div 2
  BY <1>2, <1>4, LevelIs DEF Climb
<1>6. f = [l \in 0..Depth |-> f[l]]
  <2> HIDE DEF G
  <2> QED BY <1>4 DEF Climb
<1>7. Solves(f)
  BY <1>5, <1>6
<1>8. Solves(Above(key))
  BY <1>1, <1>7
<1>9. Above(key)[0] = key /\ \A l \in 1..Depth : Above(key)[l] = Above(key)[l - 1] \div 2
  <2>1. \A l \in 0..Depth : Above(key)[l] = IF l = 0 THEN key ELSE Above(key)[l - 1] \div 2
    BY <1>8
  <2> QED BY <2>1, LevelIs
<1> DEFINE S == {l \in 0..Depth : Above(key)[l] \in Nat}
<1>10. \A l \in 0..Depth : l \in S
  <2>1. \A x \in Nat : x \div 2 \in Nat
    OBVIOUS
  <2>2. 0 \in S /\ \A l \in 1..Depth : l - 1 \in S => l \in S
    BY <1>9, <2>1, LevelIs
  <2> HIDE DEF S
  <2> QED BY <2>2, LevelInduction
<1> QED BY <1>9, <1>10

(* Keys are numbers. *)
LEMMA KeyIsNat == \A key \in Key : key \in Nat /\ key < Width[Depth]
BY WidthIs, LevelIs DEF Key

(* The nodes of a level that is l above the leaves. *)
Row(l) == 0..(Width[Depth - l] - 1)

(* Every row has half the nodes of the one below; the last one has the root only. *)
LEMMA RowIs ==
    /\ Row(0) = Key /\ Row(Depth) = {0} /\ \A l \in 0..Depth : Row(l) \in SUBSET Nat
    /\ \A l \in 1..Depth : \A i \in Row(l) : 2 * i \in Row(l - 1) /\ 2 * i + 1 \in Row(l - 1)
    /\ \A l \in 1..Depth : \A i \in Row(l - 1) : i \div 2 \in Row(l)
<1>1. Row(0) = Key /\ Row(Depth) = {0}
  <2>1. Depth - 0 = Depth /\ Depth - Depth = 0
    BY DepthAssumption
  <2> QED BY <2>1, WidthIs DEF Row, Key
<1>2. ASSUME NEW l \in 1..Depth
      PROVE  /\ Width[Depth - l] \in Nat /\ Row(l) = 0..(Width[Depth - l] - 1)
             /\ Row(l - 1) = 0..(2 * Width[Depth - l] - 1)
  BY LevelIs, WidthIs DEF Row
<1>3. ASSUME NEW l \in 1..Depth, NEW i \in Row(l) PROVE 2 * i \in Row(l - 1) /\ 2 * i + 1 \in Row(l - 1)
  BY <1>2
<1>4. ASSUME NEW l \in 1..Depth, NEW i \in Row(l - 1) PROVE i \div 2 \in Row(l)
  <2> DEFINE w == Width[Depth - l]
  <2>1. w \in Nat /\ i \in 0..(2 * w - 1) /\ Row(l) = 0..(w - 1)
    BY <1>2, <1>4
  <2> HIDE DEF w
  <2>2. i \div 2 \in 0..(w - 1)
    BY <2>1
  <2> QED BY <2>1, <2>2
<1>5. \A l \in 0..Depth : Row(l) \in SUBSET Nat
  BY DEF Row
<1> QED BY <1>1, <1>3, <1>4, <1>5

(* So the way from a leaf leads to the root. *)
LEMMA AboveInRow == ASSUME NEW key \in Key PROVE \A l \in 0..Depth : Above(key)[l] \in Row(l)
<1> DEFINE S == {l \in 0..Depth : Above(key)[l] \in Row(l)}
<1>1. /\ Above(key)[0] \in Row(0)
      /\ \A l \in 1..Depth : Above(key)[l] = Above(key)[l - 1] \div 2
  BY KeyIsNat, AboveIs, RowIs
<1>2. ASSUME NEW l \in 1..Depth, l - 1 \in S PROVE l \in S
  <2>1. Above(key)[l - 1] \div 2 \in Row(l)
    BY <1>2, RowIs
  <2> QED BY <1>1, <2>1, LevelIs
<1>3. 0 \in S
  BY <1>1, LevelIs
<1> HIDE DEF S
<1> QED BY <1>2, <1>3, LevelInduction DEF S

(* A hash is not a leaf, and determines what was hashed. *)
LEMMA HashIs ==
    /\ EmptyLeaf # PresentLeaf
    /\ \A a, b, c, d : HashPair(a, b) = HashPair(c, d) => a = c /\ b = d
BY DEF EmptyLeaf, PresentLeaf, HashPair

(* The values that the nodes of each level may have. *)
IsHashes(H) == /\ EmptyLeaf \in H[0] /\ PresentLeaf \in H[0]
               /\ \A l \in 1..Depth : \A a, b \in H[l - 1] : HashPair(a, b) \in H[l]

LEMMA HashesExist == \E H : IsHashes(H)
<1> DEFINE UpTo(f, m) == /\ f[0] = {EmptyLeaf, PresentLeaf}
                         /\ \A l \in 1..m : f[l] = {HashPair(q[1], q[2]) : q \in f[l - 1] \X f[l - 1]}
           S == {m \in 0..Depth : \E f : UpTo(f, m)}
<1>1. 0 \in S
  <2> DEFINE f == [l \in {0} |-> {EmptyLeaf, PresentLeaf}]
  <2>1. UpTo(f, 0)
    OBVIOUS
  <2> HIDE DEF f, UpTo
  <2> QED BY <2>1, LevelIs
<1>2. ASSUME NEW m \in 1..Depth, m - 1 \in S PROVE m \in S
  <2>1. PICK f : UpTo(f, m - 1)
    BY <1>2
  <2> DEFINE new == {HashPair(q[1], q[2]) : q \in f[m - 1] \X f[m - 1]}
             g == [l \in 0..m |-> IF l = m THEN new ELSE f[l]]
  <2>2. m \in Nat /\ m # 0 /\ m - 1 \in 0..(m - 1) /\ m \in 0..Depth /\ 0 \in 0..(m - 1)
    BY DepthAssumption
  <2>3. g[m] = new /\ \A l \in 0..(m - 1) : g[l] = f[l]
    <3> HIDE DEF new
    <3> QED BY <2>2
  <2> HIDE DEF g
  <2>4. g[0] = {EmptyLeaf, PresentLeaf} /\ g[m - 1] = f[m - 1]
    BY <2>1, <2>2, <2>3
  <2>5. ASSUME NEW l \in 1..m PROVE g[l] = {HashPair(q[1], q[2]) : q \in g[l - 1] \X g[l - 1]}
    <3>1. CASE l = m
      BY <2>3, <2>4, <3>1
    <3>2. CASE l # m
      <4>1. l \in 1..(m - 1) /\ l \in 0..(m - 1) /\ l - 1 \in 0..(m - 1)
        BY <2>2, <3>2
      <4>2. g[l] = f[l] /\ g[l - 1] = f[l - 1]
        BY <2>3, <4>1
      <4> QED BY <2>1, <4>1, <4>2
    <3> QED BY <3>1, <3>2
  <2>6. UpTo(g, m)
    BY <2>4, <2>5
  <2> HIDE DEF UpTo
  <2> QED BY <2>2, <2>6
<1>3. Depth \in S
  <2> HIDE DEF S
  <2> QED BY <1>1, <1>2, LevelIs, LevelInduction
<1>4. PICK f : UpTo(f, Depth)
  BY <1>3
<1>5. ASSUME NEW l \in 1..Depth, NEW a \in f[l - 1], NEW b \in f[l - 1] PROVE HashPair(a, b) \in f[l]
  <2>1. <<a, b>> \in f[l - 1] \X f[l - 1] /\ HashPair(a, b) = HashPair(<<a, b>>[1], <<a, b>>[2])
    OBVIOUS
  <2>2. f[l] = {HashPair(q[1], q[2]) : q \in f[l - 1] \X f[l - 1]}
    BY <1>4
  <2> HIDE DEF UpTo
  <2> QED BY <2>1, <2>2
<1>6. EmptyLeaf \in f[0] /\ PresentLeaf \in f[0]
  BY <1>4
<1> QED BY <1>5, <1>6 DEF IsHashes

(* The roots of empty trees. *)
LEMMA EmptiesAre ==
    /\ Empties[0] = EmptyLeaf /\ \A l \in 1..Depth : Empties[l] = HashPair(Empties[l - 1], Empties[l - 1])
    /\ \A H : IsHashes(H) => \A l \in 0..Depth : Empties[l] \in H[l]
<1> DEFINE Solves(f) == f = [level \in 0..Depth |-> IF level = 0 THEN EmptyLeaf ELSE HashPair(f[level - 1], f[level - 1])]
<1>1. Empties = CHOOSE f : Solves(f)
  BY DEF Empties
<1>2. PICK K : IsHashes(K)
  BY HashesExist
<1> DEFINE A == [l \in 0..Depth |-> K[l]]
           G == [l \in 1..Depth |-> [x \in A[l - 1] |-> HashPair(x, x)]]
<1>3. EmptyLeaf \in A[0] /\ \A l \in 1..Depth : \A x \in A[l - 1] : G[l][x] = HashPair(x, x) /\ G[l][x] \in A[l]
  BY <1>2, LevelIs DEF IsHashes
<1>4. PICK f : Climb(f, A, EmptyLeaf, G)
  <2>1. Climbs(A, EmptyLeaf, G)
    BY <1>3 DEF Climbs
  <2> HIDE DEF A, G
  <2> QED BY <2>1, LevelsExist
<1>5. ASSUME NEW l \in 0..Depth PROVE f[l] = IF l = 0 THEN EmptyLeaf ELSE HashPair(f[l - 1], f[l - 1])
  <2> HIDE DEF A, G
  <2>1. CASE l = 0
    BY <1>4, <2>1 DEF Climb
  <2>2. CASE l \in 1..Depth
    <3>1. f[l] = G[l][f[l - 1]] /\ f[l - 1] \in A[l - 1]
      BY <1>4, <2>2, LevelIs DEF Climb
    <3> QED BY <1>3, <2>2, <3>1, LevelIs
  <2> QED BY <2>1, <2>2, LevelIs
<1>6. f = [l \in 0..Depth |-> f[l]]
  <2> HIDE DEF A, G
  <2> QED BY <1>4 DEF Climb
<1>7. Solves(f)
  BY <1>5, <1>6
<1>8. Solves(Empties)
  BY <1>1, <1>7
<1>9. Empties[0] = EmptyLeaf /\ \A l \in 1..Depth : Empties[l] = HashPair(Empties[l - 1], Empties[l - 1])
  <2>1. \A l \in 0..Depth : Empties[l] = IF l = 0 THEN EmptyLeaf ELSE HashPair(Empties[l - 1], Empties[l - 1])
    BY <1>8
  <2> QED BY <2>1, LevelIs
<1>10. ASSUME NEW H, IsHashes(H) PROVE \A l \in 0..Depth : Empties[l] \in H[l]
  <2> DEFINE S == {l \in 0..Depth : Empties[l] \in H[l]}
  <2>1. 0 \in S
    BY <1>9, <1>10, LevelIs DEF IsHashes
  <2>2. ASSUME NEW l \in 1..Depth, l - 1 \in S PROVE l \in S
    <3>1. Empties[l - 1] \in H[l - 1]
      BY <2>2
    <3>2. HashPair(Empties[l - 1], Empties[l - 1]) \in H[l]
      BY <1>10, <3>1 DEF IsHashes
    <3> QED BY <1>9, <3>2, LevelIs
  <2> HIDE DEF S
  <2> QED BY <2>1, <2>2, LevelInduction DEF S
<1> QED BY <1>9, <1>10

(* The rows of the full tree. *)
LEMMA RowsAre ==
    ASSUME NEW keys
    PROVE  /\ \A i \in Key : Rows(keys)[0][i] = IF i \in keys THEN PresentLeaf ELSE EmptyLeaf
           /\ \A l \in 1..Depth : \A i \in Row(l) :
                 Rows(keys)[l][i] = HashPair(Rows(keys)[l - 1][2 * i], Rows(keys)[l - 1][2 * i + 1])
           /\ \A H : IsHashes(H) => \A l \in 0..Depth : \A i \in Row(l) : Rows(keys)[l][i] \in H[l]
<1> DEFINE leaves == [i \in Key |-> IF i \in keys THEN PresentLeaf ELSE EmptyLeaf]
           Upper(l, r) == [i \in Row(l) |-> HashPair(r[2 * i], r[2 * i + 1])]
           Solves(f) == f = [level \in 0..Depth |-> IF level = 0 THEN leaves ELSE Upper(level, f[level - 1])]
<1>1. Rows(keys) = CHOOSE f : Solves(f)
  BY DEF Rows, Row
<1>2. PICK H : IsHashes(H)
  BY HashesExist
<1> DEFINE A == [l \in 0..Depth |-> [Row(l) -> H[l]]]
           G == [l \in 1..Depth |-> [x \in A[l - 1] |-> Upper(l, x)]]
<1>3. leaves \in A[0]
  <2>1. A[0] = [Key -> H[0]]
    BY LevelIs, RowIs
  <2>2. EmptyLeaf \in H[0] /\ PresentLeaf \in H[0]
    BY <1>2 DEF IsHashes
  <2> QED BY <2>1, <2>2
<1>4. ASSUME NEW l \in 1..Depth, NEW x \in A[l - 1] PROVE G[l][x] = Upper(l, x) /\ G[l][x] \in A[l]
  <2>1. A[l - 1] = [Row(l - 1) -> H[l - 1]] /\ A[l] = [Row(l) -> H[l]]
    BY LevelIs
  <2>2. G[l][x] = Upper(l, x)
    <3> HIDE DEF A, Upper
    <3> QED BY <1>4
  <2>3. ASSUME NEW i \in Row(l) PROVE HashPair(x[2 * i], x[2 * i + 1]) \in H[l]
    <3>1. x[2 * i] \in H[l - 1] /\ x[2 * i + 1] \in H[l - 1]
      BY <1>4, <2>1, RowIs
    <3> QED BY <1>2, <3>1 DEF IsHashes
  <2>4. Upper(l, x) \in [Row(l) -> H[l]]
    BY <2>3
  <2> QED BY <2>1, <2>2, <2>4
<1>5. PICK f : Climb(f, A, leaves, G)
  <2>1. \A l \in 1..Depth : \A x \in A[l - 1] : G[l][x] \in A[l]
    BY <1>4
  <2> HIDE DEF A, G, leaves
  <2> QED BY <1>3, <2>1, LevelsExist DEF Climbs
<1>6. ASSUME NEW l \in 0..Depth PROVE f[l] = IF l = 0 THEN leaves ELSE Upper(l, f[l - 1])
  <2> HIDE DEF A, G, leaves, Upper
  <2> QED BY <1>4, <1>5, LevelIs DEF Climb
<1>7. f = [l \in 0..Depth |-> f[l]]
  <2> HIDE DEF A, G, leaves, Upper
  <2> QED BY <1>5 DEF Climb
<1>8. Solves(f)
  <2> HIDE DEF A, G, leaves, Upper
  <2> QED BY <1>6, <1>7
<1>9. Solves(Rows(keys))
  <2> HIDE DEF Solves
  <2> QED BY <1>1, <1>8
<1>10. Rows(keys)[0] = leaves /\ \A l \in 1..Depth : Rows(keys)[l] = Upper(l, Rows(keys)[l - 1])
  <2> DEFINE rows == Rows(keys)
  <2> HIDE DEF A, G, leaves, Upper, rows
  <2>1. rows = [level \in 0..Depth |-> IF level = 0 THEN leaves ELSE Upper(level, rows[level - 1])]
    BY <1>9 DEF rows
  <2>2. \A l \in 0..Depth : rows[l] = IF l = 0 THEN leaves ELSE Upper(l, rows[l - 1])
    BY <2>1
  <2>3. rows[0] = leaves /\ \A l \in 1..Depth : rows[l] = Upper(l, rows[l - 1])
    BY <2>2, LevelIs
  <2> QED BY <2>3 DEF rows
<1>11. \A l \in 1..Depth : \A i \in Row(l) :
          Rows(keys)[l][i] = HashPair(Rows(keys)[l - 1][2 * i], Rows(keys)[l - 1][2 * i + 1])
  BY <1>10
<1>12. \A i \in Key : Rows(keys)[0][i] = IF i \in keys THEN PresentLeaf ELSE EmptyLeaf
  BY <1>10
<1>13. ASSUME NEW B, IsHashes(B) PROVE \A l \in 0..Depth : \A i \in Row(l) : Rows(keys)[l][i] \in B[l]
  <2> DEFINE S == {l \in 0..Depth : \A i \in Row(l) : Rows(keys)[l][i] \in B[l]}
  <2>1. 0 \in S
    BY <1>12, <1>13, LevelIs, RowIs DEF IsHashes
  <2>2. ASSUME NEW l \in 1..Depth, l - 1 \in S PROVE l \in S
    <3>1. ASSUME NEW i \in Row(l) PROVE Rows(keys)[l][i] \in B[l]
      <4>1. Rows(keys)[l - 1][2 * i] \in B[l - 1] /\ Rows(keys)[l - 1][2 * i + 1] \in B[l - 1]
        BY <2>2, RowIs
      <4> QED BY <1>11, <1>13, <4>1 DEF IsHashes
    <3> QED BY <3>1, LevelIs
  <2> HIDE DEF S
  <2> QED BY <2>1, <2>2, LevelInduction DEF S
<1> QED BY <1>11, <1>12, <1>13

(* A node depends on the keys below it only. *)
LEMMA RowsAgree ==
    ASSUME NEW J \in SUBSET Key, NEW K \in SUBSET Key
    PROVE  \A l \in 0..Depth : \A i \in Row(l) :
              (\A k \in Key : Above(k)[l] = i => (k \in J <=> k \in K)) => Rows(J)[l][i] = Rows(K)[l][i]
<1> DEFINE Same(l, i) == \A k \in Key : Above(k)[l] = i => (k \in J <=> k \in K)
           S == {l \in 0..Depth : \A i \in Row(l) : Same(l, i) => Rows(J)[l][i] = Rows(K)[l][i]}
<1>1. 0 \in S
  <2>1. ASSUME NEW i \in Row(0), Same(0, i) PROVE Rows(J)[0][i] = Rows(K)[0][i]
    <3>1. i \in Key /\ Above(i)[0] = i
      BY RowIs, KeyIsNat, AboveIs
    <3>2. i \in J <=> i \in K
      BY <2>1, <3>1
    <3> QED BY <3>1, <3>2, RowsAre
  <2> QED BY <2>1, LevelIs
<1>2. ASSUME NEW l \in 1..Depth, l - 1 \in S PROVE l \in S
  <2>1. ASSUME NEW i \in Row(l), Same(l, i) PROVE Rows(J)[l][i] = Rows(K)[l][i]
    <3>1. 2 * i \in Row(l - 1) /\ 2 * i + 1 \in Row(l - 1) /\ i \in Nat
      BY RowIs, LevelIs
    <3>2. ASSUME NEW c \in {2 * i, 2 * i + 1} PROVE Same(l - 1, c)
      <4>1. ASSUME NEW k \in Key, Above(k)[l - 1] = c PROVE Above(k)[l] = i
        <5>1. c \div 2 = i
          BY <3>1, <3>2
        <5> QED BY <4>1, <5>1, KeyIsNat, AboveIs
      <4> QED BY <2>1, <4>1
    <3>3. Rows(J)[l - 1][2 * i] = Rows(K)[l - 1][2 * i] /\ Rows(J)[l - 1][2 * i + 1] = Rows(K)[l - 1][2 * i + 1]
      <4> HIDE DEF Same
      <4> QED BY <1>2, <3>1, <3>2
    <3> QED BY <3>3, RowsAre
  <2> QED BY <2>1, LevelIs
<1> HIDE DEF S
<1>3. \A l \in 0..Depth : l \in S
  BY <1>1, <1>2, LevelInduction
<1> QED BY <1>3 DEF S

(* Without any key there, it is the root of an empty tree. *)
LEMMA RowsEmpty ==
    ASSUME NEW K \in SUBSET Key, NEW l \in 0..Depth, NEW i \in Row(l), \A k \in K : Above(k)[l] # i
    PROVE  Rows(K)[l][i] = Empties[l]
<1> DEFINE S == {m \in 0..Depth : \A j \in Row(m) : Rows({})[m][j] = Empties[m]}
<1>1. 0 \in S
  BY RowsAre, RowIs, EmptiesAre, LevelIs
<1>2. ASSUME NEW m \in 1..Depth, m - 1 \in S PROVE m \in S
  <2>1. ASSUME NEW j \in Row(m) PROVE Rows({})[m][j] = Empties[m]
    <3>1. Rows({})[m - 1][2 * j] = Empties[m - 1] /\ Rows({})[m - 1][2 * j + 1] = Empties[m - 1]
      BY <1>2, RowIs
    <3> QED BY <3>1, RowsAre, EmptiesAre
  <2> QED BY <2>1, LevelIs
<1>3. \A m \in 0..Depth : m \in S
  <2> HIDE DEF S
  <2> QED BY <1>1, <1>2, LevelInduction
<1>4. Rows({})[l][i] = Empties[l]
  BY <1>3
<1>5. Rows(K)[l][i] = Rows({})[l][i]
  <2>1. {} \in SUBSET Key /\ \A k \in Key : Above(k)[l] = i => (k \in K <=> k \in {})
    OBVIOUS
  <2> QED BY <2>1, RowsAgree
<1> QED BY <1>4, <1>5

(* The tree of a set of keys: what the full tree has above them. *)
Places(K) == {<<l, Above(k)[l]>> : k \in K, l \in 0..Depth}
TreeOf(K) == [p \in Places(K) |-> Rows(K)[p[1]][p[2]]]

(* What it does not store is empty. *)
LEMMA NodesAre ==
    ASSUME NEW K \in SUBSET Key, NEW l \in 0..Depth, NEW i \in Row(l)
    PROVE  NodeAt(TreeOf(K), l, i) = Rows(K)[l][i]
<1>1. CASE <<l, i>> \in Places(K)
  <2>1. TreeOf(K)[<<l, i>>] = Rows(K)[l][i] /\ <<l, i>> \in DOMAIN TreeOf(K)
    BY <1>1 DEF TreeOf
  <2> QED BY <2>1 DEF NodeAt
<1>2. CASE <<l, i>> \notin Places(K)
  <2>1. \A k \in K : Above(k)[l] # i
    BY <1>2 DEF Places
  <2>2. <<l, i>> \notin DOMAIN TreeOf(K)
    BY <1>2 DEF TreeOf
  <2> QED BY <2>1, <2>2, RowsEmpty DEF NodeAt
<1> QED BY <1>1, <1>2

(* A node and its sibling make the one above. *)
LEMMA ParentIs ==
    ASSUME NEW l \in 1..Depth, NEW i \in Row(l - 1), NEW K
    PROVE  /\ Sibling(i) \in Row(l - 1)
           /\ Compress(i, Rows(K)[l - 1][i], Rows(K)[l - 1][Sibling(i)]) = Rows(K)[l][i \div 2]
<1> DEFINE j == i \div 2
<1>1. i \in Nat /\ j \in Row(l) /\ j \in Nat
  BY RowIs, LevelIs
<1>2. Rows(K)[l][j] = HashPair(Rows(K)[l - 1][2 * j], Rows(K)[l - 1][2 * j + 1])
  <2> HIDE DEF j
  <2> QED BY <1>1, RowsAre
<1>3. 2 * j \in Row(l - 1) /\ 2 * j + 1 \in Row(l - 1)
  <2> HIDE DEF j
  <2> QED BY <1>1, RowIs
<1>4. CASE i % 2 = 1
  <2>1. i = 2 * j + 1 /\ i - 1 = 2 * j
    BY <1>1, <1>4
  <2> HIDE DEF j
  <2> QED BY <1>2, <1>3, <1>4, <2>1 DEF Sibling, Compress, j
<1>5. CASE i % 2 # 1
  <2>1. i = 2 * j /\ i + 1 = 2 * j + 1
    <3>1. i \in Nat /\ i % 2 # 1
      BY <1>1, <1>5
    <3>2. i = 2 * (i \div 2)
      BY <3>1
    <3> QED BY <3>2
  <2> HIDE DEF j
  <2> QED BY <1>2, <1>3, <1>5, <2>1 DEF Sibling, Compress, j
<1> QED BY <1>4, <1>5

(* The places above one more key. *)
LEMMA MorePlaces ==
    ASSUME NEW K, NEW key, NEW L, L = K \cup {key}
    PROVE  Places(L) = Places(K) \cup {<<l, Above(key)[l]>> : l \in 0..Depth}
BY DEF Places

(* A key put into the tree of others makes the tree of them all. *)
LEMMA InsertIs ==
    ASSUME NEW K \in SUBSET Key, NEW key \in Key
    PROVE  Insert(TreeOf(K), key) = TreeOf(K \cup {key})
<1> DEFINE L == K \cup {key}
           at == Above(key)
           tree == TreeOf(K)
           Step(t, l) == Set(t, l, at[l], NodeAbove(t, l - 1, at[l - 1]))
           Solves(f) == f = [level \in 0..Depth |-> IF level = 0 THEN Set(tree, 0, key, PresentLeaf)
                                                    ELSE Step(f[level - 1], level)]
           New(l) == {<<m, at[m]>> : m \in 0..l}
           Part(l) == [p \in Places(K) \cup New(l) |-> IF p[1] <= l THEN Rows(L)[p[1]][p[2]] ELSE Rows(K)[p[1]][p[2]]]
           parts == [l \in 0..Depth |-> Part(l)]
           found == CHOOSE f : Solves(f)
<1> HIDE DEF found
<1>1. Insert(tree, key) = found[Depth]
  BY DEF Insert, found
<1>2. L \in SUBSET Key /\ at[0] = key /\ \A l \in 0..Depth : at[l] \in Row(l)
  BY KeyIsNat, AboveIs, AboveInRow
<1>3. \A p \in Places(K) : p = <<p[1], p[2]>> /\ p[1] \in 0..Depth /\ p[2] \in Row(p[1])
  BY AboveInRow DEF Places
<1>4. ASSUME NEW l \in 0..Depth, NEW i \in Row(l), i # at[l] PROVE Rows(L)[l][i] = Rows(K)[l][i]
  <2>1. \A k \in Key : Above(k)[l] = i => (k \in L <=> k \in K)
    BY <1>4
  <2> HIDE DEF L
  <2> QED BY <1>2, <2>1, RowsAgree
<1>5. ASSUME NEW l \in 0..Depth, NEW p \in Places(K) \cup New(l)
      PROVE  p = <<p[1], p[2]>> /\ p[1] \in 0..Depth /\ p[2] \in Row(p[1]) /\ (p \in Places(K) \/ p[1] <= l)
  <2>1. CASE p \in Places(K)
    BY <1>3, <2>1
  <2>2. CASE p \in New(l)
    <3>1. PICK m \in 0..l : p = <<m, at[m]>>
      BY <2>2
    <3>2. m \in 0..Depth
      BY DepthAssumption
    <3> QED BY <1>2, <3>1, <3>2
  <2> QED BY <2>1, <2>2
<1> DEFINE Val(l, p) == IF p[1] <= l THEN Rows(L)[p[1]][p[2]] ELSE Rows(K)[p[1]][p[2]]
<1> HIDE DEF L, at, tree, Solves
<1>6. /\ DOMAIN tree = Places(K) /\ \A p \in Places(K) : tree[p] = Rows(K)[p[1]][p[2]]
      /\ \A l \in 0..Depth : DOMAIN Part(l) = Places(K) \cup New(l) /\ \A p \in Places(K) \cup New(l) : Part(l)[p] = Val(l, p)
  <2> HIDE DEF New
  <2> QED BY DEF tree, TreeOf
<1>7. Part(0) = Set(tree, 0, key, PresentLeaf)
  <2>1. New(0) = {<<0, key>>} /\ Rows(L)[0][key] = PresentLeaf /\ 0 \in 0..Depth
    <3>1. 0..0 = {0}
      OBVIOUS
    <3> QED BY <1>2, <3>1, RowsAre, LevelIs DEF L
  <2>2. ASSUME NEW p \in Places(K) \cup {<<0, key>>}
        PROVE  Val(0, p) = IF p = <<0, key>> THEN PresentLeaf ELSE tree[p]
    <3>1. p = <<p[1], p[2]>> /\ p[1] \in 0..Depth /\ p[2] \in Row(p[1])
      <4> HIDE DEF New
      <4> QED BY <1>5, <2>1
    <3>2. CASE p = <<0, key>>
      BY <2>1, <3>2
    <3>3. CASE p # <<0, key>>
      <4>1. p \in Places(K) /\ tree[p] = Rows(K)[p[1]][p[2]]
        BY <1>6, <3>3
      <4>2. CASE p[1] = 0
        <5>1. p[2] # at[0]
          BY <1>2, <3>1, <3>3, <4>2
        <5>2. Rows(L)[0][p[2]] = Rows(K)[0][p[2]]
          BY <1>4, <2>1, <3>1, <4>2, <5>1
        <5> QED BY <3>3, <4>1, <4>2, <5>2
      <4>3. CASE p[1] # 0
        <5>1. ~(p[1] <= 0)
          BY <3>1, <4>3
        <5> QED BY <3>3, <4>1, <5>1
      <4> QED BY <4>2, <4>3
    <3> QED BY <3>2, <3>3
  <2>3. DOMAIN Part(0) = Places(K) \cup {<<0, key>>}
    BY <1>6, <2>1
  <2>4. Part(0) = [p \in Places(K) \cup {<<0, key>>} |-> Val(0, p)]
    <3> HIDE DEF Val, New
    <3> QED BY <2>1 DEF Val
  <2> HIDE DEF Val, Part
  <2>5. Part(0) = [p \in Places(K) \cup {<<0, key>>} |-> IF p = <<0, key>> THEN PresentLeaf ELSE tree[p]]
    BY <2>2, <2>4
  <2> QED BY <1>6, <2>5 DEF Set
<1>8. ASSUME NEW l \in 1..Depth PROVE Part(l) = Step(Part(l - 1), l)
  <2> DEFINE t == Part(l - 1)
  <2>1. l \in 0..Depth /\ l - 1 \in 0..Depth /\ at[l] \in Row(l) /\ at[l - 1] \in Row(l - 1) /\ at[l - 1] \div 2 = at[l]
    BY <1>2, LevelIs, KeyIsNat, AboveIs DEF at
  <2>2. DOMAIN t = Places(K) \cup New(l - 1) /\ \A p \in Places(K) \cup New(l - 1) : t[p] = Val(l - 1, p)
    <3> HIDE DEF New, Val, Part
    <3> QED BY <1>6, <2>1
  <2>3. ASSUME NEW i \in Row(l - 1) PROVE NodeAt(t, l - 1, i) = Rows(L)[l - 1][i]
    <3> DEFINE p == <<l - 1, i>>
    <3>1. CASE p \in DOMAIN t
      <4>1. Val(l - 1, p) = Rows(L)[l - 1][i]
        BY <2>1
      <4> HIDE DEF Val, t, New
      <4> QED BY <2>2, <3>1, <4>1 DEF NodeAt
    <3>2. CASE p \notin DOMAIN t
      <4>1. p \notin Places(K) /\ p \notin New(l - 1)
        BY <2>2, <3>2
      <4>2. i # at[l - 1]
        <5>1. l - 1 \in 0..(l - 1)
          BY <2>1
        <5> QED BY <4>1, <5>1
      <4>3. \A k \in K : Above(k)[l - 1] # i
        BY <2>1, <4>1 DEF Places
      <4>4. \A k \in L : Above(k)[l - 1] # i
        BY <4>2, <4>3 DEF L, at
      <4>5. Rows(L)[l - 1][i] = Empties[l - 1]
        BY <1>2, <2>1, <4>4, RowsEmpty
      <4> HIDE DEF t
      <4> QED BY <3>2, <4>5 DEF NodeAt
    <3> QED BY <3>1, <3>2
  <2>4. NodeAbove(t, l - 1, at[l - 1]) = Rows(L)[l][at[l]]
    <3> HIDE DEF t
    <3>1. Sibling(at[l - 1]) \in Row(l - 1)
      BY <2>1, ParentIs
    <3>2. /\ NodeAt(t, l - 1, at[l - 1]) = Rows(L)[l - 1][at[l - 1]]
          /\ NodeAt(t, l - 1, Sibling(at[l - 1])) = Rows(L)[l - 1][Sibling(at[l - 1])]
      BY <2>1, <2>3, <3>1
    <3> QED BY <2>1, <3>2, ParentIs DEF NodeAbove
  <2>5. New(l) = New(l - 1) \cup {<<l, at[l]>>} /\ Places(K) \cup New(l) = (Places(K) \cup New(l - 1)) \cup {<<l, at[l]>>}
    <3>1. 0..l = (0..(l - 1)) \cup {l}
      BY DepthAssumption
    <3> QED BY <3>1
  <2>6. ASSUME NEW p \in Places(K) \cup New(l)
        PROVE  Val(l, p) = IF p = <<l, at[l]>> THEN Rows(L)[l][at[l]] ELSE t[p]
    <3>1. p = <<p[1], p[2]>> /\ p[1] \in 0..Depth /\ p[2] \in Row(p[1])
      <4> HIDE DEF New
      <4> QED BY <1>5, <2>1
    <3>2. CASE p = <<l, at[l]>>
      BY <3>2, <2>1
    <3>3. CASE p # <<l, at[l]>>
      <4>1. p \in Places(K) \cup New(l - 1) /\ t[p] = Val(l - 1, p)
        BY <2>2, <2>5, <3>3
      <4>2. CASE p[1] = l
        <5>1. p[2] # at[l]
          BY <3>1, <3>3, <4>2
        <5>2. Rows(L)[l][p[2]] = Rows(K)[l][p[2]]
          BY <1>4, <2>1, <3>1, <4>2, <5>1
        <5>3. ~(l <= l - 1) /\ l <= l
          BY <2>1
        <5>4. Val(l, p) = Rows(L)[l][p[2]] /\ Val(l - 1, p) = Rows(K)[l][p[2]]
          BY <4>2, <5>3
        <5> QED BY <3>3, <4>1, <5>2, <5>4
      <4>3. CASE p[1] # l
        <5>1. (p[1] <= l) <=> (p[1] <= l - 1)
          BY <2>1, <3>1, <4>3
        <5>2. Val(l, p) = Val(l - 1, p)
          BY <5>1
        <5> QED BY <3>3, <4>1, <5>2
      <4> QED BY <4>2, <4>3
    <3> QED BY <3>2, <3>3
  <2>7. Part(l) = [p \in Places(K) \cup New(l) |-> IF p = <<l, at[l]>> THEN Rows(L)[l][at[l]] ELSE t[p]]
    <3>1. Part(l) = [p \in Places(K) \cup New(l) |-> Val(l, p)]
      OBVIOUS
    <3> HIDE DEF Val, t, New, Part
    <3> QED BY <2>6, <3>1
  <2>8. Set(t, l, at[l], Rows(L)[l][at[l]])
           = [p \in Places(K) \cup New(l) |-> IF p = <<l, at[l]>> THEN Rows(L)[l][at[l]] ELSE t[p]]
    <3> HIDE DEF t, New
    <3> QED BY <2>2, <2>5 DEF Set
  <2> HIDE DEF t, Part, New
  <2> QED BY <2>4, <2>7, <2>8 DEF t
<1> HIDE DEF Part, Step, New
<1>9. Solves(parts)
  <2>1. ASSUME NEW l \in 0..Depth PROVE parts[l] = IF l = 0 THEN Set(tree, 0, key, PresentLeaf) ELSE Step(parts[l - 1], l)
    BY <1>7, <1>8, LevelIs
  <2>2. parts = [l \in 0..Depth |-> parts[l]]
    OBVIOUS
  <2> HIDE DEF parts
  <2> QED BY <2>1, <2>2 DEF Solves
<1>10. Solves(found)
  BY <1>9 DEF found
<1>11. found[0] = Set(tree, 0, key, PresentLeaf) /\ \A l \in 1..Depth : found[l] = Step(found[l - 1], l)
  BY <1>10, LevelIs DEF Solves
<1> DEFINE S == {l \in 0..Depth : found[l] = Part(l)}
<1>12. \A l \in 0..Depth : l \in S
  <2>1. 0 \in S /\ \A l \in 1..Depth : l - 1 \in S => l \in S
    BY <1>7, <1>8, <1>11, LevelIs
  <2> HIDE DEF S
  <2> QED BY <2>1, LevelInduction
<1>13. found[Depth] = Part(Depth)
  BY <1>12, LevelIs
<1>14. Part(Depth) = TreeOf(L)
  <2>1. Places(L) = Places(K) \cup New(Depth)
    BY MorePlaces DEF L, New, at
  <2>2. ASSUME NEW p \in Places(L) PROVE Val(Depth, p) = Rows(L)[p[1]][p[2]]
    <3>1. p[1] \in 0..Depth
      BY <1>5, <2>1, LevelIs
    <3>2. p[1] <= Depth
      BY <3>1, DepthAssumption
    <3> QED BY <3>2
  <2>3. Part(Depth) = [p \in Places(L) |-> Val(Depth, p)]
    BY <2>1 DEF Part
  <2> HIDE DEF Val
  <2> QED BY <2>2, <2>3 DEF TreeOf
<1> QED BY <1>1, <1>13, <1>14 DEF L, tree

(* Keys put in one after the other, in any order and with repetitions, make the tree of their set. *)
LEMMA FromKeysIs ==
    ASSUME NEW n \in Nat, NEW keys \in [1..n -> Key]
    PROVE  FromKeys(keys) = TreeOf({keys[i] : i \in 1..n})
<1> DEFINE D == DOMAIN keys  A == {TreeOf(K) : K \in SUBSET Key}
           Solves(it) == it = [s \in SUBSET D |-> IF s = {} THEN NewTree ELSE Insert(it[s \ {Max(s)}], keys[Max(s)])]
           fold == CHOOSE it : Solves(it)
<1>1. FromKeys(keys) = fold[D]
  BY DEF FromKeys, FoldLeft, MapThenFoldSet
<1>2. D = 1..n /\ IsFiniteSet(D)
  BY FS_Interval
<1>3. NewTree \in A /\ NewTree = TreeOf({})
  <2>1. Places({}) = {}
    BY DEF Places
  <2>2. NewTree = TreeOf({})
    BY <2>1 DEF NewTree, TreeOf
  <2> QED BY <2>2
<1>4. ASSUME NEW s \in SUBSET D, s # {} PROVE Max(s) \in s /\ \A y \in s : y <= Max(s)
  <2>1. s \in SUBSET (0..n)
    BY <1>2
  <2> QED BY <1>2, <1>4, <2>1, MaxType
<1>5. ASSUME NEW i \in D, NEW a \in A PROVE Insert(a, keys[i]) \in A
  <2>1. PICK K \in SUBSET Key : a = TreeOf(K)
    OBVIOUS
  <2>2. keys[i] \in Key
    BY <1>2
  <2>3. Insert(a, keys[i]) = TreeOf(K \cup {keys[i]})
    BY <2>1, <2>2, InsertIs
  <2>4. K \cup {keys[i]} \in SUBSET Key
    BY <2>2
  <2> QED BY <2>3, <2>4
<1>6. Solves(fold)
  <2> DEFINE c == [s \in SUBSET D |-> Max(s)]
             G == [i \in D |-> [a \in A |-> Insert(a, keys[i])]]
  <2> HIDE DEF A
  <2>1. G \in [D -> [A -> A]]
    BY <1>5
  <2>2. Chooses(c, D)
    BY <1>4 DEF Chooses
  <2>3. PICK it : IsFold(it, D, A, NewTree, c, G)
    <3> HIDE DEF c, G, D, Solves, fold
    <3> QED BY <1>2, <1>3, <2>1, <2>2, FoldExists
  <2>4. ASSUME NEW s \in SUBSET D PROVE it[s] = IF s = {} THEN NewTree ELSE Insert(it[s \ {Max(s)}], keys[Max(s)])
    BY <1>4, <2>3 DEF IsFold
  <2>5. Solves(it)
    BY <2>3, <2>4 DEF IsFold
  <2> QED BY <2>5
<1>7. fold[{}] = NewTree /\ \A k \in D : fold[1..k] = Insert(fold[1..(k - 1)], keys[k])
  <2>1. \A s \in SUBSET D : fold[s] = IF s = {} THEN NewTree ELSE Insert(fold[s \ {Max(s)}], keys[Max(s)])
    <3> HIDE DEF fold
    <3> QED BY <1>6
  <2>2. ASSUME NEW k \in D PROVE 1..k \in SUBSET D /\ 1..k # {} /\ Max(1..k) = k /\ (1..k) \ {k} = 1..(k - 1)
    <3>1. k \in Nat /\ k >= 1 /\ 1..k \in SUBSET D /\ k \in 1..k /\ (1..k) \ {k} = 1..(k - 1)
      BY <1>2
    <3>2. Max(1..k) \in 1..k /\ k <= Max(1..k)
      BY <1>4, <3>1
    <3> QED BY <3>1, <3>2
  <2> HIDE DEF fold
  <2> QED BY <2>1, <2>2
<1> HIDE DEF fold
<1> DEFINE Some(k) == {keys[i] : i \in 1..k}
           wrong == {k \in 0..n : fold[1..k] # TreeOf(Some(k))}
<1>8. 0 \notin wrong
  <2>1. 1..0 = {}
    OBVIOUS
  <2> QED BY <1>3, <1>7, <2>1
<1>9. ASSUME NEW k \in D, k - 1 \notin wrong PROVE k \notin wrong
  <2>1. k - 1 \in 0..n /\ 1..k = (1..(k - 1)) \cup {k}
    BY <1>2
  <2>2. Some(k - 1) \in SUBSET Key /\ keys[k] \in Key
    BY <1>2
  <2>3. Some(k) = Some(k - 1) \cup {keys[k]}
    BY <2>1
  <2>4. fold[1..k] = Insert(TreeOf(Some(k - 1)), keys[k])
    <3> HIDE DEF Some
    <3> QED BY <1>7, <1>9, <2>1
  <2> HIDE DEF Some
  <2> QED BY <2>2, <2>3, <2>4, InsertIs
<1>10. wrong = {}
  <2> SUFFICES ASSUME wrong # {} PROVE FALSE
    OBVIOUS
  <2>1. wrong \in SUBSET Nat /\ \A k \in wrong : k \in 0..n
    OBVIOUS
  <2> HIDE DEF wrong
  <2>2. PICK k \in wrong : \A y \in wrong : k <= y
    BY <2>1, LeastElement
  <2>3. k \in D /\ ~(k <= k - 1)
    BY <1>2, <1>8, <2>1, <2>2
  <2> QED BY <1>9, <2>2, <2>3
<1>11. n \in 0..n
  OBVIOUS
<1> QED BY <1>1, <1>2, <1>10, <1>11

(* Two nodes that lead to one with the same sibling are one. *)
LEMMA CompressIs ==
    ASSUME NEW i, NEW a, NEW b, NEW s
    PROVE  Compress(i, a, s) = Compress(i, b, s) <=> a = b
BY HashIs DEF Compress

(* A claim about a key can be verified against the root exactly if it is true. *)
LEMMA VerifyIs ==
    ASSUME NEW K \in SUBSET Key, NEW key \in Key, NEW claim \in BOOLEAN
    PROVE  VerifyProof(Root(TreeOf(K)), [Prove(TreeOf(K), key) EXCEPT !.present = claim]) <=> (claim <=> key \in K)
<1> DEFINE tree == TreeOf(K)
           at == Above(key)
           proof == [Prove(tree, key) EXCEPT !.present = claim]
           leaf == IF claim THEN PresentLeaf ELSE EmptyLeaf
           sib == proof.siblings
           Solves(f) == f = [level \in 0..Depth |->
                                IF level = 0 THEN IF proof.present THEN PresentLeaf ELSE EmptyLeaf
                                ELSE Compress(Above(proof.key)[level - 1], f[level - 1], proof.siblings[level])]
           cur == CHOOSE f : Solves(f)
<1>1. proof.key = key /\ proof.present = claim /\ sib = [i \in 1..Depth |-> NodeAt(tree, i - 1, Sibling(at[i - 1]))]
  <2> HIDE DEF tree
  <2> QED BY DEF Prove
<1>2. Len(sib) = Depth
  BY <1>1, DepthAssumption
<1>3. VerifyProof(Root(tree), proof) <=> Root(tree) = cur[Depth]
  <2> HIDE DEF tree, proof
  <2> QED BY <1>1, <1>2 DEF VerifyProof
<1>4. \A l \in 0..Depth : at[l] \in Row(l)
  BY AboveInRow
<1>5. ASSUME NEW l \in 1..Depth
      PROVE  /\ sib[l] = Rows(K)[l - 1][Sibling(at[l - 1])] /\ Sibling(at[l - 1]) \in Row(l - 1)
             /\ Compress(at[l - 1], Rows(K)[l - 1][at[l - 1]], sib[l]) = Rows(K)[l][at[l]]
  <2> HIDE DEF proof, sib
  <2>1. l - 1 \in 0..Depth /\ at[l - 1] \in Row(l - 1) /\ at[l - 1] \div 2 = at[l]
    BY <1>4, LevelIs, KeyIsNat, AboveIs
  <2>2. Sibling(at[l - 1]) \in Row(l - 1)
    BY <2>1, ParentIs
  <2>3. sib[l] = Rows(K)[l - 1][Sibling(at[l - 1])]
    BY <1>1, <2>1, <2>2, NodesAre
  <2> QED BY <2>1, <2>2, <2>3, ParentIs
<1> HIDE DEF tree, at, proof, sib
<1>6. PICK H : IsHashes(H)
  BY HashesExist
<1> DEFINE A == [l \in 0..Depth |-> H[l]]
           G == [l \in 1..Depth |-> [x \in A[l - 1] |-> Compress(at[l - 1], x, sib[l])]]
<1>7. ASSUME NEW l \in 1..Depth, NEW x \in A[l - 1]
      PROVE  G[l][x] = Compress(at[l - 1], x, sib[l]) /\ G[l][x] \in A[l]
  <2>1. sib[l] \in H[l - 1] /\ A[l - 1] = H[l - 1] /\ A[l] = H[l]
    <3>1. l - 1 \in 0..Depth /\ l \in 0..Depth
      BY LevelIs
    <3>2. Rows(K)[l - 1][Sibling(at[l - 1])] \in H[l - 1]
      BY <1>5, <1>6, <3>1, RowsAre
    <3> QED BY <1>5, <3>1, <3>2
  <2>2. Compress(at[l - 1], x, sib[l]) \in H[l]
    BY <1>6, <1>7, <2>1 DEF Compress, IsHashes
  <2>3. G[l][x] = Compress(at[l - 1], x, sib[l])
    <3> HIDE DEF A
    <3> QED BY <1>7
  <2> QED BY <2>1, <2>2, <2>3
<1>8. leaf \in A[0]
  BY <1>6, LevelIs DEF IsHashes
<1> HIDE DEF leaf
<1>9. PICK f : Climb(f, A, leaf, G)
  <2>1. \A l \in 1..Depth : \A x \in A[l - 1] : G[l][x] \in A[l]
    BY <1>7
  <2> HIDE DEF A, G, Solves
  <2> QED BY <1>8, <2>1, LevelsExist DEF Climbs
<1> HIDE DEF A, G
<1>10. ASSUME NEW l \in 0..Depth PROVE f[l] = IF l = 0 THEN leaf ELSE Compress(at[l - 1], f[l - 1], sib[l])
  BY <1>7, <1>9, LevelIs DEF Climb
<1>11. f = [l \in 0..Depth |-> f[l]]
  BY <1>9 DEF Climb
<1>12. Solves(f)
  BY <1>1, <1>10, <1>11 DEF at, leaf, sib
<1>13. Solves(cur)
  <2> HIDE DEF Solves
  <2> QED BY <1>12
<1> HIDE DEF cur
<1>14. cur[0] = leaf /\ \A l \in 1..Depth : cur[l] = Compress(at[l - 1], cur[l - 1], sib[l])
  <2>1. \A l \in 0..Depth : cur[l] = IF l = 0 THEN leaf ELSE Compress(at[l - 1], cur[l - 1], sib[l])
    BY <1>1, <1>13 DEF at, leaf, sib
  <2> QED BY <2>1, LevelIs
<1> DEFINE S == {l \in 0..Depth : cur[l] = Rows(K)[l][at[l]] <=> (claim <=> key \in K)}
<1>15. 0 \in S
  <2>1. at[0] = key /\ Rows(K)[0][key] = IF key \in K THEN PresentLeaf ELSE EmptyLeaf
    BY KeyIsNat, AboveIs, RowsAre DEF at
  <2> QED BY <1>14, <2>1, HashIs, LevelIs DEF leaf
<1>16. ASSUME NEW l \in 1..Depth, l - 1 \in S PROVE l \in S
  <2>1. cur[l] = Rows(K)[l][at[l]] <=> cur[l - 1] = Rows(K)[l - 1][at[l - 1]]
    BY <1>5, <1>14, CompressIs
  <2> QED BY <1>16, <2>1, LevelIs
<1>17. \A l \in 0..Depth : l \in S
  <2> HIDE DEF S
  <2> QED BY <1>15, <1>16, LevelInduction
<1>18. Root(tree) = Rows(K)[Depth][at[Depth]]
  <2>1. at[Depth] = 0 /\ 0 \in Row(Depth)
    BY <1>4, RowIs, LevelIs
  <2> QED BY <2>1, NodesAre, LevelIs DEF Root, tree
<1>19. cur[Depth] = Rows(K)[Depth][at[Depth]] <=> (claim <=> key \in K)
  BY <1>17, LevelIs
<1> QED BY <1>3, <1>18, <1>19 DEF proof, tree

(***************************************************************************)
(* For a tree of any depth and keys in any order, with repetitions: the    *)
(* root is the full tree's, and of every key the truth can be proved and   *)
(* nothing else.                                                           *)
(***************************************************************************)
THEOREM RootsCanonical == Spec => []RootsAreCanonical
<1>1. Tagged => RootsAreCanonical
  <2> SUFFICES ASSUME Tagged, input[1] = "keys" PROVE RootsAreCanonical
    BY DEF RootsAreCanonical
  <2>1. PICK n \in 0..MaxKeys : \E keys \in [1..n -> Key] : input = <<"keys", keys>>
    BY DEF Tagged, Keys
  <2> PICK keys \in [1..n -> Key] : input = <<"keys", keys>>
    BY <2>1
  <2> DEFINE K == ToSet(keys)  tree == FromKeys(keys)
  <2>2. input[2] = keys /\ n \in Nat /\ DOMAIN keys = 1..n
    BY KeysAssumption
  <2>3. K \in SUBSET Key /\ tree = TreeOf(K)
    BY <2>2, FromKeysIs DEF ToSet
  <2> HIDE DEF K, tree
  <2>4. Root(tree) = FullTree(K)
    <3>1. Depth \in 0..Depth /\ 0 \in Row(Depth)
      BY RowIs, LevelIs
    <3>2. NodeAt(TreeOf(K), Depth, 0) = Rows(K)[Depth][0]
      BY <2>3, <3>1, NodesAre
    <3> QED BY <2>3, <3>2 DEF Root, FullTree
  <2>5. ASSUME NEW key \in Key
        PROVE  /\ VerifyProof(Root(tree), Prove(tree, key))
               /\ ~VerifyProof(Root(tree), [Prove(tree, key) EXCEPT !.present = ~@])
               /\ Prove(tree, key).present <=> key \in K
    <3>1. Holds(tree, key) <=> key \in K
      <4>1. DOMAIN tree = Places(K)
        BY <2>3 DEF TreeOf
      <4>2. <<0, key>> \in Places(K) <=> key \in K
        BY <2>3, AboveIs, KeyIsNat, LevelIs DEF Places
      <4> QED BY <4>1, <4>2 DEF Holds
    <3> DEFINE proof == Prove(tree, key)
    <3>2. proof.present <=> key \in K
      BY <3>1 DEF Prove
    <3>3. proof = [proof EXCEPT !.present = (key \in K)]
      <4>1. proof.present = Holds(tree, key) /\ Holds(tree, key) = (key \in K)
        BY <3>1 DEF Prove, Holds
      <4>2. proof = [proof EXCEPT !.present = proof.present]
        BY DEF Prove
      <4> QED BY <4>1, <4>2
    <3>4. [proof EXCEPT !.present = ~@] = [proof EXCEPT !.present = ~(key \in K)]
      BY <3>1 DEF Prove
    <3>5. ASSUME NEW claim \in BOOLEAN
          PROVE  VerifyProof(Root(tree), [proof EXCEPT !.present = claim]) <=> (claim <=> key \in K)
      BY <2>3, VerifyIs
    <3>6. VerifyProof(Root(tree), [proof EXCEPT !.present = (key \in K)])
      <4> DEFINE claim == key \in K
      <4>1. claim \in BOOLEAN /\ (claim <=> key \in K)
        OBVIOUS
      <4> HIDE DEF claim, proof
      <4>2. VerifyProof(Root(tree), [proof EXCEPT !.present = claim])
        BY <3>5, <4>1
      <4> QED BY <4>2 DEF claim
    <3>7. ~VerifyProof(Root(tree), [proof EXCEPT !.present = ~(key \in K)])
      <4> DEFINE lie == ~(key \in K)
      <4>1. lie \in BOOLEAN /\ ~(lie <=> key \in K)
        OBVIOUS
      <4> HIDE DEF lie, proof
      <4>2. ~VerifyProof(Root(tree), [proof EXCEPT !.present = lie])
        BY <3>5, <4>1
      <4> QED BY <4>2 DEF lie
    <3> HIDE DEF proof
    <3> QED BY <3>2, <3>3, <3>4, <3>6, <3>7 DEF proof
  <2> QED BY <2>2, <2>4, <2>5 DEF RootsAreCanonical, K, tree
<1> QED BY <1>1, TaggedInit, TaggedStep, PTL DEF Spec

-----------------------------------------------------------------------------
(* The admission gate. *)

(* A set in sequence has all its elements, and no others. *)
LEMMA SequenceOfSet ==
    ASSUME NEW T, IsFiniteSet(T)
    PROVE  /\ Cardinality(T) \in Nat /\ SetToSeq(T) \in [1..Cardinality(T) -> T] /\ IsInjective(SetToSeq(T))
           /\ {SetToSeq(T)[i] : i \in 1..Cardinality(T)} = T
<1> DEFINE n == Cardinality(T)  f == SetToSeq(T)  image == {f[i] : i \in 1..n}
<1>1. n \in Nat
  BY FS_CardinalityType
<1>2. f \in [1..n -> T] /\ IsInjective(f)
  <2>1. PICK m \in Nat : ExistsBijection(1..m, T)
    BY FS_NatBijection
  <2>2. m = n
    BY <2>1, FS_CountingElements
  <2>3. PICK g \in Bijection(1..n, T) : TRUE
    BY <2>1, <2>2 DEF ExistsBijection
  <2>4. g \in [1..n -> T] /\ IsInjective(g)
    BY <2>3 DEF Bijection, Injection
  <2> QED BY <2>4 DEF SetToSeq
<1> HIDE DEF f
<1>3. image = T
  <2>1. image \in SUBSET T
    BY <1>2
  <2>2. f \in Bijection(1..n, image)
    BY <1>2 DEF Bijection, Injection, Surjection
  <2>3. IsFiniteSet(1..n) /\ Cardinality(1..n) = n
    BY <1>1, FS_Interval
  <2>4. Cardinality(image) = n
    BY <2>2, <2>3, FS_Bijection DEF ExistsBijection
  <2> QED BY <2>1, <2>4, FS_Subset
<1> QED BY <1>1, <1>2, <1>3 DEF f

(* The chains of suspensions. *)
Suspensions(p) == p \in Seq(SUBSET Key)

(* The tree of a height is that of the nullifiers suspended below it, as is its root. *)
LEMMA SuspTreeIs ==
    ASSUME NEW p, Suspensions(p), NEW h \in 0..Len(p)
    PROVE  SuspKeysAt(p, h) \in SUBSET Key /\ SuspTree(p, h) = TreeOf(SuspKeysAt(p, h))
<1> DEFINE T == SuspKeysAt(p, h)
<1>1. T \in SUBSET Key
  <2>1. \A i \in 1..(h - 1) : p[i] \in SUBSET Key
    BY DEF Suspensions
  <2> QED BY <2>1 DEF SuspKeysAt
<1>2. IsFiniteSet(T)
  <2>1. IsFiniteSet(Key)
    <3>1. Width[Depth] \in Int
      BY WidthIs, LevelIs
    <3> DEFINE last == Width[Depth] - 1
    <3>2. last \in Int /\ Key = 0..last
      BY <3>1 DEF Key
    <3> HIDE DEF last, T
    <3>3. IsFiniteSet(0..last)
      BY <3>2, FS_Interval
    <3> QED BY <3>2, <3>3
  <2> HIDE DEF T
  <2> QED BY <1>1, <2>1, FS_Subset
<1> HIDE DEF T
<1>3. SetToSeq(T) \in [1..Cardinality(T) -> Key] /\ Cardinality(T) \in Nat /\ {SetToSeq(T)[i] : i \in 1..Cardinality(T)} = T
  BY <1>1, <1>2, SequenceOfSet
<1>4. FromKeys(SetToSeq(T)) = TreeOf(T)
  <2> DEFINE n == Cardinality(T)  keys == SetToSeq(T)
  <2>1. n \in Nat /\ keys \in [1..n -> Key] /\ {keys[i] : i \in 1..n} = T
    BY <1>3
  <2> HIDE DEF n, keys
  <2>2. FromKeys(keys) = TreeOf(T)
    BY <2>1, FromKeysIs
  <2> QED BY <2>2 DEF keys
<1> QED BY <1>1, <1>4 DEF SuspTree, T

(* Blocks beyond a height do not change what is suspended below it. *)
LEMMA SuspendedBelow ==
    ASSUME NEW p, Suspensions(p), NEW h \in 0..Len(p)
    PROVE  /\ Suspensions(SubSeq(p, 1, h)) /\ Len(SubSeq(p, 1, h)) = h
           /\ SuspKeysAt(SubSeq(p, 1, h), h) = SuspKeysAt(p, h)
<1> DEFINE N == SUBSET Key  q == SubSeq(p, 1, h)
<1>1. p \in Seq(N) /\ h \in Nat
  BY DEF Suspensions
<1> HIDE DEF N
<1>2. q \in Seq(N) /\ Len(q) = h /\ \A i \in 1..h : q[i] = p[i]
  BY <1>1
<1>3. \A i \in 1..(h - 1) : q[i] = p[i]
  BY <1>1, <1>2
<1> HIDE DEF q
<1>4. SuspKeysAt(q, h) = SuspKeysAt(p, h)
  BY <1>3 DEF SuspKeysAt
<1> QED BY <1>2, <1>4 DEF Suspensions, N, q

(* A proof can be had exactly by who is not suspended. *)
LEMMA ProvableIs ==
    ASSUME NEW p, Suspensions(p), NEW h \in 0..Len(p), NEW key \in Key
    PROVE  Provable(p, h, key) <=> key \notin SuspKeysAt(p, h)
<1> DEFINE T == SuspKeysAt(p, h)
<1>1. T \in SUBSET Key /\ SuspTree(p, h) = TreeOf(T)
  BY SuspTreeIs
<1> HIDE DEF T
<1>2. VerifyProof(Root(TreeOf(T)), [Prove(TreeOf(T), key) EXCEPT !.present = FALSE]) <=> (FALSE <=> key \in T)
  BY <1>1, VerifyIs
<1> QED BY <1>1, <1>2 DEF Provable, SuspRootAt, T

(* The suspensions of the inputs. *)
SuspensionsOK == input[1] = "suspensions" => Suspensions(path)

(* A block keeps them so. *)
LEMMA SuspensionsStep == SuspensionsOK /\ [Next]_vars => SuspensionsOK'
<1> SUFFICES ASSUME SuspensionsOK, [Next]_vars, input'[1] = "suspensions" PROVE Suspensions(path')
  BY DEF SuspensionsOK
<1>1. input' = input /\ Suspensions(path)
  BY DEF SuspensionsOK, Next, vars, AppendBlock, AppendSuspensions, Arrive
<1>2. ASSUME NEW keys \in SUBSET Nullifiers, AppendSuspensions(keys) PROVE Suspensions(path')
  <2> DEFINE N == SUBSET Key
  <2>1. path \in Seq(N) /\ keys \in N /\ path' = Append(path, keys)
    BY <1>1, <1>2, KeysAssumption DEF AppendSuspensions, Suspensions
  <2> HIDE DEF N
  <2> QED BY <2>1 DEF Suspensions, N
<1> QED BY <1>1, <1>2 DEF Next, vars, AppendBlock, Arrive

(***************************************************************************)
(* Whatever is suspended, in any order, and however long the chain: who is *)
(* suspended for longer than the window is not admitted with any package   *)
(* it ever had, a package is good for its peer and its block only, and who *)
(* never was suspended is admitted with every recent one.                  *)
(***************************************************************************)
THEOREM RejoinsClean == Spec => []RejoinsAreClean
<1>1. Init => SuspensionsOK
  BY DEF Init, SuspensionsOK, Suspensions
<1>2. SuspensionsOK => RejoinsAreClean
  <2> SUFFICES ASSUME SuspensionsOK, input[1] = "suspensions", NEW h \in 0..Len(path), NEW key \in Key
               PROVE  LET packages == Packages(SubSeq(path, 1, h), key, "joiner")
                          admitted(package, peer) == Admissible(path, package, peer)
                      IN /\ key \notin Suspended /\ h >= Len(path) - Window =>
                               \E package \in packages : admitted(package, "joiner")
                         /\ \A package \in packages :
                               /\ key \in SuspKeysAt(path, Len(path) - Window) => ~admitted(package, "joiner")
                               /\ ~admitted(package, "other")
                               /\ \A ref \in (0..(Len(path) + 1)) \ {h} :
                                     ~admitted([package EXCEPT !.ref = ref], "joiner")
    BY DEF RejoinsAreClean
  <2> DEFINE q == SubSeq(path, 1, h)
             mine == [ref |-> h, inputs |-> PublicInputs(q, h, "joiner")]
  <2>1. Suspensions(path) /\ Len(path) \in Nat /\ h \in Nat /\ Window \in Nat
    BY WindowAssumption DEF SuspensionsOK, Suspensions
  <2>2. Suspensions(q) /\ Len(q) = h /\ SuspKeysAt(q, h) = SuspKeysAt(path, h)
    BY <2>1, SuspendedBelow
  <2>3. PublicInputs(q, h, "joiner") = PublicInputs(path, h, "joiner")
    <3>1. SuspTree(q, h) = SuspTree(path, h)
      BY <2>2 DEF SuspTree
    <3> QED BY <3>1 DEF PublicInputs, SuspRootAt
  <2>4. Provable(q, h, key) <=> key \notin SuspKeysAt(path, h)
    <3>1. h \in 0..Len(q)
      BY <2>1, <2>2
    <3> QED BY <2>2, <3>1, ProvableIs
  <2> HIDE DEF q
  <2>5. Packages(q, key, "joiner") = {x \in {mine} : Provable(q, h, key)}
    BY <2>2 DEF Packages
  <2>6. ASSUME key \notin Suspended, h >= Len(path) - Window
        PROVE  mine \in Packages(q, key, "joiner") /\ Admissible(path, mine, "joiner")
    <3>1. \A i \in 1..(h - 1) : i \in 1..Len(path) /\ path[i] \in ToSet(path)
      BY <2>1 DEF ToSet, Suspensions
    <3>2. key \notin SuspKeysAt(path, h)
      BY <2>6, <3>1 DEF SuspKeysAt, Suspended
    <3>3. WithinWindow(h, Len(path))
      BY <2>1, <2>6 DEF WithinWindow
    <3> QED BY <2>3, <2>4, <2>5, <3>2, <3>3 DEF Admissible
  <2>7. ASSUME NEW package \in Packages(q, key, "joiner")
        PROVE  /\ key \in SuspKeysAt(path, Len(path) - Window) => ~Admissible(path, package, "joiner")
               /\ ~Admissible(path, package, "other")
               /\ \A ref \in (0..(Len(path) + 1)) \ {h} : ~Admissible(path, [package EXCEPT !.ref = ref], "joiner")
    <3>1. package = mine /\ key \notin SuspKeysAt(path, h)
      BY <2>4, <2>5, <2>7
    <3>2. ASSUME key \in SuspKeysAt(path, Len(path) - Window), Admissible(path, mine, "joiner") PROVE FALSE
      <4>1. Len(path) - Window <= h
        BY <2>1, <3>2 DEF Admissible, WithinWindow
      <4>2. \A i \in 1..((Len(path) - Window) - 1) : i \in 1..(h - 1)
        BY <2>1, <4>1
      <4> QED BY <3>1, <3>2, <4>2 DEF SuspKeysAt
    <3>3. ~Admissible(path, mine, "other")
      BY <2>1 DEF Admissible, PublicInputs
    <3>4. ASSUME NEW ref \in (0..(Len(path) + 1)) \ {h} PROVE ~Admissible(path, [mine EXCEPT !.ref = ref], "joiner")
      BY <2>1 DEF Admissible, PublicInputs
    <3> QED BY <3>1, <3>2, <3>3, <3>4
  <2> QED BY <2>6, <2>7 DEF q
<1> QED BY <1>1, <1>2, SuspensionsStep, PTL DEF Spec

-----------------------------------------------------------------------------
(* Peers by interest. *)

(* Two points that were raised to both secrets are the same exactly if they were. *)
LEMMA PointsMeet ==
    ASSUME NEW x \in PsiSecret, NEW y \in PsiSecret, NEW a \in PsiSecret, NEW b \in PsiSecret
    PROVE  (((x * a) % PsiOrder) * b) % PsiOrder = (((y * b) % PsiOrder) * a) % PsiOrder <=> x = y
<1> DEFINE p == PsiOrder
<1>1. Prime(p) /\ p \in Nat /\ p > 1 /\ x \in Int /\ y \in Int /\ a \in Int /\ b \in Int
  BY PsiAssumption DEF PsiSecret, Prime
<1>2. \A z \in PsiSecret : z \in 0..(p - 1) /\ z # 0
  BY PsiAssumption DEF PsiSecret
<1> HIDE DEF p
<1>3. ASSUME NEW z \in PsiSecret, NEW c \in PsiSecret, NEW d \in PsiSecret
      PROVE  \E k \in Int : (z * c) * d = k * p + ((((z * c) % p) * d) % p)
  <2>1. z \in Int /\ c \in Int /\ d \in Int /\ z * c \in Int
    BY <1>1, <1>2
  <2> DEFINE u == (z * c) % p
  <2>2. u \in 0..(p - 1)
    BY <1>1, <2>1, RemainderIs
  <2>3. PICK i \in Int : z * c = i * p + u
    BY <1>1, <2>1, RemainderIs
  <2>4. u \in Int
    BY <1>1, <2>2
  <2> HIDE DEF u
  <2> DEFINE v == (u * d) % p
  <2>5. u * d \in Int
    BY <2>1, <2>4
  <2>6. PICK j \in Int : u * d = j * p + v
    BY <1>1, <2>5, RemainderIs
  <2>7. v \in 0..(p - 1)
    BY <1>1, <2>5, RemainderIs
  <2>8. v \in Int
    BY <1>1, <2>7
  <2> HIDE DEF v
  <2>9. (z * c) * d = (i * d + j) * p + v
    <3>1. (z * c) * d = (i * p + u) * d /\ (i * p + u) * d = (i * d) * p + u * d
      BY <1>1, <2>1, <2>3, <2>4
    <3>2. (i * d) * p + (j * p + v) = (i * d + j) * p + v
      BY <1>1, <2>1, <2>8
    <3> QED BY <2>6, <3>1, <3>2
  <2>10. i * d + j \in Int
    BY <2>1
  <2> QED BY <2>9, <2>10 DEF u, v
<1> DEFINE s == (((x * a) % p) * b) % p  t == (((y * b) % p) * a) % p
<1>4. PICK k \in Int : (x * a) * b = k * p + s
  BY <1>3
<1>5. PICK m \in Int : (y * b) * a = m * p + t
  BY <1>3
<1>6. s \in 0..(p - 1) /\ t \in 0..(p - 1)
  <2>1. x * a \in Int /\ y * b \in Int
    BY <1>1
  <2>2. (x * a) % p \in 0..(p - 1) /\ (y * b) % p \in 0..(p - 1)
    BY <1>1, <2>1, RemainderIs
  <2> DEFINE u == (x * a) % p  v == (y * b) % p
  <2>3. u \in Int /\ v \in Int
    BY <1>1, <2>2
  <2> HIDE DEF u, v
  <2>4. u * b \in Int /\ v * a \in Int
    BY <1>1, <2>3
  <2>5. (u * b) % p \in 0..(p - 1) /\ (v * a) % p \in 0..(p - 1)
    BY <1>1, <2>4, RemainderIs
  <2> QED BY <2>5 DEF u, v
<1> HIDE DEF s, t
<1>7. ASSUME x = y PROVE s = t
  <2>1. (y * b) * a = (x * a) * b
    BY <1>1, <1>7
  <2>2. s = (m - k) * p + t
    <3>1. s \in Int /\ t \in Int /\ k * p + s = m * p + t
      BY <1>1, <1>4, <1>5, <1>6, <2>1
    <3> QED BY <1>1, <3>1
  <2>3. m - k \in Int
    OBVIOUS
  <2> QED BY <1>1, <1>6, <2>2, <2>3, RemainderUnique
<1>8. ASSUME s = t PROVE x = y
  <2>1. (x - y) * (a * b) = (k - m) * p
    <3>1. s \in Int /\ (x * a) * b - (y * b) * a = (k * p + s) - (m * p + s)
      BY <1>1, <1>4, <1>5, <1>6, <1>8
    <3>2. (x - y) * (a * b) = (x * a) * b - (y * b) * a
      BY <1>1
    <3>3. (k * p + s) - (m * p + s) = (k - m) * p
      BY <1>1, <3>1
    <3> QED BY <3>1, <3>2, <3>3
  <2>2. ASSUME NEW z \in PsiSecret PROVE ~Divides(p, z)
    <3> SUFFICES ASSUME NEW i \in Int, z = i * p PROVE FALSE
      BY DEF Divides
    <3>1. z = i * p + 0 /\ 0 \in 0..(p - 1) /\ z \in 0..(p - 1)
      BY <1>1, <1>2, <2>2
    <3>2. z = 0
      BY <1>1, <3>1, RemainderUnique
    <3> QED BY <1>2, <3>2
  <2>3. ~Divides(p, a * b)
    BY <1>1, <2>2, PrimeDivides
  <2> DEFINE d == x - y  c == a * b
  <2>4. d \in Int /\ c \in Int /\ k - m \in Int
    BY <1>1
  <2>5. PICK i \in Int : d = i * p
    <3>1. Divides(p, d * c) /\ ~Divides(p, c)
      BY <2>1, <2>3, <2>4 DEF Divides
    <3> HIDE DEF d, c
    <3>2. Divides(p, d)
      BY <1>1, <2>4, <3>1, PrimeDivides
    <3> QED BY <3>2 DEF Divides
  <2>6. x = i * p + y
    BY <1>1, <2>5
  <2>7. x \in 0..(p - 1) /\ y \in 0..(p - 1)
    BY <1>2
  <2> QED BY <1>1, <2>6, <2>7, RemainderUnique
<1> QED BY <1>7, <1>8 DEF s, t, p

(* The items that somebody likes. *)
Liked(prefs) == {i \in DOMAIN prefs : prefs[i] > 0}

(* The items of a vector of preferences, in sequence. *)
LEMMA ItemsAre ==
    ASSUME NEW prefs \in Preferences
    PROVE  /\ IsFiniteSet(Liked(prefs)) /\ Liked(prefs) \in SUBSET DOMAIN HashToPoint
           /\ \E n \in Nat : /\ PsiItems(prefs) \in [1..n -> Liked(prefs)] /\ IsInjective(PsiItems(prefs))
                             /\ {PsiItems(prefs)[k] : k \in 1..n} = Liked(prefs)
<1> DEFINE D == DOMAIN HashToPoint
<1>1. D = DOMAIN prefs
  BY DEF Preferences
<1>2. IsFiniteSet(D)
  <2> DEFINE f == [i \in D |-> HashToPoint[i]]
             last == PsiOrder - 1
  <2>1. last \in Int
    BY PsiAssumption
  <2>2. f \in Injection(D, 1..last)
    BY PsiAssumption DEF Injection, IsInjective
  <2> HIDE DEF f, last
  <2>3. IsFiniteSet(1..last)
    BY <2>1, FS_Interval
  <2> QED BY <2>2, <2>3, FS_Injection
<1>3. Liked(prefs) \in SUBSET D
  BY <1>1 DEF Liked
<1> HIDE DEF D
<1>4. IsFiniteSet(Liked(prefs))
  BY <1>2, <1>3, FS_Subset
<1>5. PsiItems(prefs) = SetToSeq(Liked(prefs))
  BY DEF PsiItems, Liked
<1> QED BY <1>3, <1>4, <1>5, SequenceOfSet DEF D

(* Who likes something has items to offer. *)
LEMMA SomeItems ==
    ASSUME NEW prefs \in Preferences, Liked(prefs) # {}
    PROVE  Offers(prefs)
<1>1. PICK n \in Nat : PsiItems(prefs) \in [1..n -> Liked(prefs)] /\ {PsiItems(prefs)[k] : k \in 1..n} = Liked(prefs)
  BY ItemsAre
<1>2. DOMAIN PsiItems(prefs) # {}
  BY <1>1
<1> QED BY <1>2 DEF Offers

(* The overlap that one of two nodes finds is the number of items they both like. *)
LEMMA OverlapIs ==
    ASSUME NEW p \in Preferences, NEW r \in Preferences, NEW a \in PsiSecret, NEW b \in PsiSecret
    PROVE  IsInterestPeer(a, Respond(r, b, Offer(p, a)))
              <=> Cardinality(Liked(p) \cap Liked(r)) >= PsiThreshold
<1> DEFINE H == HashToPoint  P == PsiOrder
           ps == PsiItems(p)  rs == PsiItems(r)
           common == Liked(p) \cap Liked(r)
           w == Respond(r, b, Offer(p, a)).w
           z == Reblind(Respond(r, b, Offer(p, a)).v, a)
           found == {k \in DOMAIN z : z[k] \in ToSet(w)}
<1>1. PICK m \in Nat : ps \in [1..m -> Liked(p)] /\ {ps[k] : k \in 1..m} = Liked(p)
  BY ItemsAre
<1>2. PICK n \in Nat : rs \in [1..n -> Liked(r)] /\ IsInjective(rs) /\ {rs[k] : k \in 1..n} = Liked(r)
  BY ItemsAre
<1>3. \A i \in Liked(p) \cup Liked(r) : H[i] \in PsiSecret /\ i \in DOMAIN H
  BY ItemsAre, PsiAssumption DEF PsiSecret
<1>4. IsInterestPeer(a, Respond(r, b, Offer(p, a))) <=> Cardinality(found) >= PsiThreshold
  BY DEF IsInterestPeer, IntersectionSize
<1>5. /\ DOMAIN w = 1..m /\ \A k \in 1..m : w[k] = (((H[ps[k]] * a) % P) * b) % P
      /\ DOMAIN z = 1..n /\ \A k \in 1..n : z[k] = (((H[rs[k]] * b) % P) * a) % P
  BY <1>1, <1>2 DEF Respond, Offer, Blind, Reblind
<1> HIDE DEF ps, rs, w, z
<1>6. ASSUME NEW k \in 1..n PROVE z[k] \in ToSet(w) <=> rs[k] \in Liked(p)
  <2>1. z[k] \in ToSet(w) <=> \E j \in 1..m : w[j] = z[k]
    BY <1>5 DEF ToSet
  <2>2. ASSUME NEW j \in 1..m PROVE w[j] = z[k] <=> ps[j] = rs[k]
    <3>1. ps[j] \in Liked(p) /\ rs[k] \in Liked(r)
      BY <1>1, <1>2
    <3>2. H[ps[j]] \in PsiSecret /\ H[rs[k]] \in PsiSecret
      BY <1>3, <3>1
    <3>3. w[j] = z[k] <=> H[ps[j]] = H[rs[k]]
      BY <1>5, <3>2, PointsMeet
    <3>4. H[ps[j]] = H[rs[k]] <=> ps[j] = rs[k]
      BY <1>3, <3>1, PsiAssumption
    <3> QED BY <3>3, <3>4
  <2>3. rs[k] \in Liked(p) <=> \E j \in 1..m : ps[j] = rs[k]
    BY <1>1
  <2> QED BY <2>1, <2>2, <2>3
<1>7. found = {k \in 1..n : rs[k] \in Liked(p)}
  BY <1>5, <1>6
<1> HIDE DEF found
<1>8. Cardinality(found) = Cardinality(common)
  <2> DEFINE f == [k \in found |-> rs[k]]
  <2>1. f \in [found -> common]
    BY <1>2, <1>7
  <2>2. IsInjective(f)
    BY <1>2, <1>7 DEF IsInjective
  <2>3. \A i \in common : \E k \in found : f[k] = i
    BY <1>2, <1>7
  <2>4. f \in Bijection(found, common)
    <3> HIDE DEF f
    <3> QED BY <2>1, <2>2, <2>3 DEF Bijection, Injection, Surjection
  <2>5. IsFiniteSet(found)
    <3>1. IsFiniteSet(1..n)
      BY FS_Interval
    <3>2. found \in SUBSET (1..n)
      BY <1>7
    <3> QED BY <3>1, <3>2, FS_Subset
  <2> QED BY <2>4, <2>5, FS_Bijection DEF ExistsBijection
<1> QED BY <1>4, <1>8

(***************************************************************************)
(* For any items, secrets and threshold, two validators find each other    *)
(* exactly if they like as many items in common.                           *)
(***************************************************************************)
THEOREM InterestMutual == Spec => []InterestIsMutual
<1>1. Tagged => InterestIsMutual
  <2> SUFFICES ASSUME Tagged, input[1] = "interest" PROVE InterestIsMutual
    BY DEF InterestIsMutual
  <2>1. input \in Interest
    BY DEF Tagged
  <2>2. PICK p \in Preferences, r \in Preferences, a \in PsiSecret, b \in PsiSecret :
           input = <<"interest", p, r, a, b>>
    BY <2>1 DEF Interest
  <2>3. input[2] = p /\ input[3] = r /\ input[4] = a /\ input[5] = b
    BY <2>2
  <2> DEFINE common == {i \in DOMAIN p : p[i] > 0 /\ r[i] > 0}
  <2>4. common = Liked(p) \cap Liked(r) /\ common = Liked(r) \cap Liked(p)
    BY DEF Liked, Preferences
  <2>5. IsInterestPeer(a, Respond(r, b, Offer(p, a))) <=> Cardinality(common) >= PsiThreshold
    BY <2>4, OverlapIs
  <2>6. IsInterestPeer(b, Respond(p, a, Offer(r, b))) <=> Cardinality(common) >= PsiThreshold
    BY <2>4, OverlapIs
  <2>7. Cardinality(common) >= PsiThreshold => Offers(p) /\ Offers(r)
    <3> SUFFICES ASSUME Cardinality(common) >= PsiThreshold PROVE Offers(p) /\ Offers(r)
      OBVIOUS
    <3>1. common # {}
      <4> HIDE DEF common
      <4>1. Cardinality({}) = 0
        BY FS_EmptySet
      <4>2. PsiThreshold \in Nat /\ PsiThreshold > 0
        BY PsiAssumption
      <4> QED BY <4>1, <4>2
    <3>2. Liked(p) # {} /\ Liked(r) # {}
      BY <2>4, <3>1
    <3> QED BY <3>2, SomeItems
  <2> QED BY <2>3, <2>5, <2>6, <2>7 DEF InterestIsMutual
<1> QED BY <1>1, TaggedInit, TaggedStep, PTL DEF Spec

-----------------------------------------------------------------------------
(* The packets of the mixnet. *)

(* Induction up to a number. *)
LEMMA UpInduction ==
    ASSUME NEW n \in Nat, NEW S, 0 \in S, \A i \in 1..n : i - 1 \in S => i \in S
    PROVE  \A i \in 0..n : i \in S
<1> DEFINE bad == {i \in 0..n : i \notin S}
<1> SUFFICES ASSUME bad # {} PROVE FALSE
  OBVIOUS
<1>1. bad \in SUBSET Nat
  OBVIOUS
<1>2. PICK i \in bad : \A y \in bad : i <= y
  <2> HIDE DEF bad
  <2> QED BY <1>1, LeastElement
<1>3. i \in 1..n /\ i - 1 \in 0..n /\ ~(i <= i - 1)
  BY <1>2
<1> QED BY <1>2, <1>3

(* The i-th step of each computation, most of them along a path; its data are in the job. *)
Turn(job, i, x) ==
    IF job[1] = "alpha" THEN Blinded(job[2][i], x)
    ELSE IF job[1] = "filler" THEN Lengthen(x, job[2][i])
    ELSE IF job[1] = "beta" THEN WrapBeta(job[2], job[3], job[4], Len(job[3]) - i, x)
    ELSE IF job[1] = "layers" THEN LionessEncrypt(job[2][Len(job[2]) + 1 - i], x)
    ELSE IF job[1] = "peel" THEN LionessDecrypt(job[2][i], x)
    ELSE IF job[1] = "weight" THEN 2 * x
    ELSE IF job[1] = "value" THEN PointAdd(x, PointMul(job[2][i], Weight[i - 1]))
    ELSE Onward(job[2], job[3], job[3] + i - 1, x)

Turns(f, job, base, n) == f = [i \in 0..n |-> IF i = 0 THEN base ELSE Turn(job, i, f[i - 1])]

(* Each of them can be done. *)
LEMMA TurnsExist == ASSUME NEW job, NEW base, NEW n \in Nat PROVE \E f : Turns(f, job, base, n)
<1> DEFINE S == {m \in 0..n : \E f : Turns(f, job, base, m)}
<1> USE DEF Turns
<1>1. 0 \in S
  <2> DEFINE f == [i \in 0..0 |-> base]
  <2>1. f = [i \in 0..0 |-> IF i = 0 THEN base ELSE Turn(job, i, f[i - 1])]
    OBVIOUS
  <2>2. Turns(f, job, base, 0)
    BY <2>1
  <2> HIDE DEF f, Turns
  <2> QED BY <2>2
<1>2. ASSUME NEW m \in 1..n, m - 1 \in S PROVE m \in S
  <2>1. PICK f : Turns(f, job, base, m - 1)
    BY <1>2
  <2> DEFINE g == [i \in 0..m |-> IF i = m THEN Turn(job, m, f[m - 1]) ELSE f[i]]
  <2>2. \A i \in 0..m : i = m \/ i \in 0..(m - 1)
    OBVIOUS
  <2>3. g[m] = Turn(job, m, f[m - 1]) /\ m - 1 \in 0..(m - 1) /\ m # 0 /\ \A i \in 0..(m - 1) : g[i] = f[i]
    OBVIOUS
  <2>4. g = [i \in 0..m |-> g[i]]
    OBVIOUS
  <2> HIDE DEF g
  <2>5. ASSUME NEW i \in 0..m PROVE g[i] = IF i = 0 THEN base ELSE Turn(job, i, g[i - 1])
    <3>1. CASE i = m
      BY <2>3, <3>1
    <3>2. CASE i \in 0..(m - 1)
      <4>1. f[i] = IF i = 0 THEN base ELSE Turn(job, i, f[i - 1])
        BY <2>1, <3>2
      <4>2. i # 0 => i - 1 \in 0..(m - 1)
        BY <3>2
      <4> QED BY <2>3, <3>2, <4>1, <4>2
    <3> QED BY <2>2, <3>1, <3>2
  <2>6. Turns(g, job, base, m)
    BY <2>4, <2>5
  <2> QED BY <2>6
<1>3. n \in S
  <2> HIDE DEF S
  <2> QED BY <1>1, <1>2, UpInduction
<1> QED BY <1>3

(* Step by step. *)
LEMMA TurnIs ==
    ASSUME NEW f, NEW job, NEW base, NEW n \in Nat, Turns(f, job, base, n)
    PROVE  f = [i \in 0..n |-> f[i]] /\ f[0] = base /\ \A i \in 1..n : f[i] = Turn(job, i, f[i - 1])
<1>1. \A i \in 0..n : f[i] = IF i = 0 THEN base ELSE Turn(job, i, f[i - 1])
  BY DEF Turns
<1>2. f = [i \in 0..n |-> f[i]]
  BY DEF Turns
<1>3. 0 \in 0..n /\ \A i \in 1..n : i \in 0..n /\ i # 0
  OBVIOUS
<1> QED BY <1>1, <1>2, <1>3

(* Scalars and elements of the group but the identity. *)
Unit == 1..(Q - 1)

(* The product of two of them is one. *)
LEMMA ScaleIsUnit == ASSUME NEW a \in Unit, NEW b \in Unit PROVE Scale(a, b) \in Unit
<1>1. Prime(Q) /\ Q \in Nat /\ Q > 1 /\ a \in Int /\ b \in Int
  BY MixnetAssumption DEF Prime, Unit
<1>2. a \in 0..(Q - 1) /\ b \in 0..(Q - 1) /\ a # 0 /\ b # 0
  BY <1>1 DEF Unit
<1>3. (a * b) % Q \in 0..(Q - 1) /\ \E k \in Int : a * b = k * Q + ((a * b) % Q)
  <2>1. a * b \in Int
    BY <1>1
  <2> QED BY <1>1, <2>1, RemainderIs
<1>4. ASSUME (a * b) % Q = 0 PROVE FALSE
  <2>1. PICK k \in Int : a * b = k * Q + 0
    BY <1>3, <1>4
  <2>2. a * b = k * Q
    BY <1>1, <2>1
  <2>3. Divides(Q, a) \/ Divides(Q, b)
    BY <1>1, <2>2, PrimeDivides DEF Divides
  <2>4. ASSUME NEW c \in 0..(Q - 1), Divides(Q, c) PROVE c = 0
    <3>1. PICK i \in Int : c = i * Q
      BY <2>4 DEF Divides
    <3>2. c = i * Q + 0 /\ 0 \in 0..(Q - 1)
      BY <1>1, <3>1
    <3> QED BY <1>1, <3>2, RemainderUnique
  <2> QED BY <1>2, <2>3, <2>4
<1>5. ASSUME NEW z \in 0..(Q - 1), z # 0 PROVE z \in 1..(Q - 1)
  BY <1>1, <1>5
<1> QED BY <1>3, <1>4, <1>5 DEF Scale, Unit

(* Whoever has another key has another secret. *)
LEMMA SecretsDiffer ==
    ASSUME NEW m \in Mix, NEW n \in Mix, NEW a \in Unit, Secret(m, a) = Secret(n, a)
    PROVE  m = n
<1> DEFINE x == MixKey[m]  y == MixKey[n]
<1>1. Prime(Q) /\ Q \in Nat /\ Q > 1 /\ x \in Unit /\ y \in Unit
  BY MixnetAssumption DEF Prime, Unit
<1>2. (x = y => m = n) /\ (x * a) % Q = (y * a) % Q
  BY MixnetAssumption DEF Secret, Scale
<1> HIDE DEF x, y
<1>3. x \in Int /\ y \in Int /\ a \in Int /\ x \in 0..(Q - 1) /\ y \in 0..(Q - 1) /\ a \in 0..(Q - 1) /\ a # 0
  BY <1>1 DEF Unit
<1> DEFINE r == (x * a) % Q
<1>4. x * a \in Int /\ y * a \in Int
  BY <1>3
<1>5. r \in 0..(Q - 1) /\ (\E k \in Int : x * a = k * Q + r) /\ (\E k \in Int : y * a = k * Q + r)
  BY <1>1, <1>2, <1>4, RemainderIs
<1> HIDE DEF r
<1>6. PICK k \in Int : x * a = k * Q + r
  BY <1>5
<1>7. PICK j \in Int : y * a = j * Q + r
  BY <1>5
<1> DEFINE d == x - y
<1>8. d \in Int /\ d * a = (k - j) * Q /\ k - j \in Int
  <2>1. d * a = x * a - y * a /\ (k * Q + r) - (j * Q + r) = (k - j) * Q
    BY <1>1, <1>3, <1>5
  <2> QED BY <1>3, <1>6, <1>7, <2>1
<1>9. Divides(Q, d * a)
  BY <1>8 DEF Divides
<1> HIDE DEF d
<1>10. ~Divides(Q, a)
  <2> SUFFICES ASSUME NEW i \in Int, a = i * Q PROVE FALSE
    BY DEF Divides
  <2>1. a = i * Q + 0 /\ 0 \in 0..(Q - 1)
    BY <1>1
  <2> QED BY <1>1, <1>3, <2>1, RemainderUnique
<1>11. PICK i \in Int : d = i * Q
  BY <1>1, <1>3, <1>8, <1>9, <1>10, PrimeDivides DEF Divides
<1>12. x = i * Q + y
  BY <1>1, <1>3, <1>11 DEF d
<1>13. x = y
  BY <1>1, <1>3, <1>12, RemainderUnique
<1> QED BY <1>2, <1>13

(* A block of a payload has two halves. *)
IsBlock(b) == b = [l |-> b.l, r |-> b.r]

(* What is added twice is gone. *)
LEMMA XorTwice == ASSUME NEW a, NEW b PROVE Xor(Xor(a, b), b) = a
BY DEF Xor, SymDiff

(* Each round is its own inverse. *)
LEMMA RoundsInvert ==
    ASSUME NEW s, NEW b, IsBlock(b)
    PROVE  /\ IsBlock(Encrypt1(s, b)) /\ Encrypt1(s, Encrypt1(s, b)) = b
           /\ IsBlock(Encrypt2(s, b)) /\ Encrypt2(s, Encrypt2(s, b)) = b
           /\ IsBlock(Encrypt3(s, b)) /\ Encrypt3(s, Encrypt3(s, b)) = b
           /\ IsBlock(Encrypt4(s, b)) /\ Encrypt4(s, Encrypt4(s, b)) = b
<1> DEFINE x == b.l  y == b.r
           st(i) == Stream(LionKey(s, i), x)
           ha(i) == Hash(LionKey(s, i), y)
<1>1. b = [l |-> x, r |-> y]
  BY DEF IsBlock
<1>2. /\ Encrypt1(s, b) = [l |-> x, r |-> Xor(y, st(1))] /\ Encrypt3(s, b) = [l |-> x, r |-> Xor(y, st(3))]
      /\ Encrypt2(s, b) = [l |-> Xor(x, ha(2)), r |-> y] /\ Encrypt4(s, b) = [l |-> Xor(x, ha(4)), r |-> y]
  BY <1>1 DEF Encrypt1, Encrypt2, Encrypt3, Encrypt4
<1>3. /\ Encrypt1(s, [l |-> x, r |-> Xor(y, st(1))]) = [l |-> x, r |-> Xor(Xor(y, st(1)), st(1))]
      /\ Encrypt3(s, [l |-> x, r |-> Xor(y, st(3))]) = [l |-> x, r |-> Xor(Xor(y, st(3)), st(3))]
      /\ Encrypt2(s, [l |-> Xor(x, ha(2)), r |-> y]) = [l |-> Xor(Xor(x, ha(2)), ha(2)), r |-> y]
      /\ Encrypt4(s, [l |-> Xor(x, ha(4)), r |-> y]) = [l |-> Xor(Xor(x, ha(4)), ha(4)), r |-> y]
  BY DEF Encrypt1, Encrypt2, Encrypt3, Encrypt4
<1>4. ASSUME NEW u, NEW v PROVE IsBlock([l |-> u, r |-> v])
  BY DEF IsBlock
<1> HIDE DEF st, ha, x, y
<1> QED BY <1>1, <1>2, <1>3, <1>4, XorTwice

(* So is a layer. *)
LEMMA LayerInverts ==
    ASSUME NEW s, NEW b, IsBlock(b)
    PROVE  /\ IsBlock(LionessEncrypt(s, b)) /\ LionessDecrypt(s, LionessEncrypt(s, b)) = b
           /\ IsBlock(LionessDecrypt(s, b)) /\ LionessEncrypt(s, LionessDecrypt(s, b)) = b
<1>1. IsBlock(LionessEncrypt(s, b)) /\ LionessDecrypt(s, LionessEncrypt(s, b)) = b
  BY RoundsInvert DEF LionessEncrypt, LionessDecrypt
<1>2. IsBlock(LionessDecrypt(s, b)) /\ LionessEncrypt(s, LionessDecrypt(s, b)) = b
  BY RoundsInvert DEF LionessEncrypt, LionessDecrypt
<1> QED BY <1>1, <1>2

(* The term that damage leaves. *)
Damage == <<"noise", 0>>
Clean(b) == Damage \notin b.l /\ Damage \notin b.r

(* No layer makes it. *)
LEMMA CleanStays == ASSUME NEW s, NEW b, IsBlock(b), Clean(b) PROVE Clean(LionessEncrypt(s, b))
<1>1. ASSUME NEW k, NEW x PROVE Damage \notin Stream(k, x) /\ Damage \notin Hash(k, x)
  <2>1. ASSUME NEW y PROVE Damage # <<"stream", y>>
    BY DEF Damage
  <2>2. ASSUME NEW y, NEW z PROVE Damage # <<"hash", y, z>>
    BY DEF Damage
  <2> QED BY <2>1, <2>2 DEF Stream, Hash
<1>2. ASSUME NEW x, NEW y, Damage \notin x, Damage \notin y PROVE Damage \notin Xor(x, y)
  BY <1>2 DEF Xor, SymDiff
<1>3. ASSUME NEW c, IsBlock(c), Clean(c)
      PROVE  Clean(Encrypt1(s, c)) /\ Clean(Encrypt2(s, c)) /\ Clean(Encrypt3(s, c)) /\ Clean(Encrypt4(s, c))
  <2> DEFINE x == c.l  y == c.r
             st(i) == Stream(LionKey(s, i), x)
             ha(i) == Hash(LionKey(s, i), y)
  <2>1. c = [l |-> x, r |-> y]
    BY <1>3 DEF IsBlock
  <2>2. /\ Encrypt1(s, c) = [l |-> x, r |-> Xor(y, st(1))] /\ Encrypt3(s, c) = [l |-> x, r |-> Xor(y, st(3))]
        /\ Encrypt2(s, c) = [l |-> Xor(x, ha(2)), r |-> y] /\ Encrypt4(s, c) = [l |-> Xor(x, ha(4)), r |-> y]
    BY <2>1 DEF Encrypt1, Encrypt2, Encrypt3, Encrypt4
  <2>3. \A i \in 1..4 : Damage \notin st(i) /\ Damage \notin ha(i)
    BY <1>1
  <2>4. Damage \notin x /\ Damage \notin y
    BY <1>3 DEF Clean
  <2> HIDE DEF st, ha, x, y
  <2> QED BY <1>2, <2>2, <2>3, <2>4 DEF Clean
<1> QED BY <1>3, RoundsInvert DEF LionessEncrypt

(* A body is a block, without damage, and opens to itself. *)
LEMMA BodiesAre ==
    /\ \A m \in Body : IsBlock(EncodeBody(m)) /\ Clean(EncodeBody(m))
    /\ \A m \in Body : Open(EncodeBody(m)) = [kind |-> "deliver", body |-> m]
    /\ \A b : (\A m \in Body : b # EncodeBody(m)) => Open(b) = [kind |-> "refused"]
<1>1. ASSUME NEW m \in Body PROVE IsBlock(EncodeBody(m)) /\ Clean(EncodeBody(m))
  BY DEF EncodeBody, IsBlock, Clean, Damage
<1>2. ASSUME NEW m \in Body PROVE Open(EncodeBody(m)) = [kind |-> "deliver", body |-> m]
  <2>1. ASSUME NEW n \in Body, EncodeBody(n) = EncodeBody(m) PROVE n = m
    <3>1. {<<"left", n>>} = {<<"left", m>>}
      BY <2>1 DEF EncodeBody
    <3>2. <<"left", n>> = <<"left", m>>
      <4> DEFINE u == <<"left", n>>  w == <<"left", m>>
      <4>1. {u} = {w}
        BY <3>1
      <4> HIDE DEF u, w
      <4>2. u = w
        BY <4>1
      <4> QED BY <4>2 DEF u, w
    <3>3. <<"left", n>>[2] = n /\ <<"left", m>>[2] = m
      OBVIOUS
    <3> QED BY <3>2, <3>3
  <2> DEFINE bodies == {n \in Body : EncodeBody(n) = EncodeBody(m)}
  <2>2. bodies = {m}
    BY <2>1
  <2>3. bodies # {} /\ (CHOOSE n \in bodies : TRUE) = m
    <3> HIDE DEF bodies
    <3> QED BY <2>2
  <2> QED BY <2>3 DEF Open
<1>3. ASSUME NEW b, \A m \in Body : b # EncodeBody(m) PROVE Open(b) = [kind |-> "refused"]
  BY <1>3 DEF Open
<1> QED BY <1>1, <1>2, <1>3

(* The way of a packet. *)
IsPath(p, v) == v \in 1..MaxHops /\ p \in [1..v -> Mix]

(* The elements on the way, as the sender and the mixes compute them. *)
LEMMA AlphasAre ==
    ASSUME NEW p, NEW v, IsPath(p, v), NEW x \in Unit
    PROVE  /\ Alphas(p, x)[0] = x /\ \A i \in 1..v : Alphas(p, x)[i] = Blinded(p[i], Alphas(p, x)[i - 1])
           /\ \A i \in 0..v : Alphas(p, x)[i] \in Unit
<1> DEFINE Solves(f) == f = [i \in 0..Len(p) |-> IF i = 0 THEN x ELSE Blinded(p[i], f[i - 1])]
           a == Alphas(p, x)
           job == <<"alpha", p>>
<1>1. v \in Nat /\ Len(p) = v /\ p \in [1..v -> Mix]
  BY MixnetAssumption DEF IsPath
<1>2. a = CHOOSE f : Solves(f)
  BY DEF Alphas
<1>3. PICK f : Turns(f, job, x, v)
  <2> HIDE DEF job
  <2> QED BY <1>1, TurnsExist
<1>4. \A i, y : Turn(job, i, y) = Blinded(p[i], y)
  BY DEF Turn
<1>5. Solves(f)
  BY <1>1, <1>3, <1>4 DEF Turns
<1>6. Solves(a)
  <2> HIDE DEF Solves, a
  <2> QED BY <1>2, <1>5
<1> HIDE DEF a
<1>7. a[0] = x /\ \A i \in 1..v : a[i] = Blinded(p[i], a[i - 1])
  <2>1. \A i \in 0..v : a[i] = IF i = 0 THEN x ELSE Blinded(p[i], a[i - 1])
    BY <1>1, <1>6
  <2>2. 0 \in 0..v /\ \A i \in 1..v : i \in 0..v /\ i # 0
    BY <1>1
  <2> QED BY <2>1, <2>2
<1> DEFINE S == {i \in 0..v : a[i] \in Unit}
<1>8. ASSUME NEW i \in 1..v, i - 1 \in S PROVE i \in S
  <2> DEFINE y == a[i - 1]
  <2>1. y \in Unit /\ p[i] \in Mix /\ i \in 0..v
    BY <1>1, <1>8
  <2> HIDE DEF y
  <2>2. MixKey[p[i]] \in Unit
    BY <2>1, MixnetAssumption DEF Unit
  <2>3. Secret(p[i], y) \in Unit
    BY <2>1, <2>2, ScaleIsUnit DEF Secret
  <2>4. \A c, d \in Unit : Blinding(c, d) \in Unit
    BY MixnetAssumption DEF Unit
  <2>5. Blinded(p[i], y) \in Unit
    BY <2>1, <2>3, <2>4, ScaleIsUnit DEF Blinded
  <2> QED BY <1>7, <2>1, <2>5 DEF y
<1>9. 0 \in S
  BY <1>1, <1>7
<1>10. \A i \in 0..v : i \in S
  <2> HIDE DEF S
  <2> QED BY <1>1, <1>8, <1>9, UpInduction
<1> QED BY <1>7, <1>10 DEF a

(* The secrets are those that the mixes come upon. *)
LEMMA SecretsAre ==
    ASSUME NEW p, NEW v, IsPath(p, v), NEW x \in Unit
    PROVE  /\ Secrets(p, x) = [i \in 1..v |-> Secret(p[i], Alphas(p, x)[i - 1])]
           /\ Len(Secrets(p, x)) = v
           /\ \A i \in 1..v : Alphas(p, x)[i - 1] \in Unit
<1>1. v \in Nat /\ DOMAIN p = 1..v
  BY MixnetAssumption DEF IsPath
<1>2. Secrets(p, x) = [i \in 1..v |-> Secret(p[i], Alphas(p, x)[i - 1])]
  BY <1>1 DEF Secrets
<1>3. \A i \in 1..v : Alphas(p, x)[i - 1] \in Unit
  BY <1>1, AlphasAre
<1> QED BY <1>1, <1>2, <1>3

(* The layers of a payload, the outermost first and the block within last. *)
IsLayered(g, se, v, block) == g[v + 1] = block /\ \A i \in 1..v : g[i] = LionessEncrypt(se[i], g[i + 1])

(* They are what Layers puts on. *)
LEMMA LayersAre ==
    ASSUME NEW se, NEW v \in Nat, Len(se) = v, NEW block
    PROVE  \E g : IsLayered(g, se, v, block) /\ Layers(se, block) = g[1]
<1> DEFINE Solves(f) == f = [i \in 0..Len(se) |-> IF i = 0 THEN block ELSE LionessEncrypt(se[Len(se) + 1 - i], f[i - 1])]
           h == CHOOSE f : Solves(f)
           job == <<"layers", se>>
<1>1. Layers(se, block) = h[v]
  BY DEF Layers
<1>2. PICK f : Turns(f, job, block, v)
  <2> HIDE DEF job
  <2> QED BY TurnsExist
<1>3. \A i, y : Turn(job, i, y) = LionessEncrypt(se[v + 1 - i], y)
  BY DEF Turn
<1>4. Solves(f)
  BY <1>2, <1>3 DEF Turns
<1>5. Solves(h)
  <2> HIDE DEF Solves
  <2> QED BY <1>4
<1> HIDE DEF h
<1> DEFINE g == [i \in 1..(v + 1) |-> h[v + 1 - i]]
<1>6. \A i \in 0..v : h[i] = IF i = 0 THEN block ELSE LionessEncrypt(se[v + 1 - i], h[i - 1])
  BY <1>5
<1>7. g[v + 1] = block /\ g[1] = h[v]
  <2>1. v + 1 \in 1..(v + 1) /\ 1 \in 1..(v + 1) /\ v + 1 - (v + 1) = 0 /\ v + 1 - 1 = v /\ 0 \in 0..v
    OBVIOUS
  <2> QED BY <1>6, <2>1
<1>8. ASSUME NEW i \in 1..v PROVE g[i] = LionessEncrypt(se[i], g[i + 1])
  <2> DEFINE k == v + 1 - i
  <2>1. k \in 0..v /\ k # 0 /\ v + 1 - k = i /\ k - 1 = v + 1 - (i + 1) /\ i \in 1..(v + 1) /\ i + 1 \in 1..(v + 1)
    OBVIOUS
  <2>2. g[i] = h[k] /\ g[i + 1] = h[k - 1]
    BY <2>1
  <2> HIDE DEF k, g
  <2> QED BY <1>6, <2>1, <2>2
<1> HIDE DEF g
<1> QED BY <1>1, <1>7, <1>8 DEF IsLayered

(* The headers on the way, each around the next. *)
IsHeader(b, p, v, delays, surbId, se) ==
    /\ b[v] = InnerBeta(se, surbId, delays[v])
    /\ \A i \in 1..(v - 1) : b[i] = WrapBeta(se, p, delays, i, b[i + 1])

(* They are what a header is built from. *)
LEMMA HeadersAre ==
    ASSUME NEW p, NEW v, IsPath(p, v), NEW delays, NEW surbId, NEW x
    PROVE  \E b : /\ IsHeader(b, p, v, delays, surbId, Secrets(p, x))
                  /\ BuildHeader(p, delays, surbId, x) =
                         [alpha |-> x, beta |-> b[1], gamma |-> Mu(Secrets(p, x)[1], b[1]), secrets |-> Secrets(p, x)]
<1> DEFINE se == Secrets(p, x)
           inner == InnerBeta(se, surbId, delays[Len(p)])
           Solves(f) == f = [i \in 0..(Len(p) - 1) |->
                                IF i = 0 THEN inner ELSE WrapBeta(se, p, delays, Len(p) - i, f[i - 1])]
           h == CHOOSE f : Solves(f)
           job == <<"beta", se, p, delays>>
<1>1. v \in Nat /\ v >= 1 /\ Len(p) = v /\ v - 1 \in Nat
  BY MixnetAssumption DEF IsPath
<1>2. BuildHeader(p, delays, surbId, x) =
         [alpha |-> x, beta |-> h[v - 1], gamma |-> Mu(se[1], h[v - 1]), secrets |-> se]
  <2> HIDE DEF se
  <2>1. Fits(p)
    BY <1>1 DEF Fits, IsPath
  <2> QED BY <1>1, <2>1 DEF BuildHeader, se
<1>3. PICK f : Turns(f, job, inner, v - 1)
  <2> HIDE DEF job, inner
  <2> QED BY <1>1, TurnsExist
<1> HIDE DEF se
<1>4. \A i, y : Turn(job, i, y) = WrapBeta(se, p, delays, v - i, y)
  BY <1>1 DEF Turn
<1>5. Solves(f)
  <2> HIDE DEF inner
  <2> QED BY <1>1, <1>3, <1>4 DEF Turns
<1>6. Solves(h)
  <2> HIDE DEF Solves
  <2> QED BY <1>5
<1> HIDE DEF h
<1> DEFINE b == [i \in 1..v |-> h[v - i]]
<1>7. \A i \in 0..(v - 1) : h[i] = IF i = 0 THEN inner ELSE WrapBeta(se, p, delays, v - i, h[i - 1])
  <2> HIDE DEF inner
  <2> QED BY <1>1, <1>6
<1>8. b[v] = inner /\ b[1] = h[v - 1]
  <2>1. v \in 1..v /\ 1 \in 1..v /\ v - v = 0 /\ 0 \in 0..(v - 1)
    BY <1>1
  <2> HIDE DEF inner
  <2> QED BY <1>7, <2>1
<1>9. ASSUME NEW i \in 1..(v - 1) PROVE b[i] = WrapBeta(se, p, delays, i, b[i + 1])
  <2> DEFINE k == v - i
  <2>1. k \in 0..(v - 1) /\ k # 0 /\ v - k = i /\ k - 1 = v - (i + 1) /\ i \in 1..v /\ i + 1 \in 1..v
    BY <1>1
  <2>2. b[i] = h[k] /\ b[i + 1] = h[k - 1]
    BY <2>1
  <2> HIDE DEF k, b, inner
  <2> QED BY <1>7, <2>1, <2>2
<1>10. IsHeader(b, p, v, delays, surbId, se)
  <2> HIDE DEF b
  <2> QED BY <1>1, <1>8, <1>9 DEF IsHeader
<1> HIDE DEF b
<1> QED BY <1>2, <1>8, <1>10 DEF se

(* The filler grows by a block at every hop. *)
IsFiller(phi, se, v) ==
    /\ \A k \in 0..(v - 1) : phi[k] = [j \in 1..k |-> phi[k][j]] /\ Len(phi[k]) = k
    /\ \A k \in 1..(v - 1) : phi[k] = Lengthen(phi[k - 1], se[k])

(* So it does. *)
LEMMA FillerIs ==
    ASSUME NEW se, NEW v \in Nat, v >= 1, Len(se) = v
    PROVE  \E phi : IsFiller(phi, se, v) /\ Filler(se) = phi[v - 1]
<1> DEFINE Solves(f) == f = [i \in 0..(Len(se) - 1) |-> IF i = 0 THEN <<>> ELSE Lengthen(f[i - 1], se[i])]
           h == CHOOSE f : Solves(f)
           job == <<"filler", se>>
<1>1. Filler(se) = h[v - 1]
  BY DEF Filler
<1>2. PICK f : Turns(f, job, <<>>, v - 1)
  <2> HIDE DEF job
  <2>1. v - 1 \in Nat
    OBVIOUS
  <2> QED BY <2>1, TurnsExist
<1>3. \A i, y : Turn(job, i, y) = Lengthen(y, se[i])
  BY DEF Turn
<1>4. Solves(f)
  BY <1>2, <1>3 DEF Turns
<1>5. Solves(h)
  <2> HIDE DEF Solves
  <2> QED BY <1>4
<1> HIDE DEF h
<1>6. h[0] = <<>> /\ \A k \in 1..(v - 1) : h[k] = Lengthen(h[k - 1], se[k])
  <2>1. \A i \in 0..(v - 1) : h[i] = IF i = 0 THEN <<>> ELSE Lengthen(h[i - 1], se[i])
    BY <1>5
  <2>2. 0 \in 0..(v - 1) /\ \A i \in 1..(v - 1) : i \in 0..(v - 1) /\ i # 0
    OBVIOUS
  <2> QED BY <2>1, <2>2
<1> DEFINE S == {k \in 0..(v - 1) : h[k] = [j \in 1..k |-> h[k][j]] /\ Len(h[k]) = k}
<1>7. 0 \in S
  <2>1. <<>> = [j \in 1..0 |-> <<>>[j]] /\ Len(<<>>) = 0 /\ 0 \in 0..(v - 1)
    OBVIOUS
  <2> QED BY <1>6, <2>1
<1>8. ASSUME NEW k \in 1..(v - 1), k - 1 \in S PROVE k \in S
  <2> DEFINE E(j) == Xor(IF j <= k - 1 THEN h[k - 1][j] ELSE {}, Rho(se[k], FromTail(k) + j))
  <2>1. k \in Nat /\ k \in 0..(v - 1) /\ Len(h[k - 1]) = k - 1 /\ (k - 1) + 1 = k
    BY <1>8
  <2>2. h[k] = [j \in 1..k |-> E(j)]
    BY <1>6, <2>1 DEF Lengthen
  <2> HIDE DEF E
  <2>3. h[k] = [j \in 1..k |-> h[k][j]] /\ Len(h[k]) = k
    BY <2>1, <2>2
  <2> QED BY <2>1, <2>3
<1>9. \A k \in 0..(v - 1) : k \in S
  <2>1. v - 1 \in Nat
    OBVIOUS
  <2> HIDE DEF S
  <2> QED BY <1>7, <1>8, <2>1, UpInduction
<1>10. IsFiller(h, se, v)
  BY <1>6, <1>9 DEF IsFiller
<1> QED BY <1>1, <1>10

(* One sequence after another, by position. *)
LEMMA ConcatIs ==
    ASSUME NEW m \in Nat, NEW n \in Nat, NEW s, s = [j \in 1..m |-> s[j]], NEW u, u = [j \in 1..n |-> u[j]]
    PROVE  s \o u = [j \in 1..(m + n) |-> IF j <= m THEN s[j] ELSE u[j - m]]
<1> DEFINE S == {s[j] : j \in 1..m} \cup {u[j] : j \in 1..n}
<1>1. s \in [1..m -> S] /\ u \in [1..n -> S]
  <2>1. \A j \in 1..m : s[j] \in S
    OBVIOUS
  <2>2. \A j \in 1..n : u[j] \in S
    OBVIOUS
  <2> HIDE DEF S
  <2> QED BY <2>1, <2>2
<1> HIDE DEF S
<1>2. s \in Seq(S) /\ u \in Seq(S) /\ Len(s) = m /\ Len(u) = n
  BY <1>1
<1> QED BY <1>2

(* A sequence without its first element, by position. *)
LEMMA TailIs ==
    ASSUME NEW n \in Nat, NEW s, s = [j \in 1..(n + 1) |-> s[j]]
    PROVE  Tail(s) = [j \in 1..n |-> s[j + 1]]
<1> DEFINE S == {s[j] : j \in 1..(n + 1)}
<1>1. s \in [1..(n + 1) -> S]
  <2>1. \A j \in 1..(n + 1) : s[j] \in S
    OBVIOUS
  <2> HIDE DEF S
  <2> QED BY <2>1
<1> HIDE DEF S
<1>2. s \in Seq(S) /\ Len(s) = n + 1 /\ s # <<>>
  BY <1>1
<1> QED BY <1>2

(* The header for the last hop: its routing block first, and the filler at its end. *)
IsInner(inner, v, se, surbId, delay, phi) ==
    /\ inner = [j \in 1..MaxHops |-> inner[j]]
    /\ inner[1] = Xor({<<"noise", 1>>, RoutingBlock("deliver", surbId, delay)}, Rho(se[v], 1))
    /\ \A j \in 1..(v - 1) : inner[MaxHops - (v - 1) + j] = phi[j]

(* It is built so. *)
LEMMA InnerIs ==
    ASSUME NEW v \in 1..MaxHops, NEW se, Len(se) = v, NEW surbId, NEW delay, NEW phi, IsFiller(phi, se, v),
           Filler(se) = phi[v - 1]
    PROVE  IsInner(InnerBeta(se, surbId, delay), v, se, surbId, delay, phi[v - 1])
<1> DEFINE r == MaxHops - (v - 1)
           plain(j) == {<<"noise", j>>} \cup IF j = 1 THEN {RoutingBlock("deliver", surbId, delay)} ELSE {}
           s == [j \in 1..r |-> Xor(plain(j), Rho(se[v], j))]
           u == phi[v - 1]
           inner == InnerBeta(se, surbId, delay)
<1>1. v \in Nat /\ MaxHops \in Nat /\ r \in Nat /\ r >= 1 /\ r + (v - 1) = MaxHops /\ v - 1 \in Nat /\ v - 1 \in 0..(v - 1)
  BY MixnetAssumption
<1>2. u = [j \in 1..(v - 1) |-> u[j]] /\ Len(u) = v - 1
  BY <1>1 DEF IsFiller
<1>3. Last(se) = se[v]
  BY DEF Last
<1>4. inner = s \o u
  BY <1>2, <1>3 DEF InnerBeta
<1>5. s = [j \in 1..r |-> s[j]] /\ s[1] = Xor({<<"noise", 1>>, RoutingBlock("deliver", surbId, delay)}, Rho(se[v], 1))
  <2>1. 1 \in 1..r
    BY <1>1
  <2>2. plain(1) = {<<"noise", 1>>, RoutingBlock("deliver", surbId, delay)}
    OBVIOUS
  <2> HIDE DEF plain, r
  <2> QED BY <2>1, <2>2
<1> HIDE DEF s, u, inner, r
<1>6. inner = [j \in 1..MaxHops |-> IF j <= r THEN s[j] ELSE u[j - r]]
  BY <1>1, <1>2, <1>4, <1>5, ConcatIs
<1>7. \A j \in 1..(v - 1) : inner[r + j] = u[j]
  <2> SUFFICES ASSUME NEW j \in 1..(v - 1) PROVE inner[r + j] = u[j]
    OBVIOUS
  <2>1. r + j \in 1..MaxHops /\ ~(r + j <= r) /\ (r + j) - r = j
    BY <1>1
  <2> QED BY <1>6, <2>1
<1>8. inner[1] = s[1]
  BY <1>1, <1>6, MixnetAssumption
<1>9. IsInner(inner, v, se, surbId, delay, u)
  BY <1>5, <1>6, <1>7, <1>8 DEF IsInner, r
<1> QED BY <1>9 DEF inner, u

(* What a hop puts at the end of the header when it has taken its block is what the sender dropped there. *)
LEMMA HeadersFit ==
    ASSUME NEW p, NEW v, IsPath(p, v), NEW se, Len(se) = v, NEW delays, NEW surbId, NEW b,
           IsHeader(b, p, v, delays, surbId, se)
    PROVE  /\ \A i \in 1..v : b[i] = [j \in 1..MaxHops |-> b[i][j]]
           /\ \A i \in 1..(v - 1) : b[i + 1][MaxHops] = Rho(se[i], MaxHops + 1)
<1> DEFINE N == MaxHops
<1>1. v \in Nat /\ v >= 1 /\ N \in Nat /\ v <= N /\ N >= 1
  BY MixnetAssumption DEF IsPath
<1>2. PICK phi : IsFiller(phi, se, v) /\ Filler(se) = phi[v - 1]
  BY <1>1, FillerIs
<1>3. /\ b[v] = [j \in 1..N |-> b[v][j]]
      /\ \A j \in 1..(v - 1) : b[v][N - (v - 1) + j] = phi[v - 1][j]
  <2>1. b[v] = InnerBeta(se, surbId, delays[v]) /\ v \in 1..MaxHops
    BY DEF IsHeader, IsPath
  <2>2. IsInner(b[v], v, se, surbId, delays[v], phi[v - 1])
    BY <1>2, <2>1, InnerIs
  <2> QED BY <2>2 DEF IsInner
<1> DEFINE plain(i, j) == IF j = 1 THEN {RoutingBlock("forward", p[i + 1], delays[i]), Mu(se[i + 1], b[i + 1])}
                          ELSE b[i + 1][j - 1]
<1>4. ASSUME NEW i \in 1..(v - 1) PROVE b[i] = [j \in 1..N |-> Xor(plain(i, j), Rho(se[i], j))]
  BY <1>4 DEF IsHeader, WrapBeta
<1>9. ASSUME NEW i \in 1..(v - 1), NEW k \in 1..N PROVE b[i][k] = Xor(plain(i, k), Rho(se[i], k))
  <2> DEFINE E(j) == Xor(plain(i, j), Rho(se[i], j))
  <2>1. b[i] = [j \in 1..N |-> E(j)]
    BY <1>4
  <2> HIDE DEF E
  <2>2. b[i][k] = E(k)
    BY <2>1
  <2> QED BY <2>2 DEF E
<1>5. ASSUME NEW i \in 1..v PROVE b[i] = [j \in 1..N |-> b[i][j]]
  <2>1. i = v \/ i \in 1..(v - 1)
    BY <1>1
  <2> HIDE DEF plain
  <2> QED BY <1>3, <1>4, <2>1
<1> DEFINE Ends(i) == \A j \in 1..(i - 1) : b[i][N - (i - 1) + j] = phi[i - 1][j]
           S == {d \in 0..(v - 1) : Ends(v - d)}
<1>6. ASSUME NEW i \in 1..(v - 1), Ends(i + 1) PROVE Ends(i) /\ b[i + 1][N] = Rho(se[i], N + 1)
  <2>1. phi[i] = Lengthen(phi[i - 1], se[i]) /\ Len(phi[i - 1]) = i - 1
    <3>1. i - 1 \in 0..(v - 1)
      BY <1>1
    <3> QED BY <1>2, <3>1 DEF IsFiller
  <2>2. \A j \in 1..i : phi[i][j] = Xor(IF j <= i - 1 THEN phi[i - 1][j] ELSE {}, Rho(se[i], N + 1 - i + j))
    <3>1. (i - 1) + 1 = i
      BY <1>1
    <3> QED BY <2>1, <3>1 DEF Lengthen, FromTail
  <2>3. \A j \in 1..i : b[i + 1][N - i + j] = phi[i][j]
    <3>1. (i + 1) - 1 = i
      BY <1>1
    <3> QED BY <1>6, <3>1
  <2>4. b[i + 1][N] = Rho(se[i], N + 1)
    <3>1. i \in 1..i /\ N - i + i = N /\ N + 1 - i + i = N + 1 /\ ~(i <= i - 1)
      BY <1>1
    <3>2. b[i + 1][N] = Xor({}, Rho(se[i], N + 1))
      BY <2>2, <2>3, <3>1
    <3> QED BY <3>2 DEF Xor, SymDiff, Rho
  <2>5. ASSUME NEW j \in 1..(i - 1) PROVE b[i][N - (i - 1) + j] = phi[i - 1][j]
    <3> DEFINE k == N - (i - 1) + j
    <3>1. k \in 1..N /\ k # 1 /\ k - 1 = N - i + j /\ k = N + 1 - i + j /\ j \in 1..i /\ j <= i - 1
      BY <1>1
    <3>2. b[i][k] = Xor(b[i + 1][k - 1], Rho(se[i], k))
      <4> HIDE DEF k
      <4>1. plain(i, k) = b[i + 1][k - 1]
        BY <3>1
      <4> HIDE DEF plain
      <4> QED BY <1>9, <3>1, <4>1
    <3>3. b[i + 1][k - 1] = Xor(phi[i - 1][j], Rho(se[i], k))
      <4>1. phi[i][j] = Xor(phi[i - 1][j], Rho(se[i], N + 1 - i + j)) /\ b[i + 1][N - i + j] = phi[i][j]
        BY <2>2, <2>3, <3>1
      <4> QED BY <3>1, <4>1
    <3> HIDE DEF k
    <3>4. b[i][k] = phi[i - 1][j]
      BY <3>2, <3>3, XorTwice
    <3> QED BY <3>4 DEF k
  <2> QED BY <2>4, <2>5
<1>7. \A d \in 0..(v - 1) : d \in S
  <2>1. 0 \in S
    <3>1. v - 0 = v /\ 0 \in 0..(v - 1)
      BY <1>1
    <3> QED BY <1>3, <3>1
  <2>2. ASSUME NEW d \in 1..(v - 1), d - 1 \in S PROVE d \in S
    <3> DEFINE i == v - d
    <3>1. i \in 1..(v - 1) /\ v - (d - 1) = i + 1 /\ d \in 0..(v - 1)
      BY <1>1
    <3>2. Ends(i + 1)
      <4>1. Ends(v - (d - 1))
        BY <2>2
      <4> HIDE DEF Ends, i
      <4> QED BY <3>1, <4>1
    <3> HIDE DEF Ends, i
    <3>3. Ends(i)
      BY <1>6, <3>1, <3>2
    <3> QED BY <3>1, <3>3 DEF i
  <2>3. v - 1 \in Nat
    BY <1>1
  <2> HIDE DEF S
  <2> QED BY <2>1, <2>2, <2>3, UpInduction
<1>8. ASSUME NEW i \in 1..(v - 1) PROVE Ends(i + 1)
  <2> DEFINE d == v - (i + 1)
  <2>1. d \in 0..(v - 1) /\ v - d = i + 1
    BY <1>1
  <2> HIDE DEF d, Ends
  <2>2. Ends(v - d)
    BY <1>7, <2>1
  <2> QED BY <2>1, <2>2
<1> HIDE DEF Ends
<1> QED BY <1>5, <1>6, <1>8

(* What the k-th piece of the keystream takes off a header, and adds at its end. *)
Strip(s, beta) == [j \in 1..(MaxHops + 1) |-> Xor(IF j <= MaxHops THEN beta[j] ELSE {}, Rho(s, j))]

(* A mix goes by its first block, if the tag is right. *)
LEMMA ProcessIs ==
    ASSUME NEW mix, NEW packet
    PROVE  LET s == Secret(mix, packet.alpha)
               f == Strip(s, packet.beta)
               route == Parsed(f[1], "route")
               payload == LionessDecrypt(s, packet.payload)
           IN /\ Mu(s, packet.beta) # packet.gamma => Process(mix, packet) = [kind |-> "refused"]
              /\ Mu(s, packet.beta) = packet.gamma /\ route[2] = "forward" =>
                    Process(mix, packet) =
                        [kind |-> "forward", next |-> route[3], delay |-> route[4],
                         packet |-> [alpha |-> Blinded(mix, packet.alpha), beta |-> Tail(f),
                                     gamma |-> Parsed(f[1], "mu"), payload |-> payload]]
              /\ Mu(s, packet.beta) = packet.gamma /\ route[2] = "deliver" =>
                    Process(mix, packet) =
                        IF route[3] # NoSurb THEN [kind |-> "surb", id |-> route[3], payload |-> payload]
                        ELSE Open(payload)
<1> DEFINE s == Secret(mix, packet.alpha)
           f == Strip(s, packet.beta)
           route == Parsed(f[1], "route")
           tag == Parsed(f[1], "mu")
           payload == LionessDecrypt(s, packet.payload)
           onward == [kind |-> "forward", next |-> route[3], delay |-> route[4],
                      packet |-> [alpha |-> Blinded(mix, packet.alpha), beta |-> Tail(f),
                                  gamma |-> tag, payload |-> payload]]
           final == IF route[3] # NoSurb THEN [kind |-> "surb", id |-> route[3], payload |-> payload]
                    ELSE Open(payload)
<1>1. Process(mix, packet) =
        IF Mu(s, packet.beta) # packet.gamma THEN [kind |-> "refused"]
        ELSE IF route[2] # "deliver" THEN onward ELSE final
  BY Zenon DEF Process, Authentic, Strip
<1>2. route[2] = "forward" => route[2] # "deliver"
  OBVIOUS
<1> HIDE DEF onward, final, route, f, s, payload, tag
<1> QED BY <1>1, <1>2 DEF onward, final, route, f, s, payload, tag

(* What the first block of a header says, to a hop on the way and to the last. *)
LEMMA ParsedIs ==
    /\ \A next, delay, s, beta :
          LET block == {RoutingBlock("forward", next, delay), Mu(s, beta)}
          IN /\ Parsed(block, "route") = RoutingBlock("forward", next, delay)
             /\ Parsed(block, "mu") = Mu(s, beta)
    /\ \A id, delay : Parsed({<<"noise", 1>>, RoutingBlock("deliver", id, delay)}, "route") = RoutingBlock("deliver", id, delay)
<1>1. ASSUME NEW a, NEW b, NEW kind, a[1] = kind, b[1] # kind PROVE Parsed({a, b}, kind) = a /\ Parsed({b, a}, kind) = a
  <2> DEFINE terms == {c \in {a, b} : c[1] = kind}  other == {c \in {b, a} : c[1] = kind}
  <2>1. terms = {a} /\ other = {a}
    BY <1>1
  <2>2. terms # {} /\ (CHOOSE c \in terms : TRUE) = a /\ other # {} /\ (CHOOSE c \in other : TRUE) = a
    <3> HIDE DEF terms, other
    <3> QED BY <2>1
  <2>3. Parsed({a, b}, kind) = CHOOSE c \in terms : TRUE
    BY <2>2, Zenon DEF Parsed
  <2>4. Parsed({b, a}, kind) = CHOOSE c \in other : TRUE
    BY <2>2, Zenon DEF Parsed
  <2> QED BY <2>2, <2>3, <2>4
<1>2. ASSUME NEW next, NEW delay, NEW s, NEW beta
      PROVE  LET block == {RoutingBlock("forward", next, delay), Mu(s, beta)}
             IN /\ Parsed(block, "route") = RoutingBlock("forward", next, delay)
                /\ Parsed(block, "mu") = Mu(s, beta)
  <2> DEFINE a == RoutingBlock("forward", next, delay)  b == Mu(s, beta)
  <2>1. a[1] = "route" /\ b[1] = "mu" /\ "route" # "mu"
    BY DEF RoutingBlock, Mu
  <2> HIDE DEF a, b
  <2>2. Parsed({a, b}, "route") = a /\ Parsed({a, b}, "mu") = b
    BY <1>1, <2>1
  <2> QED BY <2>2 DEF a, b
<1>3. ASSUME NEW id, NEW delay
      PROVE  Parsed({<<"noise", 1>>, RoutingBlock("deliver", id, delay)}, "route") = RoutingBlock("deliver", id, delay)
  <2> DEFINE a == RoutingBlock("deliver", id, delay)  b == <<"noise", 1>>
  <2>1. a[1] = "route" /\ b[1] = "noise" /\ "route" # "noise"
    BY DEF RoutingBlock
  <2> HIDE DEF a, b
  <2>2. Parsed({b, a}, "route") = a
    BY <1>1, <2>1
  <2> QED BY <2>2 DEF a, b
<1> QED BY <1>2, <1>3

(* The packet that hop i of a path is to receive, with what is left of its payload. *)
Hop(p, x, b, i, load) ==
    [alpha |-> Alphas(p, x)[i - 1], beta |-> b[i], gamma |-> Mu(Secrets(p, x)[i], b[i]), payload |-> load]

(* What the i-th mix of a path does not know to be damaged it sends to the next, with the next one's header. *)
LEMMA HopForwards ==
    ASSUME NEW p, NEW v, IsPath(p, v), NEW x \in Unit, NEW delays, NEW surbId, NEW b,
           IsHeader(b, p, v, delays, surbId, Secrets(p, x)), NEW i \in 1..(v - 1), NEW load
    PROVE  Process(p[i], Hop(p, x, b, i, load)) =
              [kind |-> "forward", next |-> p[i + 1], delay |-> delays[i],
               packet |-> Hop(p, x, b, i + 1, LionessDecrypt(Secrets(p, x)[i], load))]
<1> DEFINE N == MaxHops
           al == Alphas(p, x)
           se == Secrets(p, x)
           packet == Hop(p, x, b, i, load)
           block == {RoutingBlock("forward", p[i + 1], delays[i]), Mu(se[i + 1], b[i + 1])}
           f == Strip(se[i], b[i])
<1>1. v \in Nat /\ v >= 1 /\ N \in Nat /\ N >= 1 /\ i \in 1..v /\ i \in Nat /\ (i + 1) - 1 = i
  BY MixnetAssumption DEF IsPath
<1>2. Secret(p[i], al[i - 1]) = se[i] /\ Len(se) = v
  <2> HIDE DEF se, al
  <2>1. se = [k \in 1..v |-> Secret(p[k], al[k - 1])] /\ Len(se) = v
    BY SecretsAre DEF se, al
  <2> QED BY <1>1, <2>1
<1>3. Blinded(p[i], al[i - 1]) = al[i]
  BY <1>1, AlphasAre
<1>4. /\ packet.alpha = al[i - 1] /\ packet.beta = b[i] /\ packet.payload = load
      /\ packet.gamma = Mu(se[i], b[i])
  BY DEF Hop
<1> HIDE DEF al, se, packet
<1>5. /\ \A k \in 1..v : b[k] = [j \in 1..N |-> b[k][j]]
      /\ b[i + 1][N] = Rho(se[i], N + 1)
  <2>1. /\ \A k \in 1..v : b[k] = [j \in 1..N |-> b[k][j]]
        /\ \A k \in 1..(v - 1) : b[k + 1][N] = Rho(se[k], N + 1)
    BY <1>2, HeadersFit DEF se
  <2> QED BY <2>1
<1> DEFINE plain(j) == IF j = 1 THEN block ELSE b[i + 1][j - 1]
           E(j) == Xor(IF j <= N THEN b[i][j] ELSE {}, Rho(se[i], j))
<1>6. ASSUME NEW j \in 1..N PROVE b[i][j] = Xor(plain(j), Rho(se[i], j))
  <2> DEFINE W(k) == Xor(plain(k), Rho(se[i], k))
  <2>1. b[i] = [k \in 1..N |-> W(k)]
    BY DEF IsHeader, WrapBeta, se
  <2> HIDE DEF W
  <2>2. b[i][j] = W(j)
    BY <2>1
  <2> QED BY <2>2 DEF W
<1> HIDE DEF plain
<1>7. f = [j \in 1..(N + 1) |-> E(j)]
  BY DEF Strip
<1> HIDE DEF E, f
<1>8. \A j \in 1..(N + 1) : f[j] = E(j)
  BY <1>7
<1>9. ASSUME NEW j \in 1..N PROVE f[j] = plain(j)
  <2>1. j \in 1..(N + 1) /\ j <= N
    BY <1>1
  <2>2. f[j] = Xor(Xor(plain(j), Rho(se[i], j)), Rho(se[i], j))
    BY <1>6, <1>8, <2>1 DEF E
  <2> QED BY <2>2, XorTwice
<1>10. f[1] = block
  <2>1. 1 \in 1..N /\ plain(1) = block
    BY <1>1 DEF plain
  <2> HIDE DEF block
  <2> QED BY <1>9, <2>1
<1>11. Tail(f) = b[i + 1]
  <2>1. f = [j \in 1..(N + 1) |-> f[j]]
    BY <1>7, <1>8
  <2>2. Tail(f) = [j \in 1..N |-> f[j + 1]]
    BY <1>1, <2>1, TailIs
  <2>3. ASSUME NEW j \in 1..N PROVE f[j + 1] = b[i + 1][j]
    <3>1. CASE j < N
      <4>1. j + 1 \in 1..N /\ j + 1 # 1 /\ (j + 1) - 1 = j
        BY <1>1, <3>1
      <4>2. plain(j + 1) = b[i + 1][j]
        BY <4>1 DEF plain
      <4> QED BY <1>9, <4>1, <4>2
    <3>2. CASE j = N
      <4>1. N + 1 \in 1..(N + 1) /\ ~(N + 1 <= N)
        BY <1>1
      <4>2. f[N + 1] = Xor({}, Rho(se[i], N + 1))
        BY <1>8, <4>1 DEF E
      <4>3. f[N + 1] = Rho(se[i], N + 1)
        BY <4>2 DEF Xor, SymDiff, Rho
      <4> QED BY <1>5, <3>2, <4>3
    <3> QED BY <1>1, <3>1, <3>2
  <2>4. i + 1 \in 1..v
    BY <1>1
  <2>5. b[i + 1] = [j \in 1..N |-> b[i + 1][j]]
    BY <1>5, <2>4
  <2> QED BY <2>2, <2>3, <2>5
<1> DEFINE route == RoutingBlock("forward", p[i + 1], delays[i])
           tag == Mu(se[i + 1], b[i + 1])
<1>12. Parsed(f[1], "route") = route /\ Parsed(f[1], "mu") = tag
  BY <1>10, ParsedIs
<1>13. route[2] = "forward" /\ route[3] = p[i + 1] /\ route[4] = delays[i]
  BY DEF RoutingBlock
<1> HIDE DEF route, tag
<1>14. Process(p[i], packet) =
          [kind |-> "forward", next |-> route[3], delay |-> route[4],
           packet |-> [alpha |-> al[i], beta |-> Tail(f), gamma |-> tag,
                       payload |-> LionessDecrypt(se[i], load)]]
  <2>1. Secret(p[i], packet.alpha) = se[i] /\ Strip(se[i], packet.beta) = f
    BY <1>2, <1>4 DEF f
  <2>2. Mu(se[i], packet.beta) = packet.gamma
    BY <1>4
  <2>3. Process(p[i], packet) =
          [kind |-> "forward", next |-> route[3], delay |-> route[4],
           packet |-> [alpha |-> Blinded(p[i], packet.alpha), beta |-> Tail(f), gamma |-> tag,
                       payload |-> LionessDecrypt(se[i], packet.payload)]]
    <3> DEFINE s == Secret(p[i], packet.alpha)
               g == Strip(s, packet.beta)
               r == Parsed(g[1], "route")
    <3>1. Mu(s, packet.beta) = packet.gamma /\ r[2] = "forward" =>
             Process(p[i], packet) =
                [kind |-> "forward", next |-> r[3], delay |-> r[4],
                 packet |-> [alpha |-> Blinded(p[i], packet.alpha), beta |-> Tail(g), gamma |-> Parsed(g[1], "mu"),
                             payload |-> LionessDecrypt(s, packet.payload)]]
      BY Zenon, ProcessIs
    <3>2. s = se[i] /\ g = f /\ r = route /\ Parsed(g[1], "mu") = tag
      BY <1>12, <2>1
    <3> HIDE DEF s, g, r
    <3> QED BY <1>13, <2>2, <3>1, <3>2
  <2>4. Blinded(p[i], packet.alpha) = al[i] /\ packet.payload = load
    BY <1>3, <1>4
  <2> QED BY <2>3, <2>4
<1>15. Hop(p, x, b, i + 1, LionessDecrypt(se[i], load)) =
          [alpha |-> al[i], beta |-> b[i + 1], gamma |-> tag, payload |-> LionessDecrypt(se[i], load)]
  BY <1>1 DEF Hop, al, se, tag
<1> QED BY <1>11, <1>13, <1>14, <1>15 DEF packet, se

(* What the last hop makes of a payload. *)
Arrival(surbId, block) ==
    IF surbId # NoSurb THEN [kind |-> "surb", id |-> surbId, payload |-> block] ELSE Open(block)

(* The last opens it, or knows the reply block it belongs to. *)
LEMMA HopDelivers ==
    ASSUME NEW p, NEW v, IsPath(p, v), NEW x \in Unit, NEW delays, NEW surbId, NEW b,
           IsHeader(b, p, v, delays, surbId, Secrets(p, x)), NEW load
    PROVE  Process(p[v], Hop(p, x, b, v, load)) = Arrival(surbId, LionessDecrypt(Secrets(p, x)[v], load))
<1> DEFINE N == MaxHops
           al == Alphas(p, x)
           se == Secrets(p, x)
           packet == Hop(p, x, b, v, load)
           route == RoutingBlock("deliver", surbId, delays[v])
           block == {<<"noise", 1>>, route}
           f == Strip(se[v], b[v])
<1>1. v \in Nat /\ v >= 1 /\ N \in Nat /\ N >= 1 /\ v \in 1..v /\ v \in 1..MaxHops
  BY MixnetAssumption DEF IsPath
<1>2. Secret(p[v], al[v - 1]) = se[v] /\ Len(se) = v
  <2> HIDE DEF se, al
  <2>1. se = [k \in 1..v |-> Secret(p[k], al[k - 1])] /\ Len(se) = v
    BY SecretsAre DEF se, al
  <2> QED BY <1>1, <2>1
<1>3. /\ packet.alpha = al[v - 1] /\ packet.beta = b[v] /\ packet.payload = load
      /\ packet.gamma = Mu(se[v], b[v])
  BY DEF Hop
<1> HIDE DEF al, se, packet
<1>4. b[v][1] = Xor(block, Rho(se[v], 1))
  <2>1. b[v] = InnerBeta(se, surbId, delays[v])
    BY DEF IsHeader, se
  <2>2. PICK phi : IsFiller(phi, se, v) /\ Filler(se) = phi[v - 1]
    BY <1>1, <1>2, FillerIs
  <2>3. IsInner(b[v], v, se, surbId, delays[v], phi[v - 1])
    BY <1>1, <1>2, <2>1, <2>2, InnerIs
  <2> QED BY <2>3 DEF IsInner
<1> DEFINE E(j) == Xor(IF j <= N THEN b[v][j] ELSE {}, Rho(se[v], j))
<1>5. f = [j \in 1..(N + 1) |-> E(j)]
  BY DEF Strip
<1> HIDE DEF E, f
<1>6. f[1] = block
  <2>1. 1 \in 1..(N + 1) /\ 1 <= N
    BY <1>1
  <2>2. f[1] = E(1)
    BY <1>5, <2>1
  <2> HIDE DEF block
  <2>3. f[1] = Xor(Xor(block, Rho(se[v], 1)), Rho(se[v], 1))
    BY <1>4, <2>1, <2>2 DEF E
  <2> QED BY <2>3, XorTwice
<1>7. Parsed(f[1], "route") = route
  BY <1>6, ParsedIs
<1>8. route[2] = "deliver" /\ route[3] = surbId
  BY DEF RoutingBlock
<1> HIDE DEF route
<1>9. Secret(p[v], packet.alpha) = se[v] /\ Strip(se[v], packet.beta) = f
  BY <1>2, <1>3 DEF f
<1>10. Process(p[v], packet) =
          IF surbId # NoSurb THEN [kind |-> "surb", id |-> surbId, payload |-> LionessDecrypt(se[v], load)]
          ELSE Open(LionessDecrypt(se[v], load))
  BY <1>3, <1>7, <1>8, <1>9, ProcessIs
<1> QED BY <1>10 DEF packet, se, Arrival

(* What every mix of a path from the k-th on has made of a packet, by its position. *)
IsJourney(out, q, u, k, packet) ==
    /\ out[k] = Process(q[k], packet)
    /\ \A j \in (k + 1)..u : out[j] = Onward(q, k, j, out[j - 1])

(* The last of it is where the journey ends. *)
LEMMA JourneyIs ==
    ASSUME NEW q, NEW u, IsPath(q, u), NEW k \in 1..u, NEW packet
    PROVE  \E out : IsJourney(out, q, u, k, packet) /\ Journey(q, k, packet) = out[u]
<1> DEFINE base == [kind |-> "forward", next |-> q[k], delay |-> 0, packet |-> packet]
           n == Len(q) - k + 1
           Solves(f) == f = [i \in 0..n |-> IF i = 0 THEN base ELSE Onward(q, k, k + i - 1, f[i - 1])]
           h == CHOOSE f : Solves(f)
           job == <<"journey", q, k>>
<1>1. u \in Nat /\ k \in Nat /\ Len(q) = u /\ n \in Nat /\ n = u - k + 1 /\ n >= 1
  <2>1. u \in Nat /\ k \in Nat /\ k <= u /\ Len(q) = u
    BY MixnetAssumption DEF IsPath
  <2> QED BY <2>1
<1>2. Journey(q, k, packet) = h[n]
  BY DEF Journey
<1>3. PICK f : Turns(f, job, base, n)
  <2> HIDE DEF job, base, n
  <2> QED BY <1>1, TurnsExist
<1>4. \A i, y : Turn(job, i, y) = Onward(q, k, k + i - 1, y)
  BY DEF Turn
<1>5. Solves(f)
  <2> HIDE DEF base, n, job
  <2> QED BY <1>3, <1>4 DEF Turns
<1>6. Solves(h)
  <2> HIDE DEF Solves
  <2> QED BY <1>5
<1> HIDE DEF h
<1>7. h[0] = base /\ \A i \in 1..n : h[i] = Onward(q, k, k + i - 1, h[i - 1])
  <2> HIDE DEF base, n
  <2>1. \A i \in 0..n : h[i] = IF i = 0 THEN base ELSE Onward(q, k, k + i - 1, h[i - 1])
    BY <1>6
  <2>2. 0 \in 0..n /\ \A i \in 1..n : i \in 0..n /\ i # 0
    BY <1>1
  <2> QED BY <2>1, <2>2
<1> DEFINE out == [j \in k..u |-> h[j - k + 1]]
<1>8. out[u] = h[n] /\ out[k] = h[1]
  <2>1. u \in k..u /\ k \in k..u /\ u - k + 1 = n /\ k - k + 1 = 1
    BY <1>1
  <2> HIDE DEF n
  <2> QED BY <2>1
<1>9. out[k] = Process(q[k], packet)
  <2>1. base.kind = "forward" /\ base.next = q[k] /\ base.packet = packet
    OBVIOUS
  <2>2. 1 \in 1..n /\ k + 1 - 1 = k /\ 1 - 1 = 0 /\ ~(k > k)
    BY <1>1
  <2> HIDE DEF base, n, out
  <2>3. h[1] = Onward(q, k, k, base)
    BY <1>7, <2>2
  <2> QED BY <1>8, <2>1, <2>2, <2>3 DEF Onward
<1>10. ASSUME NEW j \in (k + 1)..u PROVE out[j] = Onward(q, k, j, out[j - 1])
  <2> DEFINE i == j - k + 1
  <2>1. j \in k..u /\ j - 1 \in k..u /\ i \in 1..n /\ k + i - 1 = j /\ (j - 1) - k + 1 = i - 1
    BY <1>1
  <2>2. out[j] = h[i] /\ out[j - 1] = h[i - 1]
    BY <2>1
  <2> HIDE DEF i, n, out
  <2> QED BY <1>7, <2>1, <2>2
<1> HIDE DEF out, n
<1> QED BY <1>2, <1>8, <1>9, <1>10 DEF IsJourney

(* Induction from one number up to another. *)
LEMMA FromTo ==
    ASSUME NEW k \in Nat, NEW n \in Nat, k <= n, NEW S, k \in S, \A j \in (k + 1)..n : j - 1 \in S => j \in S
    PROVE  \A j \in k..n : j \in S
<1> DEFINE T == {i \in 0..(n - k) : k + i \in S}
<1>1. 0 \in T
  BY k + 0 = k
<1>2. ASSUME NEW i \in 1..(n - k), i - 1 \in T PROVE i \in T
  <2>1. k + i \in (k + 1)..n /\ (k + i) - 1 = k + (i - 1) /\ i \in 0..(n - k)
    OBVIOUS
  <2> QED BY <1>2, <2>1
<1>3. \A i \in 0..(n - k) : i \in T
  <2>1. n - k \in Nat
    OBVIOUS
  <2> HIDE DEF T
  <2> QED BY <1>1, <1>2, <2>1, UpInduction
<1>4. \A j \in k..n : j - k \in 0..(n - k) /\ k + (j - k) = j
  OBVIOUS
<1> QED BY <1>3, <1>4

(* And down. *)
LEMMA DownTo ==
    ASSUME NEW k \in Nat, NEW n \in Nat, k <= n, NEW S, n \in S, \A j \in k..(n - 1) : j + 1 \in S => j \in S
    PROVE  \A j \in k..n : j \in S
<1> DEFINE T == {i \in 0..(n - k) : n - i \in S}
<1>1. 0 \in T
  BY n - 0 = n
<1>2. ASSUME NEW i \in 1..(n - k), i - 1 \in T PROVE i \in T
  <2>1. n - i \in k..(n - 1) /\ (n - i) + 1 = n - (i - 1) /\ i \in 0..(n - k)
    OBVIOUS
  <2> QED BY <1>2, <2>1
<1>3. \A i \in 0..(n - k) : i \in T
  <2>1. n - k \in Nat
    OBVIOUS
  <2> HIDE DEF T
  <2> QED BY <1>1, <1>2, <2>1, UpInduction
<1>4. \A j \in k..n : n - j \in 0..(n - k) /\ n - (n - j) = j
  OBVIOUS
<1> QED BY <1>3, <1>4

(* What the first mix refuses goes no further. *)
LEMMA StaysRefused ==
    ASSUME NEW q, NEW u, IsPath(q, u), NEW k \in 1..u, NEW packet, Process(q[k], packet) = [kind |-> "refused"]
    PROVE  Journey(q, k, packet) = [kind |-> "refused"]
<1>1. PICK out : IsJourney(out, q, u, k, packet) /\ Journey(q, k, packet) = out[u]
  BY JourneyIs
<1>2. u \in Nat /\ k \in Nat /\ k <= u /\ u \in k..u
  BY MixnetAssumption DEF IsPath
<1> DEFINE no == [kind |-> "refused"]
           S == {j \in k..u : out[j] = no}
<1>3. no.kind # "forward"
  OBVIOUS
<1> HIDE DEF no
<1>4. k \in S
  BY <1>1, <1>2 DEF IsJourney, no
<1>5. ASSUME NEW j \in (k + 1)..u, j - 1 \in S PROVE j \in S
  <2>1. out[j] = Onward(q, k, j, no) /\ j \in k..u
    BY <1>1, <1>2, <1>5 DEF IsJourney
  <2>2. Onward(q, k, j, no) = no
    BY <1>3, Zenon DEF Onward, no
  <2> QED BY <2>1, <2>2
<1>6. \A j \in k..u : j \in S
  <2> HIDE DEF S
  <2> QED BY <1>2, <1>4, <1>5, FromTo
<1> QED BY <1>1, <1>2, <1>6 DEF no

(* A packet that every mix sends on as it should arrives at the last. *)
LEMMA Travels ==
    ASSUME NEW q, NEW u, IsPath(q, u), NEW k \in 1..u, NEW W,
           \A i \in k..(u - 1) : Process(q[i], W[i]) =
               [kind |-> "forward", next |-> q[i + 1], delay |-> 10 * i, packet |-> W[i + 1]]
    PROVE  Journey(q, k, W[k]) = Process(q[u], W[u])
<1>1. PICK out : IsJourney(out, q, u, k, W[k]) /\ Journey(q, k, W[k]) = out[u]
  BY JourneyIs
<1>2. u \in Nat /\ k \in Nat /\ k <= u /\ k >= 1 /\ u \in k..u /\ DOMAIN q = 1..u
  BY MixnetAssumption DEF IsPath
<1> DEFINE S == {j \in k..u : out[j] = Process(q[j], W[j])}
<1>3. k \in S
  BY <1>1, <1>2 DEF IsJourney
<1>4. ASSUME NEW j \in (k + 1)..u, j - 1 \in S PROVE j \in S
  <2> DEFINE i == j - 1
  <2>1. i \in k..(u - 1) /\ i + 1 = j /\ i \in 1..u /\ j \in k..u
    BY <1>2
  <2> DEFINE sent == [kind |-> "forward", next |-> q[j], delay |-> 10 * i, packet |-> W[j]]
  <2>2. out[j] = Onward(q, k, j, out[i]) /\ out[i] = Process(q[i], W[i])
    BY <1>1, <1>4 DEF IsJourney
  <2> HIDE DEF i
  <2>3. out[j] = Onward(q, k, j, sent)
    BY <2>1, <2>2
  <2>4. sent.kind = "forward" /\ sent.next = q[j] /\ sent.delay = 10 * i /\ sent.packet = W[j]
    OBVIOUS
  <2> HIDE DEF sent
  <2>5. Delays(q)[j - 1] = 10 * i
    BY <1>2, <2>1 DEF Delays, i
  <2>6. Onward(q, k, j, sent) = Process(q[j], W[j])
    BY <2>4, <2>5 DEF Onward
  <2> QED BY <2>1, <2>3, <2>6
<1>5. \A j \in k..u : j \in S
  <2> HIDE DEF S
  <2> QED BY <1>2, <1>3, <1>4, FromTo
<1> QED BY <1>1, <1>2, <1>5

(* The payload as each mix from the k-th on leaves it to the next. *)
IsPeeled(D, se, k, v) == \A i \in k..v : D[i + 1] = LionessDecrypt(se[i], D[i])

(* So it does, from a payload at the k-th. *)
Peels(se, k, v, load) == \E D : IsPeeled(D, se, k, v) /\ D[k] = load

(* It can be told what they leave. *)
LEMMA PeeledExist ==
    ASSUME NEW se, NEW v \in Nat, NEW k \in 1..v, NEW load
    PROVE  Peels(se, k, v, load)
<1> DEFINE n == v - k + 1
           shifted == [i \in 1..n |-> se[k + i - 1]]
           job == <<"peel", shifted>>
<1>1. n \in Nat /\ k \in Nat
  OBVIOUS
<1>2. PICK f : Turns(f, job, load, n)
  <2> HIDE DEF job, n
  <2> QED BY <1>1, TurnsExist
<1>3. \A i, y : Turn(job, i, y) = LionessDecrypt(shifted[i], y)
  BY DEF Turn
<1>4. f[0] = load /\ \A i \in 1..n : f[i] = LionessDecrypt(se[k + i - 1], f[i - 1])
  <2>1. f[0] = load /\ \A i \in 1..n : f[i] = Turn(job, i, f[i - 1])
    <3> HIDE DEF job, n
    <3> QED BY <1>1, <1>2, TurnIs
  <2> HIDE DEF job, n
  <2> QED BY <1>3, <2>1
<1> DEFINE D == [i \in k..(v + 1) |-> f[i - k]]
<1>5. D[k] = load
  <2>1. k \in k..(v + 1) /\ k - k = 0
    OBVIOUS
  <2> QED BY <1>4, <2>1
<1>6. ASSUME NEW i \in k..v PROVE D[i + 1] = LionessDecrypt(se[i], D[i])
  <2> DEFINE j == i - k + 1
  <2>1. i \in k..(v + 1) /\ i + 1 \in k..(v + 1) /\ j \in 1..n /\ k + j - 1 = i /\ (i + 1) - k = j /\ i - k = j - 1
    OBVIOUS
  <2>2. D[i + 1] = f[j] /\ D[i] = f[j - 1]
    BY <2>1
  <2> HIDE DEF j, n, D
  <2> QED BY <1>4, <2>1, <2>2
<1> HIDE DEF D
<1> QED BY <1>5, <1>6 DEF IsPeeled, Peels

(* Layers come off as they were put on. *)
LEMMA LayeredPeels ==
    ASSUME NEW se, NEW v \in Nat, v >= 1, NEW block, IsBlock(block), NEW g, IsLayered(g, se, v, block)
    PROVE  /\ IsPeeled(g, se, 1, v)
           /\ \A i \in 1..(v + 1) : IsBlock(g[i])
           /\ Clean(block) => \A i \in 1..(v + 1) : Clean(g[i])
<1>1. g[v + 1] = block /\ \A i \in 1..v : g[i] = LionessEncrypt(se[i], g[i + 1])
  BY DEF IsLayered
<1> DEFINE S == {i \in 1..(v + 1) : IsBlock(g[i])}
           T == {i \in 1..(v + 1) : Clean(g[i])}
<1>2. \A i \in 1..(v + 1) : i \in S
  <2>1. v + 1 \in S
    BY <1>1
  <2>2. ASSUME NEW i \in 1..((v + 1) - 1), i + 1 \in S PROVE i \in S
    <3>1. i \in 1..v /\ i \in 1..(v + 1)
      OBVIOUS
    <3>2. IsBlock(g[i])
      BY <1>1, <2>2, <3>1, LayerInverts
    <3> QED BY <3>1, <3>2
  <2>3. 1 \in Nat /\ v + 1 \in Nat /\ 1 <= v + 1
    OBVIOUS
  <2> HIDE DEF S
  <2> QED BY <2>1, <2>2, <2>3, DownTo
<1>3. ASSUME Clean(block) PROVE \A i \in 1..(v + 1) : i \in T
  <2>1. v + 1 \in T
    BY <1>1, <1>3
  <2>2. ASSUME NEW i \in 1..((v + 1) - 1), i + 1 \in T PROVE i \in T
    <3>1. i \in 1..v /\ i \in 1..(v + 1) /\ i + 1 \in 1..(v + 1)
      OBVIOUS
    <3>2. IsBlock(g[i + 1]) /\ Clean(g[i + 1])
      BY <1>2, <2>2, <3>1
    <3>3. Clean(g[i])
      BY <1>1, <3>1, <3>2, CleanStays
    <3> QED BY <3>1, <3>3
  <2>3. 1 \in Nat /\ v + 1 \in Nat /\ 1 <= v + 1
    OBVIOUS
  <2> HIDE DEF T
  <2> QED BY <2>1, <2>2, <2>3, DownTo
<1>4. ASSUME NEW i \in 1..v PROVE g[i + 1] = LionessDecrypt(se[i], g[i])
  <2>1. IsBlock(g[i + 1])
    BY <1>2
  <2> QED BY <1>1, <2>1, LayerInverts
<1> QED BY <1>2, <1>3, <1>4 DEF IsPeeled

(* And go on again as they came off. *)
LEMMA PeeledLayers ==
    ASSUME NEW se, NEW v \in Nat, NEW k \in 1..v, NEW D, IsPeeled(D, se, k, v), IsBlock(D[k])
    PROVE  /\ \A i \in k..(v + 1) : IsBlock(D[i])
           /\ \A i \in k..v : D[i] = LionessEncrypt(se[i], D[i + 1])
           /\ Clean(D[v + 1]) => Clean(D[k])
<1>1. k \in Nat /\ k <= v /\ v + 1 \in Nat /\ k <= v + 1 /\ \A i \in k..v : D[i + 1] = LionessDecrypt(se[i], D[i])
  BY DEF IsPeeled
<1> DEFINE S == {i \in k..(v + 1) : IsBlock(D[i])}
           T == {i \in k..(v + 1) : Clean(D[i])}
<1>2. \A i \in k..(v + 1) : i \in S
  <2>1. k \in S
    BY <1>1
  <2>2. ASSUME NEW i \in (k + 1)..(v + 1), i - 1 \in S PROVE i \in S
    <3> DEFINE j == i - 1
    <3>1. j \in k..v /\ j + 1 = i
      OBVIOUS
    <3> HIDE DEF j
    <3>2. IsBlock(D[j]) /\ D[i] = LionessDecrypt(se[j], D[j])
      <4>1. IsBlock(D[i - 1])
        BY <2>2
      <4>2. D[j + 1] = LionessDecrypt(se[j], D[j])
        BY <1>1, <3>1
      <4> QED BY <3>1, <4>1, <4>2 DEF j
    <3>3. IsBlock(D[i])
      BY <3>2, LayerInverts
    <3> QED BY <1>1, <3>3
  <2> HIDE DEF S
  <2> QED BY <1>1, <2>1, <2>2, FromTo
<1>3. ASSUME NEW i \in k..v PROVE D[i] = LionessEncrypt(se[i], D[i + 1])
  <2>1. IsBlock(D[i])
    BY <1>1, <1>2
  <2> QED BY <1>1, <2>1, LayerInverts
<1>4. ASSUME Clean(D[v + 1]) PROVE Clean(D[k])
  <2>1. v + 1 \in T
    BY <1>1, <1>4
  <2>2. ASSUME NEW i \in k..((v + 1) - 1), i + 1 \in T PROVE i \in T
    <3>1. i \in k..v /\ i \in k..(v + 1) /\ i + 1 \in k..(v + 1)
      BY <1>1
    <3>2. IsBlock(D[i + 1]) /\ Clean(D[i + 1])
      BY <1>2, <2>2, <3>1
    <3>3. Clean(D[i])
      BY <1>3, <3>1, <3>2, CleanStays
    <3> QED BY <3>1, <3>3
  <2>3. \A i \in k..(v + 1) : i \in T
    <3> HIDE DEF T
    <3> QED BY <1>1, <2>1, <2>2, DownTo
  <2> QED BY <1>1, <2>3
<1> QED BY <1>2, <1>3, <1>4

(* A reply is recovered from what is left of it. *)
LEMMA LayersRestore ==
    ASSUME NEW se, NEW v \in Nat, v >= 1, Len(se) = v, NEW D, IsPeeled(D, se, 1, v), IsBlock(D[1])
    PROVE  Layers(se, D[v + 1]) = D[1]
<1>1. PICK g : IsLayered(g, se, v, D[v + 1]) /\ Layers(se, D[v + 1]) = g[1]
  BY LayersAre
<1>2. g[v + 1] = D[v + 1] /\ \A i \in 1..v : g[i] = LionessEncrypt(se[i], g[i + 1])
  BY <1>1 DEF IsLayered
<1>3. \A i \in 1..v : D[i] = LionessEncrypt(se[i], D[i + 1])
  <2>1. 1 \in 1..v
    OBVIOUS
  <2> QED BY <2>1, PeeledLayers
<1> DEFINE S == {i \in 1..(v + 1) : g[i] = D[i]}
<1>4. v + 1 \in S
  BY <1>2
<1>5. ASSUME NEW i \in 1..((v + 1) - 1), i + 1 \in S PROVE i \in S
  <2>1. i \in 1..v /\ i \in 1..(v + 1)
    OBVIOUS
  <2>2. g[i] = D[i]
    BY <1>2, <1>3, <1>5, <2>1
  <2> QED BY <2>1, <2>2
<1>6. \A i \in 1..(v + 1) : i \in S
  <2>1. 1 \in Nat /\ v + 1 \in Nat /\ 1 <= v + 1
    OBVIOUS
  <2> HIDE DEF S
  <2> QED BY <1>4, <1>5, <2>1, DownTo
<1> QED BY <1>1, <1>6

(* A path with its headers, and what it takes to have one. *)
IsRoute(p, v, x, surbId, b) ==
    /\ IsPath(p, v) /\ x \in Unit
    /\ IsHeader(b, p, v, Delays(p), surbId, Secrets(p, x))

(* From the k-th hop to the u-th the payload loses its layers, and nothing else happens. *)
LEMMA Carried ==
    ASSUME NEW p, NEW v, NEW x, NEW surbId, NEW b, IsRoute(p, v, x, surbId, b),
           NEW k \in 1..v, NEW u \in k..v, NEW D, IsPeeled(D, Secrets(p, x), k, v),
           NEW q, IsPath(q, u), \A i \in 1..u : q[i] = p[i]
    PROVE  Journey(q, k, Hop(p, x, b, k, D[k])) = Process(p[u], Hop(p, x, b, u, D[u]))
<1> DEFINE se == Secrets(p, x)
           W == [i \in 1..v |-> Hop(p, x, b, i, D[i])]
<1>1. v \in Nat /\ u \in Nat /\ u \in 1..v /\ k \in 1..u /\ DOMAIN p = 1..v /\ IsPath(p, v) /\ x \in Unit
  BY MixnetAssumption DEF IsPath, IsRoute
<1>2. \A i \in 1..v : W[i] = Hop(p, x, b, i, D[i])
  OBVIOUS
<1> HIDE DEF W
<1>3. ASSUME NEW i \in k..(u - 1)
      PROVE  Process(q[i], W[i]) = [kind |-> "forward", next |-> q[i + 1], delay |-> 10 * i, packet |-> W[i + 1]]
  <2>1. i \in 1..(v - 1) /\ i \in k..v /\ i \in 1..v /\ i + 1 \in 1..v /\ i \in 1..u /\ i + 1 \in 1..u
    BY <1>1
  <2>2. q[i] = p[i] /\ q[i + 1] = p[i + 1] /\ Delays(p)[i] = 10 * i
    BY <1>1, <2>1 DEF Delays
  <2>3. D[i + 1] = LionessDecrypt(se[i], D[i])
    BY <2>1 DEF IsPeeled
  <2>4. IsHeader(b, p, v, Delays(p), surbId, se)
    BY DEF IsRoute
  <2>5. Process(p[i], Hop(p, x, b, i, D[i])) =
           [kind |-> "forward", next |-> p[i + 1], delay |-> Delays(p)[i],
            packet |-> Hop(p, x, b, i + 1, LionessDecrypt(se[i], D[i]))]
    BY <1>1, <2>1, <2>4, HopForwards
  <2> HIDE DEF se
  <2> QED BY <1>2, <2>1, <2>2, <2>3, <2>5
<1>4. Journey(q, k, W[k]) = Process(q[u], W[u])
  BY <1>1, <1>3, Travels
<1>5. W[k] = Hop(p, x, b, k, D[k]) /\ W[u] = Hop(p, x, b, u, D[u]) /\ q[u] = p[u]
  BY <1>1, <1>2
<1> QED BY <1>4, <1>5

(* So the last hop has what is left of it. *)
LEMMA CarriedToLast ==
    ASSUME NEW p, NEW v, NEW x, NEW surbId, NEW b, IsRoute(p, v, x, surbId, b),
           NEW k \in 1..v, NEW D, IsPeeled(D, Secrets(p, x), k, v)
    PROVE  Journey(p, k, Hop(p, x, b, k, D[k])) = Arrival(surbId, D[v + 1])
<1>1. v \in Nat /\ v \in k..v /\ IsPath(p, v) /\ x \in Unit /\ IsHeader(b, p, v, Delays(p), surbId, Secrets(p, x))
  BY MixnetAssumption DEF IsPath, IsRoute
<1>2. Journey(p, k, Hop(p, x, b, k, D[k])) = Process(p[v], Hop(p, x, b, v, D[v]))
  BY <1>1, Carried
<1>3. D[v + 1] = LionessDecrypt(Secrets(p, x)[v], D[v])
  BY <1>1 DEF IsPeeled
<1>4. Process(p[v], Hop(p, x, b, v, D[v])) = Arrival(surbId, LionessDecrypt(Secrets(p, x)[v], D[v]))
  BY <1>1, HopDelivers
<1> QED BY <1>2, <1>3, <1>4

(* What the k-th hop is given. *)
LEMMA PacketIs ==
    ASSUME NEW p, NEW v, NEW x, NEW surbId, NEW b, IsRoute(p, v, x, surbId, b),
           NEW k \in 1..v, NEW D, IsPeeled(D, Secrets(p, x), 1, v)
    PROVE  PacketAt(p, k, Hop(p, x, b, 1, D[1])) = Hop(p, x, b, k, D[k])
<1> DEFINE first == Hop(p, x, b, 1, D[1])
<1>1. CASE k = 1
  BY <1>1 DEF PacketAt
<1>2. CASE k # 1
  <2> DEFINE u == k - 1
             q == SubSeq(p, 1, u)
  <2>1. v \in Nat /\ u \in 1..v /\ u \in 1..(v - 1) /\ u + 1 = k /\ 1 \in 1..v /\ v <= MaxHops /\ p \in [1..v -> Mix] /\ MaxHops \in Nat
    BY <1>2, MixnetAssumption DEF IsRoute, IsPath
  <2>2. q \in [1..u -> Mix] /\ \A i \in 1..u : q[i] = p[i]
    <3>1. p \in Seq(Mix) /\ Len(p) = v
      BY <2>1
    <3>2. q = [i \in 1..u |-> p[i]]
      BY <2>1, <3>1
    <3>3. \A i \in 1..u : p[i] \in Mix
      BY <2>1
    <3> HIDE DEF q, u
    <3> QED BY <3>2, <3>3
  <2>3. IsPath(q, u)
    <3>1. u \in 1..MaxHops
      BY <2>1
    <3> HIDE DEF u, q
    <3> QED BY <2>2, <3>1 DEF IsPath
  <2>4. PacketAt(p, k, first) = Journey(q, 1, first).packet
    BY <1>2 DEF PacketAt
  <2>5. IsPath(p, v) /\ x \in Unit /\ IsHeader(b, p, v, Delays(p), surbId, Secrets(p, x))
    BY DEF IsRoute
  <2> HIDE DEF q, u, first
  <2>6. Journey(q, 1, first) = Process(p[u], Hop(p, x, b, u, D[u]))
    BY <2>1, <2>2, <2>3, Carried DEF first
  <2>7. D[k] = LionessDecrypt(Secrets(p, x)[u], D[u])
    BY <2>1 DEF IsPeeled
  <2>8. Process(p[u], Hop(p, x, b, u, D[u])) =
           [kind |-> "forward", next |-> p[u + 1], delay |-> Delays(p)[u],
            packet |-> Hop(p, x, b, u + 1, LionessDecrypt(Secrets(p, x)[u], D[u]))]
    BY <2>1, <2>5, HopForwards
  <2> QED BY <2>1, <2>4, <2>6, <2>7, <2>8 DEF first
<1> QED BY <1>1, <1>2

(* Tags of unlike headers are unlike, and so are those under unlike secrets. *)
LEMMA TagsDiffer == \A s, t, b, c : Mu(s, b) = Mu(t, c) => s = t /\ b = c
<1> SUFFICES ASSUME NEW s, NEW t, NEW b, NEW c, Mu(s, b) = Mu(t, c) PROVE s = t /\ b = c
  OBVIOUS
<1>1. Mu(s, b)[2] = s /\ Mu(t, c)[2] = t /\ Mu(s, b)[3] = b /\ Mu(t, c)[3] = c
  BY DEF Mu
<1> QED BY <1>1

(* A mix that is not the one meant refuses. *)
LEMMA OthersRefuse ==
    ASSUME NEW p, NEW v, NEW x, NEW surbId, NEW b, IsRoute(p, v, x, surbId, b),
           NEW k \in 1..v, NEW load, NEW m \in Mix, m # p[k]
    PROVE  Process(m, Hop(p, x, b, k, load)) = [kind |-> "refused"]
<1> DEFINE packet == Hop(p, x, b, k, load)
           a == Alphas(p, x)[k - 1]
<1>1. IsPath(p, v) /\ x \in Unit /\ p[k] \in Mix
  BY DEF IsRoute, IsPath
<1>2. a \in Unit /\ Secrets(p, x)[k] = Secret(p[k], a)
  BY <1>1, SecretsAre
<1>3. packet.alpha = a /\ packet.beta = b[k] /\ packet.gamma = Mu(Secrets(p, x)[k], b[k])
  BY DEF Hop
<1> HIDE DEF packet, a
<1>4. Secret(m, a) # Secret(p[k], a)
  BY <1>1, <1>2, SecretsDiffer
<1>5. Mu(Secret(m, packet.alpha), packet.beta) # packet.gamma
  BY <1>2, <1>3, <1>4, TagsDiffer
<1>6. Process(m, packet) = [kind |-> "refused"]
  BY <1>5, ProcessIs
<1> QED BY <1>6 DEF packet

(* A packet is what its first hop is to be given. *)
LEMMA OnionIs ==
    ASSUME NEW p, NEW v, IsPath(p, v), NEW x \in Unit, NEW m \in Body
    PROVE  \E b, D : /\ IsRoute(p, v, x, NoSurb, b)
                     /\ IsPeeled(D, Secrets(p, x), 1, v)
                     /\ D[v + 1] = EncodeBody(m)
                     /\ \A i \in 1..v : IsBlock(D[i]) /\ Clean(D[i])
                     /\ Create(p, Delays(p), m, x) = Hop(p, x, b, 1, D[1])
<1> DEFINE se == Secrets(p, x)
           block == EncodeBody(m)
           onion == Create(p, Delays(p), m, x)
<1>1. v \in Nat /\ v >= 1
  BY MixnetAssumption DEF IsPath
<1>2. PICK b : /\ IsHeader(b, p, v, Delays(p), NoSurb, se)
               /\ BuildHeader(p, Delays(p), NoSurb, x) =
                     [alpha |-> x, beta |-> b[1], gamma |-> Mu(se[1], b[1]), secrets |-> se]
  BY HeadersAre
<1>3. Len(se) = v
  BY SecretsAre
<1>4. PICK D : IsLayered(D, se, v, block) /\ Layers(se, block) = D[1]
  <2> HIDE DEF se, block
  <2> QED BY <1>1, <1>3, LayersAre
<1>5. IsRoute(p, v, x, NoSurb, b)
  BY <1>2 DEF IsRoute
<1>6. IsPeeled(D, se, 1, v) /\ \A i \in 1..v : IsBlock(D[i]) /\ Clean(D[i])
  <2>1. IsBlock(block) /\ Clean(block)
    BY BodiesAre
  <2>2. \A i \in 1..v : i \in 1..(v + 1)
    BY <1>1
  <2> HIDE DEF se, block
  <2> QED BY <1>1, <1>4, <2>1, <2>2, LayeredPeels
<1>7. D[v + 1] = block
  BY <1>4 DEF IsLayered
<1>9. Fits(p)
  BY <1>1 DEF Fits, IsPath
<1>8. onion = Hop(p, x, b, 1, D[1])
  <2>1. Alphas(p, x)[1 - 1] = x
    <3>1. 1 - 1 = 0
      OBVIOUS
    <3> QED BY <3>1, AlphasAre
  <2> HIDE DEF se, block
  <2>2. onion = [alpha |-> x, beta |-> b[1], gamma |-> Mu(se[1], b[1]), payload |-> D[1]]
    BY <1>2, <1>4, <1>9 DEF Create, block
  <2> QED BY <2>1, <2>2 DEF Hop, se
<1> QED BY <1>5, <1>6, <1>7, <1>8

(* So is an answer to a reply block. *)
LEMMA ReplyIs ==
    ASSUME NEW p, NEW v, IsPath(p, v), NEW x \in Unit, NEW m \in Body, NEW id, NEW key
    PROVE  \E b : /\ IsRoute(p, v, x, id, b)
                  /\ UseSurb(CreateSurb(p, Delays(p), id, x, key), m) =
                        Hop(p, x, b, 1, LionessEncrypt(key, EncodeBody(m)))
<1> DEFINE se == Secrets(p, x)
           load == LionessEncrypt(key, EncodeBody(m))
<1>1. PICK b : /\ IsHeader(b, p, v, Delays(p), id, se)
               /\ BuildHeader(p, Delays(p), id, x) =
                     [alpha |-> x, beta |-> b[1], gamma |-> Mu(se[1], b[1]), secrets |-> se]
  BY HeadersAre
<1>2. Alphas(p, x)[1 - 1] = x
  <2>1. 1 - 1 = 0
    OBVIOUS
  <2> QED BY <2>1, AlphasAre
<1> HIDE DEF se
<1>3. UseSurb(CreateSurb(p, Delays(p), id, x, key), m) =
         [alpha |-> x, beta |-> b[1], gamma |-> Mu(se[1], b[1]), payload |-> load]
  <2>1. Fits(p)
    BY DEF Fits, IsPath
  <2> QED BY <1>1, <2>1 DEF UseSurb, CreateSurb
<1>4. Hop(p, x, b, 1, load) = [alpha |-> x, beta |-> b[1], gamma |-> Mu(se[1], b[1]), payload |-> load]
  <2> HIDE DEF load
  <2> QED BY <1>2 DEF Hop, se
<1> QED BY <1>1, <1>3, <1>4 DEF IsRoute, se

(* What damage makes of a packet. *)
LEMMA AlteredIs ==
    ASSUME NEW a, NEW beta, NEW tag, NEW load,
           NEW packet \in Altered([alpha |-> a, beta |-> beta, gamma |-> tag, payload |-> load])
    PROVE  \/ \E j \in 1..MaxHops :
                 packet = [alpha |-> a, beta |-> [beta EXCEPT ![j] = Xor(@, {Damage})], gamma |-> tag, payload |-> load]
           \/ packet = [alpha |-> a, beta |-> beta, gamma |-> tag, payload |-> [load EXCEPT !.l = Xor(@, {Damage})]]
           \/ packet = [alpha |-> a, beta |-> beta, gamma |-> tag, payload |-> [load EXCEPT !.r = Xor(@, {Damage})]]
<1> DEFINE old == [alpha |-> a, beta |-> beta, gamma |-> tag, payload |-> load]
           inHeader(j) == [old EXCEPT !.beta[j] = Xor(@, {Damage})]
           inLeft == [old EXCEPT !.payload.l = Xor(@, {Damage})]
           inRight == [old EXCEPT !.payload.r = Xor(@, {Damage})]
<1>1. (\E j \in 1..MaxHops : packet = inHeader(j)) \/ packet = inLeft \/ packet = inRight
  <2> HIDE DEF old
  <2> QED BY Zenon DEF Altered, Damage, old
<1>2. \A j : inHeader(j) =
                [alpha |-> a, beta |-> [beta EXCEPT ![j] = Xor(@, {Damage})], gamma |-> tag, payload |-> load]
  OBVIOUS
<1>3. /\ inLeft = [alpha |-> a, beta |-> beta, gamma |-> tag, payload |-> [load EXCEPT !.l = Xor(@, {Damage})]]
      /\ inRight = [alpha |-> a, beta |-> beta, gamma |-> tag, payload |-> [load EXCEPT !.r = Xor(@, {Damage})]]
  OBVIOUS
<1> HIDE DEF inHeader, inLeft, inRight
<1>4. CASE \E j \in 1..MaxHops : packet = inHeader(j)
  BY <1>2, <1>4, Zenon
<1>5. CASE packet = inLeft \/ packet = inRight
  BY <1>3, <1>5, Zenon
<1> QED BY <1>1, <1>4, <1>5, Zenon

(* An input that is an onion has a path and begins with an element. *)
LEMMA OnionInput ==
    ASSUME Tagged, input[1] = "onion"
    PROVE  (\E v : IsPath(input[2], v)) /\ input[3] \in Unit /\ Message \in Body
<1>1. PICK p \in UNION {Paths(s, d, h) : s \in Mix, d \in Mix, h \in 1..MaxHops}, x \in Ephemeral : input = <<"onion", p, x>>
  BY DEF Tagged, Onion
<1>2. PICK s \in Mix, d \in Mix, h \in 1..MaxHops : p \in Paths(s, d, h)
  BY <1>1
<1>3. IsPath(p, h)
  BY <1>2 DEF Paths, IsPath
<1>4. x \in Unit
  BY EphemeralAssumption DEF Unit
<1>5. input[2] = p /\ input[3] = x
  BY <1>1
<1>6. Message \in Body
  BY MixnetAssumption DEF Message
<1> QED BY <1>3, <1>4, <1>5, <1>6

(***************************************************************************)
(* For every prime order of the group, keys, mixes, directory, number of   *)
(* blocks and path of any admitted length: a packet is forwarded hop by    *)
(* hop, after the delays that were chosen, to the one who has its body,    *)
(* nobody else on the way takes it, and a reply comes back to be read.     *)
(***************************************************************************)
THEOREM OnionsDelivered == Spec => []OnionsArrive
<1>1. Tagged => OnionsArrive
  <2> SUFFICES ASSUME Tagged, input[1] = "onion" PROVE OnionsArrive
    BY DEF OnionsArrive
  <2> DEFINE p == input[2]
             x == input[3]
             m == Message
             se == Secrets(p, x)
             onion == Create(p, Delays(p), m, x)
             surb == CreateSurb(p, Delays(p), SurbId, x, SurbKey)
             reply == Journey(p, 1, UseSurb(surb, m))
  <2>1. PICK v : IsPath(p, v)
    BY OnionInput
  <2>2. x \in Unit /\ m \in Body /\ v \in Nat /\ v >= 1 /\ 1 \in 1..v /\ DOMAIN p = 1..v
    BY <2>1, OnionInput, MixnetAssumption DEF IsPath
  <2> HIDE DEF p, x, m
  <2>3. /\ Journey(p, 1, onion) = [kind |-> "deliver", body |-> m]
        /\ \A k \in DOMAIN p, n \in Mix : n # p[k] => Process(n, PacketAt(p, k, onion)).kind = "refused"
    <3>1. PICK b, D : /\ IsRoute(p, v, x, NoSurb, b)
                      /\ IsPeeled(D, se, 1, v)
                      /\ D[v + 1] = EncodeBody(m)
                      /\ onion = Hop(p, x, b, 1, D[1])
      BY <2>1, <2>2, OnionIs
    <3>2. Journey(p, 1, onion) = Open(EncodeBody(m))
      <4>1. Journey(p, 1, Hop(p, x, b, 1, D[1])) = Arrival(NoSurb, D[v + 1])
        <5> HIDE DEF onion
        <5> QED BY <2>2, <3>1, CarriedToLast
      <4> HIDE DEF onion
      <4> QED BY <3>1, <4>1 DEF Arrival
    <3>3. Open(EncodeBody(m)) = [kind |-> "deliver", body |-> m]
      BY <2>2, BodiesAre
    <3>4. ASSUME NEW k \in DOMAIN p, NEW n \in Mix, n # p[k]
          PROVE  Process(n, PacketAt(p, k, onion)).kind = "refused"
      <4>1. k \in 1..v
        BY <2>2
      <4>2. PacketAt(p, k, onion) = Hop(p, x, b, k, D[k])
        BY <3>1, <4>1, PacketIs
      <4>3. Process(n, Hop(p, x, b, k, D[k])) = [kind |-> "refused"]
        BY <3>1, <3>4, <4>1, OthersRefuse
      <4> QED BY <4>2, <4>3
    <3> QED BY <3>2, <3>3, <3>4
  <2>4. /\ surb.first = p[1] /\ reply.kind = "surb" /\ reply.id = SurbId
        /\ RecoverReply(ReplyKeys(p, x, SurbKey), reply.payload) = [kind |-> "deliver", body |-> m]
    <3> DEFINE block == EncodeBody(m)
               load == LionessEncrypt(SurbKey, block)
    <3>1. PICK b : IsRoute(p, v, x, SurbId, b) /\ UseSurb(surb, m) = Hop(p, x, b, 1, load)
      BY <2>1, <2>2, ReplyIs
    <3>2. IsBlock(block) /\ IsBlock(load) /\ LionessDecrypt(SurbKey, load) = block
      BY <2>2, BodiesAre, LayerInverts
    <3> HIDE DEF block, load
    <3>3. PICK D : IsPeeled(D, se, 1, v) /\ D[1] = load
      <4> HIDE DEF se
      <4>1. Peels(se, 1, v, load)
        BY <2>2, PeeledExist
      <4> QED BY <4>1 DEF Peels
    <3>4. SurbId # NoSurb
      BY DEF SurbId, NoSurb
    <3>5. reply = [kind |-> "surb", id |-> SurbId, payload |-> D[v + 1]]
      <4>1. Journey(p, 1, Hop(p, x, b, 1, D[1])) = Arrival(SurbId, D[v + 1])
        <5> HIDE DEF surb
        <5> QED BY <2>2, <3>1, <3>3, CarriedToLast
      <4> HIDE DEF surb
      <4> QED BY <3>1, <3>3, <3>4, <4>1 DEF Arrival
    <3>6. Layers(se, D[v + 1]) = load
      <4>1. Len(se) = v
        BY <2>1, <2>2, SecretsAre
      <4> HIDE DEF se
      <4> QED BY <2>2, <3>2, <3>3, <4>1, LayersRestore
    <3>7. RecoverReply(ReplyKeys(p, x, SurbKey), D[v + 1]) = Open(block)
      BY <3>2, <3>6 DEF RecoverReply, ReplyKeys
    <3>8. Open(block) = [kind |-> "deliver", body |-> m]
      BY <2>2, BodiesAre DEF block
    <3>9. surb.first = p[1]
      BY <2>1, <2>2 DEF CreateSurb, Fits, IsPath
    <3> HIDE DEF surb, reply
    <3> QED BY <3>5, <3>7, <3>8, <3>9
  <2> HIDE DEF onion, surb, reply
  <2> QED BY <2>3, <2>4 DEF OnionsArrive, p, x, m, onion, surb, reply
<1> QED BY <1>1, TaggedInit, TaggedStep, PTL DEF Spec

(***************************************************************************)
(* Nor is a packet with a damaged header or payload delivered to anybody,  *)
(* wherever the damage is done: the next hop sees it in the header, and no *)
(* layer hides it in the payload.                                          *)
(***************************************************************************)
THEOREM DamageRefused == Spec => []DamagedAreRefused
<1>1. Tagged => DamagedAreRefused
  <2> SUFFICES ASSUME Tagged, input[1] = "onion" PROVE DamagedAreRefused
    BY DEF DamagedAreRefused
  <2> DEFINE p == input[2]
             x == input[3]
             m == Message
             se == Secrets(p, x)
             onion == Create(p, Delays(p), m, x)
             no == [kind |-> "refused"]
  <2>1. PICK v : IsPath(p, v)
    BY OnionInput
  <2>2. x \in Unit /\ m \in Body /\ v \in Nat /\ DOMAIN p = 1..v
    BY <2>1, OnionInput, MixnetAssumption DEF IsPath
  <2> HIDE DEF p, x, m
  <2>3. PICK b, D : /\ IsRoute(p, v, x, NoSurb, b)
                    /\ IsPeeled(D, se, 1, v)
                    /\ \A i \in 1..v : IsBlock(D[i]) /\ Clean(D[i])
                    /\ onion = Hop(p, x, b, 1, D[1])
    BY <2>1, <2>2, OnionIs
  <2>4. ASSUME NEW k \in 1..v, NEW packet \in Altered(PacketAt(p, k, onion))
        PROVE  Journey(p, k, packet) = no
    <3> DEFINE hop == Hop(p, x, b, k, D[k])
               flip(a) == Xor(a, {Damage})
    <3>1. PacketAt(p, k, onion) = hop
      BY <2>3, PacketIs
    <3> DEFINE al == Alphas(p, x)[k - 1]
               tag == Mu(se[k], b[k])
               over(beta, load) == [alpha |-> al, beta |-> beta, gamma |-> tag, payload |-> load]
    <3>2. \A load : Hop(p, x, b, k, load) = over(b[k], load)
      BY DEF Hop
    <3>3. Secret(p[k], al) = se[k] /\ IsPath(p, v) /\ IsHeader(b, p, v, Delays(p), NoSurb, se) /\ Len(se) = v
      BY <2>2, <2>3, SecretsAre DEF IsRoute
    <3>4. ASSUME NEW a PROVE flip(a) # a /\ (Damage \notin a => Damage \in flip(a))
      BY DEF Xor, SymDiff
    <3>5. CASE \E j \in 1..MaxHops : packet = over([b[k] EXCEPT ![j] = flip(@)], D[k])
      <4>1. PICK j \in 1..MaxHops : packet = over([b[k] EXCEPT ![j] = flip(@)], D[k])
        BY <3>5
      <4> DEFINE beta == [b[k] EXCEPT ![j] = flip(@)]
      <4>2. b[k] = [i \in 1..MaxHops |-> b[k][i]]
        <5> HIDE DEF se
        <5> QED BY <3>3, HeadersFit
      <4>3. beta[j] = flip(b[k][j])
        <5> HIDE DEF flip
        <5> QED BY <4>2
      <4> HIDE DEF flip
      <4>4. beta # b[k]
        BY <3>4, <4>3
      <4> HIDE DEF beta
      <4>5. packet.alpha = al /\ packet.beta = beta /\ packet.gamma = tag
        BY <4>1 DEF beta
      <4> HIDE DEF al, se
      <4>6. Mu(Secret(p[k], packet.alpha), packet.beta) # packet.gamma
        BY <3>3, <4>4, <4>5, TagsDiffer
      <4>7. Process(p[k], packet) = no
        BY <4>6, ProcessIs
      <4> QED BY <2>1, <4>7, StaysRefused
    <3>6. ASSUME NEW load, packet = Hop(p, x, b, k, load), IsBlock(load), ~Clean(load)
          PROVE  Journey(p, k, packet) = no
      <4>1. PICK E : IsPeeled(E, se, k, v) /\ E[k] = load
        <5> HIDE DEF se
        <5>1. Peels(se, k, v, load)
          BY <2>2, PeeledExist
        <5> QED BY <5>1 DEF Peels
      <4>2. Journey(p, k, packet) = Open(E[v + 1])
        <5>1. Journey(p, k, Hop(p, x, b, k, E[k])) = Arrival(NoSurb, E[v + 1])
          <6> HIDE DEF onion
          <6> QED BY <2>3, <4>1, CarriedToLast
        <5> QED BY <3>6, <4>1, <5>1 DEF Arrival
      <4>3. ASSUME NEW n \in Body, E[v + 1] = EncodeBody(n) PROVE FALSE
        <5>1. Clean(E[v + 1])
          BY <4>3, BodiesAre
        <5> HIDE DEF se
        <5>2. Clean(load)
          BY <2>2, <3>6, <4>1, <5>1, PeeledLayers
        <5> QED BY <3>6, <5>2
      <4> QED BY <4>2, <4>3, BodiesAre
    <3>7. CASE packet = over(b[k], [D[k] EXCEPT !.l = flip(@)])
      <4> DEFINE load == [l |-> flip(D[k].l), r |-> D[k].r]
      <4>1. IsBlock(load) /\ ~Clean(load)
        <5>1. Damage \notin D[k].l
          BY <2>3 DEF Clean
        <5>2. Damage \in flip(D[k].l)
          BY <3>4, <5>1
        <5> QED BY <5>2 DEF IsBlock, Clean
      <4>2. D[k] = [l |-> D[k].l, r |-> D[k].r]
        BY <2>3 DEF IsBlock
      <4>3. packet = Hop(p, x, b, k, load)
        <5>1. [D[k] EXCEPT !.l = flip(@)] = load
          <6> HIDE DEF flip
          <6> QED BY <4>2
        <5> HIDE DEF load, over
        <5> QED BY <3>2, <3>7, <5>1
      <4> QED BY <3>6, <4>1, <4>3
    <3>8. CASE packet = over(b[k], [D[k] EXCEPT !.r = flip(@)])
      <4> DEFINE load == [l |-> D[k].l, r |-> flip(D[k].r)]
      <4>1. IsBlock(load) /\ ~Clean(load)
        <5>1. Damage \notin D[k].r
          BY <2>3 DEF Clean
        <5>2. Damage \in flip(D[k].r)
          BY <3>4, <5>1
        <5> QED BY <5>2 DEF IsBlock, Clean
      <4>2. D[k] = [l |-> D[k].l, r |-> D[k].r]
        BY <2>3 DEF IsBlock
      <4>3. packet = Hop(p, x, b, k, load)
        <5>1. [D[k] EXCEPT !.r = flip(@)] = load
          <6> HIDE DEF flip
          <6> QED BY <4>2
        <5> HIDE DEF load, over
        <5> QED BY <3>2, <3>8, <5>1
      <4> QED BY <3>6, <4>1, <4>3
    <3>9. packet \in Altered(over(b[k], D[k]))
      BY <3>1, <3>2
    <3> HIDE DEF al, tag
    <3>10. \/ \E j \in 1..MaxHops : packet = over([b[k] EXCEPT ![j] = flip(@)], D[k])
           \/ packet = over(b[k], [D[k] EXCEPT !.l = flip(@)])
           \/ packet = over(b[k], [D[k] EXCEPT !.r = flip(@)])
      BY <3>9, AlteredIs
    <3> QED BY <3>5, <3>7, <3>8, <3>10
  <2>5. no.kind = "refused"
    OBVIOUS
  <2> HIDE DEF no, onion
  <2> QED BY <2>2, <2>4, <2>5 DEF DamagedAreRefused, p, x, m, onion
<1> QED BY <1>1, TaggedInit, TaggedStep, PTL DEF Spec

-----------------------------------------------------------------------------
(* Completeness of the proofs of a sealed share. *)

(* Operations stay in the field, and what goes in may be reduced before. *)
LEMMA Operations ==
    ASSUME NEW a \in Int, NEW b \in Int
    PROVE  /\ Add(a, b) \in Field /\ Sub(a, b) \in Field /\ Mul(a, b) \in Field
           /\ Add(a, b) = Add(b, a) /\ Mul(a, b) = Mul(b, a)
           /\ a \in Field => Add(Sub(a, b), b) = a /\ Sub(b, Sub(b, a)) = a
<1>1. a + b \in Int /\ a - b \in Int /\ a * b \in Int /\ a + b = b + a /\ a * b = b * a
  OBVIOUS
<1>2. Add(a, b) \in Field /\ Sub(a, b) \in Field /\ Mul(a, b) \in Field
  BY <1>1, ModIs DEF Add, Sub, Mul
<1>3. Add(a, b) = Add(b, a) /\ Mul(a, b) = Mul(b, a)
  BY <1>1 DEF Add, Mul
<1>4. ASSUME a \in Field PROVE Add(Sub(a, b), b) = a
  <2>1. (((a - b) % R) + b) % R = ((a - b) + b) % R /\ (a - b) + b = a
    BY <1>1, ModAdd
  <2> QED BY <1>4, <2>1, ModOfField DEF Add, Sub
<1>5. ASSUME a \in Field PROVE Sub(b, Sub(b, a)) = a
  <2> DEFINE d == b - a
  <2>1. d \in Int /\ b - d = a
    OBVIOUS
  <2> HIDE DEF d
  <2>2. (b - (d % R)) % R = (b - d) % R
    BY <2>1, ModSub
  <2> QED BY <1>5, <2>1, <2>2, ModOfField DEF Sub, d
<1> QED BY <1>2, <1>3, <1>4, <1>5

(* Zero and one in it. *)
LEMMA ZeroAndOne ==
    /\ 0 \in Field /\ 1 \in Field
    /\ \A a \in Field : /\ Mul(0, a) = 0 /\ Mul(a, 0) = 0 /\ Mul(1, a) = a /\ Mul(a, 1) = a
                        /\ Add(0, a) = a /\ Add(a, 0) = a /\ Sub(a, 0) = a
<1>1. 0 \in Field /\ 1 \in Field
  BY FieldIsInt DEF Field
<1>2. ASSUME NEW a \in Field
      PROVE  /\ Mul(0, a) = 0 /\ Mul(a, 0) = 0 /\ Mul(1, a) = a /\ Mul(a, 1) = a
             /\ Add(0, a) = a /\ Add(a, 0) = a /\ Sub(a, 0) = a
  <2>1. a \in Int /\ a % R = a /\ 0 % R = 0
    BY <1>1, ModOfField, FieldIsInt
  <2>2. 0 * a = 0 /\ a * 0 = 0 /\ 1 * a = a /\ a * 1 = a /\ 0 + a = a /\ a + 0 = a /\ a - 0 = a
    BY <2>1
  <2> QED BY <2>1, <2>2 DEF Mul, Add, Sub
<1> QED BY <1>1, <1>2

(* A difference of points, by components. *)
LEMMA PointSubIs ==
    ASSUME NEW p \in Point, NEW q \in Point
    PROVE  PointSub(p, q) = [g |-> Sub(p.g, q.g), h |-> Sub(p.h, q.h)]
<1>1. ASSUME NEW a \in Field, NEW b \in Field PROVE Add(a, Mul(b, R - 1)) = Sub(a, b)
  <2>1. a \in Int /\ b \in Int /\ R \in Int /\ R - 1 \in Int
    BY FieldIsInt
  <2>2. Add(a, Mul(b, R - 1)) = (a + b * (R - 1)) % R
    BY <2>1, MulAdd
  <2>3. a + b * (R - 1) = (a - b) + b * R /\ a - b \in Int /\ a + b * (R - 1) \in Int
    BY <2>1
  <2> QED BY <2>1, <2>2, <2>3, ModShift DEF Sub
<1>2. p.g \in Field /\ p.h \in Field /\ q.g \in Field /\ q.h \in Field
  BY DEF Point
<1> QED BY <1>1, <1>2 DEF PointSub, PointAdd, PointMul

(* Points and their operations. *)
LEMMA Points ==
    /\ \A a, b \in Field : [g |-> a, h |-> b] \in Point /\ BitCommitment(a, b) = [g |-> a, h |-> b]
    /\ \A a \in Field : PointMul(H1, a) = [g |-> 0, h |-> a] /\ PointMul(G1, a) = [g |-> a, h |-> 0]
    /\ \A p \in Point, k \in Int : PointMul(p, k) \in Point
    /\ \A p, q \in Point : PointAdd(p, q) \in Point /\ PointSub(p, q) \in Point
    /\ \A p, q \in Point : PointAdd(PointSub(p, q), q) = p
<1>1. ASSUME NEW a \in Field PROVE PointMul(H1, a) = [g |-> 0, h |-> a] /\ PointMul(G1, a) = [g |-> a, h |-> 0]
  BY ZeroAndOne DEF PointMul, H1, G1
<1>2. ASSUME NEW a \in Field, NEW b \in Field
      PROVE  [g |-> a, h |-> b] \in Point /\ BitCommitment(a, b) = [g |-> a, h |-> b]
  BY <1>1, ZeroAndOne DEF Point, BitCommitment, PointAdd
<1>3. ASSUME NEW p \in Point, NEW k \in Int PROVE PointMul(p, k) \in Point
  BY Operations, FieldIsInt DEF Point, PointMul
<1>4. ASSUME NEW p \in Point, NEW q \in Point
      PROVE  PointAdd(p, q) \in Point /\ PointSub(p, q) \in Point /\ PointAdd(PointSub(p, q), q) = p
  <2>1. p.g \in Field /\ p.h \in Field /\ q.g \in Field /\ q.h \in Field /\ p = [g |-> p.g, h |-> p.h]
    BY DEF Point
  <2>2. p.g \in Int /\ p.h \in Int /\ q.g \in Int /\ q.h \in Int
    BY <2>1, FieldIsInt
  <2>3. PointAdd(p, q) \in Point
    BY <2>2, Operations DEF Point, PointAdd
  <2>4. PointSub(p, q) = [g |-> Sub(p.g, q.g), h |-> Sub(p.h, q.h)]
    BY PointSubIs
  <2>5. PointSub(p, q) \in Point
    BY <2>2, <2>4, Operations DEF Point
  <2>6. Add(Sub(p.g, q.g), q.g) = p.g /\ Add(Sub(p.h, q.h), q.h) = p.h
    BY <2>1, <2>2, Operations
  <2>7. PointAdd(PointSub(p, q), q) = [g |-> p.g, h |-> p.h]
    BY <2>4, <2>6 DEF PointAdd
  <2> QED BY <2>1, <2>3, <2>5, <2>7
<1> QED BY <1>1, <1>2, <1>3, <1>4

(* The true branch of the proof of a bit: a response to a challenge, for a commitment to zero. *)
LEMMA TrueBranch ==
    ASSUME NEW t \in Field, NEW k \in Field, NEW c \in Field
    PROVE  PointMul(H1, Add(k, Mul(c, t))) = PointAdd(PointMul(H1, k), PointMul([g |-> 0, h |-> t], c))
<1>1. t \in Int /\ k \in Int /\ c \in Int
  BY FieldIsInt
<1>2. Mul(c, t) \in Field /\ Mul(c, t) = Mul(t, c)
  BY <1>1, Operations
<1>3. Add(k, Mul(c, t)) \in Field
  <2>1. Mul(c, t) \in Int
    BY <1>2, FieldIsInt
  <2> QED BY <1>1, <2>1, Operations
<1>4. PointMul([g |-> 0, h |-> t], c) = [g |-> 0, h |-> Mul(t, c)]
  BY ZeroAndOne DEF PointMul
<1>5. Add(0, 0) = 0
  BY ZeroAndOne
<1>6. PointMul(H1, k) = [g |-> 0, h |-> k] /\ PointMul(H1, Add(k, Mul(c, t))) = [g |-> 0, h |-> Add(k, Mul(c, t))]
  BY <1>3, Points
<1> QED BY <1>2, <1>4, <1>5, <1>6 DEF PointAdd

(* What is proved of a bit is accepted. *)
LEMMA BitsAccepted ==
    ASSUME NEW b \in 0..1, NEW t \in Field, NEW c \in Field, NEW e \in Field, NEW z \in Field, NEW k \in Field
    PROVE  VerifyBit(BitCommitment(b, t), ProveBit(b, t, c, e, z, k), c)
<1> DEFINE P == BitCommitment(b, t)
           p == [d \in 0..1 |-> PointSub(P, PointMul(G1, d))]
           fake == PointSub(PointMul(H1, z), PointMul(p[1 - b], e))
           real == Sub(c, e)
           zr == Add(k, Mul(real, t))
           or == ProveBit(b, t, c, e, z, k)
<1>1. or = IF b = 0 THEN [a0 |-> PointMul(H1, k), a1 |-> fake, e0 |-> real, z0 |-> zr, z1 |-> z]
           ELSE [a0 |-> fake, a1 |-> PointMul(H1, k), e0 |-> e, z0 |-> z, z1 |-> zr]
  BY DEF ProveBit
<1>2. t \in Int /\ c \in Int /\ e \in Int /\ z \in Int /\ k \in Int /\ b \in Field /\ b \in Int
  BY ZeroAndOne, FieldIsInt
<1>3. real \in Field /\ Sub(c, real) = e
  BY <1>2, Operations
<1>4. P = [g |-> b, h |-> t] /\ P \in Point
  BY <1>2, Points
<1>5. G1 \in Point /\ PointMul(G1, 1) = G1 /\ PointMul(G1, 0) = [g |-> 0, h |-> 0] /\ [g |-> 0, h |-> 0] \in Point
  BY ZeroAndOne, Points DEF G1
<1>6. p[0] = PointSub(P, [g |-> 0, h |-> 0]) /\ p[1] = PointSub(P, G1)
  <2> HIDE DEF P
  <2> QED BY <1>5
<1>7. p[0] = P
  <2>1. PointSub(P, [g |-> 0, h |-> 0]) = [g |-> Sub(b, 0), h |-> Sub(t, 0)]
    BY <1>4, <1>5, PointSubIs
  <2> QED BY <1>2, <1>4, <1>6, <2>1, ZeroAndOne
<1> HIDE DEF P
<1>8. p[0] \in Point /\ p[1] \in Point
  BY <1>4, <1>5, <1>6, <1>7, Points
<1> HIDE DEF p
<1>9. PointMul(H1, z) \in Point /\ PointMul(p[0], e) \in Point /\ PointMul(p[1], e) \in Point
  <2>1. H1 \in Point
    BY ZeroAndOne DEF H1, Point
  <2> QED BY <1>2, <1>8, <2>1, Points
<1>10. CASE b = 0
  <2>1. or.a0 = PointMul(H1, k) /\ or.a1 = fake /\ or.e0 = real /\ or.z0 = zr /\ or.z1 = z
    BY <1>1, <1>10
  <2>2. fake = PointSub(PointMul(H1, z), PointMul(p[1], e))
    BY <1>10
  <2>3. PointMul(H1, z) = PointAdd(fake, PointMul(p[1], e))
    BY <1>9, <2>2, Points
  <2>4. PointMul(H1, zr) = PointAdd(PointMul(H1, k), PointMul(P, real))
    BY <1>3, <1>4, <1>10, TrueBranch
  <2> HIDE DEF or, fake, real, zr
  <2> QED BY <1>3, <1>6, <2>1, <2>3, <2>4 DEF VerifyBit, P, or
<1>11. CASE b = 1
  <2>1. or.a0 = fake /\ or.a1 = PointMul(H1, k) /\ or.e0 = e /\ or.z0 = z /\ or.z1 = zr
    BY <1>1, <1>11
  <2>2. fake = PointSub(PointMul(H1, z), PointMul(p[0], e))
    BY <1>11
  <2>3. PointMul(H1, z) = PointAdd(fake, PointMul(P, e))
    BY <1>7, <1>9, <2>2, Points
  <2>4. p[1] = [g |-> 0, h |-> t]
    <3>1. PointSub(P, G1) = [g |-> Sub(1, 1), h |-> Sub(t, 0)]
      BY <1>4, <1>5, <1>11, PointSubIs DEF G1
    <3>2. Sub(1, 1) = 0
      BY FieldIsInt DEF Sub
    <3> QED BY <1>6, <3>1, <3>2, ZeroAndOne
  <2>5. PointMul(H1, zr) = PointAdd(PointMul(H1, k), PointMul(p[1], real))
    BY <1>3, <2>4, TrueBranch
  <2> HIDE DEF or, fake, real, zr
  <2> QED BY <1>6, <2>1, <2>3, <2>5 DEF VerifyBit, P, or, real
<1> QED BY <1>10, <1>11 DEF P

(* The weights are positive and double. *)
LEMMA WeightIs ==
    /\ Weight[0] = 1 /\ \A i \in 1..LimbBits : Weight[i] = 2 * Weight[i - 1]
    /\ \A i \in 0..LimbBits : Weight[i] \in Nat /\ Weight[i] >= 1
<1> DEFINE Solves(f) == f = [i \in 0..LimbBits |-> IF i = 0 THEN 1 ELSE 2 * f[i - 1]]
           job == <<"weight">>
<1>1. LimbBits \in Nat
  BY LimbAssumption
<1>2. Weight = CHOOSE f : Solves(f)
  BY DEF Weight
<1>3. PICK f : Turns(f, job, 1, LimbBits)
  <2> HIDE DEF job
  <2> QED BY <1>1, TurnsExist
<1>4. \A i, y : Turn(job, i, y) = 2 * y
  BY DEF Turn
<1>5. Solves(f)
  BY <1>3, <1>4 DEF Turns
<1>6. Solves(Weight)
  <2> HIDE DEF Solves
  <2> QED BY <1>2, <1>5
<1>7. Weight[0] = 1 /\ \A i \in 1..LimbBits : Weight[i] = 2 * Weight[i - 1]
  <2>1. \A i \in 0..LimbBits : Weight[i] = IF i = 0 THEN 1 ELSE 2 * Weight[i - 1]
    BY <1>6
  <2>2. 0 \in 0..LimbBits /\ \A i \in 1..LimbBits : i \in 0..LimbBits /\ i # 0
    BY <1>1
  <2> QED BY <2>1, <2>2
<1> DEFINE S == {i \in 0..LimbBits : Weight[i] \in Nat /\ Weight[i] >= 1}
<1>8. 0 \in S
  BY <1>1, <1>7
<1>9. ASSUME NEW i \in 1..LimbBits, i - 1 \in S PROVE i \in S
  BY <1>7, <1>9
<1>10. \A i \in 0..LimbBits : i \in S
  <2> HIDE DEF S
  <2> QED BY <1>1, <1>8, <1>9, UpInduction
<1> QED BY <1>7, <1>10

(* Halving a quotient doubles what it is taken by. *)
LEMMA Halves ==
    ASSUME NEW m \in Nat, NEW w \in Nat, w >= 1
    PROVE  LET d == m \div w  h == m \div (2 * w)
           IN /\ d \in Int /\ h \in Int /\ d % 2 \in 0..1
              /\ d = 2 * h + (d % 2)
<1> DEFINE d == m \div w  r == m % w  h == m \div (2 * w)  s == m % (2 * w)  b == d % 2  k == d \div 2
<1>1. d \in Int /\ r \in 0..(w - 1) /\ m = w * d + r
  OBVIOUS
<1>2. h \in Int /\ s \in 0..(2 * w - 1) /\ m = (2 * w) * h + s
  <2> DEFINE v == 2 * w
  <2>1. v \in Nat /\ v >= 1
    OBVIOUS
  <2> HIDE DEF v
  <2>2. m \div v \in Int /\ m % v \in 0..(v - 1) /\ m = v * (m \div v) + (m % v)
    BY <2>1
  <2> QED BY <2>2 DEF v
<1> HIDE DEF d, r, h, s
<1>3. b \in 0..1 /\ k \in Int /\ d = 2 * k + b
  BY <1>1
<1> HIDE DEF b, k
<1>4. k = h
  <2> DEFINE t == w * b + r  wk == w * k  wh == w * h
  <2>1. t \in 0..(2 * w - 1)
    <3>1. b = 0 \/ b = 1
      BY <1>3
    <3>2. w * 0 = 0 /\ w * 1 = w
      OBVIOUS
    <3> QED BY <1>1, <3>1, <3>2
  <2>2. m = 2 * wk + t
    <3>1. w * (2 * k + b) = 2 * (w * k) + w * b
      BY <1>3
    <3>2. w * k \in Int /\ w * b \in Int /\ w * d \in Int
      BY <1>1, <1>3
    <3> QED BY <1>1, <1>3, <3>1, <3>2
  <2>3. m = 2 * wh + s
    <3>1. (2 * w) * h = 2 * (w * h)
      BY <1>2
    <3> QED BY <1>2, <3>1
  <2>4. wk \in Int /\ wh \in Int /\ t \in Int
    BY <1>1, <1>2, <1>3
  <2>5. wk - wh = w * (k - h)
    BY <1>2, <1>3
  <2> HIDE DEF t, wk, wh
  <2>6. wk - wh < w /\ wh - wk < w
    BY <1>2, <2>1, <2>2, <2>3, <2>4
  <2>7. k - h >= 1 => w * (k - h) >= w
    BY <1>2, <1>3
  <2>8. h - k >= 1 => w * (h - k) >= w
    BY <1>2, <1>3
  <2>9. wh - wk = w * (h - k)
    BY <1>2, <1>3 DEF wh, wk
  <2> QED BY <1>2, <1>3, <2>4, <2>5, <2>6, <2>7, <2>8, <2>9
<1> QED BY <1>1, <1>2, <1>3, <1>4 DEF d, h, b

(* The bits of a value, committed to with blindings t. *)
Committed(m, t) == [i \in 1..LimbBits |-> BitCommitment((m \div Weight[i - 1]) % 2, t[i])]

(* The commitments to its bits add up to one to the value. *)
LEMMA ValueIs ==
    ASSUME NEW m \in LimbValues, NEW t \in [1..LimbBits -> Field]
    PROVE  \E T \in Field : ValueCommitment(Committed(m, t)) = [g |-> m, h |-> T]
<1> DEFINE bits == Committed(m, t)
           base == [g |-> 0, h |-> 0]
           Solves(f) == f = [i \in 0..Len(bits) |->
                               IF i = 0 THEN base ELSE PointAdd(f[i - 1], PointMul(bits[i], Weight[i - 1]))]
           acc == CHOOSE f : Solves(f)
           job == <<"value", bits>>
           W(i) == Weight[i]
           Quotient(i) == m \div W(i)
<1>1. LimbBits \in Nat /\ m \in Nat /\ m < Weight[LimbBits] /\ Weight[LimbBits] < R
  BY WeightIs, LimbAssumption DEF LimbValues
<1>2. Len(bits) = LimbBits /\ \A i \in 1..LimbBits : bits[i] = BitCommitment(Quotient(i - 1) % 2, t[i])
  BY <1>1 DEF Committed
<1>3. ValueCommitment(bits) = acc[LimbBits]
  <2> HIDE DEF bits
  <2> QED BY <1>2 DEF ValueCommitment
<1> HIDE DEF bits
<1>4. Solves(acc)
  <2>1. PICK f : Turns(f, job, base, LimbBits)
    <3> HIDE DEF job, base
    <3> QED BY <1>1, TurnsExist
  <2>2. \A i, x : Turn(job, i, x) = PointAdd(x, PointMul(bits[i], Weight[i - 1]))
    BY DEF Turn
  <2>3. Solves(f)
    <3> HIDE DEF base
    <3> QED BY <1>2, <2>1, <2>2 DEF Turns
  <2> HIDE DEF Solves
  <2> QED BY <2>3
<1> HIDE DEF acc
<1>5. acc[0] = base /\ \A i \in 1..LimbBits : acc[i] = PointAdd(acc[i - 1], PointMul(bits[i], Weight[i - 1]))
  <2> HIDE DEF base
  <2>1. \A i \in 0..LimbBits : acc[i] = IF i = 0 THEN base ELSE PointAdd(acc[i - 1], PointMul(bits[i], Weight[i - 1]))
    BY <1>2, <1>4
  <2>2. 0 \in 0..LimbBits /\ \A i \in 1..LimbBits : i \in 0..LimbBits /\ i # 0
    BY <1>1
  <2> QED BY <2>1, <2>2
<1>6. \A i \in 0..LimbBits : W(i) \in Nat /\ W(i) >= 1
  BY WeightIs
<1> DEFINE S == {i \in 0..LimbBits : acc[i] \in Point /\ acc[i].g = (m - W(i) * Quotient(i)) % R}
<1>7. 0 \in S
  <2>1. W(0) = 1 /\ Quotient(0) = m /\ m - 1 * m = 0
    BY <1>1, WeightIs
  <2>2. base \in Point /\ base.g = 0 /\ 0 % R = 0
    BY ZeroAndOne, ModOfField DEF Point
  <2> HIDE DEF Quotient, W, base
  <2> QED BY <1>1, <1>5, <2>1, <2>2
<1>8. ASSUME NEW i \in 1..LimbBits, i - 1 \in S PROVE i \in S
  <2> DEFINE w == W(i - 1)  d == Quotient(i - 1)  h == Quotient(i)  b == d % 2
  <2>1. w \in Nat /\ w >= 1 /\ W(i) = 2 * w /\ i - 1 \in 0..LimbBits /\ i \in 0..LimbBits
    BY <1>1, WeightIs
  <2>2. d \in Int /\ h \in Int /\ b \in 0..1 /\ d = 2 * h + b
    <3> HIDE DEF W
    <3> QED BY <1>1, <2>1, Halves
  <2>3. bits[i] = [g |-> b, h |-> t[i]] /\ bits[i] \in Point /\ b \in Field
    <3>1. t[i] \in Field /\ b \in Field
      BY <2>2, ZeroAndOne
    <3>2. bits[i] = BitCommitment(b, t[i])
      BY <1>2
    <3> HIDE DEF b
    <3>3. \A x, y \in Field : [g |-> x, h |-> y] \in Point /\ BitCommitment(x, y) = [g |-> x, h |-> y]
      BY Points
    <3>4. [g |-> b, h |-> t[i]] \in Point /\ BitCommitment(b, t[i]) = [g |-> b, h |-> t[i]]
      BY <3>1, <3>3
    <3> QED BY <3>1, <3>2, <3>4
  <2>4. acc[i - 1] \in Point /\ acc[i - 1].g = (m - w * d) % R
    BY <1>8
  <2>5. acc[i] = PointAdd(acc[i - 1], PointMul(bits[i], w))
    BY <1>5
  <2> HIDE DEF w, d, h, b, Quotient, W
  <2>6. acc[i] \in Point
    <3>1. w \in Int /\ \A p \in Point, k \in Int : PointMul(p, k) \in Point
      BY <2>1, Points
    <3>2. \A p, q \in Point : PointAdd(p, q) \in Point
      BY Points
    <3> QED BY <2>3, <2>4, <2>5, <3>1, <3>2
  <2>7. acc[i].g = Add(acc[i - 1].g, Mul(b, w))
    BY <2>3, <2>5 DEF PointAdd, PointMul
  <2>8. acc[i].g = ((m - w * d) + b * w) % R
    <3> DEFINE x == m - w * d  y == b * w
    <3>1. x \in Int /\ y \in Int /\ b \in Int
      BY <1>1, <2>1, <2>2
    <3>2. acc[i].g = Add(x % R, y % R)
      BY <2>4, <2>7 DEF Mul
    <3> HIDE DEF x, y
    <3>3. acc[i].g = (x + y) % R
      BY <3>1, <3>2, AddReduced
    <3> QED BY <3>3 DEF x, y
  <2>9. (m - w * d) + b * w = m - W(i) * Quotient(i)
    <3>1. w * (2 * h + b) = (2 * w) * h + b * w
      BY <2>1, <2>2
    <3>2. w * d = (2 * w) * h + b * w /\ (2 * w) * h \in Int /\ b * w \in Int /\ w * d \in Int
      BY <2>1, <2>2, <3>1
    <3>3. W(i) * Quotient(i) = (2 * w) * h
      BY <2>1 DEF h
    <3> QED BY <1>1, <3>2, <3>3
  <2> QED BY <2>1, <2>6, <2>8, <2>9
<1>9. \A i \in 0..LimbBits : i \in S
  <2> HIDE DEF S
  <2> QED BY <1>1, <1>7, <1>8, UpInduction
<1>10. acc[LimbBits] \in Point /\ acc[LimbBits].g = m
  <2> DEFINE w == W(LimbBits)
  <2>1. LimbBits \in 0..LimbBits /\ w \in Nat /\ w >= 1 /\ m < w
    BY <1>1, <1>6
  <2>2. Quotient(LimbBits) = 0
    <3> HIDE DEF w
    <3>1. m \div w = 0
      BY <1>1, <2>1
    <3> QED BY <3>1 DEF w
  <2>3. acc[LimbBits] \in Point /\ acc[LimbBits].g = (m - w * Quotient(LimbBits)) % R
    BY <1>9, <2>1
  <2>4. m \in Field
    <3>1. w < R /\ R \in Int
      BY <1>1, FieldIsInt
    <3> HIDE DEF w
    <3> QED BY <1>1, <2>1, <3>1 DEF Field
  <2> HIDE DEF w, Quotient
  <2>5. m - w * Quotient(LimbBits) = m
    BY <1>1, <2>1, <2>2
  <2> QED BY <2>3, <2>4, <2>5, ModOfField
<1>11. acc[LimbBits] = [g |-> m, h |-> acc[LimbBits].h] /\ acc[LimbBits].h \in Field
  BY <1>10 DEF Point
<1> QED BY <1>3, <1>11 DEF bits

(* The proof that the ciphertext, the commitment and the randomness belong together is accepted. *)
LEMMA LinkAccepted ==
    ASSUME NEW q \in Field, NEW k \in Field, NEW m \in Field, NEW T \in Field, NEW rho \in Field, NEW c \in Field,
           NEW alpha \in Field, NEW beta \in Field, NEW gamma \in Field
    PROVE  LET pr == [gT |-> q, kPub |-> k]
           IN VerifyLink(pr, EncryptLimb(pr, m, rho), [g |-> m, h |-> T], LinkFirst(pr, alpha, beta, gamma), c,
                         LinkResponse(m, T, rho, c, alpha, beta, gamma))
<1> DEFINE pr == [gT |-> q, kPub |-> k]
           limb == EncryptLimb(pr, m, rho)
           cm == [g |-> m, h |-> T]
           first == LinkFirst(pr, alpha, beta, gamma)
           z == LinkResponse(m, T, rho, c, alpha, beta, gamma)
<1>1. /\ q \in Int /\ k \in Int /\ m \in Int /\ T \in Int /\ rho \in Int /\ c \in Int
      /\ alpha \in Int /\ beta \in Int /\ gamma \in Int
  BY FieldIsInt
<1>2. /\ z.zm = Add(alpha, Mul(c, m)) /\ z.zt = Add(beta, Mul(c, T)) /\ z.zrho = Add(gamma, Mul(c, rho))
      /\ first.ra = BitCommitment(alpha, beta) /\ first.rb = gamma
      /\ first.rc = Add(Mul(q, alpha), Mul(k, gamma))
      /\ limb.u = rho /\ limb.w = Add(Mul(q, m), Mul(k, rho))
  BY ZeroAndOne DEF LinkResponse, LinkFirst, EncryptLimb, GTMul, GTPow, Times
<1>3. /\ Mul(c, m) = Mul(m, c) /\ Mul(c, T) = Mul(T, c) /\ Mul(c, rho) = Mul(rho, c)
      /\ Mul(c, m) \in Int /\ Mul(c, T) \in Int /\ Mul(c, rho) \in Int
  <2>1. \A a, b \in Int : Mul(a, b) \in Int /\ Mul(a, b) = Mul(b, a)
    BY Operations, FieldIsInt
  <2> QED BY <1>1, <2>1
<1>4. Add(alpha, Mul(c, m)) \in Field /\ Add(beta, Mul(c, T)) \in Field
  BY <1>1, <1>3, Operations
<1> HIDE DEF z, first, limb
<1>5. BitCommitment(z.zm, z.zt) = PointAdd(first.ra, PointMul(cm, c))
  <2>1. BitCommitment(z.zm, z.zt) = [g |-> Add(alpha, Mul(c, m)), h |-> Add(beta, Mul(c, T))]
    <3>1. \A x, y \in Field : BitCommitment(x, y) = [g |-> x, h |-> y]
      BY Points
    <3> QED BY <1>2, <1>4, <3>1
  <2>2. first.ra = [g |-> alpha, h |-> beta]
    BY <1>2, Points
  <2>3. PointMul(cm, c) = [g |-> Mul(m, c), h |-> Mul(T, c)]
    BY DEF PointMul
  <2> QED BY <1>3, <2>1, <2>2, <2>3 DEF PointAdd
<1>6. z.zrho = Add(first.rb, Mul(limb.u, c))
  BY <1>2, <1>3
<1>7. Add(Mul(q, z.zm), Mul(k, z.zrho)) = Add(first.rc, Mul(limb.w, c))
  <2> DEFINE s == alpha + c * m  u == gamma + c * rho  x == q * alpha + k * gamma  y == q * m + k * rho
  <2>1. s \in Int /\ u \in Int /\ x \in Int /\ y \in Int /\ q * s \in Int /\ k * u \in Int /\ y * c \in Int
    BY <1>1
  <2>2. z.zm = s % R /\ z.zrho = u % R
    BY <1>1, <1>2, MulAdd
  <2>3. first.rc = x % R /\ limb.w = y % R
    <3>1. \A a, b \in Int : Add(a % R, b % R) = (a + b) % R
      BY AddReduced
    <3>2. q * alpha \in Int /\ k * gamma \in Int /\ q * m \in Int /\ k * rho \in Int
      BY <1>1
    <3> QED BY <1>2, <3>1, <3>2 DEF Mul
  <2> HIDE DEF s, u, x, y
  <2>4. Mul(q, z.zm) = (q * s) % R /\ Mul(k, z.zrho) = (k * u) % R
    BY <1>1, <2>1, <2>2, MulReduced
  <2>5. Mul(limb.w, c) = (y * c) % R
    BY <1>1, <2>1, <2>3, ModMul DEF Mul
  <2>6. Add(Mul(q, z.zm), Mul(k, z.zrho)) = (q * s + k * u) % R
    BY <2>1, <2>4, AddReduced
  <2>7. Add(first.rc, Mul(limb.w, c)) = (x + y * c) % R
    BY <2>1, <2>3, <2>5, AddReduced
  <2>8. q * s + k * u = x + y * c
    <3> DEFINE a1 == q * alpha  a2 == k * gamma  a3 == (q * m) * c  a4 == (k * rho) * c
    <3>1. a1 \in Int /\ a2 \in Int /\ a3 \in Int /\ a4 \in Int
      BY <1>1
    <3>2. q * (alpha + c * m) = a1 + a3
      BY <1>1
    <3>3. k * (gamma + c * rho) = a2 + a4
      BY <1>1
    <3>4. (q * m + k * rho) * c = a3 + a4
      BY <1>1
    <3>5. x = a1 + a2
      BY DEF x
    <3>6. q * s = a1 + a3 /\ k * u = a2 + a4 /\ y * c = a3 + a4
      BY <3>2, <3>3, <3>4 DEF s, u, y
    <3> HIDE DEF a1, a2, a3, a4
    <3> QED BY <3>1, <3>5, <3>6
  <2> QED BY <2>6, <2>7, <2>8
<1>8. VerifyLink(pr, limb, cm, first, c, z)
  <2>1. pr.gT = q /\ pr.kPub = k
    OBVIOUS
  <2> HIDE DEF pr, cm
  <2> QED BY <1>5, <1>6, <1>7, <2>1 DEF VerifyLink, GTMul, GTPow
<1> QED BY <1>8 DEF z, first, limb

(* A limb that is sealed and proved as the code does is accepted. *)
LEMMA LimbAccepted ==
    ASSUME NEW pr \in [gT : Field, kPub : Field], NEW m \in LimbValues, NEW rho \in Field,
           NEW t \in [1..LimbBits -> Field],
           NEW n \in [e : Field, z : Field, k : Field, alpha : Field, beta : Field, gamma : Field],
           NEW challenges \in [bit : [1..LimbBits -> Field], link : Field]
    PROVE  VerifyLimb(pr, EncryptLimb(pr, m, rho), ProveLimb(pr, m, rho, t, n, challenges), challenges)
<1> DEFINE cs == challenges.bit
           c == challenges.link
           b == [i \in 1..LimbBits |-> (m \div Weight[i - 1]) % 2]
           bits == Committed(m, t)
           ors == [i \in 1..LimbBits |-> ProveBit(b[i], t[i], cs[i], n.e, n.z, n.k)]
           proof == ProveLimb(pr, m, rho, t, n, challenges)
<1>1. LimbBits \in Nat /\ m \in Nat /\ m \in Field
  <2>1. LimbBits \in Nat /\ Weight[LimbBits] \in Nat /\ Weight[LimbBits] < R /\ m \in 0..(Weight[LimbBits] - 1)
    BY WeightIs, LimbAssumption DEF LimbValues
  <2> QED BY <2>1, FieldIsInt DEF Field
<1>2. \A i \in 1..LimbBits : b[i] \in 0..1
  <2> SUFFICES ASSUME NEW i \in 1..LimbBits PROVE (m \div Weight[i - 1]) % 2 \in 0..1
    OBVIOUS
  <2> DEFINE w == Weight[i - 1]
  <2>1. w \in Nat /\ w >= 1
    BY <1>1, WeightIs
  <2> HIDE DEF w
  <2>2. (m \div w) % 2 \in 0..1
    BY <1>1, <2>1, Halves
  <2> QED BY <2>2 DEF w
<1>3. bits = [i \in 1..LimbBits |-> BitCommitment(b[i], t[i])]
  BY DEF Committed
<1>4. /\ proof.bits = bits /\ proof.ors = ors
      /\ proof.first = LinkFirst(pr, n.alpha, n.beta, n.gamma)
      /\ proof.z = LinkResponse(m, ValueCommitment(bits).h, rho, c, n.alpha, n.beta, n.gamma)
  <2> HIDE DEF bits
  <2> QED BY <1>3 DEF ProveLimb
<1> HIDE DEF proof, b
<1>5. Len(bits) = LimbBits /\ Len(ors) = LimbBits
  BY <1>1, <1>3
<1>6. ASSUME NEW i \in 1..LimbBits PROVE VerifyBit(bits[i], ors[i], cs[i])
  <2>1. bits[i] = BitCommitment(b[i], t[i]) /\ ors[i] = ProveBit(b[i], t[i], cs[i], n.e, n.z, n.k)
    BY <1>3
  <2>2. b[i] \in 0..1 /\ t[i] \in Field /\ cs[i] \in Field
    BY <1>2
  <2> DEFINE x == b[i]  y == t[i]  d == cs[i]
  <2> HIDE DEF x, y, d
  <2>3. VerifyBit(BitCommitment(x, y), ProveBit(x, y, d, n.e, n.z, n.k), d)
    <3>1. x \in 0..1 /\ y \in Field /\ d \in Field
      BY <2>2 DEF x, y, d
    <3> QED BY <3>1, BitsAccepted
  <2> QED BY <2>1, <2>3 DEF x, y, d
<1>7. PICK T \in Field : ValueCommitment(bits) = [g |-> m, h |-> T]
  BY ValueIs
<1> HIDE DEF bits, ors
<1>8. VerifyLink(pr, EncryptLimb(pr, m, rho), ValueCommitment(bits), proof.first, c, proof.z)
  <2>1. VerifyLink(pr, EncryptLimb(pr, m, rho), [g |-> m, h |-> T], LinkFirst(pr, n.alpha, n.beta, n.gamma), c,
                   LinkResponse(m, T, rho, c, n.alpha, n.beta, n.gamma))
    <3> DEFINE q == pr.gT  k == pr.kPub  al == n.alpha  be == n.beta  ga == n.gamma
    <3>1. q \in Field /\ k \in Field /\ c \in Field /\ al \in Field /\ be \in Field /\ ga \in Field
          /\ pr = [gT |-> q, kPub |-> k]
      OBVIOUS
    <3> HIDE DEF q, k, al, be, ga, c
    <3>2. LET p == [gT |-> q, kPub |-> k]
          IN VerifyLink(p, EncryptLimb(p, m, rho), [g |-> m, h |-> T], LinkFirst(p, al, be, ga), c,
                        LinkResponse(m, T, rho, c, al, be, ga))
      BY <1>1, <3>1, LinkAccepted
    <3> QED BY <3>1, <3>2 DEF al, be, ga
  <2>2. ValueCommitment(bits).h = T
    BY <1>7
  <2> QED BY <1>4, <1>7, <2>1, <2>2
<1>9. VerifyLimb(pr, EncryptLimb(pr, m, rho), proof, challenges)
  BY <1>4, <1>5, <1>6, <1>8 DEF VerifyLimb
<1> QED BY <1>9 DEF proof

(***************************************************************************)
(* The proofs of a sealed share, sound and complete: whoever can answer two *)
(* challenges has told the truth (ProofsOpen), and what an honest node     *)
(* proves of the limb it seals is accepted by verify_limb, for every value *)
(* and randomness (LimbAccepted: and for any blindings and challenges).    *)
(***************************************************************************)
THEOREM LimbProofs == ASSUME R > 3 PROVE Spec => []LimbProofsHold
<1>1. Tagged => HonestAreAccepted
  <2> SUFFICES ASSUME Tagged, input[1] = "honest" PROVE HonestAreAccepted
    BY DEF HonestAreAccepted
  <2>1. PICK m \in [LimbIndex -> LimbValues], rho \in Field, t \in Field, c \in Field :
            input = <<"honest", m, rho, t, c>>
    BY DEF Tagged, Honest
  <2> DEFINE pr == Params(2, VerdictHash)
             q == Pairing(1, VerdictHash)
             k == Pairing(2, VerdictHash)
             cs == [i \in 1..LimbBits |-> Add(c, i)]
             ts == [i \in 1..LimbBits |-> Add(t, i)]
             n == [e |-> Add(c, 1), z |-> Add(c, 2), k |-> Mul(c, 3), alpha |-> Add(c, 4), beta |-> c, gamma |-> Mul(c, 2)]
             challenges == [bit |-> cs, link |-> c]
  <2>2. c \in Int /\ t \in Int /\ LimbBits \in Nat
    BY FieldIsInt, LimbAssumption
  <2>3. \A a, b \in Int : Add(a, b) \in Field /\ Mul(a, b) \in Field
    BY Operations
  <2>4. q \in Field /\ k \in Field /\ pr = [gT |-> q, kPub |-> k]
    BY <2>3 DEF Params, Pairing, VerdictHash
  <2>5. cs \in [1..LimbBits -> Field] /\ ts \in [1..LimbBits -> Field]
    BY <2>2, <2>3
  <2>6. Add(c, 1) \in Field /\ Add(c, 2) \in Field /\ Mul(c, 3) \in Field /\ Add(c, 4) \in Field /\ Mul(c, 2) \in Field
    BY <2>2, <2>3
  <2> HIDE DEF q, k, cs, ts
  <2> DEFINE ct == [j \in LimbIndex |-> EncryptLimb(pr, m[j], Add(rho, j))]
             proofs == [j \in LimbIndex |-> ProveLimb(pr, m[j], Add(rho, j), ts, n, challenges)]
  <2>7. ASSUME NEW j \in LimbIndex PROVE VerifyLimb(pr, ct[j], proofs[j], challenges)
    <3>1. /\ pr \in [gT : Field, kPub : Field]
          /\ n \in [e : Field, z : Field, k : Field, alpha : Field, beta : Field, gamma : Field]
          /\ challenges \in [bit : [1..LimbBits -> Field], link : Field]
      BY <2>4, <2>5, <2>6
    <3>2. Add(rho, j) \in Field
      <4>1. rho \in Int /\ j \in Int
        BY FieldIsInt, LimbAssumption DEF LimbIndex
      <4> QED BY <2>3, <4>1
    <3> HIDE DEF pr, n, challenges
    <3>3. VerifyLimb(pr, EncryptLimb(pr, m[j], Add(rho, j)), ProveLimb(pr, m[j], Add(rho, j), ts, n, challenges), challenges)
      BY <2>5, <3>1, <3>2, LimbAccepted
    <3> QED BY <3>3
  <2>8. Nonces(c) = n
    BY DEF Nonces
  <2>9. VerifyWellformed(pr, ct, proofs, [j \in LimbIndex |-> challenges])
    <3> HIDE DEF n, pr, challenges
    <3>1. DOMAIN ct = LimbIndex /\ DOMAIN proofs = LimbIndex
      OBVIOUS
    <3> HIDE DEF ct, proofs
    <3> QED BY <2>7, <3>1 DEF VerifyWellformed
  <2> HIDE DEF n, pr
  <2> QED BY <2>1, <2>8, <2>9 DEF HonestAreAccepted, cs, ts, pr
<1>2. Spec => []HonestAreAccepted
  BY <1>1, TaggedInit, TaggedStep, PTL DEF Spec
<1>3. Spec => []AcceptedOpens
  BY ProofsOpen
<1> QED BY <1>2, <1>3, PTL DEF LimbProofsHold
==============================================================================
