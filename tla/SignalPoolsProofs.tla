------------------------- MODULE SignalPoolsProofs -------------------------
(* Records are on chain once, their tallies agree, and the cohort of a burst only grows. *)
EXTENDS SignalPools, ChainPathLemmas

(* The chain q goes on where path ends. *)
Grown(path, q) ==
    /\ path \in Seq(SUBSET Record) /\ q \in Seq(SUBSET Record)
    /\ Len(path) <= Len(q) /\ \A i \in 1..Len(path) : q[i] = path[i]

-----------------------------------------------------------------------------
(* The inductive invariant. *)

PoolsFinite == (\A n \in Node : IsFiniteSet(pool[n])) /\ (\A i \in 1..Len(log) : IsFiniteSet(log[i]))

(* A pool has one record of each key: it is one of them that a leader puts into a block. *)
PoolsOnce == \A n \in Node : \A r, x \in pool[n] : Key(r) = Key(x) => r = x

IInv == TypeOK /\ PoolsFinite /\ PoolsOnce /\ RecordedOnce /\ TalliesAgree

-----------------------------------------------------------------------------
(* Finite sets. *)

(* A function of a finite domain takes finitely many values. *)
LEMMA RangeFinite ==
    ASSUME NEW S, IsFiniteSet(S), NEW f, DOMAIN f = S
    PROVE  IsFiniteSet({f[x] : x \in S})
<1> DEFINE T == {f[x] : x \in S}  g == [x \in S |-> f[x]]
<1>1. g \in Surjection(S, T)
  BY DEF Surjection
<1> HIDE DEF T, g
<1>2. IsFiniteSet(T)
  BY <1>1, FS_Surjection
<1> QED BY <1>2 DEF T

(* What a chain records, each record with its height, is finite. *)
LEMMA EntriesFinite ==
    ASSUME NEW path \in Seq(SUBSET Record), \A i \in 1..Len(path) : IsFiniteSet(path[i]), NEW kind
    PROVE  IsFiniteSet(Entries(path, kind))
<1> DEFINE f == [i \in 1..Len(path) |-> {i} \X path[i]]  S == {f[i] : i \in 1..Len(path)}
<1>1. IsFiniteSet(1..Len(path))
  BY FS_Interval
<1>2. IsFiniteSet(S)
  <2>1. DOMAIN f = 1..Len(path)
    OBVIOUS
  <2> HIDE DEF f
  <2> QED BY <1>1, <2>1, RangeFinite
<1>3. \A T \in S : IsFiniteSet(T)
  <2>1. \A i \in 1..Len(path) : IsFiniteSet({i} \X path[i])
    BY FS_Singleton, FS_Product
  <2> QED BY <2>1
<1>4. IsFiniteSet(UNION S)
  <2> HIDE DEF S
  <2> QED BY <1>2, <1>3, FS_UNION
<1>5. S = {{i} \X path[i] : i \in 1..Len(path)}
  OBVIOUS
<1>6. Entries(path, kind) \in SUBSET UNION S
  BY <1>5 DEF Entries
<1> HIDE DEF S
<1> QED BY <1>4, <1>6, FS_Subset

-----------------------------------------------------------------------------
(* Chains. *)

(* An entry is a record of that kind at a height of the chain. *)
LEMMA EntryAt ==
    ASSUME NEW path, NEW kind, NEW e
    PROVE  e \in Entries(path, kind) <=>
              \E i \in 1..Len(path) : \E r \in path[i] : e = <<i, r>> /\ r.kind = kind
BY DEF Entries

(* What is on chain is in some block. *)
LEMMA RecordedAt ==
    ASSUME NEW path, NEW r
    PROVE  r \in Recorded(path) <=> \E i \in 1..Len(path) : r \in path[i]
BY DEF Recorded

(* The plan of a scenario is a sequence of entries. *)
LEMMA PlanType ==
    ASSUME scenario \in Scenarios
    PROVE  /\ scenario.plan \in Seq([txs : SUBSET Tx, ops : SUBSET Op])
           /\ scenario.rogue \in [Node -> SUBSET Nat]
           /\ \A n \in Node : IsFiniteSet(scenario.rogue[n])
BY SignalPoolsAssumption DEF Scenario

(* What a chain has ordered is the beginning of the plan, as far as either goes. *)
LEMMA OrderedIs ==
    ASSUME scenario \in Scenarios, NEW path, Len(path) \in Nat
    PROVE  /\ Ordered(path) \in Seq([txs : SUBSET Tx, ops : SUBSET Op])
           /\ Len(Ordered(path)) \in Nat
           /\ Len(Ordered(path)) <= Len(path) /\ Len(Ordered(path)) <= Len(scenario.plan)
           /\ Len(Ordered(path)) = Len(path) \/ Len(Ordered(path)) = Len(scenario.plan)
           /\ \A i \in 1..Len(Ordered(path)) : Ordered(path)[i] = scenario.plan[i]
<1> DEFINE E == [txs : SUBSET Tx, ops : SUBSET Op]  P == scenario.plan  k == Min({Len(path), Len(P)})
<1>1. P \in Seq(E)
  BY PlanType
<1> HIDE DEF E, P
<1>2. Len(P) \in Nat
  BY <1>1
<1>3. k \in {Len(path), Len(P)} /\ k <= Len(path) /\ k <= Len(P)
  BY <1>2, MinType
<1> HIDE DEF k
<1>4. k \in Nat /\ \A i \in 1..k : P[i] \in E
  BY <1>1, <1>2, <1>3
<1>5. /\ SubSeq(P, 1, k) \in Seq(E)
      /\ Len(SubSeq(P, 1, k)) = IF 1 <= k THEN k - 1 + 1 ELSE 0
      /\ \A i \in 1..(k - 1 + 1) : SubSeq(P, 1, k)[i] = P[1 + i - 1]
  BY <1>4, SubSeqProperties
<1>6. Ordered(path) = SubSeq(P, 1, k)
  BY DEF Ordered, P, k
<1>7. Len(Ordered(path)) = k /\ \A i \in 1..k : Ordered(path)[i] = P[i]
  BY <1>4, <1>5, <1>6
<1>8. Ordered(path) \in Seq(E)
  BY <1>5, <1>6
<1> QED BY <1>2, <1>3, <1>4, <1>7, <1>8 DEF P, E

-----------------------------------------------------------------------------
(* What a chain says does not change when it grows. *)

(* A longer chain has ordered more of the plan, and what was ordered where it was. *)
LEMMA OrderedGrows ==
    ASSUME scenario \in Scenarios, NEW path, NEW q, Grown(path, q)
    PROVE  /\ Len(Ordered(path)) \in Nat /\ Len(Ordered(q)) \in Nat
           /\ Len(Ordered(path)) <= Len(Ordered(q)) /\ Len(Ordered(path)) <= Len(path)
           /\ \A i \in 1..Len(Ordered(path)) : Ordered(q)[i] = Ordered(path)[i]
<1>1. Len(path) \in Nat /\ Len(q) \in Nat /\ Len(path) <= Len(q)
  BY DEF Grown
<1>2. scenario.plan \in Seq([txs : SUBSET Tx, ops : SUBSET Op])
  BY PlanType
<1>3. Len(scenario.plan) \in Nat
  BY <1>2
<1>4. /\ Len(Ordered(path)) \in Nat
      /\ Len(Ordered(path)) <= Len(path) /\ Len(Ordered(path)) <= Len(scenario.plan)
      /\ Len(Ordered(path)) = Len(path) \/ Len(Ordered(path)) = Len(scenario.plan)
      /\ \A i \in 1..Len(Ordered(path)) : Ordered(path)[i] = scenario.plan[i]
  BY <1>1, OrderedIs
<1>5. /\ Len(Ordered(q)) \in Nat
      /\ Len(Ordered(q)) <= Len(q) /\ Len(Ordered(q)) <= Len(scenario.plan)
      /\ Len(Ordered(q)) = Len(q) \/ Len(Ordered(q)) = Len(scenario.plan)
      /\ \A i \in 1..Len(Ordered(q)) : Ordered(q)[i] = scenario.plan[i]
  BY <1>1, OrderedIs
<1>6. Len(Ordered(path)) <= Len(Ordered(q))
  BY <1>1, <1>3, <1>4, <1>5
<1> QED BY <1>4, <1>5, <1>6

(* The newcomer of a chain stays one, admitted at the same height. *)
LEMMA AdmittedGrows ==
    ASSUME scenario \in Scenarios, NEW path, NEW q, Grown(path, q), NEW p \in Newcomers(path)
    PROVE  /\ p \in Newcomers(q) /\ AdmittedAt(q, p) = AdmittedAt(path, p)
           /\ AdmittedAt(path, p) \in 1..Len(Ordered(path))
<1> DEFINE A == Joins(path, p)  B == Joins(q, p)  k == Len(Ordered(path))
<1>1. k \in Nat /\ Len(Ordered(q)) \in Nat /\ k <= Len(Ordered(q))
  BY OrderedGrows
<1>2. A \subseteq 1..k /\ B \subseteq 1..Len(Ordered(q)) /\ A # {}
  BY DEF Joins, Newcomers
<1>3. \A i \in 1..k : (i \in A <=> i \in B)
  <2>1. \A i \in 1..k : Ordered(q)[i] = Ordered(path)[i] /\ i \in 1..Len(Ordered(q))
    BY <1>1, OrderedGrows
  <2> QED BY <2>1 DEF Joins
<1>4. AdmittedAt(path, p) = Min(A) /\ AdmittedAt(q, p) = Min(B)
  BY DEF AdmittedAt
<1>5. p \in Newcomers(q)
  BY <1>2, <1>3 DEF Newcomers
<1> HIDE DEF A, B, k
<1>6. A \in SUBSET Nat /\ B \in SUBSET Nat /\ B # {}
  <2>1. A \in SUBSET Nat /\ B \in SUBSET Nat
    BY <1>2
  <2>2. PICK i \in A : TRUE
    BY <1>2
  <2>3. i \in 1..k
    BY <1>2
  <2> QED BY <1>3, <2>1, <2>3
<1>7. Min(A) \in A /\ (\A y \in A : Min(A) <= y) /\ Min(B) \in B /\ (\A y \in B : Min(B) <= y)
  <2>1. Min(A) \in A /\ \A y \in A : Min(A) <= y
    BY <1>2, <1>6, MinType
  <2>2. Min(B) \in B /\ \A y \in B : Min(B) <= y
    BY <1>6, MinType
  <2> QED BY <2>1, <2>2
<1>8. Min(A) \in 1..k /\ Min(A) \in B /\ Min(B) <= Min(A) /\ Min(B) \in 1..Len(Ordered(q))
  BY <1>2, <1>3, <1>7
<1>9. Min(B) \in 1..k
  BY <1>1, <1>8
<1>10. Min(A) <= Min(B)
  BY <1>3, <1>7, <1>9
<1>11. Min(A) = Min(B)
  BY <1>8, <1>9, <1>10
<1> QED BY <1>4, <1>5, <1>8, <1>11 DEF k

(* The validator set at a height depends on what is below it. *)
LEMMA MembersGrow ==
    ASSUME scenario \in Scenarios, NEW path, NEW q, Grown(path, q), NEW h \in 1..Len(Ordered(path)) + 1
    PROVE  MembersAt(q, h) = MembersAt(path, h)
<1> DEFINE E == [txs : SUBSET Tx, ops : SUBSET Op]  a == Ordered(path)  b == Ordered(q)  k == h - 1
<1>1. /\ Len(a) \in Nat /\ Len(b) \in Nat /\ Len(a) <= Len(b)
      /\ \A i \in 1..Len(a) : b[i] = a[i]
  BY OrderedGrows
<1>2. a \in Seq(E) /\ b \in Seq(E)
  <2>1. Len(path) \in Nat /\ Len(q) \in Nat
    BY DEF Grown
  <2> QED BY <2>1, OrderedIs
<1>3. k \in 0..Len(a) /\ k \in Nat
  BY <1>1
<1>4. MembersAt(path, h) = ActiveSet(SubSeq(a, 1, Min({k, Len(a)})))
  BY DEF MembersAt
<1>5. MembersAt(q, h) = ActiveSet(SubSeq(b, 1, Min({k, Len(b)})))
  BY DEF MembersAt
<1> HIDE DEF E, a, b, k
<1>6. Min({k, Len(a)}) = k /\ Min({k, Len(b)}) = k
  <2>1. {k, Len(a)} \in SUBSET Nat /\ {k, Len(b)} \in SUBSET Nat
    BY <1>1, <1>3
  <2>2. /\ Min({k, Len(a)}) \in {k, Len(a)} /\ Min({k, Len(a)}) <= k
        /\ Min({k, Len(b)}) \in {k, Len(b)} /\ Min({k, Len(b)}) <= k
    BY <2>1, MinType
  <2> QED BY <1>1, <1>3, <2>2
<1>7. \A i \in 1..k : a[i] \in E /\ b[i] \in E /\ a[i] = b[i]
  BY <1>1, <1>2, <1>3
<1>8. /\ SubSeq(a, 1, k) \in Seq(E) /\ SubSeq(b, 1, k) \in Seq(E)
      /\ Len(SubSeq(a, 1, k)) = IF 1 <= k THEN k - 1 + 1 ELSE 0
      /\ Len(SubSeq(b, 1, k)) = IF 1 <= k THEN k - 1 + 1 ELSE 0
      /\ \A i \in 1..(k - 1 + 1) : SubSeq(a, 1, k)[i] = a[1 + i - 1] /\ SubSeq(b, 1, k)[i] = b[1 + i - 1]
  BY <1>3, <1>7, SubSeqProperties
<1>9. SubSeq(a, 1, k) = SubSeq(b, 1, k)
  <2>1. Len(SubSeq(a, 1, k)) = k /\ Len(SubSeq(b, 1, k)) = k
    BY <1>3, <1>8
  <2>2. \A i \in 1..k : SubSeq(a, 1, k)[i] = SubSeq(b, 1, k)[i]
    BY <1>3, <1>7, <1>8
  <2> QED BY <1>8, <2>1, <2>2, SeqEqual
<1> QED BY <1>4, <1>5, <1>6, <1>9

(* Records stay, at their heights. *)
LEMMA EntriesGrow ==
    ASSUME NEW path, NEW q, Grown(path, q), NEW kind
    PROVE  Entries(path, kind) \subseteq Entries(q, kind)
<1> SUFFICES ASSUME NEW e \in Entries(path, kind) PROVE e \in Entries(q, kind)
  OBVIOUS
<1>1. PICK i \in 1..Len(path) : \E r \in path[i] : e = <<i, r>> /\ r.kind = kind
  BY EntryAt
<1>2. i \in 1..Len(q) /\ q[i] = path[i]
  BY DEF Grown
<1> QED BY <1>1, <1>2, EntryAt

(* The commit heights are those of the blocks that have a commit. *)
LEMMA CommitHeightsAre ==
    ASSUME NEW path, NEW i
    PROVE  i \in CommitHeights(path) <=> i \in 1..Len(path) /\ \E r \in path[i] : r.kind = "commit"
<1>1. ASSUME i \in CommitHeights(path) PROVE i \in 1..Len(path) /\ \E r \in path[i] : r.kind = "commit"
  <2>1. PICK e \in Entries(path, "commit") : i = e[1]
    BY <1>1 DEF CommitHeights
  <2>2. PICK j \in 1..Len(path) : \E r \in path[j] : e = <<j, r>> /\ r.kind = "commit"
    BY EntryAt
  <2> QED BY <2>1, <2>2
<1>2. ASSUME i \in 1..Len(path), NEW r \in path[i], r.kind = "commit" PROVE i \in CommitHeights(path)
  <2>1. <<i, r>> \in Entries(path, "commit") /\ <<i, r>>[1] = i
    BY <1>2, EntryAt
  <2> QED BY <2>1 DEF CommitHeights
<1> QED BY <1>1, <1>2

(* And an oversight round, once there is one, is the first commit's for ever. *)
LEMMA RoundStays ==
    ASSUME NEW path, NEW q, Grown(path, q), NEW round \in OversightRound(path)
    PROVE  round \in OversightRound(q) /\ round \in 1..Len(path)
<1> DEFINE A == CommitHeights(path)  B == CommitHeights(q)
<1>1. Len(path) \in Nat /\ Len(q) \in Nat /\ Len(path) <= Len(q)
  BY DEF Grown
<1>2. A # {} /\ round = Min(A)
  BY DEF OversightRound
<1>3. \A i : (i \in A <=> i \in 1..Len(path) /\ \E r \in path[i] : r.kind = "commit")
  BY CommitHeightsAre
<1>4. \A i : (i \in B <=> i \in 1..Len(q) /\ \E r \in q[i] : r.kind = "commit")
  BY CommitHeightsAre
<1>5. \A i \in 1..Len(path) : (i \in A <=> i \in B)
  BY <1>1, <1>3, <1>4 DEF Grown
<1> HIDE DEF A, B
<1>6. A \subseteq 1..Len(path) /\ B \subseteq 1..Len(q) /\ B # {}
  BY <1>2, <1>3, <1>4, <1>5
<1>7. A \in SUBSET Nat /\ B \in SUBSET Nat
  BY <1>6
<1>8. Min(A) \in A /\ (\A y \in A : Min(A) <= y) /\ Min(B) \in B /\ (\A y \in B : Min(B) <= y)
  BY <1>2, <1>6, <1>7, MinType
<1>9. Min(A) \in 1..Len(path) /\ Min(A) \in B /\ Min(B) <= Min(A) /\ Min(B) \in 1..Len(q)
  BY <1>5, <1>6, <1>8
<1>10. Min(B) \in 1..Len(path)
  BY <1>1, <1>9
<1>11. Min(A) <= Min(B)
  BY <1>5, <1>8, <1>10
<1>12. Min(A) = Min(B)
  BY <1>9, <1>10, <1>11
<1>13. round \in OversightRound(q)
  BY <1>2, <1>6, <1>12 DEF OversightRound, B
<1> QED BY <1>2, <1>9, <1>13

(* An observation stays valid. *)
LEMMA AuditGrows ==
    ASSUME scenario \in Scenarios, NEW path, NEW q, Grown(path, q), NEW r, ValidAudit(path, r)
    PROVE  ValidAudit(q, r)
<1>1. r.about \in Newcomers(path) /\ r.claim = AdmittedAt(path, r.about) /\ r.by \in MembersAt(path, r.claim)
  BY DEF ValidAudit
<1>2. /\ r.about \in Newcomers(q) /\ AdmittedAt(q, r.about) = AdmittedAt(path, r.about)
      /\ AdmittedAt(path, r.about) \in 1..Len(Ordered(path))
  BY <1>1, AdmittedGrows
<1>3. r.claim \in 1..Len(Ordered(path)) + 1
  <2>1. Len(Ordered(path)) \in Nat
    BY OrderedGrows
  <2> QED BY <1>1, <1>2, <2>1
<1>4. MembersAt(q, r.claim) = MembersAt(path, r.claim)
  BY <1>3, MembersGrow
<1> QED BY <1>1, <1>2, <1>4 DEF ValidAudit

(* The heights at which a newcomer was first seen stay. *)
LEMMA FirstSeenGrows ==
    ASSUME scenario \in Scenarios, NEW path, NEW q, Grown(path, q), NEW p
    PROVE  FirstSeen(path, p) \subseteq FirstSeen(q, p)
<1>1. Reports(path) \subseteq Reports(q)
  <2> SUFFICES ASSUME NEW r \in Reports(path) PROVE r \in Reports(q)
    OBVIOUS
  <2>1. PICK e \in Entries(path, "audit") : ValidAudit(path, e[2]) /\ r = e[2]
    BY DEF Reports
  <2>2. e \in Entries(q, "audit")
    BY EntriesGrow
  <2>3. ValidAudit(q, e[2])
    BY <2>1, AuditGrows
  <2> QED BY <2>1, <2>2, <2>3 DEF Reports
<1> QED BY <1>1 DEF FirstSeen

(***************************************************************************)
(* A burst does not dissolve: who was near each other stays so, and a      *)
(* score only grows.                                                       *)
(***************************************************************************)
LEMMA CohortGrows ==
    ASSUME scenario \in Scenarios, NEW path, NEW q, Grown(path, q)
    PROVE  FlaggedCohort(path) \subseteq FlaggedCohort(q)
<1> SUFFICES ASSUME NEW p \in FlaggedCohort(path) PROVE p \in FlaggedCohort(q)
  OBVIOUS
<1> DEFINE A == {x \in Seen(path) : Near(path, p, x)}  B == {x \in Seen(q) : Near(q, p, x)}
<1>1. p \in Seen(path) /\ Cardinality(A) >= BurstThreshold
  BY DEF FlaggedCohort
<1>2. \A x : FirstSeen(path, x) \subseteq FirstSeen(q, x)
  BY FirstSeenGrows
<1>3. Seen(path) \subseteq Seen(q) /\ Seen(q) \subseteq Node
  BY <1>2 DEF Seen
<1>4. A \subseteq B /\ B \subseteq Node
  BY <1>2, <1>3 DEF Near
<1> HIDE DEF A, B
<1>5. IsFiniteSet(B)
  BY <1>4, GenesisAssumption, FS_Subset
<1>6. /\ Cardinality(A) \in Nat /\ Cardinality(B) \in Nat /\ Cardinality(A) <= Cardinality(B)
  <2>1. A \in SUBSET B
    BY <1>4
  <2>2. IsFiniteSet(A) /\ Cardinality(A) <= Cardinality(B)
    BY <1>5, <2>1, FS_Subset
  <2> QED BY <1>5, <2>2, FS_CardinalityType
<1>7. Cardinality(B) >= BurstThreshold
  <2>1. BurstThreshold \in Nat
    BY SignalPoolsAssumption
  <2> QED BY <1>1, <1>6, <2>1
<1> QED BY <1>1, <1>3, <1>7 DEF FlaggedCohort, B

-----------------------------------------------------------------------------
(* The spike. *)

(* The epochs of a chain are those of a longer one up to where it ends. *)
LEMMA EpochsGrow ==
    ASSUME scenario \in Scenarios, NEW path, NEW q, Grown(path, q)
    PROVE  /\ Epochs(path) \subseteq 1..Len(Ordered(path)) /\ Epochs(q) \subseteq 1..Len(Ordered(q))
           /\ Epochs(path) = {i \in Epochs(q) : i <= Len(Ordered(path))}
<1>1. /\ Len(Ordered(path)) \in Nat /\ Len(Ordered(q)) \in Nat
      /\ Len(Ordered(path)) <= Len(Ordered(q))
      /\ \A i \in 1..Len(Ordered(path)) : Ordered(q)[i] = Ordered(path)[i]
  BY OrderedGrows
<1>2. Epochs(path) \subseteq 1..Len(Ordered(path)) /\ Epochs(q) \subseteq 1..Len(Ordered(q))
  BY DEF Epochs
<1>3. ASSUME NEW i \in 1..Len(Ordered(path)) PROVE i \in Epochs(path) <=> i \in Epochs(q)
  <2>1. i \in 1..Len(Ordered(q)) /\ Ordered(q)[i] = Ordered(path)[i]
    BY <1>1
  <2> QED BY <2>1 DEF Epochs
<1>4. \A i \in Epochs(q) : i <= Len(Ordered(path)) => i \in 1..Len(Ordered(path))
  BY <1>1, <1>2
<1>5. \A i \in Epochs(path) : i <= Len(Ordered(path))
  BY <1>1, <1>2
<1> QED BY <1>2, <1>3, <1>4, <1>5

(* How an item rises at an epoch depends on what is up to it. *)
LEMMA RiseStays ==
    ASSUME scenario \in Scenarios, NEW path, NEW q, Grown(path, q),
           NEW i \in Epochs(path), \E k \in Epochs(path) : k < i, NEW j
    PROVE  Rise(q, i, j) = Rise(path, i, j)
<1> DEFINE G(S) == MapThenSumSet(LAMBDA t : t.gossip[j], S)
           A == {k \in Epochs(path) : k < i}  B == {k \in Epochs(q) : k < i}
<1>1. /\ Len(Ordered(path)) \in Nat /\ \A k \in 1..Len(Ordered(path)) : Ordered(q)[k] = Ordered(path)[k]
  BY OrderedGrows
<1>2. /\ Epochs(path) \subseteq 1..Len(Ordered(path)) /\ Epochs(q) \subseteq 1..Len(Ordered(q))
      /\ Epochs(path) = {k \in Epochs(q) : k <= Len(Ordered(path))}
  BY EpochsGrow
<1>3. A = B
  <2>1. Len(Ordered(q)) \in Nat
    BY OrderedGrows
  <2> QED BY <1>1, <1>2, <2>1
<1>4. Max(A) = Max(B)
  BY <1>3
<1>5. Max(A) \in 1..Len(Ordered(path))
  <2>1. A \in SUBSET (0..Len(Ordered(path))) /\ A # {}
    BY <1>2
  <2> HIDE DEF A
  <2>2. Max(A) \in A
    BY <1>1, <2>1, MaxType
  <2> QED BY <1>2, <2>2 DEF A
<1>6. ASSUME NEW k \in 1..Len(Ordered(path)) PROVE ColumnSum(q, k, j) = ColumnSum(path, k, j)
  <2>1. ColumnSum(q, k, j) = G(Preferring(Ordered(q)[k].txs))
    BY DEF ColumnSum
  <2>2. ColumnSum(path, k, j) = G(Preferring(Ordered(path)[k].txs))
    BY DEF ColumnSum
  <2> HIDE DEF G
  <2> QED BY <1>1, <2>1, <2>2
<1>7. Rise(q, i, j) = ColumnSum(q, i, j) - ColumnSum(q, Max(B), j)
  BY DEF Rise
<1>8. Rise(path, i, j) = ColumnSum(path, i, j) - ColumnSum(path, Max(A), j)
  BY DEF Rise
<1> HIDE DEF A, B
<1> QED BY <1>2, <1>4, <1>5, <1>6, <1>7, <1>8

(* A spike names the earliest epoch of those that spike; that one stays the earliest. *)
LEMMA SpikeStays ==
    ASSUME scenario \in Scenarios, NEW path, NEW q, Grown(path, q),
           NEW i \in {spike.epoch : spike \in VelocitySpike(path)}
    PROVE  i \in {spike.epoch : spike \in VelocitySpike(q)}
<1>1. i \in Spiking(path) /\ \A k \in Spiking(path) : i <= k
  BY DEF VelocitySpike
<1>2. /\ Len(Ordered(path)) \in Nat /\ Len(Ordered(q)) \in Nat
  BY OrderedGrows
<1>3. /\ Epochs(path) \subseteq 1..Len(Ordered(path)) /\ Epochs(q) \subseteq 1..Len(Ordered(q))
      /\ Epochs(path) = {k \in Epochs(q) : k <= Len(Ordered(path))}
  BY EpochsGrow
<1>4. i \in Epochs(path) /\ (\E k \in Epochs(path) : k < i) /\ \E j \in Item : Rise(path, i, j) > Velocity
  BY <1>1 DEF Spiking
<1>5. i \in Spiking(q)
  <2>1. \A j \in Item : Rise(q, i, j) = Rise(path, i, j)
    BY <1>4, RiseStays
  <2>2. i \in Epochs(q) /\ \E k \in Epochs(q) : k < i
    BY <1>3, <1>4
  <2> QED BY <1>4, <2>1, <2>2 DEF Spiking
<1>6. ASSUME NEW k \in Spiking(q) PROVE i <= k
  <2>1. k \in Epochs(q) /\ (\E x \in Epochs(q) : x < k) /\ \E j \in Item : Rise(q, k, j) > Velocity
    BY DEF Spiking
  <2>2. k \in Nat /\ i \in Nat /\ i <= Len(Ordered(path))
    BY <1>2, <1>3, <1>4, <2>1
  <2>3. CASE k <= Len(Ordered(path))
    <3>1. k \in Epochs(path) /\ \E x \in Epochs(path) : x < k
      <4>1. PICK x \in Epochs(q) : x < k
        BY <2>1
      <4>2. x \in Nat /\ x <= Len(Ordered(path))
        BY <1>2, <1>3, <2>2, <2>3, <4>1
      <4> QED BY <1>3, <2>1, <2>3, <4>1, <4>2
    <3>2. \A j \in Item : Rise(q, k, j) = Rise(path, k, j)
      BY <3>1, RiseStays
    <3>3. k \in Spiking(path)
      BY <2>1, <3>1, <3>2 DEF Spiking
    <3> QED BY <1>1, <3>3
  <2>4. CASE ~(k <= Len(Ordered(path)))
    BY <1>2, <2>2, <2>4
  <2> QED BY <2>3, <2>4
<1>7. [epoch |-> i, item |-> Pushed(q, i)] \in VelocitySpike(q)
  BY <1>5, <1>6 DEF VelocitySpike
<1>8. [epoch |-> i, item |-> Pushed(q, i)].epoch = i
  OBVIOUS
<1> QED BY <1>7, <1>8

-----------------------------------------------------------------------------
(* What the drivers raise. *)

(* The chain of a node is a chain of blocks, and the log goes on where it ends. *)
LEMMA PrefixType ==
    ASSUME TypeOK, NEW n \in Node
    PROVE  /\ Prefix(n) \in Seq(SUBSET Record) /\ Len(Prefix(n)) = height[n] /\ height[n] \in 0..Len(log)
           /\ Len(log) \in Nat
           /\ \A i \in 1..height[n] : Prefix(n)[i] = log[i]
           /\ Grown(Prefix(n), Prefix(n)) /\ Grown(Prefix(n), log)
<1> DEFINE R == SUBSET Record
<1>1. log \in Seq(R) /\ height[n] \in 0..Len(log)
  BY DEF TypeOK
<1> HIDE DEF R
<1>2. Len(log) \in Nat /\ height[n] \in Nat /\ height[n] <= Len(log)
  BY <1>1
<1>3. \A i \in 1..height[n] : log[i] \in R
  BY <1>1, <1>2
<1>4. /\ Prefix(n) \in Seq(R)
      /\ Len(Prefix(n)) = IF 1 <= height[n] THEN height[n] - 1 + 1 ELSE 0
      /\ \A i \in 1..(height[n] - 1 + 1) : Prefix(n)[i] = log[1 + i - 1]
  BY <1>2, <1>3, SubSeqProperties DEF Prefix
<1>5. Len(Prefix(n)) = height[n] /\ \A i \in 1..height[n] : Prefix(n)[i] = log[i]
  BY <1>2, <1>4
<1> QED BY <1>1, <1>2, <1>4, <1>5 DEF Grown, R

(* The number of commits on a chain is a natural number. *)
LEMMA ObservedType ==
    ASSUME TypeOK, PoolsFinite, NEW n \in Node
    PROVE  Observed(Prefix(n)) \in Nat
<1>1. \A i \in 1..Len(Prefix(n)) : IsFiniteSet(Prefix(n)[i])
  <2>1. /\ Len(Prefix(n)) = height[n] /\ height[n] \in Nat /\ Len(log) \in Nat /\ height[n] <= Len(log)
        /\ \A i \in 1..height[n] : Prefix(n)[i] = log[i]
    BY PrefixType
  <2> QED BY <2>1 DEF PoolsFinite
<1>2. IsFiniteSet(Entries(Prefix(n), "commit"))
  BY <1>1, PrefixType, EntriesFinite
<1> QED BY <1>2, FS_CardinalityType DEF Observed

(* The observer's reports: finitely many, each with the admission height its chain gives. *)
LEMMA AuditsType ==
    ASSUME TypeOK, NEW n \in Node
    PROVE  /\ IsFiniteSet(Audits(n))
           /\ \A r \in Audits(n) : /\ r \in Record /\ r.kind = "audit" /\ r.by = n
                                   /\ r.claim = AdmittedAt(Prefix(n), r.about)
<1> DEFINE S == {q \in Newcomers(Prefix(n)) : n \in scenario.observers /\ <<"audit", q>> \notin done[n]}
           f == [p \in S |-> [kind |-> "audit", by |-> n, about |-> p, claim |-> AdmittedAt(Prefix(n), p)]]
<1>1. S \subseteq Newcomers(Prefix(n)) /\ S \subseteq Node
  BY DEF Newcomers
<1>2. IsFiniteSet(S)
  BY <1>1, GenesisAssumption, FS_Subset
<1>3. Audits(n) = {f[p] : p \in S}
  BY DEF Audits
<1>4. IsFiniteSet({f[p] : p \in S})
  <2>1. DOMAIN f = S
    OBVIOUS
  <2> HIDE DEF f, S
  <2> QED BY <1>2, <2>1, RangeFinite
<1>5. ASSUME NEW r \in Audits(n)
      PROVE /\ r \in Record /\ r.kind = "audit" /\ r.by = n
            /\ r.claim = AdmittedAt(Prefix(n), r.about)
  <2>1. PICK p \in S : r = [kind |-> "audit", by |-> n, about |-> p, claim |-> AdmittedAt(Prefix(n), p)]
    BY DEF Audits
  <2>2. scenario \in Scenarios
    BY DEF TypeOK
  <2>3. AdmittedAt(Prefix(n), p) \in 1..Len(Ordered(Prefix(n))) /\ Len(Ordered(Prefix(n))) \in Nat
    BY <1>1, <2>2, PrefixType, AdmittedGrows, OrderedGrows
  <2>4. p \in Node /\ p \in Nat /\ AdmittedAt(Prefix(n), p) \in Nat /\ AdmittedAt(Prefix(n), p) > 0
    <3>1. p \in Node /\ Node \subseteq Nat
      BY <1>1, SignalPoolsAssumption
    <3> HIDE DEF S
    <3> QED BY <2>3, <3>1
  <2> HIDE DEF S
  <2> QED BY <2>1, <2>4 DEF Record, Kinds
<1> QED BY <1>3, <1>4, <1>5

(* The commits of a rogue node are as many as its targets. *)
LEMMA CommitsType ==
    ASSUME TypeOK, NEW n \in Node
    PROVE  /\ IsFiniteSet(Commits(n))
           /\ \A r \in Commits(n) : r \in Record /\ r.kind = "commit" /\ r.by = n /\ r.claim = 0
<1> DEFINE S == {x \in scenario.rogue[n] : <<"commit", x>> \notin done[n]}
           f == [t \in S |-> [kind |-> "commit", by |-> n, about |-> t, claim |-> 0]]
<1>1. IsFiniteSet(scenario.rogue[n]) /\ scenario.rogue[n] \subseteq Nat
  <2>1. scenario \in Scenarios
    BY DEF TypeOK
  <2> QED BY <2>1, PlanType
<1>2. IsFiniteSet(S) /\ S \subseteq Nat
  BY <1>1, FS_Subset
<1>3. Commits(n) = {f[t] : t \in S}
  BY DEF Commits
<1>4. IsFiniteSet({f[t] : t \in S})
  <2>1. DOMAIN f = S
    OBVIOUS
  <2> HIDE DEF f, S
  <2> QED BY <1>2, <2>1, RangeFinite
<1>5. \A r \in Commits(n) : r \in Record /\ r.kind = "commit" /\ r.by = n /\ r.claim = 0
  <2> SUFFICES ASSUME NEW r \in Commits(n) PROVE r \in Record /\ r.kind = "commit" /\ r.by = n /\ r.claim = 0
    OBVIOUS
  <2>1. PICK t \in S : r = [kind |-> "commit", by |-> n, about |-> t, claim |-> 0]
    BY DEF Commits
  <2>2. t \in Nat
    BY <1>2
  <2> HIDE DEF S
  <2> QED BY <2>1, <2>2 DEF Record, Kinds
<1> QED BY <1>3, <1>4, <1>5

(* A watchdog raises one signal, about the oversight round, with the count of its chain. *)
LEMMA WatchdogsType ==
    ASSUME TypeOK, PoolsFinite, NEW n \in Node
    PROVE  /\ IsFiniteSet(WatchdogSignals(n))
           /\ \A r \in WatchdogSignals(n) : /\ r \in Record /\ r.kind = "watchdog" /\ r.by = n
                                            /\ r.claim = Observed(Prefix(n))
<1> DEFINE S == {x \in OversightRound(Prefix(n)) :
                    n \in scenario.watchdogs /\ <<"watchdog", 0>> \notin done[n] /\ Anomalous(Prefix(n))}
           c == Observed(Prefix(n))
           f == [x \in S |-> [kind |-> "watchdog", by |-> n, about |-> x, claim |-> c]]
<1>1. IsFiniteSet(OversightRound(Prefix(n)))
  BY FS_EmptySet, FS_Singleton DEF OversightRound
<1>2. IsFiniteSet(S)
  BY <1>1, FS_Subset
<1>3. WatchdogSignals(n) = {f[x] : x \in S}
  BY DEF WatchdogSignals
<1>4. IsFiniteSet({f[x] : x \in S})
  <2>1. DOMAIN f = S
    OBVIOUS
  <2> HIDE DEF f, S
  <2> QED BY <1>2, <2>1, RangeFinite
<1>5. ASSUME NEW r \in WatchdogSignals(n)
      PROVE r \in Record /\ r.kind = "watchdog" /\ r.by = n /\ r.claim = c
  <2>1. PICK x \in S : r = [kind |-> "watchdog", by |-> n, about |-> x, claim |-> c]
    BY DEF WatchdogSignals
  <2>2. x \in 1..Len(Prefix(n)) /\ c \in Nat
    BY PrefixType, RoundStays, ObservedType
  <2>3. x \in Nat
    BY <2>2
  <2> HIDE DEF S, c
  <2> QED BY <2>1, <2>2, <2>3 DEF Record, Kinds
<1> QED BY <1>3, <1>4, <1>5

(* A rewind signaler raises one signal, about the one spike, from its own height. *)
LEMMA RewindsType ==
    ASSUME TypeOK, NEW n \in Node
    PROVE  /\ IsFiniteSet(RewindSignals(n))
           /\ \A r \in RewindSignals(n) : r \in Record /\ r.kind = "rewind" /\ r.by = n /\ r.claim = height[n]
<1> DEFINE V == VelocitySpike(Prefix(n))
           S == {x \in V : /\ n \in scenario.rewinders /\ <<"rewind", 0>> \notin done[n]
                           /\ scenario.taste[n] # x.item /\ x.epoch - 1 < height[n]}
           f == [x \in S |-> [kind |-> "rewind", by |-> n, about |-> x.epoch, claim |-> height[n]]]
<1>1. scenario \in Scenarios
  BY DEF TypeOK
<1>2. Epochs(Prefix(n)) \subseteq 1..Len(Ordered(Prefix(n))) /\ Len(Ordered(Prefix(n))) \in Nat
  BY <1>1, PrefixType, EpochsGrow, OrderedGrows
<1>3. ASSUME NEW x \in V
      PROVE  x.epoch \in Spiking(Prefix(n)) /\ (\A k \in Spiking(Prefix(n)) : x.epoch <= k) /\ x.epoch \in Nat \ {0}
             /\ x = [epoch |-> x.epoch, item |-> Pushed(Prefix(n), x.epoch)]
  <2>1. PICK i \in {y \in Spiking(Prefix(n)) : \A k \in Spiking(Prefix(n)) : y <= k} :
               x = [epoch |-> i, item |-> Pushed(Prefix(n), i)]
    BY DEF VelocitySpike
  <2>2. i \in Epochs(Prefix(n))
    BY DEF Spiking
  <2> QED BY <1>2, <2>1, <2>2
<1>4. IsFiniteSet(V)
  <2>1. ASSUME NEW x \in V, NEW y \in V PROVE x = y
    <3>1. x.epoch = y.epoch
      BY <1>3
    <3> QED BY <1>3, <3>1
  <2>2. CASE V = {}
    BY <2>2, FS_EmptySet
  <2>3. CASE V # {}
    <3>1. PICK x \in V : TRUE
      BY <2>3
    <3>2. V = {x}
      BY <2>1, <3>1
    <3> QED BY <3>2, FS_Singleton
  <2> QED BY <2>2, <2>3
<1>5. IsFiniteSet(S)
  BY <1>4, FS_Subset
<1>6. RewindSignals(n) = {f[x] : x \in S}
  BY DEF RewindSignals
<1>7. IsFiniteSet({f[x] : x \in S})
  <2>1. DOMAIN f = S
    OBVIOUS
  <2> HIDE DEF f, S
  <2> QED BY <1>5, <2>1, RangeFinite
<1>8. ASSUME NEW r \in RewindSignals(n)
      PROVE  r \in Record /\ r.kind = "rewind" /\ r.by = n /\ r.claim = height[n]
  <2>1. PICK x \in S : r = [kind |-> "rewind", by |-> n, about |-> x.epoch, claim |-> height[n]]
    BY DEF RewindSignals
  <2>2. x.epoch \in Nat \ {0} /\ height[n] \in Nat /\ x.epoch <= height[n]
    BY <1>3, PrefixType
  <2> HIDE DEF S, V
  <2> QED BY <2>1, <2>2 DEF Record, Kinds
<1> QED BY <1>6, <1>7, <1>8

(* A leaver publishes records of two transactions of its own. *)
LEMMA PublishesType ==
    ASSUME TypeOK, NEW n \in Node
    PROVE  \A r \in Publishes(n) : r \in Record /\ r.kind = "proof"
<1> DEFINE path == Prefix(n)  P == Profiles(path, n)  k == Len(Ordered(path))
           last == Max(P)  before == Max(P \ {last})
<1> SUFFICES ASSUME NEW r \in Publishes(n) PROVE r \in Record /\ r.kind = "proof"
  OBVIOUS
<1>1. scenario \in Scenarios
  BY DEF TypeOK
<1>2. r \in Proofs(path, n)
  BY DEF Publishes
<1>3. /\ ~(Cardinality(P) < 2)
      /\ r = [kind |-> "proof", by |-> n, about |-> ProfileId(path, n, last), claim |-> ProfileId(path, n, before)]
  BY <1>2 DEF Proofs
<1>4. /\ Ordered(path) \in Seq([txs : SUBSET Tx, ops : SUBSET Op]) /\ k \in Nat
      /\ Epochs(path) \subseteq 1..k
  <2>1. Len(path) \in Nat /\ Grown(path, path)
    BY PrefixType DEF Grown
  <2> HIDE DEF path
  <2> QED BY <1>1, <2>1, OrderedIs, EpochsGrow
<1>5. P \subseteq Rows(path, n) /\ Rows(path, n) \subseteq Epochs(path)
  BY DEF Profiles, Rows
<1>6. ASSUME NEW i \in Rows(path, n) PROVE ProfileId(path, n, i) \in Nat
  <2>1. i \in 1..k /\ \E t \in Preferring(Ordered(path)[i].txs) : t.by = n
    BY <1>4, <1>5 DEF Rows
  <2>2. Ordered(path)[i] \in [txs : SUBSET Tx, ops : SUBSET Op]
    <3> DEFINE E == [txs : SUBSET Tx, ops : SUBSET Op]
    <3>1. Ordered(path) \in Seq(E)
      BY <1>4
    <3> HIDE DEF E
    <3>2. Ordered(path)[i] \in E
      BY <1>4, <2>1, <3>1
    <3> QED BY <3>2 DEF E
  <2>3. Preferring(Ordered(path)[i].txs) \subseteq Tx
    BY <2>2 DEF Preferring
  <2>4. (CHOOSE t \in Preferring(Ordered(path)[i].txs) : t.by = n) \in Tx
    BY <2>1, <2>3
  <2> QED BY <2>4 DEF ProfileId, Tx
<1> HIDE DEF P, k, path
<1>7. P \in SUBSET (0..k)
  BY <1>4, <1>5
<1>8. IsFiniteSet(P) /\ P # {} /\ \A x : P # {x}
  <2>1. IsFiniteSet(P)
    <3>1. IsFiniteSet(0..k)
      BY <1>4, FS_Interval
    <3> QED BY <1>7, <3>1, FS_Subset
  <2> QED BY <1>3, <2>1, FS_EmptySet, FS_Singleton
<1>9. last \in P
  BY <1>4, <1>7, <1>8, MaxType
<1>10. before \in P
  <2>1. P \ {last} \in SUBSET (0..k) /\ P \ {last} # {}
    BY <1>7, <1>8, <1>9
  <2>2. before \in P \ {last}
    BY <1>4, <2>1, MaxType
  <2> QED BY <2>2
<1> HIDE DEF last, before
<1>11. ProfileId(path, n, last) \in Nat /\ ProfileId(path, n, before) \in Nat
  BY <1>5, <1>6, <1>9, <1>10
<1> QED BY <1>3, <1>11 DEF Record, Kinds

-----------------------------------------------------------------------------
(* Keys. *)

(* A key tells the kind, the subject and, but for a proof, the author. *)
LEMMA KeyTells ==
    ASSUME NEW r, NEW x, Key(r) = Key(x)
    PROVE  r.kind = x.kind /\ r.about = x.about /\ (r.kind # "proof" => r.by = x.by)
<1>1. CASE r.kind = "proof" /\ x.kind = "proof"
  BY <1>1 DEF Key
<1>2. CASE r.kind # "proof" /\ x.kind # "proof"
  BY <1>2 DEF Key
<1>3. CASE r.kind = "proof" /\ x.kind # "proof"
  <2>1. <<r.kind, r.about>> = <<x.kind, x.by, x.about>>
    BY <1>3 DEF Key
  <2>2. Len(<<r.kind, r.about>>) = 2 /\ Len(<<x.kind, x.by, x.about>>) = 3
    OBVIOUS
  <2> QED BY <2>1, <2>2
<1>4. CASE r.kind # "proof" /\ x.kind = "proof"
  <2>1. <<r.kind, r.by, r.about>> = <<x.kind, x.about>>
    BY <1>4 DEF Key
  <2>2. Len(<<x.kind, x.about>>) = 2 /\ Len(<<r.kind, r.by, r.about>>) = 3
    OBVIOUS
  <2> QED BY <2>1, <2>2
<1> QED BY <1>1, <1>2, <1>3, <1>4

(* A tick raises finitely many records, and one of each key. *)
LEMMA RaisesType ==
    ASSUME TypeOK, PoolsFinite, NEW n \in Node
    PROVE  /\ IsFiniteSet(Raises(n)) /\ Raises(n) \subseteq Record
           /\ \A r, x \in Raises(n) : Key(r) = Key(x) => r = x
<1>1. /\ IsFiniteSet(Audits(n))
      /\ \A r \in Audits(n) : /\ r \in Record /\ r.kind = "audit" /\ r.by = n
                              /\ r.claim = AdmittedAt(Prefix(n), r.about)
  BY AuditsType
<1>2. /\ IsFiniteSet(Commits(n))
      /\ \A r \in Commits(n) : r \in Record /\ r.kind = "commit" /\ r.by = n /\ r.claim = 0
  BY CommitsType
<1>3. /\ IsFiniteSet(WatchdogSignals(n))
      /\ \A r \in WatchdogSignals(n) : /\ r \in Record /\ r.kind = "watchdog" /\ r.by = n
                                       /\ r.claim = Observed(Prefix(n))
  BY WatchdogsType
<1>4. /\ IsFiniteSet(RewindSignals(n))
      /\ \A r \in RewindSignals(n) : r \in Record /\ r.kind = "rewind" /\ r.by = n /\ r.claim = height[n]
  BY RewindsType
<1>5. IsFiniteSet(Raises(n))
  BY <1>1, <1>2, <1>3, <1>4, FS_Union DEF Raises
<1>6. Raises(n) \subseteq Record
  BY <1>1, <1>2, <1>3, <1>4 DEF Raises
<1>7. ASSUME NEW r \in Raises(n), NEW x \in Raises(n), Key(r) = Key(x) PROVE r = x
  <2>1. r.kind = x.kind /\ r.about = x.about /\ r.by = x.by
    <3>1. r.by = n /\ x.by = n
      BY <1>1, <1>2, <1>3, <1>4 DEF Raises
    <3> QED BY <1>7, <3>1, KeyTells
  <2>2. r.claim = x.claim
    <3>1. CASE r.kind = "audit"
      <4>1. r \in Audits(n) /\ x \in Audits(n)
        BY <1>2, <1>3, <1>4, <2>1, <3>1 DEF Raises
      <4> QED BY <1>1, <2>1, <4>1
    <3>2. CASE r.kind = "commit"
      <4>1. r \in Commits(n) /\ x \in Commits(n)
        BY <1>1, <1>3, <1>4, <2>1, <3>2 DEF Raises
      <4> QED BY <1>2, <4>1
    <3>3. CASE r.kind = "watchdog"
      <4>1. r \in WatchdogSignals(n) /\ x \in WatchdogSignals(n)
        BY <1>1, <1>2, <1>4, <2>1, <3>3 DEF Raises
      <4> QED BY <1>3, <4>1
    <3>4. CASE r.kind = "rewind"
      <4>1. r \in RewindSignals(n) /\ x \in RewindSignals(n)
        BY <1>1, <1>2, <1>3, <2>1, <3>4 DEF Raises
      <4> QED BY <1>4, <4>1
    <3>5. r.kind \in {"audit", "commit", "watchdog", "rewind"}
      BY <1>1, <1>2, <1>3, <1>4 DEF Raises
    <3> QED BY <3>1, <3>2, <3>3, <3>4, <3>5
  <2>3. r \in Record /\ x \in Record
    BY <1>6
  <2> QED BY <2>1, <2>2, <2>3 DEF Record
<1> QED BY <1>5, <1>6, <1>7

(* What a driver marks as done is a kind and a number. *)
LEMMA MarkType ==
    ASSUME TypeOK, NEW n \in Node, NEW r \in Record
    PROVE  Mark(n, r) \in Kinds \X Nat
<1>1. r.kind \in Kinds /\ r.about \in Nat
  BY DEF Record
<1>2. height[n] \in Nat
  BY PrefixType
<1> QED BY <1>1, <1>2 DEF Mark, Kinds

-----------------------------------------------------------------------------
(* Every step preserves the invariant. *)

(* The spike of a chain is a matter of the plan and of the chain. *)
LEMMA SpikeSame ==
    ASSUME scenario' = scenario, NEW path
    PROVE  VelocitySpike(path)' = VelocitySpike(path)
<1>1. Ordered(path)' = Ordered(path)
  BY DEF Ordered
<1>2. Epochs(path)' = Epochs(path)
  BY <1>1 DEF Epochs, Preferring
<1>3. \A i, j : ColumnSum(path, i, j)' = ColumnSum(path, i, j)
  <2> DEFINE G(S, j) == MapThenSumSet(LAMBDA t : t.gossip[j], S)
  <2> SUFFICES ASSUME NEW i, NEW j PROVE ColumnSum(path, i, j)' = ColumnSum(path, i, j)
    OBVIOUS
  <2>1. ColumnSum(path, i, j) = G(Preferring(Ordered(path)[i].txs), j)
    BY DEF ColumnSum
  <2>2. ColumnSum(path, i, j)' = G(Preferring(Ordered(path)'[i].txs), j)
    BY DEF ColumnSum, MapThenSumSet, MapThenFoldSet
  <2> HIDE DEF G
  <2> QED BY <1>1, <2>1, <2>2
<1>4. \A i, j : Rise(path, i, j)' = Rise(path, i, j)
  BY <1>2, <1>3 DEF Rise
<1>5. Spiking(path)' = Spiking(path)
  BY <1>2, <1>4 DEF Spiking
<1>6. \A i : Pushed(path, i)' = Pushed(path, i)
  BY <1>4 DEF Pushed
<1> QED BY <1>5, <1>6 DEF VelocitySpike

(* The tallies agree as long as the chain grows by valid records. *)
LEMMA TalliesStep ==
    ASSUME TypeOK, TalliesAgree, scenario' = scenario, Grown(log, log'),
           \A r \in Recorded(log') : r \in Recorded(log) \/ Valid(log, r)
    PROVE  TalliesAgree'
<1>1. PICK q : q = log'
  OBVIOUS
<1>2. /\ scenario \in Scenarios /\ Grown(log, q)
      /\ \A r \in Recorded(q) : r \in Recorded(log) \/ Valid(log, r)
  BY <1>1 DEF TypeOK
<1>3. ASSUME NEW r \in Recorded(q), r.kind = "watchdog" PROVE r.about \in OversightRound(q)
  <2>1. r.about \in OversightRound(log)
    BY <1>2, <1>3 DEF TalliesAgree, Valid, ValidWatchdog
  <2> QED BY <1>2, <2>1, RoundStays
<1>4. ASSUME NEW r \in Recorded(q), r.kind = "rewind"
      PROVE  r.about \in {spike.epoch : spike \in VelocitySpike(q)}
  <2>1. r.about \in {spike.epoch : spike \in VelocitySpike(log)}
    BY <1>2, <1>4 DEF TalliesAgree, Valid, ValidRewind
  <2> QED BY <1>2, <2>1, SpikeStays
<1>5. VelocitySpike(q)' = VelocitySpike(q)
  BY SpikeSame
<1>6. \A r \in Recorded(q) : /\ r.kind = "watchdog" => r.about \in OversightRound(q)
                             /\ r.kind = "rewind" => r.about \in {spike.epoch : spike \in VelocitySpike(q)'}
  BY <1>3, <1>4, <1>5
<1> QED BY <1>1, <1>6 DEF TalliesAgree

(* In particular as long as it does not grow. *)
LEMMA TalliesKept ==
    ASSUME TypeOK, TalliesAgree, UNCHANGED <<scenario, log>>
    PROVE  TalliesAgree'
<1>1. Grown(log, log')
  <2>1. log \in Seq(SUBSET Record) /\ log' = log
    BY DEF TypeOK
  <2>2. Len(log) \in Nat
    BY <2>1
  <2> QED BY <2>1, <2>2 DEF Grown
<1>2. \A r \in Recorded(log') : r \in Recorded(log)
  OBVIOUS
<1> QED BY <1>1, <1>2, TalliesStep

(* Where the log is left alone, the invariant is a matter of types and pools. *)
LEMMA LogKept ==
    ASSUME IInv, UNCHANGED <<scenario, log>>, TypeOK', PoolsOnce', \A n \in Node : IsFiniteSet(pool'[n])
    PROVE  IInv'
<1>1. TalliesAgree'
  BY TalliesKept DEF IInv
<1>2. RecordedOnce'
  BY DEF IInv, RecordedOnce
<1>3. PoolsFinite'
  BY DEF IInv, PoolsFinite
<1> QED BY <1>1, <1>2, <1>3 DEF IInv

(* Nothing is recorded or pooled at first. *)
LEMMA InitIInv == ASSUME Init PROVE IInv
<1>1. TypeOK
  <2>1. log \in Seq(SUBSET Record) /\ Len(log) = 0
    BY DEF Init
  <2> QED BY <2>1 DEF Init, TypeOK
<1>2. PoolsFinite /\ PoolsOnce
  BY FS_EmptySet DEF Init, PoolsFinite, PoolsOnce
<1>3. RecordedOnce /\ TalliesAgree
  BY DEF Init, RecordedOnce, TalliesAgree, Recorded
<1> QED BY <1>1, <1>2, <1>3 DEF IInv

(* The new block: part of a pool, none of it on chain before, all of it valid. *)
LEMMA FinalizeIInv == ASSUME IInv, NEW n \in Node, Finalize(n) PROVE IInv' /\ Grown(log, log')
<1> DEFINE x == Assembled(n)  R == SUBSET Record  k == Len(log)
<1>1. /\ log \in Seq(R) /\ k \in Nat /\ height \in [Node -> 0..k] /\ pool \in [Node -> SUBSET Record]
  BY DEF IInv, TypeOK
<1>2. x \subseteq pool[n] /\ x \in R
  BY <1>1 DEF Assembled
<1>3. /\ log' = Append(log, x)
      /\ scenario' = scenario /\ height' = height /\ pool' = pool /\ done' = done /\ inbox' = inbox
  BY DEF Finalize
<1>4. \A r \in x : Key(r) \notin Keys(Recorded(log)) /\ Valid(log, r)
  BY DEF Assembled, Fresh
<1>5. /\ log' \in Seq(R) /\ Len(log') = k + 1 /\ log'[k + 1] = x
      /\ \A i \in 1..k : log'[i] = log[i]
  <2> HIDE DEF R, x, k
  <2> QED BY <1>1, <1>2, <1>3 DEF k
<1>6. Grown(log, log')
  BY <1>1, <1>5 DEF Grown
<1>7. TypeOK'
  <2>1. height' \in [Node -> 0..Len(log')]
    BY <1>1, <1>3, <1>5
  <2> QED BY <1>3, <1>5, <2>1 DEF IInv, TypeOK
<1>8. PoolsFinite'
  <2>1. IsFiniteSet(x)
    BY <1>2, FS_Subset DEF IInv, PoolsFinite
  <2>2. \A i \in 1..k + 1 : i \in 1..k \/ i = k + 1
    BY <1>1
  <2>3. \A i \in 1..Len(log') : IsFiniteSet(log'[i])
    BY <1>5, <2>1, <2>2 DEF IInv, PoolsFinite
  <2> QED BY <1>3, <2>3 DEF IInv, PoolsFinite
<1>9. PoolsOnce'
  BY <1>3 DEF IInv, PoolsOnce
<1>10. RecordedOnce'
  <2> SUFFICES ASSUME NEW i \in 1..k + 1, NEW j \in 1..k + 1, NEW r \in log'[i], NEW y \in log'[j], Key(r) = Key(y)
               PROVE  i = j /\ r = y
    BY <1>5 DEF RecordedOnce
  <2>1. (i \in 1..k \/ i = k + 1) /\ (j \in 1..k \/ j = k + 1)
    BY <1>1
  <2>2. CASE i \in 1..k /\ j \in 1..k
    BY <1>5, <2>2 DEF IInv, RecordedOnce
  <2>3. CASE i \in 1..k /\ j = k + 1
    <3>1. r \in Recorded(log) /\ y \in x
      BY <1>5, <2>3, RecordedAt
    <3> QED BY <1>4, <3>1 DEF Keys
  <2>4. CASE i = k + 1 /\ j \in 1..k
    <3>1. y \in Recorded(log) /\ r \in x
      BY <1>5, <2>4, RecordedAt
    <3> QED BY <1>4, <3>1 DEF Keys
  <2>5. CASE i = k + 1 /\ j = k + 1
    <3>1. r \in pool[n] /\ y \in pool[n]
      BY <1>2, <1>5, <2>5
    <3> QED BY <2>5, <3>1 DEF IInv, PoolsOnce
  <2> QED BY <2>1, <2>2, <2>3, <2>4, <2>5
<1>11. TalliesAgree'
  <2>1. \A i \in 1..k + 1 : i \in 1..k \/ i = k + 1
    BY <1>1
  <2>2. \A r \in Recorded(log') : r \in Recorded(log) \/ r \in x
    BY <1>5, <2>1, RecordedAt
  <2>3. \A r \in Recorded(log') : r \in Recorded(log) \/ Valid(log, r)
    BY <1>4, <2>2
  <2> QED BY <1>3, <1>6, <2>3, TalliesStep DEF IInv
<1> QED BY <1>6, <1>7, <1>8, <1>9, <1>10, <1>11 DEF IInv

(* A node that enters a round drops records of its pool. *)
LEMMA AdvanceIInv == ASSUME IInv, NEW n \in Node, Advance(n) PROVE IInv'
<1>1. /\ height \in [Node -> 0..Len(log)] /\ Len(log) \in Nat
      /\ pool \in [Node -> SUBSET Record] /\ inbox \in [Node -> SUBSET Record]
  BY DEF IInv, TypeOK
<1>2. /\ height[n] < Len(log) /\ height' = [height EXCEPT ![n] = @ + 1]
      /\ scenario' = scenario /\ log' = log /\ done' = done
  BY DEF Advance
<1>3. /\ pool' \in [Node -> SUBSET Record] /\ inbox' \in [Node -> SUBSET Record]
      /\ \A p \in Node : pool'[p] \subseteq pool[p]
  BY <1>1 DEF Advance
<1>4. height' \in [Node -> 0..Len(log')]
  <2>1. height[n] + 1 \in 0..Len(log)
    BY <1>1, <1>2
  <2> QED BY <1>1, <1>2, <2>1
<1>5. TypeOK'
  BY <1>2, <1>3, <1>4 DEF IInv, TypeOK
<1>6. \A p \in Node : IsFiniteSet(pool'[p])
  BY <1>3, FS_Subset DEF IInv, PoolsFinite
<1>7. PoolsOnce'
  BY <1>3 DEF IInv, PoolsOnce
<1> QED BY <1>2, <1>5, <1>6, <1>7, LogKept

(* What is sent is a set of records. *)
LEMMA GossipType ==
    ASSUME inbox \in [Node -> SUBSET Record], NEW n \in Node,
           NEW out \in SUBSET Record, NEW mine \in SUBSET Record, Gossip(n, out, mine)
    PROVE  inbox' \in [Node -> SUBSET Record]
BY DEF Gossip

(* A tick adds to the pool what is new: of each key one, of none that is there. *)
LEMMA TickIInv == ASSUME IInv, NEW n \in Node, Tick(n) PROVE IInv'
<1> DEFINE raised == Raises(n) \cup Publishes(n)  new == {r \in Raises(n) : ~Has(n, r)}
<1>1. /\ TypeOK /\ PoolsFinite /\ PoolsOnce
      /\ pool \in [Node -> SUBSET Record] /\ inbox \in [Node -> SUBSET Record]
      /\ done \in [Node -> SUBSET (Kinds \X Nat)]
  BY DEF IInv, TypeOK
<1>2. /\ done' = [done EXCEPT ![n] = @ \cup {Mark(n, r) : r \in raised}]
      /\ pool' = [pool EXCEPT ![n] = @ \cup new]
      /\ Gossip(n, new \cup Publishes(n), inbox[n])
      /\ scenario' = scenario /\ log' = log /\ height' = height
  BY DEF Tick, Pools
<1>3. /\ IsFiniteSet(Raises(n)) /\ Raises(n) \subseteq Record
      /\ \A r, x \in Raises(n) : Key(r) = Key(x) => r = x
  BY <1>1, RaisesType
<1>4. raised \subseteq Record
  BY <1>1, <1>3, PublishesType
<1>5. IsFiniteSet(new) /\ new \subseteq Raises(n) /\ new \subseteq Record
  BY <1>3, FS_Subset
<1>6. \A r \in new : Key(r) \notin Keys(pool[n])
  BY DEF Has, Keys
<1>7. {Mark(n, r) : r \in raised} \subseteq Kinds \X Nat
  <2> HIDE DEF raised
  <2> QED BY <1>1, <1>4, MarkType
<1>8. done' \in [Node -> SUBSET (Kinds \X Nat)]
  <2> DEFINE m == {Mark(n, r) : r \in raised}  K == Kinds \X Nat
  <2>1. m \subseteq K /\ done' = [done EXCEPT ![n] = @ \cup m] /\ done \in [Node -> SUBSET K]
    BY <1>1, <1>2, <1>7
  <2> HIDE DEF m, K
  <2>2. done' \in [Node -> SUBSET K]
    BY <2>1
  <2> QED BY <2>2 DEF K
<1>9. inbox' \in [Node -> SUBSET Record]
  <2>1. new \cup Publishes(n) \in SUBSET Record /\ inbox[n] \in SUBSET Record
    BY <1>1, <1>4
  <2> HIDE DEF new
  <2> QED BY <1>1, <1>2, <2>1, GossipType
<1> HIDE DEF new, raised
<1>10. /\ pool' \in [Node -> SUBSET Record] /\ pool'[n] = pool[n] \cup new
       /\ \A p \in Node \ {n} : pool'[p] = pool[p]
  BY <1>1, <1>2, <1>5
<1>11. TypeOK'
  BY <1>1, <1>2, <1>8, <1>9, <1>10 DEF TypeOK
<1>12. \A p \in Node : IsFiniteSet(pool'[p])
  <2>1. \A p \in Node : IsFiniteSet(pool[p])
    BY <1>1 DEF PoolsFinite
  <2>2. IsFiniteSet(pool[n] \cup new)
    BY <1>5, <2>1, FS_Union
  <2> QED BY <1>10, <2>1, <2>2
<1>13. PoolsOnce'
  <2> SUFFICES ASSUME NEW p \in Node, NEW r \in pool'[p], NEW x \in pool'[p], Key(r) = Key(x)
               PROVE  r = x
    BY DEF PoolsOnce
  <2>1. CASE p # n
    BY <1>1, <1>10, <2>1 DEF PoolsOnce
  <2>2. CASE p = n
    <3>1. (r \in pool[n] \/ r \in new) /\ (x \in pool[n] \/ x \in new)
      BY <1>10, <2>2
    <3>2. ~(r \in pool[n] /\ x \in new) /\ ~(r \in new /\ x \in pool[n])
      BY <1>6 DEF Keys
    <3>3. CASE r \in pool[n] /\ x \in pool[n]
      BY <1>1, <3>3 DEF PoolsOnce
    <3>4. CASE r \in new /\ x \in new
      BY <1>3, <1>5, <3>4
    <3> QED BY <3>1, <3>2, <3>3, <3>4
  <2> QED BY <2>1, <2>2
<1> QED BY <1>2, <1>11, <1>12, <1>13, LogKept

(* A record is pooled when there is none of its key. *)
LEMMA OnRecordIInv == ASSUME IInv, NEW n \in Node, NEW r \in inbox[n], OnRecord(n, r) PROVE IInv'
<1>1. /\ TypeOK /\ PoolsFinite /\ PoolsOnce
      /\ pool \in [Node -> SUBSET Record] /\ inbox \in [Node -> SUBSET Record] /\ r \in Record
  BY DEF IInv, TypeOK
<1>2. /\ ~Has(n, r) /\ pool' = [pool EXCEPT ![n] = @ \cup {r}]
      /\ Gossip(n, IF r.kind = "audit" THEN {} ELSE {r}, inbox[n] \ {r})
      /\ scenario' = scenario /\ log' = log /\ height' = height /\ done' = done
  BY DEF OnRecord, Takes
<1>3. Key(r) \notin Keys(pool[n])
  BY <1>2 DEF Has, Keys
<1>4. inbox' \in [Node -> SUBSET Record]
  <2>1. (IF r.kind = "audit" THEN {} ELSE {r}) \in SUBSET Record /\ inbox[n] \ {r} \in SUBSET Record
    BY <1>1
  <2> QED BY <1>1, <1>2, <2>1, GossipType
<1>5. /\ pool' \in [Node -> SUBSET Record] /\ pool'[n] = pool[n] \cup {r}
      /\ \A p \in Node \ {n} : pool'[p] = pool[p]
  BY <1>1, <1>2
<1>6. TypeOK'
  BY <1>1, <1>2, <1>4, <1>5 DEF TypeOK
<1>7. \A p \in Node : IsFiniteSet(pool'[p])
  <2>1. IsFiniteSet({r})
    BY FS_Singleton
  <2>2. \A p \in Node : IsFiniteSet(pool[p])
    BY <1>1 DEF PoolsFinite
  <2>3. IsFiniteSet(pool[n] \cup {r})
    BY <2>1, <2>2, FS_Union
  <2> QED BY <1>5, <2>2, <2>3
<1>8. PoolsOnce'
  <2> SUFFICES ASSUME NEW p \in Node, NEW x \in pool'[p], NEW y \in pool'[p], Key(x) = Key(y)
               PROVE  x = y
    BY DEF PoolsOnce
  <2>1. CASE p # n
    BY <1>1, <1>5, <2>1 DEF PoolsOnce
  <2>2. CASE p = n
    <3>1. (x \in pool[n] \/ x = r) /\ (y \in pool[n] \/ y = r)
      BY <1>5, <2>2
    <3>2. CASE x \in pool[n] /\ y \in pool[n]
      BY <1>1, <3>2 DEF PoolsOnce
    <3> QED BY <1>3, <3>1, <3>2 DEF Keys
  <2> QED BY <2>1, <2>2
<1> QED BY <1>2, <1>6, <1>7, <1>8, LogKept

(* One that is forgotten leaves the pools as they are. *)
LEMMA IgnoreIInv == ASSUME IInv, NEW n \in Node, NEW r \in inbox[n], Ignore(n, r) PROVE IInv'
<1>1. /\ inbox' = [inbox EXCEPT ![n] = @ \ {r}]
      /\ scenario' = scenario /\ log' = log /\ height' = height /\ pool' = pool /\ done' = done
  BY DEF Ignore
<1>2. TypeOK'
  BY <1>1 DEF IInv, TypeOK
<1>3. PoolsOnce' /\ \A p \in Node : IsFiniteSet(pool'[p])
  BY <1>1 DEF IInv, PoolsOnce, PoolsFinite
<1> QED BY <1>1, <1>2, <1>3, LogKept

(* Every step keeps the invariant, and the log only grows at its end. *)
LEMMA StepIInv == ASSUME IInv, [Next]_vars PROVE IInv' /\ (log' = log \/ Grown(log, log'))
<1>1. CASE UNCHANGED vars
  <2>1. TypeOK' /\ PoolsOnce' /\ \A p \in Node : IsFiniteSet(pool'[p])
    BY <1>1 DEF vars, IInv, TypeOK, PoolsOnce, PoolsFinite
  <2> QED BY <1>1, <2>1, LogKept DEF vars
<1>2. CASE Next
  <2>1. PICK n \in scenario.up : Turn(n)
    BY <1>2 DEF Next
  <2>2. n \in Node
    BY SignalPoolsAssumption DEF IInv, TypeOK, Scenario
  <2>3. CASE Advance(n)
    BY <2>2, <2>3, AdvanceIInv DEF Advance
  <2>4. CASE Receive(n)
    <3>1. PICK r \in inbox[n] : OnRecord(n, r) \/ Ignore(n, r)
      BY <2>4 DEF Receive
    <3>2. IInv'
      BY <2>2, <3>1, OnRecordIInv, IgnoreIInv
    <3>3. log' = log
      BY <3>1 DEF OnRecord, Ignore
    <3> QED BY <3>2, <3>3
  <2>5. CASE Tick(n)
    BY <2>2, <2>5, TickIInv DEF Tick
  <2>6. CASE Finalize(n)
    BY <2>2, <2>6, FinalizeIInv
  <2> QED BY <2>1, <2>3, <2>4, <2>5, <2>6 DEF Turn
<1> QED BY <1>1, <1>2

(* The invariant holds of every behaviour. *)
THEOREM Invariant == Spec => []IInv
<1>1. Init => IInv
  BY InitIInv
<1>2. IInv /\ [Next]_vars => IInv'
  BY StepIInv
<1> QED BY <1>1, <1>2, PTL DEF Spec

-----------------------------------------------------------------------------
(* The theorems. *)

(* Blocks, pools and messages are of records, whatever the plan and the misbehaviour. *)
THEOREM TypeCorrect == Spec => []TypeOK
<1>1. IInv => TypeOK
  BY DEF IInv
<1> QED BY <1>1, Invariant, PTL

(***************************************************************************)
(* No record is on chain twice, whatever order the pools of successive     *)
(* leaders were filled in: a pool has one record of each key, a leader     *)
(* drops those whose key the chain has, and one that it took over from     *)
(* its own drivers is not taken again from another node.                   *)
(***************************************************************************)
THEOREM RecordsOnce == Spec => []RecordedOnce
<1>1. IInv => RecordedOnce
  BY DEF IInv
<1> QED BY <1>1, Invariant, PTL

(***************************************************************************)
(* What was raised from chains of different lengths meets in one tally:    *)
(* the oversight round and the spike of a chain are those of every longer  *)
(* one, so that a record goes on to name what the chain names.             *)
(***************************************************************************)
THEOREM TalliesMeet == Spec => []TalliesAgree
<1>1. IInv => TalliesAgree
  BY DEF IInv
<1> QED BY <1>1, Invariant, PTL

(***************************************************************************)
(* A flagged newcomer stays flagged: an observation is valid for ever, so  *)
(* that the height at which a subject was first seen and the number of     *)
(* those near it do not shrink.                                            *)
(***************************************************************************)
THEOREM CohortHolds == Spec => CohortOnlyGrows
<1>1. IInv /\ [Next]_vars => [FlaggedCohort(log) \subseteq FlaggedCohort(log')]_log
  <2> SUFFICES ASSUME IInv, [Next]_vars, log' # log
               PROVE  FlaggedCohort(log) \subseteq FlaggedCohort(log')
    OBVIOUS
  <2>1. PICK q : q = log'
    OBVIOUS
  <2>2. Grown(log, q) /\ scenario \in Scenarios
    BY <2>1, StepIInv DEF IInv, TypeOK
  <2>3. FlaggedCohort(log) \subseteq FlaggedCohort(q)
    BY <2>2, CohortGrows
  <2> QED BY <2>1, <2>3
<1> QED BY <1>1, Invariant, PTL DEF Spec, CohortOnlyGrows
=============================================================================
