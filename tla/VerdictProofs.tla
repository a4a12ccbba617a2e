--------------------------- MODULE VerdictProofs ---------------------------
(* A verdict needs a threshold of shares of one sharing, and falls once on each author. *)
EXTENDS Verdict, ChainPathLemmas

(* The indices under which the messages ms hold a partial for t of sharing s. *)
SignersOf(ms, t, s) ==
    {m.index : m \in {x \in ms : x.type = "partial" /\ x.target = t /\ x.sharing = s}}

(* A threshold of shares of one sharing signed, among the messages ms, for a malformed t of path. *)
Guilty(ms, path, t) ==
    /\ t \in OnChain(path) \cap Malformed
    /\ \E s \in Sharing : Cardinality(SignersOf(ms, t, s)) >= Threshold

(* The partials among the messages ms judge malformed transactions, under indices of nodes. *)
PartialsOK(ms, path) ==
    \A m \in ms : m.type = "partial" => /\ m.index \in 1..Cardinality(Node)
                                        /\ m.target \in OnChain(path) \cap Malformed

(* One partial for each target and index. *)
OnePerIndex(pool) == \A p, q \in pool : p.target = q.target /\ p.index = q.index => p = q

-----------------------------------------------------------------------------
(* The inductive invariant. *)

(* A node has an index in the sharing it holds a share of. *)
ShareOK(n) == /\ share[n] = "genesis" => n \in Genesis
              /\ share[n] = "fresh" => n \in NewSet(Prefix(n))

(* What a node keeps has been published. *)
PoolOK(n) == /\ partials[n] \subseteq sent /\ inbox[n] \subseteq sent
             /\ OnePerIndex(partials[n])
             /\ \A t \in pending[n] : Suspension(t) \in sent

SuspensionsOK == \A m \in sent : m.type = "suspension" => Guilty(sent, log, m.target)

ChainOK == \A t \in SuspendedTargets(log) : Guilty(sent, log, t)

IInv ==
    /\ TypeOK /\ SuspendedOnce
    /\ \A n \in Node : ShareOK(n) /\ PoolOK(n)
    /\ PartialsOK(sent, log) /\ SuspensionsOK /\ ChainOK

-----------------------------------------------------------------------------
(* Messages and indices. *)

LEMMA MessageKinds ==
    \A m \in Message : /\ m.type = "partial" => m \in PartialMsg
                       /\ m.type = "suspension" => m \in SuspensionMsg
                       /\ m.type = "subshare" => m \in SubShareMsg
BY DEF Message, PartialMsg, SuspensionMsg, SubShareMsg

LEMMA MessageTypes ==
    /\ \A t \in Target, i \in Nat \ {0}, s \in Sharing : Partial(t, i, s) \in PartialMsg
    /\ \A t \in Target : Suspension(t) \in SuspensionMsg
    /\ \A d, m \in Node : SubShare(d, m) \in SubShareMsg
    /\ PartialMsg \subseteq Message /\ SuspensionMsg \subseteq Message /\ SubShareMsg \subseteq Message
BY DEF Partial, Suspension, SubShare, PartialMsg, SuspensionMsg, SubShareMsg, Message

(* The position of a member of a set of nodes is between 1 and the number of nodes. *)
LEMMA IndexType ==
    ASSUME NEW S, S \subseteq Node, NEW n \in S
    PROVE  IndexIn(n, S) \in 1..Cardinality(Node)
<1> DEFINE T == {x \in S : x <= n}
<1>1. T \in SUBSET Node /\ IsFiniteSet(Node) /\ n \in Nat
  BY GenesisAssumption, VerdictAssumption
<1>2. IsFiniteSet(T) /\ Cardinality(T) <= Cardinality(Node)
  BY <1>1, FS_Subset
<1>3. Cardinality(T) \in Nat /\ Cardinality(Node) \in Nat
  BY <1>1, <1>2, FS_CardinalityType
<1>4. n \in T
  BY <1>1
<1>5. Cardinality(T) # 0
  BY <1>2, <1>4, FS_EmptySet
<1> QED BY <1>2, <1>3, <1>5 DEF IndexIn

LEMMA NewSetNodes == \A path : NewSet(path) \subseteq Node
BY DEF NewSet, ActiveSet

(* The indices of the partials for a target are finitely many. *)
LEMMA SignersFinite ==
    ASSUME NEW ms, NEW path, PartialsOK(ms, path), NEW t, NEW s
    PROVE  IsFiniteSet(SignersOf(ms, t, s)) /\ SignersOf(ms, t, s) \subseteq 1..Cardinality(Node)
<1>1. SignersOf(ms, t, s) \in SUBSET (1..Cardinality(Node))
  BY DEF SignersOf, PartialsOK
<1>2. IsFiniteSet(1..Cardinality(Node))
  BY GenesisAssumption, FS_CardinalityType, FS_Interval
<1> QED BY <1>1, <1>2, FS_Subset

-----------------------------------------------------------------------------
(* What more messages and more blocks do to a verdict: nothing. *)
LEMMA GuiltyForGood ==
    ASSUME NEW ms, NEW more, ms \subseteq more, NEW path, NEW longer,
           OnChain(path) \subseteq OnChain(longer), PartialsOK(more, longer),
           NEW t, Guilty(ms, path, t)
    PROVE  Guilty(more, longer, t)
<1>1. PICK s \in Sharing : Cardinality(SignersOf(ms, t, s)) >= Threshold
  BY DEF Guilty
<1>2. SignersOf(ms, t, s) \in SUBSET SignersOf(more, t, s)
  BY DEF SignersOf
<1>3. IsFiniteSet(SignersOf(more, t, s))
  BY SignersFinite
<1>4. /\ IsFiniteSet(SignersOf(ms, t, s))
      /\ Cardinality(SignersOf(ms, t, s)) <= Cardinality(SignersOf(more, t, s))
  BY <1>2, <1>3, FS_Subset
<1>5. Cardinality(SignersOf(ms, t, s)) \in Nat /\ Cardinality(SignersOf(more, t, s)) \in Nat
  BY <1>3, <1>4, FS_CardinalityType
<1>6. Cardinality(SignersOf(more, t, s)) >= Threshold
  BY <1>1, <1>4, <1>5, VerdictAssumption
<1> QED BY <1>6 DEF Guilty

(***************************************************************************)
(* combine_signatures succeeds only on a threshold of partials of one      *)
(* sharing, and the pool keeps one for each index: that many indices signed.*)
(***************************************************************************)
LEMMA SignedIsGuilty ==
    ASSUME NEW ms, NEW path, PartialsOK(ms, path), NEW pool \in SUBSET PartialMsg,
           pool \subseteq ms, OnePerIndex(pool), NEW t, Signed(pool, t)
    PROVE  Guilty(ms, path, t)
<1>1. PICK L \in SUBSET {p \in pool : p.target = t} :
          Cardinality(L) = Threshold /\ \A p, q \in L : p.sharing = q.sharing
  BY DEF Signed
<1> DEFINE N == 1..Cardinality(Node)
           I == {p.index : p \in L}
           f == [p \in L |-> p.index]
<1>2. \A p \in L : p \in ms /\ p.type = "partial" /\ p.target = t /\ p.index \in N
                   /\ t \in OnChain(path) \cap Malformed
  BY <1>1 DEF PartialsOK, PartialMsg
<1>3. IsFiniteSet(I)
  <2>1. I \in SUBSET N
    BY <1>2
  <2>2. IsFiniteSet(N)
    BY GenesisAssumption, FS_CardinalityType, FS_Interval
  <2> QED BY <2>1, <2>2, FS_Subset
<1>4. f \in Injection(L, I)
  <2>1. f \in [L -> I]
    OBVIOUS
  <2>2. ASSUME NEW p \in L, NEW q \in L, f[p] = f[q] PROVE p = q
    <3>1. p.index = q.index /\ p.target = q.target /\ p \in pool /\ q \in pool
      BY <1>1, <2>2
    <3> QED BY <3>1 DEF OnePerIndex
  <2> QED BY <2>1, <2>2 DEF Injection, IsInjective
<1>5. IsFiniteSet(L) /\ Cardinality(L) <= Cardinality(I)
  BY <1>3, <1>4, FS_Injection
<1>6. L # {}
  BY <1>1, <1>5, FS_EmptySet, VerdictAssumption
<1>7. PICK p \in L : TRUE
  BY <1>6
<1>8. p.sharing \in Sharing /\ t \in OnChain(path) \cap Malformed
  BY <1>1, <1>2 DEF PartialMsg
<1>9. I \in SUBSET SignersOf(ms, t, p.sharing)
  BY <1>1, <1>2 DEF SignersOf
<1>10. Cardinality(I) <= Cardinality(SignersOf(ms, t, p.sharing))
  BY <1>9, SignersFinite, FS_Subset
<1>11. Cardinality(I) \in Nat /\ Cardinality(SignersOf(ms, t, p.sharing)) \in Nat
  BY <1>3, SignersFinite, FS_CardinalityType
<1>12. Cardinality(SignersOf(ms, t, p.sharing)) >= Threshold
  BY <1>1, <1>5, <1>10, <1>11, VerdictAssumption
<1> QED BY <1>8, <1>12 DEF Guilty

-----------------------------------------------------------------------------
(* Chains and their prefixes. *)

LEMMA PrefixFacts ==
    ASSUME NEW s \in Seq(VBlock), NEW k \in 0..Len(s)
    PROVE  /\ SubSeq(s, 1, k) \in Seq(VBlock) /\ Len(SubSeq(s, 1, k)) = k
           /\ \A i \in 1..k : SubSeq(s, 1, k)[i] = s[i]
<1> DEFINE V == VBlock
<1> SUFFICES ASSUME s \in Seq(V)
             PROVE  /\ SubSeq(s, 1, k) \in Seq(V) /\ Len(SubSeq(s, 1, k)) = k
                    /\ \A i \in 1..k : SubSeq(s, 1, k)[i] = s[i]
  OBVIOUS
<1> HIDE DEF V
<1>1. Len(s) \in Nat /\ k \in Int /\ 1 \in Int /\ \A i \in 1..k : s[i] \in V
  BY LenProperties, ElementOfSeq
<1>2. /\ SubSeq(s, 1, k) \in Seq(V)
      /\ Len(SubSeq(s, 1, k)) = IF 1 <= k THEN k - 1 + 1 ELSE 0
      /\ \A i \in 1..k - 1 + 1 : SubSeq(s, 1, k)[i] = s[1 + i - 1]
  BY <1>1, SubSeqProperties
<1>3. k - 1 + 1 = k /\ \A i \in 1..k : 1 + i - 1 = i
  BY <1>1
<1> QED BY <1>1, <1>2, <1>3

(* What is on a chain, and what it has suspended, are published transactions. *)
LEMMA ChainTargets ==
    ASSUME NEW s \in Seq(VBlock)
    PROVE  OnChain(s) \subseteq Target /\ SuspendedTargets(s) \subseteq Target
<1> DEFINE V == VBlock
<1>1. s \in Seq(V)
  OBVIOUS
<1> HIDE DEF V
<1>2. \A i \in 1..Len(s) : s[i] \in V
  BY <1>1, ElementOfSeq
<1> QED BY <1>2 DEF V, VBlock, OnChain, SuspendedTargets

(* A prefix says nothing that the chain does not say. *)
LEMMA PrefixSays ==
    ASSUME NEW s \in Seq(VBlock), NEW k \in 0..Len(s)
    PROVE  /\ OnChain(SubSeq(s, 1, k)) \subseteq OnChain(s)
           /\ SuspendedTargets(SubSeq(s, 1, k)) \subseteq SuspendedTargets(s)
<1>1. Len(s) \in Nat /\ Len(SubSeq(s, 1, k)) = k /\ \A i \in 1..k : SubSeq(s, 1, k)[i] = s[i]
  BY PrefixFacts, LenProperties
<1> QED BY <1>1 DEF OnChain, SuspendedTargets

(* A block adds what is in it. *)
LEMMA BlockAdds ==
    ASSUME NEW s \in Seq(VBlock), NEW b \in VBlock
    PROVE  /\ Append(s, b) \in Seq(VBlock) /\ Len(Append(s, b)) = Len(s) + 1
           /\ \A i \in 1..Len(s) : Append(s, b)[i] = s[i]
           /\ Append(s, b)[Len(s) + 1] = b
           /\ OnChain(Append(s, b)) = OnChain(s) \cup b.txs
           /\ SuspendedTargets(Append(s, b)) = SuspendedTargets(s) \cup b.suspensions
           /\ \A k \in 0..Len(s) : SubSeq(Append(s, b), 1, k) = SubSeq(s, 1, k)
<1> DEFINE V == VBlock  a == Append(s, b)
<1>1. s \in Seq(V) /\ b \in V
  OBVIOUS
<1> HIDE DEF V
<1>2. /\ a \in Seq(V) /\ Len(a) = Len(s) + 1 /\ Len(s) \in Nat
      /\ \A i \in 1..Len(s) : a[i] = s[i]
      /\ a[Len(s) + 1] = b
  BY <1>1, AppendProperties, LenProperties
<1>3. OnChain(a) = OnChain(s) \cup b.txs
  BY <1>2 DEF OnChain
<1>4. SuspendedTargets(a) = SuspendedTargets(s) \cup b.suspensions
  BY <1>2 DEF SuspendedTargets
<1>5. ASSUME NEW k \in 0..Len(s) PROVE SubSeq(a, 1, k) = SubSeq(s, 1, k)
  <2>1. k \in 0..Len(a) /\ \A i \in 1..k : a[i] = s[i]
    BY <1>2
  <2>2. /\ SubSeq(a, 1, k) \in Seq(V) /\ Len(SubSeq(a, 1, k)) = k
        /\ SubSeq(s, 1, k) \in Seq(V) /\ Len(SubSeq(s, 1, k)) = k
        /\ \A i \in 1..k : SubSeq(a, 1, k)[i] = SubSeq(s, 1, k)[i]
    BY <1>1, <1>2, <2>1, PrefixFacts DEF V
  <2> HIDE DEF a
  <2> QED BY <2>2, SeqEqual
<1> QED BY <1>2, <1>3, <1>4, <1>5 DEF V

(* The set a key is re-shared to is settled once and for all by the first rotation. *)
LEMMA NewSetStays ==
    ASSUME NEW s \in Seq(VBlock), NEW k \in 0..Len(s), NEW l \in 0..Len(s), k <= l
    PROVE  NewSet(SubSeq(s, 1, k)) \subseteq NewSet(SubSeq(s, 1, l))
<1> DEFINE p == SubSeq(s, 1, k)  q == SubSeq(s, 1, l)
           First(path) == {i \in Rotations(path) : \A j \in Rotations(path) : i <= j}
<1>1. Len(s) \in Nat /\ Len(p) = k /\ Len(q) = l /\ \A i \in 1..k : p[i] = q[i]
  BY PrefixFacts, LenProperties
<1>2. First(p) \subseteq First(q) /\ First(p) \subseteq 1..k
  BY <1>1 DEF Rotations
<1>3. ASSUME NEW i \in 1..k PROVE SubSeq(p, 1, i) = SubSeq(q, 1, i)
  <2>1. p \in Seq(VBlock) /\ q \in Seq(VBlock) /\ i \in 0..Len(p) /\ i \in 0..Len(q)
    BY <1>1, PrefixFacts
  <2>2. /\ SubSeq(p, 1, i) \in Seq(VBlock) /\ Len(SubSeq(p, 1, i)) = i
        /\ SubSeq(q, 1, i) \in Seq(VBlock) /\ Len(SubSeq(q, 1, i)) = i
        /\ \A j \in 1..i : SubSeq(p, 1, i)[j] = p[j] /\ SubSeq(q, 1, i)[j] = q[j]
    <3> HIDE DEF p, q
    <3> QED BY <2>1, PrefixFacts
  <2>3. \A j \in 1..i : p[j] = q[j]
    BY <1>1
  <2> HIDE DEF p, q
  <2> QED BY <2>2, <2>3, SeqEqual
<1> HIDE DEF p, q
<1>4. NewSet(p) = UNION {ActiveSet(SubSeq(p, 1, i)) : i \in First(p)}
  BY DEF NewSet
<1>5. NewSet(q) = UNION {ActiveSet(SubSeq(q, 1, i)) : i \in First(q)}
  BY DEF NewSet
<1> HIDE DEF First
<1> QED BY <1>2, <1>3, <1>4, <1>5 DEF p, q

-----------------------------------------------------------------------------
(* What the actions have in common. *)

(* Nodes' prefixes are prefixes. *)
LEMMA OwnPrefix ==
    ASSUME TypeOK, NEW n \in Node
    PROVE  /\ Prefix(n) \in Seq(VBlock) /\ Len(log) \in Nat /\ height[n] \in 0..Len(log)
           /\ OnChain(Prefix(n)) \subseteq OnChain(log) /\ OnChain(log) \subseteq Target
BY PrefixFacts, PrefixSays, ChainTargets, LenProperties DEF TypeOK, Prefix

(* Partials and suspensions that are published for good reason leave all verdicts justified. *)
LEMMA WireOK ==
    ASSUME IInv, log' = log, NEW out \in SUBSET Message, sent' = sent \cup out, PartialsOK(out, log),
           \A m \in out : m.type = "suspension" => Guilty(sent \cup out, log, m.target)
    PROVE  PartialsOK(sent', log') /\ SuspensionsOK' /\ ChainOK'
<1>1. PartialsOK(sent \cup out, log)
  BY DEF IInv, PartialsOK
<1>2. \A t : Guilty(sent, log, t) => Guilty(sent \cup out, log, t)
  BY <1>1, GuiltyForGood
<1>3. \A m \in sent \cup out : m.type = "suspension" => Guilty(sent \cup out, log, m.target)
  BY <1>2 DEF IInv, SuspensionsOK
<1>4. \A t \in SuspendedTargets(log) : Guilty(sent \cup out, log, t)
  BY <1>2 DEF IInv, ChainOK
<1> QED BY <1>1, <1>3, <1>4 DEF SuspensionsOK, ChainOK

LEMMA GossipOK ==
    ASSUME IInv, NEW n \in Node, NEW out \in SUBSET Message, NEW mine \in SUBSET inbox[n],
           Gossip(n, out, mine)
    PROVE  /\ sent' = sent \cup out /\ sent' \subseteq Message
           /\ inbox' \in [Node -> SUBSET Message] /\ \A p \in Node : inbox'[p] \subseteq sent'
<1>1. sent' = sent \cup out /\ sent \subseteq Message /\ \A p \in Node : inbox[p] \subseteq sent
  BY DEF Gossip, IInv, TypeOK, PoolOK
<1>2. inbox' = [p \in Node |-> IF p = n THEN mine ELSE inbox[p] \cup {m \in out : Useful(p, m)}]
  BY DEF Gossip
<1>3. \A p \in Node : inbox'[p] \subseteq sent \cup out
  BY <1>1, <1>2
<1> QED BY <1>1, <1>2, <1>3

(* The pool keeps one partial for each target and index. *)
LEMMA PooledOK ==
    ASSUME NEW pool, NEW ps, OnePerIndex(pool), OnePerIndex(ps)
    PROVE  OnePerIndex(Pooled(pool, ps)) /\ Pooled(pool, ps) \subseteq pool \cup ps
BY DEF OnePerIndex, Pooled

(* A step that publishes nothing and leaves chain and shares alone. *)
LEMMA QuietOK ==
    ASSUME IInv, TypeOK', UNCHANGED <<log, sent, height, share>>,
           \A p \in Node : PoolOK(p)'
    PROVE  IInv'
<1>1. \A p \in Node : ShareOK(p)'
  BY DEF IInv, ShareOK, Prefix
<1>2. PartialsOK(sent', log') /\ SuspensionsOK' /\ ChainOK' /\ SuspendedOnce'
  BY DEF IInv, SuspensionsOK, ChainOK, SuspendedOnce
<1> QED BY <1>1, <1>2 DEF IInv

-----------------------------------------------------------------------------
(* Every action keeps the invariant. *)

(* A block of the plan, with suspensions from the leader's pool. *)
LEMMA FinalizeOK ==
    ASSUME IInv, NEW n \in Node, Finalize(n)
    PROVE  IInv'
<1>1. PICK ts \in Assembled(n), next \in Ordered :
          /\ ValidSuspensions(ts)
          /\ log' = Append(log, [txs |-> next.txs, ops |-> next.ops, suspensions |-> ts])
          /\ alive' = [m \in Node |-> alive[m] \/ m \in Newcomers(next.ops)]
  BY DEF Finalize
<1> DEFINE b == [txs |-> next.txs, ops |-> next.ops, suspensions |-> ts]
<1>2. log \in Seq(VBlock) /\ Len(log) \in Nat /\ TypeOK
  BY LenProperties DEF IInv, TypeOK
<1>3. b \in VBlock
  <2>1. ts \subseteq Target
    BY <1>2 DEF Assembled, TypeOK
  <2>2. next \in [txs : SUBSET Target, ops : SUBSET Op]
    <3> DEFINE E == [txs : SUBSET Target, ops : SUBSET Op]
    <3>1. Plan \in Seq(SUBSET E)
      BY VerdictAssumption
    <3>2. [txs |-> {}, ops |-> {}] \in E
      OBVIOUS
    <3> HIDE DEF E
    <3>3. Len(log) < Len(Plan) => Len(log) + 1 \in 1..Len(Plan)
      BY <1>2, <3>1, LenProperties
    <3>4. Len(log) < Len(Plan) => Plan[Len(log) + 1] \in SUBSET E
      BY <3>1, <3>3, ElementOfSeq
    <3>5. Ordered \subseteq E
      BY <3>2, <3>4 DEF Ordered
    <3> QED BY <3>5 DEF E
  <2> QED BY <2>1, <2>2 DEF VBlock
<1>4. log' = Append(log, b) /\ b.suspensions = ts
  BY <1>1
<1> HIDE DEF b
<1>5. /\ log' \in Seq(VBlock) /\ Len(log') = Len(log) + 1
      /\ \A i \in 1..Len(log) : log'[i] = log[i]
      /\ log'[Len(log) + 1] = b
      /\ OnChain(log) \subseteq OnChain(log')
      /\ SuspendedTargets(log') = SuspendedTargets(log) \cup ts
      /\ \A k \in 0..Len(log) : SubSeq(log', 1, k) = SubSeq(log, 1, k)
  BY <1>2, <1>3, <1>4, BlockAdds
<1>6. UNCHANGED <<height, share, held, dealt, emitted, partials, pending, inbox, sent>>
  BY DEF Finalize
<1>7. TypeOK'
  <2>1. \A p \in Node : height[p] \in 0..Len(log')
    BY <1>2, <1>5 DEF TypeOK
  <2>2. alive' \in [Node -> BOOLEAN]
    BY <1>1
  <2> QED BY <1>2, <1>5, <1>6, <2>1, <2>2 DEF TypeOK
<1>8. \A p \in Node : ShareOK(p)' /\ PoolOK(p)'
  <2> SUFFICES ASSUME NEW p \in Node PROVE ShareOK(p)' /\ PoolOK(p)'
    OBVIOUS
  <2>1. Prefix(p)' = Prefix(p)
    BY <1>2, <1>5, <1>6, OwnPrefix DEF Prefix
  <2>2. ShareOK(p)'
    BY <1>6, <2>1 DEF IInv, ShareOK
  <2>3. PoolOK(p)'
    BY <1>6 DEF IInv, PoolOK
  <2> QED BY <2>2, <2>3
<1>9. PartialsOK(sent', log')
  BY <1>5, <1>6 DEF IInv, PartialsOK
<1>10. \A t : Guilty(sent, log, t) => Guilty(sent', log', t)
  BY <1>5, <1>6, <1>9, GuiltyForGood
<1>11. SuspensionsOK'
  BY <1>6, <1>10 DEF IInv, SuspensionsOK
<1>12. ChainOK'
  <2>1. \A t \in ts : Guilty(sent, log, t)
    BY <1>1 DEF IInv, SuspensionsOK, ValidSuspensions, Suspension
  <2> QED BY <1>5, <1>10, <2>1 DEF IInv, ChainOK
<1>13. SuspendedOnce'
  <2>1. \A t \in ts : /\ \A i \in 1..Len(log) : \A u \in log[i].suspensions : Owner[t] # Owner[u]
                      /\ \A u \in ts : Owner[t] = Owner[u] => t = u
    BY <1>1 DEF ValidSuspensions, Fresh, AlreadySuspended, SuspendedTargets
  <2>2. \A i \in 1..Len(log') : \/ i \in 1..Len(log) /\ log'[i] = log[i]
                                \/ i = Len(log) + 1 /\ log'[i].suspensions = ts
    BY <1>2, <1>4, <1>5
  <2>3. \A i, j \in 1..Len(log) : \A t \in log[i].suspensions, u \in log[j].suspensions :
            Owner[t] = Owner[u] => i = j /\ t = u
    BY DEF IInv, SuspendedOnce
  <2> QED BY <2>1, <2>2, <2>3 DEF SuspendedOnce
<1> QED BY <1>7, <1>8, <1>9, <1>11, <1>12, <1>13 DEF IInv

(* One block more, and what it settles dropped. *)
LEMMA AdvanceOK ==
    ASSUME IInv, NEW n \in Node, Advance(n)
    PROVE  IInv'
<1>1. TypeOK /\ Len(log) \in Nat /\ \A p \in Node : height[p] \in 0..Len(log)
  BY LenProperties DEF IInv, TypeOK
<1>2. /\ height[n] < Len(log) /\ height' = [height EXCEPT ![n] = @ + 1]
      /\ UNCHANGED <<log, share, held, emitted, alive, inbox, sent>>
      /\ dealt' = [dealt EXCEPT ![n] = FALSE]
      /\ pending' \in [Node -> SUBSET Target] /\ partials' \in [Node -> SUBSET PartialMsg]
      /\ \A p \in Node : pending'[p] \subseteq pending[p] /\ partials'[p] \subseteq partials[p]
  BY <1>1 DEF Advance, TypeOK
<1>3. \A p \in Node : height'[p] \in 0..Len(log) /\ height[p] <= height'[p]
  BY <1>1, <1>2 DEF TypeOK
<1>4. TypeOK'
  BY <1>1, <1>2, <1>3 DEF TypeOK
<1>5. \A p \in Node : PoolOK(p)'
  BY <1>2 DEF IInv, PoolOK, OnePerIndex
<1>6. \A p \in Node : ShareOK(p)'
  <2> SUFFICES ASSUME NEW p \in Node PROVE ShareOK(p)'
    OBVIOUS
  <2>1. NewSet(SubSeq(log, 1, height[p])) \subseteq NewSet(SubSeq(log, 1, height'[p]))
    BY <1>1, <1>3, NewSetStays DEF TypeOK
  <2> QED BY <1>2, <2>1 DEF IInv, ShareOK, Prefix
<1>7. PartialsOK(sent', log') /\ SuspensionsOK' /\ ChainOK' /\ SuspendedOnce'
  BY <1>2 DEF IInv, SuspensionsOK, ChainOK, SuspendedOnce
<1> QED BY <1>4, <1>5, <1>6, <1>7 DEF IInv

(* The empty round that lets a dealer deal again. *)
LEMMA QuietHeadOK ==
    ASSUME IInv, NEW n \in Node, QuietHead(n)
    PROVE  IInv'
<1>1. UNCHANGED <<log, height, share, held, emitted, partials, pending, alive, inbox, sent>>
  BY DEF QuietHead
<1>2. TypeOK'
  BY <1>1 DEF QuietHead, IInv, TypeOK
<1>3. \A p \in Node : PoolOK(p)'
  BY <1>1 DEF IInv, PoolOK
<1> QED BY <1>1, <1>2, <1>3, QuietOK

(* A dealer deals, an authority signs what is due with the key it then has. *)
LEMMA TickOK ==
    ASSUME IInv, NEW n \in Node, Tick(n)
    PROVE  IInv'
<1> DEFINE path == Prefix(n)
           deals == Deals(n)
           parcels == {SubShare(n, m) : m \in {x \in Receivers(n, path) : deals}}
           from == held[n] \cup {d \in {n} : deals}
           key == IF deals THEN Combined(n, path, from, share[n]) ELSE share[n]
           due == Due(n, key)
           mine == {Partial(t, ShareIndex(n, key), key) : t \in due}
           pool == Pooled(partials[n], mine)
           won == {t \in due : Combines(n, pool, t)}
<1>1. PICK ts \in SUBSET won :
          /\ pending' = [pending EXCEPT ![n] = @ \cup ts]
          /\ Gossip(n, parcels \cup mine \cup {Suspension(t) : t \in ts}, inbox[n])
  BY DEF Tick
<1> DEFINE out == parcels \cup mine \cup {Suspension(t) : t \in ts}
<1>2. /\ held' = [held EXCEPT ![n] = from]
      /\ dealt' = [dealt EXCEPT ![n] = @ \/ deals]
      /\ share' = [share EXCEPT ![n] = key]
      /\ emitted' = [emitted EXCEPT ![n] = @ \cup due]
      /\ partials' = [partials EXCEPT ![n] = pool]
      /\ UNCHANGED <<log, height, alive>>
  BY DEF Tick
<1>3. TypeOK
  BY DEF IInv
<1>4. /\ key \in Sharing \cup {"none"}
      /\ key = "genesis" => n \in Genesis
      /\ key = "fresh" => n \in NewSet(path)
  BY <1>3 DEF IInv, TypeOK, ShareOK, Combined, Sharing
<1>5. \A t \in due : t \in OnChain(log) \cap Malformed /\ t \in Target /\ key \in Sharing
  <2>1. \A t \in due : t \in OnChain(path) \cap Malformed /\ key # "none"
    BY DEF Due, TargetIsMalformed
  <2> HIDE DEF key, due, path
  <2> QED BY <1>3, <1>4, <2>1, OwnPrefix DEF path
<1>6. due # {} => ShareIndex(n, key) \in 1..Cardinality(Node)
  <2> HIDE DEF due, key
  <2>1. due # {} => (key = "genesis" \/ key = "fresh")
    BY <1>5 DEF Sharing
  <2>2. Genesis \subseteq Node /\ NewSet(path) \subseteq Node
    BY GenesisAssumption, NewSetNodes
  <2>3. key = "genesis" => IndexIn(n, Genesis) \in 1..Cardinality(Node)
    BY <1>4, <2>2, IndexType
  <2>4. key = "fresh" => IndexIn(n, NewSet(path)) \in 1..Cardinality(Node)
    BY <1>4, <2>2, IndexType
  <2> QED BY <2>1, <2>3, <2>4 DEF ShareIndex
<1>7. \A m \in mine : /\ m \in PartialMsg /\ m.type = "partial"
                      /\ m.index \in 1..Cardinality(Node)
                      /\ m.target \in OnChain(log) \cap Malformed
  <2> SUFFICES ASSUME NEW t \in due
               PROVE  LET m == Partial(t, ShareIndex(n, key), key)
                      IN /\ m \in PartialMsg /\ m.type = "partial"
                         /\ m.index \in 1..Cardinality(Node)
                         /\ m.target \in OnChain(log) \cap Malformed
    OBVIOUS
  <2> HIDE DEF due, key
  <2>1. ShareIndex(n, key) \in Nat \ {0} /\ ShareIndex(n, key) \in 1..Cardinality(Node)
    BY <1>6
  <2> QED BY <1>5, <2>1, MessageTypes DEF Partial
<1>8. mine \subseteq PartialMsg /\ OnePerIndex(mine)
  <2>1. OnePerIndex(mine)
    <3> HIDE DEF due, key
    <3> QED BY DEF OnePerIndex, Partial
  <2> QED BY <1>7, <2>1
<1>9. parcels \subseteq SubShareMsg /\ \A m \in parcels : m.type = "subshare"
  <2>1. Receivers(n, path) \subseteq Node
    BY NewSetNodes DEF Receivers
  <2> HIDE DEF path, deals
  <2> QED BY <2>1, MessageTypes DEF SubShare
<1>10. ts \subseteq due
  OBVIOUS
<1>11. \A t \in ts : /\ Suspension(t) \in SuspensionMsg /\ Suspension(t).type = "suspension"
                     /\ Suspension(t).target = t
  <2> HIDE DEF due
  <2> QED BY <1>5, <1>10, MessageTypes DEF Suspension
<1>12. /\ pool \subseteq PartialMsg /\ OnePerIndex(pool) /\ pool \subseteq sent \cup out
  <2>1. partials[n] \subseteq sent /\ OnePerIndex(partials[n]) /\ partials[n] \subseteq PartialMsg
    BY <1>3 DEF IInv, PoolOK, TypeOK
  <2> HIDE DEF mine
  <2> QED BY <1>8, <2>1, PooledOK
<1>13. out \in SUBSET Message
  <2> HIDE DEF mine, parcels, won
  <2> QED BY <1>8, <1>9, <1>11, MessageTypes
<1>14. PartialsOK(out, log) /\ PartialsOK(sent \cup out, log)
  <2>1. PartialsOK(out, log)
    <3> HIDE DEF mine, parcels, won
    <3> QED BY <1>7, <1>9, <1>11 DEF PartialsOK
  <2> HIDE DEF out
  <2> QED BY <2>1 DEF PartialsOK, IInv
<1>15. \A t \in ts : Guilty(sent \cup out, log, t)
  <2>1. \A t \in ts : Signed(pool, t)
    BY DEF Combines
  <2> HIDE DEF pool, out, won
  <2> QED BY <1>12, <1>14, <2>1, SignedIsGuilty
<1>16. \A m \in out : m.type = "suspension" => Guilty(sent \cup out, log, m.target)
  <2>1. \A m \in out : m.type = "suspension" => \E t \in ts : m.target = t
    <3> HIDE DEF mine, parcels, won
    <3> QED BY <1>7, <1>9, <1>11
  <2> HIDE DEF out, won
  <2> QED BY <1>15, <2>1
<1> HIDE DEF out, pool, won, mine, parcels, due, key
<1>17. /\ sent' = sent \cup out /\ sent' \subseteq Message
       /\ inbox' \in [Node -> SUBSET Message] /\ \A p \in Node : inbox'[p] \subseteq sent'
  BY <1>1, <1>13, GossipOK DEF out
<1>18. PartialsOK(sent', log') /\ SuspensionsOK' /\ ChainOK'
  BY <1>2, <1>13, <1>14, <1>16, <1>17, WireOK
<1>19. due \subseteq Target /\ ts \subseteq Target
  BY <1>5, <1>10
<1>20. TypeOK'
  <2>1. from \subseteq Node
    BY <1>3 DEF TypeOK
  <2>2. deals \in BOOLEAN
    BY DEF Deals
  <2> HIDE DEF from, deals
  <2>3. log' \in Seq(VBlock) /\ height' \in [Node -> 0..Len(log')] /\ alive' \in [Node -> BOOLEAN]
    BY <1>2, <1>3 DEF TypeOK
  <2>4. share' \in [Node -> Sharing \cup {"none"}] /\ held' \in [Node -> SUBSET Node]
    BY <1>2, <1>3, <1>4, <2>1 DEF TypeOK
  <2>5. emitted' \in [Node -> SUBSET Target] /\ pending' \in [Node -> SUBSET Target]
    BY <1>1, <1>2, <1>3, <1>19 DEF TypeOK
  <2>6. partials' \in [Node -> SUBSET PartialMsg]
    BY <1>2, <1>3, <1>12 DEF TypeOK
  <2>7. dealt' \in [Node -> BOOLEAN]
    BY <1>2, <1>3, <2>2 DEF TypeOK
  <2> QED BY <1>17, <2>3, <2>4, <2>5, <2>6, <2>7 DEF TypeOK
<1>21. \A p \in Node : PoolOK(p)'
  <2> SUFFICES ASSUME NEW p \in Node PROVE PoolOK(p)'
    OBVIOUS
  <2>1. partials[p] \subseteq sent /\ OnePerIndex(partials[p]) /\ \A t \in pending[p] : Suspension(t) \in sent
    BY DEF IInv, PoolOK
  <2>2. partials'[p] = IF p = n THEN pool ELSE partials[p]
    BY <1>2, <1>3 DEF TypeOK
  <2>3. pending'[p] \subseteq IF p = n THEN pending[p] \cup ts ELSE pending[p]
    BY <1>1, <1>3 DEF TypeOK
  <2>4. \A t \in ts : Suspension(t) \in out
    BY DEF out
  <2>5. partials'[p] \subseteq sent' /\ OnePerIndex(partials'[p])
    BY <1>12, <1>17, <2>1, <2>2
  <2>6. \A t \in pending'[p] : Suspension(t) \in sent'
    BY <1>17, <2>1, <2>3, <2>4
  <2> QED BY <1>17, <2>5, <2>6 DEF PoolOK
<1>22. \A p \in Node : ShareOK(p)'
  <2> SUFFICES ASSUME NEW p \in Node PROVE ShareOK(p)'
    OBVIOUS
  <2>1. Prefix(p)' = Prefix(p) /\ share'[p] = IF p = n THEN key ELSE share[p]
    BY <1>2, <1>3 DEF TypeOK, Prefix
  <2> QED BY <1>4, <2>1 DEF IInv, ShareOK
<1>23. SuspendedOnce'
  BY <1>2 DEF IInv, SuspendedOnce
<1> QED BY <1>18, <1>20, <1>21, <1>22, <1>23 DEF IInv

(* A partial, and the suspension it may complete. *)
LEMMA OnPartialOK ==
    ASSUME IInv, NEW n \in Node, NEW m \in inbox[n], OnPartial(n, m)
    PROVE  IInv'
<1> DEFINE pool == Pooled(partials[n], {m})
           won == {t \in {m.target} : Combines(n, pool, t)}
           out == {m} \cup {Suspension(t) : t \in won}
<1>1. /\ PartialCounts(n, m)
      /\ partials' = [partials EXCEPT ![n] = pool]
      /\ pending' = [pending EXCEPT ![n] = @ \cup won]
      /\ Gossip(n, out, Rest(n, m))
      /\ UNCHANGED <<log, height, share, held, dealt, emitted, alive>>
  BY DEF OnPartial
<1>2. TypeOK /\ m \in sent /\ m \in Message
  BY DEF IInv, TypeOK, PoolOK
<1>3. m \in PartialMsg /\ m.type = "partial" /\ m.target \in Target
  BY <1>1, <1>2, MessageKinds DEF PartialCounts, PartialMsg
<1>4. \A t \in won : t = m.target /\ Signed(pool, t)
  BY DEF Combines
<1>5. pool \subseteq PartialMsg /\ OnePerIndex(pool) /\ pool \subseteq sent
  <2>1. partials[n] \subseteq sent /\ OnePerIndex(partials[n]) /\ partials[n] \subseteq PartialMsg
    BY <1>2 DEF IInv, PoolOK, TypeOK
  <2>2. OnePerIndex({m})
    BY DEF OnePerIndex
  <2> QED BY <1>2, <1>3, <2>1, <2>2, PooledOK
<1> HIDE DEF pool, won
<1>6. \A t \in won : /\ Suspension(t) \in Message /\ Suspension(t).type = "suspension"
                     /\ Suspension(t).target = t
  BY <1>3, <1>4, MessageTypes DEF Suspension
<1>7. out \in SUBSET Message
  BY <1>2, <1>6
<1>8. PartialsOK(out, log) /\ PartialsOK(sent \cup out, log)
  <2>1. \A x \in out : x.type = "partial" => x = m
    BY <1>6
  <2> HIDE DEF out
  <2> QED BY <1>2, <2>1 DEF IInv, PartialsOK
<1>9. \A t \in won : Guilty(sent \cup out, log, t)
  <2> HIDE DEF out
  <2> QED BY <1>4, <1>5, <1>8, SignedIsGuilty
<1>10. \A x \in out : x.type = "suspension" => Guilty(sent \cup out, log, x.target)
  <2>1. \A x \in out : x.type = "suspension" => x.target \in won
    BY <1>3, <1>6
  <2> HIDE DEF out
  <2> QED BY <1>9, <2>1
<1>11. \A t \in won : Suspension(t) \in out
  OBVIOUS
<1> HIDE DEF out
<1>12. /\ sent' = sent \cup out /\ sent' \subseteq Message
       /\ inbox' \in [Node -> SUBSET Message] /\ \A p \in Node : inbox'[p] \subseteq sent'
  BY <1>1, <1>7, GossipOK DEF Rest
<1>13. PartialsOK(sent', log') /\ SuspensionsOK' /\ ChainOK'
  BY <1>1, <1>7, <1>8, <1>10, <1>12, WireOK
<1>14. won \subseteq Target
  BY <1>3, <1>4
<1>15. TypeOK'
  BY <1>1, <1>2, <1>5, <1>12, <1>14 DEF TypeOK
<1>16. \A p \in Node : PoolOK(p)'
  <2> SUFFICES ASSUME NEW p \in Node PROVE PoolOK(p)'
    OBVIOUS
  <2>1. partials[p] \subseteq sent /\ OnePerIndex(partials[p]) /\ \A t \in pending[p] : Suspension(t) \in sent
    BY DEF IInv, PoolOK
  <2>2. partials'[p] = IF p = n THEN pool ELSE partials[p]
    BY <1>1, <1>2 DEF TypeOK
  <2>3. pending'[p] \subseteq pending[p] \cup won
    BY <1>1, <1>2 DEF TypeOK
  <2>4. partials'[p] \subseteq sent' /\ OnePerIndex(partials'[p])
    BY <1>5, <1>12, <2>1, <2>2
  <2>5. \A t \in pending'[p] : Suspension(t) \in sent'
    BY <1>11, <1>12, <2>1, <2>3
  <2> QED BY <1>12, <2>4, <2>5 DEF PoolOK
<1>17. \A p \in Node : ShareOK(p)'
  BY <1>1 DEF IInv, ShareOK, Prefix
<1>18. SuspendedOnce'
  BY <1>1 DEF IInv, SuspendedOnce
<1> QED BY <1>13, <1>15, <1>16, <1>17, <1>18 DEF IInv

(* A partial in the place of another. *)
LEMMA ReplacePartialOK ==
    ASSUME IInv, NEW n \in Node, NEW m \in inbox[n], ReplacePartial(n, m)
    PROVE  IInv'
<1> DEFINE pool == Pooled(partials[n], {m})
<1>1. /\ PartialCounts(n, m)
      /\ partials' = [partials EXCEPT ![n] = pool]
      /\ inbox' = [inbox EXCEPT ![n] = Rest(n, m)]
      /\ UNCHANGED <<log, height, share, held, dealt, emitted, pending, alive, sent>>
  BY DEF ReplacePartial
<1>2. TypeOK /\ m \in sent /\ m \in PartialMsg
  BY <1>1, MessageKinds DEF IInv, TypeOK, PoolOK, PartialCounts
<1>3. pool \subseteq PartialMsg /\ OnePerIndex(pool) /\ pool \subseteq sent
  <2>1. partials[n] \subseteq sent /\ OnePerIndex(partials[n]) /\ partials[n] \subseteq PartialMsg
    BY <1>2 DEF IInv, PoolOK, TypeOK
  <2>2. OnePerIndex({m})
    BY DEF OnePerIndex
  <2> QED BY <1>2, <2>1, <2>2, PooledOK
<1> HIDE DEF pool
<1>4. TypeOK'
  BY <1>1, <1>2, <1>3 DEF TypeOK, Rest
<1>5. \A p \in Node : PoolOK(p)'
  <2> SUFFICES ASSUME NEW p \in Node PROVE PoolOK(p)'
    OBVIOUS
  <2>1. inbox'[p] \subseteq inbox[p] /\ partials'[p] = IF p = n THEN pool ELSE partials[p]
    BY <1>1, <1>2 DEF TypeOK, Rest
  <2> QED BY <1>1, <1>3, <2>1 DEF IInv, PoolOK
<1> QED BY <1>1, <1>4, <1>5, QuietOK

(* A suspension that another node combined. *)
LEMMA OnSuspensionOK ==
    ASSUME IInv, NEW n \in Node, NEW m \in inbox[n], OnSuspension(n, m)
    PROVE  IInv'
<1>1. /\ m.type = "suspension"
      /\ pending' = [pending EXCEPT ![n] = @ \cup {m.target}]
      /\ Gossip(n, {m}, Rest(n, m))
      /\ UNCHANGED <<log, height, share, held, dealt, emitted, partials, alive>>
  BY DEF OnSuspension, SuspensionCounts
<1>2. TypeOK /\ m \in sent /\ m \in Message
  BY DEF IInv, TypeOK, PoolOK
<1>3. m \in SuspensionMsg /\ m.target \in Target /\ Suspension(m.target) = m
  BY <1>1, <1>2, MessageKinds DEF SuspensionMsg, Suspension
<1>4. /\ sent' = sent \cup {m} /\ sent' \subseteq Message
      /\ inbox' \in [Node -> SUBSET Message] /\ \A p \in Node : inbox'[p] \subseteq sent'
  BY <1>1, <1>2, GossipOK DEF Rest
<1>5. sent' = sent
  BY <1>2, <1>4
<1>6. TypeOK'
  BY <1>1, <1>2, <1>3, <1>4 DEF TypeOK
<1>7. \A p \in Node : PoolOK(p)'
  <2> SUFFICES ASSUME NEW p \in Node PROVE PoolOK(p)'
    OBVIOUS
  <2>1. pending'[p] \subseteq pending[p] \cup {m.target}
    BY <1>1, <1>2 DEF TypeOK
  <2> QED BY <1>1, <1>2, <1>3, <1>4, <1>5, <2>1 DEF IInv, PoolOK
<1> QED BY <1>1, <1>5, <1>6, <1>7, QuietOK

(* A sub-share, which may complete the fresh share of a member of the new set. *)
LEMMA OnSubShareOK ==
    ASSUME IInv, NEW n \in Node, NEW m \in inbox[n], OnSubShare(n, m)
    PROVE  IInv'
<1>1. /\ m.type = "subshare" /\ n \in NewSet(Prefix(n))
      /\ held' = [held EXCEPT ![n] = @ \cup {m.dealer}]
      /\ share' = [share EXCEPT ![n] = Combined(n, Prefix(n), held'[n], @)]
      /\ inbox' = [inbox EXCEPT ![n] = Rest(n, m)]
      /\ UNCHANGED <<log, height, dealt, emitted, partials, pending, alive, sent>>
  BY DEF OnSubShare, SubShareCounts
<1>2. TypeOK /\ m \in sent /\ m \in Message
  BY DEF IInv, TypeOK, PoolOK
<1>3. m.dealer \in Node
  BY <1>1, <1>2, MessageKinds DEF SubShareMsg
<1> DEFINE key == Combined(n, Prefix(n), held'[n], share[n])
<1>4. share' = [share EXCEPT ![n] = key] /\ (key = "fresh" \/ key = share[n])
  BY <1>1 DEF Combined
<1> HIDE DEF key
<1>5. share' \in [Node -> Sharing \cup {"none"}] /\ held' \in [Node -> SUBSET Node]
  BY <1>1, <1>2, <1>3, <1>4 DEF TypeOK, Sharing
<1>6. TypeOK' /\ \A p \in Node : inbox'[p] \subseteq inbox[p]
  BY <1>1, <1>2, <1>5 DEF TypeOK, Rest
<1>7. \A p \in Node : PoolOK(p)'
  BY <1>1, <1>6 DEF IInv, PoolOK
<1>8. \A p \in Node : ShareOK(p)'
  <2> SUFFICES ASSUME NEW p \in Node PROVE ShareOK(p)'
    OBVIOUS
  <2>1. Prefix(p)' = Prefix(p) /\ share'[p] = IF p = n THEN key ELSE share[p]
    BY <1>1, <1>2, <1>4 DEF TypeOK, Prefix
  <2> QED BY <1>1, <1>4, <2>1 DEF IInv, ShareOK
<1>9. PartialsOK(sent', log') /\ SuspensionsOK' /\ ChainOK' /\ SuspendedOnce'
  BY <1>1 DEF IInv, SuspensionsOK, ChainOK, SuspendedOnce
<1> QED BY <1>6, <1>7, <1>8, <1>9 DEF IInv

(* A message read and forgotten. *)
LEMMA IgnoreOK ==
    ASSUME IInv, NEW n \in Node, NEW m \in inbox[n], Ignore(n, m)
    PROVE  IInv'
<1>1. /\ inbox' = [inbox EXCEPT ![n] = Rest(n, m)]
      /\ UNCHANGED <<log, height, share, held, dealt, emitted, partials, pending, alive, sent>>
  BY DEF Ignore
<1>2. TypeOK' /\ \A p \in Node : inbox'[p] \subseteq inbox[p]
  BY <1>1 DEF IInv, TypeOK, Rest
<1>3. \A p \in Node : PoolOK(p)'
  BY <1>1, <1>2 DEF IInv, PoolOK
<1> QED BY <1>1, <1>2, <1>3, QuietOK

(* A node that stops. *)
LEMMA CrashOK ==
    ASSUME IInv, NEW n \in Node, Crash(n)
    PROVE  IInv'
<1>1. /\ alive' = [alive EXCEPT ![n] = FALSE] /\ inbox' = [inbox EXCEPT ![n] = {}]
      /\ partials' = [partials EXCEPT ![n] = {}] /\ pending' = [pending EXCEPT ![n] = {}]
      /\ UNCHANGED <<log, height, share, held, dealt, emitted, sent>>
  BY DEF Crash
<1>2. TypeOK' /\ \A p \in Node : /\ inbox'[p] \subseteq inbox[p] /\ pending'[p] \subseteq pending[p]
                                 /\ partials'[p] \subseteq partials[p]
  BY <1>1 DEF IInv, TypeOK
<1>3. \A p \in Node : PoolOK(p)'
  BY <1>1, <1>2 DEF IInv, PoolOK, OnePerIndex
<1> QED BY <1>1, <1>2, <1>3, QuietOK

-----------------------------------------------------------------------------
(* The theorems. *)

LEMMA IInvInit == Init => IInv
<1> SUFFICES ASSUME Init PROVE IInv
  OBVIOUS
<1>1. log = <<>> /\ log \in Seq(VBlock) /\ Len(log) = 0 /\ sent = {}
  BY DEF Init
<1>2. TypeOK
  BY <1>1 DEF Init, TypeOK, Sharing
<1>3. \A n \in Node : ShareOK(n) /\ PoolOK(n)
  BY DEF Init, ShareOK, PoolOK, OnePerIndex
<1>4. SuspendedOnce /\ PartialsOK(sent, log) /\ SuspensionsOK /\ ChainOK
  BY <1>1 DEF SuspendedOnce, PartialsOK, SuspensionsOK, ChainOK, SuspendedTargets
<1> QED BY <1>2, <1>3, <1>4 DEF IInv

LEMMA IInvStep == IInv /\ [Next]_vars => IInv'
<1> SUFFICES ASSUME IInv, [Next]_vars PROVE IInv'
  OBVIOUS
<1>1. ASSUME NEW n \in Node, Turn(n) \/ Crash(n) PROVE IInv'
  BY <1>1, FinalizeOK, AdvanceOK, QuietHeadOK, TickOK, OnPartialOK, ReplacePartialOK,
     OnSuspensionOK, OnSubShareOK, IgnoreOK, CrashOK DEF Turn, Receive
<1>2. CASE UNCHANGED vars
  <2>1. TypeOK'
    BY <1>2 DEF IInv, TypeOK, vars
  <2>2. \A p \in Node : PoolOK(p)'
    BY <1>2 DEF IInv, PoolOK, vars
  <2> QED BY <1>2, <2>1, <2>2, QuietOK DEF vars
<1> QED BY <1>1, <1>2 DEF Next

LEMMA IInvGuilty == IInv => SuspendedAreGuilty
<1> SUFFICES ASSUME IInv, NEW t \in SuspendedTargets(log) \cup UNION {pending[n] : n \in Node}
             PROVE  /\ t \in OnChain(log) \cap Malformed
                    /\ \E s \in Sharing : Cardinality(Signers(t, s)) >= Threshold
  BY DEF SuspendedAreGuilty
<1>1. Guilty(sent, log, t)
  <2>1. CASE t \in SuspendedTargets(log)
    BY <2>1 DEF IInv, ChainOK
  <2>2. CASE t \in UNION {pending[n] : n \in Node}
    <3>1. Suspension(t) \in sent
      BY <2>2 DEF IInv, PoolOK
    <3> QED BY <3>1 DEF IInv, SuspensionsOK, Suspension
  <2> QED BY <2>1, <2>2
<1>2. \A s : Signers(t, s) = SignersOf(sent, t, s)
  BY DEF Signers, SignersOf
<1> QED BY <1>1, <1>2 DEF Guilty

(***************************************************************************)
(* The verdict machinery stores and publishes nothing malformed, whatever  *)
(* the plan, the thresholds and the nodes that crash.                      *)
(***************************************************************************)
THEOREM VerdictTypeCorrect == Spec => []TypeOK
<1>1. IInv => TypeOK
  BY DEF IInv
<1> QED BY <1>1, IInvInit, IInvStep, PTL DEF Spec

(***************************************************************************)
(* No null_v is suspended twice, for any number of malformed transactions, *)
(* leaders and rotations: the checks of assemble_block and of              *)
(* structural_and_vrf_ok suffice though every node has a pool of its own.  *)
(***************************************************************************)
THEOREM SuspendedOnceHolds == Spec => []SuspendedOnce
<1>1. IInv => SuspendedOnce
  BY DEF IInv
<1> QED BY <1>1, IInvInit, IInvStep, PTL DEF Spec

(***************************************************************************)
(* Nobody is suspended, or about to be, but for a malformed transaction on *)
(* chain that a threshold of the indices of one sharing signed, through    *)
(* every rotation, crash and order of messages.                            *)
(***************************************************************************)
THEOREM GuiltHolds == Spec => []SuspendedAreGuilty
<1> QED BY IInvGuilty, IInvInit, IInvStep, PTL DEF Spec
=============================================================================
