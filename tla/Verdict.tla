------------------------------ MODULE Verdict ------------------------------
(***************************************************************************)
(* The autonomous verdicts of node.rs and the key they are signed with:    *)
(* authorities sign a partial for every malformed transaction on chain, a  *)
(* threshold of partials combines into the signature that suspends its     *)
(* author, a leader records the suspension; and once the validator set has *)
(* rotated, the holders of the key deal their shares to the new set.       *)
(*                                                                         *)
(* Consensus is one growing log here, of which every node has a prefix.    *)
(* Nodes are numbers: the order of peer ids decides the indices of shares. *)
(***************************************************************************)
EXTENDS ChainPath, BftQuorum

CONSTANTS Target,       \* the epoch ids of published transactions
          Owner,        \* the null_v behind each of them
          Malformed,    \* those whose gossip row is objectively malformed
          Threshold,    \* va_threshold
          Authorities,  \* verdict_authority
          Crashable,    \* the nodes that may stop for good
          MaxLag,       \* bound: how far behind the head a live node may be
          Plan          \* what consensus may order: the alternatives of each height

ASSUME VerdictAssumption ==
    /\ Node \subseteq Nat /\ Authorities \subseteq Node /\ Crashable \subseteq Genesis
    /\ Malformed \subseteq Target /\ DOMAIN Owner = Target
    /\ Threshold \in Nat \ {0} /\ MaxLag \in Nat \ {0}
    /\ Plan \in Seq(SUBSET [txs : SUBSET Target, ops : SUBSET Op])

VARIABLES log,       \* the finalized blocks
          height,    \* how many of them a node has
          share,     \* current_share: of the genesis key, of the re-shared one, or none
          held,      \* va_held: the dealers whose sub-share the node holds
          dealt,     \* it has dealt at this height (va_reshare_last_h)
          emitted,   \* emitted_partials
          partials,  \* verdict_partials: one for each target and index
          pending,   \* pending_suspensions
          alive,     \* it runs
          inbox,     \* the messages on their way to it
          sent       \* everything ever published, by anyone

vars == <<log, height, share, held, dealt, emitted, partials, pending, alive, inbox, sent>>

-----------------------------------------------------------------------------
(* Blocks, messages, and what a chain says. *)

VBlock == [txs : SUBSET Target, ops : SUBSET Op, suspensions : SUBSET Target]

Sharing == {"genesis", "fresh"}

PartialMsg == [type : {"partial"}, target : Target, index : Nat \ {0}, sharing : Sharing]
SuspensionMsg == [type : {"suspension"}, target : Target]
SubShareMsg == [type : {"subshare"}, dealer : Node, member : Node]

Partial(t, i, s) == [type |-> "partial", target |-> t, index |-> i, sharing |-> s]
Suspension(t) == [type |-> "suspension", target |-> t]
SubShare(d, m) == [type |-> "subshare", dealer |-> d, member |-> m]

OnChain(path) == UNION {path[i].txs : i \in 1..Len(path)}

(* suspended_targets and already_suspended: by epoch id, and by null_v. *)
SuspendedTargets(path) == UNION {path[i].suspensions : i \in 1..Len(path)}

(* Mutant: epoch ids are taken for null_v. *)
MutAlreadySuspended(path) == SuspendedTargets(path)

AlreadySuspended(path) == {Owner[t] : t \in SuspendedTargets(path)}

Prefix(n) == SubSeq(log, 1, height[n])

(* Mutant: any transaction on chain may be judged. *)
MutTargetIsMalformed(path, t) == t \in OnChain(path)

(* The objective verdict: t is on chain and its gossip row is malformed. *)
TargetIsMalformed(path, t) == t \in OnChain(path) \cap Malformed

(* A suspension is new when nobody suspended that null_v, on chain or among the others. *)
Fresh(path, others, t) == Owner[t] \notin AlreadySuspended(path) \cup {Owner[o] : o \in others}

(* One suspension for each null_v. *)
OnePerOwner(ts) == \A t, u \in ts : Owner[t] = Owner[u] => t = u

-----------------------------------------------------------------------------
(* The re-share of the verdict key. *)

(* Mutant: positions are counted from 0, where the polynomial holds the key itself. *)
MutIndexIn(n, S) == Cardinality({x \in S : x < n})

(* The 1-based position of n in the sorted set S. *)
IndexIn(n, S) == Cardinality({x \in S : x <= n})

Rotations(path) == {i \in 1..Len(path) : path[i].ops # {}}

(* va_reshare_target: the set after the first rotation; empty before. *)
NewSet(path) ==
    LET first == {i \in Rotations(path) : \A j \in Rotations(path) : i <= j}
    IN UNION {ActiveSet(SubSeq(path, 1, i)) : i \in first}

(* va_canonical_dealers: the lowest genesis shareholders still in the set, if they are enough. *)
Dealers(path) ==
    LET stay == Genesis \cap NewSet(path)
    IN {d \in stay : Cardinality(stay) >= Threshold /\ IndexIn(d, stay) <= Threshold}

(* try_combine_va_reshare: the share of n, once it holds every canonical dealer's sub-share. *)
Combined(n, path, from, old) ==
    IF n \in NewSet(path) /\ Dealers(path) # {} /\ Dealers(path) \subseteq from THEN "fresh" ELSE old

(* Mutant: only those who hold the old key are dealt to. *)
MutReceivers(n, path) == (NewSet(path) \cap Genesis) \ {n}

(* The members that n can seal a sub-share to: those whose mix key the set at the head's height names. *)
Receivers(n, path) == (NewSet(path) \cap ActiveSet(SubSeq(path, 1, Len(path) - 1))) \ {n}

Deals(n) == ~dealt[n] /\ n \in Dealers(Prefix(n))

(* The index of the share n signs with. *)
ShareIndex(n, sharing) == IndexIn(n, IF sharing = "genesis" THEN Genesis ELSE NewSet(Prefix(n)))

-----------------------------------------------------------------------------
(* The verdict on a target. *)

(* The pool with one more partial: the last one of a target and index stays. *)
Pooled(pool, ps) ==
    {q \in pool : \A p \in ps : p.target # q.target \/ p.index # q.index} \cup ps

(* Mutant: one more partial is waited for. *)
MutSigned(pool, t) ==
    \E L \in SUBSET {p \in pool : p.target = t} :
        /\ Cardinality(L) = Threshold + 1
        /\ \A p \in L : \A q \in {x \in pool : x.target = t} \ L : p.index < q.index
        /\ \A p, q \in L : p.sharing = q.sharing

(* combine_signatures of the lowest indices gives the signature if all are shares of one sharing. *)
Signed(pool, t) ==
    \E L \in SUBSET {p \in pool : p.target = t} :
        /\ Cardinality(L) = Threshold
        /\ \A p \in L : \A q \in {x \in pool : x.target = t} \ L : p.index < q.index
        /\ \A p, q \in L : p.sharing = q.sharing

(* try_combine_verdict: the pool of n, as it is after this step, suspends t. *)
Combines(n, pool, t) ==
    t \in OnChain(Prefix(n)) /\ Signed(pool, t) /\ Fresh(Prefix(n), pending[n], t)

(* The targets an authority has yet to sign for, once each. *)
Due(n, s) ==
    {t \in OnChain(Prefix(n)) : /\ n \in Authorities /\ s # "none"
                                /\ TargetIsMalformed(Prefix(n), t)
                                /\ t \notin SuspendedTargets(Prefix(n)) \cup emitted[n]}

(* Messages that no handler of p could ever use are not put in its inbox. *)
Useful(p, m) ==
    /\ alive[p]
    /\ CASE m.type = "partial" -> /\ p \in Authorities /\ m \notin partials[p]
                                  /\ m.target \notin SuspendedTargets(Prefix(p))
         [] m.type = "suspension" -> Fresh(Prefix(p), pending[p], m.target)
         [] m.type = "subshare" -> m.member = p /\ m.dealer \notin held[p]

Gossip(n, out, mine) ==
    /\ sent' = sent \cup out
    /\ inbox' = [p \in Node |-> IF p = n THEN mine ELSE inbox[p] \cup {m \in out : Useful(p, m)}]

-----------------------------------------------------------------------------
Init ==
    /\ log = <<>>
    /\ height = [n \in Node |-> 0]
    /\ share = [n \in Node |-> IF n \in Genesis THEN "genesis" ELSE "none"]
    /\ held = [n \in Node |-> {}]
    /\ dealt = [n \in Node |-> FALSE]
    /\ emitted = [n \in Node |-> {}]
    /\ partials = [n \in Node |-> {}]
    /\ pending = [n \in Node |-> {}]
    /\ alive = [n \in Node |-> n \in Genesis]
    /\ inbox = [n \in Node |-> {}]
    /\ sent = {}

(* The suspensions a leader puts into its block: one for each null_v not on chain. *)
Assembled(n) ==
    LET new == {t \in pending[n] : Fresh(log, {}, t) /\ t \in OnChain(log)}
    IN {ts \in SUBSET new : OnePerOwner(ts) /\ \A t \in new : ~Fresh(<<>>, ts, t)}

(* structural_and_vrf_ok, as far as it speaks of suspensions: the signature can be had for each. *)
ValidSuspensions(ts) == \A t \in ts : Fresh(log, ts \ {t}, t) /\ Suspension(t) \in sent

(***************************************************************************)
(* A newcomer is modelled from the block that lets it in: until then it    *)
(* has neither a vote nor a share, and all it could do is pass messages on.*)
(***************************************************************************)
Newcomers(ops) == {m \in Node \ Genesis : [kind |-> "add", subject |-> m] \in ops}

(* Enough of the set are up and at the head to certify a block: without them the chain halts. *)
QuorumAtHead ==
    IsQuorum({m \in Node : alive[m] /\ height[m] = Len(log)}, ActiveSet(log))

(* What else the next block may hold: the plan's choice, and nothing beyond it. *)
Ordered == IF Len(log) < Len(Plan) THEN Plan[Len(log) + 1] ELSE {[txs |-> {}, ops |-> {}]}

(***************************************************************************)
(* Consensus orders the next block, proposed by a member at the head and   *)
(* certified by a quorum of the members.  Beyond the plan only two kinds   *)
(* of block are modelled: those that record a suspension and the one after *)
(* a rotation, from which on the set at the head names the newcomers.      *)
(***************************************************************************)
Finalize(n) ==
    /\ alive[n] /\ height[n] = Len(log) /\ n \in ActiveSet(log) /\ QuorumAtHead
    /\ \A p \in Node : alive[p] => height[p] + MaxLag > Len(log)
    /\ \E ts \in Assembled(n), next \in Ordered :
          /\ Len(log) < Len(Plan) \/ ts # {} \/ Len(log) \in Rotations(log)
          /\ ValidSuspensions(ts)
          /\ log' = Append(log, [txs |-> next.txs, ops |-> next.ops, suspensions |-> ts])
          /\ alive' = [m \in Node |-> alive[m] \/ m \in Newcomers(next.ops)]
    /\ UNCHANGED <<height, share, held, dealt, emitted, partials, pending, inbox, sent>>

(* A node appends the next block and, entering the round after it, drops what the chain has settled. *)
Advance(n) ==
    LET path == SubSeq(log, 1, height[n] + 1) IN
    /\ alive[n] /\ height[n] < Len(log)
    /\ height' = [height EXCEPT ![n] = @ + 1]
    /\ dealt' = [dealt EXCEPT ![n] = FALSE]
    /\ pending' = [pending EXCEPT ![n] = {t \in @ : Fresh(path, {}, t)}]
    /\ partials' = [partials EXCEPT ![n] = {p \in @ : p.target \notin SuspendedTargets(path)}]
    /\ UNCHANGED <<log, share, held, emitted, alive, inbox, sent>>

(***************************************************************************)
(* A block without content beyond the plan: all it does is let a dealer    *)
(* deal again, and it is left out unless that reaches a member whose own   *)
(* chain is long enough to take the sub-share.                             *)
(***************************************************************************)
QuietHead(n) ==
    /\ alive[n] /\ height[n] = Len(log) /\ Len(log) >= Len(Plan) /\ QuorumAtHead /\ dealt[n]
    /\ \E m \in Receivers(n, Prefix(n)) :
          /\ Useful(m, SubShare(n, m)) /\ SubShare(n, m) \notin inbox[m]
          /\ n \in Dealers(Prefix(m))
    /\ dealt' = [dealt EXCEPT ![n] = FALSE]
    /\ UNCHANGED <<log, height, share, held, emitted, partials, pending, alive, inbox, sent>>

(* A tick: drive_va_reshare, then drive_verdicts with the share that leaves. *)
Tick(n) ==
    LET path == Prefix(n)
        deals == Deals(n)
        parcels == {SubShare(n, m) : m \in {x \in Receivers(n, path) : deals}}
        from == held[n] \cup {d \in {n} : deals}
        key == IF deals THEN Combined(n, path, from, share[n]) ELSE share[n]
        due == Due(n, key)
        mine == {Partial(t, ShareIndex(n, key), key) : t \in due}
        pool == Pooled(partials[n], mine)
        won == {t \in due : Combines(n, pool, t)}
    IN /\ alive[n] /\ (deals \/ due # {})
       /\ held' = [held EXCEPT ![n] = from]
       /\ dealt' = [dealt EXCEPT ![n] = @ \/ deals]
       /\ share' = [share EXCEPT ![n] = key]
       /\ emitted' = [emitted EXCEPT ![n] = @ \cup due]
       /\ partials' = [partials EXCEPT ![n] = pool]
       /\ \E ts \in SUBSET won :
             /\ OnePerOwner(ts) /\ {Owner[t] : t \in ts} = {Owner[t] : t \in won}
             /\ pending' = [pending EXCEPT ![n] = @ \cup ts]
             /\ Gossip(n, parcels \cup mine \cup {Suspension(t) : t \in ts}, inbox[n])
       /\ UNCHANGED <<log, height, alive>>

-----------------------------------------------------------------------------
(* The handlers of on_msg.  Each reads one message of the inbox of n. *)

Rest(n, m) == inbox[n] \ {m}

Repeats(n, m) == \E p \in partials[n] : p.target = m.target /\ p.index = m.index

PartialCounts(n, m) ==
    /\ m.type = "partial" /\ n \in Authorities
    /\ TargetIsMalformed(Prefix(n), m.target) /\ m.target \notin SuspendedTargets(Prefix(n))

(* A partial of a new index is pooled, passed on, and may complete the signature. *)
OnPartial(n, m) ==
    LET pool == Pooled(partials[n], {m})
        won == {t \in {m.target} : Combines(n, pool, t)}
    IN /\ PartialCounts(n, m) /\ ~Repeats(n, m)
       /\ partials' = [partials EXCEPT ![n] = pool]
       /\ pending' = [pending EXCEPT ![n] = @ \cup won]
       /\ Gossip(n, {m} \cup {Suspension(t) : t \in won}, Rest(n, m))
       /\ UNCHANGED <<log, height, share, held, dealt, emitted, alive>>

(* A partial of an index that is in the pool takes its place, and that is all. *)
ReplacePartial(n, m) ==
    /\ PartialCounts(n, m) /\ Repeats(n, m)
    /\ partials' = [partials EXCEPT ![n] = Pooled(@, {m})]
    /\ inbox' = [inbox EXCEPT ![n] = Rest(n, m)]
    /\ UNCHANGED <<log, height, share, held, dealt, emitted, pending, alive, sent>>

SuspensionCounts(n, m) ==
    m.type = "suspension" /\ m.target \in OnChain(Prefix(n)) /\ Fresh(Prefix(n), pending[n], m.target)

(* A signature that opens the target's commitment is pooled for the next leader and passed on. *)
OnSuspension(n, m) ==
    /\ SuspensionCounts(n, m)
    /\ pending' = [pending EXCEPT ![n] = @ \cup {m.target}]
    /\ Gossip(n, {m}, Rest(n, m))
    /\ UNCHANGED <<log, height, share, held, dealt, emitted, partials, alive>>

SubShareCounts(n, m) ==
    m.type = "subshare" /\ m.member = n /\ n \in NewSet(Prefix(n)) /\ m.dealer \in Dealers(Prefix(n))

(* The sub-share of a canonical dealer, perhaps the last one. *)
OnSubShare(n, m) ==
    /\ SubShareCounts(n, m)
    /\ held' = [held EXCEPT ![n] = @ \cup {m.dealer}]
    /\ share' = [share EXCEPT ![n] = Combined(n, Prefix(n), held'[n], @)]
    /\ inbox' = [inbox EXCEPT ![n] = Rest(n, m)]
    /\ UNCHANGED <<log, height, dealt, emitted, partials, pending, alive, sent>>

(* Anything else, what comes before the chain it speaks of included, is read and forgotten. *)
Ignore(n, m) ==
    /\ ~(PartialCounts(n, m) \/ SuspensionCounts(n, m) \/ SubShareCounts(n, m))
    /\ inbox' = [inbox EXCEPT ![n] = Rest(n, m)]
    /\ UNCHANGED <<log, height, share, held, dealt, emitted, partials, pending, alive, sent>>

Receive(n) ==
    /\ alive[n]
    /\ \E m \in inbox[n] :
          \/ OnPartial(n, m) \/ ReplacePartial(n, m) \/ OnSuspension(n, m)
          \/ OnSubShare(n, m) \/ Ignore(n, m)

(* The process of a node is killed; what it had published is still on its way. *)
Crash(n) ==
    /\ n \in Crashable /\ alive[n]
    /\ alive' = [alive EXCEPT ![n] = FALSE]
    /\ inbox' = [inbox EXCEPT ![n] = {}]
    /\ partials' = [partials EXCEPT ![n] = {}]
    /\ pending' = [pending EXCEPT ![n] = {}]
    /\ UNCHANGED <<log, height, share, held, dealt, emitted, sent>>

(* One turn of the loop of n, or a block it proposes and consensus orders. *)
Turn(n) == Finalize(n) \/ Advance(n) \/ QuietHead(n) \/ Tick(n) \/ Receive(n)

Next == \E n \in Node : Turn(n) \/ Crash(n)

Spec == Init /\ [][Next]_vars

(***************************************************************************)
(* Fairness: as long as some live node can turn, one does.  Ticker and     *)
(* inbox are polled, a final block reaches every node                      *)
(* (Consensus!ChainsSpread), a live quorum is taken to finalize, and       *)
(* leaders rotate with the beacon, so one that has something to record     *)
(* gets to.  Each turn consumes a message, which is passed on at most once *)
(* by each node, or adds to the chain or to what a node has done: there    *)
(* are finitely many, and this is the same as fairness to each.            *)
(***************************************************************************)
Fairness == WF_vars(\E n \in Node : Turn(n))

FairSpec == Spec /\ Fairness

-----------------------------------------------------------------------------
(* Type correctness: what is on chain, what each node keeps, what is on the wire. *)
Message == PartialMsg \cup SuspensionMsg \cup SubShareMsg

TypeOK ==
    /\ log \in Seq(VBlock)
    /\ height \in [Node -> 0..Len(log)]
    /\ share \in [Node -> Sharing \cup {"none"}]
    /\ held \in [Node -> SUBSET Node]
    /\ dealt \in [Node -> BOOLEAN]
    /\ emitted \in [Node -> SUBSET Target]
    /\ partials \in [Node -> SUBSET PartialMsg]
    /\ pending \in [Node -> SUBSET Target]
    /\ alive \in [Node -> BOOLEAN]
    /\ inbox \in [Node -> SUBSET Message]
    /\ sent \subseteq Message

(***************************************************************************)
(* Every suspension on chain, and every one a leader may yet record, is of *)
(* a malformed transaction that was on chain, and a threshold of shares of *)
(* one sharing has signed it: neither a re-share half done, nor an index   *)
(* two nodes sign under, makes a verdict of fewer.                         *)
(***************************************************************************)
Signers(t, s) == {m.index : m \in {x \in sent : x.type = "partial" /\ x.target = t /\ x.sharing = s}}

SuspendedAreGuilty ==
    \A t \in SuspendedTargets(log) \cup UNION {pending[n] : n \in Node} :
        /\ t \in OnChain(log) \cap Malformed
        /\ \E s \in Sharing : Cardinality(Signers(t, s)) >= Threshold

(***************************************************************************)
(* No null_v is suspended twice, though its author has several malformed   *)
(* transactions, each with a verdict of its own and reaching other leaders.*)
(***************************************************************************)
SuspendedOnce ==
    \A i, j \in 1..Len(log) : \A t \in log[i].suspensions, u \in log[j].suspensions :
        Owner[t] = Owner[u] => i = j /\ t = u

(* The author of every malformed transaction on chain is suspended in the end. *)
MalformedAreSuspended ==
    \A t \in Malformed : (t \in OnChain(log)) ~> (Owner[t] \in AlreadySuspended(log))

(***************************************************************************)
(* Once the set has rotated every live member of the new set comes to hold *)
(* a fresh share, newcomers included, whatever order blocks and sub-shares *)
(* arrive in and although a sub-share that comes too early is dropped.     *)
(***************************************************************************)
ReshareCompletes ==
    (NewSet(log) # {}) ~> (\A n \in NewSet(log) : alive[n] => share[n] = "fresh")
=============================================================================
