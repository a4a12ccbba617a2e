---------------------------- MODULE SignalPools ----------------------------
(***************************************************************************)
(* What the nodes report of each other and leaders record in headers       *)
(* (node.rs with audit.rs, watchdog.rs and rewind.rs): first observations  *)
(* of newcomers, public verdict commits, watchdog signals over a burst of  *)
(* them, rewind signals over a spike of an item, and the handoff proof of  *)
(* a leaver.  All five follow one scheme: a driver raises a record from    *)
(* its own chain, pools and publishes it once; a receiver checks it        *)
(* against its own, perhaps shorter, chain and pools it or forgets it; a   *)
(* leader records what is valid.  Verdicts are then read off the chain.    *)
(*                                                                         *)
(* Consensus is one growing log of which every node has a prefix.          *)
(***************************************************************************)
EXTENDS ChainPath, BftQuorum, FiniteSetsExt

CONSTANTS Item,           \* the items that preferences and gossip weigh
          Scenarios,      \* bound: what may be ordered, and who watches and who misbehaves meanwhile
          SignalQuorum,   \* SIGNAL_QUORUM
          Expected,       \* EXPECTED_RATE + THRESHOLD_WATCHDOG
          Velocity,       \* VELOCITY_THRESHOLD
          RewindQ,        \* REWIND_Q
          MinClusters,    \* MIN_CLUSTERS
          BurstWindow,    \* BURST_WINDOW
          BurstThreshold, \* BURST_THRESHOLD
          MaxLag          \* bound: how far a node may be behind the log when it grows

(* An epoch transaction; `gossip` is the weight of each item, all zero without preferences. *)
Tx == [id : Nat, by : Node, malformed : BOOLEAN, gossip : [Item -> Nat]]

Scenario == [up : SUBSET Node,                  \* those who run
             plan : Seq([txs : SUBSET Tx, ops : SUBSET Op]),
             observers : SUBSET Node,           \* audit_authority
             rogue : [Node -> SUBSET Nat],      \* rogue_commit_targets
             watchdogs : SUBSET Node,           \* watchdog_authority
             rewinders : SUBSET Node,           \* rewind_authority
             taste : [Node -> Item],            \* my_dominant_item
             leavers : SUBSET Node]             \* those with a leave_at and preferences

ASSUME SignalPoolsAssumption ==
    /\ Item \subseteq Nat \ {0} /\ IsFiniteSet(Item) /\ Item # {}
    /\ Node \subseteq Nat
    /\ Scenarios \subseteq Scenario
    /\ \A s \in Scenarios : \A n \in Node : IsFiniteSet(s.rogue[n])
    /\ {SignalQuorum, Expected, Velocity, RewindQ, MinClusters, BurstWindow, BurstThreshold, MaxLag} \subseteq Nat

VARIABLES scenario,  \* the one this behaviour is about
          log,       \* the finalized blocks: the records of each
          height,    \* how many of them a node has
          pool,      \* the records it keeps for the next block: the pools of all kinds
          done,      \* what its drivers will not do again: observed, committed, raised, published
          inbox      \* the records on their way to it

vars == <<scenario, log, height, pool, done, inbox>>

-----------------------------------------------------------------------------
(* Records. *)

Kinds == {"audit", "commit", "watchdog", "rewind", "proof"}

(***************************************************************************)
(* FirstObservation, VerdictCommit, WatchdogSignal, RewindSignal and       *)
(* HandoffProofRecord: what it is `about` (newcomer, transaction, round,   *)
(* epoch, transaction) and what it claims of it.                           *)
(***************************************************************************)
Record ==
    {r \in [kind : Kinds, by : Node, about : Nat, claim : Nat] :
        /\ r.kind = "audit" => r.about \in Node /\ r.claim > 0
        /\ r.kind = "commit" => r.claim = 0
        /\ r.kind \in {"watchdog", "rewind"} => r.about > 0
        /\ r.kind = "rewind" => r.about <= r.claim}

(* Two records of one key are taken for the same. *)
Key(r) == IF r.kind = "proof" THEN <<r.kind, r.about>> ELSE <<r.kind, r.by, r.about>>
Keys(records) == {Key(r) : r \in records}

(* Mutant: a record is on chain if the head has it. *)
MutRecorded(path) == IF path = <<>> THEN {} ELSE path[Len(path)]

Recorded(path) == UNION {path[i] : i \in 1..Len(path)}

(* As the tallies see them: a record in two blocks counts twice. *)
Entries(path, kind) == {e \in UNION {{i} \X path[i] : i \in 1..Len(path)} : e[2].kind = kind}
Signed(path, kind, about) == {e[2].by : e \in {x \in Entries(path, kind) : x[2].about = about}}

Prefix(n) == SubSeq(log, 1, height[n])

-----------------------------------------------------------------------------
(* What a chain says: pure functions of its transactions, ops and records. *)

(* The part of the plan that a chain holds. *)
Ordered(path) == SubSeq(scenario.plan, 1, Min({Len(path), Len(scenario.plan)}))

(* active_set_at *)
MembersAt(path, h) == ActiveSet(SubSeq(Ordered(path), 1, Min({h - 1, Len(Ordered(path))})))
Members(path) == MembersAt(path, Len(path) + 1)

Txs(path) == UNION {Ordered(path)[i].txs : i \in 1..Len(Ordered(path))}

Joins(path, p) == {i \in 1..Len(Ordered(path)) : [kind |-> "add", subject |-> p] \in Ordered(path)[i].ops}

(* admissions: a newcomer is admitted by the first op that adds it. *)
Newcomers(path) == {p \in Node \ Genesis : Joins(path, p) # {}}

(* Mutant: by the last one. *)
MutAdmittedAt(path, p) == Max(Joins(path, p))

(* Mutant: blocks are counted from 0. *)
MutAdmittedFromZero(path, p) == Min(Joins(path, p)) - 1

AdmittedAt(path, p) == Min(Joins(path, p))

(* commit_counts: the commits, and those whose target a malformed transaction justifies. *)
Observed(path) == Cardinality(Entries(path, "commit"))
Justified(path) ==
    Cardinality({e \in Entries(path, "commit") : \E t \in Txs(path) : t.id = e[2].about /\ t.malformed})

Anomalous(path) == Observed(path) > Expected /\ Justified(path) < Observed(path)

CommitHeights(path) == {e[1] : e \in Entries(path, "commit")}

(* oversight_round: the height of the first block that has a commit; none before. *)
OversightRound(path) == IF CommitHeights(path) = {} THEN {} ELSE {Min(CommitHeights(path))}

OversightTriggered(path) ==
    \E round \in OversightRound(path) : Cardinality(Signed(path, "watchdog", round)) >= SignalQuorum

-----------------------------------------------------------------------------
(* The spike of an item. *)

Preferring(txs) == {t \in txs : \E j \in Item : t.gossip[j] > 0}
Epochs(path) == {i \in 1..Len(Ordered(path)) : Preferring(Ordered(path)[i].txs) # {}}

(* gossip_column_sums *)
ColumnSum(path, i, j) == MapThenSumSet(LAMBDA t : t.gossip[j], Preferring(Ordered(path)[i].txs))

(* By how much each item rises at epoch i over the epoch before it. *)
Rise(path, i, j) ==
    ColumnSum(path, i, j) - ColumnSum(path, Max({k \in Epochs(path) : k < i}), j)

Spiking(path) ==
    {i \in Epochs(path) : /\ \E k \in Epochs(path) : k < i
                          /\ \E j \in Item : Rise(path, i, j) > Velocity}

(* The item that rises most, the first of equals. *)
Pushed(path, i) ==
    CHOOSE j \in Item : \A k \in Item : \/ Rise(path, i, k) < Rise(path, i, j)
                                        \/ Rise(path, i, k) = Rise(path, i, j) /\ j <= k

(* Mutant: the latest spike. *)
MutVelocitySpike(path) ==
    {[epoch |-> i, item |-> Pushed(path, i)] : i \in {x \in Spiking(path) : \A k \in Spiking(path) : k <= x}}

(* velocity_spike: the earliest; none without. *)
VelocitySpike(path) ==
    {[epoch |-> i, item |-> Pushed(path, i)] : i \in {x \in Spiking(path) : \A k \in Spiking(path) : x <= k}}

(* The dominant item of a row, the last of equals. *)
Dominant(row) == Max({j \in Item : \A k \in Item : row[k] <= row[j]})

(* signaler_cluster: that of its latest row on chain; none without. *)
Rows(path, p) == {i \in Epochs(path) : \E t \in Preferring(Ordered(path)[i].txs) : t.by = p}
Cluster(path, p) ==
    IF Rows(path, p) = {} THEN {}
    ELSE {Dominant(t.gossip) : t \in {x \in Preferring(Ordered(path)[Max(Rows(path, p))].txs) : x.by = p}}

(* class3_triggered and class3_trigger: enough signers of enough clusters name the spike. *)
Class3Triggered(path) ==
    \E spike \in VelocitySpike(path) :
        LET signers == Signed(path, "rewind", spike.epoch)
        IN /\ Cardinality(signers) >= RewindQ
           /\ Cardinality(UNION {Cluster(path, p) : p \in signers}) >= MinClusters

-----------------------------------------------------------------------------
(* The proof of a leaver. *)

Removals(path, p) == {i \in 1..Len(Ordered(path)) : [kind |-> "remove", subject |-> p] \in Ordered(path)[i].ops}

Profiles(path, p) ==
    IF Removals(path, p) = {} THEN {} ELSE {i \in Rows(path, p) : i <= Min(Removals(path, p))}

ProfileId(path, p, i) == (CHOOSE t \in Preferring(Ordered(path)[i].txs) : t.by = p).id

(* handoff_proof_inputs: its two latest profiles up to its departure. *)
Proofs(path, p) ==
    IF Cardinality(Profiles(path, p)) < 2 THEN {}
    ELSE LET last == Max(Profiles(path, p))
             before == Max(Profiles(path, p) \ {last})
         IN {[kind |-> "proof", by |-> p, about |-> ProfileId(path, p, last),
              claim |-> ProfileId(path, p, before)]}

-----------------------------------------------------------------------------
(* Validity against a chain; that r is signed by its author is told by where it comes from. *)

(* validate_audit_report *)
ValidAudit(path, r) ==
    /\ r.about \in Newcomers(path) /\ r.claim = AdmittedAt(path, r.about)
    /\ r.by \in MembersAt(path, r.claim)

(* validate_watchdog_signal *)
ValidWatchdog(path, r) ==
    /\ r.about \in OversightRound(path) /\ r.by \in MembersAt(path, r.about)
    /\ Anomalous(path) /\ r.claim <= Observed(path)

(* validate_rewind_signal; preferred_t is the epoch before, `claim` is current_t. *)
ValidRewind(path, r) ==
    \E spike \in VelocitySpike(path) :
        /\ r.about = spike.epoch /\ r.about - 1 < r.claim
        /\ r.by \in MembersAt(path, r.about)
        /\ \E c \in Cluster(path, r.by) : c # spike.item

(* validate_handoff_proof: both transactions are on chain. *)
ValidProof(path, r) == {r.about, r.claim} \subseteq {t.id : t \in Preferring(Txs(path))}

Valid(path, r) ==
    CASE r.kind = "audit" -> ValidAudit(path, r)
      [] r.kind = "commit" -> TRUE
      [] r.kind = "watchdog" -> ValidWatchdog(path, r)
      [] r.kind = "rewind" -> ValidRewind(path, r)
      [] r.kind = "proof" -> ValidProof(path, r)

-----------------------------------------------------------------------------
(* The cohort of newcomers that came in a burst. *)

(* audit_first_seen: a subject with valid reports was first seen at the height they agree on. *)
Reports(path) == {e[2] : e \in {x \in Entries(path, "audit") : ValidAudit(path, x[2])}}
FirstSeen(path, p) == {r.claim : r \in {x \in Reports(path) : x.about = p}}
Seen(path) == {p \in Node : FirstSeen(path, p) # {}}

(* burst_score and flagged_cohort *)
Near(path, p, q) ==
    \E a \in FirstSeen(path, p), b \in FirstSeen(path, q) : a - b \in -BurstWindow..BurstWindow
FlaggedCohort(path) ==
    {p \in Seen(path) : Cardinality({q \in Seen(path) : Near(path, p, q)}) >= BurstThreshold}

-----------------------------------------------------------------------------
(* The drivers: what they would raise now, from the chain alone. *)

Audits(n) ==
    {[kind |-> "audit", by |-> n, about |-> p, claim |-> AdmittedAt(Prefix(n), p)] :
        p \in {q \in Newcomers(Prefix(n)) : n \in scenario.observers /\ <<"audit", q>> \notin done[n]}}

Commits(n) ==
    {[kind |-> "commit", by |-> n, about |-> t, claim |-> 0] :
        t \in {x \in scenario.rogue[n] : <<"commit", x>> \notin done[n]}}

WatchdogSignals(n) ==
    {[kind |-> "watchdog", by |-> n, about |-> round, claim |-> Observed(Prefix(n))] :
        round \in {x \in OversightRound(Prefix(n)) :
                      n \in scenario.watchdogs /\ <<"watchdog", 0>> \notin done[n] /\ Anomalous(Prefix(n))}}

RewindSignals(n) ==
    {[kind |-> "rewind", by |-> n, about |-> spike.epoch, claim |-> height[n]] :
        spike \in {x \in VelocitySpike(Prefix(n)) :
                      /\ n \in scenario.rewinders /\ <<"rewind", 0>> \notin done[n]
                      /\ scenario.taste[n] # x.item /\ x.epoch - 1 < height[n]}}

(* The proof is published again at every height, and is not pooled by its author. *)
Publishes(n) ==
    {r \in Proofs(Prefix(n), n) : /\ n \in scenario.leavers /\ <<"proof", height[n]>> \notin done[n]
                                  /\ Key(r) \notin Keys(Recorded(Prefix(n)))}

Raises(n) == Audits(n) \cup Commits(n) \cup WatchdogSignals(n) \cup RewindSignals(n)

(* What a driver need not do again: observed, rogue_committed, watchdog_raised, rewind_raised, pub_h. *)
Mark(n, r) ==
    CASE r.kind \in {"audit", "commit"} -> <<r.kind, r.about>>
      [] r.kind \in {"watchdog", "rewind"} -> <<r.kind, 0>>
      [] r.kind = "proof" -> <<r.kind, height[n]>>

(* n has a record of the key of r, on chain or in its pool. *)
Has(n, r) == Key(r) \in Keys(Recorded(Prefix(n)) \cup pool[n])

(* Mutant: a record of one's own is published, not pooled. *)
MutPools(n, new) == {}

(* What goes into the pool of n of what it has raised. *)
Pools(n, new) == new

(***************************************************************************)
(* Everybody is connected to everybody.  A record that its receiver has    *)
(* already is not put into its inbox.                                      *)
(***************************************************************************)
Gossip(n, out, mine) ==
    inbox' = [p \in Node |->
                 IF p = n THEN mine ELSE inbox[p] \cup {r \in out : p \in scenario.up /\ ~Has(p, r)}]

-----------------------------------------------------------------------------
Init ==
    /\ scenario \in Scenarios
    /\ log = <<>>
    /\ height = [n \in Node |-> 0]
    /\ pool = [n \in Node |-> {}]
    /\ done = [n \in Node |-> {}]
    /\ inbox = [n \in Node |-> {}]

(* A record of this key is not on chain. *)
Fresh(path, r) == Key(r) \notin Keys(Recorded(path))

(* assemble_block: of each key one record that is valid; the voters check the same. *)
Assembled(n) == {r \in pool[n] : Fresh(log, r) /\ Valid(log, r)}

(* Consensus orders the next block; after the plan only such as record something. *)
Finalize(n) ==
    /\ n \in Members(log) /\ height[n] = Len(log)
    /\ IsQuorum({m \in Members(log) : height[m] = Len(log)}, Members(log))
    /\ \A p \in scenario.up : height[p] + MaxLag > Len(log)
    /\ Len(log) < Len(scenario.plan) \/ Assembled(n) # {}
    /\ log' = Append(log, Assembled(n))
    /\ UNCHANGED <<scenario, height, pool, done, inbox>>

(* A node appends the next block and, entering the round after it, drops what the chain has recorded. *)
Advance(n) ==
    LET path == SubSeq(log, 1, height[n] + 1)
        Left(records) == {r \in records : Key(r) \notin Keys(Recorded(path))}
    IN /\ height[n] < Len(log)
       /\ height' = [height EXCEPT ![n] = @ + 1]
       /\ pool' = [pool EXCEPT ![n] = Left(@)]
       /\ inbox' = [inbox EXCEPT ![n] = Left(@)]
       /\ UNCHANGED <<scenario, log, done>>

(* The drivers of a tick: drive_audit, _rogue_commits, _watchdog, _rewind and _handoff_proof. *)
Tick(n) ==
    LET raised == Raises(n) \cup Publishes(n)
        new == {r \in Raises(n) : ~Has(n, r)}
    IN /\ raised # {}
       /\ done' = [done EXCEPT ![n] = @ \cup {Mark(n, r) : r \in raised}]
       /\ pool' = [pool EXCEPT ![n] = @ \cup Pools(n, new)]
       /\ Gossip(n, new \cup Publishes(n), inbox[n])
       /\ UNCHANGED <<scenario, log, height>>

Takes(n, r) == ~Has(n, r) /\ Valid(Prefix(n), r)

(* on_msg: a record that the own chain bears out is pooled, and passed on unless it is an audit. *)
OnRecord(n, r) ==
    /\ Takes(n, r)
    /\ pool' = [pool EXCEPT ![n] = @ \cup {r}]
    /\ Gossip(n, IF r.kind = "audit" THEN {} ELSE {r}, inbox[n] \ {r})
    /\ UNCHANGED <<scenario, log, height, done>>

(* Any other is forgotten, one about blocks that n has not got included. *)
Ignore(n, r) ==
    /\ ~Takes(n, r)
    /\ inbox' = [inbox EXCEPT ![n] = @ \ {r}]
    /\ UNCHANGED <<scenario, log, height, pool, done>>

Receive(n) == \E r \in inbox[n] : OnRecord(n, r) \/ Ignore(n, r)

Turn(n) == Advance(n) \/ Receive(n) \/ Tick(n) \/ Finalize(n)

Next == \E n \in scenario.up : Turn(n)

Spec == Init /\ [][Next]_vars

(***************************************************************************)
(* Fairness: as long as somebody can change something, something changes.  *)
(* Ticker and inbox of every node are polled for ever, every turn adds to  *)
(* a set that only grows or consumes a message that is passed on once, and *)
(* the beacon gives every member the lead at some height.                  *)
(***************************************************************************)
FairSpec == Spec /\ WF_vars(Next)

-----------------------------------------------------------------------------
(* Type correctness: blocks, pools and messages are of records. *)
TypeOK ==
    /\ scenario \in Scenarios
    /\ log \in Seq(SUBSET Record)
    /\ height \in [Node -> 0..Len(log)]
    /\ {pool, inbox} \subseteq [Node -> SUBSET Record]
    /\ done \in [Node -> SUBSET (Kinds \X Nat)]

(***************************************************************************)
(* No two records of one key are on chain, neither in one block nor in     *)
(* two, whatever the pools of successive leaders still hold.               *)
(***************************************************************************)
RecordedOnce ==
    \A i, j \in 1..Len(log) : \A r \in log[i], x \in log[j] :
        Key(r) = Key(x) => i = j /\ r = x

(***************************************************************************)
(* Signals raised from chains of different lengths, and recorded later     *)
(* still, meet in one tally: all on chain name the oversight round and the *)
(* spike that the chain has now.                                           *)
(***************************************************************************)
TalliesAgree ==
    \A r \in Recorded(log) :
        /\ r.kind = "watchdog" => r.about \in OversightRound(log)
        /\ r.kind = "rewind" => r.about \in {spike.epoch : spike \in VelocitySpike(log)}

(***************************************************************************)
(* Once flagged, a newcomer stays flagged: neither later reports nor that  *)
(* it leaves and joins again take it out of the cohort.                    *)
(***************************************************************************)
CohortOnlyGrows == [][FlaggedCohort(log) \subseteq FlaggedCohort(log')]_log

-----------------------------------------------------------------------------
(* What ought to be on chain in the end. *)

(* Every newcomer has a report of every observer that was a member when it was admitted. *)
AllObserved ==
    \A p \in Newcomers(log) : \A n \in scenario.observers \cap MembersAt(log, AdmittedAt(log, p)) :
        \E r \in Recorded(log) : r.kind = "audit" /\ r.by = n /\ r.about = p

(* A burst of commits that nothing justifies has the attention of those who watched since it began. *)
AllWatched ==
    /\ \A n \in Node : \A t \in scenario.rogue[n] :
          \E r \in Recorded(log) : r.kind = "commit" /\ r.by = n /\ r.about = t
    /\ Anomalous(log) => \A round \in OversightRound(log) :
          OversightTriggered(log)
          \/ Cardinality(scenario.watchdogs \cap MembersAt(log, round)) < SignalQuorum

(* Those to whom the spike is foreign, in what they like and in what they have shown of it. *)
Victims(spike) ==
    {n \in scenario.rewinders \cap MembersAt(log, spike.epoch) :
        /\ scenario.taste[n] # spike.item
        /\ \E c \in Cluster(log, n) : c # spike.item}

(* A spike has triggered the audit when enough of enough clusters suffer from it. *)
AllRewound ==
    \A spike \in VelocitySpike(log) :
        \/ Class3Triggered(log) \/ Cardinality(Victims(spike)) < RewindQ
        \/ Cardinality(UNION {Cluster(log, n) : n \in Victims(spike)}) < MinClusters

(* The proof of a leaver with two profiles is recorded. *)
AllProven ==
    \A n \in scenario.leavers : \A r \in Proofs(log, n) : Key(r) \in Keys(Recorded(log))

(***************************************************************************)
(* Whatever is raised or published comes to its effect, though most of it  *)
(* is raised only once, may reach nobody whose chain bears it out, and is  *)
(* then left to the block that its author leads.                           *)
(***************************************************************************)
SignalsTakeEffect == <>[](AllObserved /\ AllWatched /\ AllRewound /\ AllProven)
=============================================================================
