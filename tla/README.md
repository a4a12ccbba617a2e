# privaCF: a TLA+ development of the node

The modules in this directory model the network node of `impl/mvp_node` (Rust): a
validator loop that finalizes a chain by quorum certificates, with dynamic membership
and slashing, and the protocols that run on top of the chain. TLC checks the models on
small instances; TLAPS proves the results that hold for every instance.

File names without a path are below `impl/mvp_node/src/`.

## 1. The system

One process is one `Node` (`node.rs`). It keeps all its state in the local variables of
`run`, which is a single task: a turn of its loop enters a round when the chain has grown,
then handles a tick of a 10 ms timer or one message of an inbox channel. Nothing is
written to disk. Connections and mix-network delays are tasks of their own that only put
messages into the inbox or take them to the peers. So every turn of the loop is atomic with
respect to the node's state, and all concurrency is between nodes: which messages have
arrived where, and whose timers have run out.

| part | source | state | operations | talks to |
|---|---|---|---|---|
| quorum, leader election | `consensus.rs` | none | `quorum`, `leader_by_beacon` | used by the loop |
| chain, certificates | `chain.rs` | blocks from genesis | `try_append`, `blocks_from`, `qc_valid` | loop; every other part reads it |
| validator loop | `node.rs` 2525-3158, 3356-3530, 3538-3853 | `Round`, early proposals, slashed set | `start_round`, `on_tick`, `on_msg`, `cast_vote`, `maybe_advance_view`, `try_finalize` | all nodes, by gossip |
| dynamic membership | `membership.rs`, `node.rs` 709-856, `zkstmt5.rs` | pending ops | self-signed add and remove, `active_set_at`, admission gates | recorded in headers, sets the quorum |
| verdicts | `node.rs` 878-1035, `verdict.rs`, `verdict_policy.rs` | emitted and received partials, pending suspensions | emit once, combine a threshold, record | recorded in headers |
| verdict-key re-share | `node.rs` 1037-1180, `dkg.rs` | the node's share, sub-shares held | deal once a height, combine | verdicts sign with the share |
| audit observers | `node.rs` 1182-1295, `audit.rs`, `detection.rs` | pool, observed subjects | observe once, derive the flagged cohort | recorded in headers |
| oversight, watchdog | `node.rs` 1297-1454, `watchdog.rs` | pools, raised flag | raise once, quorum of signers | recorded in headers |
| rewind | `node.rs` 1456-1613, `rewind.rs` | pool, raised flag | velocity spike, clusters, quorum | recorded in headers |
| handoff | `node.rs` 1615-1870, `arbitration.rs` | custody held, receipts, dispatch timer | dispatch, take custody, file a receipt, deadline | defaults feed the slashed set |
| handoff proofs | `node.rs` 1871-1983, `zkstmt.rs` | proof cache | publish until recorded | recorded in headers |
| re-handoff | `node.rs` 1985-2273 | sub-shares by generation | deal to a fresh committee, combine | receipts as above |
| PSI discovery | `node.rs` 2275-2362, `psi.rs` | offers, peers found | offer, response | two nodes, off-chain |
| recommendations | `node.rs` 2373-2460, `recommend.rs`, `reputation.rs`, `obfuscate.rs` | last result | recompute at each head | reads the chain |
| epoch transactions | `epoch.rs`, `commit.rs`, `history.rs` | pending pool | one per node and height | recorded in blocks |
| Merkle roots | `smt.rs`, `node.rs` 861-876 | none | fold of suspensions | admission gate |
| mixnet | `node.rs` 62-162, `sphinx.rs`, `loopix.rs` | reassembler | fragment, delay, forward | carries all of the above |
| connections | `node.rs` 3538-3606, 3930-4019, `transport.rs`, `discovery.rs` | peers, known addresses, dials in flight | dial, accept, handshake | carries all of the above |
| primitives | `bls.rs`, `vrf.rs`, `vdf.rs`, `verenc.rs`, `pedersen.rs`, `zkstmt*.rs`, `field.rs`, ... | none | algebra | used everywhere |
| reference implementation | `impl/privacf/*.py` | none | numerical experiments | none |

What makes each hard, and what makes it correct:

* **Validator loop.** Every message may be late; view changes clear the memory of the
  vote; leadership depends on what a node knows of offenders. Correct: one block per height
  and view, certificates backed by the validators of their own height, chains that are
  prefixes of one another, nobody slashed who did not sign twice, what is final anywhere known everywhere, and progress as
  long as a quorum is live (which the run `stall` refutes).
* **Membership.** The set changes while messages of the height are under way. Correct: all
  nodes compute the same set from the same chain, and joiners and leavers follow the chain.
* **Verdicts and re-share.** A partial is emitted once, with the share of that moment, and
  shares are replaced at a different moment at each node. Correct: only malformed targets
  are suspended, once per identity, and every one is suspended in the end; after a rotation
  a threshold of the members can still sign.
* **Handoff and re-handoff.** Deadlines in heights against dispatch in seconds, receipts
  that must be recorded in time, generations of committees. Correct: nobody who filed a
  receipt is slashed, and custody is always held by a threshold of somebody.
* **Oversight, rewind, audit.** Signals raised once, pools that leaders record. Correct:
  one signer counts once, nothing is recorded twice, what is recorded re-validates.
* **Mixnet, connections.** Bounded reassembly, redials that meet a connection only one end has
  lost. Correct: what is
  published in full arrives or is dropped whole; two live nodes end up connected.

The full list of hazards, each at its line and with the properties that cover it, is in
`PROJECT.json`.

## 2. Plan

1. *(built)* `BftQuorum`, `ChainPath`, `Consensus`: the loop with rounds, votes, view changes,
   finalization, synchronization, membership ops and slashing. Abstract specification:
   `SlotVoting`, and `SharedLog` for what the protocols above rely on. Theorems: type correctness,
   one vote per slot, both refinements, one block per slot, certificates, justified views, guilty
   offenders, finality, forks only across views.
2. *(built)* `Verdict`: partials, combination, suspension records, and the re-share of the
   verdict key, over one growing log. Theorems: type correctness, no double suspension, no
   suspension without a threshold of one sharing.
3. *(built)* `Handoff`: custody dispatch, relay, receipts, deadline and default slashing, and
   the second generation of custody.
4. *(built)* `SignalPools`: the scheme that audit, verdict commits, watchdog, rewind and
   handoff proofs share, once, with the rules of each. Theorems: all its safety properties.
5. *(built)* `Connections`: dialling, greeting, dead connections, newcomers, restarts. Theorems:
   all its safety properties.
6. *(built)* Pure algorithms over bounded inputs: `Mixnet`, `SparseMerkle`, `Rejoin`,
   `ThresholdKey`, `VerEnc`, `PsiDiscovery`, and the active set of `ChainPath`.
7. *(built)* `Admission`: the join op of a newcomer with a proof that goes stale.
8. Still wanted: a restart of a validator in the middle of a height; a run of `Verdict` in
   which a canonical dealer stops before it has dealt; an abstract specification of the pools
   (a record is on chain once, and only if valid) that `SignalPools`, `Handoff` and `Verdict`
   implement.
9. *(built)* Every safety property of `Consensus`, `Verdict`, `Handoff`, `SignalPools`,
   `Connections` and `Admission` is a theorem, and of the algorithms the active set, limb
   decryption, the proofs of limbs, packets, reply blocks and reassembly, the Merkle trees, the
   admission gate and discovery. Still wanted: the quorums of the threshold key.

## 3. Modules

| module | models | extends |
|---|---|---|
| `BftQuorum` | `quorum`, `leader_by_beacon` | |
| `ChainPath` | block ids, `try_append`, membership ops, `active_set_at` | |
| `Consensus` | the validator loop | `BftQuorum`, `ChainPath` |
| `SlotVoting` | what the votes of a height promise: the abstract specification | |
| `SharedLog` | what the protocols on top of the chain take for granted: the abstract log | |
| `Verdict` | verdict partials, suspensions, the re-share of the verdict key | `ChainPath`, `BftQuorum` |
| `Handoff` | custody of a leaver's profile, receipts, defaults, re-handoff | `ChainPath`, `BftQuorum` |
| `SignalPools` | audits, commits, watchdog and rewind signals, handoff proofs | `ChainPath`, `BftQuorum` |
| `Connections` | the dial task, the acceptor, the peers map | |
| `ThresholdKey` | `dkg.rs`: dealing, combination, re-sharing | |
| `VerEnc` | `verenc.rs`: sealed shares and the proofs of them | `ThresholdKey` |
| `Mixnet` | `sphinx.rs`, `loopix.rs`: packets, reply blocks, fragments | |
| `SparseMerkle` | `smt.rs` | |
| `Rejoin` | the admission gate of `zkstmt5.rs` and `node.rs` | `SparseMerkle` |
| `Admission` | join ops with rejoin proofs, from the newcomer into a block | `BftQuorum` |
| `PsiDiscovery` | `psi.rs` and its two handlers | |
| `MCConsensus`, `MCVerdict`, `MCHandoff`, `MCSignalPools`, `MCAdmission` | instances for TLC | |
| `MCAlgorithms` | inputs and reference definitions for the algorithms | six of the above |
| `ChainPathLemmas` | quorum intersection, least and greatest heights, prefixes of paths, the step of `active_set_at` | |
| `ConsensusProofs`, `VerdictProofs`, `HandoffProofs`, `SignalPoolsProofs`, `ConnectionsProofs`, `AdmissionProofs`, `AlgorithmProofs` | proofs | |

The protocols on top of the chain (`Verdict`, `Handoff`, `SignalPools`) all assume what
`Consensus` is to provide: one growing log, `log`, of which node `n` has the first
`height[n]` blocks. Everything the code derives from `chain.blocks` is an operator on a
prefix. `SharedLog` is this assumption as a specification, with the log as one variable and the
nodes' chains as the other; `Consensus` implements it, with the longest chain for the log, as
long as no two final blocks of one parent differ in their view (`ImplementsSharedLog`, run
`byzantine`; theorem `OneLog`). Where they do differ, which is what the run `fork` shows to be
possible, nothing that the modules above say applies.

### Consensus and the code

| variable | in `run` |
|---|---|
| `chain[n]` | `chain`, as the path of headers from genesis |
| `round[n]` | `round: Option<Round>`; `NoRound` between the end of a round and `start_round` |
| `early[n]` | `early_proposals` |
| `pool[n]` | `pending_membership` |
| `slashed[n]` | `slashed` |
| `alive[n]` | the process runs |
| `inbox[n]`, `sent` | the channel and the network; everything ever published |

| action | code |
|---|---|
| `EnterRound` | head of the loop: `start_round`, pruning, injection of the early proposal |
| `Tick` | the timer arm: `on_tick` with its calls of `cast_vote`, `assemble_block`, `try_finalize` |
| `BufferProposal` | the message arm before `on_msg` |
| `AcceptProposal`, `CatchEquivocation` | `on_msg`, `Proposal` |
| `CountVote`, `CatchDoubleVote` | `on_msg`, `Vote` |
| `OnViewChange`, `OnMembership`, `OnSlash` | `on_msg`, the messages of those names |
| `Adopt` | `on_msg`: `Finalized`, `GetChain`, `ChainRange` |
| `Ignore` | every early return of `on_msg` |
| `Crash` | the process is killed; no code of its own |

How the data is abstracted:

* A block id is a hash that covers the parent's id, so a block *is* its path of headers;
  of a header the model keeps view, proposer, membership ops and a flag for the second
  block of an equivocator. Transactions, suspensions and the other records are left to the
  modules of those parts.
* A quorum certificate is the set of votes in `sent`; signatures cannot be forged, which
  is why only the signer puts a vote into `sent`. `seen_votes` is the part of `votes` that
  was received, `vc_announced` the node's own view changes in `sent`.
* `inbox` is a set without order because each message is delayed at random by the mix
  network. The mesh is complete; no message is lost or duplicated, except that each node
  passes a first-seen view change or membership op on, as the code does.
* `Adopt` reads another node's chain instead of exchanging three messages. Since a chain
  only grows, an answer that is under way is a prefix of it.
* The claim window (`vrf_deadline`) and the view deadline are nondeterministic: a vote on
  receipt may or may not be cast at once, a tick may or may not find the view expired. VRF
  claims are collected by the code but never read, so they are not modelled.
* `leader_key` is a constant operator, a ranking for each head of the chain, as the beacon
  is drawn from the head. `op_admissible` is taken to be true.
* A node that reached `max_height` only serves its chain. The code also keeps ticking in
  its last round during the grace period; that is not modelled, nor is the slashing of
  handoff defaults.
* A message no handler could use any more is not put into an inbox (`Useful`).

### Verdict and the code

`log` is the chain the nodes agree on, `height[n]` says how much of it `n` has. `share[n]` is `current_share`, `held[n]` is `va_held`,
`dealt[n]` says that `va_reshare_last_h` is the head, `emitted`, `partials` and `pending` are
the collections of those names in `run`.

| action | code |
|---|---|
| `Finalize` | `assemble_block` and `structural_and_vrf_ok`, as far as they speak of suspensions; the block's place in the log is what consensus gives it |
| `Advance` | a node appends the next block and enters a round: the pruning of the pools |
| `Tick` | `drive_va_reshare`, then `drive_verdicts` with the share the first one leaves, with `try_combine_*` |
| `OnPartial`, `ReplacePartial` | `on_msg`, `VerdictPartial`, of a new index and of a known one |
| `OnSuspension`, `OnSubShare` | `on_msg`, `Suspension`; `handle_va_reshare` |
| `Ignore`, `Crash` | early returns; the process is killed |
| `QuietHead` | a block without transactions, ops or suspensions: the dealers may deal again |

How the data is abstracted:

* A partial is its target, index and the sharing its share belongs to. `combine_signatures`
  gives the signature of a target exactly when a threshold of partials of one sharing are
  combined (Lagrange interpolation of one polynomial); otherwise it gives something that
  does not open the target's commitment, and `make_suspension` refuses it. The genesis key and
  the re-shared one are two sharings of one secret.
* The signature of a target depends only on the target, so a suspension message is the target.
  `Owner` is the `null_v` behind it, `Malformed` what `objective_suspend` says.
* `try_combine_verdict` first asks whether `already_suspended` (nullifier values) contains the
  target (an epoch id). The two never meet, so the model has only the second check, by
  `null_v`.
* `Plan` has for each of the first heights what consensus may order there: alternatives of
  transactions and membership ops. Beyond it blocks that record a suspension are appended, and
  one without content after a rotation, since only the set at its height names the newcomers; of
  all others only the effect they have is kept (`QuietHead`).
* A block is ordered only while a quorum of the set is up and at the head (`QuorumAtHead`): a chain
  that has lost its quorum halts. A newcomer is modelled from the block that lets it in.
* An eligible dealer always holds its genesis key, as every genesis validator is given one.
* A stopped node's pools are emptied, so that states that differ in them count once.

### Handoff and the code

| variable | in `run` |
|---|---|
| `log`, `height[n]` | the finalized chain, and how much of it `n` has |
| `custody[n]`, `held[n]` | `custody_held`, `reshare_held` |
| `receipts[n]`, `slashed[n]` | `handoff_pool`; the defaulters in `slashed` |
| `dispatched[n]`, `dealt[n]` | `custody_dispatch_at` is set; `rehandoff_dispatch_height` is the head |
| `relayed[n]`, `inbox[n]` | `custody_relayed`, the channel |

| action | code |
|---|---|
| `Finalize` | `assemble_block` and the validation of receipts; `CanLead` says that a quorum still follows this leader |
| `Advance` | the next block is appended and the pool pruned |
| `Tick` | `drive_custody_dispatch`, `drive_rehandoff`, and the slashing of `handoff_defaults` |
| `OnCustody`, `RelayCustody` | `on_msg`, `CustodyDispatch`: `handle_custody_parcel`, or the one relay |
| `OnReshare`, `OnReceipt` | `handle_reshare_parcel` with `accumulate_reshare`; `on_msg`, `Handoff` |
| `QuietHead` | the head moves on by a block that records nothing |

A subject is the transaction that its epoch id names, with a flag for the nonce of the
second generation. `Subjects`, `Originals`, `Departed`, `Canonical`, `Trigger` and `Fresh` are
the chain functions of those roles; the tables after them hold their values for `Plan`, to
be computed once. Sealing, Shamir's algebra and the re-encryption proof do what they promise: a
parcel gives its addressee a share, and a receipt is its member's. `Peers` is not complete in
the instances, because the relay exists for a leaver that is badly connected.

### SignalPools and the code

`pool[n]` is the union of `audit_pool`, `verdict_commit_pool`, `watchdog_pool`,
`rewind_pool` and `handoff_proof_pool`, `done[n]` what its drivers keep to do nothing twice. A record is
its author, what it is about and what it claims. `Tick` is the drivers in their order,
`OnRecord` the five message handlers: a record is pooled if the receiver's own chain bears it
out, and relayed except for audits. `Valid` has a rule for each kind. A scenario fixes
the transactions and ops that consensus orders and who has which authority, so that one run
covers four uses that share no state. Lotteries (who observes) are sets of the scenario.

### Connections and the code

`conn` has both ends of each connection in the states that `run_conn` goes through: waiting
for a Hello, in the peers map with a reader, closed. `Dial` is the dial task (the pair with
the smaller id dials), `Greet` a Hello that arrives and either enters the map or is redundant,
`Fail` an end whose reader or writer fails, `Admit` and `Learn` a newcomer that becomes a
member by an op which must reach a member, and whose address then enters `known`. `Cut` and
`Restart` are the faults: a link that dies without notice, a process that comes back with the
bootstrap list. Only the connections of a restarted process are modelled, not its votes.

### Admission and the code

`pool[n]` is what `pending_membership` has of the newcomer, `inbox[n]` its ops on their way,
`joined` and `dark` the blocks that admit the newcomer and suspend its nullifier. All heights are
distances from the head of the chain: an op is the age of the block that its proof refers to
(`h_ref`), a node is `lag` blocks behind. So the chain grows for ever in finitely many states,
and liveness is not cut short by a last height. `Finalize` is a block that consensus orders,
with the op its leader has pooled if that is still admissible; `Advance` is a node that appends
blocks and enters a round (the newcomer publishes, pools are pruned); `OnMembership` and `Ignore`
are the two ways through the handler. That a proof cannot be had for a suspended nullifier is
`Rejoin`'s subject, here it is `CanProve`.

### The algorithms and the code

* `ThresholdKey`, `VerEnc`: the prime field of order `R` for the scalar field, a message by its points under each
  tag (domain separation), a group
  element by its logarithm, a pairing as a product. `h1`, whose logarithm nobody knows, makes
  a point of G1 a pair. So the equations the code checks are checked, and what
  nobody can compute (a logarithm) is not claimed. The Fiat-Shamir challenge is whatever it
  may be: `LimbProofsHold` is special soundness (two answered challenges) and completeness.
* `Mixnet`: a byte string is the set of terms whose exclusive or it is; headers have fixed
  size, padding and blinding as in `sphinx.rs`. Fragments are records with an id, index and
  count; `Accept` is `Reassembler::accept` with its eviction by age.
* `SparseMerkle`, `Rejoin`: a hash is the term of what it hashes, the root path of a key the
  indices `Above` it, which the code gets by shifting. A zero-knowledge proof is
  its public inputs, to be had only for a true statement.
* `PsiDiscovery`: points by their logarithms, modulo the prime order of the group. Secrets are
  not zero, and no two items have one point: in the code these are hashes.
* `MCAlgorithms` chooses one input per behaviour; for chains, suspensions and fragments the
  input grows step by step. Its reference definitions are independent of the code: the
  fold of `ValidatorSet::apply`, the full tree, the set of common items.

## 4. Runs

Each `.cfg` file lists its constants. `CHECK_DEADLOCK FALSE` is set because the systems
stop: nodes end at `max_height`, views are bounded, and a protocol on a finite plan has nothing
left to do.

| run | instance | checks |
|---|---|---|
| `views` | 4 validators, one down, one may stop, one view change, one height | `TypeOK`, `ViewsAreJustified`, `ImplementsSlotVoting` |
| `byzantine` | 4 validators, one down, one signs two blocks and two votes, two heights, no view change | `SlotAgreement`, `OneVotePerSlot`, `SlashedAreGuilty`, `ImplementsSharedLog` |
| `members` | 2 validators; the first leader withholds, leaves at height 1 and comes back from height 3 on; four heights, one view change at the first | `FinalizedAreCertified`, `ChainsSpread` |
| `verdicts` | 4 validators, one may stop, 3 of them authorities, threshold 2; either a malformed and an honest transaction are published or the first node leaves and a newcomer joins | `TypeOK`, `SuspendedAreGuilty`, `SuspendedOnce`, `MalformedAreSuspended`, `ReshareCompletes` |
| `handoff` | 4 nodes; the last one leaves, connected to one other only, then the first custodian, who files nothing; threshold 2 of 3 | `TypeOK`, `ReceiptsAreBacked`, `RecordedOnce`, `FilersAreSafe`, `HandoffsComplete` |
| `signals` | 5 nodes, four scenarios: a burst of joins, a rogue authority, a spike of one item, a leaver with a proof | `TypeOK`, `RecordedOnce`, `TalliesAgree`, `CohortOnlyGrows`, `SignalsTakeEffect` |
| `mesh` | 3 nodes, the middle one a newcomer, two faults (cut or restart) | `TypeOK`, `EntriesHaveReaders`, `OneDialAtATime`, `MeshForms` |
| `stale` | 2 validators and a newcomer that knows one of them; ops up to 3 blocks old under way, window 2 | `TypeOK`, `SuspendedStayOut` |
| `algorithms` | see below | the ten invariants of `MCAlgorithms` |
| `fork` | 4 validators, one down, one view change | violates `Agreement` |
| `stall` | 4 validators, one down, two heights, one view change at the second | violates `Progress` |
| `introduced` | as `stale`, but ops are read within the window and every node gets its turn | violates `JoinerAdmitted` |

**Bounds.** `MaxHeight` is the code's own `max_height`; two heights are needed for early
proposals, set changes and announcements that come a height early, and suffice because a
round remembers nothing of the one before but the slashed set and the pool. `MaxView` is the last
view announced at each height: one change is enough for a vote to be forgotten and cast
again. Quorums of 3 out of 4 (one down) give the smallest system in which one may be faulty
and the live nodes are exactly a quorum; 2 of 2 is the smallest one in which every node has
to vote for a block.

For `Verdict`, four validators are the fewest of whom one may stop while the chain goes on
(`quorum(4)` is 3), before the rotation and after it, when the newcomer is in the quorum. Of three
authorities, one of whom is the one that may stop, a threshold of 2 is the smallest in which a share is
redundant. One leaver is enough to move the indices of the others, and one newcomer has to be dealt
to by others. `MaxLag` = 1 lets a node be one block behind. The run has no malformed transaction in
the plan that rotates, and one in the other: that `SuspendedOnce` and `SuspendedAreGuilty` hold for
several of one author and across a rotation are theorems (section 5).

For `Handoff` and `SignalPools`, `MaxLag` = 1 lets a node be one block behind whenever the log
grows: enough for every handler to meet a record its own chain does not bear out yet. The
deadline of 3 blocks (5 in the code) passes within the instance, so custodians that are late
are slashed in it; `HandoffsComplete` says what is promised then. Four nodes are the fewest with a
leaver, a committee of three and a threshold of two, and leave too few outsiders for a fresh
committee, so that the fall-back of `Fresh` is used.

For `Connections`, six connections may exist at a time: two faults among three pairs leave at
most that many whose ends have not all noticed. Two faults let one connection be lost while its
replacement is being refused.

For `Admission`, a window of 2 (16 in the code) has an op inside it, at its edge and beyond; a
delay of 3 is one more than the window, and the bound of `SuspendedStayOut` is reached. In
`introduced` the delay is no longer than the window, so no op goes stale on its way.

For the algorithms: chains of 3 blocks over 3 nodes (an op of every kind about every node, again
and again); paths of up to 3 hops (the maximum of the header, here 3) among 4 mixes, begun with two
elements of a group of order 11; a field of
5 elements with limbs of 2 bits, in which every challenge, randomness and cheating first
message is enumerated; polynomials of three genesis parties, re-shared to 2 and 4, whereby the first new
party combines over any qualified set and the others over any other (`QuorumsOpen`); trees of depth 3 with up to 3 keys in any order; suspensions
among three nullifiers, two of them neighbours; a group of order 7, with every pair of secrets; a staleness window of
2 over chains of 4 blocks, so that a package is inside the window, at its edge and beyond;
reassemblers of 1 and 2 places for four messages of one fragment (also an empty one) or two, so that
eviction happens.

**Fairness.** `FairSpec` asks only that some turn of some loop happens as long as one is
possible (for `Connections`: that each dialler, each end and each member gets its turn; for `Admission`:
that each node does, and that whoever can lead again and again leads again and again, because the
beacon draws the leader of every height). The
code's `select!` polls the timer and the inbox and every deadline passes, so a node that can
turn does. Every turn consumes a message, or adds something to a set that the bounds keep
finite, so weak fairness of their disjunction is as strong as of each. Messages are
delivered in the end because a mix delay is finite. Nothing is assumed of faults.
`MaxView` stands for a last view that lasts long enough for a height to be finalized.

**What the violations show.**

* `fork`: `impl/mvp_node/README.md` and `consensus.rs` say that at most one block per
  height gathers a quorum certificate. Nothing ties a validator to the block it voted for
  once the view changes, so two views of one height may each certify a block, and two
  honest nodes finalize different ones. What does hold is `SlotAgreement` (proved): one
  block per height *and view*, hence one per height as long as no view changes.
* `stall`: `impl/mvp_node/README.md` says that a dead or withholding leader no longer stalls a height. A
  validator that reads a view announcement before it has entered the height drops it
  (`node.rs` 3474), and nobody announces a view twice. So with one of four down, the one that
  enters a height first and times out first has its announcement dropped; later it counts three
  and changes the view, while the others have two, one short of the quorum, and stay. They never meet
  again, with every message delivered and no Byzantine node; nor would later views help, since a node
  announces only the view after its own and the two have done so. What does hold is `ChainsSpread`: a
  height that is final at one node becomes final at each.
* `introduced`: the comments of `start_round` say that joining heals itself, since the proof
  is made anew at each height and a stale one ages out. It ages out of the window, but not out
  of the pool: `pending_membership` keeps the first op of a subject until it has taken
  effect, and neither pools nor passes on another one. If the validator the newcomer knows
  does not lead within the window, and the others were a block behind when they read the one
  copy it passed on, the newcomer stays out for good.

**What the models show besides**, for those who change the code:

* What `handoff` depends on. The comments of `drive_custody_dispatch` say that a dropped parcel heals itself,
  because the leaver dispatches again; but its peers relay a parcel only once. If that copy
  reaches a custodian whose chain is a block short it is dropped, and what is dispatched
  again stops at the first hop. In the instance the departure is a block later than the
  transaction, every custodian has the block that is asked of it, and custody completes; with
  the leave op put into the first block of `LeavePlan`, `HandoffsComplete` fails.
* What `mesh` depends on. A newcomer with the largest id of all dials nobody; nobody can dial it
  before its join op is on chain; and the op is gossiped to its peers, of whom it has none. In
  the instance the newcomer is in the middle and dials one; with `Genesis = {1, 2}`,
  `MeshForms` fails without any fault.
* `elected_leader` leaves out whom the node knows to be an offender, so nodes may disagree on the
  leader of a view while evidence spreads, against `consensus.rs` 37-40. `SlotAgreement` holds all the
  same, because it does not rest on leaders at all.
* A nullifier that was suspended within `STMT5_STALENESS_WINDOW` of the head is admitted on an older
  proof, while `node.rs` 171-173 calls the window safe at any value and 724-725 says that it
  opens no attack. `RejoinsAreClean` and `SuspendedStayOut` have the bound that holds: whoever was
  suspended more than the window, and a block, ago stays out.
* `dkg::sign_share` signs under the tag of votes, so what its partials combine to passes
  `bls::verify` and opens nothing; the loop signs verdicts with `sign_dst` under `VERENC_DST` (970),
  and these open what is sealed and pass for no vote (`QuorumsOpen`).
* An authority signs for a target once. If a rotation falls between, partials of two sharings meet
  in one pool, and the target may never be suspended (972); nobody is suspended wrongly.
* A custodian that files late is slashed although it acts in good faith, and slashed nodes lose
  the lead and their votes: `Halted` is reachable in `handoff` once a third of the set are, while
  `arbitration.rs` 46-48 speaks of a deadline well above the dispatch window.
* Audit reports are not relayed, and most signals are raised once: `SignalsTakeEffect` holds because
  an author keeps its own record in its pool until the block that it leads itself.
* A leaver's proof is published once per height that it reaches, so it needs a block after its
  departure to be repeated in.
* After an eviction the late fragments of a message form a partial of their own that can never be
  completed and takes up a place until it is the oldest.

## 5. Proofs

All theorems are for any finite `Node`, any sets of faulty nodes, any `MaxHeight` and
`MaxView`, any `Plan`, `Threshold`, committee size, deadline and sortition, any scenarios of
finite plans and forgeries, any number of connections and faults; they rest on
`GenesisAssumption` and, each for its module, `ConsensusAssumption`, `VerdictAssumption`,
`HandoffAssumption`, `SignalPoolsAssumption`, `ConnectionsAssumption` or
`AdmissionAssumption` only. Nodes are numbers where the code compares ids. The theorems of
`AlgorithmProofs` are for any prime orders, limbs, paths, depths, windows, items and messages, and rest on
`NodeAssumption`, `OrderAssumption`, `LimbAssumption`, `PayloadsAssumption`, `DepthAssumption`,
`WindowAssumption`, `KeysAssumption`, `PsiAssumption`, `MixnetAssumption` and
`EphemeralAssumption`; `ProofsOpen` and `LimbProofs` on an order above 3 besides, so that the verdict's hash, which
is 3 in the model, is not zero. `MixnetAssumption` asks that the order of the group is prime, that no two mixes
have one key, and that no key and no blinding is zero: in the code these are hashes to the scalar field.

* `TypeCorrect`, `VotesOnce` (`ConsensusProofs`). `OneVotePerSlot` speaks of what was ever
  published, while `voted`, the only thing that keeps a validator from signing twice, is
  cleared by every view change and at the end of every round. The invariant `IInv` closes
  the gap: everything a node has signed is for a height it has left, for a lower view of its
  round, or is the vote it remembers, and the votes it holds as its own are published. Views and
  heights only grow, so a cleared `voted` never meets an old slot. Each helper of the loop has a
  lemma of what it does to the round, each action one that it preserves `IInv`.
* `Refinement` (`ConsensusProofs`). With `ballots` the votes in `sent` and `certified`
  all blocks of all chains, every step only adds ballots, keeps one per slot, and makes
  final only blocks that have a quorum in the same step. The step of `Settle` needs that the
  votes a node counts were published; the step of `Adopt` needs only that the blocks were
  another node's.
* `SlotAgreementHolds`, of whatever implements the abstract voting, and `OneBlockPerSlot`
  (`ConsensusProofs`). Two quorums of
  floor(2n/3)+1 share a validator outside any set of fewer than a third of the electorate
  (`QuorumsOverlap`), so with fewer than a third double-voting they share one that signed one ballot in
  the slot.
* `CertificatesHold`, `ViewsJustified`, `OnlyTheGuilty` (`ConsensusProofs`). A node changes its
  view because it has counted a quorum of announcements, but also because somebody proposed a
  block in that view, and it slashes on hearsay. So none of the three properties is inductive.
  The invariant `Evidence` adds what every *message* stands for: a proposal of a later view and
  evidence of an offence are honoured by what else was published when they were sent
  (`Honoured`), a round holds only what was published (`RoundBacked`), and so does `early`.
  Messages are never unsaid, so what is honoured remains so (`HonouredByMore`), and each action
  answers only for what it sends.
* `FinalityHolds`, `ForksCrossViews`. Chains grow at their ends, by a block that its quorum
  certifies or by the rest of another chain. The second theorem says exactly what the run `fork`
  leaves of agreement: if no two final blocks of one parent differ in their view, then chains never part.
  It combines `SlotAgreement` of the next state with `Agreement` of this one
  (`AppendAgrees`): a block appended beside another chain has a sibling there, of the same slot.
* `OneLog` (`ConsensusProofs`). Under the same condition `Consensus` implements `SharedLog`: what
  the modules above take for granted is what the loop provides. The log is the longest of the chains,
  a `CHOOSE` which `GreatestValue` shows to be there; by `ForksCrossViews` every chain is a
  prefix of it and all longest chains are one. Who appends a block to a chain as long as the log extends
  the log; who appends to a shorter one, or adopts several blocks, follows.
* `VerdictTypeCorrect`, `SuspendedOnceHolds`, `GuiltHolds` (`VerdictProofs`).
  `SuspendedAreGuilty` looks at the log and the pools, but what a leader records is a message
  another node combined, from partials that others published, on a chain that was shorter
  then. `IInv` says of every suspension ever sent that a threshold of one sharing signed its
  target among all messages ever sent (`SuspensionsOK`), of every partial that it judges a
  malformed transaction on chain under the index of a node (`PartialsOK`), and of a pool that
  it was published and has one partial for each target and index (`PoolOK`): so a
  threshold of partials is a threshold of *indices* (`SignedIsGuilty`). Chain and messages only
  grow, and a verdict once justified stays so (`GuiltyForGood`). `ShareOK` gives a node
  an index in the sharing it signs under: the new set is settled by the first rotation of a
  prefix, and a longer prefix has the same (`NewSetStays`). `SuspendedOnce` is inductive
  together with the types: `structural_and_vrf_ok` compares a block with the chain it extends.

* `HandoffTypeCorrect`, `ReceiptsRecordedOnce`, `FilersSafe`, `ReceiptsBacked`
  (`HandoffProofs`). That contexts are well typed is not obvious, because departures,
  transactions and triggers are least and greatest heights: `MinType` and `MaxType` get them from
  the well-foundedness of `Nat`. `RecordedOnce` is inductive together with the types.
  `FilersAreSafe` speaks of the log as it is now while a node was slashed on a shorter
  one; `Missed` says that a deadline was missed on some prefix, where only the blocks up to
  the deadline count, and appended blocks change none of that (`MissedStays`).
  `ReceiptsAreBacked` speaks of the log and the pools, but what enters them are messages that
  others sent earlier. `IInv` says besides that every message on its way is true
  (`MessagesOK`: a receipt is backed, the dealer of a sub-share has the share it deals) and that
  so is every sub-share kept (`SharesOK`). Custody and sub-shares are never given up, so what
  is true once stays true (`BackedStays`), and each action only has to answer for what it adds
  (`NewIsBacked`). The sub-shares that suffice for a receipt of round 1 are from as many
  dealers (`CombinedBacked`, an injection).
* `TypeCorrect`, `RecordsOnce`, `TalliesMeet`, `CohortHolds` (`SignalPoolsProofs`). One record of
  each key per pool (`PoolsOnce`) and the leader's look at its chain make `RecordedOnce`
  inductive. The other two are about operators that read a chain: a record goes on to be what
  *longer* chains say, which is not so for a reading of the last block. `Grown` is a chain that
  goes on; every reading that a record depends on (height of admission, members of a height, oversight
  round, first spike, height at which a subject was first seen) is shown to be the same on it.
  Pools are finite, because a tally is a cardinality.
* `TypeCorrect`, `ReadersHaveEntries`, `DialsOnce` (`ConnectionsProofs`). An entry is removed by
  the reader that ends, and must be that reader's own. The smaller id dials, so the two ends of a
  connection have different owners (`EndsDiffer`), and an entry and an open end determine one
  another. The dial task's set is exactly those peers to which it has one connection that is not closed.
  What a redundant greeting, a failing end and a restart do is one thing, `Closes`, and one lemma
  (`ClosesOK`) says what must be told to whom.
* `ActiveSetFolds` (`ChainPathLemmas`). `IsActive` looks at the last op about a node; the code
  folds all ops. For every block the two take the same step, and start from the same set
  (`GenesisIsActive`). `ActiveSetFolded` puts the steps together.
* `AdmissionTypeCorrect`, `SuspendedOut` (`AdmissionProofs`). An op says nothing of when its
  author was suspended, and nobody asks until it is recorded. `Clean` says that a suspension is at
  most one block older than any op in a pool or under way: true when an op is made, because
  the tree of a head lacks only what that head itself suspends, and kept because both grow older
  together. What is recorded is at most `Window` old.
* `ActiveSetFolded`. A fold over a set is a function on its subsets; that there is one is shown by
  the least size at which there is none (`FoldExists`). Then prefix by prefix with `ActiveSetFolds`.
* `LimbsDecryptHolds`. The search takes giant steps, then baby steps. Congruences give the exponent it
  looks for, and only one pair of steps leads there. `PrimeDivides` (by the least multiple that a
  counterexample has) says that there are no zero divisors, so a limb has one value.
* `ProofsOpen`. Every equation that is verified is linear in the challenge. Two answered challenges
  are two roots, so the coefficient vanishes, and that is the statement. It is the half `AcceptedOpens` of
  `LimbProofsHold`.
* `LimbProofs` is all of it; the other half, `HonestAreAccepted`, is that an honest proof is accepted.
  An equation on the true branch of a bit holds by the answer's definition, one on the other branch
  because its first message was made for the challenge (`BitsAccepted`). The link needs that the bits
  under their `Weight` add up to one to the value: `ValueIs`, by induction over the bits, from
  the half of a quotient being the next quotient (`Halves`). `Weight` is a recursive function,
  since the prover knows nothing of `^`.
* `OnionsDelivered`, `DamageRefused`. `Hop` is the packet that a hop is to receive, and `HopForwards`
  is the step: what a mix makes of its `Hop` is the `Hop` of the next, one layer less of payload.
  For this the block that the mix adds at the end of the header must be what the sender dropped
  there, which the filler is for (`HeadersFit`, by induction from the last hop back). A mix that is
  not meant has another secret, because the order is prime and the keys differ (`SecretsDiffer`).
  Rounds and layers are their own inverses (`LayerInverts`). Damage to a header changes its tag;
  damage to a payload leaves a term that no layer makes (`CleanStays`): if what the last hop
  has were a body, putting the layers on again would give a payload without damage.
* `MessagesReassemble`. That a message which is handed on was sent says nothing of partial ones:
  `Assembles` says that a partial holds exactly those fragments of its message which came since it was
  begun. A complete message is missed only if its partial was evicted; the oldest partial has then met
  as many others as there are places (`Lost`). All fragments are there when their number is, by an injection.
* `RootsCanonical`. The code's tree stores some nodes, the reference is the full tree. `TreeOf` is
  the tree of a *set* of keys: it stores exactly the full tree's nodes above them. Inserting one key into
  it gives the tree of one key more (`InsertIs`), level by level, because a node depends on the keys
  below it only (`RowsAgree`) and a node above none of them is the empty tree's (`RowsEmpty`). A proof is
  followed up the path; that the false claim has another root needs that hashes differ when
  what is hashed does (`HashIs`).
* `RejoinsClean`. A proof can be had exactly by who is not suspended at the head it is of
  (`ProvableIs`), and suspensions only grow with the height.
* `InterestMutual`. Two points raised to both secrets meet exactly if the items are the same
  (`PointsMeet`, by `PrimeDivides`). So the overlap that each end counts is the number of common
  items, by a bijection.

Model-checked only:

* `ChainsSpread`, `MalformedAreSuspended`, `ReshareCompletes`, `HandoffsComplete`,
  `SignalsTakeEffect` and `MeshForms`: liveness under fairness, out of the prover's reach;
* `QuorumsOpen`: it compares sums of products over any sets of shareholders with what they are to
  compute (interpolation), which is induction over data.

Every other property of a passing run is a theorem.

## 6. Not modelled

* The restart of a validator in the middle of a height. Nothing is persisted, so it begins at
  genesis and may vote again where it has voted; in `Consensus` it has to be counted among the
  `DoubleVoters`.
* Lost messages, other than those that handlers drop: the mix network delays, and the fragments of
  a message are lost only with a connection.
* VRF claims (collected, never read), the grace period at the last height, epoch transactions as
  such (their commitments, history trees and statements 1 to 4), the VDF, the gate of which is
  arithmetic on big integers.
* The recommendation pipeline with FoolsGold and reputation, which is floating point over a
  finished chain, and the library code that the node does not call: `discovery.rs`, the
  commit-reveal branch of `verdict.rs`, the snapshot ring and limiter of `rewind.rs`, oversight
  committees of `watchdog.rs`.
* The binaries, the Python experiments, the cost spikes and the EasyCrypt proofs.
