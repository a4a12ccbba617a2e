------------------------------ MODULE Consensus ------------------------------
(***************************************************************************)
(* The validator loop of node.rs: rounds, leader proposals, votes, the     *)
(* quorum-gated view change, finalization, chain synchronization, dynamic  *)
(* membership and slashing by gossiped evidence.                           *)
(*                                                                         *)
(* Every node is one task: a turn of its loop (entering a round, a tick, a *)
(* message taken from the inbox) is one action.  gossip() hands a message  *)
(* to every other node; the mix network delays each copy at random, so an  *)
(* inbox is a set and a copy may wait there for any time.                  *)
(***************************************************************************)
EXTENDS ChainPath, BftQuorum, FiniteSetsExt

CONSTANTS LeaderKey(_),   \* leader_key(beacon, .): the ranking the beacon drawn from a head gives
          MaxHeight,      \* NodeConfig::max_height: a node that gets there only serves its chain
          MaxView,        \* bound: the last view that is announced, for each height
          Withholders,    \* byzantine_withhold
          Equivocators,   \* byzantine_equivocate
          DoubleVoters,   \* byzantine_double_vote
          Down,           \* the nodes that never start
          Crashable,      \* the nodes that may stop for good
          LeaveAt,        \* leaves_at: the height at which a node asks to leave, 0 for never
          JoinAt          \* joins_at: the height from which a newcomer asks to join, 0 for never

ASSUME ConsensusAssumption ==
    /\ MaxHeight \in Nat \ {0} /\ MaxView \in [1..MaxHeight -> Nat]
    /\ Withholders \cup Equivocators \cup DoubleVoters \cup Down \cup Crashable \subseteq Node
    /\ LeaveAt \in [Node -> Nat] /\ JoinAt \in [Node -> Nat]

VARIABLES chain,    \* the finalized chain of each node
          round,    \* its Round; height 0 between the end of a round and the next start_round
          early,    \* early_proposals: at most one proposal for each height above the round's
          pool,     \* pending_membership
          slashed,  \* the offenders it knows of
          alive,    \* it runs
          inbox,    \* the messages on their way to it
          sent      \* everything ever published, by anyone

vars == <<chain, round, early, pool, slashed, alive, inbox, sent>>

-----------------------------------------------------------------------------
(* Messages.  A vote and a view change carry their signer, a proposal its proposer. *)

(* No block: the `None` of Round::voted, and the block id a double voter makes up. *)
NoBlock == <<>>

Proposal(b) == [type |-> "proposal", block |-> b]
Vote(n, h, v, b) == [type |-> "vote", voter |-> n, height |-> h, view |-> v, block |-> b]
ViewChange(n, h, v) == [type |-> "viewchange", signer |-> n, height |-> h, view |-> v]
Membership(op) == [type |-> "membership", op |-> op]
Slash(n, h) == [type |-> "slash", offender |-> n, height |-> h]

VoteMsg == [type : {"vote"}, voter : Node, height : Nat, view : Nat, block : Path]
ViewChangeMsg == [type : {"viewchange"}, signer : Node, height : Nat, view : Nat]

Message == [type : {"proposal"}, block : Block] \cup VoteMsg \cup ViewChangeMsg
           \cup [type : {"membership"}, op : Op]
           \cup [type : {"slash"}, offender : Node, height : Nat]

(* The votes for block b among the messages ms that name the block's own view. *)
VotersFor(b, ms) ==
    {m.voter : m \in {x \in ms : x.type = "vote" /\ x.block = b /\ x.view = Tip(b).view}}

(* qc_valid: a quorum of the validators of the block's height signed it. *)
Certified(b) == IsQuorum(VotersFor(b, sent), ActiveSet(Parent(b)))

-----------------------------------------------------------------------------
(***************************************************************************)
(* The per-height state.  `seen` holds the first proposal received of each *)
(* (proposer, view); `votes` the first vote of each (voter, view) and the  *)
(* node's own; `out` gathers what a handler publishes and is empty between *)
(* two actions.  vc_announced is what the node itself sent of vcVotes.     *)
(***************************************************************************)
Round == [height : Nat, view : Nat, blocks : SUBSET Block, votes : SUBSET VoteMsg,
          voted : Path, proposed : SUBSET Nat, seen : SUBSET Block,
          vcVotes : SUBSET ViewChangeMsg, out : SUBSET Message]

NewRound(h, out) ==
    [height |-> h, view |-> 0, blocks |-> {}, votes |-> {}, voted |-> NoBlock, proposed |-> {},
     seen |-> {}, vcVotes |-> {}, out |-> out]

NoRound == NewRound(0, {})

InRound(n) == alive[n] /\ round[n].height = Len(chain[n]) + 1

(* Mutant: the ops of the head count a height too late. *)
MutMembers(n) == ActiveSet(SubSeq(chain[n], 1, Len(chain[n]) - 1))

(* The validator set of the round of n, and the leader n elects for a view. *)
Members(n) == ActiveSet(chain[n])

ElectedLeader(n, view) == LeaderByBeacon(LeaderKey(chain[n]), Members(n) \ slashed[n], view)

ValidProposal(n, b) == Extends(b, chain[n]) /\ Tip(b).proposer \in ElectedLeader(n, Tip(b).view)

(* A membership op is worth recording when it changes the set. *)
Changes(op, members) == (op.kind = "add") = (op.subject \notin members)

-----------------------------------------------------------------------------
(* What the helpers of the loop do to the round r of node n. *)

(* Mutant: a node votes again in a view it has voted in. *)
MutCastVote(n, r, b) ==
    IF b = NoBlock \/ n \notin Members(n) THEN r
    ELSE LET mine == Vote(n, r.height, r.view, b) IN
         [r EXCEPT !.voted = b, !.votes = @ \cup {mine}, !.out = @ \cup {mine}]

CastVote(n, r, b) ==
    IF b = NoBlock \/ r.voted # NoBlock \/ n \notin Members(n) THEN r
    ELSE LET mine == Vote(n, r.height, r.view, b) IN
         [r EXCEPT !.voted = b,
                   !.votes = @ \cup {mine},
                   !.out = @ \cup {mine} \cup {Vote(n, r.height, r.view, NoBlock) :
                                               x \in {n} \cap DoubleVoters}]

(* A higher view, by a quorum or by its leader's proposal, forgets the vote of the old one. *)
AdoptView(r, v) == IF v > r.view THEN [r EXCEPT !.view = v, !.voted = NoBlock] ELSE r

(* Mutant: one announcement is enough to move. *)
MutMaybeAdvanceView(n, r) ==
    LET asked == {m.view : m \in r.vcVotes}
    IN IF \A v \in asked : v <= r.view THEN {r}
       ELSE {AdoptView(r, v) : v \in {w \in asked : \A u \in asked : u <= w}}

(* The highest view that a quorum of members has asked for, as the set of rounds it leads to. *)
MaybeAdvanceView(n, r) ==
    LET supported == {v \in {m.view : m \in r.vcVotes} :
                         v > r.view /\ IsQuorum({m.signer : m \in {x \in r.vcVotes : x.view = v}},
                                                Members(n))}
    IN IF supported = {} THEN {r}
       ELSE {AdoptView(r, v) : v \in {w \in supported : \A u \in supported : u <= w}}

(* Mutant: the view before is announced. *)
MutAnnounceBack(n, r) ==
    LET vc == ViewChange(n, r.height, r.view - 1) IN
    IF vc \in sent THEN {r} ELSE {[r EXCEPT !.out = @ \cup {vc}]}

(* The view deadline has passed: ask for the next view, once. *)
Announce(n, r) ==
    LET vc == ViewChange(n, r.height, r.view + 1) IN
    IF vc \in sent THEN {r}
    ELSE MaybeAdvanceView(n, [r EXCEPT !.vcVotes = @ \cup {m \in {vc} : n \in Members(n)},
                                       !.out = @ \cup {vc}])

AssembleBlock(n, r, alt) ==
    Append(chain[n], [view |-> r.view, proposer |-> n, alt |-> alt,
                      ops |-> {op \in pool[n] : ~alt /\ Changes(op, Members(n))}])

(* The leader of the view proposes once, votes for its own block, and two if it equivocates. *)
Propose(n, r) ==
    LET a == AssembleBlock(n, r, FALSE)
        once == [r EXCEPT !.proposed = @ \cup {r.view}]
    IN IF n \notin ElectedLeader(n, r.view) \/ r.view \in r.proposed \/ n \in Withholders THEN r
       ELSE IF n \in Equivocators
       THEN [once EXCEPT !.out = @ \cup {Proposal(a), Proposal(AssembleBlock(n, r, TRUE))}]
       ELSE CastVote(n, [once EXCEPT !.blocks = @ \cup {a}, !.out = @ \cup {Proposal(a)}], a)

(* The stored blocks of the view's leader, or nothing. *)
Votable(n, r) ==
    LET bs == {b \in r.blocks : Tip(b).view = r.view /\ Tip(b).proposer \in ElectedLeader(n, r.view)}
    IN IF bs = {} THEN {NoBlock} ELSE bs

(* Mutant: the votes of all block ids and views are counted together. *)
MutReady(n, r) ==
    {b \in r.blocks : Extends(b, chain[n]) /\ IsQuorum({m.voter : m \in r.votes}, Members(n))}

(* try_finalize: the stored blocks with a quorum of votes. *)
Ready(n, r) == {b \in r.blocks : Extends(b, chain[n]) /\ IsQuorum(VotersFor(b, r.votes), Members(n))}

-----------------------------------------------------------------------------
(***************************************************************************)
(* A message that no handler of node p could ever use is not put in its    *)
(* inbox: p is down or done, the height is past, or the content is known.  *)
(***************************************************************************)
Useful(p, m) ==
    /\ alive[p]
    /\ Len(chain[p]) < MaxHeight
    /\ CASE m.type = "proposal" -> Len(m.block) > Len(chain[p])
         [] m.type = "vote" -> m.height > Len(chain[p]) /\ m.voter \notin slashed[p]
         [] m.type = "viewchange" -> m.height > Len(chain[p]) /\ m \notin round[p].vcVotes
         [] m.type = "membership" -> TRUE
         [] m.type = "slash" -> m.offender \notin slashed[p]

(* gossip: every other node gets a copy; `mine` is what n itself still has to read. *)
Gossip(n, out, mine) ==
    /\ sent' = sent \cup out
    /\ inbox' = [p \in Node |-> IF p = n THEN mine
                                ELSE inbox[p] \cup {m \in out : Useful(p, m)}]

(***************************************************************************)
(* The end of a handler: try_finalize appends a block that has its quorum  *)
(* and ends the round, and what was published goes out.  The Finalized     *)
(* message itself is what Adopt reads.                                     *)
(***************************************************************************)
Settle(n, r, mine) ==
    \/ /\ Ready(n, r) = {}
       /\ round' = [round EXCEPT ![n] = [r EXCEPT !.out = {}]]
       /\ Gossip(n, r.out, mine)
       /\ UNCHANGED chain
    \/ \E b \in Ready(n, r) :
          /\ chain' = [chain EXCEPT ![n] = b]
          /\ round' = [round EXCEPT ![n] = NoRound]
          /\ Gossip(n, r.out, {m \in mine : Len(b) < MaxHeight})

-----------------------------------------------------------------------------
Init ==
    /\ chain = [n \in Node |-> <<>>]
    /\ round = [n \in Node |-> NoRound]
    /\ early = [n \in Node |-> {}]
    /\ pool = [n \in Node |-> {}]
    /\ slashed = [n \in Node |-> {}]
    /\ alive = [n \in Node |-> n \notin Down]
    /\ inbox = [n \in Node |-> {}]
    /\ sent = {}

(* The ops a node publishes about itself when it starts the round of height h. *)
OwnOps(n, h) ==
    {[kind |-> "remove", subject |-> x] : x \in {y \in {n} : LeaveAt[n] = h /\ n \in Members(n)}}
    \cup {[kind |-> "add", subject |-> x] :
             x \in {y \in {n} : JoinAt[n] \in 1..h /\ n \notin Members(n)}}

(***************************************************************************)
(* The head of the loop: start_round for the height after the head, drop   *)
(* the ops the chain has realized, and inject the proposal that came early.*)
(***************************************************************************)
EnterRound(n) ==
    LET h == Len(chain[n]) + 1
        r == NewRound(h, {Membership(op) : op \in OwnOps(n, h)})
        injected == {b \in early[n] : Len(b) = h /\ ValidProposal(n, b)}
    IN /\ alive[n] /\ Len(chain[n]) < MaxHeight /\ round[n].height = 0
       /\ pool' = [pool EXCEPT ![n] = {op \in @ : Changes(op, Members(n))}]
       /\ early' = [early EXCEPT ![n] = {b \in @ : Len(b) > h}]
       /\ \E b \in IF injected = {} THEN {NoBlock} ELSE injected :
          \E stored \in {IF b = NoBlock THEN r ELSE [AdoptView(r, Tip(b).view) EXCEPT !.blocks = {b}]} :
          \E voted \in {CastVote(n, stored, b)} :
             Settle(n, voted, {m \in inbox[n] : Useful(n, m)})
       /\ UNCHANGED <<slashed, alive>>

(***************************************************************************)
(* on_tick once the claim window has closed: announce the next view when   *)
(* the view's deadline has passed, propose as its leader, vote for the     *)
(* leader's block if that is still to do.                                  *)
(***************************************************************************)
Tick(n, expired) ==
    /\ InRound(n)
    /\ expired => round[n].view < MaxView[round[n].height]
    /\ \E announced \in IF expired THEN Announce(n, round[n]) ELSE {round[n]} :
       \E proposed \in {Propose(n, announced)} :
       \E b \in Votable(n, proposed) :
       \E voted \in {CastVote(n, proposed, b)} :
          voted # round[n] /\ Settle(n, voted, inbox[n])
    /\ UNCHANGED <<early, pool, slashed, alive>>

-----------------------------------------------------------------------------
(* The handlers of on_msg.  Each reads one message of the inbox of n. *)

Rest(n, m) == inbox[n] \ {m}

(* Mutant: two proposers of one view are taken for one that equivocates. *)
MutSameSlot(a, b) == Tip(a).view = Tip(b).view

(* Two different blocks that one proposer signed for one view of one height. *)
SameSlot(a, b) == Tip(a).proposer = Tip(b).proposer /\ Tip(a).view = Tip(b).view

Caught(n, b) == \E a \in round[n].seen : SameSlot(a, b) /\ a # b

(* A proposal for a later height is kept, the last one of each height. *)
BufferProposal(n, m) ==
    /\ m.type = "proposal" /\ Len(m.block) > round[n].height
    /\ early' = [early EXCEPT ![n] = {b \in @ : Len(b) # Len(m.block)} \cup {m.block}]
    /\ inbox' = [inbox EXCEPT ![n] = Rest(n, m)]
    /\ UNCHANGED <<chain, round, pool, slashed, alive, sent>>

(* A valid proposal is stored, may raise the view, and is voted for once the claims are in. *)
AcceptProposal(n, m) ==
    /\ m.type = "proposal" /\ ValidProposal(n, m.block) /\ ~Caught(n, m.block)
    /\ \E stored \in {[round[n] EXCEPT !.seen = @ \cup {m.block}, !.blocks = @ \cup {m.block}]} :
       \E moved \in {AdoptView(stored, Tip(m.block).view)} :
       \E voted \in {moved} \cup {CastVote(n, moved, b) : b \in {x \in {m.block} : Tip(x).view = moved.view}} :
          Settle(n, voted, Rest(n, m))
    /\ UNCHANGED <<early, pool, slashed, alive>>

(* The proposer already signed another block for this slot: slash it, keep neither vote nor block. *)
CatchEquivocation(n, m) ==
    /\ m.type = "proposal" /\ ValidProposal(n, m.block) /\ Caught(n, m.block)
    /\ slashed' = [slashed EXCEPT ![n] = @ \cup {Tip(m.block).proposer}]
    /\ Gossip(n, {Slash(Tip(m.block).proposer, round[n].height)}, Rest(n, m))
    /\ UNCHANGED <<chain, round, early, pool, alive>>

VoteCounts(n, m) ==
    /\ m.type = "vote" /\ m.voter \notin slashed[n]
    /\ m.height = round[n].height /\ m.voter \in Members(n)

(* The voter already signed another id for this slot. *)
Contradicted(n, m) ==
    \E v \in round[n].votes : v.voter = m.voter /\ v.view = m.view /\ v.block # m.block

CountVote(n, m) ==
    /\ VoteCounts(n, m) /\ ~Contradicted(n, m)
    /\ \E counted \in {[round[n] EXCEPT !.votes = @ \cup {m}]} : Settle(n, counted, Rest(n, m))
    /\ UNCHANGED <<early, pool, slashed, alive>>

CatchDoubleVote(n, m) ==
    /\ VoteCounts(n, m) /\ Contradicted(n, m)
    /\ slashed' = [slashed EXCEPT ![n] = @ \cup {m.voter}]
    /\ Gossip(n, {Slash(m.voter, m.height)}, Rest(n, m))
    /\ UNCHANGED <<chain, round, early, pool, alive>>

ViewChangeCounts(n, m) ==
    m.type = "viewchange" /\ m.height = round[n].height /\ m.signer \in Members(n)

(* A member's announcement is recorded, may complete a quorum, and is passed on the first time. *)
OnViewChange(n, m) ==
    /\ ViewChangeCounts(n, m)
    /\ \E recorded \in {[round[n] EXCEPT !.vcVotes = @ \cup {m}]} :
       \E advanced \in MaybeAdvanceView(n, recorded) : round' = [round EXCEPT ![n] = advanced]
    /\ Gossip(n, {m} \ round[n].vcVotes, Rest(n, m))
    /\ UNCHANGED <<chain, early, pool, slashed, alive>>

MembershipCounts(n, m) ==
    m.type = "membership" /\ \A op \in pool[n] : op.subject # m.op.subject

(* An op about a new subject is pooled for the next leader and passed on. *)
OnMembership(n, m) ==
    /\ MembershipCounts(n, m)
    /\ pool' = [pool EXCEPT ![n] = @ \cup {m.op}]
    /\ Gossip(n, {m}, Rest(n, m))
    /\ UNCHANGED <<chain, round, early, slashed, alive>>

(* active_set_at(height) as far as the chain of n reaches. *)
MembersAt(n, h) == ActiveSet(SubSeq(chain[n], 1, Min({h - 1, Len(chain[n])})))

SlashCounts(n, m) ==
    m.type = "slash" /\ m.offender \in MembersAt(n, m.height) /\ m.offender \notin slashed[n]

(* Evidence is applied, not passed on. *)
OnSlash(n, m) ==
    /\ SlashCounts(n, m)
    /\ slashed' = [slashed EXCEPT ![n] = @ \cup {m.offender}]
    /\ inbox' = [inbox EXCEPT ![n] = Rest(n, m)]
    /\ UNCHANGED <<chain, round, early, pool, alive, sent>>

(* Any other message is read and forgotten: another height, a stranger, an offender, a repeat. *)
Ignore(n, m) ==
    /\ ~ \/ m.type = "proposal" /\ (Len(m.block) > round[n].height \/ ValidProposal(n, m.block))
         \/ VoteCounts(n, m) \/ ViewChangeCounts(n, m) \/ MembershipCounts(n, m) \/ SlashCounts(n, m)
    /\ inbox' = [inbox EXCEPT ![n] = Rest(n, m)]
    /\ UNCHANGED <<chain, round, early, pool, slashed, alive, sent>>

Receive(n) ==
    /\ InRound(n)
    /\ \E m \in inbox[n] :
          \/ BufferProposal(n, m) \/ AcceptProposal(n, m) \/ CatchEquivocation(n, m)
          \/ CountVote(n, m) \/ CatchDoubleVote(n, m)
          \/ OnViewChange(n, m) \/ OnMembership(n, m) \/ OnSlash(n, m)
          \/ Ignore(n, m)

-----------------------------------------------------------------------------
(* valid_block: a certified block of a validator of its height. *)
ValidBlock(b) == Certified(b) /\ Tip(b).proposer \in ActiveSet(Parent(b))

(* Mutant: only the validators of the height synchronize. *)
MutAdopt(n, p) ==
    /\ InRound(n) /\ n \in Members(n)
    /\ Len(chain[n]) < Len(chain[p]) /\ SubSeq(chain[p], 1, Len(chain[n])) = chain[n]
    /\ chain' = [chain EXCEPT ![n] = chain[p]]
    /\ round' = [round EXCEPT ![n] = NoRound]
    /\ UNCHANGED <<early, pool, slashed, alive, inbox, sent>>

(***************************************************************************)
(* Finalized, and GetChain with its answer ChainRange: n appends, in order,*)
(* the blocks of p's chain above its own head, up to some height.          *)
(***************************************************************************)
Adopt(n, p) ==
    /\ InRound(n)
    /\ \E k \in Len(chain[n]) + 1..Len(chain[p]) :
          /\ SubSeq(chain[p], 1, Len(chain[n])) = chain[n]
          /\ \A i \in Len(chain[n]) + 1..k : ValidBlock(SubSeq(chain[p], 1, i))
          /\ chain' = [chain EXCEPT ![n] = SubSeq(chain[p], 1, k)]
          /\ inbox' = [inbox EXCEPT ![n] = {m \in @ : k < MaxHeight}]
    /\ round' = [round EXCEPT ![n] = NoRound]
    /\ UNCHANGED <<early, pool, slashed, alive, sent>>

(* The process of a node is killed; what it had published is still on its way. *)
Crash(n) ==
    /\ n \in Crashable /\ alive[n]
    /\ alive' = [alive EXCEPT ![n] = FALSE]
    /\ round' = [round EXCEPT ![n] = NoRound]
    /\ early' = [early EXCEPT ![n] = {}]
    /\ pool' = [pool EXCEPT ![n] = {}]
    /\ inbox' = [inbox EXCEPT ![n] = {}]
    /\ UNCHANGED <<chain, slashed, sent>>

(* One turn of the loop of n, as far as the nodes that still run can serve it. *)
Turn(n) ==
    \/ EnterRound(n)
    \/ \E expired \in BOOLEAN : Tick(n, expired)
    \/ Receive(n)
    \/ \E p \in Node : alive[p] /\ Adopt(n, p)

(* What a node that stopped had finalized and published may still arrive. *)
LateCopy(n) == \E p \in Node : ~alive[p] /\ Adopt(n, p)

Next == \E n \in Node : Turn(n) \/ LateCopy(n) \/ Crash(n)

Spec == Init /\ [][Next]_vars

(***************************************************************************)
(* Fairness: as long as some loop of a live node can turn, one does.  The  *)
(* select! of run polls the ticker and the inbox, every deadline passes in *)
(* the end, and the 400 ms poll keeps asking the live nodes for their      *)
(* chains.  No turn can be undone and the bounds leave finitely many, so   *)
(* this comes to the same as asking it of each node and each kind of turn. *)
(***************************************************************************)
Fairness == WF_vars(\E n \in Node : Turn(n))

FairSpec == Spec /\ Fairness

-----------------------------------------------------------------------------
(* Type correctness: what each node keeps and what is on the wire. *)
TypeOK ==
    /\ chain \in [Node -> Path]
    /\ round \in [Node -> Round]
    /\ early \in [Node -> SUBSET Block]
    /\ pool \in [Node -> SUBSET Op]
    /\ slashed \in [Node -> SUBSET Node]
    /\ alive \in [Node -> BOOLEAN]
    /\ inbox \in [Node -> SUBSET Message]
    /\ sent \subseteq Message

(* The blocks somebody has finalized, each as its path from genesis. *)
Finalized == UNION {{SubSeq(chain[n], 1, i) : i \in 1..Len(chain[n])} : n \in Node}

Ballots == {m \in sent : m.type = "vote"}

(* What a slot of consensus promises, whatever the timing: see SlotVoting. *)
Slots == INSTANCE SlotVoting WITH ballots <- Ballots, certified <- Finalized,
                                  Faulty <- DoubleVoters

(***************************************************************************)
(* A validator that does not double-vote signs at most one block id for a  *)
(* height and view, through view changes (which clear Round::voted),       *)
(* adopted views, injected early proposals and chain synchronization.      *)
(***************************************************************************)
OneVotePerSlot == Slots!OneVotePerSlot

(***************************************************************************)
(* Two finalized blocks of one parent and one view are the same block,     *)
(* whatever the proposer signed and however the slashed sets of the nodes  *)
(* differ, when fewer than a third of the validators double-vote.          *)
(***************************************************************************)
SlotAgreement == Slots!SlotAgreement

(* Consensus implements the abstract voting of SlotVoting. *)
ImplementsSlotVoting == Slots!Spec

(***************************************************************************)
(* Every block of every chain, appended by the node's own count of the     *)
(* votes or by synchronization, has a quorum of its height's validators    *)
(* behind it that really signed it.                                        *)
(***************************************************************************)
FinalizedAreCertified == \A b \in Finalized : ValidBlock(b)

(***************************************************************************)
(* The chains of any two nodes are prefixes of one another: at most one    *)
(* block per height gathers a quorum certificate.                          *)
(***************************************************************************)
Agreement ==
    \A n, p \in Node : Len(chain[n]) <= Len(chain[p]) => SubSeq(chain[p], 1, Len(chain[n])) = chain[n]

(* The longest chain of all. *)
Longest ==
    LET chains == {NoBlock} \cup {chain[n] : n \in Node}
    IN CHOOSE c \in chains : \A d \in chains : Len(d) <= Len(c)

(* What the protocols on top of the chain see of it: see SharedLog. *)
Log == INSTANCE SharedLog WITH log <- Longest, copy <- chain

(***************************************************************************)
(* As long as no height is finalized in two views, the chains of all nodes *)
(* are copies of one log, each as far as it has reached the node, and      *)
(* blocks are appended by nodes that have all of it.                       *)
(***************************************************************************)
ImplementsSharedLog == Log!Spec

(***************************************************************************)
(* Whoever is slashed anywhere did sign two blocks, or two votes, for one  *)
(* height and view: slashing never hits a node for a view change, for a    *)
(* proposal buffered, injected and received again, or for what another     *)
(* node signed.                                                            *)
(***************************************************************************)
SlashedAreGuilty ==
    \A n \in Node : \A x \in slashed[n] :
        \/ \E p, q \in {m \in sent : m.type = "proposal"} :
              /\ p # q /\ Len(p.block) = Len(q.block) /\ Tip(p.block).view = Tip(q.block).view
              /\ Tip(p.block).proposer = x /\ Tip(q.block).proposer = x
        \/ \E v, w \in Ballots : v # w /\ v.voter = x /\ w.voter = x /\ v.height = w.height /\ v.view = w.view

(***************************************************************************)
(* A node is in a view above 0 only if a quorum of the validators of its   *)
(* height asked for that very view: nobody drifts ahead alone, nor is      *)
(* pulled ahead by a leader that did.                                      *)
(***************************************************************************)
ViewsAreJustified ==
    \A n \in Node : InRound(n) /\ round[n].view > 0 =>
        IsQuorum({m.signer : m \in {x \in sent : /\ x.type = "viewchange"
                                                 /\ x.height = round[n].height
                                                 /\ x.view = round[n].view}}, Members(n))

(***************************************************************************)
(* What one live node has finalized every live node has in the end: one    *)
(* that has left, one that has not joined yet, and one that was in another *)
(* view, or had other votes, when its height was decided.                  *)
(***************************************************************************)
ChainsSpread ==
    \A h \in 1..MaxHeight :
        (\E n \in Node : alive[n] /\ Len(chain[n]) >= h)
            ~> (\A n \in Node : alive[n] => Len(chain[n]) >= h)

(***************************************************************************)
(* Every live node reaches the last height in the end: a dead leader does  *)
(* not stall one.  This is what the documentation says; an announcement    *)
(* that comes before its receiver has entered the height refutes it.       *)
(***************************************************************************)
Progress == <>(\A n \in Node : alive[n] => Len(chain[n]) = MaxHeight)
=============================================================================
