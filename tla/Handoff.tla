------------------------------ MODULE Handoff ------------------------------
(***************************************************************************)
(* The handoff of a leaver's profile (node.rs and arbitration.rs): a node  *)
(* that has left deals its custody secret to a committee drawn from the    *)
(* validators of its last preference transaction; each custodian files a   *)
(* receipt that a leader records; whoever has none by a deadline is        *)
(* slashed.  When a custodian leaves in turn the survivors deal what they  *)
(* hold to a fresh committee, which files receipts of round 1.             *)
(*                                                                         *)
(* Consensus is one growing log of which every node has a prefix.          *)
(***************************************************************************)
EXTENDS ChainPath, BftQuorum, FiniteSetsExt

CONSTANTS Plan,             \* what consensus orders at the first heights
          CommitteeSize,    \* COMMITTEE_SIZE
          CustodyThreshold, \* CUSTODY_THRESHOLD
          Deadline,         \* HANDOFF_DEADLINE
          SortitionKey(_),  \* the ranking of the nodes for the committee of a subject
          Withholders,      \* those who file no receipt
          Peers,            \* to whom each node is connected
          Leaders,          \* bound: those who ever get to propose a block
          MaxLag,           \* bound: how far a node may be behind the log when it grows
          MaxHeight         \* bound: up to here there are blocks that record nothing

ASSUME HandoffAssumption ==
    /\ Plan \in Seq([txs : SUBSET Node, ops : SUBSET Op])
    /\ CustodyThreshold \in Nat \ {0} /\ {CommitteeSize, Deadline, MaxLag, MaxHeight} \subseteq Nat
    /\ Withholders \cup Leaders \subseteq Node /\ Peers \in [Node -> SUBSET Node]

VARIABLES log,        \* the finalized blocks
          height,     \* how many of them a node has
          custody,    \* custody_held: the subjects whose secret it holds a share of
          held,       \* reshare_held: the sub-shares it got, by subject and dealer
          receipts,   \* handoff_pool
          slashed,    \* the custodians it knows to have defaulted
          dispatched, \* it has dispatched custody before (custody_dispatch_at)
          dealt,      \* it has dealt at this height (rehandoff_dispatch_height)
          relayed,    \* custody_relayed
          inbox       \* the messages on their way to it

vars == <<log, height, custody, held, receipts, slashed, dispatched, dealt, relayed, inbox>>

-----------------------------------------------------------------------------
(* Subjects, receipts, messages. *)

(* An epoch id names a transaction: its submitter and height; a re-handoff has a nonce of its own. *)
Subject == [peer : Node, at : Nat \ {0}, round : {0, 1}]

(* rehandoff_nonce: the name of the second generation of s. *)
Again(s) == [s EXCEPT !.round = 1]

HandoffReceipt == [member : Node, subject : Subject]

(* A block, as far as it is not in the plan: the receipts it records. *)
HBlock == SUBSET HandoffReceipt

Parcel(s, m) == [type |-> "custody", subject |-> s, member |-> m]
SubShare(s, d, m) == [type |-> "reshare", subject |-> s, dealer |-> d, member |-> m]
Receipt(r) == [type |-> "receipt", receipt |-> r]

Message == [type : {"custody"}, subject : Subject, member : Node]
           \cup [type : {"reshare"}, subject : Subject, dealer : Node, member : Node]
           \cup [type : {"receipt"}, receipt : HandoffReceipt]

Prefix(n) == SubSeq(log, 1, height[n])

(* Mutant: a receipt is on chain if the head records it. *)
MutRecorded(path) == IF path = <<>> THEN {} ELSE path[Len(path)]

Recorded(path) == UNION {path[i] : i \in 1..Len(path)}

-----------------------------------------------------------------------------
(* What the transactions and membership ops of a chain say of handoffs: pure functions of it. *)

(* remove_heights: a departure is the earliest removal of a node. *)
Removals(path, p) == {i \in 1..Len(path) : [kind |-> "remove", subject |-> p] \in path[i].ops}
Departure(path, p) == Min(Removals(path, p))

(* The heights of the preference transactions of p up to its departure; none while it stays. *)
Profiles(path, p) ==
    {i \in 1..Len(path) : /\ p \in path[i].txs /\ Removals(path, p) # {}
                          /\ i <= Departure(path, p)}

(* handoff_subjects: of each departed node, the latest of them. *)
Subjects(path) ==
    {[peer |-> p, at |-> Max(Profiles(path, p)), round |-> 0] :
        p \in {q \in Node : Profiles(path, q) # {}}}

(* select_committee: those ranked lowest. *)
Selected(s, pool) == {m \in pool : RankIn(SortitionKey(s), pool, m) < CommitteeSize}

(* handoff_context: the committee of round 0, from the set at the height of the transaction. *)
Originals(path, s) == Selected(s, ActiveSet(SubSeq(path, 1, s.at - 1)) \ {s.peer})

(* The custodians who left after the handoff, and the others. *)
Departed(path, s) ==
    {m \in Originals(path, s) : Removals(path, m) # {} /\ Departure(path, m) >= s.at}
Survivors(path, s) == Originals(path, s) \ Departed(path, s)

(* The dealers everybody combines over: the survivors of the lowest positions. *)
Canonical(path, s) ==
    {m \in Survivors(path, s) : RankIn(SortitionKey(s), Survivors(path, s), m) < CustodyThreshold}

Trigger(path, s) == Min({Departure(path, m) : m \in Departed(path, s)})

(* The fresh committee avoids the original one, unless the set is too thin for that. *)
Fresh(path, s) ==
    LET active == ActiveSet(SubSeq(path, 1, Trigger(path, s) - 1)) \ {s.peer}
        others == active \ Originals(path, s)
    IN Selected(Again(s), IF Cardinality(others) >= CustodyThreshold THEN others
                          ELSE active \ Departed(path, s))

(* rehandoff_context, but for the custody that must be complete: someone left, enough can deal. *)
Rotates(path, s) ==
    Departed(path, s) # {} /\ Cardinality(Survivors(path, s)) >= CustodyThreshold

(***************************************************************************)
(* The same for the plan, tabulated by height: HandoffCtx of every subject *)
(* whose transaction is on chain, and ReHandoffCtx of those that rotate.   *)
(***************************************************************************)
Known(h) == SubSeq(Plan, 1, h)
AtHeight(h) == IF h <= Len(Plan) THEN h ELSE Len(Plan)

SubjectsAt == [h \in 0..Len(Plan) |-> Subjects(Known(h))]
MembersAt == [h \in 0..Len(Plan) |-> ActiveSet(Known(h))]
PublishedBy == [h \in 0..Len(Plan) |->
    {s \in [peer : Node, at : 1..h, round : {0}] : s.peer \in Plan[s.at].txs}]
HandoffCtx == [h \in 0..Len(Plan) |-> [s \in PublishedBy[h] |-> Originals(Known(h), s)]]
ReHandoffCtx == [h \in 0..Len(Plan) |->
    [s \in {x \in Subjects(Known(h)) : Rotates(Known(h), x)} |->
        [trigger |-> Trigger(Known(h), s), committee |-> Fresh(Known(h), s),
         canonical |-> Canonical(Known(h), s)]]]

Subs(path) == SubjectsAt[AtHeight(Len(path))]
Ctx(path) == HandoffCtx[AtHeight(Len(path))]
ReCtx(path) == ReHandoffCtx[AtHeight(Len(path))]
Members(path) == MembersAt[AtHeight(Len(path))]

-----------------------------------------------------------------------------
(* What the receipts of a chain add to that. *)

Filed(path, s, committee) == {m \in committee : [member |-> m, subject |-> s] \in Recorded(path)}

(* A re-handoff takes place once custody was complete. *)
Triggered(path, s) ==
    s \in DOMAIN ReCtx(path) /\ Cardinality(Filed(path, s, Ctx(path)[s])) >= CustodyThreshold

Base(s) == [s EXCEPT !.round = 0]

(* any_handoff_context: the committee of either round, empty without a context. *)
Committee(path, s) ==
    IF s \in DOMAIN Ctx(path) THEN Ctx(path)[s]
    ELSE IF s.round = 1 /\ Triggered(path, Base(s)) THEN ReCtx(path)[Base(s)].committee ELSE {}

StartOf(path, s) == IF s.round = 0 THEN s.at ELSE ReCtx(path)[Base(s)].trigger

(* handoff_completed_count and settle. *)
Completed(path, s) == Filed(path, s, Committee(path, s))
IsComplete(path, s) == Cardinality(Completed(path, s)) >= CustodyThreshold

(* defaultable_subjects *)
Owed(path) == Subs(path) \cup {Again(s) : s \in {x \in Subs(path) : Triggered(path, x)}}

(* Mutant: the round closes one block early. *)
MutOpen(path, s) == Len(path) < StartOf(path, s) + Deadline - 1

Open(path, s) == Len(path) < StartOf(path, s) + Deadline

(* handoff_defaults: whoever has no receipt on chain when a round has closed. *)
Defaults(path) ==
    UNION {Committee(path, s) \ Completed(path, s) : s \in {x \in Owed(path) : ~Open(path, x)}}

(* validate_handoff_receipt; that the receipt itself is genuine is told by where it comes from. *)
ValidReceipt(path, r) == r.member \in Committee(path, r.subject)

-----------------------------------------------------------------------------
(* What the handlers do to the pools of a node. *)

(* Its receipt for s is on its chain or in its pool. *)
HasFiled(n, pool, s) == [member |-> n, subject |-> s] \in Recorded(Prefix(n)) \cup pool

(* The sub-shares of round 1 that n keeps for s when d's arrives: the first of each dealer. *)
Counts(n, s, d) ==
    /\ n \in Committee(Prefix(n), Again(s)) /\ d \in ReCtx(Prefix(n))[s].canonical
    /\ ~HasFiled(n, receipts[n], Again(s)) /\ [subject |-> s, dealer |-> d] \notin held[n]

Shares(from, s) == {x \in from : x.subject = s}

(* Mutant: one sub-share short of the threshold is enough. *)
MutCombined(n, from, ss) ==
    {[member |-> n, subject |-> Again(s)] : s \in {x \in ss : Cardinality(Shares(from, x)) >= CustodyThreshold - 1}}

(* Mutant: round 1 is taken for the handoff of whoever held the shares. *)
MutNamed(n, from, ss) ==
    {[member |-> n, subject |-> [s EXCEPT !.round = 2]] : s \in {x \in ss : Cardinality(Shares(from, x)) >= CustodyThreshold}}

(* accumulate_reshare: the receipts it files for what it now holds, all dealers having dealt. *)
Combined(n, from, ss) ==
    {[member |-> n, subject |-> Again(s)] : s \in {x \in ss : Cardinality(Shares(from, x)) >= CustodyThreshold}}

(* A custodian takes a parcel of which it can file a receipt, once. *)
TakesParcel(n, m) ==
    /\ m.type = "custody" /\ m.member = n /\ n \notin Withholders
    /\ ~HasFiled(n, receipts[n], m.subject) /\ n \in Committee(Prefix(n), m.subject)

(* Mutant: a parcel is the business of its addressee alone. *)
MutRelaysParcel(n, m) == FALSE

(* Anybody else passes a sealed parcel on, once, unless its receipt is on chain. *)
RelaysParcel(n, m) ==
    /\ m.type = "custody" /\ m.member # n /\ <<m.subject, m.member>> \notin relayed[n]
    /\ [member |-> m.member, subject |-> m.subject] \notin Recorded(Prefix(n))

TakesShare(n, m) ==
    m.type = "reshare" /\ m.member = n /\ n \notin Withholders /\ Counts(n, m.subject, m.dealer)

TakesReceipt(n, m) ==
    /\ m.type = "receipt" /\ m.receipt \notin Recorded(Prefix(n)) \cup receipts[n]
    /\ ValidReceipt(Prefix(n), m.receipt)

(* What m asks for is on chain: no handler will look at it. *)
Settled(path, m) ==
    CASE m.type = "custody" -> [member |-> m.member, subject |-> m.subject] \in Recorded(path)
      [] m.type = "reshare" -> [member |-> m.member, subject |-> Again(m.subject)] \in Recorded(path)
      [] m.type = "receipt" -> m.receipt \in Recorded(path)

Takes(n, m) ==
    TakesParcel(n, m) \/ RelaysParcel(n, m) \/ TakesShare(n, m) \/ TakesReceipt(n, m)

(***************************************************************************)
(* Messages go to the peers of their sender.  One that its receiver could  *)
(* never use is not put into its inbox, nor is a parcel that is sent again *)
(* (`again`) and would only be dropped again.                              *)
(***************************************************************************)
Useful(p, m) ==
    CASE m.type = "custody" -> IF m.member = p THEN p \notin Withholders /\ ~HasFiled(p, receipts[p], m.subject)
                               ELSE RelaysParcel(p, m)
      [] m.type = "reshare" -> m.member = p /\ p \notin Withholders /\ ~HasFiled(p, receipts[p], Again(m.subject))
      [] m.type = "receipt" -> p \in Leaders /\ m.receipt \notin Recorded(Prefix(p)) \cup receipts[p]

Needed(n, p, m) == m.type = "custody" => m.member = p \/ m.member \notin Peers[n]

Gossip(n, out, again, mine) ==
    inbox' = [p \in Node |->
                 IF p = n THEN mine
                 ELSE inbox[p] \cup {m \in out : p \in Peers[n] /\ Useful(p, m) /\ Needed(n, p, m)}
                               \cup {m \in again : p \in Peers[n] /\ Takes(p, m) /\ Needed(n, p, m)}]

-----------------------------------------------------------------------------
Init ==
    /\ log = <<>>
    /\ height = [n \in Node |-> 0]
    /\ custody = [n \in Node |-> {}]
    /\ held = [n \in Node |-> {}]
    /\ receipts = [n \in Node |-> {}]
    /\ slashed = [n \in Node |-> {}]
    /\ dispatched = [n \in Node |-> FALSE]
    /\ dealt = [n \in Node |-> FALSE]
    /\ relayed = [n \in Node |-> {}]
    /\ inbox = [n \in Node |-> {}]

(* Who is at the head and votes for a block of n, as long as its vote counts with c. *)
Voters(n, c) ==
    {m \in Members(log) : height[m] = Len(log) /\ n \notin slashed[m] /\ m \notin slashed[c]}

(* A leader that some quorum accepts, and somebody to count its votes. *)
CanLead(n) ==
    /\ n \in (Leaders \cap Members(log)) \ slashed[n] /\ height[n] = Len(log)
    /\ \E c \in Members(log) : IsQuorum(Voters(n, c), Members(log))

(* assemble_block: what of the pools is valid and not on chain; the voters check the same. *)
Assembled(n) == {r \in receipts[n] \ Recorded(log) : ValidReceipt(log, r)}

(* Consensus orders the next block; above MaxHeight only such as record something. *)
Finalize(n) ==
    /\ \A p \in Node : height[p] + MaxLag > Len(log)
    /\ CanLead(n)
    /\ Len(log) < MaxHeight \/ Assembled(n) # {}
    /\ log' = Append(log, Assembled(n))
    /\ UNCHANGED <<height, custody, held, receipts, slashed, dispatched, dealt, relayed, inbox>>

(* A node appends the next block and, entering the round after it, drops what the chain has recorded. *)
Advance(n) ==
    LET path == SubSeq(log, 1, height[n] + 1) IN
    /\ height[n] < Len(log)
    /\ height' = [height EXCEPT ![n] = @ + 1]
    /\ receipts' = [receipts EXCEPT ![n] = @ \ Recorded(path)]
    /\ dealt' = [dealt EXCEPT ![n] = FALSE]
    /\ inbox' = [inbox EXCEPT ![n] = {m \in @ : ~Settled(path, m)}]
    /\ UNCHANGED <<log, custody, held, slashed, dispatched, relayed>>

-----------------------------------------------------------------------------
(* The drivers of a tick. *)

(* drive_custody_dispatch: the subjects of n whose custody is still wanting. *)
Dispatches(n) == {s \in Subs(Prefix(n)) : s.peer = n /\ ~IsComplete(Prefix(n), s)}
Parcels(n) == UNION {{Parcel(s, m) : m \in Ctx(Prefix(n))[s]} : s \in Dispatches(n)}

(* drive_rehandoff: the subjects of which n deals its share, once a height. *)
Deals(n) ==
    {s \in Subs(Prefix(n)) : /\ ~dealt[n] /\ Triggered(Prefix(n), s) /\ n \in ReCtx(Prefix(n))[s].canonical
                                 /\ s \in custody[n] /\ ~IsComplete(Prefix(n), Again(s))}
SubShares(n) == UNION {{SubShare(s, n, m) : m \in ReCtx(Prefix(n))[s].committee \ {n}} : s \in Deals(n)}

(* There is no loopback: a dealer of the fresh committee keeps its own sub-share. *)
OwnShares(n) == {[subject |-> s, dealer |-> n] : s \in {x \in Deals(n) : Counts(n, x, n)}}

(* A tick; the timer of the dispatch may or may not have run out since the last one. *)
Tick(n) ==
    /\ UNCHANGED <<log, height, custody, relayed>>
    /\ \E parcels \in {{}, Parcels(n)} :
        LET from == held[n] \cup OwnShares(n)
            mine == Combined(n, from, {x.subject : x \in OwnShares(n)})
            out == SubShares(n) \cup {Receipt(r) : r \in mine}
        IN /\ parcels = {} => dispatched[n] \/ Parcels(n) = {}
           /\ held' = [held EXCEPT ![n] = from]
           /\ receipts' = [receipts EXCEPT ![n] = @ \cup mine]
           /\ dispatched' = [dispatched EXCEPT ![n] = @ \/ parcels # {}]
           /\ dealt' = [dealt EXCEPT ![n] = @ \/ \E s \in Subs(Prefix(n)) : Triggered(Prefix(n), s)]
           /\ slashed' = [slashed EXCEPT ![n] = @ \cup Defaults(Prefix(n))]
           /\ Gossip(n, out \cup (IF dispatched[n] THEN {} ELSE parcels), parcels, inbox[n])

(* Above MaxHeight a block that records nothing still lets a dealer deal again to one who takes it. *)
QuietHead(n) ==
    /\ height[n] = Len(log) /\ Len(log) >= MaxHeight /\ dealt[n]
    /\ \E s \in Subs(log), p \in Peers[n] :
          /\ Triggered(log, s) /\ n \in ReCtx(log)[s].canonical /\ s \in custody[n] /\ ~IsComplete(log, Again(s))
          /\ SubShare(s, n, p) \notin inbox[p] /\ TakesShare(p, SubShare(s, n, p))
    /\ dealt' = [dealt EXCEPT ![n] = FALSE]
    /\ UNCHANGED <<log, height, custody, held, receipts, slashed, dispatched, relayed, inbox>>

-----------------------------------------------------------------------------
(* The handlers of on_msg.  Each reads one message of the inbox of n. *)

Rest(n, m) == inbox[n] \ {m}

(* handle_custody_parcel: keep the share, file the receipt. *)
OnCustody(n, m) ==
    LET mine == [member |-> n, subject |-> m.subject] IN
    /\ TakesParcel(n, m)
    /\ custody' = [custody EXCEPT ![n] = @ \cup {m.subject}]
    /\ receipts' = [receipts EXCEPT ![n] = @ \cup {mine}]
    /\ Gossip(n, {Receipt(mine)}, {}, Rest(n, m))
    /\ UNCHANGED <<log, height, held, slashed, dispatched, dealt, relayed>>

RelayCustody(n, m) ==
    /\ RelaysParcel(n, m)
    /\ relayed' = [relayed EXCEPT ![n] = @ \cup {<<m.subject, m.member>>}]
    /\ Gossip(n, {m}, {}, Rest(n, m))
    /\ UNCHANGED <<log, height, custody, held, receipts, slashed, dispatched, dealt>>

(* handle_reshare_parcel: the sub-share of a canonical dealer, perhaps the last one. *)
OnReshare(n, m) ==
    LET from == held[n] \cup {[subject |-> m.subject, dealer |-> m.dealer]}
        mine == Combined(n, from, {m.subject})
    IN /\ TakesShare(n, m)
       /\ held' = [held EXCEPT ![n] = from]
       /\ receipts' = [receipts EXCEPT ![n] = @ \cup mine]
       /\ Gossip(n, {Receipt(r) : r \in mine}, {}, Rest(n, m))
       /\ UNCHANGED <<log, height, custody, slashed, dispatched, dealt, relayed>>

OnReceipt(n, m) ==
    /\ TakesReceipt(n, m)
    /\ receipts' = [receipts EXCEPT ![n] = @ \cup {m.receipt}]
    /\ Gossip(n, {m}, {}, Rest(n, m))
    /\ UNCHANGED <<log, height, custody, held, slashed, dispatched, dealt, relayed>>

(* Anything else, what comes before the chain it speaks of included, is read and forgotten. *)
Ignore(n, m) ==
    /\ ~Takes(n, m)
    /\ inbox' = [inbox EXCEPT ![n] = Rest(n, m)]
    /\ UNCHANGED <<log, height, custody, held, receipts, slashed, dispatched, dealt, relayed>>

Receive(n) ==
    \E m \in inbox[n] :
        \/ OnCustody(n, m) \/ RelayCustody(n, m) \/ OnReshare(n, m)
        \/ OnReceipt(n, m) \/ Ignore(n, m)

(* One turn of the loop of n, or a block it proposes and consensus orders. *)
Turn(n) == Advance(n) \/ Receive(n) \/ Finalize(n) \/ QuietHead(n) \/ Tick(n)

Next == \E n \in Node : Turn(n)

Spec == Init /\ [][Next]_vars

(***************************************************************************)
(* Fairness: as long as somebody can change something, something changes.  *)
(* Ticker and inbox of every node are polled for ever, and every turn      *)
(* consumes a message, which a node passes on at most once, or adds to a   *)
(* set that only grows at one height: this is fairness to each of them.    *)
(***************************************************************************)
FairSpec == Spec /\ WF_vars(Next)

-----------------------------------------------------------------------------
(* Type correctness: blocks, pools and messages speak of subjects and receipts. *)
TypeOK ==
    /\ log \in Seq(HBlock)
    /\ height \in [Node -> 0..Len(log)]
    /\ custody \in [Node -> SUBSET Subject]
    /\ held \in [Node -> SUBSET [subject : Subject, dealer : Node]]
    /\ receipts \in [Node -> SUBSET HandoffReceipt]
    /\ slashed \in [Node -> SUBSET Node]
    /\ {dispatched, dealt} \subseteq [Node -> BOOLEAN]
    /\ relayed \in [Node -> SUBSET (Subject \X Node)]
    /\ inbox \in [Node -> SUBSET Message]

(***************************************************************************)
(* Behind every receipt, recorded or pooled, is custody: of round 0 the    *)
(* member got the leaver's share; of round 1 it got sub-shares of as many  *)
(* holders of such a share as it takes.                                    *)
(***************************************************************************)
ReceiptsAreBacked ==
    \A r \in Recorded(log) \cup UNION {receipts[n] : n \in Node} :
        IF r.subject.round = 0 THEN r.subject \in custody[r.member]
        ELSE Cardinality({d \in Node : /\ [subject |-> Base(r.subject), dealer |-> d] \in held[r.member]
                                       /\ Base(r.subject) \in custody[d]}) >= CustodyThreshold

(* No receipt is recorded twice, whatever pools of successive leaders hold. *)
RecordedOnce ==
    \A i, j \in 1..Len(log) :
        i # j => log[i] \cap log[j] = {}

(***************************************************************************)
(* Whoever is slashed anywhere was on a committee and had no receipt on    *)
(* chain for its subject when the deadline was over: a custodian is safe   *)
(* with the last block that still counts.                                  *)
(***************************************************************************)
FilersAreSafe ==
    \A n \in Node : \A x \in slashed[n] : \E i \in 0..Len(log) :
        \E s \in Owed(SubSeq(log, 1, i)) :
            LET start == StartOf(SubSeq(log, 1, i), s)
            IN /\ x \in Committee(SubSeq(log, 1, i), s)
               /\ start + Deadline <= Len(log)
               /\ [member |-> x, subject |-> s] \notin Recorded(SubSeq(log, 1, start + Deadline))

(* Nobody can lead any more: too many of the set are slashed. *)
Halted ==
    \A n \in Members(log) : n \in slashed[n] \/ \A c \in Members(log) :
        ~IsQuorum({m \in Members(log) : n \notin slashed[m] /\ m \notin slashed[c]}, Members(log))

(***************************************************************************)
(* A profile whose owner has left comes into the custody of a threshold,   *)
(* when a custodian leaves then of a threshold of the fresh committee;     *)
(* unless consensus halts because too many have missed a deadline.         *)
(***************************************************************************)
HandoffsComplete ==
    (Subs(log) # {}) ~> (Halted \/ \A s \in Owed(log) : IsComplete(log, s))
=============================================================================
