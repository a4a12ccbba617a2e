----------------------------- MODULE Admission -----------------------------
(***************************************************************************)
(* The join of a newcomer under the Statement-5 gate (node.rs): at every   *)
(* height it publishes a join op with a proof that its nullifier is not    *)
(* in the tree of suspended ones whose root its own head carries.  A node  *)
(* pools one op of it and passes it on; a leader records what it has       *)
(* pooled as long as the head the proof refers to is not too old.          *)
(*                                                                         *)
(* Consensus is one growing chain.  Its heights are counted back from the  *)
(* head, because only distances matter: an op is the age of the block it   *)
(* refers to.  So the chain grows for ever in finitely many states.        *)
(***************************************************************************)
EXTENDS BftQuorum

CONSTANTS Node,
          Joiner,    \* the newcomer; the others are validators from genesis
          Peers,     \* to whom each node is connected
          Window,    \* STMT5_STALENESS_WINDOW
          MaxLag,    \* bound: how far a node may be behind the chain when it grows
          MaxDelay   \* bound: how old an op on its way may become

ASSUME AdmissionAssumption ==
    /\ Joiner \in Node /\ Peers \in [Node -> SUBSET Node]
    /\ {Window, MaxLag, MaxDelay} \subseteq Nat /\ MaxLag <= Window

VARIABLES lag,     \* how many blocks of the chain a node has not got
          pool,    \* pending_membership: no op of the newcomer, or one
          inbox,   \* the ops on their way to a node
          joined,  \* the blocks from the one that admits the newcomer on; 0 if there is none
          dark     \* the blocks from the one that suspends its nullifier on; 0 if there is none

vars == <<lag, pool, inbox, joined, dark>>

(* Beyond Cap an age is too high for everything: it is counted no further. *)
Cap == Window + 2
Age == 0..Cap
Older(a) == IF a < Cap THEN a + 1 ELSE Cap

Since(count) == IF count = 0 THEN 0 ELSE Older(count)

(* What the chain of a node says when it is `behind` blocks short. *)
Admitted(behind) == joined > behind

(* The validators of the next height. *)
Members == (Node \ {Joiner}) \cup {j \in {Joiner} : Admitted(0)}

(* susp_keys_at, build_rejoin_package: the tree of a head has what was suspended before that head. *)
CanProve(behind) == dark <= behind + 1

(* Mutant: an op may be of any age. *)
MutAdmissible(a, behind) == behind <= a

(* rejoin_admissible at a node that is behind: it has the block, and that is recent. *)
Admissible(a, behind) == behind <= a /\ a - behind <= Window

-----------------------------------------------------------------------------
Publishes(n, behind) == n = Joiner /\ ~Admitted(behind) /\ CanProve(behind)

Send(boxes, n, ops) == [p \in Node |-> IF p \in Peers[n] THEN boxes[p] \cup ops ELSE boxes[p]]

(* Every node has entered the first round, and the newcomer has published. *)
Init ==
    /\ lag = [n \in Node |-> 0]
    /\ pool = [n \in Node |-> {}]
    /\ inbox = [p \in Node |-> IF p \in Peers[Joiner] THEN {0} ELSE {}]
    /\ joined = 0
    /\ dark = 0

(* assemble_block: the op of the pool, if it still stands and changes the set. *)
Records(n) == {a \in pool[n] : Admissible(a, 0) /\ ~Admitted(0)}

CanLead(n) ==
    /\ n \in Members /\ lag[n] = 0
    /\ IsQuorum({m \in Members : lag[m] = 0}, Members)

(* n proposes the next block, and consensus orders it; it may suspend the newcomer's nullifier. *)
Finalize(n) ==
    /\ CanLead(n)
    /\ \A p \in Node : lag[p] < MaxLag /\ \A a \in inbox[p] : a < MaxDelay
    /\ joined' = IF Records(n) # {} THEN 1 ELSE Since(joined)
    /\ dark' \in {Since(dark)} \cup {d \in {1} : dark = 0 /\ joined = 0}
    /\ lag' = [p \in Node |-> lag[p] + 1]
    /\ pool' = [p \in Node |-> {Older(a) : a \in pool[p]}]
    /\ inbox' = [p \in Node |-> {Older(a) : a \in inbox[p]}]

(* A node appends blocks and enters a round: it drops an op that has taken effect, or publishes. *)
Advance(n) ==
    \E behind \in 0..(lag[n] - 1) :
        /\ lag' = [lag EXCEPT ![n] = behind]
        /\ pool' = [pool EXCEPT ![n] = {a \in @ : ~Admitted(behind)}]
        /\ inbox' = Send(inbox, n, {a \in {behind} : Publishes(n, behind)})
        /\ UNCHANGED <<joined, dark>>

(* The first op that is admissible when it comes. *)
Pools(n, a) == Admissible(a, lag[n]) /\ pool[n] = {}

Rest(n, a) == [inbox EXCEPT ![n] = @ \ {a}]

(* Mutant: another op of the same subject joins the one in the pool. *)
MutOnMembership(n, a) ==
    /\ Admissible(a, lag[n]) /\ a \notin pool[n]
    /\ pool' = [pool EXCEPT ![n] = @ \cup {a}]
    /\ inbox' = Send(Rest(n, a), n, {a})
    /\ UNCHANGED <<lag, joined, dark>>

(* on_msg, Membership: pooled and passed on. *)
OnMembership(n, a) ==
    /\ Pools(n, a)
    /\ pool' = [pool EXCEPT ![n] = {a}]
    /\ inbox' = Send(Rest(n, a), n, {a})
    /\ UNCHANGED <<lag, joined, dark>>

Ignore(n, a) ==
    /\ ~Pools(n, a)
    /\ inbox' = Rest(n, a)
    /\ UNCHANGED <<lag, pool, joined, dark>>

Receive(n) == \E a \in inbox[n] : OnMembership(n, a) \/ Ignore(n, a)

Next == \E n \in Node : Finalize(n) \/ Advance(n) \/ Receive(n)

Spec == Init /\ [][Next]_vars

(***************************************************************************)
(* Timer and inbox of a node are polled for ever.  The beacon of each      *)
(* block draws the leader of the next: whoever can lead again and again    *)
(* leads again and again.                                                  *)
(***************************************************************************)
FairSpec ==
    /\ Spec
    /\ \A n \in Node : WF_vars(Advance(n)) /\ WF_vars(Receive(n)) /\ SF_vars(Finalize(n))

-----------------------------------------------------------------------------
(* Type correctness; a pool has one op at most. *)
TypeOK ==
    /\ lag \in [Node -> 0..MaxLag]
    /\ pool \in [Node -> SUBSET Age] /\ \A n \in Node : \A a, b \in pool[n] : a = b
    /\ inbox \in [Node -> SUBSET Age]
    /\ {joined, dark} \subseteq Age

(***************************************************************************)
(* Who is suspended stays out: the gate lets nobody in whose suspension is *)
(* older than the window, however long his op was under way or in a pool.  *)
(***************************************************************************)
SuspendedStayOut == [][joined = 0 /\ joined' # 0 => dark <= Window + 1]_vars

(* What start_round expects of joining, that a newcomer nobody suspends is admitted in the end,      *)
(* because it makes a proof anew at each height.  It fails: the pool keeps the first op, stale or not. *)
JoinerAdmitted == <>(joined # 0 \/ dark # 0)
=============================================================================
