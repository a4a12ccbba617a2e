-------------------------- MODULE ConsensusProofs --------------------------
(***************************************************************************)
(* Five parts.  Votes: Consensus keeps its types, and no honest validator  *)
(* signs twice for a slot.  Refinement: it implements SlotVoting, and      *)
(* inherits what SlotVoting promises.  Evidence: what a node believes of   *)
(* views, offenders and final blocks was published by those it takes for   *)
(* its source.  Forks: chains grow at their ends, and they part only where *)
(* two views finalized.  One log: until then it implements SharedLog.      *)
(***************************************************************************)
EXTENDS Consensus, ChainPathLemmas

-----------------------------------------------------------------------------
(* Votes. *)

OwnVotes(n, ms) == {m \in ms : m.type = "vote" /\ m.voter = n}

(* One block id for each height and view. *)
SignedOnce(n, ms) ==
    \A x, y \in OwnVotes(n, ms) : x.height = y.height /\ x.view = y.view => x.block = y.block

(* Whatever n signed is behind it, or is the vote that its round r remembers. *)
SignedUpTo(n, ms, r) ==
    \A m \in OwnVotes(n, ms) :
        \/ m.height <= Len(chain[n])
        \/ /\ m.height = r.height
           /\ m.view < r.view \/ (m.view = r.view /\ m.block = r.voted /\ r.voted # NoBlock)

(* What the helpers of the loop preserve of the round r that a handler of n works on. *)
RoundOK(n, r) ==
    /\ r \in Round
    /\ \A m \in r.out : m.type = "vote" => m.voter = n
    /\ \A m \in r.votes : m \in sent \cup r.out /\ m.height = r.height
    /\ n \notin DoubleVoters => SignedOnce(n, sent \cup r.out) /\ SignedUpTo(n, sent \cup r.out, r)

(* The round of a node that is at work on the next height. *)
AtWork(n, r) == RoundOK(n, r) /\ r.height = Len(chain[n]) + 1

-----------------------------------------------------------------------------
(* The messages. *)

LEMMA NoBlockIsPath == NoBlock \in Path
BY DEF NoBlock, Path

LEMMA VotesAreVotes == \A m \in Message : m.type = "vote" => m \in VoteMsg
BY DEF Message, VoteMsg, ViewChangeMsg

LEMMA VoteType ==
    ASSUME NEW n \in Node, NEW h \in Nat, NEW v \in Nat, NEW b \in Path
    PROVE  Vote(n, h, v, b) \in VoteMsg /\ Vote(n, h, v, b) \in Message
BY DEF Vote, VoteMsg, Message

LEMMA NewRoundType ==
    ASSUME NEW h \in Nat, NEW out \in SUBSET Message
    PROVE  NewRound(h, out) \in Round
BY NoBlockIsPath DEF NewRound, Round

(* A block of one header more is a block. *)
LEMMA AppendIsBlock ==
    ASSUME NEW p \in Path, NEW hd \in Header
    PROVE  Append(p, hd) \in Block
<1> DEFINE H == Header
<1>1. p \in Seq(H) /\ hd \in H
  BY DEF Path
<1> HIDE DEF H
<1>2. Append(p, hd) \in Seq(H) /\ Len(Append(p, hd)) = Len(p) + 1 /\ Len(p) \in Nat
  BY <1>1
<1>3. Append(p, hd) # <<>>
  BY <1>2
<1> QED BY <1>2, <1>3 DEF Block, Path, H

-----------------------------------------------------------------------------
(* The helpers. *)

LEMMA CastVoteOK ==
    ASSUME TypeOK, NEW n \in Node, NEW r, AtWork(n, r), NEW b \in Path
    PROVE  AtWork(n, CastVote(n, r, b))
<1>1. CASE b = NoBlock \/ r.voted # NoBlock \/ n \notin Members(n)
  BY <1>1 DEF CastVote
<1>2. CASE ~(b = NoBlock \/ r.voted # NoBlock \/ n \notin Members(n))
  <2> DEFINE mine == Vote(n, r.height, r.view, b)
             two == {Vote(n, r.height, r.view, NoBlock) : x \in {n} \cap DoubleVoters}
             q == [r EXCEPT !.voted = b, !.votes = @ \cup {mine}, !.out = @ \cup {mine} \cup two]
  <2>1. CastVote(n, r, b) = q
    BY <1>2 DEF CastVote
  <2>2. r \in Round /\ r.height \in Nat /\ r.view \in Nat
    BY DEF AtWork, RoundOK, Round
  <2>3. mine \in VoteMsg /\ mine \in Message /\ two \subseteq Message
    BY <2>2, VoteType, NoBlockIsPath
  <2>4. /\ mine.type = "vote" /\ mine.voter = n /\ mine.height = r.height
        /\ mine.view = r.view /\ mine.block = b
    BY DEF Vote
  <2>5. \A m \in two : m.voter = n
    BY DEF Vote
  <2>6. /\ q.height = r.height /\ q.view = r.view /\ q.voted = b
        /\ q.votes = r.votes \cup {mine} /\ q.out = r.out \cup {mine} \cup two
    BY <2>2 DEF Round
  <2>7. q \in Round
    <3> HIDE DEF mine, two
    <3> QED BY <2>2, <2>3 DEF Round
  <2> HIDE DEF mine, q
  <2>8. ASSUME n \notin DoubleVoters
        PROVE  SignedOnce(n, sent \cup q.out) /\ SignedUpTo(n, sent \cup q.out, q)
    <3>1. q.out = r.out \cup {mine}
      BY <2>6, <2>8
    <3>2. SignedOnce(n, sent \cup r.out) /\ SignedUpTo(n, sent \cup r.out, r)
      BY <2>8 DEF AtWork, RoundOK
    <3>3. OwnVotes(n, sent \cup q.out) = OwnVotes(n, sent \cup r.out) \cup {mine}
      BY <3>1, <2>4 DEF OwnVotes
    <3>4. \A m \in OwnVotes(n, sent \cup r.out) : 
             m.height <= Len(chain[n]) \/ (m.height = r.height /\ m.view < r.view)
      BY <3>2, <1>2 DEF SignedUpTo
    <3>5. \A m \in OwnVotes(n, sent \cup r.out) : ~(m.height = r.height /\ m.view = r.view)
      <4>1. chain[n] \in Path /\ Len(chain[n]) \in Nat /\ r.height = Len(chain[n]) + 1
        BY DEF TypeOK, AtWork, Path
      <4> QED BY <3>4, <4>1, <2>2
    <3>6. SignedOnce(n, sent \cup q.out)
      <4> SUFFICES ASSUME NEW x \in OwnVotes(n, sent \cup q.out), NEW y \in OwnVotes(n, sent \cup q.out),
                          x.height = y.height, x.view = y.view
                   PROVE  x.block = y.block
        BY DEF SignedOnce
      <4>1. CASE x = mine \/ y = mine
        BY <4>1, <3>3, <3>5, <2>4
      <4>2. CASE x # mine /\ y # mine
        BY <4>2, <3>2, <3>3 DEF SignedOnce
      <4> QED BY <4>1, <4>2
    <3>7. SignedUpTo(n, sent \cup q.out, q)
      BY <3>3, <3>4, <2>4, <2>6, <1>2 DEF SignedUpTo
    <3> QED BY <3>6, <3>7
  <2> QED BY <2>1, <2>4, <2>5, <2>6, <2>7, <2>8 DEF AtWork, RoundOK
<1> QED BY <1>1, <1>2

(* A handler may store and publish anything but votes. *)
LEMMA SameVotesOK ==
    ASSUME NEW n \in Node, NEW r, AtWork(n, r), NEW q \in Round,
           q.height = r.height, q.view = r.view, q.voted = r.voted, q.votes = r.votes,
           r.out \subseteq q.out, \A m \in q.out \ r.out : m.type # "vote"
    PROVE  AtWork(n, q)
<1>1. OwnVotes(n, sent \cup q.out) = OwnVotes(n, sent \cup r.out)
  BY DEF OwnVotes
<1>2. n \notin DoubleVoters => SignedOnce(n, sent \cup q.out) /\ SignedUpTo(n, sent \cup q.out, q)
  BY <1>1 DEF AtWork, RoundOK, SignedOnce, SignedUpTo
<1> QED BY <1>2 DEF AtWork, RoundOK

LEMMA AdoptViewOK ==
    ASSUME TypeOK, NEW n \in Node, NEW r, AtWork(n, r), NEW v \in Nat
    PROVE  AtWork(n, AdoptView(r, v))
<1>1. CASE ~(v > r.view)
  BY <1>1 DEF AdoptView
<1>2. CASE v > r.view
  <2> DEFINE q == [r EXCEPT !.view = v, !.voted = NoBlock]
  <2>1. AdoptView(r, v) = q
    BY <1>2 DEF AdoptView
  <2>2. r \in Round /\ r.view \in Nat /\ r.out \subseteq Message
    BY DEF AtWork, RoundOK, Round
  <2>3. q \in Round
    BY <2>2, NoBlockIsPath DEF Round
  <2>4. q.height = r.height /\ q.view = v /\ q.votes = r.votes /\ q.out = r.out
    BY <2>2 DEF Round
  <2> HIDE DEF q
  <2>5. ASSUME n \notin DoubleVoters PROVE SignedUpTo(n, sent \cup q.out, q)
    <3> SUFFICES ASSUME NEW m \in OwnVotes(n, sent \cup r.out)
                 PROVE  m.height <= Len(chain[n]) \/ (m.height = q.height /\ m.view < q.view)
      BY <2>4 DEF SignedUpTo
    <3>1. m \in VoteMsg
      BY <2>2, VotesAreVotes DEF OwnVotes, TypeOK
    <3>2. m.view \in Nat
      BY <3>1 DEF VoteMsg
    <3>3. m.height <= Len(chain[n]) \/ (m.height = r.height /\ (m.view < r.view \/ m.view = r.view))
      BY <2>5 DEF AtWork, RoundOK, SignedUpTo
    <3> QED BY <1>2, <2>2, <2>4, <3>2, <3>3
  <2> QED BY <2>1, <2>3, <2>4, <2>5 DEF AtWork, RoundOK
<1> QED BY <1>1, <1>2

LEMMA MaybeAdvanceViewOK ==
    ASSUME TypeOK, NEW n \in Node, NEW r, AtWork(n, r), NEW q \in MaybeAdvanceView(n, r)
    PROVE  AtWork(n, q)
<1>1. \A m \in r.vcVotes : m.view \in Nat
  BY DEF AtWork, RoundOK, Round, ViewChangeMsg
<1>2. q = r \/ \E v \in Nat : q = AdoptView(r, v)
  BY <1>1 DEF MaybeAdvanceView
<1> QED BY <1>2, AdoptViewOK

LEMMA ViewChangeType ==
    ASSUME NEW n \in Node, NEW h \in Nat, NEW v \in Nat
    PROVE  ViewChange(n, h, v) \in ViewChangeMsg /\ ViewChange(n, h, v) \in Message
BY DEF ViewChange, ViewChangeMsg, Message

LEMMA AnnounceOK ==
    ASSUME TypeOK, NEW n \in Node, NEW r, AtWork(n, r), NEW q \in Announce(n, r)
    PROVE  AtWork(n, q)
<1> DEFINE vc == ViewChange(n, r.height, r.view + 1)
           s == [r EXCEPT !.vcVotes = @ \cup {m \in {vc} : n \in Members(n)}, !.out = @ \cup {vc}]
<1>1. q = r \/ q \in MaybeAdvanceView(n, s)
  BY DEF Announce
<1>2. r \in Round /\ r.height \in Nat /\ r.view + 1 \in Nat
  BY DEF AtWork, RoundOK, Round
<1>3. vc \in ViewChangeMsg /\ vc \in Message /\ vc.type = "viewchange"
  BY <1>2, ViewChangeType DEF ViewChange
<1> HIDE DEF vc
<1>4. s \in Round
  BY <1>2, <1>3 DEF Round
<1>5. /\ s.height = r.height /\ s.view = r.view /\ s.voted = r.voted /\ s.votes = r.votes
      /\ s.out = r.out \cup {vc}
  BY <1>2 DEF Round
<1> HIDE DEF s
<1>6. AtWork(n, s)
  BY <1>3, <1>4, <1>5, SameVotesOK
<1> QED BY <1>1, <1>6, MaybeAdvanceViewOK

LEMMA AssembleBlockType ==
    ASSUME TypeOK, NEW n \in Node, NEW r \in Round, NEW alt \in BOOLEAN
    PROVE  AssembleBlock(n, r, alt) \in Block
<1> DEFINE ops == {op \in pool[n] : ~alt /\ Changes(op, Members(n))}
           hd == [view |-> r.view, proposer |-> n, alt |-> alt, ops |-> ops]
<1>1. ops \in SUBSET Op /\ r.view \in Nat
  BY DEF TypeOK, Round
<1> HIDE DEF ops
<1>2. hd \in Header
  BY <1>1 DEF Header
<1>3. AssembleBlock(n, r, alt) = Append(chain[n], hd)
  BY DEF AssembleBlock, ops
<1> HIDE DEF hd
<1> QED BY <1>2, <1>3, AppendIsBlock DEF TypeOK

LEMMA ProposeOK ==
    ASSUME TypeOK, NEW n \in Node, NEW r, AtWork(n, r)
    PROVE  AtWork(n, Propose(n, r))
<1> DEFINE a == AssembleBlock(n, r, FALSE)
           b == AssembleBlock(n, r, TRUE)
           once == [r EXCEPT !.proposed = @ \cup {r.view}]
           both == [once EXCEPT !.out = @ \cup {Proposal(a), Proposal(b)}]
           own == [once EXCEPT !.blocks = @ \cup {a}, !.out = @ \cup {Proposal(a)}]
<1>1. Propose(n, r) \in {r, both, CastVote(n, own, a)}
  BY DEF Propose
<1>2. r \in Round /\ r.view \in Nat
  BY DEF AtWork, RoundOK, Round
<1>3. a \in Block /\ b \in Block
  BY <1>2, AssembleBlockType
<1> HIDE DEF a, b
<1>4. /\ Proposal(a) \in Message /\ Proposal(b) \in Message
      /\ Proposal(a).type = "proposal" /\ Proposal(b).type = "proposal"
  BY <1>3 DEF Proposal, Message
<1>5. both \in Round /\ own \in Round
  BY <1>2, <1>3, <1>4 DEF Round
<1>6. /\ both.height = r.height /\ both.view = r.view /\ both.voted = r.voted
      /\ both.votes = r.votes /\ both.out = r.out \cup {Proposal(a), Proposal(b)}
      /\ own.height = r.height /\ own.view = r.view /\ own.voted = r.voted
      /\ own.votes = r.votes /\ own.out = r.out \cup {Proposal(a)}
  BY <1>2 DEF Round
<1> HIDE DEF both, own, once
<1>7. AtWork(n, both) /\ AtWork(n, own)
  BY <1>4, <1>5, <1>6, SameVotesOK
<1>8. a \in Path
  BY <1>3 DEF Block
<1> QED BY <1>1, <1>7, <1>8, CastVoteOK

-----------------------------------------------------------------------------
(***************************************************************************)
(* The inductive invariant.  A validator forgets its vote when it moves to *)
(* a higher view and when a round ends, so that it keeps its word only     *)
(* because everything it signed is for a height it has left, for a lower   *)
(* view, or is the vote it remembers: that is RoundOK.                     *)
(***************************************************************************)
IInv ==
    /\ TypeOK
    /\ \A n \in Node : inbox[n] \subseteq sent
    /\ \A n \in Node : round[n].out = {} /\ round[n].height \in {0, Len(chain[n]) + 1}
    /\ \A n \in Node : alive[n] => RoundOK(n, round[n])
    /\ \A n \in Node \ DoubleVoters : SignedOnce(n, sent)

(* A node that is in a round works on the height after its chain. *)
LEMMA InRoundAtWork ==
    ASSUME IInv, NEW n \in Node, InRound(n)
    PROVE  alive[n] /\ AtWork(n, round[n])
BY DEF IInv, InRound, AtWork

LEMMA NoRoundType == NoRound \in Round /\ NoRound.out = {} /\ NoRound.votes = {} /\ NoRound.height = 0
BY NewRoundType DEF NoRound, NewRound

(***************************************************************************)
(* Every turn of a loop but a crash is of this shape: node n, at work on   *)
(* the round r, publishes r.out and keeps r, or extends its chain.         *)
(***************************************************************************)
LEMMA StepOK ==
    ASSUME IInv, TypeOK', NEW n \in Node, alive[n], alive' = alive, NEW r, AtWork(n, r),
           sent' = sent \cup r.out,
           \A p \in Node : inbox'[p] \subseteq inbox[p] \cup r.out,
           \A p \in Node \ {n} : chain'[p] = chain[p] /\ round'[p] = round[p],
           \/ chain'[n] = chain[n] /\ round'[n] = [r EXCEPT !.out = {}]
           \/ Len(chain'[n]) > Len(chain[n]) /\ round'[n] = NoRound
    PROVE  IInv'
<1>1. /\ r \in Round /\ r.height \in Nat /\ r.height = Len(chain[n]) + 1
      /\ Len(chain[n]) \in Nat /\ Len(chain'[n]) \in Nat
  BY DEF AtWork, RoundOK, Round, TypeOK, Path
<1>2. \A p \in Node : inbox'[p] \subseteq sent'
  BY DEF IInv
<1>3. /\ round'[n].out = {} /\ round'[n].height \in {0, Len(chain'[n]) + 1}
      /\ round'[n].votes \in {{}, r.votes}
      /\ round'[n].votes # {} => round'[n].height = r.height
  <2>1. CASE chain'[n] = chain[n] /\ round'[n] = [r EXCEPT !.out = {}]
    <3>1. round'[n].out = {} /\ round'[n].height = r.height /\ round'[n].votes = r.votes
      BY <1>1, <2>1 DEF Round
    <3> QED BY <1>1, <2>1, <3>1
  <2>2. CASE round'[n] = NoRound
    BY <2>2, NoRoundType
  <2> QED BY <2>1, <2>2
<1>4. \A p \in Node : round'[p].out = {} /\ round'[p].height \in {0, Len(chain'[p]) + 1}
  BY <1>3 DEF IInv
<1>5. n \notin DoubleVoters => SignedOnce(n, sent')
  BY DEF AtWork, RoundOK
<1>6. ASSUME n \notin DoubleVoters PROVE SignedUpTo(n, sent, round[n])'
  <2> SUFFICES ASSUME NEW m \in OwnVotes(n, sent')
               PROVE  \/ m.height <= Len(chain'[n])
                      \/ /\ m.height = round'[n].height
                         /\ \/ m.view < round'[n].view
                            \/ /\ m.view = round'[n].view /\ m.block = round'[n].voted
                               /\ round'[n].voted # NoBlock
    BY DEF SignedUpTo, OwnVotes
  <2>1. \/ m.height <= Len(chain[n])
        \/ /\ m.height = r.height
           /\ m.view < r.view \/ (m.view = r.view /\ m.block = r.voted /\ r.voted # NoBlock)
    BY <1>6 DEF AtWork, RoundOK, SignedUpTo
  <2>2. m \in VoteMsg
    BY VotesAreVotes DEF OwnVotes, TypeOK
  <2>3. m.height \in Nat
    BY <2>2 DEF VoteMsg
  <2>4. CASE chain'[n] = chain[n] /\ round'[n] = [r EXCEPT !.out = {}]
    <3>1. round'[n].height = r.height /\ round'[n].view = r.view /\ round'[n].voted = r.voted
      BY <1>1, <2>4 DEF Round
    <3> QED BY <2>1, <2>4, <3>1
  <2>5. CASE Len(chain'[n]) > Len(chain[n])
    BY <1>1, <2>1, <2>3, <2>5
  <2> QED BY <2>4, <2>5
<1>7. RoundOK(n, round[n])'
  <2>1. \A m \in round'[n].votes : m \in sent' /\ m.height = round'[n].height
    BY <1>3, NoRoundType DEF AtWork, RoundOK
  <2>2. round'[n] \in Round
    BY DEF TypeOK
  <2>3. sent' \cup round'[n].out = sent'
    BY <1>3
  <2>4. n \notin DoubleVoters => SignedOnce(n, sent \cup round[n].out)'
                                /\ SignedUpTo(n, sent \cup round[n].out, round[n])'
    BY <1>5, <1>6, <2>3 DEF SignedOnce, SignedUpTo, OwnVotes
  <2> QED BY <1>3, <2>1, <2>2, <2>4 DEF RoundOK
<1>8. ASSUME NEW p \in Node \ {n}
      PROVE  /\ alive'[p] => RoundOK(p, round[p])'
             /\ p \notin DoubleVoters => SignedOnce(p, sent')
  <2>1. OwnVotes(p, sent') = OwnVotes(p, sent)
    BY DEF OwnVotes, AtWork, RoundOK
  <2>2. p \notin DoubleVoters => SignedOnce(p, sent')
    BY <2>1 DEF IInv, SignedOnce
  <2>3. ASSUME alive[p] PROVE RoundOK(p, round[p])'
    <3>1. RoundOK(p, round[p]) /\ round[p].out = {} /\ round'[p] = round[p] /\ chain'[p] = chain[p]
      BY <2>3 DEF IInv
    <3>2. p \notin DoubleVoters => SignedUpTo(p, sent \cup round[p].out, round[p])'
      BY <2>1, <3>1 DEF RoundOK, SignedUpTo, OwnVotes
    <3>3. p \notin DoubleVoters => SignedOnce(p, sent \cup round[p].out)'
      BY <2>2, <3>1 DEF SignedOnce, OwnVotes
    <3> QED BY <3>1, <3>2, <3>3 DEF RoundOK
  <2> QED BY <2>2, <2>3
<1> QED BY <1>2, <1>4, <1>5, <1>7, <1>8 DEF IInv

-----------------------------------------------------------------------------
(* What goes out reaches the inboxes, and nothing else does. *)
LEMMA GossipOK ==
    ASSUME TypeOK, NEW n \in Node, NEW out \in SUBSET Message, NEW mine \in SUBSET inbox[n],
           Gossip(n, out, mine)
    PROVE  /\ sent' = sent \cup out /\ sent' \subseteq Message
           /\ inbox' \in [Node -> SUBSET Message]
           /\ \A p \in Node : inbox'[p] \subseteq inbox[p] \cup out
<1>1. \A p \in Node : inbox[p] \subseteq Message
  BY DEF TypeOK
<1>2. \A p \in Node : {m \in out : Useful(p, m)} \subseteq out
  OBVIOUS
<1> QED BY <1>1, <1>2 DEF Gossip, TypeOK

(* A block of the next height makes the chain one longer. *)
LEMMA ReadyExtends ==
    ASSUME TypeOK, NEW n \in Node, NEW r \in Round, NEW b \in Ready(n, r)
    PROVE  b \in Path /\ Len(b) > Len(chain[n])
<1>1. b \in Block /\ Parent(b) = chain[n]
  BY DEF Ready, Extends, Round
<1> QED BY <1>1, ParentIsPath DEF Block

(* The voters for b at its height and view, as SlotVoting counts them. *)
Signers(b, ms) ==
    {m.voter : m \in {x \in ms : x.type = "vote" /\ x.block = b /\ x.height = Len(b) /\ x.view = Tip(b).view}}

(***************************************************************************)
(* What a turn of n may do to the chains: append to its own a block that   *)
(* the validators of its height have signed, or blocks of another chain.   *)
(***************************************************************************)
Grows(n) ==
    /\ sent \subseteq sent'
    /\ \A p \in Node \ {n} : chain'[p] = chain[p]
    /\ \/ chain'[n] = chain[n]
       \/ /\ chain'[n] \in Block /\ Parent(chain'[n]) = chain[n]
          /\ IsQuorum(Signers(chain'[n], sent'), ActiveSet(chain[n]))
       \/ \E p \in Node : \E k \in Len(chain[n]) + 1..Len(chain[p]) :
             chain'[n] = SubSeq(chain[p], 1, k) /\ SubSeq(chain[p], 1, Len(chain[n])) = chain[n]

(* The votes that try_finalize counts are signed ballots of the block's own height. *)
LEMMA ReadyHasQuorum ==
    ASSUME TypeOK, NEW n \in Node, NEW r, AtWork(n, r), NEW b \in Ready(n, r), sent' = sent \cup r.out
    PROVE  /\ b \in Block /\ Parent(b) = chain[n]
           /\ IsQuorum(Signers(b, sent'), ActiveSet(chain[n]))
<1>1. b \in Block /\ Parent(b) = chain[n] /\ r.height = Len(chain[n]) + 1
  BY DEF Ready, Extends, Round, AtWork, RoundOK
<1>2. Len(b) = r.height
  BY <1>1, ParentIsPath
<1>3. VotersFor(b, r.votes) \subseteq Signers(b, sent')
  <2>1. \A m \in r.votes : m \in sent' /\ m.height = Len(b)
    BY <1>2 DEF AtWork, RoundOK
  <2> QED BY <2>1 DEF VotersFor, Signers
<1>4. IsQuorum(VotersFor(b, r.votes), ActiveSet(chain[n]))
  BY DEF Ready, Members
<1> QED BY <1>1, <1>3, <1>4, QuorumMonotone, ActiveSetFinite

LEMMA SettleOK ==
    ASSUME IInv, NEW n \in Node, alive[n], NEW r, AtWork(n, r), NEW mine \in SUBSET inbox[n],
           Settle(n, r, mine), alive' = alive,
           early' \in [Node -> SUBSET Block], pool' \in [Node -> SUBSET Op],
           slashed' \in [Node -> SUBSET Node]
    PROVE  IInv' /\ Grows(n)
<1>1. r \in Round /\ r.out \in SUBSET Message /\ TypeOK
  BY DEF AtWork, RoundOK, Round, IInv
<1>2. CASE /\ round' = [round EXCEPT ![n] = [r EXCEPT !.out = {}]]
           /\ Gossip(n, r.out, mine) /\ UNCHANGED chain
  <2>1. [r EXCEPT !.out = {}] \in Round
    BY <1>1 DEF Round
  <2>2. TypeOK'
    BY <1>1, <1>2, <2>1, GossipOK DEF TypeOK
  <2>3. round'[n] = [r EXCEPT !.out = {}] /\ \A p \in Node \ {n} : round'[p] = round[p]
    BY <1>1, <1>2 DEF TypeOK
  <2>4. sent' = sent \cup r.out /\ \A p \in Node : inbox'[p] \subseteq inbox[p] \cup r.out
    BY <1>1, <1>2, GossipOK
  <2>5. IInv'
    BY <1>2, <2>2, <2>3, <2>4, StepOK
  <2> QED BY <1>2, <2>4, <2>5 DEF Grows
<1>3. ASSUME NEW b \in Ready(n, r),
             chain' = [chain EXCEPT ![n] = b], round' = [round EXCEPT ![n] = NoRound],
             Gossip(n, r.out, {m \in mine : Len(b) < MaxHeight})
      PROVE  IInv' /\ Grows(n)
  <2>1. b \in Path /\ Len(b) > Len(chain[n])
    BY <1>1, ReadyExtends
  <2>2. {m \in mine : Len(b) < MaxHeight} \in SUBSET inbox[n]
    OBVIOUS
  <2>3. /\ sent' = sent \cup r.out /\ \A p \in Node : inbox'[p] \subseteq inbox[p] \cup r.out
        /\ sent' \subseteq Message /\ inbox' \in [Node -> SUBSET Message]
    BY <1>1, <1>3, <2>2, GossipOK
  <2>4. TypeOK'
    BY <1>1, <1>3, <2>1, <2>3, NoRoundType DEF TypeOK
  <2>5. /\ chain'[n] = b /\ round'[n] = NoRound
        /\ \A p \in Node \ {n} : chain'[p] = chain[p] /\ round'[p] = round[p]
    BY <1>1, <1>3 DEF TypeOK
  <2>6. IInv'
    BY <2>1, <2>3, <2>4, <2>5, StepOK
  <2>7. /\ b \in Block /\ Parent(b) = chain[n]
        /\ IsQuorum(Signers(b, sent'), ActiveSet(chain[n]))
    BY <1>1, <2>3, ReadyHasQuorum
  <2> QED BY <2>3, <2>5, <2>6, <2>7 DEF Grows
<1> QED BY <1>2, <1>3 DEF Settle

(* A handler that passes on anything but votes. *)
LEMMA RelayOK ==
    ASSUME IInv, NEW n \in Node, alive[n], NEW r, AtWork(n, r), r.out = {},
           NEW out \in SUBSET Message, \A m \in out : m.type # "vote",
           NEW mine \in SUBSET inbox[n], Gossip(n, out, mine),
           round' = [round EXCEPT ![n] = r], chain' = chain, alive' = alive,
           early' \in [Node -> SUBSET Block], pool' \in [Node -> SUBSET Op],
           slashed' \in [Node -> SUBSET Node]
    PROVE  IInv' /\ Grows(n)
<1> DEFINE q == [r EXCEPT !.out = out]
<1>1. r \in Round /\ TypeOK
  BY DEF AtWork, RoundOK, IInv
<1>2. /\ q \in Round /\ q.height = r.height /\ q.view = r.view /\ q.voted = r.voted
      /\ q.votes = r.votes /\ q.out = out /\ [q EXCEPT !.out = {}] = r
  BY <1>1 DEF Round
<1> HIDE DEF q
<1>3. AtWork(n, q)
  BY <1>2, SameVotesOK
<1>4. sent' = sent \cup q.out /\ \A p \in Node : inbox'[p] \subseteq inbox[p] \cup q.out
  <2>1. sent' = sent \cup out /\ \A p \in Node : inbox'[p] \subseteq inbox[p] \cup out
    BY <1>1, GossipOK
  <2> QED BY <2>1, <1>2
<1>5. TypeOK'
  BY <1>1, GossipOK DEF TypeOK
<1>6. round'[n] = [q EXCEPT !.out = {}] /\ \A p \in Node \ {n} : round'[p] = round[p]
  BY <1>1, <1>2 DEF TypeOK
<1>7. IInv'
  BY <1>3, <1>4, <1>5, <1>6, StepOK
<1> QED BY <1>4, <1>7 DEF Grows

(* A handler that publishes nothing and leaves the round alone. *)
LEMMA QuietOK ==
    ASSUME IInv, TypeOK', sent' = sent, chain' = chain, round' = round, alive' = alive,
           \A p \in Node : inbox'[p] \subseteq inbox[p]
    PROVE  IInv'
BY DEF IInv, RoundOK, SignedOnce, SignedUpTo, OwnVotes

LEMMA TipType == ASSUME NEW b \in Block PROVE Tip(b) \in Header /\ Tip(b).view \in Nat /\ Tip(b).proposer \in Node
<1> DEFINE H == Header
<1>1. b \in Seq(H) /\ Len(b) \in 1..Len(b)
  <2>1. b \in Path /\ b # <<>>
    BY DEF Block
  <2> QED BY <2>1 DEF Path
<1> HIDE DEF H
<1>2. b[Len(b)] \in H
  BY <1>1
<1>3. Tip(b) \in Header
  BY <1>2 DEF Tip, H
<1> QED BY <1>3 DEF Header

-----------------------------------------------------------------------------
(* The actions. *)

LEMMA EnterRoundOK == ASSUME IInv, NEW n \in Node, EnterRound(n) PROVE IInv' /\ Grows(n)
<1> DEFINE h == Len(chain[n]) + 1
           ops == {Membership(op) : op \in OwnOps(n, h)}
           r == NewRound(h, ops)
           injected == {b \in early[n] : Len(b) = h /\ ValidProposal(n, b)}
           base(b) == IF b = NoBlock THEN r ELSE [AdoptView(r, Tip(b).view) EXCEPT !.blocks = {b}]
<1>1. /\ TypeOK /\ alive[n] /\ alive' = alive /\ slashed' = slashed
      /\ RoundOK(n, round[n]) /\ round[n].height = 0 /\ round[n].out = {}
      /\ Len(chain[n]) \in Nat /\ h \in Nat
  BY DEF EnterRound, IInv, TypeOK, Path
<1>2. ops \subseteq Message /\ \A m \in ops : m.type # "vote"
  BY DEF OwnOps, Membership, Message, Op
<1>3. /\ r \in Round /\ r.height = h /\ r.votes = {} /\ r.out = ops
  BY <1>1, <1>2, NewRoundType DEF NewRound
<1>4. AtWork(n, r)
  <2>1. ASSUME n \notin DoubleVoters
        PROVE  SignedOnce(n, sent \cup ops) /\ SignedUpTo(n, sent \cup ops, r)
    <3>1. OwnVotes(n, sent \cup ops) = OwnVotes(n, sent)
      BY <1>2 DEF OwnVotes
    <3>2. SignedOnce(n, sent) /\ SignedUpTo(n, sent, round[n])
      <4>1. sent \cup round[n].out = sent
        BY <1>1
      <4> QED BY <1>1, <2>1, <4>1 DEF RoundOK
    <3>3. SignedUpTo(n, sent \cup ops, r)
      BY <1>1, <3>1, <3>2 DEF SignedUpTo
    <3> QED BY <3>1, <3>2, <3>3 DEF SignedOnce
  <2> QED BY <1>2, <1>3, <2>1 DEF AtWork, RoundOK
<1> HIDE DEF ops, r
<1>5. PICK b \in IF injected = {} THEN {NoBlock} ELSE injected :
         Settle(n, CastVote(n, base(b), b), {m \in inbox[n] : Useful(n, m)})
  <2>1. PICK b \in IF injected = {} THEN {NoBlock} ELSE injected :
           \E stored \in {base(b)} : \E voted \in {CastVote(n, stored, b)} :
              Settle(n, voted, {m \in inbox[n] : Useful(n, m)})
    BY DEF EnterRound, r, ops
  <2> QED BY <2>1
<1>6. b \in Path /\ (b # NoBlock => b \in Block)
  BY <1>1, NoBlockIsPath DEF TypeOK, Block
<1>7. AtWork(n, base(b))
  <2>1. CASE b = NoBlock
    BY <1>4, <2>1
  <2>2. CASE b # NoBlock
    <3> DEFINE s == AdoptView(r, Tip(b).view)
               q == [s EXCEPT !.blocks = {b}]
    <3>1. AtWork(n, s) /\ b \in Block
      BY <1>1, <1>4, <1>6, <2>2, TipType, AdoptViewOK
    <3> HIDE DEF s
    <3>2. s \in Round
      BY <3>1 DEF AtWork, RoundOK
    <3>3. /\ q \in Round /\ q.height = s.height /\ q.view = s.view /\ q.voted = s.voted
          /\ q.votes = s.votes /\ q.out = s.out
      BY <3>1, <3>2 DEF Round
    <3> HIDE DEF q
    <3>4. AtWork(n, q)
      BY <3>1, <3>3, SameVotesOK
    <3> QED BY <2>2, <3>4 DEF q, s
  <2> QED BY <2>1, <2>2
<1> HIDE DEF base
<1>8. AtWork(n, CastVote(n, base(b), b))
  BY <1>1, <1>6, <1>7, CastVoteOK
<1>9. early' \in [Node -> SUBSET Block] /\ pool' \in [Node -> SUBSET Op]
  BY <1>1 DEF EnterRound, TypeOK
<1>10. {m \in inbox[n] : Useful(n, m)} \in SUBSET inbox[n]
  OBVIOUS
<1> QED BY <1>1, <1>5, <1>8, <1>9, <1>10, SettleOK DEF TypeOK

LEMMA TickOK == ASSUME IInv, NEW n \in Node, NEW expired \in BOOLEAN, Tick(n, expired) PROVE IInv' /\ Grows(n)
<1>1. TypeOK /\ alive[n] /\ AtWork(n, round[n])
  BY InRoundAtWork DEF Tick, IInv
<1>2. PICK a \in IF expired THEN Announce(n, round[n]) ELSE {round[n]} :
      \E b \in Votable(n, Propose(n, a)) :
         Settle(n, CastVote(n, Propose(n, a), b), inbox[n])
  BY DEF Tick
<1>3. AtWork(n, Propose(n, a))
  BY <1>1, <1>2, AnnounceOK, ProposeOK
<1>4. PICK b \in Votable(n, Propose(n, a)) : Settle(n, CastVote(n, Propose(n, a), b), inbox[n])
  BY <1>2
<1>5. b \in Path
  BY <1>3, NoBlockIsPath DEF Votable, AtWork, RoundOK, Round, Block
<1>6. AtWork(n, CastVote(n, Propose(n, a), b))
  BY <1>1, <1>3, <1>5, CastVoteOK
<1>7. UNCHANGED <<early, pool, slashed, alive>>
  BY DEF Tick
<1> QED BY <1>1, <1>4, <1>6, <1>7, SettleOK DEF TypeOK

LEMMA AcceptProposalOK ==
    ASSUME IInv, NEW n \in Node, InRound(n), NEW m \in inbox[n], AcceptProposal(n, m)
    PROVE  IInv' /\ Grows(n)
<1> DEFINE b == m.block
           stored == [round[n] EXCEPT !.seen = @ \cup {b}, !.blocks = @ \cup {b}]
           moved == AdoptView(stored, Tip(b).view)
<1>1. TypeOK /\ alive[n] /\ AtWork(n, round[n]) /\ round[n] \in Round
  BY InRoundAtWork DEF IInv, TypeOK
<1>2. b \in Block /\ b \in Path
  <2>1. m \in Message /\ m.type = "proposal"
    BY <1>1 DEF AcceptProposal, TypeOK
  <2> QED BY <2>1 DEF Message, VoteMsg, ViewChangeMsg, Block
<1>3. PICK voted \in {moved} \cup {CastVote(n, moved, x) : x \in {y \in {b} : Tip(y).view = moved.view}} :
         Settle(n, voted, Rest(n, m))
  <2>1. \E s \in {stored} : \E v \in {AdoptView(s, Tip(b).view)} :
        \E voted \in {v} \cup {CastVote(n, v, x) : x \in {y \in {b} : Tip(y).view = v.view}} :
           Settle(n, voted, Rest(n, m))
    BY DEF AcceptProposal
  <2> QED BY <2>1
<1> HIDE DEF b
<1>4. AtWork(n, stored)
  <2>1. /\ stored \in Round /\ stored.height = round[n].height /\ stored.view = round[n].view
        /\ stored.voted = round[n].voted /\ stored.votes = round[n].votes
        /\ stored.out = round[n].out
    BY <1>1, <1>2 DEF Round
  <2> HIDE DEF stored
  <2> QED BY <1>1, <2>1, SameVotesOK
<1> HIDE DEF stored
<1>5. AtWork(n, moved)
  BY <1>1, <1>2, <1>4, TipType, AdoptViewOK
<1> HIDE DEF moved
<1>6. AtWork(n, voted)
  <2>1. voted = moved \/ voted = CastVote(n, moved, b)
    BY <1>3
  <2> QED BY <1>1, <1>2, <1>5, <2>1, CastVoteOK
<1>7. Rest(n, m) \in SUBSET inbox[n] /\ UNCHANGED <<early, pool, slashed, alive>>
  BY DEF Rest, AcceptProposal
<1> QED BY <1>1, <1>3, <1>6, <1>7, SettleOK DEF TypeOK

LEMMA CountVoteOK ==
    ASSUME IInv, NEW n \in Node, InRound(n), NEW m \in inbox[n], CountVote(n, m)
    PROVE  IInv' /\ Grows(n)
<1> DEFINE q == [round[n] EXCEPT !.votes = @ \cup {m}]
<1>1. TypeOK /\ alive[n] /\ AtWork(n, round[n]) /\ round[n] \in Round
  BY InRoundAtWork DEF IInv, TypeOK
<1>2. m \in sent /\ m \in VoteMsg /\ m.height = round[n].height
  <2>1. m \in sent /\ m \in Message /\ m.type = "vote" /\ m.height = round[n].height
    BY <1>1 DEF IInv, TypeOK, CountVote, VoteCounts
  <2> QED BY <2>1, VotesAreVotes
<1>3. /\ q \in Round /\ q.height = round[n].height /\ q.view = round[n].view
      /\ q.voted = round[n].voted /\ q.votes = round[n].votes \cup {m} /\ q.out = round[n].out
  BY <1>1, <1>2 DEF Round
<1>4. Settle(n, q, Rest(n, m))
  BY DEF CountVote
<1> HIDE DEF q
<1>5. AtWork(n, q)
  BY <1>1, <1>2, <1>3 DEF AtWork, RoundOK, SignedUpTo
<1>6. Rest(n, m) \in SUBSET inbox[n] /\ UNCHANGED <<early, pool, slashed, alive>>
  BY DEF Rest, CountVote
<1> QED BY <1>1, <1>4, <1>5, <1>6, SettleOK DEF TypeOK

LEMMA SlashType ==
    ASSUME NEW n \in Node, NEW h \in Nat
    PROVE  Slash(n, h) \in Message /\ Slash(n, h).type = "slash"
BY DEF Slash, Message

(* Evidence that a node found itself is published, and only slashed and inbox change. *)
LEMMA CatchOK ==
    ASSUME IInv, NEW n \in Node, InRound(n), NEW m, NEW x \in Node, NEW h \in Nat,
           slashed' = [slashed EXCEPT ![n] = @ \cup {x}],
           Gossip(n, {Slash(x, h)}, Rest(n, m)),
           UNCHANGED <<chain, round, early, pool, alive>>
    PROVE  IInv' /\ Grows(n)
<1>1. TypeOK /\ alive[n] /\ AtWork(n, round[n]) /\ round[n].out = {}
  BY InRoundAtWork DEF IInv
<1>2. {Slash(x, h)} \in SUBSET Message /\ \A s \in {Slash(x, h)} : s.type # "vote"
  <2>1. Slash(x, h) \in Message /\ Slash(x, h).type = "slash"
    BY SlashType
  <2> QED BY <2>1
<1>3. round' = [round EXCEPT ![n] = round[n]] /\ slashed' \in [Node -> SUBSET Node]
  BY <1>1 DEF TypeOK
<1>4. Rest(n, m) \in SUBSET inbox[n]
  BY DEF Rest
<1> QED BY <1>1, <1>2, <1>3, <1>4, RelayOK DEF TypeOK

LEMMA CatchEquivocationOK ==
    ASSUME IInv, NEW n \in Node, InRound(n), NEW m \in inbox[n], CatchEquivocation(n, m)
    PROVE  IInv' /\ Grows(n)
<1>1. m \in Message /\ m.type = "proposal" /\ round[n].height \in Nat
  BY DEF IInv, TypeOK, CatchEquivocation, Round
<1>2. m.block \in Block
  BY <1>1 DEF Message, VoteMsg, ViewChangeMsg
<1> QED BY <1>1, <1>2, TipType, CatchOK DEF CatchEquivocation

LEMMA CatchDoubleVoteOK ==
    ASSUME IInv, NEW n \in Node, InRound(n), NEW m \in inbox[n], CatchDoubleVote(n, m)
    PROVE  IInv' /\ Grows(n)
<1>1. m \in Message /\ m.type = "vote"
  BY DEF IInv, TypeOK, CatchDoubleVote, VoteCounts
<1>2. m.voter \in Node /\ m.height \in Nat
  BY <1>1, VotesAreVotes DEF VoteMsg
<1> QED BY <1>2, CatchOK DEF CatchDoubleVote

LEMMA OnViewChangeOK ==
    ASSUME IInv, NEW n \in Node, InRound(n), NEW m \in inbox[n], OnViewChange(n, m)
    PROVE  IInv' /\ Grows(n)
<1> DEFINE recorded == [round[n] EXCEPT !.vcVotes = @ \cup {m}]
<1>1. TypeOK /\ alive[n] /\ AtWork(n, round[n]) /\ round[n] \in Round /\ round[n].out = {}
  BY InRoundAtWork DEF IInv, TypeOK
<1>2. m \in Message /\ m.type = "viewchange"
  BY <1>1 DEF TypeOK, OnViewChange, ViewChangeCounts
<1>3. m \in ViewChangeMsg
  BY <1>2 DEF Message, VoteMsg, ViewChangeMsg
<1>4. PICK advanced \in MaybeAdvanceView(n, recorded) : round' = [round EXCEPT ![n] = advanced]
  <2>1. \E r \in {recorded} : \E advanced \in MaybeAdvanceView(n, r) :
           round' = [round EXCEPT ![n] = advanced]
    BY DEF OnViewChange
  <2> QED BY <2>1
<1>5. AtWork(n, recorded) /\ recorded.out = {} /\ recorded \in Round
  <2>1. /\ recorded \in Round /\ recorded.height = round[n].height /\ recorded.view = round[n].view
        /\ recorded.voted = round[n].voted /\ recorded.votes = round[n].votes
        /\ recorded.out = round[n].out
    BY <1>1, <1>3 DEF Round
  <2> HIDE DEF recorded
  <2> QED BY <1>1, <2>1, SameVotesOK
<1> HIDE DEF recorded
<1>6. AtWork(n, advanced)
  BY <1>1, <1>4, <1>5, MaybeAdvanceViewOK
<1>7. advanced.out = {}
  BY <1>4, <1>5 DEF MaybeAdvanceView, AdoptView, Round
<1>8. /\ {m} \ round[n].vcVotes \in SUBSET Message
      /\ \A x \in {m} \ round[n].vcVotes : x.type # "vote"
      /\ Rest(n, m) \in SUBSET inbox[n]
  BY <1>2 DEF Rest
<1>9. Gossip(n, {m} \ round[n].vcVotes, Rest(n, m)) /\ UNCHANGED <<chain, early, pool, slashed, alive>>
  BY DEF OnViewChange
<1> QED BY <1>1, <1>4, <1>6, <1>7, <1>8, <1>9, RelayOK DEF TypeOK

LEMMA OnMembershipOK ==
    ASSUME IInv, NEW n \in Node, InRound(n), NEW m \in inbox[n], OnMembership(n, m)
    PROVE  IInv' /\ Grows(n)
<1>1. TypeOK /\ alive[n] /\ AtWork(n, round[n]) /\ round[n].out = {}
  BY InRoundAtWork DEF IInv
<1>2. m \in Message /\ m.type = "membership"
  BY <1>1 DEF TypeOK, OnMembership, MembershipCounts
<1>3. m.op \in Op
  BY <1>2 DEF Message, VoteMsg, ViewChangeMsg
<1>4. round' = [round EXCEPT ![n] = round[n]] /\ pool' \in [Node -> SUBSET Op]
  BY <1>1, <1>3 DEF TypeOK, OnMembership
<1>5. {m} \in SUBSET Message /\ Rest(n, m) \in SUBSET inbox[n]
  BY <1>2 DEF Rest
<1>6. Gossip(n, {m}, Rest(n, m)) /\ UNCHANGED <<chain, early, slashed, alive>>
  BY DEF OnMembership
<1> QED BY <1>1, <1>2, <1>4, <1>5, <1>6, RelayOK DEF TypeOK

(* A message read with no answer and no change of the round. *)
LEMMA ConsumeOK ==
    ASSUME IInv, NEW n \in Node, NEW m, inbox' = [inbox EXCEPT ![n] = Rest(n, m)],
           UNCHANGED <<chain, round, pool, alive, sent>>,
           early' \in [Node -> SUBSET Block], slashed' \in [Node -> SUBSET Node]
    PROVE  IInv' /\ Grows(n)
<1>1. /\ inbox' \in [Node -> SUBSET Message] /\ \A p \in Node : inbox'[p] \subseteq inbox[p]
  BY DEF IInv, TypeOK, Rest
<1>2. TypeOK'
  BY <1>1 DEF IInv, TypeOK
<1> QED BY <1>1, <1>2, QuietOK DEF Grows

LEMMA ReceiveOK == ASSUME IInv, NEW n \in Node, Receive(n) PROVE IInv' /\ Grows(n)
<1>1. PICK m \in inbox[n] :
         \/ BufferProposal(n, m) \/ AcceptProposal(n, m) \/ CatchEquivocation(n, m)
         \/ CountVote(n, m) \/ CatchDoubleVote(n, m)
         \/ OnViewChange(n, m) \/ OnMembership(n, m) \/ OnSlash(n, m)
         \/ Ignore(n, m)
  BY DEF Receive
<1>2. InRound(n) /\ TypeOK /\ m \in Message
  BY DEF Receive, IInv, TypeOK
<1>3. CASE BufferProposal(n, m)
  <2>1. m.block \in Block
    BY <1>2, <1>3 DEF BufferProposal, Message, VoteMsg, ViewChangeMsg
  <2>2. early' \in [Node -> SUBSET Block]
    BY <1>2, <1>3, <2>1 DEF BufferProposal, TypeOK
  <2> QED BY <1>2, <1>3, <2>2, ConsumeOK DEF BufferProposal, TypeOK
<1>4. CASE OnSlash(n, m)
  <2>1. m.offender \in Node
    BY <1>2, <1>4 DEF OnSlash, SlashCounts, Message, VoteMsg, ViewChangeMsg
  <2>2. slashed' \in [Node -> SUBSET Node]
    BY <1>2, <1>4, <2>1 DEF OnSlash, TypeOK
  <2> QED BY <1>2, <1>4, <2>2, ConsumeOK DEF OnSlash, TypeOK
<1>5. CASE Ignore(n, m)
  BY <1>2, <1>5, ConsumeOK DEF Ignore, TypeOK
<1> QED BY <1>1, <1>2, <1>3, <1>4, <1>5, AcceptProposalOK, CatchEquivocationOK, CountVoteOK,
           CatchDoubleVoteOK, OnViewChangeOK, OnMembershipOK

LEMMA AdoptOK == ASSUME IInv, NEW n \in Node, NEW p \in Node, Adopt(n, p) PROVE IInv' /\ Grows(n)
<1>1. TypeOK /\ alive[n] /\ AtWork(n, round[n]) /\ round[n].out = {}
  BY InRoundAtWork DEF Adopt, IInv
<1>2. PICK k \in Len(chain[n]) + 1..Len(chain[p]) :
         /\ chain' = [chain EXCEPT ![n] = SubSeq(chain[p], 1, k)]
         /\ inbox' = [inbox EXCEPT ![n] = {m \in @ : k < MaxHeight}]
  BY DEF Adopt
<1>3. SubSeq(chain[p], 1, k) \in Path /\ Len(SubSeq(chain[p], 1, k)) = k /\ k > Len(chain[n])
  <2>1. chain[p] \in Path /\ chain[n] \in Path /\ Len(chain[n]) \in Nat /\ Len(chain[p]) \in Nat
    BY <1>1 DEF TypeOK, Path
  <2> QED BY <1>2, <2>1, PrefixIsPath
<1>4. UNCHANGED <<early, pool, slashed, alive, sent>> /\ round' = [round EXCEPT ![n] = NoRound]
  BY DEF Adopt
<1>5. \A q \in Node : inbox'[q] \subseteq inbox[q] \cup round[n].out
  BY <1>1, <1>2 DEF TypeOK
<1>6. TypeOK'
  BY <1>1, <1>2, <1>3, <1>4, NoRoundType DEF TypeOK
<1>7. /\ chain'[n] = SubSeq(chain[p], 1, k) /\ round'[n] = NoRound
      /\ \A q \in Node \ {n} : chain'[q] = chain[q] /\ round'[q] = round[q]
  BY <1>1, <1>2, <1>4 DEF TypeOK
<1>8. IInv'
  BY <1>1, <1>3, <1>4, <1>5, <1>6, <1>7, StepOK
<1>9. SubSeq(chain[p], 1, Len(chain[n])) = chain[n]
  BY DEF Adopt
<1> QED BY <1>2, <1>4, <1>7, <1>8, <1>9 DEF Grows

LEMMA CrashOK == ASSUME IInv, NEW n \in Node, Crash(n) PROVE IInv' /\ Grows(n)
<1>1. TypeOK /\ TypeOK'
  BY NoRoundType DEF IInv, TypeOK, Crash
<1>2. /\ UNCHANGED <<chain, slashed, sent>>
      /\ round'[n] = NoRound /\ ~alive'[n] /\ inbox'[n] = {}
      /\ \A p \in Node \ {n} : round'[p] = round[p] /\ alive'[p] = alive[p] /\ inbox'[p] = inbox[p]
  BY <1>1 DEF Crash, TypeOK
<1>3. \A p \in Node : alive'[p] => RoundOK(p, round[p])'
  BY <1>2 DEF IInv, RoundOK, SignedOnce, SignedUpTo, OwnVotes
<1>4. \A p \in Node : round'[p].out = {} /\ round'[p].height \in {0, Len(chain'[p]) + 1}
  BY <1>2, NoRoundType DEF IInv
<1>5. IInv'
  BY <1>1, <1>2, <1>3, <1>4 DEF IInv, SignedOnce, OwnVotes
<1> QED BY <1>2, <1>5 DEF Grows

-----------------------------------------------------------------------------
LEMMA IInvInit == Init => IInv
<1> SUFFICES ASSUME Init PROVE IInv
  OBVIOUS
<1>1. <<>> \in Path
  BY NoBlockIsPath DEF NoBlock
<1>2. TypeOK
  BY <1>1, NoRoundType DEF Init, TypeOK
<1>3. \A n \in Node : round[n] = NoRound /\ inbox[n] = {}
  BY DEF Init
<1>4. sent = {} /\ \A n \in Node : OwnVotes(n, sent) = {} /\ OwnVotes(n, sent \cup round[n].out) = {}
  BY <1>3, NoRoundType DEF Init, OwnVotes
<1> QED BY <1>2, <1>3, <1>4, NoRoundType DEF IInv, RoundOK, SignedOnce, SignedUpTo

(* Every action keeps the invariant, and lets at most one chain grow. *)
LEMMA TurnOK == ASSUME IInv, NEW n \in Node, Turn(n) \/ LateCopy(n) \/ Crash(n) PROVE IInv' /\ Grows(n)
BY EnterRoundOK, TickOK, ReceiveOK, AdoptOK, CrashOK DEF Turn, LateCopy

LEMMA IInvStep == IInv /\ [Next]_vars => IInv'
<1> SUFFICES ASSUME IInv, [Next]_vars PROVE IInv'
  OBVIOUS
<1>1. CASE Next
  BY <1>1, TurnOK DEF Next
<1>2. CASE UNCHANGED vars
  <2>1. TypeOK'
    BY <1>2 DEF IInv, TypeOK, vars
  <2> QED BY <1>2, <2>1, QuietOK DEF vars
<1> QED BY <1>1, <1>2

LEMMA IInvVotesOnce == IInv => OneVotePerSlot
<1> SUFFICES ASSUME IInv, NEW x \in Ballots, NEW y \in Ballots,
                    x.voter = y.voter, x.height = y.height, x.view = y.view,
                    x.voter \notin DoubleVoters
             PROVE  x.block = y.block
  BY DEF OneVotePerSlot, Slots!OneVotePerSlot
<1>1. x \in VoteMsg /\ x \in sent /\ y \in sent /\ x.type = "vote" /\ y.type = "vote"
  BY VotesAreVotes DEF Ballots, IInv, TypeOK
<1>2. x.voter \in Node \ DoubleVoters
  BY <1>1 DEF VoteMsg
<1> QED BY <1>1, <1>2 DEF IInv, SignedOnce, OwnVotes

(***************************************************************************)
(* Every variable keeps its type, for any validators, faults and bounds:   *)
(* no handler stores or publishes anything malformed.                      *)
(***************************************************************************)
THEOREM TypeCorrect == Spec => []TypeOK
<1>1. IInv => TypeOK
  BY DEF IInv
<1> QED BY <1>1, IInvInit, IInvStep, PTL DEF Spec

(***************************************************************************)
(* A validator that does not double-vote signs at most one block id for a  *)
(* height and view, in every schedule: cast_vote and the places that clear *)
(* Round::voted never let it contradict itself.                            *)
(***************************************************************************)
THEOREM VotesOnce == Spec => []OneVotePerSlot
<1> QED BY IInvVotesOnce, IInvInit, IInvStep, PTL DEF Spec

-----------------------------------------------------------------------------
(* Refinement: the definitions of ChainPath and BftQuorum mean the same on both sides of the mapping. *)

LEMMA SameElectorate == \A b : Slots!Electorate(b) = ActiveSet(Parent(b))
BY DEF Slots!Electorate, Slots!ActiveSet, ActiveSet, Slots!IsActive, IsActive,
       Slots!OpHeights, OpHeights, Slots!Parent, Parent

LEMMA SameBlocks == Slots!Block = Block
BY DEF Slots!Block, Block, Slots!Path, Path, Slots!Header, Header, Slots!Op, Op

LEMMA SameQuorum == \A P, S : Slots!IsQuorum(P, S) <=> IsQuorum(P, S)
BY DEF Slots!IsQuorum, IsQuorum, Slots!Quorum, Quorum, Slots!Cardinality, Cardinality

-----------------------------------------------------------------------------
(* The chain of a node is a prefix of what it becomes. *)
LEMMA ChainsGrow ==
    ASSUME IInv, TypeOK', NEW n \in Node, Grows(n), NEW p \in Node
    PROVE  /\ Len(chain[p]) \in Nat /\ Len(chain'[p]) \in Nat /\ Len(chain[p]) <= Len(chain'[p])
           /\ \A i \in 1..Len(chain[p]) : SubSeq(chain'[p], 1, i) = SubSeq(chain[p], 1, i)
<1>1. /\ chain[p] \in Path /\ chain'[p] \in Path
      /\ Len(chain[p]) \in Nat /\ Len(chain'[p]) \in Nat
  BY DEF IInv, TypeOK, Path
<1>2. CASE chain'[p] = chain[p]
  BY <1>1, <1>2
<1>3. CASE p = n /\ chain'[n] \in Block /\ Parent(chain'[n]) = chain[n]
  <2>1. Len(chain'[n]) - 1 = Len(chain[n]) /\ Len(chain[n]) \in 0..Len(chain'[n])
    BY <1>1, <1>3, ParentIsPath
  <2>2. chain[n] = SubSeq(chain'[n], 1, Len(chain[n]))
    BY <1>3, <2>1 DEF Parent
  <2>3. \A i \in 1..Len(chain[n]) : SubSeq(chain'[n], 1, i) = SubSeq(SubSeq(chain'[n], 1, Len(chain[n])), 1, i)
    BY <1>1, <1>3, <2>1, PrefixOfPrefix
  <2> QED BY <1>1, <1>3, <2>1, <2>2, <2>3
<1>4. ASSUME p = n, NEW q \in Node, NEW k \in Len(chain[n]) + 1..Len(chain[q]),
             chain'[n] = SubSeq(chain[q], 1, k), SubSeq(chain[q], 1, Len(chain[n])) = chain[n]
      PROVE  /\ Len(chain[n]) <= Len(chain'[n])
             /\ \A i \in 1..Len(chain[n]) : SubSeq(chain'[n], 1, i) = SubSeq(chain[n], 1, i)
  <2>1. chain[q] \in Path /\ Len(chain[q]) \in Nat
    BY DEF IInv, TypeOK, Path
  <2>2. k \in 0..Len(chain[q]) /\ Len(chain[n]) \in 0..Len(chain[q]) /\ Len(chain[n]) < k
    BY <1>1, <1>4, <2>1
  <2>3. Len(chain'[n]) = k
    BY <1>4, <2>1, <2>2, PrefixIsPath
  <2>4. ASSUME NEW i \in 1..Len(chain[n]) PROVE SubSeq(chain'[n], 1, i) = SubSeq(chain[n], 1, i)
    <3>1. i \in 0..k /\ i \in 0..Len(chain[n])
      BY <1>1, <1>4, <2>2
    <3>2. SubSeq(SubSeq(chain[q], 1, k), 1, i) = SubSeq(chain[q], 1, i)
      BY <2>1, <2>2, <3>1, PrefixOfPrefix
    <3>3. SubSeq(SubSeq(chain[q], 1, Len(chain[n])), 1, i) = SubSeq(chain[q], 1, i)
      BY <2>1, <2>2, <3>1, PrefixOfPrefix
    <3> QED BY <1>4, <3>2, <3>3
  <2> QED BY <1>1, <1>4, <2>2, <2>3, <2>4
<1> QED BY <1>1, <1>2, <1>3, <1>4 DEF Grows

(* A block that becomes final was appended by its quorum: adopted blocks were final before. *)
LEMMA NewlyFinal ==
    ASSUME IInv, TypeOK', NEW n \in Node, Grows(n), NEW b \in Finalized', b \notin Finalized
    PROVE  /\ b \in Block /\ IsQuorum(Signers(b, sent'), ActiveSet(Parent(b)))
           /\ b = chain'[n] /\ chain'[n] # chain[n]
<1>1. PICK p \in Node : \E i \in 1..Len(chain'[p]) : b = SubSeq(chain'[p], 1, i)
  BY DEF Finalized
<1>2. PICK i \in 1..Len(chain'[p]) : b = SubSeq(chain'[p], 1, i)
  BY <1>1
<1>3. \A q \in Node : \A j \in 1..Len(chain[q]) : SubSeq(chain[q], 1, j) \in Finalized
  BY DEF Finalized
<1>4. /\ Len(chain[p]) \in Nat /\ Len(chain'[p]) \in Nat
      /\ \A j \in 1..Len(chain[p]) : SubSeq(chain'[p], 1, j) = SubSeq(chain[p], 1, j)
  BY ChainsGrow
<1>5. i \notin 1..Len(chain[p])
  BY <1>2, <1>3, <1>4
<1>6. p = n /\ chain'[n] # chain[n]
  BY <1>2, <1>5 DEF Grows
<1>7. CASE /\ chain'[n] \in Block /\ Parent(chain'[n]) = chain[n]
           /\ IsQuorum(Signers(chain'[n], sent'), ActiveSet(chain[n]))
  <2>1. Len(chain[n]) = Len(chain'[n]) - 1
    BY <1>7, ParentIsPath
  <2>2. i = Len(chain'[n]) /\ chain'[n] \in Path
    BY <1>2, <1>4, <1>5, <1>6, <1>7, <2>1 DEF Block
  <2>3. b = chain'[n]
    BY <1>2, <1>6, <2>2, WholePrefix
  <2> QED BY <1>6, <1>7, <2>3
<1>8. ASSUME NEW q \in Node, NEW k \in Len(chain[n]) + 1..Len(chain[q]), chain'[n] = SubSeq(chain[q], 1, k)
      PROVE  FALSE
  <2>1. chain[q] \in Path /\ Len(chain[q]) \in Nat
    BY DEF IInv, TypeOK, Path
  <2>2. k \in 0..Len(chain[q]) /\ Len(chain'[n]) = k
    BY <1>4, <1>6, <1>8, <2>1, PrefixIsPath
  <2>3. i \in 0..k /\ i \in 1..Len(chain[q])
    BY <1>2, <1>6, <2>1, <2>2
  <2>4. b = SubSeq(chain[q], 1, i)
    BY <1>2, <1>6, <1>8, <2>1, <2>2, <2>3, PrefixOfPrefix
  <2> QED BY <1>3, <2>3, <2>4
<1> QED BY <1>6, <1>7, <1>8 DEF Grows

-----------------------------------------------------------------------------
LEMMA RefinesInit == Init => Slots!Init
<1> SUFFICES ASSUME Init PROVE Slots!Init
  OBVIOUS
<1>1. \A n \in Node : 1..Len(chain[n]) = {}
  BY DEF Init
<1> QED BY <1>1 DEF Init, Slots!Init, Ballots, Finalized

LEMMA RefinesStep == IInv /\ IInv' /\ [Next]_vars => [Slots!Next]_<<Ballots, Finalized>>
<1> SUFFICES ASSUME IInv, IInv', [Next]_vars PROVE Slots!Next \/ UNCHANGED <<Ballots, Finalized>>
  OBVIOUS
<1>1. CASE UNCHANGED vars
  BY <1>1 DEF vars, Ballots, Finalized
<1>2. CASE Next
  <2>1. PICK n \in Node : Grows(n)
    BY <1>2, TurnOK DEF Next
  <2>2. TypeOK'
    BY DEF IInv
  <2>3. Ballots \subseteq Ballots'
    BY <2>1 DEF Grows, Ballots
  <2>4. Slots!OneVotePerSlot'
    <3>1. IInv' => OneVotePerSlot'
      BY IInvVotesOnce, PTL
    <3> QED BY <3>1 DEF OneVotePerSlot
  <2>5. Finalized \subseteq Finalized'
    <3> SUFFICES ASSUME NEW p \in Node, NEW i \in 1..Len(chain[p])
                 PROVE  SubSeq(chain[p], 1, i) \in Finalized'
      BY DEF Finalized
    <3>1. i \in 1..Len(chain'[p]) /\ SubSeq(chain'[p], 1, i) = SubSeq(chain[p], 1, i)
      BY <2>1, <2>2, ChainsGrow
    <3> QED BY <3>1 DEF Finalized
  <2>6. ASSUME NEW b \in Finalized' \ Finalized
        PROVE  b \in Slots!Block /\ Slots!IsQuorum(Slots!Voters(b)', Slots!Electorate(b))
    <3>1. b \in Block /\ IsQuorum(Signers(b, sent'), ActiveSet(Parent(b)))
      BY <2>1, <2>2, <2>6, NewlyFinal
    <3>2. Slots!Voters(b)' = Signers(b, sent')
      BY DEF Slots!Voters, Signers, Ballots, Slots!Tip, Tip
    <3> QED BY <3>1, <3>2, SameBlocks, SameQuorum, SameElectorate
  <2> QED BY <2>3, <2>4, <2>5, <2>6 DEF Slots!Next
<1> QED BY <1>1, <1>2

(***************************************************************************)
(* The validator loop implements the abstract voting: what any handler     *)
(* does to the votes and the chains is a step of SlotVoting or none.       *)
(***************************************************************************)
THEOREM Refinement == Spec => ImplementsSlotVoting
<1> QED BY RefinesInit, RefinesStep, IInvInit, IInvStep, PTL DEF Spec, ImplementsSlotVoting, Slots!Spec

(* The abstract voting: what is final still has its quorum, and nobody outside Faulty signed twice. *)
SlotInv ==
    /\ Slots!OneVotePerSlot
    /\ \A b \in Finalized : b \in Block /\ IsQuorum(Slots!Voters(b), ActiveSet(Parent(b)))

LEMMA SlotInvInit == Slots!Init => SlotInv
BY DEF Slots!Init, SlotInv, Slots!OneVotePerSlot

LEMMA SlotInvStep == SlotInv /\ [Slots!Next]_<<Ballots, Finalized>> => SlotInv'
<1> SUFFICES ASSUME SlotInv, [Slots!Next]_<<Ballots, Finalized>> PROVE SlotInv'
  OBVIOUS
<1>1. CASE Slots!Next
  <2>1. Slots!OneVotePerSlot'
    BY <1>1 DEF Slots!Next
  <2>2. ASSUME NEW b \in Finalized' PROVE b \in Block /\ IsQuorum(Slots!Voters(b)', ActiveSet(Parent(b)))
    <3>1. CASE b \notin Finalized
      BY <1>1, <2>2, <3>1, SameBlocks, SameQuorum, SameElectorate DEF Slots!Next
    <3>2. CASE b \in Finalized
      <4>1. Slots!Voters(b) \subseteq Slots!Voters(b)'
        BY <1>1 DEF Slots!Next, Slots!Voters
      <4> QED BY <3>2, <4>1, QuorumMonotone, ActiveSetFinite DEF SlotInv
    <3> QED BY <3>1, <3>2
  <2> QED BY <2>1, <2>2 DEF SlotInv
<1>2. CASE UNCHANGED <<Ballots, Finalized>>
  BY <1>2 DEF SlotInv, Slots!OneVotePerSlot, Slots!Voters
<1> QED BY <1>1, <1>2

(* Any voter of both blocks of a slot that is not faulty makes them equal. *)
LEMMA SlotInvAgrees == SlotInv => SlotAgreement
<1> SUFFICES ASSUME SlotInv, NEW b \in Finalized, NEW c \in Finalized,
                    Parent(b) = Parent(c), Tip(b).view = Tip(c).view,
                    3 * Cardinality(DoubleVoters \cap ActiveSet(Parent(b))) < Cardinality(ActiveSet(Parent(b)))
             PROVE  b = c
  BY SameElectorate DEF SlotAgreement, Slots!SlotAgreement, Slots!Parent, Parent, Slots!Tip, Tip,
                        Slots!Cardinality, Cardinality
<1> DEFINE S == ActiveSet(Parent(b))
<1>1. Len(b) = Len(c)
  BY SiblingsSameHeight DEF SlotInv
<1>2. IsQuorum(Slots!Voters(b), S) /\ IsQuorum(Slots!Voters(c), S)
  BY DEF SlotInv
<1>3. PICK v \in S : v \in Slots!Voters(b) /\ v \in Slots!Voters(c) /\ v \notin DoubleVoters
  <2> HIDE DEF S
  <2>1. 3 * Cardinality(DoubleVoters \cap S) < Cardinality(S) /\ IsFiniteSet(S)
    BY ActiveSetFinite DEF S
  <2> QED BY <1>2, <2>1, QuorumsOverlap
<1>4. PICK x \in Ballots : x.voter = v /\ x.block = b /\ x.height = Len(b) /\ x.view = Tip(b).view
  BY <1>3 DEF Slots!Voters, Slots!Tip, Tip
<1>5. PICK y \in Ballots : y.voter = v /\ y.block = c /\ y.height = Len(c) /\ y.view = Tip(c).view
  BY <1>3 DEF Slots!Voters, Slots!Tip, Tip
<1> QED BY <1>1, <1>3, <1>4, <1>5 DEF SlotInv, Slots!OneVotePerSlot

(***************************************************************************)
(* Whatever implements the abstract voting has one final block per parent  *)
(* and view while fewer than a third of its validators are faulty.         *)
(***************************************************************************)
THEOREM SlotAgreementHolds == ImplementsSlotVoting => []SlotAgreement
<1> QED BY SlotInvInit, SlotInvStep, SlotInvAgrees, PTL DEF ImplementsSlotVoting, Slots!Spec

(***************************************************************************)
(* In any schedule, at most one block per parent and view is finalized     *)
(* anywhere while fewer than a third of its validators double-vote.        *)
(***************************************************************************)
THEOREM OneBlockPerSlot == Spec => []SlotAgreement
<1> QED BY Refinement, SlotAgreementHolds, PTL

-----------------------------------------------------------------------------
(* Evidence. *)


(* Who asked for view v of height h, among the messages ms. *)
Askers(h, v, ms) ==
    {m.signer : m \in {x \in ms : x.type = "viewchange" /\ x.height = h /\ x.view = v}}

(* What a proposal shows of its proposer: a validator of the height, in a view that a quorum asked for. *)
Sound(b, ms) ==
    /\ Tip(b).proposer \in ActiveSet(Parent(b))
    /\ Tip(b).view > 0 => IsQuorum(Askers(Len(b), Tip(b).view, ms), ActiveSet(Parent(b)))

(* x signed two blocks, or two votes, for one height and view. *)
Guilty(x, ms) ==
    \/ \E p, q \in {m \in ms : m.type = "proposal"} :
          /\ p # q /\ Len(p.block) = Len(q.block) /\ Tip(p.block).view = Tip(q.block).view
          /\ Tip(p.block).proposer = x /\ Tip(q.block).proposer = x
    \/ \E v, w \in {m \in ms : m.type = "vote"} :
          v # w /\ v.voter = x /\ w.voter = x /\ v.height = w.height /\ v.view = w.view

(* What a message may claim, given the messages ms. *)
Honoured(m, ms) ==
    /\ m.type = "proposal" => Sound(m.block, ms)
    /\ m.type = "slash" => Guilty(m.offender, ms)

(* Everything the round r of n rests on was published, by somebody else or in r.out. *)
RoundBacked(n, r) ==
    /\ \A b \in r.blocks : Proposal(b) \in sent \cup r.out
    /\ \A b \in r.seen : Proposal(b) \in sent \cup r.out /\ Len(b) = r.height
    /\ \A m \in r.vcVotes : m \in sent \cup r.out /\ m.height = r.height
    /\ r.view > 0 => IsQuorum(Askers(r.height, r.view, sent \cup r.out), Members(n))
    /\ \A m \in r.out : Honoured(m, sent \cup r.out)

(***************************************************************************)
(* Nothing is believed on hearsay.  A node jumps to the view of a proposal *)
(* without having counted the view changes, and slashes on a message that  *)
(* only names the offender: that is sound because every proposal and every *)
(* piece of evidence ever published was, so that the invariant speaks of   *)
(* all messages and of what the nodes keep of them.                        *)
(***************************************************************************)
Evidence ==
    /\ \A n \in Node : RoundBacked(n, round[n])
    /\ \A m \in sent : Honoured(m, sent)
    /\ \A n \in Node : \A b \in early[n] : Proposal(b) \in sent
    /\ \A n \in Node : \A x \in slashed[n] : Guilty(x, sent)
    /\ \A b \in Finalized : Proposal(b) \in sent /\ ValidBlock(b)

-----------------------------------------------------------------------------
(* More messages never make a proof of anything void. *)

(* More askers are a quorum where fewer were. *)
LEMMA QuorumOfMore ==
    ASSUME NEW h, NEW v, NEW ms, NEW more, ms \subseteq more, NEW path,
           IsQuorum(Askers(h, v, ms), ActiveSet(path))
    PROVE  IsQuorum(Askers(h, v, more), ActiveSet(path))
<1>1. Askers(h, v, ms) \subseteq Askers(h, v, more)
  BY DEF Askers
<1> QED BY <1>1, QuorumMonotone, ActiveSetFinite

(* A quorum of askers stays one when votes, views and messages are added. *)
LEMMA HonouredByMore ==
    ASSUME NEW m, NEW ms, NEW more, ms \subseteq more, Honoured(m, ms)
    PROVE  Honoured(m, more)
<1>1. ASSUME m.type = "proposal" PROVE Sound(m.block, more)
  BY <1>1, QuorumOfMore DEF Honoured, Sound
<1>2. ASSUME m.type = "slash" PROVE Guilty(m.offender, more)
  BY <1>2 DEF Honoured, Guilty
<1> QED BY <1>1, <1>2 DEF Honoured

(* Who was guilty stays guilty: what was published stays published. *)
LEMMA GuiltStays ==
    ASSUME NEW x, NEW ms, NEW more, ms \subseteq more, Guilty(x, ms)
    PROVE  Guilty(x, more)
BY DEF Guilty

(* A certificate is one for ever. *)
LEMMA CertificateStays ==
    ASSUME NEW b, Certified(b), sent \subseteq sent'
    PROVE  Certified(b)'
<1>1. VotersFor(b, sent) \subseteq VotersFor(b, sent')
  BY DEF VotersFor
<1> QED BY <1>1, QuorumMonotone, ActiveSetFinite DEF Certified

-----------------------------------------------------------------------------
(* What the helpers of the loop preserve. *)

(* A round may take in what was published, and publish what is sound. *)
LEMMA StillBacked ==
    ASSUME NEW n, NEW r, RoundBacked(n, r), NEW q, q.height = r.height, r.out \subseteq q.out,
           \A b \in q.blocks \ r.blocks : Proposal(b) \in sent \cup q.out,
           \A b \in q.seen \ r.seen : Proposal(b) \in sent \cup q.out /\ Len(b) = q.height,
           \A m \in q.vcVotes \ r.vcVotes : m \in sent \cup q.out /\ m.height = q.height,
           \/ q.view = r.view
           \/ q.view > 0 => IsQuorum(Askers(q.height, q.view, sent \cup q.out), Members(n)),
           \A m \in q.out \ r.out : Honoured(m, sent \cup q.out)
    PROVE  RoundBacked(n, q)
<1>1. sent \cup r.out \subseteq sent \cup q.out
  OBVIOUS
<1>2. q.view > 0 => IsQuorum(Askers(q.height, q.view, sent \cup q.out), Members(n))
  <2>1. CASE q.view = r.view
    BY <1>1, <2>1, QuorumOfMore DEF RoundBacked, Members
  <2> QED BY <2>1
<1>3. \A m \in q.out : Honoured(m, sent \cup q.out)
  BY <1>1, HonouredByMore DEF RoundBacked
<1> QED BY <1>1, <1>2, <1>3 DEF RoundBacked

(* A node votes once for a block of the view it is in. *)
LEMMA CastVoteBacked ==
    ASSUME NEW n, NEW r \in Round, RoundBacked(n, r), NEW b
    PROVE  RoundBacked(n, CastVote(n, r, b))
<1> DEFINE mine == Vote(n, r.height, r.view, b)
           two == {Vote(n, r.height, r.view, NoBlock) : x \in {n} \cap DoubleVoters}
           q == [r EXCEPT !.voted = b, !.votes = @ \cup {mine}, !.out = @ \cup {mine} \cup two]
<1>1. CastVote(n, r, b) \in {r, q}
  BY DEF CastVote
<1>2. /\ q.height = r.height /\ q.view = r.view /\ q.blocks = r.blocks /\ q.seen = r.seen
      /\ q.vcVotes = r.vcVotes /\ q.out = r.out \cup {mine} \cup two
  BY DEF Round
<1>3. \A m \in {mine} \cup two : m.type = "vote"
  BY DEF Vote
<1> HIDE DEF mine, two, q
<1>4. \A m \in q.out \ r.out : Honoured(m, sent \cup q.out)
  BY <1>2, <1>3 DEF Honoured
<1>5. RoundBacked(n, q)
  BY <1>2, <1>4, StillBacked
<1> QED BY <1>1, <1>5

(* Its round keeps its type. *)
LEMMA CastVoteType ==
    ASSUME NEW n \in Node, NEW r \in Round, NEW b \in Path
    PROVE  CastVote(n, r, b) \in Round
<1> DEFINE mine == Vote(n, r.height, r.view, b)
           two == {Vote(n, r.height, r.view, NoBlock) : x \in {n} \cap DoubleVoters}
           q == [r EXCEPT !.voted = b, !.votes = @ \cup {mine}, !.out = @ \cup {mine} \cup two]
<1>1. CastVote(n, r, b) \in {r, q}
  BY DEF CastVote
<1>2. mine \in VoteMsg /\ mine \in Message /\ two \subseteq Message
  BY VoteType, NoBlockIsPath DEF Round
<1> HIDE DEF mine, two
<1>3. q \in Round
  BY <1>2 DEF Round
<1> QED BY <1>1, <1>3

(* A node takes a view that a quorum has asked for. *)
LEMMA AdoptViewBacked ==
    ASSUME NEW n, NEW r \in Round, RoundBacked(n, r), NEW v,
           v > 0 => IsQuorum(Askers(r.height, v, sent \cup r.out), Members(n))
    PROVE  RoundBacked(n, AdoptView(r, v))
<1> DEFINE q == [r EXCEPT !.view = v, !.voted = NoBlock]
<1>1. AdoptView(r, v) \in {r, q}
  BY DEF AdoptView
<1>2. /\ q.height = r.height /\ q.view = v /\ q.blocks = r.blocks /\ q.seen = r.seen
      /\ q.vcVotes = r.vcVotes /\ q.out = r.out
  BY DEF Round
<1> HIDE DEF q
<1>3. RoundBacked(n, q)
  BY <1>2, StillBacked
<1> QED BY <1>1, <1>3

(* The view changes a node counted are a quorum of what was sent. *)
LEMMA AdvanceBacked ==
    ASSUME NEW n, NEW r \in Round, RoundBacked(n, r), NEW q \in MaybeAdvanceView(n, r)
    PROVE  RoundBacked(n, q)
<1>1. q = r \/ \E v : /\ q = AdoptView(r, v)
                      /\ IsQuorum({m.signer : m \in {x \in r.vcVotes : x.view = v}}, Members(n))
  BY DEF MaybeAdvanceView
<1>2. ASSUME NEW v, q = AdoptView(r, v),
             IsQuorum({m.signer : m \in {x \in r.vcVotes : x.view = v}}, Members(n))
      PROVE  RoundBacked(n, q)
  <2>1. \A m \in r.vcVotes : m.type = "viewchange"
    BY DEF Round, ViewChangeMsg
  <2>2. {m.signer : m \in {x \in r.vcVotes : x.view = v}} \subseteq Askers(r.height, v, sent \cup r.out)
    BY <2>1 DEF Askers, RoundBacked
  <2>3. IsQuorum(Askers(r.height, v, sent \cup r.out), Members(n))
    BY <1>2, <2>2, QuorumMonotone, ActiveSetFinite DEF Members
  <2> QED BY <1>2, <2>3, AdoptViewBacked
<1> QED BY <1>1, <1>2

(* It asks for a view in its own name. *)
LEMMA AnnounceBacked ==
    ASSUME NEW n \in Node, NEW r \in Round, RoundBacked(n, r), NEW q \in Announce(n, r)
    PROVE  RoundBacked(n, q)
<1> DEFINE vc == ViewChange(n, r.height, r.view + 1)
           s == [r EXCEPT !.vcVotes = @ \cup {m \in {vc} : n \in Members(n)}, !.out = @ \cup {vc}]
<1>1. q = r \/ q \in MaybeAdvanceView(n, s)
  BY DEF Announce
<1>2. r.height \in Nat /\ r.view + 1 \in Nat
  BY DEF Round
<1>3. vc \in ViewChangeMsg /\ vc \in Message /\ vc.type = "viewchange" /\ vc.height = r.height
  BY <1>2, ViewChangeType DEF ViewChange
<1> HIDE DEF vc
<1>4. s \in Round
  BY <1>3 DEF Round
<1>5. /\ s.height = r.height /\ s.view = r.view /\ s.blocks = r.blocks /\ s.seen = r.seen
      /\ s.vcVotes \subseteq r.vcVotes \cup {vc} /\ s.out = r.out \cup {vc}
  BY DEF Round
<1> HIDE DEF s
<1>6. \A m \in s.out \ r.out : Honoured(m, sent \cup s.out)
  BY <1>3, <1>5 DEF Honoured
<1>7. RoundBacked(n, s)
  BY <1>3, <1>5, <1>6, StillBacked
<1> QED BY <1>1, <1>4, <1>7, AdvanceBacked

(* A block appended to a path has it as its parent, and its header as its tip. *)
LEMMA AppendParts ==
    ASSUME NEW p \in Path, NEW hd \in Header
    PROVE  /\ Parent(Append(p, hd)) = p /\ Tip(Append(p, hd)) = hd
           /\ Len(Append(p, hd)) = Len(p) + 1
<1> DEFINE H == Header  a == Append(p, hd)
<1>1. p \in Seq(H) /\ hd \in H
  BY DEF Path
<1> HIDE DEF H
<1>2. a \in Seq(H) /\ Len(a) = Len(p) + 1 /\ Len(p) \in Nat /\ a[Len(a)] = hd
  BY <1>1
<1>3. \A i \in 1..Len(p) : a[i] = p[i]
  BY <1>1
<1>4. SubSeq(a, 1, Len(p)) \in Seq(H) /\ Len(SubSeq(a, 1, Len(p))) = Len(p)
  BY <1>1, <1>2
<1>5. \A i \in 1..Len(p) : SubSeq(a, 1, Len(p))[i] = p[i]
  BY <1>1, <1>2, <1>3
<1>6. SubSeq(a, 1, Len(p)) = p
  BY <1>1, <1>4, <1>5, SeqEqual
<1> QED BY <1>2, <1>6 DEF Parent, Tip

(* Whom the beacon elects is a member. *)
LEMMA ElectedIsMember == ASSUME NEW n, NEW v PROVE ElectedLeader(n, v) \subseteq Members(n)
BY DEF ElectedLeader, LeaderByBeacon

(* A leader proposes in the view it is in, which a quorum asked for. *)
LEMMA ProposeBacked ==
    ASSUME TypeOK, NEW n \in Node, NEW r \in Round, r.height = Len(chain[n]) + 1, RoundBacked(n, r)
    PROVE  RoundBacked(n, Propose(n, r))
<1> DEFINE a == AssembleBlock(n, r, FALSE)
           b == AssembleBlock(n, r, TRUE)
           once == [r EXCEPT !.proposed = @ \cup {r.view}]
           both == [once EXCEPT !.out = @ \cup {Proposal(a), Proposal(b)}]
           own == [once EXCEPT !.blocks = @ \cup {a}, !.out = @ \cup {Proposal(a)}]
<1>1. \/ Propose(n, r) = r
      \/ n \in ElectedLeader(n, r.view) /\ Propose(n, r) \in {both, CastVote(n, own, a)}
  BY DEF Propose
<1>2. ASSUME NEW alt \in BOOLEAN
      PROVE  LET c == AssembleBlock(n, r, alt)
             IN  /\ c \in Block /\ Parent(c) = chain[n] /\ Len(c) = r.height
                 /\ Tip(c).view = r.view /\ Tip(c).proposer = n
  <2> DEFINE ops == {op \in pool[n] : ~alt /\ Changes(op, Members(n))}
             hd == [view |-> r.view, proposer |-> n, alt |-> alt, ops |-> ops]
  <2>1. ops \in SUBSET Op /\ r.view \in Nat
    BY DEF TypeOK, Round
  <2> HIDE DEF ops
  <2>2. hd \in Header /\ hd.view = r.view /\ hd.proposer = n
    BY <2>1 DEF Header
  <2>3. AssembleBlock(n, r, alt) = Append(chain[n], hd)
    BY DEF AssembleBlock, ops
  <2> HIDE DEF hd
  <2> QED BY <2>2, <2>3, AppendParts, AppendIsBlock DEF TypeOK
<1>3. a \in Block /\ b \in Block
  BY <1>2
<1>4. ASSUME n \in ElectedLeader(n, r.view), NEW out, r.out \subseteq out
      PROVE  Honoured(Proposal(a), sent \cup out) /\ Honoured(Proposal(b), sent \cup out)
  <2>1. n \in Members(n)
    BY <1>4, ElectedIsMember
  <2>2. ASSUME r.view > 0 PROVE IsQuorum(Askers(r.height, r.view, sent \cup out), Members(n))
    BY <1>4, <2>2, QuorumOfMore DEF RoundBacked, Members
  <2>3. Sound(a, sent \cup out) /\ Sound(b, sent \cup out)
    BY <1>2, <2>1, <2>2 DEF Sound, Members
  <2> QED BY <2>3 DEF Honoured, Proposal
<1> HIDE DEF a, b
<1>5. both \in Round /\ own \in Round
  <2>1. Proposal(a) \in Message /\ Proposal(b) \in Message
    BY <1>3 DEF Proposal, Message
  <2> QED BY <1>3, <2>1 DEF Round
<1>6. /\ both.height = r.height /\ both.view = r.view /\ both.blocks = r.blocks
      /\ both.seen = r.seen /\ both.vcVotes = r.vcVotes
      /\ both.out = r.out \cup {Proposal(a), Proposal(b)}
      /\ own.height = r.height /\ own.view = r.view /\ own.blocks = r.blocks \cup {a}
      /\ own.seen = r.seen /\ own.vcVotes = r.vcVotes /\ own.out = r.out \cup {Proposal(a)}
  BY DEF Round
<1> HIDE DEF both, own, once
<1>7. CASE n \in ElectedLeader(n, r.view)
  <2>1. RoundBacked(n, both)
    <3>1. \A m \in both.out \ r.out : Honoured(m, sent \cup both.out)
      BY <1>4, <1>6, <1>7
    <3> QED BY <1>6, <3>1, StillBacked
  <2>2. RoundBacked(n, own)
    <3>1. \A m \in own.out \ r.out : Honoured(m, sent \cup own.out)
      BY <1>4, <1>6, <1>7
    <3>2. Proposal(a) \in own.out
      BY <1>6
    <3> QED BY <1>6, <3>1, <3>2, StillBacked
  <2> QED BY <1>1, <1>5, <2>1, <2>2, CastVoteBacked
<1> QED BY <1>1, <1>7

-----------------------------------------------------------------------------
(***************************************************************************)
(* Every turn is of this shape: n publishes r.out and keeps the round r,   *)
(* or leaves it, and what it extends its chain with was published or is    *)
(* final already.                                                          *)
(***************************************************************************)
LEMMA EvidenceStep ==
    ASSUME IInv, TypeOK', Evidence, NEW n \in Node, Grows(n), NEW r \in Round, RoundBacked(n, r),
           sent' = sent \cup r.out,
           \A p \in Node \ {n} : round'[p] = round[p],
           \/ chain'[n] = chain[n] /\ round'[n] = [r EXCEPT !.out = {}]
           \/ round'[n] = NoRound,
           \/ chain'[n] = chain[n] \/ chain'[n] \in Finalized \/ Proposal(chain'[n]) \in sent',
           \A p \in Node : \A b \in early'[p] : Proposal(b) \in sent',
           \A p \in Node : \A x \in slashed'[p] : Guilty(x, sent')
    PROVE  Evidence'
<1>1. sent \subseteq sent' /\ r.out \subseteq sent'
  OBVIOUS
<1>2. \A m \in sent' : Honoured(m, sent')
  BY <1>1, HonouredByMore DEF Evidence, RoundBacked
<1>3. RoundBacked(n, round[n])'
  <2>1. CASE chain'[n] = chain[n] /\ round'[n] = [r EXCEPT !.out = {}]
    <3>1. /\ round'[n].height = r.height /\ round'[n].view = r.view /\ round'[n].blocks = r.blocks
          /\ round'[n].seen = r.seen /\ round'[n].vcVotes = r.vcVotes /\ round'[n].out = {}
      BY <2>1 DEF Round
    <3>2. sent' \cup round'[n].out = sent \cup r.out
      BY <3>1
    <3>3. Members(n)' = Members(n)
      BY <2>1 DEF Members
    <3> QED BY <3>1, <3>2, <3>3 DEF RoundBacked
  <2>2. CASE round'[n] = NoRound
    BY <2>2 DEF RoundBacked, NoRound, NewRound
  <2> QED BY <2>1, <2>2
<1>4. ASSUME NEW p \in Node \ {n} PROVE RoundBacked(p, round[p])'
  <2>1. RoundBacked(p, round[p]) /\ round'[p] = round[p] /\ Members(p)' = Members(p)
    BY DEF Evidence, Grows, Members
  <2>2. round[p].out = {}
    BY DEF IInv
  <2>3. round[p].view > 0 => IsQuorum(Askers(round[p].height, round[p].view, sent'), Members(p))
    <3>1. round[p].view > 0 => IsQuorum(Askers(round[p].height, round[p].view, sent), Members(p))
      <4>1. sent \cup round[p].out = sent
        BY <2>2
      <4> QED BY <2>1, <4>1 DEF RoundBacked
    <3> QED BY <1>1, <3>1, QuorumOfMore DEF Members
  <2>4. sent' \cup round'[p].out = sent'
    BY <2>1, <2>2
  <2> QED BY <1>1, <2>1, <2>2, <2>3, <2>4 DEF RoundBacked
<1>5. ASSUME NEW b \in Finalized' PROVE Proposal(b) \in sent' /\ ValidBlock(b)'
  <2>1. CASE b \in Finalized
    BY <1>1, <2>1, CertificateStays DEF Evidence, ValidBlock
  <2>2. CASE b \notin Finalized
    <3>1. /\ IsQuorum(Signers(b, sent'), ActiveSet(Parent(b)))
          /\ b = chain'[n] /\ chain'[n] # chain[n]
      BY <2>2, NewlyFinal
    <3>2. Proposal(b) \in sent'
      BY <2>2, <3>1
    <3>3. Tip(b).proposer \in ActiveSet(Parent(b))
      BY <1>2, <3>2 DEF Honoured, Sound, Proposal
    <3>4. Certified(b)'
      <4>1. Signers(b, sent') \subseteq VotersFor(b, sent')
        BY DEF Signers, VotersFor
      <4> QED BY <3>1, <4>1, QuorumMonotone, ActiveSetFinite DEF Certified
    <3> QED BY <3>2, <3>3, <3>4 DEF ValidBlock
  <2> QED BY <2>1, <2>2
<1> QED BY <1>2, <1>3, <1>4, <1>5 DEF Evidence

(* A block is appended with a quorum of votes for it. *)
LEMMA SettleBacked ==
    ASSUME IInv, TypeOK', Evidence, NEW n \in Node, Grows(n), NEW r \in Round, RoundBacked(n, r),
           NEW mine, Settle(n, r, mine), slashed' = slashed,
           \A p \in Node : early'[p] \subseteq early[p]
    PROVE  Evidence'
<1>1. TypeOK
  BY DEF IInv
<1>2. sent' = sent \cup r.out
  BY DEF Settle, Gossip
<1>3. \A p \in Node \ {n} : round'[p] = round[p]
  BY <1>1 DEF Settle, TypeOK
<1>4. /\ \A p \in Node : \A b \in early'[p] : Proposal(b) \in sent'
      /\ \A p \in Node : \A x \in slashed'[p] : Guilty(x, sent')
  BY <1>2, GuiltStays DEF Evidence
<1>5. CASE round' = [round EXCEPT ![n] = [r EXCEPT !.out = {}]] /\ UNCHANGED chain
  <2>1. round'[n] = [r EXCEPT !.out = {}] /\ chain'[n] = chain[n]
    BY <1>1, <1>5 DEF TypeOK
  <2> QED BY <1>2, <1>3, <1>4, <2>1, EvidenceStep
<1>6. CASE \E b \in Ready(n, r) :
              chain' = [chain EXCEPT ![n] = b] /\ round' = [round EXCEPT ![n] = NoRound]
  <2>1. round'[n] = NoRound /\ chain'[n] \in r.blocks
    BY <1>1, <1>6 DEF TypeOK, Ready
  <2>2. Proposal(chain'[n]) \in sent'
    BY <1>2, <2>1 DEF RoundBacked
  <2> QED BY <1>2, <1>3, <1>4, <2>1, <2>2, EvidenceStep
<1> QED BY <1>5, <1>6 DEF Settle

(* A handler that keeps the chain, and publishes what the messages so far show. *)
LEMMA RelayBacked ==
    ASSUME IInv, TypeOK', Evidence, NEW n \in Node, Grows(n), NEW r \in Round, r.out = {}, RoundBacked(n, r),
           NEW out \in SUBSET Message, \A m \in out : Honoured(m, sent \cup out),
           sent' = sent \cup out, round' = [round EXCEPT ![n] = r], chain' = chain, early' = early,
           \A p \in Node : \A x \in slashed'[p] : Guilty(x, sent)
    PROVE  Evidence'
<1> DEFINE q == [r EXCEPT !.out = out]
<1>1. /\ q \in Round /\ q.height = r.height /\ q.view = r.view /\ q.blocks = r.blocks
      /\ q.seen = r.seen /\ q.vcVotes = r.vcVotes /\ q.out = out /\ [q EXCEPT !.out = {}] = r
  BY DEF Round
<1> HIDE DEF q
<1>2. RoundBacked(n, q)
  BY <1>1, StillBacked
<1>3. round'[n] = r /\ \A p \in Node \ {n} : round'[p] = round[p]
  BY DEF IInv, TypeOK
<1>4. /\ \A p \in Node : \A b \in early'[p] : Proposal(b) \in sent'
      /\ \A p \in Node : \A x \in slashed'[p] : Guilty(x, sent')
  BY GuiltStays DEF Evidence
<1> QED BY <1>1, <1>2, <1>3, <1>4, EvidenceStep

(* A handler that publishes nothing and leaves the round alone. *)
LEMMA QuietBacked ==
    ASSUME Evidence, sent' = sent, chain' = chain, round' = round,
           \A p \in Node : \A b \in early'[p] : Proposal(b) \in sent,
           \A p \in Node : \A x \in slashed'[p] : Guilty(x, sent)
    PROVE  Evidence'
<1>1. Finalized' = Finalized
  BY DEF Finalized
<1>2. \A n \in Node : RoundBacked(n, round[n])'
  BY DEF Evidence, RoundBacked, Members
<1> QED BY <1>1, <1>2 DEF Evidence, ValidBlock, Certified

-----------------------------------------------------------------------------
(* The actions. *)

(* A proposal is a block of the leader on the head it has. *)
LEMMA ProposalIs ==
    ASSUME NEW m \in Message, m.type = "proposal"
    PROVE  m = Proposal(m.block) /\ m.block \in Block
BY DEF Message, VoteMsg, ViewChangeMsg, Proposal

(* The view of a proposal that fits the chain of n was asked for by a quorum of its validators. *)
LEMMA ProposalBacksView ==
    ASSUME Evidence, NEW n \in Node, NEW b \in Block, Proposal(b) \in sent, Extends(b, chain[n]),
           NEW r, r.height = Len(b)
    PROVE  Tip(b).view > 0 => IsQuorum(Askers(r.height, Tip(b).view, sent \cup r.out), Members(n))
<1>1. Sound(b, sent) /\ Parent(b) = chain[n]
  BY DEF Evidence, Honoured, Proposal, Extends
<1>2. sent \subseteq sent \cup r.out
  OBVIOUS
<1> QED BY <1>1, <1>2, QuorumOfMore DEF Sound, Members

(* A round begins with nothing counted. *)
LEMMA EnterRoundBacked ==
    ASSUME IInv, Evidence, NEW n \in Node, EnterRound(n)
    PROVE  Evidence'
<1> DEFINE h == Len(chain[n]) + 1
           ops == {Membership(op) : op \in OwnOps(n, h)}
           r == NewRound(h, ops)
           injected == {b \in early[n] : Len(b) = h /\ ValidProposal(n, b)}
           base(b) == IF b = NoBlock THEN r ELSE [AdoptView(r, Tip(b).view) EXCEPT !.blocks = {b}]
<1>1. /\ TypeOK /\ TypeOK' /\ Grows(n) /\ slashed' = slashed /\ h \in Nat
      /\ \A p \in Node : early'[p] \subseteq early[p]
  <2>1. TypeOK /\ IInv' /\ Grows(n)
    BY EnterRoundOK DEF IInv
  <2> QED BY <2>1 DEF EnterRound, IInv, TypeOK, Path
<1>2. ops \subseteq Message /\ \A m \in ops : m.type = "membership"
  BY DEF OwnOps, Membership, Message, Op
<1>3. /\ r \in Round /\ r.height = h /\ r.view = 0 /\ r.out = ops
      /\ r.blocks = {} /\ r.seen = {} /\ r.vcVotes = {}
  BY <1>1, <1>2, NewRoundType DEF NewRound
<1>4. RoundBacked(n, r)
  BY <1>2, <1>3 DEF RoundBacked, Honoured
<1> HIDE DEF ops, r
<1>5. PICK b \in IF injected = {} THEN {NoBlock} ELSE injected :
         Settle(n, CastVote(n, base(b), b), {m \in inbox[n] : Useful(n, m)})
  <2>1. PICK b \in IF injected = {} THEN {NoBlock} ELSE injected :
           \E stored \in {base(b)} : \E voted \in {CastVote(n, stored, b)} :
              Settle(n, voted, {m \in inbox[n] : Useful(n, m)})
    BY DEF EnterRound, r, ops
  <2> QED BY <2>1
<1>6. base(b) \in Round /\ RoundBacked(n, base(b)) /\ b \in Path
  <2>1. CASE b = NoBlock
    BY <1>3, <1>4, <2>1, NoBlockIsPath
  <2>2. CASE b # NoBlock
    <3> DEFINE v == Tip(b).view
               s == AdoptView(r, v)
               q == [s EXCEPT !.blocks = {b}]
    <3>1. b \in early[n] /\ Len(b) = h /\ Extends(b, chain[n]) /\ b \in Block
      BY <1>1, <1>5, <2>2 DEF ValidProposal, TypeOK
    <3>2. Proposal(b) \in sent /\ v \in Nat
      BY <3>1, TipType DEF Evidence
    <3>3. v > 0 => IsQuorum(Askers(r.height, v, sent \cup r.out), Members(n))
      BY <1>3, <3>1, <3>2, ProposalBacksView
    <3>4. RoundBacked(n, s)
      BY <1>3, <1>4, <3>3, AdoptViewBacked
    <3>5. s \in Round
      BY <1>3, <3>2, NoBlockIsPath DEF AdoptView, Round
    <3> HIDE DEF s
    <3>6. /\ q \in Round /\ q.height = s.height /\ q.view = s.view /\ q.blocks = {b}
          /\ q.seen = s.seen /\ q.vcVotes = s.vcVotes /\ q.out = s.out
      BY <3>1, <3>5 DEF Round
    <3> HIDE DEF q
    <3>7. RoundBacked(n, q)
      BY <3>2, <3>4, <3>6, StillBacked
    <3> QED BY <2>2, <3>1, <3>6, <3>7 DEF q, s, Block
  <2> QED BY <2>1, <2>2
<1> HIDE DEF base
<1>7. CastVote(n, base(b), b) \in Round /\ RoundBacked(n, CastVote(n, base(b), b))
  BY <1>6, CastVoteBacked, CastVoteType
<1> QED BY <1>1, <1>5, <1>7, SettleBacked

(* A timer asks for the next view. *)
LEMMA TickBacked ==
    ASSUME IInv, Evidence, NEW n \in Node, NEW expired \in BOOLEAN, Tick(n, expired)
    PROVE  Evidence'
<1>1. TypeOK /\ AtWork(n, round[n]) /\ RoundBacked(n, round[n])
  BY InRoundAtWork DEF Tick, IInv, Evidence
<1>2. TypeOK' /\ Grows(n) /\ slashed' = slashed /\ early' = early
  <2>1. IInv' /\ Grows(n)
    BY TickOK
  <2> QED BY <2>1 DEF IInv, Tick
<1>3. PICK a \in IF expired THEN Announce(n, round[n]) ELSE {round[n]} :
      \E b \in Votable(n, Propose(n, a)) :
         Settle(n, CastVote(n, Propose(n, a), b), inbox[n])
  BY DEF Tick
<1>4. AtWork(n, a) /\ RoundBacked(n, a)
  <2>1. round[n] \in Round
    BY <1>1 DEF TypeOK
  <2>2. CASE expired
    BY <1>1, <1>3, <2>1, <2>2, AnnounceOK, AnnounceBacked
  <2>3. CASE ~expired
    BY <1>1, <1>3, <2>3
  <2> QED BY <2>2, <2>3
<1>5. AtWork(n, Propose(n, a)) /\ RoundBacked(n, Propose(n, a))
  BY <1>1, <1>4, ProposeOK, ProposeBacked DEF AtWork, RoundOK
<1>6. PICK b \in Votable(n, Propose(n, a)) : Settle(n, CastVote(n, Propose(n, a), b), inbox[n])
  BY <1>3
<1>7. b \in Path
  BY <1>5, NoBlockIsPath DEF Votable, AtWork, RoundOK, Round, Block
<1>8. CastVote(n, Propose(n, a), b) \in Round /\ RoundBacked(n, CastVote(n, Propose(n, a), b))
  BY <1>5, <1>7, CastVoteBacked, CastVoteType DEF AtWork, RoundOK
<1> QED BY <1>2, <1>6, <1>8, SettleBacked

(* A proposal from the elected leader moves a node to its view. *)
LEMMA AcceptProposalBacked ==
    ASSUME IInv, Evidence, NEW n \in Node, InRound(n), NEW m \in inbox[n], AcceptProposal(n, m)
    PROVE  Evidence'
<1> DEFINE b == m.block
           stored == [round[n] EXCEPT !.seen = @ \cup {b}, !.blocks = @ \cup {b}]
           moved == AdoptView(stored, Tip(b).view)
<1>1. /\ TypeOK /\ round[n] \in Round /\ round[n].height = Len(chain[n]) + 1
      /\ RoundBacked(n, round[n])
  BY InRoundAtWork DEF IInv, TypeOK, AtWork, Evidence
<1>2. TypeOK' /\ Grows(n) /\ slashed' = slashed /\ early' = early
  <2>1. IInv' /\ Grows(n)
    BY AcceptProposalOK
  <2> QED BY <2>1 DEF IInv, AcceptProposal
<1>3. /\ b \in Block /\ b \in Path /\ Proposal(b) \in sent /\ Tip(b).view \in Nat
      /\ Extends(b, chain[n]) /\ Len(b) = round[n].height
  <2>1. m \in Message /\ m.type = "proposal" /\ m \in sent /\ ValidProposal(n, b)
    BY <1>1 DEF AcceptProposal, TypeOK, IInv
  <2>2. b \in Block /\ Proposal(b) \in sent /\ Extends(b, chain[n])
    BY <2>1, ProposalIs DEF ValidProposal
  <2>3. Len(b) = Len(chain[n]) + 1
    BY <2>2, ParentIsPath DEF Extends
  <2> QED BY <1>1, <2>2, <2>3, TipType DEF Block
<1>4. PICK voted \in {moved} \cup {CastVote(n, moved, x) : x \in {y \in {b} : Tip(y).view = moved.view}} :
         Settle(n, voted, Rest(n, m))
  <2>1. \E s \in {stored} : \E v \in {AdoptView(s, Tip(b).view)} :
        \E voted \in {v} \cup {CastVote(n, v, x) : x \in {y \in {b} : Tip(y).view = v.view}} :
           Settle(n, voted, Rest(n, m))
    BY DEF AcceptProposal
  <2> QED BY <2>1
<1> HIDE DEF b
<1>5. stored \in Round /\ stored.height = Len(b) /\ RoundBacked(n, stored)
  <2>1. /\ stored \in Round /\ stored.height = round[n].height /\ stored.view = round[n].view
        /\ stored.blocks = round[n].blocks \cup {b} /\ stored.seen = round[n].seen \cup {b}
        /\ stored.vcVotes = round[n].vcVotes /\ stored.out = round[n].out
    BY <1>1, <1>3 DEF Round
  <2> HIDE DEF stored
  <2>2. RoundBacked(n, stored)
    BY <1>1, <1>3, <2>1, StillBacked
  <2> QED BY <1>3, <2>1, <2>2
<1> HIDE DEF stored
<1>6. moved \in Round /\ RoundBacked(n, moved)
  <2>1. Tip(b).view > 0 => IsQuorum(Askers(stored.height, Tip(b).view, sent \cup stored.out), Members(n))
    BY <1>3, <1>5, ProposalBacksView
  <2>2. moved \in Round
    BY <1>3, <1>5, NoBlockIsPath DEF AdoptView, Round
  <2> QED BY <1>5, <2>1, <2>2, AdoptViewBacked
<1> HIDE DEF moved
<1>7. voted \in Round /\ RoundBacked(n, voted)
  <2>1. voted = moved \/ voted = CastVote(n, moved, b)
    BY <1>4
  <2> QED BY <1>3, <1>6, <2>1, CastVoteBacked, CastVoteType
<1> QED BY <1>2, <1>4, <1>7, SettleBacked

(* A vote that is counted was published. *)
LEMMA CountVoteBacked ==
    ASSUME IInv, Evidence, NEW n \in Node, InRound(n), NEW m \in inbox[n], CountVote(n, m)
    PROVE  Evidence'
<1> DEFINE q == [round[n] EXCEPT !.votes = @ \cup {m}]
<1>1. TypeOK /\ round[n] \in Round /\ RoundBacked(n, round[n])
  BY DEF IInv, TypeOK, Evidence
<1>2. TypeOK' /\ Grows(n) /\ slashed' = slashed /\ early' = early
  <2>1. IInv' /\ Grows(n)
    BY CountVoteOK
  <2> QED BY <2>1 DEF IInv, CountVote
<1>3. m \in VoteMsg
  BY <1>1, VotesAreVotes DEF TypeOK, CountVote, VoteCounts
<1>4. /\ q \in Round /\ q.height = round[n].height /\ q.view = round[n].view
      /\ q.blocks = round[n].blocks /\ q.seen = round[n].seen /\ q.vcVotes = round[n].vcVotes
      /\ q.out = round[n].out
  BY <1>1, <1>3 DEF Round
<1>5. Settle(n, q, Rest(n, m))
  BY DEF CountVote
<1> HIDE DEF q
<1>6. RoundBacked(n, q)
  BY <1>1, <1>4, StillBacked
<1> QED BY <1>2, <1>4, <1>5, <1>6, SettleBacked

(* Evidence that a node found itself shows what it says. *)
LEMMA CatchBacked ==
    ASSUME IInv, TypeOK', Evidence, NEW n \in Node, Grows(n), NEW x \in Node, NEW h \in Nat,
           Guilty(x, sent), NEW m,
           slashed' = [slashed EXCEPT ![n] = @ \cup {x}],
           Gossip(n, {Slash(x, h)}, Rest(n, m)),
           UNCHANGED <<chain, round, early, pool, alive>>
    PROVE  Evidence'
<1>1. TypeOK /\ round[n] \in Round /\ round[n].out = {} /\ RoundBacked(n, round[n])
  BY DEF IInv, TypeOK, Evidence
<1>2. /\ Slash(x, h) \in Message /\ Slash(x, h).type = "slash" /\ Slash(x, h).offender = x
  BY SlashType DEF Slash
<1>3. \A s \in {Slash(x, h)} : Honoured(s, sent \cup {Slash(x, h)})
  BY <1>2, GuiltStays DEF Honoured
<1>4. sent' = sent \cup {Slash(x, h)} /\ round' = [round EXCEPT ![n] = round[n]]
  BY <1>1 DEF Gossip, TypeOK
<1>5. \A p \in Node : \A y \in slashed'[p] : Guilty(y, sent)
  BY <1>1 DEF Evidence, TypeOK
<1>6. {Slash(x, h)} \in SUBSET Message /\ chain' = chain /\ early' = early
  BY <1>2
<1> QED BY <1>1, <1>3, <1>4, <1>5, <1>6, RelayBacked

(* Two proposals of one leader for one view are evidence. *)
LEMMA CatchEquivocationBacked ==
    ASSUME IInv, Evidence, NEW n \in Node, InRound(n), NEW m \in inbox[n], CatchEquivocation(n, m)
    PROVE  Evidence'
<1>1. /\ m \in sent /\ m \in Message /\ m.type = "proposal" /\ round[n].height \in Nat
      /\ round[n].height = Len(chain[n]) + 1 /\ RoundBacked(n, round[n]) /\ round[n].out = {}
  BY InRoundAtWork DEF IInv, TypeOK, CatchEquivocation, Round, Evidence, AtWork
<1>2. m.block \in Block /\ Proposal(m.block) \in sent /\ Tip(m.block).proposer \in Node
  BY <1>1, ProposalIs, TipType
<1>3. Len(m.block) = round[n].height
  BY <1>1, <1>2, ParentIsPath DEF CatchEquivocation, ValidProposal, Extends
<1>4. PICK a \in round[n].seen : SameSlot(a, m.block) /\ a # m.block
  BY DEF CatchEquivocation, Caught
<1>5. Proposal(a) \in sent /\ Len(a) = Len(m.block)
  BY <1>1, <1>3 DEF RoundBacked
<1>6. Guilty(Tip(m.block).proposer, sent)
  <2>1. /\ Proposal(a).type = "proposal" /\ Proposal(m.block).type = "proposal"
        /\ Proposal(a).block = a /\ Proposal(m.block).block = m.block
    BY DEF Proposal
  <2> QED BY <1>2, <1>4, <1>5, <2>1 DEF Guilty, SameSlot
<1>7. TypeOK' /\ Grows(n)
  <2>1. IInv' /\ Grows(n)
    BY CatchEquivocationOK
  <2> QED BY <2>1 DEF IInv
<1> QED BY <1>1, <1>2, <1>6, <1>7, CatchBacked DEF CatchEquivocation

(* So are two votes of one node for one slot. *)
LEMMA CatchDoubleVoteBacked ==
    ASSUME IInv, Evidence, NEW n \in Node, InRound(n), NEW m \in inbox[n], CatchDoubleVote(n, m)
    PROVE  Evidence'
<1>1. /\ m \in sent /\ m \in Message /\ m.type = "vote" /\ m.height = round[n].height
      /\ RoundOK(n, round[n]) /\ round[n].out = {} /\ round[n] \in Round
  BY InRoundAtWork DEF IInv, TypeOK, CatchDoubleVote, VoteCounts, AtWork
<1>2. m.voter \in Node /\ m.height \in Nat
  BY <1>1, VotesAreVotes DEF VoteMsg
<1>3. PICK v \in round[n].votes : v.voter = m.voter /\ v.view = m.view /\ v.block # m.block
  BY DEF CatchDoubleVote, Contradicted
<1>4. v \in sent /\ v.height = m.height /\ v.type = "vote"
  BY <1>1 DEF RoundOK, Round, VoteMsg
<1>5. Guilty(m.voter, sent)
  BY <1>1, <1>3, <1>4 DEF Guilty
<1>6. TypeOK' /\ Grows(n)
  <2>1. IInv' /\ Grows(n)
    BY CatchDoubleVoteOK
  <2> QED BY <2>1 DEF IInv
<1> QED BY <1>2, <1>5, <1>6, CatchBacked DEF CatchDoubleVote

(* A view change is counted for who has signed it. *)
LEMMA OnViewChangeBacked ==
    ASSUME IInv, Evidence, NEW n \in Node, InRound(n), NEW m \in inbox[n], OnViewChange(n, m)
    PROVE  Evidence'
<1> DEFINE recorded == [round[n] EXCEPT !.vcVotes = @ \cup {m}]
<1>1. /\ TypeOK /\ round[n] \in Round /\ round[n].out = {} /\ RoundBacked(n, round[n])
      /\ m \in sent /\ m \in Message /\ m.type = "viewchange" /\ m.height = round[n].height
  BY DEF IInv, TypeOK, Evidence, OnViewChange, ViewChangeCounts
<1>2. m \in ViewChangeMsg
  BY <1>1 DEF Message, VoteMsg, ViewChangeMsg
<1>3. PICK advanced \in MaybeAdvanceView(n, recorded) : round' = [round EXCEPT ![n] = advanced]
  <2>1. \E r \in {recorded} : \E advanced \in MaybeAdvanceView(n, r) :
           round' = [round EXCEPT ![n] = advanced]
    BY DEF OnViewChange
  <2> QED BY <2>1
<1>4. /\ recorded \in Round /\ recorded.height = round[n].height /\ recorded.view = round[n].view
      /\ recorded.blocks = round[n].blocks /\ recorded.seen = round[n].seen
      /\ recorded.vcVotes = round[n].vcVotes \cup {m} /\ recorded.out = {}
  BY <1>1, <1>2 DEF Round
<1> HIDE DEF recorded
<1>5. RoundBacked(n, recorded)
  BY <1>1, <1>4, StillBacked
<1>6. RoundBacked(n, advanced)
  BY <1>3, <1>4, <1>5, AdvanceBacked
<1>7. advanced \in Round /\ advanced.out = {}
  <2>1. \A v \in {x.view : x \in recorded.vcVotes} : v \in Nat
    BY <1>4 DEF Round, ViewChangeMsg
  <2>2. advanced = recorded \/ \E v \in Nat : advanced = [recorded EXCEPT !.view = v, !.voted = NoBlock]
    BY <1>3, <2>1 DEF MaybeAdvanceView, AdoptView
  <2> QED BY <1>4, <2>2, NoBlockIsPath DEF Round
<1>8. TypeOK' /\ Grows(n)
  <2>1. IInv' /\ Grows(n)
    BY OnViewChangeOK
  <2> QED BY <2>1 DEF IInv
<1>9. /\ {m} \ round[n].vcVotes \in SUBSET Message
      /\ sent' = sent \cup ({m} \ round[n].vcVotes)
      /\ \A x \in {m} \ round[n].vcVotes : Honoured(x, sent \cup ({m} \ round[n].vcVotes))
  BY <1>1 DEF OnViewChange, Gossip, Honoured
<1>10. chain' = chain /\ early' = early /\ \A p \in Node : \A x \in slashed'[p] : Guilty(x, sent)
  BY DEF OnViewChange, Evidence
<1> QED BY <1>3, <1>6, <1>7, <1>8, <1>9, <1>10, RelayBacked

(* A membership op is evidence of nothing. *)
LEMMA OnMembershipBacked ==
    ASSUME IInv, Evidence, NEW n \in Node, InRound(n), NEW m \in inbox[n], OnMembership(n, m)
    PROVE  Evidence'
<1>1. /\ TypeOK /\ round[n] \in Round /\ round[n].out = {} /\ RoundBacked(n, round[n])
      /\ m \in Message /\ m.type = "membership"
  BY DEF IInv, TypeOK, Evidence, OnMembership, MembershipCounts
<1>2. TypeOK' /\ Grows(n)
  <2>1. IInv' /\ Grows(n)
    BY OnMembershipOK
  <2> QED BY <2>1 DEF IInv
<1>3. /\ {m} \in SUBSET Message /\ sent' = sent \cup {m} /\ round' = [round EXCEPT ![n] = round[n]]
      /\ \A x \in {m} : Honoured(x, sent \cup {m})
  BY <1>1 DEF OnMembership, Gossip, Honoured, TypeOK
<1>4. chain' = chain /\ early' = early /\ \A p \in Node : \A x \in slashed'[p] : Guilty(x, sent)
  BY DEF OnMembership, Evidence
<1> QED BY <1>1, <1>2, <1>3, <1>4, RelayBacked

(* Every message leaves the evidence as good as it was. *)
LEMMA ReceiveBacked ==
    ASSUME IInv, Evidence, NEW n \in Node, Receive(n)
    PROVE  Evidence'
<1>1. PICK m \in inbox[n] :
         \/ BufferProposal(n, m) \/ AcceptProposal(n, m) \/ CatchEquivocation(n, m)
         \/ CountVote(n, m) \/ CatchDoubleVote(n, m)
         \/ OnViewChange(n, m) \/ OnMembership(n, m) \/ OnSlash(n, m)
         \/ Ignore(n, m)
  BY DEF Receive
<1>2. InRound(n) /\ TypeOK /\ m \in Message /\ m \in sent
  BY DEF Receive, IInv, TypeOK
<1>3. /\ \A p \in Node : \A b \in early[p] : Proposal(b) \in sent
      /\ \A p \in Node : \A x \in slashed[p] : Guilty(x, sent)
  BY DEF Evidence
<1>4. CASE BufferProposal(n, m)
  <2>1. Proposal(m.block) \in sent
    BY <1>2, <1>4, ProposalIs DEF BufferProposal
  <2>2. \A p \in Node : \A b \in early'[p] : Proposal(b) \in sent
    BY <1>2, <1>3, <1>4, <2>1 DEF BufferProposal, TypeOK
  <2> QED BY <1>3, <1>4, <2>2, QuietBacked DEF BufferProposal
<1>5. CASE OnSlash(n, m)
  <2>1. Guilty(m.offender, sent)
    BY <1>2, <1>5 DEF OnSlash, SlashCounts, Evidence, Honoured
  <2>2. \A p \in Node : \A x \in slashed'[p] : Guilty(x, sent)
    BY <1>2, <1>3, <1>5, <2>1 DEF OnSlash, TypeOK
  <2> QED BY <1>3, <1>5, <2>2, QuietBacked DEF OnSlash
<1>6. CASE Ignore(n, m)
  BY <1>3, <1>6, QuietBacked DEF Ignore
<1> QED BY <1>1, <1>2, <1>4, <1>5, <1>6, AcceptProposalBacked, CatchEquivocationBacked, CountVoteBacked,
           CatchDoubleVoteBacked, OnViewChangeBacked, OnMembershipBacked

(* What a node takes over from another chain is final already. *)
LEMMA AdoptBacked ==
    ASSUME IInv, Evidence, NEW n \in Node, NEW p \in Node, Adopt(n, p)
    PROVE  Evidence'
<1>1. /\ TypeOK /\ round[n] \in Round /\ round[n].out = {} /\ RoundBacked(n, round[n])
      /\ chain[p] \in Path /\ Len(chain[n]) \in Nat
  BY DEF IInv, TypeOK, Evidence, Path
<1>2. TypeOK' /\ Grows(n)
  <2>1. IInv' /\ Grows(n)
    BY AdoptOK
  <2> QED BY <2>1 DEF IInv
<1>3. PICK k \in Len(chain[n]) + 1..Len(chain[p]) : chain' = [chain EXCEPT ![n] = SubSeq(chain[p], 1, k)]
  BY DEF Adopt
<1>4. chain'[n] \in Finalized
  <2>1. k \in 1..Len(chain[p]) /\ chain'[n] = SubSeq(chain[p], 1, k)
    BY <1>1, <1>3 DEF TypeOK
  <2> QED BY <2>1 DEF Finalized
<1>5. /\ sent' = sent \cup round[n].out /\ round'[n] = NoRound
      /\ \A q \in Node \ {n} : round'[q] = round[q]
  BY <1>1 DEF Adopt, TypeOK
<1>6. /\ \A q \in Node : \A b \in early'[q] : Proposal(b) \in sent'
      /\ \A q \in Node : \A x \in slashed'[q] : Guilty(x, sent')
  BY DEF Adopt, Evidence
<1> QED BY <1>1, <1>2, <1>4, <1>5, <1>6, EvidenceStep

(* A node that stops loses its round; what it published stays. *)
LEMMA CrashBacked ==
    ASSUME IInv, Evidence, NEW n \in Node, Crash(n)
    PROVE  Evidence'
<1>1. /\ TypeOK /\ round[n] \in Round /\ round[n].out = {} /\ RoundBacked(n, round[n])
  BY DEF IInv, TypeOK, Evidence
<1>2. TypeOK' /\ Grows(n)
  <2>1. IInv' /\ Grows(n)
    BY CrashOK
  <2> QED BY <2>1 DEF IInv
<1>3. /\ sent' = sent \cup round[n].out /\ round'[n] = NoRound /\ chain'[n] = chain[n]
      /\ \A q \in Node \ {n} : round'[q] = round[q]
  BY <1>1 DEF Crash, TypeOK
<1>4. /\ \A q \in Node : \A b \in early'[q] : Proposal(b) \in sent'
      /\ \A q \in Node : \A x \in slashed'[q] : Guilty(x, sent')
  BY <1>1 DEF Crash, Evidence, TypeOK
<1> QED BY <1>1, <1>2, <1>3, <1>4, EvidenceStep

-----------------------------------------------------------------------------
LEMMA EvidenceInit == Init => Evidence
<1> SUFFICES ASSUME Init PROVE Evidence
  OBVIOUS
<1>1. \A n \in Node : 1..Len(chain[n]) = {}
  BY DEF Init
<1>2. Finalized = {}
  BY <1>1 DEF Finalized
<1>3. \A n \in Node : RoundBacked(n, round[n])
  BY DEF Init, RoundBacked, NoRound, NewRound
<1> QED BY <1>2, <1>3 DEF Init, Evidence

(* Every step leaves the evidence as good as it was. *)
LEMMA EvidenceNext == IInv /\ Evidence /\ [Next]_vars => Evidence'
<1> SUFFICES ASSUME IInv, Evidence, [Next]_vars PROVE Evidence'
  OBVIOUS
<1>1. CASE UNCHANGED vars
  BY <1>1, QuietBacked DEF vars, Evidence
<1>2. ASSUME NEW n \in Node, Turn(n) \/ LateCopy(n) \/ Crash(n)
      PROVE  Evidence'
  BY <1>2, EnterRoundBacked, TickBacked, ReceiveBacked, AdoptBacked, CrashBacked DEF Turn, LateCopy
<1> QED BY <1>1, <1>2 DEF Next

(* The two invariants hold of every behaviour. *)
LEMMA EvidenceAlways == Spec => [](IInv /\ Evidence)
<1> QED BY IInvInit, IInvStep, EvidenceInit, EvidenceNext, PTL DEF Spec

(***************************************************************************)
(* Every block of every chain, whether the node counted the votes itself,  *)
(* or took the block from another chain, in any set of validators that     *)
(* joins and leaves bring about, has a quorum of the validators of its     *)
(* height behind it, and one of them proposed it.                          *)
(***************************************************************************)
THEOREM CertificatesHold == Spec => []FinalizedAreCertified
<1>1. Evidence => FinalizedAreCertified
  BY DEF Evidence, FinalizedAreCertified
<1> QED BY <1>1, EvidenceAlways, PTL

(***************************************************************************)
(* No node is in a view above 0 that a quorum of its validators did not    *)
(* ask for: neither its own count of the view changes (maybe_advance_view) *)
(* nor a proposal that it follows, received in the view's round or kept    *)
(* from an earlier one, lets it drift ahead.                               *)
(***************************************************************************)
THEOREM ViewsJustified == Spec => []ViewsAreJustified
<1>1. ASSUME IInv, Evidence PROVE ViewsAreJustified
  <2> SUFFICES ASSUME NEW n \in Node, round[n].view > 0
               PROVE  IsQuorum(Askers(round[n].height, round[n].view, sent), Members(n))
    BY DEF ViewsAreJustified, Askers
  <2>1. sent \cup round[n].out = sent /\ RoundBacked(n, round[n])
    BY <1>1 DEF IInv, Evidence
  <2> QED BY <2>1 DEF RoundBacked
<1> QED BY <1>1, EvidenceAlways, PTL

(***************************************************************************)
(* Whoever any node has slashed, by what it saw itself or by the evidence  *)
(* of another, did sign twice for one height and view.                     *)
(***************************************************************************)
THEOREM OnlyTheGuilty == Spec => []SlashedAreGuilty
<1>1. Evidence => SlashedAreGuilty
  BY DEF Evidence, SlashedAreGuilty, Guilty, Ballots
<1> QED BY <1>1, EvidenceAlways, PTL

-----------------------------------------------------------------------------
(* Forks: the chains. *)

(* The empty path is a prefix of every path. *)
LEMMA EmptyPrefix == ASSUME NEW b \in Path, NEW c \in Path, Len(c) = 0 PROVE SubSeq(b, 1, Len(c)) = c
<1> DEFINE H == Header
<1>1. SubSeq(b, 1, 0) \in Seq(H) /\ Len(SubSeq(b, 1, 0)) = 0 /\ c \in Seq(H)
  <2>1. 0 \in 0..Len(b)
    BY DEF Path
  <2> QED BY <2>1, PrefixIsPath DEF Path
<1> HIDE DEF H
<1> QED BY <1>1, SeqEqual

(* What is final at some node stays final there. *)
LEMMA FinalizedGrows ==
    ASSUME IInv, TypeOK', NEW n \in Node, Grows(n)
    PROVE  Finalized \subseteq Finalized'
<1> SUFFICES ASSUME NEW p \in Node, NEW i \in 1..Len(chain[p])
             PROVE  SubSeq(chain[p], 1, i) \in Finalized'
  BY DEF Finalized
<1>1. i \in 1..Len(chain'[p]) /\ SubSeq(chain'[p], 1, i) = SubSeq(chain[p], 1, i)
  BY ChainsGrow
<1> QED BY <1>1 DEF Finalized

(***************************************************************************)
(* A chain only ever grows at its end: no block that a node has finalized  *)
(* is replaced, by counting votes, by synchronization or by a stop.        *)
(***************************************************************************)
THEOREM FinalityHolds ==
    Spec => [][\A n \in Node : /\ Len(chain[n]) <= Len(chain'[n])
                               /\ SubSeq(chain'[n], 1, Len(chain[n])) = chain[n]]_chain
<1> DEFINE Extended == \A n \in Node : /\ Len(chain[n]) <= Len(chain'[n])
                                       /\ SubSeq(chain'[n], 1, Len(chain[n])) = chain[n]
<1>1. ASSUME IInv, IInv', [Next]_vars PROVE [Extended]_chain
  <2>1. CASE UNCHANGED vars
    BY <2>1 DEF vars
  <2>2. ASSUME NEW n \in Node, Turn(n) \/ LateCopy(n) \/ Crash(n)
        PROVE  Extended
    <3> SUFFICES ASSUME NEW p \in Node
                 PROVE  Len(chain[p]) <= Len(chain'[p]) /\ SubSeq(chain'[p], 1, Len(chain[p])) = chain[p]
      OBVIOUS
    <3>1. Grows(n) /\ TypeOK' /\ chain[p] \in Path /\ chain'[p] \in Path
      BY <1>1, <2>2, TurnOK DEF IInv, TypeOK
    <3>2. /\ Len(chain[p]) \in Nat /\ Len(chain'[p]) \in Nat /\ Len(chain[p]) <= Len(chain'[p])
          /\ \A i \in 1..Len(chain[p]) : SubSeq(chain'[p], 1, i) = SubSeq(chain[p], 1, i)
      BY <1>1, <3>1, ChainsGrow
    <3>3. CASE Len(chain[p]) = 0
      BY <3>1, <3>2, <3>3, EmptyPrefix
    <3>4. CASE Len(chain[p]) # 0
      BY <3>1, <3>2, <3>4, WholePrefix
    <3> QED BY <3>2, <3>3, <3>4
  <2> QED BY <1>1, <2>1, <2>2 DEF Next
<1> HIDE DEF Extended
<1>2. Spec => [][Extended]_chain
  BY <1>1, IInvInit, IInvStep, PTL DEF Spec
<1> QED BY <1>2 DEF Extended

(* Final blocks of one parent are of one view, and fewer than a third of their validators are faulty. *)
OneViewPerParent ==
    \A b, c \in Finalized : Parent(b) = Parent(c) =>
        /\ Tip(b).view = Tip(c).view
        /\ 3 * Cardinality(DoubleVoters \cap ActiveSet(Parent(b))) < Cardinality(ActiveSet(Parent(b)))

(* Prefixes of chains that agree agree. *)
LEMMA PrefixesAgree ==
    ASSUME TypeOK, Agreement, NEW p \in Node, NEW q \in Node, NEW k \in Nat,
           k <= Len(chain[p]), k <= Len(chain[q])
    PROVE  SubSeq(chain[p], 1, k) = SubSeq(chain[q], 1, k)
<1>1. chain[p] \in Path /\ chain[q] \in Path /\ Len(chain[p]) \in Nat /\ Len(chain[q]) \in Nat
  BY DEF TypeOK, Path
<1>2. CASE Len(chain[p]) <= Len(chain[q])
  <2>1. chain[p] = SubSeq(chain[q], 1, Len(chain[p]))
    BY <1>2 DEF Agreement
  <2> QED BY <1>1, <1>2, <2>1, PrefixOfPrefix
<1>3. CASE Len(chain[q]) <= Len(chain[p])
  <2>1. chain[q] = SubSeq(chain[p], 1, Len(chain[q]))
    BY <1>3 DEF Agreement
  <2> QED BY <1>1, <1>3, <2>1, PrefixOfPrefix
<1> QED BY <1>1, <1>2, <1>3

(* A block that its quorum appends agrees with the other chains, when no sibling of another view is final. *)
LEMMA AppendAgrees ==
    ASSUME IInv, TypeOK', Agreement, SlotAgreement', OneViewPerParent', NEW n \in Node, Grows(n),
           chain'[n] \in Block, Parent(chain'[n]) = chain[n], NEW p \in Node \ {n}
    PROVE  /\ Len(chain'[n]) <= Len(chain[p]) => SubSeq(chain[p], 1, Len(chain'[n])) = chain'[n]
           /\ Len(chain[p]) <= Len(chain'[n]) => SubSeq(chain'[n], 1, Len(chain[p])) = chain[p]
<1> DEFINE b == chain'[n]  L == Len(chain[n])
<1>1. /\ TypeOK /\ chain[n] \in Path /\ chain[p] \in Path /\ b \in Path
      /\ L \in Nat /\ Len(chain[p]) \in Nat /\ Len(b) = L + 1
  BY ParentIsPath DEF IInv, TypeOK, Path
<1>2. b = SubSeq(b, 1, L + 1) /\ chain[n] = SubSeq(b, 1, L)
  BY <1>1, WholePrefix DEF Parent
<1>3. b \in Finalized'
  <2>1. L + 1 \in 1..Len(chain'[n])
    BY <1>1
  <2> QED BY <1>2, <2>1 DEF Finalized
<1>4. ASSUME L + 1 <= Len(chain[p]) PROVE SubSeq(chain[p], 1, L + 1) = b
  <2> DEFINE c == SubSeq(chain[p], 1, L + 1)
  <2>1. c \in Finalized'
    <3>1. L + 1 \in 1..Len(chain[p])
      BY <1>1, <1>4
    <3>2. c \in Finalized
      BY <3>1 DEF Finalized
    <3> QED BY <3>2, FinalizedGrows
  <2>2. Len(c) = L + 1
    BY <1>1, <1>4, PrefixIsPath
  <2>3. SubSeq(c, 1, L) = SubSeq(chain[p], 1, L)
    BY <1>1, <1>4, PrefixOfPrefix
  <2>4. SubSeq(chain[p], 1, L) = chain[n]
    BY <1>1, <1>4 DEF Agreement
  <2>5. Parent(c) = Parent(b)
    <3>1. Len(c) - 1 = L
      BY <1>1, <2>2
    <3> QED BY <2>3, <2>4, <3>1 DEF Parent
  <2> HIDE DEF b, c
  <2>6. /\ Tip(c).view = Tip(b).view
        /\ 3 * Cardinality(DoubleVoters \cap ActiveSet(Parent(c))) < Cardinality(ActiveSet(Parent(c)))
    BY <1>3, <2>1, <2>5 DEF OneViewPerParent
  <2>7. c = b
    BY <1>3, <2>1, <2>5, <2>6, SameElectorate
       DEF SlotAgreement, Slots!SlotAgreement, Slots!Parent, Parent, Slots!Tip, Tip,
           Slots!Cardinality, Cardinality
  <2> QED BY <2>7 DEF c
<1>5. ASSUME Len(chain[p]) <= L PROVE SubSeq(b, 1, Len(chain[p])) = chain[p]
  <2>1. SubSeq(chain[n], 1, Len(chain[p])) = chain[p]
    BY <1>5 DEF Agreement
  <2>2. SubSeq(SubSeq(b, 1, L), 1, Len(chain[p])) = SubSeq(b, 1, Len(chain[p]))
    BY <1>1, <1>5, PrefixOfPrefix
  <2> QED BY <1>2, <2>1, <2>2
<1>6. ASSUME Len(chain[p]) = L + 1 PROVE SubSeq(b, 1, Len(chain[p])) = chain[p]
  BY <1>1, <1>2, <1>4, <1>6, WholePrefix
<1> QED BY <1>1, <1>4, <1>5, <1>6

LEMMA AgreementStep ==
    ASSUME IInv, TypeOK', Agreement, SlotAgreement', OneViewPerParent', NEW n \in Node, Grows(n)
    PROVE  Agreement'
<1>1. TypeOK /\ \A p \in Node : chain[p] \in Path /\ Len(chain[p]) \in Nat
  BY DEF IInv, TypeOK, Path
<1>2. \A p \in Node : chain'[p] \in Path /\ Len(chain'[p]) \in Nat
  BY DEF TypeOK, Path
<1>3. \A p \in Node \ {n} : chain'[p] = chain[p]
  BY DEF Grows
<1>4. ASSUME NEW p \in Node \ {n}
      PROVE  /\ Len(chain'[n]) <= Len(chain[p]) => SubSeq(chain[p], 1, Len(chain'[n])) = chain'[n]
             /\ Len(chain[p]) <= Len(chain'[n]) => SubSeq(chain'[n], 1, Len(chain[p])) = chain[p]
  <2>1. CASE chain'[n] = chain[n]
    BY <2>1 DEF Agreement
  <2>2. CASE chain'[n] \in Block /\ Parent(chain'[n]) = chain[n]
    BY <2>2, AppendAgrees
  <2>3. ASSUME NEW q \in Node, NEW k \in Len(chain[n]) + 1..Len(chain[q]), chain'[n] = SubSeq(chain[q], 1, k)
        PROVE  /\ Len(chain'[n]) <= Len(chain[p]) => SubSeq(chain[p], 1, Len(chain'[n])) = chain'[n]
               /\ Len(chain[p]) <= Len(chain'[n]) => SubSeq(chain'[n], 1, Len(chain[p])) = chain[p]
    <3>1. k \in 0..Len(chain[q]) /\ k \in Nat /\ Len(chain'[n]) = k
      BY <1>1, <2>3, PrefixIsPath
    <3>2. ASSUME k <= Len(chain[p]) PROVE SubSeq(chain[p], 1, k) = chain'[n]
      BY <1>1, <2>3, <3>1, <3>2, PrefixesAgree
    <3>3. ASSUME Len(chain[p]) <= k PROVE SubSeq(chain'[n], 1, Len(chain[p])) = chain[p]
      <4>1. SubSeq(SubSeq(chain[q], 1, k), 1, Len(chain[p])) = SubSeq(chain[q], 1, Len(chain[p]))
        BY <1>1, <3>1, <3>3, PrefixOfPrefix
      <4>2. SubSeq(chain[q], 1, Len(chain[p])) = chain[p]
        BY <1>1, <3>1, <3>3 DEF Agreement
      <4> QED BY <2>3, <4>1, <4>2
    <3> QED BY <3>1, <3>2, <3>3
  <2> QED BY <2>1, <2>2, <2>3 DEF Grows
<1>5. SubSeq(chain'[n], 1, Len(chain'[n])) = chain'[n]
  BY <1>2, WholePrefix
<1> SUFFICES ASSUME NEW p \in Node, NEW q \in Node, Len(chain'[p]) <= Len(chain'[q])
             PROVE  SubSeq(chain'[q], 1, Len(chain'[p])) = chain'[p]
  BY DEF Agreement
<1>6. CASE p = n /\ q = n
  BY <1>5, <1>6
<1>7. CASE p = n /\ q # n
  BY <1>3, <1>4, <1>7
<1>8. CASE p # n /\ q = n
  BY <1>3, <1>4, <1>8
<1>9. CASE p # n /\ q # n
  BY <1>3, <1>9 DEF Agreement
<1> QED BY <1>6, <1>7, <1>8, <1>9

(***************************************************************************)
(* The chains of all nodes agree as long as no two blocks of one parent    *)
(* were finalized in different views, and every height has fewer than a    *)
(* third of double voters: a view change at a height, whose votes forget   *)
(* those of the view before, is the only way to the fork that the run      *)
(* Consensus_fork shows.                                                   *)
(***************************************************************************)
THEOREM ForksCrossViews == Spec => [](OneViewPerParent => Agreement)
<1>1. Init => Agreement
  <2> SUFFICES ASSUME Init, NEW n \in Node, NEW p \in Node
               PROVE  SubSeq(chain[p], 1, Len(chain[n])) = chain[n]
    BY DEF Agreement
  <2>1. chain[n] = <<>> /\ chain[p] = <<>> /\ <<>> \in Path
    BY NoBlockIsPath DEF Init, NoBlock
  <2> QED BY <2>1, WholePrefix
<1>2. ASSUME IInv, IInv', SlotAgreement', OneViewPerParent => Agreement, [Next]_vars, OneViewPerParent'
      PROVE  Agreement'
  <2>1. CASE UNCHANGED vars
    <3>1. OneViewPerParent' = OneViewPerParent /\ Agreement' = Agreement
      BY <2>1 DEF vars, OneViewPerParent, Agreement, Finalized
    <3> QED BY <1>2, <3>1
  <2>2. ASSUME NEW n \in Node, Turn(n) \/ LateCopy(n) \/ Crash(n)
        PROVE  Agreement'
    <3>1. Grows(n) /\ TypeOK'
      BY <1>2, <2>2, TurnOK DEF IInv
    <3>2. OneViewPerParent
      <4>1. Finalized \subseteq Finalized'
        BY <1>2, <3>1, FinalizedGrows
      <4> QED BY <1>2, <4>1 DEF OneViewPerParent
    <3> QED BY <1>2, <3>1, <3>2, AgreementStep
  <2> QED BY <1>2, <2>1, <2>2 DEF Next
<1>3. IInv /\ IInv' /\ SlotAgreement' /\ (OneViewPerParent => Agreement) /\ [Next]_vars
      => (OneViewPerParent => Agreement)'
  BY <1>2
<1> QED BY <1>1, <1>3, OneBlockPerSlot, IInvInit, IInvStep, PTL DEF Spec

-----------------------------------------------------------------------------
(* One log: the longest chain. *)

(* A longest chain exists, and every other is a prefix of it when they agree. *)
IsLongest ==
    /\ Longest = NoBlock \/ \E n \in Node : Longest = chain[n]
    /\ Longest \in Path /\ Len(Longest) \in Nat
    /\ \A n \in Node : /\ Len(chain[n]) <= Len(Longest)
                       /\ SubSeq(Longest, 1, Len(chain[n])) = chain[n]

LEMMA LongestIs == TypeOK /\ Agreement => IsLongest
<1> SUFFICES ASSUME TypeOK, Agreement PROVE IsLongest
  OBVIOUS
<1> DEFINE chains == {NoBlock} \cup {chain[n] : n \in Node}
<1>1. NoBlock \in Path /\ Len(NoBlock) = 0
  BY NoBlockIsPath DEF NoBlock
<1>2. \A n \in Node : chain[n] \in Path /\ Len(chain[n]) \in Nat
  BY DEF TypeOK, Path
<1>3. \E c \in chains : \A d \in chains : Len(d) <= Len(c)
  <2>1. CASE Node = {}
    BY <1>1, <2>1
  <2>2. CASE Node # {}
    <3> DEFINE g == [n \in Node |-> Len(chain[n])]
    <3>1. \E n \in Node : \A p \in Node : g[p] <= g[n]
      <4>1. \A n \in Node : g[n] \in Nat
        BY <1>2
      <4> HIDE DEF g
      <4> QED BY <2>2, <4>1, GenesisAssumption, GreatestValue
    <3>2. PICK n \in Node : \A p \in Node : Len(chain[p]) <= Len(chain[n])
      BY <3>1
    <3> QED BY <1>1, <1>2, <3>2
  <2> QED BY <2>1, <2>2
<1>4. Longest \in chains /\ \A d \in chains : Len(d) <= Len(Longest)
  BY <1>3 DEF Longest
<1>5. Longest \in Path /\ Len(Longest) \in Nat
  BY <1>1, <1>2, <1>4
<1>6. CASE \E n \in Node : Longest = chain[n]
  BY <1>4, <1>5, <1>6 DEF Agreement, IsLongest
<1>7. CASE Longest = NoBlock
  <2>1. ASSUME NEW n \in Node PROVE chain[n] = NoBlock
    <3>1. chain[n] \in Path /\ Len(chain[n]) = 0
      BY <1>1, <1>2, <1>4, <1>7
    <3>2. chain[n] = SubSeq(chain[n], 1, Len(NoBlock))
      BY <1>1, <3>1, WholePrefix
    <3> QED BY <1>1, <3>1, <3>2, EmptyPrefix
  <2>2. \A n \in Node : SubSeq(Longest, 1, Len(chain[n])) = chain[n]
    BY <1>1, <1>7, <2>1, WholePrefix
  <2> QED BY <1>4, <1>5, <1>7, <2>1, <2>2 DEF IsLongest
<1> QED BY <1>4, <1>6, <1>7

LEMMA LongestNext == TypeOK' /\ Agreement' => IsLongest'
BY LongestIs, PTL

(* While the chains agree, a node extends the log or follows it. *)
LEMMA LogStep ==
    ASSUME IInv, IInv', Agreement, Agreement', NEW n \in Node, Grows(n), chain'[n] # chain[n]
    PROVE  Log!Extend(n) \/ Log!Follow(n)
<1> DEFINE b == chain'[n]  L == Len(Longest)
<1>1. /\ TypeOK /\ TypeOK' /\ chain \in [Node -> Path] /\ chain' \in [Node -> Path]
      /\ \A p \in Node : /\ chain[p] \in Path /\ Len(chain[p]) \in Nat
                         /\ chain'[p] \in Path /\ Len(chain'[p]) \in Nat
  BY DEF IInv, TypeOK, Path
<1>2. \A p \in Node \ {n} : chain'[p] = chain[p]
  BY DEF Grows
<1>3. /\ Longest \in Path /\ L \in Nat
      /\ \A p \in Node : Len(chain[p]) <= L /\ SubSeq(Longest, 1, Len(chain[p])) = chain[p]
  BY <1>1, LongestIs DEF IsLongest
<1>4. /\ Longest' \in Path /\ Len(Longest') \in Nat
      /\ \A p \in Node : /\ Len(chain'[p]) <= Len(Longest')
                         /\ SubSeq(Longest', 1, Len(chain'[p])) = chain'[p]
  BY <1>1, LongestNext DEF IsLongest
<1>5. ASSUME NEW p \in Node, \A q \in Node : Len(chain'[q]) <= Len(chain'[p])
      PROVE  Longest' = chain'[p]
  <2>1. Len(Longest') <= Len(chain'[p])
    <3>1. Longest' = NoBlock \/ \E q \in Node : Longest' = chain'[q]
      BY <1>1, LongestNext DEF IsLongest, NoBlock
    <3>3. Len(NoBlock) = 0
      BY DEF NoBlock
    <3> QED BY <1>1, <1>5, <3>1, <3>3
  <2>2. Len(Longest') = Len(chain'[p])
    BY <1>1, <1>4, <2>1
  <2> QED BY <1>1, <1>4, <2>2, WholePrefix
<1>6. Len(chain[n]) < Len(b)
  <2>1. /\ Len(chain[n]) <= Len(b)
        /\ \A i \in 1..Len(chain[n]) : SubSeq(b, 1, i) = SubSeq(chain[n], 1, i)
    BY <1>1, ChainsGrow
  <2>2. CASE Len(b) = Len(chain[n]) /\ Len(b) # 0
    <3>1. SubSeq(b, 1, Len(b)) = SubSeq(chain[n], 1, Len(b))
      BY <1>1, <2>1, <2>2
    <3>2. SubSeq(b, 1, Len(b)) = b /\ SubSeq(chain[n], 1, Len(chain[n])) = chain[n]
      BY <1>1, WholePrefix
    <3> QED BY <2>2, <3>1, <3>2
  <2>3. CASE Len(b) = 0 /\ Len(chain[n]) = 0
    <3>1. SubSeq(b, 1, Len(chain[n])) = chain[n] /\ SubSeq(b, 1, Len(b)) = b
      BY <1>1, <2>3, EmptyPrefix, WholePrefix
    <3> QED BY <2>3, <3>1
  <2> QED BY <1>1, <2>1, <2>2, <2>3
<1>7. CASE Len(b) <= L
  <2>1. PICK p \in Node : Longest = chain[p]
    <3>1. Longest # NoBlock
      <4>1. Len(NoBlock) = 0
        BY DEF NoBlock
      <4> QED BY <1>1, <1>3, <1>6, <1>7, <4>1
    <3> QED BY <1>1, <3>1, LongestIs DEF IsLongest
  <2>2. p # n
    BY <1>1, <1>3, <1>6, <1>7, <2>1
  <2>3. Longest' = Longest
    <3>1. \A q \in Node : Len(chain'[q]) <= Len(chain'[p])
      BY <1>2, <1>3, <1>7, <2>1, <2>2
    <3> QED BY <1>2, <1>5, <2>1, <2>2, <3>1
  <2>4. chain' = [chain EXCEPT ![n] = SubSeq(Longest, 1, Len(b))]
    BY <1>1, <1>2, <1>4, <2>3
  <2>5. Len(b) \in Len(chain[n]) + 1..L
    BY <1>1, <1>3, <1>6, <1>7
  <2> QED BY <2>3, <2>4, <2>5 DEF Log!Follow
<1>8. CASE L < Len(b)
  <2>1. Longest' = b
    <3>1. ASSUME NEW q \in Node PROVE Len(chain'[q]) <= Len(b)
      <4>1. CASE q = n
        BY <1>1, <4>1
      <4>2. CASE q # n
        BY <1>1, <1>2, <1>3, <1>8, <4>2
      <4> QED BY <4>1, <4>2
    <3> QED BY <1>5, <3>1
  <2>2. b \in Block /\ Parent(b) = chain[n]
    <3>1. ASSUME NEW q \in Node, NEW k \in Len(chain[n]) + 1..Len(chain[q]), b = SubSeq(chain[q], 1, k)
          PROVE  FALSE
      <4>1. k \in 0..Len(chain[q]) /\ chain[q] \in Path /\ Len(chain[q]) <= L /\ Len(chain[q]) \in Nat
        BY <1>1, <1>3
      <4>2. Len(b) = k
        BY <3>1, <4>1, PrefixIsPath
      <4> QED BY <1>3, <1>8, <4>1, <4>2
    <3> QED BY <3>1 DEF Grows
  <2>3. Len(chain[n]) = Len(b) - 1
    BY <2>2, ParentIsPath
  <2>4. Len(chain[n]) = L
    BY <1>1, <1>3, <1>8, <2>3
  <2>5. Longest = chain[n]
    BY <1>1, <1>3, <2>4, WholePrefix
  <2>6. SubSeq(Longest', 1, Len(Longest)) = Longest /\ Len(Longest') = Len(Longest) + 1
    BY <1>1, <2>1, <2>2, <2>3, <2>5 DEF Parent
  <2>7. chain' = [chain EXCEPT ![n] = Longest']
    BY <1>1, <1>2, <2>1
  <2> QED BY <2>5, <2>6, <2>7 DEF Log!Extend
<1> QED BY <1>1, <1>3, <1>7, <1>8

(***************************************************************************)
(* What the chain promises to the protocols that read it: while no height  *)
(* is final in two views and fewer than a third double-vote, the validator *)
(* loops implement one log that all nodes read.                            *)
(***************************************************************************)
THEOREM OneLog == Spec /\ []OneViewPerParent => ImplementsSharedLog
<1>1. Init /\ IInv /\ Agreement => Log!Init
  <2> SUFFICES ASSUME Init, IInv, Agreement PROVE Log!Init
    OBVIOUS
  <2>1. chain = [n \in Node |-> <<>>] /\ TypeOK
    BY DEF Init, IInv
  <2>2. Longest = <<>>
    BY <2>1, LongestIs DEF NoBlock, IsLongest
  <2> QED BY <2>1, <2>2 DEF Log!Init
<1>2. IInv /\ IInv' /\ Agreement /\ Agreement' /\ [Next]_vars => [Log!Next]_<<Longest, chain>>
  <2> SUFFICES ASSUME IInv, IInv', Agreement, Agreement', [Next]_vars, chain' # chain
               PROVE  Log!Next
    <3>1. chain' = chain => Longest' = Longest
      BY DEF Longest
    <3> QED BY <3>1
  <2>1. PICK n \in Node : Grows(n)
    <3>1. Next
      BY DEF vars
    <3> QED BY <3>1, TurnOK DEF Next
  <2>2. chain'[n] # chain[n]
    <3>1. chain \in [Node -> Path] /\ chain' \in [Node -> Path]
      BY DEF IInv, TypeOK
    <3> QED BY <2>1, <3>1 DEF Grows
  <2> QED BY <2>1, <2>2, LogStep DEF Log!Next
<1> QED BY <1>1, <1>2, ForksCrossViews, IInvInit, IInvStep, PTL DEF Spec, ImplementsSharedLog, Log!Spec
=============================================================================
