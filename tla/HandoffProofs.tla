---------------------------- MODULE HandoffProofs ----------------------------
(* Receipts stand for custody, are recorded once, and keep their members from being slashed. *)
EXTENDS Handoff, ChainPathLemmas

(* The custody c and the sub-shares h that stand behind a receipt. *)
Dealers(c, h, r) == {d \in Node : /\ [subject |-> Base(r.subject), dealer |-> d] \in h[r.member]
                                  /\ Base(r.subject) \in c[d]}
Backed(c, h, r) ==
    IF r.subject.round = 0 THEN r.subject \in c[r.member]
    ELSE Cardinality(Dealers(c, h, r)) >= CustodyThreshold

-----------------------------------------------------------------------------
(* The inductive invariant. *)

(* Whoever has dealt a sub-share has the share it was made of. *)
ShareOK(c, x) == x.subject.round = 0 /\ x.subject \in c[x.dealer]
SharesOK == \A n \in Node : \A x \in held[n] : ShareOK(custody, x)

(* What is on its way is as true as what is kept. *)
MessageOK(c, h, m) ==
    /\ m.type = "custody" => m.subject.round = 0
    /\ m.type = "reshare" => m.subject.round = 0 /\ m.subject \in c[m.dealer]
    /\ m.type = "receipt" => Backed(c, h, m.receipt)
MessagesOK == \A n \in Node : \A m \in inbox[n] : MessageOK(custody, held, m)

IInv == TypeOK /\ SharesOK /\ MessagesOK /\ ReceiptsAreBacked

-----------------------------------------------------------------------------
(* The functions of a chain. *)

LEMMA DepartureType ==
    ASSUME NEW path, Len(path) \in Nat, NEW p, Removals(path, p) # {}
    PROVE  Departure(path, p) \in 1..Len(path)
<1>1. Removals(path, p) \in SUBSET Nat /\ Removals(path, p) \subseteq 1..Len(path)
  BY DEF Removals
<1> QED BY <1>1, MinType DEF Departure

(* A subject is a preference transaction on the chain. *)
LEMMA SubjectsType ==
    ASSUME NEW path, Len(path) \in Nat, NEW s \in Subjects(path)
    PROVE  s \in [peer : Node, at : 1..Len(path), round : {0}] /\ s.peer \in path[s.at].txs
<1>1. PICK p \in Node : Profiles(path, p) # {} /\ s = [peer |-> p, at |-> Max(Profiles(path, p)), round |-> 0]
  BY DEF Subjects
<1>2. Profiles(path, p) \in SUBSET (0..Len(path)) /\ Profiles(path, p) \subseteq 1..Len(path)
  BY DEF Profiles
<1>3. Max(Profiles(path, p)) \in Profiles(path, p)
  BY <1>1, <1>2, MaxType
<1>4. p \in path[Max(Profiles(path, p))].txs
  BY <1>3 DEF Profiles
<1> QED BY <1>1, <1>2, <1>3, <1>4

LEMMA CommitteesAreNodes ==
    \A path, s : /\ Originals(path, s) \subseteq Node /\ Fresh(path, s) \subseteq Node
                 /\ Canonical(path, s) \subseteq Node
BY DEF Originals, Fresh, Canonical, Survivors, Selected, ActiveSet

LEMMA TriggerType ==
    ASSUME NEW path, Len(path) \in Nat, NEW s, Rotates(path, s)
    PROVE  Trigger(path, s) \in Nat
<1> DEFINE T == {Departure(path, m) : m \in Departed(path, s)}
<1>1. \A m \in Departed(path, s) : Departure(path, m) \in Nat
  BY DepartureType DEF Departed
<1>2. T \in SUBSET Nat /\ T # {}
  BY <1>1 DEF Rotates
<1>3. Min(T) \in T
  BY <1>2, MinType
<1> QED BY <1>2, <1>3 DEF Trigger

LEMMA KnownLength ==
    ASSUME NEW h \in 0..Len(Plan) PROVE Len(Known(h)) = h /\ \A i \in 1..h : Known(h)[i] = Plan[i]
<1> DEFINE E == [txs : SUBSET Node, ops : SUBSET Op]
<1>1. Plan \in Seq(E)
  BY HandoffAssumption
<1> HIDE DEF E
<1> QED BY <1>1 DEF Known

(* The tables hold subjects and committees of nodes. *)
LEMMA TablesType ==
    ASSUME NEW path, Len(path) \in Nat
    PROVE  /\ \A s \in Subs(path) : s \in Subject /\ s.round = 0 /\ s \in DOMAIN Ctx(path)
           /\ \A s \in DOMAIN Ctx(path) : Ctx(path)[s] \subseteq Node /\ s.round = 0
           /\ \A s \in DOMAIN ReCtx(path) : /\ s \in Subs(path)
                                            /\ ReCtx(path)[s].committee \subseteq Node
                                            /\ ReCtx(path)[s].canonical \subseteq Node
                                            /\ ReCtx(path)[s].trigger \in Nat
<1> DEFINE h == AtHeight(Len(path))
<1>1. h \in 0..Len(Plan) /\ h \in Nat /\ Len(Plan) \in Nat
  BY HandoffAssumption DEF AtHeight
<1>2. Len(Known(h)) = h /\ Len(Known(h)) \in Nat
  BY <1>1, KnownLength
<1> HIDE DEF h
<1>3. Subs(path) = Subjects(Known(h))
  BY <1>1 DEF Subs, SubjectsAt, h
<1>4. Ctx(path) = [s \in PublishedBy[h] |-> Originals(Known(h), s)]
  BY <1>1 DEF Ctx, HandoffCtx, h
<1>5. PublishedBy[h] = {s \in [peer : Node, at : 1..h, round : {0}] : s.peer \in Plan[s.at].txs}
  BY <1>1 DEF PublishedBy
<1>6. ReCtx(path) = [s \in {x \in Subjects(Known(h)) : Rotates(Known(h), x)} |->
          [trigger |-> Trigger(Known(h), s), committee |-> Fresh(Known(h), s),
           canonical |-> Canonical(Known(h), s)]]
  BY <1>1 DEF ReCtx, ReHandoffCtx, h
<1>7. ASSUME NEW s \in Subs(path) PROVE s \in Subject /\ s.round = 0 /\ s \in DOMAIN Ctx(path)
  <2>1. s \in [peer : Node, at : 1..h, round : {0}] /\ s.peer \in Known(h)[s.at].txs
    BY <1>2, <1>3, SubjectsType
  <2>2. s.at \in 1..h /\ Known(h)[s.at] = Plan[s.at]
    BY <1>1, <2>1, KnownLength
  <2>3. s \in PublishedBy[h]
    BY <1>5, <2>1, <2>2
  <2> QED BY <1>1, <1>4, <2>1, <2>3 DEF Subject
<1>8. ASSUME NEW s \in DOMAIN Ctx(path) PROVE Ctx(path)[s] \subseteq Node /\ s.round = 0
  BY <1>4, <1>5, CommitteesAreNodes
<1>9. ASSUME NEW s \in DOMAIN ReCtx(path)
      PROVE  /\ s \in Subs(path) /\ ReCtx(path)[s].committee \subseteq Node
             /\ ReCtx(path)[s].canonical \subseteq Node /\ ReCtx(path)[s].trigger \in Nat
  BY <1>2, <1>3, <1>6, CommitteesAreNodes, TriggerType
<1> QED BY <1>7, <1>8, <1>9

LEMMA AgainBase ==
    ASSUME NEW s \in Subject
    PROVE  /\ Again(s) \in Subject /\ Again(s).round = 1
           /\ s.round = 0 => Base(Again(s)) = s
BY DEF Again, Base, Subject

LEMMA CommitteeType ==
    ASSUME NEW path, Len(path) \in Nat, NEW s
    PROVE  Committee(path, s) \subseteq Node
BY TablesType DEF Committee, Triggered

LEMMA StartType ==
    ASSUME NEW path, Len(path) \in Nat, NEW s \in Owed(path)
    PROVE  s \in Subject /\ StartOf(path, s) \in Nat
<1>1. CASE s \in Subs(path)
  BY <1>1, TablesType DEF StartOf, Subject
<1>2. CASE \E x \in Subs(path) : Triggered(path, x) /\ s = Again(x)
  <2>1. PICK x \in Subs(path) : Triggered(path, x) /\ s = Again(x)
    BY <1>2
  <2>2. x \in Subject /\ x.round = 0 /\ x \in DOMAIN ReCtx(path)
    BY <2>1, TablesType DEF Triggered
  <2>3. s \in Subject /\ s.round = 1 /\ Base(s) = x
    BY <2>1, <2>2, AgainBase
  <2> QED BY <2>2, <2>3, TablesType DEF StartOf
<1> QED BY <1>1, <1>2 DEF Owed

-----------------------------------------------------------------------------
(* The log. *)

LEMMA LogPrefix ==
    ASSUME NEW l \in Seq(HBlock), NEW k \in 0..Len(l)
    PROVE  /\ SubSeq(l, 1, k) \in Seq(HBlock) /\ Len(SubSeq(l, 1, k)) = k
           /\ \A i \in 1..k : SubSeq(l, 1, k)[i] = l[i]
           /\ Recorded(SubSeq(l, 1, k)) \subseteq Recorded(l)
<1> DEFINE B == HBlock
<1>1. l \in Seq(B)
  OBVIOUS
<1> HIDE DEF B
<1>2. /\ SubSeq(l, 1, k) \in Seq(B) /\ Len(SubSeq(l, 1, k)) = k
      /\ \A i \in 1..k : SubSeq(l, 1, k)[i] = l[i]
  BY <1>1
<1> QED BY <1>1, <1>2 DEF Recorded, B

LEMMA LogAppend ==
    ASSUME NEW l \in Seq(HBlock), NEW b \in HBlock
    PROVE  /\ Append(l, b) \in Seq(HBlock) /\ Len(Append(l, b)) = Len(l) + 1
           /\ Append(l, b)[Len(l) + 1] = b
           /\ \A i \in 1..Len(l) : Append(l, b)[i] = l[i]
           /\ Recorded(Append(l, b)) = Recorded(l) \cup b
           /\ \A k \in 0..Len(l) : SubSeq(Append(l, b), 1, k) = SubSeq(l, 1, k)
<1> DEFINE B == HBlock
<1>1. l \in Seq(B) /\ b \in B
  OBVIOUS
<1> HIDE DEF B
<1>2. /\ Append(l, b) \in Seq(B) /\ Len(Append(l, b)) = Len(l) + 1
      /\ Append(l, b)[Len(l) + 1] = b
      /\ \A i \in 1..Len(l) : Append(l, b)[i] = l[i]
  BY <1>1
<1>3. Len(l) \in Nat
  BY <1>1
<1>4. Recorded(Append(l, b)) = Recorded(l) \cup b
  BY <1>2, <1>3 DEF Recorded
<1>5. ASSUME NEW k \in 0..Len(l) PROVE SubSeq(Append(l, b), 1, k) = SubSeq(l, 1, k)
  BY <1>1, <1>2, <1>3
<1> QED BY <1>2, <1>4, <1>5 DEF B

LEMMA PrefixType ==
    ASSUME TypeOK, NEW n \in Node
    PROVE  /\ Prefix(n) \in Seq(HBlock) /\ Len(Prefix(n)) = height[n] /\ Len(Prefix(n)) \in Nat
           /\ Len(log) \in Nat /\ height[n] \in 0..Len(log) /\ Recorded(Prefix(n)) \subseteq Recorded(log)
<1>1. log \in Seq(HBlock) /\ height[n] \in 0..Len(log) /\ Len(log) \in Nat
  BY DEF TypeOK
<1> QED BY <1>1, LogPrefix DEF Prefix

-----------------------------------------------------------------------------
(* Types of what the drivers and handlers make. *)

LEMMA MessageKinds ==
    ASSUME NEW m \in Message
    PROVE  /\ m.type = "custody" => m.subject \in Subject /\ m.member \in Node
           /\ m.type = "reshare" => m.subject \in Subject /\ m.dealer \in Node /\ m.member \in Node
           /\ m.type = "receipt" => m.receipt \in HandoffReceipt
BY DEF Message

LEMMA MessageTypes ==
    /\ \A s \in Subject, m \in Node : Parcel(s, m) \in Message /\ Parcel(s, m).type = "custody"
    /\ \A s \in Subject, d, m \in Node : SubShare(s, d, m) \in Message /\ SubShare(s, d, m).type = "reshare"
    /\ \A r \in HandoffReceipt : Receipt(r) \in Message /\ Receipt(r).type = "receipt"
BY DEF Parcel, SubShare, Receipt, Message

(* Nothing but the messages named comes into an inbox. *)
LEMMA GossipAdds ==
    ASSUME TypeOK, NEW n \in Node, NEW out \in SUBSET Message, NEW again \in SUBSET Message,
           NEW mine \in SUBSET inbox[n], Gossip(n, out, again, mine)
    PROVE  /\ inbox' \in [Node -> SUBSET Message]
           /\ \A p \in Node : inbox'[p] \subseteq inbox[p] \cup out \cup again
BY DEF TypeOK, Gossip

LEMMA GossipOne ==
    ASSUME TypeOK, NEW n \in Node, NEW out \in SUBSET Message, NEW mine \in SUBSET inbox[n],
           Gossip(n, out, {}, mine)
    PROVE  \A p \in Node : inbox'[p] \subseteq inbox[p] \cup out
<1>1. {} \in SUBSET Message
  OBVIOUS
<1>2. \A p \in Node : inbox'[p] \subseteq inbox[p] \cup out \cup {}
  BY <1>1, GossipAdds
<1> QED BY <1>2

LEMMA ParcelsType ==
    ASSUME TypeOK, NEW n \in Node
    PROVE  \A m \in Parcels(n) : m \in Message /\ m.type = "custody" /\ m.subject.round = 0
<1> SUFFICES ASSUME NEW m \in Parcels(n)
             PROVE  m \in Message /\ m.type = "custody" /\ m.subject.round = 0
  OBVIOUS
<1>1. PICK s \in Subs(Prefix(n)) : \E p \in Ctx(Prefix(n))[s] : m = Parcel(s, p)
  BY DEF Parcels, Dispatches
<1>2. s \in Subject /\ s.round = 0 /\ Ctx(Prefix(n))[s] \subseteq Node
  BY PrefixType, TablesType
<1> QED BY <1>1, <1>2, MessageTypes DEF Parcel

LEMMA DealsType ==
    ASSUME TypeOK, NEW n \in Node, NEW s \in Deals(n)
    PROVE  /\ s \in Subject /\ s.round = 0 /\ s \in custody[n]
           /\ ReCtx(Prefix(n))[s].committee \subseteq Node
BY PrefixType, TablesType DEF Deals, Triggered

LEMMA SubSharesType ==
    ASSUME TypeOK, NEW n \in Node
    PROVE  \A m \in SubShares(n) : /\ m \in Message /\ m.type = "reshare" /\ m.dealer = n
                                   /\ m.subject.round = 0 /\ m.subject \in custody[n]
<1> SUFFICES ASSUME NEW m \in SubShares(n)
             PROVE  /\ m \in Message /\ m.type = "reshare" /\ m.dealer = n
                    /\ m.subject.round = 0 /\ m.subject \in custody[n]
  OBVIOUS
<1>1. PICK s \in Deals(n) : \E p \in ReCtx(Prefix(n))[s].committee : m = SubShare(s, n, p)
  BY DEF SubShares
<1>2. /\ s \in Subject /\ s.round = 0 /\ s \in custody[n]
      /\ ReCtx(Prefix(n))[s].committee \subseteq Node
  BY DealsType
<1> QED BY <1>1, <1>2, MessageTypes DEF SubShare

LEMMA OwnSharesType ==
    ASSUME TypeOK, NEW n \in Node
    PROVE  \A h \in OwnShares(n) : /\ h \in [subject : Subject, dealer : Node] /\ h.dealer = n
                                   /\ h.subject.round = 0 /\ h.subject \in custody[n]
BY DealsType DEF OwnShares

LEMMA CombinedType ==
    ASSUME NEW n \in Node, NEW from, NEW ss \in SUBSET Subject
    PROVE  Combined(n, from, ss) \subseteq HandoffReceipt
BY AgainBase DEF Combined, HandoffReceipt

LEMMA DefaultsType ==
    ASSUME NEW path, Len(path) \in Nat PROVE Defaults(path) \subseteq Node
BY CommitteeType DEF Defaults

-----------------------------------------------------------------------------
(* Type correctness. *)

LEMMA TypeInit == Init => TypeOK
<1> SUFFICES ASSUME Init PROVE TypeOK
  OBVIOUS
<1>1. log = <<>> /\ <<>> \in Seq(HBlock) /\ Len(log) = 0
  BY DEF Init
<1> QED BY <1>1 DEF Init, TypeOK

LEMMA TypeFinalize == ASSUME TypeOK, NEW n \in Node, Finalize(n) PROVE TypeOK'
<1>1. Assembled(n) \in HBlock
  BY DEF TypeOK, Assembled, HBlock
<1>2. log' = Append(log, Assembled(n)) /\ log \in Seq(HBlock) /\ Len(log) \in Nat
  BY DEF TypeOK, Finalize
<1>3. log' \in Seq(HBlock) /\ Len(log') = Len(log) + 1
  BY <1>1, <1>2, LogAppend
<1>4. height' \in [Node -> 0..Len(log')]
  BY <1>2, <1>3 DEF TypeOK, Finalize
<1> QED BY <1>3, <1>4 DEF TypeOK, Finalize

LEMMA TypeAdvance == ASSUME TypeOK, NEW n \in Node, Advance(n) PROVE TypeOK'
<1>1. Len(log) \in Nat /\ height[n] \in 0..Len(log) /\ height[n] < Len(log)
  BY PrefixType DEF Advance
<1>2. height' \in [Node -> 0..Len(log')]
  BY <1>1 DEF TypeOK, Advance
<1>3. receipts' \in [Node -> SUBSET HandoffReceipt] /\ inbox' \in [Node -> SUBSET Message]
  BY DEF TypeOK, Advance
<1>4. dealt' \in [Node -> BOOLEAN]
  BY DEF TypeOK, Advance
<1> QED BY <1>2, <1>3, <1>4 DEF TypeOK, Advance

LEMMA TypeTick == ASSUME TypeOK, NEW n \in Node, Tick(n) PROVE TypeOK'
<1>1. PICK parcels \in {{}, Parcels(n)} :
        LET from == held[n] \cup OwnShares(n)
            mine == Combined(n, from, {x.subject : x \in OwnShares(n)})
            out == SubShares(n) \cup {Receipt(r) : r \in mine}
        IN /\ held' = [held EXCEPT ![n] = from]
           /\ receipts' = [receipts EXCEPT ![n] = @ \cup mine]
           /\ dispatched' = [dispatched EXCEPT ![n] = @ \/ parcels # {}]
           /\ dealt' = [dealt EXCEPT ![n] = @ \/ \E s \in Subs(Prefix(n)) : Triggered(Prefix(n), s)]
           /\ slashed' = [slashed EXCEPT ![n] = @ \cup Defaults(Prefix(n))]
           /\ Gossip(n, out \cup (IF dispatched[n] THEN {} ELSE parcels), parcels, inbox[n])
  BY DEF Tick
<1> DEFINE from == held[n] \cup OwnShares(n)
           mine == Combined(n, from, {x.subject : x \in OwnShares(n)})
           out == SubShares(n) \cup {Receipt(r) : r \in mine}
           all == out \cup (IF dispatched[n] THEN {} ELSE parcels)
<1>2. mine \subseteq HandoffReceipt /\ from \subseteq [subject : Subject, dealer : Node]
  <2>1. {x.subject : x \in OwnShares(n)} \in SUBSET Subject /\ OwnShares(n) \subseteq [subject : Subject, dealer : Node]
    BY OwnSharesType
  <2> QED BY <2>1, CombinedType DEF TypeOK
<1>3. parcels \subseteq Message /\ all \subseteq Message
  <2>1. parcels \subseteq Message
    BY ParcelsType
  <2>2. SubShares(n) \subseteq Message
    BY SubSharesType
  <2>3. {Receipt(r) : r \in mine} \subseteq Message
    <3> HIDE DEF mine
    <3> QED BY <1>2, MessageTypes
  <2> QED BY <2>1, <2>2, <2>3
<1>4. inbox' \in [Node -> SUBSET Message]
  BY <1>1, <1>3, GossipAdds
<1>5. held' \in [Node -> SUBSET [subject : Subject, dealer : Node]] /\ receipts' \in [Node -> SUBSET HandoffReceipt]
  BY <1>1, <1>2 DEF TypeOK
<1>6. slashed' \in [Node -> SUBSET Node]
  BY <1>1, PrefixType, DefaultsType DEF TypeOK
<1>7. dispatched' \in [Node -> BOOLEAN] /\ dealt' \in [Node -> BOOLEAN]
  BY <1>1 DEF TypeOK
<1>8. UNCHANGED <<log, height, custody, relayed>>
  BY DEF Tick
<1> QED BY <1>4, <1>5, <1>6, <1>7, <1>8 DEF TypeOK

LEMMA TypeCustody == ASSUME TypeOK, NEW n \in Node, NEW m \in inbox[n], OnCustody(n, m) PROVE TypeOK'
<1> DEFINE mine == [member |-> n, subject |-> m.subject]
<1>1. m \in Message /\ m.type = "custody" /\ m.subject \in Subject
  BY MessageKinds DEF TypeOK, OnCustody, TakesParcel
<1>2. mine \in HandoffReceipt /\ Receipt(mine) \in Message
  BY <1>1, MessageTypes DEF HandoffReceipt
<1>3. Gossip(n, {Receipt(mine)}, {}, Rest(n, m)) /\ Rest(n, m) \in SUBSET inbox[n]
  BY DEF OnCustody, Rest
<1>4. inbox' \in [Node -> SUBSET Message]
  BY <1>2, <1>3, GossipAdds
<1> QED BY <1>1, <1>2, <1>4 DEF TypeOK, OnCustody

LEMMA TypeRelay == ASSUME TypeOK, NEW n \in Node, NEW m \in inbox[n], RelayCustody(n, m) PROVE TypeOK'
<1>1. m \in Message /\ m.type = "custody" /\ m.subject \in Subject /\ m.member \in Node
  BY MessageKinds DEF TypeOK, RelayCustody, RelaysParcel
<1>2. Gossip(n, {m}, {}, Rest(n, m)) /\ Rest(n, m) \in SUBSET inbox[n]
  BY DEF RelayCustody, Rest
<1>3. inbox' \in [Node -> SUBSET Message]
  BY <1>1, <1>2, GossipAdds
<1>4. relayed' \in [Node -> SUBSET (Subject \X Node)]
  <2>1. <<m.subject, m.member>> \in Subject \X Node
    BY <1>1
  <2>2. relayed' = [relayed EXCEPT ![n] = @ \cup {<<m.subject, m.member>>}]
    BY DEF RelayCustody
  <2> QED BY <2>1, <2>2 DEF TypeOK
<1> QED BY <1>3, <1>4 DEF TypeOK, RelayCustody

LEMMA TypeReshare == ASSUME TypeOK, NEW n \in Node, NEW m \in inbox[n], OnReshare(n, m) PROVE TypeOK'
<1> DEFINE from == held[n] \cup {[subject |-> m.subject, dealer |-> m.dealer]}
           mine == Combined(n, from, {m.subject})
           out == {Receipt(r) : r \in mine}
<1>1. m \in Message /\ m.type = "reshare" /\ m.subject \in Subject /\ m.dealer \in Node
  BY MessageKinds DEF TypeOK, OnReshare, TakesShare
<1>2. from \subseteq [subject : Subject, dealer : Node]
  BY <1>1 DEF TypeOK
<1>3. mine \subseteq HandoffReceipt
  BY <1>1, CombinedType
<1>4. /\ held' = [held EXCEPT ![n] = from] /\ receipts' = [receipts EXCEPT ![n] = @ \cup mine]
      /\ Gossip(n, out, {}, Rest(n, m)) /\ Rest(n, m) \in SUBSET inbox[n]
  BY DEF OnReshare, Rest
<1> HIDE DEF from, mine
<1>5. out \subseteq Message
  BY <1>3, MessageTypes
<1>6. inbox' \in [Node -> SUBSET Message]
  BY <1>4, <1>5, GossipAdds
<1> QED BY <1>2, <1>3, <1>4, <1>6 DEF TypeOK, OnReshare

LEMMA TypeReceipt == ASSUME TypeOK, NEW n \in Node, NEW m \in inbox[n], OnReceipt(n, m) PROVE TypeOK'
<1>1. m \in Message /\ m.receipt \in HandoffReceipt
  BY MessageKinds DEF TypeOK, OnReceipt, TakesReceipt
<1>2. Gossip(n, {m}, {}, Rest(n, m)) /\ Rest(n, m) \in SUBSET inbox[n]
  BY DEF OnReceipt, Rest
<1>3. inbox' \in [Node -> SUBSET Message]
  BY <1>1, <1>2, GossipAdds
<1> QED BY <1>1, <1>3 DEF TypeOK, OnReceipt

LEMMA TypeStep == TypeOK /\ [Next]_vars => TypeOK'
<1> SUFFICES ASSUME TypeOK, [Next]_vars PROVE TypeOK'
  OBVIOUS
<1>1. ASSUME NEW n \in Node, Turn(n) PROVE TypeOK'
  <2>1. CASE Advance(n)
    BY <2>1, TypeAdvance
  <2>2. CASE Receive(n)
    <3>1. PICK m \in inbox[n] :
              OnCustody(n, m) \/ RelayCustody(n, m) \/ OnReshare(n, m) \/ OnReceipt(n, m) \/ Ignore(n, m)
      BY <2>2 DEF Receive
    <3>2. CASE Ignore(n, m)
      BY <3>2 DEF TypeOK, Ignore, Rest
    <3> QED BY <3>1, <3>2, TypeCustody, TypeRelay, TypeReshare, TypeReceipt
  <2>3. CASE Finalize(n)
    BY <2>3, TypeFinalize
  <2>4. CASE QuietHead(n)
    BY <2>4 DEF TypeOK, QuietHead
  <2>5. CASE Tick(n)
    BY <2>5, TypeTick
  <2> QED BY <1>1, <2>1, <2>2, <2>3, <2>4, <2>5 DEF Turn
<1>2. CASE UNCHANGED vars
  BY <1>2 DEF TypeOK, vars
<1> QED BY <1>1, <1>2 DEF Next

(* Blocks, pools and messages speak of subjects, receipts and nodes: the tables of run() are well typed. *)
THEOREM HandoffTypeCorrect == Spec => []TypeOK
<1>1. Init => TypeOK
  BY TypeInit
<1>2. TypeOK /\ [Next]_vars => TypeOK'
  BY TypeStep
<1> QED BY <1>1, <1>2, PTL DEF Spec

-----------------------------------------------------------------------------
(* Receipts are recorded once: what a leader assembles is not on the chain that it extends. *)

LEMMA OnceStep == TypeOK /\ RecordedOnce /\ [Next]_vars => RecordedOnce'
<1> SUFFICES ASSUME TypeOK, RecordedOnce, [Next]_vars PROVE RecordedOnce'
  OBVIOUS
<1>1. ASSUME NEW n \in Node, Finalize(n) PROVE RecordedOnce'
  <2> DEFINE b == Assembled(n)
  <2>1. b \in HBlock /\ b \cap Recorded(log) = {}
    BY DEF TypeOK, Assembled, HBlock
  <2>2. log' = Append(log, b) /\ log \in Seq(HBlock) /\ Len(log) \in Nat
    BY <1>1 DEF TypeOK, Finalize
  <2> HIDE DEF b
  <2>3. /\ Len(log') = Len(log) + 1 /\ log'[Len(log) + 1] = b
        /\ \A i \in 1..Len(log) : log'[i] = log[i]
    BY <2>1, <2>2, LogAppend
  <2>4. \A i \in 1..Len(log) : log[i] \cap b = {}
    BY <2>1 DEF Recorded
  <2>5. ASSUME NEW i \in 1..Len(log'), NEW j \in 1..Len(log'), i # j
        PROVE  log'[i] \cap log'[j] = {}
    <3>1. CASE i \in 1..Len(log) /\ j \in 1..Len(log)
      BY <2>3, <2>5, <3>1 DEF RecordedOnce
    <3>2. CASE i = Len(log) + 1 \/ j = Len(log) + 1
      BY <2>2, <2>3, <2>4, <2>5, <3>2
    <3> QED BY <2>2, <2>3, <3>1, <3>2
  <2> QED BY <2>5 DEF RecordedOnce
<1>2. CASE log' = log
  BY <1>2 DEF RecordedOnce
<1>3. log' = log \/ \E n \in Node : Finalize(n)
  BY DEF Next, Turn, Advance, Receive, OnCustody, RelayCustody, OnReshare, OnReceipt, Ignore, QuietHead,
         Tick, vars
<1> QED BY <1>1, <1>2, <1>3

(* No receipt is on chain twice, whatever the pools of successive leaders hold. *)
THEOREM ReceiptsRecordedOnce == Spec => []RecordedOnce
<1>1. Init => RecordedOnce
  BY DEF Init, RecordedOnce
<1>2. TypeOK /\ RecordedOnce /\ [Next]_vars => RecordedOnce'
  BY OnceStep
<1> QED BY <1>1, <1>2, HandoffTypeCorrect, PTL DEF Spec

-----------------------------------------------------------------------------
(* Whoever is slashed has missed a deadline, and has missed it for good. *)

Missed(l, x) ==
    \E i \in 0..Len(l) : \E s \in Owed(SubSeq(l, 1, i)) :
        LET start == StartOf(SubSeq(l, 1, i), s)
        IN /\ x \in Committee(SubSeq(l, 1, i), s)
           /\ start + Deadline <= Len(l)
           /\ [member |-> x, subject |-> s] \notin Recorded(SubSeq(l, 1, start + Deadline))

LEMMA MissedStays ==
    ASSUME NEW l \in Seq(HBlock), NEW b \in HBlock, NEW x, Missed(l, x)
    PROVE  Missed(Append(l, b), x)
<1>1. PICK i \in 0..Len(l) : \E s \in Owed(SubSeq(l, 1, i)) :
          LET start == StartOf(SubSeq(l, 1, i), s)
          IN /\ x \in Committee(SubSeq(l, 1, i), s)
             /\ start + Deadline <= Len(l)
             /\ [member |-> x, subject |-> s] \notin Recorded(SubSeq(l, 1, start + Deadline))
  BY DEF Missed
<1> DEFINE path == SubSeq(l, 1, i)
<1>2. PICK s \in Owed(path) :
          /\ x \in Committee(path, s) /\ StartOf(path, s) + Deadline <= Len(l)
          /\ [member |-> x, subject |-> s] \notin Recorded(SubSeq(l, 1, StartOf(path, s) + Deadline))
  BY <1>1
<1> DEFINE k == StartOf(path, s) + Deadline
<1>3. Len(l) \in Nat /\ Len(path) = i /\ Len(path) \in Nat
  BY LogPrefix
<1>4. StartOf(path, s) \in Nat /\ k \in 0..Len(l)
  BY <1>2, <1>3, StartType, HandoffAssumption
<1>5. /\ Len(Append(l, b)) = Len(l) + 1
      /\ SubSeq(Append(l, b), 1, i) = path /\ SubSeq(Append(l, b), 1, k) = SubSeq(l, 1, k)
  BY <1>4, LogAppend
<1>6. i \in 0..Len(Append(l, b)) /\ k <= Len(Append(l, b))
  BY <1>3, <1>4, <1>5
<1> QED BY <1>2, <1>5, <1>6 DEF Missed

LEMMA DefaultsMissed ==
    ASSUME TypeOK, NEW n \in Node, NEW x \in Defaults(Prefix(n))
    PROVE  Missed(log, x)
<1> DEFINE path == Prefix(n)
<1>1. PICK s \in Owed(path) : ~Open(path, s) /\ x \in Committee(path, s) \ Completed(path, s)
  BY DEF Defaults
<1> DEFINE k == StartOf(path, s) + Deadline
<1>2. /\ Len(path) = height[n] /\ height[n] \in 0..Len(log) /\ Len(log) \in Nat /\ Len(path) \in Nat
      /\ log \in Seq(HBlock)
  BY PrefixType DEF TypeOK
<1>3. StartOf(path, s) \in Nat /\ k \in 0..height[n] /\ k <= Len(log)
  BY <1>1, <1>2, StartType, HandoffAssumption DEF Open
<1>4. [member |-> x, subject |-> s] \notin Recorded(path)
  BY <1>1 DEF Completed, Filed
<1>5. Recorded(SubSeq(log, 1, k)) \subseteq Recorded(path)
  <2>1. k \in 0..Len(log)
    BY <1>2, <1>3
  <2>2. \A i \in 1..k : SubSeq(log, 1, k)[i] = log[i] /\ path[i] = log[i]
    BY <1>2, <1>3, <2>1, LogPrefix DEF Prefix
  <2>3. Len(SubSeq(log, 1, k)) = k
    BY <1>2, <2>1, LogPrefix
  <2> HIDE DEF path, k
  <2> QED BY <1>2, <1>3, <2>2, <2>3 DEF Recorded
<1>6. path = SubSeq(log, 1, height[n])
  BY DEF Prefix
<1> QED BY <1>1, <1>2, <1>3, <1>4, <1>5, <1>6 DEF Missed

LEMMA SafeStep == TypeOK /\ FilersAreSafe /\ [Next]_vars => FilersAreSafe'
<1> SUFFICES ASSUME TypeOK, FilersAreSafe, [Next]_vars,
                    NEW n \in Node, NEW x \in slashed'[n]
             PROVE  Missed(log', x)
  BY DEF FilersAreSafe, Missed
<1>1. \A p \in Node : \A y \in slashed[p] : Missed(log, y)
  BY DEF FilersAreSafe, Missed
<1>2. CASE \E p \in Node : Finalize(p)
  <2>1. PICK p \in Node : Finalize(p)
    BY <1>2
  <2>2. log' = Append(log, Assembled(p)) /\ log \in Seq(HBlock) /\ Assembled(p) \in HBlock /\ slashed' = slashed
    BY <2>1 DEF TypeOK, Finalize, Assembled, HBlock
  <2> QED BY <1>1, <2>2, MissedStays
<1>3. CASE \E p \in Node : Tick(p)
  <2>1. PICK p \in Node : Tick(p)
    BY <1>3
  <2>2. log' = log /\ slashed' = [slashed EXCEPT ![p] = @ \cup Defaults(Prefix(p))]
    BY <2>1 DEF Tick
  <2>3. x \in slashed[n] \/ x \in Defaults(Prefix(p))
    BY <2>2 DEF TypeOK
  <2> QED BY <1>1, <2>1, <2>2, <2>3, DefaultsMissed
<1>4. CASE UNCHANGED <<log, slashed>>
  BY <1>1, <1>4
<1>5. (\E p \in Node : Finalize(p) \/ Tick(p)) \/ UNCHANGED <<log, slashed>>
  BY DEF Next, Turn, Advance, Receive, OnCustody, RelayCustody, OnReshare, OnReceipt, Ignore, QuietHead, vars
<1> QED BY <1>2, <1>3, <1>4, <1>5

(* Nobody is slashed who had his receipt on chain when the deadline was over. *)
THEOREM FilersSafe == Spec => []FilersAreSafe
<1>1. Init => FilersAreSafe
  BY DEF Init, FilersAreSafe
<1>2. TypeOK /\ FilersAreSafe /\ [Next]_vars => FilersAreSafe'
  BY SafeStep
<1> QED BY <1>1, <1>2, HandoffTypeCorrect, PTL DEF Spec

-----------------------------------------------------------------------------
(* Behind every receipt is custody. *)

LEMMA BackedStays ==
    ASSUME NEW c, NEW d, NEW h, NEW g, NEW r \in HandoffReceipt, Backed(c, h, r),
           \A n \in Node : c[n] \subseteq d[n] /\ h[n] \subseteq g[n]
    PROVE  Backed(d, g, r)
<1>1. r.member \in Node
  BY DEF HandoffReceipt
<1>2. CASE r.subject.round = 0
  BY <1>1, <1>2 DEF Backed
<1>3. CASE r.subject.round # 0
  <2>1. Dealers(c, h, r) \subseteq Dealers(d, g, r) /\ Dealers(d, g, r) \in SUBSET Node
    BY <1>1 DEF Dealers
  <2>2. IsFiniteSet(Dealers(d, g, r))
    BY <2>1, GenesisAssumption, FS_Subset
  <2>3. /\ Cardinality(Dealers(c, h, r)) \in Nat /\ Cardinality(Dealers(d, g, r)) \in Nat
        /\ Cardinality(Dealers(c, h, r)) <= Cardinality(Dealers(d, g, r))
    BY <2>1, <2>2, FS_Subset, FS_CardinalityType
  <2>4. Cardinality(Dealers(c, h, r)) >= CustodyThreshold /\ CustodyThreshold \in Nat
    BY <1>3, HandoffAssumption DEF Backed
  <2> QED BY <1>3, <2>3, <2>4 DEF Backed
<1> QED BY <1>2, <1>3

(* The sub-shares that a receipt of round 1 is filed for are of as many dealers. *)
LEMMA CombinedBacked ==
    ASSUME NEW c, NEW h, NEW n \in Node, h[n] \subseteq [subject : Subject, dealer : Node],
           \A x \in h[n] : ShareOK(c, x),
           NEW ss \in SUBSET Subject, \A s \in ss : s.round = 0,
           NEW r \in Combined(n, h[n], ss)
    PROVE  Backed(c, h, r)
<1>1. PICK s \in ss : /\ Cardinality(Shares(h[n], s)) >= CustodyThreshold
                      /\ r = [member |-> n, subject |-> Again(s)]
  BY DEF Combined
<1>2. s \in Subject /\ s.round = 0 /\ Again(s).round = 1 /\ Base(Again(s)) = s
  BY AgainBase
<1> DEFINE S == Shares(h[n], s)
           D == Dealers(c, h, r)
           f == [x \in S |-> x.dealer]
<1>3. ASSUME NEW x \in S
      PROVE  x.dealer \in D /\ x = [subject |-> s, dealer |-> x.dealer]
  <2>1. x \in h[n] /\ x.subject = s /\ x \in [subject : Subject, dealer : Node] /\ s \in c[x.dealer]
    BY DEF Shares, ShareOK
  <2>2. x = [subject |-> s, dealer |-> x.dealer] /\ x.dealer \in Node
    BY <2>1
  <2> QED BY <1>1, <1>2, <2>1, <2>2 DEF Dealers
<1>4. f \in Injection(S, D)
  <2>1. f \in [S -> D]
    BY <1>3
  <2>2. \A x, y \in S : f[x] = f[y] => x = y
    BY <1>3
  <2> QED BY <2>1, <2>2 DEF Injection, IsInjective
<1>5. IsFiniteSet(D)
  <2>1. D \in SUBSET Node
    BY DEF Dealers
  <2> QED BY <2>1, GenesisAssumption, FS_Subset
<1> HIDE DEF S, D, f
<1>6. IsFiniteSet(S) /\ Cardinality(S) <= Cardinality(D)
  BY <1>4, <1>5, FS_Injection
<1>7. Cardinality(S) \in Nat /\ Cardinality(D) \in Nat /\ CustodyThreshold \in Nat
  BY <1>5, <1>6, FS_CardinalityType, HandoffAssumption
<1>8. Cardinality(D) >= CustodyThreshold
  BY <1>1, <1>6, <1>7 DEF S
<1> QED BY <1>1, <1>2, <1>8 DEF Backed, D

(* Custody and sub-shares are never given up, so it is enough to look at what is new. *)
LEMMA NewIsBacked ==
    ASSUME IInv, TypeOK',
           \A n \in Node : custody[n] \subseteq custody'[n] /\ held[n] \subseteq held'[n],
           \A n \in Node : \A x \in held'[n] \ held[n] : ShareOK(custody', x),
           \A n \in Node : \A m \in inbox'[n] \ inbox[n] : MessageOK(custody', held', m),
           \A n \in Node : \A r \in receipts'[n] \ receipts[n] : Backed(custody', held', r),
           Recorded(log') \subseteq Recorded(log) \cup UNION {receipts[n] : n \in Node}
    PROVE  IInv'
<1>1. ASSUME NEW r \in HandoffReceipt, Backed(custody, held, r) PROVE Backed(custody', held', r)
  BY <1>1, BackedStays
<1>2. SharesOK'
  <2> SUFFICES ASSUME NEW n \in Node, NEW x \in held'[n] PROVE ShareOK(custody', x)
    BY DEF SharesOK
  <2>1. CASE x \in held[n]
    <3>1. x.dealer \in Node /\ ShareOK(custody, x)
      BY <2>1 DEF IInv, TypeOK, SharesOK
    <3> QED BY <3>1 DEF ShareOK
  <2> QED BY <2>1
<1>3. MessagesOK'
  <2> SUFFICES ASSUME NEW n \in Node, NEW m \in inbox'[n] PROVE MessageOK(custody', held', m)
    BY DEF MessagesOK
  <2>1. CASE m \in inbox[n]
    <3>1. m \in Message /\ MessageOK(custody, held, m)
      BY <2>1 DEF IInv, TypeOK, MessagesOK
    <3> QED BY <3>1, <1>1, MessageKinds DEF MessageOK
  <2> QED BY <2>1
<1>4. Recorded(log) \subseteq HandoffReceipt /\ \A n \in Node : receipts[n] \subseteq HandoffReceipt
  <2> DEFINE B == HBlock
  <2>1. log \in Seq(B)
    BY DEF IInv, TypeOK
  <2> HIDE DEF B
  <2>2. \A i \in 1..Len(log) : log[i] \in B
    BY <2>1
  <2> QED BY <2>2 DEF IInv, TypeOK, Recorded, B, HBlock
<1>5. \A r \in Recorded(log) \cup UNION {receipts[n] : n \in Node} : Backed(custody, held, r)
  BY DEF IInv, ReceiptsAreBacked, Backed, Dealers
<1>6. ASSUME NEW r \in Recorded(log') \cup UNION {receipts'[n] : n \in Node}
      PROVE  Backed(custody', held', r)
  <2>1. CASE r \in Recorded(log) \cup UNION {receipts[n] : n \in Node}
    BY <1>1, <1>4, <1>5, <2>1
  <2>2. CASE r \notin Recorded(log) \cup UNION {receipts[n] : n \in Node}
    <3>1. PICK n \in Node : r \in receipts'[n]
      BY <1>6, <2>2
    <3> QED BY <2>2, <3>1
  <2> QED BY <2>1, <2>2
<1>7. ReceiptsAreBacked'
  BY <1>6 DEF ReceiptsAreBacked, Backed, Dealers
<1> QED BY <1>2, <1>3, <1>7 DEF IInv

LEMMA BackedFinalize == ASSUME IInv, NEW n \in Node, Finalize(n) PROVE IInv'
<1>1. TypeOK' /\ TypeOK
  BY TypeFinalize DEF IInv
<1>2. log' = Append(log, Assembled(n)) /\ UNCHANGED <<custody, held, receipts, inbox>>
  BY DEF Finalize
<1>3. Assembled(n) \in HBlock /\ Assembled(n) \subseteq receipts[n] /\ log \in Seq(HBlock)
  BY <1>1 DEF TypeOK, Assembled, HBlock
<1>4. Recorded(log') = Recorded(log) \cup Assembled(n)
  BY <1>2, <1>3, LogAppend
<1>5. Recorded(log') \subseteq Recorded(log) \cup UNION {receipts[p] : p \in Node}
  BY <1>3, <1>4
<1> QED BY <1>1, <1>2, <1>5, NewIsBacked

LEMMA BackedAdvance == ASSUME IInv, NEW n \in Node, Advance(n) PROVE IInv'
<1>1. TypeOK' /\ TypeOK
  BY TypeAdvance DEF IInv
<1>2. UNCHANGED <<log, custody, held>>
  BY DEF Advance
<1>3. \A p \in Node : receipts'[p] \subseteq receipts[p] /\ inbox'[p] \subseteq inbox[p]
  BY <1>1 DEF Advance, TypeOK
<1> QED BY <1>1, <1>2, <1>3, NewIsBacked

LEMMA BackedTick == ASSUME IInv, NEW n \in Node, Tick(n) PROVE IInv'
<1> DEFINE new == OwnShares(n)
           from == held[n] \cup new
           mine == Combined(n, from, {x.subject : x \in new})
           out == SubShares(n) \cup {Receipt(r) : r \in mine}
<1>1. TypeOK' /\ TypeOK /\ SharesOK
  BY TypeTick DEF IInv
<1>2. PICK parcels \in {{}, Parcels(n)} :
        /\ held' = [held EXCEPT ![n] = from]
        /\ receipts' = [receipts EXCEPT ![n] = @ \cup mine]
        /\ Gossip(n, out \cup (IF dispatched[n] THEN {} ELSE parcels), parcels, inbox[n])
  BY DEF Tick
<1> DEFINE all == out \cup (IF dispatched[n] THEN {} ELSE parcels)
<1>3. UNCHANGED <<log, custody>>
  BY DEF Tick
<1>4. \A x \in new : /\ x \in [subject : Subject, dealer : Node] /\ x.dealer = n
                     /\ x.subject \in Subject /\ x.subject.round = 0 /\ x.subject \in custody[n]
  BY <1>1, OwnSharesType
<1> HIDE DEF new
<1>5. /\ held'[n] = from /\ \A p \in Node : p # n => held'[p] = held[p]
      /\ receipts'[n] = receipts[n] \cup mine /\ \A p \in Node : p # n => receipts'[p] = receipts[p]
  BY <1>1, <1>2 DEF TypeOK
<1>6. from \subseteq [subject : Subject, dealer : Node] /\ \A x \in from : ShareOK(custody, x)
  BY <1>1, <1>4 DEF TypeOK, SharesOK, ShareOK
<1>7. /\ {x.subject : x \in new} \in SUBSET Subject
      /\ \A s \in {x.subject : x \in new} : s.round = 0
  BY <1>4
<1>8. \A r \in mine : Backed(custody, held', r)
  BY <1>5, <1>6, <1>7, CombinedBacked
<1>9. mine \subseteq HandoffReceipt
  BY <1>7, CombinedType
<1> HIDE DEF mine, from
<1>10. /\ \A m \in SubShares(n) : m \in Message /\ MessageOK(custody, held', m)
       /\ \A m \in parcels : m \in Message /\ MessageOK(custody, held', m)
  <2>1. \A m \in SubShares(n) : m \in Message /\ MessageOK(custody, held', m)
    BY <1>1, SubSharesType DEF MessageOK
  <2>2. \A m \in parcels : m \in Message /\ MessageOK(custody, held', m)
    BY <1>1, ParcelsType DEF MessageOK
  <2> QED BY <2>1, <2>2
<1>11. \A r \in mine : Receipt(r) \in Message /\ MessageOK(custody, held', Receipt(r))
  BY <1>8, <1>9, MessageTypes DEF MessageOK, Receipt
<1>12. \A m \in all \cup parcels : m \in Message /\ MessageOK(custody, held', m)
  BY <1>10, <1>11
<1>13. \A p \in Node : inbox'[p] \subseteq inbox[p] \cup (all \cup parcels)
  <2>1. all \in SUBSET Message /\ parcels \in SUBSET Message /\ inbox[n] \in SUBSET inbox[n]
    BY <1>12
  <2>2. Gossip(n, all, parcels, inbox[n])
    BY <1>2
  <2> HIDE DEF all
  <2>3. \A p \in Node : inbox'[p] \subseteq inbox[p] \cup all \cup parcels
    BY <1>1, <2>1, <2>2, GossipAdds
  <2> QED BY <2>3
<1> HIDE DEF all
<1>14. \A p \in Node : held[p] \subseteq held'[p] /\ \A x \in held'[p] \ held[p] : ShareOK(custody', x)
  BY <1>3, <1>5, <1>6 DEF from
<1>15. \A p \in Node : \A r \in receipts'[p] \ receipts[p] : Backed(custody', held', r)
  BY <1>3, <1>5, <1>8
<1>16. \A p \in Node : \A m \in inbox'[p] \ inbox[p] : MessageOK(custody', held', m)
  BY <1>3, <1>12, <1>13
<1> QED BY <1>1, <1>3, <1>14, <1>15, <1>16, NewIsBacked

LEMMA BackedCustody == ASSUME IInv, NEW n \in Node, NEW m \in inbox[n], OnCustody(n, m) PROVE IInv'
<1> DEFINE mine == [member |-> n, subject |-> m.subject]
<1>1. TypeOK' /\ TypeOK
  BY TypeCustody DEF IInv
<1>2. m \in Message /\ m.type = "custody" /\ m.subject \in Subject /\ m.subject.round = 0
  BY MessageKinds DEF IInv, TypeOK, OnCustody, TakesParcel, MessagesOK, MessageOK
<1>3. UNCHANGED <<log, held>>
  BY DEF OnCustody
<1>4. /\ custody'[n] = custody[n] \cup {m.subject} /\ \A p \in Node : p # n => custody'[p] = custody[p]
      /\ receipts'[n] = receipts[n] \cup {mine} /\ \A p \in Node : p # n => receipts'[p] = receipts[p]
  BY <1>1 DEF OnCustody, TypeOK
<1>5. Backed(custody', held', mine)
  BY <1>2, <1>4 DEF Backed
<1>6. mine \in HandoffReceipt
  BY <1>2 DEF HandoffReceipt
<1> HIDE DEF mine
<1>7. Receipt(mine) \in Message /\ MessageOK(custody', held', Receipt(mine))
  BY <1>5, <1>6, MessageTypes DEF MessageOK, Receipt
<1>8. \A p \in Node : inbox'[p] \subseteq inbox[p] \cup {Receipt(mine)}
  <2>1. Gossip(n, {Receipt(mine)}, {}, Rest(n, m)) /\ Rest(n, m) \in SUBSET inbox[n]
    BY DEF OnCustody, Rest, mine
  <2>2. {Receipt(mine)} \in SUBSET Message
    BY <1>7
  <2> QED BY <1>1, <2>1, <2>2, GossipOne
<1> QED BY <1>1, <1>3, <1>4, <1>5, <1>7, <1>8, NewIsBacked

LEMMA BackedRelay == ASSUME IInv, NEW n \in Node, NEW m \in inbox[n], RelayCustody(n, m) PROVE IInv'
<1>1. TypeOK' /\ TypeOK
  BY TypeRelay DEF IInv
<1>2. m \in Message /\ MessageOK(custody, held, m)
  BY DEF IInv, TypeOK, MessagesOK
<1>3. UNCHANGED <<log, custody, held, receipts>>
  BY DEF RelayCustody
<1>4. \A p \in Node : inbox'[p] \subseteq inbox[p] \cup {m}
  <2>1. Gossip(n, {m}, {}, Rest(n, m)) /\ Rest(n, m) \in SUBSET inbox[n]
    BY DEF RelayCustody, Rest
  <2>2. {m} \in SUBSET Message
    BY <1>2
  <2> QED BY <1>1, <2>1, <2>2, GossipOne
<1> QED BY <1>1, <1>2, <1>3, <1>4, NewIsBacked

LEMMA BackedReshare == ASSUME IInv, NEW n \in Node, NEW m \in inbox[n], OnReshare(n, m) PROVE IInv'
<1> DEFINE new == [subject |-> m.subject, dealer |-> m.dealer]
           from == held[n] \cup {new}
           mine == Combined(n, from, {m.subject})
           out == {Receipt(r) : r \in mine}
<1>1. TypeOK' /\ TypeOK /\ SharesOK
  BY TypeReshare DEF IInv
<1>2. /\ m \in Message /\ m.type = "reshare" /\ m.subject \in Subject /\ m.dealer \in Node
      /\ m.subject.round = 0 /\ m.subject \in custody[m.dealer]
  BY MessageKinds DEF IInv, TypeOK, OnReshare, TakesShare, MessagesOK, MessageOK
<1>3. /\ held' = [held EXCEPT ![n] = from] /\ receipts' = [receipts EXCEPT ![n] = @ \cup mine]
      /\ Gossip(n, out, {}, Rest(n, m)) /\ Rest(n, m) \in SUBSET inbox[n]
      /\ UNCHANGED <<log, custody>>
  BY DEF OnReshare, Rest
<1>4. new \in [subject : Subject, dealer : Node] /\ ShareOK(custody, new)
  BY <1>2 DEF ShareOK
<1> HIDE DEF new
<1>5. from \subseteq [subject : Subject, dealer : Node] /\ \A x \in from : ShareOK(custody, x)
  BY <1>1, <1>4 DEF TypeOK, SharesOK
<1>6. /\ held'[n] = from /\ \A p \in Node : p # n => held'[p] = held[p]
      /\ receipts'[n] = receipts[n] \cup mine /\ \A p \in Node : p # n => receipts'[p] = receipts[p]
  BY <1>1, <1>3 DEF TypeOK
<1>7. \A r \in mine : Backed(custody, held', r)
  BY <1>2, <1>5, <1>6, CombinedBacked
<1>8. mine \subseteq HandoffReceipt
  BY <1>2, CombinedType
<1> HIDE DEF mine, from
<1>9. \A x \in out : x \in Message /\ MessageOK(custody, held', x)
  BY <1>7, <1>8, MessageTypes DEF MessageOK, Receipt
<1> HIDE DEF out
<1>10. \A p \in Node : inbox'[p] \subseteq inbox[p] \cup out
  <2>1. out \in SUBSET Message
    BY <1>9
  <2> QED BY <1>1, <1>3, <2>1, GossipOne
<1>11. \A p \in Node : held[p] \subseteq held'[p] /\ \A x \in held'[p] \ held[p] : ShareOK(custody', x)
  BY <1>3, <1>5, <1>6 DEF from
<1>12. \A p \in Node : \A r \in receipts'[p] \ receipts[p] : Backed(custody', held', r)
  BY <1>3, <1>6, <1>7
<1>13. \A p \in Node : \A x \in inbox'[p] \ inbox[p] : MessageOK(custody', held', x)
  BY <1>3, <1>9, <1>10
<1> QED BY <1>1, <1>3, <1>11, <1>12, <1>13, NewIsBacked

LEMMA BackedReceipt == ASSUME IInv, NEW n \in Node, NEW m \in inbox[n], OnReceipt(n, m) PROVE IInv'
<1>1. TypeOK' /\ TypeOK
  BY TypeReceipt DEF IInv
<1>2. m \in Message /\ MessageOK(custody, held, m) /\ m.type = "receipt"
  BY DEF IInv, TypeOK, MessagesOK, OnReceipt, TakesReceipt
<1>3. UNCHANGED <<log, custody, held>>
  BY DEF OnReceipt
<1>4. \A p \in Node : receipts'[p] \subseteq receipts[p] \cup {m.receipt}
  BY <1>1 DEF OnReceipt, TypeOK
<1>5. \A p \in Node : inbox'[p] \subseteq inbox[p] \cup {m}
  <2>1. Gossip(n, {m}, {}, Rest(n, m)) /\ Rest(n, m) \in SUBSET inbox[n]
    BY DEF OnReceipt, Rest
  <2>2. {m} \in SUBSET Message
    BY <1>2
  <2> QED BY <1>1, <2>1, <2>2, GossipOne
<1>6. Backed(custody', held', m.receipt) /\ MessageOK(custody', held', m)
  BY <1>2, <1>3 DEF MessageOK
<1>7. \A p \in Node : \A r \in receipts'[p] \ receipts[p] : Backed(custody', held', r)
  BY <1>4, <1>6
<1> QED BY <1>1, <1>3, <1>5, <1>6, <1>7, NewIsBacked

LEMMA BackedStep == IInv /\ [Next]_vars => IInv'
<1> SUFFICES ASSUME IInv, [Next]_vars PROVE IInv'
  OBVIOUS
<1>1. TypeOK /\ TypeOK'
  BY TypeStep DEF IInv
<1>2. CASE /\ UNCHANGED <<log, custody, held, receipts>>
           /\ \A p \in Node : inbox'[p] \subseteq inbox[p]
  BY <1>1, <1>2, NewIsBacked
<1>3. ASSUME NEW n \in Node, Turn(n) PROVE IInv'
  <2>1. CASE Receive(n)
    <3>1. PICK m \in inbox[n] :
              OnCustody(n, m) \/ RelayCustody(n, m) \/ OnReshare(n, m) \/ OnReceipt(n, m) \/ Ignore(n, m)
      BY <2>1 DEF Receive
    <3>2. CASE Ignore(n, m)
      BY <1>1, <1>2, <3>2 DEF TypeOK, Ignore, Rest
    <3> QED BY <3>1, <3>2, BackedCustody, BackedRelay, BackedReshare, BackedReceipt
  <2>2. CASE QuietHead(n)
    BY <1>2, <2>2 DEF QuietHead
  <2> QED BY <1>3, <2>1, <2>2, BackedAdvance, BackedFinalize, BackedTick DEF Turn
<1>4. CASE UNCHANGED vars
  BY <1>2, <1>4 DEF vars
<1> QED BY <1>3, <1>4 DEF Next

(***************************************************************************)
(* A receipt, pooled or recorded, is never an empty promise: its member    *)
(* holds the leaver's share, or sub-shares of a threshold of holders.      *)
(***************************************************************************)
THEOREM ReceiptsBacked == Spec => []ReceiptsAreBacked
<1>1. Init => IInv
  <2> SUFFICES ASSUME Init PROVE IInv
    OBVIOUS
  <2>1. Recorded(log) = {} /\ \A n \in Node : receipts[n] = {} /\ held[n] = {} /\ inbox[n] = {}
    BY DEF Init, Recorded
  <2> QED BY <2>1, TypeInit DEF IInv, SharesOK, MessagesOK, ReceiptsAreBacked
<1>2. IInv /\ [Next]_vars => IInv'
  BY BackedStep
<1>3. IInv => ReceiptsAreBacked
  BY DEF IInv
<1> QED BY <1>1, <1>2, <1>3, PTL DEF Spec
=============================================================================
