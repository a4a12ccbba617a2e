-------------------------- MODULE ConnectionsProofs --------------------------
(* The maps of peers name the connections that are read, and no peer is dialled twice at a time. *)
EXTENDS Connections, FiniteSetTheorems, TLAPS

(* The connections that the dial task of n is to be told the end of. *)
Dialled(n, m) == {c \in Used : conn[c].from = n /\ conn[c].to = m /\ conn[c].end["from"] # "closed"}

(***************************************************************************)
(* The inductive invariant.  The smaller id dials, so that the two ends of *)
(* a connection are of different nodes and an entry of the map belongs to  *)
(* one end; the dial task's set is told apart by what it has under way.    *)
(***************************************************************************)
IInv ==
    /\ TypeOK
    /\ \A c \in Used : conn[c].from < conn[c].to
    /\ EntriesHaveReaders
    /\ \A n, m \in Node : /\ \A c, d \in Dialled(n, m) : c = d
                          /\ m \in inflight[n] <=> Dialled(n, m) # {}

(***************************************************************************)
(* The ends in K are closed, and a connection goes when none is left: what *)
(* Greet does to a redundant connection, Fail to one end and Restart to    *)
(* all ends of a node.                                                     *)
(***************************************************************************)
Closes(K) ==
    /\ Used' \subseteq Used
    /\ \A x \in Used' :
          /\ conn'[x] \in Conn /\ conn'[x].from = conn[x].from /\ conn'[x].to = conn[x].to
          /\ \A f \in Side : conn'[x].end[f] = IF <<x, f>> \in K THEN "closed" ELSE conn[x].end[f]
    /\ \A x \in Used, f \in Side : <<x, f>> \notin K /\ conn[x].end[f] # "closed" => x \in Used'

(* What is left of the connections are those with an end that is not closed, as they were. *)
LEMMA LiveParts ==
    ASSUME NEW cs
    PROVE  /\ DOMAIN Live(cs) = {x \in DOMAIN cs : \E e \in Side : cs[x].end[e] # "closed"}
           /\ \A x \in DOMAIN Live(cs) : Live(cs)[x] = cs[x]
BY DEF Live

(* No connection has the number that stands for none. *)
LEMMA SlotNotZero == ASSUME TypeOK PROVE 0 \notin Used
BY ConnectionsAssumption DEF TypeOK

(* The two ends of a connection have different owners. *)
LEMMA EndsDiffer ==
    ASSUME IInv, NEW c \in Used, NEW e \in Side
    PROVE  /\ Owner(c, e) \in Node /\ Remote(c, e) \in Node /\ Owner(c, e) # Remote(c, e)
           /\ Other(e) \in Side
           /\ \A f \in Side : Owner(c, f) = Owner(c, e) => f = e
<1>1. conn[c] \in Conn /\ conn[c].from < conn[c].to
  BY DEF IInv, TypeOK
<1>2. conn[c].from \in Node /\ conn[c].to \in Node
  BY <1>1 DEF Conn
<1>3. conn[c].from # conn[c].to
  <2>1. \A n \in Node : n \in Int
    BY ConnectionsAssumption
  <2>2. ASSUME NEW x \in Int, NEW y \in Int, x < y PROVE x # y
    BY <2>2
  <2> QED BY <1>1, <1>2, <2>1, <2>2
<1> QED BY <1>2, <1>3 DEF Owner, Remote, Other, Side

(***************************************************************************)
(* Closing ends keeps the invariant when the entries and the dial task are *)
(* told of exactly those.                                                  *)
(***************************************************************************)
LEMMA ClosesOK ==
    ASSUME IInv, NEW K, Closes(K),
           members' \subseteq Node, known' \in [Node -> SUBSET Node], faults' \in 0..MaxFaults,
           peers' \in [Node -> [Node -> {0} \cup Used]], inflight' \in [Node -> SUBSET Node],
           \A n, m \in Node : peers'[n][m] \in {0, peers[n][m]},
           \A x \in Used, f \in Side : conn[x].end[f] = "open" =>
              (<<x, f>> \in K <=> peers'[Owner(x, f)][Remote(x, f)] = 0),
           \A n \in Node : inflight'[n] \subseteq inflight[n],
           \A x \in Used : conn[x].end["from"] # "closed" =>
              (<<x, "from">> \in K <=> conn[x].to \notin inflight'[conn[x].from])
    PROVE  IInv'
<1>1. TypeOK /\ EntriesHaveReaders /\ 0 \notin Used
  BY SlotNotZero DEF IInv
<1>2. \A x \in Used' : x \in Used /\ \A f \in Side : Owner(x, f)' = Owner(x, f) /\ Remote(x, f)' = Remote(x, f)
  BY DEF Closes, Owner, Remote, Other, Side
<1>3. \A x \in Used', f \in Side : conn'[x].end[f] # "closed" =>
         <<x, f>> \notin K /\ conn'[x].end[f] = conn[x].end[f]
  BY DEF Closes
<1>4. ASSUME NEW n \in Node, NEW m \in Node, peers'[n][m] # 0
      PROVE  \E c \in Used', e \in Side :
                c = peers'[n][m] /\ Owner(c, e)' = n /\ Remote(c, e)' = m /\ conn'[c].end[e] = "open"
  <2>1. peers'[n][m] = peers[n][m] /\ peers[n][m] # 0 /\ peers[n][m] \in Used
    BY <1>1, <1>4 DEF TypeOK
  <2>2. PICK e \in Side : /\ Owner(peers[n][m], e) = n /\ Remote(peers[n][m], e) = m
                          /\ conn[peers[n][m]].end[e] = "open"
    BY <1>1, <2>1 DEF EntriesHaveReaders
  <2>3. <<peers[n][m], e>> \notin K
    BY <1>4, <2>1, <2>2
  <2>4. peers[n][m] \in Used'
    BY <2>1, <2>2, <2>3 DEF Closes
  <2>5. conn'[peers[n][m]].end[e] = "open"
    BY <2>2, <2>3, <2>4 DEF Closes
  <2> QED BY <1>2, <2>1, <2>2, <2>4, <2>5
<1>5. ASSUME NEW c \in Used', NEW e \in Side, conn'[c].end[e] = "open"
      PROVE  peers'[Owner(c, e)'][Remote(c, e)'] = c
  <2>1. c \in Used /\ <<c, e>> \notin K /\ conn[c].end[e] = "open"
    BY <1>2, <1>3, <1>5
  <2>2. Owner(c, e) \in Node /\ Remote(c, e) \in Node
    BY <2>1, EndsDiffer
  <2>3. peers[Owner(c, e)][Remote(c, e)] = c /\ peers'[Owner(c, e)][Remote(c, e)] # 0
    BY <1>1, <2>1 DEF EntriesHaveReaders
  <2> QED BY <1>2, <2>2, <2>3
<1>6. ASSUME NEW n \in Node, NEW m \in Node
      PROVE  /\ \A c, d \in Dialled(n, m)' : c = d
             /\ m \in inflight'[n] <=> Dialled(n, m)' # {}
  <2>1. Dialled(n, m)' \subseteq Dialled(n, m)
    BY <1>2, <1>3 DEF Dialled, Closes, Side
  <2>2. \A c \in Dialled(n, m)' : m \in inflight'[n]
    BY <1>2, <1>3, <2>1 DEF Dialled, Closes, Side
  <2>3. ASSUME m \in inflight'[n] PROVE Dialled(n, m)' # {}
    <3>1. PICK c : c \in Dialled(n, m)
      BY <2>3 DEF IInv
    <3>2. c \in Used /\ conn[c].end["from"] # "closed" /\ <<c, "from">> \notin K
      BY <2>3, <3>1 DEF Dialled
    <3>3. c \in Used' /\ conn'[c].end["from"] # "closed"
      BY <3>2 DEF Closes, Side
    <3> QED BY <3>1, <3>3 DEF Dialled, Closes
  <2> QED BY <2>1, <2>2, <2>3 DEF IInv
<1>7. TypeOK'
  <2>1. \A n, m \in Node : peers'[n][m] \in {0} \cup Used'
    BY <1>4
  <2>2. peers' \in [Node -> [Node -> {0} \cup Used']]
    <3>1. \A n \in Node : peers'[n] \in [Node -> {0} \cup Used']
      BY <2>1
    <3> QED BY <3>1
  <2>3. Used' \subseteq Slot /\ \A c \in Used' : conn'[c] \in Conn
    BY <1>1 DEF TypeOK, Closes
  <2> QED BY <2>2, <2>3 DEF TypeOK
<1>8. EntriesHaveReaders'
  BY <1>4, <1>5 DEF EntriesHaveReaders, Owner, Remote
<1>9. \A c \in Used' : conn'[c].from < conn'[c].to
  BY <1>2 DEF Closes, IInv
<1> QED BY <1>6, <1>7, <1>8, <1>9 DEF IInv

(* The dial task is told when an end that it dialled is closed. *)
LEMMA ReturnedParts ==
    ASSUME IInv, NEW c \in Used, NEW e \in Side, conn[c].end[e] # "closed", inflight' = Returned(c, e)
    PROVE  /\ inflight' \in [Node -> SUBSET Node] /\ \A n \in Node : inflight'[n] \subseteq inflight[n]
           /\ \A x \in Used : conn[x].end["from"] # "closed" =>
                 (<<x, "from">> \in {<<c, e>>} <=> conn[x].to \notin inflight'[conn[x].from])
<1>1. TypeOK /\ \A x \in Used : conn[x].from \in Node /\ conn[x].to \in Node
  BY DEF IInv, TypeOK, Conn
<1>2. \A x \in Used : conn[x].end["from"] # "closed" => conn[x].to \in inflight[conn[x].from]
  BY <1>1 DEF IInv, Dialled
<1>3. CASE e = "from"
  <2>1. inflight' = [inflight EXCEPT ![conn[c].from] = @ \ {conn[c].to}]
    BY <1>3 DEF Returned
  <2>2. /\ inflight' \in [Node -> SUBSET Node] /\ \A n \in Node : inflight'[n] \subseteq inflight[n]
        /\ \A n \in Node : \A m \in inflight[n] :
              m \notin inflight'[n] <=> n = conn[c].from /\ m = conn[c].to
    BY <1>1, <2>1 DEF TypeOK
  <2>3. ASSUME NEW x \in Used, conn[x].end["from"] # "closed"
        PROVE  x = c <=> conn[x].to \notin inflight'[conn[x].from]
    <3>1. conn[x].to \notin inflight'[conn[x].from] <=> conn[x].from = conn[c].from /\ conn[x].to = conn[c].to
      BY <1>1, <1>2, <2>2, <2>3
    <3>2. conn[x].from = conn[c].from /\ conn[x].to = conn[c].to => x = c
      BY <1>1, <1>3, <2>3 DEF IInv, Dialled
    <3> QED BY <3>1, <3>2
  <2> QED BY <1>3, <2>2, <2>3
<1>4. CASE e # "from"
  BY <1>1, <1>2, <1>4 DEF Returned, TypeOK
<1> QED BY <1>3, <1>4

(* One end is closed. *)
LEMMA CloseParts ==
    ASSUME IInv, NEW c \in Used, NEW e \in Side, conn' = Live([conn EXCEPT ![c] = Close(c, e)])
    PROVE  Closes({<<c, e>>})
<1> DEFINE cs == [conn EXCEPT ![c] = Close(c, e)]
<1>1. \A x \in Used : conn[x] \in Conn
  BY DEF IInv, TypeOK
<1>2. DOMAIN cs = Used /\ \A x \in Used : cs[x] = IF x = c THEN Close(c, e) ELSE conn[x]
  BY DEF Used
<1>3. /\ Close(c, e) \in Conn /\ Close(c, e).from = conn[c].from /\ Close(c, e).to = conn[c].to
      /\ \A f \in Side : Close(c, e).end[f] = IF f = e THEN "closed" ELSE conn[c].end[f]
  BY <1>1 DEF Close, Conn, Side, EndState
<1> HIDE DEF cs
<1>4. \A x \in Used : /\ cs[x] \in Conn /\ cs[x].from = conn[x].from /\ cs[x].to = conn[x].to
                      /\ \A f \in Side : cs[x].end[f] = IF <<x, f>> \in {<<c, e>>} THEN "closed" ELSE conn[x].end[f]
  BY <1>1, <1>2, <1>3
<1>5. conn' = Live(cs)
  BY DEF cs
<1>6. /\ Used' = {x \in Used : \E f \in Side : cs[x].end[f] # "closed"}
      /\ \A x \in Used' : conn'[x] = cs[x]
  BY <1>2, <1>5, LiveParts DEF Used
<1>7. \A x \in Used, f \in Side : <<x, f>> \notin {<<c, e>>} /\ conn[x].end[f] # "closed" => x \in Used'
  BY <1>4, <1>6
<1>8. \A x \in Used' : x \in Used /\ conn'[x] = cs[x]
  BY <1>6
<1>9. ASSUME NEW x \in Used'
      PROVE  /\ conn'[x] \in Conn /\ conn'[x].from = conn[x].from /\ conn'[x].to = conn[x].to
             /\ \A f \in Side : conn'[x].end[f] = IF <<x, f>> \in {<<c, e>>} THEN "closed" ELSE conn[x].end[f]
  <2>1. x \in Used /\ conn'[x] = cs[x]
    BY <1>8
  <2> QED BY <1>4, <2>1
<1>10. Used' \subseteq Used
  BY <1>8
<1> QED BY <1>7, <1>9, <1>10 DEF Closes

-----------------------------------------------------------------------------
LEMMA DialOK == ASSUME IInv, NEW n \in Node, NEW m \in Node, Dial(n, m) PROVE IInv'
<1> DEFINE new == [from |-> n, to |-> m, end |-> [e \in Side |-> "hello"], cut |-> FALSE]
<1>1. PICK c \in Slot \ Used :
         conn' = [x \in Used \cup {c} |-> IF x = c THEN new ELSE conn[x]]
  BY DEF Dial
<1>2. /\ new \in Conn /\ new.from = n /\ new.to = m /\ \A e \in Side : new.end[e] = "hello"
  BY DEF Conn, Side, EndState
<1> HIDE DEF new
<1>3. /\ Used' = Used \cup {c} /\ conn'[c] = new /\ \A x \in Used : conn'[x] = conn[x]
  BY <1>1 DEF Used
<1>4. /\ n < m /\ m \notin inflight[n] /\ TypeOK
      /\ inflight' = [inflight EXCEPT ![n] = @ \cup {m}]
      /\ UNCHANGED <<members, known, peers, faults>>
  BY DEF Dial, Busy, IInv
<1>5. \A x \in Used, e \in Side : Owner(x, e)' = Owner(x, e) /\ Remote(x, e)' = Remote(x, e)
  BY <1>3 DEF Owner, Remote, Other, Side
<1>6. TypeOK'
  <2>1. peers' \in [Node -> [Node -> {0} \cup Used']]
    BY <1>3, <1>4 DEF TypeOK
  <2>2. inflight' \in [Node -> SUBSET Node]
    BY <1>4 DEF TypeOK
  <2> QED BY <1>2, <1>3, <1>4, <2>1, <2>2 DEF TypeOK
<1>7. EntriesHaveReaders'
  <2>1. \A p, q \in Node : peers[p][q] # 0 => peers[p][q] \in Used
    BY <1>4 DEF TypeOK
  <2>2. \A x \in Used', e \in Side : conn'[x].end[e] = "open" => x \in Used /\ conn[x].end[e] = "open"
    BY <1>2, <1>3
  <2> QED BY <1>3, <1>4, <1>5, <2>1, <2>2 DEF IInv, EntriesHaveReaders
<1>8. ASSUME NEW p \in Node, NEW q \in Node
      PROVE  /\ \A x, y \in Dialled(p, q)' : x = y
             /\ q \in inflight'[p] <=> Dialled(p, q)' # {}
  <2>1. Dialled(p, q)' = Dialled(p, q) \cup {x \in {c} : p = n /\ q = m}
    BY <1>1, <1>2, <1>3 DEF Dialled, Side
  <2>2. q \in inflight'[p] <=> q \in inflight[p] \/ (p = n /\ q = m)
    BY <1>4 DEF TypeOK
  <2>3. p = n /\ q = m => Dialled(p, q) = {}
    BY <1>4 DEF IInv
  <2> QED BY <2>1, <2>2, <2>3 DEF IInv
<1>9. \A x \in Used' : conn'[x].from < conn'[x].to
  BY <1>2, <1>3, <1>4 DEF IInv
<1> QED BY <1>6, <1>7, <1>8, <1>9 DEF IInv

(* A handshake ends in an entry for the new connection or in closing it. *)
LEMMA GreetOK == ASSUME IInv, NEW c \in Slot, NEW e \in Side, Greet(c, e) PROVE IInv'
<1> DEFINE n == Owner(c, e)  m == Remote(c, e)
<1>1. /\ TypeOK /\ c \in Used /\ conn[c] \in Conn /\ conn[c].end[e] = "hello"
      /\ UNCHANGED <<members, faults>> /\ c # 0
  BY SlotNotZero DEF Greet, IInv, TypeOK
<1>2. n \in Node /\ m \in Node
  BY <1>1, EndsDiffer
<1>3. known' \in [Node -> SUBSET Node]
  BY <1>1, <1>2 DEF Greet, TypeOK
<1>4. CASE Redundant(n, m)
  <2>1. /\ conn' = Live([conn EXCEPT ![c] = Close(c, e)]) /\ inflight' = Returned(c, e)
        /\ peers' = peers
    BY <1>4 DEF Greet
  <2>2. Closes({<<c, e>>})
    BY <1>1, <2>1, CloseParts
  <2>3. /\ inflight' \in [Node -> SUBSET Node] /\ \A p \in Node : inflight'[p] \subseteq inflight[p]
        /\ \A x \in Used : conn[x].end["from"] # "closed" =>
              (<<x, "from">> \in {<<c, e>>} <=> conn[x].to \notin inflight'[conn[x].from])
    BY <1>1, <2>1, ReturnedParts
  <2>4. \A x \in Used, f \in Side : conn[x].end[f] = "open" =>
           (<<x, f>> \in {<<c, e>>} <=> peers'[Owner(x, f)][Remote(x, f)] = 0)
    <3>1. \A x \in Used, f \in Side : conn[x].end[f] = "open" => peers[Owner(x, f)][Remote(x, f)] # 0
      BY <1>1, SlotNotZero DEF IInv, EntriesHaveReaders
    <3> QED BY <1>1, <2>1, <3>1
  <2> QED BY <1>1, <1>3, <2>1, <2>2, <2>3, <2>4, ClosesOK DEF TypeOK
<1>5. CASE ~Redundant(n, m)
  <2>1. /\ conn' = [conn EXCEPT ![c].end[e] = "open"] /\ peers' = [peers EXCEPT ![n][m] = c]
        /\ inflight' = inflight /\ peers[n][m] = 0
    BY <1>5 DEF Greet, Redundant
  <2>2. /\ Used' = Used /\ conn'[c] \in Conn /\ conn'[c].from = conn[c].from /\ conn'[c].to = conn[c].to
        /\ conn'[c].end[e] = "open" /\ \A f \in Side \ {e} : conn'[c].end[f] = conn[c].end[f]
        /\ \A x \in Used \ {c} : conn'[x] = conn[x]
    BY <1>1, <2>1 DEF Used, Conn, EndState, Side
  <2>3. \A x \in Used, f \in Side : Owner(x, f)' = Owner(x, f) /\ Remote(x, f)' = Remote(x, f)
    BY <2>2 DEF Owner, Remote, Other, Side
  <2>4. /\ peers' \in [Node -> [Node -> {0} \cup Used]] /\ peers'[n][m] = c
        /\ \A p, q \in Node : <<p, q>> # <<n, m>> => peers'[p][q] = peers[p][q]
    BY <1>1, <1>2, <2>1 DEF TypeOK
  <2>5. TypeOK'
    BY <1>1, <1>3, <2>1, <2>2, <2>4 DEF TypeOK
  <2> HIDE DEF n, m
  <2>6. ASSUME NEW p \in Node, NEW q \in Node, peers'[p][q] # 0
        PROVE  \E x \in Used', f \in Side :
                  x = peers'[p][q] /\ Owner(x, f)' = p /\ Remote(x, f)' = q /\ conn'[x].end[f] = "open"
    <3>1. CASE p = n /\ q = m
      BY <1>1, <2>2, <2>3, <2>4, <3>1 DEF n, m
    <3>2. CASE ~(p = n /\ q = m)
      <4>1. peers'[p][q] = peers[p][q] /\ peers[p][q] \in Used
        BY <1>1, <2>4, <2>6, <3>2 DEF TypeOK
      <4>2. PICK f \in Side : /\ Owner(peers[p][q], f) = p /\ Remote(peers[p][q], f) = q
                              /\ conn[peers[p][q]].end[f] = "open"
        BY <2>6, <4>1 DEF IInv, EntriesHaveReaders
      <4>3. conn'[peers[p][q]].end[f] = "open"
        BY <1>1, <2>2, <4>1, <4>2
      <4> QED BY <2>2, <2>3, <4>1, <4>2, <4>3
    <3> QED BY <3>1, <3>2
  <2>7. ASSUME NEW x \in Used', NEW f \in Side, conn'[x].end[f] = "open"
        PROVE  peers'[Owner(x, f)'][Remote(x, f)'] = x
    <3>1. CASE x = c /\ f = e
      BY <2>2, <2>3, <2>4, <3>1 DEF n, m
    <3>2. CASE ~(x = c /\ f = e)
      <4>1. conn[x].end[f] = "open" /\ x \in Used
        BY <2>2, <2>7, <3>2
      <4>2. peers[Owner(x, f)][Remote(x, f)] = x /\ x # 0
        BY <1>1, <4>1, SlotNotZero DEF IInv, EntriesHaveReaders
      <4>3. Owner(x, f) \in Node /\ Remote(x, f) \in Node
        BY <4>1, EndsDiffer
      <4> QED BY <2>1, <2>3, <2>4, <4>1, <4>2, <4>3
    <3> QED BY <3>1, <3>2
  <2>8. \A p, q \in Node : Dialled(p, q)' = Dialled(p, q)
    BY <1>1, <2>2 DEF Dialled, Side
  <2>9. \A x \in Used' : conn'[x].from < conn'[x].to
    BY <2>2 DEF IInv
  <2>10. EntriesHaveReaders'
    BY <2>6, <2>7 DEF EntriesHaveReaders, Owner, Remote
  <2> QED BY <2>1, <2>5, <2>8, <2>9, <2>10 DEF IInv
<1> QED BY <1>4, <1>5

(* The end that fails takes its entry with it. *)
LEMMA FailOK == ASSUME IInv, NEW c \in Slot, NEW e \in Side, Fail(c, e) PROVE IInv'
<1> DEFINE n == Owner(c, e)  m == Remote(c, e)
<1>1. /\ TypeOK /\ c \in Used /\ conn[c].end[e] # "closed" /\ UNCHANGED <<members, known, faults>>
      /\ peers' = Without(c, e) /\ inflight' = Returned(c, e)
      /\ conn' = Live([conn EXCEPT ![c] = Close(c, e)])
  BY DEF Fail, IInv
<1>2. n \in Node /\ m \in Node /\ 0 \notin Used
  BY <1>1, EndsDiffer, SlotNotZero
<1>3. Closes({<<c, e>>})
  BY <1>1, CloseParts
<1>4. /\ inflight' \in [Node -> SUBSET Node] /\ \A p \in Node : inflight'[p] \subseteq inflight[p]
      /\ \A x \in Used : conn[x].end["from"] # "closed" =>
            (<<x, "from">> \in {<<c, e>>} <=> conn[x].to \notin inflight'[conn[x].from])
  BY <1>1, ReturnedParts
<1>5. peers' = IF conn[c].end[e] = "open" THEN [peers EXCEPT ![n][m] = 0] ELSE peers
  BY <1>1 DEF Without
<1> HIDE DEF n, m
<1>6. /\ peers' \in [Node -> [Node -> {0} \cup Used]]
      /\ \A p, q \in Node : peers'[p][q] \in {0, peers[p][q]}
      /\ \A p, q \in Node : peers[p][q] # 0 =>
            (peers'[p][q] = 0 <=> p = n /\ q = m /\ conn[c].end[e] = "open")
  BY <1>1, <1>2, <1>5 DEF TypeOK
<1>7. ASSUME NEW x \in Used, NEW f \in Side, conn[x].end[f] = "open"
      PROVE  <<x, f>> \in {<<c, e>>} <=> peers'[Owner(x, f)][Remote(x, f)] = 0
  <2>1. Owner(x, f) \in Node /\ Remote(x, f) \in Node
    BY EndsDiffer
  <2>2. peers[Owner(x, f)][Remote(x, f)] = x
    BY <1>7 DEF IInv, EntriesHaveReaders
  <2>3. peers'[Owner(x, f)][Remote(x, f)] = 0 <=> Owner(x, f) = n /\ Remote(x, f) = m /\ conn[c].end[e] = "open"
    BY <1>2, <1>6, <2>1, <2>2
  <2>4. ASSUME Owner(x, f) = n, Remote(x, f) = m, conn[c].end[e] = "open" PROVE x = c /\ f = e
    <3>1. peers[n][m] = c
      BY <1>1, <2>4 DEF IInv, EntriesHaveReaders, n, m
    <3>2. x = c
      BY <2>2, <2>4, <3>1
    <3> QED BY <1>1, <2>4, <3>2, EndsDiffer DEF n
  <2>5. x = c /\ f = e => Owner(x, f) = n /\ Remote(x, f) = m /\ conn[c].end[e] = "open"
    BY <1>7 DEF n, m
  <2> QED BY <2>3, <2>4, <2>5
<1> QED BY <1>1, <1>3, <1>4, <1>6, <1>7, ClosesOK DEF TypeOK

(* A node that restarts has no connection, no entry and no dial under way. *)
LEMMA RestartOK == ASSUME IInv, NEW n \in Node, Restart(n) PROVE IInv'
<1> DEFINE K == {p \in Used \X Side : Owner(p[1], p[2]) = n}
           cs == [c \in Used |->
                    [conn[c] EXCEPT !.end = [e \in Side |-> IF Owner(c, e) = n THEN "closed" ELSE @[e]]]]
<1>1. /\ TypeOK /\ 0 \notin Used /\ conn' = Live(cs) /\ members' = members
      /\ peers' = [peers EXCEPT ![n] = [m \in Node |-> 0]]
      /\ inflight' = [inflight EXCEPT ![n] = {}]
      /\ known' = [known EXCEPT ![n] = Genesis]
      /\ faults' = faults + 1 /\ faults < MaxFaults
  BY SlotNotZero DEF Restart, IInv
<1>2. \A x \in Used, f \in Side : <<x, f>> \in K <=> Owner(x, f) = n
  OBVIOUS
<1>3. DOMAIN cs = Used /\ \A x \in Used : /\ cs[x] \in Conn /\ cs[x].from = conn[x].from /\ cs[x].to = conn[x].to
                      /\ \A f \in Side : cs[x].end[f] = IF Owner(x, f) = n THEN "closed" ELSE conn[x].end[f]
  <2>1. \A x \in Used : conn[x] \in Conn
    BY <1>1 DEF TypeOK
  <2> QED BY <2>1 DEF Conn, Side, EndState
<1> HIDE DEF K, cs
<1>4. /\ Used' = {x \in Used : \E f \in Side : cs[x].end[f] # "closed"}
      /\ \A x \in Used' : conn'[x] = cs[x]
  BY <1>1, <1>3, LiveParts DEF Used
<1>5. Closes(K)
  BY <1>2, <1>3, <1>4 DEF Closes
<1>6. /\ peers' \in [Node -> [Node -> {0} \cup Used]]
      /\ \A p, q \in Node : peers'[p][q] = IF p = n THEN 0 ELSE peers[p][q]
  BY <1>1 DEF TypeOK
<1>7. /\ inflight' \in [Node -> SUBSET Node]
      /\ \A p \in Node : inflight'[p] = IF p = n THEN {} ELSE inflight[p]
  BY <1>1 DEF TypeOK
<1>8. ASSUME NEW x \in Used, NEW f \in Side, conn[x].end[f] = "open"
      PROVE  <<x, f>> \in K <=> peers'[Owner(x, f)][Remote(x, f)] = 0
  <2>1. Owner(x, f) \in Node /\ Remote(x, f) \in Node
    BY EndsDiffer
  <2>2. peers[Owner(x, f)][Remote(x, f)] = x
    BY <1>8 DEF IInv, EntriesHaveReaders
  <2> QED BY <1>1, <1>2, <1>6, <2>1, <2>2
<1>9. ASSUME NEW x \in Used, conn[x].end["from"] # "closed"
      PROVE  <<x, "from">> \in K <=> conn[x].to \notin inflight'[conn[x].from]
  <2>1. conn[x].from \in Node /\ conn[x].to \in Node
    BY <1>1 DEF TypeOK, Conn
  <2>2. conn[x].to \in inflight[conn[x].from]
    BY <1>9, <2>1 DEF IInv, Dialled
  <2>3. <<x, "from">> \in K <=> conn[x].from = n
    BY <1>2 DEF Owner, Side
  <2> QED BY <1>7, <2>1, <2>2, <2>3
<1>10. known' \in [Node -> SUBSET Node] /\ faults' \in 0..MaxFaults
  BY <1>1, ConnectionsAssumption DEF TypeOK
<1> QED BY <1>1, <1>5, <1>6, <1>7, <1>8, <1>9, <1>10, ClosesOK DEF TypeOK

(* What touches neither the maps nor the ends. *)
LEMMA QuietOK ==
    ASSUME IInv, UNCHANGED <<peers, inflight>>, Used' = Used,
           \A x \in Used : /\ conn'[x] \in Conn /\ conn'[x].from = conn[x].from /\ conn'[x].to = conn[x].to
                           /\ conn'[x].end = conn[x].end,
           members' \subseteq Node, known' \in [Node -> SUBSET Node], faults' \in 0..MaxFaults
    PROVE  IInv'
<1>1. \A x \in Used, f \in Side : Owner(x, f)' = Owner(x, f) /\ Remote(x, f)' = Remote(x, f)
  BY DEF Owner, Remote, Other, Side
<1>2. TypeOK'
  BY DEF IInv, TypeOK
<1>3. EntriesHaveReaders'
  <2>1. \A p, q \in Node : peers[p][q] # 0 => peers[p][q] \in Used
    BY DEF IInv, TypeOK
  <2> QED BY <1>1, <2>1 DEF IInv, EntriesHaveReaders
<1>4. \A p, q \in Node : Dialled(p, q)' = Dialled(p, q)
  BY DEF Dialled
<1> QED BY <1>2, <1>3, <1>4 DEF IInv

(* A link that breaks tells neither end. *)
LEMMA CutOK == ASSUME IInv, NEW c \in Slot, Cut(c) PROVE IInv'
<1>1. TypeOK /\ c \in Used /\ conn[c] \in Conn /\ faults' \in 0..MaxFaults
  BY ConnectionsAssumption DEF Cut, IInv, TypeOK
<1>2. /\ Used' = Used
      /\ \A x \in Used : /\ conn'[x] \in Conn /\ conn'[x].from = conn[x].from /\ conn'[x].to = conn[x].to
                         /\ conn'[x].end = conn[x].end
  BY <1>1 DEF Cut, Used, Conn, TypeOK
<1> QED BY <1>1, <1>2, QuietOK DEF Cut, TypeOK

-----------------------------------------------------------------------------
LEMMA IInvInit == Init => IInv
<1> SUFFICES ASSUME Init PROVE IInv
  OBVIOUS
<1>1. Used = {} /\ \A n, m \in Node : Dialled(n, m) = {}
  BY DEF Init, Used, Dialled
<1> QED BY <1>1, ConnectionsAssumption DEF Init, IInv, TypeOK, EntriesHaveReaders

(* Every step keeps the invariant. *)
LEMMA IInvStep == IInv /\ [Next]_vars => IInv'
<1> SUFFICES ASSUME IInv, [Next]_vars PROVE IInv'
  OBVIOUS
<1>1. CASE UNCHANGED vars
  BY <1>1 DEF vars, IInv, TypeOK, EntriesHaveReaders, Dialled, Used, Owner, Remote
<1>2. ASSUME NEW n \in Node, Admit(n) \/ Learn(n) PROVE IInv'
  <2>1. UNCHANGED <<peers, inflight, conn, faults>> /\ Used' = Used
    BY <1>2 DEF Admit, Learn, Used
  <2>2. members' \subseteq Node /\ known' \in [Node -> SUBSET Node]
    BY <1>2 DEF Admit, Learn, IInv, TypeOK
  <2> QED BY <2>1, <2>2, QuietOK DEF IInv, TypeOK
<1> QED BY <1>1, <1>2, DialOK, GreetOK, FailOK, RestartOK, CutOK DEF Next

(* The invariant holds of every behaviour. *)
LEMMA IInvAlways == Spec => []IInv
<1> QED BY IInvInit, IInvStep, PTL DEF Spec

(***************************************************************************)
(* Whatever is cut or restarted, and however many connections two nodes    *)
(* have between them, maps name connections that exist.                    *)
(***************************************************************************)
THEOREM TypeCorrect == Spec => []TypeOK
<1>1. IInv => TypeOK
  BY DEF IInv
<1> QED BY <1>1, IInvAlways, PTL

(***************************************************************************)
(* The map of peers and the readers of run_conn never disagree: an entry   *)
(* has its reader and a reader its entry, for any number of nodes,         *)
(* connections and faults.                                                 *)
(***************************************************************************)
THEOREM ReadersHaveEntries == Spec => []EntriesHaveReaders
<1>1. IInv => EntriesHaveReaders
  BY DEF IInv
<1> QED BY <1>1, IInvAlways, PTL

(***************************************************************************)
(* The dial task never has two connections to one peer under way, and      *)
(* forgets the peer when its connection is gone: it neither dials in vain  *)
(* nor spares a peer for ever.                                             *)
(***************************************************************************)
THEOREM DialsOnce == Spec => []OneDialAtATime
<1>1. IInv => OneDialAtATime
  <2> SUFFICES ASSUME IInv, NEW n \in Node, NEW m \in Node
               PROVE  Cardinality(Dialled(n, m)) = IF m \in inflight[n] THEN 1 ELSE 0
    BY DEF OneDialAtATime, Dialled
  <2>1. CASE m \in inflight[n]
    <3>1. PICK c : c \in Dialled(n, m)
      BY <2>1 DEF IInv
    <3>2. Dialled(n, m) = {c}
      BY <3>1 DEF IInv
    <3> QED BY <2>1, <3>2, FS_Singleton
  <2>2. CASE m \notin inflight[n]
    <3>1. Dialled(n, m) = {}
      BY <2>2 DEF IInv
    <3> QED BY <2>2, <3>1, FS_EmptySet
  <2> QED BY <2>1, <2>2
<1> QED BY <1>1, IInvAlways, PTL
=============================================================================
