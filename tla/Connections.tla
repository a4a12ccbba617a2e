---------------------------- MODULE Connections ----------------------------
(***************************************************************************)
(* The connections of the validators (Node::run and run_conn in node.rs,   *)
(* the frames of transport.rs).  Of two nodes the one with the smaller id  *)
(* dials; both say Hello over the connection and enter it into their map   *)
(* of peers, unless they hold one to that peer already; either end is left *)
(* when its reader fails, at a time of its own.  A newcomer is dialled by  *)
(* the smaller ids once the chain has admitted it.                         *)
(***************************************************************************)
EXTENDS Integers, FiniteSets

CONSTANTS Node,      \* ids, ordered
          Genesis,   \* the bootstrap peer list of everybody
          Slot,      \* bound: names of the connections that exist at one time
          MaxFaults  \* bound: connections that are cut and processes that restart

ASSUME ConnectionsAssumption ==
    /\ Node \subseteq Nat /\ Genesis \subseteq Node
    /\ 0 \notin Slot /\ Slot \subseteq Nat /\ MaxFaults \in Nat

VARIABLES members,  \* the validator set of the chain
          known,    \* whom a node has an address of
          peers,    \* the connection it writes to a peer on, 0 for none (PeersMap)
          inflight, \* whom its dial task is busy with
          conn,     \* the connections: who dialled whom, what either end is at, whether they are cut
          faults    \* how many have occurred

vars == <<members, known, peers, inflight, conn, faults>>

(* An end waits for the other's Hello, then reads frames, then is closed. *)
EndState == {"hello", "open", "closed"}

Conn == [from : Node, to : Node, end : [{"from", "to"} -> EndState], cut : BOOLEAN]

Side == {"from", "to"}
Other(e) == IF e = "from" THEN "to" ELSE "from"
Owner(c, e) == IF e = "from" THEN conn[c].from ELSE conn[c].to
Remote(c, e) == Owner(c, Other(e))

Used == DOMAIN conn

(* A connection is forgotten when both ends are. *)
Live(cs) == [c \in {x \in DOMAIN cs : \E e \in Side : cs[x].end[e] # "closed"} |-> cs[c]]

Close(c, e) == [conn[c] EXCEPT !.end[e] = "closed"]

Init ==
    /\ members = Genesis
    /\ known = [n \in Node |-> Genesis]
    /\ peers = [n \in Node |-> [m \in Node |-> 0]]
    /\ inflight = [n \in Node |-> {}]
    /\ conn = [c \in {} |-> 0]
    /\ faults = 0

-----------------------------------------------------------------------------
(* Mutant: the ticker does not look at what it is busy with. *)
MutBusy(n, m) == peers[n][m] # 0

(* What keeps the dial task from a peer. *)
Busy(n, m) == peers[n][m] # 0 \/ m \in inflight[n]

(* The dial ticker of n dials a larger id it knows and is not busy with; the handshake succeeds. *)
Dial(n, m) ==
    /\ m \in known[n] /\ n < m /\ ~Busy(n, m)
    /\ \E c \in Slot \ Used :
          /\ \A d \in Slot \ Used : c <= d
          /\ conn' = [x \in Used \cup {c} |->
                         IF x = c THEN [from |-> n, to |-> m, end |-> [e \in Side |-> "hello"], cut |-> FALSE]
                         ELSE conn[x]]
    /\ inflight' = [inflight EXCEPT ![n] = @ \cup {m}]
    /\ UNCHANGED <<members, known, peers, faults>>

(* Mutant: a new connection takes the place of the old one. *)
MutRedundant(n, m) == FALSE

(* n holds a connection to m. *)
Redundant(n, m) == peers[n][m] # 0

(* Mutant: the dial task never forgets a peer. *)
MutReturned(c, e) == inflight

(* What the dial task is still busy with when run_conn has returned at an end. *)
Returned(c, e) ==
    IF e = "from" THEN [inflight EXCEPT ![conn[c].from] = @ \ {conn[c].to}] ELSE inflight

(* An end reads the other's Hello, which may have come before a cut, and enters or drops the connection. *)
Greet(c, e) ==
    LET n == Owner(c, e)
        m == Remote(c, e)
    IN /\ c \in Used /\ conn[c].end[e] = "hello"
       /\ known' = [known EXCEPT ![n] = @ \cup {m}]
       /\ IF Redundant(n, m)
          THEN /\ conn' = Live([conn EXCEPT ![c] = Close(c, e)])
               /\ inflight' = Returned(c, e)
               /\ UNCHANGED peers
          ELSE /\ conn' = [conn EXCEPT ![c].end[e] = "open"]
               /\ peers' = [peers EXCEPT ![n][m] = c]
               /\ UNCHANGED inflight
       /\ UNCHANGED <<members, faults>>

(* Mutant: the entry stays when the reader has failed. *)
MutWithout(c, e) == peers

(* The map of peers when the reader of an end has failed. *)
Without(c, e) ==
    IF conn[c].end[e] = "open" THEN [peers EXCEPT ![Owner(c, e)][Remote(c, e)] = 0] ELSE peers

(* The reader of an end fails: the connection is cut or the other end closed.  Its entry goes. *)
Fail(c, e) ==
    /\ c \in Used /\ conn[c].end[e] # "closed"
    /\ conn[c].cut \/ conn[c].end[Other(e)] = "closed"
    /\ peers' = Without(c, e)
    /\ conn' = Live([conn EXCEPT ![c] = Close(c, e)])
    /\ inflight' = Returned(c, e)
    /\ UNCHANGED <<members, known, faults>>

-----------------------------------------------------------------------------
(* n can send to m, and m hears it. *)
Reaches(n, m) ==
    /\ peers[n][m] # 0 /\ ~conn[peers[n][m]].cut
    /\ \A e \in Side : conn[peers[n][m]].end[e] = "open"

(* A newcomer's join op comes to a member, which passes it on; the chain records it. *)
Admit(n) ==
    /\ n \notin members /\ \E m \in members : Reaches(n, m)
    /\ members' = members \cup {n}
    /\ UNCHANGED <<known, peers, inflight, conn, faults>>

(* Entering a round, a node learns the addresses of the members; it has its blocks from a peer. *)
Learn(n) ==
    /\ ~(members \subseteq known[n]) /\ \E m \in Node : Reaches(m, n)
    /\ known' = [known EXCEPT ![n] = @ \cup members]
    /\ UNCHANGED <<members, peers, inflight, conn, faults>>

(* The network loses a connection; either end has yet to notice. *)
Cut(c) ==
    /\ faults < MaxFaults /\ c \in Used /\ ~conn[c].cut
    /\ conn' = [conn EXCEPT ![c].cut = TRUE]
    /\ faults' = faults + 1
    /\ UNCHANGED <<members, known, peers, inflight>>

(* A process restarts: it has the bootstrap list and no connection; the others have yet to notice. *)
Restart(n) ==
    /\ faults < MaxFaults /\ \E c \in Used : n \in {conn[c].from, conn[c].to}
    /\ conn' = Live([c \in Used |->
          [conn[c] EXCEPT !.end = [e \in Side |-> IF Owner(c, e) = n THEN "closed" ELSE @[e]]]])
    /\ peers' = [peers EXCEPT ![n] = [m \in Node |-> 0]]
    /\ inflight' = [inflight EXCEPT ![n] = {}]
    /\ known' = [known EXCEPT ![n] = Genesis]
    /\ faults' = faults + 1
    /\ UNCHANGED members

Next ==
    \/ \E n, m \in Node : Dial(n, m)
    \/ \E c \in Slot, e \in Side : Greet(c, e) \/ Fail(c, e)
    \/ \E n \in Node : Admit(n) \/ Learn(n) \/ Restart(n)
    \/ \E c \in Slot : Cut(c)

Spec == Init /\ [][Next]_vars

(***************************************************************************)
(* Fairness: the dial ticker runs for ever, what was sent over a            *)
(* connection that is not cut arrives, an end that writes to a connection  *)
(* which is cut or closed notices (every node writes several times a       *)
(* second), and the chain goes on.  Nothing is assumed of faults.          *)
(***************************************************************************)
FairSpec ==
    /\ Spec
    /\ \A n, m \in Node : WF_vars(Dial(n, m))
    /\ \A c \in Slot, e \in Side : WF_vars(Greet(c, e)) /\ WF_vars(Fail(c, e))
    /\ \A n \in Node : WF_vars(Admit(n)) /\ WF_vars(Learn(n))

-----------------------------------------------------------------------------
(* Type correctness: maps name connections that exist. *)
TypeOK ==
    /\ members \subseteq Node
    /\ known \in [Node -> SUBSET Node]
    /\ peers \in [Node -> [Node -> {0} \cup Used]]
    /\ inflight \in [Node -> SUBSET Node]
    /\ Used \subseteq Slot /\ \A c \in Used : conn[c] \in Conn
    /\ faults \in 0..MaxFaults

(***************************************************************************)
(* The map of peers names exactly the connections that have a reader: no   *)
(* entry outlives its reader, or the dial task would spare the peer for    *)
(* ever, and no reader lacks its entry, or the peer would hear but never   *)
(* be answered.                                                            *)
(***************************************************************************)
EntriesHaveReaders ==
    /\ \A n, m \in Node : peers[n][m] # 0 => \E e \in Side :
          /\ Owner(peers[n][m], e) = n /\ Remote(peers[n][m], e) = m
          /\ conn[peers[n][m]].end[e] = "open"
    /\ \A c \in Used, e \in Side :
          conn[c].end[e] = "open" => peers[Owner(c, e)][Remote(c, e)] = c

(***************************************************************************)
(* The dial task is busy with a peer exactly as long as a connection that  *)
(* it dialled is not closed at its end, and then there is only one.        *)
(***************************************************************************)
OneDialAtATime ==
    \A n, m \in Node :
        Cardinality({c \in Used : conn[c].from = n /\ conn[c].to = m /\ conn[c].end["from"] # "closed"})
            = IF m \in inflight[n] THEN 1 ELSE 0

(* Two nodes hold each other in their maps, by the same connection. *)
Meshed(n, m) == Reaches(n, m) /\ Reaches(m, n) /\ peers[n][m] = peers[m][n]

(***************************************************************************)
(* When the network is quiet again, everybody is a member and connected to *)
(* everybody: whatever was cut, or dialled while the other end still held  *)
(* what it took for a connection, is replaced.                             *)
(***************************************************************************)
MeshForms == <>[](members = Node /\ \A n, m \in Node : n # m => Meshed(n, m))
=============================================================================
