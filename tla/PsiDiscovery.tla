---------------------------- MODULE PsiDiscovery ----------------------------
(***************************************************************************)
(* How two validators learn how many items they both like (psi.rs and the  *)
(* offers and responses of node.rs): items are hashed to points, and a     *)
(* point that both have raised to their secrets is the same for both.      *)
(***************************************************************************)
EXTENDS Integers, Sequences, FiniteSets, SequencesExt

CONSTANTS PsiOrder,      \* the order of the group, a prime
          HashToPoint,   \* an item to a point, its own and not the identity
          PsiThreshold   \* PSI_THRESHOLD

ASSUME PsiAssumption ==
    /\ PsiOrder \in Nat /\ PsiOrder > 1 /\ \A d \in 2..(PsiOrder - 1) : PsiOrder % d # 0
    /\ PsiThreshold \in Nat \ {0}
    /\ \A item \in DOMAIN HashToPoint : HashToPoint[item] \in 1..(PsiOrder - 1)
    /\ \A i, j \in DOMAIN HashToPoint : HashToPoint[i] = HashToPoint[j] => i = j

PsiSecret == 1..(PsiOrder - 1)

(* The items of a vector of preferences: the dimensions that are liked, in an order that nobody reads. *)
PsiItems(prefs) == SetToSeq({i \in DOMAIN prefs : prefs[i] > 0})

Blind(items, secret) == [k \in DOMAIN items |-> (HashToPoint[items[k]] * secret) % PsiOrder]
Reblind(points, secret) == [k \in DOMAIN points |-> (points[k] * secret) % PsiOrder]

IntersectionSize(a, b) == Cardinality({k \in DOMAIN b : b[k] \in ToSet(a)})

(* Nothing is offered by a node that likes nothing. *)
Offers(prefs) == PsiItems(prefs) # <<>>
Offer(prefs, secret) == Blind(PsiItems(prefs), secret)

(* The responder's own points, and the initiator's blinded again. *)
Respond(prefs, secret, u) == [v |-> Blind(PsiItems(prefs), secret), w |-> Reblind(u, secret)]

(* Mutant: the responder's points are compared as they came. *)
MutIsInterestPeer(secret, response) == IntersectionSize(response.w, response.v) >= PsiThreshold

(* What the initiator makes of the response. *)
IsInterestPeer(secret, response) ==
    IntersectionSize(response.w, Reblind(response.v, secret)) >= PsiThreshold
=============================================================================
