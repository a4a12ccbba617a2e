-------------------------- MODULE AdmissionProofs --------------------------
(* The gate keeps the suspended out, whatever window, delays, peers and leaders there are. *)
EXTENDS Admission, TLAPS

(***************************************************************************)
(* An op was made at a head that did not know of the suspension, so the    *)
(* suspension is at most one block older than the op, as long as the op's  *)
(* age is still counted.                                                   *)
(***************************************************************************)
Clean(a) == a <= Window => dark <= a + 1
OpsClean == \A n \in Node : \A a \in pool[n] \cup inbox[n] : Clean(a)

IInv == TypeOK /\ OpsClean

LEMMA Ages ==
    /\ Window \in Nat /\ Cap \in Nat /\ Cap = Window + 2 /\ Age = 0..Cap /\ MaxLag \in Nat /\ MaxLag <= Window
    /\ \A a \in Age : Older(a) \in Age /\ Since(a) \in Age
BY AdmissionAssumption DEF Cap, Age, Older, Since

(* Op and suspension grow older together. *)
LEMMA StayClean ==
    ASSUME NEW a \in Age, NEW d \in Age, NEW e \in Age, a <= Window => d <= a + 1,
           e = Since(d) \/ e = 1
    PROVE  Older(a) <= Window => e <= Older(a) + 1
BY Ages DEF Cap, Age, Older, Since

LEMMA InvInit == Init => IInv
<1> SUFFICES ASSUME Init PROVE IInv
  OBVIOUS
<1>1. 0 \in Age /\ 0 \in 0..MaxLag
  BY Ages
<1>2. TypeOK
  BY <1>1 DEF Init, TypeOK
<1>3. OpsClean
  BY Ages DEF Init, OpsClean, Clean
<1> QED BY <1>2, <1>3 DEF IInv

LEMMA InvFinalize == ASSUME IInv, NEW n \in Node, Finalize(n) PROVE IInv'
<1>1. /\ TypeOK /\ dark \in Age /\ joined \in Age /\ 1 \in Age
      /\ dark' \in Age /\ (dark' = Since(dark) \/ dark' = 1)
  <2>1. TypeOK /\ dark \in Age /\ joined \in Age
    BY DEF IInv, TypeOK
  <2>2. 1 \in Age /\ Since(dark) \in Age
    BY <2>1, Ages
  <2>3. dark' = Since(dark) \/ dark' = 1
    BY DEF Finalize
  <2> QED BY <2>1, <2>2, <2>3
<1>2. /\ pool' = [p \in Node |-> {Older(a) : a \in pool[p]}]
      /\ inbox' = [p \in Node |-> {Older(a) : a \in inbox[p]}]
      /\ \A p \in Node : pool[p] \subseteq Age /\ inbox[p] \subseteq Age
  <2>1. /\ pool' = [p \in Node |-> {Older(a) : a \in pool[p]}]
        /\ inbox' = [p \in Node |-> {Older(a) : a \in inbox[p]}]
    BY DEF Finalize
  <2>2. \A p \in Node : pool[p] \subseteq Age /\ inbox[p] \subseteq Age
    BY <1>1 DEF TypeOK
  <2> QED BY <2>1, <2>2
<1>3. TypeOK'
  <2>1. lag' \in [Node -> 0..MaxLag]
    <3>1. lag \in [Node -> 0..MaxLag] /\ MaxLag \in Nat
      BY <1>1, Ages DEF TypeOK
    <3>2. lag' = [p \in Node |-> lag[p] + 1] /\ \A p \in Node : lag[p] < MaxLag
      BY DEF Finalize
    <3> QED BY <3>1, <3>2
  <2>2. pool' \in [Node -> SUBSET Age] /\ inbox' \in [Node -> SUBSET Age]
    <3>1. ASSUME NEW p \in Node
          PROVE  {Older(a) : a \in pool[p]} \in SUBSET Age /\ {Older(a) : a \in inbox[p]} \in SUBSET Age
      <4>1. \A a \in Age : Older(a) \in Age
        BY Ages
      <4> QED BY <1>2, <4>1
    <3> QED BY <1>2, <3>1
  <2>3. ASSUME NEW p \in Node, NEW a \in pool'[p], NEW b \in pool'[p] PROVE a = b
    <3>1. PICK x \in pool[p] : a = Older(x)
      BY <1>2
    <3>2. PICK y \in pool[p] : b = Older(y)
      BY <1>2
    <3>3. x = y
      BY <1>1 DEF TypeOK
    <3> QED BY <3>1, <3>2, <3>3
  <2>4. joined' \in Age
    BY <1>1, Ages DEF Finalize
  <2> QED BY <1>1, <2>1, <2>2, <2>3, <2>4 DEF TypeOK
<1>4. OpsClean'
  <2> SUFFICES ASSUME NEW p \in Node, NEW b \in pool'[p] \cup inbox'[p]
               PROVE  b <= Window => dark' <= b + 1
    BY DEF OpsClean, Clean
  <2>1. PICK a \in pool[p] \cup inbox[p] : b = Older(a)
    BY <1>2
  <2>2. a \in Age /\ (a <= Window => dark <= a + 1)
    BY <1>2, <2>1 DEF IInv, OpsClean, Clean
  <2> QED BY <1>1, <2>1, <2>2, StayClean
<1> QED BY <1>3, <1>4 DEF IInv

LEMMA InvAdvance == ASSUME IInv, NEW n \in Node, Advance(n) PROVE IInv'
<1>1. PICK behind \in 0..(lag[n] - 1) :
        /\ lag' = [lag EXCEPT ![n] = behind]
        /\ pool' = [pool EXCEPT ![n] = {a \in @ : ~Admitted(behind)}]
        /\ inbox' = Send(inbox, n, {a \in {behind} : Publishes(n, behind)})
  BY DEF Advance
<1>2. TypeOK /\ OpsClean /\ dark' = dark /\ joined' = joined
  BY DEF IInv, Advance
<1>3. behind \in 0..MaxLag /\ behind \in Age
  BY <1>1, <1>2, Ages DEF TypeOK
<1> DEFINE new == {a \in {behind} : Publishes(n, behind)}
<1>4. new \subseteq Age /\ \A a \in new : dark <= a + 1
  BY <1>3 DEF Publishes, CanProve
<1>5. inbox' = Send(inbox, n, new)
  BY <1>1
<1> HIDE DEF new
<1>6. /\ inbox' \in [Node -> SUBSET Age]
      /\ \A p \in Node : inbox'[p] \subseteq inbox[p] \cup new
  BY <1>2, <1>4, <1>5 DEF Send, TypeOK
<1>7. /\ pool' \in [Node -> SUBSET Age]
      /\ \A p \in Node : pool'[p] \subseteq pool[p]
  BY <1>1, <1>2 DEF TypeOK
<1>8. lag' \in [Node -> 0..MaxLag]
  BY <1>1, <1>2, <1>3 DEF TypeOK
<1>9. TypeOK'
  <2>1. \A p \in Node : \A a, b \in pool'[p] : a = b
    BY <1>2, <1>7 DEF TypeOK
  <2>2. {joined, dark}' \subseteq Age
    BY <1>2 DEF TypeOK
  <2> QED BY <1>6, <1>7, <1>8, <2>1, <2>2 DEF TypeOK
<1>10. OpsClean'
  BY <1>2, <1>4, <1>6, <1>7 DEF OpsClean, Clean
<1> QED BY <1>9, <1>10 DEF IInv

LEMMA InvReceive == ASSUME IInv, NEW n \in Node, Receive(n) PROVE IInv'
<1>1. PICK a \in inbox[n] : OnMembership(n, a) \/ Ignore(n, a)
  BY DEF Receive
<1>2. TypeOK /\ OpsClean /\ a \in Age /\ Clean(a) /\ UNCHANGED <<lag, joined, dark>>
  BY <1>1 DEF IInv, TypeOK, OpsClean, OnMembership, Ignore
<1>3. inbox' \in [Node -> SUBSET Age] /\ \A p \in Node : inbox'[p] \subseteq inbox[p] \cup {a}
  <2>1. Rest(n, a) \in [Node -> SUBSET Age] /\ \A p \in Node : Rest(n, a)[p] \subseteq inbox[p]
    BY <1>2 DEF Rest, TypeOK
  <2>2. inbox' = Rest(n, a) \/ inbox' = Send(Rest(n, a), n, {a})
    BY <1>1 DEF OnMembership, Ignore
  <2> QED BY <1>2, <2>1, <2>2 DEF Send
<1>4. /\ pool' \in [Node -> SUBSET Age]
      /\ \A p \in Node : pool'[p] = pool[p] \/ pool'[p] = {a}
  BY <1>1, <1>2 DEF OnMembership, Ignore, TypeOK
<1>5. TypeOK'
  <2>1. \A p \in Node : \A x, y \in pool'[p] : x = y
    BY <1>2, <1>4 DEF TypeOK
  <2> QED BY <1>2, <1>3, <1>4, <2>1 DEF TypeOK
<1>6. OpsClean'
  <2>1. ASSUME NEW p \in Node, NEW b \in pool'[p] \cup inbox'[p] PROVE Clean(b)
    BY <1>2, <1>3, <1>4 DEF OpsClean
  <2> QED BY <1>2, <2>1 DEF OpsClean, Clean
<1> QED BY <1>5, <1>6 DEF IInv

LEMMA InvStep == IInv /\ [Next]_vars => IInv'
<1>1. ASSUME IInv, UNCHANGED vars PROVE IInv'
  BY <1>1 DEF IInv, TypeOK, OpsClean, Clean, vars
<1> QED BY <1>1, InvFinalize, InvAdvance, InvReceive DEF Next

(* Ages stay counted, and a pool has one op of the newcomer at most: pending_membership is deduplicated. *)
THEOREM AdmissionTypeCorrect == Spec => []TypeOK
<1>1. Init => IInv
  BY InvInit
<1>2. IInv /\ [Next]_vars => IInv'
  BY InvStep
<1>3. IInv => TypeOK
  BY DEF IInv
<1> QED BY <1>1, <1>2, <1>3, PTL DEF Spec

(***************************************************************************)
(* Nobody joins whose suspension is older than the window: the gate is     *)
(* closed to the suspended, whatever happens to an op before it is read.   *)
(***************************************************************************)
THEOREM SuspendedOut == Spec => SuspendedStayOut
<1>1. IInv /\ [Next]_vars => [joined = 0 /\ joined' # 0 => dark <= Window + 1]_vars
  <2> SUFFICES ASSUME IInv, [Next]_vars, joined = 0, joined' # 0 PROVE dark <= Window + 1
    OBVIOUS
  <2>1. PICK n \in Node : Finalize(n)
    BY DEF Next, Advance, Receive, OnMembership, Ignore, vars
  <2>2. Records(n) # {}
    BY <2>1 DEF Finalize, Since
  <2>3. PICK a \in pool[n] : Admissible(a, 0)
    BY <2>2 DEF Records
  <2>4. a \in Age /\ a <= Window /\ dark <= a + 1 /\ dark \in Age
    BY <2>3, Ages DEF IInv, TypeOK, OpsClean, Clean, Admissible
  <2> QED BY <2>4, Ages
<1>2. Init => IInv
  BY InvInit
<1>3. IInv /\ [Next]_vars => IInv'
  BY InvStep
<1> QED BY <1>1, <1>2, <1>3, PTL DEF Spec, SuspendedStayOut
=============================================================================
