------------------------------ MODULE BftQuorum ------------------------------
(***************************************************************************)
(* The arithmetic of consensus.rs: the size of a quorum and the election   *)
(* of the leader of a view.  Both are pure functions, used by every other  *)
(* module of the consensus part.                                           *)
(***************************************************************************)
EXTENDS Integers, FiniteSets

(* quorum(n): floor(2n/3) + 1 of n validators. *)
Quorum(n) == (2 * n) \div 3 + 1

(* The number of faulty validators the comment of quorum(n) promises to tolerate. *)
MaxFaulty(n) == (n - 1) \div 3

(* The voters of a vote set reach a quorum of the electorate `members`. *)
IsQuorum(voters, members) == Cardinality(voters \cap members) >= Quorum(Cardinality(members))

(***************************************************************************)
(* leader_by_beacon ranks the members by a key that the beacon gives each  *)
(* of them and takes the one at position view % n.  The keys are hashes    *)
(* and so distinct: the member at position i is the one with i smaller     *)
(* keys among the members.                                                 *)
(***************************************************************************)
RankIn(key, members, m) == Cardinality({x \in members : key[x] < key[m]})

LeaderByBeacon(key, members, view) ==
    {m \in members : RankIn(key, members, m) = view % Cardinality(members)}
=============================================================================
