---------------------------- MODULE MCAdmission ----------------------------
(* Small instances of Admission. *)
EXTENDS Admission

(* The newcomer is connected to the first validator only. *)
Introduced ==
    [n \in Node |-> CASE n = Joiner -> {1}
                      [] n = 1 -> Node \ {1}
                      [] OTHER -> Node \ {n, Joiner}]
=============================================================================
