---------------------------- MODULE ThresholdKey ----------------------------
(***************************************************************************)
(* The threshold key of the verdict authorities (dkg.rs): dealing, the     *)
(* group key of genesis, partial signatures and their combination, and     *)
(* the re-share to another set.  An element of a group is represented by   *)
(* its discrete logarithm, so that g1 is 1, multiplying a point by a       *)
(* scalar is multiplication modulo the order of the groups, and a pairing  *)
(* is the product of its arguments.  A message is hashed to a point of G2   *)
(* under a tag of its use: h holds the points of one message by tag.       *)
(***************************************************************************)
EXTENDS Integers, Sequences, FiniteSets, FiniteSetsExt, SequencesExt

CONSTANT R           \* the order of the groups, a prime

ASSUME OrderAssumption == R \in Nat /\ R > 1 /\ \A d \in 2..(R - 1) : R % d # 0

Field == 0..(R - 1)

Add(a, b) == (a + b) % R
Sub(a, b) == (a - b) % R
Mul(a, b) == (a * b) % R
Inv(a) == IF a = 0 THEN 0 ELSE CHOOSE b \in Field : Mul(a, b) = 1

Total(f) == MapThenSumSet(LAMBDA i : f[i], DOMAIN f) % R
Product(s) == FoldSet(Mul, 1, s)

(* Points: the commitments in G1, signatures in G2. *)
Times(point, k) == Mul(point, k)
SumOfPoints(points) == Total(points)

(* The value at x of a polynomial given by its coefficients, by Horner's rule. *)
PolyEval(coeffs, x) == FoldRight(LAMBDA c, acc : Add(Mul(acc, x), c), coeffs, 0)

(* Mutant: the differences are not inverted. *)
MutLagrangeAtZero(j, s) == Mul(Product(s \ {j}), Product({Sub(l, j) : l \in s \ {j}}))

(* The weight of party j among the parties s when a polynomial is interpolated at 0. *)
LagrangeAtZero(j, s) == Mul(Product(s \ {j}), Inv(Product({Sub(l, j) : l \in s \ {j}})))

Interpolate(shares) ==
    Total([j \in DOMAIN shares |-> Mul(LagrangeAtZero(j, DOMAIN shares), shares[j])])

-----------------------------------------------------------------------------
(* What a participant deals: Feldman commitments and a share for each of n parties. *)
Deal(coeffs, n) == [commitments |-> coeffs, shares |-> [j \in 1..n |-> PolyEval(coeffs, j)]]

DealWithSecret(secret, coeffs, n) == Deal([coeffs EXCEPT ![1] = secret], n)

(* A share against the commitments of its dealer, term by term. *)
VerifyShare(j, share, commitments) ==
    Times(1, share) = SumOfPoints([k \in DOMAIN commitments |-> Times(commitments[k], j^(k - 1))])

CombineShares(received) == Total(received)

GroupPublicKey(constants) == SumOfPoints(constants)

(* Every party deals; party j adds up what it was dealt. *)
GenesisKeys(polys) ==
    LET n == Len(polys)
        dealings == [i \in 1..n |-> Deal(polys[i], n)]
    IN [pub    |-> GroupPublicKey([i \in 1..n |-> dealings[i].commitments[1]]),
        shares |-> [j \in 1..n |-> CombineShares([i \in 1..n |-> dealings[i].shares[j]])]]

(* The pairing of a point of G1 and one of G2. *)
Pairing(p, q) == Mul(p, q)

(* The tags: of the votes of consensus (bls.rs), of the verdicts (verenc.rs). *)
Dst == {"vote", "verenc"}

(* The message's point under the tag, times the key. *)
SignDst(sk, h, dst) == Times(h[dst], sk)

(* A partial signed as a vote. *)
SignShare(share, h) == SignDst(share, h, "vote")

CombineSignatures(partials) ==
    SumOfPoints([j \in DOMAIN partials |-> Times(partials[j], LagrangeAtZero(j, DOMAIN partials))])

(* A signature as a vote: e(pub, H(m)) = e(g1, sigma), for a key that is not the point at infinity. *)
VerifySignature(pub, h, sigma) == pub # 0 /\ Pairing(pub, h["vote"]) = Pairing(1, sigma)

ShamirRecover(shares) == Interpolate(shares)

(* A holder of a share deals it to the n parties of the next set. *)
ReshareSubdeal(share, coeffs, n) == DealWithSecret(share, coeffs, n).shares

(* A party of the next set combines what the holders dealt to it. *)
ReshareCombine(contributions) == Interpolate(contributions)

(* The shares of the next set: every holder of qualified deals, every party combines over all of them. *)
Reshare(qualified, polys, n) ==
    [k \in 1..n |->
        ReshareCombine([i \in DOMAIN qualified |-> ReshareSubdeal(qualified[i], polys[i], n)[k]])]
=============================================================================
