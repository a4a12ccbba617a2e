------------------------------- MODULE VerEnc -------------------------------
(***************************************************************************)
(* The share s2 of a nullifier that an epoch transaction carries sealed    *)
(* (verenc.rs): encryption limb by limb under the group key, decryption    *)
(* with the signature of a verdict and a search in baby and giant steps,   *)
(* and the proof that a ciphertext is well formed.  The second generator   *)
(* h1 of G1 has an unknown logarithm: a point of G1 is a pair.             *)
(***************************************************************************)
EXTENDS ThresholdKey

CONSTANTS LimbBits,    \* bits of a limb
          NumLimbs,    \* limbs of a sealed value
          BabySteps    \* BSGS_M, the root of the number of limb values

(* The powers of two up to the number of values of a limb: the weights of its bits, and that number. *)
Weight[i \in 0..LimbBits] == IF i = 0 THEN 1 ELSE 2 * Weight[i - 1]

ASSUME LimbAssumption ==
    /\ LimbBits \in Nat /\ Weight[LimbBits] < R
    /\ BabySteps \in Nat /\ BabySteps * BabySteps = Weight[LimbBits]
    /\ NumLimbs \in Nat

LimbValues == 0..(Weight[LimbBits] - 1)
LimbIndex == 0..(NumLimbs - 1)

None == -1

Limb(s2, j) == (s2 \div 2^(LimbBits * j)) % Weight[LimbBits]

(* The target group of the pairing, written by exponents. *)
GTMul(a, b) == Add(a, b)
GTDiv(a, b) == Sub(a, b)
GTPow(a, k) == Mul(a, k)

(* The identity of a verdict hashed to G2 under the tag "verenc" is q: g_T = e(g1, q), K_pub = e(VA_pub, q). *)
Params(pub, q) == [gT |-> Pairing(1, q), kPub |-> Pairing(pub, q)]

EncryptLimb(pr, m, rho) == [u |-> Times(1, rho), w |-> GTMul(GTPow(pr.gT, m), GTPow(pr.kPub, rho))]

Encrypt(pub, q, s2, rho) == [j \in LimbIndex |-> EncryptLimb(Params(pub, q), Limb(s2, j), rho[j])]

(* Mutant: the last giant step is not taken. *)
MutGiantSteps == 0..(BabySteps - 2)

GiantSteps == 0..(BabySteps - 1)

(* bsgs_solve: the first giant step that lands on a baby step. *)
Solve(gT, target) ==
    LET landed(i, j) == GTDiv(target, GTPow(gT, i * BabySteps)) = GTPow(gT, j)
        hits == {i \in GiantSteps : \E j \in 0..(BabySteps - 1) : landed(i, j)}
    IN IF hits = {} THEN None
       ELSE Min(hits) * BabySteps + CHOOSE j \in 0..(BabySteps - 1) : landed(Min(hits), j)

(* The signature of a verdict by one who has the whole key x. *)
VerdictSignature(x, q) == Times(q, x)

(* e(u, sigma) = K_pub^rho takes the mask off. *)
DecryptLimb(limb, sigma, q) == Solve(Pairing(1, q), GTDiv(limb.w, Pairing(limb.u, sigma)))

Decrypt(ct, sigma, q) ==
    LET m == [j \in LimbIndex |-> DecryptLimb(ct[j], sigma, q)]
    IN IF DOMAIN ct # LimbIndex \/ \E j \in LimbIndex : m[j] = None THEN None
       ELSE MapThenSumSet(LAMBDA j : m[j] * 2^(LimbBits * j), LimbIndex)

-----------------------------------------------------------------------------
(* Points of G1 over the generators g1 and h1. *)
Point == [g : Field, h : Field]
PointAdd(p, q) == [g |-> Add(p.g, q.g), h |-> Add(p.h, q.h)]
PointMul(p, k) == [g |-> Mul(p.g, k), h |-> Mul(p.h, k)]
PointSub(p, q) == PointAdd(p, PointMul(q, R - 1))
G1 == [g |-> 1, h |-> 0]
H1 == [g |-> 0, h |-> 1]

(* A commitment to a bit. *)
BitCommitment(b, t) == PointAdd(PointMul(G1, b), PointMul(H1, t))

(* The value commitment C_m, the sum of the bit commitments by weight. *)
ValueCommitment(bits) ==
    LET sum[i \in 0..Len(bits)] ==
            IF i = 0 THEN [g |-> 0, h |-> 0] ELSE PointAdd(sum[i - 1], PointMul(bits[i], Weight[i - 1]))
    IN sum[Len(bits)]

(* The OR-proof of a bit b under t: the branch that is false is simulated, with the nonces e, z and k. *)
ProveBit(b, t, challenge, e, z, k) ==
    LET p    == [d \in 0..1 |-> PointSub(BitCommitment(b, t), PointMul(G1, d))]
        fake == PointSub(PointMul(H1, z), PointMul(p[1 - b], e))
        real == Sub(challenge, e)
        zr   == Add(k, Mul(real, t))
    IN IF b = 0 THEN [a0 |-> PointMul(H1, k), a1 |-> fake, e0 |-> real, z0 |-> zr, z1 |-> z]
       ELSE [a0 |-> fake, a1 |-> PointMul(H1, k), e0 |-> e, z0 |-> z, z1 |-> zr]

(* Mutant: the other branch is given a challenge of its own. *)
MutVerifyBit(p, or, challenge) ==
    /\ PointMul(H1, or.z0) = PointAdd(or.a0, PointMul(p, or.e0))
    /\ \E e1 \in Field : PointMul(H1, or.z1) = PointAdd(or.a1, PointMul(PointSub(p, G1), e1))

VerifyBit(p, or, challenge) ==
    /\ PointMul(H1, or.z0) = PointAdd(or.a0, PointMul(p, or.e0))
    /\ PointMul(H1, or.z1) = PointAdd(or.a1, PointMul(PointSub(p, G1), Sub(challenge, or.e0)))

(* The Schnorr proof that C_m, u and w share m and rho: its first message, from three nonces. *)
LinkFirst(pr, alpha, beta, gamma) ==
    [ra |-> BitCommitment(alpha, beta), rb |-> gamma,
     rc |-> GTMul(GTPow(pr.gT, alpha), GTPow(pr.kPub, gamma))]

LinkResponse(m, t, rho, challenge, alpha, beta, gamma) ==
    [zm |-> Add(alpha, Mul(challenge, m)), zt |-> Add(beta, Mul(challenge, t)),
     zrho |-> Add(gamma, Mul(challenge, rho))]

VerifyLink(pr, limb, cm, first, challenge, z) ==
    /\ BitCommitment(z.zm, z.zt) = PointAdd(first.ra, PointMul(cm, challenge))
    /\ z.zrho = Add(first.rb, Mul(limb.u, challenge))
    /\ GTMul(GTPow(pr.gT, z.zm), GTPow(pr.kPub, z.zrho)) = GTMul(first.rc, GTPow(limb.w, challenge))

(* verify_limb: as many bits as a limb has, each a bit, and linked to the ciphertext. *)
VerifyLimb(pr, limb, proof, challenges) ==
    /\ Len(proof.bits) = LimbBits /\ Len(proof.ors) = LimbBits
    /\ \A i \in 1..LimbBits : VerifyBit(proof.bits[i], proof.ors[i], challenges.bit[i])
    /\ VerifyLink(pr, limb, ValueCommitment(proof.bits), proof.first, challenges.link, proof.z)

(* A proof for each limb of a ciphertext that has them all. *)
VerifyWellformed(pr, ct, proofs, challenges) ==
    /\ DOMAIN ct = LimbIndex /\ DOMAIN proofs = LimbIndex
    /\ \A j \in LimbIndex : VerifyLimb(pr, ct[j], proofs[j], challenges[j])

(* prove_limb: t are the blindings of the bits, n the nonces. *)
ProveLimb(pr, m, rho, t, n, challenges) ==
    LET b == [i \in 1..LimbBits |-> (m \div Weight[i - 1]) % 2]
        bits == [i \in 1..LimbBits |-> BitCommitment(b[i], t[i])]
    IN [bits  |-> bits,
        ors   |-> [i \in 1..LimbBits |-> ProveBit(b[i], t[i], challenges.bit[i], n.e, n.z, n.k)],
        first |-> LinkFirst(pr, n.alpha, n.beta, n.gamma),
        z     |-> LinkResponse(m, ValueCommitment(bits).h, rho, challenges.link, n.alpha, n.beta, n.gamma)]
=============================================================================
