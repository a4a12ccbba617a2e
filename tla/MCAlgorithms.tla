---------------------------- MODULE MCAlgorithms ----------------------------
(***************************************************************************)
(* The pure algorithms against definitions of what they should compute,    *)
(* over bounded inputs.  A behaviour has one input; some kinds of input    *)
(* grow step by step: the blocks of a chain with membership ops or with    *)
(* suspensions, and the fragments that have arrived at a node.             *)
(***************************************************************************)
EXTENDS ChainPath, VerEnc, Mixnet, Rejoin, PsiDiscovery

CONSTANTS MaxLen,     \* bound: the length of the chains
          Ephemeral,  \* bound: what packets are begun with
          MaxKeys,    \* bound: keys put into a tree
          Nullifiers, \* bound: those that are suspended
          Payloads    \* bound: the messages whose fragments arrive

ASSUME NodeAssumption == Node # {}

ASSUME EphemeralAssumption == Ephemeral \subseteq 1..(Q - 1)

ASSUME KeysAssumption == MaxKeys \in Nat /\ Nullifiers \subseteq Key

ASSUME PayloadsAssumption ==
    /\ Payloads \in Seq(Seq(Int))
    /\ \A i, j \in DOMAIN Payloads : Payloads[i] = Payloads[j] => i = j

VARIABLES input, path, arrived

vars == <<input, path, arrived>>

MCMixKey == [m \in Mix |-> 2 * m + 1]
MCBlinding(a, s) == 1 + ((3 * a + 5 * s) % (Q - 1))
MCHashToPoint == [i \in 1..3 |-> <<2, 3, 6>>[i]]
MCPayloads == <<<<1, 1, 1>>, <<2, 2, 2>>, <<>>, <<3, 3, 3, 3>>>>

-----------------------------------------------------------------------------
(* At most one op for each subject, as assemble_block puts into a block. *)
OpSets == {ops \in SUBSET Op : \A o, p \in ops : o.subject = p.subject => o = p}

Growing == {<<"chain">>, <<"suspensions">>} \cup {<<"fragments", n>> : n \in 1..2}

Onion == {<<"onion", p, x>> :
              p \in UNION {Paths(s, d, h) : s \in Mix, d \in Mix, h \in 1..MaxHops}, x \in Ephemeral}

(* The polynomials of genesis and of the re-share to size parties, of which the first combines over *)
(* the holders in one and the others over those in rest; and what is sealed.                        *)
Polynomials == {<<1, 0>>, <<1, 3>>, <<4, 2>>}
Holders == {s \in SUBSET (1..3) : Cardinality(s) >= 2}
Group == {<<"group", [polys |-> polys, tails |-> [i \in 1..3 |-> <<0, tails[i]>>],
                      one |-> one, rest |-> rest, size |-> n, s2 |-> s2]>> :
              polys \in [1..3 -> Polynomials], tails \in [1..3 -> {1, 4}],
              one, rest \in Holders, n \in {2, 4}, s2 \in {6, 15}}

Sealed == {<<"sealed", x, q, u, w>> : x, q \in Field \ {0}, u, w \in Field}

(* A statement of the proof of a limb with everything the prover may choose. *)
Statement == {<<"statement", m, u, w>> : m \in LimbValues, u, w \in Field}
Honest == {<<"honest", m, rho, t, c>> : m \in [LimbIndex -> LimbValues], rho, t, c \in Field}
BitPoint == {<<"bit", p>> : p \in Point}

Keys == {<<"keys", ks>> : ks \in UNION {[1..n -> Key] : n \in 0..MaxKeys}}

Preferences == [DOMAIN HashToPoint -> {0, 1}]
Interest == {<<"interest", p, r, a, b>> : p, r \in Preferences, a, b \in PsiSecret}

Init ==
    /\ path = <<>> /\ arrived = <<>>
    /\ \/ input \in Growing
       \/ input \in Onion
       \/ input \in Group
       \/ input \in Sealed
       \/ input \in Statement
       \/ input \in Honest
       \/ input \in BitPoint
       \/ input \in Keys
       \/ input \in Interest

AppendBlock(ops) ==
    /\ input[1] = "chain" /\ Len(path) < MaxLen
    /\ path' = Append(path, [view |-> 0, proposer |-> CHOOSE n \in Node : TRUE, alt |-> FALSE, ops |-> ops])
    /\ UNCHANGED <<input, arrived>>

(* The nullifiers that a block suspends are new. *)
Suspended == UNION ToSet(path)
AppendSuspensions(keys) ==
    /\ input[1] = "suspensions" /\ Len(path) < Window + 2 /\ keys \cap Suspended = {}
    /\ path' = Append(path, keys)
    /\ UNCHANGED <<input, arrived>>

AllFragments == UNION {{Fragments(id, Payloads[id])[i] : i \in DOMAIN Fragments(id, Payloads[id])} :
                          id \in DOMAIN Payloads}

(* The mixnet delays and loses fragments, it repeats none. *)
Arrive(frag) ==
    /\ input[1] = "fragments" /\ frag \notin ToSet(arrived)
    /\ arrived' = Append(arrived, frag)
    /\ UNCHANGED <<input, path>>

Next ==
    \/ \E ops \in OpSets : AppendBlock(ops)
    \/ \E keys \in SUBSET Nullifiers : AppendSuspensions(keys)
    \/ \E frag \in AllFragments : Arrive(frag)

Spec == Init /\ [][Next]_vars

-----------------------------------------------------------------------------
(***************************************************************************)
(* The set computed from the last op about each node is what folding       *)
(* genesis forward block by block gives, for any history, with ops that    *)
(* change nothing, departures and returns.                                 *)
(***************************************************************************)
ActiveSetIsFold ==
    input[1] = "chain" =>
        ActiveSet(path) = FoldLeft(LAMBDA set, header : ApplyBlock(header, set), Genesis, path)

-----------------------------------------------------------------------------
Delays(p) == [i \in DOMAIN p |-> 10 * i]
SurbKey == 8
SurbId == 5
Message == CHOOSE m \in Body : TRUE

(* What the k-th mix of p makes of what the one before it sends; the first is given its packet. *)
Onward(p, first, k, sent) ==
    IF sent.kind = "forward" /\ sent.next = p[k] /\ (k > first => sent.delay = Delays(p)[k - 1])
    THEN Process(p[k], sent.packet) ELSE [kind |-> "refused"]

(* What the mixes of p, from the k-th on, make of a packet that the k-th is given. *)
Journey(p, k, packet) ==
    LET sent[i \in 0..(Len(p) - k + 1)] ==
            IF i = 0 THEN [kind |-> "forward", next |-> p[k], delay |-> 0, packet |-> packet]
            ELSE Onward(p, k, k + i - 1, sent[i - 1])
    IN sent[Len(p) - k + 1]

(* The packet as the k-th mix receives it. *)
PacketAt(p, k, packet) == IF k = 1 THEN packet ELSE Journey(SubSeq(p, 1, k - 1), 1, packet).packet

(***************************************************************************)
(* However long its path, loops to the sender included, a packet is        *)
(* forwarded from mix to mix after the delays that were chosen, every      *)
(* other mix refuses it, and the last one has the body; the answer to a    *)
(* reply block comes to its creator, who recovers it.                      *)
(***************************************************************************)
OnionsArrive ==
    input[1] = "onion" =>
        LET p == input[2]
            x == input[3]
            onion == Create(p, Delays(p), Message, x)
            surb == CreateSurb(p, Delays(p), SurbId, x, SurbKey)
            reply == Journey(p, 1, UseSurb(surb, Message))
        IN /\ Journey(p, 1, onion) = [kind |-> "deliver", body |-> Message]
           /\ \A k \in DOMAIN p, m \in Mix :
                 m # p[k] => Process(m, PacketAt(p, k, onion)).kind = "refused"
           /\ surb.first = p[1] /\ reply.kind = "surb" /\ reply.id = SurbId
           /\ RecoverReply(ReplyKeys(p, x, SurbKey), reply.payload) = [kind |-> "deliver", body |-> Message]

Altered(packet) ==
    {[packet EXCEPT !.beta[j] = Xor(@, {<<"noise", 0>>})] : j \in 1..MaxHops}
        \cup {[packet EXCEPT !.payload.l = Xor(@, {<<"noise", 0>>})],
              [packet EXCEPT !.payload.r = Xor(@, {<<"noise", 0>>})]}

(***************************************************************************)
(* A packet whose header or payload is damaged before any of its hops is   *)
(* delivered to nobody.                                                    *)
(***************************************************************************)
DamagedAreRefused ==
    input[1] = "onion" =>
        LET p == input[2]
            onion == Create(p, Delays(p), Message, input[3])
        IN \A k \in DOMAIN p : \A packet \in Altered(PacketAt(p, k, onion)) :
              Journey(p, k, packet).kind = "refused"

-----------------------------------------------------------------------------
Reassembled(max) == FoldLeft(LAMBDA ra, f : Accept(ra, f, max), NewReassembler, arrived)
Positions(id) == {k \in DOMAIN arrived : arrived[k].id = id}
AllArrived(id) == Cardinality(Positions(id)) = Cardinality(DOMAIN Fragments(id, Payloads[id]))

(* The other messages of which something arrived after the first and before the last fragment of id. *)
Between(id) ==
    {arrived[k].id : k \in {j \in Min(Positions(id))..Max(Positions(id)) : arrived[j].id # id}}

(***************************************************************************)
(* Whatever the order of arrival, what is handed on is a message that was  *)
(* sent and complete, none twice; a complete message is missed only if     *)
(* there came, before it was, fragments of as many others as there are     *)
(* places; and no more are ever kept.                                      *)
(***************************************************************************)
FragmentsReassemble ==
    input[1] = "fragments" =>
        LET max == input[2]
            ra == Reassembled(max)
        IN /\ Cardinality(DOMAIN ra.partials) <= max
           /\ \A i, j \in DOMAIN ra.out : ra.out[i] = ra.out[j] => i = j
           /\ \A i \in DOMAIN ra.out : \E id \in DOMAIN Payloads : ra.out[i] = Payloads[id] /\ AllArrived(id)
           /\ \A id \in DOMAIN Payloads : AllArrived(id) =>
                 Payloads[id] \in ToSet(ra.out) \/ Cardinality(Between(id)) >= max

-----------------------------------------------------------------------------
(* The identity of a verdict, hashed under either tag. *)
VerdictHash == 3
VerdictId == [dst \in Dst |-> IF dst = "verenc" THEN VerdictHash ELSE 2]
SealRandomness == [j \in LimbIndex |-> 2 + j]

(* The partials of the verdict by the holders of shares in t, combined; and what they would make as votes. *)
VerdictOf(t, shares) == CombineSignatures([j \in t |-> SignDst(shares[j], VerdictId, "verenc")])
VoteOf(t, shares) == CombineSignatures([j \in t |-> SignShare(shares[j], VerdictId)])

Unseals(pub, sigma, s2) == Decrypt(Encrypt(pub, VerdictHash, s2, SealRandomness), sigma, VerdictHash) = s2

(* The holders in t have the key of pub: their verdict opens what is sealed and is nobody's vote, *)
(* their vote is one of pub and opens nothing.                                                    *)
HaveKey(t, shares, pub, s2) ==
    /\ Unseals(pub, VerdictOf(t, shares), s2) /\ ~VerifySignature(pub, VerdictId, VerdictOf(t, shares))
    /\ VerifySignature(pub, VerdictId, VoteOf(t, shares)) /\ ~Unseals(pub, VoteOf(t, shares), s2)

(* The slope of the polynomial that a re-share by the holders in s puts the new shares on. *)
Slope(tails, s) == Interpolate([i \in s |-> tails[i][2]])

(***************************************************************************)
(* The group key outlives its holders: any threshold of the genesis        *)
(* shareholders, and after a re-share by any qualified set of them to a    *)
(* set of another size any threshold of the new ones, have the key that    *)
(* opens what was sealed before.  If one of the new ones combines over     *)
(* other holders than the rest, a threshold with it opens nothing, unless  *)
(* both ways lead to one polynomial.  A signature made for a verdict       *)
(* passes for no vote and a vote opens nothing; a share verifies against   *)
(* its dealer's commitments only as it was dealt.                          *)
(***************************************************************************)
QuorumsOpen ==
    input[1] = "group" =>
        LET g == input[2]
            keys == GenesisKeys(g.polys)
            over(k) == IF k = 1 THEN g.one ELSE g.rest
            fresh == [k \in 1..g.size |-> Reshare([i \in over(k) |-> keys.shares[i]], g.tails, g.size)[k]]
            aligned(t) == 1 \in t => Slope(g.tails, g.one) = Slope(g.tails, g.rest)
            dealing == Deal(g.polys[1], 3)
        IN /\ \A t \in Holders : HaveKey(t, keys.shares, keys.pub, g.s2)
           /\ \A t \in SUBSET (1..g.size) : Cardinality(t) >= 2 =>
                 IF aligned(t) THEN HaveKey(t, fresh, keys.pub, g.s2)
                 ELSE ~Unseals(keys.pub, VerdictOf(t, fresh), g.s2)
           /\ \A j \in 1..3, share \in Field :
                 VerifyShare(j, share, dealing.commitments) <=> share = dealing.shares[j]

(***************************************************************************)
(* The search of a limb finds its value whenever it has one, at either end *)
(* of the range, and nothing otherwise.                                    *)
(***************************************************************************)
LimbsDecrypt ==
    input[1] = "sealed" =>
        LET x == input[2]
            q == input[3]
            limb == [u |-> input[4], w |-> input[5]]
            fits == {m \in LimbValues : limb.w = EncryptLimb(Params(x, q), m, limb.u).w}
        IN DecryptLimb(limb, VerdictSignature(x, q), q) = IF fits = {} THEN None ELSE CHOOSE m \in fits : TRUE

(* The challenges that a prover who has sent his first message can answer. *)
LinkAnswered(pr, limb, cm, first) ==
    {c \in Field : \E zm, zrho \in Field :
        VerifyLink(pr, limb, cm, first, c, [zm |-> zm, zt |-> 0, zrho |-> zrho])}
BitAnswered(p, a0, a1) ==
    {c \in Field : \E e0, z0, z1 \in Field :
        VerifyBit(p, [a0 |-> a0, a1 |-> a1, e0 |-> e0, z0 |-> z0, z1 |-> z1], c)}

(* A prover who can answer two challenges has told the truth, of a bit and of a limb. *)
AcceptedOpens ==
    /\ input[1] = "bit" =>
          \A a0, a1 \in [g : Field, h : {0}] :
              Cardinality(BitAnswered(input[2], a0, a1)) >= 2 => input[2].g \in {0, 1}
    /\ input[1] = "statement" =>
          LET x == 2
              limb == [u |-> input[3], w |-> input[4]]
              pr == Params(x, VerdictHash)
          IN \A alpha, rb, rc \in Field :
                Cardinality(LinkAnswered(pr, limb, BitCommitment(input[2], 0),
                                         [ra |-> BitCommitment(alpha, 0), rb |-> rb, rc |-> rc])) >= 2
                    => DecryptLimb(limb, VerdictSignature(x, VerdictHash), VerdictHash) = input[2]

(* The nonces of a prover, made from a challenge to be unlike it. *)
Nonces(c) == [e |-> Add(c, 1), z |-> Add(c, 2), k |-> Mul(c, 3), alpha |-> Add(c, 4), beta |-> c, gamma |-> Mul(c, 2)]

(* What an honest node proves is accepted. *)
HonestAreAccepted ==
    input[1] = "honest" =>
        LET pr == Params(2, VerdictHash)
            challenges == [bit |-> [i \in 1..LimbBits |-> Add(input[5], i)], link |-> input[5]]
            blindings == [i \in 1..LimbBits |-> Add(input[4], i)]
            rho(j) == Add(input[3], j)
            proof(j) == ProveLimb(pr, input[2][j], rho(j), blindings, Nonces(input[5]), challenges)
        IN VerifyWellformed(pr, [j \in LimbIndex |-> EncryptLimb(pr, input[2][j], rho(j))],
                            [j \in LimbIndex |-> proof(j)], [j \in LimbIndex |-> challenges])

(***************************************************************************)
(* The proofs of a sealed share: a prover who can answer two challenges    *)
(* has committed to bits, and the ciphertext of his limb opens, under the  *)
(* verdict's signature, to the value they commit to; and whoever knows     *)
(* these answers every challenge, with any blindings.                      *)
(***************************************************************************)
LimbProofsHold == AcceptedOpens /\ HonestAreAccepted

-----------------------------------------------------------------------------
(* The full tree over a set of keys, row by row, and its root. *)
Rows(keys) ==
    LET row[level \in 0..Depth] ==
            IF level = 0 THEN [i \in Key |-> IF i \in keys THEN PresentLeaf ELSE EmptyLeaf]
            ELSE [i \in 0..(Width[Depth - level] - 1) |-> HashPair(row[level - 1][2 * i], row[level - 1][2 * i + 1])]
    IN row

FullTree(keys) == Rows(keys)[Depth][0]

(***************************************************************************)
(* The root depends on the set of keys only, not on the order in which     *)
(* they were put in or on repetitions; of every key exactly the truth can  *)
(* be proved.                                                              *)
(***************************************************************************)
RootsAreCanonical ==
    input[1] = "keys" =>
        LET tree == FromKeys(input[2])
        IN /\ Root(tree) = FullTree(ToSet(input[2]))
           /\ \A key \in Key :
                 /\ VerifyProof(Root(tree), Prove(tree, key))
                 /\ ~VerifyProof(Root(tree), [Prove(tree, key) EXCEPT !.present = ~@])
                 /\ Prove(tree, key).present <=> key \in ToSet(input[2])

(***************************************************************************)
(* A package built at any earlier head is admitted, for the peer and the   *)
(* block it names only, as long as it is recent, and whoever is suspended  *)
(* has none: so a nullifier suspended more than the window before a head   *)
(* does not come back, and one that never was is admitted all along.       *)
(***************************************************************************)
RejoinsAreClean ==
    input[1] = "suspensions" =>
        \A h \in 0..Len(path), key \in Key :
            LET packages == Packages(SubSeq(path, 1, h), key, "joiner")
                admitted(package, peer) == Admissible(path, package, peer)
            IN /\ key \notin Suspended /\ h >= Len(path) - Window =>
                     \E package \in packages : admitted(package, "joiner")
               /\ \A package \in packages :
                     /\ key \in SuspKeysAt(path, Len(path) - Window) => ~admitted(package, "joiner")
                     /\ ~admitted(package, "other")
                     /\ \A ref \in (0..(Len(path) + 1)) \ {h} : ~admitted([package EXCEPT !.ref = ref], "joiner")

(***************************************************************************)
(* Two validators become peers by interest exactly if they like enough     *)
(* items in common, whatever their secrets, and each finds it of the other.*)
(***************************************************************************)
InterestIsMutual ==
    input[1] = "interest" =>
        LET common == {i \in DOMAIN input[2] : input[2][i] > 0 /\ input[3][i] > 0}
            finds(p, r, a, b) == Offers(p) /\ IsInterestPeer(a, Respond(r, b, Offer(p, a)))
        IN /\ finds(input[2], input[3], input[4], input[5]) <=> Cardinality(common) >= PsiThreshold
           /\ finds(input[3], input[2], input[5], input[4]) <=> Cardinality(common) >= PsiThreshold
=============================================================================
