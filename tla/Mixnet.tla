------------------------------- MODULE Mixnet -------------------------------
(***************************************************************************)
(* The packets of the mixnet (sphinx.rs, loopix.rs, the Mixer of node.rs): *)
(* paths, headers and payloads, what a mix does with a packet, reply       *)
(* blocks, fragments and their reassembly.                                 *)
(*                                                                         *)
(* Group elements are discrete logarithms modulo Q.  A string of bytes is  *)
(* the set of the terms whose exclusive or it is: a plain text, a hash and *)
(* a piece of a keystream are terms, and a term met twice is gone.         *)
(***************************************************************************)
EXTENDS Integers, Sequences, FiniteSets, FiniteSetsExt, SequencesExt

CONSTANTS Mix,            \* the mixes of the genesis directory
          MaxHops,        \* MAX_HOPS, and the number of blocks of a header
          Q,              \* order of the group, a prime
          MixKey,         \* the secret key of each mix, no two of them the same
          Blinding(_, _), \* hash of an element and a secret to a scalar
          Body,           \* what packets may carry
          ChunkLen        \* FRAG_CHUNK

ASSUME MixnetAssumption ==
    /\ MaxHops \in Nat \ {0} /\ ChunkLen \in Nat \ {0} /\ Body # {}
    /\ Q \in Nat /\ Q > 1 /\ \A d \in 2..(Q - 1) : Q % d # 0
    /\ MixKey \in [Mix -> 1..(Q - 1)] /\ \A m, n \in Mix : MixKey[m] = MixKey[n] => m = n
    /\ \A a, s \in 0..(Q - 1) : Blinding(a, s) \in 1..(Q - 1)

NoSurb == 0
Xor(a, b) == SymDiff(a, b)
Scale(a, b) == (a * b) % Q

(* The paths of select_full_path: distinct mixes in between, none of them the source or the destination. *)
Paths(source, dest, hops) ==
    {p \in [1..hops -> Mix] : /\ p[hops] = dest
                              /\ \A i \in 1..(hops - 1) : p[i] \notin {source, dest}
                              /\ \A i, j \in 1..(hops - 1) : p[i] = p[j] => i = j}

-----------------------------------------------------------------------------
(* One layer of the payload: LIONESS, four rounds of a Feistel network. *)
Stream(key, left) == {<<"stream", Xor(left, {key})>>}
Hash(key, right) == {<<"hash", key, right>>}
LionKey(s, i) == <<"lion", s, i>>

Encrypt1(s, block) == [block EXCEPT !.r = Xor(@, Stream(LionKey(s, 1), block.l))]
Encrypt2(s, block) == [block EXCEPT !.l = Xor(@, Hash(LionKey(s, 2), block.r))]
Encrypt3(s, block) == [block EXCEPT !.r = Xor(@, Stream(LionKey(s, 3), block.l))]
Encrypt4(s, block) == [block EXCEPT !.l = Xor(@, Hash(LionKey(s, 4), block.r))]

(* The rounds are their own inverses: decryption takes them backwards. *)
LionessEncrypt(s, block) == Encrypt4(s, Encrypt3(s, Encrypt2(s, Encrypt1(s, block))))
LionessDecrypt(s, block) == Encrypt1(s, Encrypt2(s, Encrypt3(s, Encrypt4(s, block))))

(* A body and its digest, over both halves of the block. *)
EncodeBody(m) == [l |-> {<<"left", m>>}, r |-> {<<"right", m>>}]

(* open_payload: the body whose digest is right. *)
Open(block) ==
    LET bodies == {m \in Body : EncodeBody(m) = block}
    IN IF bodies = {} THEN [kind |-> "refused"] ELSE [kind |-> "deliver", body |-> CHOOSE m \in bodies : TRUE]

-----------------------------------------------------------------------------
(* Piece i of the header keystream, and the tag of a header. *)
Rho(s, i) == {<<"rho", s, i>>}
Mu(s, beta) == <<"mu", s, beta>>

RoutingBlock(flag, next, delay) == <<"route", flag, next, delay>>

(* What a mix makes of a group element, and the sender in its stead. *)
Secret(mix, alpha) == Scale(MixKey[mix], alpha)
Blinded(mix, alpha) == Scale(alpha, Blinding(alpha, Secret(mix, alpha)))

(* The element x as each hop of a path leaves it, and the secrets shared with them. *)
Alphas(path, x) ==
    LET alpha[i \in 0..Len(path)] == IF i = 0 THEN x ELSE Blinded(path[i], alpha[i - 1])
    IN alpha
Secrets(path, x) == [i \in DOMAIN path |-> Secret(path[i], Alphas(path, x)[i - 1])]

(* Mutant: the keystream is taken from one block too early. *)
MutFromTail(n) == MaxHops - n

(* Where the last n blocks of a keystream of MaxHops + 1 blocks begin. *)
FromTail(n) == MaxHops + 1 - n

(* The blocks that the shifts of the hops before the last leave at the end of the header. *)
Lengthen(phi, s) ==
    [j \in 1..(Len(phi) + 1) |->
        Xor(IF j <= Len(phi) THEN phi[j] ELSE {}, Rho(s, FromTail(Len(phi) + 1) + j))]
Filler(secrets) ==
    LET phi[i \in 0..(Len(secrets) - 1)] == IF i = 0 THEN <<>> ELSE Lengthen(phi[i - 1], secrets[i])
    IN phi[Len(secrets) - 1]

(* The header for the last hop: its routing block, noise, and the filler. *)
InnerBeta(secrets, surbId, delay) ==
    LET phi == Filler(secrets)
        region == MaxHops - Len(phi)
        plain(j) == {<<"noise", j>>} \cup IF j = 1 THEN {RoutingBlock("deliver", surbId, delay)} ELSE {}
    IN [j \in 1..region |-> Xor(plain(j), Rho(Last(secrets), j))] \o phi

(* The header for hop i around the header beta of the next: prepend, drop the last block, encrypt. *)
WrapBeta(secrets, path, delays, i, beta) ==
    LET block == {RoutingBlock("forward", path[i + 1], delays[i]), Mu(secrets[i + 1], beta)}
    IN [j \in 1..MaxHops |-> Xor(IF j = 1 THEN block ELSE beta[j - 1], Rho(secrets[i], j))]

(* A header is refused to no hops and to more than MaxHops. *)
Fits(path) == Len(path) \in 1..MaxHops
NoHeader == [kind |-> "refused"]

BuildHeader(path, delays, surbId, x) ==
    LET secrets == Secrets(path, x)
        v == Len(path)
        beta[i \in 0..(v - 1)] ==
            IF i = 0 THEN InnerBeta(secrets, surbId, delays[v])
            ELSE WrapBeta(secrets, path, delays, v - i, beta[i - 1])
    IN IF ~Fits(path) THEN NoHeader
       ELSE [alpha |-> x, beta |-> beta[v - 1], gamma |-> Mu(secrets[1], beta[v - 1]), secrets |-> secrets]

(* One layer for each secret, that of the first outermost. *)
Layers(secrets, block) ==
    LET layer[i \in 0..Len(secrets)] ==
            IF i = 0 THEN block ELSE LionessEncrypt(secrets[Len(secrets) + 1 - i], layer[i - 1])
    IN layer[Len(secrets)]

(* A packet around a body. *)
Create(path, delays, m, x) ==
    LET header == BuildHeader(path, delays, NoSurb, x)
    IN IF ~Fits(path) THEN NoHeader
       ELSE [alpha |-> header.alpha, beta |-> header.beta, gamma |-> header.gamma,
             payload |-> Layers(header.secrets, EncodeBody(m))]

(* A reply block, the keys its creator keeps, and what another makes of it. *)
CreateSurb(path, delays, surbId, x, surbKey) ==
    LET header == BuildHeader(path, delays, surbId, x)
    IN IF ~Fits(path) THEN NoHeader
       ELSE [first |-> path[1], alpha |-> header.alpha, beta |-> header.beta, gamma |-> header.gamma,
             key |-> surbKey]
ReplyKeys(path, x, surbKey) == [secrets |-> Secrets(path, x), key |-> surbKey]

UseSurb(surb, m) ==
    [alpha |-> surb.alpha, beta |-> surb.beta, gamma |-> surb.gamma,
     payload |-> LionessEncrypt(surb.key, EncodeBody(m))]

(* The creator redoes the layers that the mixes took off, the last first, and takes off the other's. *)
RecoverReply(keys, payload) ==
    Open(LionessDecrypt(keys.key, Layers(keys.secrets, payload)))

-----------------------------------------------------------------------------
(* Mutant: the tag is not looked at. *)
MutAuthentic(s, packet) == TRUE

Authentic(s, packet) == Mu(s, packet.beta) = packet.gamma

(* The first term of a block that is a routing command or a tag; a block without is garbage. *)
Parsed(block, kind) ==
    LET terms == {a \in block : a[1] = kind}
    IN IF terms = {} THEN <<kind, "garbage", 0, 0>> ELSE CHOOSE a \in terms : TRUE

(* sphinx::process at a mix. *)
Process(mix, packet) ==
    LET s == Secret(mix, packet.alpha)
        stripped == [j \in 1..(MaxHops + 1) |->
                        Xor(IF j <= MaxHops THEN packet.beta[j] ELSE {}, Rho(s, j))]
        route == Parsed(stripped[1], "route")
        payload == LionessDecrypt(s, packet.payload)
    IN IF ~Authentic(s, packet) THEN [kind |-> "refused"]
       ELSE IF route[2] # "deliver"
       THEN [kind |-> "forward", next |-> route[3], delay |-> route[4],
             packet |-> [alpha |-> Blinded(mix, packet.alpha),
                         beta |-> Tail(stripped), gamma |-> Parsed(stripped[1], "mu"),
                         payload |-> payload]]
       ELSE IF route[3] # NoSurb
       THEN [kind |-> "surb", id |-> route[3], payload |-> payload]
       ELSE Open(payload)

-----------------------------------------------------------------------------
(* A payload is split into chunks that share its message id; an empty one has one chunk. *)
Fragments(id, payload) ==
    LET count == IF payload = <<>> THEN 1 ELSE (Len(payload) + ChunkLen - 1) \div ChunkLen
    IN [i \in 0..(count - 1) |->
           [id |-> id, index |-> i, count |-> count,
            chunk |-> SubSeq(payload, i * ChunkLen + 1, Min({(i + 1) * ChunkLen, Len(payload)}))]]

NewReassembler == [partials |-> <<>>, seq |-> 0, out |-> <<>>]

(* Mutant: the youngest is evicted. *)
MutOldest(partials) == CHOOSE id \in DOMAIN partials : \A j \in DOMAIN partials : partials[j].seq <= partials[id].seq

Oldest(partials) == CHOOSE id \in DOMAIN partials : \A j \in DOMAIN partials : partials[id].seq <= partials[j].seq

Without(f, x) == [y \in DOMAIN f \ {x} |-> f[y]]

(* The partial message of an id, begun with its first fragment. *)
Partial(ra, frag) ==
    IF frag.id \in DOMAIN ra.partials THEN ra.partials[frag.id]
    ELSE [count |-> frag.count, parts |-> <<>>, seq |-> ra.seq]

Whole(partial) == FlattenSeq([i \in 1..partial.count |-> partial.parts[i - 1]])

(* Reassembler::accept; out is what has been handed to the inbox. *)
Accept(ra, frag, maxPartials) ==
    LET old == Partial(ra, frag)
        new == [old EXCEPT !.parts =
                   [i \in DOMAIN @ \cup {frag.index} |-> IF i = frag.index THEN frag.chunk ELSE @[i]]]
        partials == [id \in DOMAIN ra.partials \cup {frag.id} |->
                        IF id = frag.id THEN new ELSE ra.partials[id]]
        next == [ra EXCEPT !.seq = @ + 1]
    IN IF frag.count = 0 \/ frag.index >= frag.count THEN ra
       ELSE IF old.count # frag.count THEN next
       ELSE IF DOMAIN new.parts = 0..(new.count - 1)
       THEN [next EXCEPT !.partials = Without(ra.partials, frag.id), !.out = Append(@, Whole(new))]
       ELSE [next EXCEPT !.partials =
                IF Cardinality(DOMAIN partials) > maxPartials
                THEN Without(partials, Oldest(partials)) ELSE partials]
=============================================================================
