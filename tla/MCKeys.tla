------------------------------- MODULE MCKeys -------------------------------
(***************************************************************************)
(* Bounds for PkSession: curves of a few dozen points, all random numbers  *)
(* of their width, and what the other side may get instead of what was     *)
(* sent; and the two users of public keys, sessions and certificate        *)
(* chains, explored one at a time, for they share no state.                *)
(***************************************************************************)
EXTENDS PkSession, MCCertChain

\* Hash and KDF values: every combination, weak ones included, occurs.
\* SM2 derives keys from a point, SM9 from C1, w and an identity.
MCKeyByte(z, i) ==
  ((IF Len(z) = 3 THEN z[1][1] + z[1][2] ELSE z[1]) + i * z[2]) % 2
MCDigest(z, msg) == (5 * z[1] + 3 * z[2] + z[3] + 11 * msg) % 2^W
MCRawHash(s) == FoldLeft(LAMBDA n, b : 3 * n + 7 * b + 1, 2, s) % 2^HashBits
MCStray(p, q) == p * p + q[1] + 4 * q[2]
\* The third message is hashed to infinity.
MCMsgPoint(m) == <<3, 5, 0>>[m]

MCG == <<3, 9>>
MCAlgId == <<48, 2, 6, 0>>
Numbers == 0..(2^W - 1)
PrivateKeys == {1, 7, N - 2}
Fp == 0..(FieldP - 1)
G1Points == {G1Infinity} \cup
  {p \in Fp \X Fp \X {1, 5} :
     (p[2] * p[2]) % FieldP = (p[1]^3 + G1B * (IF p[3] = 1 THEN 1 ELSE 5^6)) % FieldP}
G2Start == CHOOSE p \in (Fp \X Fp) \X (Fp \X Fp) : G2IsOnCurve(p)
Scaled(p, z) ==
  LET zz == Fp2Square(z)
  IN  <<Fp2Mul(p[1], zz), Fp2Mul(p[2], Fp2Mul(zz, z)), Fp2Mul(p[3], z)>>
G2Points ==
  {G2Infinity} \cup
  {LET t == Times(Law2, k, G2Start)
   IN  IF t = AtInfinity THEN G2Infinity ELSE Scaled(G2FromAffine(t), z) :
     k \in 1..12, z \in {Fp2One, <<3, 7>>}}
Dense == {Element(LAMBDA d : (d * d * k + 3 * d + k) % FieldP) : k \in 1..3}
Elements ==
  {Element(LAMBDA d : IF d \in {i, k} THEN 1 ELSE 0) : i \in 0..11, k \in {0, 7}}
    \cup Dense

Op(op) == [op |-> op]
Lengths == {0, 1, 127, 128, 255, 256}
MCJobs ==
  {Op("sm2_key")}
  \cup {[op |-> "sig_der", raw |-> r] : r \in Numbers \X Numbers}
  \cup {[op |-> "key_der", d |-> d] : d \in PrivateKeys}
  \cup {[op |-> "length", len |-> l] : l \in Lengths \cup {2^16 - 1, 2^16, 2^24 - 1, 2^24, 2^30}}
  \cup {[op |-> "tlv", tag |-> t, body |-> Nul(l)] : t \in {0, 1}, l \in Lengths}
  \cup {[op |-> "tls_sign", d |-> d, id |-> DEFAULT_ID, msg |-> m] : d \in PrivateKeys, m \in {1, 2}}
  \cup {[op |-> "sm2_sign", d |-> d, id |-> 1, msg |-> m] : d \in PrivateKeys, m \in {1, 2}}
  \cup {[op |-> "sm2_encrypt", d |-> d, msg |-> m] :
          d \in {1, 7}, m \in {<<>>, <<1>>, <<1, 0>>}}
  \cup {[op |-> "sm2_kem", d |-> d, len |-> l] : d \in {1, 7}, l \in 0..2}
  \cup {[op |-> "exchange", dA |-> 7, dB |-> 11], [op |-> "kx"]}
  \cup {[op |-> o, id |-> i, msg |-> m] :
          o \in {"sm9_sign", "sm9_encrypt"}, i \in {1, 2}, m \in {<<>>, <<1>>, <<1, 0, 1>>}}
  \cup {[op |-> "bls", signers |-> 2, msgs |-> m] : m \in {<<1, 2>>, <<1, 1>>, <<1, 3>>}}
  \cup {[op |-> "threshold", threshold |-> t, total |-> n, msg |-> 1] :
          t \in 0..2, n \in {2, 4}}
  \cup {[op |-> "g1", p |-> p, q |-> q, k |-> 1] : p \in G1Points, q \in G1Points}
  \cup {[op |-> "g1", p |-> p, q |-> p, k |-> k] : p \in G1Points, k \in {0, 6, 45, 129}}
  \cup {[op |-> "g2", s |-> s, t |-> t, k |-> 1] : s \in G2Points, t \in G2Points}
  \cup {[op |-> "g2", s |-> s, t |-> s, k |-> k] : s \in G2Points, k \in {0, 6, 45, 129}}
  \cup {[op |-> "fp12", a |-> a, b |-> b, l |-> a[2]] : a \in Elements, b \in Dense}
  \cup {[op |-> "map", u |-> u] : u \in Fp \X Fp}

\* The jobs whose documentation asks for more than the code does.
MCKeyJobs == {Op("sm2_key")}
MCTlsJobs ==
  {[op |-> "tls_sign", d |-> 7, id |-> DEFAULT_ID, msg |-> 1], [op |-> "sig_der", raw |-> <<32, 7>>]}
MCSm9Jobs == {[op |-> "sm9_sign", id |-> 1, msg |-> <<1, 0, 1>>]}

MCDraws(j) ==
  CASE j.op \in {"exchange", "kx"} -> {0, 3, 8, 20, N - 2, N - 1}
    [] j.op \in {"sm2_key", "sm2_sign", "sm2_encrypt", "sm2_kem", "tls_sign"} -> Numbers
    [] j.op \in {"sm9_sign", "sm9_encrypt"} -> 0..(2^HashBits - 1)
    [] j.op = "bls" -> {0, 1, 4, 7, Order - 1, Order}
    [] j.op = "threshold" -> {0, 1, 4, 9, Order}
    [] OTHER -> {0}

-----------------------------------------------------------------------------
(* What the other side may get.                                            *)

Encodings == {<<4>> \o Multiple(k) : k \in 1..(N - 1)}
NotPoints == {<<4, 3, 10>>, <<4, 3 + P, 9>>, <<4, 0, 0>>, <<5, 3, 9>>}
Flipped(s) == {[s EXCEPT ![i] = 1 - @] : i \in DOMAIN s}
Resized(s) == {Append(s, 0)} \cup (IF s = <<>> THEN {} ELSE {Front(s)})

KeyOffers == {<<4>> \o p : p \in Numbers \X Numbers} \cup ({2, 3, 4} \X Numbers)

\* Every pair of numbers for one signature, a few for the others.
Sigs(j, sig) ==
  IF j.d = 7 /\ j.msg = 1 /\ sig[1] = 5 THEN Numbers \X Numbers
  ELSE {sig, <<sig[2], sig[1]>>, <<sig[1] + N, sig[2]>>, <<sig[1], N - sig[2]>>}
SignOffers(j, sig) ==
  {[id |-> j.id, msg |-> j.msg, pub |-> PublicKey(j.d), sig |-> s] : s \in Sigs(j, sig)}
    \cup {[id |-> i, msg |-> m, pub |-> p, sig |-> sig] :
            i \in {1, 2}, m \in {1, 2}, p \in {PublicKey(j.d), PublicKey(8)} \cup NotPoints}

\* A string with a byte changed, put in, left out, or something after it.
Edited(s) ==
  LET At(i, t) == SubSeq(s, 1, i - 1) \o t \o From(s, i)
  IN  {s, Append(s, 0)}
        \cup {[s EXCEPT ![i] = b] : i \in DOMAIN s, b \in {0, 1, 2, 4, 8, 48, 129, 130, 131}}
        \cup {[s EXCEPT ![i] = @ + 1] : i \in DOMAIN s}
        \cup {At(i, t) : i \in DOMAIN s, t \in {<<0>>, <<2>>, <<129>>, <<130, 0>>}}
        \cup {RemoveAt(s, i) : i \in DOMAIN s}
\* A zero more in front of each number of a signature, and a number too long.
Padded(der) ==
  LET r == From(der, 3)
      s == From(der, 5 + r[2])
      Longer(t, k) == <<2, t[2] + Len(k)>> \o k \o SubSeq(t, 3, 2 + t[2])
  IN  {<<48, Len(b)>> \o b : b \in {Longer(r, k) \o Longer(s, l) :
                                  k, l \in {<<>>, <<0>>, <<0, 0>>, <<1>>}}}
KeyDerOffers(own) ==
  {[kind |-> k, der |-> s] : k \in {"sec1", "pkcs8"}, s \in Edited(own[1]) \cup Edited(own[2])}

\* Another encryption under the same key, and its parts.
CipherOffers(j, ct) ==
  LET Other(k) == Encrypt(PublicKey(j.d), <<0, 1, 1>>, k)
      other == Other(CHOOSE k \in 1..(N - 1) : Other(k).ok).val
  IN  {<<c, ct[2], ct[3]>> : c \in Encodings \cup NotPoints}
        \cup {<<c1, c3, c2>> : c1 \in {ct[1], other[1]}, c3 \in {ct[2], other[2]},
                c2 \in {ct[3], other[3]} \cup Flipped(ct[3]) \cup Resized(ct[3])}
        \cup {<<ct[1], ct[2]>>}
CapsuleOffers(j, c) ==
  {[ct |-> p, len |-> l] : p \in Encodings \cup NotPoints \cup {<<4, 3>>}, l \in {0, j.len}}

\* What one side sent, mirrored, or another point, or none.
Mirrored(b) == <<b[1], b[2], P - b[3]>>
Sent(b) == {b, Mirrored(b), <<4>> \o Multiple(5), <<4, 3, 10>>}
Views(j) ==
  {[klen |-> l, idA |-> i, idB |-> 2, pubA |-> PublicKey(j.dA), pubB |-> p] :
     l \in {0, 2}, i \in {1, 2}, p \in {PublicKey(j.dB), PublicKey(5)}}
ExchangeOffers(j, own) ==
  {o \in [a : Views(j), b : Views(j), toA : Sent(own[2].point), toB : Sent(own[1].point)] :
     /\ o.a.klen = o.b.klen
     /\ o.a # o.b => o.toA = own[2].point /\ o.toB = own[1].point
     /\ o.a.klen = 0 => o.a = o.b}

Sm9Offers(j, own) ==
  LET sig == own[2]
      all == 0..(2^HashBits - 1)
  IN  {[id |-> j.id, msg |-> j.msg, ppub |-> own[1].pub, sig |-> s] :
         s \in IF j.msg = <<1>> /\ own[1].priv = 4 /\ sig[2] = 6 THEN all \X all ELSE {sig}}
        \cup {[id |-> i, msg |-> m, ppub |-> p, sig |-> sig] :
                i \in {1, 2}, m \in {j.msg, <<0>>, <<1, 0, 0>>}, p \in {own[1].pub, <<3, 0>>, <<3, 1>>, <<0, 2>>, Infinite2, <<Order, 0>>}}
\* A first part outside G2, with the MAC of a guess of its pairing.
StrayCipher(c1, w, id, c2) ==
  LET k == Kdf(<<c1, w, id>>, Len(c2) + MacLen)
  IN  <<c1, Mac(c2, w, id, From(k, Len(c2) + 1)), c2>>
Sm9CipherOffers(j, own) ==
  LET ct    == own[2]
      other == Sm9Encrypt(1, <<0, 1>>, own[1].pub, 5)
      parts == IF other.ok THEN {ct, other.val} ELSE {ct}
  IN  {[id |-> i, ct |-> <<a[1], b[2], c>>] :
         i \in {1, 2}, a \in parts, b \in parts,
         c \in {e[3] : e \in parts} \cup Flipped(ct[3]) \cup Resized(ct[3])}
        \cup {[id |-> j.id, ct |-> [ct EXCEPT ![1] = x]] :
                x \in (0..Order) \X (0..(Cofactor - 1))}
        \cup {[id |-> j.id, ct |-> StrayCipher(x, w, j.id, ct[3])] :
                x \in {<<0, 1>>, <<5, 2>>}, w \in 0..(Order - 1)}
        \cup {[id |-> j.id, ct |-> <<ct[1], ct[2]>>]}

Lists(s, n) == UNION {[1..k -> s] : k \in 0..n}
AggregateOffers(j) ==
  [signed : Lists(1..j.signers, 2),
   claimed : Lists((1..j.signers) \X {j.msgs[i] : i \in 1..j.signers}, 2)]

MCOffers(j, own) ==
  CASE j.op = "sm2_key" -> IF own[1].priv = 7 THEN KeyOffers ELSE {own[1].pub}
    [] j.op = "sm2_sign" -> SignOffers(j, own[1])
    [] j.op = "sm2_encrypt" -> CipherOffers(j, own[1])
    [] j.op = "sm2_kem" -> CapsuleOffers(j, own[1])
    [] j.op = "sig_der" ->
         IF {j.raw[1], j.raw[2]} \subseteq {0, 1, 4, 7, 8, 32, 63}
         THEN Padded(own[1]) \cup (IF j.raw[2] \in {4, 32} THEN Edited(own[1]) ELSE {})
         ELSE {own[1]}
    [] j.op = "key_der" -> KeyDerOffers(own[1])
    [] j.op = "length" ->
         {[bytes |-> s] : s \in {own[1][1], own[1][1] \o <<5>>, Front(own[1][1])}}
    [] j.op = "tlv" ->
         UNION {{[bytes |-> s] : s \in {w, w \o <<5>>, Front(w)}} : w \in {own[1][i] : i \in 1..4}}
    [] j.op = "tls_sign" ->
         {[pub |-> PublicKey(j.d), msg |-> m, sig |-> s] :
            m \in {1, 2}, s \in Padded(own[1]) \cup Edited(SigFromDer(own[1]).val)}
    [] j.op = "exchange" -> ExchangeOffers(j, own)
    [] j.op = "kx" -> [toA : Sent(own[2].pub), toB : Sent(own[1].pub)]
    [] j.op = "sm9_sign" -> Sm9Offers(j, own)
    [] j.op = "sm9_encrypt" -> Sm9CipherOffers(j, own)
    [] j.op = "bls" -> AggregateOffers(j)
    [] j.op = "threshold" -> [who : Lists(1..j.total, 4)]
    [] OTHER -> {}
-----------------------------------------------------------------------------
NoCall    == certificates = <<>> /\ pc = "idle" /\ clock = 0
NoSession == job = None

PublicKeyInit == PkInit /\ Init
PublicKeyNext ==
  \/ NoCall /\ PkNext /\ UNCHANGED vars
  \/ NoSession /\ Next /\ UNCHANGED pkVars
PublicKeySpec == PublicKeyInit /\ [][PublicKeyNext]_<<pkVars, vars>> /\ Fairness
=============================================================================
