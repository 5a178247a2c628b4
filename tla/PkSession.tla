----------------------------- MODULE PkSession -----------------------------
(***************************************************************************)
(* A caller of the public-key schemes and the one it talks to. A step of a *)
(* job draws random numbers until one is of use; what the job made is then *)
(* offered, as it is or changed on the way, to the other side.             *)
(***************************************************************************)
EXTENDS PkSpec

CONSTANTS AttemptOf(_, _, _),  \* AttemptCall
          ReceiveOf(_, _, _),  \* ReceiveCall
          OffersOf(_, _),      \* what the other side of a job may get
          Draws(_),            \* the random numbers a job may draw
          Jobs

VARIABLES job, made, failed, offered, answer
pkVars == <<job, made, failed, offered, answer>>

None == [none |-> TRUE]

PkInit ==
  /\ job = None /\ made = <<>> /\ failed = None
  /\ offered = None /\ answer = None

Start ==
  /\ job = None
  /\ job' \in Jobs
  /\ UNCHANGED <<made, failed, offered, answer>>

Running == job # None /\ failed = None /\ Len(made) < Steps(job)
Done == job # None /\ failed = None /\ Len(made) = Steps(job)

\* A number that is of no use changes nothing: the loop draws another.
Draw ==
  /\ Running
  /\ \E x \in Draws(job) :
       LET a == AttemptOf(job, made, x)
       IN  /\ a # Retry
           /\ IF a.ok THEN made' = Append(made, a.val) /\ UNCHANGED failed
              ELSE failed' = a /\ UNCHANGED made
  /\ UNCHANGED <<job, offered, answer>>

Receive ==
  /\ Done /\ offered = None
  /\ \E o \in OffersOf(job, made) :
       offered' = o /\ answer' = ReceiveOf(job, made, o)
  /\ UNCHANGED <<job, made, failed>>

PkNext == Start \/ Draw \/ Receive
SessionSpec == PkInit /\ [][PkNext]_pkVars

-----------------------------------------------------------------------------
Received(op) == offered # None /\ job.op = op
MadeBy(op) == job # None /\ job.op = op /\ Done

\* The points a string of the form of a public key may stand for.
PointsMeant(bytes) ==
  {p \in CurvePoints :
     IF Len(bytes) = 3 THEN bytes = <<4>> \o p
     ELSE bytes = <<2 + (p[2] % 2), p[1]>>}

\* A generated key is the multiple of the generator and comes back from both
\* its encodings. Every encoding of a point is taken as that point. A
\* compressed one of no point, its coordinate below p, makes no PublicKey;
\* any other string of the right form makes one, and is refused where it is
\* used as a point: KeysAreChecked asks for more (PublicKey::from_bytes,
\* from_compressed, AffinePoint::from_bytes, decompress).
PointsExact ==
  /\ MadeBy("sm2_key") =>
       LET pub == made[1].pub
       IN  /\ pub = <<4>> \o Multiple(made[1].priv)
           /\ PrivateKeyFromBytes(made[1].priv).ok
           /\ FromCompressed(ToCompressed(pub)) = Ok(pub)
  /\ Received("sm2_key") =>
       LET means == PointsMeant(offered)
       IN  IF means = {}
           THEN /\ ~answer.point.ok
                /\ Len(offered) = 2 => ~answer.short.ok
                /\ Len(offered) = 2 /\ offered[2] < P => ~answer.key.ok
           ELSE /\ answer.key.ok /\ means = {answer.point.val}
                /\ Len(offered) = 2 => answer.short = answer.point

\* Not what the code does: bad coordinates are refused when the PublicKey is
\* made (sm2/mod.rs:366, "InvalidPublicKey: wrong format or coordinates").
\* Uncompressed bytes are copied unseen (sm2/mod.rs:369-372).
KeysAreChecked ==
  Received("sm2_key") /\ answer.key.ok => PointsMeant(offered) # {}

\* Whatever key, identity, message and pair of numbers it is given, SM2
\* verification accepts exactly the signatures that some nonce makes; and
\* signing makes one of them (sign_with_k, verify).
VerifyExact ==
  LET Fits(id, pub, msg, sig) ==
        LET d == CHOOSE k \in 1..(N - 1) : <<4>> \o Multiple(k) = pub
        IN  /\ SubSeq(pub, 2, 3) \in CurvePoints
            /\ pub[1] = 4
            /\ IsSignature(d, GetE(GetZ(id, pub), msg), sig[1], sig[2])
  IN  /\ MadeBy("sm2_sign") =>
           Fits(job.id, <<4>> \o Multiple(job.d), job.msg, made[1])
      /\ Received("sm2_sign") =>
           (answer.ok <=> Fits(offered.id, offered.pub, offered.msg, offered.sig))

\* SM2 decryption returns a message for exactly the encryptions of it, and
\* the KEM a key for exactly its capsules: nothing with a part altered or
\* taken from another ciphertext is opened (encrypt, decrypt, kem_encrypt,
\* kem_decrypt).
DecryptExact ==
  /\ MadeBy("sm2_encrypt") => IsCiphertext(job.d, made[1], job.msg)
  /\ Received("sm2_encrypt") =>
       /\ answer.ok => IsCiphertext(job.d, offered, answer.val)
       /\ offered = made[1] => answer = Ok(job.msg)
  /\ MadeBy("sm2_kem") => IsCapsule(job.d, made[1].ct, made[1].key)
  /\ Received("sm2_kem") =>
       /\ answer.ok => Len(answer.val) = offered.len /\ IsCapsule(job.d, offered.ct, answer.val)
       /\ offered = [ct |-> made[1].ct, len |-> job.len] => answer = Ok(made[1].key)

\* Two sides whose confirmations match have the same key, the one of the
\* exchange, and each has got what the other sent and sees the identities
\* and static keys the other sees; without interference they both get there
\* or neither does. ECDHE sides that got each other's share agree
\* (exchange_a, exchange_b, kx.rs).
ExchangeAgrees ==
  /\ Received("exchange") =>
       LET a == answer.a
           b == answer.b
           honest == /\ offered.a = offered.b
                     /\ offered.toA = made[2].point /\ offered.toB = made[1].point
                     /\ offered.a.pubA = PublicKey(job.dA)
                     /\ offered.a.pubB = PublicKey(job.dB)
       IN  /\ a.ok /\ b.ok /\ (a.val.peer = b.val.self \/ b.val.peer = a.val.self) =>
                /\ a.val.peer = b.val.self /\ b.val.peer = a.val.self
                /\ a.val.key = b.val.key
                /\ offered.toA = made[2].point /\ offered.toB = made[1].point
                /\ \A f \in {"idA", "idB", "pubA", "pubB"} : offered.a[f] = offered.b[f]
           /\ honest =>
                /\ a.ok <=> b.ok
                /\ a.ok => /\ a.val.peer = b.val.self
                           /\ a.val.peer[2] = ExchangePoint(job, made)[2]
  /\ Received("kx") =>
       /\ offered.toA = made[2].pub /\ offered.toB = made[1].pub =>
            /\ answer.a = Ok(Multiple(made[1].priv * made[2].priv)[1])
            /\ answer.b = answer.a
       /\ SubSeq(offered.toA, 2, 3) \notin CurvePoints => ~answer.a.ok

\* A signature's DER is the one strict encoding of its numbers. Of all
\* strings whose integers are positive exactly those are read that mean two
\* numbers, or of all strings a valid private key, and as what they mean,
\* zeros in front and long forms of lengths included; so is every length
\* below 2^24, and a value of any of them is cut off where it ends
\* (sm2/der.rs). What the provider signs verifies once it is read back, and
\* what the provider's own verifier accepts is a signature in some form
\* (rustls_provider/sign.rs). Of integers that are zero or negative, and of
\* the form the verifier wants, DerAsDocumented speaks.
DerExact ==
  /\ MadeBy("sig_der") => IsSigDer(made[1], job.raw[1], job.raw[2])
  /\ Received("sig_der") =>
       /\ BothPositive(offered) => IsMeaning(answer, SigMeanings(offered))
       /\ offered = made[1] => answer = Ok(Digits(job.raw[1]) \o Digits(job.raw[2]))
  /\ Received("key_der") =>
       /\ IsMeaning(answer, KeyMeanings(offered.kind, offered.der))
       /\ offered.der \in {made[1][1], made[1][2]} /\ answer.ok => answer.val = job.d
  /\ Received("length") =>
       /\ IsPrefix(made[1][1], offered.bytes) =>
            answer = IF job.len < 2^24 THEN Ok(<<job.len, Len(made[1][1])>>) ELSE Err("none")
       /\ ~IsPrefix(made[1][1], offered.bytes) => ~answer.ok
       /\ job.len < 2^16 => made[1][1] = made[1][2]
  /\ Received("tlv") =>
       LET whole == {w \in {made[1][i] : i \in 1..4} : IsPrefix(w, offered.bytes)}
       IN  IF whole = {} THEN ~answer.value.ok /\ ~answer.full.ok
           ELSE /\ answer.value.val[1] = job.body
                /\ answer.full.val = <<CHOOSE w \in whole : TRUE, answer.value.val[2]>>
  /\ Received("tls_sign") =>
       LET Signs(raw) == IsSignature(job.d, GetE(GetZ(DEFAULT_ID, offered.pub), offered.msg),
                                     Number(SubSeq(raw, 1, Size)), Number(From(raw, Size + 1)))
       IN  /\ BothPositive(offered.sig) =>
                (answer.raw.ok <=> \E m \in SigMeanings(offered.sig) : Signs(m))
           /\ answer.own.ok =>
                \E m \in {offered.sig} \cup SigMeanings(offered.sig) :
                  Len(m) = 2 * Size /\ Signs(m)

\* Not what the code does: signatures are DER in TLS, so the provider's
\* verifier takes what its signer hands out (sm2/der.rs:4,
\* rustls_provider/sign.rs:131), and both integers of one that is read are
\* positive (sm2/der.rs:96). verify_signature() wants 64 raw bytes, and
\* sig_from_der() counts the bytes of an integer only.
DerAsDocumented ==
  /\ Received("tls_sign") /\ offered.sig = made[1] /\ offered.msg = job.msg => answer.own.ok
  /\ Received("sig_der") /\ answer.ok => BothPositive(offered)

-----------------------------------------------------------------------------
\* SM9 verification accepts exactly the signatures of the user's key over the
\* message, with the verifier's zero nonce, and signing makes them: of
\* messages H2 takes whole, and under a master key of G2. Of longer ones
\* WholeMessageSigned speaks, of a key outside G2, which the parser takes,
\* nothing is said (sm9_sign, sm9_verify, sm9_user_sign_keygen).
Sm9VerifyExact ==
  /\ MadeBy("sm9_sign") /\ Hashed(job.msg) = job.msg =>
       IsSm9Signature(made[1].priv, job.id, job.msg, made[2][1], made[2][2])
  /\ Received("sm9_sign") /\ Hashed(offered.msg) = offered.msg /\ InG2(offered.ppub) =>
       LET ks == offered.ppub[1]
       IN  answer.ok <=> /\ IsPoint2(offered.ppub) /\ (H1(offered.id, 1) + ks) % Order # 0
                         /\ IsSm9Signature(ks, offered.id, offered.msg,
                                           offered.sig[1], offered.sig[2])

\* Not what the code does: what is signed is the hash of the whole message,
\* H2(M || w) (sm9/mod.rs:284, sm9/mod.rs:365, sm9/utils.rs:27), so that a
\* signature verifies for another message only if that hash is the same for
\* some w. sm9_h2() takes 512 bytes of a message (sm9/utils.rs:32), and the
\* signature verifies for every other that begins with them.
WholeMessageSigned ==
  Received("sm9_sign") /\ answer.ok
      /\ offered = [id |-> job.id, msg |-> offered.msg, ppub |-> made[1].pub, sig |-> made[2]] =>
    \E w \in 0..(Order - 1) :
      HashToRange(Append(offered.msg, w)) = HashToRange(Append(job.msg, w))

\* What SM9 decryption opens, with the key of an identity, is exactly what
\* was encrypted for it, whenever C1 is in G2; and what was encrypted for it
\* is opened. The parser takes a C1 on the twist outside G2 as well
\* (groups/g2.rs:306, although sm9/mod.rs:500 speaks of G2): nobody
\* encrypts to such a point, and of what it opens nothing is said
\* (sm9_encrypt, sm9_decrypt, sm9_user_enc_keygen).
Sm9DecryptExact ==
  Received("sm9_encrypt") =>
    /\ answer.ok /\ InG2(offered.ct[1]) =>
         IsSm9Ciphertext(made[1].priv, offered.id, offered.ct, answer.val)
    /\ offered = [id |-> job.id, ct |-> made[2]] => answer = Ok(job.msg) /\ InG2(made[2][1])

\* An aggregate verifies for the keys and messages whose signatures it sums,
\* both ways where the message is one, unless their sum is the point at
\* infinity; and for one message the two verifications agree
\* (bls_aggregate, bls_aggregate_verify, bls_fast_aggregate_verify).
AggregatesVerify ==
  Received("bls") /\ answer.agg.ok =>
    LET pairs == [i \in DOMAIN offered.signed |->
                    <<offered.signed[i], job.msgs[offered.signed[i]]>>]
        one   == \A i, k \in DOMAIN offered.claimed :
                   offered.claimed[i][2] = offered.claimed[k][2]
    IN  /\ offered.claimed = pairs => answer.each.ok
        /\ one => (answer.each.ok <=> answer.fast.ok)

\* Shares of more than threshold different participants, whichever they are,
\* sign for the whole key, and threshold of them never do. Fewer, or with one
\* of them named twice, which the code takes without complaint, sign by luck
\* only: one of the secrets of the dealer has at most one value for which
\* they do (bls_threshold_keygen, lagrange_coefficient,
\* bls_combine_signatures).
QuorumSigns ==
  Received("threshold") /\ answer # Err("ZeroScalar") =>
    LET who      == {offered.who[i] : i \in DOMAIN offered.who}
        distinct == Cardinality(who) = Len(offered.who)
        t        == job.threshold
        With(i, x) == [made EXCEPT ![i] = IF i = 1 THEN BlsKeygen(x).val ELSE x]
        Lucky(i) == {x \in 1..(Order - 1) : ReceiveOf(job, With(i, x), offered).ok}
    IN  /\ t = 0 \/ job.total <= t => ~answer.ok
        /\ t # 0 /\ job.total > t =>
             /\ distinct /\ Cardinality(who) > t => answer.ok
             /\ distinct /\ Cardinality(who) = t => ~answer.ok
             /\ answer.ok /\ ~(distinct /\ Cardinality(who) > t) =>
                  \E i \in DOMAIN made : Cardinality(Lucky(i)) <= 1

-----------------------------------------------------------------------------
\* Sums and multiples of points of G1 and G2 in whatever Jacobian form are
\* those of the group law, and the lines of the Miller loop are the tangent
\* and the chord: they meet the curve where it says (groups/g1.rs, g2.rs).
GroupLaw ==
  /\ MadeBy("g1") =>
       LET p == G1ToAffine(job.p)
       IN  /\ made[1].sum = Law1(p, G1ToAffine(job.q))
           /\ made[1].mul = Times(Law1, job.k, p)
           /\ made[1].bytes = IF job.p[3] = 1 THEN Some(p) ELSE made[1].bytes
  /\ MadeBy("g2") =>
       LET p == G2ToAffine(job.s)
           q == G2ToAffine(job.t)
       IN  /\ made[1].sum = Law2(p, q)
           /\ made[1].mul = Times(Law2, job.k, p)
           /\ p # AtInfinity =>
                /\ G2ToAffine(made[1].tangent[1]) = Law2(p, p)
                /\ OnLine(made[1].tangent[2], p)
                /\ OnLine(made[1].tangent[2], Negated(Law2(p, p)))
           /\ p # AtInfinity /\ q # AtInfinity /\ p # q =>
                /\ OnLine(made[1].chord[2], p) /\ OnLine(made[1].chord[2], q)
                /\ OnLine(made[1].chord[2], Negated(Law2(p, q)))

\* Products, inverses, powers and Frobenius maps of the tower are those of
\* polynomials modulo w^12 + 2; and what the easy part of the final
\* exponentiation returns is in the cyclotomic subgroup, where the conjugate
\* is the inverse (fields/fp2.rs, fp12.rs, pairing.rs).
TowerExact ==
  MadeBy("fp12") =>
    /\ IsProduct(made[1].prod, job.a, job.b)
    /\ IsProduct(made[1].line, job.a, LineElement(job.l))
    /\ IsProduct(Fp12One, made[1].inv[1], job.a)
    /\ made[1].frob = <<SpecFrobenius(job.a, 1), SpecFrobenius(job.a, 2)>>
    /\ made[1].pow = SpecFrobenius(job.a, 1)
    /\ IsProduct(Fp12One, made[1].easy, made[1].conj)
    /\ IsProduct(SpecFrobenius(made[1].easy, 2), SpecFrobenius(made[1].easy, 4), made[1].easy)

\* Every field element is mapped to a point of G1's curve, and two of them
\* to their sum (map_to_curve_svdw never finds three abscissas without a
\* point, hash_to_g1).
MapsOntoCurve ==
  MadeBy("map") =>
    /\ \A i \in 1..2 : made[1].points[i] # Nothing /\ G1IsOnCurve(made[1].points[i])
    /\ made[1].sum = Law1(made[1].points[1], made[1].points[2])

\* No loop runs for ever: whatever the key and the message, one of the
\* numbers a loop may draw ends it (encrypt does not ask the mask of an empty
\* message for a bit that is not zero: sm2/mod.rs:877).
LoopsEnd ==
  Running => \E x \in Draws(job) : AttemptOf(job, made, x) # Retry
=============================================================================
