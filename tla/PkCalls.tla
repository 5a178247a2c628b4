------------------------------ MODULE PkCalls ------------------------------
(***************************************************************************)
(* The public-key calls by the name of the operation. A job is a chain of  *)
(* steps: AttemptCall is what step Len(made) + 1 makes of one random       *)
(* number, made what the steps before it returned. ReceiveCall is what the *)
(* other side makes of the offer it gets.                                  *)
(***************************************************************************)
EXTENDS Der, Bls, Sm9Groups

\* The number of steps of a job.
Steps(j) ==
  CASE j.op \in {"exchange", "kx", "sm9_sign", "sm9_encrypt"} -> 2
    [] j.op = "bls" -> j.signers
    [] j.op = "threshold" -> j.threshold + 1
    [] OTHER -> 1

AttemptCall(j, made, x) ==
  LET UserKey(hid) == GenerateUserKey(made[1].priv, j.id, hid)
  IN  CASE j.op = "sm2_key"     -> GenerateKeypair(x)
        [] j.op = "sm2_sign"    -> SignMessage(j.msg, j.id, j.d, x)
        [] j.op = "sm2_encrypt" -> Encrypt(PublicKey(j.d), j.msg, x)
        [] j.op = "sm2_kem"     -> KemEncrypt(PublicKey(j.d), j.len, x)
        [] j.op = "sig_der"     -> Ok(SigToDer(Digits(j.raw[1]) \o Digits(j.raw[2])))
        [] j.op = "key_der"     -> Ok(<<PrivateKeyToSec1Der(j.d), PrivateKeyToPkcs8Der(j.d)>>)
        [] j.op = "length"      -> Ok(<<EncodeLength(j.len), WrapLength(j.len)>>)
        [] j.op = "tlv" ->
             Ok(<<WrapSequence(j.body), WrapSet(j.body),
                  WrapExplicitTag(j.tag, j.body), WrapImplicitTag(j.tag, j.body)>>)
        [] j.op = "tls_sign"    -> TlsSign(j.msg, j.d, x)
        [] j.op = "exchange"    -> GenerateEphemeral(x)
        [] j.op = "kx"          -> KxStart(x)
        [] j.op \in {"sm9_sign", "sm9_encrypt"} /\ made = <<>> -> GenerateMaster(x)
        [] j.op = "sm9_sign" /\ made # <<>> ->
             IF UserKey(1).ok THEN Sm9Sign(j.msg, UserKey(1).val, made[1].pub, x)
             ELSE UserKey(1)
        [] j.op = "sm9_encrypt" /\ made # <<>> ->
             Sm9Encrypt(j.id, j.msg, made[1].pub, x)
        [] j.op = "bls"         -> BlsKeygen(x)
        [] j.op = "threshold"   -> IF made = <<>> THEN BlsKeygen(x) ELSE Coefficient(x)
        [] j.op = "g1" ->
             Ok([sum |-> G1ToAffine(G1Add(j.p, j.q)), mul |-> G1ToAffine(G1ScalarMul(j.k, j.p)),
                 bytes |-> G1FromBytes(G1ToBytes(SubSeq(j.p, 1, 2)))])
        [] j.op = "g2" ->
             Ok([sum |-> G2ToAffine(G2Add(j.s, j.t)), mul |-> G2ToAffine(G2ScalarMul(j.k, j.s)),
                 bytes |-> G2FromBytes(G2ToBytes(SubSeq(j.s, 1, 2))),
                 tangent |-> DoubleWithLine(j.s),
                 chord |-> IF G2IsInfinity(j.t) THEN DoubleWithLine(j.s)
                           ELSE AddWithLine(j.s, G2ToAffine(j.t))])
        [] j.op = "fp12" ->
             Ok([prod |-> Fp12Mul(j.a, j.b), inv |-> Fp12Inv(j.a),
                 frob |-> <<Fp12Frobenius(j.a), Fp12Frobenius2(j.a)>>,
                 line |-> Fp12MulByLine(j.a, j.l),
                 easy |-> FinalExpEasy(j.a), conj |-> Fp12Conjugate(FinalExpEasy(j.a)),
                 pow |-> Fp12Pow(j.a, FieldP, 4)])
        [] j.op = "map" ->
             LET m == <<MapToCurve(j.u[1]), MapToCurve(j.u[2])>>
             IN  Ok([points |-> m, sum |-> IF Nothing \in {m[1], m[2]} THEN Nothing
                                           ELSE G1ToAffine(HashToG1(j.u[1], j.u[2]))])

\* The signatures of signers by name, over the messages they were given.
Signatures(j, made, who) ==
  [i \in DOMAIN who |-> BlsSign(made[who[i]].priv, j.msgs[who[i]])]

ReceiveCall(j, made, o) ==
  LET coeffs == [i \in 1..(Len(made) - 1) |-> made[i + 1]]
  IN  CASE j.op = "sm2_key" ->
             LET key == PublicKeyFromBytes(o)
             IN  [key |-> key, point |-> IF key.ok THEN FromBytes(key.val) ELSE key,
                  short |-> IF Len(o) = 2 THEN Decompress(o) ELSE key]
        [] j.op = "sm2_sign" -> VerifyMessage(o.msg, o.id, o.pub, o.sig)
        [] j.op = "sm2_encrypt" -> Decrypt(j.d, o)
        [] j.op = "sm2_kem" -> KemDecrypt(j.d, o.ct, o.len)
        [] j.op = "sig_der" -> SigFromDer(o)
        [] j.op = "key_der" -> LoadPrivateKey(o.kind, o.der)
        [] j.op = "length" -> ParseLength(o.bytes)
        [] j.op = "tlv" -> 
             [value |-> ParseTlv(o.bytes, o.bytes[1]), full |-> ParseTlvAnyFull(o.bytes)]
        [] j.op = "tls_sign" ->
             LET raw == SigFromDer(o.sig)
             IN  [raw |-> IF raw.ok THEN VerifyRaw(o.pub, o.msg, raw.val) ELSE raw,
                  own |-> VerifySignature(o.pub, o.msg, o.sig)]
        [] j.op = "exchange" ->
             [a |-> ExchangeA(o.a, j.dA, made[1], o.toA),
              b |-> ExchangeB(o.b, j.dB, made[2], o.toB)]
        [] j.op = "kx" ->
             [a |-> KxComplete(made[1].priv, o.toA), b |-> KxComplete(made[2].priv, o.toB)]
        [] j.op = "sm9_sign" -> Sm9Verify(o.msg, o.sig, o.id, o.ppub)
        [] j.op = "sm9_encrypt" ->
             LET de == GenerateUserKey(made[1].priv, o.id, 3)
             IN  IF de.ok THEN Sm9Decrypt(o.id, o.ct, de.val) ELSE de
        [] j.op = "bls" ->
             LET sigs == Signatures(j, made, o.signed)
                 agg  == Aggregate([i \in DOMAIN sigs |-> sigs[i].val])
                 pks  == [i \in DOMAIN o.claimed |-> made[o.claimed[i][1]].pub]
                 msgs == [i \in DOMAIN o.claimed |-> o.claimed[i][2]]
             IN  IF \E i \in DOMAIN sigs : ~sigs[i].ok THEN [agg |-> Err("ZeroScalar")]
                 ELSE IF ~agg.ok THEN [agg |-> agg]
                 ELSE [agg |-> agg,
                       each |-> AggregateVerify(pks, msgs, agg.val),
                       fast |-> IF o.claimed = <<>> THEN Err("InvalidInput")
                                ELSE FastAggregateVerify(pks, msgs[1], agg.val)]
        [] j.op = "threshold" ->
             LET shares == ThresholdKeygen(made[1].priv, j.threshold, j.total, coeffs)
                 parts  == [i \in DOMAIN o.who |-> PartialSign(shares.val[o.who[i]], j.msg)]
                 whole  == Combine([i \in DOMAIN o.who |-> <<o.who[i], parts[i].val>>])
             IN  IF ~shares.ok THEN shares
                 ELSE IF \E i \in DOMAIN o.who : ~parts[i].ok THEN Err("ZeroScalar")
                 ELSE IF ~whole.ok THEN whole
                 ELSE BlsVerify(made[1].pub, j.msg, whole.val)
=============================================================================
