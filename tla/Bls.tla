--------------------------------- MODULE Bls ---------------------------------
(***************************************************************************)
(* BLS signatures, their aggregates (bls/mod.rs) and threshold signing     *)
(* (bls/threshold.rs) over the groups of Sm9.                              *)
(***************************************************************************)
EXTENDS Sm9, SequencesExt

CONSTANT MsgPoint(_)   \* hash_to_g1 of a message, 0 if it is infinity

SumOf(s) ==
  LET f[i \in 0..Len(s)] == IF i = 0 THEN 0 ELSE (f[i - 1] + s[i]) % Order
  IN  f[Len(s)]

BlsKeygen(s) == IF ValidDraw(s) THEN Ok([priv |-> s, pub |-> P2Times(s)]) ELSE Retry
BlsSign(sk, m) ==
  LET sigma == (sk * MsgPoint(m)) % Order
  IN  IF sk = 0 \/ sigma = 0 THEN Err("ZeroScalar") ELSE Ok(sigma)
BlsVerify(pk, m, sig) ==
  IF MsgPoint(m) = 0 THEN Err("InvalidSignature")
  ELSE IF Pairing(sig, P2Times(1)) = Pairing(MsgPoint(m), pk) THEN Ok("verified")
  ELSE Err("VerifyFailed")

Aggregate(sigs) ==
  IF sigs = <<>> \/ SumOf(sigs) = 0 THEN Err("InvalidInput") ELSE Ok(SumOf(sigs))
AggregateVerifyFirst(pks, msgs, agg) ==
  IF pks = <<>> \/ Len(pks) # Len(msgs) THEN Err("InvalidInput")
  ELSE IF MsgPoint(msgs[1]) = 0 THEN Err("InvalidInput")
  ELSE IF Pairing(agg, P2Times(1)) = SumOf([i \in DOMAIN pks |-> Pairing(MsgPoint(msgs[1]), pks[i])])
       THEN Ok("verified")
  ELSE Err("VerifyFailed")
AggregateVerify(pks, msgs, agg) ==
  IF pks = <<>> \/ Len(pks) # Len(msgs) THEN Err("InvalidInput")
  ELSE IF \E i \in DOMAIN msgs : MsgPoint(msgs[i]) = 0 THEN Err("InvalidInput")
  ELSE IF Pairing(agg, P2Times(1)) = SumOf([i \in DOMAIN pks |-> Pairing(MsgPoint(msgs[i]), pks[i])])
       THEN Ok("verified")
  ELSE Err("VerifyFailed")
FastAggregateVerify(pks, m, agg) ==
  LET sum == FoldLeft(Add2, Infinite2, pks)
  IN  IF pks = <<>> \/ sum = Infinite2 THEN Err("InvalidInput")
      ELSE BlsVerify(sum, m, agg)

-----------------------------------------------------------------------------
(* Threshold signing: any threshold + 1 of the shares make the signature.  *)

\* The coefficients of the polynomial are the key and numbers drawn like it.
Coefficient(r) == IF ValidDraw(r) THEN Ok(r) ELSE Retry
ThresholdKeygen(sk, threshold, total, draws) ==
  LET coeffs == <<sk>> \o draws
      Horner(i) ==
        LET f[j \in 0..threshold] ==
              IF j = 0 THEN coeffs[threshold + 1]
              ELSE (f[j - 1] * i + coeffs[threshold + 1 - j]) % Order
        IN  f[threshold]
  IN  IF total < threshold + 1 \/ threshold = 0 THEN Err("InvalidInput")
      ELSE Ok([i \in 1..total |-> [index |-> i, scalar |-> Horner(i)]])

LagrangeCoefficientUnsigned(i, participants) ==
  LET f[k \in 0..Len(participants)] ==
        IF k = 0 THEN <<1, 1>>
        ELSE LET j == participants[k]
             IN  IF j = i THEN f[k - 1]
                 ELSE <<(f[k - 1][1] * j) % Order,
                        (f[k - 1][2] * (IF j > i THEN j - i ELSE i - j)) % Order>>
      q == f[Len(participants)]
  IN  (q[1] * InvMod(q[2], Order)) % Order
\* The product of j / (j - i) over the participants other than i; one that
\* is named twice counts twice.
LagrangeCoefficient(i, participants) ==
  LET f[k \in 0..Len(participants)] ==
        IF k = 0 THEN <<1, 1>>
        ELSE LET j == participants[k]
             IN  IF j = i THEN f[k - 1]
                 ELSE <<(f[k - 1][1] * j) % Order, (f[k - 1][2] * (j - i)) % Order>>
      q == f[Len(participants)]
  IN  (q[1] * InvMod(q[2], Order)) % Order

PartialSign(share, m) == BlsSign(share.scalar, m)
\* partials: pairs of an index and a signature.
Combine(partials) ==
  LET who == [k \in DOMAIN partials |-> partials[k][1]]
      sum == SumOf([k \in DOMAIN partials |->
               (LagrangeCoefficient(partials[k][1], who) * partials[k][2]) % Order])
  IN  IF partials = <<>> THEN Err("InvalidInput")
      ELSE IF sum = 0 THEN Err("PointAtInfinity")
      ELSE Ok(sum)
=============================================================================
