--------------------------------- MODULE Sm2 ---------------------------------
(***************************************************************************)
(* SM2 signatures, encryption and key encapsulation (sm2/mod.rs). A loop   *)
(* that draws random numbers is modelled by what one draw makes of it:     *)
(* Retry, or the result. Hash values are numbers where the code computes   *)
(* with them and records of what was hashed elsewhere.                     *)
(***************************************************************************)
EXTENDS Ec

CONSTANT Digest(_, _)   \* SM3 of z and a message, as a number

\* 1..n-2 for a private key, 1..n-1 for a random number.
ValidPrivateKey(d) == d # 0 /\ d < N - 1
ValidNonce(k) == k # 0 /\ k < N

PrivateKeyFromBytes(d) ==
  IF ValidPrivateKey(d) THEN Ok(d) ELSE Err("InvalidPrivateKey")

\* A compressed key: the coordinate is kept as it was given.
FromCompressed(b) ==
  LET y == RootFor(b[1], Rhs(b[2] % P))
  IN  IF b[1] \notin {2, 3} THEN Err("InvalidPublicKey")
      ELSE IF y.ok THEN Ok(<<4, b[2], y.val>>) ELSE y
\* An uncompressed key is copied, whether it is a point or not.
PublicKeyFromBytes(b) ==
  CASE Len(b) = 3 /\ b[1] = 4       -> Ok(b)
    [] Len(b) = 2 /\ b[1] \in {2, 3} -> FromCompressed(b)
    [] OTHER                         -> Err("InvalidPublicKey")
ToCompressed(pub) == <<2 + (pub[3] % 2), pub[2]>>
PublicKey(d) == PublicKeyFromBytes(ToBytes(ToAffine(ScalarMulG(d)).val)).val

GenerateKeypair(d) ==
  IF ValidPrivateKey(d) THEN Ok([priv |-> d, pub |-> PublicKey(d)]) ELSE Retry

-----------------------------------------------------------------------------
GetZUnnamed(id, pub) == <<0, pub[2], pub[3]>>
GetZ(id, pub) == <<id, pub[2], pub[3]>>
GetE(z, msg) == Digest(z, msg)

SignWithK(e, d, k) ==
  LET kg  == ToAffine(ScalarMulG(k))
      r   == (e + kg.val[1]) % N
      inv == InvMod(1 + d, N)
      s   == (inv * ((k - r * d) % N)) % N
  IN  IF ~kg.ok THEN Err("InvalidSignature")
      ELSE IF r = 0 \/ (r + k) % N = 0 THEN Err("InvalidSignature")
      ELSE IF inv = 0 THEN Err("InvalidPrivateKey")
      ELSE IF s = 0 THEN Err("InvalidSignature")
      ELSE Ok(<<r, s>>)
SignHash(e, d, k) ==
  LET sig == SignWithK(e, d, k)
  IN  IF ValidNonce(k) /\ sig.ok THEN sig ELSE Retry
SignMessage(msg, id, d, k) == SignHash(GetE(GetZ(id, PublicKey(d)), msg), d, k)

VerifyAnySum(e, pub, sig) ==
  LET r == sig[1]
      s == sig[2]
      q == FromBytes(pub)
      p == MultiScalarMul(s, (r + s) % N, q.val)
  IN  IF r = 0 \/ r >= N \/ s = 0 \/ s >= N THEN Err("InvalidSignature")
      ELSE IF ~q.ok THEN q
      ELSE IF ~p.ok THEN p
      ELSE IF (e + p.val[1]) % N = r THEN Ok("verified") ELSE Err("VerifyFailed")
Verify(e, pub, sig) ==
  LET r == sig[1]
      s == sig[2]
      t == (r + s) % N
      q == FromBytes(pub)
      p == MultiScalarMul(s, t, q.val)
  IN  IF r = 0 \/ r >= N \/ s = 0 \/ s >= N THEN Err("InvalidSignature")
      ELSE IF t = 0 THEN Err("VerifyFailed")
      ELSE IF ~q.ok THEN q
      ELSE IF ~p.ok THEN p
      ELSE IF (e + p.val[1]) % N = r THEN Ok("verified") ELSE Err("VerifyFailed")
VerifyMessage(msg, id, pub, sig) == Verify(GetE(GetZ(id, pub), msg), pub, sig)

-----------------------------------------------------------------------------
Sm3(x, msg, y) == <<"sm3", x, msg, y>>

\* The point a nonce shares with the holder of a key.
Shared(k, point) == ToAffine(ScalarMul(k, FromAffine(point)))

\* A mask that hides something; no bit is asked of an empty one.
UsableMaskAsked(t) == ~AllZero(t)
UsableMaskAny(t) == TRUE
UsableMask(t) == t = <<>> \/ ~AllZero(t)

\* C1, C3 and C2.
Encrypt(pub, msg, k) ==
  LET pa == FromBytes(pub)
      c1 == ToAffine(ScalarMulG(k))
      sh == Shared(k, pa.val)
      t  == Kdf(sh.val, Len(msg))
  IN  IF ~pa.ok THEN pa
      ELSE IF ~ValidNonce(k) THEN Retry
      ELSE IF ~c1.ok \/ ~sh.ok THEN Retry
      ELSE IF ~UsableMask(t) THEN Retry
      ELSE Ok(<<ToBytes(c1.val), Sm3(sh.val[1], msg, sh.val[2]), Xor(msg, t)>>)

Decrypt(d, ct) ==
  LET c1 == FromBytes(ct[1])
      sh == Shared(d, c1.val)
      t  == Kdf(sh.val, Len(ct[3]))
      m  == Xor(ct[3], t)
  IN  IF Len(ct) < 3 THEN Err("InvalidInputLength")
      ELSE IF ~c1.ok THEN c1
      ELSE IF ~sh.ok THEN sh
      ELSE IF ~UsableMask(t) THEN Err("DecryptFailed")
      ELSE IF ct[2] # Sm3(sh.val[1], m, sh.val[2]) THEN Err("DecryptFailed")
      ELSE Ok(m)

KemEncrypt(pub, len, k) ==
  LET pa  == FromBytes(pub)
      c1  == ToAffine(ScalarMulG(k))
      sh  == Shared(k, pa.val)
      key == Kdf(sh.val, len)
  IN  IF len = 0 THEN Err("InvalidInputLength")
      ELSE IF ~pa.ok THEN pa
      ELSE IF ~ValidNonce(k) \/ ~c1.ok \/ ~sh.ok THEN Retry
      ELSE IF AllZero(key) THEN Retry
      ELSE Ok([ct |-> ToBytes(c1.val), key |-> key])

KemDecrypt(d, ct, len) ==
  LET c1  == FromBytes(ct)
      sh  == Shared(d, c1.val)
      key == Kdf(sh.val, len)
  IN  IF len = 0 \/ Len(ct) # 3 THEN Err("InvalidInputLength")
      ELSE IF ~c1.ok THEN c1
      ELSE IF ~sh.ok THEN sh
      ELSE IF AllZero(key) THEN Err("DecryptFailed")
      ELSE Ok(key)
=============================================================================
