--------------------------------- MODULE Sm9 ---------------------------------
(***************************************************************************)
(* The protocols of SM9 (sm9/mod.rs, sm9/utils.rs). An element of G1 or GT *)
(* is the exponent of its generator; G1's curve has no other points. The   *)
(* twist has more points than G2: one of them is <<q, c>>, the multiple q  *)
(* of P2 plus a point outside G2, whose order divides the cofactor, and    *)
(* in G2 when c is 0. There the pairing of a and q is a q, elsewhere some  *)
(* element of GT. What is not of these forms is an encoding the parsers    *)
(* reject.                                                                 *)
(***************************************************************************)
EXTENDS PkBase

CONSTANTS Order,       \* GROUP_ORDER of sm9/fields/fp.rs
          Cofactor,    \* the points of the twist are Order * Cofactor
          Stray(_, _), \* the pairing with a point outside G2
          HashBits,    \* bits of a hash value and of a random number: 256
          CutAt,       \* bytes of a message that H2 takes: 512
          MacLen,      \* bytes of the MAC key: 32
          RawHash(_)   \* the first HashBits bits of the hash of a string
ASSUME OrderAssumption ==
  /\ Order \in Nat /\ Cofactor \in Nat \ {0} /\ HashBits \in Nat /\ CutAt \in Nat /\ MacLen \in Nat \ {0}
  /\ Order < 2^HashBits /\ 2^HashBits < 2 * Order

\* The parsers of points take neither infinity nor what is off the curve.
IsPoint(p) == p \in 1..(Order - 1)
Infinite2 == <<0, 0>>
IsPoint2(p) == p \in ((0..(Order - 1)) \X (0..(Cofactor - 1))) \ {Infinite2}
InG2(p) == p[2] = 0
P2Times(k) == <<k % Order, 0>>
Add2(p, q) == <<(p[1] + q[1]) % Order, (p[2] + q[2]) % Cofactor>>
Mul2(k, p) == <<(k * p[1]) % Order, (k * p[2]) % Cofactor>>
Pairing(p, q) == IF InG2(q) THEN (p * q[1]) % Order ELSE Stray(p, q) % Order

\* One subtraction brings a hash value into 1..n-1.
HashToRange(s) ==
  LET raw == RawHash(s)
  IN  1 + (IF raw < Order - 1 THEN raw ELSE (raw - (Order - 1)) % 2^HashBits)
H1(id, hid) == HashToRange(<<hid, id>>)
\* Without a number of its own in front, and of a part of the message.
Hashed(m) == SubSeq(m, 1, IF Len(m) < CutAt THEN Len(m) ELSE CutAt)
H2(m, w) == HashToRange(Append(Hashed(m), w))

\* hid is 1 for signing and 3 for encryption; Ppub is the multiple of P2 in
\* both.
GenerateMaster(ks) ==
  IF ks # 0 /\ ks < Order - 1 THEN Ok([priv |-> ks, pub |-> P2Times(ks)]) ELSE Retry
GenerateUserKeyHid1(ks, id, hid) ==
  LET t1 == (ks + H1(id, 1)) % Order
      t2 == (ks * InvMod(t1, Order)) % Order
  IN  IF t1 = 0 \/ t2 = 0 THEN Err("ZeroScalar") ELSE Ok(t2)
GenerateUserKey(ks, id, hid) ==
  LET t1 == (ks + H1(id, hid)) % Order
      t2 == (ks * InvMod(t1, Order)) % Order
  IN  IF t1 = 0 \/ t2 = 0 THEN Err("ZeroScalar") ELSE Ok(t2)

ValidDraw(r) == r # 0 /\ r < Order
Sm9SignOnce(m, da, ppub, r) ==
  LET h == H2(m, Pairing(1, ppub) * r % Order)
  IN  IF ValidDraw(r) THEN Ok(<<h, (((r - h) % Order) * da) % Order>>) ELSE Retry
Sm9Sign(m, da, ppub, r) ==
  LET w == Pairing(1, ppub) * r % Order
      h == H2(m, w)
      l == (r - h) % Order
  IN  IF ~IsPoint(da) \/ ~IsPoint2(ppub) THEN Err("InvalidPublicKey")
      ELSE IF ~ValidDraw(r) \/ h = 0 \/ l = 0 THEN Retry
      ELSE Ok(<<h, (l * da) % Order>>)

Sm9Verify(m, sig, id, ppub) ==
  LET h == sig[1]
      s == sig[2]
      t == Pairing(1, ppub) * h % Order
      p == Add2(ppub, P2Times(H1(id, 1)))
      w == (Pairing(s, p) + t) % Order
  IN  IF h = 0 \/ h >= Order \/ ~IsPoint(s) THEN Err("InvalidSignature")
      ELSE IF ~IsPoint2(ppub) THEN Err("InvalidPublicKey")
      ELSE IF p = Infinite2 THEN Err("PointAtInfinity")
      ELSE IF H2(m, w) = h THEN Ok("verified") ELSE Err("Sm9VerifyFailed")

\* C1, C3 and C2: the KDF's output is the mask and the key of the MAC.
Mac(c2, w, id, k2) == <<"mac", c2, w, id, k2>>
Sm9Encrypt(id, m, ppub, r) ==
  LET qb == Add2(P2Times(H1(id, 3)), ppub)
      c1 == Mul2(r, qb)
      w  == Pairing(1, ppub) * r % Order
      k  == Kdf(<<c1, w, id>>, Len(m) + MacLen)
      c2 == Xor(m, k)
  IN  IF ~IsPoint2(ppub) THEN Err("InvalidPublicKey")
      ELSE IF ~ValidDraw(r) THEN Retry
      ELSE IF Infinite2 \in {qb, c1} THEN Err("PointAtInfinity")
      ELSE IF AllZero(k) THEN Retry
      ELSE Ok(<<c1, Mac(c2, w, id, SubSeq(k, Len(m) + 1, Len(k))), c2>>)

Sm9Decrypt(id, ct, de) ==
  LET c2 == ct[3]
      w  == Pairing(de, ct[1])
      k  == Kdf(<<ct[1], w, id>>, Len(c2) + MacLen)
  IN  IF Len(ct) < 3 THEN Err("InvalidInputLength")
      ELSE IF ~IsPoint2(ct[1]) \/ ~IsPoint(de) THEN Err("InvalidPublicKey")
      ELSE IF AllZero(k) THEN Err("Sm9DecryptFailed")
      ELSE IF ct[2] # Mac(c2, w, id, SubSeq(k, Len(c2) + 1, Len(k)))
           THEN Err("Sm9DecryptFailed")
      ELSE Ok(Xor(c2, k))
=============================================================================
