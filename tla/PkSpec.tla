------------------------------- MODULE PkSpec -------------------------------
(***************************************************************************)
(* What the public-key calls are to compute, from the textbook: the chord  *)
(* and tangent law in affine coordinates, the equations of the signature   *)
(* schemes over all their nonces, and polynomials modulo w^12 + 2.         *)
(***************************************************************************)
EXTENDS PkCalls, FiniteSets, SequencesExt

-----------------------------------------------------------------------------
(* The curve of SM2.                                                       *)

SpecAdd(p, q) ==
  LET l == IF p = q THEN (3 * p[1] * p[1] + CurveA) * InvMod((2 * p[2]) % P, P)
           ELSE (q[2] - p[2]) * InvMod((q[1] - p[1]) % P, P)
      x == ((l % P) * (l % P) - p[1] - q[1]) % P
  IN  IF p = AtInfinity THEN q
      ELSE IF q = AtInfinity THEN p
      ELSE IF p[1] = q[1] /\ (p[2] + q[2]) % P = 0 THEN AtInfinity
      ELSE <<x, ((l % P) * (p[1] - x) - p[2]) % P>>

\* Multiples[k + 1] is k times the generator.
Multiples == FoldLeft(LAMBDA m, i : Append(m, SpecAdd(m[i], G)),
                      <<AtInfinity>>, [i \in 1..(N - 1) |-> i])
Multiple(k) == Multiples[(k % N) + 1]
CurvePoints == {Multiple(k) : k \in 1..(N - 1)}

\* (r, s) is the signature of e that some nonce makes with the key d.
IsSignature(d, e, r, s) ==
  \E k \in 1..(N - 1) :
    /\ r = (e + Multiple(k)[1]) % N /\ r # 0 /\ (r + k) % N # 0
    /\ s \in 1..(N - 1) /\ (s * (1 + d)) % N = (k - r * d) % N

\* ct is an encryption of m for the key d, with a mask that hides something.
IsCiphertext(d, ct, m) ==
  \E k \in 1..(N - 1) :
    LET sh == Multiple(k * d)
        t  == Kdf(sh, Len(m))
    IN  /\ ct = <<<<4>> \o Multiple(k), Sm3(sh[1], m, sh[2]), Xor(m, t)>>
        /\ m = <<>> \/ ~AllZero(t)
IsCapsule(d, ct, key) ==
  \E k \in 1..(N - 1) :
    ct = <<4>> \o Multiple(k) /\ key = Kdf(Multiple(k * d), Len(key)) /\ ~AllZero(key)

\* The point both sides of the key exchange arrive at.
ExchangePoint(j, made) ==
  LET t(d, e) == d + XBar(e.point[2]) * e.r
  IN  Multiple(t(j.dA, made[1]) * t(j.dB, made[2]))

-----------------------------------------------------------------------------
(* SM9. The nonce may be 0 for the verifier, which the signer never draws. *)

\* (h, s) is a signature over the whole of m, with the master key ks.
IsSm9Signature(ks, id, m, h, s) ==
  \E r \in 0..(Order - 1) :
    /\ h = HashToRange(Append(m, (ks * r) % Order)) /\ s \in 1..(Order - 1)
    /\ (s * (ks + H1(id, 1))) % Order = ((r - h) * ks) % Order
IsSm9Ciphertext(ks, id, ct, m) ==
  \E r \in 0..(Order - 1) :
    LET c1 == P2Times(r * (H1(id, 3) + ks))
        w  == (ks * r) % Order
        k  == Kdf(<<c1, w, id>>, Len(m) + MacLen)
        c2 == Xor(m, k)
    IN  /\ ct = <<c1, Mac(c2, w, id, SubSeq(k, Len(m) + 1, Len(k))), c2>>
        /\ c1 # Infinite2 /\ ~AllZero(k)

\* The curve y^2 = x^3 + b over a field given by its operations.
Law(p, q, add(_, _), mul(_, _), neg(_), inv(_)) ==
  LET Sub(a, b) == add(a, neg(b))
      l == IF p = q
           THEN LET xx == mul(p[1], p[1])
                IN  mul(add(xx, add(xx, xx)), inv(add(p[2], p[2])))
           ELSE mul(Sub(q[2], p[2]), inv(Sub(q[1], p[1])))
      x == Sub(Sub(mul(l, l), p[1]), q[1])
  IN  IF p = AtInfinity THEN q
      ELSE IF q = AtInfinity THEN p
      ELSE IF p[1] = q[1] /\ p[2] = neg(q[2]) THEN AtInfinity
      ELSE <<x, Sub(mul(l, Sub(p[1], x)), p[2])>>
Law1(p, q) ==
  Law(p, q, LAMBDA a, b : (a + b) % FieldP, LAMBDA a, b : (a * b) % FieldP,
      LAMBDA a : (-a) % FieldP, LAMBDA a : FpInv(a)[1])
Law2(p, q) ==
  Law(p, q, Fp2Add, Fp2Mul, Fp2Neg, LAMBDA a : Fp2Inv(a)[1])
\* k = 12 a + b additions, in two rounds.
Times(law(_, _), k, p) ==
  LET Sum(n, q) == FoldLeft(LAMBDA s, i : law(s, q), AtInfinity, [i \in 1..n |-> i])
  IN  law(Sum(k \div 12, Sum(12, p)), Sum(k % 12, p))

\* The point p, as the twist embeds it, lies on a line.
OnLine(l, p) ==
  p = AtInfinity
    \/ Fp2Add(Fp2Mul(l[1], p[2]), Fp2MulU(Fp2Add(l[2], Fp2Mul(l[3], p[1])))) = Fp2Zero
Negated(p) == IF p = AtInfinity THEN p ELSE <<p[1], Fp2Neg(p[2])>>

-----------------------------------------------------------------------------
(* The tower: the coefficient of w^d, 0 <= d < 12, and products of         *)
(* polynomials with w^12 = -2.                                             *)

Element(c(_)) ==
  LET Pair(d) == <<c(d), c(d + 6)>>
  IN  <<<<Pair(0), Pair(2), Pair(4)>>, <<Pair(1), Pair(3), Pair(5)>>>>
Coeff(a, d) == a[(d % 2) + 1][((d \div 2) % 3) + 1][(d \div 6) + 1]
IsProduct(c, a, b) ==
  \A d \in 0..11 :
    Coeff(c, d) = FoldLeft(LAMBDA s, i :
        (s + (IF i <= d THEN Coeff(a, i) * Coeff(b, d - i)
              ELSE -(2 * Coeff(a, i) * Coeff(b, d + 12 - i)))) % FieldP,
      0, [i \in 1..12 |-> i - 1])
\* The Frobenius map sends w to a power of it that is a constant times w.
PowerOfW == FpPow((-2) % FieldP, (FieldP - 1) \div 12)
SpecFrobenius(a, times) ==
  Element(LAMBDA d : (Coeff(a, d) * FpPow(PowerOfW, (d * times) % 12)) % FieldP)
\* The line <<a, b, c>> stands for a + b w^3 + c w^5.
LineElement(l) == <<<<l[1], Fp2Zero, Fp2Zero>>, <<Fp2Zero, l[2], l[3]>>>>

-----------------------------------------------------------------------------
(* DER.                                                                    *)

\* How a length may be written: in one byte, or in the forms there are.
LengthForms(n, long) ==
  IF ~long THEN {<<n>>}
  ELSE {f \in {<<n>>, <<129, n>>, <<130, n \div 256, n % 256>>,
              <<131, n \div 65536, (n \div 256) % 256, n % 256>>} :
          CASE Len(f) = 1 -> n < 128
            [] Len(f) = 2 -> n < 256
            [] Len(f) = 3 -> n < 65536
            [] OTHER      -> n < 2^24}
\* A string read as tag, length and value: the value, and what follows it.
Readings(s, tag, long) ==
  {<<SubSeq(s, c[1], c[2]), SubSeq(s, c[2] + 1, Len(s))>> :
     c \in {c \in (3..6) \X (0..Len(s)) :
            /\ c[1] - 1 <= c[2]
            /\ SubSeq(s, 1, c[1] - 1)
                 \in {<<tag>> \o f : f \in LengthForms(c[2] - c[1] + 1, long)}}}
Inside(readings, tag, long) == UNION {Readings(r[1], tag, long) : r \in readings}
After(readings, tag, long) == UNION {Readings(r[2], tag, long) : r \in readings}

\* Bytes that are the INTEGER v and cannot be fewer.
IsMinimalInteger(c, v) ==
  /\ c # <<>> /\ c[1] < Radix \div 2 /\ Number(c) = v
  /\ Len(c) > 1 /\ c[1] = 0 => c[2] >= Radix \div 2
IsSigDer(s, r, t) ==
  \E a \in Inside({q \in Readings(s, 48, FALSE) : q[2] = <<>>}, 2, FALSE) :
    /\ IsMinimalInteger(a[1], r)
    /\ \E b \in Readings(a[2], 2, FALSE) : b[2] = <<>> /\ IsMinimalInteger(b[1], t)

\* The Size bytes that c is with zeros put in front or left out.
Values(c) ==
  {x \in {From(Nul(Size) \o c, Len(c) + 1)} :
     Len(c) \in 1..(Size + 1) /\ Nul(Size) \o c = Nul(Len(c)) \o x}
\* The contents of the two INTEGERs of a signature.
SigIntegers(s) ==
  UNION {{<<a[1], b[1]>> : b \in {b \in Readings(a[2], 2, FALSE) : b[2] = <<>>}} :
           a \in Inside(Readings(s, 48, FALSE), 2, FALSE)}
IsPositive(c) == c # <<>> /\ c[1] < Radix \div 2 /\ Number(c) # 0
BothPositive(s) == \A c \in SigIntegers(s) : IsPositive(c[1]) /\ IsPositive(c[2])
\* What a string may mean as a signature, and as a key of either form.
SigMeanings(s) ==
  UNION {{x \o y : x \in Values(c[1]), y \in Values(c[2])} : c \in SigIntegers(s)}
OfVersion(s, v) == {a \in Inside(Readings(s, 48, TRUE), 2, TRUE) : a[1] = <<v>>}
Sec1Meanings(s) ==
  {Number(k[1]) : k \in {k \in After(OfVersion(s, 1), 4, TRUE) : Len(k[1]) = Size}}
    \cap 1..(N - 2)
KeyMeanings(kind, s) ==
  IF kind = "sec1" THEN Sec1Meanings(s)
  ELSE UNION {Sec1Meanings(k[1]) : k \in After(After(OfVersion(s, 0), 48, TRUE), 4, TRUE)}
IsMeaning(answer, meanings) ==
  IF meanings = {} THEN ~answer.ok ELSE answer.ok /\ meanings = {answer.val}
=============================================================================
