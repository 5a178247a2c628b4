--------------------------------- MODULE Ec ---------------------------------
(***************************************************************************)
(* The curve of SM2 (sm2/ec.rs, sm2/field.rs) over a small prime: points   *)
(* in Jacobian coordinates <<x, y, z>>, affine points <<x, y>>, and their  *)
(* encodings, tuples of a leading byte and W-bit coordinates.              *)
(***************************************************************************)
EXTENDS PkBase

CONSTANTS P,        \* FIELD_MODULUS
          N,        \* GROUP_ORDER
          CurveB,   \* CURVE_B
          G,        \* the generator <<GX, GY>>
          W,        \* bits of a scalar and of a coordinate: 256 in the code
          Win       \* bits of a window of scalar_mul_g_window: 4 in the code
ASSUME CurveAssumption ==
  /\ P \in Nat /\ N \in Nat /\ W \in Nat \ {0} /\ Win \in Nat \ {0}
  /\ P % 4 = 3 /\ N < P /\ P < 2^W /\ 2^W < 2 * N
  /\ W % Win = 0
CurveA == P - 3

Scalars == 0..(2^W - 1)
Bit(k, i) == (k \div 2^i) % 2

Power(a, e, m) ==
  LET pow[i \in 0..e] == IF i = 0 THEN 1 ELSE (pow[i - 1] * a) % m
  IN  pow[e]

-----------------------------------------------------------------------------
(* Jacobian arithmetic.                                                    *)

Infinity == <<1, 1, 0>>
IsInfinity(p) == p[3] = 0
FromAffine(p) == <<p[1], p[2], 1>>
ToAffine(p) ==
  LET i == InvMod(p[3], P)
  IN  IF IsInfinity(p) THEN Err("PointAtInfinity")
      ELSE Ok(<<(p[1] * i * i) % P, (((p[2] * i) % P) * i * i) % P>>)

Double(p) ==
  LET delta == (p[3] * p[3]) % P
      gamma == (p[2] * p[2]) % P
      beta  == (p[1] * gamma) % P
      alpha == (3 * (p[1] - delta) * (p[1] + delta)) % P
      x     == (alpha * alpha - 8 * beta) % P
  IN  IF IsInfinity(p) THEN p
      ELSE <<x, (alpha * (4 * beta - x) - 8 * gamma * gamma) % P,
             ((p[2] + p[3]) * (p[2] + p[3]) - gamma - delta) % P>>

\* p + q of coordinates brought to the same denominator: u1, s1 of p and
\* u2, s2 of q, with zz the product of the two z.
Chord(p, u1, s1, u2, s2, zz) ==
  LET h    == (u2 - u1) % P
      r    == (s2 - s1) % P
      h2   == (h * h) % P
      u1h2 == (u1 * h2) % P
      h3   == (h * h2) % P
      x    == (r * r - h3 - 2 * u1h2) % P
  IN  IF h = 0 THEN IF r = 0 THEN Double(p) ELSE Infinity
      ELSE <<x, (r * (u1h2 - x) - s1 * h3) % P, (h * zz) % P>>

Add(p, q) ==
  LET z1sq == (p[3] * p[3]) % P
      z2sq == (q[3] * q[3]) % P
  IN  IF IsInfinity(p) THEN q
      ELSE IF IsInfinity(q) THEN p
      ELSE Chord(p, (p[1] * z2sq) % P, (((p[2] * q[3]) % P) * z2sq) % P,
                    (q[1] * z1sq) % P, (((q[2] * p[3]) % P) * z1sq) % P,
                    (p[3] * q[3]) % P)

\* q is affine: its z is 1.
AddMixed(p, q) ==
  LET z1sq == (p[3] * p[3]) % P
  IN  IF IsInfinity(p) THEN FromAffine(q)
      ELSE Chord(p, p[1], p[2], (q[1] * z1sq) % P,
                 (((q[2] * p[3]) % P) * z1sq) % P, p[3])

\* Double and add, from the highest bit down.
ScalarMul(k, p) ==
  LET acc[i \in 0..W] ==
        IF i = 0 THEN Infinity
        ELSE LET d == Double(acc[i - 1])
             IN  IF Bit(k, W - i) = 1 THEN Add(d, p) ELSE d
  IN  acc[W]

\* The multiples of G in the windows' table.
GTable[i \in 0..(2^Win - 1)] ==
  CASE i = 0 -> Infinity
    [] i = 1 -> FromAffine(G)
    [] OTHER -> AddMixed(GTable[i - 1], G)
ScalarMulG(k) ==
  LET Digit(i) == (k \div 2^(W - i * Win)) % 2^Win
      shift(p) == LET d[j \in 0..Win] == IF j = 0 THEN p ELSE Double(d[j - 1])
                  IN  d[Win]
      acc[i \in 0..(W \div Win)] ==
        IF i = 0 THEN Infinity ELSE Add(shift(acc[i - 1]), GTable[Digit(i)])
  IN  acc[W \div Win]

\* u G + v q, both scalars at once.
MultiScalarMul(u, v, q) ==
  LET both == Add(FromAffine(G), FromAffine(q))
      acc[i \in 0..W] ==
        IF i = 0 THEN Infinity
        ELSE LET d == Double(acc[i - 1])
                 b == <<Bit(u, W - i), Bit(v, W - i)>>
             IN  CASE b = <<1, 0>> -> AddMixed(d, G)
                   [] b = <<0, 1>> -> AddMixed(d, q)
                   [] b = <<1, 1>> -> Add(d, both)
                   [] b = <<0, 0>> -> d
  IN  ToAffine(acc[W])

-----------------------------------------------------------------------------
(* Points as bytes.                                                        *)

Rhs(x) == (x * x * x + CurveA * x + CurveB) % P
IsOnCurve(p) == (p[2] * p[2]) % P = Rhs(p[1])

FromBytes(b) ==
  IF b[1] = 4 /\ b[2] < P /\ b[3] < P /\ IsOnCurve(<<b[2], b[3]>>)
  THEN Ok(<<b[2], b[3]>>)
  ELSE Err("InvalidPublicKey")
ToBytes(p) == <<4, p[1], p[2]>>

\* The square root that is a power, when it is one.
FpSqrt(a) == Power(a, (P + 1) \div 4, P)
RootForUnchecked(prefix, y2) ==
  LET y == FpSqrt(y2) IN Ok(IF y % 2 = prefix % 2 THEN y ELSE (P - y) % P)
\* The root of y2 whose parity the prefix 2 or 3 asks for.
RootFor(prefix, y2) ==
  LET y == FpSqrt(y2)
  IN  IF (y * y) % P # y2 THEN Err("InvalidPublicKey")
      ELSE Ok(IF y % 2 = prefix % 2 THEN y ELSE (P - y) % P)
Decompress(b) ==
  IF b[1] \notin {2, 3} \/ b[2] >= P THEN Err("InvalidPublicKey")
  ELSE LET y == RootFor(b[1], Rhs(b[2]))
       IN  IF y.ok THEN Ok(<<b[2], y.val>>) ELSE y
=============================================================================
