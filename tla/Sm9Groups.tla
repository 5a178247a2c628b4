------------------------------ MODULE Sm9Groups ------------------------------
(***************************************************************************)
(* The groups of SM9 (sm9/groups): G1 on y^2 = x^3 + 5 over the prime      *)
(* field, G2 on its twist y^2 = x^3 + 5u over Fp2, both in Jacobian        *)
(* coordinates, the line functions of the Miller loop, and the map of      *)
(* bls/hash_to_curve.rs into G1.                                           *)
(***************************************************************************)
EXTENDS Sm9Fields

CONSTANT ScalarBits   \* bits of a scalar and of a coordinate: 256

\* Results that may be the point at infinity.
AtInfinity == <<>>

G1B == 5
G1Infinity == <<1, 1, 0>>
G1FromAffine(p) == <<p[1], p[2], 1>>
G1IsInfinity(p) == p[3] = 0
G1ToAffine(p) ==
  LET i == FpInv(p[3])[1]
  IN  IF G1IsInfinity(p) THEN AtInfinity
      ELSE <<(p[1] * i * i) % FieldP, (p[2] * i * i * i) % FieldP>>

G1Double(p) ==
  LET a == (p[1] * p[1]) % FieldP
      b == (p[2] * p[2]) % FieldP
      d == (2 * ((p[1] + b) * (p[1] + b) - a - b * b)) % FieldP
      e == (3 * a) % FieldP
      x == (e * e - 2 * d) % FieldP
  IN  IF G1IsInfinity(p) THEN p
      ELSE <<x, (e * (d - x) - 8 * b * b) % FieldP, (2 * p[2] * p[3]) % FieldP>>

G1Add(p, q) ==
  LET z1sq == (p[3] * p[3]) % FieldP
      z2sq == (q[3] * q[3]) % FieldP
      u1   == (p[1] * z2sq) % FieldP
      s1   == (p[2] * q[3] * z2sq) % FieldP
      h    == (q[1] * z1sq - u1) % FieldP
      r    == (q[2] * p[3] * z1sq - s1) % FieldP
      h2   == (h * h) % FieldP
      x    == (r * r - h * h2 - 2 * u1 * h2) % FieldP
  IN  IF G1IsInfinity(p) THEN q
      ELSE IF G1IsInfinity(q) THEN p
      ELSE IF h = 0 THEN IF r = 0 THEN G1Double(p) ELSE G1Infinity
      ELSE <<x, (r * (u1 * h2 - x) - s1 * h * h2) % FieldP,
             (h * p[3] * q[3]) % FieldP>>

G1ScalarMulShort(k, p) ==
  LET acc[i \in 0..ScalarBits] ==
        IF i = 0 THEN G1Infinity
        ELSE LET d == G1Double(acc[i - 1])
             IN  IF (k \div 2^(ScalarBits - i)) % 2 = 1 THEN G1Add(d, p) ELSE d
  IN  acc[ScalarBits - 1]
G1ScalarMul(k, p) ==
  LET acc[i \in 0..ScalarBits] ==
        IF i = 0 THEN G1Infinity
        ELSE LET d == G1Double(acc[i - 1])
             IN  IF (k \div 2^(ScalarBits - i)) % 2 = 1 THEN G1Add(d, p) ELSE d
  IN  acc[ScalarBits]

G1IsOnCurve(p) == (p[2] * p[2]) % FieldP = (p[1] * p[1] * p[1] + G1B) % FieldP
\* A leading byte and two coordinates.
G1FromBytes(b) ==
  IF b[1] = 4 /\ b[2] < FieldP /\ b[3] < FieldP /\ G1IsOnCurve(<<b[2], b[3]>>)
  THEN Some(<<b[2], b[3]>>) ELSE Nothing
G1ToBytes(p) == <<4, p[1], p[2]>>

-----------------------------------------------------------------------------
(* G2. A line is the record of its coefficients <<a, b, c>>, of the        *)
(* ordinate, the constant and the abscissa of the point it is taken at.    *)

G2B == <<0, 5>>
G2Infinity == <<Fp2One, Fp2One, Fp2Zero>>
G2FromAffine(p) == <<p[1], p[2], Fp2One>>
G2IsInfinity(p) == p[3] = Fp2Zero
G2ToAffine(p) ==
  LET i  == Fp2Inv(p[3])[1]
      i2 == Fp2Square(i)
  IN  IF G2IsInfinity(p) THEN AtInfinity
      ELSE <<Fp2Mul(p[1], i2), Fp2Mul(p[2], Fp2Mul(i2, i))>>

Twice(a) == Fp2Add(a, a)
DoubleWithLine(p) ==
  LET a    == Fp2Square(p[1])
      b    == Fp2Square(p[2])
      c    == Fp2Square(b)
      d    == Twice(Fp2Sub(Fp2Sub(Fp2Square(Fp2Add(p[1], b)), a), c))
      e    == Fp2Add(Twice(a), a)
      x    == Fp2Sub(Fp2Square(e), Twice(d))
      z    == Twice(Fp2Mul(p[2], p[3]))
      z1sq == Fp2Square(p[3])
  IN  <<<<x, Fp2Sub(Fp2Mul(e, Fp2Sub(d, x)), Twice(Twice(Twice(c)))), z>>,
        <<Fp2MulU(Fp2Mul(z, z1sq)), Fp2Sub(Fp2Mul(p[1], e), Twice(b)),
          Fp2Neg(Fp2Mul(e, z1sq))>>>>

AddWithLine(p, q) ==
  LET z1sq == Fp2Square(p[3])
      h    == Fp2Sub(Fp2Mul(q[1], z1sq), p[1])
      r    == Fp2Sub(Fp2Mul(q[2], Fp2Mul(p[3], z1sq)), p[2])
      h2   == Fp2Square(h)
      h3   == Fp2Mul(h, h2)
      x1h2 == Fp2Mul(p[1], h2)
      x    == Fp2Sub(Fp2Sub(Fp2Square(r), h3), Twice(x1h2))
      z    == Fp2Mul(h, p[3])
  IN  <<<<x, Fp2Sub(Fp2Mul(r, Fp2Sub(x1h2, x)), Fp2Mul(p[2], h3)), z>>,
        <<Fp2MulU(z),
          Fp2Sub(Fp2Mul(Fp2Mul(p[1], p[3]), q[2]), Fp2Mul(q[1], p[2])),
          Fp2Neg(r)>>>>

G2Double(p) == DoubleWithLine(p)[1]
G2Add(p, q) ==
  LET z1sq == Fp2Square(p[3])
      z2sq == Fp2Square(q[3])
      u1   == Fp2Mul(p[1], z2sq)
      s1   == Fp2Mul(p[2], Fp2Mul(q[3], z2sq))
      h    == Fp2Sub(Fp2Mul(q[1], z1sq), u1)
      r    == Fp2Sub(Fp2Mul(q[2], Fp2Mul(p[3], z1sq)), s1)
      h2   == Fp2Square(h)
      h3   == Fp2Mul(h, h2)
      u1h2 == Fp2Mul(u1, h2)
      x    == Fp2Sub(Fp2Sub(Fp2Square(r), h3), Twice(u1h2))
  IN  IF G2IsInfinity(p) THEN q
      ELSE IF G2IsInfinity(q) THEN p
      ELSE IF h = Fp2Zero THEN IF r = Fp2Zero THEN G2Double(p) ELSE G2Infinity
      ELSE <<x, Fp2Sub(Fp2Mul(r, Fp2Sub(u1h2, x)), Fp2Mul(s1, h3)),
             Fp2Mul(Fp2Mul(h, p[3]), q[3])>>

\* Nothing is doubled before the first bit that is set.
G2ScalarMul(k, p) ==
  LET acc[i \in 0..ScalarBits] ==
        LET rest == k \div 2^(ScalarBits - i)
        IN  IF rest = 0 THEN G2Infinity
            ELSE IF rest = 1 THEN p
            ELSE LET d == G2Double(acc[i - 1])
                 IN  IF rest % 2 = 1 THEN G2Add(d, p) ELSE d
  IN  acc[ScalarBits]

G2IsOnCurve(p) == Fp2Square(p[2]) = Fp2Add(Fp2Mul(Fp2Square(p[1]), p[1]), G2B)
\* The four coordinates.
G2FromBytes(b) ==
  IF (\A i \in 1..4 : b[i] < FieldP) /\ G2IsOnCurve(<<<<b[1], b[2]>>, <<b[3], b[4]>>>>)
  THEN Some(<<<<b[1], b[2]>>, <<b[3], b[4]>>>>) ELSE Nothing
G2ToBytes(p) == p[1] \o p[2]

-----------------------------------------------------------------------------
(* Hashing to G1.                                                          *)

\* The first abscissa that a point of the curve has: the third when the first
\* two are none.
CurveRhs(x) == (x * x * x + G1B) % FieldP
PickOfTwo(x1, x2, x3) == IF FpIsSquare(CurveRhs(x1)) THEN x1 ELSE x2
Pick(x1, x2, x3) ==
  IF FpIsSquare(CurveRhs(x1)) THEN x1
  ELSE IF FpIsSquare(CurveRhs(x2)) THEN x2 ELSE x3

\* The map of Shallue and van de Woestijne with Z = -1. The code panics where
\* this is Nothing.
MapToCurve(u) ==
  LET Half(a) == (a * FpInv(2)[1]) % FieldP
      Inv0(a) == IF a = 0 THEN 0 ELSE FpInv(a)[1]
      c1  == 4
      c3  == FpSqrt5((-12) % FieldP)[1]
      c4  == ((-16) * FpInv(3)[1]) % FieldP
      tv1 == (1 - u * u * c1) % FieldP
      tv2 == (1 + u * u * c1) % FieldP
      tv3 == Inv0((tv1 * tv2) % FieldP)
      tv4 == (((u * tv1) % FieldP) * ((tv3 * c3) % FieldP)) % FieldP
      k   == (tv2 * tv2 * tv3) % FieldP
      x1  == (Half(1) - tv4) % FieldP
      x2  == (Half(1) + tv4) % FieldP
      x3  == (c4 * ((k * k) % FieldP) - 1) % FieldP
      x   == Pick(x1, x2, x3)
      y   == FpSqrt5(CurveRhs(x))
  IN  IF y = Nothing THEN Nothing
      ELSE <<x, IF y[1] % 2 = u % 2 THEN y[1] ELSE (-y[1]) % FieldP>>

\* The sum of the images of two field elements.
HashToG1(u0, u1) ==
  G1Add(G1FromAffine(MapToCurve(u0)), G1FromAffine(MapToCurve(u1)))
=============================================================================
