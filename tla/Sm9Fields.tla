------------------------------ MODULE Sm9Fields ------------------------------
(***************************************************************************)
(* The fields of SM9 (sm9/fields) over a small prime: pairs over u with    *)
(* u^2 = -2 (Fp2), triples of pairs over v with v^3 = u (Fp6) and pairs of *)
(* triples over w with w^2 = v (Fp12).                                     *)
(***************************************************************************)
EXTENDS Integers, Sequences

CONSTANT FieldP    \* FIELD_MODULUS of sm9/fields/fp.rs
ASSUME FieldAssumption == FieldP \in Nat /\ FieldP % 12 = 1 /\ FieldP % 8 = 5

Some(v) == <<v>>
Nothing == <<>>

FpPow(a, e) ==
  LET pow[i \in 0..e] == IF i = 0 THEN 1 ELSE (pow[i - 1] * a) % FieldP
  IN  pow[e]
FpInv(a) ==
  IF a = 0 THEN Nothing
  ELSE Some(CHOOSE b \in 1..(FieldP - 1) : (a * b) % FieldP = 1)
FpIsSquare(a) == a = 0 \/ FpPow(a, (FieldP - 1) \div 2) = 1

\* Tonelli and Shanks for FieldP - 1 = 4 (odd), with the non-square 5. One
\* round is enough: t is then 1 or -1.
FpSqrt5(a) ==
  LET q == (FieldP - 1) \div 4
      t == FpPow(a, q)
      c == FpPow(5, q)
      r == FpPow(a, (q + 1) \div 2)
      s == IF t = 1 THEN r ELSE (r * c) % FieldP
  IN  IF a = 0 THEN Some(0)
      ELSE IF FpPow(a, (FieldP - 1) \div 2) # 1 THEN Nothing
      ELSE IF t # 1 /\ (t * t) % FieldP # 1 THEN Nothing
      ELSE IF (s * s) % FieldP = a THEN Some(s) ELSE Nothing

-----------------------------------------------------------------------------
(* Fp2.                                                                    *)

Fp2Zero == <<0, 0>>
Fp2One == <<1, 0>>
Fp2Add(a, b) == <<(a[1] + b[1]) % FieldP, (a[2] + b[2]) % FieldP>>
Fp2Sub(a, b) == <<(a[1] - b[1]) % FieldP, (a[2] - b[2]) % FieldP>>
Fp2Neg(a) == <<(-a[1]) % FieldP, (-a[2]) % FieldP>>
Fp2Mul(a, b) ==
  <<(a[1] * b[1] - 2 * a[2] * b[2]) % FieldP,
    (a[1] * b[2] + a[2] * b[1]) % FieldP>>
Fp2Square(a) ==
  <<(a[1] * a[1] - 2 * a[2] * a[2]) % FieldP, (2 * a[1] * a[2]) % FieldP>>
Fp2Inv(a) ==
  LET i == FpInv((a[1] * a[1] + 2 * a[2] * a[2]) % FieldP)
  IN  IF i = Nothing THEN Nothing
      ELSE Some(<<(a[1] * i[1]) % FieldP, (-(a[2] * i[1])) % FieldP>>)
Fp2MulFp(a, b) == <<(a[1] * b) % FieldP, (a[2] * b) % FieldP>>
Fp2MulU(a) == <<(-(2 * a[2])) % FieldP, a[1]>>
Fp2Frobenius(a) == <<a[1], (-a[2]) % FieldP>>

-----------------------------------------------------------------------------
(* Fp6.                                                                    *)

Fp6Zero == <<Fp2Zero, Fp2Zero, Fp2Zero>>
Fp6One == <<Fp2One, Fp2Zero, Fp2Zero>>
Fp6Add(a, b) == <<Fp2Add(a[1], b[1]), Fp2Add(a[2], b[2]), Fp2Add(a[3], b[3])>>
Fp6Sub(a, b) == <<Fp2Sub(a[1], b[1]), Fp2Sub(a[2], b[2]), Fp2Sub(a[3], b[3])>>
Fp6Neg(a) == <<Fp2Neg(a[1]), Fp2Neg(a[2]), Fp2Neg(a[3])>>

\* Karatsuba: the cross terms i, j come from (a_i + a_j)(b_i + b_j).
Fp6Mul(a, b) ==
  LET t == <<Fp2Mul(a[1], b[1]), Fp2Mul(a[2], b[2]), Fp2Mul(a[3], b[3])>>
      Cross(i, j) ==
        Fp2Sub(Fp2Sub(Fp2Mul(Fp2Add(a[i], a[j]), Fp2Add(b[i], b[j])), t[i]), t[j])
  IN  <<Fp2Add(t[1], Fp2MulU(Cross(2, 3))),
        Fp2Add(Cross(1, 2), Fp2MulU(t[3])),
        Fp2Add(Cross(1, 3), t[2])>>
Fp6MulV(a) == <<Fp2MulU(a[3]), a[1], a[2]>>
Fp6MulFp2(a, b) == <<Fp2Mul(a[1], b), Fp2Mul(a[2], b), Fp2Mul(a[3], b)>>

\* The adjugate over the norm.
Fp6Inv(a) ==
  LET ca == Fp2Sub(Fp2Mul(a[1], a[1]), Fp2MulU(Fp2Mul(a[2], a[3])))
      cb == Fp2Sub(Fp2MulU(Fp2Mul(a[3], a[3])), Fp2Mul(a[1], a[2]))
      cc == Fp2Sub(Fp2Mul(a[2], a[2]), Fp2Mul(a[1], a[3]))
      norm == Fp2Add(Fp2Mul(a[1], ca),
                     Fp2MulU(Fp2Add(Fp2Mul(a[2], cc), Fp2Mul(a[3], cb))))
      i == Fp2Inv(norm)
  IN  IF i = Nothing THEN Nothing ELSE Some(Fp6MulFp2(<<ca, cb, cc>>, i[1]))

\* v^(p-1), v^(2(p-1)) and w^(p-1): powers of -2 in the prime field.
FrobV1 == <<FpPow(FieldP - 2, (FieldP - 1) \div 6), 0>>
FrobV2 == <<FpPow(FieldP - 2, (FieldP - 1) \div 3), 0>>
FrobW1 == <<FpPow(FieldP - 2, (FieldP - 1) \div 12), 0>>
Fp6Frobenius(a) ==
  <<Fp2Frobenius(a[1]), Fp2Mul(Fp2Frobenius(a[2]), FrobV1),
    Fp2Mul(Fp2Frobenius(a[3]), FrobV2)>>

-----------------------------------------------------------------------------
(* Fp12.                                                                   *)

Fp12One == <<Fp6One, Fp6Zero>>
Fp12Mul(a, b) ==
  LET t0 == Fp6Mul(a[1], b[1])
      t1 == Fp6Mul(a[2], b[2])
  IN  <<Fp6Add(t0, Fp6MulV(t1)),
        Fp6Sub(Fp6Sub(Fp6Mul(Fp6Add(a[1], a[2]), Fp6Add(b[1], b[2])), t0), t1)>>
Fp12Square(a) == Fp12Mul(a, a)
Fp12Inv(a) ==
  LET i == Fp6Inv(Fp6Sub(Fp6Mul(a[1], a[1]), Fp6MulV(Fp6Mul(a[2], a[2]))))
  IN  IF i = Nothing THEN Nothing
      ELSE Some(<<Fp6Mul(a[1], i[1]), Fp6Neg(Fp6Mul(a[2], i[1]))>>)
Fp12Conjugate(a) == <<a[1], Fp6Neg(a[2])>>

Fp12Frobenius(a) == <<Fp6Frobenius(a[1]), Fp6MulFp2(Fp6Frobenius(a[2]), FrobW1)>>
Fp12Frobenius2(a) == Fp12Frobenius(Fp12Frobenius(a))

\* The product with the three coefficients of a line: 1, vw and v^2 w.
Fp12MulByLineShifted(f, l) ==
  Fp12Mul(f, <<<<l[1], Fp2Zero, Fp2Zero>>, <<l[2], l[3], Fp2Zero>>>>)
Fp12MulByLine(f, l) ==
  Fp12Mul(f, <<<<l[1], Fp2Zero, Fp2Zero>>, <<Fp2Zero, l[2], l[3]>>>>)

\* Square and multiply from the lowest of the exponent's bits: fp12_pow of
\* sm9/mod.rs runs over all of them, fp12_cyclotomic_pow up to the highest.
Fp12Pow(f, e, bits) ==
  LET loop[i \in 0..bits] ==
        IF i = 0 THEN <<Fp12One, f>>
        ELSE LET s == loop[i - 1]
             IN  <<IF (e \div 2^(i - 1)) % 2 = 1 THEN Fp12Mul(s[1], s[2]) ELSE s[1],
                   Fp12Square(s[2])>>
  IN  loop[bits][1]

\* f^((p^6 - 1)(p^2 + 1)), the easy part of the final exponentiation.
FinalExpEasy(f) ==
  LET i  == Fp12Inv(f)
      f1 == Fp12Mul(Fp12Conjugate(f), i[1])
  IN  IF i = Nothing THEN Fp12One ELSE Fp12Mul(Fp12Frobenius2(f1), f1)
=============================================================================
