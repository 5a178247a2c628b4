--------------------------- MODULE SequenceFacts ---------------------------
(***************************************************************************)
(* Facts about numbers and sequences that the proofs share.                *)
(***************************************************************************)
EXTENDS Integers, Sequences, SequencesExt, SequenceTheorems, WellFoundedInduction, TLAPS

(* A set of natural numbers that is not empty has a least one: an argument *)
(* by induction looks at the least counterexample.                         *)
LEMMA LeastNat ==
  ASSUME NEW S, S \subseteq Nat, S # {}
  PROVE  \E x \in S : \A y \in S : x <= y
<1> DEFINE R == {p \in Nat \X Nat : p[1] < p[2]}
<1>1. R = OpToRel(<, Nat)
  BY Zenon DEF OpToRel
<1>2. IsWellFoundedOn(R, Nat)
  BY <1>1, NatLessThanWellFounded, Zenon
<1>3. \A x, y \in Nat : << y, x >> \in R <=> y < x
  OBVIOUS
<1> HIDE DEF R
<1>4. PICK x \in S : \A y \in S : ~ (<< y, x >> \in R)
  BY <1>2, WFMin, Zenon
<1>5. x \in Nat /\ \A y \in S : y \in Nat /\ ~ (y < x)
  BY <1>3, <1>4, Zenon
<1>6. \A y \in S : x <= y
  BY <1>5
<1> QED
  BY <1>6

(* Min is the least element.                                               *)
LEMMA MinLeast ==
  ASSUME NEW S, S \subseteq Nat, S # {}
  PROVE  Min(S) \in S /\ \A y \in S : Min(S) <= y
BY LeastNat DEF Min

(* What holds of 0, and of n + 1 with n, holds up to any bound.            *)
LEMMA UpTo ==
  ASSUME NEW T, NEW max \in Nat, 0 \in T, \A n \in 0..(max - 1) : n \in T => n + 1 \in T
  PROVE  0..max \subseteq T
<1> SUFFICES ASSUME ~ (0..max \subseteq T) PROVE FALSE
  OBVIOUS
<1> DEFINE rest == (0..max) \ T
<1>1. rest \subseteq Nat
  OBVIOUS
<1> HIDE DEF rest
<1>2. PICK x \in rest : \A y \in rest : x <= y
  BY <1>1, LeastNat DEF rest
<1>3. x # 0 /\ x - 1 \in 0..(max - 1) /\ x - 1 \in T
  BY <1>2 DEF rest
<1> QED
  BY <1>2, <1>3 DEF rest

(* A place past the first a of a + b is one of the other b.                *)
LEMMA PastTheFirst ==
  ASSUME NEW a \in Nat, NEW b \in Nat, NEW n, n = a + b, NEW i \in 1..n, ~ (i <= a)
  PROVE  i - a \in 1..b
OBVIOUS

-----------------------------------------------------------------------------
(* Functions defined by recursion exist.  The step from n - 1 to n is      *)
(* given as a function of what there is.                                   *)

LEMMA Recursion ==
  ASSUME NEW V, NEW base \in V, NEW max \in Nat, NEW step \in [1..max -> [V -> V]]
  PROVE  \E f \in [0..max -> V] : f[0] = base /\ \A n \in 1..max : f[n] = step[n][f[n - 1]]
<1> DEFINE Good(f, k) == /\ f \in [0..k -> V] /\ f[0] = base
                         /\ \A n \in 1..k : f[n] = step[n][f[n - 1]]
           T == {k \in 0..max : \E f \in [0..k -> V] : Good(f, k)}
<1>1. 0 \in T
  <2> DEFINE f == [n \in 0..0 |-> base]
  <2>1. f \in [0..0 -> V] /\ Good(f, 0)
    OBVIOUS
  <2>2. 0 \in 0..max
    OBVIOUS
  <2> HIDE DEF f, Good
  <2> QED
    BY <2>1, <2>2
<1>2. ASSUME NEW k \in 0..(max - 1), k \in T PROVE k + 1 \in T
  <2>1. PICK g \in [0..k -> V] : Good(g, k)
    BY <1>2
  <2> DEFINE f == [n \in 0..(k + 1) |-> IF n <= k THEN g[n] ELSE step[n][g[n - 1]]]
  <2>2. k \in Nat /\ k + 1 \in 1..max /\ k + 1 \in 0..max
    OBVIOUS
  <2>3. g[k] \in V /\ step[k + 1] \in [V -> V]
    BY <2>2
  <2>4. step[k + 1][g[k]] \in V
    BY <2>3
  <2>5. ASSUME NEW n \in 0..(k + 1) PROVE f[n] \in V
    <3>1. CASE n <= k
      BY <2>2, <3>1
    <3>2. CASE n = k + 1
      BY <2>2, <2>4, <3>2
    <3> QED
      BY <2>2, <3>1, <3>2
  <2>6. f \in [0..(k + 1) -> V]
    BY <2>5
  <2>7. ASSUME NEW n \in 1..(k + 1) PROVE f[n] = step[n][f[n - 1]]
    <3>1. n - 1 \in 0..(k + 1) /\ n - 1 <= k
      BY <2>2
    <3>2. f[n - 1] = g[n - 1]
      BY <3>1
    <3>3. CASE n <= k
      <4>1. n \in 1..k
        BY <2>2, <3>3
      <4> QED
        BY <2>1, <3>2, <3>3, <4>1
    <3>4. CASE ~ (n <= k)
      BY <3>2, <3>4
    <3> QED
      BY <3>3, <3>4
  <2>8. f[0] = base
    BY <2>1, <2>2
  <2> HIDE DEF f
  <2>9. Good(f, k + 1)
    BY <2>6, <2>7, <2>8
  <2> QED
    BY <2>2, <2>6, <2>9
<1> HIDE DEF T
<1>3. max \in 0..max
  OBVIOUS
<1>4. max \in T
  BY <1>1, <1>2, <1>3, UpTo
<1> QED
  BY <1>4 DEF T

(* Max is the greatest element of a set of numbers up to a bound.          *)
LEMMA MaxGreatest ==
  ASSUME NEW max \in Nat, NEW S, S \subseteq 1..max, S # {}
  PROVE  Max(S) \in S /\ \A y \in S : y <= Max(S)
<1> DEFINE below == {d \in 0..max : max - d \in S}
<1>1. below \subseteq Nat /\ below # {}
  <2>1. PICK x \in S : TRUE
    OBVIOUS
  <2>2. max - x \in 0..max /\ max - (max - x) = x
    OBVIOUS
  <2>3. max - x \in below
    BY <2>2
  <2>4. below \subseteq Nat
    OBVIOUS
  <2> HIDE DEF below
  <2> QED
    BY <2>3, <2>4
<1>2. PICK z \in below : \A y \in below : z <= y
  BY <1>1, LeastNat
<1>3. max - z \in S /\ z \in 0..max
  BY <1>2
<1>4. ASSUME NEW y \in S PROVE y <= max - z
  <2>1. max - y \in 0..max /\ max - (max - y) = y
    OBVIOUS
  <2>2. max - y \in below
    BY <2>1
  <2>3. z <= max - y
    BY <1>2, <2>2
  <2> QED
    BY <1>3, <2>1, <2>3
<1>5. \E m \in S : \A y \in S : y <= m
  BY <1>3, <1>4
<1> QED
  BY <1>5 DEF Max

(* What the folds of the community modules are made of: a function on the  *)
(* sets of places, that takes the greatest place off.                      *)
Folds(f, V, base, max, step) ==
  /\ f \in [SUBSET (1..max) -> V]
  /\ \A s \in SUBSET (1..max) :
       f[s] = IF s = {} THEN base ELSE step[Max(s)][f[s \ {Max(s)}]]

LEMMA FoldExists ==
  ASSUME NEW V, NEW base \in V, NEW max \in Nat, NEW step \in [1..max -> [V -> V]]
  PROVE  \E f : Folds(f, V, base, max, step)
<1> DEFINE W == [SUBSET (1..max) -> V]
           zero == [s \in SUBSET (1..max) |-> base]
           next(k, g) == [s \in SUBSET (1..max) |-> IF k \in s THEN step[k][g[s \ {k}]] ELSE g[s]]
           add == [k \in 1..max |-> [g \in W |-> next(k, g)]]
<1>1. zero \in W
  OBVIOUS
<1>2. ASSUME NEW k \in 1..max, NEW g \in W PROVE next(k, g) \in W
  <2>1. ASSUME NEW s \in SUBSET (1..max)
        PROVE  (IF k \in s THEN step[k][g[s \ {k}]] ELSE g[s]) \in V
    <3>1. s \ {k} \in SUBSET (1..max) /\ step[k] \in [V -> V]
      OBVIOUS
    <3>2. g[s] \in V /\ g[s \ {k}] \in V
      BY <3>1
    <3>3. step[k][g[s \ {k}]] \in V
      BY <3>1, <3>2
    <3> QED
      BY <3>2, <3>3
  <2> QED
    BY <2>1
<1> HIDE DEF zero, next, W
<1>3. add \in [1..max -> [W -> W]]
  BY <1>2
<1>4. \A k \in 1..max, g \in W : add[k][g] = next(k, g)
  OBVIOUS
<1> HIDE DEF add
<1>5. PICK h \in [0..max -> W] : h[0] = zero /\ \A k \in 1..max : h[k] = add[k][h[k - 1]]
  BY <1>1, <1>3, Recursion, SMTT(30)
<1>6. ASSUME NEW k \in 1..max PROVE h[k - 1] \in W /\ h[k] = next(k, h[k - 1])
  <2>1. k - 1 \in 0..max
    OBVIOUS
  <2> QED
    BY <1>4, <1>5, <2>1
<1>7. ASSUME NEW k \in 0..max, NEW s \in SUBSET (1..max), s \subseteq 1..k
      PROVE  h[max][s] = h[k][s]
  <2> DEFINE T == {j \in 0..max : j <= k \/ h[j][s] = h[k][s]}
  <2>1. 0 \in T
    OBVIOUS
  <2>2. ASSUME NEW j \in 0..(max - 1), j \in T PROVE j + 1 \in T
    <3>1. j + 1 \in 1..max /\ (j + 1) - 1 = j /\ j + 1 \in 0..max
      OBVIOUS
    <3>2. CASE j + 1 <= k
      BY <3>1, <3>2
    <3>3. CASE ~ (j + 1 <= k)
      <4>1. j + 1 \notin s
        BY <1>7, <3>1, <3>3
      <4>2. h[j + 1] = next(j + 1, h[j])
        BY <1>6, <3>1
      <4>3. h[j + 1][s] = h[j][s]
        BY <4>1, <4>2 DEF next
      <4>4. j = k \/ h[j][s] = h[k][s]
        BY <2>2, <3>3
      <4> QED
        BY <3>1, <4>3, <4>4
    <3> QED
      BY <3>2, <3>3
  <2> HIDE DEF T
  <2>3. max \in T
    <3>1. max \in 0..max
      OBVIOUS
    <3> QED
      BY <2>1, <2>2, <3>1, UpTo
  <2>4. max <= k \/ h[max][s] = h[k][s]
    BY <2>3 DEF T
  <2> QED
    BY <2>4
<1>8. max \in 0..max /\ h[max] \in W
  BY <1>5
<1>9. ASSUME NEW s \in SUBSET (1..max)
      PROVE  h[max][s] = IF s = {} THEN base ELSE step[Max(s)][h[max][s \ {Max(s)}]]
  <2>1. CASE s = {}
    <3>1. h[max][s] = h[0][s]
      <4>1. 0 \in 0..max /\ s \subseteq 1..0
        BY <2>1
      <4> QED
        BY <1>7, <4>1
    <3> QED
      BY <1>5, <2>1, <3>1 DEF zero
  <2>2. CASE s # {}
    <3> DEFINE m == Max(s)
    <3>1. m \in s /\ \A y \in s : y <= m
      BY <2>2, MaxGreatest
    <3> HIDE DEF m
    <3>2. /\ m \in 1..max /\ m \in 0..max /\ m - 1 \in 0..max
          /\ s \subseteq 1..m /\ s \ {m} \subseteq 1..(m - 1) /\ s \ {m} \in SUBSET (1..max)
      BY <3>1
    <3>3. h[max][s] = h[m][s] /\ h[max][s \ {m}] = h[m - 1][s \ {m}]
      BY <1>7, <3>2
    <3>4. h[m] = next(m, h[m - 1])
      BY <1>6, <3>2
    <3>5. h[m][s] = step[m][h[m - 1][s \ {m}]]
      BY <3>1, <3>4 DEF next
    <3> QED
      BY <2>2, <3>3, <3>5 DEF m
  <2> QED
    BY <2>1, <2>2
<1> QED
  BY <1>8, <1>9 DEF W, Folds

(* The first k + 1 places without the greatest of them.                    *)
LEMMA FirstPlaces ==
  ASSUME NEW n \in Nat, NEW k \in 0..(n - 1)
  PROVE  /\ k + 1 \in 1..n /\ 1..(k + 1) \in SUBSET (1..n) /\ 1..(k + 1) # {}
         /\ Max(1..(k + 1)) = k + 1 /\ (1..(k + 1)) \ {k + 1} = 1..k
<1>1. k + 1 \in 1..n /\ k \in Nat /\ k + 1 \in 1..(k + 1)
  OBVIOUS
<1>2. 1..(k + 1) \subseteq 1..n
  BY <1>1
<1>3. Max(1..(k + 1)) \in 1..(k + 1) /\ \A y \in 1..(k + 1) : y <= Max(1..(k + 1))
  BY <1>1, <1>2, MaxGreatest
<1>4. k + 1 <= Max(1..(k + 1))
  BY <1>1, <1>3
<1>5. Max(1..(k + 1)) = k + 1
  BY <1>1, <1>3, <1>4
<1>6. (1..(k + 1)) \ {k + 1} = 1..k
  <2>1. \A y : y \in (1..(k + 1)) \ {k + 1} <=> y \in 1..k
    BY <1>1
  <2> QED
    BY <2>1
<1>7. 1..(k + 1) \in SUBSET (1..n) /\ 1..(k + 1) # {}
  BY <1>1, <1>2
<1> QED
  BY <1>1, <1>5, <1>6, <1>7
=============================================================================
