--------------------------- MODULE PrimitiveProofs ---------------------------
(***************************************************************************)
(* Proofs about what sessions and protocols are made of, for every size of *)
(* a block and of a digest, every limit on counters and inputs: byte       *)
(* strings, derived keys and any number of MACs; chunks, padding and the   *)
(* modes of the cipher, each undone by its counterpart.                    *)
(***************************************************************************)
EXTENDS KeySchedule, Sm4Aead, Sm4Cipher, Fpe, SequenceFacts

-----------------------------------------------------------------------------
(* Byte strings: what they are made of does not matter.                    *)

IsString(s) == s \in Seq(Range(s))

LEMMA StringIn ==
  ASSUME NEW S, NEW s \in Seq(S)
  PROVE  IsString(s)
<1>1. /\ Len(s) \in Nat /\ DOMAIN s = 1..Len(s) /\ s \in [1..Len(s) -> S]
  BY LenProperties
<1>2. s = [i \in 1..Len(s) |-> s[i]]
  BY <1>1
<1>3. \A i \in 1..Len(s) : s[i] \in Range(s)
  BY <1>1 DEF Range
<1>4. s \in [1..Len(s) -> Range(s)]
  BY <1>2, <1>3
<1> QED
  BY <1>1, <1>4, SeqDef DEF IsString

LEMMA StringProperties ==
  ASSUME NEW s, IsString(s)
  PROVE  /\ Len(s) \in Nat /\ DOMAIN s = 1..Len(s)
         /\ \A i \in 1..Len(s) : s[i] \in Range(s)
BY LenProperties, ElementOfSeq DEF IsString

LEMMA MadeString ==
  ASSUME NEW n \in Nat, NEW s, s = [i \in 1..n |-> s[i]]
  PROVE  IsString(s) /\ Len(s) = n
<1>1. \A i \in 1..n : s[i] \in Range(s)
  BY DEF Range
<1>2. s \in [1..n -> Range(s)]
  BY <1>1
<1>3. s \in Seq(Range(s))
  BY <1>2, SeqDef
<1>4. DOMAIN s = 1..n /\ DOMAIN s = 1..Len(s) /\ Len(s) \in Nat
  BY <1>2, <1>3, LenProperties
<1>5. \A a, b \in Nat : 1..a = 1..b => a = b
  <2> SUFFICES ASSUME NEW a \in Nat, NEW b \in Nat, 1..a = 1..b PROVE a = b
    OBVIOUS
  <2>1. a \in 1..b \/ a = 0
    OBVIOUS
  <2>2. b \in 1..a \/ b = 0
    OBVIOUS
  <2> QED
    BY <2>1, <2>2
<1> QED
  BY <1>3, <1>4, <1>5 DEF IsString

LEMMA SameString ==
  ASSUME NEW s, NEW t, IsString(s), IsString(t), Len(s) = Len(t),
         \A i \in 1..Len(s) : s[i] = t[i]
  PROVE  s = t
<1> DEFINE S == Range(s) \cup Range(t)
<1>1. s \in Seq(S) /\ t \in Seq(S)
  BY SeqMonotonic DEF IsString
<1> HIDE DEF S
<1> QED
  BY <1>1, SeqEqual

LEMMA Joined ==
  ASSUME NEW s, NEW t, IsString(s), IsString(t)
  PROVE  /\ IsString(s \o t) /\ Len(s \o t) = Len(s) + Len(t)
         /\ \A i \in 1..(Len(s) + Len(t)) :
              (s \o t)[i] = IF i <= Len(s) THEN s[i] ELSE t[i - Len(s)]
<1> DEFINE S == Range(s) \cup Range(t)
<1>1. s \in Seq(S) /\ t \in Seq(S)
  BY SeqMonotonic DEF IsString
<1> HIDE DEF S
<1>2. /\ s \o t \in Seq(S) /\ Len(s \o t) = Len(s) + Len(t)
      /\ \A i \in 1..(Len(s) + Len(t)) :
           (s \o t)[i] = IF i <= Len(s) THEN s[i] ELSE t[i - Len(s)]
  BY <1>1, ConcatProperties
<1> QED
  BY <1>2, StringIn

(* Two strings put together the same way are the same when their first or  *)
(* their last parts are of one length.                                     *)
LEMMA SplitSame ==
  ASSUME NEW s, NEW t, NEW u, NEW v, IsString(s), IsString(t), IsString(u), IsString(v),
         Len(s) = Len(u) \/ Len(t) = Len(v), s \o t = u \o v
  PROVE  s = u /\ t = v
<1> DEFINE n == Len(s)
           l == Len(t)
<1>0. n \in Nat /\ l \in Nat /\ Len(v) \in Nat /\ Len(u) \in Nat
  BY StringProperties
<1>2. n + l = Len(u) + Len(v)
  BY Joined
<1>1. n \in Nat /\ l \in Nat /\ Len(v) \in Nat /\ Len(u) = n
  BY <1>0, <1>2
<1>3. Len(v) = l
  BY <1>1, <1>2
<1>4. ASSUME NEW i \in 1..n PROVE s[i] = u[i]
  <2>1. i \in 1..(n + l) /\ i <= n
    BY <1>1
  <2>2. (s \o t)[i] = s[i]
    BY <2>1, Joined
  <2>3. (u \o v)[i] = u[i]
    BY <1>1, <1>3, <2>1, Joined
  <2> QED
    BY <2>2, <2>3
<1>5. ASSUME NEW i \in 1..l PROVE t[i] = v[i]
  <2>1. n + i \in 1..(n + l) /\ ~(n + i <= n) /\ (n + i) - n = i
    BY <1>1
  <2>2. (s \o t)[n + i] = t[(n + i) - n]
    BY <2>1, Joined, Zenon
  <2>3. n + i \in 1..(Len(u) + Len(v)) /\ ~(n + i <= Len(u))
    BY <1>1, <1>3, <2>1
  <2>4. (u \o v)[n + i] = v[(n + i) - Len(u)]
    BY <2>3, Joined, Zenon
  <2> QED
    BY <1>1, <2>1, <2>2, <2>4
<1> HIDE DEF n, l
<1> QED
  BY <1>1, <1>3, <1>4, <1>5, SameString DEF n, l

LEMMA One ==
  ASSUME NEW x
  PROVE  IsString(<< x >>) /\ Len(<< x >>) = 1 /\ << x >>[1] = x
<1>1. << x >> \in Seq({x})
  OBVIOUS
<1> QED
  BY <1>1, StringIn

LEMMA Empty == IsString(<< >>) /\ Len(<< >>) = 0
<1>1. << >> \in Seq({})
  OBVIOUS
<1> QED
  BY <1>1, StringIn

LEMMA JoinEmpty ==
  ASSUME NEW s, IsString(s)
  PROVE  s \o << >> = s /\ << >> \o s = s
BY ConcatEmptySeq DEF IsString

LEMMA JoinThree ==
  ASSUME NEW s, NEW t, NEW u, IsString(s), IsString(t), IsString(u)
  PROVE  (s \o t) \o u = s \o (t \o u)
<1> DEFINE S == Range(s) \cup Range(t) \cup Range(u)
<1>1. s \in Seq(S) /\ t \in Seq(S) /\ u \in Seq(S)
  BY SeqMonotonic DEF IsString
<1> HIDE DEF S
<1> QED
  BY <1>1, ConcatAssociative

LEMMA MinOfTwo ==
  ASSUME NEW a \in Nat, NEW b \in Nat
  PROVE  Min({a, b}) = IF a <= b THEN a ELSE b
<1>1. Min({a, b}) \in {a, b} /\ \A y \in {a, b} : Min({a, b}) <= y
  BY MinLeast
<1> QED
  BY <1>1

LEMMA CutIs ==
  ASSUME NEW s, IsString(s), NEW n \in Nat
  PROVE  /\ IsString(CutTo(s, n))
         /\ Len(CutTo(s, n)) = IF Len(s) <= n THEN Len(s) ELSE n
         /\ \A i \in 1..Len(CutTo(s, n)) : CutTo(s, n)[i] = s[i]
<1> DEFINE m == Min({Len(s), n})
<1>1. Len(s) \in Nat /\ \A i \in 1..Len(s) : s[i] \in Range(s)
  BY StringProperties
<1>2. m = (IF Len(s) <= n THEN Len(s) ELSE n)
  BY <1>1, MinOfTwo
<1>3. m \in Nat /\ m <= Len(s)
  BY <1>1, <1>2
<1> HIDE DEF m
<1>4. \A i \in 1..m : s[i] \in Range(s)
  BY <1>1, <1>3
<1>5. /\ SubSeq(s, 1, m) \in Seq(Range(s))
      /\ Len(SubSeq(s, 1, m)) = IF 1 <= m THEN m - 1 + 1 ELSE 0
      /\ \A i \in 1..(m - 1 + 1) : SubSeq(s, 1, m)[i] = s[1 + i - 1]
  BY <1>3, <1>4, SubSeqProperties
<1>6. Len(SubSeq(s, 1, m)) = m
  BY <1>3, <1>5
<1>7. \A i \in 1..m : SubSeq(s, 1, m)[i] = s[i]
  BY <1>3, <1>5
<1>8. CutTo(s, n) = SubSeq(s, 1, m)
  BY DEF CutTo, m
<1> QED
  BY <1>2, <1>5, <1>6, <1>7, <1>8, StringIn

(* What is short enough is not cut.                                        *)
LEMMA NotCut ==
  ASSUME NEW s, IsString(s), NEW n \in Nat, Len(s) <= n
  PROVE  CutTo(s, n) = s
<1>1. Len(CutTo(s, n)) = Len(s) /\ \A i \in 1..Len(s) : CutTo(s, n)[i] = s[i]
  BY CutIs
<1>2. IsString(CutTo(s, n))
  BY CutIs
<1> QED
  BY <1>1, <1>2, SameString

-----------------------------------------------------------------------------
(* Numbers as bytes.                                                       *)

LEMMA BitIn ==
  ASSUME NEW v, NEW j \in 0..7
  PROVE  << "bit", j >> \in Num(v) <=> (v \div 2^j) % 2 = 1
BY DEF Num

LEMMA NumSame ==
  ASSUME NEW v \in 0..255, NEW w \in 0..255, Num(v) = Num(w)
  PROVE  v = w
<1>1. ASSUME NEW j \in 0..7 PROVE (v \div 2^j) % 2 = 1 <=> (w \div 2^j) % 2 = 1
  BY BitIn
<1>2. \A m \in Nat : m % 2 \in 0..1
  OBVIOUS
<1>3. ASSUME NEW d \in Nat, d # 0, (v \div d) % 2 = 1 <=> (w \div d) % 2 = 1
      PROVE  (v \div d) % 2 = (w \div d) % 2
  <2>1. v \div d \in Nat /\ w \div d \in Nat
    BY <1>3
  <2> HIDE <1>3
  <2> QED
    BY <1>2, <1>3, <2>1
<1>4. /\ 2^0 = 1 /\ 2^1 = 2 /\ 2^2 = 4 /\ 2^3 = 8 /\ 2^4 = 16 /\ 2^5 = 32 /\ 2^6 = 64
      /\ 2^7 = 128
  OBVIOUS
<1>5. /\ (v \div 1) % 2 = (w \div 1) % 2 /\ (v \div 2) % 2 = (w \div 2) % 2
      /\ (v \div 4) % 2 = (w \div 4) % 2 /\ (v \div 8) % 2 = (w \div 8) % 2
  BY <1>1, <1>3, <1>4
<1>6. /\ (v \div 16) % 2 = (w \div 16) % 2 /\ (v \div 32) % 2 = (w \div 32) % 2
      /\ (v \div 64) % 2 = (w \div 64) % 2 /\ (v \div 128) % 2 = (w \div 128) % 2
  BY <1>1, <1>3, <1>4
<1>7. v \div 1 = v /\ w \div 1 = w
  OBVIOUS
<1>8. v \div 128 = w \div 128
  BY ONLY v \in 0..255, w \in 0..255, <1>6
<1>9. v \div 64 = w \div 64
  BY ONLY v \in 0..255, w \in 0..255, <1>6, <1>8
<1>10. v \div 32 = w \div 32
  BY ONLY v \in 0..255, w \in 0..255, <1>6, <1>9
<1>11. v \div 16 = w \div 16
  BY ONLY v \in 0..255, w \in 0..255, <1>6, <1>10
<1>12. v \div 8 = w \div 8
  BY ONLY v \in 0..255, w \in 0..255, <1>5, <1>11, SMTT(30)
<1>13. v \div 4 = w \div 4
  BY ONLY v \in 0..255, w \in 0..255, <1>5, <1>12
<1>14. v \div 2 = w \div 2
  BY ONLY v \in 0..255, w \in 0..255, <1>5, <1>13
<1>15. v % 2 = w % 2
  BY <1>5, <1>7, Zenon
<1> QED
  BY ONLY v \in 0..255, w \in 0..255, <1>14, <1>15

-----------------------------------------------------------------------------
(* Digests: known by what was hashed.                                      *)

LEMMA DigestIs ==
  ASSUME NEW s
  PROVE  /\ IsString(Sm3(s)) /\ Len(Sm3(s)) = DigestLen
         /\ \A i \in 1..DigestLen : Sm3(s)[i] = {<< "sm3", s, i >>}
<1> DEFINE f == [i \in 1..DigestLen |-> {<< "sm3", s, i >>}]
<1>0. DigestLen \in Nat /\ DigestLen >= 1
  BY DeriveAssumption
<1>1. IsString(f) /\ Len(f) = DigestLen /\ \A i \in 1..DigestLen : f[i] = {<< "sm3", s, i >>}
  <2>1. f = [i \in 1..DigestLen |-> f[i]]
    OBVIOUS
  <2> HIDE DEF f
  <2>2. IsString(f) /\ Len(f) = DigestLen
    BY <1>0, <2>1, MadeString
  <2> QED
    BY <2>2 DEF f
<1>2. Sm3(s) = SubSeq(f, 1, DigestLen)
  BY DEF Sm3, Bytes
<1> HIDE DEF f
<1>3. SubSeq(f, 1, DigestLen) = f
  BY <1>1, SubSeqFull DEF IsString
<1> QED
  BY <1>1, <1>2, <1>3

LEMMA DigestSame ==
  ASSUME NEW s, NEW t, NEW i \in 1..DigestLen, NEW j \in 1..DigestLen
  PROVE  Sm3(s)[i] = Sm3(t)[j] <=> s = t /\ i = j
<1>1. Sm3(s)[i] = {<< "sm3", s, i >>} /\ Sm3(t)[j] = {<< "sm3", t, j >>}
  BY DigestIs
<1>2. << "sm3", s, i >> = << "sm3", t, j >> <=> s = t /\ i = j
  OBVIOUS
<1> QED
  BY <1>1, <1>2

LEMMA SizesAre ==
  /\ DigestLen \in Nat /\ DigestLen >= 1 /\ HashBlock \in Nat /\ HashBlock >= DigestLen
  /\ 1 \in 1..DigestLen /\ DigestLen \in 1..DigestLen /\ 1..DigestLen \subseteq 1..HashBlock
BY DeriveAssumption

LEMMA ZerosAre ==
  ASSUME NEW n \in Nat
  PROVE  IsString(Zeros(n)) /\ Len(Zeros(n)) = n /\ \A i \in 1..n : Zeros(n)[i] = Zero
<1>1. Zeros(n) = [i \in 1..n |-> Zeros(n)[i]] /\ \A i \in 1..n : Zeros(n)[i] = Zero
  BY DEF Zeros
<1> QED
  BY <1>1, MadeString

(* A key as HMAC takes it.                                                 *)
Short(key)   == IF Len(key) > HashBlock THEN Sm3(key) ELSE key
KeyAt(key, i) == IF i <= Len(Short(key)) THEN Short(key)[i] ELSE Zero

LEMMA ShortIs ==
  ASSUME NEW key, IsString(key)
  PROVE  IsString(Short(key)) /\ Len(Short(key)) \in Nat /\ Len(Short(key)) <= HashBlock
<1>1. CASE Len(key) > HashBlock
  BY <1>1, DigestIs, SizesAre DEF Short
<1>2. CASE ~(Len(key) > HashBlock)
  BY <1>2, StringProperties, SizesAre DEF Short
<1> QED
  BY <1>1, <1>2

LEMMA PaddedKeyIs ==
  ASSUME NEW key, IsString(key)
  PROVE  /\ IsString(PaddedKey(key)) /\ Len(PaddedKey(key)) = HashBlock
         /\ \A i \in 1..HashBlock : PaddedKey(key)[i] = KeyAt(key, i)
<1> DEFINE m == Len(Short(key))
           z == Zeros(HashBlock - m)
<1>1. m \in Nat /\ HashBlock - m \in Nat /\ m + (HashBlock - m) = HashBlock
  BY ShortIs, SizesAre
<1>2. IsString(z) /\ Len(z) = HashBlock - m /\ \A i \in 1..(HashBlock - m) : z[i] = Zero
  BY <1>1, ZerosAre
<1>3. PaddedKey(key) = Short(key) \o z
  BY DEF PaddedKey, Short
<1> HIDE DEF z
<1>6. IsString(Short(key))
  BY ShortIs
<1>7. /\ IsString(Short(key) \o z) /\ Len(Short(key) \o z) = Len(Short(key)) + Len(z)
      /\ \A i \in 1..(Len(Short(key)) + Len(z)) :
           (Short(key) \o z)[i] = IF i <= Len(Short(key)) THEN Short(key)[i]
                                                        ELSE z[i - Len(Short(key))]
  BY ONLY <1>2, <1>6, Joined, Zenon
<1>8. Len(Short(key)) + Len(z) = HashBlock
  BY <1>1, <1>2
<1>4. /\ IsString(PaddedKey(key)) /\ Len(PaddedKey(key)) = HashBlock
      /\ \A i \in 1..HashBlock :
           PaddedKey(key)[i] = IF i <= m THEN Short(key)[i] ELSE z[i - m]
  BY <1>3, <1>7, <1>8, Zenon
<1>5. ASSUME NEW i \in 1..HashBlock, ~(i <= m) PROVE i - m \in 1..(HashBlock - m)
  BY <1>1, <1>5
<1> QED
  BY <1>2, <1>4, <1>5 DEF KeyAt

LEMMA SameKeyIs ==
  ASSUME NEW k, NEW l
  PROVE  SameKey(k, l) <=> \A i \in 1..HashBlock : KeyAt(k, i) = KeyAt(l, i)
BY DEF SameKey, KeyAt, Short

LEMMA MaskedIs ==
  ASSUME NEW key, IsString(key), NEW pad
  PROVE  /\ IsString(Masked(key, pad)) /\ Len(Masked(key, pad)) = HashBlock
         /\ \A i \in 1..HashBlock : Masked(key, pad)[i] = SymDiff(KeyAt(key, i), Num(pad))
<1> DEFINE f == [i \in 1..HashBlock |-> SymDiff(PaddedKey(key)[i], Num(pad))]
<1>1. IsString(f) /\ Len(f) = HashBlock
  <2>1. f = [i \in 1..HashBlock |-> f[i]]
    OBVIOUS
  <2> HIDE DEF f
  <2> QED
    BY <2>1, SizesAre, MadeString
<1>2. \A i \in 1..HashBlock : f[i] = SymDiff(KeyAt(key, i), Num(pad))
  BY PaddedKeyIs
<1>3. Masked(key, pad) = SubSeq(f, 1, HashBlock)
  BY DEF Masked, Bytes
<1> HIDE DEF f
<1>4. SubSeq(f, 1, HashBlock) = f
  BY <1>1, SubSeqFull DEF IsString
<1> QED
  BY <1>1, <1>2, <1>3, <1>4

LEMMA SymDiffSame ==
  ASSUME NEW x, NEW y, NEW n, SymDiff(x, n) = SymDiff(y, n)
  PROVE  x = y
<1>1. \A a : a \in SymDiff(x, n) <=> a \in SymDiff(y, n)
  OBVIOUS
<1>2. \A a : a \in x <=> a \in y
  BY <1>1 DEF SymDiff
<1> QED
  BY <1>2

(* Two keys mask alike when HMAC takes them for the same.                  *)
LEMMA MaskedSame ==
  ASSUME NEW k, NEW l, IsString(k), IsString(l), NEW pad
  PROVE  Masked(k, pad) = Masked(l, pad) <=> SameKey(k, l)
<1>1. ASSUME Masked(k, pad) = Masked(l, pad) PROVE SameKey(k, l)
  <2>1. ASSUME NEW i \in 1..HashBlock PROVE KeyAt(k, i) = KeyAt(l, i)
    <3>1. SymDiff(KeyAt(k, i), Num(pad)) = SymDiff(KeyAt(l, i), Num(pad))
      BY <1>1, MaskedIs
    <3> QED
      BY <3>1, SymDiffSame
  <2> QED
    BY <2>1, SameKeyIs
<1>2. ASSUME SameKey(k, l) PROVE Masked(k, pad) = Masked(l, pad)
  <2>1. \A i \in 1..HashBlock : KeyAt(k, i) = KeyAt(l, i)
    BY <1>2, SameKeyIs
  <2>2. \A i \in 1..HashBlock : Masked(k, pad)[i] = Masked(l, pad)[i]
    BY <2>1, MaskedIs
  <2> QED
    BY <2>2, MaskedIs, SameString
<1> QED
  BY <1>1, <1>2

(* What the outer hash of HMAC takes in.                                   *)
Outer(key, data) == Masked(key, OPad) \o Sm3(Masked(key, IPad) \o data)

LEMMA OuterSame ==
  ASSUME NEW k, NEW l, IsString(k), IsString(l), NEW d, NEW e, IsString(d), IsString(e)
  PROVE  Outer(k, d) = Outer(l, e) <=> SameKey(k, l) /\ d = e
<1>1. /\ IsString(Masked(k, OPad)) /\ IsString(Masked(l, OPad))
      /\ IsString(Masked(k, IPad)) /\ IsString(Masked(l, IPad))
      /\ Len(Masked(k, OPad)) = Len(Masked(l, OPad))
      /\ Len(Masked(k, IPad)) = Len(Masked(l, IPad))
  BY MaskedIs
<1> DEFINE x == Masked(k, IPad) \o d
           y == Masked(l, IPad) \o e
<1>2. IsString(Sm3(x)) /\ IsString(Sm3(y))
  BY DigestIs
<1>3. ASSUME Outer(k, d) = Outer(l, e) PROVE SameKey(k, l) /\ d = e
  <2>1. Masked(k, OPad) \o Sm3(x) = Masked(l, OPad) \o Sm3(y)
    BY <1>3 DEF Outer
  <2> HIDE DEF x, y
  <2>2. Masked(k, OPad) = Masked(l, OPad) /\ Sm3(x) = Sm3(y)
    BY ONLY <1>1, <1>2, <2>1, SplitSame, ZenonT(60)
  <2>3. x = y
    BY <2>2, DigestSame, SizesAre
  <2>4. d = e
    BY ONLY <1>1, <2>3, IsString(d), IsString(e), SplitSame, Zenon DEF x, y
  <2> QED
    BY <2>2, <2>4, MaskedSame
<1>4. ASSUME SameKey(k, l), d = e PROVE Outer(k, d) = Outer(l, e)
  <2>1. Masked(k, OPad) = Masked(l, OPad) /\ Masked(k, IPad) = Masked(l, IPad)
    BY <1>4, MaskedSame
  <2> QED
    BY <1>4, <2>1 DEF Outer
<1> QED
  BY <1>3, <1>4

LEMMA HmacIs ==
  ASSUME NEW k, NEW d
  PROVE  /\ HmacSm3(k, d) = Sm3(Outer(k, d))
         /\ IsString(HmacSm3(k, d)) /\ Len(HmacSm3(k, d)) = DigestLen
<1>1. HmacSm3(k, d) = Sm3(Outer(k, d))
  BY DEF HmacSm3, Outer
<1> QED
  BY <1>1, DigestIs

(* Two MACs have a byte in common only when they are the same, and only at *)
(* the same place.                                                         *)
LEMMA HmacSame ==
  ASSUME NEW k, NEW l, IsString(k), IsString(l), NEW d, NEW e, IsString(d), IsString(e),
         NEW i \in 1..DigestLen, NEW j \in 1..DigestLen
  PROVE  HmacSm3(k, d)[i] = HmacSm3(l, e)[j] <=> i = j /\ SameKey(k, l) /\ d = e
<1>1. HmacSm3(k, d)[i] = HmacSm3(l, e)[j] <=> Outer(k, d) = Outer(l, e) /\ i = j
  BY HmacIs, DigestSame
<1> QED
  BY <1>1, OuterSame

Meet(v, w, k, l, d, e) ==
  \A p, q \in 1..DigestLen : v[p] = w[q] <=> p = q /\ SameKey(k, l) /\ d = e
LEMMA MacsMeet ==
  ASSUME NEW k, NEW l, NEW d, NEW e, IsString(k), IsString(l), IsString(d), IsString(e)
  PROVE  Meet(HmacSm3(k, d), HmacSm3(l, e), k, l, d, e)
<1> SUFFICES ASSUME NEW p \in 1..DigestLen, NEW q \in 1..DigestLen
             PROVE  HmacSm3(k, d)[p] = HmacSm3(l, e)[q] <=> p = q /\ SameKey(k, l) /\ d = e
  BY DEF Meet
<1>1. HmacSm3(k, d)[p] = HmacSm3(l, e)[q] <=> Outer(k, d) = Outer(l, e) /\ p = q
  BY HmacIs, DigestSame
<1> QED
  BY <1>1, OuterSame

LEMMA HmacEqual ==
  ASSUME NEW k, NEW l, IsString(k), IsString(l), SameKey(k, l), NEW d, IsString(d)
  PROVE  HmacSm3(k, d) = HmacSm3(l, d)
<1>1. Outer(k, d) = Outer(l, d)
  BY OuterSame
<1> QED
  BY <1>1, HmacIs

-----------------------------------------------------------------------------
(* What is made in rounds, each from the one before: the three functions   *)
(* of the model that are defined this way exist.                           *)

ExpandData(prev, info, x) == prev \o info \o << x >>
RoundOf(kind, key, more, i, prev) ==
  CASE kind = "expand"  -> HmacSm3(key, ExpandData(prev, more, Num(i)))
    [] kind = "chain"   -> HmacSm3(key, IF i = 1 THEN more ELSE prev)
    [] kind = "flatten" -> IF i = 1 THEN more[i] ELSE prev \o more[i]
MadeInRounds(t, n, kind, key, more) ==
  t = [i \in 1..n |-> RoundOf(kind, key, more, i, IF i = 1 THEN << >> ELSE t[i - 1])]

LEMMA RoundsExist ==
  ASSUME NEW n \in Nat, NEW kind, NEW key, NEW more
  PROVE  \E t : MadeInRounds(t, n, kind, key, more)
<1> DEFINE round(i, prev) == RoundOf(kind, key, more, i, prev)
           is(t, k) == t = [i \in 1..k |-> round(i, IF i = 1 THEN << >> ELSE t[i - 1])]
           T == {k \in 0..n : \E t : is(t, k)}
<1> HIDE DEF round
<1>1. 0 \in T
  <2>1. is(<< >>, 0)
    OBVIOUS
  <2>2. 0 \in 0..n
    OBVIOUS
  <2> HIDE DEF is
  <2> QED
    BY <2>1, <2>2
<1>2. ASSUME NEW k \in 0..(n - 1), k \in T PROVE k + 1 \in T
  <2>1. PICK t : is(t, k)
    BY <1>2
  <2> DEFINE u == [i \in 1..(k + 1) |-> round(i, IF i = 1 THEN << >> ELSE t[i - 1])]
  <2>2. ASSUME NEW i \in 1..(k + 1) PROVE (IF i = 1 THEN << >> ELSE t[i - 1])
                                            = IF i = 1 THEN << >> ELSE u[i - 1]
    <3>1. CASE i = 1
      BY <3>1
    <3>2. CASE i # 1
      <4>1. i - 1 \in 1..k /\ i - 1 \in 1..(k + 1)
        BY <3>2
      <4>2. t[i - 1] = round(i - 1, IF i - 1 = 1 THEN << >> ELSE t[i - 1 - 1])
        BY <2>1, <4>1
      <4>3. u[i - 1] = round(i - 1, IF i - 1 = 1 THEN << >> ELSE t[i - 1 - 1])
        BY <4>1
      <4> HIDE DEF u, is
      <4> QED
        BY <3>2, <4>2, <4>3, Zenon
    <3> QED
      BY <3>1, <3>2
  <2>3. u = [i \in 1..(k + 1) |-> round(i, IF i = 1 THEN << >> ELSE u[i - 1])]
    <3> HIDE DEF is
    <3>1. u = [i \in 1..(k + 1) |-> u[i]]
      OBVIOUS
    <3>2. \A i \in 1..(k + 1) : u[i] = round(i, IF i = 1 THEN << >> ELSE t[i - 1])
      OBVIOUS
    <3> HIDE DEF u
    <3>3. \A i \in 1..(k + 1) : u[i] = round(i, IF i = 1 THEN << >> ELSE u[i - 1])
      BY <2>2, <3>2, Zenon
    <3> QED
      BY <3>1, <3>3, Zenon
  <2> HIDE DEF u
  <2>4. is(u, k + 1) /\ k + 1 \in 0..n
    BY <2>3
  <2> HIDE DEF is
  <2> QED
    BY <2>4
<1>3. n \in T
  <2> HIDE DEF T
  <2>1. n \in 0..n
    OBVIOUS
  <2> QED
    BY <1>1, <1>2, <2>1, UpTo
<1> QED
  BY <1>3 DEF MadeInRounds, round

IsExpanded(t, n, prk, info) ==
  t = [i \in 1..n |-> HmacSm3(prk, ExpandData(IF i = 1 THEN << >> ELSE t[i - 1], info, Num(i)))]
IsChain(t, n, password, first) ==
  t = [i \in 1..n |-> HmacSm3(password, IF i = 1 THEN first ELSE t[i - 1])]
IsFlattened(t, n, parts) ==
  t = [i \in 1..n |-> IF i = 1 THEN parts[i] ELSE t[i - 1] \o parts[i]]

LEMMA ExpandedExists ==
  ASSUME NEW n \in Nat, NEW prk, NEW info
  PROVE  \E t : IsExpanded(t, n, prk, info)
<1>1. PICK t : MadeInRounds(t, n, "expand", prk, info)
  BY RoundsExist
<1>2. IsExpanded(t, n, prk, info)
  BY <1>1 DEF MadeInRounds, RoundOf, IsExpanded
<1> QED
  BY <1>2

LEMMA ChainExists ==
  ASSUME NEW n \in Nat, NEW password, NEW first
  PROVE  \E t : IsChain(t, n, password, first)
<1>1. PICK t : MadeInRounds(t, n, "chain", password, first)
  BY RoundsExist
<1>2. IsChain(t, n, password, first)
  BY <1>1 DEF MadeInRounds, RoundOf, IsChain
<1> QED
  BY <1>2

LEMMA FlattenedExists ==
  ASSUME NEW n \in Nat, NEW parts
  PROVE  \E t : IsFlattened(t, n, parts)
<1>1. PICK t : MadeInRounds(t, n, "flatten", << >>, parts)
  BY RoundsExist
<1>2. IsFlattened(t, n, parts)
  BY <1>1 DEF MadeInRounds, RoundOf, IsFlattened
<1> QED
  BY <1>2

-----------------------------------------------------------------------------
(* HKDF: each round is a MAC of the one before, of info and of a number.   *)

(* What round i is given of the one before.                                *)
Before(t, i) == IF i = 1 THEN << >> ELSE t[i - 1]

LEMMA ExpandDataIs ==
  ASSUME NEW prev, NEW info, IsString(prev), IsString(info), NEW x
  PROVE  /\ IsString(prev \o info) /\ IsString(<< x >>) /\ Len(<< x >>) = 1
         /\ IsString(ExpandData(prev, info, x))
<1>1. IsString(prev \o info) /\ IsString(<< x >>) /\ Len(<< x >>) = 1
  BY Joined, One
<1>2. IsString((prev \o info) \o << x >>)
  BY <1>1, Joined
<1> QED
  BY <1>1, <1>2 DEF ExpandData

LEMMA ExpandedIs ==
  ASSUME NEW n \in Nat, NEW prk, NEW info, IsString(info), NEW t, IsExpanded(t, n, prk, info)
  PROVE  \A i \in 1..n :
           /\ IsString(Before(t, i))
           /\ Len(Before(t, i)) = IF i = 1 THEN 0 ELSE DigestLen
           /\ IsString(ExpandData(Before(t, i), info, Num(i)))
           /\ t[i] = HmacSm3(prk, ExpandData(Before(t, i), info, Num(i)))
           /\ IsString(t[i]) /\ Len(t[i]) = DigestLen
<1> DEFINE prev(i) == Before(t, i)
<1>1. \A i \in 1..n : t[i] = HmacSm3(prk, ExpandData(prev(i), info, Num(i)))
  BY DEF IsExpanded, Before
<1>3. \A i \in 1..n : IsString(t[i]) /\ Len(t[i]) = DigestLen
  BY <1>1, HmacIs
<1>4. ASSUME NEW i \in 1..n
      PROVE  IsString(prev(i)) /\ Len(prev(i)) = IF i = 1 THEN 0 ELSE DigestLen
  <2>1. CASE i = 1
    BY <2>1, Empty DEF Before
  <2>2. CASE i # 1
    <3>1. i - 1 \in 1..n
      BY <2>2
    <3> QED
      BY <1>3, <2>2, <3>1 DEF Before
  <2> QED
    BY <2>1, <2>2
<1>5. \A i \in 1..n : IsString(ExpandData(prev(i), info, Num(i)))
  <2> HIDE DEF prev
  <2> QED
    BY <1>4, ExpandDataIs
<1> QED
  BY <1>1, <1>3, <1>4, <1>5

LEMMA PartsSame ==
  ASSUME NEW r, NEW s, NEW f, NEW g, NEW x, NEW y,
         IsString(r), IsString(s), IsString(f), IsString(g),
         ExpandData(r, f, x) = ExpandData(s, g, y)
  PROVE  x = y /\ (Len(r) = Len(s) => f = g)
<1>1. /\ IsString(r \o f) /\ IsString(<< x >>) /\ Len(<< x >>) = 1
      /\ IsString(s \o g) /\ IsString(<< y >>) /\ Len(<< y >>) = 1
  BY Joined, One
<1>2. (r \o f) \o << x >> = (s \o g) \o << y >>
  BY DEF ExpandData
<1>3. Len(<< x >>) = Len(<< y >>)
  BY <1>1
<1>4. r \o f = s \o g /\ << x >> = << y >>
  BY ONLY <1>1, <1>2, <1>3, SplitSame, ZenonT(60)
<1>5. x = y
  BY <1>4, One
<1>7. ASSUME Len(r) = Len(s) PROVE f = g
  BY ONLY <1>7, <1>4, IsString(r), IsString(s), IsString(f), IsString(g), SplitSame, ZenonT(60)
<1> QED
  BY <1>5, <1>7

(* Two outputs have a byte in common only where they are made of the same. *)
ExpandedPair(n, m, k, l, f, g, t, u) ==
  /\ n \in 0..255 /\ m \in 0..255 /\ IsString(k) /\ IsString(l) /\ IsString(f) /\ IsString(g)
  /\ IsExpanded(t, n, k, f) /\ IsExpanded(u, m, l, g)
ExpandedMeet(i, j, k, l, f, g, v, w) ==
  \A p, q \in 1..DigestLen : v[p] = w[q] <=> i = j /\ p = q /\ SameKey(k, l) /\ f = g

LEMMA ExpandedSame ==
  ASSUME NEW n, NEW m, NEW k, NEW l, NEW f, NEW g, NEW t, NEW u,
         ExpandedPair(n, m, k, l, f, g, t, u)
  PROVE  \A i \in 1..n, j \in 1..m : ExpandedMeet(i, j, k, l, f, g, t[i], u[j])
<1> SUFFICES ASSUME NEW i \in 1..n, NEW j \in 1..m, NEW p \in 1..DigestLen, NEW q \in 1..DigestLen
             PROVE  t[i][p] = u[j][q] <=> i = j /\ p = q /\ SameKey(k, l) /\ f = g
  BY DEF ExpandedMeet
<1>0. n \in Nat /\ m \in Nat /\ n \in 0..255 /\ m \in 0..255
  BY DEF ExpandedPair
<1> USE <1>0
<1> IsString(k) /\ IsString(l)
  BY DEF ExpandedPair
<1> IsString(f) /\ IsString(g)
  BY DEF ExpandedPair
<1> IsExpanded(t, n, k, f) /\ IsExpanded(u, m, l, g)
  BY DEF ExpandedPair
<1>1. \A a \in 1..n : /\ IsString(Before(t, a)) /\ Len(Before(t, a)) = IF a = 1 THEN 0 ELSE DigestLen
                      /\ IsString(ExpandData(Before(t, a), f, Num(a)))
                      /\ t[a] = HmacSm3(k, ExpandData(Before(t, a), f, Num(a)))
  BY <1>0, ExpandedIs
<1>2. \A a \in 1..m : /\ IsString(Before(u, a)) /\ Len(Before(u, a)) = IF a = 1 THEN 0 ELSE DigestLen
                      /\ IsString(ExpandData(Before(u, a), g, Num(a)))
                      /\ u[a] = HmacSm3(l, ExpandData(Before(u, a), g, Num(a)))
  BY <1>0, ExpandedIs
<1>3. t[i][p] = u[j][q] <=> /\ p = q /\ SameKey(k, l)
                            /\ ExpandData(Before(t, i), f, Num(i)) = ExpandData(Before(u, j), g, Num(j))
  <2>1. /\ IsString(ExpandData(Before(t, i), f, Num(i))) /\ IsString(ExpandData(Before(u, j), g, Num(j)))
        /\ t[i] = HmacSm3(k, ExpandData(Before(t, i), f, Num(i)))
        /\ u[j] = HmacSm3(l, ExpandData(Before(u, j), g, Num(j)))
    BY <1>1, <1>2
  <2> DEFINE d == ExpandData(Before(t, i), f, Num(i))
             e == ExpandData(Before(u, j), g, Num(j))
  <2> HIDE DEF d, e
  <2>2. HmacSm3(k, d)[p] = HmacSm3(l, e)[q] <=> p = q /\ SameKey(k, l) /\ d = e
    <3>1. IsString(d) /\ IsString(e)
      BY <2>1 DEF d, e
    <3> QED
      BY ONLY <3>1, IsString(k), IsString(l), MacsMeet DEF Meet
  <2> QED
    BY <2>1, <2>2 DEF d, e
<1>4. ASSUME ExpandData(Before(t, i), f, Num(i)) = ExpandData(Before(u, j), g, Num(j)) PROVE i = j /\ f = g
  <2>1. i \in 0..255 /\ j \in 0..255
    OBVIOUS
  <2>2. /\ IsString(Before(t, i)) /\ Len(Before(t, i)) = IF i = 1 THEN 0 ELSE DigestLen
        /\ IsString(Before(u, j)) /\ Len(Before(u, j)) = IF j = 1 THEN 0 ELSE DigestLen
    BY <1>1, <1>2
  <2>3. Num(i) = Num(j) /\ (Len(Before(t, i)) = Len(Before(u, j)) => f = g)
    <3>1. IsString(Before(t, i)) /\ IsString(Before(u, j))
      BY <2>2
    <3> DEFINE a == Before(t, i)
               b == Before(u, j)
               x == Num(i)
               y == Num(j)
    <3>2. ExpandData(a, f, x) = ExpandData(b, g, y) /\ IsString(a) /\ IsString(b)
      BY <1>4, <3>1
    <3> HIDE DEF a, b, x, y
    <3>3. x = y /\ (Len(a) = Len(b) => f = g)
      BY ONLY <3>2, IsString(f), IsString(g), PartsSame, SMTT(30)
    <3> QED
      BY ONLY <3>3 DEF a, b, x, y
  <2>4. i = j
    BY <2>1, <2>3, NumSame
  <2> QED
    BY <2>2, <2>3, <2>4
<1>5. ASSUME SameKey(k, l), f = g, i = j PROVE ExpandData(Before(t, i), f, Num(i)) = ExpandData(Before(u, j), g, Num(j))
  <2> DEFINE T == {a \in 0..(i - 1) : a = 0 \/ t[a] = u[a]}
  <2>1. 0 \in T
    OBVIOUS
  <2>2. ASSUME NEW a \in 0..(i - 2), a \in T PROVE a + 1 \in T
    <3>1. a + 1 \in 1..n /\ a + 1 \in 1..m /\ a + 1 \in 0..(i - 1) /\ (a + 1) - 1 = a
      BY <1>5
    <3>2. Before(t, a + 1) = Before(u, a + 1)
      BY <2>2, <3>1 DEF Before
    <3>3. /\ IsString(ExpandData(Before(t, a + 1), f, Num(a + 1)))
          /\ t[a + 1] = HmacSm3(k, ExpandData(Before(t, a + 1), f, Num(a + 1)))
          /\ u[a + 1] = HmacSm3(l, ExpandData(Before(t, a + 1), f, Num(a + 1)))
      BY <1>1, <1>2, <1>5, <3>1, <3>2, Zenon
    <3>4. t[a + 1] = u[a + 1]
      BY ONLY <1>5, <3>3, IsString(k), IsString(l), HmacEqual, ZenonT(60)
    <3> QED
      BY <3>1, <3>4
  <2>3. i - 1 \in T
    <3> HIDE DEF T
    <3>1. i - 1 \in Nat /\ i - 1 \in 0..(i - 1) /\ (i - 1) - 1 = i - 2
      OBVIOUS
    <3> QED
      BY <2>1, <2>2, <3>1, UpTo
  <2>4. Before(t, i) = Before(u, j)
    BY <1>5, <2>3 DEF Before
  <2> QED
    BY <1>5, <2>4
<1> QED
  BY <1>3, <1>4, <1>5

-----------------------------------------------------------------------------
(* The KDF: each round is the digest of the two inputs with a number in    *)
(* between.                                                                *)

LEMMA CounterIs ==
  ASSUME NEW i
  PROVE  IsString(Counter(i)) /\ Len(Counter(i)) = 1 /\ Counter(i)[1] = {<< "ct", i >>}
BY One DEF Counter

LEMMA CounterSame ==
  ASSUME NEW i, NEW j, Counter(i) = Counter(j)
  PROVE  i = j
<1>1. {<< "ct", i >>} = {<< "ct", j >>}
  BY CounterIs
<1>2. << "ct", i >> = << "ct", j >>
  BY <1>1
<1> QED
  BY <1>2

IsCounted(t, n, z, info) == t = [i \in 1..n |-> Sm3(z \o Counter(i) \o info)]

LEMMA CountedSame ==
  ASSUME NEW n \in Nat, NEW m \in Nat, NEW z, NEW w, NEW f, NEW g, NEW t, NEW u,
         IsString(z), IsString(w), IsString(f), IsString(g), Len(z) = Len(w),
         IsCounted(t, n, z, f), IsCounted(u, m, w, g),
         NEW i \in 1..n, NEW j \in 1..m, NEW p \in 1..DigestLen, NEW q \in 1..DigestLen
  PROVE  t[i][p] = u[j][q] <=> i = j /\ p = q /\ z = w /\ f = g
<1> DEFINE a == z \o Counter(i)
           b == w \o Counter(j)
<1>1. t[i] = Sm3(a \o f) /\ u[j] = Sm3(b \o g)
  BY DEF IsCounted
<1>2. t[i][p] = u[j][q] <=> p = q /\ a \o f = b \o g
  <2> DEFINE x == a \o f
             y == b \o g
  <2>1. t[i] = Sm3(x) /\ u[j] = Sm3(y)
    BY <1>1
  <2> HIDE DEF a, b, x, y
  <2>2. Sm3(x)[p] = Sm3(y)[q] <=> x = y /\ p = q
    BY ONLY p \in 1..DigestLen, q \in 1..DigestLen, DigestSame
  <2>3. t[i][p] = u[j][q] <=> p = q /\ x = y
    BY <2>1, <2>2, Zenon
  <2> QED
    BY <2>3 DEF x, y
<1>3. /\ IsString(a) /\ IsString(b) /\ Len(a) = Len(b)
      /\ IsString(Counter(i)) /\ IsString(Counter(j))
  BY CounterIs, Joined, SMTT(30)
<1>4. ASSUME a \o f = b \o g PROVE i = j /\ z = w /\ f = g
  <2> HIDE DEF a, b
  <2>1. a = b /\ f = g
    <3>1. IsString(a) /\ IsString(b) /\ Len(a) = Len(b)
      BY <1>3
    <3> QED
      BY ONLY <3>1, <1>4, IsString(f), IsString(g), SplitSame, ZenonT(60)
  <2>2. z \o Counter(i) = w \o Counter(j)
    BY <2>1 DEF a, b
  <2> DEFINE x == Counter(i)
             y == Counter(j)
  <2>3. IsString(x) /\ IsString(y) /\ z \o x = w \o y
    BY <1>3, <2>2
  <2> HIDE DEF x, y
  <2>4. z = w /\ x = y
    BY ONLY <2>3, IsString(z), IsString(w), Len(z) = Len(w), SplitSame, ZenonT(60)
  <2> QED
    BY <2>1, <2>4, CounterSame DEF x, y
<1> QED
  BY <1>2, <1>4

-----------------------------------------------------------------------------
(* PBKDF2: U_1 is a MAC of the salt and the number of the block, each      *)
(* further one of the one before. No two of them are alike, so that none   *)
(* cancels another in their XOR.                                           *)

First(salt, i) == salt \o Counter(i)

LEMMA FirstIs ==
  ASSUME NEW salt, IsString(salt), NEW i
  PROVE  /\ IsString(First(salt, i)) /\ Len(First(salt, i)) = Len(salt) + 1
         /\ Len(salt) \in Nat /\ First(salt, i)[Len(salt) + 1] = {<< "ct", i >>}
<1>1. /\ IsString(Counter(i)) /\ Len(Counter(i)) = 1 /\ Counter(i)[1] = {<< "ct", i >>}
      /\ Len(salt) \in Nat
  BY CounterIs, StringProperties
<1>2. /\ IsString(salt \o Counter(i)) /\ Len(salt \o Counter(i)) = Len(salt) + 1
      /\ \A a \in 1..(Len(salt) + 1) :
           (salt \o Counter(i))[a] = IF a <= Len(salt) THEN salt[a] ELSE Counter(i)[a - Len(salt)]
  BY <1>1, Joined
<1>3. Len(salt) + 1 \in 1..(Len(salt) + 1) /\ ~(Len(salt) + 1 <= Len(salt))
      /\ (Len(salt) + 1) - Len(salt) = 1
  BY <1>1
<1>4. (salt \o Counter(i))[Len(salt) + 1] = Counter(i)[1]
  BY <1>2, <1>3
<1> QED
  BY <1>1, <1>2, <1>4 DEF First

(* What U_c is a MAC of.                                                   *)
Input(t, first, c) == IF c = 1 THEN first ELSE t[c - 1]

LEMMA ChainIs ==
  ASSUME NEW n \in Nat, NEW password, NEW first, NEW t,
         IsString(first), IsChain(t, n, password, first)
  PROVE  \A c \in 1..n :
           /\ IsString(Input(t, first, c))
           /\ t[c] = HmacSm3(password, Input(t, first, c))
           /\ IsString(t[c]) /\ Len(t[c]) = DigestLen
<1>1. \A c \in 1..n : t[c] = HmacSm3(password, Input(t, first, c))
  BY DEF IsChain, Input
<1>2. \A c \in 1..n : IsString(t[c]) /\ Len(t[c]) = DigestLen
  BY <1>1, HmacIs
<1>3. ASSUME NEW c \in 1..n PROVE IsString(Input(t, first, c))
  <2>1. CASE c = 1
    BY <2>1 DEF Input
  <2>2. CASE c # 1
    <3>1. c - 1 \in 1..n
      BY <2>2
    <3> QED
      BY <1>2, <2>2, <3>1 DEF Input
  <2> QED
    BY <2>1, <2>2
<1> QED
  BY <1>1, <1>2, <1>3

LEMMA FirstIsNoMac ==
  ASSUME NEW salt, IsString(salt), NEW i, NEW k, NEW d
  PROVE  First(salt, i) # HmacSm3(k, d)
<1> SUFFICES ASSUME First(salt, i) = HmacSm3(k, d) PROVE FALSE
  OBVIOUS
<1> DEFINE x == Outer(k, d)
<1>1. /\ HmacSm3(k, d) = Sm3(x) /\ Len(Sm3(x)) = DigestLen
      /\ Sm3(x)[DigestLen] = {<< "sm3", x, DigestLen >>}
  BY HmacIs, DigestIs, SizesAre
<1>2. Len(First(salt, i)) = Len(salt) + 1 /\ First(salt, i)[Len(salt) + 1] = {<< "ct", i >>}
  BY FirstIs
<1> HIDE DEF x
<1>3. {<< "sm3", x, DigestLen >>} = {<< "ct", i >>}
  BY <1>1, <1>2
<1>4. << "sm3", x, DigestLen >> = << "ct", i >>
  BY <1>3
<1>5. << "sm3", x, DigestLen >>[1] = "sm3" /\ << "ct", i >>[1] = "ct"
  OBVIOUS
<1> QED
  BY <1>4, <1>5

(* A chain of MACs never comes back to where it was: the first input ends  *)
(* in a number, which no byte of a digest is.                              *)
LEMMA InputsDiffer ==
  ASSUME NEW n \in Nat, NEW password, NEW salt, NEW i, NEW t,
         IsString(password), IsString(salt), IsChain(t, n, password, First(salt, i)),
         NEW c \in 1..n, NEW e \in 1..n, c < e
  PROVE  Input(t, First(salt, i), c) # Input(t, First(salt, i), e)
<1> DEFINE first == First(salt, i)
           in(a) == Input(t, first, a)
           T == {k \in 0..n : k = 0 \/ \A a \in 1..n : k < a => in(k) # in(a)}
<1>1. IsString(first)
  BY FirstIs
<1>2. \A a \in 1..n : IsString(in(a)) /\ t[a] = HmacSm3(password, in(a))
  BY <1>1, ChainIs
<1>3. in(1) = first /\ \A a \in 1..n : a # 1 => in(a) = t[a - 1]
  BY DEF Input
<1>4. \A k, d : first # HmacSm3(k, d)
  BY FirstIsNoMac
<1> HIDE DEF first, in
<1>5. 0 \in T
  OBVIOUS
<1>6. ASSUME NEW k \in 0..(n - 1), k \in T PROVE k + 1 \in T
  <2>1. k + 1 \in 0..n /\ k + 1 \in 1..n /\ (k + 1) - 1 = k /\ n \in Nat
    OBVIOUS
  <2>2. ASSUME NEW a \in 1..n, k + 1 < a PROVE in(k + 1) # in(a)
    <3>1. a - 1 \in 1..n /\ a # 1 /\ k < a - 1
      BY <2>2
    <3>2. in(a) = HmacSm3(password, in(a - 1))
      BY <1>2, <1>3, <3>1
    <3>3. CASE k = 0
      BY <1>3, <1>4, <3>2, <3>3
    <3>4. CASE k # 0
      <4>1. k \in 1..n /\ k + 1 # 1
        BY <3>4
      <4>2. in(k + 1) = HmacSm3(password, in(k))
        BY <1>2, <1>3, <2>1, <4>1
      <4>3. in(k) # in(a - 1)
        BY <1>6, <3>1, <3>4
      <4> DEFINE x == in(k)
                 y == in(a - 1)
      <4>4. IsString(x) /\ IsString(y)
        BY <1>2, <3>1, <4>1
      <4> HIDE DEF x, y
      <4>5. HmacSm3(password, x)[1] = HmacSm3(password, y)[1] => x = y
        BY <4>4, HmacSame, SizesAre
      <4> QED
        BY <3>2, <4>2, <4>3, <4>5 DEF x, y
    <3> QED
      BY <3>3, <3>4
  <2> QED
    BY <2>1, <2>2
<1>8. 0..n \subseteq T
  <2> HIDE DEF T
  <2> QED
    BY <1>5, <1>6, UpTo
<1>9. c \in T
  BY <1>8
<1> QED
  BY <1>9 DEF first, in

(* The sum of digests of different strings holds each of them.             *)
Sums(src, k) == [p \in 1..DigestLen |-> {<< "sm3", src[c], p >> : c \in 1..k}]

LEMMA XorIs ==
  ASSUME NEW x, NEW y, IsString(x), IsString(y), Len(x) = DigestLen, Len(y) = DigestLen
  PROVE  Xor(x, y) = [p \in 1..DigestLen |-> SymDiff(x[p], y[p])]
<1> DEFINE f == [p \in 1..DigestLen |-> SymDiff(x[p], y[p])]
<1>1. DigestLen \in Nat
  BY SizesAre
<1>2. Min({Len(x), Len(y)}) = DigestLen
  BY <1>1, MinOfTwo
<1>3. Xor(x, y) = SubSeq(f, 1, DigestLen)
  BY <1>2 DEF Xor, Bytes
<1>4. f = [p \in 1..DigestLen |-> f[p]]
  OBVIOUS
<1> HIDE DEF f
<1>5. IsString(f) /\ Len(f) = DigestLen
  BY <1>1, <1>4, MadeString
<1>6. SubSeq(f, 1, DigestLen) = f
  BY <1>5, SubSeqFull DEF IsString
<1> QED
  BY <1>3, <1>6 DEF f

LEMMA SumsIs ==
  ASSUME NEW src, NEW k
  PROVE  /\ IsString(Sums(src, k)) /\ Len(Sums(src, k)) = DigestLen
         /\ \A p \in 1..DigestLen : Sums(src, k)[p] = {<< "sm3", src[c], p >> : c \in 1..k}
<1>1. Sums(src, k) = [p \in 1..DigestLen |-> Sums(src, k)[p]]
  BY DEF Sums
<1>2. DigestLen \in Nat
  BY SizesAre
<1>3. IsString(Sums(src, k)) /\ Len(Sums(src, k)) = DigestLen
  BY <1>1, <1>2, MadeString
<1> QED
  BY <1>3 DEF Sums

LEMMA SumsNext ==
  ASSUME NEW n \in Nat, NEW src, NEW k \in 1..(n - 1), \A c \in 1..k : src[c] # src[k + 1]
  PROVE  Xor(Sums(src, k), Sm3(src[k + 1])) = Sums(src, k + 1)
<1> DEFINE s == Sums(src, k)
           d == Sm3(src[k + 1])
<1>1. IsString(s) /\ Len(s) = DigestLen /\ IsString(d) /\ Len(d) = DigestLen
  BY SumsIs, DigestIs
<1>2. Xor(s, d) = [p \in 1..DigestLen |-> SymDiff(s[p], d[p])]
  <2> HIDE DEF s, d
  <2> QED
    BY <1>1, XorIs
<1>3. ASSUME NEW p \in 1..DigestLen
      PROVE  SymDiff(s[p], d[p]) = {<< "sm3", src[c], p >> : c \in 1..(k + 1)}
  <2>1. s[p] = {<< "sm3", src[c], p >> : c \in 1..k} /\ d[p] = {<< "sm3", src[k + 1], p >>}
    BY SumsIs, DigestIs
  <2>2. << "sm3", src[k + 1], p >> \notin s[p]
    <3> SUFFICES ASSUME NEW c \in 1..k, << "sm3", src[k + 1], p >> = << "sm3", src[c], p >>
                 PROVE  FALSE
      BY <2>1
    <3>1. src[k + 1] = src[c]
      OBVIOUS
    <3> QED
      BY <3>1
  <2>3. SymDiff(s[p], d[p]) = s[p] \cup d[p]
    BY <2>1, <2>2 DEF SymDiff
  <2>4. 1..(k + 1) = 1..k \cup {k + 1}
    OBVIOUS
  <2> HIDE DEF s, d
  <2> QED
    BY <2>1, <2>3, <2>4
<1> HIDE DEF s, d
<1>4. [p \in 1..DigestLen |-> SymDiff(s[p], d[p])] = Sums(src, k + 1)
  BY <1>3 DEF Sums
<1> QED
  BY <1>2, <1>4 DEF s, d

LEMMA XorFold ==
  ASSUME NEW n \in Nat \ {0}, NEW src, NEW t, t = [c \in 1..n |-> Sm3(src[c])],
         \A c \in 1..n, e \in 1..n : c < e => src[c] # src[e]
  PROVE  FoldLeft(Xor, t[1], Tail(t)) = Sums(src, n)
<1> DEFINE P     == DOMAIN Tail(t)
           A     == UNION {{<< "sm3", src[c], p >> : c \in 1..n} : p \in 1..DigestLen}
           V     == [1..DigestLen -> SUBSET A]
           step  == [j \in 1..(n - 1) |-> [x \in V |-> Xor(x, t[j + 1])]]
           IsFold(f) == f = [s \in SUBSET P |->
                               IF s = {} THEN t[1] ELSE Xor(f[s \ {Max(s)}], Tail(t)[Max(s)])]
           f     == CHOOSE f : IsFold(f)
<1>1. t \in Seq(Range(t)) /\ Len(t) = n /\ t # << >>
  <2>1. t = [c \in 1..n |-> t[c]]
    OBVIOUS
  <2>2. IsString(t) /\ Len(t) = n
    BY <2>1, MadeString
  <2> QED
    BY <2>2, Empty DEF IsString
<1>2. n - 1 \in Nat /\ P = 1..(n - 1) /\ \A j \in 1..(n - 1) : Tail(t)[j] = t[j + 1]
  <2>1. Tail(t) \in Seq(Range(t)) /\ Len(Tail(t)) = n - 1
        /\ \A j \in 1..(n - 1) : Tail(t)[j] = t[j + 1]
    BY <1>1, HeadTailProperties
  <2>2. DOMAIN Tail(t) = 1..(n - 1)
    BY <2>1, LenProperties
  <2> QED
    BY <2>1, <2>2
<1>3. \A c \in 1..n : /\ t[c] = Sm3(src[c]) /\ IsString(t[c]) /\ Len(t[c]) = DigestLen
                      /\ \A p \in 1..DigestLen : t[c][p] = {<< "sm3", src[c], p >>}
  BY DigestIs
<1>4. ASSUME NEW x \in V, NEW c \in 1..n PROVE Xor(x, t[c]) \in V
  <2>1. IsString(x) /\ Len(x) = DigestLen
    BY SizesAre, MadeString
  <2>2. Xor(x, t[c]) = [p \in 1..DigestLen |-> SymDiff(x[p], t[c][p])]
    BY <1>3, <2>1, XorIs
  <2>3. \A p \in 1..DigestLen : x[p] \subseteq A /\ t[c][p] \subseteq A
    BY <1>3
  <2>4. \A p \in 1..DigestLen : SymDiff(x[p], t[c][p]) \in SUBSET A
    BY <2>3 DEF SymDiff
  <2> HIDE DEF A
  <2> QED
    BY <2>2, <2>4
<1>5. t[1] \in V /\ t[1] = Sums(src, 1)
  <2>1. 1 \in 1..n /\ 1..1 = {1}
    OBVIOUS
  <2>2. t[1] = [p \in 1..DigestLen |-> t[1][p]]
    BY <1>3, <2>1, LenProperties, SameString, MadeString DEF IsString
  <2>3. \A p \in 1..DigestLen : t[1][p] = {<< "sm3", src[c], p >> : c \in 1..1}
    BY <1>3, <2>1
  <2>4. \A p \in 1..DigestLen : t[1][p] \in SUBSET A
    BY <1>3, <2>1
  <2> HIDE DEF A
  <2>5. t[1] \in V
    BY <2>2, <2>4
  <2>6. Sums(src, 1) = [p \in 1..DigestLen |-> t[1][p]]
    BY <2>3 DEF Sums
  <2> QED
    BY <2>2, <2>5, <2>6, Zenon
<1> HIDE DEF P, A, V
<1>6. step \in [1..(n - 1) -> [V -> V]] /\ \A j \in 1..(n - 1), x \in V : step[j][x] = Xor(x, t[j + 1])
  <2>1. \A j \in 1..(n - 1) : j + 1 \in 1..n
    OBVIOUS
  <2>2. \A j \in 1..(n - 1), x \in V : Xor(x, t[j + 1]) \in V
    BY <1>4, <2>1
  <2> QED
    BY <2>2
<1> HIDE DEF step
<1>7. PICK g : Folds(g, V, t[1], n - 1, step)
  BY <1>2, <1>5, <1>6, FoldExists
<1>8. /\ g \in [SUBSET (1..(n - 1)) -> V]
      /\ \A s \in SUBSET (1..(n - 1)) :
           g[s] = IF s = {} THEN t[1] ELSE step[Max(s)][g[s \ {Max(s)}]]
  BY <1>7 DEF Folds
<1>9. ASSUME NEW s \in SUBSET P
      PROVE  g[s] = IF s = {} THEN t[1] ELSE Xor(g[s \ {Max(s)}], Tail(t)[Max(s)])
  <2>1. CASE s = {}
    BY <1>2, <1>8, <2>1
  <2>2. CASE s # {}
    <3>1. Max(s) \in 1..(n - 1)
      BY <1>2, <2>2, MaxGreatest
    <3>2. s \ {Max(s)} \in SUBSET (1..(n - 1))
      BY <1>2
    <3>3. g[s \ {Max(s)}] \in V
      BY <1>8, <3>2
    <3>4. g[s] = step[Max(s)][g[s \ {Max(s)}]]
      BY <1>2, <1>8, <2>2
    <3>5. step[Max(s)][g[s \ {Max(s)}]] = Xor(g[s \ {Max(s)}], t[Max(s) + 1])
      BY <1>6, <3>1, <3>3
    <3>6. Tail(t)[Max(s)] = t[Max(s) + 1]
      BY <1>2, <3>1
    <3> QED
      BY <2>2, <3>4, <3>5, <3>6, Zenon
  <2> QED
    BY <2>1, <2>2
<1>10. IsFold(g)
  BY <1>2, <1>8, <1>9
<1>11. IsFold(f)
  <2> HIDE DEF IsFold
  <2> QED
    BY <1>10, Zenon
<1>12. FoldLeft(Xor, t[1], Tail(t)) = f[P]
  BY DEF FoldLeft, MapThenFoldSet, P
<1> HIDE DEF f
<1>13. \A s \in SUBSET P :
         f[s] = IF s = {} THEN t[1] ELSE Xor(f[s \ {Max(s)}], Tail(t)[Max(s)])
  BY <1>11
<1> DEFINE T == {k \in 0..(n - 1) : f[1..k] = Sums(src, k + 1)}
<1>14. 0 \in T
  <2>1. 1..0 = {} /\ 0 \in 0..(n - 1) /\ 0 + 1 = 1
    BY <1>2
  <2> QED
    BY <1>5, <1>13, <2>1
<1>15. ASSUME NEW k \in 0..((n - 1) - 1), k \in T PROVE k + 1 \in T
  <2>1. /\ k + 1 \in 1..(n - 1) /\ 1..(k + 1) \in SUBSET P /\ 1..(k + 1) # {}
        /\ Max(1..(k + 1)) = k + 1 /\ (1..(k + 1)) \ {k + 1} = 1..k
    BY <1>2, FirstPlaces
  <2>2. k + 1 \in 0..(n - 1) /\ (k + 1) + 1 \in 1..n
    BY <1>2
  <2>3. f[1..(k + 1)] = Xor(f[1..k], Tail(t)[k + 1])
    BY <1>13, <2>1
  <2>4. f[1..(k + 1)] = Xor(Sums(src, k + 1), Sm3(src[(k + 1) + 1]))
    BY <1>2, <1>3, <1>15, <2>1, <2>2, <2>3
  <2>5. \A c \in 1..(k + 1) : src[c] # src[(k + 1) + 1]
    BY <2>2
  <2>6. Xor(Sums(src, k + 1), Sm3(src[(k + 1) + 1])) = Sums(src, (k + 1) + 1)
    BY <2>1, <2>5, SumsNext
  <2> QED
    BY <2>2, <2>4, <2>6
<1> HIDE DEF T
<1>16. n - 1 \in T
  <2>1. n - 1 \in 0..(n - 1)
    BY <1>2
  <2> QED
    BY <1>2, <1>14, <1>15, <2>1, UpTo
<1>17. (n - 1) + 1 = n
  OBVIOUS
<1> QED
  BY <1>2, <1>12, <1>16, <1>17 DEF T

(* What is hashed, last, for each U_c.                                     *)
Sources(t, n, password, first) == [c \in 1..n |-> Outer(password, Input(t, first, c))]

LEMMA SourcesDiffer ==
  ASSUME NEW n \in Nat, NEW password, NEW salt, NEW i, NEW t,
         IsString(password), IsString(salt), IsChain(t, n, password, First(salt, i)),
         NEW c \in 1..n, NEW e \in 1..n, c < e
  PROVE  Sources(t, n, password, First(salt, i))[c] # Sources(t, n, password, First(salt, i))[e]
<1> DEFINE x == Input(t, First(salt, i), c)
           y == Input(t, First(salt, i), e)
<1>1. x # y
  BY InputsDiffer
<1>2. IsString(x) /\ IsString(y)
  BY FirstIs, ChainIs
<1>3. /\ Sources(t, n, password, First(salt, i))[c] = Outer(password, x)
      /\ Sources(t, n, password, First(salt, i))[e] = Outer(password, y)
  BY DEF Sources
<1> HIDE DEF x, y
<1>4. Outer(password, x) = Outer(password, y) => x = y
  BY <1>2, OuterSame
<1> QED
  BY <1>1, <1>3, <1>4

LEMMA BlockIs ==
  ASSUME NEW n \in Nat \ {0}, NEW password, NEW salt, NEW i,
         IsString(password), IsString(salt)
  PROVE  \E t : /\ IsChain(t, n, password, First(CutTo(salt, SaltMax), i))
                /\ Pbkdf2Block(password, salt, n, i)
                     = Sums(Sources(t, n, password, First(CutTo(salt, SaltMax), i)), n)
<1> DEFINE cut   == CutTo(salt, SaltMax)
           first == First(cut, i)
           Is(t) == t = [c \in 1..n |->
                           HmacSm3(password, IF c = 1 THEN cut \o Counter(i)
                                             ELSE IF c = 1 THEN << >> ELSE t[c - 1])]
           t     == CHOOSE t : Is(t)
<1>1. IsString(cut)
  BY CutIs, DeriveAssumption
<1> HIDE DEF cut
<1>2. \A u : IsChain(u, n, password, first) <=> Is(u)
  <2> SUFFICES ASSUME NEW u PROVE IsChain(u, n, password, first) <=> Is(u)
    OBVIOUS
  <2>1. \A c \in 1..n : HmacSm3(password, IF c = 1 THEN first ELSE u[c - 1])
                          = HmacSm3(password, IF c = 1 THEN cut \o Counter(i)
                                              ELSE IF c = 1 THEN << >> ELSE u[c - 1])
    BY DEF First
  <2>2. [c \in 1..n |-> HmacSm3(password, IF c = 1 THEN first ELSE u[c - 1])]
          = [c \in 1..n |-> HmacSm3(password, IF c = 1 THEN cut \o Counter(i)
                                              ELSE IF c = 1 THEN << >> ELSE u[c - 1])]
    BY <2>1, Zenon
  <2> QED
    BY <2>2 DEF IsChain
<1>3. Is(t)
  <2>1. PICK u : IsChain(u, n, password, first)
    BY ChainExists
  <2>2. Is(u)
    BY <1>2, <2>1
  <2> HIDE DEF Is
  <2> QED
    BY <2>2, Zenon
<1>4. Pbkdf2Block(password, salt, n, i) = FoldLeft(Xor, t[1], Tail(t))
  BY DEF Pbkdf2Block, InRounds, cut
<1>5. IsChain(t, n, password, first)
  <2> HIDE DEF Is, t
  <2> QED
    BY <1>2, <1>3
<1> HIDE DEF Is, t
<1> DEFINE src == Sources(t, n, password, first)
<1>6. \A c \in 1..n, e \in 1..n : c < e => src[c] # src[e]
  BY <1>1, <1>5, SourcesDiffer
<1>7. t = [c \in 1..n |-> Sm3(src[c])]
  <2>1. \A c \in 1..n : t[c] = HmacSm3(password, Input(t, first, c))
    BY <1>5 DEF IsChain, Input
  <2>2. \A c \in 1..n : t[c] = Sm3(src[c])
    BY <2>1, HmacIs DEF Sources
  <2>3. t = [c \in 1..n |-> t[c]]
    BY <1>5 DEF IsChain
  <2> HIDE DEF src
  <2> QED
    BY <2>2, <2>3
<1>8. FoldLeft(Xor, t[1], Tail(t)) = Sums(src, n)
  <2> HIDE DEF src
  <2> QED
    BY <1>6, <1>7, XorFold
<1> QED
  BY <1>4, <1>5, <1>8 DEF cut

(* Chains from one start, under keys that mean the same, are one chain.    *)
LEMMA SourcesSame ==
  ASSUME NEW n \in Nat, NEW m \in Nat, NEW k, NEW l, NEW first, NEW t, NEW u,
         IsString(k), IsString(l), IsString(first), SameKey(k, l),
         IsChain(t, n, k, first), IsChain(u, m, l, first)
  PROVE  \A c \in 1..n : c <= m => Sources(t, n, k, first)[c] = Sources(u, m, l, first)[c]
<1> DEFINE in(a)  == Input(t, first, a)
           inn(a) == Input(u, first, a)
           T == {c \in 0..n : c = 0 \/ c > m \/ in(c) = inn(c)}
<1>1. \A c \in 1..n : IsString(in(c)) /\ t[c] = HmacSm3(k, in(c))
  BY ChainIs
<1>2. \A c \in 1..m : IsString(inn(c)) /\ u[c] = HmacSm3(l, inn(c))
  BY ChainIs
<1>3. /\ in(1) = first /\ \A c \in 1..n : c # 1 => in(c) = t[c - 1]
      /\ inn(1) = first /\ \A c \in 1..m : c # 1 => inn(c) = u[c - 1]
  BY DEF Input
<1> HIDE DEF in, inn
<1>4. 0 \in T
  OBVIOUS
<1>5. ASSUME NEW c \in 0..(n - 1), c \in T PROVE c + 1 \in T
  <2>1. c + 1 \in 0..n /\ c + 1 \in 1..n /\ (c + 1) - 1 = c
    OBVIOUS
  <2>2. CASE c = 0
    BY <1>3, <2>1, <2>2
  <2>3. CASE c + 1 > m
    BY <2>1, <2>3
  <2>4. CASE c # 0 /\ ~(c + 1 > m)
    <3>1. c \in 1..n /\ c \in 1..m /\ c + 1 \in 1..m /\ c + 1 # 1 /\ ~(c > m)
      BY <2>4
    <3>2. in(c) = inn(c) /\ IsString(in(c))
      BY <1>1, <1>5, <2>4, <3>1
    <3>3. t[c] = HmacSm3(k, in(c)) /\ u[c] = HmacSm3(l, in(c))
      BY <1>1, <1>2, <3>1, <3>2
    <3>4. t[c] = u[c]
      BY ONLY <3>2, <3>3, IsString(k), IsString(l), SameKey(k, l), HmacEqual, ZenonT(60)
    <3>5. in(c + 1) = inn(c + 1)
      BY <1>3, <2>1, <3>1, <3>4
    <3> QED
      BY <2>1, <3>5
  <2> QED
    BY <2>2, <2>3, <2>4
<1>6. 0..n \subseteq T
  <2> HIDE DEF T
  <2> QED
    BY <1>4, <1>5, UpTo
<1>7. ASSUME NEW c \in 1..n, c <= m
      PROVE  Sources(t, n, k, first)[c] = Sources(u, m, l, first)[c]
  <2>1. c \in T /\ c \in 1..m
    BY <1>6, <1>7
  <2>2. in(c) = inn(c) /\ IsString(in(c))
    BY <1>1, <1>7, <2>1
  <2>3. Sources(t, n, k, first)[c] = Outer(k, in(c))
    BY DEF Sources, in
  <2>4. Sources(u, m, l, first)[c] = Outer(l, inn(c))
    BY <2>1 DEF Sources, inn
  <2>5. Outer(k, in(c)) = Outer(l, in(c))
    BY <2>2, OuterSame
  <2> QED
    BY <2>2, <2>3, <2>4, <2>5, Zenon
<1> QED
  BY <1>7

LEMMA NotLonger ==
  ASSUME NEW n \in Nat, NEW m \in Nat, NEW k, NEW l, NEW salt, NEW i, NEW t, NEW u,
         IsString(k), IsString(l), IsString(salt), SameKey(k, l),
         IsChain(t, n, k, First(salt, i)), IsChain(u, m, l, First(salt, i)),
         \A c \in 1..n : \E e \in 1..m : Sources(t, n, k, First(salt, i))[c]
                                           = Sources(u, m, l, First(salt, i))[e]
  PROVE  n <= m
<1> SUFFICES ASSUME n > m PROVE FALSE
  OBVIOUS
<1> DEFINE x == Sources(t, n, k, First(salt, i))
           y == Sources(u, m, l, First(salt, i))
<1>1. \A c \in 1..n : c <= m => x[c] = y[c]
  BY FirstIs, SourcesSame
<1>2. \A c \in 1..n, e \in 1..n : c < e => x[c] # x[e]
  BY SourcesDiffer
<1>3. \A c \in 1..n : \E e \in 1..m : x[c] = y[e]
  OBVIOUS
<1> HIDE DEF x, y
<1>4. m + 1 \in 1..n
  OBVIOUS
<1>5. PICK e \in 1..m : x[m + 1] = y[e]
  BY <1>3, <1>4
<1>6. e \in 1..n /\ e <= m /\ e < m + 1
  OBVIOUS
<1> QED
  BY <1>1, <1>2, <1>4, <1>5, <1>6

LEMMA FirstSame ==
  ASSUME NEW a, NEW b, NEW i, NEW j, IsString(a), IsString(b), First(a, i) = First(b, j)
  PROVE  a = b /\ i = j
<1> DEFINE x == Counter(i)
           y == Counter(j)
<1>1. IsString(x) /\ IsString(y) /\ Len(x) = Len(y)
  BY CounterIs
<1>2. a \o x = b \o y
  BY DEF First
<1> HIDE DEF x, y
<1>3. a = b /\ x = y
  BY ONLY <1>1, <1>2, IsString(a), IsString(b), SplitSame, ZenonT(60)
<1> QED
  BY <1>3, CounterSame DEF x, y

(* Two blocks have a byte in common only where they are made of the same.  *)
BlockPair(n, m, k, l, a, b, i, j, t, u) ==
  /\ n \in Nat \ {0} /\ m \in Nat \ {0}
  /\ IsString(k) /\ IsString(l) /\ IsString(a) /\ IsString(b)
  /\ IsChain(t, n, k, First(a, i)) /\ IsChain(u, m, l, First(b, j))
BlocksMeet(n, m, k, l, a, b, i, j, v, w) ==
  \A p, q \in 1..DigestLen :
    v[p] = w[q] <=> i = j /\ p = q /\ n = m /\ SameKey(k, l) /\ a = b

LEMMA BlocksSame ==
  ASSUME NEW n, NEW m, NEW k, NEW l, NEW a, NEW b, NEW i, NEW j, NEW t, NEW u,
         BlockPair(n, m, k, l, a, b, i, j, t, u)
  PROVE  BlocksMeet(n, m, k, l, a, b, i, j, Sums(Sources(t, n, k, First(a, i)), n),
                    Sums(Sources(u, m, l, First(b, j)), m))
<1> SUFFICES ASSUME NEW p \in 1..DigestLen, NEW q \in 1..DigestLen
             PROVE  Sums(Sources(t, n, k, First(a, i)), n)[p] = Sums(Sources(u, m, l, First(b, j)), m)[q]
                      <=> i = j /\ p = q /\ n = m /\ SameKey(k, l) /\ a = b
  BY DEF BlocksMeet
<1> n \in Nat \ {0} /\ m \in Nat \ {0}
  BY DEF BlockPair
<1> IsString(k) /\ IsString(l)
  BY DEF BlockPair
<1> IsString(a) /\ IsString(b)
  BY DEF BlockPair
<1> IsChain(t, n, k, First(a, i)) /\ IsChain(u, m, l, First(b, j))
  BY DEF BlockPair
<1> DEFINE x == Sources(t, n, k, First(a, i))
           y == Sources(u, m, l, First(b, j))
<1>0. n \in Nat /\ m \in Nat /\ 1 \in 1..n /\ 1 \in 1..m
  OBVIOUS
<1>1. IsString(First(a, i)) /\ IsString(First(b, j))
  BY FirstIs
<1>2. \A c \in 1..n : /\ IsString(Input(t, First(a, i), c))
                      /\ x[c] = Outer(k, Input(t, First(a, i), c))
                      /\ t[c] = HmacSm3(k, Input(t, First(a, i), c))
  BY <1>0, <1>1, ChainIs DEF Sources
<1>3. \A c \in 1..m : /\ IsString(Input(u, First(b, j), c))
                      /\ y[c] = Outer(l, Input(u, First(b, j), c))
                      /\ u[c] = HmacSm3(l, Input(u, First(b, j), c))
  BY <1>0, <1>1, ChainIs DEF Sources
<1>4. /\ Sums(x, n)[p] = {<< "sm3", x[c], p >> : c \in 1..n}
      /\ Sums(y, m)[q] = {<< "sm3", y[e], q >> : e \in 1..m}
  <2> HIDE DEF x, y
  <2> QED
    BY DEF Sums
<1>5. ASSUME Sums(x, n)[p] = Sums(y, m)[q]
      PROVE  i = j /\ p = q /\ n = m /\ SameKey(k, l) /\ a = b
  <2> HIDE DEF x, y
  <2>1. \A c \in 1..n : \E e \in 1..m : x[c] = y[e] /\ p = q
    <3> SUFFICES ASSUME NEW c \in 1..n PROVE \E e \in 1..m : x[c] = y[e] /\ p = q
      OBVIOUS
    <3>1. << "sm3", x[c], p >> \in {<< "sm3", y[e], q >> : e \in 1..m}
      BY <1>4, <1>5
    <3>2. PICK e \in 1..m : << "sm3", x[c], p >> = << "sm3", y[e], q >>
      BY <3>1
    <3> QED
      BY <3>2
  <2>2. \A e \in 1..m : \E c \in 1..n : y[e] = x[c]
    <3> SUFFICES ASSUME NEW e \in 1..m PROVE \E c \in 1..n : y[e] = x[c]
      OBVIOUS
    <3>1. << "sm3", y[e], q >> \in {<< "sm3", x[c], p >> : c \in 1..n}
      BY <1>4, <1>5
    <3>2. PICK c \in 1..n : << "sm3", y[e], q >> = << "sm3", x[c], p >>
      BY <3>1
    <3> QED
      BY <3>2
  <2>3. PICK e \in 1..m : x[1] = y[e] /\ p = q
    BY <1>0, <2>1
  <2> DEFINE f == First(a, i)
             g == Input(u, First(b, j), e)
  <2>4. /\ IsString(f) /\ IsString(g) /\ x[1] = Outer(k, f) /\ y[e] = Outer(l, g)
    BY <1>0, <1>1, <1>2, <1>3 DEF Input
  <2>5. SameKey(k, l) /\ f = g
    <3>1. Outer(k, f) = Outer(l, g) /\ IsString(f) /\ IsString(g)
      BY <2>3, <2>4
    <3> HIDE DEF f, g
    <3> QED
      BY ONLY <3>1, IsString(k), IsString(l), OuterSame
  <2>6. e = 1
    <3> SUFFICES ASSUME e # 1 PROVE FALSE
      OBVIOUS
    <3>1. e - 1 \in 1..m
      OBVIOUS
    <3>2. g = u[e - 1]
      BY DEF Input
    <3>3. g = HmacSm3(l, Input(u, First(b, j), e - 1))
      BY <1>3, <3>1, <3>2
    <3> HIDE DEF g
    <3> QED
      BY <2>5, <3>3, FirstIsNoMac
  <2>7. First(a, i) = First(b, j)
    BY <2>5, <2>6 DEF Input
  <2>8. a = b /\ i = j
    BY <2>7, FirstSame
  <2>9. IsChain(u, m, l, First(a, i)) /\ y = Sources(u, m, l, First(a, i))
    BY <2>7 DEF y
  <2>10. n <= m
    <3>1. \A c \in 1..n : \E d \in 1..m : Sources(t, n, k, First(a, i))[c]
                                            = Sources(u, m, l, First(a, i))[d]
      BY <2>1, <2>9 DEF x
    <3> QED
      BY <1>0, <2>5, <2>9, <3>1, NotLonger
  <2>11. m <= n
    <3>1. \A c \in 1..m : \E d \in 1..n : Sources(u, m, l, First(a, i))[c]
                                            = Sources(t, n, k, First(a, i))[d]
      BY <2>2, <2>9 DEF x
    <3>2. SameKey(l, k)
      BY <2>5, SameKeyIs
    <3> QED
      BY <1>0, <2>9, <3>1, <3>2, NotLonger
  <2> QED
    BY <2>3, <2>5, <2>8, <2>10, <2>11
<1>6. ASSUME i = j, p = q, n = m, SameKey(k, l), a = b
      PROVE  Sums(x, n)[p] = Sums(y, m)[q]
  <2>1. \A c \in 1..n : x[c] = y[c]
    BY <1>0, <1>1, <1>6, SourcesSame
  <2> HIDE DEF x, y
  <2> QED
    BY <1>4, <1>6, <2>1
<1> QED
  BY <1>5, <1>6

-----------------------------------------------------------------------------
(* Rounds put together: where each byte comes from.                        *)

LEMMA PlaceExists ==
  ASSUME NEW n \in Nat, NEW a \in 1..(n * DigestLen)
  PROVE  \E i \in 1..n, p \in 1..DigestLen : a = (i - 1) * DigestLen + p
<1> DEFINE d == DigestLen
           q == (a - 1) \div d
           r == (a - 1) % d
<1>0. d \in Nat \ {0} /\ a - 1 \in Nat /\ n * d \in Nat /\ a - 1 < n * d
  BY SizesAre
<1> HIDE DEF d
<1>1. a - 1 = d * q + r /\ r \in 0..(d - 1) /\ q \in Nat
  BY <1>0
<1> HIDE DEF q, r
<1>2. q < n
  <2> SUFFICES ASSUME q >= n PROVE FALSE
    BY <1>1
  <2>1. d * q >= d * n
    BY <1>0, <1>1
  <2>2. d * n = n * d
    BY <1>0
  <2> QED
    BY <1>0, <1>1, <2>1, <2>2
<1>3. q + 1 \in 1..n /\ r + 1 \in 1..d
  BY <1>0, <1>1, <1>2
<1>4. a = ((q + 1) - 1) * d + (r + 1)
  <2>1. (q + 1) - 1 = q /\ q * d = d * q /\ d * q \in Nat
    BY <1>0, <1>1
  <2> QED
    BY <1>1, <2>1
<1> QED
  BY <1>3, <1>4 DEF d

LEMMA PlaceUnique ==
  ASSUME NEW i \in Nat, NEW j \in Nat, NEW p \in 1..DigestLen, NEW q \in 1..DigestLen,
         (i - 1) * DigestLen + p = (j - 1) * DigestLen + q
  PROVE  i = j /\ p = q
<1> DEFINE d == DigestLen
           x == i - 1
           y == j - 1
<1>0. d \in Nat \ {0} /\ x \in Int /\ y \in Int /\ x * d + p = y * d + q
  BY SizesAre
<1>1. p \in 1..d /\ q \in 1..d
  OBVIOUS
<1> HIDE DEF d, x, y
<1>2. ~(x < y)
  <2> SUFFICES ASSUME x < y PROVE FALSE
    OBVIOUS
  <2>1. x + 1 <= y
    BY <1>0
  <2>2. (x + 1) * d <= y * d
    BY <1>0, <2>1
  <2>3. (x + 1) * d = x * d + d
    BY <1>0
  <2> QED
    BY <1>0, <1>1, <2>2, <2>3
<1>3. ~(y < x)
  <2> SUFFICES ASSUME y < x PROVE FALSE
    OBVIOUS
  <2>1. y + 1 <= x
    BY <1>0
  <2>2. (y + 1) * d <= x * d
    BY <1>0, <2>1
  <2>3. (y + 1) * d = y * d + d
    BY <1>0
  <2> QED
    BY <1>0, <1>1, <2>2, <2>3
<1>4. x = y
  BY <1>0, <1>2, <1>3
<1>5. p = q
  BY <1>0, <1>1, <1>4
<1> QED
  BY <1>4, <1>5 DEF x, y

(* A list of n digests, and the string they are together.                  *)
AllDigests(t, n) ==
  t = [i \in 1..n |-> t[i]] /\ \A i \in 1..n : IsString(t[i]) /\ Len(t[i]) = DigestLen
Together(f, t, n) ==
  /\ IsString(f) /\ Len(f) = n * DigestLen
  /\ \A i \in 1..n, p \in 1..DigestLen : f[(i - 1) * DigestLen + p] = t[i][p]

LEMMA FlatIs ==
  ASSUME NEW n \in Nat, NEW t, AllDigests(t, n)
  PROVE  Together(FlattenSeq(t), t, n)
<1> DEFINE Is(f) == f = [i \in 1..n |-> IF i = 1 THEN t[i] ELSE f[i - 1] \o t[i]]
           f     == CHOOSE f : Is(f)
<1>0. t = [i \in 1..n |-> t[i]] /\ \A i \in 1..n : IsString(t[i]) /\ Len(t[i]) = DigestLen
  BY DEF AllDigests
<1>1. Len(t) = n /\ IsString(t)
  BY <1>0, MadeString
<1>2. CASE n = 0
  <2>1. FlattenSeq(t) = t
    BY <1>1, <1>2 DEF FlattenSeq
  <2>2. 0 * DigestLen = 0 /\ 1..0 = {}
    BY SizesAre
  <2> QED
    BY <1>1, <1>2, <2>1, <2>2 DEF Together
<1>3. CASE n # 0
  <2>1. FlattenSeq(t) = f[n]
    BY <1>1, <1>3 DEF FlattenSeq
  <2>2. Is(f)
    <3>1. PICK g : IsFlattened(g, n, t)
      BY FlattenedExists
    <3>2. Is(g)
      BY <3>1 DEF IsFlattened
    <3> HIDE DEF Is
    <3> QED
      BY <3>2, Zenon
  <2> HIDE DEF f
  <2>3. \A i \in 1..n : f[i] = IF i = 1 THEN t[i] ELSE f[i - 1] \o t[i]
    BY <2>2
  <2> HIDE DEF Is
  <2> DEFINE Good(k) == Together(f[k], t, k)
             T == {k \in 0..n : k = 0 \/ Good(k)}
  <2>4. 0 \in T
    OBVIOUS
  <2>5. ASSUME NEW k \in 0..(n - 1), k \in T PROVE k + 1 \in T
    <3>1. k + 1 \in 1..n /\ k + 1 \in 0..n /\ (k + 1) - 1 = k
      OBVIOUS
    <3>2. IsString(t[k + 1]) /\ Len(t[k + 1]) = DigestLen /\ DigestLen \in Nat
      BY <1>0, <3>1, SizesAre
    <3>3. CASE k = 0
      <4>1. f[1] = t[1] /\ 1 * DigestLen = DigestLen
        BY <2>3, <3>1, <3>2, <3>3
      <4>2. \A p \in 1..DigestLen : (1 - 1) * DigestLen + p = p
        BY <3>2
      <4>3. \A i \in 1..1, p \in 1..DigestLen : f[1][(i - 1) * DigestLen + p] = t[i][p]
        BY <4>1, <4>2
      <4>4. Good(1)
        BY <3>2, <3>3, <4>1, <4>3 DEF Together
      <4> QED
        BY <3>1, <3>3, <4>4
    <3>4. CASE k # 0
      <4>0. Good(k) /\ k \in Nat
        BY <2>5, <3>4
      <4>1. /\ IsString(f[k]) /\ Len(f[k]) = k * DigestLen /\ k \in Nat
            /\ \A i \in 1..k, p \in 1..DigestLen : f[k][(i - 1) * DigestLen + p] = t[i][p]
        BY <4>0 DEF Together
      <4>2. f[k + 1] = f[k] \o t[k + 1]
        <5>1. f[k + 1] = IF k + 1 = 1 THEN t[k + 1] ELSE f[(k + 1) - 1] \o t[k + 1]
          BY <2>3, <3>1, Zenon
        <5>2. k + 1 # 1
          BY <3>4
        <5> QED
          BY <3>1, <5>1, <5>2
      <4> DEFINE s == f[k]
                 u == t[k + 1]
                 l == k * DigestLen
      <4>3. IsString(s) /\ Len(s) = l /\ IsString(u) /\ Len(u) = DigestLen /\ l \in Nat
        BY <3>2, <4>1
      <4> HIDE DEF s, u, l
      <4>4. /\ IsString(s \o u) /\ Len(s \o u) = l + DigestLen
            /\ \A a \in 1..(l + DigestLen) : (s \o u)[a] = IF a <= l THEN s[a] ELSE u[a - l]
        BY <4>3, Joined
      <4>5. (k + 1) * DigestLen = l + DigestLen
        BY <3>2, <4>1 DEF l
      <4>6. ASSUME NEW i \in 1..(k + 1), NEW p \in 1..DigestLen
            PROVE  (s \o u)[(i - 1) * DigestLen + p] = t[i][p]
        <5>1. CASE i \in 1..k
          <6>1. (i - 1) * DigestLen + p \in 1..l
            <7>1. i <= k /\ i \in Nat /\ i - 1 \in Nat /\ k \in Nat
              BY <4>1, <5>1
            <7>2. i * DigestLen <= k * DigestLen
              BY <3>2, <7>1
            <7>3. i * DigestLen = (i - 1) * DigestLen + DigestLen /\ (i - 1) * DigestLen \in Nat
              BY <3>2, <7>1
            <7> QED
              BY <3>2, <4>3, <7>2, <7>3 DEF l
          <6>2. s[(i - 1) * DigestLen + p] = t[i][p]
            BY <4>1, <5>1 DEF s
          <6> DEFINE a == (i - 1) * DigestLen + p
          <6>3. a \in 1..(l + DigestLen) /\ a <= l
            BY <3>2, <4>3, <6>1
          <6> HIDE DEF a
          <6>4. (s \o u)[a] = s[a]
            BY <4>4, <6>3
          <6> QED
            BY <6>2, <6>4 DEF a
        <5>2. CASE i = k + 1
          <6>1. (i - 1) * DigestLen + p = l + p
            BY <3>1, <5>2 DEF l
          <6>2. l + p \in 1..(l + DigestLen) /\ ~(l + p <= l) /\ (l + p) - l = p
            BY <3>2, <4>3
          <6>3. (s \o u)[l + p] = u[p]
            BY <4>4, <6>2
          <6> QED
            BY <5>2, <6>1, <6>3 DEF u
        <5>3. i \in 1..k \/ i = k + 1
          BY <4>1
        <5> QED
          BY <5>1, <5>2, <5>3
      <4>7. Good(k + 1)
        <5>1. IsString(f[k + 1]) /\ Len(f[k + 1]) = (k + 1) * DigestLen
          BY <4>2, <4>4, <4>5 DEF s, u
        <5>2. \A i \in 1..(k + 1), p \in 1..DigestLen :
                f[k + 1][(i - 1) * DigestLen + p] = t[i][p]
          BY <4>2, <4>6 DEF s, u
        <5> QED
          BY <5>1, <5>2 DEF Together
      <4> QED
        BY <3>1, <4>7
    <3> QED
      BY <3>3, <3>4
  <2>6. n \in T
    <3> HIDE DEF T
    <3>1. n \in 0..n
      OBVIOUS
    <3> QED
      BY <2>4, <2>5, <3>1, UpTo
  <2> QED
    BY <1>3, <2>1, <2>6
<1> QED
  BY <1>2, <1>3

(* The bytes shown are those of the rounds, in order.                      *)
Shown(val, len, t, n) ==
  /\ Len(val) = len /\ DOMAIN val = 1..len
  /\ \A a \in 1..len : \E i \in 1..n, p \in 1..DigestLen :
       a = (i - 1) * DigestLen + p /\ val[a] = t[i][p]

LEMMA CutShown ==
  ASSUME NEW n \in Nat, NEW t, NEW len \in Nat, AllDigests(t, n), len <= n * DigestLen
  PROVE  Shown(CutTo(FlattenSeq(t), len), len, t, n)
<1> DEFINE f == FlattenSeq(t)
<1>1. /\ IsString(f) /\ Len(f) = n * DigestLen /\ n * DigestLen \in Nat
      /\ \A i \in 1..n, p \in 1..DigestLen : f[(i - 1) * DigestLen + p] = t[i][p]
  <2>1. n * DigestLen \in Nat
    BY SizesAre
  <2>2. /\ IsString(f) /\ Len(f) = n * DigestLen
        /\ \A i \in 1..n, p \in 1..DigestLen : f[(i - 1) * DigestLen + p] = t[i][p]
    BY FlatIs DEF Together
  <2> QED
    BY <2>1, <2>2
<1> HIDE DEF f
<1>2. IsString(CutTo(f, len)) /\ Len(CutTo(f, len)) = len
      /\ \A a \in 1..len : CutTo(f, len)[a] = f[a]
  <2>1. IsString(CutTo(f, len)) /\ Len(CutTo(f, len)) = IF Len(f) <= len THEN Len(f) ELSE len
    BY <1>1, CutIs
  <2>2. Len(CutTo(f, len)) = len
    BY <1>1, <2>1
  <2>3. \A a \in 1..Len(CutTo(f, len)) : CutTo(f, len)[a] = f[a]
    BY <1>1, CutIs
  <2> QED
    BY <2>1, <2>2, <2>3
<1>3. DOMAIN CutTo(f, len) = 1..len
  BY <1>2, StringProperties
<1>4. ASSUME NEW a \in 1..len
      PROVE  \E i \in 1..n, p \in 1..DigestLen :
               a = (i - 1) * DigestLen + p /\ CutTo(f, len)[a] = t[i][p]
  <2>1. a \in 1..(n * DigestLen)
    BY <1>1
  <2>2. PICK i \in 1..n, p \in 1..DigestLen : a = (i - 1) * DigestLen + p
    BY <2>1, PlaceExists
  <2>3. f[a] = t[i][p]
    BY <1>1, <2>2
  <2> QED
    BY <1>2, <2>2, <2>3
<1> QED
  BY <1>2, <1>3, <1>4 DEF Shown, f

-----------------------------------------------------------------------------
(* A MAC in pieces is the MAC of all of them.                              *)

Context(key, s) == [inner |-> Masked(key, IPad) \o s, opad_key |-> Masked(key, OPad)]

LEMMA ContextNew ==
  ASSUME NEW key, IsString(key)
  PROVE  HmacNew(key) = Context(key, << >>)
<1>1. Masked(key, IPad) \o << >> = Masked(key, IPad)
  BY MaskedIs, JoinEmpty
<1> QED
  BY <1>1 DEF HmacNew, Context

LEMMA InnerGrows ==
  ASSUME NEW a, NEW o, NEW x
  PROVE  HmacUpdate([inner |-> a, opad_key |-> o], x) = [inner |-> a \o x, opad_key |-> o]
<1> DEFINE r == [inner |-> a, opad_key |-> o]
<1>1. HmacUpdate(r, x) = [i \in {"inner", "opad_key"} |-> IF i = "inner" THEN r.inner \o x ELSE r[i]]
  BY DEF HmacUpdate
<1>2. r.inner = a /\ r.opad_key = o
  OBVIOUS
<1> QED
  BY <1>1, <1>2

LEMMA ContextUpdate ==
  ASSUME NEW key, NEW s, NEW x, IsString(key), IsString(s), IsString(x)
  PROVE  HmacUpdate(Context(key, s), x) = Context(key, s \o x)
<1> DEFINE m == Masked(key, IPad)
           o == Masked(key, OPad)
<1>1. IsString(m)
  BY MaskedIs
<1>2. Context(key, s) = [inner |-> m \o s, opad_key |-> o]
  BY DEF Context
<1>3. Context(key, s \o x) = [inner |-> m \o (s \o x), opad_key |-> o]
  BY DEF Context
<1> HIDE DEF m, o
<1>4. (m \o s) \o x = m \o (s \o x)
  BY ONLY <1>1, IsString(s), IsString(x), JoinThree
<1>5. HmacUpdate([inner |-> m \o s, opad_key |-> o], x) = [inner |-> (m \o s) \o x, opad_key |-> o]
  BY InnerGrows
<1> QED
  BY <1>2, <1>3, <1>4, <1>5

LEMMA ContextFinalize ==
  ASSUME NEW key, NEW s
  PROVE  HmacFinalize(Context(key, s)) = HmacSm3(key, s)
BY DEF HmacFinalize, Context, HmacSm3

LEMMA SignConcatIs ==
  ASSUME NEW key, NEW data, IsString(key), IsString(data)
  PROVE  SignConcat(key, [i \in DOMAIN data |-> << data[i] >>]) = HmacSm3(key, data)
<1> DEFINE n      == Len(data)
           pieces == [i \in DOMAIN data |-> << data[i] >>]
           P      == DOMAIN pieces
           base   == HmacNew(key)
           V      == {Context(key, s) : s \in Seq(Range(data))}
           step   == [j \in 1..n |-> [v \in V |-> HmacUpdate(v, pieces[j])]]
           IsFold(f) == f = [s \in SUBSET P |->
                               IF s = {} THEN base ELSE HmacUpdate(f[s \ {Max(s)}], pieces[Max(s)])]
           f      == CHOOSE f : IsFold(f)
<1>1. n \in Nat /\ P = 1..n /\ DOMAIN data = 1..n /\ \A j \in 1..n : pieces[j] = << data[j] >>
  BY StringProperties
<1>2. \A j \in 1..n : /\ data[j] \in Range(data) /\ << data[j] >> \in Seq(Range(data))
                      /\ IsString(<< data[j] >>)
  BY StringProperties, One
<1>3. base = Context(key, << >>) /\ base \in V
  <2>1. base = Context(key, << >>)
    BY ContextNew
  <2>2. << >> \in Seq(Range(data))
    OBVIOUS
  <2> QED
    BY <2>1, <2>2
<1> HIDE DEF n, P, base, pieces
<1>4. ASSUME NEW v \in V, NEW j \in 1..n PROVE HmacUpdate(v, pieces[j]) \in V
  <2>1. PICK s \in Seq(Range(data)) : v = Context(key, s)
    OBVIOUS
  <2>2. IsString(s)
    BY StringIn
  <2>3. HmacUpdate(v, pieces[j]) = Context(key, s \o << data[j] >>)
    BY <1>1, <1>2, <2>1, <2>2, ContextUpdate
  <2>4. s \o << data[j] >> \in Seq(Range(data))
    BY <1>2, ConcatProperties
  <2> QED
    BY <2>3, <2>4
<1> HIDE DEF V
<1>5. step \in [1..n -> [V -> V]] /\ \A j \in 1..n, v \in V : step[j][v] = HmacUpdate(v, pieces[j])
  BY <1>4
<1> HIDE DEF step
<1>6. PICK g : Folds(g, V, base, n, step)
  BY <1>1, <1>3, <1>5, FoldExists
<1>7. /\ g \in [SUBSET (1..n) -> V]
      /\ \A s \in SUBSET (1..n) : g[s] = IF s = {} THEN base ELSE step[Max(s)][g[s \ {Max(s)}]]
  BY <1>6 DEF Folds
<1>8. ASSUME NEW s \in SUBSET P
      PROVE  g[s] = IF s = {} THEN base ELSE HmacUpdate(g[s \ {Max(s)}], pieces[Max(s)])
  <2>1. CASE s = {}
    BY <1>1, <1>7, <2>1
  <2>2. CASE s # {}
    <3>1. Max(s) \in 1..n
      BY <1>1, <2>2, MaxGreatest
    <3>2. s \ {Max(s)} \in SUBSET (1..n)
      BY <1>1
    <3>3. g[s \ {Max(s)}] \in V
      BY <1>7, <3>2
    <3>4. g[s] = step[Max(s)][g[s \ {Max(s)}]]
      BY <1>1, <1>7, <2>2
    <3> QED
      BY <1>5, <2>2, <3>1, <3>3, <3>4
  <2> QED
    BY <2>1, <2>2
<1>9. IsFold(g)
  BY <1>1, <1>7, <1>8
<1>10. IsFold(f)
  <2> HIDE DEF IsFold
  <2> QED
    BY <1>9, Zenon
<1>11. FoldLeft(HmacUpdate, base, pieces) = f[P]
  BY DEF FoldLeft, MapThenFoldSet, P
<1> HIDE DEF f
<1>12. \A s \in SUBSET P :
         f[s] = IF s = {} THEN base ELSE HmacUpdate(f[s \ {Max(s)}], pieces[Max(s)])
  BY <1>10
<1> DEFINE T == {k \in 0..n : f[1..k] = Context(key, SubSeq(data, 1, k))}
<1>13. 0 \in T
  <2>1. 1..0 = {} /\ SubSeq(data, 1, 0) = << >> /\ 0 \in 0..n
    BY <1>1
  <2> QED
    BY <1>3, <1>12, <2>1
<1>14. ASSUME NEW k \in 0..(n - 1), k \in T PROVE k + 1 \in T
  <2>1. /\ k + 1 \in 1..n /\ 1..(k + 1) \in SUBSET P /\ 1..(k + 1) # {}
        /\ Max(1..(k + 1)) = k + 1 /\ (1..(k + 1)) \ {k + 1} = 1..k
    BY <1>1, FirstPlaces
  <2>2. k + 1 \in 0..n /\ k \in Nat /\ k <= n
    BY <1>1
  <2>3. f[1..(k + 1)] = HmacUpdate(f[1..k], pieces[k + 1])
    BY <1>12, <2>1
  <2> DEFINE s == SubSeq(data, 1, k)
             x == << data[k + 1] >>
  <2>4. f[1..(k + 1)] = HmacUpdate(Context(key, s), x)
    BY <1>1, <1>14, <2>1, <2>3
  <2>5. IsString(s) /\ IsString(x)
    <3>0. \A i \in 1..k : i \in 1..n
      BY <1>1, <2>2
    <3>1. \A i \in 1..k : data[i] \in Range(data)
      BY <1>2, <3>0
    <3>2. s \in Seq(Range(data))
      BY <2>2, <3>1, SubSeqProperties
    <3> QED
      BY <1>2, <2>1, <3>2, StringIn
  <2>6. SubSeq(data, 1, k + 1) = s \o x
    <3>1. data \in Seq(Range(data))
      BY DEF IsString
    <3>2. SubSeq(data, 1, k + 1) = Append(s, data[k + 1])
      BY <1>1, <2>1, <3>1 DEF n
    <3>3. s \in Seq(Range(s)) /\ Append(s, data[k + 1]) = s \o << data[k + 1] >>
      BY <2>5, AppendIsConcat DEF IsString
    <3> QED
      BY <3>2, <3>3
  <2> HIDE DEF s, x
  <2>7. HmacUpdate(Context(key, s), x) = Context(key, s \o x)
    BY <2>5, ContextUpdate
  <2> QED
    BY <2>2, <2>4, <2>6, <2>7
<1> HIDE DEF T
<1>15. n \in T
  <2>1. n \in 0..n
    BY <1>1
  <2> QED
    BY <1>1, <1>13, <1>14, <2>1, UpTo
<1>16. SubSeq(data, 1, n) = data
  BY SubSeqFull DEF n, IsString
<1>17. FoldLeft(HmacUpdate, HmacNew(key), pieces) = Context(key, data)
  BY <1>1, <1>11, <1>15, <1>16 DEF T, base
<1> QED
  BY <1>17, ContextFinalize DEF SignConcat, pieces

-----------------------------------------------------------------------------
(* What each call makes, round by round.                                   *)

LEMMA RoundsFit ==
  ASSUME NEW len \in Nat
  PROVE  Rounds(len) \in Nat /\ len <= Rounds(len) * DigestLen
<1> DEFINE d == DigestLen
           x == len + d - 1
           q == x \div d
           r == x % d
<1>1. d \in Nat \ {0} /\ x \in Nat
  BY SizesAre
<1> HIDE DEF d
<1>2. x = d * q + r /\ r \in 0..(d - 1) /\ q \in Nat
  BY <1>1
<1> HIDE DEF q, r
<1>3. len <= q * d
  <2>1. d * q = q * d /\ q * d \in Nat
    BY <1>1, <1>2
  <2> QED
    BY <1>1, <1>2, <2>1
<1>4. Rounds(len) = q
  BY DEF Rounds, q, d
<1> QED
  BY <1>2, <1>3, <1>4 DEF d

LEMMA RoundsBound ==
  ASSUME NEW len \in Nat, NEW max \in Nat, len <= max * DigestLen
  PROVE  Rounds(len) <= max
<1> DEFINE d == DigestLen
           x == len + d - 1
           q == x \div d
           r == x % d
<1>1. d \in Nat \ {0} /\ x \in Nat /\ len <= max * d
  BY SizesAre
<1> HIDE DEF d
<1>2. x = d * q + r /\ r \in 0..(d - 1) /\ q \in Nat
  BY <1>1
<1> HIDE DEF q, r
<1>3. q <= max
  <2> SUFFICES ASSUME q > max PROVE FALSE
    BY <1>2
  <2>1. max + 1 <= q
    BY <1>2
  <2>2. d * (max + 1) <= d * q
    BY <1>1, <1>2, <2>1
  <2>3. d * (max + 1) = max * d + d
    BY <1>1
  <2> QED
    BY <1>1, <1>2, <2>2, <2>3
<1>4. Rounds(len) = q
  BY DEF Rounds, q, d
<1> QED
  BY <1>3, <1>4

Typed(c) ==
  /\ c.op \in {"hmac", "concat", "hkdf", "expand", "kdf", "pbkdf2"}
  /\ IsString(c.key) /\ IsString(c.data) /\ c.n \in Nat /\ c.len \in Nat
  /\ c.op \in {"hmac", "concat"} => c.len = DigestLen

\* The pseudorandom key that HKDF expands.
Ikm == << {<< "ikm", 0 >>} >>
Prk(c) == IF c.op = "expand" THEN c.key
          ELSE HkdfExtract(IF c.n = 0 THEN << >> ELSE << c.key >>, Ikm)

MadeBy(c, t, n) ==
  /\ n \in Nat /\ AllDigests(t, n)
  /\ CASE c.op \in {"hmac", "concat"} -> n = 1 /\ t = << HmacSm3(c.key, c.data) >>
       [] c.op \in {"hkdf", "expand"} ->
            n <= 255 /\ IsExpanded(t, n, Prk(c), CutTo(c.data, InfoMax))
       [] c.op = "kdf" -> IsCounted(t, n, c.key, c.data)
       [] c.op = "pbkdf2" ->
            /\ c.n # 0
            /\ \A i \in 1..n : \E u :
                 LET first == First(CutTo(c.data, SaltMax), i)
                 IN  /\ IsChain(u, c.n, c.key, first)
                     /\ t[i] = Sums(Sources(u, c.n, c.key, first), c.n)
Gives(c, out) == \E t, n : MadeBy(c, t, n) /\ Shown(out.val, c.len, t, n)

LEMMA ExpandedDigests ==
  ASSUME NEW n \in Nat, NEW prk, NEW info, NEW t, IsString(info), IsExpanded(t, n, prk, info)
  PROVE  AllDigests(t, n)
<1>1. t = [i \in 1..n |-> t[i]]
  BY DEF IsExpanded
<1>2. \A i \in 1..n : t[i] = HmacSm3(prk, ExpandData(Before(t, i), info, Num(i)))
  BY DEF IsExpanded, Before
<1>3. \A i \in 1..n : IsString(t[i]) /\ Len(t[i]) = DigestLen
  BY <1>2, HmacIs
<1> QED
  BY <1>1, <1>3 DEF AllDigests

LEMMA ExpandGives ==
  ASSUME NEW prk, NEW info, NEW len \in Nat, IsString(info), len <= RoundMax * DigestLen
  PROVE  /\ HkdfExpand(prk, info, len).ok
         /\ \E t, n : /\ n \in Nat /\ n <= 255 /\ AllDigests(t, n)
                      /\ IsExpanded(t, n, prk, CutTo(info, InfoMax))
                      /\ Shown(HkdfExpand(prk, info, len).val, len, t, n)
<1> DEFINE n   == Rounds(len)
           cut == CutTo(info, InfoMax)
           t   == CHOOSE t : IsExpanded(t, n, prk, cut)
<1>1. n \in Nat /\ len <= n * DigestLen /\ n <= RoundMax /\ RoundMax \in Nat /\ RoundMax <= 255
  BY RoundsFit, RoundsBound, DeriveAssumption
<1>2. n % (RoundMax + 1) = n /\ n <= 255
  BY <1>1
<1>3. IsString(cut)
  BY CutIs, DeriveAssumption
<1> HIDE DEF n
<1>4. IsExpanded(t, n, prk, cut)
  <2>1. \E u : IsExpanded(u, n, prk, cut)
    BY <1>1, ExpandedExists
  <2> QED
    BY <2>1, Zenon
<1>5. AllDigests(t, n)
  <2> HIDE DEF t, cut
  <2> QED
    BY <1>1, <1>3, <1>4, ExpandedDigests
<1>6. ~(len > HkdfMaxLen)
  <2>1. RoundMax * DigestLen \in Nat
    BY <1>1, SizesAre
  <2> QED
    BY <2>1 DEF HkdfMaxLen
<1>7. t = InRounds(n, LAMBDA i, prev : HmacSm3(prk, prev \o cut \o << Num(i) >>))
  BY DEF InRounds, IsExpanded, ExpandData
<1>8. HkdfExpand(prk, info, len) = Ok(CutTo(FlattenSeq(t), len))
  BY <1>2, <1>6, <1>7 DEF HkdfExpand, n
<1> HIDE DEF t, cut
<1>9. Shown(CutTo(FlattenSeq(t), len), len, t, n)
  BY <1>1, <1>5, CutShown
<1> QED
  BY <1>1, <1>2, <1>4, <1>5, <1>8, <1>9 DEF Ok, cut

LEMMA KdfGives ==
  ASSUME NEW z, NEW info, NEW len \in Nat, IsString(z), IsString(info)
  PROVE  \E t, n : /\ n \in Nat /\ AllDigests(t, n) /\ IsCounted(t, n, z, info)
                   /\ Shown(KdfWithInfo(z, len, info), len, t, n)
<1> DEFINE n == Rounds(len)
           t == [i \in 1..n |-> Sm3(z \o Counter(i) \o info)]
<1>1. n \in Nat /\ len <= n * DigestLen
  BY RoundsFit
<1> HIDE DEF n
<1>2. IsCounted(t, n, z, info)
  BY DEF IsCounted
<1>3. AllDigests(t, n)
  <2>1. t = [i \in 1..n |-> t[i]]
    OBVIOUS
  <2>2. \A i \in 1..n : IsString(t[i]) /\ Len(t[i]) = DigestLen
    BY DigestIs
  <2> HIDE DEF t
  <2> QED
    BY <2>1, <2>2 DEF AllDigests
<1>4. t = InRounds(n, LAMBDA i, prev : Sm3(z \o Counter(i) \o info))
  BY DEF InRounds
<1>5. KdfWithInfo(z, len, info) = CutTo(FlattenSeq(t), len)
  BY <1>4 DEF KdfWithInfo, n
<1> HIDE DEF t
<1>6. Shown(CutTo(FlattenSeq(t), len), len, t, n)
  BY <1>1, <1>3, CutShown
<1> QED
  BY <1>1, <1>2, <1>3, <1>5, <1>6

LEMMA Pbkdf2Gives ==
  ASSUME NEW password, NEW salt, NEW iterations \in Nat \ {0}, NEW len \in Nat,
         IsString(password), IsString(salt), len <= IndexMax * DigestLen
  PROVE  /\ Pbkdf2(password, salt, iterations, len).ok
         /\ \E t, n :
              /\ n \in Nat /\ AllDigests(t, n)
              /\ \A i \in 1..n : \E u :
                   LET first == First(CutTo(salt, SaltMax), i)
                   IN  /\ IsChain(u, iterations, password, first)
                       /\ t[i] = Sums(Sources(u, iterations, password, first), iterations)
              /\ Shown(Pbkdf2(password, salt, iterations, len).val, len, t, n)
<1> DEFINE n == Rounds(len)
           t == [i \in 1..n |-> Pbkdf2Block(password, salt, iterations, i)]
<1>1. n \in Nat /\ len <= n * DigestLen
  BY RoundsFit
<1>2. ~(len > IndexMax * DigestLen)
  <2>1. IndexMax * DigestLen \in Nat
    BY SizesAre, DeriveAssumption
  <2> QED
    BY <2>1
<1>3. t = InRounds(n, LAMBDA i, prev : Pbkdf2Block(password, salt, iterations, i))
  BY DEF InRounds
<1>4. Pbkdf2(password, salt, iterations, len) = Ok(CutTo(FlattenSeq(t), len))
  BY <1>2, <1>3 DEF Pbkdf2, n
<1> HIDE DEF n
<1>5. \A i \in 1..n : \E u :
        LET first == First(CutTo(salt, SaltMax), i)
        IN  /\ IsChain(u, iterations, password, first)
            /\ t[i] = Sums(Sources(u, iterations, password, first), iterations)
  BY BlockIs
<1>6. AllDigests(t, n)
  <2>1. t = [i \in 1..n |-> t[i]]
    OBVIOUS
  <2> HIDE DEF t
  <2>2. \A i \in 1..n : IsString(t[i]) /\ Len(t[i]) = DigestLen
    BY <1>5, SumsIs
  <2> QED
    BY <2>1, <2>2 DEF AllDigests
<1> HIDE DEF t
<1>7. Shown(CutTo(FlattenSeq(t), len), len, t, n)
  BY <1>1, <1>6, CutShown
<1> QED
  BY <1>1, <1>4, <1>5, <1>6, <1>7 DEF Ok

(* A call fails only when its counter has no number for the last round.    *)
Succeeds(c) ==
  /\ c.op \in {"hkdf", "expand"} => c.len <= RoundMax * DigestLen
  /\ c.op = "pbkdf2" => c.n # 0 /\ c.len <= IndexMax * DigestLen

LEMMA MacGives ==
  ASSUME NEW k, NEW d
  PROVE  LET t == << HmacSm3(k, d) >>
         IN  AllDigests(t, 1) /\ Shown(HmacSm3(k, d), DigestLen, t, 1)
<1> DEFINE m == HmacSm3(k, d)
           t == << m >>
<1>1. IsString(m) /\ Len(m) = DigestLen /\ DOMAIN m = 1..DigestLen
  BY HmacIs, StringProperties
<1> HIDE DEF m
<1>2. t[1] = m /\ t = [i \in 1..1 |-> t[i]]
  OBVIOUS
<1>3. AllDigests(t, 1)
  BY <1>1, <1>2 DEF AllDigests
<1>4. ASSUME NEW a \in 1..DigestLen
      PROVE  \E i \in 1..1, p \in 1..DigestLen : a = (i - 1) * DigestLen + p /\ m[a] = t[i][p]
  <2>1. (1 - 1) * DigestLen + a = a
    BY SizesAre
  <2> QED
    BY <1>2, <2>1
<1>5. Shown(m, DigestLen, t, 1)
  BY <1>1, <1>4 DEF Shown
<1> QED
  BY <1>3, <1>5 DEF m

LEMMA MacSucceeds ==
  ASSUME NEW c, Typed(c), c.op \in {"hmac", "concat"}
  PROVE  DeriveCall(c).ok /\ Gives(c, DeriveCall(c))
<1> DEFINE m == HmacSm3(c.key, c.data)
           t == << m >>
<1>1. DeriveCall(c) = Ok(m)
  <2>1. CASE c.op = "hmac"
    BY <2>1 DEF DeriveCall
  <2>2. CASE c.op = "concat"
    <3>1. SignConcat(c.key, [i \in DOMAIN c.data |-> << c.data[i] >>]) = m
      BY SignConcatIs DEF Typed
    <3> HIDE DEF m
    <3> QED
      BY <2>2, <3>1 DEF DeriveCall
  <2> QED
    BY <2>1, <2>2
<1>2. AllDigests(t, 1) /\ Shown(m, DigestLen, t, 1)
  BY MacGives
<1>3. MadeBy(c, t, 1)
  BY <1>2 DEF MadeBy
<1> HIDE DEF m, t
<1>4. DeriveCall(c).ok /\ DeriveCall(c).val = m
  BY <1>1 DEF Ok
<1>5. c.len = DigestLen
  BY DEF Typed
<1> QED
  BY <1>2, <1>3, <1>4, <1>5 DEF Gives

LEMMA ExpandSucceeds ==
  ASSUME NEW c, Typed(c), c.op \in {"hkdf", "expand"}
  PROVE  /\ DeriveCall(c).ok <=> Succeeds(c)
         /\ DeriveCall(c).ok => Gives(c, DeriveCall(c))
<1>1. DeriveCall(c) = HkdfExpand(Prk(c), c.data, c.len)
  BY DEF DeriveCall, Hkdf, Prk, Ikm
<1>2. IsString(c.data) /\ c.len \in Nat /\ RoundMax * DigestLen \in Nat
  BY SizesAre, DeriveAssumption DEF Typed
<1>3. Succeeds(c) <=> c.len <= RoundMax * DigestLen
  BY DEF Succeeds
<1>4. CASE c.len <= RoundMax * DigestLen
  <2> DEFINE prk == Prk(c)
             out == HkdfExpand(prk, c.data, c.len)
  <2> HIDE DEF prk
  <2>1. /\ out.ok
        /\ \E t, n : /\ n \in Nat /\ n <= 255 /\ AllDigests(t, n)
                     /\ IsExpanded(t, n, prk, CutTo(c.data, InfoMax))
                     /\ Shown(out.val, c.len, t, n)
    BY <1>2, <1>4, ExpandGives
  <2> HIDE DEF out
  <2>2. DeriveCall(c) = out
    BY <1>1 DEF out, prk
  <2>3. Gives(c, out)
    BY <2>1 DEF Gives, MadeBy, prk
  <2> QED
    BY <1>3, <1>4, <2>1, <2>2, <2>3
<1>5. CASE ~(c.len <= RoundMax * DigestLen)
  <2>1. c.len > HkdfMaxLen
    BY <1>2, <1>5 DEF HkdfMaxLen
  <2>2. DeriveCall(c) = Err("InvalidInputLength")
    BY <1>1, <2>1 DEF HkdfExpand
  <2>3. ~DeriveCall(c).ok
    BY <2>2 DEF Err
  <2> QED
    BY <1>3, <1>5, <2>3
<1> QED
  BY <1>4, <1>5

LEMMA KdfSucceeds ==
  ASSUME NEW c, Typed(c), c.op = "kdf"
  PROVE  DeriveCall(c).ok /\ Gives(c, DeriveCall(c))
<1> DEFINE out == KdfWithInfo(c.key, c.len, c.data)
<1>1. DeriveCall(c) = Ok(out)
  BY DEF DeriveCall
<1>2. \E t, n : /\ n \in Nat /\ AllDigests(t, n) /\ IsCounted(t, n, c.key, c.data)
                /\ Shown(out, c.len, t, n)
  BY KdfGives DEF Typed
<1> HIDE DEF out
<1>3. DeriveCall(c).ok /\ DeriveCall(c).val = out
  BY <1>1 DEF Ok
<1> QED
  BY <1>2, <1>3 DEF Gives, MadeBy

LEMMA Pbkdf2Succeeds ==
  ASSUME NEW c, Typed(c), c.op = "pbkdf2"
  PROVE  /\ DeriveCall(c).ok <=> Succeeds(c)
         /\ DeriveCall(c).ok => Gives(c, DeriveCall(c))
<1> DEFINE out == Pbkdf2(c.key, c.data, c.n, c.len)
<1>1. DeriveCall(c) = out
  BY DEF DeriveCall
<1>2. /\ IsString(c.key) /\ IsString(c.data) /\ c.n \in Nat /\ c.len \in Nat
      /\ IndexMax * DigestLen \in Nat
  BY SizesAre, DeriveAssumption DEF Typed
<1>3. Succeeds(c) <=> c.n # 0 /\ c.len <= IndexMax * DigestLen
  BY DEF Succeeds
<1>4. CASE c.n # 0 /\ c.len <= IndexMax * DigestLen
  <2>1. /\ out.ok
        /\ \E t, n :
             /\ n \in Nat /\ AllDigests(t, n)
             /\ \A i \in 1..n : \E u :
                  LET first == First(CutTo(c.data, SaltMax), i)
                  IN  /\ IsChain(u, c.n, c.key, first)
                      /\ t[i] = Sums(Sources(u, c.n, c.key, first), c.n)
             /\ Shown(out.val, c.len, t, n)
    BY <1>2, <1>4, Pbkdf2Gives
  <2> HIDE DEF out
  <2>2. Gives(c, out)
    BY <1>4, <2>1 DEF Gives, MadeBy
  <2> QED
    BY <1>1, <1>3, <1>4, <2>1, <2>2
<1>5. CASE ~(c.n # 0 /\ c.len <= IndexMax * DigestLen)
  <2>1. ~out.ok
    <3>1. CASE c.n = 0
      <4>1. out = Err("InvalidInput")
        BY <3>1 DEF Pbkdf2
      <4> QED
        BY <4>1 DEF Err
    <3>2. CASE c.n # 0
      <4>1. c.len > IndexMax * DigestLen
        BY <1>2, <1>5, <3>2
      <4>2. out = Err("InvalidInputLength")
        BY <3>2, <4>1 DEF Pbkdf2
      <4> QED
        BY <4>2 DEF Err
    <3> QED
      BY <3>1, <3>2
  <2> HIDE DEF out
  <2> QED
    BY <1>1, <1>3, <1>5, <2>1
<1> QED
  BY <1>4, <1>5

LEMMA DeriveGives ==
  ASSUME NEW c, Typed(c)
  PROVE  /\ DeriveCall(c).ok <=> Succeeds(c)
         /\ DeriveCall(c).ok => Gives(c, DeriveCall(c))
<1>1. CASE c.op \in {"hmac", "concat"}
  BY <1>1, MacSucceeds DEF Succeeds
<1>2. CASE c.op \in {"hkdf", "expand"}
  BY <1>2, ExpandSucceeds
<1>3. CASE c.op = "kdf"
  BY <1>3, KdfSucceeds DEF Succeeds
<1>4. CASE c.op = "pbkdf2"
  BY <1>4, Pbkdf2Succeeds
<1> QED
  BY <1>1, <1>2, <1>3, <1>4 DEF Typed

-----------------------------------------------------------------------------
(* Two calls of a function: bytes in common only where they are made of    *)
(* the same. HKDF expands a MAC of its salt, which tells salts apart as    *)
(* HMAC tells keys apart.                                                  *)

Salt(c) == IF c.n = 0 THEN Zeros(DigestLen) ELSE c.key

LEMMA SaltIs ==
  ASSUME NEW c, Typed(c), c.op = "hkdf"
  PROVE  /\ IsString(Salt(c)) /\ IsString(Ikm) /\ Prk(c) = HmacSm3(Salt(c), Ikm)
         /\ \A i \in 1..HashBlock : KeyAt(Salt(c), i) = KeyAt(KeyOf(c), i)
<1>1. IsString(Ikm)
  BY One DEF Ikm
<1>2. CASE c.n = 0
  <2> DEFINE z == Zeros(DigestLen)
  <2>1. IsString(z) /\ Len(z) = DigestLen /\ \A i \in 1..DigestLen : z[i] = Zero
    BY ZerosAre, SizesAre
  <2>2. Salt(c) = z /\ KeyOf(c) = << >>
    BY <1>2 DEF Salt, KeyOf
  <2>3. Prk(c) = HmacSm3(z, Ikm)
    <3>1. << >> = << >>
      OBVIOUS
    <3> QED
      BY <1>2 DEF Prk, HkdfExtract
  <2> HIDE DEF z
  <2>4. Short(z) = z
    BY <2>1, SizesAre DEF Short
  <2>5. \A i \in 1..HashBlock : KeyAt(z, i) = Zero
    BY <2>1, <2>4, SizesAre DEF KeyAt
  <2>6. \A i \in 1..HashBlock : KeyAt(<< >>, i) = Zero
    <3>1. Short(<< >>) = << >>
      BY Empty, SizesAre DEF Short
    <3> QED
      BY <3>1, Empty DEF KeyAt
  <2> QED
    BY <1>1, <2>1, <2>2, <2>3, <2>5, <2>6
<1>3. CASE c.n # 0
  <2>1. Salt(c) = c.key /\ KeyOf(c) = c.key /\ IsString(c.key)
    BY <1>3 DEF Salt, KeyOf, Typed
  <2>2. << c.key >> # << >> /\ << c.key >>[1] = c.key
    OBVIOUS
  <2>3. Prk(c) = HmacSm3(c.key, Ikm)
    BY <1>3, <2>2 DEF Prk, HkdfExtract
  <2> QED
    BY <1>1, <2>1, <2>3
<1> QED
  BY <1>2, <1>3

LEMMA PrkString ==
  ASSUME NEW c, Typed(c), c.op \in {"hkdf", "expand"}
  PROVE  IsString(Prk(c))
<1>1. CASE c.op = "hkdf"
  BY <1>1, SaltIs, HmacIs
<1>2. CASE c.op = "expand"
  BY <1>2 DEF Prk, Typed
<1> QED
  BY <1>1, <1>2

LEMMA PrkSame ==
  ASSUME NEW c, NEW d, Typed(c), Typed(d), c.op = d.op, c.op \in {"hkdf", "expand"}
  PROVE  SameKey(Prk(c), Prk(d)) <=> SameKey(KeyOf(c), KeyOf(d))
<1>1. CASE c.op = "expand"
  BY <1>1 DEF Prk, KeyOf
<1>2. CASE c.op = "hkdf"
  <2> DEFINE x == Salt(c)
             y == Salt(d)
             k == HmacSm3(x, Ikm)
             l == HmacSm3(y, Ikm)
  <2>1. /\ IsString(x) /\ IsString(Ikm) /\ Prk(c) = k
        /\ \A i \in 1..HashBlock : KeyAt(x, i) = KeyAt(KeyOf(c), i)
    BY <1>2, SaltIs
  <2>2. /\ IsString(y) /\ Prk(d) = l
        /\ \A i \in 1..HashBlock : KeyAt(y, i) = KeyAt(KeyOf(d), i)
    BY <1>2, SaltIs
  <2> HIDE DEF x, y
  <2>3. SameKey(x, y) <=> SameKey(KeyOf(c), KeyOf(d))
    BY <2>1, <2>2, SameKeyIs
  <2>4. ASSUME SameKey(x, y) PROVE SameKey(k, l)
    <3>1. k = l
      BY <2>1, <2>2, <2>4, HmacEqual
    <3> QED
      BY <3>1, SameKeyIs
  <2>5. ASSUME SameKey(k, l) PROVE SameKey(x, y)
    <3>1. 1 \in 1..HashBlock /\ 1 \in 1..DigestLen
      BY SizesAre
    <3>2. KeyAt(k, 1) = k[1] /\ KeyAt(l, 1) = l[1]
      <4>1. Len(k) = DigestLen /\ Len(l) = DigestLen
        BY HmacIs
      <4> HIDE DEF k, l
      <4>2. Short(k) = k /\ Short(l) = l
        BY <4>1, SizesAre DEF Short
      <4> QED
        BY <3>1, <4>1, <4>2 DEF KeyAt
    <3>3. k[1] = l[1]
      BY <2>5, <3>1, <3>2, SameKeyIs
    <3> QED
      BY <2>1, <2>2, <3>1, <3>3, HmacSame
  <2> QED
    BY <2>1, <2>2, <2>3, <2>4, <2>5
<1> QED
  BY <1>1, <1>2

(* What is compared byte by byte: round i of one with round j of another.  *)
Alike(c, d, t, u, i, j) ==
  \A p, q \in 1..DigestLen : t[i][p] = u[j][q] <=> i = j /\ p = q /\ SameInput(c, d)

LEMMA MacsAlike ==
  ASSUME NEW c, NEW d, Typed(c), Typed(d),
         c.op \in {"hmac", "concat"}, d.op \in {"hmac", "concat"},
         NEW t, NEW u, NEW n, NEW m, MadeBy(c, t, n), MadeBy(d, u, m)
  PROVE  \A i \in 1..n, j \in 1..m : Alike(c, d, t, u, i, j)
<1> SUFFICES ASSUME NEW i \in 1..n, NEW j \in 1..m, NEW p \in 1..DigestLen, NEW q \in 1..DigestLen
             PROVE  t[i][p] = u[j][q] <=> i = j /\ p = q /\ SameInput(c, d)
  BY DEF Alike
<1> DEFINE x == HmacSm3(c.key, c.data)
           y == HmacSm3(d.key, d.data)
<1>1. n = 1 /\ t = << x >> /\ m = 1 /\ u = << y >>
  BY DEF MadeBy
<1>2. x[p] = y[q] <=> p = q /\ SameKey(c.key, d.key) /\ c.data = d.data
  BY HmacSame DEF Typed
<1>3. SameInput(c, d) <=> SameKey(c.key, d.key) /\ c.data = d.data
  BY DEF SameInput
<1> HIDE DEF x, y
<1>4. t[i] = x /\ u[j] = y /\ i = j
  BY <1>1
<1> QED
  BY <1>2, <1>3, <1>4

LEMMA ExpandsAlike ==
  ASSUME NEW c, NEW d, Typed(c), Typed(d), c.op \in {"hkdf", "expand"}, d.op = c.op,
         TakenWhole(c), TakenWhole(d),
         NEW t, NEW u, NEW n, NEW m, MadeBy(c, t, n), MadeBy(d, u, m)
  PROVE  \A i \in 1..n, j \in 1..m : Alike(c, d, t, u, i, j)
<1> SUFFICES ASSUME NEW i \in 1..n, NEW j \in 1..m, NEW p \in 1..DigestLen, NEW q \in 1..DigestLen
             PROVE  t[i][p] = u[j][q] <=> i = j /\ p = q /\ SameInput(c, d)
  BY DEF Alike
<1> DEFINE k == Prk(c)
           l == Prk(d)
           f == CutTo(c.data, InfoMax)
           g == CutTo(d.data, InfoMax)
<1>1. n \in 0..255 /\ m \in 0..255 /\ IsExpanded(t, n, k, f) /\ IsExpanded(u, m, l, g)
  <2>1. /\ n \in Nat /\ n <= 255 /\ IsExpanded(t, n, k, f)
        /\ m \in Nat /\ m <= 255 /\ IsExpanded(u, m, l, g)
    BY Zenon DEF MadeBy
  <2> QED
    BY ONLY <2>1
<1>2. IsString(k) /\ IsString(l)
  BY PrkString
<1>3. IsString(f) /\ IsString(g)
  BY CutIs, DeriveAssumption DEF Typed
<1>4. SameInput(c, d) <=> SameKey(k, l) /\ f = g
  <2>1. f = c.data /\ g = d.data
    BY NotCut, DeriveAssumption DEF Typed, TakenWhole
  <2> QED
    BY <2>1, PrkSame DEF SameInput
<1> HIDE DEF k, l, f, g
<1>5. t[i][p] = u[j][q] <=> i = j /\ p = q /\ SameKey(k, l) /\ f = g
  <2>1. ExpandedPair(n, m, k, l, f, g, t, u)
    BY <1>1, <1>2, <1>3 DEF ExpandedPair
  <2> QED
    <3>1. ExpandedMeet(i, j, k, l, f, g, t[i], u[j])
      BY ONLY <2>1, ExpandedSame, i \in 1..n, j \in 1..m
    <3> QED
      BY <3>1 DEF ExpandedMeet
<1> QED
  BY <1>4, <1>5

LEMMA KdfsAlike ==
  ASSUME NEW c, NEW d, Typed(c), Typed(d), c.op = "kdf", d.op = "kdf", Comparable(c, d),
         NEW t, NEW u, NEW n, NEW m, MadeBy(c, t, n), MadeBy(d, u, m)
  PROVE  \A i \in 1..n, j \in 1..m : Alike(c, d, t, u, i, j)
<1> SUFFICES ASSUME NEW i \in 1..n, NEW j \in 1..m, NEW p \in 1..DigestLen, NEW q \in 1..DigestLen
             PROVE  t[i][p] = u[j][q] <=> i = j /\ p = q /\ SameInput(c, d)
  BY DEF Alike
<1> DEFINE z == c.key
           w == d.key
           f == c.data
           g == d.data
<1>1. n \in Nat /\ m \in Nat /\ IsCounted(t, n, z, f) /\ IsCounted(u, m, w, g)
  BY DEF MadeBy
<1>2. IsString(z) /\ IsString(w) /\ IsString(f) /\ IsString(g)
  BY DEF Typed
<1>3. Len(z) = Len(w)
  BY DEF Comparable
<1>4. SameInput(c, d) <=> z = w /\ f = g
  BY DEF SameInput
<1> HIDE DEF z, w, f, g
<1>5. t[i][p] = u[j][q] <=> i = j /\ p = q /\ z = w /\ f = g
  BY <1>1, <1>2, <1>3, CountedSame
<1> QED
  BY <1>4, <1>5

LEMMA Pbkdf2sAlike ==
  ASSUME NEW c, NEW d, Typed(c), Typed(d), c.op = "pbkdf2", d.op = "pbkdf2",
         TakenWhole(c), TakenWhole(d),
         NEW t, NEW u, NEW n, NEW m, MadeBy(c, t, n), MadeBy(d, u, m)
  PROVE  \A i \in 1..n, j \in 1..m : Alike(c, d, t, u, i, j)
<1> SUFFICES ASSUME NEW i \in 1..n, NEW j \in 1..m, NEW p \in 1..DigestLen, NEW q \in 1..DigestLen
             PROVE  t[i][p] = u[j][q] <=> i = j /\ p = q /\ SameInput(c, d)
  BY DEF Alike
<1> DEFINE k == c.key
           l == d.key
           a == CutTo(c.data, SaltMax)
           b == CutTo(d.data, SaltMax)
           x == c.n
           y == d.n
<1>1. PICK v : IsChain(v, x, k, First(a, i)) /\ t[i] = Sums(Sources(v, x, k, First(a, i)), x)
  BY DEF MadeBy
<1>2. PICK w : IsChain(w, y, l, First(b, j)) /\ u[j] = Sums(Sources(w, y, l, First(b, j)), y)
  BY DEF MadeBy
<1>3. x \in Nat \ {0} /\ y \in Nat \ {0} /\ IsString(k) /\ IsString(l)
  BY DEF MadeBy, Typed
<1>4. IsString(a) /\ IsString(b)
  BY CutIs, DeriveAssumption DEF Typed
<1>5. SameInput(c, d) <=> SameKey(k, l) /\ x = y /\ a = b
  <2>1. a = c.data /\ b = d.data
    BY NotCut, DeriveAssumption DEF Typed, TakenWhole
  <2> QED
    BY <2>1 DEF SameInput
<1> HIDE DEF k, l, a, b, x, y
<1>6. Sums(Sources(v, x, k, First(a, i)), x)[p] = Sums(Sources(w, y, l, First(b, j)), y)[q]
        <=> i = j /\ p = q /\ x = y /\ SameKey(k, l) /\ a = b
  <2>1. BlockPair(x, y, k, l, a, b, i, j, v, w)
    BY <1>1, <1>2, <1>3, <1>4 DEF BlockPair
  <2> QED
    <3>1. BlocksMeet(x, y, k, l, a, b, i, j, Sums(Sources(v, x, k, First(a, i)), x),
                     Sums(Sources(w, y, l, First(b, j)), y))
      BY ONLY <2>1, BlocksSame
    <3> QED
      BY <3>1 DEF BlocksMeet
<1> QED
  BY <1>1, <1>2, <1>5, <1>6, Zenon

LEMMA MadeAlike ==
  ASSUME NEW c, NEW d, Typed(c), Typed(d), Kind(c.op) = Kind(d.op), Comparable(c, d),
         TakenWhole(c), TakenWhole(d), NEW t, NEW u, NEW n, NEW m, MadeBy(c, t, n), MadeBy(d, u, m)
  PROVE  \A i \in 1..n, j \in 1..m : Alike(c, d, t, u, i, j)
<1>1. c.op \in {"hmac", "concat", "hkdf", "expand", "kdf", "pbkdf2"}
  BY DEF Typed
<1>2. c.op \in {"hmac", "concat"} => d.op \in {"hmac", "concat"}
  BY DEF Kind, Typed
<1>3. c.op \notin {"hmac", "concat"} => d.op = c.op
  BY <1>1 DEF Kind, Typed
<1> QED
  BY <1>1, <1>2, <1>3, MacsAlike, ExpandsAlike, KdfsAlike, Pbkdf2sAlike

LEMMA OutputsApart ==
  ASSUME NEW c, NEW d, Typed(c), Typed(d), Kind(c.op) = Kind(d.op), Comparable(c, d),
         TakenWhole(c), TakenWhole(d), NEW x, NEW y, Gives(c, x), Gives(d, y)
  PROVE  \A a \in DOMAIN x.val, b \in DOMAIN y.val :
           x.val[a] = y.val[b] <=> a = b /\ SameInput(c, d)
<1>1. PICK t, n : MadeBy(c, t, n) /\ Shown(x.val, c.len, t, n)
  BY DEF Gives
<1>2. PICK u, m : MadeBy(d, u, m) /\ Shown(y.val, d.len, u, m)
  BY DEF Gives
<1>3. \A i \in 1..n, j \in 1..m : Alike(c, d, t, u, i, j)
  BY <1>1, <1>2, MadeAlike
<1>4. n \in Nat /\ m \in Nat
  BY <1>1, <1>2 DEF MadeBy
<1> SUFFICES ASSUME NEW a \in DOMAIN x.val, NEW b \in DOMAIN y.val
             PROVE  x.val[a] = y.val[b] <=> a = b /\ SameInput(c, d)
  OBVIOUS
<1>5. PICK i \in 1..n, p \in 1..DigestLen : a = (i - 1) * DigestLen + p /\ x.val[a] = t[i][p]
  BY <1>1 DEF Shown
<1>6. PICK j \in 1..m, q \in 1..DigestLen : b = (j - 1) * DigestLen + q /\ y.val[b] = u[j][q]
  BY <1>2 DEF Shown
<1>7. x.val[a] = y.val[b] <=> i = j /\ p = q /\ SameInput(c, d)
  BY <1>3, <1>5, <1>6 DEF Alike
<1>8. a = b => i = j /\ p = q
  <2>1. i \in Nat /\ j \in Nat
    BY <1>4
  <2> QED
    BY <1>5, <1>6, <2>1, PlaceUnique
<1>9. i = j /\ p = q => a = b
  BY <1>5, <1>6
<1> QED
  BY <1>7, <1>8, <1>9

-----------------------------------------------------------------------------
(* The invariant: what is derived is what its call gives, all of it of one *)
(* function, and a MAC under way has the context of what it was fed.       *)

Held(e) == Typed(e.call) /\ e.out = DeriveCall(e.call)
Macs(e) == Kind(e.call.op) = "hmac"
DerivedIs ==
  \/ derived = << >>
  \/ \E e : derived = << e >> /\ Held(e)
  \/ \E e, f : derived = << e, f >> /\ Held(e) /\ Held(f) /\ Kind(e.call.op) = Kind(f.call.op)
MacIs ==
  \/ mac = << >>
  \/ /\ \E key, fed : /\ IsString(key) /\ IsString(fed)
                      /\ mac = << [key |-> key, fed |-> fed, ctx |-> Context(key, fed)] >>
     /\ derived = << >> \/ \E e : derived = << e >> /\ Held(e) /\ Macs(e)
ScheduleInv == DerivedIs /\ MacIs

LEMMA InvApart ==
  ASSUME DerivedIs
  PROVE  DerivedApart
<1>1. \A i \in DOMAIN derived : Held(derived[i])
  BY DEF DerivedIs
<1>2. \A i, j \in DOMAIN derived : Kind(derived[i].call.op) = Kind(derived[j].call.op)
  BY DEF DerivedIs
<1> SUFFICES ASSUME NEW i \in DOMAIN derived, NEW j \in DOMAIN derived
             PROVE  LET c == derived[i].call
                        d == derived[j].call
                        x == derived[i].out
                        y == derived[j].out
                    IN  /\ x.ok <=> Succeeds(c)
                        /\ x.ok => Len(x.val) = c.len
                        /\ x.ok /\ y.ok /\ Comparable(c, d) /\ TakenWhole(c) /\ TakenWhole(d) =>
                             \A a \in DOMAIN x.val, b \in DOMAIN y.val :
                               x.val[a] = y.val[b] <=> a = b /\ SameInput(c, d)
  BY DEF DerivedApart, Succeeds
<1> DEFINE c == derived[i].call
           d == derived[j].call
           x == derived[i].out
           y == derived[j].out
<1>3. Typed(c) /\ Typed(d) /\ x = DeriveCall(c) /\ y = DeriveCall(d) /\ Kind(c.op) = Kind(d.op)
  BY <1>1, <1>2 DEF Held
<1> HIDE DEF c, d, x, y
<1>4. (x.ok <=> Succeeds(c)) /\ (x.ok => Gives(c, x)) /\ (y.ok => Gives(d, y))
  BY <1>3, DeriveGives
<1>5. x.ok => Len(x.val) = c.len
  BY <1>4 DEF Gives, Shown
<1>6. ASSUME x.ok, y.ok, Comparable(c, d), TakenWhole(c), TakenWhole(d)
      PROVE  \A a \in DOMAIN x.val, b \in DOMAIN y.val :
               x.val[a] = y.val[b] <=> a = b /\ SameInput(c, d)
  BY <1>3, <1>4, <1>6, OutputsApart
<1> QED
  BY <1>4, <1>5, <1>6 DEF c, d, x, y

LEMMA AppendOne ==
  ASSUME NEW f, NEW e
  PROVE  Append(<< f >>, e) = << f, e >>
<1> DEFINE s == << f >>
           t == Append(s, e)
           S == {f, e}
<1>1. s \in Seq(S) /\ e \in S /\ Len(s) = 1 /\ s[1] = f /\ << f, e >> \in Seq(S)
      /\ Len(<< f, e >>) = 2 /\ << f, e >>[1] = f /\ << f, e >>[2] = e
  OBVIOUS
<1> HIDE DEF s, S
<1>2. /\ t \in Seq(S) /\ Len(t) = Len(s) + 1
      /\ \A i \in 1..Len(s) : t[i] = s[i]
      /\ t[Len(s) + 1] = e
  <2>1. s \in Seq(S) /\ e \in S
    BY <1>1
  <2> QED
    BY ONLY <2>1, AppendProperties
<1> HIDE DEF t
<1>3. Len(t) = 2 /\ t[1] = f /\ t[2] = e
  BY <1>1, <1>2
<1> DEFINE u == << f, e >>
<1>4. u \in Seq(S) /\ Len(u) = 2 /\ u[1] = f /\ u[2] = e
  BY <1>1
<1> HIDE DEF u
<1>5. Len(t) = Len(u) /\ \A i \in 1..Len(t) : t[i] = u[i]
  BY <1>3, <1>4
<1>6. t = u
  BY <1>2, <1>4, <1>5, SeqEqual
<1> QED
  BY <1>6 DEF t, s, u

(* A derivation of a kind there is room for keeps to the invariant.        *)
LEMMA AddHolds ==
  ASSUME DerivedIs, NEW e, Held(e), Len(derived) < 2,
         \A i \in DOMAIN derived : Kind(derived[i].call.op) = Kind(e.call.op),
         derived' = Append(derived, e)
  PROVE  DerivedIs'
<1>1. CASE derived = << >>
  <2>1. derived' = << e >>
    BY <1>1
  <2> QED
    BY <2>1 DEF DerivedIs, Held
<1>2. CASE \E f : derived = << f >> /\ Held(f)
  <2>1. PICK f : derived = << f >> /\ Held(f)
    BY <1>2
  <2>2. Kind(f.call.op) = Kind(e.call.op)
    <3>1. 1 \in DOMAIN derived /\ derived[1] = f
      BY <2>1
    <3> QED
      BY <3>1
  <2>3. derived' = << f, e >>
    BY <2>1, AppendOne
  <2> QED
    BY <2>1, <2>2, <2>3 DEF DerivedIs, Held
<1>3. CASE \E f, g : derived = << f, g >>
  BY <1>3
<1> QED
  BY <1>1, <1>2, <1>3 DEF DerivedIs

LEMMA ScheduleStarts ==
  ScheduleInit => ScheduleInv
BY DEF ScheduleInit, ScheduleInv, DerivedIs, MacIs

LEMMA DeriveKeyHolds ==
  ASSUME ScheduleInv, DeriveKey
  PROVE  ScheduleInv'
<1>1. PICK c \in Derivations : Room(c.op) /\ Add(c, DeriveCall(c))
  BY DEF DeriveKey
<1> DEFINE e == [call |-> c, out |-> DeriveCall(c)]
<1>2. Typed(c)
  BY DerivationAssumption DEF Typed, IsString
<1>3. e.call = c /\ e.out = DeriveCall(c)
  OBVIOUS
<1>4. derived' = Append(derived, e)
  BY <1>1 DEF Add
<1> HIDE DEF e
<1>5. Held(e)
  BY <1>2, <1>3 DEF Held
<1>6. Len(derived) < 2 /\ \A i \in DOMAIN derived : Kind(derived[i].call.op) = Kind(e.call.op)
  BY <1>1, <1>3 DEF Room
<1>7. DerivedIs'
  BY <1>4, <1>5, <1>6, AddHolds DEF ScheduleInv
<1>8. mac' = << >>
  BY <1>1 DEF Room, DeriveKey
<1> QED
  BY <1>7, <1>8 DEF ScheduleInv, MacIs

LEMMA MacNewHolds ==
  ASSUME ScheduleInv, MacNew
  PROVE  ScheduleInv'
<1>1. PICK key \in MacKeys : mac' = << [key |-> key, fed |-> << >>, ctx |-> HmacNew(key)] >>
  BY DEF MacNew
<1>2. IsString(key) /\ IsString(<< >>)
  BY DerivationAssumption, Empty DEF IsString
<1>3. HmacNew(key) = Context(key, << >>)
  BY <1>2, ContextNew
<1>4. /\ Len(derived) < 2 /\ derived' = derived
      /\ \A i \in DOMAIN derived : Kind(derived[i].call.op) = "hmac"
  BY DEF MacNew, Room, Kind
<1>5. derived = << >> \/ \E e : derived = << e >> /\ Held(e) /\ Macs(e)
  BY <1>4 DEF ScheduleInv, DerivedIs, Macs
<1>6. MacIs'
  BY <1>1, <1>2, <1>3, <1>4, <1>5 DEF MacIs, Held
<1>7. DerivedIs'
  BY <1>4 DEF ScheduleInv, DerivedIs
<1> QED
  BY <1>6, <1>7 DEF ScheduleInv

LEMMA MacUpdateHolds ==
  ASSUME ScheduleInv, MacUpdate
  PROVE  ScheduleInv'
<1>1. PICK p \in Pieces :
        mac' = << [key |-> mac[1].key, fed |-> mac[1].fed \o p, ctx |-> HmacUpdate(mac[1].ctx, p)] >>
  BY DEF MacUpdate
<1>2. mac # << >> /\ derived' = derived
  BY DEF MacUpdate
<1>3. PICK key, fed : /\ IsString(key) /\ IsString(fed)
                      /\ mac = << [key |-> key, fed |-> fed, ctx |-> Context(key, fed)] >>
  BY <1>2 DEF ScheduleInv, MacIs
<1>4. IsString(p)
  BY DerivationAssumption DEF IsString
<1>5. HmacUpdate(Context(key, fed), p) = Context(key, fed \o p) /\ IsString(fed \o p)
  BY <1>3, <1>4, ContextUpdate, Joined
<1>6. mac' = << [key |-> key, fed |-> fed \o p, ctx |-> HmacUpdate(Context(key, fed), p)] >>
  <2>1. /\ mac[1].key = key /\ mac[1].fed = fed /\ mac[1].ctx = Context(key, fed)
    BY <1>3
  <2> QED
    BY <1>1, <2>1, Zenon
<1>7. mac' = << [key |-> key, fed |-> fed \o p, ctx |-> Context(key, fed \o p)] >>
  BY <1>5, <1>6
<1>8. derived = << >> \/ \E e : derived = << e >> /\ Held(e) /\ Macs(e)
  BY <1>2 DEF ScheduleInv, MacIs
<1>9. MacIs'
  BY <1>2, <1>3, <1>5, <1>7, <1>8 DEF MacIs
<1>10. DerivedIs'
  BY <1>2 DEF ScheduleInv, DerivedIs
<1> QED
  BY <1>9, <1>10 DEF ScheduleInv

LEMMA MacFinalizeHolds ==
  ASSUME ScheduleInv, MacFinalize
  PROVE  ScheduleInv'
<1>1. PICK key, fed : /\ IsString(key) /\ IsString(fed)
                      /\ mac = << [key |-> key, fed |-> fed, ctx |-> Context(key, fed)] >>
  BY DEF ScheduleInv, MacIs, MacFinalize
<1> DEFINE c == [op |-> "hmac", key |-> key, data |-> fed, n |-> 0, len |-> DigestLen]
           e == [call |-> c, out |-> Ok(HmacFinalize(Context(key, fed)))]
<1>2. mac[1].key = key /\ mac[1].fed = fed /\ mac[1].ctx = Context(key, fed)
  BY <1>1
<1>3. derived' = Append(derived, e)
  BY <1>2 DEF MacFinalize, Add
<1>4. /\ c.op = "hmac" /\ c.key = key /\ c.data = fed /\ c.n = 0 /\ c.len = DigestLen
      /\ e.call = c /\ e.out = Ok(HmacFinalize(Context(key, fed)))
  OBVIOUS
<1> HIDE DEF c, e
<1>5. Typed(c)
  BY <1>1, <1>4, SizesAre DEF Typed
<1>6. e.out = DeriveCall(c)
  BY <1>4, ContextFinalize DEF DeriveCall
<1>7. Held(e) /\ Kind(e.call.op) = "hmac"
  BY <1>4, <1>5, <1>6 DEF Held, Kind
<1>8. derived = << >> \/ \E f : derived = << f >> /\ Held(f) /\ Macs(f)
  BY <1>1 DEF ScheduleInv, MacIs
<1>9. Len(derived) < 2 /\ \A i \in DOMAIN derived : Kind(derived[i].call.op) = Kind(e.call.op)
  <2>1. CASE derived = << >>
    BY <2>1
  <2>2. CASE \E f : derived = << f >> /\ Held(f) /\ Macs(f)
    <3>1. PICK f : derived = << f >> /\ Macs(f)
      BY <2>2
    <3>2. Len(derived) = 1 /\ \A i \in DOMAIN derived : derived[i] = f
      BY <3>1
    <3> QED
      BY <1>7, <3>1, <3>2 DEF Macs
  <2> QED
    BY <1>8, <2>1, <2>2
<1>10. DerivedIs'
  BY <1>3, <1>7, <1>9, AddHolds DEF ScheduleInv
<1>11. mac' = << >>
  BY DEF MacFinalize
<1> QED
  BY <1>10, <1>11 DEF ScheduleInv, MacIs

(* A call that derives a key gives as many bytes as were asked of it, or   *)
(* none when the counter has no number for its last round; no byte of a    *)
(* key comes twice, and two keys share bytes only where they are of the    *)
(* same inputs, at the same place; a MAC in pieces is the MAC of all of    *)
(* them (hmac_sm3, HmacSm3, sign_concat, hkdf_expand, kdf_with_info,       *)
(* pbkdf2), for keys, inputs and lengths of every size.                    *)
THEOREM KeysAreApart ==
  ScheduleSpec => []DerivedApart
<1>1. ScheduleInit => ScheduleInv
  BY ScheduleStarts
<1>2. ScheduleInv /\ [ScheduleNext]_scheduleVars => ScheduleInv'
  <2> SUFFICES ASSUME ScheduleInv, [ScheduleNext]_scheduleVars PROVE ScheduleInv'
    OBVIOUS
  <2>1. CASE DeriveKey
    BY <2>1, DeriveKeyHolds
  <2>2. CASE MacNew
    BY <2>2, MacNewHolds
  <2>3. CASE MacUpdate
    BY <2>3, MacUpdateHolds
  <2>4. CASE MacFinalize
    BY <2>4, MacFinalizeHolds
  <2>5. CASE UNCHANGED scheduleVars
    BY <2>5 DEF scheduleVars, ScheduleInv, DerivedIs, MacIs
  <2> QED
    BY <2>1, <2>2, <2>3, <2>4, <2>5 DEF ScheduleNext
<1>3. ScheduleInv => DerivedApart
  BY InvApart DEF ScheduleInv
<1> QED
  BY <1>1, <1>2, <1>3, PTL DEF ScheduleSpec

-----------------------------------------------------------------------------
(* The paddings make strings of strings.                                   *)

PadLen(n) == B - (n % B)

LEMMA PadLenIs ==
  ASSUME NEW n \in Nat
  PROVE  PadLen(n) \in 1..B /\ n % B \in 0..(B - 1)
BY BlockAssumption DEF PadLen

Run(n) == [i \in 1..n |-> Num(n)]

LEMMA RunIs ==
  ASSUME NEW n \in Nat
  PROVE  IsString(Run(n)) /\ Len(Run(n)) = n /\ \A i \in 1..n : Run(n)[i] = Num(n)
<1>1. Run(n) = [i \in 1..n |-> Run(n)[i]] /\ \A i \in 1..n : Run(n)[i] = Num(n)
  BY DEF Run
<1> QED
  BY <1>1, MadeString

LEMMA PadIs ==
  ASSUME NEW data, IsString(data)
  PROVE  Pkcs7Pad(data, B) = data \o Run(PadLen(Len(data)))
BY DEF Pkcs7Pad, Run, PadLen

LEMMA AppendMakes ==
  ASSUME NEW s, IsString(s), NEW e
  PROVE  LET t == Append(s, e)
             n == Len(s)
         IN  /\ t = [i \in 1..(n + 1) |-> t[i]]
             /\ \A i \in 1..n : t[i] = s[i]
             /\ t[n + 1] = e
<1> DEFINE S == Range(s) \cup {e}
           t == Append(s, e)
           n == Len(s)
<1>1. s \in Seq(S) /\ e \in S
  BY SeqMonotonic DEF IsString
<1> HIDE DEF S
<1>2. /\ t \in Seq(S) /\ Len(t) = n + 1
      /\ \A i \in 1..n : t[i] = s[i]
      /\ t[n + 1] = e
  BY <1>1, AppendProperties
<1> HIDE DEF t, n
<1>3. t = [i \in 1..(n + 1) |-> t[i]]
  BY <1>2, LenProperties
<1> QED
  BY <1>2, <1>3 DEF t, n

LEMMA PadString ==
  ASSUME NEW data, IsString(data), NEW type, Pad(data, type).ok
  PROVE  IsString(Pad(data, type).val)
<1>1. CASE type = "none"
  <2>1. Pad(data, type) = NoPadding(data)
    BY <1>1 DEF Pad
  <2>2. CASE Len(data) % B = 0
    BY <2>1, <2>2 DEF NoPadding, Ok
  <2>3. CASE Len(data) % B # 0
    BY <2>1, <2>3 DEF NoPadding, Err
  <2> QED
    BY <2>2, <2>3
<1>2. CASE type # "none"
  <2> DEFINE n == PadLen(Len(data))
             r == Run(n)
  <2>1. Pad(data, type).val = data \o r
    BY <1>2, PadIs DEF Pad, Ok
  <2>2. n \in Nat
    BY StringProperties, PadLenIs
  <2> HIDE DEF n
  <2>3. IsString(r)
    BY <2>2, RunIs
  <2> HIDE DEF r
  <2> QED
    BY <2>1, <2>3, Joined
<1> QED
  BY <1>1, <1>2

(* A string of whole blocks that unpadding takes for padded is the padding *)
(* of what it gives: as many bytes go as padding would have added, and all *)
(* of them are what it would have added.                                   *)
LEMMA WholeLess ==
  ASSUME NEW len \in Nat, NEW n \in 1..B, len % B = 0, n <= len
  PROVE  len - n \in Nat /\ PadLen(len - n) = n
<1>1. B \in Nat \ {0}
  BY BlockAssumption
<1> DEFINE q == len \div B
           m == len - n
           k == m \div B
           r == m % B
<1>2. len = B * q /\ q \in Nat
  BY <1>1
<1>3. m \in Nat
  OBVIOUS
<1> HIDE DEF m
<1>4. m = B * k + r /\ r \in 0..(B - 1) /\ k \in Nat
  BY <1>1, <1>3
<1>5. B * q = B * k + r + n /\ r + n \in 1..(2 * B - 1)
  BY <1>1, <1>2, <1>4 DEF m
<1> HIDE DEF q, k, r
<1>6. q > k
  <2> SUFFICES ASSUME q <= k PROVE FALSE
    BY <1>2, <1>4
  <2>1. B * q <= B * k
    BY <1>1, <1>2, <1>4
  <2> QED
    BY <1>1, <1>2, <1>4, <1>5, <2>1
<1>7. q < k + 2
  <2> SUFFICES ASSUME q >= k + 2 PROVE FALSE
    BY <1>2, <1>4
  <2>1. B * q >= B * (k + 2)
    BY <1>1, <1>2, <1>4
  <2>2. B * (k + 2) = B * k + 2 * B
    BY <1>1, <1>4
  <2> QED
    BY <1>1, <1>2, <1>4, <1>5, <2>1, <2>2
<1>8. q = k + 1
  BY <1>2, <1>4, <1>6, <1>7
<1>9. B * q = B * k + B
  BY <1>1, <1>4, <1>8
<1>10. r = B - n
  BY <1>1, <1>4, <1>5, <1>9
<1> QED
  BY <1>1, <1>3, <1>10 DEF PadLen, m, r

LEMMA UnpadIs ==
  ASSUME NEW data, IsString(data), Len(data) % B = 0, NEW type, Unpad(data, type).ok
  PROVE  Pad(Unpad(data, type).val, type) = Ok(data)
<1>1. CASE type = "none"
  <2>1. Unpad(data, type) = Ok(data)
    BY <1>1 DEF Unpad, NoPadding
  <2>2. Pad(data, type) = Ok(data)
    BY <1>1 DEF Pad, NoPadding
  <2> QED
    BY <2>1, <2>2 DEF Ok
<1>2. CASE type # "none"
  <2> DEFINE len == Len(data)
             n   == Value(Last(data))
             val == SubSeq(data, 1, len - n)
             r   == Run(n)
  <2>1. Unpad(data, type) = Pkcs7Unpad(data) /\ Pad(val, type) = Ok(Pkcs7Pad(val, B))
    BY <1>2 DEF Unpad, Pad
  <2>2. ~(Len(data) = 0 \/ ~IsNum(Last(data)))
    <3> SUFFICES ASSUME Len(data) = 0 \/ ~IsNum(Last(data)) PROVE FALSE
      OBVIOUS
    <3>1. Pkcs7Unpad(data) = Err("InvalidPadding")
      BY DEF Pkcs7Unpad
    <3> QED
      BY <2>1, <3>1 DEF Err
  <2>3. n \in 1..B /\ n <= len /\ \A i \in 0..(n - 1) : data[len - i] = Num(n)
    <3> SUFFICES ASSUME ~(n \in 1..B /\ n <= len /\ \A i \in 0..(n - 1) : data[len - i] = Num(n))
                 PROVE  FALSE
      OBVIOUS
    <3>1. Pkcs7Unpad(data) = Err("InvalidPadding")
      BY <2>2 DEF Pkcs7Unpad
    <3> QED
      BY <2>1, <3>1 DEF Err
  <2>4. Unpad(data, type) = Ok(val)
    BY <2>1, <2>2, <2>3 DEF Pkcs7Unpad
  <2> HIDE DEF n
  <2>5. len \in Nat /\ n \in Nat /\ len - n \in Nat /\ PadLen(len - n) = n
    BY <2>3, StringProperties, WholeLess, BlockAssumption
  <2>6. IsString(val) /\ Len(val) = len - n /\ \A i \in 1..(len - n) : val[i] = data[i]
    <3>1. 1..(len - n) \subseteq 1..len
      BY <2>3, <2>5
    <3> DEFINE S == Range(data)
    <3>2. data \in Seq(S)
      BY DEF IsString
    <3> HIDE DEF S
    <3>3. val \in Seq(S) /\ Len(val) = len - n /\ \A i \in 1..(len - n) : val[i] = data[i]
      BY <2>3, <2>5, <3>1, <3>2, SubSeqProperties
    <3> QED
      BY <3>3, StringIn
  <2>7. IsString(r) /\ Len(r) = n /\ \A i \in 1..n : r[i] = Num(n)
    BY <2>5, RunIs
  <2>8. Pkcs7Pad(val, B) = val \o r
    BY <2>5, <2>6, PadIs
  <2> HIDE DEF val, r
  <2>9. /\ IsString(val \o r) /\ Len(val \o r) = Len(val) + Len(r)
        /\ \A i \in 1..(Len(val) + Len(r)) :
             (val \o r)[i] = IF i <= Len(val) THEN val[i] ELSE r[i - Len(val)]
    BY ONLY <2>6, <2>7, Joined, Zenon
  <2>10. Len(val \o r) = len
    BY <2>5, <2>6, <2>7, <2>9
  <2>11. ASSUME NEW i \in 1..len PROVE (val \o r)[i] = data[i]
    <3> DEFINE x == val \o r
    <3>3. /\ Len(val) = len - n
          /\ \A j \in 1..len : x[j] = IF j <= len - n THEN val[j] ELSE r[j - (len - n)]
      BY <2>5, <2>6, <2>7, <2>9
    <3> HIDE DEF x
    <3>1. CASE i <= len - n
      <4>1. x[i] = val[i] /\ val[i] = data[i]
        BY <2>5, <2>6, <3>1, <3>3
      <4> QED
        BY <4>1 DEF x
    <3>2. CASE i > len - n
      <4>1. i - (len - n) \in 1..n /\ len - i \in 0..(n - 1) /\ len - (len - i) = i
        BY <2>5, <3>2
      <4>2. x[i] = Num(n)
        BY <2>5, <2>7, <3>2, <3>3, <4>1
      <4>3. data[i] = Num(n)
        BY <2>3, <4>1
      <4> QED
        BY <4>2, <4>3 DEF x
    <3>4. i <= len - n \/ i > len - n
      BY ONLY <2>5, i \in 1..len
    <3> QED
      BY ONLY <3>1, <3>2, <3>4
  <2>12. val \o r = data
    BY <2>9, <2>10, <2>11, SameString
  <2>13. Unpad(data, type).val = val
    BY <2>4 DEF Ok
  <2> QED
    BY <2>1, <2>8, <2>12, <2>13
<1> QED
  BY <1>1, <1>2

-----------------------------------------------------------------------------
(* Strings made place by place, and sums of strings.                       *)

LEMMA Tuple ==
  ASSUME NEW n \in Nat, NEW f, f = [i \in 1..n |-> f[i]]
  PROVE  IsString(f) /\ Len(f) = n /\ SubSeq(f, 1, n) = f
<1>1. IsString(f) /\ Len(f) = n
  BY MadeString
<1> QED
  BY <1>1, SubSeqFull DEF IsString

LEMMA StringMade ==
  ASSUME NEW s, IsString(s)
  PROVE  s = [i \in 1..Len(s) |-> s[i]]
BY LenProperties DEF IsString

LEMMA PartIs ==
  ASSUME NEW s, IsString(s), NEW a \in Nat \ {0}, NEW b \in Nat, b <= Len(s), a <= b + 1
  PROVE  /\ IsString(SubSeq(s, a, b)) /\ Len(SubSeq(s, a, b)) = b - a + 1
         /\ \A i \in 1..(b - a + 1) : SubSeq(s, a, b)[i] = s[a + i - 1]
<1>1. Len(s) \in Nat /\ \A i \in 1..Len(s) : s[i] \in Range(s)
  BY StringProperties
<1>2. \A i \in a..b : s[i] \in Range(s)
  BY <1>1
<1>3. /\ SubSeq(s, a, b) \in Seq(Range(s))
      /\ Len(SubSeq(s, a, b)) = IF a <= b THEN b - a + 1 ELSE 0
      /\ \A i \in 1..(b - a + 1) : SubSeq(s, a, b)[i] = s[a + i - 1]
  BY <1>2, SubSeqProperties
<1>4. Len(SubSeq(s, a, b)) = b - a + 1
  BY <1>3
<1> QED
  BY <1>3, <1>4, StringIn

LEMMA SumIs ==
  ASSUME NEW x, NEW y, IsString(x), IsString(y), Len(x) <= Len(y)
  PROVE  /\ IsString(Xor(x, y)) /\ Len(Xor(x, y)) = Len(x)
         /\ \A i \in 1..Len(x) : Xor(x, y)[i] = SymDiff(x[i], y[i])
<1> DEFINE n == Len(x)
           f == [i \in 1..n |-> SymDiff(x[i], y[i])]
<1>1. n \in Nat /\ Len(y) \in Nat
  BY StringProperties
<1>2. Min({Len(x), Len(y)}) = n
  BY <1>1, MinOfTwo
<1>3. Xor(x, y) = SubSeq(f, 1, n)
  BY <1>2 DEF Xor, Bytes
<1>4. f = [i \in 1..n |-> f[i]] /\ \A i \in 1..n : f[i] = SymDiff(x[i], y[i])
  OBVIOUS
<1> HIDE DEF f
<1>5. IsString(f) /\ Len(f) = n /\ SubSeq(f, 1, n) = f
  BY <1>1, <1>4, Tuple
<1> QED
  BY <1>3, <1>4, <1>5

LEMMA SymDiffBack ==
  ASSUME NEW a, NEW b
  PROVE  SymDiff(SymDiff(a, b), b) = a
BY DEF SymDiff

LEMMA SumBack ==
  ASSUME NEW x, NEW y, IsString(x), IsString(y), Len(x) <= Len(y)
  PROVE  Xor(Xor(x, y), y) = x
<1> DEFINE z == Xor(x, y)
<1>1. /\ IsString(z) /\ Len(z) = Len(x)
      /\ \A i \in 1..Len(x) : z[i] = SymDiff(x[i], y[i])
  BY SumIs
<1> HIDE DEF z
<1>2. /\ IsString(Xor(z, y)) /\ Len(Xor(z, y)) = Len(x)
      /\ \A i \in 1..Len(x) : Xor(z, y)[i] = SymDiff(z[i], y[i])
  BY <1>1, SumIs
<1>3. \A i \in 1..Len(x) : Xor(z, y)[i] = x[i]
  BY <1>1, <1>2, SymDiffBack
<1>4. Xor(z, y) = x
  BY <1>2, <1>3, SameString
<1> QED
  BY <1>4 DEF z

LEMMA IntoIs ==
  ASSUME NEW x, NEW y, IsString(x), IsString(y)
  PROVE  /\ IsString(XorInto(x, y)) /\ Len(XorInto(x, y)) = Len(x)
         /\ \A i \in 1..Len(x) :
              XorInto(x, y)[i] = IF i <= Len(y) THEN SymDiff(x[i], y[i]) ELSE x[i]
<1> DEFINE n == Len(x)
           f == [i \in 1..n |-> IF i <= Len(y) THEN SymDiff(x[i], y[i]) ELSE x[i]]
<1>1. n \in Nat
  BY StringProperties
<1>3. XorInto(x, y) = SubSeq(f, 1, n)
  BY DEF XorInto, Bytes
<1>4. /\ f = [i \in 1..n |-> f[i]]
      /\ \A i \in 1..n : f[i] = IF i <= Len(y) THEN SymDiff(x[i], y[i]) ELSE x[i]
  OBVIOUS
<1> HIDE DEF f
<1>5. IsString(f) /\ Len(f) = n /\ SubSeq(f, 1, n) = f
  BY <1>1, <1>4, Tuple
<1> QED
  BY <1>3, <1>4, <1>5

-----------------------------------------------------------------------------
(* Strings without a byte that the inverse of the cipher made.  The cipher *)
(* makes of such a string a fresh block, that its inverse undoes.          *)

Clean(x) == IsString(x) /\ \A i \in 1..Len(x) : \A a \in x[i] : a[1] # "D"
IsBlock(x) == Clean(x) /\ Len(x) = B

LEMMA CleanSum ==
  ASSUME NEW x, NEW y, Clean(x), Clean(y), Len(x) <= Len(y)
  PROVE  Clean(Xor(x, y)) /\ Len(Xor(x, y)) = Len(x)
<1>1. /\ IsString(Xor(x, y)) /\ Len(Xor(x, y)) = Len(x)
      /\ \A i \in 1..Len(x) : Xor(x, y)[i] = SymDiff(x[i], y[i])
  BY SumIs DEF Clean
<1>2. Len(x) \in Nat /\ Len(y) \in Nat
  BY StringProperties DEF Clean
<1>3. ASSUME NEW i \in 1..Len(x), NEW a \in SymDiff(x[i], y[i]) PROVE a[1] # "D"
  <2>1. i \in 1..Len(y)
    BY <1>2
  <2> QED
    BY <2>1 DEF SymDiff, Clean
<1> QED
  BY <1>1, <1>3 DEF Clean

LEMMA CleanInto ==
  ASSUME NEW x, NEW y, Clean(x), Clean(y)
  PROVE  Clean(XorInto(x, y)) /\ Len(XorInto(x, y)) = Len(x)
<1>1. /\ IsString(XorInto(x, y)) /\ Len(XorInto(x, y)) = Len(x)
      /\ \A i \in 1..Len(x) :
           XorInto(x, y)[i] = IF i <= Len(y) THEN SymDiff(x[i], y[i]) ELSE x[i]
  BY IntoIs DEF Clean
<1>2. Len(x) \in Nat /\ Len(y) \in Nat
  BY StringProperties DEF Clean
<1>3. ASSUME NEW i \in 1..Len(x), NEW a \in XorInto(x, y)[i] PROVE a[1] # "D"
  <2>1. CASE i <= Len(y)
    <3>1. i \in 1..Len(y)
      BY <1>2, <2>1
    <3> QED
      BY <1>1, <2>1, <3>1 DEF SymDiff, Clean
  <2>2. CASE ~ (i <= Len(y))
    BY <1>1, <2>2 DEF Clean
  <2> QED
    BY <2>1, <2>2
<1> QED
  BY <1>1, <1>3 DEF Clean

LEMMA CleanJoin ==
  ASSUME NEW x, NEW y, Clean(x), Clean(y)
  PROVE  Clean(x \o y) /\ Len(x \o y) = Len(x) + Len(y)
<1>1. /\ IsString(x \o y) /\ Len(x \o y) = Len(x) + Len(y)
      /\ \A i \in 1..(Len(x) + Len(y)) :
           (x \o y)[i] = IF i <= Len(x) THEN x[i] ELSE y[i - Len(x)]
  BY Joined DEF Clean
<1>2. Len(x) \in Nat /\ Len(y) \in Nat
  BY StringProperties DEF Clean
<1>3. ASSUME NEW i \in 1..(Len(x) + Len(y)), NEW a \in (x \o y)[i] PROVE a[1] # "D"
  <2>1. CASE i <= Len(x)
    BY <1>1, <1>2, <2>1 DEF Clean
  <2>2. CASE ~ (i <= Len(x))
    <3>1. i - Len(x) \in 1..Len(y)
      BY <1>2, <2>2
    <3>2. (x \o y)[i] = y[i - Len(x)]
      BY <1>1, <2>2
    <3> QED
      BY <1>3, <3>1, <3>2 DEF Clean
  <2> QED
    BY <2>1, <2>2
<1> QED
  BY <1>1, <1>3 DEF Clean

LEMMA CleanPart ==
  ASSUME NEW s, Clean(s), NEW a \in Nat \ {0}, NEW b \in Nat, b <= Len(s), a <= b + 1
  PROVE  Clean(SubSeq(s, a, b)) /\ Len(SubSeq(s, a, b)) = b - a + 1
<1>1. /\ IsString(SubSeq(s, a, b)) /\ Len(SubSeq(s, a, b)) = b - a + 1
      /\ \A i \in 1..(b - a + 1) : SubSeq(s, a, b)[i] = s[a + i - 1]
  BY PartIs DEF Clean
<1>2. Len(s) \in Nat
  BY StringProperties DEF Clean
<1>3. \A i \in 1..(b - a + 1) : a + i - 1 \in 1..Len(s)
  BY <1>2
<1>4. \A i \in 1..Len(s) : \A t \in s[i] : t[1] # "D"
  BY DEF Clean
<1> QED
  BY <1>1, <1>3, <1>4 DEF Clean

LEMMA CleanMade ==
  ASSUME NEW n \in Nat, NEW f, f = [i \in 1..n |-> f[i]],
         \A i \in 1..n : \A a \in f[i] : a[1] # "D"
  PROVE  Clean(f) /\ Len(f) = n
BY Tuple DEF Clean

LEMMA CleanNum ==
  ASSUME NEW v, NEW a \in Num(v)
  PROVE  a[1] # "D"
BY DEF Num

LEMMA BlockLen == B \in Nat /\ B >= 3 /\ B <= 255
BY BlockAssumption

LEMMA CleanZeros ==
  ASSUME NEW n \in Nat
  PROVE  Clean(Zeros(n)) /\ Len(Zeros(n)) = n
BY ZerosAre DEF Clean, Zero

LEMMA ZeroIsBlock == IsBlock(ZeroBlock)
<1>1. ZeroBlock = Zeros(B)
  BY DEF ZeroBlock, Zeros
<1> QED
  BY <1>1, BlockLen, CleanZeros DEF IsBlock

LEMMA CleanEmpty == Clean(<< >>)
BY Empty DEF Clean

-----------------------------------------------------------------------------
(* A packed string holds every byte, and what the cipher makes of a packed *)
(* string holds it.                                                        *)

LEMMA NamedIs ==
  ASSUME NEW a, NEW i, NEW j
  PROVE  /\ Named(a, i)[1] = a[1] /\ Named(a, i)[2] = a[2] /\ Named(a, i)[3] = a[3]
         /\ Named(Named(a, i), j) = Named(a, j)
BY DEF Named

(* The bytes i of the blocks that are whole in x.                          *)
Marks(x, i) == {Named(a, i) : a \in Whole(x)}

LEMMA PackIs ==
  ASSUME NEW x, IsString(x)
  PROVE  /\ IsString(Pack(x)) /\ Len(Pack(x)) = Len(x) + 1
         /\ Pack(x)[1] = Marks(x, 0)
         /\ \A i \in 1..Len(x) : Pack(x)[i + 1] = x[i] \ Marks(x, i)
<1> DEFINE n == Len(x)
           f == [i \in 1..n |-> x[i] \ Marks(x, i)]
           s == << Marks(x, 0) >>
<1>1. n \in Nat
  BY StringProperties
<1>2. Pack(x) = s \o SubSeq(f, 1, n)
  BY DEF Pack, PackOf, Bytes, Marks
<1>3. f = [i \in 1..n |-> f[i]] /\ \A i \in 1..n : f[i] = x[i] \ Marks(x, i)
  OBVIOUS
<1>4. IsString(s) /\ Len(s) = 1 /\ s[1] = Marks(x, 0)
  BY One
<1> HIDE DEF f, s, n
<1>5. IsString(f) /\ Len(f) = n /\ SubSeq(f, 1, n) = f
  BY <1>1, <1>3, Tuple
<1>6. /\ IsString(s \o f) /\ Len(s \o f) = Len(s) + Len(f)
      /\ \A i \in 1..(Len(s) + Len(f)) :
           (s \o f)[i] = IF i <= Len(s) THEN s[i] ELSE f[i - Len(s)]
  BY <1>4, <1>5, Joined
<1>7. Pack(x) = s \o f
  BY <1>2, <1>5
<1>8. (s \o f)[1] = s[1]
  BY <1>1, <1>4, <1>5, <1>6
<1>9. ASSUME NEW i \in 1..n PROVE (s \o f)[i + 1] = f[i]
  <2>1. i + 1 \in 1..(1 + n) /\ ~ (i + 1 <= 1) /\ (i + 1) - 1 = i
    BY <1>1
  <2>2. (s \o f)[i + 1] = f[(i + 1) - 1]
    BY <1>4, <1>5, <1>6, <2>1
  <2> QED
    BY <2>1, <2>2
<1> QED
  BY <1>1, <1>3, <1>4, <1>5, <1>6, <1>7, <1>8, <1>9 DEF n

LEMMA UnpackIs ==
  ASSUME NEW n \in Nat, NEW p, IsString(p), Len(p) = n + 1
  PROVE  /\ IsString(Unpack(p)) /\ Len(Unpack(p)) = n
         /\ \A i \in 1..n : Unpack(p)[i] = p[i + 1] \cup {Named(a, i) : a \in p[1]}
<1> DEFINE f == [i \in 1..n |-> p[i + 1] \cup {Named(a, i) : a \in p[1]}]
<1>1. Len(p) - 1 = n
  OBVIOUS
<1>2. Unpack(p) = SubSeq(f, 1, n)
  BY <1>1 DEF Unpack, Bytes
<1>3. f = [i \in 1..n |-> f[i]] /\ \A i \in 1..n : f[i] = p[i + 1] \cup {Named(a, i) : a \in p[1]}
  OBVIOUS
<1> HIDE DEF f
<1>4. IsString(f) /\ Len(f) = n /\ SubSeq(f, 1, n) = f
  BY <1>3, Tuple
<1> QED
  BY <1>2, <1>3, <1>4

LEMMA UnpackPack ==
  ASSUME NEW x, IsString(x)
  PROVE  Unpack(Pack(x)) = x
<1> DEFINE p == Pack(x)
           n == Len(x)
<1>1. /\ IsString(p) /\ Len(p) = n + 1 /\ n \in Nat
      /\ p[1] = Marks(x, 0)
      /\ \A i \in 1..n : p[i + 1] = x[i] \ Marks(x, i)
  BY PackIs, StringProperties
<1>2. \A i \in 1..n, a \in Whole(x) : Named(a, i) \in x[i]
  BY DEF Whole
<1> HIDE DEF p
<1>3. /\ IsString(Unpack(p)) /\ Len(Unpack(p)) = n
      /\ \A i \in 1..n : Unpack(p)[i] = p[i + 1] \cup {Named(a, i) : a \in p[1]}
  BY <1>1, UnpackIs
<1>4. ASSUME NEW i \in 1..n PROVE Unpack(p)[i] = x[i]
  <2>1. {Named(a, i) : a \in p[1]} = Marks(x, i)
    BY <1>1, NamedIs DEF Marks
  <2>2. Marks(x, i) \subseteq x[i]
    BY <1>2 DEF Marks
  <2>3. Unpack(p)[i] = p[i + 1] \cup Marks(x, i)
    BY <1>3, <2>1
  <2>4. p[i + 1] = x[i] \ Marks(x, i)
    BY <1>1
  <2> QED
    BY <2>2, <2>3, <2>4
<1>5. Unpack(p) = x
  BY <1>3, <1>4, SameString
<1> QED
  BY <1>5 DEF p

LEMMA ImageIs ==
  ASSUME NEW f, NEW k, NEW x, IsString(x)
  PROVE  LET y == Image(f, k, Pack(x))
         IN  /\ IsString(y) /\ Len(y) = Len(x)
             /\ \A i \in 1..Len(x) : y[i] = {<< f, k, Pack(x), i >>}
<1> DEFINE n == Len(x)
           p == Pack(x)
           g == [i \in 1..n |-> {<< f, k, p, i >>}]
<1>1. n \in Nat /\ Len(p) - 1 = n
  BY PackIs, StringProperties
<1>2. Image(f, k, p) = SubSeq(g, 1, n)
  BY <1>1 DEF Image, Bytes
<1>3. g = [i \in 1..n |-> g[i]] /\ \A i \in 1..n : g[i] = {<< f, k, p, i >>}
  OBVIOUS
<1> HIDE DEF g, p
<1>4. IsString(g) /\ Len(g) = n /\ SubSeq(g, 1, n) = g
  BY <1>1, <1>3, Tuple
<1> QED
  BY <1>2, <1>3, <1>4 DEF p

LEMMA CleanImage ==
  ASSUME NEW f, f # "D", NEW k, NEW x, IsString(x)
  PROVE  Clean(Image(f, k, Pack(x))) /\ Len(Image(f, k, Pack(x))) = Len(x)
<1> DEFINE y == Image(f, k, Pack(x))
<1>1. /\ IsString(y) /\ Len(y) = Len(x)
      /\ \A i \in 1..Len(x) : y[i] = {<< f, k, Pack(x), i >>}
  BY ImageIs
<1> HIDE DEF y
<1>2. \A i \in 1..Len(x) : \A a \in y[i] : a[1] = f
  BY <1>1
<1> QED
  BY <1>1, <1>2 DEF Clean, y

(* A clean string is enciphered to a block of its own.                     *)
LEMMA Enciphered ==
  ASSUME NEW k, NEW x, Clean(x), Len(x) >= 1
  PROVE  E(k, x) = Image("E", k, Pack(x))
<1> DEFINE p == Pack(x)
<1>1. p[1] = Marks(x, 0)
  BY PackIs DEF Clean
<1>2. 1 \in 1..Len(x)
  BY StringProperties DEF Clean
<1>3. \A a \in Whole(x) : a[1] # "D"
  BY <1>2 DEF Whole, Clean
<1>4. \A a \in p[1] : a[1] # "D"
  BY <1>1, <1>3, NamedIs DEF Marks
<1>5. ~ \E a \in p[1] : Undoes("D", k, p, a)
  BY <1>4 DEF Undoes
<1> QED
  BY <1>5 DEF E, Permuted, PermutedOf

LEMMA CleanEnciphered ==
  ASSUME NEW k, NEW x, Clean(x), Len(x) >= 1
  PROVE  Clean(E(k, x)) /\ Len(E(k, x)) = Len(x)
BY Enciphered, CleanImage DEF Clean

LEMMA BlockEnciphered ==
  ASSUME NEW k, NEW x, IsBlock(x)
  PROVE  IsBlock(E(k, x))
BY CleanEnciphered, BlockLen DEF IsBlock

(* The inverse gives the string back.                                      *)
LEMMA Deciphered ==
  ASSUME NEW k, NEW x, Clean(x), Len(x) >= 1
  PROVE  D(k, E(k, x)) = x
<1> DEFINE p == Pack(x)
           n == Len(x)
           y == E(k, x)
           q == Pack(y)
           e(i) == << "E", k, p, i >>
<1>1. n \in Nat /\ 1 \in 1..n /\ IsString(x)
  BY StringProperties DEF Clean
<1>2. IsString(y) /\ Len(y) = n /\ \A i \in 1..n : y[i] = {e(i)}
  BY <1>1, Enciphered, ImageIs
<1> HIDE DEF y, p
<1>3. Len(e(1)) = 4 /\ \A i, j : Named(e(i), j) = e(j)
  BY DEF Named
<1>4. Whole(y) = {e(1)}
  <2>1. e(1) \in Whole(y)
    BY <1>1, <1>2, <1>3 DEF Whole
  <2>2. Whole(y) \subseteq {e(1)}
    BY <1>1, <1>2 DEF Whole
  <2> HIDE DEF e
  <2> QED
    BY <2>1, <2>2
<1>5. /\ IsString(q) /\ Len(q) = n + 1
      /\ q[1] = Marks(y, 0)
      /\ \A i \in 1..n : q[i + 1] = y[i] \ Marks(y, i)
  BY <1>2, PackIs
<1>6. q[1] = {e(0)}
  <2>1. Marks(y, 0) = {Named(e(1), 0)}
    BY <1>4 DEF Marks
  <2> QED
    BY <1>3, <1>5, <2>1
<1>7. ASSUME NEW i \in 1..n PROVE q[i + 1] = Zero
  <2>1. Marks(y, i) = {Named(e(1), i)}
    BY <1>4 DEF Marks
  <2>3. q[i + 1] = y[i] \ Marks(y, i)
    BY <1>5
  <2>4. Named(e(1), i) = e(i) /\ y[i] = {e(i)}
    BY <1>2, <1>3
  <2>2. q[i + 1] = {e(i)} \ {e(i)}
    BY <2>1, <2>3, <2>4
  <2> QED
    BY <2>2 DEF Zero
<1> HIDE DEF q
<1>8. Tail(q) = Zeros(Len(q) - 1)
  <2>1. q \in Seq(Range(q)) /\ q # << >>
    BY <1>1, <1>5, Empty DEF IsString
  <2>2. /\ Tail(q) \in Seq(Range(q)) /\ Len(Tail(q)) = Len(q) - 1
        /\ \A i \in 1..Len(Tail(q)) : Tail(q)[i] = q[i + 1]
    BY <2>1, HeadTailProperties
  <2>3. IsString(Tail(q))
    BY <2>2, StringIn
  <2>9. Len(Tail(q)) = n
    BY <1>1, <1>5, <2>2
  <2>4. IsString(Zeros(n)) /\ Len(Zeros(n)) = n /\ \A i \in 1..n : Zeros(n)[i] = Zero
    BY <1>1, ZerosAre
  <2>5. \A i \in 1..n : Tail(q)[i] = Zeros(n)[i]
    BY <1>7, <2>2, <2>9, <2>4
  <2>6. Tail(q) = Zeros(n)
    BY <2>3, <2>9, <2>4, <2>5, SameString
  <2>7. Len(q) - 1 = n
    BY <1>1, <1>5
  <2> QED
    BY <2>6, <2>7
<1>9. Undoes("E", k, q, e(0)) /\ (CHOOSE a \in q[1] : TRUE) = e(0) /\ e(0) \in q[1]
  BY <1>6, <1>8 DEF Undoes
<1>10. D(k, y) = Unpack(e(0)[3])
  BY <1>9 DEF D, Permuted, PermutedOf, q
<1>11. e(0)[3] = p
  OBVIOUS
<1>12. Unpack(p) = x
  BY <1>1, UnpackPack DEF p
<1> QED
  BY <1>10, <1>11, <1>12 DEF y

-----------------------------------------------------------------------------
(* Chunks: a string in parts of a block, the last of which may be short,   *)
(* and the string the parts are together.                                  *)

Off(i) == i * B
Parts(len) == (len + B - 1) \div B
PartLen(i, len) == IF Off(i) <= len THEN B ELSE len - Off(i - 1)
Shaped(t, len) ==
  /\ t = [i \in 1..Parts(len) |-> t[i]]
  /\ \A i \in 1..Parts(len) : IsString(t[i]) /\ Len(t[i]) = PartLen(i, len)

LEMMA OffIs ==
  ASSUME NEW i \in Nat
  PROVE  /\ Off(i) \in Nat /\ Off(0) = 0 /\ Off(i + 1) = Off(i) + B
         /\ i # 0 => i - 1 \in Nat /\ Off(i) = Off(i - 1) + B
BY BlockLen DEF Off

LEMMA OffGrows ==
  ASSUME NEW i \in Nat, NEW j \in Nat, i <= j
  PROVE  Off(i) <= Off(j)
BY BlockLen DEF Off

LEMMA PartsAre ==
  ASSUME NEW len \in Nat
  PROVE  /\ Parts(len) \in Nat /\ len <= Off(Parts(len)) /\ Off(Parts(len)) < len + B
         /\ \A i \in 1..Parts(len) :
              /\ Off(i - 1) \in Nat /\ Off(i) \in Nat /\ Off(i) = Off(i - 1) + B
              /\ Off(i - 1) < len /\ PartLen(i, len) \in 1..B
              /\ Off(i - 1) + PartLen(i, len) <= len
              /\ i < Parts(len) => Off(i) < len
              /\ PartLen(i, len) = IF Off(i) <= len THEN B ELSE len - Off(i - 1)
<1> DEFINE n == Parts(len)
           r == (len + B - 1) % B
<1>0. B \in Nat \ {0} /\ len + B - 1 \in Nat
  BY BlockLen
<1>1. len + B - 1 = B * n + r /\ r \in 0..(B - 1) /\ n \in Nat
  BY <1>0 DEF Parts
<1>2. Off(n) = B * n /\ Off(n) \in Nat
  BY <1>0, <1>1 DEF Off
<1> HIDE DEF n, r
<1>3. len <= Off(n) /\ Off(n) < len + B
  BY <1>0, <1>1, <1>2
<1>4. ASSUME NEW i \in 1..n
      PROVE  /\ Off(i - 1) \in Nat /\ Off(i) \in Nat /\ Off(i) = Off(i - 1) + B
             /\ Off(i - 1) < len /\ (i < n => Off(i) < len)
  <2>1. i \in Nat /\ i # 0 /\ n - 1 \in Nat /\ i - 1 \in Nat /\ i - 1 <= n - 1
    BY <1>1
  <2>2. Off(i - 1) \in Nat /\ Off(i) \in Nat /\ Off(i) = Off(i - 1) + B
    BY <2>1, OffIs
  <2>3. Off(n) = Off(n - 1) + B /\ Off(n - 1) \in Nat
    BY <1>1, <2>1, OffIs
  <2>4. Off(n - 1) < len
    BY <1>0, <1>3, <2>3
  <2>5. Off(i - 1) <= Off(n - 1)
    BY <2>1, OffGrows
  <2>6. ASSUME i < n PROVE Off(i) < len
    <3>1. i <= n - 1
      BY <1>1, <2>1, <2>6
    <3>2. Off(i) <= Off(n - 1)
      BY <2>1, <3>1, OffGrows
    <3> QED
      BY <2>2, <2>3, <2>4, <3>2
  <2>7. Off(i - 1) < len
    BY <2>2, <2>3, <2>4, <2>5
  <2> QED
    BY <2>2, <2>6, <2>7
<1>5. ASSUME NEW i \in 1..n
      PROVE  PartLen(i, len) \in 1..B /\ Off(i - 1) + PartLen(i, len) <= len
  <2>1. Off(i - 1) \in Nat /\ Off(i) = Off(i - 1) + B /\ Off(i - 1) < len
    BY <1>4
  <2>2. CASE Off(i) <= len
    BY <1>0, <2>1, <2>2 DEF PartLen
  <2>3. CASE ~ (Off(i) <= len)
    <3>1. PartLen(i, len) = len - Off(i - 1)
      BY <2>3 DEF PartLen
    <3> QED
      BY <1>0, <2>1, <2>3, <3>1
  <2> QED
    BY <2>2, <2>3
<1> QED
  BY <1>1, <1>3, <1>4, <1>5 DEF n, PartLen

LEMMA WholeParts ==
  ASSUME NEW len \in Nat, len % B = 0
  PROVE  \A i \in 1..Parts(len) : PartLen(i, len) = B
<1> DEFINE n == Parts(len)
           q == len \div B
<1>1. len = B * q /\ q \in Nat /\ B \in Nat \ {0}
  BY BlockLen
<1>2. Off(q) = len
  BY <1>1 DEF Off
<1> HIDE DEF q
<1>3. n \in Nat /\ Off(n) < len + B
  BY PartsAre
<1> HIDE DEF n
<1>4. n <= q
  <2> SUFFICES ASSUME q + 1 <= n PROVE FALSE
    BY <1>1, <1>3
  <2>1. q + 1 \in Nat /\ q + 1 <= n
    BY <1>1
  <2>2. Off(q + 1) <= Off(n)
    BY <1>3, <2>1, OffGrows
  <2>3. Off(q + 1) = Off(q) + B /\ Off(n) \in Nat
    BY <1>1, <1>3, OffIs
  <2> QED
    BY <1>1, <1>2, <1>3, <2>2, <2>3
<1>5. ASSUME NEW i \in 1..n PROVE Off(i) <= len
  <2>1. i \in Nat /\ i <= q
    BY <1>1, <1>3, <1>4
  <2> QED
    BY <1>1, <1>2, <2>1, OffGrows
<1> QED
  BY <1>5 DEF PartLen, n

(* Every place is one of a part.                                           *)
LEMMA PartPlace ==
  ASSUME NEW len \in Nat, NEW a \in 1..len
  PROVE  \E i \in 1..Parts(len) : \E j \in 1..PartLen(i, len) : a = Off(i - 1) + j
<1> DEFINE n == Parts(len)
           q == (a - 1) \div B
           r == (a - 1) % B
<1>0. B \in Nat \ {0} /\ a - 1 \in Nat
  BY BlockLen
<1>1. a - 1 = B * q + r /\ r \in 0..(B - 1) /\ q \in Nat
  BY <1>0
<1>2. Off(q) = B * q /\ Off(q) \in Nat /\ Off(q + 1) = Off(q) + B
  BY <1>0, <1>1, OffIs DEF Off
<1> HIDE DEF q, r
<1>3. n \in Nat /\ len <= Off(n)
  BY PartsAre
<1> HIDE DEF n
<1>4. q < n
  <2> SUFFICES ASSUME n <= q PROVE FALSE
    BY <1>1, <1>3
  <2>1. Off(n) <= Off(q)
    BY <1>1, <1>3, OffGrows
  <2>2. Off(n) \in Nat
    BY <1>3, OffIs
  <2> QED
    BY <1>0, <1>1, <1>2, <1>3, <2>1, <2>2
<1> DEFINE i == q + 1
           j == r + 1
<1>5. i \in 1..n /\ i - 1 = q
  BY <1>1, <1>3, <1>4
<1>6. a = Off(q) + j /\ j \in 1..B
  BY <1>0, <1>1, <1>2
<1>7. PartLen(i, len) = IF Off(q) + B <= len THEN B ELSE len - Off(q)
  BY <1>2, <1>5 DEF PartLen
<1>8. j \in 1..PartLen(i, len)
  BY <1>0, <1>2, <1>6, <1>7
<1> HIDE DEF i, j
<1>9. a = Off(i - 1) + j
  BY <1>5, <1>6
<1> QED
  BY <1>5, <1>8, <1>9 DEF n

LEMMA ChunksAre ==
  ASSUME NEW s, IsString(s)
  PROVE  /\ Shaped(Chunks(s), Len(s))
         /\ Len(Chunks(s)) = Parts(Len(s))
         /\ \A i \in 1..Parts(Len(s)) : \A j \in 1..PartLen(i, Len(s)) :
              Chunks(s)[i][j] = s[Off(i - 1) + j]
<1> DEFINE len == Len(s)
           n == Parts(len)
           c == Chunks(s)
<1>1. len \in Nat
  BY StringProperties
<1> HIDE DEF len
<1>2. n \in Nat
  BY <1>1, PartsAre
<1>3. c = [i \in 1..n |-> SubSeq(s, Off(i - 1) + 1, Min({Off(i), len}))]
  BY DEF Chunks, Off, Parts, len
<1>4. ASSUME NEW i \in 1..n
      PROVE  /\ IsString(c[i]) /\ Len(c[i]) = PartLen(i, len)
             /\ \A j \in 1..PartLen(i, len) : c[i][j] = s[Off(i - 1) + j]
  <2> DEFINE a == Off(i - 1)
             m == PartLen(i, len)
  <2>1. /\ a \in Nat /\ Off(i) \in Nat /\ Off(i) = a + B /\ a < len /\ m \in 1..B /\ a + m <= len
        /\ m = IF Off(i) <= len THEN B ELSE len - a
    BY <1>1, PartsAre
  <2>2. Min({Off(i), len}) = a + m
    BY <1>1, <2>1, MinOfTwo, BlockLen
  <2>3. c[i] = SubSeq(s, a + 1, a + m)
    BY <1>3, <2>2
  <2> HIDE DEF a, m, c, n
  <2>4. a + 1 \in Nat \ {0} /\ a + m \in Nat /\ a + m <= Len(s) /\ a + 1 <= a + m + 1
    BY <1>1, <2>1 DEF len
  <2>5. (a + m) - (a + 1) + 1 = m
    BY <2>1
  <2>6. /\ IsString(c[i]) /\ Len(c[i]) = m
        /\ \A j \in 1..m : c[i][j] = s[a + 1 + j - 1]
    BY <2>3, <2>4, <2>5, PartIs
  <2>7. \A j \in 1..m : a + 1 + j - 1 = a + j
    BY <2>1
  <2> QED
    BY <2>6, <2>7 DEF a, m
<1>5. c = [i \in 1..n |-> c[i]]
  BY <1>3
<1> HIDE DEF c
<1>6. Len(c) = n
  BY <1>2, <1>5, MadeString
<1> QED
  BY <1>4, <1>5, <1>6 DEF Shaped, c, len

(* Strings put together: every byte is one of a part.                      *)
Flat(f, t, len) ==
  /\ IsString(f) /\ Len(f) = len
  /\ \A i \in 1..Parts(len) : \A j \in 1..PartLen(i, len) : f[Off(i - 1) + j] = t[i][j]

(* What the first i parts are together has this length.                    *)
Upto(i, len) == IF Off(i) <= len THEN Off(i) ELSE len

LEMMA UptoIs ==
  ASSUME NEW len \in Nat
  PROVE  /\ Upto(0, len) = 0 /\ Upto(Parts(len), len) = len
         /\ \A i \in 1..Parts(len) :
              /\ Upto(i - 1, len) = Off(i - 1)
              /\ Upto(i, len) = Off(i - 1) + PartLen(i, len)
<1>1. /\ Parts(len) \in Nat /\ len <= Off(Parts(len)) /\ Off(Parts(len)) \in Nat
      /\ Off(0) = 0
  BY PartsAre, OffIs
<1>2. Upto(0, len) = 0
  BY <1>1 DEF Upto
<1>3. Upto(Parts(len), len) = len
  BY <1>1 DEF Upto
<1>4. ASSUME NEW i \in 1..Parts(len)
      PROVE  /\ Upto(i - 1, len) = Off(i - 1)
             /\ Upto(i, len) = Off(i - 1) + PartLen(i, len)
  <2>1. /\ Off(i - 1) \in Nat /\ Off(i) \in Nat /\ Off(i) = Off(i - 1) + B
        /\ Off(i - 1) < len
        /\ PartLen(i, len) = IF Off(i) <= len THEN B ELSE len - Off(i - 1)
    BY PartsAre
  <2>2. Upto(i - 1, len) = Off(i - 1)
    BY <2>1 DEF Upto
  <2>3. CASE Off(i) <= len
    BY <2>1, <2>3 DEF Upto
  <2>4. CASE ~ (Off(i) <= len)
    <3>1. Upto(i, len) = len /\ PartLen(i, len) = len - Off(i - 1)
      BY <2>1, <2>4 DEF Upto
    <3> QED
      BY <2>1, <2>2, <3>1
  <2> QED
    BY <2>2, <2>3, <2>4
<1> QED
  BY <1>2, <1>3, <1>4

LEMMA FlatShaped ==
  ASSUME NEW len \in Nat, NEW t, Shaped(t, len)
  PROVE  Flat(FlattenSeq(t), t, len)
<1> DEFINE n == Parts(len)
           Is(f) == f = [i \in 1..n |-> IF i = 1 THEN t[i] ELSE f[i - 1] \o t[i]]
           f     == CHOOSE f : Is(f)
<1>0. t = [i \in 1..n |-> t[i]] /\ \A i \in 1..n : IsString(t[i]) /\ Len(t[i]) = PartLen(i, len)
  BY DEF Shaped
<1>a. n \in Nat /\ Upto(0, len) = 0 /\ Upto(n, len) = len
  BY PartsAre, UptoIs
<1>b. \A i \in 1..n : /\ Off(i - 1) \in Nat /\ PartLen(i, len) \in 1..B
                       /\ Upto(i - 1, len) = Off(i - 1)
                       /\ Upto(i, len) = Off(i - 1) + PartLen(i, len)
  BY PartsAre, UptoIs
<1>1. Len(t) = n /\ IsString(t)
  BY <1>0, <1>a, MadeString
<1>2. CASE n = 0
  <2>1. FlattenSeq(t) = t
    BY <1>1, <1>2 DEF FlattenSeq
  <2>2. len = 0 /\ 1..n = {}
    BY <1>a, <1>2
  <2> QED
    BY <1>1, <1>2, <2>1, <2>2 DEF Flat
<1>3. CASE n # 0
  <2>1. FlattenSeq(t) = f[n]
    BY <1>1, <1>3 DEF FlattenSeq
  <2>2. Is(f)
    <3>1. PICK g : IsFlattened(g, n, t)
      BY <1>a, FlattenedExists
    <3>2. Is(g)
      BY <3>1 DEF IsFlattened
    <3> HIDE DEF Is
    <3> QED
      BY <3>2, Zenon
  <2> HIDE DEF f
  <2>3. \A i \in 1..n : f[i] = IF i = 1 THEN t[i] ELSE f[i - 1] \o t[i]
    BY <2>2
  <2> HIDE DEF Is, n
  <2> DEFINE Good(k) == /\ IsString(f[k]) /\ Len(f[k]) = Upto(k, len)
                        /\ \A i \in 1..k : \A j \in 1..PartLen(i, len) :
                             f[k][Off(i - 1) + j] = t[i][j]
             T == {k \in 0..n : k = 0 \/ Good(k)}
  <2>4. 0 \in T
    BY <1>a
  <2>5. ASSUME NEW k \in 0..(n - 1), k \in T PROVE k + 1 \in T
    <3>1. k + 1 \in 1..n /\ k + 1 \in 0..n /\ (k + 1) - 1 = k /\ k \in Nat
      BY <1>a
    <3> DEFINE l == PartLen(k + 1, len)
               s == f[k]
               u == t[k + 1]
               a == Off(k)
    <3>2. /\ IsString(u) /\ Len(u) = l /\ l \in Nat /\ a \in Nat
          /\ Upto(k, len) = a /\ Upto(k + 1, len) = a + l
      BY <1>0, <1>b, <3>1 DEF n
    <3>3. CASE k = 0
      <4>1. f[1] = u
        BY <2>3, <3>1, <3>3
      <4>2. a = 0 /\ Upto(1, len) = l
        BY <1>a, <3>2, <3>3
      <4>3. ASSUME NEW i \in 1..1, NEW j \in 1..PartLen(i, len)
            PROVE  f[1][Off(i - 1) + j] = t[i][j]
        <5>1. i = 1 /\ j \in 1..l /\ i - 1 = k
          BY <3>3
        <5>2. Off(i - 1) + j = j
          BY <3>2, <4>2, <5>1
        <5> QED
          BY <3>3, <4>1, <5>1, <5>2
      <4>4. Good(1)
        BY <3>2, <4>1, <4>2, <4>3
      <4> HIDE DEF Good
      <4> QED
        BY <3>1, <3>3, <4>4
    <3>4. CASE k # 0
      <4>1. /\ IsString(s) /\ Len(s) = a
            /\ \A i \in 1..k : \A j \in 1..PartLen(i, len) : s[Off(i - 1) + j] = t[i][j]
        BY <2>5, <3>2, <3>4
      <4>2. f[k + 1] = s \o u
        <5>1. f[k + 1] = IF k + 1 = 1 THEN u ELSE f[(k + 1) - 1] \o u
          BY <2>3, <3>1
        <5>2. k + 1 # 1
          BY <3>1, <3>4
        <5> QED
          BY <3>1, <5>1, <5>2
      <4> HIDE DEF s, u, l, a
      <4>4. /\ IsString(s \o u) /\ Len(s \o u) = Len(s) + Len(u)
            /\ \A b \in 1..(Len(s) + Len(u)) :
                 (s \o u)[b] = IF b <= Len(s) THEN s[b] ELSE u[b - Len(s)]
        BY <3>2, <4>1, Joined
      <4>5. \A b \in 1..(a + l) : (s \o u)[b] = IF b <= a THEN s[b] ELSE u[b - a]
        BY <3>2, <4>1, <4>4
      <4>6. ASSUME NEW i \in 1..(k + 1), NEW j \in 1..PartLen(i, len)
            PROVE  (s \o u)[Off(i - 1) + j] = t[i][j]
        <5>1. CASE i \in 1..k
          <6>1. i \in 1..n /\ i \in Nat /\ i <= k
            BY <1>a, <3>1, <5>1 DEF n
          <6>2. /\ Off(i - 1) \in Nat /\ PartLen(i, len) \in 1..B
                /\ Upto(i, len) = Off(i - 1) + PartLen(i, len)
            BY <1>b, <6>1 DEF n
          <6>3. Upto(i, len) <= Off(i)
            <7>1. Off(i) \in Nat
              BY <6>1, OffIs
            <7> QED
              BY <7>1 DEF Upto
          <6>4. Off(i) <= a
            BY <3>1, <6>1, OffGrows DEF a
          <6>5. Off(i) \in Nat /\ B \in Nat
            BY <6>1, OffIs, BlockLen
          <6>6. Off(i - 1) + j \in 1..(a + l) /\ Off(i - 1) + j <= a
            BY <3>2, <6>2, <6>3, <6>4, <6>5
          <6> QED
            BY <4>1, <4>5, <5>1, <6>6
        <5>2. CASE i = k + 1
          <6>1. i - 1 = k /\ j \in 1..l /\ Off(i - 1) = a
            BY <3>1, <5>2 DEF l, a
          <6>2. a + j \in 1..(a + l) /\ ~ (a + j <= a) /\ (a + j) - a = j
            BY <3>2, <6>1
          <6>3. (s \o u)[a + j] = u[j]
            BY <4>5, <6>2
          <6> QED
            BY <5>2, <6>1, <6>3 DEF u
        <5>3. i \in 1..k \/ i = k + 1
          BY <3>1
        <5> QED
          BY <5>1, <5>2, <5>3
      <4>7. Good(k + 1)
        <5>1. Len(s \o u) = Upto(k + 1, len)
          BY <3>2, <4>1, <4>4
        <5> QED
          BY <4>2, <4>4, <4>6, <5>1
      <4> HIDE DEF Good
      <4> QED
        BY <3>1, <4>7
    <3> QED
      BY <3>3, <3>4
  <2>6. n \in T
    <3> HIDE DEF T
    <3>1. n \in 0..n
      BY <1>a
    <3> QED
      BY <1>a, <2>4, <2>5, <3>1, UpTo
  <2>7. Good(n)
    BY <1>3, <2>6
  <2> QED
    BY <1>a, <2>1, <2>7 DEF Flat, n
<1> QED
  BY <1>2, <1>3

(* The chunks of what parts are together are the parts, and a string is    *)
(* what its chunks are together.                                           *)
LEMMA ChunksOfFlat ==
  ASSUME NEW len \in Nat, NEW t, Shaped(t, len)
  PROVE  Chunks(FlattenSeq(t)) = t
<1> DEFINE f == FlattenSeq(t)
           c == Chunks(f)
<1>1. Flat(f, t, len)
  BY FlatShaped
<1> HIDE DEF f
<1>2. /\ Shaped(c, len)
      /\ \A i \in 1..Parts(len) : \A j \in 1..PartLen(i, len) : c[i][j] = f[Off(i - 1) + j]
  BY <1>1, ChunksAre DEF Flat
<1> HIDE DEF c
<1>3. ASSUME NEW i \in 1..Parts(len) PROVE c[i] = t[i]
  <2>1. /\ IsString(c[i]) /\ Len(c[i]) = PartLen(i, len)
        /\ IsString(t[i]) /\ Len(t[i]) = PartLen(i, len)
    BY <1>2 DEF Shaped
  <2>2. \A j \in 1..PartLen(i, len) : c[i][j] = t[i][j]
    BY <1>1, <1>2 DEF Flat
  <2> QED
    BY <2>1, <2>2, SameString
<1>4. c = [i \in 1..Parts(len) |-> c[i]] /\ t = [i \in 1..Parts(len) |-> t[i]]
  BY <1>2 DEF Shaped
<1>5. c = t
  BY <1>3, <1>4
<1> QED
  BY <1>5 DEF c, f

LEMMA FlatOfChunks ==
  ASSUME NEW s, IsString(s)
  PROVE  FlattenSeq(Chunks(s)) = s
<1> DEFINE len == Len(s)
           t == Chunks(s)
           f == FlattenSeq(t)
<1>1. /\ len \in Nat /\ Shaped(t, len)
      /\ \A i \in 1..Parts(len) : \A j \in 1..PartLen(i, len) : t[i][j] = s[Off(i - 1) + j]
  BY StringProperties, ChunksAre
<1> HIDE DEF t, len
<1>2. Flat(f, t, len)
  BY <1>1, FlatShaped
<1> HIDE DEF f
<1>3. ASSUME NEW a \in 1..len PROVE f[a] = s[a]
  <2>1. PICK i \in 1..Parts(len) : \E j \in 1..PartLen(i, len) : a = Off(i - 1) + j
    BY <1>1, PartPlace
  <2>2. PICK j \in 1..PartLen(i, len) : a = Off(i - 1) + j
    BY <2>1
  <2> QED
    BY <1>1, <1>2, <2>2 DEF Flat
<1>4. f = s
  BY <1>2, <1>3, SameString DEF Flat, len
<1> QED
  BY <1>4 DEF f, t

-----------------------------------------------------------------------------
(* What is made step by step: the functions Iterated chooses exist, for    *)
(* every step the modes are made of.                                       *)

FnrTurn(k, e, c, d, i, s) ==
  << Fit(SubSeq(s[2], 1, c), d), Fit(Xor(s[1], RoundFn(k, e, s[2], d, c, i - 1)), d) >>
FnrBackTurn(k, e, c, d, i, s) ==
  << Xor(s[2], RoundFn(k, e, s[1], c, d, FpeRounds - i)), s[1] >>

StepOf(kind, k, c, d, e, i, y) ==
  CASE kind = "cbc"      -> E(k, Xor(c[i], y))
    [] kind = "cbc_back" -> Xor(D(k, c[i]), IF i = 1 THEN d ELSE c[i - 1])
    [] kind = "ofb"      -> E(k, y)
    [] kind = "cfb"      -> Xor(c[i], E(k, y))
    [] kind = "cfb_back" -> Xor(c[i], E(k, IF i = 1 THEN d ELSE c[i - 1]))
    [] kind = "ctr"      -> CtrInc(y)
    [] kind = "gcm"      -> GcmCtrInc(y)
    [] kind = "alpha"    -> XtsMulAlpha(y)
    [] kind = "double"   -> Gf128MulU(y)
    [] kind = "twice"    -> 2 * y
    [] kind = "sum"      -> Xor(y, c[i])
    [] kind = "wrap"     -> WrapStep(k, y, ((i - 1) % d) + 1, i)
    [] kind = "unwrap"   -> UnwrapStep(k, y, ((c - i) % d) + 1, c + 1 - i)
    [] kind = "rounds"   -> Round(y, c[i])
    [] kind = "fnr"      -> FnrTurn(k, e, c, d, i, y)
    [] kind = "fnr_back" -> FnrBackTurn(k, e, c, d, i, y)
    [] kind = "offsets"  -> Xor(y, LAt(k, i))
    [] kind = "absorb"   -> E(k, XorInto(y, c[i]))
    [] kind = "omac"     -> E(k, Xor(y, c[i]))
    [] kind = "s2v"      -> S2vAbsorb(k, y, c[i])
    [] kind = "mul"      -> Gf128Mul(XorInto(y, c[i]), d)
MadeFrom(f, n, x, kind, k, c, d, e) ==
  f = [i \in 0..n |-> IF i = 0 THEN x ELSE StepOf(kind, k, c, d, e, i, f[i - 1])]

LEMMA StepsExist ==
  ASSUME NEW n \in Nat, NEW x, NEW kind, NEW k, NEW c, NEW d, NEW e
  PROVE  \E f : MadeFrom(f, n, x, kind, k, c, d, e)
<1> DEFINE step(i, prev) == StepOf(kind, k, c, d, e, i, prev)
           is(t, m) == t = [i \in 0..m |-> IF i = 0 THEN x ELSE step(i, t[i - 1])]
           T == {m \in 0..n : \E t : is(t, m)}
<1> HIDE DEF step
<1>1. 0 \in T
  <2>1. is([i \in 0..0 |-> x], 0)
    OBVIOUS
  <2>2. 0 \in 0..n
    OBVIOUS
  <2> HIDE DEF is
  <2> QED
    BY <2>1, <2>2
<1>2. ASSUME NEW m \in 0..(n - 1), m \in T PROVE m + 1 \in T
  <2>1. PICK t : is(t, m)
    BY <1>2
  <2> DEFINE u == [i \in 0..(m + 1) |-> IF i = 0 THEN x ELSE step(i, t[i - 1])]
  <2>2. u = [i \in 0..(m + 1) |-> u[i]]
    OBVIOUS
  <2>3. \A i \in 0..(m + 1) : u[i] = IF i = 0 THEN x ELSE step(i, t[i - 1])
    OBVIOUS
  <2>4. \A i \in 0..m : t[i] = IF i = 0 THEN x ELSE step(i, t[i - 1])
    BY <2>1
  <2> HIDE DEF u, is
  <2>5. \A i \in 0..m : t[i] = u[i]
    <3>1. \A i \in 0..m : i \in 0..(m + 1)
      OBVIOUS
    <3> QED
      BY <2>3, <2>4, <3>1
  <2>6. ASSUME NEW i \in 0..(m + 1), i # 0 PROVE t[i - 1] = u[i - 1]
    <3>1. i - 1 \in 0..m
      BY <2>6
    <3> QED
      BY <2>5, <3>1
  <2>7. \A i \in 0..(m + 1) : u[i] = IF i = 0 THEN x ELSE step(i, u[i - 1])
    BY <2>3, <2>6
  <2>8. is(u, m + 1)
    <3>1. u = [i \in 0..(m + 1) |-> IF i = 0 THEN x ELSE step(i, u[i - 1])]
      BY <2>2, <2>7
    <3> QED
      BY <3>1 DEF is
  <2>9. m + 1 \in 0..n
    OBVIOUS
  <2> QED
    BY <2>8, <2>9
<1>3. n \in T
  <2> HIDE DEF T
  <2>1. n \in 0..n
    OBVIOUS
  <2> QED
    BY <1>1, <1>2, <2>1, UpTo
<1> QED
  BY <1>3 DEF MadeFrom, step

(* The chained modes.                                                      *)
CbcChain(k, iv, c)     == Chained(LAMBDA x, xprev, yprev : E(k, Xor(x, yprev)), iv, c)
CbcBackChain(k, iv, c) == Chained(LAMBDA x, xprev, yprev : Xor(D(k, x), xprev), iv, c)
OfbChain(k, iv, c)     == Chained(LAMBDA x, xprev, yprev : E(k, yprev), iv, c)
CfbChain(k, iv, c)     == Chained(LAMBDA x, xprev, yprev : Xor(x, E(k, yprev)), iv, c)
CfbBackChain(k, iv, c) == Chained(LAMBDA x, xprev, yprev : Xor(x, E(k, xprev)), iv, c)

LEMMA CbcSteps ==
  ASSUME NEW k, NEW iv, NEW c, Len(c) \in Nat
  PROVE  LET y == CbcChain(k, iv, c)
         IN  /\ y = [i \in 1..Len(c) |-> y[i]]
             /\ \A i \in 1..Len(c) : y[i] = E(k, Xor(c[i], IF i = 1 THEN iv ELSE y[i - 1]))
<1> DEFINE n == Len(c)
           Is(f) == f = [i \in 0..n |-> IF i = 0 THEN iv ELSE E(k, Xor(c[i], f[i - 1]))]
           f == CHOOSE f : Is(f)
           y == CbcChain(k, iv, c)
<1>1. PICK g : MadeFrom(g, n, iv, "cbc", k, c, iv, iv)
  BY StepsExist
<1>2. Is(g)
  BY <1>1 DEF MadeFrom, StepOf
<1>3. y = [i \in 1..n |-> f[i]]
  BY DEF CbcChain, Chained, Iterated
<1>4. Is(f)
  <2> HIDE DEF Is
  <2> QED
    BY <1>2, Zenon
<1> HIDE DEF f, y, n
<1>5. \A i \in 0..n : f[i] = IF i = 0 THEN iv ELSE E(k, Xor(c[i], f[i - 1]))
  BY <1>4
<1>6. ASSUME NEW i \in 1..n PROVE y[i] = E(k, Xor(c[i], IF i = 1 THEN iv ELSE y[i - 1]))
  <2>1. n \in Nat
    BY DEF n
  <2>2. i \in 0..n /\ i # 0 /\ i - 1 \in 0..n /\ 0 \in 0..n /\ (i # 1 => i - 1 \in 1..n)
    BY <2>1
  <2>3. f[i - 1] = IF i = 1 THEN iv ELSE y[i - 1]
    BY <1>3, <1>5, <2>2
  <2> QED
    BY <1>3, <1>5, <2>2, <2>3
<1> QED
  BY <1>3, <1>6 DEF y, n

LEMMA CbcBackSteps ==
  ASSUME NEW k, NEW iv, NEW c, Len(c) \in Nat
  PROVE  LET y == CbcBackChain(k, iv, c)
         IN  /\ y = [i \in 1..Len(c) |-> y[i]]
             /\ \A i \in 1..Len(c) : y[i] = Xor(D(k, c[i]), IF i = 1 THEN iv ELSE c[i - 1])
<1> DEFINE n == Len(c)
           Is(f) == 
             f = [i \in 0..n |->
                  IF i = 0 THEN iv ELSE Xor(D(k, c[i]), IF i = 1 THEN iv ELSE c[i - 1])]
           f == CHOOSE f : Is(f)
           y == CbcBackChain(k, iv, c)
<1>1. PICK g : MadeFrom(g, n, iv, "cbc_back", k, c, iv, iv)
  BY StepsExist
<1>2. Is(g)
  BY <1>1 DEF MadeFrom, StepOf
<1>3. y = [i \in 1..n |-> f[i]]
  BY DEF CbcBackChain, Chained, Iterated
<1>4. Is(f)
  <2> HIDE DEF Is
  <2> QED
    BY <1>2, Zenon
<1> HIDE DEF f, y, n
<1>5. \A i \in 0..n : f[i] = IF i = 0 THEN iv ELSE Xor(D(k, c[i]), IF i = 1 THEN iv ELSE c[i - 1])
  BY <1>4
<1>6. ASSUME NEW i \in 1..n PROVE y[i] = Xor(D(k, c[i]), IF i = 1 THEN iv ELSE c[i - 1])
  <2>1. n \in Nat
    BY DEF n
  <2>2. i \in 0..n /\ i # 0 /\ i - 1 \in 0..n /\ 0 \in 0..n /\ (i # 1 => i - 1 \in 1..n)
    BY <2>1
  <2>3. f[i - 1] = IF i = 1 THEN iv ELSE y[i - 1]
    BY <1>3, <1>5, <2>2
  <2> QED
    BY <1>3, <1>5, <2>2, <2>3
<1> QED
  BY <1>3, <1>6 DEF y, n

LEMMA OfbSteps ==
  ASSUME NEW k, NEW iv, NEW c, Len(c) \in Nat
  PROVE  LET y == OfbChain(k, iv, c)
         IN  /\ y = [i \in 1..Len(c) |-> y[i]]
             /\ \A i \in 1..Len(c) : y[i] = E(k, IF i = 1 THEN iv ELSE y[i - 1])
<1> DEFINE n == Len(c)
           Is(f) == f = [i \in 0..n |-> IF i = 0 THEN iv ELSE E(k, f[i - 1])]
           f == CHOOSE f : Is(f)
           y == OfbChain(k, iv, c)
<1>1. PICK g : MadeFrom(g, n, iv, "ofb", k, c, iv, iv)
  BY StepsExist
<1>2. Is(g)
  BY <1>1 DEF MadeFrom, StepOf
<1>3. y = [i \in 1..n |-> f[i]]
  BY DEF OfbChain, Chained, Iterated
<1>4. Is(f)
  <2> HIDE DEF Is
  <2> QED
    BY <1>2, Zenon
<1> HIDE DEF f, y, n
<1>5. \A i \in 0..n : f[i] = IF i = 0 THEN iv ELSE E(k, f[i - 1])
  BY <1>4
<1>6. ASSUME NEW i \in 1..n PROVE y[i] = E(k, IF i = 1 THEN iv ELSE y[i - 1])
  <2>1. n \in Nat
    BY DEF n
  <2>2. i \in 0..n /\ i # 0 /\ i - 1 \in 0..n /\ 0 \in 0..n /\ (i # 1 => i - 1 \in 1..n)
    BY <2>1
  <2>3. f[i - 1] = IF i = 1 THEN iv ELSE y[i - 1]
    BY <1>3, <1>5, <2>2
  <2> QED
    BY <1>3, <1>5, <2>2, <2>3
<1> QED
  BY <1>3, <1>6 DEF y, n

LEMMA CfbSteps ==
  ASSUME NEW k, NEW iv, NEW c, Len(c) \in Nat
  PROVE  LET y == CfbChain(k, iv, c)
         IN  /\ y = [i \in 1..Len(c) |-> y[i]]
             /\ \A i \in 1..Len(c) : y[i] = Xor(c[i], E(k, IF i = 1 THEN iv ELSE y[i - 1]))
<1> DEFINE n == Len(c)
           Is(f) == f = [i \in 0..n |-> IF i = 0 THEN iv ELSE Xor(c[i], E(k, f[i - 1]))]
           f == CHOOSE f : Is(f)
           y == CfbChain(k, iv, c)
<1>1. PICK g : MadeFrom(g, n, iv, "cfb", k, c, iv, iv)
  BY StepsExist
<1>2. Is(g)
  BY <1>1 DEF MadeFrom, StepOf
<1>3. y = [i \in 1..n |-> f[i]]
  BY DEF CfbChain, Chained, Iterated
<1>4. Is(f)
  <2> HIDE DEF Is
  <2> QED
    BY <1>2, Zenon
<1> HIDE DEF f, y, n
<1>5. \A i \in 0..n : f[i] = IF i = 0 THEN iv ELSE Xor(c[i], E(k, f[i - 1]))
  BY <1>4
<1>6. ASSUME NEW i \in 1..n PROVE y[i] = Xor(c[i], E(k, IF i = 1 THEN iv ELSE y[i - 1]))
  <2>1. n \in Nat
    BY DEF n
  <2>2. i \in 0..n /\ i # 0 /\ i - 1 \in 0..n /\ 0 \in 0..n /\ (i # 1 => i - 1 \in 1..n)
    BY <2>1
  <2>3. f[i - 1] = IF i = 1 THEN iv ELSE y[i - 1]
    BY <1>3, <1>5, <2>2
  <2> QED
    BY <1>3, <1>5, <2>2, <2>3
<1> QED
  BY <1>3, <1>6 DEF y, n

LEMMA CfbBackSteps ==
  ASSUME NEW k, NEW iv, NEW c, Len(c) \in Nat
  PROVE  LET y == CfbBackChain(k, iv, c)
         IN  /\ y = [i \in 1..Len(c) |-> y[i]]
             /\ \A i \in 1..Len(c) : y[i] = Xor(c[i], E(k, IF i = 1 THEN iv ELSE c[i - 1]))
<1> DEFINE n == Len(c)
           Is(f) == 
             f = [i \in 0..n |->
                  IF i = 0 THEN iv ELSE Xor(c[i], E(k, IF i = 1 THEN iv ELSE c[i - 1]))]
           f == CHOOSE f : Is(f)
           y == CfbBackChain(k, iv, c)
<1>1. PICK g : MadeFrom(g, n, iv, "cfb_back", k, c, iv, iv)
  BY StepsExist
<1>2. Is(g)
  BY <1>1 DEF MadeFrom, StepOf
<1>3. y = [i \in 1..n |-> f[i]]
  BY DEF CfbBackChain, Chained, Iterated
<1>4. Is(f)
  <2> HIDE DEF Is
  <2> QED
    BY <1>2, Zenon
<1> HIDE DEF f, y, n
<1>5. \A i \in 0..n : f[i] = IF i = 0 THEN iv ELSE Xor(c[i], E(k, IF i = 1 THEN iv ELSE c[i - 1]))
  BY <1>4
<1>6. ASSUME NEW i \in 1..n PROVE y[i] = Xor(c[i], E(k, IF i = 1 THEN iv ELSE c[i - 1]))
  <2>1. n \in Nat
    BY DEF n
  <2>2. i \in 0..n /\ i # 0 /\ i - 1 \in 0..n /\ 0 \in 0..n /\ (i # 1 => i - 1 \in 1..n)
    BY <2>1
  <2>3. f[i - 1] = IF i = 1 THEN iv ELSE y[i - 1]
    BY <1>3, <1>5, <2>2
  <2> QED
    BY <1>3, <1>5, <2>2, <2>3
<1> QED
  BY <1>3, <1>6 DEF y, n

(* Counters and tweaks.                                                    *)
LEMMA CtrSteps ==
  ASSUME NEW n \in Nat, NEW first
  PROVE  LET y == Counters(CtrInc, first, n)
         IN  /\ y = [i \in 1..n |-> y[i]]
             /\ \A i \in 1..n : y[i] = IF i = 1 THEN first ELSE CtrInc(y[i - 1])
<1> DEFINE Is(f) == f = [i \in 0..n |-> IF i = 0 THEN first ELSE CtrInc(f[i - 1])]
           f == CHOOSE f : Is(f)
           y == Counters(CtrInc, first, n)
<1>1. PICK g : MadeFrom(g, n, first, "ctr", first, first, first, first)
  BY StepsExist
<1>2. Is(g)
  BY <1>1 DEF MadeFrom, StepOf
<1>3. y = [i \in 1..n |-> f[i - 1]]
  BY DEF Counters, Iterated
<1>4. Is(f)
  <2> HIDE DEF Is
  <2> QED
    BY <1>2, Zenon
<1> HIDE DEF f, y
<1>5. \A i \in 0..n : f[i] = IF i = 0 THEN first ELSE CtrInc(f[i - 1])
  BY <1>4
<1>6. ASSUME NEW i \in 1..n PROVE y[i] = IF i = 1 THEN first ELSE CtrInc(y[i - 1])
  <2>1. i - 1 \in 0..n /\ (i # 1 => i - 1 \in 1..n /\ i - 1 # 0)
    OBVIOUS
  <2>2. CASE i = 1
    BY <1>3, <1>5, <2>1, <2>2
  <2>3. CASE i # 1
    <3>1. y[i] = f[i - 1] /\ y[i - 1] = f[(i - 1) - 1]
      BY <1>3, <2>1, <2>3
    <3>2. f[i - 1] = CtrInc(f[(i - 1) - 1])
      BY <1>5, <2>1, <2>3
    <3> QED
      BY <2>3, <3>1, <3>2
  <2> QED
    BY <2>2, <2>3
<1> QED
  BY <1>3, <1>6 DEF y

LEMMA GcmSteps ==
  ASSUME NEW n \in Nat, NEW first
  PROVE  LET y == Counters(GcmCtrInc, first, n)
         IN  /\ y = [i \in 1..n |-> y[i]]
             /\ \A i \in 1..n : y[i] = IF i = 1 THEN first ELSE GcmCtrInc(y[i - 1])
<1> DEFINE Is(f) == f = [i \in 0..n |-> IF i = 0 THEN first ELSE GcmCtrInc(f[i - 1])]
           f == CHOOSE f : Is(f)
           y == Counters(GcmCtrInc, first, n)
<1>1. PICK g : MadeFrom(g, n, first, "gcm", first, first, first, first)
  BY StepsExist
<1>2. Is(g)
  BY <1>1 DEF MadeFrom, StepOf
<1>3. y = [i \in 1..n |-> f[i - 1]]
  BY DEF Counters, Iterated
<1>4. Is(f)
  <2> HIDE DEF Is
  <2> QED
    BY <1>2, Zenon
<1> HIDE DEF f, y
<1>5. \A i \in 0..n : f[i] = IF i = 0 THEN first ELSE GcmCtrInc(f[i - 1])
  BY <1>4
<1>6. ASSUME NEW i \in 1..n PROVE y[i] = IF i = 1 THEN first ELSE GcmCtrInc(y[i - 1])
  <2>1. i - 1 \in 0..n /\ (i # 1 => i - 1 \in 1..n /\ i - 1 # 0)
    OBVIOUS
  <2>2. CASE i = 1
    BY <1>3, <1>5, <2>1, <2>2
  <2>3. CASE i # 1
    <3>1. y[i] = f[i - 1] /\ y[i - 1] = f[(i - 1) - 1]
      BY <1>3, <2>1, <2>3
    <3>2. f[i - 1] = GcmCtrInc(f[(i - 1) - 1])
      BY <1>5, <2>1, <2>3
    <3> QED
      BY <2>3, <3>1, <3>2
  <2> QED
    BY <2>2, <2>3
<1> QED
  BY <1>3, <1>6 DEF y

LEMMA XtsSteps ==
  ASSUME NEW n \in Nat, NEW first
  PROVE  LET y == Counters(XtsMulAlpha, first, n)
         IN  /\ y = [i \in 1..n |-> y[i]]
             /\ \A i \in 1..n : y[i] = IF i = 1 THEN first ELSE XtsMulAlpha(y[i - 1])
<1> DEFINE Is(f) == f = [i \in 0..n |-> IF i = 0 THEN first ELSE XtsMulAlpha(f[i - 1])]
           f == CHOOSE f : Is(f)
           y == Counters(XtsMulAlpha, first, n)
<1>1. PICK g : MadeFrom(g, n, first, "alpha", first, first, first, first)
  BY StepsExist
<1>2. Is(g)
  BY <1>1 DEF MadeFrom, StepOf
<1>3. y = [i \in 1..n |-> f[i - 1]]
  BY DEF Counters, Iterated
<1>4. Is(f)
  <2> HIDE DEF Is
  <2> QED
    BY <1>2, Zenon
<1> HIDE DEF f, y
<1>5. \A i \in 0..n : f[i] = IF i = 0 THEN first ELSE XtsMulAlpha(f[i - 1])
  BY <1>4
<1>6. ASSUME NEW i \in 1..n PROVE y[i] = IF i = 1 THEN first ELSE XtsMulAlpha(y[i - 1])
  <2>1. i - 1 \in 0..n /\ (i # 1 => i - 1 \in 1..n /\ i - 1 # 0)
    OBVIOUS
  <2>2. CASE i = 1
    BY <1>3, <1>5, <2>1, <2>2
  <2>3. CASE i # 1
    <3>1. y[i] = f[i - 1] /\ y[i - 1] = f[(i - 1) - 1]
      BY <1>3, <2>1, <2>3
    <3>2. f[i - 1] = XtsMulAlpha(f[(i - 1) - 1])
      BY <1>5, <2>1, <2>3
    <3> QED
      BY <2>3, <3>1, <3>2
  <2> QED
    BY <2>2, <2>3
<1> QED
  BY <1>3, <1>6 DEF y

(* Key wrap, the rounds of the ciphers, and the states of the MACs.        *)
DoubleSeq(n, x) ==
  Iterated(n, x, LAMBDA j, l : Gf128MulU(l))
TwiceSeq(n, x) ==
  Iterated(n, x, LAMBDA j, p : 2 * p)
SumSeq(n, x, c) ==
  Iterated(n, x, LAMBDA i, s : Xor(s, c[i]))
WrapSeq(n, x, k, d) ==
  Iterated(n, x, LAMBDA t, s : WrapStep(k, s, ((t - 1) % d) + 1, t))
UnwrapSeq(n, x, k, d, c) ==
  Iterated(n, x, LAMBDA t, s : UnwrapStep(k, s, ((c - t) % d) + 1, c + 1 - t))
RoundSeq(n, x, c) ==
  Iterated(n, x, LAMBDA i, y : Round(y, c[i]))
FnrSeq(n, x, k, c, d, e) ==
  Iterated(n, x, LAMBDA i, s : FnrTurn(k, e, c, d, i, s))
FnrBackSeq(n, x, k, c, d, e) ==
  Iterated(n, x, LAMBDA i, s : FnrBackTurn(k, e, c, d, i, s))
OffsetSeq(n, x, k) ==
  Iterated(n, x, LAMBDA i, o : Xor(o, LAt(k, i)))
AbsorbSeq(n, x, k, c) ==
  Iterated(n, x, LAMBDA i, y : E(k, XorInto(y, c[i])))
OmacSeq(n, x, k, c) ==
  Iterated(n, x, LAMBDA i, s : E(k, Xor(s, c[i])))
S2vSeq(n, x, k, c) ==
  Iterated(n, x, LAMBDA i, z : S2vAbsorb(k, z, c[i]))

LEMMA DoubleSteps ==
  ASSUME NEW n \in Nat, NEW x
  PROVE  LET y == DoubleSeq(n, x)
         IN  /\ y[0] = x
             /\ \A i \in 1..n : y[i] = Gf128MulU(y[i - 1])
<1> DEFINE Is(f) == f = [i \in 0..n |-> IF i = 0 THEN x ELSE Gf128MulU(f[i - 1])]
           f == CHOOSE f : Is(f)
           y == DoubleSeq(n, x)
<1>1. PICK g : MadeFrom(g, n, x, "double", x, x, x, x)
  BY StepsExist
<1>2. Is(g)
  BY <1>1 DEF MadeFrom, StepOf
<1>3. y = f
  BY DEF DoubleSeq, Iterated
<1>4. Is(f)
  <2> HIDE DEF Is
  <2> QED
    BY <1>2, Zenon
<1> HIDE DEF f, y
<1>5. \A i \in 0..n : f[i] = IF i = 0 THEN x ELSE Gf128MulU(f[i - 1])
  BY <1>4
<1>6. 0 \in 0..n /\ \A i \in 1..n : i \in 0..n /\ i # 0
  OBVIOUS
<1> QED
  BY <1>3, <1>5, <1>6 DEF y

LEMMA TwiceSteps ==
  ASSUME NEW n \in Nat, NEW x
  PROVE  LET y == TwiceSeq(n, x)
         IN  /\ y[0] = x
             /\ \A i \in 1..n : y[i] = 2 * y[i - 1]
<1> DEFINE Is(f) == f = [i \in 0..n |-> IF i = 0 THEN x ELSE 2 * f[i - 1]]
           f == CHOOSE f : Is(f)
           y == TwiceSeq(n, x)
<1>1. PICK g : MadeFrom(g, n, x, "twice", x, x, x, x)
  BY StepsExist
<1>2. Is(g)
  BY <1>1 DEF MadeFrom, StepOf
<1>3. y = f
  BY DEF TwiceSeq, Iterated
<1>4. Is(f)
  <2> HIDE DEF Is
  <2> QED
    BY <1>2, Zenon
<1> HIDE DEF f, y
<1>5. \A i \in 0..n : f[i] = IF i = 0 THEN x ELSE 2 * f[i - 1]
  BY <1>4
<1>6. 0 \in 0..n /\ \A i \in 1..n : i \in 0..n /\ i # 0
  OBVIOUS
<1> QED
  BY <1>3, <1>5, <1>6 DEF y

LEMMA SumSteps ==
  ASSUME NEW n \in Nat, NEW x, NEW c
  PROVE  LET y == SumSeq(n, x, c)
         IN  /\ y[0] = x
             /\ \A i \in 1..n : y[i] = Xor(y[i - 1], c[i])
<1> DEFINE Is(f) == f = [i \in 0..n |-> IF i = 0 THEN x ELSE Xor(f[i - 1], c[i])]
           f == CHOOSE f : Is(f)
           y == SumSeq(n, x, c)
<1>1. PICK g : MadeFrom(g, n, x, "sum", x, c, x, x)
  BY StepsExist
<1>2. Is(g)
  BY <1>1 DEF MadeFrom, StepOf
<1>3. y = f
  BY DEF SumSeq, Iterated
<1>4. Is(f)
  <2> HIDE DEF Is
  <2> QED
    BY <1>2, Zenon
<1> HIDE DEF f, y
<1>5. \A i \in 0..n : f[i] = IF i = 0 THEN x ELSE Xor(f[i - 1], c[i])
  BY <1>4
<1>6. 0 \in 0..n /\ \A i \in 1..n : i \in 0..n /\ i # 0
  OBVIOUS
<1> QED
  BY <1>3, <1>5, <1>6 DEF y

LEMMA WrapSteps ==
  ASSUME NEW n \in Nat, NEW x, NEW k, NEW d
  PROVE  LET y == WrapSeq(n, x, k, d)
         IN  /\ y[0] = x
             /\ \A i \in 1..n : y[i] = WrapStep(k, y[i - 1], ((i - 1) % d) + 1, i)
<1> DEFINE Is(f) == 
             f = [i \in 0..n |->
                  IF i = 0 THEN x ELSE WrapStep(k, f[i - 1], ((i - 1) % d) + 1, i)]
           f == CHOOSE f : Is(f)
           y == WrapSeq(n, x, k, d)
<1>1. PICK g : MadeFrom(g, n, x, "wrap", k, d, d, d)
  BY StepsExist
<1>2. Is(g)
  BY <1>1 DEF MadeFrom, StepOf
<1>3. y = f
  BY DEF WrapSeq, Iterated
<1>4. Is(f)
  <2> HIDE DEF Is
  <2> QED
    BY <1>2, Zenon
<1> HIDE DEF f, y
<1>5. \A i \in 0..n : f[i] = IF i = 0 THEN x ELSE WrapStep(k, f[i - 1], ((i - 1) % d) + 1, i)
  BY <1>4
<1>6. 0 \in 0..n /\ \A i \in 1..n : i \in 0..n /\ i # 0
  OBVIOUS
<1> QED
  BY <1>3, <1>5, <1>6 DEF y

LEMMA UnwrapSteps ==
  ASSUME NEW n \in Nat, NEW x, NEW k, NEW d, NEW c
  PROVE  LET y == UnwrapSeq(n, x, k, d, c)
         IN  /\ y[0] = x
             /\ \A i \in 1..n : y[i] = UnwrapStep(k, y[i - 1], ((c - i) % d) + 1, c + 1 - i)
<1> DEFINE Is(f) == 
             f = [i \in 0..n |->
                  IF i = 0 THEN x ELSE UnwrapStep(k, f[i - 1], ((c - i) % d) + 1, c + 1 - i)]
           f == CHOOSE f : Is(f)
           y == UnwrapSeq(n, x, k, d, c)
<1>1. PICK g : MadeFrom(g, n, x, "unwrap", k, c, d, d)
  BY StepsExist
<1>2. Is(g)
  BY <1>1 DEF MadeFrom, StepOf
<1>3. y = f
  BY DEF UnwrapSeq, Iterated
<1>4. Is(f)
  <2> HIDE DEF Is
  <2> QED
    BY <1>2, Zenon
<1> HIDE DEF f, y
<1>5. \A i \in 0..n : f[i] = 
        IF i = 0 THEN x ELSE UnwrapStep(k, f[i - 1], ((c - i) % d) + 1, c + 1 - i)
  BY <1>4
<1>6. 0 \in 0..n /\ \A i \in 1..n : i \in 0..n /\ i # 0
  OBVIOUS
<1> QED
  BY <1>3, <1>5, <1>6 DEF y

LEMMA RoundSteps ==
  ASSUME NEW n \in Nat, NEW x, NEW c
  PROVE  LET y == RoundSeq(n, x, c)
         IN  /\ y[0] = x
             /\ \A i \in 1..n : y[i] = Round(y[i - 1], c[i])
<1> DEFINE Is(f) == f = [i \in 0..n |-> IF i = 0 THEN x ELSE Round(f[i - 1], c[i])]
           f == CHOOSE f : Is(f)
           y == RoundSeq(n, x, c)
<1>1. PICK g : MadeFrom(g, n, x, "rounds", x, c, x, x)
  BY StepsExist
<1>2. Is(g)
  BY <1>1 DEF MadeFrom, StepOf
<1>3. y = f
  BY DEF RoundSeq, Iterated
<1>4. Is(f)
  <2> HIDE DEF Is
  <2> QED
    BY <1>2, Zenon
<1> HIDE DEF f, y
<1>5. \A i \in 0..n : f[i] = IF i = 0 THEN x ELSE Round(f[i - 1], c[i])
  BY <1>4
<1>6. 0 \in 0..n /\ \A i \in 1..n : i \in 0..n /\ i # 0
  OBVIOUS
<1> QED
  BY <1>3, <1>5, <1>6 DEF y

LEMMA FnrSteps ==
  ASSUME NEW n \in Nat, NEW x, NEW k, NEW c, NEW d, NEW e
  PROVE  LET y == FnrSeq(n, x, k, c, d, e)
         IN  /\ y[0] = x
             /\ \A i \in 1..n : y[i] = FnrTurn(k, e, c, d, i, y[i - 1])
<1> DEFINE Is(f) == f = [i \in 0..n |-> IF i = 0 THEN x ELSE FnrTurn(k, e, c, d, i, f[i - 1])]
           f == CHOOSE f : Is(f)
           y == FnrSeq(n, x, k, c, d, e)
<1>1. PICK g : MadeFrom(g, n, x, "fnr", k, c, d, e)
  BY StepsExist
<1>2. Is(g)
  BY <1>1 DEF MadeFrom, StepOf
<1>3. y = f
  BY DEF FnrSeq, Iterated
<1>4. Is(f)
  <2> HIDE DEF Is
  <2> QED
    BY <1>2, Zenon
<1> HIDE DEF f, y
<1>5. \A i \in 0..n : f[i] = IF i = 0 THEN x ELSE FnrTurn(k, e, c, d, i, f[i - 1])
  BY <1>4
<1>6. 0 \in 0..n /\ \A i \in 1..n : i \in 0..n /\ i # 0
  OBVIOUS
<1> QED
  BY <1>3, <1>5, <1>6 DEF y

LEMMA FnrBackSteps ==
  ASSUME NEW n \in Nat, NEW x, NEW k, NEW c, NEW d, NEW e
  PROVE  LET y == FnrBackSeq(n, x, k, c, d, e)
         IN  /\ y[0] = x
             /\ \A i \in 1..n : y[i] = FnrBackTurn(k, e, c, d, i, y[i - 1])
<1> DEFINE Is(f) == f = [i \in 0..n |-> IF i = 0 THEN x ELSE FnrBackTurn(k, e, c, d, i, f[i - 1])]
           f == CHOOSE f : Is(f)
           y == FnrBackSeq(n, x, k, c, d, e)
<1>1. PICK g : MadeFrom(g, n, x, "fnr_back", k, c, d, e)
  BY StepsExist
<1>2. Is(g)
  BY <1>1 DEF MadeFrom, StepOf
<1>3. y = f
  BY DEF FnrBackSeq, Iterated
<1>4. Is(f)
  <2> HIDE DEF Is
  <2> QED
    BY <1>2, Zenon
<1> HIDE DEF f, y
<1>5. \A i \in 0..n : f[i] = IF i = 0 THEN x ELSE FnrBackTurn(k, e, c, d, i, f[i - 1])
  BY <1>4
<1>6. 0 \in 0..n /\ \A i \in 1..n : i \in 0..n /\ i # 0
  OBVIOUS
<1> QED
  BY <1>3, <1>5, <1>6 DEF y

LEMMA OffsetSteps ==
  ASSUME NEW n \in Nat, NEW x, NEW k
  PROVE  LET y == OffsetSeq(n, x, k)
         IN  /\ y[0] = x
             /\ \A i \in 1..n : y[i] = Xor(y[i - 1], LAt(k, i))
<1> DEFINE Is(f) == f = [i \in 0..n |-> IF i = 0 THEN x ELSE Xor(f[i - 1], LAt(k, i))]
           f == CHOOSE f : Is(f)
           y == OffsetSeq(n, x, k)
<1>1. PICK g : MadeFrom(g, n, x, "offsets", k, x, x, x)
  BY StepsExist
<1>2. Is(g)
  BY <1>1 DEF MadeFrom, StepOf
<1>3. y = f
  BY DEF OffsetSeq, Iterated
<1>4. Is(f)
  <2> HIDE DEF Is
  <2> QED
    BY <1>2, Zenon
<1> HIDE DEF f, y
<1>5. \A i \in 0..n : f[i] = IF i = 0 THEN x ELSE Xor(f[i - 1], LAt(k, i))
  BY <1>4
<1>6. 0 \in 0..n /\ \A i \in 1..n : i \in 0..n /\ i # 0
  OBVIOUS
<1> QED
  BY <1>3, <1>5, <1>6 DEF y

LEMMA AbsorbSteps ==
  ASSUME NEW n \in Nat, NEW x, NEW k, NEW c
  PROVE  LET y == AbsorbSeq(n, x, k, c)
         IN  /\ y[0] = x
             /\ \A i \in 1..n : y[i] = E(k, XorInto(y[i - 1], c[i]))
<1> DEFINE Is(f) == f = [i \in 0..n |-> IF i = 0 THEN x ELSE E(k, XorInto(f[i - 1], c[i]))]
           f == CHOOSE f : Is(f)
           y == AbsorbSeq(n, x, k, c)
<1>1. PICK g : MadeFrom(g, n, x, "absorb", k, c, x, x)
  BY StepsExist
<1>2. Is(g)
  BY <1>1 DEF MadeFrom, StepOf
<1>3. y = f
  BY DEF AbsorbSeq, Iterated
<1>4. Is(f)
  <2> HIDE DEF Is
  <2> QED
    BY <1>2, Zenon
<1> HIDE DEF f, y
<1>5. \A i \in 0..n : f[i] = IF i = 0 THEN x ELSE E(k, XorInto(f[i - 1], c[i]))
  BY <1>4
<1>6. 0 \in 0..n /\ \A i \in 1..n : i \in 0..n /\ i # 0
  OBVIOUS
<1> QED
  BY <1>3, <1>5, <1>6 DEF y

LEMMA OmacSteps ==
  ASSUME NEW n \in Nat, NEW x, NEW k, NEW c
  PROVE  LET y == OmacSeq(n, x, k, c)
         IN  /\ y[0] = x
             /\ \A i \in 1..n : y[i] = E(k, Xor(y[i - 1], c[i]))
<1> DEFINE Is(f) == f = [i \in 0..n |-> IF i = 0 THEN x ELSE E(k, Xor(f[i - 1], c[i]))]
           f == CHOOSE f : Is(f)
           y == OmacSeq(n, x, k, c)
<1>1. PICK g : MadeFrom(g, n, x, "omac", k, c, x, x)
  BY StepsExist
<1>2. Is(g)
  BY <1>1 DEF MadeFrom, StepOf
<1>3. y = f
  BY DEF OmacSeq, Iterated
<1>4. Is(f)
  <2> HIDE DEF Is
  <2> QED
    BY <1>2, Zenon
<1> HIDE DEF f, y
<1>5. \A i \in 0..n : f[i] = IF i = 0 THEN x ELSE E(k, Xor(f[i - 1], c[i]))
  BY <1>4
<1>6. 0 \in 0..n /\ \A i \in 1..n : i \in 0..n /\ i # 0
  OBVIOUS
<1> QED
  BY <1>3, <1>5, <1>6 DEF y

LEMMA S2vSteps ==
  ASSUME NEW n \in Nat, NEW x, NEW k, NEW c
  PROVE  LET y == S2vSeq(n, x, k, c)
         IN  /\ y[0] = x
             /\ \A i \in 1..n : y[i] = S2vAbsorb(k, y[i - 1], c[i])
<1> DEFINE Is(f) == f = [i \in 0..n |-> IF i = 0 THEN x ELSE S2vAbsorb(k, f[i - 1], c[i])]
           f == CHOOSE f : Is(f)
           y == S2vSeq(n, x, k, c)
<1>1. PICK g : MadeFrom(g, n, x, "s2v", k, c, x, x)
  BY StepsExist
<1>2. Is(g)
  BY <1>1 DEF MadeFrom, StepOf
<1>3. y = f
  BY DEF S2vSeq, Iterated
<1>4. Is(f)
  <2> HIDE DEF Is
  <2> QED
    BY <1>2, Zenon
<1> HIDE DEF f, y
<1>5. \A i \in 0..n : f[i] = IF i = 0 THEN x ELSE S2vAbsorb(k, f[i - 1], c[i])
  BY <1>4
<1>6. 0 \in 0..n /\ \A i \in 1..n : i \in 0..n /\ i # 0
  OBVIOUS
<1> QED
  BY <1>3, <1>5, <1>6 DEF y

-----------------------------------------------------------------------------
(* Chunks that are worked on one by one and put together again.            *)

LEMMA CleanChunks ==
  ASSUME NEW s, Clean(s)
  PROVE  /\ Len(Chunks(s)) = Parts(Len(s)) /\ Parts(Len(s)) \in Nat /\ Len(s) \in Nat
         /\ Chunks(s) = [i \in 1..Parts(Len(s)) |-> Chunks(s)[i]]
         /\ \A i \in 1..Parts(Len(s)) :
              /\ Clean(Chunks(s)[i]) /\ Len(Chunks(s)[i]) = PartLen(i, Len(s))
              /\ PartLen(i, Len(s)) \in 1..B
              /\ Len(s) % B = 0 => PartLen(i, Len(s)) = B
<1> DEFINE len == Len(s)
           c == Chunks(s)
<1>1. len \in Nat
  BY StringProperties DEF Clean
<1>2. /\ Shaped(c, len) /\ Len(c) = Parts(len)
      /\ \A i \in 1..Parts(len) : \A j \in 1..PartLen(i, len) : c[i][j] = s[Off(i - 1) + j]
  BY ChunksAre DEF Clean
<1>3. \A a \in 1..len : \A t \in s[a] : t[1] # "D"
  BY DEF Clean
<1> HIDE DEF c, len
<1>4. /\ Parts(len) \in Nat
      /\ \A i \in 1..Parts(len) : /\ Off(i - 1) \in Nat /\ PartLen(i, len) \in 1..B
                                  /\ Off(i - 1) + PartLen(i, len) <= len
  BY <1>1, PartsAre
<1>5. ASSUME NEW i \in 1..Parts(len) PROVE Clean(c[i])
  <2>1. IsString(c[i]) /\ Len(c[i]) = PartLen(i, len)
    BY <1>2 DEF Shaped
  <2>2. \A j \in 1..PartLen(i, len) : Off(i - 1) + j \in 1..len
    BY <1>1, <1>4
  <2> QED
    BY <1>2, <1>3, <2>1, <2>2 DEF Clean
<1>6. \A i \in 1..Parts(len) : len % B = 0 => PartLen(i, len) = B
  BY <1>1, WholeParts
<1> QED
  BY <1>1, <1>2, <1>4, <1>5, <1>6 DEF Shaped, c, len

(* The chunks of whole blocks are blocks.                                  *)
LEMMA BlockChunks ==
  ASSUME NEW s, Clean(s), Len(s) % B = 0
  PROVE  \A i \in 1..Parts(Len(s)) : IsBlock(Chunks(s)[i])
BY CleanChunks DEF IsBlock

LEMMA Rejoined ==
  ASSUME NEW s, IsString(s), NEW u, u = [i \in 1..Len(Chunks(s)) |-> Chunks(s)[i]]
  PROVE  FlattenSeq(u) = s
<1>1. Chunks(s) = [i \in 1..Len(Chunks(s)) |-> Chunks(s)[i]]
  BY ChunksAre DEF Shaped
<1>2. u = Chunks(s)
  BY <1>1
<1> QED
  BY <1>2, FlatOfChunks

LEMMA Assembled ==
  ASSUME NEW len \in Nat, NEW t, t = [i \in 1..Parts(len) |-> t[i]],
         \A i \in 1..Parts(len) : Clean(t[i]) /\ Len(t[i]) = PartLen(i, len)
  PROVE  /\ Clean(FlattenSeq(t)) /\ Len(FlattenSeq(t)) = len
         /\ Chunks(FlattenSeq(t)) = t /\ Len(t) = Parts(len)
<1>1. Shaped(t, len)
  BY DEF Shaped, Clean
<1>2. Flat(FlattenSeq(t), t, len) /\ Chunks(FlattenSeq(t)) = t
  BY <1>1, FlatShaped, ChunksOfFlat
<1>3. Parts(len) \in Nat
  BY PartsAre
<1>4. Len(t) = Parts(len)
  BY <1>3, MadeString
<1> DEFINE f == FlattenSeq(t)
<1>5. Flat(f, t, len)
  BY <1>2
<1> HIDE DEF f
<1>6. ASSUME NEW a \in 1..len PROVE \A x \in f[a] : x[1] # "D"
  <2>1. PICK i \in 1..Parts(len) : \E j \in 1..PartLen(i, len) : a = Off(i - 1) + j
    BY PartPlace
  <2>2. PICK j \in 1..PartLen(i, len) : a = Off(i - 1) + j
    BY <2>1
  <2>3. f[a] = t[i][j]
    BY <1>5, <2>2 DEF Flat
  <2> QED
    BY <2>3 DEF Clean
<1>7. Clean(f) /\ Len(f) = len
  BY <1>5, <1>6 DEF Clean, Flat
<1> QED
  BY <1>2, <1>4, <1>7 DEF f

(* Data XORed with a stream of blocks, and back.                           *)
Stream(data, s) ==
  FlattenSeq([i \in 1..Len(Chunks(data)) |-> Xor(Chunks(data)[i], s[i])])

LEMMA StreamBack ==
  ASSUME NEW data, Clean(data), NEW s, \A i \in 1..Parts(Len(data)) : IsBlock(s[i])
  PROVE  /\ Clean(Stream(data, s)) /\ Len(Stream(data, s)) = Len(data)
         /\ Stream(Stream(data, s), s) = data
<1> DEFINE len == Len(data)
           n == Parts(len)
           c == Chunks(data)
           t == [i \in 1..n |-> Xor(c[i], s[i])]
<1>1. /\ Len(c) = n /\ len \in Nat
      /\ \A i \in 1..n : Clean(c[i]) /\ Len(c[i]) = PartLen(i, len) /\ PartLen(i, len) \in 1..B
  BY CleanChunks
<1>2. Stream(data, s) = FlattenSeq(t)
  BY <1>1 DEF Stream
<1> HIDE DEF c
<1>3. ASSUME NEW i \in 1..n
      PROVE  Clean(t[i]) /\ Len(t[i]) = PartLen(i, len) /\ Xor(t[i], s[i]) = c[i]
  <2>1. Clean(s[i]) /\ Len(s[i]) = B
    BY DEF IsBlock
  <2>2. Clean(c[i]) /\ Len(c[i]) = PartLen(i, len) /\ Len(c[i]) <= Len(s[i])
    BY <1>1, <2>1, BlockLen
  <2>3. Clean(Xor(c[i], s[i])) /\ Len(Xor(c[i], s[i])) = Len(c[i])
    BY <2>1, <2>2, CleanSum
  <2>4. Xor(Xor(c[i], s[i]), s[i]) = c[i]
    BY <2>1, <2>2, SumBack DEF Clean
  <2> QED
    BY <2>2, <2>3, <2>4
<1>4. t = [i \in 1..n |-> t[i]]
  OBVIOUS
<1> HIDE DEF t, len
<1> DEFINE f == FlattenSeq(t)
<1>5. Clean(f) /\ Len(f) = len /\ Chunks(f) = t /\ Len(t) = n
  BY <1>1, <1>3, <1>4, Assembled
<1> HIDE DEF f, n
<1>6. Stream(f, s) = FlattenSeq([i \in 1..n |-> c[i]])
  <2>1. [i \in 1..n |-> Xor(t[i], s[i])] = [i \in 1..n |-> c[i]]
    BY <1>3
  <2> QED
    BY <1>5, <2>1 DEF Stream
<1>7. FlattenSeq([i \in 1..n |-> c[i]]) = data
  BY <1>1, Rejoined DEF c, Clean
<1> QED
  BY <1>2, <1>5, <1>6, <1>7 DEF f, len

-----------------------------------------------------------------------------
(* What the modes make of blocks are blocks.                               *)

LEMMA MadeBlock ==
  ASSUME NEW f, \A i \in 1..B : \A a \in f[i] : a[1] # "D", f = [i \in 1..B |-> f[i]]
  PROVE  IsBlock(SubSeq(f, 1, B))
BY BlockLen, Tuple DEF IsBlock, Clean

LEMMA BlockSum ==
  ASSUME NEW x, NEW y, IsBlock(x), IsBlock(y)
  PROVE  IsBlock(Xor(x, y)) /\ Xor(Xor(x, y), y) = x
BY BlockLen, CleanSum, SumBack DEF IsBlock, Clean

LEMMA Incremented ==
  ASSUME NEW x, IsBlock(x), NEW lo \in 1..B
  PROVE  IsBlock(IncFrom(x, lo))
<1>1. CASE \A i \in lo..B : IsNum(x[i])
  <2> DEFINE carry(i) == i >= lo /\ \A j \in (i + 1)..B : Value(x[j]) = Radix - 1
             f == [i \in 1..B |-> IF carry(i) THEN Num((Value(x[i]) + 1) % Radix) ELSE x[i]]
  <2>1. IncFrom(x, lo) = SubSeq(f, 1, B)
    BY <1>1 DEF IncFrom, Bytes
  <2>2. /\ f = [i \in 1..B |-> f[i]]
        /\ \A i \in 1..B : f[i] = Num((Value(x[i]) + 1) % Radix) \/ f[i] = x[i]
    <3> HIDE DEF carry
    <3> QED
      OBVIOUS
  <2> HIDE DEF f
  <2>3. \A i \in 1..B : \A a \in x[i] : a[1] # "D"
    BY DEF IsBlock, Clean
  <2>4. \A i \in 1..B : \A a \in f[i] : a[1] # "D"
    BY <2>2, <2>3, CleanNum
  <2> QED
    BY <2>1, <2>2, <2>4, MadeBlock
<1>2. CASE ~ \A i \in lo..B : IsNum(x[i])
  <2> DEFINE y == Image("inc", "", Pack(x))
             s == SubSeq(x, 1, lo - 1)
             t == SubSeq(y, lo, B)
  <2>1. IncFrom(x, lo) = s \o t
    BY <1>2 DEF IncFrom
  <2>2. Clean(x) /\ Len(x) = B /\ Clean(y) /\ Len(y) = B
    BY CleanImage DEF IsBlock, Clean
  <2>3. Clean(s) /\ Len(s) = lo - 1
    <3>1. lo - 1 \in Nat /\ lo - 1 <= B /\ 1 <= lo - 1 + 1 /\ lo - 1 - 1 + 1 = lo - 1
      BY BlockLen
    <3> HIDE DEF y
    <3> QED
      BY <2>2, <3>1, CleanPart
  <2>4. Clean(t) /\ Len(t) = B - lo + 1
    <3>1. lo \in Nat \ {0} /\ B \in Nat /\ B <= B /\ lo <= B + 1
      BY BlockLen
    <3> HIDE DEF y
    <3> QED
      BY <2>2, <3>1, CleanPart
  <2> HIDE DEF s, t
  <2>5. Clean(s \o t) /\ Len(s \o t) = Len(s) + Len(t)
    BY <2>3, <2>4, CleanJoin
  <2>6. Len(s) + Len(t) = B
    BY <2>3, <2>4, BlockLen
  <2> QED
    BY <2>1, <2>5, <2>6 DEF IsBlock
<1> QED
  BY <1>1, <1>2

LEMMA LinearBlock ==
  ASSUME NEW f, NEW x
  PROVE  IsBlock(Linear(f, x))
<1> DEFINE mapped(i) == {a \in x[i] : a[1] = "lin" /\ a[2][1] = f}
           one(j) == {<< "lin", << f, a[2][2] + 1 >>, a[3], j >> : a \in mapped(1)}
           part(i, j) == {<< "lin", << f, 1 >>, << i, a >>, j >> : a \in x[i] \ mapped(i)}
           y == [j \in 1..B |-> one(j) \cup UNION {part(i, j) : i \in 1..B}]
<1>1. Linear(f, x) = SubSeq(y, 1, B)
  BY DEF Linear, Bytes
<1>2. \A j : \A a \in one(j) : a[1] = "lin"
  OBVIOUS
<1>3. \A i, j : \A a \in part(i, j) : a[1] = "lin"
  OBVIOUS
<1> HIDE DEF one, part
<1>4. y = [j \in 1..B |-> y[j]] /\ \A j \in 1..B : \A a \in y[j] : a[1] # "D"
  BY <1>2, <1>3
<1> HIDE DEF y
<1> QED
  BY <1>1, <1>4, MadeBlock

-----------------------------------------------------------------------------
(* The modes of whole blocks: what is enciphered is deciphered.            *)

LEMMA EcbBack ==
  ASSUME NEW k, NEW data, Clean(data), EncryptEcb(k, data).ok
  PROVE  DecryptEcb(k, EncryptEcb(k, data).val) = Ok(data)
<1> DEFINE len == Len(data)
           n == Parts(len)
           c == Chunks(data)
           t == [i \in 1..n |-> E(k, c[i])]
           f == FlattenSeq(t)
<1>1. len % B = 0
  BY DEF EncryptEcb, Aligned, Err
<1>2. /\ Len(c) = n /\ len \in Nat
      /\ \A i \in 1..n : IsBlock(c[i]) /\ PartLen(i, len) = B
  BY <1>1, CleanChunks, BlockChunks
<1>3. EncryptEcb(k, data).val = f
  BY <1>1, <1>2 DEF EncryptEcb, Aligned, Ok
<1>4. ASSUME NEW i \in 1..n
      PROVE  Clean(t[i]) /\ Len(t[i]) = PartLen(i, len) /\ D(k, t[i]) = c[i]
  BY <1>2, BlockEnciphered, Deciphered, BlockLen DEF IsBlock
<1>5. t = [i \in 1..n |-> t[i]]
  OBVIOUS
<1> HIDE DEF t, c
<1>6. Len(f) = len /\ Chunks(f) = t /\ Len(t) = n
  BY <1>2, <1>4, <1>5, Assembled
<1> HIDE DEF f, n, len
<1>7. DecryptEcb(k, f) = Ok(FlattenSeq([i \in 1..n |-> D(k, t[i])]))
  BY <1>1, <1>6 DEF DecryptEcb, Aligned
<1>8. [i \in 1..n |-> D(k, t[i])] = [i \in 1..n |-> c[i]]
  BY <1>4
<1>9. FlattenSeq([i \in 1..n |-> c[i]]) = data
  BY <1>2, Rejoined DEF c, Clean
<1> QED
  BY <1>3, <1>7, <1>8, <1>9

LEMMA CbcBack ==
  ASSUME NEW k, NEW iv, IsBlock(iv), NEW data, Clean(data), EncryptCbc(k, iv, data).ok
  PROVE  DecryptCbc(k, iv, EncryptCbc(k, iv, data).val) = Ok(data)
<1> DEFINE len == Len(data)
           n == Parts(len)
           c == Chunks(data)
           t == CbcChain(k, iv, c)
           f == FlattenSeq(t)
           u == CbcBackChain(k, iv, t)
           before(i) == IF i = 1 THEN iv ELSE t[i - 1]
<1>1. len % B = 0
  BY DEF EncryptCbc, Aligned, Err
<1>2. /\ Len(c) = n /\ len \in Nat /\ n \in Nat
      /\ \A i \in 1..n : IsBlock(c[i]) /\ PartLen(i, len) = B
  BY <1>1, CleanChunks, BlockChunks
<1>3. EncryptCbc(k, iv, data).val = f
  BY <1>1 DEF EncryptCbc, Aligned, Ok, CbcChain
<1>4. t = [i \in 1..n |-> t[i]] /\ \A i \in 1..n : t[i] = E(k, Xor(c[i], before(i)))
  BY <1>2, CbcSteps
<1> HIDE DEF t, c, n
<1>5. \A i \in 1..n : IsBlock(t[i])
  <2> DEFINE T == {i \in 0..n : i = 0 \/ IsBlock(t[i])}
  <2>1. ASSUME NEW i \in 0..(n - 1), i \in T PROVE i + 1 \in T
    <3>1. i + 1 \in 1..n /\ i + 1 \in 0..n /\ (i + 1) - 1 = i /\ (i + 1 = 1 <=> i = 0)
      BY <1>2
    <3>2. IsBlock(before(i + 1))
      BY <2>1, <3>1
    <3>3. IsBlock(t[i + 1])
      <4> HIDE DEF before
      <4>1. t[i + 1] = E(k, Xor(c[i + 1], before(i + 1)))
        BY <1>4, <3>1
      <4>2. IsBlock(Xor(c[i + 1], before(i + 1)))
        BY <1>2, <3>1, <3>2, BlockSum
      <4> QED
        BY <4>1, <4>2, BlockEnciphered
    <3> QED
      BY <3>1, <3>3
  <2>2. 0 \in T
    BY <1>2
  <2> HIDE DEF T
  <2>3. 0..n \subseteq T
    BY <1>2, <2>1, <2>2, UpTo
  <2>4. \A i \in 1..n : i \in 0..n /\ i # 0
    BY <1>2
  <2> QED
    BY <2>3, <2>4 DEF T
<1>6. ASSUME NEW i \in 1..n PROVE IsBlock(before(i)) /\ Xor(D(k, t[i]), before(i)) = c[i]
  <2>1. i # 1 => i - 1 \in 1..n
    BY <1>2
  <2>2. IsBlock(before(i))
    BY <1>5, <2>1
  <2> HIDE DEF before
  <2>3. /\ IsBlock(c[i]) /\ IsBlock(Xor(c[i], before(i)))
        /\ Xor(Xor(c[i], before(i)), before(i)) = c[i]
    BY <1>2, <2>2, BlockSum
  <2>4. D(k, t[i]) = Xor(c[i], before(i))
    BY <1>4, <2>3, Deciphered, BlockLen DEF IsBlock
  <2> QED
    BY <2>2, <2>3, <2>4
<1>7. Len(f) = len /\ Chunks(f) = t /\ Len(t) = n
  BY <1>2, <1>4, <1>5, Assembled DEF IsBlock, n
<1>8. u = [i \in 1..n |-> u[i]] /\ \A i \in 1..n : u[i] = Xor(D(k, t[i]), before(i))
  BY <1>2, <1>7, CbcBackSteps
<1>9. DecryptCbc(k, iv, f) = Ok(FlattenSeq(u))
  <2> HIDE DEF f, u
  <2> QED
    BY <1>1, <1>7 DEF DecryptCbc, Aligned, u, CbcBackChain
<1> HIDE DEF u, before, f
<1>10. u = [i \in 1..n |-> c[i]]
  BY <1>6, <1>8
<1>11. FlattenSeq(u) = data
  BY <1>2, <1>10, Rejoined DEF c, Clean
<1> QED
  BY <1>3, <1>9, <1>11

LEMMA XtsBack ==
  ASSUME NEW k, NEW k2, NEW sector, IsBlock(sector), NEW data, Clean(data),
         EncryptXts(k, k2, sector, data).ok
  PROVE  DecryptXts(k, k2, sector, EncryptXts(k, k2, sector, data).val) = Ok(data)
<1> DEFINE len == Len(data)
           n == Parts(len)
           c == Chunks(data)
           w == XtsTweaks(k2, sector, n)
           t == [i \in 1..n |-> Xor(E(k, Xor(c[i], w[i])), w[i])]
           f == FlattenSeq(t)
<1>1. len % B = 0 /\ len # 0
  BY DEF EncryptXts, Xts, Err
<1>2. /\ Len(c) = n /\ len \in Nat /\ n \in Nat
      /\ \A i \in 1..n : IsBlock(c[i]) /\ PartLen(i, len) = B
  BY <1>1, CleanChunks, BlockChunks
<1>3. EncryptXts(k, k2, sector, data).val = f
  BY <1>1, <1>2 DEF EncryptXts, Xts, Ok
<1>4. \A i \in 1..n : w[i] = IF i = 1 THEN E(k2, sector) ELSE XtsMulAlpha(w[i - 1])
  BY <1>2, XtsSteps DEF XtsTweaks
<1> HIDE DEF w, c, n
<1>5. \A i \in 1..n : IsBlock(w[i])
  BY <1>4, BlockEnciphered, LinearBlock DEF XtsMulAlpha
<1>6. ASSUME NEW i \in 1..n
      PROVE  IsBlock(t[i]) /\ Xor(D(k, Xor(t[i], w[i])), w[i]) = c[i]
  <2> DEFINE a == Xor(c[i], w[i])
             b == E(k, a)
  <2>1. IsBlock(a) /\ Xor(a, w[i]) = c[i]
    BY <1>2, <1>5, BlockSum
  <2> HIDE DEF a
  <2>2. IsBlock(b) /\ D(k, b) = a
    BY <2>1, BlockEnciphered, Deciphered, BlockLen DEF IsBlock
  <2> HIDE DEF b
  <2>3. IsBlock(Xor(b, w[i])) /\ Xor(Xor(b, w[i]), w[i]) = b
    BY <1>5, <2>2, BlockSum
  <2>4. t[i] = Xor(b, w[i])
    BY DEF a, b
  <2> QED
    BY <2>1, <2>2, <2>3, <2>4
<1>7. t = [i \in 1..n |-> t[i]]
  OBVIOUS
<1> HIDE DEF t
<1>8. Len(f) = len /\ Chunks(f) = t /\ Len(t) = n
  BY <1>2, <1>6, <1>7, Assembled DEF IsBlock, n
<1> HIDE DEF f, len
<1>9. DecryptXts(k, k2, sector, f)
        = Ok(FlattenSeq([i \in 1..n |-> Xor(D(k, Xor(t[i], w[i])), w[i])]))
  BY <1>1, <1>8 DEF DecryptXts, Xts, w
<1>10. [i \in 1..n |-> Xor(D(k, Xor(t[i], w[i])), w[i])] = [i \in 1..n |-> c[i]]
  BY <1>6
<1>11. FlattenSeq([i \in 1..n |-> c[i]]) = data
  BY <1>2, Rejoined DEF c, Clean
<1> QED
  BY <1>3, <1>9, <1>10, <1>11

-----------------------------------------------------------------------------
(* The modes that make a stream of the cipher.                             *)

LEMMA OfbBack ==
  ASSUME NEW k, NEW iv, IsBlock(iv), NEW data, Clean(data)
  PROVE  CryptOfb(k, iv, CryptOfb(k, iv, data)) = data
<1> DEFINE len == Len(data)
           n == Parts(len)
           c == Chunks(data)
           s == OfbChain(k, iv, c)
           f == Stream(data, s)
           d == Chunks(f)
           r == OfbChain(k, iv, d)
<1>1. /\ Len(c) = n /\ n \in Nat
  BY CleanChunks
<1>2. /\ s = [i \in 1..n |-> s[i]]
      /\ \A i \in 1..n : s[i] = E(k, IF i = 1 THEN iv ELSE s[i - 1])
  BY <1>1, OfbSteps
<1>3. CryptOfb(k, iv, data) = f
  BY DEF CryptOfb, Stream, OfbChain
<1> HIDE DEF s, n
<1>4. \A i \in 1..n : IsBlock(s[i])
  <2> DEFINE T == {i \in 0..n : i = 0 \/ IsBlock(s[i])}
  <2>1. ASSUME NEW i \in 0..(n - 1), i \in T PROVE i + 1 \in T
    <3>1. i + 1 \in 1..n /\ i + 1 \in 0..n /\ (i + 1) - 1 = i /\ (i + 1 = 1 <=> i = 0)
      BY <1>1
    <3>2. IsBlock(s[i + 1])
      <4>1. s[i + 1] = E(k, IF i + 1 = 1 THEN iv ELSE s[(i + 1) - 1])
        BY <1>2, <3>1
      <4>2. CASE i = 0
        BY <4>1, <4>2, BlockEnciphered
      <4>3. CASE i # 0
        <5>1. s[i + 1] = E(k, s[i]) /\ IsBlock(s[i])
          BY <2>1, <3>1, <4>1, <4>3
        <5> QED
          BY <5>1, BlockEnciphered
      <4> QED
        BY <4>2, <4>3
    <3> QED
      BY <3>1, <3>2
  <2>2. 0 \in T
    BY <1>1
  <2> HIDE DEF T
  <2>3. 0..n \subseteq T
    BY <1>1, <2>1, <2>2, UpTo
  <2>4. \A i \in 1..n : i \in 0..n /\ i # 0
    BY <1>1
  <2> QED
    BY <2>3, <2>4 DEF T
<1>5. Clean(f) /\ Len(f) = Len(data) /\ Stream(f, s) = data
  BY <1>4, StreamBack DEF n
<1>6. CryptOfb(k, iv, f) = Stream(f, r)
  <2> HIDE DEF f
  <2> QED
    BY DEF CryptOfb, Stream, OfbChain
<1> HIDE DEF f
<1>7. Len(d) = n
  BY <1>5, CleanChunks DEF n
<1>8. /\ r = [i \in 1..n |-> r[i]]
      /\ \A i \in 1..n : r[i] = E(k, IF i = 1 THEN iv ELSE r[i - 1])
  BY <1>1, <1>7, OfbSteps
<1> HIDE DEF r
<1>9. \A i \in 1..n : r[i] = s[i]
  <2> DEFINE T == {i \in 0..n : i = 0 \/ r[i] = s[i]}
  <2>1. ASSUME NEW i \in 0..(n - 1), i \in T PROVE i + 1 \in T
    <3>1. i + 1 \in 1..n /\ i + 1 \in 0..n /\ (i + 1) - 1 = i /\ (i + 1 = 1 <=> i = 0)
      BY <1>1
    <3>2. r[i + 1] = s[i + 1]
      <4>1. /\ s[i + 1] = E(k, IF i + 1 = 1 THEN iv ELSE s[(i + 1) - 1])
            /\ r[i + 1] = E(k, IF i + 1 = 1 THEN iv ELSE r[(i + 1) - 1])
        BY <1>2, <1>8, <3>1
      <4>2. CASE i = 0
        BY <4>1, <4>2
      <4>3. CASE i # 0
        BY <2>1, <3>1, <4>1, <4>3
      <4> QED
        BY <4>2, <4>3
    <3> QED
      BY <3>1, <3>2
  <2>2. 0 \in T
    BY <1>1
  <2> HIDE DEF T
  <2>3. 0..n \subseteq T
    BY <1>1, <2>1, <2>2, UpTo
  <2>4. \A i \in 1..n : i \in 0..n /\ i # 0
    BY <1>1
  <2> QED
    BY <2>3, <2>4 DEF T
<1>10. r = s
  BY <1>2, <1>8, <1>9
<1> QED
  BY <1>3, <1>5, <1>6, <1>10

LEMMA CfbBack ==
  ASSUME NEW k, NEW iv, IsBlock(iv), NEW data, Clean(data)
  PROVE  DecryptCfb(k, iv, EncryptCfb(k, iv, data)) = data
<1> DEFINE len == Len(data)
           n == Parts(len)
           c == Chunks(data)
           t == CfbChain(k, iv, c)
           f == FlattenSeq(t)
           u == CfbBackChain(k, iv, t)
           before(i) == IF i = 1 THEN iv ELSE t[i - 1]
<1>2. /\ Len(c) = n /\ len \in Nat /\ n \in Nat
      /\ \A i \in 1..n : Clean(c[i]) /\ Len(c[i]) = PartLen(i, len) /\ PartLen(i, len) \in 1..B
  BY CleanChunks
<1>0. \A i \in 1..n : i < n => PartLen(i, len) = B
  <2>1. /\ \A i \in 1..n : i < n => Off(i) < len
        /\ \A i \in 1..n : Off(i) \in Nat
    BY <1>2, PartsAre
  <2>2. \A i \in 1..n : i < n => Off(i) <= len
    BY <1>2, <2>1
  <2> QED
    BY <2>2 DEF PartLen
<1>3. EncryptCfb(k, iv, data) = f
  BY DEF EncryptCfb, CfbChain
<1>4. t = [i \in 1..n |-> t[i]] /\ \A i \in 1..n : t[i] = Xor(c[i], E(k, before(i)))
  BY <1>2, CfbSteps
<1> HIDE DEF t, c, n, len
<1> DEFINE Good(i) == Clean(t[i]) /\ Len(t[i]) = PartLen(i, len)
<1>5. \A i \in 1..n : Good(i) /\ IsBlock(before(i))
  <2> DEFINE T == {i \in 0..n : i = 0 \/ (Good(i) /\ IsBlock(before(i)))}
  <2>1. ASSUME NEW i \in 0..(n - 1), i \in T PROVE i + 1 \in T
    <3>1. i + 1 \in 1..n /\ i + 1 \in 0..n /\ (i + 1) - 1 = i /\ (i + 1 = 1 <=> i = 0)
          /\ (i # 0 => i \in 1..n /\ i < n)
      BY <1>2
    <3>2. IsBlock(before(i + 1))
      <4>1. CASE i = 0
        BY <3>1, <4>1
      <4>2. CASE i # 0
        <5>1. IsBlock(t[i])
          BY <1>0, <2>1, <3>1, <4>2 DEF IsBlock
        <5> QED
          BY <3>1, <4>2, <5>1
      <4> QED
        BY <4>1, <4>2
    <3>3. Good(i + 1)
      <4> DEFINE e == E(k, before(i + 1))
                 x == c[i + 1]
      <4>1. Clean(e) /\ Len(e) = B
        BY <3>2, BlockEnciphered DEF IsBlock
      <4>2. Clean(x) /\ Len(x) = PartLen(i + 1, len) /\ Len(x) <= Len(e)
        BY <1>2, <3>1, <4>1, BlockLen
      <4>3. t[i + 1] = Xor(x, e)
        BY <1>4, <3>1
      <4> HIDE DEF e, x
      <4> QED
        BY <4>1, <4>2, <4>3, CleanSum
    <3> HIDE DEF Good, before
    <3> QED
      BY <3>1, <3>2, <3>3
  <2>2. 0 \in T
    BY <1>2
  <2> HIDE DEF T
  <2>3. 0..n \subseteq T
    BY <1>2, <2>1, <2>2, UpTo
  <2>4. \A i \in 1..n : i \in 0..n /\ i # 0
    BY <1>2
  <2> HIDE DEF Good, before
  <2> QED
    BY <2>3, <2>4 DEF T
<1>6. ASSUME NEW i \in 1..n PROVE Xor(t[i], E(k, before(i))) = c[i]
  <2> HIDE DEF before
  <2> DEFINE e == E(k, before(i))
             x == c[i]
  <2>1. Clean(e) /\ Len(e) = B
    BY <1>5, BlockEnciphered DEF IsBlock
  <2>2. Clean(x) /\ Len(x) <= Len(e)
    BY <1>2, <2>1, BlockLen
  <2>3. t[i] = Xor(x, e)
    BY <1>4
  <2> HIDE DEF e, x
  <2>4. Xor(Xor(x, e), e) = x
    BY <2>1, <2>2, SumBack DEF Clean
  <2> QED
    BY <2>3, <2>4 DEF e, x
<1>7. Chunks(f) = t /\ Len(t) = n
  BY <1>2, <1>4, <1>5, Assembled DEF n
<1>8. u = [i \in 1..n |-> u[i]] /\ \A i \in 1..n : u[i] = Xor(t[i], E(k, before(i)))
  BY <1>2, <1>7, CfbBackSteps
<1>9. DecryptCfb(k, iv, f) = FlattenSeq(u)
  <2> HIDE DEF f, u
  <2> QED
    BY <1>7 DEF DecryptCfb, u, CfbBackChain
<1> HIDE DEF u, before, f
<1>10. u = [i \in 1..n |-> c[i]]
  BY <1>6, <1>8
<1>11. FlattenSeq(u) = data
  BY <1>2, <1>10, Rejoined DEF c, Clean
<1> QED
  BY <1>3, <1>9, <1>11

-----------------------------------------------------------------------------
(* Counter modes.                                                          *)

LEMMA CtrBlocks ==
  ASSUME NEW first, IsBlock(first), NEW n \in Nat
  PROVE  \A i \in 1..n : IsBlock(Counters(CtrInc, first, n)[i])
<1> DEFINE y == Counters(CtrInc, first, n)
<1>1. \A i \in 1..n : y[i] = IF i = 1 THEN first ELSE CtrInc(y[i - 1])
  BY CtrSteps
<1> HIDE DEF y
<1> DEFINE T == {i \in 0..n : i = 0 \/ IsBlock(y[i])}
<1>2. ASSUME NEW i \in 0..(n - 1), i \in T PROVE i + 1 \in T
  <2>1. i + 1 \in 1..n /\ i + 1 \in 0..n /\ (i + 1) - 1 = i /\ (i + 1 = 1 <=> i = 0)
    OBVIOUS
  <2>2. y[i + 1] = IF i = 0 THEN first ELSE CtrInc(y[i])
    BY <1>1, <2>1
  <2>3. 1 \in 1..B
    BY BlockLen
  <2>4. i # 0 => IsBlock(CtrInc(y[i]))
    BY <1>2, <2>3, Incremented DEF CtrInc
  <2> QED
    BY <2>1, <2>2, <2>4
<1>3. 0 \in T
  OBVIOUS
<1> HIDE DEF T
<1>4. 0..n \subseteq T
  BY <1>2, <1>3, UpTo
<1>5. \A i \in 1..n : i \in 0..n /\ i # 0
  OBVIOUS
<1> QED
  BY <1>4, <1>5 DEF T, y

LEMMA GcmBlocks ==
  ASSUME NEW first, IsBlock(first), NEW n \in Nat
  PROVE  \A i \in 1..n : IsBlock(Counters(GcmCtrInc, first, n)[i])
<1> DEFINE y == Counters(GcmCtrInc, first, n)
<1>1. \A i \in 1..n : y[i] = IF i = 1 THEN first ELSE GcmCtrInc(y[i - 1])
  BY GcmSteps
<1> HIDE DEF y
<1> DEFINE T == {i \in 0..n : i = 0 \/ IsBlock(y[i])}
<1>2. ASSUME NEW i \in 0..(n - 1), i \in T PROVE i + 1 \in T
  <2>1. i + 1 \in 1..n /\ i + 1 \in 0..n /\ (i + 1) - 1 = i /\ (i + 1 = 1 <=> i = 0)
    OBVIOUS
  <2>2. y[i + 1] = IF i = 0 THEN first ELSE GcmCtrInc(y[i])
    BY <1>1, <2>1
  <2>3. B \in 1..B
    BY BlockLen
  <2>4. i # 0 => IsBlock(GcmCtrInc(y[i]))
    BY <1>2, <2>3, Incremented DEF GcmCtrInc
  <2> QED
    BY <2>1, <2>2, <2>4
<1>3. 0 \in T
  OBVIOUS
<1> HIDE DEF T
<1>4. 0..n \subseteq T
  BY <1>2, <1>3, UpTo
<1>5. \A i \in 1..n : i \in 0..n /\ i # 0
  OBVIOUS
<1> QED
  BY <1>4, <1>5 DEF T, y

LEMMA KeyStreamBack ==
  ASSUME NEW k, NEW data, Clean(data), NEW counters,
         \A i \in 1..Parts(Len(data)) : IsBlock(counters[i])
  PROVE  LET f == KeyStreamed(k, counters, data)
         IN  /\ Clean(f) /\ Len(f) = Len(data) /\ Len(Chunks(f)) = Len(Chunks(data))
             /\ KeyStreamed(k, counters, f) = data
<1> DEFINE n == Parts(Len(data))
           s == [i \in 1..n |-> E(k, counters[i])]
<1>1. \A i \in 1..n : IsBlock(s[i])
  BY BlockEnciphered
<1>2. ASSUME NEW d, Len(Chunks(d)) = n PROVE KeyStreamed(k, counters, d) = Stream(d, s)
  <2>1. [i \in 1..n |-> Xor(Chunks(d)[i], s[i])]
          = [i \in 1..n |-> Xor(Chunks(d)[i], E(k, counters[i]))]
    OBVIOUS
  <2> HIDE DEF s, n
  <2> QED
    BY <1>2, <2>1 DEF KeyStreamed, Stream
<1> HIDE DEF s
<1> DEFINE f == Stream(data, s)
<1>3. Clean(f) /\ Len(f) = Len(data) /\ Stream(f, s) = data
  BY <1>1, StreamBack
<1> HIDE DEF f
<1>4. Len(Chunks(data)) = n /\ Len(Chunks(f)) = n
  BY <1>3, CleanChunks
<1>5. KeyStreamed(k, counters, data) = f /\ KeyStreamed(k, counters, f) = data
  BY <1>2, <1>3, <1>4 DEF f
<1> QED
  BY <1>3, <1>4, <1>5

LEMMA CtrBack ==
  ASSUME NEW k, NEW nonce, IsBlock(nonce), NEW data, Clean(data)
  PROVE  /\ Clean(CryptCtr(k, nonce, data)) /\ Len(CryptCtr(k, nonce, data)) = Len(data)
         /\ CryptCtr(k, nonce, CryptCtr(k, nonce, data)) = data
<1> DEFINE n == Len(Chunks(data))
           ctrs == Counters(CtrInc, nonce, n)
           f == KeyStreamed(k, ctrs, data)
<1>1. n = Parts(Len(data)) /\ n \in Nat
  BY CleanChunks
<1> HIDE DEF n
<1>2. \A i \in 1..n : IsBlock(ctrs[i])
  BY <1>1, CtrBlocks
<1>3. CryptCtr(k, nonce, data) = f
  BY DEF CryptCtr, n
<1> HIDE DEF ctrs
<1>4. /\ Clean(f) /\ Len(f) = Len(data) /\ Len(Chunks(f)) = n
      /\ KeyStreamed(k, ctrs, f) = data
  BY <1>1, <1>2, KeyStreamBack DEF n
<1> HIDE DEF f
<1>5. CryptCtr(k, nonce, f) = KeyStreamed(k, ctrs, f)
  BY <1>4 DEF CryptCtr, ctrs
<1> QED
  BY <1>3, <1>4, <1>5

LEMMA JoinedBack ==
  ASSUME NEW s, NEW t, IsString(s), IsString(t)
  PROVE  /\ SubSeq(s \o t, 1, Len(s)) = s
         /\ SubSeq(s \o t, Len(s) + 1, Len(s) + Len(t)) = t
<1> DEFINE u == s \o t
           n == Len(s)
           m == Len(t)
<1>1. n \in Nat /\ m \in Nat
  BY StringProperties
<1>2. /\ IsString(u) /\ Len(u) = n + m
      /\ \A i \in 1..(n + m) : u[i] = IF i <= n THEN s[i] ELSE t[i - n]
  BY Joined
<1> HIDE DEF u
<1>3. SubSeq(u, 1, n) = s
  <2>1. /\ IsString(SubSeq(u, 1, n)) /\ Len(SubSeq(u, 1, n)) = n - 1 + 1
        /\ \A i \in 1..(n - 1 + 1) : SubSeq(u, 1, n)[i] = u[1 + i - 1]
    <3>1. 1 \in Nat \ {0} /\ n <= Len(u) /\ 1 <= n + 1
      BY <1>1, <1>2
    <3> HIDE DEF n, m
    <3> QED
      BY <1>1, <1>2, <3>1, PartIs
  <2>2. \A i \in 1..n : SubSeq(u, 1, n)[i] = s[i]
    BY <1>1, <1>2, <2>1
  <2>3. Len(SubSeq(u, 1, n)) = n
    BY <1>1, <2>1
  <2> QED
    BY <2>1, <2>2, <2>3, SameString
<1>4. SubSeq(u, n + 1, n + m) = t
  <2> DEFINE v == SubSeq(u, n + 1, n + m)
  <2>1. /\ IsString(v) /\ Len(v) = (n + m) - (n + 1) + 1
        /\ \A i \in 1..((n + m) - (n + 1) + 1) : v[i] = u[n + 1 + i - 1]
    <3>1. n + 1 \in Nat \ {0} /\ n + m \in Nat /\ n + m <= Len(u) /\ n + 1 <= (n + m) + 1
      BY <1>1, <1>2
    <3> HIDE DEF n, m
    <3> QED
      BY <1>2, <3>1, PartIs
  <2> HIDE DEF v
  <2>2. (n + m) - (n + 1) + 1 = m
    BY <1>1
  <2>3. \A i \in 1..m : /\ n + 1 + i - 1 \in 1..(n + m) /\ ~ (n + 1 + i - 1 <= n)
                        /\ (n + 1 + i - 1) - n = i
    BY <1>1
  <2>4. \A i \in 1..m : v[i] = t[i]
    BY <1>2, <2>1, <2>2, <2>3
  <2>5. v = t
    BY <2>1, <2>2, <2>4, SameString
  <2> QED
    BY <2>5 DEF v
<1> QED
  BY <1>3, <1>4 DEF u

LEMMA J0Block ==
  ASSUME NEW nonce, Clean(nonce), Len(nonce) = B - 1
  PROVE  IsBlock(GcmJ0(nonce))
<1> DEFINE s == << Num(1) >>
<1>1. Clean(s) /\ Len(s) = 1
  BY One, CleanNum DEF Clean
<1> HIDE DEF s
<1>2. Clean(nonce \o s) /\ Len(nonce \o s) = Len(nonce) + Len(s)
  BY <1>1, CleanJoin
<1>3. Len(nonce) + Len(s) = B
  BY <1>1, BlockLen
<1> QED
  BY <1>2, <1>3 DEF IsBlock, GcmJ0, s

LEMMA GcmBack ==
  ASSUME NEW k, NEW nonce, Clean(nonce), Len(nonce) = B - 1, NEW aad, NEW pt, Clean(pt)
  PROVE  LET s == EncryptGcm(k, nonce, aad, pt)
         IN  /\ IsString(s.ct) /\ IsString(s.tag) /\ Len(s.tag) = B /\ Len(s.ct) = Len(pt)
             /\ DecryptGcm(k, nonce, aad, s.ct, s.tag) = Ok(pt)
<1> DEFINE n == Len(Chunks(pt))
           first == GcmCtrInc(GcmJ0(nonce))
           ctrs == GcmCounters(nonce, pt)
           f == KeyStreamed(k, ctrs, pt)
           tag == GcmTag(k, nonce, aad, f)
<1>1. n = Parts(Len(pt)) /\ n \in Nat
  BY CleanChunks
<1>2. IsBlock(first)
  BY J0Block, Incremented, BlockLen DEF GcmCtrInc
<1> HIDE DEF first, n
<1>3. ctrs = Counters(GcmCtrInc, first, n)
  BY DEF GcmCounters, first, n
<1>4. \A i \in 1..n : IsBlock(ctrs[i])
  BY <1>1, <1>2, <1>3, GcmBlocks
<1> HIDE DEF ctrs
<1>5. /\ Clean(f) /\ Len(f) = Len(pt) /\ Len(Chunks(f)) = n
      /\ KeyStreamed(k, ctrs, f) = pt
  BY <1>1, <1>4, KeyStreamBack DEF n
<1> HIDE DEF f
<1>6. IsBlock(tag)
  <2> DEFINE h == Ghash(E(k, ZeroBlock), aad, f)
  <2>1. IsBlock(h)
    BY LinearBlock DEF Ghash, Gf128Mul
  <2>2. IsBlock(E(k, GcmJ0(nonce)))
    BY J0Block, BlockEnciphered
  <2> HIDE DEF h
  <2>3. IsBlock(Xor(h, E(k, GcmJ0(nonce))))
    BY <2>1, <2>2, BlockSum
  <2> QED
    BY <2>3 DEF GcmTag, h
<1>7. EncryptGcm(k, nonce, aad, pt) = Sealed(f, tag)
  BY DEF EncryptGcm, GcmSealed, f, ctrs
<1>8. GcmCounters(nonce, f) = ctrs
  BY <1>3, <1>5 DEF GcmCounters, first
<1>9. DecryptGcm(k, nonce, aad, f, tag) = Ok(pt)
  BY <1>5, <1>8 DEF DecryptGcm, OpenedIf
<1> HIDE DEF tag
<1> QED
  BY <1>5, <1>6, <1>7, <1>9 DEF Sealed, IsBlock, Clean

LEMMA GcmCombinedBack ==
  ASSUME NEW k, NEW nonce, Clean(nonce), Len(nonce) = B - 1, NEW aad, NEW pt, Clean(pt)
  PROVE  LET s == EncryptGcmCombined(k, nonce, aad, pt)
         IN  DecryptGcmCombined(k, nonce, aad, s.ct) = Ok(pt)
<1> DEFINE g == EncryptGcm(k, nonce, aad, pt)
           c == g.ct
           t == g.tag
           s == c \o t
<1>1. IsString(c) /\ IsString(t) /\ Len(t) = B /\ DecryptGcm(k, nonce, aad, c, t) = Ok(pt)
  BY GcmBack
<1>2. EncryptGcmCombined(k, nonce, aad, pt).ct = s
  BY DEF EncryptGcmCombined, Combined, Sealed
<1> HIDE DEF c, t
<1>3. /\ SubSeq(s, 1, Len(c)) = c /\ SubSeq(s, Len(c) + 1, Len(c) + Len(t)) = t
      /\ Len(s) = Len(c) + Len(t) /\ Len(c) \in Nat
  BY <1>1, JoinedBack, Joined, StringProperties
<1> HIDE DEF s
<1>4. /\ ~ (Len(s) < B) /\ Len(s) - B = Len(c) /\ Len(s) - B + 1 = Len(c) + 1
      /\ Len(s) = Len(c) + Len(t)
  BY <1>1, <1>3, BlockLen
<1>5. DecryptGcmCombined(k, nonce, aad, s) = DecryptGcm(k, nonce, aad, c, t)
  BY <1>3, <1>4 DEF DecryptGcmCombined
<1> QED
  BY <1>1, <1>2, <1>5

-----------------------------------------------------------------------------
(* MACs that start from a block and take in clean strings are blocks.      *)

AbsorbE(k, x, s) == Absorb(x, s, LAMBDA y : E(k, y))

LEMMA AbsorbBlock ==
  ASSUME NEW k, NEW x, IsBlock(x), NEW s, Clean(s)
  PROVE  IsBlock(AbsorbE(k, x, s))
<1> DEFINE c == Chunks(s)
           n == Len(c)
           y == AbsorbSeq(n, x, k, c)
<1>1. n \in Nat /\ \A i \in 1..n : Clean(c[i])
  BY CleanChunks
<1>2. AbsorbE(k, x, s) = y[n]
  BY DEF AbsorbE, Absorb, AbsorbSeq
<1>3. y[0] = x /\ \A i \in 1..n : y[i] = E(k, XorInto(y[i - 1], c[i]))
  BY <1>1, AbsorbSteps
<1> HIDE DEF y, n, c
<1> DEFINE T == {i \in 0..n : IsBlock(y[i])}
<1>4. ASSUME NEW i \in 0..(n - 1), i \in T PROVE i + 1 \in T
  <2>1. i + 1 \in 1..n /\ i + 1 \in 0..n /\ (i + 1) - 1 = i
    BY <1>1
  <2>2. Clean(XorInto(y[i], c[i + 1])) /\ Len(XorInto(y[i], c[i + 1])) = B
    BY <1>1, <1>4, <2>1, CleanInto DEF IsBlock
  <2>3. IsBlock(y[i + 1])
    BY <1>3, <2>1, <2>2, BlockEnciphered DEF IsBlock
  <2> QED
    BY <2>1, <2>3
<1>5. 0 \in T
  BY <1>1, <1>3
<1> HIDE DEF T
<1>6. 0..n \subseteq T /\ n \in 0..n
  BY <1>1, <1>4, <1>5, UpTo
<1> QED
  BY <1>2, <1>6 DEF T

LEMMA FramedBlock ==
  ASSUME NEW v, NEW w, NEW nonce, Clean(nonce), Len(nonce) = B - 2
  PROVE  IsBlock(<< Num(v) >> \o nonce \o << Num(w) >>)
<1> DEFINE s == << Num(v) >>
           t == << Num(w) >>
<1>1. Clean(s) /\ Len(s) = 1 /\ Clean(t) /\ Len(t) = 1
  BY One, CleanNum DEF Clean
<1> HIDE DEF s, t
<1>2. Clean(s \o nonce) /\ Len(s \o nonce) = Len(s) + Len(nonce)
  BY <1>1, CleanJoin
<1> DEFINE u == s \o nonce
<1> HIDE DEF u
<1>3. Clean(u \o t) /\ Len(u \o t) = Len(u) + Len(t)
  BY <1>1, <1>2, CleanJoin DEF u
<1>4. Len(u) + Len(t) = B
  BY <1>1, <1>2, BlockLen DEF u
<1> QED
  BY <1>3, <1>4 DEF IsBlock, u, s, t

LEMMA CcmMacBlock ==
  ASSUME NEW k, NEW nonce, Clean(nonce), Len(nonce) = B - 2, NEW aad, Clean(aad),
         NEW msg, Clean(msg), NEW tagLen, CcmCbcMac(k, nonce, aad, msg, tagLen).ok
  PROVE  IsBlock(CcmCbcMac(k, nonce, aad, msg, tagLen).val)
<1> DEFINE b0 == CcmB0(nonce, aad, Len(msg), tagLen)
           p == CcmPrefix(aad)
           x == AbsorbE(k, E(k, b0), p)
<1>1. CcmCbcMac(k, nonce, aad, msg, tagLen).val = AbsorbE(k, x, msg)
  <2>1. ~ (Len(p) > AadBuf)
    BY DEF CcmCbcMac, Err
  <2> QED
    BY <2>1 DEF CcmCbcMac, AbsorbE, Ok
<1>2. IsBlock(b0)
  BY FramedBlock DEF CcmB0, CcmFlags
<1>3. Clean(p)
  <2>1. CASE aad = << >>
    BY <2>1, CleanEmpty DEF CcmPrefix
  <2>2. CASE aad # << >>
    <3> DEFINE s == << Num(Len(aad)) >>
    <3>1. Clean(s)
      BY One, CleanNum DEF Clean
    <3> HIDE DEF s
    <3>2. Clean(s \o aad)
      BY <3>1, CleanJoin
    <3> QED
      BY <2>2, <3>2 DEF CcmPrefix, s
  <2> QED
    BY <2>1, <2>2
<1> HIDE DEF b0, p
<1>4. IsBlock(x)
  BY <1>2, <1>3, BlockEnciphered, AbsorbBlock
<1> HIDE DEF x
<1> QED
  BY <1>1, <1>4, AbsorbBlock

LEMMA CcmBack ==
  ASSUME NEW k, NEW nonce, Clean(nonce), Len(nonce) = B - 2, NEW aad, Clean(aad),
         NEW pt, Clean(pt), NEW tagLen, EncryptCcm(k, nonce, aad, pt, tagLen).ok
  PROVE  DecryptCcm(k, nonce, aad, EncryptCcm(k, nonce, aad, pt, tagLen).ct, tagLen) = Ok(pt)
<1> DEFINE auth == CcmCbcMac(k, nonce, aad, pt, tagLen)
           n == Len(Chunks(pt))
           ctrs == CcmCounters(nonce, pt)
           f == KeyStreamed(k, ctrs, pt)
           tag == CcmTag(k, nonce, auth.val, tagLen)
           in == f \o tag
<1>1. tagLen \in 1..B
  BY DEF EncryptCcm, Err
<1>2. EncryptCcm(k, nonce, aad, pt, tagLen) = CcmSealed(k, nonce, pt, tagLen, auth)
  BY <1>1 DEF EncryptCcm
<1> HIDE DEF auth
<1>3. auth.ok
  <2> SUFFICES ASSUME ~ auth.ok PROVE FALSE
    OBVIOUS
  <2>1. CcmSealed(k, nonce, pt, tagLen, auth) = auth
    BY DEF CcmSealed
  <2> QED
    BY <1>2, <2>1
<1>4. EncryptCcm(k, nonce, aad, pt, tagLen).ct = in
  BY <1>2, <1>3 DEF CcmSealed, Sealed
<1>5. n = Parts(Len(pt)) /\ n \in Nat
  BY CleanChunks
<1> HIDE DEF n
<1>6. /\ ctrs = [i \in 1..n |-> CcmA(nonce, i)]
      /\ \A i \in 1..n : IsBlock(ctrs[i])
  BY FramedBlock DEF CcmCounters, CcmA, n
<1> HIDE DEF ctrs
<1>7. /\ Clean(f) /\ Len(f) = Len(pt) /\ Len(Chunks(f)) = n
      /\ KeyStreamed(k, ctrs, f) = pt
  BY <1>5, <1>6, KeyStreamBack DEF n
<1> HIDE DEF f
<1>8. IsString(tag) /\ Len(tag) = tagLen
  <2> DEFINE s == Xor(auth.val, E(k, CcmA(nonce, 0)))
  <2>1. IsBlock(auth.val)
    BY <1>3, CcmMacBlock DEF auth
  <2>2. IsBlock(E(k, CcmA(nonce, 0)))
    BY FramedBlock, BlockEnciphered DEF CcmA
  <2>3. IsBlock(s)
    BY <2>1, <2>2, BlockSum
  <2> HIDE DEF s
  <2>4. tagLen \in Nat /\ tagLen <= B /\ 1 <= tagLen + 1 /\ tagLen - 1 + 1 = tagLen
    BY <1>1, BlockLen
  <2>5. Clean(SubSeq(s, 1, tagLen)) /\ Len(SubSeq(s, 1, tagLen)) = tagLen - 1 + 1
    BY <2>3, <2>4, CleanPart DEF IsBlock
  <2> QED
    BY <2>4, <2>5 DEF CcmTag, s, Clean
<1> HIDE DEF tag
<1>9. /\ SubSeq(in, 1, Len(f)) = f /\ SubSeq(in, Len(f) + 1, Len(f) + Len(tag)) = tag
      /\ Len(in) = Len(f) + Len(tag) /\ Len(f) \in Nat
  BY <1>7, <1>8, JoinedBack, Joined, StringProperties DEF Clean
<1> HIDE DEF in
<1>10. ~ (Len(in) < tagLen) /\ Len(in) - tagLen = Len(f) /\ Len(in) = Len(f) + Len(tag)
  BY <1>1, <1>8, <1>9
<1>11. CcmCounters(nonce, f) = ctrs
  BY <1>6, <1>7 DEF CcmCounters
<1>12. DecryptCcm(k, nonce, aad, in, tagLen) = CcmOpenedOf(k, nonce, aad, pt, tag, tagLen)
  BY <1>7, <1>9, <1>10, <1>11 DEF DecryptCcm
<1>13. CcmOpenedOf(k, nonce, aad, pt, tag, tagLen) = Ok(pt)
  <2>1. CcmOpenedOf(k, nonce, aad, pt, tag, tagLen) = CcmOpened(k, nonce, pt, tag, tagLen, auth)
    BY DEF CcmOpenedOf, auth
  <2> QED
    BY <1>3, <2>1 DEF CcmOpened, OpenedIf, tag
<1> QED
  BY <1>4, <1>12, <1>13

-----------------------------------------------------------------------------
(* SIV: the MAC of a sequence of strings is a block.                       *)

LEMMA S2vAbsorbBlock ==
  ASSUME NEW k, NEW d, IsBlock(d), NEW s, Clean(s)
  PROVE  IsBlock(S2vAbsorb(k, d, s))
<1>0. Len(s) \in Nat
  BY StringProperties DEF Clean
<1>1. CASE Len(s) < B
  <2>1. S2vAbsorb(k, d, s) = E(k, XorInto(d, s))
    BY <1>1 DEF S2vAbsorb
  <2>2. IsBlock(XorInto(d, s))
    BY CleanInto DEF IsBlock
  <2> QED
    BY <2>1, <2>2, BlockEnciphered
<1>2. CASE ~ (Len(s) < B)
  <2> DEFINE last == SubSeq(s, Len(s) - B + 1, Len(s))
             front == SubSeq(s, 1, Len(s) - B)
             x == E(k, Xor(d, last))
  <2>1. S2vAbsorb(k, d, s) = AbsorbE(k, x, front)
    BY <1>2 DEF S2vAbsorb, AbsorbE
  <2>2. IsBlock(last)
    <3>1. /\ Len(s) - B + 1 \in Nat \ {0} /\ Len(s) <= Len(s) /\ Len(s) - B + 1 <= Len(s) + 1
          /\ Len(s) - (Len(s) - B + 1) + 1 = B
      BY <1>0, <1>2, BlockLen
    <3>2. Clean(last) /\ Len(last) = Len(s) - (Len(s) - B + 1) + 1
      BY <1>0, <3>1, CleanPart
    <3> QED
      BY <3>1, <3>2 DEF IsBlock
  <2>3. Clean(front)
    <3>1. Len(s) - B \in Nat /\ Len(s) - B <= Len(s) /\ 1 <= Len(s) - B + 1
      BY <1>0, <1>2, BlockLen
    <3> QED
      BY <3>1, CleanPart
  <2> HIDE DEF last, front
  <2>4. IsBlock(x)
    BY <2>2, BlockSum, BlockEnciphered
  <2> HIDE DEF x
  <2> QED
    BY <2>1, <2>3, <2>4, AbsorbBlock
<1> QED
  BY <1>1, <1>2

LEMMA MarkedBlock ==
  ASSUME NEW d, IsBlock(d), NEW v
  PROVE  IsBlock([d EXCEPT ![B] = SymDiff(@, Num(v))])
<1> DEFINE e == [d EXCEPT ![B] = SymDiff(@, Num(v))]
<1>1. DOMAIN d = 1..B /\ B \in 1..B /\ B \in Nat
  BY StringProperties, BlockLen DEF IsBlock, Clean
<1>2. e = [i \in 1..B |-> e[i]] /\ \A i \in 1..B : e[i] = d[i] \/ e[i] = SymDiff(d[B], Num(v))
  BY <1>1
<1> HIDE DEF e
<1>3. \A i \in 1..B : \A a \in d[i] : a[1] # "D"
  BY DEF IsBlock, Clean
<1>4. \A a \in SymDiff(d[B], Num(v)) : a[1] # "D"
  BY <1>1, <1>3, CleanNum DEF SymDiff
<1>5. Clean(e) /\ Len(e) = B
  BY <1>1, <1>2, <1>3, <1>4, CleanMade
<1> QED
  BY <1>5 DEF IsBlock, e

LEMMA S2vBlock ==
  ASSUME NEW k, NEW nonce, NEW aad, Len(aad \o nonce) \in Nat,
         \A i \in 1..Len(aad \o nonce) : Clean((aad \o nonce)[i]), NEW data, Clean(data)
  PROVE  IsBlock(ComputeS2v(k, nonce, aad, data))
<1> DEFINE s == aad \o nonce
           n == Len(s)
           x == E(k, ZeroBlock)
           y == S2vSeq(n, x, k, s)
<1>1. IsBlock(x)
  BY ZeroIsBlock, BlockEnciphered
<1> HIDE DEF x
<1>3. ComputeS2v(k, nonce, aad, data)
        = S2vAbsorb(k, [y[n] EXCEPT ![B] = SymDiff(@, Num(Len(data)))], data)
  BY DEF ComputeS2v, x, S2vSeq
<1>4. n \in Nat /\ \A i \in 1..n : Clean(s[i])
  OBVIOUS
<1> HIDE DEF n, s
<1>2. y[0] = x /\ \A i \in 1..n : y[i] = S2vAbsorb(k, y[i - 1], s[i])
  BY <1>4, S2vSteps
<1> HIDE DEF y
<1> DEFINE T == {i \in 0..n : IsBlock(y[i])}
<1>5. ASSUME NEW i \in 0..(n - 1), i \in T PROVE i + 1 \in T
  <2>1. i + 1 \in 1..n /\ i + 1 \in 0..n /\ (i + 1) - 1 = i
    BY <1>4
  <2>2. IsBlock(S2vAbsorb(k, y[i], s[i + 1]))
    BY <1>4, <1>5, <2>1, S2vAbsorbBlock
  <2> QED
    BY <1>2, <2>1, <2>2
<1>6. 0 \in T
  BY <1>1, <1>2, <1>4
<1> HIDE DEF T
<1>7. n \in Nat
  BY <1>4
<1>8. 0..n \subseteq T
  BY <1>5, <1>6, <1>7, UpTo
<1>9. n \in 0..n
  BY <1>7
<1>10. IsBlock(y[n])
  BY <1>8, <1>9 DEF T
<1> QED
  BY <1>3, <1>10, MarkedBlock, S2vAbsorbBlock

LEMMA SivBack ==
  ASSUME NEW k, NEW k2, NEW nonce, NEW aad, Len(aad \o nonce) \in Nat,
         \A i \in 1..Len(aad \o nonce) : Clean((aad \o nonce)[i]), NEW pt, Clean(pt)
  PROVE  LET s == EncryptSiv(k, k2, nonce, aad, pt)
         IN  DecryptSiv(k, k2, nonce, aad, s.ct, s.tag) = Ok(pt)
<1> DEFINE v == ComputeS2v(k, nonce, aad, pt)
           f == CryptCtr(k2, v, pt)
<1>1. IsBlock(v)
  BY S2vBlock
<1>2. EncryptSiv(k, k2, nonce, aad, pt) = Sealed(f, v)
  BY DEF EncryptSiv, SivSealed
<1> HIDE DEF v
<1>3. CryptCtr(k2, v, f) = pt
  BY <1>1, CtrBack
<1> HIDE DEF f
<1>4. DecryptSiv(k, k2, nonce, aad, f, v) = Ok(pt)
  BY <1>3 DEF DecryptSiv, SivOpened, OpenedIf, v
<1> QED
  BY <1>2, <1>4 DEF Sealed

-----------------------------------------------------------------------------
(* Whole blocks, and what comes after them.                                *)

LEMMA Quotient ==
  ASSUME NEW len \in Nat
  PROVE  LET q == len \div B
         IN  /\ q \in Nat /\ Off(q) \in Nat /\ Off(q) <= len /\ len < Off(q) + B
             /\ len - Off(q) \in 0..(B - 1) /\ q <= Parts(len)
             /\ \A i \in 1..q : PartLen(i, len) = B /\ i \in 1..Parts(len)
             /\ Parts(Off(q)) = q /\ \A i \in 1..q : PartLen(i, Off(q)) = B
<1> DEFINE q == len \div B
           r == len % B
           n == Parts(len)
           m == Parts(Off(q))
<1>1. len = B * q + r /\ r \in 0..(B - 1) /\ q \in Nat /\ B \in Nat /\ B >= 3
  BY BlockLen
<1>2. Off(q) = B * q /\ Off(q) \in Nat
  BY <1>1 DEF Off
<1>3. n \in Nat /\ len <= Off(n) /\ Off(n) < len + B
  BY PartsAre
<1>4. m \in Nat /\ Off(q) <= Off(m) /\ Off(m) < Off(q) + B
  BY <1>2, PartsAre
<1> HIDE DEF q, r, n, m
<1>5. Off(q) <= len /\ len < Off(q) + B /\ len - Off(q) \in 0..(B - 1)
  BY <1>1, <1>2
<1>6. q <= n
  <2> SUFFICES ASSUME n + 1 <= q PROVE FALSE
    BY <1>1, <1>3
  <2>1. Off(n + 1) <= Off(q) /\ Off(n + 1) = Off(n) + B /\ Off(n) \in Nat
    <3>1. n + 1 \in Nat
      BY <1>3
    <3>2. Off(n + 1) <= Off(q)
      BY <1>1, <3>1, OffGrows
    <3> QED
      BY <1>3, <3>2, OffIs
  <2> QED
    BY <1>1, <1>2, <1>3, <1>5, <2>1
<1>7. m = q
  <2>1. ~ (m < q)
    <3> SUFFICES ASSUME m + 1 <= q PROVE FALSE
      BY <1>1, <1>4
    <3>1. m + 1 \in Nat
      BY <1>4
    <3>2. Off(m + 1) <= Off(q)
      BY <1>1, <3>1, OffGrows
    <3>3. Off(m + 1) = Off(m) + B /\ Off(m) \in Nat
      BY <1>4, OffIs
    <3> QED
      BY <1>1, <1>2, <1>4, <3>2, <3>3
  <2>2. ~ (q < m)
    <3> SUFFICES ASSUME q + 1 <= m PROVE FALSE
      BY <1>1, <1>4
    <3>1. q + 1 \in Nat
      BY <1>1
    <3>2. Off(q + 1) <= Off(m)
      BY <1>4, <3>1, OffGrows
    <3>3. Off(q + 1) = Off(q) + B /\ Off(m) \in Nat
      BY <1>1, <1>4, OffIs
    <3> QED
      BY <1>1, <1>2, <1>4, <3>2, <3>3
  <2> QED
    BY <1>1, <1>4, <2>1, <2>2
<1>8. ASSUME NEW i \in 1..q
      PROVE  PartLen(i, len) = B /\ i \in 1..n /\ PartLen(i, Off(q)) = B
  <2>1. i \in Nat /\ i <= q /\ i \in 1..n
    BY <1>1, <1>3, <1>6
  <2>2. Off(i) <= Off(q) /\ Off(i) \in Nat
    BY <1>1, <2>1, OffGrows, OffIs
  <2>3. Off(i) <= len
    BY <1>2, <1>5, <2>2
  <2> QED
    BY <2>1, <2>2, <2>3 DEF PartLen
<1> QED
  BY <1>1, <1>2, <1>5, <1>6, <1>7, <1>8 DEF q, n, m

(* What the whole blocks and the tail of a string are.                     *)
LEMMA WholeAre ==
  ASSUME NEW s, IsString(s)
  PROVE  LET q == Len(s) \div B
             w == WholeBlocks(s)
             r == Tail16(s)
         IN  /\ Shaped(w, Off(q)) /\ Len(w) = q /\ w = [i \in 1..q |-> Chunks(s)[i]]
             /\ \A i \in 1..q : \A j \in 1..B : w[i][j] = s[Off(i - 1) + j]
             /\ IsString(r) /\ Len(r) = Len(s) - Off(q)
             /\ \A j \in 1..(Len(s) - Off(q)) : r[j] = s[Off(q) + j]
<1> DEFINE len == Len(s)
           q == len \div B
           c == Chunks(s)
           w == WholeBlocks(s)
           r == Tail16(s)
           n == Parts(len)
<1>1. len \in Nat
  BY StringProperties
<1>2. /\ q \in Nat /\ Off(q) \in Nat /\ Off(q) <= len /\ q <= n
      /\ \A i \in 1..q : PartLen(i, len) = B /\ i \in 1..n
      /\ Parts(Off(q)) = q /\ \A i \in 1..q : PartLen(i, Off(q)) = B
  BY <1>1, Quotient
<1>3. /\ Shaped(c, len) /\ Len(c) = n
      /\ \A i \in 1..n : \A j \in 1..PartLen(i, len) : c[i][j] = s[Off(i - 1) + j]
  BY ChunksAre
<1>4. w = SubSeq(c, 1, q)
  BY DEF WholeBlocks
<1>5. r = SubSeq(s, Off(q) + 1, len)
  BY DEF Tail16, Off
<1> HIDE DEF c, w, r
<1>6. IsString(c)
  <2>1. c = [i \in 1..n |-> c[i]] /\ n \in Nat
    BY <1>1, <1>3, PartsAre DEF Shaped
  <2> QED
    BY <2>1, MadeString
<1> HIDE DEF q, n, len
<1>7. /\ IsString(w) /\ Len(w) = q
      /\ \A i \in 1..q : w[i] = c[i]
  <2>1. /\ 1 \in Nat \ {0} /\ q <= Len(c) /\ 1 <= q + 1 /\ q - 1 + 1 = q
        /\ \A i \in 1..q : 1 + i - 1 = i
    BY <1>2, <1>3
  <2>2. /\ IsString(w) /\ Len(w) = q - 1 + 1
        /\ \A i \in 1..(q - 1 + 1) : w[i] = c[1 + i - 1]
    BY <1>2, <1>4, <1>6, <2>1, PartIs
  <2> QED
    BY <2>1, <2>2
<1>8. w = [i \in 1..q |-> c[i]]
  <2>1. w = [i \in 1..q |-> w[i]]
    BY <1>7, StringMade
  <2> QED
    BY <1>7, <2>1
<1>9. ASSUME NEW i \in 1..q PROVE IsString(w[i]) /\ Len(w[i]) = B
  <2>1. i \in 1..n /\ PartLen(i, len) = B /\ w[i] = c[i]
    BY <1>2, <1>7
  <2>2. IsString(c[i]) /\ Len(c[i]) = PartLen(i, len)
    BY <1>3, <2>1 DEF Shaped, n
  <2> QED
    BY <2>1, <2>2
<1>10. Shaped(w, Off(q))
  <2>1. w = [i \in 1..q |-> w[i]]
    BY <1>7, StringMade
  <2> QED
    BY <1>2, <1>9, <2>1 DEF Shaped
<1>11. \A i \in 1..q : \A j \in 1..B : w[i][j] = s[Off(i - 1) + j]
  BY <1>2, <1>3, <1>7
<1>12. /\ IsString(r) /\ Len(r) = len - Off(q)
       /\ \A j \in 1..(len - Off(q)) : r[j] = s[Off(q) + j]
  <2>1. /\ Off(q) + 1 \in Nat \ {0} /\ len <= len /\ Off(q) + 1 <= len + 1
        /\ len - (Off(q) + 1) + 1 = len - Off(q)
        /\ \A j \in 1..(len - Off(q)) : Off(q) + 1 + j - 1 = Off(q) + j
    BY <1>1, <1>2
  <2>2. /\ IsString(r) /\ Len(r) = len - (Off(q) + 1) + 1
        /\ \A j \in 1..(len - (Off(q) + 1) + 1) : r[j] = s[Off(q) + 1 + j - 1]
    BY <1>1, <1>5, <2>1, PartIs DEF len
  <2> QED
    BY <2>1, <2>2
<1> QED
  BY <1>7, <1>8, <1>10, <1>11, <1>12 DEF q, c, w, r, len

(* They are clean when the string is.                                      *)
LEMMA CleanWhole ==
  ASSUME NEW s, Clean(s)
  PROVE  /\ Len(WholeBlocks(s)) = Len(s) \div B /\ Len(s) \div B \in Nat
         /\ \A i \in 1..(Len(s) \div B) : IsBlock(WholeBlocks(s)[i])
         /\ Clean(Tail16(s)) /\ Len(Tail16(s)) \in 0..(B - 1)
<1> DEFINE len == Len(s)
           q == len \div B
           w == WholeBlocks(s)
           c == Chunks(s)
           r == Tail16(s)
<1>1. /\ len \in Nat /\ Len(c) = Parts(len)
      /\ \A i \in 1..Parts(len) : Clean(c[i]) /\ Len(c[i]) = PartLen(i, len)
  BY CleanChunks
<1>2. /\ q \in Nat /\ Off(q) \in Nat /\ len - Off(q) \in 0..(B - 1) /\ Off(q) <= len
      /\ \A i \in 1..q : PartLen(i, len) = B /\ i \in 1..Parts(len)
  BY <1>1, Quotient
<1>3. /\ Len(w) = q /\ w = [i \in 1..q |-> c[i]]
      /\ IsString(r) /\ Len(r) = len - Off(q)
      /\ \A j \in 1..(len - Off(q)) : r[j] = s[Off(q) + j]
  BY WholeAre DEF Clean
<1>4. \A a \in 1..len : \A t \in s[a] : t[1] # "D"
  BY DEF Clean
<1> HIDE DEF w, c, r, q, len
<1>5. \A i \in 1..q : IsBlock(w[i])
  BY <1>1, <1>2, <1>3 DEF IsBlock
<1>6. \A j \in 1..(len - Off(q)) : Off(q) + j \in 1..len
  BY <1>1, <1>2
<1>7. Clean(r)
  BY <1>3, <1>4, <1>6 DEF Clean
<1> QED
  BY <1>2, <1>3, <1>5, <1>7 DEF w, q, r, len

(* A string is its whole blocks and its tail, and whole blocks and a tail  *)
(* put together are that string's.                                         *)
LEMMA WholeJoined ==
  ASSUME NEW s, IsString(s)
  PROVE  FlattenSeq(WholeBlocks(s)) \o Tail16(s) = s
<1> DEFINE len == Len(s)
           q == len \div B
           w == WholeBlocks(s)
           r == Tail16(s)
           f == FlattenSeq(w)
           u == f \o r
<1>1. len \in Nat
  BY StringProperties
<1>2. /\ q \in Nat /\ Off(q) \in Nat /\ Off(q) <= len
      /\ Parts(Off(q)) = q /\ \A i \in 1..q : PartLen(i, Off(q)) = B
  BY <1>1, Quotient
<1>3. /\ Shaped(w, Off(q))
      /\ \A i \in 1..q : \A j \in 1..B : w[i][j] = s[Off(i - 1) + j]
      /\ IsString(r) /\ Len(r) = len - Off(q)
      /\ \A j \in 1..(len - Off(q)) : r[j] = s[Off(q) + j]
  BY WholeAre
<1> HIDE DEF w, r, q, len
<1>4. Flat(f, w, Off(q))
  BY <1>2, <1>3, FlatShaped
<1> HIDE DEF f
<1>5. IsString(f) /\ Len(f) = Off(q)
  BY <1>4 DEF Flat
<1>6. /\ IsString(u) /\ Len(u) = Len(f) + Len(r)
      /\ \A a \in 1..(Len(f) + Len(r)) : u[a] = IF a <= Len(f) THEN f[a] ELSE r[a - Len(f)]
  BY <1>3, <1>5, Joined
<1> HIDE DEF u
<1>7. Len(f) + Len(r) = len
  BY <1>1, <1>2, <1>3, <1>5
<1>8. ASSUME NEW a \in 1..len PROVE u[a] = s[a]
  <2>1. CASE a <= Off(q)
    <3>1. a \in 1..Off(q)
      BY <1>2, <2>1
    <3>2. PICK i \in 1..q : \E j \in 1..PartLen(i, Off(q)) : a = Off(i - 1) + j
      BY <1>2, <3>1, PartPlace
    <3>3. PICK j \in 1..B : a = Off(i - 1) + j
      BY <1>2, <3>2
    <3>4. f[Off(i - 1) + j] = w[i][j]
      BY <1>2, <1>4 DEF Flat
    <3> QED
      BY <1>3, <1>5, <1>6, <1>7, <2>1, <3>3, <3>4
  <2>2. CASE ~ (a <= Off(q))
    <3>1. a - Off(q) \in 1..(len - Off(q)) /\ Off(q) + (a - Off(q)) = a
      BY <1>1, <1>2, <2>2
    <3>2. u[a] = r[a - Off(q)]
      BY <1>5, <1>6, <1>7, <2>2
    <3> QED
      BY <1>3, <3>1, <3>2
  <2> QED
    BY <2>1, <2>2
<1>9. u = s
  BY <1>6, <1>7, <1>8, SameString DEF len
<1> QED
  BY <1>9 DEF u, f, w, r

LEMMA WholeOfJoined ==
  ASSUME NEW len \in Nat, NEW t, Shaped(t, Off(len \div B)), NEW g, IsString(g),
         Len(g) = len - Off(len \div B)
  PROVE  LET s == FlattenSeq(t) \o g
         IN  IsString(s) /\ Len(s) = len /\ WholeBlocks(s) = t /\ Tail16(s) = g
<1> DEFINE q == len \div B
           f == FlattenSeq(t)
           s == f \o g
           w == WholeBlocks(s)
           r == Tail16(s)
<1>1. /\ q \in Nat /\ Off(q) \in Nat /\ Off(q) <= len
      /\ Parts(Off(q)) = q /\ \A i \in 1..q : PartLen(i, Off(q)) = B
  BY Quotient
<1>0. Len(g) = len - Off(q) /\ Shaped(t, Off(q))
  OBVIOUS
<1>2. Flat(f, t, Off(q))
  BY <1>1, FlatShaped
<1> HIDE DEF f
<1>3. IsString(f) /\ Len(f) = Off(q)
  BY <1>2 DEF Flat
<1>4. /\ IsString(s) /\ Len(s) = Len(f) + Len(g)
      /\ \A a \in 1..(Len(f) + Len(g)) : s[a] = IF a <= Len(f) THEN f[a] ELSE g[a - Len(f)]
  BY <1>3, Joined
<1>5. Len(s) = len /\ Len(f) + Len(g) = len
  BY <1>0, <1>1, <1>3, <1>4
<1> HIDE DEF s
<1>a. q = Len(s) \div B
  BY <1>5
<1> HIDE DEF q
<1>6. /\ Shaped(w, Off(q))
      /\ \A i \in 1..q : \A j \in 1..B : w[i][j] = s[Off(i - 1) + j]
      /\ IsString(r) /\ Len(r) = len - Off(q)
      /\ \A j \in 1..(len - Off(q)) : r[j] = s[Off(q) + j]
  BY <1>4, <1>5, <1>a, WholeAre
<1> HIDE DEF w, r
<1>7. ASSUME NEW i \in 1..q PROVE w[i] = t[i]
  <2>1. IsString(w[i]) /\ Len(w[i]) = B /\ IsString(t[i]) /\ Len(t[i]) = B
    BY <1>0, <1>1, <1>6 DEF Shaped
  <2>2. ASSUME NEW j \in 1..B PROVE w[i][j] = t[i][j]
    <3>1. f[Off(i - 1) + j] = t[i][j]
      BY <1>1, <1>2 DEF Flat
    <3>2. Off(i - 1) + j \in 1..Off(q)
      <4>1. i \in Nat /\ i # 0 /\ i <= q
        BY <1>1
      <4>2. Off(i - 1) \in Nat /\ Off(i) = Off(i - 1) + B /\ i - 1 \in Nat
        BY <4>1, OffIs
      <4>3. Off(i) <= Off(q)
        BY <1>1, <4>1, OffGrows
      <4> QED
        BY <1>1, <4>2, <4>3, BlockLen
    <3>3. Off(i - 1) + j \in 1..len /\ Off(i - 1) + j <= Len(f)
      BY <1>1, <1>3, <3>2
    <3> QED
      BY <1>4, <1>5, <1>6, <3>1, <3>3
  <2> QED
    BY <2>1, <2>2, SameString
<1>8. w = t
  BY <1>0, <1>1, <1>6, <1>7 DEF Shaped
<1>9. ASSUME NEW j \in 1..(len - Off(q)) PROVE r[j] = g[j]
  <2>1. Off(q) + j \in 1..len /\ ~ (Off(q) + j <= Off(q)) /\ Off(q) + j - Off(q) = j
    BY <1>1
  <2>2. s[Off(q) + j] = g[Off(q) + j - Off(q)]
    BY <1>3, <1>4, <1>5, <2>1
  <2>3. r[j] = s[Off(q) + j]
    BY <1>6
  <2> QED
    BY <2>1, <2>2, <2>3
<1>10. r = g
  BY <1>0, <1>6, <1>9, SameString
<1> QED
  BY <1>4, <1>5, <1>8, <1>10 DEF s, f, w, r, q

-----------------------------------------------------------------------------
(* EAX: the MAC of the nonce is a block.                                   *)

LEMMA OnePaddedBlock ==
  ASSUME NEW s, Clean(s)
  PROVE  IsBlock(OnePadded(s))
<1> DEFINE t == Append(s, Num(Radix \div 2))
           n == Len(s)
<1>1. n \in Nat /\ IsString(s)
  BY StringProperties DEF Clean
<1>2. /\ t = [i \in 1..(n + 1) |-> t[i]]
      /\ \A i \in 1..n : t[i] = s[i]
      /\ t[n + 1] = Num(Radix \div 2)
  BY <1>1, AppendMakes
<1> HIDE DEF t
<1>3. ASSUME NEW i \in 1..(n + 1), NEW a \in t[i] PROVE a[1] # "D"
  <2>1. CASE i \in 1..n
    BY <1>2, <1>3, <2>1 DEF Clean
  <2>2. CASE i \notin 1..n
    <3>1. i = n + 1
      BY <1>1, <2>2
    <3> QED
      BY <1>2, <1>3, <3>1, CleanNum
  <2> QED
    BY <2>1, <2>2
<1> HIDE DEF n
<1>4. Clean(t)
  BY <1>1, <1>2, <1>3, CleanMade
<1>5. IsBlock(XorInto(ZeroBlock, t))
  BY <1>4, ZeroIsBlock, CleanInto DEF IsBlock
<1> QED
  BY <1>5 DEF OnePadded, ZeroPadded, t

LEMMA OmacStateBlock ==
  ASSUME NEW k, NEW whole, Len(whole) \in Nat, \A i \in 1..Len(whole) : IsBlock(whole[i])
  PROVE  IsBlock(OmacState(k, whole))
<1> DEFINE n == Len(whole)
           y == OmacSeq(n, ZeroBlock, k, whole)
<1>1. n \in Nat /\ \A i \in 1..n : IsBlock(whole[i])
  OBVIOUS
<1>2. OmacState(k, whole) = y[n]
  BY DEF OmacState, OmacSeq
<1> HIDE DEF n
<1>3. y[0] = ZeroBlock /\ \A i \in 1..n : y[i] = E(k, Xor(y[i - 1], whole[i]))
  BY <1>1, OmacSteps
<1> HIDE DEF y
<1> DEFINE T == {i \in 0..n : IsBlock(y[i])}
<1>4. ASSUME NEW i \in 0..(n - 1), i \in T PROVE i + 1 \in T
  <2>1. i + 1 \in 1..n /\ i + 1 \in 0..n /\ (i + 1) - 1 = i
    BY <1>1
  <2>2. IsBlock(Xor(y[i], whole[i + 1]))
    BY <1>1, <1>4, <2>1, BlockSum
  <2>3. IsBlock(y[i + 1])
    BY <1>3, <2>1, <2>2, BlockEnciphered
  <2> QED
    BY <2>1, <2>3
<1>5. 0 \in T
  BY <1>1, <1>3, ZeroIsBlock
<1> HIDE DEF T
<1>6. 0..n \subseteq T
  BY <1>1, <1>4, <1>5, UpTo
<1>7. n \in 0..n
  BY <1>1
<1> QED
  BY <1>2, <1>6, <1>7 DEF T

LEMMA OmacBlock ==
  ASSUME NEW k, NEW tweak, NEW data, Clean(data)
  PROVE  IsBlock(Omac(k, tweak, data))
<1> DEFINE k1 == Gf128MulU(E(k, ZeroBlock))
           whole == WholeBlocks(data)
           tail == Tail16(data)
           st == OmacState(k, whole)
<1>1. Omac(k, tweak, data) = OmacOf(k, k1, whole, tail)
  BY DEF Omac
<1>2. IsBlock(k1) /\ IsBlock(Gf128MulU(k1))
  BY LinearBlock DEF Gf128MulU
<1> HIDE DEF k1
<1>3. Len(whole) \in Nat /\ (\A i \in 1..Len(whole) : IsBlock(whole[i])) /\ Clean(tail)
  BY CleanWhole
<1> HIDE DEF whole, tail
<1>4. IsBlock(st) /\ IsBlock(OnePadded(tail))
  BY <1>3, OmacStateBlock, OnePaddedBlock
<1>5. CASE whole = << >> /\ tail = << >>
  <2>1. OmacOf(k, k1, whole, tail) = E(k, Gf128MulU(k1))
    BY <1>5 DEF OmacOf
  <2> QED
    BY <1>1, <1>2, <2>1, BlockEnciphered
<1>6. CASE whole # << >> /\ tail = << >>
  <2>1. OmacOf(k, k1, whole, tail) = E(k, Xor(st, k1))
    BY <1>6 DEF OmacOf
  <2> HIDE DEF st
  <2>2. IsBlock(Xor(st, k1))
    BY <1>2, <1>4, BlockSum
  <2> QED
    BY <1>1, <2>1, <2>2, BlockEnciphered
<1>7. CASE tail # << >>
  <2>1. OmacOf(k, k1, whole, tail) = E(k, Xor(Xor(st, OnePadded(tail)), Gf128MulU(k1)))
    BY <1>7 DEF OmacOf
  <2> HIDE DEF st
  <2>2. IsBlock(Xor(Xor(st, OnePadded(tail)), Gf128MulU(k1)))
    BY <1>2, <1>4, BlockSum
  <2> QED
    BY <1>1, <2>1, <2>2, BlockEnciphered
<1> QED
  BY <1>5, <1>6, <1>7

LEMMA EaxBack ==
  ASSUME NEW k, NEW nonce, Clean(nonce), NEW aad, NEW pt, Clean(pt)
  PROVE  LET s == EncryptEax(k, nonce, aad, pt)
         IN  DecryptEax(k, nonce, aad, s.ct, s.tag) = Ok(pt)
<1> DEFINE v == Omac(k, EaxTweak(k, 1), nonce)
           f == CryptCtr(k, v, pt)
           tag == EaxTag(k, aad, f)
<1>1. IsBlock(v)
  BY OmacBlock
<1>2. EncryptEax(k, nonce, aad, pt) = Sealed(f, tag)
  BY DEF EncryptEax, EaxSealed
<1> HIDE DEF v
<1>3. CryptCtr(k, v, f) = pt
  BY <1>1, CtrBack
<1> HIDE DEF f
<1>4. DecryptEax(k, nonce, aad, f, tag) = Ok(pt)
  BY <1>3 DEF DecryptEax, OpenedIf, v
<1> HIDE DEF tag
<1> QED
  BY <1>2, <1>4 DEF Sealed

-----------------------------------------------------------------------------
(* OCB: the offsets are blocks.                                            *)

LEMMA MaxIn ==
  ASSUME NEW max \in Nat, NEW S, S \subseteq 0..max, S # {}
  PROVE  Max(S) \in S /\ \A y \in S : y <= Max(S)
<1> DEFINE below == {d \in 0..max : max - d \in S}
<1>1. below \subseteq Nat /\ below # {}
  <2>1. PICK y \in S : TRUE
    OBVIOUS
  <2>2. max - y \in 0..max /\ max - (max - y) = y
    OBVIOUS
  <2> QED
    BY <2>2
<1>2. PICK z \in below : \A y \in below : z <= y
  BY <1>1, LeastNat
<1>3. max - z \in S /\ z \in 0..max
  BY <1>2
<1>4. ASSUME NEW y \in S PROVE y <= max - z
  <2>1. max - y \in 0..max /\ max - (max - y) = y
    OBVIOUS
  <2>2. z <= max - y
    BY <1>2, <2>1
  <2> QED
    BY <1>3, <2>2
<1>5. \E m \in S : \A y \in S : y <= m
  BY <1>3, <1>4
<1> QED
  BY <1>5 DEF Max

LEMMA PowersAre ==
  /\ TwoTo(0) = 1
  /\ \A n \in Nat : /\ TwoTo(n) \in Nat \ {0} /\ n < TwoTo(n)
                    /\ TwoTo(n + 1) = 2 * TwoTo(n)
<1>1. \A n \in Nat : TwoTo(n) = TwiceSeq(n, 1)[n]
  BY DEF TwoTo, TwiceSeq
<1>2. \A n \in Nat : /\ TwiceSeq(n, 1)[0] = 1
                     /\ \A i \in 1..n : TwiceSeq(n, 1)[i] = 2 * TwiceSeq(n, 1)[i - 1]
  BY TwiceSteps
<1>3. ASSUME NEW n \in Nat, NEW f, NEW g, f[0] = 1, g[0] = 1,
             \A i \in 1..n : f[i] = 2 * f[i - 1], \A i \in 1..n : g[i] = 2 * g[i - 1]
      PROVE  \A i \in 0..n : f[i] = g[i] /\ f[i] \in Nat /\ i < f[i]
  <2> DEFINE T == {i \in 0..n : f[i] = g[i] /\ f[i] \in Nat /\ i < f[i]}
  <2>1. 0 \in T
    BY <1>3
  <2>2. ASSUME NEW i \in 0..(n - 1), i \in T PROVE i + 1 \in T
    <3>1. i + 1 \in 1..n /\ i + 1 \in 0..n /\ (i + 1) - 1 = i
      OBVIOUS
    <3>2. f[i + 1] = 2 * f[i] /\ g[i + 1] = 2 * g[i]
      BY <1>3, <3>1
    <3>3. PICK v : v = f[i]
      OBVIOUS
    <3>4. v \in Nat /\ i < v /\ g[i] = v
      BY <2>2, <3>3
    <3>5. 2 * v \in Nat /\ i + 1 < 2 * v
      BY <3>4
    <3> QED
      BY <3>1, <3>2, <3>3, <3>4, <3>5
  <2> HIDE DEF T
  <2>3. 0..n \subseteq T
    BY <2>1, <2>2, UpTo
  <2> QED
    BY <2>3 DEF T
<1>4. TwoTo(0) = 1
  BY <1>1, <1>2
<1>5. ASSUME NEW n \in Nat
      PROVE  TwoTo(n) \in Nat \ {0} /\ n < TwoTo(n) /\ TwoTo(n + 1) = 2 * TwoTo(n)
  <2>1. PICK f, g : f = TwiceSeq(n, 1) /\ g = TwiceSeq(n + 1, 1)
    OBVIOUS
  <2>2. f[0] = 1 /\ (\A i \in 1..n : f[i] = 2 * f[i - 1]) /\ TwoTo(n) = f[n]
    BY <1>1, <1>2, <2>1
  <2>3. /\ g[0] = 1 /\ TwoTo(n + 1) = g[n + 1]
        /\ \A i \in 1..(n + 1) : g[i] = 2 * g[i - 1]
    <3>1. n + 1 \in Nat
      OBVIOUS
    <3> QED
      BY <1>1, <1>2, <2>1, <3>1
  <2>4. \A i \in 0..n : f[i] = g[i] /\ f[i] \in Nat /\ i < f[i]
    <3>1. \A i \in 1..n : g[i] = 2 * g[i - 1]
      BY <2>3
    <3> QED
      BY <1>3, <2>2, <2>3, <3>1
  <2>5. f[n] = g[n] /\ f[n] \in Nat /\ n < f[n] /\ g[n + 1] = 2 * g[n]
    <3>1. n \in 0..n /\ n + 1 \in 1..(n + 1) /\ (n + 1) - 1 = n
      OBVIOUS
    <3> QED
      BY <2>3, <2>4, <3>1
  <2> QED
    BY <2>2, <2>3, <2>5
<1> QED
  BY <1>4, <1>5

\* ntz() gives the largest exponent whose power of two divides the number.
LEMMA NtzIs ==
  ASSUME NEW i \in Nat
  PROVE  /\ Ntz(i) \in 0..i /\ i % TwoTo(Ntz(i)) = 0
         /\ \A j \in 0..i : i % TwoTo(j) = 0 => j <= Ntz(i)
<1> DEFINE S == {j \in 0..i : i % TwoTo(j) = 0}
<1>1. S \subseteq 0..i /\ S # {}
  <2>1. 0 \in 0..i /\ i % 1 = 0
    OBVIOUS
  <2>2. 0 \in S
    BY <2>1, PowersAre
  <2> QED
    BY <2>2
<1>2. Ntz(i) = Max(S)
  BY DEF Ntz
<1> HIDE DEF S
<1>3. Max(S) \in S /\ \A y \in S : y <= Max(S)
  BY <1>1, MaxIn
<1> QED
  BY <1>2, <1>3 DEF S

(* Among successive numbers the highest power of two divides one of them   *)
(* alone.                                                                  *)
LEMMA NextMultiple ==
  ASSUME NEW P \in Nat \ {0}, NEW a \in Nat, NEW b \in Nat, a % P = 0, b % P = 0, a < b,
         a % (2 * P) # 0
  PROVE  a + P <= b /\ (a + P) % (2 * P) = 0
<1>10. a = P * (a \div P) /\ a \div P \in Nat
  OBVIOUS
<1>11. b = P * (b \div P) /\ b \div P \in Nat
  OBVIOUS
<1>1. PICK c \in Nat : a = P * c
  BY <1>10
<1>2. PICK d \in Nat : b = P * d
  BY <1>11
<1>3. c < d
  <2>1. SUFFICES ASSUME d <= c PROVE FALSE
    BY <1>1, <1>2
  <2>2. P * d <= P * c
    BY <2>1
  <2> QED
    BY <1>1, <1>2, <2>2
<1>4. P * (c + 1) <= P * d /\ P * (c + 1) = P * c + P
  BY <1>3
<1>5. PICK h \in Nat : c = 2 * h \/ c = 2 * h + 1
  <2>1. c = 2 * (c \div 2) + (c % 2) /\ c % 2 \in {0, 1} /\ c \div 2 \in Nat
    OBVIOUS
  <2> QED
    BY <2>1
<1>6. ASSUME NEW Q \in Nat \ {0}, NEW m \in Nat PROVE (Q * m) % Q = 0
  OBVIOUS
<1>7. c # 2 * h
  <2>1. SUFFICES ASSUME c = 2 * h PROVE FALSE
    OBVIOUS
  <2>2. a = (2 * P) * h
    BY <1>1, <2>1
  <2>3. 2 * P \in Nat \ {0}
    OBVIOUS
  <2> QED
    BY <1>6, <2>2, <2>3
<1>8. a + P = (2 * P) * (h + 1)
  <2>1. P * (2 * h + 1) + P = (2 * P) * (h + 1)
    OBVIOUS
  <2> QED
    BY <1>1, <1>5, <1>7, <2>1
<1>9. h + 1 \in Nat /\ 2 * P \in Nat \ {0}
  OBVIOUS
<1> QED
  BY <1>1, <1>2, <1>4, <1>6, <1>8, <1>9

LEMMA LAtBlock ==
  ASSUME NEW k, NEW i \in Nat
  PROVE  IsBlock(LAt(k, i))
<1> DEFINE n == Ntz(i)
           x == Gf128MulU(LDollar(k))
           y == DoubleSeq(n, x)
<1>2. n \in Nat
  BY NtzIs
<1>3. LAt(k, i) = y[n]
  BY DEF LAt, DoubleSeq
<1> HIDE DEF n, x
<1>4. y[0] = x /\ \A j \in 1..n : y[j] = Gf128MulU(y[j - 1])
  BY <1>2, DoubleSteps
<1> HIDE DEF y
<1>5. CASE n = 0
  BY <1>3, <1>4, <1>5, LinearBlock DEF Gf128MulU, x
<1>6. CASE n # 0
  <2>1. n \in 1..n
    BY <1>2, <1>6
  <2> QED
    BY <1>3, <1>4, <2>1, LinearBlock DEF Gf128MulU
<1> QED
  BY <1>5, <1>6

LEMMA OffsetsBlocks ==
  ASSUME NEW k, NEW first, IsBlock(first), NEW n \in Nat
  PROVE  \A i \in 0..n : IsBlock(Offsets(k, first, n)[i])
<1> DEFINE y == OffsetSeq(n, first, k)
<1>1. Offsets(k, first, n) = y
  BY DEF Offsets, OffsetSeq
<1>2. y[0] = first /\ \A i \in 1..n : y[i] = Xor(y[i - 1], LAt(k, i))
  BY OffsetSteps
<1> HIDE DEF y
<1> DEFINE T == {i \in 0..n : IsBlock(y[i])}
<1>3. ASSUME NEW i \in 0..(n - 1), i \in T PROVE i + 1 \in T
  <2>1. i + 1 \in 1..n /\ i + 1 \in 0..n /\ (i + 1) - 1 = i /\ i + 1 \in Nat
    OBVIOUS
  <2>2. IsBlock(Xor(y[i], LAt(k, i + 1)))
    BY <1>3, <2>1, BlockSum, LAtBlock
  <2>3. y[i + 1] = Xor(y[i], LAt(k, i + 1))
    BY <1>2, <2>1
  <2> QED
    BY <2>1, <2>2, <2>3
<1>4. 0 \in T
  BY <1>2
<1> HIDE DEF T
<1>5. 0..n \subseteq T
  BY <1>3, <1>4, UpTo
<1> QED
  BY <1>1, <1>5 DEF T

LEMMA Offset0Block ==
  ASSUME NEW k, NEW nonce, Clean(nonce), Len(nonce) \in 0..(B - 1)
  PROVE  IsBlock(OcbOffset0(k, nonce))
<1> DEFINE l == Len(nonce)
           nb == [i \in 1..B |-> IF i > B - l THEN nonce[i - B + l]
                                 ELSE IF i = B - l THEN Num(1) ELSE Zero]
           bottom == Value(nb[B]) % OcbBottom
           x == [nb EXCEPT ![B] = Num(Value(nb[B]) - bottom)]
           ktop == E(k, x)
<1>1. OcbOffset0(k, nonce) = IF bottom = 0 THEN ktop ELSE Linear(<< "stretch", bottom >>, ktop)
  BY DEF OcbOffset0
<1>2. l \in 0..(B - 1) /\ B \in Nat /\ B \in 1..B
  BY BlockLen
<1>3. \A i \in 1..l : \A a \in nonce[i] : a[1] # "D"
  BY DEF Clean
<1> HIDE DEF l
<1>4. ASSUME NEW i \in 1..B, NEW a \in nb[i] PROVE a[1] # "D"
  <2>1. CASE i > B - l
    <3>1. i - B + l \in 1..l /\ nb[i] = nonce[i - B + l]
      BY <1>2, <2>1
    <3> QED
      BY <1>3, <1>4, <3>1
  <2>2. CASE ~ (i > B - l)
    <3>1. nb[i] = Num(1) \/ nb[i] = Zero
      BY <2>2
    <3> QED
      BY <1>4, <3>1, CleanNum DEF Zero
  <2> QED
    BY <2>1, <2>2
<1>5. DOMAIN nb = 1..B
  OBVIOUS
<1> HIDE DEF nb, bottom
<1>6. x = [i \in 1..B |-> x[i]] /\ \A i \in 1..B : x[i] = nb[i] \/ x[i] = Num(Value(nb[B]) - bottom)
  BY <1>2, <1>5
<1> HIDE DEF x
<1>7. Clean(x) /\ Len(x) = B
  BY <1>2, <1>4, <1>6, CleanNum, CleanMade
<1>8. IsBlock(ktop)
  BY <1>7, BlockEnciphered DEF IsBlock
<1> HIDE DEF ktop
<1> QED
  BY <1>1, <1>8, LinearBlock

LEMMA OcbBlockBack ==
  ASSUME NEW k, NEW x, IsBlock(x), NEW o, IsBlock(o)
  PROVE  LET y == Xor(E(k, Xor(x, o)), o)
         IN  IsBlock(y) /\ Xor(D(k, Xor(y, o)), o) = x
<1> DEFINE a == Xor(x, o)
           b == E(k, a)
<1>1. IsBlock(a) /\ Xor(a, o) = x
  BY BlockSum
<1> HIDE DEF a
<1>2. IsBlock(b) /\ D(k, b) = a
  BY <1>1, BlockEnciphered, Deciphered, BlockLen DEF IsBlock
<1> HIDE DEF b
<1>3. IsBlock(Xor(b, o)) /\ Xor(Xor(b, o), o) = b
  BY <1>2, BlockSum
<1> QED
  BY <1>1, <1>2, <1>3 DEF a, b

LEMMA EmptyIs ==
  ASSUME NEW s, IsString(s)
  PROVE  s = << >> <=> Len(s) = 0
BY Empty, SameString

LEMMA OcbBack ==
  ASSUME NEW k, NEW nonce, Clean(nonce), NEW aad, NEW pt, Clean(pt),
         EncryptOcb(k, nonce, aad, pt).ok
  PROVE  LET s == EncryptOcb(k, nonce, aad, pt)
         IN  DecryptOcb(k, nonce, aad, s.ct, s.tag) = Ok(pt)
<1> DEFINE len == Len(pt)
           q == len \div B
           w == WholeBlocks(pt)
           r == Tail16(pt)
           o == Offsets(k, OcbOffset0(k, nonce), q)
           m == E(k, Xor(o[q], LStar(k)))
           t == [i \in 1..q |-> Xor(E(k, Xor(w[i], o[i])), o[i])]
           g == IF r = << >> THEN << >> ELSE Xor(r, m)
           f == FlattenSeq(t)
           s == f \o g
           c == [out |-> s, last |-> o[q]]
           d == [out |-> pt, last |-> o[q]]
           tag == OcbTag(k, o[q], aad, pt)
<1>1. Len(nonce) \in 1..(B - 1) /\ Len(nonce) \in 0..(B - 1)
  BY DEF EncryptOcb, Err
<1>2. /\ Len(w) = q /\ q \in Nat /\ len \in Nat
      /\ \A i \in 1..q : IsBlock(w[i])
      /\ Clean(r) /\ Len(r) \in 0..(B - 1)
  BY CleanWhole, StringProperties DEF Clean
<1>3. /\ Len(r) = len - Off(q) /\ w = [i \in 1..q |-> Chunks(pt)[i]]
      /\ Parts(Off(q)) = q /\ \A i \in 1..q : PartLen(i, Off(q)) = B
  BY <1>2, WholeAre, Quotient DEF Clean
<1>4. \A i \in 0..q : IsBlock(o[i])
  BY <1>1, <1>2, Offset0Block, OffsetsBlocks
<1>5. OcbCrypt(E, k, nonce, pt) = c
  BY <1>2 DEF OcbCrypt, OcbBlocks
<1>6. EncryptOcb(k, nonce, aad, pt) = Sealed(s, tag)
  BY <1>1, <1>5 DEF EncryptOcb, OcbSealed
<1> HIDE DEF w, r, o
<1>7. IsBlock(m)
  <2>1. q \in 0..q
    BY <1>2
  <2>2. IsBlock(LStar(k))
    BY ZeroIsBlock, BlockEnciphered DEF LStar
  <2>3. IsBlock(Xor(o[q], LStar(k)))
    BY <1>4, <2>1, <2>2, BlockSum
  <2> QED
    BY <2>3, BlockEnciphered
<1> HIDE DEF m
<1>8. \A i \in 1..q : IsBlock(t[i]) /\ Xor(D(k, Xor(t[i], o[i])), o[i]) = w[i]
  <2>1. \A i \in 1..q : IsBlock(o[i])
    BY <1>2, <1>4
  <2> QED
    BY <1>2, <2>1, OcbBlockBack
<1>9. /\ IsString(g) /\ Len(g) = Len(r) /\ (g = << >> <=> r = << >>)
      /\ r # << >> => Xor(g, m) = r
  <2>1. CASE r = << >>
    BY <2>1, Empty
  <2>2. CASE r # << >>
    <3>1. g = Xor(r, m) /\ Len(r) <= Len(m) /\ Clean(m)
      BY <1>2, <1>7, <2>2, BlockLen DEF IsBlock
    <3>2. IsString(g) /\ Len(g) = Len(r) /\ Xor(g, m) = r
      BY <1>2, <3>1, SumIs, SumBack DEF Clean
    <3> HIDE DEF g
    <3>3. g = << >> <=> r = << >>
      BY <1>2, <3>2, EmptyIs DEF Clean
    <3> QED
      BY <3>2, <3>3
  <2> QED
    BY <2>1, <2>2
<1>10. t = [i \in 1..q |-> t[i]]
  OBVIOUS
<1> HIDE DEF t, g
<1>11. Shaped(t, Off(q))
  BY <1>3, <1>8, <1>10 DEF Shaped, IsBlock, Clean
<1>12. IsString(s) /\ Len(s) = len /\ WholeBlocks(s) = t /\ Tail16(s) = g /\ Len(t) = q
  BY <1>2, <1>3, <1>9, <1>10, <1>11, WholeOfJoined, MadeString
<1> HIDE DEF s, len
<1> DEFINE u == [i \in 1..q |-> Xor(D(k, Xor(t[i], o[i])), o[i])]
           h == IF g = << >> THEN << >> ELSE Xor(g, m)
<1>13. OcbCrypt(D, k, nonce, s) = [out |-> FlattenSeq(u) \o h, last |-> o[q]]
  BY <1>12 DEF OcbCrypt, OcbBlocks, o, m
<1>14. u = w
  BY <1>3, <1>8
<1>15. h = r
  BY <1>9
<1> HIDE DEF u, h
<1>16. FlattenSeq(u) \o h = pt
  BY <1>14, <1>15, WholeJoined DEF w, r, Clean
<1>17. OcbCrypt(D, k, nonce, s) = d
  BY <1>13, <1>16
<1>18. ~ (Len(nonce) >= B)
  BY <1>1, BlockLen
<1>19. DecryptOcb(k, nonce, aad, s, tag) = Ok(pt)
  BY <1>17, <1>18 DEF DecryptOcb, OcbOpened, OpenedIf
<1> HIDE DEF tag
<1> QED
  BY <1>6, <1>19 DEF Sealed

-----------------------------------------------------------------------------
(* A number of eight bits is the value of its bits, and what was padded is *)
(* unpadded.                                                               *)

NumBit(v, i) == IF (v \div 2^i) % 2 = 1 THEN 2^i ELSE 0

LEMMA ValueIs ==
  ASSUME NEW v
  PROVE  Value(Num(v)) = NumBit(v, 0) + NumBit(v, 1) + NumBit(v, 2) + NumBit(v, 3)
                           + NumBit(v, 4) + NumBit(v, 5) + NumBit(v, 6) + NumBit(v, 7)
<1> DEFINE bit(i) == IF << "bit", i >> \in Num(v) THEN 2^i ELSE 0
<1>1. ASSUME NEW i \in 0..7 PROVE bit(i) = NumBit(v, i)
  BY BitIn DEF NumBit
<1>2. /\ bit(0) = NumBit(v, 0) /\ bit(1) = NumBit(v, 1) /\ bit(2) = NumBit(v, 2)
      /\ bit(3) = NumBit(v, 3) /\ bit(4) = NumBit(v, 4) /\ bit(5) = NumBit(v, 5)
      /\ bit(6) = NumBit(v, 6) /\ bit(7) = NumBit(v, 7)
  <2> HIDE DEF bit
  <2> QED
    BY <1>1
<1>3. Value(Num(v)) = bit(0) + bit(1) + bit(2) + bit(3) + bit(4) + bit(5) + bit(6) + bit(7)
  BY Zenon DEF Value
<1> HIDE DEF bit
<1> QED
  BY <1>2, <1>3, Zenon

LEMMA BitsAre ==
  ASSUME NEW v \in 0..255
  PROVE  /\ NumBit(v, 0) = v - 2 * (v \div 2)
         /\ NumBit(v, 1) = 2 * (v \div 2) - 4 * (v \div 4)
         /\ NumBit(v, 2) = 4 * (v \div 4) - 8 * (v \div 8)
         /\ NumBit(v, 3) = 8 * (v \div 8) - 16 * (v \div 16)
         /\ NumBit(v, 4) = 16 * (v \div 16) - 32 * (v \div 32)
         /\ NumBit(v, 5) = 32 * (v \div 32) - 64 * (v \div 64)
         /\ NumBit(v, 6) = 64 * (v \div 64) - 128 * (v \div 128)
         /\ NumBit(v, 7) = 128 * (v \div 128)
<1>1. /\ 2^0 = 1 /\ 2^1 = 2 /\ 2^2 = 4 /\ 2^3 = 8 /\ 2^4 = 16 /\ 2^5 = 32 /\ 2^6 = 64
      /\ 2^7 = 128
  OBVIOUS
<1>2. /\ NumBit(v, 0) = (IF (v \div 1) % 2 = 1 THEN 1 ELSE 0)
      /\ NumBit(v, 1) = (IF (v \div 2) % 2 = 1 THEN 2 ELSE 0)
      /\ NumBit(v, 2) = (IF (v \div 4) % 2 = 1 THEN 4 ELSE 0)
      /\ NumBit(v, 3) = (IF (v \div 8) % 2 = 1 THEN 8 ELSE 0)
      /\ NumBit(v, 4) = (IF (v \div 16) % 2 = 1 THEN 16 ELSE 0)
      /\ NumBit(v, 5) = (IF (v \div 32) % 2 = 1 THEN 32 ELSE 0)
      /\ NumBit(v, 6) = (IF (v \div 64) % 2 = 1 THEN 64 ELSE 0)
      /\ NumBit(v, 7) = (IF (v \div 128) % 2 = 1 THEN 128 ELSE 0)
  BY <1>1, ZenonT(60) DEF NumBit
<1>3. NumBit(v, 0) = v - 2 * (v \div 2)
  BY ONLY v \in 0..255, <1>2
<1>4. NumBit(v, 1) = 2 * (v \div 2) - 4 * (v \div 4)
  BY ONLY v \in 0..255, <1>2
<1>5. NumBit(v, 2) = 4 * (v \div 4) - 8 * (v \div 8)
  BY ONLY v \in 0..255, <1>2
<1>6. NumBit(v, 3) = 8 * (v \div 8) - 16 * (v \div 16)
  BY ONLY v \in 0..255, <1>2
<1>7. NumBit(v, 4) = 16 * (v \div 16) - 32 * (v \div 32)
  BY ONLY v \in 0..255, <1>2
<1>8. NumBit(v, 5) = 32 * (v \div 32) - 64 * (v \div 64)
  BY ONLY v \in 0..255, <1>2
<1>9. NumBit(v, 6) = 64 * (v \div 64) - 128 * (v \div 128)
  BY ONLY v \in 0..255, <1>2
<1>10. NumBit(v, 7) = 128 * (v \div 128)
  BY ONLY v \in 0..255, <1>2
<1> QED
  BY <1>3, <1>4, <1>5, <1>6, <1>7, <1>8, <1>9, <1>10

LEMMA ValueOfNum ==
  ASSUME NEW v \in 0..255
  PROVE  Value(Num(v)) = v /\ IsNum(Num(v))
<1>1. Value(Num(v)) = v
  BY ValueIs, BitsAre
<1>2. IsNum(Num(v))
  BY DEF IsNum, Num
<1> QED
  BY <1>1, <1>2

LEMMA FilledUp ==
  ASSUME NEW n \in Nat
  PROVE  (n + PadLen(n)) % B = 0
<1>1. B \in Nat \ {0}
  BY BlockAssumption
<1> DEFINE q == n \div B
           r == n % B
<1>2. n = B * q + r /\ q \in Nat /\ r \in 0..(B - 1)
  BY <1>1
<1>3. PadLen(n) = B - r
  BY DEF PadLen
<1> HIDE DEF q, r
<1>4. n + PadLen(n) = B * q + B
  BY <1>1, <1>2, <1>3
<1>5. B * q + B = B * (q + 1)
  BY <1>1, <1>2
<1> QED
  BY <1>1, <1>2, <1>4, <1>5

LEMMA Padded ==
  ASSUME NEW data, Clean(data)
  PROVE  LET s == Pkcs7Pad(data, B)
         IN  Clean(s) /\ Len(s) % B = 0 /\ Pkcs7Unpad(s) = Ok(data)
<1> DEFINE len == Len(data)
           n == PadLen(len)
           r == Run(n)
           s == data \o r
<1>1. IsString(data) /\ len \in Nat
  BY StringProperties DEF Clean
<1>2. n \in 1..B /\ n \in Nat /\ n \in 0..255 /\ (len + n) % B = 0
  <2>1. n \in 1..B
    BY <1>1, PadLenIs
  <2>2. (len + n) % B = 0
    BY <1>1, FilledUp
  <2> HIDE DEF n
  <2>3. n \in Nat /\ n \in 0..255
    BY <2>1, BlockLen
  <2> QED
    BY <2>1, <2>2, <2>3
<1>3. Pkcs7Pad(data, B) = s
  BY <1>1, PadIs
<1> HIDE DEF n
<1>4. IsString(r) /\ Len(r) = n /\ \A i \in 1..n : r[i] = Num(n)
  BY <1>2, RunIs
<1> HIDE DEF r
<1>5. Clean(r)
  BY <1>4, CleanNum DEF Clean
<1>6. Clean(s) /\ Len(s) = len + n
  BY <1>4, <1>5, CleanJoin
<1>7. \A i \in 1..(len + n) : s[i] = IF i <= len THEN data[i] ELSE r[i - len]
  BY <1>1, <1>4, Joined
<1> HIDE DEF s
<1>8. ASSUME NEW j \in 0..(n - 1) PROVE s[(len + n) - j] = Num(n)
  <2>1. (len + n) - j \in 1..(len + n) /\ ~ ((len + n) - j <= len) /\ ((len + n) - j) - len \in 1..n
    BY <1>1, <1>2
  <2> QED
    BY <1>4, <1>7, <2>1
<1>9. Last(s) = Num(n) /\ Len(s) # 0
  <2>1. 0 \in 0..(n - 1) /\ len + n - 0 = len + n /\ len + n # 0
    BY <1>1, <1>2
  <2> QED
    BY <1>6, <1>8, <2>1 DEF Last
<1>10. Value(Last(s)) = n /\ IsNum(Last(s))
  BY <1>2, <1>9, ValueOfNum
<1>11. SubSeq(s, 1, len) = data
  <2>1. /\ IsString(SubSeq(s, 1, len)) /\ Len(SubSeq(s, 1, len)) = len - 1 + 1
        /\ \A i \in 1..(len - 1 + 1) : SubSeq(s, 1, len)[i] = s[1 + i - 1]
    BY <1>1, <1>2, <1>6, PartIs DEF Clean
  <2>2. ASSUME NEW i \in 1..len PROVE s[i] = data[i]
    BY <1>1, <1>2, <1>7
  <2>3. len - 1 + 1 = len /\ \A i \in 1..len : 1 + i - 1 = i
    BY <1>1
  <2>4. Len(SubSeq(s, 1, len)) = len /\ \A i \in 1..len : SubSeq(s, 1, len)[i] = data[i]
    BY <2>1, <2>2, <2>3
  <2> QED
    BY <1>1, <2>1, <2>4, SameString
<1>12. n \in 1..B /\ n <= Len(s) /\ Len(s) - n = len
  BY <1>1, <1>2, <1>6
<1>13. \A j \in 0..(n - 1) : s[Len(s) - j] = Num(n)
  BY <1>6, <1>8
<1>14. ~ (Len(s) = 0 \/ ~ IsNum(Last(s)))
  BY <1>9, <1>10
<1>15. Pkcs7Unpad(s) = Ok(SubSeq(s, 1, Len(s) - n))
  BY <1>10, <1>12, <1>13, <1>14 DEF Pkcs7Unpad
<1> QED
  BY <1>2, <1>3, <1>6, <1>11, <1>12, <1>15

LEMMA PadBack ==
  ASSUME NEW data, Clean(data), NEW type, Pad(data, type).ok
  PROVE  Unpad(Pad(data, type).val, type) = Ok(data)
<1>1. CASE type = "none"
  <2>1. Pad(data, type) = NoPadding(data)
    BY <1>1 DEF Pad
  <2>2. Len(data) % B = 0
    BY <2>1 DEF NoPadding, Err
  <2>3. Pad(data, type) = Ok(data)
    BY <2>1, <2>2 DEF NoPadding
  <2>4. Unpad(data, type) = Ok(data)
    BY <1>1, <2>2 DEF Unpad, NoPadding
  <2> QED
    BY <2>3, <2>4 DEF Ok
<1>2. CASE type # "none"
  BY <1>2, Padded DEF Pad, Unpad, Ok
<1> QED
  BY <1>1, <1>2

(* The padded variants undo padding and mode.                              *)
LEMMA EcbPaddedBack ==
  ASSUME NEW k, NEW data, Clean(data)
  PROVE  DecryptPadded(DecryptEcb(k, EncryptEcb(k, Pkcs7Pad(data, B)).val), "pkcs7") = Ok(data)
           /\ EncryptEcb(k, Pkcs7Pad(data, B)).ok
<1> DEFINE p == Pkcs7Pad(data, B)
<1>1. Clean(p) /\ Len(p) % B = 0 /\ Pkcs7Unpad(p) = Ok(data)
  BY Padded
<1> HIDE DEF p
<1>2. EncryptEcb(k, p).ok
  BY <1>1 DEF EncryptEcb, Aligned, Ok
<1>3. DecryptEcb(k, EncryptEcb(k, p).val) = Ok(p)
  BY <1>1, <1>2, EcbBack
<1>4. DecryptPadded(Ok(p), "pkcs7") = Ok(data)
  BY <1>1 DEF DecryptPadded, Unpad, Ok
<1> QED
  BY <1>2, <1>3, <1>4 DEF p

LEMMA CbcPaddedBack ==
  ASSUME NEW k, NEW iv, IsBlock(iv), NEW data, Clean(data)
  PROVE  DecryptPadded(DecryptCbc(k, iv, EncryptCbc(k, iv, Pkcs7Pad(data, B)).val), "pkcs7")
           = Ok(data)
           /\ EncryptCbc(k, iv, Pkcs7Pad(data, B)).ok
<1> DEFINE p == Pkcs7Pad(data, B)
<1>1. Clean(p) /\ Len(p) % B = 0 /\ Pkcs7Unpad(p) = Ok(data)
  BY Padded
<1> HIDE DEF p
<1>2. EncryptCbc(k, iv, p).ok
  BY <1>1 DEF EncryptCbc, Aligned, Ok
<1>3. DecryptCbc(k, iv, EncryptCbc(k, iv, p).val) = Ok(p)
  BY <1>1, <1>2, CbcBack
<1>4. DecryptPadded(Ok(p), "pkcs7") = Ok(data)
  BY <1>1 DEF DecryptPadded, Unpad, Ok
<1> QED
  BY <1>2, <1>3, <1>4 DEF p

-----------------------------------------------------------------------------
(* The rounds of the block cipher: a round of what a round made, read      *)
(* backwards and with the same key, gives what there was, backwards.       *)

IsQuad(x) == x = << x[1], x[2], x[3], x[4] >>

LEMMA QuadBack ==
  ASSUME NEW a, NEW b, NEW c, NEW d
  PROVE  Reverse(<< a, b, c, d >>) = << d, c, b, a >>
<1> DEFINE x == << a, b, c, d >>
           y == << d, c, b, a >>
           r == Reverse(x)
<1>1. /\ x \in Seq({a, b, c, d}) /\ Len(x) = 4 /\ x[1] = a /\ x[2] = b /\ x[3] = c /\ x[4] = d
      /\ y \in Seq({a, b, c, d}) /\ Len(y) = 4 /\ y[1] = d /\ y[2] = c /\ y[3] = b /\ y[4] = a
  OBVIOUS
<1>2. r = [i \in 1..4 |-> x[(4 - i) + 1]]
  BY <1>1 DEF Reverse
<1> HIDE DEF x, y, r
<1>3. r[1] = x[4] /\ r[2] = x[3] /\ r[3] = x[2] /\ r[4] = x[1]
  BY <1>2
<1>4. r = [i \in 1..4 |-> r[i]]
  BY <1>2
<1>5. IsString(r) /\ Len(r) = 4
  BY <1>4, MadeString
<1>6. \A i \in 1..4 : r[i] = y[i]
  <2>1. \A i \in 1..4 : i = 1 \/ i = 2 \/ i = 3 \/ i = 4
    OBVIOUS
  <2> QED
    BY <1>1, <1>3, <2>1
<1>7. IsString(y)
  BY <1>1, StringIn
<1>8. r = y
  BY <1>1, <1>5, <1>6, <1>7, SameString
<1> QED
  BY <1>8 DEF r, x, y

LEMMA QuadIs ==
  ASSUME NEW x, IsString(x), Len(x) = 4
  PROVE  IsQuad(x)
<1> DEFINE y == << x[1], x[2], x[3], x[4] >>
<1>1. y \in Seq({x[1], x[2], x[3], x[4]}) /\ Len(y) = 4
      /\ y[1] = x[1] /\ y[2] = x[2] /\ y[3] = x[3] /\ y[4] = x[4]
  OBVIOUS
<1> HIDE DEF y
<1>2. IsString(y)
  BY <1>1, StringIn
<1>3. \A i \in 1..4 : x[i] = y[i]
  <2>1. \A i \in 1..4 : i = 1 \/ i = 2 \/ i = 3 \/ i = 4
    OBVIOUS
  <2> QED
    BY <1>1, <2>1
<1>4. x = y
  BY <1>1, <1>2, <1>3, SameString
<1> QED
  BY <1>4 DEF y, IsQuad

LEMMA MaskSame ==
  ASSUME NEW a, NEW b, NEW c, NEW k
  PROVE  Xor4(a, b, c, k) = Xor4(c, b, a, k)
BY DEF Xor4, SymDiff

LEMMA RoundBack ==
  ASSUME NEW x, IsQuad(x), NEW k
  PROVE  /\ IsQuad(Round(x, k)) /\ IsQuad(Reverse(x))
         /\ Round(Reverse(Round(x, k)), k) = Reverse(x)
<1> DEFINE a == x[1]
           b == x[2]
           c == x[3]
           d == x[4]
           m == TEnc(Xor4(b, c, d, k))
           e == SymDiff(a, m)
<1>1. Round(x, k) = << b, c, d, e >>
  BY DEF Round
<1>2. x = << a, b, c, d >>
  BY DEF IsQuad
<1>3. TEnc(Xor4(d, c, b, k)) = m
  BY MaskSame
<1>4. SymDiff(e, m) = a
  BY SymDiffBack
<1> HIDE DEF a, b, c, d, e, m
<1>5. Reverse(Round(x, k)) = << e, d, c, b >>
  BY <1>1, QuadBack
<1>6. Reverse(x) = << d, c, b, a >>
  BY <1>2, QuadBack
<1>7. Round(<< e, d, c, b >>, k) = << d, c, b, SymDiff(e, TEnc(Xor4(d, c, b, k))) >>
  BY DEF Round
<1>8. IsQuad(<< b, c, d, e >>) /\ IsQuad(<< d, c, b, a >>)
  BY DEF IsQuad
<1>9. Round(<< e, d, c, b >>, k) = << d, c, b, a >>
  BY <1>3, <1>4, <1>7
<1> QED
  BY <1>1, <1>5, <1>6, <1>8, <1>9

LEMMA ReverseIs ==
  ASSUME NEW s, IsString(s)
  PROVE  /\ IsString(Reverse(s)) /\ Len(Reverse(s)) = Len(s)
         /\ \A i \in 1..Len(s) : Reverse(s)[i] = s[(Len(s) - i) + 1]
<1> DEFINE r == Reverse(s)
           n == Len(s)
<1>1. n \in Nat
  BY StringProperties
<1>2. r = [i \in 1..n |-> s[(n - i) + 1]]
  BY DEF Reverse
<1> HIDE DEF r
<1>3. r = [i \in 1..n |-> r[i]] /\ \A i \in 1..n : r[i] = s[(n - i) + 1]
  BY <1>2
<1>4. IsString(r) /\ Len(r) = n
  BY <1>1, <1>3, MadeString
<1> QED
  BY <1>3, <1>4 DEF r

LEMMA AllRoundsAre ==
  ASSUME NEW x, NEW rk
  PROVE  AllRounds(x, rk) = RoundSeq(Len(rk), x, rk)[Len(rk)]
BY DEF AllRounds, RoundSeq

LEMMA BlockBack ==
  ASSUME NEW x, IsQuad(x), NEW rk, IsString(rk)
  PROVE  DecryptRounds(EncryptRounds(x, rk), rk) = x
<1> DEFINE n == Len(rk)
           kr == Reverse(rk)
           y == RoundSeq(n, x, rk)
           z == RoundSeq(n, Reverse(y[n]), kr)
<1>1. n \in Nat /\ Len(kr) = n /\ \A i \in 1..n : kr[i] = rk[(n - i) + 1]
  BY StringProperties, ReverseIs
<1> HIDE DEF n, kr
<1>2. y[0] = x /\ \A i \in 1..n : y[i] = Round(y[i - 1], rk[i])
  BY <1>1, RoundSteps
<1> HIDE DEF y
<1>3. z[0] = Reverse(y[n]) /\ \A i \in 1..n : z[i] = Round(z[i - 1], kr[i])
  BY <1>1, RoundSteps
<1>4. EncryptRounds(x, rk) = Reverse(y[n])
  BY AllRoundsAre DEF EncryptRounds, n, y
<1>5. DecryptRounds(Reverse(y[n]), rk) = Reverse(z[n])
  BY <1>1, AllRoundsAre DEF DecryptRounds, kr
<1> HIDE DEF z
<1>6. \A i \in 0..n : IsQuad(y[i])
  <2> DEFINE T == {i \in 0..n : IsQuad(y[i])}
  <2>1. 0 \in T
    BY <1>1, <1>2
  <2>2. ASSUME NEW i \in 0..(n - 1), i \in T PROVE i + 1 \in T
    <3>1. i + 1 \in 1..n /\ i + 1 \in 0..n /\ (i + 1) - 1 = i
      BY <1>1
    <3>2. y[i + 1] = Round(y[i], rk[i + 1])
      BY <1>2, <3>1
    <3>3. IsQuad(y[i + 1])
      BY <2>2, <3>2, RoundBack
    <3> QED
      BY <3>1, <3>3
  <2> HIDE DEF T
  <2>3. 0..n \subseteq T
    BY <1>1, <2>1, <2>2, UpTo
  <2> QED
    BY <2>3 DEF T
<1>7. \A j \in 0..n : z[j] = Reverse(y[n - j])
  <2> DEFINE T == {j \in 0..n : z[j] = Reverse(y[n - j])}
  <2>1. 0 \in T
    <3>1. 0 \in 0..n /\ n - 0 = n
      BY <1>1
    <3> QED
      BY <1>3, <3>1
  <2>2. ASSUME NEW j \in 0..(n - 1), j \in T PROVE j + 1 \in T
    <3> DEFINE i == n - j
    <3>1. /\ j + 1 \in 1..n /\ j + 1 \in 0..n /\ (j + 1) - 1 = j
          /\ i \in 1..n /\ i - 1 \in 0..n /\ (n - (j + 1)) + 1 = i /\ n - (j + 1) = i - 1
      BY <1>1
    <3>2. z[j + 1] = Round(Reverse(y[i]), rk[i])
      BY <1>1, <1>3, <2>2, <3>1
    <3>3. y[i] = Round(y[i - 1], rk[i]) /\ IsQuad(y[i - 1])
      BY <1>2, <1>6, <3>1
    <3>4. z[j + 1] = Reverse(y[i - 1])
      BY <3>2, <3>3, RoundBack
    <3> QED
      BY <3>1, <3>4
  <2> HIDE DEF T
  <2>3. 0..n \subseteq T
    BY <1>1, <2>1, <2>2, UpTo
  <2> QED
    BY <2>3 DEF T
<1>8. z[n] = Reverse(x)
  <2>1. n \in 0..n /\ n - n = 0
    BY <1>1
  <2> QED
    BY <1>2, <1>7, <2>1
<1>9. Reverse(Reverse(x)) = x
  BY QuadBack DEF IsQuad
<1> QED
  BY <1>4, <1>5, <1>8, <1>9

LEMMA KeysAreString ==
  ASSUME NEW mk
  PROVE  IsString(ExpandKey(mk))
<1> DEFINE k0 == [i \in 1..4 |-> SymDiff(mk[i], {<< "fk", i >>})]
           st == Iterated(CipherRounds, k0, LAMBDA i, k :
                   LET at(d) == k[((i - 1 + d) % 4) + 1]
                   IN  [k EXCEPT ![((i - 1) % 4) + 1] =
                          SymDiff(@, TKey(Xor4(at(1), at(2), at(3), {<< "ck", i >>})))])
           f == [i \in 1..CipherRounds |-> st[i][((i - 1) % 4) + 1]]
<1>1. ExpandKey(mk) = f
  BY DEF ExpandKey
<1> HIDE DEF st
<1>2. f = [i \in 1..CipherRounds |-> f[i]]
  OBVIOUS
<1> HIDE DEF f
<1>3. IsString(f)
  BY <1>2, CipherAssumption, MadeString
<1> QED
  BY <1>1, <1>3

-----------------------------------------------------------------------------
(* Key wrap: a step is undone by the unwrapping step of the same number,   *)
(* and the steps are undone last first.                                    *)

CleanByte(c) == \A a \in c : a[1] # "D"
WrapState(s, n) == /\ s = << s[1], s[2] >> /\ CleanByte(s[1])
                   /\ Clean(s[2]) /\ Len(s[2]) = n

LEMMA PairIs ==
  ASSUME NEW a, NEW b
  PROVE  /\ IsString(<< a, b >>) /\ Len(<< a, b >>) = 2
         /\ << a, b >>[1] = a /\ << a, b >>[2] = b
<1>1. << a, b >> \in Seq({a, b})
  OBVIOUS
<1> QED
  BY <1>1, StringIn

LEMMA CleanPair ==
  ASSUME NEW a, NEW b, CleanByte(a), CleanByte(b)
  PROVE  Clean(<< a, b >>) /\ Len(<< a, b >>) = 2
<1> DEFINE p == << a, b >>
<1>1. IsString(p) /\ Len(p) = 2 /\ p[1] = a /\ p[2] = b
  BY PairIs
<1> HIDE DEF p
<1>2. \A i \in 1..2 : i = 1 \/ i = 2
  OBVIOUS
<1> QED
  BY <1>1, <1>2 DEF Clean, CleanByte, p

LEMMA TwoIsPair ==
  ASSUME NEW s, IsString(s), Len(s) = 2
  PROVE  s = << s[1], s[2] >>
<1> DEFINE p == << s[1], s[2] >>
<1>1. IsString(p) /\ Len(p) = 2 /\ p[1] = s[1] /\ p[2] = s[2]
  BY PairIs
<1> HIDE DEF p
<1>2. \A i \in 1..2 : i = 1 \/ i = 2
  OBVIOUS
<1>3. s = p
  BY <1>1, <1>2, SameString
<1> QED
  BY <1>3 DEF p

LEMMA ChangedIs ==
  ASSUME NEW s, IsString(s), NEW i \in 1..Len(s), NEW v
  PROVE  LET t == [s EXCEPT ![i] = v]
         IN  /\ IsString(t) /\ Len(t) = Len(s) /\ t[i] = v
             /\ \A j \in 1..Len(s) : j # i => t[j] = s[j]
<1> DEFINE n == Len(s)
           t == [s EXCEPT ![i] = v]
<1>1. n \in Nat /\ s = [j \in 1..n |-> s[j]]
  BY StringProperties, StringMade
<1> HIDE DEF n
<1>2. t = [j \in 1..n |-> IF j = i THEN v ELSE s[j]]
  BY <1>1
<1>3. t = [j \in 1..n |-> t[j]] /\ t[i] = v /\ \A j \in 1..n : j # i => t[j] = s[j]
  BY <1>2 DEF n
<1> HIDE DEF t
<1>4. IsString(t) /\ Len(t) = n
  BY <1>1, <1>3, MadeString
<1> QED
  BY <1>3, <1>4 DEF t, n

LEMMA CleanChanged ==
  ASSUME NEW s, Clean(s), NEW i \in 1..Len(s), NEW v, CleanByte(v)
  PROVE  Clean([s EXCEPT ![i] = v]) /\ Len([s EXCEPT ![i] = v]) = Len(s)
<1> DEFINE t == [s EXCEPT ![i] = v]
<1>1. /\ IsString(t) /\ Len(t) = Len(s) /\ t[i] = v
      /\ \A j \in 1..Len(s) : j # i => t[j] = s[j]
  BY ChangedIs DEF Clean
<1> HIDE DEF t
<1>2. \A j \in 1..Len(s) : \A a \in t[j] : a[1] # "D"
  BY <1>1 DEF Clean, CleanByte
<1> QED
  BY <1>1, <1>2 DEF Clean, t

LEMMA ChangedBack ==
  ASSUME NEW s, IsString(s), NEW i \in 1..Len(s), NEW v
  PROVE  [[s EXCEPT ![i] = v] EXCEPT ![i] = s[i]] = s
<1> DEFINE t == [s EXCEPT ![i] = v]
           u == [t EXCEPT ![i] = s[i]]
<1>1. /\ IsString(t) /\ Len(t) = Len(s) /\ t[i] = v
      /\ \A j \in 1..Len(s) : j # i => t[j] = s[j]
  BY ChangedIs
<1> HIDE DEF t
<1>2. /\ IsString(u) /\ Len(u) = Len(s) /\ u[i] = s[i]
      /\ \A j \in 1..Len(s) : j # i => u[j] = t[j]
  BY <1>1, ChangedIs
<1> HIDE DEF u
<1>3. \A j \in 1..Len(s) : u[j] = s[j]
  BY <1>1, <1>2
<1>4. u = s
  BY <1>2, <1>3, SameString
<1> QED
  BY <1>4 DEF u, t

LEMMA WrapStepBack ==
  ASSUME NEW k, NEW n, NEW s, WrapState(s, n), NEW i \in 1..n, NEW t
  PROVE  /\ WrapState(WrapStep(k, s, i, t), n)
         /\ UnwrapStep(k, WrapStep(k, s, i, t), i, t) = s
<1> DEFINE a == s[1]
           r == s[2]
           b == E(k, << a, r[i] >>)
           c == SymDiff(b[1], Num(t))
           u == [r EXCEPT ![i] = b[2]]
<1>1. CleanByte(a) /\ Clean(r) /\ Len(r) = n /\ s = << a, r >> /\ i \in 1..Len(r)
  BY DEF WrapState
<1>2. CleanByte(r[i])
  BY <1>1 DEF Clean, CleanByte
<1>3. WrapStep(k, s, i, t) = << c, u >>
  BY DEF WrapStep
<1> HIDE DEF a, r
<1>4. Clean(<< a, r[i] >>) /\ Len(<< a, r[i] >>) = 2
  BY <1>1, <1>2, CleanPair
<1>5. Clean(b) /\ Len(b) = 2 /\ D(k, b) = << a, r[i] >>
  <2> DEFINE p == << a, r[i] >>
  <2>1. Clean(p) /\ Len(p) = 2 /\ Len(p) >= 1
    BY <1>4
  <2> HIDE DEF p
  <2>2. Clean(E(k, p)) /\ Len(E(k, p)) = 2 /\ D(k, E(k, p)) = p
    BY <2>1, CleanEnciphered, Deciphered
  <2> QED
    BY <2>2 DEF p
<1> HIDE DEF b
<1>6. CleanByte(b[1]) /\ CleanByte(b[2])
  BY <1>5 DEF Clean, CleanByte
<1>7. CleanByte(c)
  BY <1>6, CleanNum DEF CleanByte, SymDiff
<1>8. Clean(u) /\ Len(u) = n /\ u[i] = b[2]
  <2>1. Clean(u) /\ Len(u) = n
    BY <1>1, <1>6, CleanChanged
  <2>2. u[i] = b[2]
    BY <1>1, ChangedIs DEF Clean
  <2> QED
    BY <2>1, <2>2
<1>9. SymDiff(c, Num(t)) = b[1]
  BY SymDiffBack
<1>10. [u EXCEPT ![i] = r[i]] = r
  BY <1>1, ChangedBack DEF Clean
<1> HIDE DEF c, u
<1>11. << b[1], b[2] >> = b
  BY <1>5, TwoIsPair DEF Clean
<1>12. WrapState(<< c, u >>, n)
  BY <1>7, <1>8 DEF WrapState
<1>13. UnwrapStep(k, << c, u >>, i, t) = << a, r >>
  <2> DEFINE q == << c, u >>
             d == D(k, << SymDiff(q[1], Num(t)), q[2][i] >>)
  <2>1. q[1] = c /\ q[2] = u
    OBVIOUS
  <2>2. d = D(k, b)
    BY <1>8, <1>9, <1>11, <2>1
  <2>3. d[1] = a /\ d[2] = r[i]
    BY <1>5, <2>2
  <2>4. UnwrapStep(k, q, i, t) = << d[1], [q[2] EXCEPT ![i] = d[2]] >>
    BY DEF UnwrapStep
  <2> HIDE DEF q, d
  <2>5. [q[2] EXCEPT ![i] = d[2]] = r
    BY <1>10, <2>1, <2>3
  <2> QED
    BY <2>3, <2>4, <2>5 DEF q
<1> QED
  BY <1>1, <1>3, <1>12, <1>13

LEMMA WrapBack ==
  ASSUME NEW k, NEW data, Clean(data), KeyWrap(k, data).ok
  PROVE  KeyUnwrap(k, KeyWrap(k, data).val) = Ok(data)
<1> DEFINE n == Len(data)
           N == WrapRounds * n
           y == WrapSeq(N, << Icv, data >>, k, n)
           a == y[N][1]
           r == y[N][2]
           z == UnwrapSeq(N, << a, r >>, k, n, N)
<1>1. n \in Nat /\ n # 0
  BY StringProperties DEF Clean, KeyWrap, Err
<1>2. N \in Nat
  BY <1>1 DEF WrapRounds
<1>3. KeyWrap(k, data) = Ok(<< a >> \o r)
  BY <1>1 DEF KeyWrap, WrapSeq
<1> HIDE DEF N, n
<1>4. /\ y[0] = << Icv, data >>
      /\ \A i \in 1..N : y[i] = WrapStep(k, y[i - 1], ((i - 1) % n) + 1, i)
  BY <1>2, WrapSteps
<1> HIDE DEF y
<1>5. \A i \in 1..N : ((i - 1) % n) + 1 \in 1..n
  BY <1>1, <1>2
<1>6. \A i \in 0..N : WrapState(y[i], n)
  <2> DEFINE T == {i \in 0..N : WrapState(y[i], n)}
  <2>1. 0 \in T
    <3>1. CleanByte(Icv)
      BY DEF CleanByte, Icv
    <3>2. WrapState(<< Icv, data >>, n)
      BY <3>1 DEF WrapState, n
    <3> QED
      BY <1>2, <1>4, <3>2
  <2>2. ASSUME NEW i \in 0..(N - 1), i \in T PROVE i + 1 \in T
    <3>1. i + 1 \in 1..N /\ i + 1 \in 0..N /\ (i + 1) - 1 = i
      BY <1>2
    <3>2. y[i + 1] = WrapStep(k, y[i], (i % n) + 1, i + 1) /\ (i % n) + 1 \in 1..n
      BY <1>4, <1>5, <3>1
    <3>3. WrapState(y[i + 1], n)
      BY <2>2, <3>2, WrapStepBack
    <3> QED
      BY <3>1, <3>3
  <2> HIDE DEF T
  <2>3. 0..N \subseteq T
    BY <1>2, <2>1, <2>2, UpTo
  <2> QED
    BY <2>3 DEF T
<1>13. ASSUME NEW w, WrapState(w, n), NEW m \in 1..n, NEW t
       PROVE  UnwrapStep(k, WrapStep(k, w, m, t), m, t) = w
  BY <1>13, WrapStepBack
<1>7. y[N] = << a, r >> /\ IsString(r) /\ Len(r) = n
  <2>1. N \in 0..N
    BY <1>2
  <2> QED
    BY <1>6, <2>1 DEF WrapState, Clean
<1>8. /\ z[0] = << a, r >>
      /\ \A j \in 1..N : z[j] = UnwrapStep(k, z[j - 1], ((N - j) % n) + 1, N + 1 - j)
  BY <1>2, UnwrapSteps
<1> HIDE DEF a, r
<1>9. KeyUnwrap(k, << a >> \o r) =
        IF z[N][1] = Icv THEN Ok(z[N][2]) ELSE Err("InvalidTag")
  <2> DEFINE c == << a >> \o r
  <2>1. IsString(<< a >>) /\ Len(<< a >>) = 1 /\ << a >>[1] = a
    BY One
  <2>2. /\ IsString(c) /\ Len(c) = 1 + n
        /\ \A i \in 1..(1 + n) : c[i] = IF i <= 1 THEN << a >>[i] ELSE r[i - 1]
    <3>1. /\ IsString(c) /\ Len(c) = Len(<< a >>) + Len(r)
          /\ \A i \in 1..(Len(<< a >>) + Len(r)) :
               c[i] = IF i <= Len(<< a >>) THEN << a >>[i] ELSE r[i - Len(<< a >>)]
      BY <1>7, <2>1, Joined
    <3> QED
      BY <1>7, <2>1, <3>1
  <2>3. c[1] = a
    BY <1>1, <2>1, <2>2
  <2>4. c # << >> /\ ~ (Len(c) < 2) /\ Len(c) - 1 = n
    BY <1>1, <2>2, Empty
  <2> HIDE DEF c
  <2>5. Tail(c) = r
    <3>1. c \in Seq(Range(c))
      BY <2>2 DEF IsString
    <3>2. /\ Tail(c) \in Seq(Range(c)) /\ Len(Tail(c)) = Len(c) - 1
          /\ \A i \in 1..Len(Tail(c)) : Tail(c)[i] = c[i + 1]
      BY <2>4, <3>1, HeadTailProperties
    <3>3. IsString(Tail(c)) /\ Len(Tail(c)) = n
      BY <2>4, <3>2, StringIn
    <3>4. ASSUME NEW i \in 1..n PROVE Tail(c)[i] = r[i]
      <4>1. i + 1 \in 1..(1 + n) /\ ~ (i + 1 <= 1) /\ (i + 1) - 1 = i
        BY <1>1
      <4>2. c[i + 1] = r[(i + 1) - 1]
        BY <2>2, <4>1
      <4> QED
        BY <3>2, <3>3, <4>1, <4>2
    <3> QED
      BY <1>7, <3>3, <3>4, SameString
  <2> DEFINE m == Len(c) - 1
             M == WrapRounds * m
             st == UnwrapSeq(M, << c[1], Tail(c) >>, k, m, M)[M]
  <2>6. KeyUnwrap(k, c) = IF st[1] = Icv THEN Ok(st[2]) ELSE Err("InvalidTag")
    BY <2>4 DEF KeyUnwrap, UnwrapSeq
  <2>7. m = n /\ M = N
    BY <2>4 DEF N
  <2> HIDE DEF m, M
  <2>8. st = z[N]
    BY <2>3, <2>5, <2>7
  <2> HIDE DEF st
  <2> QED
    BY <2>6, <2>8 DEF c
<1> HIDE DEF z
<1>10. \A j \in 0..N : z[j] = y[N - j]
  <2> DEFINE T == {j \in 0..N : z[j] = y[N - j]}
  <2>1. 0 \in T
    <3>1. 0 \in 0..N /\ N - 0 = N
      BY <1>2
    <3> QED
      BY <1>7, <1>8, <3>1
  <2>2. ASSUME NEW j \in 0..(N - 1), j \in T PROVE j + 1 \in T
    <3> DEFINE i == N - j
               m == ((i - 1) % n) + 1
    <3>1. /\ j + 1 \in 1..N /\ j + 1 \in 0..N /\ (j + 1) - 1 = j
          /\ i \in 1..N /\ i - 1 \in 0..N /\ N - (j + 1) = i - 1 /\ N + 1 - (j + 1) = i
      BY <1>2
    <3>2. z[j + 1] = UnwrapStep(k, z[j], ((N - (j + 1)) % n) + 1, N + 1 - (j + 1))
      BY <1>8, <3>1
    <3>3. z[j] = y[i]
      BY <2>2
    <3> HIDE DEF i
    <3>4. z[j + 1] = UnwrapStep(k, y[i], m, i)
      BY <3>1, <3>2, <3>3
    <3>5. y[i] = WrapStep(k, y[i - 1], m, i) /\ m \in 1..n /\ WrapState(y[i - 1], n)
      BY <1>4, <1>5, <1>6, <3>1
    <3> DEFINE w == y[i - 1]
    <3>7. WrapState(w, n) /\ y[i] = WrapStep(k, w, m, i) /\ m \in 1..n
      BY <3>5
    <3> HIDE DEF m, w
    <3>8. UnwrapStep(k, WrapStep(k, w, m, i), m, i) = w
      BY <3>7, <1>13
    <3>6. z[j + 1] = y[i - 1]
      BY <3>4, <3>7, <3>8 DEF w
    <3> QED
      BY <3>1, <3>6
  <2> HIDE DEF T
  <2>3. 0..N \subseteq T
    BY <1>2, <2>1, <2>2, UpTo
  <2> QED
    BY <2>3 DEF T
<1>11. z[N] = << Icv, data >>
  <2>1. N \in 0..N /\ N - N = 0
    BY <1>2
  <2> QED
    BY <1>4, <1>10, <2>1
<1>12. KeyUnwrap(k, << a >> \o r) = Ok(data)
  BY <1>9, <1>11
<1> QED
  BY <1>3, <1>12 DEF Ok

-----------------------------------------------------------------------------
(* Format-preserving encryption of an even number of bits: a round is      *)
(* undone by the round of the same number.  Of an odd number above one it  *)
(* is not: a round forgets a bit.                                          *)

LEMMA SplitBack ==
  ASSUME NEW s, IsString(s), NEW n \in Nat, n <= Len(s)
  PROVE  /\ IsString(SubSeq(s, 1, n)) /\ Len(SubSeq(s, 1, n)) = n
         /\ IsString(SubSeq(s, n + 1, Len(s))) /\ Len(SubSeq(s, n + 1, Len(s))) = Len(s) - n
         /\ SubSeq(s, 1, n) \o SubSeq(s, n + 1, Len(s)) = s
<1> DEFINE m == Len(s)
           a == SubSeq(s, 1, n)
           b == SubSeq(s, n + 1, m)
<1>1. m \in Nat /\ m - n \in Nat
  BY StringProperties
<1>2. /\ IsString(a) /\ Len(a) = n - 1 + 1
      /\ \A i \in 1..(n - 1 + 1) : a[i] = s[1 + i - 1]
  BY PartIs
<1>3. /\ IsString(b) /\ Len(b) = m - (n + 1) + 1
      /\ \A i \in 1..(m - (n + 1) + 1) : b[i] = s[(n + 1) + i - 1]
  <2>1. n + 1 \in Nat \ {0} /\ n + 1 <= m + 1 /\ m <= m
    BY <1>1
  <2> QED
    BY <1>1, <2>1, PartIs
<1> HIDE DEF a, b, m
<1>4. Len(a) = n /\ \A i \in 1..n : a[i] = s[i]
  <2>1. n - 1 + 1 = n /\ \A i \in 1..n : 1 + i - 1 = i
    OBVIOUS
  <2> QED
    BY <1>2, <2>1
<1>5. Len(b) = m - n /\ \A i \in 1..(m - n) : b[i] = s[n + i]
  <2>1. m - (n + 1) + 1 = m - n /\ \A i \in 1..(m - n) : (n + 1) + i - 1 = n + i
    BY <1>1
  <2> QED
    BY <1>3, <2>1
<1>6. /\ IsString(a \o b) /\ Len(a \o b) = Len(a) + Len(b)
      /\ \A i \in 1..(Len(a) + Len(b)) :
           (a \o b)[i] = IF i <= Len(a) THEN a[i] ELSE b[i - Len(a)]
  BY <1>2, <1>3, Joined
<1>7. Len(a) + Len(b) = m
  BY <1>1, <1>4, <1>5
<1> DEFINE c == a \o b
<1>8. Len(c) = m /\ \A i \in 1..m : c[i] = IF i <= n THEN a[i] ELSE b[i - n]
  BY <1>4, <1>6, <1>7
<1> HIDE DEF c
<1>9. ASSUME NEW i \in 1..m PROVE c[i] = s[i]
  <2>1. CASE i <= n
    BY <1>4, <1>8, <2>1
  <2>2. CASE ~ (i <= n)
    <3>1. i - n \in 1..(m - n) /\ n + (i - n) = i
      BY <1>1, <2>2
    <3>2. c[i] = b[i - n]
      BY <1>8, <2>2
    <3> QED
      BY <1>5, <3>1, <3>2
  <2> QED
    BY <2>1, <2>2
<1>10. c = s
  <2>1. IsString(c)
    BY <1>6 DEF c
  <2> QED
    BY <1>8, <1>9, <2>1, SameString DEF m
<1> QED
  BY <1>2, <1>3, <1>4, <1>5, <1>10 DEF a, b, c, m

LEMMA FitSame ==
  ASSUME NEW s, IsString(s), NEW n, Len(s) = n
  PROVE  Fit(s, n) = s
<1>1. n \in Nat /\ s = [i \in 1..n |-> s[i]]
  BY StringProperties, StringMade
<1>2. Fit(s, n) = [i \in 1..n |-> s[i]]
  BY <1>1 DEF Fit
<1> QED
  BY <1>1, <1>2

LEMMA RoundFnIs ==
  ASSUME NEW k, NEW tweak, NEW half, NEW bits, NEW n \in Nat, NEW round
  PROVE  IsString(RoundFn(k, tweak, half, bits, n, round))
           /\ Len(RoundFn(k, tweak, half, bits, n, round)) = n
<1> DEFINE f == RoundFn(k, tweak, half, bits, n, round)
           read == SubSeq(half, 1, Min({Len(half), 8 * ((bits + 7) \div 8)}))
<1>1. f = [i \in 1..n |-> {<< "F", k, << tweak, round, read >>, i >>}]
  BY DEF RoundFn
<1>2. f = [i \in 1..n |-> f[i]]
  BY <1>1
<1> HIDE DEF f
<1>3. IsString(f) /\ Len(f) = n
  BY <1>2, MadeString
<1> QED
  BY <1>3 DEF f

Halves(s, h) == /\ s = << s[1], s[2] >> /\ IsString(s[1]) /\ IsString(s[2])
                /\ Len(s[1]) = h /\ Len(s[2]) = h
FnrStep(k, e, s, h, r) ==
  << Fit(SubSeq(s[2], 1, h), h), Fit(Xor(s[1], RoundFn(k, e, s[2], h, h, r)), h) >>
FnrBackStep(k, e, s, h, r) ==
  << Xor(s[2], RoundFn(k, e, s[1], h, h, r)), s[1] >>

LEMMA WholePart ==
  ASSUME NEW s, IsString(s), NEW n, Len(s) = n
  PROVE  SubSeq(s, 1, n) = s
BY StringProperties, SubSeqFull DEF IsString

LEMMA FnrStepBack ==
  ASSUME NEW k, NEW e, NEW h \in Nat, NEW s, Halves(s, h), NEW r
  PROVE  /\ Halves(FnrStep(k, e, s, h, r), h)
         /\ FnrBackStep(k, e, FnrStep(k, e, s, h, r), h, r) = s
<1> DEFINE a == s[1]
           b == s[2]
           f == RoundFn(k, e, b, h, h, r)
           c == Xor(a, f)
<1>1. IsString(a) /\ Len(a) = h /\ IsString(b) /\ Len(b) = h /\ s = << a, b >>
  BY DEF Halves
<1>2. FnrStep(k, e, s, h, r) = << Fit(SubSeq(b, 1, h), h), Fit(c, h) >>
  BY DEF FnrStep
<1> HIDE DEF a, b
<1>3. IsString(f) /\ Len(f) = h
  BY RoundFnIs
<1>4. FnrBackStep(k, e, << b, c >>, h, r) = << Xor(c, f), b >>
  BY DEF FnrBackStep
<1> HIDE DEF f
<1>5. IsString(c) /\ Len(c) = h /\ Xor(c, f) = a
  BY <1>1, <1>3, SumIs, SumBack
<1> HIDE DEF c
<1>6. Fit(SubSeq(b, 1, h), h) = b
  <2>1. SubSeq(b, 1, h) = b
    BY <1>1, WholePart
  <2> QED
    BY <1>1, <2>1, FitSame
<1>7. Fit(c, h) = c
  BY <1>5, FitSame
<1>8. Halves(<< b, c >>, h)
  BY <1>1, <1>5 DEF Halves
<1> QED
  BY <1>1, <1>2, <1>4, <1>5, <1>6, <1>7, <1>8

LEMMA FnrSeqIs ==
  ASSUME NEW n \in Nat, NEW x, NEW k, NEW e, NEW h
  PROVE  LET y == FnrSeq(n, x, k, h, h, e)
         IN  /\ y[0] = x
             /\ \A i \in 1..n : y[i] = FnrStep(k, e, y[i - 1], h, i - 1)
BY FnrSteps DEF FnrStep, FnrTurn

LEMMA FnrBackSeqIs ==
  ASSUME NEW n \in Nat, NEW x, NEW k, NEW e, NEW h
  PROVE  LET y == FnrBackSeq(n, x, k, h, h, e)
         IN  /\ y[0] = x
             /\ \A i \in 1..n : y[i] = FnrBackStep(k, e, y[i - 1], h, FpeRounds - i)
BY FnrBackSteps DEF FnrBackStep, FnrBackTurn

LEMMA EvenHalves ==
  ASSUME NEW n \in Nat, n % 2 = 0
  PROVE  n \div 2 \in Nat /\ n - (n \div 2) = n \div 2 /\ (n \div 2) + (n \div 2) = n
OBVIOUS

LEMMA FnrBack ==
  ASSUME NEW k, NEW e, NEW n \in Nat, n % 2 = 0, NEW d, IsString(d), Len(d) = n
  PROVE  /\ IsString(FnrEncrypt(k, e, d, n)) /\ Len(FnrEncrypt(k, e, d, n)) = n
         /\ FnrDecrypt(k, e, FnrEncrypt(k, e, d, n), n) = d
<1> DEFINE h == n \div 2
           N == FpeRounds
           u == SubSeq(d, 1, h)
           v == SubSeq(d, h + 1, n)
           y == FnrSeq(N, << Fit(u, h), v >>, k, h, h, e)
           a == y[N][1]
           b == y[N][2]
           c == SubSeq(a, 1, h) \o b
           z == FnrBackSeq(N, << Fit(SubSeq(c, 1, h), h), SubSeq(c, h + 1, n) >>, k, h, h, e)
<1>1. h \in Nat /\ n - h = h /\ h + h = n
  BY EvenHalves
<1>2. N \in Nat /\ N = 7
  BY DEF FpeRounds
<1>3. FnrEncrypt(k, e, d, n) = c
  <2> DEFINE g == n - h
             st == FnrSeq(N, << Fit(u, g), v >>, k, h, g, e)[N]
  <2>1. FnrEncrypt(k, e, d, n) = SubSeq(st[1], 1, h) \o st[2]
    BY DEF FnrEncrypt, FnrSeq, FnrTurn
  <2>2. g = h
    BY <1>1
  <2> HIDE DEF g
  <2>3. st = y[N]
    BY <2>2
  <2> HIDE DEF st, h, N, y
  <2> QED
    BY <2>1, <2>3
<1> HIDE DEF c
<1>4. FnrDecrypt(k, e, c, n) = SubSeq(z[N][1], 1, h) \o z[N][2]
  <2> DEFINE g == n - h
             st == FnrBackSeq(N, << Fit(SubSeq(c, 1, h), g), SubSeq(c, h + 1, n) >>, k, h, g, e)[N]
  <2>1. FnrDecrypt(k, e, c, n) = SubSeq(st[1], 1, h) \o st[2]
    BY DEF FnrDecrypt, FnrBackSeq, FnrBackTurn
  <2>2. g = h
    BY <1>1
  <2> HIDE DEF g
  <2>3. st = z[N]
    BY <2>2
  <2> HIDE DEF st, h, N, z
  <2> QED
    BY <2>1, <2>3
<1> HIDE DEF h, N
<1>5. IsString(u) /\ Len(u) = h /\ IsString(v) /\ Len(v) = h /\ u \o v = d
  <2>1. h <= Len(d) /\ Len(d) - h = h
    BY <1>1
  <2> QED
    BY <1>1, <2>1, SplitBack
<1> HIDE DEF u, v
<1>6. Fit(u, h) = u /\ Halves(<< u, v >>, h)
  BY <1>5, FitSame DEF Halves
<1>7. y[0] = << u, v >> /\ \A i \in 1..N : y[i] = FnrStep(k, e, y[i - 1], h, i - 1)
  BY <1>2, <1>6, FnrSeqIs
<1> HIDE DEF y
<1>8. \A i \in 0..N : Halves(y[i], h)
  <2> DEFINE T == {i \in 0..N : Halves(y[i], h)}
  <2>1. 0 \in T
    BY <1>2, <1>6, <1>7
  <2>2. ASSUME NEW i \in 0..(N - 1), i \in T PROVE i + 1 \in T
    <3>1. i + 1 \in 1..N /\ i + 1 \in 0..N /\ (i + 1) - 1 = i
      BY <1>2
    <3>2. y[i + 1] = FnrStep(k, e, y[i], h, i)
      BY <1>7, <3>1
    <3>3. Halves(y[i + 1], h)
      BY <1>1, <2>2, <3>2, FnrStepBack
    <3> QED
      BY <3>1, <3>3
  <2> HIDE DEF T
  <2>3. 0..N \subseteq T
    BY <1>2, <2>1, <2>2, UpTo
  <2> QED
    BY <2>3 DEF T
<1>9. y[N] = << a, b >> /\ IsString(a) /\ IsString(b) /\ Len(a) = h /\ Len(b) = h
  <2>1. N \in 0..N
    BY <1>2
  <2> QED
    BY <1>8, <2>1 DEF Halves
<1> HIDE DEF a, b
<1>10. c = a \o b
  BY <1>9, WholePart DEF c
<1>11. IsString(c) /\ Len(c) = n /\ SubSeq(c, 1, h) = a /\ SubSeq(c, h + 1, n) = b
  <2>1. IsString(c) /\ Len(c) = Len(a) + Len(b)
    BY <1>9, <1>10, Joined
  <2>2. SubSeq(c, 1, Len(a)) = a /\ SubSeq(c, Len(a) + 1, Len(a) + Len(b)) = b
    BY <1>9, <1>10, JoinedBack
  <2> QED
    BY <1>1, <1>9, <2>1, <2>2
<1>12. Fit(a, h) = a
  BY <1>9, FitSame
<1>13. z[0] = << a, b >> /\ \A i \in 1..N : z[i] = FnrBackStep(k, e, z[i - 1], h, FpeRounds - i)
  <2> DEFINE q == FnrBackSeq(N, << a, b >>, k, h, h, e)
  <2>1. q[0] = << a, b >> /\ \A i \in 1..N : q[i] = FnrBackStep(k, e, q[i - 1], h, FpeRounds - i)
    BY <1>2, FnrBackSeqIs
  <2>2. z = q
    BY <1>11, <1>12
  <2> HIDE DEF z, q
  <2> QED
    BY <2>1, <2>2
<1> HIDE DEF z
<1>14. ASSUME NEW w, Halves(w, h), NEW r
       PROVE  FnrBackStep(k, e, FnrStep(k, e, w, h, r), h, r) = w
  BY <1>1, <1>14, FnrStepBack
<1>15. \A j \in 0..N : z[j] = y[N - j]
  <2> DEFINE T == {j \in 0..N : z[j] = y[N - j]}
  <2>1. 0 \in T
    <3>1. 0 \in 0..N /\ N - 0 = N
      BY <1>2
    <3> QED
      BY <1>9, <1>13, <3>1
  <2>2. ASSUME NEW j \in 0..(N - 1), j \in T PROVE j + 1 \in T
    <3> DEFINE i == N - j
               w == y[i - 1]
               r == i - 1
    <3>1. /\ j + 1 \in 1..N /\ j + 1 \in 0..N /\ (j + 1) - 1 = j
          /\ i \in 1..N /\ r \in 0..N /\ N - (j + 1) = r /\ FpeRounds - (j + 1) = r
      BY <1>2 DEF N
    <3>2. z[j + 1] = FnrBackStep(k, e, z[j], h, r)
      BY <1>13, <3>1
    <3>3. z[j] = y[i]
      BY <2>2
    <3> HIDE DEF i
    <3>5. y[i] = FnrStep(k, e, w, h, r) /\ Halves(w, h)
      BY <1>7, <1>8, <3>1
    <3> HIDE DEF w, r
    <3>6. z[j + 1] = w
      BY <1>14, <3>2, <3>3, <3>5
    <3> QED
      BY <3>1, <3>6 DEF w, r
  <2> HIDE DEF T
  <2>3. 0..N \subseteq T
    BY <1>2, <2>1, <2>2, UpTo
  <2> QED
    BY <2>3 DEF T
<1>16. z[N] = << u, v >>
  <2>1. N \in 0..N /\ N - N = 0
    BY <1>2
  <2> QED
    BY <1>7, <1>15, <2>1
<1>17. SubSeq(u, 1, h) = u
  BY <1>5, WholePart
<1>18. FnrDecrypt(k, e, c, n) = d
  <2>1. z[N][1] = u /\ z[N][2] = v
    BY ONLY <1>16
  <2>2. FnrDecrypt(k, e, c, n) = SubSeq(u, 1, h) \o v
    BY ONLY <1>4, <2>1, Zenon
  <2> QED
    BY <1>5, <1>17, <2>2, Zenon
<1> QED
  BY <1>3, <1>11, <1>18

LEMMA OneBitBack ==
  ASSUME NEW k, NEW e, NEW d, IsString(d), Len(d) = 1
  PROVE  /\ IsString(Fnr1Bit(k, e, d)) /\ Len(Fnr1Bit(k, e, d)) = 1
         /\ Fnr1Bit(k, e, Fnr1Bit(k, e, d)) = d
<1> DEFINE f == RoundFn(k, e, << >>, 0, 1, 255)
<1>1. IsString(f) /\ Len(f) = 1
  BY RoundFnIs
<1>2. \A x : Fnr1Bit(k, e, x) = Xor(x, f)
  BY DEF Fnr1Bit
<1> HIDE DEF f
<1>3. IsString(Xor(d, f)) /\ Len(Xor(d, f)) = 1 /\ Xor(Xor(d, f), f) = d
  BY <1>1, SumIs, SumBack
<1> QED
  BY <1>2, <1>3

LEMMA FpeBack ==
  ASSUME NEW k, NEW tweak, NEW data, IsString(data), NEW n \in 1..Len(data),
         n = 1 \/ n % 2 = 0
  PROVE  FpeDecrypt(k, tweak, FpeEncrypt(k, tweak, data, n), n) = data
<1> DEFINE e == ExpandTweak(k, n, tweak)
           d == SubSeq(data, 1, n)
           t == SubSeq(data, n + 1, Len(data))
           s == IF n = 1 THEN Fnr1Bit(k, e, d) ELSE FnrEncrypt(k, e, d, n)
           c == s \o t
<1>1. n \in Nat /\ n <= Len(data)
  BY StringProperties
<1>2. IsString(d) /\ Len(d) = n /\ IsString(t) /\ d \o t = data
  BY <1>1, SplitBack
<1>3. FpeEncrypt(k, tweak, data, n) = c
  BY DEF FpeEncrypt, FpeCrypt
<1> HIDE DEF e, d, t
<1>4. /\ IsString(s) /\ Len(s) = n
      /\ (IF n = 1 THEN Fnr1Bit(k, e, s) ELSE FnrDecrypt(k, e, s, n)) = d
  <2>1. CASE n = 1
    BY <1>2, <2>1, OneBitBack
  <2>2. CASE n # 1
    BY <1>1, <1>2, <2>2, FnrBack
  <2> QED
    BY <2>1, <2>2
<1> HIDE DEF s
<1>5. /\ SubSeq(c, 1, n) = s /\ SubSeq(c, n + 1, Len(c)) = t
  <2>1. Len(c) = Len(s) + Len(t)
    BY <1>2, <1>4, Joined
  <2>2. SubSeq(c, 1, Len(s)) = s /\ SubSeq(c, Len(s) + 1, Len(s) + Len(t)) = t
    BY <1>2, <1>4, JoinedBack
  <2> QED
    BY <1>4, <2>1, <2>2
<1> HIDE DEF c
<1>6. FpeDecrypt(k, tweak, c, n) =
        (IF n = 1 THEN Fnr1Bit(k, e, SubSeq(c, 1, n)) ELSE FnrDecrypt(k, e, SubSeq(c, 1, n), n))
          \o SubSeq(c, n + 1, Len(c))
  BY DEF FpeDecrypt, FpeCrypt, e
<1>7. FpeDecrypt(k, tweak, c, n) = data
  BY <1>2, <1>4, <1>5, <1>6
<1> QED
  BY <1>3, <1>7

LEMMA NtzOnce ==
  ASSUME NEW i \in Nat, NEW j \in Nat, NEW t \in Nat, \A x \in (i + 1)..j : Ntz(x) <= t,
         NEW a \in (i + 1)..j, NEW b \in (i + 1)..j, Ntz(a) = t, Ntz(b) = t
  PROVE  ~ (a < b)
<1> SUFFICES ASSUME a < b PROVE FALSE
  OBVIOUS
<1>1. a \in Nat /\ b \in Nat
  OBVIOUS
<1>2. PICK P \in Nat \ {0} : P = TwoTo(t) /\ TwoTo(t + 1) = 2 * P /\ t + 1 < 2 * P
  <2>1. TwoTo(t) \in Nat \ {0} /\ TwoTo(t + 1) = 2 * TwoTo(t) /\ t + 1 \in Nat
    BY PowersAre
  <2>2. t + 1 < TwoTo(t + 1)
    BY <2>1, PowersAre
  <2> QED
    BY <2>1, <2>2
<1>3. a % P = 0 /\ b % P = 0
  BY <1>1, <1>2, NtzIs
<1>4. a % (2 * P) # 0
  <2>1. SUFFICES ASSUME a % (2 * P) = 0 PROVE FALSE
    OBVIOUS
  <2>2. 2 * P <= a
    <3>1. PICK Q \in Nat \ {0} : Q = 2 * P
      OBVIOUS
    <3>2. a % Q = 0 /\ a > 0
      BY <2>1, <3>1
    <3>3. Q <= a
      <4>1. SUFFICES ASSUME a < Q PROVE FALSE
        BY <1>1
      <4>2. a % Q = a
        BY <1>1, <4>1
      <4> QED
        BY <3>2, <4>2
    <3> QED
      BY <3>1, <3>3
  <2>3. t + 1 \in 0..a
    BY <1>1, <1>2, <2>2
  <2>4. t + 1 <= Ntz(a)
    BY <1>1, <1>2, <2>1, <2>3, NtzIs
  <2> QED
    BY <2>4
<1>5. a + P <= b /\ (a + P) % (2 * P) = 0
  BY <1>1, <1>3, <1>4, NextMultiple
<1>6. PICK c \in Nat : c = a + P
  BY <1>1
<1>7. c \in (i + 1)..j /\ c <= b /\ c % (2 * P) = 0 /\ P < c
  BY <1>1, <1>5, <1>6
<1>8. 2 * P <= c
  <2>1. PICK Q \in Nat \ {0} : Q = 2 * P
    OBVIOUS
  <2>2. SUFFICES ASSUME c < Q PROVE FALSE
    BY <2>1
  <2>3. c % Q = c
    BY <2>2
  <2> QED
    BY <1>7, <2>1, <2>3
<1>9. t + 1 \in 0..c
  BY <1>2, <1>8
<1>10. t + 1 <= Ntz(c)
  BY <1>2, <1>7, <1>9, NtzIs
<1>11. Ntz(c) <= t
  BY <1>7
<1>12. PICK z : z = Ntz(c)
  OBVIOUS
<1>13. z \in Nat
  BY <1>12, NtzIs
<1> QED
  BY <1>10, <1>11, <1>12, <1>13

\* No two of the sums of the first numbers' places are the same.
LEMMA SumsOfPlacesDiffer ==
  ASSUME NEW n \in Nat, NEW s, \A l \in 1..n : s[l] = SymDiff(s[l - 1], {Ntz(l)}),
         NEW i \in 0..n, NEW j \in 0..n, i < j
  PROVE  s[i] # s[j]
<1>12. i \in Nat /\ j \in Nat
  OBVIOUS
<1> DEFINE M == {Ntz(x) : x \in (i + 1)..j}
<1>1. M \subseteq 0..j /\ M # {}
  <2>1. ASSUME NEW x \in (i + 1)..j PROVE Ntz(x) \in 0..j
    <3>1. x \in Nat /\ x <= j
      OBVIOUS
    <3>2. PICK z : z = Ntz(x)
      OBVIOUS
    <3>3. z \in 0..x
      BY <3>1, <3>2, NtzIs
    <3> QED
      BY <3>1, <3>2, <3>3
  <2>2. i + 1 \in (i + 1)..j
    OBVIOUS
  <2> QED
    BY <2>1, <2>2
<1> HIDE DEF M
<1>2. PICK t \in M : \A y \in M : y <= t
  BY <1>1, <1>12, MaxIn
<1>3. t \in Nat /\ \A x \in (i + 1)..j : Ntz(x) <= t
  BY <1>1, <1>2 DEF M
<1>4. PICK l \in (i + 1)..j : Ntz(l) = t
  BY <1>2 DEF M
<1>5. ASSUME NEW x \in (i + 1)..j, Ntz(x) = t PROVE x = l
  <2>1. ~ (x < l) /\ ~ (l < x)
    BY <1>3, <1>4, <1>5, <1>12, NtzOnce
  <2> QED
    BY <2>1
<1> DEFINE T == {d \in 0..(j - i) : t \in s[i + d] <=> ~ (t \in s[i] <=> l <= i + d)}
<1>6. 0 \in T
  <2>1. i + 0 = i /\ ~ (l <= i) /\ 0 \in 0..(j - i)
    OBVIOUS
  <2> QED
    BY <2>1
<1>7. ASSUME NEW d \in 0..(j - i - 1), d \in T PROVE d + 1 \in T
  <2>1. PICK x \in Nat : x = i + (d + 1)
    OBVIOUS
  <2>2. x \in 1..n /\ x \in (i + 1)..j /\ x - 1 = i + d /\ d + 1 \in 0..(j - i)
    BY <2>1
  <2>3. s[x] = SymDiff(s[i + d], {Ntz(x)})
    BY <2>2
  <2>4. t \in s[x] <=> ~ (t \in s[i + d] <=> t = Ntz(x))
    BY <2>3 DEF SymDiff
  <2>5. t = Ntz(x) <=> x = l
    BY <1>4, <1>5, <2>2
  <2>6. l <= x <=> (l <= i + d \/ x = l)
    BY <2>1
  <2>7. x = l => ~ (l <= i + d)
    BY <2>1
  <2>8. t \in s[i + d] <=> ~ (t \in s[i] <=> l <= i + d)
    BY <1>7
  <2>9. t \in s[x] <=> ~ (t \in s[i] <=> l <= x)
    BY <2>4, <2>5, <2>6, <2>7, <2>8
  <2> QED
    BY <2>1, <2>2, <2>9
<1> HIDE DEF T
<1>8. 0..(j - i) \subseteq T
  <2>1. PICK m \in Nat : m = j - i
    OBVIOUS
  <2> QED
    BY <1>6, <1>7, <2>1, UpTo
<1>9. j - i \in T
  BY <1>8
<1>10. i + (j - i) = j /\ l <= j
  OBVIOUS
<1>11. t \in s[j] <=> ~ (t \in s[i])
  BY <1>9, <1>10 DEF T
<1> QED
  BY <1>11

(* Sums of strings of a block's length, byte by byte and atom by atom.     *)
IsWide(x) == IsString(x) /\ Len(x) = B

\* A sum of blocks holds what exactly one of them holds.
LEMMA WideSum ==
  ASSUME NEW x, NEW y, IsWide(x), IsWide(y)
  PROVE  /\ IsWide(Xor(x, y))
         /\ \A i \in 1..B : \A a : a \in Xor(x, y)[i] <=> ~ (a \in x[i] <=> a \in y[i])
<1>1. Len(x) <= Len(y)
  BY BlockLen DEF IsWide
<1>2. /\ IsString(Xor(x, y)) /\ Len(Xor(x, y)) = B
      /\ \A i \in 1..B : Xor(x, y)[i] = SymDiff(x[i], y[i])
  BY <1>1, SumIs DEF IsWide
<1> QED
  BY <1>2 DEF IsWide, SymDiff

\* A block is a wide string without deciphered atoms.
LEMMA BlockWide ==
  ASSUME NEW x
  PROVE  IsBlock(x) <=> IsWide(x) /\ \A i \in 1..B : \A a \in x[i] : a[1] # "D"
BY DEF IsBlock, IsWide, Clean

\* The zero block holds nothing.
LEMMA ZeroIs ==
  IsWide(ZeroBlock) /\ \A i \in 1..B : ZeroBlock[i] = {}
BY ZeroIsBlock, BlockWide DEF ZeroBlock, Zero

Wides(w, n) == n \in Nat /\ w = [i \in 1..n |-> w[i]] /\ \A i \in 1..n : IsWide(w[i])
\* y has the atoms that are in one of the strings, and not those in none.
SumAtoms(w, n, y) ==
  \A j \in 1..B : \A a : \A b \in 0..n :
    (\A i \in 1..n : a \in w[i][j] <=> i = b) => (a \in y[j] <=> b # 0)

\* The sum of blocks holds what an odd number of them hold.
LEMMA SumOfWide ==
  ASSUME NEW n \in Nat, NEW w, w = [i \in 1..n |-> w[i]], \A i \in 1..n : IsWide(w[i])
  PROVE  IsWide(SumOf(w)) /\ SumAtoms(w, n, SumOf(w))
<1>1. Len(w) = n
  BY Tuple
<1>2. PICK y : y = SumSeq(n, ZeroBlock, w)
  OBVIOUS
<1>3. y[0] = ZeroBlock /\ \A i \in 1..n : y[i] = Xor(y[i - 1], w[i])
  BY <1>2, SumSteps
<1>4. SumOf(w) = y[n]
  BY <1>1, <1>2 DEF SumOf, SumSeq
<1> DEFINE T == {m \in 0..n : IsWide(y[m])}
<1>5. \A m \in 0..n : IsWide(y[m])
  <2>1. 0 \in T
    BY <1>3, ZeroIs
  <2>2. ASSUME NEW m \in 0..(n - 1), m \in T PROVE m + 1 \in T
    <3>1. m + 1 \in 1..n /\ m + 1 \in 0..n /\ (m + 1) - 1 = m
      OBVIOUS
    <3>2. y[m + 1] = Xor(y[m], w[m + 1])
      BY <1>3, <3>1
    <3> QED
      BY <2>2, <3>1, <3>2, WideSum
  <2> HIDE DEF T
  <2>3. 0..n \subseteq T
    BY <2>1, <2>2, UpTo
  <2> QED
    BY <2>3 DEF T
<1>6. ASSUME NEW j \in 1..B, NEW a, NEW b \in 0..n, \A i \in 1..n : a \in w[i][j] <=> i = b
      PROVE  a \in y[n][j] <=> b # 0
  <2> DEFINE H == {m \in 0..n : a \in y[m][j] <=> b # 0 /\ b <= m}
  <2>1. 0 \in H
    <3>1. ~ (b # 0 /\ b <= 0) /\ a \notin y[0][j]
      BY <1>3, ZeroIs
    <3> QED
      BY <3>1
  <2>2. ASSUME NEW m \in 0..(n - 1), m \in H PROVE m + 1 \in H
    <3>1. PICK l \in 1..n : l = m + 1 /\ l - 1 = m /\ m \in 0..n /\ l \in 0..n
      OBVIOUS
    <3>2. y[l] = Xor(y[m], w[l])
      BY <1>3, <3>1
    <3>3. a \in y[l][j] <=> ~ (a \in y[m][j] <=> a \in w[l][j])
      BY <1>5, <3>1, <3>2, WideSum
    <3>4. (b # 0 /\ b <= l) <=> ~ ((b # 0 /\ b <= m) <=> l = b)
      BY <3>1
    <3>5. a \in y[l][j] <=> b # 0 /\ b <= l
      BY <1>6, <2>2, <3>3, <3>4
    <3> QED
      BY <3>1, <3>5
  <2> HIDE DEF H
  <2>3. 0..n \subseteq H
    BY <2>1, <2>2, UpTo
  <2>4. n \in H /\ b <= n
    BY <2>3
  <2> QED
    BY <2>4 DEF H
<1>7. n \in 0..n
  OBVIOUS
<1> QED
  BY <1>4, <1>5, <1>6, <1>7 DEF SumAtoms

\* The same for a named list of blocks.
LEMMA InSumOf ==
  ASSUME NEW n, NEW w, Wides(w, n)
  PROVE  IsWide(SumOf(w)) /\ SumAtoms(w, n, SumOf(w))
<1>1. n \in Nat /\ w = [i \in 1..n |-> w[i]] /\ \A i \in 1..n : IsWide(w[i])
  BY DEF Wides
<1> QED
  BY <1>1, SumOfWide

=============================================================================
