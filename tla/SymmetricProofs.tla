--------------------------- MODULE SymmetricProofs ---------------------------
(***************************************************************************)
(* Proofs about the users of symmetric cryptography: side by side they are *)
(* what they are alone, tickets and records of TLS hold what they promise, *)
(* no authenticated mode opens what was not sealed, under one key no block *)
(* is enciphered twice, and no mode but ECB repeats a block.               *)
(***************************************************************************)
EXTENDS Symmetric, Sm4ModesProofs

-----------------------------------------------------------------------------
(* Side by side the users share no state: a step of one is no step of      *)
(* another, so that each is what it is alone.                              *)

(* What the callers of the SM4 modes do beside the others, they do alone.  *)
THEOREM ModesAlone ==
  SymmetricSpec => Spec
<1>1. SymmetricInit => Init
  BY DEF SymmetricInit
<1>2. [SymmetricNext]_<<vars, tlsVars, scheduleVars>> => [Next]_vars
  <2> SUFFICES ASSUME [SymmetricNext]_<<vars, tlsVars, scheduleVars>> PROVE [Next]_vars
    OBVIOUS
  <2>1. CASE OnlyTls \/ OnlyDerive
    BY <2>1 DEF OnlyTls, OnlyDerive
  <2>2. CASE SealFirst \/ SealSecond \/ Open
    BY <2>2 DEF Next
  <2>3. CASE UNCHANGED <<vars, tlsVars, scheduleVars>>
    BY <2>3
  <2> QED
    BY <2>1, <2>2, <2>3 DEF SymmetricNext
<1> QED
  BY <1>1, <1>2, PTL DEF SymmetricSpec, Spec

(* And so does the program that derives keys.                              *)
THEOREM DerivesAlone ==
  SymmetricSpec => ScheduleSpec
<1>1. SymmetricInit => ScheduleInit
  BY DEF SymmetricInit
<1>2. [SymmetricNext]_<<vars, tlsVars, scheduleVars>> => [ScheduleNext]_scheduleVars
  <2> SUFFICES ASSUME [SymmetricNext]_<<vars, tlsVars, scheduleVars>>
               PROVE  [ScheduleNext]_scheduleVars
    OBVIOUS
  <2>1. CASE OnlyTls \/ OnlyModes
    BY <2>1 DEF OnlyTls, OnlyModes
  <2>2. CASE DeriveKey \/ MacNew \/ MacUpdate \/ MacFinalize
    BY <2>2 DEF ScheduleNext
  <2>3. CASE UNCHANGED <<vars, tlsVars, scheduleVars>>
    BY <2>3
  <2> QED
    BY <2>1, <2>2, <2>3 DEF SymmetricNext
<1> QED
  BY <1>1, <1>2, PTL DEF SymmetricSpec, ScheduleSpec

(* Together: what is unpadded was padded, and derived keys stay apart, in  *)
(* the specification of all users (padding.rs, sm3/mod.rs, hkdf.rs,        *)
(* kdf.rs).                                                                *)
THEOREM SymmetricSafety ==
  SymmetricSpec => [](UnpadExact /\ DerivedApart)
BY ModesAlone, DerivesAlone, UnpaddingIsExact, KeysAreApart, PTL

(* And what the modes seal opens again, as long as format-preserving       *)
(* encryption is given one bit or an even number of them (modes.rs,        *)
(* fpe.rs).                                                                *)
THEOREM SymmetricRestores ==
  ASSUME EvenWidths
  PROVE  SymmetricSpec => []RoundTrip
BY ModesAlone, SealedIsOpened, PTL

-----------------------------------------------------------------------------
(* Strings from outside.                                                   *)
Outside(s) == IsString(s) /\ \A i \in 1..Len(s) : FromOutside(s[i])

LEMMA OutsideClean ==
  ASSUME NEW s, Outside(s)
  PROVE  Clean(s) /\ Len(s) \in Nat
BY StringProperties DEF Outside, FromOutside, Clean

-----------------------------------------------------------------------------
(* What the network makes of the strings in W is near two of them, one in  *)
(* front and the other in the last B bytes, or has a last byte that stood  *)
(* elsewhere or came from outside.                                         *)

LEMMA AlteredAre ==
  ASSUME NEW W, \A w \in W : IsWire(w), NEW o \in W \cup Altered(W)
  PROVE  /\ Clean(o)
         /\ o = << >> \/ Displaced(o, W) \/ \E v, w \in W : Near(o, v, w)
<1> DEFINE Splice(v, w) == SubSeq(v, 1, Len(v) - B) \o SubSeq(w, Len(w) - B + 1, Len(w))
           P == UNION {Flipped(w) \cup Resized(w) : w \in W}
           Q == {Splice(v, w) : v, w \in W}
           R == UNION {{SubSeq(w, 1, i) : i \in 0..(Len(w) - 1)} : w \in W}
           Goal == /\ Clean(o)
                   /\ o = << >> \/ Displaced(o, W) \/ \E v, w \in W : Near(o, v, w)
<1>1. ASSUME o \in W PROVE Goal
  <2>1. IsString(o) /\ \A i : OrFlipped(o[i], o[i])
    BY <1>1 DEF IsWire, Clean, OrFlipped
  <2>2. Near(o, o, o)
    BY <2>1 DEF Near
  <2> QED
    BY <1>1, <2>2 DEF IsWire
<1>2. ASSUME o \in P PROVE Goal
  <2>1. PICK w \in W : o \in Flipped(w) \/ o \in Resized(w)
    BY <1>2
  <2> QED
    BY <2>1, FlipNear, ResizedDisplaced
<1>3. ASSUME o \in Q PROVE Goal
  <2>1. \A v, w \in W : Clean(Splice(v, w)) /\ Near(Splice(v, w), v, w)
    BY SpliceNear
  <2> HIDE DEF Splice
  <2>2. PICK v, w \in W : o = Splice(v, w)
    BY <1>3
  <2> QED
    BY <2>1, <2>2
<1>4. ASSUME o \in R PROVE Goal
  <2>1. PICK w \in W : \E i \in 0..(Len(w) - 1) : o = SubSeq(w, 1, i)
    BY <1>4
  <2>2. PICK i \in 0..(Len(w) - 1) : o = SubSeq(w, 1, i)
    BY <2>1
  <2>3. IsString(w) /\ Len(w) \in Nat /\ i \in Nat /\ i <= Len(w) /\ 1 <= i + 1 /\ i - 1 + 1 = i
    BY StringProperties DEF IsWire, Clean
  <2>4. Clean(o) /\ Len(o) = i
    BY <2>2, <2>3, CleanPart DEF IsWire
  <2>5. CASE i = 0
    BY <2>4, <2>5, EmptyIs DEF Clean
  <2>6. CASE i # 0
    <3>1. i \in 1..i /\ 1 + i - 1 = i /\ i \in 1..(Len(w) - 1)
      BY <2>3, <2>6
    <3>2. o[i] = w[1 + i - 1]
      BY <2>2, <2>3, <3>1, PartIs
    <3> QED
      BY <2>4, <3>1, <3>2 DEF Displaced
  <2> QED
    BY <2>5, <2>6
<1>5. Altered(W) = P \cup Q \cup R
  BY DEF Altered
<1> HIDE DEF P, Q, R, Goal
<1>6. Goal
  BY <1>1, <1>2, <1>3, <1>4, <1>5
<1> QED
  BY <1>6 DEF Goal

-----------------------------------------------------------------------------
(* What opens as a string that ends in a tag of GCM.                       *)

LEMMA GcmOnly ==
  ASSUME NEW h \in Nat, NEW W, AreGcmWires(W, h), NEW o \in W \cup Altered(W),
         NEW nonce, NEW aad, GcmOpens(o, h, nonce, aad)
  PROVE  IsOneOf(o, W, h, nonce, aad)
<1> DEFINE c(w) == SubSeq(w, h + 1, Len(w) - B)
           t(w) == SubSeq(w, (Len(w) - B) + 1, Len(w))
           last == o[Len(o)]
           m == Made("k", NonceAnd(nonce, 1), B)
<1>0. /\ Clean(nonce) /\ Len(nonce) = B - 1 /\ NoProduct(aad) /\ Len(aad) < 256
      /\ Len(o) >= h + B
  BY DEF GcmOpens
<1>1. \A w \in W : IsWire(w)
  BY DEF GcmWire, AreGcmWires
<1>2. Clean(o) /\ (o = << >> \/ Displaced(o, W) \/ \E v, w \in W : Near(o, v, w))
  BY <1>1, AlteredAre
<1>3. /\ Len(o) \in Nat /\ IsString(c(o)) /\ Len(c(o)) = (Len(o) - B) - h
      /\ \A i \in 1..((Len(o) - B) - h) : c(o)[i] = o[h + i]
      /\ \A i \in 1..B : t(o)[i] = o[(Len(o) - B) + i]
      /\ t(o)[B] = last
  BY <1>0, <1>2, WireParts, ZenonT(60) DEF Clean
<1>4. ASSUME NEW w, IsString(w), Len(w) >= h + B
      PROVE  /\ Len(w) \in Nat /\ IsString(c(w)) /\ Len(c(w)) = (Len(w) - B) - h
             /\ \A i \in 1..((Len(w) - B) - h) : c(w)[i] = w[h + i]
             /\ \A i \in 1..B : t(w)[i] = w[(Len(w) - B) + i]
             /\ t(w)[B] = w[Len(w)]
  BY <1>4, WireParts
<1>5. GcmTag("k", nonce, aad, c(o)) = t(o)
  BY DEF GcmOpens
<1>6. \A w, n, a : GcmWire(w, h, n, a) =>
        /\ IsString(w) /\ IsWire(w) /\ Len(w) >= h + B /\ Len(w) < 256
        /\ Clean(n) /\ Len(n) = B - 1 /\ NoProduct(a) /\ Len(a) < 256
        /\ \A i \in 1..(Len(w) - 1) : \A b \in w[i] : ~ TagAtom(b)
        /\ NoProduct(c(w)) /\ t(w) = GcmTag("k", n, a, c(w))
  BY DEF GcmWire, IsWire, Clean
<1>7. B \in 1..B /\ B \in Nat /\ B >= 3
  BY BlockLen
<1> HIDE DEF c, t, last
<1>8. m \in last /\ << "x", 0 >> \notin last /\ TagAtom(m)
  <2>1. TagAtom(m)
    BY <1>0 DEF TagAtom, m
  <2>2. last = GcmTag("k", nonce, aad, c(o))[B]
    BY <1>3, <1>5
  <2> QED
    BY <1>0, <2>1, <2>2, PlainByte
<1> HIDE DEF m
<1>9. ~ Displaced(o, W)
  <2>1. \A a \in Zero \cup X : a[1] = "x"
    BY DEF Zero, X
  <2>2. m[1] = "E"
    BY DEF m, Made
  <2>3. last # Zero /\ last # X
    BY <1>8, <2>1, <2>2
  <2>4. \A w \in W : \A i \in 1..(Len(w) - 1) : last # w[i]
    BY <1>6, <1>8 DEF AreGcmWires
  <2> QED
    BY <2>3, <2>4 DEF Displaced, last
<1>10. o # << >>
  <2>1. Len(o) # 0
    BY <1>0, <1>3, <1>7
  <2> QED
    BY <2>1, EmptyIs, <1>2 DEF Clean
<1>11. PICK v, w \in W : Near(o, v, w)
  BY <1>2, <1>9, <1>10
<1>12. PICK n2, a2 : GcmWire(v, h, n2, a2)
  BY DEF AreGcmWires
<1>13. ASSUME NEW n, NEW a, GcmWire(w, h, n, a)
       PROVE  /\ n = nonce /\ a = aad /\ Len(o) = Len(w)
              /\ \A i \in (h + 1)..Len(w) : o[i] = w[i]
  <2>1. /\ Len(o) = Len(v) /\ IsString(v) /\ Len(v) >= h + B /\ Len(v) < 256 /\ NoProduct(c(v))
        /\ \A i \in 1..(Len(v) - B) : OrFlipped(o[i], v[i])
        /\ \A i \in 1..B : OrFlipped(o[(Len(v) - B) + i], w[(Len(w) - B) + i])
    BY <1>6, <1>11, <1>12 DEF Near
  <2>2. /\ IsString(w) /\ Len(w) >= h + B /\ Len(w) < 256 /\ Clean(n) /\ Len(n) = B - 1
        /\ NoProduct(a) /\ Len(a) < 256 /\ NoProduct(c(w)) /\ t(w) = GcmTag("k", n, a, c(w))
    BY <1>6, <1>13
  <2>3. /\ Len(w) \in Nat /\ Len(c(w)) = (Len(w) - B) - h /\ t(w)[B] = w[Len(w)]
        /\ \A i \in 1..((Len(w) - B) - h) : c(w)[i] = w[h + i]
        /\ \A i \in 1..B : t(w)[i] = w[(Len(w) - B) + i]
    BY <1>4, <2>2
  <2>4. /\ Len(v) \in Nat /\ \A i \in 1..((Len(v) - B) - h) : c(v)[i] = v[h + i]
        /\ Len(c(v)) = (Len(v) - B) - h
    BY <1>4, <2>1
  <2>5. OrFlipped(last, w[Len(w)])
    <3>1. (Len(v) - B) + B = Len(o) /\ (Len(w) - B) + B = Len(w)
      BY <1>7, <2>1, <2>3, <2>4
    <3> QED
      BY <1>7, <2>1, <3>1 DEF last
  <2>6. << "x", 0 >> \notin w[Len(w)]
    <3>1. w[Len(w)] = GcmTag("k", n, a, c(w))[B]
      BY <2>2, <2>3
    <3>2. << "x", 0 >> \notin GcmTag("k", n, a, c(w))[B]
      BY <2>2, PlainByte
    <3> QED
      BY <3>1, <3>2
  <2>7. last = w[Len(w)]
    <3>1. last # SymDiff(w[Len(w)], X)
      BY <1>8, <2>6 DEF SymDiff, X
    <3> QED
      BY <2>5, <3>1 DEF OrFlipped
  <2>8. NoProduct(c(o)) /\ Len(c(o)) < 256
    <3>1. ASSUME NEW i \in 1..((Len(o) - B) - h) PROVE \A b \in c(o)[i] : b[1] # "lin"
      <4>1. i \in 1..Len(c(v)) /\ h + i \in 1..(Len(v) - B)
        BY <1>3, <1>7, <2>1, <2>4
      <4>2. \A b \in v[h + i] : b[1] # "lin"
        BY <2>1, <2>4, <4>1 DEF NoProduct
      <4>3. OrFlipped(c(o)[i], v[h + i])
        BY <1>3, <2>1, <4>1
      <4> QED
        BY <4>2, <4>3 DEF OrFlipped, SymDiff, X
    <3>2. (Len(o) - B) - h < 256
      BY <1>3, <1>7, <2>1
    <3> QED
      BY <1>3, <3>1, <3>2 DEF NoProduct
  <2>9. GcmTag("k", n, a, c(w))[B] = GcmTag("k", nonce, aad, c(o))[B]
    BY <1>3, <1>5, <2>2, <2>3, <2>7
  <2>10. Len(c(w)) < 256
    BY <1>7, <2>2, <2>3
  <2> DEFINE p == c(w)
             q == c(o)
  <2>18. PICK j \in 1..B : j = B
    BY <1>7
  <2>17. /\ Clean(n) /\ Len(n) = B - 1 /\ NoProduct(a) /\ Len(a) < 256
    BY <1>7, <2>2
  <2>15. /\ NoProduct(p) /\ NoProduct(q) /\ Len(p) < 256 /\ Len(q) < 256
         /\ GcmTag("k", n, a, p)[j] = GcmTag("k", nonce, aad, q)[j]
    BY <2>2, <2>8, <2>9, <2>10, <2>18
  <2> HIDE DEF p, q
  <2>16. n = nonce /\ a = aad /\ p = q
    <3>1. UnderTag(n, a, p) /\ UnderTag(nonce, aad, q)
      BY <1>0, <2>15, <2>17 DEF UnderTag
    <3> QED
      BY <2>15, <3>1, GcmTagTells
  <2>11. n = nonce /\ a = aad /\ c(w) = c(o)
    BY <2>16 DEF p, q
  <2>12. Len(o) = Len(w)
    <3>1. (Len(o) - B) - h = (Len(w) - B) - h
      BY <1>3, <2>3, <2>11
    <3>2. \A x, y \in Nat : (x - B) - h = (y - B) - h => x = y
      BY <1>7
    <3> QED
      BY <1>3, <2>3, <3>1, <3>2
  <2>13. t(o) = t(w)
    BY <1>5, <2>2, <2>11
  <2>14. ASSUME NEW i \in (h + 1)..Len(w) PROVE o[i] = w[i]
    <3>1. CASE i <= Len(w) - B
      <4>1. i - h \in 1..((Len(w) - B) - h) /\ h + (i - h) = i
        BY <1>7, <2>3, <3>1, SMTT(30)
      <4> QED
        BY <1>3, <2>3, <2>11, <2>12, <4>1
    <3>2. CASE ~ (i <= Len(w) - B)
      <4> DEFINE l == i - (Len(w) - B)
      <4>1. l \in 1..B /\ (Len(w) - B) + l = i
        BY <1>7, <2>3, <3>2
      <4> HIDE DEF l
      <4>2. t(o)[l] = o[i] /\ t(w)[l] = w[i]
        BY <1>3, <2>3, <2>12, <4>1
      <4> QED
        BY <2>13, <4>2
    <3> QED
      BY <3>1, <3>2
  <2> QED
    BY <2>11, <2>12, <2>14
<1> QED
  BY <1>13 DEF IsOneOf

-----------------------------------------------------------------------------
(* What GCM seals is a wire.                                               *)

\* A head that is not under the tag and was not made by the cipher.
IsHead(s) == Clean(s) /\ Outside(s)

LEMMA GcmSealByte ==
  ASSUME NEW nonce, Clean(nonce), Len(nonce) = B - 1, NEW p, Outside(p),
         Parts(Len(p)) <= Radix - 2, NEW i \in 1..Len(p),
         NEW a \in KeyStreamed("k", GcmCounters(nonce, p), p)[i]
  PROVE  a[1] # "lin" /\ ~ TagAtom(a)
<1> DEFINE ctrs == GcmCounters(nonce, p)
           ct == KeyStreamed("k", ctrs, p)
<1>1. Clean(p) /\ Len(p) \in Nat
  BY OutsideClean
<1>2. \A q \in 1..Parts(Len(p)) : IsBlock(ctrs[q])
  BY <1>1, GcmSealIs
<1>3. \A q \in 1..Parts(Len(p)) : ctrs[q] = NonceAnd(nonce, q + 1)
  BY <1>1, GcmCountersAre
<1> HIDE DEF ctrs
<1>4. PICK q \in 1..Parts(Len(p)) : \E j \in 1..PartLen(q, Len(p)) : i = Off(q - 1) + j
  BY <1>1, PartPlace
<1>5. PICK j \in 1..PartLen(q, Len(p)) : i = Off(q - 1) + j
  BY <1>4
<1>6. ct[i] = SymDiff(p[i], {Made("k", ctrs[q], j)})
  <2>1. KeyStreamed("k", ctrs, p)[Off(q - 1) + j]
          = SymDiff(p[Off(q - 1) + j], {Made("k", ctrs[q], j)})
    <3>1. AreBlocks(ctrs, Parts(Len(p)))
      BY <1>2 DEF AreBlocks
    <3>2. IsStreamed(KeyStreamed("k", ctrs, p), "k", ctrs, p)
      BY <1>1, <3>1, StreamBytes
    <3> QED
      BY <3>2 DEF IsStreamed
  <2> QED
    BY <1>5, <2>1
<1>7. a \in p[i] \/ a = Made("k", NonceAnd(nonce, q + 1), j)
  <2> HIDE DEF ct
  <2>1. a \in ct[i]
    BY DEF ct, ctrs
  <2> QED
    BY <1>3, <1>6, <2>1 DEF SymDiff
<1>8. CASE a \in p[i]
  <2>1. a[1] # "E" /\ a[1] # "lin"
    BY <1>8 DEF Outside, FromOutside
  <2>2. \A m : Made("k", NonceAnd(m, 1), B)[1] = "E"
    BY DEF Made
  <2> QED
    BY <2>1, <2>2 DEF TagAtom
<1>9. CASE a = Made("k", NonceAnd(nonce, q + 1), j)
  <2>1. a[1] # "lin"
    BY <1>9 DEF Made
  <2>2. q + 1 \in 0..255 /\ q + 1 # 1 /\ 1 \in 0..255
    <3>1. Parts(Len(p)) \in Nat
      BY <1>1, PartsAre
    <3>2. Radix \in 2..16
      BY BlockAssumption
    <3> QED
      BY <3>1, <3>2
  <2>3. ASSUME NEW m, Clean(m), Len(m) = B - 1, a = Made("k", NonceAnd(m, 1), B)
        PROVE  FALSE
    <3>1. IsString(NonceAnd(m, 1)) /\ IsString(NonceAnd(nonce, q + 1))
      BY <2>3, NonceAndIs DEF IsBlock, Clean
    <3>2. NonceAnd(m, 1) = NonceAnd(nonce, q + 1)
      BY <1>9, <2>3, <3>1, MadeTells
    <3>3. PICK v \in 0..255 : v = q + 1
      BY <2>2
    <3>4. PICK u \in 0..255 : u = 1
      BY <2>2
    <3>5. NonceAnd(m, u) = NonceAnd(nonce, v)
      BY <3>2, <3>3, <3>4
    <3>7. Clean(m) /\ Len(m) = B - 1
      BY <2>3
    <3>8. NonceAnd(m, u)[B] = Num(u)
      BY <3>7, NonceAndIs
    <3>9. NonceAnd(nonce, v)[B] = Num(v)
      BY NonceAndIs
    <3>6. u = v
      <4>1. Value(Num(u)) = u
        BY ValueOfNum
      <4>2. Value(Num(v)) = v
        BY ValueOfNum
      <4> QED
        BY <3>5, <3>8, <3>9, <4>1, <4>2
    <3> QED
      BY <2>2, <3>3, <3>4, <3>6
  <2> QED
    BY <2>1, <2>3 DEF TagAtom
<1> QED
  BY <1>7, <1>8, <1>9

LEMMA GcmSealWire ==
  ASSUME NEW nonce, Clean(nonce), Len(nonce) = B - 1, NEW aad, NoProduct(aad), Len(aad) < 256,
         NEW p, Outside(p), Parts(Len(p)) <= Radix - 2, NEW head, IsHead(head),
         Len(head) + Len(p) + B < 256
  PROVE  LET s == EncryptGcm("k", nonce, aad, p)
         IN  IsSealWire(head \o Combined(s), s, nonce, aad, Len(p), head)
<1> DEFINE s == EncryptGcm("k", nonce, aad, p)
           ct == KeyStreamed("k", GcmCounters(nonce, p), p)
           tag == GcmTag("k", nonce, aad, ct)
           h == Len(head)
           m == Len(p)
           w == head \o (ct \o tag)
<1>1. Clean(p) /\ m \in Nat
  BY OutsideClean
<1>2. s.ct = ct /\ s.tag = tag /\ Combined(s) = ct \o tag /\ Clean(ct) /\ Len(ct) = m
  BY <1>1, GcmSealIs
<1>3. \A i \in 1..m : \A a \in ct[i] : a[1] # "lin" /\ ~ TagAtom(a)
  BY GcmSealByte
<1>4. IsString(tag) /\ Len(tag) = B /\ Clean(tag)
  BY GcmTagIs
<1>5. ASSUME NEW j \in 1..B, j # B, NEW a \in tag[j] PROVE ~ TagAtom(a)
  <2>1. a = Made("k", NonceAnd(nonce, 1), j) \/ a[1] = "lin"
    <3> DEFINE g == Ghash(E("k", ZeroBlock), aad, ct)[j]
    <3>0. ASSUME NEW c
          PROVE  /\ GcmTag("k", nonce, aad, c)[j]
                      = Ghash(E("k", ZeroBlock), aad, c)[j] \cup {Made("k", NonceAnd(nonce, 1), j)}
                 /\ \A b \in Ghash(E("k", ZeroBlock), aad, c)[j] : b[1] = "lin"
      BY GcmTagByte
    <3> HIDE DEF ct
    <3>1. tag[j] = g \cup {Made("k", NonceAnd(nonce, 1), j)}
      BY <3>0
    <3>2. \A b \in g : b[1] = "lin"
      BY <3>0
    <3> QED
      BY <1>5, <3>1, <3>2
  <2>2. ASSUME NEW n, Clean(n), Len(n) = B - 1, a = Made("k", NonceAnd(n, 1), B) PROVE FALSE
    <3>1. a[1] = "E"
      BY <2>2 DEF Made
    <3>2. IsString(NonceAnd(n, 1)) /\ IsString(NonceAnd(nonce, 1))
      BY <2>2, NonceAndIs DEF IsBlock, Clean
    <3> QED
      BY <1>5, <2>1, <2>2, <3>1, <3>2, MadeTells
  <2> QED
    BY <2>2 DEF TagAtom
<1>6. Clean(head) /\ IsString(head) /\ h \in Nat
  BY StringProperties DEF IsHead, Clean
<1>7. ASSUME NEW i \in 1..h, NEW a \in head[i] PROVE ~ TagAtom(a)
  <2>1. a[1] # "E"
    BY <1>7 DEF IsHead, Outside, FromOutside
  <2> QED
    BY <2>1 DEF TagAtom, Made
<1>8. IsString(ct) /\ IsString(tag)
  BY <1>2, <1>4 DEF Clean
<1> HIDE DEF ct, tag, s
<1>9. PICK n : n = Len(w)
  OBVIOUS
<1> HIDE DEF w, h, m
<1>10. /\ Clean(w) /\ n = h + (m + B) /\ n - B = h + m
       /\ \A i \in 1..h : w[i] = head[i]
       /\ \A i \in 1..m : w[h + i] = ct[i]
       /\ \A i \in 1..B : w[h + (m + i)] = tag[i]
       /\ SubSeq(w, 1, h) = head /\ SubSeq(w, h + 1, n - B) = ct
       /\ SubSeq(w, (n - B) + 1, n) = tag
  <2>1. h = Len(head) /\ m = Len(ct) /\ B = Len(tag) /\ w = head \o (ct \o tag)
    BY <1>2, <1>4 DEF h, w
  <2> QED
    <3>1. Divides(w, head, ct, tag)
      BY <1>2, <1>4, <1>6, <2>1, Middle
    <3> QED
      BY <1>9, <2>1, <3>1 DEF Divides
<1>11. B \in Nat /\ B >= 3 /\ h + m + B = h + (m + B)
  BY <1>1, <1>6, BlockLen
<1>12. ASSUME NEW i \in 1..(n - 1), NEW a \in w[i] PROVE ~ TagAtom(a)
  <2>1. CASE i <= h
    <3>1. i \in 1..h
      BY <1>6, <2>1
    <3>2. w[i] = head[i]
      BY <1>10, <3>1
    <3> QED
      BY <1>7, <1>12, <3>1, <3>2
  <2>2. CASE ~ (i <= h) /\ i - h <= m
    <3>1. i - h \in 1..m /\ h + (i - h) = i
      BY <1>1, <1>6, <1>10, <1>11, <2>2
    <3>2. w[i] = ct[i - h]
      BY <1>10, <3>1
    <3> QED
      BY <1>3, <1>12, <3>1, <3>2
  <2>3. CASE ~ (i <= h) /\ ~ (i - h <= m)
    <3> DEFINE j == (i - h) - m
    <3>1. j \in 1..B /\ j # B /\ h + (m + j) = i
      BY <1>1, <1>6, <1>10, <1>11, <2>3
    <3> HIDE DEF j
    <3>2. w[i] = tag[j]
      BY <1>10, <3>1
    <3> QED
      BY <1>5, <1>12, <3>1, <3>2
  <2> QED
    BY <2>1, <2>2, <2>3
<1>13. n \in Nat /\ n >= h + B /\ n >= B /\ n < 256
  <2>1. h + m + B < 256
    BY DEF h, m
  <2> QED
    BY <1>1, <1>6, <1>10, <1>11, <2>1
<1>15. NoProduct(ct)
  BY <1>2, <1>3, <1>8 DEF NoProduct
<1>17. GcmWire(w, h, nonce, aad)
  BY <1>9, <1>10, <1>12, <1>13, <1>15 DEF GcmWire, IsWire, tag
<1> QED
  BY <1>2, <1>9, <1>10, <1>11, <1>17 DEF s, w, h, m, IsSealWire

-----------------------------------------------------------------------------
(* Tickets.                                                                *)

IsTicketNonce(n) == IsHead(n) /\ Len(n) = B - 1
IsTicket(w, p) == p \in Payloads /\ \E n : IsTicketNonce(n) /\ w = TicketSeal(n, p)

LEMMA PayloadIs ==
  ASSUME NEW p \in Payloads
  PROVE  /\ Outside(p) /\ Clean(p) /\ Len(p) \in Nat /\ Len(p) + 2 * B < 256
         /\ Parts(Len(p)) <= Radix - 2
<1>1. IsString(p) /\ \A i \in 1..Len(p) : p[i] \in Range(p)
  BY RecordAssumption, StringProperties DEF IsString
<1>2. \A byte \in Range(p) : FromOutside(byte)
  BY RecordAssumption
<1>3. Outside(p)
  BY <1>1, <1>2 DEF Outside
<1>4. Clean(p) /\ Len(p) \in Nat
  BY <1>3, OutsideClean
<1>5. Len(p) + 2 * B < 256 /\ (Len(p) + B) \div B <= Radix - 2
  BY RecordAssumption
<1>6. Parts(Len(p)) <= (Len(p) + B) \div B
  <2>1. \A x, y \in Nat : x <= y => x \div B <= y \div B
    BY BlockLen
  <2>2. Len(p) + B - 1 \in Nat /\ Len(p) + B \in Nat /\ Len(p) + B - 1 <= Len(p) + B
    BY <1>4, BlockLen
  <2> QED
    BY <2>1, <2>2 DEF Parts
<1>7. Parts(Len(p)) \in Nat /\ (Len(p) + B) \div B \in Nat /\ Radix \in Nat
  <2>1. \A x \in Nat : x \div B \in Nat
    BY BlockLen
  <2>2. Len(p) + B \in Nat
    BY <1>4, BlockLen
  <2>3. Parts(Len(p)) \in Nat
    BY <1>4, PartsAre
  <2> QED
    BY <2>1, <2>2, <2>3, BlockAssumption
<1> QED
  BY <1>3, <1>4, <1>5, <1>6, <1>7

LEMMA TicketIs ==
  ASSUME NEW n, IsTicketNonce(n), NEW p \in Payloads
  PROVE  LET w == TicketSeal(n, p)
         IN  /\ GcmWire(w, B - 1, n, << >>) /\ SubSeq(w, 1, B - 1) = n
             /\ TicketOpen(w) = Ok(p)
<1> DEFINE s == EncryptGcm("k", n, << >>, p)
           w == TicketSeal(n, p)
<1>1. /\ Outside(p) /\ Clean(p) /\ Len(p) \in Nat /\ Len(p) + 2 * B < 256
      /\ Parts(Len(p)) <= Radix - 2
  BY PayloadIs
<1>2. Clean(n) /\ Len(n) = B - 1 /\ IsHead(n)
  BY DEF IsTicketNonce, IsHead
<1>3. w = n \o Combined(s)
  BY DEF TicketSeal
<1>4. B \in Nat /\ B >= 3 /\ B - 1 \in Nat /\ NonceLen("gcm") = B - 1
  BY BlockLen DEF NonceLen
<1>5. Len(n) + Len(p) + B < 256
  BY <1>1, <1>2, <1>4
<1>6. /\ GcmWire(w, Len(n), n, << >>) /\ Len(w) = Len(n) + Len(p) + B
      /\ SubSeq(w, 1, Len(n)) = n
      /\ SubSeq(w, Len(n) + 1, Len(w) - B) = s.ct
      /\ SubSeq(w, (Len(w) - B) + 1, Len(w)) = s.tag
  <2>1. PICK a : a = << >>
    OBVIOUS
  <2>2. NoProduct(a) /\ Len(a) < 256
    BY <2>1, EmptyAad
  <2>3. IsSealWire(n \o Combined(EncryptGcm("k", n, a, p)), EncryptGcm("k", n, a, p), n, a,
                   Len(p), n)
    BY <1>1, <1>2, <1>5, <2>2, GcmSealWire
  <2>4. IsSealWire(w, s, n, << >>, Len(p), n)
    BY <1>3, <2>1, <2>3
  <2> QED
    BY <2>4 DEF IsSealWire
<1>7. DecryptGcm("k", n, << >>, s.ct, s.tag) = Ok(p)
  BY <1>1, <1>2, GcmBack
<1> HIDE DEF w, s
<1>8. PICK l, m, d : l = B - 1 /\ m = Len(w) - B /\ d = Len(w)
  OBVIOUS
<1>9. /\ l \in Nat /\ m \in Nat /\ d \in Nat /\ ~ (m < l)
  BY <1>1, <1>2, <1>4, <1>6, <1>8
<1>10. SubSeq(w, 1, l) = n /\ SubSeq(w, l + 1, m) = s.ct /\ SubSeq(w, m + 1, d) = s.tag
  BY <1>2, <1>6, <1>8
<1>11. TicketOpen(w) = DecryptGcm("k", n, << >>, s.ct, s.tag)
  BY <1>4, <1>8, <1>9, <1>10 DEF TicketOpen
<1> QED
  BY <1>2, <1>6, <1>7, <1>8, <1>10, <1>11 DEF w

LEMMA TicketOnly ==
  ASSUME NEW W, \A w \in W : \E p : IsTicket(w, p),
         NEW o \in W \cup Altered(W), TicketOpen(o).ok
  PROVE  o \in W
<1> DEFINE h == B - 1
           n == SubSeq(o, 1, h)
<1>1. h \in Nat /\ h >= 1 /\ B \in Nat /\ B >= 3 /\ NonceLen("gcm") = h
  BY BlockLen DEF NonceLen
<1>2. ASSUME NEW w \in W
      PROVE  \E m : GcmWire(w, h, m, << >>) /\ SubSeq(w, 1, h) = m
  <2>1. PICK p : IsTicket(w, p)
    BY <1>2
  <2>2. PICK m : IsTicketNonce(m) /\ w = TicketSeal(m, p) /\ p \in Payloads
    BY <2>1 DEF IsTicket
  <2>3. GcmWire(TicketSeal(m, p), h, m, << >>) /\ SubSeq(TicketSeal(m, p), 1, h) = m
    BY <2>2, TicketIs
  <2> QED
    BY <2>2, <2>3
<1>3. \A w \in W : IsWire(w)
  BY <1>2 DEF GcmWire
<1>4. Clean(o) /\ IsString(o) /\ Len(o) \in Nat
  BY <1>3, AlteredAre, StringProperties DEF Clean
<1>5. PICK c, t : c = SubSeq(o, h + 1, Len(o) - B) /\ t = SubSeq(o, (Len(o) - B) + 1, Len(o))
  OBVIOUS
<1> HIDE DEF n, h
<1>6. ~ (Len(o) - B < h) /\ DecryptGcm("k", n, << >>, c, t).ok
  BY <1>1, <1>5 DEF TicketOpen, Err, n
<1>7. GcmTag("k", n, << >>, c) = t
  BY <1>6 DEF DecryptGcm, OpenedIf, Err
<1>8. Len(o) >= h + B
  BY <1>1, <1>4, <1>6
<1>9. Clean(n) /\ IsString(n) /\ Len(n) = h /\ \A i \in 1..h : n[i] = o[i]
  <2>1. h <= Len(o) /\ 1 <= h + 1 /\ h - 1 + 1 = h /\ 1 \in Nat \ {0}
    BY <1>1, <1>4, <1>8
  <2>2. \A i \in 1..h : 1 + i - 1 = i
    BY <1>1
  <2>3. Clean(n)
    BY <1>1, <1>4, <2>1, CleanPart DEF n
  <2>4. Len(n) = h - 1 + 1 /\ \A i \in 1..(h - 1 + 1) : n[i] = o[1 + i - 1]
    BY <1>1, <1>4, <2>1, PartIs DEF n
  <2> QED
    BY <2>1, <2>2, <2>3, <2>4 DEF Clean
<1>10. AreGcmWires(W, h)
  BY <1>2 DEF AreGcmWires
<1>11. PICK w \in W : \A m, a : GcmWire(w, h, m, a) =>
          m = n /\ a = << >> /\ Len(o) = Len(w) /\ \A i \in (h + 1)..Len(w) : o[i] = w[i]
  <2>1. NoProduct(<< >>) /\ Len(<< >>) < 256 /\ Len(n) = B - 1
    BY <1>9, EmptyAad DEF h
  <2>2. GcmTag("k", n, << >>, SubSeq(o, h + 1, Len(o) - B))
          = SubSeq(o, (Len(o) - B) + 1, Len(o))
    BY <1>5, <1>7
  <2>3. PICK a : a = << >>
    OBVIOUS
  <2>4. GcmOpens(o, h, n, a)
    BY <1>8, <1>9, <2>1, <2>2, <2>3 DEF GcmOpens
  <2>5. IsOneOf(o, W, h, n, a)
    BY <1>1, <1>10, <2>4, GcmOnly
  <2> QED
    BY <2>3, <2>5 DEF IsOneOf
<1>12. PICK m : GcmWire(w, h, m, << >>) /\ SubSeq(w, 1, h) = m
  BY <1>2
<1>13. SubSeq(w, 1, h) = n /\ Len(o) = Len(w) /\ \A i \in (h + 1)..Len(w) : o[i] = w[i]
  BY <1>11, <1>12
<1>14. IsString(w)
  BY <1>3 DEF IsWire, Clean
<1>15. \A i \in 1..h : n[i] = w[i]
  <2>1. h <= Len(w) /\ 1 <= h + 1 /\ h - 1 + 1 = h /\ 1 \in Nat \ {0}
    BY <1>1, <1>4, <1>8, <1>13
  <2>2. \A i \in 1..h : 1 + i - 1 = i
    BY <1>1
  <2>4. \A i \in 1..(h - 1 + 1) : SubSeq(w, 1, h)[i] = w[1 + i - 1]
    BY <1>1, <1>14, <2>1, PartIs
  <2> QED
    BY <1>13, <2>1, <2>2, <2>4
<1>16. \A i \in 1..Len(o) : o[i] = w[i]
  <2>1. \A i \in 1..Len(o) : i \in 1..h \/ i \in (h + 1)..Len(o)
    BY <1>1, <1>4
  <2> QED
    BY <1>9, <1>13, <1>15, <2>1
<1>17. o = w
  BY <1>4, <1>13, <1>14, <1>16, SameString
<1> QED
  BY <1>17

-----------------------------------------------------------------------------
(* Every ticket is one that was made, and what was redeemed is what such a *)
(* ticket gives.                                                           *)
SentIs == sent = [i \in 1..Len(sent) |-> sent[i]] /\ Len(sent) \in Nat
TicketsMade ==
  suite = "ticket" => \A i \in 1..Len(sent) : IsTicket(sent[i].wire, sent[i].payload)
TicketRedeemed ==
  redeemed # None =>
    /\ suite = "ticket" /\ redeemed.gave = TicketOpen(redeemed.ticket)
    /\ redeemed.gave.ok =>
         \E i \in 1..Len(sent) :
           sent[i].wire = redeemed.ticket /\ sent[i].payload = redeemed.gave.val
TicketInv == SentIs /\ (suite = "" => sent = << >>) /\ TicketsMade /\ TicketRedeemed

LEMMA TicketGives ==
  ASSUME NEW w, NEW p, IsTicket(w, p)
  PROVE  TicketOpen(w) = Ok(p)
BY TicketIs DEF IsTicket

LEMMA FreshNonce ==
  ASSUME NEW len \in Nat
  PROVE  IsTicketNonce([i \in 1..NonceLen("gcm") |-> {<<"n", 8 * len + i>>}])
<1> DEFINE n == [i \in 1..(B - 1) |-> {<<"n", 8 * len + i>>}]
<1>1. B - 1 \in Nat /\ NonceLen("gcm") = B - 1
  BY BlockLen DEF NonceLen
<1>2. \A i \in 1..(B - 1) : \A a \in n[i] : a[1] = "n"
  OBVIOUS
<1>3. n = [i \in 1..(B - 1) |-> n[i]]
  OBVIOUS
<1> HIDE DEF n
<1>4. Clean(n) /\ Len(n) = B - 1
  BY <1>1, <1>2, <1>3, CleanMade
<1>5. Outside(n)
  BY <1>2, <1>4 DEF Outside, FromOutside, Clean
<1>6. IsTicketNonce(n)
  BY <1>4, <1>5 DEF IsTicketNonce, IsHead
<1> QED
  BY <1>1, <1>6 DEF n

LEMMA SentMore ==
  ASSUME SentIs, NEW r, sent' = Append(sent, r)
  PROVE  /\ SentIs' /\ Len(sent') = Len(sent) + 1 /\ sent'[Len(sent) + 1] = r
         /\ \A i \in 1..Len(sent) : sent'[i] = sent[i]
<1>1. IsString(sent)
  BY MadeString DEF SentIs
<1>2. /\ sent' = [i \in 1..(Len(sent) + 1) |-> sent'[i]]
      /\ \A i \in 1..Len(sent) : sent'[i] = sent[i]
      /\ sent'[Len(sent) + 1] = r
  BY <1>1, AppendMakes
<1>3. Len(sent') = Len(sent) + 1
  BY <1>1, <1>2, MadeString DEF SentIs
<1> QED
  BY <1>2, <1>3 DEF SentIs

LEMMA MakeTicketHolds ==
  ASSUME TicketInv, MakeTicket
  PROVE  TicketInv'
<1>1. /\ SentIs /\ suite = "ticket" /\ suite' = suite /\ redeemed' = redeemed
      /\ \A i \in 1..Len(sent) : IsTicket(sent[i].wire, sent[i].payload)
  BY DEF TicketInv, TicketsMade, MakeTicket
<1> DEFINE n == [i \in 1..NonceLen("gcm") |-> {<<"n", 8 * Len(sent) + i>>}]
<1>2. PICK p \in Payloads :
        sent' = Append(sent, [typ |-> Zero, payload |-> p, wire |-> TicketSeal(n, p)])
  BY DEF MakeTicket
<1>3. IsTicketNonce(n)
  BY <1>1, FreshNonce DEF SentIs
<1> HIDE DEF n
<1>4. PICK r : r = [typ |-> Zero, payload |-> p, wire |-> TicketSeal(n, p)]
  OBVIOUS
<1>5. IsTicket(r.wire, r.payload)
  BY <1>3, <1>4 DEF IsTicket
<1>6. /\ SentIs' /\ Len(sent') = Len(sent) + 1 /\ sent'[Len(sent) + 1] = r
      /\ \A i \in 1..Len(sent) : sent'[i] = sent[i]
  BY <1>1, <1>2, <1>4, SentMore
<1>7. /\ \A i \in 1..(Len(sent) + 1) : i \in 1..Len(sent) \/ i = Len(sent) + 1
      /\ \A i \in 1..Len(sent) : i \in 1..(Len(sent) + 1)
  BY <1>1 DEF SentIs
<1>8. TicketsMade'
  <2>1. \A i \in 1..(Len(sent) + 1) : IsTicket(sent'[i].wire, sent'[i].payload)
    BY <1>1, <1>5, <1>6, <1>7
  <2> QED
    BY <1>6, <2>1 DEF TicketsMade
<1>9. TicketRedeemed'
  <2>1. TicketRedeemed
    BY DEF TicketInv
  <2> QED
    BY <1>1, <1>6, <1>7, <2>1 DEF TicketRedeemed
<1> QED
  BY <1>1, <1>6, <1>8, <1>9 DEF TicketInv

LEMMA RedeemHolds ==
  ASSUME TicketInv, RedeemTicket
  PROVE  TicketInv'
<1>1. /\ SentIs /\ suite = "ticket" /\ suite' = suite /\ sent' = sent
      /\ \A i \in 1..Len(sent) : IsTicket(sent[i].wire, sent[i].payload)
  BY DEF TicketInv, TicketsMade, RedeemTicket
<1>2. PICK o \in Wires \cup Altered(Wires) :
        redeemed' = [ticket |-> o, gave |-> TicketOpen(o)]
  BY DEF RedeemTicket
<1>3. DOMAIN sent = 1..Len(sent)
  BY <1>1 DEF SentIs
<1>4. \A w \in Wires : \E p : IsTicket(w, p)
  BY <1>1, <1>3 DEF Wires
<1>5. redeemed'.gave = TicketOpen(o) /\ redeemed'.ticket = o
  BY <1>2
<1>6. ASSUME TicketOpen(o).ok
      PROVE  \E i \in 1..Len(sent) : sent[i].wire = o /\ sent[i].payload = TicketOpen(o).val
  <2>1. PICK W : W = Wires
    OBVIOUS
  <2>2. o \in Wires
    <3>1. (\A w \in W : \E p : IsTicket(w, p)) /\ o \in W \cup Altered(W)
      BY <1>4, <2>1
    <3>2. o \in W
      BY <1>6, <3>1, TicketOnly
    <3> QED
      BY <2>1, <3>2
  <2>3. PICK i \in 1..Len(sent) : sent[i].wire = o
    BY <1>3, <2>2 DEF Wires
  <2>4. TicketOpen(sent[i].wire) = Ok(sent[i].payload)
    BY <1>1, TicketGives
  <2> QED
    BY <2>3, <2>4 DEF Ok
<1>7. TicketRedeemed'
  BY <1>1, <1>5, <1>6 DEF TicketRedeemed
<1>8. TicketsMade' /\ SentIs'
  BY <1>1 DEF TicketsMade, SentIs
<1> QED
  BY <1>1, <1>7, <1>8 DEF TicketInv

LEMMA OtherTlsHolds ==
  ASSUME TicketInv, "ticket" \notin Suites, Begin \/ SendRecord \/ ReceiveRecord
  PROVE  TicketInv'
<1>1. SentIs /\ TicketsMade /\ TicketRedeemed /\ (suite = "" => sent = << >>) /\ "" \notin Suites
  BY RecordAssumption DEF TicketInv
<1>2. CASE Begin
  <2>1. suite = "" /\ sent' = sent /\ redeemed' = redeemed /\ sent = << >>
    BY <1>1, <1>2 DEF Begin
  <2>2. suite' # ""
    BY <1>1, <1>2 DEF Begin
  <2>3. Len(sent') = 0
    BY <2>1, Empty
  <2>4. TicketsMade'
    BY <2>3 DEF TicketsMade
  <2>5. redeemed' = None
    BY <1>1, <2>1 DEF TicketRedeemed
  <2>6. SentIs'
    BY <1>1, <2>1 DEF SentIs
  <2> QED
    BY <2>2, <2>4, <2>5, <2>6 DEF TicketInv, TicketRedeemed
<1>3. CASE SendRecord
  <2>1. suite \in Suites /\ suite' = suite /\ redeemed' = redeemed
    BY <1>3 DEF SendRecord
  <2>2. SentIs'
    <3>1. PICK r : sent' = Append(sent, r)
      BY <1>3 DEF SendRecord
    <3> QED
      BY <1>1, <3>1, SentMore
  <2>3. redeemed' = None /\ suite' # "ticket" /\ suite' # ""
    BY <1>1, <2>1 DEF TicketRedeemed
  <2> QED
    BY <2>2, <2>3 DEF TicketInv, TicketsMade, TicketRedeemed
<1>4. CASE ReceiveRecord
  <2>1. suite' = suite /\ redeemed' = redeemed /\ sent' = sent
    BY <1>4 DEF ReceiveRecord
  <2> QED
    BY <1>1, <2>1 DEF TicketInv, SentIs, TicketsMade, TicketRedeemed
<1> QED
  BY <1>2, <1>3, <1>4

(* What a ticket gives back is what was put into it, and nothing that is   *)
(* no ticket gives anything, however many tickets were made and whatever   *)
(* was made of them on the way (SmTicketProducer, mod.rs:113-150).         *)
THEOREM TicketsGiveBack ==
  SymmetricSpec => []TicketsExact
<1>1. SymmetricInit => TicketInv
  <2> SUFFICES ASSUME SymmetricInit PROVE TicketInv
    OBVIOUS
  <2>1. sent = << >> /\ suite = "" /\ redeemed = None
    BY DEF SymmetricInit, TlsInit
  <2>2. SentIs
    <3>1. PICK s : s = << >>
      OBVIOUS
    <3>2. s = [i \in 1..0 |-> s[i]] /\ Len(s) = 0
      BY <3>1, Empty
    <3> QED
      BY <2>1, <3>1, <3>2 DEF SentIs
  <2> QED
    BY <2>1, <2>2 DEF TicketInv, TicketsMade, TicketRedeemed
<1>2. TicketInv /\ [SymmetricNext]_<<vars, tlsVars, scheduleVars>> => TicketInv'
  <2> SUFFICES ASSUME TicketInv, [SymmetricNext]_<<vars, tlsVars, scheduleVars>>
               PROVE  TicketInv'
    OBVIOUS
  <2>1. CASE UNCHANGED tlsVars
    BY <2>1 DEF tlsVars, TicketInv, SentIs, TicketsMade, TicketRedeemed
  <2>2. CASE Begin \/ SendRecord \/ ReceiveRecord
    <3>1. "ticket" \notin Suites
      BY RecordAssumption
    <3> QED
      BY <2>2, <3>1, OtherTlsHolds
  <2>3. CASE MakeTicket
    BY <2>3, MakeTicketHolds
  <2>4. CASE RedeemTicket
    BY <2>4, RedeemHolds
  <2> QED
    BY <2>1, <2>2, <2>3, <2>4 DEF SymmetricNext, OnlyModes, OnlyDerive
<1>3. TicketInv => TicketsExact
  <2> SUFFICES ASSUME TicketInv PROVE TicketsExact
    OBVIOUS
  <2>1. DOMAIN sent = 1..Len(sent)
    BY DEF TicketInv, SentIs
  <2>2. ASSUME redeemed # None, NEW i \in 1..Len(sent), sent[i].wire = redeemed.ticket
        PROVE  redeemed.gave.ok
    <3>1. IsTicket(sent[i].wire, sent[i].payload) /\ redeemed.gave = TicketOpen(redeemed.ticket)
      BY <2>2 DEF TicketInv, TicketsMade, TicketRedeemed
    <3>2. TicketOpen(sent[i].wire) = Ok(sent[i].payload)
      BY <3>1, TicketGives
    <3> QED
      BY <2>2, <3>1, <3>2 DEF Ok
  <2> QED
    BY <2>1, <2>2 DEF TicketInv, TicketRedeemed, TicketsExact
<1> QED
  BY <1>1, <1>2, <1>3, PTL DEF SymmetricSpec

-----------------------------------------------------------------------------
(* The nonces, the additional data and the contents of records.            *)

LEMMA RecordNonceIs ==
  ASSUME NEW mode, NEW seq
  PROVE  LET n == RecordNonce(mode, seq)
             l == NonceLen(mode)
         IN  /\ Clean(n) /\ Len(n) = l /\ l \in Nat \ {0}
             /\ n[l] = SymDiff({<< "iv", l >>}, Num(seq))
<1> DEFINE l == NonceLen(mode)
           a == StaticIv(mode)
           z == Zeros(l - 1)
           b == Append(z, Num(seq))
<1>1. l \in Nat /\ l >= 1 /\ l - 1 \in Nat /\ l - 1 + 1 = l /\ l \in Nat \ {0} /\ l \in 1..l
  BY BlockLen DEF NonceLen
<1>2. a = [i \in 1..l |-> {<< "iv", i >>}]
  BY DEF StaticIv
<1> HIDE DEF l, a, b, z
<1>3. a = [i \in 1..l |-> a[i]] /\ \A i \in 1..l : a[i] = {<< "iv", i >>}
  BY <1>2
<1>4. \A i \in 1..l : \A c \in a[i] : c[1] # "D"
  BY <1>3
<1>5. Clean(a) /\ Len(a) = l
  BY <1>1, <1>3, <1>4, CleanMade
<1>6. IsString(z) /\ Len(z) = l - 1 /\ \A i \in 1..(l - 1) : z[i] = Zero
  BY <1>1, ZerosAre DEF z
<1>7. /\ b = [i \in 1..((l - 1) + 1) |-> b[i]] /\ b[(l - 1) + 1] = Num(seq)
      /\ \A i \in 1..(l - 1) : b[i] = z[i]
  BY <1>6, AppendMakes DEF b
<1>8. b = [i \in 1..l |-> b[i]] /\ b[l] = Num(seq) /\ \A i \in 1..(l - 1) : b[i] = Zero
  BY <1>1, <1>6, <1>7
<1>9. \A i \in 1..l : \A c \in b[i] : c[1] # "D"
  <2>1. \A i \in 1..l : i \in 1..(l - 1) \/ i = l
    BY <1>1
  <2>2. \A c \in Zero : c[1] # "D"
    BY DEF Zero
  <2>3. \A c \in Num(seq) : c[1] # "D"
    BY CleanNum
  <2> QED
    BY <1>8, <2>1, <2>2, <2>3
<1>10. Clean(b) /\ Len(b) = l
  BY <1>1, <1>8, <1>9, CleanMade
<1>11. Clean(Xor(a, b)) /\ Len(Xor(a, b)) = l
  BY <1>1, <1>5, <1>10, CleanSum
<1>12. Xor(a, b)[l] = SymDiff(a[l], b[l])
  BY <1>1, <1>5, <1>10, SumIs DEF Clean
<1>13. RecordNonce(mode, seq) = Xor(a, b)
  BY DEF RecordNonce, a, b, z, l
<1> QED
  BY <1>1, <1>3, <1>8, <1>11, <1>12, <1>13 DEF l

LEMMA RecordNonceTells ==
  ASSUME NEW mode, NEW s \in 0..255, NEW t \in 0..255,
         RecordNonce(mode, s) = RecordNonce(mode, t)
  PROVE  s = t
<1> DEFINE iv == << "iv", NonceLen(mode) >>
<1>1. /\ RecordNonce(mode, s)[NonceLen(mode)] = SymDiff({iv}, Num(s))
      /\ RecordNonce(mode, t)[NonceLen(mode)] = SymDiff({iv}, Num(t))
  BY RecordNonceIs
<1>2. iv \notin Num(s) /\ iv \notin Num(t)
  BY DEF Num
<1> HIDE DEF iv
<1>3. SymDiff({iv}, Num(s)) = SymDiff({iv}, Num(t))
  BY <1>1
<1>4. Num(s) = Num(t)
  BY <1>2, <1>3 DEF SymDiff
<1>5. Value(Num(s)) = s
  BY ValueOfNum
<1>6. Value(Num(t)) = t
  BY ValueOfNum
<1> QED
  BY <1>4, <1>5, <1>6

LEMMA RecordAadIs ==
  ASSUME NEW len
  PROVE  LET a == RecordAad(len)
         IN  /\ Clean(a) /\ NoProduct(a) /\ IsString(a) /\ Len(a) = 2
             /\ a[1] = Num(2) /\ a[2] = Num(len)
<1> DEFINE a == RecordAad(len)
<1>1. IsString(a) /\ Len(a) = 2 /\ a[1] = Num(2) /\ a[2] = Num(len)
  BY PairIs DEF RecordAad
<1> HIDE DEF a
<1>2. \A i \in 1..2 : i = 1 \/ i = 2
  OBVIOUS
<1>3. \A i \in 1..2 : \A c \in a[i] : c[1] = "bit"
  BY <1>1, <1>2 DEF Num
<1>4. Clean(a) /\ NoProduct(a)
  BY <1>1, <1>3 DEF Clean, NoProduct
<1> QED
  BY <1>1, <1>4 DEF a

LEMMA ContentIs ==
  ASSUME NEW typ \in Types, NEW payload \in Payloads
  PROVE  LET p == Append(payload, typ)
         IN  /\ Outside(p) /\ Clean(p) /\ Len(p) = Len(payload) + 1 /\ Len(payload) \in Nat
             /\ Len(p) + B < 256 /\ Parts(Len(p)) <= Radix - 2 /\ Parts(Len(p)) < LenRadix
             /\ Unpadded(p) = Ok([typ |-> typ, payload |-> payload])
<1> DEFINE p == Append(payload, typ)
           n == Len(payload)
<1>1. Outside(payload) /\ IsString(payload) /\ n \in Nat /\ n + 2 * B < 256
  BY PayloadIs DEF Outside
<1>2. FromOutside(typ) /\ typ # Zero
  BY RecordAssumption
<1> HIDE DEF n
<1>3. /\ p = [i \in 1..(n + 1) |-> p[i]] /\ p[n + 1] = typ
      /\ \A i \in 1..n : p[i] = payload[i]
  BY <1>1, AppendMakes DEF n
<1> HIDE DEF p
<1>4. IsString(p) /\ Len(p) = n + 1
  BY <1>1, <1>3, Tuple
<1>5. \A i \in 1..(n + 1) : i \in 1..n \/ i = n + 1
  BY <1>1
<1>6. Outside(p)
  <2>1. \A i \in 1..n : FromOutside(payload[i])
    BY <1>1 DEF Outside, n
  <2> QED
    BY <1>2, <1>3, <1>4, <1>5, <2>1 DEF Outside
<1>7. Clean(p)
  BY <1>6, OutsideClean
<1>8. Len(p) + B < 256
  BY <1>1, <1>4, BlockLen
<1>9. Parts(Len(p)) <= Radix - 2 /\ Parts(Len(p)) < LenRadix
  <2>1. Len(p) + B - 1 = n + B
    BY <1>1, <1>4, BlockLen
  <2>2. (n + B) \div B <= Radix - 2 /\ (n + B) \div B < LenRadix
    BY RecordAssumption DEF n
  <2> QED
    BY <2>1, <2>2 DEF Parts
<1>10. Unpadded(p) = Ok([typ |-> typ, payload |-> payload])
  <2> DEFINE S == {0} \cup {i \in DOMAIN p : p[i] # Zero}
  <2>1. DOMAIN p = 1..(n + 1)
    BY <1>3
  <2>2. n + 1 \in S /\ \A i \in S : i \in Nat /\ i <= n + 1
    BY <1>1, <1>2, <1>3, <2>1
  <2> HIDE DEF S
  <2>3. \E m \in S : \A i \in S : m >= i
    BY <1>1, <2>2
  <2>4. Max(S) \in S /\ \A i \in S : Max(S) >= i
    BY <2>3 DEF Max
  <2>5. Max(S) = n + 1
    BY <1>1, <2>2, <2>4
  <2>6. SubSeq(p, 1, n) = payload
    <3>1. n <= Len(p) /\ 1 <= n + 1 /\ n - 1 + 1 = n /\ 1 \in Nat \ {0}
      BY <1>1, <1>4
    <3>2. \A i \in 1..n : 1 + i - 1 = i
      BY <1>1
    <3>3. IsString(SubSeq(p, 1, n)) /\ Len(SubSeq(p, 1, n)) = n
      BY <1>1, <1>4, <3>1, PartIs
    <3>4. \A i \in 1..(n - 1 + 1) : SubSeq(p, 1, n)[i] = p[1 + i - 1]
      BY <1>1, <1>4, <3>1, PartIs
    <3>5. \A i \in 1..n : SubSeq(p, 1, n)[i] = payload[i]
      BY <1>3, <3>1, <3>2, <3>4
    <3> QED
      BY <1>1, <3>3, <3>5, SameString DEF n
  <2>7. PICK m : m = Max({0} \cup {i \in DOMAIN p : p[i] # Zero})
    OBVIOUS
  <2>8. m = n + 1 /\ m # 0 /\ m - 1 = n /\ p[m] = typ
    BY <1>1, <1>3, <2>5, <2>7 DEF S
  <2> QED
    BY <2>6, <2>7, <2>8 DEF Unpadded
<1> QED
  BY <1>1, <1>4, <1>6, <1>7, <1>8, <1>9, <1>10 DEF p, n

-----------------------------------------------------------------------------
(* Records under GCM.                                                      *)

\* What was sent under a sequence number, and what opens under one.
IsRecord(mode, seq, typ, payload, w) ==
  /\ seq \in 0..255 /\ typ \in Types /\ payload \in Payloads
  /\ w = EncryptRecord(mode, seq, typ, payload)
AreRecords(mode, W) ==
  \A w \in W : \E seq, typ, payload : IsRecord(mode, seq, typ, payload, w)

LEMMA EmptyHead == IsHead(<< >>)
BY Empty, CleanEmpty DEF IsHead, Outside

LEMMA GcmRecordIs ==
  ASSUME NEW seq, NEW typ \in Types, NEW payload \in Payloads
  PROVE  LET w == EncryptRecord("gcm", seq, typ, payload)
         IN  /\ GcmWire(w, 0, RecordNonce("gcm", seq), RecordAad(Len(w)))
             /\ DecryptRecord("gcm", seq, w) = Ok([typ |-> typ, payload |-> payload])
<1> DEFINE p == Append(payload, typ)
           nonce == RecordNonce("gcm", seq)
           aad == RecordAad(Len(payload) + 1 + B)
           s == EncryptGcm("k", nonce, aad, p)
           w == Combined(s)
<1>1. /\ Outside(p) /\ Clean(p) /\ Len(p) = Len(payload) + 1 /\ Len(payload) \in Nat
      /\ Len(p) + B < 256 /\ Parts(Len(p)) <= Radix - 2
      /\ Unpadded(p) = Ok([typ |-> typ, payload |-> payload])
  BY ContentIs
<1>2. Clean(nonce) /\ Len(nonce) = B - 1
  <2>1. NonceLen("gcm") = B - 1
    BY DEF NonceLen
  <2> QED
    BY <2>1, RecordNonceIs
<1>3. NoProduct(aad) /\ Len(aad) = 2 /\ Len(aad) < 256
  <2>1. NoProduct(aad) /\ Len(aad) = 2
    BY RecordAadIs
  <2> HIDE DEF aad
  <2> QED
    BY <2>1
<1>4. EncryptRecord("gcm", seq, typ, payload) = w
  BY DEF EncryptRecord, EncryptGcmRecord
<1>5. DecryptGcm("k", nonce, aad, s.ct, s.tag) = Ok(p)
  BY <1>1, <1>2, GcmBack
<1> DEFINE len == Len(payload) + 1 + B
<1>6. B \in Nat /\ B >= 3 /\ Len(p) + B = len
  BY <1>1, BlockLen
<1> HIDE DEF p, nonce, aad, s
<1>7. IsSealWire(<< >> \o Combined(s), s, nonce, aad, Len(p), << >>)
  <2>1. PICK head : head = << >>
    OBVIOUS
  <2>2. IsHead(head) /\ Len(head) + Len(p) + B < 256
    BY <1>1, <1>6, <2>1, EmptyHead, Empty
  <2>3. IsSealWire(head \o Combined(EncryptGcm("k", nonce, aad, p)),
                   EncryptGcm("k", nonce, aad, p), nonce, aad, Len(p), head)
    BY <1>1, <1>2, <1>3, <2>2, GcmSealWire
  <2> QED
    BY <2>1, <2>3 DEF s
<1> HIDE DEF w
<1>8. << >> \o Combined(s) = w
  <2>1. IsString(s.ct) /\ IsString(s.tag)
    BY <1>1, <1>2, GcmBack DEF s
  <2>2. IsString(w)
    BY <2>1, Joined DEF w, Combined
  <2> QED
    BY <2>2, JoinEmpty DEF w
<1>9. /\ GcmWire(w, 0, nonce, aad) /\ Len(w) = len
      /\ SubSeq(w, 1, Len(w) - B) = s.ct /\ SubSeq(w, (Len(w) - B) + 1, Len(w)) = s.tag
  <2>1. PICK z : z = Len(<< >>) /\ z = 0 /\ z + 1 = 1
    BY Empty
  <2>2. /\ GcmWire(w, z, nonce, aad) /\ Len(w) = z + Len(p) + B
        /\ SubSeq(w, z + 1, Len(w) - B) = s.ct
        /\ SubSeq(w, (Len(w) - B) + 1, Len(w)) = s.tag
    BY <1>7, <1>8, <2>1 DEF IsSealWire
  <2>3. Len(w) = len
    BY <1>1, <1>6, <2>1, <2>2
  <2> QED
    BY <2>1, <2>2, <2>3
<1> HIDE DEF len
<1>10. aad = RecordAad(Len(w))
  BY <1>9 DEF aad, len
<1>11. DecryptRecord("gcm", seq, w) = Ok([typ |-> typ, payload |-> payload])
  <2>1. PICK n, m : n = Len(w) - B /\ m = Len(w)
    OBVIOUS
  <2>2. ~ (n < 0)
    BY <1>1, <1>6, <1>9, <2>1
  <2>3. SubSeq(w, 1, n) = s.ct /\ SubSeq(w, n + 1, m) = s.tag
    BY <1>9, <2>1
  <2>4. DecryptGcmRecord(seq, w) = Delivered(DecryptGcm("k", nonce, aad, s.ct, s.tag))
    BY <1>10, <2>1, <2>2, <2>3 DEF DecryptGcmRecord, nonce
  <2>5. Delivered(Ok(p)) = Unpadded(p)
    BY DEF Delivered, Ok
  <2> QED
    BY <1>1, <1>5, <2>4, <2>5 DEF DecryptRecord
<1>12. GcmWire(w, 0, nonce, RecordAad(Len(w)))
  BY <1>9, <1>10
<1> QED
  BY <1>4, <1>11, <1>12 DEF nonce

LEMMA GcmRecordOnly ==
  ASSUME NEW W, AreRecords("gcm", W), NEW o \in W \cup Altered(W), NEW seq \in 0..255,
         DecryptRecord("gcm", seq, o).ok
  PROVE  /\ o \in W
         /\ \A s, typ, payload : IsRecord("gcm", s, typ, payload, o) => s = seq
<1> DEFINE nonce == RecordNonce("gcm", seq)
           aad == RecordAad(Len(o))
           d == DecryptGcmRecord(seq, o)
<1>1. ASSUME NEW w, NEW s, NEW typ, NEW payload, IsRecord("gcm", s, typ, payload, w)
      PROVE  GcmWire(w, 0, RecordNonce("gcm", s), RecordAad(Len(w)))
  BY <1>1, GcmRecordIs DEF IsRecord
<1>2. AreGcmWires(W, 0)
  BY <1>1 DEF AreRecords, AreGcmWires
<1>3. \A w \in W : IsWire(w)
  BY <1>2 DEF AreGcmWires, GcmWire
<1>4. Clean(o) /\ IsString(o) /\ Len(o) \in Nat
  BY <1>3, AlteredAre, StringProperties DEF Clean
<1>5. B \in Nat /\ B >= 3
  BY BlockLen
<1>6. PICK n, c, t :
        /\ n = Len(o) - B /\ c = SubSeq(o, 1, Len(o) - B)
        /\ t = SubSeq(o, (Len(o) - B) + 1, Len(o))
  OBVIOUS
<1>7. d.ok /\ d = DecryptRecord("gcm", seq, o)
  BY DEF DecryptRecord
<1>8. ~ (n < 0) /\ d = Delivered(DecryptGcm("k", nonce, aad, c, t))
  <2> HIDE DEF nonce, aad
  <2>1. SubSeq(o, 1, n) = c /\ SubSeq(o, n + 1, Len(o)) = t
    BY <1>6
  <2>2. d = IF n < 0 THEN Err("DecryptError")
            ELSE Delivered(DecryptGcm("k", nonce, aad, c, t))
    BY <1>6, <2>1 DEF DecryptGcmRecord, nonce, aad
  <2> HIDE DEF d
  <2>3. ~ Err("DecryptError").ok
    BY DEF Err
  <2> QED
    BY <1>7, <2>2, <2>3
<1> HIDE DEF d, nonce, aad
<1>9. GcmTag("k", nonce, aad, c) = t
  <2>1. DecryptGcm("k", nonce, aad, c, t).ok
    BY <1>7, <1>8 DEF Delivered, Err
  <2> QED
    BY <2>1 DEF DecryptGcm, OpenedIf, Err
<1>10. Len(o) >= 0 + B
  BY <1>4, <1>5, <1>6, <1>8
<1>11. Clean(nonce) /\ Len(nonce) = B - 1
  <2>1. NonceLen("gcm") = B - 1
    BY DEF NonceLen
  <2> QED
    BY <2>1, RecordNonceIs DEF nonce
<1>12. NoProduct(aad) /\ Len(aad) < 256
  <2>1. NoProduct(aad) /\ Len(aad) = 2
    BY RecordAadIs DEF aad
  <2> QED
    BY <2>1
<1>13. PICK z \in Nat : z = 0 /\ z + 1 = 1
  OBVIOUS
<1>14. GcmOpens(o, z, nonce, aad)
  <2>1. SubSeq(o, z + 1, Len(o) - B) = c /\ Len(o) >= z + B
    BY <1>6, <1>10, <1>13
  <2> QED
    BY <1>6, <1>9, <1>11, <1>12, <2>1 DEF GcmOpens
<1>15. AreGcmWires(W, z)
  BY <1>2, <1>13
<1>16. IsOneOf(o, W, z, nonce, aad)
  BY <1>14, <1>15, GcmOnly
<1>17. PICK w \in W : \A m, a : GcmWire(w, z, m, a) =>
          m = nonce /\ a = aad /\ Len(o) = Len(w) /\ \A i \in (z + 1)..Len(w) : o[i] = w[i]
  BY <1>16 DEF IsOneOf
<1>18. ASSUME NEW s, NEW typ, NEW payload, IsRecord("gcm", s, typ, payload, w)
       PROVE  s = seq
  <2>1. GcmWire(w, z, RecordNonce("gcm", s), RecordAad(Len(w)))
    BY <1>1, <1>13, <1>18
  <2>2. RecordNonce("gcm", s) = RecordNonce("gcm", seq)
    BY <1>17, <2>1 DEF nonce
  <2>3. s \in 0..255
    BY <1>18 DEF IsRecord
  <2> QED
    BY <2>2, <2>3, RecordNonceTells
<1>19. PICK s, typ, payload : IsRecord("gcm", s, typ, payload, w)
  BY DEF AreRecords
<1>20. Len(o) = Len(w) /\ \A i \in 1..Len(o) : o[i] = w[i]
  <2>1. GcmWire(w, z, RecordNonce("gcm", s), RecordAad(Len(w)))
    BY <1>1, <1>13, <1>19
  <2> QED
    BY <1>13, <1>17, <2>1
<1>21. o = w
  <2>1. IsString(w)
    BY <1>3 DEF IsWire, Clean
  <2> QED
    BY <1>4, <1>20, <2>1, SameString
<1> QED
  BY <1>18, <1>21

-----------------------------------------------------------------------------
(* What the MAC of a record takes in.                                      *)

LEMMA PrefixIs ==
  ASSUME NEW l
  PROVE  LET p == CcmPrefix(RecordAad(l))
         IN  /\ IsTaken(p) /\ Len(p) = 3 /\ p[3] = Num(l) /\ 3 <= AadBuf /\ RecordAad(l) # << >>
             /\ Clean(p)
<1> DEFINE a == RecordAad(l)
           s == << Num(Len(a)) >>
           p == s \o a
<1>1. Clean(a) /\ IsString(a) /\ Len(a) = 2 /\ a[1] = Num(2) /\ a[2] = Num(l)
  BY RecordAadIs
<1>2. a # << >>
  BY <1>1, Empty
<1>3. CcmPrefix(a) = p
  BY <1>2 DEF CcmPrefix
<1>4. IsString(s) /\ Len(s) = 1 /\ s[1] = Num(Len(a))
  BY One
<1>5. Clean(s)
  BY <1>4, CleanNum DEF Clean
<1> HIDE DEF a, s
<1>6. Joins(p, s, a)
  BY <1>1, <1>5, JoinedParts
<1> HIDE DEF p
<1>7. Clean(p) /\ Len(p) = 3 /\ p[1] = s[1] /\ p[2] = a[1] /\ p[3] = a[2]
  <2>1. /\ Clean(p) /\ Len(p) = 1 + 2
        /\ \A i \in 1..1 : p[i] = s[i]
        /\ \A i \in 1..2 : p[1 + i] = a[i]
    BY <1>1, <1>4, <1>6 DEF Joins
  <2> QED
    BY <2>1
<1>8. p[1] = Num(Len(a)) /\ p[2] = Num(2) /\ p[3] = Num(l)
  BY <1>1, <1>4, <1>7
<1>9. \A v : \A c \in Num(v) : ~ MacAtom(c)
  BY DEF Num, MacAtom, Made
<1>10. \A j \in 1..3 : \A c \in p[j] : ~ MacAtom(c)
  <2>1. \A j \in 1..3 : j = 1 \/ j = 2 \/ j = 3
    OBVIOUS
  <2> QED
    BY <1>8, <1>9, <2>1
<1>11. 3 \in 1..B /\ 3 <= AadBuf
  BY BlockLen, RecordAssumption, AeadAssumption
<1> QED
  BY <1>2, <1>3, <1>7, <1>8, <1>10, <1>11 DEF a, IsTaken

MacPieces(l, msg) ==
  [i \in 1..(Parts(Len(msg)) + 1) |->
     IF i = 1 THEN CcmPrefix(RecordAad(l)) ELSE Chunks(msg)[i - 1]]
MacFrame(nonce, l, msg) == CcmB0(nonce, RecordAad(l), Len(msg), B)
\* The last block the MAC of msg enciphers.
MacInput(z, nonce, l, msg) ==
  \E y : /\ IsCbcChain(y, MacFrame(nonce, l, msg), MacPieces(l, msg), Parts(Len(msg)) + 1)
         /\ z = y[Parts(Len(msg)) + 1]

LEMMA FrameIs ==
  ASSUME NEW nonce, IsCcmNonce(nonce), NEW l, NEW msg
  PROVE  /\ MacFrame(nonce, l, msg) = Framed(64 + 8 * B + 2, nonce, Len(msg) % LenRadix)
         /\ NotCounter(MacFrame(nonce, l, msg))
         /\ \A a \in MacFrame(nonce, l, msg)[1] : ~ MacAtom(a)
<1>1. MacFrame(nonce, l, msg) = Framed(64 + 8 * B + 2, nonce, Len(msg) % LenRadix)
  BY PrefixIs DEF MacFrame, CcmB0, CcmFlags, Framed
<1> DEFINE v == 64 + 8 * B + 2
           x == MacFrame(nonce, l, msg)
<1>2. v \in 0..255 /\ v # 2
  BY BlockLen, RecordAssumption
<1> HIDE DEF v
<1>3. IsBlock(x) /\ x[1] = Num(v)
  BY <1>1, FramedIs DEF v
<1> HIDE DEF x
<1>4. Value(Num(v)) = v
  BY <1>2, ValueOfNum
<1>5. Value(Num(2)) = 2
  BY ValueOfNum
<1>6. Num(v) # Num(2)
  BY <1>2, <1>4, <1>5
<1>7. \A c \in Num(v) : ~ MacAtom(c)
  BY DEF Num, MacAtom, Made
<1> QED
  BY <1>1, <1>3, <1>6, <1>7 DEF x, v, NotCounter

LEMMA PiecesAre ==
  ASSUME NEW l, NEW msg, Clean(msg)
  PROVE  LET t == MacPieces(l, msg)
             n == Parts(Len(msg))
         IN  /\ n \in Nat /\ t[1] = CcmPrefix(RecordAad(l))
             /\ \A i \in 1..n : t[i + 1] = Chunks(msg)[i]
             /\ \A i \in 1..(n + 1) : Clean(t[i])
<1> DEFINE t == MacPieces(l, msg)
           n == Parts(Len(msg))
<1>1. n \in Nat /\ \A i \in 1..n : Clean(Chunks(msg)[i])
  BY CleanChunks
<1>2. Clean(CcmPrefix(RecordAad(l)))
  BY PrefixIs
<1>3. \A i \in 1..(n + 1) : t[i] = IF i = 1 THEN CcmPrefix(RecordAad(l)) ELSE Chunks(msg)[i - 1]
  BY DEF MacPieces
<1> HIDE DEF t, n
<1>4. t[1] = CcmPrefix(RecordAad(l))
  BY <1>1, <1>3
<1>5. ASSUME NEW i \in 1..n PROVE t[i + 1] = Chunks(msg)[i]
  <2>1. i + 1 \in 1..(n + 1) /\ i + 1 # 1 /\ (i + 1) - 1 = i
    BY <1>1
  <2> QED
    BY <1>3, <2>1
<1>6. ASSUME NEW i \in 1..(n + 1) PROVE Clean(t[i])
  <2>1. CASE i = 1
    BY <1>2, <1>4, <2>1
  <2>2. CASE i # 1
    <3>1. i - 1 \in 1..n
      BY <1>1, <2>2
    <3> QED
      BY <1>1, <1>3, <2>2, <3>1
  <2> QED
    BY <2>1, <2>2
<1> QED
  BY <1>1, <1>4, <1>5, <1>6 DEF t, n

(* The MAC enciphers a last block, that tells what it is made of.          *)
LEMMA CcmMacIs ==
  ASSUME NEW nonce, IsCcmNonce(nonce), NEW l, NEW msg, Clean(msg)
  PROVE  \E z : /\ IsBlock(z) /\ MacInput(z, nonce, l, msg)
                /\ CcmCbcMac("k", nonce, RecordAad(l), msg, B) = Ok(E("k", z))
<1> DEFINE b == MacFrame(nonce, l, msg)
           p == CcmPrefix(RecordAad(l))
           c == Chunks(msg)
           n == Parts(Len(msg))
           t == MacPieces(l, msg)
           x == XorInto(E("k", b), p)
           y == AbsorbSeq(n, E("k", x), "k", c)
           z == [i \in 0..(n + 1) |-> IF i = 0 THEN b ELSE IF i = 1 THEN x
                                      ELSE XorInto(y[i - 2], c[i - 1])]
<1>1. /\ n \in Nat /\ t[1] = p /\ (\A i \in 1..n : t[i + 1] = c[i])
      /\ \A i \in 1..(n + 1) : Clean(t[i])
  BY PiecesAre
<1>2. Len(c) = n
  BY CleanChunks
<1>3. Len(p) = 3 /\ 3 <= AadBuf /\ Clean(p) /\ Len(p) \in 1..B /\ ~ (Len(p) > AadBuf)
  <2>1. Len(p) = 3 /\ 3 <= AadBuf /\ Clean(p) /\ IsTaken(p)
    BY PrefixIs
  <2> HIDE DEF p
  <2> QED
    BY <2>1, AeadAssumption DEF IsTaken
<1>4. IsBlock(b)
  BY FrameIs DEF NotCounter
<1>5. Len(Chunks(p)) = 1 /\ Chunks(p)[1] = p
  BY <1>3, ShortChunk
<1>6. AbsorbE("k", E("k", b), p) = E("k", x)
  <2> DEFINE u == AbsorbSeq(1, E("k", b), "k", Chunks(p))
  <2>1. u[0] = E("k", b) /\ \A i \in 1..1 : u[i] = E("k", XorInto(u[i - 1], Chunks(p)[i]))
    BY AbsorbSteps
  <2>2. AbsorbE("k", E("k", b), p) = u[1]
    BY <1>5 DEF AbsorbE, Absorb, AbsorbSeq
  <2> HIDE DEF u, p, b
  <2>3. u[1] = E("k", XorInto(u[0], Chunks(p)[1]))
    BY <2>1
  <2> QED
    BY <1>5, <2>1, <2>2, <2>3
<1>7. AbsorbE("k", E("k", x), msg) = y[n]
  BY <1>2 DEF AbsorbE, Absorb, AbsorbSeq
<1>8. CcmCbcMac("k", nonce, RecordAad(l), msg, B) = Ok(y[n])
  <2>1. CcmCbcMac("k", nonce, RecordAad(l), msg, B)
          = Ok(AbsorbE("k", AbsorbE("k", E("k", b), p), msg))
    BY <1>3 DEF CcmCbcMac, AbsorbE, MacFrame
  <2> QED
    BY <1>6, <1>7, <2>1
<1> HIDE DEF c, n, t, b, p
<1>9. y[0] = E("k", x) /\ \A i \in 1..n : y[i] = E("k", XorInto(y[i - 1], c[i]))
  <2>1. PICK g, k : g = E("k", x) /\ k = "k"
    OBVIOUS
  <2> DEFINE v == AbsorbSeq(n, g, k, c)
  <2>2. v[0] = g /\ \A i \in 1..n : v[i] = E(k, XorInto(v[i - 1], c[i]))
    <3>1. n \in Nat
      BY <1>1
    <3> HIDE DEF x, y
    <3> QED
      BY <3>1, AbsorbSteps
  <2>3. y = v
    BY <2>1
  <2> HIDE DEF v, y
  <2> QED
    BY <2>1, <2>2, <2>3
<1> HIDE DEF y, x
<1>10. /\ z[0] = b /\ z[1] = x
       /\ \A i \in 1..n : z[i + 1] = XorInto(y[i - 1], c[i])
  <2>1. z[0] = b /\ z[1] = x
    BY <1>1
  <2>2. ASSUME NEW i \in 1..n PROVE z[i + 1] = XorInto(y[i - 1], c[i])
    <3>1. i + 1 \in 0..(n + 1) /\ i + 1 # 0 /\ i + 1 # 1 /\ (i + 1) - 2 = i - 1 /\ (i + 1) - 1 = i
      BY <1>1
    <3> QED
      BY <3>1
  <2> QED
    BY <2>1, <2>2
<1> HIDE DEF z
<1>11. \A i \in 0..n : y[i] = E("k", z[i + 1])
  <2> TAKE i \in 0..n
  <2>1. CASE i = 0
    BY <1>9, <1>10, <2>1
  <2>2. CASE i \in 1..n
    BY <1>9, <1>10, <2>2
  <2> QED
    BY <1>1, <2>1, <2>2
<1>12. IsCbcChain(z, b, t, n + 1)
  <2>1. ASSUME NEW i \in 1..(n + 1) PROVE z[i] = XorInto(E("k", z[i - 1]), t[i])
    <3>1. CASE i = 1
      BY <1>1, <1>10, <3>1 DEF x
    <3>2. CASE i # 1
      <4>1. PICK j \in 1..n : i = j + 1 /\ i - 1 = j
        <5>1. i - 1 \in 1..n /\ i = (i - 1) + 1
          BY <1>1, <3>2
        <5> QED
          BY <5>1
      <4>2. j - 1 \in 0..n /\ (j - 1) + 1 = j
        BY <1>1
      <4>3. z[j + 1] = XorInto(y[j - 1], c[j]) /\ y[j - 1] = E("k", z[j]) /\ t[j + 1] = c[j]
        BY <1>1, <1>10, <1>11, <4>2
      <4> QED
        BY <4>1, <4>3
    <3> QED
      BY <3>1, <3>2
  <2>2. n + 1 \in Nat
    BY <1>1
  <2> QED
    BY <1>10, <2>1, <2>2 DEF IsCbcChain
<1>13. \A i \in 0..(n + 1) : IsBlock(z[i])
  BY <1>1, <1>4, <1>12, ChainClean
<1>14. n + 1 \in 0..(n + 1) /\ n \in 0..n
  BY <1>1
<1>15. y[n] = E("k", z[n + 1]) /\ IsBlock(z[n + 1])
  BY <1>11, <1>13, <1>14
<1>16. MacInput(z[n + 1], nonce, l, msg)
  BY <1>12 DEF MacInput, n, b, t
<1> QED
  BY <1>8, <1>15, <1>16

LEMMA MacGood ==
  ASSUME NEW nonce, IsCcmNonce(nonce), NEW l, NEW msg, Unmade(msg)
  PROVE  ChainGood(MacFrame(nonce, l, msg), MacPieces(l, msg), Parts(Len(msg)) + 1)
<1> DEFINE t == MacPieces(l, msg)
           n == Parts(Len(msg))
<1>1. Clean(msg)
  BY DEF Unmade
<1>2. n \in Nat /\ t[1] = CcmPrefix(RecordAad(l)) /\ \A i \in 1..n : t[i + 1] = Chunks(msg)[i]
  BY <1>1, PiecesAre
<1>3. IsTaken(t[1])
  BY <1>2, PrefixIs
<1>4. \A i \in 1..n : IsTaken(Chunks(msg)[i])
  BY UnmadeChunks
<1> HIDE DEF t, n
<1>5. ASSUME NEW i \in 1..(n + 1) PROVE IsTaken(t[i])
  <2>1. CASE i = 1
    BY <1>3, <2>1
  <2>2. CASE i # 1
    <3>1. i - 1 \in 1..n /\ (i - 1) + 1 = i
      BY <1>2, <2>2
    <3> QED
      BY <1>2, <1>4, <3>1
  <2> QED
    BY <2>1, <2>2
<1>6. NotCounter(MacFrame(nonce, l, msg)) /\ \A a \in MacFrame(nonce, l, msg)[1] : ~ MacAtom(a)
  BY FrameIs
<1> QED
  BY <1>2, <1>5, <1>6 DEF ChainGood, t, n

LEMMA MacInputShows ==
  ASSUME NEW nonce, IsCcmNonce(nonce), NEW l, NEW msg, Unmade(msg),
         NEW z, MacInput(z, nonce, l, msg)
  PROVE  NotCounter(z)
<1> DEFINE n == Parts(Len(msg)) + 1
<1>1. PICK y : IsCbcChain(y, MacFrame(nonce, l, msg), MacPieces(l, msg), n) /\ z = y[n]
  BY DEF MacInput
<1>2. \A i \in 0..n : NotCounter(y[i])
  BY <1>1, MacGood, ChainBlocks
<1>3. n \in 0..n
  BY <1>1 DEF IsCbcChain
<1> QED
  BY <1>1, <1>2, <1>3

IsMacOf(z, nonce, l, p) ==
  IsCcmNonce(nonce) /\ l \in 0..255 /\ Unmade(p) /\ MacInput(z, nonce, l, p)

LEMMA MacInputTells ==
  ASSUME NEW z, NEW m, NEW l, NEW p, IsMacOf(z, m, l, p), NEW n, NEW k, NEW q, IsMacOf(z, n, k, q)
  PROVE  l = k /\ (Len(p) = Len(q) => p = q)
<1>0. /\ IsCcmNonce(m) /\ l \in 0..255 /\ Unmade(p) /\ MacInput(z, m, l, p)
      /\ IsCcmNonce(n) /\ k \in 0..255 /\ Unmade(q) /\ MacInput(z, n, k, q)
  BY DEF IsMacOf
<1> DEFINE a == Parts(Len(p)) + 1
           b == Parts(Len(q)) + 1
           t == MacPieces(l, p)
           u == MacPieces(k, q)
<1>1. PICK y : IsCbcChain(y, MacFrame(m, l, p), t, a) /\ z = y[a]
  BY <1>0 DEF MacInput
<1>2. PICK x : IsCbcChain(x, MacFrame(n, k, q), u, b) /\ z = x[b]
  BY <1>0 DEF MacInput
<1>3. ChainGood(MacFrame(m, l, p), t, a) /\ ChainGood(MacFrame(n, k, q), u, b)
  BY <1>0, MacGood
<1>4. a \in Nat /\ b \in Nat
  BY <1>1, <1>2 DEF IsCbcChain
<1> HIDE DEF t, u, a, b
<1>5. a = b /\ \A i \in 1..a : \A j \in 1..B : ByteAt(t[i], j) = ByteAt(u[i], j)
  <2> DEFINE f == MacFrame(m, l, p)
             g == MacFrame(n, k, q)
  <2>1. /\ IsCbcChain(y, f, t, a) /\ ChainGood(f, t, a)
        /\ IsCbcChain(x, g, u, b) /\ ChainGood(g, u, b)
        /\ y[a] = x[b]
    BY <1>1, <1>2, <1>3
  <2> HIDE DEF f, g
  <2>2. CASE a <= b
    <3>1. a = b /\ SamePieces(t, u, a)
      BY <2>1, <2>2, ChainTellsLong
    <3> QED
      BY <3>1 DEF SamePieces
  <2>3. CASE b <= a
    <3>1. x[b] = y[a]
      BY <2>1
    <3>2. b = a /\ SamePieces(u, t, b)
      BY <2>1, <2>3, <3>1, ChainTellsLong
    <3> QED
      BY <3>2 DEF SamePieces
  <2> QED
    BY <1>4, <2>2, <2>3
<1>6. Clean(p) /\ Clean(q)
  BY <1>0 DEF Unmade
<1>7. /\ a = Parts(Len(p)) + 1 /\ Parts(Len(p)) \in Nat /\ t[1] = CcmPrefix(RecordAad(l))
      /\ \A i \in 1..Parts(Len(p)) : t[i + 1] = Chunks(p)[i]
  BY <1>6, PiecesAre DEF t, a
<1>8. /\ b = Parts(Len(q)) + 1 /\ Parts(Len(q)) \in Nat /\ u[1] = CcmPrefix(RecordAad(k))
      /\ \A i \in 1..Parts(Len(q)) : u[i + 1] = Chunks(q)[i]
  BY <1>6, PiecesAre DEF u, b
<1>9. l = k
  <2>1. 1 \in 1..a /\ 3 \in 1..B
    BY <1>7, BlockLen
  <2>2. t[1][3] = Num(l) /\ Len(t[1]) = 3
    BY <1>7, PrefixIs
  <2>3. u[1][3] = Num(k) /\ Len(u[1]) = 3
    BY <1>8, PrefixIs
  <2>4. Num(l) = Num(k)
    <3>1. ByteAt(t[1], 3) = ByteAt(u[1], 3)
      BY <1>5, <2>1
    <3>2. 3 <= Len(t[1]) /\ 3 <= Len(u[1])
      BY <2>2, <2>3
    <3> QED
      BY <2>2, <2>3, <3>1, <3>2 DEF ByteAt
  <2>5. Value(Num(l)) = l
    BY <1>0, ValueOfNum
  <2>6. Value(Num(k)) = k
    BY <1>0, ValueOfNum
  <2> QED
    BY <2>4, <2>5, <2>6
<1>10. ASSUME Len(p) = Len(q) PROVE p = q
  <2>1. IsString(p) /\ IsString(q) /\ Len(p) \in Nat
    BY <1>6, StringProperties DEF Clean
  <2>2. \A i \in 1..Parts(Len(p)) : \A j \in 1..PartLen(i, Len(p)) :
          Chunks(p)[i][j] = p[Off(i - 1) + j] /\ Len(Chunks(p)[i]) = PartLen(i, Len(p))
    BY <1>6, <2>1, ChunksAre, CleanChunks
  <2>3. \A i \in 1..Parts(Len(q)) : \A j \in 1..PartLen(i, Len(q)) :
          Chunks(q)[i][j] = q[Off(i - 1) + j] /\ Len(Chunks(q)[i]) = PartLen(i, Len(q))
    BY <1>6, <2>1, ChunksAre, CleanChunks
  <2>4. ASSUME NEW i \in 1..Len(p) PROVE p[i] = q[i]
    <3>1. PICK g \in 1..Parts(Len(p)) : \E j \in 1..PartLen(g, Len(p)) : i = Off(g - 1) + j
      BY <2>1, PartPlace
    <3>2. PICK j \in 1..PartLen(g, Len(p)) : i = Off(g - 1) + j
      BY <3>1
    <3>3. g + 1 \in 1..a /\ PartLen(g, Len(p)) \in 1..B
      BY <1>7, <2>1, PartsAre
    <3>4. j \in 1..B
      BY <3>3, BlockLen
    <3>5. ByteAt(t[g + 1], j) = ByteAt(u[g + 1], j)
      BY <1>5, <3>3, <3>4
    <3>6. t[g + 1] = Chunks(p)[g] /\ u[g + 1] = Chunks(q)[g]
      BY <1>7, <1>8, <1>10
    <3>7. Chunks(p)[g][j] = p[i] /\ Len(Chunks(p)[g]) = PartLen(g, Len(p))
      BY <2>2, <3>2
    <3>8. Chunks(q)[g][j] = q[i] /\ Len(Chunks(q)[g]) = PartLen(g, Len(p))
      BY <1>10, <2>3, <3>2
    <3>9. j <= PartLen(g, Len(p))
      BY <3>3
    <3> QED
      BY <3>5, <3>6, <3>7, <3>8, <3>9 DEF ByteAt
  <2> QED
    BY <1>10, <2>1, <2>4, SameString
<1> QED
  BY <1>9, <1>10

-----------------------------------------------------------------------------
(* What CCM seals, and what opens as if it had.                            *)

CcmShape(w, nonce, p, z) ==
  /\ Clean(w) /\ IsCcmNonce(nonce) /\ Clean(p) /\ Len(w) = Len(p) + B
  /\ SubSeq(w, 1, Len(p)) = CcmStream(nonce, p)
  /\ CcmStream(nonce, SubSeq(w, 1, Len(p))) = p
  /\ IsBlock(z) /\ MacInput(z, nonce, Len(w), p)
  /\ \A j \in 1..B : w[Len(p) + j] = TagByte(z, nonce, j)

(* What opens has the shape of what was sealed.                            *)
LEMMA CcmOpenedIs ==
  ASSUME NEW nonce, IsCcmNonce(nonce), NEW w, Clean(w), Len(w) >= B,
         DecryptCcm("k", nonce, RecordAad(Len(w)), w, B).ok
  PROVE  LET p == DecryptCcm("k", nonce, RecordAad(Len(w)), w, B).val
         IN  \E z : CcmShape(w, nonce, p, z)
<1> DEFINE n == Len(w) - B
           c == SubSeq(w, 1, n)
           t == SubSeq(w, Len(c) + 1, Len(w))
           a == RecordAad(Len(w))
           p == CcmStream(nonce, c)
           auth == CcmCbcMac("k", nonce, a, p, B)
           r == DecryptCcm("k", nonce, a, w, B)
<1>1. IsString(w) /\ Len(w) \in Nat /\ B \in Nat /\ B >= 3 /\ n \in Nat /\ n + B = Len(w)
  BY StringProperties, BlockLen, SMTT(30) DEF Clean
<1>2. n <= Len(w) /\ 1 <= n + 1 /\ n - 1 + 1 = n /\ 1 \in Nat \ {0}
  BY <1>1, SMTT(30)
<1>3. Clean(c) /\ Len(c) = n
  BY <1>1, <1>2, CleanPart
<1>4. r = CcmOpened("k", nonce, p, t, B, auth)
  <2>1. ~ (Len(w) < B)
    BY <1>1
  <2> QED
    BY <2>1 DEF DecryptCcm, CcmOpenedOf, CcmStream
<1>5. \A i \in 1..B : t[i] = w[n + i]
  <2>1. /\ n + 1 \in Nat \ {0} /\ Len(w) <= Len(w) /\ n + 1 <= Len(w) + 1
        /\ Len(w) - (n + 1) + 1 = B
    BY <1>1
  <2>2. \A i \in 1..(Len(w) - (n + 1) + 1) : SubSeq(w, n + 1, Len(w))[i] = w[(n + 1) + i - 1]
    BY <1>1, <2>1, PartIs
  <2>3. \A i \in 1..B : (n + 1) + i - 1 = n + i
    BY <1>1
  <2> QED
    BY <1>3, <2>1, <2>2, <2>3
<1> HIDE DEF n, c, t
<1>6. Clean(p) /\ Len(p) = n /\ CcmStream(nonce, p) = c
  BY <1>3, CcmStreamIs
<1> HIDE DEF p
<1>7. PICK z : IsBlock(z) /\ MacInput(z, nonce, Len(w), p) /\ auth = Ok(E("k", z))
  BY <1>6, CcmMacIs
<1> HIDE DEF auth
<1>8. r = OpenedIf(CcmTag("k", nonce, E("k", z), B) = t, p, "AuthTagMismatch")
  BY <1>4, <1>7 DEF CcmOpened, Ok
<1>9. CcmTag("k", nonce, E("k", z), B) = t /\ r.val = p
  BY <1>8 DEF OpenedIf, Err, Ok
<1>10. \A j \in 1..B : t[j] = TagByte(z, nonce, j)
  BY <1>7, <1>9, CcmTagIs
<1>11. \A j \in 1..B : w[Len(p) + j] = TagByte(z, nonce, j)
  BY <1>5, <1>6, <1>10
<1>12. Len(w) = Len(p) + B
  BY <1>1, <1>6
<1>13. SubSeq(w, 1, Len(p)) = c
  BY <1>6 DEF c, n
<1>14. CcmShape(w, nonce, p, z)
  BY <1>6, <1>7, <1>11, <1>12, <1>13 DEF CcmShape, p
<1> QED
  BY <1>9, <1>14

CcmWire(w, nonce, p, z) == CcmShape(w, nonce, p, z) /\ Outside(p) /\ Len(w) < 256
AreCcmWires(W) == \A w \in W : \E nonce, p, z : CcmWire(w, nonce, p, z)

(* The bytes of what was sealed.                                           *)
LEMMA CcmWireIs ==
  ASSUME NEW w, NEW nonce, NEW p, NEW z, CcmWire(w, nonce, p, z)
  PROVE  /\ IsWire(w) /\ Len(w) \in Nat /\ Len(p) \in Nat /\ NotCounter(z)
         /\ z # CcmA(nonce, 0)
         /\ \A i \in 1..Len(p) : IsMasked(w[i], p[i])
<1>1. /\ Clean(w) /\ IsCcmNonce(nonce) /\ Clean(p) /\ Len(w) = Len(p) + B
      /\ SubSeq(w, 1, Len(p)) = CcmStream(nonce, p) /\ MacInput(z, nonce, Len(w), p)
      /\ Outside(p)
  BY DEF CcmWire, CcmShape
<1>2. IsString(w) /\ Len(w) \in Nat /\ Len(p) \in Nat /\ B \in Nat
  BY <1>1, StringProperties, BlockLen DEF Clean
<1>3. IsWire(w)
  BY <1>1, <1>2 DEF IsWire
<1>4. NotCounter(z)
  <2>1. \A i \in 1..Len(p) : \A a \in p[i] : ~ MacAtom(a)
    BY <1>1 DEF Outside, FromOutside, MacAtom, Made
  <2>2. Unmade(p)
    BY <1>1, <2>1 DEF Unmade
  <2> QED
    BY <1>1, <2>2, MacInputShows
<1>5. z # CcmA(nonce, 0)
  BY <1>1, <1>4, CcmAIs DEF NotCounter, IsCounter
<1>6. \A i \in 1..Len(p) : SubSeq(w, 1, Len(p))[i] = w[i]
  <2>1. /\ 1 \in Nat \ {0} /\ Len(p) <= Len(w) /\ 1 <= Len(p) + 1 /\ Len(p) - 1 + 1 = Len(p)
        /\ \A i \in 1..Len(p) : 1 + i - 1 = i
    BY <1>1, <1>2
  <2>2. \A i \in 1..(Len(p) - 1 + 1) : SubSeq(w, 1, Len(p))[i] = w[1 + i - 1]
    BY <1>2, <2>1, PartIs
  <2> QED
    BY <2>1, <2>2
<1>7. \A i \in 1..Len(p) : IsMasked(CcmStream(nonce, p)[i], p[i])
  BY <1>1, CcmStreamIs
<1>8. \A i \in 1..Len(p) : IsMasked(w[i], p[i])
  BY <1>1, <1>6, <1>7
<1> QED
  BY <1>2, <1>3, <1>4, <1>5, <1>8

(* Nothing that ends in a byte from elsewhere opens.                       *)
LEMMA CcmNotDisplaced ==
  ASSUME NEW W, AreCcmWires(W), NEW o, Displaced(o, W),
         NEW nonce, NEW p, NEW z, CcmShape(o, nonce, p, z)
  PROVE  FALSE
<1> DEFINE last == TagByte(z, nonce, B)
           a == Made("k", z, B)
           b == Made("k", CcmA(nonce, 0), B)
<1>1. /\ Clean(o) /\ IsCcmNonce(nonce) /\ Clean(p) /\ Len(o) = Len(p) + B /\ IsBlock(z)
      /\ \A j \in 1..B : o[Len(p) + j] = TagByte(z, nonce, j)
  BY DEF CcmShape
<1>2. Len(p) \in Nat /\ Len(o) \in Nat /\ B \in Nat /\ B >= 3
  BY <1>1, StringProperties, BlockLen DEF Clean
<1>3. o[Len(o)] = last
  BY <1>1, <1>2
<1>4. /\ \A e \in last : e[1] = "E" /\ e[4] = B
      /\ last = {} => z = CcmA(nonce, 0)
      /\ z # CcmA(nonce, 0) => a \in last /\ b \in last /\ a # b
  BY <1>1, TagByteIs
<1>5. last # {} => a \in last /\ b \in last /\ a # b
  <2>1. z = CcmA(nonce, 0) => last = {}
    BY <1>1, TagByteIs
  <2> QED
    BY <1>4, <2>1
<1> HIDE DEF last, a, b
<1>6. CASE o[Len(o)] = X
  <2>1. << "x", 0 >> \in last
    BY <1>3, <1>6 DEF X
  <2> QED
    BY <1>4, <2>1
<1>7. CASE \E w \in W : /\ Len(o) = Len(w) + 1 /\ o[Len(o)] = Zero
                        /\ \A i \in 1..Len(w) : o[i] = w[i]
  <2>1. PICK w \in W : /\ Len(o) = Len(w) + 1 /\ o[Len(o)] = Zero
                       /\ \A i \in 1..Len(w) : o[i] = w[i]
    BY <1>7
  <2>2. PICK n, q, y : CcmWire(w, n, q, y)
    BY DEF AreCcmWires
  <2>3. /\ IsCcmNonce(n) /\ Len(w) = Len(q) + B /\ IsBlock(y)
        /\ \A j \in 1..B : w[Len(q) + j] = TagByte(y, n, j)
    BY <2>2 DEF CcmWire, CcmShape
  <2>4. Len(w) \in Nat /\ Len(q) \in Nat /\ y # CcmA(n, 0)
    BY <2>2, CcmWireIs
  <2>5. z = CcmA(nonce, 0)
    BY <1>3, <1>4, <2>1 DEF Zero
  <2>6. TagByte(z, nonce, B - 1) = {}
    BY <1>1, <2>5, TagByteIs
  <2>7. o[Len(w)] = {}
    <3>1. B - 1 \in 1..B /\ Len(p) + (B - 1) = Len(w)
      BY <1>1, <1>2, <2>1, <2>4
    <3> QED
      BY <1>1, <2>6, <3>1
  <2>8. o[Len(w)] = TagByte(y, n, B)
    <3>1. Len(w) \in 1..Len(w) /\ B \in 1..B /\ Len(q) + B = Len(w)
      BY <1>2, <2>3, <2>4
    <3> QED
      BY <2>1, <2>3, <3>1
  <2>9. TagByte(y, n, B) # {}
    BY <2>3, <2>4, TagByteIs
  <2> QED
    BY <2>7, <2>8, <2>9
<1>8. CASE \E w \in W : \E i \in 1..(Len(w) - 1) : o[Len(o)] = w[i]
  <2>1. PICK w \in W : \E i \in 1..(Len(w) - 1) : o[Len(o)] = w[i]
    BY <1>8
  <2>2. PICK i \in 1..(Len(w) - 1) : last = w[i]
    BY <1>3, <2>1
  <2>3. PICK n, q, y : CcmWire(w, n, q, y)
    BY DEF AreCcmWires
  <2>4. /\ IsCcmNonce(n) /\ Len(w) = Len(q) + B /\ IsBlock(y) /\ Outside(q)
        /\ \A j \in 1..B : w[Len(q) + j] = TagByte(y, n, j)
    BY <2>3 DEF CcmWire, CcmShape
  <2>5. Len(w) \in Nat /\ Len(q) \in Nat /\ y # CcmA(n, 0)
    BY <2>3, CcmWireIs
  <2>6. CASE i \in 1..Len(q)
    <3>1. PICK m, j : w[i] = SymDiff(q[i], {Made("k", m, j)})
      <4>1. IsMasked(w[i], q[i])
        BY <2>3, <2>6, CcmWireIs
      <4> QED
        BY <4>1 DEF IsMasked
    <3>2. \A e \in q[i] : e[1] # "E"
      BY <2>4, <2>6 DEF Outside, FromOutside
    <3>3. Made("k", m, j)[1] = "E"
      BY DEF Made
    <3> DEFINE c == Made("k", m, j)
    <3> HIDE DEF c
    <3>4. c \in w[i] /\ \A e \in w[i] : e[1] = "E" => e = c
      BY <3>1, <3>2, <3>3 DEF SymDiff, c
    <3> QED
      BY <1>4, <1>5, <2>2, <3>4
  <2>7. CASE i \notin 1..Len(q)
    <3>1. PICK j \in 1..(B - 1) : i = Len(q) + j
      <4>1. i - Len(q) \in 1..(B - 1) /\ i = Len(q) + (i - Len(q))
        BY <1>2, <2>4, <2>5, <2>7
      <4> QED
        BY <4>1
    <3>2. w[i] = TagByte(y, n, j) /\ j # B
      BY <1>2, <2>4, <3>1
    <3>3. Made("k", y, j) \in w[i]
      BY <2>4, <2>5, <3>2, TagByteIs
    <3>4. Made("k", y, j)[4] = j
      BY DEF Made
    <3> QED
      BY <1>4, <2>2, <3>2, <3>3, <3>4
  <2> QED
    BY <2>6, <2>7
<1> QED
  BY <1>6, <1>7, <1>8 DEF Displaced

(* What is near two wires and opens is the one whose tag it has.           *)
LEMMA CcmNearTells ==
  ASSUME NEW o, NEW nonce, NEW p, NEW z, CcmShape(o, nonce, p, z),
         NEW v, NEW m, NEW q, NEW y, CcmWire(v, m, q, y),
         NEW w, NEW n, NEW r, NEW x, CcmWire(w, n, r, x), Near(o, v, w)
  PROVE  o = w /\ nonce = n
<1>1. /\ Clean(o) /\ IsCcmNonce(nonce) /\ Clean(p) /\ Len(o) = Len(p) + B /\ IsBlock(z)
      /\ SubSeq(o, 1, Len(p)) = CcmStream(nonce, p)
      /\ CcmStream(nonce, SubSeq(o, 1, Len(p))) = p /\ MacInput(z, nonce, Len(o), p)
      /\ \A j \in 1..B : o[Len(p) + j] = TagByte(z, nonce, j)
  BY DEF CcmShape
<1>2. /\ Clean(w) /\ IsCcmNonce(n) /\ Clean(r) /\ Len(w) = Len(r) + B /\ IsBlock(x)
      /\ SubSeq(w, 1, Len(r)) = CcmStream(n, r) /\ MacInput(x, n, Len(w), r)
      /\ (\A j \in 1..B : w[Len(r) + j] = TagByte(x, n, j)) /\ Outside(r) /\ Len(w) < 256
  BY DEF CcmWire, CcmShape
<1>3. Len(v) = Len(q) + B /\ Outside(q) /\ Len(v) < 256
  BY DEF CcmWire, CcmShape
<1>4. /\ Len(w) \in Nat /\ Len(r) \in Nat /\ NotCounter(x) /\ x # CcmA(n, 0)
      /\ Len(v) \in Nat /\ Len(q) \in Nat
  BY CcmWireIs
<1>5. \A i \in 1..Len(q) : IsMasked(v[i], q[i])
  BY CcmWireIs, SMTT(30)
<1>6. /\ Len(o) = Len(v)
      /\ \A i \in 1..(Len(v) - B) : OrFlipped(o[i], v[i])
      /\ \A i \in 1..B : OrFlipped(o[(Len(v) - B) + i], w[(Len(w) - B) + i])
  BY SMTT(30) DEF Near
<1>7. /\ B \in Nat /\ B >= 3 /\ Len(p) \in Nat /\ Len(p) = Len(q) /\ Len(v) - B = Len(p)
      /\ Len(w) - B = Len(r) /\ Len(o) \in 0..255 /\ Len(w) \in 0..255
  <2>1. B \in Nat /\ B >= 3 /\ Len(p) \in Nat
    BY <1>1, StringProperties, BlockLen DEF Clean
  <2>2. Len(o) = Len(p) + B /\ Len(w) = Len(r) + B /\ Len(w) < 256 /\ Len(o) = Len(v)
    BY <1>1, <1>2, <1>6
  <2>3. Len(v) = Len(q) + B /\ Len(v) < 256 /\ Len(q) \in Nat /\ Len(r) \in Nat
    BY <1>3, <1>4
  <2>4. Len(p) = Len(q) /\ Len(v) - B = Len(p) /\ Len(w) - B = Len(r)
    BY <2>1, <2>2, <2>3
  <2>5. Len(o) \in 0..255 /\ Len(w) \in 0..255
    <3>1. \A e : e \in Nat /\ e < 256 => e \in 0..255
      OBVIOUS
    <3>2. Len(o) \in Nat /\ Len(w) \in Nat
      BY <1>4, <2>2
    <3>3. Len(o) < 256 /\ Len(w) < 256
      BY <2>2, <2>3
    <3> QED
      BY <3>1, <3>2, <3>3
  <2> QED
    BY <2>1, <2>4, <2>5
<1>8. \A j \in 1..B : TagByte(z, nonce, j) = TagByte(x, n, j)
  <2> TAKE j \in 1..B
  <2> DEFINE s == TagByte(z, nonce, j)
             t == TagByte(x, n, j)
  <2>1. OrFlipped(s, t)
    BY <1>1, <1>2, <1>6, <1>7
  <2>2. (\A e \in s : e[1] = "E") /\ \A e \in t : e[1] = "E"
    BY <1>1, <1>2, TagByteIs
  <2> HIDE DEF s, t
  <2>3. ASSUME s = SymDiff(t, X) PROVE FALSE
    <3>1. << "x", 0 >>[1] # "E"
      OBVIOUS
    <3>2. << "x", 0 >> \in s
      BY <2>2, <2>3, <3>1 DEF SymDiff, X
    <3> QED
      BY <2>2, <3>1, <3>2
  <2> QED
    BY <2>1, <2>3 DEF OrFlipped, s, t
<1>9. Unmade(p)
  <2>1. ASSUME NEW i \in 1..Len(p), NEW a \in p[i] PROVE ~ MacAtom(a)
    <3>1. OrFlipped(o[i], v[i])
      BY <1>6, <1>7, SMTT(30)
    <3>2. PICK c, j : IsCounter(c) /\ v[i] = SymDiff(q[i], {Made("k", c, j)})
      BY <1>5, <1>7 DEF IsMasked
    <3>3. PICK d, l : IsCounter(d) /\ p[i] = SymDiff(o[i], {Made("k", d, l)})
      <4> DEFINE f == SubSeq(o, 1, Len(p))
      <4>1. /\ 1 \in Nat \ {0} /\ Len(p) <= Len(o) /\ 1 <= Len(p) + 1 /\ Len(p) - 1 + 1 = Len(p)
            /\ \A k \in 1..Len(p) : 1 + k - 1 = k
        BY <1>1, <1>7
      <4>2. \A k \in 1..(Len(p) - 1 + 1) : f[k] = o[1 + k - 1]
        BY <1>1, <4>1, PartIs DEF Clean
      <4>3. Clean(f) /\ Len(f) = Len(p)
        BY <1>1, CcmStreamIs, ZenonT(60)
      <4> HIDE DEF f
      <4>4. \A k \in 1..Len(f) : IsMasked(CcmStream(nonce, f)[k], f[k])
        BY <1>1, <4>3, CcmStreamIs
      <4>5. CcmStream(nonce, f) = p
        BY <1>1 DEF f
      <4>6. f[i] = o[i]
        BY <4>1, <4>2
      <4> QED
        BY <4>3, <4>4, <4>5, <4>6 DEF IsMasked
    <3>4. ~ MacAtom(Made("k", c, j)) /\ ~ MacAtom(Made("k", d, l))
      BY <3>2, <3>3, CounterAtom, SMTT(30)
    <3>5. \A e \in q[i] : ~ MacAtom(e)
      BY <1>3, <1>7 DEF Outside, FromOutside, MacAtom, Made
    <3>6. ~ MacAtom(<< "x", 0 >>)
      BY DEF MacAtom, Made
    <3>7. \A e \in v[i] : ~ MacAtom(e)
      BY <3>2, <3>4, <3>5 DEF SymDiff
    <3>8. \A e \in o[i] : ~ MacAtom(e)
      BY <3>1, <3>6, <3>7 DEF OrFlipped, SymDiff, X
    <3> QED
      BY <3>3, <3>4, <3>8, SMTT(30) DEF SymDiff
  <2> QED
    BY <1>1, <2>1, SMTT(30) DEF Unmade
<1>10. NotCounter(z) /\ z # CcmA(nonce, 0)
  <2>1. NotCounter(z)
    BY <1>1, <1>9, MacInputShows
  <2> QED
    BY <1>1, <2>1, CcmAIs DEF NotCounter, IsCounter
<1>11. z = x /\ CcmA(nonce, 0) = CcmA(n, 0)
  <2> DEFINE c == CcmA(nonce, 0)
             d == CcmA(n, 0)
  <2>1. 1 \in 1..B /\ IsCounter(c) /\ IsCounter(d)
    BY <1>1, <1>2, <1>7, CcmAIs
  <2>2. IsString(z) /\ IsString(x) /\ IsString(c) /\ IsString(d) /\ c # x /\ d # z
    BY <1>4, <1>10, <2>1 DEF NotCounter, IsCounter, IsBlock, Clean
  <2>3. Made("k", z, 1) \in TagByte(z, nonce, 1) /\ Made("k", c, 1) \in TagByte(z, nonce, 1)
    BY <1>1, <1>10, TagByteIs
  <2>4. \A e \in TagByte(x, n, 1) : e = Made("k", x, 1) \/ e = Made("k", d, 1)
    BY <1>2, TagByteIs
  <2>5. TagByte(z, nonce, 1) = TagByte(x, n, 1)
    BY <1>8, <2>1
  <2> HIDE DEF c, d
  <2>6. Made("k", z, 1) # Made("k", d, 1) /\ Made("k", c, 1) # Made("k", x, 1)
    BY <2>2, MadeTells
  <2>7. Made("k", z, 1) = Made("k", x, 1) /\ Made("k", c, 1) = Made("k", d, 1)
    BY <2>3, <2>4, <2>5, <2>6
  <2>8. z = x
    BY <2>2, <2>7, MadeTells
  <2>9. c = d
    BY <2>2, <2>7, MadeTells
  <2> QED
    BY <2>8, <2>9 DEF c, d
<1>12. nonce = n
  BY <1>1, <1>2, <1>11, CcmAIs, FramedTells
<1>13. Unmade(r)
  BY <1>2 DEF Unmade, Outside, FromOutside, MacAtom, Made
<1>14. Len(o) = Len(w) /\ p = r
  <2>1. PICK l \in 0..255, k \in 0..255 : l = Len(o) /\ k = Len(w)
    BY <1>7
  <2>2. IsMacOf(z, nonce, l, p) /\ IsMacOf(z, n, k, r)
    BY <1>1, <1>2, <1>9, <1>11, <1>13, <2>1 DEF IsMacOf
  <2>3. l = k /\ (Len(p) = Len(r) => p = r)
    BY <2>2, MacInputTells
  <2> QED
    BY <1>1, <1>2, <1>4, <1>7, <2>1, <2>3
<1>15. o = w
  <2> DEFINE f == CcmStream(n, r)
             k == Len(p)
  <2>1. SubSeq(o, 1, k) = f /\ SubSeq(w, 1, k) = f
    BY <1>1, <1>2, <1>12, <1>14, SMTT(30)
  <2>2. /\ 1 \in Nat \ {0} /\ k <= Len(o) /\ k <= Len(w) /\ 1 <= k + 1 /\ k - 1 + 1 = k
        /\ \A i \in 1..k : 1 + i - 1 = i
    BY <1>1, <1>7, <1>14, SMTT(30)
  <2> HIDE DEF f
  <2>3. \A i \in 1..(k - 1 + 1) : SubSeq(o, 1, k)[i] = o[1 + i - 1]
    BY <1>1, <1>7, <2>2, PartIs, SMTT(30) DEF Clean
  <2>4. \A i \in 1..(k - 1 + 1) : SubSeq(w, 1, k)[i] = w[1 + i - 1]
    BY <1>2, <1>7, <2>2, PartIs DEF Clean
  <2>5. \A i \in 1..k : o[i] = w[i]
    BY <2>1, <2>2, <2>3, <2>4
  <2>6. \A i \in 1..Len(o) : o[i] = w[i]
    <3> TAKE i \in 1..Len(o)
    <3>1. CASE i \in 1..k
      BY <2>5, <3>1
    <3>2. CASE i \notin 1..k
      <4>1. i - k \in 1..B /\ k + (i - k) = i
        BY <1>1, <1>7, <3>2
      <4>2. o[i] = TagByte(z, nonce, i - k)
        BY <1>1, <4>1
      <4>3. w[i] = TagByte(x, n, i - k)
        BY <1>2, <1>14, <4>1
      <4> QED
        BY <1>8, <4>1, <4>2, <4>3, SMTT(30)
    <3> QED
      BY <3>1, <3>2
  <2> QED
    BY <1>1, <1>2, <1>14, <2>6, SameString DEF Clean
<1> QED
  BY <1>12, <1>15

(* A record of CCM is sealed with its length under the MAC, and opens.     *)
LEMMA CcmRecordIs ==
  ASSUME NEW seq, NEW typ \in Types, NEW payload \in Payloads
  PROVE  LET w == EncryptRecord("ccm", seq, typ, payload)
         IN  /\ \E p, z : CcmWire(w, RecordNonce("ccm", seq), p, z)
             /\ DecryptRecord("ccm", seq, w) = Ok([typ |-> typ, payload |-> payload])
<1> DEFINE p == Append(payload, typ)
           nonce == RecordNonce("ccm", seq)
           len == Len(payload) + 1 + B
           aad == RecordAad(len)
           f == CcmStream(nonce, p)
           s == EncryptCcm("k", nonce, aad, p, B)
           w == s.ct
<1>1. /\ Outside(p) /\ Clean(p) /\ Len(p) = Len(payload) + 1 /\ Len(payload) \in Nat
      /\ Len(p) + B < 256 /\ Unpadded(p) = Ok([typ |-> typ, payload |-> payload])
  BY ContentIs
<1>2. IsCcmNonce(nonce)
  <2>1. NonceLen("ccm") = B - 2
    BY DEF NonceLen
  <2> QED
    BY <2>1, RecordNonceIs DEF IsCcmNonce
<1>3. B \in Nat /\ B >= 3 /\ B \in 1..B /\ Len(p) \in Nat /\ len = Len(p) + B
  BY <1>1, BlockLen
<1>4. EncryptRecord("ccm", seq, typ, payload) = w
  BY DEF EncryptRecord, EncryptCcmRecord
<1>5. Clean(aad)
  BY RecordAadIs
<1> HIDE DEF p, nonce, len, s
<1>6. PICK z : IsBlock(z) /\ CcmCbcMac("k", nonce, aad, p, B) = Ok(E("k", z))
  BY <1>1, <1>2, CcmMacIs
<1> DEFINE t == CcmTag("k", nonce, E("k", z), B)
<1>7. Clean(t) /\ Len(t) = B
  BY <1>2, <1>6, CcmTagIs
<1>8. Clean(f) /\ Len(f) = Len(p)
  BY <1>1, <1>2, CcmStreamIs
<1>9. s = Sealed(f \o t, << >>)
  <2>1. s = CcmSealed("k", nonce, p, B, CcmCbcMac("k", nonce, aad, p, B))
    BY <1>3 DEF EncryptCcm, s
  <2>2. CcmSealed("k", nonce, p, B, Ok(E("k", z))) = Sealed(f \o t, << >>)
    BY DEF CcmSealed, Ok, CcmStream
  <2> QED
    BY <1>6, <2>1, <2>2
<1>10. s.ok /\ w = f \o t
  BY <1>9 DEF Sealed
<1> HIDE DEF f, t, w
<1>11. Joins(w, f, t)
  BY <1>7, <1>8, <1>10, JoinedParts
<1>12. Clean(w) /\ Len(w) = len
  BY <1>3, <1>7, <1>8, <1>11 DEF Joins
<1>13. DecryptCcm("k", nonce, RecordAad(Len(w)), w, B) = Ok(p)
  <2>1. DecryptCcm("k", nonce, aad, s.ct, B) = Ok(p)
    BY <1>1, <1>2, <1>5, <1>10, CcmBack DEF s, IsCcmNonce
  <2> QED
    BY <1>12, <2>1 DEF w
<1>14. \E y : CcmShape(w, nonce, p, y)
  <2>1. Len(w) >= B /\ Ok(p).ok /\ Ok(p).val = p
    BY <1>3, <1>12 DEF Ok
  <2> QED
    BY <1>2, <1>12, <1>13, <2>1, CcmOpenedIs
<1>15. \E q, y : CcmWire(w, nonce, q, y)
  BY <1>1, <1>3, <1>12, <1>14 DEF CcmWire
<1>16. DecryptRecord("ccm", seq, w) = Ok([typ |-> typ, payload |-> payload])
  <2>1. ~ (Len(w) < B)
    BY <1>3, <1>12
  <2>2. DecryptRecord("ccm", seq, w) = Delivered(Ok(p))
    BY <1>13, <2>1 DEF DecryptRecord, DecryptCcmRecord, nonce
  <2> QED
    BY <1>1, <2>2 DEF Delivered, Ok
<1> QED
  BY <1>4, <1>15, <1>16 DEF nonce

LEMMA CcmRecordOnly ==
  ASSUME NEW W, AreRecords("ccm", W), NEW o \in W \cup Altered(W), NEW seq \in 0..255,
         DecryptRecord("ccm", seq, o).ok
  PROVE  /\ o \in W
         /\ \A s, typ, payload : IsRecord("ccm", s, typ, payload, o) => s = seq
<1> DEFINE nonce == RecordNonce("ccm", seq)
           r == DecryptCcm("k", nonce, RecordAad(Len(o)), o, B)
<1>1. ASSUME NEW w, NEW s, NEW typ, NEW payload, IsRecord("ccm", s, typ, payload, w)
      PROVE  \E p, z : CcmWire(w, RecordNonce("ccm", s), p, z)
  BY <1>1, CcmRecordIs DEF IsRecord
<1>2. AreCcmWires(W)
  BY <1>1 DEF AreRecords, AreCcmWires
<1>3. \A w \in W : IsWire(w)
  BY <1>2, CcmWireIs DEF AreCcmWires
<1>4. Clean(o) /\ (o = << >> \/ Displaced(o, W) \/ \E v, w \in W : Near(o, v, w))
  BY <1>3, AlteredAre
<1>5. IsCcmNonce(nonce)
  <2>1. NonceLen("ccm") = B - 2
    BY DEF NonceLen
  <2> QED
    BY <2>1, RecordNonceIs DEF IsCcmNonce
<1>6. ~ (Len(o) < B) /\ r.ok
  <2>1. DecryptRecord("ccm", seq, o) = IF Len(o) < B THEN Err("DecryptError") ELSE Delivered(r)
    BY DEF DecryptRecord, DecryptCcmRecord
  <2> HIDE DEF r
  <2>2. Delivered(r).ok => r.ok
    BY DEF Delivered, Err
  <2> QED
    BY <2>1, <2>2 DEF Err
<1>7. Len(o) \in Nat /\ B \in Nat /\ B >= 3 /\ Len(o) >= B
  <2>1. Len(o) \in Nat /\ B \in Nat /\ B >= 3
    BY <1>4, StringProperties, BlockLen DEF Clean
  <2> QED
    BY <1>6, <2>1
<1>8. PICK p, z : CcmShape(o, nonce, p, z)
  BY <1>4, <1>5, <1>6, <1>7, CcmOpenedIs
<1>9. o # << >>
  BY <1>7, Empty
<1>10. ~ Displaced(o, W)
  BY <1>2, <1>8, CcmNotDisplaced
<1>11. PICK v \in W, w \in W : Near(o, v, w)
  BY <1>4, <1>9, <1>10
<1>12. PICK m, q, y : CcmWire(v, m, q, y)
  BY <1>2 DEF AreCcmWires
<1>13. ASSUME NEW n, NEW c, NEW x, CcmWire(w, n, c, x)
       PROVE  o = w /\ nonce = n
  BY <1>8, <1>11, <1>12, <1>13, CcmNearTells
<1>14. o = w
  BY <1>2, <1>13 DEF AreCcmWires
<1>15. ASSUME NEW s, NEW typ, NEW payload, IsRecord("ccm", s, typ, payload, o)
       PROVE  s = seq
  <2>1. RecordNonce("ccm", s) = nonce
    BY <1>1, <1>13, <1>14, <1>15
  <2>2. s \in 0..255
    BY <1>15 DEF IsRecord
  <2> QED
    BY <2>1, <2>2, RecordNonceTells
<1> QED
  BY <1>14, <1>15

-----------------------------------------------------------------------------
(* Records of both suites.                                                 *)

LEMMA RecordOpens ==
  ASSUME NEW mode \in Suites, NEW seq, NEW typ, NEW payload, NEW w,
         IsRecord(mode, seq, typ, payload, w)
  PROVE  DecryptRecord(mode, seq, w) = Ok([typ |-> typ, payload |-> payload])
<1>1. mode = "gcm" \/ mode = "ccm"
  BY RecordAssumption
<1> QED
  BY <1>1, GcmRecordIs, CcmRecordIs DEF IsRecord

LEMMA RecordOnly ==
  ASSUME NEW mode \in Suites, NEW W, AreRecords(mode, W), NEW o \in W \cup Altered(W),
         NEW seq \in 0..255, DecryptRecord(mode, seq, o).ok
  PROVE  /\ o \in W
         /\ \A s, typ, payload : IsRecord(mode, s, typ, payload, o) => s = seq
<1>1. mode = "gcm" \/ mode = "ccm"
  BY RecordAssumption
<1>2. CASE mode = "gcm"
  BY <1>2, GcmRecordOnly
<1>3. CASE mode = "ccm"
  BY <1>3, CcmRecordOnly
<1> QED
  BY <1>1, <1>2, <1>3

(* What was sent are n records in their order, and what was delivered are  *)
(* the first g of them.                                                    *)
Cleartext(r) == [typ |-> r.typ, payload |-> r.payload]
IsMade(s, n) == s = [i \in 1..n |-> s[i]] /\ Len(s) = n
RecordsSent(n) ==
  suite \in Suites =>
    \A i \in 1..n : IsRecord(suite, i - 1, sent[i].typ, sent[i].payload, sent[i].wire)
GotFirst(g) == \A i \in 1..g : got[i] = Cleartext(sent[i])
InBounds(n, g) == n \in Nat /\ g \in Nat /\ g <= n /\ n <= MaxRecords
RecordState(n, g) ==
  /\ InBounds(n, g) /\ (suite = "" => n = 0)
  /\ IsMade(sent, n) /\ IsMade(got, g) /\ rx_seq = g
  /\ RecordsSent(n) /\ GotFirst(g)
RecordInv == \E n, g : RecordState(n, g)

LEMMA ByteBounds ==
  ASSUME NEW n, NEW g, InBounds(n, g)
  PROVE  n \in 0..255 /\ g \in 0..255
<1>1. MaxRecords \in 0..255
  BY RecordAssumption
<1> QED
  BY <1>1 DEF InBounds

LEMMA MadeMore ==
  ASSUME NEW s, NEW n \in Nat, IsMade(s, n), NEW e, NEW t, t = Append(s, e)
  PROVE  IsMade(t, n + 1) /\ t[n + 1] = e /\ \A i \in 1..n : t[i] = s[i]
<1>1. IsString(s)
  BY MadeString DEF IsMade
<1>2. /\ t = [i \in 1..(n + 1) |-> t[i]]
      /\ \A i \in 1..n : t[i] = s[i]
      /\ t[n + 1] = e
  BY <1>1, AppendMakes DEF IsMade
<1>3. n + 1 \in Nat
  OBVIOUS
<1>4. Len(t) = n + 1
  BY <1>2, <1>3, MadeString
<1> QED
  BY <1>2, <1>4 DEF IsMade

LEMMA SendHolds ==
  ASSUME RecordInv, SendRecord
  PROVE  RecordInv'
<1>1. PICK n, g : RecordState(n, g)
  BY DEF RecordInv
<1>2. n \in Nat /\ g \in Nat /\ InBounds(n, g) /\ IsMade(sent, n) /\ Len(sent) = n
  BY <1>1 DEF RecordState, InBounds, IsMade
<1>3. suite \in Suites /\ n < MaxRecords /\ suite' = suite /\ got' = got /\ rx_seq' = rx_seq
  BY <1>2 DEF SendRecord
<1>4. PICK typ \in Types, p \in Payloads :
        sent' = Append(sent, [typ |-> typ, payload |-> p,
                              wire |-> EncryptRecord(suite, n, typ, p)])
  BY <1>2 DEF SendRecord
<1>5. PICK r : r = [typ |-> typ, payload |-> p, wire |-> EncryptRecord(suite, n, typ, p)]
  OBVIOUS
<1>6. PICK m : m = n + 1
  OBVIOUS
<1>7. IsMade(sent, m)' /\ sent'[m] = r /\ \A i \in 1..n : sent'[i] = sent[i]
  BY <1>2, <1>4, <1>5, <1>6, MadeMore DEF IsMade
<1>8. IsRecord(suite, n, r.typ, r.payload, r.wire)
  BY <1>2, <1>5, ByteBounds DEF IsRecord
<1>9. RecordsSent(m)'
  <2>1. ASSUME NEW i \in 1..m
        PROVE  IsRecord(suite, i - 1, sent'[i].typ, sent'[i].payload, sent'[i].wire)
    <3>1. CASE i \in 1..n
      <4>1. IsRecord(suite, i - 1, sent[i].typ, sent[i].payload, sent[i].wire)
        BY <1>1, <1>3, <3>1 DEF RecordState, RecordsSent
      <4> QED
        BY <1>7, <3>1, <4>1
    <3>2. CASE i = m
      <4>1. i - 1 = n
        BY <1>2, <1>6, <3>2
      <4> QED
        BY <1>7, <1>8, <3>2, <4>1
    <3>3. i \in 1..n \/ i = m
      BY <1>2, <1>6
    <3> QED
      BY <3>1, <3>2, <3>3
  <2> QED
    BY <1>3, <2>1 DEF RecordsSent
<1>10. GotFirst(g)'
  <2>1. \A i \in 1..g : i \in 1..n
    BY <1>2 DEF InBounds
  <2>2. \A i \in 1..g : got[i] = Cleartext(sent[i])
    BY <1>1 DEF RecordState, GotFirst
  <2>3. \A i \in 1..g : got'[i] = Cleartext(sent'[i])
    BY <1>3, <1>7, <2>1, <2>2
  <2> QED
    BY <2>3 DEF GotFirst, Cleartext
<1>11. InBounds(m, g)
  <2>1. MaxRecords \in Nat
    BY RecordAssumption
  <2> QED
    BY <1>2, <1>3, <1>6, <2>1 DEF InBounds
<1>12. suite # ""
  BY <1>3, RecordAssumption
<1>13. IsMade(got, g)' /\ rx_seq' = g
  BY <1>1, <1>3 DEF RecordState, IsMade
<1>14. RecordState(m, g)'
  BY <1>3, <1>7, <1>9, <1>10, <1>11, <1>12, <1>13 DEF RecordState, InBounds
<1> QED
  BY <1>14 DEF RecordInv

(* What opens in its turn is the record that is next.                      *)
LEMMA NextOpens ==
  ASSUME NEW n, NEW g, RecordState(n, g), suite \in Suites,
         NEW wire \in Wires \cup Altered(Wires), DecryptRecord(suite, g, wire).ok
  PROVE  /\ g + 1 \in 1..n
         /\ DecryptRecord(suite, g, wire) = Ok(Cleartext(sent[g + 1]))
<1>1. n \in Nat /\ g \in Nat /\ InBounds(n, g)
  BY DEF RecordState, InBounds
<1>2. DOMAIN sent = 1..n
  BY DEF RecordState, IsMade
<1>3. ASSUME NEW i \in 1..n
      PROVE  /\ i - 1 \in 0..255
             /\ IsRecord(suite, i - 1, sent[i].typ, sent[i].payload, sent[i].wire)
  BY <1>3 DEF RecordState, RecordsSent, IsRecord
<1>4. PICK W : W = Wires
  OBVIOUS
<1>5. AreRecords(suite, W) /\ wire \in W \cup Altered(W)
  BY <1>2, <1>3, <1>4 DEF AreRecords, Wires
<1>6. g \in 0..255
  BY <1>1, ByteBounds
<1>7. /\ wire \in W
      /\ \A s, typ, payload : IsRecord(suite, s, typ, payload, wire) => s = g
  BY <1>5, <1>6, RecordOnly
<1>8. PICK i \in 1..n : sent[i].wire = wire
  BY <1>2, <1>4, <1>7 DEF Wires
<1>9. IsRecord(suite, i - 1, sent[i].typ, sent[i].payload, wire)
  BY <1>3, <1>8
<1>10. i - 1 = g
  BY <1>7, <1>9
<1>11. i = g + 1
  BY <1>1, <1>10
<1>12. DecryptRecord(suite, g, wire) = Ok(Cleartext(sent[i]))
  BY <1>9, <1>10, RecordOpens DEF Cleartext
<1> QED
  BY <1>11, <1>12

LEMMA ReceiveHolds ==
  ASSUME RecordInv, ReceiveRecord
  PROVE  RecordInv'
<1>1. PICK n, g : RecordState(n, g)
  BY DEF RecordInv
<1>2. n \in Nat /\ g \in Nat /\ InBounds(n, g) /\ IsMade(got, g) /\ rx_seq = g
  BY <1>1 DEF RecordState, InBounds
<1>3. suite \in Suites /\ suite' = suite /\ sent' = sent
  BY DEF ReceiveRecord
<1>4. PICK wire \in Wires \cup Altered(Wires) :
        LET r == DecryptRecord(suite, g, wire)
        IN  IF r.ok THEN got' = Append(got, r.val) /\ rx_seq' = g + 1
            ELSE UNCHANGED <<got, rx_seq>>
  BY <1>2 DEF ReceiveRecord
<1>5. /\ InBounds(n, g) /\ (suite' = "" => n = 0)
      /\ IsMade(sent, n)' /\ RecordsSent(n)'
  BY <1>1, <1>3 DEF RecordState, IsMade, RecordsSent
<1>6. PICK r : r = DecryptRecord(suite, g, wire)
  OBVIOUS
<1>7. CASE ~ r.ok
  <2>1. got' = got /\ rx_seq' = rx_seq
    BY <1>4, <1>6, <1>7
  <2>2. IsMade(got, g)' /\ rx_seq' = g /\ GotFirst(g)'
    BY <1>1, <1>3, <2>1 DEF RecordState, IsMade, GotFirst, Cleartext
  <2>3. RecordState(n, g)'
    BY <1>5, <2>2 DEF RecordState, InBounds
  <2> QED
    BY <2>3 DEF RecordInv
<1>8. CASE r.ok
  <2>1. PICK h : h = g + 1
    OBVIOUS
  <2>2. got' = Append(got, r.val) /\ rx_seq' = h
    BY <1>4, <1>6, <1>8, <2>1
  <2>3. h \in 1..n /\ r = Ok(Cleartext(sent[h]))
    BY <1>1, <1>3, <1>6, <1>8, <2>1, NextOpens
  <2>4. r.val = Cleartext(sent[h])
    BY <2>3 DEF Ok
  <2>5. IsMade(got, h)' /\ got'[h] = r.val /\ \A i \in 1..g : got'[i] = got[i]
    BY <1>2, <2>1, <2>2, MadeMore DEF IsMade
  <2>6. GotFirst(h)'
    <3>1. ASSUME NEW i \in 1..h PROVE got'[i] = Cleartext(sent[i])
      <4>1. i \in 1..g \/ i = h
        BY <1>2, <2>1
      <4>2. \A j \in 1..g : got[j] = Cleartext(sent[j])
        BY <1>1 DEF RecordState, GotFirst
      <4> QED
        BY <2>4, <2>5, <4>1, <4>2
    <3> QED
      BY <1>3, <3>1 DEF GotFirst, Cleartext
  <2>7. InBounds(n, h)
    BY <1>2, <2>1, <2>3 DEF InBounds
  <2>8. RecordState(n, h)'
    BY <1>5, <2>2, <2>5, <2>6, <2>7 DEF RecordState, InBounds
  <2> QED
    BY <2>8 DEF RecordInv
<1> QED
  BY <1>7, <1>8

LEMMA OtherRecordsHold ==
  ASSUME RecordInv, Begin \/ MakeTicket \/ RedeemTicket
  PROVE  RecordInv'
<1>1. PICK n, g : RecordState(n, g)
  BY DEF RecordInv
<1>2. n \in Nat /\ g \in Nat /\ InBounds(n, g) /\ IsMade(sent, n) /\ IsMade(got, g)
  BY <1>1 DEF RecordState, InBounds
<1>3. "ticket" \notin Suites /\ "" \notin Suites
  BY RecordAssumption
<1>4. CASE Begin
  <2>1. /\ suite = "" /\ suite' # "" /\ sent' = sent /\ got' = got /\ rx_seq' = rx_seq
    BY <1>3, <1>4 DEF Begin
  <2>2. n = 0
    BY <1>1, <2>1 DEF RecordState
  <2>3. RecordsSent(n)'
    BY <2>2 DEF RecordsSent
  <2>4. GotFirst(g)'
    BY <1>1, <2>1 DEF RecordState, GotFirst, Cleartext
  <2>5. IsMade(sent, n)' /\ IsMade(got, g)' /\ rx_seq' = g
    BY <1>1, <2>1 DEF RecordState, IsMade
  <2>6. RecordState(n, g)'
    BY <1>2, <2>1, <2>3, <2>4, <2>5 DEF RecordState, InBounds
  <2> QED
    BY <2>6 DEF RecordInv
<1>5. CASE MakeTicket
  <2>1. /\ suite = "ticket" /\ suite' = suite /\ got' = got /\ rx_seq' = rx_seq
        /\ n < MaxRecords
    BY <1>2, <1>5 DEF MakeTicket, IsMade
  <2>2. PICK r : sent' = Append(sent, r)
    BY <1>5 DEF MakeTicket
  <2>3. PICK m : m = n + 1
    OBVIOUS
  <2>4. IsMade(sent, m)' /\ \A i \in 1..n : sent'[i] = sent[i]
    BY <1>2, <2>2, <2>3, MadeMore DEF IsMade
  <2>5. RecordsSent(m)'
    BY <1>3, <2>1 DEF RecordsSent
  <2>6. GotFirst(g)'
    <3>1. \A i \in 1..g : i \in 1..n
      BY <1>2 DEF InBounds
    <3>2. \A i \in 1..g : got[i] = Cleartext(sent[i])
      BY <1>1 DEF RecordState, GotFirst
    <3>3. \A i \in 1..g : got'[i] = Cleartext(sent'[i])
      BY <2>1, <2>4, <3>1, <3>2
    <3> QED
      BY <3>3 DEF GotFirst, Cleartext
  <2>7. InBounds(m, g)
    <3>1. MaxRecords \in Nat
      BY RecordAssumption
    <3> QED
      BY <1>2, <2>1, <2>3, <3>1 DEF InBounds
  <2>8. IsMade(got, g)' /\ rx_seq' = g /\ suite' # ""
    BY <1>1, <2>1 DEF RecordState, IsMade
  <2>9. RecordState(m, g)'
    BY <2>4, <2>5, <2>6, <2>7, <2>8 DEF RecordState, InBounds
  <2> QED
    BY <2>9 DEF RecordInv
<1>6. CASE RedeemTicket
  <2>1. suite' = suite /\ sent' = sent /\ got' = got /\ rx_seq' = rx_seq
    BY <1>6 DEF RedeemTicket
  <2>2. RecordsSent(n)' /\ GotFirst(g)'
    BY <1>1, <2>1 DEF RecordState, RecordsSent, GotFirst, Cleartext
  <2>3. IsMade(sent, n)' /\ IsMade(got, g)' /\ rx_seq' = g /\ (suite' = "" => n = 0)
    BY <1>1, <2>1 DEF RecordState, IsMade
  <2>4. RecordState(n, g)'
    BY <1>2, <2>2, <2>3 DEF RecordState, InBounds
  <2> QED
    BY <2>4 DEF RecordInv
<1> QED
  BY <1>4, <1>5, <1>6

(* Whatever the network loses, repeats, reorders, alters or puts together, *)
(* what is delivered is the beginning of what was sent, and a record that  *)
(* comes in its turn is delivered: for both suites, blocks of every size,  *)
(* records of every length and as many as there are sequence numbers       *)
(* (MessageEncrypter and MessageDecrypter, tls13.rs:87-265).               *)
THEOREM RecordsArriveInOrder ==
  SymmetricSpec => []RecordsInOrder
<1>1. SymmetricInit => RecordInv
  <2> SUFFICES ASSUME SymmetricInit PROVE RecordInv
    OBVIOUS
  <2>1. sent = << >> /\ suite = "" /\ got = << >> /\ rx_seq = 0
    BY DEF SymmetricInit, TlsInit
  <2>2. PICK s : s = << >>
    OBVIOUS
  <2>3. IsMade(s, 0)
    BY <2>2, Empty DEF IsMade
  <2>4. InBounds(0, 0)
    <3>1. MaxRecords \in Nat
      BY RecordAssumption
    <3> QED
      BY <3>1 DEF InBounds
  <2>5. RecordsSent(0) /\ GotFirst(0)
    BY DEF RecordsSent, GotFirst
  <2>6. RecordState(0, 0)
    BY <2>1, <2>2, <2>3, <2>4, <2>5 DEF RecordState
  <2> QED
    BY <2>6 DEF RecordInv
<1>2. RecordInv /\ [SymmetricNext]_<<vars, tlsVars, scheduleVars>> => RecordInv'
  <2> SUFFICES ASSUME RecordInv, [SymmetricNext]_<<vars, tlsVars, scheduleVars>>
               PROVE  RecordInv'
    OBVIOUS
  <2>1. CASE UNCHANGED tlsVars
    BY <2>1 DEF tlsVars, RecordInv, RecordState, IsMade, InBounds, RecordsSent, GotFirst, Cleartext
  <2>2. CASE Begin \/ MakeTicket \/ RedeemTicket
    BY <2>2, OtherRecordsHold
  <2>3. CASE SendRecord
    BY <2>3, SendHolds
  <2>4. CASE ReceiveRecord
    BY <2>4, ReceiveHolds
  <2> QED
    BY <2>1, <2>2, <2>3, <2>4 DEF SymmetricNext, OnlyModes, OnlyDerive
<1>3. RecordInv => RecordsInOrder
  <2> SUFFICES ASSUME RecordInv PROVE RecordsInOrder
    OBVIOUS
  <2>1. PICK n, g : RecordState(n, g)
    BY DEF RecordInv
  <2>2. n \in Nat /\ g \in Nat /\ g <= n /\ Len(got) = g /\ Len(sent) = n /\ rx_seq = g
    BY <2>1 DEF RecordState, InBounds, IsMade
  <2>3. DOMAIN got = 1..g /\ \A i \in 1..g : got[i] = Cleartext(sent[i])
    BY <2>1 DEF RecordState, IsMade, GotFirst
  <2>4. ASSUME suite \in Suites, g < n
        PROVE  DecryptRecord(suite, g, sent[g + 1].wire) = Ok(Cleartext(sent[g + 1]))
    <3>1. g + 1 \in 1..n /\ (g + 1) - 1 = g
      BY <2>2, <2>4
    <3>2. PICK r : r = sent[g + 1]
      OBVIOUS
    <3>3. IsRecord(suite, g, r.typ, r.payload, r.wire)
      BY <2>1, <2>4, <3>1, <3>2 DEF RecordState, RecordsSent
    <3>4. DecryptRecord(suite, g, r.wire) = Ok(Cleartext(r))
      BY <2>4, <3>3, RecordOpens DEF Cleartext
    <3> QED
      BY <3>2, <3>4
  <2> QED
    BY <2>2, <2>3, <2>4 DEF RecordsInOrder, Cleartext
<1> QED
  BY <1>1, <1>2, <1>3, PTL DEF SymmetricSpec

-----------------------------------------------------------------------------
(* The MAC of CCM over any aad: the chunks of one string, then those of    *)
(* another.                                                                *)

LEMMA ProductGrows ==
  ASSUME NEW a \in Nat, NEW r \in Nat, a >= 1
  PROVE  a * r >= r
OBVIOUS

LEMMA NearModulo ==
  ASSUME NEW x \in Nat, NEW y \in Nat, NEW r \in Nat \ {0}, x <= y, y < x + r, x % r = y % r
  PROVE  x = y
<1>1. PICK q \in Nat : x = q * r + (x % r) /\ x % r \in 0..(r - 1)
  <2>1. x \div r \in Nat /\ x = (x \div r) * r + (x % r) /\ x % r \in 0..(r - 1)
    OBVIOUS
  <2> QED
    BY <2>1
<1>2. PICK p \in Nat : y = p * r + (y % r)
  <2>1. y \div r \in Nat /\ y = (y \div r) * r + (y % r)
    OBVIOUS
  <2> QED
    BY <2>1
<1>3. PICK m \in 0..(r - 1) : m = x % r /\ m = y % r
  BY <1>1
<1>4. ASSUME p > q PROVE FALSE
  <2>1. PICK d \in Nat : p = q + d /\ d >= 1
    <3>1. p - q \in Nat /\ p = q + (p - q) /\ p - q >= 1
      BY <1>4
    <3> QED
      BY <3>1
  <2>2. p * r = q * r + d * r
    BY <2>1
  <2>3. d * r >= r
    BY <2>1, ProductGrows
  <2>4. PICK u, v \in Nat : u = q * r /\ v = d * r
    <3>1. q * r \in Nat /\ d * r \in Nat
      BY <2>1
    <3> QED
      BY <3>1
  <2>5. x = u + m /\ y = u + v + m /\ v >= r
    BY <1>1, <1>2, <1>3, <2>2, <2>3, <2>4
  <2> QED
    BY <2>5
<1>5. ASSUME q > p PROVE FALSE
  <2>1. PICK d \in Nat : q = p + d /\ d >= 1
    <3>1. q - p \in Nat /\ q = p + (q - p) /\ q - p >= 1
      BY <1>5
    <3> QED
      BY <3>1
  <2>2. q * r = p * r + d * r
    BY <2>1
  <2>3. d * r >= r
    BY <2>1, ProductGrows
  <2>4. PICK u, v \in Nat : u = p * r /\ v = d * r
    <3>1. p * r \in Nat /\ d * r \in Nat
      BY <2>1
    <3> QED
      BY <3>1
  <2>5. y = u + m /\ x = u + v + m /\ v >= r
    BY <1>1, <1>2, <1>3, <2>2, <2>3, <2>4
  <2> QED
    BY <2>5
<1>6. p = q
  BY <1>4, <1>5
<1> QED
  BY <1>1, <1>2, <1>3, <1>6

\* As many parts, the lengths differ by less than a block.
LEMMA LengthTold ==
  ASSUME NEW x \in Nat, NEW y \in Nat, Parts(x) = Parts(y), x % LenRadix = y % LenRadix
  PROVE  x = y
<1>1. LenRadix \in Nat \ {0} /\ LenRadix >= B /\ B \in Nat /\ B >= 3
  BY AeadAssumption, LimitAssumption, BlockLen
<1>2. x <= Off(Parts(x)) /\ Off(Parts(x)) < x + B
  BY PartsAre
<1>3. y <= Off(Parts(y)) /\ Off(Parts(y)) < y + B
  BY PartsAre
<1>4. PICK n \in Nat : n = Off(Parts(x)) /\ n = Off(Parts(y))
  <2>1. Parts(x) \in Nat
    BY PartsAre
  <2>2. Off(Parts(x)) \in Nat
    BY <2>1, OffIs
  <2> QED
    BY <2>2
<1>5. x <= n /\ n < x + B /\ y <= n /\ n < y + B
  BY <1>2, <1>3, <1>4
<1>6. x < y + LenRadix /\ y < x + LenRadix
  BY <1>1, <1>5
<1>7. CASE x <= y
  BY <1>1, <1>6, <1>7, NearModulo
<1>8. CASE y <= x
  BY <1>1, <1>6, <1>8, NearModulo
<1> QED
  BY <1>7, <1>8

\* Equal chunks make equal strings.
LEMMA ChunksTell ==
  ASSUME NEW p, Clean(p), NEW q, Clean(q), Len(p) = Len(q),
         SamePieces(Chunks(p), Chunks(q), Parts(Len(p)))
  PROVE  p = q
<1>1. IsString(p) /\ IsString(q) /\ Len(p) \in Nat
  BY StringProperties DEF Clean
<1>2. \A i \in 1..Parts(Len(p)) : \A j \in 1..PartLen(i, Len(p)) :
        Chunks(p)[i][j] = p[Off(i - 1) + j] /\ Len(Chunks(p)[i]) = PartLen(i, Len(p))
  BY <1>1, ChunksAre, CleanChunks
<1>3. \A i \in 1..Parts(Len(q)) : \A j \in 1..PartLen(i, Len(q)) :
        Chunks(q)[i][j] = q[Off(i - 1) + j] /\ Len(Chunks(q)[i]) = PartLen(i, Len(q))
  BY <1>1, ChunksAre, CleanChunks
<1>4. ASSUME NEW i \in 1..Len(p) PROVE p[i] = q[i]
  <2>1. PICK g \in 1..Parts(Len(p)) : \E j \in 1..PartLen(g, Len(p)) : i = Off(g - 1) + j
    BY <1>1, PartPlace
  <2>2. PICK j \in 1..PartLen(g, Len(p)) : i = Off(g - 1) + j
    BY <2>1
  <2>3. PartLen(g, Len(p)) \in 1..B
    BY <1>1, PartsAre
  <2>4. j \in 1..B /\ j <= PartLen(g, Len(p))
    BY <2>3, BlockLen
  <2>5. ByteAt(Chunks(p)[g], j) = ByteAt(Chunks(q)[g], j)
    BY <2>4 DEF SamePieces
  <2>6. Chunks(p)[g][j] = p[i] /\ Len(Chunks(p)[g]) = PartLen(g, Len(p))
    BY <1>2, <2>2
  <2>7. Chunks(q)[g][j] = q[i] /\ Len(Chunks(q)[g]) = PartLen(g, Len(p))
    BY <1>3, <2>2
  <2> QED
    BY <2>4, <2>5, <2>6, <2>7 DEF ByteAt
<1> QED
  BY <1>1, <1>4, SameString

\* What is taken in of a string.
LEMMA AbsorbedChain ==
  ASSUME NEW b, IsBlock(b), NEW x, Clean(x)
  PROVE  \E z : /\ IsCbcChain(z, b, Chunks(x), Parts(Len(x)))
                /\ IsBlock(z[Parts(Len(x))])
                /\ AbsorbE("k", E("k", b), x) = E("k", z[Parts(Len(x))])
<1> DEFINE n == Parts(Len(x))
           c == Chunks(x)
           y == AbsorbSeq(n, E("k", b), "k", c)
           z == [i \in 0..n |-> IF i = 0 THEN b ELSE XorInto(y[i - 1], c[i])]
<1>1. n \in Nat /\ Len(c) = n /\ \A i \in 1..n : Clean(c[i])
  BY CleanChunks
<1>2. AbsorbE("k", E("k", b), x) = y[n]
  BY <1>1 DEF AbsorbE, Absorb, AbsorbSeq
<1>3. y[0] = E("k", b) /\ \A i \in 1..n : y[i] = E("k", XorInto(y[i - 1], c[i]))
  <2>1. PICK g, k : g = E("k", b) /\ k = "k"
    OBVIOUS
  <2> DEFINE v == AbsorbSeq(n, g, k, c)
  <2>2. v[0] = g /\ \A i \in 1..n : v[i] = E(k, XorInto(v[i - 1], c[i]))
    <3>1. n \in Nat
      BY <1>1
    <3> HIDE DEF n, c, y
    <3> QED
      BY <3>1, AbsorbSteps
  <2>3. y = v
    BY <2>1
  <2> HIDE DEF v, y
  <2> QED
    BY <2>1, <2>2, <2>3
<1> HIDE DEF y, c, n
<1>4. z[0] = b /\ \A i \in 1..n : z[i] = XorInto(y[i - 1], c[i])
  <2>1. 0 \in 0..n /\ \A i \in 1..n : i \in 0..n /\ i # 0
    BY <1>1
  <2> QED
    BY <2>1
<1> HIDE DEF z
<1>5. \A i \in 0..n : y[i] = E("k", z[i])
  <2> TAKE i \in 0..n
  <2>1. CASE i = 0
    BY <1>3, <1>4, <2>1
  <2>2. CASE i \in 1..n
    BY <1>3, <1>4, <2>2
  <2> QED
    BY <1>1, <2>1, <2>2
<1>6. IsCbcChain(z, b, c, n)
  <2>1. ASSUME NEW i \in 1..n PROVE z[i] = XorInto(E("k", z[i - 1]), c[i])
    <3>1. i - 1 \in 0..n
      BY <1>1
    <3> QED
      BY <1>4, <1>5, <3>1
  <2> QED
    BY <1>1, <1>4, <2>1 DEF IsCbcChain
<1>7. \A i \in 0..n : IsBlock(z[i])
  BY <1>1, <1>6, ChainClean
<1>8. n \in 0..n
  BY <1>1
<1> QED
  BY <1>2, <1>5, <1>6, <1>7, <1>8 DEF n, c

Series(t, n, u) == [i \in Nat |-> IF i <= n THEN t[i] ELSE u[i - n]]

LEMMA ChainsJoin ==
  ASSUME NEW z, NEW b, NEW t, NEW n, IsCbcChain(z, b, t, n),
         NEW y, NEW d, NEW u, NEW m, IsCbcChain(y, d, u, m), d = z[n]
  PROVE  \E x : IsCbcChain(x, b, Series(t, n, u), n + m) /\ x[n + m] = y[m]
<1> DEFINE s == Series(t, n, u)
           x == [i \in 0..(n + m) |-> IF i <= n THEN z[i] ELSE y[i - n]]
<1>1. n \in Nat /\ z[0] = b /\ \A i \in 1..n : z[i] = XorInto(E("k", z[i - 1]), t[i])
  BY DEF IsCbcChain
<1>2. m \in Nat /\ y[0] = d /\ \A i \in 1..m : y[i] = XorInto(E("k", y[i - 1]), u[i])
  BY DEF IsCbcChain
<1>3. \A i \in 0..n : x[i] = z[i]
  BY <1>1, <1>2
<1>4. \A i \in 0..m : x[n + i] = y[i]
  <2> TAKE i \in 0..m
  <2>1. CASE i = 0
    <3>1. n + i = n /\ n \in 0..n
      BY <1>1, <2>1
    <3> QED
      BY <1>2, <1>3, <2>1, <3>1
  <2>2. CASE i # 0
    <3>1. n + i \in 0..(n + m) /\ ~ (n + i <= n) /\ (n + i) - n = i
      BY <1>1, <1>2, <2>2
    <3> QED
      BY <3>1
  <2> QED
    BY <2>1, <2>2
<1>5. (\A i \in 1..n : s[i] = t[i]) /\ \A i \in 1..m : s[n + i] = u[i]
  <2>1. ASSUME NEW i \in 1..n PROVE s[i] = t[i]
    <3>1. i \in Nat /\ i <= n
      BY <1>1
    <3> QED
      BY <3>1 DEF Series
  <2>2. ASSUME NEW i \in 1..m PROVE s[n + i] = u[i]
    <3>1. n + i \in Nat /\ ~ (n + i <= n) /\ (n + i) - n = i
      BY <1>1, <1>2
    <3> QED
      BY <3>1 DEF Series
  <2> QED
    BY <2>1, <2>2
<1> HIDE DEF x, s
<1>6. ASSUME NEW i \in 1..(n + m) PROVE x[i] = XorInto(E("k", x[i - 1]), s[i])
  <2>1. CASE i <= n
    <3>1. i \in 1..n /\ i \in 0..n /\ i - 1 \in 0..n
      BY <1>1, <2>1
    <3> QED
      BY <1>1, <1>3, <1>5, <3>1
  <2>2. CASE ~ (i <= n)
    <3>1. PICK j \in 1..m : i = n + j /\ i - 1 = n + (j - 1) /\ j - 1 \in 0..m /\ j \in 0..m
      <4>1. i - n \in 1..m /\ i = n + (i - n) /\ i - 1 = n + ((i - n) - 1)
            /\ (i - n) - 1 \in 0..m /\ i - n \in 0..m
        BY <1>1, <1>2, <2>2
      <4> QED
        BY <4>1
    <3>2. x[i] = y[j] /\ x[i - 1] = y[j - 1] /\ s[i] = u[j]
      BY <1>4, <1>5, <3>1
    <3> QED
      BY <1>2, <3>2
  <2> QED
    BY <2>1, <2>2
<1>7. x[0] = b /\ x[n + m] = y[m] /\ n + m \in Nat
  <2>1. 0 \in 0..n /\ m \in 0..m
    BY <1>1, <1>2
  <2> QED
    BY <1>1, <1>2, <1>3, <1>4, <2>1
<1>8. IsCbcChain(x, b, s, n + m)
  BY <1>6, <1>7 DEF IsCbcChain
<1> QED
  BY <1>7, <1>8 DEF s

CcmPieces(aad, msg) ==
  Series(Chunks(CcmPrefix(aad)), Parts(Len(CcmPrefix(aad))), Chunks(msg))
CcmCount(aad, msg) == Parts(Len(CcmPrefix(aad))) + Parts(Len(msg))
CcmFrame(nonce, aad, msg, tl) == CcmB0(nonce, aad, Len(msg), tl)
\* The last block the MAC enciphers.
CcmInput(z, nonce, aad, msg, tl) ==
  \E y : /\ IsCbcChain(y, CcmFrame(nonce, aad, msg, tl), CcmPieces(aad, msg), CcmCount(aad, msg))
         /\ z = y[CcmCount(aad, msg)]

FlagsOf(aad, tl) == (IF aad # << >> THEN 64 ELSE 0) + 8 * tl + 2

LEMMA FlagsAre ==
  ASSUME NEW aad, NEW tl \in 1..B
  PROVE  /\ FlagsOf(aad, tl) \in 0..255 /\ FlagsOf(aad, tl) # 2
         /\ FlagsOf(aad, tl) = 8 * tl + 2 <=> aad = << >>
<1>1. tl \in Nat /\ B \in Nat /\ 8 * tl + 66 < 256 /\ tl >= 1
  BY LimitAssumption, BlockLen
<1> QED
  BY <1>1 DEF FlagsOf

LEMMA CcmFrameIs ==
  ASSUME NEW nonce, IsCcmNonce(nonce), NEW aad, NEW msg, NEW tl \in 1..B
  PROVE  LET b == CcmFrame(nonce, aad, msg, tl)
         IN  /\ b = Framed(FlagsOf(aad, tl), nonce, Len(msg) % LenRadix)
             /\ NotCounter(b) /\ \A a \in b[1] : ~ MacAtom(a)
<1> DEFINE b == CcmFrame(nonce, aad, msg, tl)
           v == FlagsOf(aad, tl)
<1>1. b = Framed(v, nonce, Len(msg) % LenRadix)
  BY DEF CcmFrame, CcmB0, CcmFlags, Framed, FlagsOf
<1>2. v \in 0..255 /\ v # 2
  BY FlagsAre
<1> HIDE DEF v, b
<1>3. IsBlock(b) /\ b[1] = Num(v)
  BY <1>1, FramedIs
<1>4. Num(v) # Num(2)
  <2>1. 2 \in 0..255
    OBVIOUS
  <2> QED
    BY <1>2, <2>1, NumSame
<1>5. \A c \in Num(v) : ~ MacAtom(c)
  BY DEF Num, MacAtom, Made
<1> QED
  BY <1>1, <1>3, <1>4, <1>5 DEF b, v, NotCounter

LEMMA CcmInputIs ==
  ASSUME NEW nonce, IsCcmNonce(nonce), NEW aad, Clean(aad), NEW msg, Clean(msg),
         NEW tl \in 1..B, CcmCbcMac("k", nonce, aad, msg, tl).ok
  PROVE  \E z : /\ IsBlock(z) /\ CcmInput(z, nonce, aad, msg, tl)
                /\ CcmCbcMac("k", nonce, aad, msg, tl) = Ok(E("k", z))
<1> DEFINE b == CcmFrame(nonce, aad, msg, tl)
           p == CcmPrefix(aad)
           n == Parts(Len(p))
           m == Parts(Len(msg))
<1>1. Clean(p)
  <2>1. Clean(<< Num(Len(aad)) >>)
    BY One, CleanNum DEF Clean
  <2> QED
    BY <2>1, CleanJoin, CleanEmpty DEF CcmPrefix
<1>2. IsBlock(b)
  BY CcmFrameIs DEF NotCounter
<1>3. CcmCbcMac("k", nonce, aad, msg, tl) = Ok(AbsorbE("k", AbsorbE("k", E("k", b), p), msg))
  BY DEF CcmCbcMac, AbsorbE, CcmFrame, Err
<1> HIDE DEF b, p
<1>4. PICK z : /\ IsCbcChain(z, b, Chunks(p), n) /\ IsBlock(z[n])
               /\ AbsorbE("k", E("k", b), p) = E("k", z[n])
  BY <1>1, <1>2, AbsorbedChain
<1>5. PICK d : d = z[n]
  OBVIOUS
<1>6. PICK y : /\ IsCbcChain(y, d, Chunks(msg), m) /\ IsBlock(y[m])
               /\ AbsorbE("k", E("k", d), msg) = E("k", y[m])
  <2>1. IsBlock(d)
    BY <1>4, <1>5
  <2> QED
    BY <2>1, AbsorbedChain
<1> HIDE DEF n, m
<1>7. PICK x : IsCbcChain(x, b, Series(Chunks(p), n, Chunks(msg)), n + m) /\ x[n + m] = y[m]
  BY <1>4, <1>5, <1>6, ChainsJoin
<1>8. CcmInput(x[n + m], nonce, aad, msg, tl)
  BY <1>7 DEF CcmInput, CcmPieces, CcmCount, b, p, n, m
<1> QED
  BY <1>3, <1>4, <1>5, <1>6, <1>7, <1>8

\* Bytes taken in, and a length that fits.
CcmAad(aad) == Unmade(aad) /\ Len(aad) < 256

LEMMA AadPrefixIs ==
  ASSUME NEW aad, CcmAad(aad)
  PROVE  LET p == CcmPrefix(aad)
         IN  /\ Unmade(p)
             /\ aad = << >> => p = << >>
             /\ aad # << >> => /\ p[1] = Num(Len(aad)) /\ Len(p) = Len(aad) + 1
                               /\ \A i \in 1..Len(aad) : p[1 + i] = aad[i]
<1> DEFINE s == << Num(Len(aad)) >>
           p == CcmPrefix(aad)
<1>1. CASE aad = << >>
  <2>1. p = << >> /\ Clean(p) /\ Len(p) = 0
    BY <1>1, CleanEmpty, Empty DEF CcmPrefix
  <2>2. Unmade(p)
    BY <2>1 DEF Unmade
  <2> QED
    BY <1>1, <2>1, <2>2
<1>2. CASE aad # << >>
  <2>1. p = s \o aad
    BY <1>2 DEF CcmPrefix
  <2>2. IsString(s) /\ Len(s) = 1 /\ s[1] = Num(Len(aad)) /\ Clean(s)
    BY One, CleanNum DEF Clean
  <2>3. Clean(aad) /\ \A i \in 1..Len(aad) : \A a \in aad[i] : ~ MacAtom(a)
    BY DEF CcmAad, Unmade
  <2>4. PICK n \in Nat : n = Len(aad)
    BY <2>3, StringProperties DEF Clean
  <2> HIDE DEF s, p
  <2>5. Joins(p, s, aad)
    BY <2>1, <2>2, <2>3, JoinedParts
  <2>6. /\ Clean(p) /\ Len(p) = 1 + n /\ p[1] = s[1]
        /\ \A i \in 1..n : p[1 + i] = aad[i]
    <3>1. \A i \in 1..1 : p[i] = s[i]
      BY <2>2, <2>5 DEF Joins
    <3> QED
      BY <2>2, <2>4, <2>5, <3>1 DEF Joins
  <2>7. \A v : \A c \in Num(v) : ~ MacAtom(c)
    BY DEF Num, MacAtom, Made
  <2>8. ASSUME NEW i \in 1..(1 + n) PROVE \A a \in p[i] : ~ MacAtom(a)
    <3>1. CASE i = 1
      BY <2>2, <2>6, <2>7, <3>1
    <3>2. CASE i # 1
      <4>1. i - 1 \in 1..n /\ 1 + (i - 1) = i
        BY <3>2
      <4>2. p[i] = aad[i - 1]
        BY <2>6, <4>1
      <4> QED
        BY <2>3, <2>4, <4>1, <4>2
    <3> QED
      BY <3>1, <3>2
  <2>9. Unmade(p)
    BY <2>6, <2>8 DEF Unmade
  <2>10. Len(p) = Len(aad) + 1
    BY <2>4, <2>6
  <2> QED
    BY <1>2, <2>2, <2>4, <2>6, <2>9, <2>10 DEF p, s
<1> QED
  BY <1>1, <1>2

LEMMA CcmGood ==
  ASSUME NEW nonce, IsCcmNonce(nonce), NEW aad, CcmAad(aad), NEW msg, Unmade(msg), NEW tl \in 1..B
  PROVE  ChainGood(CcmFrame(nonce, aad, msg, tl), CcmPieces(aad, msg), CcmCount(aad, msg))
<1> DEFINE p == CcmPrefix(aad)
           n == Parts(Len(p))
           m == Parts(Len(msg))
           t == CcmPieces(aad, msg)
           b == CcmFrame(nonce, aad, msg, tl)
<1>1. Unmade(p)
  BY AadPrefixIs
<1>2. NotCounter(b) /\ \A a \in b[1] : ~ MacAtom(a)
  BY CcmFrameIs
<1> HIDE DEF b, p
<1>3. n \in Nat /\ m \in Nat
  BY <1>1, CleanChunks DEF Unmade
<1>4. (\A i \in 1..n : IsTaken(Chunks(p)[i])) /\ \A i \in 1..m : IsTaken(Chunks(msg)[i])
  BY <1>1, UnmadeChunks
<1> HIDE DEF n, m
<1>5. t = Series(Chunks(p), n, Chunks(msg)) /\ CcmCount(aad, msg) = n + m
  BY DEF CcmPieces, CcmCount, n, m, p
<1> HIDE DEF t
<1>6. ASSUME NEW i \in 1..(n + m) PROVE IsTaken(t[i])
  <2>0. i \in Nat
    BY <1>3
  <2>1. CASE i <= n
    <3>1. t[i] = Chunks(p)[i] /\ i \in 1..n
      BY <1>3, <1>5, <2>0, <2>1 DEF Series
    <3> QED
      BY <1>4, <3>1
  <2>2. CASE ~ (i <= n)
    <3>1. t[i] = Chunks(msg)[i - n] /\ i - n \in 1..m
      BY <1>3, <1>5, <2>0, <2>2 DEF Series
    <3> QED
      BY <1>4, <3>1
  <2> QED
    BY <2>1, <2>2
<1>7. n + m \in Nat
  BY <1>3
<1>8. ChainGood(b, t, n + m)
  BY <1>2, <1>6, <1>7 DEF ChainGood
<1> QED
  BY <1>5, <1>8 DEF b, t

CcmMade(z, nonce, aad, msg, tl) ==
  /\ IsCcmNonce(nonce) /\ CcmAad(aad) /\ Unmade(msg) /\ tl \in 1..B
  /\ CcmInput(z, nonce, aad, msg, tl)

LEMMA CcmInputShows ==
  ASSUME NEW nonce, NEW aad, NEW msg, NEW tl, NEW z, CcmMade(z, nonce, aad, msg, tl)
  PROVE  NotCounter(z)
<1>1. PICK n : n = CcmCount(aad, msg)
  OBVIOUS
<1>2. PICK b, t : b = CcmFrame(nonce, aad, msg, tl) /\ t = CcmPieces(aad, msg)
  OBVIOUS
<1>3. PICK y : IsCbcChain(y, b, t, n) /\ z = y[n]
  BY <1>1, <1>2 DEF CcmMade, CcmInput
<1>4. ChainGood(b, t, n)
  BY <1>1, <1>2, CcmGood DEF CcmMade
<1>5. \A i \in 0..n : NotCounter(y[i])
  BY <1>3, <1>4, ChainBlocks
<1>6. n \in 0..n
  BY <1>3 DEF IsCbcChain
<1> QED
  BY <1>3, <1>5, <1>6

LEMMA ChainsTell ==
  ASSUME NEW z, NEW b, NEW t, NEW n, IsCbcChain(z, b, t, n), ChainGood(b, t, n),
         NEW y, NEW d, NEW u, NEW m, IsCbcChain(y, d, u, m), ChainGood(d, u, m),
         z[n] = y[m]
  PROVE  n = m /\ b = d /\ SamePieces(t, u, n)
<1>1. n \in Nat /\ m \in Nat
  BY DEF ChainGood
<1>2. CASE n <= m
  BY <1>2, ChainTellsLong
<1>3. CASE m <= n
  <2>1. y[m] = z[n]
    OBVIOUS
  <2>2. m = n /\ d = b /\ SamePieces(u, t, m)
    BY <1>3, <2>1, ChainTellsLong
  <2> QED
    BY <2>2 DEF SamePieces
<1> QED
  BY <1>1, <1>2, <1>3

LEMMA FramedParts ==
  ASSUME NEW v, NEW w, NEW nonce, IsCcmNonce(nonce)
  PROVE  Framed(v, nonce, w)[1] = Num(v) /\ Framed(v, nonce, w)[B] = Num(w)
<1> DEFINE s == << Num(v) >>
           t == << Num(w) >>
           u == s \o nonce
           x == u \o t
<1>1. Clean(s) /\ Len(s) = 1 /\ Clean(t) /\ Len(t) = 1 /\ t[1] = Num(w)
  BY One, CleanNum DEF Clean
<1>2. B \in Nat /\ B >= 3
  BY BlockLen
<1>3. Clean(nonce) /\ Len(nonce) = B - 2
  BY DEF IsCcmNonce
<1> HIDE DEF s, t
<1>4. Joins(u, s, nonce)
  BY <1>1, <1>3, JoinedParts
<1>5. Clean(u) /\ Len(u) = 1 + (B - 2)
  BY <1>1, <1>3, <1>4 DEF Joins
<1> HIDE DEF u
<1>6. Joins(x, u, t)
  BY <1>1, <1>5, JoinedParts
<1> HIDE DEF x
<1>7. \A i \in 1..1 : x[(1 + (B - 2)) + i] = t[i]
  BY <1>1, <1>5, <1>6 DEF Joins
<1>8. (1 + (B - 2)) + 1 = B
  BY <1>2
<1>9. x[B] = Num(w)
  BY <1>1, <1>7, <1>8
<1> QED
  BY <1>9, FramedIs DEF x, u, s, t, Framed

(* The last block the MAC enciphers tells nonce, aad and message.          *)
LEMMA FramesTell ==
  ASSUME NEW nonce, NEW aad, NEW msg, NEW tl, NEW n, NEW d, NEW q,
         IsCcmNonce(nonce), IsCcmNonce(n), tl \in 1..B, Len(msg) \in Nat, Len(q) \in Nat,
         CcmFrame(nonce, aad, msg, tl) = CcmFrame(n, d, q, tl)
  PROVE  /\ nonce = n /\ (aad = << >> <=> d = << >>)
         /\ Len(msg) % LenRadix = Len(q) % LenRadix
<1> DEFINE v == FlagsOf(aad, tl)
           w == FlagsOf(d, tl)
           l == Len(msg) % LenRadix
           k == Len(q) % LenRadix
<1>1. Framed(v, nonce, l) = Framed(w, n, k)
  BY DEF CcmFrame, CcmB0, CcmFlags, Framed, FlagsOf
<1>2. /\ v \in 0..255 /\ w \in 0..255
      /\ v = 8 * tl + 2 <=> aad = << >>
      /\ w = 8 * tl + 2 <=> d = << >>
  BY FlagsAre
<1>3. l \in 0..255 /\ k \in 0..255
  <2>1. PICK r : r = LenRadix /\ r \in Nat \ {0} /\ r <= 256
    BY LimitAssumption, BlockLen
  <2>2. \A x \in Nat : x % r \in 0..255
    BY <2>1
  <2> QED
    BY <2>1, <2>2, ZenonT(60)
<1> HIDE DEF v, w, l, k
<1>4. nonce = n
  BY <1>1, FramedTells
<1>5. Num(v) = Num(w) /\ Num(l) = Num(k)
  BY <1>1, FramedParts
<1>6. v = w
  BY <1>2, <1>5, NumSame, ZenonT(60)
<1>7. l = k
  BY <1>3, <1>5, NumSame
<1> QED
  BY <1>2, <1>4, <1>6, <1>7 DEF l, k

\* The pieces of aad and message, told apart.
LEMMA SeriesTell ==
  ASSUME NEW n \in Nat, NEW m \in Nat, NEW t, NEW u, NEW r, NEW s,
         SamePieces(Series(t, n, u), Series(r, n, s), n + m)
  PROVE  SamePieces(t, r, n) /\ SamePieces(u, s, m)
<1> DEFINE x == Series(t, n, u)
           y == Series(r, n, s)
<1>1. \A i \in 1..(n + m) : \A j \in 1..B : ByteAt(x[i], j) = ByteAt(y[i], j)
  BY DEF SamePieces
<1>2. \A i \in 1..n : x[i] = t[i] /\ y[i] = r[i] /\ i \in 1..(n + m)
  BY DEF Series
<1>3. \A i \in 1..m : x[n + i] = u[i] /\ y[n + i] = s[i] /\ n + i \in 1..(n + m)
  <2> TAKE i \in 1..m
  <2>1. n + i \in Nat /\ ~ (n + i <= n) /\ (n + i) - n = i /\ n + i \in 1..(n + m)
    OBVIOUS
  <2> QED
    BY <2>1 DEF Series
<1> HIDE DEF x, y
<1>4. \A i \in 1..n : \A j \in 1..B : ByteAt(t[i], j) = ByteAt(r[i], j)
  BY <1>1, <1>2
<1>5. \A i \in 1..m : \A j \in 1..B : ByteAt(u[i], j) = ByteAt(s[i], j)
  BY <1>1, <1>3
<1> QED
  BY <1>4, <1>5 DEF SamePieces

\* The length before the aad is its first byte.
LEMMA PrefixFirst ==
  ASSUME NEW aad, CcmAad(aad), aad # << >>
  PROVE  LET p == CcmPrefix(aad)
         IN  1 \in 1..Parts(Len(p)) /\ ByteAt(Chunks(p)[1], 1) = Num(Len(aad))
<1> DEFINE p == CcmPrefix(aad)
<1>1. Unmade(p) /\ p[1] = Num(Len(aad)) /\ Len(p) = Len(aad) + 1
  BY AadPrefixIs
<1>2. Len(aad) \in Nat
  BY StringProperties DEF CcmAad, Unmade, Clean
<1> HIDE DEF p
<1>3. PICK l \in Nat : l = Len(p) /\ 1 \in 1..l
  BY <1>1, <1>2
<1>4. PICK g \in 1..Parts(l) : \E j \in 1..PartLen(g, l) : 1 = Off(g - 1) + j
  BY <1>3, PartPlace
<1>5. PICK j \in 1..PartLen(g, l) : 1 = Off(g - 1) + j
  BY <1>4
<1>6. PICK b \in Nat : b = B /\ b >= 3
  BY BlockLen
<1>7. g = 1 /\ j = 1
  <2>1. Parts(l) \in Nat
    BY PartsAre
  <2>2. g - 1 \in Nat /\ g \in Nat
    BY <2>1
  <2>3. Off(g - 1) \in Nat /\ (g - 1 # 0 => Off(g - 1) >= b)
    <3>1. PICK h \in Nat : h = g - 1
      BY <2>2
    <3>2. Off(h) \in Nat /\ (h # 0 => h - 1 \in Nat /\ Off(h) = Off(h - 1) + b)
      BY <1>6, OffIs
    <3>3. h # 0 => Off(h - 1) \in Nat
      BY <3>2, OffIs
    <3> QED
      BY <1>6, <3>1, <3>2, <3>3
  <2>4. PartLen(g, l) \in 1..B
    BY PartsAre
  <2>5. j \in Nat /\ j >= 1
    BY <1>6, <2>4
  <2> QED
    BY <1>5, <1>6, <2>2, <2>3, <2>5
<1>8. 1 \in 1..Parts(l) /\ 1 \in 1..PartLen(1, l)
  BY <1>4, <1>5, <1>7
<1>9. /\ Chunks(p)[1][1] = p[1] /\ Len(Chunks(p)[1]) = PartLen(1, l)
  <2>1. IsString(p)
    BY <1>1 DEF Unmade, Clean
  <2>2. \A i \in 1..Parts(l) : \A k \in 1..PartLen(i, l) : Chunks(p)[i][k] = p[Off(i - 1) + k]
    BY <1>3, <2>1, ChunksAre
  <2>3. Len(Chunks(p)[1]) = PartLen(1, l)
    BY <1>1, <1>3, <1>8, CleanChunks DEF Unmade
  <2> QED
    BY <1>5, <1>7, <1>8, <2>2, <2>3
<1>10. 1 <= PartLen(1, l)
  <2>1. PartLen(1, l) \in 1..B
    BY <1>8, PartsAre
  <2> QED
    BY <2>1, <1>6
<1>11. ByteAt(Chunks(p)[1], 1) = Num(Len(aad))
  BY <1>1, <1>9, <1>10 DEF ByteAt
<1> QED
  BY <1>3, <1>8, <1>11 DEF p

LEMMA AadsTell ==
  ASSUME NEW aad, CcmAad(aad), NEW d, CcmAad(d), aad # << >>, d # << >>,
         Len(CcmPrefix(aad)) = Len(CcmPrefix(d)), CcmPrefix(aad) = CcmPrefix(d)
  PROVE  aad = d
<1>1. IsString(aad) /\ IsString(d)
  BY DEF CcmAad, Unmade, Clean
<1>2. PICK n \in Nat : n = Len(aad)
  BY <1>1, StringProperties
<1>3. PICK m \in Nat : m = Len(d)
  BY <1>1, StringProperties
<1>4. Len(CcmPrefix(aad)) = n + 1 /\ \A i \in 1..n : CcmPrefix(aad)[1 + i] = aad[i]
  BY <1>2, AadPrefixIs
<1>5. Len(CcmPrefix(d)) = m + 1 /\ \A i \in 1..m : CcmPrefix(d)[1 + i] = d[i]
  BY <1>3, AadPrefixIs
<1>6. n = m
  BY <1>4, <1>5
<1>7. \A i \in 1..n : aad[i] = d[i]
  BY <1>4, <1>5, <1>6
<1> QED
  BY <1>1, <1>2, <1>3, <1>6, <1>7, SameString

LEMMA CcmInputTells ==
  ASSUME NEW z, NEW nonce, NEW aad, NEW msg, NEW tl, CcmMade(z, nonce, aad, msg, tl),
         NEW n, NEW d, NEW q, CcmMade(z, n, d, q, tl)
  PROVE  nonce = n /\ aad = d /\ msg = q
<1>1. /\ IsCcmNonce(nonce) /\ CcmAad(aad) /\ Unmade(msg) /\ tl \in 1..B
      /\ IsCcmNonce(n) /\ CcmAad(d) /\ Unmade(q)
  BY DEF CcmMade
<1>2. PICK b, t, c : /\ b = CcmFrame(nonce, aad, msg, tl) /\ t = CcmPieces(aad, msg)
                     /\ c = CcmCount(aad, msg)
  OBVIOUS
<1>3. PICK e, u, g : /\ e = CcmFrame(n, d, q, tl) /\ u = CcmPieces(d, q)
                     /\ g = CcmCount(d, q)
  OBVIOUS
<1>4. PICK y : IsCbcChain(y, b, t, c) /\ z = y[c]
  BY <1>2 DEF CcmMade, CcmInput
<1>5. PICK x : IsCbcChain(x, e, u, g) /\ z = x[g]
  BY <1>3 DEF CcmMade, CcmInput
<1>6. ChainGood(b, t, c)
  BY <1>1, <1>2, CcmGood
<1>7. ChainGood(e, u, g)
  BY <1>1, <1>3, CcmGood
<1>8. c = g /\ b = e /\ SamePieces(t, u, c)
  <2>1. y[c] = x[g]
    BY <1>4, <1>5
  <2> QED
    BY <1>4, <1>5, <1>6, <1>7, <2>1, ChainsTell
<1>9. PICK l \in Nat : l = Len(msg)
  BY <1>1, StringProperties DEF Unmade, Clean
<1>10. PICK k \in Nat : k = Len(q)
  BY <1>1, StringProperties DEF Unmade, Clean
<1>11. nonce = n /\ (aad = << >> <=> d = << >>) /\ l % LenRadix = k % LenRadix
  <2>1. CcmFrame(nonce, aad, msg, tl) = CcmFrame(n, d, q, tl)
    BY <1>2, <1>3, <1>8
  <2>2. Len(msg) \in Nat /\ Len(q) \in Nat
    BY <1>9, <1>10
  <2>3. nonce = n /\ (aad = << >> <=> d = << >>) /\ Len(msg) % LenRadix = Len(q) % LenRadix
    BY <1>1, <2>1, <2>2, FramesTell
  <2> QED
    BY <1>9, <1>10, <2>3
<1>12. PICK p, r : p = CcmPrefix(aad) /\ r = CcmPrefix(d)
  OBVIOUS
<1>13. Unmade(p) /\ Unmade(r)
  BY <1>1, <1>12, AadPrefixIs
<1>14. PICK i \in Nat : i = Parts(Len(p))
  BY <1>13, CleanChunks DEF Unmade
<1>15. PICK j \in Nat : j = Parts(Len(r))
  BY <1>13, CleanChunks DEF Unmade
<1>16. t = Series(Chunks(p), i, Chunks(msg)) /\ c = i + Parts(l)
  BY <1>2, <1>9, <1>12, <1>14 DEF CcmPieces, CcmCount
<1>17. u = Series(Chunks(r), j, Chunks(q)) /\ g = j + Parts(k)
  BY <1>3, <1>10, <1>12, <1>15 DEF CcmPieces, CcmCount
<1>18. Parts(l) \in Nat /\ Parts(k) \in Nat
  BY PartsAre
<1>19. Len(p) = Len(r)
  <2>1. CASE aad = << >>
    BY <1>1, <1>11, <1>12, <2>1, AadPrefixIs
  <2>2. CASE aad # << >>
    <3>1. d # << >>
      BY <1>11, <2>2
    <3>2. 1 \in 1..i /\ ByteAt(Chunks(p)[1], 1) = Num(Len(aad))
      BY <1>1, <1>12, <1>14, <2>2, PrefixFirst
    <3>3. 1 \in 1..j /\ ByteAt(Chunks(r)[1], 1) = Num(Len(d))
      BY <1>1, <1>12, <1>15, <3>1, PrefixFirst
    <3>4. t[1] = Chunks(p)[1] /\ u[1] = Chunks(r)[1]
      BY <1>16, <1>17, <3>2, <3>3 DEF Series
    <3>5. ByteAt(t[1], 1) = ByteAt(u[1], 1)
      <4>1. 1 \in 1..c /\ 1 \in 1..B
        BY <1>14, <1>16, <1>18, <3>2, BlockLen
      <4> QED
        BY <1>8, <4>1 DEF SamePieces
    <3>6. Len(aad) \in 0..255 /\ Len(d) \in 0..255
      <4>1. \A s : CcmAad(s) => Len(s) \in Nat /\ Len(s) < 256
        BY StringProperties DEF CcmAad, Unmade, Clean
      <4>2. Len(aad) \in Nat /\ Len(aad) < 256 /\ Len(d) \in Nat /\ Len(d) < 256
        BY <1>1, <4>1
      <4>3. \A e1 \in Nat : e1 < 256 => e1 \in 0..255
        OBVIOUS
      <4> QED
        BY <4>2, <4>3
    <3>7. Num(Len(aad)) = Num(Len(d))
      BY <3>2, <3>3, <3>4, <3>5
    <3>8. Len(aad) = Len(d)
      BY <3>6, <3>7, NumSame
    <3> QED
      BY <1>1, <1>12, <2>2, <3>1, <3>8, AadPrefixIs
  <2> QED
    BY <2>1, <2>2
<1>20. i = j /\ Parts(l) = Parts(k)
  <2>1. i = j
    BY <1>14, <1>15, <1>19
  <2>2. i + Parts(l) = j + Parts(k)
    BY <1>8, <1>16, <1>17
  <2> QED
    BY <1>18, <2>1, <2>2
<1>21. SamePieces(Chunks(p), Chunks(r), i) /\ SamePieces(Chunks(msg), Chunks(q), Parts(l))
  BY <1>8, <1>16, <1>17, <1>18, <1>20, SeriesTell
<1>22. p = r
  BY <1>13, <1>14, <1>19, <1>21, ChunksTell DEF Unmade
<1>23. aad = d
  BY <1>1, <1>11, <1>12, <1>19, <1>22, AadsTell
<1>24. msg = q
  <2>1. l = k
    BY <1>11, <1>20, LengthTold
  <2> QED
    BY <1>1, <1>9, <1>10, <1>21, <2>1, ChunksTell DEF Unmade
<1> QED
  BY <1>11, <1>23, <1>24

-----------------------------------------------------------------------------
(* What CCM seals with a tag of tl bytes, and what opens.                  *)

CcmText(v, nonce, aad, p, tl, z) ==
  /\ IsString(v) /\ IsCcmNonce(nonce) /\ Clean(aad) /\ Clean(p) /\ tl \in 1..B
  /\ Len(v) = Len(p) + tl
  /\ IsBlock(z) /\ CcmInput(z, nonce, aad, p, tl)
  /\ \A i \in 1..Len(p) : v[i] = CcmStream(nonce, p)[i]
  /\ \A i \in 1..Len(p) : IsMasked(v[i], p[i]) /\ IsMasked(p[i], v[i])
  /\ \A j \in 1..tl : v[Len(p) + j] = TagByte(z, nonce, j)

LEMMA CutTagIs ==
  ASSUME NEW nonce, IsCcmNonce(nonce), NEW z, IsBlock(z), NEW tl \in 1..B,
         NEW t, t = CcmTag("k", nonce, E("k", z), tl)
  PROVE  Clean(t) /\ Len(t) = tl /\ \A j \in 1..tl : t[j] = TagByte(z, nonce, j)
<1>1. PICK s : s = Xor(E("k", z), E("k", CcmA(nonce, 0)))
  OBVIOUS
<1>2. IsBlock(s)
  <2>1. IsBlock(CcmA(nonce, 0))
    BY CcmAIs DEF IsCounter
  <2>2. IsBlock(E("k", z)) /\ IsBlock(E("k", CcmA(nonce, 0)))
    BY <2>1, BlockEnciphered
  <2> QED
    BY <1>1, <2>2, BlockSum
<1>3. \A j \in 1..B : s[j] = TagByte(z, nonce, j)
  <2>1. SubSeq(s, 1, B) = s
    BY <1>2, WholePart DEF IsBlock, Clean
  <2>2. s = CcmTag("k", nonce, E("k", z), B)
    BY <1>1, <2>1 DEF CcmTag
  <2>3. \A j \in 1..B : CcmTag("k", nonce, E("k", z), B)[j] = TagByte(z, nonce, j)
    BY CcmTagIs
  <2> QED
    BY <2>2, <2>3
<1>4. t = SubSeq(s, 1, tl)
  BY <1>1 DEF CcmTag
<1>5. PICK a \in Nat \ {0}, b \in Nat : a = 1 /\ b = tl /\ b <= B /\ a <= b + 1
  BY BlockLen
<1>6. t = SubSeq(s, a, b) /\ Clean(s) /\ IsString(s) /\ b <= Len(s)
  BY <1>2, <1>4, <1>5 DEF IsBlock, Clean
<1>7. Clean(t) /\ Len(t) = b - a + 1
  BY <1>5, <1>6, CleanPart, ZenonT(60)
<1>8. \A i \in 1..(b - a + 1) : t[i] = s[a + i - 1]
  BY <1>5, <1>6, PartIs
<1>9. Len(t) = b /\ \A i \in 1..b : t[i] = s[i] /\ i \in 1..B
  BY <1>5, <1>7, <1>8, BlockLen
<1> QED
  BY <1>3, <1>5, <1>7, <1>9

LEMMA CcmMaskedBoth ==
  ASSUME NEW nonce, IsCcmNonce(nonce), NEW c, Clean(c), NEW p, p = CcmStream(nonce, c)
  PROVE  /\ Clean(p) /\ Len(p) = Len(c) /\ CcmStream(nonce, p) = c
         /\ \A i \in 1..Len(p) : IsMasked(c[i], p[i]) /\ IsMasked(p[i], c[i])
<1>1. /\ Clean(p) /\ Len(p) = Len(c) /\ CcmStream(nonce, p) = c
      /\ \A i \in 1..Len(c) : IsMasked(p[i], c[i])
  BY CcmStreamIs
<1>2. \A i \in 1..Len(p) : IsMasked(CcmStream(nonce, p)[i], p[i])
  BY <1>1, CcmStreamIs
<1> QED
  BY <1>1, <1>2

LEMMA CcmOpensAs ==
  ASSUME NEW nonce, IsCcmNonce(nonce), NEW aad, Clean(aad), NEW w, Clean(w), NEW tl \in 1..B,
         NEW r, r = DecryptCcm("k", nonce, aad, w, tl), r.ok
  PROVE  \E z : CcmText(w, nonce, aad, r.val, tl, z)
<1>1. PICK m \in Nat : m = Len(w)
  BY StringProperties DEF Clean
<1>2. tl \in Nat /\ tl >= 1 /\ tl <= B /\ B \in Nat
  BY BlockLen
<1>3. m >= tl
  <2> SUFFICES ASSUME m < tl PROVE FALSE
    BY <1>2
  <2>1. r = Err("InvalidInputLength")
    BY <1>1 DEF DecryptCcm
  <2> QED
    BY <2>1 DEF Err
<1>4. PICK n \in Nat : n = m - tl /\ n + tl = m
  BY <1>2, <1>3
<1>5. PICK c, t : c = SubSeq(w, 1, n) /\ t = SubSeq(w, n + 1, m)
  OBVIOUS
<1>6. Clean(c) /\ Len(c) = n /\ \A i \in 1..n : c[i] = w[i]
  <2>1. PICK a \in Nat \ {0} : a = 1 /\ a <= n + 1 /\ n <= m /\ n - a + 1 = n
    BY <1>2, <1>4
  <2>2. c = SubSeq(w, a, n) /\ n <= Len(w) /\ IsString(w)
    BY <1>1, <1>5, <2>1 DEF Clean
  <2>3. Clean(c) /\ Len(c) = n - a + 1
    BY <2>1, <2>2, CleanPart
  <2>4. \A i \in 1..(n - a + 1) : c[i] = w[a + i - 1]
    BY <2>1, <2>2, PartIs
  <2> QED
    BY <2>1, <2>3, <2>4
<1>7. IsString(t) /\ Len(t) = tl /\ \A i \in 1..tl : t[i] = w[n + i]
  <2>1. PICK a : a = n + 1
    OBVIOUS
  <2>2. IsString(w) /\ t = SubSeq(w, a, m) /\ m <= m
    BY <1>5, <2>1 DEF Clean
  <2>3. tl \in Nat /\ m = n + tl
    BY <1>2, <1>4
  <2>4. PartAt(t, w, n, tl)
    BY <1>1, <2>1, <2>2, <2>3, PartOf
  <2> QED
    BY <2>4 DEF PartAt
<1>8. PICK p : p = CcmStream(nonce, c)
  OBVIOUS
<1>9. /\ Clean(p) /\ Len(p) = n /\ CcmStream(nonce, p) = c
      /\ \A i \in 1..n : IsMasked(c[i], p[i]) /\ IsMasked(p[i], c[i])
  BY <1>6, <1>8, CcmMaskedBoth
<1>10. PICK auth : auth = CcmCbcMac("k", nonce, aad, p, tl)
  OBVIOUS
<1>11. r = CcmOpened("k", nonce, p, t, tl, auth)
  <2>1. ~ (Len(w) < tl) /\ SubSeq(w, 1, Len(w) - tl) = c /\ SubSeq(w, Len(c) + 1, Len(w)) = t
    <3>1. ~ (m < tl) /\ m - tl = n
      BY <1>2, <1>3, <1>4
    <3>2. Len(w) = m /\ Len(c) = n
      BY <1>1, <1>6
    <3> QED
      BY <1>5, <3>1, <3>2
  <2>2. KeyStreamed("k", CcmCounters(nonce, c), c) = p
    BY <1>8 DEF CcmStream
  <2> QED
    BY <1>10, <2>1, <2>2 DEF DecryptCcm, CcmOpenedOf
<1>12. auth.ok
  <2> SUFFICES ASSUME ~ auth.ok PROVE FALSE
    OBVIOUS
  <2>1. r = auth
    BY <1>11 DEF CcmOpened
  <2> QED
    BY <2>1
<1>13. PICK z : IsBlock(z) /\ CcmInput(z, nonce, aad, p, tl) /\ auth = Ok(E("k", z))
  BY <1>9, <1>10, <1>12, CcmInputIs
<1>14. CcmTag("k", nonce, E("k", z), tl) = t /\ r.val = p
  <2>1. r = OpenedIf(CcmTag("k", nonce, E("k", z), tl) = t, p, "AuthTagMismatch")
    BY <1>11, <1>13 DEF CcmOpened, Ok
  <2> QED
    BY <2>1 DEF OpenedIf, Err, Ok
<1>15. \A j \in 1..tl : t[j] = TagByte(z, nonce, j)
  BY <1>13, <1>14, CutTagIs
<1>16. CcmText(w, nonce, aad, p, tl, z)
  <2>1. \A j \in 1..tl : w[n + j] = TagByte(z, nonce, j)
    BY <1>7, <1>15
  <2>2. \A i \in 1..n : /\ w[i] = CcmStream(nonce, p)[i]
                        /\ IsMasked(w[i], p[i]) /\ IsMasked(p[i], w[i])
    BY <1>6, <1>9
  <2>3. IsString(w) /\ Len(w) = n + tl
    BY <1>1, <1>4 DEF Clean
  <2> QED
    BY <1>9, <1>13, <2>1, <2>2, <2>3 DEF CcmText
<1> QED
  BY <1>14, <1>16

\* What CCM seals is a clean string that opens.
LEMMA CcmSealClean ==
  ASSUME NEW nonce, IsCcmNonce(nonce), NEW aad, Clean(aad), NEW pt, Clean(pt), NEW tl,
         NEW s, s = EncryptCcm("k", nonce, aad, pt, tl), s.ok
  PROVE  tl \in 1..B /\ Clean(s.ct) /\ s.tag = << >>
<1>1. tl \in 1..B
  <2> SUFFICES ASSUME tl \notin 1..B PROVE FALSE
    OBVIOUS
  <2>1. s = Err("panic")
    BY DEF EncryptCcm
  <2> QED
    BY <2>1 DEF Err
<1>2. PICK auth : auth = CcmCbcMac("k", nonce, aad, pt, tl)
  OBVIOUS
<1>3. s = CcmSealed("k", nonce, pt, tl, auth)
  BY <1>1, <1>2 DEF EncryptCcm
<1>4. auth.ok
  <2> SUFFICES ASSUME ~ auth.ok PROVE FALSE
    OBVIOUS
  <2>1. s = auth
    BY <1>3 DEF CcmSealed
  <2> QED
    BY <2>1
<1>5. PICK z : IsBlock(z) /\ auth = Ok(E("k", z))
  BY <1>1, <1>2, <1>4, CcmInputIs
<1>6. PICK f, t : f = CcmStream(nonce, pt) /\ t = CcmTag("k", nonce, E("k", z), tl)
  OBVIOUS
<1>7. s = Sealed(f \o t, << >>)
  BY <1>3, <1>5, <1>6 DEF CcmSealed, Ok, CcmStream
<1>8. Clean(f)
  BY <1>6, CcmStreamIs
<1>9. Clean(t)
  BY <1>1, <1>5, <1>6, CutTagIs
<1>10. Clean(f \o t)
  BY <1>8, <1>9, CleanJoin
<1>11. s.ct = f \o t /\ s.tag = << >>
  BY <1>7 DEF Sealed
<1> QED
  BY <1>1, <1>10, <1>11

LEMMA CcmSealsAs ==
  ASSUME NEW nonce, IsCcmNonce(nonce), NEW aad, Clean(aad), NEW pt, Clean(pt), NEW tl,
         NEW s, s = EncryptCcm("k", nonce, aad, pt, tl), s.ok
  PROVE  \E z : CcmText(s.ct, nonce, aad, pt, tl, z)
<1>1. tl \in 1..B /\ Clean(s.ct)
  BY CcmSealClean
<1>2. PICK w : w = s.ct
  OBVIOUS
<1>3. DecryptCcm("k", nonce, aad, w, tl) = Ok(pt)
  <2>1. Clean(nonce) /\ Len(nonce) = B - 2 /\ EncryptCcm("k", nonce, aad, pt, tl).ok
    BY DEF IsCcmNonce
  <2>2. DecryptCcm("k", nonce, aad, EncryptCcm("k", nonce, aad, pt, tl).ct, tl) = Ok(pt)
    BY <2>1, CcmBack
  <2> QED
    BY <1>2, <2>2
<1>4. PICK r : r = DecryptCcm("k", nonce, aad, w, tl)
  OBVIOUS
<1>5. r.ok /\ r.val = pt
  BY <1>3, <1>4 DEF Ok
<1>6. \E z : CcmText(w, nonce, aad, r.val, tl, z)
  BY <1>1, <1>2, <1>4, <1>5, CcmOpensAs
<1> QED
  BY <1>2, <1>5, <1>6

\* What is sealed is of a caller's bytes, and fits.
CcmSealedText(w, n, d, q, tl, y) ==
  CcmText(w, n, d, q, tl, y) /\ Of(q, {"p"}) /\ Of(d, {"p"}) /\ Len(d) + 1 < 256

LEMMA OfUnmade ==
  ASSUME NEW s, NEW K, Of(s, K), "E" \notin K, "D" \notin K
  PROVE  Unmade(s)
<1>1. IsString(s) /\ \A i \in 1..Len(s) : \A a \in s[i] : a[1] # "E" /\ a[1] # "D"
  BY DEF Of
<1>2. \A a : MacAtom(a) => a[1] = "E"
  BY DEF MacAtom, Made
<1> QED
  BY <1>1, <1>2 DEF Unmade, Clean

LEMMA MaskedOf ==
  ASSUME NEW c, NEW d, IsMasked(c, d), NEW K, \A a \in d : a[1] \in K
  PROVE  \A a \in c : a[1] \in K \cup {"E"}
<1>1. PICK m, j : c = SymDiff(d, {Made("k", m, j)})
  BY DEF IsMasked
<1>2. Made("k", m, j)[1] = "E"
  BY DEF Made
<1> QED
  BY <1>1, <1>2 DEF SymDiff

LEMMA CcmSealedShows ==
  ASSUME NEW w, NEW n, NEW d, NEW q, NEW tl, NEW y, CcmSealedText(w, n, d, q, tl, y)
  PROVE  /\ CcmMade(y, n, d, q, tl) /\ NotCounter(y) /\ y # CcmA(n, 0)
         /\ Of(w, {"p", "E"}) /\ Len(q) \in Nat /\ IsString(w) /\ IsCcmNonce(n)
<1>1. /\ IsString(w) /\ IsCcmNonce(n) /\ Clean(d) /\ Clean(q) /\ tl \in 1..B
      /\ Len(w) = Len(q) + tl /\ IsBlock(y) /\ CcmInput(y, n, d, q, tl)
      /\ Of(q, {"p"}) /\ Of(d, {"p"}) /\ Len(d) + 1 < 256
  BY DEF CcmSealedText, CcmText
<1>2. \A i \in 1..Len(q) : IsMasked(w[i], q[i])
  BY DEF CcmSealedText, CcmText
<1>3. \A j \in 1..tl : w[Len(q) + j] = TagByte(y, n, j)
  BY DEF CcmSealedText, CcmText
<1>4. PICK l \in Nat : l = Len(q)
  BY <1>1, StringProperties DEF Clean
<1>5. Unmade(q) /\ Unmade(d)
  BY <1>1, OfUnmade
<1>6. CcmMade(y, n, d, q, tl)
  <2>1. PICK k \in Nat : k = Len(d)
    BY <1>1, StringProperties DEF Clean
  <2>2. k < 256
    BY <1>1, <2>1
  <2> QED
    BY <1>1, <1>5, <2>1, <2>2 DEF CcmMade, CcmAad
<1>7. NotCounter(y)
  BY <1>6, CcmInputShows
<1>8. y # CcmA(n, 0)
  BY <1>1, <1>7, CcmAIs DEF NotCounter, IsCounter
<1>9. Of(w, {"p", "E"})
  <2>1. PICK t \in Nat : t = tl
    BY <1>1, BlockLen
  <2>2. ASSUME NEW i \in 1..(l + t), NEW a \in w[i] PROVE a[1] \in {"p", "E"}
    <3>1. CASE i <= l
      <4>1. i \in 1..l
        BY <3>1
      <4>2. IsMasked(w[i], q[i]) /\ \A b \in q[i] : b[1] \in {"p"}
        BY <1>1, <1>2, <1>4, <4>1 DEF Of
      <4>3. \A b \in w[i] : b[1] \in {"p"} \cup {"E"}
        BY <4>2, MaskedOf
      <4> QED
        BY <2>2, <4>3
    <3>2. CASE ~ (i <= l)
      <4>1. PICK j \in 1..t : i = l + j
        <5>1. i - l \in 1..t /\ i = l + (i - l)
          BY <3>2
        <5> QED
          BY <5>1
      <4>2. w[i] = TagByte(y, n, j)
        BY <1>3, <1>4, <2>1, <4>1
      <4>3. \A b \in TagByte(y, n, j) : b[1] = "E"
        BY <1>1, TagByteIs
      <4> QED
        BY <2>2, <4>2, <4>3
    <3> QED
      BY <3>1, <3>2
  <2>3. Len(w) = l + t
    BY <1>1, <1>4, <2>1
  <2> QED
    BY <1>1, <2>2, <2>3 DEF Of
<1> QED
  BY <1>1, <1>4, <1>6, <1>7, <1>8, <1>9

LEMMA TagByteTells ==
  ASSUME NEW z, NotCounter(z), NEW m, IsCcmNonce(m), NEW y, NotCounter(y), NEW n, IsCcmNonce(n),
         TagByte(z, m, 1) = TagByte(y, n, 1)
  PROVE  z = y
<1>1. PICK c, d : c = CcmA(m, 0) /\ d = CcmA(n, 0)
  OBVIOUS
<1>2. IsCounter(c) /\ IsCounter(d)
  BY <1>1, CcmAIs
<1>3. /\ IsString(z) /\ IsString(y) /\ IsString(c) /\ IsString(d) /\ IsBlock(z) /\ IsBlock(y)
      /\ c # z /\ d # z /\ c # y
  BY <1>2 DEF NotCounter, IsCounter, IsBlock, Clean
<1>4. Made("k", z, 1) \in TagByte(z, m, 1)
  BY <1>1, <1>3, TagByteIs
<1>5. \A e \in TagByte(y, n, 1) : e = Made("k", y, 1) \/ e = Made("k", d, 1)
  BY <1>1, <1>3, TagByteIs
<1>6. Made("k", z, 1) # Made("k", d, 1)
  BY <1>3, MadeTells
<1>7. Made("k", z, 1) = Made("k", y, 1)
  BY <1>4, <1>5, <1>6
<1> QED
  BY <1>3, <1>7, MadeTells

\* The first byte of the last block tells that it is no counter, whatever
\* the message, when this has no byte of a known number.
LEMMA LastNotCounter ==
  ASSUME NEW nonce, IsCcmNonce(nonce), NEW aad, CcmAad(aad), NEW p, Clean(p), p # << >>,
         Of(p, TagKinds), NEW tl \in 1..B, NEW z, CcmInput(z, nonce, aad, p, tl)
  PROVE  z[1] # Num(2)
<1>1. PICK c : c = CcmCount(aad, p)
  OBVIOUS
<1>2. PICK b, t : b = CcmFrame(nonce, aad, p, tl) /\ t = CcmPieces(aad, p)
  OBVIOUS
<1>3. PICK y : IsCbcChain(y, b, t, c) /\ z = y[c]
  BY <1>1, <1>2 DEF CcmInput
<1>4. PICK x : x = CcmPrefix(aad) /\ Unmade(x)
  BY AadPrefixIs
<1>5. PICK n \in Nat : n = Parts(Len(x))
  BY <1>4, CleanChunks DEF Unmade
<1>6. PICK l \in Nat : l = Len(p)
  BY StringProperties DEF Clean
<1>7. l # 0
  BY <1>6, EmptyIs DEF Clean
<1>8. PICK m \in Nat : m = Parts(l) /\ m # 0
  <2>1. Parts(l) \in Nat /\ 1 \in 1..l
    BY <1>7, PartsAre
  <2>2. \E g \in 1..Parts(l) : TRUE
    BY <2>1, PartPlace
  <2> QED
    BY <2>1, <2>2
<1>9. t = Series(Chunks(x), n, Chunks(p)) /\ c = n + m
  BY <1>1, <1>2, <1>4, <1>5, <1>6, <1>8 DEF CcmPieces, CcmCount
<1>10. PICK u : u = Chunks(p)[m]
  OBVIOUS
<1>11. t[c] = u
  <2>1. n + m \in Nat /\ ~ (n + m <= n) /\ (n + m) - n = m
    BY <1>8
  <2> QED
    BY <1>9, <1>10, <2>1 DEF Series
<1>12. m \in 1..m
  BY <1>8
<1>13. Clean(u) /\ Len(u) \in 1..B /\ \A a \in u[1] : a[1] \in TagKinds
  <2>1. Clean(u) /\ Len(u) = PartLen(m, l) /\ PartLen(m, l) \in 1..B
    BY <1>6, <1>8, <1>10, <1>12, CleanChunks
  <2>2. 1 \in 1..PartLen(m, l)
    BY <2>1, BlockLen
  <2>3. u[1] = p[Off(m - 1) + 1]
    BY <1>6, <1>8, <1>10, <1>12, <2>2, ChunksAre DEF Clean
  <2>4. Off(m - 1) + 1 \in 1..l
    <3>1. PICK o \in Nat : o = Off(m - 1) /\ o < l
      BY <1>8, <1>12, PartsAre
    <3> QED
      BY <3>1
  <2> QED
    BY <1>6, <2>1, <2>3, <2>4 DEF Of
<1>14. PICK h : h = y[c - 1]
  OBVIOUS
<1>15. IsBlock(h) /\ z = XorInto(E("k", h), u)
  <2>1. c \in 1..c /\ c - 1 \in 0..c /\ c \in Nat
    BY <1>8, <1>9
  <2>2. z = XorInto(E("k", h), u)
    BY <1>3, <1>11, <1>14, <2>1 DEF IsCbcChain
  <2>3. IsBlock(b)
    BY <1>2, CcmFrameIs DEF NotCounter
  <2>4. ASSUME NEW i \in 1..c PROVE Clean(t[i])
    <3>1. CASE i <= n
      <4>1. i \in 1..n /\ i \in Nat
        BY <1>5, <3>1, <2>1
      <4>2. t[i] = Chunks(x)[i]
        BY <1>9, <3>1, <4>1 DEF Series
      <4> QED
        BY <1>4, <1>5, <4>1, <4>2, CleanChunks DEF Unmade
    <3>2. CASE ~ (i <= n)
      <4>1. i \in Nat /\ i - n \in 1..m
        BY <1>5, <1>8, <1>9, <3>2, <2>1, SMTT(60)
      <4>2. t[i] = Chunks(p)[i - n]
        BY <1>9, <3>2, <4>1 DEF Series
      <4> QED
        BY <1>6, <1>8, <4>1, <4>2, CleanChunks
    <3> QED
      BY <3>1, <3>2
  <2>5. \A i \in 0..c : IsBlock(y[i])
    BY <1>3, <2>1, <2>3, <2>4, ChainClean
  <2> QED
    BY <1>14, <2>1, <2>2, <2>5
<1>16. E("k", h)[1] = {Made("k", h, 1)} /\ IsBlock(E("k", h))
  <2>1. Clean(h) /\ Len(h) >= 1 /\ 1 \in 1..Len(h)
    BY <1>15, BlockLen DEF IsBlock
  <2> QED
    BY <1>15, <2>1, EncipheredIs, BlockEnciphered
<1>17. z[1] = SymDiff({Made("k", h, 1)}, u[1])
  <2>1. PICK e : e = E("k", h)
    OBVIOUS
  <2>2. IsString(e) /\ 1 \in 1..Len(e) /\ IsString(u) /\ 1 <= Len(u)
    BY <1>13, <1>16, <2>1, BlockLen DEF IsBlock, Clean
  <2>3. XorInto(e, u)[1] = SymDiff(e[1], u[1])
    BY <2>2, IntoIs
  <2> QED
    BY <1>15, <1>16, <2>1, <2>3
<1>18. \A a \in z[1] : a[1] \in TagKinds
  <2>1. Made("k", h, 1)[1] = "E"
    BY DEF Made
  <2> QED
    BY <1>13, <1>17, <2>1 DEF SymDiff, TagKinds
<1>19. \E a \in Num(2) : a[1] = "bit"
  <2>1. << "bit", 1 >> \in Num(2)
    <3>1. 2 ^ 1 = 2 /\ (2 \div 2) % 2 = 1 /\ 1 \in 0..7
      OBVIOUS
    <3>2. (2 \div 2 ^ 1) % 2 = 1
      BY <3>1
    <3>3. 1 \in {j \in 0..7 : (2 \div 2 ^ j) % 2 = 1}
      BY <3>1, <3>2
    <3> QED
      BY <3>3 DEF Num
  <2> QED
    BY <2>1
<1> QED
  BY <1>18, <1>19 DEF TagKinds

LEMMA CcmNotExtended ==
  ASSUME NEW v, NEW nonce, NEW aad, NEW p, NEW tl, NEW z, CcmText(v, nonce, aad, p, tl, z),
         CcmAad(aad), Of(v, TagKinds),
         NEW w, NEW n, NEW d, NEW q, NEW y, CcmSealedText(w, n, d, q, tl, y), Extended(v, w)
  PROVE  FALSE
<1>1. /\ IsCcmNonce(nonce) /\ Clean(p) /\ tl \in 1..B /\ Len(v) = Len(p) + tl
      /\ IsBlock(z) /\ CcmInput(z, nonce, aad, p, tl)
  BY DEF CcmText
<1>2. \A j \in 1..tl : v[Len(p) + j] = TagByte(z, nonce, j)
  BY DEF CcmText
<1>3. /\ CcmMade(y, n, d, q, tl) /\ y # CcmA(n, 0) /\ Len(q) \in Nat /\ IsCcmNonce(n)
      /\ IsBlock(y)
  BY CcmSealedShows DEF NotCounter
<1>4. Len(w) = Len(q) + tl /\ \A j \in 1..tl : w[Len(q) + j] = TagByte(y, n, j)
  BY DEF CcmSealedText, CcmText
<1>5. PICK l \in Nat : l = Len(q)
  BY <1>3
<1>6. PICK k \in Nat : k = Len(p)
  BY <1>1, StringProperties DEF Clean
<1>7. PICK g \in Nat : g = tl /\ g >= 1 /\ g <= B
  BY <1>1, BlockLen
<1>8. k = l + 1
  <2>1. Len(v) = Len(w) + 1
    BY DEF Extended
  <2>2. k + g = (l + g) + 1
    BY <1>1, <1>4, <1>5, <1>6, <1>7, <2>1
  <2> QED
    BY <2>2
<1>9. v[k + g] \in {Zero, X}
  <2>1. v[Len(w) + 1] \in {Zero, X}
    BY DEF Extended
  <2>2. Len(w) + 1 = k + g
    BY <1>4, <1>5, <1>7, <1>8
  <2> QED
    BY <2>1, <2>2
<1>10. \A i \in 1..(l + g) : v[i] = w[i]
  BY <1>4, <1>5, <1>7 DEF Extended
<1>11. g \in 1..g
  BY <1>7
<1>12. v[k + g] = TagByte(z, nonce, g)
  BY <1>2, <1>6, <1>7, <1>11
<1>13. z = CcmA(nonce, 0)
  <2>1. \A a \in TagByte(z, nonce, g) : a[1] = "E"
    BY <1>1, TagByteIs
  <2>2. TagByte(z, nonce, g) = {}
    BY <1>9, <1>12, <2>1 DEF Zero, X
  <2> QED
    BY <1>1, <2>2, TagByteIs
<1>14. CASE g = 1
  <2>1. p # << >>
    <3>1. k # 0
      BY <1>8
    <3> QED
      BY <1>6, <3>1, Empty
  <2>2. Of(p, TagKinds)
    <3>1. ASSUME NEW i \in 1..k PROVE \A a \in p[i] : a[1] \in TagKinds
      <4>1. IsMasked(p[i], v[i])
        BY <1>6 DEF CcmText
      <4>2. \A a \in v[i] : a[1] \in TagKinds
        <5>1. i \in 1..Len(v)
          <6>1. Len(v) = k + g
            BY <1>1, <1>6, <1>7
          <6> QED
            BY <6>1
        <5> QED
          BY <5>1 DEF Of
      <4>3. \A a \in p[i] : a[1] \in TagKinds \cup {"E"}
        BY <4>1, <4>2, MaskedOf
      <4> QED
        BY <4>3 DEF TagKinds
    <3> QED
      BY <1>1, <1>6, <3>1 DEF Of, Clean
  <2>3. z[1] # Num(2)
    BY <1>1, <2>1, <2>2, LastNotCounter
  <2>4. IsCounter(z)
    BY <1>1, <1>13, CcmAIs
  <2> QED
    BY <2>3, <2>4 DEF IsCounter
<1>15. CASE g # 1
  <2>1. PICK h \in 1..g : h = g - 1
    BY <1>7, <1>15
  <2>2. v[k + h] = TagByte(z, nonce, h)
    BY <1>2, <1>6, <1>7, <2>1
  <2>3. TagByte(z, nonce, h) = {}
    BY <1>1, <1>13, TagByteIs
  <2>4. k + h = l + g /\ l + g \in 1..(l + g)
    BY <1>7, <1>8, <2>1
  <2>5. w[l + g] = {}
    BY <1>10, <2>2, <2>3, <2>4
  <2>6. w[l + g] = TagByte(y, n, g)
    BY <1>4, <1>5, <1>7, <1>11
  <2>7. TagByte(y, n, g) # {}
    BY <1>3, TagByteIs
  <2> QED
    BY <2>5, <2>6, <2>7
<1> QED
  BY <1>14, <1>15

LEMMA CcmNotShortened ==
  ASSUME NEW v, NEW nonce, NEW aad, NEW p, NEW tl, NEW z, CcmText(v, nonce, aad, p, tl, z),
         NEW w, NEW n, NEW d, NEW q, NEW y, CcmSealedText(w, n, d, q, tl, y), Shortened(v, w)
  PROVE  FALSE
<1>1. /\ IsCcmNonce(nonce) /\ Clean(p) /\ tl \in 1..B /\ Len(v) = Len(p) + tl
      /\ IsBlock(z)
  BY DEF CcmText
<1>2. \A j \in 1..tl : v[Len(p) + j] = TagByte(z, nonce, j)
  BY DEF CcmText
<1>3. /\ CcmMade(y, n, d, q, tl) /\ y # CcmA(n, 0) /\ Len(q) \in Nat /\ IsCcmNonce(n)
      /\ IsBlock(y)
  BY CcmSealedShows DEF NotCounter
<1>4. Len(w) = Len(q) + tl /\ \A j \in 1..tl : w[Len(q) + j] = TagByte(y, n, j)
  BY DEF CcmSealedText, CcmText
<1>5. PICK l \in Nat : l = Len(q)
  BY <1>3
<1>6. PICK k \in Nat : k = Len(p)
  BY <1>1, StringProperties DEF Clean
<1>7. PICK g \in Nat : g = tl /\ g >= 1 /\ g <= B
  BY <1>1, BlockLen
<1>8. l = k + 1
  <2>1. Len(w) = Len(v) + 1
    BY DEF Shortened
  <2>2. l + g = (k + g) + 1
    BY <1>1, <1>4, <1>5, <1>6, <1>7, <2>1
  <2> QED
    BY <2>2
<1>9. v[k + g] = w[k + g]
  <2>1. \A i \in 1..Len(v) : v[i] = w[i]
    BY DEF Shortened
  <2>2. Len(v) = k + g /\ k + g \in 1..(k + g)
    BY <1>1, <1>6, <1>7
  <2> QED
    BY <2>1, <2>2
<1>10. v[k + g] = TagByte(z, nonce, g)
  <2>1. g \in 1..g
    BY <1>7
  <2> QED
    BY <1>2, <1>6, <1>7, <2>1
<1>11. CASE g = 1
  <2>1. l \in 1..l /\ k + g = l
    BY <1>8, <1>11
  <2>2. IsMasked(w[l], q[l]) /\ \A a \in q[l] : a[1] = "p"
    BY <1>5, <2>1 DEF CcmSealedText, CcmText, Of
  <2>3. PICK m, j : w[l] = SymDiff(q[l], {Made("k", m, j)})
    BY <2>2 DEF IsMasked
  <2>4. Made("k", m, j)[1] = "E"
    BY DEF Made
  <2>5. PICK f : f = Made("k", m, j)
    OBVIOUS
  <2>6. f \in w[l] /\ \A a \in w[l] : a[1] = "E" => a = f
    BY <2>2, <2>3, <2>4, <2>5 DEF SymDiff
  <2>7. w[l] = TagByte(z, nonce, g)
    BY <1>9, <1>10, <2>1
  <2>8. z # CcmA(nonce, 0)
    <3>1. z = CcmA(nonce, 0) => TagByte(z, nonce, g) = {}
      BY <1>1, TagByteIs
    <3> QED
      BY <2>6, <2>7, <3>1
  <2>9. \E a, b \in TagByte(z, nonce, g) : a # b
    BY <1>1, <2>8, TagByteIs, SMTT(30)
  <2>10. \A a \in TagByte(z, nonce, g) : a[1] = "E"
    BY <1>1, TagByteIs
  <2> QED
    BY <2>6, <2>7, <2>9, <2>10
<1>12. CASE g # 1
  <2>1. PICK h \in 1..g : h = g - 1
    BY <1>7, <1>12
  <2>2. l + h = k + g
    BY <1>7, <1>8, <2>1
  <2>3. w[l + h] = TagByte(y, n, h)
    BY <1>4, <1>5, <1>7, <2>1
  <2>4. Made("k", y, h) \in TagByte(y, n, h)
    BY <1>3, TagByteIs
  <2>5. \A a \in TagByte(z, nonce, g) : a[4] = g
    BY <1>1, TagByteIs
  <2>6. Made("k", y, h)[4] = h
    BY DEF Made
  <2>7. h = g
    BY <1>9, <1>10, <2>2, <2>3, <2>4, <2>5, <2>6
  <2> QED
    BY <1>7, <2>1, <2>7
<1> QED
  BY <1>11, <1>12

\* What is as long as a sealed text and differs in one byte at most.
LEMMA CcmNearOnly ==
  ASSUME NEW v, NEW nonce, NEW aad, NEW p, NEW tl, NEW z, CcmText(v, nonce, aad, p, tl, z),
         CcmAad(aad),
         NEW w, NEW n, NEW d, NEW q, NEW y, CcmSealedText(w, n, d, q, tl, y),
         v = w \/ \E i \in 1..Len(w) : FlippedAt(v, w, i)
  PROVE  nonce = n /\ aad = d /\ v = w
<1>1. /\ IsString(v) /\ IsCcmNonce(nonce) /\ Clean(p) /\ tl \in 1..B /\ Len(v) = Len(p) + tl
      /\ IsBlock(z) /\ CcmInput(z, nonce, aad, p, tl)
  BY DEF CcmText
<1>2. \A j \in 1..tl : v[Len(p) + j] = TagByte(z, nonce, j)
  BY DEF CcmText
<1>3. /\ CcmMade(y, n, d, q, tl) /\ NotCounter(y) /\ Len(q) \in Nat /\ IsCcmNonce(n)
      /\ IsBlock(y) /\ IsString(w)
  BY CcmSealedShows DEF NotCounter
<1>4. Len(w) = Len(q) + tl /\ \A j \in 1..tl : w[Len(q) + j] = TagByte(y, n, j)
  BY DEF CcmSealedText, CcmText
<1>5. PICK l \in Nat : l = Len(q)
  BY <1>3
<1>6. PICK k \in Nat : k = Len(p)
  BY <1>1, StringProperties DEF Clean
<1>7. PICK g \in Nat : g = tl /\ g >= 1 /\ g <= B
  BY <1>1, BlockLen
<1>8. k = l
  <2>1. Len(v) = Len(w)
    BY DEF FlippedAt
  <2>2. k + g = l + g
    BY <1>1, <1>4, <1>5, <1>6, <1>7, <2>1
  <2> QED
    BY <2>2
<1>9. \A i \in 1..(l + g) : v[i] = w[i] \/ v[i] = SymDiff(w[i], X)
  <2>1. Len(w) = l + g
    BY <1>4, <1>5, <1>7
  <2> QED
    BY <2>1 DEF FlippedAt
<1>10. ASSUME NEW j \in 1..g PROVE TagByte(z, nonce, j) = TagByte(y, n, j)
  <2>1. v[l + j] = TagByte(z, nonce, j)
    BY <1>2, <1>6, <1>7, <1>8
  <2>2. w[l + j] = TagByte(y, n, j)
    BY <1>4, <1>5, <1>7
  <2>3. l + j \in 1..(l + g)
    OBVIOUS
  <2>4. (\A a \in TagByte(z, nonce, j) : a[1] = "E") /\ \A a \in TagByte(y, n, j) : a[1] = "E"
    BY <1>1, <1>3, TagByteIs
  <2>5. ASSUME TagByte(z, nonce, j) = SymDiff(TagByte(y, n, j), X) PROVE FALSE
    <3>1. << "x", 0 >>[1] # "E"
      OBVIOUS
    <3>2. << "x", 0 >> \in TagByte(z, nonce, j)
      BY <2>4, <2>5, <3>1 DEF SymDiff, X
    <3> QED
      BY <2>4, <3>1, <3>2
  <2> QED
    BY <1>9, <2>1, <2>2, <2>3, <2>5
<1>11. Unmade(p)
  <2>1. ASSUME NEW i \in 1..k PROVE \A a \in p[i] : ~ MacAtom(a)
    <3>1. i \in 1..(l + g) /\ i \in 1..l
      BY <1>8
    <3>2. IsMasked(w[i], q[i]) /\ \A a \in q[i] : a[1] = "p"
      BY <1>5, <3>1 DEF CcmSealedText, CcmText, Of
    <3>3. IsMasked(p[i], v[i])
      BY <1>6 DEF CcmText
    <3>4. PICK c, j : IsCounter(c) /\ w[i] = SymDiff(q[i], {Made("k", c, j)})
      BY <3>2 DEF IsMasked
    <3>5. PICK e, h : IsCounter(e) /\ p[i] = SymDiff(v[i], {Made("k", e, h)})
      BY <3>3 DEF IsMasked
    <3>6. ~ MacAtom(Made("k", c, j)) /\ ~ MacAtom(Made("k", e, h))
      BY <3>4, <3>5, CounterAtom
    <3>7. \A a : MacAtom(a) => a[1] = "E"
      BY DEF MacAtom, Made
    <3>8. ~ MacAtom(<< "x", 0 >>) /\ \A a \in q[i] : ~ MacAtom(a)
      BY <3>2, <3>7
    <3>9. \A a \in w[i] : ~ MacAtom(a)
      BY <3>4, <3>6, <3>8 DEF SymDiff
    <3>10. \A a \in v[i] : ~ MacAtom(a)
      BY <1>9, <3>1, <3>8, <3>9 DEF SymDiff, X
    <3> QED
      BY <3>5, <3>6, <3>10 DEF SymDiff
  <2> QED
    BY <1>1, <1>6, <2>1 DEF Unmade
<1>12. CcmMade(z, nonce, aad, p, tl)
  BY <1>1, <1>11 DEF CcmMade
<1>13. NotCounter(z)
  BY <1>12, CcmInputShows
<1>14. z = y
  <2>1. TagByte(z, nonce, 1) = TagByte(y, n, 1)
    <3>1. 1 \in 1..g
      BY <1>7
    <3> QED
      BY <1>10, <3>1
  <2> QED
    BY <1>1, <1>3, <1>13, <2>1, TagByteTells
<1>15. nonce = n /\ aad = d /\ p = q
  BY <1>3, <1>12, <1>14, CcmInputTells
<1>16. v = w
  <2>1. ASSUME NEW i \in 1..(l + g) PROVE v[i] = w[i]
    <3>1. CASE i <= l
      <4>1. i \in 1..l
        BY <3>1
      <4>2. v[i] = CcmStream(nonce, p)[i]
        BY <1>6, <1>8, <4>1 DEF CcmText
      <4>3. w[i] = CcmStream(n, q)[i]
        BY <1>5, <4>1 DEF CcmSealedText, CcmText
      <4> QED
        BY <1>15, <4>2, <4>3
    <3>2. CASE ~ (i <= l)
      <4>1. PICK j \in 1..g : i = l + j
        <5>1. i - l \in 1..g /\ i = l + (i - l)
          BY <3>2
        <5> QED
          BY <5>1
      <4>2. v[i] = TagByte(z, nonce, j)
        BY <1>2, <1>6, <1>7, <1>8, <4>1
      <4>3. w[i] = TagByte(y, n, j)
        BY <1>4, <1>5, <1>7, <4>1
      <4> QED
        BY <1>10, <4>2, <4>3
    <3> QED
      BY <3>1, <3>2
  <2>2. Len(v) = l + g /\ Len(w) = l + g
    BY <1>1, <1>4, <1>5, <1>6, <1>7, <1>8
  <2> QED
    BY <1>1, <1>3, <2>1, <2>2, SameString
<1> QED
  BY <1>15, <1>16

CcmParts(e, par, p, z) ==
  /\ IsEnvelope(e) /\ e.mode = "ccm" /\ e.par = par /\ e.tag = << >>
  /\ CcmSealedText(e.ct, e.nonce, e.aad, p, par, z)

LEMMA CcmFamily ==
  ASSUME NEW V, NEW par, Family(V, "ccm", par), NEW e \in V
  PROVE  \E p, z : CcmParts(e, par, p, z)
<1>1. "ccm" # "siv" /\ \A c \in Calls \cup Follow : c.mode = "ccm" => c.aad \in Nat
  BY LimitAssumption
<1>2. PICK c, aad, pt : LET m == [mode |-> "ccm", par |-> par, nonce |-> c.nonce,
                                  aad |-> aad, pt |-> pt]
                        IN  c.mode = "ccm" /\ c.par = par /\ EnvelopeOf(e, c, aad, pt, SealCall(m))
  BY <1>1, FamilyOf
<1>3. PICK nonce : nonce = c.nonce
  OBVIOUS
<1>4. PICK s : s = EncryptCcm("k", nonce, aad, pt, par)
  OBVIOUS
<1>5. c.mode = "ccm" /\ c.par = par /\ EnvelopeOf(e, c, aad, pt, s)
  BY <1>2, <1>3, <1>4 DEF SealCall
<1>6. c \in Calls \cup Follow
  BY <1>5 DEF EnvelopeOf
<1>7. IsCcmNonce(nonce)
  <2>1. Given(c.nonce) /\ Len(c.nonce) = B - 2
    BY <1>5, <1>6, CallAssumption
  <2> QED
    BY <1>3, <2>1, GivenClean DEF IsCcmNonce
<1>8. /\ IsEnvelope(e) /\ e.mode = "ccm" /\ e.par = par /\ e.nonce = nonce /\ e.aad = aad
      /\ e.ct = s.ct /\ e.tag = s.tag /\ s.ok /\ Clean(pt) /\ Of(pt, {"p"})
      /\ Clean(aad) /\ Of(aad, {"p"}) /\ Len(aad) = c.aad
  BY <1>3, <1>5 DEF EnvelopeOf
<1>9. Len(aad) + 1 < 256
  BY <1>5, <1>6, <1>8, LimitAssumption
<1>10. s.tag = << >>
  BY <1>4, <1>7, <1>8, CcmSealClean
<1>11. PICK z : CcmText(s.ct, nonce, aad, pt, par, z)
  BY <1>4, <1>7, <1>8, CcmSealsAs
<1>12. CcmSealedText(s.ct, nonce, aad, pt, par, z)
  BY <1>8, <1>9, <1>11 DEF CcmSealedText
<1>13. CcmParts(e, par, pt, z)
  BY <1>8, <1>10, <1>12 DEF CcmParts
<1> QED
  BY <1>13

\* The nonce and the aad that are offered.
LEMMA CcmOffered ==
  ASSUME NEW V, NEW par, Family(V, "ccm", par), NEW e \in V, NEW o, Touches(o, e, V)
  PROVE  IsCcmNonce(o.nonce) /\ CcmAad(o.aad)
<1>1. \A v \in V : \E p, z : CcmParts(v, par, p, z)
  BY CcmFamily
<1>2. \A v \in V : v.mode = "ccm" /\ IsCcmNonce(v.nonce) /\ Of(v.aad, {"p"}) /\ Len(v.aad) + 1 < 256
  BY <1>1 DEF CcmParts, CcmSealedText, CcmText
<1>3. IsCcmNonce(o.nonce)
  <2>1. CASE NewNonce(o, e)
    <3>1. o.nonce \in Nonces("ccm")
      BY <1>2, <2>1 DEF NewNonce
    <3>2. Given(o.nonce) /\ Len(o.nonce) = B - 2
      BY <3>1, LimitAssumption
    <3> QED
      BY <3>2, GivenClean DEF IsCcmNonce
  <2>2. CASE ~ NewNonce(o, e)
    BY <1>2, <2>2 DEF Touches, Mixing, NewAad, NewCt, NewTag
  <2> QED
    BY <2>1, <2>2
<1>4. \E g \in V : o.aad = g.aad \/ o.aad \in Flipped(g.aad) \cup Resized(g.aad)
  <2>1. CASE Mixing(o, e, V)
    BY <2>1 DEF Mixing
  <2>2. CASE NewAad(o, e)
    <3>1. e.mode \in Aead \ {"siv"} /\ e.mode # "wrap"
      BY <1>2 DEF Aead
    <3>2. AlteredAad(e.mode, e.aad) = Flipped(e.aad) \cup Resized(e.aad)
      BY <3>1 DEF AlteredAad
    <3> QED
      BY <2>2, <3>2 DEF NewAad
  <2>3. CASE ~ Mixing(o, e, V) /\ ~ NewAad(o, e)
    BY <2>3 DEF Touches, NewNonce, NewCt, NewTag
  <2> QED
    BY <2>1, <2>2, <2>3
<1>5. PICK g \in V : o.aad = g.aad \/ o.aad \in Flipped(g.aad) \cup Resized(g.aad)
  BY <1>4
<1>6. PICK s : s = g.aad
  OBVIOUS
<1>7. IsString(s) /\ Of(s, {"p"}) /\ Of(s, {"p", "x"}) /\ Len(s) + 1 < 256
  BY <1>2, <1>5, <1>6 DEF Of
<1>8. Of(o.aad, {"p", "x"}) /\ Len(o.aad) < 256
  <2>1. PICK n \in Nat : n = Len(s)
    BY <1>7, StringProperties
  <2>2. CASE o.aad = s
    BY <1>7, <2>1, <2>2
  <2>3. CASE o.aad \in Flipped(s) \cup Resized(s)
    <3>1. Differs(o.aad, s)
      BY <1>7, <2>3, AlteredIs
    <3>2. Of(o.aad, {"p", "x"}) /\ Len(o.aad) \in Nat /\ Len(o.aad) <= n + 1
      BY <1>7, <2>1, <3>1, DiffersIs
    <3> QED
      BY <1>7, <2>1, <3>2
  <2> QED
    BY <1>5, <1>6, <2>2, <2>3
<1>9. Unmade(o.aad)
  BY <1>8, OfUnmade
<1> QED
  BY <1>3, <1>8, <1>9 DEF CcmAad

LEMMA CcmAuthentic ==
  ASSUME NEW V, NEW par, Family(V, "ccm", par), NEW e \in V, NEW o, Touches(o, e, V),
         OpenCall(o).ok
  PROVE  o \in V
<1>1. PICK q, y : CcmParts(e, par, q, y)
  BY CcmFamily
<1>2. IsEnvelope(o) /\ o.mode = "ccm" /\ o.par = par
  BY <1>1 DEF Touches, CcmParts
<1>3. IsCcmNonce(o.nonce) /\ CcmAad(o.aad)
  BY CcmOffered
<1>4. PICK w, n, d : w = e.ct /\ n = e.nonce /\ d = e.aad
  OBVIOUS
<1>5. CcmSealedText(w, n, d, q, par, y)
  BY <1>1, <1>4 DEF CcmParts
<1>6. Of(w, {"p", "E"}) /\ IsString(w) /\ par \in 1..B
  BY <1>5, CcmSealedShows DEF CcmSealedText, CcmText
<1>7. PICK v : v = o.ct
  OBVIOUS
<1>8. v = w \/ Differs(v, w)
  <2>1. v = w \/ v \in Flipped(w) \cup Resized(w)
    BY <1>4, <1>7 DEF Touches, Mixing, NewNonce, NewAad, NewCt, NewTag
  <2> QED
    BY <1>6, <2>1, AlteredIs
<1>9. Of(v, TagKinds)
  <2>1. Of(w, TagKinds) /\ "x" \in TagKinds
    BY <1>6 DEF Of, TagKinds
  <2> QED
    BY <1>6, <1>8, <2>1, DiffersIs
<1>10. Clean(v)
  BY <1>9 DEF Of, TagKinds, Clean
<1>11. PICK nonce, aad : nonce = o.nonce /\ aad = o.aad
  OBVIOUS
<1>12. PICK r : r = DecryptCcm("k", nonce, aad, v, par)
  OBVIOUS
<1>13. r.ok
  BY <1>2, <1>7, <1>11, <1>12 DEF OpenCall
<1>14. PICK z : CcmText(v, nonce, aad, r.val, par, z)
  <2>1. IsCcmNonce(nonce) /\ Clean(aad)
    BY <1>3, <1>11 DEF CcmAad, Unmade
  <2> QED
    BY <1>6, <1>10, <1>12, <1>13, <2>1, CcmOpensAs
<1>15. CcmAad(aad)
  BY <1>3, <1>11
<1>16. ~ Extended(v, w)
  BY <1>5, <1>9, <1>14, <1>15, CcmNotExtended
<1>17. ~ Shortened(v, w)
  BY <1>5, <1>14, CcmNotShortened
<1>18. v = w \/ \E i \in 1..Len(w) : FlippedAt(v, w, i)
  BY <1>8, <1>16, <1>17 DEF Differs
<1>19. nonce = n /\ aad = d /\ v = w
  BY <1>5, <1>14, <1>15, <1>18, CcmNearOnly
<1>20. o.tag = e.tag
  <2>1. \A h \in V : h.tag = << >>
    BY CcmFamily DEF CcmParts
  <2>2. e.tag = << >> /\ DOMAIN << >> = {}
    BY <2>1
  <2>3. ~ NewTag(o, e)
    BY <2>2 DEF NewTag, Flipped
  <2> QED
    BY <2>1, <2>3 DEF Touches, Mixing, NewNonce, NewAad, NewCt
<1>21. o = e
  <2>1. IsEnvelope(e) /\ e.mode = "ccm" /\ e.par = par
    BY <1>1 DEF CcmParts
  <2> QED
    BY <1>2, <1>4, <1>7, <1>11, <1>19, <1>20, <2>1, SameEnvelope
<1> QED
  BY <1>21

-----------------------------------------------------------------------------
(* Nothing forged is opened.                                               *)

LEMMA OpenedWasSealed ==
  ASSUME NEW o, NEW V, NEW mode, NEW par, Offering(o, V, mode, par), OpenCall(o).ok
  PROVE  o \in V
<1>1. PICK e \in V : Touches(o, e, V)
  BY DEF Offering
<1>2. Family(V, mode, par) /\ mode \in {"gcm", "gcm_combined", "ccm", "ocb", "wrap"}
  BY DEF Offering, Bound
<1>3. CASE mode = "gcm"
  BY <1>1, <1>2, <1>3, GcmAuthentic
<1>4. CASE mode = "gcm_combined"
  BY <1>1, <1>2, <1>4, CombinedAuthentic
<1>5. CASE mode = "ccm"
  BY <1>1, <1>2, <1>5, CcmAuthentic
<1>6. CASE mode = "wrap"
  BY <1>1, <1>2, <1>6, WrapAuthentic
<1>7. CASE mode = "ocb"
  <2>1. \A f, g \in V : f # g => f.nonce # g.nonce
    BY <1>7 DEF Offering
  <2> QED
    BY <1>1, <1>2, <1>7, <2>1, OcbAuthentic
<1> QED
  BY <1>2, <1>3, <1>4, <1>5, <1>6, <1>7

LEMMA SessionAuthentic ==
  ASSUME SessionInv, KeptInv
  PROVE  Authentic
<1> SUFFICES ASSUME offered # None, result.ok,
                    offered.mode \in {"gcm", "gcm_combined", "ccm", "ocb", "wrap"}
             PROVE  \E i \in DOMAIN sealed : sealed[i].env = offered /\ result.val = sealed[i].pt
  BY DEF Authentic, Returned
<1>1. offered.mode \in Bound /\ DOMAIN sealed = 1..Len(sealed) /\ result = OpenCall(offered)
  BY DEF Bound, SessionInv, SealedIs, OfferedIs
<1>2. /\ Offering(offered, Envelopes, sealed[1].env.mode, sealed[1].env.par)
      /\ \A e \in Envelopes : \E i \in 1..Len(sealed) : e = sealed[i].env
  BY <1>1, OfferingIs
<1>3. OpenCall(offered).ok
  BY <1>1
<1>4. offered \in Envelopes
  BY <1>2, <1>3, OpenedWasSealed
<1>5. PICK i \in 1..Len(sealed) : offered = sealed[i].env
  BY <1>2, <1>4
<1>6. result.val = sealed[i].pt
  BY <1>1, <1>5, KeptGives
<1> QED
  BY <1>1, <1>5, <1>6

(* Nothing but what was sealed is opened by GCM, with its tag apart or in  *)
(* one piece with the ciphertext, by CCM, by OCB and by key unwrapping,    *)
(* and what comes out is what went in: for blocks, keys, messages, nonces  *)
(* and aads of every size, whatever is put together from two messages or   *)
(* altered in one byte or in its length (sm4_decrypt_gcm,                  *)
(* sm4_decrypt_gcm_combined, sm4_decrypt_ccm, sm4_decrypt_ocb and          *)
(* sm4_key_unwrap of modes.rs).                                            *)
THEOREM NothingForged ==
  Spec => []Authentic
<1>1. SessionInv /\ KeptInv => Authentic
  BY SessionAuthentic
<1> QED
  BY <1>1, SessionHolds, KeptHolds, PTL

\* Nor when the modes are used beside key derivation and TLS.
THEOREM NothingForgedTogether ==
  SymmetricSpec => []Authentic
BY ModesAlone, NothingForged, PTL

-----------------------------------------------------------------------------
(* Counters of CTR: a block of known bytes is a number, which grows by one *)
(* until it wraps.                                                         *)

RangeSeq == Iterated(B, 1, LAMBDA i, n : Radix * n)
NumberSeq(x) == Iterated(B, 0, LAMBDA i, n : Radix * n + Value(x[i]))
NumberOf(x) == NumberSeq(x)[B]

\* The values of the counter's bytes.
IsDigit(v) == v \in 0..(Radix - 1)
Digits(x) == IsBlock(x) /\ \A i \in 1..B : \E v : IsDigit(v) /\ x[i] = Num(v)

LEMMA DigitIs ==
  ASSUME NEW v, IsDigit(v)
  PROVE  /\ v \in 0..255 /\ Value(Num(v)) = v /\ IsNum(Num(v))
         /\ v = Radix - 1 => (v + 1) % Radix = 0
         /\ v # Radix - 1 => (v + 1) % Radix = v + 1
         /\ IsDigit((v + 1) % Radix)
<1>1. v \in 0..255 /\ v \in Nat
  BY RadixIs DEF IsDigit
<1>2. Value(Num(v)) = v /\ IsNum(Num(v))
  BY <1>1, ValueOfNum
<1>3. v = Radix - 1 => (v + 1) % Radix = 0
  BY BlockAssumption DEF IsDigit
<1>4. v # Radix - 1 => (v + 1) % Radix = v + 1
  BY BlockAssumption DEF IsDigit
<1>5. IsDigit(0) /\ (v # Radix - 1 => IsDigit(v + 1))
  BY RadixIs DEF IsDigit
<1> QED
  BY <1>1, <1>2, <1>3, <1>4, <1>5

LEMMA RangeSteps ==
  /\ RangeSeq[0] = 1
  /\ \A i \in 0..B : RangeSeq[i] \in Nat \ {0}
  /\ \A i \in 1..B : RangeSeq[i] = Radix * RangeSeq[i - 1]
<1> DEFINE Is(f) == f = [i \in 0..B |-> IF i = 0 THEN 1 ELSE Radix * f[i - 1]]
           f == CHOOSE f : Is(f)
           step == [i \in 1..B |-> [n \in Nat \ {0} |-> Radix * n]]
<1>1. RangeSeq = f
  BY DEF RangeSeq, Iterated
<1>2. step \in [1..B -> [Nat \ {0} -> Nat \ {0}]]
  <2>1. \A n \in Nat \ {0} : Radix * n \in Nat \ {0}
    BY RadixIs
  <2> QED
    BY <2>1
<1>3. \A i \in 1..B : \A n \in Nat \ {0} : step[i][n] = Radix * n
  OBVIOUS
<1> HIDE DEF step
<1>4. PICK g \in [0..B -> Nat \ {0}] : g[0] = 1 /\ \A n \in 1..B : g[n] = step[n][g[n - 1]]
  <2>1. PICK V, base, max, t : V = Nat \ {0} /\ base = 1 /\ max = B /\ t = step
    OBVIOUS
  <2>2. base \in V /\ max \in Nat /\ t \in [1..max -> [V -> V]]
    BY <1>2, <2>1, BlockLen
  <2>3. \E g \in [0..max -> V] : g[0] = base /\ \A n \in 1..max : g[n] = t[n][g[n - 1]]
    BY ONLY <2>2, Recursion
  <2> QED
    BY ONLY <2>1, <2>3
<1>5. \A i \in 1..B : g[i] = Radix * g[i - 1]
  <2>1. \A i \in 1..B : i - 1 \in 0..B
    BY BlockLen
  <2>2. \A i \in 1..B : g[i - 1] \in Nat \ {0}
    BY <1>4, <2>1
  <2> QED
    BY <1>3, <1>4, <2>2
<1>6. Is(g)
  <2>1. g = [i \in 0..B |-> g[i]]
    BY <1>4
  <2>2. \A i \in 0..B : g[i] = IF i = 0 THEN 1 ELSE Radix * g[i - 1]
    BY <1>4, <1>5, BlockLen
  <2> QED
    BY <2>1, <2>2
<1>7. Is(f)
  <2> HIDE DEF Is
  <2> QED
    BY <1>6, Zenon
<1> HIDE DEF f
<1>8. \A i \in 0..B : f[i] = IF i = 0 THEN 1 ELSE Radix * f[i - 1]
  BY <1>7
<1>9. \A i \in 0..B : f[i] = g[i]
  <2> DEFINE T == {i \in 0..B : f[i] = g[i]}
  <2>1. 0 \in T
    BY <1>4, <1>8, BlockLen
  <2>2. ASSUME NEW i \in 0..(B - 1), i \in T PROVE i + 1 \in T
    <3>1. i + 1 \in 1..B /\ i + 1 \in 0..B /\ (i + 1) - 1 = i /\ i + 1 # 0
      BY BlockLen
    <3> QED
      BY <1>5, <1>8, <2>2, <3>1
  <2> HIDE DEF T
  <2>3. 0..B \subseteq T
    BY <2>1, <2>2, BlockLen, UpTo
  <2> QED
    BY <2>3 DEF T
<1>10. \A i \in 1..B : i - 1 \in 0..B /\ i \in 0..B /\ 0 \in 0..B
  BY BlockLen
<1>11. /\ g[0] = 1
       /\ \A i \in 0..B : g[i] \in Nat \ {0}
       /\ \A i \in 1..B : g[i] = Radix * g[i - 1]
  BY <1>4, <1>5
<1> QED
  BY <1>1, <1>9, <1>10, <1>11, BlockLen

LEMMA NumberSteps ==
  ASSUME NEW x, Digits(x)
  PROVE  LET y == NumberSeq(x)
         IN  /\ y[0] = 0
             /\ \A i \in 0..B : y[i] \in Nat
             /\ \A i \in 1..B : y[i] = Radix * y[i - 1] + Value(x[i])
<1> DEFINE Is(f) == f = [i \in 0..B |-> IF i = 0 THEN 0 ELSE Radix * f[i - 1] + Value(x[i])]
           f == CHOOSE f : Is(f)
           step == [i \in 1..B |-> [n \in Nat |-> Radix * n + Value(x[i])]]
<1>1. NumberSeq(x) = f
  BY DEF NumberSeq, Iterated
<1>2. step \in [1..B -> [Nat -> Nat]]
  <2>1. \A n \in Nat : Radix * n \in Nat
    BY RadixIs
  <2>2. \A i \in 1..B : Value(x[i]) \in Nat
    <3>1. TAKE i \in 1..B
    <3>2. PICK v : IsDigit(v) /\ x[i] = Num(v)
      BY DEF Digits
    <3>3. Value(x[i]) = v /\ v \in 0..255
      BY <3>2, DigitIs
    <3> QED
      BY <3>3
  <2>3. \A n \in Nat : \A i \in 1..B : Radix * n + Value(x[i]) \in Nat
    BY <2>1, <2>2
  <2> QED
    BY <2>3
<1>3. \A i \in 1..B : \A n \in Nat : step[i][n] = Radix * n + Value(x[i])
  OBVIOUS
<1> HIDE DEF step
<1>4. PICK g \in [0..B -> Nat] : g[0] = 0 /\ \A n \in 1..B : g[n] = step[n][g[n - 1]]
  <2>1. PICK V, base, max, t : V = Nat /\ base = 0 /\ max = B /\ t = step
    OBVIOUS
  <2>2. base \in V /\ max \in Nat /\ t \in [1..max -> [V -> V]]
    BY <1>2, <2>1, BlockLen
  <2>3. \E g \in [0..max -> V] : g[0] = base /\ \A n \in 1..max : g[n] = t[n][g[n - 1]]
    BY ONLY <2>2, Recursion
  <2> QED
    BY ONLY <2>1, <2>3
<1>5. \A i \in 1..B : g[i] = Radix * g[i - 1] + Value(x[i])
  <2>1. \A i \in 1..B : i - 1 \in 0..B
    BY BlockLen
  <2>2. \A i \in 1..B : g[i - 1] \in Nat
    BY <1>4, <2>1
  <2> QED
    BY <1>3, <1>4, <2>2
<1>6. Is(g)
  <2>1. g = [i \in 0..B |-> g[i]]
    BY <1>4
  <2>2. \A i \in 0..B : g[i] = IF i = 0 THEN 0 ELSE Radix * g[i - 1] + Value(x[i])
    BY <1>4, <1>5, BlockLen
  <2> QED
    BY <2>1, <2>2
<1>7. Is(f)
  <2> HIDE DEF Is
  <2> QED
    BY <1>6, Zenon
<1> HIDE DEF f
<1>8. \A i \in 0..B : f[i] = IF i = 0 THEN 0 ELSE Radix * f[i - 1] + Value(x[i])
  BY <1>7
<1>9. \A i \in 0..B : f[i] = g[i]
  <2> DEFINE T == {i \in 0..B : f[i] = g[i]}
  <2>1. 0 \in T
    BY <1>4, <1>8, BlockLen
  <2>2. ASSUME NEW i \in 0..(B - 1), i \in T PROVE i + 1 \in T
    <3>1. i + 1 \in 1..B /\ i + 1 \in 0..B /\ (i + 1) - 1 = i /\ i + 1 # 0
      BY BlockLen
    <3> QED
      BY <1>5, <1>8, <2>2, <3>1
  <2> HIDE DEF T
  <2>3. 0..B \subseteq T
    BY <2>1, <2>2, BlockLen, UpTo
  <2> QED
    BY <2>3 DEF T
<1>10. \A i \in 1..B : i - 1 \in 0..B /\ i \in 0..B /\ 0 \in 0..B
  BY BlockLen
<1>11. /\ g[0] = 0
       /\ \A i \in 0..B : g[i] \in Nat
       /\ \A i \in 1..B : g[i] = Radix * g[i - 1] + Value(x[i])
  BY <1>4, <1>5
<1> QED
  BY <1>1, <1>9, <1>10, <1>11, BlockLen

\* A number has a value below the range.
LEMMA NumberBelow ==
  ASSUME NEW x, Digits(x)
  PROVE  /\ NumberOf(x) \in Nat /\ RangeSeq[B] \in Nat /\ NumberOf(x) < RangeSeq[B]
<1> DEFINE y == NumberSeq(x)
           T == {i \in 0..B : y[i] < RangeSeq[i]}
<1>1. /\ y[0] = 0 /\ (\A i \in 0..B : y[i] \in Nat)
      /\ \A i \in 1..B : y[i] = Radix * y[i - 1] + Value(x[i])
  BY NumberSteps
<1> HIDE DEF y
<1>2. 0 \in T
  BY <1>1, RangeSteps, BlockLen
<1>3. ASSUME NEW i \in 0..(B - 1), i \in T PROVE i + 1 \in T
  <2>1. i + 1 \in 1..B /\ i + 1 \in 0..B /\ (i + 1) - 1 = i /\ i \in 0..B
    BY BlockLen
  <2>2. PICK v : IsDigit(v) /\ x[i + 1] = Num(v)
    BY <2>1 DEF Digits
  <2>3. Value(x[i + 1]) = v /\ v \in 0..(Radix - 1)
    BY <2>2, DigitIs DEF IsDigit
  <2>4. PICK p, r : p = y[i] /\ r = RangeSeq[i]
    OBVIOUS
  <2>5. p \in Nat /\ r \in Nat \ {0} /\ p <= r - 1
    BY <1>1, <1>3, <2>1, <2>4, RangeSteps
  <2>6. y[i + 1] = Radix * p + v /\ RangeSeq[i + 1] = Radix * r
    BY <1>1, <2>1, <2>3, <2>4, RangeSteps
  <2>7. Radix * p + v < Radix * r
    <3>1. Radix \in {2, 4, 8, 16}
      BY BlockAssumption
    <3> QED
      BY <2>3, <2>5, <3>1
  <2> QED
    BY <2>1, <2>6, <2>7
<1> HIDE DEF T
<1>4. 0..B \subseteq T
  BY <1>2, <1>3, BlockLen, UpTo
<1> QED
  BY <1>1, <1>4, RangeSteps, BlockLen DEF T, NumberOf, y

\* What an increment makes of the bytes.
Carry(x, i) == \A j \in (i + 1)..B : Value(x[j]) = Radix - 1

LEMMA DigitsNext ==
  ASSUME NEW x, Digits(x)
  PROVE  LET y == CtrInc(x)
         IN  /\ Digits(y)
             /\ \A i \in 1..B : Value(y[i]) = IF Carry(x, i) THEN (Value(x[i]) + 1) % Radix
                                              ELSE Value(x[i])
<1> DEFINE f == [i \in 1..B |-> IF i >= 1 /\ \A j \in (i + 1)..B : Value(x[j]) = Radix - 1
                                THEN Num((Value(x[i]) + 1) % Radix) ELSE x[i]]
<1>1. \A i \in 1..B : \E v : IsDigit(v) /\ x[i] = Num(v) /\ Value(x[i]) = v /\ IsNum(x[i])
  BY DigitIs DEF Digits
<1>2. CtrInc(x) = SubSeq(f, 1, B)
  BY <1>1 DEF CtrInc, IncFrom, Bytes
<1>3. f = [i \in 1..B |-> f[i]]
  OBVIOUS
<1>4. \A i \in 1..B : f[i] = IF Carry(x, i) THEN Num((Value(x[i]) + 1) % Radix) ELSE x[i]
  BY DEF Carry
<1> HIDE DEF f
<1>5. CtrInc(x) = f /\ IsString(f) /\ Len(f) = B
  BY <1>2, <1>3, BlockLen, Tuple
<1>6. ASSUME NEW i \in 1..B
      PROVE  /\ \E w : IsDigit(w) /\ f[i] = Num(w)
             /\ Value(f[i]) = IF Carry(x, i) THEN (Value(x[i]) + 1) % Radix ELSE Value(x[i])
  <2>1. PICK v : IsDigit(v) /\ x[i] = Num(v) /\ Value(x[i]) = v
    BY <1>1
  <2>2. PICK w : w = (v + 1) % Radix
    OBVIOUS
  <2>3. IsDigit(w)
    BY <2>1, <2>2, DigitIs
  <2>4. Value(Num(w)) = w
    BY <2>3, DigitIs
  <2>5. CASE Carry(x, i)
    BY <1>4, <2>1, <2>2, <2>3, <2>4, <2>5
  <2>6. CASE ~ Carry(x, i)
    BY <1>4, <2>1, <2>6
  <2> QED
    BY <2>5, <2>6
<1>7. IsBlock(f)
  <2>1. IsBlock(CtrInc(x))
    <3>1. IsBlock(x) /\ 1 \in 1..B
      BY BlockLen DEF Digits
    <3> QED
      BY <3>1, Incremented DEF CtrInc
  <2> QED
    BY <1>5, <2>1
<1> QED
  BY <1>5, <1>6, <1>7 DEF Digits

\* The number grows by one, or wraps.
LEMMA NumberNext ==
  ASSUME NEW x, Digits(x)
  PROVE  \/ NumberOf(CtrInc(x)) = NumberOf(x) + 1
         \/ NumberOf(CtrInc(x)) = 0 /\ NumberOf(x) = RangeSeq[B] - 1
<1> DEFINE y == CtrInc(x)
           p == NumberSeq(x)
           q == NumberSeq(y)
           Grew(i) == q[i] = p[i] + 1 \/ (q[i] = 0 /\ p[i] = RangeSeq[i] - 1)
           T == {i \in 0..B : IF Carry(x, i) THEN Grew(i) ELSE q[i] = p[i]}
<1>1. /\ p[0] = 0 /\ (\A i \in 0..B : p[i] \in Nat)
      /\ \A i \in 1..B : p[i] = Radix * p[i - 1] + Value(x[i])
  BY NumberSteps
<1>2. /\ Digits(y)
      /\ \A i \in 1..B : Value(y[i]) = IF Carry(x, i) THEN (Value(x[i]) + 1) % Radix
                                       ELSE Value(x[i])
  BY DigitsNext
<1> HIDE DEF y
<1>3. /\ q[0] = 0 /\ (\A i \in 0..B : q[i] \in Nat)
      /\ \A i \in 1..B : q[i] = Radix * q[i - 1] + Value(y[i])
  BY <1>2, NumberSteps
<1> HIDE DEF p, q
<1>4. 0 \in T
  BY <1>1, <1>3, RangeSteps, BlockLen
<1>5. ASSUME NEW i \in 0..(B - 1), i \in T PROVE i + 1 \in T
  <2>1. i + 1 \in 1..B /\ i + 1 \in 0..B /\ (i + 1) - 1 = i /\ i \in 0..B
    BY BlockLen
  <2>2. PICK v : IsDigit(v) /\ x[i + 1] = Num(v)
    BY <2>1 DEF Digits
  <2>3. Value(x[i + 1]) = v /\ v \in 0..(Radix - 1)
    BY <2>2, DigitIs DEF IsDigit
  <2>4. Carry(x, i) <=> (v = Radix - 1 /\ Carry(x, i + 1))
    <3>1. \A j : j \in (i + 1)..B <=> j = i + 1 \/ j \in ((i + 1) + 1)..B
      BY <2>1, BlockLen
    <3> QED
      BY <2>3, <3>1 DEF Carry
  <2>5. PICK a, b, r : a = p[i] /\ b = q[i] /\ r = RangeSeq[i]
    OBVIOUS
  <2>6. a \in Nat /\ b \in Nat /\ r \in Nat \ {0}
    BY <1>1, <1>3, <2>1, <2>5, RangeSteps
  <2>7. p[i + 1] = Radix * a + v /\ RangeSeq[i + 1] = Radix * r
    BY <1>1, <2>1, <2>3, <2>5, RangeSteps
  <2>8. PICK w : w = Value(y[i + 1])
    OBVIOUS
  <2>9. q[i + 1] = Radix * b + w
    BY <1>3, <2>1, <2>5, <2>8
  <2>10. Radix \in {2, 4, 8, 16}
    BY BlockAssumption
  <2>11. CASE Carry(x, i + 1) /\ v = Radix - 1
    <3>1. w = 0
      <4>1. (v + 1) % Radix = 0
        BY <2>2, <2>11, DigitIs
      <4> QED
        BY <1>2, <2>1, <2>3, <2>8, <2>11, <4>1
    <3>2. b = a + 1 \/ (b = 0 /\ a = r - 1)
      BY <1>5, <2>4, <2>5, <2>11
    <3>3. Radix * b + w = (Radix * a + v) + 1 \/ (Radix * b + w = 0 /\ Radix * a + v = Radix * r - 1)
      BY <2>6, <2>10, <2>11, <3>1, <3>2
    <3> QED
      BY <2>1, <2>7, <2>9, <2>11, <3>3
  <2>12. CASE Carry(x, i + 1) /\ v # Radix - 1
    <3>1. w = v + 1
      <4>1. (v + 1) % Radix = v + 1
        BY <2>2, <2>12, DigitIs
      <4> QED
        BY <1>2, <2>1, <2>3, <2>8, <2>12, <4>1
    <3>2. b = a
      BY <1>5, <2>4, <2>5, <2>12
    <3>3. Radix * b + w = (Radix * a + v) + 1
      BY <2>3, <2>6, <2>10, <3>1, <3>2
    <3> QED
      BY <2>1, <2>7, <2>9, <2>12, <3>3
  <2>13. CASE ~ Carry(x, i + 1)
    <3>1. w = v
      BY <1>2, <2>1, <2>3, <2>8, <2>13
    <3>2. b = a
      BY <1>5, <2>4, <2>5, <2>13
    <3> QED
      BY <2>1, <2>7, <2>9, <2>13, <3>1, <3>2
  <2> QED
    BY <2>11, <2>12, <2>13
<1> HIDE DEF T
<1>6. 0..B \subseteq T
  BY <1>4, <1>5, BlockLen, UpTo
<1>7. Carry(x, B) /\ B \in 0..B
  BY BlockLen DEF Carry
<1> QED
  BY <1>6, <1>7 DEF T, NumberOf, p, q, y

\* The numbers of a series of counters.
LEMMA NumbersOf ==
  ASSUME NEW n \in Nat, NEW y, Digits(y[1]), n <= RangeSeq[B],
         \A i \in 2..n : y[i] = CtrInc(y[i - 1])
  PROVE  \A i \in 1..n : /\ Digits(y[i])
                         /\ \/ NumberOf(y[i]) = NumberOf(y[1]) + (i - 1)
                            \/ NumberOf(y[i]) = NumberOf(y[1]) + (i - 1) - RangeSeq[B]
<1> DEFINE Good(i) == /\ Digits(y[i])
                      /\ \/ NumberOf(y[i]) = NumberOf(y[1]) + (i - 1)
                         \/ NumberOf(y[i]) = NumberOf(y[1]) + (i - 1) - RangeSeq[B]
           T == {i \in 0..n : i = 0 \/ Good(i)}
<1>1. PICK a, r : a = NumberOf(y[1]) /\ r = RangeSeq[B]
  OBVIOUS
<1>2. a \in Nat /\ r \in Nat /\ a < r
  BY <1>1, NumberBelow
<1>3. 0 \in T
  OBVIOUS
<1>4. ASSUME NEW i \in 0..(n - 1), i \in T PROVE i + 1 \in T
  <2>1. CASE i = 0
    <3>1. i + 1 = 1 /\ 1 \in 0..n /\ a = a + (1 - 1)
      BY <1>2, <2>1
    <3>2. Good(1)
      BY <1>1, <3>1
    <3> HIDE DEF Good
    <3> QED
      BY <3>1, <3>2
  <2>2. CASE i # 0
    <3>1. i + 1 \in 2..n /\ (i + 1) - 1 = i /\ i + 1 \in 0..n /\ i < r
      <4>1. n <= r
        BY <1>1
      <4> QED
        BY ONLY <1>2, <2>2, <4>1, n \in Nat, i \in 0..(n - 1)
    <3>2. PICK b : b = NumberOf(y[i])
      OBVIOUS
    <3>3. Digits(y[i]) /\ (b = a + (i - 1) \/ b = a + (i - 1) - r)
      BY <1>1, <1>4, <2>2, <3>2
    <3>4. y[i + 1] = CtrInc(y[i])
      BY <3>1
    <3>5. PICK c : c = NumberOf(CtrInc(y[i]))
      OBVIOUS
    <3>6. Digits(CtrInc(y[i])) /\ (c = b + 1 \/ (c = 0 /\ b = r - 1))
      BY <1>1, <3>2, <3>3, <3>5, DigitsNext, NumberNext
    <3>7. c = a + ((i + 1) - 1) \/ c = a + ((i + 1) - 1) - r
      BY ONLY <1>2, <3>1, <3>3, <3>6, n \in Nat, i \in 0..(n - 1)
    <3>8. Good(i + 1)
      BY <1>1, <3>4, <3>5, <3>6, <3>7
    <3> HIDE DEF Good
    <3> QED
      BY <3>1, <3>8
  <2> QED
    BY <2>1, <2>2
<1> HIDE DEF T
<1>5. 0..n \subseteq T
  BY <1>3, <1>4, UpTo
<1> HIDE DEF Good
<1>6. \A i \in 1..n : Good(i)
  BY <1>5 DEF T
<1> QED
  BY <1>6 DEF Good

\* As long as they do not come round they differ.
LEMMA NumbersDiffer ==
  ASSUME NEW n \in Nat, NEW y, Digits(y[1]), n <= RangeSeq[B],
         \A i \in 2..n : y[i] = CtrInc(y[i - 1]),
         NEW i \in 1..n, NEW j \in 1..n, y[i] = y[j]
  PROVE  i = j
<1>1. PICK a, r : a = NumberOf(y[1]) /\ r = RangeSeq[B]
  OBVIOUS
<1>2. a \in Nat /\ r \in Nat /\ a < r /\ n <= r
  BY <1>1, NumberBelow
<1>3. \A h \in 1..n : NumberOf(y[h]) = a + (h - 1) \/ NumberOf(y[h]) = a + (h - 1) - r
  BY <1>1, NumbersOf
<1>4. PICK b : b = NumberOf(y[i]) /\ b = NumberOf(y[j])
  OBVIOUS
<1>5. b = a + (i - 1) \/ b = a + (i - 1) - r
  BY <1>3, <1>4
<1>6. b = a + (j - 1) \/ b = a + (j - 1) - r
  BY <1>3, <1>4
<1> QED
  BY ONLY <1>2, <1>5, <1>6, n \in Nat, i \in 1..n, j \in 1..n

\* A counter with other bytes is named by what it counts on from.
Unknown(x) == IsBlock(x) /\ \E i \in 1..B : ~ IsNum(x[i])
Onward(x) == Image("inc", "", Pack(x))

LEMMA UnknownNext ==
  ASSUME NEW x, Unknown(x)
  PROVE  /\ CtrInc(x) = Onward(x) /\ Unknown(CtrInc(x))
         /\ \A i \in 1..B : CtrInc(x)[i] = {<< "inc", "", Pack(x), i >>}
<1>0. PICK y : y = Image("inc", "", Pack(x))
  OBVIOUS
<1>1. IsBlock(x) /\ IsString(x) /\ Len(x) = B
  BY DEF Unknown, IsBlock, Clean
<1>2. /\ IsString(y) /\ Len(y) = B /\ \A i \in 1..B : y[i] = {<< "inc", "", Pack(x), i >>}
  <2>1. /\ IsString(Image("inc", "", Pack(x))) /\ Len(Image("inc", "", Pack(x))) = Len(x)
        /\ \A i \in 1..Len(x) : Image("inc", "", Pack(x))[i] = {<< "inc", "", Pack(x), i >>}
    <3>1. IsString(x)
      BY <1>1
    <3>2. PICK f, k : f = "inc" /\ k = ""
      OBVIOUS
    <3>3. /\ IsString(Image(f, k, Pack(x))) /\ Len(Image(f, k, Pack(x))) = Len(x)
          /\ \A i \in 1..Len(x) : Image(f, k, Pack(x))[i] = {<< f, k, Pack(x), i >>}
      BY ONLY <3>1, ImageIs
    <3> QED
      BY ONLY <3>2, <3>3
  <2> QED
    BY <1>0, <1>1, <2>1
<1>3. IsBlock(y)
  <2>1. "inc" # "D"
    OBVIOUS
  <2> QED
    BY <1>0, <1>1, <2>1, CleanImage DEF IsBlock
<1>4. SubSeq(x, 1, 0) \o SubSeq(y, 1, B) = y
  <2>1. SubSeq(x, 1, 0) = << >>
    <3>1. Clean(x) /\ 1 \in Nat \ {0} /\ 0 \in Nat /\ 0 <= Len(x) /\ 1 <= 0 + 1
      BY <1>1, BlockLen DEF Unknown, IsBlock
    <3>2. Clean(SubSeq(x, 1, 0)) /\ Len(SubSeq(x, 1, 0)) = 0 - 1 + 1
      BY <3>1, CleanPart
    <3>3. IsString(SubSeq(x, 1, 0)) /\ Len(SubSeq(x, 1, 0)) = 0
      BY <3>2 DEF Clean
    <3> QED
      BY <3>3, EmptyIs
  <2>2. SubSeq(y, 1, B) = y
    BY <1>2, BlockLen, StringMade, Tuple
  <2> QED
    BY <1>2, <2>1, <2>2, JoinEmpty
<1>5. CtrInc(x) = SubSeq(x, 1, 0) \o SubSeq(y, 1, B)
  <2>1. ~ \A i \in 1..B : IsNum(x[i])
    BY DEF Unknown
  <2>2. 1 - 1 = 0
    OBVIOUS
  <2> QED
    BY <1>0, <2>1, <2>2 DEF CtrInc, IncFrom
<1>6. ~ IsNum(y[1]) /\ 1 \in 1..B
  <2>1. 1 \in 1..B
    BY BlockLen
  <2>2. << "inc", "", Pack(x), 1 >> \in y[1]
    BY <1>2, <2>1
  <2>3. << "inc", "", Pack(x), 1 >>[1] = "inc"
    OBVIOUS
  <2> QED
    BY <2>1, <2>2, <2>3 DEF IsNum
<1> QED
  BY <1>0, <1>2, <1>3, <1>4, <1>5, <1>6 DEF Unknown, Onward

\* The first one was not made so, and those after it tell the one before.
LEMMA UnknownsDiffer ==
  ASSUME NEW n \in Nat, NEW y, Unknown(y[1]), \A l \in 1..B : \A a \in y[1][l] : a[1] # "inc",
         \A i \in 2..n : y[i] = CtrInc(y[i - 1]),
         NEW i \in 1..n, NEW j \in 1..n, y[i] = y[j]
  PROVE  i = j
<1>1. 1 \in 1..B
  BY BlockLen
<1>2. \A h \in 1..n : Unknown(y[h])
  <2> DEFINE T == {h \in 0..n : h = 0 \/ Unknown(y[h])}
  <2>1. 0 \in T
    OBVIOUS
  <2>2. ASSUME NEW h \in 0..(n - 1), h \in T PROVE h + 1 \in T
    <3>1. h + 1 \in 0..n /\ h + 1 # 0 /\ (h + 1) - 1 = h /\ (h # 0 => h + 1 \in 2..n)
      OBVIOUS
    <3>2. Unknown(y[h + 1])
      <4>1. CASE h = 0
        BY <4>1
      <4>2. CASE h # 0
        <5>1. y[h + 1] = CtrInc(y[h]) /\ Unknown(y[h])
          BY <2>2, <3>1, <4>2
        <5> QED
          BY <5>1, UnknownNext
      <4> QED
        BY <4>1, <4>2
    <3> QED
      BY <3>1, <3>2
  <2> HIDE DEF T
  <2>3. 0..n \subseteq T
    BY <2>1, <2>2, UpTo
  <2> QED
    BY <2>3 DEF T
<1>3. ASSUME NEW h \in 2..n PROVE y[h][1] = {<< "inc", "", Pack(y[h - 1]), 1 >>}
  <2>1. h - 1 \in 1..n /\ y[h] = CtrInc(y[h - 1])
    OBVIOUS
  <2> QED
    BY <1>1, <1>2, <2>1, UnknownNext, ZenonT(60)
<1> DEFINE T == {h \in 1..n : \E m \in 1..n : h < m /\ y[h] = y[m]}
<1>4. T = {}
  <2>1. SUFFICES ASSUME T # {} PROVE FALSE
    OBVIOUS
  <2>2. T \subseteq Nat
    OBVIOUS
  <2> HIDE DEF T
  <2>3. PICK h \in T : \A g \in T : h <= g
    BY <2>1, <2>2, LeastNat
  <2>4. PICK m \in 1..n : h \in 1..n /\ h < m /\ y[h] = y[m]
    BY <2>3 DEF T
  <2>5. m \in 2..n /\ m - 1 \in 1..n
    BY <2>4
  <2>6. y[m][1] = {<< "inc", "", Pack(y[m - 1]), 1 >>}
    BY <1>3, <2>5
  <2>7. CASE h = 1
    <3>1. << "inc", "", Pack(y[m - 1]), 1 >> \in y[1][1]
      BY <2>4, <2>6, <2>7
    <3>2. << "inc", "", Pack(y[m - 1]), 1 >>[1] = "inc"
      OBVIOUS
    <3> QED
      BY <1>1, <3>1, <3>2
  <2>8. CASE h # 1
    <3>1. h \in 2..n /\ h - 1 \in 1..n /\ h - 1 < m - 1 /\ ~ (h <= h - 1)
      BY <2>4, <2>8
    <3>2. y[h][1] = {<< "inc", "", Pack(y[h - 1]), 1 >>}
      BY <1>3, <3>1
    <3>3. Pack(y[h - 1]) = Pack(y[m - 1])
      <4>1. PICK p, q : p = Pack(y[h - 1]) /\ q = Pack(y[m - 1])
        OBVIOUS
      <4>2. {<< "inc", "", p, 1 >>} = {<< "inc", "", q, 1 >>}
        BY <2>4, <2>6, <3>2, <4>1
      <4>3. << "inc", "", p, 1 >> = << "inc", "", q, 1 >>
        BY ONLY <4>2
      <4>4. p = q
        BY ONLY <4>3
      <4> QED
        BY <4>1, <4>4
    <3>4. IsString(y[h - 1]) /\ IsString(y[m - 1])
      BY <1>2, <2>5, <3>1 DEF Unknown, IsBlock, Clean
    <3>5. Unpack(Pack(y[h - 1])) = y[h - 1] /\ Unpack(Pack(y[m - 1])) = y[m - 1]
      BY <3>4, UnpackPack
    <3>6. y[h - 1] = y[m - 1]
      BY <3>3, <3>5
    <3>7. h - 1 \in T
      BY <2>5, <3>1, <3>6 DEF T
    <3> QED
      BY <2>3, <3>1, <3>7
  <2> QED
    BY <2>7, <2>8
<1>5. ~ (i < j) /\ ~ (j < i)
  BY <1>4
<1> QED
  BY <1>5

\* Both kinds, in the words of what CTR is given.
LEMMA CtrCountersDiffer ==
  ASSUME NEW nonce, IsBlock(nonce), CtrNonce(nonce), NEW n \in Nat, n <= CounterRange
  PROVE  LET y == Counters(CtrInc, nonce, n)
         IN  y = [i \in 1..n |-> y[i]] /\ \A i, j \in 1..n : y[i] = y[j] => i = j
<1> DEFINE y == Counters(CtrInc, nonce, n)
<1>1. y = [i \in 1..n |-> y[i]] /\ \A i \in 1..n : y[i] = IF i = 1 THEN nonce ELSE CtrInc(y[i - 1])
  BY CtrSteps
<1> HIDE DEF y
<1>2. SUFFICES ASSUME NEW i \in 1..n, NEW j \in 1..n, y[i] = y[j] PROVE i = j
  BY <1>1 DEF y
<1>3. 1 \in 1..n /\ \A h \in 2..n : h \in 1..n /\ h # 1
  OBVIOUS
<1>4. y[1] = nonce /\ \A h \in 2..n : y[h] = CtrInc(y[h - 1])
  BY <1>1, <1>3
<1>5. DOMAIN nonce = 1..B /\ \A l \in 1..B : nonce[l] \in Range(nonce)
  BY StringProperties DEF IsBlock, Clean
<1>a. \A x \in Range(nonce) :
        /\ \A a \in x : a[1] # "inc"
        /\ IsNum(x) => \E v \in 0..(Radix - 1) : x = Num(v)
  BY DEF CtrNonce
<1>b. ASSUME NEW l \in 1..B
      PROVE  /\ \A a \in nonce[l] : a[1] # "inc"
             /\ IsNum(nonce[l]) => \E v \in 0..(Radix - 1) : nonce[l] = Num(v)
  <2>1. PICK x \in Range(nonce) : x = nonce[l]
    BY <1>5
  <2> QED
    BY ONLY <1>a, <2>1
<1>6. n <= RangeSeq[B]
  BY DEF CounterRange, RangeSeq
<1>7. CASE \A l \in 1..B : IsNum(nonce[l])
  <2>1. \A l \in 1..B : \E v : IsDigit(v) /\ nonce[l] = Num(v)
    BY <1>b, <1>7 DEF IsDigit
  <2>2. Digits(y[1])
    BY <1>4, <2>1 DEF Digits
  <2> QED
    BY <1>2, <1>4, <1>6, <2>2, NumbersDiffer
<1>8. CASE ~ \A l \in 1..B : IsNum(nonce[l])
  <2>1. Unknown(y[1])
    BY <1>4, <1>8 DEF Unknown
  <2>2. \A l \in 1..B : \A a \in y[1][l] : a[1] # "inc"
    BY <1>4, <1>b
  <2> QED
    BY <1>2, <1>4, <2>1, <2>2, UnknownsDiffer
<1> QED
  BY <1>7, <1>8

-----------------------------------------------------------------------------
(* The blocks a session enciphers: no block twice in a message, none of    *)
(* one message in another.                                                 *)

Once(s) == IsString(s) /\ \A i, j \in 1..Len(s) : s[i] = s[j] => i = j
Apart(s, t) == \A i \in 1..Len(s), j \in 1..Len(t) : s[i] # t[j]

LEMMA OnceInjective ==
  ASSUME NEW s, Once(s)
  PROVE  IsInjective(s)
<1>1. DOMAIN s = 1..Len(s)
  BY StringProperties DEF Once
<1> QED
  BY <1>1 DEF Once, IsInjective

LEMMA OnceJoin ==
  ASSUME NEW s, NEW t, Once(s), Once(t), Apart(s, t)
  PROVE  Once(s \o t)
<1>1. PICK m, n \in Nat : m = Len(s) /\ n = Len(t)
  BY StringProperties DEF Once
<1>2. PICK u : u = s \o t
  OBVIOUS
<1>3. /\ IsString(u) /\ Len(u) = m + n
      /\ \A i \in 1..(m + n) : u[i] = IF i <= m THEN s[i] ELSE t[i - m]
  BY <1>1, <1>2, Joined DEF Once
<1>4. ASSUME NEW i \in 1..(m + n), NEW j \in 1..(m + n), u[i] = u[j] PROVE i = j
  <2>1. CASE i <= m /\ j <= m
    <3>1. i \in 1..m /\ j \in 1..m /\ s[i] = s[j]
      BY <1>3, <1>4, <2>1
    <3> QED
      BY <1>1, <3>1 DEF Once
  <2>2. CASE ~ (i <= m) /\ ~ (j <= m)
    <3>1. i - m \in 1..n /\ j - m \in 1..n /\ t[i - m] = t[j - m]
      BY <1>3, <1>4, <2>2
    <3>2. i - m = j - m
      BY <1>1, <3>1 DEF Once
    <3> QED
      BY <3>2
  <2>3. ASSUME NEW a \in 1..(m + n), NEW b \in 1..(m + n), a <= m, ~ (b <= m), u[a] = u[b]
        PROVE  FALSE
    <3>1. a \in 1..m /\ b - m \in 1..n /\ s[a] = t[b - m]
      BY <1>3, <2>3
    <3> QED
      BY <1>1, <3>1 DEF Apart
  <2> QED
    BY <1>4, <2>1, <2>2, <2>3
<1> QED
  BY <1>2, <1>3, <1>4 DEF Once

\* What is in a joined string was in a part.
LEMMA InJoined ==
  ASSUME NEW s, NEW t, IsString(s), IsString(t), NEW i \in 1..Len(s \o t)
  PROVE  (\E j \in 1..Len(s) : (s \o t)[i] = s[j]) \/ (\E j \in 1..Len(t) : (s \o t)[i] = t[j])
<1>1. PICK m, n \in Nat : m = Len(s) /\ n = Len(t)
  BY StringProperties
<1>2. PICK u : u = s \o t
  OBVIOUS
<1>3. /\ Len(u) = m + n
      /\ \A k \in 1..(m + n) : u[k] = IF k <= m THEN s[k] ELSE t[k - m]
  BY <1>1, <1>2, Joined
<1>4. i \in 1..(m + n)
  BY <1>2, <1>3
<1>5. (i <= m => i \in 1..m) /\ (~ (i <= m) => i - m \in 1..n)
  BY <1>4
<1> QED
  BY <1>1, <1>2, <1>3, <1>4, <1>5

LEMMA OnceOne ==
  ASSUME NEW x
  PROVE  Once(<< x >>) /\ Len(<< x >>) = 1 /\ << x >>[1] = x
<1>1. IsString(<< x >>) /\ Len(<< x >>) = 1 /\ << x >>[1] = x
  BY One
<1>2. \A i, j \in 1..1 : i = j
  OBVIOUS
<1> QED
  BY <1>1, <1>2 DEF Once

LEMMA OnceEmpty == Once(<< >>) /\ Len(<< >>) = 0
BY Empty DEF Once

LEMMA OnceMade ==
  ASSUME NEW n \in Nat, NEW s, s = [i \in 1..n |-> s[i]],
         \A i, j \in 1..n : s[i] = s[j] => i = j
  PROVE  Once(s) /\ Len(s) = n
BY MadeString DEF Once

\* None, one or two strings one after the other.
LEMMA FlatFew ==
  ASSUME NEW n \in 0..2, NEW t, t = [i \in 1..n |-> t[i]], n # 0 => IsString(t[1])
  PROVE  /\ n = 0 => FlattenSeq(t) = << >>
         /\ n = 1 => FlattenSeq(t) = t[1]
         /\ n = 2 => FlattenSeq(t) = t[1] \o t[2]
<1> DEFINE Is(f) == f = [i \in 1..n |-> IF i = 1 THEN t[i] ELSE f[i - 1] \o t[i]]
           f     == CHOOSE f : Is(f)
<1>1. Len(t) = n /\ IsString(t) /\ n \in Nat
  BY MadeString
<1>2. CASE n = 0
  <2>1. FlattenSeq(t) = t
    BY <1>1, <1>2 DEF FlattenSeq
  <2>2. Len(t) = Len(<< >>) /\ IsString(<< >>) /\ 1..Len(t) = {}
    BY <1>1, <1>2, Empty
  <2>3. t = << >>
    BY <1>1, <2>2, SameString
  <2> QED
    BY <1>2, <2>1, <2>3
<1>3. CASE n # 0
  <2>1. FlattenSeq(t) = f[n]
    BY <1>1, <1>3 DEF FlattenSeq
  <2>2. Is(f)
    <3>1. PICK g : IsFlattened(g, n, t)
      BY <1>1, FlattenedExists
    <3>2. Is(g)
      BY <3>1 DEF IsFlattened
    <3> HIDE DEF Is
    <3> QED
      BY <3>2, Zenon
  <2> HIDE DEF f
  <2>3. \A i \in 1..n : f[i] = IF i = 1 THEN t[i] ELSE f[i - 1] \o t[i]
    BY <2>2
  <2>4. 1 \in 1..n /\ f[1] = t[1]
    BY <1>3, <2>3
  <2>5. n = 2 => f[2] = f[1] \o t[2]
    BY <2>3
  <2> QED
    BY <1>3, <2>1, <2>4, <2>5
<1> QED
  BY <1>2, <1>3

-----------------------------------------------------------------------------
(* GCM: the nonce and a number from one up.                                *)

LEMMA SomeIsNotZero ==
  ASSUME NEW v \in 1..255
  PROVE  Num(v) # Zero
<1>1. Num(0) = Zero
  <2>1. \A j \in 0..7 : << "bit", j >> \notin Num(0)
    <3>1. /\ 0 \div 2^0 = 0 /\ 0 \div 2^1 = 0 /\ 0 \div 2^2 = 0 /\ 0 \div 2^3 = 0
          /\ 0 \div 2^4 = 0 /\ 0 \div 2^5 = 0 /\ 0 \div 2^6 = 0 /\ 0 \div 2^7 = 0
      OBVIOUS
    <3>2. \A j \in 0..7 : j \in {0, 1, 2, 3, 4, 5, 6, 7}
      OBVIOUS
    <3>3. \A j \in {0, 1, 2, 3, 4, 5, 6, 7} : 0 \div 2^j = 0
      BY <3>1, Zenon
    <3>4. 0 % 2 # 1
      OBVIOUS
    <3>5. \A j \in 0..7 : ~ ((0 \div 2^j) % 2 = 1)
      BY <3>2, <3>3, <3>4, Zenon
    <3> QED
      BY <3>5, BitIn
  <2> QED
    BY <2>1 DEF Num, Zero
<1>2. 0 \in 0..255 /\ v \in 0..255 /\ v # 0
  OBVIOUS
<1> QED
  BY <1>1, <1>2, NumSame

\* All of them are the nonce and a number that is not zero.
GcmInputs(s, nonce) ==
  \A i \in 1..Len(s) : \E v \in 1..255 : s[i] = NonceAnd(nonce, v)

LEMMA GcmOnce ==
  ASSUME NEW nonce, Clean(nonce), Len(nonce) = B - 1, NEW data, Clean(data),
         Parts(Len(data)) <= Radix - 2
  PROVE  LET s == << GcmJ0(nonce) >> \o GcmCounters(nonce, data)
         IN  Once(s) /\ GcmInputs(s, nonce)
<1>1. PICK n \in Nat : n = Parts(Len(data))
  BY CleanChunks
<1>2. PICK y : y = GcmCounters(nonce, data)
  OBVIOUS
<1>3. y = [i \in 1..n |-> y[i]]
  <2>1. Len(Chunks(data)) = n
    BY <1>1, CleanChunks
  <2>2. y = Counters(GcmCtrInc, GcmCtrInc(GcmJ0(nonce)), n)
    BY <1>2, <2>1 DEF GcmCounters
  <2>3. PICK first : first = GcmCtrInc(GcmJ0(nonce))
    OBVIOUS
  <2>4. y = Counters(GcmCtrInc, first, n)
    BY <2>2, <2>3
  <2> DEFINE z == Counters(GcmCtrInc, first, n)
  <2>5. z = [i \in 1..n |-> z[i]]
    BY ONLY n \in Nat, GcmSteps
  <2> HIDE DEF z
  <2>6. y = z
    BY <2>4 DEF z
  <2> QED
    BY <2>5, <2>6
<1>4. \A i \in 1..n : y[i] = NonceAnd(nonce, i + 1)
  BY <1>1, <1>2, GcmCountersAre
<1>5. n <= Radix - 2 /\ Radix \in Nat /\ Radix <= 16
  BY <1>1, RadixIs
<1>6. \A i \in 1..n : i + 1 \in 1..255 /\ i + 1 \in 0..255 /\ i + 1 # 1
  BY <1>5
<1>7. ASSUME NEW v \in 0..255, NEW w \in 0..255, NonceAnd(nonce, v) = NonceAnd(nonce, w)
      PROVE  v = w
  <2>1. NonceAnd(nonce, v)[B] = Num(v) /\ NonceAnd(nonce, w)[B] = Num(w)
    BY NonceAndIs
  <2>2. Num(v) = Num(w)
    BY <1>7, <2>1
  <2> QED
    BY <2>2, NumSame
<1>8. Once(y) /\ Len(y) = n
  <2>1. ASSUME NEW i \in 1..n, NEW j \in 1..n, y[i] = y[j] PROVE i = j
    <3>1. NonceAnd(nonce, i + 1) = NonceAnd(nonce, j + 1)
      BY <1>4, <2>1
    <3>2. i + 1 = j + 1
      BY <1>6, <1>7, <3>1
    <3> QED
      BY <3>2
  <2> QED
    BY <1>3, <2>1, OnceMade
<1>9. PICK x : x = GcmJ0(nonce)
  OBVIOUS
<1>10. x = NonceAnd(nonce, 1) /\ 1 \in 0..255 /\ 1 \in 1..255
  BY <1>9 DEF GcmJ0, NonceAnd
<1>11. Once(<< x >>) /\ Len(<< x >>) = 1 /\ << x >>[1] = x
  BY OnceOne
<1>12. Apart(<< x >>, y)
  <2>1. ASSUME NEW i \in 1..1, NEW j \in 1..n PROVE << x >>[i] # y[j]
    <3>1. << x >>[i] = NonceAnd(nonce, 1) /\ y[j] = NonceAnd(nonce, j + 1)
      BY <1>4, <1>10, <1>11
    <3>2. j + 1 \in 0..255 /\ j + 1 # 1
      BY <1>6
    <3>3. NonceAnd(nonce, 1) # NonceAnd(nonce, j + 1)
      BY <1>7, <1>10, <3>2
    <3> QED
      BY <3>1, <3>3
  <2> QED
    BY <1>8, <1>11, <2>1 DEF Apart
<1>13. Once(<< x >> \o y)
  BY <1>8, <1>11, <1>12, OnceJoin
<1>14. GcmInputs(<< x >> \o y, nonce)
  <2>1. SUFFICES ASSUME NEW i \in 1..Len(<< x >> \o y)
                 PROVE  \E v \in 1..255 : (<< x >> \o y)[i] = NonceAnd(nonce, v)
    BY DEF GcmInputs
  <2>2. PICK z : z = (<< x >> \o y)[i]
    OBVIOUS
  <2>3. (\E j \in 1..1 : z = << x >>[j]) \/ (\E j \in 1..n : z = y[j])
    BY <1>8, <1>11, <2>2, InJoined DEF Once
  <2>4. z = x \/ \E j \in 1..n : z = y[j]
    BY <1>11, <2>3
  <2>5. \E v \in 1..255 : z = NonceAnd(nonce, v)
    BY <1>4, <1>6, <1>10, <2>4
  <2> QED
    BY <2>2, <2>5
<1> QED
  BY <1>2, <1>9, <1>13, <1>14

\* Under two nonces they have no block in common, nor is the zero block,
\* which makes the hash key, one of them.
LEMMA GcmApart ==
  ASSUME NEW m, Clean(m), Len(m) = B - 1, NEW n, Clean(n), Len(n) = B - 1, m # n,
         NEW s, GcmInputs(s, m), NEW t, GcmInputs(t, n)
  PROVE  Apart(s, t)
<1>1. ASSUME NEW i \in 1..Len(s), NEW j \in 1..Len(t), s[i] = t[j] PROVE FALSE
  <2>1. PICK v \in 1..255 : s[i] = NonceAnd(m, v)
    BY ZenonT(60) DEF GcmInputs
  <2>2. PICK w \in 1..255 : t[j] = NonceAnd(n, w)
    BY DEF GcmInputs
  <2>3. v \in 0..255 /\ w \in 0..255
    OBVIOUS
  <2>4. NonceAnd(m, v) = NonceAnd(n, w)
    BY <1>1, <2>1, <2>2
  <2>5. m = n
    BY <2>3, <2>4, NonceTells
  <2> QED
    BY <2>5
<1> QED
  BY <1>1 DEF Apart

LEMMA GcmNotZero ==
  ASSUME NEW n, Clean(n), Len(n) = B - 1, NEW s, GcmInputs(s, n)
  PROVE  Apart(<< ZeroBlock >>, s)
<1>1. Len(<< ZeroBlock >>) = 1 /\ << ZeroBlock >>[1] = ZeroBlock
  BY OnceOne
<1>2. ASSUME NEW j \in 1..Len(s), ZeroBlock = s[j] PROVE FALSE
  <2>1. PICK v \in 1..255 : s[j] = NonceAnd(n, v)
    BY DEF GcmInputs
  <2>2. NonceAnd(n, v)[B] = Num(v)
    BY NonceAndIs
  <2>3. ZeroBlock[B] = Zero
    BY BlockLen DEF ZeroBlock
  <2> QED
    BY <1>2, <2>1, <2>2, <2>3, SomeIsNotZero
<1>3. ASSUME NEW i \in 1..Len(<< ZeroBlock >>), NEW j \in 1..Len(s)
      PROVE  << ZeroBlock >>[i] # s[j]
  <2>1. i = 1
    BY <1>1
  <2> QED
    BY <1>1, <1>2, <2>1
<1> QED
  BY <1>3 DEF Apart

-----------------------------------------------------------------------------
(* CCM: the nonce between the flags and a number.                          *)

\* All of them are the nonce between two numbers.
CcmInputs(s, nonce) ==
  \A i \in 1..Len(s) : \E v, w : s[i] = Framed(v, nonce, w)

LEMMA CcmLast ==
  ASSUME NEW nonce, IsCcmNonce(nonce), NEW v, NEW w, NEW q \in 0..255, NEW r \in 0..255,
         Framed(v, nonce, q) = Framed(w, nonce, r)
  PROVE  q = r
<1>1. Framed(v, nonce, q)[B] = Num(q) /\ Framed(w, nonce, r)[B] = Num(r)
  BY FramedParts
<1>2. Num(q) = Num(r)
  BY <1>1
<1> QED
  BY <1>2, NumSame, ZenonT(60)

LEMMA CcmFirst ==
  ASSUME NEW nonce, IsCcmNonce(nonce), NEW v \in 0..255, NEW w \in 0..255, NEW q, NEW r,
         Framed(v, nonce, q) = Framed(w, nonce, r)
  PROVE  v = w
<1>1. Framed(v, nonce, q)[1] = Num(v) /\ Framed(w, nonce, r)[1] = Num(w)
  BY FramedParts
<1>2. Num(v) = Num(w)
  BY <1>1
<1> QED
  BY <1>2, NumSame

\* Counter i of a message shorter than the length field counts.
LEMMA CcmCounterIs ==
  ASSUME NEW nonce, IsCcmNonce(nonce), NEW i \in 0..(LenRadix - 1)
  PROVE  CcmA(nonce, i) = Framed(2, nonce, i) /\ i \in 0..255
<1>1. LenRadix \in Nat /\ LenRadix >= 1 /\ LenRadix <= 256
  BY LimitAssumption, BlockAssumption
<1>2. i % LenRadix = i /\ i \in 0..255
  BY <1>1
<1> QED
  BY <1>2, CcmAIs

LEMMA CcmOnce ==
  ASSUME NEW nonce, IsCcmNonce(nonce), NEW data, Clean(data), Parts(Len(data)) < LenRadix,
         NEW aad, NEW tl \in 1..B
  PROVE  LET s == (<< CcmA(nonce, 0) >> \o CcmCounters(nonce, data))
                    \o << CcmFrame(nonce, aad, data, tl) >>
         IN  Once(s) /\ CcmInputs(s, nonce)
<1>1. PICK n \in Nat : n = Parts(Len(data))
  BY CleanChunks
<1>2. PICK y : y = CcmCounters(nonce, data)
  OBVIOUS
<1>3. LenRadix \in Nat /\ n < LenRadix
  BY <1>1, LimitAssumption, BlockAssumption
<1>4. y = [i \in 1..n |-> CcmA(nonce, i)]
  <2>1. Len(Chunks(data)) = n
    BY <1>1, CleanChunks
  <2> QED
    BY <1>2, <2>1 DEF CcmCounters
<1>5. ASSUME NEW i \in 0..n PROVE CcmA(nonce, i) = Framed(2, nonce, i) /\ i \in 0..255
  <2>1. i \in 0..(LenRadix - 1)
    BY <1>3
  <2> QED
    BY <2>1, CcmCounterIs
<1>6. Once(y) /\ Len(y) = n
  <2>1. y = [i \in 1..n |-> y[i]]
    BY <1>4
  <2>2. ASSUME NEW i \in 1..n, NEW j \in 1..n, y[i] = y[j] PROVE i = j
    <3>1. i \in 0..n /\ j \in 0..n
      OBVIOUS
    <3>2. y[i] = CcmA(nonce, i) /\ y[j] = CcmA(nonce, j)
      BY <1>4
    <3>3. Framed(2, nonce, i) = Framed(2, nonce, j)
      BY <1>5, <2>2, <3>1, <3>2
    <3>4. i \in 0..255 /\ j \in 0..255
      BY <1>5, <3>1
    <3> QED
      BY <3>3, <3>4, CcmLast
  <2> QED
    BY <2>1, <2>2, OnceMade
<1>7. PICK x : x = CcmA(nonce, 0)
  OBVIOUS
<1>8. x = Framed(2, nonce, 0) /\ 0 \in 0..255
  BY <1>5, <1>7
<1>9. Once(<< x >>) /\ Len(<< x >>) = 1 /\ << x >>[1] = x
  BY OnceOne
<1>10. Apart(<< x >>, y)
  <2>1. ASSUME NEW i \in 1..1, NEW j \in 1..n, << x >>[i] = y[j] PROVE FALSE
    <3>1. j \in 0..n /\ j # 0
      OBVIOUS
    <3>2. Framed(2, nonce, 0) = Framed(2, nonce, j) /\ j \in 0..255
      BY <1>4, <1>5, <1>8, <1>9, <2>1, <3>1
    <3>3. 0 = j
      BY <1>8, <3>2, CcmLast
    <3> QED
      BY <3>1, <3>3
  <2> QED
    BY <1>6, <1>9, <2>1 DEF Apart
<1>11. PICK u : u = << x >> \o y
  OBVIOUS
<1>12. Once(u)
  BY <1>6, <1>9, <1>10, <1>11, OnceJoin
<1>13. \A i \in 1..Len(u) : \E w : u[i] = Framed(2, nonce, w)
  <2>1. ASSUME NEW i \in 1..Len(u) PROVE \E w : u[i] = Framed(2, nonce, w)
    <3>1. (\E j \in 1..1 : u[i] = << x >>[j]) \/ (\E j \in 1..n : u[i] = y[j])
      BY <1>6, <1>9, <1>11, InJoined DEF Once
    <3>2. CASE \E j \in 1..1 : u[i] = << x >>[j]
      BY <1>8, <1>9, <3>2
    <3>3. CASE \E j \in 1..n : u[i] = y[j]
      <4>1. PICK j \in 1..n : u[i] = y[j]
        BY <3>3
      <4>2. j \in 0..n
        OBVIOUS
      <4> QED
        BY <1>4, <1>5, <4>1, <4>2
    <3> QED
      BY <3>1, <3>2, <3>3
  <2> QED
    BY <2>1
<1>14. PICK z : z = CcmFrame(nonce, aad, data, tl)
  OBVIOUS
<1>15. PICK v, w : v = FlagsOf(aad, tl) /\ w = Len(data) % LenRadix
  OBVIOUS
<1>16. z = Framed(v, nonce, w)
  BY <1>14, <1>15, CcmFrameIs
<1>17. v \in 0..255 /\ v # 2
  BY <1>15, FlagsAre
<1>18. Once(<< z >>) /\ Len(<< z >>) = 1 /\ << z >>[1] = z
  BY OnceOne
<1>19. Apart(u, << z >>)
  <2>1. ASSUME NEW i \in 1..Len(u), NEW j \in 1..1, u[i] = << z >>[j] PROVE FALSE
    <3>1. PICK q : u[i] = Framed(2, nonce, q)
      BY <1>13
    <3>2. Framed(2, nonce, q) = Framed(v, nonce, w) /\ 2 \in 0..255
      BY <1>16, <1>18, <2>1, <3>1
    <3>3. 2 = v
      BY <1>17, <3>2, CcmFirst
    <3> QED
      BY <1>17, <3>3
  <2> QED
    BY <1>18, <2>1 DEF Apart
<1>20. PICK s : s = u \o << z >>
  OBVIOUS
<1>21. Once(s)
  BY <1>12, <1>18, <1>19, <1>20, OnceJoin
<1>22. CcmInputs(s, nonce)
  <2>1. ASSUME NEW i \in 1..Len(s) PROVE \E q, r : s[i] = Framed(q, nonce, r)
    <3>1. (\E j \in 1..Len(u) : s[i] = u[j]) \/ (\E j \in 1..1 : s[i] = << z >>[j])
      BY <1>12, <1>18, <1>20, InJoined DEF Once
    <3>2. (\E j \in 1..Len(u) : s[i] = u[j]) \/ s[i] = z
      BY <1>18, <3>1
    <3> QED
      BY <1>13, <1>16, <3>2
  <2> QED
    BY <2>1 DEF CcmInputs
<1> QED
  BY <1>2, <1>7, <1>11, <1>14, <1>20, <1>21, <1>22

LEMMA CcmApart ==
  ASSUME NEW m, IsCcmNonce(m), NEW n, IsCcmNonce(n), m # n,
         NEW s, CcmInputs(s, m), NEW t, CcmInputs(t, n)
  PROVE  Apart(s, t)
<1>1. ASSUME NEW i \in 1..Len(s), NEW j \in 1..Len(t), s[i] = t[j] PROVE FALSE
  <2>1. PICK v, w : s[i] = Framed(v, m, w)
    BY DEF CcmInputs
  <2>2. PICK q, r : t[j] = Framed(q, n, r)
    BY DEF CcmInputs
  <2>3. Framed(v, m, w) = Framed(q, n, r)
    BY <1>1, <2>1, <2>2
  <2>4. m = n
    BY <2>3, FramedTells
  <2> QED
    BY <2>4
<1> QED
  BY <1>1 DEF Apart

-----------------------------------------------------------------------------
(* The session: at most two messages, by CTR at most one.                  *)

FewSealed ==
  /\ Len(sealed) \in 0..2
  /\ Len(sealed) = 2 => sealed[1].env.mode # "ctr"

LEMMA FewHold ==
  Spec => []FewSealed
<1>1. Init => FewSealed
  BY Empty DEF Init, FewSealed
<1>2. SessionInv /\ FewSealed /\ [Next]_vars => FewSealed'
  <2> SUFFICES ASSUME SessionInv, FewSealed, [Next]_vars PROVE FewSealed'
    OBVIOUS
  <2>1. IsString(sealed) /\ sealed = [i \in 1..Len(sealed) |-> sealed[i]]
    BY MadeString DEF SessionInv, SealedIs
  <2>2. ASSUME NEW c, Seal(c), NEW n \in {0, 1}, n = Len(sealed)
        PROVE  \/ sealed' = sealed
               \/ (Len(sealed') = n + 1 /\ (n = 1 => sealed'[1] = sealed[1]))
    <3>1. \/ sealed' = sealed
          \/ \E e : sealed' = Append(sealed, e)
      BY <2>2 DEF Seal, Keep
    <3>2. CASE \E e : sealed' = Append(sealed, e)
      <4>1. PICK e : sealed' = Append(sealed, e)
        BY <3>2
      <4>2. PICK t : t = sealed'
        OBVIOUS
      <4>3. t = [i \in 1..(n + 1) |-> t[i]] /\ \A i \in 1..n : t[i] = sealed[i]
        BY <2>1, <2>2, <4>1, <4>2, AppendMakes
      <4>4. Len(t) = n + 1
        BY <4>3, MadeString
      <4> QED
        BY <4>2, <4>3, <4>4
    <3> QED
      BY <3>1, <3>2
  <2>3. CASE SealFirst
    <3>1. PICK c \in Calls : Seal(c)
      BY <2>3 DEF SealFirst
    <3>2. Len(sealed) = 0
      BY <2>3, Empty DEF SealFirst
    <3>3. sealed' = sealed \/ Len(sealed') = 0 + 1
      BY <2>2, <3>1, <3>2
    <3> QED
      BY <3>3 DEF FewSealed
  <2>4. CASE SealSecond
    <3>1. Len(sealed) = 1
      BY <2>4 DEF SealSecond
    <3>2. PICK c \in Follow : c.mode = sealed[1].env.mode /\ Seal(c)
      BY <2>4 DEF SealSecond
    <3>3. c.mode # "ctr"
      BY <3>2, LimitAssumption
    <3>4. sealed' = sealed \/ (Len(sealed') = 1 + 1 /\ sealed'[1] = sealed[1])
      BY <2>2, <3>1, <3>2
    <3> QED
      BY <3>1, <3>2, <3>3, <3>4 DEF FewSealed
  <2>5. CASE Open
    BY <2>5 DEF Open, FewSealed
  <2>6. CASE UNCHANGED vars
    BY <2>6 DEF vars, FewSealed
  <2> QED
    BY <2>3, <2>4, <2>5, <2>6 DEF Next
<1> QED
  BY <1>1, <1>2, SessionHolds, PTL DEF Spec

-----------------------------------------------------------------------------
(* What one message has enciphered.                                        *)

GcmModes == {"gcm", "gcm_combined"}
InputsGood(s, mode, nonce) ==
  /\ Once(s)
  /\ mode \in GcmModes => Clean(nonce) /\ Len(nonce) = B - 1 /\ GcmInputs(s, nonce)
  /\ mode = "ccm" => IsCcmNonce(nonce) /\ CcmInputs(s, nonce)
  /\ mode \notin GcmModes \cup {"ccm", "ctr"} => s = << >>

LEMMA InputsAre ==
  ASSUME NEW r, NEW mode, NEW par, SealedBy(r, mode, par), WithinLimit(r)
  PROVE  r.env.mode = mode /\ InputsGood(CipherInputs(r), mode, r.env.nonce)
<1>1. PICK c \in Calls \cup Follow :
        \E id \in Nat : /\ c.mode = mode /\ c.par = par
                        /\ SealedAs(r.env, c, id) /\ r.pt = Message(c, id).pt
  BY DEF SealedBy
<1>2. PICK id \in Nat : SealedAs(r.env, c, id) /\ r.pt = Message(c, id).pt
  BY <1>1
<1>3. PICK e : e = r.env
  OBVIOUS
<1>4. c.mode = mode /\ e.mode = mode /\ e.par = par /\ e.nonce = c.nonce /\ SealedAs(e, c, id)
  BY <1>1, <1>2, <1>3, SealedAsIs
<1>5. PICK p : p = r.pt
  OBVIOUS
<1>6. Clean(p)
  <2>1. p = Text(c.text, id, c.pt)
    BY <1>2, <1>5 DEF Message
  <2>2. c.text \in {"zero", "fresh", "same"} /\ c.pt \in Nat
    BY CallAssumption, OfferAssumption
  <2> QED
    BY <2>1, <2>2, CleanText
<1>7. Len(Chunks(p)) = Parts(Len(p))
  BY <1>6, CleanChunks
<1>8. PICK n : n = e.nonce
  OBVIOUS
<1>9. PICK s : s = CipherInputs(r)
  OBVIOUS
<1>10. CASE mode \in GcmModes
  <2>1. Clean(n) /\ Len(n) = B - 1
    BY <1>4, <1>8, <1>10, GcmCallIs DEF GcmModes
  <2>2. s = << GcmJ0(n) >> \o GcmCounters(n, p)
    BY <1>3, <1>4, <1>5, <1>8, <1>9, <1>10 DEF CipherInputs, GcmModes
  <2>3. Parts(Len(p)) <= Radix - 2
    BY <1>3, <1>4, <1>5, <1>7, <1>10 DEF WithinLimit, GcmModes
  <2>4. Once(s) /\ GcmInputs(s, n)
    BY <1>6, <2>1, <2>2, <2>3, GcmOnce
  <2>5. mode # "ccm"
    BY <1>10 DEF GcmModes
  <2> QED
    BY <1>3, <1>4, <1>8, <1>9, <1>10, <2>1, <2>4, <2>5 DEF InputsGood
<1>11. CASE mode = "ccm"
  <2>1. PICK q, z : CcmParts(e, par, q, z)
    <3>1. Family({e}, "ccm", par)
      BY <1>1, <1>2, <1>3, <1>11 DEF Family
    <3> QED
      BY <3>1, CcmFamily
  <2>2. IsCcmNonce(n) /\ par \in 1..B
    BY <1>8, <2>1 DEF CcmParts, CcmSealedText, CcmText
  <2>3. s = (<< CcmA(n, 0) >> \o CcmCounters(n, p)) \o << CcmFrame(n, e.aad, p, par) >>
    BY <1>3, <1>4, <1>5, <1>8, <1>9, <1>11 DEF CipherInputs, CcmFrame, CcmB0
  <2>4. Parts(Len(p)) < LenRadix
    BY <1>3, <1>4, <1>5, <1>7, <1>11 DEF WithinLimit
  <2>5. PICK a : a = e.aad
    OBVIOUS
  <2>6. Once(s) /\ CcmInputs(s, n)
    BY <1>6, <2>2, <2>3, <2>4, <2>5, CcmOnce
  <2> QED
    BY <1>3, <1>4, <1>8, <1>9, <1>11, <2>2, <2>6 DEF InputsGood, GcmModes
<1>12. CASE mode = "ctr"
  <2>1. IsBlock(n)
    <3>1. Given(n) /\ Len(n) = B
      BY <1>4, <1>8, <1>12, CallAssumption
    <3> QED
      BY <3>1, GivenClean DEF IsBlock
  <2>2. CtrNonce(n)
    BY <1>4, <1>8, <1>12, LimitAssumption
  <2>3. PICK l \in Nat : l = Len(Chunks(p))
    BY <1>6, <1>7, CleanChunks
  <2>4. s = Counters(CtrInc, n, l)
    BY <1>3, <1>4, <1>5, <1>8, <1>9, <1>12, <2>3 DEF CipherInputs
  <2>5. l <= CounterRange
    BY <1>3, <1>4, <1>5, <1>12, <2>3 DEF WithinLimit
  <2>6. s = [i \in 1..l |-> s[i]] /\ \A i, j \in 1..l : s[i] = s[j] => i = j
    BY <2>1, <2>2, <2>4, <2>5, CtrCountersDiffer
  <2>7. Once(s)
    BY <2>6, OnceMade
  <2> QED
    BY <1>3, <1>4, <1>9, <1>12, <2>7 DEF InputsGood, GcmModes
<1>13. CASE mode \notin GcmModes \cup {"ccm", "ctr"}
  <2>1. s = << >>
    BY <1>3, <1>4, <1>9, <1>13 DEF CipherInputs, GcmModes
  <2> QED
    BY <1>3, <1>4, <1>9, <1>13, <2>1, OnceEmpty DEF InputsGood
<1> QED
  BY <1>10, <1>11, <1>12, <1>13

LEMMA ApartJoined ==
  ASSUME NEW x, NEW s, NEW t, IsString(s), IsString(t), Apart(x, s), Apart(x, t)
  PROVE  Apart(x, s \o t)
<1>1. ASSUME NEW i \in 1..Len(x), NEW j \in 1..Len(s \o t) PROVE x[i] # (s \o t)[j]
  <2>1. (\E h \in 1..Len(s) : (s \o t)[j] = s[h]) \/ (\E h \in 1..Len(t) : (s \o t)[j] = t[h])
    BY InJoined
  <2> QED
    BY <2>1 DEF Apart
<1> QED
  BY <1>1 DEF Apart

\* All of them together: those of both messages, and the zero block.
LEMMA SessionOnce ==
  ASSUME SessionInv, KeptInv, FewSealed
  PROVE  KeyStreamOnce
<1> SUFFICES ASSUME \A i \in DOMAIN sealed : WithinLimit(sealed[i])
             PROVE  IsInjective((IF \E i \in DOMAIN sealed :
                                      sealed[i].env.mode \in {"gcm", "gcm_combined"}
                                 THEN << ZeroBlock >> ELSE << >>)
                       \o FlattenSeq([i \in DOMAIN sealed |-> CipherInputs(sealed[i])]))
  BY DEF KeyStreamOnce
<1>1. PICK n \in 0..2 : n = Len(sealed)
  BY DEF FewSealed
<1>2. DOMAIN sealed = 1..n /\ \A i \in 1..n : i = 1 \/ (i = 2 /\ n = 2)
  BY <1>1 DEF SessionInv, SealedIs
<1>3. PICK mode, par : mode = sealed[1].env.mode /\ par = sealed[1].env.par
  OBVIOUS
<1>4. \A i \in 1..n : SealedBy(sealed[i], mode, par)
  BY <1>1, <1>3 DEF KeptInv, AllSealed
<1>5. \A i \in 1..n : /\ sealed[i].env.mode = mode
                      /\ InputsGood(CipherInputs(sealed[i]), mode, sealed[i].env.nonce)
  BY <1>2, <1>4, InputsAre
<1>6. PICK t : t = [i \in 1..n |-> CipherInputs(sealed[i])]
  OBVIOUS
<1>7. PICK N : N = [i \in 1..n |-> sealed[i].env.nonce]
  OBVIOUS
<1>8. /\ t = [i \in 1..n |-> t[i]]
      /\ \A i \in 1..n : InputsGood(t[i], mode, N[i])
  BY <1>5, <1>6, <1>7
<1>9. n = 2 => mode # "ctr"
  BY <1>1, <1>3 DEF FewSealed
<1>10. n = 2 => N[1] # N[2] \/ mode = "wrap"
  <2>1. ASSUME n = 2 PROVE N[1] # N[2] \/ mode = "wrap"
    <3>1. 1 \in 1..n /\ 2 \in 1..n /\ 1 # 2
      BY <2>1
    <3>2. sealed[1].env.nonce # sealed[2].env.nonce \/ mode = "wrap"
      BY <1>1, <1>3, <3>1 DEF KeptInv, NoncesDiffer
    <3> QED
      BY <1>7, <3>1, <3>2
  <2> QED
    BY <2>1
<1>11. \A i \in 1..n : Once(t[i]) /\ IsString(t[i])
  BY <1>8 DEF InputsGood, Once
<1>12. /\ n = 0 => FlattenSeq(t) = << >>
       /\ n = 1 => FlattenSeq(t) = t[1]
       /\ n = 2 => FlattenSeq(t) = t[1] \o t[2]
  <2>1. n # 0 => IsString(t[1])
    BY <1>11
  <2> QED
    BY <1>8, <2>1, FlatFew
<1>13. ASSUME n = 2 PROVE Apart(t[1], t[2])
  <2>1. 1 \in 1..n /\ 2 \in 1..n
    BY <1>13
  <2>2. InputsGood(t[1], mode, N[1]) /\ InputsGood(t[2], mode, N[2])
    BY <1>8, <2>1
  <2>3. CASE mode \in GcmModes
    <3>1. N[1] # N[2]
      BY <1>10, <1>13, <2>3 DEF GcmModes
    <3>2. Clean(N[1]) /\ Len(N[1]) = B - 1 /\ GcmInputs(t[1], N[1])
      BY <2>2, <2>3 DEF InputsGood
    <3>3. Clean(N[2]) /\ Len(N[2]) = B - 1 /\ GcmInputs(t[2], N[2])
      BY <2>2, <2>3 DEF InputsGood
    <3> QED
      BY <3>1, <3>2, <3>3, GcmApart
  <2>4. CASE mode = "ccm"
    <3>1. N[1] # N[2]
      BY <1>10, <1>13, <2>4
    <3>2. /\ IsCcmNonce(N[1]) /\ CcmInputs(t[1], N[1])
          /\ IsCcmNonce(N[2]) /\ CcmInputs(t[2], N[2])
      BY <2>2, <2>4 DEF InputsGood
    <3> QED
      BY <3>1, <3>2, CcmApart
  <2>5. CASE mode \notin GcmModes \cup {"ccm"}
    <3>1. t[1] = << >>
      BY <1>9, <1>13, <2>2, <2>5 DEF InputsGood
    <3>2. 1..0 = {}
      OBVIOUS
    <3> QED
      BY <3>1, <3>2, Empty DEF Apart
  <2> QED
    BY <2>3, <2>4, <2>5
<1>14. PICK f : f = FlattenSeq(t)
  OBVIOUS
<1>15. n = 0 \/ n = 1 \/ n = 2
  OBVIOUS
<1>16. Once(f)
  <2>1. CASE n = 0
    BY <1>12, <1>14, <2>1, OnceEmpty
  <2>2. CASE n = 1
    BY <1>11, <1>12, <1>14, <2>2
  <2>3. CASE n = 2
    <3>1. Once(t[1]) /\ Once(t[2])
      BY <1>11, <2>3
    <3>2. Once(t[1] \o t[2])
      BY <1>13, <2>3, <3>1, OnceJoin
    <3> QED
      BY <1>12, <1>14, <2>3, <3>2
  <2> QED
    BY <1>15, <2>1, <2>2, <2>3
<1>17. ASSUME mode \in GcmModes PROVE Apart(<< ZeroBlock >>, f)
  <2>1. \A i \in 1..n : Apart(<< ZeroBlock >>, t[i])
    BY <1>8, <1>17, GcmNotZero DEF InputsGood
  <2>2. CASE n = 0
    <3>1. 1..0 = {}
      OBVIOUS
    <3> QED
      BY <1>12, <1>14, <2>2, <3>1, Empty DEF Apart
  <2>3. CASE n = 1
    BY <1>12, <1>14, <2>1, <2>3
  <2>4. CASE n = 2
    <3>1. Apart(<< ZeroBlock >>, t[1]) /\ Apart(<< ZeroBlock >>, t[2])
      BY <2>1, <2>4
    <3>2. IsString(t[1]) /\ IsString(t[2])
      BY <1>11, <2>4
    <3>3. Apart(<< ZeroBlock >>, t[1] \o t[2])
      BY <3>1, <3>2, ApartJoined
    <3> QED
      BY <1>12, <1>14, <2>4, <3>3
  <2> QED
    BY <1>15, <2>2, <2>3, <2>4
<1>18. ASSUME NEW h, h = << >> \/ (h = << ZeroBlock >> /\ mode \in GcmModes)
       PROVE  IsInjective(h \o f)
  <2>1. CASE h = << >>
    <3>1. h \o f = f
      BY <1>16, <2>1, JoinEmpty DEF Once
    <3> QED
      BY <1>16, <3>1, OnceInjective
  <2>2. CASE h = << ZeroBlock >> /\ mode \in GcmModes
    <3>1. Once(<< ZeroBlock >>)
      BY OnceOne
    <3>2. Once(<< ZeroBlock >> \o f)
      BY <1>16, <1>17, <2>2, <3>1, OnceJoin
    <3> QED
      BY <2>2, <3>2, OnceInjective
  <2> QED
    BY <1>18, <2>1, <2>2
<1>19. PICK h : h = IF \E i \in DOMAIN sealed : sealed[i].env.mode \in {"gcm", "gcm_combined"}
                    THEN << ZeroBlock >> ELSE << >>
  OBVIOUS
<1>20. h = << >> \/ (h = << ZeroBlock >> /\ mode \in GcmModes)
  BY <1>2, <1>5, <1>19 DEF GcmModes
<1>21. [i \in DOMAIN sealed |-> CipherInputs(sealed[i])] = t
  BY <1>2, <1>6
<1>22. IsInjective(h \o f)
  BY <1>18, <1>20
<1> QED
  BY <1>14, <1>19, <1>21, <1>22

(* Under one key no block is enciphered twice: not the zero block of the   *)
(* hash key, the masks of the tags, the first block of a MAC nor the key   *)
(* stream of GCM and CCM, of two messages under two nonces, and not the    *)
(* counters of CTR in a message, whatever carries they make, while the     *)
(* message is no longer than the counter counts (gcm_ctr_inc, ctr_inc and  *)
(* ccm_a_block of modes.rs).                                               *)
THEOREM KeyStreamUsedOnce ==
  Spec => []KeyStreamOnce
<1>1. SessionInv /\ KeptInv /\ FewSealed => KeyStreamOnce
  BY SessionOnce
<1> QED
  BY <1>1, SessionHolds, KeptHolds, FewHold, PTL

\* Nor when the modes are used beside key derivation and TLS.
THEOREM KeyStreamUsedOnceTogether ==
  SymmetricSpec => []KeyStreamOnce
BY ModesAlone, KeyStreamUsedOnce, PTL

-----------------------------------------------------------------------------
(* What each mode that is not ECB makes of the blocks of a message.        *)

LEMMA BlocksOnce ==
  ASSUME NEW s, NEW n, Spreads(s, n)
  PROVE  IsInjective(WholeBlocks(SubSeq(s, 1, n)))
<1>0. IsString(s) /\ n \in Nat /\ n <= Len(s) /\ FirstsDiffer(s, n)
  BY DEF Spreads
<1>1. PICK x : x = SubSeq(s, 1, n)
  OBVIOUS
<1>2. IsString(x) /\ Len(x) = n /\ \A i \in 1..n : x[i] = s[i]
  <2>1. 1 \in Nat \ {0} /\ 1 <= n + 1 /\ n - 1 + 1 = n /\ \A i \in 1..n : 1 + i - 1 = i
    BY <1>0
  <2>2. /\ IsString(SubSeq(s, 1, n)) /\ Len(SubSeq(s, 1, n)) = n - 1 + 1
        /\ \A i \in 1..(n - 1 + 1) : SubSeq(s, 1, n)[i] = s[1 + i - 1]
    BY <1>0, <2>1, PartIs
  <2> QED
    BY <1>1, <2>1, <2>2
<1>3. PICK q \in Nat : q = n \div B
  BY <1>0, Quotient
<1>4. PICK w : w = WholeBlocks(x)
  OBVIOUS
<1>5. w = [i \in 1..q |-> w[i]] /\ \A i \in 1..q : \A j \in 1..B : w[i][j] = x[Off(i - 1) + j]
  <2>1. q = Len(x) \div B
    BY <1>2, <1>3
  <2>2. Cut(x, q, w, Tail16(x))
    BY <1>2, <1>4, <2>1, CutOf
  <2> QED
    BY <2>2 DEF Cut
<1>6. 1 \in 1..B /\ Off(q) <= n /\ Off(q) \in Nat
  BY <1>0, <1>3, Quotient, BlockLen
<1>7. \A i \in 1..q : w[i][1] = s[Off(i - 1) + 1]
  <2>1. ASSUME NEW i \in 1..q PROVE w[i][1] = s[Off(i - 1) + 1]
    <3>1. Off(i - 1) + 1 \in 1..Off(q)
      BY <1>6, InBlock
    <3>2. Off(i - 1) + 1 \in 1..n
      BY <1>0, <1>6, <3>1
    <3> QED
      BY <1>2, <1>5, <1>6, <3>2
  <2> QED
    BY <2>1
<1>8. \A i, j \in 1..q : w[i] = w[j] => i = j
  BY <1>0, <1>3, <1>7 DEF FirstsDiffer
<1>9. Once(w)
  BY <1>5, <1>8, OnceMade
<1> QED
  BY <1>1, <1>4, <1>9, OnceInjective

\* All counters from there on differ.
LEMMA ImageCounters ==
  ASSUME NEW k, NEW first, IsImage(first, k), NEW n \in Nat
  PROVE  LET y == Counters(CtrInc, first, n)
         IN  AreBlocks(y, n) /\ \A i, j \in 1..n : y[i] = y[j] => i = j
<1>1. PICK z : IsBlock(z) /\ first = E(k, z)
  BY DEF IsImage
<1>2. \A i \in 1..B : first[i] = {Made(k, z, i)}
  <2>1. Clean(z) /\ Len(z) = B /\ Len(z) >= 1
    BY <1>1, BlockLen DEF IsBlock
  <2> QED
    BY <1>1, <2>1, EncipheredIs
<1>3. IsBlock(first) /\ 1 \in 1..B
  BY <1>1, BlockEnciphered, BlockLen
<1>4. Unknown(first) /\ \A l \in 1..B : \A a \in first[l] : a[1] # "inc"
  <2>1. \A l : Made(k, z, l)[1] = "E"
    BY DEF Made
  <2>2. ~ IsNum(first[1])
    BY <1>2, <1>3, <2>1 DEF IsNum
  <2> QED
    BY <1>2, <1>3, <2>1, <2>2 DEF Unknown
<1> DEFINE y == Counters(CtrInc, first, n)
<1>6. /\ y = [i \in 1..n |-> y[i]]
      /\ \A i \in 1..n : y[i] = IF i = 1 THEN first ELSE CtrInc(y[i - 1])
  BY CtrSteps
<1>7. AreBlocks(y, n)
  BY <1>3, CtrBlocks DEF AreBlocks
<1> HIDE DEF y
<1>8. ASSUME NEW i \in 1..n, NEW j \in 1..n, y[i] = y[j] PROVE i = j
  <2>1. 1 \in 1..n /\ \A h \in 2..n : h \in 1..n /\ h # 1
    OBVIOUS
  <2>2. y[1] = first /\ \A h \in 2..n : y[h] = CtrInc(y[h - 1])
    BY <1>6, <2>1
  <2>3. Unknown(y[1]) /\ \A l \in 1..B : \A a \in y[1][l] : a[1] # "inc"
    BY <1>4, <2>2
  <2> QED
    BY <1>8, <2>2, <2>3, UnknownsDiffer
<1> QED
  BY <1>7, <1>8 DEF y

\* Counting from an image of the cipher, which is what SIV and EAX do.
LEMMA ImageDiffers ==
  ASSUME NEW k, NEW k1, NEW first, IsImage(first, k1), NEW data, Clean(data), Of(data, {"p"})
  PROVE  Spreads(CryptCtr(k, first, data), Len(data))
<1>1. IsBlock(first)
  BY BlockEnciphered DEF IsImage
<1>2. PICK n \in Nat : n = Parts(Len(data))
  BY CleanChunks
<1>3. PICK y : y = Counters(CtrInc, first, n)
  OBVIOUS
<1>4. \A i, j \in 1..n : y[i] = y[j] => i = j
  BY <1>3, ImageCounters
<1> QED
  BY <1>1, <1>2, <1>3, <1>4, CtrDiffers

LEMMA GcmSpreads ==
  ASSUME NEW k, NEW nonce, Clean(nonce), Len(nonce) = B - 1, NEW data, Clean(data), Of(data, {"p"}),
         Parts(Len(data)) <= Radix - 2
  PROVE  Spreads(KeyStreamed(k, GcmCounters(nonce, data), data), Len(data))
<1>1. PICK n \in Nat : n = Parts(Len(data))
  BY CleanChunks
<1>2. PICK y : y = GcmCounters(nonce, data)
  OBVIOUS
<1>3. \A i \in 1..n : y[i] = NonceAnd(nonce, i + 1)
  BY <1>1, <1>2, GcmCountersAre
<1>4. n <= Radix - 2 /\ Radix \in Nat /\ Radix <= 16
  BY <1>1, RadixIs
<1>5. \A i \in 1..n : i + 1 \in 0..255
  BY <1>4
<1>6. AreBlocks(y, n)
  BY <1>3, NonceAndIs DEF AreBlocks
<1>7. ASSUME NEW i \in 1..n, NEW j \in 1..n, y[i] = y[j] PROVE i = j
  <2>1. NonceAnd(nonce, i + 1) = NonceAnd(nonce, j + 1)
    BY <1>3, <1>7
  <2>2. NonceAnd(nonce, i + 1)[B] = Num(i + 1) /\ NonceAnd(nonce, j + 1)[B] = Num(j + 1)
    BY NonceAndIs
  <2>3. Num(i + 1) = Num(j + 1)
    BY <2>1, <2>2
  <2>4. i + 1 = j + 1
    BY <1>5, <2>3, NumSame
  <2> QED
    BY <2>4
<1> QED
  BY <1>1, <1>2, <1>6, <1>7, StreamSpreads

LEMMA CcmSpreads ==
  ASSUME NEW k, NEW nonce, IsCcmNonce(nonce), NEW data, Clean(data), Of(data, {"p"}),
         Parts(Len(data)) < LenRadix
  PROVE  Spreads(KeyStreamed(k, CcmCounters(nonce, data), data), Len(data))
<1>1. PICK n \in Nat : n = Parts(Len(data))
  BY CleanChunks
<1>2. PICK y : y = CcmCounters(nonce, data)
  OBVIOUS
<1>3. LenRadix \in Nat /\ n < LenRadix
  BY <1>1, LimitAssumption, BlockAssumption
<1>4. \A i \in 1..n : y[i] = CcmA(nonce, i)
  <2>1. Len(Chunks(data)) = n
    BY <1>1, CleanChunks
  <2> QED
    BY <1>2, <2>1 DEF CcmCounters
<1>5. AreBlocks(y, n)
  BY <1>4, CcmAIs DEF AreBlocks, IsCounter
<1>6. ASSUME NEW i \in 1..n PROVE CcmA(nonce, i) = Framed(2, nonce, i) /\ i \in 0..255
  <2>1. i \in 0..(LenRadix - 1)
    BY <1>3
  <2> QED
    BY <2>1, CcmCounterIs
<1>7. ASSUME NEW i \in 1..n, NEW j \in 1..n, y[i] = y[j] PROVE i = j
  <2>1. Framed(2, nonce, i) = Framed(2, nonce, j)
    BY <1>4, <1>6, <1>7
  <2>2. i \in 0..255 /\ j \in 0..255
    BY <1>6
  <2> QED
    BY <2>1, <2>2, CcmLast
<1> QED
  BY <1>1, <1>2, <1>5, <1>7, StreamSpreads

\* The first byte of a block of OCB shows its place in the message.
LEMMA OcbSpreads ==
  ASSUME NEW k, NEW c, NEW n, NEW p, NEW N, NEW o, NEW q, NEW v, NEW t, NEW w, NEW r,
         OcbText(k, c, n, p, N, o, q, v, t, w, r)
  PROVE  Spreads(c, Len(p))
<1>1. /\ NonceOffsets(o, k, n, N) /\ q \in Nat /\ N \in Nat /\ q \in 0..N
      /\ Cut(p, q, v, t) /\ Cut(c, q, w, r)
  BY DEF OcbText
<1>2. TextRest(k, t, r, o[q])
  BY TextRestIs
<1>3. PICK len \in Nat : len = Len(p)
  <2>1. IsString(p)
    BY <1>1 DEF Cut
  <2> QED
    BY <2>1, StringProperties
<1>4. IsString(c) /\ Len(c) = len /\ q = len \div B
  <2>1. Len(p) = Off(q) + Len(t) /\ Len(c) = Off(q) + Len(r) /\ q = Len(p) \div B /\ IsString(c)
    BY <1>1 DEF Cut
  <2>2. Len(r) = Len(t)
    BY <1>2 DEF TextRest
  <2> QED
    BY <1>3, <2>1, <2>2
<1>5. 1 \in 1..B
  BY BlockLen
<1>6. \A i \in 1..q : c[Off(i - 1) + 1] = w[i][1]
  BY <1>1, <1>5 DEF Cut
<1>7. \A i \in 1..q : i \in 0..N
  BY <1>1
<1>8. ASSUME NEW i \in 1..q
      PROVE  \E x : w[i][1] = SymDiff({Made(k, x, 1)}, o[i][1]) /\ Places(k, w[i]) = Places(k, o[i])
  <2>1. TextBlock(k, n, v[i], w[i], o[i])
    BY TextBlockIs
  <2>2. PICK x : x = Xor(v[i], o[i])
    OBVIOUS
  <2>3. w[i][1] = SymDiff({Made(k, x, 1)}, o[i][1])
    BY <1>5, <2>1, <2>2 DEF TextBlock
  <2>4. Made(k, x, 1)[1] = "E"
    BY DEF Made
  <2>5. \A m : Dbl(k, m + 2, 1, 1)[1] = "lin"
    BY DEF Dbl
  <2>6. \A m : Dbl(k, m + 2, 1, 1) \in w[i][1] <=> Dbl(k, m + 2, 1, 1) \in o[i][1]
    <3>1. PICK u : u = Made(k, x, 1)
      OBVIOUS
    <3>2. \A m : Dbl(k, m + 2, 1, 1) # u
      BY <2>4, <2>5, <3>1
    <3>3. w[i][1] = SymDiff({u}, o[i][1])
      BY <2>3, <3>1
    <3> QED
      BY <3>2, <3>3 DEF SymDiff
  <2> QED
    BY <2>3, <2>6 DEF Places
<1>9. ASSUME NEW i \in 1..q, NEW j \in 1..q, c[Off(i - 1) + 1] = c[Off(j - 1) + 1] PROVE i = j
  <2>1. w[i][1] = w[j][1]
    BY <1>6, <1>9
  <2>2. Places(k, w[i]) = Places(k, w[j])
    BY <2>1 DEF Places
  <2>3. Places(k, o[i]) = Places(k, o[j])
    BY <1>8, <2>2
  <2>4. OffsetsFrom(o, k, OcbOffset0(k, n), N)
    BY <1>1 DEF NonceOffsets
  <2> QED
    BY <1>1, <1>7, <2>3, <2>4, OffsetsApart
<1>10. FirstsDiffer(c, len)
  BY <1>4, <1>9 DEF FirstsDiffer
<1> QED
  BY <1>3, <1>4, <1>10 DEF Spreads

\* What each mode needs of its nonce, for the blocks to differ.
Apt(m) ==
  /\ Sound(m) /\ Of(m.pt, {"p"})
  /\ m.mode \in {"cbc", "ofb", "cfb"} => Alien("k", m.nonce[1])
  /\ m.mode \in GcmModes => Parts(Len(m.pt)) <= Radix - 2
  /\ m.mode = "ccm" => Parts(Len(m.pt)) < LenRadix
  /\ m.mode = "ctr" => CtrNonce(m.nonce) /\ Parts(Len(m.pt)) <= CounterRange
  /\ m.mode = "ocb" => Given(m.nonce) /\ OcbNonce(m.nonce) /\ Of(m.aad, {"p"})

\* CCM, whose tag follows the text.
LEMMA CcmSealSpreads ==
  ASSUME NEW nonce, IsCcmNonce(nonce), NEW aad, Clean(aad), NEW pt, Clean(pt), Of(pt, {"p"}),
         Parts(Len(pt)) < LenRadix, NEW tagLen, NEW s, s = EncryptCcm("k", nonce, aad, pt, tagLen),
         s.ok
  PROVE  Spreads(s.ct, Len(pt))
<1>1. PICK x : x = CcmCbcMac("k", nonce, aad, pt, tagLen)
  OBVIOUS
<1>2. tagLen \in 1..B /\ s = CcmSealed("k", nonce, pt, tagLen, x)
  BY <1>1 DEF EncryptCcm, Err
<1>3. x.ok
  BY <1>2 DEF CcmSealed
<1>4. PICK f : f = KeyStreamed("k", CcmCounters(nonce, pt), pt)
  OBVIOUS
<1>5. PICK t : t = CcmTag("k", nonce, x.val, tagLen)
  OBVIOUS
<1>6. s.ct = f \o t
  BY <1>2, <1>3, <1>4, <1>5 DEF CcmSealed, Sealed
<1>7. Spreads(f, Len(pt))
  BY <1>4, CcmSpreads
<1>8. IsString(t)
  <2>1. Clean(nonce) /\ Len(nonce) = B - 2
    BY DEF IsCcmNonce
  <2>2. CcmCbcMac("k", nonce, aad, pt, tagLen).ok
    BY <1>1, <1>3
  <2>3. IsBlock(CcmCbcMac("k", nonce, aad, pt, tagLen).val)
    BY <2>1, <2>2, CcmMacBlock
  <2>4. IsBlock(x.val)
    BY <1>1, <2>3
  <2>5. IsBlock(E("k", CcmA(nonce, 0)))
    BY CcmAIs, BlockEnciphered DEF IsCounter
  <2>6. PICK y : y = Xor(x.val, E("k", CcmA(nonce, 0)))
    OBVIOUS
  <2>7. IsBlock(y)
    BY <2>4, <2>5, <2>6, BlockSum
  <2>8. tagLen \in Nat /\ tagLen <= B /\ 1 <= tagLen + 1 /\ 1 \in Nat \ {0}
    BY <1>2, BlockLen
  <2>9. Clean(SubSeq(y, 1, tagLen))
    BY <2>7, <2>8, CleanPart DEF IsBlock
  <2> QED
    BY <1>5, <2>6, <2>9 DEF CcmTag, Clean
<1> QED
  BY <1>6, <1>7, <1>8, JoinedSpreads

\* A mode without a tag, that may refuse.
LEMMA PlainSpreads ==
  ASSUME NEW r, NEW s, s = Plain(r), s.ok, NEW n,
         r.ok => Spreads(r.val, n)
  PROVE  Spreads(s.ct, n)
<1>1. r.ok /\ s.ct = r.val
  BY PlainIs
<1> QED
  BY <1>1

\* All the modes.
LEMMA ModeSpreads ==
  ASSUME NEW m, Apt(m), NEW s, s = SealCall(m), s.ok,
         m.mode \in Aead \cup {"cbc", "ofb", "cfb", "ctr", "xts"}
  PROVE  Spreads(s.ct, Len(m.pt))
<1>1. PICK p : p = m.pt
  OBVIOUS
<1>2. PICK e : e = m.nonce
  OBVIOUS
<1>3. Clean(p) /\ Of(p, {"p"}) /\ Sound(m)
  BY <1>1 DEF Apt, Sound
<1>4. Len(p) \in Nat
  BY <1>3, CleanChunks
<1>5. CASE m.mode = "cbc"
  <2>1. s = Plain(EncryptCbc("k", e, p))
    BY <1>1, <1>2, <1>5 DEF SealCall
  <2>2. IsBlock(e) /\ Alien("k", e[1])
    BY <1>2, <1>3, <1>5 DEF Apt, Sound
  <2>3. PICK r : r = EncryptCbc("k", e, p)
    OBVIOUS
  <2>4. r.ok => Spreads(r.val, Len(p))
    BY <1>3, <2>2, <2>3, CbcDiffers
  <2> QED
    BY <1>1, <1>4, <2>1, <2>3, <2>4, PlainSpreads
<1>6. CASE m.mode = "ofb"
  <2>1. PICK f : f = CryptOfb("k", e, p)
    OBVIOUS
  <2>2. s.ct = f
    BY <1>1, <1>2, <1>6, <2>1 DEF SealCall, Sealed
  <2>3. IsBlock(e) /\ Alien("k", e[1])
    BY <1>2, <1>3, <1>6 DEF Apt, Sound
  <2>4. Spreads(f, Len(p))
    BY <1>3, <2>1, <2>3, OfbDiffers
  <2> QED
    BY <1>1, <2>2, <2>4
<1>7. CASE m.mode = "cfb"
  <2>1. PICK f : f = EncryptCfb("k", e, p)
    OBVIOUS
  <2>2. s.ct = f
    BY <1>1, <1>2, <1>7, <2>1 DEF SealCall, Sealed
  <2>3. IsBlock(e) /\ Alien("k", e[1])
    BY <1>2, <1>3, <1>7 DEF Apt, Sound
  <2>4. Spreads(f, Len(p))
    BY <1>3, <2>1, <2>3, CfbDiffers
  <2> QED
    BY <1>1, <2>2, <2>4
<1>8. CASE m.mode = "ctr"
  <2>1. s.ct = CryptCtr("k", e, p)
    BY <1>1, <1>2, <1>8 DEF SealCall, Sealed
  <2>2. IsBlock(e) /\ CtrNonce(e) /\ Parts(Len(p)) <= CounterRange
    BY <1>1, <1>2, <1>3, <1>8 DEF Apt, Sound
  <2>3. PICK n \in Nat : n = Parts(Len(p))
    BY <1>3, CleanChunks
  <2>4. PICK y : y = Counters(CtrInc, e, n)
    OBVIOUS
  <2>5. \A i, j \in 1..n : y[i] = y[j] => i = j
    BY <2>2, <2>3, <2>4, CtrCountersDiffer
  <2>6. Spreads(CryptCtr("k", e, p), Len(p))
    BY <1>3, <2>2, <2>3, <2>4, <2>5, CtrDiffers
  <2> QED
    BY <1>1, <2>1, <2>6
<1>9. CASE m.mode = "xts"
  <2>1. s = Plain(EncryptXts("k", "k2", e, p))
    BY <1>1, <1>2, <1>9 DEF SealCall
  <2>2. IsBlock(e)
    BY <1>2, <1>3, <1>9 DEF Sound
  <2>3. PICK r : r = EncryptXts("k", "k2", e, p)
    OBVIOUS
  <2>4. r.ok => Spreads(r.val, Len(p))
    BY <1>3, <2>2, <2>3, XtsDiffers
  <2> QED
    BY <1>1, <1>4, <2>1, <2>3, <2>4, PlainSpreads
<1>10. CASE m.mode = "gcm"
  <2>1. PICK a : a = m.aad
    OBVIOUS
  <2>2. s = EncryptGcm("k", e, a, p)
    BY <1>1, <1>2, <1>10, <2>1 DEF SealCall
  <2>3. Clean(e) /\ Len(e) = B - 1 /\ Parts(Len(p)) <= Radix - 2
    BY <1>1, <1>2, <1>3, <1>10 DEF Apt, Sound, GcmModes
  <2>4. s.ct = KeyStreamed("k", GcmCounters(e, p), p)
    BY <1>3, <2>2, <2>3, GcmSealIs
  <2> QED
    BY <1>1, <1>3, <2>3, <2>4, GcmSpreads
<1>11. CASE m.mode = "gcm_combined"
  <2>1. PICK a : a = m.aad
    OBVIOUS
  <2>2. PICK r : r = EncryptGcm("k", e, a, p)
    OBVIOUS
  <2>3. s.ct = Combined(r)
    BY <1>1, <1>2, <1>11, <2>1, <2>2 DEF SealCall, EncryptGcmCombined, Sealed
  <2>4. Clean(e) /\ Len(e) = B - 1 /\ Parts(Len(p)) <= Radix - 2
    BY <1>1, <1>2, <1>3, <1>11 DEF Apt, Sound, GcmModes
  <2>5. PICK f : f = KeyStreamed("k", GcmCounters(e, p), p)
    OBVIOUS
  <2>6. PICK t : t = GcmTag("k", e, a, f)
    OBVIOUS
  <2>7. Combined(r) = f \o t
    BY <1>3, <2>2, <2>4, <2>5, <2>6, GcmSealIs
  <2>8. IsString(t)
    BY <2>4, <2>6, GcmTagString
  <2>9. Spreads(f, Len(p))
    BY <1>3, <2>4, <2>5, GcmSpreads
  <2> QED
    BY <1>1, <2>3, <2>7, <2>8, <2>9, JoinedSpreads
<1>12. CASE m.mode = "ccm"
  <2>1. PICK a : a = m.aad
    OBVIOUS
  <2>2. s = EncryptCcm("k", e, a, p, m.par)
    BY <1>1, <1>2, <1>12, <2>1 DEF SealCall
  <2>3. IsCcmNonce(e) /\ Clean(a) /\ Parts(Len(p)) < LenRadix
    BY <1>1, <1>2, <1>3, <1>12, <2>1 DEF Apt, Sound, IsCcmNonce
  <2> QED
    BY <1>1, <1>3, <2>2, <2>3, CcmSealSpreads
<1>13. CASE m.mode = "ocb"
  <2>1. PICK a : a = m.aad
    OBVIOUS
  <2>2. s = EncryptOcb("k", e, a, p)
    BY <1>1, <1>2, <1>13, <2>1 DEF SealCall
  <2>3. Given(e) /\ OcbNonce(e) /\ Of(a, {"p"})
    BY <1>2, <1>13, <2>1 DEF Apt
  <2>4. IsOcbNonce(e)
    <3>1. Len(e) \in 1..(B - 1)
      BY <2>2 DEF EncryptOcb, Err
    <3>2. Len(e) < B
      BY <3>1, BlockLen
    <3> QED
      BY <2>3, <3>2 DEF IsOcbNonce
  <2>5. PICK o, q, v, t, w, r : OwnTag("k", s.ct, e, p, q + 1, o, q, v, t, w, r, a)
    BY <1>3, <2>2, <2>3, <2>4, OcbSeals
  <2>6. OcbText("k", s.ct, e, p, q + 1, o, q, v, t, w, r)
    BY <2>5 DEF OwnTag
  <2> QED
    BY <1>1, <2>6, OcbSpreads
<1>14. CASE m.mode = "siv"
  <2>1. PICK a : a = m.aad
    OBVIOUS
  <2>2. PICK first : first = ComputeS2v("k", e, a, p)
    OBVIOUS
  <2>3. s.ct = CryptCtr("k2", first, p)
    BY <1>1, <1>2, <1>14, <2>1, <2>2 DEF SealCall, EncryptSiv, SivSealed, Sealed
  <2>4. Len(a \o e) \in Nat /\ \A i \in 1..Len(a \o e) : Clean((a \o e)[i])
    BY <1>2, <1>3, <1>14, <2>1 DEF Sound
  <2>5. IsImage(first, "k")
    BY <1>3, <2>2, <2>4, SivImage
  <2>6. Spreads(CryptCtr("k2", first, p), Len(p))
    BY <1>3, <2>5, ImageDiffers
  <2> QED
    BY <1>1, <2>3, <2>6
<1>15. CASE m.mode = "eax"
  <2>1. PICK first : first = Omac("k", EaxTweak("k", 1), e)
    OBVIOUS
  <2>2. s.ct = CryptCtr("k", first, p)
    BY <1>1, <1>2, <1>15, <2>1 DEF SealCall, EncryptEax, EaxSealed, Sealed
  <2>3. Clean(e)
    BY <1>2, <1>3, <1>15 DEF Sound
  <2>4. IsImage(first, "k")
    BY <2>1, <2>3, OmacImage
  <2>5. Spreads(CryptCtr("k", first, p), Len(p))
    BY <1>3, <2>4, ImageDiffers
  <2> QED
    BY <1>1, <2>2, <2>5
<1> QED
  BY <1>5, <1>6, <1>7, <1>8, <1>9, <1>10, <1>11, <1>12, <1>13, <1>14, <1>15 DEF Aead

\* The messages of a session are such.
LEMMA MessageApt ==
  ASSUME NEW c \in Calls \cup Follow, NEW id,
         c.mode \in Aead \cup {"cbc", "ofb", "cfb", "ctr", "xts"},
         NEW m, m = Message(c, id),
         m.mode \in GcmModes => Parts(Len(m.pt)) <= Radix - 2,
         m.mode = "ccm" => Parts(Len(m.pt)) < LenRadix,
         m.mode = "ctr" => Parts(Len(m.pt)) <= CounterRange
  PROVE  Apt(m)
<1>1. m.mode = c.mode /\ m.nonce = c.nonce
  BY DEF Message
<1>2. m.pt = Text(c.text, id, c.pt) /\ m.aad = AadText(c.mode, c.text, id, c.aad)
  BY DEF Message
<1>3. c.text \in {"zero", "fresh", "same"} /\ c.pt \in Nat
  BY CallAssumption, OfferAssumption
<1>4. Sound(m)
  BY MessageSound DEF Aead
<1>5. Of(m.pt, {"p"})
  BY <1>2, <1>3, TextOf
<1>6. ASSUME m.mode \in {"cbc", "ofb", "cfb"} PROVE Alien("k", m.nonce[1])
  <2>1. PICK n : n = c.nonce
    OBVIOUS
  <2>2. \A x \in Range(n) : \A a \in x : ~ (a[1] = "E" /\ a[2] = "k")
    BY <1>1, <1>6, <2>1, IvAssumption
  <2>3. IsString(n) /\ 1 \in 1..Len(n)
    BY <1>1, <1>4, <1>6, <2>1, BlockLen DEF Sound, IsBlock, Clean
  <2>4. n[1] \in Range(n)
    BY <2>3, StringProperties
  <2> QED
    BY <1>1, <2>1, <2>2, <2>4 DEF Alien
<1>7. m.mode = "ctr" => CtrNonce(m.nonce)
  BY <1>1, LimitAssumption
<1>8. ASSUME m.mode = "ocb" PROVE Given(m.nonce) /\ OcbNonce(m.nonce) /\ Of(m.aad, {"p"})
  <2>1. Given(c.nonce)
    BY <1>1, <1>8, CallAssumption
  <2>2. OcbNonce(c.nonce) /\ c.aad \in Nat
    BY <1>1, <1>8, LimitAssumption
  <2>3. m.aad = Text(c.text, 32 + id, c.aad)
    BY <1>1, <1>2, <1>8 DEF AadText
  <2> QED
    BY <1>1, <1>3, <2>1, <2>2, <2>3, TextOf
<1> QED
  BY <1>4, <1>5, <1>6, <1>7, <1>8 DEF Apt

\* So the ciphertexts of a session repeat no block.
LEMMA SessionDiffers ==
  ASSUME SessionInv, KeptInv
  PROVE  BlocksDiffer
<1> SUFFICES ASSUME NEW i \in DOMAIN sealed,
                    sealed[i].env.mode \in Aead \cup {"cbc", "ofb", "cfb", "ctr", "xts"},
                    WithinLimit(sealed[i])
             PROVE  IsInjective(WholeBlocks(SubSeq(sealed[i].env.ct, 1, Len(sealed[i].pt))))
  BY DEF BlocksDiffer
<1>1. PICK r : r = sealed[i]
  OBVIOUS
<1>2. i \in 1..Len(sealed)
  BY DEF SessionInv, SealedIs
<1>3. \E mode, par : SealedBy(r, mode, par)
  BY <1>1, <1>2 DEF KeptInv, AllSealed
<1>4. PICK c \in Calls \cup Follow :
        \E id \in Nat : SealedAs(r.env, c, id) /\ r.pt = Message(c, id).pt
  BY <1>3 DEF SealedBy
<1>5. PICK id \in Nat : SealedAs(r.env, c, id) /\ r.pt = Message(c, id).pt
  BY <1>4
<1>6. PICK m : m = Message(c, id)
  OBVIOUS
<1>7. PICK s : s = SealCall(m)
  OBVIOUS
<1>8. s.ok /\ r.env = Envelope(m, s.ct, s.tag)
  BY <1>5, <1>6, <1>7 DEF SealedAs
<1>9. r.env.ct = s.ct /\ r.env.mode = m.mode
  BY <1>8 DEF Envelope
<1>10. m.mode = c.mode /\ m.pt = r.pt
  BY <1>5, <1>6 DEF Message
<1>11. c.mode \in Aead \cup {"cbc", "ofb", "cfb", "ctr", "xts"}
  BY <1>1, <1>9, <1>10
<1>12. Len(Chunks(m.pt)) = Parts(Len(m.pt))
  <2>1. c.text \in {"zero", "fresh", "same"} /\ c.pt \in Nat
    BY CallAssumption, OfferAssumption
  <2>2. Clean(m.pt)
    BY <1>6, <2>1, CleanText DEF Message
  <2> QED
    BY <2>2, CleanChunks
<1>13. /\ m.mode \in GcmModes => Parts(Len(m.pt)) <= Radix - 2
       /\ m.mode = "ccm" => Parts(Len(m.pt)) < LenRadix
       /\ m.mode = "ctr" => Parts(Len(m.pt)) <= CounterRange
  BY <1>1, <1>9, <1>10, <1>12 DEF WithinLimit, GcmModes
<1>14. Apt(m)
  BY <1>6, <1>11, <1>13, MessageApt
<1>15. Spreads(s.ct, Len(m.pt))
  BY <1>7, <1>8, <1>10, <1>11, <1>14, ModeSpreads
<1>16. IsInjective(WholeBlocks(SubSeq(s.ct, 1, Len(m.pt))))
  BY <1>15, BlocksOnce
<1> QED
  BY <1>1, <1>9, <1>10, <1>16

(* Whatever blocks a message repeats, its ciphertext repeats none: not in  *)
(* the chained modes, where each block is masked with the one before, not  *)
(* where the counters, tweaks or offsets of a message are apart, and not   *)
(* beyond the whole blocks of the text in a sealed string that ends in a   *)
(* tag (the modes of modes.rs but ECB).                                    *)
THEOREM BlocksNeverRepeat ==
  Spec => []BlocksDiffer
<1>1. SessionInv /\ KeptInv => BlocksDiffer
  BY SessionDiffers
<1> QED
  BY <1>1, SessionHolds, KeptHolds, PTL

\* Nor when the modes are used beside key derivation and TLS.
THEOREM BlocksNeverRepeatTogether ==
  SymmetricSpec => []BlocksDiffer
BY ModesAlone, BlocksNeverRepeat, PTL

=============================================================================
