-------------------------- MODULE Sm3StreamProofs --------------------------
(***************************************************************************)
(* Proofs about streaming SM3 for every block size, length field, counter  *)
(* width, set of bytes, set of contexts and set of message pieces.         *)
(***************************************************************************)
EXTENDS Sm3Stream, SequenceTheorems, TLAPS

-----------------------------------------------------------------------------
(* Arithmetic of quotients and remainders.                                 *)

(* A number is its quotient and its remainder.                             *)
LEMMA DivMod ==
  ASSUME NEW x \in Nat, NEW m \in Nat \ {0}
  PROVE  /\ x = m * (x \div m) + (x % m)
         /\ x % m \in 0..(m - 1)
         /\ x \div m \in Nat
  BY SMT

(* Quotient and remainder are determined by the decomposition.             *)
LEMMA DivModUnique ==
  ASSUME NEW m \in Nat \ {0}, NEW q \in Nat, NEW r \in 0..(m - 1)
  PROVE  (m * q + r) % m = r /\ (m * q + r) \div m = q
  BY SMT

LEMMA MultipleMod ==
  ASSUME NEW m \in Nat \ {0}, NEW q \in Nat
  PROVE  (m * q) % m = 0
  BY SMT

(* A sum may be reduced early: the running counter is the reduced total.   *)
LEMMA ModAdd ==
  ASSUME NEW x \in Nat, NEW y \in Nat, NEW m \in Nat \ {0}
  PROVE  ((x % m) + y) % m = (x + y) % m
<1> DEFINE q == x \div m
           z == (x % m) + y
           s == z \div m
<1>1. x = m * q + (x % m) /\ x % m \in 0..(m - 1) /\ q \in Nat
  BY DivMod
<1>2. z \in Nat
  BY <1>1
<1>3. z = m * s + (z % m) /\ z % m \in 0..(m - 1) /\ s \in Nat
  BY <1>2, DivMod
<1> HIDE DEF q, s
<1>4. x + y = m * (q + s) + (z % m)
  <2>1. x + y = m * q + z
    BY <1>1
  <2>2. m * q + m * s = m * (q + s)
    BY <1>1, <1>3
  <2> HIDE DEF z
  <2> QED
    BY <2>1, <2>2, <1>1, <1>2, <1>3
<1>5. q + s \in Nat
  BY <1>1, <1>3
<1>6. (x + y) % m = z % m
  <2> HIDE DEF z
  <2>1. (m * (q + s) + (z % m)) % m = z % m
    BY <1>3, <1>5, DivModUnique
  <2> QED
    BY <2>1, <1>4
<1> QED
  BY <1>6

(* Multiples of the block length are closed under addition.                *)
LEMMA ModZeroAdd ==
  ASSUME NEW x \in Nat, NEW y \in Nat, NEW m \in Nat \ {0}, x % m = 0, y % m = 0
  PROVE  (x + y) % m = 0
<1>1. ((x % m) + y) % m = (x + y) % m
  BY ModAdd
<1>2. (x % m) + y = y
  OBVIOUS
<1> QED
  BY <1>1, <1>2

-----------------------------------------------------------------------------
(* The hasher between two calls.                                           *)
Sound(h) ==
  /\ h \in Hasher
  /\ h.buf_len < BLOCK
  /\ Len(h.state) % BLOCK = 0
  /\ h.bit_len = (8 * Len(h.state)) % LenMod

LEMMA NewSound == Sound(New) /\ Absorbed(New) = << >>
<1> USE Sm3BlockAssumption, LenModAssumption, ByteAssumption
<1>1. New \in Hasher
  BY DEF New, Hasher, ZeroCells, IV, PadMarker
<1>2. Len(New.state) = 0 /\ New.buf_len = 0 /\ New.bit_len = 0
  BY DEF New, IV
<1>3. 0 % BLOCK = 0 /\ 0 % LenMod = 0
  OBVIOUS
<1>4. Sound(New)
  BY <1>1, <1>2, <1>3 DEF Sound
<1>5. Absorbed(New) = << >>
  BY DEF Absorbed, New, IV, ZeroCells
<1> QED
  BY <1>4, <1>5

(* The counter after some more cells is the counter of the longer state.   *)
LEMMA CountBitsAdds ==
  ASSUME NEW n \in Nat, NEW cells \in Nat
  PROVE  /\ CountBits((8 * n) % LenMod, cells) = (8 * (n + cells)) % LenMod
         /\ (8 * n) % LenMod \in 0..(LenMod - 1)
<1> USE LenModAssumption
<1>1. (((8 * n) % LenMod) + 8 * cells) % LenMod = (8 * n + 8 * cells) % LenMod
  <2> DEFINE a == 8 * n
             b == 8 * cells
  <2>1. a \in Nat /\ b \in Nat
    OBVIOUS
  <2> HIDE DEF a, b
  <2>2. ((a % LenMod) + b) % LenMod = (a + b) % LenMod
    BY <2>1, ModAdd
  <2> QED
    BY <2>2 DEF a, b
<1>2. 8 * n + 8 * cells = 8 * (n + cells)
  OBVIOUS
<1>3. (8 * n) % LenMod \in 0..(LenMod - 1)
  BY DivMod
<1> QED
  BY <1>1, <1>2, <1>3 DEF CountBits

(* The whole blocks of an input, and what is left after them.              *)
LEMMA WholeBlocks ==
  ASSUME NEW data \in Seq(Byte)
  PROVE  /\ WholeCells(data) \in 0..Len(data)
         /\ WholeCells(data) % BLOCK = 0
         /\ Len(data) - WholeCells(data) \in 0..(BLOCK - 1)
<1> USE Sm3BlockAssumption
<1> DEFINE q == Len(data) \div BLOCK
           r == Len(data) % BLOCK
<1>0. Len(data) \in Nat
  BY LenProperties
<1>1. Len(data) = BLOCK * q + r /\ r \in 0..(BLOCK - 1) /\ q \in Nat
  BY <1>0, DivMod
<1>2. WholeCells(data) = BLOCK * q
  BY DEF WholeCells
<1> HIDE DEF q, r
<1>3. BLOCK * q \in Nat
  BY <1>1
<1>4. (BLOCK * q) % BLOCK = 0
  BY <1>1, MultipleMod
<1> QED
  BY <1>1, <1>2, <1>3, <1>4

LEMMA CopyIntoSpec ==
  ASSUME NEW buffer \in [1..BLOCK -> Byte], NEW at \in 0..BLOCK,
         NEW data \in Seq(Byte), at + Len(data) <= BLOCK
  PROVE  /\ CopyInto(buffer, at, data) \in [1..BLOCK -> Byte]
         /\ SubSeq(CopyInto(buffer, at, data), 1, at + Len(data))
              = SubSeq(buffer, 1, at) \o data
<1> USE Sm3BlockAssumption
<1> DEFINE c == CopyInto(buffer, at, data)
           n == at + Len(data)
<1>1. ASSUME NEW i \in 1..BLOCK
      PROVE  /\ c[i] = IF i \in (at + 1)..n THEN data[i - at] ELSE buffer[i]
             /\ c[i] \in Byte
  BY DEF CopyInto
<1>2. c \in [1..BLOCK -> Byte]
  BY <1>1 DEF CopyInto
<1> DEFINE kept == SubSeq(buffer, 1, at)
           out  == SubSeq(c, 1, n)
<1>3. n \in at..BLOCK /\ Len(data) \in Nat
  BY LenProperties
<1>4. \A i \in 1..at : buffer[i] \in Byte
  OBVIOUS
<1>5. kept \in Seq(Byte) /\ Len(kept) = at /\ \A i \in 1..at : kept[i] = buffer[i]
  BY <1>4, SubSeqProperties
<1>6. out \in Seq(Byte) /\ Len(out) = n /\ \A i \in 1..n : out[i] = c[i]
  <2>1. \A i \in 1..n : c[i] \in Byte
    BY <1>1, <1>3
  <2> HIDE DEF c, n
  <2> QED
    BY <2>1, <1>3, SubSeqProperties
<1>7. kept \o data \in Seq(Byte) /\ Len(kept \o data) = n
  BY <1>5, <1>3, ConcatProperties
<1>8. ASSUME NEW i \in 1..n PROVE out[i] = (kept \o data)[i]
  <2>1. out[i] = IF i \in (at + 1)..n THEN data[i - at] ELSE buffer[i]
    BY <1>1, <1>3, <1>6
  <2>2. (kept \o data)[i] = IF i <= at THEN kept[i] ELSE data[i - at]
    BY <1>5, <1>3, ConcatProperties
  <2> HIDE DEF out, kept
  <2> QED
    BY <2>1, <2>2, <1>3, <1>5
<1> HIDE DEF out, kept
<1>9. out = kept \o data
  BY <1>6, <1>7, <1>8, SeqEqual, SMTT(30)
<1> QED
  BY <1>2, <1>9 DEF out, kept

(* Cutting a sequence in two and joining the parts again.                  *)
LEMMA CutAndJoin ==
  ASSUME NEW data \in Seq(Byte), NEW n \in 0..Len(data)
  PROVE  /\ SubSeq(data, 1, n) \in Seq(Byte)
         /\ SubSeq(data, n + 1, Len(data)) \in Seq(Byte)
         /\ Len(SubSeq(data, 1, n)) = n
         /\ Len(SubSeq(data, n + 1, Len(data))) = Len(data) - n
         /\ SubSeq(data, 1, n) \o SubSeq(data, n + 1, Len(data)) = data
<1> DEFINE len == Len(data)
<1>1. len \in Nat /\ \A i \in 1..len : data[i] \in Byte
  BY LenProperties, ElementOfSeq
<1>2. \A i \in 1..n : data[i] \in Byte
  BY <1>1
<1>3. \A i \in (n + 1)..len : data[i] \in Byte
  BY <1>1
<1>4. SubSeq(data, 1, n) \in Seq(Byte) /\ Len(SubSeq(data, 1, n)) = n
  BY <1>1, <1>2, SubSeqProperties
<1>5. /\ SubSeq(data, n + 1, len) \in Seq(Byte)
      /\ Len(SubSeq(data, n + 1, len)) = len - n
  BY <1>1, <1>3, SubSeqProperties
<1>6. SubSeq(data, 1, n) \o SubSeq(data, n + 1, len) = SubSeq(data, 1, len)
  <2>1. 1 \in 1..(len + 1) /\ n \in (1 - 1)..len /\ len \in n..len
    BY <1>1
  <2> QED
    BY <2>1, ConcatAdjacentSubSeq
<1>7. SubSeq(data, 1, len) = data
  BY SubSeqFull
<1> QED
  BY <1>4, <1>5, <1>6, <1>7

(* What a sound hasher has absorbed is a message.                          *)
LEMMA AbsorbedType ==
  ASSUME NEW h, Sound(h)
  PROVE  /\ h.state \in Seq(Byte)
         /\ SubSeq(h.buffer, 1, h.buf_len) \in Seq(Byte)
         /\ Len(SubSeq(h.buffer, 1, h.buf_len)) = h.buf_len
         /\ Absorbed(h) \in Seq(Byte)
         /\ Len(Absorbed(h)) = Len(h.state) + h.buf_len
<1>1. h \in Hasher /\ h.buf_len < BLOCK
  BY DEF Sound
<1>2. /\ h.state \in Seq(Byte)
      /\ h.buffer \in [1..BLOCK -> Byte]
      /\ h.buf_len \in 0..BLOCK
  BY <1>1 DEF Hasher
<1>3. \A i \in 1..h.buf_len : h.buffer[i] \in Byte
  BY <1>2, Sm3BlockAssumption
<1>4. /\ SubSeq(h.buffer, 1, h.buf_len) \in Seq(Byte)
      /\ Len(SubSeq(h.buffer, 1, h.buf_len)) = h.buf_len
  BY <1>2, <1>3, Sm3BlockAssumption, SubSeqProperties
<1> QED
  BY <1>2, <1>4, ConcatProperties DEF Absorbed

-----------------------------------------------------------------------------
(* update(), part by part.                                                 *)

(* Topping up a started block loses nothing, and leaves either an empty    *)
(* buffer or an exhausted input.                                           *)
LEMMA TopUpSpec ==
  ASSUME NEW h, Sound(h), NEW data \in Seq(Byte)
  PROVE  /\ Take(h, data) \in 0..Len(data)
         /\ Sound(TopUp(h, data))
         /\ Absorbed(TopUp(h, data)) = Absorbed(h) \o SubSeq(data, 1, Take(h, data))
         /\ TopUp(h, data).buf_len = 0 \/ Take(h, data) = Len(data)
<1> DEFINE take   == Take(h, data)
           part   == SubSeq(data, 1, take)
           filled == CopyInto(h.buffer, h.buf_len, part)
           t      == TopUp(h, data)
           len    == h.buf_len + take
           n      == Len(h.state)
<1>1. /\ h \in Hasher
      /\ h.state \in Seq(Byte)
      /\ h.buffer \in [1..BLOCK -> Byte]
      /\ h.buf_len \in 0..(BLOCK - 1)
  BY Sm3BlockAssumption DEF Sound, Hasher
<1>2. /\ n \in Nat
      /\ n % BLOCK = 0
      /\ h.bit_len = (8 * n) % LenMod
  BY <1>1, LenProperties DEF Sound
<1>3. Len(data) \in Nat
  BY LenProperties
<1>4. /\ take \in 0..Len(data)
      /\ len \in 0..BLOCK
      /\ len # BLOCK => len = 0 \/ take = Len(data)
  BY <1>1, <1>3, Sm3BlockAssumption DEF Take
<1>5. part \in Seq(Byte) /\ Len(part) = take
  <2> HIDE DEF take
  <2> QED
    BY <1>4, CutAndJoin
<1>6. /\ filled \in [1..BLOCK -> Byte]
      /\ SubSeq(filled, 1, len) = SubSeq(h.buffer, 1, h.buf_len) \o part
  <2> HIDE DEF take, part
  <2>1. h.buf_len \in 0..BLOCK /\ h.buf_len + Len(part) <= BLOCK
    BY <1>1, <1>4, <1>5, Sm3BlockAssumption
  <2>2. /\ filled \in [1..BLOCK -> Byte]
        /\ SubSeq(filled, 1, h.buf_len + Len(part)) = SubSeq(h.buffer, 1, h.buf_len) \o part
    BY <1>1, <1>5, <2>1, CopyIntoSpec
  <2> QED
    BY <1>5, <2>2
<1>7. SubSeq(h.buffer, 1, h.buf_len) \in Seq(Byte)
  BY AbsorbedType
<1> HIDE DEF take, part, filled, len, n
<1>8. h.state \o SubSeq(filled, 1, len) = Absorbed(h) \o part
  <2> DEFINE state    == h.state
             buffered == SubSeq(h.buffer, 1, h.buf_len)
  <2>1. (state \o buffered) \o part = state \o (buffered \o part)
    <3>1. state \in Seq(Byte) /\ buffered \in Seq(Byte)
      BY <1>1, <1>7
    <3> HIDE DEF state, buffered
    <3> QED
      BY <1>5, <3>1, ConcatAssociative, SMTT(30)
  <2> QED
    BY <1>6, <2>1 DEF Absorbed
<1>9. CASE len = BLOCK
  <2>1. t = [state   |-> h.state \o filled, buffer |-> filled, buf_len |-> 0,
             bit_len |-> CountBits(h.bit_len, BLOCK)]
    BY <1>9 DEF TopUp, Compress, len, filled, part, take
  <2> HIDE DEF t
  <2>2. filled \in Seq(Byte) /\ Len(filled) = BLOCK
    BY <1>6, Sm3BlockAssumption
  <2>3. SubSeq(filled, 1, BLOCK) = filled
    BY <2>2, SubSeqFull
  <2>4. h.state \o filled \in Seq(Byte) /\ Len(h.state \o filled) = n + BLOCK
    BY <1>1, <2>2, ConcatProperties DEF n
  <2>5. /\ CountBits((8 * n) % LenMod, BLOCK) = (8 * (n + BLOCK)) % LenMod
        /\ (8 * (n + BLOCK)) % LenMod \in 0..(LenMod - 1)
    <3>1. BLOCK \in Nat /\ n + BLOCK \in Nat
      BY <1>2, Sm3BlockAssumption
    <3> QED
      BY <1>2, <3>1, CountBitsAdds
  <2>6. (n + BLOCK) % BLOCK = 0
    <3>1. BLOCK % BLOCK = 0 /\ BLOCK \in Nat \ {0}
      BY Sm3BlockAssumption
    <3> QED
      BY <1>2, <3>1, ModZeroAdd
  <2>7. /\ t.state = h.state \o filled /\ t.buffer = filled /\ t.buf_len = 0
        /\ t.bit_len = CountBits(h.bit_len, BLOCK)
    BY <2>1
  <2>8. t.bit_len = (8 * (n + BLOCK)) % LenMod /\ t.bit_len \in 0..(LenMod - 1)
    BY <1>2, <2>5, <2>7
  <2>9. t \in Hasher
    <3>1. 0 \in 0..BLOCK
      BY Sm3BlockAssumption
    <3> HIDE DEF CountBits
    <3> QED
      BY <1>6, <2>1, <2>4, <2>7, <2>8, <3>1 DEF Hasher
  <2>10. Sound(t)
    <3>1. t.buf_len < BLOCK
      BY <2>7, Sm3BlockAssumption
    <3>2. Len(t.state) = n + BLOCK
      BY <2>4, <2>7
    <3> QED
      BY <2>6, <2>8, <2>9, <3>1, <3>2 DEF Sound
  <2>11. Absorbed(t) = h.state \o filled
    <3>1. SubSeq(filled, 1, 0) = << >>
      BY SubSeqEmpty
    <3> QED
      BY <2>7, <2>4, <3>1, ConcatEmptySeq DEF Absorbed
  <2>12. Absorbed(t) = Absorbed(h) \o part
    BY <1>8, <1>9, <2>3, <2>11
  <2> QED
    BY <1>4, <2>7, <2>10, <2>12 DEF t, part, take
<1>10. CASE len # BLOCK
  <2>1. t = [h EXCEPT !.buffer = filled, !.buf_len = len]
    BY <1>10 DEF TopUp, len, filled, part, take
  <2> HIDE DEF t
  <2>2. len \in 0..(BLOCK - 1) /\ (len = 0 \/ take = Len(data))
    BY <1>4, <1>10, Sm3BlockAssumption
  <2>3. /\ t.state = h.state /\ t.buffer = filled /\ t.buf_len = len
        /\ t.bit_len = h.bit_len
    BY <1>1, <2>1 DEF Hasher
  <2>4. t \in Hasher
    BY <1>1, <1>4, <1>6, <2>1 DEF Hasher
  <2>5. Sound(t)
    <3>1. t.buf_len < BLOCK
      BY <2>2, <2>3, Sm3BlockAssumption
    <3> QED
      BY <1>2, <2>3, <2>4, <3>1 DEF Sound, n
  <2>6. Absorbed(t) = Absorbed(h) \o part
    BY <1>8, <2>3 DEF Absorbed
  <2> QED
    BY <1>4, <2>2, <2>3, <2>5, <2>6 DEF t, part, take
<1> QED
  BY <1>9, <1>10

(* The whole blocks of the input go behind the compressed ones.            *)
LEMMA AbsorbBlocksSpec ==
  ASSUME NEW h, Sound(h), NEW data \in Seq(Byte), h.buf_len = 0 \/ data = << >>
  PROVE  /\ Sound(AbsorbBlocks(h, data))
         /\ AbsorbBlocks(h, data).buf_len = h.buf_len
         /\ Absorbed(AbsorbBlocks(h, data)) = Absorbed(h) \o SubSeq(data, 1, WholeCells(data))
<1> DEFINE w     == WholeCells(data)
           part  == SubSeq(data, 1, w)
           a     == AbsorbBlocks(h, data)
           n     == Len(h.state)
<1>1. /\ h \in Hasher
      /\ h.state \in Seq(Byte)
      /\ h.buf_len < BLOCK
  BY DEF Sound, Hasher
<1>2. /\ n \in Nat
      /\ n % BLOCK = 0
      /\ h.bit_len = (8 * n) % LenMod
  BY <1>1, LenProperties DEF Sound
<1>3. w \in 0..Len(data) /\ w % BLOCK = 0 /\ Len(data) \in Nat
  BY WholeBlocks, LenProperties
<1>4. part \in Seq(Byte) /\ Len(part) = w
  <2> HIDE DEF w
  <2> QED
    BY <1>3, CutAndJoin
<1>5. a = [h EXCEPT !.state = h.state \o part, !.bit_len = CountBits(h.bit_len, w)]
  BY DEF AbsorbBlocks, Compress
<1> HIDE DEF w, part, a, n
<1>6. h.state \o part \in Seq(Byte) /\ Len(h.state \o part) = n + w
  BY <1>1, <1>4, ConcatProperties DEF n
<1>7. /\ CountBits((8 * n) % LenMod, w) = (8 * (n + w)) % LenMod
      /\ (8 * (n + w)) % LenMod \in 0..(LenMod - 1)
  <2>1. w \in Nat /\ n + w \in Nat
    BY <1>2, <1>3
  <2> QED
    BY <1>2, <2>1, CountBitsAdds
<1>8. (n + w) % BLOCK = 0
  <2>1. w \in Nat /\ BLOCK \in Nat \ {0}
    BY <1>3, Sm3BlockAssumption
  <2> QED
    BY <1>2, <1>3, <2>1, ModZeroAdd
<1>9. /\ a.state = h.state \o part /\ a.buffer = h.buffer /\ a.buf_len = h.buf_len
      /\ a.bit_len = (8 * (n + w)) % LenMod
  <2>1. /\ a.state = h.state \o part /\ a.buffer = h.buffer /\ a.buf_len = h.buf_len
        /\ a.bit_len = CountBits(h.bit_len, w)
    BY <1>1, <1>5 DEF Hasher
  <2> QED
    BY <1>2, <1>7, <2>1
<1>10. a \in Hasher
  <2>1. CountBits(h.bit_len, w) \in 0..(LenMod - 1)
    BY <1>2, <1>7
  <2> QED
    BY <1>1, <1>5, <1>6, <2>1 DEF Hasher
<1>11. Sound(a)
  <2>1. Len(a.state) = n + w
    BY <1>6, <1>9
  <2> QED
    BY <1>1, <1>8, <1>9, <1>10, <2>1 DEF Sound
<1>12. Absorbed(a) = Absorbed(h) \o part
  <2> DEFINE state    == h.state
             buffered == SubSeq(h.buffer, 1, h.buf_len)
  <2>1. state \in Seq(Byte) /\ buffered \in Seq(Byte)
    BY <1>1, AbsorbedType
  <2>2. Absorbed(a) = (state \o part) \o buffered /\ Absorbed(h) = state \o buffered
    BY <1>9 DEF Absorbed
  <2>3. CASE h.buf_len = 0
    <3>1. buffered = << >>
      BY <2>3, SubSeqEmpty
    <3> HIDE DEF state, buffered
    <3>2. (state \o part) \o buffered = state \o part /\ state \o buffered = state
      BY <2>1, <3>1, <1>6, ConcatEmptySeq DEF state
    <3> QED
      BY <2>2, <3>2
  <2>4. CASE data = << >>
    <3>1. part = << >>
      BY <1>3, <1>4, <2>4, EmptySeq
    <3>2. state \o buffered \in Seq(Byte)
      BY <2>1, ConcatProperties
    <3> HIDE DEF state, buffered
    <3>3. state \o part = state /\ (state \o buffered) \o part = state \o buffered
      BY <2>1, <3>1, <3>2, ConcatEmptySeq
    <3> QED
      BY <2>2, <3>3
  <2> QED
    BY <2>3, <2>4
<1> QED
  BY <1>9, <1>11, <1>12 DEF a, part, w

(* What is left of the input waits in the empty buffer.                    *)
LEMMA StoreRestSpec ==
  ASSUME NEW h, Sound(h), NEW rest \in Seq(Byte), Len(rest) < BLOCK,
         h.buf_len = 0 \/ rest = << >>
  PROVE  Sound(StoreRest(h, rest)) /\ Absorbed(StoreRest(h, rest)) = Absorbed(h) \o rest
<1>1. CASE rest = << >>
  <2>1. StoreRest(h, rest) = h
    BY <1>1 DEF StoreRest
  <2>2. Absorbed(h) \in Seq(Byte)
    BY AbsorbedType
  <2> QED
    BY <1>1, <2>1, <2>2, ConcatEmptySeq
<1>2. CASE rest # << >>
  <2> DEFINE stored == CopyInto(h.buffer, 0, rest)
             t      == StoreRest(h, rest)
  <2>1. /\ h \in Hasher /\ h.state \in Seq(Byte)
        /\ h.buffer \in [1..BLOCK -> Byte] /\ h.buf_len = 0
    BY <1>2 DEF Sound, Hasher
  <2>2. Len(rest) \in 0..(BLOCK - 1)
    BY LenProperties, Sm3BlockAssumption
  <2>3. /\ stored \in [1..BLOCK -> Byte]
        /\ SubSeq(stored, 1, 0 + Len(rest)) = SubSeq(h.buffer, 1, 0) \o rest
    <3>1. 0 \in 0..BLOCK /\ 0 + Len(rest) <= BLOCK
      BY <2>2, Sm3BlockAssumption
    <3> QED
      BY <2>1, <3>1, CopyIntoSpec
  <2>4. SubSeq(stored, 1, Len(rest)) = rest
    <3>1. SubSeq(h.buffer, 1, 0) = << >>
      BY SubSeqEmpty
    <3>2. << >> \o rest = rest
      BY ConcatEmptySeq
    <3>3. 0 + Len(rest) = Len(rest)
      BY <2>2
    <3> HIDE DEF stored
    <3> QED
      BY <2>3, <3>1, <3>2, <3>3
  <2>5. t = [h EXCEPT !.buffer = stored, !.buf_len = Len(rest)]
    BY <1>2 DEF StoreRest
  <2> HIDE DEF stored, t
  <2>6. /\ t.state = h.state /\ t.buffer = stored /\ t.buf_len = Len(rest)
        /\ t.bit_len = h.bit_len
    BY <2>1, <2>5 DEF Hasher
  <2>7. t \in Hasher
    <3>1. Len(rest) \in 0..BLOCK
      BY <2>2, Sm3BlockAssumption
    <3> QED
      BY <2>1, <2>3, <2>5, <3>1 DEF Hasher
  <2>8. Sound(t)
    BY <2>6, <2>7 DEF Sound
  <2>9. Absorbed(t) = h.state \o rest
    BY <2>4, <2>6 DEF Absorbed
  <2>10. Absorbed(h) = h.state
    <3>1. SubSeq(h.buffer, 1, 0) = << >>
      BY SubSeqEmpty
    <3> QED
      BY <2>1, <3>1, ConcatEmptySeq DEF Absorbed
  <2> QED
    BY <2>8, <2>9, <2>10 DEF t
<1> QED
  BY <1>1, <1>2

(* Three pieces can be joined from the left or from the right.            *)
LEMMA ConcatThree ==
  ASSUME NEW a \in Seq(Byte), NEW b \in Seq(Byte), NEW c \in Seq(Byte)
  PROVE  (a \o b) \o c = a \o (b \o c)
  BY ConcatAssociative

(* update() appends its input to what the hasher has absorbed.             *)
THEOREM UpdateAppends ==
  ASSUME NEW h, Sound(h), NEW data \in Seq(Byte)
  PROVE  Sound(Update(h, data)) /\ Absorbed(Update(h, data)) = Absorbed(h) \o data
<1> DEFINE take      == Take(h, data)
           first     == SubSeq(data, 1, take)
           t         == TopUp(h, data)
           remaining == SubSeq(data, take + 1, Len(data))
           w         == WholeCells(remaining)
           blocks    == SubSeq(remaining, 1, w)
           rest      == SubSeq(remaining, w + 1, Len(remaining))
           a         == AbsorbBlocks(t, remaining)
           u         == StoreRest(a, rest)
<1>1. Update(h, data) = u
  BY DEF Update
<1>2. /\ take \in 0..Len(data)
      /\ Sound(t)
      /\ Absorbed(t) = Absorbed(h) \o first
      /\ t.buf_len = 0 \/ take = Len(data)
  BY TopUpSpec
<1> HIDE DEF t, take
<1>3. /\ first \in Seq(Byte) /\ remaining \in Seq(Byte)
      /\ Len(remaining) = Len(data) - take
      /\ first \o remaining = data
  BY <1>2, CutAndJoin
<1> HIDE DEF first, remaining
<1>4. t.buf_len = 0 \/ remaining = << >>
  <2>1. take = Len(data) => Len(remaining) = 0
    BY <1>3, LenProperties
  <2> QED
    BY <1>2, <1>3, <2>1, EmptySeq
<1>5. /\ w \in 0..Len(remaining)
      /\ Len(remaining) - w \in 0..(BLOCK - 1)
  BY <1>3, WholeBlocks
<1>6. /\ Sound(a)
      /\ a.buf_len = t.buf_len
      /\ Absorbed(a) = Absorbed(t) \o blocks
  BY <1>2, <1>3, <1>4, AbsorbBlocksSpec
<1> HIDE DEF a, w
<1>7. /\ blocks \in Seq(Byte) /\ rest \in Seq(Byte)
      /\ Len(rest) = Len(remaining) - w
      /\ blocks \o rest = remaining
  BY <1>3, <1>5, CutAndJoin
<1> HIDE DEF blocks, rest
<1>8. Len(rest) < BLOCK /\ (a.buf_len = 0 \/ rest = << >>)
  <2>1. Len(rest) < BLOCK
    BY <1>5, <1>7, Sm3BlockAssumption
  <2>2. ASSUME remaining = << >> PROVE rest = << >>
    <3>1. Len(remaining) = 0
      BY <2>2, EmptySeq
    <3>2. w = 0
      BY <1>5, <3>1
    <3>3. Len(rest) = 0 - 0
      BY <1>7, <3>1, <3>2
    <3> QED
      BY <1>7, <3>3, EmptySeq
  <2> QED
    BY <1>4, <1>6, <2>1, <2>2
<1>9. Sound(u) /\ Absorbed(u) = Absorbed(a) \o rest
  BY <1>6, <1>7, <1>8, StoreRestSpec
<1> HIDE DEF u
<1>10. Absorbed(h) \in Seq(Byte)
  BY AbsorbedType
<1>11. Absorbed(t) \in Seq(Byte)
  BY <1>2, AbsorbedType
<1>12. (Absorbed(t) \o blocks) \o rest = Absorbed(t) \o (blocks \o rest)
  BY <1>7, <1>11, ConcatThree
<1>13. (Absorbed(h) \o first) \o remaining = Absorbed(h) \o (first \o remaining)
  BY <1>3, <1>10, ConcatThree
<1>14. Absorbed(u) = (Absorbed(t) \o blocks) \o rest
  BY <1>6, <1>9
<1>15. Absorbed(u) = Absorbed(t) \o remaining
  BY <1>7, <1>12, <1>14
<1>16. Absorbed(u) = Absorbed(h) \o data
  BY <1>2, <1>3, <1>13, <1>15
<1> QED
  BY <1>1, <1>9, <1>16

-----------------------------------------------------------------------------
(* finalize_inner() pads as the standard says.                             *)

(* The padded length: one more block, or two when the rest of the message  *)
(* leaves no room for the marker and the length field.                     *)
LEMMA PaddedLenSplit ==
  ASSUME NEW s \in Nat, s % BLOCK = 0, NEW r \in 0..(BLOCK - 1)
  PROVE  PaddedLen(s + r) = IF r + 1 > BLOCK - LENB THEN s + 2 * BLOCK ELSE s + BLOCK
<1> USE Sm3BlockAssumption
<1> DEFINE q == s \div BLOCK
<1>1. s = BLOCK * q /\ q \in Nat
  <2>1. s = BLOCK * q + (s % BLOCK) /\ q \in Nat
    BY DivMod
  <2> HIDE DEF q
  <2>2. BLOCK * q \in Nat
    BY <2>1
  <2> QED
    BY <2>1, <2>2
<1> HIDE DEF q
<1>2. CASE r + LENB < BLOCK
  <2>1. r + LENB \in 0..(BLOCK - 1)
    BY <1>2
  <2>2. (BLOCK * q + (r + LENB)) \div BLOCK = q
    BY <1>1, <2>1, DivModUnique
  <2>3. s + r + LENB = BLOCK * q + (r + LENB)
    BY <1>1
  <2>4. PaddedLen(s + r) = BLOCK * (q + 1)
    BY <2>2, <2>3 DEF PaddedLen
  <2>5. BLOCK * (q + 1) = BLOCK * q + BLOCK
    BY <1>1
  <2> QED
    BY <1>1, <1>2, <2>4, <2>5
<1>3. CASE r + LENB >= BLOCK
  <2>1. (r + LENB) - BLOCK \in 0..(BLOCK - 1) /\ q + 1 \in Nat
    BY <1>1, <1>3
  <2>2. (BLOCK * (q + 1) + ((r + LENB) - BLOCK)) \div BLOCK = q + 1
    BY <2>1, DivModUnique
  <2>3. BLOCK * (q + 1) = BLOCK * q + BLOCK
    BY <1>1
  <2>4. s + r + LENB = BLOCK * (q + 1) + ((r + LENB) - BLOCK)
    BY <1>1, <2>1, <2>3
  <2>5. PaddedLen(s + r) = BLOCK * ((q + 1) + 1)
    BY <2>2, <2>4 DEF PaddedLen
  <2>6. BLOCK * ((q + 1) + 1) = BLOCK * q + 2 * BLOCK
    BY <1>1
  <2> QED
    BY <1>1, <1>3, <2>5, <2>6
<1> QED
  BY <1>2, <1>3

(* A block as a sequence of cells.                                         *)
LEMMA BlockIsSeq ==
  ASSUME NEW b, b = [i \in 1..BLOCK |-> b[i]], \A i \in 1..BLOCK : b[i] \in Cell
  PROVE  b \in Seq(Cell) /\ Len(b) = BLOCK
<1>1. b \in [1..BLOCK -> Cell]
  OBVIOUS
<1>2. BLOCK \in Nat
  BY Sm3BlockAssumption
<1> QED
  BY <1>1, <1>2

(* A sound hasher finalizes to the padding of what it has absorbed.        *)
THEOREM FinalizePads ==
  ASSUME NEW h, Sound(h)
  PROVE  /\ FinalizeInner(h) = Padded(Absorbed(h))
         /\ FinalizeInner(h) \in Seq(Cell)
<1> DEFINE msg    == Absorbed(h)
           n      == Len(msg)
           s      == Len(h.state)
           r      == h.buf_len
           bits   == (8 * n) % LenMod
           marked == [h.buffer EXCEPT ![r + 1] = PadMarker]
           out    == FinalizeInner(h)
<1>1. /\ h.state \in Seq(Byte) /\ s \in Nat
      /\ h.buffer \in [1..BLOCK -> Byte]
      /\ r \in 0..(BLOCK - 1)
  BY LenProperties, Sm3BlockAssumption DEF Sound, Hasher
<1>2. msg \in Seq(Byte) /\ n = s + r
  BY AbsorbedType
<1>3. \A i \in 1..n : (msg[i] = IF i <= s THEN h.state[i] ELSE h.buffer[i - s])
  <2> DEFINE buffered == SubSeq(h.buffer, 1, r)
  <2>1. buffered \in Seq(Byte) /\ Len(buffered) = r
    BY AbsorbedType
  <2>2. \A i \in 1..r : h.buffer[i] \in Byte
    BY <1>1, Sm3BlockAssumption
  <2>3. \A i \in 1..r : buffered[i] = h.buffer[i]
    BY <1>1, <2>2, SubSeqProperties
  <2> HIDE DEF buffered
  <2>4. \A i \in 1..(s + r) : msg[i] = IF i <= s THEN h.state[i] ELSE buffered[i - s]
    BY <1>1, <2>1, ConcatProperties DEF Absorbed, buffered
  <2> HIDE DEF msg, n, s, r
  <2> SUFFICES ASSUME NEW i \in 1..n
               PROVE  msg[i] = IF i <= s THEN h.state[i] ELSE h.buffer[i - s]
    OBVIOUS
  <2>5. n = s + r /\ s \in Nat /\ r \in Nat
    BY <1>1, <1>2
  <2>6. i \in 1..(s + r)
    BY <2>5
  <2>7. msg[i] = IF i <= s THEN h.state[i] ELSE buffered[i - s]
    BY <2>4, <2>6
  <2>8. CASE i <= s
    BY <2>7, <2>8
  <2>9. CASE ~(i <= s)
    <3>1. i - s \in 1..r
      BY <2>5, <2>6, <2>9
    <3> QED
      BY <2>3, <2>7, <2>9, <3>1
  <2> QED
    BY <2>8, <2>9
<1>4. CountBits(h.bit_len, r) = bits /\ bits \in 0..(LenMod - 1)
  <2>1. h.bit_len = (8 * s) % LenMod /\ r \in Nat /\ n \in Nat
    BY <1>1, <1>2 DEF Sound
  <2>2. CountBits((8 * s) % LenMod, r) = (8 * (s + r)) % LenMod
    BY <1>1, <2>1, CountBitsAdds
  <2>3. (8 * n) % LenMod \in 0..(LenMod - 1)
    BY <2>1, CountBitsAdds
  <2> QED
    BY <1>2, <2>1, <2>2, <2>3
<1>5. PaddedLen(n) = IF r + 1 > BLOCK - LENB THEN s + 2 * BLOCK ELSE s + BLOCK
  <2>1. s % BLOCK = 0
    BY DEF Sound
  <2> QED
    BY <1>1, <1>2, <2>1, PaddedLenSplit
<1>6. BLOCK \in Nat \ {0} /\ LENB \in Nat \ {0} /\ LENB < BLOCK
  BY Sm3BlockAssumption
<1>7. \A i \in 1..BLOCK : marked[i] = IF i = r + 1 THEN PadMarker ELSE h.buffer[i]
  BY <1>1, <1>6
<1>8. Byte \subseteq Cell /\ 0 \in Cell /\ bits \in Cell /\ PadMarker \in Cell
  BY <1>4, ByteAssumption DEF Cell
<1>9. /\ h.state \in Seq(Cell)
      /\ \A i \in 1..BLOCK : h.buffer[i] \in Cell
  BY <1>1, <1>8, SeqMonotonic
<1> HIDE DEF msg, n, s, r, bits, marked
<1>10. CASE r + 1 > BLOCK - LENB
  <2> DEFINE b1 == ClearFrom(marked, r + 1, BLOCK)
             b2 == WithLength(ZeroCells(BLOCK), bits)
             t  == h.state \o b1
  <2>1. out = t \o b2
    BY <1>4, <1>10 DEF FinalizeInner, Compress, r, marked
  <2>2. b1 = [i \in 1..BLOCK |-> IF i <= r THEN h.buffer[i]
                                 ELSE IF i = r + 1 THEN PadMarker ELSE 0]
    BY <1>1, <1>6, <1>7 DEF ClearFrom
  <2>3. b2 = [i \in 1..BLOCK |-> IF i = BLOCK THEN bits ELSE 0]
    BY <1>6 DEF WithLength, ZeroCells, LengthField
  <2> HIDE DEF b1, b2
  <2>4. b1 \in Seq(Cell) /\ Len(b1) = BLOCK
    BY <1>8, <1>9, <2>2, BlockIsSeq
  <2>5. b2 \in Seq(Cell) /\ Len(b2) = BLOCK
    BY <1>8, <2>3, BlockIsSeq
  <2>6. /\ t \in Seq(Cell) /\ Len(t) = s + BLOCK
        /\ \A i \in 1..(s + BLOCK) : t[i] = IF i <= s THEN h.state[i] ELSE b1[i - s]
    BY <1>9, <2>4, ConcatProperties DEF s
  <2> HIDE DEF t, out
  <2>7. /\ out \in Seq(Cell) /\ Len(out) = (s + BLOCK) + BLOCK
        /\ \A i \in 1..((s + BLOCK) + BLOCK) :
             out[i] = IF i <= s + BLOCK THEN t[i] ELSE b2[i - (s + BLOCK)]
    <3>1. t \in Seq(Cell) /\ b2 \in Seq(Cell)
      BY <2>5, <2>6
    <3>2. /\ t \o b2 \in Seq(Cell) /\ Len(t \o b2) = Len(t) + Len(b2)
          /\ \A i \in 1..(Len(t) + Len(b2)) :
               (t \o b2)[i] = IF i <= Len(t) THEN t[i] ELSE b2[i - Len(t)]
      BY <3>1, ConcatProperties
    <3> QED
      BY <2>1, <2>5, <2>6, <3>2
  <2>8. PaddedLen(n) = (s + BLOCK) + BLOCK
    BY <1>1, <1>5, <1>6, <1>10
  <2>9. ASSUME NEW i \in 1..PaddedLen(n) PROVE out[i] = Padded(msg)[i]
    <3>1. Padded(msg)[i] = IF i <= n THEN msg[i]
                           ELSE IF i = n + 1 THEN PadMarker
                           ELSE IF i = PaddedLen(n) THEN bits ELSE 0
      BY DEF Padded, n, bits
    <3>5. /\ i \in 1..((s + BLOCK) + BLOCK) /\ s \in Nat /\ r \in Nat /\ n = s + r
          /\ BLOCK \in Nat
      BY <1>1, <1>2, <1>6, <2>8 DEF r
    <3>6. out[i] = IF i <= s + BLOCK THEN t[i] ELSE b2[i - (s + BLOCK)]
      BY <2>7, <3>5
    <3>2. CASE i <= s
      <4>1. i \in 1..n /\ i \in 1..(s + BLOCK) /\ i <= s + BLOCK
        BY <3>2, <3>5
      <4>2. out[i] = t[i]
        BY <3>6, <4>1
      <4>3. t[i] = h.state[i]
        BY <2>6, <3>2, <4>1
      <4>4. msg[i] = h.state[i]
        BY <1>3, <3>2, <4>1
      <4>5. i <= n
        BY <4>1, <3>5
      <4> QED
        BY <3>1, <4>2, <4>3, <4>4, <4>5
    <3>3. CASE i > s /\ i <= s + BLOCK
      <4>0. i - s \in 1..BLOCK /\ i \in 1..(s + BLOCK) /\ ~(i <= s)
        BY <3>5, <3>3
      <4>1. i - s \in 1..BLOCK /\ out[i] = b1[i - s]
        BY <2>6, <3>6, <3>3, <4>0
      <4>2. out[i] = IF i - s <= r THEN h.buffer[i - s]
                     ELSE IF i - s = r + 1 THEN PadMarker ELSE 0
        BY <2>2, <4>1
      <4>3. i # PaddedLen(n)
        BY <1>1, <1>6, <2>8, <3>3
      <4>4. CASE i - s <= r
        <5>1. i \in 1..n /\ i <= n /\ ~(i <= s)
          BY <3>5, <4>4, <4>0
        <5>2. msg[i] = h.buffer[i - s]
          BY <1>3, <5>1
        <5> QED
          BY <3>1, <4>2, <4>4, <5>1, <5>2
      <4>5. CASE ~(i - s <= r)
        <5>1. ~(i <= n) /\ (i = n + 1 <=> i - s = r + 1)
          BY <3>5, <4>5
        <5> QED
          BY <3>1, <4>2, <4>3, <4>5, <5>1
      <4> QED
        BY <4>4, <4>5
    <3>4. CASE i > s + BLOCK
      <4>1. /\ i - (s + BLOCK) \in 1..BLOCK /\ out[i] = b2[i - (s + BLOCK)]
            /\ i > n + 1
        BY <1>1, <1>2, <1>6, <2>7, <2>8, <3>4
      <4>2. out[i] = IF i = PaddedLen(n) THEN bits ELSE 0
        BY <1>1, <1>6, <2>3, <2>8, <4>1
      <4> QED
        BY <1>1, <1>2, <3>1, <4>1, <4>2
    <3> QED
      BY <1>1, <1>6, <2>8, <3>2, <3>3, <3>4
  <2>10. Padded(msg) = [i \in 1..PaddedLen(n) |-> Padded(msg)[i]]
    BY DEF Padded, n
  <2>11. out = [i \in 1..PaddedLen(n) |-> out[i]]
    BY <2>7, <2>8
  <2> QED
    BY <2>7, <2>9, <2>10, <2>11 DEF out, msg
<1>11. CASE ~(r + 1 > BLOCK - LENB)
  <2> DEFINE b == WithLength(ClearFrom(marked, r + 1, BLOCK - LENB), bits)
  <2>1. out = h.state \o b
    BY <1>4, <1>11 DEF FinalizeInner, Compress, r, marked
  <2>2. b = [i \in 1..BLOCK |-> IF i <= r THEN h.buffer[i]
                                ELSE IF i = r + 1 THEN PadMarker
                                ELSE IF i = BLOCK THEN bits ELSE 0]
    BY <1>1, <1>6, <1>7, <1>11 DEF ClearFrom, WithLength, LengthField
  <2> HIDE DEF b
  <2>3. b \in Seq(Cell) /\ Len(b) = BLOCK
    BY <1>8, <1>9, <2>2, BlockIsSeq
  <2> HIDE DEF out
  <2>4. /\ out \in Seq(Cell) /\ Len(out) = s + BLOCK
        /\ \A i \in 1..(s + BLOCK) : out[i] = IF i <= s THEN h.state[i] ELSE b[i - s]
    BY <1>9, <2>1, <2>3, ConcatProperties DEF s
  <2>5. PaddedLen(n) = s + BLOCK
    BY <1>5, <1>11
  <2>6. ASSUME NEW i \in 1..PaddedLen(n) PROVE out[i] = Padded(msg)[i]
    <3>1. Padded(msg)[i] = IF i <= n THEN msg[i]
                           ELSE IF i = n + 1 THEN PadMarker
                           ELSE IF i = PaddedLen(n) THEN bits ELSE 0
      BY DEF Padded, n, bits
    <3>2. CASE i <= s
      BY <1>1, <1>2, <1>3, <2>4, <2>5, <3>1, <3>2
    <3>3. CASE i > s
      <4>1. i - s \in 1..BLOCK /\ out[i] = b[i - s]
        BY <1>1, <1>6, <2>4, <2>5, <3>3
      <4>2. out[i] = IF i - s <= r THEN h.buffer[i - s]
                     ELSE IF i - s = r + 1 THEN PadMarker
                     ELSE IF i - s = BLOCK THEN bits ELSE 0
        BY <2>2, <4>1
      <4> QED
        BY <1>1, <1>2, <1>3, <1>6, <2>5, <3>1, <3>3, <4>2
    <3> QED
      BY <1>1, <1>6, <2>5, <3>2, <3>3
  <2>7. Padded(msg) = [i \in 1..PaddedLen(n) |-> Padded(msg)[i]]
    BY DEF Padded, n
  <2>8. out = [i \in 1..PaddedLen(n) |-> out[i]]
    BY <2>4, <2>5
  <2> QED
    BY <2>4, <2>6, <2>7, <2>8 DEF out, msg
<1> QED
  BY <1>10, <1>11

-----------------------------------------------------------------------------
(* The contexts of a program.                                              *)

(* The invariant, context by context.                                      *)
LEMMA IInvIsSound ==
  IInv <=> /\ live \subseteq Handles
           /\ hasher = [h \in Handles |-> hasher[h]]
           /\ \A h \in Handles : Sound(hasher[h])
           /\ hashed \in Seq(Cell)
  BY DEF IInv, TypeOK, RoomForMarker, CounterMatches, Sound

(* The messages of the contexts.                                           *)
Log == [h \in Handles |-> Absorbed(hasher[h])]

(* Giving one context another sound hasher changes its message only.       *)
LEMMA OneContext ==
  ASSUME IInv, NEW g \in Handles, NEW v, Sound(v), hasher' = [hasher EXCEPT ![g] = v]
  PROVE  /\ hasher' = [h \in Handles |-> hasher'[h]]
         /\ \A h \in Handles : Sound(hasher'[h])
         /\ Log' = [Log EXCEPT ![g] = Absorbed(v)]
<1>1. /\ hasher = [h \in Handles |-> hasher[h]]
      /\ \A h \in Handles : Sound(hasher[h])
  BY IInvIsSound
<1>2. hasher' = [h \in Handles |-> IF h = g THEN v ELSE hasher[h]]
  BY <1>1
<1>3. \A h \in Handles : hasher'[h] = IF h = g THEN v ELSE hasher[h]
  BY <1>2
<1>4. Log' = [h \in Handles |-> IF h = g THEN Absorbed(v) ELSE Absorbed(hasher[h])]
  BY <1>3 DEF Log
<1> QED
  BY <1>1, <1>2, <1>3, <1>4 DEF Log

(* A digest is the padding of the message.                                 *)
LEMMA DigestPads ==
  ASSUME NEW data \in Messages
  PROVE  Digest(data) = Padded(data) /\ Digest(data) \in Seq(Cell)
<1>1. data \in Seq(Byte)
  BY MessagesAssumption
<1>2. Sound(Update(New, data)) /\ Absorbed(Update(New, data)) = << >> \o data
  BY <1>1, NewSound, UpdateAppends
<1>3. << >> \o data = data
  BY <1>1
<1> QED
  BY <1>2, <1>3, FinalizePads DEF Digest

(* What one step does to the contexts, said in terms of their messages.    *)
LEMMA StepMaps ==
  ASSUME IInv, StreamNext
  PROVE  IInv' /\ Service!SNext
<1>1. /\ live \subseteq Handles
      /\ hasher = [h \in Handles |-> hasher[h]]
      /\ \A h \in Handles : Sound(hasher[h])
      /\ hashed \in Seq(Cell)
  BY IInvIsSound
<1>2. ASSUME live' \subseteq Handles,
             hasher' = [h \in Handles |-> hasher'[h]],
             \A h \in Handles : Sound(hasher'[h]),
             hashed' \in Seq(Cell)
      PROVE  IInv'
  BY <1>2 DEF IInv, TypeOK, RoomForMarker, CounterMatches, Sound
<1>3. Sound(New) /\ Absorbed(New) = << >>
  BY NewSound
<1>4. NoResult \in Seq(Cell)
  BY DEF NoResult
<1>5. \A h \in Handles : /\ FinalizeInner(hasher[h]) = Padded(Log[h])
                         /\ FinalizeInner(hasher[h]) \in Seq(Cell)
                         /\ Log[h] = Absorbed(hasher[h])
  BY <1>1, FinalizePads DEF Log
<1>6. ASSUME NEW h \in Handles, Start(h) PROVE IInv' /\ Service!SNext
  <2>1. live' \subseteq Handles /\ hashed' \in Seq(Cell)
    BY <1>1, <1>4, <1>6 DEF Start
  <2>2. hasher' = [hasher EXCEPT ![h] = New]
    BY <1>6 DEF Start
  <2>3. IInv' /\ Log' = [Log EXCEPT ![h] = << >>]
    BY <1>2, <1>3, <2>1, <2>2, OneContext
  <2>4. Service!SStart(h)
    BY <1>6, <2>3 DEF Start, Log, Service!SStart
  <2> QED
    BY <2>3, <2>4 DEF Service!SNext
<1>7. ASSUME NEW h \in Handles, NEW g \in Handles, Fork(h, g)
      PROVE  IInv' /\ Service!SNext
  <2>1. live' \subseteq Handles /\ hashed' \in Seq(Cell)
    BY <1>1, <1>4, <1>7 DEF Fork
  <2>2. hasher' = [hasher EXCEPT ![g] = hasher[h]] /\ Sound(hasher[h])
    BY <1>1, <1>7 DEF Fork
  <2>3. IInv' /\ Log' = [Log EXCEPT ![g] = Absorbed(hasher[h])]
    BY <1>2, <2>1, <2>2, OneContext
  <2>4. Log' = [Log EXCEPT ![g] = Log[h]]
    BY <1>5, <2>3
  <2>5. Service!SFork(h, g)
    BY <1>7, <2>4 DEF Fork, Log, Service!SFork
  <2> QED
    BY <2>3, <2>5 DEF Service!SNext
<1>8. ASSUME NEW h \in Handles, NEW data \in Messages, Feed(h, data)
      PROVE  IInv' /\ Service!SNext
  <2>1. live' \subseteq Handles /\ hashed' \in Seq(Cell)
    BY <1>1, <1>4, <1>8 DEF Feed
  <2>2. hasher' = [hasher EXCEPT ![h] = Update(hasher[h], data)]
    BY <1>8 DEF Feed
  <2>3. /\ Sound(Update(hasher[h], data))
        /\ Absorbed(Update(hasher[h], data)) = Absorbed(hasher[h]) \o data
    BY <1>1, MessagesAssumption, UpdateAppends
  <2>4. IInv' /\ Log' = [Log EXCEPT ![h] = Absorbed(Update(hasher[h], data))]
    BY <1>2, <2>1, <2>2, <2>3, OneContext
  <2>5. Log' = [Log EXCEPT ![h] = Log[h] \o data]
    BY <1>5, <2>3, <2>4
  <2>6. Service!SUpdate(h, data)
    BY <1>8, <2>5 DEF Feed, Log, Service!SUpdate
  <2> QED
    BY <2>4, <2>6 DEF Service!SNext
<1>9. ASSUME NEW h \in Handles, ForkFinish(h) PROVE IInv' /\ Service!SNext
  <2>1. live' = live /\ hasher' = hasher /\ hashed' = FinalizeInner(hasher[h])
    BY <1>9 DEF ForkFinish
  <2>2. IInv' /\ Log' = Log
    BY <1>1, <1>2, <1>5, <2>1 DEF Log
  <2>3. Service!SForkFinish(h)
    BY <1>5, <1>9, <2>1, <2>2 DEF ForkFinish, Log, Service!SForkFinish
  <2> QED
    BY <2>2, <2>3 DEF Service!SNext
<1>10. ASSUME NEW h \in Handles, Finish(h) PROVE IInv' /\ Service!SNext
  <2>1. live' \subseteq Handles /\ hashed' \in Seq(Cell)
    BY <1>1, <1>5, <1>10 DEF Finish
  <2>2. hasher' = [hasher EXCEPT ![h] = New]
    BY <1>10 DEF Finish
  <2>3. IInv' /\ Log' = [Log EXCEPT ![h] = << >>]
    BY <1>2, <1>3, <2>1, <2>2, OneContext
  <2>4. Service!SFinish(h)
    BY <1>5, <1>10, <2>3 DEF Finish, Log, Service!SFinish
  <2> QED
    BY <2>3, <2>4 DEF Service!SNext
<1>11. ASSUME NEW h \in Handles, FinalizeReset(h) PROVE IInv' /\ Service!SNext
  <2>1. live' \subseteq Handles /\ hashed' \in Seq(Cell)
    BY <1>1, <1>5, <1>11 DEF FinalizeReset
  <2>2. hasher' = [hasher EXCEPT ![h] = New]
    BY <1>11 DEF FinalizeReset
  <2>3. IInv' /\ Log' = [Log EXCEPT ![h] = << >>]
    BY <1>2, <1>3, <2>1, <2>2, OneContext
  <2>4. Service!SFinalizeReset(h)
    BY <1>5, <1>11, <2>3 DEF FinalizeReset, Log, Service!SFinalizeReset
  <2> QED
    BY <2>3, <2>4 DEF Service!SNext
<1>12. ASSUME NEW h \in Handles, Reset(h) PROVE IInv' /\ Service!SNext
  <2>1. live' \subseteq Handles /\ hashed' \in Seq(Cell)
    BY <1>1, <1>4, <1>12 DEF Reset
  <2>2. hasher' = [hasher EXCEPT ![h] = New]
    BY <1>12 DEF Reset
  <2>3. IInv' /\ Log' = [Log EXCEPT ![h] = << >>]
    BY <1>2, <1>3, <2>1, <2>2, OneContext
  <2>4. Service!SReset(h)
    BY <1>12, <2>3 DEF Reset, Log, Service!SReset
  <2> QED
    BY <2>3, <2>4 DEF Service!SNext
<1>13. ASSUME NEW data \in Messages, OneShot(data) PROVE IInv' /\ Service!SNext
  <2>1. live' = live /\ hasher' = hasher /\ hashed' = Digest(data)
    BY <1>13 DEF OneShot
  <2>2. IInv' /\ Log' = Log
    BY <1>1, <1>2, <2>1, DigestPads DEF Log
  <2>3. Service!SDigest(data)
    BY <2>1, <2>2, DigestPads DEF Log, Service!SDigest
  <2> QED
    BY <2>2, <2>3 DEF Service!SNext
<1> QED
  BY <1>6, <1>7, <1>8, <1>9, <1>10, <1>11, <1>12, <1>13 DEF StreamNext

(* In every state the hashers are well typed, have room for the padding    *)
(* marker, and count the bits of the blocks they have compressed.          *)
THEOREM InductiveInvariant == StreamSpec => []IInv
<1>1. StreamInit => IInv
  <2> SUFFICES ASSUME StreamInit PROVE IInv
    OBVIOUS
  <2>1. Sound(New)
    BY NewSound
  <2> QED
    BY <2>1, IInvIsSound DEF StreamInit, NoResult
<1>2. IInv /\ [StreamNext]_streamVars => IInv'
  <2> SUFFICES ASSUME IInv, [StreamNext]_streamVars PROVE IInv'
    OBVIOUS
  <2>1. CASE StreamNext
    BY <2>1, StepMaps
  <2>2. CASE UNCHANGED streamVars
    BY <2>2 DEF streamVars, IInv, TypeOK, RoomForMarker, CounterMatches
  <2> QED
    BY <2>1, <2>2
<1> QED
  BY <1>1, <1>2, PTL DEF StreamSpec

(* The state stays in its types: buf_len in the buffer, the counter below  *)
(* its modulus, every digest a sequence of cells.                          *)
THEOREM TypeCorrect == StreamSpec => []TypeOK
<1>1. IInv => TypeOK
  BY DEF IInv
<1> QED
  BY <1>1, InductiveInvariant, PTL

(* finalize_inner() never indexes past its buffer.                         *)
THEOREM MarkerFits == StreamSpec => []RoomForMarker
<1>1. IInv => RoomForMarker
  BY DEF IInv
<1> QED
  BY <1>1, InductiveInvariant, PTL

(* The counter is the length of what was compressed, however it wraps.     *)
THEOREM CounterRight == StreamSpec => []CounterMatches
<1>1. IInv => CounterMatches
  BY DEF IInv
<1> QED
  BY <1>1, InductiveInvariant, PTL

(* Streaming SM3 implements the abstract hash service: splitting a message *)
(* over calls, forking, resetting and interleaving contexts never changes  *)
(* the digest of a message.                                                *)
THEOREM ImplementsService == StreamSpec => ServiceSpec
<1>1. StreamInit => Service!SInit
  <2>1. Absorbed(New) = << >>
    BY NewSound
  <2> QED
    BY <2>1 DEF StreamInit, Service!SInit
<1>2. IInv /\ [StreamNext]_streamVars => [Service!SNext]_(Service!svars)
  <2> SUFFICES ASSUME IInv, [StreamNext]_streamVars
               PROVE  [Service!SNext]_(Service!svars)
    OBVIOUS
  <2>1. CASE StreamNext
    BY <2>1, StepMaps
  <2>2. CASE UNCHANGED streamVars
    BY <2>2 DEF streamVars, Service!svars
  <2> QED
    BY <2>1, <2>2
<1> QED
  BY <1>1, <1>2, InductiveInvariant, PTL DEF StreamSpec, ServiceSpec, Service!SSpec
=============================================================================
