------------------------------- MODULE Sm4Aead -------------------------------
(***************************************************************************)
(* The authenticated modes of SM4 (src/src/sm4/modes.rs): GCM, CCM, OCB,   *)
(* SIV and EAX, as the code computes them.  Sealing returns [ok, ct, tag]  *)
(* or [ok, err]; the tag of CCM and of the combined GCM is the end of ct.  *)
(***************************************************************************)
EXTENDS Sm4Modes

CONSTANTS AadBuf,    \* bytes of CCM's AAD buffer (src: 512)
          LenRadix   \* values of CCM's length field (src: 2^24)

ASSUME AeadAssumption == AadBuf \in Nat /\ LenRadix \in Nat \ {0}

Sealed(ct, tag) == [ok |-> TRUE, ct |-> ct, tag |-> tag]
OpenedIf(authentic, pt, e) == IF authentic THEN Ok(pt) ELSE Err(e)

-----------------------------------------------------------------------------
(* GCM: a counter in the last bytes of J0, and GHASH over aad, ciphertext  *)
(* and their lengths.                                                      *)

\* Variant: the lengths are left out.
GhashUnsized(h, aad, ct) ==
  LET Mul(x) == Gf128Mul(x, h)
  IN  Mul(Absorb(Absorb(ZeroBlock, aad, Mul), ct, Mul))

Ghash(h, aad, ct) ==
  LET Mul(x) == Gf128Mul(x, h)
      lens   == [i \in 1..B |-> IF i = 1 THEN Num(Len(aad))
                                ELSE IF i = B THEN Num(Len(ct)) ELSE Zero]
  IN  Mul(Xor(Absorb(Absorb(ZeroBlock, aad, Mul), ct, Mul), lens))

GcmJ0(nonce) == nonce \o <<Num(1)>>
\* Variant: the data starts at J0, the counter of the tag.
GcmCountersFromJ0(nonce, data) ==
  Counters(GcmCtrInc, GcmJ0(nonce), Len(Chunks(data)))

GcmCounters(nonce, data) ==
  Counters(GcmCtrInc, GcmCtrInc(GcmJ0(nonce)), Len(Chunks(data)))
GcmTag(k, nonce, aad, ct) ==
  Xor(Ghash(E(k, ZeroBlock), aad, ct), E(k, GcmJ0(nonce)))

GcmSealed(k, nonce, aad, ct) == Sealed(ct, GcmTag(k, nonce, aad, ct))
EncryptGcm(k, nonce, aad, pt) ==
  GcmSealed(k, nonce, aad, KeyStreamed(k, GcmCounters(nonce, pt), pt))
DecryptGcm(k, nonce, aad, ct, tag) ==
  OpenedIf(GcmTag(k, nonce, aad, ct) = tag,
           KeyStreamed(k, GcmCounters(nonce, ct), ct), "AuthTagMismatch")

Combined(s) == s.ct \o s.tag
EncryptGcmCombined(k, nonce, aad, pt) ==
  Sealed(Combined(EncryptGcm(k, nonce, aad, pt)), <<>>)
DecryptGcmCombined(k, nonce, aad, in) ==
  IF Len(in) < B THEN Err("InvalidInputLength")
  ELSE DecryptGcm(k, nonce, aad, SubSeq(in, 1, Len(in) - B),
                  SubSeq(in, Len(in) - B + 1, Len(in)))

-----------------------------------------------------------------------------
(* CCM: a CBC-MAC over flags, nonce, length, aad and message, then CTR.    *)

\* A flags byte for each tag length (src: (tag_len - 2) / 2) and for the
\* presence of an aad; 2 is the width of the length field less one.
CcmFlags(hasAad, tagLen) ==
  Num((IF hasAad THEN 64 ELSE 0) + 8 * tagLen + 2)
CcmB0(nonce, aad, len, tagLen) ==
  <<CcmFlags(aad # <<>>, tagLen)>> \o nonce \o <<Num(len % LenRadix)>>
CcmPrefix(aad) == IF aad = <<>> THEN <<>> ELSE <<Num(Len(aad))>> \o aad
CcmCbcMac(k, nonce, aad, msg, tagLen) ==
  LET Enc(x) == E(k, x)
  IN  IF Len(CcmPrefix(aad)) > AadBuf THEN Err("InvalidInputLength")
      ELSE Ok(Absorb(Absorb(Enc(CcmB0(nonce, aad, Len(msg), tagLen)), CcmPrefix(aad), Enc),
                     msg, Enc))

CcmA(nonce, i) == <<Num(2)>> \o nonce \o <<Num(i % LenRadix)>>
CcmCounters(nonce, data) == [i \in 1..Len(Chunks(data)) |-> CcmA(nonce, i)]
CcmTag(k, nonce, mac, tagLen) ==
  SubSeq(Xor(mac, E(k, CcmA(nonce, 0))), 1, tagLen)

\* A tag has 1 to B bytes (src: an even number from 4 to 16, asserted).
CcmSealed(k, nonce, pt, tagLen, mac) ==
  IF ~mac.ok THEN mac
  ELSE Sealed(KeyStreamed(k, CcmCounters(nonce, pt), pt)
                \o CcmTag(k, nonce, mac.val, tagLen), <<>>)
EncryptCcm(k, nonce, aad, pt, tagLen) ==
  IF tagLen \notin 1..B THEN Err("panic")
  ELSE CcmSealed(k, nonce, pt, tagLen, CcmCbcMac(k, nonce, aad, pt, tagLen))
\* The candidate plaintext is authenticated before it is returned.
CcmOpened(k, nonce, pt, tag, tagLen, mac) ==
  IF ~mac.ok THEN mac
  ELSE OpenedIf(CcmTag(k, nonce, mac.val, tagLen) = tag, pt, "AuthTagMismatch")
CcmOpenedOf(k, nonce, aad, pt, tag, tagLen) ==
  CcmOpened(k, nonce, pt, tag, tagLen, CcmCbcMac(k, nonce, aad, pt, tagLen))
DecryptCcm(k, nonce, aad, in, tagLen) ==
  IF Len(in) < tagLen THEN Err("InvalidInputLength")
  ELSE LET ct == SubSeq(in, 1, Len(in) - tagLen)
       IN  CcmOpenedOf(k, nonce, aad, KeyStreamed(k, CcmCounters(nonce, ct), ct),
                       SubSeq(in, Len(ct) + 1, Len(in)), tagLen)

-----------------------------------------------------------------------------
(* OCB: offsets that depend on the position, and a checksum.               *)

LStar(k)   == E(k, ZeroBlock)
LDollar(k) == Gf128MulU(LStar(k))
\* L[j] for block i, where 2^j is the largest power of two dividing i.
TwoTo(n) == Iterated(n, 1, LAMBDA j, p : 2 * p)[n]
Ntz(i) == Max({j \in 0..i : i % TwoTo(j) = 0})
LAt(k, i) ==
  Iterated(Ntz(i), Gf128MulU(LDollar(k)), LAMBDA j, l : Gf128MulU(l))[Ntz(i)]
\* The offsets of whole blocks 1 to n; at 0 the one to begin with.
Offsets(k, first, n) == Iterated(n, first, LAMBDA i, o : Xor(o, LAt(k, i)))
\* The padding of a last short block: a one, then zeros.
OnePadded(s) == ZeroPadded(Append(s, Num(Radix \div 2)))

\* The XOR of blocks.
SumOf(blocks) ==
  Iterated(Len(blocks), ZeroBlock, LAMBDA i, s : Xor(s, blocks[i]))[Len(blocks)]
OcbSum(k, whole, offs) ==
  SumOf([i \in 1..Len(whole) |-> E(k, Xor(whole[i], offs[i]))])
OcbHashOf(k, whole, tail, offs) ==
  IF tail = <<>> THEN OcbSum(k, whole, offs)
  ELSE Xor(OcbSum(k, whole, offs),
           E(k, Xor(OnePadded(tail), Xor(offs[Len(whole)], LStar(k)))))
OcbHash(k, aad) ==
  OcbHashOf(k, WholeBlocks(aad), Tail16(aad), Offsets(k, ZeroBlock, Len(aad) \div B))

\* The last bits of the nonce, bottom, stretch the rest of it.
OcbBottom == Radix \div 2
OcbOffset0(k, nonce) ==
  LET nb     == [i \in 1..B |->
                   IF i > B - Len(nonce) THEN nonce[i - B + Len(nonce)]
                   ELSE IF i = B - Len(nonce) THEN Num(1) ELSE Zero]
      bottom == Value(nb[B]) % OcbBottom
      ktop   == E(k, [nb EXCEPT ![B] = Num(Value(nb[B]) - bottom)])
  IN  IF bottom = 0 THEN ktop ELSE Linear(<<"stretch", bottom>>, ktop)

\* Op enciphers or deciphers a whole block.
OcbBlocks(Op(_, _), k, whole, tail, offs) ==
  [out  |-> FlattenSeq([i \in 1..Len(whole) |-> Xor(Op(k, Xor(whole[i], offs[i])), offs[i])])
              \o (IF tail = <<>> THEN <<>>
                  ELSE Xor(tail, E(k, Xor(offs[Len(whole)], LStar(k))))),
   last |-> offs[Len(whole)]]
OcbCrypt(Op(_, _), k, nonce, data) ==
  OcbBlocks(Op, k, WholeBlocks(data), Tail16(data),
            Offsets(k, OcbOffset0(k, nonce), Len(data) \div B))
\* The checksum of the plaintext; a short last block counts padded.
Checksum(whole, tail) ==
  IF tail = <<>> THEN SumOf(whole) ELSE Xor(SumOf(whole), OnePadded(tail))
OcbTag(k, last, aad, pt) ==
  Xor(E(k, Xor(Xor(Checksum(WholeBlocks(pt), Tail16(pt)),
                   IF Tail16(pt) = <<>> THEN last ELSE Xor(last, LStar(k))),
               LDollar(k))),
      OcbHash(k, aad))
OcbSealed(k, aad, pt, c) == Sealed(c.out, OcbTag(k, c.last, aad, pt))
OcbOpened(k, aad, c, tag) == OpenedIf(OcbTag(k, c.last, aad, c.out) = tag, c.out, "InvalidTag")

EncryptOcb(k, nonce, aad, pt) ==
  IF Len(nonce) \notin 1..(B - 1) THEN Err("InvalidNonceLength")
  ELSE OcbSealed(k, aad, pt, OcbCrypt(E, k, nonce, pt))
\* The nonce is not checked here: one of 16 bytes or more panics.
DecryptOcb(k, nonce, aad, ct, tag) ==
  IF Len(nonce) >= B THEN Err("panic")
  ELSE OcbOpened(k, aad, OcbCrypt(D, k, nonce, ct), tag)

-----------------------------------------------------------------------------
(* SIV: the MAC of everything is the counter.                              *)

\* Variant: the last 16 bytes are all that goes in.
S2vAbsorbTail(k, d, s) ==
  E(k, XorInto(d, IF Len(s) < B THEN s ELSE SubSeq(s, Len(s) - B + 1, Len(s))))

\* The last 16 bytes go in first, then the ones before them; what is
\* shorter than a block is XORed in as it is.
S2vAbsorb(k, d, s) ==
  LET Enc(x) == E(k, x)
  IN  IF Len(s) < B THEN Enc(XorInto(d, s))
      ELSE Absorb(Enc(Xor(d, SubSeq(s, Len(s) - B + 1, Len(s)))),
                  SubSeq(s, 1, Len(s) - B), Enc)
\* nonce is an option: a sequence of none or one.
ComputeS2v(k, nonce, aad, data) ==
  LET s == aad \o nonce
      d == Iterated(Len(s), E(k, ZeroBlock), LAMBDA i, x : S2vAbsorb(k, x, s[i]))[Len(s)]
  IN  S2vAbsorb(k, [d EXCEPT ![B] = SymDiff(@, Num(Len(data)))], data)

SivSealed(k2, pt, siv) == Sealed(CryptCtr(k2, siv, pt), siv)
EncryptSiv(k1, k2, nonce, aad, pt) == SivSealed(k2, pt, ComputeS2v(k1, nonce, aad, pt))
SivOpened(k1, nonce, aad, siv, pt) ==
  OpenedIf(ComputeS2v(k1, nonce, aad, pt) = siv, pt, "InvalidTag")
DecryptSiv(k1, k2, nonce, aad, ct, siv) ==
  SivOpened(k1, nonce, aad, siv, CryptCtr(k2, siv, ct))

-----------------------------------------------------------------------------
(* EAX: CTR under the MAC of the nonce, and the MACs of aad and ciphertext.*)

\* The last block goes in with one multiple of L = E(0) or, padded, with
\* another.  The tweak is computed by the caller and not used here.
OmacState(k, whole) ==
  Iterated(Len(whole), ZeroBlock, LAMBDA i, s : E(k, Xor(s, whole[i])))[Len(whole)]
OmacOf(k, k1, whole, tail) ==
  IF whole = <<>> /\ tail = <<>> THEN E(k, Gf128MulU(k1))
  ELSE IF tail = <<>> THEN E(k, Xor(OmacState(k, whole), k1))
  ELSE E(k, Xor(Xor(OmacState(k, whole), OnePadded(tail)), Gf128MulU(k1)))
Omac(k, tweak, data) ==
  OmacOf(k, Gf128MulU(E(k, ZeroBlock)), WholeBlocks(data), Tail16(data))

EaxTweak(k, n) == E(k, [ZeroBlock EXCEPT ![B] = Num(n)])
EaxTag(k, aad, ct) ==
  Xor(Omac(k, EaxTweak(k, 2), aad), Omac(k, EaxTweak(k, 0), ct))
EaxSealed(k, aad, ct) == Sealed(ct, EaxTag(k, aad, ct))
EncryptEax(k, nonce, aad, pt) ==
  EaxSealed(k, aad, CryptCtr(k, Omac(k, EaxTweak(k, 1), nonce), pt))
DecryptEax(k, nonce, aad, ct, tag) ==
  OpenedIf(EaxTag(k, aad, ct) = tag,
           CryptCtr(k, Omac(k, EaxTweak(k, 1), nonce), ct), "InvalidTag")
=============================================================================
