-------------------------------- MODULE Der --------------------------------
(***************************************************************************)
(* DER by hand (sm2/der.rs): signatures, lengths, tags, private keys; and  *)
(* the signer and the verifier of the rustls provider that use it          *)
(* (rustls_provider/sign.rs). A string is a sequence of bytes. The bytes   *)
(* of a number are digits of base Radix; tags and lengths are not scaled.  *)
(***************************************************************************)
EXTENDS KeyExchange, SequencesExt, FiniteSetsExt

CONSTANTS Radix,    \* values of a byte of a number (src: 256)
          Size,     \* bytes of a number (src: 32)
          AlgId     \* the AlgorithmIdentifier of SM2, a string
ASSUME DerAssumption == Radix \in Nat /\ Size \in Nat /\ Radix^Size = 2^W

Nul(n) == [i \in 1..n |-> 0]
Digits(v) == [i \in 1..Size |-> (v \div Radix^(Size - i)) % Radix]
Number(s) == FoldLeft(LAMBDA n, b : n * Radix + b, 0, s)
From(s, i) == SubSeq(s, i, Len(s))

-----------------------------------------------------------------------------
(* Signatures: raw is r and s in Size bytes each.                          *)

\* Without leading zeros, but for the last one.
StripLeadingZero(s) ==
  From(s, Min({i \in DOMAIN s : s[i] # 0} \cup {Max({1, Len(s)})}))

\* Variant: no zero before a byte with its high bit set.
EncodeInteger32Unpadded(s) ==
  <<2, Len(StripLeadingZero(s))>> \o StripLeadingZero(s)

EncodeInteger32(s) ==
  LET v == StripLeadingZero(s)
      p == IF v[1] >= Radix \div 2 THEN <<0>> ELSE <<>>
  IN  <<2, Len(p \o v)>> \o p \o v
SigToDer(raw) ==
  LET inner == EncodeInteger32(SubSeq(raw, 1, Size)) \o EncodeInteger32(From(raw, Size + 1))
  IN  <<48, Len(inner)>> \o inner

\* The value and the rest of a string that starts with tag and one-byte length.
ShortTlv(s, tag) ==
  IF Len(s) < 2 \/ s[1] # tag \/ Len(s) < 2 + s[2] THEN Err("none")
  ELSE Ok(<<SubSeq(s, 3, 2 + s[2]), From(s, 3 + s[2])>>)
DecodeInteger32(s) == ShortTlv(s, 2)
\* An integer's bytes, right-aligned.
Aligned(v) ==
  LET t == StripLeadingZero(v)
  IN  IF Len(v) \notin 1..(Size + 1) \/ Len(t) > Size THEN Err("InvalidSignature")
      ELSE Ok(Nul(Size - Len(t)) \o t)
SigFromDer(der) ==
  LET seq == ShortTlv(der, 48)
      r   == DecodeInteger32(seq.val[1])
      s   == DecodeInteger32(r.val[2])
  IN  IF ~seq.ok THEN Err("InvalidSignature")
      ELSE IF ~r.ok THEN Err("InvalidSignature")
      ELSE IF ~s.ok THEN Err("InvalidSignature")
      ELSE IF s.val[2] # <<>> THEN Err("InvalidSignature")
      ELSE IF ~Aligned(r.val[1]).ok \/ ~Aligned(s.val[1]).ok THEN Err("InvalidSignature")
      ELSE Ok(Aligned(r.val[1]).val \o Aligned(s.val[1]).val)

-----------------------------------------------------------------------------
(* Lengths and tags.                                                       *)

BigEndian(n, k) == [i \in 1..k |-> (n \div 256^(k - i)) % 256]
EncodeLength(n) ==
  LET k == CHOOSE k \in 1..4 : n \div 256^(k - 1) \in 1..255
  IN  IF n < 128 THEN <<n>> ELSE <<128 + k>> \o BigEndian(n, k)

\* wrap_sequence() and wrap_set(): from 65536 on the length is cut.
WrapLength(n) ==
  IF n < 128 THEN <<n>>
  ELSE IF n < 256 THEN <<129, n>>
  ELSE <<130, (n \div 256) % 256, n % 256>>
WrapSequence(s) == <<48>> \o WrapLength(Len(s)) \o s
WrapSet(s) == <<49>> \o WrapLength(Len(s)) \o s
WrapExplicitTag(tag, s) == <<160 + tag>> \o EncodeLength(Len(s)) \o s
WrapImplicitTag(tag, s) == <<128 + tag>> \o EncodeLength(Len(s)) \o s

\* The length and how many bytes it takes.
ParseLength(s) ==
  LET k == s[1] - 128
  IN  IF s = <<>> THEN Err("none")
      ELSE IF k < 0 THEN Ok(<<s[1], 1>>)
      ELSE IF k \notin 1..3 \/ Len(s) < 1 + k THEN Err("none")
      ELSE Ok(<<FoldLeft(LAMBDA n, b : 256 * n + b, 0, SubSeq(s, 2, 1 + k)), 1 + k>>)

ParseTlv(s, tag) ==
  LET len == ParseLength(Tail(s))
      at  == 2 + len.val[2]
  IN  IF s = <<>> \/ s[1] # tag THEN Err("none")
      ELSE IF ~len.ok THEN len
      ELSE IF Len(s) < at - 1 + len.val[1] THEN Err("none")
      ELSE Ok(<<SubSeq(s, at, at - 1 + len.val[1]), From(s, at + len.val[1])>>)
ParseTlvAnyFull(s) ==
  LET len == ParseLength(Tail(s))
      all == 1 + len.val[2] + len.val[1]
  IN  IF s = <<>> THEN Err("none")
      ELSE IF ~len.ok THEN len
      ELSE IF Len(s) < all THEN Err("none")
      ELSE Ok(<<SubSeq(s, 1, all), From(s, all + 1)>>)

-----------------------------------------------------------------------------
(* Private keys.                                                           *)

PrivateKeyToSec1Der(d) == <<48, 5 + Size, 2, 1, 1, 4, Size>> \o Digits(d)
PrivateKeyToPkcs8Der(d) ==
  LET sec1  == PrivateKeyToSec1Der(d)
      inner == <<2, 1, 0>> \o AlgId \o <<4, Len(sec1)>> \o sec1
  IN  <<48, Len(inner)>> \o inner

\* The sequence's version has to be the one given; what comes after it.
AfterVersion(der, version) ==
  LET seq == ParseTlv(der, 48)
      ver == ParseTlv(seq.val[1], 2)
  IN  IF ~seq.ok THEN seq
      ELSE IF ~ver.ok \/ ver.val[1] # <<version>> THEN Err("none")
      ELSE Ok(ver.val[2])

KeyOfOctets(s) ==
  IF Len(s) # Size THEN Err("InvalidPrivateKey") ELSE PrivateKeyFromBytes(Number(s))
PrivateKeyFromSec1Der(der) ==
  LET rest == AfterVersion(der, 1)
      key  == ParseTlv(rest.val, 4)
  IN  IF ~rest.ok THEN Err("InvalidPrivateKey")
      ELSE IF ~key.ok THEN Err("InvalidPrivateKey")
      ELSE KeyOfOctets(key.val[1])
PrivateKeyFromPkcs8Der(der) ==
  LET rest == AfterVersion(der, 0)
      alg  == ParseTlv(rest.val, 48)
      sec1 == ParseTlv(alg.val[2], 4)
  IN  IF ~rest.ok THEN Err("InvalidPrivateKey")
      ELSE IF ~alg.ok THEN Err("InvalidPrivateKey")
      ELSE IF ~sec1.ok THEN Err("InvalidPrivateKey")
      ELSE PrivateKeyFromSec1Der(sec1.val[1])

-----------------------------------------------------------------------------
(* The provider. A message is signed and verified under the default ID.    *)

DEFAULT_ID == 1
LoadPrivateKey(kind, der) ==
  CASE kind = "sec1"  -> PrivateKeyFromSec1Der(der)
    [] kind = "pkcs8" -> PrivateKeyFromPkcs8Der(der)
    [] OTHER          -> Err("unsupported")

\* Sm2Signer::sign() for one nonce
TlsSign(msg, d, k) ==
  LET sig == SignMessage(msg, DEFAULT_ID, d, k)
  IN  IF sig.ok THEN Ok(SigToDer(Digits(sig.val[1]) \o Digits(sig.val[2]))) ELSE sig

VerifyRaw(pub, msg, raw) ==
  VerifyMessage(msg, DEFAULT_ID, pub,
                <<Number(SubSeq(raw, 1, Size)), Number(From(raw, Size + 1))>>)
\* Sm2Sm3Algorithm::verify_signature(): a key and a signature of the raw sizes
VerifySignature(pub, msg, sig) ==
  IF Len(pub) # 3 \/ Len(sig) # 2 * Size THEN Err("InvalidSignature")
  ELSE VerifyRaw(pub, msg, sig)
=============================================================================
