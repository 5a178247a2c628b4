------------------------------- MODULE Derive -------------------------------
(***************************************************************************)
(* Key derivation with SM3: HMAC at one go and in pieces (src/src/sm3/     *)
(* mod.rs), HKDF (sm3/hkdf.rs), PBKDF2 and the counter-mode KDF (kdf.rs).  *)
(*                                                                         *)
(* Bytes are those of Blocks, XOR included.  A hash context is the string  *)
(* it has been fed; a digest is known by that string and by nothing else.  *)
(***************************************************************************)
EXTENDS Padding

CONSTANTS
  HashBlock,   \* bytes of a block of the hash (src: 64)
  DigestLen,   \* bytes of a digest (src: 32)
  RoundMax,    \* largest value of HKDF's round counter (src: 255)
  InfoMax,     \* bytes of info that HKDF takes in (src: 255)
  SaltMax,     \* bytes of salt that PBKDF2 takes in (src: 64)
  IndexMax     \* largest block index of PBKDF2 (src: 2^32 - 1)

ASSUME DeriveAssumption ==
  /\ {HashBlock, RoundMax, InfoMax, SaltMax, IndexMax} \subseteq Nat \ {0}
  /\ DigestLen \in 1..HashBlock
  /\ RoundMax <= 255   \* the counter is a byte

Sm3(s) == Bytes(DigestLen, LAMBDA i : {<<"sm3", s, i>>})
CutTo(s, n) == SubSeq(s, 1, Min({Len(s), n}))

-----------------------------------------------------------------------------
(* HMAC.                                                                   *)

PaddedKey(key) ==
  LET short == IF Len(key) > HashBlock THEN Sm3(key) ELSE key
  IN  short \o Zeros(HashBlock - Len(short))
Masked(key, pad) == Bytes(HashBlock, LAMBDA i : SymDiff(PaddedKey(key)[i], Num(pad)))
IPad == 54
OPad == 92

HmacSm3(key, data) ==
  Sm3(Masked(key, OPad) \o Sm3(Masked(key, IPad) \o data))

\* HmacSm3::new(), update(), finalize()
HmacNew(key) == [inner |-> Masked(key, IPad), opad_key |-> Masked(key, OPad)]
HmacUpdate(mac, data) == [mac EXCEPT !.inner = @ \o data]
HmacFinalize(mac) == Sm3(mac.opad_key \o Sm3(mac.inner))
\* The provider's sign_concat(): one context takes all the pieces.
SignConcat(key, pieces) == HmacFinalize(FoldLeft(HmacUpdate, HmacNew(key), pieces))

-----------------------------------------------------------------------------
(* Output is made in rounds of one digest and cut to length.  Round(i, t)  *)
(* is what round i makes of the output t of the one before.                *)

Rounds(len) == (len + DigestLen - 1) \div DigestLen
InRounds(n, Round(_, _)) ==
  LET t[i \in 1..n] == Round(i, IF i = 1 THEN <<>> ELSE t[i - 1]) IN t

HkdfExtract(salt, ikm) == HmacSm3(IF salt = <<>> THEN Zeros(DigestLen) ELSE salt[1], ikm)
\* Variant: one round more, which the counter has no number for.
HkdfMaxLenOver == (RoundMax + 1) * DigestLen

HkdfMaxLen == RoundMax * DigestLen
HkdfExpand(prk, info, len) ==
  LET T(i, prev) == HmacSm3(prk, prev \o CutTo(info, InfoMax) \o <<Num(i)>>)
      rounds     == Rounds(len) % (RoundMax + 1)
  IN  IF len > HkdfMaxLen THEN Err("InvalidInputLength")
      ELSE Ok(CutTo(FlattenSeq(InRounds(rounds, T)), len))
Hkdf(salt, ikm, info, len) == HkdfExpand(HkdfExtract(salt, ikm), info, len)

\* The KDF's counter has four bytes and does not wrap within reach.
Counter(i) == <<{<<"ct", i>>}>>
KdfWithInfo(z, len, shared_info) ==
  CutTo(FlattenSeq(InRounds(Rounds(len), LAMBDA i, prev : Sm3(z \o Counter(i) \o shared_info))),
        len)

\* T: the XOR of U_1 to U_c
Pbkdf2Block(password, salt, iterations, i) ==
  LET U == InRounds(iterations, LAMBDA c, u :
             HmacSm3(password, IF c = 1 THEN CutTo(salt, SaltMax) \o Counter(i) ELSE u))
  IN  FoldLeft(Xor, U[1], Tail(U))
\* As built for release: where overflow is checked, the increment after block
\* IndexMax panics (kdf.rs:147).
Pbkdf2(password, salt, iterations, len) ==
  IF iterations = 0 THEN Err("InvalidInput")
  ELSE IF len > IndexMax * DigestLen THEN Err("InvalidInputLength")
  ELSE Ok(CutTo(FlattenSeq(InRounds(Rounds(len),
                  LAMBDA i, prev : Pbkdf2Block(password, salt, iterations, i))), len))
=============================================================================
