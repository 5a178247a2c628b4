----------------------------- MODULE Sm4Session -----------------------------
(***************************************************************************)
(* Callers of the SM4 modes under one key: messages are sealed, and what   *)
(* is handed to the opening call is what was sealed, a mixture of the      *)
(* parts of two messages, or a message with one part altered.              *)
(***************************************************************************)
EXTENDS Sm4Aead, Sm4Cipher, Fpe

CONSTANTS Calls,      \* [mode, par, nonce, aad, pt, text]: what may be sealed
          Follow,     \* the calls a second message may be sealed by
          Nonces(_),  \* the nonces a mode is offered
          Strings     \* what unpadding is offered

\* The lengths of messages are numbers, and unpadding is offered strings.
ASSUME OfferAssumption ==
  /\ \A c \in Calls \cup Follow : c.pt \in Nat
  /\ \A s \in Strings : s \in Seq(Range(s))

\* A string none of whose bytes the caller had from the inverse cipher.
Given(s) == s \in Seq(Range(s)) /\ \A x \in Range(s) : \A a \in x : a[1] # "D"

\* What the types of the calls say: nonces are byte strings, most of them
\* arrays of a fixed length; SIV takes slices of slices; the block cipher
\* takes four words and format-preserving encryption the whole buffer.
ASSUME CallAssumption ==
  \A c \in Calls \cup Follow :
    /\ c.mode \in {"ecb", "ecb_padded", "cbc", "cbc_padded", "ofb", "cfb", "ctr",
                   "xts", "wrap", "pad", "block", "fpe", "gcm", "gcm_combined",
                   "ccm", "ocb", "siv", "eax"}
    /\ c.text \in {"zero", "fresh", "same"}
    /\ c.mode \in {"cbc", "cbc_padded", "ofb", "cfb", "ctr", "xts"} =>
         Given(c.nonce) /\ Len(c.nonce) = B
    /\ c.mode \in {"gcm", "gcm_combined"} => Given(c.nonce) /\ Len(c.nonce) = B - 1
    /\ c.mode = "ccm" => Given(c.nonce) /\ Len(c.nonce) = B - 2 /\ c.aad \in Nat
    /\ c.mode \in {"ocb", "eax"} => Given(c.nonce)
    /\ c.mode = "siv" => /\ c.nonce \in Seq(Range(c.nonce)) /\ c.aad \in Seq(Nat)
                         /\ \A s \in Range(c.nonce) : Given(s)
    /\ c.mode = "block" => c.pt = 4
    /\ c.mode = "fpe" => c.pt = BufBits

\* A string of bytes that are none of the cipher's, and the last of them, if
\* there is one, a known number.
OcbNonce(s) ==
  /\ \A x \in Range(s) : \A a \in x : a[1] \notin {"E", "lin"}
  /\ s # <<>> => \E v \in 0..255 : s[Len(s)] = Num(v)

\* A first counter: its known bytes are values of a counter's byte.
CtrNonce(s) ==
  \A x \in Range(s) :
    /\ \A a \in x : a[1] # "inc"
    /\ IsNum(x) => \E v \in 0..(Radix - 1) : x = Num(v)

\* The offered nonces are of the types of the calls; key wrap takes neither
\* nonce nor aad.  Lengths and counts fit in the bytes of the model.  CTR is
\* used once under a key: how far the counters of two messages are apart is
\* up to the caller.
ASSUME LimitAssumption ==
  /\ \A c \in Calls \cup Follow :
       /\ c.mode \in {"gcm", "gcm_combined", "ccm"} =>
            c.aad \in Nat /\ c.aad + 1 < 256 /\ c.pt + B + 1 < 256
       /\ c.mode = "ccm" => c.par \in Nat
       /\ c.mode = "ocb" => c.aad \in Nat /\ OcbNonce(c.nonce)
       /\ c.mode = "ctr" => CtrNonce(c.nonce) /\ c \notin Follow
       /\ c.mode = "wrap" => /\ c.nonce = <<>> /\ c.aad = 0
                            /\ WrapRounds * (c.pt + 1) < 256
  /\ \A n \in Nonces("gcm") \cup Nonces("gcm_combined") : Given(n) /\ Len(n) = B - 1
  /\ \A n \in Nonces("ccm") : Given(n) /\ Len(n) = B - 2
  /\ \A n \in Nonces("ocb") : Given(n) /\ OcbNonce(n)
  /\ Nonces("wrap") \subseteq {<<>>}
  /\ 8 * B + 66 < 256 /\ LenRadix \in B..256

\* An initial vector is the caller's own: nothing in it came from the cipher
\* under the key of the message.
ASSUME IvAssumption ==
  \A c \in Calls \cup Follow :
    c.mode \in {"cbc", "ofb", "cfb"} =>
      \A x \in Range(c.nonce) : \A a \in x : ~ (a[1] = "E" /\ a[2] = "k")

VARIABLES sealed, offered, result
vars == <<sealed, offered, result>>

Aead == {"gcm", "gcm_combined", "ccm", "ocb", "siv", "eax"}
None == [none |-> TRUE]

\* The n bytes of a message: all unknown, all zero or all the same.
Text(kind, id, n) ==
  [i \in 1..n |-> CASE kind = "zero"  -> Zero
                    [] kind = "fresh" -> {<<"p", 64 * id + i>>}
                    [] kind = "same"  -> {<<"p", 64 * id>>}]
\* The same for the aad: SIV takes a sequence of strings, par their lengths.
AadText(mode, kind, id, len) ==
  IF mode # "siv" THEN Text(kind, 32 + id, len)
  ELSE [j \in 1..Len(len) |-> Text(kind, 32 + 8 * j + id, len[j])]

Message(c, id) ==
  [mode |-> c.mode, par |-> c.par, nonce |-> c.nonce,
   aad |-> AadText(c.mode, c.text, id, c.aad), pt |-> Text(c.text, id, c.pt)]

Envelope(m, ct, tag) == [mode |-> m.mode, par |-> m.par, nonce |-> m.nonce,
                         aad |-> m.aad, ct |-> ct, tag |-> tag]

-----------------------------------------------------------------------------
(* Which function of the library seals a message and opens an envelope.    *)
(* m and o are records with the mode, its parameter par (tag length, width *)
(* or kind of padding), nonce and aad, and pt or ct and tag.               *)

RoundKeys == ExpandKey([i \in 1..4 |-> {<<"mk", i>>}])

Plain(r) == IF r.ok THEN Sealed(r.val, <<>>) ELSE r
SealCall(m) ==
  LET key  == "k"
      key2 == "k2"
  IN  CASE m.mode = "ecb" -> Plain(EncryptEcb(key, m.pt))
        [] m.mode = "ecb_padded" ->
             Plain(EncryptPadded(LAMBDA d : EncryptEcb(key, d), m.pt, "pkcs7"))
        [] m.mode = "cbc" -> Plain(EncryptCbc(key, m.nonce, m.pt))
        [] m.mode = "cbc_padded" ->
             Plain(EncryptPadded(LAMBDA d : EncryptCbc(key, m.nonce, d), m.pt, "pkcs7"))
        [] m.mode = "ofb" -> Sealed(CryptOfb(key, m.nonce, m.pt), <<>>)
        [] m.mode = "cfb" -> Sealed(EncryptCfb(key, m.nonce, m.pt), <<>>)
        [] m.mode = "ctr" -> Sealed(CryptCtr(key, m.nonce, m.pt), <<>>)
        [] m.mode = "xts" -> Plain(EncryptXts(key, key2, m.nonce, m.pt))
        [] m.mode = "wrap" -> Plain(KeyWrap(key, m.pt))
        [] m.mode = "pad" -> Plain(Pad(m.pt, m.par))
        [] m.mode = "block" -> Sealed(EncryptRounds(m.pt, RoundKeys), <<>>)
        [] m.mode = "fpe" -> IF FpeNew(m.par)
                             THEN Sealed(FpeEncrypt(key, m.nonce, m.pt, m.par), <<>>)
                             ELSE Err("InvalidInputLength")
        [] m.mode = "gcm" -> EncryptGcm(key, m.nonce, m.aad, m.pt)
        [] m.mode = "gcm_combined" -> EncryptGcmCombined(key, m.nonce, m.aad, m.pt)
        [] m.mode = "ccm" -> EncryptCcm(key, m.nonce, m.aad, m.pt, m.par)
        [] m.mode = "ocb" -> EncryptOcb(key, m.nonce, m.aad, m.pt)
        [] m.mode = "siv" -> EncryptSiv(key, key2, m.nonce, m.aad, m.pt)
        [] m.mode = "eax" -> EncryptEax(key, m.nonce, m.aad, m.pt)
OpenCall(o) ==
  LET key  == "k"
      key2 == "k2"
  IN  CASE o.mode = "ecb" -> DecryptEcb(key, o.ct)
        [] o.mode = "ecb_padded" -> DecryptPadded(DecryptEcb(key, o.ct), "pkcs7")
        [] o.mode = "cbc" -> DecryptCbc(key, o.nonce, o.ct)
        [] o.mode = "cbc_padded" ->
             DecryptPadded(DecryptCbc(key, o.nonce, o.ct), "pkcs7")
        [] o.mode = "ofb" -> Ok(CryptOfb(key, o.nonce, o.ct))
        [] o.mode = "cfb" -> Ok(DecryptCfb(key, o.nonce, o.ct))
        [] o.mode = "ctr" -> Ok(CryptCtr(key, o.nonce, o.ct))
        [] o.mode = "xts" -> DecryptXts(key, key2, o.nonce, o.ct)
        [] o.mode = "wrap" -> KeyUnwrap(key, o.ct)
        [] o.mode = "pad" -> Unpad(o.ct, o.par)
        [] o.mode = "block" -> Ok(DecryptRounds(o.ct, RoundKeys))
        [] o.mode = "fpe" -> Ok(FpeDecrypt(key, o.nonce, o.ct, o.par))
        [] o.mode = "gcm" -> DecryptGcm(key, o.nonce, o.aad, o.ct, o.tag)
        [] o.mode = "gcm_combined" ->
             DecryptGcmCombined(key, o.nonce, o.aad, o.ct)
        [] o.mode = "ccm" -> DecryptCcm(key, o.nonce, o.aad, o.ct, o.par)
        [] o.mode = "ocb" -> DecryptOcb(key, o.nonce, o.aad, o.ct, o.tag)
        [] o.mode = "siv" -> DecryptSiv(key, key2, o.nonce, o.aad, o.ct, o.tag)
        [] o.mode = "eax" -> DecryptEax(key, o.nonce, o.aad, o.ct, o.tag)

-----------------------------------------------------------------------------
(* What reaches the opening call.                                          *)

X == {<<"x", 0>>}
Flipped(s) == {[s EXCEPT ![i] = SymDiff(@, X)] : i \in DOMAIN s}
Resized(s) == {Append(s, Zero), Append(s, X)}
                \cup (IF s = <<>> THEN {} ELSE {Front(s)})
AlteredAad(mode, aad) ==
  CASE mode = "wrap" -> {}
    [] mode \in Aead \ {"siv"} -> Flipped(aad) \cup Resized(aad)
    [] mode = "siv" ->
         (UNION {{[aad EXCEPT ![j] = s] : s \in Flipped(aad[j]) \cup Resized(aad[j])}
                   : j \in DOMAIN aad})
         \cup {Append(aad, <<>>), Append(aad, <<X>>)}
         \cup (IF aad = <<>> THEN {} ELSE {Front(aad)})

Envelopes == {sealed[i].env : i \in DOMAIN sealed}
Mixture(e, f, g, h) == [e EXCEPT !.nonce = f.nonce, !.aad = g.aad, !.tag = h.tag]
Mixed == {Mixture(e, f, g, h) : e, f, g, h \in Envelopes}
AlteredOne(e) ==
  {[e EXCEPT !.nonce = n] : n \in Nonces(e.mode)}
    \cup {[e EXCEPT !.aad = a] : a \in AlteredAad(e.mode, e.aad)}
    \cup {[e EXCEPT !.ct = c] : c \in Flipped(e.ct) \cup Resized(e.ct)}
    \cup {[e EXCEPT !.tag = t] : t \in Flipped(e.tag)}
\* Aad and ciphertext in each other's place.
Exchange(e) == [e EXCEPT !.aad = e.ct, !.ct = e.aad]
Exchanged == {Exchange(e) : e \in {f \in Envelopes : f.mode = "eax"}}
MixedOrAltered == Mixed \cup UNION {AlteredOne(e) : e \in Envelopes}
Offers ==
  CASE sealed[1].env.mode \in Aead \cup {"wrap"} -> MixedOrAltered \cup Exchanged
    [] sealed[1].env.mode = "pad" ->
         Envelopes \cup {[e EXCEPT !.ct = s] : e \in Envelopes, s \in Strings}
    [] OTHER -> Envelopes

-----------------------------------------------------------------------------
Init == sealed = <<>> /\ offered = None /\ result = None

Keep(c, m, s) ==
  /\ IF s.ok
     THEN /\ sealed' = Append(sealed, [call |-> c, pt |-> m.pt,
                                       env |-> Envelope(m, s.ct, s.tag)])
          /\ result' = None
     ELSE /\ result' = s
          /\ UNCHANGED sealed
  /\ UNCHANGED offered
Seal(c) ==
  LET m == Message(c, Len(sealed) + 1) IN Keep(c, m, SealCall(m))

SealFirst ==
  /\ sealed = <<>> /\ result = None
  /\ \E c \in Calls : Seal(c)
\* A nonce is used once under a key (the caller's duty: modes.rs:922).
SealSecond ==
  /\ Len(sealed) = 1 /\ offered = None
  /\ sealed[1].call \in Follow
  /\ \E c \in Follow :
       /\ c.mode = sealed[1].env.mode /\ c.par = sealed[1].env.par
       /\ c.nonce # sealed[1].env.nonce \/ c.mode = "wrap"
       /\ Seal(c)
Open ==
  /\ sealed # <<>> /\ offered = None
  /\ \E o \in Offers : offered' = o /\ result' = OpenCall(o)
  /\ UNCHANGED sealed

Next == SealFirst \/ SealSecond \/ Open
Spec == Init /\ [][Next]_vars

-----------------------------------------------------------------------------
Returned == offered # None /\ result.ok

\* What a mode sealed, its opening call gives back, whatever the lengths of
\* the message and of its aad (every pair of calls of modes.rs, padding.rs,
\* the block cipher's rounds and the Feistel rounds of fpe/fnr.rs).
RoundTrip ==
  \A i \in DOMAIN sealed :
    offered = sealed[i].env => result = Ok(sealed[i].pt)

\* Nothing but what was sealed is opened: no other nonce, aad, ciphertext
\* or tag, neither altered nor taken from another message, and the
\* plaintext is the one sealed (the tag comparisons of sm4_decrypt_gcm,
\* _ccm and _ocb, the integrity value of sm4_key_unwrap).
Authentic ==
  Returned /\ offered.mode \in {"gcm", "gcm_combined", "ccm", "ocb", "wrap"} =>
    \E i \in DOMAIN sealed :
      sealed[i].env = offered /\ result.val = sealed[i].pt

\* SIV and EAX bind less: SIV the message and, among strings of the same
\* lengths, aad and nonce (compute_s2v pads no string); EAX the tag and what
\* aad and ciphertext are together, not which is which, nor the nonce: omac
\* is called with a key for each part and uses none (EaxBinds is about that).
PartlyBound ==
  /\ Returned /\ offered.mode = "siv" =>
       \E i \in DOMAIN sealed :
         LET e       == sealed[i].env
             Lens(s) == [j \in DOMAIN s |-> Len(s[j])]
             x       == e.aad \o e.nonce
             y       == offered.aad \o offered.nonce
         IN  /\ e.ct = offered.ct /\ e.tag = offered.tag
             /\ result.val = sealed[i].pt
             /\ Lens(x) = Lens(y) => x = y
  /\ Returned /\ offered.mode = "eax" =>
       \E i \in DOMAIN sealed :
         LET e == sealed[i].env
         IN  e.tag = offered.tag /\ {e.aad, e.ct} = {offered.aad, offered.ct}

\* EAX is documented as an authenticated mode after the paper of Bellare et
\* al. (modes.rs:1523): what it opens was sealed under that nonce, its aad as
\* aad and its ciphertext as ciphertext.
EaxBinds ==
  Returned /\ offered.mode = "eax" =>
    \E i \in DOMAIN sealed : sealed[i].env = offered

\* Under one key GCM and CCM encipher no block twice, for the hash key, the
\* tag masks, the MAC's first block and the key stream of all messages, nor
\* does CTR in a message, while these are shorter than the counter's range
\* (gcm_ctr_inc, the 24-bit counter of CCM and ctr_inc; the code does not
\* bound the length).
CipherInputs(s) ==
  CASE s.env.mode \in {"gcm", "gcm_combined"} ->
         <<GcmJ0(s.env.nonce)>> \o GcmCounters(s.env.nonce, s.pt)
    [] s.env.mode = "ccm" ->
         <<CcmA(s.env.nonce, 0)>> \o CcmCounters(s.env.nonce, s.pt)
           \o <<<<CcmFlags(s.env.aad # <<>>, s.env.par)>> \o s.env.nonce
                  \o <<Num(Len(s.pt) % LenRadix)>>>>
    [] s.env.mode = "ctr" -> Counters(CtrInc, s.env.nonce, Len(Chunks(s.pt)))
    [] OTHER -> <<>>
\* As many counters as B bytes have values.
CounterRange == Iterated(B, 1, LAMBDA i, n : Radix * n)[B]
WithinLimit(s) ==
  CASE s.env.mode \in {"gcm", "gcm_combined"} -> Len(Chunks(s.pt)) <= Radix - 2
    [] s.env.mode = "ccm" -> Len(Chunks(s.pt)) < LenRadix
    [] s.env.mode = "ctr" -> Len(Chunks(s.pt)) <= CounterRange
    [] OTHER -> TRUE
KeyStreamOnce ==
  (\A i \in DOMAIN sealed : WithinLimit(sealed[i])) =>
    IsInjective((IF \E i \in DOMAIN sealed :
                      sealed[i].env.mode \in {"gcm", "gcm_combined"}
                 THEN <<ZeroBlock>> ELSE <<>>)
                \o FlattenSeq([i \in DOMAIN sealed |-> CipherInputs(sealed[i])]))

\* Every mode but ECB makes different blocks of equal ones, at whatever
\* place (the chaining, counters, tweaks and offsets of modes.rs).
BlocksDiffer ==
  \A i \in DOMAIN sealed :
    sealed[i].env.mode \in Aead \cup {"cbc", "ofb", "cfb", "ctr", "xts"}
      /\ WithinLimit(sealed[i])
      => IsInjective(WholeBlocks(SubSeq(sealed[i].env.ct, 1, Len(sealed[i].pt))))

\* Unpadding accepts exactly what padding makes, among the strings of whole
\* blocks that the modes hand to it (pkcs7_unpad, no_padding_unpad).
UnpadExact ==
  Returned /\ offered.mode = "pad" /\ Len(offered.ct) % B = 0 =>
    Pad(result.val, offered.par) = Ok(offered.ct)
=============================================================================
