---------------------------- MODULE Sm4ModesProofs ----------------------------
(***************************************************************************)
(* Proofs about sessions with the modes of SM4, for blocks of every size,  *)
(* strings of every length and a cipher of which nothing is known but that *)
(* it has an inverse: what padding makes is what unpadding accepts,        *)
(* whatever a session seals opens again, and what the tags of GCM and OCB, *)
(* the MAC of CCM and key wrap tell of what went into them.                *)
(***************************************************************************)
EXTENDS Sm4Session, PrimitiveProofs

-----------------------------------------------------------------------------
(* What reaches the opening call of unpadding is a string.                 *)

IsEnvelope(e) ==
  e = [mode |-> e.mode, par |-> e.par, nonce |-> e.nonce,
       aad |-> e.aad, ct |-> e.ct, tag |-> e.tag]
Opened(e) == e.mode = "pad" => IsString(e.ct)

LEMMA MixedParts ==
  ASSUME NEW e, IsEnvelope(e), NEW f, NEW g, NEW h
  PROVE  Mixture(e, f, g, h).mode = e.mode
BY DEF IsEnvelope, Mixture

LEMMA ExchangeMode ==
  ASSUME NEW e, IsEnvelope(e)
  PROVE  Exchange(e).mode = e.mode
BY DEF IsEnvelope, Exchange

LEMMA AlteredMode ==
  ASSUME NEW e, IsEnvelope(e), NEW o \in AlteredOne(e)
  PROVE  o.mode = e.mode
<1>1. CASE o \in {[e EXCEPT !.nonce = n] : n \in Nonces(e.mode)}
  BY <1>1 DEF IsEnvelope
<1>2. CASE o \in {[e EXCEPT !.aad = a] : a \in AlteredAad(e.mode, e.aad)}
  BY <1>2 DEF IsEnvelope
<1>3. CASE o \in {[e EXCEPT !.ct = c] : c \in Flipped(e.ct) \cup Resized(e.ct)}
  BY <1>3 DEF IsEnvelope
<1>4. CASE o \in {[e EXCEPT !.tag = t] : t \in Flipped(e.tag)}
  BY <1>4 DEF IsEnvelope
<1> QED
  BY <1>1, <1>2, <1>3, <1>4 DEF AlteredOne

(* All messages are of the mode of the first, padded ones are strings, and *)
(* so is what the opening call of unpadding is given; its result is of it. *)
SealedIs ==
  /\ sealed = [i \in 1..Len(sealed) |-> sealed[i]] /\ Len(sealed) \in Nat
  /\ \A i \in 1..Len(sealed) : /\ IsEnvelope(sealed[i].env) /\ Opened(sealed[i].env)
                               /\ sealed[i].env.mode = sealed[1].env.mode
OfferedIs ==
  offered # None => sealed # << >> /\ Opened(offered) /\ result = OpenCall(offered)
SessionInv == SealedIs /\ OfferedIs

LEMMA OffersStay ==
  ASSUME sealed' = sealed
  PROVE  Offers' = Offers
<1>1. Envelopes' = Envelopes
  BY DEF Envelopes
<1>2. Exchanged' = Exchanged
  BY <1>1 DEF Exchanged
<1>3. MixedOrAltered' = MixedOrAltered
  BY <1>1 DEF MixedOrAltered, Mixed
<1> QED
  BY <1>1, <1>2, <1>3 DEF Offers

LEMMA OffersOpened ==
  ASSUME SealedIs, sealed # << >>, NEW o \in Offers
  PROVE  Opened(o)
<1>1. DOMAIN sealed = 1..Len(sealed)
  BY DEF SealedIs
<1>2. \A e \in Envelopes : IsEnvelope(e) /\ Opened(e) /\ e.mode = sealed[1].env.mode
  BY <1>1 DEF SealedIs, Envelopes
<1>3. CASE sealed[1].env.mode \in Aead \cup {"wrap"}
  <2>1. o \in MixedOrAltered \cup Exchanged
    BY <1>3 DEF Offers, Aead
  <2>2. o.mode = sealed[1].env.mode
    <3>0. CASE o \in Exchanged
      <4>1. PICK e \in Envelopes : o = Exchange(e)
        BY <3>0 DEF Exchanged
      <4> QED
        BY <1>2, <4>1, ExchangeMode
    <3>1. CASE o \in Mixed
      <4>1. PICK e, f, g, h \in Envelopes : o = Mixture(e, f, g, h)
        BY <3>1 DEF Mixed
      <4> QED
        BY <1>2, <4>1, MixedParts
    <3>2. CASE o \notin Mixed /\ o \notin Exchanged
      <4>1. PICK e \in Envelopes : o \in AlteredOne(e)
        BY <2>1, <3>2 DEF MixedOrAltered
      <4> QED
        BY <1>2, <4>1, AlteredMode
    <3> QED
      BY <3>0, <3>1, <3>2
  <2> QED
    BY <1>3, <2>2 DEF Opened, Aead
<1>4. CASE sealed[1].env.mode = "pad"
  <2>1. o \in Envelopes \cup {[e EXCEPT !.ct = s] : e \in Envelopes, s \in Strings}
    BY <1>4 DEF Offers, Aead
  <2>2. CASE o \in Envelopes
    BY <1>2, <2>2
  <2>3. CASE o \notin Envelopes
    <3>1. PICK e \in Envelopes, s \in Strings : o = [e EXCEPT !.ct = s]
      BY <2>1, <2>3
    <3>2. o.ct = s
      BY <1>2, <3>1 DEF IsEnvelope
    <3> QED
      BY <3>2, OfferAssumption DEF Opened, IsString
  <2> QED
    BY <2>2, <2>3
<1>5. CASE sealed[1].env.mode \notin Aead \cup {"wrap", "pad"}
  <2>1. o \in Envelopes
    BY <1>5 DEF Offers
  <2> QED
    BY <1>2, <2>1
<1> QED
  BY <1>3, <1>4, <1>5

LEMMA TextIs ==
  ASSUME NEW kind, NEW id, NEW n \in Nat
  PROVE  IsString(Text(kind, id, n))
<1> DEFINE t == Text(kind, id, n)
<1>1. t = [i \in 1..n |-> t[i]]
  <2> DEFINE at(i) == CASE kind = "zero"  -> Zero
                        [] kind = "fresh" -> {<<"p", 64 * id + i>>}
                        [] kind = "same"  -> {<<"p", 64 * id>>}
  <2>1. t = [i \in 1..n |-> at(i)]
    BY Zenon DEF Text
  <2> HIDE DEF t, at
  <2> QED
    BY <2>1
<1> HIDE DEF t
<1>2. IsString(t)
  BY <1>1, MadeString
<1> QED
  BY <1>2 DEF t

LEMMA SealOpened ==
  ASSUME NEW c, c.pt \in Nat, NEW id, SealCall(Message(c, id)).ok
  PROVE  LET m == Message(c, id)
             s == SealCall(m)
             e == Envelope(m, s.ct, s.tag)
         IN  IsEnvelope(e) /\ Opened(e) /\ e.mode = c.mode
<1> DEFINE m == Message(c, id)
           s == SealCall(m)
           e == Envelope(m, s.ct, s.tag)
<1>1. IsEnvelope(e) /\ e.mode = m.mode /\ e.ct = s.ct
  BY DEF IsEnvelope, Envelope
<1>2. m.mode = c.mode /\ m.pt = Text(c.text, id, c.pt)
  BY DEF Message
<1>3. ASSUME m.mode = "pad" PROVE IsString(s.ct)
  <2> DEFINE r == Pad(m.pt, m.par)
  <2>1. s = Plain(r)
    BY <1>3 DEF SealCall
  <2> HIDE DEF m
  <2>2. r.ok /\ s.ct = r.val
    <3> HIDE DEF r
    <3>1. CASE r.ok
      BY <2>1, <3>1 DEF Plain, Sealed
    <3>2. CASE ~r.ok
      <4>1. s = r
        BY <2>1, <3>2 DEF Plain
      <4>2. s.ok
        BY DEF m
      <4> QED
        BY <3>2, <4>1, <4>2
    <3> QED
      BY <3>1, <3>2
  <2>3. IsString(m.pt)
    BY <1>2, TextIs
  <2> QED
    BY <2>2, <2>3, PadString
<1> QED
  BY <1>1, <1>2, <1>3 DEF Opened

LEMMA SealHolds ==
  ASSUME SessionInv, NEW c \in Calls \cup Follow, Seal(c), offered = None,
         sealed # << >> => c.mode = sealed[1].env.mode
  PROVE  SessionInv'
<1> DEFINE m == Message(c, Len(sealed) + 1)
           s == SealCall(m)
           e == [call |-> c, pt |-> m.pt, env |-> Envelope(m, s.ct, s.tag)]
<1>0. Keep(c, m, s)
  BY DEF Seal
<1>1. offered' = None
  BY <1>0 DEF Keep
<1>2. CASE ~s.ok
  <2>1. sealed' = sealed
    BY <1>0, <1>2 DEF Keep
  <2> QED
    BY <1>1, <2>1 DEF SessionInv, SealedIs, OfferedIs
<1>3. CASE s.ok
  <2>1. sealed' = Append(sealed, e)
    BY <1>0, <1>3 DEF Keep
  <2>2. IsEnvelope(e.env) /\ Opened(e.env) /\ e.env.mode = c.mode
    BY <1>3, SealOpened, OfferAssumption
  <2> HIDE DEF e
  <2> DEFINE n == Len(sealed)
             t == sealed'
  <2>3. IsString(sealed) /\ n \in Nat
    BY MadeString DEF SessionInv, SealedIs
  <2>4. t = [i \in 1..(n + 1) |-> t[i]] /\ (\A i \in 1..n : t[i] = sealed[i]) /\ t[n + 1] = e
    BY <2>1, <2>3, AppendMakes
  <2>5. IsString(t) /\ Len(t) = n + 1
    BY <2>3, <2>4, MadeString
  <2>6. \A i \in 1..n : /\ IsEnvelope(sealed[i].env) /\ Opened(sealed[i].env)
                        /\ sealed[i].env.mode = sealed[1].env.mode
    BY DEF SessionInv, SealedIs
  <2>7. t[1].env.mode = c.mode
    <3>1. CASE n = 0
      BY <2>2, <2>4, <3>1
    <3>2. CASE n # 0
      <4>1. 1 \in 1..n /\ sealed # << >>
        BY <2>3, <3>2, Empty
      <4> QED
        BY <2>4, <4>1
    <3> QED
      BY <3>1, <3>2
  <2>8. ASSUME NEW i \in 1..(n + 1)
        PROVE  IsEnvelope(t[i].env) /\ Opened(t[i].env) /\ t[i].env.mode = t[1].env.mode
    <3>1. CASE i = n + 1
      BY <2>2, <2>4, <2>7, <3>1
    <3>2. CASE i # n + 1
      <4>1. i \in 1..n /\ 1 \in 1..n
        BY <2>3, <3>2
      <4> QED
        BY <2>4, <2>6, <4>1
    <3> QED
      BY <3>1, <3>2
  <2>9. SealedIs'
    BY <2>3, <2>4, <2>5, <2>8 DEF SealedIs
  <2> QED
    BY <1>1, <2>9 DEF SessionInv, OfferedIs
<1> QED
  BY <1>2, <1>3

LEMMA OpenHolds ==
  ASSUME SessionInv, Open
  PROVE  SessionInv'
<1>1. sealed # << >> /\ sealed' = sealed
  BY DEF Open
<1>2. PICK o \in Offers : offered' = o /\ result' = OpenCall(o)
  BY DEF Open
<1>3. Opened(o)
  BY <1>1, OffersOpened DEF SessionInv
<1> QED
  BY <1>1, <1>2, <1>3 DEF SessionInv, SealedIs, OfferedIs

LEMMA SessionHolds ==
  Spec => []SessionInv
<1>1. Init => SessionInv
  <2>1. << >> = [i \in 1..0 |-> << >>[i]] /\ Len(<< >>) = 0 /\ 1..0 = {}
    OBVIOUS
  <2> QED
    BY <2>1 DEF Init, SessionInv, SealedIs, OfferedIs
<1>2. SessionInv /\ [Next]_vars => SessionInv'
  <2> SUFFICES ASSUME SessionInv, [Next]_vars PROVE SessionInv'
    OBVIOUS
  <2>1. CASE SealFirst
    <3>1. PICK c \in Calls : Seal(c)
      BY <2>1 DEF SealFirst
    <3>2. sealed = << >> /\ offered = None
      BY <2>1 DEF SealFirst, SessionInv, OfferedIs
    <3> QED
      BY <3>1, <3>2, SealHolds
  <2>2. CASE SealSecond
    BY <2>2, SealHolds DEF SealSecond
  <2>3. CASE Open
    BY <2>3, OpenHolds
  <2>4. CASE UNCHANGED vars
    BY <2>4 DEF vars, SessionInv, SealedIs, OfferedIs
  <2> QED
    BY <2>1, <2>2, <2>3, <2>4 DEF Next
<1> QED
  BY <1>1, <1>2, PTL DEF Spec

(* Unpadding accepts exactly what padding makes, among the strings of      *)
(* whole blocks the modes hand to it (pkcs7_unpad, no_padding_unpad), for  *)
(* blocks of every size and strings of every length.                       *)
THEOREM UnpaddingIsExact ==
  Spec => []UnpadExact
<1>1. SessionInv => UnpadExact
  <2> SUFFICES ASSUME SessionInv, offered # None, result.ok, offered.mode = "pad",
                      Len(offered.ct) % B = 0
               PROVE  Pad(result.val, offered.par) = Ok(offered.ct)
    BY DEF UnpadExact, Returned
  <2>1. IsString(offered.ct) /\ result = OpenCall(offered)
    BY DEF SessionInv, OfferedIs, Opened
  <2>2. result = Unpad(offered.ct, offered.par)
    BY <2>1 DEF OpenCall
  <2> QED
    BY <2>1, <2>2, UnpadIs
<1> QED
  BY <1>1, SessionHolds, PTL

-----------------------------------------------------------------------------
(* Whatever a call seals, the opening call of its mode gives back.         *)

EvenWidths == \A c \in Calls \cup Follow : c.mode = "fpe" => c.par = 1 \/ c.par % 2 = 0

LEMMA GivenClean ==
  ASSUME NEW s, Given(s)
  PROVE  Clean(s)
BY StringProperties DEF Given, Clean, IsString

LEMMA CleanText ==
  ASSUME NEW kind \in {"zero", "fresh", "same"}, NEW id, NEW n \in Nat
  PROVE  Clean(Text(kind, id, n)) /\ Len(Text(kind, id, n)) = n
<1> DEFINE t == Text(kind, id, n)
           at(i) == CASE kind = "zero"  -> Zero
                      [] kind = "fresh" -> {<<"p", 64 * id + i>>}
                      [] kind = "same"  -> {<<"p", 64 * id>>}
<1>1. t = [i \in 1..n |-> at(i)]
  BY Zenon DEF Text
<1>2. \A i : \A a \in at(i) : a[1] # "D"
  BY DEF Zero
<1> HIDE DEF t, at
<1>3. t = [i \in 1..n |-> t[i]] /\ \A i \in 1..n : \A a \in t[i] : a[1] # "D"
  BY <1>1, <1>2
<1>4. Clean(t) /\ Len(t) = n
  BY <1>3, CleanMade
<1> QED
  BY <1>4 DEF t

LEMMA PlainIs ==
  ASSUME NEW r, Plain(r).ok
  PROVE  r.ok /\ Plain(r).ct = r.val
<1>1. r.ok
  <2> SUFFICES ASSUME ~ r.ok PROVE FALSE
    OBVIOUS
  <2>1. Plain(r) = r
    BY DEF Plain
  <2> QED
    BY <2>1
<1> QED
  BY <1>1 DEF Plain, Sealed

(* The strings SIV takes before the message.                               *)
LEMMA SivStrings ==
  ASSUME NEW kind \in {"zero", "fresh", "same"}, NEW id, NEW len \in Seq(Nat),
         NEW nonce, IsString(nonce), \A s \in Range(nonce) : Given(s)
  PROVE  LET x == AadText("siv", kind, id, len) \o nonce
         IN  Len(x) \in Nat /\ \A i \in 1..Len(x) : Clean(x[i])
<1> DEFINE n == Len(len)
           a == AadText("siv", kind, id, len)
           at(j) == Text(kind, 32 + 8 * j + id, len[j])
           m == Len(nonce)
           x == a \o nonce
<1>1. n \in Nat /\ \A j \in 1..n : len[j] \in Nat
  BY LenProperties, ElementOfSeq
<1>2. a = [j \in 1..n |-> at(j)]
  BY DEF AadText
<1>3. \A j \in 1..n : Clean(at(j))
  BY <1>1, CleanText
<1> HIDE DEF a, at
<1>4. a = [j \in 1..n |-> a[j]] /\ \A j \in 1..n : Clean(a[j])
  BY <1>2, <1>3
<1>5. IsString(a) /\ Len(a) = n
  BY <1>1, <1>4, MadeString
<1>6. m \in Nat /\ \A j \in 1..m : Clean(nonce[j])
  <2>1. m \in Nat /\ \A j \in 1..m : nonce[j] \in Range(nonce)
    BY StringProperties
  <2> QED
    BY <2>1, GivenClean
<1> HIDE DEF n, m
<1>7. Len(x) = n + m /\ \A j \in 1..(n + m) : x[j] = IF j <= n THEN a[j] ELSE nonce[j - n]
  <2>1. /\ Len(x) = Len(a) + Len(nonce)
        /\ \A i \in 1..(Len(a) + Len(nonce)) :
             x[i] = IF i <= Len(a) THEN a[i] ELSE nonce[i - Len(a)]
    BY <1>5, Joined
  <2> QED
    BY <1>5, <2>1 DEF m
<1> HIDE DEF x
<1>8. ASSUME NEW j \in 1..(n + m) PROVE Clean(x[j])
  <2>1. CASE j <= n
    <3>1. j \in 1..n
      BY <1>1, <1>6, <2>1
    <3> QED
      BY <1>4, <1>7, <2>1, <3>1
  <2>2. CASE ~ (j <= n)
    <3>1. j - n \in 1..m /\ x[j] = nonce[j - n]
      BY <1>1, <1>6, <1>7, <2>2 DEF n
    <3> QED
      BY <1>6, <3>1
  <2> QED
    BY <2>1, <2>2
<1>9. n + m \in Nat
  BY <1>1, <1>6 DEF n
<1> QED
  BY <1>7, <1>8, <1>9 DEF x, a

(* A message a call may seal.                                              *)
Modes == {"ecb", "ecb_padded", "cbc", "cbc_padded", "ofb", "cfb", "ctr", "xts", "wrap",
          "pad", "block", "fpe", "gcm", "gcm_combined", "ccm", "ocb", "siv", "eax"}
Sound(m) ==
  /\ m.mode \in Modes /\ Clean(m.pt)
  /\ m.mode \in {"cbc", "cbc_padded", "ofb", "cfb", "ctr", "xts"} => IsBlock(m.nonce)
  /\ m.mode \in {"gcm", "gcm_combined"} => Clean(m.nonce) /\ Len(m.nonce) = B - 1
  /\ m.mode = "ccm" => Clean(m.nonce) /\ Len(m.nonce) = B - 2 /\ Clean(m.aad)
  /\ m.mode \in {"ocb", "eax"} => Clean(m.nonce)
  /\ m.mode = "siv" => /\ Len(m.aad \o m.nonce) \in Nat
                       /\ \A i \in 1..Len(m.aad \o m.nonce) : Clean((m.aad \o m.nonce)[i])
  /\ m.mode = "block" => Len(m.pt) = 4
  /\ m.mode = "fpe" => Len(m.pt) = BufBits /\ (m.par = 1 \/ m.par % 2 = 0)

LEMMA MessageSound ==
  ASSUME NEW c \in Calls \cup Follow, NEW id, c.mode = "fpe" => c.par = 1 \/ c.par % 2 = 0
  PROVE  Sound(Message(c, id))
<1> DEFINE m == Message(c, id)
<1>1. /\ m.mode = c.mode /\ m.par = c.par /\ m.nonce = c.nonce
      /\ m.aad = AadText(c.mode, c.text, id, c.aad) /\ m.pt = Text(c.text, id, c.pt)
  BY DEF Message
<1> HIDE DEF m
<1>2. /\ c.mode \in Modes /\ c.text \in {"zero", "fresh", "same"} /\ c.pt \in Nat
      /\ c.mode = "block" => c.pt = 4
      /\ c.mode = "fpe" => c.pt = BufBits /\ (c.par = 1 \/ c.par % 2 = 0)
  BY CallAssumption, OfferAssumption DEF Modes
<1>3. Clean(m.pt) /\ Len(m.pt) = c.pt
  BY <1>1, <1>2, CleanText
<1>4. ASSUME m.mode \in {"cbc", "cbc_padded", "ofb", "cfb", "ctr", "xts"} PROVE IsBlock(m.nonce)
  BY <1>1, <1>4, CallAssumption, GivenClean DEF IsBlock
<1>5. ASSUME m.mode \in {"gcm", "gcm_combined"} PROVE Clean(m.nonce) /\ Len(m.nonce) = B - 1
  BY <1>1, <1>5, CallAssumption, GivenClean
<1>6. ASSUME m.mode = "ccm" PROVE Clean(m.nonce) /\ Len(m.nonce) = B - 2 /\ Clean(m.aad)
  <2>1. Given(c.nonce) /\ Len(c.nonce) = B - 2 /\ c.aad \in Nat
    BY <1>1, <1>6, CallAssumption
  <2>2. m.aad = Text(c.text, 32 + id, c.aad)
    BY <1>1, <1>6 DEF AadText
  <2> QED
    BY <1>1, <1>2, <2>1, <2>2, CleanText, GivenClean
<1>7. ASSUME m.mode \in {"ocb", "eax"} PROVE Clean(m.nonce)
  BY <1>1, <1>7, CallAssumption, GivenClean
<1>8. ASSUME m.mode = "siv"
      PROVE  /\ Len(m.aad \o m.nonce) \in Nat
             /\ \A i \in 1..Len(m.aad \o m.nonce) : Clean((m.aad \o m.nonce)[i])
  <2>1. IsString(c.nonce) /\ c.aad \in Seq(Nat) /\ \A s \in Range(c.nonce) : Given(s)
    BY <1>1, <1>8, CallAssumption DEF IsString
  <2>2. m.aad = AadText("siv", c.text, id, c.aad)
    BY <1>1, <1>8
  <2> QED
    BY <1>1, <1>2, <2>1, <2>2, SivStrings
<1>9. /\ m.mode = "block" => Len(m.pt) = 4
      /\ m.mode = "fpe" => Len(m.pt) = BufBits /\ (m.par = 1 \/ m.par % 2 = 0)
  BY <1>1, <1>2, <1>3
<1>10. m.mode \in Modes
  BY <1>1, <1>2
<1>11. Sound(m)
  BY <1>3, <1>4, <1>5, <1>6, <1>7, <1>8, <1>9, <1>10 DEF Sound
<1> QED
  BY <1>11 DEF m

(* What the modes seal they open: mode by mode.                            *)
LEMMA SealedOpens ==
  ASSUME NEW m, Sound(m), SealCall(m).ok
  PROVE  LET s == SealCall(m) IN OpenCall(Envelope(m, s.ct, s.tag)) = Ok(m.pt)
<1> DEFINE s == SealCall(m)
           e == Envelope(m, s.ct, s.tag)
<1>0. /\ e.mode = m.mode /\ e.par = m.par /\ e.nonce = m.nonce /\ e.aad = m.aad
      /\ e.ct = s.ct /\ e.tag = s.tag
  BY DEF Envelope
<1> SUFFICES OpenCall(e) = Ok(m.pt)
  OBVIOUS
<1>a. s.ok /\ Clean(m.pt) /\ m.mode \in Modes
  BY DEF Sound
<1> HIDE DEF e, s
<1>1. CASE m.mode = "ecb"
  <2> DEFINE r == EncryptEcb("k", m.pt)
  <2>1. s = Plain(r)
    BY <1>1 DEF s, SealCall
  <2>2. OpenCall(e) = DecryptEcb("k", e.ct)
    BY <1>0, <1>1 DEF OpenCall
  <2>4. r.ok /\ e.ct = r.val
    <3> HIDE DEF r
    <3>1. Plain(r).ok
      BY <1>a, <2>1
    <3>2. r.ok /\ Plain(r).ct = r.val
      BY <3>1, PlainIs
    <3> QED
      BY <1>0, <2>1, <3>2
  <2> QED
    BY <1>a, <2>2, <2>4, EcbBack
<1>2. CASE m.mode = "ecb_padded"
  <2> DEFINE r == EncryptEcb("k", Pkcs7Pad(m.pt, B))
  <2>1. s = Plain(r)
    BY <1>2 DEF s, SealCall, EncryptPadded, Pad, Ok
  <2>2. OpenCall(e) = DecryptPadded(DecryptEcb("k", e.ct), "pkcs7")
    BY <1>0, <1>2 DEF OpenCall
  <2>4. r.ok /\ e.ct = r.val
    <3> HIDE DEF r
    <3>1. Plain(r).ok
      BY <1>a, <2>1
    <3>2. r.ok /\ Plain(r).ct = r.val
      BY <3>1, PlainIs
    <3> QED
      BY <1>0, <2>1, <3>2
  <2> QED
    BY <1>a, <2>2, <2>4, EcbPaddedBack
<1>3. CASE m.mode = "cbc"
  <2> DEFINE r == EncryptCbc("k", m.nonce, m.pt)
  <2>1. s = Plain(r)
    BY <1>3 DEF s, SealCall
  <2>2. OpenCall(e) = DecryptCbc("k", m.nonce, e.ct)
    BY <1>0, <1>3 DEF OpenCall
  <2>3. IsBlock(m.nonce)
    BY <1>3 DEF Sound
  <2>4. r.ok /\ e.ct = r.val
    <3> HIDE DEF r
    <3>1. Plain(r).ok
      BY <1>a, <2>1
    <3>2. r.ok /\ Plain(r).ct = r.val
      BY <3>1, PlainIs
    <3> QED
      BY <1>0, <2>1, <3>2
  <2> QED
    BY <1>a, <2>2, <2>3, <2>4, CbcBack
<1>4. CASE m.mode = "cbc_padded"
  <2> DEFINE r == EncryptCbc("k", m.nonce, Pkcs7Pad(m.pt, B))
  <2>1. s = Plain(r)
    BY <1>4 DEF s, SealCall, EncryptPadded, Pad, Ok
  <2>2. OpenCall(e) = DecryptPadded(DecryptCbc("k", m.nonce, e.ct), "pkcs7")
    BY <1>0, <1>4 DEF OpenCall
  <2>3. IsBlock(m.nonce)
    BY <1>4 DEF Sound
  <2>4. r.ok /\ e.ct = r.val
    <3> HIDE DEF r
    <3>1. Plain(r).ok
      BY <1>a, <2>1
    <3>2. r.ok /\ Plain(r).ct = r.val
      BY <3>1, PlainIs
    <3> QED
      BY <1>0, <2>1, <3>2
  <2> QED
    BY <1>a, <2>2, <2>3, <2>4, CbcPaddedBack
<1>5. CASE m.mode = "ofb"
  <2>1. s = Sealed(CryptOfb("k", m.nonce, m.pt), << >>)
    BY <1>5 DEF s, SealCall
  <2>2. OpenCall(e) = Ok(CryptOfb("k", m.nonce, e.ct))
    BY <1>0, <1>5 DEF OpenCall
  <2>3. IsBlock(m.nonce)
    BY <1>5 DEF Sound
  <2>4. e.ct = CryptOfb("k", m.nonce, m.pt)
    BY <1>0, <2>1 DEF Sealed
  <2> QED
    BY <1>a, <2>2, <2>3, <2>4, OfbBack
<1>6. CASE m.mode = "cfb"
  <2>1. s = Sealed(EncryptCfb("k", m.nonce, m.pt), << >>)
    BY <1>6 DEF s, SealCall
  <2>2. OpenCall(e) = Ok(DecryptCfb("k", m.nonce, e.ct))
    BY <1>0, <1>6 DEF OpenCall
  <2>3. IsBlock(m.nonce)
    BY <1>6 DEF Sound
  <2>4. e.ct = EncryptCfb("k", m.nonce, m.pt)
    BY <1>0, <2>1 DEF Sealed
  <2> QED
    BY <1>a, <2>2, <2>3, <2>4, CfbBack
<1>7. CASE m.mode = "ctr"
  <2>1. s = Sealed(CryptCtr("k", m.nonce, m.pt), << >>)
    BY <1>7 DEF s, SealCall
  <2>2. OpenCall(e) = Ok(CryptCtr("k", m.nonce, e.ct))
    BY <1>0, <1>7 DEF OpenCall
  <2>3. IsBlock(m.nonce)
    BY <1>7 DEF Sound
  <2>4. e.ct = CryptCtr("k", m.nonce, m.pt)
    BY <1>0, <2>1 DEF Sealed
  <2> QED
    BY <1>a, <2>2, <2>3, <2>4, CtrBack
<1>8. CASE m.mode = "xts"
  <2> DEFINE r == EncryptXts("k", "k2", m.nonce, m.pt)
  <2>1. s = Plain(r)
    BY <1>8 DEF s, SealCall
  <2>2. OpenCall(e) = DecryptXts("k", "k2", m.nonce, e.ct)
    BY <1>0, <1>8 DEF OpenCall
  <2>3. IsBlock(m.nonce)
    BY <1>8 DEF Sound
  <2>4. r.ok /\ e.ct = r.val
    <3> HIDE DEF r
    <3>1. Plain(r).ok
      BY <1>a, <2>1
    <3>2. r.ok /\ Plain(r).ct = r.val
      BY <3>1, PlainIs
    <3> QED
      BY <1>0, <2>1, <3>2
  <2> QED
    BY <1>a, <2>2, <2>3, <2>4, XtsBack
<1>9. CASE m.mode = "wrap"
  <2> DEFINE r == KeyWrap("k", m.pt)
  <2>1. s = Plain(r)
    BY <1>9 DEF s, SealCall
  <2>2. OpenCall(e) = KeyUnwrap("k", e.ct)
    BY <1>0, <1>9 DEF OpenCall
  <2>4. r.ok /\ e.ct = r.val
    <3> HIDE DEF r
    <3>1. Plain(r).ok
      BY <1>a, <2>1
    <3>2. r.ok /\ Plain(r).ct = r.val
      BY <3>1, PlainIs
    <3> QED
      BY <1>0, <2>1, <3>2
  <2> QED
    BY <1>a, <2>2, <2>4, WrapBack
<1>10. CASE m.mode = "pad"
  <2> DEFINE r == Pad(m.pt, m.par)
  <2>1. s = Plain(r)
    BY <1>10 DEF s, SealCall
  <2>2. OpenCall(e) = Unpad(e.ct, m.par)
    BY <1>0, <1>10 DEF OpenCall
  <2>4. r.ok /\ e.ct = r.val
    <3> HIDE DEF r
    <3>1. Plain(r).ok
      BY <1>a, <2>1
    <3>2. r.ok /\ Plain(r).ct = r.val
      BY <3>1, PlainIs
    <3> QED
      BY <1>0, <2>1, <3>2
  <2> QED
    BY <1>a, <2>2, <2>4, PadBack
<1>11. CASE m.mode = "block"
  <2>1. s = Sealed(EncryptRounds(m.pt, RoundKeys), << >>)
    BY <1>11 DEF s, SealCall
  <2>2. OpenCall(e) = Ok(DecryptRounds(e.ct, RoundKeys))
    BY <1>0, <1>11 DEF OpenCall
  <2>3. IsString(RoundKeys)
    BY KeysAreString DEF RoundKeys
  <2>4. IsQuad(m.pt)
    BY <1>11, <1>a, QuadIs DEF Sound, Clean
  <2>5. e.ct = EncryptRounds(m.pt, RoundKeys)
    BY <1>0, <2>1 DEF Sealed
  <2> QED
    BY <2>2, <2>3, <2>4, <2>5, BlockBack
<1>12. CASE m.mode = "fpe"
  <2>1. FpeNew(m.par) /\ s = Sealed(FpeEncrypt("k", m.nonce, m.pt, m.par), << >>)
    <3>1. s = IF FpeNew(m.par) THEN Sealed(FpeEncrypt("k", m.nonce, m.pt, m.par), << >>)
              ELSE Err("InvalidInputLength")
      BY <1>12 DEF s, SealCall
    <3>2. FpeNew(m.par)
      BY <1>a, <3>1 DEF Err
    <3> QED
      BY <3>1, <3>2
  <2>2. OpenCall(e) = Ok(FpeDecrypt("k", m.nonce, e.ct, m.par))
    BY <1>0, <1>12 DEF OpenCall
  <2>3. e.ct = FpeEncrypt("k", m.nonce, m.pt, m.par)
    BY <1>0, <2>1 DEF Sealed
  <2>4. m.par \in 1..Len(m.pt) /\ (m.par = 1 \/ m.par % 2 = 0) /\ IsString(m.pt)
    BY <1>12, <2>1 DEF FpeNew, Sound, Clean
  <2> QED
    BY <2>2, <2>3, <2>4, FpeBack
<1>13. CASE m.mode = "gcm"
  <2>1. s = EncryptGcm("k", m.nonce, m.aad, m.pt)
    BY <1>13 DEF s, SealCall
  <2>2. OpenCall(e) = DecryptGcm("k", m.nonce, m.aad, s.ct, s.tag)
    BY <1>0, <1>13 DEF OpenCall
  <2>3. Clean(m.nonce) /\ Len(m.nonce) = B - 1
    BY <1>13 DEF Sound
  <2> QED
    BY <1>a, <2>1, <2>2, <2>3, GcmBack
<1>14. CASE m.mode = "gcm_combined"
  <2>1. s = EncryptGcmCombined("k", m.nonce, m.aad, m.pt)
    BY <1>14 DEF s, SealCall
  <2>2. OpenCall(e) = DecryptGcmCombined("k", m.nonce, m.aad, s.ct)
    BY <1>0, <1>14 DEF OpenCall
  <2>3. Clean(m.nonce) /\ Len(m.nonce) = B - 1
    BY <1>14 DEF Sound
  <2> QED
    BY <1>a, <2>1, <2>2, <2>3, GcmCombinedBack
<1>15. CASE m.mode = "ccm"
  <2>1. s = EncryptCcm("k", m.nonce, m.aad, m.pt, m.par)
    BY <1>15 DEF s, SealCall
  <2>2. OpenCall(e) = DecryptCcm("k", m.nonce, m.aad, s.ct, m.par)
    BY <1>0, <1>15 DEF OpenCall
  <2>3. Clean(m.nonce) /\ Len(m.nonce) = B - 2 /\ Clean(m.aad)
    BY <1>15 DEF Sound
  <2> QED
    BY <1>a, <2>1, <2>2, <2>3, CcmBack
<1>16. CASE m.mode = "ocb"
  <2>1. s = EncryptOcb("k", m.nonce, m.aad, m.pt)
    BY <1>16 DEF s, SealCall
  <2>2. OpenCall(e) = DecryptOcb("k", m.nonce, m.aad, s.ct, s.tag)
    BY <1>0, <1>16 DEF OpenCall
  <2>3. Clean(m.nonce)
    BY <1>16 DEF Sound
  <2> QED
    BY <1>a, <2>1, <2>2, <2>3, OcbBack
<1>17. CASE m.mode = "siv"
  <2>1. s = EncryptSiv("k", "k2", m.nonce, m.aad, m.pt)
    BY <1>17 DEF s, SealCall
  <2>2. OpenCall(e) = DecryptSiv("k", "k2", m.nonce, m.aad, s.ct, s.tag)
    BY <1>0, <1>17 DEF OpenCall
  <2>3. /\ Len(m.aad \o m.nonce) \in Nat
        /\ \A i \in 1..Len(m.aad \o m.nonce) : Clean((m.aad \o m.nonce)[i])
    BY <1>17 DEF Sound
  <2> QED
    BY <1>a, <2>1, <2>2, <2>3, SivBack
<1>18. CASE m.mode = "eax"
  <2>1. s = EncryptEax("k", m.nonce, m.aad, m.pt)
    BY <1>18 DEF s, SealCall
  <2>2. OpenCall(e) = DecryptEax("k", m.nonce, m.aad, s.ct, s.tag)
    BY <1>0, <1>18 DEF OpenCall
  <2>3. Clean(m.nonce)
    BY <1>18 DEF Sound
  <2> QED
    BY <1>a, <2>1, <2>2, <2>3, EaxBack
<1> QED
  BY <1>a, <1>1, <1>2, <1>3, <1>4, <1>5, <1>6, <1>7, <1>8, <1>9,
     <1>10, <1>11, <1>12, <1>13, <1>14, <1>15, <1>16, <1>17, <1>18 DEF Modes

-----------------------------------------------------------------------------
(* Every envelope that was made opens to the message it was made of.       *)
Restored == \A i \in 1..Len(sealed) : OpenCall(sealed[i].env) = Ok(sealed[i].pt)

LEMMA EnvelopeIsOne ==
  ASSUME NEW e, IsEnvelope(e)
  PROVE  e # None
<1>1. "mode" \in DOMAIN e
  BY DEF IsEnvelope
<1>2. DOMAIN None = {"none"}
  BY DEF None
<1> QED
  BY <1>1, <1>2

LEMMA SealRestores ==
  ASSUME EvenWidths, SessionInv, Restored, NEW c \in Calls \cup Follow, Seal(c)
  PROVE  Restored'
<1> DEFINE m == Message(c, Len(sealed) + 1)
           s == SealCall(m)
           e == [call |-> c, pt |-> m.pt, env |-> Envelope(m, s.ct, s.tag)]
           n == Len(sealed)
           t == sealed'
<1>1. Keep(c, m, s)
  BY DEF Seal
<1>2. CASE ~ s.ok
  <2>1. sealed' = sealed
    BY <1>1, <1>2 DEF Keep
  <2> QED
    BY <2>1 DEF Restored
<1>3. CASE s.ok
  <2>1. t = Append(sealed, e)
    BY <1>1, <1>3 DEF Keep
  <2>2. OpenCall(e.env) = Ok(e.pt)
    <3>1. Sound(m)
      BY MessageSound DEF EvenWidths
    <3> HIDE DEF m
    <3>2. OpenCall(Envelope(m, s.ct, s.tag)) = Ok(m.pt)
      BY <1>3, <3>1, SealedOpens
    <3>3. e.env = Envelope(m, s.ct, s.tag) /\ e.pt = m.pt
      OBVIOUS
    <3> HIDE DEF e
    <3> QED
      BY <3>2, <3>3
  <2> HIDE DEF e
  <2>3. IsString(sealed) /\ n \in Nat
    BY MadeString DEF SessionInv, SealedIs
  <2>4. t = [i \in 1..(n + 1) |-> t[i]] /\ (\A i \in 1..n : t[i] = sealed[i]) /\ t[n + 1] = e
    BY <2>1, <2>3, AppendMakes
  <2>5. Len(t) = n + 1
    BY <2>3, <2>4, MadeString
  <2>6. ASSUME NEW i \in 1..(n + 1) PROVE OpenCall(t[i].env) = Ok(t[i].pt)
    <3>1. CASE i = n + 1
      BY <2>2, <2>4, <3>1
    <3>2. CASE i # n + 1
      <4>1. i \in 1..n
        BY <2>3, <3>2
      <4> QED
        BY <2>4, <4>1 DEF Restored
    <3> QED
      BY <3>1, <3>2
  <2> QED
    BY <2>5, <2>6 DEF Restored
<1> QED
  BY <1>2, <1>3

LEMMA RestoredHolds ==
  ASSUME EvenWidths
  PROVE  Spec => []Restored
<1>1. Init => Restored
  <2>1. Len(<< >>) = 0 /\ 1..0 = {}
    OBVIOUS
  <2> QED
    BY <2>1 DEF Init, Restored
<1>2. SessionInv /\ Restored /\ [Next]_vars => Restored'
  <2> SUFFICES ASSUME SessionInv, Restored, [Next]_vars PROVE Restored'
    OBVIOUS
  <2>1. CASE SealFirst
    BY <2>1, SealRestores DEF SealFirst
  <2>2. CASE SealSecond
    BY <2>2, SealRestores DEF SealSecond
  <2>3. CASE Open
    <3>1. sealed' = sealed
      BY <2>3 DEF Open
    <3> QED
      BY <3>1 DEF Restored
  <2>4. CASE UNCHANGED vars
    BY <2>4 DEF vars, Restored
  <2> QED
    BY <2>1, <2>2, <2>3, <2>4 DEF Next
<1> QED
  BY <1>1, <1>2, SessionHolds, PTL DEF Spec

(* What a mode sealed, its opening call gives back: for blocks of every    *)
(* size, keys and messages of every length, with every nonce and aad, in   *)
(* all eighteen pairs of calls (modes.rs, padding.rs, cipher.rs, fnr.rs).  *)
(* Format-preserving encryption does so for one bit and for even widths    *)
(* only: a round of an odd one forgets a bit.                              *)
THEOREM SealedIsOpened ==
  ASSUME EvenWidths
  PROVE  Spec => []RoundTrip
<1>1. SessionInv /\ Restored => RoundTrip
  <2> SUFFICES ASSUME SessionInv, Restored, NEW i \in DOMAIN sealed, offered = sealed[i].env
               PROVE  result = Ok(sealed[i].pt)
    BY DEF RoundTrip
  <2>1. i \in 1..Len(sealed)
    BY DEF SessionInv, SealedIs
  <2>2. offered # None
    BY <2>1, EnvelopeIsOne DEF SessionInv, SealedIs
  <2>3. result = OpenCall(sealed[i].env)
    BY <2>2 DEF SessionInv, OfferedIs
  <2> QED
    BY <2>1, <2>3 DEF Restored
<1> QED
  BY <1>1, SessionHolds, RestoredHolds, PTL

-----------------------------------------------------------------------------
(* What the cipher gives tells what it was given.                          *)

Made(k, x, i) == << "E", k, Pack(x), i >>

LEMMA EncipheredIs ==
  ASSUME NEW k, NEW x, Clean(x), Len(x) >= 1
  PROVE  \A i \in 1..Len(x) : E(k, x)[i] = {Made(k, x, i)}
BY Enciphered, ImageIs DEF Clean, Made

LEMMA MadeTells ==
  ASSUME NEW k, NEW l, NEW x, NEW y, IsString(x), IsString(y), NEW i, NEW j,
         Made(k, x, i) = Made(l, y, j)
  PROVE  x = y /\ i = j
<1>1. Pack(x) = Pack(y) /\ i = j
  BY DEF Made
<1>2. Unpack(Pack(x)) = x /\ Unpack(Pack(y)) = y
  BY UnpackPack
<1> QED
  BY <1>1, <1>2

-----------------------------------------------------------------------------
(* The bytes of a key stream.                                              *)

AreBlocks(counters, n) == \A i \in 1..n : IsBlock(counters[i])
IsStreamed(f, k, counters, data) ==
  \A q \in 1..Parts(Len(data)) : \A i \in 1..PartLen(q, Len(data)) :
    f[Off(q - 1) + i] = SymDiff(data[Off(q - 1) + i], {Made(k, counters[q], i)})

LEMMA StreamBytes ==
  ASSUME NEW k, NEW data, Clean(data), NEW counters, AreBlocks(counters, Parts(Len(data)))
  PROVE  IsStreamed(KeyStreamed(k, counters, data), k, counters, data)
<1> DEFINE len == Len(data)
           n == Parts(len)
           c == Chunks(data)
           t == [q \in 1..n |-> Xor(c[q], E(k, counters[q]))]
           f == KeyStreamed(k, counters, data)
<1>1. /\ Len(c) = n /\ len \in Nat
      /\ \A q \in 1..n : Clean(c[q]) /\ Len(c[q]) = PartLen(q, len) /\ PartLen(q, len) \in 1..B
  BY CleanChunks
<1>2. \A q \in 1..n : \A i \in 1..PartLen(q, len) : c[q][i] = data[Off(q - 1) + i]
  BY ChunksAre DEF Clean
<1>3. f = FlattenSeq(t)
  BY <1>1 DEF KeyStreamed
<1> HIDE DEF c
<1>4. ASSUME NEW q \in 1..n
      PROVE  /\ IsString(t[q]) /\ Len(t[q]) = PartLen(q, len)
             /\ \A i \in 1..PartLen(q, len) :
                  t[q][i] = SymDiff(c[q][i], {Made(k, counters[q], i)})
  <2> DEFINE e == E(k, counters[q])
  <2>1. IsBlock(counters[q]) /\ IsBlock(e)
    BY BlockEnciphered DEF AreBlocks
  <2>2. \A i \in 1..B : e[i] = {Made(k, counters[q], i)}
    BY <2>1, BlockLen, EncipheredIs DEF IsBlock
  <2>3. t[q] = Xor(c[q], e)
    OBVIOUS
  <2> HIDE DEF e, t
  <2>4. IsString(c[q]) /\ IsString(e) /\ Len(c[q]) <= Len(e)
    BY <1>1, <2>1, BlockLen DEF IsBlock, Clean
  <2>5. /\ IsString(Xor(c[q], e)) /\ Len(Xor(c[q], e)) = Len(c[q])
        /\ \A i \in 1..Len(c[q]) : Xor(c[q], e)[i] = SymDiff(c[q][i], e[i])
    BY <2>4, SumIs
  <2>6. \A i \in 1..PartLen(q, len) : i \in 1..B
    BY <1>1, BlockLen
  <2> QED
    BY <1>1, <2>2, <2>3, <2>5, <2>6
<1>5. t = [q \in 1..n |-> t[q]]
  OBVIOUS
<1> HIDE DEF t
<1>6. Shaped(t, len)
  BY <1>4, <1>5 DEF Shaped
<1> HIDE DEF len
<1>7. Flat(FlattenSeq(t), t, len)
  BY <1>1, <1>6, FlatShaped
<1> HIDE DEF f
<1>8. ASSUME NEW q \in 1..n, NEW i \in 1..PartLen(q, len)
      PROVE  f[Off(q - 1) + i] = SymDiff(data[Off(q - 1) + i], {Made(k, counters[q], i)})
  <2>1. f[Off(q - 1) + i] = t[q][i]
    BY <1>3, <1>7 DEF Flat
  <2>2. t[q][i] = SymDiff(c[q][i], {Made(k, counters[q], i)})
    BY <1>4
  <2> QED
    BY <1>2, <2>1, <2>2
<1> QED
  BY <1>8 DEF f, len, IsStreamed

-----------------------------------------------------------------------------
(* The counters of GCM: the nonce, and a number in the last byte.          *)

NonceAnd(nonce, v) == nonce \o << Num(v) >>

LEMMA NonceAndIs ==
  ASSUME NEW nonce, Clean(nonce), Len(nonce) = B - 1, NEW v
  PROVE  /\ IsBlock(NonceAnd(nonce, v)) /\ NonceAnd(nonce, v)[B] = Num(v)
         /\ \A i \in 1..(B - 1) : NonceAnd(nonce, v)[i] = nonce[i]
<1> DEFINE s == << Num(v) >>
<1>1. Clean(s) /\ Len(s) = 1 /\ s[1] = Num(v)
  BY One, CleanNum DEF Clean
<1> HIDE DEF s
<1>2. Clean(nonce \o s) /\ Len(nonce \o s) = Len(nonce) + Len(s)
  BY <1>1, CleanJoin
<1>3. \A i \in 1..(Len(nonce) + Len(s)) :
        (nonce \o s)[i] = IF i <= Len(nonce) THEN nonce[i] ELSE s[i - Len(nonce)]
  BY <1>1, Joined DEF Clean
<1>4. /\ Len(nonce) + Len(s) = B /\ ~ (B <= Len(nonce)) /\ B - Len(nonce) = 1 /\ B \in 1..B
      /\ \A i \in 1..(B - 1) : i <= Len(nonce) /\ i \in 1..B
  BY <1>1, BlockLen
<1> QED
  BY <1>1, <1>2, <1>3, <1>4 DEF NonceAnd, IsBlock, s

LEMMA NonceNext ==
  ASSUME NEW nonce, Clean(nonce), Len(nonce) = B - 1, NEW v \in Nat, v + 1 < Radix
  PROVE  GcmCtrInc(NonceAnd(nonce, v)) = NonceAnd(nonce, v + 1)
<1> DEFINE x == NonceAnd(nonce, v)
           y == NonceAnd(nonce, v + 1)
           carry(i) == i >= B /\ \A j \in (i + 1)..B : Value(x[j]) = Radix - 1
           f == [i \in 1..B |-> IF carry(i) THEN Num((Value(x[i]) + 1) % Radix) ELSE x[i]]
<1>1. /\ IsBlock(x) /\ x[B] = Num(v) /\ \A i \in 1..(B - 1) : x[i] = nonce[i]
      /\ IsBlock(y) /\ y[B] = Num(v + 1) /\ \A i \in 1..(B - 1) : y[i] = nonce[i]
  BY NonceAndIs
<1>2. v \in 0..255 /\ (v + 1) % Radix = v + 1
  BY BlockAssumption
<1>3. Value(Num(v)) = v /\ IsNum(Num(v))
  BY <1>2, ValueOfNum
<1> HIDE DEF x, y
<1>4. \A i \in B..B : IsNum(x[i])
  BY <1>1, <1>3, BlockLen
<1>5. GcmCtrInc(x) = SubSeq(f, 1, B)
  BY <1>4 DEF GcmCtrInc, IncFrom, Bytes
<1>6. carry(B) /\ \A i \in 1..(B - 1) : ~ carry(i)
  BY BlockLen
<1>7. \A i \in 1..B : f[i] = IF carry(i) THEN Num((Value(x[i]) + 1) % Radix) ELSE x[i]
  <2> HIDE DEF carry
  <2> QED
    OBVIOUS
<1>8. f = [i \in 1..B |-> f[i]]
  OBVIOUS
<1> HIDE DEF f, carry
<1>9. IsString(f) /\ Len(f) = B /\ SubSeq(f, 1, B) = f
  BY <1>8, BlockLen, Tuple
<1>10. ASSUME NEW i \in 1..B PROVE f[i] = y[i]
  <2>1. CASE i = B
    <3>1. f[B] = Num((Value(x[B]) + 1) % Radix)
      BY <1>6, <1>7, BlockLen
    <3>2. Value(x[B]) = v
      BY <1>1, <1>3
    <3> QED
      BY <1>1, <1>2, <2>1, <3>1, <3>2
  <2>2. CASE i # B
    <3>1. i \in 1..(B - 1)
      BY <2>2, BlockLen
    <3> QED
      BY <1>1, <1>6, <1>7, <3>1
  <2> QED
    BY <2>1, <2>2
<1>11. f = y
  BY <1>1, <1>9, <1>10, SameString DEF IsBlock, Clean
<1> QED
  BY <1>5, <1>9, <1>11 DEF x, y

LEMMA GcmCountersAre ==
  ASSUME NEW nonce, Clean(nonce), Len(nonce) = B - 1, NEW data, Clean(data),
         Parts(Len(data)) <= Radix - 2
  PROVE  \A q \in 1..Parts(Len(data)) : GcmCounters(nonce, data)[q] = NonceAnd(nonce, q + 1)
<1> DEFINE n == Parts(Len(data))
           first == GcmCtrInc(GcmJ0(nonce))
           y == GcmCounters(nonce, data)
<1>1. Len(Chunks(data)) = n /\ n \in Nat /\ Radix \in Nat
  BY CleanChunks, BlockAssumption
<1> HIDE DEF n
<1>2. CASE n = 0
  BY <1>2 DEF n
<1>3. CASE n # 0
  <2>1. first = NonceAnd(nonce, 1 + 1)
    <3>1. 1 \in Nat /\ 1 + 1 < Radix
      BY <1>1, <1>3 DEF n
    <3>2. GcmJ0(nonce) = NonceAnd(nonce, 1)
      BY DEF GcmJ0, NonceAnd
    <3> QED
      BY <3>1, <3>2, NonceNext
  <2> HIDE DEF first
  <2>2. \A i \in 1..n : y[i] = IF i = 1 THEN first ELSE GcmCtrInc(y[i - 1])
    BY <1>1, GcmSteps, ZenonT(60) DEF GcmCounters, first
  <2> HIDE DEF y
  <2> DEFINE T == {i \in 0..n : i = 0 \/ y[i] = NonceAnd(nonce, i + 1)}
  <2>3. ASSUME NEW i \in 0..(n - 1), i \in T PROVE i + 1 \in T
    <3>1. i + 1 \in 1..n /\ i + 1 \in 0..n /\ (i + 1) - 1 = i /\ (i + 1 = 1 <=> i = 0)
      BY <1>1
    <3>2. y[i + 1] = IF i = 0 THEN first ELSE GcmCtrInc(y[i])
      BY <2>2, <3>1
    <3>3. CASE i = 0
      BY <2>1, <3>1, <3>2, <3>3
    <3>4. CASE i # 0
      <4>1. y[i] = NonceAnd(nonce, i + 1)
        BY <2>3, <3>4
      <4>2. i + 1 \in Nat /\ (i + 1) + 1 < Radix
        BY <1>1 DEF n
      <4>3. GcmCtrInc(NonceAnd(nonce, i + 1)) = NonceAnd(nonce, (i + 1) + 1)
        BY <4>2, NonceNext
      <4> QED
        BY <3>1, <3>2, <3>4, <4>1, <4>3
    <3> QED
      BY <3>3, <3>4
  <2>4. 0 \in T
    BY <1>1
  <2> HIDE DEF T
  <2>5. 0..n \subseteq T
    BY <1>1, <2>3, <2>4, UpTo
  <2>6. \A i \in 1..n : i \in 0..n /\ i # 0
    BY <1>1
  <2> QED
    BY <2>5, <2>6 DEF T, y, n
<1> QED
  BY <1>2, <1>3

(* A counter of the data is not the block that masks a tag.                *)
LEMMA NonceTells ==
  ASSUME NEW m, Clean(m), Len(m) = B - 1, NEW n, Clean(n), Len(n) = B - 1,
         NEW v \in 0..255, NEW w \in 0..255, NonceAnd(m, v) = NonceAnd(n, w)
  PROVE  m = n /\ v = w
<1>1. /\ NonceAnd(m, v)[B] = Num(v) /\ \A i \in 1..(B - 1) : NonceAnd(m, v)[i] = m[i]
      /\ NonceAnd(n, w)[B] = Num(w) /\ \A i \in 1..(B - 1) : NonceAnd(n, w)[i] = n[i]
  BY NonceAndIs
<1>2. Num(v) = Num(w) /\ \A i \in 1..(B - 1) : m[i] = n[i]
  BY <1>1
<1>3. Value(Num(v)) = v /\ Value(Num(w)) = w
  BY ValueOfNum
<1> QED
  BY <1>2, <1>3, SameString DEF Clean

-----------------------------------------------------------------------------
(* GHASH: its bytes are sums of bytes of the blocks, each with the power   *)
(* of the key it is multiplied by and its place in its block.              *)

MulSeq(n, x, h, c) == Iterated(n, x, LAMBDA i, y : Gf128Mul(XorInto(y, c[i]), h))

LEMMA MulSteps ==
  ASSUME NEW n \in Nat, NEW x, NEW h, NEW c
  PROVE  LET y == MulSeq(n, x, h, c)
         IN  /\ y[0] = x
             /\ \A i \in 1..n : y[i] = Gf128Mul(XorInto(y[i - 1], c[i]), h)
<1> DEFINE Is(f) == f = [i \in 0..n |-> IF i = 0 THEN x ELSE Gf128Mul(XorInto(f[i - 1], c[i]), h)]
           f == CHOOSE f : Is(f)
           y == MulSeq(n, x, h, c)
<1>1. PICK g : MadeFrom(g, n, x, "mul", x, c, h, x)
  BY StepsExist
<1>2. Is(g)
  BY <1>1 DEF MadeFrom, StepOf
<1>3. y = f
  BY DEF MulSeq, Iterated
<1>4. Is(f)
  <2> HIDE DEF Is
  <2> QED
    BY <1>2, Zenon
<1> HIDE DEF f, y
<1>5. \A i \in 0..n : f[i] = IF i = 0 THEN x ELSE Gf128Mul(XorInto(f[i - 1], c[i]), h)
  BY <1>4
<1>6. 0 \in 0..n /\ \A i \in 1..n : i \in 0..n /\ i # 0
  OBVIOUS
<1> QED
  BY <1>3, <1>5, <1>6 DEF y

(* t is <<power, place, summand>>.                                         *)
Times(h) == << "times", h[1] >>
Term(h, t, j) == << "lin", << Times(h), t[1] >>, << t[2], t[3] >>, j >>
IsTerms(T) == \A t \in T : t = << t[1], t[2], t[3] >> /\ t[1] \in Nat \ {0}
IsSpread(y, h, T) ==
  IsBlock(y) /\ \A j \in 1..B : y[j] = {Term(h, t, j) : t \in T}
NoProduct(s) == IsString(s) /\ \A i \in 1..Len(s) : \A a \in s[i] : a[1] # "lin"

Grown(t, m) == << t[1] + m, t[2], t[3] >>
NewTerms(p, c) == UNION {{<< p, i, a >> : a \in c[i]} : i \in 1..Len(c)}
Taken(T, c) == {Grown(t, 1) : t \in T} \cup NewTerms(1, c)

LEMMA MulSpread ==
  ASSUME NEW y, NEW h, NEW T, IsSpread(y, h, T), NEW c, NoProduct(c), Len(c) <= B
  PROVE  IsSpread(Gf128Mul(XorInto(y, c), h), h, Taken(T, c))
<1> DEFINE f == Times(h)
           x == XorInto(y, c)
           mapped(i) == {a \in x[i] : a[1] = "lin" /\ a[2][1] = f}
           one(j) == {<< "lin", << f, a[2][2] + 1 >>, a[3], j >> : a \in mapped(1)}
           part(i, j) == {<< "lin", << f, 1 >>, << i, a >>, j >> : a \in x[i] \ mapped(i)}
           z == [j \in 1..B |-> one(j) \cup UNION {part(i, j) : i \in 1..B}]
<1>1. Gf128Mul(x, h) = Linear(f, x)
  BY DEF Gf128Mul, Times
<1>12. Linear(f, x) = SubSeq(z, 1, B)
  BY DEF Linear, Bytes
<1>13. IsBlock(Linear(f, x))
  BY LinearBlock
<1>2. IsString(y) /\ Len(y) = B /\ \A j \in 1..B : y[j] = {Term(h, t, j) : t \in T}
  BY DEF IsSpread, IsBlock, Clean
<1>3. \A i \in 1..B : x[i] = IF i <= Len(c) THEN SymDiff(y[i], c[i]) ELSE y[i]
  BY <1>2, IntoIs DEF NoProduct
<1>4. Len(c) \in Nat /\ B \in Nat /\ 1 \in 1..B
  BY BlockLen, StringProperties DEF NoProduct
<1> HIDE DEF x
<1>5. ASSUME NEW i \in 1..B
      PROVE  /\ mapped(i) = y[i]
             /\ i <= Len(c) => x[i] \ mapped(i) = c[i]
             /\ ~ (i <= Len(c)) => x[i] \ mapped(i) = {}
  <2>1. \A a \in y[i] : a[1] = "lin" /\ a[2][1] = f
    BY <1>2 DEF Term
  <2>2. CASE i <= Len(c)
    <3>1. \A a \in c[i] : a[1] # "lin"
      BY <1>4, <2>2 DEF NoProduct
    <3>2. x[i] = SymDiff(y[i], c[i])
      BY <1>3, <2>2
    <3> HIDE DEF f
    <3>3. mapped(i) = y[i]
      BY <2>1, <3>1, <3>2 DEF SymDiff
    <3>4. x[i] \ y[i] = c[i]
      BY <2>1, <3>1, <3>2 DEF SymDiff
    <3> QED
      BY <2>2, <3>3, <3>4
  <2>3. CASE ~ (i <= Len(c))
    <3>1. x[i] = y[i]
      BY <1>3, <2>3
    <3> HIDE DEF f
    <3>2. mapped(i) = y[i]
      BY <2>1, <3>1
    <3> QED
      BY <2>3, <3>1, <3>2
  <2> QED
    BY <2>2, <2>3
<1>6. \A j \in 1..B : z[j] = one(j) \cup UNION {part(i, j) : i \in 1..B}
  BY Zenon
<1>7. z = [j \in 1..B |-> z[j]]
  OBVIOUS
<1> HIDE DEF z
<1>8. SubSeq(z, 1, B) = z
  BY <1>4, <1>7, Tuple
<1>9. ASSUME NEW j \in 1..B PROVE one(j) = {Term(h, Grown(t, 1), j) : t \in T}
  <2>1. mapped(1) = {Term(h, t, 1) : t \in T}
    BY <1>2, <1>4, <1>5
  <2> HIDE DEF mapped
  <2>2. ASSUME NEW t
        PROVE  << "lin", << f, Term(h, t, 1)[2][2] + 1 >>, Term(h, t, 1)[3], j >>
                 = Term(h, Grown(t, 1), j)
    BY DEF Term, Grown
  <2> HIDE DEF f
  <2> QED
    BY <2>1, <2>2
<1>10. ASSUME NEW j \in 1..B
       PROVE  UNION {part(i, j) : i \in 1..B} = {Term(h, t, j) : t \in NewTerms(1, c)}
  <2>1. ASSUME NEW i, NEW a
        PROVE  << "lin", << f, 1 >>, << i, a >>, j >> = Term(h, << 1, i, a >>, j)
    BY DEF Term
  <2>2. \A i \in 1..B :
          part(i, j) = IF i <= Len(c) THEN {Term(h, << 1, i, a >>, j) : a \in c[i]} ELSE {}
    <3> SUFFICES ASSUME NEW i \in 1..B
                 PROVE  part(i, j) = IF i <= Len(c) THEN {Term(h, << 1, i, a >>, j) : a \in c[i]}
                              ELSE {}
      OBVIOUS
    <3>1. part(i, j) = {Term(h, << 1, i, a >>, j) : a \in x[i] \ mapped(i)}
      BY <2>1
    <3> HIDE DEF mapped, part, f
    <3> QED
      BY <1>5, <3>1
  <2> HIDE DEF part
  <2>3. 1..Len(c) \subseteq 1..B /\ \A i \in 1..B : i <= Len(c) <=> i \in 1..Len(c)
    BY <1>4
  <2>4. UNION {part(i, j) : i \in 1..B}
          = UNION {{Term(h, << 1, i, a >>, j) : a \in c[i]} : i \in 1..Len(c)}
    <3>1. ASSUME NEW b, NEW i \in 1..B, b \in part(i, j)
          PROVE  i \in 1..Len(c) /\ b \in {Term(h, << 1, i, a >>, j) : a \in c[i]}
      BY <2>2, <2>3, <3>1
    <3>2. ASSUME NEW b, NEW i \in 1..Len(c), b \in {Term(h, << 1, i, a >>, j) : a \in c[i]}
          PROVE  i \in 1..B /\ b \in part(i, j)
      BY <2>2, <2>3, <3>2
    <3>3. ASSUME NEW b \in UNION {part(i, j) : i \in 1..B}
          PROVE  b \in UNION {{Term(h, << 1, i, a >>, j) : a \in c[i]} : i \in 1..Len(c)}
      <4>1. PICK i \in 1..B : b \in part(i, j)
        OBVIOUS
      <4>2. i \in 1..Len(c) /\ b \in {Term(h, << 1, i, a >>, j) : a \in c[i]}
        BY <3>1, <4>1
      <4> QED
        BY <4>2
    <3>4. ASSUME NEW b \in UNION {{Term(h, << 1, i, a >>, j) : a \in c[i]} : i \in 1..Len(c)}
          PROVE  b \in UNION {part(i, j) : i \in 1..B}
      <4>1. PICK i \in 1..Len(c) : b \in {Term(h, << 1, i, a >>, j) : a \in c[i]}
        OBVIOUS
      <4>2. i \in 1..B /\ b \in part(i, j)
        BY <3>2, <4>1
      <4> QED
        BY <4>2
    <3> QED
      BY <3>3, <3>4
  <2>5. UNION {{Term(h, << 1, i, a >>, j) : a \in c[i]} : i \in 1..Len(c)}
          = {Term(h, t, j) : t \in NewTerms(1, c)}
    <3>1. ASSUME NEW i \in 1..Len(c), NEW a \in c[i]
          PROVE  << 1, i, a >> \in NewTerms(1, c)
      BY DEF NewTerms
    <3>2. ASSUME NEW t \in NewTerms(1, c)
          PROVE  \E i \in 1..Len(c) : \E a \in c[i] : t = << 1, i, a >>
      BY DEF NewTerms
    <3> DEFINE F(t) == Term(h, t, j)
    <3>3. UNION {{F(<< 1, i, a >>) : a \in c[i]} : i \in 1..Len(c)} = {F(t) : t \in NewTerms(1, c)}
      <4> HIDE DEF F
      <4>1. ASSUME NEW b \in UNION {{F(<< 1, i, a >>) : a \in c[i]} : i \in 1..Len(c)}
            PROVE  b \in {F(t) : t \in NewTerms(1, c)}
        <5>1. PICK i \in 1..Len(c) : \E a \in c[i] : b = F(<< 1, i, a >>)
          OBVIOUS
        <5> QED
          BY <3>1, <5>1
      <4>2. ASSUME NEW t \in NewTerms(1, c)
            PROVE  F(t) \in UNION {{F(<< 1, i, a >>) : a \in c[i]} : i \in 1..Len(c)}
        BY <3>2
      <4> QED
        BY <4>1, <4>2
    <3> QED
      BY <3>3
  <2> QED
    BY <2>4, <2>5
<1>11. ASSUME NEW j \in 1..B PROVE z[j] = {Term(h, t, j) : t \in Taken(T, c)}
  <2>1. z[j] = {Term(h, Grown(t, 1), j) : t \in T} \cup {Term(h, t, j) : t \in NewTerms(1, c)}
    BY <1>6, <1>9, <1>10
  <2>2. {Term(h, Grown(t, 1), j) : t \in T} = {Term(h, u, j) : u \in {Grown(t, 1) : t \in T}}
    OBVIOUS
  <2> QED
    BY <2>1, <2>2 DEF Taken
<1> QED
  BY <1>1, <1>8, <1>11, <1>12, <1>13 DEF IsSpread, x

LEMMA TakenTerms ==
  ASSUME NEW T, IsTerms(T), NEW c
  PROVE  IsTerms(Taken(T, c))
<1>1. ASSUME NEW t \in T
      PROVE  LET u == Grown(t, 1) IN u = << u[1], u[2], u[3] >> /\ u[1] \in Nat \ {0}
  BY DEF Grown, IsTerms
<1>2. ASSUME NEW t \in NewTerms(1, c) PROVE t = << t[1], t[2], t[3] >> /\ t[1] \in Nat \ {0}
  BY DEF NewTerms
<1> QED
  BY <1>1, <1>2 DEF Taken, IsTerms

(* Equal bytes have equal terms.                                           *)
TermsAt(h, T, j) == {Term(h, t, j) : t \in T}

LEMMA SpreadTells ==
  ASSUME NEW h, NEW S, NEW T, IsTerms(S), IsTerms(T), NEW j,
         TermsAt(h, S, j) = TermsAt(h, T, j)
  PROVE  S = T
<1>1. ASSUME NEW t, NEW u, t = << t[1], t[2], t[3] >>, u = << u[1], u[2], u[3] >>,
             Term(h, t, j) = Term(h, u, j)
      PROVE  t = u
  <2>1. t[1] = u[1] /\ t[2] = u[2] /\ t[3] = u[3]
    BY <1>1 DEF Term
  <2> QED
    BY <1>1, <2>1
<1> QED
  BY <1>1 DEF IsTerms, TermsAt

-----------------------------------------------------------------------------
(* GHASH tells what went into it: one byte of it does.                     *)

Spread(y, h) == \E T : IsTerms(T) /\ IsSpread(y, h, T)

LEMMA SpreadMul ==
  ASSUME NEW y, NEW h, Spread(y, h), NEW c, NoProduct(c), Len(c) <= B
  PROVE  Spread(Gf128Mul(XorInto(y, c), h), h)
<1>1. PICK T : IsTerms(T) /\ IsSpread(y, h, T)
  BY DEF Spread
<1>2. IsTerms(Taken(T, c)) /\ IsSpread(Gf128Mul(XorInto(y, c), h), h, Taken(T, c))
  BY <1>1, MulSpread, TakenTerms
<1> QED
  BY <1>2 DEF Spread

LEMMA GrownTells ==
  ASSUME NEW S, NEW T, IsTerms(S), IsTerms(T), NEW c, NEW d, Taken(S, c) = Taken(T, d)
  PROVE  S = T /\ NewTerms(1, c) = NewTerms(1, d)
<1>1. \A t \in NewTerms(1, c) \cup NewTerms(1, d) : t[1] = 1
  BY DEF NewTerms
<1>2. ASSUME NEW t, t = << t[1], t[2], t[3] >>, t[1] \in Nat \ {0}
      PROVE  /\ Grown(t, 1)[1] # 1 /\ Grown(t, 1)[1] - 1 = t[1]
             /\ Grown(t, 1)[2] = t[2] /\ Grown(t, 1)[3] = t[3]
  BY <1>2 DEF Grown
<1>3. \A t \in S \cup T : t = << t[1], t[2], t[3] >> /\ t[1] \in Nat \ {0}
  BY DEF IsTerms
<1>4. ASSUME NEW t \in S \cup T, NEW u \in S \cup T, Grown(t, 1) = Grown(u, 1)
      PROVE  t = u
  <2>1. t[1] = u[1] /\ t[2] = u[2] /\ t[3] = u[3]
    BY <1>2, <1>3, <1>4
  <2> QED
    BY <1>3, <2>1
<1>5. \A t \in S \cup T : Grown(t, 1)[1] # 1
  BY <1>2, <1>3
<1> DEFINE G(t) == Grown(t, 1)
           M == NewTerms(1, c)
           N == NewTerms(1, d)
<1>6. {G(t) : t \in S} \cup M = {G(t) : t \in T} \cup N
  BY DEF Taken
<1>7. /\ \A t \in M \cup N : t[1] = 1
      /\ \A t \in S \cup T : G(t)[1] # 1
      /\ \A t, u \in S \cup T : G(t) = G(u) => t = u
  BY <1>1, <1>4, <1>5
<1> HIDE DEF G, M, N
<1>8. M = N /\ {G(t) : t \in S} = {G(t) : t \in T}
  BY <1>6, <1>7
<1>9. S = T
  BY <1>7, <1>8
<1> QED
  BY <1>8, <1>9 DEF M, N

LEMMA NewTermsTell ==
  ASSUME NEW c, NEW d, IsString(c), IsString(d), Len(c) = Len(d),
         NewTerms(1, c) = NewTerms(1, d)
  PROVE  c = d
<1>1. ASSUME NEW e, NEW i, NEW a
      PROVE  << 1, i, a >> \in NewTerms(1, e) <=> i \in 1..Len(e) /\ a \in e[i]
  BY DEF NewTerms
<1>2. ASSUME NEW i \in 1..Len(c) PROVE c[i] = d[i]
  <2>1. \A a : a \in c[i] <=> << 1, i, a >> \in NewTerms(1, c)
    BY <1>1
  <2>2. \A a : a \in d[i] <=> << 1, i, a >> \in NewTerms(1, d)
    BY <1>1
  <2>3. \A a : a \in c[i] <=> a \in d[i]
    BY <2>1, <2>2
  <2> QED
    BY <2>3
<1> QED
  BY <1>2, SameString

LEMMA MulTells ==
  ASSUME NEW x, NEW y, NEW h, Spread(x, h), Spread(y, h), NEW c, NEW d, NoProduct(c), NoProduct(d),
         Len(c) = Len(d), Len(c) <= B, NEW j \in 1..B,
         Gf128Mul(XorInto(x, c), h)[j] = Gf128Mul(XorInto(y, d), h)[j]
  PROVE  x = y /\ c = d
<1>1. PICK S : IsTerms(S) /\ IsSpread(x, h, S)
  BY DEF Spread
<1>2. PICK T : IsTerms(T) /\ IsSpread(y, h, T)
  BY DEF Spread
<1>3. IsTerms(Taken(S, c)) /\ IsTerms(Taken(T, d))
  BY <1>1, <1>2, TakenTerms
<1> DEFINE P == Taken(S, c)
           Q == Taken(T, d)
<1>10. Gf128Mul(XorInto(x, c), h)[j] = {Term(h, t, j) : t \in P}
  <2>1. IsSpread(Gf128Mul(XorInto(x, c), h), h, P)
    BY <1>1, MulSpread
  <2> QED
    BY <2>1 DEF IsSpread
<1>11. Gf128Mul(XorInto(y, d), h)[j] = {Term(h, t, j) : t \in Q}
  <2>1. IsSpread(Gf128Mul(XorInto(y, d), h), h, Q)
    BY <1>2, MulSpread
  <2> QED
    BY <2>1 DEF IsSpread
<1>4. {Term(h, t, j) : t \in P} = {Term(h, t, j) : t \in Q}
  BY <1>10, <1>11
<1>5. Taken(S, c) = Taken(T, d)
  <2>1. IsTerms(P) /\ IsTerms(Q) /\ TermsAt(h, P, j) = TermsAt(h, Q, j)
    BY <1>3, <1>4 DEF TermsAt
  <2> HIDE DEF P, Q
  <2>2. P = Q
    BY <2>1, SpreadTells
  <2> QED
    BY <2>2 DEF P, Q
<1>6. S = T /\ NewTerms(1, c) = NewTerms(1, d)
  BY <1>1, <1>2, <1>5, GrownTells
<1>7. c = d
  BY <1>6, NewTermsTell DEF NoProduct
<1>8. IsString(x) /\ IsString(y) /\ Len(x) = Len(y) /\ \A i \in 1..Len(x) : x[i] = y[i]
  BY <1>1, <1>2, <1>6 DEF IsSpread, IsBlock, Clean
<1>9. x = y
  BY <1>8, SameString
<1> QED
  BY <1>7, <1>9

Hashed(x, h, s) == Absorb(x, s, LAMBDA y : Gf128Mul(y, h))

LEMMA NoProductChunks ==
  ASSUME NEW s, NoProduct(s)
  PROVE  \A i \in 1..Parts(Len(s)) : NoProduct(Chunks(s)[i]) /\ Len(Chunks(s)[i]) <= B
<1>1. IsString(s) /\ Len(s) \in Nat
  BY StringProperties DEF NoProduct
<1> TAKE i \in 1..Parts(Len(s))
<1> DEFINE c == Chunks(s)[i]
<1>2. /\ IsString(c) /\ Len(c) = PartLen(i, Len(s))
      /\ \A j \in 1..PartLen(i, Len(s)) : c[j] = s[Off(i - 1) + j]
  BY <1>1, ChunksAre DEF Shaped
<1>3. /\ Off(i - 1) \in Nat /\ PartLen(i, Len(s)) \in 1..B
      /\ Off(i - 1) + PartLen(i, Len(s)) <= Len(s)
  BY <1>1, PartsAre
<1>4. \A j \in 1..PartLen(i, Len(s)) : Off(i - 1) + j \in 1..Len(s)
  BY <1>1, <1>3, BlockLen
<1>5. \A j \in 1..PartLen(i, Len(s)) : \A a \in c[j] : a[1] # "lin"
  BY <1>2, <1>4 DEF NoProduct
<1>6. Len(c) <= B
  BY <1>2, <1>3, BlockLen
<1>7. NoProduct(c)
  <2> HIDE DEF c
  <2> QED
    BY <1>2, <1>5 DEF NoProduct
<1> QED
  BY <1>6, <1>7

LEMMA HashedIs ==
  ASSUME NEW x, NEW h, NEW s, NoProduct(s)
  PROVE  LET n == Parts(Len(s))
             y == MulSeq(n, x, h, Chunks(s))
         IN  /\ Hashed(x, h, s) = y[n] /\ n \in Nat /\ y[0] = x
             /\ \A i \in 1..n : y[i] = Gf128Mul(XorInto(y[i - 1], Chunks(s)[i]), h)
<1>1. IsString(s) /\ Len(s) \in Nat
  BY StringProperties DEF NoProduct
<1>2. Len(Chunks(s)) = Parts(Len(s)) /\ Parts(Len(s)) \in Nat
  BY <1>1, ChunksAre, PartsAre
<1>3. Hashed(x, h, s) = MulSeq(Len(Chunks(s)), x, h, Chunks(s))[Len(Chunks(s))]
  BY DEF Hashed, Absorb, MulSeq
<1> QED
  BY <1>2, <1>3, MulSteps

LEMMA HashedSpread ==
  ASSUME NEW x, NEW h, Spread(x, h), NEW s, NoProduct(s)
  PROVE  LET n == Parts(Len(s))
         IN  /\ \A i \in 0..n : Spread(MulSeq(n, x, h, Chunks(s))[i], h)
             /\ Spread(Hashed(x, h, s), h)
<1> DEFINE n == Parts(Len(s))
           y == MulSeq(n, x, h, Chunks(s))
           c == Chunks(s)
<1>1. /\ Hashed(x, h, s) = y[n] /\ n \in Nat /\ y[0] = x
      /\ \A i \in 1..n : y[i] = Gf128Mul(XorInto(y[i - 1], c[i]), h)
  BY HashedIs
<1>2. \A i \in 1..n : NoProduct(c[i]) /\ Len(c[i]) <= B
  BY NoProductChunks
<1> HIDE DEF y, n, c
<1> DEFINE T == {i \in 0..n : Spread(y[i], h)}
<1>3. ASSUME NEW i \in 0..(n - 1), i \in T PROVE i + 1 \in T
  <2>1. i + 1 \in 1..n /\ i + 1 \in 0..n /\ (i + 1) - 1 = i
    BY <1>1
  <2>2. Spread(Gf128Mul(XorInto(y[i], c[i + 1]), h), h)
    BY <1>2, <1>3, <2>1, SpreadMul
  <2> QED
    BY <1>1, <2>1, <2>2
<1>4. 0 \in T
  BY <1>1
<1> HIDE DEF T
<1>5. 0..n \subseteq T /\ n \in 0..n
  BY <1>1, <1>3, <1>4, UpTo
<1> QED
  BY <1>1, <1>5 DEF T, y, n, c

LEMMA HashedTells ==
  ASSUME NEW x, NEW y, NEW h, Spread(x, h), Spread(y, h), NEW s, NEW t, NoProduct(s), NoProduct(t),
         Len(s) = Len(t), Hashed(x, h, s) = Hashed(y, h, t)
  PROVE  x = y /\ s = t
<1> DEFINE n == Parts(Len(s))
           c == Chunks(s)
           d == Chunks(t)
           f == MulSeq(n, x, h, c)
           g == MulSeq(n, y, h, d)
<1>1. /\ Hashed(x, h, s) = f[n] /\ n \in Nat /\ f[0] = x
      /\ \A i \in 1..n : f[i] = Gf128Mul(XorInto(f[i - 1], c[i]), h)
  BY HashedIs
<1>2. /\ Hashed(y, h, t) = g[n] /\ g[0] = y
      /\ \A i \in 1..n : g[i] = Gf128Mul(XorInto(g[i - 1], d[i]), h)
  BY HashedIs
<1>3. /\ \A i \in 0..n : Spread(f[i], h) /\ Spread(g[i], h)
  BY HashedSpread
<1>4. IsString(s) /\ IsString(t) /\ Len(s) \in Nat
  BY StringProperties DEF NoProduct
<1>5. \A i \in 1..n : /\ NoProduct(c[i]) /\ Len(c[i]) <= B
                      /\ NoProduct(d[i]) /\ Len(c[i]) = Len(d[i])
  BY <1>4, NoProductChunks, ChunksAre DEF Shaped
<1>6. /\ IsString(f[n]) /\ 1 \in 1..B
  BY <1>1, <1>3, BlockLen DEF Spread, IsSpread, IsBlock, Clean
<1>7. Len(c) = n /\ Len(d) = n /\ c = [i \in 1..n |-> c[i]] /\ d = [i \in 1..n |-> d[i]]
  BY <1>4, ChunksAre DEF Shaped
<1>8. FlattenSeq(c) = s /\ FlattenSeq(d) = t
  BY <1>4, FlatOfChunks
<1> HIDE DEF f, g, n, c, d
<1> DEFINE T == {i \in 0..n : f[n - i] = g[n - i] /\ \A j \in ((n - i) + 1)..n : c[j] = d[j]}
<1>9. ASSUME NEW i \in 0..(n - 1), i \in T PROVE i + 1 \in T
  <2> DEFINE m == n - i
  <2>1. m \in 1..n /\ i + 1 \in 0..n /\ n - (i + 1) = m - 1 /\ m - 1 \in 0..n
    BY <1>1
  <2>2. f[m] = g[m] /\ \A j \in (m + 1)..n : c[j] = d[j]
    BY <1>9
  <2> HIDE DEF m
  <2>3. Gf128Mul(XorInto(f[m - 1], c[m]), h)[1] = Gf128Mul(XorInto(g[m - 1], d[m]), h)[1]
    BY <1>1, <1>2, <2>1, <2>2
  <2>4. f[m - 1] = g[m - 1] /\ c[m] = d[m]
    BY <1>3, <1>5, <1>6, <2>1, <2>3, MulTells
  <2>5. \A j \in ((m - 1) + 1)..n : c[j] = d[j]
    BY <1>1, <2>1, <2>2, <2>4
  <2> QED
    BY <2>1, <2>4, <2>5
<1>10. 0 \in T
  <2>1. n - 0 = n /\ 0 \in 0..n /\ ~ (\E j \in (n + 1)..n : TRUE)
    BY <1>1
  <2>2. f[n] = g[n]
    BY <1>1, <1>2
  <2> QED
    BY <2>1, <2>2
<1> HIDE DEF T
<1>11. 0..n \subseteq T
  BY <1>1, <1>9, <1>10, UpTo
<1>14. n \in 0..n /\ n - n = 0 /\ 0 + 1 = 1
  BY <1>1
<1>12. f[0] = g[0] /\ \A j \in 1..n : c[j] = d[j]
  BY <1>11, <1>14 DEF T
<1>13. c = d
  BY <1>7, <1>12
<1> QED
  BY <1>1, <1>2, <1>8, <1>12, <1>13

-----------------------------------------------------------------------------
(* GHASH and the tag of GCM.                                               *)

LensOf(n, m) == [i \in 1..B |-> IF i = 1 THEN Num(n) ELSE IF i = B THEN Num(m) ELSE Zero]

LEMMA LensAre ==
  ASSUME NEW n, NEW m
  PROVE  /\ NoProduct(LensOf(n, m)) /\ Len(LensOf(n, m)) = B
         /\ LensOf(n, m)[1] = Num(n) /\ LensOf(n, m)[B] = Num(m)
<1> DEFINE s == LensOf(n, m)
<1>1. s = [i \in 1..B |-> s[i]]
  BY DEF LensOf
<1>2. /\ \A i \in 1..B : s[i] = Num(n) \/ s[i] = Num(m) \/ s[i] = Zero
      /\ s[1] = Num(n) /\ s[B] = Num(m)
  BY BlockLen DEF LensOf
<1> HIDE DEF s
<1>3. IsString(s) /\ Len(s) = B
  BY <1>1, BlockLen, MadeString
<1>4. \A v : \A a \in Num(v) : a[1] # "lin"
  BY DEF Num
<1>5. \A i \in 1..B : \A a \in s[i] : a[1] # "lin"
  BY <1>2, <1>4 DEF Zero
<1>6. NoProduct(s)
  BY <1>3, <1>5 DEF NoProduct
<1> QED
  BY <1>2, <1>3, <1>6 DEF s

LEMMA SpreadZero ==
  ASSUME NEW h
  PROVE  Spread(ZeroBlock, h)
<1>1. IsSpread(ZeroBlock, h, {})
  <2>1. \A j \in 1..B : ZeroBlock[j] = {}
    BY DEF ZeroBlock, Zero
  <2>2. \A j \in 1..B : {Term(h, t, j) : t \in {}} = {}
    OBVIOUS
  <2> QED
    BY <2>1, <2>2, ZeroIsBlock DEF IsSpread
<1>2. IsTerms({})
  BY DEF IsTerms
<1> QED
  BY <1>1, <1>2 DEF Spread

LEMMA SpreadBlock ==
  ASSUME NEW y, NEW h, Spread(y, h)
  PROVE  IsBlock(y)
BY DEF Spread, IsSpread

LEMMA IntoWhole ==
  ASSUME NEW x, NEW y, IsString(x), IsString(y), Len(x) = Len(y)
  PROVE  Xor(x, y) = XorInto(x, y)
<1>1. Len(x) \in Nat
  BY StringProperties
<1>2. /\ IsString(Xor(x, y)) /\ Len(Xor(x, y)) = Len(x)
      /\ \A i \in 1..Len(x) : Xor(x, y)[i] = SymDiff(x[i], y[i])
  BY <1>1, SumIs
<1>3. /\ IsString(XorInto(x, y)) /\ Len(XorInto(x, y)) = Len(x)
      /\ \A i \in 1..Len(x) : XorInto(x, y)[i] = SymDiff(x[i], y[i])
  BY IntoIs
<1> QED
  BY <1>2, <1>3, SameString

GhashSum(h, aad, ct) == Hashed(Hashed(ZeroBlock, h, aad), h, ct)

LEMMA GhashIs ==
  ASSUME NEW h, NEW aad, NEW ct, NoProduct(aad), NoProduct(ct)
  PROVE  /\ Ghash(h, aad, ct)
              = Gf128Mul(XorInto(GhashSum(h, aad, ct), LensOf(Len(aad), Len(ct))), h)
         /\ Spread(Hashed(ZeroBlock, h, aad), h) /\ Spread(GhashSum(h, aad, ct), h)
<1> DEFINE u == GhashSum(h, aad, ct)
           l == LensOf(Len(aad), Len(ct))
<1>1. Spread(Hashed(ZeroBlock, h, aad), h)
  BY SpreadZero, HashedSpread
<1>2. Spread(u, h)
  BY <1>1, HashedSpread DEF GhashSum
<1>3. Ghash(h, aad, ct) = Gf128Mul(Xor(u, l), h)
  BY DEF Ghash, GhashSum, Hashed, LensOf
<1>4. IsString(l) /\ Len(l) = B
  BY LensAre DEF NoProduct
<1> HIDE DEF u, l
<1>5. IsString(u) /\ Len(u) = B
  BY <1>2, SpreadBlock DEF IsBlock, Clean
<1>6. Xor(u, l) = XorInto(u, l)
  BY <1>4, <1>5, IntoWhole
<1> QED
  BY <1>1, <1>2, <1>3, <1>6 DEF u, l

LEMMA GhashTells ==
  ASSUME NEW h, NEW aad, NEW ct, NoProduct(aad), NoProduct(ct),
         NEW aad2, NEW ct2, NoProduct(aad2), NoProduct(ct2),
         Len(aad) < 256, Len(ct) < 256, Len(aad2) < 256, Len(ct2) < 256,
         NEW j \in 1..B, Ghash(h, aad, ct)[j] = Ghash(h, aad2, ct2)[j]
  PROVE  aad = aad2 /\ ct = ct2
<1> DEFINE u == GhashSum(h, aad, ct)
           l == LensOf(Len(aad), Len(ct))
           v == GhashSum(h, aad2, ct2)
           m == LensOf(Len(aad2), Len(ct2))
           x == Hashed(ZeroBlock, h, aad)
           y == Hashed(ZeroBlock, h, aad2)
<1>1. /\ Ghash(h, aad, ct) = Gf128Mul(XorInto(u, l), h)
      /\ Spread(x, h) /\ Spread(u, h)
  BY GhashIs
<1>2. /\ Ghash(h, aad2, ct2) = Gf128Mul(XorInto(v, m), h)
      /\ Spread(y, h) /\ Spread(v, h)
  BY GhashIs
<1>3. /\ NoProduct(l) /\ Len(l) = B /\ l[1] = Num(Len(aad)) /\ l[B] = Num(Len(ct))
      /\ NoProduct(m) /\ Len(m) = B /\ m[1] = Num(Len(aad2)) /\ m[B] = Num(Len(ct2))
  BY LensAre
<1>4. u = Hashed(x, h, ct) /\ v = Hashed(y, h, ct2)
  BY DEF GhashSum
<1> HIDE DEF u, v, l, m
<1>5. u = v /\ l = m
  <2>1. Gf128Mul(XorInto(u, l), h)[j] = Gf128Mul(XorInto(v, m), h)[j]
    BY <1>1, <1>2, SMTT(30)
  <2> QED
    BY <1>1, <1>2, <1>3, <2>1, BlockLen, MulTells, SMTT(30)
<1>6. /\ Len(aad) \in 0..255 /\ Len(ct) \in 0..255 /\ Len(aad2) \in 0..255 /\ Len(ct2) \in 0..255
  <2>1. ASSUME NEW s, NoProduct(s), Len(s) < 256 PROVE Len(s) \in 0..255
    <3>1. IsString(s)
      BY <2>1 DEF NoProduct
    <3>2. Len(s) \in Nat
      BY <3>1, StringProperties
    <3>3. \A n \in Nat : n < 256 => n \in 0..255
      OBVIOUS
    <3> QED
      BY <2>1, <3>2, <3>3, ZenonT(60)
  <2> QED
    BY <2>1
<1>7. Len(aad) = Len(aad2)
  BY <1>3, <1>5, <1>6, ValueOfNum, ZenonT(60)
<1>8. Len(ct) = Len(ct2)
  BY <1>3, <1>5, <1>6, ValueOfNum
<1> HIDE DEF x, y
<1>9. x = y /\ ct = ct2
  <2>1. Hashed(x, h, ct) = Hashed(y, h, ct2)
    BY <1>4, <1>5
  <2> QED
    BY <1>1, <1>2, <1>8, <2>1, HashedTells
<1>10. aad = aad2
  BY <1>7, <1>9, SpreadZero, HashedTells DEF x, y
<1> QED
  BY <1>9, <1>10

(* Whatever it is made of, its bytes are sums of products.                 *)
LEMMA LinearAtoms ==
  ASSUME NEW f, NEW x, NEW j \in 1..B, NEW a \in Linear(f, x)[j]
  PROVE  a[1] = "lin"
<1> DEFINE mapped(i) == {b \in x[i] : b[1] = "lin" /\ b[2][1] = f}
           z == [jj \in 1..B |->
                  {<< "lin", << f, b[2][2] + 1 >>, b[3], jj >> : b \in mapped(1)}
                    \cup UNION {{<< "lin", << f, 1 >>, << i, b >>, jj >> : b \in x[i] \ mapped(i)}
                                  : i \in 1..B}]
<1>1. Linear(f, x) = SubSeq(z, 1, B)
  BY DEF Linear, Bytes
<1>2. z = [i \in 1..B |-> z[i]]
  OBVIOUS
<1>3. \A b \in z[j] : b[1] = "lin"
  OBVIOUS
<1> HIDE DEF z
<1>4. SubSeq(z, 1, B) = z
  BY <1>2, BlockLen, Tuple
<1> QED
  BY <1>1, <1>3, <1>4

LEMMA GhashBlock ==
  ASSUME NEW h, NEW aad, NEW ct
  PROVE  /\ IsBlock(Ghash(h, aad, ct))
         /\ \A j \in 1..B : \A a \in Ghash(h, aad, ct)[j] : a[1] = "lin"
<1>1. \E x : Ghash(h, aad, ct) = Gf128Mul(x, h)
  BY DEF Ghash
<1>2. \E f, x : Ghash(h, aad, ct) = Linear(f, x)
  BY <1>1 DEF Gf128Mul
<1> QED
  BY <1>2, LinearBlock, LinearAtoms

LEMMA GcmTagIs ==
  ASSUME NEW k, NEW nonce, Clean(nonce), Len(nonce) = B - 1, NEW aad, NEW ct
  PROVE  LET t == GcmTag(k, nonce, aad, ct)
             g == Ghash(E(k, ZeroBlock), aad, ct)
         IN  /\ IsString(t) /\ Len(t) = B /\ Clean(t)
             /\ \A j \in 1..B : t[j] = g[j] \cup {Made(k, NonceAnd(nonce, 1), j)}
             /\ \A j \in 1..B : \A a \in g[j] : a[1] = "lin"
<1> DEFINE t == GcmTag(k, nonce, aad, ct)
           g == Ghash(E(k, ZeroBlock), aad, ct)
           e == E(k, NonceAnd(nonce, 1))
<1>1. t = Xor(g, e)
  BY DEF GcmTag, GcmJ0, NonceAnd
<1>2. IsBlock(NonceAnd(nonce, 1))
  BY NonceAndIs
<1>3. IsBlock(e) /\ \A j \in 1..B : e[j] = {Made(k, NonceAnd(nonce, 1), j)}
  BY <1>2, BlockEnciphered, EncipheredIs, BlockLen DEF IsBlock
<1>4. IsBlock(g) /\ \A j \in 1..B : \A a \in g[j] : a[1] = "lin"
  BY GhashBlock
<1> HIDE DEF g, e, t
<1>5. /\ IsString(Xor(g, e)) /\ Len(Xor(g, e)) = B
      /\ \A j \in 1..B : Xor(g, e)[j] = SymDiff(g[j], e[j])
  BY <1>3, <1>4, BlockLen, SumIs DEF IsBlock, Clean
<1>6. Clean(t)
  BY <1>1, <1>3, <1>4, BlockSum DEF IsBlock
<1>7. ASSUME NEW j \in 1..B PROVE t[j] = g[j] \cup {Made(k, NonceAnd(nonce, 1), j)}
  <2>1. Made(k, NonceAnd(nonce, 1), j) \notin g[j]
    BY <1>4 DEF Made
  <2>2. t[j] = SymDiff(g[j], {Made(k, NonceAnd(nonce, 1), j)})
    BY <1>1, <1>3, <1>5
  <2> QED
    BY <2>1, <2>2 DEF SymDiff
<1> QED
  BY <1>1, <1>4, <1>5, <1>6, <1>7 DEF g, t

LEMMA GcmTagByte ==
  ASSUME NEW k, NEW nonce, Clean(nonce), Len(nonce) = B - 1, NEW aad, NEW ct, NEW j \in 1..B
  PROVE  /\ GcmTag(k, nonce, aad, ct)[j]
              = Ghash(E(k, ZeroBlock), aad, ct)[j] \cup {Made(k, NonceAnd(nonce, 1), j)}
         /\ \A a \in Ghash(E(k, ZeroBlock), aad, ct)[j] : a[1] = "lin"
BY GcmTagIs

\* It is a byte of the hash and the atom of the mask.
SumWith(y, z) == \E g : y = g \cup {z} /\ \A a \in g : a[1] = "lin"

LEMMA GcmTagMade ==
  ASSUME NEW nonce, Clean(nonce), Len(nonce) = B - 1, NEW aad, NEW ct,
         NEW t, t = GcmTag("k", nonce, aad, ct), NEW j \in 1..B
  PROVE  SumWith(t[j], Made("k", NonceAnd(nonce, 1), j))
<1>1. PICK g : g = Ghash(E("k", ZeroBlock), aad, ct)[j]
  OBVIOUS
<1>2. /\ GcmTag("k", nonce, aad, ct)[j] = g \cup {Made("k", NonceAnd(nonce, 1), j)}
      /\ \A a \in g : a[1] = "lin"
  BY <1>1, GcmTagByte
<1> QED
  BY <1>2 DEF SumWith

\* The lengths fit in the bytes that GHASH takes them in.
UnderTag(nonce, aad, ct) ==
  /\ Clean(nonce) /\ Len(nonce) = B - 1
  /\ NoProduct(aad) /\ NoProduct(ct) /\ Len(aad) < 256 /\ Len(ct) < 256

LEMMA GcmTagTells ==
  ASSUME NEW k, NEW nonce, NEW aad, NEW ct, UnderTag(nonce, aad, ct),
         NEW nonce2, NEW aad2, NEW ct2, UnderTag(nonce2, aad2, ct2),
         NEW j \in 1..B, GcmTag(k, nonce, aad, ct)[j] = GcmTag(k, nonce2, aad2, ct2)[j]
  PROVE  nonce = nonce2 /\ aad = aad2 /\ ct = ct2
<1> DEFINE h == E(k, ZeroBlock)
           x == NonceAnd(nonce, 1)
           y == NonceAnd(nonce2, 1)
           g == Ghash(h, aad, ct)[j]
           g2 == Ghash(h, aad2, ct2)[j]
<1>0. /\ Clean(nonce) /\ Len(nonce) = B - 1 /\ NoProduct(aad) /\ NoProduct(ct)
      /\ Len(aad) < 256 /\ Len(ct) < 256
      /\ Clean(nonce2) /\ Len(nonce2) = B - 1 /\ NoProduct(aad2) /\ NoProduct(ct2)
      /\ Len(aad2) < 256 /\ Len(ct2) < 256
  BY DEF UnderTag
<1>1. GcmTag(k, nonce, aad, ct)[j] = g \cup {Made(k, x, j)}
  <2>1. ASSUME NEW n, NEW a, NEW c, Clean(n), Len(n) = B - 1
        PROVE  GcmTag(k, n, a, c)[j]
                 = Ghash(E(k, ZeroBlock), a, c)[j] \cup {Made(k, NonceAnd(n, 1), j)}
    BY <2>1, GcmTagByte
  <2>2. Clean(nonce) /\ Len(nonce) = B - 1
    BY <1>0
  <2>3. GcmTag(k, nonce, aad, ct)[j]
          = Ghash(E(k, ZeroBlock), aad, ct)[j] \cup {Made(k, NonceAnd(nonce, 1), j)}
    BY <2>1, <2>2
  <2> QED
    BY <2>3
<1>10. \A a \in g : a[1] = "lin"
  BY <1>0, GcmTagByte
<1>2. GcmTag(k, nonce2, aad2, ct2)[j] = g2 \cup {Made(k, y, j)}
  BY <1>0, GcmTagByte
<1>9. \A a \in g2 : a[1] = "lin"
  BY <1>0, GcmTagByte
<1>3. Made(k, x, j)[1] # "lin" /\ Made(k, y, j)[1] # "lin"
  BY DEF Made
<1>4. IsString(x) /\ IsString(y)
  BY <1>0, NonceAndIs DEF IsBlock, Clean
<1> HIDE DEF g, g2, x, y
<1>5. g = g2 /\ Made(k, x, j) = Made(k, y, j)
  BY <1>1, <1>2, <1>3, <1>9, <1>10
<1>6. x = y
  BY <1>4, <1>5, MadeTells
<1>7. nonce = nonce2
  <2>1. 1 \in 0..255 /\ NonceAnd(nonce, 1) = NonceAnd(nonce2, 1)
    BY <1>6 DEF x, y
  <2> QED
    BY <1>0, <2>1, NonceTells, ZenonT(60)
<1> HIDE DEF h
<1>8. aad = aad2 /\ ct = ct2
  BY <1>0, <1>5, GhashTells DEF g, g2
<1> QED
  BY <1>7, <1>8

-----------------------------------------------------------------------------
(* Strings near two others, one in front and the other in the last B       *)
(* bytes, and strings whose last byte stood elsewhere or came from outside. *)

OrFlipped(c, d) == c = d \/ c = SymDiff(d, X)
Near(o, v, w) ==
  /\ IsString(o) /\ Len(o) = Len(v)
  /\ \A i \in 1..(Len(v) - B) : OrFlipped(o[i], v[i])
  /\ \A i \in 1..B : OrFlipped(o[(Len(v) - B) + i], w[(Len(w) - B) + i])
Displaced(o, W) ==
  \/ o[Len(o)] = X
  \/ \E w \in W : /\ Len(o) = Len(w) + 1 /\ o[Len(o)] = Zero
                  /\ \A i \in 1..Len(w) : o[i] = w[i]
  \/ \E w \in W : \E i \in 1..(Len(w) - 1) : o[Len(o)] = w[i]

IsWire(w) == Clean(w) /\ Len(w) >= B

LEMMA FlipNear ==
  ASSUME NEW w, IsWire(w), NEW o \in Flipped(w)
  PROVE  Clean(o) /\ Near(o, w, w)
<1>1. IsString(w) /\ Len(w) \in Nat /\ DOMAIN w = 1..Len(w) /\ B \in Nat
  BY StringProperties, BlockLen DEF IsWire, Clean
<1>2. PICK i \in 1..Len(w) : o = [w EXCEPT ![i] = SymDiff(w[i], X)]
  BY <1>1 DEF Flipped
<1>3. \A a \in SymDiff(w[i], X) : a[1] # "D"
  BY <1>2 DEF IsWire, Clean, SymDiff, X
<1>4. Clean(o) /\ Len(o) = Len(w)
  BY <1>1, <1>2, <1>3, CleanChanged DEF IsWire, CleanByte
<1>5. \A j \in 1..Len(w) : OrFlipped(o[j], w[j])
  BY <1>1, <1>2, ChangedIs DEF OrFlipped
<1>6. /\ \A j \in 1..(Len(w) - B) : j \in 1..Len(w)
      /\ \A j \in 1..B : (Len(w) - B) + j \in 1..Len(w)
  BY <1>1 DEF IsWire
<1>7. IsString(o)
  BY <1>4 DEF Clean
<1>8. \A j \in 1..(Len(w) - B) : OrFlipped(o[j], w[j])
  BY <1>5, <1>6
<1>9. \A j \in 1..B : OrFlipped(o[(Len(w) - B) + j], w[(Len(w) - B) + j])
  BY <1>5, <1>6
<1> QED
  BY <1>4, <1>7, <1>8, <1>9 DEF Near

LEMMA ResizedDisplaced ==
  ASSUME NEW W, NEW w \in W, IsWire(w), NEW o \in Resized(w)
  PROVE  Clean(o) /\ Displaced(o, W)
<1>1. IsString(w) /\ Len(w) \in Nat /\ DOMAIN w = 1..Len(w) /\ B \in Nat /\ Len(w) >= 3
  BY StringProperties, BlockLen DEF IsWire, Clean
<1>2. CASE o \in {Append(w, Zero), Append(w, X)}
  <2>1. PICK e \in {Zero, X} : o = Append(w, e)
    BY <1>2
  <2>2. /\ o = [i \in 1..(Len(w) + 1) |-> o[i]] /\ o[Len(w) + 1] = e
        /\ \A i \in 1..Len(w) : o[i] = w[i]
    BY <1>1, <2>1, AppendMakes
  <2>3. \A a \in e : a[1] # "D"
    BY DEF Zero, X
  <2>4. \A i \in 1..(Len(w) + 1) : i \in 1..Len(w) \/ i = Len(w) + 1
    BY <1>1
  <2>5. \A i \in 1..(Len(w) + 1) : \A a \in o[i] : a[1] # "D"
    BY <2>2, <2>3, <2>4 DEF IsWire, Clean
  <2>6. Clean(o) /\ Len(o) = Len(w) + 1
    <3> HIDE DEF IsWire
    <3> QED
      BY <1>1, <2>2, <2>5, CleanMade
  <2> QED
    BY <2>2, <2>6 DEF Displaced
<1>3. CASE o = Front(w)
  <2>1. o = SubSeq(w, 1, Len(w) - 1)
    BY <1>3 DEF Front
  <2>2. Len(w) - 1 \in Nat /\ Len(w) - 1 <= Len(w) /\ Len(w) - 1 \in 1..(Len(w) - 1)
    BY <1>1
  <2>3. Clean(o) /\ Len(o) = Len(w) - 1
    BY <1>1, <2>1, <2>2, CleanPart DEF IsWire
  <2>4. o[Len(w) - 1] = w[Len(w) - 1]
    BY <1>1, <2>1, <2>2, PartIs
  <2> QED
    BY <2>2, <2>3, <2>4 DEF Displaced
<1> QED
  BY <1>2, <1>3 DEF Resized

LEMMA SpliceNear ==
  ASSUME NEW v, NEW w, IsWire(v), IsWire(w)
  PROVE  LET o == SubSeq(v, 1, Len(v) - B) \o SubSeq(w, Len(w) - B + 1, Len(w))
         IN  Clean(o) /\ Near(o, v, w)
<1> DEFINE n == Len(v) - B
           m == Len(w) - B
           p == SubSeq(v, 1, n)
           q == SubSeq(w, m + 1, Len(w))
           o == p \o q
<1>1. /\ IsString(v) /\ IsString(w) /\ Len(v) \in Nat /\ Len(w) \in Nat /\ B \in Nat
      /\ n \in Nat /\ m \in Nat /\ n <= Len(v) /\ m + 1 \in Nat \ {0} /\ m + 1 <= Len(w) + 1
      /\ Len(w) - (m + 1) + 1 = B /\ n + B = Len(v)
  BY StringProperties, BlockLen DEF IsWire, Clean
<1>2. /\ Clean(p) /\ Len(p) = n /\ \A i \in 1..n : p[i] = v[i]
  <2>1. n - 1 + 1 = n /\ 1 \in Nat \ {0} /\ 1 <= n + 1 /\ \A i \in 1..n : 1 + i - 1 = i
    BY <1>1
  <2> HIDE DEF n, m
  <2>2. Clean(p) /\ Len(p) = n
    BY <1>1, <2>1, CleanPart DEF IsWire
  <2>3. \A i \in 1..n : p[i] = v[1 + i - 1]
    BY <1>1, <2>1, PartIs
  <2> QED
    BY <2>1, <2>2, <2>3
<1>3. /\ Clean(q) /\ Len(q) = B /\ \A i \in 1..B : q[i] = w[m + i]
  <2>1. \A i \in 1..B : (m + 1) + i - 1 = m + i
    BY <1>1
  <2> HIDE DEF n, m
  <2>2. Clean(q) /\ Len(q) = B
    BY <1>1, CleanPart DEF IsWire
  <2>3. \A i \in 1..B : q[i] = w[(m + 1) + i - 1]
    BY <1>1, PartIs, SMTT(30)
  <2> QED
    BY <2>1, <2>2, <2>3
<1> HIDE DEF p, q, n, m
<1>4. Clean(o) /\ Len(o) = Len(v)
  BY <1>1, <1>2, <1>3, CleanJoin
<1>5. \A i \in 1..(Len(p) + Len(q)) : o[i] = IF i <= Len(p) THEN p[i] ELSE q[i - Len(p)]
  BY <1>2, <1>3, Joined DEF Clean
<1>6. \A i \in 1..n : o[i] = v[i]
  BY <1>1, <1>2, <1>3, <1>5
<1>7. \A i \in 1..B : o[n + i] = w[m + i]
  <2> TAKE i \in 1..B
  <2>1. n + i \in 1..(n + B) /\ ~ (n + i <= n) /\ n + i - n = i
    BY <1>1
  <2> QED
    BY <1>2, <1>3, <1>5, <2>1
<1> QED
  BY <1>4, <1>6, <1>7 DEF Near, OrFlipped, n, m, p, q, Clean

-----------------------------------------------------------------------------
(* A string that ends in a tag of GCM, and what opens as one.              *)

TagAtom(a) == \E m : Clean(m) /\ Len(m) = B - 1 /\ a = Made("k", NonceAnd(m, 1), B)

\* The first h bytes are not under the tag.
GcmWire(w, h, nonce, aad) ==
  /\ IsWire(w) /\ Len(w) >= h + B /\ Len(w) < 256
  /\ Clean(nonce) /\ Len(nonce) = B - 1 /\ NoProduct(aad) /\ Len(aad) < 256
  /\ \A i \in 1..(Len(w) - 1) : \A a \in w[i] : ~ TagAtom(a)
  /\ NoProduct(SubSeq(w, h + 1, Len(w) - B))
  /\ SubSeq(w, (Len(w) - B) + 1, Len(w)) = GcmTag("k", nonce, aad, SubSeq(w, h + 1, Len(w) - B))

LEMMA WireParts ==
  ASSUME NEW h \in Nat, NEW w, IsString(w), Len(w) >= h + B
  PROVE  LET c == SubSeq(w, h + 1, Len(w) - B)
             t == SubSeq(w, (Len(w) - B) + 1, Len(w))
         IN  /\ Len(w) \in Nat /\ Len(w) - B \in Nat
             /\ IsString(c) /\ Len(c) = (Len(w) - B) - h /\ Len(c) \in Nat
             /\ \A i \in 1..((Len(w) - B) - h) : c[i] = w[h + i]
             /\ IsString(t) /\ Len(t) = B /\ \A i \in 1..B : t[i] = w[(Len(w) - B) + i]
             /\ t[B] = w[Len(w)]
<1> DEFINE n == Len(w)
           m == n - B
           c == SubSeq(w, h + 1, m)
           t == SubSeq(w, m + 1, n)
<1>1. n \in Nat /\ B \in Nat
  BY StringProperties, BlockLen
<1> HIDE DEF n
<1>2. /\ m \in Nat /\ m <= n /\ h + 1 \in Nat \ {0} /\ h + 1 <= m + 1 /\ m - (h + 1) + 1 = m - h
      /\ m - h \in Nat
      /\ m + 1 \in Nat \ {0} /\ n <= n /\ m + 1 <= n + 1 /\ n - (m + 1) + 1 = B /\ m + B = n
  BY <1>1 DEF n
<1>3. B \in 1..B
  BY BlockLen
<1> HIDE DEF m
<1>4. \A i \in 1..(m - h) : (h + 1) + i - 1 = h + i
  BY <1>1
<1>5. \A i \in 1..B : (m + 1) + i - 1 = m + i
  BY <1>2
<1>6. /\ IsString(c) /\ Len(c) = m - h
      /\ \A i \in 1..(m - h) : c[i] = w[(h + 1) + i - 1]
  BY <1>1, <1>2, PartIs DEF n
<1>7. /\ IsString(t) /\ Len(t) = B
      /\ \A i \in 1..B : t[i] = w[(m + 1) + i - 1]
  BY <1>1, <1>2, PartIs DEF n
<1> HIDE DEF c, t
<1>8. t[B] = w[n]
  BY <1>2, <1>3, <1>5, <1>7
<1>9. /\ \A i \in 1..(m - h) : c[i] = w[h + i]
      /\ \A i \in 1..B : t[i] = w[m + i]
  BY <1>4, <1>5, <1>6, <1>7
<1> QED
  BY <1>1, <1>2, <1>6, <1>7, <1>8, <1>9 DEF c, t, m, n

LEMMA PlainByte ==
  ASSUME NEW k, NEW nonce, Clean(nonce), Len(nonce) = B - 1, NEW aad, NEW ct
  PROVE  /\ << "x", 0 >> \notin GcmTag(k, nonce, aad, ct)[B]
         /\ Made(k, NonceAnd(nonce, 1), B) \in GcmTag(k, nonce, aad, ct)[B]
<1> DEFINE g == Ghash(E(k, ZeroBlock), aad, ct)[B]
           m == Made(k, NonceAnd(nonce, 1), B)
<1>1. B \in 1..B
  BY BlockLen
<1>2. GcmTag(k, nonce, aad, ct)[B] = g \cup {m}
  BY <1>1, GcmTagIs
<1>3. \A a \in g : a[1] = "lin"
  BY <1>1, GcmTagIs
<1>4. << "x", 0 >>[1] = "x" /\ m[1] = "E"
  BY DEF Made
<1> HIDE DEF g, m
<1>5. << "x", 0 >> \notin g /\ << "x", 0 >> # m
  BY <1>3, <1>4
<1> QED
  BY <1>2, <1>5 DEF m

AreGcmWires(W, h) == \A w \in W : \E n, a : GcmWire(w, h, n, a)
\* o opens under a nonce and an aad, and so is a wire of W sealed under them.
GcmOpens(o, h, nonce, aad) ==
  /\ Len(o) >= h + B /\ Clean(nonce) /\ Len(nonce) = B - 1 /\ NoProduct(aad) /\ Len(aad) < 256
  /\ GcmTag("k", nonce, aad, SubSeq(o, h + 1, Len(o) - B))
       = SubSeq(o, (Len(o) - B) + 1, Len(o))
IsOneOf(o, W, h, nonce, aad) ==
  \E w \in W : \A n, a : GcmWire(w, h, n, a) =>
    /\ n = nonce /\ a = aad /\ Len(o) = Len(w)
    /\ \A i \in (h + 1)..Len(w) : o[i] = w[i]

-----------------------------------------------------------------------------
(* What GCM seals.                                                         *)

LEMMA GcmSealIs ==
  ASSUME NEW nonce, Clean(nonce), Len(nonce) = B - 1, NEW aad, NEW p, Clean(p)
  PROVE  LET ct == KeyStreamed("k", GcmCounters(nonce, p), p)
             s == EncryptGcm("k", nonce, aad, p)
         IN  /\ s.ct = ct /\ s.tag = GcmTag("k", nonce, aad, ct) /\ Combined(s) = ct \o s.tag
             /\ Clean(ct) /\ Len(ct) = Len(p)
             /\ \A q \in 1..Parts(Len(p)) : IsBlock(GcmCounters(nonce, p)[q])
<1> DEFINE n == Len(Chunks(p))
           first == GcmCtrInc(GcmJ0(nonce))
           ctrs == GcmCounters(nonce, p)
           ct == KeyStreamed("k", ctrs, p)
<1>1. n = Parts(Len(p)) /\ n \in Nat
  BY CleanChunks
<1>2. IsBlock(first)
  BY J0Block, Incremented, BlockLen DEF GcmCtrInc
<1> HIDE DEF first, n
<1>3. ctrs = Counters(GcmCtrInc, first, n)
  BY DEF GcmCounters, first, n
<1>4. \A i \in 1..n : IsBlock(ctrs[i])
  BY <1>1, <1>2, <1>3, GcmBlocks
<1>5. EncryptGcm("k", nonce, aad, p) = Sealed(ct, GcmTag("k", nonce, aad, ct))
  BY DEF EncryptGcm, GcmSealed
<1> HIDE DEF ctrs
<1>6. Clean(ct) /\ Len(ct) = Len(p)
  BY <1>1, <1>4, KeyStreamBack
<1> DEFINE s == EncryptGcm("k", nonce, aad, p)
<1>7. s.ct = ct /\ s.tag = GcmTag("k", nonce, aad, ct)
  BY <1>5 DEF Sealed
<1>8. Combined(s) = ct \o s.tag
  BY <1>7 DEF Combined
<1> QED
  BY <1>1, <1>4, <1>6, <1>7, <1>8 DEF ctrs

Joins(u, x, y) ==
  /\ Clean(u) /\ Len(x) \in Nat /\ Len(y) \in Nat /\ Len(u) = Len(x) + Len(y)
  /\ \A i \in 1..Len(x) : u[i] = x[i]
  /\ \A i \in 1..Len(y) : u[Len(x) + i] = y[i]
  /\ SubSeq(u, 1, Len(x)) = x /\ SubSeq(u, Len(x) + 1, Len(x) + Len(y)) = y

LEMMA JoinedParts ==
  ASSUME NEW x, NEW y, Clean(x), Clean(y)
  PROVE  Joins(x \o y, x, y)
<1> DEFINE n == Len(x)
           m == Len(y)
           u == x \o y
<1>1. IsString(x) /\ IsString(y) /\ n \in Nat /\ m \in Nat
  BY StringProperties DEF Clean
<1>2. Clean(u) /\ Len(u) = n + m /\ IsString(u)
  BY <1>1, CleanJoin, Joined
<1>3. \A i \in 1..(n + m) : u[i] = IF i <= n THEN x[i] ELSE y[i - n]
  BY <1>1, Joined
<1>4. SubSeq(u, 1, n) = x /\ SubSeq(u, n + 1, n + m) = y
  BY <1>1, JoinedBack
<1> HIDE DEF u, n, m
<1>5. \A i \in 1..n : u[i] = x[i]
  BY <1>1, <1>3
<1>6. ASSUME NEW i \in 1..m PROVE u[n + i] = y[i]
  <2>1. n + i \in 1..(n + m) /\ ~ (n + i <= n) /\ (n + i) - n = i
    BY <1>1
  <2> QED
    BY <1>3, <2>1
<1> QED
  BY <1>1, <1>2, <1>4, <1>5, <1>6 DEF u, n, m, Joins

Stands(v, w, l, k) == \A i \in 1..k : w[l + i] = v[i]

\* w is x, y and z one after another.
Divides(w, x, y, z) ==
  LET h == Len(x)
      m == Len(y)
      b == Len(z)
      n == Len(w)
  IN  /\ Clean(w) /\ h \in Nat /\ m \in Nat /\ b \in Nat /\ n = h + (m + b) /\ n - b = h + m
      /\ \A i \in 1..h : w[i] = x[i]
      /\ \A i \in 1..m : w[h + i] = y[i]
      /\ \A i \in 1..b : w[h + (m + i)] = z[i]
      /\ SubSeq(w, 1, h) = x /\ SubSeq(w, h + 1, n - b) = y /\ SubSeq(w, (n - b) + 1, n) = z

LEMMA Middle ==
  ASSUME NEW x, NEW y, NEW z, Clean(x), Clean(y), Clean(z)
  PROVE  Divides(x \o (y \o z), x, y, z)
<1> SUFFICES ASSUME NEW w, w = x \o (y \o z) PROVE Divides(w, x, y, z)
  OBVIOUS
<1>0. PICK h, m, b, n : h = Len(x) /\ m = Len(y) /\ b = Len(z) /\ n = Len(w)
  OBVIOUS
<1>1. /\ h \in Nat /\ m \in Nat /\ b \in Nat /\ IsString(x) /\ IsString(y) /\ IsString(z)
  BY <1>0, StringProperties DEF Clean
<1>2. PICK u : u = y \o z
  OBVIOUS
<1>3. /\ Clean(u) /\ Len(u) = m + b /\ \A i \in 1..m : u[i] = y[i]
      /\ \A i \in 1..b : u[m + i] = z[i]
  <2>1. Joins(u, y, z)
    BY <1>2, JoinedParts
  <2> QED
    BY <1>0, <2>1 DEF Joins
<1>4. w = x \o u
  BY <1>2
<1>5. /\ Clean(w) /\ IsString(w) /\ Len(w) = Len(x) + Len(u)
      /\ \A i \in 1..Len(x) : w[i] = x[i]
      /\ \A i \in 1..Len(u) : w[Len(x) + i] = u[i]
      /\ SubSeq(w, 1, Len(x)) = x
  <2>1. Joins(w, x, u)
    BY <1>3, <1>4, JoinedParts
  <2> QED
    BY <2>1 DEF Joins, Clean
<1>6. /\ n = h + (m + b) /\ \A i \in 1..h : w[i] = x[i]
      /\ \A i \in 1..(m + b) : w[h + i] = u[i] /\ SubSeq(w, 1, h) = x
  BY <1>0, <1>3, <1>5
<1>7. n - b = h + m /\ n \in Nat
  BY <1>1, <1>6
<1>8. \A i \in 1..m : w[h + i] = y[i]
  <2>1. \A i \in 1..m : i \in 1..(m + b)
    BY <1>1
  <2> QED
    BY <1>3, <1>6, <2>1
<1>9. \A i \in 1..b : w[h + (m + i)] = z[i]
  <2>1. \A i \in 1..b : m + i \in 1..(m + b)
    BY <1>1
  <2> QED
    BY <1>3, <1>6, <2>1
<1>10. ASSUME NEW l \in Nat, NEW k \in Nat, NEW d \in Nat, l + k = d, d <= n,
              NEW v, IsString(v), Len(v) = k, Stands(v, w, l, k)
       PROVE  SubSeq(w, l + 1, d) = v
  <2>1. PICK s : s = SubSeq(w, l + 1, d)
    OBVIOUS
  <2>2. PICK a \in Nat \ {0} : a = l + 1
    BY <1>10
  <2>3. d - a + 1 = k /\ a <= d + 1 /\ d <= Len(w) /\ \A i \in 1..k : a + i - 1 = l + i
    BY <1>0, <1>10, <2>2
  <2>4. /\ IsString(s) /\ Len(s) = d - a + 1
        /\ \A i \in 1..(d - a + 1) : s[i] = w[a + i - 1]
    <3>1. a \in Nat \ {0} /\ d <= Len(w) /\ a <= d + 1 /\ IsString(w)
      BY <1>0, <1>5, <2>2, <2>3
    <3>2. s = SubSeq(w, a, d)
      BY <2>1, <2>2
    <3> QED
      BY <3>1, <3>2, PartIs
  <2>5. Len(s) = k /\ \A i \in 1..k : s[i] = v[i]
    BY <1>10, <2>3, <2>4 DEF Stands
  <2>6. s = v
    BY <1>10, <2>4, <2>5, SameString
  <2> QED
    BY <2>1, <2>6
<1>11. SubSeq(w, h + 1, n - b) = y
  <2>1. h + m \in Nat /\ h + m <= n
    BY <1>1, <1>6
  <2> QED
    <3>1. Stands(y, w, h, m) /\ IsString(y) /\ Len(y) = m /\ h \in Nat /\ m \in Nat
      BY <1>0, <1>1, <1>8 DEF Stands
    <3>2. SubSeq(w, h + 1, h + m) = y
      BY <1>10, <2>1, <3>1
    <3> QED
      BY <1>7, <3>2
<1>12. SubSeq(w, (n - b) + 1, n) = z
  <2>1. /\ h + m \in Nat /\ (h + m) + b = n /\ n <= n
        /\ \A i \in 1..b : h + (m + i) = (h + m) + i
    BY <1>1, <1>6
  <2>2. \A i \in 1..b : w[(h + m) + i] = z[i]
    BY <1>9, <2>1
  <2>3. SubSeq(w, (h + m) + 1, n) = z
    <3>1. Stands(z, w, h + m, b) /\ IsString(z) /\ Len(z) = b /\ b \in Nat /\ n \in Nat
      BY <1>0, <1>1, <1>7, <2>2 DEF Stands
    <3> QED
      BY <1>10, <2>1, <3>1
  <2> QED
    BY <1>7, <2>3
<1> QED
  BY <1>0, <1>1, <1>5, <1>6, <1>7, <1>8, <1>9, <1>11, <1>12 DEF Divides

IsSealWire(w, s, nonce, aad, len, head) ==
  /\ GcmWire(w, Len(head), nonce, aad) /\ Len(w) = Len(head) + len + B
  /\ SubSeq(w, 1, Len(head)) = head
  /\ SubSeq(w, Len(head) + 1, Len(w) - B) = s.ct
  /\ SubSeq(w, (Len(w) - B) + 1, Len(w)) = s.tag

LEMMA EmptyAad == NoProduct(<< >>) /\ Len(<< >>) = 0
<1>1. IsString(<< >>) /\ Len(<< >>) = 0
  BY Empty
<1> QED
  BY <1>1 DEF NoProduct

-----------------------------------------------------------------------------
(* The MAC of CCM: what goes into the cipher last tells all that went in.  *)

\* Counters begin with a 2; what the MAC enciphers does not.
NotCounter(z) == IsBlock(z) /\ z[1] # Num(2)
MacAtom(a) == \E z : NotCounter(z) /\ \E i : a = Made("k", z, i)
IsTaken(c) ==
  Clean(c) /\ Len(c) \in 1..B /\ \A j \in 1..Len(c) : \A a \in c[j] : ~ MacAtom(a)
ByteAt(c, j) == IF j <= Len(c) THEN c[j] ELSE Zero

LEMMA TakenIs ==
  ASSUME NEW z, IsBlock(z), NEW c, Clean(c)
  PROVE  LET x == XorInto(E("k", z), c)
         IN  /\ IsBlock(x)
             /\ \A j \in 1..B : x[j] = SymDiff({Made("k", z, j)}, ByteAt(c, j))
<1> DEFINE e == E("k", z)
           x == XorInto(e, c)
<1>1. IsBlock(e) /\ Clean(e) /\ Len(e) = B /\ Len(z) >= 1 /\ Clean(z) /\ Len(z) = B
  BY BlockEnciphered, BlockLen DEF IsBlock
<1>2. \A j \in 1..B : e[j] = {Made("k", z, j)}
  BY <1>1, EncipheredIs
<1> HIDE DEF e
<1>3. Clean(x) /\ Len(x) = B
  BY <1>1, CleanInto
<1>4. \A j \in 1..B : x[j] = IF j <= Len(c) THEN SymDiff(e[j], c[j]) ELSE e[j]
  BY <1>1, IntoIs DEF Clean
<1>5. \A y : SymDiff(y, Zero) = y
  BY DEF SymDiff, Zero
<1>6. \A j \in 1..B : x[j] = SymDiff({Made("k", z, j)}, ByteAt(c, j))
  BY <1>2, <1>4, <1>5 DEF ByteAt
<1> QED
  BY <1>3, <1>6 DEF e, IsBlock

LEMMA TakenShows ==
  ASSUME NEW z, NotCounter(z), NEW c, IsTaken(c)
  PROVE  LET x == XorInto(E("k", z), c)
         IN  /\ NotCounter(x) /\ Made("k", z, 1) \in x[1]
             /\ \A y : NotCounter(y) /\ Made("k", y, 1) \in x[1] => y = z
<1> DEFINE x == XorInto(E("k", z), c)
           m == Made("k", z, 1)
<1>1. 1 \in 1..B /\ 1 \in 1..Len(c) /\ 1 <= Len(c)
  BY BlockLen DEF IsTaken
<1>2. IsBlock(x) /\ x[1] = SymDiff({m}, c[1])
  <2>1. IsBlock(x) /\ x[1] = SymDiff({m}, ByteAt(c, 1))
    BY <1>1, TakenIs DEF IsTaken, NotCounter
  <2> QED
    BY <1>1, <2>1 DEF ByteAt
<1>3. MacAtom(m)
  BY DEF MacAtom
<1>4. \A a \in c[1] : ~ MacAtom(a)
  BY <1>1 DEF IsTaken
<1> HIDE DEF x
<1>5. m \in x[1]
  BY <1>2, <1>3, <1>4 DEF SymDiff
<1>6. x[1] # Num(2)
  <2>1. m[1] = "E" /\ \A a \in Num(2) : a[1] = "bit"
    BY DEF Made, Num
  <2> QED
    BY <1>5, <2>1
<1>7. ASSUME NEW y, NotCounter(y), Made("k", y, 1) \in x[1] PROVE y = z
  <2>1. MacAtom(Made("k", y, 1))
    BY <1>7 DEF MacAtom
  <2>2. Made("k", y, 1) = m
    BY <1>2, <1>4, <1>7, <2>1 DEF SymDiff
  <2>3. IsString(y) /\ IsString(z)
    BY <1>7 DEF NotCounter, IsBlock, Clean
  <2> QED
    BY <2>2, <2>3, MadeTells
<1> QED
  BY <1>2, <1>5, <1>6, <1>7 DEF x, NotCounter

LEMMA TakenTells ==
  ASSUME NEW z, NotCounter(z), NEW c, IsTaken(c), NEW y, NotCounter(y), NEW d, IsTaken(d),
         XorInto(E("k", z), c) = XorInto(E("k", y), d)
  PROVE  z = y /\ \A j \in 1..B : ByteAt(c, j) = ByteAt(d, j)
<1> DEFINE x == XorInto(E("k", z), c)
<1>1. Made("k", z, 1) \in x[1]
  BY TakenShows
<1>2. \A u : NotCounter(u) /\ Made("k", u, 1) \in XorInto(E("k", y), d)[1] => u = y
  BY TakenShows
<1>3. z = y
  BY <1>1, <1>2
<1>4. \A j \in 1..B : x[j] = SymDiff({Made("k", z, j)}, ByteAt(c, j))
  BY TakenIs DEF NotCounter, IsTaken
<1>5. \A j \in 1..B : XorInto(E("k", y), d)[j] = SymDiff({Made("k", y, j)}, ByteAt(d, j))
  BY TakenIs DEF NotCounter, IsTaken
<1>6. \A j \in 1..B :
        SymDiff({Made("k", z, j)}, ByteAt(c, j)) = SymDiff({Made("k", z, j)}, ByteAt(d, j))
  BY <1>3, <1>4, <1>5
<1>7. \A m, p, q : SymDiff(m, p) = SymDiff(m, q) => p = q
  BY DEF SymDiff
<1> QED
  BY <1>3, <1>6, <1>7, ZenonT(60)

(* t[1] to t[n] are taken in one after the other.                          *)
IsCbcChain(z, b, t, n) ==
  /\ n \in Nat /\ z[0] = b /\ \A i \in 1..n : z[i] = XorInto(E("k", z[i - 1]), t[i])
ChainGood(b, t, n) ==
  /\ n \in Nat /\ NotCounter(b) /\ (\A a \in b[1] : ~ MacAtom(a)) /\ \A i \in 1..n : IsTaken(t[i])

LEMMA ChainBlocks ==
  ASSUME NEW z, NEW b, NEW t, NEW n, IsCbcChain(z, b, t, n), ChainGood(b, t, n)
  PROVE  /\ \A i \in 0..n : NotCounter(z[i])
         /\ \A i \in 1..n : Made("k", z[i - 1], 1) \in z[i][1]
<1> DEFINE T == {i \in 0..n : NotCounter(z[i])}
<1>1. /\ n \in Nat /\ z[0] = b /\ \A i \in 1..n : z[i] = XorInto(E("k", z[i - 1]), t[i])
      /\ NotCounter(b) /\ \A i \in 1..n : IsTaken(t[i])
  BY DEF IsCbcChain, ChainGood
<1>2. 0 \in T
  BY <1>1
<1>3. ASSUME NEW i \in 0..(n - 1), i \in T PROVE i + 1 \in T
  <2>1. i + 1 \in 1..n /\ i + 1 \in 0..n /\ (i + 1) - 1 = i
    BY <1>1
  <2>2. NotCounter(z[i]) /\ IsTaken(t[i + 1]) /\ z[i + 1] = XorInto(E("k", z[i]), t[i + 1])
    BY <1>1, <1>3, <2>1
  <2>3. NotCounter(z[i + 1])
    BY <2>2, TakenShows
  <2> QED
    BY <2>1, <2>3
<1> HIDE DEF T
<1>4. 0..n \subseteq T
  BY <1>1, <1>2, <1>3, UpTo
<1>5. \A i \in 0..n : NotCounter(z[i])
  BY <1>4 DEF T
<1>6. ASSUME NEW i \in 1..n PROVE Made("k", z[i - 1], 1) \in z[i][1]
  <2>1. NotCounter(z[i - 1]) /\ IsTaken(t[i]) /\ z[i] = XorInto(E("k", z[i - 1]), t[i])
    BY <1>1, <1>5
  <2> QED
    BY <2>1, TakenShows
<1> QED
  BY <1>5, <1>6

SamePieces(t, u, n) == \A i \in 1..n : \A j \in 1..B : ByteAt(t[i], j) = ByteAt(u[i], j)

LEMMA ChainTellsLong ==
  ASSUME NEW z, NEW b, NEW t, NEW n, IsCbcChain(z, b, t, n), ChainGood(b, t, n),
         NEW y, NEW d, NEW u, NEW m, IsCbcChain(y, d, u, m), ChainGood(d, u, m),
         z[n] = y[m], n <= m
  PROVE  n = m /\ b = d /\ SamePieces(t, u, n)
<1> DEFINE T == {l \in 0..n : z[n - l] = y[m - l]}
<1>1. /\ n \in Nat /\ z[0] = b /\ \A i \in 1..n : z[i] = XorInto(E("k", z[i - 1]), t[i])
      /\ NotCounter(b) /\ \A i \in 1..n : IsTaken(t[i])
  BY DEF IsCbcChain, ChainGood
<1>2. /\ m \in Nat /\ y[0] = d /\ \A i \in 1..m : y[i] = XorInto(E("k", y[i - 1]), u[i])
      /\ NotCounter(d) /\ \A i \in 1..m : IsTaken(u[i])
  BY DEF IsCbcChain, ChainGood
<1>3. /\ \A i \in 0..n : NotCounter(z[i])
      /\ \A i \in 0..m : NotCounter(y[i])
      /\ \A i \in 1..m : Made("k", y[i - 1], 1) \in y[i][1]
  BY ChainBlocks
<1>4. 0 \in T
  <2>1. 0 \in 0..n /\ n - 0 = n /\ m - 0 = m
    BY <1>1, <1>2
  <2> QED
    BY <2>1
<1>5. ASSUME NEW l \in 0..(n - 1), l \in T PROVE l + 1 \in T
  <2>1. /\ n - l \in 1..n /\ m - l \in 1..m /\ l + 1 \in 0..n
        /\ (n - l) - 1 = n - (l + 1) /\ (m - l) - 1 = m - (l + 1)
        /\ n - (l + 1) \in 0..n /\ m - (l + 1) \in 0..m
    BY <1>1, <1>2
  <2> DEFINE p == z[n - (l + 1)]
             q == y[m - (l + 1)]
  <2>2. z[n - l] = XorInto(E("k", p), t[n - l])
    BY <1>1, <2>1
  <2>3. y[m - l] = XorInto(E("k", q), u[m - l])
    BY <1>2, <2>1
  <2>4. NotCounter(p) /\ NotCounter(q) /\ IsTaken(t[n - l]) /\ IsTaken(u[m - l])
    BY <1>1, <1>2, <1>3, <2>1
  <2>5. z[n - l] = y[m - l]
    BY <1>5
  <2> HIDE DEF p, q
  <2>6. p = q
    BY <2>2, <2>3, <2>4, <2>5, TakenTells
  <2> QED
    BY <2>1, <2>6 DEF p, q
<1> HIDE DEF T
<1>6. 0..n \subseteq T
  BY <1>1, <1>4, <1>5, UpTo
<1>7. \A l \in 0..n : z[n - l] = y[m - l]
  BY <1>6 DEF T
<1>8. n = m
  <2>1. z[0] = y[m - n]
    <3>1. n \in 0..n /\ n - n = 0
      BY <1>1
    <3> QED
      BY <1>7, <3>1
  <2>2. ASSUME m # n PROVE FALSE
    <3>1. m - n \in 1..m /\ (m - n) - 1 \in 0..m
      BY <1>1, <1>2, <2>2
    <3>2. NotCounter(y[(m - n) - 1]) /\ Made("k", y[(m - n) - 1], 1) \in b[1]
      BY <1>1, <1>3, <2>1, <3>1
    <3>3. \A a \in b[1] : ~ MacAtom(a)
      BY DEF ChainGood
    <3>4. MacAtom(Made("k", y[(m - n) - 1], 1))
      BY <3>2 DEF MacAtom
    <3> QED
      BY <3>2, <3>3, <3>4
  <2> QED
    BY <2>2
<1>9. \A i \in 0..n : z[i] = y[i]
  <2> TAKE i \in 0..n
  <2>1. n - i \in 0..n /\ n - (n - i) = i
    BY <1>1
  <2> QED
    BY <1>7, <1>8, <2>1
<1>10. ASSUME NEW i \in 1..n PROVE \A j \in 1..B : ByteAt(t[i], j) = ByteAt(u[i], j)
  <2>1. i \in 0..n /\ i - 1 \in 0..n
    BY <1>1
  <2>2. /\ XorInto(E("k", z[i - 1]), t[i]) = XorInto(E("k", y[i - 1]), u[i])
        /\ NotCounter(z[i - 1]) /\ NotCounter(y[i - 1]) /\ IsTaken(t[i]) /\ IsTaken(u[i])
    BY <1>1, <1>2, <1>3, <1>8, <1>9, <2>1
  <2> QED
    BY <2>2, TakenTells
<1>11. b = d
  <2>1. 0 \in 0..n
    BY <1>1
  <2> QED
    BY <1>1, <1>2, <1>9, <2>1
<1> QED
  BY <1>8, <1>10, <1>11 DEF SamePieces

-----------------------------------------------------------------------------
(* What the MAC of CCM takes in first.                                     *)

IsCcmNonce(nonce) == Clean(nonce) /\ Len(nonce) = B - 2
Framed(v, nonce, w) == << Num(v) >> \o nonce \o << Num(w) >>

LEMMA FramedIs ==
  ASSUME NEW v, NEW w, NEW nonce, IsCcmNonce(nonce)
  PROVE  LET x == Framed(v, nonce, w)
         IN  IsBlock(x) /\ x[1] = Num(v) /\ \A i \in 1..(B - 2) : x[i + 1] = nonce[i]
<1> DEFINE s == << Num(v) >>
           t == << Num(w) >>
           u == s \o nonce
           x == u \o t
<1>1. IsBlock(x)
  BY FramedBlock DEF IsCcmNonce
<1>2. Clean(s) /\ Len(s) = 1 /\ s[1] = Num(v) /\ Clean(t)
  BY One, CleanNum DEF Clean
<1>3. B \in Nat /\ B >= 3
  BY BlockLen
<1> HIDE DEF s, t
<1>4. Joins(u, s, nonce)
  BY <1>2, JoinedParts DEF IsCcmNonce
<1>5. Clean(u)
  BY <1>4 DEF Joins
<1> HIDE DEF u
<1>6. Joins(x, u, t)
  BY <1>2, <1>5, JoinedParts
<1> HIDE DEF x
<1>7. /\ Len(u) = 1 + (B - 2) /\ u[1] = Num(v)
      /\ \A i \in 1..(B - 2) : u[1 + i] = nonce[i]
  BY <1>2, <1>4 DEF Joins, IsCcmNonce
<1>8. \A i \in 1..Len(u) : x[i] = u[i]
  BY <1>6 DEF Joins
<1>9. x[1] = Num(v)
  BY <1>3, <1>7, <1>8
<1>10. \A i \in 1..(B - 2) : x[i + 1] = nonce[i]
  <2> TAKE i \in 1..(B - 2)
  <2>1. i + 1 \in 1..Len(u) /\ 1 + i = i + 1
    BY <1>3, <1>7
  <2> QED
    BY <1>7, <1>8, <2>1
<1> QED
  BY <1>1, <1>9, <1>10 DEF x, u, s, t, Framed

LEMMA FramedTells ==
  ASSUME NEW v, NEW w, NEW m, IsCcmNonce(m), NEW q, NEW r, NEW n, IsCcmNonce(n),
         Framed(v, m, w) = Framed(q, n, r)
  PROVE  m = n
<1>1. \A i \in 1..(B - 2) : Framed(v, m, w)[i + 1] = m[i]
  BY FramedIs
<1>2. \A i \in 1..(B - 2) : Framed(q, n, r)[i + 1] = n[i]
  BY FramedIs
<1>3. \A i \in 1..(B - 2) : m[i] = n[i]
  BY <1>1, <1>2
<1> QED
  BY <1>3, SameString DEF IsCcmNonce, Clean

(* A short string is one chunk.                                            *)
LEMMA ShortChunk ==
  ASSUME NEW s, Clean(s), Len(s) \in 1..B
  PROVE  Len(Chunks(s)) = 1 /\ Chunks(s)[1] = s
<1>1. B \in Nat /\ B >= 3 /\ IsString(s) /\ Len(s) \in Nat
  BY BlockLen DEF Clean
<1>2. Parts(Len(s)) = 1
  <2>1. Parts(Len(s)) \in Nat /\ Len(s) <= Off(Parts(Len(s))) /\ Off(Parts(Len(s))) < Len(s) + B
    BY <1>1, PartsAre
  <2>2. Off(0) = 0 /\ Off(1) = B /\ Off(2) = B + B
    BY <1>1 DEF Off
  <2>3. ASSUME Parts(Len(s)) >= 2 PROVE FALSE
    <3>1. Off(2) <= Off(Parts(Len(s)))
      BY <2>1, <2>3, OffGrows
    <3>2. Len(s) <= B
      BY <1>1
    <3>3. Off(Parts(Len(s))) \in Nat
      BY <2>1, OffIs
    <3> QED
      BY <1>1, <2>1, <2>2, <3>1, <3>2, <3>3
  <2>4. Parts(Len(s)) # 0
    BY <1>1, <2>1, <2>2
  <2> QED
    BY <2>1, <2>3, <2>4
<1>3. /\ Len(Chunks(s)) = 1 /\ 1 \in 1..Parts(Len(s)) /\ IsString(Chunks(s)[1])
      /\ Len(Chunks(s)[1]) = PartLen(1, Len(s))
      /\ \A j \in 1..PartLen(1, Len(s)) : Chunks(s)[1][j] = s[Off(1 - 1) + j]
  <2> DEFINE c == Chunks(s)
             n == Len(s)
  <2>1. /\ Shaped(c, n) /\ Len(c) = Parts(n)
        /\ \A i \in 1..Parts(n) : \A j \in 1..PartLen(i, n) : c[i][j] = s[Off(i - 1) + j]
    BY <1>1, ChunksAre
  <2> HIDE DEF c, n
  <2>2. 1 \in 1..Parts(n)
    BY <1>2 DEF n
  <2>3. IsString(c[1]) /\ Len(c[1]) = PartLen(1, n)
    BY <2>1, <2>2 DEF Shaped
  <2>4. \A j \in 1..PartLen(1, n) : c[1][j] = s[Off(1 - 1) + j]
    BY <2>1, <2>2
  <2> QED
    BY <1>2, <2>1, <2>2, <2>3, <2>4 DEF c, n
<1>4. PartLen(1, Len(s)) = Len(s) /\ \A j \in 1..Len(s) : Off(1 - 1) + j = j
  BY <1>1 DEF PartLen, Off
<1>5. \A j \in 1..Len(s) : Chunks(s)[1][j] = s[j]
  BY <1>3, <1>4
<1> QED
  BY <1>1, <1>3, <1>4, <1>5, SameString

LEMMA ChainClean ==
  ASSUME NEW z, NEW b, NEW t, NEW n, IsCbcChain(z, b, t, n), IsBlock(b), \A i \in 1..n : Clean(t[i])
  PROVE  \A i \in 0..n : IsBlock(z[i])
<1> DEFINE T == {i \in 0..n : IsBlock(z[i])}
<1>1. n \in Nat /\ z[0] = b /\ \A i \in 1..n : z[i] = XorInto(E("k", z[i - 1]), t[i])
  BY DEF IsCbcChain
<1>2. 0 \in T
  BY <1>1
<1>3. ASSUME NEW i \in 0..(n - 1), i \in T PROVE i + 1 \in T
  <2>1. i + 1 \in 1..n /\ i + 1 \in 0..n /\ (i + 1) - 1 = i
    BY <1>1
  <2>2. IsBlock(E("k", z[i])) /\ Clean(t[i + 1])
    BY <1>3, <2>1, BlockEnciphered
  <2>3. z[i + 1] = XorInto(E("k", z[i]), t[i + 1])
    BY <1>1, <2>1
  <2>4. IsBlock(z[i + 1])
    BY <2>2, <2>3, CleanInto DEF IsBlock
  <2> QED
    BY <2>1, <2>4
<1> HIDE DEF T
<1>4. 0..n \subseteq T
  BY <1>1, <1>2, <1>3, UpTo
<1> QED
  BY <1>4 DEF T

\* A string without a byte of what the MAC enciphers.
Unmade(s) == Clean(s) /\ \A i \in 1..Len(s) : \A a \in s[i] : ~ MacAtom(a)

LEMMA UnmadeChunks ==
  ASSUME NEW s, Unmade(s)
  PROVE  \A i \in 1..Parts(Len(s)) : IsTaken(Chunks(s)[i])
<1> TAKE i \in 1..Parts(Len(s))
<1> DEFINE c == Chunks(s)
           n == Len(s)
<1>1. Clean(s) /\ IsString(s) /\ n \in Nat
  BY StringProperties DEF Unmade, Clean
<1>2. Clean(c[i]) /\ Len(c[i]) = PartLen(i, n) /\ PartLen(i, n) \in 1..B
  BY <1>1, CleanChunks
<1>3. \A q \in 1..Parts(n) : \A j \in 1..PartLen(q, n) : c[q][j] = s[Off(q - 1) + j]
  BY <1>1, ChunksAre
<1>4. Off(i - 1) \in Nat /\ Off(i - 1) + PartLen(i, n) <= n
  BY <1>1, PartsAre
<1> HIDE DEF c
<1>5. ASSUME NEW j \in 1..PartLen(i, n) PROVE \A a \in c[i][j] : ~ MacAtom(a)
  <2>1. Off(i - 1) + j \in 1..n
    BY <1>1, <1>2, <1>4
  <2>2. c[i][j] = s[Off(i - 1) + j]
    BY <1>3
  <2> QED
    BY <2>1, <2>2 DEF Unmade
<1>6. \A j \in 1..Len(c[i]) : \A a \in c[i][j] : ~ MacAtom(a)
  BY <1>2, <1>5
<1> QED
  BY <1>2, <1>6 DEF IsTaken, c

-----------------------------------------------------------------------------
(* What CCM seals, and what opens as if it had.                            *)

TagByte(z, nonce, j) == SymDiff({Made("k", z, j)}, {Made("k", CcmA(nonce, 0), j)})
CcmStream(nonce, p) == KeyStreamed("k", CcmCounters(nonce, p), p)

IsCounter(m) == IsBlock(m) /\ m[1] = Num(2)
\* The byte c is d under a byte of the key stream.
IsMasked(c, d) == \E m, j : IsCounter(m) /\ c = SymDiff(d, {Made("k", m, j)})

LEMMA CcmAIs ==
  ASSUME NEW nonce, IsCcmNonce(nonce), NEW i
  PROVE  IsCounter(CcmA(nonce, i)) /\ CcmA(nonce, i) = Framed(2, nonce, i % LenRadix)
<1>1. CcmA(nonce, i) = Framed(2, nonce, i % LenRadix)
  BY DEF CcmA, Framed
<1> QED
  BY <1>1, FramedIs DEF IsCounter

LEMMA CcmTagIs ==
  ASSUME NEW nonce, IsCcmNonce(nonce), NEW z, IsBlock(z)
  PROVE  LET t == CcmTag("k", nonce, E("k", z), B)
         IN  Clean(t) /\ Len(t) = B /\ \A j \in 1..B : t[j] = TagByte(z, nonce, j)
<1> DEFINE a == CcmA(nonce, 0)
           x == E("k", z)
           y == E("k", a)
           s == Xor(x, y)
<1>1. IsBlock(a)
  BY CcmAIs DEF IsCounter
<1>2. IsBlock(x) /\ IsBlock(y)
  BY <1>1, BlockEnciphered
<1>3. Len(z) >= 1 /\ Len(a) >= 1 /\ Len(z) = B /\ Len(a) = B /\ Clean(z) /\ Clean(a)
  BY <1>1, BlockLen DEF IsBlock
<1> HIDE DEF a
<1>4. \A j \in 1..B : x[j] = {Made("k", z, j)}
  BY <1>3, EncipheredIs
<1>5. \A j \in 1..B : y[j] = {Made("k", a, j)}
  BY <1>3, EncipheredIs
<1> HIDE DEF x, y
<1>6. IsBlock(s) /\ \A j \in 1..B : s[j] = SymDiff(x[j], y[j])
  <2>1. IsBlock(s)
    BY <1>2, BlockSum
  <2>2. \A j \in 1..Len(x) : s[j] = SymDiff(x[j], y[j])
    BY <1>2, BlockLen, SumIs DEF IsBlock, Clean
  <2> QED
    BY <1>2, <2>1, <2>2 DEF IsBlock
<1>7. SubSeq(s, 1, B) = s
  BY <1>6, BlockLen, WholePart DEF IsBlock, Clean
<1> HIDE DEF s
<1>8. CcmTag("k", nonce, E("k", z), B) = s
  BY <1>7 DEF CcmTag, s, x, y, a
<1>9. \A j \in 1..B : s[j] = TagByte(z, nonce, j)
  BY <1>4, <1>5, <1>6 DEF TagByte, a
<1> QED
  BY <1>6, <1>8, <1>9 DEF IsBlock

LEMMA TagByteIs ==
  ASSUME NEW z, IsBlock(z), NEW nonce, IsCcmNonce(nonce), NEW j
  PROVE  /\ \A a \in TagByte(z, nonce, j) : a[1] = "E" /\ a[4] = j
         /\ TagByte(z, nonce, j) = {} => z = CcmA(nonce, 0)
         /\ z = CcmA(nonce, 0) => TagByte(z, nonce, j) = {}
         /\ z # CcmA(nonce, 0) => /\ Made("k", z, j) \in TagByte(z, nonce, j)
                                  /\ Made("k", CcmA(nonce, 0), j) \in TagByte(z, nonce, j)
                                  /\ Made("k", z, j) # Made("k", CcmA(nonce, 0), j)
         /\ \A a \in TagByte(z, nonce, j) : \/ a = Made("k", z, j)
                                            \/ a = Made("k", CcmA(nonce, 0), j)
<1> DEFINE c == CcmA(nonce, 0)
           a == Made("k", z, j)
           b == Made("k", c, j)
<1>1. IsString(z) /\ IsString(c)
  BY CcmAIs DEF IsCounter, IsBlock, Clean
<1> HIDE DEF c
<1>2. a[1] = "E" /\ a[4] = j /\ b[1] = "E" /\ b[4] = j
  BY DEF Made
<1>3. a = b => z = c
  BY <1>1, MadeTells
<1>4. z = c => a = b
  OBVIOUS
<1>5. TagByte(z, nonce, j) = SymDiff({a}, {b})
  BY DEF TagByte, c
<1> HIDE DEF a, b
<1>6. /\ \A e \in SymDiff({a}, {b}) : e = a \/ e = b
      /\ a = b => SymDiff({a}, {b}) = {}
      /\ a # b => a \in SymDiff({a}, {b}) /\ b \in SymDiff({a}, {b})
  BY DEF SymDiff
<1> QED
  BY <1>2, <1>3, <1>4, <1>5, <1>6 DEF a, b, c

LEMMA CcmStreamIs ==
  ASSUME NEW nonce, IsCcmNonce(nonce), NEW p, Clean(p)
  PROVE  LET f == CcmStream(nonce, p)
         IN  /\ Clean(f) /\ Len(f) = Len(p) /\ CcmStream(nonce, f) = p
             /\ \A i \in 1..Len(p) : IsMasked(f[i], p[i])
<1> DEFINE n == Parts(Len(p))
           c == CcmCounters(nonce, p)
           f == KeyStreamed("k", c, p)
<1>1. Len(Chunks(p)) = n /\ n \in Nat /\ Len(p) \in Nat
  BY CleanChunks
<1>2. c = [i \in 1..n |-> CcmA(nonce, i)]
  BY <1>1 DEF CcmCounters
<1> HIDE DEF c
<1>3. \A i \in 1..n : IsCounter(c[i])
  BY <1>2, CcmAIs
<1>4. \A i \in 1..n : IsBlock(c[i])
  BY <1>3 DEF IsCounter
<1>5. Clean(f) /\ Len(f) = Len(p) /\ Len(Chunks(f)) = n /\ KeyStreamed("k", c, f) = p
  BY <1>1, <1>2, <1>4, KeyStreamBack
<1>6. AreBlocks(c, n)
  BY <1>4 DEF AreBlocks
<1>7. IsStreamed(f, "k", c, p)
  BY <1>6, StreamBytes
<1> HIDE DEF f
<1>8. CcmCounters(nonce, f) = c
  BY <1>2, <1>5 DEF CcmCounters
<1>9. CcmStream(nonce, f) = p
  BY <1>5, <1>8 DEF CcmStream
<1>10. ASSUME NEW i \in 1..Len(p) PROVE IsMasked(f[i], p[i])
  <2>1. PICK q \in 1..n : \E j \in 1..PartLen(q, Len(p)) : i = Off(q - 1) + j
    BY <1>1, PartPlace
  <2>2. PICK j \in 1..PartLen(q, Len(p)) : i = Off(q - 1) + j
    BY <2>1
  <2>3. f[i] = SymDiff(p[i], {Made("k", c[q], j)})
    BY <1>7, <2>2 DEF IsStreamed
  <2> QED
    BY <1>3, <2>3 DEF IsMasked
<1> QED
  BY <1>5, <1>9, <1>10 DEF f, c, CcmStream

LEMMA CounterAtom ==
  ASSUME NEW m, IsCounter(m), NEW j
  PROVE  ~ MacAtom(Made("k", m, j))
<1>1. SUFFICES ASSUME NEW z, NotCounter(z), NEW i, Made("k", m, j) = Made("k", z, i)
               PROVE  FALSE
  BY DEF MacAtom
<1>2. IsString(m) /\ IsString(z)
  BY <1>1 DEF IsCounter, NotCounter, IsBlock, Clean
<1>3. m = z
  BY <1>1, <1>2, MadeTells
<1> QED
  BY <1>1, <1>3 DEF IsCounter, NotCounter

-----------------------------------------------------------------------------
(* What reaches the opening call of an authenticated mode, when V is what  *)
(* was sealed: an envelope with parts of V's, or one part altered.         *)

FlippedAt(o, s, i) ==
  /\ IsString(o) /\ Len(o) = Len(s) /\ i \in 1..Len(s) /\ o[i] = SymDiff(s[i], X)
  /\ \A j \in 1..Len(s) : j # i => o[j] = s[j]
Extended(o, s) ==
  /\ IsString(o) /\ Len(o) = Len(s) + 1 /\ o[Len(s) + 1] \in {Zero, X}
  /\ \A i \in 1..Len(s) : o[i] = s[i]
Shortened(o, s) ==
  IsString(o) /\ Len(s) = Len(o) + 1 /\ \A i \in 1..Len(o) : o[i] = s[i]
Differs(o, s) == (\E i \in 1..Len(s) : FlippedAt(o, s, i)) \/ Extended(o, s) \/ Shortened(o, s)

LEMMA FlippedIs ==
  ASSUME NEW s, IsString(s), NEW o \in Flipped(s)
  PROVE  \E i \in 1..Len(s) : FlippedAt(o, s, i)
<1>1. PICK i \in DOMAIN s : o = [s EXCEPT ![i] = SymDiff(@, X)]
  BY DEF Flipped
<1>2. i \in 1..Len(s)
  BY StringProperties
<1>3. PICK v : v = SymDiff(s[i], X)
  OBVIOUS
<1>5. o = [s EXCEPT ![i] = v]
  BY <1>1, <1>3
<1>4. /\ IsString([s EXCEPT ![i] = v]) /\ Len([s EXCEPT ![i] = v]) = Len(s)
      /\ [s EXCEPT ![i] = v][i] = v
      /\ \A j \in 1..Len(s) : j # i => [s EXCEPT ![i] = v][j] = s[j]
  BY <1>2, ChangedIs
<1>6. /\ IsString(o) /\ Len(o) = Len(s) /\ o[i] = v
      /\ \A j \in 1..Len(s) : j # i => o[j] = s[j]
  BY <1>4, <1>5
<1> QED
  BY <1>2, <1>3, <1>6 DEF FlippedAt

LEMMA ResizedIs ==
  ASSUME NEW s, IsString(s), NEW o \in Resized(s)
  PROVE  Extended(o, s) \/ Shortened(o, s)
<1>1. PICK n \in Nat : n = Len(s)
  BY StringProperties
<1>2. CASE o \in {Append(s, Zero), Append(s, X)}
  <2>1. PICK e \in {Zero, X} : o = Append(s, e)
    BY <1>2
  <2>2. o = [i \in 1..(n + 1) |-> o[i]] /\ (\A i \in 1..n : o[i] = s[i]) /\ o[n + 1] = e
    BY <1>1, <2>1, AppendMakes
  <2>3. IsString(o) /\ Len(o) = n + 1
    BY <2>2, MadeString
  <2> QED
    BY <1>1, <2>2, <2>3 DEF Extended
<1>3. CASE s # << >> /\ o = Front(s)
  <2>1. n # 0
    BY <1>1, <1>3, EmptyIs
  <2>2. PICK b \in Nat : b = n - 1
    BY <1>1, <2>1
  <2>3. o = SubSeq(s, 1, b)
    BY <1>1, <1>3, <2>2 DEF Front
  <2>4. IsString(o) /\ Len(o) = b - 1 + 1 /\ \A i \in 1..(b - 1 + 1) : o[i] = s[1 + i - 1]
    <3>1. PICK a \in Nat \ {0} : a = 1
      OBVIOUS
    <3>2. b <= Len(s) /\ a <= b + 1 /\ o = SubSeq(s, a, b)
      BY <1>1, <2>2, <2>3, <3>1
    <3>3. IsString(o) /\ Len(o) = b - a + 1 /\ \A i \in 1..(b - a + 1) : o[i] = s[a + i - 1]
      BY <3>2, PartIs
    <3> QED
      BY <3>1, <3>3
  <2>5. Len(o) = b /\ n = b + 1
    BY <2>2, <2>4
  <2>6. \A i \in 1..b : o[i] = s[i]
    BY <2>4
  <2> QED
    BY <1>1, <2>4, <2>5, <2>6 DEF Shortened
<1> QED
  BY <1>2, <1>3 DEF Resized

LEMMA AlteredIs ==
  ASSUME NEW s, IsString(s), NEW o \in Flipped(s) \cup Resized(s)
  PROVE  Differs(o, s)
BY FlippedIs, ResizedIs DEF Differs

\* Every atom of s is of one of the kinds in K.
Of(s, K) == IsString(s) /\ \A i \in 1..Len(s) : \A a \in s[i] : a[1] \in K

LEMMA DiffersIs ==
  ASSUME NEW s, IsString(s), NEW o, Differs(o, s)
  PROVE  /\ IsString(o) /\ Len(o) \in Nat /\ Len(s) \in Nat /\ Len(o) <= Len(s) + 1
         /\ \A K : Of(s, K) /\ "x" \in K => Of(o, K)
<1>1. PICK n \in Nat : n = Len(s)
  BY StringProperties
<1>2. IsString(o)
  BY DEF Differs, FlippedAt, Extended, Shortened
<1>3. PICK m \in Nat : m = Len(o)
  BY <1>2, StringProperties
<1>4. m <= n + 1
  BY <1>1, <1>3 DEF Differs, FlippedAt, Extended, Shortened
<1>5. ASSUME NEW K, Of(s, K), "x" \in K PROVE Of(o, K)
  <2>1. \A i \in 1..n : \A a \in s[i] : a[1] \in K
    BY <1>1, <1>5 DEF Of
  <2>2. \A a \in X : a[1] \in K
    BY <1>5 DEF X
  <2>3. ASSUME NEW i \in 1..m, NEW a \in o[i] PROVE a[1] \in K
    <3>1. CASE \E k \in 1..n : FlippedAt(o, s, k)
      <4>1. PICK k \in 1..n : FlippedAt(o, s, k)
        BY <3>1
      <4>2. i \in 1..n /\ (o[i] = s[i] \/ o[i] = SymDiff(s[i], X))
        BY <1>1, <1>3, <4>1 DEF FlippedAt
      <4> QED
        BY <2>1, <2>2, <2>3, <4>2 DEF SymDiff
    <3>2. CASE Extended(o, s)
      <4>1. m = n + 1 /\ o[n + 1] \in {Zero, X} /\ \A k \in 1..n : o[k] = s[k]
        BY <1>1, <1>3, <3>2 DEF Extended
      <4>2. i \in 1..n \/ i = n + 1
        BY <4>1
      <4> QED
        BY <2>1, <2>2, <2>3, <4>1, <4>2 DEF Zero
    <3>3. CASE Shortened(o, s)
      <4>1. n = m + 1 /\ \A k \in 1..m : o[k] = s[k]
        BY <1>1, <1>3, <3>3 DEF Shortened
      <4>2. i \in 1..n
        BY <4>1
      <4> QED
        BY <2>1, <2>3, <4>1, <4>2
    <3> QED
      BY <1>1, <3>1, <3>2, <3>3 DEF Differs
  <2> QED
    BY <1>2, <1>3, <2>3 DEF Of
<1> QED
  BY <1>1, <1>2, <1>3, <1>4, <1>5

\* o has e's mode, parameter and ciphertext, and other parts from V; or it is
\* e but for one part.
Mixing(o, e, V) ==
  /\ o.ct = e.ct
  /\ (\E f \in V : o.nonce = f.nonce) /\ (\E g \in V : o.aad = g.aad)
  /\ \E h \in V : o.tag = h.tag
NewNonce(o, e) ==
  o.nonce \in Nonces(e.mode) /\ o.aad = e.aad /\ o.ct = e.ct /\ o.tag = e.tag
NewAad(o, e) ==
  o.nonce = e.nonce /\ o.aad \in AlteredAad(e.mode, e.aad) /\ o.ct = e.ct /\ o.tag = e.tag
NewCt(o, e) ==
  o.nonce = e.nonce /\ o.aad = e.aad /\ o.ct \in Flipped(e.ct) \cup Resized(e.ct)
    /\ o.tag = e.tag
NewTag(o, e) ==
  o.nonce = e.nonce /\ o.aad = e.aad /\ o.ct = e.ct /\ o.tag \in Flipped(e.tag)
Touches(o, e, V) ==
  /\ IsEnvelope(o) /\ o.mode = e.mode /\ o.par = e.par
  /\ Mixing(o, e, V) \/ NewNonce(o, e) \/ NewAad(o, e) \/ NewCt(o, e) \/ NewTag(o, e)

LEMMA ReachesIs ==
  ASSUME sealed # << >>, \A e \in Envelopes : IsEnvelope(e), NEW o \in MixedOrAltered
  PROVE  \E e \in Envelopes : Touches(o, e, Envelopes)
<1>1. CASE o \in Mixed
  <2>1. PICK e, f, g, h \in Envelopes : o = Mixture(e, f, g, h)
    BY <1>1 DEF Mixed
  <2>2. IsEnvelope(e)
    OBVIOUS
  <2>3. /\ o.mode = e.mode /\ o.par = e.par /\ o.nonce = f.nonce /\ o.aad = g.aad
        /\ o.ct = e.ct /\ o.tag = h.tag /\ IsEnvelope(o)
    BY <2>1, <2>2 DEF Mixture, IsEnvelope
  <2> QED
    BY <2>3 DEF Touches, Mixing
<1>2. CASE \E e \in Envelopes : o \in AlteredOne(e)
  <2>1. PICK e \in Envelopes : o \in AlteredOne(e)
    BY <1>2
  <2>2. IsEnvelope(e)
    OBVIOUS
  <2>3. CASE \E n \in Nonces(e.mode) : o = [e EXCEPT !.nonce = n]
    BY <2>2, <2>3 DEF IsEnvelope, Touches, NewNonce
  <2>4. CASE \E a \in AlteredAad(e.mode, e.aad) : o = [e EXCEPT !.aad = a]
    BY <2>2, <2>4 DEF IsEnvelope, Touches, NewAad
  <2>5. CASE \E c \in Flipped(e.ct) \cup Resized(e.ct) : o = [e EXCEPT !.ct = c]
    BY <2>2, <2>5 DEF IsEnvelope, Touches, NewCt
  <2>6. CASE \E t \in Flipped(e.tag) : o = [e EXCEPT !.tag = t]
    BY <2>2, <2>6 DEF IsEnvelope, Touches, NewTag
  <2> QED
    BY <2>1, <2>3, <2>4, <2>5, <2>6 DEF AlteredOne
<1> QED
  BY <1>1, <1>2 DEF MixedOrAltered

LEMMA SameEnvelope ==
  ASSUME NEW o, IsEnvelope(o), NEW e, IsEnvelope(e), o.mode = e.mode, o.par = e.par,
         o.nonce = e.nonce, o.aad = e.aad, o.ct = e.ct, o.tag = e.tag
  PROVE  o = e
BY DEF IsEnvelope

(* The envelopes of V are of one mode and parameter, sealed by calls.      *)
SealedAs(e, c, id) ==
  LET m == Message(c, id)
      s == SealCall(m)
  IN  s.ok /\ e = Envelope(m, s.ct, s.tag)
Family(V, mode, par) ==
  \A e \in V : \E c \in Calls \cup Follow : \E id \in Nat :
    c.mode = mode /\ c.par = par /\ SealedAs(e, c, id)

\* The parts of one of them.
EnvelopeOf(e, c, aad, pt, s) ==
  /\ c \in Calls \cup Follow /\ IsEnvelope(e) /\ e.mode = c.mode /\ e.par = c.par
  /\ e.nonce = c.nonce /\ e.aad = aad /\ e.ct = s.ct /\ e.tag = s.tag /\ s.ok
  /\ Of(pt, {"p"}) /\ Clean(pt) /\ Len(pt) = c.pt /\ c.pt \in Nat
  /\ Of(aad, {"p"}) /\ Clean(aad) /\ Len(aad) = c.aad /\ c.aad \in Nat

LEMMA TextOf ==
  ASSUME NEW kind \in {"zero", "fresh", "same"}, NEW id, NEW n \in Nat
  PROVE  Of(Text(kind, id, n), {"p"}) /\ Clean(Text(kind, id, n)) /\ Len(Text(kind, id, n)) = n
<1> DEFINE t == Text(kind, id, n)
           at(i) == CASE kind = "zero"  -> Zero
                      [] kind = "fresh" -> {<<"p", 64 * id + i>>}
                      [] kind = "same"  -> {<<"p", 64 * id>>}
<1>1. t = [i \in 1..n |-> at(i)]
  BY Zenon DEF Text
<1>2. \A i : \A a \in at(i) : a[1] = "p"
  BY DEF Zero
<1>3. Clean(t) /\ Len(t) = n
  BY CleanText
<1> HIDE DEF t, at
<1>4. \A i \in 1..n : \A a \in t[i] : a[1] \in {"p"}
  BY <1>1, <1>2
<1> QED
  BY <1>3, <1>4 DEF t, Of, Clean

LEMMA FamilyOf ==
  ASSUME NEW V, NEW mode, NEW par, Family(V, mode, par), mode # "siv",
         \A c \in Calls \cup Follow : c.mode = mode => c.aad \in Nat, NEW e \in V
  PROVE  \E c, aad, pt : LET m == [mode |-> mode, par |-> par, nonce |-> c.nonce,
                                   aad |-> aad, pt |-> pt]
                         IN  c.mode = mode /\ c.par = par /\ EnvelopeOf(e, c, aad, pt, SealCall(m))
<1>1. PICK c \in Calls \cup Follow :
           \E id \in Nat : c.mode = mode /\ c.par = par /\ SealedAs(e, c, id)
  BY DEF Family
<1>2. PICK id \in Nat : c.mode = mode /\ c.par = par /\ SealedAs(e, c, id)
  BY <1>1
<1> DEFINE aad == Text(c.text, 32 + id, c.aad)
           pt == Text(c.text, id, c.pt)
           m == [mode |-> mode, par |-> par, nonce |-> c.nonce, aad |-> aad, pt |-> pt]
           s == SealCall(m)
<1>3. c.text \in {"zero", "fresh", "same"} /\ c.pt \in Nat /\ c.aad \in Nat
  BY <1>2, CallAssumption, OfferAssumption
<1>4. Of(aad, {"p"}) /\ Clean(aad) /\ Len(aad) = c.aad
  BY <1>3, TextOf
<1>5. Of(pt, {"p"}) /\ Clean(pt) /\ Len(pt) = c.pt
  BY <1>3, TextOf
<1>6. Message(c, id) = m
  BY <1>2 DEF Message, AadText
<1>7. s.ok /\ e = Envelope(m, s.ct, s.tag)
  BY <1>2, <1>6 DEF SealedAs
<1>8. /\ IsEnvelope(e) /\ e.mode = mode /\ e.par = par /\ e.nonce = c.nonce /\ e.aad = aad
      /\ e.ct = s.ct /\ e.tag = s.tag
  BY <1>7 DEF Envelope, IsEnvelope
<1> HIDE DEF aad, pt, s
<1>9. EnvelopeOf(e, c, aad, pt, s)
  BY <1>2, <1>3, <1>4, <1>5, <1>7, <1>8 DEF EnvelopeOf
<1> QED
  BY <1>2, <1>9 DEF s

-----------------------------------------------------------------------------
(* GCM: the tag tells nonce, aad and ciphertext, whichever of its bytes.   *)

LEMMA StreamOf ==
  ASSUME NEW data, Clean(data), Of(data, {"p"}), NEW counters,
         AreBlocks(counters, Parts(Len(data)))
  PROVE  LET f == KeyStreamed("k", counters, data)
         IN  Of(f, {"p", "E"}) /\ Clean(f) /\ Len(f) = Len(data)
<1> DEFINE f == KeyStreamed("k", counters, data)
<1>1. IsStreamed(f, "k", counters, data)
  BY StreamBytes
<1>2. Clean(f) /\ Len(f) = Len(data)
  BY KeyStreamBack DEF AreBlocks
<1> HIDE DEF f
<1>3. PICK n \in Nat : n = Len(data)
  BY StringProperties DEF Of
<1>4. ASSUME NEW i \in 1..n, NEW a \in f[i] PROVE a[1] \in {"p", "E"}
  <2>1. PICK q \in 1..Parts(n) : \E j \in 1..PartLen(q, n) : i = Off(q - 1) + j
    BY PartPlace
  <2>2. PICK j \in 1..PartLen(q, n) : i = Off(q - 1) + j
    BY <2>1
  <2>3. f[i] = SymDiff(data[i], {Made("k", counters[q], j)})
    BY <1>1, <1>3, <2>2 DEF IsStreamed
  <2>4. Made("k", counters[q], j)[1] = "E"
    BY DEF Made
  <2>5. \A b \in data[i] : b[1] = "p"
    BY <1>3 DEF Of
  <2> QED
    BY <1>4, <2>3, <2>4, <2>5 DEF SymDiff
<1> QED
  BY <1>2, <1>3, <1>4 DEF f, Of, Clean

LEMMA OfNoProduct ==
  ASSUME NEW s, NEW K, Of(s, K), "lin" \notin K
  PROVE  NoProduct(s)
BY DEF Of, NoProduct

TagKinds == {"p", "E", "x"}
LEMMA OfMore ==
  ASSUME NEW s, NEW K, NEW L, Of(s, K), K \subseteq L
  PROVE  Of(s, L)
BY DEF Of

\* What GCM seals, with room for one byte more.
GcmParts(e, par) ==
  /\ IsEnvelope(e) /\ e.mode = "gcm" /\ e.par = par
  /\ Clean(e.nonce) /\ Len(e.nonce) = B - 1
  /\ Of(e.aad, TagKinds) /\ Len(e.aad) + 1 < 256
  /\ Of(e.ct, TagKinds) /\ Len(e.ct) + 1 < 256
  /\ e.tag = GcmTag("k", e.nonce, e.aad, e.ct)

LEMMA GcmCallIs ==
  ASSUME NEW c \in Calls \cup Follow, c.mode \in {"gcm", "gcm_combined"}
  PROVE  /\ Clean(c.nonce) /\ Len(c.nonce) = B - 1 /\ c.aad \in Nat /\ c.pt \in Nat
         /\ c.aad + 1 < 256 /\ c.pt + 1 < 256 /\ c.pt + B + 1 < 256
<1>1. Given(c.nonce) /\ Len(c.nonce) = B - 1
  BY CallAssumption
<1>2. c.aad \in Nat /\ c.aad + 1 < 256 /\ c.pt + B + 1 < 256
  BY LimitAssumption
<1>3. c.pt \in Nat /\ B \in Nat
  BY OfferAssumption, BlockLen
<1> QED
  BY <1>1, <1>2, <1>3, GivenClean

IsGcmSeal(s, nonce, aad, pt) ==
  /\ Of(s.ct, {"p", "E"}) /\ Clean(s.ct) /\ Len(s.ct) = Len(pt)
  /\ s.tag = GcmTag("k", nonce, aad, s.ct) /\ Combined(s) = s.ct \o s.tag

LEMMA GcmSeals ==
  ASSUME NEW nonce, Clean(nonce), Len(nonce) = B - 1, NEW aad, NEW pt, Clean(pt), Of(pt, {"p"}),
         NEW s, s = EncryptGcm("k", nonce, aad, pt)
  PROVE  IsGcmSeal(s, nonce, aad, pt)
<1>1. PICK ctrs : ctrs = GcmCounters(nonce, pt)
  OBVIOUS
<1>2. /\ EncryptGcm("k", nonce, aad, pt).ct = KeyStreamed("k", ctrs, pt)
      /\ EncryptGcm("k", nonce, aad, pt).tag
           = GcmTag("k", nonce, aad, EncryptGcm("k", nonce, aad, pt).ct)
      /\ Combined(EncryptGcm("k", nonce, aad, pt))
           = EncryptGcm("k", nonce, aad, pt).ct \o EncryptGcm("k", nonce, aad, pt).tag
      /\ AreBlocks(ctrs, Parts(Len(pt)))
  BY <1>1, GcmSealIs DEF AreBlocks
<1>3. /\ Of(KeyStreamed("k", ctrs, pt), {"p", "E"}) /\ Clean(KeyStreamed("k", ctrs, pt))
      /\ Len(KeyStreamed("k", ctrs, pt)) = Len(pt)
  BY <1>2, StreamOf
<1> QED
  BY <1>2, <1>3 DEF IsGcmSeal

LEMMA GcmTagString ==
  ASSUME NEW nonce, Clean(nonce), Len(nonce) = B - 1, NEW aad, NEW ct,
         NEW t, t = GcmTag("k", nonce, aad, ct)
  PROVE  IsString(t) /\ Len(t) = B /\ Clean(t)
BY GcmTagIs

LEMMA GcmFamily ==
  ASSUME NEW V, NEW par, Family(V, "gcm", par), NEW e \in V
  PROVE  GcmParts(e, par)
<1>1. "gcm" # "siv" /\ \A c \in Calls \cup Follow : c.mode = "gcm" => c.aad \in Nat
  BY GcmCallIs
<1>2. PICK c, aad, pt : LET m == [mode |-> "gcm", par |-> par, nonce |-> c.nonce,
                                  aad |-> aad, pt |-> pt]
                        IN  c.mode = "gcm" /\ c.par = par /\ EnvelopeOf(e, c, aad, pt, SealCall(m))
  BY <1>1, FamilyOf
<1>3. PICK s : s = EncryptGcm("k", c.nonce, aad, pt)
  OBVIOUS
<1>4. c.mode = "gcm" /\ c.par = par /\ EnvelopeOf(e, c, aad, pt, s)
  BY <1>2, <1>3 DEF SealCall
<1>5. /\ Clean(c.nonce) /\ Len(c.nonce) = B - 1 /\ c.aad \in Nat /\ c.pt \in Nat
      /\ c.aad + 1 < 256 /\ c.pt + 1 < 256
  BY <1>4, GcmCallIs DEF EnvelopeOf
<1>6. /\ Of(s.ct, {"p", "E"}) /\ Len(s.ct) = c.pt /\ s.tag = GcmTag("k", c.nonce, aad, s.ct)
  <2>1. Clean(pt) /\ Of(pt, {"p"}) /\ Len(pt) = c.pt
    BY <1>4 DEF EnvelopeOf
  <2>2. IsGcmSeal(s, c.nonce, aad, pt)
    BY <1>3, <1>5, <2>1, GcmSeals
  <2> QED
    BY <2>1, <2>2 DEF IsGcmSeal
<1>7. Of(s.ct, TagKinds) /\ Of(aad, TagKinds)
  BY <1>4, <1>6, OfMore DEF TagKinds, EnvelopeOf
<1> QED
  BY <1>4, <1>5, <1>6, <1>7 DEF GcmParts, EnvelopeOf

\* What the tag is computed over, of what is offered.
LEMMA UnderTagIs ==
  ASSUME NEW nonce, Clean(nonce), Len(nonce) = B - 1,
         NEW aad, Of(aad, TagKinds), Len(aad) < 256, NEW ct, Of(ct, TagKinds), Len(ct) < 256
  PROVE  UnderTag(nonce, aad, ct)
<1>1. NoProduct(aad) /\ NoProduct(ct)
  BY OfNoProduct DEF TagKinds
<1> QED
  BY <1>1 DEF UnderTag

LEMMA AlteredPart ==
  ASSUME NEW s, Of(s, TagKinds), Len(s) + 1 < 256,
         NEW o, o = s \/ o \in Flipped(s) \cup Resized(s)
  PROVE  Of(o, TagKinds) /\ Len(o) < 256
<1>1. IsString(s)
  BY DEF Of
<1>2. PICK n \in Nat : n = Len(s)
  BY <1>1, StringProperties
<1>3. CASE o = s
  BY <1>2, <1>3
<1>4. CASE o \in Flipped(s) \cup Resized(s)
  <2>1. Differs(o, s)
    BY <1>1, <1>4, AlteredIs
  <2>2. "x" \in TagKinds
    BY DEF TagKinds
  <2>3. Of(o, TagKinds) /\ Len(o) \in Nat /\ Len(o) <= n + 1
    BY <1>1, <1>2, <2>1, <2>2, DiffersIs
  <2> QED
    BY <1>2, <2>3
<1> QED
  BY <1>3, <1>4

\* The nonce, aad and ciphertext that are offered to either GCM.
LEMMA GcmOffered ==
  ASSUME NEW V, NEW mode \in {"gcm", "gcm_combined"}, \A v \in V : v.mode = mode,
         \A v \in V : Clean(v.nonce) /\ Len(v.nonce) = B - 1,
         \A v \in V : Of(v.aad, TagKinds) /\ Len(v.aad) + 1 < 256,
         NEW e \in V, NEW o, Touches(o, e, V)
  PROVE  Clean(o.nonce) /\ Len(o.nonce) = B - 1 /\ Of(o.aad, TagKinds) /\ Len(o.aad) < 256
<1>1. Clean(o.nonce) /\ Len(o.nonce) = B - 1
  <2>1. CASE NewNonce(o, e)
    <3>1. o.nonce \in Nonces("gcm") \cup Nonces("gcm_combined")
      BY <2>1 DEF NewNonce
    <3>2. Given(o.nonce) /\ Len(o.nonce) = B - 1
      BY <3>1, LimitAssumption
    <3> QED
      BY <3>2, GivenClean
  <2>2. CASE ~ NewNonce(o, e)
    BY <2>2 DEF Touches, Mixing, NewAad, NewCt, NewTag
  <2> QED
    BY <2>1, <2>2
<1>2. \E g \in V : o.aad = g.aad \/ o.aad \in Flipped(g.aad) \cup Resized(g.aad)
  <2>1. CASE Mixing(o, e, V)
    BY <2>1 DEF Mixing
  <2>2. CASE NewAad(o, e)
    <3>1. mode \in Aead \ {"siv"} /\ mode # "wrap"
      BY DEF Aead
    <3>2. AlteredAad(e.mode, e.aad) = Flipped(e.aad) \cup Resized(e.aad)
      BY <3>1 DEF AlteredAad
    <3> QED
      BY <2>2, <3>2 DEF NewAad
  <2>3. CASE ~ Mixing(o, e, V) /\ ~ NewAad(o, e)
    BY <2>3 DEF Touches, NewNonce, NewCt, NewTag
  <2> QED
    BY <2>1, <2>2, <2>3
<1>3. PICK g \in V : o.aad = g.aad \/ o.aad \in Flipped(g.aad) \cup Resized(g.aad)
  BY <1>2
<1>4. Of(o.aad, TagKinds) /\ Len(o.aad) < 256
  BY <1>3, AlteredPart
<1> QED
  BY <1>1, <1>4

LEMMA GcmAuthentic ==
  ASSUME NEW V, NEW par, Family(V, "gcm", par), NEW e \in V, NEW o, Touches(o, e, V),
         OpenCall(o).ok
  PROVE  o \in V
<1>1. \A v \in V : GcmParts(v, par)
  BY GcmFamily
<1>2. IsEnvelope(o) /\ o.mode = "gcm" /\ o.par = par
  BY <1>1 DEF Touches, GcmParts
<1>3. GcmTag("k", o.nonce, o.aad, o.ct) = o.tag
  <2>1. OpenCall(o) = DecryptGcm("k", o.nonce, o.aad, o.ct, o.tag)
    BY <1>2 DEF OpenCall
  <2> QED
    BY <2>1 DEF DecryptGcm, OpenedIf, Err
<1>4. Clean(o.nonce) /\ Len(o.nonce) = B - 1 /\ Of(o.aad, TagKinds) /\ Len(o.aad) < 256
  <2>1. /\ \A v \in V : v.mode = "gcm"
        /\ \A v \in V : Clean(v.nonce) /\ Len(v.nonce) = B - 1
        /\ \A v \in V : Of(v.aad, TagKinds) /\ Len(v.aad) + 1 < 256
    BY <1>1 DEF GcmParts
  <2> QED
    BY <2>1, GcmOffered
<1>5. Of(o.ct, TagKinds) /\ Len(o.ct) < 256
  <2>1. o.ct = e.ct \/ o.ct \in Flipped(e.ct) \cup Resized(e.ct)
    BY DEF Touches, Mixing, NewNonce, NewAad, NewCt, NewTag
  <2> QED
    BY <1>1, <2>1, AlteredPart DEF GcmParts
<1>6. UnderTag(o.nonce, o.aad, o.ct)
  BY <1>4, <1>5, UnderTagIs
<1>7. PICK h \in V, j \in 1..B : o.tag[j] = h.tag[j]
  <2>1. 1 \in 1..B /\ 2 \in 1..B /\ B \in Nat
    BY BlockLen
  <2>2. CASE Mixing(o, e, V)
    BY <2>1, <2>2 DEF Mixing
  <2>3. CASE NewTag(o, e)
    <3>1. IsString(e.tag) /\ Len(e.tag) = B
      <4>1. Clean(e.nonce) /\ Len(e.nonce) = B - 1 /\ e.tag = GcmTag("k", e.nonce, e.aad, e.ct)
        BY <1>1 DEF GcmParts
      <4> QED
        BY <4>1, GcmTagString
    <3>2. PICK i \in 1..B : FlippedAt(o.tag, e.tag, i)
      BY <2>3, <3>1, FlippedIs DEF NewTag
    <3>3. PICK j \in 1..B : j # i
      BY <2>1
    <3> QED
      BY <3>1, <3>2, <3>3 DEF FlippedAt
  <2>4. CASE ~ Mixing(o, e, V) /\ ~ NewTag(o, e)
    BY <2>1, <2>4 DEF Touches, NewNonce, NewAad, NewCt
  <2> QED
    BY <2>2, <2>3, <2>4
<1>8. UnderTag(h.nonce, h.aad, h.ct) /\ h.tag = GcmTag("k", h.nonce, h.aad, h.ct)
  <2>1. /\ Clean(h.nonce) /\ Len(h.nonce) = B - 1 /\ Of(h.aad, TagKinds) /\ Len(h.aad) + 1 < 256
        /\ Of(h.ct, TagKinds) /\ Len(h.ct) + 1 < 256 /\ h.tag = GcmTag("k", h.nonce, h.aad, h.ct)
    BY <1>1 DEF GcmParts
  <2>2. Len(h.aad) < 256 /\ Len(h.ct) < 256
    BY <2>1, AlteredPart
  <2> QED
    BY <2>1, <2>2, UnderTagIs
<1>9. o.nonce = h.nonce /\ o.aad = h.aad /\ o.ct = h.ct
  BY <1>3, <1>6, <1>7, <1>8, GcmTagTells
<1>10. o.tag = h.tag
  BY <1>3, <1>8, <1>9
<1>11. IsEnvelope(h) /\ h.mode = "gcm" /\ h.par = par
  BY <1>1 DEF GcmParts
<1>12. o = h
  BY <1>2, <1>9, <1>10, <1>11, SameEnvelope
<1> QED
  BY <1>12

\* What the combined GCM seals: c and its tag t.
CombinedParts(e, par, c, t) ==
  /\ IsEnvelope(e) /\ e.mode = "gcm_combined" /\ e.par = par
  /\ Clean(e.nonce) /\ Len(e.nonce) = B - 1
  /\ Of(e.aad, TagKinds) /\ Len(e.aad) + 1 < 256
  /\ Of(c, TagKinds) /\ Clean(c) /\ Len(c) + B + 1 < 256
  /\ t = GcmTag("k", e.nonce, e.aad, c) /\ e.ct = c \o t /\ e.tag = << >>

LEMMA CombinedFamily ==
  ASSUME NEW V, NEW par, Family(V, "gcm_combined", par), NEW e \in V
  PROVE  \E c, t : CombinedParts(e, par, c, t)
<1>1. /\ "gcm_combined" # "siv"
      /\ \A c \in Calls \cup Follow : c.mode = "gcm_combined" => c.aad \in Nat
  BY GcmCallIs
<1>2. PICK c, aad, pt : LET m == [mode |-> "gcm_combined", par |-> par, nonce |-> c.nonce,
                                  aad |-> aad, pt |-> pt]
                        IN  /\ c.mode = "gcm_combined" /\ c.par = par
                            /\ EnvelopeOf(e, c, aad, pt, SealCall(m))
  BY <1>1, FamilyOf
<1>3. PICK s : s = EncryptGcm("k", c.nonce, aad, pt)
  OBVIOUS
<1>4. /\ c.mode = "gcm_combined" /\ c.par = par
      /\ EnvelopeOf(e, c, aad, pt, Sealed(Combined(s), << >>))
  BY <1>2, <1>3 DEF SealCall, EncryptGcmCombined
<1>5. /\ Clean(c.nonce) /\ Len(c.nonce) = B - 1 /\ c.aad \in Nat /\ c.pt \in Nat
      /\ c.aad + 1 < 256 /\ c.pt + B + 1 < 256
  BY <1>4, GcmCallIs DEF EnvelopeOf
<1>6. Clean(pt) /\ Of(pt, {"p"}) /\ Len(pt) = c.pt
  BY <1>4 DEF EnvelopeOf
<1>7. IsGcmSeal(s, c.nonce, aad, pt)
  BY <1>3, <1>5, <1>6, GcmSeals
<1>8. Of(s.ct, TagKinds) /\ Of(aad, TagKinds)
  BY <1>4, <1>7, OfMore DEF TagKinds, EnvelopeOf, IsGcmSeal
<1>9. /\ IsEnvelope(e) /\ e.mode = "gcm_combined" /\ e.par = par /\ e.nonce = c.nonce
      /\ e.aad = aad /\ e.ct = s.ct \o s.tag /\ e.tag = << >> /\ Len(aad) = c.aad
  BY <1>4, <1>7 DEF EnvelopeOf, Sealed, IsGcmSeal
<1>10. CombinedParts(e, par, s.ct, s.tag)
  BY <1>5, <1>6, <1>7, <1>8, <1>9 DEF CombinedParts, IsGcmSeal
<1> QED
  BY <1>10

\* t is the k bytes of s after the first l.
PartAt(t, s, l, k) == IsString(t) /\ Len(t) = k /\ \A i \in 1..k : t[i] = s[l + i]

LEMMA PartOf ==
  ASSUME NEW s, IsString(s), NEW n \in Nat, n = Len(s), NEW l \in Nat, NEW k \in Nat,
         NEW a, a = l + 1, NEW d, d = l + k, d <= n, NEW t, t = SubSeq(s, a, d)
  PROVE  PartAt(t, s, l, k)
<1>1. a \in Nat \ {0} /\ d <= Len(s)
  OBVIOUS
<1>2. d \in Nat /\ a <= d + 1 /\ d - a + 1 = k /\ \A i \in 1..k : a + i - 1 = l + i
  BY <1>1
<1>3. /\ IsString(SubSeq(s, a, d)) /\ Len(SubSeq(s, a, d)) = d - a + 1
      /\ \A i \in 1..(d - a + 1) : SubSeq(s, a, d)[i] = s[a + i - 1]
  BY <1>1, <1>2, PartIs
<1> QED
  BY <1>2, <1>3 DEF PartAt

\* v is c, of l bytes, and the tag t.
TagCut(v, l, c, t) ==
  /\ IsString(c) /\ Len(c) = l /\ IsString(t) /\ Len(t) = B /\ c \o t = v
  /\ \A i \in 1..l : c[i] = v[i]
  /\ \A i \in 1..B : t[i] = v[l + i]

LEMMA TagSplit ==
  ASSUME NEW v, IsString(v), NEW m \in Nat, m = Len(v), NEW l \in Nat, l + B = m,
         NEW c, c = SubSeq(v, 1, l), NEW t, t = SubSeq(v, l + 1, m)
  PROVE  TagCut(v, l, c, t)
<1>1. B \in Nat /\ B >= 3 /\ l <= m
  BY BlockLen
<1>2. c \o t = v /\ IsString(c) /\ Len(c) = l
  <2>1. SubSeq(v, 1, l) \o SubSeq(v, l + 1, Len(v)) = v
    BY <1>1, SplitBack
  <2>2. IsString(SubSeq(v, 1, l)) /\ Len(SubSeq(v, 1, l)) = l
    BY <1>1, SplitBack
  <2> QED
    BY <2>1, <2>2
<1>3. \A i \in 1..l : c[i] = v[i]
  <2>1. PICK a, z \in Nat : a = z + 1 /\ z = 0
    OBVIOUS
  <2>2. a = 1 /\ z + l = l
    BY <2>1
  <2>3. PartAt(c, v, z, l)
    BY <1>1, <2>1, <2>2, PartOf
  <2> QED
    BY <2>1, <2>3 DEF PartAt
<1>4. PartAt(t, v, l, B)
  <2>1. PICK a : a = l + 1
    OBVIOUS
  <2>2. m <= m /\ t = SubSeq(v, a, m)
    BY <2>1
  <2> QED
    BY <1>1, <2>1, <2>2, PartOf
<1> QED
  BY <1>2, <1>3, <1>4 DEF TagCut, PartAt

LEMMA CombinedAuthentic ==
  ASSUME NEW V, NEW par, Family(V, "gcm_combined", par), NEW e \in V, NEW o, Touches(o, e, V),
         OpenCall(o).ok
  PROVE  o \in V
<1>1. \A v \in V : \E c, t : CombinedParts(v, par, c, t)
  BY CombinedFamily
<1>2. PICK c, t : CombinedParts(e, par, c, t)
  BY <1>1
<1>3. IsEnvelope(o) /\ o.mode = "gcm_combined" /\ o.par = par
  BY <1>2 DEF Touches, CombinedParts
<1>4. Clean(o.nonce) /\ Len(o.nonce) = B - 1 /\ Of(o.aad, TagKinds) /\ Len(o.aad) < 256
  <2>1. /\ \A v \in V : v.mode = "gcm_combined"
        /\ \A v \in V : Clean(v.nonce) /\ Len(v.nonce) = B - 1
        /\ \A v \in V : Of(v.aad, TagKinds) /\ Len(v.aad) + 1 < 256
    BY <1>1 DEF CombinedParts
  <2> QED
    BY <2>1, GcmOffered
<1>5. PICK l \in Nat : l = Len(c)
  BY <1>2, StringProperties DEF CombinedParts, Clean
<1>6. Clean(t) /\ IsString(t) /\ Len(t) = B /\ B \in Nat /\ B >= 3
  <2>1. Clean(e.nonce) /\ Len(e.nonce) = B - 1 /\ t = GcmTag("k", e.nonce, e.aad, c)
    BY <1>2 DEF CombinedParts
  <2> QED
    BY <2>1, GcmTagString, BlockLen
<1>7. PICK w : w = e.ct
  OBVIOUS
<1>8. /\ IsString(w) /\ Len(w) = l + B /\ \A i \in 1..l : w[i] = c[i]
      /\ \A i \in 1..B : w[l + i] = t[i]
  <2>1. Joins(w, c, t)
    BY <1>2, <1>6, <1>7, JoinedParts DEF CombinedParts
  <2> QED
    BY <1>5, <1>6, <2>1 DEF Joins, Clean
<1>9. PICK v : v = o.ct
  OBVIOUS
<1>10. v = w \/ Differs(v, w)
  <2>1. v = w \/ v \in Flipped(w) \cup Resized(w)
    BY <1>7, <1>9 DEF Touches, Mixing, NewNonce, NewAad, NewCt, NewTag
  <2> QED
    BY <1>8, <2>1, AlteredIs
<1>11. IsString(v)
  BY <1>8, <1>10, DiffersIs
<1>12. PICK m \in Nat : m = Len(v)
  BY <1>11, StringProperties
<1>13. OpenCall(o) = DecryptGcmCombined("k", o.nonce, o.aad, v)
  BY <1>3, <1>9 DEF OpenCall
<1>14. m >= B
  <2> SUFFICES ASSUME m < B PROVE FALSE
    BY <1>6
  <2>1. OpenCall(o) = Err("InvalidInputLength")
    BY <1>12, <1>13 DEF DecryptGcmCombined
  <2> QED
    BY <2>1 DEF Err
<1>15. PICK r \in Nat : r = m - B
  BY <1>6, <1>14
<1>16. PICK d, u : d = SubSeq(v, 1, r) /\ u = SubSeq(v, r + 1, m)
  OBVIOUS
<1>17. /\ IsString(d) /\ Len(d) = r /\ IsString(u) /\ Len(u) = B /\ d \o u = v
       /\ \A i \in 1..r : d[i] = v[i]
       /\ \A i \in 1..B : u[i] = v[r + i]
  <2>1. r + B = m
    BY <1>6, <1>15
  <2>2. TagCut(v, r, d, u)
    BY <1>11, <1>12, <1>16, <2>1, TagSplit
  <2> QED
    BY <2>2 DEF TagCut
<1>18. u = GcmTag("k", o.nonce, o.aad, d)
  <2>1. OpenCall(o) = DecryptGcm("k", o.nonce, o.aad, d, u)
    BY <1>12, <1>13, <1>14, <1>15, <1>16, <1>6 DEF DecryptGcmCombined
  <2> QED
    BY <2>1 DEF DecryptGcm, OpenedIf, Err
<1>19. PICK x : x = << "x", 0 >>
  OBVIOUS
<1>20. PICK nonce : nonce = o.nonce
  OBVIOUS
<1>21. Made("k", NonceAnd(nonce, 1), B) \in u[B]
  BY <1>4, <1>18, <1>20, PlainByte
<1>22. r + B = m
  BY <1>6, <1>15
<1>23. u[B] = v[m]
  BY <1>6, <1>17, <1>22
<1>24. ASSUME Extended(v, w) PROVE FALSE
  <2>1. v[m] \in {Zero, X}
    BY <1>12, <1>24 DEF Extended
  <2>2. Made("k", NonceAnd(nonce, 1), B)[1] = "E"
    BY DEF Made
  <2> QED
    BY <1>21, <1>23, <2>1, <2>2 DEF Zero, X
<1>25. ASSUME Shortened(v, w) PROVE FALSE
  <2>1. m + 1 = l + B /\ v[m] = w[m]
    <3>1. Len(w) = m + 1 /\ \A i \in 1..m : v[i] = w[i]
      BY <1>12, <1>25 DEF Shortened
    <3>2. m \in 1..m
      BY <1>6, <1>14
    <3> QED
      BY <1>8, <3>1, <3>2
  <2>2. PICK b \in 1..B : b = B - 1
    BY <1>6
  <2>3. l + b = m
    BY <1>6, <2>1, <2>2
  <2>4. u[B] = t[b]
    BY <1>8, <1>23, <2>1, <2>3
  <2>5. PICK n : n = e.nonce
    OBVIOUS
  <2>6. Clean(n) /\ Len(n) = B - 1 /\ t = GcmTag("k", n, e.aad, c)
    BY <1>2, <2>5 DEF CombinedParts
  <2>7. PICK g : t[b] = g \cup {Made("k", NonceAnd(n, 1), b)} /\ \A a \in g : a[1] = "lin"
    <3>1. PICK aad : aad = e.aad
      OBVIOUS
    <3>2. Clean(n) /\ Len(n) = B - 1 /\ t = GcmTag("k", n, aad, c) /\ b \in 1..B
      BY <2>6, <3>1
    <3>3. SumWith(t[b], Made("k", NonceAnd(n, 1), b))
      BY ONLY <3>2, GcmTagMade
    <3> QED
      BY ONLY <3>3 DEF SumWith
  <2>8. Made("k", NonceAnd(nonce, 1), B)[1] = "E"
    BY DEF Made
  <2>9. Made("k", NonceAnd(nonce, 1), B) = Made("k", NonceAnd(n, 1), b)
    BY <1>21, <2>4, <2>7, <2>8
  <2>10. IsString(NonceAnd(nonce, 1)) /\ IsString(NonceAnd(n, 1))
    BY <1>4, <1>20, <2>6, NonceAndIs DEF IsBlock, Clean
  <2>11. B = b
    BY <2>9, <2>10, MadeTells
  <2> QED
    BY <1>6, <2>2, <2>11
<1>26. /\ m = l + B /\ r = l
       /\ \E j \in 1..B : u[j] = t[j]
       /\ \A i \in 1..l : v[i] = w[i] \/ v[i] = SymDiff(w[i], X)
  <2>1. 1 \in 1..B /\ 2 \in 1..B
    BY <1>6
  <2>2. CASE v = w
    <3>1. m = l + B /\ r = l
      BY <1>6, <1>8, <1>12, <1>15, <2>2
    <3> QED
      BY <1>8, <1>17, <2>1, <2>2, <3>1
  <2>3. CASE \E i \in 1..Len(w) : FlippedAt(v, w, i)
    <3>1. PICK i \in 1..(l + B) : FlippedAt(v, w, i)
      BY <1>8, <2>3
    <3>2. m = l + B /\ r = l
      BY <1>6, <1>8, <1>12, <1>15, <3>1 DEF FlippedAt
    <3>3. PICK j \in 1..B : l + j # i
      BY <2>1
    <3>4. l + j \in 1..(l + B)
      BY <1>6
    <3>5. v[l + j] = w[l + j]
      BY <1>8, <3>1, <3>3, <3>4 DEF FlippedAt
    <3>6. u[j] = t[j]
      BY <1>8, <1>17, <3>2, <3>5
    <3>7. ASSUME NEW k \in 1..l PROVE v[k] = w[k] \/ v[k] = SymDiff(w[k], X)
      <4>1. k \in 1..(l + B)
        BY <1>6
      <4> QED
        BY <1>8, <3>1, <4>1 DEF FlippedAt
    <3> QED
      BY <3>2, <3>6, <3>7
  <2> QED
    BY <1>10, <1>24, <1>25, <2>2, <2>3 DEF Differs
<1>27. Of(d, TagKinds) /\ Len(d) < 256
  <2>1. \A i \in 1..l : \A a \in c[i] : a[1] \in TagKinds
    BY <1>2, <1>5 DEF CombinedParts, Of
  <2>2. ASSUME NEW i \in 1..l, NEW a \in d[i] PROVE a[1] \in TagKinds
    <3>1. d[i] = c[i] \/ d[i] = SymDiff(c[i], X)
      BY <1>8, <1>17, <1>26
    <3>2. \A b \in X : b[1] \in TagKinds
      BY DEF X, TagKinds
    <3> QED
      BY <2>1, <2>2, <3>1, <3>2 DEF SymDiff
  <2>3. l + B + 1 < 256
    BY <1>2, <1>5 DEF CombinedParts
  <2> QED
    BY <1>6, <1>17, <1>26, <2>2, <2>3 DEF Of
<1>28. UnderTag(o.nonce, o.aad, d)
  BY <1>4, <1>27, UnderTagIs
<1>29. UnderTag(e.nonce, e.aad, c) /\ t = GcmTag("k", e.nonce, e.aad, c)
  <2>1. /\ Clean(e.nonce) /\ Len(e.nonce) = B - 1 /\ Of(e.aad, TagKinds) /\ Len(e.aad) + 1 < 256
        /\ Of(c, TagKinds) /\ l + B + 1 < 256 /\ t = GcmTag("k", e.nonce, e.aad, c)
    BY <1>2, <1>5 DEF CombinedParts
  <2>2. Len(e.aad) < 256
    BY <2>1, AlteredPart
  <2>3. Len(c) < 256
    BY <1>5, <1>6, <2>1
  <2> QED
    BY <2>1, <2>2, <2>3, UnderTagIs
<1>30. o.nonce = e.nonce /\ o.aad = e.aad /\ d = c
  <2>1. PICK j \in 1..B : u[j] = t[j]
    BY <1>26
  <2> QED
    BY <1>18, <1>28, <1>29, <2>1, GcmTagTells
<1>31. u = t
  BY <1>18, <1>29, <1>30
<1>32. o.ct = e.ct
  <2>1. v = c \o t
    BY <1>17, <1>30, <1>31
  <2> QED
    BY <1>2, <1>9, <2>1 DEF CombinedParts
<1>33. o.tag = e.tag
  <2>1. \A h \in V : h.tag = << >>
    BY <1>1 DEF CombinedParts
  <2>2. e.tag = << >> /\ DOMAIN << >> = {}
    BY <2>1
  <2>3. ~ NewTag(o, e)
    BY <2>2 DEF NewTag, Flipped
  <2> QED
    BY <2>1, <2>3 DEF Touches, Mixing, NewNonce, NewAad, NewCt
<1>34. o = e
  <2>1. IsEnvelope(e) /\ e.mode = "gcm_combined" /\ e.par = par
    BY <1>2 DEF CombinedParts
  <2> QED
    BY <1>3, <1>30, <1>32, <1>33, <2>1, SameEnvelope
<1> QED
  BY <1>34

-----------------------------------------------------------------------------
(* Key wrap: what deciphers to no block that was enciphered leaves an image *)
(* of the inverse cipher in A, which stays there.                           *)

LEMMA LateSteps ==
  ASSUME NEW n \in Nat \ {0}, NEW u \in 1..n
  PROVE  (WrapRounds * n - u) % n = n - u /\ WrapRounds * n \in Nat
<1>1. PICK c \in Nat : c = n - u
  OBVIOUS
<1>2. PICK m \in Nat : m = 5 * n + c
  <2>1. 5 * n + c \in Nat
    BY <1>1
  <2> QED
    BY <2>1
<1>3. WrapRounds * n - u = m
  BY <1>1, <1>2 DEF WrapRounds
<1>4. PICK q \in Nat, r \in 0..(n - 1) : q = m \div n /\ r = m % n /\ m = n * q + r
  OBVIOUS
<1>5. n * q + r = 5 * n + c /\ c < n
  BY <1>1, <1>2, <1>4
<1>6. ~ (q >= 6)
  <2>1. SUFFICES ASSUME q >= 6 PROVE FALSE
    OBVIOUS
  <2>2. PICK d \in Nat : q = 6 + d
    BY <2>1
  <2>3. n * q = 6 * n + n * d /\ n * d \in Nat
    BY <2>2
  <2> QED
    BY <1>5, <2>3
<1>7. ~ (q <= 4)
  <2>1. SUFFICES ASSUME q <= 4 PROVE FALSE
    OBVIOUS
  <2>2. q = 0 \/ q = 1 \/ q = 2 \/ q = 3 \/ q = 4
    BY <2>1
  <2> QED
    BY <1>5, <2>2
<1>8. q = 5
  BY <1>6, <1>7
<1>9. r = c
  BY <1>5, <1>8
<1> QED
  BY <1>1, <1>3, <1>4, <1>9 DEF WrapRounds

FromE(k, x) == \E q : x[1] = {<< "E", k, q, 1 >>} /\ x[2] = {<< "E", k, q, 2 >>}

LEMMA PairDeciphered ==
  ASSUME NEW k, NEW x, IsString(x), Len(x) = 2
  PROVE  FromE(k, x) \/ \E p : D(k, x)[1] = {<< "D", k, p, 1 >>}
<1> DEFINE p == Pack(x)
<1>1. /\ IsString(p) /\ Len(p) = 3 /\ p[1] = Marks(x, 0)
      /\ \A i \in 1..2 : p[i + 1] = x[i] \ Marks(x, i)
  <2>1. /\ IsString(Pack(x)) /\ Len(Pack(x)) = Len(x) + 1 /\ Pack(x)[1] = Marks(x, 0)
        /\ \A i \in 1..Len(x) : Pack(x)[i + 1] = x[i] \ Marks(x, i)
    BY PackIs
  <2> QED
    BY <2>1
<1>2. CASE \E a \in p[1] : Undoes("E", k, p, a)
  <2>1. PICK a \in p[1] : Undoes("E", k, p, a)
    BY <1>2
  <2> HIDE DEF p
  <2>2. p[1] = {a} /\ a[1] = "E" /\ a[2] = k /\ Tail(p) = Zeros(2)
    BY <1>1, <2>1 DEF Undoes
  <2>3. \A i \in 1..2 : p[i + 1] = {}
    <3>1. p \in Seq(Range(p)) /\ p # << >>
      BY <1>1, EmptyIs, SMTT(30) DEF IsString
    <3>2. \A i \in 1..2 : Tail(p)[i] = p[i + 1]
      <4>1. /\ Len(Tail(p)) = Len(p) - 1
            /\ \A i \in 1..Len(Tail(p)) : Tail(p)[i] = p[i + 1]
        BY <3>1, HeadTailProperties
      <4> QED
        BY <1>1, <4>1
    <3>3. \A i \in 1..2 : Zeros(2)[i] = {}
      BY DEF Zeros, Zero
    <3> QED
      BY <2>2, <3>2, <3>3
  <2>4. x[1] \subseteq Marks(x, 1) /\ x[2] \subseteq Marks(x, 2)
    <3>1. \A i \in 1..2 : x[i] \ Marks(x, i) = {}
      BY <1>1, <2>3
    <3>2. x[1] \ Marks(x, 1) = {} /\ x[2] \ Marks(x, 2) = {}
      BY <3>1
    <3> QED
      BY <3>2
  <2>5. PICK b \in Whole(x) : Named(b, 0) = a
    BY <1>1, <2>2 DEF Marks
  <2>6. ASSUME NEW c \in Whole(x), NEW i PROVE Named(c, i) = << "E", k, a[3], i >>
    <3>1. Named(c, 0) = a
      BY <1>1, <2>2 DEF Marks
    <3>2. c[1] = a[1] /\ c[2] = a[2] /\ c[3] = a[3]
      BY <3>1, NamedIs
    <3> QED
      BY <2>2, <3>2 DEF Named
  <2>7. \A i \in 1..2 : Named(b, i) \in x[i]
    BY DEF Whole
  <2>8. << "E", k, a[3], 1 >> \in x[1] /\ << "E", k, a[3], 2 >> \in x[2]
    BY <2>6, <2>7
  <2>9. x[1] \subseteq {<< "E", k, a[3], 1 >>} /\ x[2] \subseteq {<< "E", k, a[3], 2 >>}
    BY <2>4, <2>6 DEF Marks
  <2>10. x[1] = {<< "E", k, a[3], 1 >>} /\ x[2] = {<< "E", k, a[3], 2 >>}
    BY <2>8, <2>9
  <2> QED
    BY <2>10 DEF FromE
<1>3. CASE ~ \E a \in p[1] : Undoes("E", k, p, a)
  <2>1. D(k, x) = Image("D", k, p)
    BY <1>3 DEF D, Permuted, PermutedOf
  <2>2. Image("D", k, Pack(x))[1] = {<< "D", k, Pack(x), 1 >>}
    BY ImageIs
  <2> QED
    BY <2>1, <2>2
<1> QED
  BY <1>2, <1>3

UnwrapsBy(z, k, n, N, v) ==
  /\ PartAt(z[0][2], v, 1, n) /\ z[0][1] = v[1]
  /\ \A j \in 1..N : z[j] = UnwrapStep(k, z[j - 1], ((N - j) % n) + 1, N + 1 - j)

LEMMA UnwrapSeqIs ==
  ASSUME NEW k, NEW n, NEW N \in Nat, NEW x, NEW z, z = UnwrapSeq(N, x, k, n, N)
  PROVE  /\ z[0] = x
         /\ \A j \in 1..N : z[j] = UnwrapStep(k, z[j - 1], ((N - j) % n) + 1, N + 1 - j)
<1> DEFINE y == UnwrapSeq(N, x, k, n, N)
<1>1. /\ y[0] = x
      /\ \A j \in 1..N : y[j] = UnwrapStep(k, y[j - 1], ((N - j) % n) + 1, N + 1 - j)
  BY UnwrapSteps
<1>2. z = y
  OBVIOUS
<1> HIDE DEF y
<1> QED
  BY <1>1, <1>2

LEMMA UnwrapIs ==
  ASSUME NEW k, NEW v, IsString(v), NEW n \in Nat \ {0}, Len(v) = n + 1, NEW N, N = WrapRounds * n
  PROVE  \E z : /\ UnwrapsBy(z, k, n, N, v)
                /\ KeyUnwrap(k, v) = IF z[N][1] = Icv THEN Ok(z[N][2]) ELSE Err("InvalidTag")
<1>1. N \in Nat
  BY DEF WrapRounds
<1>2. PICK r : r = Tail(v)
  OBVIOUS
<1>10. PICK x : x = << v[1], r >>
  OBVIOUS
<1>3. PICK z : z = UnwrapSeq(N, x, k, n, N)
  OBVIOUS
<1>4. /\ z[0] = x
      /\ \A j \in 1..N : z[j] = UnwrapStep(k, z[j - 1], ((N - j) % n) + 1, N + 1 - j)
  BY ONLY <1>1, <1>3, UnwrapSeqIs
<1>5. PartAt(r, v, 1, n)
  <2>1. v \in Seq(Range(v)) /\ v # << >>
    BY EmptyIs DEF IsString
  <2>2. /\ r \in Seq(Range(v)) /\ Len(r) = n
        /\ \A i \in 1..n : r[i] = v[i + 1]
    <3>1. /\ Tail(v) \in Seq(Range(v)) /\ Len(Tail(v)) = Len(v) - 1
          /\ \A i \in 1..Len(Tail(v)) : Tail(v)[i] = v[i + 1]
      BY <2>1, HeadTailProperties
    <3> QED
      BY <1>2, <3>1
  <2>3. IsString(r)
    BY <2>2, StringIn
  <2>4. \A i \in 1..n : i + 1 = 1 + i
    OBVIOUS
  <2> QED
    BY <2>2, <2>3, <2>4 DEF PartAt
<1>6. UnwrapsBy(z, k, n, N, v)
  BY <1>4, <1>5, <1>10 DEF UnwrapsBy
<1>7. KeyUnwrap(k, v) = IF z[N][1] = Icv THEN Ok(z[N][2]) ELSE Err("InvalidTag")
  <2> DEFINE m == Len(v) - 1
             M == WrapRounds * m
             st == UnwrapSeq(M, << v[1], Tail(v) >>, k, m, M)[M]
  <2>1. ~ (Len(v) < 2)
    OBVIOUS
  <2>2. KeyUnwrap(k, v) = IF st[1] = Icv THEN Ok(st[2]) ELSE Err("InvalidTag")
    BY <2>1 DEF KeyUnwrap, UnwrapSeq
  <2>3. m = n /\ M = N
    OBVIOUS
  <2> HIDE DEF m, M
  <2>4. st = z[N]
    BY <1>2, <1>3, <1>10, <2>3
  <2> HIDE DEF st
  <2> QED
    BY <2>2, <2>4
<1> QED
  BY <1>6, <1>7

Tainted(s) == \E a \in s[1] : a[1] \in {"D", "x"}
OfTwo(s, n) == IsString(s[2]) /\ Len(s[2]) = n
Undone(k, s, i, t) == FromE(k, << SymDiff(s[1], Num(t)), s[2][i] >>)

LEMMA UnwrapStepIs ==
  ASSUME NEW k, NEW n \in Nat, NEW s, OfTwo(s, n), NEW i \in 1..n, NEW t
  PROVE  LET u == UnwrapStep(k, s, i, t)
         IN  /\ OfTwo(u, n)
             /\ \A j \in 1..n : j # i => u[2][j] = s[2][j]
             /\ Tainted(u) \/ Undone(k, s, i, t)
             /\ Undone(k, s, i, t) => ~ Tainted(s)
<1> DEFINE x == << SymDiff(s[1], Num(t)), s[2][i] >>
<1>1. PICK r : r = s[2]
  OBVIOUS
<1>2. IsString(r) /\ Len(r) = n
  BY <1>1 DEF OfTwo
<1>3. PICK b : b = D(k, x)
  OBVIOUS
<1>4. PICK c : c = b[2]
  OBVIOUS
<1>5. PICK u : u = UnwrapStep(k, s, i, t)
  OBVIOUS
<1>6. u[1] = b[1] /\ u[2] = [r EXCEPT ![i] = c]
  BY <1>1, <1>3, <1>4, <1>5 DEF UnwrapStep
<1> HIDE DEF x
<1>7. /\ IsString([r EXCEPT ![i] = c]) /\ Len([r EXCEPT ![i] = c]) = n
      /\ \A j \in 1..n : j # i => [r EXCEPT ![i] = c][j] = r[j]
  <2>1. i \in 1..Len(r)
    BY <1>2
  <2>2. /\ IsString([r EXCEPT ![i] = c]) /\ Len([r EXCEPT ![i] = c]) = Len(r)
        /\ [r EXCEPT ![i] = c][i] = c
        /\ \A j \in 1..Len(r) : j # i => [r EXCEPT ![i] = c][j] = r[j]
    <3>1. IsString(r)
      BY <1>2
    <3> QED
      BY <2>1, <3>1, ChangedIs
  <2> QED
    BY <1>2, <2>2
<1>8. OfTwo(u, n) /\ \A j \in 1..n : j # i => u[2][j] = s[2][j]
  BY <1>1, <1>6, <1>7 DEF OfTwo
<1>9. IsString(x) /\ Len(x) = 2 /\ x[1] = SymDiff(s[1], Num(t))
  <2>1. PICK a : a = SymDiff(s[1], Num(t))
    OBVIOUS
  <2>2. PICK d : d = s[2][i]
    OBVIOUS
  <2> QED
    BY <2>1, <2>2, PairIs DEF x
<1>10. FromE(k, x) \/ \E p : b[1] = {<< "D", k, p, 1 >>}
  BY <1>3, <1>9, PairDeciphered
<1>11. Undone(k, s, i, t) <=> FromE(k, x)
  BY DEF x, Undone
<1>12. ASSUME NEW p, b[1] = {<< "D", k, p, 1 >>} PROVE Tainted(u)
  BY <1>6, <1>12 DEF Tainted
<1>13. ASSUME FromE(k, x), Tainted(s) PROVE FALSE
  <2>1. PICK q : x[1] = {<< "E", k, q, 1 >>}
    BY <1>13 DEF FromE
  <2>2. PICK a \in s[1] : a[1] \in {"D", "x"}
    BY <1>13 DEF Tainted
  <2>3. a \notin Num(t)
    BY <2>2 DEF Num
  <2>4. a \in x[1]
    BY <1>9, <2>2, <2>3 DEF SymDiff
  <2>5. a = << "E", k, q, 1 >>
    BY <2>1, <2>4
  <2>6. a[1] = "E"
    BY <2>5
  <2> QED
    BY <2>2, <2>6
<1> QED
  BY <1>5, <1>8, <1>10, <1>11, <1>12, <1>13

LEMMA AllUndone ==
  ASSUME NEW k, NEW v, NEW n \in Nat \ {0}, NEW N, N = WrapRounds * n,
         NEW z, UnwrapsBy(z, k, n, N, v), z[N][1] = Icv
  PROVE  /\ \A j \in 0..N : OfTwo(z[j], n)
         /\ \A j \in 1..N : Undone(k, z[j - 1], ((N - j) % n) + 1, N + 1 - j)
<1>1. N \in Nat
  BY DEF WrapRounds
<1>2. \A j \in 1..N : z[j] = UnwrapStep(k, z[j - 1], ((N - j) % n) + 1, N + 1 - j)
  BY DEF UnwrapsBy
<1>3. ASSUME NEW j \in 1..N PROVE ((N - j) % n) + 1 \in 1..n
  <2>1. N - j \in Nat
    BY <1>1
  <2> QED
    BY <2>1
<1>4. \A j \in 0..N : OfTwo(z[j], n)
  <2> DEFINE T == {j \in 0..N : OfTwo(z[j], n)}
  <2>1. 0 \in T
    <3>1. OfTwo(z[0], n)
      BY DEF UnwrapsBy, PartAt, OfTwo
    <3> QED
      BY <1>1, <3>1
  <2>2. ASSUME NEW j \in 0..(N - 1), j \in T PROVE j + 1 \in T
    <3>1. j + 1 \in 1..N /\ j + 1 \in 0..N /\ (j + 1) - 1 = j
      BY <1>1
    <3>2. PICK i \in 1..n : i = ((N - (j + 1)) % n) + 1
      BY <1>3, <3>1
    <3>3. PICK t : t = N + 1 - (j + 1)
      OBVIOUS
    <3>4. z[j + 1] = UnwrapStep(k, z[j], i, t)
      BY <1>2, <3>1, <3>2, <3>3
    <3>5. PICK s : s = z[j]
      OBVIOUS
    <3>6. OfTwo(s, n)
      BY <2>2, <3>5
    <3>7. OfTwo(UnwrapStep(k, s, i, t), n)
      BY <3>6, UnwrapStepIs
    <3> QED
      BY <3>1, <3>4, <3>5, <3>7
  <2> HIDE DEF T
  <2>3. 0..N \subseteq T
    BY <1>1, <2>1, <2>2, UpTo
  <2> QED
    BY <2>3 DEF T
<1>5. ASSUME NEW j \in 1..N
      PROVE  LET u == Undone(k, z[j - 1], ((N - j) % n) + 1, N + 1 - j)
             IN  (Tainted(z[j]) \/ u) /\ (u => ~ Tainted(z[j - 1]))
  <2>1. j - 1 \in 0..N
    BY <1>1
  <2>2. PICK i \in 1..n : i = ((N - j) % n) + 1
    BY <1>3
  <2>3. PICK t : t = N + 1 - j
    OBVIOUS
  <2>4. PICK s : s = z[j - 1]
    OBVIOUS
  <2>5. z[j] = UnwrapStep(k, s, i, t) /\ OfTwo(s, n)
    BY <1>2, <1>4, <2>1, <2>2, <2>3, <2>4
  <2>6. /\ Tainted(UnwrapStep(k, s, i, t)) \/ Undone(k, s, i, t)
        /\ Undone(k, s, i, t) => ~ Tainted(s)
    BY <2>5, UnwrapStepIs
  <2> QED
    BY <2>2, <2>3, <2>4, <2>5, <2>6
<1>6. ASSUME NEW j \in 1..N, ~ Undone(k, z[j - 1], ((N - j) % n) + 1, N + 1 - j)
      PROVE  FALSE
  <2> DEFINE T == {i \in 0..N : i >= j => Tainted(z[i])}
  <2>1. 0 \in T
    BY <1>1
  <2>2. ASSUME NEW i \in 0..(N - 1), i \in T PROVE i + 1 \in T
    <3>1. i + 1 \in 1..N /\ i + 1 \in 0..N /\ (i + 1) - 1 = i
      BY <1>1
    <3>2. PICK h : h = i + 1
      OBVIOUS
    <3>3. h \in 1..N /\ h - 1 = i
      BY <3>1, <3>2
    <3>4. CASE h = j
      <4>1. Tainted(z[j])
        BY <1>5, <1>6
      <4> QED
        BY <3>1, <3>2, <3>4, <4>1
    <3>5. CASE h > j
      <4>1. i >= j
        BY <3>1, <3>2, <3>5
      <4>2. Tainted(z[h - 1])
        BY <2>2, <3>3, <4>1
      <4>3. Tainted(z[h])
        BY <1>5, <3>3, <4>2
      <4> QED
        BY <3>1, <3>2, <4>3
    <3>6. CASE h < j
      BY <3>1, <3>2, <3>6
    <3> QED
      BY <3>3, <3>4, <3>5, <3>6
  <2> HIDE DEF T
  <2>3. 0..N \subseteq T
    BY <1>1, <2>1, <2>2, UpTo
  <2>4. Tainted(z[N])
    BY <1>1, <2>3 DEF T
  <2> QED
    BY <2>4 DEF Tainted, Icv
<1> QED
  BY <1>4, <1>6

\* Until step n + 1 - r no step changes byte r, and that step takes it.
LEMMA UnwrapTakes ==
  ASSUME NEW k, NEW v, NEW n \in Nat \ {0}, NEW N, N = WrapRounds * n,
         NEW z, UnwrapsBy(z, k, n, N, v), z[N][1] = Icv, NEW r \in 1..n
  PROVE  \E q : v[1 + r] = {<< "E", k, q, 2 >>}
<1>1. N \in Nat /\ N >= n
  BY DEF WrapRounds
<1>2. \A j \in 1..N : z[j] = UnwrapStep(k, z[j - 1], ((N - j) % n) + 1, N + 1 - j)
  BY DEF UnwrapsBy
<1>3. /\ \A j \in 0..N : OfTwo(z[j], n)
      /\ \A j \in 1..N : Undone(k, z[j - 1], ((N - j) % n) + 1, N + 1 - j)
  BY AllUndone
<1>4. ASSUME NEW j \in 1..n PROVE (N - j) % n = n - j
  BY LateSteps
<1> DEFINE T == {j \in 0..(n - r) : z[j][2][r] = v[1 + r]}
<1>5. 0 \in T
  <2>1. z[0][2][r] = v[1 + r]
    BY DEF UnwrapsBy, PartAt
  <2> QED
    BY <2>1
<1>6. ASSUME NEW j \in 0..((n - r) - 1), j \in T PROVE j + 1 \in T
  <2>1. /\ j + 1 \in 1..n /\ j + 1 \in 1..N /\ j \in 0..N /\ j + 1 \in 0..(n - r)
        /\ (j + 1) - 1 = j
    BY <1>1
  <2>2. PICK i \in 1..n : i = (n - (j + 1)) + 1
    BY <2>1
  <2>3. PICK t : t = N + 1 - (j + 1)
    OBVIOUS
  <2>4. PICK s : s = z[j]
    OBVIOUS
  <2>5. z[j + 1] = UnwrapStep(k, s, i, t) /\ OfTwo(s, n)
    BY <1>2, <1>3, <1>4, <2>1, <2>2, <2>3, <2>4
  <2>6. r # i
    BY <2>1, <2>2
  <2>7. UnwrapStep(k, s, i, t)[2][r] = s[2][r]
    <3>1. n \in Nat /\ OfTwo(s, n)
      BY <2>5
    <3>2. LET u == UnwrapStep(k, s, i, t)
          IN  /\ OfTwo(u, n)
              /\ \A l \in 1..n : l # i => u[2][l] = s[2][l]
              /\ Tainted(u) \/ Undone(k, s, i, t)
              /\ Undone(k, s, i, t) => ~ Tainted(s)
      BY ONLY <3>1, UnwrapStepIs, i \in 1..n
    <3> QED
      BY <2>6, <3>2
  <2> QED
    BY <1>6, <2>1, <2>4, <2>5, <2>7
<1>7. 0..(n - r) \subseteq T
  <2>1. n - r \in Nat
    OBVIOUS
  <2> HIDE DEF T
  <2> QED
    BY <1>5, <1>6, <2>1, UpTo
<1>8. PICK j \in Nat : j = n - r
  OBVIOUS
<1>9. /\ j + 1 \in 1..n /\ j + 1 \in 1..N /\ (j + 1) - 1 = j /\ (n - (j + 1)) + 1 = r
      /\ z[j][2][r] = v[1 + r]
  BY <1>1, <1>7, <1>8
<1>10. PICK t : t = N + 1 - (j + 1)
  OBVIOUS
<1>11. Undone(k, z[j], r, t)
  BY <1>3, <1>4, <1>9, <1>10
<1>12. PICK q : << SymDiff(z[j][1], Num(t)), z[j][2][r] >>[2] = {<< "E", k, q, 2 >>}
  BY <1>11 DEF Undone, FromE
<1> QED
  BY <1>9, <1>12

\* The first step takes A.
Starts(k, v, N) == \E q : SymDiff(v[1], Num(N)) = {<< "E", k, q, 1 >>}
LEMMA UnwrapStarts ==
  ASSUME NEW k, NEW v, NEW n \in Nat \ {0}, NEW N, N = WrapRounds * n,
         NEW z, UnwrapsBy(z, k, n, N, v), z[N][1] = Icv
  PROVE  Starts(k, v, N)
<1>1. N \in Nat /\ N >= 1 /\ 1 \in 1..N /\ 1 - 1 = 0 /\ N + 1 - 1 = N
  BY DEF WrapRounds
<1>2. \A j \in 1..N : Undone(k, z[j - 1], ((N - j) % n) + 1, N + 1 - j)
  BY AllUndone
<1>3. Undone(k, z[0], ((N - 1) % n) + 1, N)
  BY <1>1, <1>2
<1>4. PICK q : SymDiff(z[0][1], Num(N)) = {<< "E", k, q, 1 >>}
  BY <1>3 DEF Undone, FromE
<1> QED
  BY <1>4 DEF UnwrapsBy, Starts

WrapMade(s, n) == WrapState(s, n) /\ \A i \in 1..n : \A a \in s[2][i] : a[1] # "x"

LEMMA WrapStepMakes ==
  ASSUME NEW k, NEW n \in Nat, NEW s, WrapMade(s, n), NEW i \in 1..n, NEW t
  PROVE  LET u == WrapStep(k, s, i, t)
         IN  WrapMade(u, n) /\ \E x : u[1] = SymDiff({Made(k, x, 1)}, Num(t))
<1>1. PICK a, r : a = s[1] /\ r = s[2]
  OBVIOUS
<1>2. /\ WrapState(s, n) /\ CleanByte(a) /\ Clean(r) /\ Len(r) = n
      /\ \A j \in 1..n : \A b \in r[j] : b[1] # "x"
  BY <1>1 DEF WrapMade, WrapState
<1>3. PICK x : x = << a, r[i] >>
  OBVIOUS
<1>4. CleanByte(r[i])
  BY <1>2 DEF Clean, CleanByte
<1>5. Clean(x) /\ Len(x) = 2
  BY <1>2, <1>3, <1>4, CleanPair
<1>6. \A j \in 1..2 : E(k, x)[j] = {Made(k, x, j)}
  <2>1. \A j \in 1..Len(x) : E(k, x)[j] = {Made(k, x, j)}
    BY <1>5, EncipheredIs
  <2> QED
    BY <1>5, <2>1
<1>7. PICK c : c = E(k, x)[2]
  OBVIOUS
<1>8. c = {Made(k, x, 2)} /\ E(k, x)[1] = {Made(k, x, 1)}
  BY <1>6, <1>7
<1>9. PICK u : u = WrapStep(k, s, i, t)
  OBVIOUS
<1>10. u[1] = SymDiff({Made(k, x, 1)}, Num(t)) /\ u[2] = [r EXCEPT ![i] = c]
  BY <1>1, <1>3, <1>7, <1>8, <1>9 DEF WrapStep
<1>11. WrapState(u, n)
  BY <1>2, <1>9, WrapStepBack
<1>12. /\ [r EXCEPT ![i] = c][i] = c
       /\ \A j \in 1..n : j # i => [r EXCEPT ![i] = c][j] = r[j]
  <2>1. i \in 1..Len(r) /\ IsString(r)
    BY <1>2 DEF Clean
  <2>2. /\ [r EXCEPT ![i] = c][i] = c
        /\ \A j \in 1..Len(r) : j # i => [r EXCEPT ![i] = c][j] = r[j]
    BY <2>1, ChangedIs
  <2> QED
    BY <1>2, <2>2
<1>13. ASSUME NEW j \in 1..n, NEW b \in u[2][j] PROVE b[1] # "x"
  <2>1. CASE j = i
    <3>1. b = Made(k, x, 2)
      BY <1>8, <1>10, <1>12, <1>13, <2>1
    <3> QED
      BY <3>1 DEF Made
  <2>2. CASE j # i
    BY <1>2, <1>10, <1>12, <1>13, <2>2
  <2> QED
    BY <2>1, <2>2
<1> QED
  BY <1>9, <1>10, <1>11, <1>13 DEF WrapMade

WrapParts(w, n) ==
  /\ IsString(w) /\ Len(w) = n + 1 /\ n \in Nat \ {0}
  /\ \E x : w[1] = SymDiff({Made("k", x, 1)}, Num(WrapRounds * n))
  /\ \A i \in 1..n : \A a \in w[1 + i] : a[1] # "x"

LEMMA WrapSealed ==
  ASSUME NEW data, Clean(data), Of(data, {"p"}), NEW n \in Nat, n = Len(data),
         KeyWrap("k", data).ok
  PROVE  WrapParts(KeyWrap("k", data).val, n)
<1>1. n # 0
  BY DEF KeyWrap, Err
<1>2. PICK N \in Nat : N = WrapRounds * n /\ N >= 1
  BY <1>1 DEF WrapRounds
<1>3. PICK s : s = << Icv, data >>
  OBVIOUS
<1>4. PICK y : y = WrapSeq(N, s, "k", n)
  OBVIOUS
<1>5. PICK a, r : a = y[N][1] /\ r = y[N][2]
  OBVIOUS
<1>6. KeyWrap("k", data) = Ok(<< a >> \o r)
  <2> DEFINE l == Len(data)
             M == WrapRounds * l
             z == WrapSeq(M, << Icv, data >>, "k", l)
  <2>1. KeyWrap("k", data) = Ok(<< z[M][1] >> \o z[M][2])
    BY <1>1 DEF KeyWrap, WrapSeq
  <2>2. l = n
    OBVIOUS
  <2> HIDE DEF l
  <2>3. M = N
    BY <1>2, <2>2
  <2> HIDE DEF M
  <2>4. z = y
    BY <1>3, <1>4, <2>2, <2>3
  <2> HIDE DEF z
  <2> QED
    BY <1>5, <2>1, <2>3, <2>4
<1>7. /\ y[0] = s
      /\ \A i \in 1..N : y[i] = WrapStep("k", y[i - 1], ((i - 1) % n) + 1, i)
  <2> DEFINE z == WrapSeq(N, s, "k", n)
  <2>1. /\ z[0] = s
        /\ \A i \in 1..N : z[i] = WrapStep("k", z[i - 1], ((i - 1) % n) + 1, i)
    BY WrapSteps
  <2>2. z = y
    BY <1>4
  <2> HIDE DEF z
  <2> QED
    BY <2>1, <2>2
<1>8. \A i \in 1..N : ((i - 1) % n) + 1 \in 1..n
  BY <1>1
<1>9. WrapMade(s, n)
  <2>1. s[1] = Icv /\ s[2] = data
    BY <1>3
  <2>2. CleanByte(Icv)
    BY DEF CleanByte, Icv
  <2>3. WrapState(s, n)
    BY <1>3, <2>1, <2>2 DEF WrapState
  <2>4. \A i \in 1..n : \A b \in data[i] : b[1] # "x"
    BY DEF Of
  <2> QED
    BY <2>1, <2>3, <2>4 DEF WrapMade
<1>10. ASSUME NEW t, WrapMade(t, n), NEW i \in 1..n, NEW j
       PROVE  WrapMade(WrapStep("k", t, i, j), n)
  BY <1>10, WrapStepMakes
<1>11. \A i \in 0..N : WrapMade(y[i], n)
  <2> DEFINE T == {i \in 0..N : WrapMade(y[i], n)}
  <2>1. 0 \in T
    BY <1>7, <1>9
  <2>2. ASSUME NEW i \in 0..(N - 1), i \in T PROVE i + 1 \in T
    <3>1. i + 1 \in 1..N /\ i + 1 \in 0..N /\ (i + 1) - 1 = i
      OBVIOUS
    <3>2. y[i + 1] = WrapStep("k", y[i], (i % n) + 1, i + 1) /\ (i % n) + 1 \in 1..n
      BY <1>7, <1>8, <3>1
    <3>3. WrapMade(y[i + 1], n)
      BY <1>10, <2>2, <3>2
    <3> QED
      BY <3>1, <3>3
  <2> HIDE DEF T
  <2>3. 0..N \subseteq T
    BY <2>1, <2>2, UpTo
  <2> QED
    BY <2>3 DEF T
<1>12. PICK x : a = SymDiff({Made("k", x, 1)}, Num(N))
  <2>1. PICK t : t = y[N - 1]
    OBVIOUS
  <2>2. WrapMade(t, n)
    BY <1>2, <1>11, <2>1
  <2>3. PICK i \in 1..n : i = ((N - 1) % n) + 1
    BY <1>2, <1>8
  <2>4. y[N] = WrapStep("k", t, i, N)
    BY <1>2, <1>7, <2>1, <2>3
  <2>5. \E x : WrapStep("k", t, i, N)[1] = SymDiff({Made("k", x, 1)}, Num(N))
    BY <2>2, WrapStepMakes
  <2> QED
    BY <1>5, <2>4, <2>5
<1>13. /\ IsString(r) /\ Len(r) = n
       /\ \A i \in 1..n : \A b \in r[i] : b[1] # "x"
  <2>1. WrapMade(y[N], n)
    BY <1>11
  <2> QED
    BY <1>5, <2>1 DEF WrapMade, WrapState, Clean
<1>14. PICK w : w = << a >> \o r
  OBVIOUS
<1>15. /\ IsString(w) /\ Len(w) = 1 + n
       /\ \A i \in 1..(1 + n) : w[i] = IF i <= 1 THEN << a >>[i] ELSE r[i - 1]
  <2>1. IsString(<< a >>) /\ Len(<< a >>) = 1 /\ << a >>[1] = a
    BY One
  <2>2. /\ IsString(<< a >> \o r) /\ Len(<< a >> \o r) = Len(<< a >>) + Len(r)
        /\ \A i \in 1..(Len(<< a >>) + Len(r)) :
             (<< a >> \o r)[i] = IF i <= Len(<< a >>) THEN << a >>[i] ELSE r[i - Len(<< a >>)]
    BY <1>13, <2>1, Joined
  <2> QED
    BY <1>13, <1>14, <2>1, <2>2
<1>16. w[1] = a /\ \A i \in 1..n : w[1 + i] = r[i]
  <2>1. << a >>[1] = a /\ 1 \in 1..(1 + n) /\ 1 <= 1
    OBVIOUS
  <2>2. ASSUME NEW i \in 1..n PROVE w[1 + i] = r[i]
    <3>1. 1 + i \in 1..(1 + n) /\ ~ (1 + i <= 1) /\ (1 + i) - 1 = i
      OBVIOUS
    <3> QED
      BY <1>15, <3>1
  <2> QED
    BY <1>15, <2>1, <2>2
<1>17. WrapParts(w, n)
  <2>1. \A i \in 1..n : \A b \in w[1 + i] : b[1] # "x"
    BY <1>13, <1>16
  <2>2. w[1] = SymDiff({Made("k", x, 1)}, Num(WrapRounds * n))
    BY <1>2, <1>12, <1>16
  <2>3. IsString(w) /\ Len(w) = n + 1 /\ n \in Nat \ {0}
    BY <1>1, <1>15
  <2> QED
    BY <2>1, <2>2, <2>3 DEF WrapParts
<1>18. PICK g : g = KeyWrap("k", data)
  OBVIOUS
<1>19. g = Ok(w)
  BY <1>6, <1>14, <1>18
<1>20. g.val = w
  BY <1>19 DEF Ok
<1> QED
  BY <1>17, <1>18, <1>20

LEMMA NumDiffer ==
  ASSUME NEW a, a[1] = "E", NEW b, b[1] = "E", NEW m \in 0..255, NEW n \in 0..255, m # n,
         SymDiff(SymDiff({a}, Num(n)), Num(m)) = {b}
  PROVE  FALSE
<1>1. Value(Num(m)) = m
  BY ValueOfNum
<1>2. Value(Num(n)) = n
  BY ValueOfNum
<1>3. Num(m) # Num(n)
  BY <1>1, <1>2
<1>4. PICK c : c \in SymDiff(Num(m), Num(n))
  BY <1>3 DEF SymDiff
<1>5. c[1] = "bit"
  BY <1>4 DEF SymDiff, Num
<1>6. c # a /\ c # b
  BY <1>5
<1>7. c \in SymDiff(SymDiff({a}, Num(n)), Num(m))
  BY <1>4, <1>6 DEF SymDiff
<1> QED
  BY <1>6, <1>7

LEMMA WrapAltered ==
  ASSUME NEW w, NEW n, WrapParts(w, n), WrapRounds * (n + 1) < 256,
         NEW v, Differs(v, w), KeyUnwrap("k", v).ok
  PROVE  FALSE
<1>1. IsString(v) /\ IsString(w) /\ Len(w) = n + 1 /\ n \in Nat \ {0}
  BY DEF Differs, FlippedAt, Extended, Shortened, WrapParts
<1>2. PICK x : w[1] = SymDiff({Made("k", x, 1)}, Num(WrapRounds * n))
  BY DEF WrapParts
<1>3. \A i \in 1..(n + 1) : \A a \in w[i] : a[1] # "x"
  <2>1. ASSUME NEW i \in 1..(n + 1), NEW a \in w[i] PROVE a[1] # "x"
    <3>1. CASE i = 1
      BY <1>2, <2>1, <3>1 DEF SymDiff, Num, Made
    <3>2. CASE i # 1
      <4>1. PICK j \in 1..n : i = 1 + j
        <5>1. i - 1 \in 1..n /\ i = 1 + (i - 1)
          BY <1>1, <3>2
        <5> QED
          BY <5>1
      <4> QED
        BY <2>1, <4>1 DEF WrapParts
    <3> QED
      BY <3>1, <3>2
  <2> QED
    BY <2>1
<1>4. PICK m \in Nat \ {0} : Len(v) = m + 1 /\ (m = n \/ m = n + 1 \/ n = m + 1)
  <2>1. PICK l \in Nat : l = Len(v)
    BY <1>1, StringProperties
  <2>2. ~ (l < 2)
    BY <2>1 DEF KeyUnwrap, Err
  <2>3. l = n + 1 \/ l = n + 2 \/ n = l
    BY <1>1, <2>1 DEF Differs, FlippedAt, Extended, Shortened
  <2>4. PICK m \in Nat \ {0} : l = m + 1
    <3>1. l - 1 \in Nat \ {0} /\ l = (l - 1) + 1
      BY <2>2
    <3> QED
      BY <3>1
  <2> QED
    BY <1>1, <2>1, <2>3, <2>4
<1>5. PICK N \in Nat : N = WrapRounds * m /\ N < 256
  BY <1>1, <1>4 DEF WrapRounds
<1>6. PICK z : UnwrapsBy(z, "k", m, N, v) /\ z[N][1] = Icv
  <2>1. PICK z : /\ UnwrapsBy(z, "k", m, N, v)
                 /\ KeyUnwrap("k", v) = IF z[N][1] = Icv THEN Ok(z[N][2]) ELSE Err("InvalidTag")
    BY <1>1, <1>4, <1>5, UnwrapIs
  <2> QED
    BY <2>1 DEF Err
<1>7. \A r \in 1..m : \E q : v[1 + r] = {<< "E", "k", q, 2 >>}
  BY <1>5, <1>6, UnwrapTakes
<1>8. PICK q : SymDiff(v[1], Num(N)) = {<< "E", "k", q, 1 >>}
  <2>1. Starts("k", v, N)
    BY <1>5, <1>6, UnwrapStarts
  <2> QED
    BY <2>1 DEF Starts
<1>9. << "x", 0 >>[1] = "x" /\ \A p, j : << "E", "k", p, j >>[1] = "E"
  OBVIOUS
<1>10. ASSUME NEW i \in 1..Len(w), FlippedAt(v, w, i) PROVE FALSE
  <2>1. << "x", 0 >> \in v[i] /\ Len(v) = n + 1 /\ i \in 1..(n + 1)
    <3>1. << "x", 0 >> \notin w[i]
      BY <1>1, <1>3, <1>9
    <3> QED
      BY <1>1, <1>10, <3>1 DEF FlippedAt, SymDiff, X
  <2>2. m = n
    BY <1>1, <1>4, <2>1
  <2>3. CASE i = 1
    <3>1. << "x", 0 >> \notin Num(N)
      BY DEF Num
    <3>2. << "x", 0 >> \in SymDiff(v[1], Num(N))
      BY <2>1, <2>3, <3>1 DEF SymDiff
    <3> QED
      BY <1>8, <1>9, <3>2
  <2>4. CASE i # 1
    <3>1. i - 1 \in 1..m /\ i = 1 + (i - 1)
      BY <1>1, <2>1, <2>2, <2>4
    <3>2. PICK p : v[i] = {<< "E", "k", p, 2 >>}
      BY <1>7, <3>1
    <3> QED
      BY <1>9, <2>1, <3>2
  <2> QED
    BY <2>3, <2>4
<1>11. ASSUME Extended(v, w) PROVE FALSE
  <2>1. Len(v) = n + 2 /\ v[n + 2] \in {Zero, X}
    <3>1. Len(w) + 1 = n + 2
      BY <1>1
    <3> QED
      BY <1>1, <1>11, <3>1 DEF Extended
  <2>2. m = n + 1 /\ m \in 1..m /\ n + 2 = 1 + m
    BY <1>1, <1>4, <2>1
  <2>3. PICK p : v[1 + m] = {<< "E", "k", p, 2 >>}
    BY <1>7, <2>2
  <2>4. << "E", "k", p, 2 >> \in v[n + 2]
    BY <2>2, <2>3
  <2> QED
    BY <1>9, <2>1, <2>4 DEF Zero, X
<1>12. ASSUME Shortened(v, w) PROVE FALSE
  <2>1. n = m + 1 /\ v[1] = w[1]
    <3>1. Len(w) = Len(v) + 1 /\ \A j \in 1..Len(v) : v[j] = w[j]
      BY <1>12 DEF Shortened
    <3>2. 1 \in 1..(m + 1)
      BY <1>4
    <3> QED
      BY <1>1, <1>4, <3>1, <3>2
  <2>2. PICK M : M = WrapRounds * n
    OBVIOUS
  <2>3. M \in 0..255 /\ N \in 0..255 /\ N # M
    BY <1>1, <1>4, <1>5, <2>1, <2>2 DEF WrapRounds
  <2>4. PICK a, b : a = Made("k", x, 1) /\ b = << "E", "k", q, 1 >>
    OBVIOUS
  <2>5. a[1] = "E" /\ b[1] = "E"
    BY <1>9, <2>4 DEF Made
  <2>6. SymDiff(SymDiff({a}, Num(M)), Num(N)) = {b}
    BY <1>2, <1>8, <2>1, <2>2, <2>4
  <2> QED
    BY <2>3, <2>5, <2>6, NumDiffer
<1> QED
  BY <1>10, <1>11, <1>12 DEF Differs

\* What key wrap wraps: neither nonce nor aad nor tag.
IsWrapped(e, par) ==
  /\ IsEnvelope(e) /\ e.mode = "wrap" /\ e.par = par
  /\ e.nonce = << >> /\ e.aad = << >> /\ e.tag = << >>
  /\ \E n : WrapParts(e.ct, n) /\ WrapRounds * (n + 1) < 256

LEMMA WrapFamily ==
  ASSUME NEW V, NEW par, Family(V, "wrap", par), NEW e \in V
  PROVE  IsWrapped(e, par)
<1>1. "wrap" # "siv" /\ \A c \in Calls \cup Follow : c.mode = "wrap" => c.aad \in Nat
  BY LimitAssumption
<1>2. PICK c, aad, pt : LET m == [mode |-> "wrap", par |-> par, nonce |-> c.nonce,
                                  aad |-> aad, pt |-> pt]
                        IN  c.mode = "wrap" /\ c.par = par /\ EnvelopeOf(e, c, aad, pt, SealCall(m))
  BY <1>1, FamilyOf
<1>3. c.mode = "wrap" /\ c.par = par /\ EnvelopeOf(e, c, aad, pt, Plain(KeyWrap("k", pt)))
  BY <1>2 DEF SealCall
<1>4. PICK r : r = KeyWrap("k", pt)
  OBVIOUS
<1>5. r.ok /\ Plain(r).ct = r.val
  <2>1. Plain(r).ok
    BY <1>3, <1>4 DEF EnvelopeOf
  <2> QED
    BY <2>1, PlainIs
<1>6. Plain(r).tag = << >>
  BY <1>5 DEF Plain, Sealed
<1>7. /\ IsEnvelope(e) /\ e.mode = "wrap" /\ e.par = par /\ e.nonce = c.nonce /\ e.aad = aad
      /\ e.ct = r.val /\ e.tag = << >> /\ c \in Calls \cup Follow
      /\ Of(pt, {"p"}) /\ Clean(pt) /\ Len(pt) = c.pt /\ c.pt \in Nat
      /\ IsString(aad) /\ Len(aad) = c.aad
  BY <1>3, <1>4, <1>5, <1>6 DEF EnvelopeOf, Of
<1>8. c.nonce = << >> /\ c.aad = 0 /\ WrapRounds * (c.pt + 1) < 256
  BY <1>3, <1>7, LimitAssumption
<1>9. aad = << >>
  BY <1>7, <1>8, EmptyIs
<1>10. WrapParts(r.val, c.pt)
  <2>1. PICK n \in Nat : n = c.pt
    BY <1>7
  <2> QED
    BY <1>4, <1>5, <1>7, <2>1, WrapSealed
<1> QED
  BY <1>7, <1>8, <1>9, <1>10 DEF IsWrapped

LEMMA WrapAuthentic ==
  ASSUME NEW V, NEW par, Family(V, "wrap", par), NEW e \in V, NEW o, Touches(o, e, V),
         OpenCall(o).ok
  PROVE  o \in V
<1>1. \A v \in V : IsWrapped(v, par)
  BY WrapFamily
<1>2. /\ IsEnvelope(o) /\ o.mode = "wrap" /\ o.par = par
      /\ IsEnvelope(e) /\ e.mode = "wrap" /\ e.par = par
  BY <1>1 DEF Touches, IsWrapped
<1>3. KeyUnwrap("k", o.ct).ok
  BY <1>2 DEF OpenCall
<1>4. PICK n : WrapParts(e.ct, n) /\ WrapRounds * (n + 1) < 256
  BY <1>1 DEF IsWrapped
<1>5. ~ NewCt(o, e)
  <2>1. SUFFICES ASSUME NewCt(o, e) PROVE FALSE
    OBVIOUS
  <2>2. PICK w : w = e.ct
    OBVIOUS
  <2>3. IsString(w)
    BY <1>4, <2>2 DEF WrapParts
  <2>4. PICK v : v = o.ct
    OBVIOUS
  <2>5. v \in Flipped(w) \cup Resized(w)
    BY <2>1, <2>2, <2>4 DEF NewCt
  <2>6. Differs(v, w)
    BY <2>3, <2>5, AlteredIs
  <2> QED
    BY <1>3, <1>4, <2>2, <2>4, <2>6, WrapAltered
<1>6. ~ NewTag(o, e)
  <2>1. e.tag = << >> /\ DOMAIN << >> = {}
    BY <1>1 DEF IsWrapped
  <2> QED
    BY <2>1 DEF NewTag, Flipped
<1>7. ~ NewAad(o, e)
  <2>1. AlteredAad(e.mode, e.aad) = {}
    BY <1>2 DEF AlteredAad, Aead
  <2> QED
    BY <2>1 DEF NewAad
<1>8. NewNonce(o, e) => o.nonce = << >>
  BY <1>2, LimitAssumption DEF NewNonce
<1>9. o.ct = e.ct /\ o.nonce = << >> /\ o.aad = << >> /\ o.tag = << >>
  <2>1. \A v \in V : v.nonce = << >> /\ v.aad = << >> /\ v.tag = << >>
    BY <1>1 DEF IsWrapped
  <2>2. CASE Mixing(o, e, V)
    BY <2>1, <2>2 DEF Mixing
  <2>3. CASE NewNonce(o, e)
    BY <1>8, <2>1, <2>3 DEF NewNonce
  <2> QED
    BY <1>5, <1>6, <1>7, <2>2, <2>3 DEF Touches
<1>10. e.nonce = << >> /\ e.aad = << >> /\ e.tag = << >>
  BY <1>1 DEF IsWrapped
<1>11. o = e
  BY <1>2, <1>9, <1>10, SameEnvelope
<1> QED
  BY <1>11

-----------------------------------------------------------------------------
(* The session: what is kept was sealed by a call of the mode and the      *)
(* parameter of the first, under nonces that differ, except by key wrap,   *)
(* which takes none; and what was offered is one of the offers.            *)

SealedBy(r, mode, par) ==
  \E c \in Calls \cup Follow : \E id \in Nat :
    c.mode = mode /\ c.par = par /\ SealedAs(r.env, c, id) /\ r.pt = Message(c, id).pt
AllSealed(s) ==
  \A i \in 1..Len(s) : SealedBy(s[i], s[1].env.mode, s[1].env.par)
NoncesDiffer(s) ==
  \A i, j \in 1..Len(s) :
    i # j => s[i].env.nonce # s[j].env.nonce \/ s[1].env.mode = "wrap"
KeptInv ==
  /\ AllSealed(sealed) /\ NoncesDiffer(sealed)
  /\ offered # None => offered \in Offers

LEMMA SealedAsIs ==
  ASSUME NEW e, NEW c, NEW id, SealedAs(e, c, id)
  PROVE  IsEnvelope(e) /\ e.mode = c.mode /\ e.par = c.par /\ e.nonce = c.nonce
BY DEF SealedAs, Envelope, Message, IsEnvelope

LEMMA SealKeeps ==
  ASSUME SessionInv, KeptInv, NEW c \in Calls \cup Follow, Seal(c), offered = None,
         Len(sealed) \in {0, 1},
         sealed # << >> => /\ c.mode = sealed[1].env.mode /\ c.par = sealed[1].env.par
                           /\ c.nonce # sealed[1].env.nonce \/ c.mode = "wrap"
  PROVE  KeptInv'
<1> DEFINE id == Len(sealed) + 1
           m == Message(c, id)
           s == SealCall(m)
           e == [call |-> c, pt |-> m.pt, env |-> Envelope(m, s.ct, s.tag)]
           t == sealed'
<1>0. Keep(c, m, s)
  BY DEF Seal
<1>1. offered' = None
  BY <1>0 DEF Keep
<1>2. CASE ~s.ok
  <2>1. sealed' = sealed
    BY <1>0, <1>2 DEF Keep
  <2> QED
    BY <1>1, <2>1 DEF KeptInv
<1>3. CASE s.ok
  <2>1. t = Append(sealed, e)
    BY <1>0, <1>3 DEF Keep
  <2>2. e.pt = m.pt /\ e.env = Envelope(m, s.ct, s.tag)
    OBVIOUS
  <2>3. SealedAs(e.env, c, id)
    BY <1>3, <2>2 DEF SealedAs
  <2> HIDE DEF e
  <2>4. /\ e.env.mode = c.mode /\ e.env.par = c.par /\ e.env.nonce = c.nonce
    BY <2>3, SealedAsIs
  <2>5. IsString(sealed)
    BY MadeString DEF SessionInv, SealedIs
  <2>6. PICK n \in {0, 1} : n = Len(sealed)
    OBVIOUS
  <2>7. SealedBy(e, c.mode, c.par)
    <3>1. id \in Nat
      BY <2>6
    <3> QED
      BY <2>2, <2>3, <3>1 DEF SealedBy
  <2>8. t = [i \in 1..(n + 1) |-> t[i]] /\ (\A i \in 1..n : t[i] = sealed[i]) /\ t[n + 1] = e
    BY <2>1, <2>5, <2>6, AppendMakes
  <2>9. Len(t) = n + 1
    BY <2>8, MadeString
  <2>10. CASE n = 0
    <3>1. Len(t) = 1 /\ t[1] = e
      BY <2>8, <2>9, <2>10
    <3>2. AllSealed(t)
      BY <2>4, <2>7, <3>1 DEF AllSealed
    <3>3. NoncesDiffer(t)
      BY <3>1 DEF NoncesDiffer
    <3> QED
      BY <1>1, <3>2, <3>3 DEF KeptInv
  <2>11. CASE n = 1
    <3>1. Len(t) = 2 /\ t[1] = sealed[1] /\ t[2] = e
      BY <2>8, <2>9, <2>11
    <3>2. sealed # << >>
      <4>1. Len(<< >>) = 0
        BY Empty
      <4>2. Len(sealed) # 0
        BY <2>6, <2>11
      <4> QED
        BY <4>1, <4>2
    <3>3. SealedBy(t[1], t[1].env.mode, t[1].env.par)
      BY <2>6, <2>11, <3>1 DEF KeptInv, AllSealed
    <3>4. SealedBy(t[2], t[1].env.mode, t[1].env.par)
      BY <2>7, <3>1, <3>2
    <3>5. \A i \in 1..2 : i = 1 \/ i = 2
      OBVIOUS
    <3>6. AllSealed(t)
      BY <3>1, <3>3, <3>4, <3>5 DEF AllSealed
    <3>7. t[1].env.nonce # t[2].env.nonce \/ t[1].env.mode = "wrap"
      BY <2>4, <3>1, <3>2
    <3>8. NoncesDiffer(t)
      BY <3>1, <3>5, <3>7 DEF NoncesDiffer
    <3> QED
      BY <1>1, <3>6, <3>8 DEF KeptInv
  <2> QED
    BY <2>10, <2>11
<1> QED
  BY <1>2, <1>3

LEMMA KeptHolds ==
  Spec => []KeptInv
<1>1. Init => KeptInv
  <2>1. Len(<< >>) = 0 /\ 1..0 = {}
    OBVIOUS
  <2> QED
    BY <2>1 DEF Init, KeptInv, AllSealed, NoncesDiffer
<1>2. SessionInv /\ KeptInv /\ [Next]_vars => KeptInv'
  <2> SUFFICES ASSUME SessionInv, KeptInv, [Next]_vars PROVE KeptInv'
    OBVIOUS
  <2>1. CASE SealFirst
    <3>1. PICK c \in Calls : Seal(c)
      BY <2>1 DEF SealFirst
    <3>2. sealed = << >> /\ offered = None /\ Len(sealed) \in {0, 1}
      <4>1. sealed = << >> /\ offered = None
        BY <2>1 DEF SealFirst, SessionInv, OfferedIs
      <4> QED
        BY <4>1, Empty
    <3> QED
      BY <3>1, <3>2, SealKeeps
  <2>2. CASE SealSecond
    <3>1. Len(sealed) \in {0, 1} /\ offered = None
      BY <2>2 DEF SealSecond
    <3>2. PICK c \in Follow : /\ c.mode = sealed[1].env.mode /\ c.par = sealed[1].env.par
                              /\ c.nonce # sealed[1].env.nonce \/ c.mode = "wrap"
                              /\ Seal(c)
      BY <2>2 DEF SealSecond
    <3> QED
      BY <3>1, <3>2, SealKeeps
  <2>3. CASE Open
    <3>1. sealed' = sealed /\ offered' \in Offers
      BY <2>3 DEF Open
    <3>2. Offers' = Offers
      BY <3>1, OffersStay
    <3> QED
      BY <3>1, <3>2 DEF KeptInv
  <2>4. CASE UNCHANGED vars
    <3>1. sealed' = sealed /\ offered' = offered
      BY <2>4 DEF vars
    <3>2. Offers' = Offers
      BY <3>1, OffersStay
    <3> QED
      BY <3>1, <3>2 DEF KeptInv
  <2> QED
    BY <2>1, <2>2, <2>3, <2>4 DEF Next
<1> QED
  BY <1>1, <1>2, SessionHolds, PTL DEF Spec

\* What is offered to an authenticated mode, of what was sealed.
Bound == {"gcm", "gcm_combined", "ccm", "ocb", "wrap"}
Offering(o, V, mode, par) ==
  /\ mode \in Bound /\ o.mode = mode /\ Family(V, mode, par)
  /\ \E e \in V : Touches(o, e, V)
  /\ \A e, f \in V : e # f => e.nonce # f.nonce \/ mode = "wrap"

LEMMA OfferingIs ==
  ASSUME SessionInv, KeptInv, offered # None, offered.mode \in Bound
  PROVE  /\ Offering(offered, Envelopes, sealed[1].env.mode, sealed[1].env.par)
         /\ \A e \in Envelopes : \E i \in 1..Len(sealed) : e = sealed[i].env
<1>1. PICK mode, par : mode = sealed[1].env.mode /\ par = sealed[1].env.par
  OBVIOUS
<1>2. PICK o : o = offered
  OBVIOUS
<1>3. DOMAIN sealed = 1..Len(sealed) /\ sealed # << >>
  BY DEF SessionInv, SealedIs, OfferedIs
<1>4. \A e \in Envelopes : \E i \in 1..Len(sealed) : e = sealed[i].env
  BY <1>3 DEF Envelopes
<1>5. \A e \in Envelopes : IsEnvelope(e) /\ e.mode = mode
  BY <1>1, <1>3, <1>4 DEF SessionInv, SealedIs
<1>6. Family(Envelopes, mode, par)
  <2>1. ASSUME NEW e \in Envelopes
        PROVE  \E c \in Calls \cup Follow : \E id \in Nat :
                 c.mode = mode /\ c.par = par /\ SealedAs(e, c, id)
    <3>1. PICK i \in 1..Len(sealed) : e = sealed[i].env
      BY <1>4
    <3>2. SealedBy(sealed[i], mode, par)
      BY <1>1 DEF KeptInv, AllSealed
    <3> QED
      BY <3>1, <3>2 DEF SealedBy
  <2> QED
    BY <2>1 DEF Family
<1>7. o \in Offers /\ o.mode \in Bound
  BY <1>2 DEF KeptInv
<1>8. mode \in Aead \cup {"wrap"}
  <2>1. SUFFICES ASSUME mode \notin Aead \cup {"wrap"} PROVE FALSE
    OBVIOUS
  <2>2. CASE mode = "pad"
    <3>1. o \in Envelopes \cup {[e EXCEPT !.ct = s] : e \in Envelopes, s \in Strings}
      BY <1>1, <1>7, <2>2 DEF Offers, Aead
    <3>2. o.mode = mode
      BY <1>5, <3>1 DEF IsEnvelope
    <3> QED
      BY <1>7, <2>2, <3>2 DEF Bound
  <2>3. CASE mode # "pad"
    <3>1. o \in Envelopes
      BY <1>1, <1>7, <2>1, <2>3 DEF Offers
    <3> QED
      BY <1>5, <1>7, <2>1, <3>1 DEF Bound, Aead
  <2> QED
    BY <2>2, <2>3
<1>9. o \in MixedOrAltered
  <2>1. o \in MixedOrAltered \cup Exchanged
    BY <1>1, <1>7, <1>8 DEF Offers, Aead
  <2>2. ASSUME o \in Exchanged PROVE o.mode = "eax"
    <3>1. PICK e \in Envelopes : e.mode = "eax" /\ o = Exchange(e)
      BY <2>2 DEF Exchanged
    <3> QED
      BY <1>5, <3>1, ExchangeMode
  <2> QED
    BY <1>7, <2>1, <2>2 DEF Bound
<1>10. PICK e \in Envelopes : Touches(o, e, Envelopes)
  BY <1>3, <1>5, <1>9, ReachesIs
<1>11. o.mode = mode
  BY <1>5, <1>10 DEF Touches
<1>12. \A e1, f1 \in Envelopes : e1 # f1 => e1.nonce # f1.nonce \/ mode = "wrap"
  <2>1. ASSUME NEW e1 \in Envelopes, NEW f1 \in Envelopes, e1 # f1
        PROVE  e1.nonce # f1.nonce \/ mode = "wrap"
    <3>1. PICK i, j \in 1..Len(sealed) : e1 = sealed[i].env /\ f1 = sealed[j].env
      BY <1>4
    <3> QED
      BY <1>1, <2>1, <3>1 DEF KeptInv, NoncesDiffer
  <2> QED
    BY <2>1
<1>13. Offering(o, Envelopes, mode, par)
  BY <1>6, <1>7, <1>10, <1>11, <1>12 DEF Offering
<1> QED
  BY <1>1, <1>2, <1>4, <1>13

\* An envelope that was sealed gives its message.
LEMMA KeptGives ==
  ASSUME SessionInv, KeptInv, NEW i \in 1..Len(sealed), offered # None, offered = sealed[i].env,
         offered.mode \in Bound
  PROVE  result.val = sealed[i].pt
<1>1. PICK r : r = sealed[i]
  OBVIOUS
<1>2. PICK mode, par : SealedBy(r, mode, par)
  BY <1>1 DEF KeptInv, AllSealed
<1>3. PICK c \in Calls \cup Follow :
           \E id \in Nat : SealedAs(r.env, c, id) /\ r.pt = Message(c, id).pt
  BY <1>2 DEF SealedBy
<1>4. PICK id \in Nat : SealedAs(r.env, c, id) /\ r.pt = Message(c, id).pt
  BY <1>3
<1>5. PICK m : m = Message(c, id)
  OBVIOUS
<1>6. c.mode # "fpe"
  BY <1>1, <1>4, SealedAsIs DEF Bound
<1>7. Sound(m)
  BY <1>5, <1>6, MessageSound
<1>8. SealCall(m).ok /\ r.env = Envelope(m, SealCall(m).ct, SealCall(m).tag)
  BY <1>4, <1>5 DEF SealedAs
<1>9. OpenCall(Envelope(m, SealCall(m).ct, SealCall(m).tag)) = Ok(m.pt)
  BY <1>7, <1>8, SealedOpens
<1>10. OpenCall(r.env) = Ok(r.pt)
  BY <1>4, <1>5, <1>8, <1>9
<1>11. result = Ok(r.pt)
  BY <1>1, <1>10 DEF SessionInv, OfferedIs
<1> QED
  BY <1>1, <1>11 DEF Ok

-----------------------------------------------------------------------------
(* What a mode makes of a text repeats no block of it: key streams whose   *)
(* inputs differ, chains that feed each block from the one before, and     *)
(* tweaks that are powers of alpha.                                        *)

\* A place in a whole block.
LEMMA InBlock ==
  ASSUME NEW q \in Nat, NEW i \in 1..q, NEW j \in 1..B
  PROVE  Off(i - 1) + j \in 1..Off(q)
<1>1. i - 1 \in Nat /\ i \in Nat /\ i # 0 /\ i <= q
  OBVIOUS
<1>2. Off(i) = Off(i - 1) + B /\ Off(i - 1) \in Nat
  BY <1>1, OffIs
<1>3. Off(i) <= Off(q) /\ Off(q) \in Nat
  BY <1>1, OffIs, OffGrows
<1>4. PICK y \in Nat, z \in Nat : y = Off(i - 1) /\ z = Off(q)
  BY <1>2, <1>3
<1> QED
  BY <1>2, <1>3, <1>4, BlockLen

\* What doubling makes of a block, atom by atom.
LEMMA LinearParts ==
  ASSUME NEW f, NEW x, NEW j \in 1..B
  PROVE  Linear(f, x)[j] =
           {<< "lin", << f, a[2][2] + 1 >>, a[3], j >> :
              a \in {b \in x[1] : b[1] = "lin" /\ b[2][1] = f}}
             \cup UNION {{<< "lin", << f, 1 >>, << i, a >>, j >> :
                            a \in x[i] \ {b \in x[i] : b[1] = "lin" /\ b[2][1] = f}} : i \in 1..B}
<1> DEFINE mapped(i) == {a \in x[i] : a[1] = "lin" /\ a[2][1] = f}
           one(l) == {<< "lin", << f, a[2][2] + 1 >>, a[3], l >> : a \in mapped(1)}
           part(i, l) == {<< "lin", << f, 1 >>, << i, a >>, l >> : a \in x[i] \ mapped(i)}
           y == [l \in 1..B |-> one(l) \cup UNION {part(i, l) : i \in 1..B}]
<1>1. Linear(f, x) = SubSeq(y, 1, B)
  BY DEF Linear, Bytes
<1>2. y[j] = one(j) \cup UNION {part(i, j) : i \in 1..B} /\ y = [l \in 1..B |-> y[l]]
  OBVIOUS
<1> HIDE DEF y
<1>3. SubSeq(y, 1, B) = y
  BY <1>2, BlockLen, Tuple
<1> HIDE DEF one, part
<1>4. Linear(f, x)[j] = one(j) \cup UNION {part(i, j) : i \in 1..B}
  BY <1>1, <1>2, <1>3
<1> QED
  BY <1>4, Zenon DEF one, part

LEMMA RadixIs ==
  /\ Radix \in Nat /\ Radix >= 2 /\ Radix <= 16
  /\ \A n \in Nat : Radix * n \in Nat /\ n <= Radix * n /\ Radix * (n + 1) = Radix * n + Radix
  /\ \A n \in Nat \ {0} : Radix * (n - 1) + (Radix - 1) = Radix * n - 1
<1>1. CASE Radix = 2
  BY <1>1
<1>2. CASE Radix = 4
  BY <1>2
<1>3. CASE Radix = 8
  BY <1>3
<1>4. CASE Radix = 16
  BY <1>4
<1> QED
  BY <1>1, <1>2, <1>3, <1>4, BlockAssumption

FirstsDiffer(s, n) ==
  \A i, j \in 1..(n \div B) : s[Off(i - 1) + 1] = s[Off(j - 1) + 1] => i = j

Spreads(s, n) == IsString(s) /\ n \in Nat /\ n <= Len(s) /\ FirstsDiffer(s, n)

\* Nothing of the byte was enciphered under the key.
Alien(k, b) == \A a \in b : ~ (a[1] = "E" /\ a[2] = k)

LEMMA MaskTells ==
  ASSUME NEW k, NEW x, NEW y, IsString(x), IsString(y), NEW b, NEW c, Alien(k, b), Alien(k, c),
         SymDiff(b, {Made(k, x, 1)}) = SymDiff(c, {Made(k, y, 1)})
  PROVE  x = y
<1>1. PICK u, v : u = Made(k, x, 1) /\ v = Made(k, y, 1)
  OBVIOUS
<1>2. u[1] = "E" /\ u[2] = k /\ v[1] = "E" /\ v[2] = k
  BY <1>1 DEF Made
<1>3. u \notin b /\ u \notin c
  BY <1>2 DEF Alien
<1>4. SymDiff(b, {u}) = SymDiff(c, {v})
  BY <1>1
<1>5. u = v
  BY <1>3, <1>4 DEF SymDiff
<1> QED
  BY <1>1, <1>5, MadeTells

LEMMA PlainAlien ==
  ASSUME NEW k, NEW s, Of(s, {"p"}), NEW i \in 1..Len(s)
  PROVE  Alien(k, s[i])
BY DEF Of, Alien

-----------------------------------------------------------------------------
(* What is masked by different images differs.                             *)

LEMMA StreamDiffers ==
  ASSUME NEW k, NEW data, Clean(data), Of(data, {"p"}), NEW x,
         AreBlocks(x, Parts(Len(data))),
         \A i, j \in 1..Parts(Len(data)) : x[i] = x[j] => i = j
  PROVE  FirstsDiffer(KeyStreamed(k, x, data), Len(data))
<1>1. PICK f : f = KeyStreamed(k, x, data)
  OBVIOUS
<1>2. IsStreamed(f, k, x, data)
  BY <1>1, StreamBytes
<1>3. PICK n \in Nat : n = Len(data)
  BY CleanChunks
<1>4. PICK q \in Nat : q = n \div B
  BY <1>3, Quotient
<1>5. Off(q) \in Nat /\ Off(q) <= n /\ \A i \in 1..q : PartLen(i, n) = B /\ i \in 1..Parts(n)
  BY <1>4, Quotient
<1>6. 1 \in 1..B
  BY BlockLen
<1>7. ASSUME NEW i \in 1..q
      PROVE  \E b : /\ Alien(k, b) /\ IsString(x[i])
                    /\ f[Off(i - 1) + 1] = SymDiff(b, {Made(k, x[i], 1)})
  <2>1. Off(i - 1) + 1 \in 1..Off(q)
    BY <1>6, InBlock
  <2>2. Off(i - 1) + 1 \in 1..n
    BY <1>5, <2>1
  <2>3. Alien(k, data[Off(i - 1) + 1])
    BY <1>3, <2>2, PlainAlien
  <2>4. f[Off(i - 1) + 1] = SymDiff(data[Off(i - 1) + 1], {Made(k, x[i], 1)})
    BY <1>2, <1>3, <1>5, <1>6 DEF IsStreamed
  <2>5. IsString(x[i])
    BY <1>3, <1>5 DEF AreBlocks, IsBlock, Clean
  <2> QED
    BY <2>3, <2>4, <2>5
<1>8. ASSUME NEW i \in 1..q, NEW j \in 1..q, f[Off(i - 1) + 1] = f[Off(j - 1) + 1] PROVE i = j
  <2>1. PICK b : /\ Alien(k, b) /\ IsString(x[i])
                 /\ f[Off(i - 1) + 1] = SymDiff(b, {Made(k, x[i], 1)})
    BY <1>7
  <2>2. PICK c : /\ Alien(k, c) /\ IsString(x[j])
                 /\ f[Off(j - 1) + 1] = SymDiff(c, {Made(k, x[j], 1)})
    BY <1>7
  <2>3. SymDiff(b, {Made(k, x[i], 1)}) = SymDiff(c, {Made(k, x[j], 1)})
    BY <1>8, <2>1, <2>2
  <2>4. x[i] = x[j]
    BY <2>1, <2>2, <2>3, MaskTells
  <2> QED
    BY <1>3, <1>5, <2>4
<1> QED
  BY <1>1, <1>3, <1>4, <1>8 DEF FirstsDiffer

LEMMA StreamSpreads ==
  ASSUME NEW k, NEW data, Clean(data), Of(data, {"p"}), NEW x,
         AreBlocks(x, Parts(Len(data))),
         \A i, j \in 1..Parts(Len(data)) : x[i] = x[j] => i = j
  PROVE  Spreads(KeyStreamed(k, x, data), Len(data))
<1>1. PICK f : f = KeyStreamed(k, x, data)
  OBVIOUS
<1>2. Clean(f) /\ Len(f) = Len(data)
  BY <1>1, KeyStreamBack DEF AreBlocks
<1>3. FirstsDiffer(f, Len(data))
  BY <1>1, StreamDiffers
<1>4. Len(data) \in Nat
  BY CleanChunks
<1>5. PICK n \in Nat : n = Len(data)
  BY <1>4
<1> QED
  BY <1>1, <1>2, <1>3, <1>5 DEF Spreads, Clean

\* Each block is fed to the next one under the cipher.
Feeds(x, k, n) ==
  /\ n \in Nat /\ \A i \in 1..n : IsBlock(x[i])
  /\ Alien(k, x[1][1])
  /\ \A i \in 2..n : \E b : Alien(k, b) /\ x[i][1] = SymDiff(b, {Made(k, x[i - 1], 1)})

\* No block comes back: the first that did would hold an image as the first
\* one does not, or come from one that had come back before.
LEMMA FeedsDiffer ==
  ASSUME NEW k, NEW n, NEW x, Feeds(x, k, n), NEW i \in 1..n, NEW j \in 1..n, x[i] = x[j]
  PROVE  i = j
<1> DEFINE T == {h \in 1..n : \E m \in 1..n : h < m /\ x[h] = x[m]}
<1>1. n \in Nat
  BY DEF Feeds
<1>2. T = {}
  <2>1. SUFFICES ASSUME T # {} PROVE FALSE
    OBVIOUS
  <2>2. T \subseteq Nat
    BY <1>1
  <2> HIDE DEF T
  <2>3. PICK h \in T : \A g \in T : h <= g
    BY <2>1, <2>2, LeastNat
  <2>4. PICK m \in 1..n : h \in 1..n /\ h < m /\ x[h] = x[m]
    BY <2>3 DEF T
  <2>5. m \in 2..n /\ m - 1 \in 1..n
    BY <1>1, <2>4
  <2>6. PICK b : Alien(k, b) /\ x[m][1] = SymDiff(b, {Made(k, x[m - 1], 1)})
    BY <2>5 DEF Feeds
  <2>7. CASE h = 1
    <3>1. PICK u : u = Made(k, x[m - 1], 1)
      OBVIOUS
    <3>2. u[1] = "E" /\ u[2] = k
      BY <3>1 DEF Made
    <3>3. u \notin b
      BY <2>6, <3>2 DEF Alien
    <3>4. u \in x[m][1]
      BY <2>6, <3>1, <3>3 DEF SymDiff
    <3>5. u \in x[1][1]
      BY <2>4, <2>7, <3>4
    <3> QED
      BY <3>2, <3>5 DEF Feeds, Alien
  <2>8. CASE h # 1
    <3>1. h \in 2..n /\ h - 1 \in 1..n /\ h - 1 < m - 1 /\ ~ (h <= h - 1)
      BY <1>1, <2>4, <2>8
    <3>2. PICK c : Alien(k, c) /\ x[h][1] = SymDiff(c, {Made(k, x[h - 1], 1)})
      BY <3>1 DEF Feeds
    <3>3. IsString(x[h - 1]) /\ IsString(x[m - 1])
      BY <2>5, <3>1 DEF Feeds, IsBlock, Clean
    <3>4. SymDiff(c, {Made(k, x[h - 1], 1)}) = SymDiff(b, {Made(k, x[m - 1], 1)})
      BY <2>4, <2>6, <3>2
    <3>5. x[h - 1] = x[m - 1]
      BY <2>6, <3>2, <3>3, <3>4, MaskTells
    <3>6. h - 1 \in T
      BY <2>5, <3>1, <3>5 DEF T
    <3> QED
      BY <2>3, <3>1, <3>6
  <2> QED
    BY <2>7, <2>8
<1>3. ~ (i < j) /\ ~ (j < i)
  BY <1>2
<1> QED
  BY <1>3

LEMMA FirstImage ==
  ASSUME NEW k, NEW x, IsBlock(x)
  PROVE  E(k, x)[1] = {Made(k, x, 1)} /\ IsBlock(E(k, x))
<1>1. Clean(x) /\ Len(x) >= 1 /\ 1 \in 1..Len(x)
  BY BlockLen DEF IsBlock
<1> QED
  BY <1>1, EncipheredIs, BlockEnciphered

\* A masked image, whole.
LEMMA MaskedImage ==
  ASSUME NEW k, NEW x, IsBlock(x), NEW d, IsBlock(d)
  PROVE  /\ IsBlock(Xor(d, E(k, x)))
         /\ Xor(d, E(k, x))[1] = SymDiff(d[1], {Made(k, x, 1)})
<1>1. PICK e : e = E(k, x)
  OBVIOUS
<1>2. IsBlock(e) /\ e[1] = {Made(k, x, 1)}
  BY <1>1, FirstImage
<1>3. IsString(d) /\ IsString(e) /\ Len(d) <= Len(e) /\ 1 \in 1..Len(d)
  BY <1>2, BlockLen DEF IsBlock, Clean
<1>4. \A i \in 1..Len(d) : Xor(d, e)[i] = SymDiff(d[i], e[i])
  BY <1>3, SumIs
<1> QED
  BY <1>1, <1>2, <1>3, <1>4, BlockSum

\* The chunks of a text that are whole, but the last one perhaps.
LEMMA PlainChunks ==
  ASSUME NEW k, NEW s, Clean(s), Of(s, {"p"}), NEW n, n = Parts(Len(s))
  PROVE  /\ n \in Nat /\ Len(Chunks(s)) = n
         /\ \A i \in 1..n : i < n => IsBlock(Chunks(s)[i])
         /\ Len(s) % B = 0 => \A i \in 1..n : IsBlock(Chunks(s)[i])
         /\ \A i \in 1..n : Clean(Chunks(s)[i]) /\ Alien(k, Chunks(s)[i][1])
<1>1. PICK len \in Nat : len = Len(s)
  BY CleanChunks
<1>2. /\ n \in Nat /\ Len(Chunks(s)) = n
      /\ \A i \in 1..n : /\ Clean(Chunks(s)[i]) /\ Len(Chunks(s)[i]) = PartLen(i, len)
                         /\ PartLen(i, len) \in 1..B
  BY <1>1, CleanChunks
<1>3. \A i \in 1..n : i < n => PartLen(i, len) = B
  <2>1. ASSUME NEW i \in 1..n, i < n PROVE PartLen(i, len) = B
    <3>1. Off(i) < len /\ Off(i) \in Nat /\ PartLen(i, len) = IF Off(i) <= len THEN B ELSE len - Off(i - 1)
      BY <1>1, <2>1, PartsAre
    <3> QED
      BY <3>1
  <2> QED
    BY <2>1
<1>4. \A i \in 1..n : i < n => IsBlock(Chunks(s)[i])
  BY <1>2, <1>3 DEF IsBlock
<1>5. Len(s) % B = 0 => \A i \in 1..n : IsBlock(Chunks(s)[i])
  BY BlockChunks
<1>6. ASSUME NEW i \in 1..n PROVE Alien(k, Chunks(s)[i][1])
  <2>1. 1 \in 1..PartLen(i, len) /\ IsString(s)
    BY <1>2, BlockLen DEF Clean
  <2>2. Chunks(s)[i][1] = s[Off(i - 1) + 1]
    BY <1>1, <2>1, ChunksAre
  <2>3. Off(i - 1) \in Nat /\ Off(i - 1) + PartLen(i, len) <= len
    BY <1>1, PartsAre
  <2>4. Off(i - 1) + 1 \in 1..len
    BY <1>1, <1>2, <2>3
  <2> QED
    BY <1>1, <2>2, <2>4, PlainAlien
<1> QED
  BY <1>2, <1>4, <1>5, <1>6

LEMMA EmptyAlien ==
  ASSUME NEW k
  PROVE  Alien(k, {}) /\ \A u : SymDiff({}, {u}) = {u}
BY DEF Alien, SymDiff

\* What a chain enciphers: iv, then what it made.
Inputs(iv, t, n) == [i \in 1..n |-> IF i = 1 THEN iv ELSE t[i - 1]]

LEMMA OfbDiffers ==
  ASSUME NEW k, NEW iv, IsBlock(iv), Alien(k, iv[1]), NEW data, Clean(data), Of(data, {"p"})
  PROVE  Spreads(CryptOfb(k, iv, data), Len(data))
<1>1. PICK n \in Nat : n = Parts(Len(data))
  BY CleanChunks
<1>2. Len(Chunks(data)) = n
  BY <1>1, CleanChunks
<1>3. PICK c : c = Chunks(data)
  OBVIOUS
<1>4. PICK s : s = OfbChain(k, iv, c)
  OBVIOUS
<1>5. s = [i \in 1..n |-> s[i]] /\ \A i \in 1..n : s[i] = E(k, IF i = 1 THEN iv ELSE s[i - 1])
  <2>1. Len(c) = n /\ Len(c) \in Nat
    BY <1>2, <1>3
  <2> QED
    BY <1>4, <2>1, OfbSteps
<1>6. PICK x : x = Inputs(iv, s, n)
  OBVIOUS
<1>7. \A i \in 1..n : x[i] = IF i = 1 THEN iv ELSE s[i - 1]
  BY <1>6 DEF Inputs
<1>8. \A i \in 1..n : s[i] = E(k, x[i])
  BY <1>5, <1>7
<1>9. \A i \in 1..n : IsBlock(x[i])
  <2> DEFINE T == {i \in 0..n : i = 0 \/ IsBlock(x[i])}
  <2>1. ASSUME NEW i \in 0..(n - 1), i \in T PROVE i + 1 \in T
    <3>1. i + 1 \in 1..n /\ i + 1 \in 0..n /\ (i + 1) - 1 = i /\ (i + 1 = 1 <=> i = 0)
          /\ (i # 0 => i \in 1..n)
      OBVIOUS
    <3>2. CASE i = 0
      BY <1>7, <3>1, <3>2
    <3>3. CASE i # 0
      <4>1. x[i + 1] = s[i] /\ s[i] = E(k, x[i]) /\ IsBlock(x[i])
        BY <1>7, <1>8, <2>1, <3>1, <3>3
      <4>2. IsBlock(x[i + 1])
        BY <4>1, BlockEnciphered
      <4> QED
        BY <3>1, <4>2
    <3> QED
      BY <3>2, <3>3
  <2>2. 0 \in T
    OBVIOUS
  <2> HIDE DEF T
  <2>3. 0..n \subseteq T
    BY <2>1, <2>2, UpTo
  <2>4. \A i \in 1..n : i \in 0..n /\ i # 0
    OBVIOUS
  <2> QED
    BY <2>3, <2>4 DEF T
<1>10. Feeds(x, k, n) \/ n = 0
  <2>1. SUFFICES ASSUME n # 0 PROVE Feeds(x, k, n)
    OBVIOUS
  <2>2. x[1] = iv
    BY <1>7, <2>1
  <2>3. ASSUME NEW i \in 2..n
        PROVE  \E b : Alien(k, b) /\ x[i][1] = SymDiff(b, {Made(k, x[i - 1], 1)})
    <3>1. i \in 1..n /\ i # 1 /\ i - 1 \in 1..n
      OBVIOUS
    <3>2. x[i] = E(k, x[i - 1]) /\ IsBlock(x[i - 1])
      BY <1>7, <1>8, <1>9, <3>1
    <3>3. x[i][1] = {Made(k, x[i - 1], 1)}
      BY <3>2, FirstImage
    <3> QED
      BY <3>3, EmptyAlien
  <2> QED
    BY <1>9, <2>2, <2>3 DEF Feeds
<1>11. AreBlocks(x, n) /\ \A i, j \in 1..n : x[i] = x[j] => i = j
  BY <1>9, <1>10, FeedsDiffer DEF AreBlocks
<1>12. CryptOfb(k, iv, data) = KeyStreamed(k, x, data)
  <2>1. CryptOfb(k, iv, data) = FlattenSeq([i \in 1..Len(c) |-> Xor(c[i], s[i])])
    BY <1>3, <1>4 DEF CryptOfb, OfbChain
  <2>2. KeyStreamed(k, x, data) = FlattenSeq([i \in 1..n |-> Xor(c[i], E(k, x[i]))])
    BY <1>2, <1>3 DEF KeyStreamed
  <2>3. [i \in 1..Len(c) |-> Xor(c[i], s[i])] = [i \in 1..n |-> Xor(c[i], E(k, x[i]))]
    BY <1>2, <1>3, <1>8
  <2> QED
    BY <2>1, <2>2, <2>3
<1> QED
  BY <1>1, <1>11, <1>12, StreamSpreads

LEMMA CfbDiffers ==
  ASSUME NEW k, NEW iv, IsBlock(iv), Alien(k, iv[1]), NEW data, Clean(data), Of(data, {"p"})
  PROVE  Spreads(EncryptCfb(k, iv, data), Len(data))
<1>1. PICK n \in Nat : n = Parts(Len(data))
  BY CleanChunks
<1>2. PICK c : c = Chunks(data)
  OBVIOUS
<1>3. /\ Len(c) = n /\ \A i \in 1..n : i < n => IsBlock(c[i])
      /\ \A i \in 1..n : Alien(k, c[i][1])
  BY <1>1, <1>2, PlainChunks
<1>4. PICK t : t = CfbChain(k, iv, c)
  OBVIOUS
<1>5. /\ t = [i \in 1..n |-> t[i]]
      /\ \A i \in 1..n : t[i] = Xor(c[i], E(k, IF i = 1 THEN iv ELSE t[i - 1]))
  BY <1>3, <1>4, CfbSteps
<1>6. PICK x : x = Inputs(iv, t, n)
  OBVIOUS
<1>7. \A i \in 1..n : x[i] = IF i = 1 THEN iv ELSE t[i - 1]
  BY <1>6 DEF Inputs
<1>8. \A i \in 1..n : t[i] = Xor(c[i], E(k, x[i]))
  BY <1>5, <1>7
<1>9. \A i \in 1..n : IsBlock(x[i])
  <2> DEFINE T == {i \in 0..n : i = 0 \/ IsBlock(x[i])}
  <2>1. ASSUME NEW i \in 0..(n - 1), i \in T PROVE i + 1 \in T
    <3>1. i + 1 \in 1..n /\ i + 1 \in 0..n /\ (i + 1) - 1 = i /\ (i + 1 = 1 <=> i = 0)
          /\ (i # 0 => i \in 1..n /\ i < n)
      OBVIOUS
    <3>2. CASE i = 0
      BY <1>7, <3>1, <3>2
    <3>3. CASE i # 0
      <4>1. x[i + 1] = t[i] /\ t[i] = Xor(c[i], E(k, x[i])) /\ IsBlock(x[i]) /\ IsBlock(c[i])
        BY <1>3, <1>7, <1>8, <2>1, <3>1, <3>3
      <4>2. IsBlock(x[i + 1])
        BY <4>1, MaskedImage, ZenonT(60)
      <4> QED
        BY <3>1, <4>2
    <3> QED
      BY <3>2, <3>3
  <2>2. 0 \in T
    OBVIOUS
  <2> HIDE DEF T
  <2>3. 0..n \subseteq T
    BY <2>1, <2>2, UpTo
  <2>4. \A i \in 1..n : i \in 0..n /\ i # 0
    OBVIOUS
  <2> QED
    BY <2>3, <2>4 DEF T
<1>10. Feeds(x, k, n) \/ n = 0
  <2>1. SUFFICES ASSUME n # 0 PROVE Feeds(x, k, n)
    OBVIOUS
  <2>2. x[1] = iv
    BY <1>7, <2>1
  <2>3. ASSUME NEW i \in 2..n
        PROVE  \E b : Alien(k, b) /\ x[i][1] = SymDiff(b, {Made(k, x[i - 1], 1)})
    <3>1. i \in 1..n /\ i # 1 /\ i - 1 \in 1..n /\ i - 1 < n
      OBVIOUS
    <3>2. x[i] = Xor(c[i - 1], E(k, x[i - 1])) /\ IsBlock(x[i - 1]) /\ IsBlock(c[i - 1])
      BY <1>3, <1>7, <1>8, <1>9, <3>1
    <3>3. x[i][1] = SymDiff(c[i - 1][1], {Made(k, x[i - 1], 1)})
      BY <3>2, MaskedImage
    <3> QED
      BY <1>3, <3>1, <3>3
  <2> QED
    BY <1>9, <2>2, <2>3 DEF Feeds
<1>11. AreBlocks(x, n) /\ \A i, j \in 1..n : x[i] = x[j] => i = j
  BY <1>9, <1>10, FeedsDiffer DEF AreBlocks
<1>12. EncryptCfb(k, iv, data) = KeyStreamed(k, x, data)
  <2>1. EncryptCfb(k, iv, data) = FlattenSeq(t)
    BY <1>2, <1>4 DEF EncryptCfb, CfbChain
  <2>2. KeyStreamed(k, x, data) = FlattenSeq([i \in 1..n |-> Xor(c[i], E(k, x[i]))])
    BY <1>2, <1>3 DEF KeyStreamed
  <2>3. t = [i \in 1..n |-> Xor(c[i], E(k, x[i]))]
    BY <1>5, <1>8
  <2> QED
    BY <2>1, <2>2, <2>3
<1> QED
  BY <1>1, <1>11, <1>12, StreamSpreads

\* Whole blocks one after the other, whose first bytes tell them apart.
FirstApart(t, n) == \A i, j \in 1..n : t[i][1] = t[j][1] => i = j

LEMMA FlatDiffers ==
  ASSUME NEW len \in Nat, len % B = 0, NEW n, n = Parts(len), NEW t, t = [i \in 1..n |-> t[i]],
         \A i \in 1..n : IsBlock(t[i]), FirstApart(t, n)
  PROVE  Spreads(FlattenSeq(t), len)
<1>1. n \in Nat /\ \A i \in 1..n : PartLen(i, len) = B
  BY PartsAre, WholeParts
<1>2. PICK f : f = FlattenSeq(t)
  OBVIOUS
<1>3. \A i \in 1..n : Clean(t[i]) /\ Len(t[i]) = PartLen(i, len)
  BY <1>1 DEF IsBlock
<1>4. t = [i \in 1..Parts(len) |-> t[i]]
  OBVIOUS
<1>5. Clean(f) /\ Len(f) = len
  BY <1>2, <1>3, <1>4, Assembled
<1>6. Flat(f, t, len)
  <2>1. Shaped(t, len)
    BY <1>3, <1>4 DEF Shaped, Clean
  <2> QED
    BY <1>2, <2>1, FlatShaped
<1>7. 1 \in 1..B
  BY BlockLen
<1>8. \A i \in 1..n : f[Off(i - 1) + 1] = t[i][1]
  BY <1>1, <1>6, <1>7 DEF Flat
<1>9. \A i \in 1..(len \div B) : i \in 1..n
  BY Quotient
<1>10. FirstsDiffer(f, len)
  BY <1>8, <1>9 DEF FirstsDiffer, FirstApart
<1> QED
  BY <1>2, <1>5, <1>10 DEF Spreads, Clean

LEMMA CbcDiffers ==
  ASSUME NEW k, NEW iv, IsBlock(iv), Alien(k, iv[1]), NEW data, Clean(data), Of(data, {"p"}),
         EncryptCbc(k, iv, data).ok
  PROVE  Spreads(EncryptCbc(k, iv, data).val, Len(data))
<1>0. Len(data) % B = 0
  BY DEF EncryptCbc, Aligned, Err
<1>1. PICK n \in Nat : n = Parts(Len(data))
  BY CleanChunks
<1>2. PICK c : c = Chunks(data)
  OBVIOUS
<1>3. Len(c) = n /\ \A i \in 1..n : IsBlock(c[i]) /\ Alien(k, c[i][1])
  BY <1>0, <1>1, <1>2, PlainChunks
<1>4. PICK t : t = CbcChain(k, iv, c)
  OBVIOUS
<1>5. /\ t = [i \in 1..n |-> t[i]]
      /\ \A i \in 1..n : t[i] = E(k, Xor(c[i], IF i = 1 THEN iv ELSE t[i - 1]))
  BY <1>3, <1>4, CbcSteps
<1>6. PICK x : x = [i \in 1..n |-> Xor(c[i], Inputs(iv, t, n)[i])]
  OBVIOUS
<1>7. \A i \in 1..n : x[i] = Xor(c[i], IF i = 1 THEN iv ELSE t[i - 1])
  BY <1>6 DEF Inputs
<1>8. \A i \in 1..n : t[i] = E(k, x[i])
  BY <1>5, <1>7
<1>9. \A i \in 1..n : IsBlock(x[i])
  <2> DEFINE T == {i \in 0..n : i = 0 \/ IsBlock(x[i])}
  <2>1. ASSUME NEW i \in 0..(n - 1), i \in T PROVE i + 1 \in T
    <3>1. i + 1 \in 1..n /\ i + 1 \in 0..n /\ (i + 1) - 1 = i /\ (i + 1 = 1 <=> i = 0)
          /\ (i # 0 => i \in 1..n)
      OBVIOUS
    <3>2. CASE i = 0
      <4>1. x[i + 1] = Xor(c[i + 1], iv) /\ IsBlock(c[i + 1])
        BY <1>3, <1>7, <3>1, <3>2
      <4>2. IsBlock(x[i + 1])
        BY <4>1, BlockSum
      <4> QED
        BY <3>1, <4>2
    <3>3. CASE i # 0
      <4>1. x[i + 1] = Xor(c[i + 1], E(k, x[i])) /\ IsBlock(x[i]) /\ IsBlock(c[i + 1])
        BY <1>3, <1>7, <1>8, <2>1, <3>1, <3>3
      <4>2. IsBlock(x[i + 1])
        BY <4>1, MaskedImage
      <4> QED
        BY <3>1, <4>2
    <3> QED
      BY <3>2, <3>3
  <2>2. 0 \in T
    OBVIOUS
  <2> HIDE DEF T
  <2>3. 0..n \subseteq T
    BY <2>1, <2>2, UpTo
  <2>4. \A i \in 1..n : i \in 0..n /\ i # 0
    OBVIOUS
  <2> QED
    BY <2>3, <2>4 DEF T
<1>10. Feeds(x, k, n) \/ n = 0
  <2>1. SUFFICES ASSUME n # 0 PROVE Feeds(x, k, n)
    OBVIOUS
  <2>2. Alien(k, x[1][1])
    <3>1. 1 \in 1..n
      BY <2>1
    <3>2. x[1] = Xor(c[1], iv) /\ IsBlock(c[1]) /\ Alien(k, c[1][1])
      BY <1>3, <1>7, <3>1
    <3>3. IsWide(c[1]) /\ IsWide(iv) /\ 1 \in 1..B
      BY <3>2, BlockWide, BlockLen
    <3>4. \A a \in x[1][1] : a \in c[1][1] \/ a \in iv[1]
      BY <3>2, <3>3, WideSum
    <3> QED
      BY <3>2, <3>4 DEF Alien
  <2>3. ASSUME NEW i \in 2..n
        PROVE  \E b : Alien(k, b) /\ x[i][1] = SymDiff(b, {Made(k, x[i - 1], 1)})
    <3>1. i \in 1..n /\ i # 1 /\ i - 1 \in 1..n
      OBVIOUS
    <3>2. x[i] = Xor(c[i], E(k, x[i - 1])) /\ IsBlock(x[i - 1]) /\ IsBlock(c[i])
      BY <1>3, <1>7, <1>8, <1>9, <3>1
    <3>3. x[i][1] = SymDiff(c[i][1], {Made(k, x[i - 1], 1)})
      BY <3>2, MaskedImage
    <3> QED
      BY <1>3, <3>1, <3>3
  <2> QED
    BY <1>9, <2>2, <2>3 DEF Feeds
<1>11. \A i, j \in 1..n : x[i] = x[j] => i = j
  BY <1>10, FeedsDiffer
<1>12. \A i \in 1..n : IsBlock(t[i]) /\ t[i][1] = {Made(k, x[i], 1)}
  BY <1>8, <1>9, FirstImage
<1>13. PICK f : f = FlattenSeq(t)
  OBVIOUS
<1>14. EncryptCbc(k, iv, data).val = f
  BY <1>0, <1>2, <1>4, <1>13 DEF EncryptCbc, Aligned, Ok, CbcChain
<1>15. Spreads(f, Len(data))
  <2>1. FirstApart(t, n)
    <3>1. ASSUME NEW i \in 1..n, NEW j \in 1..n, t[i][1] = t[j][1] PROVE i = j
      <4>1. Made(k, x[i], 1) = Made(k, x[j], 1)
        BY <1>12, <3>1
      <4>2. IsString(x[i]) /\ IsString(x[j])
        BY <1>9 DEF IsBlock, Clean
      <4>3. x[i] = x[j]
        BY <4>1, <4>2, MadeTells
      <4> QED
        BY <1>11, <4>3
    <3> QED
      BY <3>1 DEF FirstApart
  <2>2. PICK len \in Nat : len = Len(data)
    BY CleanChunks
  <2> QED
    BY <1>0, <1>1, <1>5, <1>12, <1>13, <2>1, <2>2, FlatDiffers
<1> QED
  BY <1>14, <1>15

Power(m) == << << "alpha" >>, m >>

IsPower(x, m) ==
  \A j \in 1..B : x[j] # {} /\ \A a \in x[j] : a[1] = "lin" /\ a[2] = Power(m)

LEMMA PowerTells ==
  ASSUME NEW m, NEW n, Power(m) = Power(n)
  PROVE  m = n
BY DEF Power

LEMMA FirstPower ==
  ASSUME NEW x, \A i \in 1..B : x[i] # {} /\ \A a \in x[i] : a[1] # "lin"
  PROVE  IsPower(XtsMulAlpha(x), 1)
<1> DEFINE f == << "alpha" >>
           put(i, a, j) == << "lin", << f, 1 >>, << i, a >>, j >>
<1>1. XtsMulAlpha(x) = Linear(f, x)
  BY DEF XtsMulAlpha
<1>2. 1 \in 1..B
  BY BlockLen
<1>3. \A i \in 1..B : {b \in x[i] : b[1] = "lin" /\ b[2][1] = f} = {}
  OBVIOUS
<1>4. ASSUME NEW j \in 1..B
      PROVE  Linear(f, x)[j] = UNION {{put(i, a, j) : a \in x[i]} : i \in 1..B}
  <2>1. {b \in x[1] : b[1] = "lin" /\ b[2][1] = f} = {}
    BY <1>2, <1>3
  <2>2. \A i \in 1..B : x[i] \ {b \in x[i] : b[1] = "lin" /\ b[2][1] = f} = x[i]
    BY <1>3
  <2> QED
    BY <2>1, <2>2, LinearParts
<1>5. \A i, a, j : put(i, a, j)[1] = "lin" /\ put(i, a, j)[2] = Power(1)
  BY DEF Power
<1> HIDE DEF put
<1>6. ASSUME NEW j \in 1..B
      PROVE  /\ Linear(f, x)[j] # {}
             /\ \A a \in Linear(f, x)[j] : a[1] = "lin" /\ a[2] = Power(1)
  <2>1. PICK a : a \in x[1]
    BY <1>2
  <2>2. put(1, a, j) \in Linear(f, x)[j]
    BY <1>2, <1>4, <2>1
  <2> QED
    BY <1>4, <1>5, <2>2
<1> QED
  BY <1>1, <1>6 DEF IsPower

LEMMA NextPower ==
  ASSUME NEW x, NEW m \in Nat, IsPower(x, m)
  PROVE  IsPower(XtsMulAlpha(x), m + 1)
<1> DEFINE f == << "alpha" >>
           put(a, j) == << "lin", << f, a[2][2] + 1 >>, a[3], j >>
<1>1. XtsMulAlpha(x) = Linear(f, x)
  BY DEF XtsMulAlpha
<1>2. 1 \in 1..B
  BY BlockLen
<1>3. Power(m)[1] = f /\ Power(m)[2] = m /\ Power(m + 1) = << f, m + 1 >>
  BY DEF Power
<1>4. \A i \in 1..B : {b \in x[i] : b[1] = "lin" /\ b[2][1] = f} = x[i]
  BY <1>3 DEF IsPower
<1>5. ASSUME NEW j \in 1..B
      PROVE  Linear(f, x)[j] = {put(a, j) : a \in x[1]}
  <2>1. {b \in x[1] : b[1] = "lin" /\ b[2][1] = f} = x[1]
    BY <1>2, <1>4
  <2>2. \A i \in 1..B : x[i] \ {b \in x[i] : b[1] = "lin" /\ b[2][1] = f} = {}
    BY <1>4
  <2>3. UNION {{<< "lin", << f, 1 >>, << i, a >>, j >> :
                  a \in x[i] \ {b \in x[i] : b[1] = "lin" /\ b[2][1] = f}} : i \in 1..B} = {}
    BY <2>2
  <2> HIDE DEF f
  <2>4. Linear(f, x)[j] = {put(a, j) : a \in {b \in x[1] : b[1] = "lin" /\ b[2][1] = f}} \cup {}
    BY <2>3, LinearParts
  <2> QED
    BY <2>1, <2>4
<1>6. \A a \in x[1] : \A j : put(a, j)[1] = "lin" /\ put(a, j)[2] = Power(m + 1)
  <2>1. ASSUME NEW a \in x[1], NEW j PROVE put(a, j)[1] = "lin" /\ put(a, j)[2] = Power(m + 1)
    <3>1. a[2][2] = m
      BY <1>2, <1>3 DEF IsPower
    <3> QED
      BY <1>3, <3>1
  <2> QED
    BY <2>1
<1> HIDE DEF put
<1>7. ASSUME NEW j \in 1..B
      PROVE  /\ Linear(f, x)[j] # {}
             /\ \A a \in Linear(f, x)[j] : a[1] = "lin" /\ a[2] = Power(m + 1)
  <2>1. PICK a : a \in x[1]
    BY <1>2 DEF IsPower
  <2> QED
    BY <1>5, <1>6, <2>1
<1> QED
  BY <1>1, <1>7 DEF IsPower

LEMMA XtsDiffers ==
  ASSUME NEW k, NEW k2, NEW sector, IsBlock(sector), NEW data, Clean(data),
         EncryptXts(k, k2, sector, data).ok
  PROVE  Spreads(EncryptXts(k, k2, sector, data).val, Len(data))
<1>1. Len(data) % B = 0 /\ Len(data) # 0
  BY DEF EncryptXts, Xts, Err
<1>2. PICK n \in Nat : n = Parts(Len(data))
  BY CleanChunks
<1>3. PICK c : c = Chunks(data)
  OBVIOUS
<1>4. Len(c) = n /\ \A i \in 1..n : IsBlock(c[i])
  BY <1>1, <1>2, <1>3, CleanChunks, BlockChunks
<1>5. PICK w : w = XtsTweaks(k2, sector, n)
  OBVIOUS
<1>6. \A i \in 1..n : w[i] = IF i = 1 THEN E(k2, sector) ELSE XtsMulAlpha(w[i - 1])
  BY <1>5, XtsSteps, ZenonT(60) DEF XtsTweaks
<1>7. PICK t : t = [i \in 1..n |-> Xor(E(k, Xor(c[i], w[i])), w[i])]
  OBVIOUS
<1>8. PICK f : f = FlattenSeq(t)
  OBVIOUS
<1>9. EncryptXts(k, k2, sector, data).val = f
  BY <1>1, <1>3, <1>4, <1>5, <1>7, <1>8 DEF EncryptXts, Xts, Ok
<1>10. \A i \in 1..n : IsBlock(w[i])
  BY <1>6, BlockEnciphered, LinearBlock DEF XtsMulAlpha
<1>11. 1 \in 1..B
  BY BlockLen
<1>12. ASSUME 1 \in 1..n PROVE \A i \in 1..B : w[1][i] = {Made(k2, sector, i)}
  <2>1. w[1] = E(k2, sector)
    BY <1>6, <1>12
  <2>2. Clean(sector) /\ Len(sector) = B /\ Len(sector) >= 1
    BY BlockLen DEF IsBlock
  <2> QED
    BY <2>1, <2>2, EncipheredIs
<1>13. \A i \in 2..n : IsPower(w[i], i - 1)
  <2> DEFINE T == {i \in 0..n : i \in {0, 1} \/ IsPower(w[i], i - 1)}
  <2>1. ASSUME NEW i \in 0..(n - 1), i \in T PROVE i + 1 \in T
    <3>1. i + 1 \in 0..n /\ (i + 1) - 1 = i /\ i \in Nat /\ (i # 0 => i + 1 \in 1..n /\ i \in 1..n)
      OBVIOUS
    <3>2. CASE i = 0
      BY <3>1, <3>2
    <3>3. CASE i = 1
      <4>1. 1 \in 1..n /\ w[2] = XtsMulAlpha(w[1])
        BY <1>6, <3>1, <3>3
      <4>2. \A l \in 1..B : w[1][l] # {} /\ \A a \in w[1][l] : a[1] # "lin"
        <5>1. ASSUME NEW l \in 1..B PROVE w[1][l] # {} /\ \A a \in w[1][l] : a[1] # "lin"
          <6>1. PICK u : u = Made(k2, sector, l)
            OBVIOUS
          <6>2. u[1] = "E"
            BY <6>1 DEF Made
          <6>3. w[1][l] = {u}
            BY <1>12, <4>1, <6>1
          <6> QED
            BY <6>2, <6>3
        <5> QED
          BY <5>1
      <4>3. IsPower(w[2], 1)
        BY <4>1, <4>2, FirstPower
      <4> QED
        BY <3>1, <3>3, <4>3
    <3>4. CASE i # 0 /\ i # 1
      <4>1. i - 1 \in Nat /\ (i - 1) + 1 = i /\ i + 1 # 1
        BY <3>1, <3>4
      <4>2. IsPower(w[i], i - 1) /\ w[i + 1] = XtsMulAlpha(w[i])
        BY <1>6, <2>1, <3>1, <3>4, <4>1
      <4>3. IsPower(w[i + 1], i)
        BY <4>1, <4>2, NextPower
      <4> QED
        BY <3>1, <4>3
    <3> QED
      BY <3>2, <3>3, <3>4
  <2>2. 0 \in T
    OBVIOUS
  <2> HIDE DEF T
  <2>3. 0..n \subseteq T
    BY <2>1, <2>2, UpTo
  <2>4. \A i \in 2..n : i \in 0..n /\ i # 0 /\ i # 1
    OBVIOUS
  <2> QED
    BY <2>3, <2>4 DEF T
<1>14. ASSUME NEW i \in 1..n
       PROVE  IsBlock(t[i]) /\ \A a : a[1] # "E" => (a \in t[i][1] <=> a \in w[i][1])
  <2>1. PICK x : x = Xor(c[i], w[i])
    OBVIOUS
  <2>2. IsBlock(x)
    BY <1>4, <1>10, <2>1, BlockSum
  <2>3. PICK e : e = E(k, x)
    OBVIOUS
  <2>4. IsBlock(e) /\ e[1] = {Made(k, x, 1)}
    BY <2>2, <2>3, FirstImage
  <2>5. t[i] = Xor(e, w[i])
    BY <1>7, <2>1, <2>3
  <2>6. IsWide(e) /\ IsWide(w[i]) /\ IsBlock(t[i])
    BY <1>10, <2>4, <2>5, BlockSum, BlockWide
  <2>7. \A a : a \in t[i][1] <=> ~ (a \in e[1] <=> a \in w[i][1])
    BY <1>11, <2>5, <2>6, WideSum
  <2>8. \A a : a[1] # "E" => a \notin e[1]
    BY <2>4 DEF Made
  <2> QED
    BY <2>6, <2>7, <2>8
<1>15. ASSUME NEW i \in 1..n, NEW j \in 1..n, i < j PROVE t[i][1] # t[j][1]
  <2>1. j \in 2..n
    BY <1>15
  <2>2. PICK a : a \in w[j][1] /\ a[1] = "lin" /\ a[2] = Power(j - 1)
    BY <1>11, <1>13, <2>1 DEF IsPower
  <2>3. a \in t[j][1]
    BY <1>14, <2>2
  <2>4. a \notin w[i][1]
    <3>1. CASE i = 1
      <4>1. w[1][1] = {Made(k2, sector, 1)}
        BY <1>11, <1>12, <3>1
      <4> QED
        BY <2>2, <3>1, <4>1 DEF Made
    <3>2. CASE i # 1
      <4>1. i \in 2..n /\ i - 1 # j - 1
        BY <1>15, <3>2
      <4>2. a \in w[i][1] => a[2] = Power(i - 1)
        BY <1>11, <1>13, <4>1 DEF IsPower
      <4>3. PICK p, q : p = i - 1 /\ q = j - 1
        OBVIOUS
      <4>4. Power(p) # Power(q)
        BY <4>1, <4>3, PowerTells
      <4> QED
        BY <2>2, <4>2, <4>3, <4>4
    <3> QED
      BY <3>1, <3>2
  <2>5. a \notin t[i][1]
    BY <1>14, <2>2, <2>4
  <2> QED
    BY <2>3, <2>5
<1>16. Spreads(f, Len(data))
  <2>1. FirstApart(t, n)
    <3>1. ASSUME NEW i \in 1..n, NEW j \in 1..n, t[i][1] = t[j][1] PROVE i = j
      <4>1. ~ (i < j) /\ ~ (j < i)
        BY <1>15, <3>1
      <4> QED
        BY <4>1
    <3> QED
      BY <3>1 DEF FirstApart
  <2>2. PICK len \in Nat : len = Len(data)
    BY CleanChunks
  <2>3. t = [i \in 1..n |-> t[i]]
    BY <1>7
  <2> QED
    BY <1>1, <1>2, <1>8, <1>14, <2>1, <2>2, <2>3, FlatDiffers
<1> QED
  BY <1>9, <1>16

IsImage(x, k) == \E z : IsBlock(z) /\ x = E(k, z)

LEMMA AbsorbImage ==
  ASSUME NEW k, NEW x, IsBlock(x), IsImage(x, k), NEW s, Clean(s)
  PROVE  IsImage(AbsorbE(k, x, s), k)
<1>1. PICK c : c = Chunks(s)
  OBVIOUS
<1>2. PICK n \in Nat : n = Len(c)
  BY <1>1, CleanChunks
<1>3. \A i \in 1..n : Clean(c[i])
  BY <1>1, <1>2, CleanChunks
<1> DEFINE y == AbsorbSeq(n, x, k, c)
<1>4. y = AbsorbSeq(n, x, k, c)
  OBVIOUS
<1>5. AbsorbE(k, x, s) = y[n]
  BY <1>1, <1>2 DEF AbsorbE, Absorb, AbsorbSeq
<1> HIDE DEF y
<1>6. y[0] = x /\ \A i \in 1..n : y[i] = E(k, XorInto(y[i - 1], c[i]))
  BY <1>4, AbsorbSteps
<1> DEFINE T == {i \in 0..n : IsBlock(y[i]) /\ IsImage(y[i], k)}
<1>7. ASSUME NEW i \in 0..(n - 1), i \in T PROVE i + 1 \in T
  <2>1. i + 1 \in 1..n /\ i + 1 \in 0..n /\ (i + 1) - 1 = i
    OBVIOUS
  <2>2. PICK z : z = XorInto(y[i], c[i + 1])
    OBVIOUS
  <2>3. IsBlock(z)
    BY <1>3, <1>7, <2>1, <2>2, CleanInto DEF IsBlock
  <2>4. y[i + 1] = E(k, z)
    BY <1>6, <2>1, <2>2
  <2>5. IsBlock(y[i + 1])
    BY <2>3, <2>4, BlockEnciphered
  <2> QED
    BY <2>1, <2>3, <2>4, <2>5 DEF IsImage
<1>8. 0 \in T
  BY <1>6
<1> HIDE DEF T
<1>9. 0..n \subseteq T /\ n \in 0..n
  BY <1>7, <1>8, UpTo
<1> QED
  BY <1>5, <1>9 DEF T

LEMMA S2vImage ==
  ASSUME NEW k, NEW d, IsBlock(d), NEW s, Clean(s)
  PROVE  IsImage(S2vAbsorb(k, d, s), k)
<1>0. Len(s) \in Nat
  BY StringProperties DEF Clean
<1>1. CASE Len(s) < B
  <2>1. S2vAbsorb(k, d, s) = E(k, XorInto(d, s))
    BY <1>1 DEF S2vAbsorb
  <2>2. IsBlock(XorInto(d, s))
    BY CleanInto DEF IsBlock
  <2> QED
    BY <2>1, <2>2 DEF IsImage
<1>2. CASE ~ (Len(s) < B)
  <2> DEFINE last == SubSeq(s, Len(s) - B + 1, Len(s))
             front == SubSeq(s, 1, Len(s) - B)
             x == E(k, Xor(d, last))
  <2>1. S2vAbsorb(k, d, s) = AbsorbE(k, x, front)
    BY <1>2 DEF S2vAbsorb, AbsorbE
  <2>2. IsBlock(last)
    <3>1. /\ Len(s) - B + 1 \in Nat \ {0} /\ Len(s) <= Len(s) /\ Len(s) - B + 1 <= Len(s) + 1
          /\ Len(s) - (Len(s) - B + 1) + 1 = B
      BY <1>0, <1>2, BlockLen
    <3>2. Clean(last) /\ Len(last) = Len(s) - (Len(s) - B + 1) + 1
      BY <1>0, <3>1, CleanPart
    <3> QED
      BY <3>1, <3>2 DEF IsBlock
  <2>3. Clean(front)
    <3>1. Len(s) - B \in Nat /\ Len(s) - B <= Len(s) /\ 1 <= Len(s) - B + 1
      BY <1>0, <1>2, BlockLen
    <3> QED
      BY <3>1, CleanPart
  <2> HIDE DEF last, front
  <2>4. IsBlock(Xor(d, last))
    BY <2>2, BlockSum
  <2>5. IsBlock(x) /\ IsImage(x, k)
    BY <2>4, BlockEnciphered DEF IsImage
  <2> HIDE DEF x
  <2> QED
    BY <2>1, <2>3, <2>5, AbsorbImage
<1> QED
  BY <1>1, <1>2

LEMMA SivImage ==
  ASSUME NEW k, NEW nonce, NEW aad, Len(aad \o nonce) \in Nat,
         \A i \in 1..Len(aad \o nonce) : Clean((aad \o nonce)[i]), NEW data, Clean(data)
  PROVE  IsImage(ComputeS2v(k, nonce, aad, data), k)
<1> DEFINE s == aad \o nonce
           n == Len(s)
           x == E(k, ZeroBlock)
           y == S2vSeq(n, x, k, s)
<1>1. IsBlock(x)
  BY ZeroIsBlock, BlockEnciphered
<1> HIDE DEF x
<1>3. ComputeS2v(k, nonce, aad, data)
        = S2vAbsorb(k, [y[n] EXCEPT ![B] = SymDiff(@, Num(Len(data)))], data)
  BY DEF ComputeS2v, x, S2vSeq
<1>4. n \in Nat /\ \A i \in 1..n : Clean(s[i])
  OBVIOUS
<1> HIDE DEF n, s
<1>2. y[0] = x /\ \A i \in 1..n : y[i] = S2vAbsorb(k, y[i - 1], s[i])
  BY <1>4, S2vSteps
<1> HIDE DEF y
<1> DEFINE T == {i \in 0..n : IsBlock(y[i])}
<1>5. ASSUME NEW i \in 0..(n - 1), i \in T PROVE i + 1 \in T
  <2>1. i + 1 \in 1..n /\ i + 1 \in 0..n /\ (i + 1) - 1 = i
    BY <1>4
  <2>2. IsBlock(S2vAbsorb(k, y[i], s[i + 1]))
    BY <1>4, <1>5, <2>1, S2vAbsorbBlock
  <2> QED
    BY <1>2, <2>1, <2>2
<1>6. 0 \in T
  BY <1>1, <1>2, <1>4
<1> HIDE DEF T
<1>7. n \in Nat
  BY <1>4
<1>8. 0..n \subseteq T
  BY <1>5, <1>6, <1>7, UpTo
<1>9. n \in 0..n
  BY <1>7
<1>10. IsBlock(y[n])
  BY <1>8, <1>9 DEF T
<1> QED
  BY <1>3, <1>10, MarkedBlock, S2vImage

LEMMA OmacImage ==
  ASSUME NEW k, NEW tweak, NEW data, Clean(data)
  PROVE  IsImage(Omac(k, tweak, data), k)
<1> DEFINE k1 == Gf128MulU(E(k, ZeroBlock))
           whole == WholeBlocks(data)
           tail == Tail16(data)
           st == OmacState(k, whole)
<1>1. Omac(k, tweak, data) = OmacOf(k, k1, whole, tail)
  BY DEF Omac
<1>2. IsBlock(k1) /\ IsBlock(Gf128MulU(k1))
  BY LinearBlock DEF Gf128MulU
<1> HIDE DEF k1
<1>3. Len(whole) \in Nat /\ (\A i \in 1..Len(whole) : IsBlock(whole[i])) /\ Clean(tail)
  BY CleanWhole
<1> HIDE DEF whole, tail
<1>4. IsBlock(st) /\ IsBlock(OnePadded(tail))
  BY <1>3, OmacStateBlock, OnePaddedBlock
<1>5. IsBlock(Xor(st, k1)) /\ IsBlock(Xor(Xor(st, OnePadded(tail)), Gf128MulU(k1)))
  <2> HIDE DEF st
  <2> QED
    BY <1>2, <1>4, BlockSum
<1>6. \/ OmacOf(k, k1, whole, tail) = E(k, Gf128MulU(k1))
      \/ OmacOf(k, k1, whole, tail) = E(k, Xor(st, k1))
      \/ OmacOf(k, k1, whole, tail) = E(k, Xor(Xor(st, OnePadded(tail)), Gf128MulU(k1)))
  BY DEF OmacOf
<1> HIDE DEF st
<1> QED
  BY <1>1, <1>2, <1>5, <1>6 DEF IsImage

\* What is done with any counters that differ.
LEMMA CtrDiffers ==
  ASSUME NEW k, NEW first, IsBlock(first), NEW data, Clean(data), Of(data, {"p"}),
         LET y == Counters(CtrInc, first, Parts(Len(data)))
         IN  \A i, j \in 1..Parts(Len(data)) : y[i] = y[j] => i = j
  PROVE  Spreads(CryptCtr(k, first, data), Len(data))
<1>1. PICK n \in Nat : n = Parts(Len(data))
  BY CleanChunks
<1>2. PICK y : y = Counters(CtrInc, first, n)
  OBVIOUS
<1>3. AreBlocks(y, n)
  BY <1>2, CtrBlocks DEF AreBlocks
<1>4. \A i, j \in 1..n : y[i] = y[j] => i = j
  BY <1>1, <1>2
<1>5. Len(Chunks(data)) = n
  BY <1>1, CleanChunks
<1>6. CryptCtr(k, first, data) = KeyStreamed(k, y, data)
  BY <1>2, <1>5 DEF CryptCtr
<1> QED
  BY <1>1, <1>3, <1>4, <1>6, StreamSpreads

LEMMA JoinedSpreads ==
  ASSUME NEW s, NEW n, Spreads(s, n), NEW t, IsString(t)
  PROVE  Spreads(s \o t, n)
<1>1. PICK f : f = s \o t
  OBVIOUS
<1>2. IsString(s) /\ n \in Nat /\ n <= Len(s) /\ FirstsDiffer(s, n)
  BY DEF Spreads
<1>3. IsString(f) /\ Len(f) = Len(s) + Len(t) /\ \A i \in 1..Len(s) : f[i] = s[i]
  <2>1. Len(s) \in Nat /\ Len(t) \in Nat
    BY <1>2, StringProperties
  <2>2. /\ IsString(f) /\ Len(f) = Len(s) + Len(t)
        /\ \A i \in 1..(Len(s) + Len(t)) : f[i] = IF i <= Len(s) THEN s[i] ELSE t[i - Len(s)]
    BY <1>1, <1>2, Joined
  <2> QED
    BY <2>1, <2>2
<1>4. Len(s) \in Nat /\ Len(t) \in Nat
  BY <1>2, StringProperties
<1>5. PICK q \in Nat : q = n \div B
  BY <1>2, Quotient
<1>6. ASSUME NEW i \in 1..q PROVE f[Off(i - 1) + 1] = s[Off(i - 1) + 1]
  <2>1. Off(q) \in Nat /\ Off(q) <= n
    BY <1>2, <1>5, Quotient
  <2>2. 1 \in 1..B
    BY BlockLen
  <2>3. Off(i - 1) + 1 \in 1..Off(q)
    BY <2>2, InBlock
  <2>4. Off(i - 1) + 1 \in 1..Len(s)
    BY <1>2, <1>4, <2>1, <2>3
  <2> QED
    BY <1>3, <2>4
<1>7. FirstsDiffer(f, n)
  BY <1>2, <1>5, <1>6 DEF FirstsDiffer
<1>8. n <= Len(f)
  BY <1>2, <1>3, <1>4
<1> QED
  BY <1>1, <1>2, <1>3, <1>7, <1>8 DEF Spreads

-----------------------------------------------------------------------------
(* OCB.  Offsets show their nonce and their place, so that no two blocks   *)
(* of any messages are enciphered alike; the tag block shows nonce, count, *)
(* padding and checksum; and a block that was changed or stands elsewhere  *)
(* is deciphered to something that no checksum of a message holds.         *)

(* The multiples of L: the block made of L by m doublings.                 *)
Dbl(k, m, i, j) == << "lin", << << "double" >>, m >>, << i, Made(k, ZeroBlock, i) >>, j >>
IsDouble(k, x, m) ==
  IsBlock(x) /\ \A j \in 1..B : x[j] = {Dbl(k, m, i, j) : i \in 1..B}

\* L_* is what the cipher makes of the zero block.
LEMMA LStarIs ==
  ASSUME NEW k
  PROVE  IsBlock(LStar(k)) /\ \A j \in 1..B : LStar(k)[j] = {Made(k, ZeroBlock, j)}
<1>1. Clean(ZeroBlock) /\ Len(ZeroBlock) = B /\ Len(ZeroBlock) >= 1
  BY ZeroIsBlock, BlockLen DEF IsBlock
<1> QED
  BY <1>1, ZeroIsBlock, BlockEnciphered, EncipheredIs DEF LStar

\* L_$ is the first double of L_*.
LEMMA LDollarIs ==
  ASSUME NEW k
  PROVE  IsDouble(k, LDollar(k), 1)
<1> DEFINE f == << "double" >>
<1>1. PICK x : x = LStar(k)
  OBVIOUS
<1>2. \A i \in 1..B : x[i] = {Made(k, ZeroBlock, i)}
  BY <1>1, LStarIs
<1>3. LDollar(k) = Linear(f, x)
  BY <1>1 DEF LDollar, Gf128MulU
<1>4. \A i \in 1..B : {b \in x[i] : b[1] = "lin" /\ b[2][1] = f} = {}
  BY <1>2 DEF Made
<1>5. ASSUME NEW j \in 1..B PROVE Linear(f, x)[j] = {Dbl(k, 1, i, j) : i \in 1..B}
  <2>1. {b \in x[1] : b[1] = "lin" /\ b[2][1] = f} = {}
    BY <1>4, BlockLen
  <2>2. ASSUME NEW i \in 1..B
        PROVE  x[i] \ {b \in x[i] : b[1] = "lin" /\ b[2][1] = f} = {Made(k, ZeroBlock, i)}
    BY <1>2, <1>4
  <2>3. ASSUME NEW i \in 1..B
        PROVE  {<< "lin", << f, 1 >>, << i, a >>, j >> :
                  a \in x[i] \ {b \in x[i] : b[1] = "lin" /\ b[2][1] = f}} = {Dbl(k, 1, i, j)}
    BY <2>2 DEF Dbl
  <2> QED
    BY <2>1, <2>3, LinearParts
<1> QED
  BY <1>3, <1>5, LinearBlock DEF IsDouble

\* Doubling a double gives the next one.
LEMMA DoubleOf ==
  ASSUME NEW k, NEW m \in Nat, NEW x, IsDouble(k, x, m)
  PROVE  IsDouble(k, Gf128MulU(x), m + 1)
<1> DEFINE f == << "double" >>
<1>1. Gf128MulU(x) = Linear(f, x)
  BY DEF Gf128MulU
<1>2. \A i \in 1..B : {b \in x[i] : b[1] = "lin" /\ b[2][1] = f} = x[i]
  <2>1. \A i, j : Dbl(k, m, i, j)[1] = "lin" /\ Dbl(k, m, i, j)[2][1] = f
    BY DEF Dbl
  <2> QED
    BY <2>1 DEF IsDouble
<1>3. ASSUME NEW j \in 1..B PROVE Linear(f, x)[j] = {Dbl(k, m + 1, i, j) : i \in 1..B}
  <2>1. 1 \in 1..B
    BY BlockLen
  <2>2. {b \in x[1] : b[1] = "lin" /\ b[2][1] = f} = x[1] /\ x[1] = {Dbl(k, m, i, 1) : i \in 1..B}
    BY <1>2, <2>1 DEF IsDouble
  <2>3. \A i : << "lin", << f, Dbl(k, m, i, 1)[2][2] + 1 >>, Dbl(k, m, i, 1)[3], j >>
                 = Dbl(k, m + 1, i, j)
    BY DEF Dbl
  <2> DEFINE next(a) == << "lin", << f, a[2][2] + 1 >>, a[3], j >>
  <2>7. \A i : next(Dbl(k, m, i, 1)) = Dbl(k, m + 1, i, j)
    BY <2>3
  <2> HIDE DEF next
  <2>4. {next(a) : a \in x[1]} = {Dbl(k, m + 1, i, j) : i \in 1..B}
    <3>1. ASSUME NEW a \in x[1] PROVE \E i \in 1..B : next(a) = Dbl(k, m + 1, i, j)
      <4>1. PICK i \in 1..B : a = Dbl(k, m, i, 1)
        BY <2>2
      <4> QED
        BY <2>7, <4>1
    <3>2. ASSUME NEW i \in 1..B PROVE \E a \in x[1] : next(a) = Dbl(k, m + 1, i, j)
      <4>1. Dbl(k, m, i, 1) \in x[1]
        BY <2>2
      <4> QED
        BY <2>7, <4>1
    <3> QED
      BY <3>1, <3>2
  <2>5. \A i \in 1..B : x[i] \ {b \in x[i] : b[1] = "lin" /\ b[2][1] = f} = {}
    BY <1>2
  <2>6. UNION {{<< "lin", << f, 1 >>, << i, a >>, j >> :
                  a \in x[i] \ {b \in x[i] : b[1] = "lin" /\ b[2][1] = f}} : i \in 1..B} = {}
    BY <2>5
  <2>8. Linear(f, x)[j] = {next(a) : a \in {b \in x[1] : b[1] = "lin" /\ b[2][1] = f}} \cup {}
    BY <2>6, LinearParts, SMTT(30) DEF next
  <2> QED
    BY <2>2, <2>4, <2>8
<1> QED
  BY <1>1, <1>3, LinearBlock DEF IsDouble

\* The offset's step for block l is the double that ntz(l) names.
LEMMA LAtIs ==
  ASSUME NEW k, NEW l \in Nat
  PROVE  IsDouble(k, LAt(k, l), Ntz(l) + 2)
<1>1. PICK n : n = Ntz(l)
  OBVIOUS
<1>2. n \in Nat
  BY <1>1, NtzIs
<1>3. PICK x : x = Gf128MulU(LDollar(k))
  OBVIOUS
<1>4. IsDouble(k, x, 2)
  <2>1. 1 \in Nat /\ 1 + 1 = 2
    OBVIOUS
  <2> QED
    BY <1>3, <2>1, LDollarIs, DoubleOf
<1>5. PICK y : y = DoubleSeq(n, x)
  OBVIOUS
<1>6. y[0] = x /\ \A j \in 1..n : y[j] = Gf128MulU(y[j - 1])
  BY <1>2, <1>5, DoubleSteps
<1>7. LAt(k, l) = y[n]
  BY <1>1, <1>3, <1>5 DEF LAt, DoubleSeq
<1> DEFINE T == {j \in 0..n : IsDouble(k, y[j], j + 2)}
<1>8. 0 \in T
  BY <1>2, <1>4, <1>6
<1>9. ASSUME NEW j \in 0..(n - 1), j \in T PROVE j + 1 \in T
  <2>1. j + 1 \in 1..n /\ j + 1 \in 0..n /\ (j + 1) - 1 = j /\ j + 2 \in Nat
        /\ (j + 2) + 1 = (j + 1) + 2
    BY <1>2
  <2>2. y[j + 1] = Gf128MulU(y[j])
    BY <1>6, <2>1
  <2> QED
    BY <1>9, <2>1, <2>2, DoubleOf
<1> HIDE DEF T
<1>10. 0..n \subseteq T
  BY <1>2, <1>8, <1>9, UpTo
<1>11. n \in T
  BY <1>2, <1>10
<1> QED
  BY <1>1, <1>7, <1>11 DEF T

\* Which multiples of L are in a block; and atoms that are none of these.
Places(k, x) == {m \in Nat : Dbl(k, m + 2, 1, 1) \in x[1]}
NoMultiple(k, a) == \A m \in Nat : \A i, j \in 1..B : a # Dbl(k, m + 2, i, j)

\* A double's atom tells which double it is of, and its places.
LEMMA DblTells ==
  ASSUME NEW k, NEW m, NEW i, NEW j, NEW n, NEW l, NEW h, Dbl(k, m, i, j) = Dbl(k, n, l, h)
  PROVE  m = n /\ i = l /\ j = h
BY DEF Dbl

\* A double stands at its own place, and holds multiples of L_* alone.
LEMMA PlacesOf ==
  ASSUME NEW k, NEW m \in Nat, NEW x, IsDouble(k, x, m + 2)
  PROVE  /\ Places(k, x) = {m}
         /\ \A a : NoMultiple(k, a) => \A j \in 1..B : a \notin x[j]
<1>1. 1 \in 1..B
  BY BlockLen
<1>2. \A j \in 1..B : x[j] = {Dbl(k, m + 2, i, j) : i \in 1..B}
  BY DEF IsDouble
<1>3. ASSUME NEW n \in Nat PROVE Dbl(k, n + 2, 1, 1) \in x[1] <=> n = m
  <2>1. Dbl(k, m + 2, 1, 1) \in x[1]
    BY <1>1, <1>2
  <2>2. ASSUME Dbl(k, n + 2, 1, 1) \in x[1] PROVE n = m
    <3>1. PICK i \in 1..B : Dbl(k, n + 2, 1, 1) = Dbl(k, m + 2, i, 1)
      BY <1>1, <1>2, <2>2
    <3>2. PICK c, d : c = n + 2 /\ d = m + 2
      OBVIOUS
    <3>3. c = d
      BY <3>1, <3>2, DblTells
    <3> QED
      BY <3>2, <3>3
  <2> QED
    BY <2>1, <2>2
<1>4. Places(k, x) = {m}
  BY <1>3 DEF Places
<1> QED
  BY <1>2, <1>4 DEF NoMultiple

\* The places of a sum are the places of exactly one of its parts.
LEMMA PlacesSum ==
  ASSUME NEW k, NEW x, NEW y, IsWide(x), IsWide(y)
  PROVE  Places(k, Xor(x, y)) = SymDiff(Places(k, x), Places(k, y))
<1>1. 1 \in 1..B
  BY BlockLen
<1>2. \A a : a \in Xor(x, y)[1] <=> ~ (a \in x[1] <=> a \in y[1])
  BY <1>1, WideSum
<1> QED
  BY <1>2 DEF Places, SymDiff

\* The offsets from first on.
OffsetsFrom(o, k, first, n) ==
  /\ o[0] = first
  /\ \A l \in 0..n : IsBlock(o[l])
  /\ \A l \in 1..n : o[l] = Xor(o[l - 1], LAt(k, l))

\* The offsets go on from the first by the steps of ntz().
LEMMA OffsetsAre ==
  ASSUME NEW k, NEW first, IsBlock(first), NEW n \in Nat
  PROVE  OffsetsFrom(Offsets(k, first, n), k, first, n)
<1>1. PICK y : y = OffsetSeq(n, first, k)
  OBVIOUS
<1>2. Offsets(k, first, n) = y
  BY <1>1 DEF Offsets, OffsetSeq
<1>3. y[0] = first /\ \A l \in 1..n : y[l] = Xor(y[l - 1], LAt(k, l))
  BY <1>1, OffsetSteps
<1>4. \A l \in 0..n : IsBlock(y[l])
  BY <1>2, OffsetsBlocks
<1> QED
  BY <1>2, <1>3, <1>4 DEF OffsetsFrom

\* What is no multiple of L_* is in every offset or in none.
LEMMA OffsetsKeep ==
  ASSUME NEW k, NEW first, NEW n \in Nat, NEW o, OffsetsFrom(o, k, first, n), NEW l \in 0..n,
         NEW j \in 1..B, NEW a, NoMultiple(k, a)
  PROVE  a \in o[l][j] <=> a \in first[j]
<1> DEFINE T == {m \in 0..n : a \in o[m][j] <=> a \in first[j]}
<1>1. 0 \in T
  BY DEF OffsetsFrom
<1>2. ASSUME NEW m \in 0..(n - 1), m \in T PROVE m + 1 \in T
  <2>1. PICK h \in 1..n : h = m + 1 /\ h - 1 = m /\ h \in 0..n /\ m \in 0..n /\ h \in Nat
    OBVIOUS
  <2>2. o[h] = Xor(o[m], LAt(k, h)) /\ IsWide(o[m]) /\ IsWide(LAt(k, h))
    BY <2>1, LAtBlock, BlockWide DEF OffsetsFrom
  <2>3. a \in o[h][j] <=> ~ (a \in o[m][j] <=> a \in LAt(k, h)[j])
    BY <2>2, WideSum
  <2>4. Ntz(h) \in Nat /\ IsDouble(k, LAt(k, h), Ntz(h) + 2)
    BY <2>1, NtzIs, LAtIs
  <2>5. a \notin LAt(k, h)[j]
    BY <2>4, PlacesOf
  <2> QED
    BY <1>2, <2>1, <2>3, <2>5
<1> HIDE DEF T
<1>3. 0..n \subseteq T
  BY <1>1, <1>2, UpTo
<1> QED
  BY <1>3 DEF T

\* No two offsets of a message have the same places: they count in Gray code.
LEMMA OffsetsApart ==
  ASSUME NEW k, NEW first, NEW n \in Nat, NEW o, OffsetsFrom(o, k, first, n), NEW i \in 0..n,
         NEW j \in 0..n, Places(k, o[i]) = Places(k, o[j])
  PROVE  i = j
<1> DEFINE s == [l \in 0..n |-> Places(k, o[l])]
<1>1. ASSUME NEW l \in 1..n PROVE s[l] = SymDiff(s[l - 1], {Ntz(l)})
  <2>1. l \in Nat /\ l - 1 \in 0..n /\ l \in 0..n
    OBVIOUS
  <2>2. o[l] = Xor(o[l - 1], LAt(k, l)) /\ IsWide(o[l - 1]) /\ IsWide(LAt(k, l))
    BY <2>1, LAtBlock, BlockWide DEF OffsetsFrom
  <2>3. Ntz(l) \in Nat /\ IsDouble(k, LAt(k, l), Ntz(l) + 2)
    BY <2>1, NtzIs, LAtIs
  <2>4. Places(k, LAt(k, l)) = {Ntz(l)}
    BY <2>3, PlacesOf
  <2>5. Places(k, o[l]) = SymDiff(Places(k, o[l - 1]), {Ntz(l)})
    BY <2>2, <2>4, PlacesSum
  <2> QED
    BY <2>1, <2>5
<1>2. s[i] = s[j]
  OBVIOUS
<1> HIDE DEF s
<1>3. ~ (i < j) /\ ~ (j < i)
  BY <1>1, <1>2, SumsOfPlacesDiffer
<1> QED
  BY <1>3

\* A longer message goes through the same offsets.
LEMMA OffsetsAgree ==
  ASSUME NEW k, NEW first, NEW n \in Nat, NEW m \in Nat, m <= n, NEW o, NEW p,
         OffsetsFrom(o, k, first, n), OffsetsFrom(p, k, first, m)
  PROVE  \A l \in 0..m : o[l] = p[l]
<1> DEFINE T == {l \in 0..m : o[l] = p[l]}
<1>1. 0 \in T
  BY DEF OffsetsFrom
<1>2. ASSUME NEW l \in 0..(m - 1), l \in T PROVE l + 1 \in T
  <2>1. PICK h \in 1..m : h = l + 1 /\ h - 1 = l /\ h \in 1..n /\ h \in 0..m
    OBVIOUS
  <2>2. o[h] = Xor(o[l], LAt(k, h)) /\ p[h] = Xor(p[l], LAt(k, h))
    BY <2>1 DEF OffsetsFrom
  <2> QED
    BY <1>2, <2>1, <2>2
<1> HIDE DEF T
<1>3. 0..m \subseteq T
  BY <1>1, <1>2, UpTo
<1> QED
  BY <1>3 DEF T

(* The first offset tells the nonce.  A one is set in front of it          *)
(* (Numbered), and its last bits are taken off (Low) before the cipher is  *)
(* given the rest (High).                                                  *)
IsOcbNonce(n) == Given(n) /\ OcbNonce(n) /\ Len(n) < B
Numbered(n) ==
  [i \in 1..B |-> IF i > B - Len(n) THEN n[i - B + Len(n)]
                  ELSE IF i = B - Len(n) THEN Num(1) ELSE Zero]
Low(n) == Value(Numbered(n)[B]) % OcbBottom
High(n) == [Numbered(n) EXCEPT ![B] = Num(Value(Numbered(n)[B]) - Low(n))]
Stretch(k, n, i, j) ==
  << "lin", << << "stretch", Low(n) >>, 1 >>, << i, Made(k, High(n), i) >>, j >>
Mark(k, n) == IF Low(n) = 0 THEN Made(k, High(n), 1) ELSE Stretch(k, n, 1, 1)

\* The last byte is a known number v, of which the last bits are Low.
LEMMA LastIs ==
  ASSUME NEW n, IsOcbNonce(n)
  PROVE  /\ Len(n) \in 0..(B - 1) /\ IsString(n) /\ Clean(n)
         /\ \E v \in 0..255 : /\ Numbered(n)[B] = Num(v) /\ Value(Numbered(n)[B]) = v
                              /\ Low(n) \in 0..v /\ Low(n) = v % OcbBottom
                              /\ Len(n) = 0 => v = 1
                              /\ Len(n) # 0 => n[Len(n)] = Num(v)
<1>1. IsString(n) /\ Clean(n)
  BY GivenClean DEF IsOcbNonce, Clean
<1>2. PICK l : l = Len(n)
  OBVIOUS
<1>3. l \in 0..(B - 1) /\ B \in 1..B
  BY <1>1, <1>2, BlockLen, StringProperties DEF IsOcbNonce
<1>4. Numbered(n)[B] = IF B > B - l THEN n[B - B + l] ELSE IF B = B - l THEN Num(1) ELSE Zero
  BY <1>2, <1>3 DEF Numbered
<1>5. PICK v \in 0..255 : /\ Numbered(n)[B] = Num(v)
                          /\ l = 0 => v = 1
                          /\ l # 0 => n[l] = Num(v)
  <2>1. CASE l = 0
    <3>1. Numbered(n)[B] = Num(1) /\ 1 \in 0..255
      BY <1>3, <1>4, <2>1, BlockLen
    <3> QED
      BY <2>1, <3>1
  <2>2. CASE l # 0
    <3>1. Numbered(n)[B] = n[l]
      <4>1. B > B - l /\ B - B + l = l
        BY <1>3, <2>2, BlockLen
      <4> QED
        BY <1>4, <4>1
    <3>2. n # << >>
      BY <1>1, <1>2, <2>2, EmptyIs
    <3>3. PICK v \in 0..255 : n[l] = Num(v)
      BY <1>2, <3>2 DEF IsOcbNonce, OcbNonce
    <3> QED
      BY <2>2, <3>1, <3>3
  <2> QED
    BY <2>1, <2>2
<1>6. Value(Numbered(n)[B]) = v
  BY <1>5, ValueOfNum
<1>7. v % OcbBottom \in 0..v
  <2>1. OcbBottom \in {1, 2, 4, 8}
    BY BlockAssumption DEF OcbBottom
  <2>2. \A b \in {1, 2, 4, 8} : v % b \in 0..v
    OBVIOUS
  <2> QED
    BY <2>1, <2>2
<1> QED
  BY <1>1, <1>2, <1>3, <1>5, <1>6, <1>7 DEF Low

\* The nonce block with its bottom bits cleared, byte by byte.
LEMMA HighIs ==
  ASSUME NEW n, IsOcbNonce(n)
  PROVE  /\ IsBlock(High(n))
         /\ \A i \in 1..B : \A a \in High(n)[i] : a[1] \notin {"E", "D", "lin"}
         /\ \A i \in 1..(B - 1) : High(n)[i] = IF i > B - Len(n) THEN n[i - B + Len(n)]
                                              ELSE IF i = B - Len(n) THEN Num(1) ELSE Zero
         /\ High(n)[B] = Num(Value(Numbered(n)[B]) - Low(n))
<1>1. PICK w : w = Num(Value(Numbered(n)[B]) - Low(n))
  OBVIOUS
<1>2. PICK f : f = Numbered(n)
  BY SMTT(30)
<1>3. High(n) = [f EXCEPT ![B] = w]
  BY <1>1, <1>2, SMTT(30) DEF High
<1>4. PICK l \in 0..(B - 1) : l = Len(n)
  BY LastIs
<1>5. f = [i \in 1..B |-> IF i > B - l THEN n[i - B + l] ELSE IF i = B - l THEN Num(1) ELSE Zero]
  BY <1>2, <1>4 DEF Numbered
<1>6. B \in 1..B /\ B \in Nat
  BY BlockLen
<1>7. \A a \in w : a[1] \notin {"E", "D", "lin"}
  BY <1>1 DEF Num
<1>8. ASSUME NEW i \in 1..B, NEW a \in f[i] PROVE a[1] \notin {"E", "D", "lin"}
  <2>1. CASE i > B - l
    <3>1. i - B + l \in 1..l /\ f[i] = n[i - B + l]
      BY <1>4, <1>5, <1>6, <2>1, SMTT(30)
    <3>2. n[i - B + l] \in Range(n)
      BY <1>4, <3>1, LastIs, StringProperties DEF Range
    <3>3. a[1] # "D" /\ a[1] \notin {"E", "lin"}
      BY <1>8, <3>1, <3>2 DEF IsOcbNonce, Given, OcbNonce
    <3> QED
      BY <3>3, SMTT(30)
  <2>2. CASE ~ (i > B - l)
    <3>1. f[i] = Num(1) \/ f[i] = Zero
      BY <1>5, <2>2
    <3> QED
      BY <1>8, <3>1 DEF Num, Zero
  <2> QED
    BY <2>1, <2>2
<1>9. /\ High(n) = [i \in 1..B |-> High(n)[i]]
      /\ \A i \in 1..B : High(n)[i] = IF i = B THEN w ELSE f[i]
  BY <1>3, <1>5, <1>6
<1>10. \A i \in 1..B : \A a \in High(n)[i] : a[1] \notin {"E", "D", "lin"}
  BY <1>7, <1>8, <1>9
<1>11. Clean(High(n)) /\ Len(High(n)) = B
  BY <1>6, <1>9, <1>10, CleanMade
<1>12. ASSUME NEW i \in 1..(B - 1) PROVE i \in 1..B /\ i # B
  BY <1>6
<1>13. \A i \in 1..(B - 1) : High(n)[i] = f[i]
  BY <1>9, <1>12
<1>14. \A i \in 1..(B - 1) : High(n)[i] = IF i > B - l THEN n[i - B + l]
                                        ELSE IF i = B - l THEN Num(1) ELSE Zero
  BY <1>5, <1>12, <1>13
<1> QED
  BY <1>1, <1>4, <1>6, <1>9, <1>10, <1>11, <1>14 DEF IsBlock

\* The byte 1 is not zero.
LEMMA OneIsSome == Num(1) # {}
<1>1. << "bit", 0 >> \in Num(1)
  <2>1. 2^0 = 1 /\ (1 \div 1) % 2 = 1 /\ 0 \in 0..7
    OBVIOUS
  <2> QED
    BY <2>1 DEF Num
<1> QED
  BY <1>1

\* The length of the nonce is in its block.
LEMMA NotShorter ==
  ASSUME NEW n, IsOcbNonce(n), NEW m, IsOcbNonce(m), High(n) = High(m)
  PROVE  ~ (Len(n) < Len(m))
<1> SUFFICES ASSUME Len(n) < Len(m) PROVE FALSE
  BY SMTT(30)
<1>1. PICK l \in 0..(B - 1) : l = Len(n)
  BY LastIs, SMTT(30)
<1>2. PICK h \in 0..(B - 1) : h = Len(m)
  BY LastIs
<1>3. PICK i \in 1..(B - 1) : i = B - h /\ ~ (i > B - l) /\ i # B - l
  BY <1>1, <1>2, BlockLen
<1>4. \A x \in 1..(B - 1) : High(n)[x] = IF x > B - l THEN n[x - B + l]
                                       ELSE IF x = B - l THEN Num(1) ELSE Zero
  BY <1>1, HighIs
<1>5. \A x \in 1..(B - 1) : High(m)[x] = IF x > B - h THEN m[x - B + h]
                                       ELSE IF x = B - h THEN Num(1) ELSE Zero
  BY <1>2, HighIs
<1>6. High(n)[i] = Zero
  BY <1>3, <1>4
<1>7. High(m)[i] = Num(1)
  <2>1. ~ (i > B - h)
    BY <1>2, <1>3, BlockLen
  <2> QED
    BY <1>3, <1>5, <2>1
<1> QED
  BY <1>6, <1>7, OneIsSome DEF Zero

\* The nonce block and its bottom bits tell the nonce.
LEMMA HighTells ==
  ASSUME NEW n, IsOcbNonce(n), NEW m, IsOcbNonce(m), High(n) = High(m), Low(n) = Low(m)
  PROVE  n = m
<1>1. PICK l \in 0..(B - 1) : l = Len(n)
  BY LastIs, SMTT(30)
<1>2. PICK h \in 0..(B - 1) : h = Len(m)
  BY LastIs
<1>3. h = l
  <2>1. ~ (l < h) /\ ~ (h < l)
    BY <1>1, <1>2, NotShorter
  <2> QED
    BY <2>1
<1>4. PICK v \in 0..255 : /\ Value(Numbered(n)[B]) = v /\ Low(n) \in 0..v
                          /\ l # 0 => n[l] = Num(v)
  BY <1>1, LastIs, ZenonT(60)
<1>5. PICK u \in 0..255 : /\ Value(Numbered(m)[B]) = u /\ Low(m) \in 0..u
                          /\ l # 0 => m[l] = Num(u)
  BY <1>2, <1>3, LastIs
<1>6. u = v
  <2>1. Num(v - Low(n)) = Num(u - Low(n))
    BY <1>4, <1>5, HighIs
  <2>2. PICK c : c = Low(n)
    OBVIOUS
  <2>3. c \in 0..v /\ c \in 0..u
    BY <1>4, <1>5, <2>2
  <2>7. v - c \in 0..255 /\ u - c \in 0..255
    BY <2>3
  <2>4. PICK x, y \in 0..255 : x = v - c /\ y = u - c
    BY <2>7
  <2>5. Num(x) = Num(y)
    BY <2>1, <2>2, <2>4
  <2>6. x = y
    BY <2>5, ValueOfNum
  <2> QED
    BY <2>3, <2>4, <2>6
<1>7. ASSUME NEW i \in 1..l PROVE n[i] = m[i]
  <2>1. CASE i = l
    BY <1>4, <1>5, <1>6, <1>7, <2>1
  <2>2. CASE i # l
    <3>1. PICK x \in 1..(B - 1) : x = i + B - l
      BY <1>7, <2>2, BlockLen
    <3>2. x > B - l /\ x - B + l = i
      BY <1>7, <3>1, BlockLen
    <3>3. High(n)[x] = n[i] /\ High(m)[x] = m[i]
      BY <1>1, <1>2, <1>3, <3>2, HighIs
    <3> QED
      BY <3>3
  <2> QED
    BY <2>1, <2>2
<1>8. IsString(n) /\ IsString(m)
  BY LastIs
<1> QED
  BY <1>1, <1>2, <1>3, <1>7, <1>8, SameString

LEMMA HighIsSome ==
  ASSUME NEW n, IsOcbNonce(n), Low(n) = 0
  PROVE  High(n) # ZeroBlock
<1>1. PICK l \in 0..(B - 1) : l = Len(n)
  BY LastIs, SMTT(30)
<1>2. CASE l = 0
  <2>1. Value(Numbered(n)[B]) = 1
    BY <1>1, <1>2, LastIs
  <2>2. High(n)[B] = Num(1 - 0)
    BY <2>1, HighIs
  <2>3. High(n)[B] # {} /\ B \in 1..B
    BY <2>2, OneIsSome, BlockLen
  <2> QED
    BY <2>3, ZeroIs, SMTT(30)
<1>3. CASE l # 0
  <2>1. PICK i \in 1..(B - 1) : i = B - l
    BY <1>3, BlockLen
  <2>2. ~ (i > B - l) /\ i = B - l /\ i \in 1..B
    BY <2>1, BlockLen
  <2>3. High(n)[i] = Num(1)
    BY <1>1, <2>2, HighIs
  <2> QED
    BY <2>2, <2>3, OneIsSome, ZeroIs
<1> QED
  BY <1>2, <1>3, SMTT(30)

\* The first offset: the enciphered nonce block, or a window of its stretch.
LEMMA Offset0Is ==
  ASSUME NEW k, NEW n, IsOcbNonce(n)
  PROVE  /\ IsBlock(OcbOffset0(k, n))
         /\ Low(n) = 0 => \A j \in 1..B : OcbOffset0(k, n)[j] = {Made(k, High(n), j)}
         /\ Low(n) # 0 => \A j \in 1..B : OcbOffset0(k, n)[j] = {Stretch(k, n, i, j) : i \in 1..B}
         /\ Low(n) = 0 => OcbOffset0(k, n)[1] = {Made(k, High(n), 1)}
         /\ Low(n) # 0 => OcbOffset0(k, n)[1] = {Stretch(k, n, i, 1) : i \in 1..B}
<1> DEFINE f == << "stretch", Low(n) >>
<1>1. PICK x : x = E(k, High(n))
  OBVIOUS
<1>2. OcbOffset0(k, n) = IF Low(n) = 0 THEN x ELSE Linear(f, x)
  BY <1>1 DEF OcbOffset0, Low, High, Numbered
<1>3. Clean(High(n)) /\ Len(High(n)) = B /\ IsBlock(High(n))
  BY HighIs DEF IsBlock
<1>4. IsBlock(x) /\ \A j \in 1..B : x[j] = {Made(k, High(n), j)}
  BY <1>1, <1>3, BlockLen, BlockEnciphered, EncipheredIs
<1>5. \A i \in 1..B : {b \in x[i] : b[1] = "lin" /\ b[2][1] = f} = {}
  BY <1>4 DEF Made
<1>6. ASSUME NEW j \in 1..B PROVE Linear(f, x)[j] = {Stretch(k, n, i, j) : i \in 1..B}
  <2>1. {b \in x[1] : b[1] = "lin" /\ b[2][1] = f} = {}
    BY <1>5, BlockLen
  <2>2. ASSUME NEW i \in 1..B
        PROVE  x[i] \ {b \in x[i] : b[1] = "lin" /\ b[2][1] = f} = {Made(k, High(n), i)}
    BY <1>4, <1>5
  <2>3. ASSUME NEW i \in 1..B
        PROVE  {<< "lin", << f, 1 >>, << i, a >>, j >> :
                  a \in x[i] \ {b \in x[i] : b[1] = "lin" /\ b[2][1] = f}} = {Stretch(k, n, i, j)}
    BY <2>2 DEF Stretch
  <2> QED
    BY <2>1, <2>3, LinearParts
<1>7. x[1] = {Made(k, High(n), 1)} /\ Linear(f, x)[1] = {Stretch(k, n, i, 1) : i \in 1..B}
  <2>1. 1 \in 1..B
    BY BlockLen
  <2> QED
    BY <1>4, <1>6, <2>1
<1>8. \A j \in 1..B : OcbOffset0(k, n)[j] = IF Low(n) = 0 THEN {Made(k, High(n), j)}
                                              ELSE {Stretch(k, n, i, j) : i \in 1..B}
  BY <1>2, <1>4, <1>6
<1> HIDE DEF f
<1> QED
  BY <1>2, <1>4, <1>7, <1>8, LinearBlock

\* What the bytes of the first offset are and are not.
OfNonce(k, a) ==
  /\ a[1] \in {"E", "lin"} /\ NoMultiple(k, a) /\ \A i, j : a # Dbl(k, 1, i, j)
  /\ \A x : IsString(x) /\ (x = ZeroBlock \/ \E b \in x[1] : b[1] \in {"E", "lin"}) =>
       \A i : a # Made(k, x, i)

\* Without a shift it holds atoms of the nonce.
LEMMA FirstOfBlock ==
  ASSUME NEW k, NEW n, IsOcbNonce(n), Low(n) = 0, NEW j \in 1..B, NEW a \in OcbOffset0(k, n)[j]
  PROVE  OfNonce(k, a)
<1>0. OcbOffset0(k, n)[j] = {Made(k, High(n), j)}
  BY Offset0Is
<1>1. a = Made(k, High(n), j)
  BY <1>0
<1>2. a[1] = "E" /\ \A m, i, h : a # Dbl(k, m, i, h)
  BY <1>1 DEF Made, Dbl
<1>3. ASSUME NEW x, IsString(x), x = ZeroBlock \/ \E b \in x[1] : b[1] \in {"E", "lin"},
             NEW i, a = Made(k, x, i)
      PROVE  FALSE
  <2>1. IsString(High(n)) /\ 1 \in 1..B
    BY HighIs, BlockLen DEF IsBlock, Clean
  <2>2. x = High(n)
    <3>1. Made(k, x, i) = Made(k, High(n), j)
      BY <1>1, <1>3
    <3> QED
      BY <1>3, <2>1, <3>1, MadeTells
  <2>3. x # ZeroBlock
    BY <2>2, HighIsSome
  <2> QED
    BY <1>3, <2>1, <2>2, <2>3, HighIs
<1>4. ASSUME NEW x, IsString(x), x = ZeroBlock \/ \E b \in x[1] : b[1] \in {"E", "lin"}
      PROVE  \A i : a # Made(k, x, i)
  BY <1>3, <1>4
<1>5. NoMultiple(k, a) /\ (\A i, h : a # Dbl(k, 1, i, h)) /\ a[1] \in {"E", "lin"}
  BY <1>2 DEF NoMultiple
<1> QED
  BY <1>4, <1>5, Zenon DEF OfNonce

\* And so does a window.
LEMMA FirstOfWindow ==
  ASSUME NEW k, NEW n, IsOcbNonce(n), Low(n) # 0, NEW j \in 1..B, NEW a \in OcbOffset0(k, n)[j]
  PROVE  OfNonce(k, a)
<1>0. OcbOffset0(k, n)[j] = {Stretch(k, n, i, j) : i \in 1..B}
  BY Offset0Is
<1>1. PICK i \in 1..B : a = Stretch(k, n, i, j)
  BY <1>0
<1>2. a[1] = "lin" /\ a[2][1] = << "stretch", Low(n) >>
  BY <1>1 DEF Stretch
<1>3. \A m, l, h : Dbl(k, m, l, h)[2][1] = << "double" >>
  BY DEF Dbl
<1>4. << "stretch", Low(n) >> # << "double" >>
  OBVIOUS
<1>5. \A m, l, h : a # Dbl(k, m, l, h)
  BY <1>2, <1>3, <1>4
<1>6. \A x, l : a # Made(k, x, l)
  BY <1>2 DEF Made
<1> QED
  BY <1>2, <1>5, <1>6 DEF OfNonce, NoMultiple

\* The first offset holds atoms of a nonce alone.
LEMMA FirstOffsetIs ==
  ASSUME NEW k, NEW n, IsOcbNonce(n)
  PROVE  \A j \in 1..B : \A a \in OcbOffset0(k, n)[j] : OfNonce(k, a)
<1>1. SUFFICES ASSUME NEW j \in 1..B, NEW a \in OcbOffset0(k, n)[j] PROVE OfNonce(k, a)
  OBVIOUS
<1>2. Low(n) = 0 => OfNonce(k, a)
  BY FirstOfBlock
<1>3. Low(n) # 0 => OfNonce(k, a)
  BY FirstOfWindow
<1> QED
  BY <1>2, <1>3

\* The nonce's mark is in its first offset.
LEMMA MarkIn ==
  ASSUME NEW k, NEW n, IsOcbNonce(n)
  PROVE  Mark(k, n) \in OcbOffset0(k, n)[1] /\ Mark(k, n)[4] = 1
<1>1. 1 \in 1..B
  BY BlockLen
<1>2. Mark(k, n)[4] = 1
  BY DEF Mark, Made, Stretch
<1>3. Mark(k, n) \in OcbOffset0(k, n)[1]
  BY <1>1, Offset0Is DEF Mark
<1> QED
  BY <1>2, <1>3

\* A mark in a first offset tells the nonce.
LEMMA MarkTells ==
  ASSUME NEW k, NEW n, IsOcbNonce(n), NEW m, IsOcbNonce(m), Mark(k, n) \in OcbOffset0(k, m)[1]
  PROVE  n = m
<1>1. 1 \in 1..B
  BY BlockLen
<1>2. IsString(High(n)) /\ IsString(High(m))
  BY HighIs DEF IsBlock, Clean
<1>3. PICK a : a = Mark(k, n)
  OBVIOUS
<1>4. CASE Low(m) = 0
  <2>1. a = Made(k, High(m), 1)
    BY <1>1, <1>3, <1>4, Offset0Is
  <2>2. Low(n) = 0 /\ a = Made(k, High(n), 1)
    BY <1>3, <2>1 DEF Mark, Made, Stretch
  <2>3. High(n) = High(m)
    BY <1>2, <2>1, <2>2, MadeTells
  <2> QED
    BY <1>4, <2>2, <2>3, HighTells
<1>5. CASE Low(m) # 0
  <2>1. PICK i \in 1..B : a = Stretch(k, m, i, 1)
    BY <1>1, <1>3, <1>5, Offset0Is
  <2>2. Low(n) # 0 /\ a = Stretch(k, n, 1, 1)
    BY <1>3, <2>1 DEF Mark, Made, Stretch
  <2>3. Low(n) = Low(m) /\ Made(k, High(n), 1) = Made(k, High(m), i)
    BY <2>1, <2>2 DEF Stretch
  <2>4. High(n) = High(m)
    BY <1>2, <2>3, MadeTells
  <2> QED
    BY <2>3, <2>4, HighTells
<1> QED
  BY <1>4, <1>5

(* A string cut into q whole blocks w and a shorter rest r.                *)
Cut(s, q, w, r) ==
  /\ IsString(s) /\ q \in Nat /\ q = Len(s) \div B /\ Len(s) = Off(q) + Len(r)
  /\ w = WholeBlocks(s) /\ Len(w) = q /\ w = [i \in 1..q |-> w[i]]
  /\ \A i \in 1..q : IsWide(w[i]) /\ \A j \in 1..B : w[i][j] = s[Off(i - 1) + j]
  /\ r = Tail16(s) /\ IsString(r) /\ Len(r) \in 0..(B - 1)
  /\ \A j \in 1..Len(r) : r[j] = s[Off(q) + j]

\* A string is cut into its whole blocks and the rest.
LEMMA CutOf ==
  ASSUME NEW s, IsString(s)
  PROVE  Cut(s, Len(s) \div B, WholeBlocks(s), Tail16(s))
<1> DEFINE q == Len(s) \div B
           w == WholeBlocks(s)
           r == Tail16(s)
<1>1. Len(s) \in Nat
  BY StringProperties
<1>2. /\ q \in Nat /\ Off(q) \in Nat /\ Off(q) <= Len(s) /\ Len(s) - Off(q) \in 0..(B - 1)
      /\ Parts(Off(q)) = q /\ \A i \in 1..q : PartLen(i, Off(q)) = B
  BY <1>1, Quotient
<1>3. /\ Shaped(w, Off(q)) /\ Len(w) = q /\ w = [i \in 1..q |-> Chunks(s)[i]]
      /\ \A i \in 1..q : \A j \in 1..B : w[i][j] = s[Off(i - 1) + j]
      /\ IsString(r) /\ Len(r) = Len(s) - Off(q)
      /\ \A j \in 1..(Len(s) - Off(q)) : r[j] = s[Off(q) + j]
  BY WholeAre
<1> HIDE DEF w, r, q
<1>4. \A i \in 1..q : IsWide(w[i])
  BY <1>2, <1>3 DEF Shaped, IsWide
<1>5. w = [i \in 1..q |-> w[i]]
  BY <1>2, <1>3 DEF Shaped
<1>6. Len(s) = Off(q) + Len(r) /\ Len(r) \in 0..(B - 1)
  BY <1>1, <1>2, <1>3
<1>7. \A j \in 1..Len(r) : r[j] = s[Off(q) + j]
  BY <1>3
<1>8. Cut(s, q, w, r)
  BY <1>2, <1>3, <1>4, <1>5, <1>6, <1>7 DEF Cut, q, w, r
<1> QED
  BY <1>8 DEF q, w, r

\* The quotient of a multiple and less than one more.
LEMMA QuotientOf ==
  ASSUME NEW n \in Nat \ {0}, NEW i \in Nat, NEW e \in 0..(n - 1)
  PROVE  (i * n + e) \div n = i
BY SMT

\* Blocks and a rest, joined, are cut back into them.
LEMMA CutJoined ==
  ASSUME NEW q \in Nat, NEW w, w = [i \in 1..q |-> w[i]], \A i \in 1..q : IsWide(w[i]),
         NEW r, IsString(r), Len(r) \in 0..(B - 1)
  PROVE  Cut(FlattenSeq(w) \o r, q, w, r)
<1> DEFINE len == Off(q) + Len(r)
           s == FlattenSeq(w) \o r
<1>1. B \in Nat \ {0} /\ Off(q) \in Nat
  BY BlockLen DEF Off
<1>2. len \in Nat /\ len \div B = q
  <2>1. PICK e \in 0..(B - 1) : e = Len(r)
    OBVIOUS
  <2>2. len = q * B + e /\ len \in Nat
    BY <1>1, <2>1 DEF Off
  <2> QED
    BY <1>1, <2>2, QuotientOf
<1>3. Parts(Off(q)) = q /\ \A i \in 1..q : PartLen(i, Off(q)) = B
  BY <1>2, Quotient
<1>4. Shaped(w, Off(q))
  BY <1>3 DEF Shaped, IsWide
<1>5. Len(r) = len - Off(q)
  BY <1>1
<1> HIDE DEF len
<1>6. IsString(s) /\ Len(s) = len /\ WholeBlocks(s) = w /\ Tail16(s) = r
  BY <1>2, <1>4, <1>5, WholeOfJoined
<1> HIDE DEF s
<1>7. Cut(s, Len(s) \div B, WholeBlocks(s), Tail16(s))
  BY <1>6, CutOf
<1> QED
  BY <1>2, <1>6, <1>7 DEF s

\* The parts tell the string.
LEMMA CutTells ==
  ASSUME NEW s, NEW t, NEW q, NEW w, NEW r, Cut(s, q, w, r), Cut(t, q, w, r)
  PROVE  s = t
BY WholeJoined DEF Cut

\* The parts of a clean string are clean.
LEMMA CutClean ==
  ASSUME NEW s, NEW q, NEW w, NEW r, Cut(s, q, w, r), Clean(s)
  PROVE  Clean(r) /\ \A i \in 1..q : IsBlock(w[i])
BY CleanWhole DEF Cut

\* A padded rest: the rest, the bit, and zeros.
LEMMA OnePaddedIs ==
  ASSUME NEW s, IsString(s), Len(s) \in 0..(B - 1)
  PROVE  /\ IsWide(OnePadded(s))
         /\ \A i \in 1..B : OnePadded(s)[i] = IF i <= Len(s) THEN s[i]
                                              ELSE IF i = Len(s) + 1 THEN Num(Radix \div 2)
                                              ELSE {}
<1> DEFINE t == Append(s, Num(Radix \div 2))
           n == Len(s)
<1>1. n \in Nat
  OBVIOUS
<1>2. /\ t = [i \in 1..(n + 1) |-> t[i]]
      /\ \A i \in 1..n : t[i] = s[i]
      /\ t[n + 1] = Num(Radix \div 2)
  BY <1>1, AppendMakes
<1> HIDE DEF t
<1>3. IsString(t) /\ Len(t) = n + 1
  BY <1>1, <1>2, MadeString
<1>4. /\ IsString(XorInto(ZeroBlock, t)) /\ Len(XorInto(ZeroBlock, t)) = Len(ZeroBlock)
      /\ \A i \in 1..Len(ZeroBlock) :
           XorInto(ZeroBlock, t)[i] = IF i <= Len(t) THEN SymDiff(ZeroBlock[i], t[i])
                                      ELSE ZeroBlock[i]
  BY <1>3, ZeroIs, IntoIs DEF IsWide
<1>5. OnePadded(s) = XorInto(ZeroBlock, t)
  BY DEF OnePadded, ZeroPadded, t
<1>6. ASSUME NEW i \in 1..B
      PROVE  OnePadded(s)[i] = IF i <= n THEN s[i] ELSE IF i = n + 1 THEN Num(Radix \div 2) ELSE {}
  <2>1. OnePadded(s)[i] = IF i <= n + 1 THEN SymDiff({}, t[i]) ELSE {}
    BY <1>3, <1>4, <1>5, ZeroIs DEF IsWide
  <2>2. SymDiff({}, t[i]) = t[i]
    BY DEF SymDiff
  <2>3. PICK v : v = Num(Radix \div 2)
    OBVIOUS
  <2>4. t[n + 1] = v
    BY <1>2, <2>3
  <2>5. CASE i <= n
    <3>1. i <= n + 1 /\ i \in 1..n
      BY <1>1, <2>5
    <3>2. OnePadded(s)[i] = t[i] /\ t[i] = s[i]
      BY <1>2, <2>1, <2>2, <3>1
    <3> QED
      BY <2>5, <3>2
  <2>6. CASE i = n + 1
    <3>1. OnePadded(s)[i] = t[i]
      BY <1>1, <2>1, <2>2, <2>6
    <3>2. ~ (i <= n) /\ OnePadded(s)[i] = v
      BY <1>1, <2>4, <2>6, <3>1
    <3> QED
      BY <2>3, <2>6, <3>2
  <2>7. CASE ~ (i <= n + 1)
    BY <1>1, <2>1, <2>7
  <2> HIDE DEF n
  <2> QED
    BY <1>1, <2>5, <2>6, <2>7
<1> QED
  BY <1>4, <1>5, <1>6, ZeroIs DEF IsWide

\* The padding bit is a bit.
LEMMA PadBit == \E b \in Num(Radix \div 2) : b[1] = "bit"
<1>1. /\ 2^0 = 1 /\ 2^1 = 2 /\ 2^2 = 4 /\ 2^3 = 8
      /\ (1 \div 1) % 2 = 1 /\ (2 \div 2) % 2 = 1 /\ (4 \div 4) % 2 = 1 /\ (8 \div 8) % 2 = 1
      /\ 0 \in 0..7 /\ 1 \in 0..7 /\ 2 \in 0..7 /\ 3 \in 0..7
  OBVIOUS
<1>2. /\ << "bit", 0 >> \in Num(1) /\ << "bit", 1 >> \in Num(2)
      /\ << "bit", 2 >> \in Num(4) /\ << "bit", 3 >> \in Num(8)
  BY <1>1 DEF Num
<1>3. Radix \div 2 \in {1, 2, 4, 8}
  BY BlockAssumption
<1> QED
  BY <1>2, <1>3

(* What the cipher makes of a string of a block's length that need not be  *)
(* clean, and its inverse of one that need not be an image.                *)
LEMMA WideImage ==
  ASSUME NEW f, NEW k, NEW x, IsWide(x), NEW y, y = Image(f, k, Pack(x))
  PROVE  IsWide(y) /\ \A i \in 1..B : y[i] = {<< f, k, Pack(x), i >>}
BY ImageIs DEF IsWide

\* The cipher on a block that it did not make by deciphering.
LEMMA WideEnciphered ==
  ASSUME NEW k, NEW x, IsWide(x), NEW a \in x[1], a[1] # "D"
  PROVE  IsWide(E(k, x)) /\ \A i \in 1..B : E(k, x)[i] = {Made(k, x, i)}
<1> DEFINE p == Pack(x)
<1>1. /\ IsString(p) /\ Len(p) = B + 1 /\ p[1] = Marks(x, 0)
      /\ \A i \in 1..B : p[i + 1] = x[i] \ Marks(x, i)
  BY PackIs DEF IsWide
<1>2. 1 \in 1..B /\ 1 + 1 = 2
  BY BlockLen
<1>3. ASSUME NEW b \in p[1], Undoes("D", k, p, b) PROVE FALSE
  <2> HIDE DEF p
  <2>1. p[1] = {b} /\ b[1] = "D" /\ Tail(p) = Zeros(Len(p) - 1)
    BY <1>3 DEF Undoes
  <2>2. p[1 + 1] = {}
    <3>1. p \in Seq(Range(p)) /\ p # << >>
      BY <1>1, BlockLen, EmptyIs DEF IsString
    <3>2. Tail(p)[1] = p[1 + 1]
      <4>1. /\ Len(Tail(p)) = Len(p) - 1
            /\ \A i \in 1..Len(Tail(p)) : Tail(p)[i] = p[i + 1]
        BY <3>1, HeadTailProperties
      <4>2. 1 \in 1..Len(Tail(p))
        BY <1>1, <4>1, BlockLen
      <4> QED
        BY <4>1, <4>2
    <3>3. Zeros(B)[1] = {}
      BY <1>2 DEF Zeros, Zero
    <3>4. Len(p) - 1 = B
      BY <1>1, BlockLen
    <3> QED
      BY <2>1, <3>2, <3>3, <3>4
  <2>3. x[1] \subseteq Marks(x, 1)
    BY <1>1, <1>2, <2>2
  <2>4. PICK c \in Whole(x) : a = Named(c, 1)
    BY <2>3 DEF Marks
  <2>5. Named(c, 0) = b
    BY <1>1, <2>1, <2>4 DEF Marks
  <2>6. Named(c, 0)[1] = c[1] /\ Named(c, 1)[1] = c[1]
    BY NamedIs
  <2>7. b[1] = c[1] /\ a[1] = c[1]
    BY <2>4, <2>5, <2>6
  <2> QED
    BY <2>1, <2>7
<1>4. E(k, x) = Image("E", k, p)
  BY <1>3 DEF E, Permuted, PermutedOf
<1> QED
  BY <1>4, WideImage DEF Made

\* A block is deciphered to what was enciphered, or to something of its own.
LEMMA WideDeciphered ==
  ASSUME NEW k, NEW x, IsWide(x)
  PROVE  \/ \E q : \A i \in 1..B : x[i] = {<< "E", k, q, i >>}
         \/ IsWide(D(k, x)) /\ \A i \in 1..B : D(k, x)[i] = {<< "D", k, Pack(x), i >>}
<1> DEFINE p == Pack(x)
<1>1. /\ IsString(p) /\ Len(p) = B + 1 /\ p[1] = Marks(x, 0)
      /\ \A i \in 1..B : p[i + 1] = x[i] \ Marks(x, i)
  BY PackIs DEF IsWide
<1>2. CASE \E a \in p[1] : Undoes("E", k, p, a)
  <2>1. PICK a \in p[1] : Undoes("E", k, p, a)
    BY <1>2
  <2> HIDE DEF p
  <2>2. p[1] = {a} /\ a[1] = "E" /\ a[2] = k /\ Tail(p) = Zeros(Len(p) - 1)
    BY <2>1 DEF Undoes
  <2>3. \A i \in 1..B : p[i + 1] = {}
    <3>1. p \in Seq(Range(p)) /\ p # << >>
      BY <1>1, BlockLen, EmptyIs DEF IsString
    <3>2. \A i \in 1..B : Tail(p)[i] = p[i + 1]
      <4>1. /\ Len(Tail(p)) = Len(p) - 1
            /\ \A i \in 1..Len(Tail(p)) : Tail(p)[i] = p[i + 1]
        BY <3>1, HeadTailProperties
      <4>2. Len(p) - 1 = B
        BY <1>1, BlockLen
      <4> QED
        BY <4>1, <4>2
    <3>3. \A i \in 1..B : Zeros(B)[i] = {}
      BY DEF Zeros, Zero
    <3>4. Len(p) - 1 = B
      BY <1>1, BlockLen
    <3> QED
      BY <2>2, <3>2, <3>3, <3>4
  <2>4. \A i \in 1..B : x[i] \subseteq Marks(x, i)
    BY <1>1, <2>3
  <2>5. PICK b \in Whole(x) : Named(b, 0) = a
    BY <1>1, <2>2 DEF Marks
  <2>6. ASSUME NEW c \in Whole(x), NEW i PROVE Named(c, i) = << "E", k, a[3], i >>
    <3>1. Named(c, 0) = a
      BY <1>1, <2>2 DEF Marks
    <3>2. c[1] = a[1] /\ c[2] = a[2] /\ c[3] = a[3]
      BY <3>1, NamedIs
    <3> QED
      BY <2>2, <3>2 DEF Named
  <2>7. \A i \in 1..B : Named(b, i) \in x[i]
    BY DEF Whole, IsWide
  <2>8. ASSUME NEW i \in 1..B PROVE x[i] = {<< "E", k, a[3], i >>}
    <3>1. << "E", k, a[3], i >> \in x[i]
      BY <2>6, <2>7
    <3>2. x[i] \subseteq {<< "E", k, a[3], i >>}
      BY <2>4, <2>6 DEF Marks
    <3> QED
      BY <3>1, <3>2
  <2> QED
    BY <2>8
<1>3. CASE ~ \E a \in p[1] : Undoes("E", k, p, a)
  <2>1. D(k, x) = Image("D", k, p)
    BY <1>3 DEF D, Permuted, PermutedOf
  <2> QED
    BY <2>1, WideImage
<1> QED
  BY <1>2, <1>3

\* With two atoms in its first byte a string is no image.
LEMMA TwoDeciphered ==
  ASSUME NEW k, NEW x, IsWide(x), NEW i \in 1..B, NEW a \in x[i], NEW b \in x[i], a # b
  PROVE  IsWide(D(k, x)) /\ \A j \in 1..B : D(k, x)[j] = {<< "D", k, Pack(x), j >>}
<1>1. ~ \E q : \A j \in 1..B : x[j] = {<< "E", k, q, j >>}
  OBVIOUS
<1> QED
  BY <1>1, WideDeciphered

(* The hash of the aad: which blocks it enciphers.                         *)
Plains == {"p", "x"}
Knowns == {"p", "x", "bit"}

\* Parts hold what the whole may hold.
LEMMA PartsOf ==
  ASSUME NEW K, NEW s, NEW q, NEW w, NEW r, Cut(s, q, w, r), Of(s, K)
  PROVE  Of(r, K) /\ \A i \in 1..q : Of(w[i], K)
<1>1. /\ IsString(s) /\ q \in Nat /\ Len(s) = Off(q) + Len(r) /\ Len(r) \in 0..(B - 1)
      /\ IsString(r) /\ Off(q) \in Nat /\ \A j \in 1..Len(r) : r[j] = s[Off(q) + j]
  BY OffIs DEF Cut
<1>2. \A i \in 1..Len(s) : \A a \in s[i] : a[1] \in K
  BY DEF Of
<1>3. ASSUME NEW j \in 1..Len(r), NEW a \in r[j] PROVE a[1] \in K
  <2>1. Off(q) + j \in 1..Len(s) /\ r[j] = s[Off(q) + j]
    BY <1>1
  <2> QED
    BY <1>2, <1>3, <2>1
<1>4. ASSUME NEW i \in 1..q PROVE Of(w[i], K)
  <2>1. IsString(w[i]) /\ Len(w[i]) = B /\ \A j \in 1..B : w[i][j] = s[Off(i - 1) + j]
    BY DEF Cut, IsWide
  <2>2. i \in Nat /\ i - 1 \in Nat /\ Off(i - 1) \in Nat /\ Off(i) = Off(i - 1) + B
    BY OffIs
  <2>3. Off(i) <= Off(q)
    BY <1>1, <2>2, OffGrows
  <2>4. ASSUME NEW j \in 1..B, NEW a \in w[i][j] PROVE a[1] \in K
    <3>1. Off(i - 1) + j \in 1..Len(s) /\ w[i][j] = s[Off(i - 1) + j]
      BY <1>1, <2>1, <2>2, <2>3, BlockLen, SMTT(30)
    <3> QED
      BY <1>2, <2>4, <3>1
  <2> QED
    BY <2>1, <2>4 DEF Of
<1> QED
  BY <1>1, <1>3, <1>4 DEF Of

\* A padded rest of known bytes holds known bytes and bits.
LEMMA PaddedOf ==
  ASSUME NEW s, Of(s, Plains), Len(s) \in 0..(B - 1)
  PROVE  Of(OnePadded(s), Knowns) /\ IsWide(OnePadded(s))
<1>1. PICK n \in 0..(B - 1) : n = Len(s)
  OBVIOUS
<1>2. PICK v : v = Num(Radix \div 2)
  OBVIOUS
<1>3. /\ IsWide(OnePadded(s))
      /\ \A i \in 1..B : OnePadded(s)[i] = IF i <= n THEN s[i] ELSE IF i = n + 1 THEN v ELSE {}
  BY <1>1, <1>2, OnePaddedIs DEF Of
<1>4. \A a \in v : a[1] \in Knowns
  BY <1>2 DEF Num, Knowns
<1>5. \A i \in 1..n : \A a \in s[i] : a[1] \in Knowns
  BY <1>1 DEF Of, Plains, Knowns
<1>6. ASSUME NEW i \in 1..B, NEW a \in OnePadded(s)[i] PROVE a[1] \in Knowns
  <2>1. CASE i <= n
    BY <1>3, <1>5, <1>6, <2>1
  <2>2. CASE ~ (i <= n)
    BY <1>3, <1>4, <1>6, <2>2
  <2> QED
    BY <2>1, <2>2
<1> QED
  BY <1>3, <1>6 DEF Of, IsWide

\* Into a sum with a block nothing of the cipher comes from a known string.
LEMMA KnownSum ==
  ASSUME NEW k, NEW w, Of(w, Knowns), Len(w) = B, NEW o, IsBlock(o)
  PROVE  /\ IsBlock(Xor(w, o)) /\ Places(k, Xor(w, o)) = Places(k, o)
         /\ \A i \in 1..B : \A a : a[1] \notin Knowns => (a \in Xor(w, o)[i] <=> a \in o[i])
<1>1. IsWide(w) /\ IsWide(o)
  BY BlockWide DEF Of, IsWide
<1>2. /\ IsWide(Xor(w, o))
      /\ \A i \in 1..B : \A a : a \in Xor(w, o)[i] <=> ~ (a \in w[i] <=> a \in o[i])
  BY <1>1, WideSum
<1>3. \A i \in 1..B : \A a : a[1] \notin Knowns => a \notin w[i]
  BY DEF Of
<1>4. \A i \in 1..B : \A a \in o[i] : a[1] # "D"
  BY BlockWide
<1>5. \A i \in 1..B : \A a : a[1] \notin Knowns => (a \in Xor(w, o)[i] <=> a \in o[i])
  BY <1>2, <1>3
<1>6. \A i \in 1..B : \A a : a[1] = "D" => a \notin Xor(w, o)[i]
  BY <1>4, <1>5 DEF Knowns
<1>7. IsBlock(Xor(w, o))
  BY <1>2, <1>6, BlockWide
<1>8. ASSUME NEW m PROVE Dbl(k, m + 2, 1, 1) \in Xor(w, o)[1] <=> Dbl(k, m + 2, 1, 1) \in o[1]
  <2>1. Dbl(k, m + 2, 1, 1)[1] \notin Knowns
    BY DEF Dbl, Knowns
  <2> QED
    BY <1>5, <2>1, BlockLen
<1>9. Places(k, Xor(w, o)) = Places(k, o)
  BY <1>8 DEF Places
<1> QED
  BY <1>5, <1>7, <1>9

\* A byte of E(0) and one of the first double are not among the multiples.
LEMMA NotMultiples ==
  ASSUME NEW k
  PROVE  /\ NoMultiple(k, Made(k, ZeroBlock, 1)) /\ NoMultiple(k, Dbl(k, 1, 1, 1))
         /\ Made(k, ZeroBlock, 1)[1] = "E" /\ Dbl(k, 1, 1, 1)[1] = "lin"
         /\ \A i : Dbl(k, 1, 1, 1) # Made(k, ZeroBlock, i)
<1>1. /\ Made(k, ZeroBlock, 1)[1] = "E" /\ \A m, i, j : Dbl(k, m, i, j)[1] = "lin"
      /\ \A i : Made(k, ZeroBlock, i)[1] = "E"
  BY DEF Made, Dbl
<1>2. \A m \in Nat : \A i, j \in 1..B : Dbl(k, 1, 1, 1) # Dbl(k, m + 2, i, j)
  <2>1. ASSUME NEW m \in Nat, NEW i \in 1..B, NEW j \in 1..B, Dbl(k, 1, 1, 1) = Dbl(k, m + 2, i, j)
        PROVE  FALSE
    <3>1. PICK l \in Nat : l = m + 2 /\ l # 1
      OBVIOUS
    <3>2. Dbl(k, 1, 1, 1) = Dbl(k, l, i, j)
      BY <2>1, <3>1
    <3>3. 1 = l
      BY <3>2, DblTells
    <3> QED
      BY <3>1, <3>3
  <2> QED
    BY <2>1
<1> QED
  BY <1>1, <1>2 DEF NoMultiple

ZeroOffsets(o, k, n) == n \in Nat /\ OffsetsFrom(o, k, ZeroBlock, n)

\* The offsets of the aad's hash hold neither L_* itself nor its first double.
LEMMA ZeroOffsetsAre ==
  ASSUME NEW o, NEW k, NEW n, ZeroOffsets(o, k, n), NEW i \in 0..n
  PROVE  /\ IsBlock(o[i])
         /\ Made(k, ZeroBlock, 1) \notin o[i][1] /\ Dbl(k, 1, 1, 1) \notin o[i][1]
<1>1. 1 \in 1..B
  BY BlockLen
<1>2. \A a : NoMultiple(k, a) => (a \in o[i][1] <=> a \in ZeroBlock[1])
  BY <1>1, OffsetsKeep DEF ZeroOffsets
<1>3. ZeroBlock[1] = {}
  BY <1>1, ZeroIs
<1> QED
  BY <1>2, <1>3, NotMultiples DEF ZeroOffsets, OffsetsFrom

\* x is one of the blocks that the hash of s enciphers, given the offsets.
OcbHashed(k, s, o, x) ==
  \/ \E i \in 1..(Len(s) \div B) : x = Xor(WholeBlocks(s)[i], o[i])
  \/ /\ Tail16(s) # << >>
     /\ x = Xor(OnePadded(Tail16(s)), Xor(o[Len(s) \div B], LStar(k)))

\* What the hash enciphers for a whole block shows the block's place.
LEMMA HashedWhole ==
  ASSUME NEW k, NEW s, Of(s, Plains), NEW o, NEW n, ZeroOffsets(o, k, n), Len(s) \div B <= n,
         NEW i \in 1..(Len(s) \div B)
  PROVE  LET x == Xor(WholeBlocks(s)[i], o[i])
         IN  /\ IsBlock(x) /\ Places(k, x) = Places(k, o[i])
             /\ Made(k, ZeroBlock, 1) \notin x[1] /\ Dbl(k, 1, 1, 1) \notin x[1]
<1> DEFINE q == Len(s) \div B
           w == WholeBlocks(s)
<1>1. Cut(s, q, w, Tail16(s))
  BY CutOf DEF Of
<1> HIDE DEF w, q
<1>2. Of(w[i], Plains) /\ IsWide(w[i]) /\ q \in Nat
  BY <1>1, PartsOf, ZenonT(60) DEF Cut, q
<1>3. Of(w[i], Knowns) /\ Len(w[i]) = B
  BY <1>2, OfMore DEF IsWide, Plains, Knowns
<1>4. i \in 0..n /\ 1 \in 1..B
  BY <1>2, BlockLen DEF ZeroOffsets, q
<1>5. IsBlock(o[i]) /\ Made(k, ZeroBlock, 1) \notin o[i][1] /\ Dbl(k, 1, 1, 1) \notin o[i][1]
  BY <1>4, ZeroOffsetsAre
<1>6. /\ IsBlock(Xor(w[i], o[i])) /\ Places(k, Xor(w[i], o[i])) = Places(k, o[i])
      /\ \A j \in 1..B : \A a : a[1] \notin Knowns => (a \in Xor(w[i], o[i])[j] <=> a \in o[i][j])
  BY <1>3, <1>5, KnownSum
<1>7. Made(k, ZeroBlock, 1)[1] \notin Knowns /\ Dbl(k, 1, 1, 1)[1] \notin Knowns
  BY NotMultiples DEF Knowns
<1>8. Made(k, ZeroBlock, 1) \notin Xor(w[i], o[i])[1] /\ Dbl(k, 1, 1, 1) \notin Xor(w[i], o[i])[1]
  BY <1>4, <1>5, <1>6, <1>7
<1> QED
  BY <1>6, <1>8 DEF w

\* And for the rest.
LEMMA HashedTail ==
  ASSUME NEW k, NEW s, Of(s, Plains), NEW o, NEW n, ZeroOffsets(o, k, n), Len(s) \div B <= n
  PROVE  LET l == Xor(o[Len(s) \div B], LStar(k))
             x == Xor(OnePadded(Tail16(s)), l)
         IN  /\ IsBlock(x) /\ IsBlock(l) /\ IsWide(OnePadded(Tail16(s)))
             /\ Of(Tail16(s), Plains) /\ Len(Tail16(s)) \in 0..(B - 1)
             /\ Made(k, ZeroBlock, 1) \in x[1] /\ Dbl(k, 1, 1, 1) \notin x[1]
<1> DEFINE q == Len(s) \div B
           r == Tail16(s)
           l == Xor(o[q], LStar(k))
<1>1. Cut(s, q, WholeBlocks(s), r)
  BY CutOf DEF Of
<1> HIDE DEF q, r
<1>2. Of(r, Plains) /\ Len(r) \in 0..(B - 1) /\ q \in Nat
  <2>1. Of(r, Plains)
    BY <1>1, PartsOf
  <2> QED
    BY <1>1, <2>1 DEF Cut
<1>3. Of(OnePadded(r), Knowns) /\ IsWide(OnePadded(r)) /\ Len(OnePadded(r)) = B
  BY <1>2, PaddedOf DEF IsWide
<1>4. q \in 0..n /\ 1 \in 1..B
  BY <1>2, BlockLen DEF ZeroOffsets, q
<1>5. IsBlock(o[q]) /\ Made(k, ZeroBlock, 1) \notin o[q][1] /\ Dbl(k, 1, 1, 1) \notin o[q][1]
  BY <1>4, ZeroOffsetsAre
<1>6. IsBlock(LStar(k)) /\ LStar(k)[1] = {Made(k, ZeroBlock, 1)}
  BY <1>4, LStarIs
<1>7. IsWide(o[q]) /\ IsWide(LStar(k)) /\ IsBlock(l)
  BY <1>5, <1>6, BlockWide, BlockSum
<1>8. \A a : a \in l[1] <=> ~ (a \in o[q][1] <=> a \in LStar(k)[1])
  BY <1>4, <1>7, WideSum
<1>9. Made(k, ZeroBlock, 1) \in l[1] /\ Dbl(k, 1, 1, 1) \notin l[1]
  BY <1>5, <1>6, <1>8, NotMultiples
<1> HIDE DEF l
<1>10. /\ IsBlock(Xor(OnePadded(r), l))
       /\ \A j \in 1..B : \A a :
            a[1] \notin Knowns => (a \in Xor(OnePadded(r), l)[j] <=> a \in l[j])
  BY <1>3, <1>7, KnownSum
<1>11. Made(k, ZeroBlock, 1)[1] \notin Knowns /\ Dbl(k, 1, 1, 1)[1] \notin Knowns
  BY NotMultiples DEF Knowns
<1>12. /\ Made(k, ZeroBlock, 1) \in Xor(OnePadded(r), l)[1]
       /\ Dbl(k, 1, 1, 1) \notin Xor(OnePadded(r), l)[1]
  BY <1>4, <1>9, <1>10, <1>11
<1> QED
  BY <1>2, <1>3, <1>7, <1>10, <1>12 DEF q, r, l

\* No two of the whole blocks hashed are equal.
LEMMA HashedOnce ==
  ASSUME NEW k, NEW s, Of(s, Plains), NEW t, Of(t, Plains), NEW o, NEW n, ZeroOffsets(o, k, n),
         Len(s) \div B <= n, Len(t) \div B <= n,
         NEW i \in 1..(Len(s) \div B), NEW j \in 1..(Len(t) \div B)
  PROVE  Xor(WholeBlocks(s)[i], o[i]) = Xor(WholeBlocks(t)[j], o[j]) =>
           i = j /\ WholeBlocks(s)[i] = WholeBlocks(t)[j]
<1>1. Places(k, Xor(WholeBlocks(s)[i], o[i])) = Places(k, o[i])
  BY HashedWhole
<1>2. Places(k, Xor(WholeBlocks(t)[j], o[j])) = Places(k, o[j])
  BY HashedWhole
<1>3. Len(s) \in Nat /\ Len(t) \in Nat
  BY StringProperties DEF Of
<1>4. PICK a \in Nat : a = Len(s) \div B /\ i \in 1..a
  BY <1>3, Quotient
<1>5. PICK b \in Nat : b = Len(t) \div B /\ j \in 1..b
  BY <1>3, Quotient
<1>6. n \in Nat /\ i \in 0..n /\ j \in 0..n /\ OffsetsFrom(o, k, ZeroBlock, n)
  BY <1>4, <1>5 DEF ZeroOffsets
<1>7. Places(k, o[i]) = Places(k, o[j]) => i = j
  BY <1>6, OffsetsApart
<1>8. IsString(o[i]) /\ Len(o[i]) = B
  BY <1>6, ZeroOffsetsAre DEF IsBlock, Clean
<1>9. Cut(s, a, WholeBlocks(s), Tail16(s)) /\ Cut(t, b, WholeBlocks(t), Tail16(t))
  BY <1>4, <1>5, CutOf DEF Of
<1>10. PICK v : v = WholeBlocks(s)[i]
  OBVIOUS
<1>11. PICK w : w = WholeBlocks(t)[j]
  OBVIOUS
<1>12. IsWide(v) /\ IsWide(w)
  BY <1>4, <1>5, <1>9, <1>10, <1>11 DEF Cut
<1>13. Xor(Xor(v, o[i]), o[i]) = v /\ Xor(Xor(w, o[i]), o[i]) = w
  BY ONLY <1>8, <1>12, BlockLen, SumBack DEF IsWide
<1>14. HAVE Xor(WholeBlocks(s)[i], o[i]) = Xor(WholeBlocks(t)[j], o[j])
<1>15. i = j
  BY <1>1, <1>2, <1>7, <1>14
<1>16. Xor(v, o[i]) = Xor(w, o[i])
  BY <1>10, <1>11, <1>14, <1>15
<1>17. v = w
  BY <1>13, <1>16
<1> QED
  BY <1>10, <1>11, <1>15, <1>17

\* y is the sum of what the whole blocks of s are enciphered to.
SumHashed(k, s, o, y) ==
  /\ IsWide(y)
  /\ \A a : a \in y[1] <=>
       \E i \in 1..(Len(s) \div B) : a = Made(k, Xor(WholeBlocks(s)[i], o[i]), 1)

\* The hash's sum holds what it enciphers, each once.
LEMMA OcbSumIs ==
  ASSUME NEW k, NEW s, Of(s, Plains), NEW o, NEW n, ZeroOffsets(o, k, n), Len(s) \div B <= n
  PROVE  SumHashed(k, s, o, OcbSum(k, WholeBlocks(s), o))
<1> DEFINE w == WholeBlocks(s)
           x(i) == Xor(w[i], o[i])
           e == [i \in 1..Len(w) |-> E(k, x(i))]
<1>1. PICK q : q = Len(s) \div B
  OBVIOUS
<1>2. Cut(s, q, w, Tail16(s))
  BY <1>1, CutOf DEF Of
<1>3. q \in Nat /\ Len(w) = q
  BY <1>2 DEF Cut
<1>4. 1 \in 1..B
  BY BlockLen
<1>5. \A i \in 1..q : IsBlock(x(i))
  BY <1>1, HashedWhole
<1>6. \A i, j \in 1..q : x(i) = x(j) => i = j
  BY <1>1, HashedOnce
<1> HIDE DEF x
<1>7. ASSUME NEW i \in 1..q PROVE IsWide(E(k, x(i))) /\ E(k, x(i))[1] = {Made(k, x(i), 1)}
  BY <1>4, <1>5, BlockLen, BlockEnciphered, BlockWide, EncipheredIs DEF IsBlock
<1>8. e = [i \in 1..q |-> e[i]] /\ \A i \in 1..q : e[i] = E(k, x(i))
  BY <1>3
<1>9. OcbSum(k, w, o) = SumOf(e)
  BY DEF OcbSum, x
<1> HIDE DEF e
<1>10. \A i \in 1..q : IsWide(e[i]) /\ \A a : a \in e[i][1] <=> a = Made(k, x(i), 1)
  BY <1>7, <1>8
<1>11. IsWide(SumOf(e))
  <2>1. Wides(e, q)
    BY <1>3, <1>8, <1>10 DEF Wides
  <2> QED
    BY <2>1, InSumOf
<1>13. SumAtoms(e, q, SumOf(e))
  <2>1. Wides(e, q)
    BY <1>3, <1>8, <1>10 DEF Wides
  <2> QED
    BY <2>1, InSumOf
<1>12. ASSUME NEW a PROVE a \in SumOf(e)[1] <=> \E i \in 1..q : a = Made(k, x(i), 1)
  <2>1. \A b \in 0..q : (\A i \in 1..q : a \in e[i][1] <=> i = b) => (a \in SumOf(e)[1] <=> b # 0)
    BY <1>4, <1>13 DEF SumAtoms
  <2>2. CASE \E i \in 1..q : a = Made(k, x(i), 1)
    <3>1. PICK b \in 1..q : a = Made(k, x(b), 1)
      BY <2>2
    <3>2. ASSUME NEW i \in 1..q, a = Made(k, x(i), 1) PROVE i = b
      <4>1. Made(k, x(i), 1) = Made(k, x(b), 1)
        BY <3>1, <3>2
      <4>2. IsString(x(i)) /\ IsString(x(b))
        BY <1>5 DEF IsBlock, Clean
      <4>3. x(i) = x(b)
        BY <4>1, <4>2, MadeTells
      <4> QED
        BY <1>6, <4>3
    <3>3. \A i \in 1..q : a \in e[i][1] <=> i = b
      BY <1>10, <3>1, <3>2
    <3>4. b \in 0..q /\ b # 0
      BY <1>3
    <3>5. a \in SumOf(e)[1]
      BY <2>1, <3>3, <3>4
    <3> QED
      BY <2>2, <3>5
  <2>3. CASE ~ \E i \in 1..q : a = Made(k, x(i), 1)
    <3>1. 0 \in 0..q /\ \A i \in 1..q : a \in e[i][1] <=> i = 0
      BY <1>3, <1>10, <2>3
    <3>2. a \notin SumOf(e)[1]
      BY <2>1, <3>1
    <3> QED
      BY <2>3, <3>2
  <2> QED
    BY <2>2, <2>3
<1>14. \A a : a \in OcbSum(k, w, o)[1] <=> \E i \in 1..(Len(s) \div B) : a = Made(k, x(i), 1)
  BY <1>1, <1>9, <1>12
<1> QED
  BY <1>9, <1>11, <1>14 DEF x, SumHashed

\* The hash of an aad is the enciphered blocks of it.
LEMMA HashIs ==
  ASSUME NEW k, NEW s, Of(s, Plains), NEW o, NEW n, ZeroOffsets(o, k, n), Len(s) \div B <= n
  PROVE  /\ IsWide(OcbHash(k, s))
         /\ \A a : a \in OcbHash(k, s)[1] <=> \E x : OcbHashed(k, s, o, x) /\ a = Made(k, x, 1)
<1> DEFINE w == WholeBlocks(s)
           r == Tail16(s)
           x(i) == Xor(w[i], o[i])
           sum == OcbSum(k, w, o)
<1>1. PICK q : q = Len(s) \div B
  OBVIOUS
<1>2. Cut(s, q, w, r)
  BY <1>1, CutOf DEF Of
<1>3. q \in Nat /\ Len(w) = q /\ q <= n
  BY <1>1, <1>2 DEF Cut
<1>4. 1 \in 1..B
  BY BlockLen
<1>5. PICK p : p = Offsets(k, ZeroBlock, q)
  OBVIOUS
<1>6. OffsetsFrom(p, k, ZeroBlock, q)
  BY <1>3, <1>5, ZeroIsBlock, OffsetsAre
<1>7. \A l \in 0..q : p[l] = o[l]
  BY <1>3, <1>6, OffsetsAgree DEF ZeroOffsets
<1>8. PICK u : u = Xor(OnePadded(r), Xor(o[q], LStar(k)))
  OBVIOUS
<1>9. OcbSum(k, w, p) = sum
  <2>1. [i \in 1..Len(w) |-> E(k, Xor(w[i], p[i]))] = [i \in 1..Len(w) |-> E(k, Xor(w[i], o[i]))]
    BY <1>3, <1>7
  <2> QED
    BY <2>1 DEF OcbSum
<1>10. OcbHash(k, s) = IF r = << >> THEN sum ELSE Xor(sum, E(k, u))
  <2>1. OcbHash(k, s) = OcbHashOf(k, w, r, p)
    BY <1>1, <1>5 DEF OcbHash
  <2>2. p[Len(w)] = o[q]
    BY <1>3, <1>7
  <2> QED
    BY <1>8, <1>9, <2>1, <2>2 DEF OcbHashOf
<1>11. IsWide(sum) /\ \A a : a \in sum[1] <=> \E i \in 1..q : a = Made(k, x(i), 1)
  <2>1. SumHashed(k, s, o, OcbSum(k, WholeBlocks(s), o))
    BY OcbSumIs
  <2>2. SumHashed(k, s, o, sum)
    BY <2>1
  <2> HIDE DEF sum, w
  <2>3. \A i : x(i) = Xor(WholeBlocks(s)[i], o[i])
    BY DEF w
  <2> HIDE DEF x
  <2> QED
    BY <1>1, <2>2, <2>3 DEF SumHashed
<1>12. \A y : OcbHashed(k, s, o, y) <=> (\E i \in 1..q : y = x(i)) \/ (r # << >> /\ y = u)
  BY <1>1, <1>8 DEF OcbHashed
<1>13. IsBlock(u) /\ Made(k, ZeroBlock, 1) \in u[1]
  BY <1>1, <1>8, HashedTail
<1>14. \A i \in 1..q : IsBlock(x(i)) /\ Made(k, ZeroBlock, 1) \notin x(i)[1]
  BY <1>1, HashedWhole
<1> HIDE DEF x, sum
<1>15. CASE r = << >>
  <2>1. OcbHash(k, s) = sum
    BY <1>10, <1>15
  <2> QED
    BY <1>11, <1>12, <1>15, <2>1
<1>16. CASE r # << >>
  <2>1. OcbHash(k, s) = Xor(sum, E(k, u))
    BY <1>10, <1>16
  <2>2. IsWide(E(k, u)) /\ E(k, u)[1] = {Made(k, u, 1)}
    BY <1>4, <1>13, BlockLen, BlockEnciphered, BlockWide, EncipheredIs DEF IsBlock
  <2>3. /\ IsWide(Xor(sum, E(k, u)))
        /\ \A a : a \in Xor(sum, E(k, u))[1] <=> ~ (a \in sum[1] <=> a \in E(k, u)[1])
    BY <1>4, <1>11, <2>2, WideSum
  <2>4. ASSUME NEW i \in 1..q, Made(k, u, 1) = Made(k, x(i), 1) PROVE FALSE
    <3>1. IsString(u) /\ IsString(x(i))
      BY <1>13, <1>14 DEF IsBlock, Clean
    <3>2. u = x(i)
      BY <2>4, <3>1, MadeTells
    <3> QED
      BY <1>13, <1>14, <3>2
  <2>5. Made(k, u, 1) \notin sum[1]
    BY <1>11, <2>4
  <2>6. \A a : a \in OcbHash(k, s)[1] <=> a \in sum[1] \/ a = Made(k, u, 1)
    BY <2>1, <2>2, <2>3, <2>5
  <2>7. ASSUME NEW a
        PROVE  a \in OcbHash(k, s)[1] <=> \E y : OcbHashed(k, s, o, y) /\ a = Made(k, y, 1)
    BY <1>11, <1>12, <1>16, <2>6
  <2> QED
    BY <2>1, <2>3, <2>7
<1> QED
  BY <1>15, <1>16

LEMMA PaddedLonger ==
  ASSUME NEW s, Of(s, Plains), Len(s) \in 0..(B - 1), NEW t, Of(t, Plains), Len(t) \in 0..(B - 1),
         Len(s) < Len(t)
  PROVE  OnePadded(s) # OnePadded(t)
<1>1. PICK n \in 0..(B - 1) : n = Len(s)
  OBVIOUS
<1>2. PICK i \in 1..B : i = n + 1 /\ ~ (i <= n) /\ i <= Len(t) /\ i \in 1..Len(t)
  BY <1>1, BlockLen
<1>3. PICK v : v = Num(Radix \div 2)
  OBVIOUS
<1>4. \A j \in 1..B : OnePadded(s)[j] = IF j <= n THEN s[j] ELSE IF j = n + 1 THEN v ELSE {}
  BY <1>1, <1>3, OnePaddedIs DEF Of
<1>5. \A j \in 1..B : OnePadded(t)[j] = IF j <= Len(t) THEN t[j]
                                        ELSE IF j = Len(t) + 1 THEN v ELSE {}
  BY <1>3, OnePaddedIs DEF Of
<1>6. PICK b \in v : b[1] = "bit"
  BY <1>3, PadBit
<1>7. OnePadded(s)[i] = v
  BY <1>2, <1>4
<1>8. OnePadded(t)[i] = t[i]
  BY <1>2, <1>5
<1>9. b \notin t[i]
  BY <1>2, <1>6 DEF Of, Plains
<1> QED
  BY <1>6, <1>7, <1>8, <1>9

\* A padded rest tells the rest.
LEMMA PaddedTells ==
  ASSUME NEW s, Of(s, Plains), Len(s) \in 0..(B - 1), NEW t, Of(t, Plains), Len(t) \in 0..(B - 1),
         OnePadded(s) = OnePadded(t)
  PROVE  s = t
<1>1. ~ (Len(s) < Len(t)) /\ ~ (Len(t) < Len(s))
  BY PaddedLonger
<1>2. PICK n \in 0..(B - 1) : n = Len(s) /\ n = Len(t)
  BY <1>1
<1>3. \A j \in 1..B : OnePadded(s)[j] = IF j <= Len(s) THEN s[j] ELSE IF j = Len(s) + 1
                                        THEN Num(Radix \div 2) ELSE {}
  BY OnePaddedIs DEF Of
<1>4. \A j \in 1..B : OnePadded(t)[j] = IF j <= Len(t) THEN t[j] ELSE IF j = Len(t) + 1
                                        THEN Num(Radix \div 2) ELSE {}
  BY OnePaddedIs DEF Of
<1>5. ASSUME NEW j \in 1..n PROVE s[j] = t[j]
  <2>1. j \in 1..B /\ j <= n
    BY <1>5, BlockLen
  <2>2. OnePadded(s)[j] = s[j]
    BY <1>2, <1>3, <2>1
  <2>3. OnePadded(t)[j] = t[j]
    BY <1>2, <1>4, <2>1
  <2> QED
    BY <2>2, <2>3
<1> QED
  BY <1>2, <1>5, SameString DEF Of

\* No block that the hash enciphers is a tag's.
LEMMA HashedBlock ==
  ASSUME NEW k, NEW s, Of(s, Plains), NEW o, NEW n, ZeroOffsets(o, k, n), Len(s) \div B <= n,
         NEW x, OcbHashed(k, s, o, x)
  PROVE  IsBlock(x) /\ Dbl(k, 1, 1, 1) \notin x[1]
<1>1. CASE \E i \in 1..(Len(s) \div B) : x = Xor(WholeBlocks(s)[i], o[i])
  BY <1>1, HashedWhole
<1>2. CASE x = Xor(OnePadded(Tail16(s)), Xor(o[Len(s) \div B], LStar(k)))
  BY <1>2, HashedTail
<1> QED
  BY <1>1, <1>2 DEF OcbHashed

\* Equal hashes enciphered the same blocks.
LEMMA HashedIn ==
  ASSUME NEW k, NEW s, Of(s, Plains), NEW t, Of(t, Plains), NEW o, NEW n, ZeroOffsets(o, k, n),
         Len(s) \div B <= n, Len(t) \div B <= n, OcbHash(k, s)[1] = OcbHash(k, t)[1],
         NEW x, OcbHashed(k, s, o, x)
  PROVE  OcbHashed(k, t, o, x)
<1>1. \A a : a \in OcbHash(k, s)[1] <=> \E y : OcbHashed(k, s, o, y) /\ a = Made(k, y, 1)
  BY HashIs
<1>2. \A a : a \in OcbHash(k, t)[1] <=> \E y : OcbHashed(k, t, o, y) /\ a = Made(k, y, 1)
  BY HashIs
<1>3. PICK y : OcbHashed(k, t, o, y) /\ Made(k, x, 1) = Made(k, y, 1)
  BY <1>1, <1>2
<1>4. IsString(x) /\ IsString(y)
  BY <1>3, HashedBlock DEF IsBlock, Clean
<1>5. x = y
  BY <1>3, <1>4, MadeTells
<1> QED
  BY <1>3, <1>5

\* What is hashed of s is hashed of t: t has the whole blocks of s and a rest
\* if s has.
LEMMA HashedWithin ==
  ASSUME NEW k, NEW s, Of(s, Plains), NEW t, Of(t, Plains), NEW o, NEW n, ZeroOffsets(o, k, n),
         Len(s) \div B <= n, Len(t) \div B <= n, OcbHash(k, s)[1] = OcbHash(k, t)[1]
  PROVE  /\ \A i \in 1..(Len(s) \div B) : /\ i \in 1..(Len(t) \div B)
                                          /\ WholeBlocks(s)[i] = WholeBlocks(t)[i]
         /\ Tail16(s) # << >> =>
              /\ Tail16(t) # << >>
              /\ Xor(OnePadded(Tail16(s)), Xor(o[Len(s) \div B], LStar(k)))
                   = Xor(OnePadded(Tail16(t)), Xor(o[Len(t) \div B], LStar(k)))
<1> DEFINE z == Made(k, ZeroBlock, 1)
           l(u) == Xor(OnePadded(Tail16(u)), Xor(o[Len(u) \div B], LStar(k)))
<1>1. ASSUME NEW i \in 1..(Len(s) \div B)
      PROVE  i \in 1..(Len(t) \div B) /\ WholeBlocks(s)[i] = WholeBlocks(t)[i]
  <2>1. PICK x : x = Xor(WholeBlocks(s)[i], o[i])
    OBVIOUS
  <2>2. z \notin x[1]
    BY <2>1, HashedWhole
  <2>3. OcbHashed(k, s, o, x)
    BY <2>1 DEF OcbHashed
  <2>4. OcbHashed(k, t, o, x)
    BY <2>3, HashedIn
  <2>5. x # l(t)
    BY <2>2, HashedTail
  <2>6. PICK j \in 1..(Len(t) \div B) : x = Xor(WholeBlocks(t)[j], o[j])
    BY <2>4, <2>5 DEF OcbHashed
  <2>7. Xor(WholeBlocks(s)[i], o[i]) = Xor(WholeBlocks(t)[j], o[j])
    BY <2>1, <2>6
  <2>8. i = j /\ WholeBlocks(s)[i] = WholeBlocks(t)[j]
    BY <2>7, HashedOnce
  <2> QED
    BY <2>8
<1>2. ASSUME Tail16(s) # << >> PROVE Tail16(t) # << >> /\ l(s) = l(t)
  <2>1. PICK x : x = l(s)
    OBVIOUS
  <2>2. z \in x[1]
    BY <2>1, HashedTail
  <2>3. OcbHashed(k, s, o, x)
    BY <1>2, <2>1 DEF OcbHashed
  <2>4. OcbHashed(k, t, o, x)
    BY <2>3, HashedIn
  <2>5. \A j \in 1..(Len(t) \div B) : x # Xor(WholeBlocks(t)[j], o[j])
    BY <2>2, HashedWhole
  <2>6. Tail16(t) # << >> /\ x = l(t)
    BY <2>4, <2>5 DEF OcbHashed
  <2> QED
    BY <2>1, <2>6
<1> QED
  BY <1>1, <1>2

\* The hash tells the aad.
LEMMA HashTells ==
  ASSUME NEW k, NEW s, Of(s, Plains), NEW t, Of(t, Plains), OcbHash(k, s)[1] = OcbHash(k, t)[1]
  PROVE  s = t
<1>1. Len(s) \in Nat /\ Len(t) \in Nat
  BY StringProperties DEF Of
<1>2. PICK a \in Nat : a = Len(s) \div B
  BY <1>1, Quotient
<1>3. PICK b \in Nat : b = Len(t) \div B
  BY <1>1, Quotient
<1>4. PICK n \in Nat : a <= n /\ b <= n
  <2>1. a + b \in Nat /\ a <= a + b /\ b <= a + b
    OBVIOUS
  <2> QED
    BY <2>1
<1>5. PICK o : o = Offsets(k, ZeroBlock, n)
  OBVIOUS
<1>6. ZeroOffsets(o, k, n)
  BY <1>5, ZeroIsBlock, OffsetsAre DEF ZeroOffsets
<1>7. /\ \A i \in 1..a : i \in 1..b /\ WholeBlocks(s)[i] = WholeBlocks(t)[i]
      /\ Tail16(s) # << >> => Tail16(t) # << >>
  BY <1>2, <1>3, <1>4, <1>6, HashedWithin
<1>8. /\ \A i \in 1..b : i \in 1..a
      /\ Tail16(t) # << >> => Tail16(s) # << >>
  BY <1>2, <1>3, <1>4, <1>6, HashedWithin
<1>9. a = b
  <2>1. a # 0 => a \in 1..b
    BY <1>7
  <2>2. b # 0 => b \in 1..a
    BY <1>8
  <2> QED
    BY <2>1, <2>2
<1>10. Cut(s, a, WholeBlocks(s), Tail16(s)) /\ Cut(t, a, WholeBlocks(t), Tail16(t))
  BY <1>2, <1>3, <1>9, CutOf DEF Of
<1>11. WholeBlocks(s) = WholeBlocks(t)
  BY <1>7, <1>10 DEF Cut
<1>12. Tail16(s) = Tail16(t)
  <2>1. CASE Tail16(s) = << >>
    BY <1>8, <2>1
  <2>2. CASE Tail16(s) # << >>
    <3>1. PICK l : l = Xor(o[a], LStar(k))
      OBVIOUS
    <3>2. Xor(OnePadded(Tail16(s)), l) = Xor(OnePadded(Tail16(t)), l)
      <4>1. Tail16(s) # << >> =>
              Xor(OnePadded(Tail16(s)), Xor(o[Len(s) \div B], LStar(k)))
                = Xor(OnePadded(Tail16(t)), Xor(o[Len(t) \div B], LStar(k)))
        BY <1>2, <1>3, <1>4, <1>6, HashedWithin
      <4> QED
        BY <1>2, <1>3, <1>9, <2>2, <3>1, <4>1
    <3>3. /\ IsBlock(Xor(o[Len(s) \div B], LStar(k))) /\ IsWide(OnePadded(Tail16(s)))
          /\ Of(Tail16(s), Plains) /\ Len(Tail16(s)) \in 0..(B - 1)
      BY <1>2, <1>4, <1>6, HashedTail
    <3>4. /\ IsWide(OnePadded(Tail16(t)))
          /\ Of(Tail16(t), Plains) /\ Len(Tail16(t)) \in 0..(B - 1)
      BY <1>3, <1>4, <1>6, HashedTail
    <3>5. IsString(l) /\ Len(l) = B
      BY <1>2, <3>1, <3>3 DEF IsBlock, Clean
    <3>6. PICK v : v = OnePadded(Tail16(s))
      OBVIOUS
    <3>7. PICK w : w = OnePadded(Tail16(t))
      OBVIOUS
    <3>8. IsWide(v) /\ IsWide(w) /\ Xor(v, l) = Xor(w, l)
      BY <3>2, <3>3, <3>4, <3>6, <3>7
    <3>9. Xor(Xor(v, l), l) = v /\ Xor(Xor(w, l), l) = w
      BY ONLY <3>5, <3>8, BlockLen, SumBack DEF IsWide
    <3>10. v = w
      BY <3>8, <3>9
    <3> QED
      BY <3>3, <3>4, <3>6, <3>7, <3>10, PaddedTells
  <2> QED
    BY <2>1, <2>2
<1>13. Cut(t, a, WholeBlocks(s), Tail16(s))
  BY <1>10, <1>11, <1>12
<1> QED
  BY <1>10, <1>13, CutTells

(* The block that is enciphered for the tag, and what its atoms are.       *)
TagBlock(k, last, pt) ==
  Xor(Xor(Checksum(WholeBlocks(pt), Tail16(pt)),
          IF Tail16(pt) = << >> THEN last ELSE Xor(last, LStar(k))),
      LDollar(k))

\* The block that the tag enciphers, atom by atom.
LEMMA TagBlockIs ==
  ASSUME NEW k, NEW last, IsWide(last), NEW pt, NEW q, NEW w, NEW r, Cut(pt, q, w, r)
  PROVE  /\ IsWide(TagBlock(k, last, pt)) /\ IsWide(SumOf(w)) /\ SumAtoms(w, q, SumOf(w))
         /\ \A j \in 1..B : \A a :
              a \in TagBlock(k, last, pt)[j] <=>
                ~ (~ (~ (~ (a \in SumOf(w)[j] <=> (r # << >> /\ a \in OnePadded(r)[j]))
                         <=> a \in last[j])
                      <=> (r # << >> /\ a \in LStar(k)[j]))
                   <=> a \in LDollar(k)[j])
<1>1. Wides(w, q) /\ w = WholeBlocks(pt) /\ r = Tail16(pt) /\ IsString(r) /\ Len(r) \in 0..(B - 1)
  BY DEF Wides, Cut
<1>2. IsWide(SumOf(w)) /\ SumAtoms(w, q, SumOf(w))
  BY <1>1, InSumOf
<1>3. IsWide(OnePadded(r))
  BY <1>1, OnePaddedIs
<1>4. IsWide(LStar(k)) /\ IsWide(LDollar(k))
  BY LStarIs, LDollarIs, BlockWide DEF IsDouble
<1>5. PICK s : s = SumOf(w)
  OBVIOUS
<1>6. PICK c : c = Checksum(w, r)
  OBVIOUS
<1>7. PICK l : l = IF r = << >> THEN last ELSE Xor(last, LStar(k))
  OBVIOUS
<1>8. TagBlock(k, last, pt) = Xor(Xor(c, l), LDollar(k))
  BY <1>1, <1>6, <1>7 DEF TagBlock
<1>9. /\ IsWide(c)
      /\ \A j \in 1..B : \A a :
           a \in c[j] <=> ~ (a \in s[j] <=> (r # << >> /\ a \in OnePadded(r)[j]))
  <2>1. CASE r = << >>
    <3>1. c = s
      BY <1>5, <1>6, <2>1 DEF Checksum
    <3> QED
      BY <1>2, <1>5, <2>1, <3>1
  <2>2. CASE r # << >>
    <3>1. c = Xor(s, OnePadded(r))
      BY <1>5, <1>6, <2>2 DEF Checksum
    <3>2. IsWide(s)
      BY <1>2, <1>5
    <3>3. /\ IsWide(Xor(s, OnePadded(r)))
          /\ \A j \in 1..B : \A a : a \in Xor(s, OnePadded(r))[j] <=>
                                      ~ (a \in s[j] <=> a \in OnePadded(r)[j])
      BY <1>3, <3>2, WideSum
    <3> QED
      BY <2>2, <3>1, <3>3
  <2> QED
    BY <2>1, <2>2
<1>10. /\ IsWide(l)
       /\ \A j \in 1..B : \A a :
            a \in l[j] <=> ~ (a \in last[j] <=> (r # << >> /\ a \in LStar(k)[j]))
  <2>1. CASE r = << >>
    BY <1>7, <2>1
  <2>2. CASE r # << >>
    <3>1. l = Xor(last, LStar(k))
      BY <1>7, <2>2
    <3>2. /\ IsWide(Xor(last, LStar(k)))
          /\ \A j \in 1..B : \A a : a \in Xor(last, LStar(k))[j] <=>
                                      ~ (a \in last[j] <=> a \in LStar(k)[j])
      BY <1>4, WideSum
    <3> QED
      BY <2>2, <3>1, <3>2
  <2> QED
    BY <2>1, <2>2
<1>11. /\ IsWide(Xor(c, l))
       /\ \A j \in 1..B : \A a : a \in Xor(c, l)[j] <=> ~ (a \in c[j] <=> a \in l[j])
  BY <1>9, <1>10, WideSum
<1>12. PICK y : y = Xor(c, l)
  OBVIOUS
<1>13. PICK d : d = LDollar(k)
  OBVIOUS
<1>14. /\ IsWide(Xor(y, d))
       /\ \A j \in 1..B : \A a : a \in Xor(y, d)[j] <=> ~ (a \in y[j] <=> a \in d[j])
  BY <1>4, <1>11, <1>12, <1>13, WideSum
<1>15. PICK t : t = TagBlock(k, last, pt)
  OBVIOUS
<1>16. t = Xor(y, d)
  BY <1>8, <1>12, <1>13, <1>15
<1>17. ASSUME NEW j \in 1..B, NEW a
       PROVE  a \in t[j] <=>
                ~ (~ (~ (~ (a \in s[j] <=> (r # << >> /\ a \in OnePadded(r)[j]))
                         <=> a \in last[j])
                      <=> (r # << >> /\ a \in LStar(k)[j]))
                   <=> a \in d[j])
  <2>1. a \in t[j] <=> ~ (a \in y[j] <=> a \in d[j])
    BY <1>14, <1>16
  <2>2. a \in y[j] <=> ~ (a \in c[j] <=> a \in l[j])
    BY <1>11, <1>12
  <2>3. a \in c[j] <=> ~ (a \in s[j] <=> (r # << >> /\ a \in OnePadded(r)[j]))
    BY <1>9
  <2>4. a \in l[j] <=> ~ (a \in last[j] <=> (r # << >> /\ a \in LStar(k)[j]))
    BY <1>10
  <2> QED
    BY <2>1, <2>2, <2>3, <2>4
<1> QED
  BY <1>2, <1>5, <1>13, <1>14, <1>15, <1>16, <1>17

\* The block of a tag has a byte of the first double, so nobody deciphered it.
Signed(k, last, pt) ==
  IsWide(TagBlock(k, last, pt)) /\ Dbl(k, 1, 1, 1) \in TagBlock(k, last, pt)[1]

\* A block with the first double is not one of the hash's.
LEMMA NotHashed ==
  ASSUME NEW k, NEW u, IsWide(u), Dbl(k, 1, 1, 1) \in u[1], NEW aad, Of(aad, Plains)
  PROVE  IsWide(OcbHash(k, aad)) /\ Made(k, u, 1) \notin OcbHash(k, aad)[1]
<1>7. Len(aad) \in Nat
  BY StringProperties DEF Of
<1>8. PICK n \in Nat : n = Len(aad) \div B
  BY <1>7, Quotient
<1>9. PICK o : o = Offsets(k, ZeroBlock, n)
  OBVIOUS
<1>10. ZeroOffsets(o, k, n) /\ Len(aad) \div B <= n
  BY <1>8, <1>9, ZeroIsBlock, OffsetsAre DEF ZeroOffsets
<1>11. /\ IsWide(OcbHash(k, aad))
       /\ \A a : a \in OcbHash(k, aad)[1] <=> \E x : OcbHashed(k, aad, o, x) /\ a = Made(k, x, 1)
  BY <1>10, HashIs
<1>12. Made(k, u, 1) \notin OcbHash(k, aad)[1]
  <2>1. SUFFICES ASSUME NEW x, OcbHashed(k, aad, o, x), Made(k, u, 1) = Made(k, x, 1) PROVE FALSE
    BY <1>11
  <2>2. IsBlock(x) /\ Dbl(k, 1, 1, 1) \notin x[1]
    BY <1>10, <2>1, HashedBlock
  <2>3. IsString(x) /\ IsString(u)
    BY <2>2 DEF IsBlock, Clean, IsWide
  <2>4. x = u
    BY <2>1, <2>3, MadeTells
  <2> QED
    BY <2>2, <2>4
<1> QED
  BY <1>11, <1>12

\* The tag is the enciphered tag block and the hash of the aad.
LEMMA TagIs ==
  ASSUME NEW k, NEW last, NEW pt, Signed(k, last, pt), NEW aad, Of(aad, Plains)
  PROVE  /\ IsWide(OcbTag(k, last, aad, pt))
         /\ \A a : a \in OcbTag(k, last, aad, pt)[1] <=>
              ~ (a = Made(k, TagBlock(k, last, pt), 1) <=> a \in OcbHash(k, aad)[1])
<1>1. PICK u : u = TagBlock(k, last, pt)
  OBVIOUS
<1>2. IsWide(u) /\ Dbl(k, 1, 1, 1) \in u[1] /\ 1 \in 1..B
  BY <1>1, BlockLen DEF Signed
<1>3. Dbl(k, 1, 1, 1)[1] # "D"
  BY NotMultiples
<1>4. IsWide(E(k, u)) /\ \A i \in 1..B : E(k, u)[i] = {Made(k, u, i)}
  BY <1>2, <1>3, WideEnciphered
<1>5. PICK h : h = OcbHash(k, aad)
  OBVIOUS
<1>6. OcbTag(k, last, aad, pt) = Xor(E(k, u), h)
  BY <1>1, <1>5 DEF OcbTag, TagBlock
<1>7. IsWide(h)
  BY <1>2, <1>5, NotHashed
<1>8. /\ IsWide(Xor(E(k, u), h))
      /\ \A i \in 1..B : \A a : a \in Xor(E(k, u), h)[i] <=> ~ (a \in E(k, u)[i] <=> a \in h[i])
  BY <1>4, <1>7, WideSum
<1>9. \A a : a \in OcbTag(k, last, aad, pt)[1] <=> ~ (a = Made(k, u, 1) <=> a \in h[1])
  BY <1>2, <1>4, <1>6, <1>8
<1> QED
  BY <1>1, <1>5, <1>6, <1>8, <1>9

\* A tag tells the block it was made of, and the aad.
LEMMA TagTells ==
  ASSUME NEW k, NEW last, NEW pt, Signed(k, last, pt), NEW aad, Of(aad, Plains),
         NEW last2, NEW pt2, Signed(k, last2, pt2), NEW aad2, Of(aad2, Plains)
  PROVE  OcbTag(k, last, aad, pt) = OcbTag(k, last2, aad2, pt2) =>
           TagBlock(k, last, pt) = TagBlock(k, last2, pt2) /\ aad = aad2
<1>1. PICK u : u = TagBlock(k, last, pt)
  OBVIOUS
<1>2. PICK v : v = TagBlock(k, last2, pt2)
  OBVIOUS
<1>3. PICK t : t = OcbTag(k, last, aad, pt)
  OBVIOUS
<1>4. \A a : a \in t[1] <=> ~ (a = Made(k, u, 1) <=> a \in OcbHash(k, aad)[1])
  BY <1>1, <1>3, TagIs
<1>5. PICK s : s = OcbTag(k, last2, aad2, pt2)
  OBVIOUS
<1>6. \A a : a \in s[1] <=> ~ (a = Made(k, v, 1) <=> a \in OcbHash(k, aad2)[1])
  BY <1>2, <1>5, TagIs
<1>7. IsWide(u) /\ IsWide(v) /\ Dbl(k, 1, 1, 1) \in u[1] /\ Dbl(k, 1, 1, 1) \in v[1]
  BY <1>1, <1>2 DEF Signed
<1>8. Made(k, u, 1) \notin OcbHash(k, aad)[1] /\ Made(k, u, 1) \notin OcbHash(k, aad2)[1]
  BY <1>7, NotHashed
<1>9. HAVE OcbTag(k, last, aad, pt) = OcbTag(k, last2, aad2, pt2)
<1>10. t = s
  BY <1>3, <1>5, <1>9
<1>11. Made(k, u, 1) = Made(k, v, 1)
  BY <1>4, <1>6, <1>8, <1>10
<1>12. u = v
  BY <1>7, <1>11, MadeTells DEF IsWide
<1>13. \A a : a \in OcbHash(k, aad)[1] <=> a \in OcbHash(k, aad2)[1]
  BY <1>4, <1>6, <1>10, <1>12
<1>14. OcbHash(k, aad)[1] = OcbHash(k, aad2)[1]
  BY <1>13
<1>15. aad = aad2
  BY <1>14, HashTells
<1> QED
  BY <1>1, <1>2, <1>12, <1>15

(* The offsets of a nonce.                                                 *)
NonceOffsets(o, k, n, N) ==
  IsOcbNonce(n) /\ N \in Nat /\ OffsetsFrom(o, k, OcbOffset0(k, n), N)

\* The offsets of a message are those of its nonce.
LEMMA NonceOffsetsAre ==
  ASSUME NEW k, NEW n, IsOcbNonce(n), NEW N \in Nat
  PROVE  NonceOffsets(Offsets(k, OcbOffset0(k, n), N), k, n, N)
BY Offset0Is, OffsetsAre DEF NonceOffsets

\* An atom of an offset is of the nonce or a double of L_*.
LEMMA OffsetAtom ==
  ASSUME NEW o, NEW k, NEW n, NEW N, NonceOffsets(o, k, n, N), NEW l \in 0..N,
         NEW j \in 1..B, NEW a \in o[l][j]
  PROVE  OfNonce(k, a) \/ \E m \in Nat : \E h, i \in 1..B : a = Dbl(k, m + 2, h, i)
<1>1. CASE NoMultiple(k, a)
  <2>1. a \in OcbOffset0(k, n)[j]
    BY <1>1, OffsetsKeep DEF NonceOffsets
  <2> QED
    BY <2>1, FirstOffsetIs DEF NonceOffsets
<1>2. CASE ~ NoMultiple(k, a)
  BY <1>2 DEF NoMultiple
<1> QED
  BY <1>1, <1>2

\* x is zero or has an atom of the cipher in its first byte.
Deep(x) == IsString(x) /\ (x = ZeroBlock \/ \E b \in x[1] : b[1] \in {"E", "lin"})

\* It is neither the first double nor made from a block with cipher atoms.
LEMMA OffsetAtomIs ==
  ASSUME NEW o, NEW k, NEW n, NEW N, NonceOffsets(o, k, n, N), NEW l \in 0..N
  PROVE  /\ IsBlock(o[l])
         /\ \A j \in 1..B : \A a \in o[l][j] :
              a[1] \in {"E", "lin"} /\ a # Dbl(k, 1, 1, 1) /\ \A x, i : Deep(x) => a # Made(k, x, i)
<1>1. ASSUME NEW j \in 1..B, NEW a \in o[l][j]
      PROVE  a[1] \in {"E", "lin"} /\ a # Dbl(k, 1, 1, 1) /\ \A x, i : Deep(x) => a # Made(k, x, i)
  <2>1. CASE OfNonce(k, a)
    BY <2>1 DEF OfNonce, Deep
  <2>2. CASE \E m \in Nat : \E h, i \in 1..B : a = Dbl(k, m + 2, h, i)
    <3>1. PICK m \in Nat, h \in 1..B, i \in 1..B : a = Dbl(k, m + 2, h, i)
      BY <2>2
    <3>2. a[1] = "lin"
      BY <3>1 DEF Dbl
    <3>3. Dbl(k, 1, 1, 1) # Dbl(k, m + 2, h, i)
      BY NotMultiples DEF NoMultiple
    <3>4. \A x, f : Made(k, x, f)[1] = "E"
      BY DEF Made
    <3> QED
      BY <3>1, <3>2, <3>3, <3>4
  <2> QED
    BY <1>1, <2>1, <2>2, OffsetAtom
<1> QED
  BY <1>1 DEF NonceOffsets, OffsetsFrom

\* Every offset shows its own nonce's mark and no other's.
LEMMA OffsetMark ==
  ASSUME NEW o, NEW k, NEW n, NEW N, NonceOffsets(o, k, n, N), NEW l \in 0..N
  PROVE  /\ Mark(k, n) \in o[l][1]
         /\ \A m : IsOcbNonce(m) /\ m # n => Mark(k, m) \notin o[l][1]
<1>1. 1 \in 1..B /\ IsOcbNonce(n)
  BY BlockLen DEF NonceOffsets
<1>2. ASSUME NEW m, IsOcbNonce(m)
      PROVE  Mark(k, m) \in o[l][1] <=> Mark(k, m) \in OcbOffset0(k, n)[1]
  <2>1. Mark(k, m) \in OcbOffset0(k, m)[1]
    BY <1>2, MarkIn
  <2>2. NoMultiple(k, Mark(k, m))
    BY <1>1, <1>2, <2>1, FirstOffsetIs DEF OfNonce
  <2> QED
    BY <1>1, <2>2, OffsetsKeep DEF NonceOffsets
<1>3. Mark(k, n) \in o[l][1]
  BY <1>1, <1>2, MarkIn
<1>4. ASSUME NEW m, IsOcbNonce(m), m # n PROVE Mark(k, m) \notin o[l][1]
  BY <1>1, <1>2, <1>4, MarkTells
<1> QED
  BY <1>3, <1>4

\* What a mark is, whoever's nonce it is of.
LEMMA MarkIs ==
  ASSUME NEW k, NEW n, IsOcbNonce(n)
  PROVE  /\ Mark(k, n)[1] \in {"E", "lin"} /\ Mark(k, n) # Dbl(k, 1, 1, 1)
         /\ \A i, j : Mark(k, n) # Dbl(k, 1, i, j)
         /\ \A x, i : Deep(x) => Mark(k, n) # Made(k, x, i)
<1>1. Mark(k, n) \in OcbOffset0(k, n)[1] /\ 1 \in 1..B
  BY MarkIn, BlockLen
<1>2. OfNonce(k, Mark(k, n))
  BY <1>1, FirstOffsetIs
<1> QED
  BY <1>2 DEF OfNonce, Deep

-----------------------------------------------------------------------------
(* Strings without the bits of numbers and without the first double: such  *)
(* are texts and what the cipher makes of blocks.                          *)
Quiet(k, s) ==
  IsString(s) /\ \A i \in 1..Len(s) : \A a \in s[i] : a[1] # "bit" /\ a # Dbl(k, 1, 1, 1)

\* The sum of quiet strings is quiet.
LEMMA QuietSum ==
  ASSUME NEW k, NEW x, NEW y, Quiet(k, x), Quiet(k, y), Len(x) <= Len(y)
  PROVE  Quiet(k, Xor(x, y)) /\ Len(Xor(x, y)) = Len(x)
<1>1. /\ IsString(Xor(x, y)) /\ Len(Xor(x, y)) = Len(x)
      /\ \A i \in 1..Len(x) : Xor(x, y)[i] = SymDiff(x[i], y[i])
  BY SumIs DEF Quiet
<1>2. Len(x) \in Nat /\ Len(y) \in Nat
  BY StringProperties DEF Quiet
<1>3. ASSUME NEW i \in 1..Len(x), NEW a \in Xor(x, y)[i] PROVE a[1] # "bit" /\ a # Dbl(k, 1, 1, 1)
  <2>1. i \in 1..Len(y) /\ (a \in x[i] \/ a \in y[i])
    BY <1>1, <1>2, <1>3 DEF SymDiff
  <2> QED
    BY <2>1 DEF Quiet
<1> QED
  BY <1>1, <1>3 DEF Quiet

\* A string without multiples is quiet.
LEMMA QuietOf ==
  ASSUME NEW k, NEW s, Of(s, {"p", "x", "E", "D"})
  PROVE  Quiet(k, s)
<1>1. Dbl(k, 1, 1, 1)[1] = "lin"
  BY NotMultiples
<1> QED
  BY <1>1 DEF Of, Quiet

\* Offsets are quiet.
LEMMA QuietOffset ==
  ASSUME NEW o, NEW k, NEW n, NEW N, NonceOffsets(o, k, n, N), NEW l \in 0..N
  PROVE  Quiet(k, o[l]) /\ Len(o[l]) = B
<1>1. /\ IsString(o[l]) /\ Len(o[l]) = B
      /\ \A j \in 1..B : \A a \in o[l][j] : a[1] \in {"E", "lin"} /\ a # Dbl(k, 1, 1, 1)
  BY OffsetAtomIs DEF IsBlock, Clean
<1> QED
  BY <1>1 DEF Quiet

\* What the cipher makes is quiet.
LEMMA QuietEnciphered ==
  ASSUME NEW k, NEW x, IsBlock(x)
  PROVE  /\ IsBlock(E(k, x)) /\ Quiet(k, E(k, x)) /\ Len(E(k, x)) = B
         /\ \A j \in 1..B : E(k, x)[j] = {Made(k, x, j)}
<1>1. IsBlock(E(k, x)) /\ \A j \in 1..B : E(k, x)[j] = {Made(k, x, j)}
  BY BlockLen, BlockEnciphered, EncipheredIs DEF IsBlock
<1>2. Of(E(k, x), {"p", "x", "E", "D"})
  BY <1>1 DEF Of, IsBlock, Clean, Made
<1> QED
  BY <1>1, <1>2, QuietOf DEF IsBlock

\* And so is what deciphering makes.
LEMMA QuietDeciphered ==
  ASSUME NEW k, NEW x,
         IsWide(D(k, x)), \A j \in 1..B : D(k, x)[j] = {<< "D", k, Pack(x), j >>}
  PROVE  Quiet(k, D(k, x))
<1>1. Of(D(k, x), {"p", "x", "E", "D"})
  BY DEF Of, IsWide
<1> QED
  BY <1>1, QuietOf

LEMMA QuietPadded ==
  ASSUME NEW k, NEW s, Quiet(k, s), Len(s) \in 0..(B - 1), NEW j \in 1..B, NEW a \in OnePadded(s)[j]
  PROVE  /\ a # Dbl(k, 1, 1, 1)
         /\ a[1] = "bit" => j = Len(s) + 1 /\ a \in Num(Radix \div 2)
<1>1. PICK n \in 0..(B - 1) : n = Len(s)
  OBVIOUS
<1>2. PICK v : v = Num(Radix \div 2)
  OBVIOUS
<1>3. OnePadded(s)[j] = IF j <= n THEN s[j] ELSE IF j = n + 1 THEN v ELSE {}
  BY <1>1, <1>2, OnePaddedIs DEF Quiet
<1>4. \A b \in v : b[1] = "bit"
  BY <1>2 DEF Num
<1>5. Dbl(k, 1, 1, 1)[1] # "bit"
  BY NotMultiples
<1>6. CASE j <= n
  <2>1. a \in s[j] /\ j \in 1..Len(s)
    BY <1>1, <1>3, <1>6
  <2> QED
    BY <2>1 DEF Quiet
<1>7. CASE j = n + 1 /\ ~ (j <= n)
  <2>1. a \in v
    BY <1>3, <1>7
  <2> QED
    BY <1>1, <1>2, <1>4, <1>5, <1>7, <2>1
<1>8. j <= n \/ (j = n + 1 /\ ~ (j <= n))
  <2>1. OnePadded(s)[j] # {}
    OBVIOUS
  <2> QED
    BY <1>1, <1>3, <2>1
<1> QED
  BY <1>6, <1>7, <1>8

\* The padding bit is behind the rest.
LEMMA PaddedBit ==
  ASSUME NEW s, IsString(s), Len(s) \in 0..(B - 1), NEW a \in Num(Radix \div 2)
  PROVE  Len(s) + 1 \in 1..B /\ a \in OnePadded(s)[Len(s) + 1]
<1>1. PICK n \in 0..(B - 1) : n = Len(s)
  OBVIOUS
<1>2. PICK i \in 1..B : i = n + 1 /\ ~ (i <= n)
  BY BlockLen
<1>3. OnePadded(s)[i] = IF i <= Len(s) THEN s[i]
                        ELSE IF i = Len(s) + 1 THEN Num(Radix \div 2) ELSE {}
  BY OnePaddedIs
<1>4. OnePadded(s)[i] = Num(Radix \div 2)
  BY <1>1, <1>2, <1>3
<1> QED
  BY <1>1, <1>2, <1>4

\* The block of the tag of a quiet text: it is signed, and where it is padded,
\* if it is, tells the length of the rest.
LEMMA SignedQuiet ==
  ASSUME NEW k, NEW last, IsWide(last), Quiet(k, last), NEW pt, NEW q, NEW w, NEW r,
         Cut(pt, q, w, r), \A i \in 1..q : Quiet(k, w[i]), Quiet(k, r)
  PROVE  /\ Signed(k, last, pt)
         /\ \A a \in Num(Radix \div 2) : \A j \in 1..B :
              a \in TagBlock(k, last, pt)[j] <=> r # << >> /\ j = Len(r) + 1
<1> DEFINE d == Dbl(k, 1, 1, 1)
<1>1. PICK t : t = TagBlock(k, last, pt)
  OBVIOUS
<1>2. PICK s : s = SumOf(w)
  OBVIOUS
<1>3. IsWide(t) /\ SumAtoms(w, q, s)
  BY <1>1, <1>2, TagBlockIs
<1>4. ASSUME NEW j \in 1..B, NEW a
      PROVE  a \in t[j] <=>
                ~ (~ (~ (~ (a \in s[j] <=> (r # << >> /\ a \in OnePadded(r)[j]))
                         <=> a \in last[j])
                      <=> (r # << >> /\ a \in LStar(k)[j]))
                   <=> a \in LDollar(k)[j])
  BY <1>1, <1>2, TagBlockIs
<1>5. /\ q \in Nat /\ IsString(r) /\ Len(r) \in 0..(B - 1)
      /\ \A i \in 1..q : IsString(w[i]) /\ Len(w[i]) = B
  BY DEF Cut, IsWide
<1>6. ASSUME NEW a, a = d \/ a[1] = "bit", NEW j \in 1..B
      PROVE  a \notin s[j] /\ a \notin last[j]
  <2>1. \A i \in 1..q : a \notin w[i][j]
    BY <1>5, <1>6 DEF Quiet
  <2>2. PICK b \in 0..q : b = 0
    BY <1>5
  <2>3. \A i \in 1..q : a \in w[i][j] <=> i = b
    BY <2>1, <2>2
  <2>4. a \notin s[j]
    BY <1>3, <2>2, <2>3 DEF SumAtoms
  <2>5. a \notin last[j]
    BY <1>6 DEF Quiet, IsWide
  <2> QED
    BY <2>4, <2>5
<1>7. \A j \in 1..B : /\ LStar(k)[j] = {Made(k, ZeroBlock, j)}
                      /\ LDollar(k)[j] = {Dbl(k, 1, i, j) : i \in 1..B}
  BY LStarIs, LDollarIs DEF IsDouble
<1>8. ASSUME NEW j \in 1..B, NEW a, a = d \/ a[1] = "bit" PROVE a \notin LStar(k)[j]
  <2>1. Made(k, ZeroBlock, j)[1] = "E" /\ d[1] = "lin"
    BY DEF Made, Dbl
  <2> QED
    BY <1>7, <1>8, <2>1
<1>9. d \in t[1]
  <2>1. 1 \in 1..B
    BY BlockLen
  <2>2. d \notin s[1] /\ d \notin last[1] /\ d \notin LStar(k)[1]
    BY <1>6, <1>8, <2>1
  <2>3. d \notin OnePadded(r)[1]
    BY <1>5, <2>1, QuietPadded
  <2>4. d \in LDollar(k)[1]
    BY <1>7, <2>1
  <2> QED
    BY <1>4, <2>1, <2>2, <2>3, <2>4
<1>10. ASSUME NEW a \in Num(Radix \div 2), NEW j \in 1..B
       PROVE  a \in t[j] <=> r # << >> /\ j = Len(r) + 1
  <2>1. a[1] = "bit"
    BY DEF Num
  <2>2. a \notin s[j] /\ a \notin last[j] /\ a \notin LStar(k)[j]
    BY <1>6, <1>8, <2>1
  <2>3. a \notin LDollar(k)[j]
    <3>1. \A i : Dbl(k, 1, i, j)[1] = "lin"
      BY DEF Dbl
    <3> QED
      BY <1>7, <2>1, <3>1
  <2>4. a \in OnePadded(r)[j] <=> j = Len(r) + 1
    BY <1>5, <2>1, QuietPadded, PaddedBit
  <2> QED
    BY <1>4, <2>2, <2>3, <2>4
<1> QED
  BY <1>1, <1>3, <1>9, <1>10 DEF Signed

(* The text that opening gives, and the envelope that sealing gives, in    *)
(* whole blocks and a rest.                                                *)
Pad16(k, o) == E(k, Xor(o, LStar(k)))
OpenedBlock(k, c, o) == Xor(D(k, Xor(c, o)), o)
SealedBlock(k, p, o) == Xor(E(k, Xor(p, o)), o)
RestOf(k, s, o) == IF s = << >> THEN << >> ELSE Xor(s, Pad16(k, o))

OpensAs(k, n, c, last, q, v, t) ==
  \E pt : /\ Cut(pt, q, v, t)
          /\ \A aad, tag : DecryptOcb(k, n, aad, c, tag) =
                             OpenedIf(OcbTag(k, last, aad, pt) = tag, pt, "InvalidTag")
SealsAs(k, n, aad, p, last, q, w, r) ==
  \E ct : Cut(ct, q, w, r) /\ EncryptOcb(k, n, aad, p) = Sealed(ct, OcbTag(k, last, aad, p))

\* The rest's mask is the enciphered offset.
LEMMA Pad16Is ==
  ASSUME NEW k, NEW o, IsBlock(o)
  PROVE  /\ IsBlock(Xor(o, LStar(k))) /\ IsBlock(Pad16(k, o)) /\ Quiet(k, Pad16(k, o))
         /\ Len(Pad16(k, o)) = B
         /\ \A j \in 1..B : Pad16(k, o)[j] = {Made(k, Xor(o, LStar(k)), j)}
<1>1. IsBlock(Xor(o, LStar(k)))
  BY LStarIs, BlockSum
<1> QED
  BY <1>1, QuietEnciphered DEF Pad16

\* Masking keeps the length of the rest.
LEMMA RestLong ==
  ASSUME NEW k, NEW o, IsBlock(o), NEW s, IsString(s), Len(s) \in 0..(B - 1)
  PROVE  IsString(RestOf(k, s, o)) /\ Len(RestOf(k, s, o)) = Len(s)
<1>1. CASE s = << >>
  BY <1>1 DEF RestOf
<1>2. CASE s # << >>
  <2>1. RestOf(k, s, o) = Xor(s, Pad16(k, o))
    BY <1>2 DEF RestOf
  <2>2. /\ IsString(Pad16(k, o)) /\ Len(Pad16(k, o)) = B
    BY Pad16Is DEF IsBlock, Clean
  <2>3. Len(s) <= Len(Pad16(k, o))
    BY <2>2, BlockLen
  <2>4. PICK m : m = Pad16(k, o)
    OBVIOUS
  <2>5. IsString(Xor(s, m)) /\ Len(Xor(s, m)) = Len(s)
    BY <2>2, <2>3, <2>4, SumIs
  <2> QED
    BY <2>1, <2>4, <2>5
<1> QED
  BY <1>1, <1>2

\* Masking adds the mask to every byte.
LEMMA RestIs ==
  ASSUME NEW k, NEW o, IsBlock(o), NEW s, IsString(s), Len(s) \in 0..(B - 1)
  PROVE  /\ (s = << >> <=> RestOf(k, s, o) = << >>)
         /\ \A j \in 1..Len(s) : RestOf(k, s, o)[j] = SymDiff(s[j], {Made(k, Xor(o, LStar(k)), j)})
         /\ (Quiet(k, s) => Quiet(k, RestOf(k, s, o)))
<1>1. /\ IsString(Pad16(k, o)) /\ Len(Pad16(k, o)) = B /\ Quiet(k, Pad16(k, o))
      /\ \A j \in 1..B : Pad16(k, o)[j] = {Made(k, Xor(o, LStar(k)), j)}
  BY Pad16Is DEF IsBlock, Clean
<1>2. CASE s = << >>
  <2>1. RestOf(k, s, o) = s /\ Len(s) = 0
    BY <1>2 DEF RestOf
  <2> QED
    BY <1>2, <2>1
<1>3. CASE s # << >>
  <2>1. RestOf(k, s, o) = Xor(s, Pad16(k, o))
    BY <1>3 DEF RestOf
  <2>2. Len(s) <= Len(Pad16(k, o)) /\ Len(s) \in Nat
    BY <1>1, BlockLen
  <2>3. PICK m : m = Pad16(k, o)
    OBVIOUS
  <2>4. /\ IsString(Xor(s, m)) /\ Len(Xor(s, m)) = Len(s)
        /\ \A j \in 1..Len(s) : Xor(s, m)[j] = SymDiff(s[j], m[j])
    BY <1>1, <2>2, <2>3, SumIs
  <2>5. Quiet(k, s) => Quiet(k, Xor(s, m))
    BY <1>1, <2>2, <2>3, QuietSum
  <2>6. Len(s) # 0
    BY <1>3, EmptyIs
  <2>7. \A j \in 1..Len(s) : j \in 1..B
    BY BlockLen
  <2>8. \A j \in 1..Len(s) : Xor(s, m)[j] = SymDiff(s[j], {Made(k, Xor(o, LStar(k)), j)})
    BY <1>1, <2>3, <2>4, <2>7
  <2>9. Xor(s, m) # << >>
    BY <2>4, <2>6, EmptyIs
  <2> QED
    BY <1>3, <2>1, <2>3, <2>4, <2>5, <2>8, <2>9
<1> QED
  BY <1>2, <1>3

\* What decryption makes of a ciphertext cut into blocks.
LEMMA OpensTo ==
  ASSUME NEW o, NEW k, NEW n, NEW N, NonceOffsets(o, k, n, N),
         NEW ct, NEW q \in 0..N, NEW w, NEW r, Cut(ct, q, w, r),
         \A i \in 1..q : IsWide(OpenedBlock(k, w[i], o[i]))
  PROVE  OpensAs(k, n, ct, o[q], q, [i \in 1..q |-> OpenedBlock(k, w[i], o[i])],
                 RestOf(k, r, o[q]))
<1> DEFINE v == [i \in 1..q |-> OpenedBlock(k, w[i], o[i])]
           t == RestOf(k, r, o[q])
           pt == FlattenSeq(v) \o t
           c == [out |-> pt, last |-> o[q]]
<1>1. /\ q \in Nat /\ w = WholeBlocks(ct) /\ Len(w) = q /\ r = Tail16(ct) /\ IsString(r)
      /\ Len(r) \in 0..(B - 1) /\ q = Len(ct) \div B
  BY DEF Cut
<1>2. IsBlock(o[q])
  BY OffsetAtomIs
<1>3. IsString(t) /\ Len(t) \in 0..(B - 1)
  <2>1. IsString(r) /\ Len(r) \in 0..(B - 1)
    BY <1>1
  <2>2. PICK b : b = o[q]
    OBVIOUS
  <2>3. IsString(RestOf(k, r, b)) /\ Len(RestOf(k, r, b)) = Len(r)
    <3> HIDE DEF v, t, pt, c
    <3>1. IsBlock(b) /\ IsString(r) /\ Len(r) \in 0..(B - 1)
      BY <1>2, <2>1, <2>2
    <3> QED
      BY ONLY <3>1, RestLong
  <2> QED
    BY <2>1, <2>2, <2>3
<1>4. v = [i \in 1..q |-> v[i]] /\ \A i \in 1..q : IsWide(v[i])
  OBVIOUS
<1> HIDE DEF v, t
<1>5. Cut(pt, q, v, t)
  BY <1>1, <1>3, <1>4, CutJoined
<1>6. PICK p : p = Offsets(k, OcbOffset0(k, n), q)
  OBVIOUS
<1>7. OffsetsFrom(p, k, OcbOffset0(k, n), q)
  BY <1>1, <1>6, Offset0Is, OffsetsAre DEF NonceOffsets
<1>8. \A l \in 0..q : o[l] = p[l]
  BY <1>1, <1>7, OffsetsAgree DEF NonceOffsets
<1>9. OcbCrypt(D, k, n, ct) = c
  <2>1. OcbCrypt(D, k, n, ct) =
          [out |-> FlattenSeq([i \in 1..q |-> Xor(D(k, Xor(w[i], p[i])), p[i])])
                     \o (IF r = << >> THEN << >> ELSE Xor(r, E(k, Xor(p[q], LStar(k))))),
           last |-> p[q]]
    BY <1>1, <1>6 DEF OcbCrypt, OcbBlocks
  <2>2. [i \in 1..q |-> Xor(D(k, Xor(w[i], p[i])), p[i])] = v
    BY <1>1, <1>8 DEF v, OpenedBlock
  <2>3. p[q] = o[q]
    BY <1>1, <1>8
  <2>4. (IF r = << >> THEN << >> ELSE Xor(r, E(k, Xor(p[q], LStar(k))))) = t
    BY <2>3, SMTT(30) DEF t, RestOf, Pad16
  <2> QED
    BY <2>1, <2>2, <2>3, <2>4
<1>10. ~ (Len(n) >= B)
  <2>1. Len(n) \in 0..(B - 1)
    BY LastIs DEF NonceOffsets
  <2> QED
    BY <2>1, BlockLen, SMTT(30)
<1> HIDE DEF pt
<1>11. ASSUME NEW aad, NEW tag
       PROVE  DecryptOcb(k, n, aad, ct, tag) =
                OpenedIf(OcbTag(k, o[q], aad, pt) = tag, pt, "InvalidTag")
  BY <1>9, <1>10 DEF DecryptOcb, OcbOpened
<1>12. \E u : /\ Cut(u, q, v, t)
              /\ \A aad, tag : DecryptOcb(k, n, aad, ct, tag) =
                                 OpenedIf(OcbTag(k, o[q], aad, u) = tag, u, "InvalidTag")
  BY <1>5, <1>11
<1> QED
  BY <1>12 DEF v, t, OpensAs

\* What encryption makes of a plaintext cut into blocks.
LEMMA SealsTo ==
  ASSUME NEW o, NEW k, NEW n, NEW N, NonceOffsets(o, k, n, N),
         NEW pt, Clean(pt), NEW q \in 0..N, NEW v, NEW t, Cut(pt, q, v, t), NEW aad,
         EncryptOcb(k, n, aad, pt).ok
  PROVE  SealsAs(k, n, aad, pt, o[q], q, [i \in 1..q |-> SealedBlock(k, v[i], o[i])],
                 RestOf(k, t, o[q]))
<1> DEFINE w == [i \in 1..q |-> SealedBlock(k, v[i], o[i])]
           r == RestOf(k, t, o[q])
           ct == FlattenSeq(w) \o r
           c == [out |-> ct, last |-> o[q]]
<1>1. /\ q \in Nat /\ v = WholeBlocks(pt) /\ Len(v) = q /\ t = Tail16(pt) /\ IsString(t)
      /\ Len(t) \in 0..(B - 1) /\ q = Len(pt) \div B
  BY DEF Cut
<1>2. \A l \in 0..q : IsBlock(o[l])
  BY <1>1, OffsetAtomIs DEF NonceOffsets
<1>3. IsString(r) /\ Len(r) \in 0..(B - 1)
  <2>1. IsString(t) /\ Len(t) \in 0..(B - 1) /\ IsBlock(o[q])
    BY <1>1, <1>2
  <2>2. PICK b : b = o[q]
    OBVIOUS
  <2>3. IsString(RestOf(k, t, b)) /\ Len(RestOf(k, t, b)) = Len(t)
    <3> HIDE DEF w, r, ct, c
    <3>1. IsBlock(b) /\ IsString(t) /\ Len(t) \in 0..(B - 1)
      BY <2>1, <2>2
    <3> QED
      BY ONLY <3>1, RestLong
  <2> QED
    BY <2>1, <2>2, <2>3
<1>4. w = [i \in 1..q |-> w[i]] /\ \A i \in 1..q : IsWide(w[i])
  <2>1. ASSUME NEW i \in 1..q PROVE IsWide(w[i])
    <3>1. IsBlock(v[i]) /\ IsBlock(o[i])
      BY <1>1, <1>2, CutClean
    <3>2. IsBlock(E(k, Xor(v[i], o[i])))
      BY <3>1, BlockSum, BlockEnciphered
    <3>3. IsBlock(SealedBlock(k, v[i], o[i]))
      BY <3>1, <3>2, BlockSum DEF SealedBlock
    <3> QED
      BY <3>3, BlockWide
  <2> QED
    BY <2>1
<1> HIDE DEF w, r
<1>5. Cut(ct, q, w, r)
  BY <1>1, <1>3, <1>4, CutJoined
<1>6. PICK p : p = Offsets(k, OcbOffset0(k, n), q)
  OBVIOUS
<1>7. OffsetsFrom(p, k, OcbOffset0(k, n), q)
  BY <1>1, <1>6, Offset0Is, OffsetsAre DEF NonceOffsets
<1>8. \A l \in 0..q : o[l] = p[l]
  BY <1>1, <1>7, OffsetsAgree DEF NonceOffsets
<1>9. OcbCrypt(E, k, n, pt) = c
  <2>1. OcbCrypt(E, k, n, pt) =
          [out |-> FlattenSeq([i \in 1..q |-> Xor(E(k, Xor(v[i], p[i])), p[i])])
                     \o (IF t = << >> THEN << >> ELSE Xor(t, E(k, Xor(p[q], LStar(k))))),
           last |-> p[q]]
    BY <1>1, <1>6 DEF OcbCrypt, OcbBlocks
  <2>2. [i \in 1..q |-> Xor(E(k, Xor(v[i], p[i])), p[i])] = w
    BY <1>1, <1>8 DEF w, SealedBlock
  <2>3. p[q] = o[q]
    BY <1>1, <1>8
  <2>4. (IF t = << >> THEN << >> ELSE Xor(t, E(k, Xor(p[q], LStar(k))))) = r
    BY <2>3 DEF r, RestOf, Pad16
  <2> QED
    BY <2>1, <2>2, <2>3, <2>4
<1>10. Len(n) \in 1..(B - 1)
  BY DEF EncryptOcb, Err
<1> HIDE DEF ct
<1>11. EncryptOcb(k, n, aad, pt) = Sealed(ct, OcbTag(k, o[q], aad, pt))
  BY <1>9, <1>10 DEF EncryptOcb, OcbSealed
<1>12. \E u : Cut(u, q, w, r) /\ EncryptOcb(k, n, aad, pt) = Sealed(u, OcbTag(k, o[q], aad, pt))
  BY <1>5, <1>11
<1> QED
  BY <1>12 DEF w, r, SealsAs

(* A sealed text: the plaintext p and the ciphertext c under the nonce n,  *)
(* each in q whole blocks and a rest, with the offsets o.                  *)
OcbText(k, c, n, p, N, o, q, v, t, w, r) ==
  /\ NonceOffsets(o, k, n, N) /\ q \in 0..N /\ q \in Nat /\ N \in Nat
  /\ Of(p, {"p"}) /\ Cut(p, q, v, t) /\ Cut(c, q, w, r)
  /\ w = [i \in 1..q |-> SealedBlock(k, v[i], o[i])] /\ r = RestOf(k, t, o[q])

\* A block as it is enciphered under an offset: it shows the nonce and the
\* place of the offset.
Stamped(k, n, x, o) ==
  /\ IsBlock(x) /\ Deep(x) /\ x # ZeroBlock /\ Mark(k, n) \in x[1]
  /\ Places(k, x) = Places(k, o)

\* The parts of a plaintext are plaintext.
LEMMA PartsBelow ==
  ASSUME NEW p, Of(p, {"p"}), NEW q, NEW v, NEW t, Cut(p, q, v, t)
  PROVE  /\ Of(t, {"p"}) /\ IsString(t) /\ Len(t) \in 0..(B - 1)
         /\ \A i \in 1..q : Of(v[i], {"p"}) /\ IsBlock(v[i])
<1>1. Of(t, {"p"}) /\ \A i \in 1..q : Of(v[i], {"p"})
  BY PartsOf
<1>2. IsString(t) /\ Len(t) \in 0..(B - 1) /\ \A i \in 1..q : IsWide(v[i])
  BY DEF Cut
<1>3. \A i \in 1..q : IsBlock(v[i])
  <2>1. ASSUME NEW i \in 1..q PROVE IsBlock(v[i])
    <3>1. \A j \in 1..B : \A a \in v[i][j] : a[1] # "D"
      BY <1>1, <1>2 DEF Of, IsWide
    <3> QED
      BY <1>2, <3>1, BlockWide
  <2> QED
    BY <2>1
<1> QED
  BY <1>1, <1>2, <1>3

\* A plaintext block under its offset shows the nonce's mark.
LEMMA StampedIs ==
  ASSUME NEW o, NEW k, NEW n, NEW N, NonceOffsets(o, k, n, N), NEW l \in 0..N,
         NEW v, Of(v, {"p"}), IsBlock(v)
  PROVE  Stamped(k, n, Xor(v, o[l]), o[l])
<1>1. IsBlock(o[l]) /\ Mark(k, n) \in o[l][1]
  BY OffsetAtomIs, OffsetMark
<1>2. Len(v) = B /\ Of(v, Knowns)
  <2>1. {"p"} \subseteq Knowns
    BY DEF Knowns
  <2> QED
    BY <2>1, OfMore DEF IsBlock
<1>3. Mark(k, n)[1] \in {"E", "lin"}
  BY MarkIs DEF NonceOffsets
<1>4. PICK d : d = o[l]
  OBVIOUS
<1>5. PICK x : x = Xor(v, o[l])
  OBVIOUS
<1>6. /\ IsBlock(Xor(v, d)) /\ Places(k, Xor(v, d)) = Places(k, d)
      /\ \A i \in 1..B : \A a : a[1] \notin Knowns => (a \in Xor(v, d)[i] <=> a \in d[i])
  BY <1>1, <1>2, <1>4, KnownSum
<1>7. Mark(k, n)[1] \notin Knowns /\ 1 \in 1..B
  BY <1>3, BlockLen DEF Knowns
<1>8. IsBlock(x) /\ Places(k, x) = Places(k, o[l]) /\ Mark(k, n) \in x[1]
  BY <1>1, <1>4, <1>5, <1>6, <1>7
<1>9. x # ZeroBlock
  BY <1>7, <1>8, ZeroIs
<1>10. IsString(x)
  BY <1>8 DEF IsBlock, Clean
<1>11. Deep(x)
  BY <1>3, <1>8, <1>10 DEF Deep
<1> QED
  BY <1>5, <1>8, <1>9, <1>11 DEF Stamped

\* A sealed block, and how it comes back.
LEMMA SealedBlockIs ==
  ASSUME NEW o, NEW k, NEW n, NEW N, NonceOffsets(o, k, n, N), NEW l \in 0..N,
         NEW v, Of(v, {"p"}), IsBlock(v)
  PROVE  LET w == SealedBlock(k, v, o[l])
             x == Xor(v, o[l])
         IN  /\ IsBlock(w) /\ Quiet(k, w) /\ OpenedBlock(k, w, o[l]) = v
             /\ \A j \in 1..B : Xor(w, o[l])[j] = {Made(k, x, j)}
             /\ \A j \in 1..B : w[j] = SymDiff({Made(k, x, j)}, o[l][j])
<1>1. PICK d : d = o[l]
  OBVIOUS
<1>2. PICK x : x = Xor(v, d)
  OBVIOUS
<1>3. PICK e : e = E(k, x)
  OBVIOUS
<1>4. PICK w : w = Xor(e, d)
  OBVIOUS
<1>5. IsBlock(d) /\ Quiet(k, d)
  BY <1>1, OffsetAtomIs, QuietOffset
<1>6. IsBlock(x)
  BY <1>2, <1>5, BlockSum
<1>7. IsBlock(e) /\ Quiet(k, e) /\ \A j \in 1..B : e[j] = {Made(k, x, j)}
  BY <1>3, <1>6, QuietEnciphered
<1>8. IsBlock(w) /\ Xor(w, d) = e
  BY <1>4, <1>5, <1>7, BlockSum
<1>9. Len(e) = B /\ Len(d) = B /\ Len(e) <= Len(d) /\ IsString(e) /\ IsString(d)
  BY <1>5, <1>7, BlockLen DEF IsBlock, Clean
<1>10. Quiet(k, w)
  BY <1>4, <1>5, <1>7, <1>9, QuietSum
<1>11. \A j \in 1..B : w[j] = SymDiff(e[j], d[j])
  BY <1>4, <1>9, SumIs
<1>12. Xor(D(k, Xor(w, d)), d) = v
  BY <1>2, <1>3, <1>4, <1>5, OcbBlockBack
<1>13. SealedBlock(k, v, d) = w /\ OpenedBlock(k, w, d) = v
  BY <1>2, <1>3, <1>4, <1>12 DEF SealedBlock, OpenedBlock
<1>14. /\ \A j \in 1..B : Xor(w, d)[j] = {Made(k, x, j)}
       /\ \A j \in 1..B : w[j] = SymDiff({Made(k, x, j)}, d[j])
  BY <1>7, <1>8, <1>11
<1> QED
  BY <1>1, <1>2, <1>8, <1>10, <1>13, <1>14

TextBlock(k, n, v, w, o) ==
  /\ Of(v, {"p"}) /\ IsBlock(v) /\ Quiet(k, v) /\ Stamped(k, n, Xor(v, o), o)
  /\ w = SealedBlock(k, v, o) /\ IsBlock(w) /\ Quiet(k, w) /\ OpenedBlock(k, w, o) = v
  /\ \A j \in 1..B : Xor(w, o)[j] = {Made(k, Xor(v, o), j)}
  /\ \A j \in 1..B : w[j] = SymDiff({Made(k, Xor(v, o), j)}, o[j])
TextRest(k, t, r, o) ==
  /\ Of(t, {"p"}) /\ IsString(t) /\ Len(t) \in 0..(B - 1) /\ Quiet(k, t)
  /\ IsString(r) /\ Len(r) = Len(t) /\ (r = << >> <=> t = << >>) /\ Quiet(k, r)
  /\ RestOf(k, r, o) = t
  /\ \A j \in 1..Len(t) : r[j] = SymDiff(t[j], {Made(k, Xor(o, LStar(k)), j)})

\* Every whole block of a text is sealed under its offset.
LEMMA TextBlockIs ==
  ASSUME NEW k, NEW c, NEW n, NEW p, NEW N, NEW o, NEW q, NEW v, NEW t, NEW w, NEW r,
         OcbText(k, c, n, p, N, o, q, v, t, w, r), NEW i \in 1..q
  PROVE  TextBlock(k, n, v[i], w[i], o[i])
<1>1. /\ NonceOffsets(o, k, n, N) /\ q \in 0..N /\ q \in Nat /\ N \in Nat /\ Of(p, {"p"})
      /\ Cut(p, q, v, t) /\ w[i] = SealedBlock(k, v[i], o[i])
  BY DEF OcbText
<1>2. Of(v[i], {"p"}) /\ IsBlock(v[i])
  BY <1>1, PartsBelow
<1>3. PICK x : x = v[i]
  OBVIOUS
<1>4. PICK y : y = w[i]
  OBVIOUS
<1>5. i \in 0..N
  BY <1>1
<1>6. Of(x, {"p"}) /\ IsBlock(x) /\ y = SealedBlock(k, x, o[i])
  BY <1>1, <1>2, <1>3, <1>4
<1>7. Quiet(k, x)
  <2>1. {"p"} \subseteq {"p", "x", "E", "D"}
    OBVIOUS
  <2>2. Of(x, {"p", "x", "E", "D"})
    BY <1>6, <2>1, OfMore
  <2> QED
    BY <2>2, QuietOf
<1>8. Stamped(k, n, Xor(x, o[i]), o[i])
  BY <1>1, <1>5, <1>6, StampedIs
<1>9. LET u == SealedBlock(k, x, o[i])
          z == Xor(x, o[i])
      IN  /\ IsBlock(u) /\ Quiet(k, u) /\ OpenedBlock(k, u, o[i]) = x
          /\ \A j \in 1..B : Xor(u, o[i])[j] = {Made(k, z, j)}
          /\ \A j \in 1..B : u[j] = SymDiff({Made(k, z, j)}, o[i][j])
  BY <1>1, <1>5, <1>6, SealedBlockIs, SMTT(30)
<1> QED
  BY <1>3, <1>4, <1>6, <1>7, <1>8, <1>9 DEF TextBlock

\* And the rest under the last one.
LEMMA TextRestIs ==
  ASSUME NEW k, NEW c, NEW n, NEW p, NEW N, NEW o, NEW q, NEW v, NEW t, NEW w, NEW r,
         OcbText(k, c, n, p, N, o, q, v, t, w, r)
  PROVE  TextRest(k, t, r, o[q])
<1>1. /\ NonceOffsets(o, k, n, N) /\ q \in 0..N /\ Of(p, {"p"})
      /\ Cut(p, q, v, t) /\ r = RestOf(k, t, o[q])
  BY DEF OcbText
<1>2. Of(t, {"p"}) /\ IsString(t) /\ Len(t) \in 0..(B - 1)
  BY <1>1, PartsBelow
<1>3. Quiet(k, t)
  <2>1. {"p"} \subseteq {"p", "x", "E", "D"}
    OBVIOUS
  <2>2. Of(t, {"p", "x", "E", "D"})
    BY <1>2, <2>1, OfMore
  <2> QED
    BY <2>2, QuietOf
<1>4. IsBlock(o[q])
  BY <1>1, OffsetAtomIs
<1>5. PICK d : d = o[q]
  OBVIOUS
<1>6. IsBlock(d)
  BY <1>4, <1>5
<1>7. IsString(RestOf(k, t, d)) /\ Len(RestOf(k, t, d)) = Len(t)
  BY <1>2, <1>6, RestLong
<1>8. /\ (t = << >> <=> RestOf(k, t, d) = << >>)
      /\ \A j \in 1..Len(t) : RestOf(k, t, d)[j] = SymDiff(t[j], {Made(k, Xor(d, LStar(k)), j)})
      /\ (Quiet(k, t) => Quiet(k, RestOf(k, t, d)))
  BY <1>2, <1>6, RestIs
<1>9. RestOf(k, RestOf(k, t, d), d) = t
  <2>1. CASE t = << >>
    BY <2>1 DEF RestOf
  <2>2. CASE t # << >>
    <3>1. PICK m : m = Pad16(k, d)
      OBVIOUS
    <3>2. IsString(m) /\ Len(m) = B
      BY <1>6, <3>1, Pad16Is DEF IsBlock, Clean
    <3>3. Len(t) <= Len(m)
      BY <1>2, <3>2, BlockLen
    <3>4. Xor(Xor(t, m), m) = t
      BY <1>2, <3>2, <3>3, SumBack
    <3>5. RestOf(k, t, d) = Xor(t, m)
      BY <2>2, <3>1 DEF RestOf
    <3>6. RestOf(k, RestOf(k, t, d), d) = Xor(RestOf(k, t, d), m)
      BY <1>8, <2>2, <3>1 DEF RestOf
    <3> QED
      BY <3>4, <3>5, <3>6
  <2> QED
    BY <2>1, <2>2
<1> QED
  BY <1>1, <1>2, <1>3, <1>5, <1>7, <1>8, <1>9 DEF TextRest

\* What it opens to, whatever the tag and the aad.
LEMMA TextOpens ==
  ASSUME NEW k, NEW c, NEW n, NEW p, NEW N, NEW o, NEW q, NEW v, NEW t, NEW w, NEW r,
         OcbText(k, c, n, p, N, o, q, v, t, w, r), NEW aad, NEW tag
  PROVE  DecryptOcb(k, n, aad, c, tag) =
           OpenedIf(OcbTag(k, o[q], aad, p) = tag, p, "InvalidTag")
<1>1. /\ NonceOffsets(o, k, n, N) /\ q \in 0..N /\ q \in Nat /\ Cut(p, q, v, t) /\ Cut(c, q, w, r)
  BY DEF OcbText
<1>2. \A i \in 1..q : OpenedBlock(k, w[i], o[i]) = v[i] /\ IsWide(OpenedBlock(k, w[i], o[i]))
  <2>1. ASSUME NEW i \in 1..q
        PROVE  OpenedBlock(k, w[i], o[i]) = v[i] /\ IsWide(v[i])
    <3>1. TextBlock(k, n, v[i], w[i], o[i])
      BY TextBlockIs
    <3> QED
      BY <3>1, BlockWide DEF TextBlock
  <2> QED
    BY <2>1
<1>3. RestOf(k, r, o[q]) = t
  BY TextRestIs DEF TextRest
<1>4. v = [i \in 1..q |-> v[i]]
  BY <1>1 DEF Cut
<1>5. [i \in 1..q |-> OpenedBlock(k, w[i], o[i])] = v
  BY <1>2, <1>4
<1>6. OpensAs(k, n, c, o[q], q, v, t)
  <2>1. \A i \in 1..q : IsWide(OpenedBlock(k, w[i], o[i]))
    BY <1>2
  <2>2. OpensAs(k, n, c, o[q], q, [i \in 1..q |-> OpenedBlock(k, w[i], o[i])], RestOf(k, r, o[q]))
    BY ONLY <1>1, <2>1, OpensTo
  <2> QED
    BY <1>3, <1>5, <2>2
<1>7. PICK pt : /\ Cut(pt, q, v, t)
                /\ \A a, s : DecryptOcb(k, n, a, c, s) =
                               OpenedIf(OcbTag(k, o[q], a, pt) = s, pt, "InvalidTag")
  BY <1>6 DEF OpensAs
<1>8. pt = p
  BY <1>1, <1>7, CutTells
<1> QED
  BY <1>7, <1>8

LEMMA SumOfOf ==
  ASSUME NEW w, NEW n, Wides(w, n), NEW K, \A i \in 1..n : Of(w[i], K)
  PROVE  Of(SumOf(w), K)
<1>1. IsWide(SumOf(w)) /\ SumAtoms(w, n, SumOf(w)) /\ n \in Nat /\ 0 \in 0..n
  BY InSumOf DEF Wides
<1>2. \A i \in 1..n : \A j \in 1..B : \A a \in w[i][j] : a[1] \in K
  BY DEF Of, Wides, IsWide
<1>3. PICK y : y = SumOf(w)
  OBVIOUS
<1>4. ASSUME NEW j \in 1..B, NEW a \in y[j], a[1] \notin K PROVE FALSE
  <2>1. \A i \in 1..n : (a \in w[i][j] <=> i = 0)
    BY <1>1, <1>2, <1>4
  <2>2. a \in y[j] <=> 0 # 0
    BY <1>1, <1>3, <2>1 DEF SumAtoms
  <2> QED
    BY <1>4, <2>2
<1> QED
  BY <1>1, <1>3, <1>4 DEF Of, IsWide

\* The block that is enciphered into the tag shows the nonce, the number of
\* whole blocks, whether there is a rest and how long it is.
Shows(k, n, u, o, t) ==
  /\ IsWide(u) /\ \A j \in 1..B : \A a \in u[j] : a[1] # "D"
  /\ \A m : IsOcbNonce(m) => (Mark(k, m) \in u[1] <=> m = n)
  /\ \A z : Deep(z) /\ z # ZeroBlock => Made(k, z, 1) \notin u[1]
  /\ (Made(k, ZeroBlock, 1) \in u[1] <=> t # << >>)
  /\ Places(k, u) = Places(k, o)
PadShown(u, t) ==
  \A a \in Num(Radix \div 2) : \A j \in 1..B : a \in u[j] <=> (t # << >> /\ j = Len(t) + 1)

\* Which bytes beyond the plaintext it is made of.
TagParts(k, u, o, t) ==
  \A j \in 1..B : \A a : a[1] \notin Knowns =>
    (a \in u[j] <=> ~ (~ (a \in o[j] <=> (t # << >> /\ a \in LStar(k)[j])) <=> a \in LDollar(k)[j]))

\* What the tag block of a text holds.
LEMMA TagPartsAre ==
  ASSUME NEW k, NEW c, NEW n, NEW p, NEW N, NEW o, NEW q, NEW v, NEW t, NEW w, NEW r,
         OcbText(k, c, n, p, N, o, q, v, t, w, r)
  PROVE  IsWide(TagBlock(k, o[q], p)) /\ TagParts(k, TagBlock(k, o[q], p), o[q], t)
<1>1. /\ NonceOffsets(o, k, n, N) /\ q \in 0..N /\ q \in Nat /\ Of(p, {"p"}) /\ Cut(p, q, v, t)
  BY DEF OcbText
<1>2. IsBlock(o[q]) /\ IsWide(o[q])
  BY <1>1, OffsetAtomIs, BlockWide
<1>3. /\ Of(t, {"p"}) /\ Len(t) \in 0..(B - 1) /\ \A i \in 1..q : Of(v[i], {"p"}) /\ IsBlock(v[i])
  BY <1>1, PartsBelow
<1>4. Wides(v, q)
  BY <1>1 DEF Cut, Wides
<1>5. Of(SumOf(v), {"p"})
  BY <1>3, <1>4, SumOfOf
<1>6. Of(OnePadded(t), Knowns)
  <2>1. {"p"} \subseteq Plains
    BY DEF Plains
  <2>2. Of(t, Plains)
    BY <1>3, <2>1, OfMore
  <2> QED
    BY <1>3, <2>2, PaddedOf
<1>7. PICK d : d = o[q]
  OBVIOUS
<1>8. /\ IsWide(TagBlock(k, d, p)) /\ IsWide(SumOf(v))
      /\ \A j \in 1..B : \A a :
           a \in TagBlock(k, d, p)[j] <=>
             ~ (~ (~ (~ (a \in SumOf(v)[j] <=> (t # << >> /\ a \in OnePadded(t)[j]))
                      <=> a \in d[j])
                   <=> (t # << >> /\ a \in LStar(k)[j]))
                <=> a \in LDollar(k)[j])
  BY <1>1, <1>2, <1>7, TagBlockIs
<1>9. IsWide(OnePadded(t))
  BY <1>3, OnePaddedIs DEF Of
<1>10. ASSUME NEW j \in 1..B, NEW a, a[1] \notin Knowns
       PROVE  a \notin SumOf(v)[j] /\ a \notin OnePadded(t)[j]
  BY <1>5, <1>6, <1>8, <1>9, <1>10 DEF Of, IsWide, Knowns
<1>11. TagParts(k, TagBlock(k, d, p), d, t)
  BY <1>8, <1>10 DEF TagParts
<1> QED
  BY <1>7, <1>8, <1>11

\* It can be signed, and shows its padding.
LEMMA TagSigned ==
  ASSUME NEW k, NEW c, NEW n, NEW p, NEW N, NEW o, NEW q, NEW v, NEW t, NEW w, NEW r,
         OcbText(k, c, n, p, N, o, q, v, t, w, r)
  PROVE  Signed(k, o[q], p) /\ PadShown(TagBlock(k, o[q], p), t)
<1>1. /\ NonceOffsets(o, k, n, N) /\ q \in 0..N /\ Cut(p, q, v, t)
  BY DEF OcbText
<1>2. Quiet(k, o[q]) /\ IsWide(o[q])
  BY <1>1, QuietOffset, OffsetAtomIs, BlockWide
<1>3. Quiet(k, t)
  BY TextRestIs DEF TextRest
<1>4. \A i \in 1..q : Quiet(k, v[i])
  BY TextBlockIs DEF TextBlock
<1>5. PICK d : d = o[q]
  OBVIOUS
<1>6. /\ Signed(k, d, p)
      /\ \A a \in Num(Radix \div 2) : \A j \in 1..B :
           a \in TagBlock(k, d, p)[j] <=> t # << >> /\ j = Len(t) + 1
  BY <1>1, <1>2, <1>3, <1>4, <1>5, SignedQuiet
<1> QED
  BY <1>5, <1>6 DEF PadShown

\* Which bytes a mask LStar and LDollar hold.
LEMMA MasksAre ==
  ASSUME NEW k
  PROVE  /\ IsBlock(LStar(k)) /\ IsBlock(LDollar(k))
         /\ LStar(k)[1] = {Made(k, ZeroBlock, 1)}
         /\ LDollar(k)[1] = {Dbl(k, 1, i, 1) : i \in 1..B}
         /\ \A i, m, h, l : Dbl(k, m, i, l)[1] = "lin" /\ Dbl(k, m, i, l) # Made(k, ZeroBlock, h)
<1>1. 1 \in 1..B
  BY BlockLen
<1>2. IsBlock(LStar(k)) /\ LStar(k)[1] = {Made(k, ZeroBlock, 1)}
  BY <1>1, LStarIs
<1>3. IsDouble(k, LDollar(k), 1)
  BY LDollarIs
<1>4. IsBlock(LDollar(k)) /\ LDollar(k)[1] = {Dbl(k, 1, i, 1) : i \in 1..B}
  BY <1>1, <1>3 DEF IsDouble
<1>5. \A i, m, h, l : Dbl(k, m, i, l)[1] = "lin" /\ Made(k, ZeroBlock, h)[1] = "E"
  BY DEF Dbl, Made
<1> QED
  BY <1>2, <1>4, <1>5

\* Its cipher atoms tell offset and rest.
LEMMA PartShown ==
  ASSUME NEW k, NEW u, NEW o, NEW t, TagParts(k, u, o, t), NEW a, a[1] \in {"E", "lin"}
  PROVE  a \in u[1] <=> ~ (~ (a \in o[1] <=> (t # << >> /\ a = Made(k, ZeroBlock, 1)))
                             <=> \E i \in 1..B : a = Dbl(k, 1, i, 1))
<1>1. a[1] \notin Knowns /\ 1 \in 1..B
  BY BlockLen DEF Knowns
<1>2. a \in u[1] <=> ~ (~ (a \in o[1] <=> (t # << >> /\ a \in LStar(k)[1])) <=> a \in LDollar(k)[1])
  BY <1>1 DEF TagParts
<1>3. a \in LStar(k)[1] <=> a = Made(k, ZeroBlock, 1)
  BY MasksAre
<1>4. a \in LDollar(k)[1] <=> \E i \in 1..B : a = Dbl(k, 1, i, 1)
  BY MasksAre
<1> QED
  BY <1>2, <1>3, <1>4

\* The zero block is deep.
LEMMA ZeroDeep == Deep(ZeroBlock)
BY ZeroIs DEF Deep, IsWide

\* The tag block of a text shows nonce, count and rest.
LEMMA TextShows ==
  ASSUME NEW k, NEW c, NEW n, NEW p, NEW N, NEW o, NEW q, NEW v, NEW t, NEW w, NEW r,
         OcbText(k, c, n, p, N, o, q, v, t, w, r)
  PROVE  Shows(k, n, TagBlock(k, o[q], p), o[q], t)
<1>1. PICK u : u = TagBlock(k, o[q], p)
  OBVIOUS
<1>2. PICK d : d = o[q]
  OBVIOUS
<1>3. IsWide(u) /\ TagParts(k, u, d, t)
  BY <1>1, <1>2, TagPartsAre
<1>4. NonceOffsets(o, k, n, N) /\ q \in 0..N /\ IsOcbNonce(n)
  BY DEF OcbText, NonceOffsets
<1>5. /\ IsBlock(d)
      /\ \A j \in 1..B : \A a \in d[j] :
           a[1] \in {"E", "lin"} /\ a # Dbl(k, 1, 1, 1) /\ \A x, i : Deep(x) => a # Made(k, x, i)
  BY <1>2, <1>4, OffsetAtomIs
<1>6. /\ Mark(k, n) \in d[1]
      /\ \A m : IsOcbNonce(m) /\ m # n => Mark(k, m) \notin d[1]
  BY <1>2, <1>4, OffsetMark
<1>7. 1 \in 1..B
  BY BlockLen
<1>8. ASSUME NEW j \in 1..B, NEW a \in u[j], a[1] = "D" PROVE FALSE
  <2>1. a[1] \notin Knowns
    BY <1>8 DEF Knowns
  <2>2. a \notin d[j]
    BY <1>5, <1>8
  <2>3. a \notin LStar(k)[j] /\ a \notin LDollar(k)[j]
    BY <1>8, MasksAre, BlockWide
  <2> QED
    BY <1>3, <1>8, <2>1, <2>2, <2>3 DEF TagParts
<1>9. ASSUME NEW m, IsOcbNonce(m) PROVE Mark(k, m) \in u[1] <=> m = n
  <2>1. PICK a : a = Mark(k, m)
    OBVIOUS
  <2>2. /\ Mark(k, m)[1] \in {"E", "lin"} /\ (\A i, j : Mark(k, m) # Dbl(k, 1, i, j))
        /\ \A x, i : Deep(x) => Mark(k, m) # Made(k, x, i)
    BY <1>9, MarkIs
  <2>3. a[1] \in {"E", "lin"} /\ a # Made(k, ZeroBlock, 1) /\ \A i \in 1..B : a # Dbl(k, 1, i, 1)
    BY <2>1, <2>2, ZeroDeep
  <2>4. a \in u[1] <=> a \in d[1]
    BY <1>3, <2>3, PartShown
  <2>5. a \in d[1] <=> m = n
    BY <1>6, <1>9, <2>1
  <2> QED
    BY <2>1, <2>4, <2>5
<1>10. ASSUME NEW z, Deep(z), z # ZeroBlock PROVE Made(k, z, 1) \notin u[1]
  <2>1. PICK a : a = Made(k, z, 1)
    OBVIOUS
  <2>2. a[1] = "E"
    BY <2>1 DEF Made
  <2>3. a # Made(k, ZeroBlock, 1)
    <3>1. IsString(z) /\ IsString(ZeroBlock)
      BY <1>10, ZeroIs DEF Deep, IsWide
    <3> QED
      BY <1>10, <2>1, <3>1, MadeTells
  <2>4. \A i \in 1..B : a # Dbl(k, 1, i, 1)
    BY <2>2, MasksAre
  <2>5. a \notin d[1]
    BY <1>5, <1>7, <1>10, <2>1
  <2>6. a \in u[1] <=> a \in d[1]
    BY <1>3, <2>2, <2>3, <2>4, PartShown
  <2> QED
    BY <2>1, <2>5, <2>6
<1>11. Made(k, ZeroBlock, 1) \in u[1] <=> t # << >>
  <2>1. PICK a : a = Made(k, ZeroBlock, 1)
    OBVIOUS
  <2>2. a[1] = "E"
    BY <2>1 DEF Made
  <2>3. \A i \in 1..B : a # Dbl(k, 1, i, 1)
    BY <2>2, MasksAre
  <2>4. a \notin d[1]
    BY <1>5, <1>7, <2>1, ZeroDeep
  <2> QED
    BY <1>3, <2>1, <2>2, <2>3, <2>4, PartShown
<1>12. Places(k, u) = Places(k, d)
  <2>1. ASSUME NEW m \in Nat
        PROVE  Dbl(k, m + 2, 1, 1) \in u[1] <=> Dbl(k, m + 2, 1, 1) \in d[1]
    <3>1. PICK a : a = Dbl(k, m + 2, 1, 1)
      OBVIOUS
    <3>2. a[1] = "lin" /\ a # Made(k, ZeroBlock, 1)
      BY <3>1 DEF Dbl, Made
    <3>3. \A i \in 1..B : a # Dbl(k, 1, i, 1)
      BY <2>1, <3>1, DblTells
    <3> QED
      BY <1>3, <3>1, <3>2, <3>3, PartShown
  <2> QED
    BY <2>1 DEF Places
<1> QED
  BY <1>1, <1>2, <1>3, <1>8, <1>9, <1>10, <1>11, <1>12 DEF Shows

(* A text that is read: the ciphertext c under the nonce n and what comes  *)
(* out of it, p, before the tag is compared.                               *)
OcbReads(k, c, n, p, N, o, q, v, t, w, r) ==
  /\ NonceOffsets(o, k, n, N) /\ q \in 0..N /\ Cut(c, q, w, r) /\ Cut(p, q, v, t)
  /\ v = [i \in 1..q |-> OpenedBlock(k, w[i], o[i])] /\ t = RestOf(k, r, o[q])
  /\ (\A i \in 1..q : Quiet(k, v[i])) /\ Quiet(k, t)
  /\ \A aad, tag : DecryptOcb(k, n, aad, c, tag) =
                     OpenedIf(OcbTag(k, o[q], aad, p) = tag, p, "InvalidTag")

\* What is read from a ciphertext that is cut into blocks.
LEMMA ReadsIs ==
  ASSUME NEW k, NEW c, NEW n, NEW N, NEW o, NEW q \in 0..N, NEW w, NEW r,
         NonceOffsets(o, k, n, N), Cut(c, q, w, r), Quiet(k, r),
         \A i \in 1..q : IsWide(OpenedBlock(k, w[i], o[i])) /\ Quiet(k, OpenedBlock(k, w[i], o[i]))
  PROVE  \E p, v, t : OcbReads(k, c, n, p, N, o, q, v, t, w, r)
<1>1. PICK v : v = [i \in 1..q |-> OpenedBlock(k, w[i], o[i])]
  OBVIOUS
<1>2. PICK t : t = RestOf(k, r, o[q])
  OBVIOUS
<1>3. \A i \in 1..q : IsWide(OpenedBlock(k, w[i], o[i]))
  OBVIOUS
<1>4. OpensAs(k, n, c, o[q], q, [i \in 1..q |-> OpenedBlock(k, w[i], o[i])], RestOf(k, r, o[q]))
  BY <1>3, OpensTo
<1>5. OpensAs(k, n, c, o[q], q, v, t)
  BY <1>1, <1>2, <1>4
<1>6. PICK p : /\ Cut(p, q, v, t)
               /\ \A aad, tag : DecryptOcb(k, n, aad, c, tag) =
                                  OpenedIf(OcbTag(k, o[q], aad, p) = tag, p, "InvalidTag")
  BY <1>5 DEF OpensAs
<1>7. IsString(r) /\ Len(r) \in 0..(B - 1)
  BY DEF Cut
<1>8. PICK d : d = o[q]
  OBVIOUS
<1>9. IsBlock(d)
  BY <1>8, OffsetAtomIs
<1>10. Quiet(k, RestOf(k, r, d))
  BY <1>7, <1>9, RestIs
<1>11. (\A i \in 1..q : Quiet(k, v[i])) /\ Quiet(k, t)
  BY <1>1, <1>2, <1>8, <1>10
<1> QED
  BY <1>1, <1>2, <1>6, <1>11 DEF OcbReads

\* The tag block of what is read can be signed, and shows its padding.
LEMMA ReadsSigned ==
  ASSUME NEW k, NEW c, NEW n, NEW p, NEW N, NEW o, NEW q, NEW v, NEW t, NEW w, NEW r,
         OcbReads(k, c, n, p, N, o, q, v, t, w, r)
  PROVE  Signed(k, o[q], p) /\ PadShown(TagBlock(k, o[q], p), t)
<1>1. /\ NonceOffsets(o, k, n, N) /\ q \in 0..N /\ Cut(p, q, v, t)
      /\ (\A i \in 1..q : Quiet(k, v[i])) /\ Quiet(k, t)
  BY DEF OcbReads
<1>2. Quiet(k, o[q]) /\ IsWide(o[q])
  BY <1>1, QuietOffset, OffsetAtomIs, BlockWide
<1>3. PICK d : d = o[q]
  OBVIOUS
<1>4. /\ Signed(k, d, p)
      /\ \A a \in Num(Radix \div 2) : \A j \in 1..B :
           a \in TagBlock(k, d, p)[j] <=> t # << >> /\ j = Len(t) + 1
  BY <1>1, <1>2, <1>3, SignedQuiet
<1> QED
  BY <1>3, <1>4 DEF PadShown

\* A tag that is right for what is read and for what was sealed.
LEMMA ReadsTells ==
  ASSUME NEW k, NEW last, NEW p, Signed(k, last, p), NEW aad, Of(aad, Plains),
         NEW last2, NEW p2, Signed(k, last2, p2), NEW aad2, Of(aad2, Plains), NEW tag,
         OcbTag(k, last2, aad2, p2) = tag,
         NEW x, x = OpenedIf(OcbTag(k, last, aad, p) = tag, p, "InvalidTag"), x.ok
  PROVE  TagBlock(k, last, p) = TagBlock(k, last2, p2) /\ aad = aad2 /\ x = Ok(p)
<1>1. OcbTag(k, last, aad, p) = tag /\ x = Ok(p)
  BY DEF OpenedIf, Ok, Err
<1>2. OcbTag(k, last, aad, p) = OcbTag(k, last2, aad2, p2)
  BY <1>1
<1>3. OcbTag(k, last, aad, p) = OcbTag(k, last2, aad2, p2) =>
        TagBlock(k, last, p) = TagBlock(k, last2, p2) /\ aad = aad2
  BY ONLY Signed(k, last, p), Of(aad, Plains), Signed(k, last2, p2), Of(aad2, Plains), TagTells
<1> QED
  BY <1>1, <1>2, <1>3

\* A deciphered block shows in the tag.
LEMMA DeepShows ==
  ASSUME NEW k, NEW c, NEW n, NEW p, NEW N, NEW o, NEW q, NEW v, NEW t, NEW w, NEW r,
         OcbReads(k, c, n, p, N, o, q, v, t, w, r), NEW b \in 1..q, NEW a, a[1] = "D",
         \A i \in 1..q : a \in v[i][1] <=> i = b, \A j \in 1..Len(t) : a \notin t[j]
  PROVE  a \in TagBlock(k, o[q], p)[1]
<1>1. /\ NonceOffsets(o, k, n, N) /\ q \in 0..N /\ q \in Nat /\ Cut(p, q, v, t)
  BY DEF OcbReads, Cut
<1>2. IsBlock(o[q]) /\ IsWide(o[q]) /\ 1 \in 1..B
  BY <1>1, OffsetAtomIs, BlockWide, BlockLen
<1>3. IsString(t) /\ Len(t) \in 0..(B - 1)
  BY <1>1 DEF Cut
<1>4. PICK d : d = o[q]
  OBVIOUS
<1>5. /\ SumAtoms(v, q, SumOf(v))
      /\ \A j \in 1..B : \A y :
           y \in TagBlock(k, d, p)[j] <=>
             ~ (~ (~ (~ (y \in SumOf(v)[j] <=> (t # << >> /\ y \in OnePadded(t)[j]))
                      <=> y \in d[j])
                   <=> (t # << >> /\ y \in LStar(k)[j]))
                <=> y \in LDollar(k)[j])
  BY <1>1, <1>2, <1>4, TagBlockIs
<1>6. a \in SumOf(v)[1]
  <2>1. b \in 0..q /\ b # 0
    BY <1>1
  <2>2. \A i \in 1..q : a \in v[i][1] <=> i = b
    OBVIOUS
  <2> QED
    BY <1>2, <1>5, <2>1, <2>2 DEF SumAtoms
<1>7. a \notin OnePadded(t)[1]
  <2>1. OnePadded(t)[1] = IF 1 <= Len(t) THEN t[1]
                          ELSE IF 1 = Len(t) + 1 THEN Num(Radix \div 2) ELSE {}
    BY <1>2, <1>3, OnePaddedIs
  <2>2. a \notin Num(Radix \div 2)
    BY DEF Num
  <2> QED
    BY <1>3, <2>1, <2>2
<1>8. a \notin d[1] /\ a \notin LStar(k)[1] /\ a \notin LDollar(k)[1]
  BY <1>2, <1>4, MasksAre, BlockWide
<1> QED
  BY <1>2, <1>4, <1>5, <1>6, <1>7, <1>8, SMTT(30)

\* What deciphering makes of a block that was not enciphered.
DAtom(k, y) == << "D", k, Pack(y), 1 >>

\* A deciphered atom tells its block.
LEMMA DTells ==
  ASSUME NEW k, NEW y, NEW z, IsString(y), IsString(z), DAtom(k, y) = DAtom(k, z)
  PROVE  y = z
<1>1. Made(k, y, 1) = Made(k, z, 1)
  BY DEF DAtom, Made
<1> QED
  BY <1>1, MadeTells

\* A block read under an offset as no block that was enciphered.
Deciphers(k, y, x, o) ==
  /\ IsWide(y) /\ IsWide(x) /\ Quiet(k, x)
  /\ \A a : a[1] = "D" => (a \in x[1] <=> a = DAtom(k, y))

\* A block with two atoms in a byte was not made by the cipher.
LEMMA DeciphersIs ==
  ASSUME NEW k, NEW o, IsBlock(o), Quiet(k, o), NEW w, IsBlock(w),
         NEW y, y = Xor(w, o), NEW i \in 1..B, NEW a \in y[i], NEW b \in y[i], a # b
  PROVE  Deciphers(k, y, OpenedBlock(k, w, o), o)
<1>1. IsBlock(y) /\ IsWide(y)
  BY BlockSum, BlockWide
<1>2. PICK d : d = D(k, y)
  OBVIOUS
<1>3. IsWide(d) /\ \A j \in 1..B : d[j] = {<< "D", k, Pack(y), j >>}
  BY <1>1, <1>2, TwoDeciphered
<1>4. Quiet(k, d)
  BY <1>2, <1>3, QuietDeciphered
<1>5. PICK x : x = Xor(d, o)
  OBVIOUS
<1>6. IsWide(o) /\ Len(d) <= Len(o) /\ 1 \in 1..B
  BY <1>3, BlockWide, BlockLen DEF IsWide
<1>7. /\ IsWide(x)
      /\ \A h \in 1..B : \A s : s \in x[h] <=> ~ (s \in d[h] <=> s \in o[h])
  BY <1>3, <1>5, <1>6, WideSum
<1>8. Quiet(k, x)
  BY <1>4, <1>5, <1>6, QuietSum
<1>9. ASSUME NEW s, s[1] = "D" PROVE s \in x[1] <=> s = DAtom(k, y)
  <2>1. s \notin o[1]
    BY <1>6, <1>9, BlockWide
  <2>2. s \in x[1] <=> s \in d[1]
    BY <1>6, <1>7, <2>1
  <2>3. d[1] = {DAtom(k, y)}
    BY <1>3, <1>6 DEF DAtom
  <2> QED
    BY <2>2, <2>3
<1>10. OpenedBlock(k, w, o) = x
  BY <1>2, <1>5 DEF OpenedBlock
<1> QED
  BY <1>1, <1>7, <1>8, <1>9, <1>10 DEF Deciphers

\* A sealed block under the offset of another nonce.
Swapped(k, x, w, d) ==
  /\ Deciphers(k, Xor(w, d), OpenedBlock(k, w, d), d)
  /\ \A z : Deep(z) => (Made(k, z, 1) \in Xor(w, d)[1] <=> z = x)

\* Under another nonce a block is deciphered to something fresh.
LEMMA OtherBlock ==
  ASSUME NEW k, NEW n, NEW N, NEW o, NonceOffsets(o, k, n, N), NEW l \in 0..N,
         NEW v, NEW w, TextBlock(k, n, v, w, o[l]),
         NEW m, NEW M, NEW f, NonceOffsets(f, k, m, M), NEW h \in 0..M, m # n
  PROVE  Swapped(k, Xor(v, o[l]), w, f[h])
<1>1. PICK d, e : d = o[l] /\ e = f[h]
  OBVIOUS
<1>2. PICK x, y : x = Xor(v, d) /\ y = Xor(w, e)
  OBVIOUS
<1>3. IsOcbNonce(n) /\ IsOcbNonce(m) /\ 1 \in 1..B
  BY BlockLen DEF NonceOffsets
<1>4. /\ IsBlock(w) /\ Stamped(k, n, x, d)
      /\ \A j \in 1..B : w[j] = SymDiff({Made(k, x, j)}, d[j])
  BY <1>1, <1>2 DEF TextBlock
<1>5. /\ IsBlock(d)
      /\ \A j \in 1..B : \A a \in d[j] :
           a[1] \in {"E", "lin"} /\ a # Dbl(k, 1, 1, 1) /\ \A z, i : Deep(z) => a # Made(k, z, i)
  BY <1>1, OffsetAtomIs
<1>6. /\ IsBlock(e) /\ Quiet(k, e)
      /\ \A j \in 1..B : \A a \in e[j] :
           a[1] \in {"E", "lin"} /\ a # Dbl(k, 1, 1, 1) /\ \A z, i : Deep(z) => a # Made(k, z, i)
  BY <1>1, OffsetAtomIs, QuietOffset
<1>7. Mark(k, n) \in d[1] /\ Mark(k, m) \notin d[1] /\ Mark(k, m) \in e[1] /\ Mark(k, n) \notin e[1]
  BY <1>1, <1>3, OffsetMark
<1>8. IsWide(w) /\ IsWide(e) /\ Deep(x) /\ IsString(x)
  BY <1>4, <1>6, BlockWide DEF Stamped, Deep
<1>9. \A s : s \in Xor(w, e)[1] <=> ~ (s \in w[1] <=> s \in e[1])
  BY <1>3, <1>8, WideSum
<1>10. \A s : s \in y[1] <=> ~ (~ (s = Made(k, x, 1) <=> s \in d[1]) <=> s \in e[1])
  <2>1. w[1] = SymDiff({Made(k, x, 1)}, d[1])
    BY <1>3, <1>4
  <2>2. \A s : s \in w[1] <=> ~ (s = Made(k, x, 1) <=> s \in d[1])
    BY <2>1 DEF SymDiff
  <2> QED
    BY <1>2, <1>9, <2>2
<1>11. Mark(k, n) # Made(k, x, 1) /\ Mark(k, m) # Made(k, x, 1)
  BY <1>3, <1>8, MarkIs
<1>12. Mark(k, n) \in y[1] /\ Mark(k, m) \in y[1] /\ Mark(k, n) # Mark(k, m)
  BY <1>7, <1>10, <1>11
<1>13. Deciphers(k, y, OpenedBlock(k, w, e), e)
  BY <1>2, <1>3, <1>4, <1>6, <1>12, DeciphersIs
<1>14. ASSUME NEW z, Deep(z) PROVE Made(k, z, 1) \in y[1] <=> z = x
  <2>1. Made(k, z, 1) \notin d[1] /\ Made(k, z, 1) \notin e[1]
    BY <1>3, <1>5, <1>6, <1>14
  <2>2. Made(k, z, 1) = Made(k, x, 1) <=> z = x
    BY <1>8, <1>14, MadeTells DEF Deep
  <2> QED
    BY <1>10, <2>1, <2>2
<1> QED
  BY <1>1, <1>2, <1>13, <1>14 DEF Swapped

\* The blocks that were enciphered all differ.
LEMMA TextApart ==
  ASSUME NEW k, NEW c, NEW n, NEW p, NEW N, NEW o, NEW q, NEW v, NEW t, NEW w, NEW r,
         OcbText(k, c, n, p, N, o, q, v, t, w, r), NEW i \in 1..q, NEW j \in 1..q,
         Xor(v[i], o[i]) = Xor(v[j], o[j])
  PROVE  i = j
<1>1. TextBlock(k, n, v[i], w[i], o[i]) /\ TextBlock(k, n, v[j], w[j], o[j])
  BY TextBlockIs
<1>2. Places(k, o[i]) = Places(k, o[j])
  BY <1>1 DEF TextBlock, Stamped
<1>3. /\ NonceOffsets(o, k, n, N) /\ q \in Nat /\ N \in Nat /\ i \in 0..N /\ j \in 0..N
  BY DEF OcbText
<1>4. OffsetsFrom(o, k, OcbOffset0(k, n), N)
  BY <1>3 DEF NonceOffsets
<1> QED
  BY <1>2, <1>3, <1>4, OffsetsApart

\* A rest that is opened with another mask.
LEMMA RestClean ==
  ASSUME NEW k, NEW t, NEW r, NEW o, TextRest(k, t, r, o), NEW d, IsBlock(d)
  PROVE  \A j \in 1..Len(RestOf(k, r, d)) : \A a \in RestOf(k, r, d)[j] : a[1] # "D"
<1>1. /\ Of(t, {"p"}) /\ IsString(r) /\ Len(r) \in 0..(B - 1) /\ Len(r) = Len(t)
      /\ \A j \in 1..Len(t) : r[j] = SymDiff(t[j], {Made(k, Xor(o, LStar(k)), j)})
  BY DEF TextRest
<1>2. Len(RestOf(k, r, d)) = Len(r)
  BY <1>1, RestLong
<1>3. \A j \in 1..Len(r) : RestOf(k, r, d)[j] = SymDiff(r[j], {Made(k, Xor(d, LStar(k)), j)})
  BY <1>1, RestIs
<1>4. ASSUME NEW j \in 1..Len(r), NEW a \in RestOf(k, r, d)[j] PROVE a[1] # "D"
  <2>1. a \in t[j] \/ a = Made(k, Xor(o, LStar(k)), j) \/ a = Made(k, Xor(d, LStar(k)), j)
    BY <1>1, <1>3, <1>4 DEF SymDiff
  <2>2. a \in t[j] => a[1] = "p"
    BY <1>1, <1>4 DEF Of
  <2> QED
    BY <2>1, <2>2 DEF Made
<1> QED
  BY <1>2, <1>4

\* Read under another nonce, a text with a whole block shows a deciphered
\* block.
LEMMA OtherReads ==
  ASSUME NEW k, NEW c, NEW n, NEW p, NEW N, NEW o, NEW q, NEW v, NEW t, NEW w, NEW r,
         OcbText(k, c, n, p, N, o, q, v, t, w, r), NEW m, IsOcbNonce(m), m # n
  PROVE  \E f, x, y, z :
           /\ OcbReads(k, c, m, x, q, f, q, y, z, w, r)
           /\ q # 0 => \E a \in TagBlock(k, f[q], x)[1] : a[1] = "D"
<1>1. /\ NonceOffsets(o, k, n, N) /\ q \in 0..N /\ q \in Nat /\ N \in Nat
      /\ Cut(p, q, v, t) /\ Cut(c, q, w, r)
  BY DEF OcbText
<1>2. PICK f : f = Offsets(k, OcbOffset0(k, m), q)
  OBVIOUS
<1>3. NonceOffsets(f, k, m, q)
  BY <1>1, <1>2, NonceOffsetsAre
<1>4. TextRest(k, t, r, o[q])
  BY TextRestIs
<1>5. ASSUME NEW i \in 1..q
      PROVE  /\ Deciphers(k, Xor(w[i], f[i]), OpenedBlock(k, w[i], f[i]), f[i])
             /\ Deep(Xor(v[i], o[i]))
             /\ \A z : Deep(z) => (Made(k, z, 1) \in Xor(w[i], f[i])[1] <=> z = Xor(v[i], o[i]))
  <2>1. TextBlock(k, n, v[i], w[i], o[i])
    BY TextBlockIs
  <2>2. /\ i \in 0..N /\ i \in 0..q /\ m # n
        /\ NonceOffsets(o, k, n, N) /\ NonceOffsets(f, k, m, q)
    BY <1>1, <1>3
  <2>3. Swapped(k, Xor(v[i], o[i]), w[i], f[i])
    BY ONLY <2>1, <2>2, OtherBlock
  <2>4. Deep(Xor(v[i], o[i]))
    BY <2>1 DEF TextBlock, Stamped
  <2> QED
    BY <2>3, <2>4 DEF Swapped
<1>6. \A i \in 1..q :
        IsWide(OpenedBlock(k, w[i], f[i])) /\ Quiet(k, OpenedBlock(k, w[i], f[i]))
  BY <1>5 DEF Deciphers
<1>7. Quiet(k, r)
  BY <1>4 DEF TextRest
<1>8. q \in 0..q
  BY <1>1
<1>9. \E x, y, z : OcbReads(k, c, m, x, q, f, q, y, z, w, r)
  BY <1>1, <1>3, <1>6, <1>7, <1>8, ReadsIs
<1>10. PICK x, y, z : OcbReads(k, c, m, x, q, f, q, y, z, w, r)
  BY <1>9
<1>11. ASSUME q # 0 PROVE \E a \in TagBlock(k, f[q], x)[1] : a[1] = "D"
  <2>1. 1 \in 1..q
    BY <1>1, <1>11
  <2>2. PICK a : a = DAtom(k, Xor(w[1], f[1]))
    OBVIOUS
  <2>3. a[1] = "D"
    BY <2>2 DEF DAtom
  <2>4. ASSUME NEW i \in 1..q PROVE a \in y[i][1] <=> i = 1
    <3>1. y[i] = OpenedBlock(k, w[i], f[i])
      BY <1>10 DEF OcbReads
    <3>2. a \in y[i][1] <=> a = DAtom(k, Xor(w[i], f[i]))
      BY <1>5, <2>3, <3>1 DEF Deciphers
    <3>3. ASSUME a = DAtom(k, Xor(w[i], f[i])) PROVE i = 1
      <4>1. IsString(Xor(w[1], f[1])) /\ IsString(Xor(w[i], f[i]))
        BY <1>5, <2>1 DEF Deciphers, IsWide
      <4>2. Xor(w[1], f[1]) = Xor(w[i], f[i])
        BY <2>2, <3>3, <4>1, DTells
      <4>3. Made(k, Xor(v[1], o[1]), 1) \in Xor(w[1], f[1])[1]
        BY <1>5, <2>1
      <4>4. Xor(v[1], o[1]) = Xor(v[i], o[i])
        BY <1>5, <2>1, <4>2, <4>3
      <4> QED
        BY <2>1, <4>4, TextApart
    <3> QED
      BY <2>2, <3>2, <3>3
  <2>5. \A j \in 1..Len(z) : a \notin z[j]
    <3>1. IsBlock(f[q]) /\ z = RestOf(k, r, f[q])
      BY <1>3, <1>8, <1>10, OffsetAtomIs DEF OcbReads
    <3>2. PICK d : d = f[q]
      OBVIOUS
    <3>3. \A j \in 1..Len(RestOf(k, r, d)) : \A s \in RestOf(k, r, d)[j] : s[1] # "D"
      BY <1>4, <3>1, <3>2, RestClean
    <3> QED
      BY <2>3, <3>1, <3>2, <3>3
  <2>6. a \in TagBlock(k, f[q], x)[1]
    BY <1>10, <2>1, <2>3, <2>4, <2>5, DeepShows
  <2> QED
    BY <2>3, <2>6
<1> QED
  BY <1>10, <1>11

\* The mask of a rest shows the nonce, so that two nonces have two masks.
LEMMA MaskShows ==
  ASSUME NEW k, NEW m, NEW M, NEW f, NonceOffsets(f, k, m, M), NEW h \in 0..M
  PROVE  LET z == Xor(f[h], LStar(k))
         IN  /\ IsBlock(z) /\ Deep(z) /\ z # ZeroBlock /\ Mark(k, m) \in z[1]
             /\ \A n : IsOcbNonce(n) /\ n # m => Mark(k, n) \notin z[1]
<1>1. IsOcbNonce(m) /\ 1 \in 1..B
  BY BlockLen DEF NonceOffsets
<1>2. PICK d : d = f[h]
  OBVIOUS
<1>3. PICK z : z = Xor(d, LStar(k))
  OBVIOUS
<1>4. /\ IsBlock(d) /\ Mark(k, m) \in d[1]
      /\ \A n : IsOcbNonce(n) /\ n # m => Mark(k, n) \notin d[1]
  BY <1>2, OffsetAtomIs, OffsetMark
<1>5. IsBlock(LStar(k)) /\ LStar(k)[1] = {Made(k, ZeroBlock, 1)}
  BY MasksAre
<1>6. IsBlock(z) /\ IsString(z)
  BY <1>3, <1>4, <1>5, BlockSum DEF IsBlock, Clean
<1>7. \A s : s \in Xor(d, LStar(k))[1] <=> ~ (s \in d[1] <=> s \in LStar(k)[1])
  BY <1>1, <1>4, <1>5, WideSum, BlockWide
<1>8. ASSUME NEW n, IsOcbNonce(n) PROVE Mark(k, n) \in z[1] <=> Mark(k, n) \in d[1]
  <2>1. Mark(k, n) # Made(k, ZeroBlock, 1)
    BY <1>8, MarkIs, ZeroDeep
  <2> QED
    BY <1>3, <1>5, <1>7, <2>1
<1>9. Mark(k, m) \in z[1] /\ Mark(k, m)[1] \in {"E", "lin"}
  BY <1>1, <1>4, <1>8, MarkIs
<1>10. z # ZeroBlock
  BY <1>1, <1>9, ZeroIs
<1>11. Deep(z)
  BY <1>6, <1>9 DEF Deep
<1> QED
  BY <1>2, <1>3, <1>4, <1>6, <1>8, <1>9, <1>10, <1>11

\* A rest that is read under another nonce shows that nonce's mask.
LEMMA RestShows ==
  ASSUME NEW k, NEW c, NEW m, NEW x, NEW M, NEW f, NEW q, NEW y, NEW z, NEW w, NEW r,
         OcbReads(k, c, m, x, M, f, q, y, z, w, r), q = 0, r # << >>,
         NEW n, NEW N, NEW o, NonceOffsets(o, k, n, N), NEW h \in 0..N, m # n,
         NEW t, TextRest(k, t, r, o[h])
  PROVE  Made(k, Xor(f[q], LStar(k)), 1) \in TagBlock(k, f[q], x)[1]
<1>1. /\ NonceOffsets(f, k, m, M) /\ q \in 0..M /\ q \in Nat /\ Cut(x, q, y, z)
      /\ z = RestOf(k, r, f[q])
  BY DEF OcbReads, Cut
<1>2. IsOcbNonce(n) /\ IsOcbNonce(m) /\ 1 \in 1..B
  BY <1>1, BlockLen DEF NonceOffsets
<1>3. PICK d, e : d = f[q] /\ e = o[h]
  OBVIOUS
<1>4. PICK g, b : g = Xor(d, LStar(k)) /\ b = Xor(e, LStar(k))
  OBVIOUS
<1>5. Deep(g) /\ IsBlock(g) /\ g # ZeroBlock /\ Mark(k, m) \in g[1]
  BY <1>1, <1>3, <1>4, MaskShows
<1>6. IsBlock(b) /\ Mark(k, m) \notin b[1]
  BY <1>2, <1>3, <1>4, MaskShows
<1>7. Made(k, g, 1) # Made(k, b, 1)
  <2>1. IsString(g) /\ IsString(b)
    BY <1>5, <1>6 DEF IsBlock, Clean
  <2> QED
    BY <1>5, <1>6, <2>1, MadeTells
<1>8. /\ Of(t, {"p"}) /\ IsString(r) /\ Len(r) \in 0..(B - 1) /\ Len(r) = Len(t)
      /\ \A j \in 1..Len(t) : r[j] = SymDiff(t[j], {Made(k, Xor(e, LStar(k)), j)})
  BY <1>3 DEF TextRest
<1>9. 1 \in 1..Len(r)
  BY <1>8, EmptyIs
<1>10. IsBlock(d) /\ IsWide(d)
  BY <1>1, <1>3, OffsetAtomIs, BlockWide
<1>11. IsString(z) /\ Len(z) = Len(r)
  BY <1>1, <1>3, <1>8, <1>10, RestLong
<1>12. \A j \in 1..Len(r) : RestOf(k, r, d)[j] = SymDiff(r[j], {Made(k, Xor(d, LStar(k)), j)})
  <2>1. IsString(r) /\ Len(r) \in 0..(B - 1) /\ IsBlock(d)
    BY <1>8, <1>10
  <2> QED
    BY ONLY <2>1, RestIs
<1>13. PICK a : a = Made(k, g, 1)
  OBVIOUS
<1>14. a[1] = "E"
  BY <1>13 DEF Made
<1>15. a \in z[1]
  <2>1. a \notin t[1]
    BY <1>8, <1>9, <1>14 DEF Of
  <2>2. r[1] = SymDiff(t[1], {Made(k, b, 1)})
    BY <1>4, <1>8, <1>9
  <2>3. a \notin r[1]
    BY <1>7, <1>13, <2>1, <2>2 DEF SymDiff
  <2>4. z[1] = SymDiff(r[1], {a})
    BY <1>1, <1>3, <1>4, <1>9, <1>12, <1>13
  <2> QED
    BY <2>3, <2>4 DEF SymDiff
<1>16. z # << >> /\ a \in OnePadded(z)[1]
  <2>1. z # << >>
    BY <1>9, <1>11, EmptyIs
  <2>2. OnePadded(z)[1] = IF 1 <= Len(z) THEN z[1]
                          ELSE IF 1 = Len(z) + 1 THEN Num(Radix \div 2) ELSE {}
    BY <1>2, <1>8, <1>11, OnePaddedIs
  <2> QED
    BY <1>9, <1>11, <1>15, <2>1, <2>2
<1>17. /\ SumAtoms(y, q, SumOf(y))
       /\ \A j \in 1..B : \A s :
            s \in TagBlock(k, d, x)[j] <=>
              ~ (~ (~ (~ (s \in SumOf(y)[j] <=> (z # << >> /\ s \in OnePadded(z)[j]))
                       <=> s \in d[j])
                    <=> (z # << >> /\ s \in LStar(k)[j]))
                 <=> s \in LDollar(k)[j])
  BY <1>1, <1>10, TagBlockIs
<1>18. a \notin SumOf(y)[1]
  <2>1. 0 \in 0..q /\ \A i \in 1..q : (a \in y[i][1] <=> i = 0)
    OBVIOUS
  <2> QED
    BY <1>2, <1>17, <2>1 DEF SumAtoms
<1>19. a \notin d[1]
  <2>1. \A j \in 1..B : \A s \in d[j] :
          s[1] \in {"E", "lin"} /\ s # Dbl(k, 1, 1, 1) /\ \A u, i : Deep(u) => s # Made(k, u, i)
    BY <1>1, <1>3, OffsetAtomIs
  <2> QED
    BY <1>2, <1>5, <1>13, <2>1
<1>20. a \notin LStar(k)[1]
  <2>1. IsString(g) /\ IsString(ZeroBlock)
    BY <1>5, ZeroIs DEF Deep, IsWide
  <2>2. Made(k, g, 1) # Made(k, ZeroBlock, 1)
    BY <1>5, <2>1, MadeTells
  <2> QED
    BY <1>13, <2>2, MasksAre
<1>21. a \notin LDollar(k)[1]
  BY <1>14, MasksAre
<1>22. a \in TagBlock(k, d, x)[1]
  BY <1>2, <1>16, <1>17, <1>18, <1>19, <1>20, <1>21
<1> QED
  BY <1>3, <1>4, <1>13, <1>22

\* The tag of one message does not fit the ciphertext of another one under a
\* third nonce, and fits the empty one only under its own nonce if it is
\* empty itself.
LEMMA OtherNonce ==
  ASSUME NEW k, NEW c, NEW n, NEW p, NEW N, NEW o, NEW q, NEW v, NEW t, NEW w, NEW r,
         OcbText(k, c, n, p, N, o, q, v, t, w, r),
         NEW c2, NEW n2, NEW p2, NEW N2, NEW o2, NEW q2, NEW v2, NEW t2, NEW w2, NEW r2,
         OcbText(k, c2, n2, p2, N2, o2, q2, v2, t2, w2, r2),
         NEW m, IsOcbNonce(m), m # n, NEW aad, Of(aad, Plains), NEW aad2, Of(aad2, Plains),
         DecryptOcb(k, m, aad, c, OcbTag(k, o2[q2], aad2, p2)).ok
  PROVE  m = n2 /\ aad = aad2 /\ c = c2
<1>1. PICK f, x, y, z :
        /\ OcbReads(k, c, m, x, q, f, q, y, z, w, r)
        /\ q # 0 => \E a \in TagBlock(k, f[q], x)[1] : a[1] = "D"
  BY OtherReads
<1>2. PICK tag : tag = OcbTag(k, o2[q2], aad2, p2)
  OBVIOUS
<1>3. PICK d : d = DecryptOcb(k, m, aad, c, tag)
  OBVIOUS
<1>4. PICK last, last2 : last = f[q] /\ last2 = o2[q2]
  OBVIOUS
<1>5. d = OpenedIf(OcbTag(k, last, aad, x) = tag, x, "InvalidTag") /\ d.ok
  BY <1>1, <1>2, <1>3, <1>4 DEF OcbReads
<1>6. Signed(k, last, x) /\ Signed(k, last2, p2)
  BY <1>1, <1>4, ReadsSigned, TagSigned
<1>7. TagBlock(k, last, x) = TagBlock(k, last2, p2) /\ aad = aad2
  BY <1>2, <1>4, <1>5, <1>6, ReadsTells
<1>8. PICK u : u = TagBlock(k, last, x)
  OBVIOUS
<1>9. Shows(k, n2, u, last2, t2)
  BY <1>4, <1>7, <1>8, TextShows
<1>10. 1 \in 1..B
  BY BlockLen
<1>11. q = 0
  BY <1>1, <1>4, <1>8, <1>9, <1>10 DEF Shows
<1>12. /\ NonceOffsets(o, k, n, N) /\ q \in 0..N /\ Cut(c, q, w, r)
       /\ NonceOffsets(f, k, m, q) /\ q \in 0..q
  BY <1>1 DEF OcbText, OcbReads
<1>13. TextRest(k, t, r, o[q])
  BY TextRestIs
<1>14. r = << >>
  <2>1. SUFFICES ASSUME r # << >> PROVE FALSE
    OBVIOUS
  <2>2. Made(k, Xor(last, LStar(k)), 1) \in TagBlock(k, last, x)[1]
    BY <1>1, <1>4, <1>11, <1>12, <1>13, <2>1, RestShows
  <2>3. Deep(Xor(last, LStar(k))) /\ Xor(last, LStar(k)) # ZeroBlock
    BY <1>4, <1>12, MaskShows
  <2> QED
    BY <1>8, <1>9, <2>2, <2>3 DEF Shows
<1>15. OcbText(k, c, m, x, q, f, q, y, z, w, r)
  <2>1. /\ Cut(x, q, y, z) /\ y = [i \in 1..q |-> OpenedBlock(k, w[i], f[i])]
        /\ z = RestOf(k, r, f[q]) /\ q \in Nat
    BY <1>1, <1>11 DEF OcbReads
  <2>2. z = << >> /\ IsString(z)
    BY <1>14, <2>1 DEF RestOf, Cut
  <2>3. Len(x) = 0 /\ IsString(x)
    <3>1. Len(x) = Off(0) + Len(z) /\ IsString(x)
      BY <1>11, <2>1 DEF Cut
    <3> QED
      BY <2>2, <3>1, OffIs, EmptyIs
  <2>4. Of(x, {"p"})
    BY <2>3 DEF Of
  <2>5. w = [i \in 1..q |-> SealedBlock(k, y[i], f[i])]
    <3>1. w = [i \in 1..q |-> w[i]]
      BY <1>12 DEF Cut
    <3> QED
      BY <1>11, <3>1
  <2>6. r = RestOf(k, z, f[q])
    BY <1>14, <2>2 DEF RestOf
  <2> QED
    BY <1>12, <2>1, <2>4, <2>5, <2>6 DEF OcbText
<1>16. Shows(k, m, u, last, z)
  BY <1>4, <1>8, <1>15, TextShows
<1>17. m = n2
  BY <1>9, <1>16 DEF Shows
<1>18. z = << >>
  BY <1>1, <1>14 DEF OcbReads, RestOf
<1>19. t2 = << >> /\ Places(k, last) = Places(k, last2)
  BY <1>9, <1>16, <1>18 DEF Shows
<1>20. /\ NonceOffsets(o2, k, n2, N2) /\ q2 \in 0..N2 /\ q2 \in Nat /\ N2 \in Nat
       /\ Cut(c2, q2, w2, r2) /\ TextRest(k, t2, r2, o2[q2])
  BY TextRestIs DEF OcbText
<1>21. OffsetsFrom(o2, k, OcbOffset0(k, m), N2) /\ f[0] = OcbOffset0(k, m)
  BY <1>12, <1>17, <1>20 DEF NonceOffsets, OffsetsFrom
<1>22. o2[0] = f[0]
  BY <1>21 DEF OffsetsFrom
<1>23. Places(k, o2[0]) = Places(k, o2[q2]) /\ 0 \in 0..N2
  BY <1>4, <1>11, <1>19, <1>20, <1>22
<1>24. q2 = 0
  BY <1>20, <1>21, <1>23, OffsetsApart
<1>25. r2 = << >>
  BY <1>19, <1>20 DEF TextRest
<1>26. Len(c) = 0 /\ Len(c2) = 0 /\ IsString(c) /\ IsString(c2)
  <2>1. IsString(c) /\ IsString(c2) /\ Len(c) = Off(0) + Len(r) /\ Len(c2) = Off(0) + Len(r2)
    BY <1>11, <1>12, <1>20, <1>24 DEF Cut
  <2>2. Len(<< >>) = 0
    OBVIOUS
  <2> QED
    BY <1>14, <1>25, <2>1, <2>2, OffIs
<1>27. c = c2
  BY <1>26, EmptyIs
<1> QED
  BY <1>7, <1>17, <1>27

\* Under its own nonce a ciphertext takes no tag but its own.
LEMMA OwnNonce ==
  ASSUME NEW k, NEW c, NEW n, NEW p, NEW N, NEW o, NEW q, NEW v, NEW t, NEW w, NEW r,
         OcbText(k, c, n, p, N, o, q, v, t, w, r),
         NEW c2, NEW n2, NEW p2, NEW N2, NEW o2, NEW q2, NEW v2, NEW t2, NEW w2, NEW r2,
         OcbText(k, c2, n2, p2, N2, o2, q2, v2, t2, w2, r2),
         NEW aad, Of(aad, Plains), NEW aad2, Of(aad2, Plains),
         DecryptOcb(k, n, aad, c, OcbTag(k, o2[q2], aad2, p2)).ok
  PROVE  n = n2 /\ aad = aad2
<1>1. PICK tag : tag = OcbTag(k, o2[q2], aad2, p2)
  OBVIOUS
<1>2. PICK d : d = DecryptOcb(k, n, aad, c, tag)
  OBVIOUS
<1>3. PICK last, last2 : last = o[q] /\ last2 = o2[q2]
  OBVIOUS
<1>4. DecryptOcb(k, n, aad, c, tag) = OpenedIf(OcbTag(k, last, aad, p) = tag, p, "InvalidTag")
  BY <1>3, TextOpens
<1>5. d = OpenedIf(OcbTag(k, last, aad, p) = tag, p, "InvalidTag") /\ d.ok
  BY <1>1, <1>2, <1>4
<1>6. Signed(k, last, p) /\ Signed(k, last2, p2)
  BY <1>3, TagSigned
<1>7. TagBlock(k, last, p) = TagBlock(k, last2, p2) /\ aad = aad2
  BY <1>1, <1>3, <1>5, <1>6, ReadsTells
<1>8. PICK u : u = TagBlock(k, last, p)
  OBVIOUS
<1>9. Shows(k, n, u, last, t) /\ Shows(k, n2, u, last2, t2)
  BY <1>3, <1>7, <1>8, TextShows
<1>10. IsOcbNonce(n)
  BY DEF OcbText, NonceOffsets
<1> QED
  BY <1>7, <1>9, <1>10 DEF Shows

LEMMA PadTells ==
  ASSUME NEW u, NEW t, IsString(t), Len(t) \in 0..(B - 1), PadShown(u, t),
         NEW z, IsString(z), Len(z) \in 0..(B - 1), PadShown(u, z)
  PROVE  Len(t) = Len(z)
<1>1. PICK a \in Num(Radix \div 2) : a[1] = "bit"
  BY PadBit
<1>2. \A j \in 1..B : (t # << >> /\ j = Len(t) + 1) <=> (z # << >> /\ j = Len(z) + 1)
  BY DEF PadShown
<1>3. PICK m \in 0..(B - 1), l \in 0..(B - 1) : m = Len(t) /\ l = Len(z)
  OBVIOUS
<1>4. (t # << >> <=> m # 0) /\ (z # << >> <=> l # 0)
  BY <1>3, EmptyIs
<1>5. m + 1 \in 1..B /\ l + 1 \in 1..B
  BY BlockLen
<1> QED
  BY <1>2, <1>3, <1>4, <1>5

\* What is read with a tag that was sealed with the same offsets is as it
\* was sealed, as far as the tag shows.
LEMMA ReadsLike ==
  ASSUME NEW k, NEW c, NEW n, NEW p, NEW N, NEW o, NEW q, NEW v, NEW t, NEW w, NEW r,
         OcbText(k, c, n, p, N, o, q, v, t, w, r),
         NEW x, NEW g, NEW h, NEW y, NEW z, NEW u, NEW s,
         OcbReads(k, x, n, g, N, o, h, y, z, u, s), NEW aad, Of(aad, Plains),
         DecryptOcb(k, n, aad, x, OcbTag(k, o[q], aad, p)).ok
  PROVE  TagBlock(k, o[h], g) = TagBlock(k, o[q], p) /\ Len(z) = Len(t)
<1>1. PICK tag : tag = OcbTag(k, o[q], aad, p)
  OBVIOUS
<1>2. PICK d : d = DecryptOcb(k, n, aad, x, tag)
  OBVIOUS
<1>3. PICK last, last2 : last = o[h] /\ last2 = o[q]
  OBVIOUS
<1>4. d = OpenedIf(OcbTag(k, last, aad, g) = tag, g, "InvalidTag") /\ d.ok
  BY <1>1, <1>2, <1>3 DEF OcbReads
<1>5. Signed(k, last, g) /\ Signed(k, last2, p)
  BY <1>3, ReadsSigned, TagSigned
<1>6. TagBlock(k, last, g) = TagBlock(k, last2, p)
  BY <1>1, <1>3, <1>4, <1>5, ReadsTells
<1>7. PICK b : b = TagBlock(k, last, g)
  OBVIOUS
<1>8. PadShown(b, t) /\ PadShown(b, z)
  BY <1>3, <1>6, <1>7, ReadsSigned, TagSigned
<1>9. IsString(t) /\ Len(t) \in 0..(B - 1) /\ IsString(z) /\ Len(z) \in 0..(B - 1)
  BY DEF OcbText, OcbReads, Cut
<1>10. Len(t) = Len(z)
  BY <1>8, <1>9, PadTells
<1> QED
  BY <1>3, <1>6, <1>10

\* The blocks of a text, read as they were sealed.
LEMMA TextReads ==
  ASSUME NEW k, NEW c, NEW n, NEW p, NEW N, NEW o, NEW q, NEW v, NEW t, NEW w, NEW r,
         OcbText(k, c, n, p, N, o, q, v, t, w, r), NEW i \in 1..q
  PROVE  /\ OpenedBlock(k, w[i], o[i]) = v[i]
         /\ IsWide(OpenedBlock(k, w[i], o[i])) /\ Quiet(k, OpenedBlock(k, w[i], o[i]))
<1>1. TextBlock(k, n, v[i], w[i], o[i])
  BY TextBlockIs
<1> QED
  BY <1>1, BlockWide DEF TextBlock

\* A rest of another length.
LEMMA RestResized ==
  ASSUME NEW k, NEW c, NEW n, NEW p, NEW N, NEW o, NEW q, NEW v, NEW t, NEW w, NEW r,
         OcbText(k, c, n, p, N, o, q, v, t, w, r), NEW aad, Of(aad, Plains),
         NEW x, NEW u, NEW s, Cut(x, q, u, s), Quiet(k, s), Len(s) # Len(r),
         \A i \in 1..q : u[i] = w[i]
  PROVE  ~ DecryptOcb(k, n, aad, x, OcbTag(k, o[q], aad, p)).ok
<1>1. NonceOffsets(o, k, n, N) /\ q \in 0..N
  BY DEF OcbText
<1>2. \A i \in 1..q : IsWide(OpenedBlock(k, u[i], o[i])) /\ Quiet(k, OpenedBlock(k, u[i], o[i]))
  BY TextReads
<1>3. \E g, y, z : OcbReads(k, x, n, g, N, o, q, y, z, u, s)
  BY <1>1, <1>2, ReadsIs
<1>4. PICK g, y, z : OcbReads(k, x, n, g, N, o, q, y, z, u, s)
  BY <1>3, SMTT(30)
<1>5. z = RestOf(k, s, o[q]) /\ IsBlock(o[q]) /\ IsString(s) /\ Len(s) \in 0..(B - 1)
  BY <1>1, <1>4, OffsetAtomIs DEF OcbReads, Cut
<1>6. PICK d : d = o[q]
  OBVIOUS
<1>7. Len(RestOf(k, s, d)) = Len(s)
  BY <1>5, <1>6, RestLong
<1>8. Len(r) = Len(t)
  BY TextRestIs DEF TextRest
<1>9. Len(z) # Len(t)
  BY <1>5, <1>6, <1>7, <1>8
<1> QED
  BY <1>4, <1>9, ReadsLike

\* A rest that is made a whole block.
LEMMA RestFilled ==
  ASSUME NEW k, NEW c, NEW n, NEW p, NEW N, NEW o, NEW q, NEW v, NEW t, NEW w, NEW r,
         OcbText(k, c, n, p, N, o, q, v, t, w, r), NEW aad, Of(aad, Plains),
         NEW h, h = q + 1, h \in 0..N, NEW x, NEW u, NEW s, Cut(x, h, u, s), s = << >>,
         r # << >>, IsBlock(u[h]), u[h][1] = r[1], \A i \in 1..q : u[i] = w[i]
  PROVE  ~ DecryptOcb(k, n, aad, x, OcbTag(k, o[q], aad, p)).ok
<1>1. NonceOffsets(o, k, n, N) /\ q \in 0..N /\ q \in Nat /\ IsOcbNonce(n) /\ 1 \in 1..B
  BY BlockLen DEF OcbText, NonceOffsets
<1>2. TextRest(k, t, r, o[q])
  BY TextRestIs
<1>3. PICK d, e : d = o[q] /\ e = o[h]
  OBVIOUS
<1>4. PICK m : m = Xor(d, LStar(k))
  OBVIOUS
<1>5. IsBlock(m) /\ Deep(m)
  BY <1>1, <1>3, <1>4, MaskShows
<1>6. IsBlock(e) /\ Quiet(k, e) /\ Mark(k, n) \in e[1]
  BY <1>1, <1>3, OffsetAtomIs, QuietOffset, OffsetMark
<1>7. Made(k, m, 1) \notin e[1]
  <2>1. \A j \in 1..B : \A a \in e[j] :
          a[1] \in {"E", "lin"} /\ a # Dbl(k, 1, 1, 1) /\ \A z, i : Deep(z) => a # Made(k, z, i)
    BY <1>1, <1>3, OffsetAtomIs
  <2> QED
    BY <1>1, <1>5, <2>1
<1>8. Mark(k, n)[1] \in {"E", "lin"} /\ Mark(k, n) # Made(k, m, 1)
  BY <1>1, <1>5, MarkIs
<1>9. PICK b : b = u[h]
  OBVIOUS
<1>10. \A a : a[1] \in {"E", "lin"} => (a \in b[1] <=> a = Made(k, m, 1))
  <2>1. 1 \in 1..Len(t) /\ Of(t, {"p"})
    <3>1. Of(t, {"p"}) /\ Len(t) \in 0..(B - 1) /\ t # << >> /\ IsString(t)
      BY <1>2 DEF TextRest
    <3> QED
      BY <3>1, EmptyIs
  <2>2. r[1] = SymDiff(t[1], {Made(k, m, 1)})
    BY <1>2, <1>3, <1>4, <2>1 DEF TextRest
  <2>3. \A a \in t[1] : a[1] = "p"
    BY <2>1 DEF Of
  <2>4. Made(k, m, 1)[1] = "E"
    BY DEF Made
  <2> QED
    BY <1>9, <2>2, <2>3, <2>4 DEF SymDiff
<1>11. Made(k, m, 1) \in b[1] /\ Mark(k, n) \notin b[1]
  <2>1. Made(k, m, 1)[1] = "E"
    BY DEF Made
  <2> QED
    BY <1>8, <1>10, <2>1
<1>12. PICK y : y = Xor(b, e)
  OBVIOUS
<1>13. Made(k, m, 1) \in y[1] /\ Mark(k, n) \in y[1]
  <2>1. \A a : a \in Xor(b, e)[1] <=> ~ (a \in b[1] <=> a \in e[1])
    BY <1>1, <1>6, <1>9, WideSum, BlockWide
  <2> QED
    BY <1>6, <1>7, <1>11, <1>12, <2>1
<1>14. Deciphers(k, y, OpenedBlock(k, b, e), e)
  BY <1>1, <1>6, <1>8, <1>9, <1>12, <1>13, DeciphersIs
<1>15. \A i \in 1..h : IsWide(OpenedBlock(k, u[i], o[i])) /\ Quiet(k, OpenedBlock(k, u[i], o[i]))
  <2>1. \A i \in 1..q : IsWide(OpenedBlock(k, u[i], o[i])) /\ Quiet(k, OpenedBlock(k, u[i], o[i]))
    BY TextReads
  <2>2. IsWide(OpenedBlock(k, u[h], o[h])) /\ Quiet(k, OpenedBlock(k, u[h], o[h]))
    BY <1>3, <1>9, <1>14 DEF Deciphers
  <2>3. \A i \in 1..h : i = h \/ i \in 1..q
    BY <1>1
  <2> QED
    BY <2>1, <2>2, <2>3
<1>16. Quiet(k, s)
  <2>1. IsString(s) /\ Len(s) = 0
    BY DEF Cut
  <2> QED
    BY <2>1 DEF Quiet
<1>17. \E g, z, l : OcbReads(k, x, n, g, N, o, h, z, l, u, s)
  BY <1>1, <1>15, <1>16, ReadsIs
<1>18. PICK g, z, l : OcbReads(k, x, n, g, N, o, h, z, l, u, s)
  BY <1>17
<1>19. l = << >>
  BY <1>18 DEF OcbReads, RestOf
<1>20. Len(t) # Len(l)
  BY <1>2, <1>19, EmptyIs DEF TextRest
<1> QED
  BY <1>18, <1>20, ReadsLike

\* A last block that is cut.
LEMMA BlockCut ==
  ASSUME NEW k, NEW c, NEW n, NEW p, NEW N, NEW o, NEW q, NEW v, NEW t, NEW w, NEW r,
         OcbText(k, c, n, p, N, o, q, v, t, w, r), NEW aad, Of(aad, Plains),
         NEW h \in Nat, q = h + 1, NEW x, NEW u, NEW s, Cut(x, h, u, s), Quiet(k, s),
         s # << >>, r = << >>, \A i \in 1..h : u[i] = w[i]
  PROVE  ~ DecryptOcb(k, n, aad, x, OcbTag(k, o[q], aad, p)).ok
<1>1. NonceOffsets(o, k, n, N) /\ h \in 0..N /\ \A i \in 1..h : i \in 1..q
  BY DEF OcbText
<1>2. \A i \in 1..h : IsWide(OpenedBlock(k, u[i], o[i])) /\ Quiet(k, OpenedBlock(k, u[i], o[i]))
  BY <1>1, TextReads
<1>3. \E g, y, z : OcbReads(k, x, n, g, N, o, h, y, z, u, s)
  BY <1>1, <1>2, ReadsIs
<1>4. PICK g, y, z : OcbReads(k, x, n, g, N, o, h, y, z, u, s)
  BY <1>3, SMTT(30)
<1>5. z = RestOf(k, s, o[h]) /\ IsBlock(o[h]) /\ IsString(s) /\ Len(s) \in 0..(B - 1)
  BY <1>1, <1>4, OffsetAtomIs DEF OcbReads, Cut
<1>6. PICK d : d = o[h]
  OBVIOUS
<1>7. Len(RestOf(k, s, d)) = Len(s)
  BY <1>5, <1>6, RestLong
<1>8. Len(t) = 0 /\ Len(s) # 0
  BY <1>5, TextRestIs, EmptyIs DEF TextRest
<1>9. Len(z) # Len(t)
  BY <1>5, <1>6, <1>7, <1>8
<1> QED
  BY <1>4, <1>9, ReadsLike

LEMMA FlipIs ==
  /\ \A s : s \in X <=> s = << "x", 0 >>
  /\ << "x", 0 >>[1] = "x"
BY DEF X

\* A byte of a whole block is changed.
LEMMA BlockFlipped ==
  ASSUME NEW k, NEW c, NEW n, NEW p, NEW N, NEW o, NEW q, NEW v, NEW t, NEW w, NEW r,
         OcbText(k, c, n, p, N, o, q, v, t, w, r), NEW aad, Of(aad, Plains),
         NEW x, NEW u, NEW s, Cut(x, q, u, s), s = r, NEW b \in 1..q, IsBlock(u[b]),
         \A i \in 1..q : i # b => u[i] = w[i], NEW j \in 1..B, u[b][j] = SymDiff(w[b][j], X)
  PROVE  ~ DecryptOcb(k, n, aad, x, OcbTag(k, o[q], aad, p)).ok
<1>1. NonceOffsets(o, k, n, N) /\ q \in 0..N /\ q \in Nat /\ N \in Nat /\ b \in 0..N
  BY DEF OcbText
<1>2. PICK d, e, f : d = u[b] /\ e = o[b] /\ f = w[b]
  OBVIOUS
<1>3. PICK m : m = Xor(v[b], e)
  OBVIOUS
<1>4. TextBlock(k, n, v[b], f, e)
  BY <1>2, TextBlockIs
<1>5. IsBlock(e) /\ Quiet(k, e) /\ IsWide(e)
  BY <1>1, <1>2, OffsetAtomIs, QuietOffset, BlockWide
<1>6. IsBlock(f) /\ IsWide(f) /\ Xor(f, e)[j] = {Made(k, m, j)}
  BY <1>3, <1>4, BlockWide DEF TextBlock
<1>7. PICK y : y = Xor(d, e)
  OBVIOUS
<1>8. \A a : a \in y[j] <=> ~ (a = Made(k, m, j) <=> a \in X)
  <2>1. \A a : a \in Xor(f, e)[j] <=> ~ (a \in f[j] <=> a \in e[j])
    BY <1>5, <1>6, WideSum
  <2>2. \A a : a \in Xor(d, e)[j] <=> ~ (a \in d[j] <=> a \in e[j])
    BY <1>2, <1>5, WideSum, BlockWide
  <2>3. \A a : a \in d[j] <=> ~ (a \in f[j] <=> a \in X)
    BY <1>2 DEF SymDiff
  <2>4. \A a : a \in Xor(f, e)[j] <=> a = Made(k, m, j)
    BY <1>6
  <2> QED
    BY <1>7, <2>1, <2>2, <2>3, <2>4
<1>9. PICK a1, a2 : a1 = Made(k, m, j) /\ a2 = << "x", 0 >>
  OBVIOUS
<1>10. a1 # a2
  BY <1>9, FlipIs DEF Made
<1>11. a1 \in y[j] /\ a2 \in y[j]
  BY <1>8, <1>9, <1>10, FlipIs
<1>12. Deciphers(k, y, OpenedBlock(k, d, e), e)
  <2>1. IsBlock(d) /\ IsBlock(e) /\ Quiet(k, e) /\ y = Xor(d, e)
    BY <1>2, <1>5, <1>7
  <2> QED
    BY ONLY <2>1, <1>10, <1>11, j \in 1..B, DeciphersIs
<1>13. ASSUME NEW i \in 1..q
       PROVE  IsWide(OpenedBlock(k, u[i], o[i])) /\ Quiet(k, OpenedBlock(k, u[i], o[i]))
  <2>1. CASE i = b
    BY <1>2, <1>12, <2>1 DEF Deciphers
  <2>2. CASE i # b
    BY <2>2, TextReads
  <2> QED
    BY <2>1, <2>2
<1>14. TextRest(k, t, r, o[q])
  BY TextRestIs
<1>15. Quiet(k, s)
  BY <1>14 DEF TextRest
<1>16. \E g, h, z : OcbReads(k, x, n, g, N, o, q, h, z, u, s)
  BY <1>1, <1>13, <1>15, ReadsIs
<1>17. PICK g, h, z : OcbReads(k, x, n, g, N, o, q, h, z, u, s)
  BY <1>16
<1>18. PICK a : a = DAtom(k, y)
  OBVIOUS
<1>19. a[1] = "D"
  BY <1>18 DEF DAtom
<1>20. ASSUME NEW i \in 1..q PROVE a \in h[i][1] <=> i = b
  <2>1. h[i] = OpenedBlock(k, u[i], o[i])
    BY <1>17 DEF OcbReads
  <2>2. CASE i = b
    BY <1>2, <1>12, <1>18, <1>19, <2>1, <2>2 DEF Deciphers
  <2>3. CASE i # b
    <3>1. h[i] = v[i]
      BY <2>1, <2>3, TextReads
    <3>2. IsBlock(v[i]) /\ 1 \in 1..B
      BY TextBlockIs, BlockLen DEF TextBlock
    <3> QED
      BY <1>19, <2>3, <3>1, <3>2, BlockWide
  <2> QED
    BY <2>2, <2>3
<1>21. \A i \in 1..Len(z) : a \notin z[i]
  <2>1. z = t
    BY <1>14, <1>17 DEF OcbReads, TextRest
  <2>2. Of(t, {"p"})
    BY <1>14 DEF TextRest
  <2> QED
    BY <1>19, <2>1, <2>2 DEF Of
<1>22. a \in TagBlock(k, o[q], g)[1]
  BY <1>17, <1>19, <1>20, <1>21, DeepShows
<1>23. a \notin TagBlock(k, o[q], p)[1]
  <2>1. Shows(k, n, TagBlock(k, o[q], p), o[q], t)
    BY TextShows
  <2> QED
    BY <1>19, <2>1, BlockLen DEF Shows
<1> QED
  BY <1>17, <1>22, <1>23, ReadsLike

\* A byte of the rest is changed.
LEMMA RestFlipped ==
  ASSUME NEW k, NEW c, NEW n, NEW p, NEW N, NEW o, NEW q, NEW v, NEW t, NEW w, NEW r,
         OcbText(k, c, n, p, N, o, q, v, t, w, r), NEW aad, Of(aad, Plains),
         NEW x, NEW u, NEW s, Cut(x, q, u, s), Quiet(k, s), Len(s) = Len(r),
         \A i \in 1..q : u[i] = w[i], NEW j \in 1..Len(r), s[j] = SymDiff(r[j], X)
  PROVE  ~ DecryptOcb(k, n, aad, x, OcbTag(k, o[q], aad, p)).ok
<1>1. /\ NonceOffsets(o, k, n, N) /\ q \in 0..N /\ q \in Nat /\ N \in Nat
      /\ Cut(p, q, v, t)
  BY DEF OcbText
<1>2. \A i \in 1..q : IsWide(OpenedBlock(k, u[i], o[i])) /\ Quiet(k, OpenedBlock(k, u[i], o[i]))
  BY TextReads
<1>3. \E g, y, z : OcbReads(k, x, n, g, N, o, q, y, z, u, s)
  BY <1>1, <1>2, ReadsIs
<1>4. PICK g, y, z : OcbReads(k, x, n, g, N, o, q, y, z, u, s)
  BY <1>3
<1>5. PICK d : d = o[q]
  OBVIOUS
<1>6. IsBlock(d) /\ IsWide(d)
  BY <1>1, <1>5, OffsetAtomIs, BlockWide
<1>7. TextRest(k, t, r, d)
  BY <1>5, TextRestIs
<1>8. /\ Of(t, {"p"}) /\ IsString(t) /\ Len(t) \in 0..(B - 1) /\ IsString(r) /\ Len(r) = Len(t)
      /\ r[j] = SymDiff(t[j], {Made(k, Xor(d, LStar(k)), j)})
  BY <1>7 DEF TextRest
<1>9. IsString(s) /\ Len(s) \in 0..(B - 1) /\ Len(s) = Len(t)
  BY <1>8 DEF Cut
<1>10. z = RestOf(k, s, d) /\ Cut(g, q, y, z)
  BY <1>4, <1>5 DEF OcbReads
<1>11. IsString(z) /\ Len(z) = Len(t)
  BY <1>6, <1>9, <1>10, RestLong
<1>12. z[j] = SymDiff(s[j], {Made(k, Xor(d, LStar(k)), j)})
  <2>1. \A i \in 1..Len(s) : RestOf(k, s, d)[i] = SymDiff(s[i], {Made(k, Xor(d, LStar(k)), i)})
    <3>1. IsBlock(d) /\ IsString(s) /\ Len(s) \in 0..(B - 1)
      BY <1>6, <1>9
    <3> QED
      BY ONLY <3>1, RestIs
  <2> QED
    BY <1>8, <1>9, <1>10, <2>1
<1>13. PICK a : a = << "x", 0 >>
  OBVIOUS
<1>14. a \in z[j] /\ a \notin t[j]
  <2>1. a \notin t[j]
    BY <1>8, <1>13, FlipIs DEF Of
  <2>2. a # Made(k, Xor(d, LStar(k)), j)
    BY <1>13, FlipIs DEF Made
  <2>3. a \in s[j] <=> ~ (a \in r[j] <=> a \in X)
    BY DEF SymDiff
  <2>4. a \notin r[j]
    BY <1>8, <2>1, <2>2 DEF SymDiff
  <2>5. a \in s[j]
    BY <1>13, <2>3, <2>4, FlipIs
  <2> QED
    BY <1>12, <2>1, <2>2, <2>5 DEF SymDiff
<1>15. t # << >> /\ z # << >>
  BY <1>8, <1>11, EmptyIs
<1>16. j \in 1..B
  BY <1>8, BlockLen
<1>17. a \in OnePadded(z)[j] /\ a \notin OnePadded(t)[j]
  <2>1. OnePadded(z)[j] = IF j <= Len(z) THEN z[j]
                          ELSE IF j = Len(z) + 1 THEN Num(Radix \div 2) ELSE {}
    BY <1>8, <1>11, <1>16, OnePaddedIs
  <2>2. OnePadded(t)[j] = IF j <= Len(t) THEN t[j]
                          ELSE IF j = Len(t) + 1 THEN Num(Radix \div 2) ELSE {}
    BY <1>8, <1>16, OnePaddedIs
  <2>3. j <= Len(z) /\ j <= Len(t)
    BY <1>8, <1>11
  <2> QED
    BY <1>14, <2>1, <2>2, <2>3
<1>18. y = v
  <2>1. v = [i \in 1..q |-> v[i]]
    BY <1>1 DEF Cut
  <2>2. y = [i \in 1..q |-> OpenedBlock(k, u[i], o[i])]
    BY <1>4 DEF OcbReads
  <2>3. \A i \in 1..q : OpenedBlock(k, u[i], o[i]) = v[i]
    BY TextReads
  <2> QED
    BY <2>1, <2>2, <2>3
<1>19. \A i \in 1..B : \A l :
         l \in TagBlock(k, d, p)[i] <=>
           ~ (~ (~ (~ (l \in SumOf(v)[i] <=> (t # << >> /\ l \in OnePadded(t)[i]))
                    <=> l \in d[i])
                 <=> (t # << >> /\ l \in LStar(k)[i]))
              <=> l \in LDollar(k)[i])
  BY <1>1, <1>6, TagBlockIs
<1>20. \A i \in 1..B : \A l :
         l \in TagBlock(k, d, g)[i] <=>
           ~ (~ (~ (~ (l \in SumOf(v)[i] <=> (z # << >> /\ l \in OnePadded(z)[i]))
                    <=> l \in d[i])
                 <=> (z # << >> /\ l \in LStar(k)[i]))
              <=> l \in LDollar(k)[i])
  <2>1. Cut(g, q, v, z)
    BY <1>10, <1>18
  <2> QED
    BY <1>6, <2>1, TagBlockIs
<1>21. TagBlock(k, d, g)[j] # TagBlock(k, d, p)[j]
  BY <1>15, <1>16, <1>17, <1>19, <1>20
<1> QED
  BY <1>4, <1>5, <1>21, ReadsLike

(* Where a byte of a string is.                                            *)
LEMMA ByteFound ==
  ASSUME NEW q \in Nat, NEW i \in 1..Off(q)
  PROVE  \E a \in 1..q : \E h \in 1..B : i = Off(a - 1) + h
<1>1. PICK b : b = Off(q)
  OBVIOUS
<1>2. b \in Nat /\ i \in 1..b /\ B \in Nat
  BY <1>1, OffIs, BlockLen
<1>3. PICK l \in Nat : l = i - 1
  BY <1>2
<1>4. PICK e : e = l \div B
  OBVIOUS
<1>5. e \in Nat /\ Off(e) \in Nat /\ Off(e) <= l /\ l < Off(e) + B
  BY <1>4, Quotient
<1>6. e < q
  <2>1. CASE q <= e
    <3>1. Off(q) <= Off(e)
      BY <1>5, <2>1, OffGrows
    <3>2. PICK y \in Nat : y = Off(e)
      BY <1>5
    <3> QED
      BY <1>1, <1>2, <1>3, <1>5, <3>1, <3>2
  <2> QED
    BY <1>5, <2>1
<1>7. PICK y \in Nat : y = Off(e)
  BY <1>5
<1>8. i - y \in 1..B /\ i = y + (i - y)
  BY <1>2, <1>3, <1>5, <1>7
<1>9. e + 1 \in 1..q /\ (e + 1) - 1 = e
  BY <1>5, <1>6
<1>10. i = Off((e + 1) - 1) + (i - y)
  BY <1>7, <1>8, <1>9
<1> QED
  BY <1>8, <1>9, <1>10

\* A place is in one block only.
LEMMA ByteOnce ==
  ASSUME NEW a \in Nat \ {0}, NEW b \in Nat \ {0}, NEW h \in 1..B, NEW j \in 1..B,
         Off(a - 1) + h = Off(b - 1) + j
  PROVE  a = b /\ h = j
<1>1. ASSUME NEW c \in Nat \ {0}, NEW d \in Nat \ {0}, c < d, NEW l \in 1..B, NEW m \in 1..B
      PROVE  Off(c - 1) + l < Off(d - 1) + m
  <2>1. c - 1 \in Nat /\ d - 1 \in Nat /\ c <= d - 1
    BY <1>1
  <2>2. Off(c) = Off(c - 1) + B /\ Off(c) <= Off(d - 1)
    BY <1>1, <2>1, OffIs, OffGrows
  <2>3. PICK x \in Nat, y \in Nat : x = Off(c - 1) /\ y = Off(d - 1)
    BY <2>1, OffIs
  <2>4. x + B <= y /\ B \in Nat
    BY <2>2, <2>3, BlockLen
  <2> QED
    BY <1>1, <2>3, <2>4
<1>2. PICK x \in Nat, y \in Nat : x = Off(a - 1) /\ y = Off(b - 1)
  <2>1. a - 1 \in Nat /\ b - 1 \in Nat
    OBVIOUS
  <2> QED
    BY <2>1, OffIs
<1>3. h \in Nat /\ j \in Nat
  BY BlockLen
<1>4. ~ (a < b) /\ ~ (b < a)
  <2>1. a < b => Off(a - 1) + h < Off(b - 1) + j
    BY <1>1
  <2>2. b < a => Off(b - 1) + j < Off(a - 1) + h
    BY <1>1
  <2> QED
    BY <1>2, <1>3, <2>1, <2>2
<1>5. a = b
  BY <1>4
<1> QED
  BY <1>2, <1>3, <1>5

\* Bytes that are neither bits of a number nor deciphered.
CalmByte(k, b) == \A a \in b : a[1] \notin {"bit", "D"} /\ a # Dbl(k, 1, 1, 1)
Calm(k, s) == IsString(s) /\ \A i \in 1..Len(s) : CalmByte(k, s[i])

\* A calm string is quiet.
LEMMA CalmIs ==
  ASSUME NEW k, NEW s, Calm(k, s)
  PROVE  Quiet(k, s) /\ (IsWide(s) => IsBlock(s))
<1>1. Quiet(k, s)
  BY DEF Calm, CalmByte, Quiet
<1>2. ASSUME IsWide(s) PROVE IsBlock(s)
  <2>1. \A i \in 1..B : \A a \in s[i] : a[1] # "D"
    BY <1>2 DEF Calm, CalmByte, IsWide
  <2> QED
    BY <1>2, <2>1, BlockWide
<1> QED
  BY <1>1, <1>2

\* Its parts are calm.
LEMMA CalmCut ==
  ASSUME NEW k, NEW s, Calm(k, s), NEW q, NEW w, NEW r, Cut(s, q, w, r)
  PROVE  Calm(k, r) /\ \A i \in 1..q : IsBlock(w[i]) /\ Quiet(k, w[i])
<1>1. /\ q \in Nat /\ IsString(s) /\ Len(s) = Off(q) + Len(r) /\ IsString(r)
      /\ Len(r) \in 0..(B - 1) /\ \A j \in 1..Len(r) : r[j] = s[Off(q) + j]
  BY DEF Cut
<1>2. PICK b \in Nat, m \in Nat : b = Off(q) /\ m = Len(r)
  <2>1. Off(q) \in Nat
    BY ONLY <1>1, OffIs
  <2>2. Len(r) \in Nat
    BY <1>1, BlockLen
  <2> QED
    BY <2>1, <2>2
<1>3. Calm(k, r)
  <2>1. ASSUME NEW j \in 1..Len(r) PROVE CalmByte(k, r[j])
    <3>1. Off(q) + j \in 1..Len(s)
      BY <1>1, <1>2
    <3> QED
      BY <1>1, <3>1 DEF Calm
  <2> QED
    BY <1>1, <2>1 DEF Calm
<1>4. ASSUME NEW i \in 1..q PROVE IsBlock(w[i]) /\ Quiet(k, w[i])
  <2>1. IsWide(w[i]) /\ \A j \in 1..B : w[i][j] = s[Off(i - 1) + j]
    BY DEF Cut
  <2>2. ASSUME NEW j \in 1..B PROVE CalmByte(k, w[i][j])
    <3>1. i - 1 \in Nat /\ i <= q /\ i \in Nat
      BY <1>1
    <3>2. Off(i) = Off(i - 1) + B /\ Off(i) <= Off(q) /\ Off(i - 1) \in Nat
      <4>1. q \in Nat /\ i # 0
        BY <1>1
      <4> QED
        BY ONLY <3>1, <4>1, OffIs, OffGrows
    <3>3. PICK y \in Nat : y = Off(i - 1)
      BY <3>2
    <3>4. Off(i - 1) + j \in 1..Len(s)
      BY <1>1, <1>2, <3>2, <3>3, BlockLen, SMTT(30)
    <3> QED
      BY <2>1, <3>4 DEF Calm
  <2>3. Calm(k, w[i])
    BY <2>1, <2>2 DEF Calm, IsWide
  <2> QED
    BY <2>1, <2>3, CalmIs
<1> QED
  BY <1>3, <1>4

\* An altered calm string is calm.
LEMMA CalmAltered ==
  ASSUME NEW k, NEW s, Calm(k, s), NEW x, Differs(x, s)
  PROVE  Calm(k, x)
<1>1. IsString(s) /\ \A i \in 1..Len(s) : CalmByte(k, s[i])
  BY DEF Calm
<1>2. PICK n \in Nat : n = Len(s)
  BY <1>1, StringProperties
<1>3. CalmByte(k, X) /\ CalmByte(k, Zero)
  <2>1. \A a \in X : a[1] = "x"
    BY FlipIs
  <2>2. Dbl(k, 1, 1, 1)[1] = "lin"
    BY DEF Dbl
  <2>3. CalmByte(k, X)
    BY <2>1, <2>2 DEF CalmByte
  <2>4. CalmByte(k, Zero)
    BY DEF CalmByte, Zero
  <2> QED
    BY <2>3, <2>4
<1>4. CASE \E i \in 1..Len(s) : FlippedAt(x, s, i)
  <2>1. PICK i \in 1..Len(s) : FlippedAt(x, s, i)
    BY <1>4
  <2>2. CalmByte(k, SymDiff(s[i], X))
    BY <1>1, <1>3 DEF SymDiff, CalmByte
  <2> QED
    BY <1>1, <2>1, <2>2 DEF FlippedAt, Calm
<1>5. CASE Extended(x, s)
  <2>1. ASSUME NEW i \in 1..Len(x) PROVE CalmByte(k, x[i])
    <3>1. i \in 1..Len(s) \/ i = Len(s) + 1
      BY <1>2, <1>5 DEF Extended
    <3> QED
      BY <1>1, <1>3, <1>5, <3>1 DEF Extended
  <2> QED
    BY <1>5, <2>1 DEF Extended, Calm
<1>6. CASE Shortened(x, s)
  <2>1. ASSUME NEW i \in 1..Len(x) PROVE CalmByte(k, x[i])
    <3>1. i \in 1..Len(s) /\ x[i] = s[i]
      <4>1. IsString(x) /\ Len(x) \in Nat
        BY <1>6, StringProperties DEF Shortened
      <4> QED
        BY <1>2, <1>6, <4>1 DEF Shortened
    <3> QED
      BY <1>1, <3>1
  <2> QED
    BY <1>6, <2>1 DEF Shortened, Calm
<1> QED
  BY <1>4, <1>5, <1>6 DEF Differs

\* The ciphertext of a text is calm.
LEMMA TextCalm ==
  ASSUME NEW k, NEW c, NEW n, NEW p, NEW N, NEW o, NEW q, NEW v, NEW t, NEW w, NEW r,
         OcbText(k, c, n, p, N, o, q, v, t, w, r)
  PROVE  Calm(k, c)
<1>1. /\ q \in Nat /\ IsString(c) /\ Len(c) = Off(q) + Len(r) /\ IsString(r)
      /\ Len(r) \in 0..(B - 1) /\ (\A j \in 1..Len(r) : r[j] = c[Off(q) + j])
      /\ \A i \in 1..q : \A j \in 1..B : w[i][j] = c[Off(i - 1) + j]
  BY DEF OcbText, Cut
<1>2. PICK b \in Nat, m \in Nat : b = Off(q) /\ m = Len(r)
  <2>1. Off(q) \in Nat
    BY ONLY <1>1, OffIs
  <2>2. Len(r) \in Nat
    BY <1>1, BlockLen
  <2> QED
    BY <2>1, <2>2
<1>3. ASSUME NEW i \in 1..q, NEW j \in 1..B PROVE CalmByte(k, w[i][j])
  <2>1. IsBlock(w[i]) /\ Quiet(k, w[i]) /\ Len(w[i]) = B
    BY TextBlockIs DEF TextBlock, IsBlock
  <2>2. \A a \in w[i][j] : a[1] # "D"
    BY <2>1, BlockWide
  <2> QED
    BY <2>1, <2>2 DEF Quiet, CalmByte
<1>4. ASSUME NEW j \in 1..Len(r) PROVE CalmByte(k, r[j])
  <2>1. TextRest(k, t, r, o[q])
    BY TextRestIs
  <2>2. /\ Of(t, {"p"}) /\ Len(r) = Len(t) /\ Quiet(k, r)
        /\ r[j] = SymDiff(t[j], {Made(k, Xor(o[q], LStar(k)), j)})
    BY <2>1 DEF TextRest
  <2>3. \A a \in r[j] : a[1] # "D"
    BY <2>2 DEF Of, SymDiff, Made
  <2> QED
    BY <2>2, <2>3 DEF Quiet, CalmByte
<1>5. ASSUME NEW i \in 1..Len(c) PROVE CalmByte(k, c[i])
  <2>1. i \in 1..Off(q) \/ \E j \in 1..Len(r) : i = Off(q) + j
    <3>1. i \in 1..(b + m)
      BY <1>1, <1>2
    <3>2. i \in 1..b \/ (i - b \in 1..m /\ i = b + (i - b))
      BY <3>1
    <3> QED
      BY <1>2, <3>2
  <2>2. CASE i \in 1..Off(q)
    <3>1. PICK a \in 1..q, h \in 1..B : i = Off(a - 1) + h
      BY <1>1, <2>2, ByteFound
    <3> QED
      BY <1>1, <1>3, <3>1
  <2>3. CASE \E j \in 1..Len(r) : i = Off(q) + j
    BY <1>1, <1>4, <2>3
  <2> QED
    BY <2>1, <2>2, <2>3
<1> QED
  BY <1>1, <1>5 DEF Calm

LEMMA CutOnce ==
  ASSUME NEW q \in Nat, NEW h \in Nat, NEW a \in 0..(B - 1), NEW b \in 0..(B - 1),
         Off(q) + a = Off(h) + b
  PROVE  q = h /\ a = b
<1>1. a + 1 \in 1..B /\ b + 1 \in 1..B /\ a \in Nat /\ b \in Nat
  BY BlockLen
<1>2. PICK x \in Nat, y \in Nat : x = Off(q) /\ y = Off(h)
  <2>1. Off(q) \in Nat /\ Off(h) \in Nat
    BY OffIs
  <2> QED
    BY <2>1
<1>3. q + 1 \in Nat \ {0} /\ h + 1 \in Nat \ {0} /\ (q + 1) - 1 = q /\ (h + 1) - 1 = h
  OBVIOUS
<1>4. Off((q + 1) - 1) + (a + 1) = Off((h + 1) - 1) + (b + 1)
  BY <1>1, <1>2, <1>3
<1>5. q + 1 = h + 1 /\ a + 1 = b + 1
  BY <1>1, <1>3, <1>4, ByteOnce
<1> QED
  BY <1>1, <1>5

\* A block with the same bytes is the same.
LEMMA CutSame ==
  ASSUME NEW c, NEW q, NEW w, NEW r, Cut(c, q, w, r), NEW x, NEW h, NEW u, NEW s, Cut(x, h, u, s),
         NEW i \in 1..q, i \in 1..h, \A j \in 1..B : x[Off(i - 1) + j] = c[Off(i - 1) + j]
  PROVE  u[i] = w[i]
<1>1. IsWide(u[i]) /\ \A j \in 1..B : u[i][j] = x[Off(i - 1) + j]
  BY DEF Cut
<1>2. IsWide(w[i]) /\ \A j \in 1..B : w[i][j] = c[Off(i - 1) + j]
  BY DEF Cut
<1>3. IsString(u[i]) /\ IsString(w[i]) /\ Len(u[i]) = Len(w[i])
      /\ \A j \in 1..Len(u[i]) : u[i][j] = w[i][j]
  BY <1>1, <1>2 DEF IsWide
<1> QED
  BY <1>3, SameString

\* The whole blocks of two strings that agree in their first bytes.
LEMMA CutAgree ==
  ASSUME NEW c, NEW q, NEW w, NEW r, Cut(c, q, w, r), NEW x, NEW h, NEW u, NEW s, Cut(x, h, u, s),
         NEW l \in Nat, l <= q, l <= h, \A i \in 1..Off(l) : x[i] = c[i]
  PROVE  \A i \in 1..l : u[i] = w[i]
<1>1. q \in Nat /\ h \in Nat
  BY DEF Cut
<1>2. ASSUME NEW i \in 1..l PROVE u[i] = w[i]
  <2>1. i \in 1..q /\ i \in 1..h
    BY <1>1
  <2>2. \A j \in 1..B : x[Off(i - 1) + j] = c[Off(i - 1) + j]
    BY InBlock
  <2> QED
    BY <2>1, <2>2, CutSame
<1> QED
  BY <1>2

\* The ciphertext altered.
OwnTag(k, c, n, p, N, o, q, v, t, w, r, aad) ==
  OcbText(k, c, n, p, N, o, q, v, t, w, r) /\ q + 1 \in 0..N /\ Of(aad, Plains)

\* A ciphertext with one byte changed is not opened with its tag.
LEMMA FlippedText ==
  ASSUME NEW k, NEW c, NEW n, NEW p, NEW N, NEW o, NEW q, NEW v, NEW t, NEW w, NEW r, NEW aad,
         OwnTag(k, c, n, p, N, o, q, v, t, w, r, aad),
         NEW x, NEW i \in 1..Len(c), FlippedAt(x, c, i)
  PROVE  ~ DecryptOcb(k, n, aad, x, OcbTag(k, o[q], aad, p)).ok
<1>1. OcbText(k, c, n, p, N, o, q, v, t, w, r) /\ Of(aad, Plains) /\ Cut(c, q, w, r) /\ q \in Nat
  BY DEF OwnTag, OcbText
<1>2. /\ IsString(c) /\ Len(c) = Off(q) + Len(r) /\ IsString(r) /\ Len(r) \in 0..(B - 1)
      /\ \A j \in 1..Len(r) : r[j] = c[Off(q) + j]
  BY <1>1 DEF Cut
<1>3. /\ IsString(x) /\ Len(x) = Len(c) /\ x[i] = SymDiff(c[i], X)
      /\ \A j \in 1..Len(c) : j # i => x[j] = c[j]
  BY DEF FlippedAt
<1>4. Calm(k, x)
  <2>1. Calm(k, c)
    BY <1>1, TextCalm
  <2>2. Differs(x, c)
    BY DEF Differs
  <2> QED
    BY <2>1, <2>2, CalmAltered
<1>5. PICK h, u, s : Cut(x, h, u, s)
  BY <1>3, CutOf
<1>6. /\ h \in Nat /\ Len(x) = Off(h) + Len(s) /\ IsString(s) /\ Len(s) \in 0..(B - 1)
      /\ \A j \in 1..Len(s) : s[j] = x[Off(h) + j]
  BY <1>5 DEF Cut
<1>7. h = q /\ Len(s) = Len(r)
  <2>1. Off(q) + Len(r) = Off(h) + Len(s)
    BY <1>2, <1>3, <1>6
  <2> QED
    BY <1>1, <1>2, <1>6, <2>1, CutOnce
<1>8. Calm(k, s) /\ \A b \in 1..q : IsBlock(u[b])
  BY <1>4, <1>5, <1>7, CalmCut
<1>9. PICK z \in Nat, m \in Nat : z = Off(q) /\ m = Len(r)
  <2>1. Off(q) \in Nat
    BY ONLY <1>1, OffIs
  <2>2. Len(r) \in Nat
    BY <1>2, BlockLen
  <2> QED
    BY <2>1, <2>2
<1>10. CASE i \in 1..Off(q)
  <2>1. PICK b \in 1..q, j \in 1..B : i = Off(b - 1) + j
    BY <1>1, <1>10, ByteFound
  <2>2. ASSUME NEW a \in 1..q, a # b PROVE u[a] = w[a]
    <3>1. ASSUME NEW e \in 1..B PROVE x[Off(a - 1) + e] = c[Off(a - 1) + e]
      <4>1. Off(a - 1) + e \in 1..Off(q)
        BY <1>1, InBlock
      <4>2. Off(a - 1) + e \in 1..Len(c)
        BY <1>2, <1>9, <4>1
      <4>3. a \in Nat \ {0} /\ b \in Nat \ {0}
        BY <1>1
      <4>4. Off(a - 1) + e # Off(b - 1) + j
        BY <2>2, <4>3, ByteOnce
      <4> QED
        BY <1>3, <2>1, <4>2, <4>4
    <3> QED
      BY <1>1, <1>5, <1>7, <3>1, CutSame
  <2>3. u[b][j] = SymDiff(w[b][j], X)
    <3>1. u[b][j] = x[i]
      BY <1>5, <1>7, <2>1 DEF Cut
    <3>2. w[b][j] = c[i]
      BY <1>1, <2>1 DEF Cut
    <3> QED
      BY <1>3, <3>1, <3>2
  <2>4. s = r
    <3>1. ASSUME NEW e \in 1..Len(s) PROVE s[e] = r[e]
      <4>1. Off(q) + e \in 1..Len(c) /\ Off(q) + e # i
        BY <1>2, <1>7, <1>9, <1>10
      <4> QED
        BY <1>2, <1>3, <1>6, <1>7, <4>1
    <3> QED
      BY <1>2, <1>6, <1>7, <3>1, SameString
  <2>5. Cut(x, q, u, s) /\ IsBlock(u[b])
    BY <1>5, <1>7, <1>8
  <2> QED
    BY <1>1, <2>2, <2>3, <2>4, <2>5, BlockFlipped
<1>11. CASE i \notin 1..Off(q)
  <2>1. PICK j \in Nat : j = i - z
    BY <1>2, <1>9, <1>11
  <2>2. j \in 1..Len(r) /\ i = Off(q) + j
    BY <1>2, <1>9, <1>11, <2>1
  <2>3. ASSUME NEW e \in 1..Off(q) PROVE x[e] = c[e]
    <3>1. e \in 1..Len(c) /\ e # i
      BY <1>2, <1>9, <1>11
    <3> QED
      BY <1>3, <3>1
  <2>4. \A a \in 1..q : u[a] = w[a]
    BY <1>1, <1>5, <1>7, <2>3, CutAgree
  <2>5. s[j] = SymDiff(r[j], X)
    BY <1>2, <1>3, <1>6, <1>7, <2>2
  <2>6. Cut(x, q, u, s) /\ Quiet(k, s)
    BY <1>5, <1>7, <1>8, CalmIs
  <2> QED
    BY <1>1, <1>7, <2>2, <2>4, <2>5, <2>6, RestFlipped
<1> QED
  BY <1>10, <1>11

LEMMA ExtendedText ==
  ASSUME NEW k, NEW c, NEW n, NEW p, NEW N, NEW o, NEW q, NEW v, NEW t, NEW w, NEW r, NEW aad,
         OwnTag(k, c, n, p, N, o, q, v, t, w, r, aad), NEW x, Extended(x, c)
  PROVE  ~ DecryptOcb(k, n, aad, x, OcbTag(k, o[q], aad, p)).ok
<1>1. /\ OcbText(k, c, n, p, N, o, q, v, t, w, r) /\ Of(aad, Plains) /\ Cut(c, q, w, r)
      /\ q \in Nat /\ q + 1 \in 0..N
  BY DEF OwnTag, OcbText
<1>2. /\ IsString(c) /\ Len(c) = Off(q) + Len(r) /\ IsString(r) /\ Len(r) \in 0..(B - 1)
      /\ \A j \in 1..Len(r) : r[j] = c[Off(q) + j]
  BY <1>1 DEF Cut
<1>3. IsString(x) /\ Len(x) = Len(c) + 1 /\ \A j \in 1..Len(c) : x[j] = c[j]
  BY DEF Extended
<1>4. Calm(k, x)
  <2>1. Calm(k, c)
    BY <1>1, TextCalm
  <2>2. Differs(x, c)
    BY DEF Differs
  <2> QED
    BY <2>1, <2>2, CalmAltered
<1>5. PICK h, u, s : Cut(x, h, u, s)
  BY <1>3, CutOf
<1>6. /\ h \in Nat /\ Len(x) = Off(h) + Len(s) /\ IsString(s) /\ Len(s) \in 0..(B - 1)
  BY <1>5 DEF Cut
<1>7. PICK z \in Nat, m \in Nat : z = Off(q) /\ m = Len(r)
  <2>1. Off(q) \in Nat
    BY ONLY <1>1, OffIs
  <2>2. Len(r) \in Nat
    BY <1>2, BlockLen
  <2> QED
    BY <2>1, <2>2
<1>8. \A e \in 1..Off(q) : x[e] = c[e]
  <2>1. \A e \in 1..Off(q) : e \in 1..Len(c)
    BY <1>2, <1>7
  <2> QED
    BY <1>3, <2>1
<1>9. Calm(k, s) /\ \A b \in 1..h : IsBlock(u[b])
  BY <1>4, <1>5, CalmCut
<1>10. CASE m < B - 1
  <2>1. m + 1 \in 0..(B - 1) /\ Off(q) + (m + 1) = Off(h) + Len(s)
    BY <1>2, <1>3, <1>6, <1>7, <1>10, BlockLen, SMTT(30)
  <2>2. h = q /\ Len(s) = m + 1
    BY <1>1, <1>6, <2>1, CutOnce
  <2>3. \A a \in 1..q : u[a] = w[a]
    BY <1>1, <1>5, <1>8, <2>2, CutAgree
  <2>4. Cut(x, q, u, s) /\ Quiet(k, s) /\ Len(s) # Len(r)
    BY <1>5, <1>7, <1>9, <2>2, CalmIs
  <2> QED
    BY <1>1, <2>3, <2>4, RestResized
<1>11. CASE ~ (m < B - 1)
  <2>1. m = B - 1 /\ m >= 1
    BY <1>2, <1>7, <1>11, BlockLen
  <2>2. Off(q + 1) = Off(q) + B
    BY ONLY <1>1, OffIs
  <2>3. 0 \in 0..(B - 1) /\ q + 1 \in Nat
    BY <1>1, BlockLen
  <2>4. Off(q + 1) + 0 = Off(h) + Len(s)
    BY <1>2, <1>3, <1>6, <1>7, <2>1, <2>2, BlockLen
  <2>5. q + 1 = h /\ Len(s) = 0
    BY <1>6, <2>3, <2>4, CutOnce
  <2>6. s = << >>
    BY <1>6, <2>5, EmptyIs
  <2>7. r # << >>
    <3>1. IsString(r) /\ Len(r) # 0
      BY <1>2, <1>7, <2>1
    <3> QED
      BY ONLY <3>1, EmptyIs
  <2>8. q <= h /\ h \in 1..h /\ 1 \in 1..B /\ h - 1 = q
    BY <1>1, <2>5, BlockLen
  <2>9. \A a \in 1..q : u[a] = w[a]
    BY <1>1, <1>5, <1>8, <2>8, CutAgree
  <2>10. u[h][1] = r[1]
    <3>1. u[h][1] = x[Off(q) + 1]
      BY <1>5, <2>8 DEF Cut
    <3>2. 1 \in 1..Len(r) /\ Off(q) + 1 \in 1..Len(c)
      BY <1>2, <1>7, <2>1
    <3> QED
      BY <1>2, <1>3, <3>1, <3>2
  <2>11. h = q + 1 /\ h \in 0..N /\ IsBlock(u[h])
    BY <1>1, <1>9, <2>5, <2>8
  <2> QED
    BY <1>1, <1>5, <2>6, <2>7, <2>9, <2>10, <2>11, RestFilled
<1> QED
  BY <1>10, <1>11

\* Nor is one cut short.
LEMMA ShortenedText ==
  ASSUME NEW k, NEW c, NEW n, NEW p, NEW N, NEW o, NEW q, NEW v, NEW t, NEW w, NEW r, NEW aad,
         OwnTag(k, c, n, p, N, o, q, v, t, w, r, aad), NEW x, Shortened(x, c)
  PROVE  ~ DecryptOcb(k, n, aad, x, OcbTag(k, o[q], aad, p)).ok
<1>1. /\ OcbText(k, c, n, p, N, o, q, v, t, w, r) /\ Of(aad, Plains) /\ Cut(c, q, w, r)
      /\ q \in Nat
  BY DEF OwnTag, OcbText
<1>2. IsString(c) /\ Len(c) = Off(q) + Len(r) /\ IsString(r) /\ Len(r) \in 0..(B - 1)
  BY <1>1 DEF Cut
<1>3. IsString(x) /\ Len(c) = Len(x) + 1 /\ Len(x) \in Nat /\ \A j \in 1..Len(x) : x[j] = c[j]
  BY StringProperties DEF Shortened
<1>4. Calm(k, x)
  <2>1. Calm(k, c)
    BY <1>1, TextCalm
  <2>2. Differs(x, c)
    BY DEF Differs
  <2> QED
    BY <2>1, <2>2, CalmAltered
<1>5. PICK h, u, s : Cut(x, h, u, s)
  BY <1>3, CutOf
<1>6. /\ h \in Nat /\ Len(x) = Off(h) + Len(s) /\ IsString(s) /\ Len(s) \in 0..(B - 1)
  BY <1>5 DEF Cut
<1>7. PICK z \in Nat, m \in Nat : z = Off(q) /\ m = Len(r)
  <2>1. Off(q) \in Nat
    BY ONLY <1>1, OffIs
  <2>2. Len(r) \in Nat
    BY <1>2, BlockLen
  <2> QED
    BY <2>1, <2>2
<1>8. Calm(k, s)
  BY <1>4, <1>5, CalmCut
<1>9. CASE m # 0
  <2>1. m - 1 \in 0..(B - 1) /\ Off(q) + (m - 1) = Off(h) + Len(s)
    BY <1>2, <1>3, <1>6, <1>7, <1>9, BlockLen, SMTT(30)
  <2>2. h = q /\ Len(s) = m - 1
    BY <1>1, <1>6, <2>1, CutOnce
  <2>3. \A e \in 1..Off(q) : x[e] = c[e]
    <3>1. \A e \in 1..Off(q) : e \in 1..Len(x)
      BY <1>2, <1>3, <1>7, <1>9
    <3> QED
      BY <1>3, <3>1
  <2>4. \A a \in 1..q : u[a] = w[a]
    BY <1>1, <1>5, <2>2, <2>3, CutAgree
  <2>5. Cut(x, q, u, s) /\ Quiet(k, s) /\ Len(s) # Len(r)
    BY <1>5, <1>7, <1>8, <2>2, CalmIs
  <2> QED
    BY <1>1, <2>4, <2>5, RestResized
<1>10. CASE m = 0
  <2>1. q # 0
    BY <1>2, <1>3, <1>7, <1>10, OffIs
  <2>2. PICK l \in Nat : q = l + 1
    <3>1. q - 1 \in Nat /\ q = (q - 1) + 1
      BY <1>1, <2>1
    <3> QED
      BY <3>1
  <2>3. Off(q) = Off(l) + B /\ Off(l) \in Nat
    BY ONLY <2>2, OffIs
  <2>4. PICK y \in Nat : y = Off(l)
    BY <2>3
  <2>5. B - 1 \in 0..(B - 1) /\ Off(l) + (B - 1) = Off(h) + Len(s)
    BY <1>2, <1>3, <1>6, <1>7, <1>10, <2>3, <2>4, BlockLen, SMTT(60)
  <2>6. h = l /\ Len(s) = B - 1
    BY <1>6, <2>5, CutOnce
  <2>7. s # << >> /\ r = << >>
    <3>1. IsString(r) /\ Len(r) = 0 /\ IsString(s) /\ Len(s) # 0
      BY <1>2, <1>6, <1>7, <1>10, <2>6, BlockLen
    <3> QED
      BY ONLY <3>1, EmptyIs
  <2>8. \A e \in 1..Off(l) : x[e] = c[e]
    <3>1. \A e \in 1..Off(l) : e \in 1..Len(x)
      BY <1>6, <2>4, <2>6, BlockLen
    <3> QED
      BY <1>3, <3>1
  <2>9. l <= q /\ l <= h
    BY <2>2, <2>6
  <2>10. \A a \in 1..l : u[a] = w[a]
    BY <1>1, <1>5, <2>8, <2>9, CutAgree
  <2>11. Cut(x, l, u, s) /\ Quiet(k, s)
    BY <1>5, <1>8, <2>6, CalmIs
  <2> QED
    BY <1>1, <2>2, <2>7, <2>10, <2>11, BlockCut
<1> QED
  BY <1>9, <1>10

\* Nor is one altered in any of these ways.
LEMMA AlteredText ==
  ASSUME NEW k, NEW c, NEW n, NEW p, NEW N, NEW o, NEW q, NEW v, NEW t, NEW w, NEW r, NEW aad,
         OwnTag(k, c, n, p, N, o, q, v, t, w, r, aad), NEW x, Differs(x, c)
  PROVE  ~ DecryptOcb(k, n, aad, x, OcbTag(k, o[q], aad, p)).ok
BY FlippedText, ExtendedText, ShortenedText DEF Differs

OcbParts(e, par, p, o, q, v, t, w, r) ==
  /\ IsEnvelope(e) /\ e.mode = "ocb" /\ e.par = par
  /\ OwnTag("k", e.ct, e.nonce, p, q + 1, o, q, v, t, w, r, e.aad)
  /\ e.tag = OcbTag("k", o[q], e.aad, p)

\* What sealing gives is such a text.
LEMMA OcbSeals ==
  ASSUME NEW k, NEW n, IsOcbNonce(n), NEW aad, Of(aad, {"p"}), NEW pt, Of(pt, {"p"}), Clean(pt),
         NEW s, s = EncryptOcb(k, n, aad, pt), s.ok
  PROVE  \E o, q, v, t, w, r :
           OwnTag(k, s.ct, n, pt, q + 1, o, q, v, t, w, r, aad) /\ s.tag = OcbTag(k, o[q], aad, pt)
<1>1. PICK q, v, t : Cut(pt, q, v, t)
  BY CutOf DEF Clean
<1>2. q \in Nat /\ q + 1 \in Nat /\ q \in 0..(q + 1) /\ q + 1 \in 0..(q + 1)
  BY <1>1 DEF Cut
<1>3. PICK N \in Nat : N = q + 1
  BY <1>2
<1>4. PICK o : o = Offsets(k, OcbOffset0(k, n), N)
  OBVIOUS
<1>5. NonceOffsets(o, k, n, N)
  BY <1>4, NonceOffsetsAre
<1>6. PICK w : w = [i \in 1..q |-> SealedBlock(k, v[i], o[i])]
  OBVIOUS
<1>7. PICK r : r = RestOf(k, t, o[q])
  OBVIOUS
<1>8. SealsAs(k, n, aad, pt, o[q], q, [i \in 1..q |-> SealedBlock(k, v[i], o[i])],
              RestOf(k, t, o[q]))
  <2>1. EncryptOcb(k, n, aad, pt).ok /\ q \in 0..N
    BY <1>2, <1>3
  <2> QED
    BY ONLY <1>1, <1>5, <2>1, Clean(pt), SealsTo
<1>9. SealsAs(k, n, aad, pt, o[q], q, w, r)
  BY <1>6, <1>7, <1>8
<1>10. PICK ct : /\ Cut(ct, q, w, r)
                 /\ EncryptOcb(k, n, aad, pt) = Sealed(ct, OcbTag(k, o[q], aad, pt))
  BY <1>9 DEF SealsAs
<1>11. s.ct = ct /\ s.tag = OcbTag(k, o[q], aad, pt)
  BY <1>10 DEF Sealed
<1>12. OcbText(k, ct, n, pt, N, o, q, v, t, w, r)
  BY <1>1, <1>2, <1>3, <1>5, <1>6, <1>7, <1>10 DEF OcbText
<1>13. Of(aad, Plains)
  <2>1. {"p"} \subseteq Plains
    BY DEF Plains
  <2> QED
    BY <2>1, OfMore
<1>14. OwnTag(k, s.ct, n, pt, q + 1, o, q, v, t, w, r, aad)
  BY <1>2, <1>3, <1>11, <1>12, <1>13 DEF OwnTag
<1> QED
  BY <1>11, <1>14

\* What sealing gives is a text with its tag.
LEMMA OcbFamily ==
  ASSUME NEW V, NEW par, Family(V, "ocb", par), NEW e \in V
  PROVE  (\E p, o, q, v, t, w, r : OcbParts(e, par, p, o, q, v, t, w, r)) /\ Of(e.aad, {"p"})
<1>1. "ocb" # "siv" /\ \A c \in Calls \cup Follow : c.mode = "ocb" => c.aad \in Nat
  BY LimitAssumption
<1>2. PICK c, aad, pt : LET m == [mode |-> "ocb", par |-> par, nonce |-> c.nonce,
                                  aad |-> aad, pt |-> pt]
                        IN  c.mode = "ocb" /\ c.par = par /\ EnvelopeOf(e, c, aad, pt, SealCall(m))
  BY <1>1, FamilyOf
<1>3. PICK nonce : nonce = c.nonce
  OBVIOUS
<1>4. PICK s : s = EncryptOcb("k", nonce, aad, pt)
  OBVIOUS
<1>5. c.mode = "ocb" /\ c.par = par /\ EnvelopeOf(e, c, aad, pt, s)
  BY <1>2, <1>3, <1>4 DEF SealCall
<1>6. c \in Calls \cup Follow
  BY <1>5 DEF EnvelopeOf
<1>7. /\ IsEnvelope(e) /\ e.mode = "ocb" /\ e.par = par /\ e.nonce = nonce /\ e.aad = aad
      /\ e.ct = s.ct /\ e.tag = s.tag /\ s.ok /\ Clean(pt) /\ Of(pt, {"p"})
      /\ Clean(aad) /\ Of(aad, {"p"}) /\ Len(aad) = c.aad
  BY <1>3, <1>5 DEF EnvelopeOf
<1>8. IsOcbNonce(nonce)
  <2>1. Given(c.nonce)
    BY <1>5, <1>6, CallAssumption
  <2>2. OcbNonce(c.nonce)
    BY <1>5, <1>6, LimitAssumption
  <2>3. Len(nonce) \in 1..(B - 1)
    BY <1>4, <1>7 DEF EncryptOcb, Err
  <2>4. Len(nonce) < B
    BY <2>3, BlockLen
  <2> QED
    BY <1>3, <2>1, <2>2, <2>4 DEF IsOcbNonce
<1>9. PICK o, q, v, t, w, r :
        /\ OwnTag("k", s.ct, nonce, pt, q + 1, o, q, v, t, w, r, aad)
        /\ s.tag = OcbTag("k", o[q], aad, pt)
  BY <1>4, <1>7, <1>8, OcbSeals
<1>10. OcbParts(e, par, pt, o, q, v, t, w, r)
  BY <1>7, <1>9 DEF OcbParts
<1> QED
  BY <1>7, <1>10

\* The nonce and the aad that are offered.
LEMMA OcbOffered ==
  ASSUME NEW V, NEW par, Family(V, "ocb", par), NEW e \in V, NEW o, Touches(o, e, V),
         OpenCall(o).ok
  PROVE  IsOcbNonce(o.nonce) /\ Of(o.aad, Plains)
<1>1. \A v \in V : v.mode = "ocb" /\ IsOcbNonce(v.nonce) /\ Of(v.aad, {"p"})
  BY OcbFamily DEF OcbParts, OwnTag, OcbText, NonceOffsets
<1>2. o.mode = "ocb"
  BY <1>1 DEF Touches
<1>3. DecryptOcb("k", o.nonce, o.aad, o.ct, o.tag).ok
  BY <1>2 DEF OpenCall
<1>4. IsOcbNonce(o.nonce)
  <2>1. CASE NewNonce(o, e)
    <3>1. o.nonce \in Nonces("ocb")
      BY <1>1, <2>1 DEF NewNonce
    <3>2. Given(o.nonce) /\ OcbNonce(o.nonce)
      BY <3>1, LimitAssumption
    <3>3. ~ (Len(o.nonce) >= B)
      BY <1>3 DEF DecryptOcb, Err
    <3>4. Len(o.nonce) \in Nat
      BY <3>2, GivenClean, StringProperties DEF Clean
    <3>5. Len(o.nonce) < B
      BY <3>3, <3>4, BlockLen
    <3> QED
      BY <3>2, <3>5 DEF IsOcbNonce
  <2>2. CASE ~ NewNonce(o, e)
    BY <1>1, <2>2 DEF Touches, Mixing, NewAad, NewCt, NewTag
  <2> QED
    BY <2>1, <2>2
<1>5. \E g \in V : o.aad = g.aad \/ o.aad \in Flipped(g.aad) \cup Resized(g.aad)
  <2>1. CASE Mixing(o, e, V)
    BY <2>1 DEF Mixing
  <2>2. CASE NewAad(o, e)
    <3>1. e.mode \in Aead \ {"siv"} /\ e.mode # "wrap"
      BY <1>1 DEF Aead
    <3>2. AlteredAad(e.mode, e.aad) = Flipped(e.aad) \cup Resized(e.aad)
      BY <3>1 DEF AlteredAad
    <3> QED
      BY <2>2, <3>2 DEF NewAad
  <2>3. CASE ~ Mixing(o, e, V) /\ ~ NewAad(o, e)
    BY <2>3 DEF Touches, NewNonce, NewCt, NewTag
  <2> QED
    BY <2>1, <2>2, <2>3
<1>6. PICK g \in V : o.aad = g.aad \/ o.aad \in Flipped(g.aad) \cup Resized(g.aad)
  BY <1>5
<1>7. PICK s : s = g.aad
  OBVIOUS
<1>8. IsString(s) /\ Of(s, Plains)
  <2>1. {"p"} \subseteq Plains
    BY DEF Plains
  <2>2. Of(s, {"p"})
    BY <1>1, <1>6, <1>7
  <2> QED
    BY <2>1, <2>2, OfMore DEF Of
<1>9. Of(o.aad, Plains)
  <2>1. CASE o.aad = s
    BY <1>8, <2>1
  <2>2. CASE o.aad \in Flipped(s) \cup Resized(s)
    <3>1. Differs(o.aad, s)
      BY <1>8, <2>2, AlteredIs
    <3>2. "x" \in Plains
      BY DEF Plains
    <3> QED
      BY <1>8, <3>1, <3>2, DiffersIs
  <2> QED
    BY <1>6, <1>7, <2>1, <2>2
<1> QED
  BY <1>4, <1>9

\* OCB opens nothing but what was sealed.
LEMMA OcbAuthentic ==
  ASSUME NEW V, NEW par, Family(V, "ocb", par), \A f, g \in V : f # g => f.nonce # g.nonce,
         NEW e \in V, NEW o, Touches(o, e, V), OpenCall(o).ok
  PROVE  o \in V
<1>1. PICK p, f, q, v, t, w, r : OcbParts(e, par, p, f, q, v, t, w, r)
  BY OcbFamily
<1>2. IsEnvelope(o) /\ o.mode = "ocb" /\ o.par = par
  BY <1>1 DEF Touches, OcbParts
<1>3. IsOcbNonce(o.nonce) /\ Of(o.aad, Plains)
  BY OcbOffered
<1>4. DecryptOcb("k", o.nonce, o.aad, o.ct, o.tag).ok
  BY <1>2 DEF OpenCall
<1>5. PICK c, n, aad, tag : c = e.ct /\ n = e.nonce /\ aad = e.aad /\ tag = e.tag
  OBVIOUS
<1>6. /\ IsEnvelope(e) /\ e.mode = "ocb" /\ e.par = par
      /\ OwnTag("k", c, n, p, q + 1, f, q, v, t, w, r, aad)
      /\ tag = OcbTag("k", f[q], aad, p)
  BY <1>1, <1>5 DEF OcbParts
<1>7. OcbText("k", c, n, p, q + 1, f, q, v, t, w, r) /\ Of(aad, Plains)
  BY <1>6 DEF OwnTag
<1>8. PICK c2, n2, aad2, tag2 : c2 = o.ct /\ n2 = o.nonce /\ aad2 = o.aad /\ tag2 = o.tag
  OBVIOUS
<1>9. DecryptOcb("k", n2, aad2, c2, tag2).ok /\ IsOcbNonce(n2) /\ Of(aad2, Plains)
  BY <1>3, <1>4, <1>8
<1>10. ~ NewCt(o, e)
  <2>1. SUFFICES ASSUME NewCt(o, e) PROVE FALSE
    OBVIOUS
  <2>2. n2 = n /\ aad2 = aad /\ tag2 = tag /\ c2 \in Flipped(c) \cup Resized(c)
    BY <1>5, <1>8, <2>1 DEF NewCt
  <2>3. IsString(c)
    BY <1>7 DEF OcbText, Cut
  <2>4. Differs(c2, c)
    BY <2>2, <2>3, AlteredIs
  <2>5. ~ DecryptOcb("k", n, aad, c2, OcbTag("k", f[q], aad, p)).ok
    BY <1>6, <2>4, AlteredText
  <2> QED
    BY <1>6, <1>9, <2>2, <2>5
<1>11. ~ NewTag(o, e)
  <2>1. SUFFICES ASSUME NewTag(o, e) PROVE FALSE
    OBVIOUS
  <2>2. n2 = n /\ aad2 = aad /\ tag2 \in Flipped(tag) /\ c2 = c
    BY <1>5, <1>8, <2>1 DEF NewTag
  <2>3. IsString(tag)
    <3>1. PICK d : d = f[q]
      OBVIOUS
    <3>2. Signed("k", d, p)
      BY <1>7, <3>1, TagSigned
    <3>3. IsWide(OcbTag("k", d, aad, p))
      BY <1>7, <3>2, TagIs
    <3> QED
      BY <1>6, <3>1, <3>3 DEF IsWide
  <2>4. PICK i \in 1..Len(tag) : FlippedAt(tag2, tag, i)
    BY <2>2, <2>3, FlippedIs
  <2>5. tag2 # tag
    <3>1. tag2[i] = SymDiff(tag[i], X)
      BY <2>4 DEF FlippedAt
    <3>2. << "x", 0 >> \in tag2[i] <=> << "x", 0 >> \notin tag[i]
      BY <3>1, FlipIs DEF SymDiff
    <3> QED
      BY <3>2
  <2>6. DecryptOcb("k", n, aad, c, tag2) =
          OpenedIf(OcbTag("k", f[q], aad, p) = tag2, p, "InvalidTag")
    BY <1>7, TextOpens
  <2>7. OcbTag("k", f[q], aad, p) = tag2
    BY <1>9, <2>2, <2>6 DEF OpenedIf, Err
  <2> QED
    BY <1>6, <2>5, <2>7
<1>12. c2 = c /\ \E g \in V : tag2 = g.tag
  BY <1>5, <1>8, <1>10, <1>11 DEF Touches, Mixing, NewNonce, NewAad
<1>13. PICK g \in V : tag2 = g.tag
  BY <1>12
<1>14. PICK p3, f3, q3, v3, t3, w3, r3 : OcbParts(g, par, p3, f3, q3, v3, t3, w3, r3)
  BY OcbFamily
<1>15. PICK c3, n3, aad3 : c3 = g.ct /\ n3 = g.nonce /\ aad3 = g.aad
  OBVIOUS
<1>16. /\ IsEnvelope(g) /\ g.mode = "ocb" /\ g.par = par
       /\ OcbText("k", c3, n3, p3, q3 + 1, f3, q3, v3, t3, w3, r3) /\ Of(aad3, Plains)
       /\ tag2 = OcbTag("k", f3[q3], aad3, p3)
  BY <1>13, <1>14, <1>15 DEF OcbParts, OwnTag
<1>17. DecryptOcb("k", n2, aad2, c, OcbTag("k", f3[q3], aad3, p3)).ok
  BY <1>9, <1>12, <1>16
<1>18. CASE n2 = n
  <2>1. DecryptOcb("k", n, aad2, c, OcbTag("k", f3[q3], aad3, p3)).ok
    BY <1>17, <1>18
  <2>2. n = n3 /\ aad2 = aad3
    BY <1>7, <1>9, <1>16, <2>1, OwnNonce
  <2>3. e = g
    BY <1>5, <1>15, <2>2
  <2>4. o = e
    BY <1>2, <1>5, <1>6, <1>8, <1>12, <1>13, <1>15, <1>18, <2>2, <2>3, SameEnvelope, ZenonT(60)
  <2> QED
    BY <2>4
<1>19. CASE n2 # n
  <2>1. n2 = n3 /\ aad2 = aad3 /\ c = c3
    BY <1>7, <1>9, <1>16, <1>17, <1>19, OtherNonce
  <2>2. o = g
    BY <1>2, <1>8, <1>12, <1>13, <1>15, <1>16, <2>1, SameEnvelope
  <2> QED
    BY <2>2
<1> QED
  BY <1>18, <1>19

=============================================================================
