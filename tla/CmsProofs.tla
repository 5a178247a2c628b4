----------------------------- MODULE CmsProofs -----------------------------
(***************************************************************************)
(* Proofs about signed data, for every set of keys, IDs, contents, signers *)
(* and lists, and for any number of messages and signers.                  *)
(***************************************************************************)
EXTENDS Cms, SequenceFacts

-----------------------------------------------------------------------------
(* Types.                                                                  *)

Certs      == {c.certificate : c \in Configs}
Encoded    == {Encode(c) : c \in Certs}
Parsed     == {Parse(e) : e \in Encoded}
Instants   == {<< >>} \cup {<< t >> : t \in Time}
Attrs      == [digest : {Digest(c) : c \in Contents}, time : Instants]
Sids       == {IssuerAndSerial(c) : c \in Certs} \cup {SubjectKey(c.key) : c \in Certs}
Signatures == [by : Keys, id : Ids, over : {ForSigning(a) : a \in Attrs}]
Infos      == [sid : Sids, attrs : Attrs, signature : Signatures]
Bodies     == {<< >>} \cup {<< c >> : c \in Contents}

Ders     == [content : Bodies, certificates : Seq(Encoded), crls : Seq(Crls), infos : Seq(Infos)]
Datas    == [content : Bodies, certificates : Seq(Parsed), crls : Seq(Crls), infos : Seq(Infos)]
Messages == [der : Ders, made : Seq(Configs)]
Builders == [content : Contents, signers : Seq(Configs), certificates : Seq(Certs),
             include : BOOLEAN, crls : Seq(Crls)]
Results  == [is_valid : BOOLEAN, signer : Sids, certificate : {<< >>} \cup {<< c >> : c \in Parsed},
             signing_time : Instants]
Checks   == [phase : {"signers", "done"}, message : Messages, settings : Verifiers,
             data : Datas, id : Ids, now : Time, results : Seq(Results), signing_time : Instants]

AtWork == check.phase \in {"signers", "done"}

Typed ==
  /\ clock \in Time
  /\ builder \in Builders
  /\ signing \in BOOLEAN
  /\ infos \in Seq(Infos)
  /\ messages \subseteq Messages
  /\ signed \subseteq Keys \X Ids \X Contents
  /\ check.phase \in {"idle", "error", "signers", "done"}
  /\ AtWork => check \in Checks

-----------------------------------------------------------------------------
(* The invariant.                                                          *)

(* A signature was made over the digest of a content its key has signed:   *)
(* whatever the attributes beside it, its signer's name or the content of  *)
(* the message say by now.                                                 *)
Genuine(info, by_now) ==
  << info.signature.by, info.signature.id, info.signature.over.attrs.digest.sm3 >> \in by_now

AllGenuine ==
  /\ \A i \in DOMAIN infos : Genuine(infos[i], signed)
  /\ \A m \in messages : \A i \in DOMAIN m.der.infos : Genuine(m.der.infos[i], signed)
  /\ AtWork => \A i \in DOMAIN check.data.infos : Genuine(check.data.infos[i], signed)

(* The signature a signer makes of a content, by a given time.             *)
MadeFor(info, config, content, now) ==
  \E t \in Time, include \in BOOLEAN : t <= now /\ info = SignFor(config, content, include, t)

(* A message that remembers its signers has the certificate and the        *)
(* signature of each, in their order.                                      *)
AsMade(m, now) ==
  m.made # << >> =>
    /\ m.der.content # << >>
    /\ Len(m.der.infos) = Len(m.made) /\ Len(m.der.certificates) = Len(m.made)
    /\ \A i \in 1..Len(m.made) :
         /\ m.der.certificates[i] = Encode(m.made[i].certificate)
         /\ MadeFor(m.der.infos[i], m.made[i], m.der.content[1], now)

BuilderInStep ==
  /\ Len(builder.certificates) = Len(builder.signers)
  /\ \A i \in 1..Len(builder.signers) : builder.certificates[i] = builder.signers[i].certificate
  /\ ~signing => infos = << >>
  /\ Len(infos) <= Len(builder.signers)
  /\ \A i \in 1..Len(infos) : MadeFor(infos[i], builder.signers[i], builder.content, clock)

MessagesAsMade == \A m \in messages : AsMade(m, clock)

(* The verdict of one round of the verifier's loop.                        *)
Good(info, data, id, now) ==
  LET cert == CertificateOf(info, data)
  IN  /\ VerifySignerInfo(info, data, id)
      /\ cert # << >> => /\ ValidAt(cert[1], now)
                         /\ ~RevokedBy(cert[1], data.crls)
      /\ cert # << >> /\ info.attrs.time # << >> => ValidAt(cert[1], info.attrs.time[1])

(* Each result so far is the verdict on its signer.                        *)
CheckInStep ==
  AtWork =>
    /\ check.data = ParseSignedData(check.message.der)
    /\ check.data.content # << >>
    /\ check.now <= clock
    /\ AsMade(check.message, check.now)
    /\ Len(check.results) <= Len(check.data.infos)
    /\ \A i \in 1..Len(check.results) :
         /\ check.results[i].signer = check.data.infos[i].sid
         /\ check.results[i].certificate = CertificateOf(check.data.infos[i], check.data)
         /\ check.results[i].is_valid =>
              Good(check.data.infos[i], check.data, check.id, check.now)
         /\ Good(check.data.infos[i], check.data, check.id, check.now) =>
              check.results[i].is_valid

IInv == Typed /\ AllGenuine /\ BuilderInStep /\ MessagesAsMade /\ CheckInStep

-----------------------------------------------------------------------------
(* Certificates, attributes and signatures.                                *)

(* What DER keeps of a version 3 certificate.                              *)
LEMMA ParsedKeeps ==
  ASSUME NEW cert, cert.version = 2
  PROVE  LET p == Parse(Encode(cert))
         IN  /\ p.version = 2 /\ p.issuer = cert.issuer /\ p.serial = cert.serial
             /\ p.key = cert.key /\ p.not_before = cert.not_before
             /\ p.not_after = cert.not_after
<1> DEFINE tbs == Tbs(cert)
           p   == Parse(Encode(cert))
<1>1. /\ tbs.version = << 2 >> /\ tbs.serial = cert.serial /\ tbs.issuer = cert.issuer
      /\ tbs.validity = << cert.not_before, cert.not_after >> /\ tbs.key = cert.key
  BY DEF Tbs
<1> HIDE DEF tbs
<1>2. ParsedVersion(tbs.version) = 2
  BY <1>1 DEF ParsedVersion
<1>3. p = [version    |-> ParsedVersion(tbs.version),
           serial     |-> tbs.serial,
           issuer     |-> tbs.issuer,
           not_before |-> tbs.validity[1],
           not_after  |-> tbs.validity[2],
           subject    |-> tbs.subject,
           key        |-> tbs.key,
           extensions |-> ParsedExtensions(tbs.extensions),
           signature  |-> cert.signature]
  BY DEF Parse, Encode, tbs
<1> HIDE DEF p
<1>4. /\ p.version = 2 /\ p.issuer = cert.issuer /\ p.serial = cert.serial
      /\ p.key = cert.key /\ p.not_before = cert.not_before /\ p.not_after = cert.not_after
  BY <1>1, <1>2, <1>3
<1> QED
  BY <1>4 DEF p

LEMMA AttrsFields ==
  ASSUME NEW content \in Contents, NEW include \in BOOLEAN, NEW t \in Time
  PROVE  LET attrs == SignedAttrs(content, include, t)
         IN  /\ attrs \in Attrs
             /\ attrs.digest = Digest(content) /\ attrs.digest.sm3 = content
             /\ attrs.time = << >> \/ attrs.time = << t >>
BY DEF SignedAttrs, Attrs, Instants, Digest

(* A signature of a configuration: its fields, and whose it is.            *)
LEMMA SignForFields ==
  ASSUME NEW config \in Configs, NEW content \in Contents, NEW include \in BOOLEAN,
         NEW t \in Time
  PROVE  LET info == SignFor(config, content, include, t)
         IN  /\ info \in Infos
             /\ info.sid = IssuerAndSerial(config.certificate)
             /\ info.attrs.digest = Digest(content)
             /\ info.attrs.time = << >> \/ info.attrs.time = << t >>
             /\ info.signature = Sign(config.key, config.id, ForSigning(info.attrs))
             /\ info.signature.by = config.key /\ info.signature.id = config.id
             /\ info.signature.over.attrs.digest.sm3 = content
<1> DEFINE attrs == SignedAttrs(content, include, t)
           sig   == Sign(config.key, config.id, ForSigning(attrs))
           info  == SignFor(config, content, include, t)
<1>1. info = [sid |-> IssuerAndSerial(config.certificate), attrs |-> attrs, signature |-> sig]
  BY DEF SignFor, SignerInfo
<1>2. /\ attrs \in Attrs
      /\ attrs.digest = Digest(content) /\ attrs.digest.sm3 = content
      /\ attrs.time = << >> \/ attrs.time = << t >>
  BY AttrsFields
<1> HIDE DEF attrs
<1>3. /\ sig \in Signatures /\ sig.by = config.key /\ sig.id = config.id
      /\ sig.over.attrs = attrs
  BY <1>2, ConfigAssumption DEF Sign, ForSigning, Signatures
<1>4. IssuerAndSerial(config.certificate) \in Sids
  BY DEF Sids, Certs
<1> HIDE DEF info
<1>5. /\ info.sid = IssuerAndSerial(config.certificate) /\ info.attrs = attrs
      /\ info.signature = sig
  BY <1>1
<1>6. info \in Infos
  <2> HIDE DEF sig
  <2> QED BY <1>1, <1>2, <1>3, <1>4 DEF Infos
<1> QED
  BY <1>2, <1>3, <1>5, <1>6 DEF info

(* The certificate a signer is named by is the first of that name, and     *)
(* there is one if any certificate has that name.                          *)
LEMMA NamedFirst ==
  ASSUME NEW S, NEW certificates \in Seq(S), NEW sid
  PROVE  LET i == FirstNamed(certificates, sid)
         IN  /\ i # 0 => i \in 1..Len(certificates) /\ sid = IssuerAndSerial(certificates[i])
             /\ \A k \in 1..Len(certificates) : sid = IssuerAndSerial(certificates[k]) => i # 0
<1> DEFINE I == {k \in 1..Len(certificates) : sid = IssuerAndSerial(certificates[k])}
<1>1. FirstNamed(certificates, sid) = IF I # {} THEN Min(I) ELSE 0
  BY DEF FirstNamed, SelectInSeq
<1>2. I \subseteq Nat /\ 0 \notin I
  OBVIOUS
<1> HIDE DEF I
<1>3. I # {} => Min(I) \in I
  BY <1>2, MinLeast
<1>4. \A k \in I : k \in 1..Len(certificates) /\ sid = IssuerAndSerial(certificates[k])
  BY DEF I
<1>5. \A k \in 1..Len(certificates) : sid = IssuerAndSerial(certificates[k]) => k \in I
  BY DEF I
<1> QED
  BY <1>1, <1>2, <1>3, <1>4, <1>5

(* The certificate the verifier's loop looks at has the signer's name.     *)
LEMMA CertificateNamed ==
  ASSUME NEW S, NEW info, NEW data, data.certificates \in Seq(S)
  PROVE  LET cert == CertificateOf(info, data)
         IN  cert = << >> \/ /\ cert = << cert[1] >> /\ cert[1] \in S
                             /\ info.sid = IssuerAndSerial(cert[1])
                             /\ cert = FindSigner(data.certificates, info.sid)
<1> DEFINE i == FirstNamed(data.certificates, info.sid)
<1>1. i # 0 => i \in 1..Len(data.certificates) /\ info.sid = IssuerAndSerial(data.certificates[i])
  BY NamedFirst
<1>2. i # 0 => data.certificates[i] \in S
  BY <1>1, ElementOfSeq
<1>3. info.sid.tag = "issuerAndSerialNumber" => CertificateOf(info, data) = At(data.certificates, i)
  BY DEF CertificateOf, FindSigner
<1>4. info.sid.tag = "issuerAndSerialNumber" =>
        CertificateOf(info, data) = FindSigner(data.certificates, info.sid)
  BY DEF CertificateOf
<1>5. info.sid.tag # "issuerAndSerialNumber" => CertificateOf(info, data) = << >>
  BY DEF CertificateOf
<1> HIDE DEF i
<1> QED
  BY <1>1, <1>2, <1>3, <1>4, <1>5 DEF At

-----------------------------------------------------------------------------
(* What a step that leaves a part alone keeps of the invariant.            *)

LEMMA CheckKept ==
  ASSUME CheckInStep, clock \in Int, clock' \in Int, clock <= clock', check' = check,
         AtWork => check.now \in Int
  PROVE  CheckInStep'
BY DEF CheckInStep, AtWork

LEMMA NobodyChecks ==
  ASSUME check'.phase \in {"idle", "error"}
  PROVE  /\ ~ AtWork'
         /\ CheckInStep'
         /\ (AtWork => check \in Checks)'
         /\ (AtWork => \A i \in DOMAIN check.data.infos : Genuine(check.data.infos[i], signed))'
BY DEF CheckInStep, AtWork

LEMMA StillIdle ==
  ASSUME check = Idle, check' = check
  PROVE  check'.phase \in {"idle", "error"} /\ check'.phase = "idle"
BY DEF Idle

LEMMA GenuineLater ==
  ASSUME NEW info, NEW s, NEW t, s \subseteq t, Genuine(info, s)
  PROVE  Genuine(info, t)
BY DEF Genuine

(* What has been signed stays signed.                                      *)
LEMMA StaysGenuine ==
  ASSUME AllGenuine, signed \subseteq signed', messages' = messages, check' = check,
         \A i \in DOMAIN infos' : Genuine(infos'[i], signed')
  PROVE  AllGenuine'
<1>1. \A m \in messages : \A i \in DOMAIN m.der.infos : Genuine(m.der.infos[i], signed')
  BY GenuineLater DEF AllGenuine
<1>2. AtWork => \A i \in DOMAIN check.data.infos : Genuine(check.data.infos[i], signed')
  BY GenuineLater DEF AllGenuine
<1>3. AtWork' <=> AtWork
  BY DEF AtWork
<1> QED
  BY <1>1, <1>2, <1>3 DEF AllGenuine

(* A message stays as made when time goes by.                              *)
LEMMA MadeLater ==
  ASSUME NEW m, NEW s \in Nat, NEW t \in Nat, s <= t, AsMade(m, s)
  PROVE  AsMade(m, t)
<1>1. ASSUME NEW info, NEW config, NEW content, MadeFor(info, config, content, s)
      PROVE  MadeFor(info, config, content, t)
  BY <1>1, TimeAssumption DEF MadeFor
<1> QED
  BY <1>1 DEF AsMade

-----------------------------------------------------------------------------
(* The steps.                                                              *)

LEMMA InitIInv == Init => IInv
<1> SUFFICES ASSUME Init PROVE IInv
  OBVIOUS
<1>1. /\ clock \in Time /\ builder = New /\ signing = FALSE /\ infos = << >>
      /\ messages = {} /\ signed = {} /\ check.phase = "idle"
  BY DEF Init, Idle
<1>2. New \in Builders
  <2>1. << >> \in Seq(Configs) /\ << >> \in Seq(Certs) /\ << >> \in Seq(Crls)
    OBVIOUS
  <2> QED
    BY <2>1, EmptyAssumption DEF New, Builders
<1>3. << >> \in Seq(Infos)
  OBVIOUS
<1>4. Typed
  BY <1>1, <1>2, <1>3, ZenonT(60) DEF Typed, AtWork
<1>5. AllGenuine
  BY <1>1 DEF AllGenuine, AtWork
<1>6. BuilderInStep
  BY <1>1 DEF BuilderInStep, New
<1>7. MessagesAsMade /\ CheckInStep
  BY <1>1 DEF MessagesAsMade, CheckInStep, AtWork
<1> QED
  BY <1>4, <1>5, <1>6, <1>7 DEF IInv

(* A call of the builder that keeps certificates and signers in step.      *)
LEMMA BuildStep ==
  ASSUME IInv, NEW next \in Builders, Build(next),
         Len(next.certificates) = Len(next.signers),
         \A i \in 1..Len(next.signers) : next.certificates[i] = next.signers[i].certificate
  PROVE  IInv'
<1>1. /\ check = Idle /\ ~signing /\ builder' = next
      /\ clock' = clock /\ signing' = signing /\ infos' = infos /\ messages' = messages
      /\ check' = check /\ signed' = signed
  BY DEF Build, Building
<1>2. Typed /\ AllGenuine /\ BuilderInStep /\ MessagesAsMade
  BY DEF IInv
<1>3. check'.phase \in {"idle", "error"}
  BY <1>1, StillIdle
<1>4. Typed'
  BY <1>1, <1>2, <1>3, NobodyChecks, SMTT(30) DEF Typed
<1>5. AllGenuine'
  BY <1>1, <1>2, <1>3, NobodyChecks DEF AllGenuine, Genuine
<1>6. BuilderInStep'
  <2>1. infos' = << >>
    BY <1>1, <1>2 DEF BuilderInStep
  <2>2. Len(next.signers) \in Nat
    BY DEF Builders
  <2> QED
    BY <1>1, <2>1, <2>2 DEF BuilderInStep
<1>7. MessagesAsMade' /\ CheckInStep'
  BY <1>1, <1>2, <1>3, NobodyChecks DEF MessagesAsMade
<1> QED
  BY <1>4, <1>5, <1>6, <1>7 DEF IInv

(* The calls of the builder: content, signers, settings, lists.            *)
LEMMA BuilderCalls ==
  ASSUME IInv,
         \/ \E content \in Contents : SetContent(content)
         \/ \E config \in Configs : AddSigner(config)
         \/ \E include \in BOOLEAN : IncludeSigningTime(include)
         \/ \E crl \in Crls : AddCrl(crl)
         \/ SignNothing
  PROVE  IInv'
<1>1. /\ builder \in Builders
      /\ Len(builder.certificates) = Len(builder.signers)
      /\ \A i \in 1..Len(builder.signers) :
           builder.certificates[i] = builder.signers[i].certificate
  BY DEF IInv, Typed, BuilderInStep
<1>2. /\ builder.signers \in Seq(Configs) /\ builder.certificates \in Seq(Certs)
      /\ builder.crls \in Seq(Crls)
  BY <1>1 DEF Builders
<1>3. ASSUME NEW content \in Contents, SetContent(content) PROVE IInv'
  <2> DEFINE next == [builder EXCEPT !.content = content]
  <2>1. next \in Builders /\ next.signers = builder.signers
        /\ next.certificates = builder.certificates
    BY <1>1 DEF Builders
  <2>2. Build(next)
    BY <1>3 DEF SetContent
  <2> HIDE DEF next
  <2> QED
    BY <1>1, <2>1, <2>2, BuildStep
<1>4. ASSUME NEW config \in Configs, AddSigner(config) PROVE IInv'
  <2> DEFINE signers      == Append(builder.signers, config)
             certificates == Append(builder.certificates, config.certificate)
             next         == [builder EXCEPT !.signers      = signers,
                                             !.certificates = certificates]
  <2>1. config.certificate \in Certs
    BY DEF Certs
  <2>2. signers \in Seq(Configs) /\ certificates \in Seq(Certs)
    BY <1>2, <2>1
  <2>3. /\ Len(signers) = Len(builder.signers) + 1
        /\ Len(certificates) = Len(signers)
        /\ \A i \in 1..Len(signers) : certificates[i] = signers[i].certificate
    <3>1. /\ Len(signers) = Len(builder.signers) + 1
          /\ \A i \in 1..Len(builder.signers) : signers[i] = builder.signers[i]
          /\ signers[Len(builder.signers) + 1] = config
      BY <1>2, AppendProperties
    <3>2. /\ Len(certificates) = Len(builder.certificates) + 1
          /\ \A i \in 1..Len(builder.certificates) : certificates[i] = builder.certificates[i]
          /\ certificates[Len(builder.certificates) + 1] = config.certificate
      BY <1>2, <2>1, AppendProperties
    <3>3. Len(builder.signers) \in Nat
      BY <1>2
    <3> HIDE DEF signers, certificates
    <3>4. Len(certificates) = Len(signers)
      BY <1>1, <3>1, <3>2
    <3>5. ASSUME NEW i \in 1..Len(signers) PROVE certificates[i] = signers[i].certificate
      BY <1>1, <3>1, <3>2, <3>3
    <3> QED
      BY <3>1, <3>4, <3>5
  <2>4. Build(next)
    BY <1>4 DEF AddSigner
  <2> HIDE DEF signers, certificates
  <2>5. next \in Builders /\ next.signers = signers /\ next.certificates = certificates
    BY <1>1, <2>2 DEF Builders
  <2> HIDE DEF next
  <2> QED
    BY <2>3, <2>4, <2>5, BuildStep
<1>5. ASSUME NEW include \in BOOLEAN, IncludeSigningTime(include) PROVE IInv'
  <2> DEFINE next == [builder EXCEPT !.include = include]
  <2>1. next \in Builders /\ next.signers = builder.signers
        /\ next.certificates = builder.certificates
    BY <1>1 DEF Builders
  <2>2. Build(next)
    BY <1>5 DEF IncludeSigningTime
  <2> HIDE DEF next
  <2> QED
    BY <1>1, <2>1, <2>2, BuildStep
<1>6. ASSUME NEW crl \in Crls, AddCrl(crl) PROVE IInv'
  <2> DEFINE crls == Append(builder.crls, crl)
             next == [builder EXCEPT !.crls = crls]
  <2>1. crls \in Seq(Crls)
    BY <1>2
  <2>2. Build(next)
    BY <1>6 DEF AddCrl
  <2> HIDE DEF crls
  <2>3. next \in Builders /\ next.signers = builder.signers
        /\ next.certificates = builder.certificates
    BY <1>1, <2>1, SMTT(30) DEF Builders
  <2> HIDE DEF next
  <2> QED
    BY <1>1, <2>2, <2>3, BuildStep
<1>7. CASE SignNothing
  <2>1. New \in Builders
    <3>1. << >> \in Seq(Configs) /\ << >> \in Seq(Certs) /\ << >> \in Seq(Crls)
      OBVIOUS
    <3> QED
      BY <3>1, EmptyAssumption DEF New, Builders
  <2>2. New.signers = << >> /\ New.certificates = << >> /\ Build(New)
    BY <1>7 DEF New, SignNothing
  <2> QED
    BY <2>1, <2>2, BuildStep
<1> QED
  BY <1>3, <1>4, <1>5, <1>6, <1>7

LEMMA SignStartStep ==
  ASSUME IInv, SignStart
  PROVE  IInv'
<1>1. /\ check = Idle /\ signing' = TRUE /\ ~signing
      /\ clock' = clock /\ builder' = builder /\ infos' = infos /\ messages' = messages
      /\ check' = check /\ signed' = signed
  BY DEF SignStart, Building
<1>2. check'.phase \in {"idle", "error"}
  BY <1>1, StillIdle
<1>3. Typed'
  BY <1>1, <1>2, NobodyChecks, SMTT(30) DEF IInv, Typed
<1>4. AllGenuine'
  BY <1>1, <1>2, NobodyChecks DEF IInv, AllGenuine, Genuine
<1>5. BuilderInStep'
  BY <1>1 DEF IInv, BuilderInStep
<1>6. MessagesAsMade' /\ CheckInStep'
  BY <1>1, <1>2, NobodyChecks DEF IInv, MessagesAsMade
<1> QED
  BY <1>3, <1>4, <1>5, <1>6 DEF IInv

(* A signature is added for the next signer, and what it signs is          *)
(* remembered.                                                             *)
LEMMA SignOneStep ==
  ASSUME IInv, SignOne
  PROVE  IInv'
<1> DEFINE n      == Len(infos) + 1
           config == builder.signers[n]
           info   == SignFor(config, builder.content, builder.include, clock)
<1>1. /\ signing /\ Len(infos) < Len(builder.signers)
      /\ infos' = Append(infos, info)
      /\ signed' = signed \cup {<< config.key, config.id, builder.content >>}
      /\ clock' = clock /\ builder' = builder /\ signing' = signing
      /\ messages' = messages /\ check' = check
  BY DEF SignOne
<1>2. /\ clock \in Time /\ builder \in Builders /\ infos \in Seq(Infos)
      /\ signed \subseteq Keys \X Ids \X Contents
  BY DEF IInv, Typed
<1>3. /\ builder.signers \in Seq(Configs) /\ builder.content \in Contents
      /\ builder.include \in BOOLEAN
  BY <1>2 DEF Builders
<1>4. n \in 1..Len(builder.signers) /\ config \in Configs
  BY <1>1, <1>2, <1>3, ElementOfSeq
<1> HIDE DEF config
<1>5. /\ info \in Infos
      /\ info.signature.by = config.key /\ info.signature.id = config.id
      /\ info.signature.over.attrs.digest.sm3 = builder.content
  BY <1>2, <1>3, <1>4, SignForFields
<1>6. MadeFor(info, config, builder.content, clock)
  BY <1>2, <1>3, TimeAssumption DEF MadeFor
<1> HIDE DEF info
<1>7. /\ infos' \in Seq(Infos) /\ Len(infos') = n /\ infos'[n] = info
      /\ \A i \in 1..Len(infos) : infos'[i] = infos[i]
      /\ DOMAIN infos' = 1..n /\ DOMAIN infos = 1..Len(infos)
  BY <1>1, <1>2, <1>5, AppendProperties, LenProperties
<1>8. Len(infos) \in Nat
  BY <1>2
<1>9. Typed'
  BY <1>1, <1>2, <1>3, <1>4, <1>7, ConfigAssumption DEF IInv, Typed, AtWork
<1>10. AllGenuine'
  <2>1. ASSUME NEW i \in DOMAIN infos' PROVE Genuine(infos'[i], signed')
    <3>1. CASE i = n
      <4>1. << config.key, config.id, builder.content >> \in signed'
        BY <1>1
      <4> QED
        BY <1>5, <1>7, <3>1, <4>1 DEF Genuine
    <3>2. CASE i # n
      <4>1. i \in DOMAIN infos /\ infos'[i] = infos[i]
        BY <1>7, <1>8, <3>2
      <4>2. Genuine(infos[i], signed)
        BY <4>1 DEF IInv, AllGenuine
      <4> QED
        BY <1>1, <4>1, <4>2, GenuineLater
    <3> QED
      BY <3>1, <3>2
  <2> QED
    BY <1>1, <2>1, StaysGenuine DEF IInv
<1>11. BuilderInStep'
  <2>1. ASSUME NEW i \in 1..Len(infos')
        PROVE  MadeFor(infos'[i], builder.signers[i], builder.content, clock)
    <3>1. CASE i = n
      BY <1>6, <1>7, <3>1 DEF config
    <3>2. CASE i # n
      <4>1. i \in 1..Len(infos) /\ infos'[i] = infos[i]
        BY <1>7, <1>8, <3>2
      <4> QED
        BY <4>1 DEF IInv, BuilderInStep
    <3> QED
      BY <3>1, <3>2
  <2>2. Len(infos') <= Len(builder.signers)
    BY <1>4, <1>7
  <2>3. /\ Len(builder.certificates) = Len(builder.signers)
        /\ \A i \in 1..Len(builder.signers) :
             builder.certificates[i] = builder.signers[i].certificate
    BY DEF IInv, BuilderInStep
  <2> QED
    BY <1>1, <2>1, <2>2, <2>3 DEF BuilderInStep, MadeFor
<1>12. MessagesAsMade'
  BY <1>1 DEF IInv, MessagesAsMade
<1>13. CheckInStep'
  BY <1>1 DEF IInv, CheckInStep, AtWork
<1> QED
  BY <1>9, <1>10, <1>11, <1>12, <1>13 DEF IInv

(* A message appears, or takes the place of others.                        *)
LEMMA MessageStep ==
  ASSUME IInv, clock' = clock, check' = check,
         signed \subseteq signed', signed' \subseteq Keys \X Ids \X Contents,
         builder' \in Builders, signing' \in BOOLEAN, infos' \in Seq(Infos), BuilderInStep',
         \A i \in DOMAIN infos' : Genuine(infos'[i], signed'),
         NEW m \in Messages, messages' \subseteq messages \cup {m}, AsMade(m, clock),
         \A i \in DOMAIN m.der.infos : Genuine(m.der.infos[i], signed')
  PROVE  IInv'
<1>1. AtWork' <=> AtWork
  BY DEF AtWork
<1>2. Typed'
  BY <1>1 DEF IInv, Typed
<1>3. AllGenuine'
  <2>1. \A k \in messages : \A i \in DOMAIN k.der.infos : Genuine(k.der.infos[i], signed')
    BY GenuineLater DEF IInv, AllGenuine
  <2>2. AtWork => \A i \in DOMAIN check.data.infos : Genuine(check.data.infos[i], signed')
    BY GenuineLater DEF IInv, AllGenuine
  <2> QED
    BY <1>1, <2>1, <2>2 DEF AllGenuine
<1>4. MessagesAsMade'
  <2>1. \A k \in messages' : AsMade(k, clock)
    BY DEF IInv, MessagesAsMade
  <2> QED
    BY <2>1 DEF MessagesAsMade
<1>5. CheckInStep'
  BY <1>1 DEF IInv, CheckInStep
<1> QED
  BY <1>2, <1>3, <1>4, <1>5 DEF IInv

(* The certificates of signers as DER.                                     *)
LEMMA EncodedCertificates ==
  ASSUME NEW certificates \in Seq(Certs)
  PROVE  LET encoded == [i \in DOMAIN certificates |-> Encode(certificates[i])]
         IN  /\ encoded \in Seq(Encoded) /\ Len(encoded) = Len(certificates)
             /\ \A i \in 1..Len(certificates) : encoded[i] = Encode(certificates[i])
<1> DEFINE encoded == [i \in DOMAIN certificates |-> Encode(certificates[i])]
<1>1. /\ Len(certificates) \in Nat /\ DOMAIN certificates = 1..Len(certificates)
      /\ \A i \in 1..Len(certificates) : certificates[i] \in Certs
  BY LenProperties, ElementOfSeq
<1>2. encoded \in [1..Len(certificates) -> Encoded]
  BY <1>1 DEF Encoded
<1>3. \A i \in 1..Len(certificates) : encoded[i] = Encode(certificates[i])
  BY <1>1
<1> HIDE DEF encoded
<1>4. encoded \in Seq(Encoded) /\ Len(encoded) = Len(certificates)
  BY <1>1, <1>2
<1> QED
  BY <1>3, <1>4 DEF encoded

(* sign() returns: the message is as its signers made it.                  *)
LEMMA SignDoneStep ==
  ASSUME IInv, SignDone
  PROVE  IInv'
<1> DEFINE der == EncodeSignedData(builder.content, builder.certificates, builder.crls, infos)
           m   == Message(der, builder.signers)
           encoded == [i \in DOMAIN builder.certificates |-> Encode(builder.certificates[i])]
<1>1. /\ signing /\ Len(infos) = Len(builder.signers)
      /\ messages' = messages \cup {m} /\ builder' = New /\ signing' = FALSE /\ infos' = << >>
      /\ clock' = clock /\ check' = check /\ signed' = signed
  BY DEF SignDone
<1>2. /\ clock \in Time /\ builder \in Builders /\ infos \in Seq(Infos)
      /\ signed \subseteq Keys \X Ids \X Contents
  BY DEF IInv, Typed
<1>3. /\ builder.signers \in Seq(Configs) /\ builder.content \in Contents
      /\ builder.certificates \in Seq(Certs) /\ builder.crls \in Seq(Crls)
  BY <1>2 DEF Builders
<1>4. /\ encoded \in Seq(Encoded) /\ Len(encoded) = Len(builder.certificates)
      /\ \A i \in 1..Len(builder.certificates) : encoded[i] = Encode(builder.certificates[i])
  BY <1>3, EncodedCertificates
<1>5. der = [content |-> << builder.content >>, certificates |-> encoded,
             crls |-> builder.crls, infos |-> infos]
  BY DEF EncodeSignedData
<1> HIDE DEF der, encoded
<1>6. der \in Ders
  BY <1>2, <1>3, <1>4, <1>5 DEF Ders, Bodies
<1>7. m \in Messages /\ m.der = der /\ m.made = builder.signers
  BY <1>3, <1>6 DEF Message, Messages
<1>8. /\ der.content = << builder.content >> /\ der.content[1] = builder.content
      /\ der.content # << >> /\ der.certificates = encoded /\ der.infos = infos
  BY <1>5
<1> HIDE DEF m
<1>9. AsMade(m, clock)
  <2>1. /\ Len(encoded) = Len(builder.signers)
        /\ \A i \in 1..Len(builder.signers) : encoded[i] = Encode(builder.signers[i].certificate)
    BY <1>4 DEF IInv, BuilderInStep
  <2>2. \A i \in 1..Len(builder.signers) :
          MadeFor(infos[i], builder.signers[i], builder.content, clock)
    BY <1>1 DEF IInv, BuilderInStep
  <2> QED
    BY <1>1, <1>7, <1>8, <2>1, <2>2 DEF AsMade
<1>10. \A i \in DOMAIN m.der.infos : Genuine(m.der.infos[i], signed')
  BY <1>1, <1>7, <1>8 DEF IInv, AllGenuine
<1>11. New \in Builders /\ New.signers = << >> /\ New.certificates = << >>
  <2>1. << >> \in Seq(Configs) /\ << >> \in Seq(Certs) /\ << >> \in Seq(Crls)
    OBVIOUS
  <2> QED
    BY <2>1, EmptyAssumption DEF New, Builders
<1>12. BuilderInStep'
  BY <1>1, <1>11 DEF BuilderInStep
<1>13. infos' \in Seq(Infos) /\ \A i \in DOMAIN infos' : Genuine(infos'[i], signed')
  BY <1>1
<1>14. /\ signed \subseteq signed' /\ signed' \subseteq Keys \X Ids \X Contents
       /\ builder' \in Builders /\ signing' \in BOOLEAN /\ messages' \subseteq messages \cup {m}
  BY <1>1, <1>2, <1>11
<1> QED
  BY <1>1, <1>7, <1>9, <1>10, <1>12, <1>13, <1>14, MessageStep

(* create_digital_signature() makes a message of one signer at once.       *)
LEMMA CreateStep ==
  ASSUME IInv, NEW config \in Configs, NEW content \in Contents, NEW include \in BOOLEAN,
         CreateDigitalSignature(config, content, include)
  PROVE  IInv'
<1> DEFINE certificates == << config.certificate >>
           encoded == [i \in DOMAIN certificates |-> Encode(certificates[i])]
           info == SignFor(config, content, include, clock)
           der  == EncodeSignedData(content, certificates, << >>, << info >>)
           m    == Message(der, << config >>)
<1>1. /\ messages' = messages \cup {m}
      /\ signed' = signed \cup {<< config.key, config.id, content >>}
      /\ clock' = clock /\ builder' = builder /\ signing' = signing /\ infos' = infos
      /\ check' = check
  BY DEF CreateDigitalSignature
<1>2. /\ clock \in Time /\ builder \in Builders /\ infos \in Seq(Infos) /\ signing \in BOOLEAN
      /\ signed \subseteq Keys \X Ids \X Contents
  BY DEF IInv, Typed
<1>3. /\ info \in Infos
      /\ info.signature.by = config.key /\ info.signature.id = config.id
      /\ info.signature.over.attrs.digest.sm3 = content
  BY <1>2, SignForFields
<1>4. MadeFor(info, config, content, clock)
  BY <1>2, TimeAssumption DEF MadeFor
<1> HIDE DEF info
<1>5. certificates \in Seq(Certs) /\ Len(certificates) = 1 /\ certificates[1] = config.certificate
  BY DEF Certs
<1>6. der = [content |-> << content >>, certificates |-> encoded, crls |-> << >>,
             infos |-> << info >>]
  BY DEF EncodeSignedData
<1> HIDE DEF certificates, der
<1>7. encoded \in Seq(Encoded) /\ Len(encoded) = 1
      /\ encoded[1] = Encode(config.certificate)
  <2>1. 1 \in 1..Len(certificates)
    BY <1>5
  <2> QED
    BY <1>5, <2>1, EncodedCertificates
<1> HIDE DEF encoded
<1>8. << info >> \in Seq(Infos) /\ << config >> \in Seq(Configs) /\ << >> \in Seq(Crls)
  BY <1>3
<1>9. der \in Ders
  BY <1>6, <1>7, <1>8 DEF Ders, Bodies
<1>10. m \in Messages /\ m.der = der /\ m.made = << config >>
  BY <1>8, <1>9 DEF Message, Messages
<1> HIDE DEF m
<1>11. /\ der.content = << content >> /\ der.content # << >> /\ der.content[1] = content
       /\ der.certificates = encoded /\ der.infos = << info >>
  BY <1>6
<1>12. AsMade(m, clock)
  BY <1>4, <1>7, <1>10, <1>11 DEF AsMade
<1>13. \A i \in DOMAIN m.der.infos : Genuine(m.der.infos[i], signed')
  <2>1. << config.key, config.id, content >> \in signed'
    BY <1>1
  <2>2. Genuine(info, signed')
    BY <1>3, <2>1 DEF Genuine
  <2> QED
    BY <1>10, <1>11, <2>2
<1>14. BuilderInStep'
  BY <1>1 DEF IInv, BuilderInStep, MadeFor
<1>15. \A i \in DOMAIN infos' : Genuine(infos'[i], signed')
  BY <1>1, GenuineLater DEF IInv, AllGenuine
<1>16. /\ signed \subseteq signed' /\ builder' \in Builders /\ signing' \in BOOLEAN
       /\ infos' \in Seq(Infos) /\ messages' \subseteq messages \cup {m}
  BY <1>1, <1>2
<1>17. signed' \subseteq Keys \X Ids \X Contents
  BY <1>1, <1>2, ConfigAssumption
<1> QED
  BY <1>1, <1>10, <1>12, <1>13, <1>14, <1>15, <1>16, <1>17, MessageStep

(* A message that is altered no longer remembers who made it; all that has *)
(* to be shown is that its signatures stay signatures of their signers.    *)
LEMMA AlterStep ==
  ASSUME IInv, NEW m \in messages, NEW der \in Ders, Alter(m, der),
         \A i \in DOMAIN der.infos : Genuine(der.infos[i], signed)
  PROVE  IInv'
<1> DEFINE altered == Message(der, << >>)
<1>1. /\ messages' = (messages \ {m}) \cup {altered}
      /\ clock' = clock /\ builder' = builder /\ signing' = signing /\ infos' = infos
      /\ check' = check /\ signed' = signed
  BY DEF Alter
<1>2. /\ builder \in Builders /\ infos \in Seq(Infos) /\ signing \in BOOLEAN
      /\ signed \subseteq Keys \X Ids \X Contents
  BY DEF IInv, Typed
<1>3. << >> \in Seq(Configs)
  OBVIOUS
<1>4. altered \in Messages /\ altered.der = der /\ altered.made = << >>
  BY <1>3 DEF Message, Messages
<1> HIDE DEF altered
<1>5. AsMade(altered, clock)
  BY <1>4 DEF AsMade
<1>6. \A i \in DOMAIN altered.der.infos : Genuine(altered.der.infos[i], signed')
  BY <1>1, <1>4
<1>7. BuilderInStep'
  BY <1>1 DEF IInv, BuilderInStep, MadeFor
<1>8. \A i \in DOMAIN infos' : Genuine(infos'[i], signed')
  BY <1>1 DEF IInv, AllGenuine
<1>9. /\ signed \subseteq signed' /\ signed' \subseteq Keys \X Ids \X Contents
      /\ builder' \in Builders /\ signing' \in BOOLEAN /\ infos' \in Seq(Infos)
      /\ messages' \subseteq messages \cup {altered}
  BY <1>1, <1>2
<1> QED
  BY <1>1, <1>4, <1>5, <1>6, <1>7, <1>8, <1>9, MessageStep

(* Another value for the name or the attributes of one signer leaves every *)
(* signature as it was.                                                    *)
LEMMA InfoReplaced ==
  ASSUME IInv, NEW m \in messages, NEW i \in DOMAIN m.made, NEW other \in Infos,
         other.signature = m.der.infos[i].signature
  PROVE  LET der == [m.der EXCEPT !.infos = [@ EXCEPT ![i] = other]]
         IN  der \in Ders /\ \A j \in DOMAIN der.infos : Genuine(der.infos[j], signed)
<1> DEFINE old == m.der.infos
           new == [old EXCEPT ![i] = other]
           der == [m.der EXCEPT !.infos = new]
<1>1. m \in Messages /\ m.der \in Ders /\ m.made \in Seq(Configs)
  BY DEF IInv, Typed, Messages
<1>2. old \in Seq(Infos) /\ i \in 1..Len(m.made)
  BY <1>1 DEF Ders
<1>3. new \in Seq(Infos) /\ DOMAIN new = DOMAIN old
  <2>1. DOMAIN new = DOMAIN old
    OBVIOUS
  <2>2. old \in [1..Len(old) -> Infos] /\ Len(old) \in Nat
    BY <1>2, LenProperties, ElementOfSeq
  <2> HIDE DEF old
  <2>3. new \in [1..Len(old) -> Infos]
    BY <2>2
  <2> HIDE DEF new
  <2> QED
    BY <2>1, <2>2, <2>3
<1>4. \A j \in DOMAIN old : Genuine(old[j], signed)
  BY DEF IInv, AllGenuine
<1>5. ASSUME NEW j \in DOMAIN new PROVE Genuine(new[j], signed)
  <2>1. new[j] = IF j = i THEN other ELSE old[j]
    BY <1>2, <1>3
  <2>2. Genuine(old[j], signed)
    BY <1>3, <1>4
  <2> HIDE DEF new, old
  <2>3. CASE j = i
    <3>1. new[j].signature = old[j].signature
      BY <2>1, <2>3 DEF old
    <3> QED
      BY <2>2, <3>1 DEF Genuine
  <2>4. CASE j # i
    BY <2>1, <2>2, <2>4
  <2> QED
    BY <2>3, <2>4
<1> HIDE DEF new
<1>6. der \in Ders /\ der.infos = new
  BY <1>1, <1>3 DEF Ders
<1> HIDE DEF der
<1>7. der \in Ders /\ \A j \in DOMAIN der.infos : Genuine(der.infos[j], signed)
  BY <1>5, <1>6
<1> QED
  BY <1>7 DEF der, new

LEMMA AlteredSteps ==
  ASSUME IInv,
         \/ \E m \in messages, content \in {<< >>} \cup {<< c >> : c \in Contents} :
              AlterContent(m, content)
         \/ \E m \in messages : \E i \in DOMAIN m.made, content \in Contents :
              AlterAttrs(m, i, content)
         \/ \E m \in messages : DropCertificates(m)
         \/ \E m \in messages : \E i \in DOMAIN m.made : NameByKey(m, i)
  PROVE  IInv'
<1>1. ASSUME NEW m \in messages
      PROVE  /\ m.der \in Ders /\ m.made \in Seq(Configs) /\ m.der.infos \in Seq(Infos)
             /\ \A i \in DOMAIN m.der.infos : Genuine(m.der.infos[i], signed)
             /\ \A i \in DOMAIN m.made : m.made[i] \in Configs /\ m.der.infos[i] \in Infos
  <2>1. m.der \in Ders /\ m.made \in Seq(Configs)
    BY DEF IInv, Typed, Messages
  <2>2. m.der.infos \in Seq(Infos)
    BY <2>1 DEF Ders
  <2>3. \A i \in DOMAIN m.der.infos : Genuine(m.der.infos[i], signed)
    BY DEF IInv, AllGenuine
  <2>4. m.made # << >> => Len(m.der.infos) = Len(m.made)
    BY DEF IInv, MessagesAsMade, AsMade
  <2>5. DOMAIN m.made = 1..Len(m.made) /\ DOMAIN m.der.infos = 1..Len(m.der.infos)
        /\ Len(m.made) \in Nat
    BY <2>1, <2>2, LenProperties
  <2>6. ASSUME NEW i \in DOMAIN m.made PROVE m.made[i] \in Configs /\ m.der.infos[i] \in Infos
    <3>1. m.made # << >> /\ i \in 1..Len(m.made)
      BY <2>1, <2>5
    <3> QED
      BY <2>1, <2>2, <2>4, <3>1, ElementOfSeq
  <2> QED
    BY <2>1, <2>2, <2>3, <2>6
<1>2. ASSUME NEW m \in messages, NEW content \in Bodies, AlterContent(m, content) PROVE IInv'
  <2> DEFINE der == [m.der EXCEPT !.content = content]
  <2>1. der \in Ders /\ der.infos = m.der.infos
    BY <1>1 DEF Ders
  <2>2. Alter(m, der)
    BY <1>2 DEF AlterContent
  <2> HIDE DEF der
  <2> QED
    BY <1>1, <2>1, <2>2, AlterStep
<1>3. ASSUME NEW m \in messages, NEW i \in DOMAIN m.made, NEW content \in Contents,
             AlterAttrs(m, i, content)
      PROVE  IInv'
  <2> DEFINE old   == m.der.infos[i]
             other == [old EXCEPT !.attrs.digest = Digest(content)]
             der   == [m.der EXCEPT !.infos = [@ EXCEPT ![i] = other]]
  <2>1. old \in Infos
    BY <1>1
  <2>2. Alter(m, der)
    BY <1>3 DEF AlterAttrs
  <2> HIDE DEF old
  <2>3. other \in Infos /\ other.signature = old.signature
    <3>1. old.attrs \in Attrs
      BY <2>1 DEF Infos
    <3>2. [old.attrs EXCEPT !.digest = Digest(content)] \in Attrs
      BY <3>1 DEF Attrs
    <3> QED
      BY <2>1, <3>2 DEF Infos
  <2> HIDE DEF other
  <2>4. der \in Ders /\ \A j \in DOMAIN der.infos : Genuine(der.infos[j], signed)
    BY <2>3, InfoReplaced DEF old
  <2> HIDE DEF der
  <2> QED
    BY <2>2, <2>4, AlterStep
<1>4. ASSUME NEW m \in messages, DropCertificates(m) PROVE IInv'
  <2> DEFINE der == [m.der EXCEPT !.certificates = << >>]
  <2>1. << >> \in Seq(Encoded)
    OBVIOUS
  <2>2. der \in Ders /\ der.infos = m.der.infos
    BY <1>1, <2>1 DEF Ders
  <2>3. Alter(m, der)
    BY <1>4 DEF DropCertificates
  <2> HIDE DEF der
  <2> QED
    BY <1>1, <2>2, <2>3, AlterStep
<1>5. ASSUME NEW m \in messages, NEW i \in DOMAIN m.made, NameByKey(m, i) PROVE IInv'
  <2> DEFINE old   == m.der.infos[i]
             sid   == SubjectKey(m.made[i].certificate.key)
             other == [old EXCEPT !.sid = sid]
             der   == [m.der EXCEPT !.infos = [@ EXCEPT ![i] = other]]
  <2>1. old \in Infos /\ sid \in Sids
    BY <1>1 DEF Sids, Certs
  <2>2. Alter(m, der)
    BY <1>5 DEF NameByKey
  <2> HIDE DEF old, sid
  <2>3. other \in Infos /\ other.signature = old.signature
    BY <2>1 DEF Infos
  <2> HIDE DEF other
  <2>4. der \in Ders /\ \A j \in DOMAIN der.infos : Genuine(der.infos[j], signed)
    BY <2>3, InfoReplaced DEF old
  <2> HIDE DEF der
  <2> QED
    BY <2>2, <2>4, AlterStep
<1> QED
  BY <1>2, <1>3, <1>4, <1>5 DEF Bodies

(* Two messages of one content become one, each with all it had.           *)
LEMMA MergeStep ==
  ASSUME IInv, NEW m \in messages, NEW n \in messages, Merge(m, n)
  PROVE  IInv'
<1> DEFINE certificates == m.der.certificates \o n.der.certificates
           crls  == m.der.crls \o n.der.crls
           all   == m.der.infos \o n.der.infos
           made  == IF m.made = << >> \/ n.made = << >> THEN << >> ELSE m.made \o n.made
           der   == [content |-> m.der.content, certificates |-> certificates,
                     crls |-> crls, infos |-> all]
           both  == Message(der, made)
<1>1. /\ m.der.content = n.der.content
      /\ messages' = (messages \ {m, n}) \cup {both}
      /\ clock' = clock /\ builder' = builder /\ signing' = signing /\ infos' = infos
      /\ check' = check /\ signed' = signed
  BY DEF Merge
<1>2. /\ builder \in Builders /\ infos \in Seq(Infos) /\ signing \in BOOLEAN
      /\ signed \subseteq Keys \X Ids \X Contents
  BY DEF IInv, Typed
<1>3. /\ m.der \in Ders /\ m.made \in Seq(Configs) /\ n.der \in Ders /\ n.made \in Seq(Configs)
  BY DEF IInv, Typed, Messages
<1>4. /\ m.der.content \in Bodies
      /\ m.der.certificates \in Seq(Encoded) /\ n.der.certificates \in Seq(Encoded)
      /\ m.der.crls \in Seq(Crls) /\ n.der.crls \in Seq(Crls)
      /\ m.der.infos \in Seq(Infos) /\ n.der.infos \in Seq(Infos)
  BY <1>3 DEF Ders
<1>5. /\ certificates \in Seq(Encoded) /\ crls \in Seq(Crls) /\ all \in Seq(Infos)
      /\ made \in Seq(Configs)
  BY <1>3, <1>4
<1>6. der.content = m.der.content /\ der.certificates = certificates /\ der.infos = all
  OBVIOUS
<1>7. both \in Messages /\ both.der = der /\ both.made = made
  BY <1>4, <1>5 DEF Message, Messages, Ders
<1> HIDE DEF both, der
<1>8. /\ Len(all) = Len(m.der.infos) + Len(n.der.infos)
      /\ \A i \in 1..Len(all) :
           all[i] = IF i <= Len(m.der.infos) THEN m.der.infos[i]
                                             ELSE n.der.infos[i - Len(m.der.infos)]
  BY <1>4, ConcatProperties, ZenonT(60)
<1>9. /\ Len(certificates) = Len(m.der.certificates) + Len(n.der.certificates)
      /\ \A i \in 1..Len(certificates) :
           certificates[i] =
             IF i <= Len(m.der.certificates) THEN m.der.certificates[i]
             ELSE n.der.certificates[i - Len(m.der.certificates)]
  BY <1>4, ConcatProperties, ZenonT(60)
<1>10. made # << >> =>
         /\ m.made # << >> /\ n.made # << >>
         /\ Len(made) = Len(m.made) + Len(n.made)
         /\ \A i \in 1..Len(made) :
              made[i] = IF i <= Len(m.made) THEN m.made[i] ELSE n.made[i - Len(m.made)]
  BY <1>3, ConcatProperties, ZenonT(60)
<1>11. /\ Len(m.der.infos) \in Nat /\ Len(n.der.infos) \in Nat
       /\ Len(m.made) \in Nat /\ Len(n.made) \in Nat
       /\ DOMAIN all = 1..Len(all)
       /\ DOMAIN m.der.infos = 1..Len(m.der.infos)
       /\ DOMAIN n.der.infos = 1..Len(n.der.infos)
  BY <1>3, <1>4, <1>5, LenProperties
<1> HIDE DEF certificates, all, made
<1>12. AsMade(both, clock)
  <2> SUFFICES ASSUME made # << >>
               PROVE  /\ m.der.content # << >>
                      /\ Len(all) = Len(made) /\ Len(certificates) = Len(made)
                      /\ \A i \in 1..Len(made) :
                           /\ certificates[i] = Encode(made[i].certificate)
                           /\ MadeFor(all[i], made[i], m.der.content[1], clock)
    BY <1>6, <1>7 DEF AsMade
  <2>1. AsMade(m, clock) /\ AsMade(n, clock)
    BY DEF IInv, MessagesAsMade
  <2>2. /\ m.der.content # << >>
        /\ Len(m.der.infos) = Len(m.made) /\ Len(m.der.certificates) = Len(m.made)
        /\ \A i \in 1..Len(m.made) :
             /\ m.der.certificates[i] = Encode(m.made[i].certificate)
             /\ MadeFor(m.der.infos[i], m.made[i], m.der.content[1], clock)
    BY <1>10, <2>1 DEF AsMade
  <2>3. /\ Len(n.der.infos) = Len(n.made) /\ Len(n.der.certificates) = Len(n.made)
        /\ \A i \in 1..Len(n.made) :
             /\ n.der.certificates[i] = Encode(n.made[i].certificate)
             /\ MadeFor(n.der.infos[i], n.made[i], m.der.content[1], clock)
    BY <1>1, <1>10, <2>1 DEF AsMade
  <2>4. Len(all) = Len(made) /\ Len(certificates) = Len(made)
    BY <1>8, <1>9, <1>10, <2>2, <2>3
  <2>5. Len(made) = Len(m.made) + Len(n.made) /\ Len(m.made) \in Nat /\ Len(n.made) \in Nat
    BY <1>10, <1>11
  <2>6. ASSUME NEW i \in 1..Len(made)
        PROVE  /\ certificates[i] = Encode(made[i].certificate)
               /\ MadeFor(all[i], made[i], m.der.content[1], clock)
    <3>1. CASE i <= Len(m.made)
      <4>1. i \in 1..Len(m.made)
        BY <1>11, <3>1
      <4>2. /\ made[i] = m.made[i] /\ all[i] = m.der.infos[i]
            /\ certificates[i] = m.der.certificates[i]
        BY <1>8, <1>9, <1>10, <2>2, <2>4, <3>1
      <4> QED
        BY <2>2, <4>1, <4>2
    <3>2. CASE ~ (i <= Len(m.made))
      <4>1. i - Len(m.made) \in 1..Len(n.made)
        BY <2>5, <3>2, PastTheFirst
      <4>2. /\ made[i] = n.made[i - Len(m.made)] /\ all[i] = n.der.infos[i - Len(m.made)]
            /\ certificates[i] = n.der.certificates[i - Len(m.made)]
        BY <1>8, <1>9, <1>10, <2>2, <2>4, <3>2
      <4> QED
        BY <2>3, <4>1, <4>2
    <3> QED
      BY <3>1, <3>2
  <2> QED
    BY <2>2, <2>4, <2>6
<1>13. \A i \in DOMAIN both.der.infos : Genuine(both.der.infos[i], signed')
  <2>1. /\ \A i \in DOMAIN m.der.infos : Genuine(m.der.infos[i], signed)
        /\ \A i \in DOMAIN n.der.infos : Genuine(n.der.infos[i], signed)
    BY DEF IInv, AllGenuine
  <2>3. /\ Len(all) = Len(m.der.infos) + Len(n.der.infos)
        /\ Len(m.der.infos) \in Nat /\ Len(n.der.infos) \in Nat
    BY <1>8, <1>11
  <2>2. ASSUME NEW i \in 1..Len(all) PROVE Genuine(all[i], signed)
    <3>1. CASE i <= Len(m.der.infos)
      <4>1. i \in 1..Len(m.der.infos)
        BY <2>3, <3>1
      <4>2. all[i] = m.der.infos[i]
        BY <1>8, <3>1
      <4> QED
        BY <1>11, <2>1, <4>1, <4>2
    <3>2. CASE ~ (i <= Len(m.der.infos))
      <4>1. i - Len(m.der.infos) \in 1..Len(n.der.infos)
        BY <2>3, <3>2, PastTheFirst
      <4>2. all[i] = n.der.infos[i - Len(m.der.infos)]
        BY <1>8, <3>2
      <4> QED
        BY <1>11, <2>1, <4>1, <4>2
    <3> QED
      BY <3>1, <3>2
  <2> QED
    BY <1>1, <1>6, <1>7, <1>11, <2>2
<1>14. BuilderInStep'
  BY <1>1 DEF IInv, BuilderInStep, MadeFor
<1>15. \A i \in DOMAIN infos' : Genuine(infos'[i], signed')
  BY <1>1 DEF IInv, AllGenuine
<1>16. /\ signed \subseteq signed' /\ signed' \subseteq Keys \X Ids \X Contents
       /\ builder' \in Builders /\ signing' \in BOOLEAN /\ infos' \in Seq(Infos)
       /\ messages' \subseteq messages \cup {both}
  BY <1>1, <1>2
<1> QED
  BY <1>1, <1>7, <1>12, <1>13, <1>14, <1>15, <1>16, MessageStep

-----------------------------------------------------------------------------
(* The steps of the verifier, which change nothing but its own state.      *)

LEMMA CheckStep ==
  ASSUME IInv, UNCHANGED << clock, builder, signing, infos, messages, signed >>,
         check'.phase \in {"idle", "error", "signers", "done"},
         AtWork' => check' \in Checks,
         AtWork' => \A i \in DOMAIN check'.data.infos : Genuine(check'.data.infos[i], signed),
         CheckInStep'
  PROVE  IInv'
<1>1. Typed'
  BY DEF IInv, Typed
<1>2. AllGenuine'
  BY DEF IInv, AllGenuine
<1>3. BuilderInStep' /\ MessagesAsMade'
  BY DEF IInv, BuilderInStep, MadeFor, MessagesAsMade
<1> QED
  BY <1>1, <1>2, <1>3 DEF IInv

(* What the parser makes of signed data.                                   *)
LEMMA ParsedData ==
  ASSUME NEW der \in Ders
  PROVE  LET data == ParseSignedData(der)
         IN  /\ data \in Datas
             /\ data.content = der.content /\ data.crls = der.crls /\ data.infos = der.infos
             /\ Len(data.certificates) = Len(der.certificates)
             /\ \A i \in 1..Len(der.certificates) :
                  data.certificates[i] = Parse(der.certificates[i])
<1> DEFINE old  == der.certificates
           new  == [i \in DOMAIN old |-> Parse(old[i])]
           data == ParseSignedData(der)
<1>1. data = [der EXCEPT !.certificates = new]
  BY DEF ParseSignedData
<1>2. der.content \in Bodies /\ old \in Seq(Encoded) /\ der.crls \in Seq(Crls)
      /\ der.infos \in Seq(Infos)
  BY DEF Ders
<1>3. DOMAIN old = 1..Len(old) /\ Len(old) \in Nat /\ \A i \in 1..Len(old) : old[i] \in Encoded
  BY <1>2, LenProperties, ElementOfSeq
<1>4. \A i \in 1..Len(old) : new[i] = Parse(old[i])
  BY <1>3
<1>5. new \in [1..Len(old) -> Parsed]
  BY <1>3 DEF Parsed
<1> HIDE DEF new
<1>6. new \in Seq(Parsed) /\ Len(new) = Len(old)
  BY <1>3, <1>5
<1> HIDE DEF data
<1>7. /\ data.content = der.content /\ data.crls = der.crls /\ data.infos = der.infos
      /\ data.certificates = new
  BY <1>1 DEF Ders
<1>8. data \in Datas
  BY <1>1, <1>2, <1>6 DEF Ders, Datas
<1>9. /\ data \in Datas
      /\ data.content = der.content /\ data.crls = der.crls /\ data.infos = der.infos
      /\ Len(data.certificates) = Len(old)
      /\ \A i \in 1..Len(old) : data.certificates[i] = Parse(old[i])
  BY <1>4, <1>6, <1>7, <1>8
<1> QED
  BY <1>9 DEF data

LEMMA VerifyStartStep ==
  ASSUME IInv, NEW m \in messages, NEW id \in Ids, NEW settings \in Verifiers,
         VerifyStart(m, id, settings)
  PROVE  IInv'
<1> DEFINE data == ParseSignedData(m.der)
           start == [phase        |-> "signers",
                     message      |-> m,
                     settings     |-> settings,
                     data         |-> data,
                     id           |-> id,
                     now          |-> clock,
                     results      |-> << >>,
                     signing_time |-> << >>]
<1>1. /\ m.der.content # << >> /\ check' = start
      /\ UNCHANGED << clock, builder, signing, infos, messages, signed >>
  BY DEF VerifyStart
<1>2. m \in Messages /\ m.der \in Ders /\ clock \in Time
  BY DEF IInv, Typed, Messages
<1>3. data \in Datas /\ data.content = m.der.content /\ data.infos = m.der.infos
  BY <1>2, ParsedData
<1>4. data.infos \in Seq(Infos)
  BY <1>3 DEF Datas
<1> HIDE DEF data
<1>5. << >> \in Seq(Results) /\ Len(<< >>) = 0 /\ Len(data.infos) \in Nat
  BY <1>4
<1>6. start \in Checks
  BY <1>2, <1>3, <1>5 DEF Checks, Instants
<1>7. /\ start.phase = "signers" /\ start.message = m /\ start.data = data /\ start.id = id
      /\ start.now = clock /\ start.results = << >>
  OBVIOUS
<1> HIDE DEF start
<1>8. \A i \in DOMAIN data.infos : Genuine(data.infos[i], signed)
  BY <1>3 DEF IInv, AllGenuine
<1>9. AsMade(m, clock)
  BY DEF IInv, MessagesAsMade
<1>10. CheckInStep'
  <2>1. /\ check'.data = ParseSignedData(check'.message.der)
        /\ check'.data.content # << >>
        /\ check'.now <= clock'
        /\ AsMade(check'.message, check'.now)
        /\ check'.results = << >>
    BY <1>1, <1>2, <1>3, <1>7, <1>9, TimeAssumption DEF data
  <2>2. Len(check'.data.infos) \in Nat
    BY <1>1, <1>5, <1>7
  <2> QED
    BY <2>1, <2>2 DEF CheckInStep
<1>11. AtWork' => \A i \in DOMAIN check'.data.infos : Genuine(check'.data.infos[i], signed)
  BY <1>1, <1>7, <1>8
<1>12. check'.phase \in {"idle", "error", "signers", "done"} /\ (AtWork' => check' \in Checks)
  BY <1>1, <1>6, <1>7
<1> QED
  BY <1>1, <1>10, <1>11, <1>12, CheckStep

LEMMA NoCheckSteps ==
  ASSUME IInv, (\E m \in messages : VerifyDetached(m)) \/ Return
  PROVE  IInv'
<1>1. /\ check'.phase \in {"idle", "error"}
      /\ UNCHANGED << clock, builder, signing, infos, messages, signed >>
  BY DEF VerifyDetached, Return, Idle
<1>2. ~ AtWork' /\ CheckInStep'
  BY <1>1, NobodyChecks
<1> QED
  BY <1>1, <1>2, CheckStep

LEMMA VerifySignerStep ==
  ASSUME IInv, VerifySigner
  PROVE  IInv'
<1> DEFINE n      == Len(check.results) + 1
           info   == check.data.infos[n]
           cert   == CertificateOf(info, check.data)
           good   == Good(info, check.data, check.id, check.now)
           time   == IF info.attrs.time # << >> THEN info.attrs.time ELSE check.signing_time
           result == [is_valid |-> good, signer |-> info.sid, certificate |-> cert,
                      signing_time |-> time]
<1>1. /\ check.phase = "signers" /\ Len(check.results) < Len(check.data.infos)
      /\ UNCHANGED << clock, builder, signing, infos, messages, signed >>
  BY DEF VerifySigner
<1>2. check' = [check EXCEPT !.signing_time = time, !.results = Append(@, result)]
  BY DEF VerifySigner, Good
<1>3. AtWork /\ check \in Checks
  BY <1>1 DEF IInv, Typed, AtWork
<1>4. /\ check.message \in Messages /\ check.settings \in Verifiers /\ check.data \in Datas
      /\ check.id \in Ids /\ check.now \in Time /\ check.results \in Seq(Results)
      /\ check.signing_time \in Instants
  BY <1>3 DEF Checks
<1>5. check.data.infos \in Seq(Infos) /\ check.data.certificates \in Seq(Parsed)
  BY <1>4 DEF Datas
<1>6. n \in 1..Len(check.data.infos) /\ Len(check.results) \in Nat
  BY <1>1, <1>4, <1>5
<1>7. info \in Infos
  BY <1>5, <1>6, ElementOfSeq
<1>8. info.sid \in Sids /\ info.attrs.time \in Instants
  BY <1>7 DEF Infos, Attrs
<1>9. cert \in {<< >>} \cup {<< c >> : c \in Parsed}
  BY <1>5, CertificateNamed
<1>10. time \in Instants
  BY <1>4, <1>8
<1>11. good \in BOOLEAN
  BY Zenon DEF Good
<1> HIDE DEF info, cert, good, time
<1>12. result \in Results
  BY <1>8, <1>9, <1>10, <1>11 DEF Results
<1>13. result.signer = info.sid /\ result.certificate = cert /\ result.is_valid = good
  OBVIOUS
<1> HIDE DEF result
<1> DEFINE results == Append(check.results, result)
<1>14. /\ results \in Seq(Results) /\ Len(results) = n /\ results[n] = result
       /\ \A i \in 1..Len(check.results) : results[i] = check.results[i]
  BY <1>4, <1>12, AppendProperties
<1> HIDE DEF results
<1>15. check' = [check EXCEPT !.signing_time = time, !.results = results]
  BY <1>2 DEF results
<1>16. /\ check' \in Checks /\ check'.phase = "signers"
       /\ check'.message = check.message /\ check'.data = check.data /\ check'.id = check.id
       /\ check'.now = check.now /\ check'.results = results
  BY <1>1, <1>3, <1>10, <1>14, <1>15 DEF Checks
<1>17. CheckInStep'
  <2>1. /\ check.data = ParseSignedData(check.message.der)
        /\ check.data.content # << >>
        /\ check.now <= clock
        /\ AsMade(check.message, check.now)
        /\ \A i \in 1..Len(check.results) :
             /\ check.results[i].signer = check.data.infos[i].sid
             /\ check.results[i].certificate = CertificateOf(check.data.infos[i], check.data)
             /\ check.results[i].is_valid =>
                  Good(check.data.infos[i], check.data, check.id, check.now)
             /\ Good(check.data.infos[i], check.data, check.id, check.now) =>
                  check.results[i].is_valid
    BY <1>3 DEF IInv, CheckInStep
  <2>2. ASSUME NEW i \in 1..Len(results)
        PROVE  /\ results[i].signer = check.data.infos[i].sid
               /\ results[i].certificate = CertificateOf(check.data.infos[i], check.data)
               /\ results[i].is_valid =>
                    Good(check.data.infos[i], check.data, check.id, check.now)
               /\ Good(check.data.infos[i], check.data, check.id, check.now) =>
                    results[i].is_valid
    <3>1. CASE i = n
      <4>1. results[i] = result /\ check.data.infos[i] = info
        BY <1>14, <3>1 DEF info
      <4> QED
        BY <1>13, <4>1 DEF cert, good
    <3>2. CASE i # n
      <4>1. i \in 1..Len(check.results)
        BY <1>6, <1>14, <3>2
      <4> QED
        BY <1>14, <2>1, <4>1
    <3> QED
      BY <3>1, <3>2
  <2>3. Len(results) <= Len(check.data.infos)
    BY <1>6, <1>14
  <2> QED
    BY <1>1, <1>16, <2>1, <2>2, <2>3 DEF CheckInStep
<1>18. AtWork' => \A i \in DOMAIN check'.data.infos : Genuine(check'.data.infos[i], signed)
  BY <1>3, <1>16 DEF IInv, AllGenuine
<1> QED
  BY <1>1, <1>16, <1>17, <1>18, CheckStep

LEMMA VerifyDoneStep ==
  ASSUME IInv, VerifyDone
  PROVE  IInv'
<1>1. /\ check.phase = "signers" /\ check' = [check EXCEPT !.phase = "done"]
      /\ UNCHANGED << clock, builder, signing, infos, messages, signed >>
  BY DEF VerifyDone
<1>2. AtWork /\ check \in Checks
  BY <1>1 DEF IInv, Typed, AtWork
<1>3. /\ check' \in Checks /\ check'.phase = "done"
      /\ check'.message = check.message /\ check'.data = check.data /\ check'.id = check.id
      /\ check'.now = check.now /\ check'.results = check.results
  BY <1>1, <1>2 DEF Checks
<1>4. CheckInStep'
  BY <1>1, <1>2, <1>3 DEF IInv, CheckInStep
<1>5. AtWork' => \A i \in DOMAIN check'.data.infos : Genuine(check'.data.infos[i], signed)
  BY <1>2, <1>3 DEF IInv, AllGenuine
<1> QED
  BY <1>1, <1>3, <1>4, <1>5, CheckStep

LEMMA TickStep ==
  ASSUME IInv, Tick
  PROVE  IInv'
<1>1. /\ clock' = clock + 1 /\ clock' \in Time
      /\ UNCHANGED << builder, signing, infos, messages, check, signed >>
  BY DEF Tick
<1>2. clock \in Nat /\ clock' \in Nat /\ clock <= clock'
  BY <1>1, TimeAssumption DEF IInv, Typed
<1>3. AtWork' <=> AtWork
  BY <1>1 DEF AtWork
<1>4. Typed'
  BY <1>1, <1>3 DEF IInv, Typed
<1>5. AllGenuine'
  BY <1>1, <1>3 DEF IInv, AllGenuine
<1>6. BuilderInStep'
  <2>1. ASSUME NEW info, NEW config, NEW content, MadeFor(info, config, content, clock)
        PROVE  MadeFor(info, config, content, clock')
    BY <1>2, <2>1, TimeAssumption DEF MadeFor
  <2> QED
    BY <1>1, <2>1 DEF IInv, BuilderInStep
<1>7. MessagesAsMade'
  <2>1. \A m \in messages : AsMade(m, clock')
    BY <1>2, MadeLater DEF IInv, MessagesAsMade
  <2> QED
    BY <1>1, <2>1 DEF MessagesAsMade
<1>8. CheckInStep'
  <2>1. AtWork => check.now \in Nat
    BY TimeAssumption DEF IInv, Typed, Checks
  <2> QED
    BY <1>1, <1>2, <2>1, CheckKept DEF IInv
<1> QED
  BY <1>4, <1>5, <1>6, <1>7, <1>8 DEF IInv

LEMMA StutterStep ==
  ASSUME IInv, UNCHANGED vars
  PROVE  IInv'
<1>1. UNCHANGED << clock, builder, signing, infos, messages, check, signed >>
  BY DEF vars
<1>2. AtWork' <=> AtWork
  BY <1>1 DEF AtWork
<1>3. CheckInStep' /\ AtWork' = AtWork
  BY <1>1, <1>2 DEF IInv, CheckInStep
<1>4. (AtWork' => check' \in Checks) /\ check'.phase \in {"idle", "error", "signers", "done"}
  BY <1>1, <1>2 DEF IInv, Typed
<1>5. AtWork' => \A i \in DOMAIN check'.data.infos : Genuine(check'.data.infos[i], signed)
  BY <1>1, <1>2 DEF IInv, AllGenuine
<1> QED
  BY <1>1, <1>3, <1>4, <1>5, CheckStep

LEMMA NextIInv ==
  ASSUME IInv, [Next]_vars
  PROVE  IInv'
<1>1. CASE \/ \E content \in Contents : SetContent(content)
           \/ \E config \in Configs : AddSigner(config)
           \/ \E include \in BOOLEAN : IncludeSigningTime(include)
           \/ \E crl \in Crls : AddCrl(crl)
           \/ SignNothing
  BY <1>1, BuilderCalls
<1>2. CASE SignStart
  BY <1>2, SignStartStep
<1>3. CASE SignOne
  BY <1>3, SignOneStep
<1>4. CASE SignDone
  BY <1>4, SignDoneStep
<1>5. CASE \E config \in Configs, content \in Contents, include \in BOOLEAN :
             CreateDigitalSignature(config, content, include)
  BY <1>5, CreateStep
<1>6. CASE \/ \E m \in messages, content \in {<< >>} \cup {<< c >> : c \in Contents} :
                AlterContent(m, content)
           \/ \E m \in messages : \E i \in DOMAIN m.made, content \in Contents :
                AlterAttrs(m, i, content)
           \/ \E m \in messages : DropCertificates(m)
           \/ \E m \in messages : \E i \in DOMAIN m.made : NameByKey(m, i)
  BY <1>6, AlteredSteps
<1>7. CASE \E m, n \in messages : Merge(m, n)
  BY <1>7, MergeStep
<1>8. CASE \E m \in messages, id \in Ids, settings \in Verifiers : VerifyStart(m, id, settings)
  BY <1>8, VerifyStartStep
<1>9. CASE (\E m \in messages : VerifyDetached(m)) \/ Return
  BY <1>9, NoCheckSteps
<1>10. CASE VerifySigner
  BY <1>10, VerifySignerStep
<1>11. CASE VerifyDone
  BY <1>11, VerifyDoneStep
<1>12. CASE Tick
  BY <1>12, TickStep
<1>13. CASE UNCHANGED vars
  BY <1>13, StutterStep
<1> QED
  BY <1>1, <1>2, <1>3, <1>4, <1>5, <1>6, <1>7, <1>8, <1>9, <1>10, <1>11, <1>12, <1>13
  DEF Next

(* The invariant holds of every behaviour.                                 *)
THEOREM InductiveInvariant == Spec => []IInv
BY InitIInv, NextIInv, PTL DEF Spec

-----------------------------------------------------------------------------
(* What follows from the invariant.                                        *)

LEMMA IInvTypeOK == IInv => TypeOK
<1> SUFFICES ASSUME IInv PROVE TypeOK
  OBVIOUS
<1>1. /\ clock \in Time /\ Len(infos) <= Len(builder.signers)
      /\ signed \subseteq Keys \X Ids \X Contents
  BY DEF IInv, Typed, BuilderInStep
<1>2. ASSUME AtWork
      PROVE  /\ check.now \in Time /\ check.now <= clock
             /\ Len(check.results) <= Len(check.data.infos)
             /\ \A i \in DOMAIN check.data.certificates :
                  check.data.certificates[i].version = 2
  <2>1. check.now \in Time /\ check.data \in Datas
    BY <1>2 DEF IInv, Typed, Checks
  <2>2. check.now <= clock /\ Len(check.results) <= Len(check.data.infos)
    BY <1>2 DEF IInv, CheckInStep
  <2>3. check.data.certificates \in Seq(Parsed)
    BY <2>1 DEF Datas
  <2>4. \A p \in Parsed : p.version = 2
    BY ParsedKeeps, ConfigAssumption DEF Parsed, Encoded, Certs
  <2>5. \A i \in DOMAIN check.data.certificates : check.data.certificates[i] \in Parsed
    BY <2>3, LenProperties, ElementOfSeq
  <2> QED
    BY <2>1, <2>2, <2>4, <2>5
<1> QED
  BY <1>1, <1>2 DEF TypeOK, AtWork

(* What the result on a signer says of it.                                 *)
LEMMA ResultOf ==
  ASSUME IInv, AtWork, NEW i \in DOMAIN check.results
  PROVE  LET info == check.data.infos[i]
         IN  /\ info \in Infos /\ Genuine(info, signed) /\ i \in 1..Len(check.data.infos)
             /\ check.results[i].signer = info.sid
             /\ check.results[i].certificate = CertificateOf(info, check.data)
             /\ check.results[i].is_valid => Good(info, check.data, check.id, check.now)
             /\ Good(info, check.data, check.id, check.now) => check.results[i].is_valid
<1>1. check.results \in Seq(Results) /\ check.data.infos \in Seq(Infos)
  BY DEF IInv, Typed, Checks, Datas
<1>2. /\ i \in 1..Len(check.results) /\ Len(check.results) \in Nat
      /\ Len(check.data.infos) \in Nat
      /\ DOMAIN check.data.infos = 1..Len(check.data.infos)
  BY <1>1, LenProperties
<1>3. Len(check.results) <= Len(check.data.infos)
  BY DEF IInv, CheckInStep
<1>4. i \in 1..Len(check.data.infos)
  BY <1>2, <1>3
<1>5. check.data.infos[i] \in Infos /\ Genuine(check.data.infos[i], signed)
  BY <1>1, <1>2, <1>4, ElementOfSeq DEF IInv, AllGenuine
<1> QED
  BY <1>2, <1>4, <1>5 DEF IInv, CheckInStep

LEMMA IInvAuthentic == IInv => Authentic
<1> SUFFICES ASSUME IInv, AtWork, NEW i \in DOMAIN check.results, check.results[i].is_valid
             PROVE  LET found == FindSigner(check.data.certificates, check.results[i].signer)
                    IN  /\ found # << >>
                        /\ << found[1].key, check.id, check.data.content[1] >> \in signed
  BY DEF Authentic, AtWork
<1> DEFINE info  == check.data.infos[i]
           found == FindSigner(check.data.certificates, info.sid)
<1>1. /\ Genuine(info, signed) /\ check.results[i].signer = info.sid
      /\ Good(info, check.data, check.id, check.now)
  BY ResultOf
<1>2. VerifySignerInfo(info, check.data, check.id)
  BY <1>1 DEF Good
<1>3. /\ found # << >>
      /\ info.attrs.digest = Digest(check.data.content[1])
      /\ info.signature = Sign(found[1].key, check.id, ForSigning(info.attrs))
  BY <1>2 DEF VerifySignerInfo, Verifies
<1> HIDE DEF found, info
<1>4. info.signature.by = found[1].key /\ info.signature.id = check.id
  BY <1>3 DEF Sign
<1>5. info.signature.over.attrs.digest.sm3 = check.data.content[1]
  BY <1>3 DEF Sign, ForSigning, Digest
<1>6. << found[1].key, check.id, check.data.content[1] >> \in signed
  BY <1>1, <1>4, <1>5 DEF Genuine
<1> QED
  BY <1>1, <1>3, <1>6 DEF found

LEMMA IInvNoneRevoked == IInv => NoneRevoked
<1> SUFFICES ASSUME IInv, AtWork, NEW i \in DOMAIN check.results,
                    check.results[i].is_valid, check.results[i].certificate # << >>
             PROVE  /\ check.now <= check.results[i].certificate[1].not_after
                    /\ \A j \in DOMAIN check.message.der.crls :
                         ~ /\ check.message.der.crls[j].issuer = check.results[i].signer.issuer
                           /\ check.results[i].signer.serial \in check.message.der.crls[j].revoked
  BY DEF NoneRevoked, AtWork
<1> DEFINE info == check.data.infos[i]
           cert == CertificateOf(info, check.data)
<1>1. /\ check.results[i].signer = info.sid /\ check.results[i].certificate = cert
      /\ Good(info, check.data, check.id, check.now)
  BY ResultOf
<1>2. ValidAt(cert[1], check.now) /\ ~ RevokedBy(cert[1], check.data.crls)
  BY <1>1 DEF Good
<1>3. check.data.certificates \in Seq(Parsed)
  BY DEF IInv, Typed, Checks, Datas
<1>4. info.sid = IssuerAndSerial(cert[1])
  BY <1>1, <1>3, CertificateNamed
<1>5. check.data.crls = check.message.der.crls
  <2>1. check.message.der \in Ders /\ check.data = ParseSignedData(check.message.der)
    BY DEF IInv, Typed, Checks, Messages, CheckInStep
  <2> QED
    BY <2>1, ParsedData
<1> HIDE DEF cert
<1>6. info.sid.issuer = cert[1].issuer /\ info.sid.serial = cert[1].serial
  BY <1>4 DEF IssuerAndSerial
<1> HIDE DEF info
<1>7. check.now <= cert[1].not_after
  BY <1>2 DEF ValidAt
<1> QED
  BY <1>1, <1>2, <1>5, <1>6, <1>7 DEF RevokedBy

(* A signer in order finds its own certificate in the message, and there   *)
(* all the loop asks for.                                                  *)
LEMMA IInvBuiltVerifies == IInv => BuiltVerifies
<1> DEFINE m    == check.message
           data == check.data
<1> SUFFICES ASSUME IInv, AtWork, m.made # << >>, InOrder(m, check.id, check.now),
                    NEW i \in DOMAIN check.results
             PROVE  check.results[i].is_valid
  BY Zenon DEF BuiltVerifies, AllValid, AtWork
<1> DEFINE info   == data.infos[i]
           config == m.made[i]
           cert   == config.certificate
           now    == check.now
<1>1. /\ m.der \in Ders /\ m.made \in Seq(Configs) /\ data = ParseSignedData(m.der)
      /\ AsMade(m, now) /\ now \in Time /\ data \in Datas
  BY DEF IInv, Typed, Checks, Messages, CheckInStep
<1>2. /\ data.content = m.der.content /\ data.crls = m.der.crls /\ data.infos = m.der.infos
      /\ Len(data.certificates) = Len(m.der.certificates)
      /\ \A k \in 1..Len(m.der.certificates) :
           data.certificates[k] = Parse(m.der.certificates[k])
  BY <1>1, ParsedData
<1>3. /\ Len(m.der.infos) = Len(m.made) /\ Len(m.der.certificates) = Len(m.made)
      /\ \A k \in 1..Len(m.made) :
           /\ m.der.certificates[k] = Encode(m.made[k].certificate)
           /\ MadeFor(m.der.infos[k], m.made[k], m.der.content[1], now)
      /\ m.der.content # << >>
  BY <1>1 DEF AsMade
<1>4. i \in 1..Len(m.made) /\ DOMAIN m.made = 1..Len(m.made)
  BY <1>1, <1>2, <1>3, ResultOf, LenProperties
<1>5. \A k \in 1..Len(m.made) : m.made[k] \in Configs /\ m.made[k].certificate.version = 2
  BY <1>1, ElementOfSeq, ConfigAssumption
<1>6. \A k \in 1..Len(m.made) :
        LET p == data.certificates[k]
            c == m.made[k].certificate
        IN  /\ p.issuer = c.issuer /\ p.serial = c.serial /\ p.key = c.key
            /\ p.not_before = c.not_before /\ p.not_after = c.not_after
  BY <1>2, <1>3, <1>5, ParsedKeeps, SMTT(30)
<1>7. PICK t \in Time, include \in BOOLEAN :
        t <= now /\ info = SignFor(config, m.der.content[1], include, t)
  BY <1>2, <1>3, <1>4 DEF MadeFor
<1>8. m.der.content[1] \in Contents
  BY <1>1, <1>3 DEF Ders, Bodies
<1>9. config \in Configs
  BY <1>4, <1>5
<1>10. /\ info.sid = IssuerAndSerial(cert)
       /\ info.attrs.digest = Digest(m.der.content[1])
       /\ info.attrs.time = << >> \/ info.attrs.time = << t >>
       /\ info.signature = Sign(config.key, config.id, ForSigning(info.attrs))
  BY <1>7, <1>8, <1>9, SignForFields
<1>11. /\ config.key = cert.key /\ config.id = check.id
       /\ ValidAt(cert, now) /\ ValidAt(cert, t) /\ ~ RevokedBy(cert, m.der.crls)
  <2>1. now <= now
    BY <1>1, TimeAssumption
  <2> QED
    BY <1>1, <1>4, <1>7, <2>1 DEF InOrder
<1> DEFINE k == FirstNamed(data.certificates, info.sid)
<1>12. data.certificates \in Seq(Parsed)
  BY <1>1 DEF Datas
<1>13. info.sid = IssuerAndSerial(data.certificates[i])
  BY <1>4, <1>6, <1>10 DEF IssuerAndSerial
<1>14. k \in 1..Len(m.made) /\ info.sid = IssuerAndSerial(data.certificates[k])
  <2>1. i \in 1..Len(data.certificates)
    BY <1>2, <1>3, <1>4
  <2>2. k # 0
    BY <1>12, <1>13, <2>1, NamedFirst
  <2> QED
    BY <1>2, <1>3, <1>12, <2>2, NamedFirst
<1> HIDE DEF k
<1>15. m.made[k].certificate = cert
  <2>1. IssuerAndSerial(m.made[k].certificate) = IssuerAndSerial(data.certificates[k])
    BY <1>6, <1>14 DEF IssuerAndSerial
  <2>2. IssuerAndSerial(m.made[k].certificate) = IssuerAndSerial(cert)
    BY <1>10, <1>14, <2>1
  <2> QED
    BY <1>4, <1>14, <2>2 DEF InOrder
<1> DEFINE p == data.certificates[k]
<1>16. /\ p.issuer = cert.issuer /\ p.serial = cert.serial /\ p.key = cert.key
       /\ p.not_before = cert.not_before /\ p.not_after = cert.not_after
  BY <1>6, <1>14, <1>15
<1>17. info.sid.tag = "issuerAndSerialNumber"
  BY <1>10 DEF IssuerAndSerial
<1>18. /\ FindSigner(data.certificates, info.sid) = << p >>
       /\ CertificateOf(info, data) = << p >>
  <2>1. k # 0
    BY <1>14
  <2>2. FindSigner(data.certificates, info.sid) = << p >>
    BY <1>17, <2>1 DEF FindSigner, At, k
  <2> QED
    BY <1>17, <2>2 DEF CertificateOf
<1> HIDE DEF p, cert
<1>19. VerifySignerInfo(info, data, check.id)
  <2>1. << p >> # << >> /\ << p >>[1] = p
    OBVIOUS
  <2>2. Verifies(ForSigning(info.attrs), info.signature, p.key, check.id)
    BY <1>10, <1>11, <1>16 DEF Verifies
  <2>3. info.attrs.digest = Digest(data.content[1])
    BY <1>2, <1>10
  <2> QED
    BY <1>18, <2>1, <2>2, <2>3 DEF VerifySignerInfo
<1>20. ValidAt(p, now) /\ ValidAt(p, t) /\ ~ RevokedBy(p, data.crls)
  BY <1>2, <1>11, <1>16 DEF ValidAt, RevokedBy
<1>21. Good(info, data, check.id, now)
  <2>1. << p >>[1] = p /\ << t >>[1] = t
    OBVIOUS
  <2>2. info.attrs.time # << >> => info.attrs.time[1] = t
    BY <1>10, <2>1
  <2> HIDE DEF info, data, now
  <2> QED
    BY <1>18, <1>19, <1>20, <2>1, <2>2 DEF Good
<1> QED
  BY <1>21, ResultOf

-----------------------------------------------------------------------------
(* The state is what sign() and verify() expect of it; in particular every *)
(* certificate a verifier reads from DER has the version the builder gave  *)
(* it.                                                                     *)
THEOREM StateTypeOK == Spec => []TypeOK
BY InductiveInvariant, IInvTypeOK, PTL

(* A signer that verify_digital_signature() finds valid has signed exactly *)
(* this content, whatever has happened to the message on its way.          *)
THEOREM ValidIsSigned == Spec => []Authentic
BY InductiveInvariant, IInvAuthentic, PTL

(* A signer found valid by its certificate is on no list of the message,   *)
(* however many lists of its issuer there are.                             *)
THEOREM ValidIsNotRevoked == Spec => []NoneRevoked
BY InductiveInvariant, IInvNoneRevoked, PTL

(* What sign() makes and DER carries, verifies: every signer of it, also   *)
(* when parallel signatures were put together.                             *)
THEOREM MadeIsValid == Spec => []BuiltVerifies
BY InductiveInvariant, IInvBuiltVerifies, PTL
=============================================================================
