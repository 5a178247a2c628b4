-------------------------------- MODULE Cms --------------------------------
(***************************************************************************)
(* CMS signed data (src/sm2/cms.rs): a builder collects content, signers   *)
(* and revocation lists and signs for each of them in turn; messages       *)
(* travel as DER, where they may be altered, or put together from parallel *)
(* signatures; a verifier judges the signers one after the other.          *)
(*                                                                         *)
(* Abstractions of the data: signed attributes are a record of the digest  *)
(* and the time (the content type attribute is a constant of the code and  *)
(* nothing reads it), algorithms and versions are left out, an optional    *)
(* field is a sequence of at most one value.  A message also remembers the *)
(* signers that made it, for as long as it is as they made it ("made", a   *)
(* history field).                                                         *)
(***************************************************************************)
EXTENDS GmCert, FiniteSets, FiniteSetsExt, SequencesExt

CONSTANTS
  Contents,    (* contents of messages                                     *)
  Empty,       (* the empty content                                        *)
  Configs,     (* [key, certificate, id]: who may sign, with what          *)
  Crls,        (* [issuer, revoked]: revocation lists                      *)
  Verifiers,   (* [check_validity, check_crl]: settings of verifiers       *)
  MaxSigners,  (* bound on the signers of all messages and of the builder  *)
  MaxCrls      (* bound on the lists of all messages and of the builder    *)

ASSUME EmptyAssumption  == Empty \in Contents
(* Certificates are made by the builder of sm2/cert.rs, which numbers them *)
(* version 3.                                                              *)
ASSUME ConfigAssumption ==
  \A c \in Configs : c.key \in Keys /\ c.id \in Ids /\ c.certificate.version = 2

VARIABLES
  clock,       (* SystemTime::now()                                        *)
  builder,     (* the CmsSignerBuilder in use                              *)
  signing,     (* sign() is at work on it                                  *)
  infos,       (* its signer_infos so far                                  *)
  messages,    (* messages in circulation                                  *)
  check,       (* the verification under way                               *)
  signed       (* history: << key, id, content >> signed by key's owner    *)

vars == << clock, builder, signing, infos, messages, check, signed >>

-----------------------------------------------------------------------------
(* Signed data and its DER.                                                *)

Digest(content) == [sm3 |-> content]

(* build_signed_attrs(), the signing time being optional                   *)
SignedAttrs(content, include, now) ==
  [digest |-> Digest(content), time |-> IF include THEN << now >> ELSE << >>]

(* encode_signed_attrs_for_sign(): the SET OF, its tag replaced by [0]     *)
ForSigning(attrs) == [tag |-> "[0]", attrs |-> attrs]

IssuerAndSerial(cert) ==
  [tag |-> "issuerAndSerialNumber", issuer |-> cert.issuer, serial |-> cert.serial]

SubjectKey(key) == [tag |-> "subjectKeyIdentifier", key |-> key]

(* create_signer_info()                                                    *)
SignerInfo(attrs, signature, cert) ==
  [sid |-> IssuerAndSerial(cert), attrs |-> attrs, signature |-> signature]

(* What one signer adds: attributes, signed with its own key and ID.       *)
SignFor(config, content, include, now) ==
  LET attrs == SignedAttrs(content, include, now)
  IN  SignerInfo(attrs, Sign(config.key, config.id, ForSigning(attrs)), config.certificate)

(* encode_signed_data(): certificates as DER                               *)
EncodeSignedData(content, certificates, crls, signer_infos) ==
  [content      |-> << content >>,
   certificates |-> [i \in DOMAIN certificates |-> Encode(certificates[i])],
   crls         |-> crls,
   infos        |-> signer_infos]

(* parse_signed_data_from_der()                                            *)
ParseSignedData(der) ==
  [der EXCEPT !.certificates = [i \in DOMAIN @ |-> Parse(@[i])]]

Message(der, made) == [der |-> der, made |-> made]

-----------------------------------------------------------------------------
(* The builder.                                                            *)

New == [content |-> Empty, signers |-> << >>, certificates |-> << >>,
        include |-> FALSE, crls |-> << >>]

Idle == [phase |-> "idle"]

Init ==
  /\ clock \in Time
  /\ builder = New
  /\ signing = FALSE
  /\ infos = << >>
  /\ messages = {}
  /\ check = Idle
  /\ signed = {}

Signers ==
  MapThenSumSet(LAMBDA m : Len(m.der.infos), messages) + Len(builder.signers)
Lists ==
  MapThenSumSet(LAMBDA m : Len(m.der.crls), messages) + Len(builder.crls)

(* Bounds: what shares nothing but the clock takes turns.  Nobody builds   *)
(* while a message is verified; a message travels while no builder is in   *)
(* use; it is verified when it is the only one.                            *)
Building   == check = Idle /\ ~signing
Travelling == Building /\ builder = New
Alone(m)   == Travelling /\ messages = {m}

Build(next) ==
  /\ Building
  /\ builder' = next
  /\ UNCHANGED << clock, signing, infos, messages, check, signed >>

SetContent(content) == Build([builder EXCEPT !.content = content])

AddSigner(config) ==
  /\ Signers < MaxSigners
  /\ Build([builder EXCEPT !.signers      = Append(@, config),
                           !.certificates = Append(@, config.certificate)])

IncludeSigningTime(include) == Build([builder EXCEPT !.include = include])

AddCrl(crl) ==
  /\ Lists < MaxCrls
  /\ Build([builder EXCEPT !.crls = Append(@, crl)])

(* sign() without a signer is an error, and consumes the builder.          *)
SignNothing ==
  /\ builder.signers = << >>
  /\ Build(New)

SignStart ==
  /\ Building
  /\ builder.signers # << >>
  /\ signing' = TRUE
  /\ UNCHANGED << clock, builder, infos, messages, check, signed >>

(* One round of the loop of sign(), which reads the clock for its signer.  *)
SignOne ==
  /\ signing
  /\ Len(infos) < Len(builder.signers)
  /\ LET config == builder.signers[Len(infos) + 1]
     IN  /\ infos' = Append(infos, SignFor(config, builder.content, builder.include, clock))
         /\ signed' = signed \cup {<< config.key, config.id, builder.content >>}
  /\ UNCHANGED << clock, builder, signing, messages, check >>

(* sign() returns the message.                                             *)
SignDone ==
  /\ signing
  /\ Len(infos) = Len(builder.signers)
  /\ messages' = messages \cup
       {Message(EncodeSignedData(builder.content, builder.certificates, builder.crls, infos),
                builder.signers)}
  /\ builder' = New
  /\ signing' = FALSE
  /\ infos' = << >>
  /\ UNCHANGED << clock, check, signed >>

(* create_digital_signature()                                              *)
CreateDigitalSignature(config, content, include) ==
  /\ Travelling
  /\ Signers < MaxSigners
  /\ messages' = messages \cup
       {Message(EncodeSignedData(content, << config.certificate >>, << >>,
                                 << SignFor(config, content, include, clock) >>),
                << config >>)}
  /\ signed' = signed \cup {<< config.key, config.id, content >>}
  /\ UNCHANGED << clock, builder, signing, infos, check >>

-----------------------------------------------------------------------------
(* Messages on their way.                                                  *)

(* Bound: a message is altered at most once.                               *)
Alter(m, der) ==
  /\ Travelling
  /\ m.made # << >>
  /\ messages' = (messages \ {m}) \cup {Message(der, << >>)}
  /\ UNCHANGED << clock, builder, signing, infos, check, signed >>

(* The content is exchanged, or detached.                                  *)
AlterContent(m, content) == Alter(m, [m.der EXCEPT !.content = content])

(* The digest in the attributes of a signer is exchanged.                  *)
AlterAttrs(m, i, content) ==
  Alter(m, [m.der EXCEPT !.infos[i].attrs.digest = Digest(content)])

DropCertificates(m) == Alter(m, [m.der EXCEPT !.certificates = << >>])

(* Another implementation names the signer by its key.                     *)
NameByKey(m, i) ==
  Alter(m, [m.der EXCEPT !.infos[i].sid = SubjectKey(m.made[i].certificate.key)])

(* Parallel signatures of one content are put together in one message.     *)
Merge(m, n) ==
  /\ Travelling
  /\ m # n /\ m.der.content = n.der.content
  /\ messages' = (messages \ {m, n}) \cup
       {Message([content      |-> m.der.content,
                 certificates |-> m.der.certificates \o n.der.certificates,
                 crls         |-> m.der.crls \o n.der.crls,
                 infos        |-> m.der.infos \o n.der.infos],
                IF m.made = << >> \/ n.made = << >> THEN << >> ELSE m.made \o n.made)}
  /\ UNCHANGED << clock, builder, signing, infos, check, signed >>

-----------------------------------------------------------------------------
(* The verifier: verify_digital_signature().                               *)

(* Variant: the issuer of the certificate is not compared.                 *)
FirstSerial(certificates, sid) ==
  SelectInSeq(certificates, LAMBDA cert : sid.serial = cert.serial)

(* The first certificate of that issuer and serial number, 0 if none       *)
FirstNamed(certificates, sid) ==
  SelectInSeq(certificates, LAMBDA cert : sid = IssuerAndSerial(cert))

At(certificates, i) == IF i = 0 THEN << >> ELSE << certificates[i] >>

(* find_signer_certificate(): at most one                                  *)
FindSigner(certificates, sid) ==
  At(certificates,
     IF sid.tag = "issuerAndSerialNumber"
     THEN FirstNamed(certificates, sid)
     ELSE SelectInSeq(certificates, LAMBDA cert : sid = SubjectKey(cert.key)))

(* Variant: the digest in the attributes is not compared.                  *)
SignatureOnly(info, data, id) ==
  LET found == FindSigner(data.certificates, info.sid)
  IN  /\ found # << >>
      /\ Verifies(ForSigning(info.attrs), info.signature, found[1].key, id)

(* verify_signer_info()                                                    *)
VerifySignerInfo(info, data, id) ==
  LET found == FindSigner(data.certificates, info.sid)
  IN  /\ found # << >>
      /\ info.attrs.digest = Digest(data.content[1])
      /\ Verifies(ForSigning(info.attrs), info.signature, found[1].key, id)

(* The certificate the loop looks at: none for a signer named by its key.  *)
CertificateOf(info, data) ==
  IF info.sid.tag = "issuerAndSerialNumber"
  THEN FindSigner(data.certificates, info.sid)
  ELSE << >>

(* Variant: the first list of the issuer decides.                          *)
RevokedByFirst(cert, crls) ==
  LET i == SelectInSeq(crls, LAMBDA crl : crl.issuer = cert.issuer)
  IN  i # 0 /\ cert.serial \in crls[i].revoked

(* The certificate is on an embedded list of its issuer.                   *)
RevokedBy(cert, crls) ==
  \E i \in DOMAIN crls : crls[i].issuer = cert.issuer /\ cert.serial \in crls[i].revoked

(* CmsVerifier::verify() hands the message over; nothing looks at the      *)
(* settings of the verifier any more.                                      *)
VerifyStart(m, id, settings) ==
  /\ Alone(m)
  /\ m.der.content # << >>
  /\ check' = [phase        |-> "signers",
               message      |-> m,
               settings     |-> settings,
               data         |-> ParseSignedData(m.der),
               id           |-> id,
               now          |-> clock,
               results      |-> << >>,
               signing_time |-> << >>]
  /\ UNCHANGED << clock, builder, signing, infos, messages, signed >>

(* Without the content in it a message is refused.                         *)
VerifyDetached(m) ==
  /\ Alone(m)
  /\ m.der.content = << >>
  /\ check' = [phase |-> "error"]
  /\ UNCHANGED << clock, builder, signing, infos, messages, signed >>

(* One round of the loop over the signers.                                 *)
VerifySigner ==
  /\ check.phase = "signers"
  /\ Len(check.results) < Len(check.data.infos)
  /\ LET info == check.data.infos[Len(check.results) + 1]
         cert == CertificateOf(info, check.data)
         good == /\ VerifySignerInfo(info, check.data, check.id)
                 /\ cert # << >> => /\ ValidAt(cert[1], check.now)
                                    /\ ~RevokedBy(cert[1], check.data.crls)
                 /\ cert # << >> /\ info.attrs.time # << >>
                      => ValidAt(cert[1], info.attrs.time[1])
         time == IF info.attrs.time # << >> THEN info.attrs.time ELSE check.signing_time
     IN  check' = [check EXCEPT
                     !.signing_time = time,
                     !.results = Append(@, [is_valid     |-> good,
                                            signer       |-> info.sid,
                                            certificate  |-> cert,
                                            signing_time |-> time])]
  /\ UNCHANGED << clock, builder, signing, infos, messages, signed >>

VerifyDone ==
  /\ check.phase = "signers"
  /\ Len(check.results) = Len(check.data.infos)
  /\ check' = [check EXCEPT !.phase = "done"]
  /\ UNCHANGED << clock, builder, signing, infos, messages, signed >>

(* VerificationResult.is_valid                                             *)
AllValid == \A i \in DOMAIN check.results : check.results[i].is_valid

Return ==
  /\ check.phase \in {"done", "error"}
  /\ check' = Idle
  /\ UNCHANGED << clock, builder, signing, infos, messages, signed >>

Tick ==
  /\ clock + 1 \in Time
  /\ clock' = clock + 1
  /\ UNCHANGED << builder, signing, infos, messages, check, signed >>

Next ==
  \/ \E content \in Contents : SetContent(content)
  \/ \E config \in Configs : AddSigner(config)
  \/ \E include \in BOOLEAN : IncludeSigningTime(include)
  \/ \E crl \in Crls : AddCrl(crl)
  \/ SignNothing
  \/ SignStart
  \/ SignOne
  \/ SignDone
  \/ \E config \in Configs, content \in Contents, include \in BOOLEAN :
       CreateDigitalSignature(config, content, include)
  \/ \E m \in messages, content \in {<< >>} \cup {<< c >> : c \in Contents} :
       AlterContent(m, content)
  \/ \E m \in messages : \E i \in DOMAIN m.made, content \in Contents : AlterAttrs(m, i, content)
  \/ \E m \in messages : DropCertificates(m)
  \/ \E m \in messages : \E i \in DOMAIN m.made : NameByKey(m, i)
  \/ \E m, n \in messages : Merge(m, n)
  \/ \E m \in messages, id \in Ids, settings \in Verifiers : VerifyStart(m, id, settings)
  \/ \E m \in messages : VerifyDetached(m)
  \/ VerifySigner
  \/ VerifyDone
  \/ Return
  \/ Tick

Spec == Init /\ [][Next]_vars

-----------------------------------------------------------------------------
TypeOK ==
  /\ clock \in Time
  /\ Len(infos) <= Len(builder.signers)
  /\ signed \subseteq Keys \X Ids \X Contents
  /\ check.phase \in {"signers", "done"} =>
       /\ check.now \in Time /\ check.now <= clock
       /\ Len(check.results) <= Len(check.data.infos)
       /\ \A i \in DOMAIN check.data.certificates :
            check.data.certificates[i].version = 2

(* A signer is found valid only when the owner of the certificate's key    *)
(* signed exactly this content under the ID given, whatever happened to    *)
(* the message, and however many signers it has.                           *)
Authentic ==
  check.phase \in {"signers", "done"} =>
    \A i \in DOMAIN check.results :
      LET found == FindSigner(check.data.certificates, check.results[i].signer)
      IN  check.results[i].is_valid =>
            found # << >> /\ << found[1].key, check.id, check.data.content[1] >> \in signed

(* A signer named by its certificate is not valid when any of the lists    *)
(* that came with the message revokes that certificate, or when it had     *)
(* expired before the verification began.                                  *)
NoneRevoked ==
  check.phase \in {"signers", "done"} =>
    \A i \in DOMAIN check.results :
      LET result == check.results[i]
      IN  result.is_valid /\ result.certificate # << >> =>
            /\ check.now <= result.certificate[1].not_after
            /\ \A j \in DOMAIN check.message.der.crls :
                 ~ /\ check.message.der.crls[j].issuer = result.signer.issuer
                   /\ result.signer.serial \in check.message.der.crls[j].revoked

(* The signers of a message are in order: each used the key of its         *)
(* certificate and the ID that is verified, the certificates are told      *)
(* apart by issuer and serial number, were current all along and are not   *)
(* on a list.                                                              *)
InOrder(m, id, now) ==
  /\ \A i \in DOMAIN m.made :
       LET cert == m.made[i].certificate
       IN  /\ m.made[i].key = cert.key /\ m.made[i].id = id
           /\ \A t \in Time : t <= now => ValidAt(cert, t)
           /\ ~RevokedBy(cert, m.der.crls)
  /\ \A i, j \in DOMAIN m.made :
       IssuerAndSerial(m.made[i].certificate) = IssuerAndSerial(m.made[j].certificate)
         => m.made[i].certificate = m.made[j].certificate

(* What sign() and create_digital_signature() make, parallel signatures    *)
(* included, verifies: every signer, at the other end of DER.              *)
BuiltVerifies ==
  check.phase = "done" =>
    (check.message.made # << >> /\ InOrder(check.message, check.id, check.now)
       => AllValid)

(* The time a result reports is the signing time of its own signer.        *)
OwnSigningTime ==
  check.phase \in {"signers", "done"} =>
    \A i \in DOMAIN check.results :
      check.results[i].signing_time = check.data.infos[i].attrs.time
=============================================================================
