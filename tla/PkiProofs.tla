----------------------------- MODULE PkiProofs -----------------------------
(***************************************************************************)
(* Proofs about the certification authority: requests and certificates,    *)
(* for every set of names, keys, IDs and extensions and any number of      *)
(* them; revocation lists, for every set of serial numbers, any period and *)
(* any number of revocations and lists; and issuing and revoking side by   *)
(* side.                                                                   *)
(***************************************************************************)
EXTENDS Pki, SequenceFacts

-----------------------------------------------------------------------------
(* Requests and certificates.                                              *)

(* A certificate of the validity period of the model.                      *)
Build(issuer, subject, key, serial, extensions, by, id) ==
  BuildAndSign(issuer, subject, key, Validity, serial, extensions, by, id)

(* The fields of a built certificate, and what its signature covers.       *)
LEMMA BuiltFields ==
  ASSUME NEW issuer, NEW subject, NEW key, NEW serial, NEW extensions, NEW by, NEW id
  PROVE  LET c == Build(issuer, subject, key, serial, extensions, by, id)
         IN  /\ c.version = 2 /\ c.issuer = issuer /\ c.subject = subject
             /\ c.key = key /\ c.serial = serial /\ c.extensions = extensions
             /\ c.signature = Sign(by, id, Tbs(c))
<1> DEFINE unsigned == [version    |-> 2,
                        serial     |-> serial,
                        issuer     |-> issuer,
                        not_before |-> Validity[1],
                        not_after  |-> Validity[2],
                        subject    |-> subject,
                        key        |-> key,
                        extensions |-> extensions,
                        signature  |-> << >>]
           sig      == Sign(by, id, Tbs(unsigned))
           c        == Build(issuer, subject, key, serial, extensions, by, id)
<1>1. c = [unsigned EXCEPT !.signature = sig]
  BY DEF Build, BuildAndSign
<1> HIDE DEF sig, c
<1>2. /\ c.version = 2 /\ c.issuer = issuer /\ c.subject = subject
      /\ c.key = key /\ c.serial = serial /\ c.extensions = extensions
      /\ c.not_before = Validity[1] /\ c.not_after = Validity[2] /\ c.signature = sig
  BY <1>1
<1>3. Tbs(c) = Tbs(unsigned)
  BY <1>2 DEF Tbs
<1> QED
  BY <1>2, <1>3 DEF sig, c

(* DER keeps every field of a version 3 certificate but its extensions.    *)
LEMMA ParsedFields ==
  ASSUME NEW cert, cert.version = 2
  PROVE  LET p == Parse(Encode(cert))
         IN  /\ p.version = 2 /\ p.issuer = cert.issuer /\ p.subject = cert.subject
             /\ p.key = cert.key /\ p.serial = cert.serial /\ p.extensions = << >>
             /\ p.not_before = cert.not_before /\ p.not_after = cert.not_after
             /\ p.signature = cert.signature
<1> DEFINE tbs == Tbs(cert)
           p   == Parse(Encode(cert))
<1>1. /\ tbs.version = << 2 >> /\ tbs.serial = cert.serial /\ tbs.issuer = cert.issuer
      /\ tbs.validity = << cert.not_before, cert.not_after >> /\ tbs.subject = cert.subject
      /\ tbs.key = cert.key /\ tbs.extensions = ExtensionField(cert.extensions)
  BY DEF Tbs
<1> HIDE DEF tbs
<1>2. ParsedVersion(tbs.version) = 2
  BY <1>1 DEF ParsedVersion
<1>3. ParsedExtensions(tbs.extensions) = << >>
  <2>1. CASE cert.extensions = << >>
    BY <1>1, <2>1 DEF ExtensionField, ParsedExtensions
  <2>2. CASE cert.extensions # << >>
    <3>1. tbs.extensions[1].tag = "[3]"
      BY <1>1, <2>2 DEF ExtensionField
    <3> QED
      BY <3>1 DEF ParsedExtensions
  <2> QED
    BY <2>1, <2>2
<1>4. p = [version    |-> ParsedVersion(tbs.version),
           serial     |-> tbs.serial,
           issuer     |-> tbs.issuer,
           not_before |-> tbs.validity[1],
           not_after  |-> tbs.validity[2],
           subject    |-> tbs.subject,
           key        |-> tbs.key,
           extensions |-> ParsedExtensions(tbs.extensions),
           signature  |-> cert.signature]
  BY DEF Parse, Encode, tbs
<1> HIDE DEF p
<1>5. /\ p.version = 2 /\ p.issuer = cert.issuer /\ p.subject = cert.subject
      /\ p.key = cert.key /\ p.serial = cert.serial /\ p.extensions = << >>
      /\ p.not_before = cert.not_before /\ p.not_after = cert.not_after
      /\ p.signature = cert.signature
  BY <1>1, <1>2, <1>3, <1>4
<1> QED
  BY <1>5 DEF p

-----------------------------------------------------------------------------
(* The invariant.                                                          *)

(* Whatever a request says by now, its signature was made for a pair of    *)
(* key and name that its maker asked for.                                  *)
SignedWish ==
  \A csr \in csrs :
    \E key \in Keys, subject \in Names, id \in Ids :
      /\ csr = [info |-> csr.info, signature |-> Sign(key, id, CertReqInfo(key, subject))]
      /\ << key, subject >> \in requested

IInv == TypeOK /\ SignedWish /\ ProofOfPossession /\ IssuerVouches

(* A request that passes verify() says what its maker asked for.           *)
LEMMA VerifiedIsWanted ==
  ASSUME NEW csr \in csrs, SignedWish, CsrVerifies(csr)
  PROVE  << csr.info.key, csr.info.subject >> \in requested
<1>1. PICK key \in Keys, subject \in Names, id \in Ids :
        /\ csr = [info |-> csr.info, signature |-> Sign(key, id, CertReqInfo(key, subject))]
        /\ << key, subject >> \in requested
  BY DEF SignedWish
<1>2. Sign(key, id, CertReqInfo(key, subject)) = Sign(csr.info.key, DefaultId, csr.info)
  BY <1>1 DEF CsrVerifies, Verifies
<1>3. csr.info.key = key /\ csr.info = CertReqInfo(key, subject)
  BY <1>2 DEF Sign
<1>4. csr.info.subject = subject
  BY <1>3 DEF CertReqInfo
<1> QED
  BY <1>1, <1>3, <1>4

(* A certificate with an issuer that vouches for it, at a given set.       *)
Vouched(cert, in) ==
  cert.signature.over.extensions = << >> =>
    \E ca \in in : VerifiesWithCa(cert, ca, cert.signature.id)

CertTyped(cert) ==
  /\ cert.version = 2
  /\ {cert.issuer, cert.subject} \subseteq Names
  /\ cert.key \in Keys /\ cert.serial \in Serials
  /\ cert.extensions \in Extensions

(* Publishing a certificate that is typed and vouched for is harmless.     *)
LEMMA Published ==
  ASSUME NEW cert, CertTyped(cert), Publish(cert), Vouched(cert, certs'),
         \A c \in certs : CertTyped(c), IssuerVouches
  PROVE  (\A c \in certs : CertTyped(c))' /\ IssuerVouches'
<1>1. certs' = certs \cup {cert}
  BY DEF Publish
<1>2. \A c \in certs' : CertTyped(c)
  BY <1>1
<1>3. ASSUME NEW c \in certs' PROVE Vouched(c, certs')
  <2>1. CASE c \in certs
    BY <1>1, <2>1 DEF IssuerVouches, Vouched
  <2>2. CASE c = cert
    BY <2>2
  <2> QED
    BY <1>1, <2>1, <2>2
<1> QED
  BY <1>2, <1>3 DEF IssuerVouches, Vouched, CertTyped

(* A built certificate is vouched for by the owner of the signing key.     *)
LEMMA BuiltIsVouched ==
  ASSUME NEW in, NEW ca \in in, NEW subject, NEW key, NEW serial, NEW extensions, NEW id
  PROVE  Vouched(Build(ca.subject, subject, key, serial, extensions, ca.key, id), in)
<1> DEFINE c == Build(ca.subject, subject, key, serial, extensions, ca.key, id)
<1>1. c.issuer = ca.subject /\ c.signature = Sign(ca.key, id, Tbs(c))
  BY BuiltFields
<1> HIDE DEF c
<1>2. c.signature.id = id
  BY <1>1 DEF Sign
<1>3. VerifiesWithCa(c, ca, c.signature.id)
  BY <1>1, <1>2 DEF VerifiesWithCa, Verifies
<1> QED
  BY <1>3 DEF Vouched, c

(* So is what is left of a certificate that went through DER: when its     *)
(* signature covers no extensions it has none to lose.                     *)
LEMMA ParsedIsVouched ==
  ASSUME NEW in, NEW cert, cert.version = 2, Vouched(cert, in)
  PROVE  Vouched(Parse(Encode(cert)), in)
<1> DEFINE p == Parse(Encode(cert))
<1>1. /\ p.version = 2 /\ p.issuer = cert.issuer /\ p.subject = cert.subject
      /\ p.key = cert.key /\ p.serial = cert.serial /\ p.extensions = << >>
      /\ p.not_before = cert.not_before /\ p.not_after = cert.not_after
      /\ p.signature = cert.signature
  BY ParsedFields
<1> HIDE DEF p
<1> SUFFICES ASSUME cert.signature.over.extensions = << >>
             PROVE  \E ca \in in : VerifiesWithCa(p, ca, p.signature.id)
  BY <1>1 DEF Vouched, p
<1>2. PICK ca \in in : VerifiesWithCa(cert, ca, cert.signature.id)
  BY DEF Vouched
<1>3. cert.signature.over = Tbs(cert)
  BY <1>2 DEF VerifiesWithCa, Verifies, Sign
<1>4. ExtensionField(cert.extensions) = << >>
  BY <1>3 DEF Tbs
<1>5. cert.extensions = << >>
  <2>1. ASSUME cert.extensions # << >> PROVE FALSE
    <3>1. ExtensionField(cert.extensions) = << [tag |-> "[3]", body |-> cert.extensions] >>
      BY <2>1 DEF ExtensionField
    <3>2. Len(ExtensionField(cert.extensions)) = 1
      BY <3>1
    <3>3. Len(ExtensionField(cert.extensions)) = 0
      BY <1>4
    <3> QED
      BY <3>2, <3>3, SMTT(30)
  <2> QED
    BY <2>1
<1>6. Tbs(p) = Tbs(cert)
  BY <1>1, <1>5 DEF Tbs
<1> QED
  BY <1>1, <1>2, <1>6 DEF VerifiesWithCa

-----------------------------------------------------------------------------
LEMMA InitIInv == Init => IInv
<1> SUFFICES ASSUME Init PROVE IInv
  OBVIOUS
<1>1. csrs = {} /\ certs = {} /\ requested = {} /\ certified = {}
  BY DEF Init
<1> QED
  BY <1>1 DEF IInv, TypeOK, SignedWish, ProofOfPossession, IssuerVouches

(* The parts of the invariant, restated for the steps below.               *)
CsrsTyped == \A csr \in csrs : csr.info \in [subject : Names, key : Keys]
LogsTyped == requested \cup certified \subseteq Keys \X Names

LEMMA Parts ==
  TypeOK <=> CsrsTyped /\ (\A c \in certs : CertTyped(c)) /\ LogsTyped
  BY DEF TypeOK, CsrsTyped, CertTyped, LogsTyped

LEMMA NextIInv ==
  ASSUME IInv, [Next]_vars
  PROVE  IInv'
<1>1. CsrsTyped /\ (\A c \in certs : CertTyped(c)) /\ LogsTyped
  BY Parts DEF IInv
<1>2. SignedWish /\ ProofOfPossession /\ IssuerVouches
  BY DEF IInv
<1> SUFFICES /\ CsrsTyped' /\ (\A c \in certs : CertTyped(c))' /\ LogsTyped'
             /\ SignedWish' /\ ProofOfPossession' /\ IssuerVouches'
  BY Parts, PTL DEF IInv
<1>3. ASSUME NEW key \in Keys, NEW subject \in Names, NEW id \in Ids,
             CreateCsr(key, subject, id)
      PROVE  /\ CsrsTyped' /\ (\A c \in certs : CertTyped(c))' /\ LogsTyped'
             /\ SignedWish' /\ ProofOfPossession' /\ IssuerVouches'
  <2> DEFINE csr == Create(key, subject, id)
  <2>1. /\ csrs' = csrs \cup {csr} /\ requested' = requested \cup {<< key, subject >>}
        /\ certs' = certs /\ certified' = certified
    BY <1>3 DEF CreateCsr, Send
  <2>2. /\ csr.info = CertReqInfo(key, subject)
        /\ csr = [info |-> csr.info, signature |-> Sign(key, id, CertReqInfo(key, subject))]
    BY DEF Create
  <2>3. CertReqInfo(key, subject) \in [subject : Names, key : Keys]
    BY DEF CertReqInfo
  <2> HIDE DEF csr
  <2>4. CsrsTyped'
    BY <1>1, <2>1, <2>2, <2>3 DEF CsrsTyped
  <2>5. LogsTyped'
    BY <1>1, <2>1 DEF LogsTyped
  <2>6. SignedWish'
    BY <1>2, <2>1, <2>2 DEF SignedWish
  <2>7. ProofOfPossession' /\ IssuerVouches' /\ (\A c \in certs : CertTyped(c))'
    BY <1>1, <1>2, <2>1 DEF ProofOfPossession, IssuerVouches, CertTyped
  <2> QED
    BY <2>4, <2>5, <2>6, <2>7
<1>4. ASSUME NEW csr \in csrs, NEW key \in Keys, NEW subject \in Names,
             DamageCsr(csr, key, subject)
      PROVE  /\ CsrsTyped' /\ (\A c \in certs : CertTyped(c))' /\ LogsTyped'
             /\ SignedWish' /\ ProofOfPossession' /\ IssuerVouches'
  <2> DEFINE damaged == [csr EXCEPT !.info = CertReqInfo(key, subject)]
  <2>1. /\ csrs' = csrs \cup {damaged} /\ requested' = requested
        /\ certs' = certs /\ certified' = certified
    BY <1>4 DEF DamageCsr, Send
  <2>2. /\ damaged.info = CertReqInfo(key, subject)
        /\ \A sig : csr = [info |-> csr.info, signature |-> sig]
                     => damaged = [info |-> damaged.info, signature |-> sig]
    <3>1. PICK sig : csr = [info |-> csr.info, signature |-> sig]
      BY <1>2 DEF SignedWish
    <3>2. damaged = [info |-> CertReqInfo(key, subject), signature |-> sig]
      BY <3>1
    <3>3. damaged.info = CertReqInfo(key, subject)
      BY <3>2
    <3>4. ASSUME NEW s, csr = [info |-> csr.info, signature |-> s] PROVE s = sig
      BY <3>1, <3>4
    <3> HIDE DEF damaged
    <3> QED
      BY <3>2, <3>3, <3>4
  <2>3. CertReqInfo(key, subject) \in [subject : Names, key : Keys]
    BY DEF CertReqInfo
  <2> HIDE DEF damaged
  <2>4. CsrsTyped'
    BY <1>1, <2>1, <2>2, <2>3 DEF CsrsTyped
  <2>5. SignedWish'
    <3> SUFFICES ASSUME NEW d \in csrs \cup {damaged}
                 PROVE  \E k \in Keys, s \in Names, id \in Ids :
                          /\ d = [info |-> d.info,
                                  signature |-> Sign(k, id, CertReqInfo(k, s))]
                          /\ << k, s >> \in requested
      BY <2>1 DEF SignedWish
    <3>1. PICK e \in csrs : e = d \/ (e = csr /\ d = damaged)
      OBVIOUS
    <3>2. PICK k \in Keys, s \in Names, id \in Ids :
            /\ e = [info |-> e.info, signature |-> Sign(k, id, CertReqInfo(k, s))]
            /\ << k, s >> \in requested
      BY <1>2 DEF SignedWish
    <3>3. d = [info |-> d.info, signature |-> Sign(k, id, CertReqInfo(k, s))]
      BY <2>2, <3>1, <3>2
    <3> QED
      BY <3>2, <3>3
  <2>6. ProofOfPossession' /\ IssuerVouches' /\ (\A c \in certs : CertTyped(c))' /\ LogsTyped'
    BY <1>1, <1>2, <2>1 DEF ProofOfPossession, IssuerVouches, CertTyped, LogsTyped
  <2> QED
    BY <2>4, <2>5, <2>6
<1>5. ASSUME NEW key \in Keys, NEW subject \in Names, NEW serial \in Serials,
             NEW extensions \in Extensions, NEW id \in Ids,
             SelfSign(key, subject, serial, extensions, id)
      PROVE  /\ CsrsTyped' /\ (\A c \in certs : CertTyped(c))' /\ LogsTyped'
             /\ SignedWish' /\ ProofOfPossession' /\ IssuerVouches'
  <2> DEFINE cert == Build(subject, subject, key, serial, extensions, key, id)
  <2>1. /\ Publish(cert) /\ certs' = certs \cup {cert}
        /\ csrs' = csrs /\ requested' = requested /\ certified' = certified
    BY <1>5 DEF SelfSign, Publish, Build
  <2>2. /\ cert.version = 2 /\ cert.issuer = subject /\ cert.subject = subject
        /\ cert.key = key /\ cert.serial = serial /\ cert.extensions = extensions
    BY BuiltFields
  <2>3. Vouched(Build(cert.subject, subject, key, serial, extensions, cert.key, id), certs')
    BY <2>1, BuiltIsVouched
  <2>4. Vouched(cert, certs')
    BY <2>2, <2>3
  <2> HIDE DEF cert
  <2>5. CertTyped(cert)
    BY <2>2 DEF CertTyped
  <2>6. (\A c \in certs : CertTyped(c))' /\ IssuerVouches'
    BY <1>1, <1>2, <2>1, <2>4, <2>5, Published
  <2>7. CsrsTyped' /\ LogsTyped' /\ SignedWish' /\ ProofOfPossession'
    BY <1>1, <1>2, <2>1 DEF CsrsTyped, LogsTyped, SignedWish, ProofOfPossession
  <2> QED
    BY <2>6, <2>7
<1>6. ASSUME NEW csr \in csrs, NEW ca \in certs, NEW serial \in Serials,
             NEW extensions \in Extensions, NEW id \in Ids,
             IssueFromCsr(csr, ca, serial, extensions, id)
      PROVE  /\ CsrsTyped' /\ (\A c \in certs : CertTyped(c))' /\ LogsTyped'
             /\ SignedWish' /\ ProofOfPossession' /\ IssuerVouches'
  <2> DEFINE cert == Build(ca.subject, csr.info.subject, csr.info.key,
                           serial, extensions, ca.key, id)
  <2>1. /\ Publish(cert) /\ certs' = certs \cup {cert} /\ CsrVerifies(csr)
        /\ csrs' = csrs /\ requested' = requested
        /\ certified' = certified \cup {<< csr.info.key, csr.info.subject >>}
    BY <1>6 DEF IssueFromCsr, Publish, Build
  <2>2. /\ cert.version = 2 /\ cert.issuer = ca.subject /\ cert.subject = csr.info.subject
        /\ cert.key = csr.info.key /\ cert.serial = serial /\ cert.extensions = extensions
    BY BuiltFields
  <2>3. ca \in certs'
    BY <2>1
  <2>4. Vouched(cert, certs')
    BY <2>3, BuiltIsVouched
  <2> HIDE DEF cert
  <2>5. csr.info.subject \in Names /\ csr.info.key \in Keys /\ ca.subject \in Names
    BY <1>1 DEF CsrsTyped, CertTyped
  <2>6. CertTyped(cert)
    BY <2>2, <2>5 DEF CertTyped
  <2>7. (\A c \in certs : CertTyped(c))' /\ IssuerVouches'
    BY <1>1, <1>2, <2>1, <2>4, <2>6, Published
  <2>8. << csr.info.key, csr.info.subject >> \in requested
    BY <1>2, <2>1, VerifiedIsWanted
  <2>9. ProofOfPossession' /\ LogsTyped'
    BY <1>1, <1>2, <2>1, <2>5, <2>8 DEF ProofOfPossession, LogsTyped
  <2>10. CsrsTyped' /\ SignedWish'
    BY <1>1, <1>2, <2>1 DEF CsrsTyped, SignedWish
  <2> QED
    BY <2>7, <2>9, <2>10
<1>7. ASSUME NEW cert \in certs, Transfer(cert)
      PROVE  /\ CsrsTyped' /\ (\A c \in certs : CertTyped(c))' /\ LogsTyped'
             /\ SignedWish' /\ ProofOfPossession' /\ IssuerVouches'
  <2> DEFINE p == Parse(Encode(cert))
  <2>1. /\ Publish(p) /\ certs' = certs \cup {p}
        /\ csrs' = csrs /\ requested' = requested /\ certified' = certified
    BY <1>7 DEF Transfer, Publish
  <2>2. CertTyped(cert) /\ Vouched(cert, certs')
    BY <1>1, <1>2, <2>1 DEF IssuerVouches, Vouched
  <2>3. cert.version = 2
    BY <2>2 DEF CertTyped
  <2>4. Vouched(p, certs')
    BY <2>2, <2>3, ParsedIsVouched
  <2>5. /\ p.version = 2 /\ p.issuer = cert.issuer /\ p.subject = cert.subject
        /\ p.key = cert.key /\ p.serial = cert.serial /\ p.extensions = << >>
    BY <2>3, ParsedFields
  <2> HIDE DEF p
  <2>6. CertTyped(p)
    BY <2>2, <2>5 DEF CertTyped, Extensions
  <2>7. (\A c \in certs : CertTyped(c))' /\ IssuerVouches'
    BY <1>1, <1>2, <2>1, <2>4, <2>6, Published
  <2>8. CsrsTyped' /\ LogsTyped' /\ SignedWish' /\ ProofOfPossession'
    BY <1>1, <1>2, <2>1 DEF CsrsTyped, LogsTyped, SignedWish, ProofOfPossession
  <2> QED
    BY <2>7, <2>8
<1>8. CASE UNCHANGED vars
  BY <1>1, <1>2, <1>8
     DEF vars, CsrsTyped, LogsTyped, SignedWish, ProofOfPossession, IssuerVouches, CertTyped
<1> QED
  BY <1>3, <1>4, <1>5, <1>6, <1>7, <1>8 DEF Next

(* The inductive invariant: what is on its way is what someone asked for   *)
(* and signed, damaged or not, and every certificate was vouched for.      *)
THEOREM InductiveInvariant == Spec => []IInv
<1> QED
  BY InitIInv, NextIInv, PTL DEF Spec

(* Type correctness: certificates stay version 3 through DER.              *)
THEOREM TypeCorrect == Spec => []TypeOK
<1>1. IInv => TypeOK
  BY DEF IInv
<1> QED
  BY <1>1, InductiveInvariant, PTL

(* No authority certifies a key for a name that the owner of the key did   *)
(* not ask for, however requests are damaged on their way.                 *)
THEOREM Possession == Spec => []ProofOfPossession
<1>1. IInv => ProofOfPossession
  BY DEF IInv
<1> QED
  BY <1>1, InductiveInvariant, PTL

(* Certificates whose signature covers no extensions keep an issuer that   *)
(* vouches for them through any number of DER transfers.                   *)
THEOREM Vouching == Spec => []IssuerVouches
<1>1. IInv => IssuerVouches
  BY DEF IInv
<1> QED
  BY <1>1, InductiveInvariant, PTL

-----------------------------------------------------------------------------
(* The builder: one call of add_revoked() after the other.                 *)

Records  == [serial : Revocable, date : Nat, reason : {r[1] : r \in Reasons},
             invalidity : {r[2] : r \in Reasons}]
Builders == [issuer : {<< >>} \cup {<< n >> : n \in Names},
             this_update : {<< >>} \cup {<< t >> : t \in Nat},
             next_update : {<< >>} \cup {<< t >> : t \in Nat},
             revoked : Seq(Records)]

LEMMA AddRevokedFields ==
  ASSUME NEW b \in Builders, NEW r \in Records
  PROVE  /\ AddRevoked(b, r) \in Builders
         /\ AddRevoked(b, r) = [b EXCEPT !.revoked = Append(b.revoked, r)]
         /\ AddRevoked(b, r).revoked = Append(b.revoked, r)
<1>1. b.revoked \in Seq(Records)
  BY DEF Builders
<1>2. Append(b.revoked, r) \in Seq(Records)
  BY <1>1
<1>3. AddRevoked(b, r) = [b EXCEPT !.revoked = Append(b.revoked, r)]
  BY DEF AddRevoked
<1>4. \A s \in Seq(Records) : /\ [b EXCEPT !.revoked = s] \in Builders
                              /\ [b EXCEPT !.revoked = s].revoked = s
  BY DEF Builders
<1> QED
  BY <1>2, <1>3, <1>4

(* A builder to which everything was added has everything, in that order.  *)
LEMMA AllAdded ==
  ASSUME NEW b \in Builders, NEW rs \in Seq(Records), b.revoked = << >>
  PROVE  FoldLeft(AddRevoked, b, rs) = [b EXCEPT !.revoked = rs]
<1> DEFINE n     == Len(rs)
           D     == DOMAIN rs
           step  == [i \in 1..n |-> [c \in Builders |-> AddRevoked(c, rs[i])]]
           IsFold(f) == f = [s \in SUBSET D |->
                               IF s = {} THEN b ELSE AddRevoked(f[s \ {Max(s)}], rs[Max(s)])]
           f     == CHOOSE f : IsFold(f)
<1>1. n \in Nat /\ D = 1..n /\ \A i \in 1..n : rs[i] \in Records
  BY LenProperties, ElementOfSeq
<1> HIDE DEF n, D
<1>2. step \in [1..n -> [Builders -> Builders]]
  BY <1>1, AddRevokedFields
<1>3. \A i \in 1..n, c \in Builders : step[i][c] = AddRevoked(c, rs[i])
  OBVIOUS
<1> HIDE DEF step
<1>4. PICK g : Folds(g, Builders, b, n, step)
  BY <1>1, <1>2, FoldExists
<1>4a. /\ g \in [SUBSET (1..n) -> Builders]
      /\ \A s \in SUBSET (1..n) : g[s] = IF s = {} THEN b ELSE step[Max(s)][g[s \ {Max(s)}]]
  BY <1>4 DEF Folds
<1>5. ASSUME NEW s \in SUBSET D
      PROVE  g[s] = IF s = {} THEN b ELSE AddRevoked(g[s \ {Max(s)}], rs[Max(s)])
  <2>1. CASE s = {}
    BY <1>1, <1>4a, <2>1
  <2>2. CASE s # {}
    <3>1. Max(s) \in 1..n
      BY <1>1, <2>2, MaxGreatest
    <3>2. s \ {Max(s)} \in SUBSET (1..n)
      BY <1>1
    <3>3. g[s \ {Max(s)}] \in Builders
      BY <1>4a, <3>2
    <3> QED
      BY <1>1, <1>3, <1>4a, <2>2, <3>1, <3>3
  <2> QED
    BY <2>1, <2>2
<1>6. IsFold(g)
  BY <1>1, <1>5, <1>4a
<1>7. IsFold(f)
  <2> HIDE DEF IsFold
  <2> QED
    BY <1>6, Zenon
<1>8. FoldLeft(AddRevoked, b, rs) = f[D]
  BY DEF FoldLeft, MapThenFoldSet, D
<1> HIDE DEF f
<1>9. \A s \in SUBSET D :
        f[s] = IF s = {} THEN b ELSE AddRevoked(f[s \ {Max(s)}], rs[Max(s)])
  BY <1>7
<1> DEFINE with(k) == [b EXCEPT !.revoked = SubSeq(rs, 1, k)]
           T       == {k \in 0..n : f[1..k] = with(k)}
<1>10. \A s \in Seq(Records) : /\ [b EXCEPT !.revoked = s] \in Builders
                               /\ [b EXCEPT !.revoked = s].revoked = s
                               /\ \A t : [[b EXCEPT !.revoked = s] EXCEPT !.revoked = t]
                                           = [b EXCEPT !.revoked = t]
  BY DEF Builders
<1>11. 0 \in T
  <2>1. 1..0 = {} /\ SubSeq(rs, 1, 0) = << >> /\ 0 \in 0..n
    BY <1>1
  <2>2. f[1..0] = b
    BY <1>9, <2>1
  <2>3. [b EXCEPT !.revoked = << >>] = b
    BY DEF Builders
  <2> QED
    BY <2>1, <2>2, <2>3
<1>12. ASSUME NEW k \in 0..(n - 1), k \in T PROVE k + 1 \in T
  <2>1. /\ k + 1 \in 1..n /\ k + 1 \in 0..n /\ k \in Nat
        /\ 1..(k + 1) \in SUBSET D /\ 1..(k + 1) # {}
        /\ (1..(k + 1)) \ {k + 1} = 1..k
    <3>1. k + 1 \in 1..n /\ k + 1 \in 0..n /\ k \in Nat
      BY <1>1
    <3>2. 1..(k + 1) \subseteq 1..n
      BY <1>1, <3>1
    <3>3. k + 1 \in 1..(k + 1)
      BY <3>1
    <3>4. \A y : y \in (1..(k + 1)) \ {k + 1} <=> y \in 1..k
      BY <3>1
    <3> QED
      BY <1>1, <3>1, <3>2, <3>3, <3>4
  <2>2. Max(1..(k + 1)) = k + 1
    <3>1. Max(1..(k + 1)) \in 1..(k + 1) /\ \A y \in 1..(k + 1) : y <= Max(1..(k + 1))
      BY <1>1, <2>1, MaxGreatest
    <3>2. k + 1 <= Max(1..(k + 1))
      BY <2>1, <3>1
    <3> QED
      BY <2>1, <3>1, <3>2
  <2>3. f[1..(k + 1)] = AddRevoked(with(k), rs[k + 1])
    BY <1>9, <1>12, <2>1, <2>2
  <2>4. SubSeq(rs, 1, k) \in Seq(Records)
    BY <1>1, <2>1, SubSeqProperties
  <2>5. SubSeq(rs, 1, k + 1) = Append(SubSeq(rs, 1, k), rs[k + 1])
    BY <1>1, <2>1 DEF n
  <2>6. with(k) \in Builders /\ with(k).revoked = SubSeq(rs, 1, k) /\ rs[k + 1] \in Records
    BY <1>1, <1>10, <2>1, <2>4
  <2>7. AddRevoked(with(k), rs[k + 1])
          = [with(k) EXCEPT !.revoked = Append(SubSeq(rs, 1, k), rs[k + 1])]
    <3> DEFINE c == with(k)
    <3>1. c \in Builders /\ c.revoked = SubSeq(rs, 1, k)
      BY <2>6
    <3> HIDE DEF c
    <3>2. AddRevoked(c, rs[k + 1]) = [c EXCEPT !.revoked = Append(c.revoked, rs[k + 1])]
      BY <2>6, <3>1, AddRevokedFields
    <3> QED
      BY <3>1, <3>2 DEF c
  <2>8. AddRevoked(with(k), rs[k + 1]) = with(k + 1)
    BY <1>10, <2>4, <2>5, <2>7
  <2> QED
    BY <2>1, <2>3, <2>8
<1> HIDE DEF T, with
<1>13. n \in T
  <2>1. n \in 0..n
    BY <1>1
  <2> QED
    BY <1>1, <1>11, <1>12, <2>1, UpTo
<1>14. SubSeq(rs, 1, n) = rs
  BY <1>1, SubSeqFull DEF n
<1> QED
  BY <1>1, <1>8, <1>13, <1>14 DEF T, with

-----------------------------------------------------------------------------
(* The invariant.                                                          *)

(* A list as its authority signed it: all that had been revoked by then,   *)
(* what has been revoked since is not older than its update.               *)
Signed(list, key, rs, now) ==
  /\ list = [tbs |-> list.tbs, signature |-> Sign(key, DefaultId, list.tbs)]
  /\ list.tbs.algorithm = "SM2"
  /\ list.tbs.this_update \in Nat /\ list.tbs.this_update <= now
  /\ list.tbs.next_update \in {<< >>, << list.tbs.this_update + Period >>}
  /\ \E n \in 0..Len(rs) :
       /\ list.tbs.revoked = [i \in 1..n |-> Entry(rs[i])]
       /\ \A i \in (n + 1)..Len(rs) : list.tbs.this_update <= rs[i].date

RevInv ==
  /\ authority \subseteq Keys \X Names /\ \A a, b \in authority : a = b
  /\ clock \in Nat
  /\ revoked \in Seq(Records) /\ \A i \in 1..Len(revoked) : revoked[i].date <= clock
  /\ \A list \in lists : \E a \in authority : Signed(list, a[1], revoked, clock)

LEMMA SignedLater ==
  ASSUME NEW list, NEW key, NEW rs, NEW s \in Nat, NEW t \in Nat, s <= t,
         Signed(list, key, rs, s)
  PROVE  Signed(list, key, rs, t)
BY DEF Signed

(* One more revocation leaves a list what it was.                          *)
LEMMA SignedBefore ==
  ASSUME NEW list, NEW key, NEW rs \in Seq(Records), NEW r \in Records, NEW now \in Nat,
         r.date = now, Signed(list, key, rs, now)
  PROVE  Signed(list, key, Append(rs, r), now)
<1> DEFINE longer == Append(rs, r)
           update == list.tbs.this_update
<1>1. PICK n \in 0..Len(rs) :
        /\ list.tbs.revoked = [i \in 1..n |-> Entry(rs[i])]
        /\ \A i \in (n + 1)..Len(rs) : update <= rs[i].date
  BY DEF Signed
<1>2. /\ Len(longer) = Len(rs) + 1 /\ longer[Len(rs) + 1] = r
      /\ \A i \in 1..Len(rs) : longer[i] = rs[i]
  BY AppendProperties
<1>3. Len(rs) \in Nat
  OBVIOUS
<1> HIDE DEF longer
<1>4. n \in 0..Len(longer) /\ \A i \in 1..n : i \in 1..Len(rs)
  BY <1>2, <1>3
<1>5. list.tbs.revoked = [i \in 1..n |-> Entry(longer[i])]
  BY <1>1, <1>2, <1>4
<1>6. ASSUME NEW i \in (n + 1)..Len(longer) PROVE update <= longer[i].date
  <2>1. CASE i = Len(rs) + 1
    BY <1>2, <2>1 DEF Signed
  <2>2. CASE i # Len(rs) + 1
    <3>1. i \in (n + 1)..Len(rs) /\ i \in 1..Len(rs)
      BY <1>2, <1>3, <2>2
    <3> QED
      BY <1>1, <1>2, <3>1
  <2> QED
    BY <2>1, <2>2
<1> QED
  BY <1>4, <1>5, <1>6 DEF Signed, longer

LEMMA NewList ==
  ASSUME RevInv, NEW key \in Keys, NEW name \in Names,
         NEW calls \in SUBSET {"issuer", "this_update", "next_update"},
         SignList(key, name, calls)
  PROVE  \E list : lists' = lists \cup {list} /\ Signed(list, key, revoked, clock)
<1> DEFINE B1   == IF "issuer" \in calls THEN Issuer(NewBuilder, name) ELSE NewBuilder
           B2   == IF "this_update" \in calls THEN ThisUpdate(B1, clock) ELSE B1
           B3   == IF "next_update" \in calls THEN NextUpdate(B2, clock + Period) ELSE B2
           all  == FoldLeft(AddRevoked, B3, revoked)
           made == SignCrl(all, key, DefaultId)
<1>1. clock \in Nat /\ clock + Period \in Nat /\ revoked \in Seq(Records)
  BY PeriodAssumption DEF RevInv
<1>2. NewBuilder \in Builders /\ NewBuilder.revoked = << >> /\ NewBuilder.next_update = << >>
      /\ NewBuilder.this_update = << >>
  <2>1. << >> \in Seq(Records)
    OBVIOUS
  <2> QED
    BY <2>1 DEF NewBuilder, Builders
<1>3. B1 \in Builders /\ B1.revoked = << >> /\ B1.next_update = << >> /\ B1.this_update = << >>
  <2> HIDE DEF B1
  <2>1. B1 = NewBuilder \/ B1 = [NewBuilder EXCEPT !.issuer = << name >>]
    BY DEF B1, Issuer
  <2>2. LET b == [NewBuilder EXCEPT !.issuer = << name >>]
        IN  b \in Builders /\ b.revoked = << >> /\ b.next_update = << >> /\ b.this_update = << >>
    BY <1>2 DEF Builders
  <2> QED
    BY <1>2, <2>1, <2>2
<1> HIDE DEF B1
<1>4. B2 \in Builders /\ B2.revoked = << >> /\ B2.next_update = << >>
      /\ B2.this_update \in {<< >>, << clock >>}
  <2> HIDE DEF B2
  <2>1. B2 = B1 \/ B2 = [B1 EXCEPT !.this_update = << clock >>]
    BY DEF B2, ThisUpdate
  <2>2. LET b == [B1 EXCEPT !.this_update = << clock >>]
        IN  b \in Builders /\ b.revoked = << >> /\ b.next_update = << >>
            /\ b.this_update = << clock >>
    BY <1>1, <1>3 DEF Builders
  <2> QED
    BY <1>3, <2>1, <2>2
<1> HIDE DEF B2
<1>5. B3 \in Builders /\ B3.revoked = << >>
      /\ B3.next_update \in {<< >>, << clock + Period >>}
      /\ B3.this_update \in {<< >>, << clock >>}
  <2> HIDE DEF B3
  <2>1. B3 = B2 \/ B3 = [B2 EXCEPT !.next_update = << clock + Period >>]
    BY DEF B3, NextUpdate
  <2>2. LET b == [B2 EXCEPT !.next_update = << clock + Period >>]
        IN  b \in Builders /\ b.revoked = << >> /\ b.this_update = B2.this_update
            /\ b.next_update = << clock + Period >>
    BY <1>1, <1>4 DEF Builders
  <2> QED
    BY <1>4, <2>1, <2>2
<1> HIDE DEF B3
<1>6. all = [B3 EXCEPT !.revoked = revoked]
  BY <1>1, <1>5, AllAdded
<1> HIDE DEF all
<1>7. /\ all.revoked = revoked /\ all.this_update = B3.this_update
      /\ all.next_update = B3.next_update
  BY <1>5, <1>6 DEF Builders
<1>8. made.ok /\ lists' = lists \cup {made.val}
  BY DEF SignList, B1, B2, B3, all
<1> DEFINE tbs == [algorithm   |-> "SM2",
                   issuer      |-> all.issuer[1],
                   this_update |-> all.this_update[1],
                   next_update |-> all.next_update,
                   revoked     |-> [i \in DOMAIN all.revoked |-> Entry(all.revoked[i])]]
<1>9. /\ all.issuer # << >> /\ all.this_update # << >>
      /\ made.val = [tbs |-> tbs, signature |-> Sign(key, DefaultId, tbs)]
  BY <1>8 DEF SignCrl
<1>10. all.this_update = << clock >>
  BY <1>5, <1>7, <1>9
<1>11. /\ tbs.algorithm = "SM2" /\ tbs.this_update = clock
       /\ tbs.next_update \in {<< >>, << clock + Period >>}
       /\ tbs.revoked = [i \in DOMAIN revoked |-> Entry(revoked[i])]
  BY <1>5, <1>7, <1>10
<1> HIDE DEF made, tbs
<1>12. DOMAIN revoked = 1..Len(revoked) /\ Len(revoked) \in Nat
  BY <1>1, LenProperties
<1>13. \E n \in 0..Len(revoked) :
         /\ tbs.revoked = [i \in 1..n |-> Entry(revoked[i])]
         /\ \A i \in (n + 1)..Len(revoked) : tbs.this_update <= revoked[i].date
  <2>1. \A i \in (Len(revoked) + 1)..Len(revoked) : FALSE
    BY <1>12
  <2>2. tbs.revoked = [i \in 1..Len(revoked) |-> Entry(revoked[i])]
    BY <1>11, <1>12
  <2>3. Len(revoked) \in 0..Len(revoked)
    BY <1>12
  <2> QED
    BY <2>1, <2>2, <2>3
<1>14. made.val.tbs = tbs
  BY <1>9
<1>15. Signed(made.val, key, revoked, clock)
  <2> DEFINE list == made.val
  <2>1. list.tbs = tbs /\ list = [tbs |-> tbs, signature |-> Sign(key, DefaultId, tbs)]
    BY <1>9, <1>14
  <2> HIDE DEF list
  <2>2. /\ list.tbs.algorithm = "SM2"
        /\ list.tbs.this_update \in Nat /\ list.tbs.this_update <= clock
        /\ list.tbs.next_update \in {<< >>, << list.tbs.this_update + Period >>}
    BY <1>1, <1>11, <2>1
  <2>3. \E n \in 0..Len(revoked) :
          /\ list.tbs.revoked = [i \in 1..n |-> Entry(revoked[i])]
          /\ \A i \in (n + 1)..Len(revoked) : list.tbs.this_update <= revoked[i].date
    BY <1>13, <2>1
  <2>4. Signed(list, key, revoked, clock)
    BY <2>1, <2>2, <2>3 DEF Signed
  <2> QED
    BY <2>4 DEF list
<1> QED
  BY <1>8, <1>15

LEMMA RevInitInv == RevInit => RevInv
<1>1. << >> \in Seq(Records) /\ Len(<< >>) = 0
  OBVIOUS
<1> QED
  BY <1>1 DEF RevInit, RevInv

LEMMA RevUnchanged == RevInv /\ UNCHANGED revVars => RevInv'
BY DEF RevInv, revVars

(* The steps of revocation.                                                *)
LEMMA RevSteps ==
  ASSUME RevInv,
         \/ \E key \in Keys, name \in Names : Found(key, name)
         \/ Pass
         \/ \E serial \in Revocable, reason \in Reasons : Revoke(serial, reason[1], reason[2])
         \/ \E a \in authority, calls \in SUBSET {"issuer", "this_update", "next_update"} :
              SignList(a[1], a[2], calls)
  PROVE  RevInv'
<1>1. /\ authority \subseteq Keys \X Names /\ \A a, b \in authority : a = b
      /\ clock \in Nat
      /\ revoked \in Seq(Records) /\ \A i \in 1..Len(revoked) : revoked[i].date <= clock
      /\ \A list \in lists : \E a \in authority : Signed(list, a[1], revoked, clock)
  BY DEF RevInv
<1>2. ASSUME NEW key \in Keys, NEW name \in Names, Found(key, name) PROVE RevInv'
  <2>1. /\ authority = {} /\ authority' = {<< key, name >>}
        /\ clock' = clock /\ revoked' = revoked /\ lists' = lists
    BY <1>2 DEF Found
  <2>2. lists = {}
    BY <1>1, <2>1
  <2> QED
    BY <1>1, <2>1, <2>2 DEF RevInv
<1>3. CASE Pass
  <2>1. /\ clock' = clock + 1 /\ authority' = authority /\ revoked' = revoked /\ lists' = lists
    BY <1>3 DEF Pass
  <2>2. clock + 1 \in Nat /\ clock <= clock + 1
    BY <1>1
  <2>3. \A list \in lists : \E a \in authority : Signed(list, a[1], revoked, clock + 1)
    BY <1>1, <2>2, SignedLater
  <2>4. \A i \in 1..Len(revoked) : revoked[i].date \in Nat
    <3>1. \A i \in 1..Len(revoked) : revoked[i] \in Records
      BY <1>1, ElementOfSeq
    <3> QED
      BY <3>1 DEF Records
  <2>5. \A i \in 1..Len(revoked) : revoked[i].date <= clock + 1
    BY <1>1, <2>4
  <2> QED
    BY <1>1, <2>1, <2>2, <2>3, <2>5 DEF RevInv
<1>4. ASSUME NEW serial \in Revocable, NEW reason \in Reasons,
             Revoke(serial, reason[1], reason[2])
      PROVE  RevInv'
  <2> DEFINE r == [serial |-> serial, date |-> clock, reason |-> reason[1],
                   invalidity |-> reason[2]]
  <2>1. /\ revoked' = Append(revoked, r) /\ authority' = authority /\ clock' = clock
        /\ lists' = lists
    BY <1>4 DEF Revoke
  <2>2. r \in Records /\ r.date = clock
    BY <1>1 DEF Records
  <2> HIDE DEF r
  <2>3. /\ Append(revoked, r) \in Seq(Records) /\ Len(Append(revoked, r)) = Len(revoked) + 1
        /\ \A i \in 1..Len(revoked) : Append(revoked, r)[i] = revoked[i]
        /\ Append(revoked, r)[Len(revoked) + 1] = r
    BY <1>1, <2>2, AppendProperties
  <2>4. ASSUME NEW i \in 1..Len(Append(revoked, r))
        PROVE  Append(revoked, r)[i].date <= clock
    <3>1. CASE i = Len(revoked) + 1
      BY <1>1, <2>2, <2>3, <3>1
    <3>2. CASE i # Len(revoked) + 1
      <4>1. i \in 1..Len(revoked)
        BY <1>1, <2>3, <3>2
      <4> QED
        BY <1>1, <2>3, <4>1
    <3> QED
      BY <3>1, <3>2
  <2>5. \A list \in lists : \E a \in authority : Signed(list, a[1], Append(revoked, r), clock)
    BY <1>1, <2>2, SignedBefore
  <2> QED
    BY <1>1, <2>1, <2>3, <2>4, <2>5 DEF RevInv
<1>5. ASSUME NEW a \in authority,
             NEW calls \in SUBSET {"issuer", "this_update", "next_update"},
             SignList(a[1], a[2], calls)
      PROVE  RevInv'
  <2>1. a[1] \in Keys /\ a[2] \in Names
    BY <1>1
  <2>2. PICK list : lists' = lists \cup {list} /\ Signed(list, a[1], revoked, clock)
    BY <1>5, <2>1, NewList
  <2>3. authority' = authority /\ clock' = clock /\ revoked' = revoked
    BY <1>5 DEF SignList
  <2> QED
    BY <1>1, <2>2, <2>3 DEF RevInv
<1> QED
  BY <1>2, <1>3, <1>4, <1>5

LEMMA PkiNextInv == RevInv /\ [PkiNext]_<< vars, revVars >> => RevInv'
<1> SUFFICES ASSUME RevInv, [PkiNext]_<< vars, revVars >> PROVE RevInv'
  OBVIOUS
<1>1. CASE OnlyIssue \/ UNCHANGED << vars, revVars >>
  BY <1>1, RevUnchanged DEF OnlyIssue
<1>2. CASE PkiNext /\ ~ OnlyIssue
  BY <1>2, RevSteps DEF PkiNext
<1> QED
  BY <1>1, <1>2

(* Every list was signed by the authority over all it had revoked.         *)
THEOREM ListsAreComplete == PkiSpec => []RevInv
<1>1. PkiInit => RevInv
  BY RevInitInv DEF PkiInit
<1> QED
  BY <1>1, PkiNextInv, PTL DEF PkiSpec

-----------------------------------------------------------------------------
(* What a list tells a relying party.                                      *)

(* An entry gives date and reason of its revocation.                       *)
LEMMA EntryTells ==
  ASSUME NEW r \in Records
  PROVE  /\ Entry(r).serial = r.serial /\ Entry(r).date = r.date
         /\ \A k \in 0..10 : << "reason", k >> \in Range(Entry(r).extensions)
                               <=> k \in Range(r.reason)
<1> DEFINE coded == IF Range(r.reason) \subseteq 0..10 THEN r.reason ELSE << >>
           S     == {"reason", "invalidity"} \X Nat
           A     == [i \in DOMAIN coded |-> << "reason", coded[i] >>]
           B     == [i \in DOMAIN r.invalidity |-> << "invalidity", r.invalidity[i] >>]
<1>1. r.reason \in Seq(Nat) /\ Len(r.reason) <= 1 /\ r.invalidity \in Seq(Nat)
  BY ReasonAssumption DEF Records
<1>2. coded \in Seq(Nat)
  BY <1>1
<1>3. ASSUME NEW s \in Seq(Nat), NEW tag \in {"reason", "invalidity"}
      PROVE  LET t == [i \in DOMAIN s |-> << tag, s[i] >>]
             IN  t \in Seq(S) /\ \A k : << "reason", k >> \in Range(t)
                                          <=> tag = "reason" /\ k \in Range(s)
  <2> DEFINE t == [i \in DOMAIN s |-> << tag, s[i] >>]
  <2>1. DOMAIN s = 1..Len(s) /\ Len(s) \in Nat /\ \A i \in 1..Len(s) : s[i] \in Nat
    BY LenProperties, ElementOfSeq
  <2>2. t \in [1..Len(s) -> S]
    BY <2>1
  <2>3. t \in Seq(S)
    <3> HIDE DEF t, S
    <3> QED
      BY <2>1, <2>2
  <2>4. \A k : << "reason", k >> \in Range(t) <=> tag = "reason" /\ k \in Range(s)
    BY DEF Range
  <2> QED
    BY <2>3, <2>4
<1>4. /\ A \in Seq(S) /\ B \in Seq(S)
      /\ \A k : << "reason", k >> \in Range(A) <=> k \in Range(coded)
      /\ \A k : ~ (<< "reason", k >> \in Range(B))
  <2> HIDE DEF coded
  <2>1. /\ A \in Seq(S)
        /\ \A k : << "reason", k >> \in Range(A) <=> k \in Range(coded)
    BY <1>2, <1>3
  <2>2. /\ B \in Seq(S)
        /\ \A k : ~ (<< "reason", k >> \in Range(B))
    BY <1>1, <1>3
  <2> QED
    BY <2>1, <2>2
<1>5. Entry(r) = [serial |-> r.serial, date |-> r.date, extensions |-> A \o B]
  BY DEF Entry, EntryExtensions
<1> HIDE DEF S, A, B
<1>6. Range(A \o B) = Range(A) \cup Range(B)
  BY <1>4, RangeConcatenation
<1>7. ASSUME NEW k \in 0..10 PROVE k \in Range(coded) <=> k \in Range(r.reason)
  <2>1. CASE Range(r.reason) \subseteq 0..10
    BY <2>1
  <2>2. CASE ~ (Range(r.reason) \subseteq 0..10)
    <3>1. PICK i \in DOMAIN r.reason : r.reason[i] \notin 0..10
      BY <2>2 DEF Range
    <3>2. DOMAIN r.reason = 1..1 /\ i = 1
      BY <1>1, <3>1
    <3>3. k \notin Range(r.reason)
      BY <3>1, <3>2 DEF Range
    <3>4. coded = << >> /\ k \notin Range(<< >>)
      BY <2>2 DEF Range
    <3> QED
      BY <3>3, <3>4
  <2> QED
    BY <2>1, <2>2
<1> HIDE DEF coded
<1>8. /\ Entry(r).serial = r.serial /\ Entry(r).date = r.date
      /\ Entry(r).extensions = A \o B
  BY <1>5
<1> QED
  BY <1>4, <1>6, <1>7, <1>8

(* is_revoked() and get_revocation_info() agree, and the latter returns an *)
(* entry of the serial number asked for.                                   *)
LEMMA InfoIsEntry ==
  ASSUME NEW S, NEW list, list.tbs.revoked \in Seq(S), NEW serial
  PROVE  LET info == RevocationInfo(list, serial)
         IN  /\ info # << >> <=> IsRevoked(list, serial)
             /\ IsRevoked(list, serial) =>
                  \E i \in 1..Len(list.tbs.revoked) :
                    info[1] = list.tbs.revoked[i] /\ list.tbs.revoked[i].serial = serial
<1> DEFINE rs == list.tbs.revoked
           I  == {k \in 1..Len(rs) : rs[k].serial = serial}
           i  == SelectInSeq(rs, LAMBDA r : r.serial = serial)
<1>1. i = IF I # {} THEN Min(I) ELSE 0
  BY DEF SelectInSeq
<1>2. I \subseteq Nat /\ 0 \notin I
  OBVIOUS
<1>3. DOMAIN rs = 1..Len(rs)
  BY LenProperties
<1>4. IsRevoked(list, serial) <=> I # {}
  BY <1>3 DEF IsRevoked
<1>5. RevocationInfo(list, serial) = IF i = 0 THEN << >> ELSE << rs[i] >>
  BY DEF RevocationInfo
<1>6. \A k \in I : k \in 1..Len(rs) /\ rs[k].serial = serial
  OBVIOUS
<1> HIDE DEF I, i
<1>7. I # {} => i \in I /\ i # 0
  BY <1>1, <1>2, MinLeast
<1>8. CASE I = {}
  <2>1. i = 0
    BY <1>1, <1>8
  <2>2. RevocationInfo(list, serial) = << >> /\ ~IsRevoked(list, serial)
    BY <1>4, <1>5, <1>8, <2>1
  <2> QED
    BY <2>2
<1>9. CASE I # {}
  <2> DEFINE info == RevocationInfo(list, serial)
  <2>1. info = << rs[i] >>
    BY <1>5, <1>7, <1>9
  <2>2. i \in 1..Len(rs) /\ rs[i].serial = serial
    BY <1>6, <1>7, <1>9
  <2> HIDE DEF info, rs
  <2>3. info # << >> /\ info[1] = rs[i]
    BY <2>1
  <2>4. info # << >> /\ \E k \in 1..Len(rs) : info[1] = rs[k] /\ rs[k].serial = serial
    BY <2>2, <2>3
  <2> QED
    BY <1>4, <1>9, <2>4 DEF info, rs
<1> QED
  BY <1>8, <1>9

(* What verify_complete() asks of a list.                                  *)
LEMMA Accepts ==
  ASSUME NEW list, NEW key, NEW now
  PROVE  VerifyComplete(list, key, DefaultId, now) = "ok" <=>
           /\ list.tbs.algorithm = "SM2"
           /\ list.signature = Sign(key, DefaultId, list.tbs)
           /\ ~ (now < list.tbs.this_update)
           /\ \A i \in DOMAIN list.tbs.next_update : ~ (now > list.tbs.next_update[i])
<1>1. VerifySignature(list, key, DefaultId) = "ok" <=>
        /\ list.tbs.algorithm = "SM2"
        /\ list.signature = Sign(key, DefaultId, list.tbs)
  BY DEF VerifySignature, Verifies
<1>2. VerifyValidity(list, now) = "ok" <=>
        /\ ~ (now < list.tbs.this_update)
        /\ \A i \in DOMAIN list.tbs.next_update : ~ (now > list.tbs.next_update[i])
  BY DEF VerifyValidity
<1> QED
  BY <1>1, <1>2 DEF VerifyComplete

(* However a list was tampered with: if it is accepted it is the list as   *)
(* it was signed.                                                          *)
LEMMA TamperedRefused ==
  ASSUME NEW list, NEW key, NEW rs, NEW now, Signed(list, key, rs, now),
         NEW other \in Tampered(list),
         other.signature = Sign(key, DefaultId, other.tbs)
  PROVE  other = list
<1>1. list = [tbs |-> list.tbs, signature |-> Sign(key, DefaultId, list.tbs)]
  BY DEF Signed
<1>2. list.signature = Sign(key, DefaultId, list.tbs) /\ list.signature.by = key
  BY <1>1 DEF Sign
<1>3. \/ \E t : other = [list EXCEPT !.tbs = t]
      \/ \E t, k, i : k # key /\ other = [tbs |-> t, signature |-> Sign(k, i, t)]
      \/ \E i : other = [list EXCEPT !.signature.id = i]
  BY <1>2 DEF Tampered
<1>4. ASSUME NEW t, other = [list EXCEPT !.tbs = t] PROVE other = list
  <2>1. other = [tbs |-> t, signature |-> Sign(key, DefaultId, list.tbs)]
    BY <1>1, <1>4
  <2>2. Sign(key, DefaultId, list.tbs) = Sign(key, DefaultId, t)
    BY <2>1
  <2>3. t = list.tbs
    BY <2>2 DEF Sign
  <2> QED
    BY <1>1, <2>1, <2>3
<1>5. ASSUME NEW t, NEW k, NEW i, k # key, other = [tbs |-> t, signature |-> Sign(k, i, t)]
      PROVE  FALSE
  <2>1. other.signature.by = k
    BY <1>5 DEF Sign
  <2>2. other.signature.by = key
    BY DEF Sign
  <2> QED
    BY <1>5, <2>1, <2>2
<1>6. ASSUME NEW i, other = [list EXCEPT !.signature.id = i] PROVE other = list
  <2>1. other = [tbs |-> list.tbs, signature |-> Sign(key, i, list.tbs)]
    BY <1>1, <1>6 DEF Sign
  <2>2. Sign(key, i, list.tbs) = Sign(key, DefaultId, list.tbs)
    BY <2>1
  <2> QED
    BY <1>1, <2>1, <2>2
<1> QED
  BY <1>3, <1>4, <1>5, <1>6

LEMMA RevInvRefused == RevInv => RevokedRefused
<1> SUFFICES ASSUME RevInv, NEW a \in authority, NEW list \in Received
             PROVE  LET tbs      == list.tbs
                        accepted == VerifyComplete(list, a[1], DefaultId, clock) = "ok"
                        current  == /\ tbs.this_update <= clock
                                    /\ tbs.next_update # << >> =>
                                         clock <= tbs.this_update + Period
                    IN  /\ accepted <=> list \in lists /\ current
                        /\ accepted => \A serial \in Revocable :
                             LET info == RevocationInfo(list, serial)
                             IN  /\ info # << >> <=> IsRevoked(list, serial)
                                 /\ IsRevoked(list, serial) =>
                                      \E i \in DOMAIN revoked :
                                        /\ revoked[i].serial = serial
                                        /\ revoked[i].date = info[1].date
                                        /\ \A k \in 0..10 :
                                             << "reason", k >> \in Range(info[1].extensions)
                                               <=> k \in Range(revoked[i].reason)
                        /\ accepted => \A i \in DOMAIN revoked :
                             \/ revoked[i].date < tbs.this_update
                             \/ tbs.next_update # << >> /\ revoked[i].date + Period < clock
                             => IsRevoked(list, revoked[i].serial)
  BY Zenon DEF RevokedRefused
<1> DEFINE tbs      == list.tbs
           accepted == VerifyComplete(list, a[1], DefaultId, clock) = "ok"
           current  == /\ tbs.this_update <= clock
                       /\ tbs.next_update # << >> => clock <= tbs.this_update + Period
<1>1. /\ \A c, d \in authority : c = d
      /\ clock \in Nat
      /\ revoked \in Seq(Records) /\ \A i \in 1..Len(revoked) : revoked[i].date <= clock
      /\ \A l \in lists : \E c \in authority : Signed(l, c[1], revoked, clock)
  BY DEF RevInv
<1>2. \A l \in lists : Signed(l, a[1], revoked, clock)
  BY <1>1
<1>3. DOMAIN revoked = 1..Len(revoked) /\ Len(revoked) \in Nat
      /\ \A i \in 1..Len(revoked) : revoked[i] \in Records
  BY <1>1, LenProperties, ElementOfSeq
<1>4. accepted => list \in lists
  <2> SUFFICES ASSUME accepted PROVE list \in lists
    OBVIOUS
  <2>1. list.signature = Sign(a[1], DefaultId, list.tbs)
    BY Accepts
  <2>2. list \in lists \/ \E l \in lists : list \in Tampered(l)
    BY DEF Received
  <2> QED
    BY <1>2, <2>1, <2>2, TamperedRefused
<1> HIDE DEF accepted
<1>5. ASSUME list \in lists PROVE accepted <=> current
  <2>1. Signed(list, a[1], revoked, clock)
    BY <1>2, <1>5
  <2>2. /\ tbs.algorithm = "SM2" /\ tbs.this_update \in Nat
        /\ list.signature = Sign(a[1], DefaultId, tbs)
        /\ tbs.next_update = << >> \/ tbs.next_update = << tbs.this_update + Period >>
    BY <2>1 DEF Signed
  <2>3. accepted <=> /\ ~ (clock < tbs.this_update)
                     /\ \A i \in DOMAIN tbs.next_update : ~ (clock > tbs.next_update[i])
    BY <2>2, Accepts DEF accepted
  <2>4. (\A i \in DOMAIN tbs.next_update : ~ (clock > tbs.next_update[i]))
          <=> (tbs.next_update # << >> => clock <= tbs.this_update + Period)
    <3>1. CASE tbs.next_update = << >>
      BY <3>1
    <3>2. CASE tbs.next_update = << tbs.this_update + Period >>
      <4>1. tbs.next_update # << >> /\ DOMAIN tbs.next_update = {1}
            /\ tbs.next_update[1] = tbs.this_update + Period
        BY <3>2
      <4> HIDE DEF tbs
      <4> QED
        BY <1>1, <2>2, <4>1, PeriodAssumption
    <3> QED
      BY <2>2, <3>1, <3>2
  <2> HIDE DEF tbs
  <2> QED
    BY <1>1, <2>2, <2>3, <2>4
<1>6. ASSUME accepted
      PROVE  \E n \in 0..Len(revoked) :
               /\ tbs.revoked = [i \in 1..n |-> Entry(revoked[i])]
               /\ \A i \in (n + 1)..Len(revoked) : tbs.this_update <= revoked[i].date
  BY <1>2, <1>4, <1>6 DEF Signed
<1>7. ASSUME accepted, NEW serial \in Revocable
      PROVE  LET info == RevocationInfo(list, serial)
             IN  /\ info # << >> <=> IsRevoked(list, serial)
                 /\ IsRevoked(list, serial) =>
                      \E i \in DOMAIN revoked :
                        /\ revoked[i].serial = serial
                        /\ revoked[i].date = info[1].date
                        /\ \A k \in 0..10 :
                             << "reason", k >> \in Range(info[1].extensions)
                               <=> k \in Range(revoked[i].reason)
  <2> DEFINE info    == RevocationInfo(list, serial)
             Entries == {Entry(r) : r \in Records}
  <2>1. PICK n \in 0..Len(revoked) : tbs.revoked = [i \in 1..n |-> Entry(revoked[i])]
    BY <1>6, <1>7
  <2>2. \A i \in 1..n : revoked[i] \in Records /\ i \in DOMAIN revoked /\ n \in Nat
    BY <1>3
  <2>3. tbs.revoked \in Seq(Entries) /\ Len(tbs.revoked) = n
    <3>1. tbs.revoked \in [1..n -> Entries]
      BY <2>1, <2>2
    <3> HIDE DEF Entries
    <3> QED
      BY <1>3, <3>1
  <2>4. info # << >> <=> IsRevoked(list, serial)
    BY <2>3, InfoIsEntry
  <2>5. ASSUME IsRevoked(list, serial)
        PROVE  \E i \in DOMAIN revoked :
                 /\ revoked[i].serial = serial
                 /\ revoked[i].date = info[1].date
                 /\ \A k \in 0..10 :
                      << "reason", k >> \in Range(info[1].extensions)
                        <=> k \in Range(revoked[i].reason)
    <3>1. PICK i \in 1..n : info[1] = tbs.revoked[i] /\ tbs.revoked[i].serial = serial
      BY <2>3, <2>5, InfoIsEntry
    <3>2. info[1] = Entry(revoked[i]) /\ Entry(revoked[i]).serial = serial
      BY <2>1, <3>1
    <3>3. revoked[i] \in Records /\ i \in DOMAIN revoked
      BY <2>2
    <3> DEFINE E == Entry(revoked[i])
    <3>4. /\ E.serial = revoked[i].serial /\ E.date = revoked[i].date
          /\ \A k \in 0..10 :
               << "reason", k >> \in Range(E.extensions) <=> k \in Range(revoked[i].reason)
      BY <3>3, EntryTells
    <3> HIDE DEF info
    <3>5. info[1] = E /\ E.serial = serial
      BY <3>2
    <3> HIDE DEF E
    <3>6. /\ revoked[i].serial = serial
          /\ revoked[i].date = info[1].date
          /\ \A k \in 0..10 :
               << "reason", k >> \in Range(info[1].extensions)
                 <=> k \in Range(revoked[i].reason)
      BY <3>4, <3>5
    <3> QED
      BY <3>3, <3>6
  <2> QED
    BY <2>4, <2>5
<1>8. ASSUME accepted, NEW i \in DOMAIN revoked,
             \/ revoked[i].date < tbs.this_update
             \/ tbs.next_update # << >> /\ revoked[i].date + Period < clock
      PROVE  IsRevoked(list, revoked[i].serial)
  <2>1. PICK n \in 0..Len(revoked) :
          /\ tbs.revoked = [j \in 1..n |-> Entry(revoked[j])]
          /\ \A j \in (n + 1)..Len(revoked) : tbs.this_update <= revoked[j].date
    BY <1>6, <1>8
  <2>2. current /\ tbs.this_update \in Nat
    BY <1>2, <1>4, <1>5, <1>8 DEF Signed
  <2>3. revoked[i].date \in Nat /\ i \in 1..Len(revoked)
    BY <1>3 DEF Records
  <2>4. i \in 1..n
    <3> SUFFICES ASSUME i \notin 1..n PROVE FALSE
      OBVIOUS
    <3>1. i \in (n + 1)..Len(revoked)
      BY <1>3, <2>3
    <3>2. tbs.this_update <= revoked[i].date
      BY <2>1, <3>1
    <3> HIDE DEF tbs
    <3> QED
      BY <1>1, <1>8, <2>2, <2>3, <3>2, PeriodAssumption
  <2>5. tbs.revoked[i].serial = revoked[i].serial /\ i \in DOMAIN tbs.revoked
    BY <1>3, <2>1, <2>3, <2>4, EntryTells
  <2> QED
    BY <2>5 DEF IsRevoked
<1> QED
  BY <1>4, <1>5, <1>7, <1>8, Zenon DEF accepted

(* Only what the authority signed is accepted, while it is current; it     *)
(* names all that was revoked before it, with date and reason              *)
(* (verify_complete(), is_revoked(), get_revocation_info()).               *)
THEOREM NoRevocationMissed == PkiSpec => []RevokedRefused
BY ListsAreComplete, RevInvRefused, PTL

-----------------------------------------------------------------------------
(* Issuing.                                                                *)

(* Requests and certificates change as CertIssue says they do.             *)
THEOREM PkiIssues == PkiSpec => Spec
<1>1. PkiInit => Init
  BY DEF PkiInit
<1>2. [PkiNext]_<< vars, revVars >> => [Next]_vars
  BY DEF PkiNext, Next, OnlyRevoke
<1> QED
  BY <1>1, <1>2, PTL DEF PkiSpec, Spec

(* So that what is proved of them holds of both side by side.              *)
THEOREM PkiCertifies == PkiSpec => [](TypeOK /\ ProofOfPossession /\ IssuerVouches)
BY PkiIssues, TypeCorrect, Possession, Vouching, PTL
=============================================================================
