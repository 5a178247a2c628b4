----------------------------- MODULE CertIssue -----------------------------
(***************************************************************************)
(* Certificates on their way: an applicant makes a signing request, the    *)
(* request travels to an authority, the authority issues a certificate,    *)
(* and certificates travel on as DER to whoever verifies with them         *)
(* (src/sm2/csr.rs, src/sm2/cert.rs).                                      *)
(*                                                                         *)
(* A request may be damaged on its way and still be well formed.  DER of a *)
(* request is lossless (it is the work of the x509-cert crate); DER of a   *)
(* certificate is what GmCert says.                                        *)
(***************************************************************************)
EXTENDS GmCert, FiniteSets

CONSTANTS
  Validity,    (* the validity period of every certificate                 *)
  MaxCsrs,     (* bound on the requests under way                          *)
  MaxCerts     (* bound on the certificates in circulation                 *)

VARIABLES
  csrs,        (* requests in circulation                                  *)
  certs,       (* certificates in circulation                              *)
  requested,   (* history: << key, subject >> pairs asked for              *)
  certified    (* history: << key, subject >> pairs issued from a request  *)

vars == << csrs, certs, requested, certified >>

CertReqInfo(key, subject) == [subject |-> subject, key |-> key]

(* CertificateSigningRequest::create()                                     *)
Create(key, subject, id) ==
  LET info == CertReqInfo(key, subject)
  IN  [info |-> info, signature |-> Sign(key, id, info)]

(* Variant: the request is taken as it comes.                              *)
CsrVerifiesNot(csr) == TRUE

(* CertificateSigningRequest::verify()                                     *)
CsrVerifies(csr) == Verifies(csr.info, csr.signature, csr.info.key, DefaultId)

Extensions == {<< >>} \cup {<< e >> : e \in Exts}

Send(csr)     == csrs' = csrs \cup {csr} /\ Cardinality(csrs') <= MaxCsrs
Publish(cert) == certs' = certs \cup {cert} /\ Cardinality(certs') <= MaxCerts

Init ==
  /\ csrs = {}
  /\ certs = {}
  /\ requested = {}
  /\ certified = {}

CreateCsr(key, subject, id) ==
  /\ Send(Create(key, subject, id))
  /\ requested' = requested \cup {<< key, subject >>}
  /\ UNCHANGED << certs, certified >>

(* The request reaches the authority with another subject or key in it.    *)
DamageCsr(csr, key, subject) ==
  /\ Send([csr EXCEPT !.info = CertReqInfo(key, subject)])
  /\ UNCHANGED << certs, requested, certified >>

(* generate_self_signed_cert()                                             *)
SelfSign(key, subject, serial, extensions, id) ==
  /\ Publish(BuildAndSign(subject, subject, key, Validity, serial, extensions, key, id))
  /\ UNCHANGED << csrs, requested, certified >>

(* issue_certificate_from_csr(), with the authority's own key              *)
IssueFromCsr(csr, ca, serial, extensions, ca_id) ==
  /\ CsrVerifies(csr)
  /\ Publish(BuildAndSign(ca.subject, csr.info.subject, csr.info.key, Validity,
                          serial, extensions, ca.key, ca_id))
  /\ certified' = certified \cup {<< csr.info.key, csr.info.subject >>}
  /\ UNCHANGED << csrs, requested >>

(* to_der() at one end, from_der() at the other                            *)
Transfer(cert) ==
  /\ Publish(Parse(Encode(cert)))
  /\ UNCHANGED << csrs, requested, certified >>

Next ==
  \/ \E key \in Keys, subject \in Names, id \in Ids : CreateCsr(key, subject, id)
  \/ \E csr \in csrs, key \in Keys, subject \in Names : DamageCsr(csr, key, subject)
  \/ \E key \in Keys, subject \in Names, serial \in Serials, extensions \in Extensions,
        id \in Ids : SelfSign(key, subject, serial, extensions, id)
  \/ \E csr \in csrs, ca \in certs, serial \in Serials, extensions \in Extensions,
        id \in Ids : IssueFromCsr(csr, ca, serial, extensions, id)
  \/ \E cert \in certs : Transfer(cert)

Spec == Init /\ [][Next]_vars

-----------------------------------------------------------------------------
TypeOK ==
  /\ \A csr \in csrs : csr.info \in [subject : Names, key : Keys]
  /\ \A cert \in certs :
       /\ cert.version = 2
       /\ {cert.issuer, cert.subject} \subseteq Names
       /\ cert.key \in Keys /\ cert.serial \in Serials
       /\ cert.extensions \in Extensions
  /\ requested \cup certified \subseteq Keys \X Names

(* An authority binds a name to a key only when the owner of that key      *)
(* asked for it, whatever happened to the request on its way.              *)
ProofOfPossession == certified \subseteq requested

(* A certificate that was built without extensions keeps an issuer in      *)
(* circulation that vouches for it, whichever of the two went through DER, *)
(* and however often.                                                      *)
IssuerVouches ==
  \A cert \in certs :
    cert.signature.over.extensions = << >> =>
      \E ca \in certs : VerifiesWithCa(cert, ca, cert.signature.id)

(* What the parser promises ("extracts every field"): a certificate that   *)
(* verifies still does when it has been to DER and back.                   *)
ParsedStillVerifies ==
  \A cert \in certs, ca \in certs :
    VerifiesWithCa(cert, ca, cert.signature.id)
      => VerifiesWithCa(Parse(Encode(cert)), ca, cert.signature.id)
=============================================================================
