----------------------------- MODULE CertChain -----------------------------
(***************************************************************************)
(* The certificate chain verifier of src/sm2/csr.rs: a caller collects     *)
(* certificates in a CertificateChain and has it verified, again and       *)
(* again, against trust anchors of its choice, while time passes.          *)
(*                                                                         *)
(* verify() first builds a path by names, one iteration of build_chain's   *)
(* loop a step, then reads the clock once and checks the validity period   *)
(* and the signature of every certificate on the path.                     *)
(***************************************************************************)
EXTENDS GmCert, Functions

CONSTANTS
  Pool,              (* certificates there are                             *)
  MaxCertificates,   (* bound on the certificates a caller collects        *)
  MaxAnchors         (* bound on the trust anchors of one call             *)

ASSUME BoundAssumption == MaxCertificates \in Nat /\ MaxAnchors \in Nat

VARIABLES
  certificates,      (* CertificateChain.certificates                      *)
  anchors,           (* trust_anchors of the call                          *)
  clock,             (* SystemTime::now()                                  *)
  pc,                (* "idle", "build" or "done"                          *)
  build,             (* locals of build_chain: chain, iterations, status   *)
  now,               (* local of verify: the clock it judges by            *)
  result             (* what verify() returns                              *)

vars == << certificates, anchors, clock, pc, build, now, result >>

NoResult == << >>
Idle     == [chain |-> << >>, iterations |-> 0, status |-> "none"]

Init ==
  /\ certificates = << >>
  /\ anchors = << >>
  /\ clock \in Time
  /\ pc = "idle"
  /\ build = Idle
  /\ now = 0
  /\ result = NoResult

(* add_certificate(), add_certificates()                                   *)
AddCertificates(certs) ==
  /\ pc = "idle"
  /\ Len(certificates) + Len(certs) <= MaxCertificates
  /\ certificates' = certificates \o certs
  /\ UNCHANGED << anchors, clock, pc, build, now, result >>

-----------------------------------------------------------------------------
(* build_chain()                                                           *)

HasSubject(certs, name) == \E i \in DOMAIN certs : certs[i].subject = name

(* iter().find(): the first certificate of that name                       *)
FirstWithSubject(certs, name) ==
  certs[CHOOSE i \in DOMAIN certs :
          /\ certs[i].subject = name
          /\ \A j \in 1..(i - 1) : certs[j].subject # name]

SameCertificate(c, d) == c.subject = d.subject /\ c.serial = d.serial

(* Variant: only a certificate that issued itself counts as a cycle.       *)
SeenLast(chain, cert) == SameCertificate(chain[Len(chain)], cert)

(* Variant: no check for cycles.                                           *)
SeenNever(chain, cert) == FALSE

Seen(chain, cert) == \E i \in DOMAIN chain : SameCertificate(chain[i], cert)

(* Variant: a cycle is passed over before the iteration is counted.        *)
Revisited(b) == b

Cycle(b) == [b EXCEPT !.iterations = @ + 1, !.status = "cycle"]

MaxIterations == Len(certificates) + Len(anchors)

(* One iteration of the loop.                                              *)
Iteration(b) ==
  LET current == b.chain[Len(b.chain)]
      issuer  == FirstWithSubject(certificates, current.issuer)
      next    == [b EXCEPT !.iterations = @ + 1]
  IN  IF b.iterations >= MaxIterations
      THEN [b EXCEPT !.status = "too long"]
      ELSE IF HasSubject(anchors, current.issuer)
      THEN [next EXCEPT !.chain = Append(@, FirstWithSubject(anchors, current.issuer)),
                        !.status = "built"]
      ELSE IF HasSubject(certificates, current.issuer)
      THEN IF Seen(b.chain, issuer)
           THEN Cycle(b)
           ELSE [next EXCEPT !.chain = Append(@, issuer)]
      ELSE IF current.issuer = current.subject
      THEN [next EXCEPT !.chain = Append(@, current), !.status = "built"]
      ELSE [next EXCEPT !.status = "no issuer"]

-----------------------------------------------------------------------------
(* verify()                                                                *)

Failed(why) == [is_valid |-> FALSE, chain |-> certificates, errors |-> {<< why, 0 >>}]

VerifyEmpty(trust_anchors) ==
  /\ pc = "idle" /\ certificates = << >>
  /\ anchors' = trust_anchors
  /\ pc' = "done"
  /\ result' = Failed("empty")
  /\ UNCHANGED << certificates, clock, build, now >>

VerifyStart(trust_anchors) ==
  /\ pc = "idle" /\ certificates # << >>
  /\ anchors' = trust_anchors
  /\ pc' = "build"
  /\ build' = [chain |-> << certificates[1] >>, iterations |-> 0, status |-> "loop"]
  /\ UNCHANGED << certificates, clock, now, result >>

BuildStep ==
  /\ pc = "build" /\ build.status = "loop"
  /\ build' = Iteration(build)
  /\ UNCHANGED << certificates, anchors, clock, pc, now, result >>

BuildFailed ==
  /\ pc = "build" /\ build.status \notin {"loop", "built"}
  /\ pc' = "done"
  /\ result' = Failed(build.status)
  /\ UNCHANGED << certificates, anchors, clock, build, now >>

(* Variant: the certificate below the anchor goes unchecked.               *)
CheckErrorsShort(chain, time) ==
  {<< "validity", i >> : i \in {j \in 1..Len(chain) : ~ValidAt(chain[j], time)}}
  \cup
  {<< "signature", i >> :
     i \in {j \in 1..(Len(chain) - 2) : ~VerifiesWithCa(chain[j], chain[j + 1], DefaultId)}}

(* The loop over the chain: the last certificate is taken for the trust    *)
(* anchor, its signature is not looked at.                                 *)
CheckErrors(chain, time) ==
  {<< "validity", i >> : i \in {j \in 1..Len(chain) : ~ValidAt(chain[j], time)}}
  \cup
  {<< "signature", i >> :
     i \in {j \in 1..(Len(chain) - 1) : ~VerifiesWithCa(chain[j], chain[j + 1], DefaultId)}}

CheckAll ==
  /\ pc = "build" /\ build.status = "built"
  /\ now' = clock
  /\ pc' = "done"
  /\ LET errors == CheckErrors(build.chain, now')
     IN  result' = [is_valid |-> errors = {}, chain |-> build.chain, errors |-> errors]
  /\ UNCHANGED << certificates, anchors, clock, build >>

(* The caller takes the answer.                                            *)
Return ==
  /\ pc = "done"
  /\ pc' = "idle" /\ build' = Idle /\ anchors' = << >> /\ now' = 0
  /\ result' = NoResult
  /\ UNCHANGED << certificates, clock >>

Tick ==
  /\ clock + 1 \in Time
  /\ clock' = clock + 1
  /\ UNCHANGED << certificates, anchors, pc, build, now, result >>

AnchorLists == UNION {[1..n -> Pool] : n \in 0..MaxAnchors}

Next ==
  \/ \E c \in Pool : AddCertificates(<< c >>)
  \/ \E trust_anchors \in AnchorLists :
       VerifyEmpty(trust_anchors) \/ VerifyStart(trust_anchors)
  \/ BuildStep \/ BuildFailed \/ CheckAll \/ Return
  \/ Tick

(* A call of verify() is computation only: a thread that is scheduled      *)
(* finishes it.                                                            *)
Fairness == WF_vars(BuildStep) /\ WF_vars(BuildFailed) /\ WF_vars(CheckAll)

Spec == Init /\ [][Next]_vars /\ Fairness

-----------------------------------------------------------------------------
(* The loop needs no more iterations than there are certificates: the      *)
(* bound it sets itself is generous.                                       *)
TypeOK ==
  /\ certificates \in Seq(Pool) /\ Len(certificates) <= MaxCertificates
  /\ anchors \in AnchorLists
  /\ clock \in Time
  /\ now \in Time \cup {0}
  /\ pc \in {"idle", "build", "done"}
  /\ build.chain \in Seq(Pool) /\ build.iterations \in 0..Len(certificates)
  /\ build.status \in {"none", "loop", "built", "too long", "cycle", "no issuer"}

(* The path a call is building: it starts at the caller's first            *)
(* certificate, each certificate is followed by one that bears the name of *)
(* its issuer, and no certificate of the caller is taken twice.            *)
PathByNames ==
  LET chain == build.chain
      own   == IF build.status = "built" THEN Len(chain) - 1 ELSE Len(chain)
  IN  pc # "idle" /\ certificates # << >> =>
        /\ chain[1] = certificates[1]
        /\ \A i \in 1..(Len(chain) - 1) : chain[i].issuer = chain[i + 1].subject
        /\ \A i, j \in 1..own : i # j => ~SameCertificate(chain[i], chain[j])

(* build_chain() bounds its loop by the number of certificates and         *)
(* anchors; a path never runs into that bound, not even when it uses every *)
(* certificate and there is no anchor.                                     *)
NeverTooLong == build.status # "too long"

(* The standing of a certificate, said without the code's checks.         *)
Current(cert, time) == cert.not_before <= time /\ time <= cert.not_after

SignedBy(cert, ca) ==
  cert.issuer = ca.subject /\ cert.signature = Sign(ca.key, DefaultId, Tbs(cert))

(* A chain that verify() accepts ends in one of the caller's trust anchors *)
(* and every certificate before it is signed by the key of the next one,   *)
(* all of them valid at one instant of the call.                           *)
AcceptedIsTrusted ==
  pc = "done" /\ result.is_valid =>
    LET chain == result.chain
    IN  /\ chain[1] = certificates[1]
        /\ chain[Len(chain)] \in Range(anchors)
        /\ now <= clock
        /\ \A i \in 1..Len(chain) : Current(chain[i], now)
        /\ \A i \in 1..(Len(chain) - 1) : SignedBy(chain[i], chain[i + 1])

(* What there is to accept, said without the algorithm: trust spreads from *)
(* the anchors to the certificates that a trusted one has signed.          *)
Trusted(time) ==
  LET t[n \in 0..Len(certificates)] ==
        IF n = 0 THEN {a \in Range(anchors) : Current(a, time)}
        ELSE t[n - 1] \cup {c \in Range(certificates) :
                               Current(c, time) /\ \E d \in t[n - 1] : SignedBy(c, d)}
  IN  t[Len(certificates)]

(* A name stands for one certificate.                                      *)
Unambiguous ==
  \A c, d \in Range(certificates) \cup Range(anchors) : c.subject = d.subject => c = d

(* When names are unambiguous verify() finds the path whatever the order   *)
(* in which the certificates were added and however many of them do not    *)
(* belong to it: a chain it rejects is untrusted at the instant it was     *)
(* judged, and one that has no path by names is untrusted at all times.    *)
TrustedIsAccepted ==
  pc = "done" /\ certificates # << >> /\ Unambiguous /\ ~result.is_valid =>
    LET leaf == certificates[1]
    IN  \A time \in IF build.status = "built" THEN {now} ELSE Time :
          Current(leaf, time) => \A d \in Trusted(time) : ~SignedBy(leaf, d)

(* Every call returns, on name loops too.                                  *)
VerifyReturns == pc = "build" ~> pc = "done"
=============================================================================
