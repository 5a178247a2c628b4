-------------------------------- MODULE Pki --------------------------------
(***************************************************************************)
(* Issuing certificates (CertIssue) and revoking them (Revocation), side   *)
(* by side.  Lists name serial numbers and share no state with requests    *)
(* and certificates: a behaviour is one or the other.                      *)
(***************************************************************************)
EXTENDS CertIssue, Revocation

OnlyIssue  == RevInit /\ UNCHANGED revVars
OnlyRevoke == Init /\ UNCHANGED vars

PkiInit == Init /\ RevInit

PkiNext ==
  \/ OnlyIssue /\ \E key \in Keys, subject \in Names, id \in Ids : CreateCsr(key, subject, id)
  \/ OnlyIssue /\ \E csr \in csrs, key \in Keys, subject \in Names : DamageCsr(csr, key, subject)
  \/ OnlyIssue /\ \E key \in Keys, subject \in Names, serial \in Serials,
                     extensions \in Extensions, id \in Ids :
                       SelfSign(key, subject, serial, extensions, id)
  \/ OnlyIssue /\ \E csr \in csrs, ca \in certs, serial \in Serials,
                     extensions \in Extensions, id \in Ids :
                       IssueFromCsr(csr, ca, serial, extensions, id)
  \/ OnlyIssue /\ \E cert \in certs : Transfer(cert)
  \/ OnlyRevoke /\ \E key \in Keys, name \in Names : Found(key, name)
  \/ OnlyRevoke /\ Pass
  \/ OnlyRevoke /\ \E serial \in Revocable, reason \in Reasons :
                     Revoke(serial, reason[1], reason[2])
  \/ OnlyRevoke /\ \E a \in authority,
                      calls \in SUBSET {"issuer", "this_update", "next_update"} :
                        SignList(a[1], a[2], calls)

PkiSpec == PkiInit /\ [][PkiNext]_<< vars, revVars >>
=============================================================================
