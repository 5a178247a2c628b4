------------------------------- MODULE MCCms -------------------------------
(***************************************************************************)
(* Two certificates with one serial number, of different issuers; the      *)
(* second expires between the instants.  Alice signs with the first, Bob   *)
(* with the second; the last signer has Bob's key, Alice's certificate and *)
(* an ID of his own.  One list revokes the first certificate, another one  *)
(* of the same issuer does not.                                            *)
(***************************************************************************)
EXTENDS Cms

CONSTANTS Root, Other, Alice, Bob, kA, kB, id0, id1, empty, text

MCTime == 0..1

Certificate(issuer, subject, key, expiry) ==
  BuildAndSign(issuer, subject, key, << 0, expiry >>, 1, << >>, key, id0)

OfAlice == Certificate(Root, Alice, kA, 1)
OfBob   == Certificate(Other, Bob, kB, 0)

Config(key, certificate, id) == [key |-> key, certificate |-> certificate, id |-> id]

MCConfigs == {Config(kA, OfAlice, id0), Config(kB, OfBob, id0), Config(kB, OfAlice, id1)}

MCCrls == {[issuer |-> Root, revoked |-> {}], [issuer |-> Root, revoked |-> {1}]}

Strict == {[check_validity |-> TRUE, check_crl |-> TRUE]}
=============================================================================
