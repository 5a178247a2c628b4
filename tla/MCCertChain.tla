---------------------------- MODULE MCCertChain ----------------------------
(***************************************************************************)
(* A root R that renews its key, an authority I below it, a cross          *)
(* certificate that closes a loop of names, a leaf that expires first and  *)
(* a certificate signed under another SM2 ID.                              *)
(***************************************************************************)
EXTENDS CertChain

CONSTANTS R, I, L, kR, kR2, kI, kL, id0, id1

MCTime == 0..1

Issue(issuer, ca_key, subject, key, serial, until, id) ==
  BuildAndSign(issuer, subject, key, << 0, until >>, serial, << >>, ca_key, id)

root    == Issue(R, kR, R, kR, 1, 1, id0)
renewed == Issue(R, kR2, R, kR2, 2, 1, id0)
inter   == Issue(R, kR, I, kI, 3, 1, id0)
cross   == Issue(I, kI, R, kR, 4, 1, id0)
leaf    == Issue(I, kI, L, kL, 5, 0, id0)
foreign == Issue(I, kI, L, kL, 6, 1, id1)

MCPool == {root, renewed, inter, cross, leaf, foreign}
=============================================================================
