------------------------------- MODULE GmCert -------------------------------
(***************************************************************************)
(* GM certificates as data: the certificate structure of src/sm2/cert.rs,  *)
(* how it is signed and verified, and what its DER form keeps of it.       *)
(*                                                                         *)
(* Abstractions of the data:                                               *)
(*   - a key stands for both halves of a key pair;                         *)
(*   - a signature is the record of who signed what under which SM2 ID:    *)
(*     it verifies under exactly that key, that ID and those bytes;        *)
(*   - DER is the tree of the fields it encodes, a field that is absent    *)
(*     being the empty sequence;                                           *)
(*   - extensions, None or an empty list alike, are a sequence.            *)
(***************************************************************************)
EXTENDS Integers, Sequences

CONSTANTS
  Names,       (* distinguished names                                      *)
  Keys,        (* SM2 key pairs                                            *)
  Ids,         (* SM2 signer IDs                                           *)
  DefaultId,   (* DEFAULT_ID of src/sm2/mod.rs                             *)
  Serials,     (* serial numbers                                           *)
  Exts,        (* extension values                                         *)
  Time         (* seconds                                                  *)

ASSUME IdAssumption   == DefaultId \in Ids
ASSUME TimeAssumption == Time \subseteq Nat

Sign(key, id, bytes) == [by |-> key, id |-> id, over |-> bytes]

Verifies(bytes, signature, key, id) == signature = Sign(key, id, bytes)

(* wrap_explicit_tag(3, ..): the extensions in a [3] of their own          *)
ExtensionField(extensions) ==
  IF extensions = << >> THEN << >> ELSE << [tag |-> "[3]", body |-> extensions] >>

(* tbs_certificate(): what a certificate signature covers.                 *)
Tbs(cert) ==
  [version    |-> IF cert.version > 0 THEN << cert.version >> ELSE << >>,
   serial     |-> cert.serial,
   issuer     |-> cert.issuer,
   validity   |-> << cert.not_before, cert.not_after >>,
   subject    |-> cert.subject,
   key        |-> cert.key,
   extensions |-> ExtensionField(cert.extensions)]

(* build_and_sign_cert()                                                   *)
BuildAndSign(issuer, subject, key, validity, serial, extensions, signing_key, id) ==
  LET unsigned == [version    |-> 2,
                   serial     |-> serial,
                   issuer     |-> issuer,
                   not_before |-> validity[1],
                   not_after  |-> validity[2],
                   subject    |-> subject,
                   key        |-> key,
                   extensions |-> extensions,
                   signature  |-> << >>]
  IN  [unsigned EXCEPT !.signature = Sign(signing_key, id, Tbs(unsigned))]

(* generate_gm_certificate_der()                                           *)
Encode(cert) == [tbs |-> Tbs(cert), signature |-> cert.signature]

(* Variant: the version field is skipped.                                  *)
ParsedVersionSkipped(field) == 0

(* The parser takes the first byte of the [0] field for the version; that  *)
(* byte is the INTEGER tag, 2.                                             *)
ParsedVersion(field) == IF field = << >> THEN 0 ELSE 2

(* The parser walks the extension field itself, tag included: the one      *)
(* value it comes by is the [3] wrapper, and only a SEQUENCE decodes as an *)
(* extension.                                                              *)
ParsedExtensions(field) ==
  IF field # << >> /\ field[1].tag = "SEQUENCE" THEN << field[1] >> ELSE << >>

(* parse_gm_certificate_der()                                              *)
Parse(der) ==
  [version    |-> ParsedVersion(der.tbs.version),
   serial     |-> der.tbs.serial,
   issuer     |-> der.tbs.issuer,
   not_before |-> der.tbs.validity[1],
   not_after  |-> der.tbs.validity[2],
   subject    |-> der.tbs.subject,
   key        |-> der.tbs.key,
   extensions |-> ParsedExtensions(der.tbs.extensions),
   signature  |-> der.signature]

(* Variant: the last second does not belong to the period.                 *)
ValidBefore(cert, now) == cert.not_before <= now /\ now < cert.not_after

(* verify_validity(): both ends belong to the period.                      *)
ValidAt(cert, now) == cert.not_before <= now /\ now <= cert.not_after

(* Variant: the issuer's name is compared, its key is not used.            *)
VerifiesWithOwnKey(cert, ca, id) ==
  /\ cert.issuer = ca.subject
  /\ Verifies(Tbs(cert), cert.signature, cert.key, id)

(* verify_signature_with_ca()                                              *)
VerifiesWithCa(cert, ca, id) ==
  /\ cert.issuer = ca.subject
  /\ Verifies(Tbs(cert), cert.signature, ca.key, id)
=============================================================================
