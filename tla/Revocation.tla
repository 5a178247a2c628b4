----------------------------- MODULE Revocation -----------------------------
(***************************************************************************)
(* Revocation lists (src/sm2/crl.rs): an authority revokes certificates,   *)
(* signs lists of them as time goes by, and relying parties take whatever  *)
(* list reaches them, late, once more, altered or another one's.           *)
(*                                                                         *)
(* Abstractions: a list is the record of its fields, DER of it is lossless *)
(* (the x509-cert crate); a serial number stands for the certificate; an   *)
(* optional field is a sequence, empty if it is absent.  Who revokes what, *)
(* and when lists are signed, is the authority's affair: it lists all that *)
(* it has revoked, as of the time of signing.                              *)
(***************************************************************************)
EXTENDS GmCert, FiniteSets, SequencesExt

CONSTANTS
  Revocable,   (* serial numbers that may be revoked                       *)
  Reasons,     (* optional reason codes and dates of invalidity given      *)
  Period,      (* seconds from one update to the next                      *)
  Horizon,     (* bound on the clock                                       *)
  MaxLists     (* bound on the lists of a behaviour                        *)

ASSUME PeriodAssumption == Period \in Nat
ASSUME ReasonAssumption ==
  \A r \in Reasons : r[1] \in Seq(Nat) /\ Len(r[1]) <= 1 /\ r[2] \in Seq(Nat)

VARIABLES
  authority,   (* the authority's key and name, once there is one          *)
  clock,       (* the time                                                 *)
  revoked,     (* the revocations so far, in their order                   *)
  lists        (* the lists the authority has signed                       *)

revVars == << authority, clock, revoked, lists >>

-----------------------------------------------------------------------------
(* CrlBuilder.                                                             *)

NewBuilder == [issuer |-> << >>, this_update |-> << >>, next_update |-> << >>, revoked |-> << >>]
Issuer(b, name)     == [b EXCEPT !.issuer = << name >>]
ThisUpdate(b, time) == [b EXCEPT !.this_update = << time >>]
NextUpdate(b, time) == [b EXCEPT !.next_update = << time >>]
AddRevoked(b, r)    == [b EXCEPT !.revoked = Append(@, r)]

(* build_crl_entry_extensions(): a reason there is no code for is left out *)
EntryExtensions(reason, invalidity) ==
  LET coded == IF Range(reason) \subseteq 0..10 THEN reason ELSE << >>
  IN  [i \in DOMAIN coded |-> << "reason", coded[i] >>]
        \o [i \in DOMAIN invalidity |-> << "invalidity", invalidity[i] >>]
Entry(r) ==
  [serial |-> r.serial, date |-> r.date, extensions |-> EntryExtensions(r.reason, r.invalidity)]

(* sign()                                                                  *)
SignCrl(b, key, id) ==
  LET tbs == [algorithm   |-> "SM2",
              issuer      |-> b.issuer[1],
              this_update |-> b.this_update[1],
              next_update |-> b.next_update,
              revoked     |-> [i \in DOMAIN b.revoked |-> Entry(b.revoked[i])]]
  IN  IF b.issuer = << >> \/ b.this_update = << >> THEN [ok |-> FALSE, err |-> "InvalidCrl"]
      ELSE [ok |-> TRUE, val |-> [tbs |-> tbs, signature |-> Sign(key, id, tbs)]]

-----------------------------------------------------------------------------
(* Crl.                                                                    *)

IsRevoked(list, serial) ==
  \E i \in DOMAIN list.tbs.revoked : list.tbs.revoked[i].serial = serial
(* get_revocation_info(): the first entry                                  *)
RevocationInfo(list, serial) ==
  LET i == SelectInSeq(list.tbs.revoked, LAMBDA r : r.serial = serial)
  IN  IF i = 0 THEN << >> ELSE << list.tbs.revoked[i] >>

VerifySignature(list, key, id) ==
  IF list.tbs.algorithm # "SM2" THEN "UnsupportedAlgorithm"
  ELSE IF ~Verifies(list.tbs, list.signature, key, id) THEN "InvalidSignature"
  ELSE "ok"

(* Variant: a list does not expire.                                        *)
VerifyValidityUnending(list, now) ==
  IF now < list.tbs.this_update THEN "InvalidCrl" ELSE "ok"

VerifyValidity(list, now) ==
  IF now < list.tbs.this_update THEN "InvalidCrl"
  ELSE IF \E i \in DOMAIN list.tbs.next_update : now > list.tbs.next_update[i] THEN "ExpiredCrl"
  ELSE "ok"

VerifyComplete(list, key, id, now) ==
  LET signed == VerifySignature(list, key, id)
  IN  IF signed # "ok" THEN signed ELSE VerifyValidity(list, now)

-----------------------------------------------------------------------------
RevInit ==
  /\ authority = {} /\ clock = 0
  /\ revoked = << >> /\ lists = {}

Found(key, name) ==
  /\ authority = {}
  /\ authority' = {<< key, name >>}
  /\ UNCHANGED << clock, revoked, lists >>

Pass ==
  /\ authority # {} /\ clock < Horizon
  /\ clock' = clock + 1
  /\ UNCHANGED << authority, revoked, lists >>

Revoke(serial, reason, invalidity) ==
  /\ authority # {}
  /\ \A i \in DOMAIN revoked : revoked[i].serial # serial
  /\ revoked' = Append(revoked, [serial |-> serial, date |-> clock,
                                 reason |-> reason, invalidity |-> invalidity])
  /\ UNCHANGED << authority, clock, lists >>

(* The authority has it in its own hands to call next_update(), and that   *)
(* it calls issuer() and this_update(): sign() fails without them.         *)
SignList(key, name, calls) ==
  LET B1   == IF "issuer" \in calls THEN Issuer(NewBuilder, name) ELSE NewBuilder
      B2   == IF "this_update" \in calls THEN ThisUpdate(B1, clock) ELSE B1
      B3   == IF "next_update" \in calls THEN NextUpdate(B2, clock + Period) ELSE B2
      made == SignCrl(FoldLeft(AddRevoked, B3, revoked), key, DefaultId)
  IN  /\ << key, name >> \in authority
      /\ made.ok /\ Cardinality(lists) < MaxLists
      /\ lists' = lists \cup {made.val}
      /\ UNCHANGED << authority, clock, revoked >>

(* What may come to a relying party at any time, often and in any order:   *)
(* a list, or one with an entry missing, with other times, of another      *)
(* algorithm, signed by another or under another ID.                       *)
Tampered(list) ==
  LET key == list.signature.by
      tbs == {[list.tbs EXCEPT !.revoked = RemoveAt(@, i)] : i \in DOMAIN list.tbs.revoked}
               \cup {[list.tbs EXCEPT !.next_update = n] : n \in {<< >>, << Horizon >>}}
               \cup {[list.tbs EXCEPT !.this_update = clock],
                     [list.tbs EXCEPT !.algorithm = "other"]}
  IN  {[list EXCEPT !.tbs = t] : t \in tbs}
        \cup {[tbs |-> t, signature |-> Sign(k, i, t)] :
                t \in tbs \cup {list.tbs}, k \in Keys \ {key}, i \in Ids}
        \cup {[list EXCEPT !.signature.id = i] : i \in Ids}
Received == lists \cup UNION {Tampered(list) : list \in lists}

-----------------------------------------------------------------------------
(* Only what the authority has signed is accepted, as it has signed it,    *)
(* from its update to the next; an accepted list names, with date and      *)
(* reason, what was revoked before its update, and nothing that never was; *)
(* so that with a next update no revocation stays unknown for more than    *)
(* a period.  A list that is current is accepted (verify_complete(),       *)
(* is_revoked(), get_revocation_info(), sign()).                           *)
RevokedRefused ==
  \A a \in authority, list \in Received :
    LET tbs      == list.tbs
        accepted == VerifyComplete(list, a[1], DefaultId, clock) = "ok"
        current  == /\ tbs.this_update <= clock
                    /\ tbs.next_update # << >> => clock <= tbs.this_update + Period
    IN  /\ accepted <=> list \in lists /\ current
        /\ accepted => \A serial \in Revocable :
             LET info == RevocationInfo(list, serial)
             IN  /\ info # << >> <=> IsRevoked(list, serial)
                 /\ IsRevoked(list, serial) =>
                      \E i \in DOMAIN revoked :
                        /\ revoked[i].serial = serial /\ revoked[i].date = info[1].date
                        /\ \A k \in 0..10 :
                             << "reason", k >> \in Range(info[1].extensions)
                               <=> k \in Range(revoked[i].reason)
        /\ accepted => \A i \in DOMAIN revoked :
             \/ revoked[i].date < tbs.this_update
             \/ tbs.next_update # << >> /\ revoked[i].date + Period < clock
             => IsRevoked(list, revoked[i].serial)
=============================================================================
