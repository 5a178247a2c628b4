----------------------------- MODULE KeySchedule -----------------------------
(***************************************************************************)
(* A program that derives keys: it computes MACs, at one go or piece by    *)
(* piece as the TLS provider does, and keys, and compares two of them. A   *)
(* call is [op, key, data, n, len]; what its fields are, DeriveCall says.  *)
(***************************************************************************)
EXTENDS Derive

CONSTANTS
  Derivations,  \* the calls made
  MacKeys,      \* the keys of MACs computed piece by piece
  Pieces,       \* the pieces
  MaxFed        \* bound on the bytes fed to one MAC

VARIABLES mac,       \* the MAC under way: none, or its key, input, context
          derived    \* what was derived
scheduleVars == <<mac, derived>>

DeriveCall(c) ==
  CASE c.op = "hmac"    -> Ok(HmacSm3(c.key, c.data))
    [] c.op = "concat"  -> Ok(SignConcat(c.key, [i \in DOMAIN c.data |-> <<c.data[i]>>]))
    [] c.op = "hkdf"    -> Hkdf(IF c.n = 0 THEN <<>> ELSE <<c.key>>, <<{<<"ikm", 0>>}>>, c.data, c.len)
    [] c.op = "expand"  -> HkdfExpand(c.key, c.data, c.len)
    [] c.op = "kdf"     -> Ok(KdfWithInfo(c.key, c.len, c.data))
    [] c.op = "pbkdf2"  -> Pbkdf2(c.key, c.data, c.n, c.len)

ASSUME DerivationAssumption ==
  /\ \A c \in Derivations :
       /\ c.op \in {"hmac", "concat", "hkdf", "expand", "kdf", "pbkdf2"}
       /\ c.key \in Seq(Range(c.key)) /\ c.data \in Seq(Range(c.data))
       /\ c.n \in Nat /\ c.len \in Nat
       /\ c.op \in {"hmac", "concat"} => c.len = DigestLen
  /\ \A s \in MacKeys \cup Pieces : s \in Seq(Range(s))

ScheduleInit == mac = <<>> /\ derived = <<>>

Kind(op) == IF op = "concat" THEN "hmac" ELSE op
Room(op) ==
  /\ mac = <<>> /\ Len(derived) < 2
  /\ \A i \in DOMAIN derived : Kind(derived[i].call.op) = Kind(op)
Add(c, out) == derived' = Append(derived, [call |-> c, out |-> out])

DeriveKey ==
  /\ \E c \in Derivations : Room(c.op) /\ Add(c, DeriveCall(c))
  /\ UNCHANGED mac

MacNew ==
  /\ Room("hmac")
  /\ \E key \in MacKeys : mac' = <<[key |-> key, fed |-> <<>>, ctx |-> HmacNew(key)]>>
  /\ UNCHANGED derived
MacUpdate ==
  /\ mac # <<>>
  /\ \E p \in Pieces :
       /\ Len(mac[1].fed) + Len(p) <= MaxFed
       /\ mac' = <<[key |-> mac[1].key, fed |-> mac[1].fed \o p,
                    ctx |-> HmacUpdate(mac[1].ctx, p)]>>
  /\ UNCHANGED derived
MacFinalize ==
  /\ mac # <<>>
  /\ Add([op |-> "hmac", key |-> mac[1].key, data |-> mac[1].fed, n |-> 0, len |-> DigestLen],
         Ok(HmacFinalize(mac[1].ctx)))
  /\ mac' = <<>>

ScheduleNext == DeriveKey \/ MacNew \/ MacUpdate \/ MacFinalize
ScheduleSpec == ScheduleInit /\ [][ScheduleNext]_scheduleVars

-----------------------------------------------------------------------------
\* Keys of HMAC that mean the same: a long one is its digest, and zeros at
\* the end do not count.
SameKey(k, l) ==
  LET At(s, i) == LET t == IF Len(s) > HashBlock THEN Sm3(s) ELSE s
                  IN  IF i <= Len(t) THEN t[i] ELSE Zero
  IN  \A i \in 1..HashBlock : At(k, i) = At(l, i)

\* HKDF without a salt takes an empty one.
KeyOf(c) == IF c.op = "hkdf" /\ c.n = 0 THEN <<>> ELSE c.key

\* Calls of one function that are to give the same bytes.
SameInput(c, d) ==
  CASE c.op \in {"hmac", "concat"} -> SameKey(c.key, d.key) /\ c.data = d.data
    [] c.op \in {"hkdf", "expand"} -> SameKey(KeyOf(c), KeyOf(d)) /\ c.data = d.data
    [] c.op = "kdf"    -> c.key = d.key /\ c.data = d.data
    [] c.op = "pbkdf2" -> SameKey(c.key, d.key) /\ c.n = d.n /\ c.data = d.data
\* The KDF knows its two inputs apart by the length of the first only.
Comparable(c, d) == c.op = "kdf" => Len(c.key) = Len(d.key)
\* Whether all of info or salt is taken in.
TakenWhole(c) ==
  /\ c.op \in {"hkdf", "expand"} => Len(c.data) <= InfoMax
  /\ c.op = "pbkdf2" => Len(c.data) <= SaltMax

\* A derived key is as long as it was asked for, or there is none, when the
\* counter has no number for its last round; no byte of it comes twice; and
\* two keys have bytes in common only where they are of the same inputs, at
\* the same place, as long as these are taken in whole (NothingCut is about
\* the others). A MAC is the same in pieces (hmac_sm3, HmacSm3, sign_concat,
\* hkdf_expand, kdf_with_info, pbkdf2).
DerivedApart ==
  \A i, j \in DOMAIN derived :
    LET c == derived[i].call
        d == derived[j].call
        x == derived[i].out
        y == derived[j].out
    IN  /\ x.ok <=> /\ c.op \in {"hkdf", "expand"} => c.len <= RoundMax * DigestLen
                    /\ c.op = "pbkdf2" => c.n # 0 /\ c.len <= IndexMax * DigestLen
        /\ x.ok => Len(x.val) = c.len
        /\ x.ok /\ y.ok /\ Comparable(c, d) /\ TakenWhole(c) /\ TakenWhole(d) =>
             \A a \in DOMAIN x.val, b \in DOMAIN y.val :
               x.val[a] = y.val[b] <=> a = b /\ SameInput(c, d)

\* The standards the code names set info and salt no limit of length
\* (RFC 5869: sm3/hkdf.rs:10; RFC 2898 section 5.2: kdf.rs:102): calls that
\* differ in one give different keys, however long it is.
NothingCut ==
  \A i, j \in DOMAIN derived :
    LET c == derived[i].call
        d == derived[j].call
    IN  c.len > 0 /\ c.op \in {"hkdf", "expand", "pbkdf2"}
          /\ derived[i].out.ok /\ derived[i].out = derived[j].out
          => SameInput(c, d)
=============================================================================
