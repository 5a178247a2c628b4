-------------------------------- MODULE Tls13 --------------------------------
(***************************************************************************)
(* The TLS 1.3 record layer and the session tickets of the rustls provider *)
(* (src/src/rustls_provider/tls13.rs, mod.rs): one direction of a          *)
(* connection under one pair of traffic keys, and one maker of tickets.    *)
(*                                                                         *)
(* External, from how the provider is called: rustls gives encrypt() and   *)
(* decrypt() the sequence number, XORs it into the static IV, has the      *)
(* record's length as additional data, strips padding and content type,    *)
(* and closes the connection at the first record that does not open.  The  *)
(* network loses, repeats, reorders, alters and recombines records.        *)
(***************************************************************************)
EXTENDS Sm4Session

CONSTANTS Suites,      \* modes of the cipher suites: "gcm", "ccm"
          Payloads,    \* what records and tickets carry
          Types,       \* content types, none of them zero
          MaxRecords   \* bound on the records of a connection

\* What rustls and applications hand to be sent was not made by the cipher
\* under these keys; its length is within the range of the counters and,
\* as the flags of CCM, of the bytes that hold it; a connection has fewer
\* records than there are sequence numbers, and CCM's buffer has room for a
\* record's additional data.
FromOutside(byte) == \A a \in byte : a[1] \notin {"E", "D", "lin"}
ASSUME RecordAssumption ==
  /\ Suites \subseteq {"gcm", "ccm"} /\ MaxRecords \in 0..255 /\ AadBuf >= 3
  /\ 64 + 8 * B + 2 < 256
  /\ \A typ \in Types : typ # Zero /\ FromOutside(typ)
  /\ \A p \in Payloads :
       /\ p \in Seq(Range(p)) /\ \A byte \in Range(p) : FromOutside(byte)
       /\ Len(p) + 2 * B < 256
       /\ (Len(p) + B) \div B <= Radix - 2 /\ (Len(p) + B) \div B < LenRadix

VARIABLES suite,       \* what is in use: a suite, "ticket", or "" for nothing
          sent,        \* [typ, payload, wire] of each record or ticket sent
          got,         \* [typ, payload] of each record delivered
          rx_seq,      \* the receiver's sequence number
          closed,      \* the connection is closed
          redeemed     \* the ticket offered last, and what it gave
tlsVars == <<suite, sent, got, rx_seq, closed, redeemed>>

-----------------------------------------------------------------------------
NonceLen(mode) == IF mode = "ccm" THEN B - 2 ELSE B - 1
StaticIv(mode) == [i \in 1..NonceLen(mode) |-> {<<"iv", i>>}]
\* Variant: the static IV is the nonce of all records.
RecordNonceStatic(mode, seq) == StaticIv(mode)

\* Nonce::new()
RecordNonce(mode, seq) ==
  Xor(StaticIv(mode), Append(Zeros(NonceLen(mode) - 1), Num(seq)))
\* make_tls13_aad()
RecordAad(len) == <<Num(2), Num(len)>>

\* Sm4GcmEncrypter and Sm4CcmEncrypter: CCM returns ciphertext and tag in
\* one string, GCM apart.
EncryptGcmRecord(seq, typ, payload) ==
  Combined(EncryptGcm("k", RecordNonce("gcm", seq), RecordAad(Len(payload) + 1 + B),
                      Append(payload, typ)))
EncryptCcmRecord(seq, typ, payload) ==
  EncryptCcm("k", RecordNonce("ccm", seq), RecordAad(Len(payload) + 1 + B),
             Append(payload, typ), B).ct
EncryptRecord(mode, seq, typ, payload) ==
  IF mode = "gcm" THEN EncryptGcmRecord(seq, typ, payload) ELSE EncryptCcmRecord(seq, typ, payload)

\* into_tls13_unpadded_message()
Unpadded(pt) ==
  LET last == Max({0} \cup {i \in DOMAIN pt : pt[i] # Zero})
  IN  IF last = 0 THEN Err("PeerMisbehaved")
      ELSE Ok([typ |-> pt[last], payload |-> SubSeq(pt, 1, last - 1)])

Delivered(r) == IF r.ok THEN Unpadded(r.val) ELSE Err("DecryptError")
DecryptGcmRecord(seq, wire) ==
  LET n == Len(wire) - B
  IN  IF n < 0 THEN Err("DecryptError")
      ELSE Delivered(DecryptGcm("k", RecordNonce("gcm", seq), RecordAad(Len(wire)),
                                SubSeq(wire, 1, n), SubSeq(wire, n + 1, Len(wire))))
DecryptCcmRecord(seq, wire) ==
  IF Len(wire) < B THEN Err("DecryptError")
  ELSE Delivered(DecryptCcm("k", RecordNonce("ccm", seq), RecordAad(Len(wire)), wire, B))
DecryptRecord(mode, seq, wire) ==
  IF mode = "gcm" THEN DecryptGcmRecord(seq, wire) ELSE DecryptCcmRecord(seq, wire)

-----------------------------------------------------------------------------
(* Tickets: nonce, ciphertext and tag in one string, no additional data.   *)

\* Variant: the tag comes before the ciphertext.
TicketSealSwapped(nonce, pt) ==
  LET s == EncryptGcm("k", nonce, <<>>, pt) IN nonce \o s.tag \o s.ct

TicketSeal(nonce, pt) == nonce \o Combined(EncryptGcm("k", nonce, <<>>, pt))
TicketOpen(ticket) ==
  LET l == NonceLen("gcm")
      n == Len(ticket) - B
  IN  IF n < l THEN Err("none")
      ELSE DecryptGcm("k", SubSeq(ticket, 1, l), <<>>, SubSeq(ticket, l + 1, n),
                      SubSeq(ticket, n + 1, Len(ticket)))

-----------------------------------------------------------------------------
TlsInit ==
  /\ suite = "" /\ sent = <<>> /\ got = <<>> /\ rx_seq = 0
  /\ closed = FALSE /\ redeemed = None

Begin ==
  /\ suite = ""
  /\ suite' \in Suites \cup {"ticket"}
  /\ UNCHANGED <<sent, got, rx_seq, closed, redeemed>>

\* The sender's sequence number is the number of records sent.
SendRecord ==
  /\ suite \in Suites /\ Len(sent) < MaxRecords
  /\ \E typ \in Types, p \in Payloads :
       sent' = Append(sent, [typ |-> typ, payload |-> p,
                             wire |-> EncryptRecord(suite, Len(sent), typ, p)])
  /\ UNCHANGED <<suite, got, rx_seq, closed, redeemed>>

\* What the network may make of the strings it has seen: one byte changed,
\* one more or fewer, the tag of another, or the beginning only.
Wires == {sent[i].wire : i \in DOMAIN sent}
Altered(wires) ==
  (UNION {Flipped(w) \cup Resized(w) : w \in wires})
    \cup {SubSeq(v, 1, Len(v) - B) \o SubSeq(w, Len(w) - B + 1, Len(w)) : v, w \in wires}
    \cup UNION {{SubSeq(w, 1, i) : i \in 0..(Len(w) - 1)} : w \in wires}

ReceiveRecord ==
  /\ suite \in Suites /\ sent # <<>> /\ ~closed
  /\ \E wire \in Wires \cup Altered(Wires) :
       LET r == DecryptRecord(suite, rx_seq, wire)
       IN  IF r.ok
           THEN got' = Append(got, r.val) /\ rx_seq' = rx_seq + 1 /\ UNCHANGED closed
           ELSE closed' = TRUE /\ UNCHANGED <<got, rx_seq>>
  /\ UNCHANGED <<suite, sent, redeemed>>

\* Every ticket has a nonce of its own: it is random.
MakeTicket ==
  /\ suite = "ticket" /\ Len(sent) < MaxRecords
  /\ \E p \in Payloads :
       sent' = Append(sent, [typ |-> Zero, payload |-> p,
                             wire |-> TicketSeal([i \in 1..NonceLen("gcm") |->
                                                    {<<"n", 8 * Len(sent) + i>>}], p)])
  /\ UNCHANGED <<suite, got, rx_seq, closed, redeemed>>

RedeemTicket ==
  /\ suite = "ticket" /\ sent # <<>>
  /\ \E ticket \in Wires \cup Altered(Wires) :
       redeemed' = [ticket |-> ticket, gave |-> TicketOpen(ticket)]
  /\ UNCHANGED <<suite, sent, got, rx_seq, closed>>

TlsNext == Begin \/ SendRecord \/ ReceiveRecord \/ MakeTicket \/ RedeemTicket

-----------------------------------------------------------------------------
\* Whatever the network loses, repeats, reorders, alters or puts together,
\* what is delivered is the beginning of what was sent, content types
\* included; and a record that comes in its turn is delivered
\* (MessageEncrypter and MessageDecrypter of both suites, tls13.rs:87-265).
RecordsInOrder ==
  LET Clear(r) == [typ |-> r.typ, payload |-> r.payload]
  IN  /\ Len(got) <= Len(sent)
      /\ \A i \in DOMAIN got : got[i] = Clear(sent[i])
      /\ suite \in Suites /\ ~closed /\ rx_seq < Len(sent) =>
           DecryptRecord(suite, rx_seq, sent[rx_seq + 1].wire) = Ok(Clear(sent[rx_seq + 1]))

\* A ticket gives back what was put into it; what is no ticket gives
\* nothing (SmTicketProducer, mod.rs:113-150).
TicketsExact ==
  /\ redeemed # None /\ redeemed.gave.ok =>
       \E i \in DOMAIN sent :
         sent[i].wire = redeemed.ticket /\ sent[i].payload = redeemed.gave.val
  /\ redeemed # None =>
       \A i \in DOMAIN sent : sent[i].wire = redeemed.ticket => redeemed.gave.ok
=============================================================================
