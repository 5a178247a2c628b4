----------------------------- MODULE KeyExchange -----------------------------
(***************************************************************************)
(* The SM2 key exchange of sm2/key_exchange.rs and the ECDHE group that    *)
(* rustls_provider/kx.rs makes of the simple one.                          *)
(***************************************************************************)
EXTENDS Sm2

\* The low half of the coordinate with its highest bit set.
XBar(x) == 2^(W \div 2 - 1) + (x % 2^(W \div 2 - 1))

EphemeralFromScalar(r) ==
  LET p == ToAffine(ScalarMulG(r))
  IN  IF ~ValidPrivateKey(r) \/ ~p.ok THEN Err("InvalidPrivateKey")
      ELSE Ok([r |-> r, point |-> ToBytes(p.val)])
GenerateEphemeral(r) ==
  IF ValidPrivateKey(r) THEN EphemeralFromScalar(r) ELSE Retry

Ecdh(d, peer) ==
  LET q  == FromBytes(peer)
      sh == Shared(d, q.val)
  IN  IF ~q.ok THEN q ELSE IF ~sh.ok THEN sh ELSE Ok(sh.val[1])
EcdhFromSlice(d, peer) ==
  IF Len(peer) # 3 THEN Err("InvalidInputLength") ELSE Ecdh(d, peer)
\* kx.rs: an ephemeral key pair, and its use for one peer.
KxStart(d) == GenerateKeypair(d)
KxComplete(d, peer) ==
  LET s == EcdhFromSlice(d, peer)
  IN  IF s.ok THEN s ELSE Err("InvalidKeyShare")

\* c: klen, the two identities and the two static keys as this side has
\* them; d and eph are its own keys, rPeer the ephemeral key it received.
ComputeShared(initiator, c, d, eph, rPeer) ==
  LET za    == GetZ(c.idA, c.pubA)
      zb    == GetZ(c.idB, c.pubB)
      self  == FromBytes(eph.point)
      peer  == FromBytes(rPeer)
      other == FromBytes(IF initiator THEN c.pubB ELSE c.pubA)
      t     == (d + XBar(self.val[1]) * eph.r) % N
      sum   == Add(FromAffine(other.val),
                   ScalarMul(XBar(peer.val[1]), FromAffine(peer.val)))
      v     == ToAffine(ScalarMul(t, sum))
      key   == Kdf(<<v.val[1], v.val[2], za, zb>>, c.klen)
      hash  == <<v.val[1], za, zb>>
                 \o (IF initiator THEN <<self.val, peer.val>>
                     ELSE <<peer.val, self.val>>)
      s1    == <<2, v.val[2], hash>>
      sa    == <<3, v.val[2], hash>>
  IN  IF ~self.ok THEN self
      ELSE IF ~peer.ok THEN peer
      ELSE IF ~other.ok THEN other
      ELSE IF ~v.ok THEN Err("KeyExchangeFailed")
      ELSE IF AllZero(key) THEN Err("KeyExchangeFailed")
      ELSE Ok(IF initiator THEN [key |-> key, self |-> sa, peer |-> s1]
              ELSE [key |-> key, self |-> s1, peer |-> sa])
ExchangeA(c, d, eph, rB) == ComputeShared(TRUE, c, d, eph, rB)
ExchangeB(c, d, eph, rA) == ComputeShared(FALSE, c, d, eph, rA)
=============================================================================
