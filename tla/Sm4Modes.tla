------------------------------ MODULE Sm4Modes ------------------------------
(***************************************************************************)
(* The modes of SM4 that authenticate nothing, and the key wrap            *)
(* (src/src/sm4/modes.rs).  A call that panics in the code returns the     *)
(* error "panic".                                                          *)
(***************************************************************************)
EXTENDS Padding

Aligned(data, F(_)) == IF Len(data) % B = 0 THEN Ok(F(Chunks(data)))
                       ELSE Err("panic")

EncryptEcb(k, data) ==
  Aligned(data, LAMBDA c : FlattenSeq([i \in 1..Len(c) |-> E(k, c[i])]))
DecryptEcb(k, data) ==
  Aligned(data, LAMBDA c : FlattenSeq([i \in 1..Len(c) |-> D(k, c[i])]))

\* The blocks Op makes of the chunks c one after the other, each from the
\* chunk, the one before it in the input and the one before it in the
\* output; iv stands before the first.
Chained(Op(_, _, _), iv, c) ==
  LET y == Iterated(Len(c), iv, LAMBDA i, prev :
             Op(c[i], IF i = 1 THEN iv ELSE c[i - 1], prev))
  IN  [i \in 1..Len(c) |-> y[i]]

EncryptCbc(k, iv, data) ==
  Aligned(data, LAMBDA c : FlattenSeq(
    Chained(LAMBDA x, xprev, yprev : E(k, Xor(x, yprev)), iv, c)))
DecryptCbc(k, iv, data) ==
  Aligned(data, LAMBDA c : FlattenSeq(
    Chained(LAMBDA x, xprev, yprev : Xor(D(k, x), xprev), iv, c)))

\* The padded variants: pad then encrypt, decrypt then unpad.
EncryptPadded(Enc(_), data, type) == Enc(Pad(data, type).val)
DecryptPadded(dec, type) == IF dec.ok THEN Unpad(dec.val, type) ELSE dec

\* The feedback is enciphered once per chunk, whatever the data.
CryptOfb(k, iv, data) ==
  LET c  == Chunks(data)
      ks == Chained(LAMBDA x, xprev, yprev : E(k, yprev), iv, c)
  IN  FlattenSeq([i \in 1..Len(c) |-> Xor(c[i], ks[i])])

EncryptCfb(k, iv, data) ==
  FlattenSeq(Chained(LAMBDA x, xprev, yprev : Xor(x, E(k, yprev)), iv,
                     Chunks(data)))
\* Variant: the plaintext is fed back.
DecryptCfbOfPlain(k, iv, data) ==
  FlattenSeq(Chained(LAMBDA x, xprev, yprev : Xor(x, E(k, yprev)), iv,
                     Chunks(data)))
DecryptCfb(k, iv, data) ==
  FlattenSeq(Chained(LAMBDA x, xprev, yprev : Xor(x, E(k, xprev)), iv,
                     Chunks(data)))

CryptCtr(k, nonce, data) ==
  KeyStreamed(k, Counters(CtrInc, nonce, Len(Chunks(data))), data)

\* Variant: one tweak for the whole sector.
XtsTweaksFixed(k2, sector, n) == [i \in 1..n |-> E(k2, sector)]

\* The tweak of block i is the enciphered sector times alpha^(i - 1).
XtsTweaks(k2, sector, n) == Counters(XtsMulAlpha, E(k2, sector), n)
Xts(Op(_, _), k1, k2, sector, data) ==
  IF Len(data) = 0 \/ Len(data) % B # 0 THEN Err("InvalidInputLength")
  ELSE LET c == Chunks(data)
           t == XtsTweaks(k2, sector, Len(c))
       IN  Ok(FlattenSeq([i \in 1..Len(c) |->
                            Xor(Op(k1, Xor(c[i], t[i])), t[i])]))
EncryptXts(k1, k2, sector, data) == Xts(E, k1, k2, sector, data)
DecryptXts(k1, k2, sector, data) == Xts(D, k1, k2, sector, data)

-----------------------------------------------------------------------------
(* Key wrap.  A half block is one byte here, so that a block is a pair;    *)
(* st is <<A, R>>, and step t = n * j + i enciphers A with R[i].           *)

Icv == {<<"icv", 0>>}
WrapRounds == 6

WrapStep(k, st, i, t) ==
  LET b == E(k, <<st[1], st[2][i]>>)
  IN  <<SymDiff(b[1], Num(t)), [st[2] EXCEPT ![i] = b[2]]>>
UnwrapStep(k, st, i, t) ==
  LET b == D(k, <<SymDiff(st[1], Num(t)), st[2][i]>>)
  IN  <<b[1], [st[2] EXCEPT ![i] = b[2]]>>

\* Step number t works on R[((t - 1) % n) + 1].
KeyWrap(k, data) ==
  IF Len(data) = 0 THEN Err("InvalidInputLength")
  ELSE LET n  == Len(data)
           N  == WrapRounds * n
           st == Iterated(N, <<Icv, data>>, LAMBDA t, s :
                   WrapStep(k, s, ((t - 1) % n) + 1, t))[N]
       IN  Ok(<<st[1]>> \o st[2])
KeyUnwrap(k, data) ==
  IF Len(data) < 2 THEN Err("InvalidInputLength")
  ELSE LET n  == Len(data) - 1
           N  == WrapRounds * n
           st == Iterated(N, <<data[1], Tail(data)>>, LAMBDA t, s :
                   UnwrapStep(k, s, ((N - t) % n) + 1, N + 1 - t))[N]
       IN  IF st[1] = Icv THEN Ok(st[2]) ELSE Err("InvalidTag")
=============================================================================
