------------------------------ MODULE Sm4Cipher ------------------------------
(***************************************************************************)
(* The rounds of the block cipher (src/src/sm4/cipher.rs) over words that  *)
(* are sums of unknowns as in Blocks.  The round functions t_enc and t_key *)
(* (S-box and rotations) are some functions of a word: deciphering undoes  *)
(* enciphering whatever they are.                                          *)
(***************************************************************************)
EXTENDS Blocks

CONSTANT CipherRounds     \* src: 32

ASSUME CipherAssumption == CipherRounds \in Nat \ {0}

TEnc(w) == {<<"t_enc", w>>}
TKey(w) == {<<"t_key", w>>}
Xor4(a, b, c, d) == SymDiff(SymDiff(a, b), SymDiff(c, d))

\* The four words rotate; the one that leaves is masked by the other three
\* and the round key.
Round(x, rk) ==
  <<x[2], x[3], x[4], SymDiff(x[1], TEnc(Xor4(x[2], x[3], x[4], rk)))>>

ExpandKey(mk) ==
  LET k0 == [i \in 1..4 |-> SymDiff(mk[i], {<<"fk", i>>})]
      st == Iterated(CipherRounds, k0, LAMBDA i, k :
              LET at(d) == k[((i - 1 + d) % 4) + 1]
              IN  [k EXCEPT ![((i - 1) % 4) + 1] =
                     SymDiff(@, TKey(Xor4(at(1), at(2), at(3), {<<"ck", i>>})))])
  IN  [i \in 1..CipherRounds |-> st[i][((i - 1) % 4) + 1]]

AllRounds(x, rk) == Iterated(Len(rk), x, LAMBDA i, y : Round(y, rk[i]))[Len(rk)]
EncryptRounds(x, rk) == Reverse(AllRounds(x, rk))
DecryptRounds(x, rk) == Reverse(AllRounds(x, Reverse(rk)))
=============================================================================
