--------------------------------- MODULE Fpe ---------------------------------
(***************************************************************************)
(* Format-preserving encryption (src/src/fpe/mod.rs, fnr.rs) of the first  *)
(* n bits of a buffer.  A bit is a sum of unknowns as in Blocks, and the   *)
(* round function is some function of tweak, round and half.               *)
(***************************************************************************)
EXTENDS Blocks

CONSTANT BufBits          \* bits of the buffer (src: 128)

ASSUME FpeAssumption == BufBits \in Nat \ {0}

FpeRounds == 7

ExpandTweak(k, n, tweak) ==
  LET Enc(x) == E(k, x)
  IN  Front(Enc(Absorb(ZeroPadded(<<Zero, Num(n)>>), tweak, Enc)))

\* len bits, the ones bits does not have being zero.
Fit(bits, len) == [i \in 1..len |-> IF i <= Len(bits) THEN bits[i] ELSE Zero]

\* Whole bytes of the half go in: more than half_bits when the half has more.
RoundFn(k, tweak, half, halfBits, outBits, round) ==
  LET read == SubSeq(half, 1, Min({Len(half), 8 * ((halfBits + 7) \div 8)}))
  IN  [i \in 1..outBits |-> {<<"F", k, <<tweak, round, read>>, i>>}]

\* One bit: the cipher says whether it is flipped.
Fnr1Bit(k, tweak, bits) == Xor(bits, RoundFn(k, tweak, <<>>, 0, 1, 255))

\* Both halves are kept in right_bits bits.  A round of the encryption
\* keeps left_bits of the right half, one less when n is odd.
FnrEncrypt(k, tweak, bits, n) ==
  LET left  == n \div 2
      right == n - left
      st == Iterated(FpeRounds,
              <<Fit(SubSeq(bits, 1, left), right), SubSeq(bits, left + 1, n)>>,
              LAMBDA i, s :
                <<Fit(SubSeq(s[2], 1, left), right),
                  Fit(Xor(s[1], RoundFn(k, tweak, s[2], right, left, i - 1)),
                      right)>>)[FpeRounds]
  IN  SubSeq(st[1], 1, left) \o st[2]
FnrDecrypt(k, tweak, bits, n) ==
  LET left  == n \div 2
      right == n - left
      st == Iterated(FpeRounds,
              <<Fit(SubSeq(bits, 1, left), right), SubSeq(bits, left + 1, n)>>,
              LAMBDA i, s :
                <<Xor(s[2], RoundFn(k, tweak, s[1], left, right,
                                    FpeRounds - i)),
                  s[1]>>)[FpeRounds]
  IN  SubSeq(st[1], 1, left) \o st[2]

\* The bits after the first n are saved and put back.
FpeCrypt(Fnr(_, _, _, _), k, tweak, data, n) ==
  LET t == ExpandTweak(k, n, tweak)
      d == SubSeq(data, 1, n)
  IN  (IF n = 1 THEN Fnr1Bit(k, t, d) ELSE Fnr(k, t, d, n))
        \o SubSeq(data, n + 1, Len(data))
FpeEncrypt(k, tweak, data, n) == FpeCrypt(FnrEncrypt, k, tweak, data, n)
FpeDecrypt(k, tweak, data, n) == FpeCrypt(FnrDecrypt, k, tweak, data, n)
FpeNew(n) == n \in 1..BufBits
=============================================================================
