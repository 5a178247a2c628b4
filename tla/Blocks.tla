------------------------------- MODULE Blocks -------------------------------
(***************************************************************************)
(* Bytes, blocks and the block cipher the SM4 modes are built from.        *)
(*                                                                         *)
(* A byte is the set of the unknowns whose XOR it is: a known byte is the  *)
(* set of its one bits, a fresh secret byte is one atom, and XOR is the    *)
(* symmetric difference, so that whatever cancels in the code cancels      *)
(* here.  The cipher under a key is a permutation about which nothing else *)
(* is known: E and D only undo each other.  B is the code's 16.            *)
(***************************************************************************)
EXTENDS Integers, Sequences, SequencesExt, FiniteSets, FiniteSetsExt, Folds

CONSTANTS B,      \* bytes of a block (src: 16)
          Radix   \* values of one counter byte (src: 256)

ASSUME BlockAssumption == B \in 3..255 /\ Radix \in {2, 4, 8, 16}

Zero == {}
Num(v) == {<<"bit", i>> : i \in {j \in 0..7 : (v \div 2 ^ j) % 2 = 1}}
IsNum(c) == \A a \in c : a[1] = "bit"
Value(c) == LET bit(i) == IF <<"bit", i>> \in c THEN 2 ^ i ELSE 0
            IN  bit(0) + bit(1) + bit(2) + bit(3) + bit(4) + bit(5) + bit(6) + bit(7)

ZeroBlock == [i \in 1..B |-> Zero]
Zeros(n) == [i \in 1..n |-> Zero]

\* The string of the n bytes F(1), F(2), ... (a tuple, whose elements are
\* evaluated once).
Bytes(n, F(_)) == SubSeq([i \in 1..n |-> F(i)], 1, n)

\* XOR of two byte strings, as long as the shorter one.
Xor(x, y) ==
  Bytes(Min({Len(x), Len(y)}), LAMBDA i : SymDiff(x[i], y[i]))
\* The shorter string y is XORed into the front of x.
XorInto(x, y) ==
  Bytes(Len(x), LAMBDA i : IF i <= Len(y) THEN SymDiff(x[i], y[i]) ELSE x[i])
ZeroPadded(chunk) == XorInto(ZeroBlock, chunk)
\* data.chunks(16): the last chunk may be short.
Chunks(s) == [i \in 1..((Len(s) + B - 1) \div B) |->
                SubSeq(s, (i - 1) * B + 1, Min({i * B, Len(s)}))]
WholeBlocks(s) == SubSeq(Chunks(s), 1, Len(s) \div B)
Tail16(s) == SubSeq(s, (Len(s) \div B) * B + 1, Len(s))

\* What n steps make of x, step by step: at i there is what i steps made.
Iterated(n, x, Step(_, _)) ==
  LET y[i \in 0..n] == IF i = 0 THEN x ELSE Step(i, y[i - 1]) IN y

\* A MAC's accumulator takes the string chunk by chunk.
Absorb(x, s, Op(_)) ==
  LET c == Chunks(s)
  IN  Iterated(Len(c), x, LAMBDA i, y : Op(XorInto(y, c[i])))[Len(c)]

-----------------------------------------------------------------------------
(* A keyed permutation and its inverse.  Byte i of a block a function f    *)
(* makes of x is the atom <<f, parameter, x, i>>.  Pack names a term whose *)
(* bytes are all there once, so that terms stay small.                     *)

Named(a, i) == <<a[1], a[2], a[3], i>>
Whole(x) == {a \in x[1] : Len(a) = 4 /\ \A i \in 1..Len(x) : Named(a, i) \in x[i]}
PackOf(x, whole) ==
  <<{Named(a, 0) : a \in whole}>>
    \o Bytes(Len(x), LAMBDA i : x[i] \ {Named(a, i) : a \in whole})
Pack(x) == PackOf(x, Whole(x))
Unpack(p) == Bytes(Len(p) - 1, LAMBDA i : p[i + 1] \cup {Named(a, i) : a \in p[1]})

Image(f, k, p) == Bytes(Len(p) - 1, LAMBDA i : {<<f, k, p, i>>})
\* E undoes D and D undoes E.
Undoes(inverse, k, p, a) ==
  p[1] = {a} /\ Tail(p) = Zeros(Len(p) - 1) /\ a[1] = inverse /\ a[2] = k
PermutedOf(f, inverse, k, p) ==
  IF \E a \in p[1] : Undoes(inverse, k, p, a)
  THEN Unpack((CHOOSE a \in p[1] : TRUE)[3])
  ELSE Image(f, k, p)
Permuted(f, inverse, k, x) == PermutedOf(f, inverse, k, Pack(x))

E(k, x) == Permuted("E", "D", k, x)
D(k, x) == Permuted("D", "E", k, x)

\* A linear map of a block onto another, known by its name only: a product
\* by a constant of GF(2^128), or the stretching of OCB.  A byte of the image
\* is a sum over the bytes of the block; the map applied p times is a map of
\* its own.
Linear(f, x) ==
  LET mapped(i) == {a \in x[i] : a[1] = "lin" /\ a[2][1] = f}
  IN  Bytes(B, LAMBDA j :
        {<<"lin", <<f, a[2][2] + 1>>, a[3], j>> : a \in mapped(1)}
          \cup UNION {{<<"lin", <<f, 1>>, <<i, a>>, j>> : a \in x[i] \ mapped(i)}
                        : i \in 1..B})
Gf128Mul(x, h) == Linear(<<"times", h[1]>>, x)
Gf128MulU(x)   == Linear(<<"double">>, x)
XtsMulAlpha(x) == Linear(<<"alpha">>, x)

-----------------------------------------------------------------------------
(* Counters.  The bytes from lo on are one big-endian number: a byte is    *)
(* incremented when all those after it wrap.  A counter that starts at a   *)
(* MAC is some block that differs from all those before it.                *)

IncFrom(x, lo) ==
  IF \A i \in lo..B : IsNum(x[i])
  THEN Bytes(B, LAMBDA i :
         IF i >= lo /\ \A j \in (i + 1)..B : Value(x[j]) = Radix - 1
         THEN Num((Value(x[i]) + 1) % Radix)
         ELSE x[i])
  ELSE SubSeq(x, 1, lo - 1) \o SubSeq(Image("inc", "", Pack(x)), lo, B)
CtrInc(x)    == IncFrom(x, 1)
GcmCtrInc(x) == IncFrom(x, B)

\* The first n counters, from the one given.
Counters(Inc(_), first, n) ==
  LET x == Iterated(n, first, LAMBDA i, c : Inc(c)) IN [i \in 1..n |-> x[i - 1]]
\* The data XORed with the enciphered counters.
KeyStreamed(k, counters, data) ==
  FlattenSeq([i \in 1..Len(Chunks(data)) |->
                Xor(Chunks(data)[i], E(k, counters[i]))])
=============================================================================
