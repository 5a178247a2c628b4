------------------------------- MODULE PkBase -------------------------------
(***************************************************************************)
(* What the public-key modules share: results, the KDF and XOR. A byte is  *)
(* 0 or 1.                                                                 *)
(***************************************************************************)
EXTENDS Integers, Sequences

CONSTANT KeyByte(_, _)   \* byte i of the KDF's output for an input

Ok(v) == [ok |-> TRUE, val |-> v]
Err(e) == [ok |-> FALSE, err |-> e]
\* A random number was no use, and the loop draws another.
Retry == [ok |-> FALSE, err |-> "retry"]

Kdf(input, len) == [i \in 1..len |-> KeyByte(input, i)]
AllZero(t) == \A i \in DOMAIN t : t[i] = 0
Xor(a, b) == [i \in DOMAIN a |-> (a[i] + b[i]) % 2]

\* The inverse of a modulo m, 0 for what has none.
InvMod(a, m) == IF a % m = 0 THEN 0 ELSE CHOOSE b \in 1..(m - 1) : (a * b) % m = 1
=============================================================================
