------------------------------- MODULE MCPki -------------------------------
(***************************************************************************)
(* Two names, two keys, two SM2 IDs, certificates with and without an      *)
(* extension; two serial numbers to revoke, five seconds, two lists; a     *)
(* reason, one there is no code for with a date of invalidity.             *)
(***************************************************************************)
EXTENDS Pki, TLC

CONSTANTS A, B, kA, kB, id0, id1, e

MCTime     == 0..1
MCValidity == << 0, 1 >>
MCReasons  == {<< << 1 >>, << >> >>, << << 11 >>, << 0 >> >>}

Symmetry == Permutations({A, B}) \cup Permutations({kA, kB})
=============================================================================
