---------------------------- MODULE MCSm3Stream ----------------------------
(***************************************************************************)
(* Two contexts over blocks of 4 cells with a length field of 2 cells and  *)
(* a bit counter modulo 40 (it wraps inside the second block).  The pieces *)
(* stop short of, reach and cross block boundaries, and hold the bytes     *)
(* the padding is made of.                                                 *)
(***************************************************************************)
EXTENDS Sm3Stream, TLC

CONSTANTS c1, c2

MCByte == {0, 1, 2, 3, PadMarker}

MCMessages ==
  { << >>, <<1>>, <<PadMarker, 0>>, <<2, 1, 3, 2, PadMarker>>,
    <<1, 2, 3, 0, 3, 2, 1, 2>> }

Symmetry == Permutations({c1, c2})
=============================================================================
