----------------------------- MODULE Sm3Hasher -----------------------------
(***************************************************************************)
(* The streaming SM3 hasher of src/sm3/mod.rs as a data type: one record   *)
(* per Sm3Hasher value and one operator per method.  Every method runs     *)
(* under an exclusive borrow (&mut self) or consumes the value, so that a  *)
(* call is one indivisible change of the record.                           *)
(*                                                                         *)
(* Abstractions of the data:                                               *)
(*   - the compression function is a free constructor: a chaining value is *)
(*     the string of the blocks compressed so far, so that two chaining    *)
(*     values are equal exactly when the same blocks went through, in the  *)
(*     same order.  A digest is the chaining value it is the encoding of;  *)
(*   - the block of 64 bytes has BLOCK cells, the big-endian length field  *)
(*     of 8 bytes has LENB cells of which the last one holds the number;   *)
(*   - the 64-bit length counter counts modulo LenMod.                     *)
(***************************************************************************)
EXTENDS Integers, Sequences

CONSTANTS
  BLOCK,   (* cells in a block (64 bytes in the code)                      *)
  LENB,    (* cells in the length field that ends the padding (8 bytes)    *)
  LenMod,  (* modulus of the bit counter (2^64)                            *)
  Byte     (* values of a message byte; 0 and the marker 0x80 among them   *)

PadMarker == 128

ASSUME Sm3BlockAssumption  == BLOCK \in Nat \ {0} /\ LENB \in Nat \ {0} /\ LENB < BLOCK
ASSUME LenModAssumption == LenMod \in Nat \ {0}
ASSUME ByteAssumption   == Byte \subseteq Nat /\ {0, PadMarker} \subseteq Byte

ZeroCells(n) == [i \in 1..n |-> 0]

(* What a cell of a block can hold: a message or padding byte, or the      *)
(* number in the length field.                                             *)
Cell == Byte \cup 0..(LenMod - 1)

Hasher == [state   : Seq(Byte),
           buffer  : [1..BLOCK -> Byte],
           buf_len : 0..BLOCK,
           bit_len : 0..(LenMod - 1)]

IV == << >>

Compress(state, block) == state \o block

(* new(), reset()                                                          *)
New == [state |-> IV, buffer |-> ZeroCells(BLOCK), buf_len |-> 0, bit_len |-> 0]

(* Variant: the counter grows without wrapping.                            *)
CountBitsUnbounded(bit_len, cells) == bit_len + 8 * cells

CountBits(bit_len, cells) == (bit_len + 8 * cells) % LenMod

(* buffer[at + 1 ..].copy_from_slice(data): the cells behind the copied    *)
(* ones keep what an earlier block left in them.                           *)
CopyInto(buffer, at, data) ==
  [i \in 1..BLOCK |-> IF i \in (at + 1)..(at + Len(data)) THEN data[i - at] ELSE buffer[i]]

(***************************************************************************)
(* update(): top up a started block, take whole blocks straight from the   *)
(* input, keep the rest.                                                   *)
(***************************************************************************)
Take(h, data) ==
  IF h.buf_len = 0 THEN 0
  ELSE IF BLOCK - h.buf_len <= Len(data) THEN BLOCK - h.buf_len ELSE Len(data)

(* Variant: a buffer that the input fills is left for the next call.       *)
TopUpUnflushed(h, data) ==
  LET take == Take(h, data)
  IN  [h EXCEPT !.buffer = CopyInto(@, h.buf_len, SubSeq(data, 1, take)),
                !.buf_len = @ + take]

TopUp(h, data) ==
  LET take   == Take(h, data)
      filled == CopyInto(h.buffer, h.buf_len, SubSeq(data, 1, take))
  IN  IF h.buf_len + take = BLOCK
      THEN [state   |-> Compress(h.state, filled),
            buffer  |-> filled,
            buf_len |-> 0,
            bit_len |-> CountBits(h.bit_len, BLOCK)]
      ELSE [h EXCEPT !.buffer = filled, !.buf_len = @ + take]

WholeCells(data) == BLOCK * (Len(data) \div BLOCK)

(* Variant: blocks taken straight from the input are not counted.          *)
AbsorbUncounted(h, data) ==
  [h EXCEPT !.state = Compress(@, SubSeq(data, 1, WholeCells(data)))]

AbsorbBlocks(h, data) ==
  [h EXCEPT !.state   = Compress(@, SubSeq(data, 1, WholeCells(data))),
            !.bit_len = CountBits(@, WholeCells(data))]

StoreRest(h, rest) ==
  IF rest = << >> THEN h
  ELSE [h EXCEPT !.buffer = CopyInto(@, 0, rest), !.buf_len = Len(rest)]

Update(h, data) ==
  LET remaining == SubSeq(data, Take(h, data) + 1, Len(data))
      rest      == SubSeq(remaining, WholeCells(remaining) + 1, Len(remaining))
  IN  StoreRest(AbsorbBlocks(TopUp(h, data), remaining), rest)

(***************************************************************************)
(* finalize_inner(): the marker, zeros up to the length field (through a   *)
(* block of its own when the field does not fit any more), the length.     *)
(***************************************************************************)
LengthField(bits) == [i \in 1..LENB |-> IF i = LENB THEN bits ELSE 0]

WithLength(block, bits) ==
  [i \in 1..BLOCK |-> IF i <= BLOCK - LENB THEN block[i]
                      ELSE LengthField(bits)[i - (BLOCK - LENB)]]

(* Variant: the bytes behind the marker are left as they are.              *)
ClearNothing(buffer, n, upto) == buffer

(* buffer[n ..] = 0 up to cell "upto"                                      *)
ClearFrom(buffer, n, upto) ==
  [i \in 1..BLOCK |-> IF i \in (n + 1)..upto THEN 0 ELSE buffer[i]]

FinalizeInner(h) ==
  LET total_bits == CountBits(h.bit_len, h.buf_len)
      marked     == [h.buffer EXCEPT ![h.buf_len + 1] = PadMarker]
      len        == h.buf_len + 1
  IN  IF len > BLOCK - LENB
      THEN Compress(Compress(h.state, ClearFrom(marked, len, BLOCK)),
                    WithLength(ZeroCells(BLOCK), total_bits))
      ELSE Compress(h.state,
                    WithLength(ClearFrom(marked, len, BLOCK - LENB), total_bits))

(* digest(): the one-shot function.                                        *)
Digest(data) == FinalizeInner(Update(New, data))

(***************************************************************************)
(* What the padding of GB/T 32905 makes of a message: the message, the     *)
(* marker, zeros, and the bit length in the last LENB cells of the first   *)
(* block that has room for it.                                             *)
(***************************************************************************)
PaddedLen(n) == BLOCK * ((n + LENB) \div BLOCK + 1)

Padded(msg) ==
  LET n == Len(msg)
  IN  [i \in 1..PaddedLen(n) |->
         IF i <= n THEN msg[i]
         ELSE IF i = n + 1 THEN PadMarker
         ELSE IF i = PaddedLen(n) THEN (8 * n) % LenMod
         ELSE 0]

(* The bytes a hasher has taken in: what went through the compression      *)
(* function, then what waits in the buffer.                                *)
Absorbed(h) == h.state \o SubSeq(h.buffer, 1, h.buf_len)
=============================================================================
