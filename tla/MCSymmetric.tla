----------------------------- MODULE MCSymmetric -----------------------------
(***************************************************************************)
(* Bounds for Symmetric: which calls are made, at every length up to two   *)
(* blocks and one byte; three records of two content types, empty, with a  *)
(* zero at the end and longer than a block; keys, salts and info shorter   *)
(* than, as long as and longer than what is taken in, zeros at their ends; *)
(* derived keys up to a byte more than the rounds can give. Beside them    *)
(* the contexts of MCSm3Stream, which share no state with them: the two    *)
(* are explored one at a time.                                             *)
(***************************************************************************)
EXTENDS Symmetric, MCSm3Stream

CONSTANTS FpeWidths   \* the widths of format-preserving encryption tried

Lens == 0..(2 * B + 1)
Call(mode, par, nonce, aad, pt, text) ==
  [mode |-> mode, par |-> par, nonce |-> nonce, aad |-> aad, pt |-> pt,
   text |-> text]

Iv(v) == [i \in 1..B |-> Num(v)]
\* Nonces whose last bytes are about to carry and those that are not.
MCNonces(mode) ==
  CASE mode \in {"gcm", "gcm_combined"} ->
         {[i \in 1..(B - 1) |-> Num(v)] : v \in 0..1}
    [] mode = "ccm" -> {[i \in 1..(B - 2) |-> Num(v)] : v \in 0..1}
    [] mode = "ocb" -> {<<>>, <<Num(0)>>, <<Num(1)>>, <<Num(2)>>,
                        <<Num(0), Num(1)>>, Iv(1)}
    [] mode = "siv" -> {<<>>, <<<<>>>>, <<Text("fresh", 60, 1)>>}
    [] mode = "eax" -> {<<>>, <<Num(1)>>, Iv(1)}
    [] mode \in {"cbc", "cbc_padded", "ofb", "cfb", "ctr", "xts"} ->
         {Iv(0), Iv(Radix - 1), Text("fresh", 60, B)}
    [] OTHER -> {<<>>}

MCCalls ==
  {Call(m, 0, <<>>, 0, l, t) :
     m \in {"ecb", "ecb_padded"}, l \in Lens, t \in {"fresh", "zero"}}
  \cup {Call("wrap", 0, <<>>, 0, l, t) : l \in 0..3, t \in {"fresh", "zero"}}
  \cup UNION {{Call(m, 0, n, 0, l, t) :
         n \in MCNonces(m), l \in Lens, t \in {"fresh", "same", "zero"}} :
     m \in {"cbc", "cbc_padded", "ofb", "cfb", "ctr", "xts"}}
  \cup {Call("pad", p, <<>>, 0, l, "zero") : p \in {"none", "pkcs7"}, l \in Lens}
  \cup {Call("block", 0, <<>>, 0, 4, t) : t \in {"fresh", "same", "zero"}}
  \cup {Call("fpe", w, n, 0, BufBits, t) :
          w \in FpeWidths, n \in {<<>>, Text("fresh", 60, 2)}, t \in {"fresh", "same"}}
  \cup UNION {{Call(m, 0, n, a, l, t) : n \in MCNonces(m),
         a \in {0, 1, B, B + 1}, l \in Lens, t \in {"fresh", "zero"}} :
     m \in {"gcm", "gcm_combined", "ocb", "eax"}}
  \cup {Call("ccm", p, n, a, l, t) : p \in {1, B, B + 1}, n \in MCNonces("ccm"),
          a \in {0, 1, B, AadBuf}, l \in Lens, t \in {"fresh", "zero"}}
  \cup {Call("siv", 0, n, a, l, t) : n \in MCNonces("siv"),
          a \in {<<>>, <<0>>, <<1>>, <<B + 1>>, <<1, B>>}, l \in Lens,
          t \in {"fresh", "zero"}}

\* Format-preserving encryption alone, and EAX.
MCFpeCalls == {c \in MCCalls : c.mode = "fpe"}
MCEaxCalls == {c \in MCCalls : c.mode = "eax" /\ c.text = "fresh"}
MCFollow ==
  {c \in MCCalls : /\ c.mode \in Aead \cup {"wrap"}
                   /\ IF c.mode = "siv" THEN c.aad \in {<<>>, <<1>>}
                      ELSE c.aad \in {0, 1}
                   /\ c.pt \in IF c.mode = "wrap" THEN {1, 2} ELSE {1, B + 1}
                   /\ c.text = "fresh"}
MCStrings ==
  UNION {[1..n -> {Num(v) : v \in 0..(B + 1)}] : n \in 0..(B + 1)}
    \cup {[i \in 1..(2 * B) |-> Num(v)] : v \in 0..(B + 1)}

-----------------------------------------------------------------------------
Fresh(id, n) == [i \in 1..n |-> {<<"p", 64 * id + i>>}]
MCTypes == {Num(1), Num(2)}
MCPayloads == {<<>>, <<Num(2), Zero>>, Fresh(1, B + 1)}

Derivation(op, key, data, n, len) ==
  [op |-> op, key |-> key, data |-> data, n |-> n, len |-> len]
KeysOfLen(ns) == {Fresh(1, n) : n \in ns} \cup {Append(Fresh(1, 1), Zero)}
LongKey == Fresh(1, HashBlock + 1)
MCMacKeys == KeysOfLen({0, 1, HashBlock}) \cup {LongKey, Append(LongKey, Zero), Sm3(LongKey)}
MCPieces == {<<>>, Fresh(2, 1), Fresh(2, 2)}
Outputs == {0, 1, DigestLen + 1, HkdfMaxLen, HkdfMaxLen + 1}
MCDerivations ==
  {Derivation(op, k, m, 0, DigestLen) : op \in {"hmac", "concat"}, k \in MCMacKeys, m \in MCPieces}
  \cup {Derivation("hkdf", k, Fresh(2, i), n, l) :
          k \in KeysOfLen({0, 1}), i \in {0, InfoMax}, n \in 0..1, l \in Outputs}
  \cup {Derivation("expand", Fresh(1, DigestLen), s, 0, l) :
          s \in {Fresh(2, i) : i \in 0..(InfoMax + 2)}
                  \cup {Append(Fresh(2, InfoMax), Zero), Fresh(3, InfoMax)}, l \in Outputs}
  \cup {Derivation("kdf", Fresh(1, k), Fresh(2, i), 0, l) :
          k \in 0..2, i \in 0..2, l \in Outputs}
  \cup {Derivation("pbkdf2", k, Fresh(2, i), n, l) :
          k \in KeysOfLen({1, HashBlock + 1}), i \in {0, SaltMax, SaltMax + 1},
          n \in 0..3, l \in {DigestLen + 1, IndexMax * DigestLen + 1}}

\* What is cut off: info and salts of more bytes than are taken in.
MCCutDerivations == {d \in MCDerivations : d.op \in {"expand", "pbkdf2"}}

-----------------------------------------------------------------------------
symmetricVars == <<vars, tlsVars, scheduleVars>>

CipherInit == SymmetricInit /\ StreamInit
CipherNext ==
  \/ StreamInit /\ SymmetricNext /\ UNCHANGED streamVars
  \/ SymmetricInit /\ StreamNext /\ UNCHANGED symmetricVars
CipherSpec == CipherInit /\ [][CipherNext]_<<symmetricVars, streamVars>>
=============================================================================
