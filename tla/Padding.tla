------------------------------- MODULE Padding -------------------------------
(***************************************************************************)
(* PKCS#7, PKCS#5 and no padding (src/src/sm4/padding.rs).  A result is    *)
(* [ok, val] or [ok, err].                                                 *)
(***************************************************************************)
EXTENDS Blocks

Ok(v)  == [ok |-> TRUE, val |-> v]
Err(e) == [ok |-> FALSE, err |-> e]

Pkcs7Pad(data, size) ==
  LET n == size - (Len(data) % size)
  IN  data \o [i \in 1..n |-> Num(n)]

\* Variant: only the last byte is looked at.
Pkcs7UnpadUnread(data) ==
  IF Len(data) = 0 \/ ~IsNum(Last(data)) THEN Err("InvalidPadding")
  ELSE LET n == Value(Last(data))
       IN  IF n \in 1..B /\ n <= Len(data)
           THEN Ok(SubSeq(data, 1, Len(data) - n))
           ELSE Err("InvalidPadding")

\* The last byte says how many bytes go, all of which repeat it.
Pkcs7Unpad(data) ==
  IF Len(data) = 0 \/ ~IsNum(Last(data)) THEN Err("InvalidPadding")
  ELSE LET n == Value(Last(data))
       IN  IF /\ n \in 1..B
              /\ n <= Len(data)
              /\ \A i \in 0..(n - 1) : data[Len(data) - i] = Num(n)
           THEN Ok(SubSeq(data, 1, Len(data) - n))
           ELSE Err("InvalidPadding")

NoPadding(data) == IF Len(data) % B = 0 THEN Ok(data)
                   ELSE Err("InvalidInputLength")

Pad(data, type) ==
  IF type = "none" THEN NoPadding(data) ELSE Ok(Pkcs7Pad(data, B))
Unpad(data, type) ==
  IF type = "none" THEN NoPadding(data) ELSE Pkcs7Unpad(data)
=============================================================================
