----------------------------- MODULE Sm3Stream -----------------------------
(***************************************************************************)
(* Streaming use of SM3: the contexts a program keeps (Sm3Hasher values,   *)
(* or the Sm3Context values that the rustls provider hands to the TLS      *)
(* handshake as its transcript hash), each fed piece by piece, forked,     *)
(* reset and finished in any order.                                        *)
(*                                                                         *)
(* A forked context is a clone (rustls_provider/hash.rs): the buffer of    *)
(* the original, stale bytes included, is copied.                          *)
(***************************************************************************)
EXTENDS Sm3Hasher

CONSTANTS
  Handles,     (* names for the contexts a program keeps                   *)
  Messages,    (* the pieces one update() may be given                     *)
  MaxLen       (* bound on the bytes fed to one context                    *)

ASSUME MessagesAssumption == Messages \subseteq Seq(Byte)
ASSUME MaxLenAssumption   == MaxLen \in Nat

VARIABLES
  live,        (* contexts that exist                                      *)
  hasher,      (* hasher[h]: the Sm3Hasher of h (New when h is not live)   *)
  hashed       (* what the last call returned                              *)

streamVars == << live, hasher, hashed >>

NoResult == << >>

StreamInit ==
  /\ live = {}
  /\ hasher = [h \in Handles |-> New]
  /\ hashed = NoResult

(* new(), Sm3Hash::start()                                                 *)
Start(h) ==
  /\ h \notin live
  /\ live' = live \cup {h}
  /\ hasher' = [hasher EXCEPT ![h] = New]
  /\ hashed' = NoResult

(* clone(), Sm3Context::fork()                                             *)
Fork(h, g) ==
  /\ h \in live /\ g \notin live
  /\ live' = live \cup {g}
  /\ hasher' = [hasher EXCEPT ![g] = hasher[h]]
  /\ hashed' = NoResult

Feed(h, data) ==
  /\ h \in live
  /\ Len(hasher[h].state) + hasher[h].buf_len + Len(data) <= MaxLen
  /\ hasher' = [hasher EXCEPT ![h] = Update(@, data)]
  /\ hashed' = NoResult
  /\ UNCHANGED live

(* Sm3Context::fork_finish(): a clone is finished, the context lives on.   *)
ForkFinish(h) ==
  /\ h \in live
  /\ hashed' = FinalizeInner(hasher[h])
  /\ UNCHANGED << live, hasher >>

(* finalize(self), Sm3Context::finish(): the context is consumed.          *)
Finish(h) ==
  /\ h \in live
  /\ hashed' = FinalizeInner(hasher[h])
  /\ live' = live \ {h}
  /\ hasher' = [hasher EXCEPT ![h] = New]

FinalizeReset(h) ==
  /\ h \in live
  /\ hashed' = FinalizeInner(hasher[h])
  /\ hasher' = [hasher EXCEPT ![h] = New]
  /\ UNCHANGED live

Reset(h) ==
  /\ h \in live
  /\ hasher' = [hasher EXCEPT ![h] = New]
  /\ hashed' = NoResult
  /\ UNCHANGED live

(* digest(), Sm3Hash::hash()                                               *)
OneShot(data) ==
  /\ hashed' = Digest(data)
  /\ UNCHANGED << live, hasher >>

StreamNext ==
  \/ \E h \in Handles :
       \/ Start(h) \/ ForkFinish(h) \/ Finish(h) \/ FinalizeReset(h) \/ Reset(h)
       \/ \E g \in Handles : Fork(h, g)
       \/ \E data \in Messages : Feed(h, data)
  \/ \E data \in Messages : OneShot(data)

StreamSpec == StreamInit /\ [][StreamNext]_streamVars

-----------------------------------------------------------------------------
TypeOK ==
  /\ live \subseteq Handles
  /\ hasher \in [Handles -> Hasher]
  /\ hashed \in Seq(Cell)

(* Between calls the buffer is never full: update() hands a full buffer to *)
(* the compression function before it returns.  finalize_inner() writes    *)
(* its marker at buffer[buf_len] and would index past the array otherwise. *)
RoomForMarker == \A h \in Handles : hasher[h].buf_len < BLOCK

(* Only whole blocks reach the compression function, and the bit counter   *)
(* says how many, modulo its width.                                        *)
CounterMatches ==
  \A h \in Handles :
    /\ Len(hasher[h].state) % BLOCK = 0
    /\ hasher[h].bit_len = (8 * Len(hasher[h].state)) % LenMod

(* The invariant the refinement rests on.                                  *)
IInv == TypeOK /\ RoomForMarker /\ CounterMatches

(* The contexts behave as the abstract service: each one hashes exactly    *)
(* the bytes it was given, in order, with the padding of the standard,     *)
(* however the bytes were cut into calls, and no context is disturbed by   *)
(* what is done to the contexts it was forked from or into.                *)
Service == INSTANCE HashService
             WITH log <- [h \in Handles |-> Absorbed(hasher[h])], Hash <- Padded,
                  result <- hashed

ServiceSpec == Service!SSpec
=============================================================================
