---------------------------- MODULE HashService ----------------------------
(***************************************************************************)
(* What a family of streaming hash contexts promises its callers: each     *)
(* context stands for the message it has been fed, a fork is a second      *)
(* context with the same message, and a context that is finished answers   *)
(* the hash of its message, whatever the calls that built it and whatever  *)
(* happened to the other contexts in between.                              *)
(***************************************************************************)
EXTENDS Sequences

CONSTANTS
  Handles,     (* names a caller has for its contexts                      *)
  Messages,    (* what one call may append                                 *)
  Hash(_),     (* the hash of a whole message                              *)
  NoResult     (* what a call that returns nothing leaves                  *)

VARIABLES
  live,        (* contexts that exist                                      *)
  log,         (* log[h]: the message of context h                         *)
  result       (* what the last call returned                              *)

svars == << live, log, result >>

SInit ==
  /\ live = {}
  /\ log = [h \in Handles |-> << >>]
  /\ result = NoResult

SStart(h) ==
  /\ h \notin live
  /\ live' = live \cup {h}
  /\ log' = [log EXCEPT ![h] = << >>]
  /\ result' = NoResult

SFork(h, g) ==
  /\ h \in live /\ g \notin live
  /\ live' = live \cup {g}
  /\ log' = [log EXCEPT ![g] = log[h]]
  /\ result' = NoResult

SUpdate(h, data) ==
  /\ h \in live
  /\ log' = [log EXCEPT ![h] = @ \o data]
  /\ result' = NoResult
  /\ UNCHANGED live

SForkFinish(h) ==
  /\ h \in live
  /\ result' = Hash(log[h])
  /\ UNCHANGED << live, log >>

SFinish(h) ==
  /\ h \in live
  /\ result' = Hash(log[h])
  /\ live' = live \ {h}
  /\ log' = [log EXCEPT ![h] = << >>]

SFinalizeReset(h) ==
  /\ h \in live
  /\ result' = Hash(log[h])
  /\ log' = [log EXCEPT ![h] = << >>]
  /\ UNCHANGED live

SReset(h) ==
  /\ h \in live
  /\ log' = [log EXCEPT ![h] = << >>]
  /\ result' = NoResult
  /\ UNCHANGED live

SDigest(data) ==
  /\ result' = Hash(data)
  /\ UNCHANGED << live, log >>

SNext ==
  \/ \E h \in Handles :
       \/ SStart(h) \/ SForkFinish(h) \/ SFinish(h) \/ SFinalizeReset(h) \/ SReset(h)
       \/ \E g \in Handles : SFork(h, g)
       \/ \E data \in Messages : SUpdate(h, data)
  \/ \E data \in Messages : SDigest(data)

SSpec == SInit /\ [][SNext]_svars
=============================================================================
