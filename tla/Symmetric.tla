------------------------------ MODULE Symmetric ------------------------------
(***************************************************************************)
(* The users of symmetric cryptography side by side. They share no state:  *)
(* a behaviour is one of callers of the SM4 modes (Sm4Session), of a TLS   *)
(* connection or its tickets (Tls13), or of the derivation of keys         *)
(* (KeySchedule).                                                          *)
(***************************************************************************)
EXTENDS Tls13, KeySchedule

SymmetricInit == Init /\ TlsInit /\ ScheduleInit

OnlyModes  == TlsInit /\ ScheduleInit /\ UNCHANGED <<tlsVars, scheduleVars>>
OnlyTls    == Init /\ ScheduleInit /\ UNCHANGED <<vars, scheduleVars>>
OnlyDerive == Init /\ TlsInit /\ UNCHANGED <<vars, tlsVars>>

SymmetricNext ==
  \/ OnlyModes /\ SealFirst
  \/ OnlyModes /\ SealSecond
  \/ OnlyModes /\ Open
  \/ OnlyTls /\ Begin
  \/ OnlyTls /\ SendRecord
  \/ OnlyTls /\ ReceiveRecord
  \/ OnlyTls /\ MakeTicket
  \/ OnlyTls /\ RedeemTicket
  \/ OnlyDerive /\ DeriveKey
  \/ OnlyDerive /\ MacNew
  \/ OnlyDerive /\ MacUpdate
  \/ OnlyDerive /\ MacFinalize

SymmetricSpec == SymmetricInit /\ [][SymmetricNext]_<<vars, tlsVars, scheduleVars>>
=============================================================================
