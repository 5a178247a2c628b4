SPECIFICATION PkiSpec
CONSTANTS
  A = A
  B = B
  kA = kA
  kB = kB
  id0 = id0
  id1 = id1
  e = e
  Names = {A, B}
  Keys = {kA, kB}
  Ids = {id0, id1}
  DefaultId = id0
  Serials = {1}
  Exts = {e}
  Time <- MCTime
  Validity <- MCValidity
  MaxCsrs = 2
  MaxCerts = 3
  Revocable = {1, 2}
  Reasons <- MCReasons
  Period = 2
  Horizon = 5
  MaxLists = 2
CHECK_DEADLOCK FALSE
SYMMETRY Symmetry
INVARIANTS
  TypeOK
  ProofOfPossession
  IssuerVouches
  RevokedRefused
