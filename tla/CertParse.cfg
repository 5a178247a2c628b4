SPECIFICATION PkiSpec
CONSTANTS
  A = A
  B = B
  kA = kA
  kB = kB
  id0 = id0
  id1 = id1
  e = e
  Names = {A, B}
  Keys = {kA, kB}
  Ids = {id0, id1}
  DefaultId = id0
  Serials = {1}
  Exts = {e}
  Time <- MCTime
  Validity <- MCValidity
  MaxCsrs = 2
  MaxCerts = 3
  Revocable = {1}
  Reasons <- MCReasons
  Period = 1
  Horizon = 1
  MaxLists = 0
SYMMETRY Symmetry
INVARIANT ParsedStillVerifies
