SPECIFICATION Spec
CONSTANTS
  Root = Root
  Other = Other
  Alice = Alice
  Bob = Bob
  kA = kA
  kB = kB
  id0 = id0
  id1 = id1
  empty = empty
  text = text
  Names = {Root, Other, Alice, Bob}
  Keys = {kA, kB}
  Ids = {id0, id1}
  DefaultId = id0
  Serials = {1}
  Exts = {}
  Time <- MCTime
  Contents = {empty, text}
  Empty = empty
  Configs <- MCConfigs
  Crls <- MCCrls
  Verifiers <- Strict
  MaxSigners = 2
  MaxCrls = 0
INVARIANTS
  OwnSigningTime
