SPECIFICATION CipherSpec
CONSTANTS
  B = 3
  Radix = 4
  AadBuf = 6
  LenRadix = 8
  CipherRounds = 8
  BufBits = 7
  FpeWidths = {0, 1, 2, 4, 6, 8}
  Calls <- MCCalls
  Follow <- MCFollow
  Nonces <- MCNonces
  Strings <- MCStrings
  Suites = {"gcm", "ccm"}
  Payloads <- MCPayloads
  Types <- MCTypes
  MaxRecords = 3
  HashBlock = 4
  DigestLen = 2
  RoundMax = 3
  InfoMax = 3
  SaltMax = 3
  IndexMax = 3
  Derivations <- MCDerivations
  MacKeys <- MCMacKeys
  Pieces <- MCPieces
  MaxFed = 3
  c1 = c1
  c2 = c2
  Handles = {c1, c2}
  BLOCK = 4
  LENB = 2
  LenMod = 40
  MaxLen = 8
  Byte <- MCByte
  Messages <- MCMessages
SYMMETRY Symmetry
INVARIANTS
  RecordsInOrder
  TicketsExact
  DerivedApart
  RoundTrip
  Authentic
  PartlyBound
  KeyStreamOnce
  BlocksDiffer
  UnpadExact
  TypeOK
  RoomForMarker
  CounterMatches
PROPERTY ServiceSpec
CHECK_DEADLOCK FALSE
