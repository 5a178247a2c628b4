SPECIFICATION CipherSpec
CONSTANTS
  B = 3
  Radix = 4
  AadBuf = 6
  LenRadix = 8
  CipherRounds = 8
  BufBits = 7
  FpeWidths = {1, 2, 3, 4, 5, 6, 7}
  Calls <- MCFpeCalls
  Follow <- MCFollow
  Nonces <- MCNonces
  Strings <- MCStrings
  Suites = {}
  Payloads <- MCPayloads
  Types <- MCTypes
  MaxRecords = 3
  HashBlock = 4
  DigestLen = 2
  RoundMax = 3
  InfoMax = 3
  SaltMax = 3
  IndexMax = 3
  Derivations = {}
  MacKeys <- MCMacKeys
  Pieces <- MCPieces
  MaxFed = 3
  c1 = c1
  c2 = c2
  Handles = {c1, c2}
  BLOCK = 4
  LENB = 2
  LenMod = 40
  MaxLen = 8
  Byte <- MCByte
  Messages <- MCMessages
SYMMETRY Symmetry
INVARIANT RoundTrip
CHECK_DEADLOCK FALSE
