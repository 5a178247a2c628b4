SPECIFICATION PublicKeySpec
CONSTANTS
  P = 43
  N = 37
  CurveB = 20
  G <- MCG
  W = 6
  Win = 2
  Radix = 8
  Size = 2
  AlgId <- MCAlgId
  FieldP = 13
  ScalarBits = 8
  Order = 11
  Cofactor = 3
  Stray <- MCStray
  HashBits = 4
  CutAt = 2
  MacLen = 1
  KeyByte <- MCKeyByte
  Digest <- MCDigest
  RawHash <- MCRawHash
  MsgPoint <- MCMsgPoint
  AttemptOf <- AttemptCall
  ReceiveOf <- ReceiveCall
  OffersOf <- MCOffers
  Draws <- MCDraws
  Jobs <- MCJobs
  R = R
  I = I
  L = L
  kR = kR
  kR2 = kR2
  kI = kI
  kL = kL
  id0 = id0
  id1 = id1
  Names = {R, I, L}
  Keys = {kR, kR2, kI, kL}
  Ids = {id0, id1}
  DefaultId = id0
  Serials = {1, 2, 3, 4, 5, 6}
  Exts = {}
  Time <- MCTime
  Pool <- MCPool
  MaxCertificates = 3
  MaxAnchors = 2
INVARIANTS
  PointsExact
  VerifyExact
  DecryptExact
  ExchangeAgrees
  Sm9VerifyExact
  Sm9DecryptExact
  AggregatesVerify
  QuorumSigns
  GroupLaw
  TowerExact
  MapsOntoCurve
  LoopsEnd
  DerExact
  TypeOK
  PathByNames
  NeverTooLong
  AcceptedIsTrusted
  TrustedIsAccepted
PROPERTY VerifyReturns
CHECK_DEADLOCK FALSE
