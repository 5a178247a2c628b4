SPECIFICATION PublicKeySpec
CONSTANTS
  P = 43
  N = 37
  CurveB = 20
  G <- MCG
  W = 6
  Win = 2
  Radix = 8
  Size = 2
  AlgId <- MCAlgId
  FieldP = 13
  ScalarBits = 8
  Order = 11
  Cofactor = 3
  Stray <- MCStray
  HashBits = 4
  CutAt = 2
  MacLen = 1
  KeyByte <- MCKeyByte
  Digest <- MCDigest
  RawHash <- MCRawHash
  MsgPoint <- MCMsgPoint
  AttemptOf <- AttemptCall
  ReceiveOf <- ReceiveCall
  OffersOf <- MCOffers
  Draws <- MCDraws
  Jobs <- MCKeyJobs
  R = R
  I = I
  L = L
  kR = kR
  kR2 = kR2
  kI = kI
  kL = kL
  id0 = id0
  id1 = id1
  Names = {R, I, L}
  Keys = {kR, kR2, kI, kL}
  Ids = {id0, id1}
  DefaultId = id0
  Serials = {1, 2, 3, 4, 5, 6}
  Exts = {}
  Time <- MCTime
  Pool <- MCPool
  MaxCertificates = 3
  MaxAnchors = 2
INVARIANT KeysAreChecked
CHECK_DEADLOCK FALSE
