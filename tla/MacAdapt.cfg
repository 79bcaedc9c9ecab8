SPECIFICATION Spec
CONSTANTS
  NumPackets = 2
  MaxTx = 4
  MTypes = {"CONFIRMED", "UNCONFIRMED"}
  MaxDR = 1
  DRAdapt = TRUE
  TooBig <- mcTooBigAt0
  TimeOnAir <- mcTimeOnAir
  OffTime <- mcMixedOff
  Channels = {"c1"}
  AdrReqs <- mcAdrReqs
  ReceiveDelay1 = 4
  ReceiveDelay2 = 8
  Rx1Len = 1
  Rx2Len = 2
  AckTimeouts = {4, 10}
  MaxAckTimeout = 12
  HeardFrames <- mcFrames
  RxDurations = {6}
  TxGap = 1
INVARIANT OneOutcome RetxMatchesQueue
PROPERTY ImplementsService SameFCnt
CHECK_DEADLOCK FALSE
