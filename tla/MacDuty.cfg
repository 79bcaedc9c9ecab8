SPECIFICATION FairSpec
CONSTANTS
  NumPackets = 2
  MaxTx = 2
  MTypes = {"CONFIRMED", "UNCONFIRMED"}
  MaxDR = 0
  DRAdapt = FALSE
  TooBig <- mcAllFit
  TimeOnAir <- mcTimeOnAir
  OffTime <- mcLongOff
  Channels = {"c1"}
  AdrReqs <- mcNoReqs
  ReceiveDelay1 = 4
  ReceiveDelay2 = 8
  Rx1Len = 1
  Rx2Len = 2
  AckTimeouts = {4, 12}
  MaxAckTimeout = 12
  HeardFrames <- mcAckFrames
  RxDurations = {2, 6}
  TxGap = 1
INVARIANT TypeOK
INVARIANT BudgetIsSpentOnAir
INVARIANT RadioMatchesEvents
INVARIANT NoAbort
INVARIANT AckedWasOnAir
PROPERTY WaitingEnds
CHECK_DEADLOCK FALSE
