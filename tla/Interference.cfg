SPECIFICATION IfSpec
CONSTANTS
  NumPackets = 3
  SFs = {7, 8}
  Frequencies = {"f1"}
  Powers = {1, 30}
  Durations = {2, 4}
  Isolation <- mcIsolation
  ListLimit = 2
  Threshold = 2
  Horizon = 6
INVARIANT NothingNeededIsCleaned VerdictIsTrue
CHECK_DEADLOCK FALSE
