SPECIFICATION ChFairSpec
CONSTANTS
  Bands <- mcBands
  DefaultChannels <- mcDefaultChannels
  NewFrequencies <- mcNewFrequencies
  Rx2Frequency = 869525
  Powers = {16}
  AirTimes = {1, 2}
  WindowDelays = {0, 2}
  MaxTime = 5
INVARIANT PostponedFindsChannel
PROPERTY SentIsPaidFor PostponedEnds
CHECK_DEADLOCK FALSE
