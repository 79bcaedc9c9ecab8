SPECIFICATION DpSpec
CONSTANTS
  MaxDevices = 2
  MaxGateways = 2
  MaxPeriods = 3
  Powers <- mcPowers
  Distances = {0, 2, 3, 5, 6, 8}
  Studies <- mcStudies
INVARIANT BestRate CountsMatch ServerKnowsSender SendsOnTime
CHECK_DEADLOCK FALSE
