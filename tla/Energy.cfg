SPECIFICATION EnSpec
CONSTANTS
  Current <- mcCurrent
  TxPowers = {1, 3}
  HasTxModel = TRUE
  Gain = 1
  TxCurrentA = 2
  InitialEnergy = 8
  Low = 2
  High = 4
  Harvest = {3}
  MaxTime = 7
INVARIANT StateFollowsRadio ChargesMatchRadio
CHECK_DEADLOCK FALSE
