SPECIFICATION AdrFairSpec
CONSTANTS
  Gateways = {"g1", "g2"}
  Gains <- mcGains
  HistoryRange = 4
  Combinings <- mcCombinings
  ToggleTxPower = TRUE
  Scale = 2
INVARIANT StaysReachable
PROPERTY RequestsMatter Settles
CHECK_DEADLOCK FALSE
