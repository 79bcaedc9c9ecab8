SPECIFICATION CmdSpec
CONSTANTS
  NumChannels = 3
  MaxTx = 2
  AppSizes = {20}
  Requests <- mcRequests
  MaxRequests = 1
  MaxQueued = 1
INVARIANT OptionsAreParsed
CHECK_DEADLOCK FALSE
