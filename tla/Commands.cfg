SPECIFICATION CmdFairSpec
CONSTANTS
  NumChannels = 3
  MaxTx = 2
  AppSizes = {20, 50}
  Requests <- mcRequests
  MaxRequests = 2
  MaxQueued = 2
INVARIANT NoAnswerForgotten ParsedAsWritten KeepsAChannel
PROPERTY AnswersLeave
CHECK_DEADLOCK FALSE
