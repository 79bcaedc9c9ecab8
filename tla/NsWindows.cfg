SPECIFICATION NsFairSpec
CONSTANTS
  Gateways = {1, 2}
  NumPaths = 1
  Bands = {"b1", "b2"}
  BandOff <- mcBandOff
  DownTime = 4
  UpTimes = {1}
  LinkDelay = 1
  Packets <- mcPackets
  Uplinks <- mcUplinks
  Devices = {"a", "b"}
  MaxUplinks <- mcMaxUplinks
  Requests <- mcRequests
  FCntSpace = 2
  RxDelay = 3
  WindowLength = 3
  Gap = 11
  Powers <- mcPowers
  BandOf <- mcBandOf
INVARIANT ReplyHasOpportunity RepliesInWindow
PROPERTY AckIsForTheLastUplink OneReplyPerUplink FirstWindowIfPossible RepliesEnd ReceptionsEnd
