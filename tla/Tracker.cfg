SPECIFICATION TrSpec
CONSTANTS
  Gateways = {g1, g2}
  NumPaths = 1
  Bands = {rx1, rx2}
  d1 = d1
  d2 = d2
  BandOff <- mcBandOff
  DownTime = 2
  UpTimes = {3}
  LinkDelay = 0
  Packets <- mcPackets
  Uplinks <- mcUplinks
  Carriers <- mcCarriers
  Confirmed = {"u1"}
SYMMETRY mcSymmetry
INVARIANT PathsMatchEvents OneFate HearsOnlyAfterOverlap
INVARIANT CountsAddUp TrackersAgree
