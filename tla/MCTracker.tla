----------------------------- MODULE MCTracker -----------------------------
(***************************************************************************)
(* The instance of PacketTracker for TLC: two gateways of one path each,   *)
(* two downlinks in two sub-bands, and two transmissions, of two packets   *)
(* or of one.  Gateways, sub-bands and downlinks are interchangeable.      *)
(***************************************************************************)
EXTENDS PacketTracker, TLC

CONSTANTS d1, d2

mcUplinks   == {"u1", "u2"}
mcDownlinks == {d1, d2}
mcPackets   == mcUplinks \cup mcDownlinks
mcBandOff   == [b \in Bands |-> 5]
mcCarriers  == {[u \in mcUplinks |-> u], [u \in mcUplinks |-> "u1"]}
mcSymmetry  == Permutations(Gateways) \cup Permutations(Bands) \cup Permutations(mcDownlinks)
=============================================================================
