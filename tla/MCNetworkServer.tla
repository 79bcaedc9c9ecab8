-------------------------- MODULE MCNetworkServer --------------------------
(***************************************************************************)
(* Instances of NetworkServer for TLC.  Three ticks stand for one second.  *)
(***************************************************************************)
EXTENDS NetworkServer

mcMaxUplinks == [d \in Devices |-> IF d = "a" THEN 2 ELSE 1]
mcUplinks == UNION {{Up(d, n) : n \in UpNumbers(d)} : d \in Devices}
mcPackets == mcUplinks \cup UNION {{Down(d, n) : n \in UpNumbers(d)} : d \in Devices}

mcBandOff == [b \in Bands |-> IF b = "b1" THEN 6 ELSE 5]
mcBandOf  == [w \in Windows |-> IF w = 1 THEN "b1" ELSE "b2"]

(* Device a asks for acknowledgments or for nothing, b for a link check.    *)
mcRequests == [d \in Devices |-> IF d = "a" THEN {[conf |-> c, check |-> FALSE] : c \in BOOLEAN}
                                            ELSE {[conf |-> FALSE, check |-> TRUE]}]

(* The gateways measure different powers, or the same. *)
mcPowers == [g \in Gateways |-> IF g = 1 THEN {1} ELSE {1, 2}]
=============================================================================
