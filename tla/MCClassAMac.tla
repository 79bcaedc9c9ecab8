---------------------------- MODULE MCClassAMac ----------------------------
(***************************************************************************)
(* Instances of ClassAMac for TLC.  Four ticks stand for one second: the   *)
(* windows open 1 s and 2 s after a transmission, ACK_TIMEOUT is 1 s or    *)
(* 3 s, received packets last 0.5 s or 1.5 s.                              *)
(***************************************************************************)
EXTENDS ClassAMac

mcTimeOnAir == [d \in DataRates |-> 2]

(* The duty cycle: one that outlasts the windows and any reception in them *)
(* (1% of the EU868 channels), and one that does not outlast a reception   *)
(* in the second window at data rate 0, and is none at the others (ALOHA). *)
mcLongOff  == [d \in DataRates |-> 24]
mcMixedOff == [d \in DataRates |-> IF d = 0 THEN 16 ELSE 0]

mcAllFit    == [d \in DataRates |-> {}]
mcTooBigAt0 == [d \in DataRates |-> IF d = 0 THEN {2} ELSE {}]

mcNoReqs   == {}
mcAdrReqs  == {[mask |-> Channels, dr |-> 0]}

mcFrames    == Frames
(* The server acknowledges whenever it answers. *)
mcAckFrames == {f \in Frames : f.kind = "toUs" => f.ack # NoPkt}
=============================================================================
