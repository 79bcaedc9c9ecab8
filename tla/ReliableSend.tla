---------------------------- MODULE ReliableSend ----------------------------
(***************************************************************************)
(* What the MAC of an end device promises for the packets it is handed:    *)
(* each is started at most once, at most one waits for an acknowledgment   *)
(* at any time, and one that waits ends with one final outcome.  A packet  *)
(* that is started while another waits makes the other one fail.           *)
(***************************************************************************)
CONSTANTS Pkts,     \* the packets
          NoPacket  \* not a packet

VARIABLES started,  \* the packets whose first transmission was attempted
          waiting,  \* the packet that waits for its acknowledgment
          outcome   \* what was reported of each packet

Outcomes == {"none", "acked", "failed"}

AbsInit == /\ started = {}
           /\ waiting = NoPacket
           /\ outcome = [p \in Pkts |-> "none"]

(* A packet is started, and waits if it is to be confirmed.                *)
Start(p) ==
  /\ p \notin started
  /\ started' = started \cup {p}
  /\ waiting' \in {p, NoPacket}
  /\ outcome' = IF waiting = NoPacket THEN outcome
                                      ELSE [outcome EXCEPT ![waiting] = "failed"]

Conclude(r) ==
  /\ waiting # NoPacket
  /\ outcome' = [outcome EXCEPT ![waiting] = r]
  /\ waiting' = NoPacket
  /\ UNCHANGED started

AbsNext == \/ \E p \in Pkts : Start(p)
           \/ \E r \in {"acked", "failed"} : Conclude(r)

AbsSpec == AbsInit /\ [][AbsNext]_<<started, waiting, outcome>>
=============================================================================
