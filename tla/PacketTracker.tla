--------------------------- MODULE PacketTracker ---------------------------
(***************************************************************************)
(* LoraPacketTracker: what the trace sources of the devices and gateways   *)
(* tell it, the maps it keeps, and the counts the examples print.  It      *)
(* composes with Gateway, whose uplinks are transmissions: a               *)
(* retransmission is another one of the same packet object, and the object *)
(* is the key of every map.  The interval of a count is the whole run.     *)
(***************************************************************************)
EXTENDS Gateway, FiniteSetsExt

CONSTANTS
  Carriers,   \* the ways transmissions carry packets: [Uplinks -> Uplinks]
  Confirmed   \* the packets whose device waits for an ACK

ASSUME TrackerAssumption ==
  /\ Carriers \subseteq [Uplinks -> Uplinks]
  /\ Confirmed \subseteq Uplinks

VARIABLES
  carried,    \* carried[u]: the packet of transmission u, by its first one
  phySent,    \* the keys of m_packetTracker
  outcome,    \* outcomes of each packet at each gateway
  receptionTimes,  \* of m_macPacketTracker: the gateways that received a packet
  macSent,    \* its keys
  concluded   \* the keys of m_reTransmissionTracker

trVars == <<carried, phySent, outcome, receptionTimes, macSent, concluded>>
allVars == <<gwVars, trVars>>

Absent == "UNSET"
Null   == "null"
Outcomes == {"RECEIVED", "INTERFERED", "NO_MORE_RECEIVERS", "UNDER_SENSITIVITY",
             "LOST_BECAUSE_TX"}

TrInit ==
  /\ GwInit
  /\ carried \in Carriers
  /\ phySent = {}
  /\ outcome = [u \in Uplinks |-> [g \in Gateways |-> Absent]]
  /\ receptionTimes = [u \in Uplinks |-> {}]
  /\ macSent = {}
  /\ concluded = {}

-----------------------------------------------------------------------------
(* insert of a std::map: an outcome that is there stays.                   *)
KeepFirst(old, new) == IF old = Absent THEN new ELSE old

Recorded(k, new) == [outcome EXCEPT ![k] = [g \in Gateways |-> KeepFirst(@[g], new[g])]]

(* The traces of StartReceive at a gateway that does not lock a path.      *)
AtStart(g, strong) ==
  IF isTx[g] THEN "LOST_BECAUSE_TX"
  ELSE IF ~ CanLock(g, paths) THEN "NO_MORE_RECEIVERS"
  ELSE IF g \notin strong THEN "UNDER_SENSITIVITY"
  ELSE Absent

(* A device sends or retransmits, when nothing of the packet is received   *)
(* any more: it has waited for its windows.                                *)
MaySend(k) ==
  /\ k \notin concluded
  /\ \A u \in Uplinks, g \in Gateways : carried[u] = k => u \notin paths[g]

(* MacTransmissionCallback of the first transmission and                   *)
(* TransmissionCallback of each, of which only the first is inserted.      *)
Transmission(p, d, strong) ==
  LET k == carried[p]
  IN  /\ MaySend(k)
      /\ UplinkArrives(p, d, strong)
      /\ macSent' = macSent \cup {k}
      /\ phySent' = phySent \cup {k}
      /\ outcome' = Recorded(k, [g \in Gateways |-> AtStart(g, strong)])
      /\ UNCHANGED <<carried, receptionTimes, concluded>>

(* The radio drops the first transmission, of which only the MAC traced.   *)
RadioDrops(k) ==
  /\ k \in {carried[u] : u \in Uplinks} \ macSent
  /\ macSent' = macSent \cup {k}
  /\ UNCHANGED <<gwVars, carried, phySent, outcome, receptionTimes, concluded>>

(* Mutant: every reception that ends is traced as a success. *)
AlwaysReceived(survives) == "RECEIVED"
AtEnd(survives) == IF survives THEN "RECEIVED" ELSE "INTERFERED"

(* PacketReceptionCallback or InterferenceCallback, and the MAC of the     *)
(* gateway that gets a packet which survived: MacGwReceptionCallback.      *)
ReceptionEnds(e) ==
  /\ EndReceive(e)
  /\ IF e.pkt \in Uplinks
     THEN LET k == carried[e.pkt]
              survives == toServer' # toServer
          IN  /\ outcome' = Recorded(k, [g \in Gateways |->
                                           IF g = e.gw THEN AtEnd(survives) ELSE Absent])
              /\ receptionTimes' =
                   IF survives THEN [receptionTimes EXCEPT ![k] = @ \cup {e.gw}]
                               ELSE receptionTimes
     ELSE UNCHANGED <<outcome, receptionTimes>>
  /\ UNCHANGED <<carried, phySent, macSent, concluded>>

(* Mutant: an interrupted reception is not traced. *)
NoneInterrupted(m) == {}
Interrupted(m) == IF Refused(m) THEN {} ELSE paths[m.gw] \cap Uplinks

(* LostBecauseTxCallback of the receptions a downlink interrupts.          *)
Interrupts(m) ==
  /\ DownlinkArrives(m)
  /\ outcome' = [k \in Uplinks |-> [g \in Gateways |->
                   IF g = m.gw /\ k \in {carried[u] : u \in Interrupted(m)}
                   THEN KeepFirst(outcome[k][g], "LOST_BECAUSE_TX") ELSE outcome[k][g]]]
  /\ UNCHANGED <<carried, phySent, receptionTimes, macSent, concluded>>

(* RequiredTransmissionsCallback.  Of an unconfirmed packet the MAC passes *)
(* no packet: all of them share one key, which is inserted once.           *)
RequiredTransmissions(k) ==
  /\ k \in macSent \ concluded
  /\ concluded' = concluded \cup {IF k \in Confirmed THEN k ELSE Null}
  /\ UNCHANGED <<gwVars, carried, phySent, outcome, receptionTimes, macSent>>

-----------------------------------------------------------------------------
(* CountPhyPacketsPerGw of an outcome, and CountMacPacketsGlobally.        *)
CountPhyPacketsPerGw(g, o) == Cardinality({k \in phySent : outcome[k][g] = o})

CountMacPacketsGlobally ==
  [sent |-> Cardinality(macSent),
   received |-> Cardinality({k \in macSent : receptionTimes[k] # {}})]

-----------------------------------------------------------------------------
TrTick ==
  /\ GwTick
  /\ UNCHANGED <<carried, phySent, outcome, receptionTimes, macSent, concluded>>

TrScheduler ==
  \/ \E e \in endRx : ReceptionEnds(e)
  \/ \E m \in toGateway : Interrupts(m)
  \/ (\E e \in txEnds : TxFinished(e)) /\ UNCHANGED trVars
  \/ LinkReads /\ UNCHANGED trVars
  \/ TrTick

TrNext ==
  \/ TrScheduler
  \/ \E p \in Uplinks, d \in UpTimes, strong \in SUBSET Gateways : Transmission(p, d, strong)
  \/ \E k \in Uplinks : RadioDrops(k)
  \/ \E k \in Uplinks : RequiredTransmissions(k)
  \/ ServerSends /\ UNCHANGED trVars

TrSpec == TrInit /\ [][TrNext]_allVars

-----------------------------------------------------------------------------
(* At a gateway that receives nothing now, each packet that a radio sent   *)
(* has one outcome: the columns of the PHY counts add up to the first, and *)
(* that is no more than what the MACs say they have sent.                  *)
CountsAddUp ==
  \A g \in Gateways :
    paths[g] \cap Uplinks = {} =>
      /\ Cardinality(phySent) =
           MapThenSumSet(LAMBDA o : CountPhyPacketsPerGw(g, o), Outcomes)
      /\ Cardinality(phySent) <= CountMacPacketsGlobally.sent

(* The maps of the two layers agree: what the radio of a gateway received, *)
(* its MAC did, and only of a packet sent more than once may the MAC have  *)
(* received what the radio's first outcome says was lost.                  *)
TrackersAgree ==
  \A k \in Uplinks, g \in Gateways :
    /\ outcome[k][g] = "RECEIVED" => g \in receptionTimes[k]
    /\ g \in receptionTimes[k] /\ outcome[k][g] # "RECEIVED" =>
         \E u, v \in sent \cap Uplinks : u # v /\ carried[u] = k /\ carried[v] = k
=============================================================================
