------------------------------ MODULE Gateway ------------------------------
(***************************************************************************)
(* The gateways: the radio with its reception paths (SimpleGatewayLoraPhy  *)
(* over GatewayLoraPhy), the MAC that checks the duty cycle of a downlink  *)
(* (GatewayLorawanMac) and the application that relays packets between the *)
(* radio and the link to the network server (Forwarder).                   *)
(*                                                                         *)
(* Time is discrete and relative, as in EndDevicePhy.  The power and the   *)
(* interference are choices of the environment: whether a packet is above  *)
(* the sensitivity, and whether it survives.  The paths of a gateway are   *)
(* interchangeable, so that only the packets they are locked on are kept.  *)
(***************************************************************************)
EXTENDS Integers, FiniteSets

CONSTANTS
  Gateways,
  NumPaths,      \* reception paths of each gateway
  Bands,         \* the sub-bands a downlink may be sent in
  BandOff,       \* BandOff[b]: wait the duty cycle imposes, from its start
  DownTime,      \* on-air time of a downlink
  UpTimes,       \* on-air times of the uplinks
  LinkDelay,     \* delay of the point-to-point links
  Packets,       \* everything that may be on the air
  Uplinks        \* the packets of Packets whose MAC header says uplink

ASSUME GatewayAssumption ==
  /\ IsFiniteSet(Gateways) /\ NumPaths \in Nat
  /\ BandOff \in [Bands -> Nat] /\ DownTime \in Nat \ {0} /\ UpTimes \subseteq Nat \ {0}
  /\ LinkDelay \in Nat
  /\ Uplinks \subseteq Packets

VARIABLES
  paths,         \* paths[g]: the packets the occupied paths are locked on
  endRx,         \* pending EndReceive events: [gw, pkt, left]
  occupied,      \* m_occupiedReceptionPaths
  isTx,          \* m_isTransmitting
  txEnds,        \* pending TxFinished events: [gw, left]
  bandLeft,      \* bandLeft[g][b]: ticks until the sub-band is free
  toServer,      \* packets on the links to the server: [gw, pkt, left]
  toGateway,     \* packets on the links to the gateways: [gw, pkt, band, left]
  sent,          \* the packets that have left a device or the server
  fates,         \* fates[g][p]: outcomes traced for p at g
  lost           \* the downlinks that a gateway has dropped

gwVars == <<paths, endRx, occupied, isTx, txEnds, bandLeft, toServer, toGateway,
            sent, fates, lost>>

GwInit ==
  /\ paths = [g \in Gateways |-> {}]
  /\ endRx = {}
  /\ occupied = [g \in Gateways |-> 0]
  /\ isTx = [g \in Gateways |-> FALSE]
  /\ txEnds = {}
  /\ bandLeft = [g \in Gateways |-> [b \in Bands |-> 0]]
  /\ toServer = {}
  /\ toGateway = {}
  /\ sent = {}
  /\ fates = [g \in Gateways |-> [p \in Packets |-> 0]]
  /\ lost = {}

-----------------------------------------------------------------------------
(* Mutant: a gateway on the air goes on receiving. *)
HearsInTx(g, ps) == Cardinality(ps[g]) < NumPaths
CanLock(g, ps) == ~ isTx[g] /\ Cardinality(ps[g]) < NumPaths

Traced(fs, gs, p) ==
  [g \in Gateways |-> [fs[g] EXCEPT ![p] = IF g \in gs THEN @ + 1 ELSE @]]

(* Mutant: the search for a path goes on after p was found too weak. *)
StartReceiveGoesOn(p, d, gs, strong, ps, evs, fs) ==
  LET locks == {g \in gs \cap strong : CanLock(g, ps)}
      weak  == {g \in gs \ strong : CanLock(g, ps)}
  IN  /\ paths' = [g \in Gateways |-> IF g \in locks THEN ps[g] \cup {p} ELSE ps[g]]
      /\ endRx' = evs \cup {[gw |-> g, pkt |-> p, left |-> d] : g \in locks}
      /\ occupied' = [g \in Gateways |-> occupied[g] + (IF g \in locks THEN 1 ELSE 0)]
      /\ fates' = Traced(Traced(fs, gs \ locks, p), weak, p)

(* The paths, EndReceive events and traces after StartReceive, at the      *)
(* gateways gs, of a packet p that lasts d.  The gateways of "strong" get  *)
(* it above the sensitivity.  A gateway that locks no path on p traces     *)
(* why: it transmits, no path is free, or p is too weak.  ps, evs and fs   *)
(* are the paths, events and traces before.                                *)
StartReceive(p, d, gs, strong, ps, evs, fs) ==
  LET locks == {g \in gs \cap strong : CanLock(g, ps)}
  IN  /\ paths' = [g \in Gateways |-> IF g \in locks THEN ps[g] \cup {p} ELSE ps[g]]
      /\ endRx' = evs \cup {[gw |-> g, pkt |-> p, left |-> d] : g \in locks}
      /\ occupied' = [g \in Gateways |-> occupied[g] + (IF g \in locks THEN 1 ELSE 0)]
      /\ fates' = Traced(fs, gs \ locks, p)

(* An uplink reaches the gateways.                                         *)
UplinkArrives(p, d, strong) ==
  /\ p \in Uplinks \ sent
  /\ sent' = sent \cup {p}
  /\ StartReceive(p, d, Gateways, strong, paths, endRx, fates)
  /\ UNCHANGED <<isTx, txEnds, bandLeft, toServer, toGateway, lost>>

(* Mutant: the path is not freed. *)
FreeForgotten(e) ==
  UNCHANGED <<paths, occupied>>

(* The end of EndReceive: the path locked on the packet is freed.          *)
FreePath(e) ==
  /\ paths' = [paths EXCEPT ![e.gw] = @ \ {e.pkt}]
  /\ occupied' = [occupied EXCEPT ![e.gw] = IF e.pkt \in paths[e.gw] THEN @ - 1 ELSE @]

(* EndReceive.  A packet that survives is given to the MAC, which hands    *)
(* uplinks to the forwarder, and that one to the link to the server.       *)
EndReceive(e) ==
  /\ e.left = 0
  /\ endRx' = endRx \ {e}
  /\ fates' = Traced(fates, {e.gw}, e.pkt)
  /\ FreePath(e)
  /\ \/ toServer' = toServer
     \/ /\ e.pkt \in Uplinks
        /\ toServer' = toServer \cup {[gw |-> e.gw, pkt |-> e.pkt, left |-> LinkDelay]}
  /\ UNCHANGED <<isTx, txEnds, bandLeft, toGateway, sent, lost>>

-----------------------------------------------------------------------------
(* The server hands a downlink to the link of a gateway.                   *)
Downlink(g, p, b) ==
  /\ toGateway' = toGateway \cup {[gw |-> g, pkt |-> p, band |-> b, left |-> LinkDelay]}
  /\ sent' = sent \cup {p}

(* Mutant: the events that end the interrupted receptions stay.            *)
NotCancelled(g) == endRx

Refused(m) == bandLeft[m.gw][m.band] > 0

(* The events that Send of the radio leaves scheduled.                     *)
Uncancelled(g) == {e \in endRx : e.gw # g}

(* GatewayLorawanMac::Send of a packet that comes over the link.  The      *)
(* packet is dropped if the duty cycle does not allow it.                  *)
DropDownlink(m) ==
  /\ Refused(m)
  /\ lost' = lost \cup {m.pkt}
  /\ UNCHANGED <<paths, endRx, occupied, isTx, txEnds, bandLeft, fates>>

(* Otherwise the radio interrupts its receptions and transmits: it frees   *)
(* the paths, but m_occupiedReceptionPaths still counts them.  The other   *)
(* gateways hear the packet.                                               *)
Transmit(m, strong) ==
  LET g == m.gw
      interrupted == [fates EXCEPT ![g] =
                        [p \in Packets |-> @[p] + (IF p \in paths[g] THEN 1 ELSE 0)]]
  IN  /\ ~ Refused(m)
      /\ StartReceive(m.pkt, DownTime, Gateways \ {g}, strong,
                      [paths EXCEPT ![g] = {}], Uncancelled(g), interrupted)
      /\ isTx' = [isTx EXCEPT ![g] = TRUE]
      /\ txEnds' = txEnds \cup {[gw |-> g, left |-> DownTime]}
      /\ bandLeft' = [bandLeft EXCEPT ![g][m.band] = BandOff[m.band]]
      /\ UNCHANGED lost

DownlinkArrives(m) ==
  /\ m.left = 0
  /\ toGateway' = toGateway \ {m}
  /\ DropDownlink(m) \/ \E strong \in SUBSET (Gateways \ {m.gw}) : Transmit(m, strong)
  /\ UNCHANGED <<toServer, sent>>

(* TxFinished clears the flag whatever else is on the air.                 *)
TxFinished(e) ==
  /\ e.left = 0
  /\ txEnds' = txEnds \ {e}
  /\ isTx' = [isTx EXCEPT ![e.gw] = FALSE]
  /\ UNCHANGED <<paths, endRx, occupied, bandLeft, toServer, toGateway, sent,
                 fates, lost>>

-----------------------------------------------------------------------------
Sooner(evs)     == {[e EXCEPT !.left = @ - 1] : e \in evs}
NothingDue(evs) == \A e \in evs : e.left > 0

OneLess(i) == IF i > 0 THEN i - 1 ELSE 0

GwTick ==
  /\ \A evs \in {endRx, txEnds, toGateway, toServer} : NothingDue(evs)
  /\ endRx' = Sooner(endRx)
  /\ txEnds' = Sooner(txEnds)
  /\ toGateway' = Sooner(toGateway)
  /\ toServer' = Sooner(toServer)
  /\ bandLeft' = [g \in Gateways |-> [b \in Bands |-> OneLess(bandLeft[g][b])]]
  /\ UNCHANGED <<paths, occupied, isTx, sent, fates, lost>>

GwHandler ==
  \/ \E e \in endRx : EndReceive(e)
  \/ \E m \in toGateway : DownlinkArrives(m)
  \/ \E e \in txEnds : TxFinished(e)

(* Without the server: it reads what comes over its links, and may send a  *)
(* downlink at any time.                                                   *)
LinkReads == /\ \E m \in toServer : m.left = 0 /\ toServer' = toServer \ {m}
             /\ UNCHANGED <<paths, endRx, occupied, isTx, txEnds, bandLeft,
                            toGateway, sent, fates, lost>>

ServerSends ==
  /\ \E g \in Gateways, p \in (Packets \ Uplinks) \ sent, b \in Bands : Downlink(g, p, b)
  /\ UNCHANGED <<paths, endRx, occupied, isTx, txEnds, bandLeft, toServer,
                 fates, lost>>

Arrival ==
  \E p \in Uplinks, d \in UpTimes, strong \in SUBSET Gateways : UplinkArrives(p, d, strong)

GwScheduler == GwHandler \/ LinkReads \/ GwTick
GwNext == GwScheduler \/ ServerSends \/ Arrival

GwSpec == GwInit /\ [][GwNext]_gwVars
-----------------------------------------------------------------------------
(* Types of the variables.                                                 *)
GwTypeOK ==
  /\ paths \in [Gateways -> SUBSET Packets]
  /\ endRx \subseteq [gw : Gateways, pkt : Packets, left : Nat]
  /\ occupied \in [Gateways -> Nat]
  /\ isTx \in [Gateways -> BOOLEAN]
  /\ txEnds \subseteq [gw : Gateways, left : Nat]
  /\ bandLeft \in [Gateways -> [Bands -> Nat]]
  /\ toServer \subseteq [gw : Gateways, pkt : Uplinks, left : Nat]
  /\ toGateway \subseteq [gw : Gateways, pkt : Packets, band : Bands, left : Nat]
  /\ sent \subseteq Packets
  /\ fates \in [Gateways -> [Packets -> Nat]]
  /\ lost \subseteq Packets

(* A path is occupied exactly while the event that will free it is         *)
(* pending, and no more paths are occupied than the gateway has.           *)
PathsMatchEvents ==
  /\ \A g \in Gateways, p \in Packets :
       p \in paths[g] <=> \E e \in endRx : e.gw = g /\ e.pkt = p
  /\ \A e, f \in endRx : e.gw = f.gw /\ e.pkt = f.pkt => e = f
  /\ \A g \in Gateways : Cardinality(paths[g]) <= NumPaths

(* Every packet on the air has at most one outcome at each gateway, has it *)
(* exactly when it no longer occupies a path, and a gateway forwards only  *)
(* packets that have theirs: the packet tracker counts on it.              *)
OneFate ==
  \A g \in Gateways, p \in Packets :
    /\ fates[g][p] <= 1
    /\ p \in paths[g] => fates[g][p] = 0 /\ p \in sent
    /\ p \in Uplinks \cap sent => fates[g][p] = 1 \/ p \in paths[g]
    /\ \A m \in toServer : m.gw = g /\ m.pkt = p => fates[g][p] = 1

(* While b is closed at g: the ticks since g began to transmit there.      *)
Age(g, b) == BandOff[b] - bandLeft[g][b]

(* A gateway that transmits (e) receives only if another transmission of   *)
(* its own, in another sub-band, is over and overlapped with this one or   *)
(* ended as it began: the end of that one cleared the flag of both.        *)
HearsOnlyAfterOverlap ==
  \A g \in Gateways, e \in txEnds :
    e.gw = g /\ paths[g] # {} =>
      \E b, c \in Bands :
        /\ b # c /\ bandLeft[g][b] > 0 /\ bandLeft[g][c] > 0
        /\ Age(g, b) = DownTime - e.left
        /\ Age(g, c) \in DownTime .. Age(g, b) + DownTime

(* No packet occupies a path for ever: there are finitely many, each is on *)
(* the air once, and all paths of all gateways come to be free.            *)
ReceptionsEnd ==
  (\E g \in Gateways : paths[g] # {}) ~> (\A g \in Gateways : paths[g] = {})
=============================================================================
