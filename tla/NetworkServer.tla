---------------------------- MODULE NetworkServer ----------------------------
(***************************************************************************)
(* The network server on top of the gateways: the scheduler of the receive *)
(* windows (NetworkScheduler), what it knows of the devices and of the     *)
(* gateways (NetworkStatus, EndDeviceStatus, GatewayStatus) and the        *)
(* controller components that decide on replies (acknowledgments and       *)
(* answers to a LinkCheckReq).                                             *)
(*                                                                         *)
(* The devices are the environment.  After an uplink a device is silent    *)
(* for Gap ticks, so that its receive windows are over before it           *)
(* transmits again: what the MAC of ClassAMac does under a duty cycle that *)
(* outlasts the windows.  Uplink n of device d is the packet Up(d, n) and  *)
(* the reply to it Down(d, n).                                             *)
(***************************************************************************)
EXTENDS Gateway, Sequences

CONSTANTS
  Devices,
  MaxUplinks,    \* MaxUplinks[d]: transmissions of device d
  Requests,      \* Requests[d]: what d's uplinks may ask for: [conf, check]
  FCntSpace,     \* frame counters are 0..FCntSpace - 1: 65536 in the code
  RxDelay,       \* one second: from an uplink to window 1, from there to 2
  WindowLength,  \* a receive window of the device: 8 symbols
  Gap,           \* silence of a device after an uplink
  Powers,        \* Powers[g]: the powers gateway g may measure
  BandOf         \* BandOf[w]: the sub-band of receive window w

Windows   == {1, 2}
NotHeard  == 0
Up(d, n)   == [dir |-> "up", dev |-> d, n |-> n]
Down(d, n) == [dir |-> "down", dev |-> d, n |-> n]
UpNumbers(d) == 1 .. MaxUplinks[d]

(* Gateways are named by their addresses, whose order the maps use.        *)
ASSUME ServerAssumption ==
  /\ Gateways \subseteq Nat
  /\ MaxUplinks \in [Devices -> Nat]
  /\ Uplinks = UNION {{Up(d, n) : n \in UpNumbers(d)} : d \in Devices}
  /\ Packets = Uplinks \cup UNION {{Down(d, n) : n \in UpNumbers(d)} : d \in Devices}
  /\ Requests \in [Devices -> SUBSET [conf : BOOLEAN, check : BOOLEAN]]
  /\ FCntSpace \in Nat \ {0}
  /\ RxDelay \in Nat \ {0} /\ LinkDelay \in Nat \ {0}
  /\ WindowLength \in Nat /\ Gap \in Nat
  /\ Powers \in [Gateways -> SUBSET (Nat \ {NotHeard})]
  /\ BandOf \in [Windows -> Bands]

VARIABLES
  opp,           \* opp[d]: the pending OnReceiveWindowOpportunity, if any
  reply,         \* reply[d]: needsReply and the ACK bit of m_reply
  received,      \* received[d]: m_receivedPacketList
  uplinks,       \* uplinks[d]: what d has transmitted, in order
  since          \* since[d]: ticks since the end of d's last uplink, to Gap

serverVars == <<opp, reply, received>>
deviceVars == <<uplinks, since>>
nsVars == <<gwVars, serverVars, deviceVars>>

NoReply == [needs |-> FALSE, ack |-> FALSE]

NsInit ==
  /\ GwInit
  /\ opp = [d \in Devices |-> {}]
  /\ reply = [d \in Devices |-> NoReply]
  /\ received = [d \in Devices |-> <<>>]
  /\ uplinks = [d \in Devices |-> <<>>]
  /\ since = [d \in Devices |-> Gap]

-----------------------------------------------------------------------------
(* A device transmits: a packet of its own, or again the confirmed one it  *)
(* transmitted last.                                                       *)
LastFCnt(d) == IF uplinks[d] = <<>> THEN 0 ELSE uplinks[d][Len(uplinks[d])].fcnt

NextFCnt(d) == (LastFCnt(d) + 1) % FCntSpace

DeviceSends(d) ==
  /\ since[d] = Gap
  /\ Len(uplinks[d]) < MaxUplinks[d]
  /\ \/ \E r \in Requests[d] :
          uplinks' = [uplinks EXCEPT ![d] =
                        Append(@, [fcnt |-> NextFCnt(d), conf |-> r.conf, check |-> r.check])]
     \/ /\ uplinks[d] # <<>>
        /\ uplinks[d][Len(uplinks[d])].conf
        /\ uplinks' = [uplinks EXCEPT ![d] = Append(@, @[Len(@)])]
  /\ \E t \in UpTimes, strong \in SUBSET Gateways :
       /\ UplinkArrives(Up(d, Len(uplinks'[d])), t, strong)
       /\ since' = [since EXCEPT ![d] = - t]
  /\ UNCHANGED serverVars

-----------------------------------------------------------------------------
(* InsertReceivedPacket: a packet with a known frame counter only adds the *)
(* gateway to that packet, unless it is there already; the search starts   *)
(* from the end of the list.                                               *)
Insert(list, u, g, power) ==
  LET same == {i \in DOMAIN list : list[i].fcnt = u.fcnt}
      last == CHOOSE i \in same : \A j \in same : j <= i
  IN  IF same = {}
        THEN Append(list, [fcnt |-> u.fcnt, check |-> u.check,
                           gws |-> [h \in Gateways |-> IF h = g THEN power ELSE NotHeard]])
        ELSE [list EXCEPT ![last].gws[g] = IF @ = NotHeard THEN power ELSE @]

(* Mutant: the reply is not set up again once it was sent. *)
AskedOnce(r, u, list) ==
  IF u.conf /\ \A i \in DOMAIN list : list[i].fcnt # u.fcnt
    THEN [needs |-> TRUE, ack |-> TRUE] ELSE r

(* ConfirmedMessagesComponent.                                             *)
Asked(r, u, list) == IF u.conf THEN [needs |-> TRUE, ack |-> TRUE] ELSE r

(* The server gets an uplink from a gateway: the scheduler, the status and *)
(* the controller are told, in this order.                                 *)
ServerReceive(m) ==
  LET d == m.pkt.dev
      u == uplinks[d][m.pkt.n]
  IN  /\ m.left = 0
      /\ toServer' = toServer \ {m}
      /\ opp' = [opp EXCEPT ![d] = IF @ = {} THEN {[w |-> 1, left |-> RxDelay]} ELSE @]
      /\ \E power \in Powers[m.gw] :
           received' = [received EXCEPT ![d] = Insert(@, u, m.gw, power)]
      /\ reply' = [reply EXCEPT ![d] = Asked(@, u, received[d])]
      /\ UNCHANGED <<paths, endRx, occupied, isTx, txEnds, bandLeft, toGateway,
                     sent, fates, lost, deviceVars>>

-----------------------------------------------------------------------------
(* IsAvailableForTransmission: the booking time is never set.              *)
IsAvailable(g, b) == ~ isTx[g] /\ bandLeft[g][b] = 0

LastReceived(d) == received[d][Len(received[d])]

(* GetPowerGatewayMap: of the gateways that measured the same power only   *)
(* the one of lowest address is in the map.                                *)
PowerMap(d) ==
  LET gws == LastReceived(d).gws
  IN  {g \in Gateways : /\ gws[g] # NotHeard
                        /\ \A h \in Gateways : gws[h] = gws[g] => g <= h}

(* Mutant: only the gateway of the highest power is asked. *)
OnlyStrongest(d, w) ==
  LET gws == LastReceived(d).gws
  IN  {g \in PowerMap(d) : /\ \A h \in PowerMap(d) : gws[h] <= gws[g]
                           /\ IsAvailable(g, BandOf[w])}

(* GetBestGatewayForDevice: the best of the map that can transmit, if any. *)
BestGateway(d, w) ==
  LET gws == LastReceived(d).gws
      can == {g \in PowerMap(d) : IsAvailable(g, BandOf[w])}
  IN  {g \in can : \A h \in can : gws[h] <= gws[g]}

(* The controller components have their last word before the reply: an     *)
(* answer to a LinkCheckReq.                                               *)
NeedsReply(d) == reply[d].needs \/ LastReceived(d).check

(* Mutants: no second opportunity; a second one two seconds later; one     *)
(* that lets the ACK of a reply given up survive.                          *)
NoSecond(d, w) ==
  /\ opp' = [opp EXCEPT ![d] = {}]
  /\ UNCHANGED reply

SecondTooLate(d, w) ==
  IF w = 1
    THEN /\ opp' = [opp EXCEPT ![d] = {[w |-> 2, left |-> 2 * RxDelay]}]
         /\ UNCHANGED reply
    ELSE /\ opp' = [opp EXCEPT ![d] = {}]
         /\ reply' = [reply EXCEPT ![d] = NoReply]

KeepForNext(d, w) ==
  /\ opp' = [opp EXCEPT ![d] = IF w = 1 THEN {[w |-> 2, left |-> RxDelay]} ELSE {}]
  /\ UNCHANGED reply

(* No gateway was found: the second window is tried, then the reply is     *)
(* given up.                                                               *)
NoGateway(d, w) ==
  IF w = 1
    THEN /\ opp' = [opp EXCEPT ![d] = {[w |-> 2, left |-> RxDelay]}]
         /\ UNCHANGED reply
    ELSE /\ opp' = [opp EXCEPT ![d] = {}]
         /\ reply' = [reply EXCEPT ![d] = NoReply]

(* Mutant: the second window repeats the reply of the first. *)
SentTwice(d, w) ==
  /\ opp' = [opp EXCEPT ![d] = IF w = 1 THEN {[w |-> 2, left |-> RxDelay]} ELSE {}]
  /\ UNCHANGED reply

ReplyDone(d, w) ==
  /\ opp' = [opp EXCEPT ![d] = {}]
  /\ reply' = [reply EXCEPT ![d] = NoReply]

OnReceiveWindowOpportunity(d) ==
  \E e \in opp[d] :
    /\ e.left = 0
    /\ \/ /\ BestGateway(d, e.w) = {}
          /\ NoGateway(d, e.w)
          /\ UNCHANGED <<toGateway, sent>>
       \/ /\ BestGateway(d, e.w) # {}
          /\ ~ NeedsReply(d)
          /\ opp' = [opp EXCEPT ![d] = {}]
          /\ UNCHANGED <<reply, toGateway, sent>>
       \/ \E g \in BestGateway(d, e.w) :
            /\ NeedsReply(d)
            /\ Downlink(g, Down(d, Len(uplinks[d])), BandOf[e.w])
            /\ ReplyDone(d, e.w)
    /\ UNCHANGED <<paths, endRx, occupied, isTx, txEnds, bandLeft, toServer,
                   fates, lost, received, deviceVars>>

-----------------------------------------------------------------------------
NsTick ==
  /\ GwTick
  /\ \A d \in Devices : NothingDue(opp[d])
  /\ opp' = [d \in Devices |-> Sooner(opp[d])]
  /\ since' = [d \in Devices |-> IF since[d] < Gap THEN since[d] + 1 ELSE Gap]
  /\ UNCHANGED <<reply, received, uplinks>>

NsScheduler ==
  \/ GwHandler /\ UNCHANGED <<serverVars, deviceVars>>
  \/ \E m \in toServer : ServerReceive(m)
  \/ \E d \in Devices : OnReceiveWindowOpportunity(d)
  \/ NsTick

NsNext == NsScheduler \/ \E d \in Devices : DeviceSends(d)

NsSpec     == NsInit /\ [][NsNext]_nsVars
NsFairSpec == NsSpec /\ WF_nsVars(NsScheduler)
-----------------------------------------------------------------------------
(* Types of the variables of the server and of the devices.                *)
FCnts == {i \in Nat : i < FCntSpace}
NsTypeOK ==
  /\ opp \in [Devices -> SUBSET [w : Windows, left : Nat]]
  /\ reply \in [Devices -> [needs : BOOLEAN, ack : BOOLEAN]]
  /\ received \in [Devices -> Seq([fcnt : FCnts, check : BOOLEAN,
                                   gws : [Gateways -> Nat]])]
  /\ uplinks \in [Devices -> Seq([fcnt : FCnts, conf : BOOLEAN, check : BOOLEAN])]
  /\ since \in [Devices -> Int]

(* A reply that is due will be looked at: an opportunity is scheduled, for *)
(* a device something was received from.  There is never more than one.    *)
ReplyHasOpportunity ==
  \A d \in Devices :
    /\ reply[d].needs => opp[d] # {}
    /\ opp[d] # {} => received[d] # <<>>
    /\ Cardinality(opp[d]) <= 1
    /\ reply[d].ack = reply[d].needs

(* The step hands a gateway a downlink for d.                              *)
Replies(d) ==
  \E m \in toGateway' \ toGateway : m.left = LinkDelay /\ m.pkt.dev = d

(* When a gateway begins to transmit a reply, or drops it, a receive       *)
(* window of the device is open, the reply comes in the sub-band of that   *)
(* window, and it answers the last uplink of the device: two link delays   *)
(* and the delays of both opportunities fit into the window.               *)
RepliesInWindow ==
  \A m \in toGateway : m.left = 0 =>
    LET d == m.pkt.dev
    IN  /\ m.pkt = Down(d, Len(uplinks[d]))
        /\ \E w \in Windows :
             /\ m.band = BandOf[w]
             /\ since[d] >= w * RxDelay
             /\ since[d] < w * RxDelay + WindowLength

(* A reply acknowledges the last uplink of the device exactly if that one  *)
(* is confirmed, and carries its frame counter.                            *)
AckIsForTheLastUplink ==
  [][\A d \in Devices : Replies(d) =>
       LET u == uplinks[d][Len(uplinks[d])]
       IN  reply[d].ack = u.conf /\ LastReceived(d).fcnt = u.fcnt]_nsVars

(* An uplink is answered at most once, however many gateways forward it.   *)
OneReplyPerUplink ==
  [][\A d \in Devices : Replies(d) => Down(d, Len(uplinks[d])) \notin sent]_nsVars

(* Every reply is sent or given up.                                        *)
RepliesEnd == \A d \in Devices : reply[d].needs ~> ~ reply[d].needs

(* The second window is used only when no gateway that received the packet *)
(* could have transmitted in the first: none, that is, for which no other  *)
(* of lower address and the same power stands in the server's map.  That   *)
(* one could not, and the server does not ask further.                     *)
FirstWindowIfPossible ==
  [][\A d \in Devices :
       (\E e \in opp[d] : e.w = 1 /\ e.left = 0) /\ (\E e \in opp'[d] : e.w = 2)
         => LET gws == LastReceived(d).gws
            IN  \A g \in Gateways : gws[g] # NotHeard =>
                  \E h \in Gateways : /\ h <= g /\ gws[h] = gws[g]
                                      /\ ~ IsAvailable(h, BandOf[1])]_nsVars
=============================================================================
