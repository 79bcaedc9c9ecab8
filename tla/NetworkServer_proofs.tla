------------------------- MODULE NetworkServer_proofs -------------------------
(***************************************************************************)
(* The network server, proved for any devices, gateways, delays, sub-bands *)
(* and powers: a reply has its opportunity, leaves in a window of the      *)
(* device, acknowledges its last uplink and is the only one to it.         *)
(***************************************************************************)
EXTENDS NetworkServer, Gateway_proofs, SequenceTheorems

(* A device is silent until both its windows are over.                     *)
SilentLongEnough == LinkDelay + 2 * RxDelay < Gap

(* A device makes no more transmissions than there are frame counters.     *)
NoWrap == \A d \in Devices : MaxUplinks[d] <= FCntSpace

(* A reply that comes two link delays after a window opened finds it open, *)
(* and the device is silent until its windows are over.                    *)
WindowsFit ==
  /\ 2 * LinkDelay < WindowLength
  /\ 2 * RxDelay + WindowLength <= Gap

(* Everything that is on its way from device d to its opportunity belongs  *)
(* to d's last uplink, and was set off by the end of that uplink.          *)
OnItsWay(d) ==
  /\ \A e \in endRx : e.pkt \in Uplinks /\ e.pkt.dev = d =>
       e.pkt.n = Len(uplinks[d]) /\ e.left + since[d] = 0
  /\ \A m \in toServer : m.pkt.dev = d =>
       m.pkt.n = Len(uplinks[d]) /\ m.left + since[d] = LinkDelay
  /\ \A e \in opp[d] : e.left <= RxDelay /\ e.left + since[d] = LinkDelay + e.w * RxDelay
  /\ \A e, f \in opp[d] : e = f

(* While d has an opportunity, the reply acknowledges the last uplink if   *)
(* that one asks for it; otherwise there is none.                          *)
ReplyFits(d) ==
  /\ reply[d].ack = reply[d].needs
  /\ IF opp[d] = {} THEN ~ reply[d].needs
                    ELSE /\ uplinks[d] # <<>> /\ received[d] # <<>>
                         /\ reply[d].needs = uplinks[d][Len(uplinks[d])].conf

(* A reply was sent for an uplink of d, and for the last one only after it *)
(* was received everywhere.                                                *)
Answered(d) ==
  \A n \in UpNumbers(d) : Down(d, n) \in sent =>
    /\ n <= Len(uplinks[d])
    /\ n = Len(uplinks[d]) => opp[d] = {} /\ since[d] > LinkDelay

OnTheLinks == \A m \in toGateway : m.left <= LinkDelay

DeviceInv(d) ==
  /\ since[d] <= Gap /\ Len(uplinks[d]) <= MaxUplinks[d]
  /\ OnItsWay(d) /\ ReplyFits(d) /\ Answered(d)

NsInv == NsTypeOK /\ OnTheLinks /\ \A d \in Devices : DeviceInv(d)

(* The place of a frame counter in the order they are used in.             *)
Place(f) == IF f = 0 THEN FCntSpace ELSE f

(* The packets the server knows of d are in the order of their counters,   *)
(* of which the device has used no later one.                              *)
FCntsInOrder ==
  \A d \in Devices :
    /\ uplinks[d] # <<>> => Place(LastFCnt(d)) <= Len(uplinks[d])
    /\ received[d] # <<>> => uplinks[d] # <<>>
    /\ \A i \in DOMAIN received[d] : Place(received[d][i].fcnt) <= Place(LastFCnt(d))
    /\ \A i, j \in DOMAIN received[d] :
         i < j => Place(received[d][i].fcnt) < Place(received[d][j].fcnt)
    /\ opp[d] # {} => LastReceived(d).fcnt = LastFCnt(d)

-----------------------------------------------------------------------------
(* The constants, and the lists of packets.                                *)

Entries == [fcnt : FCnts, check : BOOLEAN, gws : [Gateways -> Nat]]
Sent    == [fcnt : FCnts, conf : BOOLEAN, check : BOOLEAN]

LEMMA Delays ==
  /\ LinkDelay \in Nat /\ RxDelay \in Nat /\ Gap \in Nat
  /\ LinkDelay > 0 /\ RxDelay > 0
  /\ UpTimes \subseteq Nat /\ 0 \notin UpTimes
BY ServerAssumption, GatewayAssumption

(* Uplinks and replies are told apart, and name their device and number.   *)
LEMMA PacketShapes ==
  /\ \A u \in Uplinks : /\ u.dev \in Devices /\ u.n \in UpNumbers(u.dev)
                        /\ u = Up(u.dev, u.n)
  /\ \A d \in Devices : \A n \in UpNumbers(d) :
       /\ Up(d, n) \in Uplinks /\ Up(d, n).dev = d /\ Up(d, n).n = n
       /\ Down(d, n) \in Packets \ Uplinks /\ Down(d, n).dev = d
  /\ \A d \in Devices : \A n : n \in UpNumbers(d) <=> n \in Nat /\ 1 <= n /\ n <= MaxUplinks[d]
<1>1. \A u \in Uplinks : \E d \in Devices : \E n \in UpNumbers(d) : u = Up(d, n)
  BY ServerAssumption
<1>2. \A d, n : Up(d, n).dev = d /\ Up(d, n).n = n /\ Up(d, n).dir = "up"
                /\ Down(d, n).dev = d /\ Down(d, n).n = n /\ Down(d, n).dir = "down"
  BY DEF Up, Down
<1>3. \A u \in Uplinks : /\ u.dev \in Devices /\ u.n \in UpNumbers(u.dev)
                         /\ u = Up(u.dev, u.n) /\ u.dir = "up"
  BY <1>1, <1>2
<1>4. ASSUME NEW d \in Devices, NEW n \in UpNumbers(d)
      PROVE  Up(d, n) \in Uplinks /\ Down(d, n) \in Packets \ Uplinks
  <2>1. Up(d, n) \in Uplinks /\ Down(d, n) \in Packets
    BY ServerAssumption
  <2> QED BY <2>1, <1>2, <1>3
<1>5. ASSUME NEW d \in Devices, NEW n
      PROVE  n \in UpNumbers(d) <=> n \in Nat /\ 1 <= n /\ n <= MaxUplinks[d]
  BY ServerAssumption DEF UpNumbers
<1> QED BY <1>2, <1>3, <1>4, <1>5

LEMMA DownIsInjective ==
  \A c, d, m, n : Down(c, m) = Down(d, n) => c = d /\ m = n
<1>1. \A d, n : Down(d, n).dev = d /\ Down(d, n).n = n
  BY DEF Down
<1> QED BY <1>1

(* InsertReceivedPacket returns a list of packets that is not empty.       *)
LEMMA InsertType ==
  ASSUME NEW list \in Seq(Entries), NEW u \in Sent, NEW g \in Gateways, NEW power \in Nat
  PROVE  Insert(list, u, g, power) \in Seq(Entries) \ {<<>>}
<1> DEFINE same == {i \in DOMAIN list : list[i].fcnt = u.fcnt}
           last == CHOOSE i \in same : \A j \in same : j <= i
           entry == [fcnt |-> u.fcnt, check |-> u.check,
                     gws |-> [h \in Gateways |-> IF h = g THEN power ELSE NotHeard]]
           changed == [list[last] EXCEPT !.gws[g] = IF @ = NotHeard THEN power ELSE @]
<1>1. CASE same = {}
  <2>1. entry \in Entries
    BY DEF Entries, Sent, NotHeard
  <2>2. Insert(list, u, g, power) = Append(list, entry)
    BY <1>1 DEF Insert
  <2> HIDE DEF entry
  <2>3. Append(list, entry) \in Seq(Entries) /\ Append(list, entry) # <<>>
    BY <2>1, AppendProperties
  <2> QED BY <2>2, <2>3
<1>2. CASE same # {}
  <2>1. Insert(list, u, g, power) = [list EXCEPT ![last] = changed]
    BY <1>2 DEF Insert
  <2>2. list # <<>> /\ list \in [1 .. Len(list) -> Entries] /\ Len(list) \in Nat
    BY <1>2, LenProperties
  <2> HIDE DEF same
  <2>3. CASE last \in 1 .. Len(list)
    <3>1. list[last] \in Entries
      BY <2>3, ElementOfSeq
    <3>2. changed \in Entries
      BY <3>1 DEF Entries, NotHeard
    <3> HIDE DEF last, changed
    <3>3. [list EXCEPT ![last] = changed] \in Seq(Entries)
      BY <2>3, <3>2, ExceptSeq
    <3>4. Len([list EXCEPT ![last] = changed]) = Len(list) /\ Len(list) # 0
      BY <2>2, <2>3, <3>2, ExceptSeq, EmptySeq
    <3> QED BY <2>1, <3>3, <3>4, EmptySeq
  <2>4. CASE last \notin 1 .. Len(list)
    <3> HIDE DEF last, changed
    <3>1. [list EXCEPT ![last] = changed] = list
      BY <2>2, <2>4
    <3> QED BY <2>1, <2>2, <3>1
  <2> QED BY <2>3, <2>4
<1> QED BY <1>1, <1>2

-----------------------------------------------------------------------------
(* Steps of the gateways and the devices.                                  *)

(* What does not concern d.                                                *)
LEMMA DeviceFrame ==
  ASSUME NEW d \in Devices, DeviceInv(d),
         opp'[d] = opp[d], since'[d] = since[d], uplinks'[d] = uplinks[d],
         reply'[d] = reply[d], received[d] # <<>> => received'[d] # <<>>,
         \A e \in endRx' : e.pkt \in Uplinks /\ e.pkt.dev = d => e \in endRx,
         \A m \in toServer' : m.pkt.dev = d => m \in toServer,
         \A n \in UpNumbers(d) : Down(d, n) \in sent' => Down(d, n) \in sent
  PROVE  DeviceInv(d)'
<1>1. OnItsWay(d)'
  BY DEF DeviceInv, OnItsWay
<1>2. ReplyFits(d)'
  BY DEF DeviceInv, ReplyFits
<1>3. Answered(d)'
  BY DEF DeviceInv, Answered
<1> QED BY <1>1, <1>2, <1>3 DEF DeviceInv

(* Only receptions that end put packets on the links to the server: those  *)
(* of uplinks that have just ended.                                        *)
LEMMA EndReceiveDevice ==
  ASSUME GwInv, NsInv, NEW e \in endRx, EndReceive(e),
         UNCHANGED <<serverVars, deviceVars>>, NEW d \in Devices
  PROVE  DeviceInv(d)'
<1> DEFINE m == [gw |-> e.gw, pkt |-> e.pkt, left |-> LinkDelay]
<1>1. /\ e.left = 0 /\ endRx' = endRx \ {e} /\ sent' = sent
      /\ \/ toServer' = toServer
         \/ e.pkt \in Uplinks /\ toServer' = toServer \cup {m}
      /\ m.pkt = e.pkt /\ m.left = LinkDelay
  BY DEF EndReceive
<1>2. UNCHANGED <<opp, reply, received, uplinks, since>>
  BY DEF serverVars, deviceVars
<1> HIDE DEF m
<1>3. DeviceInv(d)
  BY DEF NsInv
<1>4. OnItsWay(d)'
  <2>1. ASSUME m.pkt.dev = d, e.pkt \in Uplinks
        PROVE  m.pkt.n = Len(uplinks[d]) /\ m.left + since[d] = LinkDelay
    <3>1. e.pkt.n = Len(uplinks[d]) /\ e.left + since[d] = 0
      BY <1>1, <1>3, <2>1 DEF DeviceInv, OnItsWay
    <3>2. since[d] \in Int
      BY DEF NsInv, NsTypeOK
    <3> QED BY <1>1, <3>1, <3>2, Delays
  <2> QED BY <1>1, <1>2, <1>3, <2>1 DEF DeviceInv, OnItsWay
<1>5. ReplyFits(d)'
  BY <1>2, <1>3 DEF DeviceInv, ReplyFits
<1>6. Answered(d)'
  BY <1>1, <1>2, <1>3 DEF DeviceInv, Answered
<1> QED BY <1>2, <1>3, <1>4, <1>5, <1>6 DEF DeviceInv

(* A gateway transmits: what the others receive is not an uplink.          *)
LEMMA DownlinkDevice ==
  ASSUME GwInv, NsInv, NEW m \in toGateway, DownlinkArrives(m),
         UNCHANGED <<serverVars, deviceVars>>, NEW d \in Devices
  PROVE  DeviceInv(d)'
<1>1. m.pkt \notin Uplinks
  BY DEF GwInv, OneCopy
<1>2. UNCHANGED <<opp, reply, received, uplinks, since, toServer, sent>>
  BY DEF serverVars, deviceVars, DownlinkArrives
<1>3. \A e \in endRx' : e.pkt \in Uplinks => e \in endRx
  <2>1. CASE DropDownlink(m)
    BY <2>1 DEF DropDownlink
  <2>2. ASSUME NEW strong, Transmit(m, strong)
        PROVE  \A e \in endRx' : e.pkt = m.pkt \/ e \in endRx
    <3>1. endRx' = Uncancelled(m.gw) \cup
                     {[gw |-> g, pkt |-> m.pkt, left |-> DownTime] :
                        g \in {h \in (Gateways \ {m.gw}) \cap strong :
                                 CanLock(h, [paths EXCEPT ![m.gw] = {}])}}
      BY <2>2 DEF Transmit, StartReceive
    <3> QED BY <3>1 DEF Uncancelled
  <2> QED BY <1>1, <2>1, <2>2 DEF DownlinkArrives
<1> QED BY <1>2, <1>3, DeviceFrame DEF NsInv

LEMMA GwHandlerDevice ==
  ASSUME GwInv, NsInv, GwHandler, UNCHANGED <<serverVars, deviceVars>>,
         NEW d \in Devices
  PROVE  DeviceInv(d)'
<1>1. ASSUME NEW e \in txEnds, TxFinished(e) PROVE DeviceInv(d)'
  <2>1. UNCHANGED <<opp, reply, received, uplinks, since, endRx, toServer, sent>>
    BY <1>1 DEF serverVars, deviceVars, TxFinished
  <2> QED BY <2>1, DeviceFrame DEF NsInv
<1> QED BY <1>1, EndReceiveDevice, DownlinkDevice DEF GwHandler

(* When a device transmits nothing of its last uplink is on its way.       *)
LEMMA SilenceIsOver ==
  ASSUME SilentLongEnough, GwInv, NsInv, NEW d \in Devices, since[d] = Gap
  PROVE  /\ \A e \in endRx : e.pkt \in Uplinks => e.pkt.dev # d
         /\ \A m \in toServer : m.pkt.dev # d
         /\ opp[d] = {}
<1>1. OnItsWay(d)
  BY DEF NsInv, DeviceInv
<1>2. /\ \A e \in endRx : e.left \in Nat
      /\ \A m \in toServer : m.left \in Nat
  BY DEF GwInv, GwTypeOK
<1>3. \A e \in opp[d] : e.left \in Nat /\ (e.w = 1 \/ e.w = 2)
  BY DEF NsInv, NsTypeOK, Windows
<1>4. ASSUME NEW e \in endRx, e.pkt \in Uplinks, e.pkt.dev = d PROVE FALSE
  <2>1. e.left + Gap = 0
    BY <1>1, <1>4 DEF OnItsWay
  <2> QED BY <1>2, <2>1, Delays DEF SilentLongEnough
<1>5. ASSUME NEW m \in toServer, m.pkt.dev = d PROVE FALSE
  <2>1. m.left + Gap = LinkDelay
    BY <1>1, <1>5 DEF OnItsWay
  <2> QED BY <1>2, <2>1, Delays DEF SilentLongEnough
<1>6. ASSUME NEW e \in opp[d] PROVE FALSE
  <2>1. e.left + Gap = LinkDelay + e.w * RxDelay
    BY <1>1, <1>6 DEF OnItsWay
  <2>2. e.w * RxDelay = RxDelay \/ e.w * RxDelay = 2 * RxDelay
    BY <1>3, Delays
  <2> QED BY <1>3, <2>1, <2>2, Delays DEF SilentLongEnough
<1> QED BY <1>4, <1>5, <1>6

(* What a transmission appends.                                            *)
LEMMA DeviceSendsEffect ==
  ASSUME NsInv, NEW d \in Devices, DeviceSends(d)
  PROVE  \E u \in Sent, t \in UpTimes, strong \in SUBSET Gateways :
           /\ uplinks' = [uplinks EXCEPT ![d] = Append(@, u)]
           /\ \/ u.fcnt = NextFCnt(d)
              \/ uplinks[d] # <<>> /\ u.fcnt = LastFCnt(d)
           /\ uplinks'[d] \in Seq(Sent) /\ uplinks'[d] # <<>>
           /\ Len(uplinks'[d]) = Len(uplinks[d]) + 1
           /\ uplinks'[d][Len(uplinks'[d])] = u
           /\ Len(uplinks[d]) \in Nat /\ Len(uplinks'[d]) \in UpNumbers(d)
           /\ UplinkArrives(Up(d, Len(uplinks'[d])), t, strong)
           /\ since' = [since EXCEPT ![d] = - t]
           /\ UNCHANGED serverVars
<1>1. uplinks \in [Devices -> Seq(Sent)] /\ uplinks[d] \in Seq(Sent)
  BY DEF NsInv, NsTypeOK, Sent
<1>2. \E u \in Sent : /\ uplinks' = [uplinks EXCEPT ![d] = Append(@, u)]
                      /\ \/ u.fcnt = NextFCnt(d)
                         \/ uplinks[d] # <<>> /\ u.fcnt = LastFCnt(d)
  <2>1. ASSUME NEW r \in Requests[d]
        PROVE  [fcnt |-> NextFCnt(d), conf |-> r.conf, check |-> r.check] \in Sent
    <3>1. r.conf \in BOOLEAN /\ r.check \in BOOLEAN
      BY <2>1, ServerAssumption
    <3>2. LastFCnt(d) \in Nat
      <4>1. uplinks[d] = <<>> \/ Len(uplinks[d]) \in 1 .. Len(uplinks[d])
        BY <1>1, EmptySeq, LenProperties
      <4>2. uplinks[d] = <<>> \/ uplinks[d][Len(uplinks[d])] \in Sent
        BY <1>1, <4>1, ElementOfSeq
      <4> QED BY <4>2 DEF LastFCnt, Sent, FCnts
    <3>3. NextFCnt(d) \in FCnts
      BY <3>2, ServerAssumption DEF NextFCnt, FCnts
    <3> QED BY <3>1, <3>3 DEF Sent
  <2>2. CASE \E r \in Requests[d] :
               uplinks' = [uplinks EXCEPT ![d] =
                        Append(@, [fcnt |-> NextFCnt(d), conf |-> r.conf, check |-> r.check])]
    BY <2>1, <2>2
  <2>3. CASE /\ uplinks[d] # <<>>
             /\ uplinks' = [uplinks EXCEPT ![d] = Append(@, @[Len(@)])]
    <3>1. uplinks[d][Len(uplinks[d])] \in Sent
      BY <1>1, <2>3, EmptySeq, ElementOfSeq
    <3>2. uplinks' = [uplinks EXCEPT ![d] = Append(@, uplinks[d][Len(uplinks[d])])]
      BY <2>3
    <3> QED BY <2>3, <3>1, <3>2 DEF LastFCnt
  <2> QED BY <2>2, <2>3 DEF DeviceSends
<1>3. PICK u \in Sent : /\ uplinks' = [uplinks EXCEPT ![d] = Append(@, u)]
                        /\ \/ u.fcnt = NextFCnt(d)
                           \/ uplinks[d] # <<>> /\ u.fcnt = LastFCnt(d)
  BY <1>2
<1>4. uplinks'[d] = Append(uplinks[d], u)
  BY <1>1, <1>3
<1>5. /\ uplinks'[d] \in Seq(Sent) /\ uplinks'[d] # <<>>
      /\ Len(uplinks'[d]) = Len(uplinks[d]) + 1
      /\ uplinks'[d][Len(uplinks'[d])] = u
  BY <1>1, <1>4, AppendProperties
<1>6. Len(uplinks[d]) \in Nat
  BY <1>1, LenProperties
<1>7. Len(uplinks'[d]) \in UpNumbers(d)
  BY <1>5, <1>6, ServerAssumption DEF DeviceSends, UpNumbers
<1> QED BY <1>3, <1>5, <1>6, <1>7 DEF DeviceSends

(* A device transmits, and its new uplink is the last.                     *)
LEMMA DeviceSendsDevice ==
  ASSUME SilentLongEnough, GwInv, NsInv, NEW d \in Devices, DeviceSends(d),
         NEW x \in Devices
  PROVE  DeviceInv(x)'
<1>1. PICK u \in Sent, t \in UpTimes, strong \in SUBSET Gateways :
        /\ uplinks' = [uplinks EXCEPT ![d] = Append(@, u)]
        /\ uplinks'[d] # <<>>
        /\ Len(uplinks'[d]) = Len(uplinks[d]) + 1
        /\ Len(uplinks[d]) \in Nat /\ Len(uplinks'[d]) \in UpNumbers(d)
        /\ UplinkArrives(Up(d, Len(uplinks'[d])), t, strong)
        /\ since' = [since EXCEPT ![d] = - t]
        /\ UNCHANGED serverVars
  BY DeviceSendsEffect
<1> DEFINE p == Up(d, Len(uplinks'[d]))
<1>2. p \in Uplinks /\ p.dev = d /\ p.n = Len(uplinks'[d])
  BY <1>1, PacketShapes
<1>3. /\ sent' = sent \cup {p} /\ toServer' = toServer
      /\ \A e \in endRx' : e \in endRx \/ (e.pkt = p /\ e.left = t)
  BY <1>1 DEF UplinkArrives, StartReceive
<1>4. UNCHANGED <<opp, reply, received>>
  BY <1>1 DEF serverVars
<1>5. /\ since'[d] = - t /\ \A y \in Devices : y # d => since'[y] = since[y]
      /\ \A y \in Devices : y # d => uplinks'[y] = uplinks[y]
  BY <1>1 DEF NsInv, NsTypeOK
<1> HIDE DEF p
<1>6. \A n \in UpNumbers(x) : Down(x, n) \in sent' => Down(x, n) \in sent
  BY <1>2, <1>3, PacketShapes
<1>7. CASE x # d
  BY <1>2, <1>3, <1>4, <1>5, <1>6, <1>7, DeviceFrame DEF NsInv
<1>8. CASE x = d
  <2>1. /\ \A e \in endRx : e.pkt \in Uplinks => e.pkt.dev # d
        /\ \A m \in toServer : m.pkt.dev # d
        /\ opp[d] = {}
    BY SilenceIsOver DEF DeviceSends
  <2>2. OnItsWay(d)'
    <3>1. t \in Nat /\ t + (- t) = 0
      BY <1>1, Delays
    <3> QED BY <1>2, <1>3, <1>4, <1>5, <2>1, <3>1 DEF OnItsWay
  <2>3. ReplyFits(d)'
    BY <1>4, <2>1 DEF NsInv, DeviceInv, ReplyFits
  <2>4. Answered(d)'
    <3>1. \A n \in UpNumbers(d) : Down(d, n) \in sent' =>
            n <= Len(uplinks[d]) /\ n \in Nat
      BY <1>6, <1>8, PacketShapes DEF NsInv, DeviceInv, Answered
    <3> QED BY <1>1, <3>1 DEF Answered
  <2>5. since'[d] <= Gap
    BY <1>1, <1>5, Delays
  <2>6. Len(uplinks'[d]) <= MaxUplinks[d]
    BY <1>1, PacketShapes
  <2> QED BY <1>8, <2>2, <2>3, <2>4, <2>5, <2>6 DEF DeviceInv
<1> QED BY <1>7, <1>8

-----------------------------------------------------------------------------
(* Steps of the server.                                                    *)

(* What is received from the links is the last uplink, a link delay after  *)
(* its end.                                                                *)
LEMMA ReceivedIsLast ==
  ASSUME GwInv, NsInv, NEW m \in toServer, m.left = 0
  PROVE  /\ m.gw \in Gateways /\ m.pkt \in Uplinks /\ m.pkt.dev \in Devices
         /\ m.pkt.n = Len(uplinks[m.pkt.dev])
         /\ since[m.pkt.dev] = LinkDelay
         /\ uplinks[m.pkt.dev] # <<>>
         /\ uplinks[m.pkt.dev][m.pkt.n] \in Sent
         /\ m.pkt.n \in UpNumbers(m.pkt.dev)
<1> DEFINE d == m.pkt.dev
<1>1. m.gw \in Gateways /\ m.pkt \in Uplinks
  BY DEF GwInv, GwTypeOK
<1>2. d \in Devices /\ m.pkt.n \in UpNumbers(d) /\ m.pkt.n \in Nat /\ 1 <= m.pkt.n
  BY <1>1, PacketShapes
<1>3. OnItsWay(d)
  BY <1>2 DEF NsInv, DeviceInv
<1>4. m.pkt.n = Len(uplinks[d]) /\ m.left + since[d] = LinkDelay
  BY <1>3 DEF OnItsWay
<1>5. since[d] \in Int /\ uplinks[d] \in Seq(Sent)
  BY <1>2 DEF NsInv, NsTypeOK, Sent
<1>6. since[d] = LinkDelay
  BY <1>4, <1>5, Delays
<1>7. uplinks[d] # <<>>
  BY <1>2, <1>4, <1>5, EmptySeq
<1>8. m.pkt.n \in 1 .. Len(uplinks[d])
  BY <1>2, <1>4
<1>9. uplinks[d][m.pkt.n] \in Sent
  BY <1>5, <1>8, ElementOfSeq
<1> QED BY <1>1, <1>2, <1>4, <1>6, <1>7, <1>9

LEMMA ServerReceiveEffect ==
  ASSUME GwInv, NsInv, NEW m \in toServer, ServerReceive(m)
  PROVE  LET d == m.pkt.dev
             u == uplinks[d][Len(uplinks[d])]
         IN  \E power \in Powers[m.gw] :
               /\ power \in Nat /\ power # NotHeard
               /\ received' = [received EXCEPT ![d] = Insert(@, u, m.gw, power)]
               /\ received'[d] = Insert(received[d], u, m.gw, power)
               /\ received'[d] \in Seq(Entries) /\ received'[d] # <<>>
<1> DEFINE d == m.pkt.dev
           u == uplinks[d][Len(uplinks[d])]
<1>1. /\ m.gw \in Gateways /\ d \in Devices /\ u \in Sent
      /\ m.pkt.n = Len(uplinks[d])
  BY ReceivedIsLast DEF ServerReceive
<1> HIDE DEF u
<1>2. PICK power \in Powers[m.gw] :
        received' = [received EXCEPT ![d] = Insert(@, u, m.gw, power)]
  BY <1>1 DEF ServerReceive, u
<1>3. power \in Nat /\ power # NotHeard
  BY <1>1, ServerAssumption
<1>4. received \in [Devices -> Seq(Entries)]
  BY DEF NsInv, NsTypeOK, Entries
<1>5. received'[d] = Insert(received[d], u, m.gw, power)
  BY <1>1, <1>2, <1>4
<1>6. Insert(received[d], u, m.gw, power) \in Seq(Entries) \ {<<>>}
  BY <1>1, <1>3, <1>4, InsertType
<1> QED BY <1>2, <1>3, <1>5, <1>6 DEF u

LEMMA ServerReceiveDevice ==
  ASSUME GwInv, NsInv, NEW m \in toServer, ServerReceive(m), NEW x \in Devices
  PROVE  DeviceInv(x)'
<1> DEFINE d == m.pkt.dev
           u == uplinks[d][m.pkt.n]
           first == [w |-> 1, left |-> RxDelay]
<1>1. /\ d \in Devices /\ u \in Sent /\ m.pkt.n = Len(uplinks[d])
      /\ since[d] = LinkDelay /\ uplinks[d] # <<>>
      /\ m.pkt.n \in UpNumbers(d)
  BY ReceivedIsLast DEF ServerReceive
<1>2. /\ toServer' = toServer \ {m} /\ UNCHANGED <<endRx, sent, uplinks, since>>
      /\ opp' = [opp EXCEPT ![d] = IF @ = {} THEN {first} ELSE @]
      /\ reply' = [reply EXCEPT ![d] = Asked(@, u, received[d])]
  BY DEF ServerReceive, deviceVars
<1>3. received'[d] # <<>> /\ \A y \in Devices : y # d => received'[y] = received[y]
  BY <1>1, ServerReceiveEffect DEF NsInv, NsTypeOK
<1>4. /\ opp'[d] = IF opp[d] = {} THEN {first} ELSE opp[d]
      /\ reply'[d] = Asked(reply[d], u, received[d])
      /\ \A y \in Devices : y # d => opp'[y] = opp[y] /\ reply'[y] = reply[y]
  BY <1>1, <1>2 DEF NsInv, NsTypeOK
<1>5. first.w = 1 /\ first.left = RxDelay
  OBVIOUS
<1>6. DeviceInv(x)
  BY DEF NsInv
<1> HIDE DEF first, u
<1>7. CASE x # d
  BY <1>2, <1>3, <1>4, <1>6, <1>7, DeviceFrame
<1>8. CASE x = d
  <2>1. OnItsWay(d)'
    <3>1. first.left <= RxDelay /\ first.left + since[d] = LinkDelay + first.w * RxDelay
      BY <1>1, <1>5, Delays
    <3> QED BY <1>2, <1>4, <1>6, <1>8, <3>1 DEF DeviceInv, OnItsWay
  <2>2. ReplyFits(d)'
    <3>1. uplinks'[d] = uplinks[d] /\ uplinks[d][Len(uplinks[d])] = u
      BY <1>1, <1>2 DEF u
    <3>2. opp'[d] # {}
      BY <1>4
    <3>3. u.conf \in BOOLEAN
      BY <1>1 DEF Sent
    <3>4. ReplyFits(d)
      BY <1>6, <1>8 DEF DeviceInv
    <3>5. reply'[d].ack = reply'[d].needs /\ reply'[d].needs = u.conf
      <4>1. CASE u.conf
        <5>1. reply'[d] = [needs |-> TRUE, ack |-> TRUE]
          BY <1>4, <4>1 DEF Asked
        <5> QED BY <4>1, <5>1, <3>3
      <4>2. CASE ~ u.conf
        <5>1. reply'[d] = reply[d]
          BY <1>4, <4>2 DEF Asked
        <5>2. reply[d].ack = reply[d].needs /\ reply[d].needs \in BOOLEAN
          BY <1>1, <3>4 DEF ReplyFits, NsInv, NsTypeOK
        <5>3. ~ reply[d].needs
          BY <3>1, <3>4, <4>2 DEF ReplyFits
        <5> QED BY <4>2, <5>1, <5>2, <5>3, <3>3
      <4> QED BY <4>1, <4>2
    <3> QED BY <1>1, <1>3, <3>1, <3>2, <3>5 DEF ReplyFits
  <2>3. Answered(d)'
    <3>1. Down(d, Len(uplinks[d])) \notin sent
      BY <1>1, <1>6, <1>8, Delays DEF DeviceInv, Answered
    <3> QED BY <1>2, <1>6, <1>8, <3>1 DEF DeviceInv, Answered
  <2> QED BY <1>2, <1>6, <1>8, <2>1, <2>2, <2>3 DEF DeviceInv
<1> QED BY <1>7, <1>8

(* An opportunity that is due is in one of the two windows of the device.  *)
LEMMA OpportunityDue ==
  ASSUME GwInv, NsInv, NEW d \in Devices, NEW e \in opp[d], e.left = 0
  PROVE  /\ e.w \in Windows /\ e.w \in {1, 2} /\ opp[d] = {e}
         /\ since[d] = LinkDelay + e.w * RxDelay /\ since[d] > LinkDelay
         /\ uplinks[d] # <<>> /\ received[d] # <<>>
         /\ Len(uplinks[d]) \in UpNumbers(d)
         /\ uplinks[d][Len(uplinks[d])] \in Sent
         /\ Down(d, Len(uplinks[d])) \notin sent
<1>1. OnItsWay(d) /\ ReplyFits(d) /\ Answered(d) /\ Len(uplinks[d]) <= MaxUplinks[d]
  BY DEF NsInv, DeviceInv
<1>2. e.w \in Windows /\ e.w \in {1, 2} /\ since[d] \in Int /\ uplinks[d] \in Seq(Sent)
  <2>1. opp[d] \subseteq [w : Windows, left : Nat]
    BY DEF NsInv, NsTypeOK
  <2>2. e.w \in {1, 2}
    BY <2>1 DEF Windows
  <2> QED BY <2>2 DEF NsInv, NsTypeOK, Windows, Sent
<1>3. e.left + since[d] = LinkDelay + e.w * RxDelay
  BY <1>1 DEF OnItsWay
<1>4. e.w * RxDelay \in Nat /\ e.w * RxDelay > 0
  <2>1. e.w * RxDelay = RxDelay \/ e.w * RxDelay = 2 * RxDelay
    BY <1>2, Delays
  <2> QED BY <2>1, Delays
<1>5. since[d] = LinkDelay + e.w * RxDelay /\ since[d] > LinkDelay
  BY <1>2, <1>3, <1>4, Delays
<1>6. opp[d] = {e}
  BY <1>1 DEF OnItsWay
<1>7. uplinks[d] # <<>> /\ received[d] # <<>>
  BY <1>1, <1>6 DEF ReplyFits
<1>8. Len(uplinks[d]) \in Nat /\ 1 <= Len(uplinks[d])
  BY <1>2, <1>7, LenProperties, EmptySeq
<1>9. Len(uplinks[d]) \in UpNumbers(d)
  BY <1>1, <1>8, PacketShapes
<1>10. Len(uplinks[d]) \in 1 .. Len(uplinks[d])
  BY <1>8
<1>11. uplinks[d][Len(uplinks[d])] \in Sent
  BY <1>2, <1>10, ElementOfSeq
<1>12. Down(d, Len(uplinks[d])) \notin sent
  BY <1>1, <1>6, <1>9 DEF Answered
<1> QED BY <1>2, <1>5, <1>6, <1>7, <1>9, <1>11, <1>12

(* What OnReceiveWindowOpportunity does: try again, give up or reply.      *)
LEMMA OpportunityEffect ==
  ASSUME NsInv, NEW d \in Devices, OnReceiveWindowOpportunity(d)
  PROVE  \E e \in opp[d] :
           /\ e.left = 0
           /\ UNCHANGED <<paths, endRx, occupied, isTx, txEnds, bandLeft, toServer,
                          fates, lost, received, deviceVars>>
           /\ \/ /\ e.w = 1 /\ BestGateway(d, 1) = {}
                 /\ opp' = [opp EXCEPT ![d] = {[w |-> 2, left |-> RxDelay]}]
                 /\ UNCHANGED <<reply, toGateway, sent>>
              \/ /\ opp' = [opp EXCEPT ![d] = {}]
                 /\ \/ reply' = reply /\ ~ reply[d].needs
                    \/ reply' = [reply EXCEPT ![d] = NoReply]
                 /\ UNCHANGED <<toGateway, sent>>
              \/ /\ opp' = [opp EXCEPT ![d] = {}]
                 /\ reply' = [reply EXCEPT ![d] = NoReply]
                 /\ \E g \in Gateways : Downlink(g, Down(d, Len(uplinks[d])), BandOf[e.w])
<1>1. PICK e \in opp[d] :
        /\ e.left = 0
        /\ \/ /\ BestGateway(d, e.w) = {}
              /\ NoGateway(d, e.w)
              /\ UNCHANGED <<toGateway, sent>>
           \/ /\ BestGateway(d, e.w) # {}
              /\ ~ NeedsReply(d)
              /\ opp' = [opp EXCEPT ![d] = {}]
              /\ UNCHANGED <<reply, toGateway, sent>>
           \/ \E g \in BestGateway(d, e.w) :
                /\ NeedsReply(d)
                /\ Downlink(g, Down(d, Len(uplinks[d])), BandOf[e.w])
                /\ ReplyDone(d, e.w)
        /\ UNCHANGED <<paths, endRx, occupied, isTx, txEnds, bandLeft, toServer,
                       fates, lost, received, deviceVars>>
  BY DEF OnReceiveWindowOpportunity
<1>2. BestGateway(d, e.w) \subseteq Gateways
  BY DEF BestGateway, PowerMap
<1>3. CASE BestGateway(d, e.w) = {} /\ NoGateway(d, e.w) /\ UNCHANGED <<toGateway, sent>>
  BY <1>1, <1>3 DEF NoGateway
<1>4. CASE /\ ~ NeedsReply(d) /\ opp' = [opp EXCEPT ![d] = {}]
           /\ UNCHANGED <<reply, toGateway, sent>>
  BY <1>1, <1>4 DEF NeedsReply
<1>5. CASE \E g \in BestGateway(d, e.w) :
             /\ Downlink(g, Down(d, Len(uplinks[d])), BandOf[e.w])
             /\ ReplyDone(d, e.w)
  BY <1>1, <1>2, <1>5 DEF ReplyDone
<1> QED BY <1>1, <1>3, <1>4, <1>5

LEMMA OpportunityDevice ==
  ASSUME GwInv, NsInv, NEW d \in Devices, OnReceiveWindowOpportunity(d),
         NEW x \in Devices
  PROVE  DeviceInv(x)'
<1> DEFINE second == [w |-> 2, left |-> RxDelay]
           p == Down(d, Len(uplinks[d]))
<1>1. PICK e \in opp[d] :
        /\ e.left = 0
        /\ UNCHANGED <<endRx, toServer, received, uplinks, since>>
        /\ \/ e.w = 1 /\ opp' = [opp EXCEPT ![d] = {second}] /\ UNCHANGED <<reply, sent>>
           \/ /\ opp' = [opp EXCEPT ![d] = {}]
              /\ \/ reply' = reply /\ ~ reply[d].needs
                 \/ reply' = [reply EXCEPT ![d] = NoReply]
              /\ sent' = sent \/ sent' = sent \cup {p}
  BY OpportunityEffect DEF deviceVars, Downlink
<1>2. /\ e.w \in {1, 2} /\ opp[d] = {e}
      /\ since[d] = LinkDelay + e.w * RxDelay /\ since[d] > LinkDelay
      /\ Len(uplinks[d]) \in UpNumbers(d)
  BY <1>1, OpportunityDue
<1>3. second.w = 2 /\ second.left = RxDelay
  OBVIOUS
<1>4. DeviceInv(x)
  BY DEF NsInv
<1>5. \A y \in Devices : \A n : Down(y, n) = p => y = d /\ n = Len(uplinks[d])
  BY DownIsInjective
<1>6. opp \in [Devices -> SUBSET [w : Windows, left : Nat]]
      /\ reply \in [Devices -> [needs : BOOLEAN, ack : BOOLEAN]]
  BY DEF NsInv, NsTypeOK
<1> HIDE DEF second, p
<1>7. CASE x # d
  <2>1. opp'[x] = opp[x] /\ reply'[x] = reply[x]
    BY <1>1, <1>6, <1>7
  <2>2. \A n \in UpNumbers(x) : Down(x, n) \in sent' => Down(x, n) \in sent
    BY <1>1, <1>5, <1>7
  <2> QED BY <1>1, <1>4, <2>1, <2>2, DeviceFrame
<1>8. CASE x = d
  <2>1. \/ e.w = 1 /\ opp'[d] = {second} /\ reply'[d] = reply[d] /\ sent' = sent
        \/ /\ opp'[d] = {} /\ ((reply'[d] = reply[d] /\ ~ reply[d].needs) \/ reply'[d] = NoReply)
           /\ sent' = sent \/ sent' = sent \cup {p}
    BY <1>1, <1>6
  <2>2. OnItsWay(d)'
    <3>1. e.w = 1 => /\ second.left <= RxDelay
                     /\ second.left + since[d] = LinkDelay + second.w * RxDelay
      BY <1>2, <1>3, Delays
    <3> QED BY <1>1, <1>4, <1>8, <2>1, <3>1 DEF DeviceInv, OnItsWay
  <2>3. ReplyFits(d)'
    <3>1. NoReply.needs = FALSE /\ NoReply.ack = FALSE
      BY DEF NoReply
    <3>2. reply[d].ack = reply[d].needs
      BY <1>4, <1>8 DEF DeviceInv, ReplyFits
    <3>3. CASE opp'[d] = {}
      BY <2>1, <3>1, <3>2, <3>3 DEF ReplyFits
    <3>4. CASE opp'[d] = {second} /\ reply'[d] = reply[d]
      BY <1>1, <1>2, <1>4, <1>8, <3>4 DEF DeviceInv, ReplyFits
    <3> QED BY <2>1, <3>3, <3>4
  <2>4. Answered(d)'
    <3>1. \A n \in UpNumbers(d) : Down(d, n) \in sent =>
            n <= Len(uplinks[d]) /\ n # Len(uplinks[d])
      BY <1>2, <1>4, <1>8 DEF DeviceInv, Answered
    <3>2. CASE sent' = sent
      BY <1>1, <3>1, <3>2 DEF Answered
    <3>3. CASE opp'[d] = {} /\ sent' = sent \cup {p}
      <4>1. ASSUME NEW n \in UpNumbers(d), Down(d, n) \in sent'
            PROVE  n <= Len(uplinks[d])
        <5>1. CASE Down(d, n) \in sent
          BY <3>1, <5>1
        <5>2. CASE Down(d, n) = p
          <6>1. n = Len(uplinks[d]) /\ n \in Nat
            BY <1>5, <5>2, PacketShapes
          <6> QED BY <6>1
        <5> QED BY <3>3, <4>1, <5>1, <5>2
      <4> QED BY <1>1, <1>2, <3>3, <4>1 DEF Answered
    <3> QED BY <2>1, <3>2, <3>3
  <2> QED BY <1>1, <1>4, <1>8, <2>2, <2>3, <2>4 DEF DeviceInv
<1> QED BY <1>7, <1>8

(* Time brings everything pending of a device closer to its opportunity,   *)
(* and as far away from the end of its uplink.                             *)
LEMMA NsTickDevice ==
  ASSUME SilentLongEnough, GwInv, NsInv, NsTick, NEW d \in Devices
  PROVE  DeviceInv(d)'
<1>1. /\ endRx' = Sooner(endRx) /\ toServer' = Sooner(toServer)
      /\ UNCHANGED <<sent, reply, received, uplinks>>
      /\ \A e \in endRx : e.left > 0
      /\ \A m \in toServer : m.left > 0
      /\ \A e \in opp[d] : e.left > 0
      /\ opp'[d] = Sooner(opp[d])
      /\ since'[d] = IF since[d] < Gap THEN since[d] + 1 ELSE Gap
  BY DEF NsTick, GwTick, NothingDue
<1>2. /\ \A e \in endRx : e.left \in Nat
      /\ \A m \in toServer : m.left \in Nat
  BY DEF GwInv, GwTypeOK
<1>3. opp[d] \subseteq [w : Windows, left : Nat] /\ since[d] \in Int
  BY DEF NsInv, NsTypeOK
<1>4. DeviceInv(d)
  BY DEF NsInv
<1>5. /\ \A e : LET t == [e EXCEPT !.left = @ - 1]
                IN  e \in endRx => t.pkt = e.pkt /\ t.left = e.left - 1
      /\ \A m : LET t == [m EXCEPT !.left = @ - 1]
                IN  m \in toServer => t.pkt = m.pkt /\ t.left = m.left - 1
      /\ \A e : LET t == [e EXCEPT !.left = @ - 1]
                IN  e \in opp[d] => t.w = e.w /\ t.left = e.left - 1
  BY <1>3 DEF GwInv, GwTypeOK
<1>6. /\ \A t \in endRx' : \E e \in endRx : t.pkt = e.pkt /\ t.left = e.left - 1
      /\ \A t \in toServer' : \E m \in toServer : t.pkt = m.pkt /\ t.left = m.left - 1
      /\ \A t \in opp'[d] : \E e \in opp[d] :
            t = [e EXCEPT !.left = @ - 1] /\ t.w = e.w /\ t.left = e.left - 1
  <2>1. \A t \in endRx' : \E e \in endRx : t.pkt = e.pkt /\ t.left = e.left - 1
    BY ZenonT(30), <1>1, <1>5 DEF Sooner
  <2>2. \A t \in toServer' : \E m \in toServer : t.pkt = m.pkt /\ t.left = m.left - 1
    BY ZenonT(30), <1>1, <1>5 DEF Sooner
  <2>3. ASSUME NEW t \in opp'[d]
        PROVE  \E e \in opp[d] :
                 t = [e EXCEPT !.left = @ - 1] /\ t.w = e.w /\ t.left = e.left - 1
    <3>1. PICK e \in opp[d] : t = [e EXCEPT !.left = @ - 1]
      BY <1>1 DEF Sooner
    <3>2. t.w = e.w /\ t.left = e.left - 1
      BY <1>5, <3>1
    <3> QED BY <3>1, <3>2
  <2> QED BY <2>1, <2>2, <2>3
<1>7. CASE since[d] = Gap
  <2>1. /\ \A e \in endRx : e.pkt \in Uplinks => e.pkt.dev # d
        /\ \A m \in toServer : m.pkt.dev # d
        /\ opp[d] = {}
    BY <1>7, SilenceIsOver
  <2>2. since'[d] = since[d] /\ opp'[d] = opp[d]
    BY <1>1, <1>6, <1>7, <2>1, Delays
  <2>3. OnItsWay(d)'
    BY <1>6, <2>1, <2>2 DEF OnItsWay
  <2>4. ReplyFits(d)'
    BY <1>1, <1>4, <2>2 DEF DeviceInv, ReplyFits
  <2>5. Answered(d)'
    BY <1>1, <1>4, <2>2 DEF DeviceInv, Answered
  <2> QED BY <1>1, <1>4, <2>2, <2>3, <2>4, <2>5 DEF DeviceInv
<1>8. CASE since[d] # Gap
  <2>1. since[d] < Gap /\ since'[d] = since[d] + 1
    BY <1>1, <1>3, <1>4, <1>8, Delays DEF DeviceInv
  <2>2. OnItsWay(d)'
    <3>1. ASSUME NEW t \in endRx', t.pkt \in Uplinks, t.pkt.dev = d
          PROVE  t.pkt.n = Len(uplinks'[d]) /\ t.left + since'[d] = 0
      <4>1. PICK e \in endRx : t.pkt = e.pkt /\ t.left = e.left - 1
        BY <1>6
      <4>2. e.pkt.n = Len(uplinks[d]) /\ e.left + since[d] = 0 /\ e.left \in Nat
        BY <1>2, <1>4, <3>1, <4>1 DEF DeviceInv, OnItsWay
      <4>3. t.left + since'[d] = 0
        BY <1>3, <2>1, <4>1, <4>2
      <4> QED BY <1>1, <4>1, <4>2, <4>3
    <3>2. ASSUME NEW t \in toServer', t.pkt.dev = d
          PROVE  t.pkt.n = Len(uplinks'[d]) /\ t.left + since'[d] = LinkDelay
      <4>1. PICK m \in toServer : t.pkt = m.pkt /\ t.left = m.left - 1
        BY <1>6
      <4>2. m.pkt.n = Len(uplinks[d]) /\ m.left + since[d] = LinkDelay /\ m.left \in Nat
        BY <1>2, <1>4, <3>2, <4>1 DEF DeviceInv, OnItsWay
      <4>3. t.left + since'[d] = LinkDelay
        BY <1>3, <2>1, <4>1, <4>2, Delays
      <4> QED BY <1>1, <4>1, <4>2, <4>3
    <3>3. ASSUME NEW t \in opp'[d]
          PROVE  t.left <= RxDelay /\ t.left + since'[d] = LinkDelay + t.w * RxDelay
      <4>1. PICK e \in opp[d] : t.w = e.w /\ t.left = e.left - 1
        BY <1>6
      <4>2. /\ e.left <= RxDelay /\ e.left + since[d] = LinkDelay + e.w * RxDelay
            /\ e.left \in Nat
        BY <1>3, <1>4 DEF DeviceInv, OnItsWay
      <4>3. t.left + since'[d] = e.left + since[d]
        BY <1>3, <2>1, <4>1, <4>2
      <4>4. t.left <= RxDelay
        BY <4>1, <4>2, Delays
      <4> QED BY <4>1, <4>2, <4>3, <4>4
    <3>4. ASSUME NEW s \in opp'[d], NEW t \in opp'[d]
          PROVE  s = t
      <4>1. PICK e \in opp[d] : s = [e EXCEPT !.left = @ - 1]
        BY <1>6
      <4>2. PICK f \in opp[d] : t = [f EXCEPT !.left = @ - 1]
        BY <1>6
      <4>3. e = f
        BY <1>4 DEF DeviceInv, OnItsWay
      <4> QED BY <4>1, <4>2, <4>3
    <3> QED BY <3>1, <3>2, <3>3, <3>4 DEF OnItsWay
  <2>3. opp'[d] = {} <=> opp[d] = {}
    BY <1>1 DEF Sooner
  <2>4. ReplyFits(d)'
    BY <1>1, <1>4, <2>3 DEF DeviceInv, ReplyFits
  <2>5. Answered(d)'
    <3>1. since[d] > LinkDelay => since'[d] > LinkDelay
      BY <1>3, <2>1, Delays
    <3> QED BY <1>1, <1>4, <2>3, <3>1 DEF DeviceInv, Answered
  <2>6. since'[d] <= Gap
    BY <1>3, <2>1, Delays
  <2> QED BY <1>1, <1>4, <2>2, <2>4, <2>5, <2>6 DEF DeviceInv
<1> QED BY <1>7, <1>8

-----------------------------------------------------------------------------
(* The invariant.                                                          *)

LEMMA NsTypeStep ==
  ASSUME GwInv, NsInv, [NsNext]_nsVars
  PROVE  NsTypeOK' /\ OnTheLinks'
<1> USE DEF NsInv
<1>1. CASE UNCHANGED nsVars
  BY <1>1 DEF NsTypeOK, OnTheLinks, nsVars, gwVars, serverVars, deviceVars
<1>2. CASE GwHandler /\ UNCHANGED <<serverVars, deviceVars>>
  <2>1. NsTypeOK'
    BY <1>2 DEF NsTypeOK, serverVars, deviceVars
  <2>2. toGateway' \subseteq toGateway
    BY <1>2 DEF GwHandler, EndReceive, DownlinkArrives, TxFinished
  <2> QED BY <2>1, <2>2 DEF OnTheLinks
<1>3. ASSUME NEW m \in toServer, ServerReceive(m) PROVE NsTypeOK' /\ OnTheLinks'
  <2> DEFINE d == m.pkt.dev
             u == uplinks[d][m.pkt.n]
             first == [w |-> 1, left |-> RxDelay]
  <2>1. d \in Devices /\ u \in Sent
    BY <1>3, ReceivedIsLast DEF ServerReceive
  <2>2. received' \in [Devices -> Seq(Entries)]
    <3>1. received \in [Devices -> Seq(Entries)]
      BY DEF NsTypeOK, Entries
    <3>2. PICK power : /\ received' = [received EXCEPT ![d] = Insert(@, uplinks[d][Len(uplinks[d])], m.gw, power)]
                       /\ received'[d] \in Seq(Entries)
      BY <1>3, ServerReceiveEffect
    <3> QED BY <2>1, <3>1, <3>2
  <2>3. first \in [w : Windows, left : Nat]
    BY Delays DEF Windows
  <2>4. u.conf \in BOOLEAN
    BY <2>1 DEF Sent
  <2> HIDE DEF first, u
  <2>5. opp' \in [Devices -> SUBSET [w : Windows, left : Nat]]
    BY <1>3, <2>3 DEF ServerReceive, NsTypeOK, first
  <2>6. reply' \in [Devices -> [needs : BOOLEAN, ack : BOOLEAN]]
    BY <1>3 DEF ServerReceive, NsTypeOK, Asked
  <2>7. UNCHANGED <<uplinks, since, toGateway>>
    BY <1>3 DEF ServerReceive, deviceVars
  <2> QED BY <2>2, <2>5, <2>6, <2>7 DEF NsTypeOK, OnTheLinks, Entries
<1>4. ASSUME NEW d \in Devices, OnReceiveWindowOpportunity(d) PROVE NsTypeOK' /\ OnTheLinks'
  <2> DEFINE second == [w |-> 2, left |-> RxDelay]
             p == Down(d, Len(uplinks[d]))
  <2>1. /\ UNCHANGED <<received, uplinks, since>>
        /\ opp' = [opp EXCEPT ![d] = {second}] \/ opp' = [opp EXCEPT ![d] = {}]
        /\ reply' = reply \/ reply' = [reply EXCEPT ![d] = NoReply]
        /\ \/ toGateway' = toGateway
           \/ \E g, b : toGateway' = toGateway \cup
                          {[gw |-> g, pkt |-> p, band |-> b, left |-> LinkDelay]}
    <3>1. PICK e \in opp[d] :
            /\ UNCHANGED <<received, uplinks, since>>
            /\ \/ opp' = [opp EXCEPT ![d] = {second}] /\ UNCHANGED <<reply, toGateway>>
               \/ /\ opp' = [opp EXCEPT ![d] = {}]
                  /\ reply' = reply \/ reply' = [reply EXCEPT ![d] = NoReply]
                  /\ toGateway' = toGateway
               \/ /\ opp' = [opp EXCEPT ![d] = {}]
                  /\ reply' = [reply EXCEPT ![d] = NoReply]
                  /\ \E g \in Gateways : Downlink(g, p, BandOf[e.w])
      BY <1>4, OpportunityEffect DEF deviceVars
    <3>2. \A g : Downlink(g, p, BandOf[e.w]) =>
            toGateway' = toGateway \cup
              {[gw |-> g, pkt |-> p, band |-> BandOf[e.w], left |-> LinkDelay]}
      BY DEF Downlink
    <3> QED BY <3>1, <3>2
  <2>2. second \in [w : Windows, left : Nat] /\ NoReply \in [needs : BOOLEAN, ack : BOOLEAN]
    BY Delays DEF Windows, NoReply
  <2>3. \A g, b : [gw |-> g, pkt |-> p, band |-> b, left |-> LinkDelay].left <= LinkDelay
    BY Delays
  <2> HIDE DEF second, p
  <2>4. OnTheLinks'
    BY <2>1, <2>3 DEF OnTheLinks
  <2>5. opp' \in [Devices -> SUBSET [w : Windows, left : Nat]]
    <3>1. opp \in [Devices -> SUBSET [w : Windows, left : Nat]]
      BY DEF NsTypeOK
    <3>2. {second} \in SUBSET [w : Windows, left : Nat]
      BY <2>2
    <3>3. opp' = [opp EXCEPT ![d] = {second}] \/ opp' = [opp EXCEPT ![d] = {}]
      BY <2>1
    <3> QED BY <3>1, <3>2, <3>3
  <2>6. reply' \in [Devices -> [needs : BOOLEAN, ack : BOOLEAN]]
    <3>1. reply \in [Devices -> [needs : BOOLEAN, ack : BOOLEAN]]
      BY DEF NsTypeOK
    <3>2. reply' = reply \/ reply' = [reply EXCEPT ![d] = NoReply]
      BY <2>1
    <3> QED BY <2>2, <3>1, <3>2
  <2> QED BY <2>1, <2>4, <2>5, <2>6 DEF NsTypeOK
<1>5. CASE NsTick
  <2>1. /\ opp' = [d \in Devices |-> Sooner(opp[d])]
        /\ since' = [d \in Devices |-> IF since[d] < Gap THEN since[d] + 1 ELSE Gap]
        /\ UNCHANGED <<reply, received, uplinks>>
        /\ \A d \in Devices : \A e \in opp[d] : e.left > 0
        /\ toGateway' = Sooner(toGateway)
        /\ \A m \in toGateway : m.left > 0
    BY <1>5 DEF NsTick, GwTick, NothingDue
  <2>2. ASSUME NEW d \in Devices
        PROVE  Sooner(opp[d]) \in SUBSET [w : Windows, left : Nat]
    <3>1. opp[d] \subseteq [w : Windows, left : Nat]
      BY DEF NsTypeOK
    <3>2. \A e \in opp[d] : [e EXCEPT !.left = @ - 1] \in [w : Windows, left : Nat]
      BY <2>1, <3>1
    <3> QED BY <3>2 DEF Sooner
  <2>3. opp' \in [Devices -> SUBSET [w : Windows, left : Nat]]
    BY <2>1, <2>2
  <2>4. since' \in [Devices -> Int]
    <3>1. since \in [Devices -> Int]
      BY DEF NsTypeOK
    <3>2. \A d \in Devices : (IF since[d] < Gap THEN since[d] + 1 ELSE Gap) \in Int
      BY <3>1, Delays
    <3> QED BY <2>1, <3>2
  <2>5. OnTheLinks'
    <3>1. \A m : LET t == [m EXCEPT !.left = @ - 1]
                 IN  m \in toGateway => t.left = m.left - 1 /\ m.left \in Nat
      BY DEF GwInv, GwTypeOK
    <3>2. \A t \in toGateway' : \E m \in toGateway : t.left = m.left - 1 /\ m.left \in Nat
      BY <2>1, <3>1 DEF Sooner
    <3> QED BY <3>2, Delays DEF OnTheLinks
  <2> QED BY <2>1, <2>3, <2>4, <2>5 DEF NsTypeOK
<1>6. ASSUME NEW d \in Devices, DeviceSends(d) PROVE NsTypeOK' /\ OnTheLinks'
  <2>1. PICK u \in Sent, t \in UpTimes, strong \in SUBSET Gateways :
          /\ uplinks' = [uplinks EXCEPT ![d] = Append(@, u)]
          /\ uplinks'[d] \in Seq(Sent)
          /\ UplinkArrives(Up(d, Len(uplinks'[d])), t, strong)
          /\ since' = [since EXCEPT ![d] = - t]
          /\ UNCHANGED serverVars
    BY <1>6, DeviceSendsEffect
  <2>2. uplinks' \in [Devices -> Seq(Sent)]
    <3>1. uplinks \in [Devices -> Seq(Sent)]
      BY DEF NsTypeOK, Sent
    <3> QED BY <2>1, <3>1
  <2>3. since' \in [Devices -> Int]
    <3>1. - t \in Int
      BY Delays
    <3> QED BY <2>1, <3>1 DEF NsTypeOK
  <2>4. toGateway' = toGateway /\ UNCHANGED <<opp, reply, received>>
    BY <2>1 DEF UplinkArrives, serverVars
  <2> QED BY <2>2, <2>3, <2>4 DEF NsTypeOK, OnTheLinks, Sent
<1> QED BY <1>1, <1>2, <1>3, <1>4, <1>5, <1>6 DEF NsNext, NsScheduler

LEMMA NsInitially == NsInit => NsInv
<1> SUFFICES ASSUME NsInit PROVE NsInv
  OBVIOUS
<1>1. /\ endRx = {} /\ toServer = {} /\ toGateway = {} /\ sent = {}
      /\ opp = [d \in Devices |-> {}] /\ reply = [d \in Devices |-> NoReply]
      /\ received = [d \in Devices |-> <<>>] /\ uplinks = [d \in Devices |-> <<>>]
      /\ since = [d \in Devices |-> Gap]
  BY DEF NsInit, GwInit
<1>2. NsTypeOK
  <2>1. <<>> \in Seq(Entries) /\ <<>> \in Seq(Sent)
    BY EmptySeq
  <2>2. NoReply \in [needs : BOOLEAN, ack : BOOLEAN]
    BY DEF NoReply
  <2> QED BY <1>1, <2>1, <2>2, Delays DEF NsTypeOK, Entries, Sent
<1>3. ASSUME NEW d \in Devices PROVE DeviceInv(d)
  <2>1. Len(uplinks[d]) = 0 /\ MaxUplinks[d] \in Nat
    BY <1>1, EmptySeq, ServerAssumption
  <2>2. NoReply.needs = FALSE /\ NoReply.ack = FALSE
    BY DEF NoReply
  <2>3. opp[d] = {} /\ reply[d] = NoReply /\ since[d] = Gap
    BY <1>1
  <2>4. OnItsWay(d)
    BY <1>1, <2>3 DEF OnItsWay
  <2>5. ReplyFits(d)
    BY <2>2, <2>3 DEF ReplyFits
  <2>6. Answered(d)
    BY <1>1 DEF Answered
  <2> QED BY <2>1, <2>3, <2>4, <2>5, <2>6, Delays DEF DeviceInv
<1> QED BY <1>1, <1>2, <1>3 DEF NsInv, OnTheLinks

LEMMA NsInvStep ==
  ASSUME SilentLongEnough, GwInv, NsInv, [NsNext]_nsVars
  PROVE  NsInv'
<1>1. ASSUME NEW d \in Devices PROVE DeviceInv(d)'
  <2>1. CASE UNCHANGED nsVars
    <3>1. DeviceInv(d)
      BY DEF NsInv
    <3>2. UNCHANGED <<endRx, toServer, sent, opp, reply, received, uplinks, since>>
      BY <2>1 DEF nsVars, gwVars, serverVars, deviceVars
    <3> QED BY <3>1, <3>2 DEF DeviceInv, OnItsWay, ReplyFits, Answered
  <2>2. CASE GwHandler /\ UNCHANGED <<serverVars, deviceVars>>
    BY <2>2, GwHandlerDevice
  <2>3. CASE \E m \in toServer : ServerReceive(m)
    BY <2>3, ServerReceiveDevice
  <2>4. CASE \E c \in Devices : OnReceiveWindowOpportunity(c)
    BY <2>4, OpportunityDevice
  <2>5. CASE NsTick
    BY <2>5, NsTickDevice
  <2>6. CASE \E c \in Devices : DeviceSends(c)
    BY <2>6, DeviceSendsDevice
  <2> QED BY <2>1, <2>2, <2>3, <2>4, <2>5, <2>6 DEF NsNext, NsScheduler
<1>2. NsTypeOK' /\ OnTheLinks'
  BY NsTypeStep
<1> QED BY <1>1, <1>2 DEF NsInv

(* Every step of the server and the devices is one of the gateways with an *)
(* arbitrary server: what comes over the links is read once, and what is   *)
(* handed to them was not sent before.                                     *)
LEMMA NsStepIsGwStep ==
  ASSUME GwInv, NsInv, [NsNext]_nsVars
  PROVE  [GwNext]_gwVars
<1>1. CASE UNCHANGED nsVars
  BY <1>1 DEF nsVars
<1>2. CASE GwHandler
  BY <1>2 DEF GwNext, GwScheduler
<1>3. ASSUME NEW m \in toServer, ServerReceive(m) PROVE GwNext
  <2>1. LinkReads
    BY <1>3 DEF ServerReceive, LinkReads
  <2> QED BY <2>1 DEF GwNext, GwScheduler
<1>4. ASSUME NEW d \in Devices, OnReceiveWindowOpportunity(d) PROVE [GwNext]_gwVars
  <2> DEFINE p == Down(d, Len(uplinks[d]))
  <2>1. PICK e \in opp[d] :
          /\ e.left = 0
          /\ UNCHANGED <<paths, endRx, occupied, isTx, txEnds, bandLeft, toServer,
                         fates, lost>>
          /\ \/ UNCHANGED <<toGateway, sent>>
             \/ \E g \in Gateways : Downlink(g, p, BandOf[e.w])
    BY <1>4, OpportunityEffect
  <2>2. e.w \in Windows /\ p \notin sent /\ Len(uplinks[d]) \in UpNumbers(d)
    BY <2>1, OpportunityDue
  <2>3. p \in (Packets \ Uplinks) \ sent
    BY <2>2, PacketShapes
  <2>4. BandOf[e.w] \in Bands
    BY <2>2, ServerAssumption
  <2> HIDE DEF p
  <2>5. CASE UNCHANGED <<toGateway, sent>>
    BY <2>1, <2>5 DEF gwVars
  <2>6. CASE \E g \in Gateways : Downlink(g, p, BandOf[e.w])
    <3>1. ServerSends
      BY <2>1, <2>3, <2>4, <2>6 DEF ServerSends
    <3> QED BY <3>1 DEF GwNext
  <2> QED BY <2>1, <2>5, <2>6
<1>5. CASE NsTick
  BY <1>5 DEF NsTick, GwNext, GwScheduler
<1>6. ASSUME NEW d \in Devices, DeviceSends(d) PROVE GwNext
  <2>1. PICK t \in UpTimes, strong \in SUBSET Gateways :
          UplinkArrives(Up(d, Len(uplinks'[d])), t, strong)
    BY <1>6, DeviceSendsEffect
  <2>2. Up(d, Len(uplinks'[d])) \in Uplinks
    BY <1>6, DeviceSendsEffect, PacketShapes
  <2>3. Arrival
    BY <2>1, <2>2 DEF Arrival
  <2> QED BY <2>3 DEF GwNext
<1> QED BY <1>1, <1>2, <1>3, <1>4, <1>5, <1>6 DEF NsNext, NsScheduler

LEMMA NsInvariance == ASSUME SilentLongEnough PROVE NsSpec => [](GwInv /\ NsInv)
<1>1. NsInit => GwInv /\ NsInv
  BY NsInitially, GwInitially DEF NsInit
<1>2. GwInv /\ NsInv /\ [NsNext]_nsVars => (GwInv /\ NsInv)'
  BY NsInvStep, NsStepIsGwStep, GwStep
<1> QED BY <1>1, <1>2, PTL DEF NsSpec

(* The network server and its devices are an environment of the gateways   *)
(* that Gateway allows: whatever is proved of GwSpec holds under the       *)
(* scheduler of the windows.                                               *)
THEOREM ServerUsesGateways == ASSUME SilentLongEnough PROVE NsSpec => GwSpec
<1>1. NsInit => GwInit
  BY DEF NsInit
<1>2. GwInv /\ NsInv /\ [NsNext]_nsVars => [GwNext]_gwVars
  BY NsStepIsGwStep
<1> QED BY <1>1, <1>2, NsInvariance, PTL DEF NsSpec, GwSpec

(* The variables have their types.                                         *)
THEOREM NsTypeCorrect == ASSUME SilentLongEnough PROVE NsSpec => []NsTypeOK
<1>1. NsInv => NsTypeOK
  BY DEF NsInv
<1> QED BY <1>1, NsInvariance, PTL

(* A reply that is due will be looked at, once: the opportunity is         *)
(* scheduled by the first gateway that forwards the uplink, and no later   *)
(* one schedules another.                                                  *)
THEOREM ReplyIsLookedAt == ASSUME SilentLongEnough PROVE NsSpec => []ReplyHasOpportunity
<1>1. NsInv => ReplyHasOpportunity
  <2> SUFFICES ASSUME NsInv, NEW d \in Devices
               PROVE  /\ reply[d].needs => opp[d] # {}
                      /\ opp[d] # {} => received[d] # <<>>
                      /\ Cardinality(opp[d]) <= 1
                      /\ reply[d].ack = reply[d].needs
    BY DEF ReplyHasOpportunity
  <2>1. ReplyFits(d) /\ OnItsWay(d)
    BY DEF NsInv, DeviceInv
  <2>2. Cardinality(opp[d]) <= 1
    <3>1. CASE opp[d] = {}
      BY <3>1, FS_EmptySet
    <3>2. CASE opp[d] # {}
      <4>1. PICK e : opp[d] = {e}
        BY <2>1, <3>2 DEF OnItsWay
      <4>2. Cardinality(opp[d]) = 1
        BY <4>1, FS_Singleton, Zenon
      <4> QED BY <4>2
    <3> QED BY <3>1, <3>2
  <2> QED BY <2>1, <2>2 DEF ReplyFits
<1> QED BY <1>1, NsInvariance, PTL

(* A step that hands a gateway a downlink for d is an opportunity of d:    *)
(* what was on the links already is older.                                 *)
LEMMA RepliesAtOpportunity ==
  ASSUME GwInv, NsInv, [NsNext]_nsVars, NEW d \in Devices, Replies(d)
  PROVE  \E e \in opp[d] : e.left = 0
<1>1. PICK m \in toGateway' \ toGateway : m.left = LinkDelay /\ m.pkt.dev = d
  BY DEF Replies
<1>2. CASE UNCHANGED nsVars
  BY <1>1, <1>2 DEF nsVars, gwVars
<1>3. CASE GwHandler
  BY <1>1, <1>3 DEF GwHandler, EndReceive, DownlinkArrives, TxFinished
<1>4. CASE \E n \in toServer : ServerReceive(n)
  BY <1>1, <1>4 DEF ServerReceive
<1>5. ASSUME NEW c \in Devices, OnReceiveWindowOpportunity(c)
      PROVE  \E e \in opp[d] : e.left = 0
  <2> DEFINE p == Down(c, Len(uplinks[c]))
  <2>1. PICK e \in opp[c] :
          /\ e.left = 0
          /\ \/ UNCHANGED <<toGateway, sent>>
             \/ \E g \in Gateways : Downlink(g, p, BandOf[e.w])
    BY <1>5, OpportunityEffect
  <2>2. PICK g \in Gateways : Downlink(g, p, BandOf[e.w])
    BY <1>1, <2>1
  <2>3. m = [gw |-> g, pkt |-> p, band |-> BandOf[e.w], left |-> LinkDelay]
    BY <1>1, <2>2 DEF Downlink
  <2>4. m.pkt.dev = c
    BY <2>3 DEF Down
  <2> QED BY <1>1, <2>1, <2>4
<1>6. CASE NsTick
  <2>1. toGateway' = Sooner(toGateway)
    BY <1>6 DEF NsTick, GwTick
  <2>2. PICK n \in toGateway : m = [n EXCEPT !.left = @ - 1]
    BY <1>1, <2>1 DEF Sooner
  <2>3. n.left \in Nat /\ n.left <= LinkDelay /\ m.left = n.left - 1
    BY <2>2 DEF GwInv, GwTypeOK, NsInv, OnTheLinks
  <2> QED BY <1>1, <2>3, Delays
<1>7. CASE \E c \in Devices : DeviceSends(c)
  BY <1>1, <1>7 DEF DeviceSends, UplinkArrives
<1> QED BY <1>2, <1>3, <1>4, <1>5, <1>6, <1>7 DEF NsNext, NsScheduler

(* The same window of the device is open from the hand-over to the air: a  *)
(* reply that is w seconds and a link delay late when the server hands it  *)
(* over is one more link delay late at the gateway.                        *)
OnTime(m, d, w) ==
  /\ m.pkt = Down(d, Len(uplinks[d]))
  /\ m.band = BandOf[w]
  /\ m.left + since[d] = w * RxDelay + 2 * LinkDelay

RepliesOnTime == \A m \in toGateway : \E d \in Devices, w \in Windows : OnTime(m, d, w)

(* Nothing that is on time comes when its device may transmit again.       *)
LEMMA StillSilent ==
  ASSUME WindowsFit, NsInv, GwInv, NEW m \in toGateway, NEW d \in Devices,
         NEW w \in Windows, OnTime(m, d, w)
  PROVE  /\ m.left \in Nat /\ since[d] \in Int /\ since[d] < Gap
         /\ w * RxDelay \in Nat
<1>1. m.left \in Nat /\ since[d] \in Int
  BY DEF GwInv, GwTypeOK, NsInv, NsTypeOK
<1>2. w * RxDelay = RxDelay \/ w * RxDelay = 2 * RxDelay
  BY Delays DEF Windows
<1>3. WindowLength \in Nat
  BY ServerAssumption
<1> QED BY <1>1, <1>2, <1>3, Delays DEF OnTime, WindowsFit

LEMMA OnTimeStep ==
  ASSUME WindowsFit, GwInv, NsInv, RepliesOnTime, [NsNext]_nsVars
  PROVE  RepliesOnTime'
<1>1. ASSUME toGateway' \subseteq toGateway, UNCHANGED deviceVars
      PROVE  RepliesOnTime'
  BY <1>1 DEF RepliesOnTime, OnTime, deviceVars
<1>2. CASE UNCHANGED nsVars
  BY <1>1, <1>2 DEF nsVars, gwVars
<1>3. CASE GwHandler /\ UNCHANGED <<serverVars, deviceVars>>
  <2>1. toGateway' \subseteq toGateway
    BY <1>3 DEF GwHandler, EndReceive, DownlinkArrives, TxFinished
  <2> QED BY <1>1, <1>3, <2>1
<1>4. CASE \E m \in toServer : ServerReceive(m)
  BY <1>1, <1>4 DEF ServerReceive
<1>5. ASSUME NEW c \in Devices, OnReceiveWindowOpportunity(c)
      PROVE  RepliesOnTime'
  <2>1. PICK e \in opp[c] :
          /\ e.left = 0
          /\ UNCHANGED deviceVars
          /\ \/ toGateway' = toGateway
             \/ \E g \in Gateways : Downlink(g, Down(c, Len(uplinks[c])), BandOf[e.w])
    BY <1>5, OpportunityEffect
  <2>2. CASE toGateway' = toGateway
    BY <1>1, <2>1, <2>2
  <2>3. ASSUME NEW g \in Gateways, Downlink(g, Down(c, Len(uplinks[c])), BandOf[e.w])
        PROVE  RepliesOnTime'
    <3> DEFINE new == [gw |-> g, pkt |-> Down(c, Len(uplinks[c])), band |-> BandOf[e.w],
                       left |-> LinkDelay]
    <3>1. toGateway' = toGateway \cup {new}
      BY <2>3 DEF Downlink
    <3>2. e.w \in Windows /\ since[c] = LinkDelay + e.w * RxDelay
      BY <2>1, OpportunityDue
    <3>3. e.w * RxDelay = RxDelay \/ e.w * RxDelay = 2 * RxDelay
      BY <3>2, Delays DEF Windows
    <3>4. OnTime(new, c, e.w)
      BY <3>2, <3>3, Delays DEF OnTime
    <3>5. uplinks' = uplinks /\ since' = since
      BY <2>1 DEF deviceVars
    <3>6. \A m \in toGateway' : \E d \in Devices, w \in Windows : OnTime(m, d, w)
      <4> HIDE DEF new
      <4> QED BY <3>1, <3>2, <3>4 DEF RepliesOnTime
    <3> QED BY <3>5, <3>6 DEF RepliesOnTime, OnTime
  <2> QED BY <2>1, <2>2, <2>3
<1>6. CASE NsTick
  <2>1. /\ toGateway' = Sooner(toGateway) /\ uplinks' = uplinks
        /\ \A d \in Devices : since'[d] = IF since[d] < Gap THEN since[d] + 1 ELSE Gap
    BY <1>6 DEF NsTick, GwTick
  <2>2. SUFFICES ASSUME NEW t \in toGateway'
                 PROVE  \E d \in Devices, w \in Windows : OnTime(t, d, w)'
    BY DEF RepliesOnTime
  <2>3. PICK m \in toGateway : t = [m EXCEPT !.left = @ - 1]
    BY <2>1 DEF Sooner
  <2>4. t.left = m.left - 1 /\ t.pkt = m.pkt /\ t.band = m.band
    BY <2>3 DEF GwInv, GwTypeOK
  <2>5. PICK d \in Devices, w \in Windows : OnTime(m, d, w)
    BY DEF RepliesOnTime
  <2>6. since'[d] = since[d] + 1 /\ m.left \in Nat /\ since[d] \in Int
    BY <2>1, <2>5, StillSilent
  <2>7. t.left + since'[d] = w * RxDelay + 2 * LinkDelay
    BY <2>4, <2>5, <2>6 DEF OnTime
  <2> QED BY <2>1, <2>4, <2>5, <2>7 DEF OnTime
<1>7. ASSUME NEW c \in Devices, DeviceSends(c)
      PROVE  RepliesOnTime'
  <2>1. PICK u \in Sent, t \in UpTimes :
          /\ uplinks' = [uplinks EXCEPT ![c] = Append(@, u)]
          /\ since' = [since EXCEPT ![c] = - t]
    BY <1>7, DeviceSendsEffect
  <2>2. toGateway' = toGateway /\ since[c] = Gap
    BY <1>7 DEF DeviceSends, UplinkArrives
  <2>3. ASSUME NEW m \in toGateway
        PROVE  \E d \in Devices, w \in Windows : OnTime(m, d, w)'
    <3>1. PICK d \in Devices, w \in Windows : OnTime(m, d, w)
      BY DEF RepliesOnTime
    <3>2. d # c
      BY <2>2, <3>1, StillSilent, Delays
    <3>3. uplinks'[d] = uplinks[d] /\ since'[d] = since[d]
      BY <2>1, <3>2 DEF NsInv, NsTypeOK
    <3> QED BY <3>1, <3>3 DEF OnTime
  <2> QED BY <2>2, <2>3 DEF RepliesOnTime
<1> QED BY <1>2, <1>3, <1>4, <1>5, <1>6, <1>7 DEF NsNext, NsScheduler

(* The moment a gateway begins to transmit a reply, or drops it, lies in a *)
(* receive window of the device it is for, and the reply is in the sub-    *)
(* band of that window and for the device's last uplink.                   *)
THEOREM RepliesMeetWindows ==
  ASSUME WindowsFit
  PROVE  NsSpec => []RepliesInWindow
<1>1. SilentLongEnough
  BY Delays, ServerAssumption DEF WindowsFit, SilentLongEnough
<1>2. NsInit => RepliesOnTime
  BY DEF NsInit, GwInit, RepliesOnTime
<1>3. RepliesOnTime /\ GwInv /\ NsInv /\ [NsNext]_nsVars => RepliesOnTime'
  BY OnTimeStep
<1>4. GwInv /\ NsInv /\ RepliesOnTime => RepliesInWindow
  <2> SUFFICES ASSUME GwInv, NsInv, RepliesOnTime, NEW m \in toGateway, m.left = 0
               PROVE  LET d == m.pkt.dev
                      IN  /\ m.pkt = Down(d, Len(uplinks[d]))
                          /\ \E w \in Windows : /\ m.band = BandOf[w]
                                                /\ since[d] >= w * RxDelay
                                                /\ since[d] < w * RxDelay + WindowLength
    BY DEF RepliesInWindow
  <2>1. PICK d \in Devices, w \in Windows : OnTime(m, d, w)
    BY DEF RepliesOnTime
  <2>2. m.pkt.dev = d
    BY <2>1 DEF OnTime, Down
  <2>3. since[d] \in Int /\ w * RxDelay \in Nat
    BY <2>1, StillSilent
  <2>4. since[d] >= w * RxDelay /\ since[d] < w * RxDelay + WindowLength
    <3>1. since[d] = w * RxDelay + 2 * LinkDelay
      BY <2>1, <2>3 DEF OnTime
    <3> QED BY <2>3, <3>1, Delays, ServerAssumption DEF WindowsFit
  <2> QED BY <2>1, <2>2, <2>4 DEF OnTime
<1> QED BY <1>1, <1>2, <1>3, <1>4, NsInvariance, PTL DEF NsSpec

(* However many gateways forward an uplink, it is answered at most once.   *)
THEOREM AnsweredOnce == ASSUME SilentLongEnough PROVE NsSpec => OneReplyPerUplink
<1>1. GwInv /\ NsInv /\ [NsNext]_nsVars =>
        \A d \in Devices : Replies(d) => Down(d, Len(uplinks[d])) \notin sent
  BY RepliesAtOpportunity, OpportunityDue
<1> QED BY <1>1, NsInvariance, PTL DEF NsSpec, OneReplyPerUplink

-----------------------------------------------------------------------------
(* The list of received packets.                                           *)

(* InsertReceivedPacket keeps the counters it finds and adds the uplink's  *)
(* own at the end if it does not find it; what it writes for a gateway is  *)
(* the power that one measured.                                            *)
LEMMA InsertEffect ==
  ASSUME NEW list \in Seq(Entries), NEW u \in Sent, NEW g \in Gateways, NEW power \in Nat
  PROVE  LET new == Insert(list, u, g, power)
         IN  /\ Len(new) \in Nat /\ Len(list) \in Nat
             /\ IF \E i \in 1 .. Len(list) : list[i].fcnt = u.fcnt
                  THEN Len(new) = Len(list)
                  ELSE Len(new) = Len(list) + 1 /\ new[Len(list) + 1].fcnt = u.fcnt
             /\ \A i \in 1 .. Len(list) : new[i].fcnt = list[i].fcnt
             /\ \A i \in 1 .. Len(new) : \A h \in Gateways :
                  \/ new[i].gws[h] = NotHeard
                  \/ h = g /\ new[i].gws[h] = power
                  \/ i \in 1 .. Len(list) /\ new[i].gws[h] = list[i].gws[h]
<1> DEFINE same == {i \in DOMAIN list : list[i].fcnt = u.fcnt}
           last == CHOOSE i \in same : \A j \in same : j <= i
           entry == [fcnt |-> u.fcnt, check |-> u.check,
                     gws |-> [h \in Gateways |-> IF h = g THEN power ELSE NotHeard]]
           changed == [list[last] EXCEPT !.gws[g] = IF @ = NotHeard THEN power ELSE @]
           new == Insert(list, u, g, power)
<1>1. Len(list) \in Nat /\ DOMAIN list = 1 .. Len(list)
  BY LenProperties
<1>2. CASE same = {}
  <2>1. entry \in Entries
    BY DEF Entries, Sent, NotHeard
  <2>2. new = Append(list, entry)
    BY <1>2 DEF Insert
  <2>3. /\ entry.fcnt = u.fcnt
        /\ \A h \in Gateways : entry.gws[h] = NotHeard \/ (h = g /\ entry.gws[h] = power)
    OBVIOUS
  <2>4. ~ \E i \in 1 .. Len(list) : list[i].fcnt = u.fcnt
    BY <1>1, <1>2
  <2> HIDE DEF entry, same, new
  <2>5. /\ Len(new) = Len(list) + 1
        /\ \A i \in 1 .. Len(list) : new[i] = list[i]
        /\ new[Len(list) + 1] = entry
    BY <2>1, <2>2, AppendProperties
  <2>6. \A i \in 1 .. Len(new) : i \in 1 .. Len(list) \/ i = Len(list) + 1
    BY <1>1, <2>5
  <2> QED BY <1>1, <2>3, <2>4, <2>5, <2>6 DEF new
<1>3. CASE same # {}
  <2>1. new = [list EXCEPT ![last] = changed]
    BY <1>3 DEF Insert
  <2>2. \E i \in 1 .. Len(list) : list[i].fcnt = u.fcnt
    BY <1>1, <1>3
  <2> HIDE DEF same
  <2>3. CASE last \in 1 .. Len(list)
    <3>1. list[last] \in Entries
      BY <2>3, ElementOfSeq
    <3>2. /\ changed \in Entries /\ changed.fcnt = list[last].fcnt
          /\ \A h \in Gateways : \/ h = g /\ changed.gws[h] = power
                                 \/ changed.gws[h] = list[last].gws[h]
      BY <3>1 DEF Entries, NotHeard
    <3> HIDE DEF last, changed, new
    <3>3. /\ Len(new) = Len(list)
          /\ \A i \in 1 .. Len(list) : new[i] = IF i = last THEN changed ELSE list[i]
      BY <2>1, <2>3, <3>2, ExceptSeq
    <3> QED BY <1>1, <2>2, <3>2, <3>3 DEF new
  <2>4. CASE last \notin 1 .. Len(list)
    <3> HIDE DEF last, changed, new
    <3>1. new = list
      BY <1>1, <2>1, <2>4, LenProperties
    <3> QED BY <1>1, <2>2, <3>1 DEF new
  <2> QED BY <2>3, <2>4
<1> QED BY <1>2, <1>3

-----------------------------------------------------------------------------
(* The frame counters.                                                     *)

LEMMA PlaceProperties ==
  /\ \A f \in FCnts : Place(f) \in Nat /\ 1 <= Place(f) /\ Place(f) <= FCntSpace
  /\ \A f, h \in FCnts : Place(f) = Place(h) => f = h
  /\ FCntSpace \in Nat
BY ServerAssumption DEF FCnts, Place

LEMMA LastFCntType ==
  ASSUME NsInv, NEW d \in Devices
  PROVE  /\ LastFCnt(d) \in FCnts
         /\ uplinks[d] # <<>> => uplinks[d][Len(uplinks[d])].fcnt = LastFCnt(d)
         /\ received[d] \in Seq(Entries) /\ Len(received[d]) \in Nat
         /\ DOMAIN received[d] = 1 .. Len(received[d])
         /\ received[d] # <<>> => Len(received[d]) \in 1 .. Len(received[d])
         /\ \A i \in 1 .. Len(received[d]) : received[d][i].fcnt \in FCnts
<1>1. uplinks[d] \in Seq(Sent) /\ received[d] \in Seq(Entries)
  BY DEF NsInv, NsTypeOK, Entries, Sent
<1>2. uplinks[d] # <<>> => uplinks[d][Len(uplinks[d])] \in Sent
  <2>1. uplinks[d] # <<>> => Len(uplinks[d]) \in 1 .. Len(uplinks[d])
    BY <1>1, EmptySeq, LenProperties
  <2> QED BY <1>1, <2>1, ElementOfSeq
<1>3. 0 \in FCnts
  BY ServerAssumption DEF FCnts
<1>4. \A i \in 1 .. Len(received[d]) : received[d][i].fcnt \in FCnts
  <2> SUFFICES ASSUME NEW i \in 1 .. Len(received[d])
               PROVE  received[d][i].fcnt \in FCnts
    OBVIOUS
  <2>1. received[d][i] \in Entries
    BY <1>1, ElementOfSeq
  <2> QED BY <2>1 DEF Entries
<1>5. received[d] # <<>> => Len(received[d]) \in 1 .. Len(received[d])
  BY <1>1, EmptySeq, LenProperties
<1>6. Len(received[d]) \in Nat /\ DOMAIN received[d] = 1 .. Len(received[d])
  BY <1>1, LenProperties
<1>7. LastFCnt(d) \in FCnts
  BY <1>2, <1>3 DEF LastFCnt, Sent
<1> QED BY <1>1, <1>4, <1>5, <1>6, <1>7 DEF LastFCnt

LEMMA Remainders ==
  ASSUME NEW n \in Nat, NEW f \in Nat, f > 0
  PROVE  /\ n < f => n % f = n
         /\ n = f => n % f = 0
OBVIOUS

(* The part of FCntsInOrder that is about d.                               *)
OrderOf(d) ==
  /\ uplinks[d] # <<>> => Place(LastFCnt(d)) <= Len(uplinks[d])
  /\ received[d] # <<>> => uplinks[d] # <<>>
  /\ \A i \in DOMAIN received[d] : Place(received[d][i].fcnt) <= Place(LastFCnt(d))
  /\ \A i, j \in DOMAIN received[d] :
       i < j => Place(received[d][i].fcnt) < Place(received[d][j].fcnt)
  /\ opp[d] # {} => LastReceived(d).fcnt = LastFCnt(d)

LEMMA OrderFrame ==
  ASSUME NEW d \in Devices, OrderOf(d), uplinks'[d] = uplinks[d],
         received'[d] = received[d], opp'[d] # {} => opp[d] # {}
  PROVE  OrderOf(d)'
BY DEF OrderOf, LastFCnt, LastReceived

(* The counter of a new packet is one place after the last.                *)
LEMMA DeviceSendsOrder ==
  ASSUME NoWrap, SilentLongEnough, GwInv, NsInv, NEW d \in Devices, OrderOf(d),
         DeviceSends(d)
  PROVE  OrderOf(d)'
<1>1. PICK u \in Sent :
        /\ \/ u.fcnt = NextFCnt(d)
           \/ uplinks[d] # <<>> /\ u.fcnt = LastFCnt(d)
        /\ uplinks'[d] # <<>>
        /\ Len(uplinks'[d]) = Len(uplinks[d]) + 1
        /\ uplinks'[d][Len(uplinks'[d])] = u
        /\ Len(uplinks[d]) \in Nat
        /\ UNCHANGED serverVars
  BY DeviceSendsEffect
<1>2. opp'[d] = {} /\ received' = received
  BY <1>1, SilenceIsOver DEF DeviceSends, serverVars
<1>3. LastFCnt(d)' = u.fcnt
  BY <1>1 DEF LastFCnt
<1>4. /\ LastFCnt(d) \in FCnts /\ Place(LastFCnt(d)) \in Nat /\ u.fcnt \in FCnts
      /\ DOMAIN received[d] = 1 .. Len(received[d])
      /\ \A i \in DOMAIN received[d] : Place(received[d][i].fcnt) \in Nat
      /\ Place(u.fcnt) \in Nat
  BY LastFCntType, PlaceProperties DEF Sent
<1>5. Len(uplinks[d]) < FCntSpace
  BY <1>1, ServerAssumption DEF DeviceSends, NoWrap
<1>6. u.fcnt = NextFCnt(d) /\ uplinks[d] = <<>> => Place(u.fcnt) = 1
  <2>1. LastFCnt(d) = 0 \/ uplinks[d] # <<>>
    BY DEF LastFCnt
  <2>2. FCntSpace = 1 \/ FCntSpace > 1
    BY ServerAssumption
  <2>3. (0 + 1) % FCntSpace = IF FCntSpace = 1 THEN 0 ELSE 1
    BY <2>2, ServerAssumption
  <2> QED BY <2>1, <2>2, <2>3 DEF NextFCnt, Place
<1>7. u.fcnt = NextFCnt(d) /\ uplinks[d] # <<>> => Place(u.fcnt) = Place(LastFCnt(d)) + 1
  <2> SUFFICES ASSUME u.fcnt = NextFCnt(d), uplinks[d] # <<>>
               PROVE  Place(u.fcnt) = Place(LastFCnt(d)) + 1
    OBVIOUS
  <2>1. Place(LastFCnt(d)) <= Len(uplinks[d])
    BY DEF OrderOf
  <2>2. Place(LastFCnt(d)) < FCntSpace
    BY <1>1, <1>4, <1>5, <2>1, PlaceProperties
  <2>3. LastFCnt(d) # 0 /\ Place(LastFCnt(d)) = LastFCnt(d)
    BY <2>2, PlaceProperties DEF Place
  <2>4. LastFCnt(d) + 1 = FCntSpace \/ LastFCnt(d) + 1 < FCntSpace
    BY <1>4, <2>2, <2>3, PlaceProperties
  <2>5. (LastFCnt(d) + 1) % FCntSpace =
          IF LastFCnt(d) + 1 = FCntSpace THEN 0 ELSE LastFCnt(d) + 1
    <3>1. LastFCnt(d) + 1 \in Nat /\ FCntSpace \in Nat /\ FCntSpace > 0
      BY <1>4, ServerAssumption DEF FCnts
    <3> QED BY <2>4, <3>1, Remainders
  <2> QED BY <1>4, <2>3, <2>4, <2>5 DEF NextFCnt, Place, FCnts
<1>8. Place(u.fcnt) <= Len(uplinks'[d])
  <2>1. uplinks[d] # <<>> => Place(LastFCnt(d)) <= Len(uplinks[d])
    BY DEF OrderOf
  <2> QED BY <1>1, <1>4, <1>6, <1>7, <2>1
<1>9. uplinks[d] # <<>> => Place(LastFCnt(d)) <= Place(u.fcnt)
  BY <1>1, <1>4, <1>7
<1>10. \A i \in DOMAIN received[d] : Place(received[d][i].fcnt) <= Place(u.fcnt)
  <2>1. \A i \in DOMAIN received[d] : uplinks[d] # <<>>
    <3>1. received[d] = <<>> => DOMAIN received[d] = {}
      OBVIOUS
    <3> QED BY <3>1 DEF OrderOf
  <2>2. \A i \in DOMAIN received[d] : Place(received[d][i].fcnt) <= Place(LastFCnt(d))
    BY DEF OrderOf
  <2> QED BY <1>4, <1>9, <2>1, <2>2
<1> QED BY <1>1, <1>2, <1>3, <1>8, <1>10 DEF OrderOf

(* A gateway forwards the last uplink: the server finds its counter at the *)
(* end of the list, or adds it there.                                      *)
LEMMA ServerReceiveOrder ==
  ASSUME GwInv, NsInv, NEW m \in toServer, ServerReceive(m), OrderOf(m.pkt.dev)
  PROVE  OrderOf(m.pkt.dev)'
<1> DEFINE d == m.pkt.dev
           u == uplinks[d][Len(uplinks[d])]
           list == received[d]
           new == received'[d]
<1>1. /\ d \in Devices /\ m.gw \in Gateways /\ u \in Sent /\ uplinks[d] # <<>>
      /\ m.pkt.n = Len(uplinks[d])
  BY ReceivedIsLast DEF ServerReceive
<1>2. /\ u.fcnt = LastFCnt(d) /\ LastFCnt(d) \in FCnts
      /\ list \in Seq(Entries) /\ Len(list) \in Nat /\ DOMAIN list = 1 .. Len(list)
      /\ \A i \in 1 .. Len(list) : list[i].fcnt \in FCnts
  BY <1>1, LastFCntType
<1> HIDE DEF u, list, new
<1>3. PICK power \in Nat : new = Insert(list, u, m.gw, power) /\ new \in Seq(Entries) /\ new # <<>>
  BY <1>1, ServerReceiveEffect DEF u, list, new
<1>4. /\ Len(new) \in Nat
      /\ IF \E i \in 1 .. Len(list) : list[i].fcnt = u.fcnt
           THEN Len(new) = Len(list)
           ELSE Len(new) = Len(list) + 1 /\ new[Len(list) + 1].fcnt = u.fcnt
      /\ \A i \in 1 .. Len(list) : new[i].fcnt = list[i].fcnt
  BY <1>1, <1>2, <1>3, InsertEffect
<1>5. DOMAIN new = 1 .. Len(new) /\ Len(new) >= 1
  BY <1>3, <1>4, LenProperties, EmptySeq
<1>6. uplinks'[d] = uplinks[d] /\ LastFCnt(d)' = LastFCnt(d)
  BY DEF ServerReceive, deviceVars, LastFCnt
<1>7. /\ Place(LastFCnt(d)) <= Len(uplinks[d])
      /\ \A i \in 1 .. Len(list) : Place(list[i].fcnt) <= Place(LastFCnt(d))
      /\ \A i, j \in 1 .. Len(list) : i < j => Place(list[i].fcnt) < Place(list[j].fcnt)
  BY <1>1, <1>2 DEF OrderOf, list
<1>8. /\ \A i \in 1 .. Len(list) : Place(list[i].fcnt) \in Nat
      /\ Place(LastFCnt(d)) \in Nat
      /\ \A i \in 1 .. Len(list) : Place(list[i].fcnt) = Place(LastFCnt(d)) => list[i].fcnt = u.fcnt
  BY <1>2, PlaceProperties
<1>9. /\ \A i \in DOMAIN new : Place(new[i].fcnt) <= Place(LastFCnt(d))
      /\ \A i, j \in DOMAIN new : i < j => Place(new[i].fcnt) < Place(new[j].fcnt)
      /\ new[Len(new)].fcnt = LastFCnt(d)
  <2>1. CASE \E i \in 1 .. Len(list) : list[i].fcnt = u.fcnt
    <3>1. DOMAIN new = 1 .. Len(list)
      BY <1>4, <1>5, <2>1
    <3>2. PICK i \in 1 .. Len(list) : list[i].fcnt = u.fcnt
      BY <2>1
    <3>3. Len(list) \in 1 .. Len(list) /\ i <= Len(list)
      BY <1>2, <3>2
    <3>4. i = Len(list)
      <4>1. Place(list[Len(list)].fcnt) <= Place(list[i].fcnt)
        BY <1>2, <1>7, <3>2, <3>3
      <4>2. i < Len(list) => Place(list[i].fcnt) < Place(list[Len(list)].fcnt)
        BY <1>7, <3>2, <3>3
      <4>3. Place(list[i].fcnt) \in Nat /\ Place(list[Len(list)].fcnt) \in Nat
        BY <1>8, <3>2, <3>3
      <4>4. ~ i < Len(list)
        BY <4>1, <4>2, <4>3
      <4>5. i \in Nat /\ Len(list) \in Nat /\ i <= Len(list)
        BY <1>2, <3>2, <3>3
      <4> QED BY <4>4, <4>5
    <3>5. new[Len(new)].fcnt = LastFCnt(d)
      BY <1>2, <1>4, <2>1, <3>2, <3>3, <3>4
    <3> QED BY <1>4, <1>7, <3>1, <3>5
  <2>2. CASE ~ \E i \in 1 .. Len(list) : list[i].fcnt = u.fcnt
    <3>1. Len(new) = Len(list) + 1 /\ new[Len(list) + 1].fcnt = LastFCnt(d)
      BY <1>2, <1>4, <2>2
    <3>2. \A i \in DOMAIN new : i \in 1 .. Len(list) \/ i = Len(list) + 1
      BY <1>2, <1>5, <3>1
    <3>3. \A i \in 1 .. Len(list) : Place(list[i].fcnt) < Place(LastFCnt(d))
      BY <1>7, <1>8, <2>2
    <3>4. \A i \in DOMAIN new : Place(new[i].fcnt) <= Place(LastFCnt(d))
      BY <1>4, <1>7, <1>8, <3>1, <3>2
    <3>5. ASSUME NEW i \in DOMAIN new, NEW j \in DOMAIN new, i < j
          PROVE  Place(new[i].fcnt) < Place(new[j].fcnt)
      <4>1. i \in 1 .. Len(list)
        BY <1>2, <1>5, <3>1, <3>5
      <4>2. CASE j \in 1 .. Len(list)
        BY <1>4, <1>7, <3>5, <4>1, <4>2
      <4>3. CASE j = Len(list) + 1
        BY <1>4, <3>1, <3>3, <4>1, <4>3
      <4> QED BY <3>2, <4>2, <4>3
    <3> QED BY <3>1, <3>4, <3>5
  <2> QED BY <2>1, <2>2
<1> QED BY <1>1, <1>6, <1>7, <1>9 DEF OrderOf, LastReceived, new

LEMMA OrderStep ==
  ASSUME NoWrap, SilentLongEnough, GwInv, NsInv, FCntsInOrder, [NsNext]_nsVars
  PROVE  FCntsInOrder'
<1>1. \A d \in Devices : OrderOf(d)
  BY DEF FCntsInOrder, OrderOf
<1>2. ASSUME NEW x \in Devices PROVE OrderOf(x)'
  <2>1. CASE UNCHANGED <<opp, received, uplinks>>
    BY <1>1, <2>1, OrderFrame
  <2>2. CASE UNCHANGED nsVars \/ (GwHandler /\ UNCHANGED <<serverVars, deviceVars>>)
    BY <2>1, <2>2 DEF nsVars, serverVars, deviceVars
  <2>3. ASSUME NEW m \in toServer, ServerReceive(m) PROVE OrderOf(x)'
    <3>1. CASE x = m.pkt.dev
      BY <1>1, <2>3, <3>1, ServerReceiveOrder
    <3>2. CASE x # m.pkt.dev
      <4>1. UNCHANGED <<uplinks, since>> /\ m.pkt.dev \in Devices
        BY <2>3, ReceivedIsLast DEF ServerReceive, deviceVars
      <4>2. received'[x] = received[x] /\ opp'[x] = opp[x]
        BY <2>3, <3>2 DEF ServerReceive, NsInv, NsTypeOK
      <4> QED BY <1>1, <4>1, <4>2, OrderFrame
    <3> QED BY <3>1, <3>2
  <2>4. ASSUME NEW d \in Devices, OnReceiveWindowOpportunity(d) PROVE OrderOf(x)'
    <3>1. PICK e \in opp[d] :
            /\ UNCHANGED <<received, uplinks>>
            /\ \E s : opp' = [opp EXCEPT ![d] = s]
      BY <2>4, OpportunityEffect DEF deviceVars
    <3>2. opp'[x] # {} => opp[x] # {}
      BY <3>1 DEF NsInv, NsTypeOK
    <3> QED BY <1>1, <3>1, <3>2, OrderFrame
  <2>5. CASE NsTick
    <3>1. UNCHANGED <<received, uplinks>> /\ opp'[x] = Sooner(opp[x])
      BY <2>5 DEF NsTick
    <3>2. opp'[x] # {} => opp[x] # {}
      BY <3>1 DEF Sooner
    <3> QED BY <1>1, <3>1, <3>2, OrderFrame
  <2>6. ASSUME NEW d \in Devices, DeviceSends(d) PROVE OrderOf(x)'
    <3>1. CASE x = d
      BY <1>1, <2>6, <3>1, DeviceSendsOrder
    <3>2. CASE x # d
      <4>1. PICK u \in Sent : uplinks' = [uplinks EXCEPT ![d] = Append(@, u)]
                              /\ UNCHANGED serverVars
        BY <2>6, DeviceSendsEffect
      <4>2. uplinks'[x] = uplinks[x] /\ UNCHANGED <<opp, received>>
        BY <3>2, <4>1 DEF NsInv, NsTypeOK, serverVars
      <4> QED BY <1>1, <4>2, OrderFrame
    <3> QED BY <3>1, <3>2
  <2> QED BY <2>2, <2>3, <2>4, <2>5, <2>6 DEF NsNext, NsScheduler
<1> QED BY <1>2 DEF FCntsInOrder, OrderOf

LEMMA OrderInvariance ==
  ASSUME NoWrap, SilentLongEnough
  PROVE  NsSpec => []FCntsInOrder
<1>1. NsInit => FCntsInOrder
  <2> SUFFICES ASSUME NsInit PROVE FCntsInOrder
    OBVIOUS
  <2>1. \A d \in Devices : opp[d] = {} /\ received[d] = <<>> /\ uplinks[d] = <<>>
    BY DEF NsInit
  <2> QED BY <2>1 DEF FCntsInOrder
<1>2. FCntsInOrder /\ GwInv /\ NsInv /\ [NsNext]_nsVars => FCntsInOrder'
  BY OrderStep
<1> QED BY <1>1, <1>2, NsInvariance, PTL DEF NsSpec

(* A reply acknowledges the last uplink exactly if that one is confirmed,  *)
(* and carries its counter: the packet the server takes for the last is.   *)
THEOREM AcksTheLast ==
  ASSUME NoWrap, SilentLongEnough
  PROVE  NsSpec => AckIsForTheLastUplink
<1>1. ASSUME GwInv, NsInv, FCntsInOrder, [NsNext]_nsVars, NEW d \in Devices, Replies(d)
      PROVE  LET u == uplinks[d][Len(uplinks[d])]
             IN  reply[d].ack = u.conf /\ LastReceived(d).fcnt = u.fcnt
  <2>1. opp[d] # {} /\ ReplyFits(d)
    BY <1>1, RepliesAtOpportunity DEF NsInv, DeviceInv
  <2>2. uplinks[d] # <<>> /\ reply[d].ack = uplinks[d][Len(uplinks[d])].conf
    BY <2>1 DEF ReplyFits
  <2>3. LastReceived(d).fcnt = uplinks[d][Len(uplinks[d])].fcnt
    BY <1>1, <2>1, <2>2, LastFCntType DEF FCntsInOrder
  <2> QED BY <2>2, <2>3
<1>2. GwInv /\ NsInv /\ FCntsInOrder /\ [NsNext]_nsVars =>
        \A d \in Devices : Replies(d) =>
          LET u == uplinks[d][Len(uplinks[d])]
          IN  reply[d].ack = u.conf /\ LastReceived(d).fcnt = u.fcnt
  BY <1>1
<1> QED BY <1>2, NsInvariance, OrderInvariance, PTL DEF NsSpec, AckIsForTheLastUplink

-----------------------------------------------------------------------------
(* The choice of the gateway.                                              *)

(* Of finitely many there is one that measured the highest power.          *)
LEMMA OneIsBest ==
  ASSUME NEW S, IsFiniteSet(S), S # {}, NEW gws, \A g \in S : gws[g] \in Nat
  PROVE  \E g \in S : \A h \in S : gws[h] <= gws[g]
<1> DEFINE HasBest(T) == \E g \in T : \A h \in T : gws[h] <= gws[g]
           D == {T \in SUBSET S : T # {} /\ ~ HasBest(T)}
           R == StrictSubsetOrdering(S)
<1> SUFFICES ASSUME D # {} PROVE FALSE
  BY DEF D
<1>1. IsWellFoundedOn(R, SUBSET S) /\ D \subseteq SUBSET S
  BY FS_StrictSubsetOrderingWellFounded, FS_FiniteSubsetsOfFinite
<1> HIDE DEF R, D
<1>2. PICK T \in D : \A U \in D : ~ (<<U, T>> \in R)
  BY <1>1, WFMin
<1>3. T \in SUBSET S /\ T # {} /\ ~ HasBest(T)
  BY <1>2 DEF D
<1>4. PICK x \in T : TRUE
  BY <1>3
<1>5. T \ {x} \notin D
  BY <1>2, <1>3, <1>4 DEF R, StrictSubsetOrdering
<1>6. T \ {x} = {} \/ HasBest(T \ {x})
  BY <1>3, <1>5 DEF D
<1>7. CASE T \ {x} = {}
  <2>1. \A h \in T : h = x
    BY <1>7
  <2> QED BY <1>3, <1>4, <2>1
<1>8. CASE HasBest(T \ {x})
  <2>1. PICK y \in T \ {x} : \A h \in T \ {x} : gws[h] <= gws[y]
    BY <1>8
  <2>2. \A h \in T : gws[h] \in Nat
    BY <1>3
  <2>3. CASE gws[x] <= gws[y]
    BY <1>3, <2>1, <2>3
  <2>4. CASE gws[y] < gws[x]
    <3>1. \A h \in T : gws[h] <= gws[x]
      BY <1>4, <2>1, <2>2, <2>4
    <3> QED BY <1>3, <1>4, <3>1
  <2> QED BY <1>4, <2>1, <2>2, <2>3, <2>4
<1> QED BY <1>6, <1>7, <1>8

(* A set of addresses with a member has a lowest one.                      *)
LEMMA LeastAddress ==
  ASSUME NEW S, S \subseteq Nat, NEW g \in S
  PROVE  \E h \in S : \A k \in S : h <= k
<1> DEFINE R == {ss \in Nat \X Nat : ss[1] < ss[2]}
<1>1. IsWellFoundedOn(R, Nat)
  BY NatLessThanWellFounded, Zenon DEF OpToRel
<1>2. PICK h \in S : \A k \in S : ~ (<<k, h>> \in R)
  BY <1>1, WFMin, Zenon
<1>3. ASSUME NEW k \in S PROVE h <= k
  <2>1. h \in Nat /\ k \in Nat
    BY <1>2
  <2>2. ~ (<<k, h>> \in {ss \in Nat \X Nat : ss[1] < ss[2]})
    BY <1>2, <1>3
  <2> HIDE DEF R
  <2> QED BY <2>1, <2>2
<1> QED BY <1>3, Zenon

(* Only a window-1 opportunity that finds no gateway is tried again.       *)
LEMMA SecondTry ==
  ASSUME GwInv, NsInv, [NsNext]_nsVars, NEW d \in Devices,
         NEW e \in opp[d], e.w = 1, e.left = 0, NEW f \in opp'[d], f.w = 2
  PROVE  BestGateway(d, 1) = {}
<1>1. opp[d] = {e} /\ opp \in [Devices -> SUBSET [w : Windows, left : Nat]]
  BY OpportunityDue DEF NsInv, NsTypeOK
<1>2. opp'[d] # opp[d]
  BY <1>1
<1>3. ASSUME NEW m \in toServer, ServerReceive(m) PROVE FALSE
  <2>1. m.pkt.dev \in Devices
    BY <1>3, ReceivedIsLast DEF ServerReceive
  <2> QED BY <1>1, <1>2, <1>3, <2>1 DEF ServerReceive
<1>4. ASSUME NEW c \in Devices, OnReceiveWindowOpportunity(c)
      PROVE  BestGateway(d, 1) = {}
  <2>1. PICK s \in opp[c] :
          \/ /\ s.w = 1 /\ BestGateway(c, 1) = {}
             /\ opp' = [opp EXCEPT ![c] = {[w |-> 2, left |-> RxDelay]}]
          \/ opp' = [opp EXCEPT ![c] = {}]
    BY <1>4, OpportunityEffect
  <2>2. c = d
    BY <1>1, <1>2, <2>1
  <2> QED BY <1>1, <2>1, <2>2
<1>5. ~ NsTick
  BY DEF NsTick, NothingDue
<1>6. ASSUME NEW c \in Devices, DeviceSends(c) PROVE FALSE
  BY <1>2, <1>6, DeviceSendsEffect DEF serverVars
<1>7. ~ UNCHANGED serverVars
  BY <1>2 DEF serverVars
<1> QED BY <1>3, <1>4, <1>5, <1>6, <1>7 DEF NsNext, NsScheduler, nsVars

(* The second window is used only when no gateway of the server's map      *)
(* could have transmitted in the first, and whoever received the packet    *)
(* and is not in the map measured the same power as one that is.           *)
THEOREM FirstWindowPreferred ==
  ASSUME SilentLongEnough
  PROVE  NsSpec => FirstWindowIfPossible
<1>1. ASSUME GwInv, NsInv, [NsNext]_nsVars, NEW d \in Devices,
             NEW e \in opp[d], e.w = 1, e.left = 0, NEW f \in opp'[d], f.w = 2,
             NEW g \in Gateways, LastReceived(d).gws[g] # NotHeard
      PROVE  \E h \in Gateways : /\ h <= g /\ LastReceived(d).gws[h] = LastReceived(d).gws[g]
                                 /\ ~ IsAvailable(h, BandOf[1])
  <2> DEFINE gws == LastReceived(d).gws
             can == {h \in PowerMap(d) : IsAvailable(h, BandOf[1])}
  <2>1. received[d] # <<>>
    BY <1>1, OpportunityDue
  <2>2. /\ Len(received[d]) \in 1 .. Len(received[d])
        /\ received[d] \in Seq(Entries)
    BY <1>1, <2>1, LastFCntType
  <2>3. \A h \in Gateways : gws[h] \in Nat
    <3>1. LastReceived(d) \in Entries
      BY <2>2, ElementOfSeq DEF LastReceived
    <3> QED BY <3>1 DEF Entries
  <2>4. PICK h \in PowerMap(d) : h <= g /\ gws[h] = gws[g]
    <3> DEFINE same == {h \in Gateways : gws[h] = gws[g]}
    <3>1. PICK h \in same : \A k \in same : h <= k
      <4>1. same \subseteq Nat /\ g \in same
        BY <1>1, ServerAssumption
      <4> HIDE DEF same, gws
      <4> QED BY <4>1, LeastAddress
    <3>2. h \in Gateways /\ gws[h] = gws[g] /\ h <= g
      BY <1>1, <3>1
    <3>3. h \in PowerMap(d)
      BY <1>1, <3>1, <3>2 DEF PowerMap
    <3> QED BY <3>2, <3>3
  <2>5. BestGateway(d, 1) = {}
    BY <1>1, SecondTry
  <2>6. can \subseteq Gateways /\ IsFiniteSet(can)
    <3>1. can \subseteq Gateways
      BY DEF PowerMap
    <3> QED BY <3>1, FS_Subset, GatewayAssumption
  <2>7. can = {}
    <3>1. BestGateway(d, 1) = {k \in can : \A j \in can : gws[j] <= gws[k]}
      BY DEF BestGateway
    <3> HIDE DEF can, gws
    <3>2. can # {} => \E k \in can : \A j \in can : gws[j] <= gws[k]
      BY <2>3, <2>6, OneIsBest
    <3> QED BY <2>5, <3>1, <3>2
  <2> QED BY <2>4, <2>7 DEF PowerMap
<1>2. GwInv /\ NsInv /\ [NsNext]_nsVars =>
        \A d \in Devices :
          (\E e \in opp[d] : e.w = 1 /\ e.left = 0) /\ (\E e \in opp'[d] : e.w = 2)
            => LET gws == LastReceived(d).gws
               IN  \A g \in Gateways : gws[g] # NotHeard =>
                     \E h \in Gateways : /\ h <= g /\ gws[h] = gws[g]
                                         /\ ~ IsAvailable(h, BandOf[1])
  BY <1>1
<1> QED BY <1>2, NsInvariance, PTL DEF NsSpec, FirstWindowIfPossible
=============================================================================
