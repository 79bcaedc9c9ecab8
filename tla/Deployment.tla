------------------------------ MODULE Deployment ------------------------------
(***************************************************************************)
(* The programs of examples/: each is the sequence of helper calls its     *)
(* main makes, in its order, and then the simulation in which the          *)
(* applications send.  The helpers set up the devices, gateways, server    *)
(* and forwarders.  Sizes of networks are cut to MaxDevices and            *)
(* MaxGateways, runs to MaxPeriods intervals of the applications; what the *)
(* MAC does with a packet is in ClassAMac, here it goes on the air at      *)
(* once.  Printing, seeds and buildings are left out.  Time in seconds,    *)
(* powers in tenths of dBm, frequencies in units of 100 kHz.               *)
(***************************************************************************)
EXTENDS SpreadingFactors, Sequences

CONSTANTS
  MaxDevices, MaxGateways,  \* the size of a network that has no fixed one
  MaxPeriods,               \* intervals simulated
  Powers,                   \* received powers in a network of random positions
  Distances,                \* distances from the origin
  Studies                   \* programs that assign data rates otherwise

ASSUME DeploymentAssumption ==
  /\ MaxDevices \in 1 .. 250 /\ MaxGateways \in Nat \ {0}
  /\ MaxPeriods \in Nat \ {0}
  /\ Powers \subseteq Int /\ Distances \subseteq Nat

-----------------------------------------------------------------------------
(* Regions of LorawanMacHelper: sub-bands and channels of the devices.     *)
Regions ==
  [EU |-> [bands |-> {<<8670, 8686>>, <<8687, 8692>>, <<8694, 8696>>},
           channels |-> {8671, 8673, 8675, 8677, 8679, 8681, 8683, 8685}],
   SingleChannel |-> [bands |-> {<<8680, 8686>>, <<8687, 8692>>, <<8694, 8696>>},
                      channels |-> {8681}],
   ALOHA |-> [bands |-> {<<8680, 8686>>}, channels |-> {8681}]]

(* Frequencies of a gateway: LoraPhyHelper adds the first eight, whatever  *)
(* the region; LorawanMacHelper then adds those of the region.             *)
PhyFrequencies == {8671, 8673, 8675, 8677, 8679, 8681, 8683, 8685}
GwFrequencies(region) == PhyFrequencies \cup Regions[region].channels

InBand(region, frequency) ==
  \E b \in Regions[region].bands : b[1] < frequency /\ frequency < b[2]

AddrSpace == 2^25
FirstAddr == 1864   \* nwkAddr of the programs; their network is always 54
NoGenerator == 0    \* m_address of a MAC that is given no address

-----------------------------------------------------------------------------
(* The calls of a program.                                                 *)
EndDevicesAt(rate) == [op |-> "devices", addresses |-> "generator", rate |-> rate]
EndDevices == EndDevicesAt(0)
BareEndDevices == [EndDevices EXCEPT !.addresses = "none"]
GatewaysCall == [op |-> "gateways"]
SetUp == [op |-> "up", rtx |-> FALSE]
SetUpForRtx == [op |-> "up", rtx |-> TRUE]
Periodic(interval, stop) == [op |-> "periodic", interval |-> interval, stop |-> stop]
Random(mean, stop) == [op |-> "random", interval |-> mean, stop |-> stop]
OneShot(at, stop) == [op |-> "oneShot", at |-> at, stop |-> stop]
ServerWith(adr) == [op |-> "server", adr |-> adr]
Server == ServerWith({TRUE, FALSE})   \* m_adrEnabled is not initialized
Forwarders == [op |-> "forwarders"]

Never == -1   \* the stop time of an application that is given none
Hour == 3600

(* A program: its region, its numbers of devices and gateways, the powers  *)
(* its positions give, its calls, and when it stops the simulator.         *)
Program(region, devices, gateways, powers, calls, until) ==
  [region |-> region, devices |-> devices, gateways |-> gateways, powers |-> powers,
   calls |-> calls, until |-> until, moves |-> <<>>]

AdrExample(adr) ==
  Program("EU", MaxDevices, MaxGateways, Powers,
    <<GatewaysCall, EndDevices, Periodic(1200, Never), ServerWith({adr}), Forwarders>>,
    20 * 1200)

AdrInitialized ==   \* with initializeSF
  [AdrExample(TRUE) EXCEPT !.calls =
    <<GatewaysCall, EndDevices, Periodic(1200, Never), SetUp, ServerWith({TRUE}),
      Forwarders>>]

AlohaThroughput ==
  Program("ALOHA", MaxDevices, 1, Powers,
    <<EndDevices, GatewaysCall, Periodic(100, 100), Server, Forwarders, SetUp>>,
    100 + Hour)

CompleteNetwork ==
  Program("EU", MaxDevices, 1, Powers,
    <<EndDevices, GatewaysCall, SetUp, Periodic(600, 600), Server, Forwarders>>,
    600 + Hour)

(* The device starts out of range, comes in, leaves and comes back.        *)
Near == -600
Far  == -1900
Away == -1441   \* at 10 km
FrameCounterUpdate ==
  [Program("EU", 1, 1, {Far},
     <<EndDevicesAt(5), GatewaysCall, OneShot(0, Hour), OneShot(100, Hour), OneShot(200, Hour),
       Server, Forwarders>>,
     Hour + Hour)
   EXCEPT !.moves = <<[at |-> 110, power |-> Near], [at |-> 201, power |-> Away],
                      [at |-> 204, power |-> Near]>>]

EnergyModel ==   \* no address generator and no server
  Program("EU", 1, 1, {-689},
    <<BareEndDevices, GatewaysCall, SetUp, Periodic(5, Never)>>, 24 * Hour)

MultiClassSim ==
  Program("EU", MaxDevices, MaxGateways, Powers,
    <<EndDevices, GatewaysCall, SetUpForRtx, Random(600, 600), Server, Forwarders>>,
    600 + Hour)

NetworkSim ==
  Program("EU", MaxDevices, 1, Powers,
    <<EndDevices, GatewaysCall, SetUp, Random(60, Hour), Server, Forwarders>>,
    Hour + Hour)

NetworkServerExample ==   \* the second device is at 100 m, and confirmed
  Program("EU", 2, 1, {-1358, -689},
    <<EndDevices, [op |-> "oneShots", at |-> <<4, 10>>], GatewaysCall, SetUp,
      Server, Forwarders>>,
    800)

ParallelReception ==
  Program("SingleChannel", 6, 1, {140},
    <<BareEndDevices, GatewaysCall, OneShot(1, Never), [op |-> "rates"]>>, 2 * Hour)

SimpleNetwork ==
  Program("EU", 1, 1, {-1065},
    <<BareEndDevices, GatewaysCall, OneShot(2, Never), SetUp>>, 2 * Hour)

(* The functions that assign data rates, as a study may call them.         *)
RateCalls ==
  [op : {"up"}, rtx : BOOLEAN] \cup [op : {"EIB", "EAB"}]
    \cup [op : {"prop"}, prop1 : Nat, prop2 : Nat \ {0}]
    \cup [op : {"strategy"}, edge : Nat, edge2 : Nat,
          mode : Shifts \cup {"CLASS_TWO", "CLASS_THREE", "ALM_FI", "ALM_PI"}]
ASSUME StudiesAssumption == Studies \subseteq Seq(RateCalls)

(* A program that only assigns data rates, by the calls of a study.        *)
Study(calls) ==
  Program("EU", MaxDevices, 1, Powers, <<EndDevices, GatewaysCall>> \o calls, 0)

Programs ==
  {AdrExample(TRUE), AdrExample(FALSE), AdrInitialized, AlohaThroughput, CompleteNetwork,
   FrameCounterUpdate, EnergyModel, MultiClassSim, NetworkSim, NetworkServerExample,
   ParallelReception, SimpleNetwork} \cup {Study(s) : s \in Studies}

-----------------------------------------------------------------------------
VARIABLES
  program,   \* the program that runs
  step,      \* the number of its calls made
  rx,        \* rx[d][g]: the power of 14 dBm of device d at gateway g
  pos,       \* the distance of each device from the origin
  nextAddr,  \* m_currentNwkAddr
  addr, dr,  \* of the devices installed: address, data rate
  quantity,  \* the counts returned last
  reach,     \* how data rates were set: a set of "up", "rtx" and "shifted"
  gateways,  \* for each gateway installed, what its LoRa device passes packets to
  linked,    \* whether the gateways have a link to the server
  nodes,     \* m_endDeviceStatuses: the device of each address, when there is a server
  adr,       \* whether the server has an ADR component
  apps,      \* the applications, in the order they were installed
  moves,     \* the moves still to come
  now,       \* Simulator::Now, -1 before Run
  stored,    \* pairs of a sender and the device its uplink was recorded for
  crashed    \* an assertion failed or a pointer was null

net == <<nextAddr, addr, dr, quantity, reach, gateways, linked, nodes, adr>>
dpVars == <<program, step, rx, pos, net, apps, moves, now, stored, crashed>>

Devices == 1 .. program.devices
Gateways == 1 .. program.gateways
None == {}   \* no event

DpInit ==
  /\ program \in Programs
  /\ step = 0
  /\ rx \in [1 .. program.devices -> [1 .. program.gateways -> program.powers]]
  /\ pos \in [1 .. program.devices -> IF program.until = 0 THEN Distances ELSE {0}]
  /\ nextAddr = FirstAddr
  /\ addr = <<>> /\ dr = <<>> /\ quantity = Zero /\ reach = {}
  /\ gateways = <<>> /\ linked = FALSE /\ nodes = <<>> /\ adr = FALSE
  /\ apps = <<>> /\ moves = program.moves /\ now = -1
  /\ stored = {} /\ crashed = FALSE

-----------------------------------------------------------------------------
(* Setting up: each action is a call of a helper.                          *)
Calls(op) ==
  /\ ~ crashed /\ step < Len(program.calls)
  /\ program.calls[step + 1].op = op
  /\ step' = step + 1
  /\ UNCHANGED <<program, rx, pos, moves, now, stored>>
Args == program.calls[step + 1]

(* Mutant: every device gets the address the generator holds. *)
NoNextAddress(n) == [d \in 1 .. n |-> nextAddr]
(* NextAddress, once for each device: the address before the increment.    *)
NextAddress(n) == [d \in 1 .. n |-> (nextAddr + d - 1) % AddrSpace]

(* LoraHelper::Install of end devices.                                     *)
InstallEndDevices ==
  /\ Calls("devices")
  /\ IF Args.addresses = "generator"
     THEN /\ addr' = NextAddress(program.devices)
          /\ nextAddr' = (nextAddr + program.devices) % AddrSpace
     ELSE /\ addr' = [d \in Devices |-> NoGenerator]
          /\ UNCHANGED nextAddr
  /\ dr' = [d \in Devices |-> Args.rate]
  /\ UNCHANGED <<quantity, reach, gateways, linked, nodes, adr, apps, crashed>>

(* LoraHelper::Install of gateways: Node::AddDevice takes their packets.   *)
InstallGateways ==
  /\ Calls("gateways")
  /\ gateways' = [g \in Gateways |-> "node"]
  /\ UNCHANGED <<nextAddr, addr, dr, quantity, reach, linked, nodes, adr, apps, crashed>>

(* Data rates by classes; the counts of a call that starts from zero.      *)
Assigned(class, how) ==
  /\ dr' = [d \in Devices |-> RateOf(class[d])]
  /\ quantity' = Counts(class)
  /\ reach' = how
  /\ UNCHANGED <<nextAddr, addr, gateways, linked, nodes, adr, apps, crashed>>

SetSpreadingFactorsUp ==
  /\ Calls("up")
  /\ Assigned(Up(rx, IF Args.rtx THEN EdSensitivity ELSE GwSensitivity),
              IF Args.rtx THEN {"up", "rtx"} ELSE {"up"})

SetSpreadingFactorsEIB == Calls("EIB") /\ Assigned(EIB(pos), {})
SetSpreadingFactorsEAB == Calls("EAB") /\ Assigned(EAB(pos), {})
SetSpreadingFactorsProp ==
  Calls("prop") /\ Assigned(Prop(pos, Args.prop1, Args.prop2), {})

(* A shift by two wraps data rate 1, and with it the index of the count.   *)
SetSpreadingFactorsStrategies ==
  /\ Calls("strategy")
  /\ IF Args.mode = "SHIFT_TWO" /\ \E d \in Devices : d > Args.edge /\ dr[d] = 1
     THEN crashed' = TRUE /\ UNCHANGED <<dr, quantity, reach>>
     ELSE /\ dr' = Strategy(Args, dr)
          /\ quantity' = StrategyCounts(Args, dr, quantity)
          /\ reach' = IF Args.mode \in Shifts THEN reach \cup {"shifted"} ELSE {}
          /\ UNCHANGED crashed
  /\ UNCHANGED <<nextAddr, addr, gateways, linked, nodes, adr, apps>>

(* SetDataRate (5 - i) of the program that receives in parallel.           *)
SetDataRates ==
  /\ Calls("rates")
  /\ dr' = [d \in Devices |-> 6 - d]
  /\ UNCHANGED <<nextAddr, addr, quantity, reach, gateways, linked, nodes, adr, apps, crashed>>

(* NetworkServerHelper: a link to each gateway, and a status for the first *)
(* device of each address.                                                 *)
InstallServer ==
  /\ Calls("server")
  /\ linked' = TRUE
  /\ nodes' = [a \in {addr[d] : d \in Devices} |-> Min({d \in Devices : addr[d] = a})]
  /\ adr' \in Args.adr
  /\ UNCHANGED <<nextAddr, addr, dr, quantity, reach, gateways, apps, crashed>>

(* ForwarderHelper takes the link the gateway has by then.                 *)
LinkNow == IF linked THEN "server" ELSE "null"
InstallForwarders ==
  /\ Calls("forwarders")
  /\ gateways' = [g \in Gateways |-> LinkNow]
  /\ UNCHANGED <<nextAddr, addr, dr, quantity, reach, linked, nodes, adr, apps, crashed>>

App(kind, d, delay, interval, stop) ==
  [kind |-> kind, dev |-> d, delay |-> delay, interval |-> interval, stop |-> stop,
   due |-> None, ends |-> None, sent |-> 0, last |-> -1]

Installed(kind, delays(_), interval, stop) ==
  /\ apps' = apps \o [d \in Devices |-> App(kind, d, delays(d), interval, stop)]
  /\ UNCHANGED <<net, crashed>>

(* PeriodicSenderHelper: the first delay is uniform below the interval.    *)
InstallPeriodic ==
  /\ Calls("periodic")
  /\ \E delay \in [Devices -> {0, Args.interval - 1}] :
       Installed("periodic", LAMBDA d : delay[d], Args.interval, Args.stop)

(* RandomSenderHelper: exponential, so that every delay is possible.       *)
InstallRandom ==
  /\ Calls("random")
  /\ \E delay \in [Devices -> {0, 2 * Args.interval}] :
       Installed("random", LAMBDA d : delay[d], Args.interval, Args.stop)

InstallOneShot ==
  \/ Calls("oneShot") /\ Installed("oneShot", LAMBDA d : Args.at, 0, Args.stop)
  \/ Calls("oneShots") /\ Installed("oneShot", LAMBDA d : Args.at[d], 0, Never)

SetUpCalls ==
  \/ InstallEndDevices \/ InstallGateways \/ InstallServer \/ InstallForwarders
  \/ SetSpreadingFactorsUp \/ SetSpreadingFactorsEIB \/ SetSpreadingFactorsEAB
  \/ SetSpreadingFactorsProp \/ SetSpreadingFactorsStrategies \/ SetDataRates
  \/ InstallPeriodic \/ InstallRandom \/ InstallOneShot

-----------------------------------------------------------------------------
(* The simulation.  Stop events are scheduled before any packet is: at the *)
(* same time they run first.                                               *)
Longest == Max({apps[i].interval : i \in DOMAIN apps} \cup {0})
End == IF Longest = 0 THEN program.until ELSE Min({program.until, MaxPeriods * Longest})

Events == (UNION {apps[i].due \cup apps[i].ends : i \in DOMAIN apps})
            \cup (IF moves = <<>> THEN {} ELSE {moves[1].at})
Happens(t) == /\ ~ crashed /\ now # -1
            /\ Events # {} /\ t = Min(Events) /\ t < End
            /\ now' = t

(* Run: each StartApplication, at time 0.                                  *)
Started(a) ==
  [a EXCEPT !.due = {a.delay}, !.ends = IF a.stop = Never THEN None ELSE {a.stop}]
Run ==
  /\ ~ crashed /\ now = -1 /\ step = Len(program.calls)
  /\ now' = 0
  /\ apps' = [i \in DOMAIN apps |-> Started(apps[i])]
  /\ UNCHANGED <<program, step, rx, pos, net, moves, stored, crashed>>

(* Mutant: the packet already scheduled is not cancelled. *)
StillDue(a) == [a EXCEPT !.ends = None]
Stopped(a) == [a EXCEPT !.ends = None, !.due = None]
StopApplication(i) ==
  /\ \E t \in apps[i].ends : Happens(t)
  /\ apps' = [apps EXCEPT ![i] = Stopped(@)]
  /\ UNCHANGED <<program, step, rx, pos, net, moves, stored, crashed>>

Channels == Regions[program.region].channels

(* The uplink at the gateways that receive it: above the sensitivity, and  *)
(* whatever interference leaves.                                           *)
Hears(d, g) ==
  /\ rx[d][g] >= GwSensitivity[ClassOf(dr[d])]
  /\ Channels \cap GwFrequencies(program.region) # {}

(* GatewayLorawanMac::Receive, LoraNetDevice::Receive, the forwarder, and  *)
(* NetworkServer::Receive with the look-up of the address.                 *)
Uplink(d, heard) ==
  LET forwarded == {g \in heard : gateways[g] # "node"}
  IN  IF \/ \E g \in forwarded : gateways[g] = "null"
         \/ forwarded # {} /\ addr[d] \notin DOMAIN nodes
      THEN crashed' = TRUE /\ UNCHANGED stored
      ELSE /\ stored' = IF forwarded = {} THEN stored
                        ELSE stored \cup {<<d, nodes[addr[d]]>>}
           /\ UNCHANGED crashed

NextDelays(a) ==
  CASE a.kind = "periodic" -> {{now' + a.interval}}
    [] a.kind = "random" -> {{now' + a.interval \div 2}, {now' + 2 * a.interval}}
    [] a.kind = "oneShot" -> {None}

(* SendPacket of the three applications.                                   *)
SendPacket(i) ==
  LET a == apps[i]
  IN  /\ \E t \in a.due : t \notin a.ends /\ Happens(t)
      /\ \E due \in NextDelays(a) :
           apps' = [apps EXCEPT ![i] = [a EXCEPT !.due = due, !.sent = @ + 1, !.last = now']]
      /\ \/ /\ \E f \in Channels : ~ InBand(program.region, f)
            /\ crashed' = TRUE /\ UNCHANGED stored
         \/ \E heard \in SUBSET {g \in Gateways : Hears(a.dev, g)} : Uplink(a.dev, heard)
      /\ UNCHANGED <<program, step, rx, pos, net, moves>>

(* ChangeEndDevicePosition.                                                *)
Move ==
  /\ moves # <<>>
  /\ Happens(moves[1].at)
  /\ rx' = [d \in Devices |-> [g \in Gateways |-> moves[1].power]]
  /\ moves' = Tail(moves)
  /\ UNCHANGED <<program, step, pos, net, apps, stored, crashed>>

Simulation == Run \/ Move \/ \E i \in DOMAIN apps : SendPacket(i) \/ StopApplication(i)
DpNext == SetUpCalls \/ Simulation
DpSpec == DpInit /\ [][DpNext]_dpVars

-----------------------------------------------------------------------------
(* A device that SetSpreadingFactorsUp finds in range is heard by a        *)
(* gateway at the data rate it gets, and would be by none at a faster one; *)
(* with retransmissions enabled it hears that gateway too, so that an      *)
(* acknowledgment in the first window reaches it.  A shift to slower rates *)
(* keeps that.  Out of range the data rate is 0 (SetSpreadingFactorsUp,    *)
(* StartReceive of both radios).                                           *)
Sensitivity == IF "rtx" \in reach THEN EdSensitivity ELSE GwSensitivity
InRange(d, rate) == \E g \in Gateways : rx[d][g] > Sensitivity[ClassOf(rate)]
HeardAt(d, rate) ==
  \E g \in Gateways : /\ rx[d][g] >= GwSensitivity[ClassOf(rate)]
                      /\ "rtx" \in reach => rx[d][g] >= EdSensitivity[ClassOf(rate)]
BestRate ==
  "up" \in reach /\ now = -1 =>
    \A d \in Devices :
      IF InRange(d, 0)
      THEN /\ HeardAt(d, dr[d])
           /\ "shifted" \in reach \/ \A r \in dr[d] + 1 .. 5 : ~ InRange(d, r)
      ELSE dr[d] = 0

(* The counts a program reports are those of the data rates the devices    *)
(* have; devices out of range are in none (sfQuantity).                    *)
CountsMatch ==
  quantity # Zero /\ ~ crashed =>
    \A c \in Classes \ {6} : quantity[c] = Cardinality({d \in Devices : ClassOf(dr[d]) = c})

(* In every program, an uplink a gateway hands on reaches a server that    *)
(* knows its sender, by whatever order the helpers were called in, and the *)
(* sender is the device the server records it for (AddNode by address,     *)
(* Forwarder::ReceiveFromLora, NetworkStatus::OnReceivedPacket).           *)
ServerKnowsSender == ~ crashed /\ \A s \in stored : s[1] = s[2]

(* A periodic application sends once in each interval from its delay on,   *)
(* a one-shot application once, and none sends when it has stopped         *)
(* (StartApplication, SendPacket, StopApplication).                        *)
Planned(a, t) ==
  Cardinality({k \in 0 .. MaxPeriods : /\ a.kind = "periodic" \/ k = 0
                                       /\ a.delay + k * a.interval < t
                                       /\ a.stop = Never \/ a.delay + k * a.interval < a.stop})
SendsOnTime ==
  now >= 0 =>
    \A i \in DOMAIN apps :
      LET a == apps[i]
      IN  /\ a.sent > 0 /\ a.stop # Never => a.last < a.stop
          /\ a.kind # "random" => a.sent \in {Planned(a, now), Planned(a, now + 1)}
===============================================================================
