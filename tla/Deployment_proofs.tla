--------------------------- MODULE Deployment_proofs ---------------------------
(***************************************************************************)
(* The programs, proved for networks of any size and any positions: which  *)
(* order of helper calls they share, and that by this order data rates fit *)
(* the powers, counts fit the data rates, the server knows every sender    *)
(* it hears of, and applications send when they should.                    *)
(***************************************************************************)
EXTENDS Deployment, FiniteSetTheorems, SequenceTheorems, WellFoundedInduction, TLAPS

-----------------------------------------------------------------------------
(* What the programs have in common.                                       *)
RateOps == {"up", "EIB", "EAB", "prop", "strategy"}

CallOK(p, c) ==
  /\ c.op \in RateOps => c \in RateCalls
  /\ c.op = "devices" => c.rate \in 0 .. 5
  /\ c.op \in {"periodic", "random"} =>
       c.interval \in Nat \ {0} /\ c.stop \in Nat \cup {Never}
  /\ c.op = "oneShot" => c.at \in Nat /\ c.stop \in Nat \cup {Never}
  /\ c.op = "oneShots" => \A d \in 1 .. p.devices : c.at[d] \in Nat
  /\ c.op = "server" => c.adr \subseteq BOOLEAN
  /\ c.op = "rates" => p.devices <= 6

Places(p) == 1 .. Len(p.calls)

(* The devices are installed once, before a server or a data rate needs    *)
(* them.                                                                   *)
DevicesFirst(p) ==
  /\ \E i \in Places(p) : p.calls[i].op = "devices"
  /\ \A i, j \in Places(p) :
       p.calls[i].op = "devices" =>
         /\ p.calls[j].op \in RateOps \cup {"rates", "server"} => i < j
         /\ p.calls[j].op = "devices" => i = j

(* Devices get their addresses from a generator.                           *)
Generated(p) ==
  \A i \in Places(p) : p.calls[i].op = "devices" => p.calls[i].addresses = "generator"

(* The forwarders find a server, which knows devices by their addresses.   *)
ServerFirst(p) ==
  /\ \E i \in Places(p) : p.calls[i].op = "gateways"
  /\ \A i \in Places(p) :
       p.calls[i].op = "forwarders" =>
         /\ \E j \in 1 .. i - 1 : p.calls[j].op = "server"
         /\ Generated(p)

(* Rates given device by device are not assigned again.                    *)
GivenRates(p) ==
  \E i \in Places(p) :
    \/ p.calls[i].op = "rates"
    \/ p.calls[i].op = "devices" /\ p.calls[i].rate # 0
RatesOnce(p) == GivenRates(p) => \A i \in Places(p) : p.calls[i].op \notin RateOps

OneInterval(p) ==
  \A i, j \in Places(p) :
    p.calls[i].op \in {"periodic", "random"} /\ p.calls[j].op \in {"periodic", "random"} =>
      p.calls[i].interval = p.calls[j].interval

(* Only a study shifts data rates or gives classes of them.                *)
StudiesOnly(p) ==
  (\E i \in Places(p) : p.calls[i].op = "strategy") => \E s \in Studies : p = Study(s)

Ordered(p) ==
  /\ p.region \in DOMAIN Regions /\ p.devices \in 1 .. 250 /\ p.gateways \in Nat \ {0}
  /\ p.powers \subseteq Int /\ p.until \in Nat
  /\ p.moves \in Seq([at : Nat, power : Int])
  /\ \A i, j \in DOMAIN p.moves : i <= j => p.moves[i].at <= p.moves[j].at
  /\ Len(p.calls) \in Nat
  /\ \A i \in Places(p) : CallOK(p, p.calls[i])
  /\ DevicesFirst(p) /\ ServerFirst(p) /\ RatesOnce(p) /\ OneInterval(p)
  /\ StudiesOnly(p)

(* A shift by two wraps data rate 1, which SetSpreadingFactorsProp never   *)
(* gives: the studies shift by two only right after it.                    *)
IsStrategy(c, mode) == c.op = "strategy" /\ c.mode = mode
ShiftsKeepRates ==
  \A s \in Studies : \A i \in 1 .. Len(s) :
    IsStrategy(s[i], "SHIFT_TWO") => i > 1 /\ s[i - 1].op = "prop"

(* CLASS_THREE counts every device in and none out: the studies call it    *)
(* first, when all counts are 0.                                           *)
CountsFromZero ==
  \A s \in Studies : \A i \in 1 .. Len(s) : IsStrategy(s[i], "CLASS_THREE") => i = 1

-----------------------------------------------------------------------------
(* The invariants.                                                         *)
Made(ops) == \E i \in 1 .. step : program.calls[i].op \in ops

AppKinds == {"periodic", "random", "oneShot"}
AppRecords ==
  [kind : AppKinds, dev : Devices, delay : Nat, interval : Nat, stop : Nat \cup {Never},
   due : SUBSET Nat, ends : SUBSET Nat, sent : Nat, last : Nat \cup {-1}]

DpTypeOK ==
  /\ program \in Programs /\ step \in 0 .. Len(program.calls)
  /\ rx \in [Devices -> [Gateways -> Int]] /\ pos \in [Devices -> Nat]
  /\ Made({"devices"}) => dr \in [Devices -> 0 .. 5]
  /\ quantity \in [Classes -> 0 .. 255]
  /\ reach \subseteq {"up", "rtx", "shifted"}
  /\ moves \in Seq([at : Nat, power : Int])
  /\ now \in Nat \cup {-1}
  /\ now # -1 => step = Len(program.calls)
  /\ apps \in Seq(AppRecords)

(* Nothing assigns a data rate before the devices are there.               *)
RatesAfterDevices == reach # {} => Made(RateOps)

(* What an uplink needs on its way to the status of its sender.            *)
Wired ==
  /\ ~ Made({"devices"}) => nextAddr = FirstAddr
  /\ Made({"devices"}) /\ Generated(program) =>
       addr \in [Devices -> Nat] /\ \A d \in Devices : addr[d] = FirstAddr + d - 1
  /\ Made({"server"}) => linked
  /\ Made({"server"}) /\ Generated(program) =>
       /\ DOMAIN nodes = {addr[d] : d \in Devices}
       /\ \A d \in Devices : nodes[addr[d]] = d
  /\ Made({"gateways", "forwarders"}) =>
       /\ gateways \in [Gateways -> {"node", "server"}]
       /\ \A g \in Gateways : gateways[g] = "server" => Made({"forwarders"})

(* After SetSpreadingFactorsProp no device has data rate 1.                *)
ThirdsAreFast ==
  step > 0 /\ program.calls[step].op = "prop" => \A d \in Devices : dr[d] \in 3 .. 5

CountsInv ==
  IF GivenRates(program) \/ ~ Made({"devices"}) THEN quantity = Zero
  ELSE /\ \A c \in Classes \ {6} :
            quantity[c] = Cardinality({d \in Devices : ClassOf(dr[d]) = c})
       /\ ~ Made(RateOps) => quantity = Zero /\ \A d \in Devices : dr[d] = 0

(* An application that runs: its next packet, and those it has sent.       *)
SendTime(a, k) == a.delay + k * a.interval
AwaitsStop(a, t) ==
  \/ a.ends = {a.stop} /\ a.stop # Never /\ t <= a.stop
  \/ a.ends = {} /\ (a.stop = Never \/ (a.due = {} /\ a.stop <= t))
KeepsPeriod(a) ==
  /\ a.due \subseteq {SendTime(a, a.sent)}
  /\ a.due = {} => a.stop # Never /\ a.stop <= SendTime(a, a.sent)
  /\ a.sent > 0 => a.last = SendTime(a, a.sent - 1) /\ a.sent <= MaxPeriods
SendsOnce(a) ==
  /\ a.sent <= 1
  /\ a.sent = 0 => a.due \subseteq {a.delay}
  /\ a.sent = 0 /\ a.due = {} => a.stop # Never /\ a.stop <= a.delay
  /\ a.sent = 1 => a.due = {} /\ a.last = a.delay
Running(a, t) ==
  /\ AwaitsStop(a, t)
  /\ \A u \in a.due : t <= u
  /\ a.sent > 0 => a.last <= t /\ (a.stop # Never => a.last < a.stop)
  /\ a.kind = "periodic" => KeepsPeriod(a)
  /\ a.kind = "oneShot" => SendsOnce(a)

Intervals ==
  {program.calls[i].interval : i \in {j \in Places(program) :
                                      program.calls[j].op \in {"periodic", "random"}}}
IntervalOK(a) == IF a.kind = "oneShot" THEN a.interval = 0 ELSE a.interval \in Intervals \ {0}
AppsInv ==
  \A i \in DOMAIN apps :
    /\ IntervalOK(apps[i])
    /\ IF now = -1 THEN apps[i].due = {} /\ apps[i].ends = {} /\ apps[i].sent = 0
       ELSE Running(apps[i], now)
MovesInv ==
  /\ \A i, j \in DOMAIN moves : i <= j => moves[i].at <= moves[j].at
  /\ now # -1 => \A i \in DOMAIN moves : now <= moves[i].at

-----------------------------------------------------------------------------
(* The programs are ordered.                                               *)
LEMMA ProgramFields ==
  ASSUME NEW region, NEW devices, NEW gws, NEW powers, NEW calls, NEW until
  PROVE  LET p == Program(region, devices, gws, powers, calls, until)
         IN  /\ p.region = region /\ p.devices = devices /\ p.gateways = gws
             /\ p.powers = powers /\ p.calls = calls /\ p.until = until
             /\ p.moves = <<>>
BY DEF Program

LEMMA CallFields ==
  /\ GatewaysCall.op = "gateways" /\ Forwarders.op = "forwarders"
  /\ EndDevices = EndDevicesAt(0)
  /\ \A r : EndDevicesAt(r).op = "devices" /\ EndDevicesAt(r).addresses = "generator"
            /\ EndDevicesAt(r).rate = r
  /\ BareEndDevices.op = "devices" /\ BareEndDevices.rate = 0
  /\ SetUp.op = "up" /\ SetUp \in RateCalls
  /\ SetUpForRtx.op = "up" /\ SetUpForRtx \in RateCalls
  /\ \A i, s : Periodic(i, s).op = "periodic" /\ Periodic(i, s).interval = i
               /\ Periodic(i, s).stop = s
  /\ \A i, s : Random(i, s).op = "random" /\ Random(i, s).interval = i /\ Random(i, s).stop = s
  /\ \A t, s : OneShot(t, s).op = "oneShot" /\ OneShot(t, s).at = t /\ OneShot(t, s).stop = s
  /\ Server = ServerWith(BOOLEAN)
  /\ \A b : ServerWith(b).op = "server" /\ ServerWith(b).adr = b
BY DEF GatewaysCall, Forwarders, EndDevices, EndDevicesAt, BareEndDevices, SetUp, SetUpForRtx,
       RateCalls,
       Periodic, Random, OneShot, Server, ServerWith

LEMMA CallsAreOK ==
  ASSUME NEW p
  PROVE  /\ CallOK(p, GatewaysCall) /\ CallOK(p, Forwarders) /\ CallOK(p, Server)
         /\ CallOK(p, SetUp) /\ CallOK(p, SetUpForRtx)
         /\ CallOK(p, EndDevices) /\ CallOK(p, BareEndDevices)
         /\ \A r \in 0 .. 5 : CallOK(p, EndDevicesAt(r))
         /\ \A b \in SUBSET BOOLEAN : CallOK(p, ServerWith(b))
         /\ \A i \in Nat \ {0}, s \in Nat \cup {-1} : CallOK(p, Periodic(i, s))
         /\ \A i \in Nat \ {0}, s \in Nat \cup {-1} : CallOK(p, Random(i, s))
         /\ \A t \in Nat, s \in Nat \cup {-1} : CallOK(p, OneShot(t, s))
         /\ p.devices <= 6 => CallOK(p, [op |-> "rates"])
         /\ p.devices = 2 => CallOK(p, [op |-> "oneShots", at |-> <<4, 10>>])
BY CallFields DEF CallOK, RateOps, Never

LEMMA AdrIsOrdered ==
  ASSUME NEW b \in BOOLEAN
  PROVE  Ordered(AdrExample(b))
<1> SUFFICES ASSUME NEW p, p = AdrExample(b) PROVE Ordered(p)
  OBVIOUS
<1> DEFINE c == <<GatewaysCall, EndDevices, Periodic(1200, Never),
                  ServerWith({b}), Forwarders>>
<1>1. /\ p.region = "EU" /\ p.devices = MaxDevices /\ p.gateways = MaxGateways
      /\ p.powers = Powers /\ p.calls = c /\ p.until = 20 * 1200
      /\ p.moves = <<>>
  BY ProgramFields DEF AdrExample
<1> HIDE DEF c
<1>2. PICK calls : calls = c
  OBVIOUS
<1>3. /\ Len(calls) = 5
      /\ calls[1] = GatewaysCall /\ calls[2] = EndDevices
      /\ calls[3] = Periodic(1200, Never) /\ calls[4] = ServerWith({b})
      /\ calls[5] = Forwarders
  BY <1>2 DEF c
<1>4. p.calls = calls
  BY <1>1, <1>2
<1>5. Places(p) = 1 .. 5
  <2>1. Len(p.calls) = 5
    BY <1>3, <1>4, Zenon
  <2> QED BY <2>1, Zenon DEF Places
<1>6. \A i \in Places(p) : CallOK(p, p.calls[i])
  BY <1>1, <1>3, <1>4, <1>5, CallsAreOK DEF Never, Hour
<1>7. /\ calls[1].op = "gateways"
      /\ calls[2].op = "devices" /\ calls[2].addresses = "generator" /\ calls[2].rate = 0
      /\ calls[3].op = "periodic" /\ calls[3].interval = 1200
      /\ calls[4].op = "server"
      /\ calls[5].op = "forwarders"
  BY <1>3, CallFields
<1>8. DevicesFirst(p) /\ ServerFirst(p)
  BY <1>4, <1>5, <1>7 DEF DevicesFirst, ServerFirst, Generated, RateOps
<1>9. RatesOnce(p) /\ OneInterval(p) /\ StudiesOnly(p)
  BY <1>4, <1>5, <1>7 DEF RatesOnce, RateOps, GivenRates, OneInterval, StudiesOnly
<1>10. p.region \in DOMAIN Regions
  BY <1>1 DEF Regions
<1>11. /\ p.moves \in Seq([at : Nat, power : Int])
       /\ \A i, j \in DOMAIN p.moves : i <= j => p.moves[i].at <= p.moves[j].at
  BY <1>1
<1>12. /\ p.devices \in 1 .. 250 /\ p.gateways \in Nat \ {0} /\ p.powers \subseteq Int
       /\ p.until \in Nat /\ Len(p.calls) \in Nat
  BY <1>1, <1>3, <1>4, DeploymentAssumption DEF DeploymentAssumption
<1> QED BY <1>6, <1>8, <1>9, <1>10, <1>11, <1>12 DEF Ordered

LEMMA AdrInitializedIsOrdered ==
  Ordered(AdrInitialized)
<1> SUFFICES ASSUME NEW p, p = AdrInitialized PROVE Ordered(p)
  OBVIOUS
<1> DEFINE c == <<GatewaysCall, EndDevices, Periodic(1200, Never), SetUp,
                  ServerWith({TRUE}), Forwarders>>
<1>1. /\ p.region = "EU" /\ p.devices = MaxDevices /\ p.gateways = MaxGateways
      /\ p.powers = Powers /\ p.calls = c /\ p.until = 20 * 1200
      /\ p.moves = <<>>
  BY ProgramFields DEF AdrInitialized, AdrExample, Program
<1> HIDE DEF c
<1>2. PICK calls : calls = c
  OBVIOUS
<1>3. /\ Len(calls) = 6
      /\ calls[1] = GatewaysCall /\ calls[2] = EndDevices
      /\ calls[3] = Periodic(1200, Never) /\ calls[4] = SetUp
      /\ calls[5] = ServerWith({TRUE}) /\ calls[6] = Forwarders
  BY <1>2 DEF c
<1>4. p.calls = calls
  BY <1>1, <1>2
<1>5. Places(p) = 1 .. 6
  <2>1. Len(p.calls) = 6
    BY <1>3, <1>4, Zenon
  <2> QED BY <2>1, Zenon DEF Places
<1>6. \A i \in Places(p) : CallOK(p, p.calls[i])
  <2>0. \A b \in BOOLEAN : CallOK(p, ServerWith({b}))
    BY CallsAreOK
  <2>1. CallOK(p, ServerWith({TRUE})) /\ CallOK(p, Periodic(1200, Never))
    <3>1. CallOK(p, ServerWith({TRUE}))
      BY <2>0, Zenon
    <3>2. CallOK(p, Periodic(1200, Never))
      BY SMTT(30), CallsAreOK DEF Never
    <3> QED BY <3>1, <3>2
  <2> QED BY <1>3, <1>4, <1>5, <2>1, CallsAreOK
<1>7. /\ calls[1].op = "gateways"
      /\ calls[2].op = "devices" /\ calls[2].addresses = "generator" /\ calls[2].rate = 0
      /\ calls[3].op = "periodic" /\ calls[3].interval = 1200
      /\ calls[4].op = "up"
      /\ calls[5].op = "server"
      /\ calls[6].op = "forwarders"
  BY <1>3, CallFields
<1>8. DevicesFirst(p) /\ ServerFirst(p)
  BY <1>4, <1>5, <1>7 DEF DevicesFirst, ServerFirst, Generated, RateOps
<1>9. RatesOnce(p) /\ OneInterval(p) /\ StudiesOnly(p)
  BY <1>4, <1>5, <1>7 DEF RatesOnce, RateOps, GivenRates, OneInterval, StudiesOnly
<1>10. p.region \in DOMAIN Regions
  BY <1>1 DEF Regions
<1>11. /\ p.moves \in Seq([at : Nat, power : Int])
       /\ \A i, j \in DOMAIN p.moves : i <= j => p.moves[i].at <= p.moves[j].at
  BY <1>1
<1>12. /\ p.devices \in 1 .. 250 /\ p.gateways \in Nat \ {0} /\ p.powers \subseteq Int
       /\ p.until \in Nat /\ Len(p.calls) \in Nat
  BY <1>1, <1>3, <1>4, DeploymentAssumption DEF DeploymentAssumption
<1> QED BY <1>6, <1>8, <1>9, <1>10, <1>11, <1>12 DEF Ordered

LEMMA AlohaIsOrdered ==
  Ordered(AlohaThroughput)
<1> SUFFICES ASSUME NEW p, p = AlohaThroughput PROVE Ordered(p)
  OBVIOUS
<1> DEFINE c == <<EndDevices, GatewaysCall, Periodic(100, 100), Server,
                  Forwarders, SetUp>>
<1>1. /\ p.region = "ALOHA" /\ p.devices = MaxDevices /\ p.gateways = 1
      /\ p.powers = Powers /\ p.calls = c /\ p.until = 3700
      /\ p.moves = <<>>
  BY ProgramFields DEF AlohaThroughput, Hour
<1>2. PICK calls : calls = c
  OBVIOUS
<1>3. /\ Len(calls) = 6
      /\ calls[1] = EndDevices /\ calls[2] = GatewaysCall
      /\ calls[3] = Periodic(100, 100) /\ calls[4] = Server
      /\ calls[5] = Forwarders /\ calls[6] = SetUp
  BY <1>2
<1>4. p.calls = calls
  BY <1>1, <1>2
<1> HIDE DEF c
<1>5. Places(p) = 1 .. 6
  <2>1. Len(p.calls) = 6
    BY <1>3, <1>4, Zenon
  <2> QED BY <2>1, Zenon DEF Places
<1>6. \A i \in Places(p) : CallOK(p, p.calls[i])
  BY <1>1, <1>3, <1>4, <1>5, CallsAreOK DEF Never, Hour
<1>7. /\ calls[1].op = "devices" /\ calls[1].addresses = "generator" /\ calls[1].rate = 0
      /\ calls[2].op = "gateways"
      /\ calls[3].op = "periodic" /\ calls[3].interval = 100
      /\ calls[4].op = "server"
      /\ calls[5].op = "forwarders"
      /\ calls[6].op = "up"
  BY <1>3, CallFields
<1>8. DevicesFirst(p) /\ ServerFirst(p)
  BY <1>4, <1>5, <1>7 DEF DevicesFirst, ServerFirst, Generated, RateOps
<1>9. RatesOnce(p) /\ OneInterval(p) /\ StudiesOnly(p)
  BY <1>4, <1>5, <1>7 DEF RatesOnce, RateOps, GivenRates, OneInterval, StudiesOnly
<1>10. p.region \in DOMAIN Regions
  BY <1>1 DEF Regions
<1>11. /\ p.moves \in Seq([at : Nat, power : Int])
       /\ \A i, j \in DOMAIN p.moves : i <= j => p.moves[i].at <= p.moves[j].at
  BY <1>1
<1>12. /\ p.devices \in 1 .. 250 /\ p.gateways \in Nat \ {0} /\ p.powers \subseteq Int
       /\ p.until \in Nat /\ Len(p.calls) \in Nat
  BY <1>1, <1>3, <1>4, DeploymentAssumption DEF DeploymentAssumption
<1> QED BY <1>6, <1>8, <1>9, <1>10, <1>11, <1>12 DEF Ordered

LEMMA CompleteIsOrdered ==
  Ordered(CompleteNetwork)
<1> SUFFICES ASSUME NEW p, p = CompleteNetwork PROVE Ordered(p)
  OBVIOUS
<1> DEFINE c == <<EndDevices, GatewaysCall, SetUp, Periodic(600, 600),
                  Server, Forwarders>>
<1>1. /\ p.region = "EU" /\ p.devices = MaxDevices /\ p.gateways = 1
      /\ p.powers = Powers /\ p.calls = c /\ p.until = 4200
      /\ p.moves = <<>>
  BY ProgramFields DEF CompleteNetwork, Hour
<1>2. PICK calls : calls = c
  OBVIOUS
<1>3. /\ Len(calls) = 6
      /\ calls[1] = EndDevices /\ calls[2] = GatewaysCall /\ calls[3] = SetUp
      /\ calls[4] = Periodic(600, 600) /\ calls[5] = Server
      /\ calls[6] = Forwarders
  BY <1>2
<1>4. p.calls = calls
  BY <1>1, <1>2
<1> HIDE DEF c
<1>5. Places(p) = 1 .. 6
  <2>1. Len(p.calls) = 6
    BY <1>3, <1>4, Zenon
  <2> QED BY <2>1, Zenon DEF Places
<1>6. \A i \in Places(p) : CallOK(p, p.calls[i])
  BY <1>1, <1>3, <1>4, <1>5, CallsAreOK DEF Never, Hour
<1>7. /\ calls[1].op = "devices" /\ calls[1].addresses = "generator" /\ calls[1].rate = 0
      /\ calls[2].op = "gateways"
      /\ calls[3].op = "up"
      /\ calls[4].op = "periodic" /\ calls[4].interval = 600
      /\ calls[5].op = "server"
      /\ calls[6].op = "forwarders"
  BY <1>3, CallFields
<1>8. DevicesFirst(p) /\ ServerFirst(p)
  BY <1>4, <1>5, <1>7 DEF DevicesFirst, ServerFirst, Generated, RateOps
<1>9. RatesOnce(p) /\ OneInterval(p) /\ StudiesOnly(p)
  BY <1>4, <1>5, <1>7 DEF RatesOnce, RateOps, GivenRates, OneInterval, StudiesOnly
<1>10. p.region \in DOMAIN Regions
  BY <1>1 DEF Regions
<1>11. /\ p.moves \in Seq([at : Nat, power : Int])
       /\ \A i, j \in DOMAIN p.moves : i <= j => p.moves[i].at <= p.moves[j].at
  BY <1>1
<1>12. /\ p.devices \in 1 .. 250 /\ p.gateways \in Nat \ {0} /\ p.powers \subseteq Int
       /\ p.until \in Nat /\ Len(p.calls) \in Nat
  BY <1>1, <1>3, <1>4, DeploymentAssumption DEF DeploymentAssumption
<1> QED BY <1>6, <1>8, <1>9, <1>10, <1>11, <1>12 DEF Ordered

LEMMA CounterUpdateIsOrdered ==
  Ordered(FrameCounterUpdate)
<1> SUFFICES ASSUME NEW p, p = FrameCounterUpdate PROVE Ordered(p)
  OBVIOUS
<1> DEFINE c == <<EndDevicesAt(5), GatewaysCall, OneShot(0, Hour),
                  OneShot(100, Hour), OneShot(200, Hour), Server, Forwarders>>
<1>1. /\ p.region = "EU" /\ p.devices = 1 /\ p.gateways = 1
      /\ p.powers = {-1900} /\ p.calls = c /\ p.until = 7200
      /\ p.moves = <<[at |-> 110, power |-> -600], [at |-> 201, power |-> -1441],
                       [at |-> 204, power |-> -600]>>
  BY ProgramFields DEF FrameCounterUpdate, Hour, Near, Far, Away, Program
<1>2. PICK calls : calls = c
  OBVIOUS
<1>3. /\ Len(calls) = 7
      /\ calls[1] = EndDevicesAt(5) /\ calls[2] = GatewaysCall
      /\ calls[3] = OneShot(0, Hour) /\ calls[4] = OneShot(100, Hour)
      /\ calls[5] = OneShot(200, Hour) /\ calls[6] = Server
      /\ calls[7] = Forwarders
  BY <1>2
<1>4. p.calls = calls
  BY <1>1, <1>2
<1> HIDE DEF c
<1>5. Places(p) = 1 .. 7
  <2>1. Len(p.calls) = 7
    BY <1>3, <1>4, Zenon
  <2> QED BY <2>1, Zenon DEF Places
<1>6. \A i \in Places(p) : CallOK(p, p.calls[i])
  BY <1>1, <1>3, <1>4, <1>5, CallsAreOK DEF Never, Hour
<1>7. /\ calls[1].op = "devices" /\ calls[1].addresses = "generator" /\ calls[1].rate = 5
      /\ calls[2].op = "gateways"
      /\ calls[3].op = "oneShot"
      /\ calls[4].op = "oneShot"
      /\ calls[5].op = "oneShot"
      /\ calls[6].op = "server"
      /\ calls[7].op = "forwarders"
  BY <1>3, CallFields
<1>8. DevicesFirst(p) /\ ServerFirst(p)
  BY <1>4, <1>5, <1>7 DEF DevicesFirst, ServerFirst, Generated, RateOps
<1>9. RatesOnce(p) /\ OneInterval(p) /\ StudiesOnly(p)
  BY <1>4, <1>5, <1>7 DEF RatesOnce, RateOps, GivenRates, OneInterval, StudiesOnly
<1>10. p.region \in DOMAIN Regions
  BY <1>1 DEF Regions
<1>11. /\ p.moves \in Seq([at : Nat, power : Int])
       /\ \A i, j \in DOMAIN p.moves : i <= j => p.moves[i].at <= p.moves[j].at
  BY <1>1
<1>12. /\ p.devices \in 1 .. 250 /\ p.gateways \in Nat \ {0} /\ p.powers \subseteq Int
       /\ p.until \in Nat /\ Len(p.calls) \in Nat
  BY <1>1, <1>3, <1>4, DeploymentAssumption DEF DeploymentAssumption
<1> QED BY <1>6, <1>8, <1>9, <1>10, <1>11, <1>12 DEF Ordered

LEMMA EnergyIsOrdered ==
  Ordered(EnergyModel)
<1> SUFFICES ASSUME NEW p, p = EnergyModel PROVE Ordered(p)
  OBVIOUS
<1> DEFINE c == <<BareEndDevices, GatewaysCall, SetUp, Periodic(5, Never)>>
<1>1. /\ p.region = "EU" /\ p.devices = 1 /\ p.gateways = 1
      /\ p.powers = {-689} /\ p.calls = c /\ p.until = 86400
      /\ p.moves = <<>>
  BY ProgramFields DEF EnergyModel, Hour
<1>2. PICK calls : calls = c
  OBVIOUS
<1>3. /\ Len(calls) = 4
      /\ calls[1] = BareEndDevices /\ calls[2] = GatewaysCall
      /\ calls[3] = SetUp /\ calls[4] = Periodic(5, Never)
  BY <1>2
<1>4. p.calls = calls
  BY <1>1, <1>2
<1> HIDE DEF c
<1>5. Places(p) = 1 .. 4
  <2>1. Len(p.calls) = 4
    BY <1>3, <1>4, Zenon
  <2> QED BY <2>1, Zenon DEF Places
<1>6. \A i \in Places(p) : CallOK(p, p.calls[i])
  BY <1>1, <1>3, <1>4, <1>5, CallsAreOK DEF Never, Hour
<1>7. /\ calls[1].op = "devices" /\ calls[1].rate = 0
      /\ calls[2].op = "gateways"
      /\ calls[3].op = "up"
      /\ calls[4].op = "periodic" /\ calls[4].interval = 5
  BY <1>3, CallFields
<1>8. DevicesFirst(p) /\ ServerFirst(p)
  BY <1>4, <1>5, <1>7 DEF DevicesFirst, ServerFirst, Generated, RateOps
<1>9. RatesOnce(p) /\ OneInterval(p) /\ StudiesOnly(p)
  BY <1>4, <1>5, <1>7 DEF RatesOnce, RateOps, GivenRates, OneInterval, StudiesOnly
<1>10. p.region \in DOMAIN Regions
  BY <1>1 DEF Regions
<1>11. /\ p.moves \in Seq([at : Nat, power : Int])
       /\ \A i, j \in DOMAIN p.moves : i <= j => p.moves[i].at <= p.moves[j].at
  BY <1>1
<1>12. /\ p.devices \in 1 .. 250 /\ p.gateways \in Nat \ {0} /\ p.powers \subseteq Int
       /\ p.until \in Nat /\ Len(p.calls) \in Nat
  BY <1>1, <1>3, <1>4, DeploymentAssumption DEF DeploymentAssumption
<1> QED BY <1>6, <1>8, <1>9, <1>10, <1>11, <1>12 DEF Ordered

LEMMA MultiClassIsOrdered ==
  Ordered(MultiClassSim)
<1> SUFFICES ASSUME NEW p, p = MultiClassSim PROVE Ordered(p)
  OBVIOUS
<1> DEFINE c == <<EndDevices, GatewaysCall, SetUpForRtx, Random(600, 600),
                  Server, Forwarders>>
<1>1. /\ p.region = "EU" /\ p.devices = MaxDevices /\ p.gateways = MaxGateways
      /\ p.powers = Powers /\ p.calls = c /\ p.until = 4200
      /\ p.moves = <<>>
  BY ProgramFields DEF MultiClassSim, Hour
<1>2. PICK calls : calls = c
  OBVIOUS
<1>3. /\ Len(calls) = 6
      /\ calls[1] = EndDevices /\ calls[2] = GatewaysCall
      /\ calls[3] = SetUpForRtx /\ calls[4] = Random(600, 600)
      /\ calls[5] = Server /\ calls[6] = Forwarders
  BY <1>2
<1>4. p.calls = calls
  BY <1>1, <1>2
<1> HIDE DEF c
<1>5. Places(p) = 1 .. 6
  <2>1. Len(p.calls) = 6
    BY <1>3, <1>4, Zenon
  <2> QED BY <2>1, Zenon DEF Places
<1>6. \A i \in Places(p) : CallOK(p, p.calls[i])
  BY <1>1, <1>3, <1>4, <1>5, CallsAreOK DEF Never, Hour
<1>7. /\ calls[1].op = "devices" /\ calls[1].addresses = "generator" /\ calls[1].rate = 0
      /\ calls[2].op = "gateways"
      /\ calls[3].op = "up"
      /\ calls[4].op = "random" /\ calls[4].interval = 600
      /\ calls[5].op = "server"
      /\ calls[6].op = "forwarders"
  BY <1>3, CallFields
<1>8. DevicesFirst(p) /\ ServerFirst(p)
  BY <1>4, <1>5, <1>7 DEF DevicesFirst, ServerFirst, Generated, RateOps
<1>9. RatesOnce(p) /\ OneInterval(p) /\ StudiesOnly(p)
  BY <1>4, <1>5, <1>7 DEF RatesOnce, RateOps, GivenRates, OneInterval, StudiesOnly
<1>10. p.region \in DOMAIN Regions
  BY <1>1 DEF Regions
<1>11. /\ p.moves \in Seq([at : Nat, power : Int])
       /\ \A i, j \in DOMAIN p.moves : i <= j => p.moves[i].at <= p.moves[j].at
  BY <1>1
<1>12. /\ p.devices \in 1 .. 250 /\ p.gateways \in Nat \ {0} /\ p.powers \subseteq Int
       /\ p.until \in Nat /\ Len(p.calls) \in Nat
  BY <1>1, <1>3, <1>4, DeploymentAssumption DEF DeploymentAssumption
<1> QED BY <1>6, <1>8, <1>9, <1>10, <1>11, <1>12 DEF Ordered

LEMMA NetworkSimIsOrdered ==
  Ordered(NetworkSim)
<1> SUFFICES ASSUME NEW p, p = NetworkSim PROVE Ordered(p)
  OBVIOUS
<1> DEFINE c == <<EndDevices, GatewaysCall, SetUp, Random(60, Hour), Server,
                  Forwarders>>
<1>1. /\ p.region = "EU" /\ p.devices = MaxDevices /\ p.gateways = 1
      /\ p.powers = Powers /\ p.calls = c /\ p.until = 7200
      /\ p.moves = <<>>
  BY ProgramFields DEF NetworkSim, Hour
<1>2. PICK calls : calls = c
  OBVIOUS
<1>3. /\ Len(calls) = 6
      /\ calls[1] = EndDevices /\ calls[2] = GatewaysCall /\ calls[3] = SetUp
      /\ calls[4] = Random(60, Hour) /\ calls[5] = Server
      /\ calls[6] = Forwarders
  BY <1>2
<1>4. p.calls = calls
  BY <1>1, <1>2
<1> HIDE DEF c
<1>5. Places(p) = 1 .. 6
  <2>1. Len(p.calls) = 6
    BY <1>3, <1>4, Zenon
  <2> QED BY <2>1, Zenon DEF Places
<1>6. \A i \in Places(p) : CallOK(p, p.calls[i])
  BY <1>1, <1>3, <1>4, <1>5, CallsAreOK DEF Never, Hour
<1>7. /\ calls[1].op = "devices" /\ calls[1].addresses = "generator" /\ calls[1].rate = 0
      /\ calls[2].op = "gateways"
      /\ calls[3].op = "up"
      /\ calls[4].op = "random" /\ calls[4].interval = 60
      /\ calls[5].op = "server"
      /\ calls[6].op = "forwarders"
  BY <1>3, CallFields
<1>8. DevicesFirst(p) /\ ServerFirst(p)
  BY <1>4, <1>5, <1>7 DEF DevicesFirst, ServerFirst, Generated, RateOps
<1>9. RatesOnce(p) /\ OneInterval(p) /\ StudiesOnly(p)
  BY <1>4, <1>5, <1>7 DEF RatesOnce, RateOps, GivenRates, OneInterval, StudiesOnly
<1>10. p.region \in DOMAIN Regions
  BY <1>1 DEF Regions
<1>11. /\ p.moves \in Seq([at : Nat, power : Int])
       /\ \A i, j \in DOMAIN p.moves : i <= j => p.moves[i].at <= p.moves[j].at
  BY <1>1
<1>12. /\ p.devices \in 1 .. 250 /\ p.gateways \in Nat \ {0} /\ p.powers \subseteq Int
       /\ p.until \in Nat /\ Len(p.calls) \in Nat
  BY <1>1, <1>3, <1>4, DeploymentAssumption DEF DeploymentAssumption
<1> QED BY <1>6, <1>8, <1>9, <1>10, <1>11, <1>12 DEF Ordered

LEMMA ServerExampleIsOrdered ==
  Ordered(NetworkServerExample)
<1> SUFFICES ASSUME NEW p, p = NetworkServerExample PROVE Ordered(p)
  OBVIOUS
<1> DEFINE c == <<EndDevices, [op |-> "oneShots", at |-> <<4, 10>>],
                  GatewaysCall, SetUp, Server, Forwarders>>
<1>1. /\ p.region = "EU" /\ p.devices = 2 /\ p.gateways = 1
      /\ p.powers = {-1358, -689} /\ p.calls = c /\ p.until = 800
      /\ p.moves = <<>>
  BY ProgramFields DEF NetworkServerExample
<1>2. PICK calls : calls = c
  OBVIOUS
<1>3. /\ Len(calls) = 6
      /\ calls[1] = EndDevices
      /\ calls[2] = [op |-> "oneShots", at |-> <<4, 10>>]
      /\ calls[3] = GatewaysCall /\ calls[4] = SetUp /\ calls[5] = Server
      /\ calls[6] = Forwarders
  BY <1>2
<1>4. p.calls = calls
  BY <1>1, <1>2
<1> HIDE DEF c
<1>5. Places(p) = 1 .. 6
  <2>1. Len(p.calls) = 6
    BY <1>3, <1>4, Zenon
  <2> QED BY <2>1, Zenon DEF Places
<1>6. \A i \in Places(p) : CallOK(p, p.calls[i])
  BY <1>1, <1>3, <1>4, <1>5, CallsAreOK DEF Never, Hour
<1>7. /\ calls[1].op = "devices" /\ calls[1].addresses = "generator" /\ calls[1].rate = 0
      /\ calls[2].op = "oneShots"
      /\ calls[3].op = "gateways"
      /\ calls[4].op = "up"
      /\ calls[5].op = "server"
      /\ calls[6].op = "forwarders"
  BY <1>3, CallFields
<1>8. DevicesFirst(p) /\ ServerFirst(p)
  BY <1>4, <1>5, <1>7 DEF DevicesFirst, ServerFirst, Generated, RateOps
<1>9. RatesOnce(p) /\ OneInterval(p) /\ StudiesOnly(p)
  BY <1>4, <1>5, <1>7 DEF RatesOnce, RateOps, GivenRates, OneInterval, StudiesOnly
<1>10. p.region \in DOMAIN Regions
  BY <1>1 DEF Regions
<1>11. /\ p.moves \in Seq([at : Nat, power : Int])
       /\ \A i, j \in DOMAIN p.moves : i <= j => p.moves[i].at <= p.moves[j].at
  BY <1>1
<1>12. /\ p.devices \in 1 .. 250 /\ p.gateways \in Nat \ {0} /\ p.powers \subseteq Int
       /\ p.until \in Nat /\ Len(p.calls) \in Nat
  BY <1>1, <1>3, <1>4, DeploymentAssumption DEF DeploymentAssumption
<1> QED BY <1>6, <1>8, <1>9, <1>10, <1>11, <1>12 DEF Ordered

LEMMA ParallelIsOrdered ==
  Ordered(ParallelReception)
<1> SUFFICES ASSUME NEW p, p = ParallelReception PROVE Ordered(p)
  OBVIOUS
<1> DEFINE c == <<BareEndDevices, GatewaysCall, OneShot(1, Never),
                  [op |-> "rates"]>>
<1>1. /\ p.region = "SingleChannel" /\ p.devices = 6 /\ p.gateways = 1
      /\ p.powers = {140} /\ p.calls = c /\ p.until = 7200
      /\ p.moves = <<>>
  BY ProgramFields DEF ParallelReception, Hour
<1>2. PICK calls : calls = c
  OBVIOUS
<1>3. /\ Len(calls) = 4
      /\ calls[1] = BareEndDevices /\ calls[2] = GatewaysCall
      /\ calls[3] = OneShot(1, Never) /\ calls[4] = [op |-> "rates"]
  BY <1>2
<1>4. p.calls = calls
  BY <1>1, <1>2
<1> HIDE DEF c
<1>5. Places(p) = 1 .. 4
  <2>1. Len(p.calls) = 4
    BY <1>3, <1>4, Zenon
  <2> QED BY <2>1, Zenon DEF Places
<1>6. \A i \in Places(p) : CallOK(p, p.calls[i])
  BY <1>1, <1>3, <1>4, <1>5, CallsAreOK DEF Never, Hour
<1>7. /\ calls[1].op = "devices" /\ calls[1].rate = 0
      /\ calls[2].op = "gateways"
      /\ calls[3].op = "oneShot"
      /\ calls[4].op = "rates"
  BY <1>3, CallFields
<1>8. DevicesFirst(p) /\ ServerFirst(p)
  BY <1>4, <1>5, <1>7 DEF DevicesFirst, ServerFirst, Generated, RateOps
<1>9. RatesOnce(p) /\ OneInterval(p) /\ StudiesOnly(p)
  BY <1>4, <1>5, <1>7 DEF RatesOnce, RateOps, GivenRates, OneInterval, StudiesOnly
<1>10. p.region \in DOMAIN Regions
  BY <1>1 DEF Regions
<1>11. /\ p.moves \in Seq([at : Nat, power : Int])
       /\ \A i, j \in DOMAIN p.moves : i <= j => p.moves[i].at <= p.moves[j].at
  BY <1>1
<1>12. /\ p.devices \in 1 .. 250 /\ p.gateways \in Nat \ {0} /\ p.powers \subseteq Int
       /\ p.until \in Nat /\ Len(p.calls) \in Nat
  BY <1>1, <1>3, <1>4, DeploymentAssumption DEF DeploymentAssumption
<1> QED BY <1>6, <1>8, <1>9, <1>10, <1>11, <1>12 DEF Ordered

LEMMA SimpleIsOrdered ==
  Ordered(SimpleNetwork)
<1> SUFFICES ASSUME NEW p, p = SimpleNetwork PROVE Ordered(p)
  OBVIOUS
<1> DEFINE c == <<BareEndDevices, GatewaysCall, OneShot(2, Never), SetUp>>
<1>1. /\ p.region = "EU" /\ p.devices = 1 /\ p.gateways = 1
      /\ p.powers = {-1065} /\ p.calls = c /\ p.until = 7200
      /\ p.moves = <<>>
  BY ProgramFields DEF SimpleNetwork, Hour
<1>2. PICK calls : calls = c
  OBVIOUS
<1>3. /\ Len(calls) = 4
      /\ calls[1] = BareEndDevices /\ calls[2] = GatewaysCall
      /\ calls[3] = OneShot(2, Never) /\ calls[4] = SetUp
  BY <1>2
<1>4. p.calls = calls
  BY <1>1, <1>2
<1> HIDE DEF c
<1>5. Places(p) = 1 .. 4
  <2>1. Len(p.calls) = 4
    BY <1>3, <1>4, Zenon
  <2> QED BY <2>1, Zenon DEF Places
<1>6. \A i \in Places(p) : CallOK(p, p.calls[i])
  BY <1>1, <1>3, <1>4, <1>5, CallsAreOK DEF Never, Hour
<1>7. /\ calls[1].op = "devices" /\ calls[1].rate = 0
      /\ calls[2].op = "gateways"
      /\ calls[3].op = "oneShot"
      /\ calls[4].op = "up"
  BY <1>3, CallFields
<1>8. DevicesFirst(p) /\ ServerFirst(p)
  BY <1>4, <1>5, <1>7 DEF DevicesFirst, ServerFirst, Generated, RateOps
<1>9. RatesOnce(p) /\ OneInterval(p) /\ StudiesOnly(p)
  BY <1>4, <1>5, <1>7 DEF RatesOnce, RateOps, GivenRates, OneInterval, StudiesOnly
<1>10. p.region \in DOMAIN Regions
  BY <1>1 DEF Regions
<1>11. /\ p.moves \in Seq([at : Nat, power : Int])
       /\ \A i, j \in DOMAIN p.moves : i <= j => p.moves[i].at <= p.moves[j].at
  BY <1>1
<1>12. /\ p.devices \in 1 .. 250 /\ p.gateways \in Nat \ {0} /\ p.powers \subseteq Int
       /\ p.until \in Nat /\ Len(p.calls) \in Nat
  BY <1>1, <1>3, <1>4, DeploymentAssumption DEF DeploymentAssumption
<1> QED BY <1>6, <1>8, <1>9, <1>10, <1>11, <1>12 DEF Ordered

LEMMA StudyFields ==
  ASSUME NEW s \in Studies
  PROVE  LET p == Study(s)
         IN  /\ p.region = "EU" /\ p.devices = MaxDevices /\ p.gateways = 1
             /\ p.powers = Powers /\ p.until = 0 /\ p.moves = <<>>
             /\ Len(s) \in Nat /\ Len(p.calls) = Len(s) + 2
             /\ p.calls[1] = EndDevices /\ p.calls[2] = GatewaysCall
             /\ \A i \in 1 .. Len(s) : p.calls[i + 2] = s[i] /\ s[i] \in RateCalls
<1>0. PICK two : two = <<EndDevices, GatewaysCall>>
  OBVIOUS
<1>1. s \in Seq(RateCalls)
  BY StudiesAssumption DEF StudiesAssumption
<1>2. two \in Seq({EndDevices, GatewaysCall}) /\ Len(two) = 2
      /\ two[1] = EndDevices /\ two[2] = GatewaysCall
  BY <1>0
<1>3. /\ Study(s).region = "EU" /\ Study(s).devices = MaxDevices /\ Study(s).gateways = 1
      /\ Study(s).powers = Powers /\ Study(s).until = 0 /\ Study(s).moves = <<>>
      /\ Study(s).calls = two \o s
  <2>1. PICK calls : calls = two \o s
    OBVIOUS
  <2>2. Study(s) = Program("EU", MaxDevices, 1, Powers, calls, 0)
    BY <1>0, <2>1, Zenon DEF Study
  <2>3. /\ Study(s).region = "EU" /\ Study(s).devices = MaxDevices /\ Study(s).gateways = 1
        /\ Study(s).powers = Powers /\ Study(s).until = 0 /\ Study(s).moves = <<>>
        /\ Study(s).calls = calls
    BY <2>2, ProgramFields
  <2> QED BY <2>1, <2>3, Zenon
<1>4. /\ Len(s) \in Nat /\ Len(two \o s) = Len(s) + 2
      /\ (two \o s)[1] = EndDevices /\ (two \o s)[2] = GatewaysCall
      /\ \A i \in 1 .. Len(s) : (two \o s)[i + 2] = s[i] /\ s[i] \in RateCalls
  <2> DEFINE T == RateCalls \cup {EndDevices, GatewaysCall}
  <2>1. s \in Seq(T) /\ two \in Seq(T)
    BY <1>1, <1>2
  <2> HIDE DEF T
  <2>2. /\ Len(s) \in Nat /\ Len(two \o s) = Len(s) + 2
        /\ \A i \in 1 .. Len(s) + 2 :
             (two \o s)[i] = IF i <= 2 THEN two[i] ELSE s[i - 2]
    <3>1. /\ Len(two \o s) = Len(two) + Len(s)
          /\ \A i \in 1 .. Len(two) + Len(s) :
               (two \o s)[i] = IF i <= Len(two) THEN two[i] ELSE s[i - Len(two)]
      BY <2>1, ConcatProperties
    <3>2. Len(s) \in Nat
      BY <2>1
    <3> QED BY <3>1, <3>2, <1>2
  <2>3. ASSUME NEW i \in 1 .. Len(s)
        PROVE  s[i] \in RateCalls
    BY <1>1, ElementOfSeq
  <2> QED BY <2>2, <2>3, <1>2
<1> QED BY <1>3, <1>4

LEMMA RateCallOps ==
  ASSUME NEW p, NEW c \in RateCalls
  PROVE  c.op \in RateOps /\ CallOK(p, c)
<1>1. c.op \in RateOps
  BY DEF RateCalls, RateOps
<1> QED BY <1>1 DEF CallOK, RateOps

LEMMA StudyIsOrdered ==
  ASSUME NEW s \in Studies
  PROVE  Ordered(Study(s))
<1> SUFFICES ASSUME NEW p, p = Study(s) PROVE Ordered(p)
  OBVIOUS
<1>1. /\ p.region = "EU" /\ p.devices = MaxDevices /\ p.gateways = 1
      /\ p.powers = Powers /\ p.until = 0 /\ p.moves = <<>>
      /\ Len(s) \in Nat /\ Len(p.calls) = Len(s) + 2
      /\ p.calls[1] = EndDevices /\ p.calls[2] = GatewaysCall
      /\ \A i \in 1 .. Len(s) : p.calls[i + 2] = s[i] /\ s[i] \in RateCalls
  BY StudyFields
<1>2. /\ 1 \in Places(p) /\ 2 \in Places(p)
      /\ p.calls[1].op = "devices" /\ p.calls[1].addresses = "generator"
      /\ p.calls[1].rate = 0 /\ p.calls[2].op = "gateways"
  BY <1>1, CallFields DEF Places
<1>3. \A i \in Places(p) \ {1, 2} : i > 2 /\ p.calls[i] \in RateCalls
  <2> SUFFICES ASSUME NEW i \in Places(p) \ {1, 2} PROVE i > 2 /\ p.calls[i] \in RateCalls
    OBVIOUS
  <2>1. i - 2 \in 1 .. Len(s) /\ i > 2 /\ (i - 2) + 2 = i
    BY <1>1 DEF Places
  <2> QED BY SMTT(30), <1>1, <2>1
<1>4. \A i \in Places(p) \ {1, 2} : p.calls[i].op \in RateOps
  BY <1>3, RateCallOps
<1>5. \A i \in Places(p) : CallOK(p, p.calls[i])
  <2>1. CallOK(p, p.calls[1]) /\ CallOK(p, p.calls[2])
    BY <1>1, CallsAreOK
  <2>2. \A i \in Places(p) \ {1, 2} : CallOK(p, p.calls[i])
    BY <1>3, RateCallOps
  <2> QED BY <2>1, <2>2
<1>6. DevicesFirst(p) /\ ServerFirst(p)
  <2>1. \A i \in Places(p) : p.calls[i].op = "devices" => i = 1
    BY <1>2, <1>4 DEF RateOps
  <2>2. \A i \in Places(p) : p.calls[i].op \in RateOps \cup {"rates", "server"} => 1 < i
    <3> SUFFICES ASSUME NEW i \in Places(p), i = 1 \/ i = 2,
                        p.calls[i].op \in RateOps \cup {"rates", "server"}
                 PROVE  FALSE
      BY <1>3 DEF Places
    <3> QED BY <1>2 DEF RateOps
  <2>3. \A i \in Places(p) : p.calls[i].op # "forwarders"
    BY <1>2, <1>4 DEF RateOps
  <2>4. DevicesFirst(p)
    BY <1>2, <2>1, <2>2 DEF DevicesFirst
  <2> QED BY <1>2, <2>3, <2>4 DEF ServerFirst
<1>7. RatesOnce(p) /\ OneInterval(p) /\ StudiesOnly(p)
  BY <1>2, <1>4 DEF RatesOnce, GivenRates, OneInterval, RateOps, StudiesOnly
<1>8. p.region \in DOMAIN Regions
  BY <1>1 DEF Regions
<1>9. /\ p.moves \in Seq([at : Nat, power : Int])
      /\ \A i, j \in DOMAIN p.moves : i <= j => p.moves[i].at <= p.moves[j].at
  BY <1>1
<1>10. /\ p.devices \in 1 .. 250 /\ p.gateways \in Nat \ {0} /\ p.powers \subseteq Int
       /\ p.until \in Nat /\ Len(p.calls) \in Nat
  BY <1>1, DeploymentAssumption DEF DeploymentAssumption
<1> QED BY <1>5, <1>6, <1>7, <1>8, <1>9, <1>10 DEF Ordered

(* Every program is ordered.                                               *)
LEMMA ProgramsAreOrdered ==
  \A p \in Programs : Ordered(p)
BY AdrIsOrdered, AdrInitializedIsOrdered, AlohaIsOrdered, CompleteIsOrdered,
   CounterUpdateIsOrdered, EnergyIsOrdered, MultiClassIsOrdered, NetworkSimIsOrdered,
   ServerExampleIsOrdered, ParallelIsOrdered, SimpleIsOrdered, StudyIsOrdered, Zenon
   DEF Programs

-----------------------------------------------------------------------------
(* Extremes, counts and what a call may rely on.                           *)
LEMMA LeastOf ==
  ASSUME NEW S, S \subseteq Nat, S # {}
  PROVE  Min(S) \in S /\ \A y \in S : Min(S) <= y
<1> DEFINE R == {ss \in Nat \X Nat : ss[1] < ss[2]}
<1>1. IsWellFoundedOn(R, Nat)
  BY NatLessThanWellFounded, Zenon DEF OpToRel
<1>2. PICK x \in S : \A y \in S : ~ (<<y, x>> \in R)
  BY <1>1, WFMin, Zenon
<1>3. ASSUME NEW y \in S PROVE x <= y
  <2>1. x \in Nat /\ y \in Nat
    BY <1>2
  <2>2. ~ (<<y, x>> \in {ss \in Nat \X Nat : ss[1] < ss[2]})
    BY <1>2, <1>3
  <2> HIDE DEF R
  <2> QED BY <2>1, <2>2
<1> QED BY <1>3, Zenon DEF Min

LEMMA GreatestOf ==
  ASSUME NEW S, IsFiniteSet(S), S # {}, S \subseteq Int
  PROVE  Max(S) \in S /\ \A y \in S : y <= Max(S)
<1> DEFINE Has(T) == \E x \in T : \A y \in T : x >= y
           D == {T \in SUBSET S : T # {} /\ ~ Has(T)}
           R == StrictSubsetOrdering(S)
<1>1. D = {}
  <2> SUFFICES ASSUME D # {} PROVE FALSE
    OBVIOUS
  <2>1. IsWellFoundedOn(R, SUBSET S) /\ D \subseteq SUBSET S
    BY FS_StrictSubsetOrderingWellFounded, FS_FiniteSubsetsOfFinite
  <2> HIDE DEF R, D
  <2>2. PICK T \in D : \A U \in D : ~ (<<U, T>> \in R)
    BY <2>1, WFMin
  <2>3. T \in SUBSET S /\ T # {} /\ ~ Has(T)
    BY <2>2 DEF D
  <2>4. PICK x \in T : TRUE
    BY <2>3
  <2>5. T \ {x} \notin D
    BY <2>2, <2>3, <2>4 DEF R, StrictSubsetOrdering
  <2>6. T \ {x} = {} \/ Has(T \ {x})
    BY <2>3, <2>5 DEF D
  <2>7. \A y \in T : y \in Int
    BY <2>3
  <2>8. CASE T \ {x} = {}
    <3>1. \A y \in T : y = x
      BY <2>8
    <3> QED BY <2>3, <2>4, <2>7, <3>1
  <2>9. CASE Has(T \ {x})
    <3>1. PICK a \in T \ {x} : \A y \in T \ {x} : a >= y
      BY <2>9
    <3>2. CASE x >= a
      <4>1. \A y \in T : x >= y
        BY <2>4, <2>7, <3>1, <3>2
      <4> QED BY <2>3, <2>4, <4>1
    <3>3. CASE a >= x
      <4>1. \A y \in T : a >= y
        BY <2>4, <2>7, <3>1, <3>3
      <4> QED BY <2>3, <3>1, <4>1
    <3> QED BY <2>4, <2>7, <3>1, <3>2, <3>3
  <2> QED BY <2>6, <2>8, <2>9
<1>2. \E x \in S : \A y \in S : x >= y
  BY <1>1
<1>3. Max(S) \in S /\ \A y \in S : Max(S) >= y
  BY <1>2, Zenon DEF Max
<1> QED BY <1>3

LEMMA ProgramIsOrdered ==
  ASSUME DpTypeOK
  PROVE  Ordered(program)
BY ProgramsAreOrdered DEF DpTypeOK

LEMMA Sizes ==
  ASSUME DpTypeOK
  PROVE  /\ program.devices \in 1 .. 250 /\ program.gateways \in Nat \ {0}
         /\ step \in Nat /\ Len(program.calls) \in Nat
<1>1. Ordered(program)
  BY ProgramIsOrdered
<1>2. /\ program.devices \in 1 .. 250 /\ program.gateways \in Nat \ {0}
      /\ Len(program.calls) \in Nat
  BY <1>1, Zenon DEF Ordered
<1> QED BY <1>2 DEF DpTypeOK

LEMMA DevicesAreFinite ==
  ASSUME DpTypeOK
  PROVE  /\ IsFiniteSet(Devices)
         /\ \A D \in SUBSET Devices : IsFiniteSet(D) /\ Cardinality(D) \in 0 .. 250
<1>1. program.devices \in 1 .. 250
  BY Sizes
<1>2. IsFiniteSet(Devices) /\ Cardinality(Devices) = program.devices
  <2>1. PICK n \in 1 .. 250 : program.devices = n
    BY <1>1
  <2>2. IsFiniteSet(1 .. n) /\ Cardinality(1 .. n) = n
    <3>1. 1 \in Int /\ n \in Int /\ ~ 1 > n /\ n - 1 + 1 = n
      OBVIOUS
    <3>2. /\ IsFiniteSet(1 .. n)
          /\ Cardinality(1 .. n) = IF 1 > n THEN 0 ELSE n - 1 + 1
      BY <3>1, FS_Interval, Zenon
    <3> QED BY <3>1, <3>2
  <2> QED BY <2>1, <2>2, Zenon DEF Devices
<1>3. ASSUME NEW D \in SUBSET Devices
      PROVE  IsFiniteSet(D) /\ Cardinality(D) \in 0 .. 250
  <2>1. IsFiniteSet(D) /\ Cardinality(D) <= Cardinality(Devices)
    BY <1>2, FS_Subset
  <2>2. Cardinality(D) \in Nat
    BY <2>1, FS_CardinalityType
  <2> QED BY <1>1, <1>2, <2>1, <2>2
<1> QED BY <1>2, <1>3

(* A call and the ones made before it.                                     *)
LEMMA Called ==
  ASSUME DpTypeOK, NEW op, Calls(op)
  PROVE  /\ Args.op = op /\ CallOK(program, Args) /\ step + 1 \in Places(program)
         /\ \A ops : Made(ops)' <=> Made(ops) \/ op \in ops
         /\ op \in RateOps \cup {"rates", "server"} => Made({"devices"})
         /\ op = "devices" =>
              /\ ~ Made({"devices"})
              /\ ~ Made(RateOps \cup {"rates", "server"})
         /\ op = "forwarders" => Made({"server"}) /\ Generated(program)
         /\ op \in RateOps => ~ GivenRates(program)
         /\ op = "rates" => GivenRates(program)
         /\ op = "devices" /\ Args.rate # 0 => GivenRates(program)
<1> DEFINE calls == program.calls
<1>1. /\ step \in Nat /\ Len(calls) \in Nat /\ step < Len(calls)
      /\ step' = step + 1 /\ program' = program /\ Args = calls[step + 1]
      /\ calls[step + 1].op = op
  BY ProgramIsOrdered DEF Calls, DpTypeOK, Ordered, Args
<1>2. step + 1 \in Places(program) /\ 1 .. step \subseteq Places(program)
  BY <1>1 DEF Places
<1>3. \A ops : Made(ops)' <=> Made(ops) \/ op \in ops
  BY <1>1 DEF Made
<1>4. CallOK(program, Args)
  BY <1>1, <1>2, ProgramIsOrdered DEF Ordered
<1>5. /\ op \in RateOps \cup {"rates", "server"} => Made({"devices"})
      /\ op = "devices" =>
              /\ ~ Made({"devices"})
              /\ ~ Made(RateOps \cup {"rates", "server"})
  <2>1. DevicesFirst(program)
    BY ProgramIsOrdered DEF Ordered
  <2>2. PICK i \in Places(program) : calls[i].op = "devices"
    BY <2>1 DEF DevicesFirst
  <2>3. ASSUME op \in RateOps \cup {"rates", "server"} PROVE Made({"devices"})
    <3>1. i < step + 1
      BY <1>1, <1>2, <2>1, <2>2, <2>3 DEF DevicesFirst
    <3>2. i \in 1 .. step
      BY <1>1, <2>2, <3>1 DEF Places
    <3> QED BY <2>2, <3>2 DEF Made
  <2>4. ASSUME op = "devices"
        PROVE  \A j \in 1 .. step : calls[j].op \notin RateOps \cup {"rates", "server"} \cup {"devices"}
    <3> SUFFICES ASSUME NEW j \in 1 .. step,
                        calls[j].op \in RateOps \cup {"rates", "server"} \cup {"devices"}
                 PROVE  FALSE
      OBVIOUS
    <3>1. j \in Places(program)
      BY <1>2
    <3>2. step + 1 < j \/ step + 1 = j
      BY <1>1, <1>2, <2>1, <2>4, <3>1 DEF DevicesFirst
    <3> QED BY <1>1, <3>2
  <2> QED BY <2>3, <2>4 DEF Made
<1>6. op = "forwarders" => Made({"server"}) /\ Generated(program)
  <2> SUFFICES ASSUME op = "forwarders" PROVE Made({"server"}) /\ Generated(program)
    OBVIOUS
  <2>1. ServerFirst(program)
    BY ProgramIsOrdered DEF Ordered
  <2>2. (\E j \in 1 .. (step + 1) - 1 : calls[j].op = "server") /\ Generated(program)
    BY <1>1, <1>2, <2>1 DEF ServerFirst
  <2> QED BY <1>1, <2>2 DEF Made
<1>7. op \in RateOps => ~ GivenRates(program)
  <2>1. RatesOnce(program)
    BY ProgramIsOrdered DEF Ordered
  <2> QED BY <1>1, <1>2, <2>1 DEF RatesOnce
<1>8. /\ op = "rates" => GivenRates(program)
      /\ op = "devices" /\ Args.rate # 0 => GivenRates(program)
  BY <1>1, <1>2 DEF GivenRates
<1> QED BY <1>1, <1>2, <1>3, <1>4, <1>5, <1>6, <1>7, <1>8

-----------------------------------------------------------------------------
(* The functions that assign data rates.                                   *)
LEMMA LeastClass ==
  ASSUME NEW H \in SUBSET Classes, H # {}
  PROVE  Min(H) \in H /\ \A c \in H : Min(H) <= c
<1>1. H \subseteq Nat
  BY DEF Classes
<1> QED BY <1>1, LeastOf

LEMMA UpIsClass ==
  ASSUME DpTypeOK, NEW sens
  PROVE  Up(rx, sens) \in [Devices -> 1 .. 7]
<1> DEFINE Best(d) == Max({rx[d][g] : g \in DOMAIN rx[d]})
           H(d) == {c \in Classes : Best(d) > sens[c]}
           Chosen(d) == IF \E c \in Classes : Best(d) > sens[c] THEN Min(H(d)) ELSE Outside
<1>1. DOMAIN rx = Devices
  BY DEF DpTypeOK
<1>2. Up(rx, sens) = [d \in Devices |-> Chosen(d)]
  BY <1>1, Zenon DEF Up, First
<1>3. ASSUME NEW d \in Devices
      PROVE  Chosen(d) \in 1 .. 7
  <2> HIDE DEF Best
  <2>1. CASE \E c \in Classes : Best(d) > sens[c]
    <3>1. H(d) \in SUBSET Classes /\ H(d) # {}
      BY <2>1
    <3>2. Min(H(d)) \in H(d)
      BY <3>1, LeastClass, Zenon
    <3>3. Min(H(d)) \in Classes
      BY <3>2
    <3> HIDE DEF H
    <3> QED BY <2>1, <3>3 DEF Classes
  <2>2. CASE ~ \E c \in Classes : Best(d) > sens[c]
    BY <2>2 DEF Outside
  <2> QED BY <2>1, <2>2
<1> HIDE DEF Chosen
<1> QED BY <1>2, <1>3

LEMMA RingsAreClasses ==
  ASSUME DpTypeOK
  PROVE  EIB(pos) \in [Devices -> 1 .. 7] /\ EAB(pos) \in [Devices -> 1 .. 7]
<1>1. DOMAIN pos = Devices
  BY DEF DpTypeOK
<1>2. EIB(pos) \in [Devices -> 1 .. 7]
  <2> DEFINE H(d) == {c \in Classes : 3 * pos[d] <= c * Radius}
             Chosen(d) == IF \E c \in Classes : 3 * pos[d] <= c * Radius
                          THEN Min(H(d)) ELSE Outside
  <2>1. EIB(pos) = [d \in Devices |-> Chosen(d)]
    BY <1>1, Zenon DEF EIB, First
  <2>2. ASSUME NEW d \in Devices
        PROVE  Chosen(d) \in 1 .. 7
    <3>1. CASE \E c \in Classes : 3 * pos[d] <= c * Radius
      <4>1. H(d) \in SUBSET Classes /\ H(d) # {}
        BY <3>1
      <4>2. Min(H(d)) \in H(d)
        BY <4>1, LeastClass, Zenon
      <4>3. Min(H(d)) \in Classes
        BY <4>2
      <4> HIDE DEF H
      <4> QED BY <3>1, <4>3 DEF Classes
    <3>2. CASE ~ \E c \in Classes : 3 * pos[d] <= c * Radius
      BY <3>2 DEF Outside
    <3> QED BY <3>1, <3>2
  <2> HIDE DEF Chosen
  <2> QED BY <2>1, <2>2
<1>3. EAB(pos) \in [Devices -> 1 .. 7]
  <2> DEFINE Holds(d, c) == LET square == 6 * pos[d] * pos[d]
                            IN  IF c <= 3 THEN square <= c * Radius * Radius
                                ELSE square < c * Radius * Radius
             H(d) == {c \in Classes : Holds(d, c)}
             Chosen(d) == IF \E c \in Classes : Holds(d, c) THEN Min(H(d)) ELSE 3
  <2>1. EAB(pos) = [d \in Devices |-> Chosen(d)]
    BY <1>1, Zenon DEF EAB, First
  <2> HIDE DEF Holds
  <2>2. ASSUME NEW d \in Devices
        PROVE  Chosen(d) \in 1 .. 7
    <3>1. CASE \E c \in Classes : Holds(d, c)
      <4>1. H(d) \in SUBSET Classes /\ H(d) # {}
        BY <3>1
      <4>2. Min(H(d)) \in H(d)
        BY <4>1, LeastClass, Zenon
      <4>3. Min(H(d)) \in Classes
        BY <4>2
      <4> HIDE DEF H
      <4> QED BY <3>1, <4>3 DEF Classes
    <3>2. CASE ~ \E c \in Classes : Holds(d, c)
      BY <3>2
    <3> QED BY <3>1, <3>2
  <2> HIDE DEF Chosen
  <2> QED BY <2>1, <2>2
<1> QED BY <1>2, <1>3

LEMMA ThirdsAreClasses ==
  ASSUME DpTypeOK, NEW prop1, NEW prop2
  PROVE  Prop(pos, prop1, prop2) \in [Devices -> 1 .. 3]
<1>1. DOMAIN pos = Devices
  BY DEF DpTypeOK
<1> DEFINE Third(d) == IF 100 * pos[d] * pos[d] <= prop1 * Radius * Radius THEN 1
                       ELSE IF 100 * pos[d] * pos[d] <= (prop1 + prop2) * Radius * Radius
                            THEN 2 ELSE 3
<1>2. Prop(pos, prop1, prop2) = [d \in Devices |-> Third(d)]
  BY <1>1, Zenon DEF Prop
<1>3. \A d \in Devices : Third(d) \in 1 .. 3
  OBVIOUS
<1> HIDE DEF Third
<1> QED BY <1>2, <1>3

(* What a call of Assigned gives.                                          *)
LEMMA AssignedClasses ==
  ASSUME DpTypeOK, NEW class \in [Devices -> 1 .. 7], NEW how, Assigned(class, how)
  PROVE  /\ dr' \in [Devices -> 0 .. 5] /\ reach' = how
         /\ quantity' \in [Classes -> 0 .. 255]
         /\ \A d \in Devices : dr'[d] = IF class[d] = 7 THEN 0 ELSE 6 - class[d]
         /\ \A c \in Classes : quantity'[c] = Cardinality({d \in Devices : class[d] = c})
         /\ UNCHANGED <<nextAddr, addr, gateways, linked, nodes, adr, apps, crashed>>
<1>1. dr' = [d \in Devices |-> RateOf(class[d])] /\ reach' = how /\ quantity' = Counts(class)
      /\ UNCHANGED <<nextAddr, addr, gateways, linked, nodes, adr, apps, crashed>>
  BY DEF Assigned
<1>2. \A d \in Devices : RateOf(class[d]) \in 0 .. 5
                         /\ RateOf(class[d]) = IF class[d] = 7 THEN 0 ELSE 6 - class[d]
  BY DEF RateOf, Outside
<1>3. \A c \in Classes : Counts(class)[c] = Cardinality({d \in Devices : class[d] = c})
                         /\ Counts(class)[c] \in 0 .. 255
  <2> SUFFICES ASSUME NEW c \in Classes
               PROVE  Counts(class)[c] = Cardinality({d \in Devices : class[d] = c})
                      /\ Counts(class)[c] \in 0 .. 255
    OBVIOUS
  <2> DEFINE D == {d \in Devices : class[d] = c}
  <2>1. Counts(class)[c] = Byte(Cardinality(D))
    BY DEF Counts
  <2>2. Cardinality(D) \in 0 .. 250
    BY DevicesAreFinite
  <2> HIDE DEF D
  <2>3. Byte(Cardinality(D)) = Cardinality(D)
    BY <2>2 DEF Byte
  <2> QED BY <2>1, <2>2, <2>3 DEF D
<1>4. Counts(class) \in [Classes -> 0 .. 255]
  BY <1>3 DEF Counts
<1> QED BY <1>1, <1>2, <1>3, <1>4

(* What a strategy gives, when it does not wrap a data rate.               *)
Moved(s) == {d \in Devices : s.mode = "CLASS_THREE" \/ dr'[d] # dr[d]}
Came(s, c) == {d \in Moved(s) : ClassOf(dr'[d]) = c}
Gone(s, c) == {d \in Moved(s) : ClassOf(dr[d]) = c}

LEMMA StrategyGives ==
  ASSUME DpTypeOK, Calls("strategy"), SetSpreadingFactorsStrategies,
         ~ (Args.mode = "SHIFT_TWO" /\ \E d \in Devices : d > Args.edge /\ dr[d] = 1)
  PROVE  /\ dr \in [Devices -> 0 .. 5] /\ dr' \in [Devices -> 0 .. 5]
         /\ quantity' \in [Classes -> 0 .. 255]
         /\ \A c \in Classes :
              quantity'[c] = Byte(quantity[c] + Cardinality(Came(Args, c))
                                  - IF Args.mode \in Shifts THEN Cardinality(Gone(Args, c)) ELSE 0)
         /\ Args.mode \in Shifts => \A d \in Devices : dr[d] = 0 => dr'[d] = 0
         /\ Args.mode \in Shifts => \A d \in Devices : dr'[d] <= dr[d]
         /\ Args.mode \notin Shifts \cup {"CLASS_THREE"} =>
              \A d \in Devices : dr[d] # 0 => dr'[d] = dr[d]
         /\ reach' = IF Args.mode \in Shifts THEN reach \cup {"shifted"} ELSE {}
         /\ UNCHANGED <<nextAddr, addr, gateways, linked, nodes, adr, apps, crashed>>
<1>1. /\ dr' = Strategy(Args, dr) /\ quantity' = StrategyCounts(Args, dr, quantity)
      /\ reach' = IF Args.mode \in Shifts THEN reach \cup {"shifted"} ELSE {}
      /\ UNCHANGED <<nextAddr, addr, gateways, linked, nodes, adr, apps, crashed>>
  BY DEF SetSpreadingFactorsStrategies
<1>2. dr \in [Devices -> 0 .. 5]
  BY Called DEF DpTypeOK, RateOps
<1>3. /\ Args.edge \in Nat /\ Args.edge2 \in Nat
      /\ Args.mode \in {"SHIFT_ONE", "SHIFT_TWO", "CLASS_TWO", "CLASS_THREE", "ALM_FI", "ALM_PI"}
  <2>1. Args \in RateCalls /\ Args.op = "strategy"
    BY Called DEF CallOK, RateOps
  <2> QED BY <2>1 DEF RateCalls, Shifts
<1>4. dr' \in [Devices -> 0 .. 5]
  <2>1. CASE Args.mode = "SHIFT_ONE"
    <3>1. dr' = Shifted(dr, Args.edge, 1)
      BY <1>1, <2>1 DEF Strategy
    <3> QED BY <1>2, <1>3, <3>1 DEF Shifted
  <2>2. CASE Args.mode = "SHIFT_TWO"
    <3>1. dr' = Shifted(dr, Args.edge, 2)
      BY <1>1, <2>2 DEF Strategy
    <3>2. \A d \in Devices : ~ (d > Args.edge /\ dr[d] = 1)
      BY <2>2
    <3> QED BY <1>2, <1>3, <3>1, <3>2 DEF Shifted
  <2>3. CASE Args.mode = "CLASS_TWO"
    <3>1. dr' = ClassTwo(dr, Args.edge)
      BY <1>1, <2>3 DEF Strategy
    <3> QED BY <1>2, <3>1 DEF ClassTwo
  <2>4. CASE Args.mode = "CLASS_THREE"
    <3>1. dr' = ClassThree(dr, Args.edge, Args.edge2)
      BY <1>1, <2>4 DEF Strategy
    <3> QED BY <1>2, <3>1 DEF ClassThree
  <2>5. CASE Args.mode = "ALM_FI"
    <3>1. dr' = AlmFi(dr, Args.edge)
      BY <1>1, <2>5 DEF Strategy
    <3> QED BY <1>2, <3>1 DEF AlmFi
  <2>6. CASE Args.mode = "ALM_PI"
    <3>1. dr' = AlmPi(dr, Args.edge)
      BY <1>1, <2>6 DEF Strategy
    <3> QED BY <1>2, <3>1 DEF AlmPi
  <2> QED BY <1>3, <2>1, <2>2, <2>3, <2>4, <2>5, <2>6
<1>5. Args.mode \in Shifts =>
        \A d \in Devices : dr'[d] <= dr[d] /\ (dr[d] = 0 => dr'[d] = 0)
  <2>1. ASSUME Args.mode \in Shifts
        PROVE  \E by \in {1, 2} : dr' = Shifted(dr, Args.edge, by)
    BY <1>1, <2>1 DEF Strategy, Shifts
  <2>2. ASSUME NEW by \in {1, 2}, dr' = Shifted(dr, Args.edge, by)
        PROVE  \A d \in Devices : dr'[d] <= dr[d] /\ (dr[d] = 0 => dr'[d] = 0)
    BY <1>2, <1>3, <2>2 DEF Shifted
  <2> QED BY <2>1, <2>2
<1>6. Args.mode \notin Shifts \cup {"CLASS_THREE"} =>
        \A d \in Devices : dr[d] # 0 => dr'[d] = dr[d]
  <2>1. ASSUME Args.mode = "CLASS_TWO" PROVE \A d \in Devices : dr[d] # 0 => dr'[d] = dr[d]
    BY <1>1, <1>2, <2>1 DEF Strategy, ClassTwo
  <2>2. ASSUME Args.mode = "ALM_FI" PROVE \A d \in Devices : dr[d] # 0 => dr'[d] = dr[d]
    BY <1>1, <1>2, <2>2 DEF Strategy, AlmFi
  <2>3. ASSUME Args.mode = "ALM_PI" PROVE \A d \in Devices : dr[d] # 0 => dr'[d] = dr[d]
    <3>1. dr' = AlmPi(dr, Args.edge)
      BY <1>1, <2>3 DEF Strategy
    <3> QED BY <1>2, <3>1 DEF AlmPi
  <2> QED BY <1>3, <2>1, <2>2, <2>3 DEF Shifts
<1>7. ASSUME NEW c \in Classes
      PROVE  /\ quantity'[c] = Byte(quantity[c] + Cardinality(Came(Args, c))
                                  - IF Args.mode \in Shifts THEN Cardinality(Gone(Args, c)) ELSE 0)
             /\ quantity'[c] \in 0 .. 255
  <2>1. DOMAIN dr = Devices
    BY <1>2
  <2>2. quantity'[c] = Byte(quantity[c] + Cardinality(Came(Args, c))
                            - IF Args.mode \in Shifts THEN Cardinality(Gone(Args, c)) ELSE 0)
    BY <1>1, <2>1, Zenon DEF StrategyCounts, Came, Gone, Moved
  <2>3. Cardinality(Came(Args, c)) \in Nat /\ Cardinality(Gone(Args, c)) \in Nat
    <3>1. Came(Args, c) \in SUBSET Devices /\ Gone(Args, c) \in SUBSET Devices
      BY DEF Came, Gone, Moved
    <3> QED BY <3>1, DevicesAreFinite
  <2>4. quantity[c] \in 0 .. 255
    BY DEF DpTypeOK
  <2>5. \A n \in Int : Byte(n) \in 0 .. 255
    BY DEF Byte
  <2> QED BY <2>2, <2>3, <2>4, <2>5
<1>8. quantity' \in [Classes -> 0 .. 255]
  BY <1>1, <1>7 DEF StrategyCounts
<1> QED BY <1>1, <1>2, <1>4, <1>5, <1>6, <1>7, <1>8

-----------------------------------------------------------------------------
(* Applications installed, and types.                                      *)
NewApps(kind, delay, interval, stop) ==
  [d \in Devices |-> App(kind, d, delay[d], interval, stop)]

Installing == InstallPeriodic \/ InstallRandom \/ InstallOneShot

LEMMA AppsInstalled ==
  ASSUME DpTypeOK, Installing
  PROVE  /\ \E op \in {"periodic", "random", "oneShot", "oneShots"} : Calls(op)
         /\ UNCHANGED <<net, crashed>>
         /\ \E kind \in AppKinds, delay \in [Devices -> Nat], interval \in Nat,
               stop \in Nat \cup {Never} :
              /\ apps' = apps \o NewApps(kind, delay, interval, stop)
              /\ IF kind = "oneShot" THEN interval = 0 ELSE interval \in Intervals \ {0}
<1> DEFINE Some(kind, delay, interval, stop) ==
             /\ apps' = apps \o NewApps(kind, delay, interval, stop)
             /\ IF kind = "oneShot" THEN interval = 0 ELSE interval \in Intervals \ {0}
<1> HIDE DEF Some
<1>0. ASSUME NEW op \in {"periodic", "random"}, Calls(op)
      PROVE  /\ Args.interval \in Nat \ {0} /\ Args.interval \in Intervals
             /\ Args.stop \in Nat \cup {Never}
  <2>1. /\ Args.op = op /\ CallOK(program, Args) /\ step + 1 \in Places(program)
    BY <1>0, Called
  <2>2. Args.interval \in Nat \ {0} /\ Args.stop \in Nat \cup {Never}
    BY <1>0, <2>1 DEF CallOK
  <2> QED BY <1>0, <2>1, <2>2 DEF Intervals, Args
<1>1. ASSUME InstallPeriodic
      PROVE  /\ Calls("periodic") /\ UNCHANGED <<net, crashed>>
             /\ \E delay \in [Devices -> Nat] :
                  Some("periodic", delay, Args.interval, Args.stop)
  <2>1. Args.interval \in Nat \ {0} /\ Args.interval \in Intervals
    BY <1>0, <1>1 DEF InstallPeriodic
  <2>2. PICK delay \in [Devices -> {0, Args.interval - 1}] :
          /\ apps' = apps \o [d \in Devices |->
                               App("periodic", d, delay[d], Args.interval, Args.stop)]
          /\ UNCHANGED <<net, crashed>>
    BY <1>1, Zenon DEF InstallPeriodic, Installed
  <2>3. delay \in [Devices -> Nat]
    BY <2>1
  <2>4. Some("periodic", delay, Args.interval, Args.stop)
    BY <2>1, <2>2 DEF Some, NewApps
  <2> QED BY <1>1, <2>2, <2>3, <2>4 DEF InstallPeriodic
<1>2. ASSUME InstallRandom
      PROVE  /\ Calls("random") /\ UNCHANGED <<net, crashed>>
             /\ \E delay \in [Devices -> Nat] :
                  Some("random", delay, Args.interval, Args.stop)
  <2>1. Args.interval \in Nat \ {0} /\ Args.interval \in Intervals
    BY <1>0, <1>2 DEF InstallRandom
  <2>2. PICK delay \in [Devices -> {0, 2 * Args.interval}] :
          /\ apps' = apps \o [d \in Devices |->
                               App("random", d, delay[d], Args.interval, Args.stop)]
          /\ UNCHANGED <<net, crashed>>
    BY <1>2, Zenon DEF InstallRandom, Installed
  <2>3. delay \in [Devices -> Nat]
    BY <2>1
  <2>4. Some("random", delay, Args.interval, Args.stop)
    BY <2>1, <2>2 DEF Some, NewApps
  <2> QED BY <1>2, <2>2, <2>3, <2>4 DEF InstallRandom
<1>3. ASSUME Calls("oneShot"), Installed("oneShot", LAMBDA d : Args.at, 0, Args.stop)
      PROVE  /\ UNCHANGED <<net, crashed>> /\ Args.stop \in Nat \cup {Never}
             /\ \E delay \in [Devices -> Nat] : Some("oneShot", delay, 0, Args.stop)
  <2>1. Args.at \in Nat /\ Args.stop \in Nat \cup {Never}
    BY <1>3, Called DEF CallOK
  <2>2. PICK delay : delay = [d \in Devices |-> Args.at]
    OBVIOUS
  <2>3. delay \in [Devices -> Nat] /\ \A d \in Devices : delay[d] = Args.at
    BY <2>1, <2>2
  <2>4. NewApps("oneShot", delay, 0, Args.stop)
          = [d \in Devices |-> App("oneShot", d, Args.at, 0, Args.stop)]
    BY <2>3 DEF NewApps
  <2>5. Some("oneShot", delay, 0, Args.stop)
    BY <1>3, <2>4, Zenon DEF Some, Installed
  <2> QED BY <1>3, <2>1, <2>3, <2>5 DEF Installed
<1>4. ASSUME Calls("oneShots"), Installed("oneShot", LAMBDA d : Args.at[d], 0, Never)
      PROVE  /\ UNCHANGED <<net, crashed>>
             /\ \E delay \in [Devices -> Nat] : Some("oneShot", delay, 0, Never)
  <2>1. \A d \in Devices : Args.at[d] \in Nat
    BY <1>4, Called DEF CallOK, Devices
  <2>2. PICK delay : delay = [d \in Devices |-> Args.at[d]]
    OBVIOUS
  <2>3. delay \in [Devices -> Nat] /\ \A d \in Devices : delay[d] = Args.at[d]
    BY <2>1, <2>2
  <2>4. NewApps("oneShot", delay, 0, Never)
          = [d \in Devices |-> App("oneShot", d, Args.at[d], 0, Never)]
    BY <2>3 DEF NewApps
  <2>5. Some("oneShot", delay, 0, Never)
    BY <1>4, <2>4, Zenon DEF Some, Installed
  <2> QED BY <1>4, <2>3, <2>5 DEF Installed
<1>5. \E kind \in AppKinds, delay \in [Devices -> Nat], interval \in Nat,
         stop \in Nat \cup {Never} : Some(kind, delay, interval, stop)
  <2>1. CASE InstallPeriodic
    BY <1>0, <1>1, <2>1 DEF AppKinds
  <2>2. CASE InstallRandom
    BY <1>0, <1>2, <2>2 DEF AppKinds
  <2>3. CASE InstallOneShot
    <3>1. CASE Calls("oneShot") /\ Installed("oneShot", LAMBDA d : Args.at, 0, Args.stop)
      BY <1>3, <3>1 DEF AppKinds
    <3>2. CASE Calls("oneShots") /\ Installed("oneShot", LAMBDA d : Args.at[d], 0, Never)
      BY <1>4, <3>2 DEF AppKinds
    <3> QED BY <2>3, <3>1, <3>2 DEF InstallOneShot
  <2> QED BY <2>1, <2>2, <2>3 DEF Installing
<1>6. /\ \E op \in {"periodic", "random", "oneShot", "oneShots"} : Calls(op)
      /\ UNCHANGED <<net, crashed>>
  BY <1>1, <1>2, <1>3, <1>4 DEF Installing, InstallOneShot
<1> QED BY <1>5, <1>6 DEF Some

LEMMA NewAppsType ==
  ASSUME DpTypeOK, NEW kind \in AppKinds, NEW delay \in [Devices -> Nat],
         NEW interval \in Nat, NEW stop \in Nat \cup {Never}
  PROVE  /\ NewApps(kind, delay, interval, stop) \in Seq(AppRecords)
         /\ apps \o NewApps(kind, delay, interval, stop) \in Seq(AppRecords)
         /\ \A i \in DOMAIN (apps \o NewApps(kind, delay, interval, stop)) :
              \/ /\ i \in DOMAIN apps
                 /\ (apps \o NewApps(kind, delay, interval, stop))[i] = apps[i]
              \/ \E d \in Devices : (apps \o NewApps(kind, delay, interval, stop))[i]
                                      = App(kind, d, delay[d], interval, stop)
<1> DEFINE new == NewApps(kind, delay, interval, stop)
<1>1. \A d \in Devices : App(kind, d, delay[d], interval, stop) \in AppRecords
  <2> SUFFICES ASSUME NEW d \in Devices
               PROVE  App(kind, d, delay[d], interval, stop) \in AppRecords
    OBVIOUS
  <2>1. PICK t \in Nat : t = delay[d]
    OBVIOUS
  <2>2. App(kind, d, t, interval, stop) \in AppRecords
    BY DEF App, AppRecords, None
  <2> QED BY <2>1, <2>2
<1>2. program.devices \in Nat /\ Devices = 1 .. program.devices
  <2>1. PICK n \in 1 .. 250 : program.devices = n
    BY Sizes
  <2> QED BY <2>1 DEF Devices
<1>3. /\ new \in Seq(AppRecords) /\ Len(new) = program.devices
      /\ \A d \in Devices : new[d] = App(kind, d, delay[d], interval, stop)
  <2>1. new = [d \in 1 .. program.devices |-> App(kind, d, delay[d], interval, stop)]
    BY <1>2 DEF NewApps
  <2>2. \A d \in 1 .. program.devices : App(kind, d, delay[d], interval, stop) \in AppRecords
    BY <1>1, <1>2
  <2> QED BY <1>2, <2>1, <2>2
<1> HIDE DEF new
<1>4. apps \in Seq(AppRecords)
  BY DEF DpTypeOK
<1>5. /\ apps \o new \in Seq(AppRecords) /\ Len(apps \o new) = Len(apps) + Len(new)
      /\ \A i \in 1 .. Len(apps) + Len(new) :
           (apps \o new)[i] = IF i <= Len(apps) THEN apps[i] ELSE new[i - Len(apps)]
  BY <1>3, <1>4, ConcatProperties
<1>6. ASSUME NEW i \in DOMAIN (apps \o new)
      PROVE  \/ i \in DOMAIN apps /\ (apps \o new)[i] = apps[i]
             \/ \E d \in Devices : (apps \o new)[i] = App(kind, d, delay[d], interval, stop)
  <2>1. i \in 1 .. Len(apps) + Len(new) /\ Len(apps) \in Nat /\ DOMAIN apps = 1 .. Len(apps)
    BY <1>4, <1>5
  <2>2. CASE i <= Len(apps)
    BY <1>5, <2>1, <2>2
  <2>3. CASE ~ i <= Len(apps)
    <3>1. i - Len(apps) \in Devices /\ (apps \o new)[i] = new[i - Len(apps)]
      BY <1>2, <1>3, <1>5, <2>1, <2>3
    <3> QED BY <1>3, <3>1
  <2> QED BY <2>2, <2>3
<1> QED BY <1>3, <1>5, <1>6 DEF new

(* A packet sent.                                                          *)
Sent(a, due, t) == [a EXCEPT !.due = due, !.sent = @ + 1, !.last = t]

LEMMA MovesToCome ==
  ASSUME NEW s \in Seq([at : Nat, power : Int])
  PROVE  /\ Len(s) \in Nat /\ DOMAIN s = 1 .. Len(s)
         /\ \A i \in DOMAIN s : s[i].at \in Nat /\ s[i].power \in Int
         /\ s # <<>> => /\ 1 \in DOMAIN s /\ Tail(s) \in Seq([at : Nat, power : Int])
                        /\ Len(Tail(s)) = Len(s) - 1
                        /\ \A i \in DOMAIN Tail(s) : i + 1 \in DOMAIN s /\ Tail(s)[i] = s[i + 1]
<1>1. PICK R : R = [at : Nat, power : Int]
  OBVIOUS
<1>2. s \in Seq(R)
  BY <1>1
<1>3. /\ Len(s) \in Nat /\ DOMAIN s = 1 .. Len(s) /\ \A i \in DOMAIN s : s[i] \in R
      /\ s # <<>> => /\ 1 \in DOMAIN s /\ Tail(s) \in Seq(R)
                     /\ Len(Tail(s)) = Len(s) - 1
                     /\ \A i \in DOMAIN Tail(s) : i + 1 \in DOMAIN s /\ Tail(s)[i] = s[i + 1]
  <2>1. /\ Len(s) \in Nat /\ DOMAIN s = 1 .. Len(s) /\ \A i \in DOMAIN s : s[i] \in R
    BY <1>2
  <2>2. ASSUME s # <<>>
        PROVE  /\ 1 \in DOMAIN s /\ Tail(s) \in Seq(R) /\ Len(Tail(s)) = Len(s) - 1
               /\ \A i \in DOMAIN Tail(s) : i + 1 \in DOMAIN s /\ Tail(s)[i] = s[i + 1]
    <3>1. /\ Len(s) # 0 /\ Tail(s) \in Seq(R) /\ Len(Tail(s)) = Len(s) - 1
          /\ \A i \in 1 .. Len(Tail(s)) : Tail(s)[i] = s[i + 1]
      BY <1>2, <2>2, HeadTailProperties, EmptySeq
    <3>2. DOMAIN Tail(s) = 1 .. Len(Tail(s))
      BY <3>1
    <3> QED BY <2>1, <3>1, <3>2
  <2> QED BY <2>1, <2>2
<1>4. \A r \in R : r.at \in Nat /\ r.power \in Int
  BY <1>1
<1> QED BY <1>1, <1>3, <1>4

LEMMA TypeInit ==
  ASSUME DpInit
  PROVE  DpTypeOK
<1>1. Ordered(program)
  BY ProgramsAreOrdered DEF DpInit
<1>2. program.powers \subseteq Int /\ program.moves \in Seq([at : Nat, power : Int])
      /\ Len(program.calls) \in Nat
  BY <1>1, Zenon DEF Ordered
<1>3. rx \in [Devices -> [Gateways -> Int]]
  <2>1. rx \in [Devices -> [Gateways -> program.powers]]
    BY DEF DpInit, Devices, Gateways
  <2> QED BY <1>2, <2>1
<1>4. pos \in [Devices -> Nat]
  <2> DEFINE S == IF program.until = 0 THEN Distances ELSE {0}
  <2>1. pos \in [Devices -> S]
    BY Zenon DEF DpInit, Devices
  <2>2. S \subseteq Nat
    BY DeploymentAssumption DEF DeploymentAssumption
  <2> HIDE DEF S
  <2> QED BY <2>1, <2>2
<1>5. step = 0 /\ ~ Made({"devices"})
  BY DEF DpInit, Made
<1>6. quantity \in [Classes -> 0 .. 255]
  BY DEF DpInit, Zero
<1>7. /\ program \in Programs /\ reach = {} /\ moves = program.moves /\ now = -1 /\ apps = <<>>
  BY DEF DpInit
<1> QED BY <1>2, <1>3, <1>4, <1>5, <1>6, <1>7 DEF DpTypeOK

LEMMA TypeOfCall ==
  ASSUME DpTypeOK, NEW op, Calls(op),
         Made({"devices"})' => dr' \in [Devices -> 0 .. 5],
         quantity' \in [Classes -> 0 .. 255],
         reach' \subseteq {"up", "rtx", "shifted"},
         apps' \in Seq(AppRecords)
  PROVE  DpTypeOK'
<1>1. /\ program' = program /\ rx' = rx /\ pos' = pos /\ moves' = moves /\ now' = now
      /\ Devices' = Devices /\ Gateways' = Gateways /\ AppRecords' = AppRecords
  BY DEF Calls, Devices, Gateways, AppRecords
<1>2. step' \in 0 .. Len(program.calls) /\ now = -1
  BY Sizes DEF Calls, DpTypeOK
<1> QED BY <1>1, <1>2 DEF DpTypeOK

LEMMA TypeOfSetUp ==
  ASSUME DpTypeOK, SetUpCalls
  PROVE  DpTypeOK'
<1>0. /\ quantity \in [Classes -> 0 .. 255] /\ reach \subseteq {"up", "rtx", "shifted"}
      /\ apps \in Seq(AppRecords)
      /\ Made({"devices"}) => dr \in [Devices -> 0 .. 5]
  BY DEF DpTypeOK
<1>1. CASE InstallEndDevices
  <2>1. /\ Calls("devices") /\ dr' = [d \in Devices |-> Args.rate]
        /\ UNCHANGED <<quantity, reach, apps>>
    BY <1>1 DEF InstallEndDevices
  <2>2. Args.rate \in 0 .. 5
    BY <2>1, Called DEF CallOK
  <2>3. dr' \in [Devices -> 0 .. 5]
    BY <2>1, <2>2
  <2> QED BY <1>0, <2>1, <2>3, TypeOfCall
<1>2. ASSUME NEW op \in {"gateways", "server", "forwarders"}, Calls(op),
             UNCHANGED <<dr, quantity, reach, apps>>
      PROVE  DpTypeOK'
  <2>1. Made({"devices"})' => Made({"devices"})
    BY <1>2, Called
  <2> QED BY <1>0, <1>2, <2>1, TypeOfCall
<1>3. CASE InstallGateways
  BY <1>2, <1>3 DEF InstallGateways
<1>4. CASE InstallServer
  BY <1>2, <1>4 DEF InstallServer
<1>5. CASE InstallForwarders
  BY <1>2, <1>5 DEF InstallForwarders
<1>6. ASSUME NEW op, Calls(op), NEW class \in [Devices -> 1 .. 7], NEW how, Assigned(class, how),
             how \subseteq {"up", "rtx", "shifted"}
      PROVE  DpTypeOK'
  <2>1. /\ dr' \in [Devices -> 0 .. 5] /\ reach' = how
        /\ quantity' \in [Classes -> 0 .. 255] /\ apps' = apps
    BY <1>6, AssignedClasses
  <2> QED BY <1>0, <1>6, <2>1, TypeOfCall
<1>7. CASE SetSpreadingFactorsUp
  <2> DEFINE class == Up(rx, IF Args.rtx THEN EdSensitivity ELSE GwSensitivity)
             how == IF Args.rtx THEN {"up", "rtx"} ELSE {"up"}
  <2>1. Calls("up") /\ Assigned(class, how)
    BY <1>7 DEF SetSpreadingFactorsUp
  <2>2. how \subseteq {"up", "rtx", "shifted"}
    OBVIOUS
  <2>3. class \in [Devices -> 1 .. 7]
    BY UpIsClass
  <2> HIDE DEF class, how
  <2> QED BY <1>6, <2>1, <2>2, <2>3
<1>8. CASE SetSpreadingFactorsEIB \/ SetSpreadingFactorsEAB
  BY <1>6, <1>8, RingsAreClasses DEF SetSpreadingFactorsEIB, SetSpreadingFactorsEAB
<1>9. CASE SetSpreadingFactorsProp
  <2>1. Prop(pos, Args.prop1, Args.prop2) \in [Devices -> 1 .. 7]
    BY ThirdsAreClasses
  <2> QED BY <1>6, <1>9, <2>1 DEF SetSpreadingFactorsProp
<1>10. CASE SetSpreadingFactorsStrategies
  <2>1. Calls("strategy")
    BY <1>10 DEF SetSpreadingFactorsStrategies
  <2>2. CASE Args.mode = "SHIFT_TWO" /\ \E d \in Devices : d > Args.edge /\ dr[d] = 1
    <3>1. UNCHANGED <<dr, quantity, reach, apps>>
      BY <1>10, <2>2 DEF SetSpreadingFactorsStrategies
    <3>2. Made({"devices"})
      BY <2>1, Called DEF RateOps
    <3> QED BY <1>0, <2>1, <3>1, <3>2, TypeOfCall
  <2>3. CASE ~ (Args.mode = "SHIFT_TWO" /\ \E d \in Devices : d > Args.edge /\ dr[d] = 1)
    <3>1. /\ dr' \in [Devices -> 0 .. 5] /\ quantity' \in [Classes -> 0 .. 255]
          /\ reach' = IF Args.mode \in Shifts THEN reach \cup {"shifted"} ELSE {}
          /\ apps' = apps
      BY <1>10, <2>1, <2>3, StrategyGives
    <3>2. reach' \subseteq {"up", "rtx", "shifted"}
      BY <1>0, <3>1
    <3> QED BY <1>0, <2>1, <3>1, <3>2, TypeOfCall
  <2> QED BY <2>2, <2>3
<1>11. CASE SetDataRates
  <2>1. /\ Calls("rates") /\ dr' = [d \in Devices |-> 6 - d]
        /\ UNCHANGED <<quantity, reach, apps>>
    BY <1>11 DEF SetDataRates
  <2>2. PICK n \in 1 .. 250 : program.devices = n /\ n <= 6
    BY <2>1, Called, Sizes DEF CallOK
  <2>3. dr' \in [Devices -> 0 .. 5]
    BY <2>1, <2>2 DEF Devices
  <2> QED BY <1>0, <2>1, <2>3, TypeOfCall
<1>12. CASE Installing
  <2>1. PICK op \in {"periodic", "random", "oneShot", "oneShots"} : Calls(op)
    BY <1>12, AppsInstalled
  <2>2. UNCHANGED <<dr, quantity, reach>>
    BY <1>12, AppsInstalled DEF net
  <2>3. PICK kind \in AppKinds, delay \in [Devices -> Nat], interval \in Nat,
             stop \in Nat \cup {Never} :
          apps' = apps \o NewApps(kind, delay, interval, stop)
    BY <1>12, AppsInstalled
  <2>4. apps' \in Seq(AppRecords)
    BY <2>3, NewAppsType
  <2>5. Made({"devices"})' => Made({"devices"})
    BY <2>1, Called
  <2> QED BY <1>0, <2>1, <2>2, <2>4, <2>5, TypeOfCall
<1> QED BY <1>1, <1>3, <1>4, <1>5, <1>7, <1>8, <1>9, <1>10, <1>11, <1>12
        DEF SetUpCalls, Installing

(* An event is the next of all.                                            *)
LEMMA NextEvent ==
  ASSUME DpTypeOK, NEW t, Happens(t)
  PROVE  /\ ~ crashed /\ now \in Nat /\ t \in Nat /\ now' = t /\ t < End
         /\ t \in Events /\ \A e \in Events : t <= e
<1>1. Events \subseteq Nat
  <2>1. \A i \in DOMAIN apps : apps[i].due \subseteq Nat /\ apps[i].ends \subseteq Nat
    <3>1. \A i \in DOMAIN apps : apps[i] \in AppRecords
      BY DEF DpTypeOK
    <3> QED BY <3>1 DEF AppRecords
  <2>2. moves # <<>> => moves[1].at \in Nat
    BY MovesToCome DEF DpTypeOK
  <2> SUFFICES ASSUME NEW e \in Events PROVE e \in Nat
    OBVIOUS
  <2>3. \/ \E i \in DOMAIN apps : e \in apps[i].due \cup apps[i].ends
        \/ moves # <<>> /\ e = moves[1].at
    <3> DEFINE A == UNION {apps[i].due \cup apps[i].ends : i \in DOMAIN apps}
               B == IF moves = <<>> THEN {} ELSE {moves[1].at}
    <3>1. Events = A \cup B
      BY DEF Events
    <3>2. ASSUME e \in A
          PROVE  \E i \in DOMAIN apps : e \in apps[i].due \cup apps[i].ends
      BY <3>2
    <3>3. e \in B => moves # <<>> /\ e = moves[1].at
      OBVIOUS
    <3> HIDE DEF A, B
    <3> QED BY <3>1, <3>2, <3>3
  <2> QED BY <2>1, <2>2, <2>3
<1>2. /\ ~ crashed /\ now # -1 /\ Events # {} /\ t = Min(Events) /\ t < End /\ now' = t
  BY DEF Happens
<1>3. Min(Events) \in Events /\ \A e \in Events : Min(Events) <= e
  BY <1>1, <1>2, LeastOf
<1>4. now \in Nat
  BY <1>2 DEF DpTypeOK
<1> QED BY <1>1, <1>2, <1>3, <1>4

LEMMA TypeOfSimulation ==
  ASSUME DpTypeOK, Simulation
  PROVE  DpTypeOK'
<1> DEFINE Moments == [at : Nat, power : Int]
<1>0. \A i \in DOMAIN apps : apps[i] \in AppRecords
  BY DEF DpTypeOK
<1>1. ASSUME UNCHANGED <<program, step, pos, net>>,
             rx' \in [Devices -> [Gateways -> Int]], moves' \in Seq(Moments),
             now' \in Nat, now # -1 \/ step = Len(program.calls), apps' \in Seq(AppRecords)
      PROVE  DpTypeOK'
  <2>1. /\ Devices' = Devices /\ Gateways' = Gateways /\ AppRecords' = AppRecords
        /\ dr' = dr /\ quantity' = quantity /\ reach' = reach
        /\ Made({"devices"})' = Made({"devices"})
    BY <1>1 DEF Devices, Gateways, AppRecords, net, Made
  <2>2. now' # -1 => step' = Len(program'.calls)
    BY <1>1 DEF DpTypeOK
  <2> QED BY <1>1, <2>1, <2>2 DEF DpTypeOK
<1>2. CASE Run
  <2>1. /\ now' = 0 /\ step = Len(program.calls)
        /\ apps' = [i \in DOMAIN apps |-> Started(apps[i])]
        /\ UNCHANGED <<program, step, rx, pos, net, moves>>
    BY <1>2 DEF Run
  <2>2. \A i \in DOMAIN apps : Started(apps[i]) \in AppRecords
    BY <1>0 DEF Started, AppRecords, None
  <2>3. apps' \in Seq(AppRecords)
    <3>1. Len(apps) \in Nat /\ DOMAIN apps = 1 .. Len(apps)
      BY DEF DpTypeOK
    <3> QED BY <2>1, <2>2, <3>1
  <2> QED BY <1>1, <2>1, <2>3 DEF DpTypeOK
<1>3. CASE Move
  <2>1. /\ now # -1 /\ now' \in Nat
    BY <1>3, NextEvent DEF Move
  <2>2. /\ moves # <<>> /\ rx' = [d \in Devices |-> [g \in Gateways |-> moves[1].power]]
        /\ moves' = Tail(moves) /\ UNCHANGED <<program, step, pos, net, apps>>
    BY <1>3 DEF Move
  <2>3. moves[1].power \in Int /\ moves' \in Seq(Moments)
    BY <2>2, MovesToCome DEF DpTypeOK
  <2> HIDE DEF Moments
  <2> QED BY <1>1, <2>1, <2>2, <2>3 DEF DpTypeOK
<1>4. ASSUME NEW i \in DOMAIN apps, StopApplication(i)
      PROVE  DpTypeOK'
  <2>1. now # -1 /\ now' \in Nat
    BY <1>4, NextEvent DEF StopApplication
  <2>2. /\ apps' = [apps EXCEPT ![i] = Stopped(apps[i])]
        /\ UNCHANGED <<program, step, rx, pos, net, moves>>
    BY <1>4 DEF StopApplication
  <2>3. Stopped(apps[i]) \in AppRecords
    BY <1>0 DEF AppRecords, Stopped, None
  <2>4. apps' \in Seq(AppRecords)
    BY <2>2, <2>3 DEF DpTypeOK
  <2> QED BY <1>1, <2>1, <2>2, <2>4 DEF DpTypeOK
<1>5. ASSUME NEW i \in DOMAIN apps, SendPacket(i)
      PROVE  DpTypeOK'
  <2>1. now # -1 /\ now' \in Nat
    BY <1>5, NextEvent DEF SendPacket
  <2>2. PICK due \in NextDelays(apps[i]) :
          apps' = [apps EXCEPT ![i] = Sent(apps[i], due, now')]
    BY <1>5, Zenon DEF SendPacket, Sent
  <2>3. UNCHANGED <<program, step, rx, pos, net, moves>>
    BY <1>5, Zenon DEF SendPacket
  <2>4. due \in SUBSET Nat
    <3>1. apps[i].interval \in Nat /\ apps[i].kind \in AppKinds
      BY <1>0 DEF AppRecords
    <3>2. CASE apps[i].kind = "periodic"
      BY <2>1, <2>2, <3>1, <3>2 DEF NextDelays
    <3>3. CASE apps[i].kind = "random"
      BY <2>1, <2>2, <3>1, <3>3 DEF NextDelays
    <3>4. CASE apps[i].kind = "oneShot"
      BY <2>2, <3>4 DEF NextDelays, None
    <3> QED BY <3>1, <3>2, <3>3, <3>4 DEF AppKinds
  <2>5. Sent(apps[i], due, now') \in AppRecords
    <3>1. PICK t \in Nat : t = now'
      BY <2>1
    <3>2. PICK a \in AppRecords : a = apps[i]
      BY <1>0
    <3>3. a.sent \in Nat
      BY DEF AppRecords
    <3>4. PICK n \in Nat : n = a.sent + 1
      BY <3>3
    <3>5. Sent(a, due, t) = [a EXCEPT !.due = due, !.sent = n, !.last = t]
      BY <3>4, Zenon DEF Sent
    <3>6. [a EXCEPT !.due = due, !.sent = n, !.last = t] \in AppRecords
      BY <2>4 DEF AppRecords
    <3> QED BY <3>1, <3>2, <3>5, <3>6
  <2>6. apps' \in Seq(AppRecords)
    BY <2>2, <2>5 DEF DpTypeOK
  <2> QED BY <1>1, <2>1, <2>3, <2>6 DEF DpTypeOK
<1> QED BY <1>2, <1>3, <1>4, <1>5 DEF Simulation

LEMMA TypeStep ==
  ASSUME DpTypeOK, [DpNext]_dpVars
  PROVE  DpTypeOK'
<1>1. CASE UNCHANGED dpVars
  <2>1. /\ Devices' = Devices /\ Gateways' = Gateways /\ AppRecords' = AppRecords
        /\ Made({"devices"})' = Made({"devices"})
    BY <1>1 DEF dpVars, net, Devices, Gateways, AppRecords, Made
  <2> QED BY <1>1, <2>1 DEF dpVars, net, DpTypeOK
<1> QED BY <1>1, TypeOfSetUp, TypeOfSimulation DEF DpNext

(* The state of a program has its type, whatever programs, networks and    *)
(* studies there are: a data rate is one of six, powers are powers, every  *)
(* application belongs to a device (LorawanMacHelper, the application      *)
(* helpers and the three applications).                                    *)
THEOREM DeploymentTypes ==
  DpSpec => []DpTypeOK
<1>1. DpInit => DpTypeOK
  BY TypeInit
<1>2. DpTypeOK /\ [DpNext]_dpVars => DpTypeOK'
  BY TypeStep
<1> QED BY <1>1, <1>2, PTL DEF DpSpec

-----------------------------------------------------------------------------
(* From a device to the status of its sender.                              *)
LEMMA MadeGrows ==
  ASSUME NEW a, NEW b, Made(a), a \subseteq b
  PROVE  Made(b)
BY DEF Made

LEMMA NothingMade ==
  ASSUME DpInit
  PROVE  \A ops : ~ Made(ops)
BY DEF DpInit, Made

LEMMA SimulationKeeps ==
  ASSUME Simulation \/ UNCHANGED dpVars
  PROVE  UNCHANGED <<program, step, pos, net>> /\ \A ops : Made(ops)' <=> Made(ops)
<1>1. UNCHANGED <<program, step, pos, net>>
  BY Zenon DEF Simulation, Run, Move, SendPacket, StopApplication, dpVars
<1> QED BY <1>1 DEF Made

LEMMA ChannelsInBand ==
  ASSUME NEW region \in DOMAIN Regions, NEW f \in Regions[region].channels
  PROVE  InBand(region, f)
<1>1. CASE region = "EU"
  <2>1. f \in {8671, 8673, 8675, 8677, 8679, 8681, 8683, 8685}
    BY <1>1 DEF Regions
  <2>2. \/ f \in {8671, 8673, 8675, 8677, 8679, 8681, 8683, 8685}
           /\ <<8670, 8686>> \in Regions[region].bands
    BY <1>1, <2>1 DEF Regions
  <2> QED BY <2>1, <2>2 DEF InBand
<1>2. CASE region = "SingleChannel"
  <2>1. f = 8681 /\ <<8680, 8686>> \in Regions[region].bands
    BY <1>2 DEF Regions
  <2> QED BY <2>1 DEF InBand
<1>3. CASE region = "ALOHA"
  <2>1. f = 8681 /\ <<8680, 8686>> \in Regions[region].bands
    BY <1>3 DEF Regions
  <2> QED BY <2>1 DEF InBand
<1> QED BY <1>1, <1>2, <1>3 DEF Regions

LEMMA OnlyOne ==
  ASSUME NEW d
  PROVE  Min({d}) = d
<1>1. CASE d <= d
  BY <1>1, Zenon DEF Min
<1>2. CASE ~ d <= d
  <2> QED BY <1>2 DEF Min
<1> QED BY <1>1, <1>2

LEMMA WiredInit ==
  ASSUME DpInit
  PROVE  Wired
<1>1. nextAddr = FirstAddr
  BY DEF DpInit
<1> QED BY <1>1, NothingMade DEF Wired

LEMMA WiredSame ==
  ASSUME DpTypeOK, Wired, NEW op, Calls(op),
         op \notin {"devices", "server", "gateways", "forwarders"},
         UNCHANGED <<nextAddr, addr, gateways, linked, nodes>>
  PROVE  Wired'
<1>1. \A ops \in {{"devices"}, {"server"}, {"gateways", "forwarders"}, {"forwarders"}} :
        Made(ops)' <=> Made(ops)
  BY Called
<1>2. program' = program /\ Devices' = Devices /\ Gateways' = Gateways
  BY DEF Calls, Devices, Gateways
<1>3. Generated(program)' <=> Generated(program)
  BY <1>2
<1> QED BY <1>1, <1>2, <1>3 DEF Wired

LEMMA WiredDevices ==
  ASSUME DpTypeOK, Wired, InstallEndDevices
  PROVE  Wired'
<1>1. /\ Calls("devices") /\ UNCHANGED <<gateways, linked, nodes>>
  BY DEF InstallEndDevices
<1>2. program' = program /\ Devices' = Devices /\ Gateways' = Gateways
      /\ (Generated(program)' <=> Generated(program))
  BY <1>1 DEF Calls, Devices, Gateways
<1>3. /\ ~ Made({"devices"}) /\ Made({"devices"})'
      /\ ~ Made({"server"}) /\ ~ Made({"server"})'
      /\ \A ops \in {{"gateways", "forwarders"}, {"forwarders"}} : Made(ops)' <=> Made(ops)
  BY <1>1, Called, MadeGrows
<1>4. ASSUME Generated(program)
      PROVE  addr' \in [Devices -> Nat] /\ \A d \in Devices : addr'[d] = FirstAddr + d - 1
  <2>1. Args.addresses = "generator"
    BY <1>1, <1>4, Called DEF Generated, Args
  <2>2. addr' = NextAddress(program.devices) /\ nextAddr = FirstAddr
    BY <1>3, <2>1 DEF InstallEndDevices, Wired
  <2>3. PICK n \in 1 .. 250 : program.devices = n
    BY Sizes
  <2>4. \A d \in 1 .. n : (FirstAddr + d - 1) % AddrSpace = FirstAddr + d - 1
                          /\ FirstAddr + d - 1 \in Nat
    BY DEF FirstAddr, AddrSpace
  <2>5. addr' = [d \in 1 .. n |-> (FirstAddr + d - 1) % AddrSpace]
    BY <2>2, <2>3 DEF NextAddress
  <2>6. Devices = 1 .. n
    BY <2>3 DEF Devices
  <2> QED BY <2>4, <2>5, <2>6
<1>5. /\ Made({"gateways", "forwarders"})' =>
           /\ gateways' \in [Gateways' -> {"node", "server"}]
           /\ \A g \in Gateways' : gateways'[g] = "server" => Made({"forwarders"})'
  BY <1>1, <1>2, <1>3 DEF Wired
<1> QED BY <1>2, <1>3, <1>4, <1>5 DEF Wired

LEMMA WiredServer ==
  ASSUME DpTypeOK, Wired, InstallServer
  PROVE  Wired'
<1>1. /\ Calls("server") /\ UNCHANGED <<nextAddr, addr, gateways>> /\ linked' = TRUE
      /\ nodes' = [a \in {addr[d] : d \in Devices} |-> Min({d \in Devices : addr[d] = a})]
  BY DEF InstallServer
<1>2. program' = program /\ Devices' = Devices /\ Gateways' = Gateways
      /\ (Generated(program)' <=> Generated(program))
  BY <1>1 DEF Calls, Devices, Gateways
<1>3. /\ Made({"devices"}) /\ Made({"devices"})'
      /\ \A ops \in {{"gateways", "forwarders"}, {"forwarders"}} : Made(ops)' <=> Made(ops)
  BY <1>1, Called
<1>4. ASSUME Generated(program)
      PROVE  DOMAIN nodes' = {addr[d] : d \in Devices} /\ \A d \in Devices : nodes'[addr[d]] = d
  <2>1. \A d \in Devices : addr[d] = FirstAddr + d - 1
    BY <1>3, <1>4 DEF Wired
  <2>2. ASSUME NEW d \in Devices
        PROVE  nodes'[addr[d]] = d
    <3>1. PICK n \in 1 .. 250 : program.devices = n
      BY Sizes
    <3>2. \A e \in Devices : FirstAddr + e - 1 = FirstAddr + d - 1 => e = d
      BY <3>1 DEF Devices, FirstAddr
    <3>3. {e \in Devices : addr[e] = addr[d]} = {d}
      BY <2>1, <3>2
    <3>4. nodes'[addr[d]] = Min({e \in Devices : addr[e] = addr[d]})
      BY <1>1
    <3> QED BY <3>3, <3>4, OnlyOne
  <2> QED BY <1>1, <2>2
<1>5. /\ Made({"gateways", "forwarders"})' =>
           /\ gateways' \in [Gateways' -> {"node", "server"}]
           /\ \A g \in Gateways' : gateways'[g] = "server" => Made({"forwarders"})'
  BY <1>1, <1>2, <1>3 DEF Wired
<1>6. Generated(program) =>
        addr' \in [Devices' -> Nat] /\ \A d \in Devices' : addr'[d] = FirstAddr + d - 1
  BY <1>1, <1>2, <1>3 DEF Wired
<1>7. Generated(program) =>
        /\ DOMAIN nodes' = {addr'[d] : d \in Devices'} /\ \A d \in Devices' : nodes'[addr'[d]] = d
  BY <1>1, <1>2, <1>4
<1> QED BY <1>1, <1>2, <1>3, <1>5, <1>6, <1>7 DEF Wired

LEMMA WiredGateways ==
  ASSUME DpTypeOK, Wired, InstallGateways \/ InstallForwarders
  PROVE  Wired'
<1>1. PICK op \in {"gateways", "forwarders"} :
        /\ Calls(op) /\ UNCHANGED <<nextAddr, addr, linked, nodes>>
        /\ op = "gateways" => gateways' = [g \in Gateways |-> "node"]
        /\ op = "forwarders" => gateways' = [g \in Gateways |-> LinkNow]
  BY DEF InstallGateways, InstallForwarders
<1>2. program' = program /\ Devices' = Devices /\ Gateways' = Gateways
      /\ (Generated(program)' <=> Generated(program))
  BY <1>1 DEF Calls, Devices, Gateways
<1>3. /\ \A ops \in {{"devices"}, {"server"}} : Made(ops)' <=> Made(ops)
      /\ op = "forwarders" => Made({"server"}) /\ Made({"forwarders"})'
  BY <1>1, Called
<1>4. /\ gateways' \in [Gateways -> {"node", "server"}]
      /\ \A g \in Gateways : gateways'[g] = "server" => Made({"forwarders"})'
  <2>1. CASE op = "gateways"
    BY <1>1, <2>1
  <2>2. CASE op = "forwarders"
    <3>1. LinkNow = "server"
      BY <1>3, <2>2 DEF Wired, LinkNow
    <3> QED BY <1>1, <1>3, <2>2, <3>1
  <2> QED BY <2>1, <2>2
<1> QED BY <1>1, <1>2, <1>3, <1>4 DEF Wired

LEMMA WiredStep ==
  ASSUME DpTypeOK, Wired, [DpNext]_dpVars
  PROVE  Wired'
<1>1. CASE Simulation \/ UNCHANGED dpVars
  <2>1. /\ UNCHANGED <<program, step, net>> /\ Devices' = Devices /\ Gateways' = Gateways
        /\ \A ops : Made(ops)' <=> Made(ops)
    BY <1>1, SimulationKeeps DEF Devices, Gateways
  <2> QED BY <2>1 DEF Wired, net
<1>2. ASSUME NEW op \in {"up", "EIB", "EAB", "prop", "rates", "strategy", "periodic", "random",
                         "oneShot", "oneShots"},
             Calls(op), UNCHANGED <<nextAddr, addr, gateways, linked, nodes>>
      PROVE  Wired'
  BY <1>2, WiredSame
<1>3. CASE SetSpreadingFactorsUp
  BY <1>2, <1>3 DEF SetSpreadingFactorsUp, Assigned
<1>4. CASE SetSpreadingFactorsEIB \/ SetSpreadingFactorsEAB \/ SetSpreadingFactorsProp
  BY <1>2, <1>4 DEF SetSpreadingFactorsEIB, SetSpreadingFactorsEAB, SetSpreadingFactorsProp, Assigned
<1>5. CASE SetSpreadingFactorsStrategies
  BY <1>2, <1>5 DEF SetSpreadingFactorsStrategies
<1>6. CASE SetDataRates
  BY <1>2, <1>6 DEF SetDataRates
<1>7. CASE Installing
  <2>1. PICK op \in {"periodic", "random", "oneShot", "oneShots"} : Calls(op)
    BY <1>7, AppsInstalled
  <2>2. UNCHANGED <<nextAddr, addr, gateways, linked, nodes>>
    BY <1>7, AppsInstalled DEF net
  <2> QED BY <1>2, <2>1, <2>2
<1> QED BY <1>1, <1>3, <1>4, <1>5, <1>6, <1>7, WiredDevices, WiredServer, WiredGateways
        DEF DpNext, SetUpCalls, Installing

LEMMA ThirdsStep ==
  ASSUME DpTypeOK, ThirdsAreFast, [DpNext]_dpVars
  PROVE  ThirdsAreFast'
<1>1. CASE Simulation \/ UNCHANGED dpVars
  <2>1. UNCHANGED <<program, step, net>> /\ Devices' = Devices
    BY <1>1, SimulationKeeps DEF Devices
  <2> QED BY <2>1 DEF ThirdsAreFast, net
<1>2. ASSUME NEW op, op # "prop", Calls(op)
      PROVE  ThirdsAreFast'
  <2>1. program' = program /\ step' = step + 1 /\ program.calls[step + 1].op = op
    BY <1>2 DEF Calls
  <2> QED BY <1>2, <2>1 DEF ThirdsAreFast
<1>3. CASE SetSpreadingFactorsProp
  <2> DEFINE class == Prop(pos, Args.prop1, Args.prop2)
  <2>1. class \in [Devices -> 1 .. 3] /\ Assigned(class, {}) /\ Devices' = Devices
    BY <1>3, ThirdsAreClasses DEF SetSpreadingFactorsProp, Calls, Devices
  <2> HIDE DEF class
  <2>2. \A d \in Devices : dr'[d] = IF class[d] = 7 THEN 0 ELSE 6 - class[d]
    BY <2>1, AssignedClasses
  <2>3. \A d \in Devices : dr'[d] \in 3 .. 5
    BY <2>1, <2>2
  <2> QED BY <2>1, <2>3 DEF ThirdsAreFast
<1>4. CASE SetUpCalls /\ ~ SetSpreadingFactorsProp
  <2>1. CASE Installing
    BY <1>2, <2>1, AppsInstalled
  <2>2. CASE ~ Installing
    <3>1. PICK op \in {"devices", "gateways", "server", "forwarders", "up", "EIB", "EAB",
                       "strategy", "rates"} : Calls(op)
      BY <1>4, <2>2, Zenon
         DEF SetUpCalls, Installing, InstallEndDevices, InstallGateways, InstallServer,
             InstallForwarders, SetSpreadingFactorsUp, SetSpreadingFactorsEIB,
             SetSpreadingFactorsEAB, SetSpreadingFactorsStrategies, SetDataRates
    <3> QED BY <1>2, <3>1
  <2> QED BY <2>1, <2>2
<1> QED BY <1>1, <1>3, <1>4 DEF DpNext

(* No shift wraps a data rate.                                             *)
LEMMA NoneWraps ==
  ASSUME ShiftsKeepRates, DpTypeOK, ThirdsAreFast, Calls("strategy")
  PROVE  ~ (Args.mode = "SHIFT_TWO" /\ \E d \in Devices : d > Args.edge /\ dr[d] = 1)
<1> SUFFICES ASSUME Args.mode = "SHIFT_TWO", NEW d \in Devices, dr[d] = 1
             PROVE  FALSE
  OBVIOUS
<1>1. Args.op = "strategy" /\ step + 1 \in Places(program)
  BY Called
<1>2. PICK s \in Studies : program = Study(s)
  <2>1. StudiesOnly(program)
    BY ProgramIsOrdered DEF Ordered
  <2> QED BY <1>1, <2>1 DEF StudiesOnly, Args
<1>3. /\ Len(s) \in Nat /\ Len(program.calls) = Len(s) + 2
      /\ program.calls[1] = EndDevices /\ program.calls[2] = GatewaysCall
      /\ \A i \in 1 .. Len(s) : program.calls[i + 2] = s[i]
  BY <1>2, StudyFields
<1>4. step \in Nat /\ step + 1 \in 1 .. Len(s) + 2 /\ step + 1 # 1 /\ step + 1 # 2
  BY <1>1, <1>3, Sizes, CallFields DEF Places, Args
<1>5. step - 1 \in 1 .. Len(s) /\ (step - 1) + 2 = step + 1
  BY <1>3, <1>4
<1>6. s[step - 1] = Args
  BY <1>3, <1>5 DEF Args
<1>7. step - 1 > 1 /\ s[(step - 1) - 1].op = "prop"
  BY <1>1, <1>5, <1>6 DEF ShiftsKeepRates, IsStrategy
<1>8. step > 0 /\ (step - 1) - 1 \in 1 .. Len(s) /\ ((step - 1) - 1) + 2 = step
  BY <1>3, <1>4, <1>7
<1>9. program.calls[step].op = "prop"
  BY <1>3, <1>7, <1>8
<1> QED BY <1>8, <1>9 DEF ThirdsAreFast

LEMMA UplinkFindsSender ==
  ASSUME DpTypeOK, Wired, ServerKnowsSender, now # -1,
         NEW d \in Devices, NEW heard \in SUBSET Gateways, Uplink(d, heard)
  PROVE  ServerKnowsSender'
<1> DEFINE forwarded == {g \in heard : gateways[g] # "node"}
<1>1. ServerFirst(program) /\ step = Len(program.calls)
  BY ProgramIsOrdered DEF Ordered, DpTypeOK
<1>2. /\ gateways \in [Gateways -> {"node", "server"}]
      /\ \A g \in Gateways : gateways[g] = "server" => Made({"forwarders"})
  <2>1. Made({"gateways", "forwarders"})
    BY <1>1 DEF ServerFirst, Made, Places
  <2> QED BY <2>1 DEF Wired
<1>3. ~ \E g \in forwarded : gateways[g] = "null"
  BY <1>2
<1>4. ASSUME forwarded # {}
      PROVE  addr[d] \in DOMAIN nodes /\ nodes[addr[d]] = d
  <2>1. PICK g \in forwarded : gateways[g] = "server"
    BY <1>2, <1>4
  <2>2. PICK i \in Places(program) : program.calls[i].op = "forwarders"
    BY <1>1, <1>2, <2>1 DEF Made, Places
  <2>3. (\E j \in 1 .. i - 1 : program.calls[j].op = "server") /\ Generated(program)
    BY <1>1, <2>2 DEF ServerFirst
  <2>4. Made({"server"})
    BY <1>1, <2>2, <2>3, Sizes DEF Made, Places
  <2> QED BY <2>3, <2>4 DEF Wired
<1>5. /\ crashed' = crashed
      /\ stored' = IF forwarded = {} THEN stored ELSE stored \cup {<<d, nodes[addr[d]]>>}
  BY <1>3, <1>4 DEF Uplink
<1> QED BY <1>4, <1>5 DEF ServerKnowsSender

LEMMA SenderStep ==
  ASSUME ShiftsKeepRates, DpTypeOK, Wired, ThirdsAreFast, ServerKnowsSender, [DpNext]_dpVars
  PROVE  ServerKnowsSender'
<1>1. ASSUME UNCHANGED <<crashed, stored>>
      PROVE  ServerKnowsSender'
  BY <1>1 DEF ServerKnowsSender
<1>2. CASE SetUpCalls
  <2>1. CASE SetSpreadingFactorsStrategies
    <3>1. Calls("strategy")
      BY <2>1 DEF SetSpreadingFactorsStrategies
    <3>2. UNCHANGED <<crashed, stored>>
      BY <2>1, <3>1, NoneWraps DEF SetSpreadingFactorsStrategies, Calls
    <3> QED BY <1>1, <3>2
  <2>2. CASE Installing
    BY <1>1, <2>2, AppsInstalled DEF Calls
  <2>3. CASE ~ SetSpreadingFactorsStrategies /\ ~ Installing
    <3>1. UNCHANGED <<crashed, stored>>
      BY <1>2, <2>3, Zenon
         DEF SetUpCalls, Installing, InstallEndDevices, InstallGateways, InstallServer,
             InstallForwarders, SetSpreadingFactorsUp, SetSpreadingFactorsEIB,
             SetSpreadingFactorsEAB, SetSpreadingFactorsProp, SetDataRates, Assigned, Calls
    <3> QED BY <1>1, <3>1
  <2> QED BY <2>1, <2>2, <2>3
<1>3. CASE Run \/ Move \/ UNCHANGED dpVars
  BY <1>1, <1>3 DEF Run, Move, dpVars
<1>4. ASSUME NEW i \in DOMAIN apps, StopApplication(i)
      PROVE  ServerKnowsSender'
  BY <1>1, <1>4 DEF StopApplication
<1>5. ASSUME NEW i \in DOMAIN apps, SendPacket(i)
      PROVE  ServerKnowsSender'
  <2> DEFINE a == apps[i]
  <2>1. a.dev \in Devices
    <3>1. a \in AppRecords
      BY DEF DpTypeOK
    <3> QED BY <3>1 DEF AppRecords
  <2>2. now # -1
    BY <1>5, NextEvent DEF SendPacket
  <2>3. ~ \E f \in Channels : ~ InBand(program.region, f)
    <3>1. program.region \in DOMAIN Regions
      BY ProgramIsOrdered DEF Ordered
    <3> QED BY <3>1, ChannelsInBand DEF Channels
  <2>4. PICK heard \in SUBSET {g \in Gateways : Hears(a.dev, g)} : Uplink(a.dev, heard)
    BY <1>5, <2>3, Zenon DEF SendPacket
  <2>5. heard \in SUBSET Gateways
    BY <2>4
  <2> QED BY <2>1, <2>2, <2>4, <2>5, UplinkFindsSender
<1> QED BY <1>2, <1>3, <1>4, <1>5 DEF DpNext, Simulation

(* In every program that shifts data rates by two only after the thirds of *)
(* SetSpreadingFactorsProp, and in a network of any size, an uplink that a *)
(* gateway hands on reaches a server that knows its sender, and is         *)
(* recorded for that sender: whatever order the helpers of the program are *)
(* called in (LorawanMacHelper, NetworkServerHelper, ForwarderHelper,      *)
(* NetworkStatus::OnReceivedPacket).                                       *)
THEOREM UplinksFindTheirSender ==
  ASSUME ShiftsKeepRates
  PROVE  DpSpec => []ServerKnowsSender
<1> DEFINE Inv == DpTypeOK /\ Wired /\ ThirdsAreFast /\ ServerKnowsSender
<1>1. DpInit => Inv
  <2> SUFFICES ASSUME DpInit PROVE Inv
    OBVIOUS
  <2>1. ThirdsAreFast /\ ServerKnowsSender
    BY DEF DpInit, ThirdsAreFast, ServerKnowsSender
  <2> QED BY <2>1, TypeInit, WiredInit
<1>2. Inv /\ [DpNext]_dpVars => Inv'
  BY TypeStep, WiredStep, ThirdsStep, SenderStep
<1> QED BY <1>1, <1>2, PTL DEF DpSpec

-----------------------------------------------------------------------------
(* Counts.                                                                 *)
OfClass(c) == {d \in Devices : ClassOf(dr[d]) = c}
OfClassNext(c) == {d \in Devices : ClassOf(dr'[d]) = c}

LEMMA MovesBalance ==
  ASSUME DpTypeOK, NEW c \in Classes, NEW M \in SUBSET Devices,
         \A d \in Devices \ M : dr'[d] = dr[d]
  PROVE  /\ Cardinality(OfClassNext(c)) =
              Cardinality(OfClass(c)) + Cardinality(OfClassNext(c) \cap M)
                - Cardinality(OfClass(c) \cap M)
         /\ Cardinality(OfClassNext(c)) \in 0 .. 250
         /\ Cardinality(OfClass(c)) \in Nat /\ Cardinality(OfClass(c) \cap M) \in Nat
         /\ Cardinality(OfClassNext(c) \cap M) \in Nat
<1> DEFINE A == OfClass(c)
           B == OfClassNext(c)
<1>1. A \in SUBSET Devices /\ B \in SUBSET Devices
  BY DEF OfClass, OfClassNext
<1>2. A \ M = B \ M
  BY <1>1 DEF OfClass, OfClassNext
<1> HIDE DEF A, B
<1>3. /\ IsFiniteSet(A) /\ Cardinality(A) \in 0 .. 250
      /\ IsFiniteSet(B) /\ Cardinality(B) \in 0 .. 250
      /\ Cardinality(A \cap M) \in 0 .. 250 /\ Cardinality(B \cap M) \in 0 .. 250
  <2>1. A \cap M \in SUBSET Devices /\ B \cap M \in SUBSET Devices
    BY <1>1
  <2> QED BY <1>1, <2>1, DevicesAreFinite
<1>4. /\ Cardinality(A \ M) = Cardinality(A) - Cardinality(A \cap M)
      /\ Cardinality(B \ M) = Cardinality(B) - Cardinality(B \cap M)
  BY <1>3, FS_Difference
<1>5. Cardinality(B) = Cardinality(A) + Cardinality(B \cap M) - Cardinality(A \cap M)
  <2>1. PICK a \in Int, b \in Int, x \in Int, y \in Int :
          /\ a = Cardinality(A) /\ b = Cardinality(B)
          /\ x = Cardinality(A \cap M) /\ y = Cardinality(B \cap M)
    <3>1. /\ Cardinality(A) \in Int /\ Cardinality(A \cap M) \in Int
          /\ Cardinality(B) \in Int /\ Cardinality(B \cap M) \in Int
      BY <1>3
    <3> QED BY <3>1, Zenon
  <2>2. Cardinality(A \ M) = a - x /\ Cardinality(B \ M) = b - y
    BY <1>4, <2>1, Zenon
  <2>3. a - x = b - y
    BY <1>2, <2>2, Zenon
  <2>4. b = a + y - x
    BY <2>3
  <2> QED BY <2>1, <2>4, Zenon
<1> QED BY <1>3, <1>5 DEF A, B

(* CLASS_THREE finds every count at 0.                                     *)
LEMMA FirstOfStudy ==
  ASSUME CountsFromZero, DpTypeOK, Calls("strategy"), Args.mode = "CLASS_THREE"
  PROVE  ~ Made(RateOps)
<1>1. Args.op = "strategy" /\ step + 1 \in Places(program)
  BY Called
<1>2. PICK s \in Studies : program = Study(s)
  <2>1. StudiesOnly(program)
    BY ProgramIsOrdered DEF Ordered
  <2> QED BY <1>1, <2>1 DEF StudiesOnly, Args
<1>3. /\ Len(s) \in Nat /\ Len(program.calls) = Len(s) + 2
      /\ program.calls[1] = EndDevices /\ program.calls[2] = GatewaysCall
      /\ \A i \in 1 .. Len(s) : program.calls[i + 2] = s[i]
  BY <1>2, StudyFields
<1>4. step \in Nat /\ step + 1 \in 1 .. Len(s) + 2 /\ step + 1 # 1 /\ step + 1 # 2
  BY <1>1, <1>3, Sizes, CallFields DEF Places, Args
<1>5. step - 1 \in 1 .. Len(s) /\ (step - 1) + 2 = step + 1
  BY <1>3, <1>4
<1>6. s[step - 1] = Args
  BY <1>3, <1>5 DEF Args
<1>7. step = 2
  BY <1>1, <1>4, <1>5, <1>6 DEF CountsFromZero, IsStrategy
<1>8. program.calls[1].op \notin RateOps /\ program.calls[2].op \notin RateOps
  BY <1>3, CallFields DEF RateOps
<1> QED BY <1>7, <1>8 DEF Made

LEMMA CountsSame ==
  ASSUME CountsInv, UNCHANGED <<program, dr, quantity>>, Devices' = Devices,
         \A ops \in {{"devices"}, RateOps} : Made(ops)' <=> Made(ops)
  PROVE  CountsInv'
<1>1. (GivenRates(program)' <=> GivenRates(program))
  BY DEF GivenRates
<1> QED BY <1>1 DEF CountsInv

LEMMA CountsOfClasses ==
  ASSUME DpTypeOK, NEW op \in RateOps, Calls(op), NEW class \in [Devices -> 1 .. 7], NEW how,
         Assigned(class, how)
  PROVE  CountsInv'
<1>1. /\ dr' \in [Devices -> 0 .. 5]
      /\ \A d \in Devices : dr'[d] = IF class[d] = 7 THEN 0 ELSE 6 - class[d]
      /\ \A c \in Classes : quantity'[c] = Cardinality({d \in Devices : class[d] = c})
  BY AssignedClasses
<1>2. ASSUME NEW c \in Classes \ {6}
      PROVE  quantity'[c] = Cardinality({d \in Devices : ClassOf(dr'[d]) = c})
  <2>1. \A d \in Devices : ClassOf(dr'[d]) = c <=> class[d] = c
    BY <1>1, <1>2 DEF ClassOf, Classes
  <2>2. {d \in Devices : ClassOf(dr'[d]) = c} = {d \in Devices : class[d] = c}
    BY <2>1
  <2> QED BY <1>1, <2>2
<1>3. Devices' = Devices /\ program' = program /\ Made({"devices"})' /\ Made(RateOps)'
      /\ ~ GivenRates(program)
  BY Called DEF Calls, Devices
<1>4. ~ GivenRates(program)'
  BY <1>3 DEF GivenRates
<1> QED BY <1>2, <1>3, <1>4 DEF CountsInv

LEMMA CountsOfStrategy ==
  ASSUME CountsFromZero, DpTypeOK, CountsInv, SetSpreadingFactorsStrategies
  PROVE  CountsInv'
<1>1. Calls("strategy")
  BY DEF SetSpreadingFactorsStrategies
<1>2. /\ Devices' = Devices /\ program' = program
      /\ Made({"devices"}) /\ Made({"devices"})' /\ Made(RateOps)' /\ ~ GivenRates(program)
  BY <1>1, Called DEF Calls, Devices, RateOps
<1>3. ~ GivenRates(program)'
  BY <1>2 DEF GivenRates
<1>4. \A c \in Classes \ {6} : quantity[c] = Cardinality(OfClass(c))
  BY <1>2 DEF CountsInv, OfClass
<1>5. CASE Args.mode = "SHIFT_TWO" /\ \E d \in Devices : d > Args.edge /\ dr[d] = 1
  <2>1. UNCHANGED <<dr, quantity>>
    BY <1>5 DEF SetSpreadingFactorsStrategies
  <2> QED BY <1>2, <1>3, <1>4, <2>1 DEF CountsInv, OfClass
<1>6. CASE ~ (Args.mode = "SHIFT_TWO" /\ \E d \in Devices : d > Args.edge /\ dr[d] = 1)
  <2> DEFINE M == Moved(Args)
  <2>1. /\ dr \in [Devices -> 0 .. 5] /\ dr' \in [Devices -> 0 .. 5]
        /\ \A c \in Classes :
              quantity'[c] = Byte(quantity[c] + Cardinality(Came(Args, c))
                                  - IF Args.mode \in Shifts THEN Cardinality(Gone(Args, c)) ELSE 0)
        /\ Args.mode \notin Shifts \cup {"CLASS_THREE"} =>
              \A d \in Devices : dr[d] # 0 => dr'[d] = dr[d]
    BY <1>1, <1>6, StrategyGives
  <2>2. M \in SUBSET Devices /\ \A d \in Devices \ M : dr'[d] = dr[d]
    BY DEF Moved
  <2>3. ASSUME NEW c \in Classes \ {6}
        PROVE  quantity'[c] = Cardinality({d \in Devices : ClassOf(dr'[d]) = c})
    <3>1. Came(Args, c) = OfClassNext(c) \cap M /\ Gone(Args, c) = OfClass(c) \cap M
      BY <2>2 DEF Came, Gone, OfClass, OfClassNext, Moved
    <3> DEFINE came == Cardinality(OfClassNext(c) \cap M)
               gone == Cardinality(OfClass(c) \cap M)
               new == Cardinality(OfClassNext(c))
               old == Cardinality(OfClass(c))
    <3>2. new = old + came - gone /\ new \in 0 .. 250 /\ old \in Nat /\ came \in Nat /\ gone \in Nat
      BY <2>2, <2>3, MovesBalance
    <3>3. quantity'[c] = Byte(quantity[c] + came - IF Args.mode \in Shifts THEN gone ELSE 0)
      BY <2>1, <2>3, <3>1
    <3>4. quantity[c] = old
      BY <1>4, <2>3
    <3> HIDE DEF came, gone, new, old, M
    <3>5. quantity'[c] = Byte(new)
      <4>1. CASE Args.mode \in Shifts
        BY <3>2, <3>3, <3>4, <4>1
      <4>2. CASE Args.mode = "CLASS_THREE"
        <5>1. quantity[c] = 0
          <6>1. quantity = Zero
            BY <1>1, <1>2, <4>2, FirstOfStudy DEF CountsInv
          <6> QED BY <2>3, <6>1 DEF Zero
        <5>2. OfClassNext(c) \cap M = OfClassNext(c)
          BY <4>2 DEF M, Moved, OfClassNext
        <5>3. came = new
          BY <5>2 DEF came, new
        <5>4. Args.mode \notin Shifts
          BY <4>2 DEF Shifts
        <5> QED BY <3>2, <3>3, <5>1, <5>3, <5>4
      <4>3. CASE Args.mode \notin Shifts \cup {"CLASS_THREE"}
        <5>1. \A d \in M : dr[d] = 0
          BY <2>1, <4>3 DEF M, Moved
        <5>2. OfClass(c) \cap M = {}
          BY <2>3, <5>1 DEF OfClass, ClassOf, Classes
        <5>3. gone = 0
          BY <5>2, FS_EmptySet DEF gone
        <5> QED BY <3>2, <3>3, <3>4, <4>3, <5>3
      <4> QED BY <4>1, <4>2, <4>3
    <3>6. Byte(new) = new
      BY <3>2 DEF Byte
    <3> QED BY <3>5, <3>6 DEF new, OfClassNext
  <2> QED BY <1>2, <1>3, <2>3 DEF CountsInv
<1> QED BY <1>5, <1>6

LEMMA CountsOfDevices ==
  ASSUME DpTypeOK, CountsInv, InstallEndDevices
  PROVE  CountsInv'
<1>1. /\ Calls("devices") /\ dr' = [d \in Devices |-> Args.rate] /\ UNCHANGED quantity
  BY DEF InstallEndDevices
<1>2. /\ ~ Made({"devices"}) /\ quantity = Zero /\ Devices' = Devices /\ program' = program
      /\ Args.rate # 0 => GivenRates(program)
      /\ Made(RateOps)' <=> Made(RateOps)
  BY <1>1, Called DEF CountsInv, Calls, Devices, RateOps
<1>3. GivenRates(program)' <=> GivenRates(program)
  BY <1>2 DEF GivenRates
<1>4. CASE Args.rate # 0
  BY <1>1, <1>2, <1>3, <1>4 DEF CountsInv
<1>5. CASE Args.rate = 0
  <2>1. \A d \in Devices : dr'[d] = 0
    BY <1>1, <1>5
  <2>2. ASSUME NEW c \in Classes \ {6}
        PROVE  quantity'[c] = Cardinality({d \in Devices : ClassOf(dr'[d]) = c})
    <3>1. {d \in Devices : ClassOf(dr'[d]) = c} = {}
      BY <2>1, <2>2 DEF ClassOf, Classes
    <3>2. quantity'[c] = 0
      BY <1>1, <1>2, <2>2 DEF Zero
    <3> QED BY <3>1, <3>2, FS_EmptySet
  <2> QED BY <1>1, <1>2, <1>3, <2>1, <2>2 DEF CountsInv
<1> QED BY <1>4, <1>5

LEMMA CountsStep ==
  ASSUME CountsFromZero, DpTypeOK, CountsInv, [DpNext]_dpVars
  PROVE  CountsInv'
<1>1. CASE Simulation \/ UNCHANGED dpVars
  <2>1. UNCHANGED <<program, step, net>> /\ Devices' = Devices
        /\ \A ops : Made(ops)' <=> Made(ops)
    BY <1>1, SimulationKeeps DEF Devices
  <2> QED BY <2>1, CountsSame DEF net
<1>2. ASSUME NEW op \in {"gateways", "server", "forwarders", "periodic", "random", "oneShot",
                         "oneShots"},
             Calls(op), UNCHANGED <<dr, quantity>>
      PROVE  CountsInv'
  <2>1. \A ops \in {{"devices"}, RateOps} : Made(ops)' <=> Made(ops)
    BY <1>2, Called DEF RateOps
  <2>2. program' = program /\ Devices' = Devices
    BY <1>2 DEF Calls, Devices
  <2> QED BY <1>2, <2>1, <2>2, CountsSame
<1>3. CASE InstallGateways \/ InstallServer \/ InstallForwarders
  BY <1>2, <1>3 DEF InstallGateways, InstallServer, InstallForwarders
<1>4. CASE Installing
  <2>1. PICK op \in {"periodic", "random", "oneShot", "oneShots"} : Calls(op)
    BY <1>4, AppsInstalled
  <2>2. UNCHANGED <<dr, quantity>>
    BY <1>4, AppsInstalled DEF net
  <2> QED BY <1>2, <2>1, <2>2
<1>5. CASE SetSpreadingFactorsUp
  <2> DEFINE class == Up(rx, IF Args.rtx THEN EdSensitivity ELSE GwSensitivity)
             how == IF Args.rtx THEN {"up", "rtx"} ELSE {"up"}
  <2>1. Calls("up") /\ Assigned(class, how)
    BY <1>5 DEF SetSpreadingFactorsUp
  <2>2. class \in [Devices -> 1 .. 7]
    BY UpIsClass
  <2> HIDE DEF class, how
  <2> QED BY <2>1, <2>2, CountsOfClasses DEF RateOps
<1>6. CASE SetSpreadingFactorsEIB \/ SetSpreadingFactorsEAB
  <2>1. "EIB" \in RateOps /\ "EAB" \in RateOps
    BY DEF RateOps
  <2> QED BY <1>6, <2>1, RingsAreClasses, CountsOfClasses
          DEF SetSpreadingFactorsEIB, SetSpreadingFactorsEAB
<1>7. CASE SetSpreadingFactorsProp
  <2> DEFINE class == Prop(pos, Args.prop1, Args.prop2)
  <2>1. Calls("prop") /\ Assigned(class, {})
    BY <1>7 DEF SetSpreadingFactorsProp
  <2>2. class \in [Devices -> 1 .. 7]
    BY ThirdsAreClasses
  <2> HIDE DEF class
  <2> QED BY <2>1, <2>2, CountsOfClasses DEF RateOps
<1>8. CASE SetDataRates
  <2>1. Calls("rates") /\ UNCHANGED quantity
    BY <1>8 DEF SetDataRates
  <2>2. GivenRates(program) /\ program' = program
    BY <2>1, Called DEF Calls
  <2>3. GivenRates(program)'
    BY <2>2 DEF GivenRates
  <2> QED BY <2>1, <2>2, <2>3 DEF CountsInv
<1> QED BY <1>1, <1>3, <1>4, <1>5, <1>6, <1>7, <1>8, CountsOfStrategy, CountsOfDevices
        DEF DpNext, SetUpCalls, Installing

(* In every program that calls CLASS_THREE before any other assignment,    *)
(* and in every network of up to 250 devices, the counts that the          *)
(* SetSpreadingFactors functions return are those of the data rates the    *)
(* devices have, although they are kept apart, moved by shifts and of      *)
(* type uint8_t (sfQuantity).                                              *)
THEOREM CountsAreRight ==
  ASSUME CountsFromZero
  PROVE  DpSpec => []CountsMatch
<1> DEFINE Inv == DpTypeOK /\ CountsInv
<1>1. DpInit => Inv
  <2> SUFFICES ASSUME DpInit PROVE Inv
    OBVIOUS
  <2>1. quantity = Zero
    BY DEF DpInit
  <2> QED BY <2>1, TypeInit, NothingMade DEF CountsInv
<1>2. Inv /\ [DpNext]_dpVars => Inv'
  BY TypeStep, CountsStep
<1>3. Inv => CountsMatch
  BY DEF CountsInv, CountsMatch
<1> QED BY <1>1, <1>2, <1>3, PTL DEF DpSpec

-----------------------------------------------------------------------------
(* Data rates and powers.                                                  *)
LEMMA Sensitivities ==
  /\ \A c \in Classes : GwSensitivity[c] \in Int /\ EdSensitivity[c] \in Int
                        /\ GwSensitivity[c] < EdSensitivity[c]
  /\ \A c, e \in Classes : c <= e => /\ GwSensitivity[e] <= GwSensitivity[c]
                                     /\ EdSensitivity[e] <= EdSensitivity[c]
BY DEF Classes, GwSensitivity, EdSensitivity

(* The power at the best gateway.                                          *)
LEMMA BestGateway ==
  ASSUME DpTypeOK, NEW d \in Devices
  PROVE  LET best == Max({rx[d][g] : g \in DOMAIN rx[d]})
         IN  /\ \E g \in Gateways : rx[d][g] = best
             /\ \A g \in Gateways : rx[d][g] <= best
<1> DEFINE S == {rx[d][g] : g \in DOMAIN rx[d]}
<1>1. rx[d] \in [Gateways -> Int]
  BY DEF DpTypeOK
<1>2. PICK n \in Nat \ {0} : program.gateways = n
  BY Sizes
<1>3. Gateways = 1 .. n
  BY <1>2 DEF Gateways
<1>4. IsFiniteSet(Gateways) /\ 1 \in Gateways
  <2>1. IsFiniteSet(1 .. n)
    BY FS_Interval
  <2> QED BY <1>3, <2>1
<1>5. S \subseteq Int /\ S # {} /\ rx[d] \in Surjection(Gateways, S)
  BY <1>1, <1>4 DEF Surjection
<1>6. IsFiniteSet(S)
  BY <1>4, <1>5, FS_Surjection
<1>7. Max(S) \in S /\ \A y \in S : y <= Max(S)
  <2> HIDE DEF S
  <2> QED BY <1>5, <1>6, GreatestOf
<1> QED BY <1>1, <1>7

(* What SetSpreadingFactorsUp gives one device.                            *)
LEMMA UpIsBest ==
  ASSUME DpTypeOK, NEW sens, sens = GwSensitivity \/ sens = EdSensitivity,
         NEW d \in Devices
  PROVE  LET class == Up(rx, sens)[d]
         IN  IF class = 7
             THEN \A g \in Gateways, c \in Classes : ~ rx[d][g] > sens[c]
             ELSE /\ class \in Classes /\ \E g \in Gateways : rx[d][g] > sens[class]
                  /\ \A c \in Classes : c < class => \A g \in Gateways : ~ rx[d][g] > sens[c]
<1> DEFINE best == Max({rx[d][g] : g \in DOMAIN rx[d]})
           H == {c \in Classes : best > sens[c]}
<1>1. (\E g \in Gateways : rx[d][g] = best) /\ (\A g \in Gateways : rx[d][g] <= best)
  BY BestGateway
<1>2. \A g \in Gateways : rx[d][g] \in Int
  BY DEF DpTypeOK
<1>3. Up(rx, sens)[d] = IF \E c \in Classes : best > sens[c] THEN Min(H) ELSE Outside
  <2>1. d \in DOMAIN rx
    BY DEF DpTypeOK
  <2> QED BY <2>1, Zenon DEF Up, First
<1> HIDE DEF best
<1>4. \A c \in Classes : sens[c] \in Int
  BY Sensitivities
<1>5. best \in Int
  BY <1>1, <1>2
<1>6. CASE \E c \in Classes : best > sens[c]
  <2>1. H \in SUBSET Classes /\ H # {}
    BY <1>6
  <2>2. Min(H) \in H /\ \A c \in H : Min(H) <= c
    BY <2>1, LeastClass
  <2>3. PICK m : m = Min(H)
    OBVIOUS
  <2>4. m \in Classes /\ best > sens[m] /\ \A c \in Classes : best > sens[c] => m <= c
    BY <2>2, <2>3
  <2>5. Up(rx, sens)[d] = m
    BY <1>3, <1>6, <2>3
  <2> HIDE DEF H
  <2>6. m # 7 /\ \A c \in Classes : c < m => ~ best > sens[c]
    BY <2>4 DEF Classes
  <2>7. \A c \in Classes : c < m => \A g \in Gateways : ~ rx[d][g] > sens[c]
    BY <1>1, <1>2, <1>4, <1>5, <2>6
  <2>8. \E g \in Gateways : rx[d][g] > sens[m]
    BY <1>1, <2>4
  <2> QED BY <2>4, <2>5, <2>6, <2>7, <2>8
<1>7. CASE ~ \E c \in Classes : best > sens[c]
  <2>1. Up(rx, sens)[d] = 7
    BY <1>3, <1>7 DEF Outside
  <2>2. \A g \in Gateways, c \in Classes : ~ rx[d][g] > sens[c]
    BY <1>1, <1>2, <1>4, <1>5, <1>7
  <2> QED BY <2>1, <2>2
<1> QED BY <1>6, <1>7

LEMMA BestAfterUp ==
  ASSUME DpTypeOK, SetSpreadingFactorsUp
  PROVE  BestRate'
<1>1. PICK sens, how :
        /\ sens = IF Args.rtx THEN EdSensitivity ELSE GwSensitivity
        /\ how = IF Args.rtx THEN {"up", "rtx"} ELSE {"up"}
        /\ Calls("up") /\ Assigned(Up(rx, sens), how)
  BY DEF SetSpreadingFactorsUp
<1>2. /\ sens = GwSensitivity \/ sens = EdSensitivity
      /\ sens = IF "rtx" \in how THEN EdSensitivity ELSE GwSensitivity
  <2>1. CASE Args.rtx
    BY <1>1, <2>1
  <2>2. CASE ~ Args.rtx
    BY <1>1, <2>2
  <2> QED BY <2>1, <2>2
<1>3. PICK class \in [Devices -> 1 .. 7] : class = Up(rx, sens)
  BY UpIsClass
<1>4. /\ reach' = how /\ rx' = rx /\ Devices' = Devices /\ Gateways' = Gateways
      /\ \A d \in Devices : dr'[d] = IF class[d] = 7 THEN 0 ELSE 6 - class[d]
  BY <1>1, <1>3, AssignedClasses DEF Calls, Devices, Gateways
<1>5. Sensitivity' = sens
  BY <1>2, <1>4 DEF Sensitivity
<1>6. ASSUME NEW d \in Devices
      PROVE  IF InRange(d, 0)'
             THEN /\ HeardAt(d, dr[d])'
                  /\ \A r \in dr'[d] + 1 .. 5 : ~ InRange(d, r)'
             ELSE dr'[d] = 0
  <2> DEFINE c == class[d]
  <2>0. c \in 1 .. 7
    OBVIOUS
  <2>1. IF c = 7
        THEN \A g \in Gateways, e \in Classes : ~ rx[d][g] > sens[e]
        ELSE /\ c \in Classes /\ \E g \in Gateways : rx[d][g] > sens[c]
             /\ \A e \in Classes : e < c => \A g \in Gateways : ~ rx[d][g] > sens[e]
    BY <1>2, <1>3, UpIsBest
  <2>2. \A r \in 0 .. 5 : InRange(d, r)' <=> \E g \in Gateways : rx[d][g] > sens[6 - r]
    BY <1>4, <1>5 DEF InRange, ClassOf
  <2>3. dr'[d] = IF c = 7 THEN 0 ELSE 6 - c
    BY <1>4
  <2> HIDE DEF c
  <2>4. CASE c = 7
    <3>1. ~ InRange(d, 0)'
      BY <2>1, <2>2, <2>4 DEF Classes
    <3> QED BY <2>3, <2>4, <3>1
  <2>5. CASE c # 7
    <3>1. c \in Classes /\ dr'[d] = 6 - c
      BY <2>1, <2>3, <2>5
    <3>2. PICK g \in Gateways : rx[d][g] > sens[c]
      BY <2>1, <2>5
    <3>3. rx[d][g] \in Int /\ sens[c] \in Int /\ GwSensitivity[c] <= sens[c]
      <4>1. rx[d][g] \in Int
        BY DEF DpTypeOK
      <4> QED BY <1>2, <3>1, <4>1, Sensitivities
    <3>4. HeardAt(d, dr[d])'
      <4>1. rx[d][g] >= GwSensitivity[c]
        BY <3>1, <3>2, <3>3, Sensitivities
      <4>2. "rtx" \in how => rx[d][g] >= EdSensitivity[c]
        BY <1>2, <3>2, <3>3
      <4>3. ClassOf(6 - c) = c
        BY <3>1 DEF ClassOf, Classes
      <4> QED BY <1>4, <3>1, <4>1, <4>2, <4>3 DEF HeardAt
    <3>5. \A r \in dr'[d] + 1 .. 5 : ~ InRange(d, r)'
      <4> SUFFICES ASSUME NEW r \in dr'[d] + 1 .. 5 PROVE ~ InRange(d, r)'
        OBVIOUS
      <4>1. r \in 0 .. 5 /\ 6 - r \in Classes /\ 6 - r < c
        BY <3>1 DEF Classes
      <4> QED BY <2>1, <2>2, <2>5, <4>1
    <3>6. InRange(d, 0)'
      <4>1. sens[6] <= sens[c] /\ sens[6] \in Int
        BY <1>2, <3>1, Sensitivities DEF Classes
      <4>2. rx[d][g] > sens[6 - 0]
        BY <3>2, <3>3, <4>1
      <4> QED BY <2>2, <4>2
    <3> QED BY <3>4, <3>5, <3>6
  <2> QED BY <2>4, <2>5
<1> QED BY <1>4, <1>6 DEF BestRate

(* A slower data rate is heard where a faster one is.                      *)
LEMMA SlowerIsHeard ==
  ASSUME DpTypeOK, NEW d \in Devices, NEW r \in 0 .. 5, NEW s \in 0 .. r, HeardAt(d, r)
  PROVE  HeardAt(d, s)
<1>1. PICK g \in Gateways : /\ rx[d][g] >= GwSensitivity[ClassOf(r)]
                            /\ "rtx" \in reach => rx[d][g] >= EdSensitivity[ClassOf(r)]
  BY DEF HeardAt
<1>2. rx[d][g] \in Int
  BY DEF DpTypeOK
<1>3. ClassOf(r) \in Classes /\ ClassOf(s) \in Classes /\ ClassOf(r) <= ClassOf(s)
  BY DEF ClassOf, Classes
<1>4. PICK a \in Classes, b \in Classes : a = ClassOf(r) /\ b = ClassOf(s) /\ a <= b
  BY <1>3
<1>5. /\ GwSensitivity[a] \in Int /\ EdSensitivity[a] \in Int
      /\ GwSensitivity[b] \in Int /\ EdSensitivity[b] \in Int
      /\ GwSensitivity[b] <= GwSensitivity[a] /\ EdSensitivity[b] <= EdSensitivity[a]
  BY <1>4, Sensitivities
<1>6. /\ rx[d][g] >= GwSensitivity[b]
      /\ "rtx" \in reach => rx[d][g] >= EdSensitivity[b]
  BY <1>1, <1>2, <1>4, <1>5
<1> QED BY <1>4, <1>6 DEF HeardAt

LEMMA BestAfterStrategy ==
  ASSUME DpTypeOK, BestRate, SetSpreadingFactorsStrategies
  PROVE  BestRate'
<1>1. Calls("strategy")
  BY DEF SetSpreadingFactorsStrategies
<1>2. rx' = rx /\ now' = now /\ Devices' = Devices /\ Gateways' = Gateways
  BY <1>1 DEF Calls, Devices, Gateways
<1>3. CASE Args.mode = "SHIFT_TWO" /\ \E d \in Devices : d > Args.edge /\ dr[d] = 1
  <2>1. UNCHANGED <<dr, reach>>
    BY <1>3 DEF SetSpreadingFactorsStrategies
  <2>2. UNCHANGED <<dr, reach, rx, now, Devices, Gateways>>
    BY <1>2, <2>1
  <2> QED BY <2>2 DEF BestRate, InRange, HeardAt, Sensitivity
<1>4. CASE ~ (Args.mode = "SHIFT_TWO" /\ \E d \in Devices : d > Args.edge /\ dr[d] = 1)
  <2>1. /\ dr \in [Devices -> 0 .. 5] /\ dr' \in [Devices -> 0 .. 5]
        /\ Args.mode \in Shifts => \A d \in Devices : dr[d] = 0 => dr'[d] = 0
        /\ Args.mode \in Shifts => \A d \in Devices : dr'[d] <= dr[d]
        /\ reach' = IF Args.mode \in Shifts THEN reach \cup {"shifted"} ELSE {}
    BY <1>1, <1>4, StrategyGives
  <2>2. CASE Args.mode \notin Shifts
    BY <2>1, <2>2 DEF BestRate
  <2>3. CASE Args.mode \in Shifts
    <3> SUFFICES ASSUME "up" \in reach, now = -1, NEW d \in Devices
                 PROVE  IF InRange(d, 0)' THEN HeardAt(d, dr[d])' ELSE dr'[d] = 0
      BY <1>2, <2>1, <2>3 DEF BestRate
    <3>1. "rtx" \in reach' <=> "rtx" \in reach
      BY <2>1, <2>3
    <3>2. InRange(d, 0)' <=> InRange(d, 0)
      BY <1>2, <3>1 DEF InRange, Sensitivity
    <3>3. IF InRange(d, 0) THEN HeardAt(d, dr[d]) ELSE dr[d] = 0
      BY DEF BestRate
    <3>4. ASSUME InRange(d, 0) PROVE HeardAt(d, dr[d])'
      <4>1. PICK r \in 0 .. 5, s \in 0 .. 5 : r = dr[d] /\ s = dr'[d] /\ s <= r
        BY <2>1, <2>3
      <4>2. HeardAt(d, r)
        BY <3>3, <3>4, <4>1
      <4>3. s \in 0 .. r
        BY <4>1
      <4>4. HeardAt(d, s)
        BY <4>2, <4>3, SlowerIsHeard
      <4> QED BY <1>2, <3>1, <4>1, <4>4 DEF HeardAt
    <3> QED BY <2>1, <2>3, <3>2, <3>3, <3>4
  <2> QED BY <2>2, <2>3
<1> QED BY <1>3, <1>4

LEMMA BestSame ==
  ASSUME BestRate, UNCHANGED <<program, rx, dr, reach, now>>
  PROVE  BestRate'
<1>1. UNCHANGED <<dr, reach, rx, now, Devices, Gateways>>
  BY DEF Devices, Gateways
<1> QED BY <1>1 DEF BestRate, InRange, HeardAt, Sensitivity

LEMMA BestStep ==
  ASSUME DpTypeOK, RatesAfterDevices, BestRate, [DpNext]_dpVars
  PROVE  BestRate' /\ RatesAfterDevices'
<1>1. CASE UNCHANGED dpVars
  BY <1>1, BestSame DEF dpVars, net, RatesAfterDevices, Made
<1>2. CASE Simulation
  <2>1. now' # -1
    <3>1. CASE Run
      BY <3>1 DEF Run
    <3>2. CASE ~ Run
      <4>1. PICK t : Happens(t)
        BY <1>2, <3>2, Zenon DEF Simulation, Move, SendPacket, StopApplication
      <4> QED BY <4>1, NextEvent
    <3> QED BY <3>1, <3>2
  <2>2. reach' = reach /\ \A ops : Made(ops)' <=> Made(ops)
    BY <1>2, SimulationKeeps DEF net
  <2> QED BY <2>1, <2>2 DEF BestRate, RatesAfterDevices
<1>3. ASSUME NEW op, Calls(op), UNCHANGED <<dr, reach>>
      PROVE  BestRate' /\ RatesAfterDevices'
  <2>1. UNCHANGED <<program, rx, dr, reach, now>>
    BY <1>3 DEF Calls
  <2>2. Made(RateOps) => Made(RateOps)'
    BY <1>3, Called
  <2> QED BY <1>3, <2>1, <2>2, BestSame DEF RatesAfterDevices
<1>4. CASE InstallGateways \/ InstallServer \/ InstallForwarders
  BY <1>3, <1>4 DEF InstallGateways, InstallServer, InstallForwarders
<1>5. CASE Installing
  <2>1. PICK op : Calls(op)
    BY <1>5, AppsInstalled
  <2>2. UNCHANGED <<dr, reach>>
    BY <1>5, AppsInstalled DEF net
  <2> QED BY <1>3, <2>1, <2>2
<1>6. ASSUME NEW op \in {"devices", "rates"}, Calls(op), UNCHANGED reach
      PROVE  BestRate' /\ RatesAfterDevices'
  <2>1. ~ Made(RateOps)
    <3>1. CASE op = "devices"
      BY <1>6, <3>1, Called, MadeGrows
    <3>2. CASE op = "rates"
      <4>1. GivenRates(program) /\ RatesOnce(program)
        BY <1>6, <3>2, Called, ProgramIsOrdered DEF Ordered
      <4>2. 1 .. step \subseteq Places(program)
        BY Sizes DEF Places, DpTypeOK
      <4> QED BY <4>1, <4>2 DEF RatesOnce, Made
    <3> QED BY <1>6, <3>1, <3>2
  <2>2. reach' = {}
    BY <1>6, <2>1 DEF RatesAfterDevices
  <2> QED BY <2>2 DEF BestRate, RatesAfterDevices
<1>7. CASE InstallEndDevices \/ SetDataRates
  BY <1>6, <1>7 DEF InstallEndDevices, SetDataRates
<1>8. CASE SetSpreadingFactorsEIB \/ SetSpreadingFactorsEAB \/ SetSpreadingFactorsProp
  <2>1. reach' = {}
    BY <1>8 DEF SetSpreadingFactorsEIB, SetSpreadingFactorsEAB, SetSpreadingFactorsProp, Assigned
  <2> QED BY <2>1 DEF BestRate, RatesAfterDevices
<1>9. CASE SetSpreadingFactorsUp \/ SetSpreadingFactorsStrategies
  <2>1. PICK op \in RateOps : Calls(op)
    BY <1>9 DEF SetSpreadingFactorsUp, SetSpreadingFactorsStrategies, RateOps
  <2>2. Made(RateOps)'
    BY <2>1, Called
  <2> QED BY <1>9, <2>2, BestAfterUp, BestAfterStrategy DEF RatesAfterDevices
<1> QED BY <1>1, <1>2, <1>4, <1>5, <1>7, <1>8, <1>9 DEF DpNext, SetUpCalls, Installing

(* In every network, for any powers and any number of gateways: a device   *)
(* that SetSpreadingFactorsUp finds in range is heard by a gateway at the  *)
(* data rate it gets, and hears it when retransmissions are asked for, no  *)
(* faster data rate would do, shifts to slower rates keep it so, and the   *)
(* other devices are at data rate 0.                                       *)
THEOREM RatesAreBest ==
  DpSpec => []BestRate
<1> DEFINE Inv == DpTypeOK /\ RatesAfterDevices /\ BestRate
<1>1. DpInit => Inv
  <2> SUFFICES ASSUME DpInit PROVE Inv
    OBVIOUS
  <2>1. reach = {}
    BY DEF DpInit
  <2> QED BY <2>1, TypeInit DEF RatesAfterDevices, BestRate
<1>2. Inv /\ [DpNext]_dpVars => Inv'
  BY TypeStep, BestStep
<1> QED BY <1>1, <1>2, PTL DEF DpSpec

-----------------------------------------------------------------------------
(* Applications in time.                                                   *)
LEMMA ProductsGrow ==
  ASSUME NEW k \in Nat, NEW m \in Nat, NEW n \in Nat, k <= m
  PROVE  k * n \in Nat /\ m * n \in Nat /\ k * n <= m * n
<1>1. PICK j \in Nat : m = k + j
  <2>1. m - k \in Nat /\ m = k + (m - k)
    OBVIOUS
  <2> QED BY <2>1
<1>2. (k + j) * n = k * n + j * n
  OBVIOUS
<1>3. k * n \in Nat /\ j * n \in Nat
  OBVIOUS
<1> QED BY <1>1, <1>2, <1>3

LEMMA SendTimes ==
  ASSUME NEW a \in AppRecords, NEW k \in Nat
  PROVE  /\ SendTime(a, k) \in Nat /\ SendTime(a, 0) = a.delay
         /\ SendTime(a, k) + a.interval = SendTime(a, k + 1)
         /\ \A m \in Nat : k <= m => SendTime(a, k) <= SendTime(a, m)
<1>1. PICK delay \in Nat, n \in Nat : delay = a.delay /\ n = a.interval
  BY DEF AppRecords
<1>2. k * n \in Nat /\ k * n + n = (k + 1) * n /\ 0 * n = 0
  OBVIOUS
<1>3. \A m \in Nat : k <= m => m * n \in Nat /\ k * n <= m * n
  BY ProductsGrow
<1> QED BY <1>1, <1>2, <1>3 DEF SendTime

(* Every application that repeats has the interval of all.                 *)
LEMMA LongestIsInterval ==
  ASSUME DpTypeOK, AppsInv, NEW i \in DOMAIN apps, apps[i].kind # "oneShot"
  PROVE  Longest = apps[i].interval /\ Longest # 0
<1> DEFINE n == apps[i].interval
           T == {apps[j].interval : j \in DOMAIN apps} \cup {0}
<1>1. n \in Intervals \ {0} /\ n \in Nat
  <2>1. apps[i] \in AppRecords
    BY DEF DpTypeOK
  <2> QED BY <2>1 DEF AppsInv, IntervalOK, AppRecords
<1>2. \A m \in Intervals : m = n
  <2>1. OneInterval(program)
    BY ProgramIsOrdered DEF Ordered
  <2> QED BY <1>1, <2>1 DEF OneInterval, Intervals
<1>3. \A j \in DOMAIN apps : apps[j].interval \in {0, n}
  BY <1>2 DEF AppsInv, IntervalOK
<1>4. T = {0, n}
  BY <1>3
<1>5. Longest = Max({0, n})
  BY <1>4, Zenon DEF Longest
<1> HIDE DEF n, T
<1>6. n \in {0, n} /\ \A y \in {0, n} : n >= y
  BY <1>1
<1>7. Max({0, n}) \in {0, n} /\ \A y \in {0, n} : Max({0, n}) >= y
  BY <1>6, Zenon DEF Max
<1>8. Max({0, n}) = n
  BY <1>1, <1>7
<1> QED BY <1>1, <1>5, <1>8 DEF n

LEMMA EndBound ==
  ASSUME DpTypeOK, Longest \in Nat, Longest # 0, NEW t \in Nat, t < End
  PROVE  t < MaxPeriods * Longest
<1> DEFINE m == MaxPeriods * Longest
           S == {program.until, m}
<1>1. m \in Nat
  BY DeploymentAssumption DEF DeploymentAssumption
<1>2. program.until \in Nat
  BY ProgramIsOrdered DEF Ordered
<1>3. End = Min(S)
  BY DEF End
<1> HIDE DEF m
<1>4. S \subseteq Nat /\ S # {}
  BY <1>1, <1>2
<1>5. Min(S) \in S /\ \A y \in S : Min(S) <= y
  BY <1>4, LeastOf
<1>6. Min(S) \in Nat /\ Min(S) <= m
  BY <1>4, <1>5
<1>7. t < m
  BY <1>1, <1>3, <1>6
<1> QED BY <1>7 DEF m

(* Time may advance to any moment that passes over nothing.                *)
LEMMA RunsLater ==
  ASSUME NEW a \in AppRecords, NEW t \in Nat, NEW u \in Nat, t <= u, Running(a, t),
         \A e \in a.due \cup a.ends : u <= e
  PROVE  Running(a, u)
<1>1. /\ a.stop \in Nat \cup {Never} /\ a.last \in Nat \cup {-1} /\ a.due \subseteq Nat
      /\ a.ends \subseteq Nat /\ a.sent \in Nat
  BY DEF AppRecords
<1>2. \/ a.ends = {a.stop} /\ a.stop # Never /\ u <= a.stop
      \/ a.ends = {} /\ (a.stop = Never \/ (a.due = {} /\ a.stop <= u))
  BY <1>1 DEF Running, AwaitsStop, Never
<1>3. a.sent > 0 => a.last <= u /\ (a.stop # Never => a.last < a.stop)
  BY <1>1 DEF Running, AwaitsStop, Never
<1>4. \A v \in a.due : u <= v
  OBVIOUS
<1> QED BY <1>2, <1>3, <1>4 DEF Running, AwaitsStop

LEMMA RunsFromStart ==
  ASSUME NEW a \in AppRecords, a.sent = 0
  PROVE  Running(Started(a), 0)
<1> DEFINE b == Started(a)
<1>1. /\ b.due = {a.delay} /\ b.ends = (IF a.stop = Never THEN {} ELSE {a.stop})
      /\ b.kind = a.kind /\ b.sent = 0 /\ b.stop = a.stop /\ b.delay = a.delay
      /\ b.interval = a.interval
  BY DEF Started, AppRecords, None
<1>2. b \in AppRecords
  BY DEF Started, AppRecords, None
<1> HIDE DEF b
<1>3. a.stop \in Nat \cup {Never} /\ a.delay \in Nat
  BY DEF AppRecords
<1>4. SendTime(b, 0) = b.delay
  BY <1>2, SendTimes
<1>5. AwaitsStop(b, 0) /\ \A u \in b.due : 0 <= u
  BY <1>1, <1>3 DEF AwaitsStop, Never
<1>6. KeepsPeriod(b) /\ SendsOnce(b)
  BY <1>1, <1>4 DEF KeepsPeriod, SendsOnce
<1>7. ~ b.sent > 0
  BY <1>1
<1> QED BY <1>5, <1>6, <1>7 DEF Running, b

LEMMA RunsToStop ==
  ASSUME NEW a \in AppRecords, NEW t \in Nat, NEW u \in Nat, t <= u, Running(a, t),
         u \in a.ends, \A e \in a.due \cup a.ends : u <= e
  PROVE  Running(Stopped(a), u)
<1> DEFINE b == Stopped(a)
<1>1. /\ b.due = {} /\ b.ends = {} /\ b.kind = a.kind /\ b.sent = a.sent /\ b.stop = a.stop
      /\ b.delay = a.delay /\ b.interval = a.interval /\ b.last = a.last
  BY DEF Stopped, AppRecords, None
<1> HIDE DEF b
<1>2. Running(a, u)
  BY RunsLater
<1>3. a.stop = u /\ a.stop # Never
  BY DEF Running, AwaitsStop
<1>4. a.sent \in Nat /\ a.delay \in Nat
  BY DEF AppRecords
<1>5. SendTime(b, a.sent) = SendTime(a, a.sent) /\ SendTime(b, a.sent - 1) = SendTime(a, a.sent - 1)
      /\ SendTime(a, a.sent) \in Nat
  BY <1>1, <1>4, SendTimes DEF SendTime
<1>6. AwaitsStop(b, u) /\ \A v \in b.due : u <= v
  BY <1>1, <1>3 DEF AwaitsStop
<1>7. b.sent > 0 => b.last <= u /\ (b.stop # Never => b.last < b.stop)
  BY <1>1, <1>2 DEF Running
<1>8. ASSUME b.kind = "periodic"
      PROVE  KeepsPeriod(b)
  <2>1. a.due \subseteq {SendTime(a, a.sent)} /\ (a.due = {} => a.stop <= SendTime(a, a.sent))
        /\ (a.sent > 0 => a.last = SendTime(a, a.sent - 1) /\ a.sent <= MaxPeriods)
    BY <1>1, <1>8 DEF Running, KeepsPeriod
  <2>2. u <= SendTime(a, a.sent)
    <3>1. CASE a.due = {}
      BY <1>3, <2>1, <3>1
    <3>2. CASE a.due # {}
      BY <2>1, <3>2
    <3> QED BY <3>1, <3>2
  <2> QED BY <1>1, <1>3, <1>5, <2>1, <2>2 DEF KeepsPeriod
<1>9. ASSUME b.kind = "oneShot"
      PROVE  SendsOnce(b)
  <2>1. /\ a.sent <= 1 /\ (a.sent = 0 => a.due \subseteq {a.delay})
        /\ (a.sent = 0 /\ a.due = {} => a.stop <= a.delay)
        /\ (a.sent = 1 => a.last = a.delay)
    BY <1>1, <1>9 DEF Running, SendsOnce
  <2>2. a.sent = 0 => u <= a.delay
    <3>1. CASE a.due = {}
      BY <1>3, <2>1, <3>1
    <3>2. CASE a.due # {}
      BY <2>1, <3>2
    <3> QED BY <3>1, <3>2
  <2> QED BY <1>1, <1>3, <2>1, <2>2 DEF SendsOnce
<1> QED BY <1>6, <1>7, <1>8, <1>9 DEF Running, b

LEMMA RunsOn ==
  ASSUME NEW a \in AppRecords, NEW t \in Nat, NEW u \in Nat, t <= u, Running(a, t),
         u \in a.due, u \notin a.ends, \A e \in a.due \cup a.ends : u <= e,
         NEW due,
         \/ a.kind = "periodic" /\ due = {u + a.interval} /\ a.sent + 1 <= MaxPeriods
         \/ a.kind = "random" /\ \E v \in Nat : due = {u + v}
         \/ a.kind = "oneShot" /\ due = {}
  PROVE  Running(Sent(a, due, u), u)
<1> DEFINE b == Sent(a, due, u)
<1>1. /\ b.due = due /\ b.ends = a.ends /\ b.kind = a.kind /\ b.sent = a.sent + 1
      /\ b.stop = a.stop /\ b.delay = a.delay /\ b.interval = a.interval /\ b.last = u
  BY DEF Sent, AppRecords
<1> HIDE DEF b
<1>2. /\ a.sent \in Nat /\ a.delay \in Nat /\ a.interval \in Nat /\ a.stop \in Nat \cup {Never}
  BY DEF AppRecords
<1>3. \/ a.ends = {a.stop} /\ a.stop # Never /\ u < a.stop
      \/ a.ends = {} /\ a.stop = Never
  <2>1. CASE a.ends = {a.stop} /\ a.stop # Never
    <3>1. u <= a.stop /\ u # a.stop
      BY <2>1
    <3> QED BY <1>2, <2>1, <3>1
  <2>2. CASE a.ends = {} /\ (a.stop = Never \/ (a.due = {} /\ a.stop <= t))
    BY <2>2
  <2> QED BY <2>1, <2>2 DEF Running, AwaitsStop
<1>4. /\ AwaitsStop(b, u)
      /\ b.sent > 0 => b.last <= u /\ (b.stop # Never => b.last < b.stop)
  BY <1>1, <1>2, <1>3 DEF AwaitsStop, Never
<1>5. \A v \in b.due : u <= v
  BY <1>1, <1>2
<1>6. ASSUME b.kind = "periodic"
      PROVE  KeepsPeriod(b)
  <2>1. u = SendTime(a, a.sent)
    BY <1>1, <1>6 DEF Running, KeepsPeriod
  <2>2. /\ SendTime(b, a.sent + 1) = SendTime(a, a.sent + 1)
        /\ SendTime(b, a.sent) = SendTime(a, a.sent)
    BY <1>1 DEF SendTime
  <2>3. u + a.interval = SendTime(a, a.sent + 1)
    BY <1>2, <2>1, SendTimes
  <2>4. b.due = {SendTime(b, b.sent)} /\ b.sent <= MaxPeriods
    BY <1>1, <1>6, <2>2, <2>3
  <2>5. b.sent - 1 = a.sent
    BY <1>1, <1>2
  <2> QED BY <1>1, <2>1, <2>2, <2>4, <2>5 DEF KeepsPeriod
<1>7. ASSUME b.kind = "oneShot"
      PROVE  SendsOnce(b)
  <2>1. a.sent = 0 /\ u = a.delay
    BY <1>1, <1>2, <1>7 DEF Running, SendsOnce
  <2> QED BY <1>1, <1>7, <2>1 DEF SendsOnce
<1> QED BY <1>4, <1>5, <1>6, <1>7 DEF Running, b

LEMMA EventsAhead ==
  ASSUME DpTypeOK, AppsInv, MovesInv, NEW t, Happens(t)
  PROVE  /\ now \in Nat /\ t \in Nat /\ now' = t /\ now <= t /\ t < End
         /\ \A j \in DOMAIN apps : /\ apps[j] \in AppRecords /\ Running(apps[j], now)
                                   /\ \A e \in apps[j].due \cup apps[j].ends : t <= e
         /\ \A j \in DOMAIN moves : t <= moves[j].at
<1>1. /\ now \in Nat /\ t \in Nat /\ now' = t /\ t < End
      /\ t \in Events /\ \A e \in Events : t <= e
  BY NextEvent
<1>2. now # -1
  BY <1>1
<1> DEFINE A == UNION {apps[i].due \cup apps[i].ends : i \in DOMAIN apps}
           B == IF moves = <<>> THEN {} ELSE {moves[1].at}
<1>3. Events = A \cup B
  BY DEF Events
<1>4. \A j \in DOMAIN apps : apps[j].due \cup apps[j].ends \subseteq A
  OBVIOUS
<1>5. t \in A => \E j \in DOMAIN apps : t \in apps[j].due \cup apps[j].ends
  OBVIOUS
<1>6. /\ t \in B => moves # <<>> /\ t = moves[1].at
      /\ moves # <<>> => moves[1].at \in B
  OBVIOUS
<1> HIDE DEF A, B
<1>7. \A j \in DOMAIN apps : /\ apps[j] \in AppRecords /\ Running(apps[j], now)
                             /\ \A e \in apps[j].due \cup apps[j].ends : t <= e
  <2> SUFFICES ASSUME NEW j \in DOMAIN apps
               PROVE  /\ apps[j] \in AppRecords /\ Running(apps[j], now)
                      /\ \A e \in apps[j].due \cup apps[j].ends : t <= e
    OBVIOUS
  <2>1. apps[j] \in AppRecords
    BY DEF DpTypeOK
  <2>2. Running(apps[j], now)
    BY <1>2, Zenon DEF AppsInv
  <2>3. ASSUME NEW e \in apps[j].due \cup apps[j].ends
        PROVE  t <= e
    <3>1. e \in Events
      BY <1>3, <1>4, Zenon
    <3> QED BY <1>1, <3>1, Zenon
  <2> QED BY <2>1, <2>2, <2>3, Zenon
<1>8. /\ moves # <<>> => 1 \in DOMAIN moves
      /\ DOMAIN moves = 1 .. Len(moves) /\ Len(moves) \in Nat
      /\ \A j \in DOMAIN moves : moves[j].at \in Nat
  BY MovesToCome DEF DpTypeOK
<1>9. \A j \in DOMAIN moves : t <= moves[j].at
  <2> SUFFICES ASSUME NEW j \in DOMAIN moves PROVE t <= moves[j].at
    OBVIOUS
  <2>1. moves # <<>> /\ 1 <= j /\ j \in Nat
    BY <1>8
  <2>2. moves[1].at <= moves[j].at /\ moves[1].at \in Nat
    BY <1>8, <2>1 DEF MovesInv
  <2>3. t <= moves[1].at
    BY <1>1, <1>3, <1>6, <2>1
  <2> QED BY <1>1, <1>8, <2>2, <2>3
<1>10. now <= t
  <2>1. CASE t \in A
    <3>1. PICK j \in DOMAIN apps : t \in apps[j].due \/ t \in apps[j].ends
      BY <1>5, <2>1
    <3>2. Running(apps[j], now)
      BY <1>7
    <3>3. CASE t \in apps[j].due
      BY <3>2, <3>3 DEF Running
    <3>4. CASE t \in apps[j].ends
      BY <3>2, <3>4 DEF Running, AwaitsStop
    <3> QED BY <3>1, <3>3, <3>4
  <2>2. CASE t \in B
    <3>1. now <= moves[1].at
      BY <1>2, <1>6, <1>8, <2>2 DEF MovesInv
    <3> QED BY <1>6, <2>2, <3>1
  <2> QED BY <1>1, <1>3, <2>1, <2>2
<1> QED BY <1>1, <1>7, <1>9, <1>10

LEMMA MovesStep ==
  ASSUME DpTypeOK, AppsInv, MovesInv, [DpNext]_dpVars
  PROVE  MovesInv'
<1>1. CASE UNCHANGED <<moves, now>>
  BY <1>1 DEF MovesInv
<1>2. CASE Run
  <2>1. now' = 0 /\ moves' = moves
    BY <1>2 DEF Run
  <2>2. \A i \in DOMAIN moves : moves[i].at \in Nat
    BY MovesToCome DEF DpTypeOK
  <2> QED BY <2>1, <2>2 DEF MovesInv
<1>3. ASSUME NEW t, Happens(t), moves' = moves
      PROVE  MovesInv'
  <2>1. now' = t /\ \A j \in DOMAIN moves : t <= moves[j].at
    BY <1>3, EventsAhead
  <2> QED BY <1>3, <2>1 DEF MovesInv
<1>4. CASE Move
  <2>1. /\ now' = moves[1].at /\ moves # <<>> /\ moves' = Tail(moves)
        /\ \A j \in DOMAIN moves : moves[1].at <= moves[j].at
    BY <1>4, EventsAhead DEF Move
  <2>2. /\ \A i \in DOMAIN moves' : i + 1 \in DOMAIN moves /\ moves'[i] = moves[i + 1]
        /\ DOMAIN moves' \subseteq Nat
    <3>1. moves \in Seq([at : Nat, power : Int])
      BY DEF DpTypeOK
    <3>2. /\ \A i \in DOMAIN moves' : i + 1 \in DOMAIN moves /\ moves'[i] = moves[i + 1]
          /\ moves' \in Seq([at : Nat, power : Int])
      BY <2>1, <3>1, MovesToCome
    <3>3. DOMAIN moves' = 1 .. Len(moves')
      BY <3>2, MovesToCome
    <3> QED BY <3>2, <3>3
  <2>3. \A i, j \in DOMAIN moves' : i <= j => moves'[i].at <= moves'[j].at
    <3> SUFFICES ASSUME NEW i \in DOMAIN moves', NEW j \in DOMAIN moves', i <= j
                 PROVE  moves'[i].at <= moves'[j].at
      OBVIOUS
    <3>1. i + 1 <= j + 1
      BY <2>2
    <3> QED BY <2>2, <3>1 DEF MovesInv
  <2>4. \A i \in DOMAIN moves' : now' <= moves'[i].at
    BY <2>1, <2>2
  <2> QED BY <2>3, <2>4 DEF MovesInv
<1>5. CASE SetUpCalls
  <2>1. UNCHANGED <<moves, now>>
    <3>1. PICK op : Calls(op)
      BY <1>5, Zenon
         DEF SetUpCalls, InstallEndDevices, InstallGateways, InstallServer,
             InstallForwarders, SetSpreadingFactorsUp, SetSpreadingFactorsEIB,
             SetSpreadingFactorsEAB, SetSpreadingFactorsProp, SetSpreadingFactorsStrategies,
             SetDataRates, InstallPeriodic, InstallRandom, InstallOneShot
    <3> QED BY <3>1 DEF Calls
  <2> QED BY <1>1, <2>1
<1>6. ASSUME NEW i \in DOMAIN apps, SendPacket(i) \/ StopApplication(i)
      PROVE  MovesInv'
  <2>1. PICK t : Happens(t)
    BY <1>6, Zenon DEF SendPacket, StopApplication
  <2>2. moves' = moves
    BY <1>6, Zenon DEF SendPacket, StopApplication
  <2> QED BY <1>3, <2>1, <2>2
<1> QED BY <1>1, <1>2, <1>4, <1>5, <1>6 DEF DpNext, Simulation, dpVars

(* A packet of a periodic application is sent before the end.              *)
LEMMA WithinPeriods ==
  ASSUME DpTypeOK, AppsInv, MovesInv, NEW i \in DOMAIN apps, apps[i].kind = "periodic",
         NEW u \in apps[i].due, Happens(u)
  PROVE  apps[i].sent + 1 <= MaxPeriods
<1>1. apps[i] \in AppRecords /\ Running(apps[i], now) /\ u \in Nat /\ u < End
  BY EventsAhead
<1>2. PICK k \in Nat, n \in Nat, delay \in Nat :
        k = apps[i].sent /\ n = apps[i].interval /\ delay = apps[i].delay
  BY <1>1 DEF AppRecords
<1>3. u = delay + k * n
  BY <1>1, <1>2 DEF Running, KeepsPeriod, SendTime
<1>4. Longest = n /\ n # 0
  BY <1>2, LongestIsInterval
<1>5. u < MaxPeriods * n
  BY <1>1, <1>2, <1>4, EndBound
<1>6. MaxPeriods \in Nat
  BY DeploymentAssumption DEF DeploymentAssumption
<1>7. ~ MaxPeriods <= k
  <2> SUFFICES ASSUME MaxPeriods <= k PROVE FALSE
    OBVIOUS
  <2>1. MaxPeriods * n \in Nat /\ k * n \in Nat /\ MaxPeriods * n <= k * n
    BY <1>2, <1>6, ProductsGrow
  <2> QED BY <1>2, <1>3, <1>5, <2>1
<1> QED BY <1>2, <1>6, <1>7

LEMMA AppsOfSetUp ==
  ASSUME DpTypeOK, AppsInv, SetUpCalls
  PROVE  AppsInv'
<1>1. PICK op : Calls(op)
  BY Zenon
     DEF SetUpCalls, InstallEndDevices, InstallGateways, InstallServer,
         InstallForwarders, SetSpreadingFactorsUp, SetSpreadingFactorsEIB,
         SetSpreadingFactorsEAB, SetSpreadingFactorsProp, SetSpreadingFactorsStrategies,
         SetDataRates, InstallPeriodic, InstallRandom, InstallOneShot
<1>2. program' = program /\ now' = now /\ now = -1
  BY <1>1, Sizes DEF Calls, DpTypeOK
<1>3. \A a : IntervalOK(a)' <=> IntervalOK(a)
  BY <1>2 DEF IntervalOK, Intervals, Places
<1>4. CASE ~ Installing
  <2>1. apps' = apps
    BY <1>4, Zenon
       DEF SetUpCalls, Installing, InstallEndDevices, InstallGateways, InstallServer,
           InstallForwarders, SetSpreadingFactorsUp, SetSpreadingFactorsEIB,
           SetSpreadingFactorsEAB, SetSpreadingFactorsProp, SetSpreadingFactorsStrategies,
           SetDataRates, Assigned
  <2> QED BY <1>2, <1>3, <2>1 DEF AppsInv
<1>5. CASE Installing
  <2>1. PICK kind \in AppKinds, delay \in [Devices -> Nat], interval \in Nat,
             stop \in Nat \cup {Never} :
          /\ apps' = apps \o NewApps(kind, delay, interval, stop)
          /\ IF kind = "oneShot" THEN interval = 0 ELSE interval \in Intervals \ {0}
    BY <1>5, AppsInstalled
  <2> DEFINE more == apps \o NewApps(kind, delay, interval, stop)
  <2>0. \A i \in DOMAIN more :
          \/ i \in DOMAIN apps /\ more[i] = apps[i]
          \/ \E d \in Devices : more[i] = App(kind, d, delay[d], interval, stop)
    BY NewAppsType
  <2> HIDE DEF more
  <2>2. \A i \in DOMAIN apps' :
          \/ i \in DOMAIN apps /\ apps'[i] = apps[i]
          \/ \E d \in Devices : apps'[i] = App(kind, d, delay[d], interval, stop)
    <3>1. apps' = more
      BY <2>1 DEF more
    <3> QED BY <2>0, <3>1, Zenon
  <2>3. ASSUME NEW a, NEW d \in Devices, a = App(kind, d, delay[d], interval, stop)
        PROVE  IntervalOK(a) /\ a.due = {} /\ a.ends = {} /\ a.sent = 0
    <3>1. /\ a.kind = kind /\ a.interval = interval
          /\ a.due = {} /\ a.ends = {} /\ a.sent = 0
      BY <2>3 DEF App, None
    <3>2. IntervalOK(a)
      BY <2>1, <3>1 DEF IntervalOK
    <3> QED BY <3>1, <3>2
  <2>4. ASSUME NEW i \in DOMAIN apps'
        PROVE  /\ IntervalOK(apps'[i])
               /\ apps'[i].due = {} /\ apps'[i].ends = {} /\ apps'[i].sent = 0
    <3>1. CASE i \in DOMAIN apps /\ apps'[i] = apps[i]
      BY <1>2, <3>1 DEF AppsInv
    <3>2. CASE \E d \in Devices : apps'[i] = App(kind, d, delay[d], interval, stop)
      BY <2>3, <3>2
    <3> QED BY <2>2, <3>1, <3>2
  <2> QED BY <1>2, <1>3, <2>4 DEF AppsInv
<1> QED BY <1>4, <1>5

LEMMA AppsOfSimulation ==
  ASSUME DpTypeOK, AppsInv, MovesInv, Simulation
  PROVE  AppsInv'
<1>1. program' = program
  BY SimulationKeeps
<1>2. \A a : IntervalOK(a)' <=> IntervalOK(a)
  BY <1>1 DEF IntervalOK, Intervals, Places
<1>3. \A j \in DOMAIN apps : apps[j] \in AppRecords /\ IntervalOK(apps[j])
  BY DEF DpTypeOK, AppsInv
<1>4. CASE Run
  <2>1. now' = 0 /\ now = -1 /\ apps' = [i \in DOMAIN apps |-> Started(apps[i])]
    BY <1>4 DEF Run
  <2>2. ASSUME NEW i \in DOMAIN apps
        PROVE  IntervalOK(Started(apps[i])) /\ Running(Started(apps[i]), 0)
    <3>1. apps[i].sent = 0
      BY <2>1 DEF AppsInv
    <3>2. PICK a \in AppRecords : a = apps[i]
      BY <1>3
    <3>3. Started(a).kind = a.kind /\ Started(a).interval = a.interval
      BY DEF Started, AppRecords
    <3> QED BY <1>3, <3>1, <3>2, <3>3, RunsFromStart DEF IntervalOK
  <2> QED BY <1>2, <2>1, <2>2 DEF AppsInv
<1>5. ASSUME NEW t, Happens(t), NEW i \in DOMAIN apps, NEW b,
             apps' = [apps EXCEPT ![i] = b], IntervalOK(b), Running(b, t)
      PROVE  AppsInv'
  <2>1. /\ now \in Nat /\ t \in Nat /\ now' = t /\ now <= t
        /\ \A j \in DOMAIN apps : /\ apps[j] \in AppRecords /\ Running(apps[j], now)
                                  /\ \A e \in apps[j].due \cup apps[j].ends : t <= e
    BY <1>5, EventsAhead
  <2>2. \A j \in DOMAIN apps : Running(apps[j], t)
    BY <2>1, RunsLater
  <2>3. now' # -1
    BY <2>1
  <2>4. DOMAIN apps' = DOMAIN apps /\ \A j \in DOMAIN apps : apps'[j] = IF j = i THEN b ELSE apps[j]
    BY <1>5
  <2> QED BY <1>2, <1>3, <1>5, <2>1, <2>2, <2>3, <2>4 DEF AppsInv
<1>6. CASE Move
  <2>1. PICK t : Happens(t) /\ apps' = apps
    BY <1>6 DEF Move
  <2>2. /\ now \in Nat /\ t \in Nat /\ now' = t /\ now <= t
        /\ \A j \in DOMAIN apps : /\ apps[j] \in AppRecords /\ Running(apps[j], now)
                                  /\ \A e \in apps[j].due \cup apps[j].ends : t <= e
    BY <2>1, EventsAhead
  <2>3. \A j \in DOMAIN apps : Running(apps[j], t)
    BY <2>2, RunsLater
  <2>4. now' # -1
    BY <2>2
  <2> QED BY <1>2, <1>3, <2>1, <2>2, <2>3, <2>4 DEF AppsInv
<1>7. ASSUME NEW i \in DOMAIN apps, StopApplication(i)
      PROVE  AppsInv'
  <2>1. PICK t \in apps[i].ends : Happens(t)
    BY <1>7 DEF StopApplication
  <2>2. apps' = [apps EXCEPT ![i] = Stopped(apps[i])]
    BY <1>7 DEF StopApplication
  <2>3. PICK a \in AppRecords : a = apps[i]
    BY <1>3
  <2>4. Stopped(a).kind = a.kind /\ Stopped(a).interval = a.interval
    BY DEF Stopped, AppRecords
  <2>5. /\ now \in Nat /\ t \in Nat /\ now <= t /\ Running(a, now)
        /\ \A e \in a.due \cup a.ends : t <= e
    BY <2>1, <2>3, EventsAhead
  <2>6. Running(Stopped(a), t) /\ IntervalOK(Stopped(a))
    BY <1>3, <2>1, <2>3, <2>4, <2>5, RunsToStop DEF IntervalOK
  <2> QED BY <1>5, <2>1, <2>2, <2>3, <2>6
<1>8. ASSUME NEW i \in DOMAIN apps, SendPacket(i)
      PROVE  AppsInv'
  <2>1. PICK t \in apps[i].due : t \notin apps[i].ends /\ Happens(t)
    BY <1>8, Zenon DEF SendPacket
  <2>2. /\ now \in Nat /\ t \in Nat /\ now' = t /\ now <= t
    BY <2>1, EventsAhead
  <2>3. PICK due \in NextDelays(apps[i]) : apps' = [apps EXCEPT ![i] = Sent(apps[i], due, t)]
    <3>1. PICK due \in NextDelays(apps[i]) :
            apps' = [apps EXCEPT ![i] = Sent(apps[i], due, now')]
      BY <1>8, Zenon DEF SendPacket, Sent
    <3> QED BY <2>2, <3>1
  <2>4. PICK a \in AppRecords : a = apps[i]
    BY <1>3
  <2>5. Running(a, now) /\ \A e \in a.due \cup a.ends : t <= e
    BY <2>1, <2>4, EventsAhead
  <2>6. \/ a.kind = "periodic" /\ due = {t + a.interval} /\ a.sent + 1 <= MaxPeriods
        \/ a.kind = "random" /\ \E v \in Nat : due = {t + v}
        \/ a.kind = "oneShot" /\ due = {}
    <3>1. a.interval \in Nat /\ a.kind \in AppKinds
      BY DEF AppRecords
    <3>2. CASE a.kind = "periodic"
      <4>1. due = {t + a.interval}
        BY <2>2, <2>3, <2>4, <3>2 DEF NextDelays
      <4>2. a.sent + 1 <= MaxPeriods
        BY <2>1, <2>4, <3>2, WithinPeriods
      <4> QED BY <3>2, <4>1, <4>2
    <3>3. CASE a.kind = "random"
      <4>1. due = {t + a.interval \div 2} \/ due = {t + 2 * a.interval}
        BY <2>2, <2>3, <2>4, <3>3 DEF NextDelays
      <4>2. a.interval \div 2 \in Nat /\ 2 * a.interval \in Nat
        BY <3>1
      <4> QED BY <3>3, <4>1, <4>2
    <3>4. CASE a.kind = "oneShot"
      BY <2>3, <2>4, <3>4 DEF NextDelays, None
    <3> QED BY <3>1, <3>2, <3>3, <3>4 DEF AppKinds
  <2>7. Running(Sent(a, due, t), t)
    BY <2>1, <2>2, <2>4, <2>5, <2>6, RunsOn
  <2>8. Sent(a, due, t).kind = a.kind /\ Sent(a, due, t).interval = a.interval
    BY DEF Sent, AppRecords
  <2>9. IntervalOK(Sent(a, due, t))
    BY <1>3, <2>4, <2>8 DEF IntervalOK
  <2> QED BY <1>5, <2>1, <2>3, <2>4, <2>7, <2>9
<1> QED BY <1>4, <1>6, <1>7, <1>8 DEF Simulation

LEMMA AppsStep ==
  ASSUME DpTypeOK, AppsInv, MovesInv, [DpNext]_dpVars
  PROVE  AppsInv'
<1>1. CASE SetUpCalls
  BY <1>1, AppsOfSetUp
<1>2. CASE Simulation
  BY <1>2, AppsOfSimulation
<1>3. CASE UNCHANGED dpVars
  <2>1. program' = program /\ apps' = apps /\ now' = now
    BY <1>3 DEF dpVars
  <2>2. \A a : IntervalOK(a)' <=> IntervalOK(a)
    BY <2>1 DEF IntervalOK, Intervals, Places
  <2> QED BY <2>1, <2>2 DEF AppsInv
<1> QED BY <1>1, <1>2, <1>3 DEF DpNext

LEMMA AppsInit ==
  ASSUME DpInit
  PROVE  AppsInv /\ MovesInv
<1>1. apps = <<>> /\ moves = program.moves /\ now = -1 /\ program \in Programs
  BY DEF DpInit
<1>2. Ordered(program)
  BY <1>1, ProgramsAreOrdered
<1>3. DOMAIN apps = {}
  BY <1>1
<1>4. \A i, j \in DOMAIN moves : i <= j => moves[i].at <= moves[j].at
  BY <1>1, <1>2 DEF Ordered
<1> QED BY <1>1, <1>3, <1>4 DEF AppsInv, MovesInv

(* The packets an application is to send before a time u are its first s.  *)
InPlan(a, u, k) ==
  /\ a.kind = "periodic" \/ k = 0
  /\ SendTime(a, k) < u
  /\ a.stop = Never \/ SendTime(a, k) < a.stop

LEMMA PlannedIs ==
  ASSUME NEW a, NEW u, NEW s \in 0 .. MaxPeriods,
         \A k \in 0 .. MaxPeriods : InPlan(a, u, k) <=> k < s
  PROVE  Planned(a, u) = s
<1>1. MaxPeriods \in Nat
  BY DeploymentAssumption DEF DeploymentAssumption
<1>2. {k \in 0 .. MaxPeriods : InPlan(a, u, k)} = 0 .. s - 1
  BY <1>1
<1>3. Planned(a, u) = Cardinality({k \in 0 .. MaxPeriods : InPlan(a, u, k)})
  BY Zenon DEF Planned, InPlan, SendTime
<1>4. Cardinality(0 .. s - 1) = s
  <2> DEFINE n == s - 1
  <2>1. 0 \in Int /\ n \in Int /\ n - 0 + 1 = s /\ (0 > n => s = 0)
    OBVIOUS
  <2> HIDE DEF n
  <2>2. Cardinality(0 .. n) = IF 0 > n THEN 0 ELSE n - 0 + 1
    BY <2>1, FS_Interval, Zenon
  <2>3. Cardinality(0 .. n) = s
    BY <2>1, <2>2, Zenon
  <2> QED BY <2>3 DEF n
<1> QED BY <1>2, <1>3, <1>4, Zenon

LEMMA PeriodicOnTime ==
  ASSUME NEW a \in AppRecords, a.kind = "periodic", a.interval # 0,
         NEW t \in Nat, Running(a, t)
  PROVE  a.sent \in {Planned(a, t), Planned(a, t + 1)}
<1>1. PICK s \in Nat : s = a.sent
  BY DEF AppRecords
<1>2. MaxPeriods \in Nat
  BY DeploymentAssumption DEF DeploymentAssumption
<1>3. /\ a.stop \in Nat \cup {Never} /\ a.interval \in Nat /\ a.due \subseteq Nat
      /\ \A k \in Nat : SendTime(a, k) \in Nat
  BY SendTimes DEF AppRecords
<1>4. ASSUME s > 0
      PROVE  /\ a.last = SendTime(a, s - 1) /\ s <= MaxPeriods /\ s - 1 \in Nat
             /\ a.last \in Nat /\ a.last <= t /\ (a.stop # Never => a.last < a.stop)
             /\ a.last + a.interval = SendTime(a, s)
             /\ \A k \in Nat : k < s => SendTime(a, k) <= a.last
  <2>1. /\ a.last = SendTime(a, s - 1) /\ s <= MaxPeriods /\ s - 1 \in Nat
        /\ a.last <= t /\ (a.stop # Never => a.last < a.stop)
    BY <1>1, <1>4 DEF Running, KeepsPeriod
  <2>2. SendTime(a, s - 1) + a.interval = SendTime(a, (s - 1) + 1) /\ (s - 1) + 1 = s
    BY <2>1, SendTimes
  <2>3. ASSUME NEW k \in Nat, k < s
        PROVE  SendTime(a, k) <= SendTime(a, s - 1)
    <3>1. k <= s - 1
      BY <2>3
    <3> QED BY <2>1, <3>1, SendTimes
  <2> QED BY <1>3, <2>1, <2>2, <2>3
<1>5. \A k \in Nat : s <= k => SendTime(a, s) <= SendTime(a, k)
  BY SendTimes
<1>6. \/ t <= SendTime(a, s)
      \/ a.stop # Never /\ a.stop <= SendTime(a, s)
  <2>1. CASE a.due = {}
    BY <1>1, <2>1 DEF Running, KeepsPeriod
  <2>2. CASE a.due # {}
    <3>1. SendTime(a, s) \in a.due
      BY <1>1, <2>2 DEF Running, KeepsPeriod
    <3> QED BY <3>1 DEF Running
  <2> QED BY <2>1, <2>2
<1>7. s \in 0 .. MaxPeriods
  BY <1>2, <1>4
<1>8. CASE s = 0 \/ a.last < t
  <2>1. ASSUME NEW k \in 0 .. MaxPeriods
        PROVE  InPlan(a, t, k) <=> k < s
    <3>1. CASE k < s
      BY <1>1, <1>3, <1>4, <1>8, <3>1 DEF InPlan, Never
    <3>2. CASE s <= k
      BY <1>1, <1>3, <1>5, <1>6, <3>2 DEF InPlan, Never
    <3> QED BY <1>1, <3>1, <3>2
  <2> QED BY <1>1, <1>7, <2>1, PlannedIs
<1>9. CASE s > 0 /\ a.last = t
  <2>1. ASSUME NEW k \in 0 .. MaxPeriods
        PROVE  InPlan(a, t + 1, k) <=> k < s
    <3>1. CASE k < s
      BY <1>1, <1>3, <1>4, <1>9, <3>1 DEF InPlan, Never
    <3>2. CASE s <= k
      <4>1. t + 1 <= SendTime(a, s)
        BY <1>3, <1>4, <1>9
      <4> QED BY <1>1, <1>3, <1>5, <3>2, <4>1 DEF InPlan
    <3> QED BY <1>1, <3>1, <3>2
  <2> QED BY <1>1, <1>7, <2>1, PlannedIs
<1> QED BY <1>1, <1>4, <1>8, <1>9

LEMMA OneShotOnTime ==
  ASSUME NEW a \in AppRecords, a.kind = "oneShot", NEW t \in Nat, Running(a, t)
  PROVE  a.sent \in {Planned(a, t), Planned(a, t + 1)}
<1>1. PICK s \in Nat : s = a.sent
  BY DEF AppRecords
<1>2. MaxPeriods \in Nat \ {0}
  BY DeploymentAssumption DEF DeploymentAssumption
<1>3. /\ a.stop \in Nat \cup {Never} /\ a.delay \in Nat /\ a.due \subseteq Nat
      /\ SendTime(a, 0) = a.delay
  BY SendTimes DEF AppRecords
<1>4. SendsOnce(a)
  BY DEF Running
<1>5. CASE s = 0
  <2>1. t <= a.delay \/ (a.stop # Never /\ a.stop <= a.delay)
    <3>1. CASE a.due = {}
      BY <1>1, <1>4, <1>5, <3>1 DEF SendsOnce
    <3>2. CASE a.due # {}
      <4>1. a.delay \in a.due
        BY <1>1, <1>4, <1>5, <3>2 DEF SendsOnce
      <4> QED BY <4>1 DEF Running
    <3> QED BY <3>1, <3>2
  <2>2. \A k \in 0 .. MaxPeriods : InPlan(a, t, k) <=> k < s
    BY <1>1, <1>3, <1>5, <2>1 DEF InPlan, Never
  <2> QED BY <1>1, <1>2, <1>5, <2>2, PlannedIs
<1>6. CASE s = 1
  <2>1. a.last = a.delay /\ a.last <= t /\ (a.stop # Never => a.last < a.stop)
    BY <1>1, <1>4, <1>6 DEF SendsOnce, Running
  <2>2. \A k \in 0 .. MaxPeriods : InPlan(a, t + 1, k) <=> k < s
    BY <1>1, <1>3, <1>6, <2>1 DEF InPlan, Never
  <2> QED BY <1>1, <1>2, <1>6, <2>2, PlannedIs
<1> QED BY <1>1, <1>4, <1>5, <1>6 DEF SendsOnce

LEMMA OnTime ==
  ASSUME DpTypeOK, AppsInv
  PROVE  SendsOnTime
<1> SUFFICES ASSUME now >= 0, NEW i \in DOMAIN apps
             PROVE  /\ apps[i].sent > 0 /\ apps[i].stop # Never => apps[i].last < apps[i].stop
                    /\ apps[i].kind # "random" =>
                         apps[i].sent \in {Planned(apps[i], now), Planned(apps[i], now + 1)}
  BY DEF SendsOnTime
<1>1. now \in Nat /\ now # -1
  BY DEF DpTypeOK
<1>2. PICK a \in AppRecords : a = apps[i]
  BY DEF DpTypeOK
<1>3. Running(a, now) /\ IntervalOK(a)
  BY <1>1, <1>2, Zenon DEF AppsInv
<1>4. a.sent > 0 /\ a.stop # Never => a.last < a.stop
  BY <1>3 DEF Running
<1>5. a.kind # "random" => a.sent \in {Planned(a, now), Planned(a, now + 1)}
  <2>1. a.kind \in AppKinds
    BY DEF AppRecords
  <2>2. CASE a.kind = "periodic"
    <3>1. a.interval # 0
      BY <1>3, <2>2 DEF IntervalOK
    <3> QED BY <1>1, <1>3, <2>2, <3>1, PeriodicOnTime
  <2>3. CASE a.kind = "oneShot"
    BY <1>1, <1>3, <2>3, OneShotOnTime
  <2> QED BY <2>1, <2>2, <2>3 DEF AppKinds
<1> QED BY <1>2, <1>4, <1>5, Zenon

(* In every program, whatever the first delays, the stop times and the     *)
(* number of applications, a periodic application sends exactly one packet *)
(* in each interval from its delay on, a one-shot application one, and     *)
(* nothing is sent at or after the stop time (StartApplication,            *)
(* SendPacket, StopApplication).                                           *)
THEOREM ApplicationsSendOnTime ==
  DpSpec => []SendsOnTime
<1>1. DpInit => DpTypeOK /\ AppsInv /\ MovesInv
  BY TypeInit, AppsInit
<1>2. (DpTypeOK /\ AppsInv /\ MovesInv) /\ [DpNext]_dpVars
        => (DpTypeOK /\ AppsInv /\ MovesInv)'
  BY TypeStep, AppsStep, MovesStep
<1>3. DpTypeOK /\ AppsInv /\ MovesInv => SendsOnTime
  BY OnTime
<1> QED BY <1>1, <1>2, <1>3, PTL DEF DpSpec
===============================================================================
