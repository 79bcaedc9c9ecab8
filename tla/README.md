# A TLA+ model of the LoRaWAN module

`src/` is a LoRaWAN module for the ns-3 network simulator: Class A end
devices, gateways and a network server that exchange packets over a LoRa
channel. This directory holds TLA+ modules that model the part of it that
decides what is sent when, the TLC configurations that check them, and proofs
for TLAPS. `PROJECT.json` ties every definition to the lines it models, every
run to what it checks, every property to a mutation of the code that breaks it,
and lists the places where the code is hard to test ("hazards").

    tlc -config MacDuty.cfg MCClassAMac.tla        # one run
    tlapm ClassAMac_proofs.tla                     # proofs, about 90 s

## 1. The system

Everything runs in one thread of a discrete-event simulator. A handler runs to
its end; before it does, it may schedule other events, cancel pending ones, and
call other objects. What makes the code hard is therefore not parallelism but
the *order of events*: an event acts on state that others have changed since it
was scheduled, two events fall on one instant, an event that should have been
cancelled was not, or one that was cancelled is still needed.

| component | state | operations | talks to |
|---|---|---|---|
| End-device radio (`simple-end-device-lora-phy`, `end-device-lora-phy`) | SLEEP, STANDBY, TX or RX; the pending ends of a transmission and of a reception | `Send`, `StartReceive`, `EndReceive`, `TxFinished`, the switches of state | channel (both ways), MAC (callbacks), energy model (listener) |
| Class A MAC (`class-a-end-device-lorawan-mac`, `end-device-lorawan-mac`) | retransmission parameters, queued transmission `m_nextTx`, pending receive windows, frame counter, data rate, channels | `Send`, `DoSend`, `SendToPhy`, `Receive`, `FailedReception`, `TxFinished`, open and close of two windows, MAC commands | application (`Send`), radio, duty cycle |
| Gateway (`simple-gateway-lora-phy`, `gateway-lorawan-mac`, `forwarder`) | reception paths, their pending ends, the transmission flag, the duty cycle of each sub-band | `StartReceive`, `EndReceive`, `Send`, `TxFinished`, `Receive` of both sides | channel, point-to-point link to the server |
| Network server (`network-server`, `network-scheduler`, `network-status`, `end-device-status`, `gateway-status`, `network-controller*`) | for each device: pending window opportunity, reply, received packets with the power at each gateway; for each gateway: availability | `Receive`, `OnReceivedPacket` of three objects, `OnReceiveWindowOpportunity`, `GetBestGatewayForDevice`, `SendThroughGateway` | links to the gateways |
| ADR component (`adr-component`) | reads the received packets of a device | `BeforeSendingReply`: data rate and power steps | network server |
| Duty cycle (`logical-lora-channel-helper`, `logical-lora-channel`, `sub-band`) | list of channels, next free time of each sub-band | `GetWaitingTime`, `AddEvent`, `SetChannel` | MAC of devices and gateways |
| Channel (`lora-channel`) | the list of radios | `Send`, `Receive` | radios |
| Interference (`lora-interference-helper`) | the list of packets on the air | `Add`, `IsDestroyedByInterference`, `CleanOldEvents` | radios |
| MAC commands and headers (`mac-command`, `lora-frame-header`, `lorawan-mac-header`) and tables (`lorawan-mac`) | lists of commands | serialise, parse by direction; look-ups | MACs, server |
| Packet tracker (`helper/lora-packet-tracker`) | outcome of each packet at each gateway and of each confirmed packet | callbacks on traces, counts over an interval | traces of radios and MACs |
| Energy model (`lora-radio-energy-model`, `lora-tx-current-model`) | believed state of the radio, time of the last update, energy consumed | `ChangeState`, handlers of depletion and recharge | radio, energy source |
| Applications (`periodic-sender`, `random-sender`, `one-shot-sender`) | the next packet, the stop | `StartApplication`, `SendPacket`, `StopApplication` | net device, MAC |
| Helpers, address generator, examples | a program is a sequence of helper calls: devices, gateways, data rates, server, forwarders, applications | the `Install`s and `SetSpreadingFactors...` | every component above |
| Air time, propagation, positions | formulas | | channel |

How a packet travels: an application calls `Send` of a device's MAC; the MAC
waits for its duty cycle and windows, passes it to the radio; the channel
delivers it to every other radio; each gateway that locks a path on it and finds
it intact relays it over its link; the server schedules the first receive
window, one second later, at the first copy. At the window it chooses the
gateway that heard the device best and may transmit, or falls back to the
second window a second later; the gateway transmits the reply, which the device
receives if its radio listens.

### What is hard, and what would make each part correct

* **Radio.** Several events end a state. Correct when the state agrees with the
  pending events: it never transmits, receives or listens without an event that
  ends it, and no caller finds it in a state an assertion excludes.
* **Class A MAC.** A new packet, an ACK, a lost reception, the close of a
  window and a queued retransmission race. Correct when what is queued is never
  stale, each packet gets one outcome at most and one in the end, and each
  transmission counted was made.
* **Gateway.** A transmission interrupts receptions in the middle. Correct when
  path, event and trace of each reception stay together, and a gateway receives
  nothing while it transmits, unless its own transmissions overlap.
* **Server.** Several copies of one uplink arrive at different times, in any
  order, while the duty cycles of the gateways run. Correct when a reply leaves
  in a window, once, for the last uplink, from a gateway that can send it.
* **Duty cycle.** Channels share the time of their sub-band, a command moves a
  channel, a postponed packet meets channels other than those its wait was
  computed for. Correct when everything sent is paid for and a packet that was
  put off finds a channel when its time comes.
* **MAC commands.** Requests arrive in sequences, answers wait for a packet with
  room. Correct when answers leave in order and in the end, both sides parse
  what was written, and no sequence takes the device's last channel.
* **Interference, ADR.** Boundaries: what exactly an interval includes, clean-up
  of a list that is still needed, a loop through a history.
* **Packet tracker.** Outcomes of one packet come from many objects and of
  several transmissions. Correct when each packet has one outcome per gateway
  and its two layers agree.
* **Energy model.** An update of the source calls back and switches the radio in
  the middle of a switch. Correct when the model ends in the radio's state and
  charges each interval once at the right current.
* **Set-up.** The order of the helper calls decides what is linked to what.
  Correct when each program's data rates fit its powers and its server knows
  every sender.

## 2. The modules

| module | what it is |
|---|---|
| `EndDevicePhy` | the radio of a device: variables, events, the steps it takes by itself |
| `ClassAMac` | the MAC on top of the radio (EXTENDS it): one action per handler and per call of the application |
| `ReliableSend` | what the MAC promises: a packet is started once, at most one waits, one that waits ends once |
| `ClassAMac_proofs` | theorems about `ClassAMac`, and that it implements `ReliableSend` |
| `Gateway` | radio, MAC and forwarder of all the gateways, and the links to the server |
| `Gateway_proofs` | paths, events and outcomes of the gateways agree, a gateway on the air is deaf unless its transmissions overlap, the tracker's maps follow the gateways, and its counts add up |
| `NetworkServer` | the server on top of the gateways (EXTENDS `Gateway`), with the devices as its environment |
| `NetworkServer_proofs` | every reply while its window is open, once, for the last uplink |
| `Interference` | the list of signals at one radio, its clean-up, and the verdict on a reception |
| `Adr` | the ADR component in a loop with one device and its gateways |
| `Signals_proofs` | what the strength of signals decides: the clean-up of `Interference` never changes the verdict on a short packet and never destroys any; requests of `Adr` mean something and keep the device in reach |
| `MacCommands` | the commands and their bytes, the parsing of the options, the device's handlers and its list of answers |
| `MacCommands_proofs` | every request is answered once and in order, a channel stays enabled, both sides parse what was written, and the handlers read bytes that are there |
| `Channels` | sub-bands, channels and waits of a device or a gateway |
| `Channels_proofs` | what is sent is paid for, and a postponed packet finds a channel |
| `PacketTracker` | the tracker's maps and counts, composed with the gateways that trace to it (EXTENDS `Gateway`) |
| `Energy` | the radio energy model, its current model, and an energy source |
| `Energy_proofs` | the model follows the radio and charges what it consumes |
| `SpreadingFactors` | the functions that assign data rates, as operators |
| `Deployment` | every example program: its helper calls in their order, then the traffic of its applications |
| `Deployment_proofs` | in networks of any size: data rates fit the powers, counts the data rates, the server knows every sender, applications send when they should |
| `MC...` | values of the constants for TLC |

### Conventions

*Time* is discrete and relative. A pending simulator event is a record whose
field `left` counts ticks; `Tick` takes one from each and is possible only when
no event is due, so nothing is late. Events due at one instant run in any
order, except where the code relies on the order of their scheduling:
`ClassAMac` keeps in `late` whether the queued transmission was scheduled after
the close of the second window, since ns-3 runs equal times in the order they
were scheduled and the MAC schedules a packet exactly at the close.

*Assertions and aborts* of the code are outcomes: `crash` names the one that
ended the program, after which no step is possible. A failed handler leaves
the other variables as they were before it, because no one looks at them.

*The air.* Frequency, spreading factor, power and interference decide whether a
radio locks on a packet and whether it survives; both are choices of the
environment, so that every combination of losses is covered. A packet reaches
all radios in one step; propagation takes microseconds where a tick is a third
of a second.

*Mutants.* Next to some definitions stands a second one with the comment
"Mutant": the same operation with a plausible mistake. No specification uses
it; put in place of the right one, it makes TLC find a property violated.

### `EndDevicePhy` and `ClassAMac`

| code | model |
|---|---|
| `m_state` | `phy` |
| events the radio and MAC schedule for themselves | `timers`, by kind; `receiving` for `EndReceive` |
| `m_retxParams` | `waitingAck`, `retxLeft` (8 bits, wraps), `retxPkt`; `hdrFCnt` is the counter in the header |
| `m_nextTx` | `nextTx`, a set of at most one record: packet, whether it is the stored copy, `left`, `late` |
| `m_secondReceiveWindow` | the timer `openRx2`; an older event whose handle was overwritten is `orphanRx2`; `rx2In` is its `GetTs` relative to now, which the code uses after the event has run, too |
| `m_currentFCnt`, `m_dataRate`, channels, sub-bands | `fCnt` (16 bits), `dataRate`, `enabled`, `dutyLeft` |
| traces `m_sentNewPacket`, `m_startSending`, `m_requiredTxCallback` | `begun`, `onAir`, `acked` and `failed` |

`Send` is an operator with the intermediate state as arguments (timers, queue
and radio state at the point of the call), since four handlers call it after
changes of their own. It waits (`Postpone`), sends (`DoSend`), drops the packet
(no transmission left) or crashes (`NoChannel`). `DoSend` tells a
retransmission from a new packet by the identity of the object, as the code
does. Left out: MAC commands other than an accepted `LinkAdrReq`, and the header
fields and power that no decision depends on.

### `Gateway`

`paths[g]` holds the packets the occupied paths are locked on: the paths of a
gateway are interchangeable, their number matters. `StartReceive`, `EndReceive`,
`Downlink` (the server's hand-over to a link), `DropDownlink` and `Transmit`
(the two ends of `GatewayLorawanMac::Send`) and `TxFinished` are the handlers;
`fates` counts the outcomes traced for a packet at a gateway, `lost` the
downlinks refused by the duty cycle. Alone, the module lets the server send a
downlink at any time; the server's module replaces that.

### `NetworkServer`

A device is environment: it sends an uplink, or the last confirmed one again,
and is then silent for `Gap` ticks. `ServerReceive` is the whole handler of an
uplink (scheduler, status, controller, in this order).
`OnReceiveWindowOpportunity` is the whole handler of a window: the gateway map,
the duty cycle, the reply, the second window or the reset. The server learns of an uplink when the link delivers it, so a window the
server opens is a link delay behind the device's: that delay is the reason why
several properties are not obvious. `since[d]` is the time since the end of the
device's last transmission and `WindowLength` the time its windows are open;
they only serve to say when a reply comes. The ADR component's part of
`BeforeSendingReply` is not in this module but in `Adr`.

### `Interference`

`events` is `m_events`; `ever` is the same list without any clean-up, which the
properties compare it with; `receiving` are the receptions the radio has locked
on, `judged` the verdicts. Powers are linear and an isolation is a ratio, so
that the comparison of energies stays in the integers. The specification does
not use the module in the radios: there the verdict is a free choice, which
includes the one computed here.

### `Adr`

`gain[g]` is the signal-to-noise ratio gateway `g` would have of a transmission
at 0 dBm: the device does not move. `history` is the end of the list of received
packets the component looks at, with what each gateway measured;
`BeforeSendingReply` is the algorithm, its `while` loops in closed form (a
number of steps, the least of what is asked and what the range allows).
The server reads the power from the device's object, not from a message, and
so does the model. `OnLinkAdrReq` is the device's check and its two
assignments; `RequestLost` and `NoGateway` are what the other modules show can
happen on the way. Ratios are in tenths of dB, averages exact: the code's
doubles round at the last bit, which matters only on the border between two
numbers of steps.

### `MacCommands`

A command is a record of its type and its bytes after the identifier, so that
`LinkAdrReq`, `GetDataRate` and the others are the shifts and masks of the code.
`Parse` walks over the bytes as `Deserialize` does: it knows a command from its
identifier and the direction of the header, and an identifier that is unknown
ends in `Hang`, for the loop does not advance. A device has a queue of answers
(`m_macCommandList`), the parameters requests change (`link`, `ranges`, `rx`),
the copy of its last confirmed packet (`retx`) and the frames on their way.
`DoSend`, `Retransmit`, `ServerReceive`, `Receive`, `NoDownlink` and one action
per command handler are the steps; `owed` is the history of what the
server is to be told: a received header adds the answers its requests call for,
a new packet on the air takes off those it carries. It looks at frames only, not
at the device's list. A request the code throws on ends the program (`crash`).

### `Channels`

`role` says whether the helper is a device's or a gateway's: a device picks a
channel or queues the packet, a gateway sends in the channel of the reply or
drops it. `nextTime` is `m_nextTransmissionTime`; `onAir` is a history of what
was sent in each sub-band. A request may enable other channels, move one to
another frequency, or raise the power; `nextTx.changed` notes that it did while
a packet was queued, which is when the packet may find no channel (`crash =
"null"`).

### `PacketTracker`

`Carriers` chooses whether the second transmission is another packet or a
retransmission of the first: maps are keyed by the packet object, and the radio
traces of both transmissions fall on one key. `phySent`, `outcome`, `macSent`,
`received` and `concluded` are the maps; insertion keeps an older value, as
`std::map::insert` does. The counts are those of the print functions with an
interval that is the whole run.

### `Energy`

`calls` is the stack of activations of `ChangeState`; each has done its charge,
its update of the source, or is about to take over its state. The source is the
one of ns-3: an update that finds it below the low or above the high level calls
back. `callbacks` chooses whether the callbacks switch the radio (to SLEEP when
depleted, as the comment in the code suggests, to STANDBY when full) or are not
set, as in the example. Depletion while the radio is not in STANDBY fails the
assertion of `SwitchToSleep`, which ends the program (`crash`).

### `SpreadingFactors` and `Deployment`

A program is a record: region, numbers of devices and gateways, the powers its
positions give, its calls, the time it stops. `Programs` has one for each `main`
of `examples/`, with its calls in its order, and `Study`s for the functions that
no example calls. Each helper call is an action; `Run` starts the applications,
whose packets go on the air at once (what the MAC does is in `ClassAMac`), reach
any of the gateways that can hear them, the forwarder if there is one, and the
server's look-up by address. `adr` is free where the program does not set
`m_adrEnabled`, which no constructor initializes.

## 3. The runs

Each run asks one question. Runs that end without an error:

| run | distinct states | question |
|---|---|---|
| `mac_duty` | 16 578 | A duty cycle that outlasts the windows, a server that acknowledges whenever it answers. Does the radio agree with its events (`RadioMatchesEvents`), is every counted transmission made (`BudgetIsSpentOnAir`), does no assertion fail but the known one (`NoAbort`), was an acknowledged packet on the air (`AckedWasOnAir`), does a confirmed packet stop waiting (`WaitingEnds`)? |
| `mac_adapt` | 559 298 | Data-rate adaptation, a `LinkAdrReq`, a packet above the size limit, no duty cycle at one of the data rates: is the queue never stale (`RetxMatchesQueue`), each outcome final (`OneOutcome`), `ReliableSend` implemented, and does nothing but a dropped packet change the counter of a retransmission (`SameFCnt`)? |
| `commands` | 347 266 | Is each received request answered once and in order by the next new packet (`NoAnswerForgotten`), do both sides parse what was written (`ParsedAsWritten`), does a channel stay enabled (`KeepsAChannel`), do answers leave in the end (`AnswersLeave`)? |
| `channels` | 279 833 | Who begins to transmit in a sub-band, has he paid for what he sent there before (`SentIsPaidFor`), does a postponed packet find a channel unless a command took it away (`PostponedFindsChannel`), and not wait for ever (`PostponedEnds`)? |
| `tracker` | 826 920 | Do paths, events and traces of the gateways agree (`PathsMatchEvents`, `OneFate`), does a gateway on the air receive only after its own transmissions overlapped (`HearsOnlyAfterOverlap`), do the tracker's counts add up (`CountsAddUp`) and its maps agree (`TrackersAgree`)? |
| `ns_windows` | 411 505 | Does a due reply have its opportunity (`ReplyHasOpportunity`), reach the gateway while a window is open (`RepliesInWindow`), once (`OneReplyPerUplink`), for the right uplink (`AckIsForTheLastUplink`), from the first window if possible (`FirstWindowIfPossible`)? Is every reply sent or given up (`RepliesEnd`), does every reception end (`ReceptionsEnd`)? |
| `interference` | 1 158 455 | Among short and long packets, does the clean-up keep every signal a short one needs (`NothingNeededIsCleaned`), and is each verdict the one that all signals justify, except that a long packet may survive (`VerdictIsTrue`)? |
| `adr_loop` | 68 999 | Does the loop of requests settle (`Settles`), with the device always in reach unless the history is combined by its maximum (`StaysReachable`), and does each request change something (`RequestsMatter`)? |
| `energy` | 371 239 | After a switch, with whatever callbacks in the middle of it: has the model the state of the radio (`StateFollowsRadio`), and charged what the radio consumed (`ChargesMatchRadio`)? |
| `deploy` | 298 288 | In every example program, at every combination of received powers: do data rates fit the powers (`BestRate`) and counts the data rates (`CountsMatch`), does the server know every sender it hears of (`ServerKnowsSender`), do applications send when they should and stop (`SendsOnTime`)? |

Two runs in which TLC finds that the code does not do what a comment or a document
says (a "finding"):

| run | what happens |
|---|---|
| `cmd_direction` | Three places parse a frame header whose direction was never set, against `lora-frame-header.h:88`: `m_isUplink` is then any value, and an answer parsed as a request is an unknown command, on which the parsing loop never ends. |
| `duty_cycle` | `doc/lorawan.rst:279-285` has a device stay off for `t_air/dc - t_air` after a transmission. `AddEvent` counts that silence from the start of it, so a device takes up to `1/(1/dc - 1)` of the time instead of `dc` (`SilenceFollows`): 1.01 % for 1 %, a ninth for 10 %, and with a duty cycle of a half it never pauses. |

### Other disagreements

Met on the way, without a run of their own. TLC finds those marked * with the
setting in parentheses.

* Radio*: `simple-end-device-lora-phy.cc:88-92` says that `TxFinished`, scheduled
  just after the switch to STANDBY, is sure to find STANDBY. The radio listens
  during these 10 ns; a packet that arrives puts it in RX and `SwitchToSleep`
  asserts. (`mac_duty`, with an invariant that `crash` is never `sleepAfterTx`.)
* MAC*: "We should never be in TX or SLEEP mode at this point"
  (`class-a-end-device-lorawan-mac.cc:322`): without a duty cycle a packet is sent
  inside a receive window, and the close of the window aborts. (`mac_adapt`, with an
  invariant that `crash` is never `closeInTx`.)
* MAC: `end-device-lorawan-mac.h:454-456` cancels `m_nextTx` only on an ACK or a
  newer packet; the close of the second window after an unconfirmed packet cancels
  the new packet that waits for the duty cycle, too.
* Gateway*: `gateway-status.cc:93-95` says that a gateway cannot send two packets
  at once; two replies in different sub-bands chosen within the delay of the link
  are transmitted at once, and the first `TxFinished` clears the flag, so that the
  gateway receives while it transmits. (`tracker`, with an invariant that no gateway
  in `txEnds` occupies a path.) `HearsOnlyAfterOverlap` says that this is the only
  way.
* Interference*: `lora-interference-helper.h:39-41` and `doc/lorawan.rst:171-173`;
  a packet that lasts longer than the two seconds of the clean-up (SF12 with a
  full payload) survives because a signal that destroyed its beginning was
  cleaned. (`interference`, with the second part of `VerdictIsTrue` for every
  packet.) `VerdictIsTrue` says that the clean-up errs in no other way.
* MAC: without a duty cycle two queued transmissions of one packet wrap the
  `uint8_t` `retxLeft` from 0 to 255, unseen by the check for "negative"
  (`end-device-lorawan-mac.cc:309`). A downlink without ACK in the first window
  cancels the second, and with it the only event that would retransmit or give up
  a confirmed packet (`class-a-end-device-lorawan-mac.cc:173`; `mac_duty` has
  a server that always acknowledges for this reason). A packet dropped for its
  size moves the frame counter, so that a later retransmission has another one
  than the first transmission; `SameFCnt` says that nothing else moves it.
* Gateway: a transmission frees the paths of the receptions it interrupts without
  taking them from `m_occupiedReceptionPaths` (`simple-gateway-lora-phy.cc:92`). A
  reply refused by the duty cycle after the hand-over is lost while the server
  takes it for sent.
* Server: when two gateways measured the same power the map of
  `end-device-status.cc:401` keeps one of them, and the second window is used
  although the other could transmit in the first. `FirstWindowIfPossible` allows
  just this. `insert` at `:299` keeps the power of the
  first reception of a packet that is retransmitted.
* ADR: with a history of 4 packets combined by their maximum, or of 8 by their
  average, the component takes a device out of the reach of every gateway: it
  steps down again and again for packets received before the first step, and never
  raises the spreading factor. A device whose SNR is -15.2 dB at 0 dBm (one of the
  gains of `adr_loop`) starts at 14 dBm with a margin of two steps and ends at
  2 dBm, where no gateway hears it. `StaysReachable` excludes the maximum, and the
  run has the default of 4; the minimum was also checked with up to 20 packets.
* Commands: at data rate 0 answers can outgrow the size limit, and every later
  packet is dropped for them (`end-device-lorawan-mac.cc:226`; `AnswersLeave` needs
  a packet that leaves room). A refused `RxParamSetupReq` is applied all the same
  (`class-a-end-device-lorawan-mac.cc:551`). A duty cycle request of 0 asserts; a
  mask index equal to the number of channels (`end-device-lorawan-mac.cc:723`), a
  data rate or power at the size of its table (`lorawan-mac.cc:127`, `:140`), and
  a new channel beyond the list throw. From 16 bytes of options on, the header
  loses their length (`lora-frame-header.cc:94`); `m_fOptsLen` itself is a `uint8_t`
  that wraps at 256, so `LengthFits` looks at the bytes and not at the counter. `RxTimingSetupAns`, `DlChannelAns`
  and the commands of the transmit parameters set wrong types in constructors.
* Duty cycle: the aggregated duty cycle is written but never read. `GetChannelForTx`
  does not look at the data rates of a channel. A channel moved outside all
  sub-bands, or a power above that of the channel's sub-band, ends the program.
* Tracker: the radio's map keeps the outcome of the first transmission only; a
  packet lost first and received when retransmitted is counted lost by the radio
  and received by the MAC (`TrackersAgree` allows just this). All unconfirmed
  packets share a null key in the map of retransmissions, and count as one.
  `CountMacPacketsGloballyDelay` uses the number of gateways as a gateway and
  reads behind the end of its map.
* Energy: a depletion callback that puts the radio to SLEEP fails an assertion
  unless the radio is in STANDBY. The default callback that
  `lora-radio-energy-model-helper.cc:90-91` announces is not set.
* Set-up: devices out of range are counted at an index behind the vector
  (`lorawan-mac-helper.cc:543`), `SHIFT_TWO` wraps data rate 1, and
  `SetSpreadingFactorsGivenDistribution` runs past both of its vectors. Forwarders
  installed before the server have a null link. `GetNextAddress` is documented as
  the address `NextAddress` will give, and is the one after. The statistics of
  `lorawan-network-mClass-sim.cc:530` assume that the spreading factors in use are
  contiguous from SF7.

### Bounds, and why they are enough

* `ClassAMac`: four ticks are a second. Two packets: the interesting cases are
  an old packet and the one that replaces it. Two transmissions each: a first one and a last one; four in `mac_adapt`, where
  data-rate adaptation lowers the data rate before the third, so that a packet can be
  dropped for its size between two transmissions of another. Windows at one and two seconds,
  transmissions of half a second, receptions that fit between the windows and
  receptions that outlast one, acknowledgment timeouts at both ends of the range
  the code draws from, and in `mac_adapt` one that puts a queued packet into the
  first window of a transmission the queue did not know of. One channel: channels share nothing but the minimum of
  their waits. Every kind of frame (to the device with or without an ACK of any
  packet, to another device, an uplink) may arrive whenever the radio listens;
  `mac_duty` leaves out those to the device without an ACK, with which `WaitingEnds`
  fails. The theorems and `mac_adapt` have them.
  An acknowledgment is only received for a packet that has been on the air.
* Duty cycle: 24 ticks exceed the longest time a packet can keep the radio busy
  after a transmission, as 1 % of the EU868 channels does; 0 is the ALOHA
  region; the mixed setting of `mac_adapt` has 16 ticks at data rate 0, which
  a reception begun in the second window outlasts, and none at data rate 1. The
  width of the counters is not reached: the theorems cover
  `retxLeft` and `fCnt`.
* `Gateway` and `PacketTracker`: two gateways with one path each, two uplinks of
  three ticks, as two packets or as a packet and its retransmission, and a
  downlinks: overlaps, interrupted receptions, a gateway that hears another. In
  `tracker` two downlinks in two sub-bands may overlap on the air, and each
  sub-band stays closed for more than twice a downlink; gateways, sub-bands and
  downlinks are symmetric. Downlinks refused by the duty cycle are in `ns_windows`.
* `NetworkServer`: three ticks are a second, and a window is open for as long; the
  link takes one. (A window and the link are far shorter in the code; what matters is
  which of them is longer.) Two gateways with one path, of which the second may measure
  the same power as the first or more; device
  `a` sends two uplinks, confirmed or not, the second may be a retransmission;
  device `b` one that asks for a link check, so that replies compete for the
  gateways. A reply lasts longer than the
  second between the windows, so that it can close both windows of another device
  and a reply is given up; the sub-band of window 1 stays closed longer than that
  of window 2, so that the second window is used too. `FCntSpace` is 2 in `ns_windows`, which two uplinks of a
  device just reach without coming back to an earlier counter.

* `Interference`: three signals, the third of which makes the list long enough
  to be cleaned: an interferer, the packet it overlaps with, and the one whose
  arrival triggers the clean-up. Two spreading factors, since the energies of
  each are summed apart; two powers, one that survives another of its spreading
  factor and one that does not. A packet lasts the threshold or twice as long. `Horizon`
  bounds the time, and is why the run does not check for deadlock. The theorems cover any number and any list.
* `Adr`: two gateways, eight gains from hardly heard at SF12 to far above every
  threshold at the least power, one of them just too low for the least power, every initial spreading factor, the default
  history of four packets and the nine ways to combine. The state space is
  finite without a bound.
* `MacCommands`: three channels, two transmissions, any two of twelve requests in
  a reply, with the boundary values of each table; sizes that leave plenty of
  room and a single byte at data rate 0. `MaxQueued` bounds only the queue up to
  which the application asks for a link check.
* `Channels`: three sub-bands, two channels, two frequencies to move one to, of
  which one lies in no sub-band; air times of one and two ticks and a window that
  keeps a packet waiting longer than the silence of one of them. Duty cycles are
  scaled to a quarter and a third so that waits end before `MaxTime`. The theorems
  have no such bounds.
* `Energy`: currents in the order of the defaults, two powers; eight units of
  energy, which two ticks of a transmission empty, and a harvest that fills the
  source again, so that depletion, recharge and depletion again fit in `MaxTime`.
* `Deployment`: two devices, two gateways, received powers that fall in different
  classes of the two sensitivity tables or are out of range, distances on and
  between the thresholds, three intervals of the applications with the first delay
  at both ends of its range. The theorems cover up to 250 devices, any number of
  gateways, any powers and distances, and any number of intervals.

### Fairness

Liveness assumes weak fairness of the scheduler (handlers and `Tick`) and none
of the environment: the simulator always runs the next event, while an
application need not send and a packet need not arrive. `AdrFairSpec` says what
a settled loop needs: the application sends again and again (periodic sender),
and replies keep failing neither at the gateways nor on the way: strong
fairness of the two steps that may fail, an assumption on the radio and not on
the code. `CmdFairSpec` says the same of the application, with its smallest
packet (strong fairness: sending is not possible while a frame is on its way).
`ChFairSpec` and `NsFairSpec` are fair to the clock and to due events only;
`FairSpec` of the MAC needs, besides, a server that always acknowledges, which is a
constant of its run. TLC
checks the gateways with the tracker and the server for deadlock as well: every
event that is due has a handler that can run, and time passes otherwise. The other
runs leave that check out: an assertion that fails does stop the program, a
bounded clock and a simulation come to an end, and a device out of reach ends the
ADR loop.

## 4. The proofs

Every theorem holds for every value of the constants that meets the assumptions
of the module (TLC evaluates those in each run) and the ones named below.

| module | theorem | states |
|---|---|---|
| `ClassAMac_proofs` | `TypeCorrect` | `Spec => []TypeOK` |
| | `QueueIsFresh` | `Spec => []RetxMatchesQueue` |
| | `OutcomeIsFinal` | `Spec => []OneOutcome` |
| | `Refinement` | `Spec => ImplementsService`, the refinement of `ReliableSend` |
| | `RadioInStep` | `Spec => []RadioMatchesEvents`, if `LongDutyCycle` |
| | `NoOtherAbort` | `Spec => []NoAbort`, if `LongDutyCycle` |
| | `BudgetIsAirtime` | `Spec => []BudgetIsSpentOnAir`, if `LongDutyCycle` |
| | `AckedWasSent` | `Spec => []AckedWasOnAir`, if `LongDutyCycle` |
| | `FCntIsStable` | `Spec => SameFCnt` |
| `Gateway_proofs` | `GwTypeCorrect` | `GwSpec => []GwTypeOK` |
| | `PathsAreFreed` | `GwSpec => []PathsMatchEvents` |
| | `FatesAreFinal` | `GwSpec => []OneFate` |
| | `DeafUnlessOverlapped` | `GwSpec => []HearsOnlyAfterOverlap`, if `BandsStayClosed` |
| | `TrackedGateways` | `TrSpec => [](PathsMatchEvents /\ OneFate)` |
| | `CountsAreComplete` | `TrSpec => []CountsAddUp` |
| | `LayersAgree` | `TrSpec => []TrackersAgree` |
| `NetworkServer_proofs` | `ServerUsesGateways` | `NsSpec => GwSpec`: the server is an environment the gateways allow |
| (all if `SilentLongEnough`) | `NsTypeCorrect` | `NsSpec => []NsTypeOK` |
| | `ReplyIsLookedAt` | `NsSpec => []ReplyHasOpportunity` |
| | `RepliesMeetWindows` | `NsSpec => []RepliesInWindow`, if `WindowsFit` |
| | `AnsweredOnce` | `NsSpec => OneReplyPerUplink` |
| | `AcksTheLast` | `NsSpec => AckIsForTheLastUplink`, if `NoWrap` |
| | `FirstWindowPreferred` | `NsSpec => FirstWindowIfPossible` |
| `Signals_proofs` | `OverlapIsIntersection` | `GetOverlapTime` is the length of the intersection |
| | `CleaningIsSafe` | `IfSpec => []NothingNeededIsCleaned` |
| | `VerdictsAreTrue` | `IfSpec => []VerdictIsTrue` |
| | `AdrTypeCorrect` | `AdrSpec => []AdrTypeOK` |
| | `RequestsChange` | `AdrSpec => RequestsMatter` |
| | `InReach` | `AdrSpec => []StaysReachable`, if `CautiousHistory` |
| `MacCommands_proofs` | `AnswersAreKept` | `CmdSpec => []NoAnswerForgotten` |
| | `ChannelIsKept` | `CmdSpec => []KeepsAChannel` |
| | `ParsedBack` | `CmdSpec => []ParsedAsWritten` |
| | `CmdTypeCorrect` | `CmdSpec => [](CmdTypeOK /\ inbox \in Seq(Parsed))` |
| `Channels_proofs` | `ShareOfTheAir` | `ChSpec => SentIsPaidFor` |
| | `WaitIsLongEnough` | `ChSpec => []PostponedFindsChannel` |
| `Energy_proofs` | `ModelFollowsRadio` | `EnSpec => []StateFollowsRadio` |
| | `EnergyIsCharged` | `EnSpec => []ChargesMatchRadio` |
| `Deployment_proofs` | `DeploymentTypes` | `DpSpec => []DpTypeOK` |
| | `RatesAreBest` | `DpSpec => []BestRate` |
| | `CountsAreRight` | `DpSpec => []CountsMatch`, if `CountsFromZero` |
| | `UplinksFindTheirSender` | `DpSpec => []ServerKnowsSender`, if `ShiftsKeepRates` |
| | `ApplicationsSendOnTime` | `DpSpec => []SendsOnTime` |

### What the theorems assume of the constants

These are assumptions of single theorems, not of the modules, because the code
does not ensure them everywhere; section 3 tells what happens without them.

* `LongDutyCycle`: all channels share a sub-band, as the three default channels of
  EU868 do, and after every transmission it stays closed until the second window
  and a reception begun at its very end are over. With the 1 % of EU868 it does;
  in the ALOHA region, whose duty cycle is 100 %, it does not.
* `BandsStayClosed`: each sub-band stays closed for more than twice the time a
  downlink lasts, which follows from any duty cycle below a third. The sub-bands of
  the two windows have 1 % and 10 %.
* `SilentLongEnough`: a device that has transmitted is silent until both of its
  windows are over and the server, a link delay behind, has finished with them.
  `GetNextClassTransmissionDelay` keeps a device silent until its second window
  has closed; the link's delay of some milliseconds is on top of that.
* `NoWrap`: a device makes no more transmissions than there are frame counters.
* `WindowsFit`: twice the delay of the link is shorter than a window, and the second
  window closes before the device sends again. The links of the examples delay by
  two milliseconds; a window is open for eight symbols, 8 ms at spreading factor 7
  and 262 ms at 12. With a link of 5 ms replies to fast devices would come too late.
* `CautiousHistory`: the component looks at one packet, or no device's history is
  combined by its average (`StaysReachable` itself excludes the maximum). For the
  default history of four packets combined by the average TLC checks it.

* `ShiftsKeepRates`: a study shifts data rates by two only right after
  `SetSpreadingFactorsProp`, which never gives data rate 1. A shift by two wraps
  data rate 1 (`SHIFT_TWO`, section 3), and the program ends.
* `CountsFromZero`: a study calls `CLASS_THREE` first. It counts every device at
  its new data rate and takes none from its old one, so it is right only on counts
  of zero.

The last two concern `Studies` only, the sequences of calls that no example makes:
for the programs of `examples/` they say nothing. The module assumes of a study
that it is a sequence of the functions that assign data rates (`StudiesAssumption`),
and of a request that it is what a constructor of a downlink's command builds
(`CommandsAssumption`).

`Adr` also has the constant `Scale`, a multiple of every number of gateways, so
that averages stay integers; it changes no result of a comparison.

### Along which argument

`ClassAMac`. The inductive invariant of the first four is `TypeOK /\
RetxMatchesQueue /\ OneOutcome /\ InOrder`. None of the parts is inductive
without the others: that a packet taken from the queue was never started needs
the order of the application's calls (`InOrder`: what was started or queued is not
above `appSent`, so the next packet is fresh); that its outcome is reported once
needs that the packet that waits has none yet. Two lemmas for each operator that
handlers share (`Reset`, `SendToPhy`, `DoSend`, `Send`, `Retry`) say what it keeps
of the types and of the invariant; each handler then has two short proofs. In the
refinement a handler starts a packet, concludes one, or stutters. For the others
`DutyInv` relates the duty cycle to the events: whatever is pending, with the
windows it leads to, is over before the sub-band opens, and a queued transmission
waits at least until then (`OverInTime`); the pending events are those of one
transmission, in its order (`OneTransmission`). So a transmission finds the radio
asleep with nothing pending, and is made. For `SameFCnt` `HeaderInv` says that the
header of the packet that waits carries the counter of the MAC, or that a later
packet was dropped: such a packet is behind the calls of the application, neither
started nor queued, and stays so.

`Gateway`. `GwInv` joins paths, pending ends and outcomes: an occupied path has
exactly one pending end, an uplink has its outcome at a gateway exactly when it has
arrived and occupies no path, what is still on a link was heard nowhere
(`Unheard`), and the count of occupied paths is never too low (`Counted`). Neither
of `PathsMatchEvents` and `OneFate` is inductive alone: an interruption frees the
path, traces the outcome and must find the event it cancels. `TxInv` ties each
transmission to its sub-band: one that is on the air began when the sub-band was
charged (`Began`), and while the flag is cleared another one, charged before it or
at most a downlink after it, has ended (`Ended`). A sub-band that is closed for
twice a downlink remembers both for long enough.

`PacketTracker`. A step of the tracker is one of the gateways or leaves them
alone, so `GwInv` carries over. `TrInv` says that the keys of the maps are the
packets of the transmissions, and that a packet has an outcome at a gateway
exactly if one of its transmissions has. That the counts add up is then a fact
about a fold: the sum over the outcomes of the sizes of the classes is the size
of the whole. The fold is a recursion over subsets; a smallest subset on which
it differs from the cardinality does not exist.

`NetworkServer`. For each device `DeviceInv` says that everything on its way, at
the gateways, on the links and in the scheduler, belongs to the last uplink and is
due at a fixed time after its end (`OnItsWay`), that the reply acknowledges that
uplink if it asks for it (`ReplyFits`), and that a reply was sent for it only when
no opportunity is left and no copy can come any more (`Answered`). That is what
the silence of the device is for: without it a copy of an earlier uplink could
open a window. With `FCntsInOrder` counters tell uplinks apart as long as they do
not come back.
`Measured` says that the server's list holds what the gateways measured, which
`FirstWindowPreferred` needs: the gateway map is ordered by these powers, it holds
of the gateways of one power that of the least address (`LeastAddress`), and the
second window opens only if each of its gateways refused the first. For
`RepliesMeetWindows` the opportunity is due a link delay and `w` seconds after the
uplink, and the reply a link delay later. TLC checked
`GwInv`, `NsInv`, `FCntsInOrder` and `Measured` on the constants of `ns_windows`,
which meet the assumptions, before they were proved.

`Interference`. What was cleaned ended more than the threshold ago
(`MissingIsOld`), so whatever overlaps with it began at least as long ago, and a
short packet has ended (`KeepsNeeded`). A verdict therefore sees all signals that
overlap with a short packet, and some of those that overlap with a long one; the
energy is a sum over a set, and a sum over fewer signals of no negative energy is
not greater (`SumOfPart`, `EnergyIsNoLess`). Signals that arrive later begin after
the judged packet has ended and add nothing.

`Adr`. When a window is pending, the last entry of the history was measured with
the device's present settings (`Current`); a request that is pending differs from
them (`AsksForChange`), since the steps are spent within the ranges and the tables
of the device invert those of the component (`StepsAreSpent`, `IndexOfPower`). For
`InReach` the margin the component computes is not above that of the gateway that
heard the last packet best (`HistorySnrBound`); a step is 3 dB of it and takes at
most 2.5 dB of sensitivity or 2 dB of power. That an average is not above the
greatest number is `SumBound`, again by a smallest counterexample over subsets.

`MacCommands`. A handler moves one answer from what the rest of the header calls for
to the end of the list, which leaves the two together what they were, and adds none
where the code adds none; a new packet carries the whole list, when no header is
being executed, so all that was owed is settled; a mask
is taken over only if one of its channels allows the data rate, so it is not empty.
That a frame is parsed as it was written has two parts. `FramesInv`: the list and
an uplink hold only commands of which the parser of uplinks knows the identifier,
and knows it as that very type (`Written`); a downlink only requests and
`LinkCheckAns`. `RoundTrip`: such commands come back. The bytes of a command lie
where those before it end (`BytesOf`), so the parser finds at that place the
identifier, takes the command's size for its type, and goes on where the next one
starts (`ReadsCommand`). `FOptsLen`, `Options` and `Parse` are recursive functions,
which the theory of functions knows only as a choice among those that satisfy an
equation. That there is one is proved by induction over a set of numbers
(`SetInduction`, which follows from the well-foundedness of the order of numbers
and takes no operator as a parameter): over the prefixes of the list for the first
two, from the end backwards for `Parse`, at every position, also those at which no
command starts (`Recursion`). The same induction shows that whatever bytes follow
the header, `Parse` yields commands of the size of their type, or `Hang`
(`ParseType`), so each handler finds the bytes it reads (`NextCommand`), and the
fields it sets from them stay in the range their bits allow (`CmdTypeCorrect`).

`Channels`. `SilenceCovers` says that the silence of a sub-band, past or still to
come, covers what was sent there; a transmission begins only when it is past
(`StartIsPaid`). For the postponed packet the strengthening says that, unless a command changed the channels
meanwhile, one enabled channel's sub-band is free when the queued packet is due:
the wait is the least over the channels and nothing can be charged while the
packet waits, for whatever is sent first replaces it.

`Energy`. The invariant lists the shapes the stack of calls can have. Its core is
that calls nest at most once: the nested call finds the source updated at this
very instant, with nothing drawn since and its flag already set, so it has nothing
to report and cannot call back again (`Settled`).

`Deployment`. A program is any of a set, so the argument starts with what all of
them share: `Ordered` says that the devices are installed once and before what
needs them, the server before the forwarders and with addresses that tell devices
apart, and that data rates given device by device are not assigned again. Each
program is shown to be so, once; the rest uses only that. `Made` is the part of the
program that lies behind. `Wired` says what the calls made so far have linked:
addresses are consecutive, the server's map leads from each to its device, and no
forwarder has a null link. With `ThirdsAreFast` (no device has data rate 1 after
`SetSpreadingFactorsProp`) it gives `ServerKnowsSender`. `CountsInv` adds to
`CountsMatch` what holds before the first assignment; a shift moves devices from
one class to another, and what leaves one class and enters the other is counted by
cardinalities of sets of devices (`Moved`, `Came`, `Gone`). `BestRate` is a fact
about `Up`: the sensitivities rise with the data rate, so the first that is low
enough is the fastest, and a shift to slower rates stays in reach. `AppsInv` ties
the next packet of an application and its stop to the number of those sent: the
next one of a periodic application is due at its delay plus that many intervals
(`KeepsPeriod`), and `Planned` counts an interval of numbers. That time never runs
past an event needs the moves to be in order (`MovesInv`). TLC checked these
invariants on the constants of `deploy`, with one gateway, before they were proved.

### Only model-checked

* Liveness (`WaitingEnds`, `AnswersLeave`, `PostponedEnds`, `ReceptionsEnd`,
  `RepliesEnd`, `Settles`): fairness and ENABLED are out of the prover's reach.
* `StaysReachable` for a history combined by its average: it depends on how many
  packets the history holds.

## 5. Not modelled

| part | why |
|---|---|
| air time (`lora-phy.cc`), propagation, shadowing, building loss, positions | formulas over reals; constants or choices of the environment |
| `SetSpreadingFactorsGivenDistribution` | its result depends on what lies behind its vectors |
| files of results, statistics after the simulation, printing, seeds, buildings | no state of the protocol |
| intervals and delays of the packet tracker | a filter by time on the same maps |
| MAC header, tags, general interface of the net device | carry or pass on values |
| `RemoveChannel`, `DisableChannel`, `AddLogicalChannel`, `NextNetwork`, `GetNextAddress` | no caller in the module |
| tests | read for what they promise |

## 6. Plan

Done, in this order, the most important behaviour first: device radio and MAC,
its abstract specification and proofs; gateways; server on top of them;
interference with its proofs; the ADR loop; commands, channels and energy with
their proofs; the tracker on top of the gateways; the programs and their proofs;
the parsing of what was written.

What could still be modelled: a composition of `ClassAMac` with the server, in
which `Gap` is no longer an assumption; a run in which the frame counter comes
back to an earlier value, which needs a history of a whole counter space.

What is left to prove: `StaysReachable` for a history combined by its average,
which needs a bound on how far an old packet's margin can lie above the present
one. With the composition above, `SilentLongEnough` would follow from the
device's own windows instead of being assumed.
