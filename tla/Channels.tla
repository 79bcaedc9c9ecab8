------------------------------ MODULE Channels ------------------------------
(***************************************************************************)
(* The duty cycle: the logical channels of a node, the sub-bands they lie  *)
(* in, and when the node may transmit again (LogicalLoraChannelHelper,     *)
(* LogicalLoraChannel, SubBand), with the use its MAC makes of them.  A    *)
(* device picks a channel or puts the packet off, and picks a channel anew *)
(* when the packet's time has come; a gateway drops what it may not send;  *)
(* MAC commands change the device's channels and power meanwhile.          *)
(*                                                                         *)
(* Frequencies are in kHz, times in units of the air time of the fastest   *)
(* data rate.  A duty cycle is the share 1/inverse of the time.            *)
(***************************************************************************)
EXTENDS Integers, FiniteSets, Sequences, FiniteSetsExt

CONSTANTS
  Bands,            \* m_subBandList: [first, last, inverse, maxTxPower]
  DefaultChannels,  \* the frequencies of the region's channels
  NewFrequencies,   \* those of NEW_CHANNEL_REQ
  Rx2Frequency,     \* the second receive window
  Powers,           \* in dBm, what LINK_ADR_REQ may set
  AirTimes,
  WindowDelays,     \* how long receive windows keep a packet waiting
  MaxTime           \* bound of the clock

ASSUME ChannelsAssumption ==
  /\ Bands \in Seq([first : Nat, last : Nat, inverse : Nat \ {0}, maxTxPower : Int])
  /\ DefaultChannels \in Seq(Nat) /\ Len(DefaultChannels) > 0
  /\ NewFrequencies \subseteq Nat /\ Rx2Frequency \in Nat
  /\ Powers \subseteq Int
  /\ AirTimes \subseteq Nat \ {0}
  /\ WindowDelays \subseteq Nat
  /\ MaxTime \in Nat

Roles == {"device", "gateway"}

VARIABLES
  role,       \* whose helper it is
  now,
  channels,   \* m_channelList of the device: frequency, m_enabledForUplink
  txPower,    \* m_txPower of the device
  nextTime,   \* m_nextTransmissionTime of each sub-band
  nextTx,     \* the device's postponed DoSend
  onAir,      \* total time the node has been on the air in each sub-band
  crash       \* the assertion that failed, or the null channel

chVars == <<role, now, channels, txPower, nextTime, nextTx, onAir, crash>>

BandIds == DOMAIN Bands

(* A postponed transmission: when it is due, the air time of its packet,   *)
(* and whether a MAC command changed the channels since.                   *)
NoTx == [at |-> -1, air |-> 0, changed |-> FALSE]

ChInit ==
  /\ role \in Roles
  /\ now = 0
  /\ channels = [i \in DOMAIN DefaultChannels |->
                   [frequency |-> DefaultChannels[i], enabled |-> TRUE]]
  /\ txPower = 14
  /\ nextTime = [b \in BandIds |-> 0]
  /\ nextTx = NoTx
  /\ onAir = [b \in BandIds |-> 0]
  /\ crash = "none"

-----------------------------------------------------------------------------
(* The helper.                                                             *)
BelongsToSubBand(f, b) == Bands[b].first < f /\ f < Bands[b].last

(* GetSubBandFromFrequency, of which only frequencies in some sub-band are *)
(* asked; of others it aborts.                                             *)
Covered(f) == \E b \in BandIds : BelongsToSubBand(f, b)
SubBand(f) == CHOOSE b \in BandIds :
                /\ BelongsToSubBand(f, b)
                /\ \A c \in BandIds : BelongsToSubBand(f, c) => b <= c

GetWaitingTime(f) ==
  IF nextTime[SubBand(f)] > now THEN nextTime[SubBand(f)] - now ELSE 0

(* Mutant: the time is kept by the first sub-band, whatever the channel. *)
FirstBand(f) == 1
ChargedBand(f) == SubBand(f)

(* AddEvent: the silence begins with the transmission, not after it.       *)
AddEvent(f, air) ==
  LET b == ChargedBand(f)
  IN  /\ nextTime' = [nextTime EXCEPT ![b] = now + air * (Bands[b].inverse - 1)]
      /\ onAir' = [onAir EXCEPT ![SubBand(f)] = @ + air]

Enabled == {channels[i].frequency : i \in {j \in DOMAIN channels : channels[j].enabled}}

Crash(what) == crash' = what /\ UNCHANGED <<role, now, channels, txPower, nextTime, nextTx, onAir>>

IsDevice  == role = "device" /\ crash = "none"
IsGateway == role = "gateway" /\ crash = "none"

-----------------------------------------------------------------------------
(* The device.                                                             *)

(* The candidates of GetChannelForTx, which takes the first free one in an *)
(* order it shuffles.                                                      *)
ChannelsForTx == {f \in Enabled : Covered(f) /\ GetWaitingTime(f) = 0}

(* Mutant: a packet that waits for windows does not wait for a channel. *)
OnlyWindow(window) ==
  IF window > 0 THEN window ELSE Min({GetWaitingTime(f) : f \in Enabled})

(* GetNextTransmissionDelay: the first channel to be free, then the end of *)
(* the receive windows.                                                    *)
Delay(window) == Max({Min({GetWaitingTime(f) : f \in Enabled}), window})

(* Mutant: the delay is taken for a time. *)
Absolute(delay) == delay
DueTime(delay)  == now + delay

(* SendToPhy.  A new packet cancels the transmission that is queued.       *)
SendToPhy(f, air) ==
  /\ AddEvent(f, air)
  /\ nextTx' = NoTx
  /\ UNCHANGED <<role, now, channels, txPower, crash>>

(* Send: postponed, or sent at once, which asserts that the power is that  *)
(* of the sub-band.                                                        *)
Send(air, window) ==
  /\ IsDevice
  /\ Enabled # {}
  /\ \/ \E f \in Enabled : ~ Covered(f) /\ Crash("outside")
     \/ /\ \A f \in Enabled : Covered(f)
        /\ Delay(window) > 0
        /\ nextTx' = [at |-> DueTime(Delay(window)), air |-> air, changed |-> FALSE]
        /\ UNCHANGED <<role, now, channels, txPower, nextTime, onAir, crash>>
     \/ /\ \A f \in Enabled : Covered(f)
        /\ Delay(window) = 0
        /\ \E f \in ChannelsForTx :
             IF txPower <= Bands[SubBand(f)].maxTxPower THEN SendToPhy(f, air) ELSE Crash("power")

(* DoSend of a postponed packet: no assertion looks at the power, and the  *)
(* channel is dereferenced whether or not there is one.                    *)
Postponed ==
  /\ IsDevice
  /\ nextTx.at = now
  /\ \/ \E f \in Enabled : ~ Covered(f) /\ Crash("outside")
     \/ /\ \A f \in Enabled : Covered(f)
        /\ ChannelsForTx = {} /\ Crash("null")
     \/ \E f \in ChannelsForTx : SendToPhy(f, nextTx.air)

(* resetRetransmissionParameters: the transmission is cancelled.           *)
Cancelled ==
  /\ IsDevice
  /\ nextTx # NoTx
  /\ nextTx' = NoTx
  /\ UNCHANGED <<role, now, channels, txPower, nextTime, onAir, crash>>

Changed == nextTx' = [nextTx EXCEPT !.changed = (nextTx # NoTx)]

(* OnLinkAdrReq with the channels of a mask and the power of an index.     *)
OnLinkAdrReq(mask, power) ==
  /\ IsDevice
  /\ channels' = [i \in DOMAIN channels |-> [channels[i] EXCEPT !.enabled = i \in mask]]
  /\ txPower' = power
  /\ Changed
  /\ UNCHANGED <<role, now, nextTime, onAir, crash>>

(* OnNewChannelReq: SetChannel replaces a channel by an enabled one.       *)
OnNewChannelReq(i, f) ==
  /\ IsDevice
  /\ channels' = [channels EXCEPT ![i] = [frequency |-> f, enabled |-> TRUE]]
  /\ Changed
  /\ UNCHANGED <<role, now, txPower, nextTime, onAir, crash>>

-----------------------------------------------------------------------------
(* The gateway: Send at the frequency of the reply, which is that of an    *)
(* uplink or of the second window.  The power is that of the sub-band.     *)
GatewaySend(f, air) ==
  /\ IsGateway
  /\ \/ ~ Covered(f) /\ Crash("outside")
     \/ /\ Covered(f)
        /\ GetWaitingTime(f) = 0
        /\ AddEvent(f, air)
        /\ UNCHANGED <<role, now, channels, txPower, nextTx, crash>>

(* Time passes; what is due is done first.                                 *)
Tick ==
  /\ crash = "none"
  /\ now < MaxTime
  /\ nextTx.at # now
  /\ now' = now + 1
  /\ UNCHANGED <<role, channels, txPower, nextTime, nextTx, onAir, crash>>

(* Those of the uplinks it answers, and that of the second window.         *)
Frequencies == Enabled \cup NewFrequencies \cup {Rx2Frequency}

ChNext ==
  \/ \E air \in AirTimes, window \in WindowDelays : Send(air, window)
  \/ Postponed
  \/ Cancelled
  \/ \E mask \in (SUBSET DOMAIN channels) \ {{}}, power \in Powers : OnLinkAdrReq(mask, power)
  \/ \E i \in DOMAIN channels, f \in NewFrequencies : OnNewChannelReq(i, f)
  \/ \E f \in Frequencies, air \in AirTimes : GatewaySend(f, air)
  \/ Tick

ChSpec == ChInit /\ [][ChNext]_chVars

ChFairSpec == ChSpec /\ WF_chVars(Tick) /\ WF_chVars(Postponed)

-----------------------------------------------------------------------------
ChTypeOK ==
  /\ role \in Roles
  /\ now \in 0 .. MaxTime
  /\ channels \in [DOMAIN DefaultChannels -> [frequency : Nat, enabled : BOOLEAN]]
  /\ txPower \in Int
  /\ nextTime \in [BandIds -> Nat]
  /\ nextTx \in [at : Int, air : Nat, changed : BOOLEAN]
  /\ onAir \in [BandIds -> Nat]

(* However the channels of a sub-band change and share its time, whoever   *)
(* begins to transmit there has paid for all it sent there before: for     *)
(* every unit on the air inverse - 1 units of time have passed since the   *)
(* start.  AddEvent counts the silence from the start of a transmission,   *)
(* so that the share this grants is 1/(inverse - 1), not 1/inverse.        *)
SentIsPaidFor ==
  [][\A b \in BandIds :
       onAir'[b] # onAir[b] => onAir[b] * (Bands[b].inverse - 1) <= now]_chVars

(* What doc/lorawan.rst says: after a transmission of air the node stays   *)
(* off for air * inverse - air, so that when it transmits again there, all *)
(* it sent before has taken no more than 1/inverse of the time.            *)
SilenceFollows ==
  [][\A b \in BandIds :
       onAir'[b] # onAir[b] => onAir[b] * Bands[b].inverse <= now]_chVars

(* A packet put off until a channel is free finds one when its time comes, *)
(* unless a MAC command changed the channels in the meantime.              *)
PostponedFindsChannel == crash = "null" => nextTx.changed

(* A queued transmission does not wait for ever: it begins, or is           *)
(* cancelled, or a packet that waits longer takes its place, or the        *)
(* program ends.                                                           *)
PostponedEnds ==
  nextTx # NoTx /\ nextTx.at <= MaxTime ~>
    nextTx = NoTx \/ nextTx.at > MaxTime \/ crash # "none"
=============================================================================
