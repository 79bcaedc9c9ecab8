-------------------------- MODULE Channels_proofs --------------------------
(***************************************************************************)
(* What the duty cycle grants, proved for every region, every set of       *)
(* channels, powers and air times, and every bound of the clock.           *)
(***************************************************************************)
EXTENDS Channels, WellFoundedInduction, TLAPS

(* A nonempty set of natural numbers has a least one.                      *)
LEMMA LeastOf ==
  ASSUME NEW S, S \subseteq Nat, S # {}
  PROVE  Min(S) \in S /\ \A y \in S : Min(S) <= y
<1> DEFINE R == {ss \in Nat \X Nat : ss[1] < ss[2]}
<1>1. IsWellFoundedOn(R, Nat)
  BY NatLessThanWellFounded, Zenon DEF OpToRel
<1>2. PICK x \in S : \A y \in S : ~ (<<y, x>> \in R)
  BY <1>1, WFMin, Zenon
<1>3. ASSUME NEW y \in S PROVE x <= y
  <2>1. x \in Nat /\ y \in Nat
    BY <1>2
  <2>2. ~ (<<y, x>> \in {ss \in Nat \X Nat : ss[1] < ss[2]})
    BY <1>2, <1>3
  <2> HIDE DEF R
  <2> QED BY <2>1, <2>2
<1> QED BY <1>3, Zenon DEF Min

LEMMA LargerOf ==
  ASSUME NEW a \in Nat, NEW b \in Nat
  PROVE  Max({a, b}) \in Nat /\ Max({a, b}) >= a /\ Max({a, b}) >= b
<1>1. \E x \in {a, b} : \A y \in {a, b} : x >= y
  OBVIOUS
<1>2. Max({a, b}) \in {a, b} /\ \A y \in {a, b} : Max({a, b}) >= y
  BY <1>1, Zenon DEF Max
<1> QED BY <1>2

LEMMA Distributes ==
  ASSUME NEW a \in Nat, NEW b \in Nat, NEW c \in Nat
  PROVE  (a + b) * c = a * c + b * c
OBVIOUS

LEMMA BandsAreRecords ==
  /\ BandIds \subseteq Nat
  /\ \A b \in BandIds : Bands[b].inverse \in Nat \ {0}
<1> DEFINE R == [first : Nat, last : Nat, inverse : Nat \ {0}, maxTxPower : Int]
<1>1. Bands \in Seq(R)
  BY ChannelsAssumption DEF ChannelsAssumption
<1>2. BandIds \subseteq Nat /\ \A b \in BandIds : Bands[b] \in R
  <2> HIDE DEF R
  <2> QED BY <1>1 DEF BandIds
<1> QED BY <1>2

(* A covered frequency has the first sub-band that it belongs to.          *)
LEMMA SubBandOf ==
  ASSUME NEW f, Covered(f)
  PROVE  SubBand(f) \in BandIds
<1> DEFINE S == {b \in BandIds : BelongsToSubBand(f, b)}
<1>1. S \subseteq Nat /\ S # {}
  BY BandsAreRecords DEF Covered
<1>2. Min(S) \in S /\ \A y \in S : Min(S) <= y
  BY <1>1, LeastOf
<1>3. \E b \in BandIds : /\ BelongsToSubBand(f, b)
                         /\ \A c \in BandIds : BelongsToSubBand(f, c) => b <= c
  BY <1>2
<1> QED BY <1>3 DEF SubBand

-----------------------------------------------------------------------------
(* The strengthening.  What the helper keeps has its type, what was sent   *)
(* was paid for, and a queued transmission whose channels nobody changed   *)
(* is due when one of them is free.                                        *)
KeptOK ==
  /\ now \in Nat
  /\ channels \in [DOMAIN DefaultChannels -> [frequency : Nat, enabled : BOOLEAN]]
  /\ nextTime \in [BandIds -> Nat]
  /\ onAir \in [BandIds -> Nat]
  /\ nextTx \in [at : Int, air : Nat, changed : BOOLEAN]

SilenceCovers ==
  \A b \in BandIds : onAir[b] * (Bands[b].inverse - 1) <= nextTime[b]

DueWhenFree ==
  nextTx # NoTx /\ ~ nextTx.changed =>
    /\ \A f \in Enabled : Covered(f)
    /\ \E f \in Enabled : nextTime[SubBand(f)] <= nextTx.at

ChInv ==
  /\ KeptOK
  /\ SilenceCovers
  /\ DueWhenFree
  /\ PostponedFindsChannel
  /\ role = "gateway" => nextTx = NoTx

LEMMA WaitingTime ==
  ASSUME KeptOK, NEW f, Covered(f)
  PROVE  /\ GetWaitingTime(f) \in Nat
         /\ nextTime[SubBand(f)] <= now + GetWaitingTime(f)
         /\ nextTime[SubBand(f)] <= now => GetWaitingTime(f) = 0
BY SubBandOf DEF KeptOK, GetWaitingTime

(* When a device waits for its channels, one is free when the wait is over.*)
LEMMA DelayIsEnough ==
  ASSUME KeptOK, Enabled # {}, \A f \in Enabled : Covered(f), NEW window \in Nat
  PROVE  /\ Delay(window) \in Nat
         /\ \E f \in Enabled : nextTime[SubBand(f)] <= now + Delay(window)
<1> DEFINE W == {GetWaitingTime(f) : f \in Enabled}
<1>1. W \subseteq Nat /\ W # {}
  BY WaitingTime
<1>2. Min(W) \in W /\ Min(W) \in Nat
  BY <1>1, LeastOf
<1>3. PICK f \in Enabled : Min(W) = GetWaitingTime(f)
  BY <1>2
<1>4. /\ Max({Min(W), window}) \in Nat
      /\ Max({Min(W), window}) >= Min(W)
  BY <1>2, LargerOf
<1>5. Delay(window) = Max({Min(W), window})
  BY DEF Delay
<1>6. nextTime[SubBand(f)] \in Nat /\ now \in Nat
  BY SubBandOf DEF KeptOK
<1>7. nextTime[SubBand(f)] <= now + Delay(window)
  BY <1>2, <1>3, <1>4, <1>5, <1>6, WaitingTime
<1> QED BY <1>4, <1>5, <1>7

(* A transmission is charged to the sub-band it is sent in, at a time at   *)
(* which all earlier ones there are paid for.                              *)
LEMMA AddEventPays ==
  ASSUME KeptOK, SilenceCovers, NEW f, Covered(f), GetWaitingTime(f) = 0,
         NEW air \in Nat, AddEvent(f, air)
  PROVE  /\ nextTime' \in [BandIds -> Nat]
         /\ onAir' \in [BandIds -> Nat]
         /\ SilenceCovers'
<1> DEFINE b == SubBand(f)
           k == Bands[b].inverse - 1
<1>1. b \in BandIds
  BY SubBandOf
<1>2. k \in Nat
  <2>1. Bands[b].inverse \in Nat \ {0}
    BY <1>1, BandsAreRecords
  <2> QED BY <2>1
<1>3. /\ nextTime' = [nextTime EXCEPT ![b] = now + air * k]
      /\ onAir' = [onAir EXCEPT ![b] = @ + air]
  BY DEF AddEvent, ChargedBand
<1>4. nextTime[b] \in Nat /\ onAir[b] \in Nat /\ now \in Nat /\ nextTime[b] <= now
  BY <1>1 DEF KeptOK, GetWaitingTime
<1>5. air * k \in Nat /\ onAir[b] * k \in Nat
  BY <1>2, <1>4
<1>6. (onAir[b] + air) * k <= now + air * k
  <2>1. onAir[b] * k <= nextTime[b]
    BY <1>1 DEF SilenceCovers
  <2>2. (onAir[b] + air) * k = onAir[b] * k + air * k
    BY <1>2, <1>4, Distributes
  <2> HIDE DEF k
  <2> QED BY <2>1, <2>2, <1>4, <1>5
<1>7. nextTime' \in [BandIds -> Nat] /\ onAir' \in [BandIds -> Nat]
  <2> HIDE DEF k
  <2> QED BY <1>1, <1>3, <1>4, <1>5 DEF KeptOK
<1>8. ASSUME NEW c \in BandIds
      PROVE  onAir'[c] * (Bands[c].inverse - 1) <= nextTime'[c]
  <2>1. CASE c = b
    <3>1. onAir'[c] = onAir[b] + air /\ nextTime'[c] = now + air * k
      BY <2>1, <1>1, <1>3 DEF KeptOK
    <3> QED BY <3>1, <2>1, <1>6
  <2>2. CASE c # b
    <3>1. onAir'[c] = onAir[c] /\ nextTime'[c] = nextTime[c]
      BY <2>2, <1>1, <1>3 DEF KeptOK
    <3> QED BY <3>1 DEF SilenceCovers
  <2> QED BY <2>1, <2>2
<1> QED BY <1>7, <1>8 DEF SilenceCovers

-----------------------------------------------------------------------------
LEMMA InitOK == ChInit => ChInv
<1> SUFFICES ASSUME ChInit PROVE ChInv
  OBVIOUS
<1>1. KeptOK
  <2>1. DefaultChannels \in [DOMAIN DefaultChannels -> Nat]
    BY ChannelsAssumption DEF ChannelsAssumption
  <2> QED BY <2>1 DEF ChInit, KeptOK, NoTx
<1>2. SilenceCovers
  <2>1. ASSUME NEW b \in BandIds PROVE onAir[b] * (Bands[b].inverse - 1) <= nextTime[b]
    <3>1. Bands[b].inverse - 1 \in Nat /\ onAir[b] = 0 /\ nextTime[b] = 0
      BY BandsAreRecords DEF ChInit
    <3> QED BY <3>1
  <2> QED BY <2>1 DEF SilenceCovers
<1> QED BY <1>1, <1>2 DEF ChInit, ChInv, DueWhenFree, PostponedFindsChannel

LEMMA SameQueue ==
  ASSUME DueWhenFree, UNCHANGED <<channels, nextTime, nextTx>>
  PROVE  DueWhenFree'
<1>1. Enabled' = Enabled
  BY DEF Enabled
<1> QED BY <1>1 DEF DueWhenFree

LEMMA CrashOK ==
  ASSUME ChInv, NEW what, Crash(what), what = "null" => nextTx.changed
  PROVE  ChInv'
<1>1. DueWhenFree'
  BY SameQueue DEF ChInv, Crash
<1>2. KeptOK' /\ SilenceCovers'
  BY DEF ChInv, Crash, KeptOK, SilenceCovers
<1> QED BY <1>1, <1>2 DEF ChInv, Crash, PostponedFindsChannel

LEMMA SendToPhyOK ==
  ASSUME ChInv, crash = "none", NEW f \in ChannelsForTx, NEW air \in Nat, SendToPhy(f, air)
  PROVE  ChInv'
<1>1. Covered(f) /\ GetWaitingTime(f) = 0 /\ AddEvent(f, air)
  BY DEF ChannelsForTx, SendToPhy
<1>2. nextTime' \in [BandIds -> Nat] /\ onAir' \in [BandIds -> Nat] /\ SilenceCovers'
  BY <1>1, AddEventPays DEF ChInv
<1>3. KeptOK'
  BY <1>2 DEF ChInv, KeptOK, SendToPhy, NoTx
<1> QED BY <1>2, <1>3 DEF ChInv, SendToPhy, DueWhenFree, PostponedFindsChannel, NoTx

(* What leaves the sub-bands and their times alone keeps the rest of the   *)
(* invariant if it keeps the queue in order.                               *)
LEMMA NoEventOK ==
  ASSUME ChInv, crash' = "none", UNCHANGED <<role, nextTime, onAir>>, KeptOK',
         DueWhenFree', role = "gateway" => nextTx' = NoTx
  PROVE  ChInv'
BY DEF ChInv, SilenceCovers, PostponedFindsChannel

LEMMA ChangedOK ==
  ASSUME ChInv, Changed
  PROVE  /\ nextTx' \in [at : Int, air : Nat, changed : BOOLEAN]
         /\ nextTx = NoTx => nextTx' = NoTx
         /\ nextTx # NoTx => nextTx'.changed
<1> DEFINE wasQueued == nextTx # NoTx
<1>1. nextTx \in [at : Int, air : Nat, changed : BOOLEAN] /\ wasQueued \in BOOLEAN
  BY DEF ChInv, KeptOK
<1>2. nextTx' = [nextTx EXCEPT !.changed = wasQueued]
  BY DEF Changed
<1>3. nextTx' \in [at : Int, air : Nat, changed : BOOLEAN] /\ nextTx'.changed = wasQueued
  <2> HIDE DEF wasQueued
  <2> QED BY <1>1, <1>2
<1>4. ASSUME nextTx = NoTx PROVE nextTx' = NoTx
  BY <1>2, <1>4 DEF NoTx
<1> QED BY <1>3, <1>4

LEMMA SendOK ==
  ASSUME ChInv, NEW air \in Nat, NEW window \in Nat, Send(air, window)
  PROVE  ChInv'
<1>1. crash = "none" /\ role = "device" /\ Enabled # {}
  BY DEF Send, IsDevice
<1>2. CASE \E f \in Enabled : ~ Covered(f) /\ Crash("outside")
  BY <1>2, CrashOK
<1>3. CASE /\ \A f \in Enabled : Covered(f)
           /\ nextTx' = [at |-> DueTime(Delay(window)), air |-> air, changed |-> FALSE]
           /\ UNCHANGED <<role, now, channels, txPower, nextTime, onAir, crash>>
  <2>1. /\ Delay(window) \in Nat
        /\ \E f \in Enabled : nextTime[SubBand(f)] <= now + Delay(window)
    BY <1>1, <1>3, DelayIsEnough DEF ChInv
  <2>2. DueTime(Delay(window)) = now + Delay(window)
    BY DEF DueTime
  <2>3. KeptOK'
    BY <1>3, <2>1, <2>2 DEF ChInv, KeptOK
  <2>4. nextTx'.at = now + Delay(window)
    BY <1>3, <2>2
  <2>5. DueWhenFree'
    <3>1. Enabled' = Enabled /\ \A f : Covered(f)' = Covered(f) /\ SubBand(f)' = SubBand(f)
      BY <1>3 DEF Enabled, Covered, SubBand, BandIds, BelongsToSubBand
    <3> QED BY <1>3, <2>1, <2>4, <3>1 DEF DueWhenFree
  <2> QED BY <1>1, <1>3, <2>3, <2>5, NoEventOK
<1>4. CASE \E f \in ChannelsForTx :
             IF txPower <= Bands[SubBand(f)].maxTxPower
               THEN SendToPhy(f, air) ELSE Crash("power")
  BY <1>1, <1>4, SendToPhyOK, CrashOK
<1> QED BY <1>2, <1>3, <1>4 DEF Send

LEMMA PostponedOK ==
  ASSUME ChInv, Postponed
  PROVE  ChInv'
<1>1. crash = "none" /\ role = "device" /\ nextTx.at = now /\ nextTx.air \in Nat
  BY DEF Postponed, IsDevice, ChInv, KeptOK
<1>2. CASE \E f \in Enabled : ~ Covered(f) /\ Crash("outside")
  BY <1>2, CrashOK
<1>3. CASE ChannelsForTx = {} /\ Crash("null")
  <2>1. nextTx.changed
    <3>1. SUFFICES ASSUME ~ nextTx.changed PROVE FALSE
      OBVIOUS
    <3>2. nextTx # NoTx
      BY <1>1 DEF NoTx, ChInv, KeptOK
    <3>3. PICK f \in Enabled : Covered(f) /\ nextTime[SubBand(f)] <= now
      BY <1>1, <3>1, <3>2 DEF ChInv, DueWhenFree
    <3>4. GetWaitingTime(f) = 0
      BY <3>3, WaitingTime DEF ChInv
    <3> QED BY <1>3, <3>3, <3>4 DEF ChannelsForTx
  <2> QED BY <1>3, <2>1, CrashOK
<1>4. CASE \E f \in ChannelsForTx : SendToPhy(f, nextTx.air)
  BY <1>1, <1>4, SendToPhyOK
<1> QED BY <1>2, <1>3, <1>4 DEF Postponed

LEMMA CancelledOK ==
  ASSUME ChInv, Cancelled
  PROVE  ChInv'
<1>1. KeptOK' /\ DueWhenFree' /\ crash' = "none"
  BY DEF ChInv, KeptOK, Cancelled, IsDevice, DueWhenFree, NoTx
<1> QED BY <1>1, NoEventOK DEF Cancelled

LEMMA OnLinkAdrReqOK ==
  ASSUME ChInv, NEW mask \in SUBSET DOMAIN channels, NEW power \in Powers,
         OnLinkAdrReq(mask, power)
  PROVE  ChInv'
<1>1. crash' = "none" /\ Changed /\ UNCHANGED <<role, now, nextTime, onAir>>
  BY DEF OnLinkAdrReq, IsDevice
<1>2. channels' \in [DOMAIN DefaultChannels -> [frequency : Nat, enabled : BOOLEAN]]
  <2>1. channels \in [DOMAIN DefaultChannels -> [frequency : Nat, enabled : BOOLEAN]]
    BY DEF ChInv, KeptOK
  <2>2. channels' = [i \in DOMAIN channels |-> [channels[i] EXCEPT !.enabled = i \in mask]]
    BY DEF OnLinkAdrReq
  <2>3. ASSUME NEW i \in DOMAIN DefaultChannels
        PROVE  [channels[i] EXCEPT !.enabled = i \in mask] \in [frequency : Nat, enabled : BOOLEAN]
    <3> DEFINE c == channels[i]
               e == i \in mask
    <3>1. c \in [frequency : Nat, enabled : BOOLEAN] /\ e \in BOOLEAN
      BY <2>1
    <3> HIDE DEF c, e
    <3>2. [c EXCEPT !.enabled = e] \in [frequency : Nat, enabled : BOOLEAN]
      BY <3>1
    <3> QED BY <3>2 DEF c, e
  <2> QED BY <2>1, <2>2, <2>3
<1>3. KeptOK' /\ DueWhenFree'
  BY <1>1, <1>2, ChangedOK DEF ChInv, KeptOK, DueWhenFree
<1> QED BY <1>1, <1>3, ChangedOK, NoEventOK DEF ChInv

LEMMA OnNewChannelReqOK ==
  ASSUME ChInv, NEW i \in DOMAIN channels, NEW f \in Nat, OnNewChannelReq(i, f)
  PROVE  ChInv'
<1>1. crash' = "none" /\ Changed /\ UNCHANGED <<role, now, nextTime, onAir>>
  BY DEF OnNewChannelReq, IsDevice
<1>2. channels' \in [DOMAIN DefaultChannels -> [frequency : Nat, enabled : BOOLEAN]]
  <2> DEFINE new == [frequency |-> f, enabled |-> TRUE]
  <2>1. /\ new \in [frequency : Nat, enabled : BOOLEAN]
        /\ channels' = [channels EXCEPT ![i] = new]
    BY DEF OnNewChannelReq
  <2> HIDE DEF new
  <2> QED BY <2>1 DEF ChInv, KeptOK
<1>3. KeptOK' /\ DueWhenFree'
  BY <1>1, <1>2, ChangedOK DEF ChInv, KeptOK, DueWhenFree
<1> QED BY <1>1, <1>3, ChangedOK, NoEventOK DEF ChInv

LEMMA GatewaySendOK ==
  ASSUME ChInv, NEW f, NEW air \in Nat, GatewaySend(f, air)
  PROVE  ChInv'
<1>1. crash = "none" /\ role = "gateway"
  BY DEF GatewaySend, IsGateway
<1>2. CASE Crash("outside")
  BY <1>2, CrashOK
<1>3. CASE /\ Covered(f) /\ GetWaitingTime(f) = 0 /\ AddEvent(f, air)
           /\ UNCHANGED <<role, now, channels, txPower, nextTx, crash>>
  <2>1. nextTime' \in [BandIds -> Nat] /\ onAir' \in [BandIds -> Nat] /\ SilenceCovers'
    BY <1>3, AddEventPays DEF ChInv
  <2>2. KeptOK' /\ nextTx' = NoTx
    BY <1>1, <1>3, <2>1 DEF ChInv, KeptOK
  <2> QED BY <1>1, <1>3, <2>1, <2>2 DEF ChInv, DueWhenFree, PostponedFindsChannel
<1> QED BY <1>2, <1>3 DEF GatewaySend

LEMMA TickOK ==
  ASSUME ChInv, Tick
  PROVE  ChInv'
<1>1. KeptOK' /\ crash' = "none"
  BY DEF ChInv, KeptOK, Tick
<1>2. DueWhenFree'
  BY SameQueue DEF ChInv, Tick
<1> QED BY <1>1, <1>2, NoEventOK DEF ChInv, Tick

LEMMA StepOK == ChInv /\ [ChNext]_chVars => ChInv'
<1> SUFFICES ASSUME ChInv, [ChNext]_chVars PROVE ChInv'
  OBVIOUS
<1>1. /\ AirTimes \subseteq Nat /\ WindowDelays \subseteq Nat /\ NewFrequencies \subseteq Nat
  BY ChannelsAssumption DEF ChannelsAssumption
<1>2. ASSUME NEW air \in AirTimes, NEW window \in WindowDelays, Send(air, window)
      PROVE  ChInv'
  BY <1>1, <1>2, SendOK
<1>3. CASE Postponed
  BY <1>3, PostponedOK
<1>4. CASE Cancelled
  BY <1>4, CancelledOK
<1>5. ASSUME NEW mask \in (SUBSET DOMAIN channels) \ {{}}, NEW power \in Powers,
             OnLinkAdrReq(mask, power)
      PROVE  ChInv'
  BY <1>5, OnLinkAdrReqOK
<1>6. ASSUME NEW i \in DOMAIN channels, NEW f \in NewFrequencies, OnNewChannelReq(i, f)
      PROVE  ChInv'
  BY <1>1, <1>6, OnNewChannelReqOK
<1>7. ASSUME NEW f \in Frequencies, NEW air \in AirTimes, GatewaySend(f, air)
      PROVE  ChInv'
  BY <1>1, <1>7, GatewaySendOK
<1>8. CASE Tick
  BY <1>8, TickOK
<1>9. CASE UNCHANGED chVars
  <2>1. DueWhenFree'
    BY <1>9, SameQueue DEF chVars, ChInv
  <2> QED BY <1>9, <2>1 DEF chVars, ChInv, KeptOK, SilenceCovers, PostponedFindsChannel
<1> QED BY <1>2, <1>3, <1>4, <1>5, <1>6, <1>7, <1>8, <1>9 DEF ChNext

LEMMA Invariance == ChSpec => []ChInv
BY InitOK, StepOK, PTL DEF ChSpec

(* A transmission begins when its sub-band is free, and by then all that   *)
(* was sent there before is paid for.                                      *)
LEMMA StartIsPaid ==
  ASSUME ChInv, NEW f, Covered(f), GetWaitingTime(f) = 0, NEW air \in Nat, AddEvent(f, air),
         NEW b \in BandIds, onAir'[b] # onAir[b]
  PROVE  onAir[b] * (Bands[b].inverse - 1) <= now
<1>1. SubBand(f) \in BandIds
  BY SubBandOf
<1>2. b = SubBand(f)
  BY <1>1 DEF AddEvent, ChInv, KeptOK
<1>3. nextTime[b] \in Nat /\ now \in Nat /\ nextTime[b] <= now
  BY <1>1, <1>2 DEF ChInv, KeptOK, GetWaitingTime
<1>4. onAir[b] * (Bands[b].inverse - 1) <= nextTime[b]
  BY DEF ChInv, SilenceCovers
<1>5. onAir[b] * (Bands[b].inverse - 1) \in Nat
  <2>1. onAir[b] \in Nat /\ Bands[b].inverse - 1 \in Nat
    BY BandsAreRecords DEF ChInv, KeptOK
  <2> QED BY <2>1
<1> QED BY <1>3, <1>4, <1>5

LEMMA StepIsPaid ==
  ASSUME ChInv, [ChNext]_chVars, NEW b \in BandIds, onAir'[b] # onAir[b]
  PROVE  onAir[b] * (Bands[b].inverse - 1) <= now
<1>1. AirTimes \subseteq Nat /\ (nextTx.air \in Nat)
  BY ChannelsAssumption DEF ChannelsAssumption, ChInv, KeptOK
<1>2. ASSUME NEW f \in ChannelsForTx, NEW air \in Nat, SendToPhy(f, air)
      PROVE  onAir[b] * (Bands[b].inverse - 1) <= now
  BY <1>2, StartIsPaid DEF ChannelsForTx, SendToPhy
<1>3. ASSUME NEW air \in AirTimes, NEW window \in WindowDelays, Send(air, window)
      PROVE  onAir[b] * (Bands[b].inverse - 1) <= now
  <2>1. \E f \in ChannelsForTx : SendToPhy(f, air)
    BY <1>3 DEF Send, Crash
  <2> QED BY <2>1, <1>1, <1>2
<1>4. ASSUME Postponed
      PROVE  onAir[b] * (Bands[b].inverse - 1) <= now
  <2>1. \E f \in ChannelsForTx : SendToPhy(f, nextTx.air)
    BY <1>4 DEF Postponed, Crash
  <2> QED BY <2>1, <1>1, <1>2
<1>5. ASSUME NEW f \in Frequencies, NEW air \in AirTimes, GatewaySend(f, air)
      PROVE  onAir[b] * (Bands[b].inverse - 1) <= now
  <2>1. Covered(f) /\ GetWaitingTime(f) = 0 /\ AddEvent(f, air)
    BY <1>5 DEF GatewaySend, Crash
  <2> QED BY <2>1, <1>1, StartIsPaid
<1> QED
  BY <1>3, <1>4, <1>5
  DEF ChNext, chVars, Cancelled, OnLinkAdrReq, OnNewChannelReq, Tick

(* Whatever it sends and however its channels change, a device or gateway  *)
(* that begins to transmit in a sub-band has let pass, since the start,    *)
(* inverse - 1 units of time for each unit it was on the air there before  *)
(* (AddEvent, GetWaitingTime): a share of 1/(inverse - 1).                 *)
THEOREM ShareOfTheAir == ChSpec => SentIsPaidFor
<1>1. ChInv /\ [ChNext]_chVars =>
        [\A b \in BandIds :
           onAir'[b] # onAir[b] => onAir[b] * (Bands[b].inverse - 1) <= now]_chVars
  BY StepIsPaid
<1> QED BY <1>1, Invariance, PTL DEF ChSpec, SentIsPaidFor

(* A packet that waits for its channels finds one that is free when the    *)
(* wait is over (DoSend), unless a command changed the channels meanwhile. *)
THEOREM WaitIsLongEnough == ChSpec => []PostponedFindsChannel
<1>1. ChInv => PostponedFindsChannel
  BY DEF ChInv
<1> QED BY <1>1, Invariance, PTL
=============================================================================
