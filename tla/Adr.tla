--------------------------------- MODULE Adr ---------------------------------
(***************************************************************************)
(* The adaptive data rate: the controller component of the network server  *)
(* that chooses a device's spreading factor and power from the packets it  *)
(* received (AdrComponent), in a loop with the device that takes the       *)
(* LinkAdrReq (EndDeviceLorawanMac) and the gateways that hear it.         *)
(*                                                                         *)
(* The device sets the ADR bit in its unconfirmed uplinks and stays where  *)
(* it is: a gateway receives it with a fixed gain.  Signal-to-noise ratios *)
(* and powers are in tenths of dB.  Only the packets the component looks   *)
(* at, the last HistoryRange, are kept.                                    *)
(***************************************************************************)
EXTENDS Integers, FiniteSets, Sequences, Functions, FiniteSetsExt

CONSTANTS
  Gateways,
  Gains,           \* SNR a gateway may have of a transmission at 0 dBm
  HistoryRange,    \* historyRange
  Combinings,      \* the methods tpAveraging and historyAveraging may be
  ToggleTxPower,   \* m_toggleTxPower
  Scale            \* a multiple of every number of gateways

Methods == {"AVERAGE", "MAXIMUM", "MINIMUM"}

(* The checker of the attribute allows a HistoryRange of 0, with which the *)
(* component divides by zero.                                              *)
ASSUME AdrAssumption ==
  /\ IsFiniteSet(Gateways) /\ Gains \subseteq Int
  /\ HistoryRange \in 1 .. 100
  /\ Combinings \subseteq [tp : Methods, history : Methods]
  /\ ToggleTxPower \in BOOLEAN
  /\ Scale \in Nat \ {0}
  /\ \A n \in 1 .. Cardinality(Gateways) : Scale = n * (Scale \div n)

VARIABLES
  sf, power,       \* the device's m_dataRate as spreading factor, m_txPower
  gain,            \* gain[g]: SNR of g at 0 dBm
  combining,       \* tpAveraging and historyAveraging
  known,           \* m_firstReceiveWindowSpreadingFactor
  history,         \* the SNRs of the last packets, by gateway
  window,          \* a receive window opportunity is pending
  request          \* the LinkAdrReq on its way to the device

adrVars == <<sf, power, gain, combining, known, history, window, request>>

SpreadingFactors == 7 .. 12
NoRequest == [dr |-> -1, txPower |-> -1]

-----------------------------------------------------------------------------
(* The radios: treshold[], the SNR a spreading factor requires, and the    *)
(* sensitivity of the gateways, -130 dBm for SF7, above a noise of -117.03 *)
(* dBm.                                                                    *)
Required(s)  == -75 - 25 * (s - 7)
Sensitive(s) == -129 - 25 * (s - 7)

Snr(g) == gain[g] + 10 * power
Heard  == {g \in Gateways : Snr(g) >= Sensitive(sf)}

(* A uplink that some gateway hears: the server keeps its spreading factor *)
(* and what each gateway measured, and opens a receive window.             *)
LastOnes(h) == SubSeq(h, Len(h) - HistoryRange + 1, Len(h))

Uplink ==
  /\ ~ window /\ request = NoRequest
  /\ Heard # {}
  /\ known' = sf
  /\ LET longer == Append(history, [g \in Heard |-> Snr(g)])
     IN  history' = IF Len(longer) > HistoryRange THEN LastOnes(longer) ELSE longer
  /\ window' = TRUE
  /\ UNCHANGED <<sf, power, gain, combining, request>>

-----------------------------------------------------------------------------
(* The algorithm.  Averages are kept exact: the SNR of a packet is scaled  *)
(* by Scale, which every number of gateways divides, and that of the       *)
(* history by HistoryRange, too.                                           *)

(* GetReceivedPower, of the gateways, and RxPowerToSNR.                    *)
PacketSnr(p) ==
  CASE combining.tp = "AVERAGE" -> SumFunction(p) * (Scale \div Cardinality(DOMAIN p))
    [] combining.tp = "MAXIMUM" -> Scale * Max(Range(p))
    [] combining.tp = "MINIMUM" -> Scale * Min(Range(p))

(* GetAverageSNR, GetMaxSNR and GetMinSNR.                                 *)
HistorySnr ==
  LET snrs == [i \in DOMAIN history |-> PacketSnr(history[i])]
  IN  CASE combining.history = "AVERAGE" -> SumFunction(snrs)
        [] combining.history = "MAXIMUM" -> HistoryRange * Max(Range(snrs))
        [] combining.history = "MINIMUM" -> HistoryRange * Min(Range(snrs))

Unit  == HistoryRange * Scale
Steps == (HistorySnr - Unit * Required(known)) \div (30 * Unit)

HalfUp(n) == IF n > 0 THEN (n + 1) \div 2 ELSE 0

(* The steps that remain after the spreading factor went down to 7 lower   *)
(* the power, 2 dB each; missing steps raise it.                           *)
NewSF == IF Steps > 0 THEN known - Min({Steps, known - 7}) ELSE known

(* Mutants: the steps are used twice; the power never goes up. *)
StepsUsedTwice ==
  IF Steps > 0 THEN power - 2 * Min({Steps, HalfUp(power - 2)})
               ELSE power + 2 * Min({- Steps, HalfUp(14 - power)})
NeverUp ==
  IF Steps > 0 THEN power - 2 * Min({Steps - (known - NewSF), HalfUp(power - 2)}) ELSE power

NewPower ==
  IF Steps > 0 THEN power - 2 * Min({Steps - (known - NewSF), HalfUp(power - 2)})
               ELSE power + 2 * Min({- Steps, HalfUp(14 - power)})

SfToDr(s) == 12 - s

GetTxPowerIndex(p) == Min({i \in 0 .. 7 : p >= 16 - 2 * i \/ i = 7})

(* Mutant: the data rate is compared with the spreading factor. *)
MixesRateAndSF(newPower) == SfToDr(NewSF) # known \/ newPower # power

Differs(newPower) == NewSF # known \/ newPower # power

(* BeforeSendingReply: a request is sent only if it changes something.     *)
BeforeSendingReply ==
  /\ window
  /\ window' = FALSE
  /\ LET newPower == IF ToggleTxPower THEN NewPower ELSE power
     IN  request' = IF Len(history) = HistoryRange /\ Differs(newPower)
                      THEN [dr |-> SfToDr(NewSF), txPower |-> GetTxPowerIndex(newPower)]
                      ELSE NoRequest
  /\ UNCHANGED <<sf, power, gain, combining, known, history>>

(* No gateway could transmit in either window.                             *)
NoGateway ==
  /\ window
  /\ window' = FALSE
  /\ UNCHANGED <<sf, power, gain, combining, known, history, request>>

-----------------------------------------------------------------------------
(* The device.  GetSfFromDataRate and GetDbmForTxPower return 0 for what   *)
(* is beyond the tables of the region (at the first index beyond them the  *)
(* second throws: no request has that index); the three channels of the    *)
(* request are those every device has, and allow data rates 0 to 5.        *)
GetSfFromDataRate(dr) == IF dr \in 0 .. 5 THEN 12 - dr ELSE IF dr = 6 THEN 7 ELSE 0
GetDbmForTxPower(i)   == IF i \in 0 .. 7 THEN 16 - 2 * i ELSE 0

Accepts(r) == r.dr \in 0 .. 5 /\ GetDbmForTxPower(r.txPower) # 0

OnLinkAdrReq ==
  /\ request # NoRequest
  /\ IF Accepts(request)
       THEN /\ sf' = GetSfFromDataRate(request.dr)
            /\ power' = GetDbmForTxPower(request.txPower)
       ELSE UNCHANGED <<sf, power>>
  /\ request' = NoRequest
  /\ UNCHANGED <<gain, combining, known, history, window>>

(* The request does not reach the device.                                  *)
RequestLost ==
  /\ request # NoRequest
  /\ request' = NoRequest
  /\ UNCHANGED <<sf, power, gain, combining, known, history, window>>

AdrInit ==
  /\ sf \in SpreadingFactors
  /\ power = 14
  /\ gain \in [Gateways -> Gains]
  /\ combining \in Combinings
  /\ Heard # {}
  /\ known = 0
  /\ history = <<>>
  /\ window = FALSE
  /\ request = NoRequest

AdrNext == Uplink \/ BeforeSendingReply \/ NoGateway \/ OnLinkAdrReq \/ RequestLost

AdrSpec == AdrInit /\ [][AdrNext]_adrVars

(* The application goes on sending, and neither the gateways nor the radio *)
(* of the device let every reply down.                                     *)
AdrFairSpec == AdrSpec /\ WF_adrVars(Uplink) /\ SF_adrVars(BeforeSendingReply)
                       /\ SF_adrVars(OnLinkAdrReq)
-----------------------------------------------------------------------------
(* Types of the variables.                                                 *)
AdrTypeOK ==
  /\ sf \in SpreadingFactors
  /\ power \in {2 * i : i \in 1 .. 7}
  /\ gain \in [Gateways -> Gains]
  /\ combining \in Combinings
  /\ known \in SpreadingFactors \cup {0}
  /\ \A i \in DOMAIN history : DOMAIN history[i] \in (SUBSET Gateways) \ {{}}
  /\ Len(history) <= HistoryRange
  /\ window \in BOOLEAN
  /\ request \in [dr : 0 .. 5, txPower : 1 .. 7] \cup {NoRequest}

(* The component does not drive a device out of the reach of all gateways, *)
(* although the packets it combines were sent at higher power than the     *)
(* last one: nothing would bring the device back.  That needs the default  *)
(* history: by its maximum, or by the average of eight packets and more,   *)
(* the component steps down again for a margin it has already used up.     *)
StaysReachable == combining.history # "MAXIMUM" => Heard # {}

(* A request that arrives changes the device: the component computes it    *)
(* from the spreading factor and power the device uses, and the device     *)
(* finds in its tables what the component meant.                           *)
RequestsMatter ==
  [][OnLinkAdrReq => <<sf, power>>' # <<sf, power>>]_adrVars

(* The loop settles: the requests end, with a setting the packets justify, *)
(* or with full power.                                                     *)
Settles ==
  <>[](/\ request = NoRequest
       /\ power = 14 \/ HistorySnr >= Unit * Required(sf))
=============================================================================
