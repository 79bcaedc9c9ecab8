------------------------------ MODULE ClassAMac ------------------------------
(***************************************************************************)
(* The MAC of a Class A end device (ClassAEndDeviceLorawanMac over         *)
(* EndDeviceLorawanMac) on top of its radio.  Each simulator event handler *)
(* and each call of the application is one action.                         *)
(*                                                                         *)
(* The MAC sends a packet at once if the duty cycle and the receive        *)
(* windows allow it, and schedules it (m_nextTx) otherwise.  After a       *)
(* transmission it opens two receive windows; a confirmed packet that is   *)
(* not acknowledged is sent again, up to MaxTx transmissions, and its      *)
(* outcome is reported through m_requiredTxCallback.                       *)
(*                                                                         *)
(* MAC commands other than an accepted LinkAdrReq, header fields other     *)
(* than the frame counter and the transmission power are left out.         *)
(***************************************************************************)
EXTENDS EndDevicePhy, FiniteSets

CONSTANTS
  NumPackets,      \* the application sends packets 1..NumPackets, in order
  MaxTx,           \* m_maxNumbTx
  MTypes,          \* the message types the application selects
  MaxDR,           \* data rates are 0..MaxDR
  DRAdapt,         \* m_enableDRAdapt
  TooBig,          \* TooBig[dr]: the packets above the limit of data rate dr
  TimeOnAir,       \* TimeOnAir[dr]: ticks a transmission lasts
  OffTime,         \* OffTime[dr]: wait the duty cycle imposes, from its start
  Channels,        \* the uplink channels, each in a sub-band of its own
  AdrReqs,         \* the LinkAdrReq commands the device accepts: [mask, dr]
  ReceiveDelay1,   \* m_receiveDelay1
  ReceiveDelay2,   \* m_receiveDelay2
  Rx1Len,          \* length of the first receive window
  Rx2Len,          \* length of the second receive window
  AckTimeouts,     \* the values ACK_TIMEOUT is drawn from (1 s to 3 s)
  MaxAckTimeout,   \* bound of AckTimeouts
  HeardFrames      \* the frames that may reach the radio

Packets   == 1 .. NumPackets
NoPkt     == 0
DataRates == 0 .. MaxDR
NoAdr     == [mask |-> {}, dr |-> 0]

(* A received frame: whether it is a downlink to this device, a downlink   *)
(* to another one or an uplink; the packet it acknowledges; its LinkAdrReq *)
ToUs(p, adr) == [kind |-> "toUs", ack |-> p, adr |-> adr]
Foreign(k)   == [kind |-> k, ack |-> NoPkt, adr |-> NoAdr]
Frames == {ToUs(p, adr) : p \in Packets \cup {NoPkt}, adr \in AdrReqs \cup {NoAdr}}
            \cup {Foreign(k) : k \in {"toOther", "uplink"}}

ASSUME MacAssumption ==
  /\ NumPackets \in Nat /\ MaxTx \in Nat \ {0} /\ MaxTx < 256 /\ MaxDR \in Nat
  /\ MTypes \subseteq {"CONFIRMED", "UNCONFIRMED"} /\ MTypes # {}
  /\ DRAdapt \in BOOLEAN
  /\ TooBig \in [DataRates -> SUBSET Packets]
  /\ TimeOnAir \in [DataRates -> Nat \ {0}]
  /\ OffTime \in [DataRates -> Nat]
  /\ Channels # {}
  /\ AdrReqs \subseteq [mask : (SUBSET Channels) \ {{}}, dr : DataRates]
  /\ ReceiveDelay1 \in Nat \ {0} /\ ReceiveDelay2 \in Nat \ {0}
  /\ Rx1Len \in Nat \ {0} /\ Rx2Len \in Nat \ {0}
  /\ MaxAckTimeout \in Nat
  /\ AckTimeouts \subseteq 1 .. MaxAckTimeout /\ AckTimeouts # {}
  /\ HeardFrames \subseteq Frames

VARIABLES
  waitingAck,    \* m_retxParams.waitingAck
  retxLeft,      \* m_retxParams.retxLeft, a uint8_t
  retxPkt,       \* m_retxParams.packet
  hdrFCnt,       \* the frame counter in the header of m_retxParams.packet
  nextTx,        \* m_nextTx: the pending DoSend, a set of at most one record
  rx2In,         \* m_secondReceiveWindow.GetTs () - now
  mType,         \* m_mType
  fCnt,          \* m_currentFCnt, a uint16_t
  dataRate,      \* m_dataRate
  enabled,       \* the channels enabled for uplink
  dutyLeft,      \* dutyLeft[c]: ticks until the sub-band of c is free
  appSent,       \* number of packets the application has handed over
  begun,         \* the packets traced by m_sentNewPacket
  onAir,         \* onAir[p]: transmissions of p traced by m_startSending
  acked, failed  \* reports of m_requiredTxCallback for p, by outcome

phyVars  == <<phy, timers, receiving, crash>>
retxVars == <<waitingAck, retxLeft, retxPkt, hdrFCnt>>
linkVars == <<mType, dataRate, enabled, dutyLeft>>
trace    == <<begun, onAir, acked, failed>>
vars == <<phyVars, retxVars, nextTx, rx2In, linkVars, fCnt, appSent, trace>>

Init ==
  /\ PhyInit
  /\ waitingAck = FALSE /\ retxLeft = MaxTx /\ retxPkt = NoPkt /\ hdrFCnt = 0
  /\ nextTx = {}
  /\ rx2In = 0
  /\ mType \in MTypes
  /\ fCnt = 0
  /\ dataRate = MaxDR
  /\ enabled = Channels
  /\ dutyLeft = [c \in Channels |-> 0]
  /\ appSent = 0
  /\ begun = {}
  /\ onAir  = [p \in Packets |-> 0]
  /\ acked  = [p \in Packets |-> 0]
  /\ failed = [p \in Packets |-> 0]

(* An assertion or abort of the code: the program ends in the middle of    *)
(* the handler; the other variables keep the values they had before it.    *)
Crash(what) ==
  /\ crash' = what
  /\ UNCHANGED <<phy, timers, receiving, retxVars, nextTx, rx2In, linkVars,
                 fCnt, appSent, trace>>

-----------------------------------------------------------------------------
(* Sending.  ts and q are the timers and the pending DoSend at the point   *)
(* of the call, st the state of the radio: the handler that calls Send may *)
(* have changed them already.                                              *)

(* Mutant: no clamp. *)
NoClamp(a, b) == a
Larger(a, b) == IF a > b THEN a ELSE b

(* GetNextTransmissionDelay and GetNextClassTransmissionDelay.             *)
DutyWaits ==
  {dutyLeft[c] : c \in {b \in enabled : \A a \in enabled : dutyLeft[b] <= dutyLeft[a]}}

WindowsPending(ts) ==
  \E t \in ts : t.kind \in {"closeRx1", "closeRx2", "openRx2"}

WaitingTimes(ts) ==
  IF waitingAck
    THEN {Larger(w, rx2In + u) : w \in DutyWaits, u \in AckTimeouts}
    ELSE {IF WindowsPending(ts) THEN Larger(w, rx2In + Rx2Len) ELSE w : w \in DutyWaits}

(* The channels GetChannelForTx may return: the list is shuffled.          *)
FreeChannels == {c \in enabled : dutyLeft[c] = 0}

AdaptedDR(left) ==
  IF DRAdapt /\ dataRate > 0 /\ left < MaxTx /\ left % 2 = 0
    THEN dataRate - 1 ELSE dataRate

(* Mutant: the transmission is not registered for the duty cycle. *)
SendUncharged(p, left, ts, st) ==
  /\ dataRate' = AdaptedDR(left)
  /\ timers' = SendTimers(ts, st, TimeOnAir[dataRate'])
  /\ phy' = SendState(st)
  /\ onAir' = [onAir EXCEPT ![p] = IF CanSend(st) THEN @ + 1 ELSE @]
  /\ UNCHANGED <<crash, dutyLeft>>

(* SendToPhy: the duty cycle is charged whether or not the radio accepts.  *)
SendToPhy(p, left, ts, st) ==
  /\ dataRate' = AdaptedDR(left)
  /\ timers' = SendTimers(ts, st, TimeOnAir[dataRate'])
  /\ phy' = SendState(st)
  /\ onAir' = [onAir EXCEPT ![p] = IF CanSend(st) THEN @ + 1 ELSE @]
  /\ \E c \in FreeChannels :
       dutyLeft' = [dutyLeft EXCEPT ![c] = OffTime[dataRate']]
  /\ UNCHANGED crash

(* Mutant: m_nextTx is not cancelled. *)
ResetKeepsQueue ==
  /\ waitingAck' = FALSE
  /\ retxLeft' = MaxTx
  /\ retxPkt' = NoPkt
  /\ UNCHANGED <<hdrFCnt, nextTx>>

(* resetRetransmissionParameters, which also cancels m_nextTx.             *)
Reset ==
  /\ waitingAck' = FALSE
  /\ retxLeft' = MaxTx
  /\ retxPkt' = NoPkt
  /\ nextTx' = {}
  /\ UNCHANGED hdrFCnt

(* DoSend of a packet above the size limit: it is dropped, but only after  *)
(* the frame counter moved.                                                *)
DoSendTooBig(p, q, ts, st) ==
  /\ p \in TooBig[dataRate]
  /\ fCnt' = (fCnt + 1) % 65536
  /\ timers' = ts /\ phy' = st /\ nextTx' = q
  /\ UNCHANGED <<crash, retxVars, dataRate, dutyLeft, trace>>

(* Mutant: nothing is reported for the packet that is superseded. *)
DoSendNewSilent(p, ts, st) ==
  /\ p \notin TooBig[dataRate]
  /\ fCnt' = (fCnt + 1) % 65536
  /\ begun' = begun \cup {p}
  /\ IF mType = "CONFIRMED"
       THEN /\ waitingAck' = TRUE
            /\ retxPkt' = p
            /\ retxLeft' = MaxTx - 1
            /\ hdrFCnt' = fCnt'
            /\ nextTx' = {}
       ELSE Reset
  /\ SendToPhy(p, retxLeft', ts, st)
  /\ UNCHANGED <<acked, failed>>

(* DoSend of a new packet supersedes the one waiting for an ACK, if any.   *)
DoSendNew(p, ts, st) ==
  /\ p \notin TooBig[dataRate]
  /\ fCnt' = (fCnt + 1) % 65536
  /\ failed' = IF waitingAck THEN [failed EXCEPT ![retxPkt] = @ + 1] ELSE failed
  /\ begun' = begun \cup {p}
  /\ IF mType = "CONFIRMED"
       THEN /\ waitingAck' = TRUE
            /\ retxPkt' = p
            /\ retxLeft' = MaxTx - 1
            /\ hdrFCnt' = fCnt'
            /\ nextTx' = {}
       ELSE Reset
  /\ SendToPhy(p, retxLeft', ts, st)
  /\ UNCHANGED acked

(* Mutants: a retransmission that is not counted, one that draws a new     *)
(* frame counter.                                                          *)
AgainUncounted(p, q, ts, st) ==
  /\ hdrFCnt' = fCnt
  /\ nextTx' = q
  /\ SendToPhy(p, retxLeft, ts, st)
  /\ UNCHANGED <<waitingAck, retxPkt, retxLeft, fCnt, begun, acked, failed>>

AgainNewFCnt(p, q, ts, st) ==
  /\ fCnt' = (fCnt + 1) % 65536
  /\ hdrFCnt' = fCnt'
  /\ retxLeft' = (retxLeft - 1) % 256
  /\ nextTx' = q
  /\ SendToPhy(p, retxLeft', ts, st)
  /\ UNCHANGED <<waitingAck, retxPkt, begun, acked, failed>>

(* DoSend of m_retxParams.packet: its frame header is built anew.  That    *)
(* packet is null unless waitingAck (RetxMatchesQueue).                    *)
DoSendAgain(p, q, ts, st) ==
  /\ hdrFCnt' = fCnt
  /\ retxLeft' = (retxLeft - 1) % 256
  /\ nextTx' = q
  /\ SendToPhy(p, retxLeft', ts, st)
  /\ UNCHANGED <<waitingAck, retxPkt, fCnt, begun, acked, failed>>

(* The packet is new unless it is the very object m_retxParams.packet      *)
(* points to, a copy of the one the application sent.                      *)
DoSend(p, isCopy, q, ts, st) ==
  IF isCopy /\ p = retxPkt
    THEN DoSendAgain(p, q, ts, st)
    ELSE DoSendTooBig(p, q, ts, st) \/ DoSendNew(p, ts, st)

(* SendToPhy dereferences the channel it gets.                             *)
NoChannel(p, isCopy) ==
  /\ FreeChannels = {}
  /\ (isCopy /\ p = retxPkt) \/ p \notin TooBig[dataRate]

Postpone(p, isCopy, delay, ts, st) ==
  /\ nextTx' = {[left |-> delay, pkt |-> p, copy |-> isCopy,
                 late |-> \E t \in ts : t.kind = "closeRx2"]}
  /\ timers' = ts /\ phy' = st
  /\ UNCHANGED <<crash, retxVars, dataRate, dutyLeft, fCnt, trace>>

(* Send.  With no wait but no transmission left, the packet is dropped.    *)
SendNow(p, isCopy, ts, st) ==
  \/ retxLeft > 0 /\ DoSend(p, isCopy, nextTx, ts, st)
  \/ /\ retxLeft = 0
     /\ timers' = ts /\ phy' = st
     /\ UNCHANGED <<crash, retxVars, nextTx, dataRate, dutyLeft, fCnt, trace>>

Send(p, isCopy, ts, st) ==
  \E delay \in WaitingTimes(ts) :
    IF delay = 0 THEN SendNow(p, isCopy, ts, st)
                 ELSE Postpone(p, isCopy, delay, ts, st)

AppSend ==
  /\ appSent < NumPackets
  /\ appSent' = appSent + 1
  /\ Send(appSent', FALSE, timers, phy)
  /\ UNCHANGED <<receiving, rx2In, mType, enabled>>

SetMType(m) ==
  /\ mType # m
  /\ mType' = m
  /\ UNCHANGED <<phyVars, retxVars, nextTx, rx2In, dataRate, enabled, dutyLeft,
                 fCnt, appSent, trace>>

(* The scheduled DoSend.  Events due at the same time run in the order     *)
(* they were scheduled in: "late" says that CloseSecondReceiveWindow,      *)
(* which ends at the time a new packet is postponed to, comes first.       *)
RunNextTx ==
  \E n \in nextTx :
    /\ n.left = 0
    /\ ~ (n.late /\ DueNow("closeRx2"))
    /\ \/ /\ NoChannel(n.pkt, n.copy)
          /\ Crash("noChannel")
       \/ /\ DoSend(n.pkt, n.copy, {}, timers, phy)
          /\ UNCHANGED <<receiving, rx2In, mType, enabled, appSent>>

-----------------------------------------------------------------------------
(* Mutants: giving up without resetting the parameters; giving up without  *)
(* a word.                                                                 *)
GiveUpNoReset(ts, st) ==
  /\ failed' = [failed EXCEPT ![retxPkt] = @ + 1]
  /\ timers' = ts /\ phy' = st
  /\ UNCHANGED <<crash, retxVars, nextTx, dataRate, dutyLeft, fCnt, begun, onAir, acked>>

NoGiveUp(ts, st) ==
  /\ timers' = ts /\ phy' = st
  /\ UNCHANGED <<crash, retxVars, nextTx, dataRate, dutyLeft, fCnt, trace>>

(* The packet waiting for an ACK has used all its transmissions.           *)
GiveUp(ts, st) ==
  /\ failed' = [failed EXCEPT ![retxPkt] = @ + 1]
  /\ Reset
  /\ timers' = ts /\ phy' = st
  /\ UNCHANGED <<crash, dataRate, dutyLeft, fCnt, begun, onAir, acked>>

(* What every handler does that finds no ACK came.                         *)
Retry(ts, st) ==
  IF retxLeft > 0 THEN Send(retxPkt, TRUE, ts, st) ELSE GiveUp(ts, st)

(* TxFinished.  The handle of an older second window is overwritten.       *)
TxFinished ==
  /\ DueNow("txFinished")
  /\ IF SleepOk(phy)
       THEN /\ timers' = {IF t.kind = "openRx2" THEN Timer("orphanRx2", t.left) ELSE t :
                            t \in Fired("txFinished")}
                         \cup {Timer("openRx1", ReceiveDelay1),
                               Timer("openRx2", ReceiveDelay2)}
            /\ rx2In' = ReceiveDelay2
            /\ phy' = "SLEEP"
            /\ UNCHANGED <<receiving, crash, retxVars, nextTx, linkVars, fCnt,
                           appSent, trace>>
       ELSE Crash("sleepAfterTx")

OpenFirstReceiveWindow ==
  /\ DueNow("openRx1")
  /\ phy' = "STANDBY"
  /\ timers' = Fired("openRx1") \cup {Timer("closeRx1", Rx1Len)}
  /\ UNCHANGED <<receiving, crash>>

CloseFirstReceiveWindow ==
  /\ DueNow("closeRx1")
  /\ phy # "TX"
  /\ phy' = IF phy = "STANDBY" THEN "SLEEP" ELSE phy
  /\ timers' = Fired("closeRx1")
  /\ UNCHANGED <<receiving, crash>>

(* NS_ABORT_MSG ("PHY was in TX mode when attempting to close ...")        *)
CloseFirstAborts == DueNow("closeRx1") /\ phy = "TX" /\ Crash("closeInTx")

(* Mutant: the second window opens in the middle of a reception. *)
OpenSecondInRx(k) ==
  /\ DueNow(k)
  /\ phy' = "STANDBY"
  /\ timers' = Fired(k) \cup {Timer("closeRx2", Rx2Len)}
  /\ UNCHANGED <<receiving, crash>>

OpenSecondReceiveWindow(k) ==
  /\ DueNow(k)
  /\ IF phy = "RX"
       THEN phy' = phy /\ timers' = Fired(k)
       ELSE phy' = "STANDBY" /\ timers' = Fired(k) \cup {Timer("closeRx2", Rx2Len)}
  /\ UNCHANGED <<receiving, crash>>

(* The handlers above leave the state of the MAC alone.                    *)
WindowHandler ==
  /\ \/ TxStandby
     \/ OpenFirstReceiveWindow
     \/ CloseFirstReceiveWindow
     \/ \E k \in {"openRx2", "orphanRx2"} : OpenSecondReceiveWindow(k)
  /\ UNCHANGED <<retxVars, nextTx, rx2In, linkVars, fCnt, appSent, trace>>

CloseSecondReceiveWindow ==
  LET ts == Fired("closeRx2")
      st == IF phy = "STANDBY" THEN "SLEEP" ELSE phy
  IN  /\ DueNow("closeRx2")
      /\ \A n \in nextTx : n.left = 0 => n.late
      /\ UNCHANGED <<receiving, rx2In, mType, enabled, appSent>>
      /\ \/ /\ phy = "RX"
            /\ timers' = ts
            /\ UNCHANGED <<phy, crash, retxVars, nextTx, dataRate, dutyLeft,
                           fCnt, trace>>
         \/ phy # "RX" /\ waitingAck /\ Retry(ts, st)
         \/ /\ phy # "RX" /\ ~ waitingAck
            /\ Reset
            /\ timers' = ts /\ phy' = st
            /\ UNCHANGED <<crash, dataRate, dutyLeft, fCnt, trace>>

-----------------------------------------------------------------------------
(* Receiving.  In every handler below EndReceive has switched the radio to *)
(* STANDBY.                                                                *)

SecondWindowExpired == ~ Pending("openRx2")

(* A downlink for this device: the second window is cancelled, an ACK ends *)
(* the retransmissions, a LinkAdrReq sets the channels and the data rate.  *)
(* Whichever packet the ACK answers, it counts for the one that waits.     *)
ReceiveToUs(f) ==
  /\ timers' = {t \in timers : t.kind # "openRx2"}
  /\ IF waitingAck /\ f.ack # NoPkt
       THEN acked' = [acked EXCEPT ![retxPkt] = @ + 1] /\ Reset
       ELSE UNCHANGED <<acked, retxVars, nextTx>>
  /\ IF f.adr # NoAdr
       THEN enabled' = f.adr.mask /\ dataRate' = f.adr.dr
       ELSE UNCHANGED <<enabled, dataRate>>
  /\ phy' = "SLEEP"
  /\ UNCHANGED <<crash, dutyLeft, fCnt, begun, onAir, failed>>

(* Any other frame.  The retransmission is attempted before the switch to  *)
(* SLEEP, whose assertion fails if the packet has just left.               *)
ReceiveForeign ==
  /\ UNCHANGED enabled
  /\ \/ /\ ~ (waitingAck /\ SecondWindowExpired)
        /\ phy' = "SLEEP"
        /\ UNCHANGED <<timers, crash, retxVars, nextTx, dataRate, dutyLeft,
                       fCnt, trace>>
     \/ /\ waitingAck /\ SecondWindowExpired
        /\ Retry(timers, "SLEEP")

(* FailedReception: the switch to SLEEP comes first.                       *)
FailedReception ==
  /\ UNCHANGED enabled
  /\ IF waitingAck /\ SecondWindowExpired
       THEN Retry(timers, "SLEEP")
       ELSE /\ phy' = "SLEEP"
            /\ UNCHANGED <<timers, crash, retxVars, nextTx, dataRate, dutyLeft,
                           fCnt, trace>>

SendsAtOnce == waitingAck /\ SecondWindowExpired /\ retxLeft > 0
                 /\ 0 \in WaitingTimes(timers)

EndReceive ==
  \E r \in EndingReceptions :
    \/ /\ receiving' = receiving \ {r}
       /\ \/ r.frame.kind = "toUs" /\ ReceiveToUs(r.frame)
          \/ r.frame.kind # "toUs" /\ ReceiveForeign /\ phy' = "SLEEP"
          \/ FailedReception
       /\ UNCHANGED <<rx2In, mType, appSent>>
    \/ /\ r.frame.kind # "toUs"
       /\ SendsAtOnce
       /\ Crash("sleepInTx")

(* The channel delivers a packet the radio can lock on.  An ACK comes from *)
(* a server that received the packet.                                      *)
Arrival ==
  /\ \E f \in HeardFrames, d \in RxDurations :
       /\ f.ack # NoPkt => onAir[f.ack] > 0
       /\ StartReceive(f, d)
  /\ UNCHANGED <<retxVars, nextTx, rx2In, linkVars, fCnt, appSent, trace>>

-----------------------------------------------------------------------------
(* Time passes when nothing is due.  rx2In is kept only as far back as an  *)
(* ACK_TIMEOUT can reach.                                                  *)
Tick ==
  /\ NothingDue(timers) /\ NothingDue(receiving) /\ NothingDue(nextTx)
  /\ timers' = Sooner(timers)
  /\ receiving' = Sooner(receiving)
  /\ nextTx' = Sooner(nextTx)
  /\ dutyLeft' = [c \in Channels |-> Larger(dutyLeft[c] - 1, 0)]
  /\ rx2In' = Larger(rx2In - 1, - MaxAckTimeout)
  /\ UNCHANGED <<phy, crash, retxVars, mType, fCnt, dataRate, enabled, appSent,
                 trace>>

Handler ==
  \/ RunNextTx
  \/ TxFinished
  \/ CloseFirstAborts
  \/ WindowHandler
  \/ CloseSecondReceiveWindow
  \/ EndReceive

Scheduler   == crash = "none" /\ (Handler \/ Tick)
Environment == crash = "none" /\ (AppSend \/ Arrival \/ \E m \in MTypes : SetMType(m))

Next == Scheduler \/ Environment

Spec     == Init /\ [][Next]_vars
FairSpec == Spec /\ WF_vars(Scheduler)
-----------------------------------------------------------------------------
(* Types of the variables.                                                 *)
UInt8  == {i \in Nat : i < 256}
UInt16 == {i \in Nat : i < 65536}
NextTxEvents == [left : Nat, pkt : Packets, copy : BOOLEAN, late : BOOLEAN]

(* What a call of Send can change, and the rest.                           *)
SendTypes ==
  /\ phy \in PhyStates
  /\ timers \subseteq Timers
  /\ crash \in {"none", "noChannel", "sleepAfterTx", "sleepInTx", "closeInTx"}
  /\ waitingAck \in BOOLEAN
  /\ retxLeft \in UInt8
  /\ retxPkt \in Packets \cup {NoPkt}
  /\ hdrFCnt \in UInt16 /\ fCnt \in UInt16
  /\ nextTx \subseteq NextTxEvents
  /\ dataRate \in DataRates
  /\ dutyLeft \in [Channels -> Nat]
  /\ begun \subseteq Packets
  /\ onAir \in [Packets -> Nat]
  /\ acked \in [Packets -> Nat] /\ failed \in [Packets -> Nat]

RestTypes ==
  /\ receiving \subseteq [left : Nat, frame : Frames]
  /\ rx2In \in Int
  /\ mType \in MTypes
  /\ enabled \in (SUBSET Channels) \ {{}}
  /\ appSent \in 0 .. NumPackets

(* Every variable keeps its type, at every call and every handler: no      *)
(* event is overdue, no wait is negative, no counter leaves its width.     *)
TypeOK == SendTypes /\ RestTypes

(* The MAC waits for an ACK exactly while it holds a packet, and a queued  *)
(* DoSend is never stale: it is the only one, a retransmission in it is of *)
(* the packet that waits, a new packet in it was never started before.     *)
RetxMatchesQueue ==
  /\ waitingAck <=> retxPkt # NoPkt
  /\ \A n, m \in nextTx : n = m
  /\ \A n \in nextTx : IF n.copy THEN n.pkt = retxPkt ELSE n.pkt \notin begun

(* The outcome of a packet is reported at most once, never before it was   *)
(* started and never while it still waits for its ACK.                     *)
OneOutcome ==
  \A p \in Packets : /\ acked[p] + failed[p] <= 1
                     /\ acked[p] + failed[p] = 1 => p # retxPkt /\ p \in begun

(* The packets are started in the order of the application's calls: what   *)
(* makes the two invariants above inductive.                               *)
InOrder ==
  /\ retxPkt # NoPkt => retxPkt \in begun
  /\ \A p \in begun : p <= appSent
  /\ \A n \in nextTx : n.pkt <= appSent

(* While a packet waits, each transmission taken from its budget went on   *)
(* the air: the number of transmissions reported for it is the true one,   *)
(* and there are never more than MaxTx.                                    *)
BudgetIsSpentOnAir == waitingAck => onAir[retxPkt] + retxLeft = MaxTx

(* The state of the radio agrees with the events that will end it: it      *)
(* transmits exactly while the end of a transmission is scheduled,         *)
(* receives exactly while one EndReceive is, and listens only if something *)
(* will put it back to sleep.                                              *)
RadioMatchesEvents ==
  /\ phy = "TX" <=> Pending("txStandby")
  /\ phy = "RX" <=> receiving # {}
  /\ \A r, q \in receiving : r = q
  /\ phy = "STANDBY" => \E k \in {"txFinished", "closeRx1", "closeRx2"} : Pending(k)

(* A long enough duty cycle keeps transmissions out of the receive windows *)
(* and of receptions: no handler finds the radio in a state it asserts     *)
(* against, except for the switch to SLEEP after a transmission.           *)
NoAbort == crash \in {"none", "sleepAfterTx"}

(* A packet reported as acknowledged has been on the air.                  *)
AckedWasOnAir == \A p \in Packets : acked[p] > 0 => onAir[p] > 0

(* A packet the application sent after p was dropped for its size: it is   *)
(* above the limit of some data rate, was never started, and is not queued.*)
DroppedAfter(p) ==
  \E q \in Packets : /\ p < q /\ q <= appSent
                     /\ q \notin begun /\ \A n \in nextTx : n.pkt # q
                     /\ \E d \in DataRates : q \in TooBig[d]

(* All transmissions of a packet carry the frame counter by which the      *)
(* network server recognises a retransmission, unless a packet that the    *)
(* application sent meanwhile was dropped for its size: DoSend moves the   *)
(* counter first, and the header of a retransmission is built anew.        *)
SameFCnt ==
  [][onAir' # onAir /\ retxPkt # NoPkt /\ retxPkt' = retxPkt
       => hdrFCnt' = hdrFCnt \/ DroppedAfter(retxPkt)]_vars

(* A confirmed packet does not wait for ever: it is acknowledged, given up *)
(* or superseded, or the program has stopped.                              *)
WaitingEnds == \A p \in Packets : retxPkt = p ~> retxPkt # p \/ crash # "none"

(* The last report of m_requiredTxCallback for each packet.                *)
Outcome == [p \in Packets |-> IF acked[p] > 0 THEN "acked"
                              ELSE IF failed[p] > 0 THEN "failed" ELSE "none"]

Service == INSTANCE ReliableSend WITH
  Pkts <- Packets, NoPacket <- NoPkt, started <- begun, waiting <- retxPkt,
  outcome <- Outcome

(* The MAC implements ReliableSend: a packet is started once, at most one  *)
(* waits, and the one that waits ends with one final outcome.              *)
ImplementsService == Service!AbsSpec
=============================================================================
