-------------------------- MODULE ClassAMac_proofs --------------------------
(***************************************************************************)
(* Proofs about ClassAMac, for every value of its constants: its types,    *)
(* the agreement of the retransmission parameters, the queued transmission *)
(* and the reported outcomes, the refinement of ReliableSend and the frame *)
(* counter of retransmissions; and, for a duty cycle that outlasts the     *)
(* receive windows, what keeps the radio and its MAC in step.              *)
(***************************************************************************)
EXTENDS ClassAMac, TLAPS

-----------------------------------------------------------------------------
(* The steps of Send keep the types.                                       *)

(* m_maxNumbTx is a positive number that fits a byte.                      *)
LEMMA MaxTxType == MaxTx \in Nat /\ 0 < MaxTx /\ MaxTx < 256
  BY MacAssumption

(* resetRetransmissionParameters keeps the types.                          *)
LEMMA ResetType ==
  ASSUME hdrFCnt \in UInt16, Reset
  PROVE  /\ retxLeft' \in UInt8
         /\ waitingAck' \in BOOLEAN
         /\ retxPkt' \in Packets \cup {NoPkt}
         /\ hdrFCnt' \in UInt16
         /\ nextTx' = {}
  <1>1. waitingAck' \in BOOLEAN
    <2>1. waitingAck' = FALSE
      BY DEF Reset
    <2> QED BY <2>1
  <1>2. retxLeft' = MaxTx /\ retxPkt' = NoPkt /\ nextTx' = {} /\ hdrFCnt' = hdrFCnt
    BY DEF Reset
  <1> QED BY <1>1, <1>2, MaxTxType DEF UInt8, UInt16

(* The next frame counter has 16 bits.                                     *)
LEMMA Mod16 == \A i \in Nat : (i + 1) % 65536 \in UInt16
  BY DEF UInt8, UInt16

(* A scheduled timer is a timer.                                           *)
LEMMA TimersType ==
  ASSUME NEW ts \in SUBSET Timers, NEW k \in TimerKinds, NEW d \in Nat
  PROVE  ts \cup {Timer(k, d)} \subseteq Timers
  BY DEF Timers, Timer

(* SendToPhy keeps the types, whatever the caller did to the radio.        *)
LEMMA SendToPhyType ==
  ASSUME TypeOK, NEW p \in Packets, NEW left \in Nat, left < 256,
         NEW ts \in SUBSET Timers, NEW st \in PhyStates,
         SendToPhy(p, left, ts, st)
  PROVE  /\ dataRate' \in DataRates
         /\ timers' \subseteq Timers
         /\ phy' \in PhyStates
         /\ onAir' \in [Packets -> Nat]
         /\ dutyLeft' \in [Channels -> Nat]
         /\ crash' = crash
  <1>1. dataRate' \in DataRates
    BY MacAssumption DEF SendToPhy, AdaptedDR, TypeOK, SendTypes, RestTypes, DataRates
  <1>2. TimeOnAir[dataRate'] \in Nat /\ OffTime[dataRate'] \in Nat
    BY <1>1, MacAssumption
  <1>3. timers' \subseteq Timers
    BY <1>2, PhyAssumption DEF SendToPhy, SendTimers, Timers, Timer, TimerKinds
  <1>4. phy' \in PhyStates
    BY DEF SendToPhy, SendState, PhyStates
  <1>5. onAir' \in [Packets -> Nat]
    BY DEF SendToPhy, TypeOK, SendTypes, RestTypes
  <1>6. dutyLeft' \in [Channels -> Nat]
    <2>1. PICK c \in FreeChannels :
            dutyLeft' = [dutyLeft EXCEPT ![c] = OffTime[dataRate']]
      BY DEF SendToPhy
    <2>2. dutyLeft \in [Channels -> Nat]
      BY DEF TypeOK, SendTypes
    <2> QED BY <1>2, <2>1, <2>2
  <1> QED BY <1>1, <1>3, <1>4, <1>5, <1>6 DEF SendToPhy

(* DoSend keeps the types, of a new packet and of one sent again.          *)
LEMMA DoSendType ==
  ASSUME TypeOK, NEW p \in Packets, NEW isCopy \in BOOLEAN,
         NEW q \in SUBSET NextTxEvents,
         NEW ts \in SUBSET Timers, NEW st \in PhyStates,
         DoSend(p, isCopy, q, ts, st)
  PROVE  SendTypes'
  <1>1. CASE DoSendAgain(p, q, ts, st)
    <2>1. (retxLeft - 1) % 256 \in UInt8
      BY DEF TypeOK, SendTypes, UInt8, UInt16
    <2>2. retxLeft' \in UInt8
      BY <1>1, <2>1 DEF DoSendAgain
    <2>3. SendToPhy(p, retxLeft', ts, st)
      BY <1>1 DEF DoSendAgain
    <2>4. /\ dataRate' \in DataRates
          /\ timers' \subseteq Timers
          /\ phy' \in PhyStates
          /\ onAir' \in [Packets -> Nat]
          /\ dutyLeft' \in [Channels -> Nat]
          /\ crash' = crash
      BY <2>2, <2>3, SendToPhyType DEF UInt8, UInt16
    <2> QED BY <1>1, <2>2, <2>4 DEF DoSendAgain, TypeOK, SendTypes
  <1>2. CASE DoSendTooBig(p, q, ts, st)
    <2>1. fCnt' \in UInt16
      BY <1>2, Mod16 DEF DoSendTooBig, TypeOK, SendTypes, UInt8, UInt16
    <2>2. /\ timers' = ts /\ phy' = st /\ nextTx' = q
          /\ UNCHANGED <<crash, retxVars, dataRate, dutyLeft, trace>>
      BY <1>2 DEF DoSendTooBig
    <2> QED BY <2>1, <2>2 DEF TypeOK, SendTypes, UInt8, UInt16, retxVars, trace
  <1>3. CASE DoSendNew(p, ts, st)
    <2>1. /\ fCnt \in UInt16 /\ hdrFCnt \in UInt16
          /\ begun \subseteq Packets /\ failed \in [Packets -> Nat]
          /\ acked \in [Packets -> Nat]
      BY DEF TypeOK, SendTypes
    <2>2. /\ fCnt' = (fCnt + 1) % 65536
          /\ begun' = begun \cup {p} /\ acked' = acked
          /\ SendToPhy(p, retxLeft', ts, st)
      BY <1>3 DEF DoSendNew
    <2>3. fCnt' \in UInt16
      BY <2>1, <2>2, Mod16 DEF UInt8, UInt16
    <2>4. failed' \in [Packets -> Nat]
      <3>1. failed' = failed \/ failed' = [failed EXCEPT ![retxPkt] = @ + 1]
        BY <1>3 DEF DoSendNew
      <3> QED BY <2>1, <3>1
    <2>5. /\ retxLeft' \in UInt8
          /\ waitingAck' \in BOOLEAN
          /\ retxPkt' \in Packets \cup {NoPkt}
          /\ hdrFCnt' \in UInt16
          /\ nextTx' = {}
      <3>1. CASE mType = "CONFIRMED"
        BY <1>3, <2>3, <3>1, MaxTxType DEF DoSendNew, UInt8, UInt16
      <3>2. CASE mType # "CONFIRMED"
        <4>1. Reset
          BY <1>3, <3>2 DEF DoSendNew
        <4> QED BY <2>1, <4>1, ResetType
      <3> QED BY <3>1, <3>2
    <2>6. /\ dataRate' \in DataRates
          /\ timers' \subseteq Timers
          /\ phy' \in PhyStates
          /\ onAir' \in [Packets -> Nat]
          /\ dutyLeft' \in [Channels -> Nat]
          /\ crash' = crash
      BY <2>2, <2>5, SendToPhyType DEF UInt8, UInt16
    <2> QED BY <2>1, <2>2, <2>3, <2>4, <2>5, <2>6 DEF TypeOK, SendTypes
  <1> QED BY <1>1, <1>2, <1>3 DEF DoSend

(* No wait that Send computes is negative.                                 *)
LEMMA WaitingTimesType ==
  ASSUME TypeOK, NEW ts, NEW d \in WaitingTimes(ts)
  PROVE  d \in Nat
  <1>1. DutyWaits \subseteq Nat
    <2>1. dutyLeft \in [Channels -> Nat] /\ enabled \subseteq Channels
      BY DEF TypeOK, SendTypes, RestTypes
    <2> QED BY <2>1 DEF DutyWaits
  <1>2. AckTimeouts \subseteq Int /\ Rx2Len \in Int /\ rx2In \in Int
    BY MacAssumption DEF TypeOK, SendTypes, RestTypes
  <1>3. \A w \in Nat, x \in Int : Larger(w, x) \in Nat
    BY DEF Larger
  <1>4. CASE waitingAck
    <2>1. PICK w \in DutyWaits, u \in AckTimeouts : d = Larger(w, rx2In + u)
      BY <1>4 DEF WaitingTimes
    <2>2. rx2In + u \in Int
      BY <1>2
    <2> QED BY <1>1, <1>3, <2>1, <2>2
  <1>5. CASE ~ waitingAck
    <2>1. PICK w \in DutyWaits :
            d = IF WindowsPending(ts) THEN Larger(w, rx2In + Rx2Len) ELSE w
      BY <1>5 DEF WaitingTimes
    <2>2. rx2In + Rx2Len \in Int
      BY <1>2
    <2> QED BY <1>1, <1>3, <2>1, <2>2
  <1> QED BY <1>4, <1>5

(* Send keeps the types, whether it sends, postpones or drops.             *)
LEMMA SendType ==
  ASSUME TypeOK, NEW p \in Packets, NEW isCopy \in BOOLEAN,
         NEW ts \in SUBSET Timers, NEW st \in PhyStates,
         Send(p, isCopy, ts, st)
  PROVE  SendTypes'
  <1>1. PICK d \in WaitingTimes(ts) :
          IF d = 0 THEN SendNow(p, isCopy, ts, st)
                   ELSE Postpone(p, isCopy, d, ts, st)
    BY DEF Send
  <1>2. d \in Nat
    BY <1>1, WaitingTimesType
  <1>3. CASE d = 0 /\ DoSend(p, isCopy, nextTx, ts, st)
    <2>1. nextTx \in SUBSET NextTxEvents
      BY DEF TypeOK, SendTypes
    <2> QED BY <1>3, <2>1, DoSendType
  <1>4. CASE d = 0 /\ ~ DoSend(p, isCopy, nextTx, ts, st)
    <2>1. /\ timers' = ts /\ phy' = st
          /\ UNCHANGED <<crash, retxVars, nextTx, dataRate, dutyLeft, fCnt, trace>>
      BY <1>1, <1>4 DEF SendNow
    <2> QED BY <2>1 DEF TypeOK, SendTypes, retxVars, trace
  <1>5. CASE d # 0
    <2>1. /\ nextTx' = {[left |-> d, pkt |-> p, copy |-> isCopy,
                         late |-> \E t \in ts : t.kind = "closeRx2"]}
          /\ timers' = ts /\ phy' = st
          /\ UNCHANGED <<crash, retxVars, dataRate, dutyLeft, fCnt, trace>>
      BY <1>1, <1>5 DEF Postpone
    <2>2. (\E t \in ts : t.kind = "closeRx2") \in BOOLEAN
      OBVIOUS
    <2>3. nextTx' \subseteq NextTxEvents
      BY <1>2, <2>1, <2>2 DEF NextTxEvents
    <2> QED BY <2>1, <2>3 DEF TypeOK, SendTypes, retxVars, trace
  <1> QED BY <1>3, <1>4, <1>5

(* What follows a lost ACK keeps the types: there is a packet to send.     *)
LEMMA RetryType ==
  ASSUME TypeOK, waitingAck, retxPkt # NoPkt,
         NEW ts \in SUBSET Timers, NEW st \in PhyStates, Retry(ts, st)
  PROVE  SendTypes'
  <1>1. retxPkt \in Packets
    BY DEF TypeOK, SendTypes
  <1>2. CASE Send(retxPkt, TRUE, ts, st)
    BY <1>1, <1>2, SendType
  <1>3. CASE GiveUp(ts, st)
    <2>1. hdrFCnt \in UInt16 /\ failed \in [Packets -> Nat]
      BY DEF TypeOK, SendTypes
    <2>2. Reset
      BY <1>3 DEF GiveUp
    <2>3. failed' \in [Packets -> Nat]
      <3>1. failed' = [failed EXCEPT ![retxPkt] = @ + 1]
        BY <1>3 DEF GiveUp
      <3> QED BY <1>1, <2>1, <3>1
    <2>4. /\ retxLeft' \in UInt8
          /\ waitingAck' \in BOOLEAN
          /\ retxPkt' \in Packets \cup {NoPkt}
          /\ hdrFCnt' \in UInt16
          /\ nextTx' = {}
      BY <2>1, <2>2, ResetType
    <2>5. /\ timers' = ts /\ phy' = st
          /\ UNCHANGED <<crash, dataRate, dutyLeft, fCnt, begun, onAir, acked>>
      BY <1>3 DEF GiveUp
    <2> QED BY <2>3, <2>4, <2>5 DEF TypeOK, SendTypes, UInt8, UInt16
  <1> QED BY <1>2, <1>3 DEF Retry

-----------------------------------------------------------------------------
(* Every step keeps the types.                                             *)

(* The initial values have their types.                                    *)
LEMMA InitType == Init => TypeOK
  <1> SUFFICES ASSUME Init PROVE TypeOK
    OBVIOUS
  <1>1. /\ phy \in PhyStates /\ timers \subseteq Timers
        /\ crash \in {"none", "noChannel", "sleepAfterTx", "sleepInTx", "closeInTx"}
        /\ receiving \subseteq [left : Nat, frame : Frames]
    BY DEF Init, PhyInit, PhyStates
  <1>2. retxLeft \in UInt8 /\ hdrFCnt \in UInt16 /\ fCnt \in UInt16
    BY MaxTxType DEF Init, UInt8, UInt16
  <1>3. waitingAck \in BOOLEAN
    <2>1. waitingAck = FALSE
      BY DEF Init
    <2> QED BY <2>1
  <1>4. /\ retxPkt \in Packets \cup {NoPkt} /\ nextTx \subseteq NextTxEvents
        /\ begun \subseteq Packets /\ dutyLeft \in [Channels -> Nat]
        /\ onAir \in [Packets -> Nat]
        /\ acked \in [Packets -> Nat] /\ failed \in [Packets -> Nat]
    BY DEF Init
  <1>5. dataRate \in DataRates /\ appSent \in 0 .. NumPackets
    BY MacAssumption DEF Init, DataRates
  <1>6. mType \in MTypes /\ enabled \in (SUBSET Channels) \ {{}} /\ rx2In \in Int
    BY MacAssumption DEF Init
  <1> QED BY <1>1, <1>2, <1>3, <1>4, <1>5, <1>6 DEF TypeOK, SendTypes, RestTypes

(* A failed assertion keeps the types.                                     *)
LEMMA CrashType ==
  ASSUME TypeOK, Crash(crash'),
         crash' \in {"noChannel", "sleepAfterTx", "sleepInTx", "closeInTx"}
  PROVE  TypeOK'
  BY DEF Crash, TypeOK, SendTypes, RestTypes, retxVars, linkVars, trace

(* Taking an event that runs from the timers leaves timers.                *)
LEMMA FiredType == \A k : TypeOK => Fired(k) \in SUBSET Timers
  BY DEF Fired, TypeOK, SendTypes

(* The constructor of timers returns timers.                               *)
LEMMA TimerType == \A k \in TimerKinds, d \in Nat : Timer(k, d) \in Timers
  BY DEF Timer, Timers

(* The opening and closing of the windows keep the types.                  *)
LEMMA WindowHandlerType == TypeOK /\ WindowHandler => TypeOK'
  <1> SUFFICES ASSUME TypeOK, WindowHandler PROVE TypeOK'
    OBVIOUS
  <1>1. Rx1Len \in Nat /\ Rx2Len \in Nat
    BY MacAssumption
  <1>2. phy \in PhyStates
    BY DEF TypeOK, SendTypes
  <1>3. /\ phy' \in PhyStates /\ timers' \subseteq Timers
        /\ UNCHANGED <<receiving, crash>>
    <2>1. CASE TxStandby
      BY <2>1, FiredType DEF TxStandby, PhyStates
    <2>2. CASE OpenFirstReceiveWindow
      BY <1>1, <2>2, FiredType, TimerType
      DEF OpenFirstReceiveWindow, PhyStates, TimerKinds
    <2>3. CASE CloseFirstReceiveWindow
      BY <1>2, <2>3, FiredType DEF CloseFirstReceiveWindow, PhyStates
    <2>4. ASSUME NEW k \in {"openRx2", "orphanRx2"}, OpenSecondReceiveWindow(k)
          PROVE  /\ phy' \in PhyStates /\ timers' \subseteq Timers
                 /\ UNCHANGED <<receiving, crash>>
      BY <1>1, <1>2, <2>4, FiredType, TimerType
      DEF OpenSecondReceiveWindow, PhyStates, TimerKinds
    <2> QED BY <2>1, <2>2, <2>3, <2>4 DEF WindowHandler
  <1>4. UNCHANGED <<retxVars, nextTx, rx2In, linkVars, fCnt, appSent, trace>>
    BY DEF WindowHandler
  <1> QED BY <1>3, <1>4 DEF TypeOK, SendTypes, RestTypes, retxVars, linkVars, trace

(* TxFinished keeps the types.                                             *)
LEMMA TxFinishedType == TypeOK /\ TxFinished => TypeOK'
  <1> SUFFICES ASSUME TypeOK, TxFinished PROVE TypeOK'
    OBVIOUS
  <1>1. CASE SleepOk(phy)
    <2>1. /\ timers' = {IF t.kind = "openRx2" THEN Timer("orphanRx2", t.left) ELSE t :
                            t \in Fired("txFinished")}
                         \cup {Timer("openRx1", ReceiveDelay1),
                               Timer("openRx2", ReceiveDelay2)}
          /\ rx2In' = ReceiveDelay2
          /\ phy' = "SLEEP"
          /\ UNCHANGED <<receiving, crash, retxVars, nextTx, linkVars, fCnt,
                         appSent, trace>>
      BY <1>1 DEF TxFinished
    <2>2. ReceiveDelay1 \in Nat /\ ReceiveDelay2 \in Nat
      BY MacAssumption
    <2>3. \A t \in Timers : t.left \in Nat
      BY DEF Timers
    <2>4. timers' \subseteq Timers
      BY <2>1, <2>2, <2>3, FiredType, TimerType DEF TimerKinds
    <2>5. rx2In' \in Int /\ phy' \in PhyStates
      BY <2>1, <2>2 DEF PhyStates
    <2>6. UNCHANGED <<receiving, crash, retxVars, nextTx, linkVars, fCnt,
                      appSent, trace>>
      BY <2>1
    <2> QED BY <2>4, <2>5, <2>6
      DEF TypeOK, SendTypes, RestTypes, retxVars, linkVars, trace
  <1>2. CASE ~ SleepOk(phy)
    BY <1>2, CrashType DEF TxFinished, Crash
  <1> QED BY <1>1, <1>2

(* The packet that waits: without one there is nothing to send again.      *)
RetxConsistent == waitingAck <=> retxPkt # NoPkt

(* A packet from the application keeps the types.                          *)
LEMMA AppSendType == TypeOK /\ AppSend => TypeOK'
  <1> SUFFICES ASSUME TypeOK, AppSend PROVE TypeOK'
    OBVIOUS
  <1>1. appSent \in 0 .. NumPackets /\ NumPackets \in Nat
    BY MacAssumption DEF TypeOK, RestTypes
  <1>2. /\ appSent < NumPackets /\ appSent' = appSent + 1
        /\ Send(appSent', FALSE, timers, phy)
        /\ UNCHANGED <<receiving, rx2In, mType, enabled>>
    BY DEF AppSend
  <1>3. appSent' \in Packets /\ appSent' \in 0 .. NumPackets
    BY <1>1, <1>2 DEF Packets
  <1>4. timers \in SUBSET Timers /\ phy \in PhyStates
    BY DEF TypeOK, SendTypes
  <1>5. SendTypes'
    BY <1>2, <1>3, <1>4, SendType
  <1>6. RestTypes'
    BY <1>2, <1>3 DEF TypeOK, RestTypes
  <1> QED BY <1>5, <1>6 DEF TypeOK

(* The queued transmission keeps the types.                                *)
LEMMA RunNextTxType == TypeOK /\ RunNextTx => TypeOK'
  <1> SUFFICES ASSUME TypeOK, NEW n \in nextTx,
                      \/ Crash("noChannel")
                      \/ /\ DoSend(n.pkt, n.copy, {}, timers, phy)
                         /\ UNCHANGED <<receiving, rx2In, mType, enabled, appSent>>
               PROVE  TypeOK'
    BY DEF RunNextTx
  <1>1. CASE Crash("noChannel")
    BY <1>1, CrashType DEF Crash
  <1>2. CASE /\ DoSend(n.pkt, n.copy, {}, timers, phy)
             /\ UNCHANGED <<receiving, rx2In, mType, enabled, appSent>>
    <2>1. timers \in SUBSET Timers /\ phy \in PhyStates
      BY DEF TypeOK, SendTypes
    <2>2. n.pkt \in Packets /\ n.copy \in BOOLEAN
      BY DEF TypeOK, SendTypes, NextTxEvents
    <2>3. SendTypes'
      BY <1>2, <2>1, <2>2, DoSendType
    <2>4. RestTypes'
      BY <1>2 DEF TypeOK, RestTypes
    <2> QED BY <2>3, <2>4 DEF TypeOK
  <1> QED BY <1>1, <1>2

(* The close of the second window keeps the types.                         *)
LEMMA CloseSecondType ==
  TypeOK /\ RetxConsistent /\ CloseSecondReceiveWindow => TypeOK'
  <1> SUFFICES ASSUME TypeOK, RetxConsistent, CloseSecondReceiveWindow
               PROVE  TypeOK'
    OBVIOUS
  <1> DEFINE ts == Fired("closeRx2")
             st == IF phy = "STANDBY" THEN "SLEEP" ELSE phy
  <1>1. ts \in SUBSET Timers
    BY FiredType
  <1>2. st \in PhyStates
    BY DEF TypeOK, SendTypes, PhyStates
  <1>3. SendTypes'
    <2>1. CASE /\ timers' = ts
               /\ UNCHANGED <<phy, crash, retxVars, nextTx, dataRate, dutyLeft,
                              fCnt, trace>>
      BY <1>1, <2>1 DEF TypeOK, SendTypes, retxVars, trace
    <2>2. CASE waitingAck /\ Retry(ts, st)
      BY <1>1, <1>2, <2>2, RetryType DEF RetxConsistent
    <2>3. CASE /\ Reset
               /\ timers' = ts /\ phy' = st
               /\ UNCHANGED <<crash, dataRate, dutyLeft, fCnt, trace>>
      <3>1. hdrFCnt \in UInt16
        BY DEF TypeOK, SendTypes
      <3>2. /\ retxLeft' \in UInt8
            /\ waitingAck' \in BOOLEAN
            /\ retxPkt' \in Packets \cup {NoPkt}
            /\ hdrFCnt' \in UInt16
            /\ nextTx' = {}
        BY <2>3, <3>1, ResetType
      <3> HIDE DEF ts, st
      <3> QED BY <1>1, <1>2, <2>3, <3>2 DEF TypeOK, SendTypes, trace
    <2> QED BY <2>1, <2>2, <2>3 DEF CloseSecondReceiveWindow
  <1>4. RestTypes'
    BY DEF CloseSecondReceiveWindow, TypeOK, RestTypes
  <1> QED BY <1>3, <1>4 DEF TypeOK

(* A downlink to this device keeps the types.                              *)
LEMMA ReceiveToUsType ==
  ASSUME TypeOK, NEW f \in Frames, f.kind = "toUs", ReceiveToUs(f)
  PROVE  SendTypes' /\ enabled' \in (SUBSET Channels) \ {{}}
  <1>1. timers' \subseteq Timers /\ phy' \in PhyStates
    BY DEF ReceiveToUs, TypeOK, SendTypes, PhyStates
  <1>2. /\ acked' \in [Packets -> Nat]
        /\ retxLeft' \in UInt8
        /\ waitingAck' \in BOOLEAN
        /\ retxPkt' \in Packets \cup {NoPkt}
        /\ hdrFCnt' \in UInt16
        /\ nextTx' \subseteq NextTxEvents
    <2>1. /\ hdrFCnt \in UInt16 /\ acked \in [Packets -> Nat]
          /\ retxPkt \in Packets \cup {NoPkt}
      BY DEF TypeOK, SendTypes
    <2>2. CASE waitingAck /\ f.ack # NoPkt
      <3>1. Reset
        BY <2>2 DEF ReceiveToUs
      <3>2. acked' \in [Packets -> Nat]
        <4>1. acked' = [acked EXCEPT ![retxPkt] = @ + 1]
          BY <2>2 DEF ReceiveToUs
        <4>2. CASE retxPkt \in Packets
          BY <2>1, <4>1, <4>2
        <4>3. CASE retxPkt \notin Packets
          BY <2>1, <4>1, <4>3
        <4> QED BY <4>2, <4>3
      <3> QED BY <2>1, <3>1, <3>2, ResetType
    <2>3. CASE ~ (waitingAck /\ f.ack # NoPkt)
      BY <2>3 DEF ReceiveToUs, TypeOK, SendTypes, retxVars
    <2> QED BY <2>2, <2>3
  <1>3. enabled' \in (SUBSET Channels) \ {{}} /\ dataRate' \in DataRates
    <2>1. AdrReqs \subseteq [mask : (SUBSET Channels) \ {{}}, dr : DataRates]
      BY MacAssumption
    <2>2. f.adr \in AdrReqs \cup {NoAdr}
      BY DEF Frames, ToUs, Foreign
    <2> QED BY <2>1, <2>2 DEF ReceiveToUs, TypeOK, SendTypes, RestTypes
  <1>4. UNCHANGED <<crash, dutyLeft, fCnt, begun, onAir, failed>>
    BY DEF ReceiveToUs
  <1>5. SendTypes'
    BY <1>1, <1>2, <1>3, <1>4 DEF TypeOK, SendTypes
  <1> QED BY <1>3, <1>5

(* The two handlers that end a reception without a downlink to the device. *)
LEMMA NoAckReceptionType ==
  ASSUME TypeOK, RetxConsistent,
         \/ /\ phy' = "SLEEP"
            /\ UNCHANGED <<timers, crash, retxVars, nextTx, dataRate, dutyLeft,
                           fCnt, trace>>
         \/ waitingAck /\ Retry(timers, "SLEEP")
  PROVE  SendTypes'
  <1>1. timers \in SUBSET Timers /\ "SLEEP" \in PhyStates
    BY DEF TypeOK, SendTypes, PhyStates
  <1>2. CASE /\ phy' = "SLEEP"
             /\ UNCHANGED <<timers, crash, retxVars, nextTx, dataRate, dutyLeft,
                            fCnt, trace>>
    BY <1>1, <1>2 DEF TypeOK, SendTypes, retxVars, trace
  <1>3. CASE waitingAck /\ Retry(timers, "SLEEP")
    BY <1>1, <1>3, RetryType DEF RetxConsistent
  <1> QED BY <1>2, <1>3

(* The end of a reception keeps the types.                                 *)
LEMMA EndReceiveType == TypeOK /\ RetxConsistent /\ EndReceive => TypeOK'
  <1> SUFFICES ASSUME TypeOK, RetxConsistent, EndReceive PROVE TypeOK'
    OBVIOUS
  <1>1. PICK r \in EndingReceptions :
          \/ /\ receiving' = receiving \ {r}
             /\ \/ r.frame.kind = "toUs" /\ ReceiveToUs(r.frame)
                \/ r.frame.kind # "toUs" /\ ReceiveForeign /\ phy' = "SLEEP"
                \/ FailedReception
             /\ UNCHANGED <<rx2In, mType, appSent>>
          \/ Crash("sleepInTx")
    BY DEF EndReceive
  <1>2. CASE Crash("sleepInTx")
    BY <1>2, CrashType DEF Crash
  <1>3. CASE /\ receiving' = receiving \ {r}
             /\ \/ r.frame.kind = "toUs" /\ ReceiveToUs(r.frame)
                \/ r.frame.kind # "toUs" /\ ReceiveForeign /\ phy' = "SLEEP"
                \/ FailedReception
             /\ UNCHANGED <<rx2In, mType, appSent>>
    <2>1. SendTypes' /\ enabled' \in (SUBSET Channels) \ {{}}
      <3>1. CASE r.frame.kind = "toUs" /\ ReceiveToUs(r.frame)
        <4>1. r.frame \in Frames
          BY DEF EndingReceptions, TypeOK, RestTypes
        <4> QED BY <3>1, <4>1, ReceiveToUsType
      <3>2. CASE ReceiveForeign \/ FailedReception
        <4>1. enabled' = enabled
          BY <3>2 DEF ReceiveForeign, FailedReception
        <4>2. SendTypes'
          BY <3>2, NoAckReceptionType DEF ReceiveForeign, FailedReception
        <4> QED BY <4>1, <4>2 DEF TypeOK, RestTypes
      <3> QED BY <1>3, <3>1, <3>2
    <2>2. /\ receiving' \subseteq [left : Nat, frame : Frames]
          /\ rx2In' \in Int /\ mType' \in MTypes /\ appSent' \in 0 .. NumPackets
      BY <1>3 DEF TypeOK, RestTypes
    <2> QED BY <2>1, <2>2 DEF TypeOK, RestTypes
  <1> QED BY <1>1, <1>2, <1>3

(* The start of a reception keeps the types.                               *)
LEMMA ArrivalType == TypeOK /\ Arrival => TypeOK'
  <1> SUFFICES ASSUME TypeOK, NEW f \in HeardFrames, NEW d \in RxDurations,
                      StartReceive(f, d),
                      UNCHANGED <<retxVars, nextTx, rx2In, linkVars, fCnt,
                                  appSent, trace>>
               PROVE  TypeOK'
    BY DEF Arrival
  <1>1. f \in Frames /\ d \in Nat
    BY MacAssumption, PhyAssumption
  <1>2. receiving' \subseteq [left : Nat, frame : Frames]
    BY <1>1 DEF StartReceive, TypeOK, RestTypes
  <1>3. phy' \in PhyStates /\ UNCHANGED <<timers, crash>>
    BY DEF StartReceive, PhyStates
  <1> QED BY <1>2, <1>3 DEF TypeOK, SendTypes, RestTypes, retxVars, linkVars, trace

(* A tick keeps the types: nothing due is left to become overdue.          *)
LEMMA TickType == TypeOK /\ Tick => TypeOK'
  <1> SUFFICES ASSUME TypeOK, Tick PROVE TypeOK'
    OBVIOUS
  <1>1. timers' \subseteq Timers
    BY DEF Tick, Sooner, NothingDue, TypeOK, SendTypes, Timers
  <1>2. receiving' \subseteq [left : Nat, frame : Frames]
    BY DEF Tick, Sooner, NothingDue, TypeOK, RestTypes
  <1>3. nextTx' \subseteq NextTxEvents
    BY DEF Tick, Sooner, NothingDue, TypeOK, SendTypes, NextTxEvents
  <1>4. dutyLeft' \in [Channels -> Nat]
    <2>1. dutyLeft \in [Channels -> Nat]
      BY DEF TypeOK, SendTypes
    <2>2. \A i \in Nat : Larger(i - 1, 0) \in Nat
      BY DEF Larger
    <2>3. dutyLeft' = [c \in Channels |-> Larger(dutyLeft[c] - 1, 0)]
      BY DEF Tick
    <2> QED BY <2>1, <2>2, <2>3
  <1>5. rx2In' \in Int
    BY MacAssumption DEF Tick, Larger, TypeOK, RestTypes
  <1>6. UNCHANGED <<phy, crash, retxVars, mType, fCnt, dataRate, enabled, appSent,
                    trace>>
    BY DEF Tick
  <1> QED BY <1>1, <1>2, <1>3, <1>4, <1>5, <1>6
    DEF TypeOK, SendTypes, RestTypes, retxVars, trace

(* Every step keeps the types.                                             *)
LEMMA StepType == TypeOK /\ RetxConsistent /\ [Next]_vars => TypeOK'
  <1> SUFFICES ASSUME TypeOK, RetxConsistent, [Next]_vars PROVE TypeOK'
    OBVIOUS
  <1>1. CASE RunNextTx               BY <1>1, RunNextTxType
  <1>2. CASE TxFinished              BY <1>2, TxFinishedType
  <1>3. CASE CloseFirstAborts        BY <1>3, CrashType DEF CloseFirstAborts, Crash
  <1>4. CASE WindowHandler           BY <1>4, WindowHandlerType
  <1>5. CASE CloseSecondReceiveWindow BY <1>5, CloseSecondType
  <1>6. CASE EndReceive              BY <1>6, EndReceiveType
  <1>7. CASE Tick                    BY <1>7, TickType
  <1>8. CASE AppSend                 BY <1>8, AppSendType
  <1>9. CASE Arrival                 BY <1>9, ArrivalType
  <1>10. ASSUME NEW m \in MTypes, SetMType(m) PROVE TypeOK'
    BY <1>10 DEF SetMType, TypeOK, SendTypes, RestTypes, phyVars, retxVars, trace
  <1>11. CASE UNCHANGED vars
    BY <1>11 DEF vars, TypeOK, SendTypes, RestTypes, phyVars, retxVars, linkVars, trace
  <1> QED BY <1>1, <1>2, <1>3, <1>4, <1>5, <1>6, <1>7, <1>8, <1>9, <1>10, <1>11
    DEF Next, Scheduler, Environment, Handler

-----------------------------------------------------------------------------
(* The retransmission parameters, the queue and the outcomes agree.        *)

Inv == RetxMatchesQueue /\ OneOutcome /\ InOrder

(* Nothing but the queue changes, and it loses its event or keeps it.      *)
LEMMA QueueInv ==
  ASSUME Inv, nextTx' \subseteq nextTx, appSent' = appSent \/ appSent' = appSent + 1,
         TypeOK, UNCHANGED <<waitingAck, retxPkt, begun, acked, failed>>
  PROVE  Inv'
  <1>1. RetxMatchesQueue'
    BY DEF Inv, RetxMatchesQueue
  <1>2. OneOutcome'
    BY DEF Inv, OneOutcome
  <1>3. InOrder'
    <2>1. \A i \in Packets : i <= appSent => i <= appSent'
      BY DEF TypeOK, RestTypes, Packets
    <2>2. begun \subseteq Packets /\ \A n \in nextTx : n.pkt \in Packets
      BY DEF TypeOK, SendTypes, NextTxEvents
    <2> QED BY <2>1, <2>2 DEF Inv, InOrder
  <1> QED BY <1>1, <1>2, <1>3 DEF Inv

(* The packet that waits gets its outcome, and the parameters are reset.   *)
LEMMA ConcludeInv ==
  ASSUME TypeOK, Inv, retxPkt \in Packets, Reset,
         \/ failed' = [failed EXCEPT ![retxPkt] = @ + 1] /\ acked' = acked
         \/ acked' = [acked EXCEPT ![retxPkt] = @ + 1] /\ failed' = failed,
         UNCHANGED <<begun, appSent>>
  PROVE  Inv'
  <1>1. waitingAck' = FALSE /\ retxPkt' = NoPkt /\ nextTx' = {}
    BY DEF Reset
  <1>2. RetxMatchesQueue'
    BY <1>1 DEF RetxMatchesQueue
  <1>3. OneOutcome'
    <2> SUFFICES ASSUME NEW p \in Packets
                 PROVE  /\ acked'[p] + failed'[p] <= 1
                        /\ acked'[p] + failed'[p] = 1 => p # retxPkt' /\ p \in begun'
      BY DEF OneOutcome
    <2>1. acked \in [Packets -> Nat] /\ failed \in [Packets -> Nat]
      BY DEF TypeOK, SendTypes
    <2>2. /\ acked[p] + failed[p] <= 1
          /\ acked[p] + failed[p] = 1 => p # retxPkt /\ p \in begun
      BY DEF Inv, OneOutcome
    <2>3. p # retxPkt'
      BY <1>1 DEF Packets, NoPkt
    <2>4. CASE p = retxPkt
      <3>1. acked[p] = 0 /\ failed[p] = 0
        BY <2>1, <2>2, <2>4
      <3>2. acked'[p] + failed'[p] = 1
        BY <2>1, <2>4, <3>1
      <3>3. p \in begun'
        BY <2>4 DEF Inv, InOrder, NoPkt, Packets
      <3> QED BY <2>3, <3>2, <3>3
    <2>5. CASE p # retxPkt
      <3>1. acked'[p] = acked[p] /\ failed'[p] = failed[p]
        BY <2>1, <2>5
      <3> QED BY <2>2, <2>3, <3>1
    <2> QED BY <2>4, <2>5
  <1>4. InOrder'
    BY <1>1 DEF Inv, InOrder
  <1> QED BY <1>2, <1>3, <1>4 DEF Inv

(* A new packet keeps the invariant: the one that waited fails.            *)
LEMMA DoSendNewInv ==
  ASSUME TypeOK, Inv, NEW p \in Packets, p \notin begun, p <= appSent',
         appSent' = appSent \/ appSent' = appSent + 1,
         NEW ts, NEW st, DoSendNew(p, ts, st)
  PROVE  Inv'
  <1>1. /\ failed' = IF waitingAck THEN [failed EXCEPT ![retxPkt] = @ + 1] ELSE failed
        /\ begun' = begun \cup {p}
        /\ acked' = acked
    BY DEF DoSendNew
  <1>2. nextTx' = {}
    BY DEF DoSendNew, Reset
  <1>3. (waitingAck' <=> retxPkt' # NoPkt) /\ retxPkt' \in {p, NoPkt}
    <2>1. CASE mType = "CONFIRMED"
      <3>1. waitingAck' = TRUE /\ retxPkt' = p
        BY <2>1 DEF DoSendNew
      <3> QED BY <3>1 DEF NoPkt, Packets
    <2>2. CASE mType # "CONFIRMED"
      <3>1. waitingAck' = FALSE /\ retxPkt' = NoPkt
        BY <2>2 DEF DoSendNew, Reset
      <3> QED BY <3>1
    <2> QED BY <2>1, <2>2
  <1>4. RetxMatchesQueue'
    BY <1>2, <1>3 DEF RetxMatchesQueue
  <1>5. OneOutcome'
    <2> SUFFICES ASSUME NEW x \in Packets
                 PROVE  /\ acked'[x] + failed'[x] <= 1
                        /\ acked'[x] + failed'[x] = 1 => x # retxPkt' /\ x \in begun'
      BY DEF OneOutcome
    <2>1. acked \in [Packets -> Nat] /\ failed \in [Packets -> Nat]
      BY DEF TypeOK, SendTypes
    <2>2. /\ acked[x] + failed[x] <= 1
          /\ acked[x] + failed[x] = 1 => x # retxPkt /\ x \in begun
      BY DEF Inv, OneOutcome
    <2>3. x \in begun => x # retxPkt' /\ x \in begun'
      BY <1>1, <1>3 DEF NoPkt, Packets
    <2>4. CASE waitingAck /\ x = retxPkt
      <3>1. acked[x] = 0 /\ failed[x] = 0
        BY <2>1, <2>2, <2>4
      <3>2. failed' = [failed EXCEPT ![x] = @ + 1]
        BY <1>1, <2>4
      <3>3. acked'[x] + failed'[x] = 1
        BY <1>1, <2>1, <3>1, <3>2
      <3>4. x \in begun
        BY <2>4 DEF Inv, InOrder, NoPkt, Packets
      <3> QED BY <2>3, <3>3, <3>4
    <2>5. CASE ~ (waitingAck /\ x = retxPkt)
      <3>1. acked'[x] = acked[x] /\ failed'[x] = failed[x]
        BY <1>1, <2>1, <2>5
      <3> QED BY <2>2, <2>3, <3>1
    <2> QED BY <2>4, <2>5
  <1>6. InOrder'
    <2>1. \A x \in begun : x <= appSent'
      BY DEF Inv, InOrder, TypeOK, SendTypes, RestTypes, Packets
    <2>2. retxPkt' # NoPkt => retxPkt' \in begun'
      BY <1>1, <1>3
    <2> QED BY <1>1, <1>2, <2>1, <2>2 DEF InOrder
  <1> QED BY <1>4, <1>5, <1>6 DEF Inv

(* What a caller of Send or DoSend must respect: a copy is of the packet   *)
(* that waits, any other packet is new.                                    *)
Sendable(p, isCopy) ==
  IF isCopy THEN p = retxPkt ELSE p \notin begun

(* DoSend keeps the invariant if its caller respects Sendable.             *)
LEMMA DoSendInv ==
  ASSUME TypeOK, Inv, NEW p \in Packets, NEW isCopy \in BOOLEAN,
         Sendable(p, isCopy), p <= appSent',
         appSent' = appSent \/ appSent' = appSent + 1,
         NEW q, q \subseteq nextTx, NEW ts, NEW st,
         DoSend(p, isCopy, q, ts, st)
  PROVE  Inv'
  <1>1. CASE DoSendAgain(p, q, ts, st)
    BY <1>1, QueueInv DEF DoSendAgain
  <1>2. CASE DoSendTooBig(p, q, ts, st)
    BY <1>2, QueueInv DEF DoSendTooBig, retxVars, trace
  <1>3. CASE ~ (isCopy /\ p = retxPkt) /\ DoSendNew(p, ts, st)
    <2>1. p \notin begun
      BY <1>3 DEF Sendable
    <2> QED BY <1>3, <2>1, DoSendNewInv
  <1> QED BY <1>1, <1>2, <1>3 DEF DoSend

(* Send keeps the invariant if its caller respects Sendable.               *)
LEMMA SendInv ==
  ASSUME TypeOK, Inv, NEW p \in Packets, NEW isCopy \in BOOLEAN,
         Sendable(p, isCopy), p <= appSent',
         appSent' = appSent \/ appSent' = appSent + 1,
         NEW ts, NEW st, Send(p, isCopy, ts, st)
  PROVE  Inv'
  <1>1. PICK d \in WaitingTimes(ts) :
          IF d = 0 THEN SendNow(p, isCopy, ts, st)
                   ELSE Postpone(p, isCopy, d, ts, st)
    BY DEF Send
  <1>2. CASE d = 0
    <2>1. CASE DoSend(p, isCopy, nextTx, ts, st)
      BY <2>1, DoSendInv
    <2>2. CASE UNCHANGED <<crash, retxVars, nextTx, dataRate, dutyLeft, fCnt, trace>>
      BY <2>2, QueueInv DEF retxVars, trace
    <2> QED BY <1>1, <1>2, <2>1, <2>2 DEF SendNow
  <1>3. CASE d # 0
    <2>1. /\ \A n, m \in nextTx' : n = m
          /\ \A n \in nextTx' : n.pkt = p /\ n.copy = isCopy
      <3> DEFINE late == \E t \in ts : t.kind = "closeRx2"
      <3>1. nextTx' = {[left |-> d, pkt |-> p, copy |-> isCopy, late |-> late]}
        BY <1>1, <1>3 DEF Postpone
      <3> HIDE DEF late
      <3> QED BY <3>1
    <2>2. UNCHANGED <<waitingAck, retxPkt, begun, acked, failed>>
      BY <1>1, <1>3 DEF Postpone, retxVars, trace
    <2>3. RetxMatchesQueue'
      <3>1. /\ waitingAck' <=> retxPkt' # NoPkt
            /\ \A n, m \in nextTx' : n = m
        BY <2>1, <2>2 DEF Inv, RetxMatchesQueue
      <3>2. \A n \in nextTx' : IF n.copy THEN n.pkt = retxPkt' ELSE n.pkt \notin begun'
        <4>1. CASE isCopy
          BY <2>1, <2>2, <4>1 DEF Sendable
        <4>2. CASE ~ isCopy
          BY <2>1, <2>2, <4>2 DEF Sendable
        <4> QED BY <4>1, <4>2
      <3> QED BY <3>1, <3>2 DEF RetxMatchesQueue
    <2>4. OneOutcome'
      BY <2>2 DEF Inv, OneOutcome
    <2>5. InOrder'
      <3>1. \A x \in begun : x <= appSent'
        BY DEF Inv, InOrder, TypeOK, SendTypes, RestTypes, Packets
      <3> QED BY <2>1, <2>2, <3>1 DEF Inv, InOrder
    <2> QED BY <2>3, <2>4, <2>5 DEF Inv
  <1> QED BY <1>2, <1>3

(* What follows a lost ACK keeps the invariant.                            *)
LEMMA RetryInv ==
  ASSUME TypeOK, Inv, waitingAck, appSent' = appSent, NEW ts, NEW st, Retry(ts, st)
  PROVE  Inv'
  <1>1. retxPkt \in Packets
    BY DEF TypeOK, SendTypes, Inv, RetxMatchesQueue
  <1>2. CASE Send(retxPkt, TRUE, ts, st)
    <2>1. Sendable(retxPkt, TRUE)
      BY DEF Sendable
    <2>2. retxPkt <= appSent'
      BY <1>1 DEF Inv, InOrder, NoPkt, Packets
    <2> QED BY <1>1, <1>2, <2>1, <2>2, SendInv
  <1>3. CASE GiveUp(ts, st)
    BY <1>1, <1>3, ConcludeInv DEF GiveUp
  <1> QED BY <1>2, <1>3 DEF Retry

(* A packet from the application keeps the invariant: it is fresh.         *)
LEMMA AppSendInv == TypeOK /\ Inv /\ AppSend => Inv'
  <1> SUFFICES ASSUME TypeOK, Inv, AppSend PROVE Inv'
    OBVIOUS
  <1>1. /\ appSent < NumPackets /\ appSent' = appSent + 1
        /\ Send(appSent', FALSE, timers, phy)
    BY DEF AppSend
  <1>2. appSent \in 0 .. NumPackets /\ NumPackets \in Nat
    BY MacAssumption DEF TypeOK, RestTypes
  <1>3. appSent' \in Packets /\ appSent' <= appSent'
    BY <1>1, <1>2 DEF Packets
  <1>4. appSent' \notin begun
    BY <1>1, <1>2 DEF Inv, InOrder
  <1>5. Sendable(appSent', FALSE)
    BY <1>4 DEF Sendable
  <1> QED BY <1>1, <1>3, <1>5, SendInv

(* The queued transmission keeps the invariant: it is not stale.           *)
LEMMA RunNextTxInv == TypeOK /\ Inv /\ RunNextTx => Inv'
  <1> SUFFICES ASSUME TypeOK, Inv, NEW n \in nextTx,
                      \/ Crash("noChannel")
                      \/ /\ DoSend(n.pkt, n.copy, {}, timers, phy)
                         /\ UNCHANGED appSent
               PROVE  Inv'
    BY DEF RunNextTx
  <1>1. CASE Crash("noChannel")
    BY <1>1, QueueInv DEF Crash, retxVars, trace
  <1>2. CASE /\ DoSend(n.pkt, n.copy, {}, timers, phy)
             /\ UNCHANGED appSent
    <2>1. n.pkt \in Packets /\ n.copy \in BOOLEAN
      BY DEF TypeOK, SendTypes, NextTxEvents
    <2>2. Sendable(n.pkt, n.copy)
      BY <2>1 DEF Sendable, Inv, RetxMatchesQueue
    <2>3. n.pkt <= appSent' /\ {} \subseteq nextTx
      BY <1>2 DEF Inv, InOrder
    <2> QED BY <1>2, <2>1, <2>2, <2>3, DoSendInv
  <1> QED BY <1>1, <1>2

(* The close of the second window keeps the invariant.                     *)
LEMMA CloseSecondInv == TypeOK /\ Inv /\ CloseSecondReceiveWindow => Inv'
  <1> SUFFICES ASSUME TypeOK, Inv, CloseSecondReceiveWindow PROVE Inv'
    OBVIOUS
  <1>1. appSent' = appSent
    BY DEF CloseSecondReceiveWindow
  <1>2. CASE UNCHANGED <<phy, crash, retxVars, nextTx, dataRate, dutyLeft,
                         fCnt, trace>>
    BY <1>1, <1>2, QueueInv DEF retxVars, trace
  <1>3. ASSUME waitingAck, NEW ts, NEW st, Retry(ts, st) PROVE Inv'
    BY <1>1, <1>3, RetryInv
  <1>4. CASE ~ waitingAck /\ Reset
             /\ UNCHANGED <<crash, dataRate, dutyLeft, fCnt, trace>>
    <2>1. waitingAck = FALSE /\ retxPkt = NoPkt
      BY <1>4 DEF TypeOK, SendTypes, Inv, RetxMatchesQueue
    <2>2. waitingAck' = FALSE /\ retxPkt' = NoPkt /\ nextTx' = {}
      BY <1>4 DEF Reset
    <2> QED BY <1>1, <1>4, <2>1, <2>2, QueueInv DEF trace
  <1> QED BY <1>2, <1>3, <1>4 DEF CloseSecondReceiveWindow

(* The end of a reception keeps the invariant, with or without an ACK.     *)
LEMMA EndReceiveInv == TypeOK /\ Inv /\ EndReceive => Inv'
  <1> SUFFICES ASSUME TypeOK, Inv, EndReceive PROVE Inv'
    OBVIOUS
  <1>1. CASE Crash("sleepInTx")
    BY <1>1, QueueInv DEF Crash, retxVars, trace
  <1>2. ASSUME NEW f, ReceiveToUs(f), appSent' = appSent PROVE Inv'
    <2>1. CASE waitingAck /\ f.ack # NoPkt
      <3>1. retxPkt \in Packets
        BY <2>1 DEF TypeOK, SendTypes, Inv, RetxMatchesQueue
      <3> QED BY <1>2, <2>1, <3>1, ConcludeInv DEF ReceiveToUs
    <2>2. CASE ~ (waitingAck /\ f.ack # NoPkt)
      BY <1>2, <2>2, QueueInv DEF ReceiveToUs, retxVars
    <2> QED BY <2>1, <2>2
  <1>3. ASSUME ReceiveForeign \/ FailedReception, appSent' = appSent PROVE Inv'
    <2>1. CASE UNCHANGED <<timers, crash, retxVars, nextTx, dataRate, dutyLeft,
                           fCnt, trace>>
      BY <1>3, <2>1, QueueInv DEF retxVars, trace
    <2>2. CASE waitingAck /\ Retry(timers, "SLEEP")
      BY <1>3, <2>2, RetryInv
    <2> QED BY <1>3, <2>1, <2>2 DEF ReceiveForeign, FailedReception
  <1> QED BY <1>1, <1>2, <1>3 DEF EndReceive

(* A tick keeps the invariant.                                             *)
LEMMA TickInv == TypeOK /\ Inv /\ Tick => Inv'
  <1> SUFFICES ASSUME TypeOK, Inv, Tick PROVE Inv'
    OBVIOUS
  <1>1. UNCHANGED <<waitingAck, retxPkt, begun, acked, failed, appSent>>
    BY DEF Tick, retxVars, trace
  <1>2. nextTx' = {[e EXCEPT !.left = @ - 1] : e \in nextTx}
    BY DEF Tick, Sooner
  <1>3. \A m \in nextTx' : \E n \in nextTx : m = [n EXCEPT !.left = @ - 1]
    BY <1>2
  <1>4. \A n \in nextTx : LET m == [n EXCEPT !.left = @ - 1]
                          IN  m.pkt = n.pkt /\ m.copy = n.copy
    BY DEF TypeOK, SendTypes, NextTxEvents
  <1>5. RetxMatchesQueue'
    <2>1. \A n, m \in nextTx' : n = m
      BY <1>3 DEF Inv, RetxMatchesQueue
    <2>2. \A n \in nextTx' : IF n.copy THEN n.pkt = retxPkt' ELSE n.pkt \notin begun'
      BY <1>1, <1>3, <1>4 DEF Inv, RetxMatchesQueue
    <2> QED BY <1>1, <2>1, <2>2 DEF Inv, RetxMatchesQueue
  <1>6. OneOutcome'
    BY <1>1 DEF Inv, OneOutcome
  <1>7. InOrder'
    BY <1>1, <1>3, <1>4 DEF Inv, InOrder
  <1> QED BY <1>5, <1>6, <1>7 DEF Inv

(* Every step keeps the invariant.                                         *)
LEMMA StepInv == TypeOK /\ Inv /\ [Next]_vars => Inv'
  <1> SUFFICES ASSUME TypeOK, Inv, [Next]_vars PROVE Inv'
    OBVIOUS
  <1>1. CASE UNCHANGED <<waitingAck, retxPkt, nextTx, begun, acked, failed, appSent>>
    BY <1>1, QueueInv
  <1>2. CASE RunNextTx                BY <1>2, RunNextTxInv
  <1>3. CASE TxFinished
    BY <1>1, <1>3 DEF TxFinished, Crash, retxVars, trace
  <1>4. CASE CloseFirstAborts
    BY <1>1, <1>4 DEF CloseFirstAborts, Crash, retxVars, trace
  <1>5. CASE WindowHandler
    BY <1>1, <1>5 DEF WindowHandler, retxVars, trace
  <1>6. CASE CloseSecondReceiveWindow BY <1>6, CloseSecondInv
  <1>7. CASE EndReceive               BY <1>7, EndReceiveInv
  <1>8. CASE Tick                     BY <1>8, TickInv
  <1>9. CASE AppSend                  BY <1>9, AppSendInv
  <1>10. CASE Arrival
    BY <1>1, <1>10 DEF Arrival, retxVars, trace
  <1>11. ASSUME NEW m \in MTypes, SetMType(m) PROVE Inv'
    BY <1>1, <1>11 DEF SetMType, retxVars, trace
  <1>12. CASE UNCHANGED vars
    BY <1>1, <1>12 DEF vars, retxVars, trace
  <1> QED BY <1>2, <1>3, <1>4, <1>5, <1>6, <1>7, <1>8, <1>9, <1>10, <1>11, <1>12
    DEF Next, Scheduler, Environment, Handler

(* The invariant holds initially.                                          *)
LEMMA InitInv == Init => Inv
  <1> SUFFICES ASSUME Init PROVE Inv
    OBVIOUS
  <1>1. RetxMatchesQueue
    BY DEF Init, RetxMatchesQueue
  <1>2. OneOutcome
    BY DEF Init, OneOutcome
  <1>3. InOrder
    BY DEF Init, InOrder
  <1> QED BY <1>1, <1>2, <1>3 DEF Inv

(* In every reachable state the variables have their types and the three   *)
(* parts of the inductive invariant hold.                                  *)
LEMMA Inductive == Spec => [](TypeOK /\ Inv)
  <1>1. Init => TypeOK /\ Inv
    BY InitType, InitInv
  <1>2. TypeOK /\ Inv /\ [Next]_vars => (TypeOK /\ Inv)'
    <2>1. Inv => RetxConsistent
      BY DEF Inv, RetxMatchesQueue, RetxConsistent
    <2> QED BY <2>1, StepType, StepInv
  <1> QED BY <1>1, <1>2, PTL DEF Spec

(* Type correctness: at every call and in every handler, for any duty      *)
(* cycle, windows and application, no event is overdue, no wait is         *)
(* negative and no counter leaves its width.                               *)
THEOREM TypeCorrect == Spec => []TypeOK
  BY Inductive, PTL

(* The queued transmission is never stale: m_nextTx holds a retransmission *)
(* of the packet that waits for its ACK, or a packet never started.        *)
THEOREM QueueIsFresh == Spec => []RetxMatchesQueue
  <1>1. Inv => RetxMatchesQueue
    BY DEF Inv
  <1> QED BY <1>1, Inductive, PTL

(* m_requiredTxCallback reports each packet at most once, and never while  *)
(* the packet still waits for its ACK.                                     *)
THEOREM OutcomeIsFinal == Spec => []OneOutcome
  <1>1. Inv => OneOutcome
    BY DEF Inv
  <1> QED BY <1>1, Inductive, PTL

-----------------------------------------------------------------------------
(* The MAC implements ReliableSend.                                        *)

Maps == [Service!AbsNext]_<<begun, retxPkt, Outcome>>

(* A step that leaves the traces alone stutters.                           *)
LEMMA StutterMaps ==
  ASSUME UNCHANGED <<begun, retxPkt, acked, failed>>
  PROVE  Maps
  BY DEF Maps, Outcome

(* A report changes the outcome of its packet only.                        *)
LEMMA ReportedOutcome ==
  ASSUME NEW p \in Packets, acked \in [Packets -> Nat], failed \in [Packets -> Nat],
         acked[p] = 0, failed[p] = 0
  PROVE  /\ /\ failed' = [failed EXCEPT ![p] = @ + 1]
            /\ acked' = acked
            => Outcome' = [Outcome EXCEPT ![p] = "failed"]
         /\ /\ acked' = [acked EXCEPT ![p] = @ + 1]
            /\ failed' = failed
            => Outcome' = [Outcome EXCEPT ![p] = "acked"]
  <1>1. ASSUME failed' = [failed EXCEPT ![p] = @ + 1], acked' = acked
        PROVE  Outcome' = [Outcome EXCEPT ![p] = "failed"]
    <2>1. \A x \in Packets : x # p => failed'[x] = failed[x]
      BY <1>1
    <2>2. failed'[p] = 1 /\ acked'[p] = 0
      BY <1>1
    <2>3. \A x \in Packets : Outcome'[x] = IF x = p THEN "failed" ELSE Outcome[x]
      BY <1>1, <2>1, <2>2 DEF Outcome
    <2> QED BY <2>3 DEF Outcome
  <1>2. ASSUME acked' = [acked EXCEPT ![p] = @ + 1], failed' = failed
        PROVE  Outcome' = [Outcome EXCEPT ![p] = "acked"]
    <2>1. \A x \in Packets : x # p => acked'[x] = acked[x]
      BY <1>2
    <2>2. acked'[p] = 1
      BY <1>2
    <2>3. \A x \in Packets : Outcome'[x] = IF x = p THEN "acked" ELSE Outcome[x]
      BY <1>2, <2>1, <2>2 DEF Outcome
    <2> QED BY <2>3 DEF Outcome
  <1> QED BY <1>1, <1>2

(* The outcome of the packet that waits maps to Conclude.                  *)
LEMMA ConcludeMaps ==
  ASSUME TypeOK, Inv, retxPkt \in Packets, retxPkt' = NoPkt, begun' = begun,
         \/ failed' = [failed EXCEPT ![retxPkt] = @ + 1] /\ acked' = acked
         \/ acked' = [acked EXCEPT ![retxPkt] = @ + 1] /\ failed' = failed
  PROVE  Maps
  <1>1. acked \in [Packets -> Nat] /\ failed \in [Packets -> Nat]
    BY DEF TypeOK, SendTypes
  <1>2. acked[retxPkt] = 0 /\ failed[retxPkt] = 0
    BY <1>1 DEF Inv, OneOutcome
  <1>3. retxPkt # NoPkt
    BY DEF NoPkt, Packets
  <1>4. CASE failed' = [failed EXCEPT ![retxPkt] = @ + 1] /\ acked' = acked
    <2>1. Outcome' = [Outcome EXCEPT ![retxPkt] = "failed"]
      BY <1>1, <1>2, <1>4, ReportedOutcome
    <2> QED BY <1>3, <2>1 DEF Maps, Service!AbsNext, Service!Conclude
  <1>5. CASE acked' = [acked EXCEPT ![retxPkt] = @ + 1] /\ failed' = failed
    <2>1. Outcome' = [Outcome EXCEPT ![retxPkt] = "acked"]
      BY <1>1, <1>2, <1>5, ReportedOutcome
    <2> QED BY <1>3, <2>1 DEF Maps, Service!AbsNext, Service!Conclude
  <1> QED BY <1>4, <1>5

(* A new packet maps to Start.                                             *)
LEMMA DoSendNewMaps ==
  ASSUME TypeOK, Inv, NEW p \in Packets, p \notin begun,
         NEW ts, NEW st, DoSendNew(p, ts, st)
  PROVE  Maps
  <1>1. /\ failed' = IF waitingAck THEN [failed EXCEPT ![retxPkt] = @ + 1] ELSE failed
        /\ begun' = begun \cup {p}
        /\ acked' = acked
    BY DEF DoSendNew
  <1>2. retxPkt' \in {p, NoPkt}
    BY DEF DoSendNew, Reset
  <1>3. Outcome' = IF retxPkt = NoPkt THEN Outcome
                                      ELSE [Outcome EXCEPT ![retxPkt] = "failed"]
    <2>1. acked \in [Packets -> Nat] /\ failed \in [Packets -> Nat]
      BY DEF TypeOK, SendTypes
    <2>2. CASE waitingAck
      <3>1. retxPkt \in Packets /\ retxPkt # NoPkt
        BY <2>2 DEF TypeOK, SendTypes, Inv, RetxMatchesQueue
      <3>2. acked[retxPkt] = 0 /\ failed[retxPkt] = 0
        <4>1. /\ acked[retxPkt] + failed[retxPkt] <= 1
              /\ acked[retxPkt] + failed[retxPkt] # 1
          BY <3>1 DEF Inv, OneOutcome
        <4>2. acked[retxPkt] \in Nat /\ failed[retxPkt] \in Nat
          BY <2>1, <3>1
        <4> QED BY <4>1, <4>2
      <3>3. failed' = [failed EXCEPT ![retxPkt] = @ + 1] /\ acked' = acked
        BY <1>1, <2>2
      <3>4. Outcome' = [Outcome EXCEPT ![retxPkt] = "failed"]
        BY <2>1, <3>1, <3>2, <3>3, ReportedOutcome
      <3> QED BY <3>1, <3>4
    <2>3. CASE ~ waitingAck
      <3>1. retxPkt = NoPkt
        BY <2>3 DEF Inv, RetxMatchesQueue, TypeOK, SendTypes
      <3>2. failed' = failed
        BY <1>1, <2>3
      <3> QED BY <1>1, <3>1, <3>2 DEF Outcome
    <2> QED BY <2>2, <2>3
  <1>4. Service!Start(p)
    BY <1>1, <1>2, <1>3 DEF Service!Start
  <1> QED BY <1>4 DEF Maps, Service!AbsNext

(* DoSend maps to Start or stutters.                                       *)
LEMMA DoSendMaps ==
  ASSUME TypeOK, Inv, NEW p \in Packets, NEW isCopy \in BOOLEAN,
         Sendable(p, isCopy), NEW q, NEW ts, NEW st,
         DoSend(p, isCopy, q, ts, st)
  PROVE  Maps
  <1>1. CASE DoSendAgain(p, q, ts, st)
    BY <1>1, StutterMaps DEF DoSendAgain
  <1>2. CASE DoSendTooBig(p, q, ts, st)
    BY <1>2, StutterMaps DEF DoSendTooBig, retxVars, trace
  <1>3. CASE ~ (isCopy /\ p = retxPkt) /\ DoSendNew(p, ts, st)
    <2>1. p \notin begun
      BY <1>3 DEF Sendable
    <2> QED BY <1>3, <2>1, DoSendNewMaps
  <1> QED BY <1>1, <1>2, <1>3 DEF DoSend

(* Send maps to Start or stutters.                                         *)
LEMMA SendMaps ==
  ASSUME TypeOK, Inv, NEW p \in Packets, NEW isCopy \in BOOLEAN,
         Sendable(p, isCopy), NEW ts, NEW st, Send(p, isCopy, ts, st)
  PROVE  Maps
  <1>1. PICK d \in WaitingTimes(ts) :
          IF d = 0 THEN SendNow(p, isCopy, ts, st)
                   ELSE Postpone(p, isCopy, d, ts, st)
    BY DEF Send
  <1>2. CASE SendNow(p, isCopy, ts, st)
    <2>1. CASE DoSend(p, isCopy, nextTx, ts, st)
      BY <2>1, DoSendMaps
    <2>2. CASE UNCHANGED <<crash, retxVars, nextTx, dataRate, dutyLeft, fCnt, trace>>
      BY <2>2, StutterMaps DEF retxVars, trace
    <2> QED BY <1>2, <2>1, <2>2 DEF SendNow
  <1>3. CASE Postpone(p, isCopy, d, ts, st)
    BY <1>3, StutterMaps DEF Postpone, retxVars, trace
  <1> QED BY <1>1, <1>2, <1>3

(* What follows a lost ACK maps to Conclude or stutters.                   *)
LEMMA RetryMaps ==
  ASSUME TypeOK, Inv, waitingAck, NEW ts, NEW st, Retry(ts, st)
  PROVE  Maps
  <1>1. retxPkt \in Packets
    BY DEF TypeOK, SendTypes, Inv, RetxMatchesQueue
  <1>2. CASE Send(retxPkt, TRUE, ts, st)
    <2>1. Sendable(retxPkt, TRUE)
      BY DEF Sendable
    <2> QED BY <1>1, <1>2, <2>1, SendMaps
  <1>3. CASE GiveUp(ts, st)
    BY <1>1, <1>3, ConcludeMaps DEF GiveUp, Reset
  <1> QED BY <1>2, <1>3 DEF Retry

(* The end of a reception maps to Conclude or stutters.                    *)
LEMMA EndReceiveMaps == TypeOK /\ Inv /\ EndReceive => Maps
  <1> SUFFICES ASSUME TypeOK, Inv, EndReceive PROVE Maps
    OBVIOUS
  <1>1. CASE Crash("sleepInTx")
    BY <1>1, StutterMaps DEF Crash, retxVars, trace
  <1>2. ASSUME NEW f, ReceiveToUs(f) PROVE Maps
    <2>1. CASE waitingAck /\ f.ack # NoPkt
      <3>1. retxPkt \in Packets
        BY <2>1 DEF TypeOK, SendTypes, Inv, RetxMatchesQueue
      <3> QED BY <1>2, <2>1, <3>1, ConcludeMaps DEF ReceiveToUs, Reset
    <2>2. CASE ~ (waitingAck /\ f.ack # NoPkt)
      BY <1>2, <2>2, StutterMaps DEF ReceiveToUs, retxVars
    <2> QED BY <2>1, <2>2
  <1>3. CASE ReceiveForeign \/ FailedReception
    <2>1. CASE UNCHANGED <<timers, crash, retxVars, nextTx, dataRate, dutyLeft,
                           fCnt, trace>>
      BY <2>1, StutterMaps DEF retxVars, trace
    <2>2. CASE waitingAck /\ Retry(timers, "SLEEP")
      BY <2>2, RetryMaps
    <2> QED BY <1>3, <2>1, <2>2 DEF ReceiveForeign, FailedReception
  <1> QED BY <1>1, <1>2, <1>3 DEF EndReceive

(* The close of the second window maps to Conclude or stutters.            *)
LEMMA CloseSecondMaps == TypeOK /\ Inv /\ CloseSecondReceiveWindow => Maps
  <1> SUFFICES ASSUME TypeOK, Inv, CloseSecondReceiveWindow PROVE Maps
    OBVIOUS
  <1>1. CASE UNCHANGED <<phy, crash, retxVars, nextTx, dataRate, dutyLeft,
                         fCnt, trace>>
    BY <1>1, StutterMaps DEF retxVars, trace
  <1>2. ASSUME waitingAck, NEW ts, NEW st, Retry(ts, st) PROVE Maps
    BY <1>2, RetryMaps
  <1>3. CASE ~ waitingAck /\ Reset
             /\ UNCHANGED <<crash, dataRate, dutyLeft, fCnt, trace>>
    <2>1. retxPkt = NoPkt
      BY <1>3 DEF TypeOK, SendTypes, Inv, RetxMatchesQueue
    <2> QED BY <1>3, <2>1, StutterMaps DEF Reset, trace
  <1> QED BY <1>1, <1>2, <1>3 DEF CloseSecondReceiveWindow

(* The queued transmission maps to Start or stutters.                      *)
LEMMA RunNextTxMaps == TypeOK /\ Inv /\ RunNextTx => Maps
  <1> SUFFICES ASSUME TypeOK, Inv, NEW n \in nextTx,
                      \/ Crash("noChannel")
                      \/ DoSend(n.pkt, n.copy, {}, timers, phy)
               PROVE  Maps
    BY DEF RunNextTx
  <1>1. CASE Crash("noChannel")
    BY <1>1, StutterMaps DEF Crash, retxVars, trace
  <1>2. CASE DoSend(n.pkt, n.copy, {}, timers, phy)
    <2>1. n.pkt \in Packets /\ n.copy \in BOOLEAN
      BY DEF TypeOK, SendTypes, NextTxEvents
    <2>2. Sendable(n.pkt, n.copy)
      BY <2>1 DEF Sendable, Inv, RetxMatchesQueue
    <2> QED BY <1>2, <2>1, <2>2, DoSendMaps
  <1> QED BY <1>1, <1>2

(* A packet from the application maps to Start or stutters.                *)
LEMMA AppSendMaps == TypeOK /\ Inv /\ AppSend => Maps
  <1> SUFFICES ASSUME TypeOK, Inv, AppSend PROVE Maps
    OBVIOUS
  <1>1. /\ appSent < NumPackets /\ appSent' = appSent + 1
        /\ Send(appSent', FALSE, timers, phy)
    BY DEF AppSend
  <1>2. appSent \in 0 .. NumPackets /\ NumPackets \in Nat
    BY MacAssumption DEF TypeOK, RestTypes
  <1>3. appSent' \in Packets /\ appSent' \notin begun
    BY <1>1, <1>2 DEF Packets, Inv, InOrder
  <1>4. Sendable(appSent', FALSE)
    BY <1>3 DEF Sendable
  <1> QED BY <1>1, <1>3, <1>4, SendMaps

(* Every step is one of ReliableSend, or stutters.                         *)
LEMMA StepMaps == TypeOK /\ Inv /\ [Next]_vars => Maps
  <1> SUFFICES ASSUME TypeOK, Inv, [Next]_vars PROVE Maps
    OBVIOUS
  <1>1. CASE RunNextTx                BY <1>1, RunNextTxMaps
  <1>2. CASE TxFinished
    BY <1>2, StutterMaps DEF TxFinished, Crash, retxVars, trace
  <1>3. CASE CloseFirstAborts
    BY <1>3, StutterMaps DEF CloseFirstAborts, Crash, retxVars, trace
  <1>4. CASE WindowHandler
    BY <1>4, StutterMaps DEF WindowHandler, retxVars, trace
  <1>5. CASE CloseSecondReceiveWindow BY <1>5, CloseSecondMaps
  <1>6. CASE EndReceive               BY <1>6, EndReceiveMaps
  <1>7. CASE Tick
    BY <1>7, StutterMaps DEF Tick, retxVars, trace
  <1>8. CASE AppSend                  BY <1>8, AppSendMaps
  <1>9. CASE Arrival
    BY <1>9, StutterMaps DEF Arrival, retxVars, trace
  <1>10. ASSUME NEW m \in MTypes, SetMType(m) PROVE Maps
    BY <1>10, StutterMaps DEF SetMType, retxVars, trace
  <1>11. CASE UNCHANGED vars
    BY <1>11, StutterMaps DEF vars, retxVars, trace
  <1> QED BY <1>1, <1>2, <1>3, <1>4, <1>5, <1>6, <1>7, <1>8, <1>9, <1>10, <1>11
    DEF Next, Scheduler, Environment, Handler

(* The MAC implements ReliableSend: whatever the application, the channel  *)
(* and the duty cycle do, a packet is started once, at most one waits for  *)
(* its ACK, and the one that waits ends with one final outcome.            *)
THEOREM Refinement == Spec => ImplementsService
  <1>1. Init => Service!AbsInit
    BY DEF Init, Service!AbsInit, Outcome
  <1>2. TypeOK /\ Inv /\ [Next]_vars
          => [Service!AbsNext]_<<begun, retxPkt, Outcome>>
    BY StepMaps DEF Maps
  <1> QED BY <1>1, <1>2, Inductive, PTL DEF Spec, ImplementsService, Service!AbsSpec
-----------------------------------------------------------------------------
(* With a duty cycle that outlasts the windows.                            *)

(* All channels share a sub-band, the first window opens before the        *)
(* second, and the sub-band stays closed until the windows after a         *)
(* transmission, and a reception begun at their very end, are over.        *)
LongDutyCycle ==
  /\ \A b, c \in Channels : b = c
  /\ ReceiveDelay1 < ReceiveDelay2
  /\ \A dr \in DataRates, d \in RxDurations \cup {0} :
       /\ TimeOnAir[dr] + TxGap + ReceiveDelay1 + Rx1Len + d < OffTime[dr]
       /\ TimeOnAir[dr] + TxGap + ReceiveDelay2 + Rx2Len + d < OffTime[dr]

(* Timer t, the windows it leads to and a reception begun in them are over *)
(* before w ticks have passed.                                             *)
EndsBefore(t, w) ==
  \A d \in RxDurations \cup {0} :
    /\ t.left + d < w
    /\ t.kind = "openRx1" => t.left + Rx1Len + d < w
    /\ t.kind = "openRx2" => t.left + Rx2Len + d < w
    /\ t.kind = "txFinished" => /\ t.left + ReceiveDelay1 + Rx1Len + d < w
                                /\ t.left + ReceiveDelay2 + Rx2Len + d < w

(* Everything that is pending is over before the sub-band opens; a queued  *)
(* transmission waits at least until then.                                 *)
OverInTime ==
  \A c \in Channels :
    /\ \A t \in timers : EndsBefore(t, dutyLeft[c])
    /\ \A r \in receiving : r.left < dutyLeft[c]
    /\ \A n \in nextTx : n.left >= dutyLeft[c]

(* The pending timers are those of one transmission, in its order: while   *)
(* it lasts and until TxFinished no window is scheduled, the radio sleeps  *)
(* until the first window opens, the second is not open twice.             *)
OneTransmission ==
  /\ \A s, t \in timers : s.kind = t.kind => s = t
  /\ ~ Pending("orphanRx2")
  /\ Pending("txStandby") => Pending("txFinished")
  /\ Pending("txFinished") => \A t \in timers : t.kind \in {"txStandby", "txFinished"}
  /\ \A s \in timers : s.kind = "openRx1" =>
       /\ phy = "SLEEP"
       /\ \A t \in timers \ {s} : t.kind = "openRx2" /\ t.left > s.left
  /\ Pending("openRx2") => ~ Pending("closeRx2")

(* The radio and the events that drive it, one transmission at a time.     *)
RadioInv == OverInTime /\ OneTransmission /\ RadioMatchesEvents

(* A retransmission is queued only while there is one left, and what went  *)
(* on the air was started.                                                 *)
BudgetLeft ==
  /\ waitingAck => retxLeft < MaxTx
  /\ \A n \in nextTx : n.copy => retxLeft > 0
  /\ \A p \in Packets : onAir[p] > 0 => p \in begun

(* The transmissions that are left and those that were made.               *)
BudgetInv == BudgetLeft /\ BudgetIsSpentOnAir /\ AckedWasOnAir

DutyInv == RadioInv /\ BudgetInv /\ NoAbort

(* The delays are positive.                                                *)
LEMMA DelaysType ==
  /\ ReceiveDelay1 \in Nat /\ ReceiveDelay2 \in Nat
  /\ Rx1Len \in Nat /\ Rx2Len \in Nat /\ TxGap \in Nat
  /\ RxDurations \subseteq Nat
  BY MacAssumption, PhyAssumption

(* While something is pending the sub-band is closed; when it is open the  *)
(* radio sleeps.                                                           *)
LEMMA OpenIsIdle ==
  ASSUME TypeOK, RadioInv, NEW c \in Channels, dutyLeft[c] = 0
  PROVE  timers = {} /\ receiving = {} /\ phy = "SLEEP"
  <1>1. timers = {}
    <2> SUFFICES ASSUME NEW t \in timers PROVE FALSE
      OBVIOUS
    <2>1. EndsBefore(t, 0)
      BY DEF RadioInv, OverInTime
    <2>2. t.left \in Nat
      BY DEF TypeOK, SendTypes, Timers
    <2> QED BY <2>1, <2>2 DEF EndsBefore
  <1>2. receiving = {}
    <2> SUFFICES ASSUME NEW r \in receiving PROVE FALSE
      OBVIOUS
    <2>1. r.left < 0
      BY DEF RadioInv, OverInTime
    <2>2. r.left \in Nat
      BY DEF TypeOK, RestTypes
    <2> QED BY <2>1, <2>2
  <1>3. phy # "TX" /\ phy # "RX" /\ phy # "STANDBY"
    BY <1>1, <1>2 DEF RadioInv, RadioMatchesEvents, Pending
  <1> QED BY <1>1, <1>2, <1>3 DEF TypeOK, SendTypes, PhyStates

LEMMA PendingIsClosed ==
  ASSUME TypeOK, RadioInv, NEW c \in Channels, timers # {} \/ receiving # {}
  PROVE  dutyLeft[c] > 0
  <1>1. dutyLeft[c] \in Nat
    BY DEF TypeOK, SendTypes
  <1> QED BY <1>1, OpenIsIdle

(* With one sub-band, Send waits until it opens, and finds a channel then. *)
LEMMA WaitsForBand ==
  ASSUME LongDutyCycle, TypeOK, NEW c \in Channels, NEW ts
  PROVE  /\ \A d \in WaitingTimes(ts) : d >= dutyLeft[c]
         /\ dutyLeft[c] = 0 => FreeChannels = {c}
  <1>1. enabled \subseteq {c} /\ enabled # {} /\ Channels = {c}
    BY DEF LongDutyCycle, TypeOK, RestTypes
  <1>2. dutyLeft[c] \in Nat
    BY DEF TypeOK, SendTypes
  <1>3. DutyWaits \subseteq {dutyLeft[c]}
    BY <1>1 DEF DutyWaits
  <1>4. \A w \in Nat, x \in Int : Larger(w, x) >= w
    BY DEF Larger
  <1>5. \A d \in WaitingTimes(ts) : d >= dutyLeft[c]
    <2> SUFFICES ASSUME NEW d \in WaitingTimes(ts) PROVE d >= dutyLeft[c]
      OBVIOUS
    <2>1. AckTimeouts \subseteq Int /\ Rx2Len \in Int /\ rx2In \in Int
      BY MacAssumption DEF TypeOK, RestTypes
    <2>2. CASE waitingAck
      <3>1. PICK w \in DutyWaits, u \in AckTimeouts : d = Larger(w, rx2In + u)
        BY <2>2 DEF WaitingTimes
      <3>2. rx2In + u \in Int /\ w = dutyLeft[c]
        BY <1>3, <2>1, <3>1
      <3> QED BY <1>2, <1>4, <3>1, <3>2
    <2>3. CASE ~ waitingAck
      <3>1. PICK w \in DutyWaits :
              d = IF WindowsPending(ts) THEN Larger(w, rx2In + Rx2Len) ELSE w
        BY <2>3 DEF WaitingTimes
      <3>2. rx2In + Rx2Len \in Int /\ w = dutyLeft[c]
        BY <1>3, <2>1, <3>1
      <3> QED BY <1>2, <1>4, <3>1, <3>2
    <2> QED BY <2>2, <2>3
  <1>6. dutyLeft[c] = 0 => FreeChannels = {c}
    BY <1>1 DEF FreeChannels
  <1> QED BY <1>5, <1>6

-----------------------------------------------------------------------------
(* The radio.                                                              *)

(* Events are only removed, and the radio is put to sleep: no window opens *)
(* and nothing is transmitted or received.                                 *)
LEMMA FewerEvents ==
  ASSUME TypeOK, RadioInv, timers' \subseteq timers, receiving' = {},
         phy' = "SLEEP", UNCHANGED dutyLeft, ~ Pending("txStandby"),
         \A c \in Channels, n \in nextTx' : n.left >= dutyLeft[c]
  PROVE  RadioInv'
  <1>1. OverInTime'
    BY DEF RadioInv, OverInTime, EndsBefore
  <1>2. OneTransmission'
    BY DEF RadioInv, OneTransmission, Pending
  <1>3. RadioMatchesEvents'
    BY DEF RadioMatchesEvents, Pending
  <1> QED BY <1>1, <1>2, <1>3 DEF RadioInv

(* Only the queue changes.                                                 *)
LEMMA QueueRadio ==
  ASSUME TypeOK, RadioInv, UNCHANGED <<phy, timers, receiving, dutyLeft>>,
         \A c \in Channels, n \in nextTx' : n.left >= dutyLeft[c]
  PROVE  RadioInv'
  <1>1. OverInTime'
    BY DEF RadioInv, OverInTime, EndsBefore
  <1>2. OneTransmission'
    BY DEF RadioInv, OneTransmission, Pending
  <1>3. RadioMatchesEvents'
    BY DEF RadioInv, RadioMatchesEvents, Pending
  <1> QED BY <1>1, <1>2, <1>3 DEF RadioInv

(* A transmission that finds the sub-band open closes it long enough.      *)
LEMMA TransmitRadio ==
  ASSUME LongDutyCycle, TypeOK, RadioInv,
         NEW c \in Channels, dutyLeft[c] = 0,
         NEW p \in Packets, NEW left \in Nat, left < 256,
         SendToPhy(p, left, timers, phy), receiving' = receiving, nextTx' = {}
  PROVE  RadioInv' /\ onAir' = [onAir EXCEPT ![p] = @ + 1]
  <1>1. timers = {} /\ receiving = {} /\ phy = "SLEEP"
    BY OpenIsIdle
  <1>2. dataRate' \in DataRates
    BY SendToPhyType DEF TypeOK, SendTypes
  <1> DEFINE toa == TimeOnAir[dataRate']
             off == OffTime[dataRate']
  <1>3. toa \in Nat /\ off \in Nat /\ toa > 0
    BY <1>2, MacAssumption
  <1>4. /\ timers' = {Timer("txStandby", toa), Timer("txFinished", toa + TxGap)}
        /\ phy' = "TX"
        /\ onAir' = [onAir EXCEPT ![p] = @ + 1]
    BY <1>1 DEF SendToPhy, SendTimers, SendState, CanSend
  <1>5. dutyLeft'[c] = off
    <2>1. FreeChannels = {c}
      BY WaitsForBand
    <2>2. dutyLeft' = [dutyLeft EXCEPT ![c] = off]
      BY <2>1 DEF SendToPhy
    <2> QED BY <2>2 DEF TypeOK, SendTypes
  <1>6. \A d \in RxDurations \cup {0} :
          /\ toa + TxGap + ReceiveDelay1 + Rx1Len + d < off
          /\ toa + TxGap + ReceiveDelay2 + Rx2Len + d < off
    BY <1>2 DEF LongDutyCycle
  <1> HIDE DEF toa, off
  <1>7. OverInTime'
    <2>1. \A t \in timers' : EndsBefore(t, off)
      <3>1. \A d \in RxDurations \cup {0} : d \in Nat
        BY DelaysType
      <3>2. EndsBefore(Timer("txStandby", toa), off)
        BY <1>3, <1>6, <3>1, DelaysType DEF EndsBefore, Timer
      <3>3. EndsBefore(Timer("txFinished", toa + TxGap), off)
        BY <1>3, <1>6, <3>1, DelaysType DEF EndsBefore, Timer
      <3> QED BY <1>4, <3>2, <3>3
    <2>2. \A b \in Channels : dutyLeft'[b] = off
      BY <1>5 DEF LongDutyCycle
    <2> QED BY <1>1, <2>1, <2>2 DEF OverInTime, EndsBefore
  <1>8. OneTransmission'
    BY <1>4 DEF OneTransmission, Pending, Timer
  <1>9. RadioMatchesEvents'
    BY <1>1, <1>4 DEF RadioMatchesEvents, Pending, Timer
  <1> QED BY <1>4, <1>7, <1>8, <1>9 DEF RadioInv

(* TxStandby ends the transmission; TxFinished is still to come.           *)
LEMMA TxStandbyRadio ==
  ASSUME TypeOK, RadioInv, TxStandby, UNCHANGED <<nextTx, dutyLeft>>
  PROVE  RadioInv'
  <1> DEFINE e == Timer("txStandby", 0)
  <1>1. /\ e \in timers /\ e.kind = "txStandby"
        /\ timers' = timers \ {e} /\ phy' = "STANDBY" /\ receiving' = receiving
    BY DEF TxStandby, DueNow, Fired, Timer
  <1> HIDE DEF e
  <1>2. Pending("txStandby") /\ Pending("txFinished")
    BY <1>1 DEF RadioInv, OneTransmission, Pending
  <1>3. phy = "TX" /\ receiving = {}
    BY <1>2 DEF RadioInv, RadioMatchesEvents
  <1>4. Pending("txFinished")' /\ ~ Pending("txStandby")'
    BY <1>1, <1>2 DEF RadioInv, OneTransmission, Pending
  <1>5. OverInTime'
    BY <1>1 DEF RadioInv, OverInTime, EndsBefore
  <1>6. \A t \in timers : t.kind \in {"txStandby", "txFinished"}
    BY <1>2 DEF RadioInv, OneTransmission
  <1>7. OneTransmission'
    <2>1. \A s, t \in timers' : s.kind = t.kind => s = t
      BY <1>1 DEF RadioInv, OneTransmission
    <2>2. \A t \in timers' : t.kind = "txFinished"
      BY <1>4, <1>1, <1>6 DEF Pending
    <2> QED BY <1>4, <2>1, <2>2 DEF OneTransmission, Pending
  <1>8. RadioMatchesEvents'
    BY <1>1, <1>3, <1>4 DEF RadioMatchesEvents
  <1> QED BY <1>5, <1>7, <1>8 DEF RadioInv

(* TxFinished schedules the two windows, which end before the sub-band     *)
(* opens.                                                                  *)
LEMMA TxFinishedRadio ==
  ASSUME LongDutyCycle, TypeOK, RadioInv, TxFinished, SleepOk(phy)
  PROVE  RadioInv'
  <1> DEFINE e == Timer("txFinished", 0)
             w1 == Timer("openRx1", ReceiveDelay1)
             w2 == Timer("openRx2", ReceiveDelay2)
  <1>1. /\ e \in timers /\ e.kind = "txFinished" /\ e.left = 0
        /\ timers' = {IF t.kind = "openRx2" THEN Timer("orphanRx2", t.left) ELSE t :
                        t \in timers \ {e}} \cup {w1, w2}
        /\ phy' = "SLEEP"
        /\ UNCHANGED <<receiving, nextTx, dutyLeft>>
    BY DEF TxFinished, DueNow, Fired, Timer, linkVars
  <1>2. /\ w1.kind = "openRx1" /\ w1.left = ReceiveDelay1
        /\ w2.kind = "openRx2" /\ w2.left = ReceiveDelay2
    BY DEF Timer
  <1> HIDE DEF e, w1, w2
  <1>3. phy = "STANDBY" /\ receiving = {} /\ ~ Pending("txStandby")
    BY DEF SleepOk, RadioInv, RadioMatchesEvents
  <1>4. \A t \in timers : t = e
    BY <1>1, <1>3 DEF RadioInv, OneTransmission, Pending
  <1>5. timers' = {w1, w2}
    BY <1>1, <1>4
  <1>6. OverInTime'
    <2> SUFFICES ASSUME NEW c \in Channels
                 PROVE  /\ EndsBefore(w1, dutyLeft[c]) /\ EndsBefore(w2, dutyLeft[c])
                        /\ \A n \in nextTx : n.left >= dutyLeft[c]
      BY <1>1, <1>3, <1>5 DEF OverInTime, EndsBefore
    <2>1. EndsBefore(e, dutyLeft[c]) /\ \A n \in nextTx : n.left >= dutyLeft[c]
      BY <1>1 DEF RadioInv, OverInTime
    <2>2. dutyLeft[c] \in Nat /\ \A d \in RxDurations \cup {0} : d \in Nat
      BY DelaysType DEF TypeOK, SendTypes
    <2> QED BY <1>1, <1>2, <2>1, <2>2, DelaysType DEF EndsBefore
  <1>7. OneTransmission'
    BY <1>1, <1>2, <1>5 DEF OneTransmission, Pending, LongDutyCycle
  <1>8. RadioMatchesEvents'
    BY <1>1, <1>2, <1>3, <1>5 DEF RadioMatchesEvents, Pending
  <1> QED BY <1>6, <1>7, <1>8 DEF RadioInv

(* The first window opens on a sleeping radio, and nothing but the opening *)
(* of the second is pending.                                               *)
LEMMA OpenFirstRadio ==
  ASSUME TypeOK, RadioInv, OpenFirstReceiveWindow, UNCHANGED <<nextTx, dutyLeft>>
  PROVE  RadioInv'
  <1> DEFINE e == Timer("openRx1", 0)
             w == Timer("closeRx1", Rx1Len)
  <1>1. /\ e \in timers /\ e.kind = "openRx1" /\ e.left = 0
        /\ timers' = (timers \ {e}) \cup {w}
        /\ phy' = "STANDBY" /\ receiving' = receiving
        /\ w.kind = "closeRx1" /\ w.left = Rx1Len
    BY DEF OpenFirstReceiveWindow, DueNow, Fired, Timer
  <1> HIDE DEF e, w
  <1>2. /\ phy = "SLEEP" /\ receiving = {}
        /\ \A t \in timers \ {e} : t.kind = "openRx2"
    BY <1>1 DEF RadioInv, OneTransmission, RadioMatchesEvents
  <1>3. OverInTime'
    <2> SUFFICES ASSUME NEW c \in Channels PROVE EndsBefore(w, dutyLeft[c])
      BY <1>1 DEF RadioInv, OverInTime, EndsBefore
    <2>1. EndsBefore(e, dutyLeft[c])
      BY <1>1 DEF RadioInv, OverInTime
    <2>2. dutyLeft[c] \in Nat /\ \A d \in RxDurations \cup {0} : d \in Nat
      BY DelaysType DEF TypeOK, SendTypes
    <2> QED BY <1>1, <2>1, <2>2, DelaysType DEF EndsBefore
  <1>4. OneTransmission'
    BY <1>1, <1>2 DEF RadioInv, OneTransmission, Pending
  <1>5. RadioMatchesEvents'
    BY <1>1, <1>2 DEF RadioMatchesEvents, Pending
  <1> QED BY <1>3, <1>4, <1>5 DEF RadioInv

(* While a window is open no other window is about to open before it, and  *)
(* nothing is transmitted.                                                 *)
LEMMA OpenWindow ==
  ASSUME RadioInv, NEW e \in timers, e.kind \in {"closeRx1", "openRx2", "closeRx2"},
         e.kind = "openRx2" => e.left = 0,
         TypeOK
  PROVE  /\ phy # "TX" /\ ~ Pending("txStandby") /\ ~ Pending("txFinished")
         /\ ~ Pending("openRx1")
  <1>1. ~ Pending("txStandby") /\ ~ Pending("txFinished")
    BY DEF RadioInv, OneTransmission, Pending
  <1>2. ~ Pending("openRx1")
    <2> SUFFICES ASSUME NEW s \in timers, s.kind = "openRx1" PROVE FALSE
      BY DEF Pending
    <2>1. e.kind = "openRx2" /\ e.left > s.left
      BY DEF RadioInv, OneTransmission
    <2>2. s.left \in Nat
      BY DEF TypeOK, SendTypes, Timers
    <2> QED BY <2>1, <2>2
  <1> QED BY <1>1, <1>2 DEF RadioInv, RadioMatchesEvents

(* The close of the first window puts a radio that listens to sleep.       *)
LEMMA CloseFirstRadio ==
  ASSUME TypeOK, RadioInv, CloseFirstReceiveWindow, UNCHANGED <<nextTx, dutyLeft>>
  PROVE  RadioInv'
  <1> DEFINE e == Timer("closeRx1", 0)
  <1>1. /\ e \in timers /\ e.kind = "closeRx1"
        /\ timers' = timers \ {e}
        /\ phy' = IF phy = "STANDBY" THEN "SLEEP" ELSE phy
        /\ receiving' = receiving
    BY DEF CloseFirstReceiveWindow, DueNow, Fired, Timer
  <1> HIDE DEF e
  <1>2. /\ phy # "TX" /\ ~ Pending("txStandby") /\ ~ Pending("txFinished")
        /\ ~ Pending("openRx1")
    BY <1>1, OpenWindow
  <1>3. OverInTime'
    BY <1>1 DEF RadioInv, OverInTime, EndsBefore
  <1>4. OneTransmission'
    BY <1>1, <1>2 DEF RadioInv, OneTransmission, Pending
  <1>5. RadioMatchesEvents'
    BY <1>1, <1>2 DEF RadioInv, RadioMatchesEvents, Pending
  <1> QED BY <1>3, <1>4, <1>5 DEF RadioInv

(* The second window opens unless the radio receives.                      *)
LEMMA OpenSecondRadio ==
  ASSUME TypeOK, RadioInv, NEW k \in {"openRx2", "orphanRx2"},
         OpenSecondReceiveWindow(k), UNCHANGED <<nextTx, dutyLeft>>
  PROVE  RadioInv'
  <1> DEFINE e == Timer(k, 0)
             w == Timer("closeRx2", Rx2Len)
  <1>1. /\ e \in timers /\ e.kind = k /\ e.left = 0
        /\ \/ phy = "RX" /\ phy' = phy /\ timers' = timers \ {e}
           \/ phy # "RX" /\ phy' = "STANDBY" /\ timers' = (timers \ {e}) \cup {w}
        /\ receiving' = receiving
        /\ w.kind = "closeRx2" /\ w.left = Rx2Len
    BY DEF OpenSecondReceiveWindow, DueNow, Fired, Timer
  <1> HIDE DEF e, w
  <1>2. k = "openRx2"
    BY <1>1 DEF RadioInv, OneTransmission, Pending
  <1>3. /\ phy # "TX" /\ ~ Pending("txStandby") /\ ~ Pending("txFinished")
        /\ ~ Pending("openRx1")
    BY <1>1, <1>2, OpenWindow
  <1>4. ~ Pending("closeRx2") /\ ~ Pending("orphanRx2")
    BY <1>1, <1>2 DEF RadioInv, OneTransmission, Pending
  <1>5. OverInTime'
    <2> SUFFICES ASSUME NEW c \in Channels PROVE EndsBefore(w, dutyLeft[c])
      BY <1>1 DEF RadioInv, OverInTime, EndsBefore
    <2>1. EndsBefore(e, dutyLeft[c])
      BY <1>1 DEF RadioInv, OverInTime
    <2>2. dutyLeft[c] \in Nat /\ \A d \in RxDurations \cup {0} : d \in Nat
      BY DelaysType DEF TypeOK, SendTypes
    <2> QED BY <1>1, <1>2, <2>1, <2>2, DelaysType DEF EndsBefore
  <1>6. OneTransmission'
    <2>1. \A s, t \in timers : s.kind = t.kind => s = t
      BY DEF RadioInv, OneTransmission
    <2>2. \A t \in timers' : \/ t \in timers /\ t # e
                             \/ t = w
      BY <1>1
    <2>3. \A t \in timers' : t.kind # "openRx2"
      BY <1>1, <1>2, <2>1, <2>2
    <2> QED BY <1>1, <1>3, <1>4, <2>1, <2>2, <2>3 DEF OneTransmission, Pending
  <1>7. RadioMatchesEvents'
    BY <1>1, <1>3 DEF RadioInv, RadioMatchesEvents, Pending
  <1> QED BY <1>5, <1>6, <1>7 DEF RadioInv

(* A reception begins in an open window, or between the end of a           *)
(* transmission and TxFinished: it is over before the sub-band opens.      *)
LEMMA ArrivalRadio ==
  ASSUME TypeOK, RadioInv, Arrival
  PROVE  RadioInv'
  <1>1. PICK f \in HeardFrames, d \in RxDurations : StartReceive(f, d)
    BY DEF Arrival
  <1> DEFINE r == [left |-> d, frame |-> f]
  <1>2. /\ phy = "STANDBY" /\ phy' = "RX" /\ timers' = timers
        /\ receiving' = receiving \cup {r}
        /\ UNCHANGED <<nextTx, dutyLeft>>
    BY <1>1 DEF StartReceive, Arrival, linkVars
  <1>3. receiving = {} /\ ~ Pending("txStandby")
    BY <1>2 DEF RadioInv, RadioMatchesEvents
  <1>4. receiving' = {r} /\ r.left = d
    BY <1>2, <1>3
  <1> HIDE DEF r
  <1>5. PICK t \in timers : t.kind \in {"txFinished", "closeRx1", "closeRx2"}
    BY <1>2 DEF RadioInv, RadioMatchesEvents, Pending
  <1>6. OverInTime'
    <2> SUFFICES ASSUME NEW c \in Channels PROVE d < dutyLeft[c]
      BY <1>2, <1>4 DEF RadioInv, OverInTime, EndsBefore
    <2>1. t.left + d < dutyLeft[c]
      BY <1>5 DEF RadioInv, OverInTime, EndsBefore
    <2>2. t.left \in Nat /\ dutyLeft[c] \in Nat /\ d \in Nat
      BY DelaysType DEF TypeOK, SendTypes, Timers
    <2> QED BY <2>1, <2>2
  <1>7. OneTransmission'
    BY <1>2 DEF RadioInv, OneTransmission, Pending
  <1>8. RadioMatchesEvents'
    BY <1>2, <1>3, <1>4 DEF RadioMatchesEvents, Pending
  <1> QED BY <1>6, <1>7, <1>8 DEF RadioInv

(* A tick brings all events and the opening of the sub-band nearer alike.  *)
LEMMA TickRadio ==
  ASSUME TypeOK, RadioInv, Tick
  PROVE  RadioInv'
  <1>1. /\ timers' = {[e EXCEPT !.left = @ - 1] : e \in timers}
        /\ receiving' = {[e EXCEPT !.left = @ - 1] : e \in receiving}
        /\ nextTx' = {[e EXCEPT !.left = @ - 1] : e \in nextTx}
        /\ dutyLeft' = [c \in Channels |-> Larger(dutyLeft[c] - 1, 0)]
        /\ phy' = phy
        /\ \A e \in nextTx : e.left > 0
    BY DEF Tick, Sooner, NothingDue
  <1>2. /\ \A t \in timers' : \E s \in timers :
             t = [s EXCEPT !.left = @ - 1] /\ t.kind = s.kind /\ t.left = s.left - 1
        /\ \A s \in timers : \E t \in timers' : t.kind = s.kind
    <2>1. \A s \in timers : LET t == [s EXCEPT !.left = @ - 1]
                            IN  t.kind = s.kind /\ t.left = s.left - 1
      BY DEF TypeOK, SendTypes, Timers
    <2>2. \A t \in timers' : \E s \in timers : t = [s EXCEPT !.left = @ - 1]
      BY <1>1
    <2>3. \A s \in timers : [s EXCEPT !.left = @ - 1] \in timers'
      BY <1>1
    <2> QED BY <2>1, <2>2, <2>3
  <1>3. /\ \A q \in receiving' : \E r \in receiving :
             q = [r EXCEPT !.left = @ - 1] /\ q.left = r.left - 1
        /\ receiving = {} <=> receiving' = {}
    BY <1>1 DEF TypeOK, RestTypes
  <1>4. \A m \in nextTx' : \E n \in nextTx : m.left = n.left - 1
    BY <1>1 DEF TypeOK, SendTypes, NextTxEvents
  <1>5. \A k : Pending(k)' <=> Pending(k)
    BY <1>2 DEF Pending
  <1>6. /\ timers \subseteq Timers /\ \A t \in timers : t.left \in Nat
        /\ \A r \in receiving : r.left \in Nat
        /\ \A n \in nextTx : n.left \in Nat
        /\ \A c \in Channels : dutyLeft[c] \in Nat
    BY DEF TypeOK, SendTypes, RestTypes, Timers, NextTxEvents
  <1>7. OverInTime'
    <2> SUFFICES ASSUME NEW c \in Channels
                 PROVE  /\ \A t \in timers' : EndsBefore(t, dutyLeft'[c])
                        /\ \A r \in receiving' : r.left < dutyLeft'[c]
                        /\ \A n \in nextTx' : n.left >= dutyLeft'[c]
      BY DEF OverInTime, EndsBefore
    <2>1. CASE dutyLeft[c] = 0
      <3>1. timers' = {} /\ receiving' = {}
        BY <1>1, <2>1, OpenIsIdle
      <3>2. dutyLeft'[c] = 0
        BY <1>1, <2>1 DEF Larger
      <3>3. \A m \in nextTx' : m.left >= 0
        BY <1>1, <1>4, <1>6
      <3> QED BY <3>1, <3>2, <3>3
    <2>2. CASE dutyLeft[c] # 0
      <3> DEFINE w == dutyLeft[c]
      <3>1. dutyLeft'[c] = w - 1 /\ w \in Nat /\ w # 0
        BY <1>1, <1>6, <2>2 DEF Larger
      <3>2. /\ \A t \in timers : EndsBefore(t, w)
            /\ \A r \in receiving : r.left < w
            /\ \A n \in nextTx : n.left >= w
        BY DEF RadioInv, OverInTime
      <3> HIDE DEF w
      <3>3. \A t \in timers' : EndsBefore(t, w - 1)
        <4> SUFFICES ASSUME NEW t \in timers' PROVE EndsBefore(t, w - 1)
          OBVIOUS
        <4>1. PICK s \in timers : t.kind = s.kind /\ t.left = s.left - 1
          BY <1>2
        <4>2. EndsBefore(s, w) /\ s.left \in Nat
          BY <1>6, <3>2
        <4>3. \A d \in RxDurations \cup {0} : d \in Nat
          BY DelaysType
        <4> QED BY <3>1, <4>1, <4>2, <4>3, DelaysType DEF EndsBefore
      <3>4. \A r \in receiving' : r.left < w - 1
        BY <1>3, <1>6, <3>1, <3>2
      <3>5. \A n \in nextTx' : n.left >= w - 1
        BY <1>4, <1>6, <3>1, <3>2
      <3> QED BY <3>1, <3>3, <3>4, <3>5
    <2> QED BY <2>1, <2>2
  <1>8. OneTransmission'
    <2>1. \A s, t \in timers' : s.kind = t.kind => s = t
      BY <1>2 DEF RadioInv, OneTransmission
    <2>2. /\ ~ Pending("orphanRx2")'
          /\ Pending("txStandby")' => Pending("txFinished")'
          /\ Pending("openRx2")' => ~ Pending("closeRx2")'
      BY <1>5 DEF RadioInv, OneTransmission
    <2>3. Pending("txFinished")' =>
            \A t \in timers' : t.kind \in {"txStandby", "txFinished"}
      BY <1>2, <1>5 DEF RadioInv, OneTransmission
    <2>4. ASSUME NEW s \in timers', s.kind = "openRx1"
          PROVE  /\ phy' = "SLEEP"
                 /\ \A t \in timers' \ {s} : t.kind = "openRx2" /\ t.left > s.left
      <3>1. PICK x \in timers : /\ s = [x EXCEPT !.left = @ - 1]
                                /\ s.kind = x.kind /\ s.left = x.left - 1
        BY <1>2
      <3>2. ASSUME NEW t \in timers' \ {s}
            PROVE  t.kind = "openRx2" /\ t.left > s.left
        <4>1. PICK y \in timers : /\ t = [y EXCEPT !.left = @ - 1]
                                  /\ t.kind = y.kind /\ t.left = y.left - 1
          BY <1>2
        <4>2. y # x
          BY <3>1, <4>1
        <4>3. y.kind = "openRx2" /\ y.left > x.left
          BY <2>4, <3>1, <4>2 DEF RadioInv, OneTransmission
        <4> QED BY <1>6, <3>1, <4>1, <4>3
      <3>3. phy' = "SLEEP"
        BY <1>1, <2>4, <3>1 DEF RadioInv, OneTransmission
      <3> QED BY <3>2, <3>3
    <2> QED BY <2>1, <2>2, <2>3, <2>4 DEF OneTransmission, Pending
  <1>9. RadioMatchesEvents'
    <2>1. \A q, r \in receiving' : q = r
      BY <1>3 DEF RadioInv, RadioMatchesEvents
    <2> QED BY <1>1, <1>3, <1>5, <2>1 DEF RadioInv, RadioMatchesEvents
  <1> QED BY <1>7, <1>8, <1>9 DEF RadioInv

-----------------------------------------------------------------------------
(* The budget of transmissions.                                            *)

(* Nothing is transmitted or reported; the packet that waits may be        *)
(* dropped.                                                                *)
LEMMA QuietBudget ==
  ASSUME BudgetInv, UNCHANGED <<onAir, begun, acked>>,
         waitingAck' => /\ waitingAck
                        /\ retxLeft' = retxLeft /\ retxPkt' = retxPkt,
         \A n \in nextTx' : n.copy => retxLeft' > 0
  PROVE  BudgetInv'
  <1>1. BudgetLeft'
    BY DEF BudgetInv, BudgetLeft
  <1>2. BudgetIsSpentOnAir'
    BY DEF BudgetInv, BudgetIsSpentOnAir
  <1>3. AckedWasOnAir'
    BY DEF BudgetInv, AckedWasOnAir
  <1> QED BY <1>1, <1>2, <1>3 DEF BudgetInv

(* A packet that waits for its ACK has been on the air.                    *)
LEMMA WaitingWasOnAir ==
  ASSUME TypeOK, Inv, BudgetInv, waitingAck
  PROVE  retxPkt \in Packets /\ onAir[retxPkt] > 0 /\ onAir[retxPkt] \in Nat
  <1>1. retxPkt \in Packets
    BY DEF TypeOK, SendTypes, Inv, RetxMatchesQueue
  <1>2. onAir[retxPkt] + retxLeft = MaxTx /\ retxLeft < MaxTx
    BY DEF BudgetInv, BudgetLeft, BudgetIsSpentOnAir
  <1>3. onAir[retxPkt] \in Nat /\ retxLeft \in Nat
    BY <1>1 DEF TypeOK, SendTypes, UInt8
  <1> QED BY <1>1, <1>2, <1>3, MaxTxType

(* Resetting the parameters, with or without a report that the packet was  *)
(* acknowledged.                                                           *)
LEMMA ResetBudget ==
  ASSUME TypeOK, Inv, BudgetInv, Reset, UNCHANGED <<onAir, begun>>,
         \/ acked' = acked
         \/ waitingAck /\ acked' = [acked EXCEPT ![retxPkt] = @ + 1]
  PROVE  BudgetInv'
  <1>1. waitingAck' = FALSE /\ nextTx' = {}
    BY DEF Reset
  <1>2. BudgetLeft' /\ BudgetIsSpentOnAir'
    BY <1>1 DEF BudgetInv, BudgetLeft, BudgetIsSpentOnAir
  <1>3. AckedWasOnAir'
    <2>1. CASE acked' = acked
      BY <2>1 DEF BudgetInv, AckedWasOnAir
    <2>2. CASE waitingAck /\ acked' = [acked EXCEPT ![retxPkt] = @ + 1]
      <3>1. onAir[retxPkt] > 0
        BY <2>2, WaitingWasOnAir
      <3>2. \A p \in Packets : p = retxPkt \/ acked'[p] = acked[p]
        BY <2>2 DEF TypeOK, SendTypes
      <3> QED BY <3>1, <3>2 DEF BudgetInv, AckedWasOnAir
    <2> QED BY <2>1, <2>2
  <1> QED BY <1>2, <1>3 DEF BudgetInv

(* A new packet has not been on the air: the budget starts with its first  *)
(* transmission.                                                           *)
LEMMA DoSendNewBudget ==
  ASSUME TypeOK, Inv, BudgetInv, NEW p \in Packets, p \notin begun,
         NEW ts, NEW st, DoSendNew(p, ts, st),
         onAir' = [onAir EXCEPT ![p] = @ + 1]
  PROVE  BudgetInv'
  <1>1. /\ begun' = begun \cup {p} /\ acked' = acked /\ nextTx' = {}
        /\ waitingAck' => retxPkt' = p /\ retxLeft' = MaxTx - 1
    BY DEF DoSendNew, Reset
  <1>2. onAir \in [Packets -> Nat]
    BY DEF TypeOK, SendTypes
  <1>3. onAir[p] = 0
    BY <1>2 DEF BudgetInv, BudgetLeft
  <1>4. /\ onAir'[p] = 1
        /\ \A q \in Packets : q # p => onAir'[q] = onAir[q]
    BY <1>2, <1>3
  <1>5. BudgetLeft'
    <2>1. waitingAck' => retxLeft' < MaxTx
      BY <1>1, MaxTxType
    <2>2. \A q \in Packets : onAir'[q] > 0 => q \in begun'
      BY <1>1, <1>4 DEF BudgetInv, BudgetLeft
    <2> QED BY <1>1, <2>1, <2>2 DEF BudgetLeft
  <1>6. BudgetIsSpentOnAir'
    BY <1>1, <1>4, MaxTxType DEF BudgetIsSpentOnAir
  <1>7. AckedWasOnAir'
    BY <1>1, <1>2, <1>4 DEF BudgetInv, AckedWasOnAir
  <1> QED BY <1>5, <1>6, <1>7 DEF BudgetInv

(* A retransmission takes one from the budget and goes on the air.         *)
LEMMA DoSendAgainBudget ==
  ASSUME TypeOK, Inv, BudgetInv, retxPkt \in Packets, retxLeft > 0,
         NEW ts, NEW st, DoSendAgain(retxPkt, {}, ts, st),
         onAir' = [onAir EXCEPT ![retxPkt] = @ + 1]
  PROVE  BudgetInv'
  <1>1. /\ waitingAck /\ retxPkt \in begun
        /\ retxLeft \in Nat /\ retxLeft < 256
        /\ onAir \in [Packets -> Nat]
    BY DEF TypeOK, SendTypes, UInt8, Inv, RetxMatchesQueue, InOrder, NoPkt, Packets
  <1>2. /\ onAir[retxPkt] + retxLeft = MaxTx /\ retxLeft < MaxTx
        /\ onAir[retxPkt] \in Nat
    BY <1>1 DEF BudgetInv, BudgetLeft, BudgetIsSpentOnAir
  <1>3. retxLeft' = retxLeft - 1
    <2>1. \A i \in Nat : 0 < i /\ i < 256 => (i - 1) % 256 = i - 1
      OBVIOUS
    <2> QED BY <1>1, <2>1 DEF DoSendAgain
  <1>4. /\ UNCHANGED <<waitingAck, retxPkt, begun, acked>> /\ nextTx' = {}
    BY DEF DoSendAgain
  <1>5. /\ onAir'[retxPkt] = onAir[retxPkt] + 1
        /\ \A q \in Packets : q # retxPkt => onAir'[q] = onAir[q]
    BY <1>1
  <1>6. BudgetLeft'
    <2>1. retxLeft' < MaxTx
      BY <1>1, <1>2, <1>3, MaxTxType
    <2>2. \A q \in Packets : onAir'[q] > 0 => q \in begun'
      BY <1>1, <1>4, <1>5 DEF BudgetInv, BudgetLeft
    <2> QED BY <1>4, <2>1, <2>2 DEF BudgetLeft
  <1>7. BudgetIsSpentOnAir'
    <2>1. onAir'[retxPkt] + retxLeft' = MaxTx
      BY <1>1, <1>2, <1>3, <1>5
    <2> QED BY <1>4, <2>1 DEF BudgetIsSpentOnAir
  <1>8. AckedWasOnAir'
    <2>1. onAir'[retxPkt] > 0
      BY <1>2, <1>5
    <2> QED BY <1>4, <1>5, <2>1 DEF BudgetInv, AckedWasOnAir
  <1> QED BY <1>6, <1>7, <1>8 DEF BudgetInv

-----------------------------------------------------------------------------
(* Sending, and everything that leads to it.                               *)

(* DoSend is called only while the sub-band is open.                       *)
LEMMA DoSendDuty ==
  ASSUME LongDutyCycle, TypeOK, Inv, DutyInv, NEW c \in Channels, dutyLeft[c] = 0,
         NEW p \in Packets, NEW isCopy \in BOOLEAN, Sendable(p, isCopy),
         NEW q, q \subseteq nextTx, isCopy => retxLeft > 0 /\ q = {},
         receiving' = receiving, DoSend(p, isCopy, q, timers, phy)
  PROVE  DutyInv'
  <1>1. RadioInv /\ BudgetInv /\ NoAbort
    BY DEF DutyInv
  <1>2. retxLeft \in UInt8
    BY DEF TypeOK, SendTypes
  <1>3. CASE isCopy /\ p = retxPkt /\ DoSendAgain(p, q, timers, phy)
    <2>1. /\ SendToPhy(p, retxLeft', timers, phy)
          /\ retxLeft' = (retxLeft - 1) % 256 /\ nextTx' = {}
      BY <1>3 DEF DoSendAgain
    <2>2. retxLeft' \in Nat /\ retxLeft' < 256
      BY <1>2, <2>1 DEF UInt8
    <2>3. /\ RadioInv' /\ onAir' = [onAir EXCEPT ![p] = @ + 1]
      BY <1>1, <2>1, <2>2, TransmitRadio
    <2>4. BudgetInv'
      BY <1>1, <1>3, <2>3, DoSendAgainBudget
    <2>5. crash' = crash
      BY <2>1 DEF SendToPhy
    <2> QED BY <1>1, <2>3, <2>4, <2>5 DEF DutyInv, NoAbort
  <1>4. CASE ~ (isCopy /\ p = retxPkt) /\ DoSendTooBig(p, q, timers, phy)
    <2>1. /\ UNCHANGED <<timers, phy, receiving, dutyLeft, onAir, begun, acked, crash,
                         waitingAck, retxLeft, retxPkt>>
          /\ nextTx' \subseteq nextTx
      BY <1>4 DEF DoSendTooBig, retxVars, trace
    <2>2. RadioInv'
      BY <1>1, <2>1, QueueRadio DEF RadioInv, OverInTime
    <2>3. BudgetInv'
      BY <1>1, <2>1, QuietBudget DEF BudgetInv, BudgetLeft
    <2> QED BY <1>1, <2>1, <2>2, <2>3 DEF DutyInv, NoAbort
  <1>5. CASE ~ (isCopy /\ p = retxPkt) /\ DoSendNew(p, timers, phy)
    <2>1. p \notin begun
      BY <1>5 DEF Sendable
    <2>2. /\ SendToPhy(p, retxLeft', timers, phy) /\ nextTx' = {}
          /\ retxLeft' = MaxTx - 1 \/ retxLeft' = MaxTx
      BY <1>5 DEF DoSendNew, Reset
    <2>3. retxLeft' \in Nat /\ retxLeft' < 256
      BY <2>2, MaxTxType
    <2>4. /\ RadioInv' /\ onAir' = [onAir EXCEPT ![p] = @ + 1]
      BY <1>1, <2>2, <2>3, TransmitRadio
    <2>5. BudgetInv'
      BY <1>1, <1>5, <2>1, <2>4, DoSendNewBudget
    <2>6. crash' = crash
      BY <2>2 DEF SendToPhy
    <2> QED BY <1>1, <2>4, <2>5, <2>6 DEF DutyInv, NoAbort
  <1> QED BY <1>3, <1>4, <1>5 DEF DoSend

(* A packet that is postponed waits at least until the sub-band opens.     *)
LEMMA PostponeQueue ==
  ASSUME NEW p, NEW isCopy \in BOOLEAN, NEW d, NEW ts, NEW st,
         Postpone(p, isCopy, d, ts, st)
  PROVE  /\ \A n \in nextTx' : n.left = d /\ (n.copy => isCopy)
         /\ timers' = ts /\ phy' = st
         /\ UNCHANGED <<crash, dutyLeft, onAir, begun, acked,
                        waitingAck, retxLeft, retxPkt>>
  <1> DEFINE late == \E t \in ts : t.kind = "closeRx2"
  <1>1. nextTx' = {[left |-> d, pkt |-> p, copy |-> isCopy, late |-> late]}
    BY DEF Postpone
  <1> HIDE DEF late
  <1>2. \A n \in nextTx' : n.left = d /\ (n.copy => isCopy)
    BY <1>1
  <1> QED BY <1>2 DEF Postpone, retxVars, trace

(* While something is pending, what follows a lost ACK transmits nothing:  *)
(* the retransmission is postponed, or the packet given up.                *)
LEMMA RetryDuty ==
  ASSUME LongDutyCycle, TypeOK, Inv, DutyInv, waitingAck,
         timers # {} \/ receiving # {},
         NEW ts, NEW st, Retry(ts, st)
  PROVE  /\ \A c \in Channels, n \in nextTx' : n.left >= dutyLeft[c]
         /\ timers' = ts /\ phy' = st /\ UNCHANGED <<dutyLeft, crash>>
         /\ BudgetInv'
  <1>1. RadioInv /\ BudgetInv /\ NoAbort
    BY DEF DutyInv
  <1>2. CASE retxLeft > 0 /\ Send(retxPkt, TRUE, ts, st)
    <2>1. PICK d \in WaitingTimes(ts) :
            IF d = 0 THEN SendNow(retxPkt, TRUE, ts, st)
                     ELSE Postpone(retxPkt, TRUE, d, ts, st)
      BY <1>2 DEF Send
    <2>2. \A c \in Channels : d >= dutyLeft[c] /\ dutyLeft[c] > 0 /\ dutyLeft[c] \in Nat
      BY <1>1, WaitsForBand, PendingIsClosed DEF TypeOK, SendTypes
    <2>3. d # 0
      BY <2>2, MacAssumption
    <2>4. Postpone(retxPkt, TRUE, d, ts, st)
      BY <2>1, <2>3
    <2>5. /\ \A n \in nextTx' : n.left = d
          /\ timers' = ts /\ phy' = st
          /\ UNCHANGED <<crash, dutyLeft, onAir, begun, acked,
                         waitingAck, retxLeft, retxPkt>>
      BY <2>4, PostponeQueue
    <2>6. BudgetInv'
      BY <1>1, <1>2, <2>5, QuietBudget
    <2> QED BY <2>2, <2>5, <2>6
  <1>3. CASE GiveUp(ts, st)
    <2>1. Reset /\ timers' = ts /\ phy' = st
          /\ UNCHANGED <<crash, dutyLeft, begun, onAir, acked>>
      BY <1>3 DEF GiveUp
    <2>2. nextTx' = {}
      BY <2>1 DEF Reset
    <2>3. BudgetInv'
      BY <1>1, <2>1, ResetBudget
    <2> QED BY <2>1, <2>2, <2>3
  <1> QED BY <1>2, <1>3 DEF Retry

-----------------------------------------------------------------------------
(* Every step.                                                             *)

(* The queued transmission runs when the sub-band is open, and finds its   *)
(* channel.                                                                *)
LEMMA RunNextTxDuty ==
  ASSUME LongDutyCycle, TypeOK, Inv, DutyInv, RunNextTx
  PROVE  DutyInv'
  <1>1. PICK n \in nextTx :
          /\ n.left = 0
          /\ \/ NoChannel(n.pkt, n.copy)
             \/ /\ DoSend(n.pkt, n.copy, {}, timers, phy)
                /\ receiving' = receiving
    BY DEF RunNextTx
  <1>2. PICK c \in Channels : TRUE
    BY MacAssumption
  <1>3. dutyLeft[c] = 0
    <2>1. n.left >= dutyLeft[c] /\ dutyLeft[c] \in Nat
      BY DEF DutyInv, RadioInv, OverInTime, TypeOK, SendTypes
    <2> QED BY <1>1, <2>1
  <1>4. FreeChannels # {}
    BY <1>3, WaitsForBand
  <1>5. DoSend(n.pkt, n.copy, {}, timers, phy) /\ receiving' = receiving
    BY <1>1, <1>4 DEF NoChannel
  <1>6. n.pkt \in Packets /\ n.copy \in BOOLEAN
    BY DEF TypeOK, SendTypes, NextTxEvents
  <1>7. Sendable(n.pkt, n.copy)
    BY <1>6 DEF Sendable, Inv, RetxMatchesQueue
  <1>8. n.copy => retxLeft > 0
    BY DEF DutyInv, BudgetInv, BudgetLeft
  <1>9. {} \subseteq nextTx
    OBVIOUS
  <1> DEFINE p == n.pkt
             isCopy == n.copy
             q == {}
  <1>10. /\ p \in Packets /\ isCopy \in BOOLEAN /\ Sendable(p, isCopy)
         /\ q \subseteq nextTx /\ (isCopy => retxLeft > 0 /\ q = {})
         /\ DoSend(p, isCopy, q, timers, phy) /\ receiving' = receiving
    BY <1>5, <1>6, <1>7, <1>8, <1>9
  <1> HIDE DEF p, isCopy, q
  <1> QED BY <1>3, <1>10, DoSendDuty

(* A packet of the application is sent while the sub-band is open, or      *)
(* postponed.                                                              *)
LEMMA AppSendDuty ==
  ASSUME LongDutyCycle, TypeOK, Inv, DutyInv, AppSend
  PROVE  DutyInv'
  <1> DEFINE p == appSent'
             isCopy == FALSE
  <1>1. p \in Packets /\ p \notin begun
    BY MacAssumption DEF AppSend, TypeOK, RestTypes, Packets, Inv, InOrder
  <1>2. isCopy \in BOOLEAN /\ ~ isCopy /\ Sendable(p, isCopy)
    BY <1>1 DEF Sendable
  <1>3. Send(p, isCopy, timers, phy) /\ receiving' = receiving
    BY DEF AppSend
  <1> HIDE DEF p, isCopy
  <1>4. PICK d \in WaitingTimes(timers) :
          IF d = 0 THEN SendNow(p, isCopy, timers, phy)
                   ELSE Postpone(p, isCopy, d, timers, phy)
    BY <1>3 DEF Send
  <1>5. \A c \in Channels : d >= dutyLeft[c] /\ dutyLeft[c] \in Nat
    BY WaitsForBand DEF TypeOK, SendTypes
  <1>6. RadioInv /\ BudgetInv /\ NoAbort
    BY DEF DutyInv
  <1>7. CASE d = 0 /\ DoSend(p, isCopy, nextTx, timers, phy)
    <2>1. PICK c \in Channels : dutyLeft[c] = 0
      BY <1>5, <1>7, MacAssumption
    <2> QED BY <1>1, <1>2, <1>3, <1>7, <2>1, DoSendDuty
  <1>8. CASE /\ timers' = timers /\ phy' = phy
             /\ UNCHANGED <<crash, retxVars, nextTx, dataRate, dutyLeft, fCnt, trace>>
    <2>1. UNCHANGED <<timers, phy, crash, nextTx, dutyLeft, onAir, begun, acked,
                      waitingAck, retxLeft, retxPkt>>
      BY <1>8 DEF retxVars, trace
    <2>2. RadioInv'
      BY <1>3, <1>6, <2>1, QueueRadio DEF RadioInv, OverInTime
    <2>3. BudgetInv'
      BY <1>6, <2>1, QuietBudget DEF BudgetInv, BudgetLeft
    <2> QED BY <1>6, <2>1, <2>2, <2>3 DEF DutyInv, NoAbort
  <1>9. CASE Postpone(p, isCopy, d, timers, phy)
    <2>1. /\ \A n \in nextTx' : n.left = d /\ ~ n.copy
          /\ timers' = timers /\ phy' = phy
          /\ UNCHANGED <<crash, dutyLeft, onAir, begun, acked,
                         waitingAck, retxLeft, retxPkt>>
      BY <1>2, <1>9, PostponeQueue
    <2>2. RadioInv'
      BY <1>3, <1>5, <1>6, <2>1, QueueRadio
    <2>3. BudgetInv'
      BY <1>6, <2>1, QuietBudget
    <2> QED BY <1>6, <2>1, <2>2, <2>3 DEF DutyInv, NoAbort
  <1> QED BY <1>4, <1>7, <1>8, <1>9 DEF SendNow

(* The second window closes: nothing is transmitted, since it closes       *)
(* before the sub-band opens.                                              *)
LEMMA CloseSecondDuty ==
  ASSUME LongDutyCycle, TypeOK, Inv, DutyInv, CloseSecondReceiveWindow
  PROVE  DutyInv'
  <1> DEFINE e == Timer("closeRx2", 0)
             ts == Fired("closeRx2")
             st == IF phy = "STANDBY" THEN "SLEEP" ELSE phy
  <1>1. e \in timers /\ e.kind = "closeRx2" /\ ts = timers \ {e}
    BY DEF CloseSecondReceiveWindow, DueNow, Fired, Timer
  <1>2. receiving' = receiving
    BY DEF CloseSecondReceiveWindow
  <1>3. \/ /\ phy = "RX" /\ timers' = ts
           /\ UNCHANGED <<phy, crash, retxVars, nextTx, dataRate, dutyLeft,
                          fCnt, trace>>
        \/ phy # "RX" /\ waitingAck /\ Retry(ts, st)
        \/ /\ phy # "RX" /\ Reset /\ timers' = ts /\ phy' = st
           /\ UNCHANGED <<crash, dataRate, dutyLeft, fCnt, trace>>
    BY DEF CloseSecondReceiveWindow
  <1>4. RadioInv /\ BudgetInv /\ NoAbort
    BY DEF DutyInv
  <1> HIDE DEF e, ts
  <1>5. phy # "TX" /\ ~ Pending("txStandby")
    BY <1>1, <1>4, OpenWindow
  <1>6. phy # "RX" => st = "SLEEP" /\ receiving = {}
    BY <1>4, <1>5 DEF TypeOK, SendTypes, PhyStates, RadioInv, RadioMatchesEvents
  <1> HIDE DEF st
  <1>7. CASE /\ phy = "RX" /\ timers' = ts
             /\ UNCHANGED <<phy, crash, retxVars, nextTx, dataRate, dutyLeft,
                            fCnt, trace>>
    <2>1. UNCHANGED <<phy, crash, nextTx, dutyLeft, onAir, begun, acked,
                      waitingAck, retxLeft, retxPkt>>
      BY <1>7 DEF retxVars, trace
    <2>2. OverInTime'
      BY <1>1, <1>2, <1>4, <1>7, <2>1 DEF RadioInv, OverInTime, EndsBefore
    <2>3. OneTransmission'
      BY <1>1, <1>4, <1>7, <2>1 DEF RadioInv, OneTransmission, Pending
    <2>4. RadioMatchesEvents'
      BY <1>1, <1>2, <1>4, <1>7, <2>1 DEF RadioInv, RadioMatchesEvents, Pending
    <2>5. BudgetInv'
      BY <1>4, <2>1, QuietBudget DEF BudgetInv, BudgetLeft
    <2> QED BY <1>4, <2>1, <2>2, <2>3, <2>4, <2>5 DEF DutyInv, RadioInv, NoAbort
  <1>8. CASE phy # "RX" /\ waitingAck /\ Retry(ts, st)
    <2>1. /\ \A c \in Channels, n \in nextTx' : n.left >= dutyLeft[c]
          /\ timers' = ts /\ phy' = st /\ UNCHANGED <<dutyLeft, crash>>
          /\ BudgetInv'
      BY <1>1, <1>8, RetryDuty
    <2>2. RadioInv'
      BY <1>1, <1>2, <1>4, <1>5, <1>6, <1>8, <2>1, FewerEvents
    <2> QED BY <1>4, <2>1, <2>2 DEF DutyInv, NoAbort
  <1>9. CASE /\ phy # "RX" /\ Reset /\ timers' = ts /\ phy' = st
             /\ UNCHANGED <<crash, dataRate, dutyLeft, fCnt, trace>>
    <2>1. nextTx' = {} /\ UNCHANGED <<crash, dutyLeft, onAir, begun, acked>>
      BY <1>9 DEF Reset, trace
    <2>2. RadioInv'
      BY <1>1, <1>2, <1>4, <1>5, <1>6, <1>9, <2>1, FewerEvents
    <2>3. BudgetInv'
      BY <1>4, <1>9, <2>1, ResetBudget
    <2> QED BY <1>4, <2>1, <2>2, <2>3 DEF DutyInv, NoAbort
  <1> QED BY <1>3, <1>7, <1>8, <1>9

(* A reception ends: the radio goes to sleep, and nothing is transmitted.  *)
LEMMA EndReceiveDuty ==
  ASSUME LongDutyCycle, TypeOK, Inv, DutyInv, EndReceive
  PROVE  DutyInv'
  <1>1. PICK r \in receiving :
          \/ /\ receiving' = receiving \ {r}
             /\ \/ ReceiveToUs(r.frame)
                \/ ReceiveForeign
                \/ FailedReception
          \/ SendsAtOnce
    BY DEF EndReceive, EndingReceptions
  <1>2. RadioInv /\ BudgetInv /\ NoAbort
    BY DEF DutyInv
  <1>3. \A c \in Channels : dutyLeft[c] > 0 /\ dutyLeft[c] \in Nat
    BY <1>2, PendingIsClosed DEF TypeOK, SendTypes
  <1>4. ~ SendsAtOnce
    BY <1>3, WaitsForBand, MacAssumption DEF SendsAtOnce
  <1>5. phy = "RX" /\ receiving = {r} /\ ~ Pending("txStandby")
    BY <1>2 DEF RadioInv, RadioMatchesEvents
  <1>6. receiving' = {}
    BY <1>1, <1>4, <1>5
  <1>7. CASE ReceiveToUs(r.frame)
    <2>1. /\ timers' \subseteq timers /\ phy' = "SLEEP"
          /\ UNCHANGED <<crash, dutyLeft, begun, onAir>>
          /\ \/ /\ waitingAck /\ Reset
                /\ acked' = [acked EXCEPT ![retxPkt] = @ + 1]
             \/ UNCHANGED <<acked, waitingAck, retxLeft, retxPkt, nextTx>>
      BY <1>7 DEF ReceiveToUs, retxVars
    <2>2. nextTx' \subseteq nextTx
      BY <2>1 DEF Reset
    <2>3. \A c \in Channels, n \in nextTx' : n.left >= dutyLeft[c]
      BY <1>2, <2>2 DEF RadioInv, OverInTime
    <2>4. RadioInv'
      BY <1>2, <1>5, <1>6, <2>1, <2>3, FewerEvents
    <2>5. BudgetInv'
      <3>1. CASE /\ waitingAck /\ Reset
                 /\ acked' = [acked EXCEPT ![retxPkt] = @ + 1]
        BY <1>2, <2>1, <3>1, ResetBudget
      <3>2. CASE UNCHANGED <<acked, waitingAck, retxLeft, retxPkt, nextTx>>
        BY <1>2, <2>1, <3>2, QuietBudget DEF BudgetInv, BudgetLeft
      <3> QED BY <2>1, <3>1, <3>2
    <2> QED BY <1>2, <2>1, <2>4, <2>5 DEF DutyInv, NoAbort
  <1>8. CASE waitingAck /\ Retry(timers, "SLEEP")
    <2>1. /\ \A c \in Channels, n \in nextTx' : n.left >= dutyLeft[c]
          /\ timers' = timers /\ phy' = "SLEEP" /\ UNCHANGED <<dutyLeft, crash>>
          /\ BudgetInv'
      BY <1>5, <1>8, RetryDuty
    <2>2. RadioInv'
      BY <1>2, <1>5, <1>6, <2>1, FewerEvents
    <2> QED BY <1>2, <2>1, <2>2 DEF DutyInv, NoAbort
  <1>9. CASE /\ phy' = "SLEEP"
             /\ UNCHANGED <<timers, crash, retxVars, nextTx, dataRate, dutyLeft,
                            fCnt, trace>>
    <2>1. UNCHANGED <<timers, crash, nextTx, dutyLeft, onAir, begun, acked,
                      waitingAck, retxLeft, retxPkt>>
      BY <1>9 DEF retxVars, trace
    <2>2. \A c \in Channels, n \in nextTx' : n.left >= dutyLeft[c]
      BY <1>2, <2>1 DEF RadioInv, OverInTime
    <2>3. RadioInv'
      BY <1>2, <1>5, <1>6, <1>9, <2>1, <2>2, FewerEvents
    <2>4. BudgetInv'
      BY <1>2, <2>1, QuietBudget DEF BudgetInv, BudgetLeft
    <2> QED BY <1>2, <2>1, <2>3, <2>4 DEF DutyInv, NoAbort
  <1> QED BY <1>1, <1>4, <1>7, <1>8, <1>9 DEF ReceiveForeign, FailedReception

(* The handlers that leave the state of the MAC alone.                     *)
LEMMA WindowHandlerDuty ==
  ASSUME LongDutyCycle, TypeOK, DutyInv, WindowHandler
  PROVE  DutyInv'
  <1>1. RadioInv /\ BudgetInv /\ NoAbort
    BY DEF DutyInv
  <1>2. UNCHANGED <<nextTx, dutyLeft, onAir, begun, acked,
                    waitingAck, retxLeft, retxPkt>>
    BY DEF WindowHandler, retxVars, linkVars, trace
  <1>3. BudgetInv'
    BY <1>1, <1>2, QuietBudget DEF BudgetInv, BudgetLeft
  <1>4. RadioInv' /\ crash' = crash
    <2>1. CASE TxStandby
      BY <1>1, <1>2, <2>1, TxStandbyRadio DEF TxStandby
    <2>2. CASE OpenFirstReceiveWindow
      BY <1>1, <1>2, <2>2, OpenFirstRadio DEF OpenFirstReceiveWindow
    <2>3. CASE CloseFirstReceiveWindow
      BY <1>1, <1>2, <2>3, CloseFirstRadio DEF CloseFirstReceiveWindow
    <2>4. ASSUME NEW k \in {"openRx2", "orphanRx2"}, OpenSecondReceiveWindow(k)
          PROVE  RadioInv' /\ crash' = crash
      BY <1>1, <1>2, <2>4, OpenSecondRadio DEF OpenSecondReceiveWindow
    <2> QED BY <2>1, <2>2, <2>3, <2>4 DEF WindowHandler
  <1> QED BY <1>1, <1>3, <1>4 DEF DutyInv, NoAbort

(* TxFinished schedules the windows, or stops the program: the one         *)
(* assertion that can fail.                                                *)
LEMMA TxFinishedDuty ==
  ASSUME LongDutyCycle, TypeOK, DutyInv, TxFinished
  PROVE  DutyInv'
  <1>1. RadioInv /\ BudgetInv /\ NoAbort
    BY DEF DutyInv
  <1>2. UNCHANGED <<nextTx, dutyLeft, onAir, begun, acked,
                    waitingAck, retxLeft, retxPkt, receiving>>
    BY DEF TxFinished, Crash, retxVars, linkVars, trace
  <1>3. BudgetInv'
    BY <1>1, <1>2, QuietBudget DEF BudgetInv, BudgetLeft
  <1>4. CASE SleepOk(phy)
    <2>1. RadioInv'
      BY <1>1, <1>4, TxFinishedRadio
    <2>2. crash' = crash
      BY <1>4 DEF TxFinished
    <2> QED BY <1>1, <1>3, <2>1, <2>2 DEF DutyInv, NoAbort
  <1>5. CASE ~ SleepOk(phy)
    <2>1. crash' = "sleepAfterTx" /\ UNCHANGED <<phy, timers>>
      BY <1>5 DEF TxFinished, Crash
    <2>2. RadioInv'
      BY <1>1, <1>2, <2>1, QueueRadio DEF RadioInv, OverInTime
    <2> QED BY <1>3, <2>1, <2>2 DEF DutyInv, NoAbort
  <1> QED BY <1>4, <1>5

(* Every step keeps the invariant of a long duty cycle.                    *)
LEMMA StepDuty ==
  ASSUME LongDutyCycle, TypeOK, Inv, DutyInv, [Next]_vars
  PROVE  DutyInv'
  <1>1. RadioInv /\ BudgetInv /\ NoAbort
    BY DEF DutyInv
  <1>2. ASSUME UNCHANGED <<crash, nextTx, onAir, begun, acked,
                           waitingAck, retxLeft, retxPkt>>, RadioInv'
        PROVE  DutyInv'
    <2>1. BudgetInv'
      BY <1>1, <1>2, QuietBudget DEF BudgetInv, BudgetLeft
    <2> QED BY <1>1, <1>2, <2>1 DEF DutyInv, NoAbort
  <1>3. CASE RunNextTx                BY <1>3, RunNextTxDuty
  <1>4. CASE TxFinished               BY <1>4, TxFinishedDuty
  <1>5. CASE CloseFirstAborts
    <2>1. PICK e \in timers : e.kind = "closeRx1"
      BY <1>5 DEF CloseFirstAborts, DueNow, Timer
    <2> QED BY <1>1, <1>5, <2>1, OpenWindow DEF CloseFirstAborts
  <1>6. CASE WindowHandler            BY <1>6, WindowHandlerDuty
  <1>7. CASE CloseSecondReceiveWindow BY <1>7, CloseSecondDuty
  <1>8. CASE EndReceive               BY <1>8, EndReceiveDuty
  <1>9. CASE Tick
    <2>1. RadioInv'
      BY <1>1, <1>9, TickRadio
    <2>2. BudgetInv'
      <3>1. \A m \in nextTx' : \E n \in nextTx : m.copy = n.copy
        BY <1>9 DEF Tick, Sooner, TypeOK, SendTypes, NextTxEvents
      <3>2. UNCHANGED <<onAir, begun, acked, waitingAck, retxLeft, retxPkt>>
        BY <1>9 DEF Tick, retxVars, trace
      <3>3. \A m \in nextTx' : m.copy => retxLeft' > 0
        BY <1>1, <3>1, <3>2 DEF BudgetInv, BudgetLeft
      <3> QED BY <1>1, <3>2, <3>3, QuietBudget
    <2> QED BY <1>1, <1>9, <2>1, <2>2 DEF DutyInv, NoAbort, Tick
  <1>10. CASE AppSend                 BY <1>10, AppSendDuty
  <1>11. CASE Arrival
    <2>1. RadioInv'
      BY <1>1, <1>11, ArrivalRadio
    <2>2. UNCHANGED <<crash, nextTx, onAir, begun, acked,
                      waitingAck, retxLeft, retxPkt>>
      BY <1>11 DEF Arrival, StartReceive, retxVars, trace
    <2> QED BY <1>2, <2>1, <2>2
  <1>12. CASE \E m \in MTypes : SetMType(m)
    <2>1. UNCHANGED <<phy, timers, receiving, dutyLeft, crash, nextTx, onAir, begun,
                      acked, waitingAck, retxLeft, retxPkt>>
      BY <1>12 DEF SetMType, phyVars, retxVars, trace
    <2>2. RadioInv'
      BY <1>1, <2>1, QueueRadio DEF RadioInv, OverInTime
    <2> QED BY <1>2, <2>1, <2>2
  <1>13. CASE UNCHANGED vars
    <2>1. UNCHANGED <<phy, timers, receiving, dutyLeft, crash, nextTx, onAir, begun,
                      acked, waitingAck, retxLeft, retxPkt>>
      BY <1>13 DEF vars, phyVars, retxVars, linkVars, trace
    <2>2. RadioInv'
      BY <1>1, <2>1, QueueRadio DEF RadioInv, OverInTime
    <2> QED BY <1>2, <2>1, <2>2
  <1> QED BY <1>3, <1>4, <1>5, <1>6, <1>7, <1>8, <1>9, <1>10, <1>11, <1>12, <1>13
    DEF Next, Scheduler, Environment, Handler

(* It holds initially: nothing is pending and no transmission was made.    *)
LEMMA InitDuty == Init => DutyInv
  <1> SUFFICES ASSUME Init PROVE DutyInv
    OBVIOUS
  <1>1. RadioInv
    BY DEF Init, PhyInit, RadioInv, OverInTime, OneTransmission,
           RadioMatchesEvents, Pending
  <1>2. BudgetInv
    BY DEF Init, BudgetInv, BudgetLeft, BudgetIsSpentOnAir, AckedWasOnAir
  <1>3. NoAbort
    BY DEF Init, PhyInit, NoAbort
  <1> QED BY <1>1, <1>2, <1>3 DEF DutyInv

(* With a long duty cycle it holds in every reachable state.               *)
LEMMA DutyInductive ==
  ASSUME LongDutyCycle
  PROVE  Spec => []DutyInv
  <1>1. Init => DutyInv
    BY InitDuty
  <1>2. TypeOK /\ Inv /\ DutyInv /\ [Next]_vars => DutyInv'
    BY StepDuty
  <1> QED BY <1>1, <1>2, Inductive, PTL DEF Spec

(* Whatever the application does and the channel delivers, a duty cycle    *)
(* that outlasts the windows keeps the radio and its events in agreement:  *)
(* it transmits exactly until the end of a transmission, receives exactly  *)
(* until one EndReceive, and listens only while a window will close.       *)
THEOREM RadioInStep ==
  ASSUME LongDutyCycle
  PROVE  Spec => []RadioMatchesEvents
  <1>1. DutyInv => RadioMatchesEvents
    BY DEF DutyInv, RadioInv
  <1> QED BY <1>1, DutyInductive, PTL

(* With such a duty cycle the switch to SLEEP after a transmission is the  *)
(* one assertion that can fail: no window closes while the radio           *)
(* transmits, no retransmission leaves from the end of a reception, and a  *)
(* postponed packet finds a channel.                                       *)
THEOREM NoOtherAbort ==
  ASSUME LongDutyCycle
  PROVE  Spec => []NoAbort
  <1>1. DutyInv => NoAbort
    BY DEF DutyInv
  <1> QED BY <1>1, DutyInductive, PTL

(* With such a duty cycle each transmission taken from m_retxParams'       *)
(* budget went on the air: the radio refuses none.                         *)
THEOREM BudgetIsAirtime ==
  ASSUME LongDutyCycle
  PROVE  Spec => []BudgetIsSpentOnAir
  <1>1. DutyInv => BudgetIsSpentOnAir
    BY DEF DutyInv, BudgetInv
  <1> QED BY <1>1, DutyInductive, PTL

(* With such a duty cycle a packet reported as acknowledged has been on    *)
(* the air, though an ACK is taken for whichever packet waits.             *)
THEOREM AckedWasSent ==
  ASSUME LongDutyCycle
  PROVE  Spec => []AckedWasOnAir
  <1>1. DutyInv => AckedWasOnAir
    BY DEF DutyInv, BudgetInv
  <1> QED BY <1>1, DutyInductive, PTL

-----------------------------------------------------------------------------
(* The frame counter of retransmissions.                                   *)

(* The header of the packet that waits carries the counter of the MAC,     *)
(* unless a later packet was dropped; a queued new packet is a later one.  *)
Excused == DroppedAfter(retxPkt)

HeaderInv ==
  /\ retxPkt # NoPkt => hdrFCnt = fCnt \/ Excused
  /\ \A n \in nextTx : n.copy \/ n.pkt > retxPkt

(* What a step may do to that header: forget the packet, make a header for *)
(* a new one, leave it with the counter, build it anew, or drop a packet.  *)
HeaderChange ==
  \/ retxPkt' = NoPkt
  \/ retxPkt' # retxPkt /\ hdrFCnt' = fCnt' /\ nextTx' = {}
  \/ UNCHANGED <<retxPkt, begun>> /\ UNCHANGED <<hdrFCnt, fCnt>>
  \/ UNCHANGED <<retxPkt, begun>> /\ hdrFCnt' = fCnt /\ fCnt' = fCnt
  \/ UNCHANGED <<retxPkt, begun, hdrFCnt>> /\ Excused'

(* What it may queue: what was queued, a retransmission, or the packet the *)
(* application just sent.                                                  *)
QueueChange ==
  \A m \in nextTx' :
    \/ \E n \in nextTx : m.pkt = n.pkt /\ m.copy = n.copy
    \/ m.copy /\ m.pkt = retxPkt
    \/ m.pkt > appSent

HeaderStep == HeaderChange /\ QueueChange

(* Of a packet that is sent: a retransmission, or one that comes after the *)
(* packet that waits, was not started and is queued nowhere else.          *)
Proper(p, isCopy, q) ==
  /\ q \subseteq nextTx
  /\ IF isCopy THEN p = retxPkt
     ELSE /\ p > retxPkt /\ p <= appSent' /\ p \notin begun
          /\ \A n \in q : n.pkt # p

LEMMA StepKeepsHeader ==
  ASSUME TypeOK, TypeOK', Inv, HeaderInv, HeaderStep, appSent <= appSent'
  PROVE  HeaderInv'
  <1>1. /\ appSent \in Nat /\ appSent' \in Nat
        /\ retxPkt \in Nat /\ retxPkt' \in Nat
        /\ \A n \in nextTx : n.pkt \in Nat
        /\ \A n \in nextTx' : n.pkt \in Nat /\ n.pkt > NoPkt
    <2>1. appSent \in Nat /\ appSent' \in Nat
      BY MacAssumption DEF TypeOK, RestTypes
    <2>2. Packets \subseteq Nat /\ \A x \in Packets : x > NoPkt
      BY MacAssumption DEF Packets, NoPkt
    <2>3. retxPkt \in Nat /\ retxPkt' \in Nat
      BY <2>2 DEF TypeOK, SendTypes, NoPkt
    <2>4. nextTx \subseteq NextTxEvents /\ nextTx' \subseteq NextTxEvents
      BY DEF TypeOK, SendTypes
    <2>5. \A n \in NextTxEvents : n.pkt \in Packets
      BY DEF NextTxEvents
    <2> QED BY <2>1, <2>2, <2>3, <2>4, <2>5
  <1>2. retxPkt <= appSent
    BY <1>1 DEF Inv, InOrder, NoPkt
  <1>3. CASE retxPkt' = NoPkt
    BY <1>1, <1>3 DEF HeaderInv
  <1>4. CASE retxPkt' # retxPkt /\ hdrFCnt' = fCnt' /\ nextTx' = {}
    BY <1>4 DEF HeaderInv
  <1>5. CASE UNCHANGED <<retxPkt, begun>>
    <2>1. ASSUME NEW m \in nextTx' PROVE m.copy \/ m.pkt > retxPkt'
      <3>1. CASE \E n \in nextTx : m.pkt = n.pkt /\ m.copy = n.copy
        BY <1>5, <3>1 DEF HeaderInv
      <3>2. CASE m.pkt > appSent
        BY <1>1, <1>2, <1>5, <3>2
      <3> QED BY <3>1, <3>2 DEF HeaderStep, QueueChange
    <2>2. Excused => Excused'
      <3>1. SUFFICES ASSUME Excused PROVE DroppedAfter(retxPkt)'
        BY DEF Excused
      <3>2. PICK x \in Packets :
              /\ retxPkt < x /\ x <= appSent
              /\ x \notin begun /\ \A n \in nextTx : n.pkt # x
              /\ \E d \in DataRates : x \in TooBig[d]
        BY <3>1 DEF Excused, DroppedAfter
      <3>3. x \in Nat
        BY MacAssumption DEF Packets
      <3>4. \A m \in nextTx' : m.pkt # x
        BY <1>1, <3>2, <3>3 DEF HeaderStep, QueueChange
      <3>5. retxPkt' < x /\ x <= appSent' /\ x \notin begun'
        BY <1>1, <1>5, <3>2, <3>3
      <3> QED BY <3>2, <3>4, <3>5 DEF DroppedAfter
    <2>3. retxPkt' # NoPkt => hdrFCnt' = fCnt' \/ Excused'
      BY <1>4, <1>5, <2>2 DEF HeaderStep, HeaderChange, HeaderInv
    <2> QED BY <2>1, <2>3 DEF HeaderInv
  <1> QED BY <1>3, <1>4, <1>5 DEF HeaderStep, HeaderChange

(* DoSend of a packet.                                                     *)
LEMMA DoSendHeader ==
  ASSUME TypeOK, Inv, NEW p \in Packets, NEW isCopy \in BOOLEAN, NEW q,
         Proper(p, isCopy, q), NEW ts, NEW st, DoSend(p, isCopy, q, ts, st)
  PROVE  HeaderStep
  <1>1. CASE DoSendAgain(p, q, ts, st)
    BY <1>1 DEF DoSendAgain, HeaderStep, HeaderChange, QueueChange, Proper
  <1>2. CASE ~ isCopy /\ DoSendTooBig(p, q, ts, st)
    <2>1. /\ p > retxPkt /\ p <= appSent' /\ p \notin begun
          /\ q \subseteq nextTx /\ \A n \in q : n.pkt # p
      BY <1>2 DEF Proper
    <2>2. nextTx' = q /\ UNCHANGED <<retxPkt, begun, hdrFCnt>>
      BY <1>2 DEF DoSendTooBig, retxVars, trace
    <2>3. \E d \in DataRates : p \in TooBig[d]
      BY <1>2 DEF DoSendTooBig, TypeOK, SendTypes
    <2>4. retxPkt < p
      BY <2>1, MacAssumption DEF TypeOK, SendTypes, Packets, NoPkt
    <2>5. Excused'
      BY <2>1, <2>2, <2>3, <2>4 DEF Excused, DroppedAfter
    <2> QED BY <2>1, <2>2, <2>5 DEF HeaderStep, HeaderChange, QueueChange
  <1>3. CASE ~ (isCopy /\ p = retxPkt) /\ DoSendNew(p, ts, st)
    <2>1. ~ isCopy /\ p # retxPkt
      BY <1>3 DEF Proper, Inv, InOrder, NoPkt, Packets, TypeOK, SendTypes
    <2>2. \/ retxPkt' = NoPkt
          \/ retxPkt' = p /\ hdrFCnt' = fCnt'
      BY <1>3 DEF DoSendNew, Reset
    <2>3. nextTx' = {}
      BY <1>3 DEF DoSendNew, Reset
    <2> QED BY <2>1, <2>2, <2>3 DEF HeaderStep, HeaderChange, QueueChange
  <1> QED BY <1>1, <1>2, <1>3 DEF DoSend, Proper

(* Send of a packet.                                                       *)
LEMMA SendHeader ==
  ASSUME TypeOK, Inv, NEW p \in Packets, NEW isCopy \in BOOLEAN,
         Proper(p, isCopy, nextTx), isCopy \/ p > appSent,
         NEW ts, NEW st, Send(p, isCopy, ts, st)
  PROVE  HeaderStep
  <1>1. PICK d \in WaitingTimes(ts) :
          IF d = 0 THEN SendNow(p, isCopy, ts, st)
                   ELSE Postpone(p, isCopy, d, ts, st)
    BY DEF Send
  <1>2. CASE DoSend(p, isCopy, nextTx, ts, st)
    BY <1>2, DoSendHeader
  <1>3. CASE UNCHANGED <<crash, retxVars, nextTx, dataRate, dutyLeft, fCnt, trace>>
    BY <1>3 DEF retxVars, trace, HeaderStep, HeaderChange, QueueChange
  <1>4. CASE Postpone(p, isCopy, d, ts, st)
    <2>1. \A m \in nextTx' : m.pkt = p /\ m.copy = isCopy
      <3> DEFINE late == \E t \in ts : t.kind = "closeRx2"
      <3>1. nextTx' = {[left |-> d, pkt |-> p, copy |-> isCopy, late |-> late]}
        BY <1>4 DEF Postpone
      <3> HIDE DEF late
      <3> QED BY <3>1
    <2>2. UNCHANGED <<retxPkt, begun>> /\ UNCHANGED <<hdrFCnt, fCnt>>
      BY <1>4 DEF Postpone, retxVars, trace
    <2>3. isCopy => p = retxPkt
      BY DEF Proper
    <2> QED BY <2>1, <2>2, <2>3 DEF HeaderStep, HeaderChange, QueueChange
  <1> QED BY <1>1, <1>2, <1>3, <1>4 DEF SendNow

(* What follows a lost ACK.                                                *)
LEMMA RetryHeader ==
  ASSUME TypeOK, Inv, waitingAck, NEW ts, NEW st, Retry(ts, st)
  PROVE  HeaderStep
  <1>1. retxPkt \in Packets
    BY DEF TypeOK, SendTypes, Inv, RetxMatchesQueue
  <1>2. CASE Send(retxPkt, TRUE, ts, st)
    <2>1. Proper(retxPkt, TRUE, nextTx)
      BY DEF Proper
    <2> QED BY <1>1, <1>2, <2>1, SendHeader
  <1>3. CASE GiveUp(ts, st)
    BY <1>3 DEF GiveUp, Reset, HeaderStep, HeaderChange, QueueChange
  <1> QED BY <1>2, <1>3 DEF Retry

(* What leaves the packet that waits and its header alone.                 *)
LEMMA QuietHeader ==
  ASSUME UNCHANGED <<retxPkt, begun, hdrFCnt, fCnt>>, QueueChange
  PROVE  HeaderStep
  BY DEF HeaderStep, HeaderChange

(* Every step.                                                             *)
LEMMA StepHeader ==
  ASSUME TypeOK, Inv, HeaderInv, [Next]_vars
  PROVE  HeaderStep
  <1>1. CASE UNCHANGED <<retxPkt, hdrFCnt, fCnt, nextTx, begun>>
    BY <1>1, QuietHeader DEF QueueChange
  <1>2. CASE RunNextTx
    <2>1. PICK n \in nextTx :
            \/ Crash("noChannel")
            \/ DoSend(n.pkt, n.copy, {}, timers, phy) /\ appSent' = appSent
      BY <1>2 DEF RunNextTx
    <2>2. CASE DoSend(n.pkt, n.copy, {}, timers, phy) /\ appSent' = appSent
      <3>1. n.pkt \in Packets /\ n.copy \in BOOLEAN
        BY DEF TypeOK, SendTypes, NextTxEvents
      <3>2. Proper(n.pkt, n.copy, {})
        BY <2>2, <3>1 DEF Proper, Inv, InOrder, RetxMatchesQueue, HeaderInv
      <3> QED BY <2>2, <3>1, <3>2, DoSendHeader
    <2> QED BY <1>1, <2>1, <2>2 DEF Crash, retxVars, trace
  <1>3. CASE TxFinished
    BY <1>1, <1>3 DEF TxFinished, Crash, retxVars, trace
  <1>4. CASE CloseFirstAborts
    BY <1>1, <1>4 DEF CloseFirstAborts, Crash, retxVars, trace
  <1>5. CASE WindowHandler
    BY <1>1, <1>5 DEF WindowHandler, retxVars, trace
  <1>6. CASE CloseSecondReceiveWindow
    <2>1. ASSUME waitingAck, NEW ts, NEW st, Retry(ts, st) PROVE HeaderStep
      BY <2>1, RetryHeader
    <2>2. CASE Reset
      BY <2>2 DEF Reset, HeaderStep, HeaderChange, QueueChange
    <2>3. CASE UNCHANGED <<phy, crash, retxVars, nextTx, dataRate, dutyLeft,
                           fCnt, trace>>
      BY <1>1, <2>3 DEF retxVars, trace
    <2> QED BY <1>6, <2>1, <2>2, <2>3 DEF CloseSecondReceiveWindow
  <1>7. CASE EndReceive
    <2>1. CASE Crash("sleepInTx")
      BY <1>1, <2>1 DEF Crash, retxVars, trace
    <2>2. ASSUME NEW f, ReceiveToUs(f) PROVE HeaderStep
      <3>1. CASE Reset
        BY <3>1 DEF Reset, HeaderStep, HeaderChange, QueueChange
      <3>2. CASE UNCHANGED <<retxVars, nextTx>>
        BY <1>1, <2>2, <3>2 DEF ReceiveToUs, retxVars
      <3> QED BY <2>2, <3>1, <3>2 DEF ReceiveToUs
    <2>3. CASE waitingAck /\ Retry(timers, "SLEEP")
      BY <2>3, RetryHeader
    <2>4. CASE UNCHANGED <<timers, crash, retxVars, nextTx, dataRate, dutyLeft,
                           fCnt, trace>>
      BY <1>1, <2>4 DEF retxVars, trace
    <2> QED BY <1>7, <2>1, <2>2, <2>3, <2>4
      DEF EndReceive, ReceiveForeign, FailedReception
  <1>8. CASE Tick
    <2>1. nextTx' = {[e EXCEPT !.left = @ - 1] : e \in nextTx}
      BY <1>8 DEF Tick, Sooner
    <2>2. \A n \in nextTx : LET m == [n EXCEPT !.left = @ - 1]
                            IN  m.pkt = n.pkt /\ m.copy = n.copy
      BY DEF TypeOK, SendTypes, NextTxEvents
    <2>3. QueueChange
      BY <2>1, <2>2 DEF QueueChange
    <2> QED BY <1>8, <2>3, QuietHeader DEF Tick, retxVars, trace
  <1>9. CASE AppSend
    <2>1. /\ appSent < NumPackets /\ appSent' = appSent + 1
          /\ Send(appSent', FALSE, timers, phy)
      BY <1>9 DEF AppSend
    <2>2. appSent \in Nat /\ appSent' \in Packets /\ appSent' \notin begun
      BY <2>1, MacAssumption DEF TypeOK, RestTypes, Packets, Inv, InOrder
    <2>3. retxPkt <= appSent
      BY <2>2 DEF Inv, InOrder, NoPkt
    <2>4. appSent' > appSent /\ appSent' > retxPkt /\ appSent' <= appSent'
      BY <2>1, <2>2, <2>3, MacAssumption DEF TypeOK, SendTypes, Packets, NoPkt
    <2>5. \A n \in nextTx : n.pkt # appSent'
      BY <2>1, <2>2 DEF Inv, InOrder
    <2>6. Proper(appSent', FALSE, nextTx)
      BY <2>2, <2>4, <2>5 DEF Proper
    <2> QED BY <2>1, <2>2, <2>4, <2>6, SendHeader
  <1>10. CASE Arrival
    BY <1>1, <1>10 DEF Arrival, retxVars, trace
  <1>11. CASE \E m \in MTypes : SetMType(m)
    BY <1>1, <1>11 DEF SetMType, retxVars, trace
  <1>12. CASE UNCHANGED vars
    BY <1>1, <1>12 DEF vars, retxVars, trace
  <1> QED BY <1>2, <1>3, <1>4, <1>5, <1>6, <1>7, <1>8, <1>9, <1>10, <1>11, <1>12
    DEF Next, Scheduler, Environment, Handler

(* The application only sends more packets.                                *)
LEMMA SentGrows == TypeOK /\ [Next]_vars => appSent <= appSent'
  <1> SUFFICES ASSUME TypeOK, [Next]_vars PROVE appSent <= appSent'
    OBVIOUS
  <1>1. appSent \in Nat
    BY MacAssumption DEF TypeOK, RestTypes
  <1>2. appSent' = appSent \/ appSent' = appSent + 1
    BY DEF Next, Scheduler, Environment, Handler, RunNextTx, TxFinished, CloseFirstAborts,
       WindowHandler, CloseSecondReceiveWindow, EndReceive, Tick, AppSend, Arrival,
       SetMType, Crash, vars
  <1> QED BY <1>1, <1>2

(* All transmissions of a packet carry the same frame counter, whatever    *)
(* comes between them - a lost ACK, a change of the data rate, a packet    *)
(* that waits its turn - unless a later packet was dropped for its size.   *)
THEOREM FCntIsStable == Spec => SameFCnt
  <1>1. Init => HeaderInv
    BY DEF Init, HeaderInv
  <1>2. TypeOK /\ TypeOK' /\ Inv /\ HeaderInv /\ [Next]_vars => HeaderInv'
    BY StepHeader, StepKeepsHeader, SentGrows
  <1>3. TypeOK /\ Inv /\ HeaderInv /\ [Next]_vars
          => [onAir' # onAir /\ retxPkt # NoPkt /\ retxPkt' = retxPkt
                => hdrFCnt' = hdrFCnt \/ DroppedAfter(retxPkt)]_vars
    BY StepHeader DEF HeaderStep, HeaderChange, HeaderInv, Excused
  <1> QED BY <1>1, <1>2, <1>3, Inductive, PTL DEF Spec, SameFCnt
=============================================================================
