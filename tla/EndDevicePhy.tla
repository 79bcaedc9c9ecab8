---------------------------- MODULE EndDevicePhy ----------------------------
(***************************************************************************)
(* The radio of an end device (SimpleEndDeviceLoraPhy over                 *)
(* EndDeviceLoraPhy): a four-state machine, and the simulator events it    *)
(* schedules for itself and for its MAC.                                   *)
(*                                                                         *)
(* Time is discrete and relative: a pending simulator event is a record    *)
(* whose field "left" counts the ticks until it is due.  The frequency,    *)
(* the spreading factor and the power are abstracted: whether the radio    *)
(* locks on a packet that reaches it in STANDBY, and whether interference  *)
(* destroys a packet it has locked on, are choices of the environment.     *)
(***************************************************************************)
EXTENDS Integers

CONSTANTS
  RxDurations,   \* on-air times of the packets the radio may lock on
  TxGap          \* ticks between the switch to STANDBY and txFinished (10 ns)

ASSUME PhyAssumption == /\ RxDurations \subseteq Nat \ {0}
                        /\ TxGap \in Nat \ {0}

VARIABLES
  phy,           \* EndDeviceLoraPhy::m_state
  timers,        \* pending events that carry no argument: [kind, left]
  receiving,     \* pending EndReceive events: [left, frame]
  crash          \* "none", or the assertion or abort that ended the program

PhyStates == {"SLEEP", "STANDBY", "TX", "RX"}

(* txStandby and txFinished are scheduled by the radio, the others by the  *)
(* MAC.  openRx2 is the event m_secondReceiveWindow refers to; an older    *)
(* one that is still pending when the handle is overwritten is an orphan.  *)
TimerKinds == {"txStandby", "txFinished", "openRx1", "closeRx1",
               "openRx2", "orphanRx2", "closeRx2"}
Timers == [kind: TimerKinds, left: Nat]

Timer(k, d)    == [kind |-> k, left |-> d]
Pending(k)     == \E t \in timers : t.kind = k
DueNow(k)      == Timer(k, 0) \in timers
Fired(k)       == timers \ {Timer(k, 0)}

PhyInit == /\ phy = "SLEEP"
           /\ timers = {}
           /\ receiving = {}
           /\ crash = "none"

-----------------------------------------------------------------------------
(* SimpleEndDeviceLoraPhy::Send.  The packet leaves only from STANDBY or   *)
(* SLEEP; otherwise the call returns without telling the MAC.  ts are the  *)
(* timers left by the caller, st the state the caller left the radio in.   *)
CanSend(st) == st \in {"STANDBY", "SLEEP"}

SendTimers(ts, st, toa) ==
  IF CanSend(st)
    THEN ts \cup {Timer("txStandby", toa), Timer("txFinished", toa + TxGap)}
    ELSE ts

SendState(st) == IF CanSend(st) THEN "TX" ELSE st

(* SwitchToSleep asserts STANDBY: in any other state the program stops.    *)
SleepOk(st) == st = "STANDBY"

(* The switch back to STANDBY at the end of a transmission, as an event.   *)
(* The radio switches whatever it is doing.                                *)
TxStandby ==
  /\ DueNow("txStandby")
  /\ timers' = Fired("txStandby")
  /\ phy' = "STANDBY"
  /\ UNCHANGED <<receiving, crash>>

(* StartReceive with a packet the radio locks on: it must be in STANDBY.   *)
(* In the other states, or if the packet is on another frequency, on       *)
(* another spreading factor or too weak, the radio state does not change.  *)
StartReceive(f, d) ==
  /\ phy = "STANDBY"
  /\ phy' = "RX"
  /\ receiving' = receiving \cup {[left |-> d, frame |-> f]}
  /\ UNCHANGED <<timers, crash>>

(* The pending EndReceive events that are due.                             *)
EndingReceptions == {r \in receiving : r.left = 0}

-----------------------------------------------------------------------------
(* One tick less for every pending event of a set.                         *)
Sooner(evs) == {[e EXCEPT !.left = @ - 1] : e \in evs}

NothingDue(evs) == \A e \in evs : e.left > 0
=============================================================================
