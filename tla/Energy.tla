-------------------------------- MODULE Energy --------------------------------
(***************************************************************************)
(* The energy a radio consumes (LoraRadioEnergyModel): told by the radio   *)
(* of each switch, the model charges the time since the last one at the    *)
(* current of the state it believes the radio in, has the energy source    *)
(* updated, and only then takes over the new state.  An update that finds  *)
(* the source empty, or full again, calls back, and the callback may       *)
(* switch the radio: ChangeState is entered again before it has returned.  *)
(*                                                                         *)
(* Energy is current times ticks; the supply voltage is the unit.  The     *)
(* source is that of ns-3 (BasicEnergySource), which lets a harvester add  *)
(* energy at any time and updates itself between the calls of the model.   *)
(***************************************************************************)
EXTENDS Integers, Sequences

CONSTANTS
  Current,        \* m_idleCurrentA, m_rxCurrentA, m_sleepCurrentA: by state
  TxPowers,       \* what the MAC may ask for
  HasTxModel,     \* whether a LinearLoraTxCurrentModel is attached
  Gain,           \* its current per power: 1 / (voltage * eta)
  TxCurrentA,     \* the attribute, which counts without a model
  InitialEnergy,
  Low, High,      \* the levels at which the source is empty, and full again
  Harvest,        \* what a harvester may add at once
  MaxTime         \* bound of the clock

States == {"SLEEP", "STANDBY", "TX", "RX"}

ASSUME EnergyAssumption ==
  /\ Current \in [States \ {"TX"} -> Nat]
  /\ TxPowers \subseteq Nat /\ HasTxModel \in BOOLEAN
  /\ Gain \in Nat /\ TxCurrentA \in Nat
  /\ InitialEnergy \in Nat /\ Low \in Nat /\ High \in Nat
  /\ Low <= High
  /\ Harvest \subseteq Nat
  /\ MaxTime \in Nat

VARIABLES
  now,
  phy,            \* EndDeviceLoraPhy::m_state
  calls,          \* the calls of ChangeState that have not returned
  currentState,   \* m_currentState
  txCurrent,      \* m_txCurrentA
  lastUpdate,     \* m_lastUpdateTime
  total,          \* m_totalEnergyConsumption
  nPending,       \* m_nPendingChangeState
  superseded,     \* m_isSupersededChangeState
  source,         \* the energy source: remaining, lastUpdate, depleted
  callbacks,      \* whether depletion and recharge switch the radio
  crash,          \* whether SwitchToSleep failed its assertion
  used            \* what the radio has consumed, by its own state

modelVars == <<currentState, lastUpdate, total, nPending, superseded>>
enVars == <<now, phy, calls, txCurrent, modelVars, source, callbacks, crash, used>>

Calls == [state : States, step : {"charge", "update", "set"}]

EnInit ==
  /\ now = 0 /\ phy = "SLEEP" /\ calls = << >>
  /\ currentState = "SLEEP" /\ txCurrent = TxCurrentA
  /\ lastUpdate = 0 /\ total = 0
  /\ nPending = 0 /\ superseded = FALSE
  /\ source = [remaining |-> InitialEnergy, lastUpdate |-> 0, depleted |-> FALSE]
  /\ callbacks \in BOOLEAN
  /\ crash = FALSE
  /\ used = 0

-----------------------------------------------------------------------------
(* DoGetCurrentA, and the switch of ChangeState.                           *)
CurrentOf(s) == IF s = "TX" THEN txCurrent ELSE Current[s]

(* The radio is in state s, and its listener enters ChangeState.           *)
Entered(rest, s) == Append(rest, [state |-> s, step |-> "charge"])

Quiet == calls = << >> /\ ~ crash

(* SwitchToStandby, SwitchToRx, SwitchToSleep of the radio.                *)
MaySwitch(s) == s = "STANDBY" \/ (s \in {"RX", "SLEEP"} /\ phy = "STANDBY")

Switch(s) ==
  /\ Quiet
  /\ MaySwitch(s)
  /\ phy' = s
  /\ calls' = Entered(calls, s)
  /\ UNCHANGED <<now, txCurrent, modelVars, source, callbacks, crash, used>>

CalcTxCurrent(power) == power * Gain + Current["STANDBY"]

(* SwitchToTx: the listener takes over the current for the power before it *)
(* enters ChangeState.                                                     *)
SwitchToTx(power) ==
  /\ Quiet
  /\ phy \in {"STANDBY", "SLEEP"}
  /\ phy' = "TX"
  /\ txCurrent' = IF HasTxModel THEN CalcTxCurrent(power) ELSE txCurrent
  /\ calls' = Entered(calls, "TX")
  /\ UNCHANGED <<now, modelVars, source, callbacks, crash, used>>

-----------------------------------------------------------------------------
(* ChangeState, in the order of its statements.                            *)
Top == calls[Len(calls)]
Rest == SubSeq(calls, 1, Len(calls) - 1)
At(step) == ~ crash /\ calls # << >> /\ Top.step = step
Continued(step) == Append(Rest, [Top EXCEPT !.step = step])

(* Mutant: the time is charged at the current of the new state. *)
ChargeNew == CurrentOf(Top.state)
ChargedCurrent == CurrentOf(currentState)

ChangeState ==
  /\ At("charge")
  /\ total' = total + (now - lastUpdate) * ChargedCurrent
  /\ lastUpdate' = now
  /\ nPending' = nPending + 1
  /\ calls' = Continued("update")
  /\ UNCHANGED <<now, phy, txCurrent, currentState, superseded, source, callbacks, crash, used>>

(* UpdateEnergySource: what the radio used since, and the callback of a    *)
(* source that is found empty or full again.                               *)
Remaining ==
  LET drawn == (now - source.lastUpdate) * CurrentOf(currentState)
  IN  IF drawn > source.remaining THEN 0 ELSE source.remaining - drawn

IsDepleted == ~ source.depleted /\ Remaining <= Low
IsRecharged == source.depleted /\ Remaining > High

UpdateEnergySource(rest) ==
  /\ source' = [remaining |-> Remaining, lastUpdate |-> now,
                depleted |-> IsDepleted \/ (source.depleted /\ ~ IsRecharged)]
  /\ \/ /\ callbacks /\ IsDepleted /\ phy # "STANDBY"
        /\ crash' = TRUE
        /\ UNCHANGED <<phy, calls>>
     \/ /\ callbacks /\ IsDepleted /\ phy = "STANDBY"
        /\ phy' = "SLEEP"
        /\ calls' = Entered(rest, "SLEEP")
        /\ UNCHANGED crash
     \/ /\ callbacks /\ IsRecharged
        /\ phy' = "STANDBY"
        /\ calls' = Entered(rest, "STANDBY")
        /\ UNCHANGED crash
     \/ /\ ~ callbacks \/ (~ IsDepleted /\ ~ IsRecharged)
        /\ calls' = rest
        /\ UNCHANGED <<phy, crash>>

ChangeStateUpdates ==
  /\ At("update")
  /\ UpdateEnergySource(Continued("set"))
  /\ UNCHANGED <<now, txCurrent, modelVars, callbacks, used>>

(* The source updates itself from time to time. *)
PeriodicUpdate ==
  /\ Quiet
  /\ UpdateEnergySource(calls)
  /\ UNCHANGED <<now, txCurrent, modelVars, callbacks, used>>

(* Mutant: the outer call takes over its state after the nested one. *)
Always == TRUE
(* The state is taken over unless a nested call has done so meanwhile.     *)
TakesOver == ~ superseded

ChangeStateReturns ==
  /\ At("set")
  /\ currentState' = IF TakesOver THEN Top.state ELSE currentState
  /\ superseded' = (nPending > 1)
  /\ nPending' = nPending - 1
  /\ calls' = Rest
  /\ UNCHANGED <<now, phy, txCurrent, lastUpdate, total, source, callbacks, crash, used>>

-----------------------------------------------------------------------------
HarvestEnergy(e) ==
  /\ Quiet
  /\ source.remaining + e <= InitialEnergy
  /\ source' = [source EXCEPT !.remaining = @ + e]
  /\ UNCHANGED <<now, phy, calls, txCurrent, modelVars, callbacks, crash, used>>

EnTick ==
  /\ Quiet
  /\ now < MaxTime
  /\ now' = now + 1
  /\ used' = used + CurrentOf(phy)
  /\ UNCHANGED <<phy, calls, txCurrent, modelVars, source, callbacks, crash>>

EnNext ==
  \/ \E s \in States \ {"TX"} : Switch(s)
  \/ \E p \in TxPowers : SwitchToTx(p)
  \/ ChangeState \/ ChangeStateUpdates \/ ChangeStateReturns
  \/ PeriodicUpdate
  \/ \E e \in Harvest : HarvestEnergy(e)
  \/ EnTick

EnSpec == EnInit /\ [][EnNext]_enVars

-----------------------------------------------------------------------------
EnTypeOK ==
  /\ now \in 0 .. MaxTime
  /\ phy \in States /\ currentState \in States
  /\ calls \in Seq(Calls)
  /\ txCurrent \in Nat /\ total \in Nat /\ used \in Nat
  /\ lastUpdate \in 0 .. now
  /\ nPending \in Nat /\ superseded \in BOOLEAN
  /\ source \in [remaining : Nat, lastUpdate : 0 .. now, depleted : BOOLEAN]
  /\ callbacks \in BOOLEAN /\ crash \in BOOLEAN

(* Whatever the callbacks of the source do in the middle of a switch, the  *)
(* model believes the radio in the state it is in once the calls have      *)
(* returned, and no call is thought to be pending.                         *)
StateFollowsRadio ==
  Quiet => currentState = phy /\ nPending = 0 /\ ~ superseded

(* What the model has charged, with the time since its last update, is     *)
(* what the radio consumed in its states: no switch is charged at the      *)
(* wrong current, twice or not at all.                                     *)
ChargesMatchRadio == used = total + (now - lastUpdate) * CurrentOf(currentState)
===============================================================================
