----------------------------- MODULE Energy_proofs -----------------------------
(***************************************************************************)
(* The re-entrant ChangeState, proved for every set of currents, every     *)
(* source and every harvester: calls nest at most once, the nested call    *)
(* wins, and the time is charged at the right current.                     *)
(***************************************************************************)
EXTENDS Energy, SequenceTheorems, TLAPS

Frame(s, step) == [state |-> s, step |-> step]

(* The source has been updated at this instant and has nothing to report.  *)
Settled ==
  /\ source.lastUpdate = now
  /\ source.depleted => source.remaining <= High
  /\ ~ source.depleted => source.remaining > Low

AtRest ==
  /\ calls = << >>
  /\ currentState = phy /\ nPending = 0 /\ ~ superseded

(* A call that is about to charge, or has charged and is about to return,  *)
(* in the last case after a nested call or without one.                    *)
Entering ==
  /\ calls = <<Frame(phy, "charge")>>
  /\ nPending = 0 /\ ~ superseded

Updating ==
  /\ calls = <<Frame(phy, "update")>>
  /\ nPending = 1 /\ ~ superseded /\ lastUpdate = now

Returning ==
  /\ \E s \in States :
       /\ calls = <<Frame(s, "set")>>
       /\ superseded => currentState = phy
       /\ ~ superseded => s = phy
  /\ nPending = 1 /\ lastUpdate = now

(* The nested call, while the outer one waits for its update to return.    *)
Nested(step, n) ==
  /\ \E s \in States : calls = <<Frame(s, "set"), Frame(phy, step)>>
  /\ nPending = n /\ ~ superseded /\ lastUpdate = now
  /\ step # "set" => Settled

Shape ==
  \/ AtRest \/ Entering \/ Updating \/ Returning
  \/ Nested("charge", 1) \/ Nested("update", 2) \/ Nested("set", 2)

EnInv == EnTypeOK /\ Shape /\ ChargesMatchRadio

-----------------------------------------------------------------------------
LEMMA CurrentsAreNumbers ==
  ASSUME EnTypeOK, NEW s \in States
  PROVE  CurrentOf(s) \in Nat
BY EnergyAssumption DEF EnergyAssumption, EnTypeOK, CurrentOf, States

LEMMA FramesAreCalls ==
  ASSUME NEW s \in States, NEW step \in {"charge", "update", "set"}
  PROVE  /\ Frame(s, step) \in Calls
         /\ Frame(s, step).state = s /\ Frame(s, step).step = step
BY DEF Frame, Calls

LEMMA Pushing ==
  ASSUME NEW S, NEW f \in S, NEW g \in S
  PROVE  Append(<<f>>, g) = <<f, g>>
<1>1. <<f>> \in Seq(S) /\ Len(<<f>>) = 1 /\ <<f>>[1] = f
  OBVIOUS
<1>2. <<f, g>> \in Seq(S) /\ Len(<<f, g>>) = 2 /\ <<f, g>>[1] = f /\ <<f, g>>[2] = g
  OBVIOUS
<1> DEFINE a == Append(<<f>>, g)
<1>3. a \in Seq(S) /\ Len(a) = 2 /\ a[1] = f /\ a[2] = g
  BY <1>1, AppendProperties
<1> HIDE DEF a
<1>4. \A i \in 1 .. Len(a) : a[i] = <<f, g>>[i]
  BY <1>2, <1>3
<1>5. a = <<f, g>>
  BY <1>2, <1>3, <1>4, SeqEqual, Zenon
<1> QED BY <1>5 DEF a

LEMMA Popping ==
  ASSUME NEW S, NEW f \in S, NEW g \in S
  PROVE  SubSeq(<<f, g>>, 1, 1) = <<f>>
<1>1. <<f>> \in Seq(S) /\ Len(<<f>>) = 1 /\ <<f>>[1] = f
  OBVIOUS
<1> DEFINE a == SubSeq(<<f, g>>, 1, 1)
<1>2. \A i \in 1 .. 1 : <<f, g>>[i] \in S
  OBVIOUS
<1>3. a \in Seq(S) /\ Len(a) = 1 /\ a[1] = f
  BY <1>2, SubSeqProperties
<1> HIDE DEF a
<1>4. \A i \in 1 .. Len(a) : a[i] = <<f>>[i]
  BY <1>1, <1>3
<1>5. a = <<f>>
  BY <1>1, <1>3, <1>4, SeqEqual, Zenon
<1> QED BY <1>5 DEF a

(* The operations on a stack of one frame, and of two.                     *)
LEMMA OneFrame ==
  ASSUME NEW s \in States, NEW step \in {"charge", "update", "set"},
         calls = <<Frame(s, step)>>
  PROVE  /\ calls # << >> /\ Top = Frame(s, step) /\ Rest = << >>
         /\ \A t \in {"update", "set"} : Continued(t) = <<Frame(s, t)>>
<1>1. Len(calls) = 1 /\ Top = Frame(s, step)
  BY FramesAreCalls DEF Top
<1>2. Rest = << >>
  BY FramesAreCalls, <1>1 DEF Rest
<1>3. ASSUME NEW t \in {"update", "set"} PROVE Continued(t) = <<Frame(s, t)>>
  <2>1. [Top EXCEPT !.step = t] = Frame(s, t)
    BY <1>1 DEF Frame
  <2> QED BY <2>1, <1>2, FramesAreCalls DEF Continued
<1> QED BY <1>1, <1>2, <1>3

LEMMA TwoFrames ==
  ASSUME NEW r \in States, NEW s \in States, NEW step \in {"charge", "update", "set"},
         calls = <<Frame(r, "set"), Frame(s, step)>>
  PROVE  /\ calls # << >> /\ Top = Frame(s, step) /\ Rest = <<Frame(r, "set")>>
         /\ \A t \in {"update", "set"} : Continued(t) = <<Frame(r, "set"), Frame(s, t)>>
<1>1. Len(calls) = 2 /\ Top = Frame(s, step)
  BY FramesAreCalls DEF Top
<1>2. Rest = <<Frame(r, "set")>>
  <2>1. Frame(r, "set") \in Calls /\ Frame(s, step) \in Calls
    BY FramesAreCalls
  <2> QED BY <2>1, <1>1, Popping DEF Rest
<1>3. ASSUME NEW t \in {"update", "set"}
      PROVE  Continued(t) = <<Frame(r, "set"), Frame(s, t)>>
  <2>1. [Top EXCEPT !.step = t] = Frame(s, t)
    BY <1>1 DEF Frame
  <2>2. Frame(r, "set") \in Calls /\ Frame(s, t) \in Calls
    BY FramesAreCalls
  <2> QED BY <2>1, <2>2, <1>2, Pushing DEF Continued
<1> QED BY <1>1, <1>2, <1>3

LEMMA PushedFrames ==
  ASSUME NEW s \in States, NEW r \in States
  PROVE  /\ Entered(<< >>, s) = <<Frame(s, "charge")>>
         /\ Entered(<<Frame(r, "set")>>, s) = <<Frame(r, "set"), Frame(s, "charge")>>
<1>1. Frame(r, "set") \in Calls /\ Frame(s, "charge") \in Calls
  BY FramesAreCalls
<1> QED BY <1>1, Pushing DEF Entered, Frame

(* A frame at the top tells the step of the call.                          *)
LEMMA WhichStep ==
  ASSUME EnTypeOK, Shape
  PROVE  /\ At("charge") => Entering \/ Nested("charge", 1)
         /\ At("update") => Updating \/ Nested("update", 2)
         /\ At("set") => Returning \/ Nested("set", 2)
         /\ Quiet => AtRest
<1> phy \in States BY DEF EnTypeOK
<1>1. CASE AtRest
  BY <1>1 DEF AtRest, At
<1>2. CASE Entering
  <2>1. calls # << >> /\ Top = Frame(phy, "charge")
    BY <1>2, OneFrame DEF Entering
  <2> QED BY <1>2, <2>1, FramesAreCalls DEF At, Quiet
<1>3. CASE Updating
  <2>1. calls # << >> /\ Top = Frame(phy, "update")
    BY <1>3, OneFrame DEF Updating
  <2> QED BY <1>3, <2>1, FramesAreCalls DEF At, Quiet
<1>4. CASE Returning
  <2>1. PICK s \in States : calls = <<Frame(s, "set")>>
    BY <1>4 DEF Returning
  <2>2. calls # << >> /\ Top = Frame(s, "set")
    BY <2>1, OneFrame
  <2> QED BY <1>4, <2>2, FramesAreCalls DEF At, Quiet
<1>5. ASSUME NEW step \in {"charge", "update", "set"}, NEW n, Nested(step, n)
      PROVE  calls # << >> /\ Top.step = step
  <2>1. PICK s \in States : calls = <<Frame(s, "set"), Frame(phy, step)>>
    BY <1>5 DEF Nested
  <2> QED BY <2>1, TwoFrames, FramesAreCalls
<1>6. CASE Nested("charge", 1)
  BY <1>5, <1>6 DEF At, Quiet
<1>7. CASE Nested("update", 2)
  BY <1>5, <1>7 DEF At, Quiet
<1>8. CASE Nested("set", 2)
  BY <1>5, <1>8 DEF At, Quiet
<1> QED BY <1>1, <1>2, <1>3, <1>4, <1>6, <1>7, <1>8 DEF Shape

-----------------------------------------------------------------------------
LEMMA Initially == EnInit => EnInv
<1> SUFFICES ASSUME EnInit PROVE EnInv
  OBVIOUS
<1>1. EnTypeOK
  <2>1. source \in [remaining : Nat, lastUpdate : 0 .. now, depleted : BOOLEAN]
    BY EnergyAssumption DEF EnergyAssumption, EnInit
  <2>2. calls \in Seq(Calls)
    BY EmptySeq DEF EnInit
  <2>3. now \in 0 .. MaxTime /\ lastUpdate \in 0 .. now /\ txCurrent \in Nat
    BY EnergyAssumption DEF EnergyAssumption, EnInit
  <2>4. phy \in States /\ currentState \in States
    BY DEF EnInit, States
  <2>5. total \in Nat /\ used \in Nat /\ nPending \in Nat /\ superseded \in BOOLEAN
    BY DEF EnInit
  <2>6. callbacks \in BOOLEAN /\ crash \in BOOLEAN
    BY DEF EnInit
  <2> QED BY <2>1, <2>2, <2>3, <2>4, <2>5, <2>6 DEF EnTypeOK
<1>2. Shape
  BY DEF EnInit, Shape, AtRest
<1>3. ChargesMatchRadio
  <2>1. CurrentOf(currentState) \in Nat
    BY <1>1, CurrentsAreNumbers DEF EnTypeOK
  <2> QED BY <2>1 DEF EnInit, ChargesMatchRadio
<1> QED BY <1>1, <1>2, <1>3 DEF EnInv

LEMMA SwitchKeeps ==
  ASSUME EnInv, NEW s \in States, Switch(s)
  PROVE  EnInv'
<1>1. AtRest /\ EnTypeOK
  BY WhichStep DEF EnInv, Switch
<1>2. calls' = <<Frame(s, "charge")>> /\ phy' = s
  BY <1>1, PushedFrames DEF Switch, AtRest
<1>3. EnTypeOK'
  BY <1>1, <1>2, FramesAreCalls DEF EnTypeOK, Switch, modelVars
<1>4. Shape'
  BY <1>1, <1>2 DEF Shape, Entering, AtRest, Switch, modelVars
<1>5. ChargesMatchRadio'
  BY DEF EnInv, ChargesMatchRadio, CurrentOf, Switch, modelVars
<1> QED BY <1>3, <1>4, <1>5 DEF EnInv

LEMMA SwitchToTxKeeps ==
  ASSUME EnInv, NEW p \in TxPowers, SwitchToTx(p)
  PROVE  EnInv'
<1>1. AtRest /\ EnTypeOK
  BY WhichStep DEF EnInv, SwitchToTx
<1>2. calls' = <<Frame("TX", "charge")>> /\ phy' = "TX"
  BY <1>1, PushedFrames DEF SwitchToTx, AtRest, States
<1>3. txCurrent' \in Nat
  <2>1. CalcTxCurrent(p) \in Nat
    BY EnergyAssumption DEF EnergyAssumption, CalcTxCurrent, States
  <2> QED BY <1>1, <2>1 DEF SwitchToTx, EnTypeOK
<1>4. EnTypeOK'
  <2>1. phy' \in States
    BY <1>2 DEF States
  <2>2. calls' \in Seq(Calls)
    BY <1>2, <2>1, FramesAreCalls
  <2> QED BY <1>1, <1>3, <2>1, <2>2 DEF EnTypeOK, SwitchToTx, modelVars
<1>5. Shape'
  BY <1>1, <1>2 DEF Shape, Entering, AtRest, SwitchToTx, modelVars
<1>6. ChargesMatchRadio'
  <2>1. currentState # "TX"
    BY <1>1 DEF AtRest, SwitchToTx
  <2> QED BY <2>1 DEF EnInv, ChargesMatchRadio, CurrentOf, SwitchToTx, modelVars
<1> QED BY <1>4, <1>5, <1>6 DEF EnInv

LEMMA ChargeKeeps ==
  ASSUME EnInv, ChangeState
  PROVE  EnInv'
<1>1. EnTypeOK /\ ChargesMatchRadio /\ CurrentOf(currentState) \in Nat
  BY CurrentsAreNumbers DEF EnInv, EnTypeOK
<1>2. (now - lastUpdate) * CurrentOf(currentState) \in Nat
  BY <1>1 DEF EnTypeOK
<1>3. /\ total' = total + (now - lastUpdate) * CurrentOf(currentState)
      /\ total' \in Nat /\ lastUpdate' = now /\ nPending' = nPending + 1
      /\ calls' = Continued("update")
  BY <1>1, <1>2 DEF ChangeState, ChargedCurrent, EnTypeOK
<1>4. phy \in States
  BY <1>1 DEF EnTypeOK
<1>5. ChargesMatchRadio'
  <2>1. CurrentOf(currentState)' = CurrentOf(currentState)
    BY DEF ChangeState, CurrentOf
  <2>2. lastUpdate' = now' /\ now' \in Nat /\ used' = total'
    BY <1>1, <1>3 DEF ChangeState, ChargesMatchRadio, EnTypeOK
  <2>3. (now' - lastUpdate') * CurrentOf(currentState)' = 0
    BY <2>1, <2>2, <1>1
  <2> QED BY <2>2, <2>3, <1>3 DEF ChargesMatchRadio
<1>6. calls' \in Seq(Calls) /\ Shape'
  <2>1. CASE Entering
    <3>1. calls' = <<Frame(phy, "update")>>
      BY <2>1, <1>3, <1>4, OneFrame DEF Entering
    <3>2. Updating'
      BY <3>1, <2>1, <1>3 DEF Entering, Updating, ChangeState
    <3> QED BY <3>1, <3>2, <1>4, FramesAreCalls DEF Shape
  <2>2. CASE Nested("charge", 1)
    <3>1. PICK r \in States : calls = <<Frame(r, "set"), Frame(phy, "charge")>>
      BY <2>2 DEF Nested
    <3>2. calls' = <<Frame(r, "set"), Frame(phy, "update")>>
      BY <3>1, <1>3, <1>4, TwoFrames
    <3>3. Nested("update", 2)'
      BY <3>2, <2>2, <1>3 DEF Nested, Settled, ChangeState
    <3> QED BY <3>2, <3>3, <1>4, FramesAreCalls DEF Shape
  <2> QED BY <2>1, <2>2, WhichStep DEF EnInv, ChangeState
<1>7. EnTypeOK'
  BY <1>1, <1>3, <1>6 DEF EnTypeOK, ChangeState
<1> QED BY <1>5, <1>6, <1>7 DEF EnInv

(* What an update leaves the source in, and that it has nothing to report  *)
(* of a source that has just been updated.                                 *)
LEMMA UpdateSettles ==
  ASSUME EnTypeOK, NEW rest, UpdateEnergySource(rest), now' = now
  PROVE  /\ source' \in [remaining : Nat, lastUpdate : 0 .. now, depleted : BOOLEAN]
         /\ Settled'
         /\ Settled => ~ IsDepleted /\ ~ IsRecharged
<1>1. (now - source.lastUpdate) * CurrentOf(currentState) \in Nat
  BY CurrentsAreNumbers DEF EnTypeOK
<1>2. Remaining \in Nat
  BY <1>1 DEF EnTypeOK, Remaining
<1>3. source' \in [remaining : Nat, lastUpdate : 0 .. now, depleted : BOOLEAN]
  BY <1>2 DEF EnTypeOK, UpdateEnergySource, IsDepleted, IsRecharged
<1>4. Settled'
  <2>1. /\ source'.remaining = Remaining /\ source'.lastUpdate = now
        /\ source'.depleted <=> (IsDepleted \/ (source.depleted /\ ~ IsRecharged))
    BY DEF UpdateEnergySource
  <2>2. Low <= High /\ Low \in Nat /\ High \in Nat /\ source.depleted \in BOOLEAN
    BY EnergyAssumption DEF EnergyAssumption, EnTypeOK
  <2> QED BY <1>2, <2>1, <2>2 DEF IsDepleted, IsRecharged, Settled
<1>5. Settled => ~ IsDepleted /\ ~ IsRecharged
  <2> SUFFICES ASSUME Settled PROVE ~ IsDepleted /\ ~ IsRecharged
    OBVIOUS
  <2>1. (now - source.lastUpdate) * CurrentOf(currentState) = 0
    BY CurrentsAreNumbers DEF EnTypeOK, Settled
  <2>2. Remaining = source.remaining
    BY <2>1 DEF Remaining, EnTypeOK
  <2> QED BY <2>2, EnergyAssumption
      DEF EnergyAssumption, EnTypeOK, IsDepleted, IsRecharged, Settled
<1> QED BY <1>3, <1>4, <1>5
(* An update that is no part of a call, or that of the outer call: the     *)
(* callback may enter ChangeState.                                         *)
LEMMA ChangeStateUpdatesKeeps ==
  ASSUME EnInv, ChangeStateUpdates
  PROVE  EnInv'
<1>1. EnTypeOK /\ phy \in States /\ crash \in BOOLEAN
  BY DEF EnInv, EnTypeOK, ChangeStateUpdates, At
<1>2. /\ source' \in [remaining : Nat, lastUpdate : 0 .. now, depleted : BOOLEAN]
      /\ Settled'
      /\ Settled => ~ IsDepleted /\ ~ IsRecharged
  BY <1>1, UpdateSettles DEF ChangeStateUpdates
<1>3. /\ currentState' = currentState /\ lastUpdate' = lastUpdate /\ total' = total
      /\ nPending' = nPending /\ superseded' = superseded
      /\ now' = now /\ txCurrent' = txCurrent /\ used' = used /\ callbacks' = callbacks
  BY DEF ChangeStateUpdates, modelVars
<1>4. ChargesMatchRadio'
  BY <1>3 DEF EnInv, ChargesMatchRadio, CurrentOf
<1>5. phy' \in States /\ crash' \in BOOLEAN /\ calls' \in Seq(Calls) /\ Shape'
  <2>1. CASE Updating
    <3>1. Continued("set") = <<Frame(phy, "set")>> /\ calls = <<Frame(phy, "update")>>
      BY <2>1, <1>1, OneFrame DEF Updating
    <3>2. CASE UNCHANGED <<phy, calls>> /\ crash' = TRUE
      <4>1. Updating'
        BY <3>2, <2>1, <1>3 DEF Updating
      <4> QED BY <3>2, <4>1, <1>1 DEF Shape, EnTypeOK
    <3>3. ASSUME NEW s \in {"SLEEP", "STANDBY"},
                 phy' = s, calls' = Entered(Continued("set"), s), UNCHANGED crash
          PROVE  phy' \in States /\ crash' \in BOOLEAN /\ calls' \in Seq(Calls) /\ Shape'
      <4>1. s \in States /\ phy' \in States
        BY <3>3 DEF States
      <4>2. calls' = <<Frame(phy, "set"), Frame(s, "charge")>>
        BY <3>1, <3>3, <4>1, <1>1, PushedFrames
      <4>3. Nested("charge", 1)'
        BY <4>2, <3>3, <2>1, <1>1, <1>2, <1>3 DEF Nested, Updating
      <4> QED BY <4>1, <4>2, <4>3, <3>3, <1>1, FramesAreCalls DEF Shape, EnTypeOK
    <3>4. CASE calls' = Continued("set") /\ UNCHANGED <<phy, crash>>
      <4>1. Returning'
        BY <3>4, <3>1, <2>1, <1>1, <1>3 DEF Returning, Updating
      <4>2. calls' \in Seq(Calls)
        <5>1. Frame(phy, "set") \in Calls
          BY <1>1, FramesAreCalls
        <5>2. calls' = <<Frame(phy, "set")>>
          BY <3>4, <3>1, Zenon
        <5> QED BY <5>1, <5>2
      <4>3. phy' \in States /\ crash' \in BOOLEAN
        BY <3>4, <1>1
      <4> QED BY <4>1, <4>2, <4>3, Zenon DEF Shape
    <3> QED BY <3>2, <3>3, <3>4 DEF ChangeStateUpdates, UpdateEnergySource
  <2>2. CASE Nested("update", 2)
    <3>1. PICK r \in States : calls = <<Frame(r, "set"), Frame(phy, "update")>>
      BY <2>2 DEF Nested
    <3>2. Continued("set") = <<Frame(r, "set"), Frame(phy, "set")>>
      BY <3>1, <1>1, TwoFrames
    <3>3. calls' = Continued("set") /\ UNCHANGED <<phy, crash>>
      BY <2>2, <1>2 DEF Nested, ChangeStateUpdates, UpdateEnergySource
    <3>4. Nested("set", 2)'
      BY <3>2, <3>3, <2>2, <1>3 DEF Nested
    <3>5. calls' \in Seq(Calls)
      <4>1. Frame(r, "set") \in Calls /\ Frame(phy, "set") \in Calls
        BY <1>1, FramesAreCalls
      <4>2. calls' = <<Frame(r, "set"), Frame(phy, "set")>>
        BY <3>2, <3>3, Zenon
      <4> QED BY <4>1, <4>2
    <3>6. phy' \in States /\ crash' \in BOOLEAN
      BY <3>3, <1>1
    <3> QED BY <3>4, <3>5, <3>6, Zenon DEF Shape
  <2> QED BY <2>1, <2>2, WhichStep DEF EnInv, ChangeStateUpdates
<1>6. EnTypeOK'
  BY <1>1, <1>2, <1>3, <1>5 DEF EnTypeOK
<1> QED BY <1>4, <1>5, <1>6 DEF EnInv

LEMMA PeriodicUpdateKeeps ==
  ASSUME EnInv, PeriodicUpdate
  PROVE  EnInv'
<1>1. EnTypeOK /\ AtRest /\ phy \in States
  BY WhichStep DEF EnInv, EnTypeOK, PeriodicUpdate
<1>2. source' \in [remaining : Nat, lastUpdate : 0 .. now, depleted : BOOLEAN]
  BY <1>1, UpdateSettles DEF PeriodicUpdate
<1>3. /\ currentState' = currentState /\ lastUpdate' = lastUpdate /\ total' = total
      /\ nPending' = nPending /\ superseded' = superseded
      /\ now' = now /\ txCurrent' = txCurrent /\ used' = used /\ callbacks' = callbacks
  BY DEF PeriodicUpdate, modelVars
<1>4. ChargesMatchRadio'
  BY <1>3 DEF EnInv, ChargesMatchRadio, CurrentOf
<1>5. phy' \in States /\ crash' \in BOOLEAN /\ calls' \in Seq(Calls) /\ Shape'
  <2>1. CASE UNCHANGED <<phy, calls>> /\ crash' \in BOOLEAN
    BY <2>1, <1>1, <1>3 DEF Shape, AtRest, EnTypeOK
  <2>2. ASSUME NEW s \in {"SLEEP", "STANDBY"},
               phy' = s, calls' = Entered(calls, s), UNCHANGED crash
        PROVE  phy' \in States /\ crash' \in BOOLEAN /\ calls' \in Seq(Calls) /\ Shape'
    <3>1. s \in States /\ phy' \in States
      BY <2>2 DEF States
    <3>2. calls' = <<Frame(s, "charge")>>
      BY <3>1, <2>2, <1>1, PushedFrames DEF AtRest
    <3>3. Entering'
      BY <3>2, <2>2, <1>1, <1>3 DEF Entering, AtRest
    <3> QED BY <3>1, <3>2, <3>3, <2>2, <1>1, FramesAreCalls DEF Shape, EnTypeOK
  <2>3. \/ UNCHANGED <<phy, calls>> /\ (crash' = TRUE \/ UNCHANGED crash)
        \/ \E s \in {"SLEEP", "STANDBY"} :
             phy' = s /\ calls' = Entered(calls, s) /\ UNCHANGED crash
    BY DEF PeriodicUpdate, UpdateEnergySource
  <2> QED BY <2>1, <2>2, <2>3, <1>1 DEF EnTypeOK
<1>6. EnTypeOK'
  BY <1>1, <1>2, <1>3, <1>5 DEF EnTypeOK
<1> QED BY <1>4, <1>5, <1>6 DEF EnInv

(* The nested call takes over its state and marks the outer one, which     *)
(* takes the mark away.                                                    *)
LEMMA ReturnKeeps ==
  ASSUME EnInv, ChangeStateReturns
  PROVE  EnInv'
<1>1. EnTypeOK /\ phy \in States
  BY DEF EnInv, EnTypeOK
<1>2. /\ phy' = phy /\ now' = now /\ lastUpdate' = lastUpdate /\ total' = total
      /\ used' = used /\ txCurrent' = txCurrent /\ calls' = Rest
      /\ nPending' = nPending - 1 /\ (superseded' <=> nPending > 1)
  BY DEF ChangeStateReturns
<1>3. /\ calls' \in Seq(Calls) /\ Shape' /\ lastUpdate = now /\ nPending > 0
      /\ currentState' \in States
  <2>1. CASE Returning
    <3>1. PICK s \in States : /\ calls = <<Frame(s, "set")>>
                              /\ superseded => currentState = phy
                              /\ ~ superseded => s = phy
      BY <2>1 DEF Returning
    <3>2. Top = Frame(s, "set") /\ Rest = << >> /\ Top.state = s
      BY <3>1, OneFrame, FramesAreCalls
    <3>3. currentState' = phy
      BY <3>1, <3>2 DEF ChangeStateReturns, TakesOver
    <3>4. AtRest'
      BY <3>2, <3>3, <2>1, <1>2 DEF AtRest, Returning
    <3> QED BY <3>2, <3>3, <3>4, <2>1, <1>1, <1>2, EmptySeq DEF Shape, Returning
  <2>2. CASE Nested("set", 2)
    <3>1. PICK r \in States : calls = <<Frame(r, "set"), Frame(phy, "set")>>
      BY <2>2 DEF Nested
    <3>2. Top = Frame(phy, "set") /\ Rest = <<Frame(r, "set")>> /\ Top.state = phy
      BY <3>1, <1>1, TwoFrames, FramesAreCalls
    <3>3. currentState' = phy
      BY <3>2, <2>2 DEF ChangeStateReturns, TakesOver, Nested
    <3>4. Returning'
      BY <3>2, <3>3, <2>2, <1>2 DEF Returning, Nested
    <3> QED BY <3>2, <3>3, <3>4, <2>2, <1>1, <1>2, FramesAreCalls DEF Shape, Nested
  <2> QED BY <2>1, <2>2, WhichStep DEF EnInv, ChangeStateReturns
<1>4. EnTypeOK'
  BY <1>1, <1>2, <1>3 DEF EnTypeOK, ChangeStateReturns
<1>5. ChargesMatchRadio'
  <2>1. CurrentOf(currentState) \in Nat /\ CurrentOf(currentState)' \in Nat
    <3>1. CurrentOf(currentState) \in Nat
      BY <1>1, CurrentsAreNumbers DEF EnTypeOK
    <3>2. CurrentOf(currentState)' \in Nat
      BY <1>4, EnergyAssumption DEF EnergyAssumption, EnTypeOK, CurrentOf, States
    <3> QED BY <3>1, <3>2
  <2>2. now \in Nat /\ total \in Nat
    BY <1>1 DEF EnTypeOK
  <2>3. /\ (now - lastUpdate) * CurrentOf(currentState) = 0
        /\ (now' - lastUpdate') * CurrentOf(currentState)' = 0
    BY <2>1, <2>2, <1>2, <1>3
  <2> QED BY <2>2, <2>3, <1>2 DEF EnInv, ChargesMatchRadio
<1> QED BY <1>3, <1>4, <1>5 DEF EnInv

LEMMA HarvestKeeps ==
  ASSUME EnInv, NEW e \in Harvest, HarvestEnergy(e)
  PROVE  EnInv'
<1>1. EnTypeOK /\ AtRest /\ e \in Nat
  BY WhichStep, EnergyAssumption DEF EnInv, HarvestEnergy, EnergyAssumption
<1>2. source' \in [remaining : Nat, lastUpdate : 0 .. now, depleted : BOOLEAN]
  BY <1>1 DEF HarvestEnergy, EnTypeOK
<1>3. EnTypeOK'
  BY <1>1, <1>2 DEF EnTypeOK, HarvestEnergy, modelVars
<1>4. Shape'
  BY <1>1 DEF Shape, AtRest, HarvestEnergy, modelVars
<1>5. ChargesMatchRadio'
  BY DEF EnInv, ChargesMatchRadio, CurrentOf, HarvestEnergy, modelVars
<1> QED BY <1>3, <1>4, <1>5 DEF EnInv

LEMMA TickKeeps ==
  ASSUME EnInv, EnTick
  PROVE  EnInv'
<1>1. EnTypeOK /\ AtRest /\ ChargesMatchRadio
  BY WhichStep DEF EnInv, EnTick
<1>2. CurrentOf(currentState) \in Nat /\ CurrentOf(phy) = CurrentOf(currentState)
  BY <1>1, CurrentsAreNumbers DEF EnTypeOK, AtRest
<1>3. now' = now + 1 /\ used' = used + CurrentOf(currentState) /\ now' \in 0 .. MaxTime
  BY <1>1, <1>2, EnergyAssumption DEF EnTick, EnTypeOK, EnergyAssumption
<1>4. EnTypeOK'
  <2>1. lastUpdate' \in 0 .. now' /\ used' \in Nat
    BY <1>1, <1>2, <1>3 DEF EnTypeOK, EnTick, modelVars
  <2>2. source' \in [remaining : Nat, lastUpdate : 0 .. now', depleted : BOOLEAN]
    BY <1>1, <1>3 DEF EnTypeOK, EnTick
  <2> QED BY <1>1, <1>3, <2>1, <2>2 DEF EnTypeOK, EnTick, modelVars
<1>5. Shape'
  BY <1>1 DEF Shape, AtRest, EnTick, modelVars
<1>6. ChargesMatchRadio'
  <2>1. CurrentOf(currentState)' = CurrentOf(currentState)
    BY DEF CurrentOf, EnTick, modelVars
  <2>2. now \in Nat /\ lastUpdate \in Nat /\ total \in Nat /\ used \in Nat
    BY <1>1 DEF EnTypeOK
  <2>3. (now + 1 - lastUpdate) * CurrentOf(currentState)
          = (now - lastUpdate) * CurrentOf(currentState) + CurrentOf(currentState)
    BY <2>2, <1>2
  <2>4. lastUpdate' = lastUpdate /\ total' = total
    BY DEF EnTick, modelVars
  <2> QED BY <2>1, <2>2, <2>3, <2>4, <1>1, <1>2, <1>3 DEF ChargesMatchRadio
<1> QED BY <1>4, <1>5, <1>6 DEF EnInv

LEMMA EnergyInvariant == EnSpec => []EnInv
<1>1. EnInv /\ [EnNext]_enVars => EnInv'
  <2> SUFFICES ASSUME EnInv, [EnNext]_enVars PROVE EnInv'
    OBVIOUS
  <2>1. CASE UNCHANGED enVars
    BY <2>1 DEF EnInv, EnTypeOK, Shape, AtRest, Entering, Updating, Returning, Nested, Settled,
                ChargesMatchRadio, CurrentOf, enVars, modelVars
  <2>2. CASE EnNext
    BY <2>2, SwitchKeeps, SwitchToTxKeeps, ChargeKeeps, ChangeStateUpdatesKeeps,
       PeriodicUpdateKeeps, ReturnKeeps, HarvestKeeps, TickKeeps, Zenon DEF EnNext
  <2> QED BY <2>1, <2>2
<1> QED BY Initially, <1>1, PTL DEF EnSpec

(* The model of the radio's energy and the radio agree whenever no call is *)
(* in progress, although the callback of a source that runs empty enters   *)
(* ChangeState (lora-radio-energy-model.cc:251) before it has returned.    *)
THEOREM ModelFollowsRadio == EnSpec => []StateFollowsRadio
<1>1. EnInv => StateFollowsRadio
  BY WhichStep DEF EnInv, StateFollowsRadio, AtRest
<1> QED BY EnergyInvariant, <1>1, PTL

(* All the energy is charged, and at the current of the state in which the *)
(* radio used it: no interval is charged twice, or by the wrong state.     *)
THEOREM EnergyIsCharged == EnSpec => []ChargesMatchRadio
<1>1. EnInv => ChargesMatchRadio
  BY DEF EnInv
<1> QED BY EnergyInvariant, <1>1, PTL
===============================================================================
