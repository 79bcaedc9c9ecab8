---------------------------- MODULE Interference ----------------------------
(***************************************************************************)
(* The interference at one radio (LoraInterferenceHelper): the list of the *)
(* signals that impinge on it, its clean-up, and the verdict on a packet   *)
(* the radio has locked on.                                                *)
(*                                                                         *)
(* Every signal is added, whatever the radio does; the verdict is asked at *)
(* the end of a reception.  Powers are linear, and the isolation between   *)
(* two spreading factors is a ratio.                                       *)
(***************************************************************************)
EXTENDS Integers, FiniteSets, Functions

CONSTANTS
  NumPackets,    \* the signals are those of packets 1..NumPackets
  SFs,           \* spreading factors
  Frequencies,
  Powers,        \* received powers
  Durations,     \* on-air times
  Isolation,     \* Isolation[s][t]: ratio <<num, den>> s needs against t
  ListLimit,     \* size above which the list is cleaned: 100 in the code
  Threshold,     \* oldEventThreshold: two seconds in the code
  Horizon        \* bound of the time

ASSUME InterferenceAssumption ==
  /\ NumPackets \in Nat /\ ListLimit \in Nat /\ Threshold \in Nat /\ Horizon \in Nat
  /\ Powers \subseteq Nat \ {0} /\ Durations \subseteq Nat \ {0}
  /\ Isolation \in [SFs -> [SFs -> Nat \X Nat]]

VARIABLES
  now,           \* Simulator::Now ()
  events,        \* m_events
  receiving,     \* the events whose EndReceive is scheduled
  ever,          \* every event that was added, cleaned or not
  judged         \* the verdicts given: [event, destroyed]

ifVars == <<now, events, receiving, ever, judged>>

Signals == [pkt : 1 .. NumPackets, start : Nat, end : Nat, sf : SFs,
            power : Powers, freq : Frequencies]

IfInit ==
  /\ now = 0
  /\ events = {}
  /\ receiving = {}
  /\ ever = {}
  /\ judged = {}

-----------------------------------------------------------------------------
(* Mutant: a signal that lies within the other counts for all of it.       *)
OverlapToTheEnd(e, i) ==
  IF e.end <= i.start \/ i.end <= e.start THEN 0
  ELSE IF e.start < i.start
    THEN e.end - i.start
    ELSE IF e.end < i.end THEN e.end - e.start ELSE i.end - e.start

(* GetOverlapTime.                                                         *)
Overlap(e, i) ==
  IF e.end <= i.start \/ i.end <= e.start THEN 0
  ELSE IF e.start < i.start
    THEN IF i.end < e.end THEN i.end - i.start ELSE e.end - i.start
    ELSE IF e.end < i.end THEN e.end - e.start ELSE i.end - e.start

(* The signals of the set S that are on the channel of e, and so the       *)
(* energy of those of spreading factor s; one that does not overlap adds   *)
(* nothing.                                                                *)
Interferers(e, S) == {i \in S : i # e /\ i.freq = e.freq /\ Overlap(e, i) > 0}

Energy(e, S, s) ==
  SumFunction([i \in {j \in Interferers(e, S) : j.sf = s} |-> Overlap(e, i) * i.power])

(* IsDestroyedByInterference: some spreading factor is not isolated enough.*)
IsDestroyed(e, S) ==
  \E s \in SFs :
    LET ratio == Isolation[e.sf][s]
    IN  (e.end - e.start) * e.power * ratio[2] < ratio[1] * Energy(e, S, s)

(* Mutant: the age of a signal is counted from its start. *)
OldFromStart(e) == e.start + Threshold < now

IsOld(e) == e.end + Threshold < now

(* Add: an event for a new signal.  The list is cleaned when it is long.   *)
Added(e) ==
  LET list == events \cup {e}
  IN  IF Cardinality(list) > ListLimit THEN {i \in list : ~ IsOld(i)} ELSE list

(* A signal reaches the radio, which may lock on it.                       *)
SignalArrives(e) ==
  /\ \A i \in ever : i.pkt < e.pkt
  /\ events' = Added(e)
  /\ ever' = ever \cup {e}
  /\ receiving' \in {receiving, receiving \cup {e}}
  /\ UNCHANGED <<now, judged>>

(* EndReceive asks for the verdict.                                        *)
EndReceive(e) ==
  /\ e.end = now
  /\ receiving' = receiving \ {e}
  /\ judged' = judged \cup {[event |-> e, destroyed |-> IsDestroyed(e, events)]}
  /\ UNCHANGED <<now, events, ever>>

(* The radio transmits, which ends what it receives without a verdict.     *)
Interrupt ==
  /\ receiving # {}
  /\ receiving' = {}
  /\ UNCHANGED <<now, events, ever, judged>>

IfTick ==
  /\ now < Horizon
  /\ \A e \in receiving : now < e.end
  /\ now' = now + 1
  /\ UNCHANGED <<events, receiving, ever, judged>>

(* The constructor of Event.                                               *)
NewEvent(p, d, s, w, f) ==
  [pkt |-> p, start |-> now, end |-> now + d, sf |-> s, power |-> w, freq |-> f]

Arrival ==
  \E p \in 1 .. NumPackets, d \in Durations, s \in SFs, w \in Powers, f \in Frequencies :
    SignalArrives(NewEvent(p, d, s, w, f))

IfNext == Arrival \/ (\E e \in receiving : EndReceive(e)) \/ Interrupt \/ IfTick

IfSpec == IfInit /\ [][IfNext]_ifVars
-----------------------------------------------------------------------------
(* Types, and the times of the events: a signal starts in the past, what   *)
(* is received has not ended, and what was judged has.                     *)
IfTypeOK ==
  /\ now \in Nat
  /\ ever \subseteq Signals
  /\ events \subseteq ever
  /\ receiving \subseteq ever
  /\ judged \subseteq [event : ever, destroyed : BOOLEAN]
  /\ \A e \in ever : e.start <= now /\ e.start < e.end /\ e.end - e.start \in Durations
  /\ \A e \in receiving : now <= e.end
  /\ \A j \in judged : j.event.end <= now

(* A packet of up to two seconds.  Those of spreading factor 12 may be     *)
(* longer, and then outlast what they overlap with by the threshold.       *)
Short(e) == e.end - e.start <= Threshold

(* Among packets of any length the clean-up keeps every event, short or    *)
(* long, that overlaps with a short signal which is still on the air, and  *)
(* which may be asked about when it ends.                                  *)
NothingNeededIsCleaned ==
  \A e, i \in ever :
    Short(e) /\ now <= e.end /\ Overlap(e, i) > 0 => i \in events

(* What a verdict should be: that of all the signals there ever were, with *)
(* the overlap of two signals as the length of their intersection.         *)
Later(a, b)   == IF a > b THEN a ELSE b
Earlier(a, b) == IF a < b THEN a ELSE b
Intersection(e, i) == Later(0, Earlier(e.end, i.end) - Later(e.start, i.start))

TrueEnergy(e, s) ==
  SumFunction([i \in {j \in ever : /\ j # e /\ j.freq = e.freq /\ j.sf = s
                                   /\ Intersection(e, j) > 0}
                 |-> Intersection(e, i) * i.power])

TrulyDestroyed(e) ==
  \E s \in SFs :
    LET ratio == Isolation[e.sf][s]
    IN  (e.end - e.start) * e.power * ratio[2] < ratio[1] * TrueEnergy(e, s)

(* The helper keeps "a list of signals that are impinging on the antenna   *)
(* in order to compute which ones can be correctly received".  A packet it *)
(* destroys is destroyed by all the signals there were, those that were    *)
(* cleaned or came later included, and a short one it lets survive         *)
(* survives them.  A long one may survive where it should not: the         *)
(* clean-up errs on that side only.                                        *)
VerdictIsTrue ==
  \A j \in judged :
    /\ j.destroyed => TrulyDestroyed(j.event)
    /\ Short(j.event) /\ TrulyDestroyed(j.event) => j.destroyed
=============================================================================
