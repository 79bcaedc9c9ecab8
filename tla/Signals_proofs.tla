----------------------------- MODULE Signals_proofs -----------------------------
(***************************************************************************)
(* What the strength of signals decides, proved.  Interference: among      *)
(* packets of any length the clean-up of the list of signals never changes *)
(* the verdict on one that lasts no longer than its threshold, and only    *)
(* ever lets a longer one survive.  Adr: the requests computed from the    *)
(* SNRs mean something to the device and, with a cautious history, keep it *)
(* in reach.  First what both combine: extremes and sums.                  *)
(***************************************************************************)
EXTENDS Interference, Adr, FiniteSetTheorems, SequenceTheorems, WellFoundedInduction, TLAPS

-----------------------------------------------------------------------------
(* Extremes and sums of finite sets and functions of numbers.              *)
LEMMA SomeExtremes ==
  ASSUME NEW S, IsFiniteSet(S), S # {}, S \subseteq Int
  PROVE  (\E x \in S : \A y \in S : x >= y) /\ (\E x \in S : \A y \in S : x =< y)
<1> DEFINE HasBoth(T) == /\ \E x \in T : \A y \in T : x >= y
                         /\ \E x \in T : \A y \in T : x =< y
           D == {T \in SUBSET S : T # {} /\ ~ HasBoth(T)}
           R == StrictSubsetOrdering(S)
<1> SUFFICES ASSUME D # {} PROVE FALSE
  BY DEF D
<1>1. IsWellFoundedOn(R, SUBSET S) /\ D \subseteq SUBSET S
  BY FS_StrictSubsetOrderingWellFounded, FS_FiniteSubsetsOfFinite
<1> HIDE DEF R, D
<1>2. PICK T \in D : \A U \in D : ~ (<<U, T>> \in R)
  BY <1>1, WFMin
<1>3. T \in SUBSET S /\ T # {} /\ ~ HasBoth(T)
  BY <1>2 DEF D
<1>4. PICK x \in T : TRUE
  BY <1>3
<1>5. T \ {x} \notin D
  BY <1>2, <1>3, <1>4 DEF R, StrictSubsetOrdering
<1>6. T \ {x} = {} \/ HasBoth(T \ {x})
  BY <1>3, <1>5 DEF D
<1>7. \A y \in T : y \in Int
  BY <1>3
<1>8. CASE T \ {x} = {}
  <2>1. \A y \in T : y = x
    BY <1>8
  <2> QED BY <1>3, <1>4, <1>7, <2>1
<1>9. CASE HasBoth(T \ {x})
  <2>1. PICK a \in T \ {x} : \A y \in T \ {x} : a >= y
    BY <1>9
  <2>2. PICK b \in T \ {x} : \A y \in T \ {x} : b =< y
    BY <1>9
  <2>3. \E c \in T : \A y \in T : c >= y
    <3>1. CASE x >= a
      <4>1. \A y \in T : x >= y
        BY <1>4, <1>7, <2>1, <3>1
      <4> QED BY <1>4, <4>1
    <3>2. CASE a >= x
      <4>1. \A y \in T : a >= y
        BY <1>4, <1>7, <2>1, <3>2
      <4> QED BY <2>1, <4>1
    <3> QED BY <1>4, <1>7, <2>1, <3>1, <3>2
  <2>4. \E c \in T : \A y \in T : c =< y
    <3>1. CASE x =< b
      <4>1. \A y \in T : x =< y
        BY <1>4, <1>7, <2>2, <3>1
      <4> QED BY <1>4, <4>1
    <3>2. CASE b =< x
      <4>1. \A y \in T : b =< y
        BY <1>4, <1>7, <2>2, <3>2
      <4> QED BY <2>2, <4>1
    <3> QED BY <1>4, <1>7, <2>2, <3>1, <3>2
  <2> QED BY <1>3, <2>3, <2>4
<1> QED BY <1>6, <1>8, <1>9

LEMMA Extremes ==
  ASSUME NEW S, IsFiniteSet(S), S # {}, S \subseteq Int
  PROVE  /\ Max(S) \in S /\ \A y \in S : y =< Max(S)
         /\ Min(S) \in S /\ \A y \in S : Min(S) =< y
<1>1. Max(S) \in S /\ \A y \in S : Max(S) >= y
  BY SomeExtremes, Zenon DEF Max
<1>2. Min(S) \in S /\ \A y \in S : Min(S) =< y
  BY SomeExtremes, Zenon DEF Min
<1> QED BY <1>1, <1>2

(* The least of two numbers.                                               *)
LEMMA MinOfTwo ==
  ASSUME NEW a \in Int, NEW b \in Int
  PROVE  Min({a, b}) = IF a =< b THEN a ELSE b
<1>1. IsFiniteSet({a, b})
  <2>1. IsFiniteSet({a}) /\ IsFiniteSet({b})
    BY FS_Singleton
  <2>2. {a, b} = {a} \cup {b}
    OBVIOUS
  <2> QED BY <2>1, <2>2, FS_Union
<1>2. Min({a, b}) \in {a, b} /\ \A y \in {a, b} : Min({a, b}) =< y
  <2> DEFINE S == {a, b}
  <2>1. IsFiniteSet(S) /\ S # {} /\ S \subseteq Int
    BY <1>1
  <2> HIDE DEF S
  <2>2. Min(S) \in S /\ \A y \in S : Min(S) =< y
    BY <2>1, Extremes
  <2> QED BY <2>2 DEF S
<1> QED BY <1>2

(* What is combined lies in the range of the function.                     *)
LEMMA ExtremesOfRange ==
  ASSUME NEW S, IsFiniteSet(S), S # {}, NEW f \in [S -> Int]
  PROVE  /\ Max(Range(f)) \in Int /\ Min(Range(f)) \in Int
         /\ \E x \in S : Max(Range(f)) = f[x]
         /\ \A x \in S : f[x] =< Max(Range(f))
         /\ \A x \in S : Min(Range(f)) =< f[x]
<1>1. Range(f) # {} /\ Range(f) \subseteq Int
  BY DEF Range
<1>2. IsFiniteSet(Range(f))
  <2>1. f \in Surjection(S, Range(f))
    BY DEF Surjection, Range
  <2> QED BY <2>1, FS_Surjection
<1>3. /\ Max(Range(f)) \in Range(f) /\ \A y \in Range(f) : y =< Max(Range(f))
      /\ Min(Range(f)) \in Range(f) /\ \A y \in Range(f) : Min(Range(f)) =< y
  BY <1>1, <1>2, Extremes
<1> QED BY <1>1, <1>3 DEF Range

(* SumFunction is computed by a recursion over the subsets of the domain;  *)
(* whatever satisfies that recursion is the sum.                           *)
OneOf(s) == CHOOSE x \in s : TRUE

SumsUp(S, f, total) ==
  /\ total \in [SUBSET S -> Int]
  /\ total[{}] = 0
  /\ \A s \in SUBSET S : s # {} => total[s] = f[OneOf(s)] + total[s \ {OneOf(s)}]

LEMMA OneOfIsIn == \A s : s # {} => OneOf(s) \in s
  BY DEF OneOf

LEMMA SumSolves ==
  ASSUME NEW S, IsFiniteSet(S), NEW f \in [S -> Int], NEW total, SumsUp(S, f, total)
  PROVE  SumFunction(f) = total[S]
<1> DEFINE Step(g) == [s \in SUBSET S |->
                         IF s = {} THEN 0 ELSE f[OneOf(s)] + g[s \ {OneOf(s)}]]
           Sums(g) == g = Step(g)
           sum == CHOOSE g : Sums(g)
<1>1. SumFunction(f) = sum[S]
  BY DEF SumFunction, SumFunctionOnSet, FoldFunctionOnSet, MapThenFoldSet, OneOf
<1>2. /\ total = [s \in SUBSET S |-> total[s]] /\ total[{}] = 0
      /\ \A s \in SUBSET S : s # {} => total[s] = f[OneOf(s)] + total[s \ {OneOf(s)}]
  BY DEF SumsUp
<1>3. Sums(total)
  <2>1. \A s \in SUBSET S : total[s] = Step(total)[s]
    BY <1>2
  <2>2. Step(total) = [s \in SUBSET S |-> Step(total)[s]]
    OBVIOUS
  <2> HIDE DEF Step
  <2>3. total = Step(total)
    BY <1>2, <2>1, <2>2
  <2> QED BY <2>3
<1>4. Sums(sum)
  <2> HIDE DEF Sums
  <2> QED BY <1>3
<1> HIDE DEF sum
<1>5. /\ sum[{}] = 0
      /\ \A s \in SUBSET S : s # {} => sum[s] = f[OneOf(s)] + sum[s \ {OneOf(s)}]
  BY <1>4
<1> HIDE DEF Sums, Step
<1>6. \A s \in SUBSET S : sum[s] = total[s]
  <2> DEFINE D == {s \in SUBSET S : sum[s] # total[s]}
             R == StrictSubsetOrdering(S)
  <2> SUFFICES ASSUME D # {} PROVE FALSE
    BY DEF D
  <2>1. IsWellFoundedOn(R, SUBSET S) /\ D \subseteq SUBSET S
    BY FS_StrictSubsetOrderingWellFounded, FS_FiniteSubsetsOfFinite
  <2> HIDE DEF R, D
  <2>2. PICK s \in D : \A t \in D : ~ (<<t, s>> \in R)
    BY <2>1, WFMin
  <2>3. s \in SUBSET S /\ sum[s] # total[s]
    BY <2>2 DEF D
  <2>4. s # {} /\ OneOf(s) \in s
    BY <1>2, <1>5, <2>3, OneOfIsIn
  <2>5. sum[s \ {OneOf(s)}] = total[s \ {OneOf(s)}]
    <3>1. s \ {OneOf(s)} \in SUBSET S
      BY <2>3
    <3>2. <<s \ {OneOf(s)}, s>> \in R
      BY <2>3, <2>4, <3>1 DEF R, StrictSubsetOrdering
    <3>3. s \ {OneOf(s)} \notin D
      BY <2>2, <3>2
    <3> QED BY <3>1, <3>3 DEF D
  <2> QED BY <1>2, <1>5, <2>3, <2>4, <2>5
<1> QED BY <1>1, <1>6

(* A sum of natural numbers counts the units of its terms.                 *)
Units(n, s) == UNION {{x} \X (1 .. n[x]) : x \in s}

LEMMA UnitsAreFinite ==
  ASSUME NEW s, IsFiniteSet(s), NEW n, \A x \in s : n[x] \in Nat
  PROVE  IsFiniteSet(Units(n, s))
<1> DEFINE unit(x) == {x} \X (1 .. n[x])
           T == {unit(x) : x \in s}
           h == [x \in s |-> unit(x)]
<1>1. ASSUME NEW x \in s PROVE IsFiniteSet(unit(x))
  <2>1. IsFiniteSet({x}) /\ IsFiniteSet(1 .. n[x])
    <3>1. n[x] \in Nat /\ n[x] \in Int /\ 1 \in Int
      OBVIOUS
    <3> QED BY <3>1, FS_Singleton, FS_Interval
  <2> QED BY <2>1, FS_Product, Zenon
<1>2. h \in [s -> T] /\ \A t \in T : \E x \in s : h[x] = t
  <2> HIDE DEF unit
  <2> QED OBVIOUS
<1>3. \A t \in T : IsFiniteSet(t)
  <2> HIDE DEF unit
  <2> QED BY <1>1
<1>4. Units(n, s) = UNION T
  BY DEF Units
<1> HIDE DEF h, T
<1>5. h \in Surjection(s, T)
  BY <1>2 DEF Surjection
<1>6. IsFiniteSet(T)
  BY <1>5, FS_Surjection
<1> QED BY <1>3, <1>4, <1>6, FS_UNION

LEMMA OneTermMore ==
  ASSUME NEW s, IsFiniteSet(s), NEW n, \A x \in s : n[x] \in Nat, NEW x \in s
  PROVE  /\ Cardinality(Units(n, s)) = n[x] + Cardinality(Units(n, s \ {x}))
         /\ Cardinality(s) = 1 + Cardinality(s \ {x})
         /\ Cardinality(Units(n, s \ {x})) \in Nat /\ Cardinality(s \ {x}) \in Nat
<1> DEFINE r == s \ {x}
           unit == {x} \X (1 .. n[x])
<1>1. IsFiniteSet(r) /\ s = r \cup {x} /\ x \notin r
  BY FS_Subset
<1>2. IsFiniteSet(Units(n, r))
  BY <1>1, UnitsAreFinite
<1>3. IsFiniteSet(unit) /\ Cardinality(unit) = n[x]
  <2>1. IsFiniteSet({x}) /\ Cardinality({x}) = 1
    BY FS_Singleton
  <2>2. IsFiniteSet(1 .. n[x]) /\ Cardinality(1 .. n[x]) = n[x]
    BY FS_Interval
  <2>3. IsFiniteSet(unit) /\ Cardinality(unit) = Cardinality({x}) * Cardinality(1 .. n[x])
    BY <2>1, <2>2, FS_Product, Zenon
  <2> QED BY <2>1, <2>2, <2>3
<1>4. Units(n, s) = Units(n, r) \cup unit /\ Units(n, r) \cap unit = {}
  BY <1>1 DEF Units
<1> HIDE DEF unit, r
<1>5. Cardinality(Units(n, s)) = Cardinality(Units(n, r)) + Cardinality(unit)
  <2>1. Cardinality(Units(n, s)) = Cardinality(Units(n, r)) + Cardinality(unit)
                                     - Cardinality(Units(n, r) \cap unit)
    BY <1>2, <1>3, <1>4, FS_Union
  <2>2. Cardinality(Units(n, r) \cap unit) = 0
    BY <1>4, FS_EmptySet
  <2> QED BY <1>2, <1>3, <2>1, <2>2, FS_CardinalityType
<1>6. Cardinality(Units(n, r)) \in Nat /\ Cardinality(r) \in Nat
  BY <1>1, <1>2, FS_CardinalityType
<1>7. Cardinality(s) = 1 + Cardinality(r)
  BY <1>1, <1>6, FS_AddElement
<1> QED BY <1>3, <1>5, <1>6, <1>7 DEF r

LEMMA NoTerms == \A n : Cardinality(Units(n, {})) = 0
<1>1. \A n : Units(n, {}) = {}
  BY DEF Units
<1> QED BY <1>1, FS_EmptySet

LEMMA SumCounts ==
  ASSUME NEW S, IsFiniteSet(S), NEW n \in [S -> Nat]
  PROVE  SumFunction(n) = Cardinality(Units(n, S))
<1> DEFINE total == [s \in SUBSET S |-> Cardinality(Units(n, s))]
<1>1. ASSUME NEW s \in SUBSET S
      PROVE  IsFiniteSet(s) /\ Cardinality(Units(n, s)) \in Nat
  BY FS_Subset, UnitsAreFinite, FS_CardinalityType
<1>2. total \in [SUBSET S -> Int]
  BY <1>1
<1>3. total[{}] = 0
  BY NoTerms
<1>4. ASSUME NEW s \in SUBSET S, s # {}
      PROVE  total[s] = n[OneOf(s)] + total[s \ {OneOf(s)}]
  <2>1. OneOf(s) \in s
    BY <1>4, OneOfIsIn
  <2>2. Cardinality(Units(n, s)) = n[OneOf(s)] + Cardinality(Units(n, s \ {OneOf(s)}))
    BY <1>1, <2>1, OneTermMore
  <2> QED BY <2>2
<1>5. n \in [S -> Int]
  OBVIOUS
<1> HIDE DEF total
<1>6. SumsUp(S, n, total)
  BY <1>2, <1>3, <1>4 DEF SumsUp
<1>7. SumFunction(n) = total[S]
  BY <1>5, <1>6, SumSolves
<1> QED BY <1>7 DEF total

(* The sum over a part of the terms is not larger.                         *)
LEMMA SumOfPart ==
  ASSUME NEW S, IsFiniteSet(S), NEW n \in [S -> Nat], NEW T \in SUBSET S,
         NEW m \in [T -> Nat], \A x \in T : m[x] = n[x]
  PROVE  /\ SumFunction(m) \in Nat /\ SumFunction(n) \in Nat
         /\ SumFunction(m) =< SumFunction(n)
<1>1. IsFiniteSet(T) /\ IsFiniteSet(Units(n, S)) /\ IsFiniteSet(Units(m, T))
  BY FS_Subset, UnitsAreFinite
<1>2. Units(m, T) \subseteq Units(n, S)
  BY DEF Units
<1>3. Cardinality(Units(m, T)) =< Cardinality(Units(n, S))
  BY <1>1, <1>2, FS_Subset
<1>4. Cardinality(Units(m, T)) \in Nat /\ Cardinality(Units(n, S)) \in Nat
  BY <1>1, FS_CardinalityType
<1>5. SumFunction(m) = Cardinality(Units(m, T)) /\ SumFunction(n) = Cardinality(Units(n, S))
  BY <1>1, SumCounts
<1> QED BY <1>3, <1>4, <1>5

(* The sum of numbers up to m is m for each of them, less the units they   *)
(* lack.                                                                   *)
LEMMA SumBound ==
  ASSUME NEW S, IsFiniteSet(S), NEW f \in [S -> Int], NEW m \in Int,
         \A x \in S : f[x] =< m
  PROVE  SumFunction(f) \in Int /\ SumFunction(f) =< m * Cardinality(S)
<1> DEFINE lack == [x \in S |-> m - f[x]]
           total == [s \in SUBSET S |-> m * Cardinality(s) - Cardinality(Units(lack, s))]
<1>1. \A x \in S : lack[x] \in Nat /\ lack[x] = m - f[x] /\ f[x] \in Int
  OBVIOUS
<1> HIDE DEF lack
<1>2. ASSUME NEW s \in SUBSET S
      PROVE  /\ IsFiniteSet(s)
             /\ Cardinality(s) \in Nat /\ Cardinality(Units(lack, s)) \in Nat
             /\ total[s] \in Int /\ total[s] =< m * Cardinality(s)
  <2>1. IsFiniteSet(s)
    BY FS_Subset
  <2>2. IsFiniteSet(Units(lack, s))
    BY <1>1, <2>1, UnitsAreFinite
  <2>3. Cardinality(s) \in Nat /\ Cardinality(Units(lack, s)) \in Nat
    BY <2>1, <2>2, FS_CardinalityType
  <2>4. m * Cardinality(s) \in Int
    BY <2>3
  <2> QED BY <2>1, <2>3, <2>4
<1>3. total[{}] = 0
  <2>1. Cardinality({}) = 0 /\ Cardinality(Units(lack, {})) = 0
    BY NoTerms, FS_EmptySet
  <2> QED BY <2>1
<1>4. ASSUME NEW s \in SUBSET S, s # {}
      PROVE  total[s] = f[OneOf(s)] + total[s \ {OneOf(s)}]
  <2> DEFINE x == OneOf(s)
             r == s \ {x}
  <2>1. x \in s
    BY <1>4, OneOfIsIn
  <2> HIDE DEF x
  <2>2. r \in SUBSET S /\ x \in S
    BY <2>1
  <2>3. /\ Cardinality(Units(lack, s)) = lack[x] + Cardinality(Units(lack, r))
        /\ Cardinality(s) = 1 + Cardinality(r)
        /\ Cardinality(Units(lack, r)) \in Nat /\ Cardinality(r) \in Nat
    BY <1>1, <1>2, <2>1, OneTermMore
  <2>4. /\ total[s] = m * Cardinality(s) - Cardinality(Units(lack, s))
        /\ total[r] = m * Cardinality(r) - Cardinality(Units(lack, r))
    BY <2>2
  <2> HIDE DEF total, r
  <2>5. m * Cardinality(s) = m + m * Cardinality(r) /\ m * Cardinality(r) \in Int
    BY <2>3
  <2>6. total[s] = f[x] + total[r]
    BY <1>1, <2>2, <2>3, <2>4, <2>5
  <2> QED BY <2>6 DEF x, r
<1>5. total \in [SUBSET S -> Int]
  <2>1. total = [s \in SUBSET S |-> total[s]]
    OBVIOUS
  <2> HIDE DEF total
  <2> QED BY <1>2, <2>1
<1> HIDE DEF total
<1>6. SumsUp(S, f, total)
  BY <1>3, <1>4, <1>5 DEF SumsUp
<1>7. SumFunction(f) = total[S]
  BY <1>6, SumSolves
<1> QED BY <1>2, <1>7

-----------------------------------------------------------------------------
(* The interference.                                                       *)

(* GetOverlapTime is the length of the intersection of the two intervals.  *)
THEOREM OverlapIsIntersection ==
  ASSUME NEW e, NEW i,
         e.start \in Nat, e.end \in Nat, e.start < e.end,
         i.start \in Nat, i.end \in Nat, i.start < i.end
  PROVE  Overlap(e, i) = Intersection(e, i) /\ Overlap(e, i) \in Nat
  BY DEF Overlap, Intersection, Later, Earlier

(* A signal overlaps with itself, with what overlaps it, and with nothing  *)
(* that has ended or not begun.                                            *)
LEMMA OverlapFacts ==
  ASSUME NEW e, NEW i,
         e.start \in Nat, e.end \in Nat, e.start < e.end,
         i.start \in Nat, i.end \in Nat, i.start < i.end
  PROVE  /\ Overlap(e, e) > 0
         /\ Overlap(e, i) > 0 => e.start < i.end /\ i.start < e.end
  BY DEF Overlap

(* The types of the times of the signals.                                  *)
LEMMA SignalTimes ==
  ASSUME IfTypeOK, NEW e \in ever
  PROVE  /\ e.start \in Nat /\ e.end \in Nat
         /\ e.start < e.end /\ e.start <= now /\ e.end - e.start \in Durations
  BY DEF IfTypeOK, Signals

-----------------------------------------------------------------------------
(* What Add makes of the list: the new signal and those that are not old.  *)
LEMMA AddedFacts ==
  ASSUME NEW e, NEW i \in events \cup {e}
  PROVE  /\ Added(e) \subseteq events \cup {e}
         /\ ~ IsOld(i) => i \in Added(e)
  BY DEF Added

(* Every step keeps the types and the times.                               *)
LEMMA IfStepType == IfTypeOK /\ [IfNext]_ifVars => IfTypeOK'
  <1> SUFFICES ASSUME IfTypeOK, [IfNext]_ifVars PROVE IfTypeOK'
    OBVIOUS
  <1>1. CASE Arrival
    <2>1. PICK p \in 1 .. NumPackets, d \in Durations, s \in SFs, w \in Powers,
               f \in Frequencies : SignalArrives(NewEvent(p, d, s, w, f))
      BY <1>1 DEF Arrival
    <2> DEFINE e == NewEvent(p, d, s, w, f)
    <2>2. d \in Nat /\ d > 0 /\ now \in Nat
      BY InterferenceAssumption DEF IfTypeOK
    <2>3. /\ e \in Signals /\ e.start = now /\ e.end = now + d
      BY <2>2 DEF NewEvent, Signals
    <2>4. ever' = ever \cup {e} /\ now' = now /\ judged' = judged
      BY <2>1 DEF SignalArrives
    <2>5. events' \subseteq events \cup {e} /\ receiving' \subseteq receiving \cup {e}
      BY <2>1 DEF SignalArrives, Added
    <2> HIDE DEF e
    <2> QED BY <2>2, <2>3, <2>4, <2>5 DEF IfTypeOK
  <1>2. CASE \E e \in receiving : EndReceive(e)
    <2>1. PICK e \in receiving : EndReceive(e)
      BY <1>2
    <2>2. IsDestroyed(e, events) \in BOOLEAN
      BY DEF IsDestroyed
    <2> QED BY <2>1, <2>2 DEF EndReceive, IfTypeOK
  <1>3. CASE Interrupt
    BY <1>3 DEF Interrupt, IfTypeOK
  <1>4. CASE IfTick
    <2>1. \A e \in ever : e.start \in Nat /\ e.end \in Nat
      BY SignalTimes
    <2>2. \A j \in judged : j.event \in ever
      BY DEF IfTypeOK
    <2> QED BY <1>4, <2>1, <2>2 DEF IfTick, IfTypeOK
  <1>5. CASE UNCHANGED ifVars
    BY <1>5 DEF ifVars, IfTypeOK
  <1> QED BY <1>1, <1>2, <1>3, <1>4, <1>5 DEF IfNext

-----------------------------------------------------------------------------
(* What is missing from the list ended more than the threshold ago; hence  *)
(* before any short signal still on the air began.                         *)
MissingIsOld == \A i \in ever : i \in events \/ IsOld(i)

LEMMA KeepsNeeded ==
  ASSUME IfTypeOK, MissingIsOld
  PROVE  NothingNeededIsCleaned
  <1> SUFFICES ASSUME NEW e \in ever, NEW i \in ever,
                      Short(e), now <= e.end, Overlap(e, i) > 0
               PROVE  i \in events
    BY DEF NothingNeededIsCleaned
  <1>1. now \in Nat /\ Threshold \in Nat
    BY InterferenceAssumption DEF IfTypeOK
  <1>2. /\ e.start \in Nat /\ e.end \in Nat /\ e.start < e.end
        /\ i.start \in Nat /\ i.end \in Nat /\ i.start < i.end
    BY SignalTimes
  <1>3. e.start < i.end
    BY <1>2, OverlapFacts
  <1>4. ~ IsOld(i)
    BY <1>1, <1>2, <1>3 DEF IsOld, Short
  <1> QED BY <1>4 DEF MissingIsOld

(* Every step keeps the list complete up to what is old, and finite what   *)
(* was ever added to it.                                                   *)
LEMMA IfStepKeeps ==
  ASSUME IfTypeOK, MissingIsOld, IsFiniteSet(ever), [IfNext]_ifVars
  PROVE  MissingIsOld' /\ IsFiniteSet(ever')
  <1>1. ASSUME NEW e, SignalArrives(e)
        PROVE  MissingIsOld' /\ IsFiniteSet(ever')
    <2>1. ever' = ever \cup {e} /\ now' = now /\ events' = Added(e)
      BY <1>1 DEF SignalArrives
    <2>2. IsFiniteSet(ever')
      BY <2>1, FS_AddElement
    <2>3. ASSUME NEW i \in ever' PROVE i \in events' \/ IsOld(i)'
      <3>1. CASE i \in events \cup {e}
        BY <2>1, <3>1, AddedFacts DEF IsOld
      <3>2. CASE i \notin events \cup {e}
        BY <2>1, <3>2 DEF MissingIsOld, IsOld
      <3> QED BY <3>1, <3>2
    <2> QED BY <2>2, <2>3 DEF MissingIsOld
  <1>2. CASE IfTick
    <2>1. now \in Nat /\ now' = now + 1 /\ UNCHANGED <<events, ever>>
      BY <1>2 DEF IfTick, IfTypeOK
    <2>2. \A i \in ever : i.end \in Nat
      BY SignalTimes
    <2>3. \A i \in ever : IsOld(i) => IsOld(i)'
      BY <2>1, <2>2, InterferenceAssumption DEF IsOld
    <2> QED BY <2>1, <2>3 DEF MissingIsOld
  <1>3. CASE UNCHANGED <<now, events, ever>>
    BY <1>3 DEF MissingIsOld, IsOld
  <1> QED BY <1>1, <1>2, <1>3 DEF IfNext, Arrival, EndReceive, Interrupt, ifVars

-----------------------------------------------------------------------------
(* The energies that are summed for the verdict on e: those of the signals *)
(* of the list, and of all that ever were.  The first are among the others.*)
Heeded(e, s) == {j \in Interferers(e, events) : j.sf = s}
Relevant(e, s) == {j \in ever : /\ j # e /\ j.freq = e.freq /\ j.sf = s
                                /\ Intersection(e, j) > 0}

LEMMA EnergyTerms ==
  ASSUME IfTypeOK, NEW e \in ever, NEW s
  PROVE  /\ Energy(e, events, s)
              = SumFunction([i \in Heeded(e, s) |-> Intersection(e, i) * i.power])
         /\ TrueEnergy(e, s)
              = SumFunction([i \in Relevant(e, s) |-> Intersection(e, i) * i.power])
         /\ Heeded(e, s) \subseteq Relevant(e, s)
         /\ \A i \in ever : Intersection(e, i) * i.power \in Nat
  <1>1. \A j \in ever : Overlap(e, j) = Intersection(e, j) /\ Overlap(e, j) \in Nat
    BY SignalTimes, OverlapIsIntersection
  <1>2. events \subseteq ever
    BY DEF IfTypeOK
  <1>3. Heeded(e, s) \subseteq Relevant(e, s) /\ Heeded(e, s) \subseteq ever
    BY <1>1, <1>2 DEF Heeded, Relevant, Interferers
  <1>4. [i \in Heeded(e, s) |-> Overlap(e, i) * i.power]
          = [i \in Heeded(e, s) |-> Intersection(e, i) * i.power]
    BY <1>1, <1>3
  <1>5. ASSUME NEW i \in ever PROVE Intersection(e, i) * i.power \in Nat
    <2>1. i.power \in Nat
      BY InterferenceAssumption DEF IfTypeOK, Signals
    <2>2. Intersection(e, i) \in Nat
      BY <1>1
    <2> QED BY <2>1, <2>2
  <1>6. Energy(e, events, s)
          = SumFunction([i \in Heeded(e, s) |-> Intersection(e, i) * i.power])
    BY <1>4 DEF Energy, Heeded
  <1> QED BY <1>3, <1>5, <1>6 DEF TrueEnergy, Relevant

(* The energy that is summed is never more than there was.                 *)
LEMMA EnergyIsNoLess ==
  ASSUME IfTypeOK, IsFiniteSet(ever), NEW e \in ever, NEW s
  PROVE  /\ Energy(e, events, s) \in Nat /\ TrueEnergy(e, s) \in Nat
         /\ Energy(e, events, s) =< TrueEnergy(e, s)
  <1> DEFINE H == Heeded(e, s)
             T == Relevant(e, s)
             h == [i \in H |-> Intersection(e, i) * i.power]
             t == [i \in T |-> Intersection(e, i) * i.power]
  <1>1. T \subseteq ever /\ H \subseteq T /\ IsFiniteSet(T)
    <2>1. T \subseteq ever
      BY DEF Relevant
    <2> HIDE DEF T
    <2> QED BY <2>1, EnergyTerms, FS_Subset DEF T
  <1>2. h \in [H -> Nat] /\ t \in [T -> Nat] /\ \A i \in H : h[i] = t[i]
    BY <1>1, EnergyTerms
  <1>3. Energy(e, events, s) = SumFunction(h) /\ TrueEnergy(e, s) = SumFunction(t)
    BY EnergyTerms
  <1> HIDE DEF h, t, H, T
  <1> QED BY <1>1, <1>2, <1>3, SumOfPart

(* Nor, at the end of a short packet, is it less.                          *)
LEMMA EnergyIsTrue ==
  ASSUME IfTypeOK, NothingNeededIsCleaned, NEW e \in ever, Short(e), e.end = now, NEW s
  PROVE  Energy(e, events, s) = TrueEnergy(e, s)
  <1>1. \A j \in ever : Overlap(e, j) = Intersection(e, j)
    BY SignalTimes, OverlapIsIntersection
  <1>2. now <= e.end
    BY DEF IfTypeOK
  <1>3. \A j \in ever : Overlap(e, j) > 0 => j \in events
    BY <1>2 DEF NothingNeededIsCleaned
  <1>4. Heeded(e, s) = Relevant(e, s)
    BY <1>1, <1>3, EnergyTerms DEF Heeded, Relevant, Interferers
  <1> QED BY <1>4, EnergyTerms

(* A verdict of destruction is justified, and a short packet that survives *)
(* should.                                                                 *)
LEMMA DestroyedIsJustified ==
  ASSUME IfTypeOK, IsFiniteSet(ever), NEW e \in ever, IsDestroyed(e, events)
  PROVE  TrulyDestroyed(e)
  <1>1. PICK s \in SFs :
          (e.end - e.start) * e.power * Isolation[e.sf][s][2]
            < Isolation[e.sf][s][1] * Energy(e, events, s)
    BY DEF IsDestroyed
  <1>2. /\ e.sf \in SFs /\ e.power \in Nat /\ e.end \in Nat /\ e.start \in Nat
        /\ e.start < e.end
    BY SignalTimes, InterferenceAssumption DEF IfTypeOK, Signals
  <1>3. Isolation[e.sf][s] \in Nat \X Nat
    BY <1>2, InterferenceAssumption
  <1> DEFINE den == Isolation[e.sf][s][2]
             num == Isolation[e.sf][s][1]
             mine == (e.end - e.start) * e.power
             got == Energy(e, events, s)
             all == TrueEnergy(e, s)
  <1>4. den \in Nat /\ num \in Nat
    BY <1>3
  <1>5. mine \in Nat
    <2>1. e.end - e.start \in Nat
      BY <1>2
    <2> QED BY <1>2, <2>1
  <1>6. got \in Nat /\ all \in Nat /\ got =< all
    BY EnergyIsNoLess
  <1>7. mine * den < num * got
    BY <1>1
  <1> HIDE DEF den, num, mine, got, all
  <1>8. num * got =< num * all
    <2>1. all - got \in Nat
      BY <1>6
    <2>2. num * all = num * got + num * (all - got)
      BY <1>4, <1>6
    <2>3. num * (all - got) \in Nat /\ num * got \in Nat
      BY <1>4, <1>6, <2>1
    <2> QED BY <2>2, <2>3
  <1>9. mine * den < num * all
    <2>1. mine * den \in Nat /\ num * got \in Nat /\ num * all \in Nat
      BY <1>4, <1>5, <1>6
    <2> QED BY <1>7, <1>8, <2>1
  <1> QED BY <1>9 DEF TrulyDestroyed, den, num, mine, all

(* A signal that comes after a packet has ended does not change what the   *)
(* verdict on it should have been.                                         *)
LEMMA LaterSignalsDoNotMatter ==
  ASSUME IfTypeOK, IfTypeOK', NEW e \in ever, NEW x, ever' = ever \cup {x},
         e.end <= now, x.start = now
  PROVE  TrulyDestroyed(e)' = TrulyDestroyed(e)
  <1>1. e.end \in Nat /\ e.start \in Nat /\ now \in Nat /\ e.start <= now
    BY SignalTimes DEF IfTypeOK
  <1>2. x.end \in Nat
    BY DEF IfTypeOK, Signals
  <1>3. ~ (Intersection(e, x) > 0)
    BY <1>1, <1>2 DEF Intersection, Later, Earlier
  <1>4. ASSUME NEW s
        PROVE  TrueEnergy(e, s)' = TrueEnergy(e, s)
    <2> DEFINE B(S) == {j \in S : /\ j # e /\ j.freq = e.freq /\ j.sf = s
                                  /\ Intersection(e, j) > 0}
    <2>1. B(ever') = B(ever)
      BY <1>3
    <2>2. [i \in B(ever') |-> Intersection(e, i) * i.power]
            = [i \in B(ever) |-> Intersection(e, i) * i.power]
      BY <2>1
    <2> QED BY <2>2 DEF TrueEnergy, Intersection
  <1> QED BY <1>4 DEF TrulyDestroyed

(* Every step keeps the verdicts true.                                     *)
LEMMA IfStepJudges ==
  ASSUME IfTypeOK, IfTypeOK', NothingNeededIsCleaned, IsFiniteSet(ever), VerdictIsTrue,
         [IfNext]_ifVars
  PROVE  VerdictIsTrue'
  <1>1. ASSUME NEW p \in 1 .. NumPackets, NEW d \in Durations, NEW s \in SFs,
               NEW w \in Powers, NEW f \in Frequencies,
               SignalArrives(NewEvent(p, d, s, w, f))
        PROVE  VerdictIsTrue'
    <2>1. NewEvent(p, d, s, w, f).start = now
      BY DEF NewEvent
    <2>2. ever' = ever \cup {NewEvent(p, d, s, w, f)} /\ judged' = judged
      BY <1>1 DEF SignalArrives
    <2>3. \A j \in judged : j.event \in ever /\ j.event.end <= now
      BY DEF IfTypeOK
    <2>4. \A j \in judged : TrulyDestroyed(j.event)' = TrulyDestroyed(j.event)
      BY <2>1, <2>2, <2>3, LaterSignalsDoNotMatter
    <2> QED BY <2>2, <2>4 DEF VerdictIsTrue, Short
  <1>2. ASSUME NEW e \in receiving, EndReceive(e)
        PROVE  VerdictIsTrue'
    <2>1. e \in ever /\ e.end = now /\ ever' = ever
      BY <1>2 DEF EndReceive, IfTypeOK
    <2>2. IsDestroyed(e, events) => TrulyDestroyed(e)
      BY <2>1, DestroyedIsJustified
    <2>3. Short(e) /\ TrulyDestroyed(e) => IsDestroyed(e, events)
      BY <2>1, EnergyIsTrue DEF IsDestroyed, TrulyDestroyed
    <2>4. \A a : TrulyDestroyed(a)' = TrulyDestroyed(a)
      BY <2>1 DEF TrulyDestroyed, TrueEnergy
    <2>5. judged' = judged \cup {[event |-> e, destroyed |-> IsDestroyed(e, events)]}
      BY <1>2 DEF EndReceive
    <2> HIDE DEF VerdictIsTrue
    <2>6. ASSUME NEW j \in judged'
          PROVE  /\ j.destroyed => TrulyDestroyed(j.event)'
                 /\ Short(j.event) /\ TrulyDestroyed(j.event)' => j.destroyed
      <3>1. CASE j \in judged
        BY <2>4, <3>1 DEF VerdictIsTrue
      <3>2. CASE j \notin judged
        <4> DEFINE verdict == IsDestroyed(e, events)
        <4>1. j = [event |-> e, destroyed |-> verdict]
          BY <2>5, <3>2
        <4> HIDE DEF verdict
        <4>2. j.event = e /\ j.destroyed = verdict
          BY <4>1
        <4> QED BY <2>2, <2>3, <2>4, <4>2 DEF verdict
      <3> QED BY <3>1, <3>2
    <2> QED BY <2>6 DEF VerdictIsTrue, Short
  <1>3. CASE UNCHANGED <<ever, judged>>
    <2>1. \A a : TrulyDestroyed(a)' = TrulyDestroyed(a)
      BY <1>3 DEF TrulyDestroyed, TrueEnergy
    <2> QED BY <1>3, <2>1 DEF VerdictIsTrue, Short
  <1> QED BY <1>1, <1>2, <1>3 DEF IfNext, Arrival, Interrupt, IfTick, ifVars

(* The invariant, from which the two theorems follow.                      *)
IfInv == IfTypeOK /\ MissingIsOld /\ IsFiniteSet(ever) /\ VerdictIsTrue

LEMMA IfInductive == IfSpec => []IfInv
  <1>1. IfInit => IfInv
    BY FS_EmptySet DEF IfInit, IfInv, IfTypeOK, MissingIsOld, VerdictIsTrue
  <1>2. IfInv /\ [IfNext]_ifVars => IfInv'
    BY IfStepType, IfStepKeeps, KeepsNeeded, IfStepJudges DEF IfInv
  <1> QED BY <1>1, <1>2, PTL DEF IfSpec

(* Among packets of any length, CleanOldEvents removes no event that the   *)
(* pending reception of a packet of up to oldEventThreshold will be        *)
(* compared with, for any number of signals and any limit of the list.     *)
THEOREM CleaningIsSafe == IfSpec => []NothingNeededIsCleaned
  <1>1. IfInv => NothingNeededIsCleaned
    BY KeepsNeeded DEF IfInv
  <1> QED BY <1>1, IfInductive, PTL

(* What IsDestroyedByInterference destroys, all the signals that ever      *)
(* reached the radio destroy, whatever its length; and a packet of up to   *)
(* oldEventThreshold that it lets survive survives them.                   *)
THEOREM VerdictsAreTrue == IfSpec => []VerdictIsTrue
  <1>1. IfInv => VerdictIsTrue
    BY DEF IfInv
  <1> QED BY <1>1, IfInductive, PTL

-----------------------------------------------------------------------------
(* The ADR component.                                                      *)

(* The algorithm, for any history of measurements, each of which gives     *)
(* what the gateways that heard a packet made of it.                       *)
Measurements == UNION {[S -> Int] : S \in (SUBSET Gateways) \ {{}}}

(* Whatever combines the measurements of a packet, the result is not above *)
(* the best of them.                                                       *)
LEMMA PacketSnrBound ==
  ASSUME combining \in Combinings, NEW p \in Measurements, NEW m \in Int,
         \A g \in DOMAIN p : p[g] =< m
  PROVE  PacketSnr(p) \in Int /\ PacketSnr(p) =< Scale * m
<1> DEFINE S == DOMAIN p
           n == Cardinality(S)
<1>1. S \in SUBSET Gateways /\ S # {} /\ p \in [S -> Int]
  BY DEF Measurements
<1>2. combining.tp \in Methods
  BY AdrAssumption
<1>3. IsFiniteSet(S) /\ Scale \in Nat \ {0}
  BY <1>1, AdrAssumption, FS_Subset
<1>4. CASE combining.tp = "AVERAGE"
  <2>1. n \in 1 .. Cardinality(Gateways)
    <3>1. n \in Nat /\ n # 0 /\ Cardinality(Gateways) \in Nat
      BY <1>1, <1>3, AdrAssumption, FS_CardinalityType, FS_EmptySet
    <3>2. n =< Cardinality(Gateways)
      BY <1>1, AdrAssumption, FS_Subset
    <3> QED BY <3>1, <3>2
  <2> DEFINE q == Scale \div n
             sum == SumFunction(p)
  <2>2. q \in Nat /\ Scale = n * q
    <3>1. Scale = n * q
      BY <2>1, AdrAssumption
    <3>2. q \in Nat
      BY <1>3, <2>1
    <3> QED BY <3>1, <3>2
  <2>3. sum \in Int /\ sum =< m * n
    BY <1>1, <1>3, SumBound
  <2>4. PacketSnr(p) = sum * q
    BY <1>4 DEF PacketSnr
  <2>5. n \in Nat
    BY <2>1
  <2> HIDE DEF q, sum, n
  <2>6. sum * q \in Int /\ (m * n) * q \in Int /\ m * n \in Int
    BY <2>2, <2>3, <2>5
  <2>7. \A a, b \in Int, c \in Nat : a =< b => a * c =< b * c
    OBVIOUS
  <2>8. sum * q =< (m * n) * q
    BY <2>2, <2>3, <2>6, <2>7
  <2>9. (m * n) * q = Scale * m
    BY <2>2, <2>5
  <2> QED BY <2>4, <2>6, <2>8, <2>9
<1>5. /\ Max(Range(p)) \in Int /\ Min(Range(p)) \in Int
      /\ Max(Range(p)) =< m /\ Min(Range(p)) =< m
  <2>1. /\ Max(Range(p)) \in Int /\ Min(Range(p)) \in Int
        /\ \E x \in S : Max(Range(p)) = p[x]
        /\ \A x \in S : Min(Range(p)) =< p[x]
    BY <1>1, <1>3, ExtremesOfRange
  <2>2. PICK x \in S : Max(Range(p)) = p[x]
    BY <2>1
  <2> QED BY <1>1, <2>1, <2>2
<1>6. \A a, b \in Int, c \in Nat : a =< b => c * a \in Int /\ c * a =< c * b
  OBVIOUS
<1>7. CASE combining.tp = "MAXIMUM"
  <2>1. PacketSnr(p) = Scale * Max(Range(p))
    BY <1>7 DEF PacketSnr
  <2> QED BY <1>3, <1>5, <1>6, <2>1
<1>8. CASE combining.tp = "MINIMUM"
  <2>1. PacketSnr(p) = Scale * Min(Range(p))
    BY <1>8 DEF PacketSnr
  <2> QED BY <1>3, <1>5, <1>6, <2>1
<1> QED BY <1>2, <1>4, <1>7, <1>8 DEF Methods

(* A packet's SNR is an integer.                                           *)
LEMMA PacketSnrType ==
  ASSUME combining \in Combinings, NEW p \in Measurements
  PROVE  PacketSnr(p) \in Int
<1> DEFINE S == DOMAIN p
           m == Max(Range(p))
<1>1. S \in SUBSET Gateways /\ S # {} /\ p \in [S -> Int]
  BY DEF Measurements
<1>2. IsFiniteSet(S)
  BY <1>1, AdrAssumption, FS_Subset
<1>3. m \in Int /\ \A g \in S : p[g] =< m
  BY <1>1, <1>2, ExtremesOfRange
<1> HIDE DEF m
<1> QED BY <1>3, PacketSnrBound

(* A history that forgets a step at once, or keeps the worst packet.       *)
Cautious == HistoryRange = 1 \/ combining.history = "MINIMUM"

(* Its result is not above what the last packet allows.                    *)
LEMMA HistorySnrBound ==
  ASSUME combining \in Combinings, history \in Seq(Measurements),
         Len(history) = HistoryRange,
         NEW m \in Int, \A g \in DOMAIN history[Len(history)] : history[Len(history)][g] =< m
  PROVE  HistorySnr \in Int /\ (Cautious => HistorySnr =< Unit * m)
<1> DEFINE S == DOMAIN history
           last == history[HistoryRange]
           snrs == [i \in S |-> PacketSnr(history[i])]
<1>1. HistoryRange \in Nat \ {0} /\ Scale \in Nat \ {0} /\ combining.history \in Methods
  <2>1. combining.history \in Methods
    BY AdrAssumption
  <2>2. HistoryRange \in Nat \ {0}
    BY AdrAssumption
  <2> QED BY <2>1, <2>2, AdrAssumption
<1>2. S = 1 .. HistoryRange /\ HistoryRange \in S /\ \A i \in S : history[i] \in Measurements
  BY <1>1
<1>3. IsFiniteSet(S) /\ Cardinality(S) = HistoryRange
  BY <1>1, <1>2, FS_Interval
<1>4. snrs \in [S -> Int]
  BY <1>2, PacketSnrType
<1>5. snrs[HistoryRange] =< Scale * m
  <2>1. last \in Measurements /\ \A g \in DOMAIN last : last[g] =< m
    BY <1>2
  <2>2. PacketSnr(last) =< Scale * m
    BY <2>1, PacketSnrBound
  <2> QED BY <1>2, <2>2
<1> HIDE DEF snrs
<1>6. /\ Max(Range(snrs)) \in Int /\ Min(Range(snrs)) \in Int
      /\ \E i \in S : Max(Range(snrs)) = snrs[i]
      /\ \A i \in S : snrs[i] =< Max(Range(snrs))
      /\ \A i \in S : Min(Range(snrs)) =< snrs[i]
  <2>1. S # {}
    BY <1>2
  <2> QED BY <1>3, <1>4, <2>1, ExtremesOfRange
<1>7. Min(Range(snrs)) =< Scale * m /\ (HistoryRange = 1 => Max(Range(snrs)) =< Scale * m)
  <2>1. Min(Range(snrs)) =< snrs[HistoryRange] /\ snrs[HistoryRange] \in Int
    BY <1>2, <1>4, <1>6
  <2>2. Scale * m \in Int
    BY <1>1
  <2>3. Min(Range(snrs)) =< Scale * m
    BY <1>5, <1>6, <2>1, <2>2
  <2>4. ASSUME HistoryRange = 1
        PROVE  Max(Range(snrs)) = snrs[HistoryRange]
    BY <1>2, <1>6, <2>4
  <2> QED BY <1>5, <2>3, <2>4
<1>8. Unit * m = HistoryRange * (Scale * m) /\ Scale * m \in Int
  BY <1>1 DEF Unit
<1>9. \A a, b \in Int, c \in Nat : a =< b => c * a \in Int /\ c * a =< c * b
  OBVIOUS
<1>10. CASE combining.history = "AVERAGE"
  <2>1. HistorySnr = SumFunction(snrs)
    BY <1>10 DEF HistorySnr, snrs
  <2>2. SumFunction(snrs) \in Int
    <3> DEFINE b == Max(Range(snrs))
    <3>1. b \in Int /\ \A i \in S : snrs[i] =< b
      BY <1>6
    <3> HIDE DEF b
    <3> QED BY <1>3, <1>4, <3>1, SumBound
  <2>3. ASSUME HistoryRange = 1
        PROVE  SumFunction(snrs) =< Unit * m
    <3>1. \A i \in S : snrs[i] =< Scale * m
      BY <1>2, <1>5, <2>3
    <3> DEFINE b == Scale * m
    <3> HIDE DEF b
    <3>2. SumFunction(snrs) =< b * Cardinality(S)
      BY <1>3, <1>4, <1>8, <3>1, SumBound DEF b
    <3>3. b * Cardinality(S) = b /\ b = Unit * m
      BY <1>3, <1>8, <2>3 DEF b
    <3> QED BY <3>2, <3>3
  <2> QED BY <1>10, <2>1, <2>2, <2>3 DEF Cautious
<1>11. CASE combining.history = "MAXIMUM"
  <2>1. HistorySnr = HistoryRange * Max(Range(snrs))
    BY <1>11 DEF HistorySnr, snrs
  <2> DEFINE x == Max(Range(snrs))
  <2>2. x \in Int /\ (HistoryRange = 1 => x =< Scale * m)
    BY <1>6, <1>7
  <2> HIDE DEF x
  <2>3. HistorySnr = HistoryRange * x
    BY <2>1 DEF x
  <2> QED BY <1>1, <1>8, <1>9, <1>11, <2>2, <2>3 DEF Cautious
<1>12. CASE combining.history = "MINIMUM"
  <2>1. HistorySnr = HistoryRange * Min(Range(snrs))
    BY <1>12 DEF HistorySnr, snrs
  <2> DEFINE x == Min(Range(snrs))
  <2>2. x \in Int /\ x =< Scale * m
    BY <1>6, <1>7
  <2> HIDE DEF x
  <2>3. HistorySnr = HistoryRange * x
    BY <2>1 DEF x
  <2> QED BY <1>1, <1>8, <1>9, <2>2, <2>3
<1> QED BY <1>1, <1>10, <1>11, <1>12 DEF Methods

(* The steps are no more than that margin has, 3 dB each.                  *)
LEMMA QuotientBound ==
  ASSUME NEW a \in Int, NEW u \in Nat \ {0}, NEW d \in Int
  PROVE  a \div (30 * u) \in Int /\ (a =< u * d => 30 * (a \div (30 * u)) =< d)
<1> DEFINE v == 30 * u
           q == a \div v
<1>1. v \in Nat \ {0}
  OBVIOUS
<1> HIDE DEF v
<1>2. q \in Int /\ v * q =< a
  BY <1>1
<1> HIDE DEF q
<1>3. v * q = u * (30 * q)
  BY <1>2 DEF v
<1>4. ASSUME a =< u * d, 30 * q >= d + 1
      PROVE  FALSE
  <2> DEFINE e == 30 * q
  <2>1. e \in Int /\ e >= d + 1
    BY <1>2, <1>4
  <2> HIDE DEF e
  <2>2. u * e >= u * (d + 1)
    BY <2>1
  <2>3. u * (d + 1) = u * d + u /\ u * d \in Int /\ u * e \in Int
    BY <2>1
  <2>4. u * e =< a
    BY <1>2, <1>3 DEF e
  <2> QED BY <1>4, <2>2, <2>3, <2>4
<1>5. a =< u * d => 30 * q =< d
  BY <1>2, <1>4
<1>6. a \div (30 * u) = q
  BY DEF q, v
<1> QED BY <1>2, <1>5, <1>6

LEMMA StepsBound ==
  ASSUME combining \in Combinings, history \in Seq(Measurements),
         Len(history) = HistoryRange, known \in SpreadingFactors,
         NEW m \in Int, \A g \in DOMAIN history[Len(history)] : history[Len(history)][g] =< m
  PROVE  Steps \in Int /\ (Cautious => 30 * Steps =< m - Required(known))
<1> DEFINE h == HistorySnr
           r == Required(known)
<1>1. h \in Int /\ (Cautious => h =< Unit * m)
  BY HistorySnrBound
<1>2. Unit \in Nat \ {0}
  <2>1. HistoryRange \in Nat \ {0} /\ Scale \in Nat \ {0}
    BY AdrAssumption
  <2> QED BY <2>1 DEF Unit
<1>3. r \in Int
  BY DEF Required, SpreadingFactors
<1> HIDE DEF h, r
<1>4. Unit * m \in Int /\ Unit * r \in Int /\ Unit * (m - r) = Unit * m - Unit * r
  BY <1>2, <1>3
<1> DEFINE a == h - Unit * r
<1>5. a \in Int /\ (Cautious => a =< Unit * (m - r)) /\ m - r \in Int
  BY <1>1, <1>3, <1>4
<1>6. Steps = a \div (30 * Unit)
  BY DEF Steps, h, r
<1> HIDE DEF a
<1>7. /\ a \div (30 * Unit) \in Int
      /\ a =< Unit * (m - r) => 30 * (a \div (30 * Unit)) =< m - r
  BY <1>2, <1>5, QuotientBound
<1> QED BY <1>5, <1>6, <1>7 DEF r

(* No more is taken from spreading factor and power than there are steps,  *)
(* and neither leaves its range.                                           *)
LEMMA StepsAreSpent ==
  ASSUME Steps \in Int, known \in SpreadingFactors, power \in {2 * i : i \in 1 .. 7}
  PROVE  \E a \in 0 .. 5, b \in -6 .. 6 :
           /\ NewSF = known - a /\ NewSF \in SpreadingFactors
           /\ NewPower = power - 2 * b /\ NewPower \in {2 * i : i \in 1 .. 7}
           /\ (Steps > 0 => b >= 0 /\ a + b =< Steps)
           /\ (Steps =< 0 => a = 0 /\ b =< 0)
<1> DEFINE n == Steps
<1>1. PICK i \in 1 .. 7 : power = 2 * i
  OBVIOUS
<1>2. CASE n > 0
  <2> DEFINE a == IF n =< known - 7 THEN n ELSE known - 7
             b == IF n - a =< i - 1 THEN n - a ELSE i - 1
  <2>1. Min({n, known - 7}) = a
    BY <1>2, MinOfTwo DEF SpreadingFactors
  <2>2. NewSF = known - a
    BY <1>2, <2>1 DEF NewSF
  <2>3. a \in 0 .. 5 /\ a =< n /\ known - a \in 7 .. 12
    BY <1>2 DEF SpreadingFactors
  <2>4. HalfUp(power - 2) = i - 1
    BY <1>1 DEF HalfUp
  <2>5. Steps - (known - NewSF) = n - a /\ n - a \in Int
    BY <2>2, <2>3 DEF SpreadingFactors
  <2>6. Min({n - a, i - 1}) = b
    BY <2>5, MinOfTwo
  <2>7. NewPower = power - 2 * b
    BY <1>2, <2>4, <2>5, <2>6 DEF NewPower
  <2>8. b \in 0 .. 6 /\ a + b =< n /\ i - b \in 1 .. 7 /\ power - 2 * b = 2 * (i - b)
    BY <1>1, <1>2, <2>3
  <2> HIDE DEF a, b
  <2>9. NewSF \in SpreadingFactors /\ NewPower \in {2 * k : k \in 1 .. 7}
    BY <2>2, <2>3, <2>7, <2>8 DEF SpreadingFactors
  <2>10. b \in -6 .. 6 /\ b >= 0
    BY <2>8
  <2> QED BY <1>2, <2>2, <2>3, <2>7, <2>8, <2>9, <2>10
<1>3. CASE n =< 0
  <2> DEFINE b == IF - n =< 7 - i THEN n ELSE i - 7
  <2>1. NewSF = known
    BY <1>3 DEF NewSF
  <2>2. HalfUp(14 - power) = 7 - i
    BY <1>1 DEF HalfUp
  <2>3. Min({- n, 7 - i}) = - b
    BY <1>3, MinOfTwo
  <2>4. NewPower = power + 2 * (- b)
    BY <1>3, <2>2, <2>3 DEF NewPower
  <2>5. b \in -6 .. 0 /\ i - b \in 1 .. 7 /\ power + 2 * (- b) = 2 * (i - b)
    BY <1>1, <1>3
  <2>6. power + 2 * (- b) = power - 2 * b
    BY <1>1, <2>5
  <2> HIDE DEF b
  <2>7. NewPower \in {2 * k : k \in 1 .. 7}
    BY <2>4, <2>5
  <2>8. 0 \in 0 .. 5 /\ b \in -6 .. 6 /\ b =< 0 /\ NewSF = known - 0
    BY <2>1, <2>5 DEF SpreadingFactors
  <2>9. ~ (n > 0)
    BY <1>3
  <2> QED BY <1>3, <2>1, <2>4, <2>6, <2>7, <2>8, <2>9
<1> QED BY <1>2, <1>3

(* The device finds in its tables what the component meant.                *)
LEMMA IndexOfPower ==
  ASSUME NEW p \in {2 * i : i \in 1 .. 7}
  PROVE  GetTxPowerIndex(p) \in 1 .. 7 /\ 16 - 2 * GetTxPowerIndex(p) = p
<1>1. PICK i \in 1 .. 7 : p = 2 * i
  OBVIOUS
<1> DEFINE S == {k \in 0 .. 7 : p >= 16 - 2 * k \/ k = 7}
<1>2. IsFiniteSet(S) /\ S \subseteq Int
  <2>1. IsFiniteSet(0 .. 7)
    <3>1. 0 \in Int /\ 7 \in Int
      OBVIOUS
    <3> QED BY <3>1, FS_Interval, Zenon
  <2> QED BY <2>1, FS_Subset
<1>3. 8 - i \in S
  BY <1>1
<1>4. GetTxPowerIndex(p) = Min(S)
  BY DEF GetTxPowerIndex
<1>5. Min(S) \in S /\ Min(S) =< 8 - i
  <2> HIDE DEF S
  <2> QED BY <1>2, <1>3, Extremes
<1>6. Min(S) = 8 - i
  BY <1>1, <1>5
<1> QED BY <1>1, <1>4, <1>6

-----------------------------------------------------------------------------
(* A window opens for the packet just heard: what the component knows of   *)
(* the device is true.                                                     *)
Current ==
  window => /\ request = NoRequest /\ known = sf /\ history # <<>>
            /\ history[Len(history)] = [g \in Heard |-> Snr(g)]

AskedSF    == 12 - request.dr
AskedPower == 16 - 2 * request.txPower

(* A request asks for something else, and within reach.                    *)
AsksForChange == request # NoRequest => ~ window /\ <<AskedSF, AskedPower>> # <<sf, power>>
AsksInReach ==
  Cautious =>
    /\ Heard # {}
    /\ request # NoRequest =>
         \E g \in Gateways : gain[g] + 10 * AskedPower >= Sensitive(AskedSF)

AdrInv == AdrTypeOK /\ history \in Seq(Measurements) /\ Current /\ AsksForChange
-----------------------------------------------------------------------------
LEMMA SnrType ==
  ASSUME AdrTypeOK, NEW g \in Gateways
  PROVE  gain[g] \in Int /\ power \in Int /\ Snr(g) \in Int
<1>1. gain[g] \in Int
  BY AdrAssumption DEF AdrTypeOK
<1>2. power \in Int
  BY DEF AdrTypeOK
<1> QED BY <1>1, <1>2 DEF Snr

LEMMA AdrInitially == AdrInit => AdrInv /\ AsksInReach
<1> SUFFICES ASSUME AdrInit PROVE AdrInv /\ AsksInReach
  OBVIOUS
<1>1. power \in {2 * i : i \in 1 .. 7}
  <2>1. 7 \in 1 .. 7 /\ power = 2 * 7
    BY DEF AdrInit
  <2> QED BY <2>1
<1>2. history \in Seq(Measurements) /\ Len(history) = 0 /\ DOMAIN history = {}
  BY DEF AdrInit
<1>3. request = NoRequest /\ ~ window /\ Heard # {}
  BY DEF AdrInit
<1>4. HistoryRange \in Nat
  BY AdrAssumption
<1>5. AdrTypeOK
  <2>1. /\ sf \in SpreadingFactors /\ gain \in [Gateways -> Gains] /\ combining \in Combinings
        /\ known \in SpreadingFactors \cup {0} /\ window \in BOOLEAN
    BY DEF AdrInit
  <2>2. /\ \A i \in DOMAIN history : DOMAIN history[i] \in (SUBSET Gateways) \ {{}}
        /\ Len(history) <= HistoryRange
    BY <1>2, <1>4
  <2>3. request \in [dr : 0 .. 5, txPower : 1 .. 7] \cup {NoRequest}
    BY <1>3
  <2> QED BY <1>1, <2>1, <2>2, <2>3, Zenon DEF AdrTypeOK
<1> QED BY <1>2, <1>3, <1>5 DEF AdrInv, Current, AsksForChange, AsksInReach

(* The packet heard last ends the history, however the list is cut.        *)
LEMMA UplinkStep == AdrInv /\ Uplink => AdrInv'
<1> SUFFICES ASSUME AdrInv, Uplink PROVE AdrInv'
  OBVIOUS
<1> USE DEF AdrInv
<1> DEFINE m == [g \in Heard |-> Snr(g)]
           longer == Append(history, m)
           n == Len(longer)
<1>1. Heard # {} /\ Heard \subseteq Gateways
  BY DEF Uplink, Heard
<1>2. m \in Measurements
  <2>1. \A g \in Heard : Snr(g) \in Int
    BY <1>1, SnrType
  <2>2. m \in [Heard -> Int]
    BY <2>1
  <2> QED BY <1>1, <2>2 DEF Measurements
<1>3. HistoryRange \in 1 .. 100
  BY AdrAssumption
<1>4. history' = IF n > HistoryRange THEN LastOnes(longer) ELSE longer
  BY DEF Uplink
<1>5. longer \in Seq(Measurements) /\ longer[n] = m /\ n \in Nat \ {0}
  <2> HIDE DEF m
  <2>1. history \in Seq(Measurements)
    OBVIOUS
  <2> QED BY <1>2, <2>1
<1> HIDE DEF m, longer, n
<1>6. history' \in Seq(Measurements) /\ history' # <<>> /\ history'[Len(history')] = m
      /\ Len(history') =< HistoryRange
  <2>1. CASE n > HistoryRange
    <3> DEFINE k == n - HistoryRange + 1
               last == SubSeq(longer, k, n)
    <3>1. history' = last
      BY <1>4, <2>1 DEF LastOnes, n
    <3>2. k \in Int /\ n \in Int /\ k =< n /\ k >= 1 /\ n - k + 1 = HistoryRange
      BY <1>3, <1>5, <2>1
    <3>3. \A i \in k .. n : longer[i] \in Measurements
      BY <1>5, <3>2 DEF n
    <3> HIDE DEF k
    <3>4. /\ last \in Seq(Measurements)
          /\ Len(last) = IF k =< n THEN n - k + 1 ELSE 0
          /\ \A i \in 1 .. n - k + 1 : last[i] = longer[k + i - 1]
      BY <3>2, <3>3, SubSeqProperties
    <3> HIDE DEF last
    <3>5. Len(last) = HistoryRange
      BY <3>2, <3>4
    <3>6. k + HistoryRange - 1 = n /\ HistoryRange \in 1 .. n - k + 1
      BY <1>3, <3>2
    <3>7. last[HistoryRange] = m
      BY <1>5, <3>4, <3>6
    <3>8. last # <<>>
      BY <1>3, <3>5
    <3> QED BY <1>3, <3>1, <3>4, <3>5, <3>7, <3>8
  <2>2. CASE ~ (n > HistoryRange)
    <3>1. history' = longer /\ n =< HistoryRange
      BY <1>3, <1>4, <1>5, <2>2
    <3> QED BY <1>5, <3>1 DEF n
  <2> QED BY <2>1, <2>2
<1>7. \A i \in DOMAIN history' : DOMAIN history'[i] \in (SUBSET Gateways) \ {{}}
  BY <1>6 DEF Measurements
<1>8. AdrTypeOK'
  BY <1>6, <1>7 DEF AdrTypeOK, Uplink
<1>9. m = [g \in Heard' |-> Snr(g)']
  BY DEF Uplink, m, Heard, Snr
<1>10. Current'
  BY <1>6, <1>9 DEF Current, Uplink
<1>11. AsksForChange'
  BY DEF AsksForChange, Uplink
<1> QED BY <1>6, <1>8, <1>10, <1>11

(* What a request asks for, if there is one.                               *)
LEMMA Asked ==
  ASSUME AdrInv, BeforeSendingReply, request' # NoRequest
  PROVE  /\ Len(history) = HistoryRange
         /\ \E p \in {2 * i : i \in 1 .. 7} :
              /\ p = (IF ToggleTxPower THEN NewPower ELSE power)
              /\ NewSF # known \/ p # power
              /\ NewSF \in SpreadingFactors /\ NewSF \in Int
              /\ request' = [dr |-> 12 - NewSF, txPower |-> GetTxPowerIndex(p)]
              /\ AskedSF' = NewSF /\ AskedPower' = p
         /\ known = sf /\ known \in SpreadingFactors /\ window
         /\ history[Len(history)] = [g \in Heard |-> Snr(g)]
         /\ Heard # {}
<1> USE DEF AdrInv
<1> DEFINE p == IF ToggleTxPower THEN NewPower ELSE power
<1>1. Len(history) = HistoryRange /\ Differs(p)
      /\ request' = [dr |-> SfToDr(NewSF), txPower |-> GetTxPowerIndex(p)]
  BY DEF BeforeSendingReply
<1>2. /\ window /\ request = NoRequest /\ known = sf /\ history # <<>>
      /\ history[Len(history)] = [g \in Heard |-> Snr(g)]
  BY DEF BeforeSendingReply, Current
<1>3. known \in SpreadingFactors /\ combining \in Combinings
      /\ power \in {2 * i : i \in 1 .. 7}
  BY <1>2 DEF AdrTypeOK
<1>4. history[Len(history)] \in Measurements
  BY <1>2
<1>5. Heard # {} /\ Heard \subseteq Gateways
  BY <1>2, <1>4 DEF Measurements, Heard
<1>6. Steps \in Int
  <2> DEFINE last == history[Len(history)]
             m == Max(Range(last))
  <2>1. IsFiniteSet(Heard)
    BY <1>5, AdrAssumption, FS_Subset
  <2>2. last \in [Heard -> Int]
    BY <1>2, <1>5, SnrType
  <2> HIDE DEF last
  <2>3. m \in Int /\ \A g \in Heard : last[g] =< m
    BY <1>5, <2>1, <2>2, ExtremesOfRange
  <2> HIDE DEF m
  <2>4. \A g \in DOMAIN history[Len(history)] : history[Len(history)][g] =< m
    BY <2>2, <2>3 DEF last
  <2> QED BY <1>1, <1>3, <2>3, <2>4, StepsBound
<1>7. NewSF \in SpreadingFactors /\ NewPower \in {2 * i : i \in 1 .. 7}
  BY <1>3, <1>6, StepsAreSpent
<1>8. p \in {2 * i : i \in 1 .. 7}
  BY <1>3, <1>7
<1> HIDE DEF p
<1>9. GetTxPowerIndex(p) \in 1 .. 7 /\ 16 - 2 * GetTxPowerIndex(p) = p
  BY <1>8, IndexOfPower
<1>10. NewSF \in Int /\ SfToDr(NewSF) = 12 - NewSF /\ 12 - (12 - NewSF) = NewSF
  BY <1>7 DEF SpreadingFactors, SfToDr
<1>11. AskedSF' = NewSF /\ AskedPower' = p
  BY <1>1, <1>9, <1>10 DEF AskedSF, AskedPower
<1>12. NewSF # known \/ p # power
  BY <1>1 DEF Differs
<1> QED BY <1>1, <1>2, <1>3, <1>5, <1>7, <1>8, <1>10, <1>11, <1>12 DEF p

LEMMA ReplyStep == AdrInv /\ BeforeSendingReply => AdrInv'
<1> SUFFICES ASSUME AdrInv, BeforeSendingReply PROVE AdrInv'
  OBVIOUS
<1> USE DEF AdrInv
<1>1. /\ window' = FALSE /\ sf' = sf /\ power' = power /\ gain' = gain
      /\ combining' = combining /\ known' = known /\ history' = history
  BY DEF BeforeSendingReply
<1>2. CASE request' = NoRequest
  <2>1. request' \in [dr : 0 .. 5, txPower : 1 .. 7] \cup {NoRequest}
    BY <1>2
  <2>2. AdrTypeOK'
    BY <1>1, <2>1, Zenon DEF AdrTypeOK
  <2> QED BY <1>1, <1>2, <2>2 DEF Current, AsksForChange
<1>3. CASE request' # NoRequest
  <2>1. PICK p \in {2 * i : i \in 1 .. 7} :
              /\ NewSF # known \/ p # power
              /\ NewSF \in SpreadingFactors /\ NewSF \in Int
              /\ request' = [dr |-> 12 - NewSF, txPower |-> GetTxPowerIndex(p)]
              /\ AskedSF' = NewSF /\ AskedPower' = p
    BY <1>3, Asked
  <2>2. known = sf
    BY <1>3, Asked
  <2>3. 12 - NewSF \in 0 .. 5 /\ GetTxPowerIndex(p) \in 1 .. 7
    BY <2>1, IndexOfPower DEF SpreadingFactors
  <2>4. request' \in [dr : 0 .. 5, txPower : 1 .. 7] \cup {NoRequest}
    BY <2>1, <2>3
  <2>5. AdrTypeOK'
    BY <1>1, <2>4, Zenon DEF AdrTypeOK
  <2>6. AsksForChange'
    BY <1>1, <2>1, <2>2 DEF AsksForChange
  <2> QED BY <1>1, <2>5, <2>6 DEF Current
<1> QED BY <1>2, <1>3

(* A request is accepted, and gives the device what it asks for.           *)
LEMMA RequestExecuted ==
  ASSUME AdrInv, OnLinkAdrReq
  PROVE  /\ sf' = AskedSF /\ power' = AskedPower
         /\ sf' \in SpreadingFactors /\ power' \in {2 * i : i \in 1 .. 7}
         /\ <<sf, power>>' # <<sf, power>>
<1> USE DEF AdrInv
<1>1. request # NoRequest /\ request \in [dr : 0 .. 5, txPower : 1 .. 7]
  BY DEF OnLinkAdrReq, AdrTypeOK
<1>2. request.dr \in 0 .. 5 /\ request.txPower \in 1 .. 7
  BY <1>1
<1>3. /\ GetSfFromDataRate(request.dr) = AskedSF
      /\ GetDbmForTxPower(request.txPower) = AskedPower /\ AskedPower # 0
  BY <1>2 DEF GetSfFromDataRate, GetDbmForTxPower, AskedSF, AskedPower
<1>4. Accepts(request)
  BY <1>2, <1>3 DEF Accepts
<1>5. sf' = AskedSF /\ power' = AskedPower
  BY <1>3, <1>4 DEF OnLinkAdrReq
<1>6. AskedSF \in 7 .. 12
  BY <1>2 DEF AskedSF
<1>7. 8 - request.txPower \in 1 .. 7 /\ AskedPower = 2 * (8 - request.txPower)
  BY <1>2 DEF AskedPower
<1>8. power' \in {2 * i : i \in 1 .. 7}
  BY <1>5, <1>7
<1>9. <<AskedSF, AskedPower>> # <<sf, power>>
  BY <1>1 DEF AsksForChange
<1> QED BY <1>5, <1>6, <1>8, <1>9 DEF SpreadingFactors

LEMMA ExecuteStep == AdrInv /\ OnLinkAdrReq => AdrInv'
<1> SUFFICES ASSUME AdrInv, OnLinkAdrReq PROVE AdrInv'
  OBVIOUS
<1>1. sf' \in SpreadingFactors /\ power' \in {2 * i : i \in 1 .. 7}
  BY RequestExecuted
<1>2. ~ window /\ request' = NoRequest /\ UNCHANGED <<gain, combining, known, history, window>>
  BY DEF OnLinkAdrReq, AdrInv, AsksForChange
<1> QED BY <1>1, <1>2 DEF AdrInv, AdrTypeOK, Current, AsksForChange

LEMMA AdrInvStep == AdrInv /\ [AdrNext]_adrVars => AdrInv'
<1>1. ASSUME AdrInv, NoGateway PROVE AdrInv'
  BY <1>1 DEF NoGateway, AdrInv, AdrTypeOK, Current, AsksForChange
<1>2. ASSUME AdrInv, RequestLost PROVE AdrInv'
  BY <1>2 DEF RequestLost, AdrInv, AdrTypeOK, Current, AsksForChange
<1>3. ASSUME AdrInv, UNCHANGED adrVars PROVE AdrInv'
  BY <1>3 DEF adrVars, AdrInv, AdrTypeOK, Current, AsksForChange, Heard, Snr, AskedSF, AskedPower
<1> QED BY <1>1, <1>2, <1>3, UplinkStep, ReplyStep, ExecuteStep DEF AdrNext

LEMMA AdrInvariance == AdrSpec => []AdrInv
BY AdrInitially, AdrInvStep, PTL DEF AdrSpec

-----------------------------------------------------------------------------
(* The gateway that heard the last packet best hears the device with what  *)
(* a request asks for: a step is 30 tenths of dB of margin, and takes at   *)
(* most 25 of sensitivity or 20 of power.                                  *)
LEMMA RequestInReach ==
  ASSUME AdrInv, Cautious, BeforeSendingReply, request' # NoRequest
  PROVE  \E g \in Gateways : gain[g] + 10 * AskedPower' >= Sensitive(AskedSF')
<1> USE DEF AdrInv
<1>1. PICK p \in {2 * i : i \in 1 .. 7} :
              /\ p = (IF ToggleTxPower THEN NewPower ELSE power)
              /\ AskedSF' = NewSF /\ AskedPower' = p
  BY Asked
<1>2. /\ Len(history) = HistoryRange /\ known = sf /\ known \in SpreadingFactors
      /\ history[Len(history)] = [g \in Heard |-> Snr(g)] /\ Heard # {}
  BY Asked
<1>3. combining \in Combinings /\ power \in {2 * i : i \in 1 .. 7} /\ Heard \subseteq Gateways
  BY DEF AdrTypeOK, Heard
<1> DEFINE last == [g \in Heard |-> Snr(g)]
           m == Max(Range(last))
<1>4. m \in Int /\ (\E g \in Heard : m = last[g]) /\ \A g \in Heard : last[g] =< m
  <2>1. IsFiniteSet(Heard)
    BY <1>3, AdrAssumption, FS_Subset
  <2>2. last \in [Heard -> Int]
    BY <1>3, SnrType
  <2> HIDE DEF last
  <2> QED BY <1>2, <2>1, <2>2, ExtremesOfRange
<1> HIDE DEF m
<1>5. PICK g \in Heard : m = Snr(g)
  BY <1>4
<1>6. Steps \in Int /\ 30 * Steps =< m - Required(known)
  <2>1. \A x \in DOMAIN history[Len(history)] : history[Len(history)][x] =< m
    BY <1>2, <1>4
  <2> HIDE DEF last
  <2> QED BY <1>2, <1>3, <1>4, <2>1, StepsBound
<1>7. PICK a \in 0 .. 5, b \in -6 .. 6 :
           /\ NewSF = known - a /\ NewPower = power - 2 * b
           /\ (Steps > 0 => b >= 0 /\ a + b =< Steps)
           /\ (Steps =< 0 => a = 0 /\ b =< 0)
  BY <1>2, <1>3, <1>6, StepsAreSpent
<1>8. gain[g] \in Int /\ power \in Int /\ Snr(g) = gain[g] + 10 * power /\ Snr(g) >= Sensitive(sf)
  BY <1>3, <1>5, SnrType DEF Heard, Snr
<1>9. sf \in Int
  BY <1>2 DEF SpreadingFactors
<1> DEFINE n == Steps
<1>10. n \in Int /\ 30 * n =< gain[g] + 10 * power - (-75 - 25 * (sf - 7))
  <2>1. Required(known) = -75 - 25 * (sf - 7)
    BY <1>2 DEF Required
  <2>2. m = gain[g] + 10 * power
    BY <1>5, <1>8
  <2>3. n \in Int /\ 30 * n =< m - Required(known)
    BY <1>6
  <2> HIDE DEF n
  <2> QED BY <1>8, <1>9, <2>1, <2>2, <2>3
<1>11. p = power - 2 * b \/ p = power
  BY <1>1, <1>7
<1>12. gain[g] + 10 * power >= -129 - 25 * (sf - 7)
  BY <1>8 DEF Sensitive
<1>13. (n > 0 => b >= 0 /\ a + b =< n) /\ (n =< 0 => a = 0 /\ b =< 0)
  BY <1>7
<1>14. gain[g] + 10 * p >= -129 - 25 * ((sf - a) - 7)
  <2> HIDE DEF n
  <2>1. CASE n > 0
    BY <1>8, <1>9, <1>10, <1>11, <1>13, <2>1
  <2>2. CASE n =< 0
    BY <1>8, <1>9, <1>11, <1>12, <1>13, <2>2
  <2> QED BY <1>10, <2>1, <2>2
<1>15. AskedSF' = sf - a
  BY <1>1, <1>2, <1>7
<1> QED BY <1>1, <1>3, <1>14, <1>15 DEF Sensitive

LEMMA ReachStep == AdrInv /\ AsksInReach /\ [AdrNext]_adrVars => AsksInReach'
<1> SUFFICES ASSUME AdrInv, AsksInReach, [AdrNext]_adrVars, Cautious'
             PROVE  /\ (Heard # {})'
                    /\ request' # NoRequest =>
                         \E g \in Gateways : gain'[g] + 10 * AskedPower' >= Sensitive(AskedSF')
  BY DEF AsksInReach, Sensitive
<1>1. Cautious /\ gain' = gain
  BY DEF Cautious, AdrNext, Uplink, BeforeSendingReply, NoGateway, OnLinkAdrReq, RequestLost, adrVars
<1>2. Heard # {}
  BY <1>1 DEF AsksInReach
<1>3. sf' = sf /\ power' = power => Heard' = Heard
  BY <1>1 DEF Heard, Snr
<1>4. CASE BeforeSendingReply
  <2>1. sf' = sf /\ power' = power
    BY <1>4 DEF BeforeSendingReply
  <2> QED BY <1>1, <1>2, <1>3, <1>4, <2>1, RequestInReach
<1>5. CASE OnLinkAdrReq
  <2>1. sf' = AskedSF /\ power' = AskedPower /\ request' = NoRequest
    BY <1>5, RequestExecuted DEF OnLinkAdrReq
  <2>2. PICK g \in Gateways : gain[g] + 10 * AskedPower >= Sensitive(AskedSF)
    BY <1>1, <1>5 DEF AsksInReach, OnLinkAdrReq
  <2>3. Sensitive(sf') = Sensitive(AskedSF)
    BY <2>1
  <2>4. g \in Heard'
    BY <1>1, <2>1, <2>2, <2>3 DEF Heard, Snr, Sensitive
  <2> QED BY <2>1, <2>4
<1>6. CASE Uplink \/ NoGateway \/ RequestLost
  <2>1. sf' = sf /\ power' = power /\ request' = NoRequest
    BY <1>6 DEF Uplink, NoGateway, RequestLost, AdrInv, Current
  <2> QED BY <1>2, <1>3, <2>1
<1>7. CASE UNCHANGED adrVars
  <2>1. sf' = sf /\ power' = power /\ request' = request
    BY <1>7 DEF adrVars
  <2>2. AskedSF' = AskedSF /\ AskedPower' = AskedPower
    BY <2>1 DEF AskedSF, AskedPower
  <2> QED BY <1>1, <1>2, <1>3, <2>1, <2>2 DEF AsksInReach
<1> QED BY <1>4, <1>5, <1>6, <1>7 DEF AdrNext

-----------------------------------------------------------------------------
(* The types of the loop: neither the component's closed loops nor the     *)
(* tables of the device leave the spreading factors and powers there are   *)
(* (AdrImplementation, OnLinkAdrReq).                                      *)
THEOREM AdrTypeCorrect == AdrSpec => []AdrTypeOK
<1>1. AdrInv => AdrTypeOK
  BY DEF AdrInv
<1> QED BY <1>1, AdrInvariance, PTL

(* Every request that arrives changes the device, whatever is measured,    *)
(* combined, given up or lost: BeforeSendingReply compares with what the   *)
(* device uses, and no rounding of AdrImplementation or of the device's    *)
(* tables makes a request void.                                            *)
THEOREM RequestsChange == AdrSpec => RequestsMatter
<1>1. AdrInv /\ [AdrNext]_adrVars => (OnLinkAdrReq => <<sf, power>>' # <<sf, power>>)
  BY RequestExecuted
<1> QED BY <1>1, AdrInvariance, PTL DEF AdrSpec, RequestsMatter

(* With the last packet only, or the worst of any number of packets, no    *)
(* request takes a device out of the reach of all gateways, however many   *)
(* there are and whatever their gains: the margin AdrImplementation spends *)
(* is the last packet's.                                                   *)
CautiousHistory == HistoryRange = 1 \/ \A c \in Combinings : c.history # "AVERAGE"

THEOREM InReach ==
  ASSUME CautiousHistory
  PROVE  AdrSpec => []StaysReachable
<1>1. AdrInit => AsksInReach
  BY AdrInitially
<1>2. AdrInv /\ AsksInReach => StaysReachable
  <2> SUFFICES ASSUME AdrInv, AsksInReach, combining.history # "MAXIMUM" PROVE Heard # {}
    BY DEF StaysReachable
  <2>1. combining.history \in Methods /\ combining \in Combinings
    BY AdrAssumption DEF AdrInv, AdrTypeOK
  <2>2. Cautious
    BY <2>1 DEF Cautious, CautiousHistory, Methods
  <2> QED BY <2>2 DEF AsksInReach
<1> QED BY <1>1, <1>2, AdrInvariance, ReachStep, PTL DEF AdrSpec
=============================================================================
