--------------------------- MODULE SpreadingFactors ---------------------------
(***************************************************************************)
(* The functions SetSpreadingFactors... of LorawanMacHelper: each gives    *)
(* the devices their data rates and returns how many got each spreading    *)
(* factor.  Class c of a device is the index of its count: class 1 is SF7, *)
(* data rate 5, and class 6 is SF12, data rate 0; class 7 is out of range, *)
(* which the code counts outside of its vector.  Powers are in tenths of   *)
(* dBm, distances from the origin in units of which Radius is 6.           *)
(* SetSpreadingFactorsGivenDistribution is not translated: its loop runs   *)
(* past the end of both of its vectors.                                    *)
(***************************************************************************)
EXTENDS Integers, FiniteSets, FiniteSetsExt, Functions

GwSensitivity == <<-1300, -1325, -1350, -1375, -1400, -1425>>
EdSensitivity == <<-1240, -1270, -1300, -1330, -1350, -1370>>

Classes == 1 .. 6
Outside == 7
Radius == 6

RateOf(class) == IF class = Outside THEN 0 ELSE 6 - class
ClassOf(rate) == 6 - rate

(* The first class whose condition holds: the chain of else-ifs.           *)
First(holds(_), otherwise) ==
  IF \E c \in Classes : holds(c) THEN Min({c \in Classes : holds(c)}) ELSE otherwise

(* Mutant: the power is compared with the sensitivity of the next class. *)
UpNext(rx, sensitivity) ==
  [d \in DOMAIN rx |->
     LET best == Max({rx[d][g] : g \in DOMAIN rx[d]})
     IN  First(LAMBDA c : best > sensitivity[IF c = 6 THEN 6 ELSE c + 1], Outside)]

(* SetSpreadingFactorsUp: by the power at the best gateway.                *)
Up(rx, sensitivity) ==
  [d \in DOMAIN rx |->
     LET best == Max({rx[d][g] : g \in DOMAIN rx[d]})
     IN  First(LAMBDA c : best > sensitivity[c], Outside)]

(* SetSpreadingFactorsEIB: rings of equal width, a third of the radius.    *)
EIB(pos) == [d \in DOMAIN pos |-> First(LAMBDA c : 3 * pos[d] <= c * Radius, Outside)]

(* SetSpreadingFactorsEAB: rings of equal area; SF9 beyond the last.       *)
EAB(pos) ==
  [d \in DOMAIN pos |->
     First(LAMBDA c : LET square == 6 * pos[d] * pos[d]
                      IN  IF c <= 3 THEN square <= c * Radius * Radius
                                    ELSE square < c * Radius * Radius, 3)]

(* SetSpreadingFactorsProp with prop2 > 0, in hundredths of the area.      *)
Prop(pos, prop1, prop2) ==
  [d \in DOMAIN pos |->
     LET square == 100 * pos[d] * pos[d]
     IN  IF square <= prop1 * Radius * Radius THEN 1
         ELSE IF square <= (prop1 + prop2) * Radius * Radius THEN 2 ELSE 3]

(* The counts are of type uint8_t.                                         *)
Byte(n) == n % 256
Counts(class) == [c \in Classes |-> Byte(Cardinality({d \in DOMAIN class : class[d] = c}))]
Zero == [c \in Classes |-> 0]

-----------------------------------------------------------------------------
(* SetSpreadingFactorsStrategies: the data rates it gives, from rates dr   *)
(* of devices 1, 2, ...; the code counts devices from 0.                   *)
Shifted(dr, edge, by) == [d \in DOMAIN dr |-> IF d > edge /\ dr[d] # 0 THEN dr[d] - by ELSE dr[d]]

ClassTwo(dr, edge) ==
  [d \in DOMAIN dr |-> IF dr[d] # 0 THEN dr[d] ELSE IF d <= edge THEN 5 ELSE 4]

ClassThree(dr, edge, edge2) ==
  [d \in DOMAIN dr |-> IF d <= edge THEN 5 ELSE IF d <= edge + edge2 THEN 4 ELSE 3]

AlmFi(dr, edge) ==
  [d \in DOMAIN dr |-> IF dr[d] # 0 THEN dr[d] ELSE IF d <= edge THEN 4 ELSE 5]

(* The edge is spent on the devices at data rate 0.                        *)
AlmPi(dr, edge) ==
  [d \in DOMAIN dr |->
     IF dr[d] # 0 THEN dr[d]
     ELSE IF Cardinality({e \in DOMAIN dr : e <= d /\ dr[e] = 0}) <= edge THEN 4 ELSE 5]

Strategy(s, dr) ==
  CASE s.mode = "SHIFT_ONE" -> Shifted(dr, s.edge, 1)
    [] s.mode = "SHIFT_TWO" -> Shifted(dr, s.edge, 2)
    [] s.mode = "CLASS_TWO" -> ClassTwo(dr, s.edge)
    [] s.mode = "CLASS_THREE" -> ClassThree(dr, s.edge, s.edge2)
    [] s.mode = "ALM_FI" -> AlmFi(dr, s.edge)
    [] s.mode = "ALM_PI" -> AlmPi(dr, s.edge)

Shifts == {"SHIFT_ONE", "SHIFT_TWO"}

(* Mutant: a shift counts the devices in but not out. *)
NotUncounted(s, dr, quantity) ==
  LET new == Strategy(s, dr)
      set == {d \in DOMAIN dr : s.mode = "CLASS_THREE" \/ new[d] # dr[d]}
      came(c) == Cardinality({d \in set : ClassOf(new[d]) = c})
  IN  [c \in Classes |-> Byte(quantity[c] + came(c))]

(* A shift moves the counts of the devices it moves; the other modes only  *)
(* add the devices they set, CLASS_THREE every device.                     *)
StrategyCounts(s, dr, quantity) ==
  LET new == Strategy(s, dr)
      set == {d \in DOMAIN dr : s.mode = "CLASS_THREE" \/ new[d] # dr[d]}
      came(c) == Cardinality({d \in set : ClassOf(new[d]) = c})
      left(c) == IF s.mode \in Shifts
                 THEN Cardinality({d \in set : ClassOf(dr[d]) = c}) ELSE 0
  IN  [c \in Classes |-> Byte(quantity[c] + came(c) - left(c))]
===============================================================================
