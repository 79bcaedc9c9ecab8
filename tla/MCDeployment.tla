----------------------------- MODULE MCDeployment -----------------------------
(***************************************************************************)
(* The instance of Deployment for TLC: studies that call the functions no  *)
(* example calls, alone or one after the other.                            *)
(***************************************************************************)
EXTENDS Deployment

By(op) == [op |-> op]
Mode(mode, edge) == [op |-> "strategy", mode |-> mode, edge |-> edge, edge2 |-> 1]
Thirds == [op |-> "prop", prop1 |-> 30, prop2 |-> 40]

mcPowers == {-1240, -1300, -1360, -1430}

mcStudies ==
  {<<By("EIB")>>, <<By("EAB")>>, <<Thirds>>}
    \cup {<<up, Mode("SHIFT_ONE", e)>> : up \in {SetUp, SetUpForRtx}, e \in 0 .. 2}
    \cup {<<Thirds, Mode("SHIFT_TWO", e)>> : e \in 0 .. 2}
    \cup {<<Mode(m, e)>> : m \in {"CLASS_TWO", "ALM_FI", "ALM_PI"}, e \in 0 .. 2}
    \cup {<<Mode("CLASS_THREE", e)>> : e \in 0 .. 1}
===============================================================================
