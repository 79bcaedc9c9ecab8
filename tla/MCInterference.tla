--------------------------- MODULE MCInterference ---------------------------
(***************************************************************************)
(* Instances of Interference for TLC: two spreading factors, a strong      *)
(* isolation between them and a weak one within each, as in the matrix of  *)
(* the code (6 dB and less than -16 dB); a list that is cleaned when it    *)
(* has three events.                                                       *)
(***************************************************************************)
EXTENDS Interference

mcIsolation == [s \in SFs |-> [t \in SFs |-> IF s = t THEN <<4, 1>> ELSE <<1, 20>>]]
=============================================================================
