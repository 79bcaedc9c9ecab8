------------------------------- MODULE MCEnergy -------------------------------
(***************************************************************************)
(* The instance of Energy for TLC: currents in the order of the defaults   *)
(* (sleep, standby, receive, transmit), a source that a few ticks empty.   *)
(***************************************************************************)
EXTENDS Energy

mcCurrent == [SLEEP |-> 0, STANDBY |-> 1, RX |-> 2]
===============================================================================
