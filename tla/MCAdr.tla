-------------------------------- MODULE MCAdr --------------------------------
(***************************************************************************)
(* The instance of Adr for TLC: the default history of four packets, every *)
(* way to combine them, and gateways from very near to one that hears only *)
(* SF12.                                                                   *)
(***************************************************************************)
EXTENDS Adr

mcGains == {-440, -330, -250, -213, -185, -152, -126, -40}
mcCombinings == [tp : Methods, history : Methods]
=============================================================================
