----------------------------- MODULE MCChannels -----------------------------
(***************************************************************************)
(* The instance of Channels for TLC: sub-bands of the EU region and two of *)
(* its channels.  The duty cycles of 1 % and 10 % are scaled to a quarter   *)
(* and a third, so that waits end within the bound of the clock; a node    *)
(* that is on the air all the time breaks either.                          *)
(***************************************************************************)
EXTENDS Channels

mcBands == << [first |-> 867000, last |-> 868600, inverse |-> 4, maxTxPower |-> 14],
              [first |-> 868700, last |-> 869200, inverse |-> 3, maxTxPower |-> 14],
              [first |-> 869400, last |-> 869650, inverse |-> 3, maxTxPower |-> 27] >>
mcDefaultChannels == <<868100, 868300>>
mcNewFrequencies  == {868850, 868650}
=============================================================================
