--------------------------- MODULE MCMacCommands ---------------------------
(***************************************************************************)
(* Instances of MacCommands for TLC: the EU tables, packets that leave     *)
(* plenty of room and one that leaves a single byte at data rate 0.        *)
(***************************************************************************)
EXTENDS MacCommands

mcFreq == <<132, 118, 40>>

(* What the components of the server send, and what the frame header lets  *)
(* another component add, the boundary values of the tables included.      *)
mcRequests ==
  { LinkAdrReq(3, 2, 7, 1), LinkAdrReq(0, 7, 1, 1), LinkAdrReq(5, 1, 8, 1),
    LinkAdrReq(5, 1, 0, 1),
    DutyCycleReq(0), DutyCycleReq(7),
    RxParamSetupReq(1, 3, mcFreq), RxParamSetupReq(0, 7, mcFreq),
    DevStatusReq,
    NewChannelReq(1, mcFreq, 0, 5), NewChannelReq(3, mcFreq, 0, 5),
    RxTimingSetupReq(2) }
=============================================================================
