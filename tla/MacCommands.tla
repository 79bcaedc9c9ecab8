---------------------------- MODULE MacCommands ----------------------------
(***************************************************************************)
(* MAC commands between a device and the network server: how a frame       *)
(* header writes and parses them (LoraFrameHeader, MacCommand), how the    *)
(* device executes requests and queues the answers (EndDeviceLorawanMac),  *)
(* and when the queue is sent and emptied.                                 *)
(*                                                                         *)
(* A command is its type and the bytes that follow the command identifier. *)
(* A requested frequency is three bytes, which nothing here looks at.  The *)
(* timing is that of ClassAMac: here one uplink and the downlink in its    *)
(* windows follow each other.                                              *)
(***************************************************************************)
EXTENDS Integers, FiniteSets, Sequences, SequencesExt

CONSTANTS
  NumChannels,     \* size of the device's list of channels
  MaxTx,           \* m_maxNumbTx
  AppSizes,        \* sizes of the application's packets
  Requests,        \* the requests a controller component may add to a reply
  MaxRequests,     \* how many of them in one reply
  MaxQueued        \* bound of the queue up to which the application adds

(* The tables of every region (lorawan-mac-helper.cc): seven spreading     *)
(* factors and bandwidths, eight powers, offsets 0 to 5, size limits.      *)
NumDR      == 7
NumPowers  == 8
NumOffsets == 6
MaxPayload(dr) == IF dr <= 2 THEN 59 ELSE IF dr = 3 THEN 123 ELSE 230

Byte == 0 .. 255
Bit(b) == IF b THEN 1 ELSE 0

-----------------------------------------------------------------------------
(* The commands.  m_serializedSize counts the identifier.                  *)
Size == [ LINK_CHECK_REQ |-> 1,      LINK_CHECK_ANS |-> 3,
          LINK_ADR_REQ |-> 5,        LINK_ADR_ANS |-> 2,
          DUTY_CYCLE_REQ |-> 2,      DUTY_CYCLE_ANS |-> 1,
          RX_PARAM_SETUP_REQ |-> 5,  RX_PARAM_SETUP_ANS |-> 2,
          DEV_STATUS_REQ |-> 1,      DEV_STATUS_ANS |-> 3,
          NEW_CHANNEL_REQ |-> 6,     NEW_CHANNEL_ANS |-> 2,
          RX_TIMING_SETUP_REQ |-> 2, RX_TIMING_SETUP_ANS |-> 1,
          TX_PARAM_SETUP_REQ |-> 1,  TX_PARAM_SETUP_ANS |-> 1,
          DL_CHANNEL_ANS |-> 1 ]

Types   == DOMAIN Size
Command == [type : Types, arg : Seq(Byte)]

(* The constructors and Serialize of each command.                         *)
LinkCheckReq == [type |-> "LINK_CHECK_REQ", arg |-> <<>>]
LinkCheckAns(margin, gwCnt) == [type |-> "LINK_CHECK_ANS", arg |-> <<margin, gwCnt>>]
LinkAdrReq(dr, power, mask, rep) ==
  [type |-> "LINK_ADR_REQ",
   arg |-> <<(16 * (dr % 16)) + (power % 16), mask % 256, mask \div 256, rep % 16>>]
LinkAdrAns(powerOk, drOk, maskOk) ==
  [type |-> "LINK_ADR_ANS", arg |-> <<4 * Bit(powerOk) + 2 * Bit(drOk) + Bit(maskOk)>>]
DutyCycleReq(dc) == [type |-> "DUTY_CYCLE_REQ", arg |-> <<dc>>]
DutyCycleAns == [type |-> "DUTY_CYCLE_ANS", arg |-> <<>>]
RxParamSetupReq(offset, dr, freq) ==
  [type |-> "RX_PARAM_SETUP_REQ", arg |-> <<(16 * (offset % 8)) + (dr % 16)>> \o freq]
RxParamSetupAns(offsetOk, drOk) ==
  [type |-> "RX_PARAM_SETUP_ANS", arg |-> <<4 * Bit(offsetOk) + 2 * Bit(drOk) + 1>>]
DevStatusReq == [type |-> "DEV_STATUS_REQ", arg |-> <<>>]
DevStatusAns(battery, margin) == [type |-> "DEV_STATUS_ANS", arg |-> <<battery, margin>>]
NewChannelReq(i, freq, minDR, maxDR) ==
  [type |-> "NEW_CHANNEL_REQ", arg |-> <<i>> \o freq \o <<(16 * (maxDR % 16)) + (minDR % 16)>>]
NewChannelAns(drOk, freqOk) ==
  [type |-> "NEW_CHANNEL_ANS", arg |-> <<2 * Bit(drOk) + Bit(freqOk)>>]
RxTimingSetupReq(delay) == [type |-> "RX_TIMING_SETUP_REQ", arg |-> <<delay % 16>>]

(* The getters, after Deserialize.                                         *)
GetDataRate(c) == c.arg[1] \div 16
GetTxPower(c)  == c.arg[1] % 16
GetEnabledChannelsList(c) ==
  {i \in 0 .. 15 : ((c.arg[2] + 256 * c.arg[3]) \div 2^i) % 2 = 1}
GetRx1DrOffset(c)  == (c.arg[1] \div 16) % 8
GetRx2DataRate(c)  == c.arg[1] % 16
GetChannelIndex(c) == c.arg[1]
GetRange(c) == (c.arg[5] % 16) .. (c.arg[5] \div 16)

(* GetCIDFromMacCommand of the m_commandType the constructors set: some    *)
(* have that of another command.                                           *)
CID(t) ==
  CASE t \in {"LINK_CHECK_REQ", "LINK_CHECK_ANS"}         -> 2
    [] t \in {"LINK_ADR_REQ", "LINK_ADR_ANS"}             -> 3
    [] t \in {"DUTY_CYCLE_REQ", "DUTY_CYCLE_ANS"}         -> 4
    [] t \in {"RX_PARAM_SETUP_REQ", "RX_PARAM_SETUP_ANS"} -> 5
    [] t \in {"NEW_CHANNEL_REQ", "NEW_CHANNEL_ANS"}       -> 7
    [] t = "RX_TIMING_SETUP_REQ"                          -> 8
    [] OTHER                                              -> 6

-----------------------------------------------------------------------------
(* The frame header.                                                       *)
FOptsLen(cmds) ==   \* m_fOptsLen, eight bits, as the commands are added
  LET length[i \in 0 .. Len(cmds)] ==
        IF i = 0 THEN 0 ELSE (length[i - 1] + Size[cmds[i].type]) % 256
  IN  length[Len(cmds)]

(* GetSerializedSize: address, FCtrl, FCnt and FPort around the options.   *)
HeaderSize(cmds) == 8 + FOptsLen(cmds)

Options(cmds) == FlattenSeq([i \in DOMAIN cmds |-> <<CID(cmds[i].type)>> \o cmds[i].arg])

(* The types of command the parser creates for an identifier.              *)
UplinkType == <<"", "LINK_CHECK_REQ", "LINK_ADR_ANS", "DUTY_CYCLE_ANS",
                "RX_PARAM_SETUP_ANS", "DEV_STATUS_ANS", "NEW_CHANNEL_ANS",
                "RX_TIMING_SETUP_ANS", "TX_PARAM_SETUP_ANS", "DL_CHANNEL_ANS">>
DownlinkType == <<"", "LINK_CHECK_ANS", "LINK_ADR_REQ", "DUTY_CYCLE_REQ",
                  "RX_PARAM_SETUP_REQ", "DEV_STATUS_REQ", "NEW_CHANNEL_REQ",
                  "RX_TIMING_SETUP_REQ", "TX_PARAM_SETUP_REQ">>
TypeOf(isUplink) == IF isUplink THEN UplinkType ELSE DownlinkType

Hang == [type |-> "HANG", arg |-> <<>>]

(* Mutant: the identifier is not counted. *)
AdvanceByData(t) == IF Size[t] > 1 THEN Size[t] - 1 ELSE 1
Advance(t) == Size[t]

(* Deserialize.  The length is the low four bits of FCtrl; the loop reads  *)
(* command after command and does not look whether one ends behind the     *)
(* options, where FPort, 1 in uplinks, and the zeros of the payload        *)
(* follow.  An identifier the direction does not know is never skipped.    *)
Parse(cmds, isUplink) ==
  LET known == TypeOf(isUplink)
      bytes == Options(cmds) \o <<1>>
      At(i) == IF i <= Len(bytes) THEN bytes[i] ELSE 0
      len   == FOptsLen(cmds) % 16
      from[n \in 0 .. len + 6] ==
        IF n >= len THEN <<>>
        ELSE IF At(n + 1) \notin 2 .. Len(known) THEN <<Hang>>
        ELSE LET t == known[At(n + 1)]
             IN  <<[type |-> t, arg |-> [k \in 1 .. Size[t] - 1 |-> At(n + 1 + k)]]>>
                   \o from[n + Advance(t)]
  IN  from[0]

Hangs(cmds, isUplink) == Hang \in Range(Parse(cmds, isUplink))

(* A header no one called SetAsUplink or SetAsDownlink of holds any value  *)
(* in m_isUplink.                                                          *)
MayHang(cmds) == \E isUplink \in BOOLEAN : Hangs(cmds, isUplink)

-----------------------------------------------------------------------------
ASSUME CommandsAssumption ==
  /\ NumChannels \in 1 .. 16 /\ MaxTx \in 1 .. 255
  /\ AppSizes \subseteq Nat
  /\ \A c \in Requests :   \* what a constructor builds for a downlink
       c \in Command /\ Len(c.arg) = Size[c.type] - 1 /\ c.type \in Range(DownlinkType)
  /\ MaxRequests \in Nat /\ MaxQueued \in Nat

VARIABLES
  queue,         \* m_macCommandList
  link,          \* m_dataRate, the index of m_txPower, the enabled channels
  ranges,        \* the data rates each channel allows
  rx,            \* m_rx1DrOffset, m_secondReceiveWindowDataRate
  lastGwCnt,     \* m_lastKnownGatewayCount
  retx,          \* m_retxParams: commands in the header of the packet, retxLeft
  up, down,      \* the frame on its way to the server, and to the device
  inbox,         \* the commands of a received header not yet executed
  owed,          \* history: the types of the commands the server is to be told
  crash          \* what ended the program

device  == <<queue, link, ranges, rx, lastGwCnt>>
frames  == <<up, down, inbox>>
cmdVars == <<device, retx, frames, owed, crash>>

Channels == 0 .. NumChannels - 1
NoRetx   == [cmds |-> <<>>, left |-> 0]
NoFrame  == [kind |-> "none", cmds |-> <<>>]

CmdInit ==
  /\ queue = <<>>
  /\ link = [dr |-> 0, power |-> 1, enabled |-> Channels]
  /\ ranges = [i \in Channels |-> 0 .. 5]
  /\ rx = [offset |-> 0, dr |-> 0]
  /\ lastGwCnt = 0
  /\ retx = NoRetx
  /\ up = NoFrame /\ down = NoFrame /\ inbox = <<>>
  /\ owed = <<>>
  /\ crash = "none"

(* What was asked, and what was told.  The history follows the frames      *)
(* alone, not the list: a header that is received asks for an answer to    *)
(* each of its requests, and a new packet on the air settles the answers   *)
(* it carries, if they are the next ones in order.                         *)
AnswerType == [ LINK_ADR_REQ       |-> "LINK_ADR_ANS",
                DUTY_CYCLE_REQ     |-> "DUTY_CYCLE_ANS",
                RX_PARAM_SETUP_REQ |-> "RX_PARAM_SETUP_ANS",
                DEV_STATUS_REQ     |-> "DEV_STATUS_ANS",
                NEW_CHANNEL_REQ    |-> "NEW_CHANNEL_ANS" ]
AnswerTo(c) == IF c.type \in DOMAIN AnswerType THEN <<AnswerType[c.type]>> ELSE <<>>
AnswersTo(cmds) == FlattenSeq([i \in DOMAIN cmds |-> AnswerTo(cmds[i])])
TypesOf(cmds) == [i \in DOMAIN cmds |-> cmds[i].type]
Settled(told) ==
  IF IsPrefix(told, owed) THEN SubSeq(owed, Len(told) + 1, Len(owed)) ELSE owed

Idle == up = NoFrame /\ down = NoFrame /\ inbox = <<>> /\ crash = "none"

Crash(what) == crash' = what /\ UNCHANGED <<device, retx, frames, owed>>

-----------------------------------------------------------------------------
(* Sending.                                                                *)

(* AddMacCommand, of a LinkCheckReq, as the tests call it.                 *)
AddMacCommand ==
  /\ Idle
  /\ Len(queue) < MaxQueued
  /\ queue' = Append(queue, LinkCheckReq)
  /\ owed' = Append(owed, "LINK_CHECK_REQ")
  /\ UNCHANGED <<link, ranges, rx, lastGwCnt, retx, frames, crash>>

TooBig(size) == size + HeaderSize(queue) > MaxPayload(link.dr)

(* SendToPhy: the data rate of the reply is looked up when the packet is   *)
(* sent, in a table of the six offsets.                                    *)
SendToPhy(kind) ==
  /\ up' = [kind |-> kind, cmds |-> queue]
  /\ IF rx.offset < NumOffsets THEN UNCHANGED crash ELSE crash' = "offset"

(* The list once the packet was sent, or dropped for its size.             *)
(* Mutant: it is emptied before the size is checked. *)
EmptiedFirst(sent) == <<>>
ListAfter(sent) == IF sent THEN <<>> ELSE queue

(* DoSend of a new packet.  Above the size limit it is dropped and the     *)
(* list stays as it is.                                                    *)
DoSend(kind, size) ==
  /\ Idle
  /\ queue' = ListAfter(~ TooBig(size))
  /\ IF TooBig(size)
       THEN UNCHANGED <<retx, up, owed, crash>>
       ELSE /\ SendToPhy(kind)
            /\ retx' = IF kind = "confirmed" THEN [cmds |-> queue, left |-> MaxTx - 1]
                                             ELSE NoRetx
            /\ owed' = Settled(TypesOf(up'.cmds))
  /\ UNCHANGED <<link, ranges, rx, lastGwCnt, down, inbox>>

MayRetransmit == retx.left > 0

(* DoSend of a retransmission.  The old header is removed with a header    *)
(* whose direction is not set, and a new one is built from the list, which *)
(* is not emptied.                                                         *)
Retransmit ==
  /\ Idle
  /\ MayRetransmit
  /\ \/ MayHang(retx.cmds) /\ Crash("hang")
     \/ /\ \E isUplink \in BOOLEAN : ~ Hangs(retx.cmds, isUplink)
        /\ SendToPhy("confirmed")
        /\ retx' = [cmds |-> queue, left |-> retx.left - 1]
        /\ UNCHANGED <<device, down, inbox, owed>>

-----------------------------------------------------------------------------
(* The server.  GetEndDeviceStatus parses each uplink with a header whose  *)
(* direction is not set; the components set it.                            *)

(* LinkCheckComponent and ConfirmedMessagesComponent, then a component     *)
(* that adds requests, as AdrComponent does.                               *)
LinkCheckReply(gwCnt) ==
  IF \E c \in Range(Parse(up.cmds, TRUE)) : c.type = "LINK_CHECK_REQ"
    THEN <<LinkCheckAns(0, gwCnt)>> ELSE <<>>

ServerReceive(gwCnt, reqs) ==
  /\ up # NoFrame /\ crash = "none"
  /\ \/ MayHang(up.cmds) /\ Crash("hang")
     \/ /\ \E isUplink \in BOOLEAN : ~ Hangs(up.cmds, isUplink)
        /\ LET reply == LinkCheckReply(gwCnt) \o reqs
           IN  /\ up.kind = "confirmed" \/ reply # <<>>
               /\ down' = [kind |-> IF up.kind = "confirmed" THEN "ack" ELSE "plain",
                           cmds |-> reply]
        /\ up' = NoFrame
        /\ UNCHANGED <<device, retx, inbox, owed, crash>>

-----------------------------------------------------------------------------
(* The device.                                                             *)

(* OpenSecondReceiveWindow looks up the bandwidth of its data rate, with a *)
(* check that is off by one; a bandwidth of zero makes the window endless. *)
SecondWindowFails == rx.dr >= NumDR

(* No downlink arrives in either window.  A packet without transmissions   *)
(* left is given up.                                                       *)
NoDownlink ==
  /\ up # NoFrame \/ down # NoFrame
  /\ crash = "none"
  /\ \/ SecondWindowFails /\ Crash("window")
     \/ /\ ~ SecondWindowFails
        /\ up' = NoFrame /\ down' = NoFrame
        /\ retx' = IF retx.left = 0 THEN NoRetx ELSE retx
        /\ UNCHANGED <<device, inbox, owed, crash>>

(* Receive, in the first or the second window, and the first part of       *)
(* ParseCommands, for which an ACK ends the retransmissions.               *)
Receive(second) ==
  /\ down # NoFrame /\ crash = "none"
  /\ \/ second /\ SecondWindowFails /\ Crash("window")
     \/ /\ ~ (second /\ SecondWindowFails)
        /\ down' = NoFrame
        /\ inbox' = Parse(down.cmds, FALSE)
        /\ owed' = owed \o AnswersTo(inbox')
        /\ retx' = IF down.kind = "ack" THEN NoRetx ELSE retx
        /\ UNCHANGED <<device, up, crash>>

(* The loop of ParseCommands, a command at a time: nothing else happens    *)
(* until it is done (Idle).  An answer goes to the end of the list.        *)
Answer(c) == queue' = Append(queue, c) /\ UNCHANGED owed
NextIs(t) == inbox # <<>> /\ crash = "none" /\ Head(inbox).type = t

OnLinkCheckAns ==
  /\ NextIs("LINK_CHECK_ANS")
  /\ lastGwCnt' = Head(inbox).arg[2]
  /\ inbox' = Tail(inbox)
  /\ UNCHANGED <<queue, link, ranges, rx, retx, up, down, owed, crash>>

(* The channels of a mask that allow a data rate.                          *)
Allowing(mask, dr) == {i \in mask \cap Channels : dr \in ranges[i]}

(* Mutant: any data rate of the table will do. *)
AnyRate(dr, mask) == dr < NumDR
DataRateOk(dr, mask) ==
  /\ dr < NumDR
  /\ mask \subseteq 0 .. NumChannels => Allowing(mask, dr) # {}

(* An index equal to the size of a table passes the check and throws, that *)
(* of the channels if no other channel of the mask allows the data rate.   *)
LinkAdrReqThrows(dr, power, mask) ==
  \/ dr = NumDR
  \/ power = NumPowers
  \/ /\ dr < NumDR /\ mask \subseteq 0 .. NumChannels
     /\ NumChannels \in mask /\ Allowing(mask, dr) = {}

OnLinkAdrReq ==
  LET c      == Head(inbox)
      dr     == GetDataRate(c)
      power  == GetTxPower(c)
      mask   == GetEnabledChannelsList(c)
      maskOk == mask \subseteq 0 .. NumChannels
  IN  /\ NextIs("LINK_ADR_REQ")
      /\ IF LinkAdrReqThrows(dr, power, mask)
           THEN Crash("linkAdrReq")
           ELSE /\ Answer(LinkAdrAns(power < NumPowers, DataRateOk(dr, mask), maskOk))
                /\ link' = IF power < NumPowers /\ DataRateOk(dr, mask) /\ maskOk
                             THEN [dr |-> dr, power |-> power,
                                   enabled |-> mask \cap Channels]
                             ELSE link
                /\ inbox' = Tail(inbox)
                /\ UNCHANGED <<ranges, rx, lastGwCnt, retx, up, down, crash>>

(* The assertion excludes the duty cycle 1, which the command encodes as 0.*)
OnDutyCycleReq ==
  /\ NextIs("DUTY_CYCLE_REQ")
  /\ IF Head(inbox).arg[1] = 0
       THEN Crash("dutyCycleReq")
       ELSE /\ Answer(DutyCycleAns)
            /\ inbox' = Tail(inbox)
            /\ UNCHANGED <<link, ranges, rx, lastGwCnt, retx, up, down, crash>>

(* The parameters are taken over whether or not they are valid.            *)
OnRxParamSetupReq ==
  LET offset == GetRx1DrOffset(Head(inbox))
      dr     == GetRx2DataRate(Head(inbox))
  IN  /\ NextIs("RX_PARAM_SETUP_REQ")
      /\ rx' = [offset |-> offset, dr |-> dr]
      /\ Answer(RxParamSetupAns(offset < NumOffsets, dr < NumDR))
      /\ inbox' = Tail(inbox)
      /\ UNCHANGED <<link, ranges, lastGwCnt, retx, up, down, crash>>

OnDevStatusReq ==
  /\ NextIs("DEV_STATUS_REQ")
  /\ Answer(DevStatusAns(10, 10))
  /\ inbox' = Tail(inbox)
  /\ UNCHANGED <<link, ranges, rx, lastGwCnt, retx, up, down, crash>>

(* SetLogicalChannel replaces a channel of the list by a new one, which is *)
(* enabled.                                                                *)
OnNewChannelReq ==
  LET i == GetChannelIndex(Head(inbox))
  IN  /\ NextIs("NEW_CHANNEL_REQ")
      /\ IF i \notin Channels
           THEN Crash("newChannelReq")
           ELSE /\ ranges' = [ranges EXCEPT ![i] = GetRange(Head(inbox))]
                /\ link' = [link EXCEPT !.enabled = @ \cup {i}]
                /\ Answer(NewChannelAns(TRUE, TRUE))
                /\ inbox' = Tail(inbox)
                /\ UNCHANGED <<rx, lastGwCnt, retx, up, down, crash>>

(* Mutant: the loop stays at the command. *)
NotSkipped == inbox' = inbox
Skipped == inbox' = Tail(inbox)

(* A type the loop has no action for, or the parse that does not end.      *)
OnOther ==
  /\ inbox # <<>> /\ crash = "none"
  /\ \/ NextIs("HANG") /\ Crash("hang")
     \/ /\ Head(inbox).type \in {"RX_TIMING_SETUP_REQ", "TX_PARAM_SETUP_REQ"}
        /\ Skipped
        /\ UNCHANGED <<device, retx, up, down, owed, crash>>

ParseCommands ==
  \/ OnLinkCheckAns \/ OnLinkAdrReq \/ OnDutyCycleReq \/ OnRxParamSetupReq
  \/ OnDevStatusReq \/ OnNewChannelReq \/ OnOther

-----------------------------------------------------------------------------
Replies == UNION {[1 .. n -> Requests] : n \in 0 .. MaxRequests}

CmdNext ==
  \/ AddMacCommand
  \/ \E kind \in {"confirmed", "unconfirmed"}, size \in AppSizes : DoSend(kind, size)
  \/ Retransmit
  \/ \E reqs \in Replies : ServerReceive(1, reqs)
  \/ NoDownlink
  \/ \E second \in BOOLEAN : Receive(second)
  \/ ParseCommands

CmdSpec == CmdInit /\ [][CmdNext]_cmdVars

(* The simulator runs what is due; the application sends its smallest      *)
(* packet again and again.                                                 *)
Smallest == CHOOSE s \in AppSizes : \A t \in AppSizes : s <= t
CmdFairSpec ==
  /\ CmdSpec
  /\ WF_cmdVars(ParseCommands \/ NoDownlink)
  /\ SF_cmdVars(DoSend("confirmed", Smallest) \/ DoSend("unconfirmed", Smallest))

-----------------------------------------------------------------------------
(* Types of the variables.                                                 *)
Link  == [dr : 0 .. NumDR - 1, power : 0 .. NumPowers - 1, enabled : SUBSET Channels]
CmdTypeOK ==
  /\ queue \in Seq(Command)
  /\ link \in Link
  /\ ranges \in [Channels -> SUBSET (0 .. 15)]
  /\ rx \in [offset : 0 .. 7, dr : 0 .. 15]
  /\ lastGwCnt \in Byte
  /\ retx \in [cmds : Seq(Command), left : 0 .. MaxTx - 1]
  /\ up \in [kind : {"none", "confirmed", "unconfirmed"}, cmds : Seq(Command)]
  /\ down \in [kind : {"none", "ack", "plain"}, cmds : Seq(Command)]
  /\ inbox \in Seq(Command \cup {Hang})
  /\ owed \in Seq(Types)

(* Every request of a header that was received gets one answer, in the     *)
(* order of the requests, in the next new packet on the air: whatever      *)
(* handlers run (ParseCommands and the OnX methods), a packet dropped for  *)
(* its size and a retransmission in between take none away and add none.   *)
(* What is still to be told is what the list holds and what the handlers   *)
(* of the commands not yet executed are to add.  A retransmission carries  *)
(* the list too and leaves it as it is: that the server then hears these   *)
(* answers twice is not judged.                                            *)
NoAnswerForgotten == owed = TypesOf(queue) \o AnswersTo(inbox)

(* As long as the four bits of the header can tell the length of the       *)
(* options, the receiver parses from a frame the very commands that were   *)
(* written to it, whatever their number and order (Serialize, Deserialize).*)
LengthFits(cmds) == Len(Options(cmds)) < 16
ParsedAsWritten ==
  /\ LengthFits(up.cmds) => Parse(up.cmds, TRUE) = up.cmds
  /\ LengthFits(down.cmds) /\ (\A c \in Range(down.cmds) : c.type # "TX_PARAM_SETUP_REQ")
       => Parse(down.cmds, FALSE) = down.cmds

(* However requests follow each other, a channel stays enabled: a mask of  *)
(* none is refused only because no channel of it allows the data rate.     *)
(* With none, GetChannelForTx would put off every packet for ever.         *)
KeepsAChannel == link.enabled # {} /\ link.enabled \subseteq Channels

(* What the device owes the server leaves with a packet in the end, if the *)
(* application goes on sending packets that leave room for it.             *)
AnswersLeave == queue # <<>> ~> queue = <<>> \/ crash # "none"

(* SetAsUplink: "This method needs to be called at least once before any   *)
(* serialization or deserialization": every parse comes to an end.         *)
OptionsAreParsed == crash # "hang"
=============================================================================
