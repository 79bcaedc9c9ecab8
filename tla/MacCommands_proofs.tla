------------------------ MODULE MacCommands_proofs ------------------------
(***************************************************************************)
(* Proofs about MacCommands: whatever requests arrive, a channel stays     *)
(* enabled, a parser reads the commands that were written, and every       *)
(* request is answered once.                                               *)
(***************************************************************************)
EXTENDS MacCommands, SequenceTheorems, WellFoundedInduction, TLAPS

(* What a parsed header holds does not matter: the invariant says nothing  *)
(* of the frames.                                                          *)
AnswersInv == queue \in Seq(Command)
CmdInv     == AnswersInv /\ KeepsAChannel

-----------------------------------------------------------------------------
(* The answers the handlers build are commands.                            *)
LEMMA AnswerTypes ==
  /\ LinkCheckReq \in Command
  /\ \A p, d, m \in BOOLEAN : LinkAdrAns(p, d, m) \in Command
  /\ DutyCycleAns \in Command
  /\ \A o, d \in BOOLEAN : RxParamSetupAns(o, d) \in Command
  /\ DevStatusAns(10, 10) \in Command
  /\ NewChannelAns(TRUE, TRUE) \in Command
<1>1. {"LINK_CHECK_REQ", "LINK_ADR_ANS", "DUTY_CYCLE_ANS", "RX_PARAM_SETUP_ANS",
       "DEV_STATUS_ANS", "NEW_CHANNEL_ANS"} \subseteq Types
  BY DEF Types, Size
<1>2. \A b \in BOOLEAN : Bit(b) \in {0, 1}
  BY DEF Bit
<1>3. \A t \in Types, a \in Seq(Byte) : [type |-> t, arg |-> a] \in Command
  BY DEF Command
<1>4. <<>> \in Seq(Byte) /\ \A b \in Byte : <<b>> \in Seq(Byte)
  OBVIOUS
<1>5. \A a, b \in Byte : <<a, b>> \in Seq(Byte)
  OBVIOUS
<1>6. LinkCheckReq \in Command /\ DutyCycleAns \in Command
  BY <1>1, <1>3, <1>4 DEF LinkCheckReq, DutyCycleAns
<1>7. ASSUME NEW p \in BOOLEAN, NEW d \in BOOLEAN, NEW m \in BOOLEAN
      PROVE  LinkAdrAns(p, d, m) \in Command
  <2>1. 4 * Bit(p) + 2 * Bit(d) + Bit(m) \in Byte
    BY <1>2 DEF Byte
  <2>2. QED  BY <2>1, <1>1, <1>3, <1>4 DEF LinkAdrAns
<1>8. ASSUME NEW o \in BOOLEAN, NEW d \in BOOLEAN
      PROVE  RxParamSetupAns(o, d) \in Command
  <2>1. 4 * Bit(o) + 2 * Bit(d) + 1 \in Byte
    BY <1>2 DEF Byte
  <2>2. QED  BY <2>1, <1>1, <1>3, <1>4 DEF RxParamSetupAns
<1>9. DevStatusAns(10, 10) \in Command
  <2>1. 10 \in Byte  BY DEF Byte
  <2>2. QED  BY <2>1, <1>1, <1>3, <1>5 DEF DevStatusAns
<1>10. NewChannelAns(TRUE, TRUE) \in Command
  <2>1. 2 * Bit(TRUE) + Bit(TRUE) \in Byte  BY DEF Byte, Bit
  <2>2. QED  BY <2>1, <1>1, <1>3, <1>4 DEF NewChannelAns
<1>11. QED  BY <1>6, <1>7, <1>8, <1>9, <1>10

LEMMA AnswerKeeps ==
  ASSUME AnswersInv, NEW c \in Command, Answer(c)
  PROVE  AnswersInv'
BY DEF Answer, AnswersInv

LEMMA AnswersStutter ==
  ASSUME AnswersInv, UNCHANGED queue
  PROVE  AnswersInv'
BY DEF AnswersInv

LEMMA CrashKeeps == ASSUME CmdInv, NEW w, Crash(w) PROVE CmdInv'
BY AnswersStutter DEF Crash, device, CmdInv, KeepsAChannel, Channels

-----------------------------------------------------------------------------
LEMMA CmdInitInv == CmdInit => CmdInv
<1> SUFFICES ASSUME CmdInit PROVE CmdInv
  OBVIOUS
<1>1. AnswersInv
  BY DEF CmdInit, AnswersInv
<1>2. 0 \in Channels
  BY CommandsAssumption DEF Channels
<1>3. link.enabled = Channels
  BY DEF CmdInit
<1>4. QED  BY <1>1, <1>2, <1>3 DEF CmdInv, KeepsAChannel

LEMMA CmdStep == CmdInv /\ [CmdNext]_cmdVars => CmdInv'
<1> SUFFICES ASSUME CmdInv, [CmdNext]_cmdVars PROVE CmdInv'
  OBVIOUS
<1>1. CASE AddMacCommand
  <2>1. AnswersInv'
    BY <1>1, AnswerTypes DEF AddMacCommand, AnswersInv, CmdInv
  <2>2. QED  BY <1>1, <2>1 DEF AddMacCommand, CmdInv, KeepsAChannel, Channels
<1>2. ASSUME NEW kind, NEW size, DoSend(kind, size) PROVE CmdInv'
  <2>1. KeepsAChannel'
    BY <1>2 DEF DoSend, CmdInv, KeepsAChannel, Channels
  <2>2. CASE TooBig(size)
    BY <1>2, <2>1, <2>2, AnswersStutter DEF DoSend, ListAfter, CmdInv
  <2>3. CASE ~ TooBig(size)
    <3>1. queue' = <<>>
      BY <1>2, <2>3 DEF DoSend, ListAfter
    <3>2. QED  BY <2>1, <3>1 DEF CmdInv, AnswersInv
  <2>4. QED  BY <2>2, <2>3
<1>3. CASE Retransmit
  BY <1>3, CrashKeeps, AnswersStutter DEF Retransmit, device, CmdInv, KeepsAChannel, Channels
<1>4. ASSUME NEW n, NEW reqs, ServerReceive(n, reqs) PROVE CmdInv'
  BY <1>4, CrashKeeps, AnswersStutter DEF ServerReceive, device, CmdInv, KeepsAChannel, Channels
<1>5. CASE NoDownlink
  BY <1>5, CrashKeeps, AnswersStutter DEF NoDownlink, device, CmdInv, KeepsAChannel, Channels
<1>6. ASSUME NEW second, Receive(second) PROVE CmdInv'
  BY <1>6, CrashKeeps, AnswersStutter DEF Receive, device, CmdInv, KeepsAChannel, Channels
<1>7. CASE OnLinkCheckAns
  BY <1>7, AnswersStutter DEF OnLinkCheckAns, CmdInv, KeepsAChannel, Channels
<1>8. CASE OnLinkAdrReq
  <2> DEFINE c      == Head(inbox)
             dr     == GetDataRate(c)
             power  == GetTxPower(c)
             mask   == GetEnabledChannelsList(c)
             maskOk == mask \subseteq 0 .. NumChannels
             ans    == LinkAdrAns(power < NumPowers, DataRateOk(dr, mask), maskOk)
  <2>1. CASE LinkAdrReqThrows(dr, power, mask)
    BY <1>8, <2>1, CrashKeeps DEF OnLinkAdrReq
  <2>2. CASE ~ LinkAdrReqThrows(dr, power, mask)
    <3>1. /\ Answer(ans)
          /\ link' = IF power < NumPowers /\ DataRateOk(dr, mask) /\ maskOk
                       THEN [dr |-> dr, power |-> power, enabled |-> mask \cap Channels]
                       ELSE link
      BY <1>8, <2>2 DEF OnLinkAdrReq
    <3>2. ans \in Command
      <4>1. /\ (power < NumPowers) \in BOOLEAN
            /\ DataRateOk(dr, mask) \in BOOLEAN
            /\ maskOk \in BOOLEAN
        BY DEF DataRateOk
      <4>2. QED  BY <4>1, AnswerTypes
    <3>3. AnswersInv'
      BY <3>1, <3>2, AnswerKeeps DEF CmdInv
    <3>4. DataRateOk(dr, mask) /\ maskOk => mask \cap Channels # {}
      BY DEF DataRateOk, Allowing
    <3>5. KeepsAChannel'
      <4>1. CASE power < NumPowers /\ DataRateOk(dr, mask) /\ maskOk
        <5>1. link'.enabled = mask \cap Channels
          BY <3>1, <4>1
        <5>2. QED  BY <5>1, <3>4, <4>1 DEF KeepsAChannel, Channels
      <4>2. CASE ~ (power < NumPowers /\ DataRateOk(dr, mask) /\ maskOk)
        <5>1. link' = link
          BY <3>1, <4>2
        <5>2. QED  BY <5>1 DEF CmdInv, KeepsAChannel, Channels
      <4>3. QED  BY <4>1, <4>2
    <3>6. QED  BY <3>3, <3>5 DEF CmdInv
  <2>3. QED  BY <2>1, <2>2
<1>9. CASE OnDutyCycleReq
  <2>1. CASE Head(inbox).arg[1] = 0
    BY <1>9, <2>1, CrashKeeps DEF OnDutyCycleReq
  <2>2. CASE Head(inbox).arg[1] # 0
    BY <1>9, <2>2, AnswerTypes, AnswerKeeps DEF OnDutyCycleReq, CmdInv, KeepsAChannel, Channels
  <2>3. QED  BY <2>1, <2>2
<1>10. CASE OnRxParamSetupReq
  <2> DEFINE offset == GetRx1DrOffset(Head(inbox))
             dr     == GetRx2DataRate(Head(inbox))
  <2>1. Answer(RxParamSetupAns(offset < NumOffsets, dr < NumDR)) /\ UNCHANGED link
    BY <1>10 DEF OnRxParamSetupReq
  <2>2. RxParamSetupAns(offset < NumOffsets, dr < NumDR) \in Command
    <3>1. (offset < NumOffsets) \in BOOLEAN /\ (dr < NumDR) \in BOOLEAN
      OBVIOUS
    <3>2. QED  BY <3>1, AnswerTypes
  <2>3. QED  BY <2>1, <2>2, AnswerKeeps DEF CmdInv, KeepsAChannel, Channels
<1>11. CASE OnDevStatusReq
  BY <1>11, AnswerTypes, AnswerKeeps DEF OnDevStatusReq, CmdInv, KeepsAChannel, Channels
<1>12. CASE OnNewChannelReq
  <2> DEFINE i == GetChannelIndex(Head(inbox))
  <2>1. CASE i \notin Channels
    BY <1>12, <2>1, CrashKeeps DEF OnNewChannelReq
  <2>2. CASE i \in Channels
    <3>1. Answer(NewChannelAns(TRUE, TRUE)) /\ link' = [link EXCEPT !.enabled = @ \cup {i}]
      BY <1>12, <2>2 DEF OnNewChannelReq
    <3>2. AnswersInv'
      BY <3>1, AnswerTypes, AnswerKeeps DEF CmdInv
    <3>3. link'.enabled = link.enabled \cup {i}
      BY <3>1
    <3>4. QED  BY <3>2, <3>3, <2>2 DEF CmdInv, KeepsAChannel, Channels
  <2>3. QED  BY <2>1, <2>2
<1>13. CASE OnOther
  BY <1>13, CrashKeeps, AnswersStutter DEF OnOther, device, CmdInv, KeepsAChannel, Channels
<1>14. CASE UNCHANGED cmdVars
  BY <1>14, AnswersStutter DEF cmdVars, device, CmdInv, KeepsAChannel, Channels
<1>15. QED
  BY <1>1, <1>2, <1>3, <1>4, <1>5, <1>6, <1>7, <1>8, <1>9, <1>10, <1>11, <1>12, <1>13, <1>14
     DEF CmdNext, ParseCommands

-----------------------------------------------------------------------------
(* OnLinkAdrReq and SetLogicalChannel leave a channel enabled, for every   *)
(* number of channels and set of requests.                                 *)
THEOREM ChannelIsKept == CmdSpec => []KeepsAChannel
<1>1. CmdInv => KeepsAChannel
  BY DEF CmdInv
<1>2. QED  BY <1>1, CmdInitInv, CmdStep, PTL DEF CmdSpec

-----------------------------------------------------------------------------
(* What is written is parsed.  FOptsLen, Options and Parse are recursive   *)
(* functions: each is shown to exist, and to have the values one expects,  *)
(* by induction over a set of numbers.                                     *)
LEMMA SetInduction ==
  ASSUME NEW T, 0 \in T, \A n \in Nat : n \in T => n + 1 \in T
  PROVE  \A n \in Nat : n \in T
<1> DEFINE R == {ss \in Nat \X Nat : ss[1] < ss[2]}
           D == Nat \ T
<1>1. IsWellFoundedOn(R, Nat)
  BY NatLessThanWellFounded, Zenon DEF OpToRel
<1>2. SUFFICES ASSUME D # {} PROVE FALSE
  OBVIOUS
<1>3. PICK x \in D : \A y \in D : ~ (<<y, x>> \in R)
  BY <1>1, <1>2, WFMin, Zenon
<1>4. x \in Nat /\ x # 0 /\ x - 1 \in Nat
  BY <1>3
<1>5. x - 1 \in D
  <2>1. (x - 1) + 1 = x
    BY <1>4
  <2> QED BY <1>3, <1>4, <2>1
<1>6. <<x - 1, x>> \in R
  BY <1>4
<1> QED BY <1>3, <1>5, <1>6

(* The prefixes of a sequence of sequences, joined.                        *)
Joined(q, f, m) == f[0] = <<>> /\ \A i \in 1 .. m : f[i] = f[i - 1] \o q[i]

LEMMA JoinedExists ==
  ASSUME NEW S, NEW q \in Seq(Seq(S)), NEW N \in Nat, N = Len(q)
  PROVE  \E f \in [0 .. N -> Seq(S)] : Joined(q, f, N)
<1> DEFINE Has(m) == \E f \in [0 .. m -> Seq(S)] : Joined(q, f, m)
           T == {m \in Nat : m <= N => Has(m)}
<1>1. Has(0)
  <2> DEFINE f == [i \in 0 .. 0 |-> <<>>]
  <2>1. f \in [0 .. 0 -> Seq(S)] /\ Joined(q, f, 0)
    BY DEF Joined
  <2> QED BY <2>1
<1>2. ASSUME NEW m \in Nat, m + 1 <= N, Has(m)
      PROVE  Has(m + 1)
  <2>1. PICK f \in [0 .. m -> Seq(S)] : Joined(q, f, m)
    BY <1>2
  <2>2. q[m + 1] \in Seq(S) /\ f[m] \in Seq(S)
    BY <1>2
  <2> DEFINE last == f[m] \o q[m + 1]
             g == [i \in 0 .. m + 1 |-> IF i = m + 1 THEN last ELSE f[i]]
  <2>3. last \in Seq(S)
    BY <2>2, ConcatProperties
  <2> HIDE DEF last
  <2>4. g \in [0 .. m + 1 -> Seq(S)]
    BY <1>2, <2>3
  <2>5. \A i \in 0 .. m : g[i] = f[i]
    BY <1>2
  <2>6. g[m + 1] = last
    BY <1>2
  <2> HIDE DEF g
  <2>7. g[0] = <<>>
    BY <2>1, <2>5 DEF Joined
  <2>8. ASSUME NEW i \in 1 .. m + 1
        PROVE  g[i] = g[i - 1] \o q[i]
    <3>1. CASE i = m + 1
      <4>1. i - 1 = m /\ g[m] = f[m]
        BY <2>5, <3>1
      <4> QED BY <2>6, <3>1, <4>1, Zenon DEF last
    <3>2. CASE i # m + 1
      <4>1. i \in 1 .. m /\ i \in 0 .. m /\ i - 1 \in 0 .. m
        BY <3>2
      <4>2. f[i] = f[i - 1] \o q[i]
        BY <2>1, <4>1 DEF Joined
      <4> QED BY <2>5, <4>1, <4>2
    <3> QED BY <3>1, <3>2
  <2>9. Joined(q, g, m + 1)
    BY <2>7, <2>8 DEF Joined
  <2> QED BY <2>4, <2>9
<1> HIDE DEF Has
<1>3. 0 \in T /\ \A m \in Nat : m \in T => m + 1 \in T
  BY <1>1, <1>2
<1> HIDE DEF T
<1>4. N \in T
  BY <1>3, SetInduction
<1> QED BY <1>4 DEF T, Has

(* c is a followed by b, position by position.                             *)
Splices(c, a, b) ==
  /\ Len(a) \in Nat /\ Len(b) \in Nat /\ Len(c) = Len(a) + Len(b)
  /\ \A p \in 1 .. Len(c) : c[p] = IF p <= Len(a) THEN a[p] ELSE b[p - Len(a)]

LEMMA ConcatIs ==
  ASSUME NEW S, NEW a \in Seq(S), NEW b \in Seq(S)
  PROVE  Splices(a \o b, a, b)
<1>1. /\ Len(a \o b) = Len(a) + Len(b)
      /\ \A p \in 1 .. Len(a) + Len(b) :
           (a \o b)[p] = IF p <= Len(a) THEN a[p] ELSE b[p - Len(a)]
  BY ConcatProperties
<1>2. Len(a) \in Nat /\ Len(b) \in Nat
  OBVIOUS
<1> QED BY <1>1, <1>2, Zenon DEF Splices

LEMMA JoinedLengths ==
  ASSUME NEW S, NEW q \in Seq(Seq(S)), NEW N \in Nat, N = Len(q),
         NEW f \in [0 .. N -> Seq(S)], Joined(q, f, N), NEW i \in 1 .. N
  PROVE  i - 1 \in 0 .. N /\ i \in 0 .. N /\ Splices(f[i], f[i - 1], q[i])
<1>1. i - 1 \in 0 .. N /\ i \in 0 .. N
  OBVIOUS
<1>2. f[i - 1] \in Seq(S) /\ q[i] \in Seq(S)
  <2> DEFINE Q == Seq(S)
  <2>1. q \in Seq(Q) /\ f \in [0 .. N -> Q]
    BY Zenon
  <2> HIDE DEF Q
  <2>2. f[i - 1] \in Q
    BY <1>1, <2>1
  <2>3. q[i] \in Q
    BY <2>1
  <2> QED BY <2>2, <2>3, Zenon DEF Q
<1>3. f[i] = f[i - 1] \o q[i]
  BY DEF Joined
<1>4. Splices(f[i - 1] \o q[i], f[i - 1], q[i])
  BY <1>2, ConcatIs
<1> QED BY <1>1, <1>3, <1>4, Zenon

(* What is once written stays.                                             *)
Extends(f, len, i, j) == len[i] <= len[j] /\ \A p \in 1 .. len[i] : f[j][p] = f[i][p]

LEMMA PrefixKept ==
  ASSUME NEW N \in Nat, NEW f, NEW len \in [0 .. N -> Nat],
         \A k \in 1 .. N : Extends(f, len, k - 1, k),
         NEW i \in 0 .. N, NEW j \in i .. N
  PROVE  Extends(f, len, i, j)
<1> DEFINE Kept(m) == len[i] <= len[i + m] /\ \A p \in 1 .. len[i] : f[i + m][p] = f[i][p]
           T == {m \in Nat : i + m <= N => Kept(m)}
<1>1. Kept(0)
  OBVIOUS
<1>2. ASSUME NEW m \in Nat, i + (m + 1) <= N, Kept(m)
      PROVE  Kept(m + 1)
  <2>1. PICK k \in 1 .. N : k - 1 = i + m /\ i + (m + 1) = k
    <3>1. i + m + 1 \in 1 .. N
      BY <1>2
    <3> QED BY <3>1
  <2>2. len[k - 1] <= len[k] /\ \A p \in 1 .. len[k - 1] : f[k][p] = f[k - 1][p]
    BY DEF Extends
  <2>3. len[i] \in Nat /\ len[k - 1] \in Nat /\ len[k] \in Nat
    BY <1>2, <2>1
  <2> QED BY <1>2, <2>1, <2>2, <2>3
<1> HIDE DEF Kept
<1>3. 0 \in T /\ \A m \in Nat : m \in T => m + 1 \in T
  BY <1>1, <1>2
<1> HIDE DEF T
<1>4. j - i \in Nat /\ i + (j - i) = j
  OBVIOUS
<1>5. j - i \in T
  BY <1>3, <1>4, SetInduction
<1> QED BY <1>4, <1>5 DEF T, Kept, Extends

LEMMA FlattenIs ==
  ASSUME NEW S, NEW q \in Seq(Seq(S)), NEW N \in Nat, N = Len(q),
         NEW f \in [0 .. N -> Seq(S)], Joined(q, f, N)
  PROVE  FlattenSeq(q) = f[N]
<1>1. CASE N = 0
  <2>1. q = <<>> /\ Len(q) = 0
    BY <1>1, EmptySeq
  <2> QED BY <1>1, <2>1 DEF FlattenSeq, Joined
<1>2. CASE N # 0
  <2> DEFINE Is(h) == h = [i \in 1 .. Len(q) |-> IF i = 1 THEN q[i] ELSE h[i - 1] \o q[i]]
             fl == CHOOSE h : Is(h)
             g == [i \in 1 .. N |-> f[i]]
  <2>1. FlattenSeq(q) = fl[N]
    BY <1>2 DEF FlattenSeq
  <2>2. f[1] = q[1]
    <3>1. 1 \in 1 .. N /\ q[1] \in Seq(S)
      BY <1>2
    <3>2. f[1] = f[1 - 1] \o q[1] /\ f[0] = <<>>
      BY <3>1, Zenon DEF Joined
    <3>3. 1 - 1 = 0
      OBVIOUS
    <3>4. <<>> \o q[1] = q[1]
      BY <3>1, ConcatEmptySeq
    <3> QED BY <3>2, <3>3, <3>4, Zenon
  <2>3. \A i \in 1 .. N : f[i] = IF i = 1 THEN q[i] ELSE g[i - 1] \o q[i]
    <3> SUFFICES ASSUME NEW i \in 1 .. N, i # 1 PROVE f[i] = g[i - 1] \o q[i]
      BY <2>2
    <3>1. g[i - 1] = f[i - 1]
      OBVIOUS
    <3> QED BY <3>1 DEF Joined
  <2>4. Is(g)
    BY <2>3
  <2>5. Is(fl)
    BY <2>4, Zenon
  <2> HIDE DEF fl, g
  <2>6. \A i \in 1 .. N : fl[i] = IF i = 1 THEN q[i] ELSE fl[i - 1] \o q[i]
    BY <2>5
  <2> DEFINE T == {m \in Nat : m + 1 <= N => fl[m + 1] = f[m + 1]}
  <2>7. 0 \in T
    BY <1>2, <2>2, <2>6
  <2>8. ASSUME NEW m \in Nat, m \in T PROVE m + 1 \in T
    <3> SUFFICES ASSUME (m + 1) + 1 <= N PROVE fl[(m + 1) + 1] = f[(m + 1) + 1]
      OBVIOUS
    <3>1. fl[m + 1] = f[m + 1]
      BY <2>8
    <3> DEFINE k == (m + 1) + 1
    <3>2. k \in 1 .. N /\ k # 1 /\ k - 1 = m + 1
      OBVIOUS
    <3> HIDE DEF k
    <3>3. fl[k] = fl[k - 1] \o q[k] /\ f[k] = f[k - 1] \o q[k]
      BY <2>6, <3>2 DEF Joined
    <3>4. fl[k] = f[k]
      BY <3>1, <3>2, <3>3
    <3> QED BY <3>4 DEF k
  <2> HIDE DEF T
  <2>9. N - 1 \in Nat /\ (N - 1) + 1 = N
    BY <1>2
  <2>10. N - 1 \in T
    BY <2>7, <2>8, <2>9, SetInduction
  <2>11. fl[N] = f[N]
    BY <2>9, <2>10 DEF T
  <2> QED BY <2>1, <2>11
<1> QED BY <1>1, <1>2

(* Joining from the front: the first sequence, then the others joined.     *)
Monoid(Q) ==
  /\ \A a \in Q : <<>> \o a = a /\ a \o <<>> = a
  /\ \A a, b, c \in Q : (a \o b) \o c = a \o (b \o c)
WithoutFirst(Q, N, q, f, g) ==
  /\ Monoid(Q) /\ N \in Nat
  /\ q \in [1 .. N + 1 -> Q] /\ g \in [0 .. N -> Q]
  /\ Joined(q, f, N + 1)
  /\ g[0] = <<>> /\ \A i \in 1 .. N : g[i] = g[i - 1] \o q[i + 1]

InFront(N, q, f, g) == f[N + 1] = q[1] \o g[N]

LEMMA JoinFront ==
  ASSUME NEW Q, NEW N, NEW q, NEW f, NEW g, WithoutFirst(Q, N, q, f, g)
  PROVE  InFront(N, q, f, g)
<1> USE DEF WithoutFirst, Monoid
<1> DEFINE T == {m \in Nat : m <= N => f[m + 1] = q[1] \o g[m]}
<1>1. 0 \in T
  <2>1. f[0] = <<>> /\ f[1] = f[0] \o q[1] /\ g[0] = <<>>
    <3>1. 1 \in 1 .. N + 1 /\ 1 - 1 = 0
      OBVIOUS
    <3> QED BY <3>1, Zenon DEF Joined
  <2>2. q[1] \in Q
    OBVIOUS
  <2>3. f[1] = q[1] \o g[0]
    BY <2>1, <2>2, Zenon
  <2>4. 0 + 1 = 1
    OBVIOUS
  <2> QED BY <2>3, <2>4
<1>2. ASSUME NEW m \in Nat, m \in T PROVE m + 1 \in T
  <2>0. m + 1 \in Nat
    BY <1>2
  <2> SUFFICES ASSUME m + 1 <= N PROVE f[(m + 1) + 1] = q[1] \o g[m + 1]
    BY <2>0, Zenon
  <2>1. /\ (m + 1) + 1 \in 1 .. N + 1 /\ ((m + 1) + 1) - 1 = m + 1
        /\ m + 1 \in 1 .. N /\ (m + 1) - 1 = m /\ m \in 0 .. N
    OBVIOUS
  <2>2. f[(m + 1) + 1] = f[m + 1] \o q[(m + 1) + 1]
    BY <2>1, Zenon DEF Joined
  <2>3. g[m + 1] = g[m] \o q[(m + 1) + 1]
    BY <2>1, Zenon
  <2>4. f[m + 1] = q[1] \o g[m]
    BY <1>2, <2>1
  <2>5. q[1] \in Q /\ g[m] \in Q /\ q[(m + 1) + 1] \in Q
    BY <2>1
  <2>6. (q[1] \o g[m]) \o q[(m + 1) + 1] = q[1] \o (g[m] \o q[(m + 1) + 1])
    BY <2>5, Zenon
  <2> QED BY <2>2, <2>3, <2>4, <2>6, Zenon
<1> HIDE DEF T
<1>3. N \in T
  BY <1>1, <1>2, SetInduction
<1> QED BY <1>3 DEF T, InFront

LEMMA ConcatLaws == ASSUME NEW A PROVE Monoid(Seq(A))
<1>1. \A a \in Seq(A) : <<>> \o a = a /\ a \o <<>> = a
  BY ConcatEmptySeq
<1>2. \A a, b, c \in Seq(A) : (a \o b) \o c = a \o (b \o c)
  BY ConcatAssociative
<1> QED BY <1>1, <1>2, Zenon DEF Monoid

LEMMA FlattenFirst ==
  ASSUME NEW S, NEW q \in Seq(Seq(S)), q # <<>>
  PROVE  FlattenSeq(Tail(q)) \in Seq(S) /\ FlattenSeq(q) = Head(q) \o FlattenSeq(Tail(q))
<1> DEFINE Q == Seq(S)
           r == Tail(q)
<1>1. ASSUME NEW A, NEW s \in Seq(A), s # <<>>
      PROVE  \E N, M \in Nat : /\ N = Len(Tail(s)) /\ M = N + 1 /\ M = Len(s)
                               /\ Tail(s) \in Seq(A) /\ Head(s) = s[1]
                               /\ s \in [1 .. M -> A] /\ Tail(s) \in [1 .. N -> A]
                               /\ \A i \in 1 .. N : Tail(s)[i] = s[i + 1]
  <2>1. Len(s) - 1 \in Nat /\ Len(s) \in Nat /\ Len(s) = (Len(s) - 1) + 1
    BY <1>1
  <2>2. /\ Tail(s) \in Seq(A) /\ Len(Tail(s)) = Len(s) - 1
        /\ \A i \in 1 .. Len(Tail(s)) : Tail(s)[i] = s[i + 1]
    BY <1>1, HeadTailProperties
  <2>3. Head(s) = s[1]
    BY <1>1
  <2>4. s \in [1 .. Len(s) -> A] /\ Tail(s) \in [1 .. Len(s) - 1 -> A]
    <3>1. \A t \in Seq(A) : t \in [1 .. Len(t) -> A]
      OBVIOUS
    <3>2. s \in Seq(A)
      OBVIOUS
    <3> QED BY <2>2, <3>1, <3>2, Zenon
  <2> QED BY <2>1, <2>2, <2>3, <2>4, Zenon
<1>2. PICK N, M \in Nat : /\ N = Len(r) /\ M = N + 1 /\ M = Len(q)
                          /\ r \in Seq(Q) /\ Head(q) = q[1]
                          /\ q \in [1 .. M -> Q] /\ r \in [1 .. N -> Q]
                          /\ \A i \in 1 .. N : r[i] = q[i + 1]
  BY <1>1, Zenon
<1>3. PICK f : f \in [0 .. M -> Q] /\ Joined(q, f, M)
  BY <1>2, JoinedExists, Zenon
<1>4. PICK g : g \in [0 .. N -> Q] /\ Joined(r, g, N)
  BY <1>2, JoinedExists, Zenon
<1>5. FlattenSeq(q) = f[M] /\ FlattenSeq(r) = g[N]
  <2>1. FlattenSeq(q) = f[M]
    BY <1>2, <1>3, FlattenIs, Zenon
  <2>2. FlattenSeq(r) = g[N]
    BY <1>2, <1>4, FlattenIs, Zenon
  <2> QED BY <2>1, <2>2, Zenon
<1>6. f[M] = q[1] \o g[N]
  <2>1. Monoid(Q)
    BY ConcatLaws, Zenon
  <2> HIDE DEF Q
  <2>2. WithoutFirst(Q, N, q, f, g)
    <3>1. g[0] = <<>> /\ \A i \in 1 .. N : g[i] = g[i - 1] \o q[i + 1]
      BY <1>2, <1>4, Zenon DEF Joined
    <3> QED BY <1>2, <1>3, <1>4, <2>1, <3>1, Zenon DEF WithoutFirst
  <2>3. InFront(N, q, f, g)
    BY <2>2, JoinFront, Zenon
  <2> QED BY <1>2, <2>3, Zenon DEF InFront
<1>7. g[N] \in Q
  <2>1. \A A : \A k \in Nat : \A h \in [0 .. k -> A] : h[k] \in A
    OBVIOUS
  <2> QED BY <1>4, <2>1, Zenon
<1> QED BY <1>2, <1>5, <1>6, <1>7, Zenon

(* The options of commands of the right size, and their length.            *)
Sized == {c \in Command : Len(c.arg) = Size[c.type] - 1}
Piece(c) == <<CID(c.type)>> \o c.arg
Pieces(cmds) == [i \in DOMAIN cmds |-> Piece(cmds[i])]

LEMMA Sizes == \A t \in Types : Size[t] \in 1 .. 6 /\ CID(t) \in 2 .. 8
<1> SUFFICES ASSUME NEW t \in Types PROVE Size[t] \in 1 .. 6 /\ CID(t) \in 2 .. 8
  OBVIOUS
<1>1. Size[t] \in 1 .. 6
  BY DEF Types, Size
<1>2. CID(t) \in 2 .. 8
  BY DEF CID
<1> QED BY <1>1, <1>2

LEMMA PieceIs ==
  ASSUME NEW c \in Sized
  PROVE  /\ c.type \in Types /\ Piece(c) \in Seq(Byte) /\ Len(Piece(c)) = Size[c.type]
         /\ Piece(c)[1] = CID(c.type)
         /\ \A k \in 1 .. Size[c.type] - 1 : Piece(c)[1 + k] = c.arg[k]
<1>1. PICK t \in Types, a \in Seq(Byte) : c = [type |-> t, arg |-> a]
  BY DEF Sized, Command
<1>2. c.type = t /\ c.arg = a /\ Len(a) = Size[t] - 1
  BY <1>1 DEF Sized
<1>3. Size[t] \in 1 .. 6 /\ CID(t) \in 2 .. 8
  BY Sizes
<1>4. PICK n \in 1 .. 6 : n = Size[t]
  BY <1>3
<1>5. CID(t) \in Byte
  BY <1>3 DEF Byte
<1> DEFINE id == <<CID(t)>>
<1>6. id \in Seq(Byte) /\ Len(id) = 1 /\ id[1] = CID(t)
  BY <1>5
<1> HIDE DEF id
<1>7. Splices(id \o a, id, a) /\ id \o a \in Seq(Byte)
  BY <1>6, ConcatIs, ConcatProperties
<1>8. Piece(c) = id \o a
  BY <1>2 DEF Piece, id
<1>9. /\ Len(id \o a) = n
      /\ \A p \in 1 .. n : (id \o a)[p] = IF p <= 1 THEN id[p] ELSE a[p - 1]
  BY <1>2, <1>4, <1>6, <1>7 DEF Splices
<1>10. /\ (id \o a)[1] = CID(t)
       /\ \A k \in 1 .. n - 1 : (id \o a)[1 + k] = a[k]
  <2>1. 1 \in 1 .. n
    BY <1>4
  <2>2. (id \o a)[1] = id[1]
    BY <1>9, <2>1
  <2>3. ASSUME NEW k \in 1 .. n - 1
        PROVE  (id \o a)[1 + k] = a[k]
    <3>1. 1 + k \in 1 .. n /\ ~ (1 + k <= 1) /\ (1 + k) - 1 = k
      BY <1>4
    <3> QED BY <1>9, <3>1
  <2> QED BY <1>6, <2>2, <2>3
<1> QED BY <1>2, <1>4, <1>7, <1>8, <1>9, <1>10, Zenon

LEMMA PiecesType ==
  ASSUME NEW cmds \in Seq(Sized)
  PROVE  /\ Len(cmds) \in Nat /\ DOMAIN cmds = 1 .. Len(cmds)
         /\ Pieces(cmds) \in Seq(Seq(Byte)) /\ Len(Pieces(cmds)) = Len(cmds)
         /\ \A i \in 1 .. Len(cmds) : cmds[i] \in Sized /\ Pieces(cmds)[i] = Piece(cmds[i])
<1>1. /\ Len(cmds) \in Nat /\ DOMAIN cmds = 1 .. Len(cmds)
      /\ \A i \in 1 .. Len(cmds) : cmds[i] \in Sized
  OBVIOUS
<1> DEFINE T == Seq(Byte)
           N == Len(cmds)
           q == [i \in 1 .. N |-> Piece(cmds[i])]
<1>2. Pieces(cmds) = q
  BY <1>1 DEF Pieces
<1>3. \A i \in 1 .. N : Piece(cmds[i]) \in T
  BY <1>1, PieceIs
<1> HIDE DEF T, N
<1>4. N \in Nat
  BY <1>1 DEF N
<1>5. q \in Seq(T) /\ Len(q) = N
  BY <1>3, <1>4
<1> QED BY <1>1, <1>2, <1>5 DEF T, N

LEMMA OptionsAre ==
  ASSUME NEW cmds \in Seq(Sized), NEW N \in Nat, N = Len(cmds),
         NEW f \in [0 .. N -> Seq(Byte)], Joined(Pieces(cmds), f, N)
  PROVE  Options(cmds) = f[N]
<1>1. Pieces(cmds) \in Seq(Seq(Byte)) /\ Len(Pieces(cmds)) = N
  BY PiecesType
<1>2. FlattenSeq(Pieces(cmds)) = f[N]
  BY <1>1, FlattenIs
<1>3. Options(cmds) = FlattenSeq(Pieces(cmds))
  BY Zenon DEF Options, Pieces, Piece
<1> QED BY <1>2, <1>3, Zenon

LEMMA SmallMod == (\A x \in 0 .. 255 : x % 256 = x) /\ (\A x \in 0 .. 15 : x % 16 = x)
OBVIOUS

LEMMA WrapsInByte == \A x \in Nat : x % 256 \in 0 .. 255 /\ x % 16 \in Nat
OBVIOUS

(* The length the header counts, command by command, in eight bits.        *)
CountsInByte(cmds, h, N) ==
  /\ h \in [0 .. N -> 0 .. 255] /\ h[0] = 0
  /\ \A i \in 1 .. N : h[i] = (h[i - 1] + Size[cmds[i].type]) % 256

LEMMA LengthUnfolds ==
  ASSUME NEW cmds \in Seq(Sized), NEW N \in Nat, N = Len(cmds)
  PROVE  \E h : CountsInByte(cmds, h, N) /\ FOptsLen(cmds) = h[N]
<1> DEFINE size == [i \in 1 .. N |-> Size[cmds[i].type]]
           Runs(h, m) == h[0] = 0 /\ \A i \in 1 .. m : h[i] = (h[i - 1] + size[i]) % 256
           Has(m) == \E h \in [0 .. m -> 0 .. 255] : Runs(h, m)
           T == {m \in Nat : m <= N => Has(m)}
<1>1. N \in Nat /\ \A i \in 1 .. N : size[i] \in Nat /\ size[i] = Size[cmds[i].type]
  <2>1. N \in Nat /\ \A i \in 1 .. N : cmds[i] \in Sized
    OBVIOUS
  <2>2. \A i \in 1 .. N : Size[cmds[i].type] \in Nat
    <3>1. \A x \in 1 .. 6 : x \in Nat
      OBVIOUS
    <3> QED BY <2>1, <3>1, PieceIs, Sizes, Zenon
  <2> QED BY <2>1, <2>2
<1> HIDE DEF size
<1>2. Has(0)
  <2> DEFINE h == [i \in 0 .. 0 |-> 0]
  <2>1. h \in [0 .. 0 -> 0 .. 255] /\ Runs(h, 0)
    OBVIOUS
  <2> QED BY <2>1
<1>3. ASSUME NEW m \in Nat, m + 1 <= N, Has(m)
      PROVE  Has(m + 1)
  <2>1. PICK h \in [0 .. m -> 0 .. 255] : Runs(h, m)
    BY <1>3
  <2> DEFINE last == (h[m] + size[m + 1]) % 256
             g == [i \in 0 .. m + 1 |-> IF i = m + 1 THEN last ELSE h[i]]
  <2>2. last \in 0 .. 255
    <3>1. h[m] \in Nat /\ size[m + 1] \in Nat
      <4>1. m \in 0 .. m /\ m + 1 \in 1 .. N /\ \A x \in 0 .. 255 : x \in Nat
        BY <1>3
      <4>2. h[m] \in 0 .. 255
        BY <4>1, Zenon
      <4> QED BY <1>1, <4>1, <4>2, Zenon
    <3>2. h[m] + size[m + 1] \in Nat
      BY <3>1
    <3> QED BY <3>2, WrapsInByte, Zenon
  <2>3. \A i \in 0 .. m : g[i] = h[i]
    BY <1>3
  <2>4. g[m + 1] = last
    BY <1>3
  <2>5. g \in [0 .. m + 1 -> 0 .. 255]
    <3> HIDE DEF last
    <3> QED BY <1>3, <2>2
  <2> HIDE DEF g
  <2>6. g[0] = 0
    BY <2>1, <2>3
  <2>7. ASSUME NEW i \in 1 .. m + 1
        PROVE  g[i] = (g[i - 1] + size[i]) % 256
    <3>1. CASE i = m + 1
      <4>1. i - 1 = m /\ g[m] = h[m]
        BY <2>3, <3>1
      <4> QED BY <2>4, <3>1, <4>1, Zenon
    <3>2. CASE i # m + 1
      <4>1. i \in 1 .. m /\ i \in 0 .. m /\ i - 1 \in 0 .. m
        BY <3>2
      <4>2. h[i] = (h[i - 1] + size[i]) % 256
        BY <2>1, <4>1, Zenon
      <4> QED BY <2>3, <4>1, <4>2, Zenon
    <3> QED BY <3>1, <3>2
  <2> QED BY <2>5, <2>6, <2>7, Zenon
<1> HIDE DEF Has
<1>4. 0 \in T /\ \A m \in Nat : m \in T => m + 1 \in T
  BY <1>1, <1>2, <1>3
<1> HIDE DEF T
<1>5. N \in T
  BY <1>1, <1>4, SetInduction
<1>6. PICK h \in [0 .. N -> 0 .. 255] : Runs(h, N)
  <2>1. Has(N)
    BY <1>1, <1>5 DEF T
  <2> QED BY <2>1, Zenon DEF Has
<1>7. CountsInByte(cmds, h, N)
  <2>1. ASSUME NEW i \in 1 .. N
        PROVE  h[i] = (h[i - 1] + Size[cmds[i].type]) % 256
    <3>1. h[i] = (h[i - 1] + size[i]) % 256 /\ size[i] = Size[cmds[i].type]
      BY <1>1, <1>6, Zenon
    <3> QED BY <3>1, Zenon
  <2> QED BY <1>6, <2>1, Zenon DEF CountsInByte
<1> DEFINE Is(f) == f = [i \in 0 .. N |->
                          IF i = 0 THEN 0 ELSE (f[i - 1] + Size[cmds[i].type]) % 256]
           total == CHOOSE f : Is(f)
<1>8. FOptsLen(cmds) = total[N]
  BY Zenon DEF FOptsLen
<1>9. Is(h)
  <2> DEFINE e(i) == IF i = 0 THEN 0 ELSE (h[i - 1] + Size[cmds[i].type]) % 256
  <2>1. \A i \in 0 .. N : i = 0 \/ i \in 1 .. N
    BY <1>1
  <2>2. \A i \in 0 .. N : h[i] = e(i)
    <3>1. h[0] = e(0)
      BY <1>7, Zenon DEF CountsInByte
    <3>2. \A i \in 1 .. N : i # 0
      BY <1>1
    <3>3. ASSUME NEW i \in 1 .. N PROVE h[i] = e(i)
      BY <1>7, <3>2, Zenon DEF CountsInByte
    <3> HIDE DEF e
    <3> QED BY <2>1, <3>1, <3>3, Zenon
  <2>3. h = [i \in 0 .. N |-> h[i]]
    OBVIOUS
  <2> HIDE DEF e
  <2>4. h = [i \in 0 .. N |-> e(i)]
    BY <2>2, <2>3
  <2> QED BY <2>4, Zenon DEF e
<1>10. Is(total)
  <2> HIDE DEF Is
  <2> QED BY <1>9, Zenon DEF total
<1> HIDE DEF total
<1>11. total = [i \in 0 .. N |-> IF i = 0 THEN 0 ELSE (total[i - 1] + Size[cmds[i].type]) % 256]
  BY <1>10, Zenon
<1>12. \A i \in 0 .. N :
         total[i] = IF i = 0 THEN 0 ELSE (total[i - 1] + Size[cmds[i].type]) % 256
  BY <1>11, Zenon
<1> HIDE DEF Is
<1> DEFINE S == {m \in Nat : m <= N => total[m] = h[m]}
<1>13. 0 \in S
  BY <1>1, <1>12, <1>7 DEF CountsInByte
<1>14. ASSUME NEW m \in Nat, m \in S PROVE m + 1 \in S
  <2> SUFFICES ASSUME m + 1 <= N PROVE total[m + 1] = h[m + 1]
    OBVIOUS
  <2>1. PICK k \in 1 .. N : k = m + 1 /\ k # 0 /\ k - 1 = m /\ k \in 0 .. N
    BY <1>1
  <2>2. total[k - 1] = h[k - 1]
    BY <1>1, <1>14, <2>1
  <2>3. total[k] = (total[k - 1] + Size[cmds[k].type]) % 256
    BY <1>12, <2>1, Zenon
  <2>4. h[k] = (h[k - 1] + Size[cmds[k].type]) % 256
    BY <1>7, Zenon DEF CountsInByte
  <2> QED BY <2>1, <2>2, <2>3, <2>4, Zenon
<1> HIDE DEF S
<1>15. N \in S
  BY <1>1, <1>13, <1>14, SetInduction
<1>16. total[N] = h[N]
  BY <1>1, <1>15 DEF S
<1> QED BY <1>8, <1>7, <1>16, Zenon

(* Below 256 bytes, the length the header counts is that of the options.   *)
Counts(cmds, len, N) ==
  len[0] = 0 /\ \A i \in 1 .. N : len[i] = len[i - 1] + Size[cmds[i].type]

LEMMA LengthIs ==
  ASSUME NEW cmds \in Seq(Sized), NEW N \in Nat, N = Len(cmds),
         NEW len \in [0 .. N -> 0 .. 255], Counts(cmds, len, N)
  PROVE  FOptsLen(cmds) = len[N]
<1>1. PICK h : CountsInByte(cmds, h, N) /\ FOptsLen(cmds) = h[N]
  BY LengthUnfolds
<1> DEFINE T == {m \in Nat : m <= N => h[m] = len[m]}
<1>2. 0 \in T
  BY <1>1 DEF Counts, CountsInByte
<1>3. ASSUME NEW m \in Nat, m \in T PROVE m + 1 \in T
  <2> SUFFICES ASSUME m + 1 <= N PROVE h[m + 1] = len[m + 1]
    OBVIOUS
  <2>1. PICK k \in 1 .. N : k = m + 1 /\ k - 1 = m /\ k \in 0 .. N
    OBVIOUS
  <2> DEFINE x == len[k - 1] + Size[cmds[k].type]
  <2>2. h[k - 1] = len[k - 1]
    BY <1>3, <2>1
  <2>3. h[k] = x % 256
    <3>1. h[k] = (h[k - 1] + Size[cmds[k].type]) % 256
      BY <1>1, Zenon DEF CountsInByte
    <3> QED BY <2>2, <3>1, Zenon
  <2>4. x = len[k] /\ len[k] \in 0 .. 255
    BY <2>1, Zenon DEF Counts
  <2> HIDE DEF x
  <2>5. x % 256 = x
    <3>1. x \in 0 .. 255
      BY <2>4, Zenon
    <3> QED BY <3>1, SmallMod, Zenon
  <2> QED BY <2>1, <2>3, <2>4, <2>5, Zenon
<1> HIDE DEF T
<1>4. N \in T
  BY <1>2, <1>3, SetInduction
<1> QED BY <1>1, <1>4 DEF T

(* A function that refers only to later arguments exists.                  *)
Follows(f, M, next, base, head) ==
  f = [n \in 0 .. M |-> IF next[n] = 0 THEN base[n] ELSE head[n] \o f[next[n]]]

LEMMA Recursion ==
  ASSUME NEW M \in Nat, NEW next, \A n \in 0 .. M : next[n] = 0 \/ next[n] \in n + 1 .. M,
         NEW base, NEW head
  PROVE  \E f : Follows(f, M, next, base, head)
<1> DEFINE E(f, n) == IF next[n] = 0 THEN base[n] ELSE head[n] \o f[next[n]]
           Has(k) == \E f : \A n \in 0 .. M : n + k >= M => f[n] = E(f, n)
           T == {k \in Nat : k <= M => Has(k)}
<1>1. ASSUME NEW f, NEW g, NEW n, f[next[n]] = g[next[n]]
      PROVE  E(f, n) = E(g, n)
  BY <1>1, Zenon
<1>2. \A f, n : next[n] = 0 => E(f, n) = base[n]
  BY Zenon
<1> HIDE DEF E
<1>3. Has(0)
  <2> DEFINE f == [n \in 0 .. M |-> base[n]]
  <2>1. ASSUME NEW n \in 0 .. M, n + 0 >= M
        PROVE  f[n] = E(f, n)
    <3>1. next[n] = 0
      BY <2>1
    <3>2. E(f, n) = base[n]
      BY <1>2, <3>1
    <3> QED BY <3>2
  <2> QED BY <2>1
<1>4. ASSUME NEW k \in Nat, k + 1 <= M, Has(k)
      PROVE  Has(k + 1)
  <2>1. PICK f : \A n \in 0 .. M : n + k >= M => f[n] = E(f, n)
    BY <1>4
  <2> DEFINE g == [n \in 0 .. M |-> IF n + k >= M THEN f[n] ELSE E(f, n)]
  <2>2. \A n \in 0 .. M : g[n] = IF n + k >= M THEN f[n] ELSE E(f, n)
    OBVIOUS
  <2> HIDE DEF g
  <2>3. ASSUME NEW n \in 0 .. M, n + (k + 1) >= M
        PROVE  g[n] = E(g, n)
    <3>1. g[n] = E(f, n)
      BY <2>1, <2>2
    <3>2. CASE next[n] = 0
      BY <1>2, <3>1, <3>2
    <3>3. CASE next[n] # 0
      <4>1. next[n] \in n + 1 .. M
        BY <3>3
      <4>2. next[n] \in 0 .. M /\ next[n] + k >= M
        BY <1>4, <2>3, <4>1
      <4>3. f[next[n]] = g[next[n]]
        BY <2>2, <4>2
      <4> QED BY <1>1, <3>1, <4>3
    <3> QED BY <3>2, <3>3
  <2> QED BY <2>3
<1> HIDE DEF Has
<1>5. 0 \in T /\ \A k \in Nat : k \in T => k + 1 \in T
  BY <1>3, <1>4
<1> HIDE DEF T
<1>6. M \in T
  BY <1>5, SetInduction
<1>7. PICK f : \A n \in 0 .. M : f[n] = E(f, n)
  BY <1>6 DEF T, Has
<1> DEFINE g == [n \in 0 .. M |-> f[n]]
<1>8. \A n \in 0 .. M : g[n] = E(g, n)
  <2> SUFFICES ASSUME NEW n \in 0 .. M PROVE g[n] = E(g, n)
    OBVIOUS
  <2>1. CASE next[n] = 0
    BY <1>2, <1>7, <2>1
  <2>2. CASE next[n] # 0
    <3>1. next[n] \in 0 .. M
      BY <2>2
    <3>2. f[next[n]] = g[next[n]]
      BY <3>1
    <3>3. E(f, n) = E(g, n)
      BY <1>1, <3>2
    <3> QED BY <1>7, <3>3
  <2> QED BY <2>1, <2>2
<1>9. g = [n \in 0 .. M |-> E(g, n)]
  <2>1. g = [n \in 0 .. M |-> g[n]]
    OBVIOUS
  <2> HIDE DEF g
  <2> QED BY <1>8, <2>1
<1> HIDE DEF g
<1> QED BY <1>9, Zenon DEF E, Follows

(* What Parse reads at a position: the byte, and the command that starts   *)
(* there.                                                                  *)
ByteAt(cmds, i) ==
  IF i <= Len(Options(cmds) \o <<1>>) THEN (Options(cmds) \o <<1>>)[i] ELSE 0
TypeAt(cmds, u, n) == TypeOf(u)[ByteAt(cmds, n + 1)]
CommandAt(cmds, u, n) ==
  [type |-> TypeAt(cmds, u, n),
   arg |-> [k \in 1 .. Size[TypeAt(cmds, u, n)] - 1 |-> ByteAt(cmds, n + 1 + k)]]
Known(cmds, u, n) == ByteAt(cmds, n + 1) \in 2 .. Len(TypeOf(u))

LEMMA KnownTypes ==
  ASSUME NEW u \in BOOLEAN, NEW x \in 2 .. Len(TypeOf(u))
  PROVE  TypeOf(u)[x] \in Types
<1>1. CASE u
  <2>1. TypeOf(u) = UplinkType /\ Len(UplinkType) = 10
    BY <1>1 DEF TypeOf, UplinkType
  <2>2. \A y \in 2 .. 10 : UplinkType[y] \in Types
    <3>1. {"LINK_CHECK_REQ", "LINK_ADR_ANS", "DUTY_CYCLE_ANS", "RX_PARAM_SETUP_ANS",
           "DEV_STATUS_ANS", "NEW_CHANNEL_ANS", "RX_TIMING_SETUP_ANS",
           "TX_PARAM_SETUP_ANS", "DL_CHANNEL_ANS"} \subseteq Types
      BY DEF Types, Size
    <3> DEFINE with(e) == <<e, "LINK_CHECK_REQ", "LINK_ADR_ANS", "DUTY_CYCLE_ANS",
                          "RX_PARAM_SETUP_ANS", "DEV_STATUS_ANS", "NEW_CHANNEL_ANS",
                          "RX_TIMING_SETUP_ANS", "TX_PARAM_SETUP_ANS", "DL_CHANNEL_ANS">>
    <3>2. ASSUME NEW e, NEW y \in 2 .. 10
          PROVE  with(e)[y] \in
            {"LINK_CHECK_REQ", "LINK_ADR_ANS", "DUTY_CYCLE_ANS", "RX_PARAM_SETUP_ANS",
             "DEV_STATUS_ANS", "NEW_CHANNEL_ANS", "RX_TIMING_SETUP_ANS",
             "TX_PARAM_SETUP_ANS", "DL_CHANNEL_ANS"}
      OBVIOUS
    <3>3. UplinkType = with("")
      BY Zenon DEF UplinkType
    <3> QED BY <3>1, <3>2, <3>3, Zenon
  <2>3. x \in 2 .. 10
    BY <2>1, Zenon
  <2> QED BY <2>1, <2>2, <2>3, Zenon
<1>2. CASE ~ u
  <2>1. TypeOf(u) = DownlinkType /\ Len(DownlinkType) = 9
    BY <1>2 DEF TypeOf, DownlinkType
  <2>2. \A y \in 2 .. 9 : DownlinkType[y] \in Types
    <3>1. {"LINK_CHECK_ANS", "LINK_ADR_REQ", "DUTY_CYCLE_REQ", "RX_PARAM_SETUP_REQ",
           "DEV_STATUS_REQ", "NEW_CHANNEL_REQ", "RX_TIMING_SETUP_REQ",
           "TX_PARAM_SETUP_REQ"} \subseteq Types
      BY DEF Types, Size
    <3> DEFINE with(e) == <<e, "LINK_CHECK_ANS", "LINK_ADR_REQ", "DUTY_CYCLE_REQ",
                          "RX_PARAM_SETUP_REQ", "DEV_STATUS_REQ", "NEW_CHANNEL_REQ",
                          "RX_TIMING_SETUP_REQ", "TX_PARAM_SETUP_REQ">>
    <3>2. ASSUME NEW e, NEW y \in 2 .. 9
          PROVE  with(e)[y] \in
            {"LINK_CHECK_ANS", "LINK_ADR_REQ", "DUTY_CYCLE_REQ", "RX_PARAM_SETUP_REQ",
             "DEV_STATUS_REQ", "NEW_CHANNEL_REQ", "RX_TIMING_SETUP_REQ", "TX_PARAM_SETUP_REQ"}
      OBVIOUS
    <3>3. DownlinkType = with("")
      BY Zenon DEF DownlinkType
    <3> QED BY <3>1, <3>2, <3>3, Zenon
  <2>3. x \in 2 .. 9
    BY <2>1, Zenon
  <2> QED BY <2>1, <2>2, <2>3, Zenon
<1> QED BY <1>1, <1>2

LEMMA ParseUnfolds ==
  ASSUME NEW cmds, NEW u \in BOOLEAN, NEW L \in Nat, L = FOptsLen(cmds) % 16
  PROVE  \E from :
           /\ Parse(cmds, u) = from[0]
           /\ \A n \in 0 .. L + 6 :
                from[n] = IF n >= L THEN <<>>
                          ELSE IF ~ Known(cmds, u, n) THEN <<Hang>>
                          ELSE <<CommandAt(cmds, u, n)>> \o from[n + Size[TypeAt(cmds, u, n)]]
<1> DEFINE Stops(n) == n >= L \/ ~ Known(cmds, u, n)
           Eq(f, n) == IF n >= L THEN <<>>
                       ELSE IF ~ Known(cmds, u, n) THEN <<Hang>>
                       ELSE <<CommandAt(cmds, u, n)>> \o f[n + Size[TypeAt(cmds, u, n)]]
           Is(f) == f = [n \in 0 .. L + 6 |-> Eq(f, n)]
           from == CHOOSE f : Is(f)
<1>1. Parse(cmds, u) = from[0]
  BY Zenon DEF Parse, Advance, ByteAt, TypeAt, CommandAt, Known
<1>2. \E f : Is(f)
  <2> DEFINE M == L + 6
             next == [n \in 0 .. M |-> IF Stops(n) THEN 0 ELSE n + Size[TypeAt(cmds, u, n)]]
             base == [n \in 0 .. M |-> IF n >= L THEN <<>> ELSE <<Hang>>]
             head == [n \in 0 .. M |-> <<CommandAt(cmds, u, n)>>]
             R(f, n) == IF next[n] = 0 THEN base[n] ELSE head[n] \o f[next[n]]
  <2>1. \A n \in 0 .. M : ~ Stops(n) => Size[TypeAt(cmds, u, n)] \in 1 .. 6
    BY KnownTypes, Sizes, Zenon DEF Known, TypeAt
  <2>2. \A n \in 0 .. M : next[n] = 0 \/ next[n] \in n + 1 .. M
    <3> SUFFICES ASSUME NEW n \in 0 .. M, ~ Stops(n) PROVE next[n] \in n + 1 .. M
      OBVIOUS
    <3>1. PICK z \in 1 .. 6 : z = Size[TypeAt(cmds, u, n)]
      BY <2>1
    <3>2. next[n] = n + z
      BY <3>1
    <3>3. ~ (n >= L)
      OBVIOUS
    <3> HIDE DEF next, Stops
    <3> QED BY <3>2, <3>3
  <2>3. M \in Nat
    OBVIOUS
  <2>4. ASSUME NEW f, NEW n \in 0 .. M
        PROVE  R(f, n) = Eq(f, n)
    <3>1. CASE n >= L
      <4>1. next[n] = 0 /\ base[n] = <<>>
        BY <3>1
      <4> HIDE DEF next, base, head
      <4> QED BY <3>1, <4>1, Zenon
    <3>2. CASE ~ (n >= L) /\ ~ Known(cmds, u, n)
      <4>1. next[n] = 0 /\ base[n] = <<Hang>>
        BY <3>2
      <4> HIDE DEF next, base, head
      <4> QED BY <3>2, <4>1, Zenon
    <3>3. CASE ~ Stops(n)
      <4>1. PICK z \in 1 .. 6 : z = Size[TypeAt(cmds, u, n)]
        BY <2>1, <3>3
      <4>2. next[n] = n + z
        BY <3>3, <4>1
      <4>3. n + z # 0
        OBVIOUS
      <4>4. head[n] = <<CommandAt(cmds, u, n)>>
        OBVIOUS
      <4> HIDE DEF next, base, head
      <4> QED BY <3>3, <4>1, <4>2, <4>3, <4>4, Zenon
    <3> QED BY <3>1, <3>2, <3>3, Zenon
  <2> HIDE DEF M, next, base, head, Eq
  <2>5. \E f : Follows(f, M, next, base, head)
    BY <2>2, <2>3, Recursion, Zenon
  <2> HIDE DEF R
  <2>6. PICK f : f = [n \in 0 .. M |-> R(f, n)]
    BY <2>5, Zenon DEF R, Follows
  <2>7. \A n \in 0 .. M : R(f, n) = Eq(f, n)
    BY <2>4, Zenon
  <2> DEFINE r(n) == R(f, n)
             e(n) == Eq(f, n)
  <2>8. f = [n \in 0 .. M |-> r(n)] /\ \A n \in 0 .. M : r(n) = e(n)
    BY <2>6, <2>7, Zenon
  <2> HIDE DEF r, e
  <2>9. f = [n \in 0 .. M |-> e(n)]
    BY <2>8
  <2> QED BY <2>9, Zenon DEF M, e
<1>3. Is(from)
  BY <1>2, Zenon
<1> HIDE DEF from, Eq
<1>4. \A n \in 0 .. L + 6 : from[n] = Eq(from, n)
  BY <1>3, Zenon
<1> QED BY <1>1, <1>4, Zenon DEF Eq

(* Commands put in front of each other one after the other, from the last. *)
LEMMA PutInFront ==
  ASSUME NEW S, NEW cmds \in Seq(S), NEW N \in Nat, N = Len(cmds), NEW g, g[N] = <<>>,
         \A i \in 1 .. N : g[i - 1] = <<cmds[i]>> \o g[i]
  PROVE  g[0] = cmds
<1> DEFINE Done(m) == /\ g[N - m] \in Seq(S) /\ Len(g[N - m]) = m
                      /\ \A p \in 1 .. m : g[N - m][p] = cmds[N - m + p]
           T == {m \in Nat : m <= N => Done(m)}
<1>1. Done(0)
  <2>1. N - 0 = N
    OBVIOUS
  <2>2. <<>> \in Seq(S) /\ Len(<<>>) = 0
    OBVIOUS
  <2>3. 1 .. 0 = {}
    OBVIOUS
  <2> QED BY <2>1, <2>2, <2>3, Zenon
<1>2. ASSUME NEW m \in Nat, m + 1 <= N, Done(m)
      PROVE  Done(m + 1)
  <2>1. PICK i \in 1 .. N : i = N - m /\ i - 1 = N - (m + 1)
    <3>1. N - m \in 1 .. N /\ (N - m) - 1 = N - (m + 1)
      BY <1>2
    <3> QED BY <3>1
  <2> DEFINE one == <<cmds[i]>>
             rest == g[i]
             all == g[i - 1]
  <2>2. cmds[i] \in S
    OBVIOUS
  <2>3. one \in Seq(S) /\ Len(one) = 1 /\ one[1] = cmds[i]
    BY <2>2
  <2>4. rest \in Seq(S) /\ Len(rest) = m /\ \A p \in 1 .. m : rest[p] = cmds[i + p]
    BY <1>2, <2>1
  <2>5. all = one \o rest
    OBVIOUS
  <2> HIDE DEF one, rest, all
  <2>6. all \in Seq(S) /\ Splices(all, one, rest)
    BY <2>3, <2>4, <2>5, ConcatIs, ConcatProperties
  <2>7. Len(all) = m + 1
    BY <1>2, <2>3, <2>4, <2>6 DEF Splices
  <2>8. ASSUME NEW p \in 1 .. m + 1
        PROVE  all[p] = cmds[(i - 1) + p]
    <3>1. all[p] = IF p <= 1 THEN one[p] ELSE rest[p - 1]
      BY <2>3, <2>6, <2>7 DEF Splices
    <3>2. CASE p = 1
      <4>1. (i - 1) + p = i
        BY <3>2
      <4> QED BY <2>3, <3>1, <3>2, <4>1
    <3>3. CASE p # 1
      <4>1. ~ (p <= 1) /\ p - 1 \in 1 .. m /\ i + (p - 1) = (i - 1) + p
        BY <3>3
      <4> QED BY <2>4, <3>1, <4>1
    <3> QED BY <3>2, <3>3
  <2>9. g[N - (m + 1)] = all /\ N - (m + 1) = i - 1
    BY <2>1, Zenon DEF all
  <2> QED BY <2>6, <2>7, <2>8, <2>9
<1> HIDE DEF Done
<1>3. 0 \in T /\ \A m \in Nat : m \in T => m + 1 \in T
  BY <1>1, <1>2
<1> HIDE DEF T
<1>4. N \in T
  BY <1>3, SetInduction
<1>5. Done(N)
  BY <1>4 DEF T
<1>6. N - N = 0 /\ \A p \in 1 .. N : 0 + p = p
  OBVIOUS
<1>7. g[0] \in Seq(S) /\ Len(g[0]) = N
  BY <1>5, <1>6, Zenon DEF Done
<1>8. \A p \in 1 .. N : g[0][p] = cmds[p]
  BY <1>5, <1>6, Zenon DEF Done
<1> QED BY <1>7, <1>8

(* The commands a parser of the direction knows.                           *)
Written(u) ==
  {c \in Sized : CID(c.type) \in 2 .. Len(TypeOf(u)) /\ TypeOf(u)[CID(c.type)] = c.type}

(* The bytes of a command lie where the ones before it end.                *)
LEMMA BytesOf ==
  ASSUME NEW cmds \in Seq(Sized), NEW N \in Nat, N = Len(cmds),
         NEW f \in [0 .. N -> Seq(Byte)], Joined(Pieces(cmds), f, N)
  PROVE  /\ \A i \in 0 .. N : Len(f[i]) \in Nat /\ Len(f[i]) <= Len(f[N])
         /\ Len(f[0]) = 0
         /\ \A i \in 1 .. N :
              /\ Len(f[i]) = Len(f[i - 1]) + Size[cmds[i].type]
              /\ \A k \in 1 .. Size[cmds[i].type] :
                   ByteAt(cmds, Len(f[i - 1]) + k) = Piece(cmds[i])[k]
<1> DEFINE q == Pieces(cmds)
           len == [i \in 0 .. N |-> Len(f[i])]
<1>1. q \in Seq(Seq(Byte)) /\ Len(q) = N
  BY PiecesType
<1>2. ASSUME NEW i \in 1 .. N
      PROVE  /\ i - 1 \in 0 .. N /\ i \in 0 .. N /\ Splices(f[i], f[i - 1], q[i])
             /\ cmds[i] \in Sized /\ q[i] = Piece(cmds[i])
  BY <1>1, JoinedLengths, PiecesType
<1>3. ASSUME NEW i \in 1 .. N
      PROVE  Len(q[i]) = Size[cmds[i].type] /\ Size[cmds[i].type] \in 1 .. 6
  BY <1>2, PieceIs, Sizes
<1>4. \A i \in 0 .. N : Len(f[i]) \in Nat
  OBVIOUS
<1>5. len \in [0 .. N -> Nat] /\ \A i \in 0 .. N : len[i] = Len(f[i])
  BY <1>4
<1> HIDE DEF q, len
<1>6. ASSUME NEW i \in 1 .. N
      PROVE  /\ len[i] = len[i - 1] + Size[cmds[i].type]
             /\ \A p \in 1 .. len[i] :
                  f[i][p] = IF p <= len[i - 1] THEN f[i - 1][p] ELSE q[i][p - len[i - 1]]
  <2>1. Splices(f[i], f[i - 1], q[i]) /\ len[i] = Len(f[i]) /\ len[i - 1] = Len(f[i - 1])
    BY <1>2, <1>5, Zenon
  <2> QED BY <1>3, <2>1, Zenon DEF Splices
<1>7. ASSUME NEW i \in 1 .. N
      PROVE  /\ len[i - 1] <= len[i]
             /\ \A p \in 1 .. len[i - 1] : f[i][p] = f[i - 1][p]
  <2>1. PICK a \in Nat, b \in Nat, s \in 1 .. 6 :
          a = len[i - 1] /\ b = len[i] /\ s = Size[cmds[i].type]
    BY <1>2, <1>3, <1>5
  <2>2. b = a + s
    BY <1>6, <2>1
  <2>3. a <= b /\ \A p \in 1 .. a : p \in 1 .. b /\ p <= a
    BY <2>2
  <2> QED BY <1>6, <2>1, <2>3, Zenon
<1>8. ASSUME NEW i \in 0 .. N, NEW j \in i .. N
      PROVE  len[i] <= len[j] /\ \A p \in 1 .. len[i] : f[j][p] = f[i][p]
  <2>1. len \in [0 .. N -> Nat]
    BY <1>5, Zenon
  <2>2. \A k \in 1 .. N : Extends(f, len, k - 1, k)
    BY <1>7, Zenon DEF Extends
  <2>3. Extends(f, len, i, j)
    BY <2>1, <2>2, PrefixKept
  <2> QED BY <2>3, Zenon DEF Extends
<1>9. \A i \in 0 .. N : len[i] <= len[N]
  BY <1>8
<1>10. len[0] = 0
  BY <1>5 DEF Joined
<1>11. ASSUME NEW i \in 1 .. N, NEW k \in 1 .. Size[cmds[i].type]
       PROVE  ByteAt(cmds, len[i - 1] + k) = q[i][k]
  <2>1. PICK a \in Nat, b \in Nat, c \in Nat, s \in 1 .. 6 :
          a = len[i - 1] /\ b = len[i] /\ c = len[N] /\ s = Size[cmds[i].type]
    <3>1. 0 \in 0 .. N /\ N \in 0 .. N
      OBVIOUS
    <3> QED BY <1>2, <1>3, <1>5, <3>1
  <2>2. b = a + s /\ b <= c
    BY <1>2, <1>6, <1>9, <2>1
  <2>3. a + k \in 1 .. b /\ a + k \in 1 .. c /\ ~ (a + k <= a) /\ (a + k) - a = k
    <3>1. k \in 1 .. s
      BY <2>1, Zenon
    <3>2. PICK m \in 1 .. s : m = k
      BY <3>1
    <3>3. a + m \in 1 .. b /\ a + m \in 1 .. c /\ ~ (a + m <= a) /\ (a + m) - a = m
      BY <2>2
    <3> QED BY <3>2, <3>3, Zenon
  <2>4. f[i][a + k] = q[i][k]
    BY <1>6, <2>1, <2>3, Zenon
  <2>5. f[N][a + k] = f[i][a + k]
    <3>1. i \in 0 .. N /\ N \in i .. N
      OBVIOUS
    <3> QED BY <1>8, <2>1, <2>3, <3>1
  <2>6. ByteAt(cmds, a + k) = f[N][a + k]
    <3> DEFINE one == <<1>>
    <3>1. one \in Seq(Byte) /\ Len(one) = 1
      BY DEF Byte
    <3> HIDE DEF one
    <3>2. Options(cmds) = f[N] /\ f[N] \in Seq(Byte) /\ Len(f[N]) = c
      <4>1. N \in 0 .. N
        OBVIOUS
      <4>2. f[N] \in Seq(Byte) /\ Len(f[N]) = c
        BY <1>5, <2>1, <4>1, Zenon
      <4> QED BY <4>2, OptionsAre
    <3>3. Splices(f[N] \o one, f[N], one)
      BY <3>1, <3>2, ConcatIs
    <3>4. a + k <= c /\ a + k <= c + 1 /\ a + k \in 1 .. c + 1
      BY <2>3
    <3>5. Len(f[N] \o one) = c + 1 /\ (f[N] \o one)[a + k] = f[N][a + k]
      BY <3>1, <3>2, <3>3, <3>4 DEF Splices
    <3> QED BY <3>2, <3>4, <3>5, Zenon DEF ByteAt, one
  <2> QED BY <2>1, <2>4, <2>5, <2>6, Zenon
<1>12. \A i \in 0 .. N : Len(f[i]) \in Nat /\ Len(f[i]) <= Len(f[N])
  <2>1. N \in 0 .. N
    OBVIOUS
  <2> QED BY <1>4, <1>5, <1>9, <2>1, Zenon
<1>13. 0 \in 0 .. N
  OBVIOUS
<1>14. ASSUME NEW i \in 1 .. N
       PROVE  /\ Len(f[i]) = Len(f[i - 1]) + Size[cmds[i].type]
              /\ \A k \in 1 .. Size[cmds[i].type] :
                   ByteAt(cmds, Len(f[i - 1]) + k) = Piece(cmds[i])[k]
  <2>1. len[i] = Len(f[i]) /\ len[i - 1] = Len(f[i - 1]) /\ q[i] = Piece(cmds[i])
    BY <1>2, <1>5, Zenon
  <2>2. Len(f[i]) = Len(f[i - 1]) + Size[cmds[i].type]
    BY <1>6, <2>1, Zenon
  <2>3. ASSUME NEW k \in 1 .. Size[cmds[i].type]
        PROVE  ByteAt(cmds, Len(f[i - 1]) + k) = Piece(cmds[i])[k]
    <3>1. ByteAt(cmds, len[i - 1] + k) = q[i][k]
      BY <1>11
    <3> QED BY <2>1, <3>1, Zenon
  <2> QED BY <2>2, <2>3, Zenon
<1> QED BY <1>5, <1>10, <1>12, <1>13, <1>14, Zenon

(* The command that starts where a known one was written is that one.      *)
LEMMA ReadsCommand ==
  ASSUME NEW cmds, NEW u \in BOOLEAN, NEW c \in Written(u), NEW n \in Nat,
         \A k \in 1 .. Size[c.type] : ByteAt(cmds, n + k) = Piece(c)[k]
  PROVE  Known(cmds, u, n) /\ TypeAt(cmds, u, n) = c.type /\ CommandAt(cmds, u, n) = c
<1>1. PICK t \in Types, a \in Seq(Byte) : c = [type |-> t, arg |-> a]
  BY DEF Written, Sized, Command
<1>2. c.type = t /\ c.arg = a /\ Len(a) = Size[t] - 1 /\ c \in Sized
  BY <1>1 DEF Written, Sized
<1>3. PICK s \in 1 .. 6 : s = Size[t]
  BY Sizes
<1>4. /\ Piece(c)[1] = CID(t) /\ \A k \in 1 .. s - 1 : Piece(c)[1 + k] = a[k]
  BY <1>2, <1>3, PieceIs, Zenon
<1>5. \A k \in 1 .. s : ByteAt(cmds, n + k) = Piece(c)[k]
  BY <1>2, <1>3, Zenon
<1>6. ByteAt(cmds, n + 1) = CID(t)
  <2>1. 1 \in 1 .. s
    OBVIOUS
  <2> QED BY <1>4, <1>5, <2>1, Zenon
<1>7. CID(t) \in 2 .. Len(TypeOf(u)) /\ TypeOf(u)[CID(t)] = t
  BY <1>2, Zenon DEF Written
<1>8. Known(cmds, u, n) /\ TypeAt(cmds, u, n) = t
  BY <1>6, <1>7, Zenon DEF Known, TypeAt
<1>9. ASSUME NEW k \in 1 .. s - 1
      PROVE  ByteAt(cmds, n + 1 + k) = a[k]
  <2>1. 1 + k \in 1 .. s /\ n + (1 + k) = n + 1 + k
    OBVIOUS
  <2>2. ByteAt(cmds, n + (1 + k)) = Piece(c)[1 + k]
    BY <1>5, <2>1, Zenon
  <2>3. Piece(c)[1 + k] = a[k]
    BY <1>4
  <2> QED BY <2>1, <2>2, <2>3, Zenon
<1>10. a = [k \in 1 .. s - 1 |-> a[k]]
  BY <1>2, <1>3
<1>11. [k \in 1 .. s - 1 |-> ByteAt(cmds, n + 1 + k)] = a
  <2> DEFINE b(k) == ByteAt(cmds, n + 1 + k)
  <2>1. \A k \in 1 .. s - 1 : b(k) = a[k]
    BY <1>9, Zenon
  <2> HIDE DEF b
  <2>2. [k \in 1 .. s - 1 |-> b(k)] = a
    BY <1>10, <2>1
  <2> QED BY <2>2, Zenon DEF b
<1>12. CommandAt(cmds, u, n) = c
  BY <1>1, <1>3, <1>8, <1>11, Zenon DEF CommandAt
<1> QED BY <1>2, <1>8, <1>12, Zenon

(* As long as the length fits, the parser reads what was written.          *)
LEMMA RoundTrip ==
  ASSUME NEW u \in BOOLEAN, NEW cmds \in Seq(Written(u)), LengthFits(cmds)
  PROVE  Parse(cmds, u) = cmds
<1> DEFINE N == Len(cmds)
<1>1. N \in Nat /\ cmds \in Seq(Sized) /\ \A i \in 1 .. N : cmds[i] \in Written(u)
  BY DEF Written
<1>2. Pieces(cmds) \in Seq(Seq(Byte)) /\ Len(Pieces(cmds)) = N
  BY <1>1, PiecesType
<1>3. PICK f \in [0 .. N -> Seq(Byte)] : Joined(Pieces(cmds), f, N)
  BY <1>1, <1>2, JoinedExists
<1> DEFINE len == [i \in 0 .. N |-> Len(f[i])]
           size == [i \in 1 .. N |-> Size[cmds[i].type]]
<1>4. /\ \A i \in 0 .. N : Len(f[i]) \in Nat /\ Len(f[i]) <= Len(f[N])
      /\ Len(f[0]) = 0
      /\ \A i \in 1 .. N :
           /\ Len(f[i]) = Len(f[i - 1]) + Size[cmds[i].type]
           /\ \A k \in 1 .. Size[cmds[i].type] :
                ByteAt(cmds, Len(f[i - 1]) + k) = Piece(cmds[i])[k]
  BY <1>1, <1>3, BytesOf
<1>5. Options(cmds) = f[N]
  BY <1>1, <1>3, OptionsAre
<1>6. Len(f[N]) < 16
  BY <1>5, Zenon DEF LengthFits
<1>7. \A i \in 0 .. N : len[i] = Len(f[i]) /\ len[i] \in 0 .. 15 /\ len[i] <= len[N]
  <2>1. N \in 0 .. N
    BY <1>1
  <2>2. ASSUME NEW i \in 0 .. N
        PROVE  Len(f[i]) \in Nat /\ Len(f[i]) <= Len(f[N]) /\ len[i] = Len(f[i])
    BY <1>4
  <2>3. \A x, y \in Nat : x <= y /\ y < 16 => x \in 0 .. 15
    OBVIOUS
  <2>4. \A i \in 0 .. N : Len(f[i]) \in 0 .. 15
    BY <1>6, <2>1, <2>2, <2>3, Zenon
  <2> QED BY <2>1, <2>2, <2>4, Zenon
<1>8. \A i \in 1 .. N : /\ i - 1 \in 0 .. N /\ i \in 0 .. N
                        /\ size[i] = Size[cmds[i].type] /\ size[i] \in 1 .. 6
  <2> SUFFICES ASSUME NEW i \in 1 .. N
               PROVE  /\ i - 1 \in 0 .. N /\ i \in 0 .. N
                      /\ size[i] = Size[cmds[i].type] /\ size[i] \in 1 .. 6
    OBVIOUS
  <2>1. cmds[i].type \in Types
    BY <1>1, PieceIs DEF Written
  <2>2. size[i] \in 1 .. 6
    BY <2>1, Sizes
  <2> QED BY <1>1, <2>2
<1>9. len \in [0 .. N -> 0 .. 255] /\ size \in [1 .. N -> Nat] /\ len[0] = 0
  <2>1. 0 \in 0 .. N
    BY <1>1
  <2>2. len[0] = 0
    BY <1>4, <2>1
  <2>3. \A i \in 0 .. N : len[i] \in 0 .. 255
    <3>1. \A x \in 0 .. 15 : x \in 0 .. 255
      OBVIOUS
    <3> HIDE DEF len, N
    <3> QED BY <1>7, <3>1, Zenon
  <2>4. \A i \in 1 .. N : size[i] \in Nat
    <3>1. \A x \in 1 .. 6 : x \in Nat
      OBVIOUS
    <3> HIDE DEF size, N
    <3> QED BY <1>8, <3>1, Zenon
  <2>5. len \in [0 .. N -> 0 .. 255]
    BY <2>3, Zenon
  <2>6. size \in [1 .. N -> Nat]
    BY <2>4, Zenon
  <2> QED BY <2>2, <2>5, <2>6
<1>10. \A i \in 1 .. N : size[i] = Size[cmds[i].type] /\ len[i] = len[i - 1] + size[i]
  BY <1>4, <1>7, <1>8, Zenon
<1> HIDE DEF len, size
<1>11. FOptsLen(cmds) = len[N]
  <2> HIDE DEF N
  <2>1. N = Len(cmds)
    BY DEF N
  <2>2. Counts(cmds, len, N)
    BY <1>9, <1>10, Zenon DEF Counts
  <2>3. len \in [0 .. N -> 0 .. 255]
    BY <1>9
  <2> QED BY <1>1, <2>1, <2>2, <2>3, LengthIs
<1> DEFINE L == len[N]
<1>12. L \in 0 .. 15 /\ FOptsLen(cmds) % 16 = L /\ N \in 0 .. N
  <2>1. N \in 0 .. N
    BY <1>1
  <2>2. L \in 0 .. 15
    BY <1>7, <2>1, Zenon
  <2>3. L % 16 = L
    BY <2>2, SmallMod, Zenon
  <2> QED BY <1>11, <2>1, <2>2, <2>3, Zenon
<1> HIDE DEF L
<1>13. L \in Nat
  BY <1>12
<1>14. PICK from :
         /\ Parse(cmds, u) = from[0]
         /\ \A n \in 0 .. L + 6 :
              from[n] = IF n >= L THEN <<>>
                        ELSE IF ~ Known(cmds, u, n) THEN <<Hang>>
                        ELSE <<CommandAt(cmds, u, n)>> \o from[n + Size[TypeAt(cmds, u, n)]]
  BY <1>12, <1>13, ParseUnfolds
<1> DEFINE g == [i \in 0 .. N |-> from[len[i]]]
<1>15. g[N] = <<>>
  <2>1. g[N] = from[L]
    BY <1>12, Zenon DEF L
  <2>2. L \in 0 .. L + 6 /\ L >= L
    BY <1>13
  <2> QED BY <1>14, <2>1, <2>2, Zenon
<1>16. ASSUME NEW i \in 1 .. N
       PROVE  g[i - 1] = <<cmds[i]>> \o g[i]
  <2>1. i - 1 \in 0 .. N /\ i \in 0 .. N /\ cmds[i] \in Written(u)
    BY <1>1, <1>8, Zenon
  <2>2. PICK a \in 0 .. 15, b \in 0 .. 15, s \in 1 .. 6 :
          /\ a = len[i - 1] /\ b = len[i] /\ s = size[i]
          /\ b = a + s /\ b <= L
    <3>1. len[i - 1] \in 0 .. 15 /\ len[i] \in 0 .. 15 /\ size[i] \in 1 .. 6
      BY <1>7, <1>8, <2>1, Zenon
    <3>2. len[i] = len[i - 1] + size[i] /\ len[i] <= L
      BY <1>7, <1>10, <2>1, Zenon DEF L
    <3> QED BY <3>1, <3>2, Zenon
  <2>3. a \in 0 .. L + 6 /\ ~ (a >= L) /\ a \in Nat
    <3>1. \A x \in 0 .. 15, y \in 1 .. 6, z \in Nat :
            x + y <= z => x \in 0 .. z + 6 /\ ~ (x >= z) /\ x \in Nat
      OBVIOUS
    <3>2. a + s <= L
      BY <2>2, Zenon
    <3> QED BY <1>13, <3>1, <3>2, Zenon
  <2>4. \A k \in 1 .. Size[cmds[i].type] : ByteAt(cmds, a + k) = Piece(cmds[i])[k]
    BY <1>4, <1>7, <2>1, <2>2, Zenon
  <2>5. /\ Known(cmds, u, a) /\ TypeAt(cmds, u, a) = cmds[i].type
        /\ CommandAt(cmds, u, a) = cmds[i]
    BY <2>1, <2>3, <2>4, ReadsCommand
  <2>6. a + Size[TypeAt(cmds, u, a)] = b
    BY <1>8, <2>2, <2>5, Zenon
  <2>7. from[a] = <<cmds[i]>> \o from[b]
    BY <1>14, <2>3, <2>5, <2>6, Zenon
  <2>8. g[i - 1] = from[a] /\ g[i] = from[b]
    BY <2>1, <2>2, Zenon
  <2> QED BY <2>7, <2>8, Zenon
<1>17. g[0] = from[0]
  <2>1. 0 \in 0 .. N
    BY <1>1
  <2>2. len[0] = 0
    BY <1>9
  <2> QED BY <2>1, <2>2, Zenon
<1> HIDE DEF g
<1>18. g[0] = cmds
  <2> HIDE DEF N
  <2>1. N = Len(cmds)
    BY DEF N
  <2> QED BY <1>1, <1>15, <1>16, <2>1, PutInFront
<1> QED BY <1>14, <1>17, <1>18, Zenon

-----------------------------------------------------------------------------
(* The frames hold what the parser of their direction knows: in the list   *)
(* are answers and LinkCheckReq, in a downlink LinkCheckAns and requests.  *)
Sendable  == {c \in Sized : c.type \in Range(DownlinkType)}
FramesInv ==
  /\ queue \in Seq(Written(TRUE)) /\ up.cmds \in Seq(Written(TRUE))
  /\ down.cmds \in Seq(Sendable)

LEMMA UplinkTypes ==
  \A c \in Sized : c.type \in {"LINK_CHECK_REQ", "LINK_ADR_ANS", "DUTY_CYCLE_ANS",
                               "RX_PARAM_SETUP_ANS", "DEV_STATUS_ANS", "NEW_CHANNEL_ANS"}
                   => c \in Written(TRUE)
<1> DEFINE with(e) == <<e, "LINK_CHECK_REQ", "LINK_ADR_ANS", "DUTY_CYCLE_ANS",
                        "RX_PARAM_SETUP_ANS", "DEV_STATUS_ANS", "NEW_CHANNEL_ANS",
                        "RX_TIMING_SETUP_ANS", "TX_PARAM_SETUP_ANS", "DL_CHANNEL_ANS">>
           listed == {"LINK_CHECK_REQ", "LINK_ADR_ANS", "DUTY_CYCLE_ANS",
                      "RX_PARAM_SETUP_ANS", "DEV_STATUS_ANS", "NEW_CHANNEL_ANS"}
<1>1. TypeOf(TRUE) = with("")
  BY Zenon DEF TypeOf, UplinkType
<1>2. \A e : Len(with(e)) = 10
  OBVIOUS
<1>3. ASSUME NEW e, NEW t \in listed
      PROVE  CID(t) \in 2 .. 10 /\ with(e)[CID(t)] = t
  BY DEF CID
<1> HIDE DEF with
<1>4. \A t \in listed : CID(t) \in 2 .. Len(TypeOf(TRUE)) /\ TypeOf(TRUE)[CID(t)] = t
  BY <1>1, <1>2, <1>3, Zenon
<1> HIDE DEF listed
<1>5. \A c \in Sized : c.type \in listed => c \in Written(TRUE)
  BY <1>4, Zenon DEF Written
<1> QED BY <1>5, Zenon DEF listed

LEMMA DownlinkTypes ==
  \A c \in Sendable : c.type # "TX_PARAM_SETUP_REQ" => c \in Written(FALSE)
<1> DEFINE with(e) == <<e, "LINK_CHECK_ANS", "LINK_ADR_REQ", "DUTY_CYCLE_REQ",
                        "RX_PARAM_SETUP_REQ", "DEV_STATUS_REQ", "NEW_CHANNEL_REQ",
                        "RX_TIMING_SETUP_REQ", "TX_PARAM_SETUP_REQ">>
           listed == {"LINK_CHECK_ANS", "LINK_ADR_REQ", "DUTY_CYCLE_REQ", "RX_PARAM_SETUP_REQ",
                      "DEV_STATUS_REQ", "NEW_CHANNEL_REQ", "RX_TIMING_SETUP_REQ"}
<1>1. TypeOf(FALSE) = with("") /\ DownlinkType = with("")
  BY Zenon DEF TypeOf, DownlinkType
<1>2. \A e : Len(with(e)) = 9
  OBVIOUS
<1>3. ASSUME NEW e, NEW t \in listed
      PROVE  CID(t) \in 2 .. 9 /\ with(e)[CID(t)] = t
  BY DEF CID
<1>4. ASSUME NEW e, NEW t \in Range(with(e))
      PROVE  t = e \/ t \in listed \/ t = "TX_PARAM_SETUP_REQ"
  BY DEF Range
<1>5. "" \notin Types
  BY DEF Types, Size
<1> HIDE DEF with
<1>6. \A t \in listed : CID(t) \in 2 .. Len(TypeOf(FALSE)) /\ TypeOf(FALSE)[CID(t)] = t
  BY <1>1, <1>2, <1>3, Zenon
<1>7. \A t \in Range(DownlinkType) : t = "" \/ t \in listed \/ t = "TX_PARAM_SETUP_REQ"
  BY <1>1, <1>4, Zenon
<1> HIDE DEF listed
<1>8. ASSUME NEW c \in Sendable, c.type # "TX_PARAM_SETUP_REQ"
      PROVE  c \in Written(FALSE)
  <2>1. c \in Sized /\ c.type \in Range(DownlinkType)
    BY Zenon DEF Sendable
  <2>2. c.type \in Types
    BY <2>1, PieceIs
  <2>3. c.type \in listed
    BY <1>5, <1>7, <1>8, <2>1, <2>2, Zenon
  <2> QED BY <1>6, <2>1, <2>3, Zenon DEF Written
<1> QED BY <1>8

LEMMA AnswersAreWritten ==
  /\ LinkCheckReq \in Written(TRUE)
  /\ \A p, d, m \in BOOLEAN : LinkAdrAns(p, d, m) \in Written(TRUE)
  /\ DutyCycleAns \in Written(TRUE)
  /\ \A o, d \in BOOLEAN : RxParamSetupAns(o, d) \in Written(TRUE)
  /\ DevStatusAns(10, 10) \in Written(TRUE)
  /\ NewChannelAns(TRUE, TRUE) \in Written(TRUE)
<1> DEFINE Fits(c, t) == c \in Command /\ c.type = t /\ Len(c.arg) = Size[t] - 1
<1>0. /\ \A c, t : Fits(c, t) => c \in Sized /\ c.type = t
      /\ Size["LINK_CHECK_REQ"] - 1 = 0 /\ Size["LINK_ADR_ANS"] - 1 = 1
      /\ Size["DUTY_CYCLE_ANS"] - 1 = 0 /\ Size["RX_PARAM_SETUP_ANS"] - 1 = 1
      /\ Size["DEV_STATUS_ANS"] - 1 = 2 /\ Size["NEW_CHANNEL_ANS"] - 1 = 1
      /\ Len(<<>>) = 0 /\ (\A x : Len(<<x>>) = 1) /\ \A x, y : Len(<<x, y>>) = 2
  <2>1. \A c, t : Fits(c, t) => c \in Sized /\ c.type = t
    BY Zenon DEF Sized
  <2>2. /\ Size["LINK_CHECK_REQ"] - 1 = 0 /\ Size["LINK_ADR_ANS"] - 1 = 1
        /\ Size["DUTY_CYCLE_ANS"] - 1 = 0 /\ Size["RX_PARAM_SETUP_ANS"] - 1 = 1
        /\ Size["DEV_STATUS_ANS"] - 1 = 2 /\ Size["NEW_CHANNEL_ANS"] - 1 = 1
    BY DEF Size
  <2>3. Len(<<>>) = 0 /\ (\A x : Len(<<x>>) = 1) /\ \A x, y : Len(<<x, y>>) = 2
    OBVIOUS
  <2> QED BY <2>1, <2>2, <2>3, Zenon
<1>1. LinkCheckReq \in Sized /\ LinkCheckReq.type = "LINK_CHECK_REQ"
  <2>1. LinkCheckReq.type = "LINK_CHECK_REQ" /\ LinkCheckReq.arg = <<>>
    BY DEF LinkCheckReq
  <2> QED BY <1>0, <2>1, AnswerTypes, Zenon
<1>2. ASSUME NEW p \in BOOLEAN, NEW d \in BOOLEAN, NEW m \in BOOLEAN
      PROVE  LinkAdrAns(p, d, m) \in Sized /\ LinkAdrAns(p, d, m).type = "LINK_ADR_ANS"
  <2>1. \E x : LinkAdrAns(p, d, m).type = "LINK_ADR_ANS" /\ LinkAdrAns(p, d, m).arg = <<x>>
    BY DEF LinkAdrAns
  <2>2. LinkAdrAns(p, d, m) \in Command
    BY AnswerTypes
  <2> QED BY <1>0, <2>1, <2>2, Zenon
<1>3. DutyCycleAns \in Sized /\ DutyCycleAns.type = "DUTY_CYCLE_ANS"
  <2>1. DutyCycleAns.type = "DUTY_CYCLE_ANS" /\ DutyCycleAns.arg = <<>>
    BY DEF DutyCycleAns
  <2> QED BY <1>0, <2>1, AnswerTypes, Zenon
<1>4. ASSUME NEW o \in BOOLEAN, NEW d \in BOOLEAN
      PROVE  RxParamSetupAns(o, d) \in Sized /\ RxParamSetupAns(o, d).type = "RX_PARAM_SETUP_ANS"
  <2>1. \E x : /\ RxParamSetupAns(o, d).type = "RX_PARAM_SETUP_ANS"
               /\ RxParamSetupAns(o, d).arg = <<x>>
    BY DEF RxParamSetupAns
  <2>2. RxParamSetupAns(o, d) \in Command
    BY AnswerTypes
  <2> QED BY <1>0, <2>1, <2>2, Zenon
<1>5. DevStatusAns(10, 10) \in Sized /\ DevStatusAns(10, 10).type = "DEV_STATUS_ANS"
  <2>1. DevStatusAns(10, 10).type = "DEV_STATUS_ANS" /\ DevStatusAns(10, 10).arg = <<10, 10>>
    BY DEF DevStatusAns
  <2> QED BY <1>0, <2>1, AnswerTypes, Zenon
<1>6. /\ NewChannelAns(TRUE, TRUE) \in Sized
      /\ NewChannelAns(TRUE, TRUE).type = "NEW_CHANNEL_ANS"
  <2>1. \E x : /\ NewChannelAns(TRUE, TRUE).type = "NEW_CHANNEL_ANS"
               /\ NewChannelAns(TRUE, TRUE).arg = <<x>>
    BY DEF NewChannelAns
  <2> QED BY <1>0, <2>1, AnswerTypes, Zenon
<1> DEFINE W == Written(TRUE)
           listed == {"LINK_CHECK_REQ", "LINK_ADR_ANS", "DUTY_CYCLE_ANS",
                      "RX_PARAM_SETUP_ANS", "DEV_STATUS_ANS", "NEW_CHANNEL_ANS"}
<1>7. \A c \in Sized : c.type \in listed => c \in W
  BY UplinkTypes, Zenon
<1>8. /\ "LINK_CHECK_REQ" \in listed /\ "LINK_ADR_ANS" \in listed
      /\ "DUTY_CYCLE_ANS" \in listed /\ "RX_PARAM_SETUP_ANS" \in listed
      /\ "DEV_STATUS_ANS" \in listed /\ "NEW_CHANNEL_ANS" \in listed
  OBVIOUS
<1> HIDE DEF W, listed
<1>9. LinkCheckReq \in W /\ DutyCycleAns \in W
  BY <1>1, <1>3, <1>7, <1>8, Zenon
<1>10. DevStatusAns(10, 10) \in W /\ NewChannelAns(TRUE, TRUE) \in W
  BY <1>5, <1>6, <1>7, <1>8, Zenon
<1>11. ASSUME NEW p \in BOOLEAN, NEW d \in BOOLEAN, NEW m \in BOOLEAN
       PROVE  LinkAdrAns(p, d, m) \in W
  BY <1>2, <1>7, <1>8, Zenon
<1>12. ASSUME NEW o \in BOOLEAN, NEW d \in BOOLEAN PROVE RxParamSetupAns(o, d) \in W
  BY <1>4, <1>7, <1>8, Zenon
<1> QED BY <1>9, <1>10, <1>11, <1>12, Zenon DEF W

LEMMA RepliesAreSendable ==
  ASSUME NEW reqs \in Replies
  PROVE  LinkCheckReply(1) \o reqs \in Seq(Sendable)
<1>1. LinkCheckAns(0, 1) \in Sendable
  <2>1. LinkCheckAns(0, 1).type = "LINK_CHECK_ANS" /\ LinkCheckAns(0, 1).arg = <<0, 1>>
    BY DEF LinkCheckAns
  <2>2. LinkCheckAns(0, 1) \in Command
    <3>1. "LINK_CHECK_ANS" \in Types
      BY DEF Types, Size
    <3>2. <<0, 1>> \in Seq(Byte)
      BY DEF Byte
    <3> QED BY <3>1, <3>2 DEF LinkCheckAns, Command
  <2>3. Size["LINK_CHECK_ANS"] - 1 = 2 /\ Len(<<0, 1>>) = 2
    BY DEF Size
  <2>4. "LINK_CHECK_ANS" \in Range(DownlinkType)
    <3> DEFINE with(e) == <<e, "LINK_CHECK_ANS", "LINK_ADR_REQ", "DUTY_CYCLE_REQ",
                            "RX_PARAM_SETUP_REQ", "DEV_STATUS_REQ", "NEW_CHANNEL_REQ",
                            "RX_TIMING_SETUP_REQ", "TX_PARAM_SETUP_REQ">>
    <3>1. DownlinkType = with("")
      BY Zenon DEF DownlinkType
    <3>2. ASSUME NEW e
          PROVE  with(e)[2] = "LINK_CHECK_ANS" /\ 2 \in DOMAIN with(e)
      OBVIOUS
    <3> HIDE DEF with
    <3> QED BY <3>1, <3>2, Zenon DEF Range
  <2> QED BY <2>1, <2>2, <2>3, <2>4, Zenon DEF Sendable, Sized
<1>2. LinkCheckReply(1) \in Seq(Sendable)
  <2>1. <<LinkCheckAns(0, 1)>> \in Seq(Sendable) /\ <<>> \in Seq(Sendable)
    BY <1>1
  <2> QED BY <2>1, Zenon DEF LinkCheckReply
<1>3. Requests \subseteq Sendable
  BY CommandsAssumption, Zenon DEF Sendable, Sized
<1>4. reqs \in Seq(Sendable)
  <2>1. PICK n \in 0 .. MaxRequests : reqs \in [1 .. n -> Requests]
    BY DEF Replies
  <2>2. n \in Nat
    BY CommandsAssumption
  <2>3. reqs \in [1 .. n -> Sendable]
    BY <1>3, <2>1
  <2> QED BY <2>2, <2>3
<1> QED BY <1>2, <1>4, ConcatProperties, Zenon

LEMMA FramesInit == CmdInit => FramesInv
BY DEF CmdInit, FramesInv, NoFrame

LEMMA FramesStep == FramesInv /\ [CmdNext]_cmdVars => FramesInv'
<1> DEFINE U == Written(TRUE)
<1> SUFFICES ASSUME FramesInv, [CmdNext]_cmdVars PROVE FramesInv'
  OBVIOUS
<1>1. queue \in Seq(U) /\ up.cmds \in Seq(U) /\ down.cmds \in Seq(Sendable)
  BY DEF FramesInv
<1>2. NoFrame.cmds \in Seq(U) /\ NoFrame.cmds \in Seq(Sendable)
  BY DEF NoFrame
<1> HIDE DEF U
<1>3. ASSUME UNCHANGED <<queue, up, down>> PROVE FramesInv'
  BY <1>1, <1>3 DEF FramesInv, U
<1>4. ASSUME NEW c \in U, Answer(c), UNCHANGED <<up, down>> PROVE FramesInv'
  <2>1. queue' \in Seq(U)
    BY <1>1, <1>4, AppendProperties DEF Answer
  <2> QED BY <1>1, <1>4, <2>1 DEF FramesInv, U
<1>5. ASSUME NEW w, Crash(w) PROVE FramesInv'
  BY <1>3, <1>5 DEF Crash, device, frames
<1>6. ASSUME NEW kind, SendToPhy(kind), queue' \in Seq(U), UNCHANGED down PROVE FramesInv'
  <2>1. up'.cmds = queue
    BY <1>6 DEF SendToPhy
  <2> QED BY <1>1, <1>6, <2>1 DEF FramesInv, U
<1>7. CASE AddMacCommand
  <2>1. LinkCheckReq \in U /\ queue' = Append(queue, LinkCheckReq) /\ UNCHANGED <<up, down>>
    BY <1>7, AnswersAreWritten DEF AddMacCommand, frames, U
  <2>2. queue' \in Seq(U)
    BY <1>1, <2>1, AppendProperties
  <2> QED BY <1>1, <2>1, <2>2 DEF FramesInv, U
<1>8. ASSUME NEW kind, NEW size, DoSend(kind, size) PROVE FramesInv'
  <2>1. CASE TooBig(size)
    BY <1>3, <1>8, <2>1 DEF DoSend, ListAfter
  <2>2. CASE ~ TooBig(size)
    <3>1. queue' = <<>> /\ SendToPhy(kind) /\ UNCHANGED down
      BY <1>8, <2>2 DEF DoSend, ListAfter
    <3>2. queue' \in Seq(U)
      BY <3>1
    <3> QED BY <1>6, <3>1, <3>2
  <2> QED BY <2>1, <2>2
<1>9. CASE Retransmit
  <2>1. CASE Crash("hang")
    BY <1>5, <2>1
  <2>2. CASE SendToPhy("confirmed") /\ UNCHANGED <<device, down>>
    <3>1. queue' \in Seq(U) /\ UNCHANGED down
      BY <1>1, <2>2 DEF device
    <3> QED BY <1>6, <2>2, <3>1
  <2> QED BY <1>9, <2>1, <2>2 DEF Retransmit
<1>10. ASSUME NEW reqs \in Replies, ServerReceive(1, reqs) PROVE FramesInv'
  <2>1. CASE Crash("hang")
    BY <1>5, <2>1
  <2>2. CASE ~ Crash("hang")
    <3>1. /\ down'.cmds = LinkCheckReply(1) \o reqs
          /\ up' = NoFrame /\ queue' = queue
      BY <1>10, <2>2 DEF ServerReceive, device
    <3> QED BY <1>1, <1>2, <3>1, RepliesAreSendable DEF FramesInv, U
  <2> QED BY <2>1, <2>2
<1>11. CASE NoDownlink
  <2>1. CASE Crash("window")
    BY <1>5, <2>1
  <2>2. CASE ~ Crash("window")
    <3>1. up' = NoFrame /\ down' = NoFrame /\ queue' = queue
      BY <1>11, <2>2 DEF NoDownlink, device
    <3> QED BY <1>1, <1>2, <3>1 DEF FramesInv, U
  <2> QED BY <2>1, <2>2
<1>12. ASSUME NEW second, Receive(second) PROVE FramesInv'
  <2>1. CASE Crash("window")
    BY <1>5, <2>1
  <2>2. CASE ~ Crash("window")
    <3>1. up' = up /\ down' = NoFrame /\ queue' = queue
      BY <1>12, <2>2 DEF Receive, device
    <3> QED BY <1>1, <1>2, <3>1 DEF FramesInv, U
  <2> QED BY <2>1, <2>2
<1>13. CASE OnLinkCheckAns
  BY <1>3, <1>13 DEF OnLinkCheckAns
<1>14. CASE OnLinkAdrReq
  <2> DEFINE c      == Head(inbox)
             dr     == GetDataRate(c)
             power  == GetTxPower(c)
             mask   == GetEnabledChannelsList(c)
             maskOk == mask \subseteq 0 .. NumChannels
             ans    == LinkAdrAns(power < NumPowers, DataRateOk(dr, mask), maskOk)
  <2>1. CASE LinkAdrReqThrows(dr, power, mask)
    BY <1>5, <1>14, <2>1 DEF OnLinkAdrReq
  <2>2. CASE ~ LinkAdrReqThrows(dr, power, mask)
    <3>1. Answer(ans) /\ UNCHANGED <<up, down>>
      BY <1>14, <2>2 DEF OnLinkAdrReq
    <3>2. /\ (power < NumPowers) \in BOOLEAN
          /\ DataRateOk(dr, mask) \in BOOLEAN
          /\ maskOk \in BOOLEAN
      BY DEF DataRateOk
    <3>3. ans \in U
      BY <3>2, AnswersAreWritten DEF U
    <3> QED BY <1>4, <3>1, <3>3
  <2> QED BY <2>1, <2>2
<1>15. CASE OnDutyCycleReq
  <2>1. CASE Head(inbox).arg[1] = 0
    BY <1>5, <1>15, <2>1 DEF OnDutyCycleReq
  <2>2. CASE Head(inbox).arg[1] # 0
    BY <1>4, <1>15, <2>2, AnswersAreWritten DEF OnDutyCycleReq, U
  <2> QED BY <2>1, <2>2
<1>16. CASE OnRxParamSetupReq
  <2> DEFINE offset == GetRx1DrOffset(Head(inbox))
             dr     == GetRx2DataRate(Head(inbox))
             ans    == RxParamSetupAns(offset < NumOffsets, dr < NumDR)
  <2>1. Answer(ans) /\ UNCHANGED <<up, down>>
    BY <1>16 DEF OnRxParamSetupReq
  <2>2. (offset < NumOffsets) \in BOOLEAN /\ (dr < NumDR) \in BOOLEAN
    OBVIOUS
  <2>3. ans \in U
    BY <2>2, AnswersAreWritten DEF U
  <2> QED BY <1>4, <2>1, <2>3
<1>17. CASE OnDevStatusReq
  BY <1>4, <1>17, AnswersAreWritten DEF OnDevStatusReq, U
<1>18. CASE OnNewChannelReq
  <2> DEFINE i == GetChannelIndex(Head(inbox))
  <2>1. CASE i \notin Channels
    BY <1>5, <1>18, <2>1 DEF OnNewChannelReq
  <2>2. CASE i \in Channels
    <3>1. Answer(NewChannelAns(TRUE, TRUE)) /\ UNCHANGED <<up, down>>
      BY <1>18, <2>2 DEF OnNewChannelReq
    <3> QED BY <1>4, <3>1, AnswersAreWritten DEF U
  <2> QED BY <2>1, <2>2
<1>19. CASE OnOther
  BY <1>3, <1>5, <1>19 DEF OnOther, device
<1>20. CASE UNCHANGED cmdVars
  BY <1>3, <1>20 DEF cmdVars, device, frames
<1> QED
  BY <1>7, <1>8, <1>9, <1>10, <1>11, <1>12, <1>13, <1>14, <1>15, <1>16, <1>17, <1>18, <1>19, <1>20
     DEF CmdNext, ParseCommands

(* Whatever answers gather in m_macCommandList and whatever requests a     *)
(* component adds to a reply, the header Deserialize has read holds the    *)
(* commands AddCommand put into the one that Serialize wrote.              *)
THEOREM ParsedBack == CmdSpec => []ParsedAsWritten
<1>1. FramesInv => ParsedAsWritten
  <2> SUFFICES ASSUME FramesInv PROVE ParsedAsWritten
    OBVIOUS
  <2>1. ASSUME LengthFits(up.cmds) PROVE Parse(up.cmds, TRUE) = up.cmds
    BY <2>1, RoundTrip DEF FramesInv
  <2>2. ASSUME LengthFits(down.cmds),
               \A c \in Range(down.cmds) : c.type # "TX_PARAM_SETUP_REQ"
        PROVE  Parse(down.cmds, FALSE) = down.cmds
    <3> DEFINE cmds == down.cmds
    <3>1. cmds \in Seq(Sendable)
      BY DEF FramesInv
    <3> HIDE DEF cmds
    <3>2. Len(cmds) \in Nat /\ cmds = [i \in 1 .. Len(cmds) |-> cmds[i]]
      BY <3>1
    <3>3. \A i \in 1 .. Len(cmds) : cmds[i] \in Sendable /\ cmds[i] \in Range(cmds)
      <4>1. DOMAIN cmds = 1 .. Len(cmds) /\ \A i \in 1 .. Len(cmds) : cmds[i] \in Sendable
        BY <3>1
      <4> QED BY <4>1, Zenon DEF Range
    <3>4. \A i \in 1 .. Len(cmds) : cmds[i] \in Written(FALSE)
      BY <2>2, <3>3, DownlinkTypes, Zenon DEF cmds
    <3> DEFINE W == Written(FALSE)
    <3>5. cmds \in Seq(W)
      <4>1. \A i \in 1 .. Len(cmds) : cmds[i] \in W
        BY <3>4, Zenon
      <4> HIDE DEF W
      <4> QED BY <3>2, <4>1
    <3> QED BY <2>2, <3>5, RoundTrip DEF cmds
  <2> QED BY <2>1, <2>2, Zenon DEF ParsedAsWritten
<1>2. QED  BY <1>1, FramesInit, FramesStep, PTL DEF CmdSpec

-----------------------------------------------------------------------------
(* Types.  Whatever bytes a header has, what a parser makes of them is a   *)
(* sequence of commands of the right size, but for the one that hangs.     *)
Parsed == Sized \cup {Hang}

LEMMA ByteParts ==
  \A b \in 0 .. 255 : /\ b \div 16 \in 0 .. 15 /\ b % 16 \in 0 .. 15
                      /\ (b \div 16) % 8 \in 0 .. 7
<1> SUFFICES ASSUME NEW b \in 0 .. 255
             PROVE  b \div 16 \in 0 .. 15 /\ b % 16 \in 0 .. 15 /\ (b \div 16) % 8 \in 0 .. 7
  OBVIOUS
<1>1. b \div 16 \in 0 .. 15
  OBVIOUS
<1>2. b % 16 \in 0 .. 15
  OBVIOUS
<1>3. \A x \in 0 .. 15 : x % 8 \in 0 .. 7
  OBVIOUS
<1> QED BY <1>1, <1>2, <1>3, Zenon

LEMMA ByteType ==
  ASSUME NEW cmds \in Seq(Sized), NEW i \in Nat \ {0}
  PROVE  ByteAt(cmds, i) \in Byte
<1> DEFINE N == Len(cmds)
           one == <<1>>
<1>1. N \in Nat /\ Pieces(cmds) \in Seq(Seq(Byte)) /\ Len(Pieces(cmds)) = N
  BY PiecesType
<1>2. PICK f \in [0 .. N -> Seq(Byte)] : Joined(Pieces(cmds), f, N)
  BY <1>1, JoinedExists
<1>3. Options(cmds) \in Seq(Byte)
  <2>1. Options(cmds) = f[N]
    BY <1>1, <1>2, OptionsAre
  <2>2. N \in 0 .. N
    BY <1>1
  <2>3. f[N] \in Seq(Byte)
    BY <2>2, Zenon
  <2> QED BY <2>1, <2>3, Zenon
<1>4. one \in Seq(Byte) /\ 0 \in Byte
  BY DEF Byte
<1> DEFINE all == Options(cmds) \o one
<1> HIDE DEF one
<1>5. all \in Seq(Byte)
  BY <1>3, <1>4, ConcatProperties
<1> HIDE DEF all
<1>6. i <= Len(all) => all[i] \in Byte
  <2> SUFFICES ASSUME i <= Len(all) PROVE all[i] \in Byte
    OBVIOUS
  <2>1. Len(all) \in Nat /\ \A p \in 1 .. Len(all) : all[p] \in Byte
    BY <1>5
  <2>2. i \in 1 .. Len(all)
    BY <2>1
  <2> QED BY <2>1, <2>2, Zenon
<1> QED BY <1>4, <1>6, Zenon DEF ByteAt, all, one

LEMMA CommandType ==
  ASSUME NEW cmds \in Seq(Sized), NEW u \in BOOLEAN, NEW n \in Nat, Known(cmds, u, n)
  PROVE  CommandAt(cmds, u, n) \in Sized
<1> DEFINE t == TypeAt(cmds, u, n)
           b(k) == ByteAt(cmds, n + 1 + k)
           a == [k \in 1 .. Size[t] - 1 |-> b(k)]
<1>1. t \in Types
  BY KnownTypes, Zenon DEF Known, TypeAt
<1>2. PICK s \in 1 .. 6 : s = Size[t]
  BY <1>1, Sizes
<1>3. \A k \in 1 .. s - 1 : b(k) \in Byte
  <2> SUFFICES ASSUME NEW k \in 1 .. s - 1 PROVE b(k) \in Byte
    OBVIOUS
  <2>1. n + 1 + k \in Nat \ {0}
    BY <1>2
  <2> QED BY <2>1, ByteType
<1> HIDE DEF b, t
<1>4. a \in Seq(Byte) /\ Len(a) = Size[t] - 1
  <2>1. s - 1 \in Nat /\ a = [k \in 1 .. s - 1 |-> b(k)]
    BY <1>2
  <2> HIDE DEF a
  <2>2. a \in Seq(Byte) /\ Len(a) = s - 1
    BY <1>3, <2>1
  <2> QED BY <1>2, <2>2
<1>5. CommandAt(cmds, u, n) = [type |-> t, arg |-> a]
  BY Zenon DEF CommandAt, t, a, b
<1> HIDE DEF a
<1> QED BY <1>1, <1>4, <1>5 DEF Sized, Command

LEMMA ParseType ==
  ASSUME NEW cmds \in Seq(Sized), NEW u \in BOOLEAN
  PROVE  Parse(cmds, u) \in Seq(Parsed)
<1> DEFINE L == FOptsLen(cmds) % 16
           M == L + 6
<1>1. L \in Nat /\ M \in Nat
  <2> DEFINE N == Len(cmds)
  <2>1. N \in Nat
    OBVIOUS
  <2>2. PICK h : CountsInByte(cmds, h, N) /\ FOptsLen(cmds) = h[N]
    BY <2>1, LengthUnfolds
  <2>3. N \in 0 .. N /\ \A x \in 0 .. 255 : x \in Nat
    BY <2>1
  <2>4. h[N] \in Nat
    <3>1. h \in [0 .. N -> 0 .. 255]
      BY <2>2, Zenon DEF CountsInByte
    <3> HIDE DEF N
    <3>2. h[N] \in 0 .. 255
      BY <2>3, <3>1, Zenon
    <3> QED BY <2>3, <3>2, Zenon
  <2>5. L \in Nat
    BY <2>2, <2>4, WrapsInByte, Zenon
  <2> HIDE DEF L
  <2> QED BY <2>5
<1>2. PICK from :
        /\ Parse(cmds, u) = from[0]
        /\ \A n \in 0 .. L + 6 :
             from[n] = IF n >= L THEN <<>>
                       ELSE IF ~ Known(cmds, u, n) THEN <<Hang>>
                       ELSE <<CommandAt(cmds, u, n)>> \o from[n + Size[TypeAt(cmds, u, n)]]
  BY <1>1, ParseUnfolds
<1> HIDE DEF L
<1> DEFINE Typed(k) == \A n \in 0 .. M : n + k >= M => from[n] \in Seq(Parsed)
           T == {k \in Nat : k <= M => Typed(k)}
<1>3. <<>> \in Seq(Parsed) /\ <<Hang>> \in Seq(Parsed)
  <2>1. Hang \in Parsed
    BY DEF Parsed
  <2> QED BY <2>1
<1>4. ASSUME NEW n \in 0 .. M, n >= L PROVE from[n] \in Seq(Parsed)
  BY <1>2, <1>3, <1>4, Zenon
<1>5. Typed(0)
  BY <1>1, <1>4
<1>6. ASSUME NEW k \in Nat, k + 1 <= M, Typed(k)
      PROVE  Typed(k + 1)
  <2> SUFFICES ASSUME NEW n \in 0 .. M, n + (k + 1) >= M
               PROVE  from[n] \in Seq(Parsed)
    OBVIOUS
  <2>1. CASE n >= L
    BY <1>4, <2>1
  <2>2. CASE ~ (n >= L) /\ ~ Known(cmds, u, n)
    BY <1>2, <1>3, <2>2, Zenon
  <2>3. CASE ~ (n >= L) /\ Known(cmds, u, n)
    <3> DEFINE c == CommandAt(cmds, u, n)
    <3>1. n \in Nat /\ c \in Parsed
      BY <2>3, CommandType DEF Parsed
    <3>2. TypeAt(cmds, u, n) \in Types
      BY <2>3, KnownTypes, Zenon DEF Known, TypeAt
    <3>3. PICK s \in 1 .. 6 : s = Size[TypeAt(cmds, u, n)]
      BY <3>2, Sizes
    <3>4. from[n] = <<c>> \o from[n + s]
      BY <1>2, <2>3, <3>3, Zenon
    <3> HIDE DEF c
    <3>5. n + s \in 0 .. M /\ (n + s) + k >= M
      BY <1>1, <1>6, <2>3
    <3>6. from[n + s] \in Seq(Parsed)
      BY <1>6, <3>5
    <3>7. <<c>> \in Seq(Parsed)
      BY <3>1
    <3> QED BY <3>4, <3>6, <3>7, ConcatProperties, Zenon
  <2> QED BY <2>1, <2>2, <2>3, Zenon
<1> HIDE DEF Typed
<1>7. 0 \in T /\ \A k \in Nat : k \in T => k + 1 \in T
  BY <1>1, <1>5, <1>6
<1> HIDE DEF T
<1>8. M \in T
  BY <1>1, <1>7, SetInduction
<1>9. 0 \in 0 .. M /\ 0 + M >= M
  BY <1>1
<1>10. from[0] \in Seq(Parsed)
  BY <1>1, <1>8, <1>9 DEF T, Typed
<1> QED BY <1>2, <1>10

(* The device's parameters, the frames, and the commands still to execute. *)
DeviceOK ==
  /\ link \in Link /\ ranges \in [Channels -> SUBSET (0 .. 15)]
  /\ rx \in [offset : 0 .. 7, dr : 0 .. 15] /\ lastGwCnt \in Byte
SentOK ==
  /\ retx \in [cmds : Seq(Command), left : 0 .. MaxTx - 1]
  /\ up \in [kind : {"none", "confirmed", "unconfirmed"}, cmds : Seq(Command)]
  /\ down \in [kind : {"none", "ack", "plain"}, cmds : Seq(Command)]
(* At most one frame is on its way, or is being worked off.                *)
OneFrame ==
  /\ inbox # <<>> => up = NoFrame /\ down = NoFrame
  /\ down # NoFrame => up = NoFrame
CmdTypeInv ==
  /\ CmdInv /\ FramesInv /\ NoAnswerForgotten /\ OneFrame
  /\ DeviceOK /\ SentOK /\ inbox \in Seq(Parsed)

(* The answers a sequence of commands asks for.                            *)
LEMMA AnswerToType == \A c \in Parsed : AnswerTo(c) \in Seq(Types)
<1> SUFFICES ASSUME NEW c \in Parsed PROVE AnswerTo(c) \in Seq(Types)
  OBVIOUS
<1>1. CASE c.type \in DOMAIN AnswerType
  <2>1. AnswerType[c.type] \in Types
    BY <1>1 DEF AnswerType, Types, Size
  <2> HIDE DEF Types
  <2>2. <<AnswerType[c.type]>> \in Seq(Types)
    BY <2>1
  <2> QED BY <1>1, <2>2, Zenon DEF AnswerTo
<1>2. CASE c.type \notin DOMAIN AnswerType
  <2>1. <<>> \in Seq(Types)
    OBVIOUS
  <2> QED BY <1>2, <2>1, Zenon DEF AnswerTo
<1> QED BY <1>1, <1>2, Zenon

LEMMA AnswersToNone == AnswersTo(<<>>) = <<>>
BY DEF AnswersTo, FlattenSeq

LEMMA AnswersToFirst ==
  ASSUME NEW cmds \in Seq(Parsed), cmds # <<>>
  PROVE  /\ AnswersTo(Tail(cmds)) \in Seq(Types)
         /\ AnswersTo(cmds) = AnswerTo(Head(cmds)) \o AnswersTo(Tail(cmds))
<1> DEFINE S == Types
           B == Seq(S)
           P == Parsed
           q == [i \in DOMAIN cmds |-> AnswerTo(cmds[i])]
           r == [i \in DOMAIN Tail(cmds) |-> AnswerTo(Tail(cmds)[i])]
<1>1. \A c \in P : AnswerTo(c) \in B
  BY AnswerToType, Zenon
<1>2. cmds \in Seq(P)
  OBVIOUS
<1> HIDE DEF P, S, B
<1>3. /\ Len(cmds) \in Nat /\ 1 \in 1 .. Len(cmds) /\ DOMAIN cmds = 1 .. Len(cmds)
      /\ \A i \in 1 .. Len(cmds) : cmds[i] \in P
      /\ Head(cmds) = cmds[1]
  BY <1>2
<1>4. q \in Seq(B) /\ q # <<>> /\ Head(q) = AnswerTo(Head(cmds)) /\ Len(q) = Len(cmds)
  BY <1>1, <1>3
<1>5. Tail(q) = r
  <2>1. /\ Tail(cmds) \in Seq(P) /\ Len(Tail(cmds)) = Len(cmds) - 1
        /\ DOMAIN Tail(cmds) = 1 .. Len(cmds) - 1
        /\ \A i \in 1 .. Len(cmds) - 1 : Tail(cmds)[i] = cmds[i + 1]
    BY <1>2, HeadTailProperties
  <2>2. \A i \in 1 .. Len(cmds) - 1 : r[i] = q[i + 1]
    BY <1>3, <2>1
  <2>3. /\ Tail(q) \in Seq(B) /\ Len(Tail(q)) = Len(cmds) - 1
        /\ \A i \in 1 .. Len(cmds) - 1 : Tail(q)[i] = q[i + 1]
    BY <1>4, HeadTailProperties
  <2>4. r = [i \in 1 .. Len(cmds) - 1 |-> r[i]]
    BY <2>1
  <2>5. Tail(q) = [i \in 1 .. Len(cmds) - 1 |-> Tail(q)[i]]
    <3>1. \A s \in Seq(B) : s = [i \in 1 .. Len(s) |-> s[i]]
      OBVIOUS
    <3> HIDE DEF q
    <3> QED BY <2>3, <3>1, Zenon
  <2> HIDE DEF q, r
  <2> QED BY <2>2, <2>3, <2>4, <2>5
<1>6. AnswersTo(cmds) = FlattenSeq(q) /\ AnswersTo(Tail(cmds)) = FlattenSeq(r)
  BY Zenon DEF AnswersTo
<1> HIDE DEF q, r
<1>7. FlattenSeq(Tail(q)) \in B /\ FlattenSeq(q) = Head(q) \o FlattenSeq(Tail(q))
  BY <1>4, FlattenFirst, Zenon DEF B
<1> QED BY <1>4, <1>5, <1>6, <1>7, Zenon DEF B, S

LEMMA AnswersToType == \A cmds \in Seq(Parsed) : AnswersTo(cmds) \in Seq(Types)
<1> SUFFICES ASSUME NEW cmds \in Seq(Parsed) PROVE AnswersTo(cmds) \in Seq(Types)
  OBVIOUS
<1>1. CASE cmds = <<>>
  <2>1. <<>> \in Seq(Types)
    OBVIOUS
  <2> QED BY <1>1, <2>1, AnswersToNone, Zenon
<1>2. CASE cmds # <<>>
  <2>1. AnswerTo(Head(cmds)) \in Seq(Types)
    <3>1. Head(cmds) \in Parsed
      <4> HIDE DEF Parsed
      <4> QED BY <1>2
    <3> QED BY <3>1, AnswerToType, Zenon
  <2>2. /\ AnswersTo(Tail(cmds)) \in Seq(Types)
        /\ AnswersTo(cmds) = AnswerTo(Head(cmds)) \o AnswersTo(Tail(cmds))
    BY <1>2, AnswersToFirst, Zenon
  <2> HIDE DEF Types
  <2> QED BY <2>1, <2>2, ConcatProperties
<1> QED BY <1>1, <1>2, Zenon

(* The types of a sequence of commands.                                    *)
LEMMA TypesOfIs ==
  ASSUME NEW C, NEW T, \A c \in C : c.type \in T, NEW q \in Seq(C)
  PROVE  /\ TypesOf(q) \in Seq(T) /\ Len(TypesOf(q)) = Len(q)
         /\ TypesOf(q) = [i \in 1 .. Len(q) |-> q[i].type]
         /\ \A i \in 1 .. Len(q) : TypesOf(q)[i] = q[i].type
<1>1. DOMAIN q = 1 .. Len(q) /\ Len(q) \in Nat
  OBVIOUS
<1>2. TypesOf(q) = [i \in 1 .. Len(q) |-> q[i].type]
  BY <1>1, Zenon DEF TypesOf
<1>3. [i \in 1 .. Len(q) |-> q[i].type] \in Seq(T)
  BY <1>1
<1> QED BY <1>1, <1>2, <1>3

LEMMA CommandHasType == \A c \in Command : c.type \in Types
BY DEF Command

LEMMA TypesOfType == \A cmds \in Seq(Command) : TypesOf(cmds) \in Seq(Types)
<1> DEFINE C == Command
           S == Types
<1>1. \A c \in C : c.type \in S
  BY CommandHasType, Zenon
<1> HIDE DEF C, S
<1>2. \A cmds \in Seq(C) : TypesOf(cmds) \in Seq(S)
  BY <1>1, TypesOfIs
<1> QED BY <1>2, Zenon DEF C, S

LEMMA TypeInvType == CmdTypeInv => CmdTypeOK
<1> SUFFICES ASSUME CmdTypeInv PROVE CmdTypeOK
  OBVIOUS
<1>1. queue \in Seq(Command)
  BY DEF CmdTypeInv, CmdInv, AnswersInv
<1>2. owed \in Seq(Types)
  <2>1. TypesOf(queue) \in Seq(Types) /\ AnswersTo(inbox) \in Seq(Types)
    BY <1>1, TypesOfType, AnswersToType, Zenon DEF CmdTypeInv
  <2>2. owed = TypesOf(queue) \o AnswersTo(inbox)
    BY Zenon DEF CmdTypeInv, NoAnswerForgotten
  <2> HIDE DEF Types
  <2> QED BY <2>1, <2>2, ConcatProperties
<1>3. inbox \in Seq(Command \cup {Hang})
  <2>1. Parsed \subseteq Command \cup {Hang}
    BY Zenon DEF Parsed, Sized
  <2> DEFINE B == Command \cup {Hang}
  <2>2. Parsed \subseteq B /\ inbox \in Seq(Parsed)
    BY <2>1, Zenon DEF CmdTypeInv
  <2> HIDE DEF B
  <2>3. inbox \in Seq(B)
    BY <2>2
  <2> QED BY <2>3, Zenon DEF B
<1> QED BY <1>1, <1>2, <1>3 DEF CmdTypeInv, DeviceOK, SentOK, CmdTypeOK

(* The command the loop is at has the bytes its type says.                 *)
LEMMA NextCommand ==
  ASSUME inbox \in Seq(Parsed), NEW t \in Types, NextIs(t)
  PROVE  \A k \in 1 .. Size[t] - 1 : Head(inbox).arg[k] \in 0 .. 255
<1> DEFINE c == Head(inbox)
<1>1. c \in Parsed /\ c.type = t
  BY DEF NextIs
<1>2. c # Hang
  <2>1. "HANG" \notin Types
    BY DEF Types, Size
  <2>2. Hang.type = "HANG"
    BY DEF Hang
  <2> QED BY <1>1, <2>1, <2>2, Zenon
<1>3. c \in Sized
  BY <1>1, <1>2, Zenon DEF Parsed
<1> HIDE DEF c
<1>4. c.arg \in Seq(Byte) /\ Len(c.arg) = Size[t] - 1
  BY <1>1, <1>3 DEF Sized, Command
<1>5. \A k \in 1 .. Size[t] - 1 : c.arg[k] \in Byte
  BY <1>4
<1> QED BY <1>5, Zenon DEF Byte, c

LEMMA CmdTypeInit == CmdInit => CmdTypeInv
<1> SUFFICES ASSUME CmdInit PROVE CmdTypeInv
  OBVIOUS
<1>1. CmdInv /\ FramesInv
  BY CmdInitInv, FramesInit
<1>2. DeviceOK
  BY DEF CmdInit, DeviceOK, Link, NumDR, NumPowers, Byte
<1>3. SentOK
  <2>1. 0 \in 0 .. MaxTx - 1
    BY CommandsAssumption
  <2> QED BY <2>1 DEF CmdInit, SentOK, NoRetx, NoFrame
<1>4. inbox \in Seq(Parsed)
  BY DEF CmdInit
<1>5. NoAnswerForgotten
  <2>1. owed = <<>> /\ TypesOf(queue) = <<>> /\ inbox = <<>>
    BY DEF CmdInit, TypesOf
  <2>2. <<>> \o <<>> = <<>>
    OBVIOUS
  <2> QED BY <2>1, <2>2, AnswersToNone, Zenon DEF NoAnswerForgotten
<1>6. OneFrame
  BY DEF CmdInit, OneFrame
<1> QED BY <1>1, <1>2, <1>3, <1>4, <1>5, <1>6 DEF CmdTypeInv

LEMMA DeviceStep == ASSUME CmdTypeInv, [CmdNext]_cmdVars PROVE DeviceOK'
<1>1. DeviceOK /\ inbox \in Seq(Parsed)
  BY DEF CmdTypeInv
<1>2. ASSUME UNCHANGED <<link, ranges, rx, lastGwCnt>> PROVE DeviceOK'
  BY <1>1, <1>2 DEF DeviceOK, Link, Channels
<1>3. ASSUME NEW w, Crash(w) PROVE DeviceOK'
  BY <1>2, <1>3 DEF Crash, device
<1>4. CASE AddMacCommand
  BY <1>2, <1>4 DEF AddMacCommand
<1>5. ASSUME NEW kind, NEW size, DoSend(kind, size) PROVE DeviceOK'
  BY <1>2, <1>5 DEF DoSend
<1>6. CASE Retransmit
  BY <1>2, <1>3, <1>6 DEF Retransmit, device
<1>7. ASSUME NEW reqs, ServerReceive(1, reqs) PROVE DeviceOK'
  BY <1>2, <1>3, <1>7 DEF ServerReceive, device
<1>8. CASE NoDownlink
  BY <1>2, <1>3, <1>8 DEF NoDownlink, device
<1>9. ASSUME NEW second, Receive(second) PROVE DeviceOK'
  BY <1>2, <1>3, <1>9 DEF Receive, device
<1>10. CASE OnLinkCheckAns
  <2>1. 2 \in 1 .. Size["LINK_CHECK_ANS"] - 1 /\ "LINK_CHECK_ANS" \in Types
    BY DEF Size, Types
  <2>2. NextIs("LINK_CHECK_ANS")
    BY <1>10, Zenon DEF OnLinkCheckAns
  <2>3. Head(inbox).arg[2] \in 0 .. 255
    BY <1>1, <2>1, <2>2, NextCommand, Zenon
  <2>4. lastGwCnt' \in Byte
    BY <1>10, <2>3, Zenon DEF OnLinkCheckAns, Byte
  <2> QED BY <1>1, <1>10, <2>4 DEF OnLinkCheckAns, DeviceOK, Link, Channels
<1>11. CASE OnLinkAdrReq
  <2> DEFINE c      == Head(inbox)
             dr     == GetDataRate(c)
             power  == GetTxPower(c)
             mask   == GetEnabledChannelsList(c)
             maskOk == mask \subseteq 0 .. NumChannels
             new    == [dr |-> dr, power |-> power, enabled |-> mask \cap Channels]
  <2>1. CASE LinkAdrReqThrows(dr, power, mask)
    BY <1>3, <1>11, <2>1 DEF OnLinkAdrReq
  <2>2. CASE ~ LinkAdrReqThrows(dr, power, mask)
    <3>1. /\ link' = IF power < NumPowers /\ DataRateOk(dr, mask) /\ maskOk THEN new ELSE link
          /\ UNCHANGED <<ranges, rx, lastGwCnt>>
      BY <1>11, <2>2 DEF OnLinkAdrReq
    <3>2. c.arg[1] \in 0 .. 255
      <4>1. 1 \in 1 .. Size["LINK_ADR_REQ"] - 1 /\ "LINK_ADR_REQ" \in Types
        BY DEF Size, Types
      <4>2. NextIs("LINK_ADR_REQ")
        BY <1>11, Zenon DEF OnLinkAdrReq
      <4> QED BY <1>1, <4>1, <4>2, NextCommand, Zenon
    <3>3. dr \in 0 .. 15 /\ power \in 0 .. 15
      BY <3>2, ByteParts, Zenon DEF GetDataRate, GetTxPower
    <3> HIDE DEF dr, power, mask, c
    <3>4. power < NumPowers /\ DataRateOk(dr, mask) => new \in Link
      <4>1. DataRateOk(dr, mask) => dr < NumDR
        BY Zenon DEF DataRateOk
      <4>2. power < NumPowers => power \in 0 .. NumPowers - 1
        BY <3>3 DEF NumPowers
      <4>3. dr < NumDR => dr \in 0 .. NumDR - 1
        BY <3>3 DEF NumDR
      <4>4. mask \cap Channels \in SUBSET Channels
        OBVIOUS
      <4> HIDE DEF new
      <4> QED BY <4>1, <4>2, <4>3, <4>4 DEF new, Link
    <3>5. link' \in Link
      BY <1>1, <3>1, <3>4, Zenon DEF DeviceOK
    <3> QED BY <1>1, <3>1, <3>5 DEF DeviceOK, Channels
  <2> QED BY <2>1, <2>2
<1>12. CASE OnDutyCycleReq
  <2>1. CASE Head(inbox).arg[1] = 0
    BY <1>3, <1>12, <2>1 DEF OnDutyCycleReq
  <2>2. CASE Head(inbox).arg[1] # 0
    BY <1>2, <1>12, <2>2 DEF OnDutyCycleReq
  <2> QED BY <2>1, <2>2
<1>13. CASE OnRxParamSetupReq
  <2>1. 1 \in 1 .. Size["RX_PARAM_SETUP_REQ"] - 1 /\ "RX_PARAM_SETUP_REQ" \in Types
    BY DEF Size, Types
  <2>2. NextIs("RX_PARAM_SETUP_REQ")
    BY <1>13, Zenon DEF OnRxParamSetupReq
  <2>3. Head(inbox).arg[1] \in 0 .. 255
    BY <1>1, <2>1, <2>2, NextCommand, Zenon
  <2>4. GetRx1DrOffset(Head(inbox)) \in 0 .. 7 /\ GetRx2DataRate(Head(inbox)) \in 0 .. 15
    BY <2>3, ByteParts, Zenon DEF GetRx1DrOffset, GetRx2DataRate
  <2>5. /\ rx' = [offset |-> GetRx1DrOffset(Head(inbox)), dr |-> GetRx2DataRate(Head(inbox))]
        /\ UNCHANGED <<link, ranges, lastGwCnt>>
    BY <1>13, Zenon DEF OnRxParamSetupReq
  <2> QED BY <1>1, <2>4, <2>5 DEF DeviceOK, Link, Channels
<1>14. CASE OnDevStatusReq
  BY <1>2, <1>14 DEF OnDevStatusReq
<1>15. CASE OnNewChannelReq
  <2> DEFINE c == Head(inbox)
             i == GetChannelIndex(c)
  <2>1. CASE i \notin Channels
    BY <1>3, <1>15, <2>1 DEF OnNewChannelReq
  <2>2. CASE i \in Channels
    <3>1. /\ ranges' = [ranges EXCEPT ![i] = GetRange(c)]
          /\ link' = [link EXCEPT !.enabled = @ \cup {i}]
          /\ UNCHANGED <<rx, lastGwCnt>>
      BY <1>15, <2>2 DEF OnNewChannelReq
    <3>2. c.arg[5] \in 0 .. 255
      <4>1. 5 \in 1 .. Size["NEW_CHANNEL_REQ"] - 1 /\ "NEW_CHANNEL_REQ" \in Types
        BY DEF Size, Types
      <4>2. NextIs("NEW_CHANNEL_REQ")
        BY <1>15, Zenon DEF OnNewChannelReq
      <4> QED BY <1>1, <4>1, <4>2, NextCommand, Zenon
    <3>3. GetRange(c) \in SUBSET (0 .. 15)
      <4>1. c.arg[5] % 16 \in 0 .. 15 /\ c.arg[5] \div 16 \in 0 .. 15
        BY <3>2, ByteParts, Zenon
      <4>2. \A x, y \in 0 .. 15 : x .. y \in SUBSET (0 .. 15)
        OBVIOUS
      <4> QED BY <4>1, <4>2, Zenon DEF GetRange
    <3> HIDE DEF i, c
    <3>4. ranges' \in [Channels -> SUBSET (0 .. 15)]
      <4> DEFINE R == SUBSET (0 .. 15)
      <4>1. ranges \in [Channels -> R] /\ GetRange(c) \in R
        BY <1>1, <3>3, Zenon DEF DeviceOK
      <4> HIDE DEF R
      <4>2. ranges' \in [Channels -> R]
        BY <2>2, <3>1, <4>1
      <4> QED BY <4>2, Zenon DEF R
    <3>5. link' \in Link
      BY <1>1, <2>2, <3>1 DEF DeviceOK, Link
    <3> QED BY <1>1, <3>1, <3>4, <3>5 DEF DeviceOK, Channels
  <2> QED BY <2>1, <2>2
<1>16. CASE OnOther
  BY <1>2, <1>3, <1>16 DEF OnOther, device
<1>17. CASE UNCHANGED cmdVars
  BY <1>2, <1>17 DEF cmdVars, device
<1> QED
  BY <1>4, <1>5, <1>6, <1>7, <1>8, <1>9, <1>10, <1>11, <1>12, <1>13, <1>14, <1>15, <1>16, <1>17
     DEF CmdNext, ParseCommands

LEMMA SendableTypes ==
  ASSUME NEW cmds \in Seq(Sendable)
  PROVE  cmds \in Seq(Command) /\ cmds \in Seq(Sized)
<1>1. Sendable \subseteq Sized /\ Sized \subseteq Command
  BY Zenon DEF Sendable, Sized
<1> DEFINE A == Sendable
           B == Sized
           C == Command
<1>2. A \subseteq B /\ B \subseteq C /\ cmds \in Seq(A)
  BY <1>1, Zenon
<1> HIDE DEF A, B, C
<1>3. cmds \in Seq(B) /\ cmds \in Seq(C)
  BY <1>2
<1> QED BY <1>3, Zenon DEF B, C

LEMMA SentStep == ASSUME CmdTypeInv, [CmdNext]_cmdVars PROVE SentOK'
<1> DEFINE S == Seq(Command)
<1>1. SentOK /\ queue \in S
  BY DEF CmdTypeInv, CmdInv, AnswersInv
<1>2. /\ retx \in [cmds : S, left : 0 .. MaxTx - 1]
      /\ up \in [kind : {"none", "confirmed", "unconfirmed"}, cmds : S]
      /\ down \in [kind : {"none", "ack", "plain"}, cmds : S]
  BY <1>1, Zenon DEF SentOK
<1>3. ASSUME /\ retx' \in [cmds : S, left : 0 .. MaxTx - 1]
             /\ up' \in [kind : {"none", "confirmed", "unconfirmed"}, cmds : S]
             /\ down' \in [kind : {"none", "ack", "plain"}, cmds : S]
      PROVE  SentOK'
  BY <1>3 DEF SentOK, Command, Types, Size, Byte
<1>4. <<>> \in S /\ MaxTx \in 1 .. 255
  BY CommandsAssumption
<1> HIDE DEF S
<1>5. /\ NoRetx \in [cmds : S, left : 0 .. MaxTx - 1]
      /\ NoFrame \in [kind : {"none", "confirmed", "unconfirmed"}, cmds : S]
      /\ NoFrame \in [kind : {"none", "ack", "plain"}, cmds : S]
  BY <1>4 DEF NoRetx, NoFrame
<1>6. ASSUME UNCHANGED <<retx, up, down>> PROVE SentOK'
  BY <1>2, <1>3, <1>6
<1>7. ASSUME NEW w, Crash(w) PROVE SentOK'
  BY <1>6, <1>7 DEF Crash, frames
<1>8. ASSUME NEW kind \in {"confirmed", "unconfirmed"}, SendToPhy(kind)
      PROVE  up' \in [kind : {"none", "confirmed", "unconfirmed"}, cmds : S]
  BY <1>1, <1>8 DEF SendToPhy
<1>9. CASE AddMacCommand
  BY <1>6, <1>9 DEF AddMacCommand, frames
<1>10. ASSUME NEW kind \in {"confirmed", "unconfirmed"}, NEW size, DoSend(kind, size)
       PROVE  SentOK'
  <2>1. CASE TooBig(size)
    BY <1>6, <1>10, <2>1 DEF DoSend
  <2>2. CASE ~ TooBig(size)
    <3>1. /\ SendToPhy(kind) /\ UNCHANGED down
          /\ retx' = IF kind = "confirmed" THEN [cmds |-> queue, left |-> MaxTx - 1] ELSE NoRetx
      BY <1>10, <2>2 DEF DoSend
    <3>2. retx' \in [cmds : S, left : 0 .. MaxTx - 1]
      BY <1>1, <1>4, <1>5, <3>1
    <3> QED BY <1>2, <1>3, <1>8, <3>1, <3>2
  <2> QED BY <2>1, <2>2
<1>11. CASE Retransmit
  <2>1. CASE Crash("hang")
    BY <1>7, <2>1
  <2>2. CASE ~ Crash("hang")
    <3>1. /\ retx.left > 0 /\ SendToPhy("confirmed") /\ UNCHANGED down
          /\ retx' = [cmds |-> queue, left |-> retx.left - 1]
      BY <1>11, <2>2 DEF Retransmit, MayRetransmit
    <3>2. retx' \in [cmds : S, left : 0 .. MaxTx - 1]
      BY <1>1, <1>2, <1>4, <3>1
    <3> QED BY <1>2, <1>3, <1>8, <3>1, <3>2
  <2> QED BY <2>1, <2>2
<1>12. ASSUME NEW reqs \in Replies, ServerReceive(1, reqs) PROVE SentOK'
  <2>1. CASE Crash("hang")
    BY <1>7, <2>1
  <2>2. CASE ~ Crash("hang")
    <3> DEFINE reply == LinkCheckReply(1) \o reqs
    <3>1. /\ down' = [kind |-> IF up.kind = "confirmed" THEN "ack" ELSE "plain", cmds |-> reply]
          /\ up' = NoFrame /\ retx' = retx
      BY <1>12, <2>2 DEF ServerReceive
    <3>2. reply \in S
      BY RepliesAreSendable, SendableTypes, Zenon DEF S
    <3> HIDE DEF reply
    <3> QED BY <1>2, <1>3, <1>5, <3>1, <3>2
  <2> QED BY <2>1, <2>2
<1>13. CASE NoDownlink
  <2>1. CASE Crash("window")
    BY <1>7, <2>1
  <2>2. CASE ~ Crash("window")
    <3>1. /\ up' = NoFrame /\ down' = NoFrame
          /\ retx' = IF retx.left = 0 THEN NoRetx ELSE retx
      BY <1>13, <2>2 DEF NoDownlink
    <3> QED BY <1>2, <1>3, <1>5, <3>1
  <2> QED BY <2>1, <2>2
<1>14. ASSUME NEW second, Receive(second) PROVE SentOK'
  <2>1. CASE Crash("window")
    BY <1>7, <2>1
  <2>2. CASE ~ Crash("window")
    <3>1. /\ up' = up /\ down' = NoFrame
          /\ retx' = IF down.kind = "ack" THEN NoRetx ELSE retx
      BY <1>14, <2>2 DEF Receive
    <3> QED BY <1>2, <1>3, <1>5, <3>1
  <2> QED BY <2>1, <2>2
<1>15. CASE ParseCommands
  <2>1. CASE UNCHANGED <<retx, up, down>>
    BY <1>6, <2>1
  <2>2. CASE \E w : Crash(w)
    BY <1>7, <2>2
  <2> QED
    BY <1>15, <2>1, <2>2
       DEF ParseCommands, OnLinkCheckAns, OnLinkAdrReq, OnDutyCycleReq, OnRxParamSetupReq,
           OnDevStatusReq, OnNewChannelReq, OnOther
<1>16. CASE UNCHANGED cmdVars
  BY <1>6, <1>16 DEF cmdVars, frames
<1> QED
  BY <1>9, <1>10, <1>11, <1>12, <1>13, <1>14, <1>15, <1>16 DEF CmdNext

LEMMA InboxStep == ASSUME CmdTypeInv, [CmdNext]_cmdVars PROVE (inbox \in Seq(Parsed))'
<1> DEFINE S == Seq(Parsed)
<1>1. inbox \in S /\ FramesInv
  BY DEF CmdTypeInv
<1>2. ASSUME inbox' \in S PROVE (inbox \in Seq(Parsed))'
  BY <1>2 DEF Parsed, Sized, Hang, Command, Types, Size, Byte
<1>3. CASE inbox' = inbox
  BY <1>1, <1>2, <1>3
<1>4. CASE inbox # <<>> /\ inbox' = Tail(inbox)
  <2>1. Tail(inbox) \in S
    BY <1>1, <1>4
  <2> QED BY <1>2, <1>4, <2>1
<1>5. ASSUME NEW w, Crash(w) PROVE inbox' = inbox
  BY <1>5 DEF Crash, frames
<1>6. ASSUME NEW second, Receive(second) PROVE (inbox \in Seq(Parsed))'
  <2>1. CASE inbox' = inbox
    BY <1>3, <2>1
  <2>2. CASE inbox' = Parse(down.cmds, FALSE)
    <3>1. down.cmds \in Seq(Sized)
      BY <1>1, SendableTypes DEF FramesInv
    <3> QED BY <1>2, <2>2, <3>1, ParseType
  <2> QED BY <1>5, <1>6, <2>1, <2>2 DEF Receive
<1>7. CASE ParseCommands
  <2>1. ASSUME NEW t, NextIs(t) PROVE inbox # <<>>
    BY <2>1 DEF NextIs
  <2> QED
    BY <1>3, <1>4, <1>5, <1>7, <2>1
       DEF ParseCommands, OnLinkCheckAns, OnLinkAdrReq, OnDutyCycleReq, OnRxParamSetupReq,
           OnDevStatusReq, OnNewChannelReq, OnOther, Skipped
<1>8. CASE ~ ParseCommands /\ ~ (\E second \in BOOLEAN : Receive(second))
  <2>1. inbox' = inbox
    BY <1>5, <1>8
       DEF CmdNext, AddMacCommand, DoSend, Retransmit, ServerReceive, NoDownlink, cmdVars, frames
  <2> QED BY <1>3, <2>1
<1> QED BY <1>6, <1>7, <1>8

LEMMA OneFrameStep == ASSUME CmdTypeInv, [CmdNext]_cmdVars PROVE OneFrame'
<1> USE DEF OneFrame
<1>1. OneFrame /\ inbox \in Seq(Parsed)
  BY DEF CmdTypeInv
<1>2. ASSUME UNCHANGED <<up, down>>, inbox' = inbox \/ inbox # <<>>
      PROVE  OneFrame'
  BY <1>1, <1>2 DEF NoFrame
<1>3. ASSUME NEW w, Crash(w) PROVE OneFrame'
  BY <1>2, <1>3 DEF Crash, frames
<1>4. CASE AddMacCommand
  BY <1>2, <1>4 DEF AddMacCommand, frames
<1>5. ASSUME NEW kind, NEW size, DoSend(kind, size) PROVE OneFrame'
  BY <1>5 DEF DoSend, Idle, NoFrame
<1>6. CASE Retransmit
  BY <1>3, <1>6 DEF Retransmit, Idle, NoFrame
<1>7. ASSUME NEW reqs, ServerReceive(1, reqs) PROVE OneFrame'
  BY <1>1, <1>3, <1>7 DEF ServerReceive, NoFrame
<1>8. CASE NoDownlink
  BY <1>1, <1>3, <1>8 DEF NoDownlink, NoFrame
<1>9. ASSUME NEW second, Receive(second) PROVE OneFrame'
  BY <1>1, <1>3, <1>9 DEF Receive, NoFrame
<1>10. CASE ParseCommands
  <2>1. ASSUME NEW t, NextIs(t) PROVE inbox # <<>>
    BY <2>1 DEF NextIs
  <2>2. CASE \E w : Crash(w)
    BY <1>3, <2>2
  <2>3. CASE UNCHANGED <<up, down>> /\ inbox # <<>>
    BY <1>2, <2>3
  <2> QED
    BY <1>10, <2>1, <2>2, <2>3
       DEF ParseCommands, OnLinkCheckAns, OnLinkAdrReq, OnDutyCycleReq, OnRxParamSetupReq,
           OnDevStatusReq, OnNewChannelReq, OnOther
<1>11. CASE UNCHANGED cmdVars
  BY <1>2, <1>11 DEF cmdVars, frames
<1> QED
  BY <1>4, <1>5, <1>6, <1>7, <1>8, <1>9, <1>10, <1>11 DEF CmdNext

(* The types of commands that follow each other.                           *)
LEMMA TypesOfConcat ==
  ASSUME NEW C, NEW T, \A c \in C : c.type \in T, NEW q \in Seq(C), NEW r \in Seq(C)
  PROVE  TypesOf(q \o r) = TypesOf(q) \o TypesOf(r)
<1> DEFINE all == q \o r
           U == TypesOf(q)
           V == TypesOf(r)
<1>1. /\ Len(q) \in Nat /\ Len(r) \in Nat
      /\ all \in Seq(C) /\ Len(all) = Len(q) + Len(r)
      /\ \A i \in 1 .. Len(q) + Len(r) :
           all[i] = IF i <= Len(q) THEN q[i] ELSE r[i - Len(q)]
  BY ConcatProperties
<1> HIDE DEF all
<1>2. /\ U \in Seq(T) /\ Len(U) = Len(q) /\ \A i \in 1 .. Len(q) : U[i] = q[i].type
      /\ V \in Seq(T) /\ Len(V) = Len(r) /\ \A i \in 1 .. Len(r) : V[i] = r[i].type
  BY TypesOfIs
<1>3. /\ TypesOf(all) = [i \in 1 .. Len(q) + Len(r) |-> all[i].type]
      /\ \A i \in 1 .. Len(q) + Len(r) : TypesOf(all)[i] = all[i].type
  BY <1>1, TypesOfIs, Zenon
<1> HIDE DEF U, V
<1>4. /\ U \o V \in Seq(T) /\ Len(U \o V) = Len(q) + Len(r)
      /\ \A i \in 1 .. Len(q) + Len(r) :
           (U \o V)[i] = IF i <= Len(q) THEN U[i] ELSE V[i - Len(q)]
  <2>1. U \in Seq(T) /\ V \in Seq(T)
    BY <1>2, Zenon
  <2>2. Splices(U \o V, U, V)
    BY <2>1, ConcatIs, Zenon
  <2>3. Len(U \o V) = Len(q) + Len(r)
    BY <1>2, <2>2, Zenon DEF Splices
  <2>4. \A x, y \in Seq(T) : x \o y \in Seq(T)
    OBVIOUS
  <2> QED BY <1>2, <2>1, <2>2, <2>3, <2>4, Zenon DEF Splices
<1>5. \A i \in 1 .. Len(q) + Len(r) : all[i].type = (U \o V)[i]
  <2> SUFFICES ASSUME NEW i \in 1 .. Len(q) + Len(r) PROVE all[i].type = (U \o V)[i]
    OBVIOUS
  <2>1. CASE i <= Len(q)
    <3>1. i \in 1 .. Len(q)
      BY <1>1, <2>1
    <3>2. all[i] = q[i] /\ (U \o V)[i] = U[i]
      BY <1>1, <1>4, <2>1, Zenon
    <3> QED BY <1>2, <3>1, <3>2, Zenon
  <2>2. CASE ~ (i <= Len(q))
    <3>1. i - Len(q) \in 1 .. Len(r)
      BY <1>1, <2>2
    <3>2. all[i] = r[i - Len(q)] /\ (U \o V)[i] = V[i - Len(q)]
      BY <1>1, <1>4, <2>2, Zenon
    <3> QED BY <1>2, <3>1, <3>2, Zenon
  <2> QED BY <2>1, <2>2
<1>6. U \o V = [i \in 1 .. Len(q) + Len(r) |-> (U \o V)[i]]
  <2>1. \A s \in Seq(T) : s = [i \in 1 .. Len(s) |-> s[i]]
    OBVIOUS
  <2> QED BY <1>4, <2>1, Zenon
<1>7. TypesOf(all) = U \o V
  <2>1. [i \in 1 .. Len(q) + Len(r) |-> all[i].type]
          = [i \in 1 .. Len(q) + Len(r) |-> (U \o V)[i]]
    BY <1>5, Zenon
  <2> QED BY <1>3, <1>6, <2>1, Zenon
<1> QED BY <1>7, Zenon DEF all, U, V

(* A frame that carries all that is owed settles it.                       *)
LEMMA SettledAll == ASSUME NEW told \in Seq(Types), owed = told PROVE Settled(told) = <<>>
<1> HIDE DEF Types
<1>1. IsPrefix(told, owed)
  BY DEF IsPrefix
<1>2. SubSeq(owed, Len(told) + 1, Len(owed)) = <<>>
  BY SubSeqEmpty
<1> QED BY <1>1, <1>2, Zenon DEF Settled

(* A handler that answers the command at the head of what was received.    *)
LEMMA HandledOnce ==
  ASSUME CmdTypeInv, inbox # <<>>, inbox' = Tail(inbox), owed' = owed,
         NEW ans \in Seq(Command), TypesOf(ans) = AnswerTo(Head(inbox)),
         queue' = queue \o ans
  PROVE  NoAnswerForgotten'
<1> DEFINE S == Types
           a == TypesOf(queue)
           b == AnswerTo(Head(inbox))
           c == AnswersTo(Tail(inbox))
<1>1. owed = a \o (b \o c)
  <2>1. AnswersTo(inbox) = b \o c
    BY AnswersToFirst DEF CmdTypeInv
  <2> QED BY <2>1, Zenon DEF CmdTypeInv, NoAnswerForgotten
<1>2. a \in Seq(S) /\ b \in Seq(S) /\ c \in Seq(S)
  <2>1. a \in Seq(S)
    BY TypesOfType, Zenon DEF CmdTypeInv, CmdInv, AnswersInv
  <2>2. b \in Seq(S)
    BY TypesOfType, Zenon
  <2>3. c \in Seq(S)
    BY AnswersToFirst, Zenon DEF CmdTypeInv
  <2> QED BY <2>1, <2>2, <2>3, Zenon
<1>3. TypesOf(queue \o ans) = a \o b
  <2> DEFINE C == Command
  <2>1. queue \in Seq(C) /\ ans \in Seq(C) /\ \A x \in C : x.type \in S
    BY CommandHasType, Zenon DEF CmdTypeInv, CmdInv, AnswersInv
  <2> HIDE DEF C, S
  <2>2. TypesOf(queue \o ans) = TypesOf(queue) \o TypesOf(ans)
    BY <2>1, TypesOfConcat
  <2> QED BY <2>2, Zenon
<1>4. a \o (b \o c) = (a \o b) \o c
  <2>1. Monoid(Seq(S))
    BY ConcatLaws, Zenon
  <2> HIDE DEF S, a, b, c
  <2> QED BY <1>2, <2>1, Zenon DEF Monoid
<1>5. owed' = TypesOf(queue') \o AnswersTo(inbox')
  BY <1>1, <1>3, <1>4, Zenon
<1> QED BY <1>5, Zenon DEF NoAnswerForgotten

LEMMA AnsweredOnce ==
  ASSUME CmdTypeInv, NEW t, NextIs(t), inbox' = Tail(inbox), NEW ans \in Command, Answer(ans),
         t \in DOMAIN AnswerType, ans.type = AnswerType[t]
  PROVE  NoAnswerForgotten'
<1> DEFINE C == Command
<1>1. queue \in Seq(C) /\ ans \in C
  BY Zenon DEF CmdTypeInv, CmdInv, AnswersInv
<1>2. inbox # <<>> /\ queue' = Append(queue, ans) /\ owed' = owed
  BY Zenon DEF NextIs, Answer
<1>3. AnswerTo(Head(inbox)) = <<ans.type>>
  BY Zenon DEF NextIs, AnswerTo
<1> HIDE DEF C
<1>4. Append(queue, ans) = queue \o <<ans>> /\ <<ans>> \in Seq(C)
  BY <1>1
<1>5. TypesOf(<<ans>>) = <<ans.type>>
  BY DEF TypesOf
<1> QED BY <1>2, <1>3, <1>4, <1>5, HandledOnce, Zenon DEF C

LEMMA SkippedOnce ==
  ASSUME CmdTypeInv, NEW t, NextIs(t), inbox' = Tail(inbox), UNCHANGED <<queue, owed>>,
         t \notin DOMAIN AnswerType
  PROVE  NoAnswerForgotten'
<1> DEFINE C == Command
<1>1. queue \in Seq(C)
  BY Zenon DEF CmdTypeInv, CmdInv, AnswersInv
<1>2. inbox # <<>>
  BY Zenon DEF NextIs
<1>3. AnswerTo(Head(inbox)) = <<>>
  BY Zenon DEF NextIs, AnswerTo
<1> HIDE DEF C
<1>4. queue' = queue \o <<>> /\ <<>> \in Seq(C)
  BY <1>1, ConcatEmptySeq
<1>5. TypesOf(<<>>) = <<>>
  BY DEF TypesOf
<1> QED BY <1>2, <1>3, <1>4, <1>5, HandledOnce, Zenon DEF C

LEMMA AnsweredStep == ASSUME CmdTypeInv, [CmdNext]_cmdVars PROVE NoAnswerForgotten'
<1>1. /\ owed = TypesOf(queue) \o AnswersTo(inbox)
      /\ queue \in Seq(Command) /\ inbox \in Seq(Parsed) /\ FramesInv
      /\ TypesOf(queue) \in Seq(Types) /\ AnswersTo(inbox) \in Seq(Types)
  BY TypesOfType, AnswersToType, Zenon
     DEF CmdTypeInv, CmdInv, AnswersInv, NoAnswerForgotten
<1>2. ASSUME inbox = <<>> PROVE owed = TypesOf(queue)
  <2>1. owed = TypesOf(queue) \o <<>>
    BY <1>1, <1>2, AnswersToNone, Zenon
  <2> HIDE DEF Types
  <2> QED BY <1>1, <2>1, ConcatEmptySeq
<1>3. ASSUME UNCHANGED <<queue, owed, inbox>> PROVE NoAnswerForgotten'
  BY <1>1, <1>3, Zenon DEF NoAnswerForgotten
<1>4. ASSUME NEW w, Crash(w) PROVE NoAnswerForgotten'
  BY <1>3, <1>4 DEF Crash, device, frames
<1>5. ASSUME inbox' = <<>>, owed' = TypesOf(queue'), queue' \in Seq(Command)
      PROVE  NoAnswerForgotten'
  <2>1. TypesOf(queue') \in Seq(Types)
    BY <1>5, TypesOfType, Zenon
  <2>2. TypesOf(queue') \o <<>> = TypesOf(queue')
    <3> HIDE DEF Types
    <3> QED BY <2>1, ConcatEmptySeq
  <2>3. AnswersTo(inbox') = <<>>
    BY <1>5, AnswersToNone, Zenon
  <2> QED BY <1>5, <2>2, <2>3, Zenon DEF NoAnswerForgotten
<1>6. CASE AddMacCommand
  <2>1. /\ inbox = <<>> /\ inbox' = inbox /\ queue' = Append(queue, LinkCheckReq)
        /\ owed' = Append(owed, "LINK_CHECK_REQ")
    BY <1>6 DEF AddMacCommand, Idle, frames
  <2> DEFINE C == Command
             new == <<LinkCheckReq>>
  <2>2. queue \in Seq(C) /\ LinkCheckReq \in C
    BY <1>1, AnswerTypes, Zenon
  <2>3. TypesOf(new) = <<"LINK_CHECK_REQ">> /\ TypesOf(queue) = owed
    BY <1>2, <2>1 DEF TypesOf, LinkCheckReq
  <2> HIDE DEF C
  <2>4. queue' = queue \o new /\ new \in Seq(C) /\ queue' \in Seq(C)
    BY <2>1, <2>2
  <2> HIDE DEF new
  <2>5. TypesOf(queue') = owed \o <<"LINK_CHECK_REQ">>
    <3>1. TypesOf(queue \o new) = TypesOf(queue) \o TypesOf(new)
      <4> DEFINE S == Types
      <4>1. \A c \in C : c.type \in S
        BY CommandHasType, Zenon DEF C
      <4> HIDE DEF S
      <4> QED BY <2>2, <2>4, <4>1, TypesOfConcat
    <3> QED BY <2>3, <2>4, <3>1, Zenon
  <2>6. owed' = owed \o <<"LINK_CHECK_REQ">>
    <3>1. \A A : \A s \in Seq(A) : \A e : Append(s, e) = s \o <<e>>
      OBVIOUS
    <3> QED BY <1>1, <2>1, <2>3, <3>1, Zenon
  <2> QED BY <1>5, <2>1, <2>4, <2>5, <2>6, Zenon DEF C
<1>7. ASSUME NEW kind, NEW size, DoSend(kind, size) PROVE NoAnswerForgotten'
  <2>1. inbox = <<>> /\ inbox' = inbox
    BY <1>7 DEF DoSend, Idle
  <2>2. CASE TooBig(size)
    BY <1>3, <1>7, <2>1, <2>2 DEF DoSend, ListAfter
  <2>3. CASE ~ TooBig(size)
    <3>1. /\ queue' = <<>> /\ up'.cmds = queue /\ owed' = Settled(TypesOf(up'.cmds))
      BY <1>7, <2>3 DEF DoSend, ListAfter, SendToPhy
    <3>2. owed' = <<>>
      BY <1>1, <1>2, <2>1, <3>1, SettledAll, Zenon
    <3>3. TypesOf(queue') = <<>> /\ queue' \in Seq(Command)
      BY <3>1 DEF TypesOf
    <3> QED BY <1>5, <2>1, <3>2, <3>3, Zenon
  <2> QED BY <2>2, <2>3
<1>8. CASE Retransmit
  BY <1>3, <1>4, <1>8 DEF Retransmit, device
<1>9. ASSUME NEW reqs, ServerReceive(1, reqs) PROVE NoAnswerForgotten'
  BY <1>3, <1>4, <1>9 DEF ServerReceive, device
<1>10. CASE NoDownlink
  BY <1>3, <1>4, <1>10 DEF NoDownlink, device
<1>11. ASSUME NEW second, Receive(second) PROVE NoAnswerForgotten'
  <2>1. CASE \E w : Crash(w)
    BY <1>4, <2>1
  <2>2. CASE ~ \E w : Crash(w)
    <3>1. down # NoFrame /\ owed' = owed \o AnswersTo(inbox') /\ queue' = queue
      BY <1>11, <2>2, Zenon DEF Receive, device
    <3>2. inbox = <<>>
      BY <3>1, Zenon DEF CmdTypeInv, OneFrame
    <3>3. owed = TypesOf(queue)
      BY <1>2, <3>2
    <3> QED BY <3>1, <3>3, Zenon DEF NoAnswerForgotten
  <2> QED BY <2>1, <2>2
<1>12. CASE OnLinkCheckAns
  <2>1. "LINK_CHECK_ANS" \notin DOMAIN AnswerType
    BY DEF AnswerType
  <2> QED BY <1>12, <2>1, SkippedOnce DEF OnLinkCheckAns
<1>13. CASE OnLinkAdrReq
  <2> DEFINE c      == Head(inbox)
             dr     == GetDataRate(c)
             power  == GetTxPower(c)
             mask   == GetEnabledChannelsList(c)
             maskOk == mask \subseteq 0 .. NumChannels
             ans    == LinkAdrAns(power < NumPowers, DataRateOk(dr, mask), maskOk)
  <2>1. CASE LinkAdrReqThrows(dr, power, mask)
    BY <1>4, <1>13, <2>1 DEF OnLinkAdrReq
  <2>2. CASE ~ LinkAdrReqThrows(dr, power, mask)
    <3>1. NextIs("LINK_ADR_REQ") /\ Answer(ans) /\ inbox' = Tail(inbox)
      BY <1>13, <2>2 DEF OnLinkAdrReq
    <3>2. ans \in Command
      <4>1. /\ (power < NumPowers) \in BOOLEAN
            /\ DataRateOk(dr, mask) \in BOOLEAN
            /\ maskOk \in BOOLEAN
        BY DEF DataRateOk
      <4>2. QED  BY <4>1, AnswerTypes
    <3>3. "LINK_ADR_REQ" \in DOMAIN AnswerType /\ ans.type = AnswerType["LINK_ADR_REQ"]
      BY DEF AnswerType, LinkAdrAns
    <3> HIDE DEF ans
    <3> QED BY <3>1, <3>2, <3>3, AnsweredOnce, Zenon
  <2> QED BY <2>1, <2>2
<1>14. CASE OnDutyCycleReq
  <2>1. CASE Head(inbox).arg[1] = 0
    BY <1>4, <1>14, <2>1 DEF OnDutyCycleReq
  <2>2. CASE Head(inbox).arg[1] # 0
    <3>1. NextIs("DUTY_CYCLE_REQ") /\ Answer(DutyCycleAns) /\ inbox' = Tail(inbox)
      BY <1>14, <2>2 DEF OnDutyCycleReq
    <3>2. /\ "DUTY_CYCLE_REQ" \in DOMAIN AnswerType
          /\ DutyCycleAns.type = AnswerType["DUTY_CYCLE_REQ"]
      BY DEF AnswerType, DutyCycleAns
    <3> QED BY <3>1, <3>2, AnswerTypes, AnsweredOnce, Zenon
  <2> QED BY <2>1, <2>2
<1>15. CASE OnRxParamSetupReq
  <2> DEFINE offset == GetRx1DrOffset(Head(inbox))
             dr     == GetRx2DataRate(Head(inbox))
             ans    == RxParamSetupAns(offset < NumOffsets, dr < NumDR)
  <2>1. NextIs("RX_PARAM_SETUP_REQ") /\ Answer(ans) /\ inbox' = Tail(inbox)
    BY <1>15 DEF OnRxParamSetupReq
  <2>2. ans \in Command
    <3>1. (offset < NumOffsets) \in BOOLEAN /\ (dr < NumDR) \in BOOLEAN
      OBVIOUS
    <3> QED BY <3>1, AnswerTypes
  <2>3. "RX_PARAM_SETUP_REQ" \in DOMAIN AnswerType /\ ans.type = AnswerType["RX_PARAM_SETUP_REQ"]
    BY DEF AnswerType, RxParamSetupAns
  <2> HIDE DEF ans
  <2> QED BY <2>1, <2>2, <2>3, AnsweredOnce, Zenon
<1>16. CASE OnDevStatusReq
  <2>1. NextIs("DEV_STATUS_REQ") /\ Answer(DevStatusAns(10, 10)) /\ inbox' = Tail(inbox)
    BY <1>16 DEF OnDevStatusReq
  <2>2. /\ "DEV_STATUS_REQ" \in DOMAIN AnswerType
        /\ DevStatusAns(10, 10).type = AnswerType["DEV_STATUS_REQ"]
    BY DEF AnswerType, DevStatusAns
  <2> QED BY <2>1, <2>2, AnswerTypes, AnsweredOnce, Zenon
<1>17. CASE OnNewChannelReq
  <2> DEFINE i == GetChannelIndex(Head(inbox))
  <2>1. CASE i \notin Channels
    BY <1>4, <1>17, <2>1 DEF OnNewChannelReq
  <2>2. CASE i \in Channels
    <3>1. /\ NextIs("NEW_CHANNEL_REQ") /\ Answer(NewChannelAns(TRUE, TRUE))
          /\ inbox' = Tail(inbox)
      BY <1>17, <2>2 DEF OnNewChannelReq
    <3>2. /\ "NEW_CHANNEL_REQ" \in DOMAIN AnswerType
          /\ NewChannelAns(TRUE, TRUE).type = AnswerType["NEW_CHANNEL_REQ"]
      BY DEF AnswerType, NewChannelAns
    <3> QED BY <3>1, <3>2, AnswerTypes, AnsweredOnce, Zenon
  <2> QED BY <2>1, <2>2
<1>18. CASE OnOther
  <2>1. CASE \E w : Crash(w)
    BY <1>4, <2>1
  <2>2. CASE ~ \E w : Crash(w)
    <3> DEFINE t == Head(inbox).type
    <3>1. /\ inbox # <<>> /\ crash = "none" /\ t \in {"RX_TIMING_SETUP_REQ", "TX_PARAM_SETUP_REQ"}
          /\ inbox' = Tail(inbox) /\ UNCHANGED <<queue, owed>>
      BY <1>18, <2>2, Zenon DEF OnOther, Skipped, device
    <3>2. t \notin DOMAIN AnswerType
      BY <3>1 DEF AnswerType
    <3>3. NextIs(t)
      BY <3>1, Zenon DEF NextIs
    <3> HIDE DEF t
    <3> QED BY <3>1, <3>2, <3>3, SkippedOnce, Zenon
  <2> QED BY <2>1, <2>2
<1>19. CASE UNCHANGED cmdVars
  BY <1>3, <1>19 DEF cmdVars, device, frames
<1> QED
  BY <1>6, <1>7, <1>8, <1>9, <1>10, <1>11, <1>12, <1>13, <1>14, <1>15, <1>16, <1>17, <1>18, <1>19
     DEF CmdNext, ParseCommands

LEMMA CmdTypeStep == CmdTypeInv /\ [CmdNext]_cmdVars => CmdTypeInv'
BY CmdStep, FramesStep, DeviceStep, SentStep, InboxStep, OneFrameStep, AnsweredStep
   DEF CmdTypeInv

(* Every request of a header that was received is answered once, in order, *)
(* by the next new packet on the air: no handler of ParseCommands leaves   *)
(* one out, and neither a packet dropped for its size nor a retransmission *)
(* takes an answer away, for every set of requests, sizes and channels.    *)
THEOREM AnswersAreKept == CmdSpec => []NoAnswerForgotten
<1>1. CmdTypeInv => NoAnswerForgotten
  BY DEF CmdTypeInv
<1> QED BY <1>1, CmdTypeInit, CmdTypeStep, PTL DEF CmdSpec

(* Whatever answers and requests fill the frames, every field the device   *)
(* and the server keep stays in its range, and every command the loop of   *)
(* ParseCommands is given has the bytes its handler reads.                 *)
THEOREM CmdTypeCorrect == CmdSpec => [](CmdTypeOK /\ inbox \in Seq(Parsed))
<1>1. CmdTypeInv => CmdTypeOK /\ inbox \in Seq(Parsed)
  BY TypeInvType, Zenon DEF CmdTypeInv
<1> QED BY <1>1, CmdTypeInit, CmdTypeStep, PTL DEF CmdSpec
=============================================================================
