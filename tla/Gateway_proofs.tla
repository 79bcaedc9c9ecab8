---------------------------- MODULE Gateway_proofs ----------------------------
(***************************************************************************)
(* The gateways, proved for any number of gateways, paths, sub-bands and   *)
(* packets and any air times: an occupied path always has the event that   *)
(* frees it, every packet gets one outcome, and a gateway on the air       *)
(* receives only if two of its transmissions overlapped.  The              *)
(* packet tracker on top of them: its outcomes are those the gateways      *)
(* traced, so that the counts add up and the maps of its layers agree.     *)
(***************************************************************************)
EXTENDS PacketTracker, FiniteSetTheorems, TLAPS

Receptions == [gw : Gateways, pkt : Packets, left : Nat]

(* PathsMatchEvents of given paths and events.                             *)
Matching(ps, evs) ==
  /\ \A g \in Gateways, p \in Packets :
       p \in ps[g] <=> \E e \in evs : e.gw = g /\ e.pkt = p
  /\ \A e, f \in evs : e.gw = f.gw /\ e.pkt = f.pkt => e = f
  /\ \A g \in Gateways : Cardinality(ps[g]) <= NumPaths

(* m_occupiedReceptionPaths never counts fewer paths than are locked, so   *)
(* that it does not fall below 0: Send frees paths without counting down.  *)
Counted(ps, n) ==
  \A g \in Gateways : IsFiniteSet(ps[g]) /\ Cardinality(ps[g]) <= n[g]

(* What has not left the server's link has not been heard anywhere.        *)
Unheard ==
  \A p \in Packets :
    p \notin sent \/ (\E m \in toGateway : m.pkt = p) =>
      \A g \in Gateways : p \notin paths[g] /\ fates[g][p] = 0

(* A downlink is on one link, once.                                        *)
OneCopy ==
  /\ \A m \in toGateway : m.pkt \in sent \ Uplinks
  /\ \A m, n \in toGateway : m.pkt = n.pkt => m = n

GwInv ==
  /\ GwTypeOK /\ PathsMatchEvents /\ OneFate
  /\ Counted(paths, occupied) /\ Unheard /\ OneCopy

-----------------------------------------------------------------------------
(* A sub-band stays closed for more than two downlinks after one began     *)
(* there, as any duty cycle below a third makes it.                        *)
BandsStayClosed == \A b \in Bands : BandOff[b] > 2 * DownTime

(* The transmission e closed the sub-band b; the one that closed c is over *)
(* and overlapped with e, or ended when e began.                           *)
Began(e, b) == Age(e.gw, b) = DownTime - e.left
Ended(e, c) == Age(e.gw, c) >= DownTime /\ Age(e.gw, c) <= 2 * DownTime - e.left

(* While the flag is set no path is occupied, and it is set throughout a   *)
(* transmission unless another one, in another sub-band, has cleared it.   *)
TxInv ==
  /\ \A e \in txEnds : e.left <= DownTime /\ \E b \in Bands : Began(e, b)
  /\ \A e \in txEnds :
       isTx[e.gw] \/ \E b, c \in Bands : b # c /\ Began(e, b) /\ Ended(e, c)
  /\ \A g \in Gateways : isTx[g] => paths[g] = {}

-----------------------------------------------------------------------------
(* What StartReceive makes of the paths and events it is given.            *)
LEMMA StartTypes ==
  ASSUME NEW p \in Packets, NEW d \in Nat, NEW gs \in SUBSET Gateways, NEW strong,
         NEW ps \in [Gateways -> SUBSET Packets], NEW evs \in SUBSET Receptions,
         NEW fs \in [Gateways -> [Packets -> Nat]],
         occupied \in [Gateways -> Nat],
         StartReceive(p, d, gs, strong, ps, evs, fs)
  PROVE  /\ paths' \in [Gateways -> SUBSET Packets]
         /\ endRx' \in SUBSET Receptions
         /\ occupied' \in [Gateways -> Nat]
         /\ fates' \in [Gateways -> [Packets -> Nat]]
BY DEF StartReceive, Receptions, Traced

LEMMA StartEffect ==
  ASSUME NEW p \in Packets, NEW d \in Nat, NEW gs \in SUBSET Gateways, NEW strong,
         NEW ps \in [Gateways -> SUBSET Packets], NEW evs \in SUBSET Receptions,
         NEW fs \in [Gateways -> [Packets -> Nat]],
         \A g \in Gateways : p \notin ps[g],
         StartReceive(p, d, gs, strong, ps, evs, fs),
         NEW g \in Gateways
  PROVE  /\ \/ paths'[g] = ps[g]
            \/ paths'[g] = ps[g] \cup {p} /\ g \in gs
         /\ \A q \in Packets :
              fates'[g][q] = fs[g][q] + (IF q = p /\ g \in gs /\ p \notin paths'[g]
                                         THEN 1 ELSE 0)
         /\ isTx[g] => paths'[g] = ps[g]
BY DEF StartReceive, Traced, CanLock

LEMMA StartLocks ==
  ASSUME NEW p, NEW d, NEW gs \in SUBSET Gateways, NEW strong,
         NEW ps, NEW evs, NEW fs, NEW g \in Gateways, p \notin ps[g],
         StartReceive(p, d, gs, strong, ps, evs, fs)
  PROVE  p \in paths'[g] <=> g \in gs \cap strong /\ CanLock(g, ps)
BY DEF StartReceive

LEMMA StartKeepsPaths ==
  ASSUME NEW p \in Packets, NEW d \in Nat, NEW gs \in SUBSET Gateways, NEW strong,
         NEW ps \in [Gateways -> SUBSET Packets], NEW evs \in SUBSET Receptions,
         NEW fs \in [Gateways -> [Packets -> Nat]],
         occupied \in [Gateways -> Nat],
         \A g \in Gateways : p \notin ps[g],
         Matching(ps, evs), Counted(ps, occupied),
         StartReceive(p, d, gs, strong, ps, evs, fs)
  PROVE  Matching(paths', endRx') /\ Counted(paths', occupied')
<1> DEFINE locks == {g \in gs \cap strong : CanLock(g, ps)}
           started == {[gw |-> g, pkt |-> p, left |-> d] : g \in locks}
<1>1. /\ paths' = [g \in Gateways |-> IF g \in locks THEN ps[g] \cup {p} ELSE ps[g]]
      /\ endRx' = evs \cup started
      /\ occupied' = [g \in Gateways |-> occupied[g] + (IF g \in locks THEN 1 ELSE 0)]
  BY DEF StartReceive
<1>2. /\ locks \subseteq Gateways
      /\ \A g \in locks : Cardinality(ps[g]) < NumPaths
  BY DEF CanLock
<1>3. /\ \A e \in started : e.pkt = p /\ e.left = d /\ e.gw \in locks
      /\ \A g \in locks : \E e \in started : e.gw = g /\ e.pkt = p
      /\ \A e, f \in started : e.gw = f.gw => e = f
  <2>1. \A e \in started : e.pkt = p /\ e.left = d /\ e.gw \in locks
    OBVIOUS
  <2>2. ASSUME NEW g \in locks PROVE \E e \in started : e.gw = g /\ e.pkt = p
    <3> WITNESS [gw |-> g, pkt |-> p, left |-> d] \in started
    <3> QED OBVIOUS
  <2>3. \A e, f \in started : e.gw = f.gw => e = f
    OBVIOUS
  <2> QED BY <2>1, <2>2, <2>3
<1>4. \A e \in evs : e.gw \in Gateways /\ e.pkt \in Packets /\ e.pkt # p
  BY DEF Matching, Receptions
<1> HIDE DEF locks, started
<1>5. \A g \in Gateways, q \in Packets :
        q \in paths'[g] <=> \E e \in endRx' : e.gw = g /\ e.pkt = q
  BY <1>1, <1>2, <1>3, <1>4 DEF Matching
<1>6. \A e, f \in endRx' : e.gw = f.gw /\ e.pkt = f.pkt => e = f
  BY <1>1, <1>3, <1>4 DEF Matching
<1>7. ASSUME NEW g \in Gateways
      PROVE  /\ IsFiniteSet(paths'[g]) /\ Cardinality(paths'[g]) <= NumPaths
             /\ Cardinality(paths'[g]) <= occupied'[g]
  <2>1. IsFiniteSet(ps[g]) /\ Cardinality(ps[g]) \in Nat
    BY FS_CardinalityType DEF Counted
  <2>2. CASE g \in locks
    <3>1. /\ IsFiniteSet(ps[g] \cup {p})
          /\ Cardinality(ps[g] \cup {p}) = Cardinality(ps[g]) + 1
      BY <2>1, FS_AddElement
    <3>2. paths'[g] = ps[g] \cup {p} /\ occupied'[g] = occupied[g] + 1
      BY <1>1, <2>2
    <3> QED BY <3>1, <3>2, <1>2, <2>1, <2>2, GatewayAssumption
            DEF Counted, GatewayAssumption
  <2>3. CASE g \notin locks
    BY <1>1, <2>1, <2>3 DEF Matching, Counted
  <2> QED BY <2>2, <2>3
<1> QED BY <1>5, <1>6, <1>7 DEF Matching, Counted

-----------------------------------------------------------------------------
(* Each action keeps the invariant.                                        *)
LEMMA GwInitially == GwInit => GwInv
<1> SUFFICES ASSUME GwInit PROVE GwInv
  OBVIOUS
<1>1. IsFiniteSet({}) /\ Cardinality({}) = 0
  BY FS_EmptySet
<1> QED BY <1>1, GatewayAssumption
        DEF GwInit, GwInv, GwTypeOK, PathsMatchEvents, OneFate, Counted, Unheard,
            OneCopy, GatewayAssumption

LEMMA PathsOfInv ==
  GwInv => /\ Matching(paths, endRx) /\ Counted(paths, occupied)
           /\ paths \in [Gateways -> SUBSET Packets] /\ endRx \in SUBSET Receptions
           /\ fates \in [Gateways -> [Packets -> Nat]] /\ occupied \in [Gateways -> Nat]
BY DEF GwInv, GwTypeOK, PathsMatchEvents, Matching, Receptions

LEMMA MatchingIsMatch ==
  /\ Matching(paths, endRx) <=> PathsMatchEvents
  /\ Matching(paths', endRx') <=> PathsMatchEvents'
BY DEF Matching, PathsMatchEvents

LEMMA UplinkKeeps ==
  ASSUME GwInv, NEW p \in Uplinks, NEW d \in UpTimes, NEW strong \in SUBSET Gateways,
         UplinkArrives(p, d, strong)
  PROVE  GwInv'
<1>1. /\ p \in Packets /\ p \notin sent /\ sent' = sent \cup {p} /\ d \in Nat
      /\ StartReceive(p, d, Gateways, strong, paths, endRx, fates)
      /\ UNCHANGED <<isTx, txEnds, bandLeft, toServer, toGateway, lost>>
  BY GatewayAssumption DEF GatewayAssumption, UplinkArrives
<1>2. \A g \in Gateways : p \notin paths[g] /\ fates[g][p] = 0
  BY <1>1 DEF GwInv, Unheard
<1>3. Matching(paths', endRx') /\ Counted(paths', occupied')
  BY <1>1, <1>2, PathsOfInv, StartKeepsPaths, Zenon
<1>4. GwTypeOK'
  <2>1. /\ paths' \in [Gateways -> SUBSET Packets]
        /\ endRx' \in SUBSET Receptions
        /\ occupied' \in [Gateways -> Nat]
        /\ fates' \in [Gateways -> [Packets -> Nat]]
    BY <1>1, PathsOfInv, StartTypes, Zenon
  <2> QED BY <1>1, <2>1 DEF GwInv, GwTypeOK, Receptions
<1>5. ASSUME NEW g \in Gateways
      PROVE  /\ paths'[g] = paths[g] \/ paths'[g] = paths[g] \cup {p}
             /\ \A q \in Packets :
                  fates'[g][q] = fates[g][q] + (IF q = p /\ p \notin paths'[g] THEN 1 ELSE 0)
  BY <1>1, <1>2, PathsOfInv, StartEffect
<1>6. OneFate'
  <2> SUFFICES ASSUME NEW g \in Gateways, NEW r \in Packets
               PROVE  /\ fates'[g][r] <= 1
                      /\ r \in paths'[g] => fates'[g][r] = 0 /\ r \in sent'
                      /\ r \in Uplinks \cap sent' => fates'[g][r] = 1 \/ r \in paths'[g]
                      /\ \A m \in toServer' : m.gw = g /\ m.pkt = r => fates'[g][r] = 1
    BY DEF OneFate
  <2>1. /\ fates[g][r] \in Nat /\ fates[g][r] <= 1
        /\ r \in paths[g] => fates[g][r] = 0 /\ r \in sent
        /\ r \in Uplinks \cap sent => fates[g][r] = 1 \/ r \in paths[g]
        /\ \A m \in toServer : m.gw = g /\ m.pkt = r => fates[g][r] = 1
    BY DEF GwInv, GwTypeOK, OneFate
  <2> QED BY <2>1, <1>1, <1>2, <1>5
<1>7. p \notin {m.pkt : m \in toGateway}
  BY <1>1 DEF GwInv, OneCopy
<1>8. Unheard' /\ OneCopy'
  BY <1>1, <1>5, <1>7 DEF GwInv, GwTypeOK, Unheard, OneCopy
<1> QED BY <1>3, <1>4, <1>6, <1>8, MatchingIsMatch DEF GwInv, Counted

LEMMA EndReceiveKeeps ==
  ASSUME GwInv, NEW e \in endRx, EndReceive(e)
  PROVE  GwInv'
<1> DEFINE h == e.gw
           q == e.pkt
<1>1. h \in Gateways /\ q \in Packets /\ e.left \in Nat /\ q \in paths[h]
  BY DEF GwInv, GwTypeOK, PathsMatchEvents
<1>2. /\ endRx' = endRx \ {e}
      /\ paths' = [paths EXCEPT ![h] = @ \ {q}]
      /\ occupied' = [occupied EXCEPT ![h] = @ - 1]
      /\ UNCHANGED <<isTx, txEnds, bandLeft, toGateway, sent, lost>>
  BY <1>1 DEF EndReceive, FreePath, GwInv, GwTypeOK
<1>3. /\ fates' \in [Gateways -> [Packets -> Nat]]
      /\ \A g \in Gateways, r \in Packets :
           fates'[g][r] = fates[g][r] + (IF g = h /\ r = q THEN 1 ELSE 0)
  BY <1>1 DEF EndReceive, Traced, GwInv, GwTypeOK
<1>4. \/ toServer' = toServer
      \/ /\ q \in Uplinks
         /\ toServer' = toServer \cup {[gw |-> h, pkt |-> q, left |-> LinkDelay]}
  BY DEF EndReceive
<1>5. fates[h][q] = 0 /\ q \in sent
  BY <1>1 DEF GwInv, OneFate
<1>6. \A m \in toGateway : m.pkt # q
  BY <1>1 DEF GwInv, Unheard
<1>7. ASSUME NEW g \in Gateways
      PROVE  /\ paths'[g] = IF g = h THEN paths[g] \ {q} ELSE paths[g]
             /\ occupied'[g] = IF g = h THEN occupied[g] - 1 ELSE occupied[g]
  BY <1>2 DEF GwInv, GwTypeOK
<1>8. ASSUME NEW g \in Gateways
      PROVE  /\ IsFiniteSet(paths'[g]) /\ Cardinality(paths'[g]) <= occupied'[g]
             /\ Cardinality(paths'[g]) <= NumPaths
             /\ occupied'[g] \in Nat
  <2>1. /\ IsFiniteSet(paths[g]) /\ Cardinality(paths[g]) \in Nat
        /\ Cardinality(paths[g]) <= occupied[g] /\ Cardinality(paths[g]) <= NumPaths
        /\ occupied[g] \in Nat
    BY FS_CardinalityType DEF GwInv, GwTypeOK, Counted, PathsMatchEvents
  <2>2. /\ IsFiniteSet(paths[g] \ {q})
        /\ q \in paths[g] => Cardinality(paths[g] \ {q}) = Cardinality(paths[g]) - 1
        /\ Cardinality(paths[g] \ {q}) \in Nat
    BY <2>1, FS_RemoveElement, FS_CardinalityType
  <2> QED BY <1>1, <1>7, <2>1, <2>2, GatewayAssumption DEF GatewayAssumption
<1>9. PathsMatchEvents'
  <2>1. \A g \in Gateways, r \in Packets :
          r \in paths'[g] <=> \E f \in endRx' : f.gw = g /\ f.pkt = r
    <3> SUFFICES ASSUME NEW g \in Gateways, NEW r \in Packets
                 PROVE  r \in paths'[g] <=> \E f \in endRx' : f.gw = g /\ f.pkt = r
      OBVIOUS
    <3>1. r \in paths[g] <=> \E f \in endRx : f.gw = g /\ f.pkt = r
      BY DEF GwInv, PathsMatchEvents
    <3>2. \A f \in endRx : f = e <=> f.gw = h /\ f.pkt = q
      BY DEF GwInv, PathsMatchEvents
    <3> QED BY <3>1, <3>2, <1>2, <1>7
  <2> QED BY <2>1, <1>2, <1>8 DEF GwInv, PathsMatchEvents
<1> HIDE DEF h, q
<1>10. GwTypeOK'
  <2>1. paths' \in [Gateways -> SUBSET Packets]
    BY <1>2 DEF GwInv, GwTypeOK
  <2>2. occupied' \in [Gateways -> Nat]
    BY <1>2, <1>8 DEF GwInv, GwTypeOK
  <2>3. toServer' \subseteq [gw : Gateways, pkt : Uplinks, left : Nat]
    BY <1>1, <1>4, GatewayAssumption DEF GwInv, GwTypeOK, GatewayAssumption
  <2> QED BY <1>2, <1>3, <2>1, <2>2, <2>3 DEF GwInv, GwTypeOK
<1>11. OneFate'
  <2> SUFFICES ASSUME NEW g \in Gateways, NEW r \in Packets
               PROVE  /\ fates'[g][r] <= 1
                      /\ r \in paths'[g] => fates'[g][r] = 0 /\ r \in sent'
                      /\ r \in Uplinks \cap sent' => fates'[g][r] = 1 \/ r \in paths'[g]
                      /\ \A m \in toServer' : m.gw = g /\ m.pkt = r => fates'[g][r] = 1
    BY DEF OneFate
  <2>1. /\ fates[g][r] \in Nat /\ fates[g][r] <= 1
        /\ r \in paths[g] => fates[g][r] = 0 /\ r \in sent
        /\ r \in Uplinks \cap sent => fates[g][r] = 1 \/ r \in paths[g]
        /\ \A m \in toServer : m.gw = g /\ m.pkt = r => fates[g][r] = 1
    BY DEF GwInv, GwTypeOK, OneFate
  <2>2. \A m \in toServer' : m \in toServer \/ (m.gw = h /\ m.pkt = q)
    BY <1>4
  <2>3. CASE g = h /\ r = q
    <3>1. fates'[g][r] = 1
      BY <2>3, <1>3, <1>5
    <3>2. r \notin paths'[g]
      BY <2>3, <1>7
    <3> QED BY <3>1, <3>2
  <2>4. CASE ~ (g = h /\ r = q)
    <3>1. fates'[g][r] = fates[g][r]
      BY <2>1, <2>4, <1>3
    <3>3. r \in paths'[g] <=> r \in paths[g]
      BY <2>4, <1>7
    <3>2. \A m \in toServer' : m.gw = g /\ m.pkt = r => m \in toServer
      BY <2>2, <2>4
    <3> QED BY <2>1, <3>1, <3>2, <3>3, <1>2
  <2> QED BY <2>3, <2>4
<1>12. Unheard' /\ OneCopy'
  BY <1>2, <1>3, <1>5, <1>6, <1>7 DEF GwInv, GwTypeOK, Unheard, OneCopy
<1> QED BY <1>8, <1>9, <1>10, <1>11, <1>12 DEF GwInv, Counted

LEMMA DropKeeps ==
  ASSUME GwInv, NEW m \in toGateway, DownlinkArrives(m), DropDownlink(m)
  PROVE  GwInv'
<1>1. /\ toGateway' = toGateway \ {m} /\ lost' = lost \cup {m.pkt}
      /\ UNCHANGED <<paths, endRx, occupied, isTx, txEnds, bandLeft, fates, toServer, sent>>
  BY DEF DownlinkArrives, DropDownlink
<1>2. m.pkt \in Packets
  BY DEF GwInv, GwTypeOK
<1> QED BY <1>1, <1>2
        DEF GwInv, GwTypeOK, PathsMatchEvents, OneFate, Counted, Unheard, OneCopy

LEMMA TransmitKeeps ==
  ASSUME GwInv, NEW m \in toGateway, NEW strong \in SUBSET (Gateways \ {m.gw}),
         m.left = 0, toGateway' = toGateway \ {m}, UNCHANGED <<toServer, sent>>,
         Transmit(m, strong)
  PROVE  GwInv'
<1> DEFINE h == m.gw
           p == m.pkt
           ps == [paths EXCEPT ![h] = {}]
           evs == Uncancelled(h)
           fs == [fates EXCEPT ![h] =
                    [q \in Packets |-> @[q] + (IF q \in paths[h] THEN 1 ELSE 0)]]
<1>1. h \in Gateways /\ p \in Packets /\ m.band \in Bands /\ p \in sent /\ p \notin Uplinks
  BY DEF GwInv, GwTypeOK, OneCopy
<1>2. /\ StartReceive(p, DownTime, Gateways \ {h}, strong, ps, evs, fs)
      /\ isTx' = [isTx EXCEPT ![h] = TRUE]
      /\ txEnds' = txEnds \cup {[gw |-> h, left |-> DownTime]}
      /\ bandLeft' = [bandLeft EXCEPT ![h][m.band] = BandOff[m.band]]
      /\ UNCHANGED lost
  BY DEF Transmit
<1>3. \A g \in Gateways : p \notin paths[g] /\ fates[g][p] = 0
  BY <1>1 DEF GwInv, Unheard
<1>4. /\ ps \in [Gateways -> SUBSET Packets] /\ evs \in SUBSET Receptions
      /\ fs \in [Gateways -> [Packets -> Nat]]
  BY <1>1 DEF GwInv, GwTypeOK, Uncancelled, Receptions
<1>5. ASSUME NEW g \in Gateways
      PROVE  /\ ps[g] = IF g = h THEN {} ELSE paths[g]
             /\ \A q \in Packets :
                  fs[g][q] = fates[g][q] + (IF g = h /\ q \in paths[g] THEN 1 ELSE 0)
  BY <1>1 DEF GwInv, GwTypeOK
<1>6. \A g \in Gateways : p \notin ps[g]
  BY <1>3, <1>5
<1>7. Matching(ps, evs) /\ Counted(ps, occupied)
  <2>1. IsFiniteSet({}) /\ Cardinality({}) = 0
    BY FS_EmptySet
  <2>2. \A g \in Gateways, q \in Packets :
          q \in ps[g] <=> \E e \in evs : e.gw = g /\ e.pkt = q
    BY <1>5 DEF GwInv, PathsMatchEvents, Uncancelled
  <2>3. \A e, f \in evs : e.gw = f.gw /\ e.pkt = f.pkt => e = f
    BY DEF GwInv, PathsMatchEvents, Uncancelled
  <2>4. \A g \in Gateways : /\ IsFiniteSet(ps[g]) /\ Cardinality(ps[g]) <= NumPaths
                            /\ Cardinality(ps[g]) <= occupied[g]
    BY <2>1, <1>5, GatewayAssumption
    DEF GwInv, GwTypeOK, PathsMatchEvents, Counted, GatewayAssumption
  <2> QED BY <2>2, <2>3, <2>4 DEF Matching, Counted
<1>8. DownTime \in Nat /\ BandOff[m.band] \in Nat
  BY <1>1, GatewayAssumption DEF GatewayAssumption
<1>9. occupied \in [Gateways -> Nat] /\ Gateways \ {h} \in SUBSET Gateways
  BY DEF GwInv, GwTypeOK
<1> HIDE DEF h, p, ps, evs, fs
<1>10. Matching(paths', endRx') /\ Counted(paths', occupied')
  BY <1>1, <1>2, <1>4, <1>6, <1>7, <1>8, <1>9, StartKeepsPaths, Zenon
<1>11. GwTypeOK'
  <2>1. /\ paths' \in [Gateways -> SUBSET Packets]
        /\ endRx' \in SUBSET Receptions
        /\ occupied' \in [Gateways -> Nat]
        /\ fates' \in [Gateways -> [Packets -> Nat]]
    BY <1>1, <1>2, <1>4, <1>8, <1>9, StartTypes, Zenon
  <2>2. /\ isTx' \in [Gateways -> BOOLEAN]
        /\ txEnds' \subseteq [gw : Gateways, left : Nat]
        /\ bandLeft' \in [Gateways -> [Bands -> Nat]]
    BY <1>1, <1>2, <1>8 DEF GwInv, GwTypeOK
  <2> QED BY <1>2, <2>1, <2>2 DEF GwInv, GwTypeOK, Receptions
<1>12. ASSUME NEW g \in Gateways
       PROVE  /\ \/ paths'[g] = ps[g]
                 \/ paths'[g] = ps[g] \cup {p} /\ g # h
              /\ \A q \in Packets :
                   fates'[g][q] = fs[g][q] + (IF q = p /\ g # h /\ p \notin paths'[g]
                                              THEN 1 ELSE 0)
  <2> DEFINE gs == Gateways \ {h}
  <2>1. gs \in SUBSET Gateways /\ StartReceive(p, DownTime, gs, strong, ps, evs, fs)
    BY <1>2
  <2>2. g \in gs <=> g # h
    OBVIOUS
  <2> HIDE DEF gs
  <2>3. /\ \/ paths'[g] = ps[g]
           \/ paths'[g] = ps[g] \cup {p} /\ g \in gs
        /\ \A q \in Packets :
             fates'[g][q] = fs[g][q] + (IF q = p /\ g \in gs /\ p \notin paths'[g]
                                        THEN 1 ELSE 0)
    BY <1>1, <1>4, <1>6, <1>8, <2>1, StartEffect
  <2> QED BY <2>2, <2>3
<1>13. OneFate'
  <2> SUFFICES ASSUME NEW g \in Gateways, NEW r \in Packets
               PROVE  /\ fates'[g][r] <= 1
                      /\ r \in paths'[g] => fates'[g][r] = 0 /\ r \in sent'
                      /\ r \in Uplinks \cap sent' => fates'[g][r] = 1 \/ r \in paths'[g]
                      /\ \A n \in toServer' : n.gw = g /\ n.pkt = r => fates'[g][r] = 1
    BY DEF OneFate
  <2>1. /\ fates[g][r] \in Nat /\ fates[g][r] <= 1
        /\ r \in paths[g] => fates[g][r] = 0 /\ r \in sent
        /\ r \in Uplinks \cap sent => fates[g][r] = 1 \/ r \in paths[g]
        /\ \A n \in toServer : n.gw = g /\ n.pkt = r => fates[g][r] = 1
    BY DEF GwInv, GwTypeOK, OneFate
  <2>2. CASE r = p
    BY <2>1, <2>2, <1>1, <1>3, <1>5, <1>12
  <2>3. CASE r # p
    BY <2>1, <2>3, <1>5, <1>12
  <2> QED BY <2>2, <2>3
<1>14. \A n \in toGateway' : n \in toGateway /\ n.pkt # p
  BY DEF GwInv, OneCopy, p
<1>15. Unheard'
  <2> SUFFICES ASSUME NEW q \in Packets,
                      q \notin sent \/ (\E n \in toGateway' : n.pkt = q),
                      NEW g \in Gateways
               PROVE  q \notin paths'[g] /\ fates'[g][q] = 0
    BY DEF Unheard
  <2>1. q # p /\ q \notin paths[g] /\ fates[g][q] = 0
    BY <1>1, <1>14 DEF GwInv, Unheard
  <2> QED BY <2>1, <1>5, <1>12
<1>16. OneCopy'
  BY <1>14 DEF GwInv, OneCopy
<1> QED BY <1>10, <1>11, <1>13, <1>15, <1>16, MatchingIsMatch DEF GwInv, Counted

LEMMA TxFinishedKeeps ==
  ASSUME GwInv, NEW e \in txEnds, TxFinished(e)
  PROVE  GwInv'
<1>1. e.gw \in Gateways
  BY DEF GwInv, GwTypeOK
<1> QED BY <1>1 DEF TxFinished, GwInv, GwTypeOK, PathsMatchEvents, OneFate, Counted,
                    Unheard, OneCopy

(* The events one tick on are the same events, each a tick nearer.         *)
LEMMA SoonerReceptions ==
  ASSUME NEW evs \in SUBSET Receptions, NothingDue(evs)
  PROVE  /\ Sooner(evs) \subseteq Receptions
         /\ \A f \in Sooner(evs) : \E e \in evs :
              f.gw = e.gw /\ f.pkt = e.pkt /\ f.left = e.left - 1
         /\ \A e \in evs : \E f \in Sooner(evs) : f.gw = e.gw /\ f.pkt = e.pkt
<1>1. /\ Sooner(evs) \subseteq Receptions
      /\ \A f \in Sooner(evs) : \E e \in evs :
           f.gw = e.gw /\ f.pkt = e.pkt /\ f.left = e.left - 1
  BY DEF Receptions, Sooner, NothingDue
<1>2. ASSUME NEW e \in evs
      PROVE  \E f \in Sooner(evs) : f.gw = e.gw /\ f.pkt = e.pkt
  <2> DEFINE f == [e EXCEPT !.left = @ - 1]
  <2>1. f.gw = e.gw /\ f.pkt = e.pkt
    BY DEF Receptions
  <2>2. f \in Sooner(evs)
    BY DEF Sooner
  <2> QED BY <2>1, <2>2
<1> QED BY <1>1, <1>2

LEMMA SoonerEnds ==
  ASSUME NEW evs \in SUBSET [gw : Gateways, left : Nat], NothingDue(evs)
  PROVE  /\ Sooner(evs) \subseteq [gw : Gateways, left : Nat]
         /\ \A f \in Sooner(evs) : \E e \in evs : f.gw = e.gw /\ f.left = e.left - 1
BY DEF Sooner, NothingDue

LEMMA SoonerDownlinks ==
  ASSUME NEW evs \in SUBSET [gw : Gateways, pkt : Packets, band : Bands, left : Nat],
         NothingDue(evs)
  PROVE  /\ Sooner(evs) \subseteq [gw : Gateways, pkt : Packets, band : Bands, left : Nat]
         /\ \A f \in Sooner(evs) : \E e \in evs :
              /\ f.gw = e.gw /\ f.pkt = e.pkt /\ f.band = e.band
              /\ f.left = e.left - 1
BY DEF Sooner, NothingDue

LEMMA SoonerUplinks ==
  ASSUME NEW evs \in SUBSET [gw : Gateways, pkt : Uplinks, left : Nat], NothingDue(evs)
  PROVE  /\ Sooner(evs) \subseteq [gw : Gateways, pkt : Uplinks, left : Nat]
         /\ \A f \in Sooner(evs) : \E e \in evs : f.gw = e.gw /\ f.pkt = e.pkt
BY DEF Sooner, NothingDue

LEMMA TickKeeps ==
  ASSUME GwInv, GwTick
  PROVE  GwInv'
<1>1. /\ NothingDue(endRx) /\ NothingDue(txEnds) /\ NothingDue(toGateway)
      /\ NothingDue(toServer)
      /\ endRx' = Sooner(endRx) /\ txEnds' = Sooner(txEnds)
      /\ toGateway' = Sooner(toGateway) /\ toServer' = Sooner(toServer)
      /\ bandLeft' = [g \in Gateways |-> [b \in Bands |-> OneLess(bandLeft[g][b])]]
      /\ UNCHANGED <<paths, occupied, isTx, sent, fates, lost>>
  BY DEF GwTick
<1>2. /\ endRx \in SUBSET Receptions
      /\ txEnds \in SUBSET [gw : Gateways, left : Nat]
      /\ toGateway \in SUBSET [gw : Gateways, pkt : Packets, band : Bands, left : Nat]
      /\ toServer \in SUBSET [gw : Gateways, pkt : Uplinks, left : Nat]
  BY DEF GwInv, GwTypeOK, Receptions
<1>3. /\ endRx' \subseteq Receptions
      /\ \A f \in endRx' : \E e \in endRx :
           f.gw = e.gw /\ f.pkt = e.pkt /\ f.left = e.left - 1
      /\ \A e \in endRx : \E f \in endRx' : f.gw = e.gw /\ f.pkt = e.pkt
  BY <1>1, <1>2, SoonerReceptions
<1>4. /\ toGateway' \subseteq [gw : Gateways, pkt : Packets, band : Bands, left : Nat]
      /\ \A f \in toGateway' : \E e \in toGateway :
           f.gw = e.gw /\ f.pkt = e.pkt /\ f.band = e.band /\ f.left = e.left - 1
  BY <1>1, <1>2, SoonerDownlinks
<1>5. /\ toServer' \subseteq [gw : Gateways, pkt : Uplinks, left : Nat]
      /\ \A f \in toServer' : \E e \in toServer : f.gw = e.gw /\ f.pkt = e.pkt
  BY <1>1, <1>2, SoonerUplinks
<1>6. GwTypeOK'
  <2>1. txEnds' \subseteq [gw : Gateways, left : Nat]
    BY <1>1, <1>2, SoonerEnds
  <2>2. bandLeft' \in [Gateways -> [Bands -> Nat]]
    BY <1>1 DEF GwInv, GwTypeOK, OneLess
  <2> QED BY <1>1, <1>3, <1>4, <1>5, <2>1, <2>2 DEF GwInv, GwTypeOK, Receptions
<1>7. PathsMatchEvents'
  <2>1. \A g \in Gateways, p \in Packets :
          (\E f \in endRx' : f.gw = g /\ f.pkt = p) <=>
          (\E e \in endRx : e.gw = g /\ e.pkt = p)
    BY <1>3
  <2>2. \A e, f \in endRx' : e.gw = f.gw /\ e.pkt = f.pkt => e = f
    BY <1>3 DEF GwInv, PathsMatchEvents, Receptions
  <2> QED BY <1>1, <2>1, <2>2 DEF GwInv, PathsMatchEvents
<1>8. OneFate'
  BY <1>1, <1>5 DEF GwInv, OneFate
<1>9. OneCopy'
  <2>1. \A m, n \in toGateway' : m.pkt = n.pkt => m = n
    BY <1>4 DEF GwInv, OneCopy
  <2> QED BY <1>1, <1>4, <2>1 DEF GwInv, OneCopy
<1>10. Unheard'
  BY <1>1, <1>4 DEF GwInv, Unheard
<1> QED BY <1>1, <1>6, <1>7, <1>8, <1>9, <1>10 DEF GwInv, Counted

LEMMA ServerSendsKeeps ==
  ASSUME GwInv, ServerSends
  PROVE  GwInv'
<1> PICK g \in Gateways, p \in (Packets \ Uplinks) \ sent, b \in Bands : Downlink(g, p, b)
  BY DEF ServerSends
<1> DEFINE m == [gw |-> g, pkt |-> p, band |-> b, left |-> LinkDelay]
<1>1. /\ toGateway' = toGateway \cup {m} /\ sent' = sent \cup {p}
      /\ UNCHANGED <<paths, endRx, occupied, isTx, txEnds, bandLeft, toServer, fates, lost>>
  BY DEF Downlink, ServerSends
<1>2. \A n \in toGateway : n.pkt # p
  BY DEF GwInv, OneCopy
<1>3. GwTypeOK'
  BY <1>1, GatewayAssumption DEF GwInv, GwTypeOK, GatewayAssumption
<1>4. OneFate'
  BY <1>1 DEF GwInv, OneFate
<1>5. OneCopy' /\ Unheard'
  BY <1>1, <1>2 DEF GwInv, OneCopy, Unheard
<1> QED BY <1>1, <1>3, <1>4, <1>5 DEF GwInv, PathsMatchEvents, Counted

LEMMA LinkReadsKeeps ==
  ASSUME GwInv, LinkReads
  PROVE  GwInv'
<1>1. toServer' \subseteq toServer
  BY DEF LinkReads
<1> QED BY <1>1 DEF LinkReads, GwInv, GwTypeOK, PathsMatchEvents, OneFate, Counted,
                    Unheard, OneCopy

LEMMA GwStep == GwInv /\ [GwNext]_gwVars => GwInv'
<1> SUFFICES ASSUME GwInv, [GwNext]_gwVars PROVE GwInv'
  OBVIOUS
<1>1. ASSUME NEW e \in endRx, EndReceive(e) PROVE GwInv'
  BY <1>1, EndReceiveKeeps
<1>2. ASSUME NEW m \in toGateway, DownlinkArrives(m) PROVE GwInv'
  <2>1. CASE DropDownlink(m)
    BY <1>2, <2>1, DropKeeps
  <2>2. ASSUME NEW strong \in SUBSET (Gateways \ {m.gw}), Transmit(m, strong) PROVE GwInv'
    BY <1>2, <2>2, TransmitKeeps DEF DownlinkArrives
  <2> QED BY <1>2, <2>1, <2>2 DEF DownlinkArrives
<1>3. ASSUME NEW e \in txEnds, TxFinished(e) PROVE GwInv'
  BY <1>3, TxFinishedKeeps
<1>4. CASE UNCHANGED gwVars
  BY <1>4 DEF gwVars, GwInv, GwTypeOK, PathsMatchEvents, OneFate, Counted, Unheard, OneCopy
<1> QED BY <1>1, <1>2, <1>3, <1>4, TickKeeps, LinkReadsKeeps, ServerSendsKeeps, UplinkKeeps
        DEF GwNext, GwScheduler, GwHandler, Arrival

LEMMA GwInvariance == GwSpec => []GwInv
BY GwInitially, GwStep, PTL DEF GwSpec

(* Every handler of a gateway keeps the types of the state: no event is    *)
(* overdue, and the counter of occupied paths does not fall below 0.       *)
THEOREM GwTypeCorrect == GwSpec => []GwTypeOK
<1>1. GwInv => GwTypeOK
  BY DEF GwInv
<1> QED BY <1>1, GwInvariance, PTL

(* Whatever arrives and however receptions are interrupted, a path is      *)
(* occupied exactly while the one event that frees it is pending, and no   *)
(* gateway occupies more paths than it has.                                *)
THEOREM PathsAreFreed == GwSpec => []PathsMatchEvents
<1>1. GwInv => PathsMatchEvents
  BY DEF GwInv
<1> QED BY <1>1, GwInvariance, PTL

(* A packet gets at each gateway one outcome, when it leaves its path or   *)
(* finds none, and only packets that have theirs are on a link.            *)
THEOREM FatesAreFinal == GwSpec => []OneFate
<1>1. GwInv => OneFate
  BY DEF GwInv
<1> QED BY <1>1, GwInvariance, PTL

-----------------------------------------------------------------------------
(* What a transmission makes of the paths and fates at g.                  *)
LEMMA TransmitEffect ==
  ASSUME GwInv, NEW m \in toGateway, NEW strong \in SUBSET (Gateways \ {m.gw}),
         Transmit(m, strong), NEW g \in Gateways
  PROVE  /\ g = m.gw => paths'[g] = {}
         /\ g # m.gw /\ isTx[g] => paths'[g] = paths[g]
         /\ \A q \in Packets \ {m.pkt} :
              fates'[g][q] = fates[g][q] + (IF g = m.gw /\ q \in paths[g] THEN 1 ELSE 0)
<1> DEFINE h == m.gw
           p == m.pkt
           ps == [paths EXCEPT ![h] = {}]
           fs == [fates EXCEPT ![h] =
                    [q \in Packets |-> @[q] + (IF q \in paths[h] THEN 1 ELSE 0)]]
           evs == Uncancelled(h)
<1>1. h \in Gateways /\ p \in Packets
  BY DEF GwInv, GwTypeOK
<1>2. \A k \in Gateways : p \notin paths[k]
  BY <1>1 DEF GwInv, Unheard
<1>3. /\ ps \in [Gateways -> SUBSET Packets] /\ evs \in SUBSET Receptions
      /\ fs \in [Gateways -> [Packets -> Nat]]
  BY <1>1 DEF GwInv, GwTypeOK, Uncancelled, Receptions
<1>4. \A k \in Gateways : ps[k] = IF k = h THEN {} ELSE paths[k]
  BY <1>1 DEF GwInv, GwTypeOK
<1>5. \A k \in Gateways : p \notin ps[k]
  BY <1>2, <1>4
<1>6. StartReceive(p, DownTime, Gateways \ {h}, strong, ps, evs, fs)
  BY DEF Transmit
<1>7. DownTime \in Nat /\ Gateways \ {h} \in SUBSET Gateways
  BY GatewayAssumption DEF GatewayAssumption
<1>8. \A q \in Packets :
        fs[g][q] = fates[g][q] + (IF g = h /\ q \in paths[g] THEN 1 ELSE 0)
  BY <1>1 DEF GwInv, GwTypeOK
<1> HIDE DEF h, p, ps, fs, evs
<1>9. /\ paths'[g] = ps[g] \/ (paths'[g] = ps[g] \cup {p} /\ g # h)
      /\ isTx[g] => paths'[g] = ps[g]
      /\ \A q \in Packets :
           fates'[g][q] = fs[g][q] + (IF q = p /\ g \in Gateways \ {h} /\ p \notin paths'[g]
                                      THEN 1 ELSE 0)
  <2> DEFINE gs == Gateways \ {h}
  <2>1. gs \in SUBSET Gateways /\ StartReceive(p, DownTime, gs, strong, ps, evs, fs)
    BY <1>6
  <2>2. g \in gs => g # h
    OBVIOUS
  <2> HIDE DEF gs
  <2>3. /\ \/ paths'[g] = ps[g]
           \/ paths'[g] = ps[g] \cup {p} /\ g \in gs
        /\ \A q \in Packets :
             fates'[g][q] = fs[g][q] + (IF q = p /\ g \in gs /\ p \notin paths'[g]
                                        THEN 1 ELSE 0)
        /\ isTx[g] => paths'[g] = ps[g]
    BY <1>1, <1>3, <1>5, <1>7, <2>1, StartEffect
  <2> QED BY <2>2, <2>3, Zenon DEF gs
<1>10. /\ g = h => paths'[g] = {}
       /\ g # h /\ isTx[g] => paths'[g] = paths[g]
  BY <1>4, <1>9
<1>11. ASSUME NEW q \in Packets \ {p}
       PROVE  fates'[g][q] = fates[g][q] + (IF g = h /\ q \in paths[g] THEN 1 ELSE 0)
  <2>1. fs[g][q] \in Nat /\ fates[g][q] \in Nat
    BY <1>3 DEF GwInv, GwTypeOK
  <2>2. fates'[g][q] = fs[g][q] + 0
    BY <1>9, <1>11
  <2> QED BY <1>8, <2>1, <2>2
<1> QED BY <1>10, <1>11 DEF h, p

(* The sub-band of a transmission is closed as long as it is on the air,   *)
(* and that of one that overlapped with it.                                *)
LEMMA StillClosed ==
  ASSUME BandsStayClosed, GwInv, NEW e \in txEnds, NEW b \in Bands,
         e.left <= DownTime, Began(e, b) \/ Ended(e, b)
  PROVE  /\ e.gw \in Gateways /\ e.left \in Nat
         /\ bandLeft[e.gw][b] \in Nat /\ bandLeft[e.gw][b] > 0
         /\ BandOff[b] \in Nat /\ DownTime \in Nat
<1>1. /\ e.gw \in Gateways /\ e.left \in Nat /\ bandLeft[e.gw][b] \in Nat
      /\ BandOff[b] \in Nat /\ DownTime \in Nat
  BY GatewayAssumption DEF GwInv, GwTypeOK, GatewayAssumption
<1>2. BandOff[b] - bandLeft[e.gw][b] <= 2 * DownTime
  BY <1>1 DEF Began, Ended, Age
<1> QED BY <1>1, <1>2 DEF BandsStayClosed

LEMMA TransmitKeepsTx ==
  ASSUME BandsStayClosed, GwInv, TxInv,
         NEW m \in toGateway, NEW strong \in SUBSET (Gateways \ {m.gw}),
         Transmit(m, strong)
  PROVE  TxInv'
<1> DEFINE tx == [gw |-> m.gw, left |-> DownTime]
<1>1. /\ m.gw \in Gateways /\ m.band \in Bands
      /\ DownTime \in Nat /\ \A b \in Bands : BandOff[b] \in Nat
  BY GatewayAssumption DEF GwInv, GwTypeOK, GatewayAssumption
<1>2. ~ (bandLeft[m.gw][m.band] > 0)
  BY DEF Transmit, Refused
<1>3. /\ txEnds' = txEnds \cup {tx}
      /\ isTx' = [isTx EXCEPT ![m.gw] = TRUE]
      /\ bandLeft' = [bandLeft EXCEPT ![m.gw][m.band] = BandOff[m.band]]
  BY DEF Transmit
<1>4. \A g \in Gateways : isTx'[g] <=> isTx[g] \/ g = m.gw
  BY <1>1, <1>3 DEF GwInv, GwTypeOK
<1>5. \A g \in Gateways, b \in Bands :
        bandLeft'[g][b] = IF g = m.gw /\ b = m.band THEN BandOff[b] ELSE bandLeft[g][b]
  BY <1>1, <1>3 DEF GwInv, GwTypeOK
<1>6. tx.gw = m.gw /\ tx.left = DownTime
  OBVIOUS
<1> HIDE DEF tx
<1>7. ASSUME NEW e \in txEnds, NEW b \in Bands, Began(e, b) \/ Ended(e, b)
      PROVE  /\ e.gw \in Gateways
             /\ Began(e, b)' <=> Began(e, b)
             /\ Ended(e, b)' <=> Ended(e, b)
  <2>1. e.gw \in Gateways /\ bandLeft[e.gw][b] > 0
    BY <1>7, StillClosed DEF TxInv
  <2>2. bandLeft'[e.gw][b] = bandLeft[e.gw][b]
    BY <1>2, <1>5, <2>1
  <2> QED BY <2>1, <2>2 DEF Began, Ended, Age
<1>8. Began(tx, m.band)' /\ tx.left <= DownTime
  <2>1. bandLeft'[m.gw][m.band] = BandOff[m.band]
    BY <1>1, <1>5
  <2> QED BY <1>1, <1>6, <2>1 DEF Began, Age
<1>9. \A e \in txEnds' : e.left <= DownTime /\ \E b \in Bands : Began(e, b)'
  BY <1>1, <1>3, <1>7, <1>8 DEF TxInv
<1>10. ASSUME NEW e \in txEnds'
       PROVE  isTx'[e.gw] \/ \E b, c \in Bands : b # c /\ Began(e, b)' /\ Ended(e, c)'
  <2>1. CASE e = tx
    BY <1>1, <1>4, <1>6, <2>1
  <2>2. CASE e \in txEnds
    <3>1. CASE isTx[e.gw]
      <4>1. e.gw \in Gateways
        BY <2>2 DEF GwInv, GwTypeOK
      <4> QED BY <1>4, <3>1, <4>1
    <3>2. CASE ~ isTx[e.gw]
      BY <1>7, <2>2, <3>2 DEF TxInv
    <3> QED BY <3>1, <3>2
  <2> QED BY <1>3, <2>1, <2>2
<1>11. \A g \in Gateways : isTx'[g] => paths'[g] = {}
  BY <1>4, TransmitEffect DEF TxInv
<1> QED BY <1>9, <1>10, <1>11 DEF TxInv

LEMMA UplinkKeepsTx ==
  ASSUME GwInv, TxInv, NEW p \in Uplinks, NEW d \in UpTimes, NEW strong \in SUBSET Gateways,
         UplinkArrives(p, d, strong)
  PROVE  TxInv'
<1>1. /\ p \in Packets /\ p \notin sent /\ d \in Nat
      /\ StartReceive(p, d, Gateways, strong, paths, endRx, fates)
      /\ UNCHANGED <<isTx, txEnds, bandLeft>>
  BY GatewayAssumption DEF GatewayAssumption, UplinkArrives
<1>2. \A g \in Gateways : p \notin paths[g]
  BY <1>1 DEF GwInv, Unheard
<1>3. \A g \in Gateways : isTx[g] => paths'[g] = paths[g]
  BY <1>1, <1>2, PathsOfInv, StartEffect
<1> QED BY <1>1, <1>3 DEF TxInv, Began, Ended, Age

LEMMA TxFinishedKeepsTx ==
  ASSUME GwInv, TxInv, NEW e \in txEnds, TxFinished(e)
  PROVE  TxInv'
<1>1. /\ e.left = 0 /\ txEnds' = txEnds \ {e} /\ isTx' = [isTx EXCEPT ![e.gw] = FALSE]
      /\ UNCHANGED <<paths, bandLeft>>
  BY DEF TxFinished
<1>2. \A g \in Gateways : isTx'[g] <=> isTx[g] /\ g # e.gw
  BY <1>1 DEF GwInv, GwTypeOK
<1>3. ASSUME NEW f \in txEnds'
      PROVE  isTx'[f.gw] \/ \E b, c \in Bands : b # c /\ Began(f, b) /\ Ended(f, c)
  <2>1. /\ f \in txEnds /\ f # e /\ f.gw \in Gateways
        /\ f.left \in Nat /\ f.left <= DownTime /\ DownTime \in Nat
    BY <1>1, GatewayAssumption DEF GwInv, GwTypeOK, TxInv, GatewayAssumption
  <2>2. CASE ~ isTx[f.gw]
    BY <2>1, <2>2 DEF TxInv
  <2>3. CASE isTx[f.gw] /\ f.gw # e.gw
    BY <1>2, <2>1, <2>3
  <2>4. CASE isTx[f.gw] /\ f.gw = e.gw
    <3>1. f.left # 0
      <4>1. e \in [gw : Gateways, left : Nat] /\ f \in [gw : Gateways, left : Nat]
        BY <2>1 DEF GwInv, GwTypeOK
      <4> QED BY <1>1, <2>1, <2>4, <4>1
    <3>2. PICK b \in Bands : Began(f, b)
      BY <2>1 DEF TxInv
    <3>3. PICK c \in Bands : Began(e, c)
      BY DEF TxInv
    <3>4. Age(f.gw, b) = DownTime - f.left /\ Age(f.gw, c) = DownTime
      BY <1>1, <2>1, <2>4, <3>2, <3>3 DEF Began
    <3>5. b # c
      BY <2>1, <3>1, <3>4
    <3>6. Ended(f, c)
      BY <2>1, <3>4 DEF Ended
    <3> QED BY <3>2, <3>5, <3>6
  <2> QED BY <2>2, <2>3, <2>4
<1> QED BY <1>1, <1>2, <1>3 DEF TxInv, Began, Ended, Age

LEMMA EndReceiveKeepsTx ==
  ASSUME GwInv, TxInv, NEW e \in endRx, EndReceive(e)
  PROVE  TxInv'
<1>1. e.gw \in Gateways
  BY DEF GwInv, GwTypeOK
<1>2. \A g \in Gateways : paths'[g] \subseteq paths[g]
  BY <1>1 DEF EndReceive, FreePath, GwInv, GwTypeOK
<1>3. UNCHANGED <<isTx, txEnds, bandLeft>>
  BY DEF EndReceive
<1> QED BY <1>2, <1>3 DEF TxInv, Began, Ended, Age

LEMMA TickKeepsTx ==
  ASSUME BandsStayClosed, GwInv, TxInv, GwTick
  PROVE  TxInv'
<1>1. /\ NothingDue(txEnds) /\ txEnds' = Sooner(txEnds)
      /\ bandLeft' = [g \in Gateways |-> [b \in Bands |-> OneLess(bandLeft[g][b])]]
      /\ UNCHANGED <<paths, isTx>>
  BY DEF GwTick
<1>2. txEnds \in SUBSET [gw : Gateways, left : Nat]
  BY DEF GwInv, GwTypeOK
<1>3. \A f \in txEnds' : \E e \in txEnds : f.gw = e.gw /\ f.left = e.left - 1
  BY <1>1, <1>2, SoonerEnds
<1>4. ASSUME NEW e \in txEnds, NEW f, f.gw = e.gw, f.left = e.left - 1,
             NEW b \in Bands, Began(e, b) \/ Ended(e, b)
      PROVE  /\ Began(e, b) => Began(f, b)'
             /\ Ended(e, b) => Ended(f, b)'
  <2>1. /\ e.gw \in Gateways /\ e.left \in Nat
        /\ bandLeft[e.gw][b] \in Nat /\ bandLeft[e.gw][b] > 0
        /\ BandOff[b] \in Nat /\ DownTime \in Nat
    BY <1>4, StillClosed DEF TxInv
  <2>2. bandLeft'[e.gw][b] = bandLeft[e.gw][b] - 1
    BY <1>1, <2>1 DEF OneLess
  <2> QED BY <1>4, <2>1, <2>2 DEF Began, Ended, Age
<1>5. ASSUME NEW f \in txEnds'
      PROVE  /\ f.left <= DownTime /\ \E b \in Bands : Began(f, b)'
             /\ isTx'[f.gw] \/ \E b, c \in Bands : b # c /\ Began(f, b)' /\ Ended(f, c)'
  <2>1. PICK e \in txEnds : f.gw = e.gw /\ f.left = e.left - 1
    BY <1>3
  <2>2. e.left \in Nat /\ e.left <= DownTime /\ DownTime \in Nat
    BY <1>2, GatewayAssumption DEF TxInv, GatewayAssumption
  <2>3. \E b \in Bands : Began(f, b)'
    BY <1>4, <2>1 DEF TxInv
  <2>4. isTx'[f.gw] \/ \E b, c \in Bands : b # c /\ Began(f, b)' /\ Ended(f, c)'
    BY <1>1, <1>4, <2>1 DEF TxInv
  <2> QED BY <2>1, <2>2, <2>3, <2>4
<1> QED BY <1>1, <1>5 DEF TxInv

LEMMA TxStep ==
  ASSUME BandsStayClosed
  PROVE  GwInv /\ TxInv /\ [GwNext]_gwVars => TxInv'
<1> SUFFICES ASSUME GwInv, TxInv, [GwNext]_gwVars PROVE TxInv'
  OBVIOUS
<1>1. ASSUME UNCHANGED <<paths, isTx, txEnds, bandLeft>> PROVE TxInv'
  BY <1>1 DEF TxInv, Began, Ended, Age
<1>2. ASSUME NEW m \in toGateway, DownlinkArrives(m) PROVE TxInv'
  <2>1. CASE DropDownlink(m)
    BY <1>1, <2>1 DEF DropDownlink
  <2>2. ASSUME NEW strong \in SUBSET (Gateways \ {m.gw}), Transmit(m, strong) PROVE TxInv'
    BY <2>2, TransmitKeepsTx
  <2> QED BY <1>2, <2>1, <2>2 DEF DownlinkArrives
<1>3. CASE ServerSends \/ LinkReads
  BY <1>1, <1>3 DEF ServerSends, LinkReads
<1>4. CASE UNCHANGED gwVars
  BY <1>1, <1>4 DEF gwVars
<1> QED BY <1>2, <1>3, <1>4, EndReceiveKeepsTx, TxFinishedKeepsTx, TickKeepsTx, UplinkKeepsTx
        DEF GwNext, GwScheduler, GwHandler, Arrival

(* A gateway on the air receives only if another transmission of its own,  *)
(* in another sub-band, overlapped with this one or ended as it began, and *)
(* has cleared the flag of both (TxFinished): for any number of gateways,  *)
(* paths, sub-bands, downlinks and uplinks.                                *)
THEOREM DeafUnlessOverlapped ==
  ASSUME BandsStayClosed
  PROVE  GwSpec => []HearsOnlyAfterOverlap
<1>1. GwInit => TxInv
  BY DEF GwInit, TxInv
<1>2. GwInv /\ TxInv /\ [GwNext]_gwVars => TxInv'
  BY TxStep
<1>3. GwInv /\ TxInv => HearsOnlyAfterOverlap
  <2> SUFFICES ASSUME GwInv, TxInv, NEW e \in txEnds, paths[e.gw] # {}
               PROVE  \E b, c \in Bands :
                        /\ b # c /\ bandLeft[e.gw][b] > 0 /\ bandLeft[e.gw][c] > 0
                        /\ Age(e.gw, b) = DownTime - e.left
                        /\ Age(e.gw, c) \in DownTime .. Age(e.gw, b) + DownTime
    BY DEF HearsOnlyAfterOverlap
  <2>1. e.gw \in Gateways
    BY DEF GwInv, GwTypeOK
  <2>2. PICK b \in Bands, c \in Bands : b # c /\ Began(e, b) /\ Ended(e, c)
    BY <2>1 DEF TxInv
  <2>3. /\ e.left \in Nat /\ bandLeft[e.gw][b] > 0 /\ bandLeft[e.gw][c] > 0
        /\ bandLeft[e.gw][c] \in Nat /\ BandOff[c] \in Nat /\ DownTime \in Nat
    BY <2>2, StillClosed DEF TxInv
  <2>4. Age(e.gw, c) \in DownTime .. Age(e.gw, b) + DownTime
    BY <2>2, <2>3 DEF Began, Ended, Age
  <2> QED BY <2>2, <2>3, <2>4 DEF Began
<1> QED BY <1>1, <1>2, <1>3, GwInvariance, PTL DEF GwSpec

-----------------------------------------------------------------------------
(* The packet tracker: a step of it is one of the gateways or leaves them  *)
(* alone, and what it records are the outcomes the gateways traced.        *)
TrTypeOK ==
  /\ carried \in [Uplinks -> Uplinks]
  /\ outcome \in [Uplinks -> [Gateways -> Outcomes \cup {Absent}]]
  /\ receptionTimes \in [Uplinks -> SUBSET Gateways]

Carriages(k) == {u \in sent \cap Uplinks : carried[u] = k}

(* The keys of the two maps: the MAC traces before the radio.              *)
KeysMatch ==
  /\ phySent = {carried[u] : u \in sent \cap Uplinks}
  /\ phySent \subseteq macSent
  /\ macSent \subseteq Uplinks /\ IsFiniteSet(macSent)

(* A packet has an outcome at a gateway exactly if one of its              *)
(* transmissions has.                                                      *)
OutcomesMatchFates ==
  \A k \in Uplinks, g \in Gateways :
    outcome[k][g] # Absent <=> \E u \in Carriages(k) : fates[g][u] = 1

(* The MAC receives only what the radio has told an outcome of.            *)
ReceivedHasOutcome ==
  \A k \in Uplinks, g \in Gateways : g \in receptionTimes[k] => outcome[k][g] # Absent

TrInv ==
  /\ TrTypeOK /\ KeysMatch /\ OutcomesMatchFates /\ ReceivedHasOutcome
  /\ TrackersAgree

-----------------------------------------------------------------------------
(* A step of the tracker is one of the gateways, or none of theirs.        *)
LEMMA TrStepIsGwStep == [TrNext]_allVars => [GwNext]_gwVars
<1>1. ASSUME NEW e \in endRx, ReceptionEnds(e) PROVE GwNext
  BY <1>1 DEF ReceptionEnds, GwNext, GwScheduler, GwHandler
<1>2. ASSUME NEW m \in toGateway, Interrupts(m) PROVE GwNext
  BY <1>2 DEF Interrupts, GwNext, GwScheduler, GwHandler
<1>3. ASSUME NEW p \in Uplinks, NEW d \in UpTimes, NEW strong \in SUBSET Gateways,
             Transmission(p, d, strong)
      PROVE  GwNext
  BY <1>3 DEF Transmission, GwNext, Arrival
<1>4. ASSUME NEW k \in Uplinks, RadioDrops(k) \/ RequiredTransmissions(k)
      PROVE  UNCHANGED gwVars
  BY <1>4 DEF RadioDrops, RequiredTransmissions
<1>5. CASE TrTick
  BY <1>5 DEF TrTick, GwNext, GwScheduler
<1>6. CASE UNCHANGED allVars
  BY <1>6 DEF allVars
<1> QED BY <1>1, <1>2, <1>3, <1>4, <1>5, <1>6
        DEF TrNext, TrScheduler, GwNext, GwScheduler, GwHandler

LEMMA TrGwInvariance == TrSpec => []GwInv
<1>1. TrInit => GwInv
  BY GwInitially DEF TrInit
<1>2. GwInv /\ [TrNext]_allVars => GwInv'
  BY GwStep, TrStepIsGwStep
<1> QED BY <1>1, <1>2, PTL DEF TrSpec

-----------------------------------------------------------------------------
LEMMA TrInitially == TrInit => TrInv
<1> SUFFICES ASSUME TrInit PROVE TrInv
  OBVIOUS
<1>1. IsFiniteSet({})
  BY FS_EmptySet
<1>2. /\ carried \in [Uplinks -> Uplinks] /\ phySent = {} /\ macSent = {} /\ sent = {}
      /\ outcome = [u \in Uplinks |-> [g \in Gateways |-> Absent]]
      /\ receptionTimes = [u \in Uplinks |-> {}]
  BY TrackerAssumption DEF TrInit, GwInit, TrackerAssumption
<1>3. TrTypeOK /\ KeysMatch
  BY <1>1, <1>2 DEF TrTypeOK, KeysMatch
<1>4. OutcomesMatchFates /\ ReceivedHasOutcome
  BY <1>2 DEF OutcomesMatchFates, ReceivedHasOutcome, Carriages
<1>5. TrackersAgree
  BY <1>2 DEF TrackersAgree, Absent
<1> QED BY <1>3, <1>4, <1>5 DEF TrInv

(* An outcome that is there stays, so that a step which adds outcomes, but *)
(* no receptions, cannot set the two maps against each other.              *)
LEMMA AgreeIsKept ==
  ASSUME TrInv, receptionTimes' = receptionTimes, carried' = carried, sent \subseteq sent',
         \A k \in Uplinks, g \in Gateways :
           \/ outcome'[k][g] = outcome[k][g]
           \/ /\ outcome[k][g] = Absent
              /\ outcome'[k][g] # "RECEIVED" /\ outcome'[k][g] # Absent
  PROVE  ReceivedHasOutcome' /\ TrackersAgree'
<1>1. ReceivedHasOutcome'
  BY DEF TrInv, ReceivedHasOutcome
<1>2. ASSUME NEW k \in Uplinks, NEW g \in Gateways
      PROVE  /\ outcome'[k][g] = "RECEIVED" => g \in receptionTimes'[k]
             /\ g \in receptionTimes'[k] /\ outcome'[k][g] # "RECEIVED" =>
                  \E u, v \in sent' \cap Uplinks :
                    u # v /\ carried'[u] = k /\ carried'[v] = k
  <2>1. /\ outcome[k][g] = "RECEIVED" => g \in receptionTimes[k]
        /\ g \in receptionTimes[k] => outcome[k][g] # Absent
        /\ g \in receptionTimes[k] /\ outcome[k][g] # "RECEIVED" =>
             \E u, v \in sent \cap Uplinks : u # v /\ carried[u] = k /\ carried[v] = k
    BY DEF TrInv, TrackersAgree, ReceivedHasOutcome
  <2> QED BY <2>1
<1> QED BY <1>1, <1>2 DEF TrackersAgree

(* A step after which the fates, outcomes and keys are what they were.     *)
LEMMA QuietStep ==
  ASSUME TrInv, UNCHANGED <<carried, outcome, receptionTimes, phySent>>, sent \subseteq sent',
         sent' \cap Uplinks = sent \cap Uplinks,
         \A g \in Gateways, u \in Uplinks : fates'[g][u] = fates[g][u],
         macSent \subseteq macSent', macSent' \subseteq Uplinks, IsFiniteSet(macSent')
  PROVE  TrInv'
<1>1. TrTypeOK' /\ KeysMatch'
  BY DEF TrInv, TrTypeOK, KeysMatch
<1>2. OutcomesMatchFates'
  BY DEF TrInv, OutcomesMatchFates, Carriages
<1>3. ReceivedHasOutcome' /\ TrackersAgree'
  BY AgreeIsKept
<1> QED BY <1>1, <1>2, <1>3 DEF TrInv

LEMMA InsertKeeps ==
  ASSUME NEW old, NEW new
  PROVE  /\ old # Absent => KeepFirst(old, new) = old
         /\ old = Absent => KeepFirst(old, new) = new
         /\ KeepFirst(old, new) # Absent <=> old # Absent \/ new # Absent
BY DEF KeepFirst

LEMMA TransmissionKeeps ==
  ASSUME GwInv, TrInv, NEW p \in Uplinks, NEW d \in UpTimes, NEW strong \in SUBSET Gateways,
         Transmission(p, d, strong)
  PROVE  TrInv'
<1> DEFINE c == carried[p]
           new == [g \in Gateways |-> AtStart(g, strong)]
<1>1. /\ p \in Packets /\ p \notin sent /\ sent' = sent \cup {p} /\ d \in Nat /\ c \in Uplinks
      /\ StartReceive(p, d, Gateways, strong, paths, endRx, fates)
  BY GatewayAssumption DEF GatewayAssumption, Transmission, UplinkArrives, TrInv, TrTypeOK
<1>2. /\ macSent' = macSent \cup {c} /\ phySent' = phySent \cup {c}
      /\ outcome' = [outcome EXCEPT ![c] = [g \in Gateways |-> KeepFirst(@[g], new[g])]]
      /\ UNCHANGED <<carried, receptionTimes>>
  BY DEF Transmission, Recorded
<1>3. \A g \in Gateways : p \notin paths[g] /\ fates[g][p] = 0
  BY <1>1 DEF GwInv, Unheard
<1>4. ASSUME NEW g \in Gateways
      PROVE  /\ fates'[g][p] = 1 <=> new[g] # Absent
             /\ \A u \in Uplinks \ {p} : fates'[g][u] = fates[g][u]
  <2>1. p \in paths'[g] <=> g \in strong /\ CanLock(g, paths)
    BY <1>1, <1>3, StartLocks
  <2>2. new[g] = Absent <=> g \in strong /\ CanLock(g, paths)
    BY DEF AtStart, CanLock, Absent
  <2>3. \A q \in Packets :
          fates'[g][q] = fates[g][q] + (IF q = p /\ g \in Gateways /\ p \notin paths'[g]
                                        THEN 1 ELSE 0)
    BY <1>1, <1>3, PathsOfInv, StartEffect
  <2>4. \A u \in Uplinks : u \in Packets /\ fates[g][u] \in Nat
    BY GatewayAssumption DEF GwInv, GwTypeOK, GatewayAssumption
  <2> QED BY <2>1, <2>2, <2>3, <2>4, <1>3
<1>5. \A g \in Gateways : new[g] \in Outcomes \cup {Absent} /\ new[g] # "RECEIVED"
  BY DEF AtStart, Outcomes, Absent
<1> HIDE DEF new
<1>6. ASSUME NEW k \in Uplinks, NEW g \in Gateways
      PROVE  outcome'[k][g] = IF k = c THEN KeepFirst(outcome[k][g], new[g]) ELSE outcome[k][g]
  BY <1>1, <1>2 DEF TrInv, TrTypeOK
<1>7. TrTypeOK'
  <2>1. outcome' \in [Uplinks -> [Gateways -> Outcomes \cup {Absent}]]
    BY <1>1, <1>2, <1>5 DEF TrInv, TrTypeOK, KeepFirst
  <2> QED BY <1>2, <2>1 DEF TrInv, TrTypeOK
<1>8. KeysMatch'
  <2>1. {carried[u] : u \in sent' \cap Uplinks} =
        {carried[u] : u \in sent \cap Uplinks} \cup {c}
    BY <1>1
  <2>2. IsFiniteSet(macSent')
    BY <1>2, FS_AddElement DEF TrInv, KeysMatch
  <2> QED BY <1>1, <1>2, <2>1, <2>2 DEF TrInv, KeysMatch
<1>9. OutcomesMatchFates'
  <2> SUFFICES ASSUME NEW k \in Uplinks, NEW g \in Gateways
               PROVE  outcome'[k][g] # Absent <=> \E u \in Carriages(k)' : fates'[g][u] = 1
    BY DEF OutcomesMatchFates
  <2>1. outcome[k][g] # Absent <=> \E u \in Carriages(k) : fates[g][u] = 1
    BY DEF TrInv, OutcomesMatchFates
  <2>2. Carriages(k)' = IF k = c THEN Carriages(k) \cup {p} ELSE Carriages(k)
    BY <1>1, <1>2 DEF Carriages
  <2>3. \A u \in Carriages(k) : u \in Uplinks \ {p}
    BY <1>1 DEF Carriages
  <2>4. (\E u \in Carriages(k) : fates'[g][u] = 1) <=> outcome[k][g] # Absent
    BY <2>1, <2>3, <1>4
  <2>5. CASE k = c
    BY <2>2, <2>4, <2>5, <1>4, <1>6, InsertKeeps
  <2>6. CASE k # c
    BY <2>2, <2>4, <2>6, <1>6
  <2> QED BY <2>5, <2>6
<1>10. ReceivedHasOutcome' /\ TrackersAgree'
  <2>1. ASSUME NEW k \in Uplinks, NEW g \in Gateways
        PROVE  \/ outcome'[k][g] = outcome[k][g]
               \/ /\ outcome[k][g] = Absent
                  /\ outcome'[k][g] # "RECEIVED" /\ outcome'[k][g] # Absent
    BY <1>5, <1>6, InsertKeeps
  <2> QED BY <1>1, <1>2, <2>1, AgreeIsKept
<1> QED BY <1>7, <1>8, <1>9, <1>10 DEF TrInv

LEMMA ReceptionEndsKeeps ==
  ASSUME GwInv, TrInv, NEW e \in endRx, ReceptionEnds(e)
  PROVE  TrInv'
<1> DEFINE h == e.gw
           q == e.pkt
           c == carried[q]
           survives == toServer' # toServer
           new == [g \in Gateways |-> IF g = h THEN AtEnd(survives) ELSE Absent]
<1>1. h \in Gateways /\ q \in Packets /\ q \in paths[h] /\ fates[h][q] = 0 /\ q \in sent
  BY DEF GwInv, GwTypeOK, PathsMatchEvents, OneFate
<1>2. /\ UNCHANGED <<sent, carried, phySent, macSent>>
      /\ q \in Uplinks =>
           /\ outcome' = [outcome EXCEPT ![c] = [g \in Gateways |-> KeepFirst(@[g], new[g])]]
           /\ receptionTimes' = IF survives THEN [receptionTimes EXCEPT ![c] = @ \cup {h}]
                                       ELSE receptionTimes
      /\ q \notin Uplinks => UNCHANGED <<outcome, receptionTimes>>
  BY DEF ReceptionEnds, EndReceive, Recorded
<1>3. \A g \in Gateways, u \in Packets :
        fates'[g][u] = fates[g][u] + (IF g = h /\ u = q THEN 1 ELSE 0)
  BY <1>1 DEF ReceptionEnds, EndReceive, Traced, GwInv, GwTypeOK
<1>4. \A u \in Uplinks : u \in Packets /\ \A g \in Gateways : fates[g][u] \in Nat
  BY GatewayAssumption DEF GwInv, GwTypeOK, GatewayAssumption
<1>5. CASE q \notin Uplinks
  <2>1. \A g \in Gateways, u \in Uplinks : fates'[g][u] = fates[g][u]
    BY <1>3, <1>4, <1>5
  <2> QED BY <1>2, <1>5, <2>1, QuietStep DEF TrInv, KeysMatch
<1>6. CASE q \in Uplinks
  <2>1. c \in Uplinks
    BY <1>6 DEF TrInv, TrTypeOK
  <2>2. \A g \in Gateways : new[g] \in Outcomes \cup {Absent}
    BY DEF AtEnd, Outcomes
  <2>3. /\ new[h] # Absent /\ (new[h] = "RECEIVED" <=> survives)
        /\ \A g \in Gateways \ {h} : new[g] = Absent
    BY <1>1 DEF AtEnd, Absent
  <2> HIDE DEF new, survives
  <2>4. ASSUME NEW k \in Uplinks, NEW g \in Gateways
        PROVE  /\ outcome'[k][g] = IF k = c THEN KeepFirst(outcome[k][g], new[g])
                                            ELSE outcome[k][g]
               /\ g \in receptionTimes'[k] <=>
                    g \in receptionTimes[k] \/ (k = c /\ g = h /\ survives)
    BY <1>2, <1>6, <2>1 DEF TrInv, TrTypeOK
  <2>5. TrTypeOK'
    <3>1. outcome' \in [Uplinks -> [Gateways -> Outcomes \cup {Absent}]]
      <4> DEFINE row == [g \in Gateways |-> KeepFirst(outcome[c][g], new[g])]
      <4>1. row \in [Gateways -> Outcomes \cup {Absent}]
        BY <2>1, <2>2 DEF TrInv, TrTypeOK, KeepFirst
      <4>2. outcome' = [outcome EXCEPT ![c] = row]
        BY <1>2, <1>6
      <4> QED BY <2>1, <4>1, <4>2 DEF TrInv, TrTypeOK
    <3>2. receptionTimes' \in [Uplinks -> SUBSET Gateways]
      BY <1>1, <1>2, <1>6, <2>1 DEF TrInv, TrTypeOK
    <3> QED BY <1>2, <3>1, <3>2 DEF TrInv, TrTypeOK
  <2>6. KeysMatch'
    BY <1>2 DEF TrInv, KeysMatch
  <2>7. OutcomesMatchFates'
    <3> SUFFICES ASSUME NEW k \in Uplinks, NEW g \in Gateways
                 PROVE  outcome'[k][g] # Absent <=>
                          \E u \in Carriages(k) : fates'[g][u] = 1
      BY <1>2 DEF OutcomesMatchFates, Carriages
    <3>1. outcome[k][g] # Absent <=> \E u \in Carriages(k) : fates[g][u] = 1
      BY DEF TrInv, OutcomesMatchFates
    <3>2. q \in Carriages(k) <=> k = c
      BY <1>1, <1>6 DEF Carriages
    <3>3. \A u \in Carriages(k) : u \in Uplinks
      BY DEF Carriages
    <3>4. CASE g = h /\ k = c
      <4>1. fates'[g][q] = 1
        BY <1>1, <1>3, <3>4
      <4>2. outcome'[k][g] # Absent
        BY <2>3, <2>4, <3>4, InsertKeeps
      <4> QED BY <3>2, <3>4, <4>1, <4>2
    <3>5. CASE ~ (g = h /\ k = c)
      <4>1. \A u \in Carriages(k) : fates'[g][u] = fates[g][u]
        BY <1>3, <1>4, <3>2, <3>3, <3>5
      <4>2. outcome'[k][g] = outcome[k][g]
        BY <2>3, <2>4, <3>5, InsertKeeps
      <4> QED BY <3>1, <4>1, <4>2
    <3> QED BY <3>4, <3>5
  <2>8. ReceivedHasOutcome'
    BY <2>3, <2>4, InsertKeeps DEF TrInv, ReceivedHasOutcome
  <2>9. TrackersAgree'
    <3> SUFFICES ASSUME NEW k \in Uplinks, NEW g \in Gateways
                 PROVE  /\ outcome'[k][g] = "RECEIVED" => g \in receptionTimes'[k]
                        /\ g \in receptionTimes'[k] /\ outcome'[k][g] # "RECEIVED" =>
                             \E u, v \in sent \cap Uplinks :
                               u # v /\ carried[u] = k /\ carried[v] = k
      BY <1>2 DEF TrackersAgree
    <3>1. /\ outcome[k][g] = "RECEIVED" => g \in receptionTimes[k]
          /\ g \in receptionTimes[k] => outcome[k][g] # Absent
          /\ g \in receptionTimes[k] /\ outcome[k][g] # "RECEIVED" =>
               \E u, v \in sent \cap Uplinks : u # v /\ carried[u] = k /\ carried[v] = k
      BY DEF TrInv, TrackersAgree, ReceivedHasOutcome
    <3>2. CASE g = h /\ k = c
      <4>1. CASE outcome[k][g] = Absent
        <5>1. outcome'[k][g] = new[h]
          BY <2>4, <3>2, <4>1, InsertKeeps
        <5> QED BY <2>3, <2>4, <3>1, <3>2, <4>1, <5>1
      <4>2. CASE outcome[k][g] # Absent
        <5>1. PICK u \in Carriages(k) : fates[g][u] = 1
          BY <4>2 DEF TrInv, OutcomesMatchFates
        <5>2. u # q /\ u \in sent \cap Uplinks /\ carried[u] = k
          BY <1>1, <3>2, <5>1 DEF Carriages
        <5>3. q \in sent \cap Uplinks /\ carried[q] = k
          BY <1>1, <1>6, <3>2
        <5>4. outcome'[k][g] = outcome[k][g]
          BY <2>4, <3>2, <4>2, InsertKeeps
        <5> QED BY <2>4, <3>1, <5>2, <5>3, <5>4
      <4> QED BY <4>1, <4>2
    <3>3. CASE ~ (g = h /\ k = c)
      <4>1. outcome'[k][g] = outcome[k][g]
        BY <2>3, <2>4, <3>3, InsertKeeps
      <4> QED BY <2>4, <3>1, <3>3, <4>1
    <3> QED BY <3>2, <3>3
  <2> QED BY <2>5, <2>6, <2>7, <2>8, <2>9 DEF TrInv
<1> QED BY <1>5, <1>6

LEMMA InterruptsKeeps ==
  ASSUME GwInv, TrInv, NEW m \in toGateway, Interrupts(m)
  PROVE  TrInv'
<1> DEFINE hit(k, g) == g = m.gw /\ k \in {carried[u] : u \in Interrupted(m)}
<1>1. /\ UNCHANGED <<sent, carried, phySent, receptionTimes, macSent>>
      /\ outcome' = [k \in Uplinks |-> [g \in Gateways |->
                       IF hit(k, g) THEN KeepFirst(outcome[k][g], "LOST_BECAUSE_TX")
                       ELSE outcome[k][g]]]
  BY DEF Interrupts, DownlinkArrives
<1>2. \A u \in Uplinks : u \in Packets /\ \A g \in Gateways : fates[g][u] \in Nat
  BY GatewayAssumption DEF GwInv, GwTypeOK, GatewayAssumption
<1>3. ASSUME NEW g \in Gateways, NEW u \in Uplinks
      PROVE  fates'[g][u] = fates[g][u] + (IF g = m.gw /\ u \in Interrupted(m) THEN 1 ELSE 0)
  <2>1. CASE DropDownlink(m)
    BY <2>1, <1>2 DEF DropDownlink, Interrupted
  <2>2. ASSUME NEW strong \in SUBSET (Gateways \ {m.gw}), Transmit(m, strong)
        PROVE  fates'[g][u] = fates[g][u] + (IF g = m.gw /\ u \in Interrupted(m)
                                             THEN 1 ELSE 0)
    <3>1. u \in Packets \ {m.pkt} /\ ~ Refused(m)
      BY <1>2, <2>2 DEF Transmit, GwInv, OneCopy
    <3>2. fates'[g][u] = fates[g][u] + (IF g = m.gw /\ u \in paths[g] THEN 1 ELSE 0)
      BY <2>2, <3>1, TransmitEffect
    <3> QED BY <3>1, <3>2 DEF Interrupted
  <2> QED BY <2>1, <2>2 DEF Interrupts, DownlinkArrives
<1>4. \A u \in Interrupted(m) : u \in sent \cap Uplinks /\ u \in Packets /\ fates[m.gw][u] = 0
  BY GatewayAssumption
  DEF Interrupted, GwInv, GwTypeOK, OneFate, GatewayAssumption
<1>5. ASSUME NEW k \in Uplinks, NEW g \in Gateways
      PROVE  outcome'[k][g] = IF hit(k, g) THEN KeepFirst(outcome[k][g], "LOST_BECAUSE_TX")
                              ELSE outcome[k][g]
  BY <1>1
<1>6. TrTypeOK' /\ KeysMatch'
  <2>1. outcome' \in [Uplinks -> [Gateways -> Outcomes \cup {Absent}]]
    BY <1>1 DEF TrInv, TrTypeOK, KeepFirst, Outcomes
  <2> QED BY <1>1, <2>1 DEF TrInv, TrTypeOK, KeysMatch
<1>7. OutcomesMatchFates'
  <2> SUFFICES ASSUME NEW k \in Uplinks, NEW g \in Gateways
               PROVE  outcome'[k][g] # Absent <=> \E u \in Carriages(k) : fates'[g][u] = 1
    BY <1>1 DEF OutcomesMatchFates, Carriages
  <2>1. outcome[k][g] # Absent <=> \E u \in Carriages(k) : fates[g][u] = 1
    BY DEF TrInv, OutcomesMatchFates
  <2>2. \A u \in Carriages(k) : u \in sent \cap Uplinks /\ carried[u] = k
    BY DEF Carriages
  <2>3. CASE hit(k, g)
    <3>1. PICK u \in Interrupted(m) : carried[u] = k /\ g = m.gw
      BY <2>3
    <3>2. u \in Carriages(k) /\ fates'[g][u] = 1
      BY <1>3, <1>4, <3>1 DEF Carriages
    <3>3. outcome'[k][g] # Absent
      BY <1>5, <2>3, InsertKeeps DEF Absent
    <3> QED BY <3>2, <3>3
  <2>4. CASE ~ hit(k, g)
    <3>1. \A u \in Carriages(k) : fates'[g][u] = fates[g][u]
      BY <1>2, <1>3, <2>2, <2>4
    <3> QED BY <1>5, <2>1, <2>4, <3>1
  <2> QED BY <2>3, <2>4
<1>8. ReceivedHasOutcome' /\ TrackersAgree'
  <2>1. ASSUME NEW k \in Uplinks, NEW g \in Gateways
        PROVE  \/ outcome'[k][g] = outcome[k][g]
               \/ /\ outcome[k][g] = Absent
                  /\ outcome'[k][g] # "RECEIVED" /\ outcome'[k][g] # Absent
    BY <1>5, InsertKeeps DEF Absent
  <2> QED BY <1>1, <2>1, AgreeIsKept
<1> QED BY <1>6, <1>7, <1>8 DEF TrInv

LEMMA TrStep == GwInv /\ TrInv /\ [TrNext]_allVars => TrInv'
<1> SUFFICES ASSUME GwInv, TrInv, [TrNext]_allVars PROVE TrInv'
  OBVIOUS
<1>1. macSent \subseteq Uplinks /\ IsFiniteSet(macSent)
  BY DEF TrInv, KeysMatch
<1>2. ASSUME UNCHANGED <<trVars, sent, fates>> PROVE TrInv'
  BY <1>1, <1>2, QuietStep DEF trVars
<1>3. CASE (\E e \in txEnds : TxFinished(e)) /\ UNCHANGED trVars
  BY <1>2, <1>3 DEF TxFinished
<1>4. CASE LinkReads /\ UNCHANGED trVars
  BY <1>2, <1>4 DEF LinkReads
<1>5. CASE TrTick
  BY <1>2, <1>5 DEF TrTick, GwTick, trVars
<1>6. CASE ServerSends /\ UNCHANGED trVars
  <2>1. sent \subseteq sent' /\ sent' \cap Uplinks = sent \cap Uplinks /\ UNCHANGED fates
    BY <1>6 DEF ServerSends, Downlink
  <2> QED BY <1>1, <1>6, <2>1, QuietStep DEF trVars
<1>7. ASSUME NEW k \in Uplinks, RadioDrops(k) PROVE TrInv'
  <2>1. /\ macSent' = macSent \cup {k} /\ IsFiniteSet(macSent')
        /\ UNCHANGED <<sent, fates, carried, phySent, outcome, receptionTimes>>
    BY <1>1, <1>7, FS_AddElement DEF RadioDrops, gwVars
  <2> QED BY <1>1, <2>1, QuietStep
<1>8. ASSUME NEW k \in Uplinks, RequiredTransmissions(k) PROVE TrInv'
  BY <1>1, <1>8, QuietStep DEF RequiredTransmissions, gwVars
<1>9. CASE UNCHANGED allVars
  BY <1>2, <1>9 DEF allVars, gwVars
<1> QED BY <1>3, <1>4, <1>5, <1>6, <1>7, <1>8, <1>9,
           TransmissionKeeps, ReceptionEndsKeeps, InterruptsKeeps
        DEF TrNext, TrScheduler

LEMMA TrInvariance == TrSpec => [](GwInv /\ TrInv)
<1>1. GwInv /\ TrInv /\ [TrNext]_allVars => GwInv' /\ TrInv'
  BY TrStep, GwStep, TrStepIsGwStep
<1>2. TrInit => GwInv
  BY GwInitially DEF TrInit
<1> QED BY <1>1, <1>2, TrInitially, PTL DEF TrSpec

-----------------------------------------------------------------------------
(* The columns of the counts of a gateway sum up to all packets: the fold  *)
(* that CountsAddUp takes is the number of packets with one of the         *)
(* outcomes.  The subset of outcomes at which the two first differ would   *)
(* have an element to leave out.                                           *)
LEMMA OutcomesAreFinite == IsFiniteSet(Outcomes)
<1> DEFINE late == {"UNDER_SENSITIVITY"} \cup {"LOST_BECAUSE_TX"}
<1>1. /\ IsFiniteSet({"RECEIVED"}) /\ IsFiniteSet({"INTERFERED"})
      /\ IsFiniteSet({"NO_MORE_RECEIVERS"}) /\ IsFiniteSet({"UNDER_SENSITIVITY"})
      /\ IsFiniteSet({"LOST_BECAUSE_TX"})
  BY FS_Singleton
<1>2. IsFiniteSet(({"RECEIVED"} \cup {"INTERFERED"}) \cup ({"NO_MORE_RECEIVERS"} \cup late))
  BY <1>1, FS_Union
<1>3. Outcomes = ({"RECEIVED"} \cup {"INTERFERED"}) \cup ({"NO_MORE_RECEIVERS"} \cup late)
  BY DEF Outcomes
<1> QED BY <1>2, <1>3

LEMMA CountsSumUp ==
  ASSUME NEW g \in Gateways, IsFiniteSet(phySent),
         \A k \in phySent : outcome[k][g] \in Outcomes
  PROVE  MapThenSumSet(LAMBDA o : CountPhyPacketsPerGw(g, o), Outcomes)
           = Cardinality(phySent)
<1> DEFINE count(o) == CountPhyPacketsPerGw(g, o)
           chosen(s) == CHOOSE x \in s : TRUE
           Sums(f) == f = [s \in SUBSET Outcomes |->
                            IF s = {} THEN 0 ELSE count(chosen(s)) + f[s \ {chosen(s)}]]
           sum == CHOOSE f : Sums(f)
           with(s) == {k \in phySent : outcome[k][g] \in s}
           size == [s \in SUBSET Outcomes |-> Cardinality(with(s))]
<1>1. MapThenSumSet(LAMBDA o : CountPhyPacketsPerGw(g, o), Outcomes) = sum[Outcomes]
  BY DEF MapThenSumSet, MapThenFoldSet
<1>2. with({}) = {} /\ with(Outcomes) = phySent
  OBVIOUS
<1>3. ASSUME NEW s \in SUBSET Outcomes, s # {}
      PROVE  chosen(s) \in s /\ size[s] = count(chosen(s)) + size[s \ {chosen(s)}]
  <2> DEFINE x == chosen(s)
             A == {k \in phySent : outcome[k][g] = x}
             B == with(s \ {x})
  <2>1. x \in s
    BY <1>3
  <2> HIDE DEF chosen
  <2>2. with(s) = A \cup B /\ A \cap B = {}
    BY <2>1
  <2>3. IsFiniteSet(A) /\ IsFiniteSet(B)
    BY FS_Subset
  <2>4. s \ {x} \in SUBSET Outcomes /\ count(x) = Cardinality(A)
    BY DEF CountPhyPacketsPerGw
  <2>5. size[s] = Cardinality(with(s)) /\ size[s \ {x}] = Cardinality(B)
    BY <2>4
  <2> HIDE DEF A, B, with, size
  <2>6. Cardinality(A \cup B) = Cardinality(A) + Cardinality(B)
    <3>1. Cardinality(A \cup B) = Cardinality(A) + Cardinality(B) - Cardinality(A \cap B)
      BY <2>3, FS_Union
    <3>2. Cardinality(A \cap B) = 0
      BY <2>2, FS_EmptySet, Zenon
    <3>3. Cardinality(A) \in Nat /\ Cardinality(B) \in Nat
      BY <2>3, FS_CardinalityType
    <3> QED BY <3>1, <3>2, <3>3
  <2>7. Cardinality(with(s)) = Cardinality(A \cup B)
    BY <2>2, Zenon
  <2> QED BY <2>1, <2>4, <2>5, <2>6, <2>7
<1>4. size[{}] = 0
  BY <1>2, FS_EmptySet
<1>5. Sums(sum)
  <2>1. Sums(size)
    BY <1>3, <1>4
  <2> QED BY <2>1
<1> HIDE DEF size, sum
<1>6. /\ sum[{}] = 0
      /\ \A s \in SUBSET Outcomes :
           s # {} => sum[s] = count(chosen(s)) + sum[s \ {chosen(s)}]
  BY <1>5
<1> HIDE DEF Sums, chosen, count
<1>7. \A s \in SUBSET Outcomes : sum[s] = size[s]
  <2> DEFINE D == {s \in SUBSET Outcomes : sum[s] # size[s]}
             R == StrictSubsetOrdering(Outcomes)
  <2> SUFFICES ASSUME D # {} PROVE FALSE
    OBVIOUS
  <2>1. IsWellFoundedOn(R, SUBSET Outcomes) /\ D \subseteq SUBSET Outcomes
    BY OutcomesAreFinite, FS_StrictSubsetOrderingWellFounded, FS_FiniteSubsetsOfFinite
  <2> HIDE DEF R, D
  <2>2. PICK s \in D : \A t \in D : ~ (<<t, s>> \in R)
    BY <2>1, WFMin
  <2>3. s \in SUBSET Outcomes /\ s # {}
    BY <1>4, <1>6 DEF D
  <2>4. chosen(s) \in s
    BY <1>3, <2>3
  <2>5. s \ {chosen(s)} \notin D
    BY <2>2, <2>3, <2>4 DEF R, StrictSubsetOrdering
  <2> QED BY <1>3, <1>6, <2>3, <2>5 DEF D
<1> QED BY <1>1, <1>2, <1>7 DEF size

LEMMA CountsFollow == GwInv /\ TrInv => CountsAddUp
<1> SUFFICES ASSUME GwInv, TrInv, NEW g \in Gateways, paths[g] \cap Uplinks = {}
             PROVE  /\ Cardinality(phySent) =
                         MapThenSumSet(LAMBDA o : CountPhyPacketsPerGw(g, o), Outcomes)
                    /\ Cardinality(phySent) <= CountMacPacketsGlobally.sent
  BY DEF CountsAddUp
<1>1. ASSUME NEW k \in phySent PROVE outcome[k][g] \in Outcomes
  <2>1. PICK u \in sent \cap Uplinks : k = carried[u]
    BY DEF TrInv, KeysMatch
  <2>2. k \in Uplinks /\ u \in Packets
    BY <2>1, GatewayAssumption DEF TrInv, TrTypeOK, GatewayAssumption
  <2>3. fates[g][u] = 1
    BY <2>2 DEF GwInv, OneFate
  <2>4. outcome[k][g] # Absent
    BY <2>1, <2>2, <2>3 DEF TrInv, OutcomesMatchFates, Carriages
  <2> QED BY <2>2, <2>4 DEF TrInv, TrTypeOK
<1>2. IsFiniteSet(phySent) /\ Cardinality(phySent) <= Cardinality(macSent)
  BY FS_Subset DEF TrInv, KeysMatch
<1> QED BY <1>1, <1>2, CountsSumUp DEF CountMacPacketsGlobally

-----------------------------------------------------------------------------
(* What is proved of the gateways holds of them under the tracker: its     *)
(* steps are theirs, for every use of packets by transmissions.            *)
THEOREM TrackedGateways == TrSpec => [](PathsMatchEvents /\ OneFate)
<1>1. GwInv => PathsMatchEvents /\ OneFate
  BY DEF GwInv
<1> QED BY <1>1, TrInvariance, PTL

(* The columns of the PHY counts of a gateway that receives nothing add up *)
(* to the packets sent, and those are among the ones the MACs count: no    *)
(* packet is missing from the table, and none is in it twice.              *)
THEOREM CountsAreComplete == TrSpec => []CountsAddUp
BY CountsFollow, TrInvariance, PTL

(* What the radio of a gateway received its MAC did, and the MAC received  *)
(* more only of a packet that was sent twice, whatever is interrupted,     *)
(* refused or retransmitted.                                               *)
THEOREM LayersAgree == TrSpec => []TrackersAgree
<1>1. TrInv => TrackersAgree
  BY DEF TrInv
<1> QED BY <1>1, TrInvariance, PTL
===============================================================================
