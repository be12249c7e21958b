--------------------------- MODULE RoutingProofs ---------------------------
(***************************************************************************)
(* Type correctness of Routing, that routes are unique and lead onward,    *)
(* and that at most one gateway of a network answers, for every wiring     *)
(* without loops.                                                          *)
(***************************************************************************)
EXTENDS Routing, TLAPS

\* Routes belong to ports.
RoutesOnPorts ==
    \A g \in Gateways, p, n \in Networks :
        via[g][p][n] # NoRouter => p \in Attached[g]

\* Copies go to stations on their network, and an announcement in flight
\* already says what the route it will become has to say.
AirSound ==
    \A m \in air :
        /\ m.net \in Attached[m.to]
        /\ m.kind = "IAmRouter" =>
              \A n \in m.nets \cap Settled : LeadsOnward(m.to, m.net, n, m.from)

IInv == TypeOK /\ OneRoutePerNetwork /\ RoutesOnPorts /\ RoutesLeadOnward /\ AirSound

\* A gateway only announces what the wiring puts behind it.
LEMMA AccessibleBeyond ==
    ASSUME TypeOK, RoutesLeadOnward,
           NEW g \in Gateways, NEW p \in Attached[g],
           NEW n \in NetworksAccessibleExcludePort(g, p), n \in Settled
    PROVE  n \in Beyond[g][p]
<1>0. p \in Networks /\ Attached[g] \subseteq Networks
  BY NetworksAssumption
<1>1. CASE n = Virtual[g]
  BY <1>1, TopologyAssumption
<1>2. CASE n \in Attached[g] \ {p}
  BY <1>2, TopologyAssumption
<1>3. CASE \E q \in Attached[g] \ {p} : n \in Through(g, q)
  <2>1. PICK q \in Attached[g] \ {p} : n \in Through(g, q)
    BY <1>3
  <2>2. q \in Networks /\ n \in Networks /\ via[g][q][n] # NoRouter
    BY <1>0, <2>1 DEF Through
  <2>3. LeadsOnward(g, q, n, via[g][q][n])
    BY <2>2 DEF RoutesLeadOnward
  <2>4. Beyond[via[g][q][n]][q] \subseteq Beyond[g][p]
    BY <2>1, <2>3, TopologyAssumption DEF LeadsOnward
  <2>. QED  BY <2>3, <2>4 DEF LeadsOnward
<1>. QED  BY <1>1, <1>2, <1>3 DEF NetworksAccessibleExcludePort

LEMMA AccessibleType ==
    ASSUME NEW g \in Gateways, NEW p
    PROVE  NetworksAccessibleExcludePort(g, p) \subseteq Networks
BY NetworksAssumption DEF NetworksAccessibleExcludePort, Through

LEMMA FoundAccessible ==
    ASSUME NEW g \in Gateways, NEW p, NEW n \in Networks,
           n = Virtual[g] \/ FoundOnOtherPort(g, p, n)
    PROVE  n \in NetworksAccessibleExcludePort(g, p)
BY DEF FoundOnOtherPort, NetworksAccessibleExcludePort

\* What a gateway broadcasts is well formed; if it is no announcement, or one
\* of networks behind the gateway, it is sound.
LEMMA BroadcastType ==
    ASSUME NEW g \in Gateways, NEW p \in Attached[g], NEW kind \in Kinds,
           NEW nets \in SUBSET Networks, up \subseteq Gateways
    PROVE  /\ Broadcast(g, p, kind, nets) \subseteq Datagrams
           /\ \A m \in Broadcast(g, p, kind, nets) :
                 /\ m.kind = kind /\ m.from = g /\ m.net = p /\ m.nets = nets
                 /\ p \in Attached[m.to] /\ m.to # g /\ m.to \in Gateways
<1>1. p \in Networks /\ g \in Routers
  BY NetworksAssumption DEF Routers
<1>. QED  BY <1>1 DEF Broadcast, Datagrams

LEMMA AnnouncementSound ==
    ASSUME TypeOK, RoutesLeadOnward,
           NEW g \in Gateways, NEW p \in Attached[g],
           NEW nets \in SUBSET NetworksAccessibleExcludePort(g, p),
           NEW m \in Broadcast(g, p, "IAmRouter", nets)
    PROVE  /\ m.net \in Attached[m.to]
           /\ \A n \in m.nets \cap Settled : LeadsOnward(m.to, m.net, n, m.from)
<1>1. /\ m.from = g /\ m.net = p /\ m.nets = nets
      /\ p \in Attached[m.to] /\ m.to # g /\ m.to \in Gateways
  <2>1. "IAmRouter" \in Kinds /\ nets \in SUBSET Networks /\ up \subseteq Gateways
    BY AccessibleType DEF Kinds, TypeOK
  <2>. QED  BY <2>1, BroadcastType
<1>2. \A n \in nets \cap Settled : n \in Beyond[g][p]
  BY AccessibleBeyond
<1>. QED  BY <1>1, <1>2 DEF LeadsOnward

LEMMA InitIInv == Init => IInv
<1>. SUFFICES ASSUME Init PROVE IInv
  OBVIOUS
<1>1. TypeOK
  BY StaticAssumption, BoundAssumption DEF Init, TypeOK
<1>2. OneRoutePerNetwork /\ RoutesOnPorts
  BY StaticAssumption DEF Init, OneRoutePerNetwork, RoutesOnPorts
<1>3. RoutesLeadOnward
  BY TopologyAssumption DEF Init, RoutesLeadOnward, Settled
<1>4. AirSound
  BY DEF Init, AirSound
<1>. QED  BY <1>1, <1>2, <1>3, <1>4 DEF IInv

\* A step that changes no table keeps the invariant if the new datagrams are
\* well formed and sound.
SoundDatagram(m) ==
    /\ m \in Datagrams
    /\ m.net \in Attached[m.to]
    /\ m.kind = "IAmRouter" =>
          \A n \in m.nets \cap Settled : LeadsOnward(m.to, m.net, n, m.from)

LEMMA TablesUnchanged ==
    ASSUME IInv, UNCHANGED via, up' \subseteq Gateways,
           delivered' \subseteq Gateways \X Gateways, faults' \in 0..MaxFaults,
           \A m \in air' : m \in air \/ SoundDatagram(m)
    PROVE  IInv'
<1>1. TypeOK'
  BY DEF IInv, TypeOK, SoundDatagram
<1>2. (OneRoutePerNetwork /\ RoutesOnPorts /\ RoutesLeadOnward)'
  BY DEF IInv, OneRoutePerNetwork, RoutesOnPorts, RoutesLeadOnward
<1>3. AirSound'
  BY DEF IInv, AirSound, SoundDatagram
<1>. QED  BY <1>1, <1>2, <1>3 DEF IInv

LEMMA StartStep ==
    ASSUME IInv, NEW g \in Gateways, Start(g)
    PROVE  IInv'
<1>1. \A p \in Attached[g] :
        \A m \in Broadcast(g, p, "IAmRouter", NetworksAccessibleExcludePort(g, p)) :
            SoundDatagram(m)
  <2>. SUFFICES ASSUME NEW p \in Attached[g],
                       NEW m \in Broadcast(g, p, "IAmRouter",
                                           NetworksAccessibleExcludePort(g, p))
                PROVE  SoundDatagram(m)
    OBVIOUS
  <2>1. "IAmRouter" \in Kinds /\ up \subseteq Gateways
    BY DEF Kinds, IInv, TypeOK
  <2>2. m \in Datagrams
    BY <2>1, AccessibleType, BroadcastType
  <2>. QED  BY <2>2, AnnouncementSound DEF SoundDatagram, IInv
<1>. QED  BY <1>1, TablesUnchanged DEF Start, IInv, TypeOK

LEMMA CrashStep ==
    ASSUME IInv, NEW g \in Gateways, Crash(g)
    PROVE  IInv'
<1>. USE DEF Crash
<1>a. via \in [Gateways -> [Networks -> [Networks -> Routers \cup {NoRouter}]]]
  BY DEF IInv, TypeOK
<1>b. via' = [via EXCEPT ![g] = Static[g]]
  OBVIOUS
<1>1. TypeOK'
  <2>1. via' \in [Gateways -> [Networks -> [Networks -> Routers \cup {NoRouter}]]]
    BY <1>a, <1>b, StaticAssumption
  <2>2. faults' \in 0..MaxFaults
    BY BoundAssumption DEF IInv, TypeOK
  <2>. QED  BY <2>1, <2>2 DEF IInv, TypeOK
<1>2. \A h \in Gateways : via'[h] = IF h = g THEN Static[g] ELSE via[h]
  <2>. HIDE DEF Crash
  <2>. QED  BY <1>a, <1>b
<1>3. OneRoutePerNetwork' /\ RoutesOnPorts'
  BY <1>2, StaticAssumption DEF IInv, OneRoutePerNetwork, RoutesOnPorts
<1>4. RoutesLeadOnward'
  BY <1>2, TopologyAssumption DEF IInv, RoutesLeadOnward, Settled
<1>5. AirSound'
  BY DEF IInv, AirSound
<1>. QED  BY <1>1, <1>3, <1>4, <1>5 DEF IInv

LEMMA SendWhoIsSound ==
    ASSUME IInv, NEW g \in Gateways, NEW ports \in SUBSET Attached[g],
           NEW n \in Networks
    PROVE  \A m \in SendWhoIsOnPorts(g, ports, n) : SoundDatagram(m)
<1>1. "WhoIsRouter" \in Kinds /\ up \subseteq Gateways
  BY DEF Kinds, IInv, TypeOK
<1>. QED  BY <1>1, BroadcastType DEF SendWhoIsOnPorts, SoundDatagram

LEMMA SendApduStep ==
    ASSUME IInv, NEW g \in Gateways, NEW n \in Wanted[g], SendApdu(g, n)
    PROVE  IInv'
<1>0. n \in Networks /\ Attached[g] \subseteq Networks
  BY NetworksAssumption
<1>1. \A m \in air' : m \in air \/ SoundDatagram(m)
  <2>1. CASE UNCHANGED air
    BY <2>1
  <2>2. CASE \E p \in Attached[g], r \in NextHops(g, n) :
                 air' = air \cup IF r \in up /\ p \in Attached[r]
                                 THEN {[to |-> r, from |-> g, net |-> p,
                                        kind |-> "Apdu", nets |-> {n}]}
                                 ELSE {}
    <3>. SUFFICES ASSUME NEW p \in Attached[g], NEW r \in up, p \in Attached[r]
                  PROVE  SoundDatagram([to |-> r, from |-> g, net |-> p,
                                        kind |-> "Apdu", nets |-> {n}])
      BY <2>2
    <3>1. r \in Gateways /\ p \in Networks
      BY <1>0 DEF IInv, TypeOK
    <3>. QED  BY <1>0, <3>1 DEF SoundDatagram, Datagrams, Routers, Kinds
  <2>3. CASE air' = air \cup SendWhoIsOnPorts(g, Attached[g], n)
    BY <1>0, <2>3, SendWhoIsSound
  <2>. QED  BY <2>1, <2>2, <2>3 DEF SendApdu
<1>. QED  BY <1>1, TablesUnchanged DEF SendApdu, IInv, TypeOK

LEMMA BroadcastApduStep ==
    ASSUME IInv, NEW g \in Gateways, BroadcastApdu(g)
    PROVE  IInv'
<1>1. FramedKind("Apdu") \in Kinds \ {"IAmRouter"} /\ up \subseteq Gateways
  BY DEF FramedKind, Kinds, IInv, TypeOK
<1>2. \A p \in Attached[g] : \A m \in Broadcast(g, p, FramedKind("Apdu"), {}) :
         SoundDatagram(m)
  BY <1>1, BroadcastType DEF SoundDatagram
<1>. QED  BY <1>2, TablesUnchanged DEF BroadcastApdu, IInv, TypeOK

LEMMA LoseStep ==
    ASSUME IInv, NEW m \in air, Lose(m)
    PROVE  IInv'
<1>1. faults' \in 0..MaxFaults
  BY BoundAssumption DEF Lose, IInv, TypeOK
<1>. QED  BY <1>1, TablesUnchanged DEF Lose, IInv, TypeOK

LEMMA ProcessIAmRouterStep ==
    ASSUME IInv, NEW m \in air, ProcessIAmRouter(m)
    PROVE  IInv'
<1>. DEFINE g == m.to
            new == UpdatedIndirectAccess(g, m.net, m.nets, m.from)
<1>1. /\ m \in Datagrams /\ g \in Gateways /\ m.net \in Networks
      /\ m.from \in Routers /\ m.kind = "IAmRouter"
  BY DEF ProcessIAmRouter, Arrives, IInv, TypeOK, Datagrams
<1>2. /\ m.net \in Attached[g]
      /\ \A n \in m.nets \cap Settled : LeadsOnward(g, m.net, n, m.from)
  BY <1>1 DEF IInv, AirSound
<1>3. via' = [via EXCEPT ![g] = new]
  BY DEF ProcessIAmRouter
<1>4. \A q, n \in Networks :
         /\ n \in m.nets /\ q = m.net => new[q][n] = m.from
         /\ n \in m.nets /\ q # m.net => new[q][n] = NoRouter
         /\ n \notin m.nets => new[q][n] = via[g][q][n]
  BY DEF UpdatedIndirectAccess
<1>5. new \in [Networks -> [Networks -> Routers \cup {NoRouter}]]
  BY <1>1 DEF UpdatedIndirectAccess, IInv, TypeOK
<1>6. TypeOK'
  BY <1>3, <1>5 DEF ProcessIAmRouter, IInv, TypeOK
<1>7. \A h \in Gateways : via'[h] = IF h = g THEN new ELSE via[h]
  BY <1>3 DEF IInv, TypeOK
<1>. HIDE DEF new
<1>8. OneRoutePerNetwork'
  BY <1>4, <1>7 DEF IInv, OneRoutePerNetwork
<1>9. RoutesOnPorts'
  BY <1>2, <1>4, <1>7 DEF IInv, RoutesOnPorts
<1>10. RoutesLeadOnward'
  <2>. SUFFICES ASSUME NEW h \in Gateways, NEW p \in Networks, NEW n \in Settled,
                       via'[h][p][n] # NoRouter
                PROVE  LeadsOnward(h, p, n, via'[h][p][n])
    BY DEF RoutesLeadOnward
  <2>1. n \in Networks
    BY DEF Settled
  <2>2. CASE h = g /\ n \in m.nets
    BY <1>2, <1>4, <1>7, <2>1, <2>2
  <2>3. CASE h # g \/ n \notin m.nets
    BY <1>4, <1>7, <2>1, <2>3 DEF IInv, RoutesLeadOnward
  <2>. QED  BY <2>2, <2>3
<1>11. AirSound'
  BY DEF ProcessIAmRouter, IInv, AirSound
<1>. QED  BY <1>6, <1>8, <1>9, <1>10, <1>11 DEF IInv

LEMMA ProcessRejectStep ==
    ASSUME IInv, NEW m \in air, ProcessReject(m)
    PROVE  IInv'
<1>1. PICK n \in m.nets :
        via' = [via EXCEPT ![m.to] = WithoutIndirectAccess(m.to, m.net, MisreadNetwork(n))]
  BY DEF ProcessReject
<1>2. m.to \in Gateways /\ m.net \in Networks
  BY DEF IInv, TypeOK, Datagrams
<1>. DEFINE new == WithoutIndirectAccess(m.to, m.net, MisreadNetwork(n))
<1>3. /\ new \in [Networks -> [Networks -> Routers \cup {NoRouter}]]
      /\ \A q, k \in Networks : new[q][k] \in {via[m.to][q][k], NoRouter}
  BY <1>2 DEF WithoutIndirectAccess, IInv, TypeOK
<1>4. TypeOK'
  BY <1>1, <1>3 DEF ProcessReject, IInv, TypeOK
<1>5. \A h \in Gateways, q, k \in Networks :
         via'[h][q][k] = via[h][q][k] \/ via'[h][q][k] = NoRouter
  BY <1>1, <1>3 DEF IInv, TypeOK
<1>6. OneRoutePerNetwork'
  BY <1>5 DEF IInv, OneRoutePerNetwork
<1>7. RoutesOnPorts'
  BY <1>5 DEF IInv, RoutesOnPorts
<1>8. RoutesLeadOnward'
  BY <1>5 DEF IInv, RoutesLeadOnward, Settled
<1>9. AirSound'
  BY DEF ProcessReject, IInv, AirSound
<1>. QED  BY <1>4, <1>6, <1>7, <1>8, <1>9 DEF IInv

LEMMA ProcessWhoIsRouterStep ==
    ASSUME IInv, NEW m \in air, ProcessWhoIsRouter(m)
    PROVE  IInv'
<1>. DEFINE g == m.to
<1>1. /\ g \in Gateways /\ m.net \in Attached[g] /\ m.nets \subseteq Networks
      /\ up \subseteq Gateways
  BY DEF IInv, TypeOK, Datagrams, AirSound
<1>2. \A nets \in SUBSET NetworksAccessibleExcludePort(g, m.net) :
        \A k \in Broadcast(g, m.net, "IAmRouter", nets) : SoundDatagram(k)
  <2>. SUFFICES ASSUME NEW nets \in SUBSET NetworksAccessibleExcludePort(g, m.net),
                       NEW k \in Broadcast(g, m.net, "IAmRouter", nets)
                PROVE  SoundDatagram(k)
    OBVIOUS
  <2>1. "IAmRouter" \in Kinds /\ nets \in SUBSET Networks
    BY <1>1, AccessibleType DEF Kinds
  <2>2. k \in Datagrams
    BY <1>1, <2>1, BroadcastType
  <2>. QED  BY <1>1, <2>2, AnnouncementSound DEF SoundDatagram, IInv
<1>3. \A k \in air' : k \in air \/ SoundDatagram(k)
  <2>1. CASE air' = (air \ {m}) \cup Broadcast(g, m.net, "IAmRouter",
                                     NetworksAccessibleExcludePort(g, m.net))
    BY <1>2, <2>1
  <2>2. ASSUME NEW n \in m.nets, n = Virtual[g] \/ FoundOnOtherPort(g, m.net, n),
               air' = (air \ {m}) \cup Broadcast(g, m.net, "IAmRouter", {n})
        PROVE  \A k \in air' : k \in air \/ SoundDatagram(k)
    <3>1. {n} \in SUBSET NetworksAccessibleExcludePort(g, m.net)
      BY <1>1, <2>2, FoundAccessible
    <3>. QED  BY <1>2, <2>2, <3>1
  <2>3. ASSUME NEW n \in m.nets,
               air' = (air \ {m}) \cup SendWhoIsOnPorts(g, Attached[g] \ {m.net}, n)
        PROVE  \A k \in air' : k \in air \/ SoundDatagram(k)
    BY <1>1, <2>3, SendWhoIsSound
  <2>. QED  BY <2>1, <2>2, <2>3 DEF ProcessWhoIsRouter
<1>. QED  BY <1>3, TablesUnchanged DEF ProcessWhoIsRouter, IInv, TypeOK

LEMMA ReadApduStep ==
    ASSUME IInv, NEW m \in air, ReadApdu(m)
    PROVE  IInv'
<1>1. m.to \in Gateways
  BY DEF IInv, TypeOK, Datagrams
<1>2. delivered' \subseteq Gateways \X Gateways
  BY <1>1 DEF ReadApdu, IInv, TypeOK
<1>. QED  BY <1>2, TablesUnchanged DEF ReadApdu, IInv, TypeOK

LEMMA ForeignStep ==
    ASSUME IInv, NEW f \in Foreign, NEW p \in Networks,
           \/ ForeignAnnounces(f, p)
           \/ ForeignAsks(f, p)
           \/ \E n \in Roaming : ForeignRejects(f, p, n)
    PROVE  IInv'
<1>1. /\ faults' \in 0..MaxFaults
      /\ \E kind \in {"IAmRouter", "WhoIsRouter", "NotDirectlyConnected"},
            nets \in SUBSET Networks :
            /\ ForeignSends(f, p, kind, nets)
            /\ kind = "IAmRouter" => nets = Roaming
  <2>1. CASE ForeignAnnounces(f, p)
    BY <2>1, NetworksAssumption DEF ForeignAnnounces, IInv, TypeOK
  <2>2. CASE ForeignAsks(f, p)
    BY <2>2 DEF ForeignAsks, IInv, TypeOK
  <2>3. CASE \E n \in Roaming : ForeignRejects(f, p, n)
    <3>1. PICK n \in Roaming : ForeignRejects(f, p, n)
      BY <2>3
    <3>2. faults' \in 0..MaxFaults
      BY <3>1, BoundAssumption DEF ForeignRejects, IInv, TypeOK
    <3>3. {n} \in SUBSET Networks
      BY NetworksAssumption
    <3>. QED  BY <3>1, <3>2, <3>3 DEF ForeignRejects
  <2>. QED  BY <2>1, <2>2, <2>3
<1>2. PICK kind \in {"IAmRouter", "WhoIsRouter", "NotDirectlyConnected"},
           nets \in SUBSET Networks :
        /\ ForeignSends(f, p, kind, nets)
        /\ kind = "IAmRouter" => nets = Roaming
  BY <1>1
<1>3. \A m \in air' : m \in air \/ SoundDatagram(m)
  <2>. SUFFICES ASSUME NEW h \in up, p \in Attached[h]
                PROVE  SoundDatagram([to |-> h, from |-> f, net |-> p,
                                      kind |-> kind, nets |-> nets])
    BY <1>2 DEF ForeignSends
  <2>1. h \in Gateways /\ f \in Routers /\ kind \in Kinds
    BY DEF IInv, TypeOK, Routers, Kinds
  <2>. QED  BY <1>2, <2>1 DEF SoundDatagram, Datagrams, Settled
<1>. QED  BY <1>1, <1>2, <1>3, TablesUnchanged DEF ForeignSends, IInv, TypeOK

LEMMA NextIInv == IInv /\ [Next]_vars => IInv'
<1>. SUFFICES ASSUME IInv, [Next]_vars PROVE IInv'
  OBVIOUS
<1>1. CASE UNCHANGED vars
  BY <1>1, TablesUnchanged DEF vars, IInv, TypeOK
<1>2. CASE \E g \in Gateways : Start(g) \/ Crash(g) \/ BroadcastApdu(g)
  BY <1>2, StartStep, CrashStep, BroadcastApduStep
<1>3. CASE \E g \in Gateways : \E n \in Wanted[g] : SendApdu(g, n)
  BY <1>3, SendApduStep
<1>4. CASE \E m \in air : ReadNpdu(m) \/ Lose(m)
  <2>1. ASSUME NEW m \in air, Discard(m) PROVE IInv'
    BY <2>1, TablesUnchanged DEF Discard, IInv, TypeOK
  <2>. QED  BY <1>4, <2>1, LoseStep, ProcessIAmRouterStep, ProcessWhoIsRouterStep,
               ProcessRejectStep, ReadApduStep DEF ReadNpdu
<1>5. CASE \E f \in Foreign, p \in Networks :
             \/ ForeignAnnounces(f, p)
             \/ ForeignAsks(f, p)
             \/ \E n \in Roaming : ForeignRejects(f, p, n)
  BY <1>5, ForeignStep
<1>. QED  BY <1>1, <1>2, <1>3, <1>4, <1>5 DEF Next

\* The invariant holds of every behaviour.
THEOREM Invariance == Spec => []IInv
BY InitIInv, NextIInv, PTL DEF Spec

\* The tables and the datagrams are what they are declared to be.
THEOREM TypeCorrect == Spec => []TypeOK
<1>1. IInv => TypeOK
  BY DEF IInv
<1>. QED  BY <1>1, Invariance, PTL

\* However announcements cross, a gateway has at most one learned route to a
\* network.
THEOREM RoutesUnique == Spec => []OneRoutePerNetwork
<1>1. IInv => OneRoutePerNetwork
  BY DEF IInv
<1>. QED  BY <1>1, Invariance, PTL

\* In every wiring without loops, the next router has the destination behind
\* it, seen from the network it was learned on.
THEOREM RoutesOnward == Spec => []RoutesLeadOnward
<1>1. IInv => RoutesLeadOnward
  BY DEF IInv
<1>. QED  BY <1>1, Invariance, PTL

\* At most one gateway of a network would answer a question about another.
THEOREM AtMostOneAnswer == Spec => []OneAnswerer
<1>1. IInv => OneAnswerer
  <2>. SUFFICES ASSUME IInv, NEW p \in Networks, NEW n \in Settled,
                       NEW g \in Gateways, NEW h \in Gateways,
                       Answers(g, p, n), Answers(h, p, n)
                PROVE  g = h
    BY DEF OneAnswerer
  <2>1. n \in Networks /\ n \notin Roaming
    BY DEF Settled
  <2>2. n \in Beyond[g][p] /\ n \in Beyond[h][p]
    BY <2>1, FoundAccessible, AccessibleBeyond DEF Answers, IInv
  <2>3. g # h => Beyond[g][p] \cap Beyond[h][p] \subseteq Roaming
    BY TopologyAssumption DEF Answers
  <2>. QED  BY <2>1, <2>2, <2>3
<1>. QED  BY <1>1, Invariance, PTL
=============================================================================
