------------------------------ MODULE Routing ------------------------------
(***************************************************************************)
(* The network layer of several gateways on one BACnet internetwork: how   *)
(* they learn from each other which router leads to which network, and     *)
(* what becomes of the APDUs they send along these routes.                 *)
(*                                                                         *)
(* Datagrams travel over UDP: each copy of a broadcast is an element of    *)
(* `air' of its own, may be lost, and is read in any order.  Equal         *)
(* datagrams in flight are one element: handling a copy twice in a row     *)
(* leaves the tables as handling it once does.  Gateways start in any      *)
(* order and may crash; nothing they learned survives.                     *)
(*                                                                         *)
(* Stations that are no gateway of this kind are seen by what they send:   *)
(* a router that moves from network to network and announces what lies     *)
(* behind it, and routers that reject a network they no longer reach.      *)
(***************************************************************************)
EXTENDS Integers, FiniteSets

CONSTANTS
    Networks,   \* network numbers
    Gateways,
    Foreign,    \* routers of other makes
    Attached,   \* Attached[g]: the networks g has a port on
    Virtual,    \* Virtual[g]: _virtualNetNum
    Static,     \* Static[g]: the routes configured for g
    Roaming,    \* networks behind foreign routers
    Wanted,     \* Wanted[g]: networks the application of g sends APDUs to
    Beyond,     \* Beyond[g][p]: what the wiring puts behind g, seen from p
    MaxFaults,  \* bound on crashes, losses and rejections together
    MaxAir,     \* applications and foreign routers wait while this many fly
    NoRouter

Routers == Gateways \cup Foreign

ASSUME NetworksAssumption ==
    /\ Networks \subseteq Nat
    /\ Attached \in [Gateways -> SUBSET Networks]
    /\ Virtual \in [Gateways -> Networks]
    /\ Roaming \subseteq Networks
    /\ Wanted \in [Gateways -> SUBSET Networks]
ASSUME RoutersAssumption ==
    /\ NoRouter \notin Routers
    /\ Gateways \cap Foreign = {}
\* The configurator refuses a second route to a network.
ASSUME StaticAssumption ==
    /\ Static \in [Gateways -> [Networks -> [Networks -> Routers \cup {NoRouter}]]]
    /\ \A g \in Gateways, p, q, n \in Networks :
          /\ Static[g][p][n] # NoRouter /\ Static[g][q][n] # NoRouter => p = q
          /\ Static[g][p][n] # NoRouter => p \in Attached[g]
\* BACnet forbids loops between networks: what lies behind one gateway of a
\* network does not lie behind another one of it.
Settled == Networks \ Roaming
LeadsOnward(g, p, n, r) ==
    r \in Gateways \ {g} /\ p \in Attached[r] /\ n \in Beyond[r][p]
ASSUME TopologyAssumption ==
    /\ Beyond \in [Gateways -> [Networks -> SUBSET Networks]]
    /\ \A g \in Gateways : \A p \in Attached[g] :
          /\ Virtual[g] \in Beyond[g][p]
          /\ Attached[g] \ {p} \subseteq Beyond[g][p]
          /\ \A h \in Gateways \ {g} : \A q \in Attached[g] \ {p} :
                q \in Attached[h] => Beyond[h][q] \subseteq Beyond[g][p]
          /\ \A h \in Gateways \ {g} :
                p \in Attached[h] => Beyond[g][p] \cap Beyond[h][p] \subseteq Roaming
    /\ \A g \in Gateways, p \in Networks, n \in Settled :
          Static[g][p][n] # NoRouter => LeadsOnward(g, p, n, Static[g][p][n])
ASSUME BoundAssumption == MaxFaults \in Nat /\ MaxAir \in Nat

VARIABLES
    up,        \* the gateways that run
    via,       \* via[g][p][n]: indirectNetworkAccess of the entry of port p
    air,       \* copies of datagrams under way to a gateway
    delivered, \* history: <<from, to>> once an APDU reached to's application
    faults     \* history: crashes, losses and rejections so far

vars == <<up, via, air, delivered, faults>>

Kinds == {"WhoIsRouter", "IAmRouter", "NotDirectlyConnected", "Apdu", "Unframed"}
Datagrams == [to : Gateways, from : Routers, net : Networks,
              kind : Kinds, nets : SUBSET Networks]

TypeOK ==
    /\ up \subseteq Gateways
    /\ via \in [Gateways -> [Networks -> [Networks -> Routers \cup {NoRouter}]]]
    /\ air \subseteq Datagrams
    /\ delivered \subseteq Gateways \X Gateways
    /\ faults \in 0..MaxFaults

Init ==
    /\ up = {}
    /\ via = Static
    /\ air = {}
    /\ delivered = {}
    /\ faults = 0
-----------------------------------------------------------------------------
(* The routing table. *)

\* Networks reached through the entry of port p.
Through(g, p) == {n \in Networks : via[g][p][n] # NoRouter}

\* A bug: the networks behind the port are announced on it.
NetworksAccessibleOnAllPorts(g, p) ==
    {Virtual[g]} \cup UNION {{q} \cup Through(g, q) : q \in Attached[g]}

\* Split horizon: what g tells the stations on network p.
NetworksAccessibleExcludePort(g, p) ==
    {Virtual[g]} \cup UNION {{q} \cup Through(g, q) : q \in Attached[g] \ {p}}

\* Who-Is-Router-To-Network about one network looks at the other ports only.
FoundOnOtherPort(g, p, n) ==
    \E q \in Attached[g] \ {p} : n = q \/ n \in Through(g, q)

\* A bug: routes through the other ports stay.
UpdatedIndirectAccessAddingOnly(g, p, nets, router) ==
    [via[g] EXCEPT ![p] = [n \in Networks |-> IF n \in nets THEN router ELSE @[n]]]

\* The table of g once `router' announced nets on port p.
UpdatedIndirectAccess(g, p, nets, router) ==
    [q \in Networks |->
        [n \in Networks |->
            CASE n \in nets /\ q = p -> router
              [] n \in nets /\ q # p -> NoRouter
              [] OTHER -> via[g][q][n]]]

WithoutIndirectAccess(g, p, n) ==
    [via[g] EXCEPT ![p] = [k \in Networks |-> IF k = n THEN NoRouter ELSE @[k]]]

\* The routers an APDU from g to network n may be handed to.
NextHops(g, n) ==
    {r \in Routers : \E p \in Attached[g] : via[g][p][n] = r}
-----------------------------------------------------------------------------
(* Sending: BacnetBvllHandler::sendNpdu and the socket. *)

\* One copy for every other gateway that listens on network p.
Broadcast(g, p, kind, nets) ==
    {[to |-> h, from |-> g, net |-> p, kind |-> kind, nets |-> nets] :
        h \in {k \in up \ {g} : p \in Attached[k]}}

SendWhoIsOnPorts(g, ports, n) ==
    UNION {Broadcast(g, p, "WhoIsRouter", {n}) : p \in ports}

\* createProtocol reads the configuration, then broadcastAvailableNetworks.
Start(g) ==
    /\ g \notin up
    /\ up' = up \cup {g}
    /\ air' = air \cup UNION {Broadcast(g, p, "IAmRouter",
                                          NetworksAccessibleExcludePort(g, p)) :
                                 p \in Attached[g]}
    /\ UNCHANGED <<via, delivered, faults>>

\* The table of a gateway that is down is the one it will start with.
Crash(g) ==
    /\ g \in up
    /\ faults < MaxFaults
    /\ faults' = faults + 1
    /\ up' = up \ {g}
    /\ via' = [via EXCEPT ![g] = Static[g]]
    /\ air' = {m \in air : m.to # g}
    /\ UNCHANGED delivered

\* The application of g sends to a station on network n: straight into a
\* network it is attached to, to the next router, or, with neither, a
\* Who-Is-Router-To-Network goes out on every port and the APDU is dropped.
SendApdu(g, n) ==
    /\ g \in up
    /\ n # Virtual[g]
    /\ Cardinality(air) < MaxAir
    /\ \/ /\ n \in Attached[g]
          /\ UNCHANGED air
       \/ /\ n \notin Attached[g]
          /\ \E p \in Attached[g], r \in NextHops(g, n) :
                /\ via[g][p][n] = r
                /\ air' = air \cup IF r \in up /\ p \in Attached[r]
                                   THEN {[to |-> r, from |-> g, net |-> p,
                                          kind |-> "Apdu", nets |-> {n}]}
                                   ELSE {}
       \/ /\ n \notin Attached[g]
          /\ NextHops(g, n) = {}
          /\ air' = air \cup SendWhoIsOnPorts(g, Attached[g], n)
    /\ UNCHANGED <<up, via, delivered, faults>>
\* A broadcast APDU.  Its NPDU header ends where the APDU starts, so there is
\* a gap between the link header, at the start of the buffer, and the NPDU.
\* sendNpdu closes it with the arguments of memmove swapped: the frame starts
\* with what the gap held.  Network messages have no gap.
NpduMaxHeaderSize == 24
ApduHeaderSize == 2 + 3 + 4
FramedKind(kind) ==
    IF kind = "Apdu" /\ NpduMaxHeaderSize - ApduHeaderSize > 0 THEN "Unframed" ELSE kind

BroadcastApdu(g) ==
    /\ g \in up
    /\ Cardinality(air) < MaxAir
    /\ air' = air \cup UNION {Broadcast(g, p, FramedKind("Apdu"), {}) : p \in Attached[g]}
    /\ UNCHANGED <<up, via, delivered, faults>>
-----------------------------------------------------------------------------
(* Receiving: BacnetBvllHandler::consumeDatagram and readNpdu. *)

Arrives(m, kind) == m \in air /\ m.kind = kind

\* The announcement is not passed on to the other ports.
ProcessIAmRouter(m) ==
    /\ Arrives(m, "IAmRouter")
    /\ via' = [via EXCEPT ![m.to] = UpdatedIndirectAccess(m.to, m.net, m.nets, m.from)]
    /\ air' = air \ {m}
    /\ UNCHANGED <<up, delivered, faults>>

\* A bug: a question without an answer is dropped.
ProcessWhoIsRouterUnrelayed(m) ==
    /\ Arrives(m, "WhoIsRouter")
    /\ air' = (air \ {m}) \cup
          IF m.nets = {}
          THEN Broadcast(m.to, m.net, "IAmRouter", NetworksAccessibleExcludePort(m.to, m.net))
          ELSE Broadcast(m.to, m.net, "IAmRouter",
                  {n \in m.nets : n = Virtual[m.to] \/ FoundOnOtherPort(m.to, m.net, n)})
    /\ UNCHANGED <<up, via, delivered, faults>>

\* A question about one network is answered, or relayed to the other ports;
\* nobody remembers who asked.  An empty question gets everything.
ProcessWhoIsRouter(m) ==
    LET g == m.to
        Answer(nets) == Broadcast(g, m.net, "IAmRouter", nets)
    IN  /\ Arrives(m, "WhoIsRouter")
        /\ \/ /\ m.nets = {}
              /\ air' = (air \ {m}) \cup Answer(NetworksAccessibleExcludePort(g, m.net))
           \/ \E n \in m.nets :
                 \/ /\ n = Virtual[g] \/ FoundOnOtherPort(g, m.net, n)
                    /\ air' = (air \ {m}) \cup Answer({n})
                 \/ /\ n # Virtual[g] /\ ~FoundOnOtherPort(g, m.net, n)
                    /\ air' = (air \ {m})
                                \cup SendWhoIsOnPorts(g, Attached[g] \ {m.net}, n)
        /\ UNCHANGED <<up, via, delivered, faults>>

\* The reason octet is read again as the high octet of the network number.
NotDirectlyConnectedCode == 1
MisreadNetwork(n) == NotDirectlyConnectedCode * 256 + n \div 256

ProcessReject(m) ==
    /\ Arrives(m, "NotDirectlyConnected")
    /\ \E n \in m.nets :
          via' = [via EXCEPT ![m.to] = WithoutIndirectAccess(m.to, m.net, MisreadNetwork(n))]
    /\ air' = air \ {m}
    /\ UNCHANGED <<up, delivered, faults>>

\* A bug: the destination is compared with the direct networks.
ReadApduForAttached(m) ==
    /\ Arrives(m, "Apdu")
    /\ delivered' = IF m.nets \subseteq Attached[m.to]
                    THEN delivered \cup ({m.from} \cap Gateways) \X {m.to}
                    ELSE delivered
    /\ air' = air \ {m}
    /\ UNCHANGED <<up, via, faults>>

\* An APDU for another network is dropped, announced or not.
ReadApdu(m) ==
    /\ Arrives(m, "Apdu")
    /\ delivered' = IF Virtual[m.to] \in m.nets
                    THEN delivered \cup ({m.from} \cap Gateways) \X {m.to}
                    ELSE delivered
    /\ air' = air \ {m}
    /\ UNCHANGED <<up, via, faults>>

\* Not the BACnet/IP protocol octet; and if the gap held an old header, an
\* NPDU without destination, which is dropped as well.
Discard(m) ==
    /\ Arrives(m, "Unframed")
    /\ air' = air \ {m}
    /\ UNCHANGED <<up, via, delivered, faults>>

ReadNpdu(m) ==
    \/ ProcessIAmRouter(m)
    \/ ProcessWhoIsRouter(m)
    \/ ProcessReject(m)
    \/ ReadApdu(m)
    \/ Discard(m)

Lose(m) ==
    /\ m \in air
    /\ faults < MaxFaults
    /\ faults' = faults + 1
    /\ air' = air \ {m}
    /\ UNCHANGED <<up, via, delivered>>
-----------------------------------------------------------------------------
(* The stations that are no gateway of this kind. *)

ForeignSends(f, p, kind, nets) ==
    /\ Cardinality(air) < MaxAir
    /\ air' = air \cup {[to |-> h, from |-> f, net |-> p, kind |-> kind, nets |-> nets] :
                           h \in {k \in up : p \in Attached[k]}}
    /\ UNCHANGED <<up, via, delivered>>

ForeignAnnounces(f, p) ==
    ForeignSends(f, p, "IAmRouter", Roaming) /\ UNCHANGED faults

ForeignAsks(f, p) ==
    ForeignSends(f, p, "WhoIsRouter", {}) /\ UNCHANGED faults

ForeignRejects(f, p, n) ==
    /\ faults < MaxFaults
    /\ faults' = faults + 1
    /\ ForeignSends(f, p, "NotDirectlyConnected", {n})

Next ==
    \/ \E g \in Gateways : Start(g) \/ Crash(g) \/ BroadcastApdu(g)
    \/ \E g \in Gateways : \E n \in Wanted[g] : SendApdu(g, n)
    \/ \E m \in air : ReadNpdu(m) \/ Lose(m)
    \/ \E f \in Foreign, p \in Networks :
          \/ ForeignAnnounces(f, p)
          \/ ForeignAsks(f, p)
          \/ \E n \in Roaming : ForeignRejects(f, p, n)

Spec == Init /\ [][Next]_vars

\* Applications repeat their requests, what arrives is read, and a gateway
\* that is down is started.
Read(g, router, kind) ==
    \E m \in air : m.to = g /\ m.from = router /\ m.kind = kind /\ ReadNpdu(m)

Fairness ==
    /\ \A g \in Gateways : WF_vars(Start(g))
    /\ \A g \in Gateways : \A n \in Wanted[g] : SF_vars(SendApdu(g, n))
    /\ \A g \in Gateways, router \in Routers, kind \in Kinds :
          WF_vars(Read(g, router, kind))

FairSpec == Spec /\ Fairness
-----------------------------------------------------------------------------
(* Properties. *)

\* Announcements relayed, lost, late or repeated, questions that cross them,
\* restarts: a gateway never holds routes to one network on two ports
\* (updateRoutingTableIndirectAccess removes the others), also for a router
\* that moves.
OneRoutePerNetwork ==
    \A g \in Gateways, p, q, n \in Networks :
        via[g][p][n] # NoRouter /\ via[g][q][n] # NoRouter => p = q

\* A learned route leads to a gateway on the port's network, and the wiring
\* puts the destination behind it, never back where it was learned: the
\* split horizon of networksAccessibleExcludePort_helper and of
\* processWhoIsRouterToNetwork, seen across gateways.
RoutesLeadOnward ==
    \A g \in Gateways, p \in Networks, n \in Settled :
        via[g][p][n] # NoRouter => LeadsOnward(g, p, n, via[g][p][n])

\* "one I-Am-Router-To-Network should be returned at most": of the gateways
\* on a network, at most one would answer a Who-Is about another network.
Answers(g, p, n) ==
    p \in Attached[g] /\ (n = Virtual[g] \/ FoundOnOtherPort(g, p, n))
OneAnswerer ==
    \A p \in Networks, n \in Settled, g, h \in Gateways :
        Answers(g, p, n) /\ Answers(h, p, n) => g = h

\* Answers are not passed on and rejections remove the wrong route; yet, once
\* the faults are over, an application that repeats its request gets and keeps
\* a route to every network it wants, however many gateways away: each round
\* of Who-Is teaches one more of them.
Remote == {w \in Gateways \X Networks :
              w[2] \in Wanted[w[1]] \ (Attached[w[1]] \cup {Virtual[w[1]]})}
RoutesFound == \A w \in Remote : <>[](NextHops(w[1], w[2]) # {})

\* An APDU for the application of a gateway on a shared network gets there,
\* however late the two gateways start and whatever is lost.
Neighbours == {w \in Gateways \X Gateways :
                  /\ w[1] # w[2]
                  /\ Virtual[w[2]] \in Wanted[w[1]]
                  /\ Attached[w[1]] \cap Attached[w[2]] # {}}
NeighboursReached == <>(Neighbours \subseteq delivered)

\* "create original-broadcast and send it": every frame begins with its own
\* link header.  A broadcast APDU's does not.
EveryFrameHasHeader == \A m \in air : m.kind # "Unframed"
=============================================================================
