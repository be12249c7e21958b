-------------------------- MODULE DiscoveryProofs --------------------------
(***************************************************************************)
(* Proofs about Discovery, for any number of services, objects and devices *)
(* and any table sizes.                                                    *)
(***************************************************************************)
EXTENDS Discovery, FiniteSetTheorems, TLAPS

USE TargetAssumption, ConfiguredAssumption, SizeAssumption, NamesAssumption

\* What the tables hold was configured or announced.
RoutesAnnounced ==
    /\ \A d \in Devices : static[d] # NoAddress => <<d, static[d]>> \in announced
    /\ \A d \in Devices : dynamic[d] # NoAddress => <<d, dynamic[d]>> \in announced

\* SentWhereAnnounced needs the tables' contents, ConfiguredKept what is looked
\* for, and both need the types.
DInv ==
    /\ TypeOK
    /\ SentWhereAnnounced
    /\ RoutesAnnounced
    /\ LookedForUnconfigured

-----------------------------------------------------------------------------
\* At first only the configured addresses are known.
LEMMA InitDInv == Init => DInv
<1> SUFFICES ASSUME Init PROVE DInv
  OBVIOUS
<1>1. TypeOK
  BY DEF Init, TypeOK, Routes, Keys, Routed
<1>2. SentWhereAnnounced /\ RoutesAnnounced
  BY DEF Init, SentWhereAnnounced, RoutesAnnounced, Routed
<1>3. LookedForUnconfigured
  BY DEF Init, LookedForUnconfigured
<1> QED
  BY <1>1, <1>2, <1>3 DEF DInv

\* What send() looks up is a device or the invalid id, and what it finds is in
\* one of the tables.
LEMMA LookUpFinds ==
    ASSUME DInv, NEW s \in Services
    PROVE  /\ LookUp(s) \in Devices \cup {InvalidId}
           /\ FindRoute(LookUp(s)) \in Addresses \cup {NoAddress}
           /\ FindRoute(LookUp(s)) # NoAddress =>
                  /\ LookUp(s) \in Devices
                  /\ <<LookUp(s), FindRoute(LookUp(s))>> \in announced
           /\ FindRoute(LookUp(s)) = NoAddress /\ LookUp(s) \in Devices =>
                  static[LookUp(s)] = NoAddress
<1>1. LookUp(s) \in Devices \cup {InvalidId}
  BY DEF DInv, TypeOK, LookUp
<1> QED
  BY <1>1 DEF DInv, TypeOK, Routes, RoutesAnnounced, FindRoute

\* Sending preserves the invariant.
LEMMA SendDInv ==
    ASSUME DInv, NEW s \in Services, Send(s)
    PROVE  DInv'
<1> DEFINE d == LookUp(s)
<1>1. /\ d \in Devices \cup {InvalidId}
      /\ FindRoute(d) # NoAddress => <<d, FindRoute(d)>> \in announced /\ d \in Devices
      /\ FindRoute(d) \in Addresses \cup {NoAddress}
      /\ FindRoute(d) = NoAddress /\ d \in Devices => static[d] = NoAddress
  BY LookUpFinds
<1> HIDE DEF d
<1>2. /\ UNCHANGED <<mapper, static, dynamic, asked, freed, announced, running>>
      /\ \/ /\ FindRoute(d) # NoAddress
            /\ outcome' = [outcome EXCEPT ![s] = "sent"]
            /\ sent' = [sent EXCEPT ![s] = <<d, FindRoute(d)>>]
            /\ UNCHANGED key
         \/ /\ FindRoute(d) = NoAddress
            /\ outcome' = [outcome EXCEPT ![s] = "waiting"]
            /\ key' = [key EXCEPT ![s] = d]
            /\ UNCHANGED sent
  BY DEF Send, d
<1>3. TypeOK'
  BY <1>1, <1>2 DEF DInv, TypeOK, Keys
<1>4. SentWhereAnnounced'
  BY <1>1, <1>2 DEF DInv, TypeOK, SentWhereAnnounced
<1>5. RoutesAnnounced'
  BY <1>2 DEF DInv, RoutesAnnounced
<1>6. LookedForUnconfigured'
  BY <1>1, <1>2 DEF DInv, TypeOK, LookedForUnconfigured
<1> QED
  BY <1>3, <1>4, <1>5, <1>6 DEF DInv

\* What an answer does to the wrappers.
LEMMA ConcludeEffect ==
    ASSUME TypeOK, NEW K, NEW d \in Devices, NEW a \in Addresses, Conclude(K, d, a)
    PROVE  /\ outcome' = [s \in Services |-> IF key[s] \in K THEN "sent" ELSE outcome[s]]
           /\ sent' = [s \in Services |-> IF key[s] \in K THEN <<d, a>> ELSE sent[s]]
           /\ key' = [s \in Services |-> IF key[s] \in K THEN NoDevice ELSE key[s]]
           /\ freed' \subseteq Services
           /\ running' \in BOOLEAN
<1> DEFINE S == WaitingFor(K)
<1>1. DiscoveryFinished(S, d, a)
  BY DEF Conclude
<1>2. \A s \in Services : s \in S <=> key[s] \in K
  BY DEF WaitingFor
<1>3. freed' \subseteq Services /\ running' \in BOOLEAN
  <2>1. CASE UNCHANGED <<freed, running>>
    BY <2>1 DEF TypeOK
  <2>2. CASE DeleteFollower(S, K)
    <3>1. \A b \in BOOLEAN : Undefined(b) \subseteq BOOLEAN
      BY DEF Undefined
    <3>2. Waiting \ S \subseteq Services
      BY DEF Waiting
    <3> QED
      BY <2>2, <3>1, <3>2 DEF DeleteFollower, TypeOK, Undefined
  <2> QED
    BY <2>1, <2>2 DEF Conclude
<1> QED
  BY <1>1, <1>2, <1>3 DEF DiscoveryFinished

\* A table addition puts the announced address in, or nothing.
LEMMA AddDynamicEffect ==
    ASSUME TypeOK, NEW d \in Devices, NEW a \in Addresses, NEW force \in BOOLEAN,
           AddDynamic(d, a, force)
    PROVE  /\ dynamic' \in Routes
           /\ \A e \in Devices : dynamic'[e] # NoAddress =>
                  dynamic'[e] = dynamic[e] \/ (e = d /\ dynamic'[e] = a)
           /\ force => dynamic'[d] = a
<1>1. CASE dynamic' = dynamic /\ ~ force
  BY <1>1 DEF TypeOK, Routes
<1>2. CASE dynamic' = [dynamic EXCEPT ![d] = a]
  BY <1>2 DEF TypeOK, Routes
<1>3. CASE \E victim \in Routed(dynamic) :
              dynamic' = [dynamic EXCEPT ![victim] = NoAddress, ![d] = a]
  BY <1>3 DEF TypeOK, Routes, Routed
<1> QED
  BY <1>1, <1>2, <1>3 DEF AddDynamic

\* The same of both tables together; a configured device moves only if forced.
LEMMA AddRouteEffect ==
    ASSUME TypeOK, NEW d \in Devices, NEW a \in Addresses, NEW force \in BOOLEAN,
           AddRoute(d, a, force), force => static[d] = NoAddress
    PROVE  /\ static' = static
           /\ dynamic' \in Routes
           /\ \A e \in Devices : dynamic'[e] # NoAddress =>
                  dynamic'[e] = dynamic[e] \/ (e = d /\ dynamic'[e] = a)
           /\ force => dynamic'[d] = a
<1>1. CASE static[d] # NoAddress
  BY <1>1 DEF AddRoute, TypeOK, Routes
<1>2. CASE static[d] = NoAddress
  BY <1>2, AddDynamicEffect DEF AddRoute
<1> QED
  BY <1>1, <1>2

\* Whoever is waited for or asked for has no configured address, so the I-Am
\* that is forced in does not touch the static table.
LEMMA ForcedUnconfigured ==
    ASSUME DInv, NEW d \in Devices, WaitingFor({d}) # {} \/ d \in asked
    PROVE  static[d] = NoAddress
  BY DEF DInv, LookedForUnconfigured, WaitingFor

\* An answer from device d preserves the invariant, whatever else it does.
LEMMA AnswerDInv ==
    ASSUME DInv, NEW K, NEW d \in Devices, NEW a \in Addresses, NEW force \in BOOLEAN,
           Conclude(K, d, a), AddRoute(d, a, force), force => static[d] = NoAddress,
           announced' = announced \cup {<<d, a>>},
           asked' \subseteq Devices, \A e \in asked' : static[e] = NoAddress,
           mapper' \in [Objects -> Devices \cup {NoDevice}]
    PROVE  DInv'
<1>1. /\ outcome' = [s \in Services |-> IF key[s] \in K THEN "sent" ELSE outcome[s]]
      /\ sent' = [s \in Services |-> IF key[s] \in K THEN <<d, a>> ELSE sent[s]]
      /\ key' = [s \in Services |-> IF key[s] \in K THEN NoDevice ELSE key[s]]
      /\ freed' \subseteq Services
      /\ running' \in BOOLEAN
  BY ConcludeEffect DEF DInv
<1>2. /\ static' = static
      /\ dynamic' \in Routes
      /\ \A e \in Devices : dynamic'[e] # NoAddress =>
             dynamic'[e] = dynamic[e] \/ (e = d /\ dynamic'[e] = a)
  BY AddRouteEffect DEF DInv
<1>3. TypeOK'
  BY <1>1, <1>2 DEF DInv, TypeOK
<1>4. SentWhereAnnounced'
  BY <1>1 DEF DInv, SentWhereAnnounced
<1>5. RoutesAnnounced'
  BY <1>2 DEF DInv, RoutesAnnounced
<1>6. LookedForUnconfigured'
  BY <1>1, <1>2 DEF DInv, LookedForUnconfigured
<1> QED
  BY <1>3, <1>4, <1>5, <1>6 DEF DInv

\* An I-Am preserves the invariant.
LEMMA IAmDInv ==
    ASSUME DInv, NEW d \in Devices, NEW a \in Addresses, IAm(d, a)
    PROVE  DInv'
<1> DEFINE force == WaitingFor({d}) # {} \/ d \in asked
<1>1. force \in BOOLEAN /\ (force => static[d] = NoAddress)
  BY ForcedUnconfigured
<1>2. asked' \subseteq Devices /\ \A e \in asked' : static[e] = NoAddress
  BY DEF IAm, DInv, TypeOK, LookedForUnconfigured
<1>3. mapper' \in [Objects -> Devices \cup {NoDevice}]
  BY DEF IAm, DInv, TypeOK
<1>4. /\ Conclude({d}, d, a)
      /\ AddRoute(d, a, force)
      /\ announced' = announced \cup {<<d, a>>}
  BY DEF IAm
<1> HIDE DEF force
<1> QED
  BY <1>1, <1>2, <1>3, <1>4, AnswerDInv

\* The mapper always names devices.
LEMMA AddMappingType ==
    ASSUME TypeOK, NEW o \in Objects, NEW d \in Devices, NEW force,
           AddMapping(o, d, force)
    PROVE  mapper' \in [Objects -> Devices \cup {NoDevice}]
  BY DEF AddMapping, TypeOK, Mapped

\* An I-Have preserves the invariant.
LEMMA IHaveDInv ==
    ASSUME DInv, NEW d \in Devices, NEW o \in Objects, NEW a \in Addresses,
           IHave(d, o, a)
    PROVE  DInv'
<1>1. asked' \subseteq Devices /\ \A e \in asked' : static[e] = NoAddress
  BY DEF IHave, AskedAfter, FindRoute, DInv, TypeOK, LookedForUnconfigured
<1>2. mapper' \in [Objects -> Devices \cup {NoDevice}]
  BY AddMappingType DEF IHave, DInv
<1>3. /\ Conclude({d, o}, d, a)
      /\ AddRoute(d, a, FALSE)
      /\ announced' = announced \cup {<<d, a>>}
  BY DEF IHave
<1> QED
  BY <1>1, <1>2, <1>3, AnswerDInv

\* A tick preserves the invariant.
LEMMA TimerDInv ==
    ASSUME DInv, TimerEvent
    PROVE  DInv'
<1>1. TypeOK'
  BY DEF DInv, TypeOK, TimerEvent, HandleTimeouts, Undefined
<1>2. SentWhereAnnounced'
  BY DEF DInv, SentWhereAnnounced, TimerEvent, HandleTimeouts
<1>3. RoutesAnnounced' /\ LookedForUnconfigured'
  BY DEF DInv, RoutesAnnounced, LookedForUnconfigured, TimerEvent, HandleTimeouts
<1> QED
  BY <1>1, <1>2, <1>3 DEF DInv

\* DInv is inductive.
LEMMA NextDInv == DInv /\ [Next]_vars => DInv'
<1> SUFFICES ASSUME DInv, [Next]_vars PROVE DInv'
  OBVIOUS
<1>1. CASE UNCHANGED vars
  BY <1>1 DEF vars, DInv, TypeOK, SentWhereAnnounced, RoutesAnnounced,
              LookedForUnconfigured
<1>2. CASE \E s \in Services : Send(s)
  BY <1>2, SendDInv
<1>3. CASE \E d \in Devices, a \in Addresses : IAm(d, a)
  BY <1>3, IAmDInv
<1>4. CASE \E d \in Devices, a \in Addresses : \E o \in Objects : IHave(d, o, a)
  BY <1>4, IHaveDInv
<1>5. CASE TimerEvent
  BY <1>5, TimerDInv
<1> QED
  BY <1>1, <1>2, <1>3, <1>4, <1>5 DEF Next

\* The invariant of discovery.
THEOREM DiscoveryInvariance == Spec => []DInv
  BY InitDInv, NextDInv, PTL DEF Spec

\* Every reachable state is well typed.
THEOREM DiscoveryTypeCorrect == Spec => []TypeOK
<1>1. DInv => TypeOK
  BY DEF DInv
<1> QED
  BY <1>1, DiscoveryInvariance, PTL

\* A service goes to an address configured or announced for its device, whoever
\* else answers meanwhile and whichever entries are evicted.
THEOREM DiscoverySendsRight == Spec => []SentWhereAnnounced
<1>1. DInv => SentWhereAnnounced
  BY DEF DInv
<1> QED
  BY <1>1, DiscoveryInvariance, PTL

-----------------------------------------------------------------------------
\* No step touches the static table.
LEMMA StaticStep == DInv /\ [Next]_vars => UNCHANGED static
<1> SUFFICES ASSUME DInv, Next PROVE static' = static
  BY DEF vars
<1>1. CASE \E s \in Services : Send(s)
  BY <1>1 DEF Send
<1>2. ASSUME NEW d \in Devices, NEW a \in Addresses, IAm(d, a)
      PROVE  static' = static
  <2> DEFINE force == WaitingFor({d}) # {} \/ d \in asked
  <2>1. force \in BOOLEAN /\ (force => static[d] = NoAddress)
    BY ForcedUnconfigured
  <2>2. AddRoute(d, a, force)
    BY <1>2 DEF IAm
  <2> HIDE DEF force
  <2> QED
    BY <2>1, <2>2, AddRouteEffect DEF DInv
<1>3. ASSUME NEW d \in Devices, NEW a \in Addresses, NEW o \in Objects,
             IHave(d, o, a)
      PROVE  static' = static
  <2>1. AddRoute(d, a, FALSE)
    BY <1>3 DEF IHave
  <2> QED
    BY <2>1, AddRouteEffect DEF DInv
<1>4. CASE TimerEvent
  BY <1>4 DEF TimerEvent
<1> QED
  BY <1>1, <1>2, <1>3, <1>4 DEF Next

\* What the configuration says of a device is never overwritten from the network.
THEOREM ConfigurationStands == Spec => ConfiguredKept
<1>1. DInv /\ [Next]_vars => [static' = static]_vars
  BY StaticStep
<1> QED
  BY <1>1, DiscoveryInvariance, PTL DEF Spec, ConfiguredKept

\* The answer to a discovery is in the tables afterwards.
LEMMA RememberedStep ==
    ASSUME DInv, NEW d \in Devices, NEW a \in Addresses, IAm(d, a),
           WaitingFor({d}) # {} \/ d \in asked
    PROVE  FindRoute(d)' = a
<1>1. static[d] = NoAddress
  BY ForcedUnconfigured
<1>2. AddRoute(d, a, TRUE)
  <2>1. (WaitingFor({d}) # {} \/ d \in asked) = TRUE
    OBVIOUS
  <2> QED
    BY <2>1 DEF IAm
<1>3. static' = static /\ dynamic'[d] = a
  BY <1>1, <1>2, AddRouteEffect DEF DInv
<1> QED
  BY <1>1, <1>3 DEF FindRoute

\* The next service for a device that answered finds its address.
THEOREM AnswersRemembered == Spec => AnswerRemembered
<1>1. DInv /\ [Next]_vars =>
          [\A d \in Devices, a \in Addresses :
              IAm(d, a) /\ (WaitingFor({d}) # {} \/ d \in asked)
                  => FindRoute(d)' = a]_vars
  BY RememberedStep
<1> QED
  BY <1>1, DiscoveryInvariance, PTL DEF Spec, AnswerRemembered

-----------------------------------------------------------------------------
\* What stays within a bound: nothing added, one element added below it, or one
\* element taken out for another.
LEMMA BoundedAdd ==
    ASSUME NEW A, IsFiniteSet(A), NEW x, NEW n \in Nat, Cardinality(A) <= n
    PROVE  IsFiniteSet(A \cup {x}) /\ Cardinality(A \cup {x}) <= n + 1
<1>1. Cardinality(A) \in Nat
  BY FS_CardinalityType
<1>2. /\ IsFiniteSet(A \cup {x})
      /\ \/ Cardinality(A \cup {x}) = Cardinality(A)
         \/ Cardinality(A \cup {x}) = Cardinality(A) + 1
  BY FS_AddElement, Zenon
<1>3. ASSUME NEW c, \/ c = Cardinality(A)
                   \/ c = Cardinality(A) + 1
      PROVE  c <= n + 1
  BY <1>1, <1>3
<1> QED
  BY <1>2, <1>3

\* The same when an element makes room.
LEMMA BoundedReplace ==
    ASSUME NEW A, IsFiniteSet(A), NEW x, NEW v \in A, NEW n \in Nat,
           Cardinality(A) <= n + 1
    PROVE  Cardinality((A \ {v}) \cup {x}) <= n + 1
<1>1. /\ Cardinality(A) \in Nat
      /\ IsFiniteSet(A \ {v})
      /\ Cardinality(A \ {v}) = Cardinality(A) - 1
  BY FS_CardinalityType, FS_RemoveElement
<1>2. Cardinality(A \ {v}) <= n
  BY <1>1
<1> QED
  BY <1>1, <1>2, BoundedAdd

\* The entries of a table are finitely many.
LEMMA EntriesFinite ==
    /\ \A r : IsFiniteSet(Routed(r))
    /\ \A m : IsFiniteSet(Mapped(m))
  BY FS_Subset DEF Routed, Mapped

\* An addition keeps the dynamic table within its bound.
LEMMA AddDynamicBounded ==
    ASSUME TypeOK, NEW d \in Devices, NEW a \in Addresses, NEW force \in BOOLEAN,
           AddDynamic(d, a, force), Cardinality(Routed(dynamic)) <= DynamicSize + 1
    PROVE  Cardinality(Routed(dynamic')) <= DynamicSize + 1
<1>1. CASE d \in Routed(dynamic)
  <2>1. Routed(dynamic') = Routed(dynamic)
    BY <1>1 DEF AddDynamic, Routed, TypeOK, Routes
  <2> QED
    BY <2>1
<1>2. CASE d \notin Routed(dynamic) /\ Cardinality(Routed(dynamic)) <= DynamicSize
  <2>1. Routed(dynamic') = Routed(dynamic) \cup {d}
    BY <1>2 DEF AddDynamic, Routed, TypeOK, Routes
  <2> QED
    BY <1>2, <2>1, BoundedAdd, EntriesFinite
<1>3. CASE /\ d \notin Routed(dynamic)
           /\ ~ (Cardinality(Routed(dynamic)) <= DynamicSize)
           /\ force
  <2>1. PICK victim \in Routed(dynamic) :
            dynamic' = [dynamic EXCEPT ![victim] = NoAddress, ![d] = a]
    BY <1>3 DEF AddDynamic
  <2>2. Routed(dynamic') = (Routed(dynamic) \ {victim}) \cup {d}
    BY <1>3, <2>1 DEF Routed, TypeOK, Routes
  <2> QED
    BY <2>2, BoundedReplace, EntriesFinite
<1>4. CASE UNCHANGED dynamic
  BY <1>4
<1> QED
  BY <1>1, <1>2, <1>3, <1>4 DEF AddDynamic

\* An addition keeps the mapper within its bound.
LEMMA AddMappingBounded ==
    ASSUME TypeOK, NEW o \in Objects, NEW d \in Devices, NEW force \in BOOLEAN,
           AddMapping(o, d, force), Cardinality(Mapped(mapper)) <= MapperSize + 1
    PROVE  Cardinality(Mapped(mapper')) <= MapperSize + 1
<1>1. CASE o \in Mapped(mapper)
  <2>1. Mapped(mapper') = Mapped(mapper)
    BY <1>1 DEF AddMapping, Mapped, TypeOK
  <2> QED
    BY <2>1
<1>2. CASE o \notin Mapped(mapper) /\ Cardinality(Mapped(mapper)) <= MapperSize
  <2>1. Mapped(mapper') = Mapped(mapper) \cup {o}
    BY <1>2 DEF AddMapping, Mapped, TypeOK
  <2> QED
    BY <1>2, <2>1, BoundedAdd, EntriesFinite
<1>3. CASE /\ o \notin Mapped(mapper)
           /\ ~ (Cardinality(Mapped(mapper)) <= MapperSize)
           /\ force
  <2>1. PICK victim \in Mapped(mapper) :
            mapper' = [mapper EXCEPT ![victim] = NoDevice, ![o] = d]
    BY <1>3 DEF AddMapping
  <2>2. Mapped(mapper') = (Mapped(mapper) \ {victim}) \cup {o}
    BY <1>3, <2>1 DEF Mapped, TypeOK
  <2> QED
    BY <2>2, BoundedReplace, EntriesFinite
<1>4. CASE UNCHANGED mapper
  BY <1>4
<1> QED
  BY <1>1, <1>2, <1>3, <1>4 DEF AddMapping

\* At first the dynamic table is empty and the mapper holds what fits.
LEMMA InitBounded == Init => TablesBounded
<1> SUFFICES ASSUME Init PROVE TablesBounded
  OBVIOUS
<1>1. Routed(dynamic) = {}
  BY DEF Init, Routed
<1>2. Cardinality(Routed(dynamic)) <= DynamicSize + 1
  BY <1>1, FS_EmptySet
<1>3. Cardinality(Mapped(mapper)) <= MapperSize + 1
  BY FS_CardinalityType DEF Init
<1> QED
  BY <1>2, <1>3 DEF TablesBounded

\* Each step keeps both bounds.
LEMMA NextBounded == DInv /\ TablesBounded /\ [Next]_vars => TablesBounded'
<1> SUFFICES ASSUME DInv, TablesBounded, [Next]_vars PROVE TablesBounded'
  OBVIOUS
<1>1. CASE UNCHANGED <<dynamic, mapper>>
  BY <1>1 DEF TablesBounded
<1>2. ASSUME NEW d \in Devices, NEW a \in Addresses, NEW force \in BOOLEAN,
             AddRoute(d, a, force)
      PROVE  Cardinality(Routed(dynamic')) <= DynamicSize + 1
  <2>1. CASE UNCHANGED dynamic
    BY <2>1 DEF TablesBounded
  <2>2. CASE AddDynamic(d, a, force)
    BY <2>2, AddDynamicBounded DEF TablesBounded, DInv
  <2> QED
    BY <1>2, <2>1, <2>2 DEF AddRoute
<1>3. ASSUME NEW d \in Devices, NEW a \in Addresses, IAm(d, a)
      PROVE  TablesBounded'
  <2> DEFINE force == WaitingFor({d}) # {} \/ d \in asked
  <2>1. AddRoute(d, a, force) /\ mapper' = mapper
    BY <1>3 DEF IAm
  <2>2. force \in BOOLEAN
    OBVIOUS
  <2> HIDE DEF force
  <2> QED
    BY <1>2, <2>1, <2>2 DEF TablesBounded
<1>4. ASSUME NEW d \in Devices, NEW a \in Addresses, NEW o \in Objects,
             IHave(d, o, a)
      PROVE  TablesBounded'
  <2> DEFINE force == WaitingFor({o}) # {}
  <2>1. AddRoute(d, a, FALSE) /\ AddMapping(o, d, force)
    BY <1>4 DEF IHave
  <2>2. force \in BOOLEAN
    OBVIOUS
  <2> HIDE DEF force
  <2>3. Cardinality(Routed(dynamic')) <= DynamicSize + 1
    BY <1>2, <2>1
  <2>4. TypeOK /\ Cardinality(Mapped(mapper)) <= MapperSize + 1
    BY DEF TablesBounded, DInv
  <2>5. Cardinality(Mapped(mapper')) <= MapperSize + 1
    BY <2>1, <2>2, <2>4, AddMappingBounded
  <2> QED
    BY <2>3, <2>5 DEF TablesBounded
<1> QED
  BY <1>1, <1>3, <1>4 DEF Next, vars, Send, TimerEvent

\* Both tables stay within one entry of their size.
THEOREM TablesAlwaysBounded == Spec => []TablesBounded
  BY InitBounded, NextBounded, DiscoveryInvariance, PTL DEF Spec

=============================================================================
