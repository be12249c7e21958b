-------------------------- MODULE CovClientProofs --------------------------
(***************************************************************************)
(* Every key is given once.  While none exceeds what a quint8 holds,       *)
(* whatever names a key that still has an entry, a request, an             *)
(* acknowledgement, a notification, a device's subscription or the         *)
(* strategy itself, belongs to the entry's mapping.  Beyond that it may    *)
(* belong to another, but a value is only taken for the property it is of. *)
(***************************************************************************)
EXTENDS CovClient, FiniteSetTheorems, TLAPS

Keyed == {"Subscribe", "Ack", "Notification"}
Valued == {"Notification", "Value"}

KeysGiven ==
    /\ \A k \in DOMAIN subscribedCovs : k <= lastKey
    /\ \A n \in net : n.kind \in Keyed => n.id <= lastKey
    /\ \A l \in leases : l[2] <= lastKey
ValuesHeld == \A n \in net : n.kind \in Valued => n.value \in 0..remote[n.about]

Sound == TypeOK /\ KeysGiven /\ ValuesHeld /\ ShownWasRemote

OwnInNet ==
    \A n \in net : n.kind \in Keyed /\ n.id \in DOMAIN subscribedCovs
        => subscribedCovs[n.id] = n.about
OwnLeases ==
    \A l \in leases : l[2] \in DOMAIN subscribedCovs => subscribedCovs[l[2]] = l[1]
OwnRenewals ==
    \A m \in Mappings :
        strategy[m].subscriptionId # NoId =>
            /\ strategy[m].subscriptionId \in DOMAIN subscribedCovs
            /\ subscribedCovs[strategy[m].subscriptionId] = m

Own == OwnInNet /\ OwnLeases /\ OwnRenewals

IInv == Sound /\ (KeysFit => Own)

Fresh == Subscribing \ Renewing
-----------------------------------------------------------------------------
(* The keys generated in one tick. *)

LEMMA FreshFinite == IsFiniteSet(Fresh) /\ Fresh \subseteq Mappings
<1>1. Fresh \subseteq Mappings
    BY DEF Fresh, Subscribing, Due
<1> QED  BY <1>1, FS_Subset, MappingsAssumption

\* The i-th of the new subscriptions gets the i-th key after the last one.
LEMMA NewKeyRange ==
    ASSUME lastKey \in Nat, NEW m \in Fresh
    PROVE  /\ Cardinality(Fresh) \in Nat
           /\ NewKey(m) \in Nat
           /\ lastKey < NewKey(m)
           /\ NewKey(m) <= lastKey + Cardinality(Fresh)
<1> DEFINE upTo == {n \in Fresh : Order[n] <= Order[m]}
<1>1. m \in upTo
    BY FreshFinite, OrderAssumption
<1>2. IsFiniteSet(upTo) /\ Cardinality(upTo) <= Cardinality(Fresh)
    BY FreshFinite, FS_Subset
<1>3. Cardinality(upTo) \in Nat /\ Cardinality(Fresh) \in Nat
    BY <1>2, FreshFinite, FS_CardinalityType
<1>4. Cardinality(upTo) # 0
    BY <1>1, <1>2, FS_EmptySet
<1>5. NewKey(m) = lastKey + Cardinality(upTo)
    BY DEF NewKey, Fresh
<1> QED  BY <1>2, <1>3, <1>4, <1>5

LEMMA NewKeyBefore ==
    ASSUME lastKey \in Nat, NEW m \in Fresh, NEW n \in Fresh, Order[m] < Order[n]
    PROVE  NewKey(m) # NewKey(n)
<1> DEFINE upTo(k) == {i \in Fresh : Order[i] <= Order[k]}
<1>1. Order \in [Mappings -> Nat] /\ Fresh \subseteq Mappings
    BY FreshFinite, OrderAssumption
<1>2. upTo(m) \subseteq upTo(n) /\ n \in upTo(n) /\ n \notin upTo(m)
    BY <1>1
<1>3. IsFiniteSet(upTo(n)) /\ IsFiniteSet(upTo(m))
    BY FreshFinite, FS_Subset
<1>4. Cardinality(upTo(m)) \in Nat /\ Cardinality(upTo(n)) \in Nat
    BY <1>3, FS_CardinalityType
<1>5. Cardinality(upTo(m)) < Cardinality(upTo(n))
    <2>1. upTo(m) \in SUBSET upTo(n) /\ upTo(m) # upTo(n)
        BY <1>2
    <2> HIDE DEF upTo
    <2>2. /\ Cardinality(upTo(m)) <= Cardinality(upTo(n))
          /\ Cardinality(upTo(m)) # Cardinality(upTo(n))
        BY <1>3, <2>1, FS_Subset
    <2> QED  BY <1>4, <2>2
<1>6. NewKey(m) = lastKey + Cardinality(upTo(m)) /\ NewKey(n) = lastKey + Cardinality(upTo(n))
    BY DEF NewKey, Fresh
<1> HIDE DEF upTo
<1> QED  BY <1>4, <1>5, <1>6

LEMMA NewKeysDiffer ==
    ASSUME lastKey \in Nat, NEW m \in Fresh, NEW n \in Fresh, m # n
    PROVE  NewKey(m) # NewKey(n)
<1>1. Order[m] # Order[n] /\ Order[m] \in Nat /\ Order[n] \in Nat
    BY FreshFinite, OrderAssumption
<1>2. CASE Order[m] < Order[n]
    BY <1>2, NewKeyBefore
<1>3. CASE Order[n] < Order[m]
    BY <1>3, NewKeyBefore
<1> QED  BY <1>1, <1>2, <1>3

\* The table after the tick: what it had, and each new key for its mapping.
LEMMA NewTable ==
    ASSUME lastKey \in Nat, \A k \in DOMAIN subscribedCovs : k <= lastKey /\ k \in Nat
    PROVE  /\ DOMAIN WithNewKeys = DOMAIN subscribedCovs \cup {NewKey(m) : m \in Fresh}
           /\ \A k \in DOMAIN subscribedCovs : WithNewKeys[k] = subscribedCovs[k]
           /\ \A m \in Fresh : WithNewKeys[NewKey(m)] = m
<1>1. DOMAIN WithNewKeys = DOMAIN subscribedCovs \cup {NewKey(m) : m \in Fresh}
    BY DEF WithNewKeys, Fresh
<1>2. \A k \in DOMAIN subscribedCovs : WithNewKeys[k] = subscribedCovs[k]
    BY DEF WithNewKeys
<1>3. ASSUME NEW m \in Fresh PROVE WithNewKeys[NewKey(m)] = m
    <2>1. NewKey(m) \notin DOMAIN subscribedCovs
        BY NewKeyRange
    <2>2. WithNewKeys[NewKey(m)] = CHOOSE n \in Fresh : NewKey(n) = NewKey(m)
        BY <2>1 DEF WithNewKeys, Fresh
    <2> QED  BY <2>2, NewKeysDiffer
<1> QED  BY <1>1, <1>2, <1>3

\* A key below the modulus is sent as it is, another one as a smaller number.
LEMMA SentUnchanged ==
    ASSUME NEW k \in Nat, k < IdModulus
    PROVE  SentId(k) = k
BY NumbersAssumption DEF SentId

LEMMA SentAtMost ==
    ASSUME NEW k \in Nat
    PROVE  SentId(k) \in 0..k
<1>1. IdModulus \in Nat \ {0}
    BY NumbersAssumption
<1>2. CASE k < IdModulus
    BY <1>2, SentUnchanged
<1>3. CASE k >= IdModulus
    <2>1. k % IdModulus \in 0..IdModulus - 1
        BY <1>1
    <2> QED  BY <1>1, <1>3, <2>1 DEF SentId
<1> QED  BY <1>1, <1>2, <1>3
-----------------------------------------------------------------------------
LEMMA TimerStep ==
    ASSUME Sound, NEW refused, TimerEvent(refused)
    PROVE  /\ Sound'
           /\ KeysFit' => KeysFit
           /\ Own /\ KeysFit' => Own'
<1> USE DEF Sound
<1>1. lastKey \in Nat /\ DOMAIN subscribedCovs \subseteq Nat /\ MaxKey \in Nat /\ Keys = 0..MaxKey
    BY NumbersAssumption DEF TypeOK, Keys
<1>2. /\ \A m \in Fresh : NewKey(m) \in Keys /\ lastKey < NewKey(m) /\ NewKey(m) <= lastKey'
      /\ lastKey' \in Keys /\ lastKey <= lastKey'
    <2>1. Cardinality(Fresh) \in Nat
        BY FreshFinite, FS_CardinalityType
    <2>2. lastKey' = lastKey + Cardinality(Fresh) /\ lastKey' <= MaxKey
        BY DEF TimerEvent, Fresh
    <2> QED  BY <1>1, <2>1, <2>2, NewKeyRange
<1>3. /\ subscribedCovs' = WithNewKeys
      /\ DOMAIN subscribedCovs' = DOMAIN subscribedCovs \cup {NewKey(m) : m \in Fresh}
      /\ \A k \in DOMAIN subscribedCovs : subscribedCovs'[k] = subscribedCovs[k]
      /\ \A m \in Fresh : subscribedCovs'[NewKey(m)] = m
    BY <1>1, NewTable DEF TimerEvent, KeysGiven
<1>4. ASSUME NEW m \in Subscribing
      PROVE  /\ m \in Mappings
             /\ subscribedCovs'[KeyOf(m)] = m
             /\ SentId(KeyOf(m)) \in Keys /\ SentId(KeyOf(m)) <= lastKey'
             /\ KeysFit' => SentId(KeyOf(m)) = KeyOf(m)
    <2>1. m \in Mappings
        BY DEF Subscribing, Due
    <2>2. KeyOf(m) \in Keys /\ KeyOf(m) <= lastKey' /\ subscribedCovs'[KeyOf(m)] = m
        <3>1. CASE m \in Renewing
            <4>1. KeyOf(m) \in DOMAIN subscribedCovs /\ subscribedCovs[KeyOf(m)] = m
                BY <3>1 DEF KeyOf, Renewing
            <4>2. KeyOf(m) \in Keys /\ KeyOf(m) <= lastKey
                BY <4>1 DEF TypeOK, KeysGiven
            <4> QED  BY <1>1, <1>2, <1>3, <4>1, <4>2
        <3>2. CASE m \in Fresh
            <4>1. KeyOf(m) = NewKey(m)
                BY <3>2 DEF KeyOf, Fresh
            <4> QED  BY <1>2, <1>3, <3>2, <4>1
        <3> QED  BY <3>1, <3>2 DEF Fresh
    <2>3. SentId(KeyOf(m)) \in 0..KeyOf(m)
        BY <1>1, <2>2, SentAtMost
    <2>4. ASSUME KeysFit' PROVE SentId(KeyOf(m)) = KeyOf(m)
        <3>1. IdModulus \in Nat /\ lastKey' < IdModulus
            BY <2>4, NumbersAssumption DEF KeysFit
        <3> QED  BY <1>1, <1>2, <2>2, <3>1, SentUnchanged
    <2> QED  BY <1>1, <1>2, <2>1, <2>2, <2>3, <2>4
<1>5. ASSUME NEW n \in net', n \notin net
      PROVE  /\ n \in Messages
             /\ \/ /\ n.kind = "Subscribe" /\ n.about \in Subscribing
                   /\ n.id = SentId(KeyOf(n.about))
                \/ n.kind = "Read"
    <2>1. CASE n \in {Message("Subscribe", m, SentId(KeyOf(m)), 0) : m \in Subscribing \ refused}
        <3>1. PICK m \in Subscribing : n = Message("Subscribe", m, SentId(KeyOf(m)), 0)
            BY <2>1
        <3> QED  BY <1>4, <3>1 DEF Message, Messages, Kinds
    <2>2. CASE n \in {Message("Read", m, 0, 0) : m \in Reading \ refused}
        <3>1. PICK m \in Reading : n = Message("Read", m, 0, 0)
            BY <2>2
        <3>2. m \in Mappings /\ 0 \in Keys
            BY <1>1 DEF Reading, Due
        <3> QED  BY <3>1, <3>2 DEF Message, Messages, Kinds
    <2> QED  BY <1>5, <2>1, <2>2 DEF TimerEvent
<1>6. /\ strategy' \in [Mappings -> ReadStrategy]
      /\ \A m \in Mappings : strategy'[m].subscriptionId = strategy[m].subscriptionId
    <2>1. Interval \in Nat
        BY NumbersAssumption
    <2>2. \A m \in Mappings : strategy[m] \in ReadStrategy
        BY DEF TypeOK
    <2>3. ASSUME NEW m \in Mappings
          PROVE  /\ strategy'[m] \in ReadStrategy
                 /\ strategy'[m].subscriptionId = strategy[m].subscriptionId
        <3>1. CASE m \in Due
            BY <2>1, <2>2, <3>1 DEF TimerEvent, Restarted, ReadStrategy
        <3>2. CASE m \notin Due
            BY <2>1, <2>2, <3>2 DEF TimerEvent, Due, ReadStrategy
        <3> QED  BY <3>1, <3>2
    <2> QED  BY <2>3 DEF TimerEvent
<1>7. shown' = shown /\ remote' = remote /\ leases' = leases
    BY DEF TimerEvent, device
<1>8. TypeOK'
    <2>1. net' \subseteq Messages
        BY <1>5 DEF TypeOK
    <2>2. faults' \in 0..MaxFaults
        <3>1. refused \subseteq Mappings
            BY DEF TimerEvent, Subscribing, Reading, Due
        <3>2. Cardinality(refused) \in Nat
            BY <3>1, MappingsAssumption, FS_Subset, FS_CardinalityType
        <3> QED  BY <3>2, NumbersAssumption DEF TypeOK, TimerEvent
    <2>3. \A k \in DOMAIN subscribedCovs' : k \in Keys /\ subscribedCovs'[k] \in Mappings
        BY <1>2, <1>3, FreshFinite DEF TypeOK
    <2> QED  BY <1>2, <1>6, <1>7, <2>1, <2>2, <2>3 DEF TypeOK
<1>9. KeysGiven'
    <2>1. \A k \in DOMAIN subscribedCovs' : k <= lastKey'
        BY <1>1, <1>2, <1>3 DEF KeysGiven
    <2>2. \A n \in net' : n.kind \in Keyed => n.id <= lastKey'
        <3>1. TAKE n \in net'
        <3>2. CASE n \in net
            BY <1>1, <1>2, <3>2 DEF KeysGiven, TypeOK, Messages
        <3>3. CASE n \notin net
            BY <1>4, <1>5, <3>3 DEF Keyed
        <3> QED  BY <3>2, <3>3
    <2>3. \A l \in leases' : l[2] <= lastKey'
        BY <1>1, <1>2, <1>7 DEF KeysGiven, TypeOK
    <2> QED  BY <2>1, <2>2, <2>3 DEF KeysGiven
<1>10. ValuesHeld' /\ ShownWasRemote'
    BY <1>5, <1>7 DEF ValuesHeld, Valued, ShownWasRemote
<1>11. KeysFit' => KeysFit
    BY <1>1, <1>2, NumbersAssumption DEF KeysFit
<1>12. ASSUME Own, KeysFit' PROVE OwnInNet'
    <2>1. SUFFICES ASSUME NEW n \in net', n.kind \in Keyed, n.id \in DOMAIN subscribedCovs'
                   PROVE  subscribedCovs'[n.id] = n.about
        BY DEF OwnInNet
    <2>2. CASE n \in net
        <3>1. n.id <= lastKey /\ n.id \in Nat
            BY <1>1, <2>1, <2>2 DEF KeysGiven, TypeOK, Messages
        <3>2. n.id \in DOMAIN subscribedCovs
            BY <1>1, <1>2, <1>3, <2>1, <3>1
        <3> QED  BY <1>3, <1>12, <2>1, <2>2, <3>2 DEF Own, OwnInNet
    <2>3. CASE n \notin net
        BY <1>4, <1>5, <1>12, <2>1, <2>3 DEF Keyed
    <2> QED  BY <2>2, <2>3
<1>13. ASSUME Own PROVE OwnLeases'
    <2>1. SUFFICES ASSUME NEW l \in leases, l[2] \in DOMAIN subscribedCovs'
                   PROVE  subscribedCovs'[l[2]] = l[1]
        BY <1>7 DEF OwnLeases
    <2>2. l[2] <= lastKey /\ l[2] \in Nat
        BY <1>1 DEF KeysGiven, TypeOK
    <2>3. l[2] \in DOMAIN subscribedCovs
        BY <1>1, <1>2, <1>3, <2>1, <2>2
    <2> QED  BY <1>3, <1>13, <2>3 DEF Own, OwnLeases
<1>14. Own => OwnRenewals'
    BY <1>3, <1>6 DEF Own, OwnRenewals
<1> QED  BY <1>8, <1>9, <1>10, <1>11, <1>12, <1>13, <1>14 DEF Own
-----------------------------------------------------------------------------
(* The other steps leave the keys as they are. *)

LEMMA AcknowledgedStep ==
    ASSUME Sound, NEW n \in net, SubscriptionAcknowledged(n)
    PROVE  Sound' /\ lastKey' = lastKey /\ (Own => Own')
<1> USE DEF Sound
<1>1. n \in Messages /\ net' = net \ {n} /\ n.kind = "Ack"
    BY DEF TypeOK, SubscriptionAcknowledged
<1>2. /\ subscribedCovs' = subscribedCovs /\ lastKey' = lastKey /\ shown' = shown
      /\ remote' = remote /\ leases' = leases /\ faults' = faults
    BY DEF SubscriptionAcknowledged, device
<1>3. strategy' \in [Mappings -> ReadStrategy] /\ (Own => OwnRenewals')
    <2>1. CASE n.id \in DOMAIN subscribedCovs
        <3>1. strategy' = [strategy EXCEPT ![n.about] =
                              [[@ EXCEPT !.subscriptionId = n.id] EXCEPT !.hasError = FALSE]]
            BY <1>1, <2>1 DEF SubscriptionAcknowledged, TypeOK, Messages
        <3>2. strategy' \in [Mappings -> ReadStrategy]
            BY <1>1, <3>1 DEF TypeOK, Messages, ReadStrategy
        <3>3. \A m \in Mappings : strategy'[m].subscriptionId =
                  IF m = n.about THEN n.id ELSE strategy[m].subscriptionId
            BY <1>1, <3>1 DEF TypeOK, ReadStrategy
        <3>4. Own => subscribedCovs[n.id] = n.about
            BY <1>1, <2>1 DEF Own, OwnInNet, Keyed
        <3> QED  BY <1>2, <2>1, <3>2, <3>3, <3>4 DEF Own, OwnRenewals
    <2>2. CASE n.id \notin DOMAIN subscribedCovs
        BY <1>2, <2>2 DEF SubscriptionAcknowledged, TypeOK, Own, OwnRenewals
    <2> QED  BY <2>1, <2>2
<1>4. Sound'
    BY <1>1, <1>2, <1>3 DEF TypeOK, KeysGiven, ValuesHeld, ShownWasRemote
<1> QED  BY <1>1, <1>2, <1>3, <1>4 DEF Own, OwnInNet, OwnLeases

LEMMA EndsStep ==
    ASSUME Sound, NEW n \in net, NEW critical \in BOOLEAN, SubscriptionEnds(n, critical)
    PROVE  Sound' /\ lastKey' = lastKey /\ (Own => Own')
<1> USE DEF Sound
<1>1. n \in Messages /\ net' = net \ {n} /\ n.kind \in Keyed
    BY DEF TypeOK, SubscriptionEnds, Keyed
<1>2. /\ lastKey' = lastKey /\ shown' = shown /\ remote' = remote /\ leases' = leases
      /\ faults' \in 0..MaxFaults
    BY NumbersAssumption DEF SubscriptionEnds, device, TypeOK
<1>3. /\ DOMAIN subscribedCovs' = DOMAIN subscribedCovs \ {n.id}
      /\ \A k \in DOMAIN subscribedCovs' : subscribedCovs'[k] = subscribedCovs[k]
    BY DEF SubscriptionEnds, SubscriptionFailed
<1>4. strategy' \in [Mappings -> ReadStrategy] /\ (Own => OwnRenewals')
    <2>1. CASE n.id \in DOMAIN subscribedCovs
        <3>1. strategy' = [strategy EXCEPT ![n.about] = Failed(@, critical)]
            BY <2>1 DEF SubscriptionEnds, SubscriptionFailed
        <3>2. strategy[n.about] \in ReadStrategy /\ n.about \in Mappings
            BY <1>1 DEF TypeOK, Messages
        <3>3. /\ Failed(strategy[n.about], critical) \in ReadStrategy
              /\ Failed(strategy[n.about], critical).subscriptionId = NoId
            BY <3>2 DEF Failed, ReadStrategy
        <3>4. /\ strategy' \in [Mappings -> ReadStrategy]
              /\ \A m \in Mappings : strategy'[m].subscriptionId =
                    IF m = n.about THEN NoId ELSE strategy[m].subscriptionId
            BY <3>1, <3>2, <3>3 DEF TypeOK
        <3>5. ASSUME Own, NEW m \in Mappings, strategy'[m].subscriptionId # NoId
              PROVE  /\ strategy'[m].subscriptionId \in DOMAIN subscribedCovs'
                     /\ subscribedCovs'[strategy'[m].subscriptionId] = m
            <4>1. m # n.about /\ strategy'[m].subscriptionId = strategy[m].subscriptionId
                BY <3>4, <3>5
            <4>2. /\ strategy[m].subscriptionId \in DOMAIN subscribedCovs
                  /\ subscribedCovs[strategy[m].subscriptionId] = m
                BY <3>5, <4>1 DEF Own, OwnRenewals
            <4>3. subscribedCovs[n.id] = n.about
                BY <1>1, <2>1, <3>5 DEF Own, OwnInNet
            <4> QED  BY <1>3, <4>1, <4>2, <4>3
        <3> QED  BY <3>4, <3>5 DEF OwnRenewals
    <2>2. CASE n.id \notin DOMAIN subscribedCovs
        BY <1>3, <2>2 DEF SubscriptionEnds, SubscriptionFailed, TypeOK, Own, OwnRenewals
    <2> QED  BY <2>1, <2>2
<1>5. Sound'
    BY <1>1, <1>2, <1>3, <1>4 DEF TypeOK, KeysGiven, ValuesHeld, ShownWasRemote
<1> QED  BY <1>1, <1>2, <1>3, <1>4, <1>5 DEF Own, OwnInNet, OwnLeases

\* A step that only takes a message and may touch a value or a time.
LEMMA ReceivedStep ==
    ASSUME Sound, NEW n \in net, net' = net \ {n},
           UNCHANGED <<subscribedCovs, lastKey, device, faults>>,
           shown' \in [Mappings -> Nat], ShownWasRemote',
           strategy' \in [Mappings -> ReadStrategy],
           \A m \in Mappings : strategy'[m].subscriptionId = strategy[m].subscriptionId
    PROVE  Sound' /\ lastKey' = lastKey /\ (Own => Own')
<1>1. Sound'
    BY DEF Sound, TypeOK, KeysGiven, ValuesHeld, device
<1>2. Own => Own'
    BY DEF Own, OwnInNet, OwnLeases, OwnRenewals, device
<1> QED  BY <1>1, <1>2

\* The value that is set, if any is, is one that the notified property had.
LEMMA NotificationStep ==
    ASSUME Sound, NEW n \in net, CovValueChangeNotification(n)
    PROVE  Sound' /\ lastKey' = lastKey /\ (Own => Own')
<1> DEFINE m == subscribedCovs[n.id]
<1> DEFINE value == IF m = n.about THEN n.value ELSE shown[m]
<1>1. n \in Messages /\ n.kind = "Notification" /\ TypeOK /\ Interval \in Nat
    BY NumbersAssumption DEF Sound, TypeOK, CovValueChangeNotification
<1>2. NotificationMeets(n, m, value)
    BY DEF CovValueChangeNotification
<1>3. remote' = remote /\ ShownWasRemote /\ shown \in [Mappings -> Nat]
    BY DEF CovValueChangeNotification, device, Sound, TypeOK
<1>4. CASE n.id \in DOMAIN subscribedCovs /\ ObjectOf[m] = ObjectOf[n.about]
    <2>1. m \in Mappings /\ strategy[m] \in ReadStrategy /\ n.about \in Mappings
        BY <1>1, <1>4 DEF TypeOK, Messages
    <2>2. value \in Nat /\ value \in 0..remote[m]
        BY <1>1, <1>3, <2>1 DEF Sound, ValuesHeld, Valued, ShownWasRemote, Messages
    <2> HIDE DEF m, value
    <2>3. shown' = [shown EXCEPT ![m] = value]
        BY <1>2, <1>4 DEF NotificationMeets
    <2>4. shown' \in [Mappings -> Nat] /\ ShownWasRemote'
        BY <1>3, <2>1, <2>2, <2>3 DEF ShownWasRemote
    <2>5. PICK left \in 0..Interval : strategy' = [strategy EXCEPT ![m] = ToldTimeLeft(@, left)]
        BY <1>2, <1>4 DEF NotificationMeets
    <2>6. /\ ToldTimeLeft(strategy[m], left) \in ReadStrategy
          /\ ToldTimeLeft(strategy[m], left).subscriptionId = strategy[m].subscriptionId
        BY <1>1, <2>1 DEF ToldTimeLeft, ReadStrategy
    <2>7. /\ strategy' \in [Mappings -> ReadStrategy]
          /\ \A k \in Mappings : strategy'[k].subscriptionId = strategy[k].subscriptionId
        BY <1>1, <2>1, <2>5, <2>6 DEF TypeOK
    <2> QED  BY <2>4, <2>7, ReceivedStep DEF CovValueChangeNotification
<1>5. CASE ~(n.id \in DOMAIN subscribedCovs /\ ObjectOf[m] = ObjectOf[n.about])
    <2>1. shown' = shown /\ strategy' = strategy
        BY <1>2, <1>5 DEF NotificationMeets
    <2>2. ShownWasRemote'
        BY <1>3, <2>1 DEF ShownWasRemote
    <2> QED  BY <1>1, <2>1, <2>2, ReceivedStep DEF CovValueChangeNotification, TypeOK
<1> QED  BY <1>4, <1>5

LEMMA ReadFinishedStep ==
    ASSUME Sound, NEW n \in net, ReadFinished(n)
    PROVE  Sound' /\ lastKey' = lastKey /\ (Own => Own')
<1>1. n \in Messages /\ TypeOK /\ Interval \in Nat
    BY NumbersAssumption DEF Sound, TypeOK
<1>2. /\ n.about \in Mappings /\ strategy[n.about] \in ReadStrategy
      /\ n.value \in Nat /\ n.value \in 0..remote[n.about]
    BY <1>1 DEF TypeOK, Messages, ReadFinished, Sound, ValuesHeld, Valued
<1>3. shown' \in [Mappings -> Nat] /\ ShownWasRemote'
    BY <1>1, <1>2 DEF ReadFinished, TypeOK, device, Sound, ShownWasRemote
<1>4. /\ Restarted(strategy[n.about]) \in ReadStrategy
      /\ Restarted(strategy[n.about]).subscriptionId = strategy[n.about].subscriptionId
    BY <1>1, <1>2 DEF Restarted, ReadStrategy
<1>5. /\ strategy' \in [Mappings -> ReadStrategy]
      /\ \A m \in Mappings : strategy'[m].subscriptionId = strategy[m].subscriptionId
    BY <1>1, <1>2, <1>4 DEF ReadFinished, TypeOK
<1> QED  BY <1>3, <1>5, ReceivedStep DEF ReadFinished

LEMMA LoseStep ==
    ASSUME Sound, NEW n \in net, Lose(n)
    PROVE  Sound' /\ lastKey' = lastKey /\ (Own => Own')
<1>1. UNCHANGED <<local, remote, leases>> /\ net' = net \ {n} /\ faults' \in 0..MaxFaults
    BY NumbersAssumption DEF Lose, Sound, TypeOK, device
<1>2. Sound' /\ lastKey' = lastKey
    BY <1>1 DEF Sound, TypeOK, KeysGiven, ValuesHeld, ShownWasRemote, local
<1> QED  BY <1>1, <1>2 DEF Own, OwnInNet, OwnLeases, OwnRenewals, local

LEMMA AcceptsStep ==
    ASSUME Sound, NEW n \in net, DeviceAccepts(n)
    PROVE  Sound' /\ lastKey' = lastKey /\ (Own => Own')
<1> USE DEF Sound
<1>1. n \in Messages /\ n.kind = "Subscribe" /\ remote[n.about] \in Nat
    BY DEF TypeOK, DeviceAccepts, Messages
<1>2. /\ UNCHANGED <<subscribedCovs, lastKey, strategy, shown, remote, faults>>
      /\ leases' = leases \cup {<<n.about, n.id>>}
    BY DEF DeviceAccepts, local
<1>3. \A k \in net' : \/ k \in net
                      \/ /\ k \in Messages /\ k.id = n.id /\ k.about = n.about
                         /\ k.kind \in Keyed
                         /\ k.value \in 0..remote[k.about]
    BY <1>1 DEF DeviceAccepts, Message, Messages, Kinds, Keyed
<1>4. n.id <= lastKey
    BY <1>1 DEF KeysGiven, Keyed
<1>5. net' \subseteq Messages /\ leases' \subseteq Mappings \X Keys
    BY <1>1, <1>2, <1>3 DEF TypeOK, Messages
<1>6. Sound'
    BY <1>2, <1>3, <1>4, <1>5 DEF TypeOK, KeysGiven, ValuesHeld, ShownWasRemote
<1>7. ASSUME Own PROVE Own'
    <2>1. n.id \in DOMAIN subscribedCovs => subscribedCovs[n.id] = n.about
        BY <1>1, <1>7 DEF Own, OwnInNet, Keyed
    <2> QED  BY <1>2, <1>3, <1>7, <2>1 DEF Own, OwnInNet, OwnLeases, OwnRenewals
<1> QED  BY <1>2, <1>6, <1>7

LEMMA AnswersStep ==
    ASSUME Sound, NEW n \in net, DeviceAnswers(n)
    PROVE  Sound' /\ lastKey' = lastKey /\ (Own => Own')
<1> USE DEF Sound
<1>1. n \in Messages /\ remote[n.about] \in Nat /\ 0 \in Keys
    BY NumbersAssumption DEF TypeOK, Messages, Keys
<1>2. UNCHANGED <<subscribedCovs, lastKey, strategy, shown, remote, leases, faults>>
    BY DEF DeviceAnswers, local, device
<1>3. \A k \in net' : \/ k \in net
                      \/ k \in Messages /\ k.kind = "Value" /\ k.value \in 0..remote[k.about]
    <2>1. Message("Value", n.about, 0, remote[n.about]) \in Messages
        BY <1>1 DEF Message, Messages, Kinds
    <2> QED  BY <1>1, <2>1 DEF DeviceAnswers, Message
<1>4. Sound'
    BY <1>2, <1>3 DEF TypeOK, KeysGiven, ValuesHeld, ShownWasRemote, Keyed
<1>5. Own => Own'
    BY <1>2, <1>3 DEF Own, OwnInNet, OwnLeases, OwnRenewals, Keyed
<1> QED  BY <1>2, <1>4, <1>5

LEMMA ChangesStep ==
    ASSUME Sound, NEW m \in Mappings, DeviceChanges(m)
    PROVE  Sound' /\ lastKey' = lastKey /\ (Own => Own')
<1> USE DEF Sound
<1>1. UNCHANGED <<subscribedCovs, lastKey, strategy, shown, leases, faults>>
    BY DEF DeviceChanges, local
<1>2. /\ remote' \in [Mappings -> Nat] /\ remote'[m] = remote[m] + 1
      /\ \A k \in Mappings : remote[k] \in Nat /\ remote[k] <= remote'[k]
    BY DEF DeviceChanges, TypeOK
<1>3. \A k \in net' : \/ k \in net
                      \/ /\ k \in Messages /\ k.about = m /\ <<m, k.id>> \in leases
                         /\ k.value = remote'[m]
    <2>1. ASSUME NEW k \in net', k \notin net
          PROVE  /\ k \in Messages /\ k.about = m /\ <<m, k.id>> \in leases
                 /\ k.value = remote'[m]
        <3>1. PICK i \in Keys : /\ <<m, i>> \in leases
                               /\ k = Message("Notification", m, i, remote[m] + 1)
            BY <2>1 DEF DeviceChanges
        <3> QED  BY <1>2, <3>1 DEF Message, Messages, Kinds
    <2> QED  BY <2>1
<1>4. KeysGiven'
    <2>1. \A i : <<m, i>> \in leases => i <= lastKey
        BY DEF KeysGiven
    <2> QED  BY <1>1, <1>3, <2>1 DEF KeysGiven
<1>5. ValuesHeld'
    <2>1. SUFFICES ASSUME NEW k \in net', k.kind \in Valued
                   PROVE  k.value \in 0..remote'[k.about]
        BY DEF ValuesHeld
    <2>2. CASE k \in net
        <3>1. k.about \in Mappings /\ k.value \in 0..remote[k.about]
            BY <2>1, <2>2 DEF ValuesHeld, TypeOK, Messages
        <3>2. remote[k.about] \in Nat /\ remote'[k.about] \in Nat
            BY <1>2, <3>1
        <3>3. remote[k.about] <= remote'[k.about]
            BY <1>2, <3>1
        <3> QED  BY <3>1, <3>2, <3>3
    <2>3. CASE k \notin net
        <3>1. k.about = m /\ k.value = remote'[m] /\ remote'[m] \in Nat
            BY <1>2, <1>3, <2>1, <2>3
        <3> QED  BY <3>1
    <2> QED  BY <2>2, <2>3
<1>6. TypeOK' /\ ShownWasRemote'
    <2>1. TypeOK'
        BY <1>1, <1>2, <1>3 DEF TypeOK
    <2>2. \A k \in Mappings : shown[k] \in 0..remote[k] /\ remote'[k] \in Nat
        BY <1>2 DEF ShownWasRemote
    <2> QED  BY <1>1, <1>2, <2>1, <2>2 DEF ShownWasRemote
<1>7. ASSUME Own PROVE Own'
    <2>1. \A i : <<m, i>> \in leases => (i \in DOMAIN subscribedCovs => subscribedCovs[i] = m)
        BY <1>7 DEF Own, OwnLeases
    <2> QED  BY <1>1, <1>3, <1>7, <2>1 DEF Own, OwnInNet, OwnLeases, OwnRenewals
<1> QED  BY <1>1, <1>4, <1>5, <1>6, <1>7

LEMMA ForgetsStep ==
    ASSUME Sound, NEW lease \in leases, DeviceForgets(lease)
    PROVE  Sound' /\ lastKey' = lastKey /\ (Own => Own')
<1>1. /\ UNCHANGED <<local, net, remote>> /\ leases' \subseteq leases
      /\ faults' \in 0..MaxFaults
    BY NumbersAssumption DEF DeviceForgets, Sound, TypeOK
<1>2. Sound' /\ lastKey' = lastKey
    BY <1>1 DEF Sound, TypeOK, KeysGiven, ValuesHeld, ShownWasRemote, local
<1> QED  BY <1>1, <1>2 DEF Own, OwnInNet, OwnLeases, OwnRenewals, local
-----------------------------------------------------------------------------
LEMMA InitEstablishes == Init => IInv
<1> SUFFICES ASSUME Init PROVE IInv
    OBVIOUS
<1>1. DOMAIN subscribedCovs = {} /\ net = {} /\ leases = {}
    BY DEF Init
<1>2. TypeOK
    BY <1>1, NumbersAssumption DEF Init, TypeOK, Keys, ReadStrategy
<1>3. ShownWasRemote /\ OwnRenewals
    BY DEF Init, ShownWasRemote, OwnRenewals, NoId
<1> QED  BY <1>1, <1>2, <1>3 DEF IInv, Sound, KeysGiven, ValuesHeld, Own, OwnInNet, OwnLeases

LEMMA StepPreserves ==
    ASSUME IInv, [Next]_vars
    PROVE  IInv'
<1>1. Sound /\ (KeysFit => Own)
    BY DEF IInv
<1>2. ASSUME NEW refused, TimerEvent(refused) PROVE IInv'
    BY <1>1, <1>2, TimerStep DEF IInv
<1>3. ASSUME Sound', lastKey' = lastKey, Own => Own' PROVE IInv'
    BY <1>1, <1>3 DEF IInv, KeysFit
<1>4. ASSUME NEW n \in net, Handle(n) PROVE IInv'
    BY <1>1, <1>3, <1>4, AcknowledgedStep, NotificationStep, ReadFinishedStep,
       AcceptsStep, AnswersStep DEF Handle
<1>5. ASSUME NEW n \in net, Lose(n) PROVE IInv'
    BY <1>1, <1>3, <1>5, LoseStep
<1>6. ASSUME NEW n \in net, NEW critical \in BOOLEAN, SubscriptionEnds(n, critical) PROVE IInv'
    BY <1>1, <1>3, <1>6, EndsStep
<1>7. ASSUME NEW m \in Mappings, DeviceChanges(m) PROVE IInv'
    BY <1>1, <1>3, <1>7, ChangesStep
<1>8. ASSUME NEW lease \in leases, DeviceForgets(lease) PROVE IInv'
    BY <1>1, <1>3, <1>8, ForgetsStep
<1>9. CASE UNCHANGED vars
    <2>1. Sound' /\ lastKey' = lastKey
        BY <1>1, <1>9 DEF vars, local, device, Sound, TypeOK, KeysGiven, ValuesHeld, ShownWasRemote
    <2>2. Own => Own'
        BY <1>9 DEF vars, local, device, Own, OwnInNet, OwnLeases, OwnRenewals
    <2> QED  BY <1>3, <2>1, <2>2
<1> QED  BY <1>2, <1>4, <1>5, <1>6, <1>7, <1>8, <1>9 DEF Next

\* The inductive invariant holds of every behaviour, whether or not the keys
\* still fit a quint8.
THEOREM CovInvariance == Spec => []IInv
<1>1. IInv /\ [Next]_vars => IInv'
    BY StepPreserves
<1> QED  BY <1>1, InitEstablishes, PTL DEF Spec

\* covSubscriptionProcessFinished, the timer and notifications keep every
\* state well typed.
THEOREM CovTypeCorrect == Spec => []TypeOK
<1>1. IInv => TypeOK
    BY DEF IInv, Sound
<1> QED  BY <1>1, CovInvariance, PTL

\* Until a key exceeds the octet a renewal finds its own entry, so that
\* insertToOrFindSubscribeCovs does not dereference end().
THEOREM RenewalsSafe == Spec => []RenewalFindsEntry
<1>1. IInv => RenewalFindsEntry
    BY DEF IInv, Own, OwnRenewals, RenewalFindsEntry
<1> QED  BY <1>1, CovInvariance, PTL

\* Until then the assertion in covSubscriptionProcessFinished holds as well, with
\* any number of requests for one mapping under way, and a notification for a
\* subscription given up reaches no other property.
THEOREM OwnEntriesMet == Spec => []EntriesKeptApart
<1>1. IInv => EntriesKeptApart
    BY DEF IInv, Own, OwnInNet, OwnEntryMet, EntriesKeptApart, Keyed
<1> QED  BY <1>1, CovInvariance, PTL

\* Also afterwards, when two properties share a process id, each shows only
\* what it had in its device itself (covValueChangeNotification).
THEOREM ShownValuesOwn == Spec => []ShownWasRemote
<1>1. IInv => ShownWasRemote
    BY DEF IInv, Sound
<1> QED  BY <1>1, CovInvariance, PTL
=============================================================================
