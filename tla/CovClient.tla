----------------------------- MODULE CovClient -----------------------------
(***************************************************************************)
(* The periodic reading strategies of external properties: polling, and    *)
(* subscriptions to changes of value that are renewed by a timer.  The     *)
(* remote devices are external.  They accept or refuse a subscription,     *)
(* forget it when it lapses or when they restart, and notify.  Requests,   *)
(* answers and notifications are taken in any order and may be lost; equal *)
(* ones under way are one element of `net'.                                *)
(*                                                                         *)
(* Time is counted in ticks of ExternalObjectsHandler's timer.  A          *)
(* subscription is set up, as the code says it, when its strategy has an   *)
(* id: setSubscriptionInitiated changes the two together.                  *)
(*                                                                         *)
(* Each new attempt takes the next key, without end, and a request carries *)
(* eight bits of it.  Beyond them a request names the entry of another     *)
(* property, or none.                                                      *)
(***************************************************************************)
EXTENDS Integers, FiniteSets

CONSTANTS
    Mappings,    \* the properties read from remote objects; two of one object
                 \* are two properties of it
    Order,       \* Order[m]: m's position in _timeDependantJobs
    ObjectOf,    \* ObjectOf[m]: the remote object
    Polled,      \* the mappings with a SimpleWithTimeReadStrategy
    CovPoll,     \* those that poll when a subscription is refused for good
    Interval,    \* _resubscriptionInterval_ms, _interval_ms: ticks
    IdModulus,   \* a process id is sent as a quint8
    MaxKey,      \* bound on the keys generated, beyond what a quint8 holds
    MaxOpen,     \* bound on the subscriptions a mapping has under way
    MaxFaults,   \* bound on lost messages, refused or forgotten subscriptions
    MaxValue     \* MaxValue[m]: bound on m's remote value, which counts up

ASSUME MappingsAssumption ==
    /\ IsFiniteSet(Mappings)
    /\ Polled \subseteq Mappings
    /\ CovPoll \subseteq Mappings \ Polled
ASSUME OrderAssumption ==
    /\ Order \in [Mappings -> Nat]
    /\ \A m, n \in Mappings : Order[m] = Order[n] => m = n
ASSUME NumbersAssumption ==
    /\ Interval \in Nat
    /\ IdModulus \in Nat \ {0}
    /\ MaxKey \in Nat /\ MaxOpen \in Nat /\ MaxFaults \in Nat
    /\ MaxValue \in [Mappings -> Nat \ {0}]
ASSUME KeysAssumption == MaxKey + 1 >= IdModulus + Cardinality(Mappings)

VARIABLES
    subscribedCovs,  \* _subscribedCovs: a function from some keys to mappings
    lastKey,         \* _lastProcIdValueUsed
    strategy,        \* the ReadStrategy of each mapping
    shown,           \* the value of the mapped property; 0 before any was set
    net,             \* messages under way
    remote,          \* external: the value of each property in its device
    leases,          \* external: the subscriptions the devices hold
    faults           \* history: faults so far, the devices' too

local == <<subscribedCovs, lastKey, strategy, shown>>
device == <<remote, leases>>
vars == <<local, net, device, faults>>

NoId == -1
Keys == 0..MaxKey
Kinds == {"Subscribe", "Ack", "Notification", "Read", "Value"}
Messages == [kind : Kinds, about : Mappings, id : Keys, value : Nat]
ReadStrategy == [timeToAction : 0..Interval, subscriptionId : Keys \cup {NoId},
                 hasError : BOOLEAN]

TypeOK ==
    /\ DOMAIN subscribedCovs \subseteq Keys
    /\ \A k \in DOMAIN subscribedCovs : subscribedCovs[k] \in Mappings
    /\ lastKey \in Keys
    /\ strategy \in [Mappings -> ReadStrategy]
    /\ shown \in [Mappings -> Nat]
    /\ net \subseteq Messages
    /\ remote \in [Mappings -> Nat]
    /\ leases \subseteq Mappings \X Keys
    /\ faults \in 0..MaxFaults

Init ==
    /\ subscribedCovs = [k \in {} |-> {}]
    /\ lastKey = 0
    /\ strategy = [m \in Mappings |->
                      [timeToAction |-> 0, subscriptionId |-> NoId, hasError |-> FALSE]]
    /\ shown = [m \in Mappings |-> 0]
    /\ net = {}
    /\ remote = [m \in Mappings |-> 1]
    /\ leases = {}
    /\ faults = 0
-----------------------------------------------------------------------------
(* The timer. *)

Message(kind, m, id, value) == [kind |-> kind, about |-> m, id |-> id, value |-> value]

\* timePassed
Due == {m \in Mappings : strategy[m].timeToAction = 0}

\* A bug: what is subscribed is not subscribed again.
SubscribingOnce ==
    {m \in Due \ Polled : ~strategy[m].hasError /\ strategy[m].subscriptionId = NoId}

\* doAction
Subscribing == {m \in Due \ Polled : ~strategy[m].hasError}
Reading == (Due \cap Polled) \cup {m \in Due \cap CovPoll : strategy[m].hasError}

\* Those that find their entry under the key they were given.  For a key that
\* is not there the iterator dereferenced is end(): taken for another one's.
Renewing ==
    {m \in Subscribing :
        /\ strategy[m].subscriptionId \in DOMAIN subscribedCovs
        /\ subscribedCovs[strategy[m].subscriptionId] = m}

\* A bug: all that subscribe in one tick get the same key.
NewKeyShared(m) == lastKey + 1

\* The others get new keys in the order of their jobs.  The keys in use are
\* never above lastKey, so that the first one tried is free.  Nothing is ever
\* erased here: the entry under the id that was to be renewed, if there is one,
\* is another mapping's.
NewKey(m) ==
    lastKey + Cardinality({n \in Subscribing \ Renewing : Order[n] <= Order[m]})

KeyOf(m) == IF m \in Renewing THEN strategy[m].subscriptionId ELSE NewKey(m)

WithNewKeys ==
    LET fresh == Subscribing \ Renewing
    IN  [k \in DOMAIN subscribedCovs \cup {NewKey(m) : m \in fresh} |->
            IF k \in DOMAIN subscribedCovs THEN subscribedCovs[k]
                                           ELSE CHOOSE m \in fresh : NewKey(m) = k]

\* quint8 generateProcId.  The id 0 is sent as well: it is refused only for
\* confirmed notifications, which no configured strategy asks for.
SentId(key) == key % IdModulus

UnderWay(m) == {n \in net : n.about = m /\ n.kind \in {"Subscribe", "Ack"}}

Restarted(s) == [s EXCEPT !.timeToAction = Interval]

\* What the transaction machine refuses is dropped, and nobody is told.  MaxKey
\* stops the timer only when some key no longer fits the octet.
TimerEvent(refused) ==
    /\ refused \subseteq Subscribing \cup Reading
    /\ faults + Cardinality(refused) <= MaxFaults
    /\ \A m \in Subscribing : Cardinality(UnderWay(m)) < MaxOpen
    /\ lastKey + Cardinality(Subscribing \ Renewing) <= MaxKey
    /\ faults' = faults + Cardinality(refused)
    /\ strategy' = [m \in Mappings |->
                       IF m \in Due THEN Restarted(strategy[m])
                       ELSE [strategy[m] EXCEPT !.timeToAction = @ - 1]]
    /\ subscribedCovs' = WithNewKeys
    /\ lastKey' = lastKey + Cardinality(Subscribing \ Renewing)
    /\ net' = net \cup {Message("Subscribe", m, SentId(KeyOf(m)), 0) :
                           m \in Subscribing \ refused}
                  \cup {Message("Read", m, 0, 0) : m \in Reading \ refused}
    /\ UNCHANGED <<shown, device>>
-----------------------------------------------------------------------------
(* The end of a subscription request. *)

\* A bug: a failed subscription keeps its key.
FailedKeepingId(s, critical) == [s EXCEPT !.hasError = IF critical THEN TRUE ELSE @]

\* setSubscriptionInitiated, not successful
Failed(s, critical) ==
    [s EXCEPT !.subscriptionId = NoId, !.hasError = IF critical THEN TRUE ELSE @]

\* covSubscriptionProcessFinished.  Without an entry under the key nobody is
\* told; that the entry is the mapping's own is only asserted.
SubscriptionFailed(m, id, critical) ==
    IF id \in DOMAIN subscribedCovs
    THEN /\ subscribedCovs' = [k \in DOMAIN subscribedCovs \ {id} |-> subscribedCovs[k]]
         /\ strategy' = [strategy EXCEPT ![m] = Failed(@, critical)]
    ELSE UNCHANGED <<subscribedCovs, strategy>>

\* handleAck
SubscriptionAcknowledged(n) ==
    /\ n \in net /\ n.kind = "Ack"
    /\ strategy' = IF n.id \in DOMAIN subscribedCovs
                   THEN [strategy EXCEPT ![n.about].subscriptionId = n.id,
                                         ![n.about].hasError = FALSE]
                   ELSE strategy
    /\ net' = net \ {n}
    /\ UNCHANGED <<subscribedCovs, lastKey, shown, device, faults>>

\* handleError of another code, handleAbort, handleTimeout: not critical, the
\* request or its acknowledgement was lost.  handleReject, handleError of
\* four codes: critical, the device did not accept.
SubscriptionEnds(n, critical) ==
    /\ n \in net /\ n.kind \in {"Subscribe", "Ack"}
    /\ critical => n.kind = "Subscribe"
    /\ faults < MaxFaults
    /\ faults' = faults + 1
    /\ SubscriptionFailed(n.about, n.id, critical)
    /\ net' = net \ {n}
    /\ UNCHANGED <<lastKey, shown, device>>
-----------------------------------------------------------------------------
(* Notifications and the results of reading. *)

\* notificationReceived.  The time left in the device, Interval standing for
\* any longer or unlimited one, may bring the renewal forward.
ToldTimeLeft(s, left) ==
    [s EXCEPT !.timeToAction = IF @ > left THEN left ELSE @]

\* covValueChangeNotification.  The entry decides whose value is set; it must
\* be for the object, and the value for the property, the notification names.
NotificationMeets(n, m, value) ==
    IF n.id \in DOMAIN subscribedCovs /\ ObjectOf[m] = ObjectOf[n.about]
    THEN /\ shown' = [shown EXCEPT ![m] = value]
         /\ \E left \in 0..Interval :
               strategy' = [strategy EXCEPT ![m] = ToldTimeLeft(@, left)]
    ELSE UNCHANGED <<shown, strategy>>

\* A bug: the value is not looked for by its property.
CovValueChangeNotificationAnyProperty(n) ==
    /\ n \in net /\ n.kind = "Notification"
    /\ net' = net \ {n}
    /\ NotificationMeets(n, subscribedCovs[n.id], n.value)
    /\ UNCHANGED <<subscribedCovs, lastKey, device, faults>>

CovValueChangeNotification(n) ==
    /\ n \in net /\ n.kind = "Notification"
    /\ net' = net \ {n}
    /\ LET m == subscribedCovs[n.id]
       IN  NotificationMeets(n, m, IF m = n.about THEN n.value ELSE shown[m])
    /\ UNCHANGED <<subscribedCovs, lastKey, device, faults>>

\* ReadPropertyServiceHandler::handleAck without an asynchronous id, and
\* actionFinished, which a CovReadStrategy takes only after an error.
ReadFinished(n) ==
    /\ n \in net /\ n.kind = "Value"
    /\ net' = net \ {n}
    /\ shown' = [shown EXCEPT ![n.about] = n.value]
    /\ strategy' = IF n.about \in Polled \/ strategy[n.about].hasError
                   THEN [strategy EXCEPT ![n.about] = Restarted(@)]
                   ELSE strategy
    /\ UNCHANGED <<subscribedCovs, lastKey, device, faults>>

\* A notification, or a read or its answer; nothing changes when it is lost.
Lose(n) ==
    /\ n \in net /\ n.kind \in {"Notification", "Read", "Value"}
    /\ faults < MaxFaults
    /\ faults' = faults + 1
    /\ net' = net \ {n}
    /\ UNCHANGED <<local, device>>
-----------------------------------------------------------------------------
(* The devices. *)

\* New and renewed subscriptions are notified at once.
DeviceAccepts(n) ==
    /\ n \in net /\ n.kind = "Subscribe"
    /\ leases' = leases \cup {<<n.about, n.id>>}
    /\ net' = (net \ {n}) \cup {Message("Ack", n.about, n.id, 0),
                                Message("Notification", n.about, n.id, remote[n.about])}
    /\ UNCHANGED <<local, remote, faults>>

DeviceAnswers(n) ==
    /\ n \in net /\ n.kind = "Read"
    /\ net' = (net \ {n}) \cup {Message("Value", n.about, 0, remote[n.about])}
    /\ UNCHANGED <<local, device, faults>>

DeviceChanges(m) ==
    /\ remote[m] < MaxValue[m]
    /\ remote' = [remote EXCEPT ![m] = @ + 1]
    /\ net' = net \cup {Message("Notification", m, k, remote[m] + 1) :
                           k \in {i \in Keys : <<m, i>> \in leases}}
    /\ UNCHANGED <<local, leases, faults>>

DeviceForgets(lease) ==
    /\ lease \in leases
    /\ faults < MaxFaults
    /\ faults' = faults + 1
    /\ leases' = leases \ {lease}
    /\ UNCHANGED <<local, net, remote>>

Handle(n) ==
    \/ SubscriptionAcknowledged(n)
    \/ CovValueChangeNotification(n)
    \/ ReadFinished(n)
    \/ DeviceAccepts(n)
    \/ DeviceAnswers(n)

Next ==
    \/ \E refused \in SUBSET (Subscribing \cup Reading) : TimerEvent(refused)
    \/ \E n \in net :
          \/ Handle(n)
          \/ Lose(n)
          \/ \E critical \in BOOLEAN : SubscriptionEnds(n, critical)
    \/ \E m \in Mappings : DeviceChanges(m)
    \/ \E lease \in leases : DeviceForgets(lease)

Spec == Init /\ [][Next]_vars

\* The messages that there can be about a mapping
KindsAbout(m) ==
    (IF m \in Polled THEN {} ELSE {"Subscribe", "Ack", "Notification"})
        \cup (IF m \in Polled \cup CovPoll THEN {"Read", "Value"} ELSE {})

\* The event loop runs the timer and takes what arrives.
Fairness ==
    /\ WF_vars(\E refused \in SUBSET (Subscribing \cup Reading) : TimerEvent(refused))
    /\ \A m \in Mappings : \A kind \in KindsAbout(m) :
          WF_vars(\E n \in net : n.kind = kind /\ n.about = m /\ Handle(n))

FairSpec == Spec /\ Fairness
-----------------------------------------------------------------------------
(* Properties. *)

\* Every key given so far fits the octet it is sent in.
KeysFit == lastKey < IdModulus

\* The renewal of a subscription finds its own entry, whatever became of the
\* requests sent before it (the iterator of insertToOrFindSubscribeCovs is
\* dereferenced without a test), while the keys fit.
RenewalFindsEntry ==
    KeysFit =>
        \A m \in Mappings :
            LET id == strategy[m].subscriptionId
            IN  id # NoId => id \in DOMAIN subscribedCovs /\ subscribedCovs[id] = m

\* "Q_ASSERT((propertyMapping == it->first) && (readStrategy == it->second))":
\* the end of a request never meets the entry of another mapping, to be erased
\* or taken for the request's own.  Nor does a device that still notifies under
\* a key that failed, lapsed or was given up reach another property's entry, to
\* set its value or shorten its renewal (covValueChangeNotification).
OwnEntryMet ==
    \A n \in net :
        n.kind \in {"Subscribe", "Ack", "Notification"} /\ n.id \in DOMAIN subscribedCovs
            => subscribedCovs[n.id] = n.about

\* That is so while the keys fit, with any number of requests under way.
EntriesKeptApart == KeysFit => OwnEntryMet

\* Also when ids are cut off and requests, notifications and renewals meet the
\* entries of others, a property shows a value that it had itself.  Values count
\* up, so that another property's value may be one it never had.
ShownWasRemote == \A m \in Mappings : shown[m] \in 0..remote[m]

\* Notifications may be lost, overtake each other or come before the
\* acknowledgement, and devices forget: yet, while the keys fit, a property that
\* is polled, or whose subscription is not refused for good, comes to show the
\* remote value.
CaughtUp ==
    \A m \in Mappings :
        \/ <>[](shown[m] = remote[m])
        \/ m \notin Polled \cup CovPoll /\ <>[](strategy[m].hasError)
        \/ <>~KeysFit

=============================================================================
