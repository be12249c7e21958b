----------------------------- MODULE Discovery -----------------------------
(***************************************************************************)
(* How the application layer finds the device a confirmed service is for:  *)
(* the mapper from objects to devices, the two tables from devices to      *)
(* addresses, and the wrappers that hold services while a Who-Is or        *)
(* Who-Has is out.                                                         *)
(*                                                                         *)
(* An I-Am or I-Have may come from anybody at any time, asked for or not,  *)
(* and devices may change their address.  Broadcasts may be lost.  Each    *)
(* slot is one step of the event loop.                                     *)
(*                                                                         *)
(* The code deletes the wrong wrapper when an answer comes (see            *)
(* DeleteFollower).  Using or freeing a freed wrapper is undefined: here   *)
(* the step then either goes on as if the memory were intact or ends the   *)
(* program.                                                                *)
(***************************************************************************)
EXTENDS Integers, FiniteSets

CONSTANTS
    Services,    \* the services callers pass to send(), each once
    Objects,     \* configured objects other than devices
    Devices,     \* device objects
    Addresses,
    Target,      \* Target[s]: the object or device s is for
    DeviceOf,    \* the configured device of each object
    Configured,  \* the configured address of a device, or NoAddress
    MapperSize,  \* DefaultMapperElementsSize
    DynamicSize, \* DefaultDynamicElementsSize
    InvalidId,   \* invalidObjIdNum()
    NoDevice, NoAddress

ASSUME TargetAssumption == Target \in [Services -> Objects \cup Devices]
ASSUME ConfiguredAssumption ==
    /\ DeviceOf \in [Objects -> Devices]
    /\ Configured \in [Devices -> Addresses \cup {NoAddress}]
ASSUME SizeAssumption == /\ MapperSize \in Nat
                         /\ DynamicSize \in Nat
                         /\ IsFiniteSet(Devices)
                         /\ IsFiniteSet(Objects)
ASSUME NamesAssumption == /\ Objects \cap Devices = {}
                          /\ InvalidId \notin Objects \cup Devices
                          /\ NoDevice \notin Devices \cup Objects \cup {InvalidId}
                          /\ NoAddress \notin Addresses

VARIABLES
    mapper,    \* _objectDeviceMapper: the device of an object, or NoDevice
    static,    \* _routingTable: the address of a device, or NoAddress
    dynamic,   \* _routingTableDynamic
    key,       \* the key of a service's wrapper in _awaitingDiscoveries
    asked,     \* the devices with a null entry in _awaitingDiscoveries
    freed,     \* services whose wrapper is freed and still in the hash
    outcome,   \* what became of each service
    sent,      \* history: the device and address each service was sent to
    announced, \* history: the (device, address) pairs configured or heard
    running    \* FALSE once a freed wrapper ended the program

vars == <<mapper, static, dynamic, key, asked, freed, outcome, sent,
          announced, running>>

Keys == Objects \cup Devices \cup {InvalidId}
Routes == [Devices -> Addresses \cup {NoAddress}]

TypeOK ==
    /\ mapper \in [Objects -> Devices \cup {NoDevice}]
    /\ static \in Routes
    /\ dynamic \in Routes
    /\ key \in [Services -> Keys \cup {NoDevice}]
    /\ asked \subseteq Devices
    /\ freed \subseteq Services
    /\ outcome \in [Services -> {"fresh", "waiting", "sent", "timeout"}]
    /\ sent \in [Services -> (Devices \X Addresses) \cup {NoAddress}]
    /\ announced \subseteq Devices \X Addresses
    /\ running \in BOOLEAN

Mapped(m) == {o \in Objects : m[o] # NoDevice}
Routed(r) == {d \in Devices : r[d] # NoAddress}

\* The configurator registers every object.  Each one past the size evicts a
\* victim; the comparison with the size lets one more in.
Init ==
    /\ mapper \in [Objects -> Devices \cup {NoDevice}]
    /\ \A o \in Mapped(mapper) : mapper[o] = DeviceOf[o]
    /\ IF Cardinality(Objects) <= MapperSize + 1
       THEN Mapped(mapper) = Objects
       ELSE Cardinality(Mapped(mapper)) = MapperSize + 1
    /\ static = Configured
    /\ dynamic = [d \in Devices |-> NoAddress]
    /\ key = [s \in Services |-> NoDevice]
    /\ asked = {}
    /\ freed = {}
    /\ outcome = [s \in Services |-> "fresh"]
    /\ sent = [s \in Services |-> NoAddress]
    /\ announced = {<<d, Configured[d]>> : d \in Routed(Configured)}
    /\ running = TRUE

-----------------------------------------------------------------------------
(* The tables. *)

\* RoutingTable::findEntry: the static table first.
FindRoute(d) ==
    IF d \notin Devices THEN NoAddress
    ELSE IF static[d] # NoAddress THEN static[d] ELSE dynamic[d]

\* A bug: no room is made for the answer to our own question.
AddDynamicUnforced(d, a, force) ==
    IF d \in Routed(dynamic)
    THEN dynamic' = IF force THEN [dynamic EXCEPT ![d] = a] ELSE dynamic
    ELSE IF Cardinality(Routed(dynamic)) <= DynamicSize
    THEN dynamic' = [dynamic EXCEPT ![d] = a]
    ELSE UNCHANGED dynamic

\* A known device moves only if forced; a new one takes a free place or, if
\* forced, that of a random victim.
AddDynamic(d, a, force) ==
    IF d \in Routed(dynamic)
    THEN dynamic' = IF force THEN [dynamic EXCEPT ![d] = a] ELSE dynamic
    ELSE IF Cardinality(Routed(dynamic)) <= DynamicSize
    THEN dynamic' = [dynamic EXCEPT ![d] = a]
    ELSE IF force
    THEN \E victim \in Routed(dynamic) :
             dynamic' = [dynamic EXCEPT ![victim] = NoAddress, ![d] = a]
    ELSE UNCHANGED dynamic

\* RoutingTable::addOrUpdatemappingEntry with toDynamicTable.
AddRoute(d, a, force) ==
    IF static[d] # NoAddress
    THEN /\ static' = IF force THEN [static EXCEPT ![d] = a] ELSE static
         /\ UNCHANGED dynamic
    ELSE /\ AddDynamic(d, a, force)
         /\ UNCHANGED static

\* RemoteObjectsToDeviceMapper::addOrUpdatemappingEntry: a known object is moved
\* always, whoever says so.
AddMapping(o, d, force) ==
    IF o \in Mapped(mapper) \/ Cardinality(Mapped(mapper)) <= MapperSize
    THEN mapper' = [mapper EXCEPT ![o] = d]
    ELSE IF force
    THEN \E victim \in Mapped(mapper) :
             mapper' = [mapper EXCEPT ![victim] = NoDevice, ![o] = d]
    ELSE UNCHANGED mapper

-----------------------------------------------------------------------------
(* Sending. *)

\* The number send() looks up and discovers: that of the device, or the
\* mapper's answer, which is invalidObjIdNum() for an unknown object.
LookUp(s) ==
    IF Target[s] \in Devices THEN Target[s]
    ELSE IF mapper[Target[s]] = NoDevice THEN InvalidId ELSE mapper[Target[s]]

Send(s) ==
    /\ running
    /\ outcome[s] = "fresh"
    /\ LET d == LookUp(s) IN
          \/ /\ FindRoute(d) # NoAddress
             /\ outcome' = [outcome EXCEPT ![s] = "sent"]
             /\ sent' = [sent EXCEPT ![s] = <<d, FindRoute(d)>>]
             /\ UNCHANGED key
          \/ /\ FindRoute(d) = NoAddress
             /\ outcome' = [outcome EXCEPT ![s] = "waiting"]
             /\ key' = [key EXCEPT ![s] = d]
             /\ UNCHANGED sent
    /\ UNCHANGED <<mapper, static, dynamic, asked, freed, announced, running>>

-----------------------------------------------------------------------------
(* Answers. *)

Waiting == {s \in Services : key[s] # NoDevice}
WaitingFor(K) == {s \in Services : key[s] \in K}

\* A bug: any answer concludes every discovery.
DiscoveryFinishedForAll(S, d, a) ==
    /\ outcome' = [s \in Services |-> IF s \in Waiting THEN "sent" ELSE outcome[s]]
    /\ sent' = [s \in Services |-> IF s \in Waiting THEN <<key[s], a>> ELSE sent[s]]
    /\ key' = [s \in Services |-> NoDevice]

\* discoveryFinished of each wrapper in S, and its removal from the hash.
DiscoveryFinished(S, d, a) ==
    /\ outcome' = [s \in Services |-> IF s \in S THEN "sent" ELSE outcome[s]]
    /\ sent' = [s \in Services |-> IF s \in S THEN <<d, a>> ELSE sent[s]]
    /\ key' = [s \in Services |-> IF s \in S THEN NoDevice ELSE key[s]]

Undefined(b) == IF b THEN BOOLEAN ELSE {TRUE}

\* After it = erase(it), delete it.value() frees the wrapper that follows the
\* erased one in the hash, whose order is arbitrary: the next match, which is
\* used freed; one that goes on waiting; nothing, for a null entry; or
\* whatever the end of the hash holds.
DeleteFollower(S, K) ==
    LET dangling == \/ S \cap freed # {}
                    \/ Cardinality(S) > 1
                    \/ S # {} /\ asked \cap K # {}
    IN  \/ \E next \in Waiting \ S :
               /\ freed' = (freed \ S) \cup {next}
               /\ running' \in Undefined(dangling \/ next \in freed)
        \/ /\ asked \ K # {}
           /\ freed' = freed \ S
           /\ running' \in Undefined(dangling)
        \/ /\ freed' = freed \ S
           /\ running' \in Undefined(TRUE)

\* The entries under a key in K, of which the hash only ever holds one: a device.
Conclude(K, d, a) ==
    LET S == WaitingFor(K) IN
    /\ DiscoveryFinished(S, d, a)
    /\ IF S = {} /\ asked \cap K = {} THEN UNCHANGED <<freed, running>>
       ELSE DeleteFollower(S, K)

\* registerDeviceFromDiscovery: an I-Am of device d from address a.
IAm(d, a) ==
    /\ running
    /\ asked' = asked \ {d}
    /\ Conclude({d}, d, a)
    /\ AddRoute(d, a, WaitingFor({d}) # {} \/ d \in asked)
    /\ announced' = announced \cup {<<d, a>>}
    /\ UNCHANGED mapper

\* A bug: the application layer asks for every device it hears of.
AskedAfterAlways(d) == asked \cup {d}

\* It asks for a device that is in neither table yet.
AskedAfter(d) ==
    (asked \ {d}) \cup (IF FindRoute(d) = NoAddress THEN {d} ELSE {})

\* registerObjectFromDiscovery: an I-Have of device d for object o.
IHave(d, o, a) ==
    /\ running
    /\ asked' = AskedAfter(d)
    /\ Conclude({d, o}, d, a)
    /\ AddMapping(o, d, WaitingFor({o}) # {})
    /\ AddRoute(d, a, FALSE)
    /\ announced' = announced \cup {<<d, a>>}

-----------------------------------------------------------------------------
(* The timer. *)

\* A bug: each wrapper is left in the queue, and nothing is asked again.
HandleTimeoutsForever == UNCHANGED <<outcome, key>>

\* ConfirmedDiscoveryWrapper::handleTimeout: no handler asks to be sent again,
\* so each wrapper is deleted at its first tick.
HandleTimeouts ==
    /\ outcome' = [s \in Services |-> IF s \in Waiting THEN "timeout"
                                      ELSE outcome[s]]
    /\ key' = [s \in Services |-> NoDevice]

TimerEvent ==
    /\ running
    /\ Waiting # {} \/ asked # {}
    /\ HandleTimeouts
    /\ asked' = {}
    /\ freed' = {}
    /\ running' \in Undefined(freed # {})
    /\ UNCHANGED <<mapper, static, dynamic, sent, announced>>

-----------------------------------------------------------------------------
Next ==
    \/ \E s \in Services : Send(s)
    \/ \E d \in Devices, a \in Addresses :
           IAm(d, a) \/ \E o \in Objects : IHave(d, o, a)
    \/ TimerEvent

Spec == Init /\ [][Next]_vars

\* The timer is started in the constructor and never stopped.
FairSpec == Spec /\ WF_vars(TimerEvent)

-----------------------------------------------------------------------------
\* The tables never outgrow their limits by more than the one entry that the
\* comparisons let in, with whatever mix of forced and unforced additions.
TablesBounded ==
    /\ Cardinality(Routed(dynamic)) <= DynamicSize + 1
    /\ Cardinality(Mapped(mapper)) <= MapperSize + 1

\* A service is sent to an address that was configured or announced for the
\* very device it was looked up as: an answer for one device never takes along
\* a service that waits for another.
SentWhereAnnounced ==
    \A s \in Services : outcome[s] = "sent" => sent[s] \in announced

\* A device is looked for, by us or by a waiting service, only while it has no
\* configured address.
LookedForUnconfigured ==
    /\ \A d \in asked : static[d] = NoAddress
    /\ \A s \in Services : key[s] \in Devices => static[key[s]] = NoAddress

\* "Configuration data ... which have the highest priority when searched"
\* (bacnetapplicationlayer.h): nothing a device announces, forced or not, moves a
\* device that was given an address.
ConfiguredKept == [][static' = static]_vars

\* An I-Am for a device somebody waits for leaves its address in the tables,
\* however full they are: the next service goes out at once.
AnswerRemembered ==
    [][\A d \in Devices, a \in Addresses :
          IAm(d, a) /\ (WaitingFor({d}) # {} \/ d \in asked)
              => FindRoute(d)' = a]_vars

\* A waiting service is sent or told of the time-out, unless the program ends.
DiscoveryEnds ==
    \A s \in Services :
        (outcome[s] = "waiting") ~> (outcome[s] \in {"sent", "timeout"} \/ ~ running)

=============================================================================
