------------------------------ MODULE Objects ------------------------------
(***************************************************************************)
(* The gateway's BACnet objects as its clients see them: ReadProperty and  *)
(* WriteProperty requests from the application layer through devices,      *)
(* objects, properties and data model subjects down to the remote devices  *)
(* that external subjects mirror, and the results on their way back up.    *)
(*                                                                         *)
(* Objects and mappings come from the configuration file.  The             *)
(* event loop runs a request, a result or a timer as one step.  The choice *)
(* of asynchronous ids is AsynchActions' subject, that of subscriptions    *)
(* CovClient's: external subjects are read on demand or polled here.       *)
(***************************************************************************)
EXTENDS Configuration, Functions

CONSTANTS
    Config,     \* the configuration file
    Layer,      \* what ApplicationLayer makes of it
    Clients,    \* BACnet clients, each with one request at a time
    Asks,       \* the requests clients may send
    Numbers,    \* the numbers each subject's values carry
    AsynchIds,  \* the data model's asynchronous ids
    Foreign,    \* subjects that observers of the other protocol set
    Reports,    \* the class each external subject's remote property has
    Expects     \* the class createDataForObjectProperty makes for it

ASSUME LayerAssumption == Layer = ApplicationLayer(Config)

Subjects == DOMAIN Layer.subjects
External == DOMAIN Layer.mapping
Polled == {s \in External : Layer.mapping[s].strategy = "timed"}
NoIndex == NoNumber

\* Every proxy as <<device, object, property, position>>, 0 outside an array.
PropertiesAt(d, o) == Layer.devices[d][o]
Places(d, o, i) ==
    LET p == PropertiesAt(d, o)[i]
    IN CASE p.kind = "Proxy" -> {0}
         [] p.kind = "Array" -> {k \in DOMAIN p.elements : p.elements[k].kind = "Proxy"}
         [] OTHER -> {}
ProxiesOf(d, o) ==
    UNION {{<<d, o, i, k>> : k \in Places(d, o, i)} : i \in DOMAIN PropertiesAt(d, o)}
ProxiesIn(d) == UNION {ProxiesOf(d, o) : o \in DOMAIN Layer.devices[d]}
Proxies == UNION {ProxiesIn(d) : d \in DOMAIN Layer.devices}
ProxyAt(x) == LET p == PropertiesAt(x[1], x[2])[x[3]]
              IN IF x[4] = 0 THEN p ELSE p.elements[x[4]]

\* The k-th element of the array at x.
Element(x, k) == [x EXCEPT ![4] = k]

\* PropertySubject::_observers: proxies that do not hold the subject themselves.
Observers == {x \in Proxies : ~ ProxyAt(x).owned}
ObserversOf(s) == {x \in Observers : ProxyAt(x).subject = s}

\* PropertyObserver::type: the subject's type, or the one it is converted to.
SubjectType(p) == Layer.subjects[p.subject]
TypeOf(p) == IF p.conv.kind = "none" THEN SubjectType(p) ELSE p.conv.type

\* A proxy whose class cannot take its subject's type frees the value it
\* returns; such a configuration has no defined behaviour.
ASSUME ProxyAssumption ==
    \A x \in Proxies : /\ ProxyAt(x).subject \in Subjects
                       /\ Accepts(ProxyAt(x).class, TypeOf(ProxyAt(x)))
\* The length of a bit array that is written through a mask is not modelled.
ASSUME MaskAssumption ==
    \A x \in Proxies : ProxyAt(x).conv.kind = "masking" => SubjectType(ProxyAt(x)) # "bitarray"
\* The default objects hold constants.
ASSUME DefaultAssumption ==
    \A t \in DOMAIN Layer.defaults : \A i \in DOMAIN Layer.defaults[t] :
        Layer.defaults[t][i].kind = "Simple"
\* What SingleProperty and ArrayElements make, and that SubjectTaken takes a
\* number once; stated for the proofs, which do not unfold the configuration.
ASSUME KindAssumption ==
    \A d \in DOMAIN Layer.devices : \A o \in DOMAIN Layer.devices[d] :
    \A i \in DOMAIN PropertiesAt(d, o) :
        LET p == PropertiesAt(d, o)[i]
        IN /\ p.kind \in {"Simple", "Proxy", "Array"}
           /\ p.kind = "Array" =>
                /\ DOMAIN p.elements = 1 .. Len(p.elements)
                /\ \A k \in DOMAIN p.elements : p.elements[k].kind \in {"Simple", "Proxy"}
ASSUME OwnedAssumption ==
    /\ External \subseteq Subjects
    /\ \A x \in Proxies : ProxyAt(x).owned => ProxyAt(x).subject \notin External
\* A remote device's subject is set through its mapping only.
ASSUME ForeignAssumption == Foreign \subseteq Subjects \ External
\* Subscriptions are CovClient's.
ASSUME StrategyAssumption == \A s \in External : Layer.mapping[s].strategy # "cov"

\* Requests come from readable messages to devices that are there; nobody writes
\* to an object that is not.
ASSUME AskAssumption ==
    \A a \in Asks : /\ a.service # "none"
                    /\ a.device \in DOMAIN Layer.devices
                    /\ a.service = "Write" => a.object \in DOMAIN Layer.devices[a.device]

VARIABLES
    value,    \* PropertySubject::_value, its number or Null
    remote,   \* what the remote property of each external subject holds
    waiting,  \* the operations under way, by asynchronous id
    polls,    \* a periodic read under way: what it found, or Pending
    client,   \* the request each client waits for
    said,     \* the answer sent by this step, or Silence
    told      \* the subject's number each observer was told or read last

vars == <<value, remote, waiting, polls, client, said, told>>

Ack(data) == [code |-> "ack", data |-> data]
Error(e) == [code |-> "error", error |-> e]
Reject(r) == [code |-> "reject", error |-> r]
\* The operation was started, to write n if it is a write, and will finish under
\* an asynchronous id.
Started(s, x, n) == [code |-> "started", subject |-> s, by |-> x, n |-> n]

\* A client's request with what its remote property held meanwhile, and whether
\* the client's own write reached it: history, for the properties.
NoAsk == [service |-> "none"]
Idle == [ask |-> NoAsk, seen |-> {}, reached |-> FALSE]
Silence == [is |-> [code |-> "none"]]
Datum(class, n) == <<[class |-> class, n |-> Converted(NumberOf(n), VariantOf[class])]>>
Lost == [code |-> "none"]
FreeIds == {i \in AsynchIds : waiting[i].code = "none"}
NoPoll == -1
Sent == -2

-----------------------------------------------------------------------------
(* Reading. *)

\* readClassDataHelper: what every object, and a device, answers of itself,
\* whatever is configured under the same name.
\* No subscription ever exists and address bindings are never listed.
DeviceData == {"active-cov-subscriptions", "object-list", "device-address-binding"}
ObjectData == "object-identifier" :> "ObjectId" @@ "object-type" :> "Unsigned"
              @@ "object-name" :> "CharacterString"
ASSUME ShadowAssumption ==
    \A x \in Proxies : /\ x[3] \notin DOMAIN ObjectData
                       /\ x[2][1] = "device" => x[3] \notin DeviceData
ReadDeviceData(d, property, idx) ==
    CASE property = "active-cov-subscriptions" /\ idx # NoIndex -> Error("PropertyIsNotAnArray")
      [] property = "object-list" -> Ack([k \in 1 .. Cardinality(DOMAIN Layer.devices[d]) |->
                                             [class |-> "ObjectId", n |-> 0]])
      [] OTHER -> Ack(<<>>)

\* SimpleProperty::getValue
ReadSimple(p, idx) ==
    IF idx = NoIndex THEN Ack(Datum(p.class, p.data)) ELSE Error("PropertyIsNotAnArray")

\* ExternalObjectReadStrategy::readProperty under a new asynchronous id.
ReadRequested(s, x) == IF FreeIds = {} THEN Error("Other") ELSE Started(s, x, 0)

\* ProxyInternalProperty::getValue: instantly, or of a subject it holds itself,
\* the value is at hand; PropertySubject::getValueSafe asks the subject's owner.
OutOfReach(p, instantly) == ~ instantly /\ ~ p.owned /\ p.subject \in External

\* What the proxy answers when its subject holds n.
Shown(p, n) ==
    LET seen == FromInternal(p.conv, n, SubjectType(p))
    IN IF seen = Failed THEN Error("Other") ELSE Ack(Datum(p.class, seen))

\* A bug: a value that was read once is served from then on.
CachedProxy(v, x, p, idx, instantly) ==
    CASE idx # NoIndex -> Error("PropertyIsNotAnArray")
      [] idx = NoIndex /\ OutOfReach(p, instantly) /\ v[p.subject] = Null ->
             ReadRequested(p.subject, x)
      [] OTHER -> Shown(p, v[p.subject])

ReadProxy(v, x, p, idx, instantly) ==
    CASE idx # NoIndex -> Error("PropertyIsNotAnArray")
      [] idx = NoIndex /\ OutOfReach(p, instantly) -> ReadRequested(p.subject, x)
      [] OTHER -> Shown(p, v[p.subject])

ReadSingle(v, x, p, idx, instantly) ==
    IF p.kind = "Simple" THEN ReadSimple(p, idx) ELSE ReadProxy(v, x, p, idx, instantly)

\* ArrayProperty::getValue: the loop over a whole array returns at the first
\* element that is not read at once.
ReadArray(v, x, p, idx, instantly) ==
    LET element == [k \in DOMAIN p.elements |->
                       ReadSingle(v, Element(x, k), p.elements[k], NoIndex, instantly)]
        stops == {k \in DOMAIN element : element[k].code # "ack"}
    IN CASE idx = 0 -> Ack(Datum("Unsigned", Len(p.elements)))
         [] idx \in DOMAIN element -> element[idx]
         [] idx \notin DOMAIN element \cup {0, NoIndex} -> Error("InvalidArrayIndex")
         [] idx = NoIndex /\ stops = {} -> Ack(FlattenSeq([k \in DOMAIN element |-> element[k].data]))
         [] OTHER -> element[Min(stops)]

\* BacnetObject::propertyReadTry and propertyReadInstantly: the object's own
\* data, then its properties, then its type's default properties.
ReadProperty(v, a, instantly) ==
    LET here == PropertiesAt(a.device, a.object)
        default == IF a.object[1] \in DOMAIN Layer.defaults
                   THEN Layer.defaults[a.object[1]] ELSE <<>>
        x == <<a.device, a.object, a.property, 0>>
    IN IF a.object[1] = "device" /\ a.property \in DeviceData
       THEN ReadDeviceData(a.device, a.property, a.idx)
       ELSE CASE
            a.property \in DOMAIN ObjectData -> Ack(Datum(ObjectData[a.property], 0))
         [] a.property \in DOMAIN here \ DOMAIN ObjectData ->
                IF here[a.property].kind = "Array"
                THEN ReadArray(v, x, here[a.property], a.idx, instantly)
                ELSE ReadSingle(v, x, here[a.property], a.idx, instantly)
         [] a.property \in DOMAIN default \ (DOMAIN here \cup DOMAIN ObjectData) ->
                ReadSimple(default[a.property], a.idx)
         [] OTHER -> Error("UnknownProperty")

-----------------------------------------------------------------------------
(* Writing. *)

\* SimpleProperty::setValue assigns the stored value to the given one.
WriteSimple(p, a, idx) ==
    CASE idx # NoIndex -> Error("PropertyIsNotAnArray")
      [] idx = NoIndex /\ a.class # p.class -> Error("InvalidDataType")
      [] OTHER -> Ack(<<>>)

\* ExternalObjectWriteStrategy::writeProperty under a new asynchronous id; the
\* remote device gets the value as one of the class expected.
WriteRequested(s, x, given, n) ==
    IF FreeIds = {} \/ ~ Accepts(Expects[s], given) THEN Error("Other")
    ELSE Started(s, x, Converted(n, VariantOf[Expects[s]]))

\* PropertySubject::setValueSafe, and setValue where no other owner is asked.
SetSubject(s, x, given, n) ==
    CASE given # Layer.subjects[s] -> Error("Other")
      [] given = Layer.subjects[s] /\ s \notin External ->
             [code |-> "stored", subject |-> s, by |-> x, n |-> n]
      [] OTHER -> WriteRequested(s, x, given, n)

\* ProxyInternalProperty::setValue.  A converting observer takes what the subject
\* holds at the moment, whoever owns it, and gives a value of the subject's type.
WriteProxy(v, x, p, a, idx) ==
    LET given == VariantOf[a.class]
        n == ToInternal(p.conv, a.n, given, v[p.subject], SubjectType(p))
    IN CASE idx # NoIndex -> Error("PropertyIsNotAnArray")
         [] idx = NoIndex /\ n = Failed -> Error("Other")
         [] OTHER -> SetSubject(p.subject, x, IF p.conv.kind = "none" THEN given
                                              ELSE SubjectType(p), n)

WriteSingle(v, x, p, a, idx) ==
    IF p.kind = "Simple" THEN WriteSimple(p, a, idx) ELSE WriteProxy(v, x, p, a, idx)

\* ArrayProperty::setValue: elements before the last one only.
WriteArray(v, x, p, a) ==
    CASE a.idx = NoIndex -> Error("WriteAccessDenied")
      [] a.idx \in 1 .. Len(p.elements) - 1 ->
             WriteSingle(v, Element(x, a.idx), p.elements[a.idx], a, NoIndex)
      [] OTHER -> Error("InvalidArrayIndex")

\* BacnetObject::propertySet: an object's own properties, no defaults.
WriteProperty(v, a) ==
    LET here == PropertiesAt(a.device, a.object)
        x == <<a.device, a.object, a.property, 0>>
    IN IF a.property \notin DOMAIN here THEN Error("UnknownProperty")
       ELSE IF here[a.property].kind = "Array" THEN WriteArray(v, x, here[a.property], a)
       ELSE WriteSingle(v, x, here[a.property], a, a.idx)

-----------------------------------------------------------------------------
(* Requests. *)

\* InternalRPRequestHandler::execute
ExecuteRead(a) ==
    IF a.object \notin DOMAIN Layer.devices[a.device] THEN Error("UnknownObject")
    ELSE ReadProperty(value, a, FALSE)

\* InternalWPRequestHandler::execute; nobody writes to an object that is not there.
ExecuteWrite(a) == WriteProperty(value, a)

\* createConfirmedHandler and execute
Outcome(a) ==
    CASE a.service = "Garbled" -> Reject("MissingRequiredParameter")
      [] a.service = "Read" -> ExecuteRead(a)
      [] a.service = "Write" -> ExecuteWrite(a)
      [] OTHER -> Reject("UnrecognizedService")

\* The proxy a request names by object, property and position.
Named(a) == <<a.device, a.object, a.property, IF a.idx = NoIndex THEN 0 ELSE a.idx>>

\* A subject's numbers are all it can come to hold: what its remote property
\* reports, what that is converted to, and what is made of the clients' writes.
ASSUME NumbersAssumption ==
    /\ \A s \in External :
           /\ 0 \in Numbers[s]
           /\ \A n \in Numbers[s] : Converted(n, Layer.subjects[s]) \in Numbers[s]
    /\ \A a \in Asks : a.service = "Write" /\ Named(a) \in Proxies =>
           LET p == ProxyAt(Named(a))
               s == p.subject
           IN \A there \in Numbers[s] \cup {Null} :
                LET n == ToInternal(p.conv, a.n, VariantOf[a.class], there, SubjectType(p))
                IN \/ n = Failed
                   \/ s \notin External /\ n \in Numbers[s]
                   \/ s \in External /\ Converted(n, VariantOf[Expects[s]]) \in Numbers[s]

\* The properties are about acknowledgements, of requests that name a proxy.
Says(c, a, result) ==
    IF result.code # "ack" \/ Named(a) \notin Proxies THEN Silence
    ELSE [ask |-> a, is |-> result, seen |-> client[c].seen, reached |-> client[c].reached]

\* A bug: only the observer that brought a change about is told.
OneHears(s, x, others, n) == [y \in Observers |-> IF y = x THEN n ELSE told[y]]

\* The observers of s hear of n, all or only the one that brought it about.
Heard(s, x, others, n) ==
    [y \in Observers |-> IF y = x \/ (others /\ y \in ObserversOf(s)) THEN n ELSE told[y]]

Init ==
    /\ value = [s \in Subjects |-> Null]
    /\ remote = [s \in External |-> 0]
    /\ waiting = [i \in AsynchIds |-> Lost]
    /\ polls = [s \in Polled |-> NoPoll]
    /\ client = [c \in Clients |-> Idle]
    /\ said = Silence
    /\ told = [x \in Observers |-> Null]

\* A request whose outcome is r.  finalizeInstant at once: nothing but the answer.
AnswerAtOnce(c, a, r) ==
    /\ r.code \in {"ack", "error", "reject"}
    /\ said' = Says(c, a, r)
    /\ UNCHANGED <<value, remote, waiting, polls, client, told>>

\* A write to a subject of the gateway: setValueSafe leaves out the writer and,
\* when nothing changes, everyone; setValue of an owned subject tells everyone.
\* An unset value counts as 0.
Store(c, a, r) ==
    /\ r.code = "stored"
    /\ LET changes == ProxyAt(r.by).owned \/ NumberOf(value[r.subject]) # r.n
       IN /\ value' = IF changes THEN [value EXCEPT ![r.subject] = r.n] ELSE value
          /\ told' = Heard(r.subject, r.by, changes, value'[r.subject])
    /\ said' = Says(c, a, Ack(<<>>))
    /\ UNCHANGED <<remote, waiting, polls, client>>

\* readProperty or writeProperty has sent a request of its own, and
\* addAsynchronousHandler keeps the client's under the id.
Start(c, a, r) ==
    /\ r.code = "started"
    /\ \E i \in FreeIds :
           waiting' = [waiting EXCEPT ![i] =
               [code |-> "pending", client |-> c, subject |-> r.subject, by |-> r.by, n |-> r.n]]
    /\ client' = [client EXCEPT ![c] = [ask |-> a, seen |-> {remote[r.subject]},
                                         reached |-> FALSE]]
    /\ said' = Silence
    /\ UNCHANGED <<value, remote, polls, told>>

ProcessConfirmedRequest(c, a) ==
    /\ client[c] = Idle
    /\ LET r == Outcome(a)
       IN AnswerAtOnce(c, a, r) \/ Store(c, a, r) \/ Start(c, a, r)

-----------------------------------------------------------------------------
(* The remote devices; external. *)

AskOf(i) == client[waiting[i].client].ask
InUse(i) == waiting[i].code # "none"

\* The clients waiting for s while its remote property comes to hold n.
Seeing(s, n) ==
    [c \in Clients |->
        IF \E i \in AsynchIds : /\ InUse(i)
                                /\ waiting[i].client = c
                                /\ waiting[i].subject = s
        THEN [client[c] EXCEPT !.seen = @ \cup {n}] ELSE client[c]]

RemoteChanges(s, n) ==
    /\ remote[s] # n
    /\ remote' = [remote EXCEPT ![s] = n]
    /\ client' = Seeing(s, n)
    /\ said' = Silence
    /\ UNCHANGED <<value, waiting, polls, told>>

RemoteServes(i) ==
    /\ waiting[i].code = "pending"
    /\ LET s == waiting[i].subject
           c == waiting[i].client
           n == waiting[i].n
       IN IF AskOf(i).service = "Read"
          THEN /\ waiting' = [waiting EXCEPT ![i].code = "served", ![i].n = remote[s]]
               /\ UNCHANGED <<remote, client>>
          ELSE /\ waiting' = [waiting EXCEPT ![i].code = "served"]
               /\ remote' = [remote EXCEPT ![s] = n]
               /\ client' = [Seeing(s, n) EXCEPT ![c].reached = TRUE]
    /\ said' = Silence
    /\ UNCHANGED <<value, polls, told>>

-----------------------------------------------------------------------------
(* Results. *)

\* A bug: the client is answered and its id stays in use.
KeepsId(i, answer) ==
    LET c == waiting[i].client
    IN /\ said' = Says(c, AskOf(i), answer)
       /\ client' = [client EXCEPT ![c] = Idle]
       /\ UNCHANGED waiting

\* propertyIoFinished, called up from the subject through its observer, the
\* proxy, the array, the object and the device: the client is answered.
Finish(i, answer) ==
    LET c == waiting[i].client
    IN /\ waiting' = [waiting EXCEPT ![i] = Lost]
       /\ said' = Says(c, AskOf(i), answer)
       /\ client' = [client EXCEPT ![c] = Idle]

\* The subject's value after an answer: setValueSilent converts if it can.
ReadValue(s, n) ==
    LET from == VariantOf[Reports[s]]
        to == Layer.subjects[s]
    IN IF Convertible(from, to) THEN [value EXCEPT ![s] = Converted(n, to)] ELSE value

\* finishReading_helper reads again what was asked for, now instantly.
FinishReading(v, a) == ReadProperty(v, a, TRUE)

\* ReadPropertyServiceHandler::handleAck
ReadAnswered(i) ==
    /\ waiting[i].code = "served"
    /\ AskOf(i).service = "Read"
    /\ value' = ReadValue(waiting[i].subject, waiting[i].n)
    /\ told' = Heard(waiting[i].subject, waiting[i].by, TRUE, value'[waiting[i].subject])
    /\ Finish(i, FinishReading(value', AskOf(i)))
    /\ UNCHANGED <<remote, polls>>

\* BacnetWritePropertyServiceHandler::handleAck leaves the local value alone,
\* and still the other observers are told.
WriteAnswered(i) ==
    /\ waiting[i].code = "served"
    /\ AskOf(i).service = "Write"
    /\ told' = Heard(waiting[i].subject, waiting[i].by, TRUE, value[waiting[i].subject])
    /\ Finish(i, Ack(<<>>))
    /\ UNCHANGED <<value, remote, polls>>

\* A bug: a write that failed is acknowledged.
FailureForgotten(i) ==
    /\ InUse(i)
    /\ AskOf(i).service = "Write"
    /\ Finish(i, Ack(<<>>))
    /\ UNCHANGED <<value, remote, polls, told>>

\* handleError, handleAbort, handleReject and, at any time, handleTimeout.
ReadFailed(i) ==
    /\ InUse(i)
    /\ AskOf(i).service = "Read"
    /\ Finish(i, Error("UnknownProperty"))
    /\ UNCHANGED <<value, remote, polls, told>>

WriteFailed(i) ==
    /\ InUse(i)
    /\ AskOf(i).service = "Write"
    /\ Finish(i, Error("UnknownProperty"))
    /\ UNCHANGED <<value, remote, polls, told>>

-----------------------------------------------------------------------------
(* Values that arrive unasked. *)

\* SimpleWithTimeReadStrategy::doAction reads without an asynchronous id.  One
\* read of a subject at a time is under way.
PollSent(s) ==
    /\ polls[s] = NoPoll
    /\ polls' = [polls EXCEPT ![s] = Sent]
    /\ said' = Silence
    /\ UNCHANGED <<value, remote, waiting, client, told>>

PollServed(s) ==
    /\ polls[s] = Sent
    /\ polls' = [polls EXCEPT ![s] = remote[s]]
    /\ said' = Silence
    /\ UNCHANGED <<value, remote, waiting, client, told>>

\* A bug: an answer is taken before there is one.
PollTaken(s) ==
    /\ polls[s] # NoPoll
    /\ value' = [value EXCEPT ![s] = polls[s]]
    /\ polls' = [polls EXCEPT ![s] = NoPoll]
    /\ said' = Silence
    /\ UNCHANGED <<remote, waiting, client, told>>

\* handleAck without an id: setValue takes a value of the subject's type only.
PollAnswered(s) ==
    /\ polls[s] \notin {NoPoll, Sent}
    /\ IF VariantOf[Reports[s]] = Layer.subjects[s]
       THEN /\ value' = [value EXCEPT ![s] = polls[s]]
            /\ told' = [y \in Observers |-> IF y \in ObserversOf(s) THEN polls[s] ELSE told[y]]
       ELSE UNCHANGED <<value, told>>
    /\ polls' = [polls EXCEPT ![s] = NoPoll]
    /\ said' = Silence
    /\ UNCHANGED <<remote, waiting, client>>

PollFailed(s) ==
    /\ polls[s] # NoPoll
    /\ polls' = [polls EXCEPT ![s] = NoPoll]
    /\ said' = Silence
    /\ UNCHANGED <<value, remote, waiting, client, told>>

\* The other protocol sets a subject that it observes.
SetValue(s, n) ==
    /\ NumberOf(value[s]) # n
    /\ value' = [value EXCEPT ![s] = n]
    /\ told' = [y \in Observers |-> IF y \in ObserversOf(s) THEN n ELSE told[y]]
    /\ said' = Silence
    /\ UNCHANGED <<remote, waiting, polls, client>>

Next ==
    \/ \E c \in Clients, a \in Asks : ProcessConfirmedRequest(c, a)
    \/ \E i \in AsynchIds : RemoteServes(i) \/ ReadAnswered(i) \/ WriteAnswered(i)
                            \/ ReadFailed(i) \/ WriteFailed(i)
    \/ \E s \in External : \E n \in Numbers[s] : RemoteChanges(s, n)
    \/ \E s \in Polled : PollSent(s) \/ PollServed(s) \/ PollAnswered(s) \/ PollFailed(s)
    \/ \E s \in Foreign : \E n \in Numbers[s] : SetValue(s, n)

Spec == Init /\ [][Next]_vars

-----------------------------------------------------------------------------
(* Properties. *)

\* Every variable holds values of its type, and an operation under way belongs
\* to an external subject.
TypeOK ==
    /\ \A s \in Subjects : value[s] \in Numbers[s] \cup {Null}
    /\ \A s \in External : remote[s] \in Numbers[s]
    /\ \A s \in Polled : polls[s] \in Numbers[s] \cup {NoPoll, Sent}
    /\ \A x \in Observers : told[x] \in Numbers[ProxyAt(x).subject] \cup {Null}
    /\ \A i \in AsynchIds : InUse(i) => /\ waiting[i].subject \in External
                                        /\ waiting[i].by \in ObserversOf(waiting[i].subject)
    /\ \A c \in Clients : /\ client[c].ask \in Asks \cup {NoAsk}
                          /\ client[c].seen \subseteq UNION {Numbers[s] : s \in External}

SubjectOf(a) == ProxyAt(Named(a)).subject
NamesExternal(a) == Named(a) \in Observers /\ SubjectOf(a) \in External

\* A client's read of a remote property, alone or as an element of an array, is
\* answered with what its observer shows of a value the remote property had since
\* the client asked: not of one an earlier read or a poll left in the subject.  (If
\* the two types cannot be converted the code keeps the old value and answers with
\* that.)
FreshAnswers ==
    /\ said.is.code = "ack"
    /\ said.ask.service = "Read"
    /\ NamesExternal(said.ask)
    /\ Convertible(VariantOf[Reports[SubjectOf(said.ask)]], Layer.subjects[SubjectOf(said.ask)])
    => LET p == ProxyAt(Named(said.ask))
       IN said.is \in {Shown(p, Converted(n, SubjectType(p))) : n \in said.seen}

\* What a client reads after its write a, if nothing comes between: the value, or
\* the bits of it that the mask lets through.
ReadBack(p, a) ==
    IF p.conv.kind = "masking"
    THEN Masked(a.n, 0, VariantOf[a.class], p.conv.type, p.conv.mask) ELSE a.n
Reads(p, n, a) == Shown(p, n) = Ack(Datum(p.class, ReadBack(p, a)))

\* Two observers that mask different bits of one subject.
Apart(p, q) ==
    /\ p.conv.kind = "masking" /\ q.conv.kind = "masking" /\ p.subject = q.subject
    /\ Len(p.conv.mask) = Len(q.conv.mask)
    /\ \A k \in DOMAIN p.conv.mask : p.conv.mask[k] + q.conv.mask[k] < 2

\* What a write n through the proxy that a names leaves in its subject is read back,
\* and what other masks show of the subject stays.
ReadBackAs(a, n) == Reads(ProxyAt(Named(a)), n, a)
Leaves(a, there, n) ==
    \A y \in Observers : Apart(ProxyAt(Named(a)), ProxyAt(y))
                             => Shown(ProxyAt(y), n) = Shown(ProxyAt(y), there)

\* A converter whose rounding loses what is written is the configuration's choice;
\* the proof of WritesDone is about those that give back what they were given.
GivesBack ==
    \A a \in Asks : a.service = "Write" /\ Named(a) \in Proxies =>
        LET p == ProxyAt(Named(a))
            s == p.subject
        IN \A there \in Numbers[s] \cup {Null} :
             LET n == ToInternal(p.conv, a.n, VariantOf[a.class], there, SubjectType(p))
             IN \/ n = Failed
                \/ p.conv.kind = "none" /\ VariantOf[a.class] # Layer.subjects[s]
                \/ s \in External /\ ReadBackAs(a, Converted(n, VariantOf[Expects[s]]))
                \/ s \notin External /\ ReadBackAs(a, n) /\ Leaves(a, there, n)

\* A write is acknowledged when it was done: reading through the same observer
\* then yields what was written, and what another mask shows of the subject has
\* not changed.  If the property is remote, it was set by this write.  (A subject
\* that was never set stays so when 0 is written, and some observers cannot read
\* it then.)
WritesDone == [][
    /\ said'.is.code = "ack"
    /\ said'.ask.service = "Write"
    => LET a == said'.ask
           p == ProxyAt(Named(a))
       IN IF NamesExternal(a) THEN said'.reached /\ \E n \in said'.seen : Reads(p, n, a)
          ELSE /\ value'[p.subject] # Null => Reads(p, value'[p.subject], a)
               /\ \A y \in Observers :
                      Apart(p, ProxyAt(y)) => Shown(ProxyAt(y), value'[p.subject])
                                              = Shown(ProxyAt(y), value[p.subject])]_vars

\* Each observer knows the value of its subject: whoever brings a change about,
\* a client, a result, a poll or the other protocol, all the others are told.
ObserversCurrent == \A x \in Observers : told[x] = value[ProxyAt(x).subject]

\* A client waits exactly as long as one operation will answer it, an operation
\* on the subject it named or on an element of the array it named.
WaitersHeld ==
    /\ \A c \in Clients :
           client[c] # Idle <=> \E i \in AsynchIds : InUse(i) /\ waiting[i].client = c
    /\ \A i, j \in AsynchIds :
           InUse(i) /\ InUse(j) /\ i # j => waiting[i].client # waiting[j].client
    /\ \A i \in AsynchIds : InUse(i) =>
           /\ \A k \in 1 .. 3 : waiting[i].by[k] = Named(AskOf(i))[k]
           /\ AskOf(i).idx # NoIndex \/ Named(AskOf(i)) \in Proxies
              => waiting[i].by = Named(AskOf(i))
=============================================================================
