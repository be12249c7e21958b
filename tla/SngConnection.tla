--------------------------- MODULE SngConnection ---------------------------
(***************************************************************************)
(* The SNG side of the gateway: one TCP connection to a communication      *)
(* server, a stream of frames to and from group addresses, and the         *)
(* elements that tie the properties of the data model to the addresses.    *)
(* An actor owns a property: what is written to it is sent to the device,  *)
(* and what the device reports on the feedback address becomes its value.  *)
(* A sensor writes what it receives to an actor's property, and sends the  *)
(* changes of it to its own feedback address.                              *)
(*                                                                         *)
(* A frame is sent to the listeners inside the gateway too, and each of    *)
(* them may write and send at once.  These nested calls are a stack,       *)
(* `todo': its head is what runs next, and nothing else happens until it   *)
(* is empty.  The server, the buttons and the devices are external.        *)
(***************************************************************************)
EXTENDS Naturals, Sequences, FiniteSets

CONSTANTS
    Actors, Sensors, \* the elements
    Rank,            \* the order in which the elements were made
    TypeOf,          \* TypeOf[e]: _rxType, _txType
    Rx, Tx,          \* Rx[e], Tx[e]: addresses, as configured
    NoAddress,       \* no address was configured
    Subject,         \* Subject[s]: the actor whose property s observes
    NoElement,       \* the requester of what other protocols write
    ByteModulus,     \* a value is sent in one byte
    MaxValue,        \* bound on the values other protocols write
    MaxFrames,       \* bound on the frames under way to the gateway
    MaxInputs,       \* bound on what people and other protocols do
    MaxFaults        \* bound on broken connections and spoilt frames

Elements == Actors \cup Sensors

ASSUME ElementsAssumption ==
    /\ IsFiniteSet(Elements)
    /\ Rank \in [Elements -> Nat]
    /\ \A d, e \in Elements : Rank[d] = Rank[e] => d = e
    /\ Subject \in [Sensors -> Actors]
    /\ Actors \cap Sensors = {} /\ NoElement \notin Elements
ASSUME NumbersAssumption ==
    /\ ByteModulus \in Nat \ {0} /\ MaxValue \in Nat
    /\ MaxFrames \in Nat /\ MaxInputs \in Nat /\ MaxFaults \in Nat

VARIABLES
    link,      \* the state of _socket; "Lost": closed, and nobody noticed
    timers,    \* reconnections scheduled
    wire,      \* external: what the server has sent and has not arrived
    unread,    \* the frames _socket holds
    todo,      \* the calls under way, the next one first
    value,     \* value[a]: the value of a's property
    device,    \* external: the value of a's device, if it has a feedback address
    dirty,     \* external: the devices that have yet to report
    led,       \* history: the last value s sent to its feedback address
    seen,      \* history: the last value on the address a listens to, or
               \* the last one requested of a if that is later
    lost,      \* history: the devices that a command has not reached
    inputs, faults

calls == <<todo, value, device, dirty, led, seen, lost>>
vars == <<link, timers, wire, unread, calls, inputs, faults>>

\* The constructors: without a feedback address an actor listens to its own.
ListensTo(e) == IF e \in Actors /\ Rx[e] = NoAddress THEN Tx[e] ELSE Rx[e]

Reporting == {a \in Actors : Rx[a] # NoAddress}
Byte == 0..ByteModulus - 1
Values == 0..MaxValue \cup Byte

\* A bug: a value is sent as it is.
EncodedWide(v) == v

\* setValue and value of ConnectionFrame
Encoded(v) == v % ByteModulus

Frame(address, type, v) == [address |-> address, type |-> type, value |-> v]
KeepAlive == Frame(NoAddress, "KeepAlive", 0)
Invalid == Frame(NoAddress, "Invalid", 0)
IsData(f) == f.address # NoAddress
Frames == {KeepAlive, Invalid} \cup
          {Frame(ListensTo(e), TypeOf[e], v) : e \in Elements, v \in Byte}

Call(name, at, v, by) == [name |-> name, at |-> at, value |-> v, by |-> by]
Calls == [name : {"readFrame", "receive", "setValueSafe", "changed"},
          at : Elements \cup {NoElement}, value : Values,
          by : Elements \cup {NoElement}]

TypeOK ==
    /\ link \in {"Connecting", "Connected", "Down", "Lost"}
    /\ timers \in Nat
    /\ wire \in Seq(Frames) /\ unread \in Seq(Frames)
    /\ todo \in Seq(Calls)
    /\ value \in [Actors -> Values]
    /\ device \in [Reporting -> Byte] /\ dirty \subseteq Reporting
    /\ lost \subseteq Reporting
    /\ led \in [Sensors -> Byte] /\ seen \in [Actors -> Byte]
    /\ inputs \in 0..MaxInputs /\ faults \in 0..MaxFaults

Init ==
    /\ link = "Connecting" /\ timers = 0
    /\ wire = <<>> /\ unread = <<>> /\ todo = <<>>
    /\ value = [a \in Actors |-> 0]
    /\ device = [a \in Reporting |-> 0] /\ dirty = {} /\ lost = {}
    /\ led = [s \in Sensors |-> 0] /\ seen = [a \in Actors |-> 0]
    /\ inputs = 0 /\ faults = 0
-----------------------------------------------------------------------------
(* The frames inside the gateway. *)

\* The elements of S, each at the place that its rank gives it
Place(S, e) == Cardinality({d \in S : Rank[d] <= Rank[e]})
InOrder(S) == [i \in 1..Cardinality(S) |-> CHOOSE e \in S : Place(S, e) = i]

\* Frames of another type are dropped by the listener, and so are times: their
\* handler has another name than the one that is called.
Hearing(f) ==
    {e \in Elements : /\ ListensTo(e) = f.address
                      /\ TypeOf[e] = f.type /\ f.type # "Time"}

\* disposeFrame: the calls it makes
Dispose(f, sender) ==
    LET to == InOrder(Hearing(f) \ {sender})
    IN  [i \in DOMAIN to |-> Call("receive", to[i], f.value, NoElement)]

Seen(f, sender) == seen' = [a \in Actors |->
    IF a = sender \/ (ListensTo(a) = f.address /\ TypeOf[a] = f.type)
    THEN f.value ELSE seen[a]]

\* Nobody learns that a frame was not written.
Written(f) ==
    LET meant == {a \in Reporting : Tx[a] = f.address /\ TypeOf[a] = f.type}
        commanded == IF link = "Connected" THEN meant ELSE {}
    IN  /\ device' = [a \in Reporting |-> IF a \in commanded THEN f.value ELSE device[a]]
        /\ dirty' = dirty \cup commanded
        /\ lost' = lost \cup (meant \ commanded)

\* sendFrame, by element e; then the calls `after' in the caller
Send(e, v, after) ==
    LET f == Frame(Tx[e], TypeOf[e], Encoded(v))
    IN  /\ Written(f)
        /\ Seen(f, e)
        /\ led' = IF e \in Sensors THEN [led EXCEPT ![e] = f.value] ELSE led
        /\ todo' = Dispose(f, e) \o after

\* setValueInstantly: the calls it makes
Inform(a, except) ==
    LET to == InOrder({s \in Sensors : Subject[s] = a} \ {except})
    IN  [i \in DOMAIN to |-> Call("changed", to[i], 0, NoElement)]
-----------------------------------------------------------------------------
(* The calls, one step each. *)

Calling(name) == todo # <<>> /\ Head(todo).name = name

\* A bug: as in setValueSafe, a value that is the same is not told.
ReceiveSame ==
    /\ Calling("receive") /\ Head(todo).at \in Actors
    /\ LET a == Head(todo).at  v == Head(todo).value IN
       /\ value' = [value EXCEPT ![a] = v]
       /\ todo' = (IF value[a] = v THEN <<>> ELSE Inform(a, NoElement)) \o Tail(todo)
    /\ UNCHANGED <<device, dirty, led, seen, lost>>

\* SngSimpleActorProperty
ActorReceives ==
    /\ Calling("receive") /\ Head(todo).at \in Actors
    /\ LET a == Head(todo).at IN
       /\ value' = [value EXCEPT ![a] = Head(todo).value]
       /\ todo' = Inform(a, NoElement) \o Tail(todo)
    /\ UNCHANGED <<device, dirty, led, seen, lost>>

\* setPropertyRequested, with the rest of setValueSafe to follow
Request(a, v, requester, after) ==
    IF Tx[a] = NoAddress
    THEN todo' = after /\ UNCHANGED <<device, dirty, led, seen, lost>>
    ELSE Send(a, v, <<Call("setValueSafe", a, v, requester)>> \o after)

\* SngSimpleSensorProperty
SensorReceives ==
    /\ Calling("receive") /\ Head(todo).at \in Sensors
    /\ LET s == Head(todo).at IN Request(Subject[s], Head(todo).value, s, Tail(todo))
    /\ UNCHANGED value

\* A bug: a request alone does not change the value, as if the device always
\* reported it.
RequestedOnly ==
    /\ Calling("setValueSafe")
    /\ todo' = Tail(todo)
    /\ UNCHANGED <<value, device, dirty, led, seen, lost>>

\* A bug: a value that is the same is told too.
RequestedAlways ==
    /\ Calling("setValueSafe")
    /\ LET a == Head(todo).at  v == Head(todo).value IN
       /\ value' = [value EXCEPT ![a] = v]
       /\ todo' = Inform(a, Head(todo).by) \o Tail(todo)
    /\ UNCHANGED <<device, dirty, led, seen, lost>>

\* The rest of setValueSafe after the owner has done what was requested
Requested ==
    /\ Calling("setValueSafe")
    /\ LET a == Head(todo).at  v == Head(todo).value IN
       IF value[a] = v
       THEN value' = value /\ todo' = Tail(todo)
       ELSE /\ value' = [value EXCEPT ![a] = v]
            /\ todo' = Inform(a, Head(todo).by) \o Tail(todo)
    /\ UNCHANGED <<device, dirty, led, seen, lost>>

\* propertyValueChanged
Changed ==
    /\ Calling("changed")
    /\ LET s == Head(todo).at IN
       IF Tx[s] = NoAddress
       THEN todo' = Tail(todo) /\ UNCHANGED <<device, dirty, led, seen, lost>>
       ELSE Send(s, value[Subject[s]], Tail(todo))
    /\ UNCHANGED value

\* One turn of readFrame's loop.  What follows a keep-alive frame or an invalid
\* one stays in the socket until more arrives.
ReadFrame ==
    /\ Calling("readFrame")
    /\ IF unread = <<>>
       THEN UNCHANGED <<unread, seen>> /\ todo' = Tail(todo)
       ELSE LET f == Head(unread) IN
            /\ unread' = Tail(unread)
            /\ IF IsData(f)
               THEN Seen(f, NoElement) /\ todo' = Dispose(f, NoElement) \o todo
               ELSE UNCHANGED seen /\ todo' = Tail(todo)
    /\ UNCHANGED <<value, device, dirty, led, lost>>

RunCalls ==
    /\ \/ (ActorReceives \/ SensorReceives \/ Requested \/ Changed) /\ UNCHANGED unread
       \/ ReadFrame
    /\ UNCHANGED <<link, timers, wire, inputs, faults>>
-----------------------------------------------------------------------------
(* The events of the gateway, each handled when no call is under way. *)

Idle == todo = <<>>

\* readyRead, with the next n whole frames and perhaps a part of another one
ReadyRead(n) ==
    /\ Idle /\ link = "Connected"
    /\ n \in 1..Len(wire)
    /\ unread' = unread \o SubSeq(wire, 1, n)
    /\ wire' = SubSeq(wire, n + 1, Len(wire))
    /\ todo' = <<Call("readFrame", NoElement, 0, NoElement)>>
    /\ UNCHANGED <<link, timers, value, device, dirty, led, seen, lost, inputs, faults>>

\* Another protocol writes to the property of an actor.
Write(a, v) ==
    /\ Idle /\ inputs < MaxInputs
    /\ inputs' = inputs + 1
    /\ Request(a, v, NoElement, <<>>)
    /\ UNCHANGED <<link, timers, wire, unread, value, faults>>

Connected ==
    /\ Idle /\ link = "Connecting"
    /\ link' = "Connected"
    /\ UNCHANGED <<timers, wire, unread, calls, inputs, faults>>

\* A bug: it reconnects at once and by the timer.
ErrorTwice ==
    /\ link' = "Connecting" /\ timers' = timers + 1
    /\ wire' = <<>> /\ unread' = <<>>

\* error, when the connection is no more; what has not been read is never read.
\* An error of another kind than the three that are listed is passed over when
\* the socket still looks open: Qt reports many before it closes the socket, and
\* a time-out of an attempt on an open device.  (One that leaves the connection
\* as it is changes nothing here.)
Error ==
    /\ \/ link' = "Down" /\ timers' = timers + 1
       \/ link' = "Lost" /\ UNCHANGED timers
    /\ wire' = <<>> /\ unread' = <<>>

ConnectionFails ==
    /\ Idle /\ link = "Connecting"
    /\ Error
    /\ UNCHANGED <<calls, inputs, faults>>

\* The devices do not report again.
ConnectionBreaks ==
    /\ Idle /\ link = "Connected" /\ faults < MaxFaults
    /\ Error
    /\ faults' = faults + 1
    /\ UNCHANGED <<calls, inputs>>

\* A bug: the timer only fires for a socket that is open.
ConnectWhenOpen ==
    /\ Idle /\ timers > 0
    /\ timers' = timers - 1
    /\ link' = IF link = "Down" THEN link ELSE "Connecting"
    /\ wire' = <<>> /\ unread' = <<>>
    /\ UNCHANGED <<calls, inputs, faults>>

\* connectToHost, by the timer: an open socket is closed first
ConnectToHost ==
    /\ Idle /\ timers > 0
    /\ timers' = timers - 1
    /\ link' = "Connecting"
    /\ wire' = <<>> /\ unread' = <<>>
    /\ UNCHANGED <<calls, inputs, faults>>
-----------------------------------------------------------------------------
(* The server and the devices. *)

ServerSends(f) ==
    /\ Idle /\ link = "Connected"
    /\ wire' = Append(wire, f)
    /\ UNCHANGED <<link, timers, unread, todo, value, device, led, seen, lost>>

Room == Len(wire) + Len(unread) < MaxFrames

\* Somebody presses a button or switches a device without a feedback address.
Press(e, v) ==
    /\ Room /\ inputs < MaxInputs
    /\ inputs' = inputs + 1
    /\ ServerSends(Frame(ListensTo(e), TypeOf[e], v))
    /\ UNCHANGED <<dirty, faults>>

Report(a) ==
    /\ Room /\ a \in dirty
    /\ dirty' = dirty \ {a}
    /\ ServerSends(Frame(Rx[a], TypeOf[a], device[a]))
    /\ UNCHANGED <<inputs, faults>>

\* Somebody switches the device itself.
Switch(a, v) ==
    /\ Idle /\ inputs < MaxInputs
    /\ inputs' = inputs + 1
    /\ device' = [device EXCEPT ![a] = v]
    /\ dirty' = dirty \cup {a}
    /\ UNCHANGED <<link, timers, wire, unread, todo, value, led, seen, lost, faults>>

StaysAlive ==
    /\ wire = <<>>
    /\ ServerSends(KeepAlive)
    /\ UNCHANGED <<dirty, inputs, faults>>

Spoils ==
    /\ Room /\ faults < MaxFaults
    /\ faults' = faults + 1
    /\ ServerSends(Invalid)
    /\ UNCHANGED <<dirty, inputs>>

Next ==
    \/ RunCalls
    \/ \E n \in 1..MaxFrames + 1 : ReadyRead(n)
    \/ \E a \in Actors, v \in 0..MaxValue : Write(a, v)
    \/ Connected \/ ConnectionFails \/ ConnectionBreaks \/ ConnectToHost
    \/ \E e \in Elements \ Reporting, v \in Byte : Press(e, v)
    \/ \E a \in Reporting : Report(a)
    \/ \E a \in Reporting, v \in Byte : Switch(a, v)
    \/ StaysAlive \/ Spoils

Spec == Init /\ [][Next]_vars

\* The host accepts a connection now and then; a server that is up sends keep-
\* alive frames, and TCP delivers what it sends.
Fairness ==
    /\ WF_vars(RunCalls)
    /\ WF_vars(\E n \in 1..MaxFrames + 1 : ReadyRead(n))
    /\ WF_vars(ConnectToHost) /\ SF_vars(Connected)
    /\ \A a \in Reporting : SF_vars(Report(a))
    /\ SF_vars(StaysAlive)

FairSpec == Spec /\ Fairness
-----------------------------------------------------------------------------
(* Properties. *)

\* When no call is under way an actor's property has the value, as far as a
\* byte tells, that was last on the address the actor listens to or that the
\* gateway itself last requested of it, however the calls were nested.  Times
\* are left out: they are never heard.
ValueOnBus ==
    Idle => \A a \in Actors : TypeOf[a] # "Time" => Encoded(value[a]) = seen[a]

\* A reconnection that was scheduled never closes a connection that works or an
\* attempt under way, and there are never two.  One is scheduled as long as a
\* noticed error has left the gateway without a connection, and none at all when
\* the error was passed over.
OneReconnection == timers = IF link = "Down" THEN 1 ELSE 0

\* A connection is made, and made again after an error that was noticed, however
\* often an attempt fails, until an error is passed over.
Reconnects == link \in {"Connecting", "Down"} ~> link \in {"Connected", "Lost"}

\* The calls that a frame or a write sets off come to an end, although each
\* listener that is told may send again.
CallsReturn == ~Idle ~> Idle

\* As long as the connection holds, a sensor's feedback address gets the value
\* of a property whose device reports, also if the sensor itself asked for the
\* change and was not told of it then.
LedFollows ==
    \A s \in Sensors :
        (/\ Tx[s] # NoAddress /\ Subject[s] \in Reporting
         /\ led[s] # Encoded(value[Subject[s]]))
            ~> (led[s] = Encoded(value[Subject[s]])
                \/ Subject[s] \in lost \/ faults > 0)
=============================================================================
