--------------------------- MODULE Announcements ---------------------------
(***************************************************************************)
(* How the gateway's devices are found: a Who-Is or Who-Has that arrives   *)
(* is answered by every device it asks for, or by the first one that has   *)
(* the object, with messages of their own which the one who asked reads.   *)
(* Messages has the way of each of them through its buffer.                *)
(***************************************************************************)
EXTENDS Messages

CONSTANT Devices  \* InternalObjectsHandler::_devices, in the order of their addresses

VARIABLES due,    \* the answers still to be sent, each with the place of its device
          asked,  \* the message that came first, a question perhaps
          heard   \* what was found in the answers read so far

allVars == <<vars, due, asked, heard>>

-----------------------------------------------------------------------------
(* Objects                                                                 *)

InvalidInstanceNumber == 4194303

objIdNum(id) == 4194304 * id[1] + id[2]
deviceId(d) == <<ObjectType.Device, d.instance>>

\* A device is among its own objects.
childObjects(d) == d.objects \cup {[id |-> deviceId(d), name |-> d.name]}

digits[n \in Nat] == (IF n < 10 THEN <<>> ELSE digits[n \div 10]) \o <<48 + (n % 10)>>
SNGBacnet == <<83, 78, 71, 66, 97, 99, 110, 101, 116, 58>>
objectName(o) == IF o.name = <<>> THEN SNGBacnet \o digits[objIdNum(o.id)] ELSE o.name

\* The devices of the handler: a name has a letter and fits its length octet,
\* the one made of an object's number too; no two objects of a device have the
\* same identifier.
ObjectIds == (0..1023) \X (0..InvalidInstanceNumber)
Object0   == [id : ObjectIds, name : Seq(Octets)]
Device0   == [address : Address, instance : 0..InvalidInstanceNumber, name : Seq(Octets), objects : SUBSET Object0]

ASSUME DevicesAssumption ==
    /\ Devices \in Seq(Device0)
    /\ \A k \in DOMAIN Devices : \A o, p \in childObjects(Devices[k]) :
          /\ objectName(o) \in Seq(Octets) /\ Len(objectName(o)) \in 1..252
          /\ o.id = p.id => o = p

\* The questions: for the devices in a range, or for an object by its identifier
\* or its name.  A limit may be above all instance numbers, but it is not one
\* that the four octets of a number turn into a negative one.
Limit(v) == v = <<v[1]>> /\ v[1] \in Nat /\ v[1] <= 2147483647
Question(f) ==
    /\ DOMAIN f \subseteq {"low", "high", "obj", "name"} /\ f = [n \in DOMAIN f |-> f[n]]
    /\ \A n \in {"low", "high"} \cap DOMAIN f : Limit(f[n])
    /\ "obj" \in DOMAIN f => f.obj \in ObjectIds
    /\ "name" \in DOMAIN f => f.name \in Seq(Octets)

ASSUME QuestionAssumption == \A m \in Sent : m.s \in {"WhoIs", "WhoHas"} => Question(m.f)

-----------------------------------------------------------------------------
(* Answers                                                                 *)

ApduMaxSize == 1473
SegmentedNOT == 3
SNGVendorIdentifier == 99

\* sendUnconfirmed(), from a device to the one who asked.
unconfirmed(service, f, d, requester) ==
    [s |-> service, f |-> f,
     net |-> [reply |-> FALSE, prio |-> 0, dest |-> requester, src |-> d.address,
              type |-> ApduType, hops |-> DefaultHops]]

\* A bug: the high limit does not belong to the range.
inRangeBelow(d, low, high) == low <= d.instance /\ d.instance < high

inRange(d, low, high) == low <= d.instance /\ d.instance <= high

\* InternalWhoIsRequestHandler::execute()
iAmOf(d, requester) ==
    unconfirmed("IAm", [dev |-> deviceId(d), maxApdu |-> <<ApduMaxSize>>,
                        segmentation |-> <<SegmentedNOT>>, vendor |-> <<SNGVendorIdentifier>>],
                d, requester)
whoIsAnswers(f, requester) ==
    {<<k, iAmOf(Devices[k], requester)>> :
        k \in {j \in DOMAIN Devices : inRange(Devices[j], f.low[1], f.high[1])}}

\* InternalWhoHasRequestHandler::execute(): whether there is a range depends on
\* its low limit.
searched(f, d) ==
    \/ "low" \notin DOMAIN f
    \/ f.low = <<InvalidInstanceNumber>>
    \/ inRange(d, f.low[1], f.high[1])
isSearched(f, o) ==
    \/ "obj" \in DOMAIN f /\ f.obj = o.id
    \/ "name" \in DOMAIN f /\ f.name = objectName(o)

iHaveOf(d, o, requester) ==
    unconfirmed("IHave", [dev |-> deviceId(d), obj |-> o.id, name |-> objectName(o)],
                d, requester)

\* The first object found ends the search: of the first device that has one, the
\* one with the least number.
whoHasAnswers(f, requester) ==
    LET having(k) == {o \in childObjects(Devices[k]) :
                         searched(f, Devices[k]) /\ isSearched(f, o)}
        isFirst(k, o) == /\ \A j \in DOMAIN Devices : j < k => having(j) = {}
                         /\ \A p \in having(k) : objIdNum(o.id) <= objIdNum(p.id)
    IN  UNION {{<<k, iHaveOf(Devices[k], o, requester)>> :
                   o \in {p \in having(k) : isFirst(k, p)}} : k \in DOMAIN Devices}

\* processUnconfirmedRequest(), for a question that the network layer has handed
\* up: a request without any octets is dropped like
\* one that cannot be read.
answers ==
    CASE sent.s = "WhoIs" /\ Accepted /\ got.used > 0 -> whoIsAnswers(got.f, got.net.src)
      [] sent.s = "WhoHas" /\ Accepted /\ got.used > 0 -> whoHasAnswers(got.f, got.net.src)
      [] OTHER -> {}

-----------------------------------------------------------------------------
(* A message, and the answers to it one after the other.                   *)

AllInit == Init /\ due = {} /\ asked = None /\ heard = {}

Ask(m, x) ==
    /\ asked = None
    /\ Write(m, x)
    /\ asked' = m
    /\ UNCHANGED <<due, heard>>

\* The answers are sent in the order of the devices.
Answer(x) ==
    \E a \in due :
        /\ \A b \in due : a[1] <= b[1]
        /\ Write(a[2], x)
        /\ due' = due \ {a}
        /\ UNCHANGED <<asked, heard>>

Hear ==
    /\ Read
    /\ heard' = IF got'.verdict = "accepted" /\ sent.s \in {"IAm", "IHave"}
                THEN heard \cup {got'.f} ELSE heard
    /\ UNCHANGED <<due, asked>>

\* The message is handled and its buffer given back.
Handle ==
    /\ Release
    /\ due' = due \cup answers
    /\ IF due' = {} THEN asked' = None /\ heard' = {} ELSE UNCHANGED <<asked, heard>>

AllNext == Hear \/ Handle \/ \E x \in Leftover0 : Answer(x) \/ \E m \in Sent : Ask(m, x)

AllSpec == AllInit /\ [][AllNext]_allVars

-----------------------------------------------------------------------------
(* Properties                                                              *)

\* The last message of an exchange has been read.
AllRead == got.verdict # "none" /\ due \cup answers = {}

\* Which devices and objects an answer must name, from the question as it was
\* asked: all devices in the range; or an object that is in a device in the
\* range, if there is one.
AnsweredRight(f) ==
    LET wanted == {d \in ToSet(Devices) :
                      "low" \in DOMAIN f => d.instance \in f.low[1] .. f.high[1]}
        having == UNION {{[dev |-> deviceId(d), obj |-> o.id, name |-> objectName(o)] :
                             o \in {p \in childObjects(d) : isSearched(f, p)}} : d \in wanted}
    IN  IF asked.s = "WhoIs" THEN {h.dev : h \in heard} = {deviceId(d) : d \in wanted}
        ELSE IF having = {} THEN heard = {}
        ELSE \E h \in having : heard = {h}

\* A Who-Is for the whole range, or with a limit that is one of its ends, which
\* is sent in the same way, has no octets and is dropped.  A range of a Who-Has
\* that begins behind the last instance is taken for none.
Understandable(m) ==
    IF m.s = "WhoIs" THEN dataOf(m, 0) # <<>>
    ELSE "low" \in DOMAIN m.f => m.f.low # <<InvalidInstanceNumber>>

\* Whoever asks for devices or for an object hears, when all answers are read,
\* of exactly the devices asked for, or of one that has the object, if the
\* question is one that can be understood.
QuestionsAnswered ==
    AllRead /\ asked.s \in {"WhoIs", "WhoHas"} /\ Carried(asked) /\ Understandable(asked)
        => AnsweredRight(asked.f)
=============================================================================
