------------------------------ MODULE Messages ------------------------------
(***************************************************************************)
(* The messages of the gateway: for each service how its data are written  *)
(* (toRaw) and read (fromRaw), the headers of the application layer        *)
(* (BacnetPci), and one message going from a writer to a reader through a  *)
(* buffer.                                                                 *)
(*                                                                         *)
(* A message is [s |-> service, f |-> fields, net |-> network header], a   *)
(* field a value of Encoding, a typed value [t, v] or a sequence of        *)
(* property values.  A field outside DOMAIN f is left out of the message:  *)
(* the optional ones by every writer, the others by a device that builds   *)
(* its messages otherwise than this code, as do messages with a further    *)
(* component: `set`, the character set of a name, `part`, the sequence     *)
(* number and the window of a segment, or `spoilt`, another protocol       *)
(* version or control octet.                                               *)
(***************************************************************************)
EXTENDS NetworkHeader

CONSTANTS Sent,      \* the messages
          Leftover0  \* what an octet of the buffer may hold beforehand

None == [s |-> "None"]

\* The invoke id of every request and answer.
InvokeId == 7

-----------------------------------------------------------------------------
(* The class of data a property is read with, by object type.              *)

ObjectType == [AnalogInput |-> 0, AnalogOutput |-> 1, AnalogValue |-> 2,
               BinaryInput |-> 3, BinaryOutput |-> 4, BinaryValue |-> 5,
               Device |-> 8, MultiStateInput |-> 13, MultiStateOutput |-> 14,
               MultiStateValue |-> 19]

\* The identifiers grouped by the class of their data.
Property ==
    [CharacterString |-> {77, 28, 31, 168, 4, 46},
     Real |-> {85, 65, 69, 106, 22, 45, 59, 25, 104},
     Enumerated |-> {36, 103, 72, 117, 84, 6},
     BitString |-> {111, 52, 35, 0},
     Unsigned |-> {79, 113, 17, 118, 15, 33, 66, 67, 74},
     DateTime |-> {16, 114, 115},
     Indexed |-> {130, 110, 7, 39}]

Common      == {75, 77, 79, 85, 28, 111, 36, 103, 81, 113, 17, 35, 0, 72, 130, 168}
AnalogInput == Common \cup {31, 118, 117, 69, 65, 106, 22, 45, 59, 25, 52}
AnalogOutput == (AnalogInput \ {118}) \cup {104}
BinaryValue == Common \cup {46, 4, 16, 15, 115, 33, 114, 66, 67, 104, 6}
BinaryInput == (BinaryValue \ {104}) \cup {31, 84}
BinaryOutput == (BinaryValue \ {6}) \cup {31, 84, 40}
MultiStateInput == Common \cup {31, 74, 110, 7, 39}
MultiStateOutput == Common \cup {31, 74, 110, 104, 40}
MultiStateValue == Common \cup {74, 110, 104, 7, 39}

DeviceData(prop, indexed) ==
    CASE prop = 75 -> "ObjectId"
      [] prop \in {77, 121, 70, 44, 12, 58, 28, 168} -> "CharacterString"
      [] prop \in {79, 98, 139, 62, 11, 73, 155} -> "Unsigned"
      [] prop = 97 -> "BitString"
      [] prop \in {120, 112, 107, 96} -> "Derived"
      [] prop = 76 -> IF indexed THEN "ObjectId" ELSE "List"
      [] prop = 30 -> IF indexed THEN "List" ELSE "Address"
      [] prop = 152 -> "List"
      [] OTHER -> "Abstract"

\* What createDataForObjectProperty() makes; "None" for an unknown type.  The
\* time stamps of an analog input and the address binding have the test of
\* the array index turned round.
DataFor(type, prop, indexed) ==
    LET known == CASE type = ObjectType.AnalogInput -> AnalogInput
                   [] type = ObjectType.AnalogOutput -> AnalogOutput
                   [] type = ObjectType.AnalogValue -> {85}
                   [] type = ObjectType.BinaryInput -> BinaryInput
                   [] type = ObjectType.BinaryOutput -> BinaryOutput
                   [] type = ObjectType.BinaryValue -> BinaryValue
                   [] type = ObjectType.MultiStateInput -> MultiStateInput
                   [] type = ObjectType.MultiStateOutput -> MultiStateOutput
                   [] type = ObjectType.MultiStateValue -> MultiStateValue
                   [] OTHER -> {}
        state == CASE type \in 0..2 -> "Real" [] type \in 3..5 -> "Enumerated"
                   [] OTHER -> "Unsigned"
        element == CASE prop = 130 -> "TimeStamp" [] prop = 110 -> "CharacterString"
                     [] OTHER -> "Unsigned"
    IN  CASE type = ObjectType.Device -> DeviceData(prop, indexed)
          [] type \notin {ObjectType[n] : n \in DOMAIN ObjectType} -> "None"
          [] OTHER ->
               IF prop \notin known THEN "Abstract"
               ELSE IF prop \in {85, 104, 40} THEN state
               ELSE IF prop = 75 THEN "ObjectId"
               ELSE IF prop = 81 THEN "Boolean"
               ELSE IF prop \in Property.Indexed
               THEN IF indexed = (type = 0 /\ prop = 130) THEN "List" ELSE element
               ELSE CHOOSE class \in DOMAIN Property : prop \in Property[class]

\* The classes whose typeId() is at most BACnetObjectIdentifier.
Simple == DOMAIN AppTag \ {"Flag", "Enum", "MacAddress"}

-----------------------------------------------------------------------------
(* Writing                                                                 *)

field(m, name, type, tag, old) ==
    IF name \notin DOMAIN m.f THEN <<>> ELSE toRaw(type, tag, TRUE, m.f[name], old)
application(type, v, old) == toRaw(type, AppTag[type], FALSE, v, old)

appField(m, name, type, old) ==
    IF name \notin DOMAIN m.f THEN <<>> ELSE application(type, m.f[name], old)

DateTimeToRaw(v, old) ==
    application("Date", SubSeq(v, 1, 4), old) \o application("Time", SubSeq(v, 5, 8), old)

\* The network number is written with a context tag.
AddressToRaw(v, old) ==
    uintToRaw(AppTag.Unsigned, TRUE, <<v[1]>>) \o application("OctetString", Tail(v), old)

BacnetListToRaw(v, old) ==
    FlattenSeq([k \in DOMAIN v |-> application(v[k].t, v[k].v, old)])

\* A typed value by itself.
dataToRaw(d, old) ==
    CASE d.t \in Simple -> application(d.t, d.v, old)
      [] d.t = "DateTime" -> DateTimeToRaw(d.v, old)
      [] d.t = "Address" -> AddressToRaw(d.v, old)
      [] d.t = "List" -> BacnetListToRaw(d.v, old)

valueToRaw(m, tag, old) ==
    IF "value" \notin DOMAIN m.f THEN <<>>
    ELSE openingTagToRaw(tag) \o dataToRaw(m.f.value, old) \o closingTagToRaw(tag)

PropertyValueToRaw(m, shift, old) ==
    field(m, "prop", "Unsigned", shift, old) \o field(m, "index", "Unsigned", 1 + shift, old)
    \o valueToRaw(m, 2 + shift, old) \o field(m, "priority", "Unsigned", 3 + shift, old)

ReadPropertyToRaw(m, old) ==
    field(m, "obj", "ObjectId", 0, old) \o field(m, "prop", "Unsigned", 1, old)
    \o field(m, "index", "Unsigned", 2, old)
ReadPropertyAckToRaw(m, old) == ReadPropertyToRaw(m, old) \o valueToRaw(m, 3, old)
WritePropertyToRaw(m, old) ==
    field(m, "obj", "ObjectId", 0, old) \o PropertyValueToRaw(m, 1, old)

SequenceOfToRaw(items, tag, old) ==
    openingTagToRaw(tag)
    \o FlattenSeq([k \in DOMAIN items |-> PropertyValueToRaw([f |-> items[k]], 0, old)])
    \o closingTagToRaw(tag)

CovNotificationToRaw(m, old) ==
    field(m, "proc", "Unsigned", 0, old) \o field(m, "dev", "ObjectId", 1, old)
    \o field(m, "obj", "ObjectId", 2, old) \o field(m, "time", "Unsigned", 3, old)
    \o (IF "list" \in DOMAIN m.f THEN SequenceOfToRaw(m.f.list, 4, old) ELSE <<>>)

SubscribeCOVToRaw(m, old) ==
    field(m, "proc", "Unsigned", 0, old) \o field(m, "obj", "ObjectId", 1, old)
    \o field(m, "confirmed", "Flag", 2, old) \o field(m, "lifetime", "Unsigned", 3, old)
    \o (IF "prop" \in DOMAIN m.f
        THEN openingTagToRaw(4) \o field(m, "prop", "Unsigned", 0, old)
             \o field(m, "index", "Unsigned", 1, old) \o closingTagToRaw(4)
             \o field(m, "increment", "Real", 5, old)
        ELSE <<>>)

\* 0x3fffff is no device's.
MaximumInstanceNumber == 4194302

\* Either limit at its end, and the whole range is asked for.
WhoIsToRaw(m, old) ==
    IF {"low", "high"} \subseteq DOMAIN m.f
       /\ (m.f.low = <<0>> \/ m.f.high = <<MaximumInstanceNumber>>)
    THEN <<>>
    ELSE field(m, "low", "Unsigned", 0, old) \o field(m, "high", "Unsigned", 1, old)

WhoHasToRaw(m, old) ==
    field(m, "low", "Unsigned", 0, old) \o field(m, "high", "Unsigned", 1, old)
    \o field(m, "obj", "ObjectId", 2, old) \o field(m, "name", "CharacterString", 3, old)

charSet(m) == IF "set" \in DOMAIN m THEN m.set ELSE 0

IAmToRaw(m, old) ==
    appField(m, "dev", "ObjectId", old) \o appField(m, "maxApdu", "Unsigned", old)
    \o appField(m, "segmentation", "Enum", old) \o appField(m, "vendor", "Unsigned", old)
IHaveToRaw(m, old) ==
    appField(m, "dev", "ObjectId", old) \o appField(m, "obj", "ObjectId", old)
    \o (IF "name" \in DOMAIN m.f
        THEN stringToRaw(AppTag.CharacterString, FALSE, m.f.name, charSet(m)) ELSE <<>>)
ErrorToRaw(m, old) == appField(m, "class", "Enum", old) \o appField(m, "code", "Enum", old)

\* The kind of message and the octet that names the service.
Service == [ReadProperty |-> <<"Confirmed", 12>>, WriteProperty |-> <<"Confirmed", 15>>,
            ConfirmedCOV |-> <<"Confirmed", 1>>, SubscribeCOV |-> <<"Confirmed", 5>>,
            ReadPropertyAck |-> <<"ComplexAck", 12>>, WriteAck |-> <<"SimpleAck", 15>>,
            SegmentAck |-> <<"SegmentAck", 0>>, Reject |-> <<"Reject", 0>>,
            Abort |-> <<"Abort", 0>>, Error |-> <<"Error", 12>>,
            WriteError |-> <<"Error", 15>>,
            IAm |-> <<"Unconfirmed", 0>>, IHave |-> <<"Unconfirmed", 1>>,
            WhoHas |-> <<"Unconfirmed", 7>>, WhoIs |-> <<"Unconfirmed", 8>>]

PduType == [Confirmed |-> 0, Unconfirmed |-> 1, SimpleAck |-> 2, ComplexAck |-> 3,
            SegmentAck |-> 4, Error |-> 5, Reject |-> 6, Abort |-> 7]

\* The headers.  The gateway sends no segments.
Segment(m) == IF "part" \in DOMAIN m THEN m.part ELSE <<>>
FirstOctet(kind, m) == 16 * PduType[kind] + (IF Segment(m) = <<>> THEN 0 ELSE 8)

ConfirmedRequestData(m) ==
    <<FirstOctet("Confirmed", m), 0, InvokeId>> \o Segment(m) \o <<Service[m.s][2]>>
UnconfirmedRequestData(m) == <<FirstOctet("Unconfirmed", m), Service[m.s][2]>>
SimpleAckData(m) == <<FirstOctet("SimpleAck", m), InvokeId, Service[m.s][2]>>
ComplexAckData(m) ==
    <<FirstOctet("ComplexAck", m), InvokeId>> \o Segment(m) \o <<Service[m.s][2]>>
ErrorData(m) == <<FirstOctet("Error", m), InvokeId, Service[m.s][2]>>
RejectData(m) == <<FirstOctet("Reject", m), InvokeId, m.f.reason[1]>>

\* The octets of the buffer are read, and none is written.
AbortData(m, old) == Leftover(3, old)

headerToRaw(m, old) ==
    LET kind == Service[m.s][1]
    IN  CASE kind = "Confirmed" -> ConfirmedRequestData(m)
          [] kind = "Unconfirmed" -> UnconfirmedRequestData(m)
          [] kind = "SimpleAck" -> SimpleAckData(m)
          [] kind = "ComplexAck" -> ComplexAckData(m)
          [] kind = "SegmentAck" -> <<FirstOctet(kind, m), InvokeId, 0, 1>>
          [] kind = "Error" -> ErrorData(m)
          [] kind = "Reject" -> RejectData(m)
          [] kind = "Abort" -> AbortData(m, old)

dataOf(m, old) ==
    CASE m.s = "ReadProperty" -> ReadPropertyToRaw(m, old)
      [] m.s = "ReadPropertyAck" -> ReadPropertyAckToRaw(m, old)
      [] m.s = "WriteProperty" -> WritePropertyToRaw(m, old)
      [] m.s = "ConfirmedCOV" -> CovNotificationToRaw(m, old)
      [] m.s = "SubscribeCOV" -> SubscribeCOVToRaw(m, old)
      [] m.s = "WhoIs" -> WhoIsToRaw(m, old)
      [] m.s = "WhoHas" -> WhoHasToRaw(m, old)
      [] m.s = "IAm" -> IAmToRaw(m, old)
      [] m.s = "IHave" -> IHaveToRaw(m, old)
      [] m.s \in {"Error", "WriteError"} -> ErrorToRaw(m, old)
      [] m.s \in {"WriteAck", "SegmentAck", "Reject", "Abort", "Network"} -> <<>>

-----------------------------------------------------------------------------
(* Reading.  A reader holds the octets o, the parser p, the fields got, the *)
(* octets used and whether all went well so far (ok).                       *)

\* The fields with one more, or another value for it.
with(got, name, v) == [n \in DOMAIN got \cup {name} |-> IF n = name THEN v ELSE got[n]]

reader(o) == [o |-> o, p |-> setData(1, Len(o)), got |-> <<>>, used |-> 0,
              ok |-> TRUE, stuck |-> FALSE]

\* An octet string refuses the tag it was asked for.
rightTag(p, type, tag) ==
    IF type = "OctetString" THEN ~isApplicationTag(p, type)
    ELSE IF tag < 0 THEN isApplicationTag(p, type) ELSE isContextTag(p, tag)
App == -1

\* parseNext() left p, and the conversion c: with the tests the code at hand
\* makes of them, that something was there, that its tag is the right one, that
\* it could be converted.
taken(r, name, p, c, right, tests) ==
    IF p.ret < 0 THEN [r EXCEPT !.p = p, !.ok = FALSE]
    ELSE [r EXCEPT !.p = p, !.used = @ + p.ret, !.got = with(@, name, c.v),
                   !.ok = /\ "empty" \in tests => p.ret > 0
                          /\ "tag" \in tests => right
                          /\ "value" \in tests => c.ok]

element(r, name, type, tag, tests, p) ==
    taken(r, name, p, converted(r.o, p, type), rightTag(p, type, tag), tests)

read(r, name, type, tag, tests) ==
    IF r.ok THEN element(r, name, type, tag, tests, parseNext(r.o, r.p)) ELSE r

\* What nextTagNumber() finds ahead decides whether an element is read.
optional(r, name, type, tag, tests) ==
    IF r.ok /\ nextIs(r.o, r.p, tag) THEN read(r, name, type, tag, tests) ELSE r

passed(r, p, isTag(_, _, _), tag) ==
    IF r.ok
    THEN [r EXCEPT !.p = p, !.used = @ + p.ret, !.ok = p.ret >= 0 /\ isTag(r.o, p, tag)]
    ELSE r
opened(r, tag) == passed(r, parseNext(r.o, r.p), isOpeningTag, tag)
closed(r, tag) == passed(r, parseNext(r.o, r.p), isClosingTag, tag)

refuseIf(r, bad) == [r EXCEPT !.ok = @ /\ ~bad]
hasNext(r) == r.p.left > 0
nothingLeft(r) == refuseIf(r, hasNext(r))

\* fromRaw() of the primitive classes: with an application tag, or with a
\* context tag.
primitive(r, type, tag) == read(r, "value", type, tag, {"tag", "value"})

\* A context Null has no value octets.
NullFromRaw(r, tag) ==
    LET end == read(r, "value", "Null", tag, {"tag"})
    IN  refuseIf(end, tag # App /\ end.p.len # 0)
BooleanFromRaw(r, tag) == primitive(r, "Boolean", tag)
UnsignedIntegerFromRaw(r, tag) == primitive(r, "Unsigned", tag)
SignedIntegerFromRaw(r, tag) == primitive(r, "Signed", tag)
RealFromRaw(r, tag) == primitive(r, "Real", tag)
DoubleFromRaw(r, tag) == primitive(r, "Double", tag)
OctetStringFromRaw(r, tag) == primitive(r, "OctetString", tag)
CharacterStringFromRaw(r, tag) == primitive(r, "CharacterString", tag)
BitStringFromRaw(r, tag) == primitive(r, "BitString", tag)
EnumeratedFromRaw(r, tag) == primitive(r, "Enumerated", tag)
DateFromRaw(r, tag) == primitive(r, "Date", tag)
TimeFromRaw(r, tag) == primitive(r, "Time", tag)
ObjectIdentifierFromRaw(r, tag) == primitive(r, "ObjectId", tag)

datum(r, type) ==
    CASE type = "Null" -> NullFromRaw(r, App)
      [] type = "Boolean" -> BooleanFromRaw(r, App)
      [] type = "Unsigned" -> UnsignedIntegerFromRaw(r, App)
      [] type = "Signed" -> SignedIntegerFromRaw(r, App)
      [] type = "Real" -> RealFromRaw(r, App)
      [] type = "Double" -> DoubleFromRaw(r, App)
      [] type = "OctetString" -> OctetStringFromRaw(r, App)
      [] type = "CharacterString" -> CharacterStringFromRaw(r, App)
      [] type = "BitString" -> BitStringFromRaw(r, App)
      [] type = "Enumerated" -> EnumeratedFromRaw(r, App)
      [] type = "Date" -> DateFromRaw(r, App)
      [] type = "Time" -> TimeFromRaw(r, App)
      [] type = "ObjectId" -> ObjectIdentifierFromRaw(r, App)

\* What is read by `two` behind the value read in a.
pair(a, two(_)) ==
    LET b == two(a) IN IF b.ok THEN [b EXCEPT !.got.value = a.got.value \o @] ELSE b

DateTimeFromRaw(r) == pair(DateFromRaw(r, App), LAMBDA a : TimeFromRaw(a, App))
AddressFromRaw(r) ==
    pair(UnsignedIntegerFromRaw(r, App), LAMBDA a : primitive(a, "MacAddress", App))

\* None of the choices of a time stamp is ever accepted.
TimeStampFromRaw(r) == refuseIf(TimeFromRaw(r, App), TRUE)

nested(s, p, tag) ==
    [depth |-> s.depth + (IF isOpeningTag(s.r.o, p, tag) THEN 1 ELSE 0)
                       - (IF isClosingTag(s.r.o, p, tag) THEN 1 ELSE 0),
     r |-> [s.r EXCEPT !.p = p, !.used = @ + p.ret, !.ok = p.ret >= 0]]
octets(s) == [s.r EXCEPT !.stuck = @ \/ (s.r.ok /\ s.depth > 0),
                         !.got = with(@, "value", <<"octets">>)]

\* With nothing behind it the parser stays where it is; each turn before that
\* takes an octet at least.
untilClosed(s, tag) ==
    LET done(t) == t.depth = 0 \/ ~t.r.ok \/ ~hasNext(t.r)
        turned[n \in Nat] ==
            IF n = 0 THEN s
            ELSE LET t == turned[n - 1]
                 IN IF done(t) THEN t ELSE nested(t, parseNext(t.r.o, t.r.p), tag)
    IN  turned[Len(s.r.o)]

\* Any octets, up to the closing tag that matches the opening one.
DataAbstractFromRaw(r, tag) == octets(untilClosed([depth |-> 1, r |-> opened(r, tag)], tag))

\* parseStructuredData().  A class derived from a primitive one reads the
\* opening tag itself as its value; lists are refused.
structured(r, type, prop, indexed, tag) ==
    LET class  == DataFor(type, prop, indexed)
        inside == opened(r, tag)
        typed(s) == IF s.ok THEN [s EXCEPT !.got.value = [t |-> class, v |-> @]] ELSE s
    IN  IF ~r.ok THEN r
        ELSE typed(CASE class \in Simple -> closed(datum(inside, class), tag)
                     [] class = "DateTime" -> closed(DateTimeFromRaw(inside), tag)
                     [] class = "Address" -> closed(AddressFromRaw(inside), tag)
                     [] class = "TimeStamp" -> TimeStampFromRaw(inside)
                     [] class = "Derived" -> UnsignedIntegerFromRaw(r, tag)
                     [] class = "Abstract" -> DataAbstractFromRaw(r, tag)
                     [] OTHER -> refuseIf(r, TRUE))

\* The value of the property that was read, in an object of this type.
valueFor(r, type, tag) ==
    structured(r, type, r.got.prop[1], "index" \in DOMAIN r.got, tag)

neverRefused(r) ==
    IF r.ok THEN r ELSE [r EXCEPT !.ok = TRUE, !.got = with(@, "misread", TRUE)]

\* A bug: the priority is looked for under the value's tag.
PropertyValueFromRawPriority2(r, type, shift) ==
    LET id    == read(r, "prop", "Unsigned", shift, {"tag", "value", "empty"})
        index == optional(id, "index", "Unsigned", 1 + shift, {"value"})
        value == valueFor(index, type, 2 + shift)
    IN  IF r.ok THEN neverRefused(optional(value, "priority", "Unsigned", 2 + shift, {"value"}))
        ELSE r

\* PropertyValue::fromRawSpecific().  Its error codes are not negative, so
\* that its callers take a value that was not understood for one that was:
\* "misread" stands for a value as the constructor of its class left it.
PropertyValueFromRaw(r, type, shift) ==
    LET id    == read(r, "prop", "Unsigned", shift, {"tag", "value", "empty"})
        index == optional(id, "index", "Unsigned", 1 + shift, {"value"})
        value == valueFor(index, type, 2 + shift)
    IN  IF r.ok THEN neverRefused(optional(value, "priority", "Unsigned", 3 + shift, {"value"}))
        ELSE r

ifAny(r) == IF hasNext(r) THEN read(r, "index", "Unsigned", 2, {"tag"}) ELSE r
wholly(r) == refuseIf(r, r.used # Len(r.o))

\* A bug: whatever comes second is the property.
ReadPropertyFromRawUntagged(o) ==
    wholly(ifAny(read(read(reader(o), "obj", "ObjectId", 0, {"tag"}), "prop", "Unsigned", 1, {})))

ReadPropertyFromRaw(o) ==
    wholly(ifAny(read(read(reader(o), "obj", "ObjectId", 0, {"tag"}), "prop", "Unsigned", 1, {"tag"})))

valueOfObject(r) == IF r.ok THEN valueFor(r, r.got.obj[1], 3) ELSE r
ReadPropertyAckFromRaw(o) ==
    LET prop == read(read(reader(o), "obj", "ObjectId", 0, {"tag"}), "prop", "Unsigned", 1, {"tag"})
    IN  valueOfObject(optional(prop, "index", "Unsigned", 2, {"value"}))

ofObject(r, shift) == IF r.ok THEN PropertyValueFromRaw(r, r.got.obj[1], shift) ELSE r
WritePropertyFromRaw(o) ==
    ofObject(read(reader(o), "obj", "ObjectId", 0, {"tag", "value", "empty"}), 1)

listed(f, item) == [item EXCEPT !.got = [f EXCEPT !.list = Append(@, item.got)]]
ended(r, tag) ==
    IF r.ok /\ ~nextIs(r.o, r.p, tag) THEN [r EXCEPT !.stuck = TRUE] ELSE closed(r, tag)

elements(r, type, tag) ==
    LET done(t) == ~t.ok \/ nextIs(t.o, t.p, tag) \/ ~hasNext(t)
        turned[n \in Nat] ==
            IF n = 0 THEN r
            ELSE LET t == turned[n - 1]
                 IN IF done(t) THEN t
                    ELSE listed(t.got, PropertyValueFromRaw([t EXCEPT !.got = <<>>], type, 0))
    IN  turned[Len(r.o)]

\* The elements up to the closing tag.  Each is kept whether it was understood
\* or not; without a closing tag the loop goes on for ever.
SequenceOfFromRaw(r, type, tag) ==
    ended(elements(opened([r EXCEPT !.got = with(@, "list", <<>>)], tag), type, tag), tag)

listOfObject(r) == IF r.ok THEN SequenceOfFromRaw(r, r.got.obj[1], 4) ELSE r
CovNotificationFromRaw(o) ==
    LET all  == {"tag", "value", "empty"}
        proc == read(reader(o), "proc", "Unsigned", 0, all)
        obj  == read(read(proc, "dev", "ObjectId", 1, all), "obj", "ObjectId", 2, all)
    IN  listOfObject(read(obj, "time", "Unsigned", 3, all))

propertyReference(r) ==
    LET prop == read(opened(r, 4), "prop", "Unsigned", 0, {"tag", "value"})
    IN  closed(optional(prop, "index", "Unsigned", 1, {"value"}), 4)

\* An increment is looked for behind a property reference only.
maybeReference(r) ==
    IF r.ok /\ nextIs(r.o, r.p, 4)
    THEN optional(propertyReference(r), "increment", "Real", 5, {"tag", "value", "empty"})
    ELSE r
SubscribeCOVFromRaw(o) ==
    LET obj  == read(read(reader(o), "proc", "Unsigned", 0, {"tag", "value"}),
                     "obj", "ObjectId", 1, {"tag", "value"})
        time == optional(optional(obj, "confirmed", "Flag", 2, {"value"}),
                         "lifetime", "Unsigned", 3, {"value"})
    IN  nothingLeft(maybeReference(time))

\* Whatever follows the low limit is taken for the high one; with nothing
\* behind it the parser still stands on the low limit.
range(r) ==
    IF ~nextIs(r.o, r.p, 0) THEN r
    ELSE read(read(r, "low", "Unsigned", 0, {"value"}), "high", "Unsigned", 1, {"value"})

WhoIsFromRaw(o) ==
    IF o = <<>>
    THEN [reader(o) EXCEPT !.got = [low |-> <<0>>, high |-> <<MaximumInstanceNumber>>]]
    ELSE nothingLeft(range(reader(o)))

which(r, p) ==
    CASE r.ok /\ isContextTag(p, 2) -> element(r, "obj", "ObjectId", 2, {"value"}, p)
      [] r.ok /\ isContextTag(p, 3) -> element(r, "name", "CharacterString", 3, {"value"}, p)
      [] OTHER -> refuseIf(r, TRUE)
objectOrName(r) == which(r, parseNext(r.o, r.p))
WhoHasFromRaw(o) == nothingLeft(objectOrName(range(reader(o))))

IAmFromRaw(o) ==
    LET both == {"tag", "value"}
        max  == read(read(reader(o), "dev", "ObjectId", App, both), "maxApdu", "Unsigned", App, both)
        all  == read(read(max, "segmentation", "Enum", App, both), "vendor", "Unsigned", App, both)
    IN  nothingLeft(all)

\* The name's octets are not counted in the result.
uncounted(r, name) ==
    [read(r, name, "CharacterString", App, {"tag", "value"}) EXCEPT !.used = r.used]

IHaveFromRaw(o) ==
    LET both == {"tag", "value"}
        obj  == read(read(reader(o), "dev", "ObjectId", App, both), "obj", "ObjectId", App, both)
    IN  nothingLeft(uncounted(obj, "name"))

\* A class or a code that cannot be read makes the result CodeOther, which is
\* not negative.
ErrorFromRaw(o) ==
    LET all   == {"tag", "value", "empty"}
        class == read(reader(o), "class", "Enum", App, all)
    IN  neverRefused(read(class, "code", "Enum", App, all))

\* Reading a header: the octets it takes, the invoke id, the last octet it
\* reads and whether a segment follows; too short a message has none.
NoHeader == [n |-> 0, id |-> 0, last |-> 0, segment |-> FALSE]
header(o, min, n) ==
    IF Len(o) < min THEN NoHeader
    ELSE [n |-> n, id |-> o[2], last |-> o[3], segment |-> FALSE]

ConfirmedRequestFromRaw(o) ==
    LET n == 4 + 2 * Bit(o[1], 8)
    IN  IF Len(o) < n THEN NoHeader
        ELSE [n |-> n, id |-> o[3], last |-> o[n], segment |-> Bit(o[1], 8) = 1]
UnconfirmedRequestFromRaw(o) == [n |-> 2, id |-> 0, last |-> o[2], segment |-> FALSE]
SimpleAckFromRaw(o) == header(o, 3, 3)
ComplexAckFromRaw(o) ==
    LET n == 3 + 2 * Bit(o[1], 8)
    IN  IF Len(o) < n + 2 THEN NoHeader
        ELSE [n |-> n, id |-> o[2], last |-> o[n], segment |-> Bit(o[1], 8) = 1]
SegmentedAckFromRaw(o) == IF Len(o) = 4 THEN header(o, 4, 3) ELSE NoHeader
\* One octet too few is counted in the last three.
ErrorDataFromRaw(o) == header(o, 3, 2)
RejectFromRaw(o) == header(o, 3, 2)
AbortFromRaw(o) == header(o, 3, 2)

serviceFromRaw(name, data) ==
    CASE name = "ReadProperty" -> ReadPropertyFromRaw(data)
      [] name = "ReadPropertyAck" -> ReadPropertyAckFromRaw(data)
      [] name = "WriteProperty" -> WritePropertyFromRaw(data)
      [] name = "ConfirmedCOV" -> CovNotificationFromRaw(data)
      [] name = "SubscribeCOV" -> SubscribeCOVFromRaw(data)
      [] name = "WhoIs" -> WhoIsFromRaw(data)
      [] name = "WhoHas" -> WhoHasFromRaw(data)
      [] name = "IAm" -> IAmFromRaw(data)
      [] name = "IHave" -> IHaveFromRaw(data)
      [] name = "Error" -> ErrorFromRaw(data)
      [] name = "WriteAck" -> reader(data)

pduType(o) == IF o[1] > 127 THEN "Unknown" ELSE CHOOSE k \in DOMAIN PduType : PduType[k] = o[1] \div 16

headerFromRaw(kind, o) ==
    CASE kind = "Confirmed" -> ConfirmedRequestFromRaw(o)
      [] kind = "Unconfirmed" -> UnconfirmedRequestFromRaw(o)
      [] kind = "SimpleAck" -> SimpleAckFromRaw(o)
      [] kind = "ComplexAck" -> ComplexAckFromRaw(o)
      [] kind = "SegmentAck" -> SegmentedAckFromRaw(o)
      [] kind = "Error" -> ErrorDataFromRaw(o)
      [] kind = "Reject" -> RejectFromRaw(o)
      [] kind = "Abort" -> AbortFromRaw(o)
      [] OTHER -> NoHeader

handed(kind, h, o) ==
    IF h = NoHeader \/ h.segment \/ kind = "SegmentAck" THEN refuseIf(reader(<<>>), TRUE)
    ELSE IF kind \in {"Reject", "Abort"} THEN [reader(<<>>) EXCEPT !.got = [reason |-> <<h.last>>]]
    ELSE serviceFromRaw(CHOOSE s \in DOMAIN Service :
                            IF kind = "Error" THEN s = "Error" ELSE Service[s] = <<kind, h.last>>,
                        SubSeq(o, h.n + 1, Len(o)))

\* BacnetTSM2::receive() and the service it hands the data to.  A segment, and
\* an answer to one, are refused with an Abort.
answered(h, kind, o) == [r |-> handed(kind, h, o), id |-> h.id]
receive(o) == answered(headerFromRaw(pduType(o), o), pduType(o), o)

-----------------------------------------------------------------------------
(* One message after the other.                                            *)

VARIABLES sent,   \* the message written last
          old,    \* what its octet of the buffer held before
          wire,   \* the octets on their way
          got     \* the reader's verdict, the fields and the network header it
                  \* found, the invoke id, the octets used of the service's data

vars == <<sent, old, wire, got>>

Unread == [verdict |-> "none", f |-> <<>>, net |-> <<>>, id |-> 0, used |-> 0]

Init == sent = None /\ old = 0 /\ wire = <<>> /\ got = Unread

\* A network message has its header only.
Write(m, x) ==
    /\ sent = None
    /\ sent' = m
    /\ old' = x
    /\ wire' = (IF "spoilt" \in DOMAIN m THEN m.spoilt \o Tail(Tail(setToRaw(m.net)))
                ELSE setToRaw(m.net))
               \o (IF m.s = "Network" THEN <<>> ELSE headerToRaw(m, x)) \o dataOf(m, x)
    /\ got' = Unread

Verdict(r) == IF r.stuck THEN "stuck" ELSE IF r.ok THEN "accepted" ELSE "refused"

found(h, a) == [verdict |-> Verdict(a.r), f |-> a.r.got, net |-> h, id |-> a.id, used |-> a.r.used]

\* n is what setFromRaw() finds in o.
understood(o, n) ==
    IF n.h.type = ApduType THEN found(n.h, receive(SubSeq(o, n.n + 1, Len(o))))
    ELSE [Unread EXCEPT !.verdict = "accepted", !.net = n.h]

Read ==
    /\ wire # <<>>
    /\ got' = IF Insane(wire) THEN [Unread EXCEPT !.verdict = "refused"]
              ELSE understood(wire, setFromRaw(wire))
    /\ wire' = <<>>
    /\ UNCHANGED <<sent, old>>

\* The buffer is given back.
Release ==
    /\ sent # None /\ wire = <<>>
    /\ sent' = None
    /\ old' = 0
    /\ got' = Unread
    /\ UNCHANGED wire

\* A message that has a header and octets: a network message has no more than
\* the header, and a header that was spoilt cannot be taken for another one.
WellFormed(m) ==
    /\ m.net \in Header
    /\ m.s \in DOMAIN Service \cup {"Network"}
    /\ m.s = "Network" <=> m.net.type # ApduType
    /\ "part" \in DOMAIN m => m.part \in Seq(Octets) /\ Len(m.part) = 2
    /\ "spoilt" \in DOMAIN m => m.spoilt \in Seq(Octets) /\ Len(m.spoilt) = 2 /\ Insane(m.spoilt)
    /\ m.s = "Reject" => m.f.reason[1] \in Octets
    /\ \A x \in Leftover0 : dataOf(m, x) \in Seq(Octets)

ASSUME SentAssumption == Leftover0 \subseteq Octets /\ \A m \in Sent : WellFormed(m)

-----------------------------------------------------------------------------
(* What the encoding carries                                               *)

\* The values that come back as they were sent.
carried(type, v) ==
    CASE type = "Flag" -> v = <<1>> \/ old % 2 = 0
      [] type = "Enumerated" -> v[1] \in 0..255
      [] type = "BitString" -> Len(v) \in 1..7
      [] type = "CharacterString" -> Len(v) \in 1..252
      [] type = "Time" -> v[4] = 0
      [] type = "DateTime" -> v[8] = 0
      [] type \in {"OctetString", "Signed", "Address", "List"} -> FALSE
      [] OTHER -> TRUE

\* A property value written as the class its object type asks for.
carriedValue(f, obj) ==
    /\ {"prop", "value"} \subseteq DOMAIN f
    /\ f.value.t = DataFor(obj[1], f.prop[1], "index" \in DOMAIN f)
    /\ carried(f.value.t, f.value.v)

Required == [ReadProperty |-> {"obj", "prop"}, ReadPropertyAck |-> {"obj", "prop", "value"},
             WriteProperty |-> {"obj", "prop", "value"}, SubscribeCOV |-> {"proc", "obj"},
             ConfirmedCOV |-> {"proc", "dev", "obj", "time", "list"},
             WhoIs |-> {"low", "high"}, WhoHas |-> {},
             WriteAck |-> {}, Reject |-> {"reason"}, Network |-> {},
             IAm |-> {"dev", "maxApdu", "segmentation", "vendor"},
             IHave |-> {"dev", "obj", "name"}]

Carried(m) ==
    LET f == m.f IN
    /\ m.s \in DOMAIN Required
    /\ Required[m.s] \subseteq DOMAIN f
    /\ "value" \in DOMAIN f => carriedValue(f, f.obj)
    /\ "list" \in DOMAIN f => \A k \in DOMAIN f.list : carriedValue(f.list[k], f.obj)
    /\ {"part", "spoilt"} \cap DOMAIN m = {}
    /\ "name" \in DOMAIN f => Len(f.name) * letterSize(charSet(m)) \in 1..252
    /\ "confirmed" \in DOMAIN f => carried("Flag", f.confirmed)
    /\ m.s = "WhoIs" => ((f.low = <<0>>) <=> (f.high = <<MaximumInstanceNumber>>))
    /\ m.s = "WhoHas" => /\ ("low" \in DOMAIN f) <=> ("high" \in DOMAIN f)
                         /\ Cardinality({"obj", "name"} \cap DOMAIN f) = 1

Accepted == got.verdict = "accepted"

\* A message comes back exactly as it was written when, and only when, all its
\* fields are there and every value is one the encoding carries: the losses of
\* toRaw() and fromRaw() are those of `carried', and no others.
Delivered ==
    got.verdict # "none" => ((Accepted /\ got.f = sent.f) <=> Carried(sent))

\* Whoever accepts a message knows where it came from, whom it is for, its
\* priority and whether an answer is waited for; a message that was routed has
\* one hop less.  An answer names the request it is an answer to.
HeadersKept ==
    Accepted /\ sent.s # "Abort" =>
        /\ got.net = [sent.net EXCEPT !.hops = IF sent.net.dest = NoAddress THEN @ ELSE (@ - 1) % 256]
        /\ got.id = IF sent.s = "Network" \/ Service[sent.s][1] = "Unconfirmed" THEN 0 ELSE InvokeId

\* A reader finds no field that was not sent: an element that is missing is
\* never made up from the one before or the one after.  (A device range without
\* its high limit gets the low one instead, and errors are misread: the other
\* two places where this fails.)
NothingInvented ==
    Accepted /\ sent.s \notin {"WhoIs", "WhoHas", "Error", "WriteError", "Abort"} =>
        "misread" \in DOMAIN got.f \/ DOMAIN got.f \subseteq DOMAIN sent.f

\* Of a list of values, those the encoding carries are all found, in their
\* order, whatever stands between them; the reading comes to an end.
ListKept ==
    sent.s = "ConfirmedCOV" /\ got.verdict # "none" =>
        LET sound(f) == "misread" \notin DOMAIN f /\ f.value.t # "Abstract"
            good(f) == carriedValue(f, sent.f.obj)
        IN  /\ got.verdict # "stuck"
            /\ Accepted => SelectSeq(got.f.list, sound) = SelectSeq(sent.f.list, good)

=============================================================================
