----------------------------- MODULE MCMessages -----------------------------
(* Messages of every service with values at the edges of their widths, with *)
(* and without their optional fields, and some with a field left out.       *)
EXTENDS Announcements

\* f with any of the fields in D left out.
Without(f, D) == {[n \in DOMAIN f \ S |-> f[n]] : S \in SUBSET D}

\* From this gateway's network 5, answer expected or not, to a neighbour.
FromUs == [net |-> 5, host |-> <<0, 0, 0, 2>>, port |-> NoPort]
Plain == [reply |-> FALSE, prio |-> 0, dest |-> NoAddress, src |-> FromUs, type |-> ApduType,
          hops |-> DefaultHops]
Of(s, F) == {[s |-> s, f |-> f, net |-> Plain] : f \in F}

\* Headers of every shape, before an application message and before none.
Far == [net |-> 300, host |-> <<192, 168, 0, 255>>, port |-> 257]

\* Questions from afar to every network.
Everyone == [net |-> 65535, host |-> <<>>, port |-> NoPort]
Asked(s, F) == {[s |-> s, f |-> f, net |-> [Plain EXCEPT !.src = Far, !.dest = Everyone]] : f \in F}

Headers == {[reply |-> r, prio |-> p, dest |-> d, src |-> a, type |-> t, hops |-> h] :
               r \in BOOLEAN, p \in {0, 3}, d \in {NoAddress, Far, [Far EXCEPT !.host = <<>>, !.port = 0]},
               a \in {NoAddress, FromUs}, t \in {0, 1, 3, 7, ApduType}, h \in {0, 1, 255}}
Sane == {h \in Headers : h.dest = NoAddress => h.hops = 255}
OneRead == [s |-> "ReadProperty", f |-> [obj |-> <<0, 1>>, prop |-> <<85>>], net |-> Plain]
HeaderMessages ==
    {IF h.type = ApduType THEN [OneRead EXCEPT !.net = h]
     ELSE [s |-> "Network", f |-> <<>>, net |-> h] : h \in Sane}
    \cup {OneRead @@ [spoilt |-> x] : x \in {<<2, 8>>, <<1, 72>>, <<1, 24>>}}
    \cup {OneRead @@ [part |-> <<0, 4>>]}

Numbers == {<<0>>, <<127>>, <<128>>, <<255>>, <<256>>, <<65536>>, <<16777216>>, <<-1>>}
Typed(type, V) == {[t |-> type, v |-> v] : v \in V}

Letters(n) == [k \in 1..n |-> 65 + (k % 26)]
OneReal == [t |-> "Real", v |-> <<66, 200, 0, 1>>]

\* <<object, property, index, values>>; an index of 0 is none.
Values ==
    {<<0, 85, 0, {OneReal} \cup Typed("Unsigned", {<<3>>})>>,
     <<0, 300, 0, {OneReal} \cup Typed("Signed", {<<-129>>, <<200>>})>>,
     <<0, 111, 0, Typed("BitString", {<<1>>, <<1, 0, 0, 1>>, [k \in 1..7 |-> k % 2],
                                      [k \in 1..8 |-> 1], [k \in 1..9 |-> k % 2]})>>,
     <<0, 81, 0, Typed("Boolean", {<<0>>, <<1>>})>>,
     <<0, 130, 2, {[t |-> "Time", v |-> <<1, 2, 3, 0>>]}>>,
     <<1, 130, 0, {[t |-> "List", v |-> <<[t |-> "Time", v |-> <<1, 2, 3, 0>>]>>]}>>,
     <<1, 130, 2, {[t |-> "Time", v |-> <<1, 2, 3, 0>>]}>>,
     <<3, 85, 0, Typed("Enumerated", {<<1>>, <<255>>, <<256>>})>>,
     <<3, 16, 0, Typed("DateTime", {<<2012, 2, 29, 3, 23, 59, 58, 0>>,
                                    <<2012, 2, 29, 3, 23, 59, 58, 500>>})>>,
     <<13, 85, 0, Typed("Unsigned", Numbers)>>,
     <<13, 110, 1, Typed("CharacterString", {Letters(1), Letters(4)})>>,
     <<8, 77, 0, Typed("CharacterString", {Letters(n) : n \in {3, 5, 252, 253, 256}})>>,
     <<8, 76, 300, {[t |-> "ObjectId", v |-> <<19, 4194302>>]}>>,
     <<8, 76, 0, {[t |-> "List", v |-> <<[t |-> "ObjectId", v |-> <<8, 1>>]>>]}>>,
     <<8, 120, 0, Typed("Unsigned", {<<0>>, <<260>>})>>,
     <<8, 30, 0, {[t |-> "Address", v |-> <<2, 10, 0, 0, 1>>]}>>,
     <<200, 85, 0, {OneReal}>>}

Index(f, i) == IF i = 0 THEN f ELSE f @@ ("index" :> <<i>>)
ValueFields == UNION {{Index([obj |-> <<c[1], 7>>, prop |-> <<c[2]>>, value |-> v], c[3])
                          : v \in c[4]} : c \in Values}

Item(c, v) == [prop |-> <<c>>, value |-> v]
Items == {Item(85, OneReal), Item(111, [t |-> "BitString", v |-> <<0, 1, 0, 0>>]),
          Item(85, OneReal) @@ ("priority" :> <<8>>),
          Item(111, OneReal), Item(300, OneReal)}
Lists == {<<>>} \cup {<<a>> : a \in Items} \cup {<<a, b>> : a, b \in Items}

ReadMessages ==
    Of("ReadProperty", Without([obj |-> <<0, 4194303>>, prop |-> <<300>>, index |-> <<0>>],
                               {"prop", "index"}))
    \cup Of("ReadProperty", {[obj |-> <<8, 1>>, prop |-> n] : n \in Numbers})
    \cup Of("ReadPropertyAck", ValueFields)
WriteMessages ==
    Of("WriteProperty", ValueFields \cup {f @@ ("priority" :> <<8>>) : f \in ValueFields})
CovMessages ==
    Of("ConfirmedCOV", UNION {Without([proc |-> <<200>>, dev |-> <<8, 2>>, obj |-> <<0, 7>>,
                                       time |-> <<300>>, list |-> l], {"dev", "time"}) : l \in Lists})
    \cup Of("SubscribeCOV", Without([proc |-> <<1>>, obj |-> <<0, 7>>, confirmed |-> <<0>>,
                                     lifetime |-> <<300>>], {"obj", "confirmed", "lifetime"}))
    \cup Of("SubscribeCOV", Without([proc |-> <<1>>, obj |-> <<0, 7>>, confirmed |-> <<1>>,
                                     prop |-> <<85>>, index |-> <<2>>,
                                     increment |-> <<63, 0, 0, 0>>],
                                    {"confirmed", "index", "increment"}))
DeviceMessages ==
    Asked("WhoIs", {[low |-> l, high |-> h] : l, h \in {<<0>>, <<5>>, <<300>>, <<4194302>>, <<4194303>>}}
                   \cup {[low |-> <<5>>]})
    \cup Asked("WhoHas", UNION {Without(f, {"low", "high"}) :
                                   f \in {[low |-> <<5>>, high |-> <<300>>, obj |-> <<0, 1>>],
                                          [low |-> <<5>>, high |-> <<300>>, name |-> Letters(3)]}})
    \cup Of("IAm", Without([dev |-> <<8, 2>>, maxApdu |-> <<1476>>, segmentation |-> <<3>>,
                            vendor |-> <<260>>], {"maxApdu", "segmentation", "vendor"}))
    \cup Of("IHave", Without([dev |-> <<8, 2>>, obj |-> <<0, 1>>, name |-> Letters(3)],
                             {"obj", "name"}))
\* The devices, at the ends of the ranges asked for; two have an object of the
\* same identifier, and two one of the same name.
Device(host, instance, name, objects) ==
    [address |-> [net |-> 2, host |-> <<0, 0, 0, host>>, port |-> NoPort],
     instance |-> instance, name |-> name, objects |-> objects]
Object(type, instance, name) == [id |-> <<type, instance>>, name |-> name]
MCDevices ==
    <<Device(1, 300, Letters(5), {Object(0, 1, Letters(3)), Object(3, 7, <<>>)}),
      Device(2, 5, <<>>, {Object(0, 1, Letters(4)), Object(19, 2, Letters(3))}),
      Device(3, 4194302, <<82, 228>>, {Object(0, 2, Letters(4))})>>

Wanted == {[obj |-> i] : i \in {<<0, 1>>, <<0, 2>>, <<2, 2>>, <<3, 7>>, <<8, 5>>}}
          \cup {[name |-> n] : n \in {Letters(3), Letters(4), SNGBacnet \o digits[33554437],
                                     SNGBacnet \o digits[12582919], SNGBacnet}}
Ranges == {<<>>} \cup {[low |-> l, high |-> h] : l, h \in {<<5>>, <<300>>, <<4194303>>}}
Questions == Asked("WhoHas", {w @@ r : w \in Wanted, r \in Ranges})

Names == {<<82>>, <<82, 228>>, Letters(5), Letters(127)}
NameMessages ==
    {[s |-> "IHave", f |-> [dev |-> <<8, 2>>, obj |-> <<0, 1>>, name |-> n], net |-> Plain, set |-> c] :
        n \in Names, c \in {1, 3, 4, 5}}
AnswerMessages ==
    Of("WriteAck", {<<>>}) \cup Of("SegmentAck", {<<>>}) \cup Of("Reject", {[reason |-> <<9>>]})
    \cup Of("Abort", {[reason |-> <<4>>]})
    \cup {m @@ [part |-> <<1, 4>>] : m \in Of("ReadPropertyAck",
                                           {[obj |-> <<0, 7>>, prop |-> <<85>>, value |-> OneReal]})}
ErrorMessages == Of("Error", {[class |-> <<2>>, code |-> <<32>>]})
                 \cup Of("WriteError", {[class |-> <<1>>, code |-> <<40>>]})

MCSent == ReadMessages \cup WriteMessages \cup CovMessages \cup DeviceMessages \cup ErrorMessages
          \cup AnswerMessages \cup NameMessages \cup Questions \cup HeaderMessages
MCLeftover == {0, 84, 171}
=============================================================================
