----------------------------- MODULE MCObjects -----------------------------
(* One device with an object of each kind of property, and a second device  *)
(* whose instance number is taken; one remote object, read and polled.       *)
EXTENDS Objects

CONSTANTS c1, c2, i1, i2

Plain == [propType |-> Absent, id |-> Absent, bacType |-> Absent, value |-> Bad,
          intType |-> Absent, intId |-> NoNumber, varType |-> Absent, converter |-> Absent,
          factor |-> <<>>, mask |-> <<>>, children |-> <<>>, idx |-> NoNumber, read |-> Absent, write |-> Absent,
          interval |-> Bad]
simple(id, t, n) == [Plain EXCEPT !.propType = "simple", !.id = id, !.bacType = t, !.value = n]
observer(id, t, s) == [Plain EXCEPT !.propType = "internal", !.id = id, !.bacType = t,
                                    !.intType = "observer", !.intId = s]
universal(e, v) == [e EXCEPT !.converter = "universal", !.varType = v]
scaling(e, v, f) == [e EXCEPT !.converter = "scaling", !.varType = v, !.factor = f]
masking(e, v, bits) == [e EXCEPT !.converter = "masking", !.varType = v, !.mask = bits]
subject(id, t, s, v) == [observer(id, t, s) EXCEPT !.intType = "subject", !.varType = v]
array(id, es) == [Plain EXCEPT !.propType = "array", !.id = id, !.children = es]
mapped(id, s, v, r, ms) == [Plain EXCEPT !.id = id, !.intId = s, !.varType = v, !.read = r,
                                         !.write = "simple", !.interval = ms]
object(t, k, ps) == [type |-> t, instance |-> k, properties |-> ps]

MCConfig == [
    internal |-> <<
        [address |-> 1, instance |-> 7,
         properties |-> <<simple("description", "characterstring", 1), simple(Absent, "real", 0)>>,
         objects |-> <<
            object("analog-output", 1, <<
                scaling(observer("present-value", "real", 1), "float", <<>>),
                masking(observer("present-value", "real", 1), "uint", <<>>),
                universal(observer("present-value", "real", 1), "no-type"),
                scaling(observer("present-value", "real", 1), "float", <<2, 1>>),
                observer("present-value", "real", 4),
                simple("units", "unsigned", Bad)>>),
            object("analog-output", 1, <<>>), object("schedule", 1, <<>>),
            object("multistate-value", 2, <<
                universal(observer("present-value", "unsigned", 1), "uint"),
                subject("reliability", "unsigned", 4, "uint"),
                array("priority-array", <<
                    observer(Absent, "real", 1), simple(Absent, "no-type", 0),
                    masking(observer(Absent, "unsigned", 4), "uint", <<1, 0>>),
                    masking(observer(Absent, "unsigned", 4), "uint", <<0, 1>>),
                    simple(Absent, "real", 1)>>)>>)>>],
        [address |-> 2, instance |-> 7, properties |-> <<>>, objects |-> <<>>]>>,
    external |-> <<
        [instance |-> NoNumber, objects |-> <<>>],
        [instance |-> 9, objects |-> <<
            object("analog-input", 1, <<
                mapped("present-value", 1, "float", "simple-time", 1000),
                mapped("present-value", 1, "uint", "simple", Bad),
                mapped("present-value", 6, "no-type", "simple", Bad),
                mapped("present-value", 5, "float", "never", 1000)>>),
            object("schedule", NoNumber, <<>>)>>]>>,
    defaults |-> <<
        object("multistate-value", NoNumber, <<simple("units", "unsigned", 1)>>),
        object("multistate-value", NoNumber, <<simple("units", "unsigned", 0), observer("x", "real", 1)>>)>>]

held(c, n) == [kind |-> "Simple", class |-> c, data |-> n]
proxy(c, s, own) == [kind |-> "Proxy", class |-> c, subject |-> s, owned |-> own,
                     conv |-> Unconverted]
converting(c, s, k, v) == [proxy(c, s, FALSE) EXCEPT !.conv.kind = k, !.conv.type = v]

MCLayer == [
    devices |-> 1 :> (
        <<"device", 7>> :> ("description" :> held("CharacterString", 1))
        @@ <<"analog-output", 1>> :> ("present-value" :>
                [converting("Real", 1, "scaling", "float") EXCEPT !.conv.factor = <<2, 1>>])
        @@ <<"multistate-value", 2>> :> (
            "present-value" :> converting("Unsigned", 1, "universal", "uint")
            @@ "reliability" :> proxy("Unsigned", 4, TRUE)
            @@ "priority-array" :> [kind |-> "Array", elements |-> <<
                   proxy("Real", 1, FALSE),
                   [converting("Unsigned", 4, "masking", "uint") EXCEPT !.conv.mask = <<1, 0>>],
                   [converting("Unsigned", 4, "masking", "uint") EXCEPT !.conv.mask = <<0, 1>>],
                   held("Real", 1)>>])),
    mapping |-> 1 :> [object |-> <<"analog-input", 1>>, property |-> "present-value",
                      idx |-> NoNumber, strategy |-> "timed"],
    defaults |-> "multistate-value" :> ("units" :> held("Unsigned", 0)),
    subjects |-> 1 :> "float" @@ 4 :> "uint" @@ 5 :> "float"]

MCNumbers == 1 :> {0, 1} @@ 4 :> 0 .. 3 @@ 5 :> {0}
MCReports == 1 :> "Real"
MCExpects == 1 :> "Real"

read(o, p, i) == [service |-> "Read", device |-> 1, object |-> o, property |-> p, idx |-> i,
                  class |-> "Null", n |-> 0]
write(o, p, i, t, v) == [service |-> "Write", device |-> 1, object |-> o, property |-> p,
                         idx |-> i, class |-> t, n |-> v]
Dev == <<"device", 7>>
Out == <<"analog-output", 1>>
Val == <<"multistate-value", 2>>

MCAsks == {
    read(Dev, "object-list", NoIndex),
    read(<<"analog-input", 9>>, "present-value", NoIndex), read(Val, "units", NoIndex),
    read(Val, "priority-array", 0), read(Val, "priority-array", 1),
    read(Val, "priority-array", NoIndex),
    read(Val, "present-value", NoIndex), read(Out, "present-value", NoIndex),
    write(Out, "present-value", NoIndex, "Real", 2),
    write(Val, "priority-array", 1, "Real", 0), write(Val, "priority-array", 2, "Unsigned", 1),
    write(Val, "priority-array", 3, "Unsigned", 3), write(Val, "priority-array", 3, "Real", 0),
    write(Val, "reliability", NoIndex, "Unsigned", 0),
    [write(Out, "present-value", NoIndex, "Unsigned", 1) EXCEPT !.service = "Garbled"]}
MCClients == {c1, c2}
MCAsynchIds == {i1, i2}
ASSUME GivesBackHere == GivesBack
Alike == Permutations(MCClients) \cup Permutations(MCAsynchIds)
=============================================================================
