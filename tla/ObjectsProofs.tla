--------------------------- MODULE ObjectsProofs ---------------------------
(***************************************************************************)
(* For every configuration, any clients and any remote devices: observers  *)
(* know their subjects' values, each wait belongs to one operation, and    *)
(* reads of remote properties are answered with fresh values.              *)
(***************************************************************************)
EXTENDS Objects, WellFoundedInduction, TLAPS

-----------------------------------------------------------------------------
(* Proxies and what requests name. *)

LEMMA PlaceIsProxy ==
    ASSUME NEW d \in DOMAIN Layer.devices, NEW o \in DOMAIN Layer.devices[d],
           NEW i \in DOMAIN PropertiesAt(d, o), NEW k \in Places(d, o, i)
    PROVE  <<d, o, i, k>> \in Proxies
  <1>1. <<d, o, i, k>> \in {<<d, o, i, l>> : l \in Places(d, o, i)}
    OBVIOUS
  <1>2. <<d, o, i, k>> \in ProxiesOf(d, o)
    BY <1>1, Zenon DEF ProxiesOf
  <1>3. <<d, o, i, k>> \in ProxiesIn(d)
    BY <1>2, Zenon DEF ProxiesIn
  <1> QED  BY <1>3, Zenon DEF Proxies

LEMMA ProxyIsPlace ==
    ASSUME NEW d, NEW o, NEW i, NEW k, <<d, o, i, k>> \in Proxies
    PROVE  /\ d \in DOMAIN Layer.devices /\ o \in DOMAIN Layer.devices[d]
           /\ i \in DOMAIN PropertiesAt(d, o) /\ k \in Places(d, o, i)
  <1>1. PICK e \in DOMAIN Layer.devices : <<d, o, i, k>> \in ProxiesIn(e)
    BY Zenon DEF Proxies
  <1>2. PICK q \in DOMAIN Layer.devices[e] : <<d, o, i, k>> \in ProxiesOf(e, q)
    BY <1>1, Zenon DEF ProxiesIn
  <1>3. PICK j \in DOMAIN PropertiesAt(e, q) :
            <<d, o, i, k>> \in {<<e, q, j, l>> : l \in Places(e, q, j)}
    BY <1>2, Zenon DEF ProxiesOf
  <1>4. PICK l \in Places(e, q, j) : <<d, o, i, k>> = <<e, q, j, l>>
    BY <1>3
  <1> QED  BY <1>4

\* A property of kind Proxy is one, as is an element of an array; nothing else is.
LEMMA SingleIsProxy ==
    ASSUME NEW d \in DOMAIN Layer.devices, NEW o \in DOMAIN Layer.devices[d],
           NEW i \in DOMAIN PropertiesAt(d, o), PropertiesAt(d, o)[i].kind = "Proxy"
    PROVE  /\ <<d, o, i, 0>> \in Proxies
           /\ ProxyAt(<<d, o, i, 0>>) = PropertiesAt(d, o)[i]
  <1>1. 0 \in Places(d, o, i)
    BY DEF Places
  <1> QED  BY <1>1, PlaceIsProxy DEF ProxyAt

LEMMA ElementIsProxy ==
    ASSUME NEW d \in DOMAIN Layer.devices, NEW o \in DOMAIN Layer.devices[d],
           NEW i \in DOMAIN PropertiesAt(d, o), PropertiesAt(d, o)[i].kind = "Array",
           NEW k \in DOMAIN PropertiesAt(d, o)[i].elements,
           PropertiesAt(d, o)[i].elements[k].kind = "Proxy"
    PROVE  /\ <<d, o, i, k>> \in Proxies
           /\ ProxyAt(<<d, o, i, k>>) = PropertiesAt(d, o)[i].elements[k]
           /\ k # 0
  <1>1. k \in Places(d, o, i)
    BY DEF Places
  <1>2. k # 0
    BY KindAssumption DEF KindAssumption
  <1> QED  BY <1>1, <1>2, PlaceIsProxy DEF ProxyAt

LEMMA SingleKind ==
    ASSUME NEW d, NEW o, NEW i, <<d, o, i, 0>> \in Proxies
    PROVE  PropertiesAt(d, o)[i].kind = "Proxy"
  <1>1. /\ d \in DOMAIN Layer.devices /\ o \in DOMAIN Layer.devices[d]
        /\ i \in DOMAIN PropertiesAt(d, o) /\ 0 \in Places(d, o, i)
    BY ProxyIsPlace
  <1> QED  BY <1>1, KindAssumption DEF KindAssumption, Places

-----------------------------------------------------------------------------
(* What the code answers to a request. *)

\* A single property's read is started by an observer of a remote property only.
LEMMA SingleRead ==
    ASSUME NEW v, NEW x, NEW p, NEW idx, NEW instantly,
           p.kind \in {"Simple", "Proxy"}
    PROVE  LET r == ReadSingle(v, x, p, idx, instantly)
           IN /\ r.code \in {"ack", "error", "started"}
              /\ r.code = "started" =>
                     /\ r = Started(p.subject, x, 0)
                     /\ p.kind = "Proxy" /\ ~ p.owned /\ p.subject \in External
                     /\ idx = NoIndex /\ ~ instantly /\ FreeIds # {}
              /\ p.kind = "Proxy" /\ instantly /\ r.code = "ack" => r = Shown(p, v[p.subject])
              /\ p.kind = "Proxy" /\ ~ p.owned /\ p.subject \in External /\ ~ instantly
                     => r.code # "ack"
  <1> DEFINE r == ReadSingle(v, x, p, idx, instantly)
  <1>1. CASE p.kind = "Simple"
    <2>1. r = ReadSimple(p, idx)
      BY <1>1 DEF ReadSingle
    <2>2. r.code \in {"ack", "error"}
      BY <2>1 DEF ReadSimple, Ack, Error
    <2> QED  BY <1>1, <2>2
  <1>2. CASE p.kind = "Proxy"
    <2>1. r = ReadProxy(v, x, p, idx, instantly)
      BY <1>2 DEF ReadSingle
    <2>2. CASE idx # NoIndex
      BY <2>1, <2>2 DEF ReadProxy, Error
    <2>3. CASE idx = NoIndex /\ OutOfReach(p, instantly)
      <3>1. r = ReadRequested(p.subject, x)
        BY <2>1, <2>3 DEF ReadProxy
      <3> QED  BY <1>2, <2>3, <3>1 DEF ReadRequested, Started, Error, OutOfReach
    <2>4. CASE idx = NoIndex /\ ~ OutOfReach(p, instantly)
      <3>1. r = Shown(p, v[p.subject])
        BY <2>1, <2>4 DEF ReadProxy
      <3>2. r.code \in {"ack", "error"}
        BY <3>1 DEF Shown, Ack, Error
      <3> QED  BY <1>2, <2>4, <3>1, <3>2 DEF OutOfReach
    <2> QED  BY <2>2, <2>3, <2>4
  <1> QED  BY <1>1, <1>2

\* The first element that is not read at once is one of the array's.
LEMMA FirstStop ==
    ASSUME NEW n, NEW S \in SUBSET (1 .. n), S # {}
    PROVE  Min(S) \in S
  <1>1. S \in SUBSET Nat
    OBVIOUS
  <1> DEFINE Less == OpToRel(<, Nat)
  <1>2. IsWellFoundedOn(Less, Nat)
    BY NatLessThanWellFounded
  <1>3. \A x, y \in Nat : <<y, x>> \in Less <=> y < x
    BY DEF OpToRel
  <1> HIDE DEF Less
  <1>4. PICK x \in S : \A y \in S : ~ (<<y, x>> \in Less)
    BY <1>1, <1>2, WFMin
  <1>5. \A y \in S : x =< y
    <2> SUFFICES ASSUME NEW y \in S
                 PROVE  x =< y
      OBVIOUS
    <2>1. x \in Nat /\ y \in Nat
      BY <1>1
    <2>2. ~ (y < x)
      BY <1>3, <1>4, <2>1
    <2> QED  BY <2>1, <2>2
  <1> QED  BY <1>5 DEF Min

\* An array's read is started by one of its elements, the one named if one is.
LEMMA ArrayRead ==
    ASSUME NEW v, NEW x, NEW p, NEW idx, NEW instantly,
           DOMAIN p.elements = 1 .. Len(p.elements),
           \A k \in DOMAIN p.elements : p.elements[k].kind \in {"Simple", "Proxy"},
           NEW r, r = ReadArray(v, x, p, idx, instantly)
    PROVE  /\ r.code \in {"ack", "error", "started"}
           /\ r.code = "started" =>
                  /\ ~ instantly /\ FreeIds # {} /\ idx # 0
                  /\ \E k \in DOMAIN p.elements :
                         /\ idx # NoIndex => k = idx
                         /\ p.elements[k].kind = "Proxy" /\ ~ p.elements[k].owned
                         /\ p.elements[k].subject \in External
                         /\ r = Started(p.elements[k].subject, Element(x, k), 0)
           /\ idx \in DOMAIN p.elements =>
                  r = ReadSingle(v, Element(x, idx), p.elements[idx], NoIndex, instantly)
  <1> DEFINE one(k) == ReadSingle(v, Element(x, k), p.elements[k], NoIndex, instantly)
             element == [k \in DOMAIN p.elements |-> one(k)]
             stops == {k \in DOMAIN element : element[k].code # "ack"}
  <1>1. \A k \in DOMAIN p.elements :
            /\ one(k).code \in {"ack", "error", "started"}
            /\ one(k).code = "started" =>
                   /\ ~ instantly /\ FreeIds # {}
                   /\ p.elements[k].kind = "Proxy" /\ ~ p.elements[k].owned
                   /\ p.elements[k].subject \in External
                   /\ one(k) = Started(p.elements[k].subject, Element(x, k), 0)
    BY SingleRead
  <1>2. 0 \notin DOMAIN p.elements /\ NoIndex \notin DOMAIN p.elements /\ NoIndex # 0
    BY DEF NoIndex, NoNumber
  <1>3. CASE idx = 0
    <2>1. r = Ack(Datum("Unsigned", Len(p.elements)))
      BY <1>3, <1>2 DEF ReadArray
    <2> QED  BY <1>2, <1>3, <2>1 DEF Ack
  <1>4. CASE idx \in DOMAIN p.elements
    <2>1. r = one(idx)
      BY <1>4, <1>2 DEF ReadArray
    <2> HIDE DEF one
    <2>2. r.code = "started" => \E k \in DOMAIN p.elements :
                            /\ idx # NoIndex => k = idx
                            /\ p.elements[k].kind = "Proxy" /\ ~ p.elements[k].owned
                            /\ p.elements[k].subject \in External
                            /\ r = Started(p.elements[k].subject, Element(x, k), 0)
      BY <1>1, <1>4, <2>1
    <2>3. idx # 0
      BY <1>2, <1>4
    <2> QED  BY <1>1, <1>4, <2>1, <2>2, <2>3 DEF one
  <1>5. CASE idx \notin DOMAIN p.elements \cup {0, NoIndex}
    <2>1. r = Error("InvalidArrayIndex")
      BY <1>5 DEF ReadArray
    <2> QED  BY <1>5, <2>1 DEF Error
  <1>6. CASE idx = NoIndex /\ stops = {}
    <2>1. r = Ack(FlattenSeq([k \in DOMAIN element |-> element[k].data]))
      BY <1>2, <1>6 DEF ReadArray
    <2> QED  BY <1>2, <1>6, <2>1 DEF Ack
  <1>7. CASE idx = NoIndex /\ stops # {}
    <2>1. r = element[Min(stops)]
      BY <1>2, <1>7 DEF ReadArray
    <2>2. Min(stops) \in DOMAIN p.elements
      BY <1>7, FirstStop
    <2>3. PICK k \in DOMAIN p.elements : r = one(k)
      BY <2>1, <2>2
    <2> QED  BY <1>1, <1>2, <1>7, <2>3
  <1> QED  BY <1>3, <1>4, <1>5, <1>6, <1>7

\* What is started or stored for a request is done by the proxy it names, or by an
\* element of the array it names.
Apt(a, r) ==
    /\ r.by \in Proxies /\ ProxyAt(r.by).subject = r.subject
    /\ \A k \in 1 .. 3 : r.by[k] = Named(a)[k]
    /\ a.idx # NoIndex \/ Named(a) \in Proxies => r.by = Named(a)

LEMMA NamedSingle ==
    ASSUME NEW a \in Asks, a.object \in DOMAIN Layer.devices[a.device],
           a.property \in DOMAIN PropertiesAt(a.device, a.object),
           PropertiesAt(a.device, a.object)[a.property].kind = "Proxy", a.idx = NoIndex,
           NEW r, r.by = <<a.device, a.object, a.property, 0>>,
           r.subject = PropertiesAt(a.device, a.object)[a.property].subject
    PROVE  Apt(a, r) /\ ProxyAt(r.by) = PropertiesAt(a.device, a.object)[a.property]
  <1>1. a.device \in DOMAIN Layer.devices
    BY AskAssumption DEF AskAssumption
  <1>2. r.by \in Proxies /\ ProxyAt(r.by) = PropertiesAt(a.device, a.object)[a.property]
    BY <1>1, SingleIsProxy
  <1> QED  BY <1>2 DEF Apt, Named

LEMMA NamedElement ==
    ASSUME NEW a \in Asks, a.object \in DOMAIN Layer.devices[a.device],
           a.property \in DOMAIN PropertiesAt(a.device, a.object),
           PropertiesAt(a.device, a.object)[a.property].kind = "Array",
           NEW k \in DOMAIN PropertiesAt(a.device, a.object)[a.property].elements,
           PropertiesAt(a.device, a.object)[a.property].elements[k].kind = "Proxy",
           a.idx # NoIndex => k = a.idx,
           NEW r, r.by = <<a.device, a.object, a.property, k>>,
           r.subject = PropertiesAt(a.device, a.object)[a.property].elements[k].subject
    PROVE  /\ Apt(a, r)
           /\ ProxyAt(r.by) = PropertiesAt(a.device, a.object)[a.property].elements[k]
  <1> DEFINE p == PropertiesAt(a.device, a.object)[a.property]
  <1>1. a.device \in DOMAIN Layer.devices
    BY AskAssumption DEF AskAssumption
  <1>3. r.by \in Proxies /\ ProxyAt(r.by) = p.elements[k] /\ k # 0
    BY <1>1, ElementIsProxy
  <1>4. a.idx # NoIndex => r.by = Named(a)
    BY DEF Named
  <1>5. a.idx = NoIndex => Named(a) \notin Proxies
    <2> SUFFICES ASSUME a.idx = NoIndex, Named(a) \in Proxies
                 PROVE  FALSE
      OBVIOUS
    <2>1. <<a.device, a.object, a.property, 0>> \in Proxies
      BY DEF Named
    <2> QED  BY <2>1, SingleKind
  <1>6. \A l \in 1 .. 3 : r.by[l] = Named(a)[l]
    BY DEF Named
  <1> QED  BY <1>3, <1>4, <1>5, <1>6 DEF Apt

\* What a request names among the proxies is where it says.
LEMMA NamedPlace ==
    ASSUME NEW a \in Asks, Named(a) \in Proxies
    PROVE  /\ a.object \in DOMAIN Layer.devices[a.device]
           /\ a.property \in DOMAIN PropertiesAt(a.device, a.object) \ DOMAIN ObjectData
           /\ ~ (a.object[1] = "device" /\ a.property \in DeviceData)
           /\ LET p == PropertiesAt(a.device, a.object)[a.property]
              IN \/ p.kind = "Proxy" /\ ProxyAt(Named(a)) = p
                 \/ /\ p.kind = "Array" /\ a.idx \in DOMAIN p.elements
                    /\ p.elements[a.idx].kind = "Proxy"
                    /\ ProxyAt(Named(a)) = p.elements[a.idx]
  <1> DEFINE k == IF a.idx = NoIndex THEN 0 ELSE a.idx
             p == PropertiesAt(a.device, a.object)[a.property]
  <1>1. Named(a) = <<a.device, a.object, a.property, k>>
    BY DEF Named
  <1>2. /\ a.device \in DOMAIN Layer.devices
        /\ a.object \in DOMAIN Layer.devices[a.device]
        /\ a.property \in DOMAIN PropertiesAt(a.device, a.object)
        /\ k \in Places(a.device, a.object, a.property)
    BY <1>1, ProxyIsPlace
  <1>3. /\ a.property \notin DOMAIN ObjectData
        /\ ~ (a.object[1] = "device" /\ a.property \in DeviceData)
    BY <1>1, ShadowAssumption DEF ShadowAssumption
  <1>4. p.kind = "Proxy" => k = 0
    BY <1>2 DEF Places
  <1>5. p.kind = "Array" => /\ k \in DOMAIN p.elements /\ p.elements[k].kind = "Proxy"
                            /\ k # 0 /\ k = a.idx
    BY <1>2, KindAssumption DEF Places, KindAssumption
  <1>6. p.kind \in {"Proxy", "Array"}
    BY <1>2 DEF Places
  <1> QED  BY <1>1, <1>2, <1>3, <1>4, <1>5, <1>6 DEF ProxyAt

\* Reading a request's property: only an observer of a remote property starts an
\* operation, one that the request names is not answered without one, and once the
\* operation is over the answer is what it shows of its subject.
LEMMA ReadApt ==
    ASSUME NEW v, NEW a \in Asks, NEW instantly,
           a.object \in DOMAIN Layer.devices[a.device]
    PROVE  LET r == ReadProperty(v, a, instantly)
           IN /\ r.code \in {"ack", "error", "started"}
              /\ r.code = "started" => /\ Apt(a, r) /\ r.by \in Observers
                                       /\ r.subject \in External /\ r.n = 0
                                       /\ ~ instantly /\ FreeIds # {}
              /\ NamesExternal(a) /\ ~ instantly => r.code # "ack"
              /\ NamesExternal(a) /\ instantly /\ r.code = "ack"
                     => r = Shown(ProxyAt(Named(a)), v[SubjectOf(a)])
  <1> DEFINE r == ReadProperty(v, a, instantly)
             here == PropertiesAt(a.device, a.object)
             p == here[a.property]
             x == <<a.device, a.object, a.property, 0>>
             default == IF a.object[1] \in DOMAIN Layer.defaults
                        THEN Layer.defaults[a.object[1]] ELSE <<>>
  <1>1. a.device \in DOMAIN Layer.devices
    BY AskAssumption DEF AskAssumption
  <1>2. CASE a.object[1] = "device" /\ a.property \in DeviceData
    <2>1. ~ NamesExternal(a)
      BY <1>2, NamedPlace DEF NamesExternal, Observers
    <2>2. r = ReadDeviceData(a.device, a.property, a.idx)
      BY <1>2 DEF ReadProperty
    <2> QED  BY <2>1, <2>2 DEF ReadDeviceData, Ack, Error
  <1>3. CASE /\ ~ (a.object[1] = "device" /\ a.property \in DeviceData)
             /\ a.property \in DOMAIN ObjectData
    <2>1. ~ NamesExternal(a)
      BY <1>3, NamedPlace DEF NamesExternal, Observers
    <2>2. r = Ack(Datum(ObjectData[a.property], 0))
      BY <1>3 DEF ReadProperty
    <2> QED  BY <2>1, <2>2 DEF Ack
  <1>4. CASE /\ ~ (a.object[1] = "device" /\ a.property \in DeviceData)
             /\ a.property \in DOMAIN here \ DOMAIN ObjectData
    <2>1. r = IF p.kind = "Array" THEN ReadArray(v, x, p, a.idx, instantly)
              ELSE ReadSingle(v, x, p, a.idx, instantly)
      BY <1>4 DEF ReadProperty
    <2>2. CASE p.kind = "Array"
      <3>1. /\ DOMAIN p.elements = 1 .. Len(p.elements)
            /\ \A k \in DOMAIN p.elements : p.elements[k].kind \in {"Simple", "Proxy"}
        BY <1>1, <1>4, <2>2, KindAssumption DEF KindAssumption
      <3>2. r = ReadArray(v, x, p, a.idx, instantly)
        BY <2>1, <2>2
      <3>3. /\ r.code \in {"ack", "error", "started"}
            /\ r.code = "started" =>
                   /\ ~ instantly /\ FreeIds # {} /\ a.idx # 0
                   /\ \E k \in DOMAIN p.elements :
                          /\ a.idx # NoIndex => k = a.idx
                          /\ p.elements[k].kind = "Proxy" /\ ~ p.elements[k].owned
                          /\ p.elements[k].subject \in External
                          /\ r = Started(p.elements[k].subject, Element(x, k), 0)
            /\ a.idx \in DOMAIN p.elements =>
                   r = ReadSingle(v, Element(x, a.idx), p.elements[a.idx], NoIndex, instantly)
        <4> HIDE DEF r, p, x
        <4> QED  BY <3>1, <3>2, ArrayRead
      <3>4. r.code = "started" => /\ Apt(a, r) /\ r.by \in Observers
                                  /\ r.subject \in External /\ r.n = 0
        <4> SUFFICES ASSUME r.code = "started"
                     PROVE  /\ Apt(a, r) /\ r.by \in Observers
                            /\ r.subject \in External /\ r.n = 0
          OBVIOUS
        <4>1. PICK k \in DOMAIN p.elements :
                          /\ a.idx # NoIndex => k = a.idx
                          /\ p.elements[k].kind = "Proxy" /\ ~ p.elements[k].owned
                          /\ p.elements[k].subject \in External
                          /\ r = Started(p.elements[k].subject, Element(x, k), 0)
          BY <3>3
        <4>2. /\ r.by = <<a.device, a.object, a.property, k>>
              /\ r.subject = p.elements[k].subject /\ r.n = 0
          <5> HIDE DEF r
          <5> QED  BY <4>1 DEF Started, Element
        <4>3. Apt(a, r) /\ ProxyAt(r.by) = p.elements[k]
          <5> HIDE DEF r
          <5> QED  BY <1>4, <2>2, <4>1, <4>2, NamedElement
        <4> QED  BY <4>1, <4>2, <4>3 DEF Apt, Observers
      <3>5. NamesExternal(a) => /\ a.idx \in DOMAIN p.elements
                                /\ p.elements[a.idx].kind = "Proxy"
                                /\ ~ p.elements[a.idx].owned
                                /\ p.elements[a.idx].subject \in External
                                /\ ProxyAt(Named(a)) = p.elements[a.idx]
                                /\ SubjectOf(a) = p.elements[a.idx].subject
        BY <2>2, NamedPlace DEF NamesExternal, Observers, SubjectOf
      <3>6. NamesExternal(a) =>
                /\ ~ instantly => r.code # "ack"
                /\ instantly /\ r.code = "ack" => r = Shown(ProxyAt(Named(a)), v[SubjectOf(a)])
        <4> SUFFICES ASSUME NamesExternal(a)
                     PROVE  /\ ~ instantly => r.code # "ack"
                            /\ instantly /\ r.code = "ack"
                                   => r = Shown(ProxyAt(Named(a)), v[SubjectOf(a)])
          OBVIOUS
        <4> DEFINE q == p.elements[a.idx]
                   one == ReadSingle(v, Element(x, a.idx), q, NoIndex, instantly)
        <4>1. r = one
          BY <3>3, <3>5
        <4>2. /\ q.kind = "Proxy" /\ ~ q.owned /\ q.subject \in External
              /\ ProxyAt(Named(a)) = q /\ SubjectOf(a) = q.subject
          BY <3>5
        <4> HIDE DEF q, x, r
        <4>3. /\ instantly /\ one.code = "ack" => one = Shown(q, v[q.subject])
              /\ ~ instantly => one.code # "ack"
          BY <4>2, SingleRead
        <4> QED  BY <4>1, <4>2, <4>3
      <3> QED  BY <3>3, <3>4, <3>6
    <2>3. CASE p.kind # "Array"
      <3>1. p.kind \in {"Simple", "Proxy"}
        BY <1>1, <1>4, <2>3, KindAssumption DEF KindAssumption
      <3>2. r = ReadSingle(v, x, p, a.idx, instantly)
        BY <2>1, <2>3
      <3>3. /\ r.code \in {"ack", "error", "started"}
            /\ r.code = "started" =>
                   /\ r = Started(p.subject, x, 0)
                   /\ p.kind = "Proxy" /\ ~ p.owned /\ p.subject \in External
                   /\ a.idx = NoIndex /\ ~ instantly /\ FreeIds # {}
            /\ p.kind = "Proxy" /\ instantly /\ r.code = "ack" => r = Shown(p, v[p.subject])
            /\ p.kind = "Proxy" /\ ~ p.owned /\ p.subject \in External /\ ~ instantly
                   => r.code # "ack"
        <4> HIDE DEF r
        <4> QED  BY <3>1, <3>2, SingleRead
      <3>4. r.code = "started" => /\ Apt(a, r) /\ r.by \in Observers
                                  /\ r.subject \in External /\ r.n = 0
        <4> SUFFICES ASSUME r.code = "started"
                     PROVE  /\ Apt(a, r) /\ r.by \in Observers
                            /\ r.subject \in External /\ r.n = 0
          OBVIOUS
        <4>1. r.by = x /\ r.subject = p.subject /\ r.n = 0
          BY <3>3 DEF Started
        <4>2. Apt(a, r) /\ ProxyAt(r.by) = p
          <5> HIDE DEF r
          <5> QED  BY <1>4, <3>3, <4>1, NamedSingle
        <4> QED  BY <3>3, <4>1, <4>2 DEF Apt, Observers
      <3>5. NamesExternal(a) => /\ p.kind = "Proxy" /\ ~ p.owned /\ p.subject \in External
                                /\ ProxyAt(Named(a)) = p /\ SubjectOf(a) = p.subject
        BY <2>3, NamedPlace DEF NamesExternal, Observers, SubjectOf
      <3>6. /\ NamesExternal(a) /\ ~ instantly => r.code # "ack"
            /\ NamesExternal(a) /\ instantly /\ r.code = "ack"
                   => r = Shown(ProxyAt(Named(a)), v[SubjectOf(a)])
        <4> HIDE DEF r, p
        <4> QED  BY <3>3, <3>5
      <3> QED  BY <3>3, <3>4, <3>6, Zenon
    <2> QED  BY <2>2, <2>3
  <1>5. CASE /\ ~ (a.object[1] = "device" /\ a.property \in DeviceData)
             /\ a.property \notin DOMAIN ObjectData /\ a.property \notin DOMAIN here
    <2>1. ~ NamesExternal(a)
      BY <1>5, NamedPlace DEF NamesExternal, Observers
    <2>2. \/ r = ReadSimple(default[a.property], a.idx)
          \/ r = Error("UnknownProperty")
      BY <1>5 DEF ReadProperty
    <2>3. r.code \in {"ack", "error"}
      BY <2>2 DEF ReadSimple, Ack, Error
    <2> QED  BY <2>1, <2>3
  <1> QED  BY <1>2, <1>3, <1>4, <1>5

\* A single property's write is done on the gateway's own subject or started on a
\* remote property, by the proxy it was made to.
LEMMA SingleWrite ==
    ASSUME NEW v, NEW x, NEW p, NEW a, NEW idx, p.kind \in {"Simple", "Proxy"},
           NEW r, r = WriteSingle(v, x, p, a, idx)
    PROVE  /\ r.code \in {"ack", "error", "stored", "started"}
           /\ r.code \in {"stored", "started"} =>
                  p.kind = "Proxy" /\ r.by = x /\ r.subject = p.subject /\ idx = NoIndex
           /\ r.code = "stored" => r.subject \notin External
           /\ r.code = "started" => r.subject \in External /\ FreeIds # {}
           /\ p.kind = "Proxy" => r.code # "ack"
  <1>1. CASE p.kind = "Simple"
    <2>1. r = WriteSimple(p, a, idx)
      BY <1>1 DEF WriteSingle
    <2> QED  BY <1>1, <2>1 DEF WriteSimple, Ack, Error
  <1>2. CASE p.kind = "Proxy"
    <2>1. r = WriteProxy(v, x, p, a, idx)
      BY <1>2 DEF WriteSingle
    <2>2. \/ r = Error("PropertyIsNotAnArray") \/ r = Error("Other")
          \/ idx = NoIndex /\ \E given, n : r = SetSubject(p.subject, x, given, n)
      BY <2>1 DEF WriteProxy
    <2>3. CASE idx = NoIndex /\ \E given, n : r = SetSubject(p.subject, x, given, n)
      <3>1. PICK given, n : r = SetSubject(p.subject, x, given, n)
        BY <2>3
      <3>2. CASE given # Layer.subjects[p.subject]
        <4>1. r = Error("Other")
          BY <3>1, <3>2 DEF SetSubject
        <4> QED  BY <4>1 DEF Error
      <3>3. CASE given = Layer.subjects[p.subject] /\ p.subject \notin External
        <4>1. r = [code |-> "stored", subject |-> p.subject, by |-> x, n |-> n]
          BY <3>1, <3>3 DEF SetSubject
        <4> QED  BY <1>2, <2>3, <3>3, <4>1
      <3>4. CASE given = Layer.subjects[p.subject] /\ p.subject \in External
        <4>1. r = WriteRequested(p.subject, x, given, n)
          BY <3>1, <3>4 DEF SetSubject
        <4> QED  BY <1>2, <2>3, <3>4, <4>1 DEF WriteRequested, Error, Started
      <3> QED  BY <3>2, <3>3, <3>4
    <2> QED  BY <2>2, <2>3 DEF Error
  <1> QED  BY <1>1, <1>2

\* What it stores or sends is what the observer's converter made of the number, and
\* on a remote property what that is converted to.
LEMMA SingleNumber ==
    ASSUME NEW v, NEW x, NEW p, NEW a, NEW idx, p.kind \in {"Simple", "Proxy"},
           NEW r, r = WriteSingle(v, x, p, a, idx), r.code \in {"stored", "started"},
           NEW n, n = ToInternal(p.conv, a.n, VariantOf[a.class], v[p.subject], SubjectType(p))
    PROVE  /\ n # Failed
           /\ p.conv.kind = "none" => VariantOf[a.class] = Layer.subjects[p.subject]
           /\ r.code = "stored" => p.subject \notin External /\ r.n = n
           /\ r.code = "started" => /\ p.subject \in External
                                    /\ r.n = Converted(n, VariantOf[Expects[p.subject]])
  <1>1. CASE p.kind = "Simple"
    <2>1. r = WriteSimple(p, a, idx)
      BY <1>1 DEF WriteSingle
    <2> QED  BY <2>1 DEF WriteSimple, Ack, Error
  <1>2. CASE p.kind = "Proxy"
    <2>1. r = WriteProxy(v, x, p, a, idx)
      BY <1>2 DEF WriteSingle
    <2>2. PICK given : given = IF p.conv.kind = "none" THEN VariantOf[a.class]
                               ELSE SubjectType(p)
      OBVIOUS
    <2>3. \/ r = Error("PropertyIsNotAnArray") \/ r = Error("Other")
          \/ n # Failed /\ r = SetSubject(p.subject, x, given, n)
      BY <2>1, <2>2 DEF WriteProxy
    <2>4. n # Failed /\ r = SetSubject(p.subject, x, given, n)
      BY <2>3 DEF Error
    <2>5. CASE given # Layer.subjects[p.subject]
      <3>1. r = Error("Other")
        BY <2>4, <2>5 DEF SetSubject
      <3> QED  BY <3>1 DEF Error
    <2>6. CASE given = Layer.subjects[p.subject] /\ p.subject \notin External
      <3>1. r = [code |-> "stored", subject |-> p.subject, by |-> x, n |-> n]
        BY <2>4, <2>6 DEF SetSubject
      <3> QED  BY <2>2, <2>4, <2>6, <3>1
    <2>7. CASE given = Layer.subjects[p.subject] /\ p.subject \in External
      <3>1. r = WriteRequested(p.subject, x, given, n)
        BY <2>4, <2>7 DEF SetSubject
      <3>2. r = Started(p.subject, x, Converted(n, VariantOf[Expects[p.subject]]))
        BY <3>1 DEF WriteRequested, Error
      <3> QED  BY <2>2, <2>4, <2>7, <3>2 DEF Started
    <2> QED  BY <2>5, <2>6, <2>7
  <1> QED  BY <1>1, <1>2

LEMMA WriteApt ==
    ASSUME NEW v, NEW a \in Asks, a.object \in DOMAIN Layer.devices[a.device],
           NEW r, r = WriteProperty(v, a)
    PROVE  /\ r.code \in {"ack", "error", "stored", "started"}
           /\ r.code \in {"stored", "started"} => Apt(a, r)
           /\ r.code = "stored" => r.subject \notin External
           /\ r.code = "started" => r.subject \in External /\ FreeIds # {}
           /\ Named(a) \in Proxies => r.code # "ack"
           /\ NamesExternal(a) => r.code \notin {"ack", "stored"}
  <1> DEFINE here == PropertiesAt(a.device, a.object)
             p == here[a.property]
             x == <<a.device, a.object, a.property, 0>>
  <1>1. a.device \in DOMAIN Layer.devices
    BY AskAssumption DEF AskAssumption
  <1>2. CASE a.property \notin DOMAIN here
    <2>1. r = Error("UnknownProperty")
      BY <1>2 DEF WriteProperty
    <2> QED  BY <2>1 DEF Error
  <1>3. CASE a.property \in DOMAIN here /\ p.kind = "Array"
    <2>1. r = WriteArray(v, x, p, a)
      BY <1>3 DEF WriteProperty
    <2>2. \/ r = Error("WriteAccessDenied") \/ r = Error("InvalidArrayIndex")
          \/ /\ a.idx \in 1 .. Len(p.elements) - 1 /\ a.idx # NoIndex
             /\ r = WriteSingle(v, Element(x, a.idx), p.elements[a.idx], a, NoIndex)
      <3> HIDE DEF p, x
      <3> QED  BY <2>1 DEF WriteArray, NoIndex, NoNumber
    <2>3. CASE /\ a.idx \in 1 .. Len(p.elements) - 1 /\ a.idx # NoIndex
               /\ r = WriteSingle(v, Element(x, a.idx), p.elements[a.idx], a, NoIndex)
      <3> DEFINE q == p.elements[a.idx]
      <3>1. /\ DOMAIN p.elements = 1 .. Len(p.elements)
            /\ \A k \in DOMAIN p.elements : p.elements[k].kind \in {"Simple", "Proxy"}
        BY <1>1, <1>3, KindAssumption DEF KindAssumption
      <3>2. a.idx \in DOMAIN p.elements
        <4>1. Len(p.elements) \in Int \/ ~ (Len(p.elements) \in Int)
          OBVIOUS
        <4> QED  BY <2>3, <3>1
      <3>3. q.kind \in {"Simple", "Proxy"}
        BY <3>1, <3>2
      <3>4. /\ r.code \in {"ack", "error", "stored", "started"}
            /\ r.code \in {"stored", "started"} =>
                   q.kind = "Proxy" /\ r.by = Element(x, a.idx) /\ r.subject = q.subject
            /\ r.code = "stored" => r.subject \notin External
            /\ r.code = "started" => r.subject \in External /\ FreeIds # {}
            /\ q.kind = "Proxy" => r.code # "ack"
        <4> HIDE DEF q, x
        <4>1. r = WriteSingle(v, Element(x, a.idx), q, a, NoIndex)
          BY <2>3 DEF q
        <4> QED  BY <3>3, <4>1, SingleWrite
      <3>5. Element(x, a.idx) = <<a.device, a.object, a.property, a.idx>>
        BY DEF Element
      <3>6. r.code \in {"stored", "started"} => Apt(a, r)
        BY <1>3, <3>2, <3>4, <3>5, NamedElement
      <3>7. /\ Named(a) \in Proxies => q.kind = "Proxy"
            /\ NamesExternal(a) => q.kind = "Proxy" /\ q.subject \in External
        BY <1>3, NamedPlace DEF NamesExternal, Observers, SubjectOf
      <3> QED  BY <3>4, <3>6, <3>7
    <2> QED  BY <2>2, <2>3 DEF Error
  <1>4. CASE a.property \in DOMAIN here /\ p.kind # "Array"
    <2>1. r = WriteSingle(v, x, p, a, a.idx)
      BY <1>4 DEF WriteProperty
    <2>2. p.kind \in {"Simple", "Proxy"}
      BY <1>1, <1>4, KindAssumption DEF KindAssumption
    <2>3. /\ r.code \in {"ack", "error", "stored", "started"}
          /\ r.code \in {"stored", "started"} =>
                 p.kind = "Proxy" /\ r.by = x /\ r.subject = p.subject /\ a.idx = NoIndex
          /\ r.code = "stored" => r.subject \notin External
          /\ r.code = "started" => r.subject \in External /\ FreeIds # {}
          /\ p.kind = "Proxy" => r.code # "ack"
      <3> HIDE DEF p, x
      <3> QED  BY <2>1, <2>2, SingleWrite
    <2>4. r.code \in {"stored", "started"} => Apt(a, r)
      BY <1>4, <2>3, NamedSingle
    <2>5. /\ Named(a) \in Proxies => p.kind = "Proxy"
          /\ NamesExternal(a) => p.kind = "Proxy" /\ p.subject \in External
      BY <1>4, NamedPlace DEF NamesExternal, Observers, SubjectOf
    <2> QED  BY <2>3, <2>4, <2>5
  <1> QED  BY <1>2, <1>3, <1>4

\* A write that is done or sent was made to the proxy it names, with what its
\* converter makes of the number.
LEMMA WriteMade ==
    ASSUME NEW v, NEW a \in Asks, a.service = "Write",
           NEW r, r = WriteProperty(v, a), r.code \in {"stored", "started"},
           NEW q, q = ProxyAt(Named(a)),
           NEW n, n = ToInternal(q.conv, a.n, VariantOf[a.class], v[q.subject], SubjectType(q))
    PROVE  /\ Named(a) \in Proxies /\ r.by = Named(a) /\ r.subject = q.subject
           /\ n # Failed
           /\ q.conv.kind = "none" => VariantOf[a.class] = Layer.subjects[q.subject]
           /\ r.code = "stored" => q.subject \notin External /\ r.n = n
           /\ r.code = "started" => /\ q.subject \in External
                                    /\ r.n = Converted(n, VariantOf[Expects[q.subject]])
  <1> DEFINE here == PropertiesAt(a.device, a.object)
             p == here[a.property]
             x == <<a.device, a.object, a.property, 0>>
  <1>1. a.device \in DOMAIN Layer.devices /\ a.object \in DOMAIN Layer.devices[a.device]
    BY AskAssumption DEF AskAssumption
  <1>2. a.property \in DOMAIN here
    <2>1. CASE a.property \notin DOMAIN here
      <3>1. r = Error("UnknownProperty")
        BY <2>1 DEF WriteProperty
      <3> QED  BY <3>1 DEF Error
    <2> QED  BY <2>1
  <1>3. Named(a) \in Proxies => r.by = Named(a)
    BY <1>1, WriteApt DEF Apt
  <1>4. CASE p.kind = "Array"
    <2>1. r = WriteArray(v, x, p, a)
      BY <1>2, <1>4 DEF WriteProperty
    <2>2. /\ a.idx \in 1 .. Len(p.elements) - 1 /\ a.idx # NoIndex
          /\ r = WriteSingle(v, Element(x, a.idx), p.elements[a.idx], a, NoIndex)
      <3> HIDE DEF p, x
      <3> QED  BY <2>1 DEF WriteArray, NoIndex, NoNumber, Error
    <2> DEFINE e == p.elements[a.idx]
    <2>3. /\ DOMAIN p.elements = 1 .. Len(p.elements)
          /\ \A k \in DOMAIN p.elements : p.elements[k].kind \in {"Simple", "Proxy"}
      BY <1>1, <1>2, <1>4, KindAssumption DEF KindAssumption
    <2>4. a.idx \in DOMAIN p.elements
      <3>1. Len(p.elements) \in Int \/ ~ (Len(p.elements) \in Int)
        OBVIOUS
      <3> QED  BY <2>2, <2>3
    <2>5. e.kind \in {"Simple", "Proxy"}
      BY <2>3, <2>4
    <2>6. e.kind = "Proxy" /\ r.subject = e.subject
      <3> HIDE DEF e, x
      <3>1. r = WriteSingle(v, Element(x, a.idx), e, a, NoIndex)
        BY <2>2 DEF e
      <3> QED  BY <2>5, <3>1, SingleWrite
    <2>7. Named(a) \in Proxies /\ ProxyAt(Named(a)) = e
      <3>1. Named(a) = <<a.device, a.object, a.property, a.idx>>
        BY <2>2 DEF Named
      <3> QED  BY <1>1, <1>2, <1>4, <2>4, <2>6, <3>1, ElementIsProxy
    <2>8. q = e /\ r = WriteSingle(v, Element(x, a.idx), q, a, NoIndex)
      BY <2>2, <2>7
    <2> HIDE DEF e, x
    <2> QED  BY <1>3, <2>5, <2>6, <2>7, <2>8, SingleNumber
  <1>5. CASE p.kind # "Array"
    <2>1. r = WriteSingle(v, x, p, a, a.idx)
      BY <1>2, <1>5 DEF WriteProperty
    <2>2. p.kind \in {"Simple", "Proxy"}
      BY <1>1, <1>2, <1>5, KindAssumption DEF KindAssumption
    <2>3. p.kind = "Proxy" /\ r.subject = p.subject /\ a.idx = NoIndex
      <3> HIDE DEF p, x
      <3> QED  BY <2>1, <2>2, SingleWrite
    <2>4. Named(a) \in Proxies /\ ProxyAt(Named(a)) = p
      <3>1. Named(a) = <<a.device, a.object, a.property, 0>>
        BY <2>3 DEF Named
      <3> QED  BY <1>1, <1>2, <2>3, <3>1, SingleIsProxy
    <2>5. q = p /\ r = WriteSingle(v, x, q, a, a.idx)
      BY <2>1, <2>4
    <2> HIDE DEF p, x
    <2> QED  BY <1>3, <2>2, <2>3, <2>4, <2>5, SingleNumber
  <1> QED  BY <1>4, <1>5

\* It leaves in its subject, or sends, a number the subject can hold; if converters
\* give back what is written, one that is read back, and other masks see no change.
LEMMA WriteNumber ==
    ASSUME NEW v, \A s \in Subjects : v[s] \in Numbers[s] \cup {Null},
           NEW a \in Asks, a.service = "Write",
           NEW r, r = WriteProperty(v, a), r.code \in {"stored", "started"}
    PROVE  /\ Named(a) \in Proxies /\ r.by = Named(a) /\ r.subject = SubjectOf(a)
           /\ r.n \in Numbers[r.subject]
           /\ GivesBack => /\ ReadBackAs(a, r.n)
                           /\ r.code = "stored" => Leaves(a, v[r.subject], r.n)
  <1>1. PICK p : p = ProxyAt(Named(a))
    OBVIOUS
  <1>2. PICK n : n = ToInternal(p.conv, a.n, VariantOf[a.class], v[p.subject], SubjectType(p))
    OBVIOUS
  <1>3. /\ Named(a) \in Proxies /\ r.by = Named(a) /\ r.subject = p.subject
        /\ n # Failed
        /\ p.conv.kind = "none" => VariantOf[a.class] = Layer.subjects[p.subject]
        /\ r.code = "stored" => p.subject \notin External /\ r.n = n
        /\ r.code = "started" => /\ p.subject \in External
                                 /\ r.n = Converted(n, VariantOf[Expects[p.subject]])
    BY <1>1, <1>2, WriteMade
  <1>4. v[p.subject] \in Numbers[p.subject] \cup {Null}
    BY <1>1, <1>3, ProxyAssumption DEF ProxyAssumption
  <1>5. r.n \in Numbers[r.subject]
    <2>1. \A there \in Numbers[p.subject] \cup {Null} :
              LET m == ToInternal(p.conv, a.n, VariantOf[a.class], there, SubjectType(p))
              IN \/ m = Failed
                 \/ p.subject \notin External /\ m \in Numbers[p.subject]
                 \/ /\ p.subject \in External
                    /\ Converted(m, VariantOf[Expects[p.subject]]) \in Numbers[p.subject]
      BY <1>1, <1>3, NumbersAssumption DEF NumbersAssumption
    <2> QED  BY <1>2, <1>3, <1>4, <2>1
  <1>6. ASSUME GivesBack
        PROVE  ReadBackAs(a, r.n) /\ (r.code = "stored" => Leaves(a, v[r.subject], r.n))
    <2>1. \A there \in Numbers[p.subject] \cup {Null} :
              LET m == ToInternal(p.conv, a.n, VariantOf[a.class], there, SubjectType(p))
              IN \/ m = Failed
                 \/ p.conv.kind = "none" /\ VariantOf[a.class] # Layer.subjects[p.subject]
                 \/ /\ p.subject \in External
                    /\ ReadBackAs(a, Converted(m, VariantOf[Expects[p.subject]]))
                 \/ p.subject \notin External /\ ReadBackAs(a, m) /\ Leaves(a, there, m)
      BY <1>1, <1>3, <1>6 DEF GivesBack
    <2> QED  BY <1>2, <1>3, <1>4, <2>1
  <1> QED  BY <1>1, <1>3, <1>5, <1>6 DEF SubjectOf

\* What a request brings about at once.
LEMMA OutcomeApt ==
    ASSUME NEW a \in Asks, NEW r, r = Outcome(a)
    PROVE  /\ r.code \in {"stored", "started"} => Apt(a, r)
           /\ r.code = "stored" => r.subject \notin External /\ a.service = "Write"
           /\ r.code = "started" => /\ r.subject \in External /\ r.by \in Observers
                                    /\ FreeIds # {} /\ a.service \in {"Read", "Write"}
                                    /\ a.object \in DOMAIN Layer.devices[a.device]
           /\ r.code = "started" /\ a.service = "Read" => r.n = 0
           /\ a.service = "Read" /\ NamesExternal(a) => r.code # "ack"
           /\ a.service = "Write" /\ NamesExternal(a) => r.code \notin {"ack", "stored"}
  <1>1. CASE a.service = "Read"
    <2>1. r = ExecuteRead(a)
      BY <1>1 DEF Outcome
    <2>2. CASE a.object \notin DOMAIN Layer.devices[a.device]
      <3>1. r = Error("UnknownObject")
        BY <2>1, <2>2 DEF ExecuteRead
      <3> QED  BY <3>1 DEF Error
    <2>3. CASE a.object \in DOMAIN Layer.devices[a.device]
      <3>1. r = ReadProperty(value, a, FALSE)
        BY <2>1, <2>3 DEF ExecuteRead
      <3>2. /\ r.code \in {"ack", "error", "started"}
            /\ r.code = "started" => /\ Apt(a, r) /\ r.by \in Observers
                                     /\ r.subject \in External /\ r.n = 0
                                     /\ FreeIds # {}
            /\ NamesExternal(a) => r.code # "ack"
        BY <2>3, <3>1, ReadApt
      <3> QED  BY <1>1, <2>3, <3>2
    <2> QED  BY <2>2, <2>3
  <1>2. CASE a.service = "Write"
    <2>1. r = WriteProperty(value, a)
      BY <1>2 DEF Outcome, ExecuteWrite
    <2>2. a.object \in DOMAIN Layer.devices[a.device]
      BY <1>2, AskAssumption DEF AskAssumption
    <2>3. /\ r.code \in {"ack", "error", "stored", "started"}
          /\ r.code \in {"stored", "started"} => Apt(a, r)
          /\ r.code = "stored" => r.subject \notin External
          /\ r.code = "started" => r.subject \in External /\ FreeIds # {}
          /\ NamesExternal(a) => r.code \notin {"ack", "stored"}
      BY <2>1, <2>2, WriteApt
    <2>4. r.code = "started" => r.by \in Observers
      BY <2>3, OwnedAssumption DEF Apt, OwnedAssumption, Observers
    <2> QED  BY <1>2, <2>2, <2>3, <2>4
  <1>3. CASE a.service \notin {"Read", "Write"}
    <2>1. r.code = "reject"
      BY <1>3 DEF Outcome, Reject
    <2> QED  BY <1>3, <2>1
  <1> QED  BY <1>1, <1>2, <1>3

-----------------------------------------------------------------------------
(* The inductive invariant. *)

\* The functions have the domains and records they were made with.
Shapes ==
    /\ value = [s \in Subjects |-> value[s]]
    /\ remote = [s \in External |-> remote[s]]
    /\ waiting = [i \in AsynchIds |-> waiting[i]]
    /\ client = [c \in Clients |-> [ask |-> client[c].ask, seen |-> client[c].seen,
                                    reached |-> client[c].reached]]

\* An operation under way is a client's, on the remote property that an observer
\* shows which the client named.
WaitApt(i) ==
    /\ waiting[i].code \in {"pending", "served"}
    /\ waiting[i] = [code |-> waiting[i].code, client |-> waiting[i].client,
                     subject |-> waiting[i].subject, by |-> waiting[i].by, n |-> waiting[i].n]
    /\ waiting[i].client \in Clients
    /\ waiting[i].subject \in External
    /\ AskOf(i) \in Asks
    /\ Apt(AskOf(i), waiting[i])

OneEach ==
    /\ \A c \in Clients :
           client[c] # Idle <=> \E i \in AsynchIds : InUse(i) /\ waiting[i].client = c
    /\ \A i, j \in AsynchIds :
           InUse(i) /\ InUse(j) /\ i # j => waiting[i].client # waiting[j].client

\* What a remote property holds, or held when it was read, the client has seen, and
\* a write that was served has reached it.
SeenBy(i) ==
    /\ waiting[i].code = "pending"
           => remote[waiting[i].subject] \in client[waiting[i].client].seen
    /\ waiting[i].code = "served" /\ AskOf(i).service = "Read"
           => waiting[i].n \in client[waiting[i].client].seen
    /\ waiting[i].code = "served" /\ AskOf(i).service # "Read"
           => client[waiting[i].client].reached = TRUE

Waits == /\ Shapes
         /\ OneEach
         /\ \A i \in AsynchIds : InUse(i) => WaitApt(i) /\ SeenBy(i)

Inv == Waits /\ ObserversCurrent /\ FreshAnswers

LEMMA NeverIdle ==
    ASSUME NEW a \in Asks
    PROVE  a # NoAsk
  BY AskAssumption DEF AskAssumption, NoAsk

LEMMA InitInv == Init => Inv
  <1> SUFFICES ASSUME Init
               PROVE  Inv
    OBVIOUS
  <1>1. Shapes
    BY DEF Init, Shapes, Idle
  <1>2. \A i \in AsynchIds : ~ InUse(i)
    BY DEF Init, InUse, Lost
  <1>3. OneEach
    BY <1>2 DEF Init, OneEach
  <1>4. ObserversCurrent
    <2>1. \A x \in Observers : ProxyAt(x).subject \in Subjects
      BY ProxyAssumption DEF ProxyAssumption, Observers
    <2> QED  BY <2>1 DEF Init, ObserversCurrent
  <1>5. FreshAnswers
    BY DEF Init, FreshAnswers, Silence
  <1> QED  BY <1>1, <1>2, <1>3, <1>4, <1>5 DEF Inv, Waits

LEMMA StartWaits ==
    ASSUME Waits, NEW c \in Clients, client[c] = Idle, NEW a \in Asks,
           NEW r, r = Outcome(a), Start(c, a, r)
    PROVE  Waits'
  <1>1. PICK i \in FreeIds :
            waiting' = [waiting EXCEPT ![i] =
               [code |-> "pending", client |-> c, subject |-> r.subject, by |-> r.by, n |-> r.n]]
    BY DEF Start
  <1>2. i \in AsynchIds /\ ~ InUse(i)
    BY DEF FreeIds, InUse
  <1>3. Apt(a, r) /\ r.subject \in External
    BY OutcomeApt DEF Start
  <1>4. /\ client' = [client EXCEPT ![c] = [ask |-> a, seen |-> {remote[r.subject]},
                                             reached |-> FALSE]]
        /\ remote' = remote /\ value' = value
    BY DEF Start
  <1>5. /\ waiting'[i] = [code |-> "pending", client |-> c, subject |-> r.subject,
                          by |-> r.by, n |-> r.n]
        /\ \A j \in AsynchIds : j # i => waiting'[j] = waiting[j]
    BY <1>1, <1>2 DEF Waits, Shapes
  <1>6. /\ client'[c] = [ask |-> a, seen |-> {remote[r.subject]}, reached |-> FALSE]
        /\ \A d \in Clients : d # c => client'[d] = client[d]
    BY <1>4 DEF Waits, Shapes
  <1>7. Shapes'
    BY <1>1, <1>4, <1>5, <1>6 DEF Waits, Shapes
  <1>8. \A j \in AsynchIds : InUse(j) => /\ j # i /\ waiting[j].client # c
                                         /\ waiting[j].client \in Clients
    BY <1>2 DEF Waits, OneEach, WaitApt
  <1>9. /\ InUse(i)'
        /\ \A j \in AsynchIds : j # i => InUse(j)' = InUse(j)
    BY <1>5 DEF InUse
  <1>10. OneEach'
    <2>1. client'[c] # Idle
      BY <1>6, NeverIdle DEF Idle
    <2>2. \A d \in Clients :
             (client[d] # Idle)' <=> \E j \in AsynchIds : InUse(j)' /\ waiting'[j].client = d
      <3> SUFFICES ASSUME NEW d \in Clients
                   PROVE  client'[d] # Idle
                          <=> \E j \in AsynchIds : InUse(j)' /\ waiting'[j].client = d
        BY DEF Idle, NoAsk
      <3>1. CASE d = c
        BY <1>2, <1>5, <1>9, <2>1, <3>1
      <3>2. CASE d # c
        <4>1. client[d] # Idle <=> \E j \in AsynchIds : InUse(j) /\ waiting[j].client = d
          BY DEF Waits, OneEach
        <4>2. (\E j \in AsynchIds : InUse(j)' /\ waiting'[j].client = d)
              <=> \E j \in AsynchIds : InUse(j) /\ waiting[j].client = d
          BY <1>2, <1>5, <1>9, <3>2
        <4> QED  BY <1>6, <3>2, <4>1, <4>2
      <3> QED  BY <3>1, <3>2
    <2>3. \A j, k \in AsynchIds :
             InUse(j)' /\ InUse(k)' /\ j # k => waiting'[j].client # waiting'[k].client
      BY <1>2, <1>5, <1>8, <1>9 DEF Waits, OneEach
    <2> QED  BY <2>2, <2>3 DEF OneEach
  <1>11. WaitApt(i)' /\ SeenBy(i)'
    <2>1. AskOf(i)' = a
      BY <1>5, <1>6 DEF AskOf
    <2>2. Apt(a, waiting'[i])
      BY <1>3, <1>5 DEF Apt
    <2>3. Apt(AskOf(i), waiting[i])'
      BY <2>1, <2>2 DEF Apt, Named
    <2>4. WaitApt(i)'
      BY <1>3, <1>5, <2>1, <2>3 DEF WaitApt
    <2> QED  BY <1>4, <1>5, <1>6, <2>4 DEF SeenBy
  <1>12. ASSUME NEW j \in AsynchIds, InUse(j)', j # i
         PROVE  WaitApt(j)' /\ SeenBy(j)'
    <2>1. WaitApt(j) /\ SeenBy(j) /\ InUse(j)
      BY <1>9, <1>12 DEF Waits
    <2>2. waiting'[j] = waiting[j] /\ client'[waiting[j].client] = client[waiting[j].client]
      BY <1>5, <1>6, <1>8, <1>12, <2>1
    <2>3. AskOf(j)' = AskOf(j)
      BY <2>2 DEF AskOf
    <2>4. WaitApt(j)'
      BY <2>1, <2>2, <2>3 DEF WaitApt, Apt, Named
    <2> QED  BY <1>4, <2>1, <2>2, <2>3, <2>4 DEF SeenBy
  <1> QED  BY <1>7, <1>10, <1>11, <1>12 DEF Waits

LEMMA FinishWaits ==
    ASSUME Waits, NEW i \in AsynchIds, InUse(i), NEW answer, Finish(i, answer),
           remote' = remote, Shapes'
    PROVE  Waits'
  <1> DEFINE c == waiting[i].client
  <1>1. /\ waiting' = [waiting EXCEPT ![i] = Lost]
        /\ client' = [client EXCEPT ![c] = Idle]
    BY DEF Finish
  <1>2. WaitApt(i) /\ c \in Clients
    BY DEF Waits, WaitApt
  <1> HIDE DEF c
  <1>3. /\ waiting'[i] = Lost
        /\ \A j \in AsynchIds : j # i => waiting'[j] = waiting[j]
    BY <1>1 DEF Waits, Shapes
  <1>4. /\ client'[c] = Idle
        /\ \A d \in Clients : d # c => client'[d] = client[d]
    BY <1>1, <1>2 DEF Waits, Shapes
  <1>5. /\ ~ InUse(i)'
        /\ \A j \in AsynchIds : j # i => InUse(j)' = InUse(j)
    BY <1>3 DEF InUse, Lost
  <1>6. \A j \in AsynchIds : InUse(j) /\ j # i => waiting[j].client # c
    BY DEF Waits, OneEach, c
  <1>7. OneEach'
    <2>1. \A d \in Clients :
             client'[d] # Idle <=> \E j \in AsynchIds : InUse(j)' /\ waiting'[j].client = d
      <3> SUFFICES ASSUME NEW d \in Clients
                   PROVE  client'[d] # Idle
                          <=> \E j \in AsynchIds : InUse(j)' /\ waiting'[j].client = d
        OBVIOUS
      <3>1. CASE d = c
        BY <1>3, <1>4, <1>5, <1>6, <3>1
      <3>2. CASE d # c
        <4>1. client[d] # Idle <=> \E j \in AsynchIds : InUse(j) /\ waiting[j].client = d
          BY DEF Waits, OneEach
        <4>2. (\E j \in AsynchIds : InUse(j)' /\ waiting'[j].client = d)
              <=> \E j \in AsynchIds : InUse(j) /\ waiting[j].client = d
          BY <1>3, <1>5, <3>2 DEF c
        <4> QED  BY <1>4, <3>2, <4>1, <4>2
      <3> QED  BY <3>1, <3>2
    <2>2. \A j, k \in AsynchIds :
             InUse(j)' /\ InUse(k)' /\ j # k => waiting'[j].client # waiting'[k].client
      BY <1>3, <1>5 DEF Waits, OneEach
    <2>3. Idle' = Idle
      BY DEF Idle, NoAsk
    <2> QED  BY <2>1, <2>2, <2>3 DEF OneEach
  <1>8. ASSUME NEW j \in AsynchIds, InUse(j)'
        PROVE  WaitApt(j)' /\ SeenBy(j)'
    <2>1. j # i /\ WaitApt(j) /\ SeenBy(j) /\ InUse(j)
      BY <1>5, <1>8 DEF Waits
    <2>2. waiting'[j] = waiting[j] /\ client'[waiting[j].client] = client[waiting[j].client]
      BY <1>3, <1>4, <1>6, <2>1 DEF WaitApt
    <2>3. AskOf(j)' = AskOf(j)
      BY <2>2 DEF AskOf
    <2>4. WaitApt(j)'
      BY <2>1, <2>2, <2>3 DEF WaitApt, Apt, Named
    <2> QED  BY <2>1, <2>2, <2>3, <2>4 DEF SeenBy
  <1> QED  BY <1>7, <1>8 DEF Waits

ServedWith(w, n) == [code |-> "served", client |-> w.client, subject |-> w.subject,
                     by |-> w.by, n |-> n]

\* Whoever waits for a remote property sees what it comes to hold; an operation is
\* served, a read with a value that was seen, or stays as it was.
LEMMA RemoteWaits ==
    ASSUME Waits, Shapes',
           \A i \in AsynchIds : InUse(i) =>
               \/ remote'[waiting[i].subject] = remote[waiting[i].subject]
               \/ remote'[waiting[i].subject] \in client'[waiting[i].client].seen,
           \A c \in Clients : /\ client'[c].ask = client[c].ask
                              /\ client'[c] = client[c] \/ client[c] # Idle
                              /\ client[c].seen \subseteq client'[c].seen
                              /\ client[c].reached = TRUE => client'[c].reached = TRUE,
           \A i \in AsynchIds :
               \/ waiting'[i] = waiting[i]
               \/ \E n : /\ InUse(i) /\ waiting'[i] = ServedWith(waiting[i], n)
                         /\ AskOf(i).service = "Read" => n \in client[waiting[i].client].seen
                         /\ \/ AskOf(i).service = "Read"
                            \/ client'[waiting[i].client].reached = TRUE
    PROVE  Waits'
  <1>1. \A i \in AsynchIds : InUse(i) => WaitApt(i) /\ SeenBy(i)
    BY DEF Waits
  <1>2. ASSUME NEW i \in AsynchIds, InUse(i)
        PROVE  /\ InUse(i)'
               /\ waiting'[i].client = waiting[i].client
               /\ waiting'[i].subject = waiting[i].subject
               /\ waiting'[i].by = waiting[i].by
               /\ waiting'[i] = [code |-> waiting'[i].code, client |-> waiting'[i].client,
                     subject |-> waiting'[i].subject, by |-> waiting'[i].by,
                     n |-> waiting'[i].n]
               /\ waiting'[i] = waiting[i] \/ waiting'[i].code = "served"
    <2>1. CASE waiting'[i] = waiting[i]
      BY <1>1, <1>2, <2>1 DEF WaitApt, InUse
    <2>2. CASE \E n : waiting'[i] = ServedWith(waiting[i], n)
      BY <2>2 DEF ServedWith, InUse
    <2> QED  BY <2>1, <2>2
  <1>3. \A i \in AsynchIds : InUse(i)' <=> InUse(i)
    BY <1>2 DEF InUse
  <1>4. OneEach'
    <2>1. \A c \in Clients : client'[c] # Idle <=> client[c] # Idle
      <3> SUFFICES ASSUME NEW c \in Clients, client[c] # Idle
                   PROVE  client'[c] # Idle
        OBVIOUS
      <3>1. PICK i \in AsynchIds : InUse(i) /\ waiting[i].client = c
        BY DEF Waits, OneEach
      <3>2. client[c].ask \in Asks
        BY <1>1, <3>1 DEF WaitApt, AskOf
      <3> QED  BY <3>2, NeverIdle DEF Idle
    <2>2. Idle' = Idle
      BY DEF Idle, NoAsk
    <2>3. \A c \in Clients :
             (\E i \in AsynchIds : InUse(i)' /\ waiting'[i].client = c)
             <=> \E i \in AsynchIds : InUse(i) /\ waiting[i].client = c
      BY <1>2, <1>3
    <2>4. \A i, j \in AsynchIds :
             InUse(i)' /\ InUse(j)' /\ i # j => waiting'[i].client # waiting'[j].client
      <3>1. \A i, j \in AsynchIds :
                InUse(i) /\ InUse(j) /\ i # j => waiting[i].client # waiting[j].client
        BY DEF Waits, OneEach
      <3>2. \A i \in AsynchIds : InUse(i)' => InUse(i) /\ waiting'[i].client = waiting[i].client
        BY <1>2, <1>3
      <3> QED  BY <3>1, <3>2
    <2>5. \A c \in Clients :
             client'[c] # Idle <=> \E i \in AsynchIds : InUse(i)' /\ waiting'[i].client = c
      BY <2>1, <2>3 DEF Waits, OneEach
    <2> QED  BY <2>2, <2>4, <2>5 DEF OneEach
  <1>5. ASSUME NEW i \in AsynchIds, InUse(i)'
        PROVE  WaitApt(i)' /\ SeenBy(i)'
    <2>1. InUse(i) /\ WaitApt(i) /\ SeenBy(i)
      BY <1>1, <1>3, <1>5
    <2>2. waiting[i].client \in Clients /\ waiting[i].subject \in External
      BY <2>1 DEF WaitApt
    <2>3. AskOf(i)' = AskOf(i)
      BY <1>2, <2>1, <2>2 DEF AskOf
    <2>4. Apt(AskOf(i), waiting[i])'
      BY <1>2, <2>1, <2>3 DEF WaitApt, Apt, Named
    <2>5. waiting'[i].code \in {"pending", "served"}
      BY <1>2, <2>1 DEF WaitApt
    <2>6. WaitApt(i)'
      BY <1>2, <2>1, <2>2, <2>3, <2>4, <2>5 DEF WaitApt
    <2>7. waiting'[i].code = "pending"
              => remote'[waiting[i].subject] \in client'[waiting[i].client].seen
      BY <1>2, <2>1, <2>2 DEF SeenBy
    <2>8. waiting'[i].code = "served" /\ AskOf(i).service = "Read"
              => waiting'[i].n \in client'[waiting[i].client].seen
      <3>1. CASE waiting'[i] = waiting[i]
        BY <2>1, <2>2, <3>1 DEF SeenBy
      <3>2. CASE waiting'[i] # waiting[i]
        <4>1. PICK n : /\ AskOf(i).service = "Read" => n \in client[waiting[i].client].seen
                       /\ waiting'[i] = ServedWith(waiting[i], n)
          BY <3>2
        <4>2. waiting'[i].n = n
          BY <4>1 DEF ServedWith
        <4> QED  BY <2>2, <4>1, <4>2
      <3> QED  BY <3>1, <3>2
    <2>9. waiting'[i].code = "served" /\ AskOf(i).service # "Read"
              => client'[waiting[i].client].reached = TRUE
      BY <2>1, <2>2 DEF SeenBy
    <2> QED  BY <1>2, <2>1, <2>3, <2>6, <2>7, <2>8, <2>9 DEF SeenBy
  <1> QED  BY <1>4, <1>5 DEF Waits

LEMMA SeeingAll ==
    ASSUME Waits, NEW s, NEW n, NEW c \in Clients
    PROVE  /\ Seeing(s, n)[c].ask = client[c].ask
           /\ Seeing(s, n)[c] = client[c] \/ client[c] # Idle
           /\ Seeing(s, n)[c] = [ask |-> Seeing(s, n)[c].ask, seen |-> Seeing(s, n)[c].seen,
                                 reached |-> Seeing(s, n)[c].reached]
           /\ client[c].seen \subseteq Seeing(s, n)[c].seen
           /\ Seeing(s, n)[c].reached = client[c].reached
           /\ \A i \in AsynchIds : InUse(i) /\ waiting[i].client = c /\ waiting[i].subject = s
                  => n \in Seeing(s, n)[c].seen
  <1>1. client[c] = [ask |-> client[c].ask, seen |-> client[c].seen,
                     reached |-> client[c].reached]
    BY DEF Waits, Shapes
  <1>2. CASE \E i \in AsynchIds : InUse(i) /\ waiting[i].client = c /\ waiting[i].subject = s
    <2>1. Seeing(s, n)[c] = [ask |-> client[c].ask, seen |-> client[c].seen \cup {n},
                             reached |-> client[c].reached]
      BY <1>1, <1>2 DEF Seeing
    <2>2. client[c] # Idle
      BY <1>2 DEF Waits, OneEach
    <2> QED  BY <2>1, <2>2
  <1>3. CASE ~ \E i \in AsynchIds : InUse(i) /\ waiting[i].client = c /\ waiting[i].subject = s
    <2>1. Seeing(s, n)[c] = client[c]
      BY <1>3 DEF Seeing
    <2> QED  BY <1>1, <1>3, <2>1
  <1> QED  BY <1>2, <1>3

LEMMA ChangeWaits ==
    ASSUME Waits, NEW s \in External, NEW n, RemoteChanges(s, n)
    PROVE  Waits'
  <1>1. /\ remote' = [remote EXCEPT ![s] = n] /\ client' = Seeing(s, n)
        /\ value' = value /\ waiting' = waiting
    BY DEF RemoteChanges
  <1>2. Shapes'
    <2>1. client' = [c \in Clients |-> client'[c]]
      BY <1>1 DEF Seeing
    <2>2. \A c \in Clients : client'[c] = [ask |-> client'[c].ask, seen |-> client'[c].seen,
                                          reached |-> client'[c].reached]
      BY <1>1, SeeingAll
    <2>3. client' = [c \in Clients |-> [ask |-> client'[c].ask, seen |-> client'[c].seen,
                                        reached |-> client'[c].reached]]
      BY <2>1, <2>2
    <2> QED  BY <1>1, <2>3 DEF Waits, Shapes
  <1>3. \A c \in Clients : /\ client'[c].ask = client[c].ask
                           /\ client'[c] = client[c] \/ client[c] # Idle
                           /\ client[c].seen \subseteq client'[c].seen
                           /\ client[c].reached = TRUE => client'[c].reached = TRUE
    <2> SUFFICES ASSUME NEW c \in Clients
                 PROVE  /\ client'[c].ask = client[c].ask
                        /\ client'[c] = client[c] \/ client[c] # Idle
                        /\ client[c].seen \subseteq client'[c].seen
                        /\ client[c].reached = TRUE => client'[c].reached = TRUE
      OBVIOUS
    <2> DEFINE after == Seeing(s, n)[c]
    <2>1. /\ after.ask = client[c].ask
          /\ after = client[c] \/ client[c] # Idle
          /\ client[c].seen \subseteq after.seen
          /\ after.reached = client[c].reached
      BY SeeingAll
    <2>2. client'[c] = after
      BY <1>1
    <2> HIDE DEF after
    <2> QED  BY <2>1, <2>2
  <1>4. ASSUME NEW i \in AsynchIds, InUse(i)
        PROVE  \/ remote'[waiting[i].subject] = remote[waiting[i].subject]
               \/ remote'[waiting[i].subject] \in client'[waiting[i].client].seen
    <2>1. waiting[i].client \in Clients /\ waiting[i].subject \in External
      BY <1>4 DEF Waits, WaitApt
    <2>2. CASE waiting[i].subject = s
      BY <1>1, <1>4, <2>1, <2>2, SeeingAll DEF Waits, Shapes
    <2>3. CASE waiting[i].subject # s
      BY <1>1, <2>1, <2>3 DEF Waits, Shapes
    <2> QED  BY <2>2, <2>3
  <1> QED  BY <1>1, <1>2, <1>3, <1>4, RemoteWaits

LEMMA ServeWaits ==
    ASSUME Waits, NEW i \in AsynchIds, RemoteServes(i)
    PROVE  Waits'
  <1> DEFINE s == waiting[i].subject
             c == waiting[i].client
             n == waiting[i].n
  <1>1. InUse(i) /\ value' = value
    BY DEF RemoteServes, InUse
  <1>2. /\ WaitApt(i) /\ SeenBy(i) /\ c \in Clients /\ s \in External
        /\ waiting[i].code = "pending" /\ remote[s] \in client[c].seen
    BY <1>1 DEF Waits, WaitApt, SeenBy, RemoteServes
  <1>3. CASE AskOf(i).service = "Read"
    <2>1. /\ waiting' = [waiting EXCEPT ![i].code = "served", ![i].n = remote[s]]
          /\ remote' = remote /\ client' = client
      BY <1>3 DEF RemoteServes
    <2>2. /\ waiting'[i] = ServedWith(waiting[i], remote[s])
          /\ \A j \in AsynchIds : j # i => waiting'[j] = waiting[j]
      BY <1>2, <2>1 DEF Waits, Shapes, WaitApt, ServedWith
    <2>3. Shapes'
      BY <1>1, <2>1 DEF Waits, Shapes
    <2>4. \A j \in AsynchIds :
              \/ waiting'[j] = waiting[j]
              \/ \E m : /\ InUse(j) /\ waiting'[j] = ServedWith(waiting[j], m)
                        /\ AskOf(j).service = "Read" => m \in client[waiting[j].client].seen
                        /\ \/ AskOf(j).service = "Read"
                           \/ client'[waiting[j].client].reached = TRUE
      BY <1>1, <1>2, <1>3, <2>2
    <2> QED  BY <2>1, <2>3, <2>4, RemoteWaits
  <1>4. CASE AskOf(i).service # "Read"
    <2>1. /\ waiting' = [waiting EXCEPT ![i].code = "served"]
          /\ remote' = [remote EXCEPT ![s] = n]
          /\ client' = [Seeing(s, n) EXCEPT ![c].reached = TRUE]
      BY <1>4 DEF RemoteServes
    <2>2. /\ waiting'[i] = ServedWith(waiting[i], n)
          /\ \A j \in AsynchIds : j # i => waiting'[j] = waiting[j]
      BY <1>2, <2>1 DEF Waits, Shapes, WaitApt, ServedWith
    <2>3. \A d \in Clients : /\ client'[d].ask = Seeing(s, n)[d].ask
                             /\ client'[d].seen = Seeing(s, n)[d].seen
                             /\ client'[d] = Seeing(s, n)[d] \/ d = c
                             /\ d = c => client'[d].reached = TRUE
                             /\ client'[d] = [ask |-> client'[d].ask, seen |-> client'[d].seen,
                                              reached |-> client'[d].reached]
      <3> HIDE DEF s, c, n
      <3> DEFINE after == Seeing(s, n)
      <3>1. after = [d \in Clients |-> after[d]]
        BY DEF Seeing
      <3>2. \A d \in Clients : after[d] = [ask |-> after[d].ask, seen |-> after[d].seen,
                                           reached |-> after[d].reached]
        BY SeeingAll
      <3>3. client' = [after EXCEPT ![c] = [after[c] EXCEPT !.reached = TRUE]]
        BY <2>1
      <3> HIDE DEF after
      <3>4. [after[c] EXCEPT !.reached = TRUE]
                = [ask |-> after[c].ask, seen |-> after[c].seen, reached |-> TRUE]
        <4>1. PICK ask, seen, reached :
                  after[c] = [ask |-> ask, seen |-> seen, reached |-> reached]
          BY <1>2, <3>2
        <4>2. [[ask |-> ask, seen |-> seen, reached |-> reached] EXCEPT !.reached = TRUE]
              = [ask |-> ask, seen |-> seen, reached |-> TRUE]
          <5>1. \A yes : [[ask |-> ask, seen |-> seen, reached |-> reached] EXCEPT !.reached = yes]
                        = [ask |-> ask, seen |-> seen, reached |-> yes]
            OBVIOUS
          <5> QED  BY <5>1, Zenon
        <4> QED  BY <4>1, <4>2
      <3>5. /\ client'[c] = [ask |-> after[c].ask, seen |-> after[c].seen, reached |-> TRUE]
            /\ \A d \in Clients : d # c => client'[d] = after[d]
        BY <1>2, <3>1, <3>3, <3>4
      <3>6. \A d \in Clients : /\ client'[d].ask = after[d].ask
                               /\ client'[d].seen = after[d].seen
                               /\ client'[d] = after[d] \/ d = c
                               /\ d = c => client'[d].reached = TRUE
                               /\ client'[d] = [ask |-> client'[d].ask, seen |-> client'[d].seen,
                                                reached |-> client'[d].reached]
        BY <3>2, <3>5
      <3> QED  BY <3>6 DEF after
    <2>4. client[c] # Idle
      BY <1>1, <1>2 DEF Waits, OneEach
    <2>5. \A d \in Clients : /\ client'[d].ask = client[d].ask
                             /\ client'[d] = client[d] \/ client[d] # Idle
                             /\ client[d].seen \subseteq client'[d].seen
                             /\ client[d].reached = TRUE => client'[d].reached = TRUE
      <3> HIDE DEF s, c, n
      <3> SUFFICES ASSUME NEW d \in Clients
                   PROVE  /\ client'[d].ask = client[d].ask
                          /\ client'[d] = client[d] \/ client[d] # Idle
                          /\ client[d].seen \subseteq client'[d].seen
                          /\ client[d].reached = TRUE => client'[d].reached = TRUE
        OBVIOUS
      <3>1. /\ Seeing(s, n)[d].ask = client[d].ask
            /\ Seeing(s, n)[d] = client[d] \/ client[d] # Idle
            /\ client[d].seen \subseteq Seeing(s, n)[d].seen
            /\ Seeing(s, n)[d].reached = client[d].reached
        BY SeeingAll
      <3>2. /\ client'[d].ask = Seeing(s, n)[d].ask
            /\ client'[d].seen = Seeing(s, n)[d].seen
            /\ client'[d] = Seeing(s, n)[d] \/ d = c
            /\ d = c => client'[d].reached = TRUE
        BY <2>3
      <3> QED  BY <2>4, <3>1, <3>2
    <2>6. Shapes'
      <3>1. client' = [d \in Clients |-> client'[d]]
        BY <2>1 DEF Seeing
      <3>2. client' = [d \in Clients |-> [ask |-> client'[d].ask, seen |-> client'[d].seen,
                                          reached |-> client'[d].reached]]
        BY <2>3, <3>1
      <3> QED  BY <1>1, <2>1, <3>2 DEF Waits, Shapes
    <2>7. ASSUME NEW j \in AsynchIds, InUse(j)
          PROVE  \/ remote'[waiting[j].subject] = remote[waiting[j].subject]
                 \/ remote'[waiting[j].subject] \in client'[waiting[j].client].seen
      <3>1. waiting[j].client \in Clients /\ waiting[j].subject \in External
        BY <2>7 DEF Waits, WaitApt
      <3>2. CASE waiting[j].subject = s
        <4>1. remote'[s] = n
          BY <1>2, <2>1 DEF Waits, Shapes
        <4>2. n \in Seeing(s, n)[waiting[j].client].seen
          BY <2>7, <3>1, <3>2, SeeingAll
        <4> QED  BY <2>3, <3>1, <3>2, <4>1, <4>2
      <3>3. CASE waiting[j].subject # s
        BY <2>1, <3>1, <3>3 DEF Waits, Shapes
      <3> QED  BY <3>2, <3>3
    <2>8. \A j \in AsynchIds :
              \/ waiting'[j] = waiting[j]
              \/ \E m : /\ InUse(j) /\ waiting'[j] = ServedWith(waiting[j], m)
                        /\ AskOf(j).service = "Read" => m \in client[waiting[j].client].seen
                        /\ \/ AskOf(j).service = "Read"
                           \/ client'[waiting[j].client].reached = TRUE
      BY <1>1, <1>2, <1>4, <2>2, <2>3
    <2> QED  BY <2>5, <2>6, <2>7, <2>8, RemoteWaits
  <1> QED  BY <1>3, <1>4

-----------------------------------------------------------------------------
(* Steps. *)

\* All of a subject's observers hear of its value, or nobody but one of them needs to.
LEMMA HeardIsKnown ==
    ASSUME ObserversCurrent, NEW s, NEW x, NEW others,
           x \in Proxies, ProxyAt(x).subject = s,
           \A t \in Subjects : t # s => value'[t] = value[t],
           others \/ value'[s] = value[s],
           told' = Heard(s, x, others, value'[s])
    PROVE  ObserversCurrent'
  <1> SUFFICES ASSUME NEW y \in Observers
               PROVE  told'[y] = value'[ProxyAt(y).subject]
    BY DEF ObserversCurrent, Observers, Proxies, ProxyAt
  <1>1. ProxyAt(y).subject \in Subjects /\ told[y] = value[ProxyAt(y).subject]
    BY ProxyAssumption DEF ProxyAssumption, Observers, ObserversCurrent
  <1>2. told'[y] = IF y = x \/ (others /\ y \in ObserversOf(s)) THEN value'[s] ELSE told[y]
    BY DEF Heard
  <1>3. y \in ObserversOf(s) <=> ProxyAt(y).subject = s
    BY DEF ObserversOf
  <1> QED  BY <1>1, <1>2, <1>3

LEMMA ToldIsKnown ==
    ASSUME Shapes, ObserversCurrent, NEW s \in Subjects, NEW n,
           value' = [value EXCEPT ![s] = n],
           told' = [y \in Observers |-> IF y \in ObserversOf(s) THEN n ELSE told[y]]
    PROVE  ObserversCurrent'
  <1> SUFFICES ASSUME NEW y \in Observers
               PROVE  told'[y] = value'[ProxyAt(y).subject]
    BY DEF ObserversCurrent
  <1>1. ProxyAt(y).subject \in Subjects /\ told[y] = value[ProxyAt(y).subject]
    BY ProxyAssumption DEF ProxyAssumption, Observers, ObserversCurrent
  <1>2. y \in ObserversOf(s) <=> ProxyAt(y).subject = s
    BY DEF ObserversOf
  <1> QED  BY <1>1, <1>2 DEF Shapes

LEMMA SameKnown ==
    ASSUME ObserversCurrent, value' = value, told' = told
    PROVE  ObserversCurrent'
  BY DEF ObserversCurrent

LEMMA SameWaits ==
    ASSUME Waits, remote' = remote, waiting' = waiting, client' = client, Shapes'
    PROVE  Waits'
  <1>1. OneEach'
    <2>1. Idle' = Idle
      BY DEF Idle, NoAsk
    <2> QED  BY <2>1 DEF Waits, OneEach, InUse
  <1>2. \A i \in AsynchIds : InUse(i)' => WaitApt(i)' /\ SeenBy(i)'
    BY DEF Waits, InUse, WaitApt, SeenBy, AskOf, Apt, Named
  <1> QED  BY <1>1, <1>2 DEF Waits

\* Nothing is acknowledged to a request that reads a remote property.
LEMMA SilenceIsFresh ==
    ASSUME said'.is.code = "ack" /\ said'.ask.service = "Read" => ~ NamesExternal(said'.ask)
    PROVE  FreshAnswers'
  BY DEF FreshAnswers, NamesExternal

LEMMA RequestInv ==
    ASSUME Inv, NEW c \in Clients, NEW a \in Asks, ProcessConfirmedRequest(c, a)
    PROVE  Inv'
  <1>1. PICK r : r = Outcome(a) /\ (AnswerAtOnce(c, a, r) \/ Store(c, a, r) \/ Start(c, a, r))
    BY DEF ProcessConfirmedRequest
  <1>2. /\ Waits /\ Shapes /\ ObserversCurrent /\ client[c] = Idle
    BY DEF Inv, Waits, ProcessConfirmedRequest
  <1>3. /\ r.code \in {"stored", "started"} => Apt(a, r)
        /\ r.code = "stored" => r.subject \notin External /\ a.service = "Write"
        /\ a.service = "Read" /\ NamesExternal(a) => r.code # "ack"
    BY <1>1, OutcomeApt
  <1>4. CASE AnswerAtOnce(c, a, r)
    <2>1. /\ value' = value /\ remote' = remote /\ waiting' = waiting
          /\ client' = client /\ told' = told /\ said' = Says(c, a, r)
      BY <1>4 DEF AnswerAtOnce
    <2>2. Waits'
      BY <1>2, <2>1, SameWaits DEF Shapes
    <2>3. FreshAnswers'
      BY <1>3, <2>1, SilenceIsFresh DEF Says, Silence
    <2> QED  BY <1>2, <2>1, <2>2, <2>3, SameKnown DEF Inv
  <1>5. CASE Store(c, a, r)
    <2> DEFINE changes == ProxyAt(r.by).owned \/ NumberOf(value[r.subject]) # r.n
    <2>1. /\ value' = IF changes THEN [value EXCEPT ![r.subject] = r.n] ELSE value
          /\ told' = Heard(r.subject, r.by, changes, value'[r.subject])
          /\ remote' = remote /\ waiting' = waiting /\ client' = client
          /\ said' = Says(c, a, Ack(<<>>)) /\ r.code = "stored"
      BY <1>5 DEF Store
    <2>2. r.by \in Proxies /\ ProxyAt(r.by).subject = r.subject
      BY <1>3, <2>1 DEF Apt
    <2>3. /\ \A t \in Subjects : t # r.subject => value'[t] = value[t]
          /\ changes \/ value'[r.subject] = value[r.subject]
      BY <1>2, <2>1 DEF Shapes
    <2>4. ObserversCurrent'
      <3> HIDE DEF changes
      <3> QED  BY <1>2, <2>1, <2>2, <2>3, HeardIsKnown
    <2>5. Waits'
      BY <1>2, <2>1, SameWaits DEF Shapes
    <2>6. FreshAnswers'
      BY <1>3, <2>1, SilenceIsFresh DEF Says, Silence
    <2> QED  BY <2>4, <2>5, <2>6 DEF Inv
  <1>6. CASE Start(c, a, r)
    <2>1. value' = value /\ told' = told /\ said' = Silence
      BY <1>6 DEF Start
    <2>2. Waits'
      BY <1>1, <1>2, <1>6, StartWaits
    <2>3. FreshAnswers'
      BY <2>1 DEF FreshAnswers, Silence
    <2> QED  BY <1>2, <2>1, <2>2, <2>3, SameKnown DEF Inv
  <1> QED  BY <1>1, <1>4, <1>5, <1>6

LEMMA ReadAnsweredInv ==
    ASSUME Inv, NEW i \in AsynchIds, ReadAnswered(i)
    PROVE  Inv'
  <1> DEFINE s == waiting[i].subject
             n == waiting[i].n
             c == waiting[i].client
             a == AskOf(i)
  <1>1. /\ waiting[i].code = "served" /\ a.service = "Read"
        /\ value' = ReadValue(s, n) /\ remote' = remote
        /\ told' = Heard(s, waiting[i].by, TRUE, value'[s])
        /\ Finish(i, FinishReading(value', a))
    BY DEF ReadAnswered
  <1>2. InUse(i) /\ Waits /\ Shapes /\ ObserversCurrent
    BY <1>1 DEF InUse, Inv, Waits
  <1>3. WaitApt(i) /\ SeenBy(i)
    BY <1>2 DEF Waits
  <1>4. /\ a \in Asks /\ s \in External /\ c \in Clients /\ Apt(a, waiting[i])
        /\ n \in client[c].seen
    BY <1>1, <1>3 DEF WaitApt, SeenBy
  <1>5. s \in Subjects
    BY <1>4, OwnedAssumption DEF OwnedAssumption
  <1>6. /\ waiting' = [waiting EXCEPT ![i] = Lost]
        /\ client' = [client EXCEPT ![c] = Idle]
        /\ said' = Says(c, a, FinishReading(value', a))
    BY <1>1 DEF Finish
  <1>7. /\ value' = [t \in Subjects |-> value'[t]]
        /\ \A t \in Subjects : t # s => value'[t] = value[t]
        /\ Convertible(VariantOf[Reports[s]], Layer.subjects[s])
               => value'[s] = Converted(n, Layer.subjects[s])
    <2> HIDE DEF s, n, c, a
    <2> QED  BY <1>1, <1>2, <1>5 DEF ReadValue, Shapes
  <1>8. Shapes'
    <2>1. /\ waiting' = [j \in AsynchIds |-> waiting'[j]]
          /\ remote' = [t \in External |-> remote'[t]]
      BY <1>1, <1>2, <1>6 DEF Shapes
    <2>2. client' = [d \in Clients |-> [ask |-> client'[d].ask, seen |-> client'[d].seen,
                                        reached |-> client'[d].reached]]
      BY <1>2, <1>6 DEF Shapes, Idle
    <2> QED  BY <1>7, <2>1, <2>2 DEF Shapes
  <1>9. Waits'
    BY <1>1, <1>2, <1>8, FinishWaits
  <1>10. ObserversCurrent'
    <2>1. waiting[i].by \in Proxies /\ ProxyAt(waiting[i].by).subject = s
      BY <1>4 DEF Apt
    <2> QED  BY <1>1, <1>2, <1>7, <2>1, HeardIsKnown
  <1>11. FreshAnswers'
    <2> DEFINE r == FinishReading(value', a)
               p == ProxyAt(Named(a))
    <2> SUFFICES ASSUME said'.is.code = "ack", NamesExternal(said'.ask),
                        Convertible(VariantOf[Reports[SubjectOf(said'.ask)]],
                                    Layer.subjects[SubjectOf(said'.ask)])
                 PROVE  LET q == ProxyAt(Named(said'.ask))
                        IN said'.is \in {Shown(q, Converted(m, SubjectType(q))) : m \in said'.seen}
      BY DEF FreshAnswers, NamesExternal, SubjectOf, Named
    <2>1. said' = [ask |-> a, is |-> r, seen |-> client[c].seen, reached |-> client[c].reached]
      BY <1>6 DEF Says, Silence
    <2>2. /\ r.code = "ack" /\ NamesExternal(a)
          /\ Convertible(VariantOf[Reports[SubjectOf(a)]], Layer.subjects[SubjectOf(a)])
      BY <2>1
    <2>3. Named(a) \in Proxies
      BY <2>2 DEF NamesExternal, Observers
    <2>4. a.object \in DOMAIN Layer.devices[a.device]
      BY <1>4, <2>3, NamedPlace
    <2>5. r = Shown(p, value'[SubjectOf(a)])
      <3> HIDE DEF a
      <3> QED  BY <1>4, <2>2, <2>4, ReadApt DEF FinishReading
    <2>6. SubjectOf(a) = s
      BY <1>4, <2>3 DEF Apt, SubjectOf
    <2>7. r = Shown(p, Converted(n, SubjectType(p)))
      BY <1>7, <2>2, <2>5, <2>6 DEF SubjectType, SubjectOf
    <2> HIDE DEF r, a, n, c
    <2> QED  BY <1>4, <2>1, <2>7
  <1> QED  BY <1>9, <1>10, <1>11 DEF Inv

\* The other ways an operation ends leave the values alone and answer no read.
LEMMA EndedInv ==
    ASSUME Inv, NEW i \in AsynchIds, WriteAnswered(i) \/ ReadFailed(i) \/ WriteFailed(i)
    PROVE  Inv'
  <1> DEFINE c == waiting[i].client
             a == AskOf(i)
             s == waiting[i].subject
  <1>1. /\ InUse(i) /\ value' = value /\ remote' = remote
        /\ told' = told \/ told' = Heard(s, waiting[i].by, TRUE, value[s])
    BY DEF WriteAnswered, ReadFailed, WriteFailed, InUse
  <1>2. PICK answer : Finish(i, answer) /\ (a.service = "Read" => answer.code # "ack")
    <2>1. CASE WriteAnswered(i)
      BY <2>1 DEF WriteAnswered
    <2>2. CASE ReadFailed(i) \/ WriteFailed(i)
      BY <2>2 DEF ReadFailed, WriteFailed, Error
    <2> QED  BY <2>1, <2>2
  <1>3. Waits /\ Shapes /\ ObserversCurrent /\ WaitApt(i)
    BY <1>1 DEF Inv, Waits
  <1>4. /\ waiting' = [waiting EXCEPT ![i] = Lost]
        /\ client' = [client EXCEPT ![c] = Idle]
        /\ said' = Says(c, a, answer)
    BY <1>2 DEF Finish
  <1>5. Shapes'
    <2>1. waiting' = [j \in AsynchIds |-> waiting'[j]]
      BY <1>3, <1>4 DEF Shapes
    <2>2. client' = [d \in Clients |-> [ask |-> client'[d].ask, seen |-> client'[d].seen,
                                        reached |-> client'[d].reached]]
      BY <1>3, <1>4 DEF Shapes, Idle
    <2> QED  BY <1>1, <1>3, <2>1, <2>2 DEF Shapes
  <1>6. Waits'
    BY <1>1, <1>2, <1>3, <1>5, FinishWaits
  <1>7. ObserversCurrent'
    <2>1. CASE told' = told
      BY <1>1, <1>3, <2>1, SameKnown
    <2>2. CASE told' = Heard(s, waiting[i].by, TRUE, value[s])
      <3>1. waiting[i].by \in Proxies /\ ProxyAt(waiting[i].by).subject = s
        BY <1>3 DEF WaitApt, Apt
      <3>2. told' = Heard(s, waiting[i].by, TRUE, value'[s])
        BY <1>1, <2>2
      <3> QED  BY <1>1, <1>3, <3>1, <3>2, HeardIsKnown
    <2> QED  BY <1>1, <2>1, <2>2
  <1>8. FreshAnswers'
    <2> HIDE DEF c, a
    <2> QED  BY <1>2, <1>4, SilenceIsFresh DEF Says, Silence
  <1> QED  BY <1>6, <1>7, <1>8 DEF Inv

LEMMA RemoteInv ==
    ASSUME Inv,
           \/ \E i \in AsynchIds : RemoteServes(i)
           \/ \E s \in External : \E n \in Numbers[s] : RemoteChanges(s, n)
    PROVE  Inv'
  <1>1. Waits /\ ObserversCurrent
    BY DEF Inv
  <1>2. value' = value /\ told' = told /\ said' = Silence
    BY DEF RemoteServes, RemoteChanges
  <1>3. Waits'
    BY <1>1, ServeWaits, ChangeWaits
  <1>4. FreshAnswers'
    BY <1>2 DEF FreshAnswers, Silence
  <1> QED  BY <1>1, <1>2, <1>3, <1>4, SameKnown DEF Inv

\* Values that arrive unasked.
LEMMA UnaskedInv ==
    ASSUME Inv,
           \/ \E s \in Polled : PollSent(s) \/ PollServed(s) \/ PollAnswered(s) \/ PollFailed(s)
           \/ \E s \in Foreign : \E n \in Numbers[s] : SetValue(s, n)
    PROVE  Inv'
  <1>1. Waits /\ Shapes /\ ObserversCurrent
    BY DEF Inv, Waits
  <1>2. /\ remote' = remote /\ waiting' = waiting /\ client' = client /\ said' = Silence
    BY DEF PollSent, PollServed, PollAnswered, PollFailed, SetValue
  <1>3. \/ value' = value /\ told' = told
        \/ \E s \in Subjects : \E n :
               /\ value' = [value EXCEPT ![s] = n]
               /\ told' = [y \in Observers |-> IF y \in ObserversOf(s) THEN n ELSE told[y]]
    <2>1. Polled \subseteq Subjects /\ Foreign \subseteq Subjects
      BY OwnedAssumption, ForeignAssumption DEF OwnedAssumption, ForeignAssumption, Polled
    <2>2. ASSUME NEW s \in Polled, PollAnswered(s)
          PROVE  \/ value' = value /\ told' = told
                 \/ /\ value' = [value EXCEPT ![s] = polls[s]]
                    /\ told' = [y \in Observers |->
                                   IF y \in ObserversOf(s) THEN polls[s] ELSE told[y]]
      BY <2>2 DEF PollAnswered
    <2>3. ASSUME NEW s \in Polled, PollSent(s) \/ PollServed(s) \/ PollFailed(s)
          PROVE  value' = value /\ told' = told
      BY <2>3 DEF PollSent, PollServed, PollFailed
    <2>4. ASSUME NEW s \in Foreign, NEW n, SetValue(s, n)
          PROVE  /\ value' = [value EXCEPT ![s] = n]
                 /\ told' = [y \in Observers |-> IF y \in ObserversOf(s) THEN n ELSE told[y]]
      BY <2>4 DEF SetValue
    <2> QED  BY <2>1, <2>2, <2>3, <2>4
  <1>4. ObserversCurrent' /\ Shapes'
    <2>1. CASE value' = value /\ told' = told
      BY <1>1, <1>2, <2>1, SameKnown DEF Shapes
    <2>2. ASSUME NEW s \in Subjects, NEW n, value' = [value EXCEPT ![s] = n],
                 told' = [y \in Observers |-> IF y \in ObserversOf(s) THEN n ELSE told[y]]
          PROVE  ObserversCurrent' /\ Shapes'
      <3>1. ObserversCurrent'
        BY <1>1, <2>2, ToldIsKnown
      <3>2. Shapes'
        BY <1>1, <1>2, <2>2 DEF Shapes
      <3> QED  BY <3>1, <3>2
    <2> QED  BY <1>3, <2>1, <2>2
  <1>5. Waits'
    BY <1>1, <1>2, <1>4, SameWaits
  <1>6. FreshAnswers'
    BY <1>2 DEF FreshAnswers, Silence
  <1> QED  BY <1>4, <1>5, <1>6 DEF Inv

LEMMA StutterInv ==
    ASSUME Inv, UNCHANGED vars
    PROVE  Inv'
  <1>1. /\ value' = value /\ remote' = remote /\ waiting' = waiting /\ client' = client
        /\ said' = said /\ told' = told
    BY DEF vars
  <1>2. Waits'
    BY <1>1, SameWaits DEF Inv, Waits, Shapes
  <1>3. ObserversCurrent'
    BY <1>1, SameKnown DEF Inv
  <1>4. FreshAnswers'
    BY <1>1 DEF Inv, FreshAnswers, NamesExternal, SubjectOf
  <1> QED  BY <1>2, <1>3, <1>4 DEF Inv

-----------------------------------------------------------------------------
(* The numbers the state carries. *)

\* Everything that holds or brings a subject's value has a number of the subject's;
\* what a poll or an operation under way brings is one that it can come to hold.
Values == /\ \A s \in Subjects : value[s] \in Numbers[s] \cup {Null}
          /\ \A s \in External : remote[s] \in Numbers[s]
Pollings == /\ polls = [s \in Polled |-> polls[s]]
            /\ \A s \in Polled : polls[s] \in Numbers[s] \cup {NoPoll, Sent}
Carried(i) == /\ waiting[i].n \in Numbers[waiting[i].subject]
              /\ waiting[i].by \in Observers
SeenNumbers == UNION {Numbers[s] : s \in External}
Asking(c) == client[c].ask \in Asks \cup {NoAsk} /\ client[c].seen \subseteq SeenNumbers

Typed == /\ Values
         /\ Pollings
         /\ \A i \in AsynchIds : InUse(i) => Carried(i)
         /\ \A c \in Clients : Asking(c)

LEMMA PolledSubjects ==
    /\ Polled \subseteq External
    /\ External \subseteq Subjects
  BY OwnedAssumption DEF OwnedAssumption, Polled

LEMMA InitTyped == Init => Typed
  <1> SUFFICES ASSUME Init
               PROVE  Typed
    OBVIOUS
  <1>1. Values
    BY NumbersAssumption DEF Init, Values, NumbersAssumption
  <1>2. Pollings
    BY DEF Init, Pollings
  <1>3. \A i \in AsynchIds : ~ InUse(i)
    BY DEF Init, InUse, Lost
  <1>4. \A c \in Clients : Asking(c)
    BY DEF Init, Asking, Idle, NoAsk
  <1> QED  BY <1>1, <1>2, <1>3, <1>4 DEF Typed

\* Steps that leave parts of the state alone, or end an operation, keep the rest.
LEMMA SameWaiting ==
    ASSUME Typed, waiting' = waiting, client' = client
    PROVE  /\ \A i \in AsynchIds : InUse(i)' => Carried(i)'
           /\ \A c \in Clients : Asking(c)'
  BY DEF Typed, InUse, Carried, Asking, SeenNumbers, NoAsk

LEMMA FinishTyped ==
    ASSUME Inv, Typed, NEW i \in AsynchIds, InUse(i), NEW answer, Finish(i, answer)
    PROVE  /\ \A j \in AsynchIds : InUse(j)' => Carried(j)'
           /\ \A c \in Clients : Asking(c)'
  <1> DEFINE d == waiting[i].client
  <1>1. /\ waiting' = [waiting EXCEPT ![i] = Lost]
        /\ client' = [client EXCEPT ![d] = Idle]
    BY DEF Finish
  <1> HIDE DEF d
  <1>2. /\ waiting'[i] = Lost
        /\ \A j \in AsynchIds : j # i => waiting'[j] = waiting[j]
        /\ \A c \in Clients : client'[c] = Idle \/ client'[c] = client[c]
    BY <1>1 DEF Inv, Waits, Shapes
  <1>3. \A j \in AsynchIds : InUse(j)' => Carried(j)'
    BY <1>2 DEF Typed, InUse, Carried, Lost
  <1>4. \A c \in Clients : Asking(c)'
    BY <1>2 DEF Typed, Asking, SeenNumbers, Idle, NoAsk
  <1> QED  BY <1>3, <1>4

\* A value is set to a number of its subject's.
LEMMA SetTyped ==
    ASSUME Inv, Typed, NEW s \in Subjects, NEW n \in Numbers[s],
           value' = value \/ value' = [value EXCEPT ![s] = n], remote' = remote
    PROVE  Values'
  BY DEF Inv, Waits, Shapes, Typed, Values

LEMMA RequestTyped ==
    ASSUME Inv, Typed, NEW c \in Clients, NEW a \in Asks, ProcessConfirmedRequest(c, a)
    PROVE  Typed'
  <1>1. PICK r : r = Outcome(a) /\ (AnswerAtOnce(c, a, r) \/ Store(c, a, r) \/ Start(c, a, r))
    BY DEF ProcessConfirmedRequest
  <1>2. /\ r.code \in {"stored", "started"} => Apt(a, r)
        /\ r.code = "stored" => a.service = "Write"
        /\ r.code = "started" => /\ r.subject \in External /\ r.by \in Observers
                                 /\ a.service \in {"Read", "Write"}
        /\ r.code = "started" /\ a.service = "Read" => r.n = 0
    BY <1>1, OutcomeApt
  <1>3. r.code \in {"stored", "started"} /\ a.service = "Write" => r.n \in Numbers[r.subject]
    <2> SUFFICES ASSUME r.code \in {"stored", "started"}, a.service = "Write"
                 PROVE  r.n \in Numbers[r.subject]
      OBVIOUS
    <2>1. r = WriteProperty(value, a)
      BY <1>1 DEF Outcome, ExecuteWrite
    <2>2. \A s \in Subjects : value[s] \in Numbers[s] \cup {Null}
      BY DEF Typed, Values
    <2> QED  BY <2>1, <2>2, WriteNumber
  <1>4. polls' = polls /\ Pollings'
    <2>1. polls' = polls
      BY <1>1 DEF AnswerAtOnce, Store, Start
    <2> QED  BY <2>1 DEF Typed, Pollings
  <1>5. CASE AnswerAtOnce(c, a, r)
    <2>1. value' = value /\ remote' = remote /\ waiting' = waiting /\ client' = client
      BY <1>5 DEF AnswerAtOnce
    <2>2. Values'
      BY <2>1 DEF Typed, Values
    <2> QED  BY <1>4, <2>1, <2>2, SameWaiting DEF Typed
  <1>6. CASE Store(c, a, r)
    <2>1. /\ r.code = "stored" /\ remote' = remote /\ waiting' = waiting /\ client' = client
          /\ value' = value \/ value' = [value EXCEPT ![r.subject] = r.n]
      BY <1>6 DEF Store
    <2>2. r.subject \in Subjects /\ r.n \in Numbers[r.subject]
      BY <1>2, <1>3, <2>1, ProxyAssumption DEF Apt, ProxyAssumption
    <2>3. Values'
      BY <2>1, <2>2, SetTyped
    <2> QED  BY <1>4, <2>1, <2>3, SameWaiting DEF Typed
  <1>7. CASE Start(c, a, r)
    <2>1. PICK i \in FreeIds :
            waiting' = [waiting EXCEPT ![i] =
               [code |-> "pending", client |-> c, subject |-> r.subject, by |-> r.by, n |-> r.n]]
      BY <1>7 DEF Start
    <2>2. /\ client' = [client EXCEPT ![c] = [ask |-> a, seen |-> {remote[r.subject]},
                                               reached |-> FALSE]]
          /\ remote' = remote /\ value' = value /\ r.code = "started"
      BY <1>7 DEF Start
    <2>3. r.n \in Numbers[r.subject]
      BY <1>2, <1>3, <2>2, NumbersAssumption DEF NumbersAssumption
    <2>4. /\ waiting'[i].n = r.n /\ waiting'[i].by = r.by /\ waiting'[i].subject = r.subject
          /\ \A j \in AsynchIds : j # i => waiting'[j] = waiting[j]
      BY <2>1 DEF Inv, Waits, Shapes, FreeIds
    <2>5. \A j \in AsynchIds : InUse(j)' => Carried(j)'
      BY <1>2, <2>2, <2>3, <2>4 DEF Typed, InUse, Carried
    <2>6. /\ client'[c].ask = a /\ client'[c].seen = {remote[r.subject]}
          /\ \A d \in Clients : d # c => client'[d] = client[d]
      BY <2>2 DEF Inv, Waits, Shapes
    <2>7. remote[r.subject] \in SeenNumbers
      BY <1>2, <2>2 DEF Typed, Values, SeenNumbers
    <2>8. \A d \in Clients : Asking(d)'
      BY <2>6, <2>7 DEF Typed, Asking, SeenNumbers, NoAsk
    <2>9. Values'
      BY <2>2 DEF Typed, Values
    <2> QED  BY <1>4, <2>5, <2>8, <2>9 DEF Typed
  <1> QED  BY <1>1, <1>5, <1>6, <1>7

LEMMA ResultTyped ==
    ASSUME Inv, Typed, NEW i \in AsynchIds,
           ReadAnswered(i) \/ WriteAnswered(i) \/ ReadFailed(i) \/ WriteFailed(i)
    PROVE  Typed'
  <1>1. InUse(i) /\ remote' = remote /\ polls' = polls
    BY DEF ReadAnswered, WriteAnswered, ReadFailed, WriteFailed, InUse
  <1>2. PICK answer : Finish(i, answer)
    BY DEF ReadAnswered, WriteAnswered, ReadFailed, WriteFailed
  <1>3. Values'
    <2>1. CASE ReadAnswered(i)
      <3> DEFINE s == waiting[i].subject
                 n == Converted(waiting[i].n, Layer.subjects[s])
      <3>1. s \in External /\ s \in Subjects
        BY <1>1, PolledSubjects DEF Inv, Waits, WaitApt
      <3>2. n \in Numbers[s]
        BY <1>1, <3>1, NumbersAssumption DEF Typed, Carried, NumbersAssumption
      <3>3. value' = value \/ value' = [value EXCEPT ![s] = n]
        BY <2>1 DEF ReadAnswered, ReadValue
      <3> HIDE DEF s, n
      <3> QED  BY <1>1, <3>1, <3>2, <3>3, SetTyped
    <2>2. CASE WriteAnswered(i) \/ ReadFailed(i) \/ WriteFailed(i)
      <3>1. value' = value
        BY <2>2 DEF WriteAnswered, ReadFailed, WriteFailed
      <3> QED  BY <1>1, <3>1 DEF Typed, Values
    <2> QED  BY <2>1, <2>2
  <1>4. Pollings'
    BY <1>1 DEF Typed, Pollings
  <1> QED  BY <1>1, <1>2, <1>3, <1>4, FinishTyped DEF Typed

\* A remote property comes to hold one of its subject's numbers, and those who wait
\* for it see it.
LEMMA SeeingTyped ==
    ASSUME Inv, Typed, NEW s \in External, NEW n \in Numbers[s], NEW c \in Clients
    PROVE  /\ Seeing(s, n)[c].ask \in Asks \cup {NoAsk}
           /\ Seeing(s, n)[c].seen \subseteq SeenNumbers
  <1>1. Seeing(s, n)[c].ask = client[c].ask
    BY SeeingAll DEF Inv
  <1>2. Seeing(s, n)[c].seen \subseteq client[c].seen \cup {n}
    <2>1. client[c] = [ask |-> client[c].ask, seen |-> client[c].seen,
                       reached |-> client[c].reached]
      BY DEF Inv, Waits, Shapes
    <2>2. \/ Seeing(s, n)[c] = client[c]
          \/ Seeing(s, n)[c] = [client[c] EXCEPT !.seen = @ \cup {n}]
      BY DEF Seeing
    <2> QED  BY <2>1, <2>2
  <1>3. n \in SeenNumbers
    BY DEF SeenNumbers
  <1> QED  BY <1>1, <1>2, <1>3 DEF Typed, Asking

LEMMA RemoteTyped ==
    ASSUME Inv, Typed,
           \/ \E i \in AsynchIds : RemoteServes(i)
           \/ \E s \in External : \E n \in Numbers[s] : RemoteChanges(s, n)
    PROVE  Typed'
  <1>1. value' = value /\ polls' = polls /\ Pollings'
    <2>1. value' = value /\ polls' = polls
      BY DEF RemoteServes, RemoteChanges
    <2> QED  BY <2>1 DEF Typed, Pollings
  <1>2. ASSUME NEW s \in External, NEW n \in Numbers[s], RemoteChanges(s, n)
        PROVE  Typed'
    <2>1. /\ remote' = [remote EXCEPT ![s] = n] /\ waiting' = waiting
          /\ client' = Seeing(s, n)
      BY <1>2 DEF RemoteChanges
    <2>2. Values'
      BY <1>1, <2>1 DEF Inv, Waits, Shapes, Typed, Values
    <2>3. \A j \in AsynchIds : InUse(j)' => Carried(j)'
      BY <2>1 DEF Typed, InUse, Carried
    <2>4. \A c \in Clients : Asking(c)'
      BY <2>1, SeeingTyped DEF Asking, SeenNumbers, NoAsk
    <2> QED  BY <1>1, <2>2, <2>3, <2>4 DEF Typed
  <1>3. ASSUME NEW i \in AsynchIds, RemoteServes(i)
        PROVE  Typed'
    <2> DEFINE s == waiting[i].subject
               n == waiting[i].n
    <2>1. InUse(i) /\ WaitApt(i) /\ s \in External /\ n \in Numbers[s]
          /\ remote[s] \in Numbers[s] /\ waiting[i].by \in Observers
      <3>1. InUse(i) /\ WaitApt(i)
        BY <1>3 DEF RemoteServes, InUse, Inv, Waits
      <3> QED  BY <3>1 DEF WaitApt, Typed, Carried, Values
    <2>2. CASE AskOf(i).service = "Read"
      <3>1. /\ waiting' = [waiting EXCEPT ![i].code = "served", ![i].n = remote[s]]
            /\ remote' = remote /\ client' = client
        BY <1>3, <2>2 DEF RemoteServes
      <3>2. /\ waiting'[i] = ServedWith(waiting[i], remote[s])
            /\ \A j \in AsynchIds : j # i => waiting'[j] = waiting[j]
        BY <2>1, <3>1 DEF Inv, Waits, Shapes, WaitApt, ServedWith
      <3>3. /\ waiting'[i].n = remote[s] /\ waiting'[i].by = waiting[i].by
            /\ waiting'[i].subject = s
        BY <3>2 DEF ServedWith
      <3>4. \A j \in AsynchIds : InUse(j)' => Carried(j)'
        BY <2>1, <3>2, <3>3 DEF Typed, InUse, Carried
      <3>5. Values' /\ \A c \in Clients : Asking(c)'
        BY <1>1, <3>1 DEF Typed, Values, Asking, SeenNumbers, NoAsk
      <3> QED  BY <1>1, <3>4, <3>5 DEF Typed
    <2>3. CASE AskOf(i).service # "Read"
      <3>1. /\ waiting' = [waiting EXCEPT ![i].code = "served"]
            /\ remote' = [remote EXCEPT ![s] = n]
            /\ client' = [Seeing(s, n) EXCEPT ![waiting[i].client].reached = TRUE]
        BY <1>3, <2>3 DEF RemoteServes
      <3>2. /\ waiting'[i] = ServedWith(waiting[i], n)
            /\ \A j \in AsynchIds : j # i => waiting'[j] = waiting[j]
        BY <2>1, <3>1 DEF Inv, Waits, Shapes, WaitApt, ServedWith
      <3>3. /\ waiting'[i].n = n /\ waiting'[i].by = waiting[i].by
            /\ waiting'[i].subject = s
        BY <3>2 DEF ServedWith
      <3>4. \A j \in AsynchIds : InUse(j)' => Carried(j)'
        BY <2>1, <3>2, <3>3 DEF Typed, InUse, Carried
      <3>5. Values'
        <4> HIDE DEF s, n
        <4> QED  BY <1>1, <2>1, <3>1 DEF Inv, Waits, Shapes, Typed, Values
      <3>6. ASSUME NEW c \in Clients
            PROVE  Asking(c)'
        <4> HIDE DEF s, n
        <4> DEFINE after == Seeing(s, n)
        <4>1. after[c].ask \in Asks \cup {NoAsk} /\ after[c].seen \subseteq SeenNumbers
          BY <2>1, SeeingTyped
        <4>2. after = [d \in Clients |-> after[d]]
          BY DEF Seeing
        <4>3. after[c] = [ask |-> after[c].ask, seen |-> after[c].seen,
                          reached |-> after[c].reached]
          BY SeeingAll DEF Inv
        <4>4. client' = [after EXCEPT ![waiting[i].client].reached = TRUE]
          BY <3>1
        <4> HIDE DEF after
        <4>5. client'[c].ask = after[c].ask /\ client'[c].seen = after[c].seen
          BY <4>2, <4>3, <4>4
        <4> QED  BY <4>1, <4>5 DEF Asking, SeenNumbers, NoAsk
      <3> QED  BY <1>1, <3>4, <3>5, <3>6 DEF Typed
    <2> QED  BY <2>2, <2>3
  <1> QED  BY <1>2, <1>3

LEMMA PollTyped ==
    ASSUME Inv, Typed, NEW s \in Polled,
           PollSent(s) \/ PollServed(s) \/ PollAnswered(s) \/ PollFailed(s)
    PROVE  Typed'
  <1>1. s \in External /\ s \in Subjects
    BY PolledSubjects
  <1>2. remote' = remote /\ waiting' = waiting /\ client' = client
    BY DEF PollSent, PollServed, PollAnswered, PollFailed
  <1>3. Pollings'
    <2>1. \E n \in Numbers[s] \cup {NoPoll, Sent} : polls' = [polls EXCEPT ![s] = n]
      BY <1>1 DEF PollSent, PollServed, PollAnswered, PollFailed, Typed, Values
    <2> QED  BY <2>1 DEF Typed, Pollings
  <1>4. Values'
    <2>1. \/ value' = value
          \/ polls[s] \notin {NoPoll, Sent} /\ value' = [value EXCEPT ![s] = polls[s]]
      BY DEF PollSent, PollServed, PollAnswered, PollFailed
    <2>2. CASE value' = value
      BY <1>2, <2>2 DEF Typed, Values
    <2>3. CASE polls[s] \notin {NoPoll, Sent} /\ value' = [value EXCEPT ![s] = polls[s]]
      <3>1. polls[s] \in Numbers[s]
        BY <2>3 DEF Typed, Pollings
      <3> QED  BY <1>1, <1>2, <2>3, <3>1, SetTyped
    <2> QED  BY <2>1, <2>2, <2>3
  <1> QED  BY <1>2, <1>3, <1>4, SameWaiting DEF Typed

LEMMA ForeignTyped ==
    ASSUME Inv, Typed, NEW s \in Foreign, NEW n \in Numbers[s], SetValue(s, n)
    PROVE  Typed'
  <1>1. s \in Subjects
    BY ForeignAssumption DEF ForeignAssumption
  <1>2. /\ remote' = remote /\ waiting' = waiting /\ client' = client /\ polls' = polls
        /\ value' = [value EXCEPT ![s] = n]
    BY DEF SetValue
  <1>3. Values'
    BY <1>1, <1>2, SetTyped
  <1>4. Pollings'
    BY <1>2 DEF Typed, Pollings
  <1> QED  BY <1>2, <1>3, <1>4, SameWaiting DEF Typed

LEMMA StutterTyped ==
    ASSUME Typed, UNCHANGED vars
    PROVE  Typed'
  <1>1. /\ value' = value /\ remote' = remote /\ polls' = polls
        /\ waiting' = waiting /\ client' = client
    BY DEF vars
  <1>2. Values' /\ Pollings'
    BY <1>1 DEF Typed, Values, Pollings
  <1> QED  BY <1>1, <1>2, SameWaiting DEF Typed

-----------------------------------------------------------------------------
(* Theorems. *)

\* What each part of the proofs rests on: values, waits and answers stay in step,
\* whatever clients ask and remote devices do.
THEOREM InvHolds == Spec => []Inv
  <1>1. Inv /\ [Next]_vars => Inv'
    <2> SUFFICES ASSUME Inv, [Next]_vars
                 PROVE  Inv'
      OBVIOUS
    <2>1. ASSUME NEW c \in Clients, NEW a \in Asks, ProcessConfirmedRequest(c, a)
          PROVE  Inv'
      BY <2>1, RequestInv
    <2>2. ASSUME NEW i \in AsynchIds, ReadAnswered(i)
          PROVE  Inv'
      BY <2>2, ReadAnsweredInv
    <2>3. ASSUME NEW i \in AsynchIds, WriteAnswered(i) \/ ReadFailed(i) \/ WriteFailed(i)
          PROVE  Inv'
      BY <2>3, EndedInv
    <2>4. CASE \/ \E i \in AsynchIds : RemoteServes(i)
               \/ \E s \in External : \E n \in Numbers[s] : RemoteChanges(s, n)
      BY <2>4, RemoteInv
    <2>5. CASE \/ \E s \in Polled : PollSent(s) \/ PollServed(s) \/ PollAnswered(s) \/ PollFailed(s)
               \/ \E s \in Foreign : \E n \in Numbers[s] : SetValue(s, n)
      BY <2>5, UnaskedInv
    <2>6. CASE UNCHANGED vars
      BY <2>6, StutterInv
    <2> QED  BY <2>1, <2>2, <2>3, <2>4, <2>5, <2>6 DEF Next
  <1> QED  BY InitInv, <1>1, PTL DEF Spec

\* Every observer knows its subject's value, whatever order the clients' writes,
\* the answers, the polls and the other protocol's values come in.
THEOREM ObserversKnow == Spec => []ObserversCurrent
  <1>1. Inv => ObserversCurrent
    BY DEF Inv
  <1> QED  BY <1>1, InvHolds, PTL

\* No client waits in vain and none is waited for twice: each operation under way
\* is on what its own client named.
THEOREM WaitersMatch == Spec => []WaitersHeld
  <1>1. Inv => WaitersHeld
    <2> SUFFICES ASSUME Inv
                 PROVE  WaitersHeld
      OBVIOUS
    <2>1. OneEach
      BY DEF Inv, Waits
    <2>2. ASSUME NEW i \in AsynchIds, InUse(i)
          PROVE  Apt(AskOf(i), waiting[i])
      BY <2>2 DEF Inv, Waits, WaitApt
    <2> QED  BY <2>1, <2>2 DEF WaitersHeld, OneEach, Apt
  <1> QED  BY <1>1, InvHolds, PTL

\* A read of a remote property is answered with what its observer shows of a value
\* that the property had after the client asked.
THEOREM ReadsAreFresh == Spec => []FreshAnswers
  <1>1. Inv => FreshAnswers
    BY DEF Inv
  <1> QED  BY <1>1, InvHolds, PTL

LEMMA TypedHolds == Spec => [](Inv /\ Typed)
  <1>1. Init => Typed
    BY InitTyped
  <1>2. Inv /\ Typed /\ [Next]_vars => Typed'
    <2> SUFFICES ASSUME Inv, Typed, [Next]_vars
                 PROVE  Typed'
      OBVIOUS
    <2>1. ASSUME NEW c \in Clients, NEW a \in Asks, ProcessConfirmedRequest(c, a)
          PROVE  Typed'
      BY <2>1, RequestTyped
    <2>2. ASSUME NEW i \in AsynchIds,
                 ReadAnswered(i) \/ WriteAnswered(i) \/ ReadFailed(i) \/ WriteFailed(i)
          PROVE  Typed'
      BY <2>2, ResultTyped
    <2>3. CASE \/ \E i \in AsynchIds : RemoteServes(i)
               \/ \E s \in External : \E n \in Numbers[s] : RemoteChanges(s, n)
      BY <2>3, RemoteTyped
    <2>4. ASSUME NEW s \in Polled,
                 PollSent(s) \/ PollServed(s) \/ PollAnswered(s) \/ PollFailed(s)
          PROVE  Typed'
      BY <2>4, PollTyped
    <2>5. ASSUME NEW s \in Foreign, NEW n \in Numbers[s], SetValue(s, n)
          PROVE  Typed'
      BY <2>5, ForeignTyped
    <2>6. CASE UNCHANGED vars
      BY <2>6, StutterTyped
    <2> QED  BY <2>1, <2>2, <2>3, <2>4, <2>5, <2>6 DEF Next
  <1> QED  BY <1>1, <1>2, InvHolds, PTL DEF Spec

\* Whatever clients write, remote devices hold and polls bring, every variable keeps
\* to its type: a subject, its remote property and its observers carry numbers the
\* subject can hold, and operations belong to observers of remote properties.
THEOREM TypesHold == Spec => []TypeOK
  <1>1. Inv /\ Typed => TypeOK
    <2> SUFFICES ASSUME Inv, Typed
                 PROVE  TypeOK
      OBVIOUS
    <2>1. \A x \in Observers : told[x] \in Numbers[ProxyAt(x).subject] \cup {Null}
      <3>1. \A x \in Observers : ProxyAt(x).subject \in Subjects
        BY ProxyAssumption DEF ProxyAssumption, Observers
      <3> QED  BY <3>1 DEF Inv, ObserversCurrent, Typed, Values
    <2>2. ASSUME NEW i \in AsynchIds, InUse(i)
          PROVE  /\ waiting[i].subject \in External
                 /\ waiting[i].by \in ObserversOf(waiting[i].subject)
      BY <2>2 DEF Inv, Waits, WaitApt, Apt, Typed, Carried, ObserversOf
    <2>3. /\ \A s \in Subjects : value[s] \in Numbers[s] \cup {Null}
          /\ \A s \in External : remote[s] \in Numbers[s]
          /\ \A s \in Polled : polls[s] \in Numbers[s] \cup {NoPoll, Sent}
      BY DEF Typed, Values, Pollings
    <2>4. \A c \in Clients : /\ client[c].ask \in Asks \cup {NoAsk}
                             /\ client[c].seen \subseteq UNION {Numbers[s] : s \in External}
      BY DEF Typed, Asking, SeenNumbers
    <2> QED  BY <2>1, <2>2, <2>3, <2>4 DEF TypeOK
  <1> QED  BY <1>1, TypedHolds, PTL

\* A write to a remote property is acknowledged only after it was set by this
\* write: no answer is given in its stead, and no other client's operation or
\* answer is taken for it.
WriteReached == [][
    said'.is.code = "ack" /\ said'.ask.service = "Write" /\ NamesExternal(said'.ask)
        => said'.reached = TRUE]_vars

THEOREM WritesReach == Spec => WriteReached
  <1> DEFINE A == /\ said'.is.code = "ack" /\ said'.ask.service = "Write"
                  /\ NamesExternal(said'.ask)
                  => said'.reached = TRUE
  <1>1. Inv /\ [Next]_vars => [A]_vars
    <2> SUFFICES ASSUME Inv, Next
                 PROVE  A
      OBVIOUS
    <2>1. ASSUME NEW c \in Clients, NEW a \in Asks, ProcessConfirmedRequest(c, a)
          PROVE  A
      <3>1. PICK r : r = Outcome(a) /\ (AnswerAtOnce(c, a, r) \/ Store(c, a, r) \/ Start(c, a, r))
        BY <2>1 DEF ProcessConfirmedRequest
      <3>2. a.service = "Write" /\ NamesExternal(a) => r.code \notin {"ack", "stored"}
        BY <3>1, OutcomeApt
      <3>3. \/ said' = Silence
            \/ r.code = "ack" /\ said'.ask = a
            \/ r.code = "stored" /\ said'.ask = a
        BY <3>1 DEF AnswerAtOnce, Store, Start, Says
      <3> QED  BY <3>2, <3>3 DEF Silence
    <2>2. ASSUME NEW i \in AsynchIds, WriteAnswered(i)
          PROVE  A
      <3>1. waiting[i].code = "served" /\ AskOf(i).service = "Write"
        BY <2>2 DEF WriteAnswered
      <3>2. client[waiting[i].client].reached = TRUE
        BY <3>1 DEF Inv, Waits, SeenBy, InUse
      <3>3. said' = Says(waiting[i].client, AskOf(i), Ack(<<>>))
        BY <2>2 DEF WriteAnswered, Finish
      <3> QED  BY <3>2, <3>3 DEF Says, Silence
    <2>3. ASSUME NEW i \in AsynchIds, ReadAnswered(i)
          PROVE  A
      BY <2>3 DEF ReadAnswered, Finish, Says, Silence
    <2>4. ASSUME NEW i \in AsynchIds, ReadFailed(i) \/ WriteFailed(i)
          PROVE  said' = Silence
      BY <2>4 DEF ReadFailed, WriteFailed, Finish, Says, Error
    <2>5. ASSUME NEW i \in AsynchIds, RemoteServes(i)
          PROVE  said' = Silence
      BY <2>5 DEF RemoteServes
    <2>6. ASSUME \/ \E s \in External : \E n \in Numbers[s] : RemoteChanges(s, n)
                 \/ \E s \in Polled : PollSent(s) \/ PollServed(s) \/ PollAnswered(s) \/ PollFailed(s)
                 \/ \E s \in Foreign : \E n \in Numbers[s] : SetValue(s, n)
          PROVE  said' = Silence
      BY <2>6 DEF RemoteChanges, PollSent, PollServed, PollAnswered, PollFailed, SetValue
    <2>7. said' = Silence => A
      BY DEF Silence
    <2> HIDE DEF A
    <2> QED  BY <2>1, <2>2, <2>3, <2>4, <2>5, <2>6, <2>7 DEF Next
  <1> QED  BY <1>1, InvHolds, PTL DEF Spec, WriteReached

\* A write under way sends what is read back through the observer it names; once it
\* was served, its client has seen that.
Kept(i) == AskOf(i).service = "Write" =>
               /\ ReadBackAs(AskOf(i), waiting[i].n)
               /\ waiting[i].code = "served" => waiting[i].n \in client[waiting[i].client].seen
AllKept == \A i \in AsynchIds : InUse(i) => Kept(i)

\* An operation's step leaves the others as they were.
LEMMA OthersKept ==
    ASSUME Inv, NEW j \in AsynchIds, InUse(j), Kept(j),
           waiting'[j] = waiting[j],
           client'[waiting[j].client].ask = client[waiting[j].client].ask,
           client[waiting[j].client].seen \subseteq client'[waiting[j].client].seen
    PROVE  Kept(j)'
  <1>1. AskOf(j)' = AskOf(j)
    BY DEF AskOf
  <1>2. ReadBackAs(AskOf(j), waiting[j].n)' = ReadBackAs(AskOf(j), waiting[j].n)
    BY <1>1 DEF ReadBackAs, Reads, ReadBack, Named
  <1> QED  BY <1>1, <1>2 DEF Kept

LEMMA RequestKept ==
    ASSUME Inv, Typed, AllKept, GivesBack,
           NEW c \in Clients, NEW a \in Asks, ProcessConfirmedRequest(c, a)
    PROVE  AllKept'
  <1>1. PICK r : r = Outcome(a) /\ (AnswerAtOnce(c, a, r) \/ Store(c, a, r) \/ Start(c, a, r))
    BY DEF ProcessConfirmedRequest
  <1>2. CASE AnswerAtOnce(c, a, r) \/ Store(c, a, r)
    <2>1. waiting' = waiting /\ client' = client
      BY <1>2 DEF AnswerAtOnce, Store
    <2>2. \A j \in AsynchIds : InUse(j)' => InUse(j)
      BY <2>1 DEF InUse
    <2> QED  BY <2>1, <2>2, OthersKept DEF AllKept
  <1>3. CASE Start(c, a, r)
    <2>1. PICK i \in FreeIds :
            waiting' = [waiting EXCEPT ![i] =
               [code |-> "pending", client |-> c, subject |-> r.subject, by |-> r.by, n |-> r.n]]
      BY <1>3 DEF Start
    <2>2. /\ client' = [client EXCEPT ![c] = [ask |-> a, seen |-> {remote[r.subject]},
                                               reached |-> FALSE]]
          /\ client[c] = Idle /\ r.code = "started"
      BY <1>3 DEF Start, ProcessConfirmedRequest
    <2>3. /\ i \in AsynchIds
          /\ waiting'[i].n = r.n /\ waiting'[i].code = "pending" /\ waiting'[i].client = c
          /\ \A j \in AsynchIds : j # i => waiting'[j] = waiting[j]
          /\ client'[c].ask = a
          /\ \A d \in Clients : d # c => client'[d] = client[d]
      BY <2>1, <2>2 DEF Inv, Waits, Shapes, FreeIds
    <2>4. Kept(i)'
      <3>1. AskOf(i)' = a
        BY <2>3 DEF AskOf
      <3>2. a.service = "Write" => ReadBackAs(a, r.n)
        <4> SUFFICES ASSUME a.service = "Write"
                     PROVE  ReadBackAs(a, r.n)
          OBVIOUS
        <4>1. r = WriteProperty(value, a)
          BY <1>1 DEF Outcome, ExecuteWrite
        <4>2. \A s \in Subjects : value[s] \in Numbers[s] \cup {Null}
          BY DEF Typed, Values
        <4> QED  BY <2>2, <4>1, <4>2, WriteNumber
      <3>3. ReadBackAs(AskOf(i), waiting[i].n)' = ReadBackAs(a, r.n)
        BY <2>3, <3>1 DEF ReadBackAs, Reads, ReadBack, Named
      <3> QED  BY <2>3, <3>1, <3>2, <3>3 DEF Kept
    <2>5. ASSUME NEW j \in AsynchIds, InUse(j)', j # i
          PROVE  Kept(j)'
      <3>1. InUse(j) /\ waiting'[j] = waiting[j]
        BY <2>3, <2>5 DEF InUse
      <3>2. waiting[j].client \in Clients /\ waiting[j].client # c
        BY <2>2, <3>1 DEF Inv, Waits, WaitApt, OneEach
      <3> QED  BY <2>3, <3>1, <3>2, OthersKept DEF AllKept
    <2> QED  BY <2>4, <2>5 DEF AllKept
  <1> QED  BY <1>1, <1>2, <1>3

LEMMA ResultKept ==
    ASSUME Inv, AllKept, NEW i \in AsynchIds, InUse(i), NEW answer, Finish(i, answer)
    PROVE  AllKept'
  <1> DEFINE d == waiting[i].client
  <1>1. /\ waiting' = [waiting EXCEPT ![i] = Lost]
        /\ client' = [client EXCEPT ![d] = Idle]
    BY DEF Finish
  <1>2. \A j \in AsynchIds : InUse(j) /\ j # i => waiting[j].client # d
    BY DEF Inv, Waits, OneEach
  <1> HIDE DEF d
  <1>3. /\ waiting'[i] = Lost
        /\ \A j \in AsynchIds : j # i => waiting'[j] = waiting[j]
        /\ \A c \in Clients : c # d => client'[c] = client[c]
    BY <1>1 DEF Inv, Waits, Shapes
  <1> SUFFICES ASSUME NEW j \in AsynchIds, InUse(j)'
               PROVE  Kept(j)'
    BY DEF AllKept
  <1>4. j # i /\ InUse(j) /\ waiting'[j] = waiting[j]
    BY <1>3 DEF InUse, Lost
  <1>5. waiting[j].client \in Clients
    BY <1>4 DEF Inv, Waits, WaitApt
  <1> QED  BY <1>2, <1>3, <1>4, <1>5, OthersKept DEF AllKept

LEMMA RemoteKept ==
    ASSUME Inv, AllKept,
           \/ \E i \in AsynchIds : RemoteServes(i)
           \/ \E s \in External : \E n \in Numbers[s] : RemoteChanges(s, n)
    PROVE  AllKept'
  <1>1. ASSUME NEW s \in External, NEW n \in Numbers[s], RemoteChanges(s, n)
        PROVE  AllKept'
    <2>1. waiting' = waiting /\ client' = Seeing(s, n)
      BY <1>1 DEF RemoteChanges
    <2> SUFFICES ASSUME NEW j \in AsynchIds, InUse(j)'
                 PROVE  Kept(j)'
      BY DEF AllKept
    <2>2. InUse(j) /\ waiting'[j] = waiting[j]
      BY <2>1 DEF InUse
    <2>3. waiting[j].client \in Clients
      BY <2>2 DEF Inv, Waits, WaitApt
    <2>4. ASSUME NEW d \in Clients
          PROVE  client'[d].ask = client[d].ask /\ client[d].seen \subseteq client'[d].seen
      <3> DEFINE after == Seeing(s, n)[d]
      <3>1. after.ask = client[d].ask /\ client[d].seen \subseteq after.seen
        BY SeeingAll DEF Inv
      <3>2. client'[d] = after
        BY <2>1
      <3> HIDE DEF after
      <3> QED  BY <3>1, <3>2
    <2> QED  BY <2>2, <2>3, <2>4, OthersKept DEF AllKept
  <1>2. ASSUME NEW i \in AsynchIds, RemoteServes(i)
        PROVE  AllKept'
    <2> DEFINE s == waiting[i].subject
               n == waiting[i].n
               c == waiting[i].client
    <2>1. InUse(i) /\ WaitApt(i) /\ c \in Clients /\ Kept(i)
      <3>1. InUse(i)
        BY <1>2 DEF RemoteServes, InUse
      <3> QED  BY <3>1 DEF Inv, Waits, WaitApt, AllKept
    <2>2. \A m : ServedWith(waiting[i], m).code = "served" /\ ServedWith(waiting[i], m).n = m
                 /\ ServedWith(waiting[i], m).client = c
      BY DEF ServedWith
    <2>3. \E m : /\ waiting'[i] = ServedWith(waiting[i], m)
                 /\ AskOf(i).service = "Write" => m = n
      <3>1. CASE AskOf(i).service = "Read"
        <4>1. waiting' = [waiting EXCEPT ![i].code = "served", ![i].n = remote[s]]
          BY <1>2, <3>1 DEF RemoteServes
        <4>2. waiting'[i] = ServedWith(waiting[i], remote[s])
          BY <2>1, <4>1 DEF Inv, Waits, Shapes, WaitApt, ServedWith
        <4> QED  BY <3>1, <4>2
      <3>2. CASE AskOf(i).service # "Read"
        <4>1. waiting' = [waiting EXCEPT ![i].code = "served"]
          BY <1>2, <3>2 DEF RemoteServes
        <4>2. waiting'[i] = ServedWith(waiting[i], n)
          BY <2>1, <4>1 DEF Inv, Waits, Shapes, WaitApt, ServedWith
        <4> QED  BY <4>2
      <3> QED  BY <3>1, <3>2
    <2>4. \A j \in AsynchIds : j # i => waiting'[j] = waiting[j]
      BY <1>2 DEF RemoteServes, Inv, Waits, Shapes
    <2>5. /\ \A d \in Clients : /\ client'[d].ask = client[d].ask
                                /\ client[d].seen \subseteq client'[d].seen
          /\ AskOf(i).service = "Write" => n \in client'[c].seen
      <3>1. CASE AskOf(i).service = "Read"
        <4>1. client' = client
          BY <1>2, <3>1 DEF RemoteServes
        <4> QED  BY <3>1, <4>1
      <3>2. CASE AskOf(i).service # "Read"
        <4> DEFINE after == Seeing(s, n)
        <4>1. client' = [after EXCEPT ![c].reached = TRUE]
          BY <1>2, <3>2 DEF RemoteServes
        <4>2. n \in after[c].seen
          BY <2>1, SeeingAll DEF Inv
        <4>3. after = [d \in Clients |-> after[d]]
          BY DEF Seeing
        <4> HIDE DEF s, n, c
        <4>4. ASSUME NEW d \in Clients
              PROVE  /\ after[d].ask = client[d].ask
                     /\ client[d].seen \subseteq after[d].seen
                     /\ after[d] = [ask |-> after[d].ask, seen |-> after[d].seen,
                                     reached |-> after[d].reached]
          BY SeeingAll DEF Inv
        <4> HIDE DEF after
        <4>5. ASSUME NEW d \in Clients
              PROVE  client'[d].ask = after[d].ask /\ client'[d].seen = after[d].seen
          BY <4>1, <4>3, <4>4
        <4> QED  BY <2>1, <4>2, <4>4, <4>5
      <3> QED  BY <3>1, <3>2
    <2>6. Kept(i)'
      <3>1. PICK m : /\ waiting'[i] = ServedWith(waiting[i], m)
                     /\ AskOf(i).service = "Write" => m = n
        BY <2>3
      <3>2. waiting'[i].n = m /\ waiting'[i].client = c
        BY <2>2, <3>1
      <3>3. AskOf(i)' = AskOf(i)
        BY <2>1, <2>5, <3>2 DEF AskOf
      <3>4. AskOf(i).service = "Write" => ReadBackAs(AskOf(i), waiting[i].n)'
        BY <2>1, <3>1, <3>2, <3>3 DEF Kept, ReadBackAs, Reads, ReadBack, Named
      <3> QED  BY <2>5, <3>1, <3>2, <3>3, <3>4 DEF Kept
    <2>7. ASSUME NEW j \in AsynchIds, InUse(j)', j # i
          PROVE  Kept(j)'
      <3>1. InUse(j) /\ waiting'[j] = waiting[j]
        BY <2>4, <2>7 DEF InUse
      <3>2. waiting[j].client \in Clients
        BY <3>1 DEF Inv, Waits, WaitApt
      <3> QED  BY <2>5, <3>1, <3>2, OthersKept DEF AllKept
    <2> QED  BY <2>6, <2>7 DEF AllKept
  <1> QED  BY <1>1, <1>2

\* If the converters give back what is written, a write is acknowledged only when it
\* was done: what the same observer then shows is what was written, of the gateway's
\* subject or of a value that this write gave the remote property, and other masks
\* show what they did, however writes, polls and results of others come between.
THEOREM WritesAreDone ==
    ASSUME GivesBack
    PROVE  Spec => WritesDone
  <1> DEFINE A == /\ said'.is.code = "ack"
                  /\ said'.ask.service = "Write"
                  => LET a == said'.ask
                         p == ProxyAt(Named(a))
                     IN IF NamesExternal(a)
                        THEN said'.reached /\ \E n \in said'.seen : Reads(p, n, a)
                        ELSE /\ value'[p.subject] # Null => Reads(p, value'[p.subject], a)
                             /\ \A y \in Observers :
                                    Apart(p, ProxyAt(y)) => Shown(ProxyAt(y), value'[p.subject])
                                                            = Shown(ProxyAt(y), value[p.subject])
  <1>1. Init => AllKept
    BY DEF Init, AllKept, InUse, Lost
  <1>2. Inv /\ Typed /\ AllKept /\ [Next]_vars => AllKept'
    <2> SUFFICES ASSUME Inv, Typed, AllKept, [Next]_vars
                 PROVE  AllKept'
      OBVIOUS
    <2>1. ASSUME NEW c \in Clients, NEW a \in Asks, ProcessConfirmedRequest(c, a)
          PROVE  AllKept'
      BY <2>1, RequestKept
    <2>2. ASSUME NEW i \in AsynchIds,
                 ReadAnswered(i) \/ WriteAnswered(i) \/ ReadFailed(i) \/ WriteFailed(i)
          PROVE  AllKept'
      <3>1. InUse(i) /\ \E answer : Finish(i, answer)
        BY <2>2 DEF ReadAnswered, WriteAnswered, ReadFailed, WriteFailed, InUse
      <3> QED  BY <3>1, ResultKept
    <2>3. CASE \/ \E i \in AsynchIds : RemoteServes(i)
               \/ \E s \in External : \E n \in Numbers[s] : RemoteChanges(s, n)
      BY <2>3, RemoteKept
    <2>4. CASE waiting' = waiting /\ client' = client
      <3>1. \A j \in AsynchIds : InUse(j)' => InUse(j)
        BY <2>4 DEF InUse
      <3> QED  BY <2>4, <3>1, OthersKept DEF AllKept
    <2>5. CASE \/ \E s \in Polled : PollSent(s) \/ PollServed(s) \/ PollAnswered(s) \/ PollFailed(s)
               \/ \E s \in Foreign : \E n \in Numbers[s] : SetValue(s, n)
               \/ UNCHANGED vars
      BY <2>4, <2>5 DEF PollSent, PollServed, PollAnswered, PollFailed, SetValue, vars
    <2> QED  BY <2>1, <2>2, <2>3, <2>5 DEF Next
  <1>3. Inv /\ Typed /\ AllKept /\ [Next]_vars => [A]_vars
    <2> SUFFICES ASSUME Inv, Typed, AllKept, Next
                 PROVE  A
      OBVIOUS
    <2>1. ASSUME NEW c \in Clients, NEW a \in Asks, ProcessConfirmedRequest(c, a),
                 said'.is.code = "ack", said'.ask.service = "Write"
          PROVE  A
      <3>1. PICK r : r = Outcome(a) /\ (AnswerAtOnce(c, a, r) \/ Store(c, a, r) \/ Start(c, a, r))
        BY <2>1 DEF ProcessConfirmedRequest
      <3>2. said'.ask = a /\ Named(a) \in Proxies /\ r.code \in {"ack", "stored"}
        BY <2>1, <3>1 DEF AnswerAtOnce, Store, Start, Says, Silence
      <3>3. /\ r = WriteProperty(value, a) /\ a.service = "Write"
            /\ a.object \in DOMAIN Layer.devices[a.device]
        BY <2>1, <3>1, <3>2, AskAssumption DEF Outcome, ExecuteWrite, AskAssumption
      <3>4. r.code = "stored" /\ Store(c, a, r) /\ r.subject \notin External
        BY <3>1, <3>2, <3>3, WriteApt DEF AnswerAtOnce, Start
      <3>5. \A s \in Subjects : value[s] \in Numbers[s] \cup {Null}
        BY DEF Typed, Values
      <3>6. /\ r.subject = SubjectOf(a) /\ r.n \in Numbers[r.subject]
            /\ ReadBackAs(a, r.n) /\ Leaves(a, value[r.subject], r.n)
        BY <3>3, <3>4, <3>5, WriteNumber
      <3>7. r.subject \in Subjects /\ ~ NamesExternal(a)
        BY <3>2, <3>4, <3>6, ProxyAssumption DEF ProxyAssumption, SubjectOf, NamesExternal
      <3>8. \/ value'[r.subject] = r.n
            \/ value' = value /\ NumberOf(value[r.subject]) = r.n
        BY <3>4, <3>7 DEF Store, Inv, Waits, Shapes
      <3>9. \/ value'[r.subject] = r.n
            \/ value' = value /\ value[r.subject] = Null
        BY <3>8 DEF NumberOf
      <3>10. value'[r.subject] # Null => Reads(ProxyAt(Named(a)), value'[r.subject], a)
        BY <3>6, <3>9 DEF ReadBackAs
      <3>11. \A y \in Observers :
                 Apart(ProxyAt(Named(a)), ProxyAt(y))
                     => Shown(ProxyAt(y), value'[r.subject]) = Shown(ProxyAt(y), value[r.subject])
        BY <3>6, <3>9 DEF Leaves
      <3> QED  BY <3>2, <3>6, <3>7, <3>10, <3>11 DEF SubjectOf
    <2>2. ASSUME NEW i \in AsynchIds, WriteAnswered(i), said'.is.code = "ack"
          PROVE  A
      <3>1. /\ waiting[i].code = "served" /\ AskOf(i).service = "Write" /\ InUse(i)
            /\ said' = Says(waiting[i].client, AskOf(i), Ack(<<>>))
        BY <2>2 DEF WriteAnswered, Finish, InUse
      <3>2. /\ said'.ask = AskOf(i) /\ Named(AskOf(i)) \in Proxies
            /\ said'.seen = client[waiting[i].client].seen
            /\ said'.reached = client[waiting[i].client].reached
        BY <2>2, <3>1 DEF Says, Silence
      <3>3. /\ client[waiting[i].client].reached = TRUE
            /\ waiting[i].subject \in External /\ Apt(AskOf(i), waiting[i])
            /\ waiting[i].by \in Observers
        BY <3>1 DEF Inv, Waits, WaitApt, SeenBy, Typed, Carried
      <3>4. NamesExternal(AskOf(i))
        BY <3>2, <3>3 DEF Apt, NamesExternal, SubjectOf
      <3>5. /\ waiting[i].n \in client[waiting[i].client].seen
            /\ Reads(ProxyAt(Named(AskOf(i))), waiting[i].n, AskOf(i))
        BY <3>1 DEF AllKept, Kept, ReadBackAs
      <3> QED  BY <3>2, <3>3, <3>4, <3>5
    <2>3. ASSUME NEW i \in AsynchIds, ReadAnswered(i)
          PROVE  A
      BY <2>3 DEF ReadAnswered, Finish, Says, Silence
    <2>4. ASSUME NEW i \in AsynchIds, ReadFailed(i) \/ WriteFailed(i)
          PROVE  said' = Silence
      BY <2>4 DEF ReadFailed, WriteFailed, Finish, Says, Error
    <2>5. ASSUME NEW i \in AsynchIds, RemoteServes(i)
          PROVE  said' = Silence
      BY <2>5 DEF RemoteServes
    <2>6. ASSUME \/ \E s \in External : \E n \in Numbers[s] : RemoteChanges(s, n)
                 \/ \E s \in Polled : PollSent(s) \/ PollServed(s) \/ PollAnswered(s) \/ PollFailed(s)
                 \/ \E s \in Foreign : \E n \in Numbers[s] : SetValue(s, n)
          PROVE  said' = Silence
      BY <2>6 DEF RemoteChanges, PollSent, PollServed, PollAnswered, PollFailed, SetValue
    <2>7. said' = Silence => said'.is.code # "ack"
      BY DEF Silence
    <2>8. said'.is.code # "ack" \/ said'.ask.service # "Write" => A
      OBVIOUS
    <2> HIDE DEF A
    <2> QED  BY <2>1, <2>2, <2>3, <2>4, <2>5, <2>6, <2>7, <2>8 DEF Next
  <1> QED  BY <1>1, <1>2, <1>3, TypedHolds, PTL DEF Spec, WritesDone
=============================================================================
