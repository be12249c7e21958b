----------------------------- MODULE SngProofs -----------------------------
(***************************************************************************)
(* For any elements, addresses, inputs and faults: the connection to the   *)
(* communication server, after an error that was noticed, is made again by *)
(* one timer at a time, no frame outlives the connection it came over, and *)
(* when the calls that a frame or a write set off have returned, every     *)
(* actor's property has the value that was last on its address.            *)
(***************************************************************************)
EXTENDS SngConnection, FiniteSetTheorems, SequenceTheorems, TLAPS

\* What a connection brought is read on that connection or never.
NothingLeft == link # "Connected" => wire = <<>> /\ unread = <<>>

LinkInv == OneReconnection /\ NothingLeft

LEMMA InitLink == Init => LinkInv
  BY DEF Init, LinkInv, OneReconnection, NothingLeft

\* The calls inside the gateway read frames and touch nothing else of the connection.
LEMMA CallsLink ==
    ASSUME LinkInv, RunCalls
    PROVE  LinkInv'
  <1>1. link' = link /\ timers' = timers /\ wire' = wire
    BY DEF RunCalls
  <1>2. unread' = unread \/ unread # <<>>
    BY DEF RunCalls, ReadFrame
  <1> QED  BY <1>1, <1>2 DEF LinkInv, OneReconnection, NothingLeft

\* The end of a connection, and the failure to make one, schedules the timer that
\* was not running, or leaves the gateway without both.
LEMMA ErrorLink ==
    ASSUME LinkInv, link \in {"Connecting", "Connected"}, Error
    PROVE  LinkInv'
  BY DEF LinkInv, OneReconnection, NothingLeft, Error

LEMMA EventLink ==
    ASSUME LinkInv,
           \/ \E n \in 1..MaxFrames + 1 : ReadyRead(n)
           \/ \E a \in Actors, v \in 0..MaxValue : Write(a, v)
           \/ Connected \/ ConnectionFails \/ ConnectionBreaks \/ ConnectToHost
    PROVE  LinkInv'
  <1>1. ASSUME NEW n, ReadyRead(n)
        PROVE  LinkInv'
    BY <1>1 DEF ReadyRead, LinkInv, OneReconnection, NothingLeft
  <1>2. ASSUME NEW a, NEW v, Write(a, v)
        PROVE  LinkInv'
    BY <1>2 DEF Write, LinkInv, OneReconnection, NothingLeft
  <1>3. CASE Connected
    BY <1>3 DEF Connected, LinkInv, OneReconnection, NothingLeft
  <1>4. CASE ConnectionFails \/ ConnectionBreaks
    BY <1>4, ErrorLink DEF ConnectionFails, ConnectionBreaks
  <1>5. CASE ConnectToHost
    BY <1>5 DEF ConnectToHost, LinkInv, OneReconnection, NothingLeft
  <1> QED  BY <1>1, <1>2, <1>3, <1>4, <1>5

LEMMA ServerLink ==
    ASSUME LinkInv,
           \/ \E e \in Elements \ Reporting, v \in Byte : Press(e, v)
           \/ \E a \in Reporting : Report(a)
           \/ \E a \in Reporting, v \in Byte : Switch(a, v)
           \/ StaysAlive \/ Spoils
    PROVE  LinkInv'
  <1>1. ASSUME NEW f, ServerSends(f)
        PROVE  LinkInv'
    BY <1>1 DEF ServerSends, LinkInv, OneReconnection, NothingLeft
  <1>2. ASSUME NEW a, NEW v, Switch(a, v)
        PROVE  LinkInv'
    BY <1>2 DEF Switch, LinkInv, OneReconnection, NothingLeft
  <1> QED  BY <1>1, <1>2 DEF Press, Report, StaysAlive, Spoils

THEOREM LinkInvariance == Spec => []LinkInv
  <1>1. LinkInv /\ [Next]_vars => LinkInv'
    <2> SUFFICES ASSUME LinkInv, [Next]_vars
                 PROVE  LinkInv'
      OBVIOUS
    <2>1. CASE UNCHANGED vars
      BY <2>1 DEF vars, LinkInv, OneReconnection, NothingLeft
    <2>2. CASE Next
      BY <2>2, CallsLink, EventLink, ServerLink DEF Next
    <2> QED  BY <2>1, <2>2
  <1> QED  BY InitLink, <1>1, PTL DEF Spec

\* Whatever breaks and however often, a timer never fires into a connection that
\* works or an attempt under way; after a noticed error there is exactly one, and
\* after one that was passed over there is none.
THEOREM OneTimer == Spec => []OneReconnection
  <1>1. LinkInv => OneReconnection
    BY DEF LinkInv
  <1> QED  BY <1>1, LinkInvariance, PTL

\* No frame, and no part of what a frame set off at the socket, is taken over into
\* the next connection.
THEOREM FramesEnd == Spec => []NothingLeft
  <1>1. LinkInv => NothingLeft
    BY DEF LinkInv
  <1> QED  BY <1>1, LinkInvariance, PTL
-----------------------------------------------------------------------------
(* The places that the ranks give.  *)

\* What has lesser rank has a smaller place, and no two elements share one.
LEMMA PlacesDiffer ==
    ASSUME NEW S \in SUBSET Elements, NEW e1 \in S, NEW e2 \in S, Rank[e1] < Rank[e2]
    PROVE  Place(S, e1) < Place(S, e2)
  <1> DEFINE Below(e) == {d \in S : Rank[d] <= Rank[e]}
  <1>1. IsFiniteSet(Below(e1)) /\ IsFiniteSet(Below(e2))
    BY FS_Subset, ElementsAssumption
  <1>2. Below(e1) \subseteq Below(e2) /\ Below(e1) # Below(e2)
    <2>1. \A d \in S : Rank[d] \in Nat
      BY ElementsAssumption
    <2>2. Below(e1) \subseteq Below(e2)
      BY <2>1
    <2>3. e2 \in Below(e2) /\ e2 \notin Below(e1)
      BY <2>1
    <2> QED  BY <2>2, <2>3
  <1>3. /\ Cardinality(Below(e1)) <= Cardinality(Below(e2))
        /\ Cardinality(Below(e1)) # Cardinality(Below(e2))
    BY <1>1, <1>2, FS_Subset
  <1>4. Cardinality(Below(e1)) \in Nat /\ Cardinality(Below(e2)) \in Nat
    BY <1>1, FS_CardinalityType
  <1> QED  BY <1>3, <1>4 DEF Place

\* So the places of n elements are the numbers 1 to n, each taken once.
LEMMA PlacesFill ==
    ASSUME NEW S \in SUBSET Elements
    PROVE  /\ Cardinality(S) \in Nat
           /\ \A e \in S : Place(S, e) \in 1..Cardinality(S)
           /\ \A d, e \in S : Place(S, d) = Place(S, e) => d = e
           /\ \A i \in 1..Cardinality(S) : \E e \in S : Place(S, e) = i
  <1> DEFINE f == [e \in S |-> Place(S, e)]
  <1>1. IsFiniteSet(S) /\ Cardinality(S) \in Nat
    BY FS_Subset, FS_CardinalityType, ElementsAssumption
  <1>2. ASSUME NEW e \in S
        PROVE  Place(S, e) \in 1..Cardinality(S)
    <2> DEFINE B == {d \in S : Rank[d] <= Rank[e]}
    <2>1. IsFiniteSet(B) /\ Cardinality(B) <= Cardinality(S)
      BY <1>1, FS_Subset
    <2>2. e \in B
      BY ElementsAssumption
    <2>3. Cardinality(B) \in Nat
      BY <2>1, FS_CardinalityType
    <2>4. Cardinality(B) # 0
      BY <2>1, <2>2, FS_EmptySet
    <2> QED  BY <1>1, <2>1, <2>3, <2>4 DEF Place
  <1>3. ASSUME NEW d \in S, NEW e \in S, Place(S, d) = Place(S, e)
        PROVE  d = e
    <2>1. Rank[d] \in Nat /\ Rank[e] \in Nat /\ d \in Elements /\ e \in Elements
      BY ElementsAssumption
    <2>2. Place(S, d) \in Nat /\ Place(S, e) \in Nat
      BY <1>2, <1>1
    <2>3. ~(Rank[d] < Rank[e]) /\ ~(Rank[e] < Rank[d])
      BY <2>2, <1>3, PlacesDiffer
    <2> QED  BY <2>1, <2>3, ElementsAssumption
  <1>4. f \in Injection(S, 1..Cardinality(S))
    BY <1>2, <1>3 DEF Injection, IsInjective
  <1>5. IsFiniteSet(1..Cardinality(S)) /\ Cardinality(1..Cardinality(S)) = Cardinality(S)
    BY <1>1, FS_Interval
  <1>6. f \in Surjection(S, 1..Cardinality(S))
    BY <1>4, <1>5, FS_Injection
  <1>7. \A i \in 1..Cardinality(S) : \E e \in S : Place(S, e) = i
    BY <1>6 DEF Surjection
  <1> QED  BY <1>1, <1>2, <1>3, <1>7

\* Calls made in order reach each of the elements.
LEMMA InOrderAll ==
    ASSUME NEW S \in SUBSET Elements
    PROVE  /\ Len(InOrder(S)) \in Nat /\ DOMAIN InOrder(S) = 1..Len(InOrder(S))
           /\ \A i \in 1..Len(InOrder(S)) : InOrder(S)[i] \in S
           /\ \A e \in S : \E i \in 1..Len(InOrder(S)) : InOrder(S)[i] = e
  <1> DEFINE n == Cardinality(S)
  <1>1. n \in Nat
    BY PlacesFill
  <1>2. ASSUME NEW i \in 1..n
        PROVE  InOrder(S)[i] \in S /\ Place(S, InOrder(S)[i]) = i
    <2>1. \E e \in S : Place(S, e) = i
      BY PlacesFill
    <2>2. InOrder(S)[i] = CHOOSE e \in S : Place(S, e) = i
      BY DEF InOrder
    <2> QED  BY <2>1, <2>2
  <1>3. DOMAIN InOrder(S) = 1..n /\ InOrder(S) = [i \in 1..n |-> InOrder(S)[i]]
    BY DEF InOrder
  <1>4. InOrder(S) \in Seq(S) /\ Len(InOrder(S)) = n
    BY <1>1, <1>2, <1>3
  <1>5. ASSUME NEW e \in S
        PROVE  \E i \in 1..n : InOrder(S)[i] = e
    <2>1. Place(S, e) \in 1..n
      BY PlacesFill
    <2>2. InOrder(S)[Place(S, e)] \in S /\ Place(S, InOrder(S)[Place(S, e)]) = Place(S, e)
      BY <2>1, <1>2
    <2> QED  BY <2>1, <2>2, PlacesFill
  <1> QED  BY <1>1, <1>2, <1>3, <1>4, <1>5
-----------------------------------------------------------------------------
(* Types.  What a call concerns is part of the invariant further down. *)

\* What a byte can hold is kept, and everything else becomes a byte.
LEMMA Bytes ==
    /\ 0 \in Byte /\ Byte \subseteq Nat /\ Values \subseteq Nat /\ Byte \subseteq Values
    /\ \A v \in Nat : Encoded(v) \in Byte
    /\ \A v \in Byte : Encoded(v) = v
  <1>1. \A v \in Nat : v % ByteModulus \in 0..ByteModulus - 1
    BY NumbersAssumption
  <1>2. \A v \in 0..ByteModulus - 1 : v % ByteModulus = v
    BY NumbersAssumption
  <1> QED  BY <1>1, <1>2, NumbersAssumption DEF Byte, Values, Encoded

\* A frame is received by all who hear it but its sender, and by nobody else.
LEMMA DisposeCalls ==
    ASSUME NEW f, f.value \in Byte, NEW sender
    PROVE  /\ Dispose(f, sender) \in Seq(Calls)
           /\ \A i \in 1..Len(Dispose(f, sender)) :
                \E e \in Hearing(f) : Dispose(f, sender)[i] = Call("receive", e, f.value, NoElement)
           /\ \A e \in Hearing(f) \ {sender} : \E i \in 1..Len(Dispose(f, sender)) :
                Dispose(f, sender)[i] = Call("receive", e, f.value, NoElement)
  <1> DEFINE S == Hearing(f) \ {sender}
             to == InOrder(S)
             D == [i \in DOMAIN to |-> Call("receive", to[i], f.value, NoElement)]
  <1>1. S \in SUBSET Elements
    BY DEF Hearing
  <1>2. /\ Len(to) \in Nat /\ DOMAIN to = 1..Len(to)
        /\ \A i \in 1..Len(to) : to[i] \in S
        /\ \A e \in S : \E i \in 1..Len(to) : to[i] = e
    BY <1>1, InOrderAll
  <1>3. \A e \in S : Call("receive", e, f.value, NoElement) \in Calls
    BY <1>1, Bytes DEF Call, Calls
  <1> HIDE DEF to, S
  <1>4. D \in Seq(Calls) /\ Len(D) = Len(to)
    BY <1>2, <1>3
  <1>5. \A i \in 1..Len(to) : D[i] = Call("receive", to[i], f.value, NoElement)
    BY <1>2
  <1>6. Dispose(f, sender) = D
    BY DEF Dispose, to, S
  <1>7. S \subseteq Hearing(f)
    BY DEF S
  <1> QED
    <2> HIDE DEF D
    <2>1. \A i \in 1..Len(D) : \E e \in Hearing(f) : D[i] = Call("receive", e, f.value, NoElement)
      BY <1>2, <1>4, <1>5, <1>7
    <2>2. \A e \in S : \E i \in 1..Len(D) : D[i] = Call("receive", e, f.value, NoElement)
      BY <1>2, <1>4, <1>5
    <2> QED  BY <1>4, <1>6, <2>1, <2>2 DEF S

\* Only sensors that observe the actor's property are told of a change.
LEMMA InformCalls ==
    ASSUME NEW a, NEW except
    PROVE  /\ Inform(a, except) \in Seq(Calls)
           /\ \A i \in 1..Len(Inform(a, except)) :
                \E s \in Sensors : Subject[s] = a /\ Inform(a, except)[i] = Call("changed", s, 0, NoElement)
  <1> DEFINE S == {s \in Sensors : Subject[s] = a} \ {except}
             to == InOrder(S)
             D == [i \in DOMAIN to |-> Call("changed", to[i], 0, NoElement)]
  <1>1. S \in SUBSET Elements
    BY DEF Elements
  <1>2. /\ Len(to) \in Nat /\ DOMAIN to = 1..Len(to)
        /\ \A i \in 1..Len(to) : to[i] \in S
    BY <1>1, InOrderAll
  <1>3. \A e \in S : Call("changed", e, 0, NoElement) \in Calls
    BY <1>1, Bytes DEF Call, Calls
  <1>7. \A s \in S : s \in Sensors /\ Subject[s] = a
    OBVIOUS
  <1>6. Inform(a, except) = D
    BY DEF Inform
  <1> HIDE DEF to, S
  <1>4. D \in Seq(Calls) /\ Len(D) = Len(to)
    BY <1>2, <1>3
  <1>5. \A i \in 1..Len(to) : D[i] = Call("changed", to[i], 0, NoElement)
    BY <1>2
  <1> HIDE DEF D
  <1> QED  BY <1>2, <1>4, <1>5, <1>6, <1>7

CallsTyped ==
    /\ todo \in Seq(Calls) /\ value \in [Actors -> Values]
    /\ device \in [Reporting -> Byte] /\ dirty \subseteq Reporting
    /\ lost \subseteq Reporting
    /\ led \in [Sensors -> Byte] /\ seen \in [Actors -> Byte]

LinkTyped ==
    /\ link \in {"Connecting", "Connected", "Down", "Lost"}
    /\ timers \in Nat
    /\ wire \in Seq(Frames) /\ unread \in Seq(Frames)
    /\ inputs \in 0..MaxInputs /\ faults \in 0..MaxFaults

LEMMA FrameBytes ==
    ASSUME NEW f \in Frames
    PROVE  f.value \in Byte
  BY Bytes DEF Frames, KeepAlive, Invalid, Frame

LEMMA WrittenTyped ==
    ASSUME CallsTyped, NEW f, f.value \in Byte, Written(f)
    PROVE  device' \in [Reporting -> Byte] /\ dirty' \subseteq Reporting /\ lost' \subseteq Reporting
  BY DEF CallsTyped, Written

LEMMA SeenTyped ==
    ASSUME CallsTyped, NEW f, f.value \in Byte, NEW sender, Seen(f, sender)
    PROVE  seen' \in [Actors -> Byte]
  BY DEF CallsTyped, Seen

LEMMA SendTyped ==
    ASSUME CallsTyped, NEW e, NEW v \in Values, NEW after \in Seq(Calls),
           Send(e, v, after), value' = value
    PROVE  CallsTyped'
  <1> DEFINE f == Frame(Tx[e], TypeOf[e], Encoded(v))
  <1>1. f.value \in Byte
    BY Bytes DEF Frame
  <1>2. /\ Written(f) /\ Seen(f, e)
        /\ led' = IF e \in Sensors THEN [led EXCEPT ![e] = f.value] ELSE led
        /\ todo' = Dispose(f, e) \o after
    BY DEF Send
  <1> HIDE DEF f
  <1>3. todo' \in Seq(Calls)
    BY <1>1, <1>2, DisposeCalls, ConcatProperties
  <1>4. led' \in [Sensors -> Byte]
    BY <1>1, <1>2 DEF CallsTyped
  <1> QED  BY <1>1, <1>2, <1>3, <1>4, WrittenTyped, SeenTyped DEF CallsTyped

LEMMA RequestTyped ==
    ASSUME CallsTyped, NEW a \in Actors, NEW v \in Values, NEW r \in Elements \cup {NoElement},
           NEW after \in Seq(Calls), Request(a, v, r, after), value' = value
    PROVE  CallsTyped'
  <1>1. CASE Tx[a] = NoAddress
    BY <1>1 DEF Request, CallsTyped
  <1>2. CASE Tx[a] # NoAddress
    <2>1. Call("setValueSafe", a, v, r) \in Calls
      BY DEF Call, Calls, Elements
    <2>2. <<Call("setValueSafe", a, v, r)>> \o after \in Seq(Calls)
      BY <2>1, ConcatProperties
    <2> QED  BY <1>2, <2>2, SendTyped DEF Request
  <1> QED  BY <1>1, <1>2

LEMMA HeadTyped ==
    ASSUME CallsTyped, todo # <<>>
    PROVE  /\ Head(todo) \in Calls /\ Tail(todo) \in Seq(Calls)
           /\ Head(todo).value \in Values /\ Head(todo).by \in Elements \cup {NoElement}
  <1>1. Head(todo) \in Calls /\ Tail(todo) \in Seq(Calls)
    BY HeadTailProperties DEF CallsTyped
  <1> QED  BY <1>1 DEF Calls

\* A value is only set where there is one, which is part of WaveInv.
LEMMA RunTyped ==
    ASSUME CallsTyped, LinkTyped, RunCalls, Calling("setValueSafe") => Head(todo).at \in Actors,
           Calling("changed") => Head(todo).at \in Sensors
    PROVE  CallsTyped' /\ LinkTyped'
  <1>1. ASSUME ActorReceives
        PROVE  CallsTyped'
    <2>1. [value EXCEPT ![Head(todo).at] = Head(todo).value] \in [Actors -> Values]
      BY <1>1, HeadTyped DEF ActorReceives, Calling, CallsTyped
    <2>2. Inform(Head(todo).at, NoElement) \o Tail(todo) \in Seq(Calls)
      BY <1>1, HeadTyped, InformCalls, ConcatProperties DEF ActorReceives, Calling
    <2> QED  BY <1>1, <2>1, <2>2 DEF ActorReceives, CallsTyped
  <1>2. ASSUME SensorReceives
        PROVE  CallsTyped'
    <2>1. Subject[Head(todo).at] \in Actors
      BY <1>2, ElementsAssumption DEF SensorReceives
    <2> QED  BY <1>2, <2>1, HeadTyped, RequestTyped DEF SensorReceives, Calling, Elements
  <1>3. ASSUME Requested
        PROVE  CallsTyped'
    <2>1. [value EXCEPT ![Head(todo).at] = Head(todo).value] \in [Actors -> Values]
      BY <1>3, HeadTyped DEF Requested, Calling, CallsTyped
    <2>2. Inform(Head(todo).at, Head(todo).by) \o Tail(todo) \in Seq(Calls)
      BY <1>3, HeadTyped, InformCalls, ConcatProperties DEF Requested, Calling
    <2> QED  BY <1>3, <2>1, <2>2, HeadTyped DEF Requested, Calling, CallsTyped
  <1>4. ASSUME Changed
        PROVE  CallsTyped'
    <2>1. value[Subject[Head(todo).at]] \in Values
      BY <1>4, ElementsAssumption DEF Changed, CallsTyped
    <2>2. CASE Tx[Head(todo).at] = NoAddress
      BY <1>4, <2>2, HeadTyped DEF Changed, Calling, CallsTyped
    <2>3. CASE Tx[Head(todo).at] # NoAddress
      BY <1>4, <2>1, <2>3, HeadTyped, SendTyped DEF Changed, Calling
    <2> QED  BY <2>2, <2>3
  <1>5. CASE ReadFrame
    <2>1. CASE unread = <<>>
      BY <1>5, <2>1, HeadTyped DEF ReadFrame, Calling, CallsTyped, LinkTyped, RunCalls
    <2>2. CASE unread # <<>>
      <3>1. Head(unread) \in Frames /\ Tail(unread) \in Seq(Frames) /\ Head(unread).value \in Byte
        BY <2>2, HeadTailProperties, FrameBytes DEF LinkTyped
      <3>2. CASE IsData(Head(unread))
        <4>1. Dispose(Head(unread), NoElement) \o todo \in Seq(Calls)
          BY <3>1, DisposeCalls, ConcatProperties DEF CallsTyped
        <4> QED  BY <1>5, <2>2, <3>1, <3>2, <4>1, SeenTyped DEF ReadFrame, CallsTyped, LinkTyped, RunCalls
      <3>3. CASE ~IsData(Head(unread))
        BY <1>5, <2>2, <3>1, <3>3, HeadTyped DEF ReadFrame, Calling, CallsTyped, LinkTyped, RunCalls
      <3> QED  BY <3>2, <3>3
    <2> QED  BY <2>1, <2>2
  <1>6. UNCHANGED unread => LinkTyped'
    BY DEF RunCalls, LinkTyped
  <1> QED  BY <1>1, <1>2, <1>3, <1>4, <1>5, <1>6 DEF RunCalls

LEMMA InitTyped == Init => CallsTyped /\ LinkTyped
  <1> SUFFICES ASSUME Init
               PROVE  CallsTyped /\ LinkTyped
    OBVIOUS
  <1>1. CallsTyped
    BY Bytes DEF Init, CallsTyped, Values
  <1>2. LinkTyped
    BY NumbersAssumption DEF Init, LinkTyped
  <1> QED  BY <1>1, <1>2

LEMMA SendsTyped ==
    ASSUME LinkTyped, NEW f \in Frames, ServerSends(f)
    PROVE  /\ link' = link /\ timers' = timers /\ unread' = unread
           /\ wire' \in Seq(Frames) /\ todo' = todo /\ value' = value
           /\ device' = device /\ led' = led /\ seen' = seen /\ lost' = lost
  BY AppendProperties DEF ServerSends, LinkTyped

LEMMA EventTyped ==
    ASSUME CallsTyped, LinkTyped,
           \/ \E n \in 1..MaxFrames + 1 : ReadyRead(n)
           \/ \E a \in Actors, v \in 0..MaxValue : Write(a, v)
           \/ Connected \/ ConnectionFails \/ ConnectionBreaks \/ ConnectToHost
    PROVE  CallsTyped' /\ LinkTyped'
  <1>1. ASSUME NEW n, ReadyRead(n)
        PROVE  CallsTyped' /\ LinkTyped'
    <2>1. n \in 1..Len(wire) /\ Len(wire) \in Nat /\ \A i \in 1..Len(wire) : wire[i] \in Frames
      BY <1>1, LenProperties, ElementOfSeq DEF ReadyRead, LinkTyped
    <2>2. SubSeq(wire, 1, n) \in Seq(Frames) /\ SubSeq(wire, n + 1, Len(wire)) \in Seq(Frames)
      BY <2>1, SubSeqProperties
    <2>3. unread \o SubSeq(wire, 1, n) \in Seq(Frames)
      BY <2>2, ConcatProperties DEF LinkTyped
    <2>4. <<Call("readFrame", NoElement, 0, NoElement)>> \in Seq(Calls)
      BY Bytes DEF Call, Calls
    <2> QED  BY <1>1, <2>2, <2>3, <2>4 DEF ReadyRead, CallsTyped, LinkTyped
  <1>2. ASSUME NEW a \in Actors, NEW v \in 0..MaxValue, Write(a, v)
        PROVE  CallsTyped' /\ LinkTyped'
    <2>1. CallsTyped'
      <3>1. v \in Values
        BY DEF Values
      <3>2. <<>> \in Seq(Calls)
        OBVIOUS
      <3> QED  BY <1>2, <3>1, <3>2, RequestTyped DEF Write
    <2>2. LinkTyped'
      BY <1>2, NumbersAssumption DEF Write, LinkTyped
    <2> QED  BY <2>1, <2>2
  <1>3. CASE Connected \/ ConnectionFails \/ ConnectionBreaks \/ ConnectToHost
    <2>1. CallsTyped'
      BY <1>3 DEF Connected, ConnectionFails, ConnectionBreaks, ConnectToHost, Error, calls, CallsTyped
    <2>2. CASE Connected
      BY <2>1, <2>2 DEF Connected, LinkTyped
    <2>3. CASE Error /\ UNCHANGED inputs /\ faults' \in 0..MaxFaults
      <3>1. wire' = <<>> /\ unread' = <<>> /\ <<>> \in Seq(Frames)
        BY <2>3 DEF Error
      <3>2. link' \in {"Down", "Lost"} /\ timers' \in Nat
        BY <2>3 DEF Error, LinkTyped
      <3> QED  BY <2>1, <2>3, <3>1, <3>2 DEF LinkTyped
    <2>4. CASE ConnectToHost
      BY <2>1, <2>4 DEF ConnectToHost, LinkTyped
    <2>5. ConnectionBreaks => faults' \in 0..MaxFaults
      BY NumbersAssumption DEF ConnectionBreaks, LinkTyped
    <2> QED
      BY <1>3, <2>2, <2>3, <2>4, <2>5 DEF ConnectionFails, ConnectionBreaks, LinkTyped
  <1> QED  BY <1>1, <1>2, <1>3

LEMMA ServerTyped ==
    ASSUME CallsTyped, LinkTyped,
           \/ \E e \in Elements \ Reporting, v \in Byte : Press(e, v)
           \/ \E a \in Reporting : Report(a)
           \/ \E a \in Reporting, v \in Byte : Switch(a, v)
           \/ StaysAlive \/ Spoils
    PROVE  CallsTyped' /\ LinkTyped'
  <1>1. ASSUME NEW f \in Frames, ServerSends(f), dirty' \subseteq Reporting
        PROVE  CallsTyped'
    BY <1>1, SendsTyped DEF CallsTyped
  <1>2. ASSUME NEW f \in Frames, ServerSends(f),
               inputs' \in 0..MaxInputs, faults' \in 0..MaxFaults
        PROVE  LinkTyped'
    BY <1>2, SendsTyped DEF LinkTyped
  <1>3. ASSUME NEW e \in Elements \ Reporting, NEW v \in Byte, Press(e, v)
        PROVE  CallsTyped' /\ LinkTyped'
    <2>1. Frame(ListensTo(e), TypeOf[e], v) \in Frames
      BY DEF Frames
    <2>2. inputs' \in 0..MaxInputs
      BY <1>3, NumbersAssumption DEF Press, LinkTyped
    <2>3. faults' \in 0..MaxFaults /\ dirty' \subseteq Reporting
      BY <1>3 DEF Press, LinkTyped, CallsTyped
    <2> QED  BY <1>1, <1>2, <1>3, <2>1, <2>2, <2>3 DEF Press
  <1>4. ASSUME NEW a \in Reporting, Report(a)
        PROVE  CallsTyped' /\ LinkTyped'
    <2>1. ListensTo(a) = Rx[a] /\ a \in Elements /\ device[a] \in Byte
      BY DEF ListensTo, Reporting, Elements, CallsTyped
    <2>2. Frame(Rx[a], TypeOf[a], device[a]) \in Frames
      BY <2>1 DEF Frames
    <2>3. /\ inputs' \in 0..MaxInputs /\ faults' \in 0..MaxFaults
          /\ dirty' \subseteq Reporting
      BY <1>4 DEF Report, LinkTyped, CallsTyped
    <2> QED  BY <1>1, <1>2, <1>4, <2>2, <2>3 DEF Report
  <1>5. ASSUME NEW a \in Reporting, NEW v \in Byte, Switch(a, v)
        PROVE  CallsTyped' /\ LinkTyped'
    <2>1. inputs' \in 0..MaxInputs
      BY <1>5, NumbersAssumption DEF Switch, LinkTyped
    <2> QED  BY <1>5, <2>1 DEF Switch, CallsTyped, LinkTyped
  <1>6. CASE StaysAlive
    <2>1. KeepAlive \in Frames /\ dirty' = dirty /\ inputs' = inputs /\ faults' = faults
      BY <1>6 DEF Frames, StaysAlive
    <2> QED  BY <1>1, <1>2, <1>6, <2>1 DEF StaysAlive, CallsTyped, LinkTyped
  <1>7. CASE Spoils
    <2>1. Invalid \in Frames /\ dirty' = dirty /\ inputs' = inputs
      BY <1>7 DEF Frames, Spoils
    <2>2. faults' \in 0..MaxFaults
      BY <1>7, NumbersAssumption DEF Spoils, LinkTyped
    <2> QED  BY <1>1, <1>2, <1>7, <2>1, <2>2 DEF Spoils, CallsTyped, LinkTyped
  <1> QED  BY <1>3, <1>4, <1>5, <1>6, <1>7
-----------------------------------------------------------------------------
(* A frame or a write sets off a wave of calls, and a wave carries one byte: *)
(* listeners pass on what they received, and what is sent on behalf of a     *)
(* property is the byte that the property has just taken over.  So whatever  *)
(* the order in which the calls run, an actor that the byte has not reached  *)
(* yet still has a call that brings it.                                      *)

\* Membership in a sequence of calls.
In(c, s) == \E i \in 1..Len(s) : s[i] = c

\* A frame is read when all that the one before set off is done.
ReadLast(s) == \A i \in 1..Len(s) : s[i].name = "readFrame" => i = Len(s)

\* A call that the byte w set off finds the value and the address it speaks of at w.
OfWave(c, w) ==
    \/ c.name = "readFrame"
    \/ /\ c.name = "receive" /\ c.at \in Elements /\ c.value = w
       /\ c.at \in Actors => seen[c.at] = w
    \/ /\ c.name = "setValueSafe" /\ c.at \in Actors /\ Encoded(c.value) = w
       /\ seen[c.at] = w
    \/ c.name = "changed" /\ c.at \in Sensors /\ Encoded(value[Subject[c.at]]) = w

\* A call that brings a value to an actor; an actor that needs none.
SetBy(c, a) == c.name \in {"receive", "setValueSafe"} /\ c.at = a
Settled(a) == Encoded(value[a]) = seen[a]

\* All calls under way are of one byte, and who is not settled is still called.
Wave(w) ==
    /\ \A c : In(c, todo) => OfWave(c, w)
    /\ ReadLast(todo)
    /\ \A a \in Actors : TypeOf[a] # "Time" =>
         Settled(a) \/ \E c : In(c, todo) /\ SetBy(c, a)

WaveInv == \E w \in Byte : Wave(w)

LEMMA InConcat ==
    ASSUME NEW s \in Seq(Calls), NEW t \in Seq(Calls)
    PROVE  \A c : In(c, s \o t) <=> In(c, s) \/ In(c, t)
  <1> SUFFICES ASSUME NEW c
               PROVE  In(c, s \o t) <=> In(c, s) \/ In(c, t)
    OBVIOUS
  <1>1. /\ Len(s) \in Nat /\ Len(t) \in Nat /\ Len(s \o t) = Len(s) + Len(t)
        /\ \A i \in 1..Len(s) + Len(t) :
             (s \o t)[i] = IF i <= Len(s) THEN s[i] ELSE t[i - Len(s)]
    BY ConcatProperties, LenProperties
  <1>2. ASSUME In(c, s \o t)
        PROVE  In(c, s) \/ In(c, t)
    <2>1. PICK i \in 1..Len(s) + Len(t) : (s \o t)[i] = c
      BY <1>1, <1>2 DEF In
    <2>2. CASE i <= Len(s)
      BY <1>1, <2>1, <2>2 DEF In
    <2>3. CASE ~(i <= Len(s))
      <3>1. i - Len(s) \in 1..Len(t) /\ t[i - Len(s)] = c
        BY <1>1, <2>1, <2>3
      <3> QED  BY <3>1 DEF In
    <2> QED  BY <2>2, <2>3
  <1>3. ASSUME In(c, s)
        PROVE  In(c, s \o t)
    <2>1. PICK i \in 1..Len(s) : s[i] = c
      BY <1>3 DEF In
    <2>2. i \in 1..Len(s \o t) /\ (s \o t)[i] = c
      BY <1>1, <2>1
    <2> QED  BY <2>2 DEF In
  <1>4. ASSUME In(c, t)
        PROVE  In(c, s \o t)
    <2>1. PICK i \in 1..Len(t) : t[i] = c
      BY <1>4 DEF In
    <2>2. Len(s) + i \in 1..Len(s \o t) /\ (s \o t)[Len(s) + i] = c
      <3>1. Len(s) + i \in 1..Len(s) + Len(t) /\ ~(Len(s) + i <= Len(s)) /\ (Len(s) + i) - Len(s) = i
        BY <1>1
      <3> QED  BY <1>1, <2>1, <3>1
    <2> QED  BY <2>2 DEF In
  <1> QED  BY <1>2, <1>3, <1>4

LEMMA InHead ==
    ASSUME NEW s \in Seq(Calls), s # <<>>
    PROVE  \A c : In(c, s) <=> c = Head(s) \/ In(c, Tail(s))
  <1> SUFFICES ASSUME NEW c
               PROVE  In(c, s) <=> c = Head(s) \/ In(c, Tail(s))
    OBVIOUS
  <1>1. /\ Len(s) \in Nat \ {0} /\ Head(s) = s[1] /\ Tail(s) \in Seq(Calls)
        /\ Len(Tail(s)) = Len(s) - 1
        /\ \A i \in 1..Len(Tail(s)) : Tail(s)[i] = s[i + 1]
    BY HeadTailProperties, EmptySeq
  <1>2. ASSUME In(c, s)
        PROVE  c = Head(s) \/ In(c, Tail(s))
    <2>1. PICK i \in 1..Len(s) : s[i] = c
      BY <1>2 DEF In
    <2>2. CASE i # 1
      <3>1. i - 1 \in 1..Len(Tail(s)) /\ (i - 1) + 1 = i
        BY <1>1, <2>1, <2>2
      <3>2. Tail(s)[i - 1] = c
        BY <1>1, <2>1, <3>1
      <3> QED  BY <3>1, <3>2 DEF In
    <2> QED  BY <1>1, <2>1, <2>2
  <1>3. c = Head(s) => In(c, s)
    BY <1>1 DEF In
  <1>4. ASSUME In(c, Tail(s))
        PROVE  In(c, s)
    <2>1. PICK i \in 1..Len(Tail(s)) : Tail(s)[i] = c
      BY <1>4 DEF In
    <2>2. i + 1 \in 1..Len(s) /\ s[i + 1] = c
      BY <1>1, <2>1
    <2> QED  BY <2>2 DEF In
  <1> QED  BY <1>2, <1>3, <1>4

LEMMA ReadLastConcat ==
    ASSUME NEW s \in Seq(Calls), NEW t \in Seq(Calls),
           \A i \in 1..Len(s) : s[i].name # "readFrame", ReadLast(t)
    PROVE  ReadLast(s \o t)
  <1>1. /\ Len(s) \in Nat /\ Len(t) \in Nat /\ Len(s \o t) = Len(s) + Len(t)
        /\ \A i \in 1..Len(s) + Len(t) :
             (s \o t)[i] = IF i <= Len(s) THEN s[i] ELSE t[i - Len(s)]
    BY ConcatProperties, LenProperties
  <1> SUFFICES ASSUME NEW i \in 1..Len(s) + Len(t), (s \o t)[i].name = "readFrame"
               PROVE  i = Len(s) + Len(t)
    BY <1>1 DEF ReadLast
  <1>2. ~(i <= Len(s))
    BY <1>1
  <1>3. i - Len(s) \in 1..Len(t) /\ t[i - Len(s)].name = "readFrame"
    BY <1>1, <1>2
  <1>4. i - Len(s) = Len(t)
    BY <1>3 DEF ReadLast
  <1> QED  BY <1>1, <1>4

LEMMA ReadLastTail ==
    ASSUME NEW s \in Seq(Calls), s # <<>>, ReadLast(s)
    PROVE  ReadLast(Tail(s)) /\ (Head(s).name = "readFrame" => Tail(s) = <<>>)
  <1> DEFINE t == Tail(s)
  <1>1. /\ Len(s) \in Nat /\ Head(s) = s[1] /\ t \in Seq(Calls) /\ Len(t) \in Nat
        /\ Len(s) = Len(t) + 1 /\ \A i \in 1..Len(t) : t[i] = s[i + 1]
    BY HeadTailProperties, EmptySeq, LenProperties
  <1> HIDE DEF t
  <1>2. ASSUME NEW i \in 1..Len(t), t[i].name = "readFrame"
        PROVE  i = Len(t)
    <2>1. i + 1 \in 1..Len(s) /\ s[i + 1].name = "readFrame"
      BY <1>1, <1>2
    <2>2. i + 1 = Len(s)
      BY <2>1 DEF ReadLast
    <2> QED  BY <1>1, <2>2
  <1>3. ASSUME Head(s).name = "readFrame"
        PROVE  t = <<>>
    <2>1. 1 \in 1..Len(s) /\ s[1].name = "readFrame"
      BY <1>1, <1>3
    <2>2. 1 = Len(s)
      BY <2>1 DEF ReadLast
    <2>3. Len(t) = 0
      BY <1>1, <2>2
    <2> QED  BY <1>1, <2>3, EmptySeq
  <1>4. ReadLast(t)
    BY <1>2 DEF ReadLast
  <1> QED  BY <1>3, <1>4 DEF t

\* What a frame does to the history of an address.
LEMMA SeenBy ==
    ASSUME CallsTyped, NEW f, NEW sender, Seen(f, sender), NEW a \in Actors
    PROVE  /\ seen'[a] = seen[a] \/ seen'[a] = f.value
           /\ a = sender \/ a \in Hearing(f) => seen'[a] = f.value
           /\ a # sender /\ a \notin Hearing(f) /\ TypeOf[a] # "Time" => seen'[a] = seen[a]
  <1>1. seen'[a] = IF a = sender \/ (ListensTo(a) = f.address /\ TypeOf[a] = f.type)
                   THEN f.value ELSE seen[a]
    BY DEF Seen
  <1> QED  BY <1>1 DEF Hearing, Elements

\* A frame that is passed on inside the gateway carries the byte of its wave to
\* everyone who listens, and who passed it on is about to take that value over too.
LEMMA Spread ==
    ASSUME CallsTyped, value' = value, NEW w \in Byte, NEW f, f.value = w,
           NEW sender, Seen(f, sender), NEW after \in Seq(Calls),
           todo' = Dispose(f, sender) \o after, ReadLast(after),
           \A c : In(c, after) =>
               \/ OfWave(c, w)
               \/ /\ c.name = "setValueSafe" /\ Encoded(c.value) = w
                  /\ c.at \in Actors /\ c.at = sender,
           \A a \in Actors : TypeOf[a] # "Time" /\ (a = sender \/ ~Settled(a)) =>
               \E c : In(c, after) /\ SetBy(c, a)
    PROVE  Wave(w)'
  <1> DEFINE D == Dispose(f, sender)
  <1>1. /\ D \in Seq(Calls) /\ Len(D) \in Nat
        /\ \A i \in 1..Len(D) : \E e \in Hearing(f) : D[i] = Call("receive", e, w, NoElement)
        /\ \A e \in Hearing(f) \ {sender} : In(Call("receive", e, w, NoElement), D)
    BY DisposeCalls, LenProperties DEF In
  <1>2. todo' = D \o after
    OBVIOUS
  <1>3. \A c : In(c, todo') <=> In(c, D) \/ In(c, after)
    BY <1>1, InConcat
  <1>4. ASSUME NEW c, In(c, todo')
        PROVE  OfWave(c, w)'
    <2>1. CASE In(c, D)
      <3>1. PICK e \in Hearing(f) : c = Call("receive", e, w, NoElement)
        BY <1>1, <2>1 DEF In
      <3>2. c.name = "receive" /\ c.at = e /\ c.value = w /\ e \in Elements
        BY <3>1 DEF Call, Hearing
      <3>3. e \in Actors => seen'[e] = w
        BY SeenBy
      <3> QED  BY <3>2, <3>3 DEF OfWave
    <2>2. CASE In(c, after)
      <3>1. c.at \in Actors => seen'[c.at] = seen[c.at] \/ seen'[c.at] = w
        BY SeenBy
      <3>2. c.at \in Actors /\ c.at = sender => seen'[c.at] = w
        BY SeenBy
      <3> QED  BY <2>2, <3>1, <3>2 DEF OfWave
    <2> QED  BY <1>3, <1>4, <2>1, <2>2
  <1>5. ReadLast(todo')
    <2>1. ASSUME NEW i \in 1..Len(D)
          PROVE  D[i].name # "readFrame"
      <3>1. PICK e \in Hearing(f) : D[i] = Call("receive", e, w, NoElement)
        BY <1>1
      <3> QED  BY <3>1 DEF Call
    <2> HIDE DEF D
    <2> QED  BY <1>1, <1>2, <2>1, ReadLastConcat
  <1>6. ASSUME NEW a \in Actors, TypeOf[a] # "Time"
        PROVE  Settled(a)' \/ \E c : In(c, todo') /\ SetBy(c, a)
    <2>1. CASE a = sender \/ ~Settled(a)
      BY <1>3, <1>6, <2>1
    <2>2. CASE a # sender /\ a \in Hearing(f)
      <3>1. In(Call("receive", a, w, NoElement), todo')
        BY <1>1, <1>3, <2>2
      <3>2. SetBy(Call("receive", a, w, NoElement), a)
        BY DEF SetBy, Call
      <3> QED  BY <3>1, <3>2
    <2>3. CASE a # sender /\ a \notin Hearing(f) /\ Settled(a)
      <3>1. seen'[a] = seen[a]
        BY <1>6, <2>3, SeenBy
      <3> QED  BY <2>3, <3>1 DEF Settled
    <2> QED  BY <2>1, <2>2, <2>3
  <1> QED  BY <1>4, <1>5, <1>6 DEF Wave, SetBy

\* An actor that takes over the byte of the wave is settled, and what it informs
\* belongs to the wave.
LEMMA TakeOver ==
    ASSUME CallsTyped, seen' = seen, todo # <<>>, NEW w, Wave(w),
           NEW a \in Actors, NEW v, Encoded(v) = w, seen[a] = w,
           Head(todo).at = a, value' = [value EXCEPT ![a] = v],
           NEW except, todo' = Inform(a, except) \o Tail(todo)
    PROVE  Wave(w)'
  <1> DEFINE I == Inform(a, except)
             t == Tail(todo)
  <1>1. /\ I \in Seq(Calls) /\ Len(I) \in Nat
        /\ \A i \in 1..Len(I) :
             \E s \in Sensors : Subject[s] = a /\ I[i] = Call("changed", s, 0, NoElement)
    BY InformCalls, LenProperties
  <1>2. /\ t \in Seq(Calls) /\ ReadLast(t)
        /\ \A c : In(c, todo) <=> c = Head(todo) \/ In(c, t)
    BY HeadTyped, InHead, ReadLastTail DEF Wave, CallsTyped
  <1> HIDE DEF I, t
  <1>3. todo' = I \o t
    BY DEF I, t
  <1>4. \A c : In(c, todo') <=> In(c, I) \/ In(c, t)
    <2>1. I \in Seq(Calls) /\ t \in Seq(Calls)
      BY <1>1, <1>2
    <2>2. \A c : In(c, I \o t) <=> In(c, I) \/ In(c, t)
      BY <2>1, InConcat
    <2> QED  BY <1>3, <2>2
  <1>5. \A b \in Actors : value'[b] = IF b = a THEN v ELSE value[b]
    BY DEF CallsTyped
  <1>6. ASSUME NEW c, In(c, todo')
        PROVE  OfWave(c, w)'
    <2>1. CASE In(c, I)
      <3>1. PICK s \in Sensors : Subject[s] = a /\ c = Call("changed", s, 0, NoElement)
        BY <1>1, <2>1 DEF In
      <3>2. c.name = "changed" /\ c.at \in Sensors /\ Subject[c.at] = a
        BY <3>1 DEF Call
      <3> QED  BY <1>5, <3>2 DEF OfWave
    <2>2. CASE In(c, t)
      <3>1. OfWave(c, w)
        BY <1>2, <2>2 DEF Wave
      <3>2. c.at \in Sensors => Subject[c.at] \in Actors
        BY ElementsAssumption
      <3> QED  BY <1>5, <3>1, <3>2 DEF OfWave
    <2> QED  BY <1>4, <1>6, <2>1, <2>2
  <1>7. ReadLast(todo')
    <2>1. ASSUME NEW i \in 1..Len(I)
          PROVE  I[i].name # "readFrame"
      <3>1. PICK s \in Sensors : I[i] = Call("changed", s, 0, NoElement)
        BY <1>1
      <3> QED  BY <3>1 DEF Call
    <2> QED  BY <1>1, <1>2, <1>3, <2>1, ReadLastConcat
  <1>8. ASSUME NEW b \in Actors, TypeOf[b] # "Time"
        PROVE  Settled(b)' \/ \E c : In(c, todo') /\ SetBy(c, b)
    <2>1. CASE b = a
      BY <1>5, <2>1 DEF Settled
    <2>2. CASE b # a
      <3>1. Settled(b) \/ \E c : In(c, todo) /\ SetBy(c, b)
        BY <1>8 DEF Wave
      <3>2. ~SetBy(Head(todo), b)
        BY <2>2 DEF SetBy
      <3> QED  BY <1>2, <1>4, <1>5, <2>2, <3>1, <3>2 DEF Settled
    <2> QED  BY <2>1, <2>2
  <1> QED  BY <1>6, <1>7, <1>8 DEF Wave, SetBy

\* A call that returns, or has nothing to do, takes nothing with it that anyone needs.
LEMMA Return ==
    ASSUME CallsTyped, seen' = seen, value' = value, todo # <<>>, NEW w, Wave(w),
           todo' = Tail(todo),
           \A a \in Actors : SetBy(Head(todo), a) => Settled(a)
    PROVE  Wave(w)'
  <1>1. /\ ReadLast(Tail(todo))
        /\ \A c : In(c, todo) <=> c = Head(todo) \/ In(c, Tail(todo))
    BY InHead, ReadLastTail DEF Wave, CallsTyped
  <1>2. \A c : In(c, todo') => OfWave(c, w)'
    BY <1>1 DEF Wave, OfWave
  <1>3. ASSUME NEW a \in Actors, TypeOf[a] # "Time"
        PROVE  Settled(a)' \/ \E c : In(c, todo') /\ SetBy(c, a)
    BY <1>1, <1>3 DEF Wave, Settled
  <1> QED  BY <1>1, <1>2, <1>3 DEF Wave, SetBy

\* Sending starts the wave of the byte that is sent, or goes on with it.
LEMMA SendWave ==
    ASSUME CallsTyped, value' = value, NEW e,
           NEW v \in Values, NEW w \in Byte, Encoded(v) = w, NEW after \in Seq(Calls),
           Send(e, v, after), ReadLast(after),
           \A c : In(c, after) =>
               \/ OfWave(c, w)
               \/ /\ c.name = "setValueSafe" /\ Encoded(c.value) = w
                  /\ c.at \in Actors /\ c.at = e,
           \A a \in Actors : TypeOf[a] # "Time" /\ (a = e \/ ~Settled(a)) =>
               \E c : In(c, after) /\ SetBy(c, a)
    PROVE  Wave(w)'
  <1> DEFINE f == Frame(Tx[e], TypeOf[e], Encoded(v))
  <1>1. f.value = w
    BY DEF Frame
  <1>2. Seen(f, e) /\ todo' = Dispose(f, e) \o after
    BY DEF Send
  <1> HIDE DEF f
  <1> QED  BY <1>1, <1>2, Spread

LEMMA RequestWave ==
    ASSUME CallsTyped, value' = value, NEW a \in Actors,
           NEW v \in Values, NEW w \in Byte, Encoded(v) = w,
           NEW r \in Elements \cup {NoElement}, NEW after \in Seq(Calls),
           Tx[a] # NoAddress, Request(a, v, r, after), ReadLast(after),
           \A c : In(c, after) => OfWave(c, w),
           \A b \in Actors : TypeOf[b] # "Time" =>
               Settled(b) \/ \E c : In(c, after) /\ SetBy(c, b)
    PROVE  Wave(w)'
  <1> DEFINE k == Call("setValueSafe", a, v, r)
             rest == <<k>> \o after
  <1>1. k \in Calls /\ <<k>> \in Seq(Calls) /\ Len(<<k>>) = 1 /\ <<k>>[1] = k
    BY DEF Call, Calls, Elements
  <1>2. k.name = "setValueSafe" /\ k.at = a /\ k.value = v
    BY DEF Call
  <1>3. Send(a, v, rest)
    BY DEF Request
  <1> HIDE DEF k
  <1>4. \A c : In(c, <<k>>) <=> c = k
    BY <1>1 DEF In
  <1>5. rest \in Seq(Calls) /\ \A c : In(c, rest) <=> c = k \/ In(c, after)
    <2>1. \A c : In(c, rest) <=> In(c, <<k>>) \/ In(c, after)
      BY <1>1, InConcat
    <2> QED  BY <1>1, <1>4, <2>1, ConcatProperties
  <1>6. ReadLast(rest)
    <2>1. \A i \in 1..Len(<<k>>) : <<k>>[i].name # "readFrame"
      BY <1>1, <1>2
    <2> QED  BY <1>1, <2>1, ReadLastConcat
  <1> HIDE DEF rest
  <1>7. \A c : In(c, rest) =>
            \/ OfWave(c, w)
            \/ /\ c.name = "setValueSafe" /\ Encoded(c.value) = w
               /\ c.at \in Actors /\ c.at = a
    BY <1>2, <1>5
  <1>8. \A b \in Actors : TypeOf[b] # "Time" /\ (b = a \/ ~Settled(b)) =>
            \E c : In(c, rest) /\ SetBy(c, b)
    BY <1>2, <1>5 DEF SetBy
  <1> QED  BY <1>3, <1>5, <1>6, <1>7, <1>8, SendWave

LEMMA IdleWave ==
    ASSUME Idle
    PROVE  (\A c : ~In(c, todo)) /\ ReadLast(todo)
  BY DEF Idle, In, ReadLast

\* Each call goes on with its wave; only a frame read from the socket begins another.
LEMMA RunWave ==
    ASSUME CallsTyped, LinkTyped, WaveInv, RunCalls
    PROVE  WaveInv'
  <1>1. PICK w \in Byte : Wave(w)
    BY DEF WaveInv
  <1>2. todo # <<>>
    BY DEF RunCalls, ActorReceives, SensorReceives, Requested, Changed, ReadFrame, Calling
  <1>3. In(Head(todo), todo) /\ OfWave(Head(todo), w)
    BY <1>1, <1>2, InHead DEF Wave, CallsTyped
  <1>4. /\ Tail(todo) \in Seq(Calls) /\ Head(todo).value \in Values
        /\ Head(todo).by \in Elements \cup {NoElement}
    BY <1>2, HeadTyped
  <1>5. /\ ReadLast(Tail(todo))
        /\ Head(todo).name = "readFrame" => Tail(todo) = <<>>
        /\ \A c : In(c, todo) <=> c = Head(todo) \/ In(c, Tail(todo))
        /\ \A c : In(c, Tail(todo)) => OfWave(c, w)
        /\ \A b \in Actors : TypeOf[b] # "Time" /\ ~SetBy(Head(todo), b) =>
               Settled(b) \/ \E c : In(c, Tail(todo)) /\ SetBy(c, b)
    BY <1>1, <1>2, InHead, ReadLastTail DEF Wave, CallsTyped
  <1>6. Encoded(w) = w
    BY Bytes
  <1>7. CASE ActorReceives
    <2>1. Head(todo).value = w /\ seen[Head(todo).at] = w /\ Head(todo).at \in Actors
      BY <1>3, <1>7 DEF ActorReceives, Calling, OfWave
    <2>2. /\ value' = [value EXCEPT ![Head(todo).at] = Head(todo).value] /\ seen' = seen
          /\ todo' = Inform(Head(todo).at, NoElement) \o Tail(todo)
      BY <1>7 DEF ActorReceives
    <2>3. Wave(w)'
      BY <1>1, <1>2, <1>6, <2>1, <2>2, TakeOver
    <2> QED  BY <2>3 DEF WaveInv
  <1>8. CASE SensorReceives
    <2> DEFINE a == Subject[Head(todo).at]
    <2>1. /\ Head(todo).name = "receive" /\ Head(todo).at \in Sensors /\ a \in Actors
          /\ Head(todo).value = w
      BY <1>3, <1>8, ElementsAssumption DEF SensorReceives, Calling, OfWave
    <2>2. Request(a, w, Head(todo).at, Tail(todo)) /\ value' = value
      BY <1>8, <2>1 DEF SensorReceives
    <2>3. \A b \in Actors : ~SetBy(Head(todo), b)
      BY <2>1, ElementsAssumption DEF SetBy
    <2> HIDE DEF a
    <2>4. CASE Tx[a] = NoAddress
      <3>1. todo' = Tail(todo) /\ seen' = seen
        BY <2>2, <2>4 DEF Request
      <3>2. Wave(w)'
        BY <1>1, <1>2, <2>2, <2>3, <3>1, Return
      <3> QED  BY <3>2 DEF WaveInv
    <2>5. CASE Tx[a] # NoAddress
      <3>1. Head(todo).at \in Elements \cup {NoElement} /\ w \in Values
        BY <2>1, Bytes DEF Elements
      <3>2. Wave(w)'
        BY <1>4, <1>5, <1>6, <2>1, <2>2, <2>3, <2>5, <3>1, RequestWave
      <3> QED  BY <3>2 DEF WaveInv
    <2> QED  BY <2>4, <2>5
  <1>9. CASE Requested
    <2>1. /\ Encoded(Head(todo).value) = w /\ seen[Head(todo).at] = w
          /\ Head(todo).at \in Actors
      BY <1>3, <1>9 DEF Requested, Calling, OfWave
    <2>2. CASE value[Head(todo).at] = Head(todo).value
      <3>1. value' = value /\ todo' = Tail(todo) /\ seen' = seen
        BY <1>9, <2>2 DEF Requested
      <3>2. \A a \in Actors : SetBy(Head(todo), a) => Settled(a)
        BY <2>1, <2>2 DEF SetBy, Settled
      <3>3. Wave(w)'
        BY <1>1, <1>2, <3>1, <3>2, Return
      <3> QED  BY <3>3 DEF WaveInv
    <2>3. CASE value[Head(todo).at] # Head(todo).value
      <3>1. /\ value' = [value EXCEPT ![Head(todo).at] = Head(todo).value] /\ seen' = seen
            /\ todo' = Inform(Head(todo).at, Head(todo).by) \o Tail(todo)
        BY <1>9, <2>3 DEF Requested
      <3>2. Wave(w)'
        BY <1>1, <1>2, <2>1, <3>1, TakeOver
      <3> QED  BY <3>2 DEF WaveInv
    <2> QED  BY <2>2, <2>3
  <1>10. CASE Changed
    <2> DEFINE v == value[Subject[Head(todo).at]]
    <2>1. /\ Head(todo).name = "changed" /\ Head(todo).at \in Sensors
          /\ Encoded(v) = w /\ v \in Values
      BY <1>3, <1>10, ElementsAssumption DEF Changed, Calling, OfWave, CallsTyped
    <2>2. \A b \in Actors : ~SetBy(Head(todo), b) /\ b # Head(todo).at
      BY <2>1, ElementsAssumption DEF SetBy
    <2>3. CASE Tx[Head(todo).at] = NoAddress
      <3>1. todo' = Tail(todo) /\ seen' = seen /\ value' = value
        BY <1>10, <2>3 DEF Changed
      <3>2. Wave(w)'
        BY <1>1, <1>2, <2>2, <3>1, Return
      <3> QED  BY <3>2 DEF WaveInv
    <2>4. CASE Tx[Head(todo).at] # NoAddress
      <3>1. Send(Head(todo).at, v, Tail(todo)) /\ value' = value
        BY <1>10, <2>4 DEF Changed
      <3> HIDE DEF v
      <3>2. Wave(w)'
        BY <1>4, <1>5, <2>1, <2>2, <3>1, SendWave
      <3> QED  BY <3>2 DEF WaveInv
    <2> QED  BY <2>3, <2>4
  <1>11. CASE ReadFrame
    <2>1. /\ Head(todo).name = "readFrame" /\ value' = value /\ Tail(todo) = <<>>
          /\ \A a \in Actors : ~SetBy(Head(todo), a)
      BY <1>5, <1>11 DEF ReadFrame, Calling, SetBy
    <2>2. CASE todo' = Tail(todo) /\ seen' = seen
      <3>1. Wave(w)'
        BY <1>1, <1>2, <2>1, <2>2, Return
      <3> QED  BY <3>1 DEF WaveInv
    <2>3. CASE unread # <<>> /\ IsData(Head(unread))
      <3>1. Head(unread).value \in Byte
        BY <2>3, HeadTailProperties, FrameBytes DEF LinkTyped
      <3>2. PICK f : f = Head(unread)
        OBVIOUS
      <3>3. PICK u \in Byte : f.value = u
        BY <3>1, <3>2
      <3>4. Seen(f, NoElement) /\ todo' = Dispose(f, NoElement) \o todo
        BY <1>11, <2>3, <3>2 DEF ReadFrame
      <3>5. \A c : ~In(c, Tail(todo))
        BY <2>1 DEF In
      <3>6. \A c : In(c, todo) => OfWave(c, u)
        BY <1>5, <2>1, <3>5 DEF OfWave
      <3>7. ReadLast(todo) /\ todo \in Seq(Calls)
        BY <1>1 DEF Wave, CallsTyped
      <3>8. \A a \in Actors : TypeOf[a] # "Time" => a # NoElement /\ Settled(a)
        BY <1>5, <2>1, <3>5, ElementsAssumption DEF Elements
      <3>9. Wave(u)'
        BY <2>1, <3>3, <3>4, <3>6, <3>7, <3>8, Spread
      <3> QED  BY <3>9 DEF WaveInv
    <2> QED  BY <1>11, <2>2, <2>3 DEF ReadFrame
  <1> QED  BY <1>7, <1>8, <1>9, <1>10, <1>11 DEF RunCalls

LEMMA InitWave == Init => WaveInv
  <1> SUFFICES ASSUME Init
               PROVE  WaveInv
    OBVIOUS
  <1>1. Idle
    BY DEF Init, Idle
  <1>2. \A a \in Actors : Settled(a)
    BY Bytes DEF Init, Settled
  <1>3. Wave(0)
    BY <1>1, <1>2, IdleWave DEF Wave
  <1> QED  BY <1>3, Bytes DEF WaveInv

\* Nothing but a write and what is read begins a wave, and only after the last one.
LEMMA EventWave ==
    ASSUME CallsTyped, WaveInv,
           \/ \E n \in 1..MaxFrames + 1 : ReadyRead(n)
           \/ \E a \in Actors, v \in 0..MaxValue : Write(a, v)
           \/ Connected \/ ConnectionFails \/ ConnectionBreaks \/ ConnectToHost
           \/ \E e \in Elements \ Reporting, v \in Byte : Press(e, v)
           \/ \E a \in Reporting : Report(a)
           \/ \E a \in Reporting, v \in Byte : Switch(a, v)
           \/ StaysAlive \/ Spoils
    PROVE  WaveInv'
  <1>1. PICK w \in Byte : Wave(w)
    BY DEF WaveInv
  <1>2. ASSUME todo' = todo, value' = value, seen' = seen
        PROVE  WaveInv'
    <2>1. Wave(w)'
      BY <1>1, <1>2 DEF Wave, OfWave, Settled
    <2> QED  BY <2>1 DEF WaveInv
  <1>3. Idle => \A a \in Actors : TypeOf[a] # "Time" => Settled(a)
    BY <1>1, IdleWave DEF Wave
  <1>4. ASSUME NEW n, ReadyRead(n)
        PROVE  WaveInv'
    <2> DEFINE k == Call("readFrame", NoElement, 0, NoElement)
    <2>1. todo' = <<k>> /\ value' = value /\ seen' = seen /\ k.name = "readFrame"
      BY <1>4 DEF ReadyRead, Call
    <2> HIDE DEF k
    <2>2. ReadLast(todo') /\ \A c : In(c, todo') => c = k
      BY <2>1 DEF ReadLast, In
    <2>3. \A c : In(c, todo') => OfWave(c, w)'
      BY <2>1, <2>2 DEF OfWave
    <2>4. \A a \in Actors : TypeOf[a] # "Time" => Settled(a)'
      BY <1>3, <1>4, <2>1 DEF Settled, ReadyRead
    <2>5. Wave(w)'
      BY <2>2, <2>3, <2>4 DEF Wave
    <2> QED  BY <2>5 DEF WaveInv
  <1>5. ASSUME NEW a \in Actors, NEW v \in 0..MaxValue, Write(a, v)
        PROVE  WaveInv'
    <2>1. /\ Idle /\ Request(a, v, NoElement, <<>>) /\ value' = value
          /\ v \in Values /\ <<>> \in Seq(Calls)
      BY <1>5 DEF Write, Values
    <2>2. CASE Tx[a] = NoAddress
      BY <1>2, <2>1, <2>2 DEF Request, Idle
    <2>3. CASE Tx[a] # NoAddress
      <3>1. PICK u \in Byte : Encoded(v) = u
        BY <2>1, Bytes
      <3>2. ReadLast(<<>>) /\ \A c : ~In(c, <<>>)
        BY <2>1, IdleWave DEF Idle
      <3>3. Wave(u)'
        BY <1>3, <2>1, <2>3, <3>1, <3>2, RequestWave
      <3> QED  BY <3>3 DEF WaveInv
    <2> QED  BY <2>2, <2>3
  <1>6. CASE Connected \/ ConnectionFails \/ ConnectionBreaks \/ ConnectToHost
    BY <1>2, <1>6 DEF Connected, ConnectionFails, ConnectionBreaks, ConnectToHost, calls
  <1>7. ASSUME \/ \E f : ServerSends(f)
               \/ \E a \in Reporting, v \in Byte : Switch(a, v)
        PROVE  WaveInv'
    BY <1>2, <1>7 DEF ServerSends, Switch
  <1> QED
    BY <1>4, <1>5, <1>6, <1>7 DEF Press, Report, StaysAlive, Spoils

\* The inductive invariant of everything inside the gateway
GateInv == CallsTyped /\ LinkTyped /\ WaveInv

\* Every step keeps the types and the wave: sendFrame, disposeFrame, setValueSafe,
\* setValueInstantly and readFrame in whatever nesting.
THEOREM GateInvariance == Spec => []GateInv
  <1>1. Init => GateInv
    BY InitTyped, InitWave DEF GateInv
  <1>2. GateInv /\ [Next]_vars => GateInv'
    <2> SUFFICES ASSUME GateInv, [Next]_vars
                 PROVE  GateInv'
      OBVIOUS
    <2>1. CASE UNCHANGED vars
      BY <2>1 DEF vars, calls, GateInv, CallsTyped, LinkTyped, WaveInv, Wave, OfWave, Settled
    <2>2. CASE RunCalls
      <3>1. PICK w \in Byte : Wave(w)
        BY DEF GateInv, WaveInv
      <3>2. todo # <<>> => OfWave(Head(todo), w)
        BY <3>1, InHead DEF Wave, GateInv, CallsTyped
      <3>3. /\ Calling("setValueSafe") => Head(todo).at \in Actors
            /\ Calling("changed") => Head(todo).at \in Sensors
        BY <3>2 DEF Calling, OfWave
      <3> QED  BY <2>2, <3>3, RunTyped, RunWave DEF GateInv
    <2>3. ASSUME Next, ~RunCalls
          PROVE  GateInv'
      BY <2>3, EventTyped, ServerTyped, EventWave DEF Next, GateInv
    <2> QED  BY <2>1, <2>2, <2>3
  <1> QED  BY <1>1, <1>2, PTL DEF Spec

\* Values stay in their ranges and bytes in theirs, the calls under way concern
\* elements, and neither a history nor a device gets a value that fits no byte.
THEOREM TypeCorrect == Spec => []TypeOK
  <1>1. GateInv => TypeOK
    BY DEF GateInv, CallsTyped, LinkTyped, TypeOK
  <1> QED  BY <1>1, GateInvariance, PTL

\* When the calls have returned, an actor's property has the value that was last on
\* the address the actor listens to or that was last requested of it, whatever the
\* elements, their shared addresses and the order of the listeners.
THEOREM ValuesOnBus == Spec => []ValueOnBus
  <1>1. GateInv => ValueOnBus
    BY IdleWave DEF GateInv, WaveInv, Wave, Settled, ValueOnBus
  <1> QED  BY <1>1, GateInvariance, PTL
=============================================================================
