---------------------------- MODULE AsynchProofs ----------------------------
(***************************************************************************)
(* Proofs about AsynchActions, for every number of ids, requests and every *)
(* width of int.  HInv is inductive whatever the layer below does; OInv    *)
(* needs that layer to report every result (~ OwnersForget).               *)
(***************************************************************************)
EXTENDS AsynchActions, WellFoundedInduction, TLAPS

\* What holds whatever the layer below does.
HInv == TypeOK /\ HandlersLive

\* Each operation belongs to a waiting client, and no client has two.
OperationsWaiting ==
    \A op \in operations :
        /\ reply[op.req] = "waiting"
        /\ \A other \in operations : other.req = op.req => other = op

\* Only an operation under way keeps a handler in the hash.
HandlersServed ==
    \A id \in 0 .. MaxAsynchId :
        asynchRequests[id] # NoRequest => \E op \in operations : op.id = id

\* An id whose time the timer may act on belongs to an operation under way; the
\* ids that leaked have wrapped to a time far above the timeout.
LowTimesOwned ==
    \A i \in Indices :
        ~ IsUnused(i) /\ timeLeft[i] <= InternalTimeout
            => \E op \in operations : op.id = i + 1

\* What holds when every result is reported.
OInv ==
    /\ TypeOK
    /\ RightWaiter
    /\ WaitersServed
    /\ NeverCrashes
    /\ OperationsWaiting
    /\ HandlersServed
    /\ LowTimesOwned

USE IdAssumption, IntAssumption, NoRequestAssumption, OwnersAssumption

-----------------------------------------------------------------------------
\* A non-empty set of naturals has a least element.
LEMMA LeastNat ==
    ASSUME NEW S, S \subseteq Nat, S # {}
    PROVE  \E i \in S : \A j \in S : i <= j
<1> DEFINE Less == OpToRel(<, Nat)
<1>1. IsWellFoundedOn(Less, Nat)
  BY NatLessThanWellFounded
<1>2. \A i, j \in Nat : <<i, j>> \in Less <=> i < j
  BY DEF OpToRel
<1> HIDE DEF Less
<1>3. PICK i \in S : \A j \in S : ~ (<<j, i>> \in Less)
  BY <1>1, WFMin
<1>4. ASSUME NEW j \in S PROVE i <= j
  <2>1. i \in Nat /\ j \in Nat /\ ~ (<<j, i>> \in Less)
    BY <1>3
  <2>2. ~ (j < i)
    BY <2>1, <1>2
  <2> QED
    BY <2>1, <2>2
<1> QED
  BY <1>4

\* generateAsynchId finds an index whenever one is unused, and only such a one.
LEMMA GenerateAsynchIdUnused ==
    ASSUME UnusedIndices # {}
    PROVE  /\ GenerateAsynchId \in Indices
           /\ timeLeft[GenerateAsynchId] = IntMin
<1>1. UnusedIndices \subseteq Nat
  BY DEF UnusedIndices, Indices
<1>2. \E i \in UnusedIndices : \A j \in UnusedIndices : i <= j
  BY <1>1, LeastNat
<1>3. GenerateAsynchId \in UnusedIndices
  BY <1>2 DEF GenerateAsynchId
<1> QED
  BY <1>3 DEF UnusedIndices, IsUnused

\* The clock of an id stays an int whatever a tick does to it.
LEMMA TickIsInt ==
    ASSUME TypeOK, NEW i \in Indices
    PROVE  TimeLeftAfterTick(i) \in IntMin .. IntMax
<1>1. timeLeft[i] \in IntMin .. IntMax /\ IntMin \in Int /\ IntMax \in Int
  BY DEF TypeOK
<1>2. IsUnused(i) => Minus(timeLeft[i], InternalTimeout) \in IntMin .. IntMax
  BY <1>1 DEF IsUnused, Minus
<1>3. IntMin \in IntMin .. IntMax /\ -1 \in IntMin .. IntMax
  OBVIOUS
<1> QED BY <1>1, <1>2, <1>3 DEF TimeLeftAfterTick

\* A tick leaves the unused ids far above the timeout, so no later tick acts
\* on them, and what is left of a used id after it was used before.
LEMMA TickLow ==
    ASSUME TypeOK, NEW i \in Indices,
           TimeLeftAfterTick(i) # IntMin,
           TimeLeftAfterTick(i) <= InternalTimeout
    PROVE  ~ IsUnused(i) /\ timeLeft[i] <= InternalTimeout
<1>1. timeLeft[i] \in IntMin .. IntMax /\ IntMin \in Int /\ IntMax \in Int
  BY DEF TypeOK
<1>2. ~ IsUnused(i)
  <2>1. SUFFICES ASSUME IsUnused(i) PROVE FALSE
    OBVIOUS
  <2>2. TimeLeftAfterTick(i) = IntMax + 1 - InternalTimeout
    BY <1>1, <2>1 DEF TimeLeftAfterTick, IsUnused, Minus
  <2> QED BY <1>1, <2>2
<1>3. timeLeft[i] <= InternalTimeout
  BY <1>1, <1>2 DEF TimeLeftAfterTick
<1> QED BY <1>2, <1>3

\* An id in use whose clock is low keeps its place: one tick marks it and does
\* not clear it, unless it was marked before.
LEMMA TickKeepsUsed ==
    ASSUME TypeOK, NEW i \in Indices, ~ IsUnused(i), i \notin Stale
    PROVE  TimeLeftAfterTick(i) # IntMin
<1>1. timeLeft[i] \in IntMin .. IntMax /\ timeLeft[i] # IntMin /\ IntMin < -1
  BY DEF TypeOK, IsUnused
<1> QED BY <1>1 DEF TimeLeftAfterTick


-----------------------------------------------------------------------------
(* Each step, whatever the layer below does. *)

\* No id is used at first, and no handler waits.
LEMMA InitHInv == Init => HInv
<1> SUFFICES ASSUME Init PROVE HInv
  OBVIOUS
<1>1. TypeOK
  BY DEF Init, TypeOK
<1>2. HandlersLive
  BY DEF Init, HandlersLive
<1> QED
  BY <1>1, <1>2 DEF HInv

\* What a request does when an id is free.
LEMMA ExecuteSteps ==
    ASSUME TypeOK, NEW r \in Requests, Execute(r)
    PROVE  \E i \in Indices :
              /\ timeLeft[i] = IntMin
              /\ timeLeft' = [timeLeft EXCEPT ![i] = InternalTimeout]
              /\ operations' = operations \cup {[id |-> i + 1, req |-> r]}
              /\ asynchRequests' = [asynchRequests EXCEPT ![i + 1] = r]
              /\ reply' = [reply EXCEPT ![r] = "waiting"]
  BY GenerateAsynchIdUnused DEF Execute

\* A request takes a slot of its own or is refused.
LEMMA RequestHInv ==
    ASSUME HInv, NEW r \in Requests, Request(r)
    PROVE  HInv'
<1> USE DEF HInv
<1>1. reply[r] = "none" /\ running' = running
  BY DEF Request
<1>2. \A id \in 0 .. MaxAsynchId : asynchRequests[id] # r
  BY <1>1 DEF HandlersLive
<1>3. CASE Execute(r)
  <2>1. PICK i \in Indices :
           /\ timeLeft' = [timeLeft EXCEPT ![i] = InternalTimeout]
           /\ operations' = operations \cup {[id |-> i + 1, req |-> r]}
           /\ asynchRequests' = [asynchRequests EXCEPT ![i + 1] = r]
           /\ reply' = [reply EXCEPT ![r] = "waiting"]
    BY <1>3, ExecuteSteps
  <2>2. i + 1 \in AsynchIds /\ i + 1 \in 0 .. MaxAsynchId
    BY DEF Indices, AsynchIds
  <2>3. InternalTimeout \in IntMin .. IntMax
    OBVIOUS
  <2>4. TypeOK'
    BY <1>1, <2>1, <2>2, <2>3 DEF TypeOK, Operations
  <2>5. HandlersLive'
    BY <1>2, <2>1, <2>2 DEF HandlersLive, TypeOK
  <2> QED
    BY <2>4, <2>5
<1>4. CASE ExecuteAtOnce(r)
  <2>1. TypeOK'
    BY <1>1, <1>4 DEF ExecuteAtOnce, TypeOK
  <2>2. HandlersLive'
    BY <1>2, <1>4 DEF ExecuteAtOnce, HandlersLive, TypeOK
  <2> QED
    BY <2>1, <2>2
<1> QED
  BY <1>3, <1>4 DEF Request

\* Answering takes the handlers out of the hash, so none answers again.
LEMMA IoFinishedHandlersLive ==
    ASSUME HInv, NEW I \in SUBSET (0 .. MaxAsynchId),
           NEW result \in {"ok", "error"}, PropertyIoFinished(I, result)
    PROVE  /\ HandlersLive'
           /\ asynchRequests' \in [0 .. MaxAsynchId -> Requests \cup {NoRequest}]
           /\ reply' \in [Requests -> {"none", "waiting", "ok", "error"}]
           /\ running' \in BOOLEAN
<1> DEFINE told == {asynchRequests[id] : id \in I}
<1>1. /\ asynchRequests' = [id \in 0 .. MaxAsynchId |->
                              IF id \in I THEN NoRequest ELSE asynchRequests[id]]
      /\ reply' = [r \in Requests |-> IF r \in told THEN result ELSE reply[r]]
      /\ running' = (NoRequest \notin told)
  BY DEF PropertyIoFinished
<1>2. \A a \in 0 .. MaxAsynchId :
         a \notin I /\ asynchRequests[a] # NoRequest
             => asynchRequests[a] \in Requests /\ asynchRequests[a] \notin told
  BY DEF HInv, TypeOK, HandlersLive
<1>3. asynchRequests' \in [0 .. MaxAsynchId -> Requests \cup {NoRequest}]
  BY <1>1 DEF HInv, TypeOK
<1>4. reply' \in [Requests -> {"none", "waiting", "ok", "error"}]
  BY <1>1 DEF HInv, TypeOK
<1>5. running' \in BOOLEAN
  BY <1>1
<1> HIDE DEF told
<1>6. HandlersLive'
  BY <1>1, <1>2 DEF HInv, TypeOK, HandlersLive
<1> QED
  BY <1>3, <1>4, <1>5, <1>6

\* The end of an operation frees its id and answers whoever waits under it.
LEMMA FinishedHInv ==
    ASSUME HInv, NEW op \in operations, NEW result \in {"ok", "error"},
           OperationFinished(op, result)
    PROVE  HInv'
<1>1. op.id \in 0 .. MaxAsynchId /\ op.id - 1 \in Indices
  BY DEF HInv, TypeOK, Operations, AsynchIds, Indices
<1>2. timeLeft' \in [Indices -> IntMin .. IntMax] /\ operations' \subseteq Operations
  BY <1>1 DEF OperationFinished, ReleaseAsynchId, HInv, TypeOK
<1>3. CASE IsUnused(op.id - 1)
  <2>1. running' = FALSE /\ UNCHANGED <<asynchRequests, reply>>
    BY <1>3 DEF OperationFinished
  <2> QED
    BY <1>2, <2>1 DEF HInv, TypeOK, HandlersLive
<1>4. CASE ~ IsUnused(op.id - 1)
  <2>1. PropertyIoFinished({op.id}, result)
    BY <1>4 DEF OperationFinished
  <2>2. {op.id} \in SUBSET (0 .. MaxAsynchId)
    BY <1>1
  <2> QED
    BY <1>2, <2>1, <2>2, IoFinishedHandlersLive DEF HInv, TypeOK
<1> QED
  BY <1>3, <1>4

\* A tick answers under the index of each stale id, whoever waits there.
LEMMA TimerHInv ==
    ASSUME HInv, TimerEvent
    PROVE  HInv'
<1>1. timeLeft' \in [Indices -> IntMin .. IntMax] /\ operations' \subseteq Operations
  BY TickIsInt DEF TimerEvent, HInv, TypeOK
<1>2. Stale \in SUBSET (0 .. MaxAsynchId)
  BY DEF Stale, Indices
<1>3. PropertyIoFinished(Stale, "error")
  BY DEF TimerEvent
<1> QED
  BY <1>1, <1>2, <1>3, IoFinishedHandlersLive DEF HInv, TypeOK

\* Every step keeps the invariant.
LEMMA NextHInv == HInv /\ [Next]_vars => HInv'
<1> SUFFICES ASSUME HInv, [Next]_vars PROVE HInv'
  OBVIOUS
<1>1. ASSUME NEW r \in Requests, Request(r) PROVE HInv'
  BY <1>1, RequestHInv
<1>2. ASSUME NEW op \in operations,
             OperationFinished(op, "ok") \/ OperationFinished(op, "error")
      PROVE  HInv'
  BY <1>2, FinishedHInv
<1>3. ASSUME NEW op \in operations, OperationForgotten(op) PROVE HInv'
  BY <1>3 DEF OperationForgotten, HInv, TypeOK, HandlersLive
<1>4. CASE TimerEvent
  BY <1>4, TimerHInv
<1>5. CASE UNCHANGED vars
  BY <1>5 DEF vars, HInv, TypeOK, HandlersLive
<1> QED
  BY <1>1, <1>2, <1>3, <1>4, <1>5 DEF Next

\* The types and the single place of each waiting handler hold in every
\* behaviour, also when the layer below forgets operations.
THEOREM HandlersInvariance == Spec => []HInv
  BY InitHInv, NextHInv, PTL DEF Spec

\* Clocks stay within int, and ids, handlers and replies within their ranges.
THEOREM AsynchTypeCorrect == Spec => []TypeOK
<1>1. HInv => TypeOK
  BY DEF HInv
<1> QED
  BY <1>1, HandlersInvariance, PTL

\* A request handler is answered and deleted at most once: it waits under one
\* id, and leaves the hash when it answers.
THEOREM HandlersAlwaysLive == Spec => []HandlersLive
<1>1. HInv => HandlersLive
  BY DEF HInv
<1> QED
  BY <1>1, HandlersInvariance, PTL

-----------------------------------------------------------------------------
(* Each step, when the layer below reports every result. *)

\* At first nothing is under way and nobody waits.
LEMMA InitOInv == Init => OInv
<1> SUFFICES ASSUME Init PROVE OInv
  OBVIOUS
<1>1. TypeOK
  BY InitHInv DEF HInv
<1>2. RightWaiter /\ WaitersServed /\ NeverCrashes /\ OperationsWaiting /\ HandlersServed
  BY DEF Init, RightWaiter, WaitersServed, NeverCrashes, OperationsWaiting, HandlersServed
<1>3. LowTimesOwned
  BY DEF Init, LowTimesOwned, IsUnused
<1> QED
  BY <1>1, <1>2, <1>3 DEF OInv

\* What an operation of OInv is.
LEMMA OperationFields ==
    ASSUME TypeOK, NEW op \in operations
    PROVE  /\ op.id \in AsynchIds
           /\ op.id \in 0 .. MaxAsynchId
           /\ op.id - 1 \in Indices
           /\ op.req \in Requests
           /\ op = [id |-> op.id, req |-> op.req]
           /\ \A i \in Indices : op.id = i + 1 <=> i = op.id - 1
<1>1. op \in [id : AsynchIds, req : Requests]
  BY DEF TypeOK, Operations
<1>2. op.id \in AsynchIds /\ op.req \in Requests /\ op = [id |-> op.id, req |-> op.req]
  BY <1>1
<1> QED
  BY <1>2, IdAssumption DEF AsynchIds, Indices

\* A new operation has an id that no operation has, and the slot under it.
LEMMA RequestOInv ==
    ASSUME OInv, NEW r \in Requests, Request(r), TypeOK'
    PROVE  OInv'
<1> USE DEF OInv
<1>1. reply[r] = "none" /\ running' = running
  BY DEF Request
<1>2. \A op \in operations : op.req # r
  BY <1>1 DEF OperationsWaiting
<1>3. CASE Execute(r)
  <2>1. PICK i \in Indices :
           /\ timeLeft[i] = IntMin
           /\ timeLeft' = [timeLeft EXCEPT ![i] = InternalTimeout]
           /\ operations' = operations \cup {[id |-> i + 1, req |-> r]}
           /\ asynchRequests' = [asynchRequests EXCEPT ![i + 1] = r]
           /\ reply' = [reply EXCEPT ![r] = "waiting"]
    BY <1>3, ExecuteSteps
  <2> DEFINE new == [id |-> i + 1, req |-> r]
  <2>2. i + 1 \in AsynchIds /\ i + 1 \in 0 .. MaxAsynchId
    BY DEF Indices, AsynchIds
  <2>3. \A op \in operations : op.id # i + 1
    BY <2>1, OperationFields DEF RightWaiter, IsUnused
  <2>4. /\ new \in operations' /\ new.id = i + 1 /\ new.req = r
        /\ \A op \in operations' : op = new \/ op \in operations
    BY <2>1
  <2> HIDE DEF new
  <2>5. RightWaiter'
    <3>1. ASSUME NEW op \in operations'
          PROVE  asynchRequests'[op.id] = op.req /\ timeLeft'[op.id - 1] # IntMin
      <4>1. CASE op = new
        <5>1. op.id - 1 = i /\ InternalTimeout # IntMin
          BY <4>1, <2>4 DEF Indices
        <5> QED
          BY <4>1, <5>1, <2>1, <2>2, <2>4 DEF TypeOK
      <4>2. CASE op \in operations
        <5>1. op.id - 1 # i
          BY <4>2, <2>3, OperationFields
        <5> QED
          BY <4>2, <5>1, <2>1, <2>3, OperationFields DEF RightWaiter, TypeOK, IsUnused
      <4> QED
        BY <4>1, <4>2, <2>4
    <3>2. ASSUME NEW op \in operations', NEW other \in operations', other.id = op.id
          PROVE  other = op
      BY <3>2, <2>3, <2>4 DEF RightWaiter
    <3> QED
      BY <3>1, <3>2 DEF RightWaiter, IsUnused
  <2>6. WaitersServed'
    <3>1. ASSUME NEW q \in Requests, reply'[q] = "waiting"
          PROVE  \E op \in operations' : op.req = q
      <4>1. CASE q = r
        BY <4>1, <2>4
      <4>2. CASE q # r
        BY <4>2, <3>1, <2>1 DEF WaitersServed, TypeOK
      <4> QED
        BY <4>1, <4>2
    <3> QED
      BY <3>1 DEF WaitersServed
  <2>7. OperationsWaiting'
    <3>1. ASSUME NEW op \in operations' PROVE reply'[op.req] = "waiting"
      BY <2>1, <2>4, OperationFields DEF OperationsWaiting, TypeOK
    <3>2. ASSUME NEW op \in operations', NEW other \in operations', other.req = op.req
          PROVE  other = op
      BY <3>2, <1>2, <2>4 DEF OperationsWaiting
    <3> QED
      BY <3>1, <3>2 DEF OperationsWaiting
  <2>8. HandlersServed'
    <3>1. ASSUME NEW id \in 0 .. MaxAsynchId, asynchRequests'[id] # NoRequest
          PROVE  \E op \in operations' : op.id = id
      <4>1. CASE id = i + 1
        BY <4>1, <2>4
      <4>2. CASE id # i + 1
        BY <4>2, <3>1, <2>1 DEF HandlersServed, TypeOK
      <4> QED
        BY <4>1, <4>2
    <3> QED
      BY <3>1 DEF HandlersServed
  <2>9. LowTimesOwned'
    <3>1. ASSUME NEW j \in Indices, timeLeft'[j] # IntMin, timeLeft'[j] <= InternalTimeout
          PROVE  \E op \in operations' : op.id = j + 1
      <4>1. CASE j = i
        BY <4>1, <2>4
      <4>2. CASE j # i
        BY <4>2, <3>1, <2>1 DEF LowTimesOwned, IsUnused, TypeOK
      <4> QED
        BY <4>1, <4>2
    <3> QED
      BY <3>1 DEF LowTimesOwned, IsUnused
  <2> QED
    BY <1>1, <2>5, <2>6, <2>7, <2>8, <2>9 DEF NeverCrashes
<1>4. CASE ExecuteAtOnce(r)
  <2>1. PICK result \in {"ok", "error"} :
           /\ reply' = [reply EXCEPT ![r] = result]
           /\ UNCHANGED <<timeLeft, operations, asynchRequests, running>>
    BY <1>1, <1>4 DEF ExecuteAtOnce
  <2>2. RightWaiter' /\ HandlersServed' /\ LowTimesOwned' /\ NeverCrashes'
    BY <2>1 DEF RightWaiter, HandlersServed, LowTimesOwned, NeverCrashes, IsUnused
  <2>3. WaitersServed'
    BY <2>1 DEF WaitersServed, TypeOK
  <2>4. OperationsWaiting'
    BY <1>2, <2>1, OperationFields DEF OperationsWaiting, TypeOK
  <2> QED
    BY <2>2, <2>3, <2>4
<1> QED
  BY <1>3, <1>4 DEF Request

\* The result goes to the operation's own client, whose handler is there.
LEMMA FinishedSteps ==
    ASSUME OInv, NEW op \in operations, NEW result, OperationFinished(op, result)
    PROVE  /\ operations' = operations \ {op}
           /\ timeLeft' = [timeLeft EXCEPT ![op.id - 1] = IntMin]
           /\ asynchRequests' = [id \in 0 .. MaxAsynchId |->
                  IF id = op.id THEN NoRequest ELSE asynchRequests[id]]
           /\ reply' = [r \in Requests |-> IF r = op.req THEN result ELSE reply[r]]
           /\ running'
<1>1. asynchRequests[op.id] = op.req /\ ~ IsUnused(op.id - 1) /\ op.req # NoRequest
  BY OperationFields DEF OInv, RightWaiter
<1>2. PropertyIoFinished({op.id}, result)
  BY <1>1 DEF OperationFinished
<1>3. {asynchRequests[id] : id \in {op.id}} = {op.req}
  BY <1>1
<1> QED
  BY <1>1, <1>2, <1>3 DEF OperationFinished, ReleaseAsynchId, PropertyIoFinished

\* The other operations keep their ids, handlers and clients.
LEMMA FinishedOInv ==
    ASSUME OInv, NEW op \in operations, NEW result \in {"ok", "error"},
           OperationFinished(op, result), TypeOK'
    PROVE  OInv'
<1> USE DEF OInv
<1>1. /\ operations' = operations \ {op}
      /\ timeLeft' = [timeLeft EXCEPT ![op.id - 1] = IntMin]
      /\ asynchRequests' = [id \in 0 .. MaxAsynchId |->
             IF id = op.id THEN NoRequest ELSE asynchRequests[id]]
      /\ reply' = [r \in Requests |-> IF r = op.req THEN result ELSE reply[r]]
      /\ running'
  BY FinishedSteps
<1>2. \A other \in operations' :
         other \in operations /\ other.id # op.id /\ other.req # op.req
  BY <1>1 DEF RightWaiter, OperationsWaiting
<1>3. RightWaiter'
  <2>1. ASSUME NEW other \in operations'
        PROVE  asynchRequests'[other.id] = other.req /\ timeLeft'[other.id - 1] # IntMin
    <3>1. other \in operations /\ other.id # op.id
      BY <1>2
    <3>2. other.id - 1 # op.id - 1
      BY <3>1, OperationFields DEF AsynchIds
    <3> QED
      BY <3>1, <3>2, <1>1, OperationFields DEF RightWaiter, TypeOK, IsUnused
  <2> QED
    BY <2>1, <1>2 DEF RightWaiter, IsUnused
<1>4. WaitersServed'
  BY <1>1, <1>2 DEF WaitersServed, TypeOK
<1>5. OperationsWaiting'
  BY <1>1, <1>2, OperationFields DEF OperationsWaiting
<1>6. HandlersServed'
  BY <1>1 DEF HandlersServed
<1>7. LowTimesOwned'
  <2>1. ASSUME NEW j \in Indices, timeLeft'[j] # IntMin, timeLeft'[j] <= InternalTimeout
        PROVE  \E other \in operations' : other.id = j + 1
    <3>1. j # op.id - 1
      BY <2>1, <1>1, OperationFields DEF TypeOK
    <3>2. timeLeft'[j] = timeLeft[j]
      BY <3>1, <1>1 DEF TypeOK
    <3>3. PICK other \in operations : other.id = j + 1
      BY <2>1, <3>2 DEF LowTimesOwned, IsUnused
    <3>4. other # op
      BY <3>1, <3>3, OperationFields
    <3> QED
      BY <3>3, <3>4, <1>1
  <2> QED
    BY <2>1 DEF LowTimesOwned, IsUnused
<1> QED
  BY <1>1, <1>3, <1>4, <1>5, <1>6, <1>7 DEF NeverCrashes

\* No id is stale at a tick: a low clock belongs to an operation, and operations
\* end before their second tick.
LEMMA NothingStale ==
    ASSUME OInv, TimerEvent
    PROVE  Stale = {}
<1>1. SUFFICES ASSUME NEW i \in Stale PROVE FALSE
  OBVIOUS
<1>2. /\ i \in Indices /\ ~ IsUnused(i)
      /\ timeLeft[i] < 0 /\ timeLeft[i] \in IntMin .. IntMax
  BY DEF Stale, OInv, TypeOK
<1>3. timeLeft[i] <= InternalTimeout
  BY <1>2
<1>4. PICK op \in operations : op.id = i + 1
  BY <1>2, <1>3 DEF OInv, LowTimesOwned
<1>5. op.id - 1 = i
  BY <1>2, <1>4 DEF Indices
<1> QED
  BY <1>4, <1>5 DEF TimerEvent

\* So the timer calls nobody, and marks or leaks ids without disturbing any
\* operation.
LEMMA TimerOInv ==
    ASSUME OInv, TimerEvent, TypeOK'
    PROVE  OInv'
<1> USE DEF OInv
<1>1. Stale = {}
  BY NothingStale
<1>2. /\ timeLeft' = [i \in Indices |-> TimeLeftAfterTick(i)]
      /\ operations' = operations
      /\ PropertyIoFinished(Stale, "error")
  BY DEF TimerEvent
<1>3. {asynchRequests[id] : id \in Stale} = {}
  BY <1>1
<1>4. running' /\ asynchRequests' = asynchRequests /\ reply' = reply
  BY <1>1, <1>2, <1>3 DEF PropertyIoFinished, TypeOK
<1>5. RightWaiter'
  <2>1. ASSUME NEW op \in operations PROVE timeLeft'[op.id - 1] # IntMin
    BY <1>1, <1>2, OperationFields, TickKeepsUsed DEF RightWaiter
  <2> QED
    BY <1>2, <1>4, <2>1 DEF RightWaiter, IsUnused
<1>6. WaitersServed' /\ OperationsWaiting' /\ HandlersServed'
  BY <1>2, <1>4 DEF WaitersServed, OperationsWaiting, HandlersServed
<1>7. LowTimesOwned'
  <2>1. ASSUME NEW i \in Indices, timeLeft'[i] # IntMin, timeLeft'[i] <= InternalTimeout
        PROVE  \E op \in operations : op.id = i + 1
    <3>1. ~ IsUnused(i) /\ timeLeft[i] <= InternalTimeout
      BY <2>1, <1>2, TickLow
    <3> QED
      BY <3>1 DEF LowTimesOwned
  <2> QED
    BY <1>2, <2>1 DEF LowTimesOwned, IsUnused
<1> QED
  BY <1>4, <1>5, <1>6, <1>7 DEF NeverCrashes

\* Every step keeps the invariant when no operation is forgotten.
LEMMA NextOInv ==
    ASSUME ~ OwnersForget
    PROVE  OInv /\ HInv /\ [Next]_vars => OInv'
<1> SUFFICES ASSUME OInv, HInv, [Next]_vars PROVE OInv'
  OBVIOUS
<1>1. TypeOK'
  BY NextHInv DEF HInv
<1>2. ASSUME NEW r \in Requests, Request(r) PROVE OInv'
  BY <1>1, <1>2, RequestOInv
<1>3. ASSUME NEW op \in operations,
             OperationFinished(op, "ok") \/ OperationFinished(op, "error")
      PROVE  OInv'
  BY <1>1, <1>3, FinishedOInv
<1>4. ASSUME NEW op \in operations, OperationForgotten(op) PROVE OInv'
  BY <1>4 DEF OperationForgotten
<1>5. CASE TimerEvent
  BY <1>1, <1>5, TimerOInv
<1>6. CASE UNCHANGED vars
  BY <1>1, <1>6 DEF vars, OInv, RightWaiter, WaitersServed, NeverCrashes,
                    OperationsWaiting, HandlersServed, LowTimesOwned, IsUnused
<1> QED
  BY <1>2, <1>3, <1>4, <1>5, <1>6 DEF Next

\* The whole invariant holds while no operation is forgotten.
THEOREM ServedInvariance ==
    ASSUME ~ OwnersForget
    PROVE  Spec => []OInv
<1>1. OInv /\ HInv /\ [Next]_vars => OInv'
  BY NextOInv
<1> QED
  BY <1>1, InitOInv, HandlersInvariance, PTL DEF Spec

\* While no operation is forgotten, each has its id to itself and its client's
\* handler waits under it: a result reaches the client that asked.
THEOREM ResultsReachTheirClient ==
    ASSUME ~ OwnersForget
    PROVE  Spec => []RightWaiter
<1>1. OInv => RightWaiter
  BY DEF OInv
<1> QED
  BY <1>1, ServedInvariance, PTL

\* While no operation is forgotten, a waiting client has an operation under way.
THEOREM WaitersAlwaysServed ==
    ASSUME ~ OwnersForget
    PROVE  Spec => []WaitersServed
<1>1. OInv => WaitersServed
  BY DEF OInv
<1> QED
  BY <1>1, ServedInvariance, PTL

\* While no operation is forgotten, no call goes through a null handler: the
\* ids the timer leaks are never acted on again.
THEOREM CrashFree ==
    ASSUME ~ OwnersForget
    PROVE  Spec => []NeverCrashes
<1>1. OInv => NeverCrashes
  BY DEF OInv
<1> QED
  BY <1>1, ServedInvariance, PTL

\* A step answers a client only by refusing it or by ending its operation.
LEMMA AnsweredOnceStep ==
    ASSUME ~ OwnersForget
    PROVE  OInv /\ [Next]_vars => [AnsweredOnce]_vars
<1> SUFFICES ASSUME OInv, Next PROVE AnsweredOnce
  BY DEF vars, AnsweredOnce
<1>1. ASSUME NEW r \in Requests, Request(r) PROVE AnsweredOnce
  <2>1. reply[r] = "none" /\ \A q \in Requests : q # r => reply'[q] = reply[q]
    BY <1>1 DEF Request, Execute, ExecuteAtOnce, OInv, TypeOK
  <2> QED
    BY <2>1 DEF AnsweredOnce
<1>2. ASSUME NEW op \in operations, NEW result \in {"ok", "error"},
             OperationFinished(op, result)
      PROVE  AnsweredOnce
  <2>1. /\ op \in operations \ operations'
        /\ reply[op.req] = "waiting"
        /\ \A q \in Requests : q # op.req => reply'[q] = reply[q]
    BY <1>2, FinishedSteps DEF OInv, OperationsWaiting
  <2> QED
    BY <2>1 DEF AnsweredOnce
<1>3. ASSUME NEW op \in operations, OperationForgotten(op) PROVE AnsweredOnce
  BY <1>3 DEF OperationForgotten
<1>4. ASSUME TimerEvent PROVE AnsweredOnce
  <2>1. Stale = {}
    BY <1>4, NothingStale
  <2>2. {asynchRequests[id] : id \in Stale} = {}
    BY <2>1
  <2>3. \A q \in Requests : reply'[q] = reply[q]
    BY <1>4, <2>1, <2>2 DEF TimerEvent, PropertyIoFinished
  <2> QED
    BY <2>3 DEF AnsweredOnce
<1> QED
  BY <1>1, <1>2, <1>3, <1>4 DEF Next

\* While no operation is forgotten, a client hears once, from the operation it
\* started.
THEOREM AnswersAlwaysFinal ==
    ASSUME ~ OwnersForget
    PROVE  Spec => AnswersFinal
<1>1. OInv /\ [Next]_vars => [AnsweredOnce]_vars
  BY AnsweredOnceStep
<1> QED
  BY <1>1, ServedInvariance, PTL DEF Spec, AnswersFinal

=============================================================================
