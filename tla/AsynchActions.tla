--------------------------- MODULE AsynchActions ---------------------------
(***************************************************************************)
(* How a read or write of an external property waits for its result: the   *)
(* asynchronous ids of DataModel, the PropertySubject whose owner takes an *)
(* id and starts the remote operation, and the InternalObjectsHandler that *)
(* keeps the BACnet request waiting under that id.                         *)
(*                                                                         *)
(* An id given to callers is one more than its index in _asynchIdStates,   *)
(* since 0 means "done at once".  A slow timer clears ids that were never  *)
(* released.  Everything runs in the Qt event loop, so a request, a result *)
(* and a tick are one atomic step each.                                    *)
(***************************************************************************)
EXTENDS Integers

CONSTANTS
    Requests,        \* InternalRP/WPRequestHandler objects, each executed once
    MaxAsynchId,     \* MAX_ASYNCH_ID
    InternalTimeout, \* _internalTimeout_ms
    IntMin, IntMax,  \* the range of int
    NoRequest,       \* no handler under an id
    OwnersForget     \* may the layer below never report a result?

ASSUME IdAssumption == MaxAsynchId \in Nat \ {0}
ASSUME IntAssumption == /\ IntMax \in Nat
                        /\ IntMin = - IntMax - 1
                        /\ InternalTimeout \in Nat \ {0}
                        /\ 2 * InternalTimeout <= IntMax
ASSUME NoRequestAssumption == NoRequest \notin Requests
ASSUME OwnersAssumption == OwnersForget \in BOOLEAN

VARIABLES
    timeLeft,       \* _asynchIdStates[index].timeLeft
    operations,     \* remote operations under way, each with its id
    asynchRequests, \* InternalObjectsHandler::_asynchRequests
    reply,          \* what each request has answered its client
    running         \* FALSE once a null pointer ended the program

vars == <<timeLeft, operations, asynchRequests, reply, running>>

Indices == 0 .. MaxAsynchId - 1
AsynchIds == 1 .. MaxAsynchId
Operations == [id: AsynchIds, req: Requests]

TypeOK ==
    /\ timeLeft \in [Indices -> IntMin .. IntMax]
    /\ operations \subseteq Operations
    /\ asynchRequests \in [0 .. MaxAsynchId -> Requests \cup {NoRequest}]
    /\ reply \in [Requests -> {"none", "waiting", "ok", "error"}]
    /\ running \in BOOLEAN

-----------------------------------------------------------------------------
(* DataModel: asynchronous ids. *)

\* UNUSED_TIME_VALUE, the least int, marks an id that is free.
IsUnused(i) == timeLeft[i] = IntMin
UnusedIndices == {i \in Indices : IsUnused(i)}

\* initiateAsynchIds
Init ==
    /\ timeLeft = [i \in Indices |-> IntMin]
    /\ operations = {}
    /\ asynchRequests = [id \in 0 .. MaxAsynchId |-> NoRequest]
    /\ reply = [r \in Requests |-> "none"]
    /\ running = TRUE

\* A bug: the search does not look whether the index is in use.
GenerateAsynchIdIgnoringUse == 0

\* The lowest unused index.
GenerateAsynchId ==
    CHOOSE i \in UnusedIndices : \A j \in UnusedIndices : i <= j

\* A bug: the id stays taken.
ReleaseAsynchIdNever(id) == UNCHANGED timeLeft

\* A bug: the id is not turned into an index.
ReleaseNextAsynchId(id) ==
    timeLeft' = [i \in Indices |-> IF i = id THEN IntMin ELSE timeLeft[i]]

\* releaseAsynchId: the entry goes back to unused, whatever it was.
ReleaseAsynchId(id) == timeLeft' = [timeLeft EXCEPT ![id - 1] = IntMin]

\* Subtraction of int wraps around (undefined in C++; the build emits a plain
\* machine subtraction).
Minus(a, b) == IF a - b < IntMin THEN a - b + (IntMax - IntMin + 1) ELSE a - b

-----------------------------------------------------------------------------
(* Requests of BACnet clients. *)

\* PropertySubject::getValueSafe and setValueSafe ask the owner, which takes an
\* id and sends the remote request; the handler then waits under the id.
Execute(r) ==
    /\ UnusedIndices # {}
    /\ LET i == GenerateAsynchId IN
          /\ timeLeft' = [timeLeft EXCEPT ![i] = InternalTimeout]
          /\ operations' = operations \cup {[id |-> i + 1, req |-> r]}
          /\ asynchRequests' = [asynchRequests EXCEPT ![i + 1] = r]
    /\ reply' = [reply EXCEPT ![r] = "waiting"]

\* No id is needed, because the owner keeps the value, or none is kept: ids ran
\* out, the property has no strategy or the value does not convert (an id taken
\* before that is released again).  The client is answered at once.
ExecuteAtOnce(r) ==
    /\ \E result \in {"ok", "error"} : reply' = [reply EXCEPT ![r] = result]
    /\ UNCHANGED <<timeLeft, operations, asynchRequests>>

Request(r) ==
    /\ running
    /\ reply[r] = "none"
    /\ Execute(r) \/ ExecuteAtOnce(r)
    /\ UNCHANGED running

-----------------------------------------------------------------------------
(* Results. *)

\* A bug: the handler is looked up and left in the hash.
PropertyIoFinishedKeepingHandler(I, result) ==
    LET told == {asynchRequests[id] : id \in I} IN
    /\ reply' = [r \in Requests |-> IF r \in told THEN result ELSE reply[r]]
    /\ running' = (NoRequest \notin told)
    /\ UNCHANGED asynchRequests

\* A bug: only successes are answered.
PropertyIoFinishedQuietly(I, result) ==
    LET told == {asynchRequests[id] : id \in I} IN
    /\ asynchRequests' = [id \in 0 .. MaxAsynchId |->
                             IF id \in I THEN NoRequest ELSE asynchRequests[id]]
    /\ reply' = [r \in Requests |->
                    IF r \in told /\ result = "ok" THEN result ELSE reply[r]]
    /\ running' = (NoRequest \notin told)

\* InternalObjectsHandler::propertyIoFinished, called with each id in I.  The
\* handler is taken out of the hash, answers its client and is deleted.  An id
\* that is not in the hash yields a null handler, which is called.
PropertyIoFinished(I, result) ==
    LET told == {asynchRequests[id] : id \in I} IN
    /\ asynchRequests' = [id \in 0 .. MaxAsynchId |->
                             IF id \in I THEN NoRequest ELSE asynchRequests[id]]
    /\ reply' = [r \in Requests |-> IF r \in told THEN result ELSE reply[r]]
    /\ running' = (NoRequest \notin told)

\* PropertySubject::asynchActionFinished: the requester recorded for the id is
\* told, then the id is released.  For an id that is not in use there is no
\* requester, and Q_CHECK_PTR ends the program.
OperationFinished(op, result) ==
    /\ running
    /\ op \in operations
    /\ operations' = operations \ {op}
    /\ IF IsUnused(op.id - 1)
       THEN running' = FALSE /\ UNCHANGED <<timeLeft, asynchRequests, reply>>
       ELSE ReleaseAsynchId(op.id) /\ PropertyIoFinished({op.id}, result)

\* The service handler is dropped without a call: its request was refused an
\* invoke id (see Tsm).
OperationForgotten(op) ==
    /\ running
    /\ OwnersForget
    /\ op \in operations
    /\ operations' = operations \ {op}
    /\ UNCHANGED <<timeLeft, asynchRequests, reply, running>>

-----------------------------------------------------------------------------
(* The cleaning timer. *)

\* Used ids seen by an earlier tick.  The callback gets the index, not the id.
Stale == {i \in Indices : ~ IsUnused(i) /\ timeLeft[i] < 0}

\* A used id is marked at the first tick after it was taken and cleared at the
\* second; the time is subtracted from the ids that are not in use.
TimeLeftAfterTick(i) ==
    IF IsUnused(i) THEN Minus(timeLeft[i], InternalTimeout)
    ELSE IF i \in Stale THEN IntMin
    ELSE IF timeLeft[i] <= InternalTimeout THEN -1
    ELSE timeLeft[i]

\* Ticks are 200 s apart.  An operation under way ends within seconds (the TSM
\* gives up after its last try), so none is there at its second tick.
TimerEvent ==
    /\ running
    /\ \A op \in operations : op.id - 1 \notin Stale
    /\ timeLeft' = [i \in Indices |-> TimeLeftAfterTick(i)]
    /\ PropertyIoFinished(Stale, "error")
    /\ UNCHANGED operations

-----------------------------------------------------------------------------
Next ==
    \/ \E r \in Requests : Request(r)
    \/ \E op \in operations : \/ OperationFinished(op, "ok")
                              \/ OperationFinished(op, "error")
                              \/ OperationForgotten(op)
    \/ TimerEvent

Spec == Init /\ [][Next]_vars

\* Every operation under way ends: the TSM's retry timer sees to it (WaitingEnds
\* of Tsm).
FairSpec ==
    Spec /\ \A op \in Operations :
                WF_vars(OperationFinished(op, "ok") \/ OperationFinished(op, "error"))

-----------------------------------------------------------------------------
(* What holds whatever the layer below does. *)

\* A handler in the hash has not answered yet and is there under one id only:
\* the handler that answers is deleted, so it is never used after its deletion
\* nor deleted twice, not even when the timer calls with a neighbour's id.
HandlersLive ==
    \A a \in 0 .. MaxAsynchId :
        asynchRequests[a] # NoRequest =>
            /\ reply[asynchRequests[a]] = "waiting"
            /\ \A b \in 0 .. MaxAsynchId :
                   asynchRequests[b] = asynchRequests[a] => b = a

-----------------------------------------------------------------------------
(* What holds while the layer below reports every result. *)

\* Each operation under way has its id to itself, and its own request is the one
\* that waits under that id, so a result never reaches another client.
RightWaiter ==
    \A op \in operations :
        /\ asynchRequests[op.id] = op.req
        /\ ~ IsUnused(op.id - 1)
        /\ \A other \in operations : other.id = op.id => other = op

\* Each waiting client has an operation under way, and one only.
WaitersServed ==
    \A r \in Requests :
        reply[r] = "waiting" => \E op \in operations : op.req = r

\* No result and no tick finds an id without a handler.
NeverCrashes == running

\* A client is answered once, by its own operation's end or by a refusal.
AnsweredOnce ==
    \A r \in Requests :
        reply'[r] # reply[r] =>
            \/ reply[r] = "none"
            \/ /\ reply[r] = "waiting"
               /\ \E op \in operations \ operations' : op.req = r

AnswersFinal == [][AnsweredOnce]_vars

\* Every client is answered.
ClientsAnswered ==
    \A r \in Requests : (reply[r] = "waiting") ~> (reply[r] \in {"ok", "error"})

=============================================================================
