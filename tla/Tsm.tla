-------------------------------- MODULE Tsm --------------------------------
(***************************************************************************)
(* The client half of the BACnet transaction state machine: BacnetTSM2     *)
(* with its InvokeIdGenerator, and the list of awaiting services that the  *)
(* BacnetApplicationLayerHandler keeps beside it.                          *)
(*                                                                         *)
(* A confirmed request is one service object.  send() appends it to the    *)
(* awaiting list, takes an invoke id, stores an entry under that id and    *)
(* transmits the APDU.  An answer or the timer ends the transaction: the   *)
(* entry leaves the table, the id is returned, the service is told and     *)
(* deleted.  The program is one Qt event loop, so each slot (a datagram, a *)
(* timer tick, a caller's send) is one atomic step.                        *)
(*                                                                         *)
(* The network is UDP: a transmitted request may be lost, or answered any  *)
(* number of times and in any order, because the peer answers each of our  *)
(* retransmissions and because the network may delay or repeat a datagram. *)
(* The program outlives none of the answers that match no open request:    *)
(* Q_CHECK_PTR throws for the missing service, and nothing catches it.     *)
(***************************************************************************)
EXTENDS Integers, FiniteSets

CONSTANTS
    Services,       \* the service objects callers pass to send(), each once
    Devices,        \* (remote address, local source address) pairs
    Dst,            \* Dst[s]: the device service s is sent to
    Oversized,      \* services whose APDU does not fit the buffer
    IdCount,        \* number of invoke ids (256 in the code)
    RequestTimeout, \* _requestTimeout_ms
    RetriesCount,   \* _requestRetriesCount
    NoEntry,        \* no record under an invoke id
    NoService       \* answers that belong to no request of ours

ASSUME DstAssumption == Dst \in [Services -> Devices]
ASSUME OversizedAssumption == Oversized \subseteq Services
ASSUME IdCountAssumption == IdCount \in Nat \ {0}
ASSUME TimerAssumption == /\ RequestTimeout \in Nat \ {0}
                          /\ RetriesCount \in Nat \ {0}
ASSUME NoServiceAssumption == NoService \notin Services

VARIABLES
    running,  \* has the program not been ended by an exception?
    idsBits,  \* InvokeIdGenerator::_idsBits, as the set of ids marked used
    entries,  \* _confiremedEntriesList, by invoke id
    awaiting, \* _awaitingConfirmedServices (each service is appended once)
    outcome,  \* what the service has been told so far
    sent,     \* history: the (id, service) pairs that reached the network
    copies,   \* history: how often each service was handed to send_hlpr
    answerTo  \* history: whose request the answer given to a service answers

vars == <<running, idsBits, entries, awaiting, outcome, sent, copies, answerTo>>

Ids == 0 .. IdCount - 1

\* ConfirmedRequestEntry; dst stands for the pair (dst, src).
Entry == [handler: Services,
          timeLeft: 0 .. RequestTimeout,
          retriesLeft: 1 .. RetriesCount,
          dst: Devices]

ASSUME NoEntryAssumption == NoEntry \notin Entry

Answers == {"ack", "error", "reject", "abort"}
Outcomes == Answers \cup {"fresh", "waiting", "refused", "timeout"}

TypeOK ==
    /\ running \in BOOLEAN
    /\ idsBits \subseteq Ids
    /\ entries \in [Ids -> Entry \cup {NoEntry}]
    /\ awaiting \subseteq Services
    /\ outcome \in [Services -> Outcomes]
    /\ sent \subseteq [id: Ids, svc: Services]
    /\ copies \in [Services -> 0 .. RetriesCount]
    /\ answerTo \in [Services -> Services \cup {NoService}]

Init ==
    /\ running = TRUE
    /\ idsBits = {}
    /\ entries = [i \in Ids |-> NoEntry]
    /\ awaiting = {}
    /\ outcome = [s \in Services |-> "fresh"]
    /\ sent = {}
    /\ copies = [s \in Services |-> 0]
    /\ answerTo = [s \in Services |-> NoService]

-----------------------------------------------------------------------------
(* Invoke ids. *)

\* A bug: the last id is never handed out.
FreeIdsButLast == Ids \ (idsBits \cup {IdCount - 1})

FreeIds == Ids \ idsBits
Occupied == {i \in Ids : entries[i] # NoEntry}

\* A bug: the bits are not looked at.
GenerateIdIgnoringBits == CHOOSE i \in Ids : \A j \in Ids : i <= j

\* The lowest id whose bit is clear; the caller checks there is one.
GenerateId == CHOOSE i \in FreeIds : \A j \in FreeIds : i <= j

\* The bit is cleared whether or not it was set: the assertion that it was is
\* compiled out of the gateway (-DQT_NO_DEBUG).
ReturnIds(I) == idsBits' = idsBits \ I

-----------------------------------------------------------------------------
(* Sending. *)

\* What send_hlpr puts on the network: nothing if toRaw() fails.  Its result
\* is ignored by the timer, and a failed first transmission leaves the entry.
Transmitted(i, s) ==
    IF s \in Oversized THEN {} ELSE {[id |-> i, svc |-> s]}

\* QHash::insert replaces what is stored under the id, if anything is.
QueueConfirmedRequest(i, s) ==
    /\ idsBits' = idsBits \cup {i}
    /\ entries' = [entries EXCEPT ![i] =
                      [handler |-> s, timeLeft |-> RequestTimeout,
                       retriesLeft |-> RetriesCount, dst |-> Dst[s]]]

\* BacnetApplicationLayerHandler::send appends the service to the awaiting
\* list before the TSM may refuse it; nothing takes it out again then.
Send(s) ==
    /\ running
    /\ outcome[s] = "fresh"
    /\ awaiting' = awaiting \cup {s}
    /\ \/ /\ FreeIds # {}
          /\ QueueConfirmedRequest(GenerateId, s)
          /\ sent' = sent \cup Transmitted(GenerateId, s)
          /\ copies' = [copies EXCEPT ![s] = 1]
          /\ outcome' = [outcome EXCEPT ![s] = "waiting"]
       \/ /\ FreeIds = {}
          /\ outcome' = [outcome EXCEPT ![s] = "refused"]
          /\ UNCHANGED <<idsBits, entries, sent, copies>>
    /\ UNCHANGED <<running, answerTo>>

-----------------------------------------------------------------------------
(* Answers. *)

\* The handler is told, deleted and removed from the list; an answer for a
\* service that is not in the list is only logged.
CleanUpServices(S, result) ==
    /\ awaiting' = awaiting \ S
    /\ outcome' = [s \in Services |-> IF s \in S \cap awaiting THEN result
                                                             ELSE outcome[s]]

\* dequeueConfirmedRequest finds an entry under the id, from the right address.
Matches(i, d) == entries[i] # NoEntry /\ entries[i].dst = d

\* What every answer does before its service is told: an id with an entry is
\* returned even when the address is not the entry's, and receive() goes on
\* only with a service.
Look(i, d) ==
    /\ ReturnIds(IF entries[i] = NoEntry THEN {} ELSE {i})
    /\ running' = Matches(i, d)

\* The service under the id is told result, by an answer to svc's request.
Tell(i, svc, result) ==
    /\ CleanUpServices({entries[i].handler}, result)
    /\ answerTo' = [answerTo EXCEPT ![entries[i].handler] = svc]

\* A bug: the entry stays in the table.
DequeueConfirmedRequestKeepingEntry(i, d, svc, result) ==
    /\ Look(i, d)
    /\ UNCHANGED entries
    /\ IF Matches(i, d) THEN Tell(i, svc, result)
                        ELSE UNCHANGED <<awaiting, outcome, answerTo>>

\* A bug: without a service the program goes on.
DequeueConfirmedRequestUnchecked(i, d, svc, result) ==
    /\ ReturnIds(IF entries[i] = NoEntry THEN {} ELSE {i})
    /\ UNCHANGED running
    /\ IF Matches(i, d)
       THEN entries' = [entries EXCEPT ![i] = NoEntry] /\ Tell(i, svc, result)
       ELSE UNCHANGED <<entries, awaiting, outcome, answerTo>>

\* A bug: the answer's address is not looked at.
DequeueConfirmedRequestFromAnywhere(i, d, svc, result) ==
    LET found == entries[i] # NoEntry IN
    /\ ReturnIds(IF found THEN {i} ELSE {})
    /\ running' = found
    /\ IF found
       THEN entries' = [entries EXCEPT ![i] = NoEntry] /\ Tell(i, svc, result)
       ELSE UNCHANGED <<entries, awaiting, outcome, answerTo>>

\* An answer from device d with invoke id i, to the request of service svc.
DequeueConfirmedRequest(i, d, svc, result) ==
    /\ Look(i, d)
    /\ IF Matches(i, d)
       THEN entries' = [entries EXCEPT ![i] = NoEntry] /\ Tell(i, svc, result)
       ELSE UNCHANGED <<entries, awaiting, outcome, answerTo>>

\* A peer answers what it received, once or more, sooner or later.
ReceiveAnswer(m, result) ==
    /\ running
    /\ m \in sent
    /\ DequeueConfirmedRequest(m.id, Dst[m.svc], m.svc, result)
    /\ UNCHANGED <<sent, copies>>

ReceiveSimpleAck(m) == ReceiveAnswer(m, "ack")

\* A segmented answer is rejected with an Abort to the peer and changes nothing
\* here: the request stays open and will be repeated.
ReceiveComplexAck(m) ==
    \/ ReceiveAnswer(m, "ack")
    \/ running /\ m \in sent /\ UNCHANGED vars

ReceiveError(m) == ReceiveAnswer(m, "error")

ReceiveReject(m) == ReceiveAnswer(m, "reject")

ReceiveAbort(m) == ReceiveAnswer(m, "abort")

\* A peer that is itself a client aborts its own transaction i with us.  The
\* sent-by-server bit is parsed and never looked at, so the id is looked up
\* among our requests.
ReceivePeerAbort(i, d) ==
    /\ running
    /\ DequeueConfirmedRequest(i, d, NoService, "abort")
    /\ UNCHANGED <<sent, copies>>

-----------------------------------------------------------------------------
(* The retry timer. *)

\* Each tick takes a whole _requestTimeout_ms from every entry.
Late(i) == entries[i] # NoEntry /\ entries[i].timeLeft - RequestTimeout < 0
ToResend == {i \in Ids : Late(i) /\ entries[i].retriesLeft - 1 > 0}

\* A bug: one transmission too few.
ExpiredOnceEarly ==
    {i \in Ids : Late(i) /\ entries[i].retriesLeft - 1 <= 1}

Expired == {i \in Ids : Late(i) /\ entries[i].retriesLeft - 1 <= 0}
HandlersAt(I) == {entries[i].handler : i \in I}

ProcessTimeouts(I) == CleanUpServices(HandlersAt(I), "timeout")

TimerEvent ==
    /\ running
    /\ Occupied # {}
    /\ entries' = [i \in Ids |->
           IF i \in Expired \/ entries[i] = NoEntry THEN NoEntry
           ELSE IF i \in ToResend
           THEN [entries[i] EXCEPT !.timeLeft = RequestTimeout,
                                   !.retriesLeft = @ - 1]
           ELSE [entries[i] EXCEPT !.timeLeft = @ - RequestTimeout]]
    /\ sent' = sent \cup
           UNION {Transmitted(i, entries[i].handler) : i \in ToResend}
    /\ copies' = [s \in Services |-> IF s \in HandlersAt(ToResend)
                                     THEN copies[s] + 1 ELSE copies[s]]
    /\ ProcessTimeouts(Expired)
    /\ ReturnIds(Expired)
    /\ UNCHANGED <<running, answerTo>>

-----------------------------------------------------------------------------
Next ==
    \/ \E s \in Services : Send(s)
    \/ \E m \in sent : \/ ReceiveSimpleAck(m)
                       \/ ReceiveComplexAck(m)
                       \/ ReceiveError(m)
                       \/ ReceiveReject(m)
                       \/ ReceiveAbort(m)
    \/ \E i \in Ids, d \in Devices : ReceivePeerAbort(i, d)
    \/ TimerEvent

Spec == Init /\ [][Next]_vars

\* The timer is started in the constructor and never stopped, and the event
\* loop delivers its ticks; nothing is assumed of callers, peers or network.
FairSpec == Spec /\ WF_vars(TimerEvent)

-----------------------------------------------------------------------------
(* What holds whatever the network does. *)

\* A table entry never outlives its service: processAck, processTimeout and the
\* others find the service they are handed in the awaiting list (their
\* Q_ASSERT(idx >= 0)), and the timer never retransmits through a deleted
\* pointer.  No service is tracked under two ids, so it is deleted once.
EntriesLive ==
    /\ \A i \in Occupied : /\ entries[i].handler \in awaiting
                            /\ outcome[entries[i].handler] = "waiting"
    /\ \A i, j \in Occupied : entries[i].handler = entries[j].handler => i = j

\* An id marked used always has an entry, hence a timer that will return it: no
\* interleaving of answers, reuse and time-outs loses an id for good.
UsedIdsHaveEntries == idsBits \subseteq Occupied

\* What is left of the retry budget and what was spent always add up, so the
\* timer of a reused id never runs on its predecessor's budget.
RetryBudget ==
    \A i \in Occupied :
        entries[i].retriesLeft + copies[entries[i].handler] = RetriesCount + 1

\* An entry is addressed to the device its service was sent to.
EntriesAddressed == \A i \in Occupied : entries[i].dst = Dst[entries[i].handler]

\* A late answer may be taken for another request's, since ids are reused lowest
\* first and the answer is matched by id and address; but however ids and
\* entries were mixed up before, that request went to the device that answered.
AnswersFromOwnDevice ==
    \A s \in Services :
        outcome[s] \in Answers /\ answerTo[s] # NoService
            => Dst[answerTo[s]] = Dst[s]

\* A service is told "timeout" only after its request was tried RetriesCount
\* times, and never hears anything after it was told once.
ToldOnce ==
    \A s \in Services :
        outcome'[s] # outcome[s] =>
            /\ outcome[s] \in {"fresh", "waiting"}
            /\ outcome'[s] = "timeout" => copies[s] = RetriesCount

TimeoutIsFinal == [][ToldOnce]_vars

\* While the program runs the bit array and the table agree: no answer, reuse or
\* time-out loses an id, and an id handed out has no entry that insert() would
\* replace (the Q_ASSERT of queueConfirmedRequest).  An answer from the wrong
\* address clears the bit of an entry that stays, and ends the program.
IdsMatchEntries == running => idsBits = Occupied

\* A waiting service is in the table: nothing is forgotten.
WaitingTracked ==
    \A s \in Services :
        outcome[s] = "waiting" => \E i \in Occupied : entries[i].handler = s

\* Every request that was queued is answered or timed out, by the timer alone:
\* its service hears of it and is deleted, unless the program ends first.
WaitingEnds ==
    \A s \in Services :
        (outcome[s] = "waiting") ~> (outcome[s] # "waiting" \/ ~ running)

\* The TSM keeps the promise of a pool of IdCount concurrent requests.
StatusName(o) ==
    CASE o = "fresh"      -> "new"
      [] o = "waiting"    -> "open"
      [] o = "refused"    -> "refused"
      [] o = "timeout"    -> "timedout"
      [] o \in Answers    -> "answered"

status == [s \in Services |-> StatusName(outcome[s])]

Service == INSTANCE ConfirmedService WITH up <- running, status <- status

ImplementsConfirmedService == Service!FairSpec

-----------------------------------------------------------------------------
(* What the code's comments say, and the macro beside them breaks. *)

\* An answer that finds no request because its request timed out is "not an
\* error": it is dropped, or aborted, and the program goes on.
LateAnswersTolerated ==
    [][\A m \in sent, result \in Answers :
           ReceiveAnswer(m, result) /\ outcome[m.svc] = "timeout"
               => running']_vars

=============================================================================
