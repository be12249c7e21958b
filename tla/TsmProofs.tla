----------------------------- MODULE TsmProofs -----------------------------
(***************************************************************************)
(* Proofs about Tsm for any number of services, devices, invoke ids and    *)
(* retries, with the network free to lose, delay, repeat and reorder       *)
(* answers: no entry dangles, results are final and from the right device, *)
(* and, while no unmatched answer has ended the program, the bit array and *)
(* the table agree and no request is forgotten.  The TSM implements        *)
(* ConfirmedService.                                                       *)
(***************************************************************************)
EXTENDS Tsm, FiniteSetTheorems, WellFoundedInduction, TLAPS

(* The generator. *)

\* The lowest free id exists whenever some id is free.
LEMMA GenerateIdFree ==
    ASSUME FreeIds # {}
    PROVE  GenerateId \in FreeIds
<1>1. FreeIds \subseteq Nat
  BY IdCountAssumption DEF FreeIds, Ids
<1>2. \E i \in FreeIds : \A j \in FreeIds : i <= j
  <2> DEFINE Less == OpToRel(<, Nat)
  <2>1. IsWellFoundedOn(Less, Nat)
    BY NatLessThanWellFounded
  <2>2. \A i, j \in Nat : <<i, j>> \in Less <=> i < j
    BY DEF OpToRel
  <2> HIDE DEF Less
  <2>3. PICK i \in FreeIds : \A j \in FreeIds : ~ (<<j, i>> \in Less)
    BY <1>1, <2>1, WFMin
  <2>4. ASSUME NEW j \in FreeIds PROVE i <= j
    <3>1. i \in Nat /\ j \in Nat
      BY <1>1
    <3>2. ~ (<<j, i>> \in Less)
      BY <2>3
    <3>3. ~ (j < i)
      BY <3>1, <3>2, <2>2
    <3> QED
      BY <3>1, <3>3
  <2> QED
    BY <2>4
<1> QED
  BY <1>2 DEF GenerateId

-----------------------------------------------------------------------------
(* The inductive invariant.  EntriesLive alone is not inductive: that a    *)
(* fresh service is in no entry needs its outcome; that a resend keeps     *)
(* copies within RetriesCount needs the budget.                            *)

IInv ==
    /\ TypeOK
    /\ EntriesLive
    /\ UsedIdsHaveEntries
    /\ RetryBudget
    /\ EntriesAddressed

\* What is stored under an occupied id is a well-formed entry.
LEMMA EntryFields ==
    ASSUME TypeOK, NEW i \in Occupied
    PROVE  /\ i \in Ids
           /\ entries[i] \in Entry
           /\ entries[i].handler \in Services
           /\ entries[i].timeLeft \in 0 .. RequestTimeout
           /\ entries[i].retriesLeft \in 1 .. RetriesCount
           /\ entries[i].dst \in Devices
  BY DEF TypeOK, Occupied, Entry

\* At first the table and the id bits are empty.
LEMMA InitIInv == Init => IInv
<1> SUFFICES ASSUME Init PROVE IInv
  OBVIOUS
<1> USE DEF Init
<1>1. TypeOK
  BY TimerAssumption DEF TypeOK, Outcomes
<1>2. Occupied = {}
  BY DEF Occupied
<1> QED
  BY <1>1, <1>2 DEF IInv, EntriesLive, UsedIdsHaveEntries, RetryBudget,
                    EntriesAddressed

-----------------------------------------------------------------------------
(* One lemma for each kind of step. *)

\* A new request takes a fresh service into an entry with a full budget, or is
\* refused and changes nothing in the table.
LEMMA SendIInv ==
    ASSUME IInv, NEW s \in Services, Send(s)
    PROVE  IInv'
<1> USE DEF IInv
<1>1. CASE FreeIds = {}
  <2>1. /\ awaiting' = awaiting \cup {s}
        /\ outcome' = [outcome EXCEPT ![s] = "refused"]
        /\ outcome[s] = "fresh"
        /\ UNCHANGED <<running, idsBits, entries, sent, copies, answerTo>>
    BY <1>1 DEF Send
  <2>2. TypeOK'
    BY <2>1 DEF TypeOK, Outcomes
  <2>3. Occupied' = Occupied
    BY <2>1 DEF Occupied
  <2>4. \A i \in Occupied : entries[i].handler # s
    BY <2>1 DEF EntriesLive
  <2>5. EntriesLive'
    BY <2>1, <2>3, <2>4, EntryFields DEF EntriesLive, TypeOK
  <2> QED
    BY <2>1, <2>2, <2>3, <2>5
    DEF UsedIdsHaveEntries, RetryBudget, EntriesAddressed
<1>2. CASE FreeIds # {}
  <2> DEFINE g == GenerateId
             e == [handler |-> s, timeLeft |-> RequestTimeout,
                   retriesLeft |-> RetriesCount, dst |-> Dst[s]]
  <2>1. /\ awaiting' = awaiting \cup {s}
        /\ outcome' = [outcome EXCEPT ![s] = "waiting"]
        /\ outcome[s] = "fresh"
        /\ idsBits' = idsBits \cup {g}
        /\ entries' = [entries EXCEPT ![g] = e]
        /\ sent' = sent \cup Transmitted(g, s)
        /\ copies' = [copies EXCEPT ![s] = 1]
        /\ UNCHANGED <<running, answerTo>>
    BY <1>2 DEF Send, QueueConfirmedRequest
  <2>2. g \in Ids
    BY <1>2, GenerateIdFree DEF FreeIds
  <2> HIDE DEF g
  <2>3. e \in Entry
    BY DstAssumption, TimerAssumption DEF Entry
  <2>4. Occupied' = Occupied \cup {g}
    BY <2>1, <2>2, <2>3, NoEntryAssumption DEF Occupied, TypeOK
  <2>5. entries'[g] = e /\ \A i \in Ids \ {g} : entries'[i] = entries[i]
    BY <2>1, <2>2 DEF TypeOK
  <2>6. \A i \in Occupied : entries[i].handler # s
    BY <2>1 DEF EntriesLive
  <2>7. TypeOK'
    <3>1. sent' \subseteq [id : Ids, svc : Services]
      BY <2>1, <2>2 DEF TypeOK, Transmitted
    <3>2. entries' \in [Ids -> Entry \cup {NoEntry}]
      BY <2>1, <2>2, <2>3 DEF TypeOK
    <3> QED
      BY <2>1, <2>2, <3>1, <3>2, TimerAssumption DEF TypeOK, Outcomes
  <2> HIDE DEF e
  <2>8. e.handler = s /\ e.retriesLeft = RetriesCount /\ e.dst = Dst[s]
    BY DEF e
  <2>9. EntriesLive'
    <3>1. ASSUME NEW i \in Occupied'
          PROVE  /\ entries'[i].handler \in awaiting'
                 /\ outcome'[entries'[i].handler] = "waiting"
      <4>1. CASE i = g
        BY <4>1, <2>1, <2>5, <2>8 DEF TypeOK
      <4>2. CASE i # g
        BY <4>2, <2>1, <2>4, <2>5, <2>6, EntryFields DEF EntriesLive, TypeOK
      <4> QED
        BY <4>1, <4>2
    <3>2. ASSUME NEW i \in Occupied', NEW j \in Occupied',
                 entries'[i].handler = entries'[j].handler
          PROVE  i = j
      BY <3>2, <2>4, <2>5, <2>6, <2>8, EntryFields DEF EntriesLive
    <3> QED
      BY <3>1, <3>2 DEF EntriesLive
  <2>10. UsedIdsHaveEntries'
    BY <2>1, <2>4 DEF UsedIdsHaveEntries
  <2>11. RetryBudget'
    <3>1. ASSUME NEW i \in Occupied'
          PROVE  entries'[i].retriesLeft + copies'[entries'[i].handler]
                     = RetriesCount + 1
      <4>1. CASE i = g
        BY <4>1, <2>1, <2>5, <2>8 DEF TypeOK
      <4>2. CASE i # g
        BY <4>2, <2>1, <2>4, <2>5, <2>6, EntryFields DEF RetryBudget, TypeOK
      <4> QED
        BY <4>1, <4>2
    <3> QED
      BY <3>1 DEF RetryBudget
  <2>12. EntriesAddressed'
    <3>1. ASSUME NEW i \in Occupied'
          PROVE  entries'[i].dst = Dst[entries'[i].handler]
      BY <2>4, <2>5, <2>8, EntryFields DEF EntriesAddressed
    <3> QED
      BY <3>1 DEF EntriesAddressed
  <2> QED
    BY <2>7, <2>9, <2>10, <2>11, <2>12
<1> QED
  BY <1>1, <1>2

\* An answer that matches an entry returns the id, clears the entry and tells
\* the entry's service.
LEMMA MatchedAnswer ==
    ASSUME IInv, NEW i \in Ids, NEW d, NEW svc, NEW result,
           DequeueConfirmedRequest(i, d, svc, result), Matches(i, d)
    PROVE  LET h == entries[i].handler IN
           /\ i \in Occupied /\ h \in Services /\ h \in awaiting
           /\ outcome[h] = "waiting" /\ Dst[h] = d
           /\ running'
           /\ idsBits' = idsBits \ {i}
           /\ entries' = [entries EXCEPT ![i] = NoEntry]
           /\ awaiting' = awaiting \ {h}
           /\ outcome' = [s \in Services |-> IF s = h THEN result ELSE outcome[s]]
           /\ answerTo' = [answerTo EXCEPT ![h] = svc]
<1> DEFINE h == entries[i].handler
<1>1. i \in Occupied /\ entries[i] # NoEntry /\ entries[i].dst = d
  BY DEF Matches, Occupied
<1>2. h \in Services /\ h \in awaiting /\ outcome[h] = "waiting" /\ Dst[h] = d
  BY <1>1, EntryFields DEF IInv, EntriesLive, EntriesAddressed
<1>3. running' /\ idsBits' = idsBits \ {i}
  BY <1>1 DEF DequeueConfirmedRequest, Look, ReturnIds
<1>4. /\ entries' = [entries EXCEPT ![i] = NoEntry]
      /\ awaiting' = awaiting \ {h}
      /\ outcome' = [s \in Services |-> IF s \in {h} \cap awaiting THEN result
                                                             ELSE outcome[s]]
      /\ answerTo' = [answerTo EXCEPT ![h] = svc]
  BY DEF DequeueConfirmedRequest, Tell, CleanUpServices
<1> HIDE DEF h
<1>5. outcome' = [s \in Services |-> IF s = h THEN result ELSE outcome[s]]
  BY <1>2, <1>4
<1> QED
  BY <1>1, <1>2, <1>3, <1>4, <1>5 DEF h

\* Any other answer at most returns the id, and the program ends.
LEMMA UnmatchedAnswer ==
    ASSUME NEW i \in Ids, NEW d, NEW svc, NEW result,
           DequeueConfirmedRequest(i, d, svc, result), ~ Matches(i, d)
    PROVE  /\ running' = FALSE
           /\ idsBits' \subseteq idsBits
           /\ UNCHANGED <<entries, awaiting, outcome, answerTo>>
  BY DEF DequeueConfirmedRequest, Look, Matches, ReturnIds

\* Any answer: the entry and its service go together, or both stay.
LEMMA DequeueIInv ==
    ASSUME IInv, NEW i \in Ids, NEW d \in Devices,
           NEW svc \in Services \cup {NoService}, NEW result \in Answers,
           DequeueConfirmedRequest(i, d, svc, result),
           UNCHANGED <<sent, copies>>
    PROVE  IInv'
<1> USE DEF IInv
<1>1. CASE ~ Matches(i, d)
  <2>1. /\ running' = FALSE
        /\ idsBits' \subseteq idsBits
        /\ UNCHANGED <<entries, awaiting, outcome, sent, copies, answerTo>>
    BY <1>1, UnmatchedAnswer
  <2>2. Occupied' = Occupied
    BY <2>1 DEF Occupied
  <2> QED
    BY <2>1, <2>2 DEF TypeOK, EntriesLive, UsedIdsHaveEntries,
                      RetryBudget, EntriesAddressed
<1>2. CASE Matches(i, d)
  <2> DEFINE h == entries[i].handler
  <2>1. i \in Occupied /\ h \in Services /\ h \in awaiting
    BY <1>2, MatchedAnswer
  <2>2. /\ running'
        /\ idsBits' = idsBits \ {i}
        /\ entries' = [entries EXCEPT ![i] = NoEntry]
        /\ awaiting' = awaiting \ {h}
        /\ outcome' = [s \in Services |-> IF s = h THEN result ELSE outcome[s]]
        /\ answerTo' = [answerTo EXCEPT ![h] = svc]
        /\ UNCHANGED <<sent, copies>>
    BY <1>2, MatchedAnswer
  <2>3. running' \in BOOLEAN
    BY <1>2 DEF DequeueConfirmedRequest, Look, Matches
  <2>4. Occupied' = Occupied \ {i}
    BY <2>2 DEF Occupied, TypeOK
  <2>5. \A j \in Occupied' : /\ entries'[j] = entries[j]
                             /\ entries[j].handler # h
                             /\ entries[j].handler \in Services
    BY <2>1, <2>2, <2>4, EntryFields DEF EntriesLive, TypeOK, Occupied
  <2> HIDE DEF h
  <2>6. TypeOK'
    BY <2>1, <2>2, <2>3 DEF TypeOK, Outcomes
  <2>7. EntriesLive'
    BY <2>2, <2>4, <2>5 DEF EntriesLive
  <2>8. UsedIdsHaveEntries'
    BY <2>2, <2>4 DEF UsedIdsHaveEntries
  <2>9. RetryBudget' /\ EntriesAddressed'
    BY <2>2, <2>4, <2>5 DEF RetryBudget, EntriesAddressed
  <2> QED
    BY <2>6, <2>7, <2>8, <2>9
<1> QED
  BY <1>1, <1>2

\* What a tick does to the table: expired entries leave, the others keep their
\* service and spend a try only if they are sent again.
LEMMA TimerEntries ==
    ASSUME TypeOK, TimerEvent
    PROVE  /\ Occupied' = Occupied \ Expired
           /\ \A i \in Ids \ (Occupied \ Expired) : entries'[i] = NoEntry
           /\ \A i \in Occupied \ Expired :
                /\ entries'[i] \in Entry
                /\ entries'[i].handler = entries[i].handler
                /\ entries'[i].dst = entries[i].dst
                /\ entries'[i].retriesLeft = IF i \in ToResend
                                             THEN entries[i].retriesLeft - 1
                                             ELSE entries[i].retriesLeft
<1>1. \A i \in Ids \ (Occupied \ Expired) : entries'[i] = NoEntry
  BY DEF TimerEvent, Occupied
<1>2. ASSUME NEW i \in Occupied \ Expired
      PROVE  /\ entries'[i] \in Entry
             /\ entries'[i].handler = entries[i].handler
             /\ entries'[i].dst = entries[i].dst
             /\ entries'[i].retriesLeft = IF i \in ToResend
                                          THEN entries[i].retriesLeft - 1
                                          ELSE entries[i].retriesLeft
  <2>1. i \in Ids /\ entries[i] # NoEntry /\ entries[i] \in Entry
    BY EntryFields DEF Occupied
  <2>2. /\ entries[i].timeLeft \in 0 .. RequestTimeout
        /\ entries[i].retriesLeft \in 1 .. RetriesCount
    BY EntryFields
  <2>3. CASE i \in ToResend
    <3>1. entries'[i] = [entries[i] EXCEPT !.timeLeft = RequestTimeout,
                                           !.retriesLeft = @ - 1]
      BY <2>1, <2>3 DEF TimerEvent
    <3>2. entries[i].retriesLeft - 1 \in 1 .. RetriesCount
      BY <2>2, <2>3, TimerAssumption DEF ToResend
    <3>3. RequestTimeout \in 0 .. RequestTimeout
      BY TimerAssumption
    <3>4. /\ entries'[i] \in Entry
          /\ entries'[i].handler = entries[i].handler
          /\ entries'[i].dst = entries[i].dst
          /\ entries'[i].retriesLeft = entries[i].retriesLeft - 1
      BY <2>1, <3>1, <3>2, <3>3 DEF Entry
    <3> QED
      BY <2>3, <3>4
  <2>4. CASE i \notin ToResend
    <3>1. entries'[i] = [entries[i] EXCEPT !.timeLeft = @ - RequestTimeout]
      BY <2>1, <2>4 DEF TimerEvent
    <3>2. ~ Late(i)
      BY <2>1, <2>2, <2>4, TimerAssumption DEF ToResend, Expired
    <3>3. entries[i].timeLeft - RequestTimeout \in 0 .. RequestTimeout
      BY <2>1, <2>2, <3>2, TimerAssumption DEF Late
    <3>4. /\ entries'[i] \in Entry
          /\ entries'[i].handler = entries[i].handler
          /\ entries'[i].dst = entries[i].dst
          /\ entries'[i].retriesLeft = entries[i].retriesLeft
      BY <2>1, <3>1, <3>3 DEF Entry
    <3> QED
      BY <2>4, <3>4
  <2> QED
    BY <2>3, <2>4
<1>3. Occupied' = Occupied \ Expired
  BY <1>1, <1>2, NoEntryAssumption DEF Occupied
<1> QED
  BY <1>1, <1>2, <1>3

\* A tick: every entry waits on, is sent again or leaves with its service.
LEMMA TimerIInv ==
    ASSUME IInv, TimerEvent
    PROVE  IInv'
<1> USE DEF IInv
<1> DEFINE gone == HandlersAt(Expired)
           again == HandlersAt(ToResend)
<1>1. Expired \subseteq Occupied /\ ToResend \subseteq Occupied \ Expired
  BY EntryFields DEF Expired, ToResend, Late, Occupied
<1>2. \A i \in Occupied :
        /\ entries[i].handler \in gone <=> i \in Expired
        /\ entries[i].handler \in again <=> i \in ToResend
  BY <1>1 DEF EntriesLive, HandlersAt
<1>3. gone \subseteq Services \cap awaiting /\ again \subseteq Services
  BY <1>1, EntryFields DEF HandlersAt, EntriesLive
<1>4. /\ idsBits' = idsBits \ Expired
      /\ awaiting' = awaiting \ gone
      /\ outcome' = [s \in Services |-> IF s \in gone THEN "timeout"
                                                       ELSE outcome[s]]
      /\ copies' = [s \in Services |-> IF s \in again THEN copies[s] + 1
                                                       ELSE copies[s]]
      /\ UNCHANGED <<running, answerTo>>
  BY <1>3 DEF TimerEvent, ReturnIds, ProcessTimeouts, CleanUpServices
<1>5. \A i \in Ids \ (Occupied \ Expired) : entries'[i] = NoEntry
  BY TimerEntries
<1>6. \A i \in Occupied \ Expired :
        /\ entries'[i] \in Entry
        /\ entries'[i].handler = entries[i].handler
        /\ entries'[i].dst = entries[i].dst
        /\ entries'[i].retriesLeft = IF i \in ToResend
                                     THEN entries[i].retriesLeft - 1
                                     ELSE entries[i].retriesLeft
  BY TimerEntries
<1>7. Occupied' = Occupied \ Expired
  BY TimerEntries
<1> HIDE DEF gone, again
<1>8. TypeOK'
  <2>1. idsBits' \subseteq Ids /\ awaiting' \subseteq Services
    BY <1>4 DEF TypeOK
  <2>2. entries' \in [Ids -> Entry \cup {NoEntry}]
    <3>1. \A i \in Ids : entries'[i] \in Entry \cup {NoEntry}
      BY <1>5, <1>6
    <3>2. entries' = [i \in Ids |-> entries'[i]]
      BY DEF TimerEvent
    <3> QED
      BY <3>1, <3>2
  <2>3. outcome' \in [Services -> Outcomes]
    BY <1>4 DEF TypeOK, Outcomes
  <2>4. sent' \subseteq [id : Ids, svc : Services]
    <3>1. ASSUME NEW i \in ToResend
          PROVE  Transmitted(i, entries[i].handler)
                     \subseteq [id : Ids, svc : Services]
      BY <1>1, EntryFields DEF Transmitted
    <3> QED
      <4>1. UNION {Transmitted(i, entries[i].handler) : i \in ToResend}
                \subseteq [id : Ids, svc : Services]
        BY <3>1
      <4> QED
        BY <4>1 DEF TimerEvent, TypeOK
  <2>5. ASSUME NEW s \in again
        PROVE  copies[s] + 1 \in 0 .. RetriesCount
    <3>1. PICK i \in ToResend : s = entries[i].handler
      BY DEF again, HandlersAt
    <3>2. /\ entries[i].retriesLeft \in Nat
          /\ entries[i].retriesLeft - 1 > 0
          /\ entries[i].retriesLeft + copies[s] = RetriesCount + 1
      BY <1>1, <3>1, EntryFields DEF ToResend, RetryBudget
    <3>3. copies[s] \in Nat
      BY <1>3, TimerAssumption DEF TypeOK
    <3> QED
      BY <3>2, <3>3, TimerAssumption
  <2>6. copies' \in [Services -> 0 .. RetriesCount]
    BY <1>4, <2>5 DEF TypeOK
  <2>7. running' \in BOOLEAN /\ answerTo' \in [Services -> Services \cup {NoService}]
    BY <1>4 DEF TypeOK
  <2> QED
    BY <2>1, <2>2, <2>3, <2>4, <2>6, <2>7 DEF TypeOK
<1>9. EntriesLive'
  <2>1. ASSUME NEW i \in Occupied'
        PROVE  /\ entries'[i].handler \in awaiting'
               /\ outcome'[entries'[i].handler] = "waiting"
    <3>1. /\ entries'[i].handler = entries[i].handler
          /\ entries[i].handler \in Services \ gone
      BY <1>2, <1>6, <1>7, EntryFields
    <3> QED
      BY <1>4, <1>7, <3>1 DEF EntriesLive
  <2>2. ASSUME NEW i \in Occupied', NEW j \in Occupied',
               entries'[i].handler = entries'[j].handler
        PROVE  i = j
    BY <1>6, <1>7, <2>2 DEF EntriesLive
  <2> QED
    BY <2>1, <2>2 DEF EntriesLive
<1>10. UsedIdsHaveEntries'
  BY <1>4, <1>7 DEF UsedIdsHaveEntries
<1>11. RetryBudget'
  <2>1. ASSUME NEW i \in Occupied'
        PROVE  entries'[i].retriesLeft + copies'[entries'[i].handler]
                   = RetriesCount + 1
    <3>1. i \in Occupied \ Expired /\ entries[i].handler \in Services
      BY <1>7, EntryFields
    <3>2. /\ entries[i].retriesLeft \in Int
          /\ copies[entries[i].handler] \in Int
          /\ entries[i].retriesLeft + copies[entries[i].handler]
                = RetriesCount + 1
      BY <3>1, EntryFields, TimerAssumption DEF TypeOK, RetryBudget
    <3>3. CASE i \in ToResend
      <4>1. /\ entries'[i].retriesLeft = entries[i].retriesLeft - 1
            /\ copies'[entries'[i].handler] = copies[entries[i].handler] + 1
        BY <1>2, <1>4, <1>6, <3>1, <3>3
      <4> QED
        BY <3>2, <4>1
    <3>4. CASE i \notin ToResend
      BY <1>2, <1>4, <1>6, <3>1, <3>2, <3>4
    <3> QED
      BY <3>3, <3>4
  <2> QED
    BY <2>1 DEF RetryBudget
<1>12. EntriesAddressed'
  BY <1>6, <1>7 DEF EntriesAddressed
<1> QED
  BY <1>8, <1>9, <1>10, <1>11, <1>12

\* Every answer is one of DequeueConfirmedRequest or changes nothing.
LEMMA AnswerIsDequeue ==
    ASSUME TypeOK, NEW m \in sent,
           \/ ReceiveSimpleAck(m) \/ ReceiveComplexAck(m) \/ ReceiveError(m)
           \/ ReceiveReject(m) \/ ReceiveAbort(m)
    PROVE  \/ UNCHANGED vars
           \/ /\ \E result \in Answers :
                    DequeueConfirmedRequest(m.id, Dst[m.svc], m.svc, result)
              /\ running
              /\ m.id \in Ids /\ m.svc \in Services /\ Dst[m.svc] \in Devices
              /\ UNCHANGED <<sent, copies>>
<1>1. m.id \in Ids /\ m.svc \in Services /\ Dst[m.svc] \in Devices
  BY DstAssumption DEF TypeOK
<1>2. /\ "ack" \in Answers /\ "error" \in Answers
      /\ "reject" \in Answers /\ "abort" \in Answers
  BY DEF Answers
<1> QED
  BY <1>1, <1>2 DEF ReceiveSimpleAck, ReceiveComplexAck, ReceiveError,
                    ReceiveReject, ReceiveAbort, ReceiveAnswer

\* A step that changes no variable keeps the invariant.
LEMMA StutterIInv ==
    ASSUME IInv, UNCHANGED vars
    PROVE  IInv'
  BY DEF IInv, vars, TypeOK, EntriesLive, UsedIdsHaveEntries, RetryBudget,
         EntriesAddressed, Occupied

\* Every step of the TSM keeps the invariant.
LEMMA NextIInv ==
    ASSUME IInv, [Next]_vars
    PROVE  IInv'
<1>1. ASSUME NEW s \in Services, Send(s) PROVE IInv'
  BY <1>1, SendIInv
<1>2. ASSUME NEW m \in sent,
             \/ ReceiveSimpleAck(m) \/ ReceiveComplexAck(m) \/ ReceiveError(m)
             \/ ReceiveReject(m) \/ ReceiveAbort(m)
      PROVE  IInv'
  <2>1. TypeOK
    BY DEF IInv
  <2>2. CASE UNCHANGED vars
    BY <2>2, StutterIInv
  <2>3. CASE ~ UNCHANGED vars
    BY <1>2, <2>1, <2>3, AnswerIsDequeue, DequeueIInv
  <2> QED
    BY <2>2, <2>3
<1>3. ASSUME NEW i \in Ids, NEW d \in Devices, ReceivePeerAbort(i, d)
      PROVE  IInv'
  BY <1>3, DequeueIInv DEF ReceivePeerAbort, Answers
<1>4. CASE TimerEvent
  BY <1>4, TimerIInv
<1>5. CASE UNCHANGED vars
  BY <1>5, StutterIInv
<1> QED
  BY <1>1, <1>2, <1>3, <1>4, <1>5 DEF Next

-----------------------------------------------------------------------------
(* The theorems. *)

\* The invariant holds in every behaviour, with late, repeated and misaddressed
\* answers and with aborts of the peers' own transactions.
THEOREM Invariance == Spec => []IInv
  BY InitIInv, NextIInv, PTL DEF Spec

\* Type correctness of the TSM and its history variables.
THEOREM TypeCorrect == Spec => []TypeOK
<1>1. IInv => TypeOK
  BY DEF IInv
<1> QED
  BY <1>1, Invariance, PTL

\* No table entry outlives its service and no service has two entries, for any
\* number of requests and ids and whatever the network delivers: the service
\* processAck, processError, processReject, processAbort and processTimeout are
\* handed is in the awaiting list, and the timer never resends a deleted one.
THEOREM NoDanglingEntry == Spec => []EntriesLive
<1>1. IInv => EntriesLive
  BY DEF IInv
<1> QED
  BY <1>1, Invariance, PTL

\* No invoke id is lost: an id marked used has an entry whose timer returns it.
THEOREM NoIdLost == Spec => []UsedIdsHaveEntries
<1>1. IInv => UsedIdsHaveEntries
  BY DEF IInv
<1> QED
  BY <1>1, Invariance, PTL

\* Tries made and tries left of every tracked request add up.
THEOREM BudgetKept == Spec => []RetryBudget
<1>1. IInv => RetryBudget
  BY DEF IInv
<1> QED
  BY <1>1, Invariance, PTL

\* A step tells only services still waiting or new, and those in expired entries
\* have spent their budget.
LEMMA ToldOnceStep ==
    ASSUME IInv, [Next]_vars
    PROVE  [ToldOnce]_vars
<1> USE DEF IInv
<1>1. ASSUME NEW s \in Services, Send(s) PROVE ToldOnce
  BY <1>1 DEF Send, ToldOnce, TypeOK
<1>2. ASSUME NEW i \in Ids, NEW d \in Devices,
             NEW svc \in Services \cup {NoService}, NEW result \in Answers,
             DequeueConfirmedRequest(i, d, svc, result)
      PROVE  ToldOnce
  <2>1. CASE Matches(i, d)
    BY <1>2, <2>1, MatchedAnswer DEF ToldOnce, Answers
  <2>2. CASE ~ Matches(i, d)
    BY <1>2, <2>2, UnmatchedAnswer DEF ToldOnce
  <2> QED
    BY <2>1, <2>2
<1>3. ASSUME NEW m \in sent,
             \/ ReceiveSimpleAck(m) \/ ReceiveComplexAck(m) \/ ReceiveError(m)
             \/ ReceiveReject(m) \/ ReceiveAbort(m)
      PROVE  [ToldOnce]_vars
  BY <1>2, <1>3, AnswerIsDequeue
<1>4. ASSUME NEW i \in Ids, NEW d \in Devices, ReceivePeerAbort(i, d)
      PROVE  ToldOnce
  BY <1>2, <1>4 DEF ReceivePeerAbort, Answers
<1>5. ASSUME TimerEvent
      PROVE  ToldOnce
  <2>1. ASSUME NEW s \in HandlersAt(Expired)
        PROVE  outcome[s] = "waiting" /\ copies[s] = RetriesCount
    <3>1. PICK i \in Expired : s = entries[i].handler
      BY DEF HandlersAt
    <3>2. i \in Occupied /\ entries[i].retriesLeft - 1 <= 0
      BY <3>1 DEF Expired, Late, Occupied
    <3>3. entries[i].retriesLeft = 1
      BY <3>2, EntryFields, TimerAssumption
    <3>4. copies[s] \in Int /\ 1 + copies[s] = RetriesCount + 1
      BY <3>1, <3>2, <3>3, EntryFields, TimerAssumption DEF RetryBudget, TypeOK
    <3> QED
      BY <3>1, <3>2, <3>4, TimerAssumption DEF EntriesLive
  <2>2. outcome' = [s \in Services |-> IF s \in HandlersAt(Expired) \cap awaiting
                                      THEN "timeout" ELSE outcome[s]]
    BY <1>5 DEF TimerEvent, ProcessTimeouts, CleanUpServices
  <2> QED
    BY <2>1, <2>2 DEF ToldOnce
<1> QED
  BY <1>1, <1>3, <1>4, <1>5 DEF Next

\* A service is told at most one result, and "timeout" only after all its tries.
THEOREM ToldOnceAlways == Spec => TimeoutIsFinal
  BY Invariance, ToldOnceStep, PTL DEF Spec, TimeoutIsFinal

-----------------------------------------------------------------------------
(* Whose answers a service gets. *)

\* An answer found by its address and id ends a service of its own device.
LEMMA DequeueOwnDevice ==
    ASSUME IInv, AnswersFromOwnDevice, NEW i \in Ids, NEW d \in Devices,
           NEW svc \in Services \cup {NoService}, svc # NoService => Dst[svc] = d,
           NEW result \in Answers,
           DequeueConfirmedRequest(i, d, svc, result)
    PROVE  AnswersFromOwnDevice'
<1>1. CASE Matches(i, d)
  <2> DEFINE h == entries[i].handler
  <2>1. h \in Services /\ Dst[h] = d
    BY <1>1, MatchedAnswer
  <2>2. /\ answerTo' = [answerTo EXCEPT ![h] = svc]
        /\ outcome' = [s \in Services |-> IF s = h THEN result ELSE outcome[s]]
    BY <1>1, MatchedAnswer
  <2>3. ASSUME NEW s \in Services, outcome'[s] \in Answers, answerTo'[s] # NoService
        PROVE  Dst[answerTo'[s]] = Dst[s]
    <3>1. CASE s = h
      BY <2>1, <2>2, <2>3, <3>1 DEF IInv, TypeOK
    <3>2. CASE s # h
      BY <2>2, <2>3, <3>2 DEF IInv, TypeOK, AnswersFromOwnDevice
    <3> QED
      BY <3>1, <3>2
  <2> QED
    BY <2>3 DEF AnswersFromOwnDevice
<1>2. CASE ~ Matches(i, d)
  <2>1. UNCHANGED <<outcome, answerTo>>
    BY <1>2, UnmatchedAnswer
  <2> QED
    BY <2>1 DEF AnswersFromOwnDevice
<1> QED
  BY <1>1, <1>2

\* Sending and timing out answer nobody.
LEMMA NextOwnDevice ==
    ASSUME IInv, AnswersFromOwnDevice, [Next]_vars
    PROVE  AnswersFromOwnDevice'
<1>1. ASSUME NEW s \in Services, Send(s) PROVE AnswersFromOwnDevice'
  BY <1>1 DEF Send, IInv, TypeOK, Answers, AnswersFromOwnDevice
<1>2. CASE UNCHANGED vars
  BY <1>2 DEF vars, AnswersFromOwnDevice
<1>3. ASSUME NEW m \in sent,
             \/ ReceiveSimpleAck(m) \/ ReceiveComplexAck(m) \/ ReceiveError(m)
             \/ ReceiveReject(m) \/ ReceiveAbort(m)
      PROVE  AnswersFromOwnDevice'
  BY <1>2, <1>3, AnswerIsDequeue, DequeueOwnDevice DEF IInv
<1>4. ASSUME NEW i \in Ids, NEW d \in Devices, ReceivePeerAbort(i, d)
      PROVE  AnswersFromOwnDevice'
  BY <1>4, DequeueOwnDevice DEF ReceivePeerAbort, Answers
<1>5. CASE TimerEvent
  <2>1. /\ answerTo' = answerTo
        /\ outcome' = [s \in Services |-> IF s \in HandlersAt(Expired) \cap awaiting
                                          THEN "timeout" ELSE outcome[s]]
    BY <1>5 DEF TimerEvent, ProcessTimeouts, CleanUpServices
  <2> QED
    BY <2>1 DEF Answers, AnswersFromOwnDevice
<1> QED
  BY <1>1, <1>2, <1>3, <1>4, <1>5 DEF Next

\* Whatever arrives, a service is answered by its own device.
THEOREM AnsweredByOwnDevice == Spec => []AnswersFromOwnDevice
<1>1. Init => AnswersFromOwnDevice
  BY DEF Init, Answers, AnswersFromOwnDevice
<1> QED
  BY <1>1, Invariance, NextOwnDevice, PTL DEF Spec
-----------------------------------------------------------------------------
(* While the program runs.                                                 *)

\* The invariant above with the agreement of bits and table, and with every
\* waiting service in the table, which the refinement needs.
PInv == IInv /\ IdsMatchEntries /\ WaitingTracked

\* At first no id is used and no service waits.
LEMMA InitPInv == Init => PInv
  BY InitIInv DEF Init, PInv, IdsMatchEntries, WaitingTracked, Occupied

\* A new request marks the id and fills the entry under it together.
LEMMA SendPInv ==
    ASSUME PInv, NEW s \in Services, Send(s)
    PROVE  IdsMatchEntries' /\ WaitingTracked'
<1> USE DEF PInv, IInv
<1>0. idsBits = Occupied
  BY DEF Send, IdsMatchEntries
<1>1. CASE FreeIds = {}
  BY <1>1 DEF Send, IdsMatchEntries, WaitingTracked, Occupied, TypeOK
<1>2. CASE FreeIds # {}
  <2> DEFINE g == GenerateId
             e == [handler |-> s, timeLeft |-> RequestTimeout,
                   retriesLeft |-> RetriesCount, dst |-> Dst[s]]
  <2>1. /\ g \in Ids
        /\ g \notin idsBits
        /\ idsBits' = idsBits \cup {g}
        /\ entries' = [entries EXCEPT ![g] = e]
        /\ outcome' = [outcome EXCEPT ![s] = "waiting"]
    BY <1>2, GenerateIdFree DEF Send, QueueConfirmedRequest, FreeIds
  <2>2. e # NoEntry
    BY DstAssumption, TimerAssumption, NoEntryAssumption DEF Entry
  <2> HIDE DEF g
  <2>3. Occupied' = Occupied \cup {g}
    BY <2>1, <2>2 DEF Occupied, TypeOK
  <2>4. entries'[g].handler = s
    BY <2>1 DEF TypeOK
  <2>5. \A i \in Occupied : entries'[i] = entries[i]
    BY <1>0, <2>1 DEF TypeOK, Occupied
  <2>6. \A r \in Services : outcome'[r] = "waiting" => r = s \/ outcome[r] = "waiting"
    BY <2>1 DEF TypeOK
  <2>7. WaitingTracked'
    BY <2>3, <2>4, <2>5, <2>6 DEF WaitingTracked
  <2> QED
    BY <1>0, <2>1, <2>3, <2>7 DEF IdsMatchEntries
<1> QED
  BY <1>1, <1>2

\* A matching answer clears the bit and the entry together, and takes its
\* service out of those that wait; any other one ends the program.
LEMMA DequeuePInv ==
    ASSUME PInv, running, NEW i \in Ids, NEW d, NEW svc, NEW result \in Answers,
           DequeueConfirmedRequest(i, d, svc, result)
    PROVE  IdsMatchEntries' /\ WaitingTracked'
<1> USE DEF PInv
<1>1. CASE ~ Matches(i, d)
  <2>1. running' = FALSE /\ UNCHANGED <<entries, outcome>>
    BY <1>1, UnmatchedAnswer
  <2> QED
    BY <2>1 DEF IdsMatchEntries, WaitingTracked, Occupied
<1>2. CASE Matches(i, d)
  <2> DEFINE h == entries[i].handler
  <2>1. /\ i \in Occupied
        /\ idsBits' = idsBits \ {i}
        /\ entries' = [entries EXCEPT ![i] = NoEntry]
        /\ outcome' = [s \in Services |-> IF s = h THEN result ELSE outcome[s]]
    BY <1>2, MatchedAnswer
  <2>2. Occupied' = Occupied \ {i}
    BY <2>1 DEF Occupied, TypeOK, IInv
  <2>3. \A j \in Occupied' : entries'[j] = entries[j]
    BY <2>1, <2>2 DEF TypeOK, Occupied, IInv
  <2>4. \A s \in Services :
            outcome'[s] = "waiting" => s # h /\ outcome[s] = "waiting"
    BY <2>1 DEF Answers
  <2> QED
    BY <2>1, <2>2, <2>3, <2>4 DEF IdsMatchEntries, WaitingTracked
<1> QED
  BY <1>1, <1>2

\* A tick clears the bits and the entries of the same ids.
LEMMA TimerPInv ==
    ASSUME PInv, TimerEvent
    PROVE  IdsMatchEntries' /\ WaitingTracked'
<1> USE DEF PInv, IInv
<1>0. idsBits = Occupied
  BY DEF TimerEvent, IdsMatchEntries
<1>1. /\ idsBits' = idsBits \ Expired
      /\ outcome' = [s \in Services |-> IF s \in HandlersAt(Expired) \cap awaiting
                                       THEN "timeout" ELSE outcome[s]]
  BY DEF TimerEvent, ReturnIds, ProcessTimeouts, CleanUpServices
<1>2. Expired \subseteq Occupied
  BY DEF Expired, Late, Occupied
<1>3. /\ Occupied' = Occupied \ Expired
      /\ \A i \in Occupied \ Expired : entries'[i].handler = entries[i].handler
  BY TimerEntries
<1>4. ASSUME NEW s \in Services, outcome'[s] = "waiting"
      PROVE  \E i \in Occupied' : entries'[i].handler = s
  <2>1. outcome[s] = "waiting" /\ ~ (s \in HandlersAt(Expired) /\ s \in awaiting)
    BY <1>1, <1>4
  <2>2. PICK i \in Occupied : entries[i].handler = s
    BY <2>1 DEF WaitingTracked
  <2>3. i \notin Expired
    BY <2>1, <2>2 DEF EntriesLive, HandlersAt
  <2> QED
    BY <1>3, <2>2, <2>3
<1> QED
  BY <1>0, <1>1, <1>3, <1>4 DEF IdsMatchEntries, WaitingTracked

\* Every step keeps the invariant.
LEMMA NextPInv ==
    ASSUME PInv, [Next]_vars
    PROVE  PInv'
<1>1. IInv'
  BY NextIInv DEF PInv
<1>2. ASSUME UNCHANGED vars PROVE IdsMatchEntries' /\ WaitingTracked'
  BY <1>2 DEF vars, PInv, IdsMatchEntries, WaitingTracked, Occupied
<1>3. ASSUME NEW m \in sent,
             \/ ReceiveSimpleAck(m) \/ ReceiveComplexAck(m) \/ ReceiveError(m)
             \/ ReceiveReject(m) \/ ReceiveAbort(m)
      PROVE  IdsMatchEntries' /\ WaitingTracked'
  <2>1. TypeOK
    BY DEF PInv, IInv
  <2> QED
    BY <1>2, <1>3, <2>1, AnswerIsDequeue, DequeuePInv
<1>4. ASSUME NEW i \in Ids, NEW d \in Devices, ReceivePeerAbort(i, d)
      PROVE  IdsMatchEntries' /\ WaitingTracked'
  BY <1>4, DequeuePInv DEF ReceivePeerAbort, Answers
<1>5. IdsMatchEntries' /\ WaitingTracked'
  BY <1>2, <1>3, <1>4, SendPInv, TimerPInv DEF Next
<1> QED
  BY <1>1, <1>5 DEF PInv

\* The whole invariant holds in every behaviour.
LEMMA WholeInvariance == Spec => []PInv
  BY InitPInv, NextPInv, PTL DEF Spec

\* Whatever the network delivers, an id handed out has no entry and an id
\* returned was in use: the two assertions of the source hold, for any number of
\* ids, until an unmatched answer ends the program.
THEOREM IdsAgree == Spec => []IdsMatchEntries
<1>1. PInv => IdsMatchEntries
  BY DEF PInv
<1> QED
  BY <1>1, WholeInvariance, PTL

-----------------------------------------------------------------------------
(* Refinement.  The open requests of ConfirmedService are the waiting      *)
(* services; table entries and waiting services correspond one to one.     *)

\* The services with a request under way.
Waiting == {s \in Services : outcome[s] = "waiting"}

\* Cardinality as ConfirmedService's own instance of FiniteSets defines it.
LEMMA SameCardinality == \A S : Service!Cardinality(S) = Cardinality(S)
  BY DEF Service!Cardinality, Cardinality

\* StatusName renames outcomes and merges the kinds of answer.
LEMMA StatusNames ==
    /\ StatusName("fresh") = "new"
    /\ StatusName("waiting") = "open"
    /\ StatusName("refused") = "refused"
    /\ StatusName("timeout") = "timedout"
    /\ \A o \in Answers : StatusName(o) = "answered"
  BY DEF StatusName, Answers

\* The open requests of ConfirmedService are the waiting services.
LEMMA OpenIsWaiting ==
    ASSUME TypeOK
    PROVE  Service!Open = Waiting
<1>1. \A s \in Services : status[s] = StatusName(outcome[s])
  BY DEF status
<1>2. \A o \in Outcomes : StatusName(o) = "open" <=> o = "waiting"
  BY StatusNames DEF Outcomes
<1> QED
  BY <1>1, <1>2 DEF Service!Open, Waiting, TypeOK

\* There are as many waiting services as occupied ids: entries and waiting
\* services correspond one to one.
LEMMA WaitingCount ==
    ASSUME PInv
    PROVE  /\ IsFiniteSet(Occupied)
           /\ Cardinality(Waiting) = Cardinality(Occupied)
<1> USE DEF PInv, IInv
<1>1. IsFiniteSet(Ids) /\ Occupied \subseteq Ids
  BY IdCountAssumption, FS_Interval DEF Ids, Occupied
<1>2. IsFiniteSet(Occupied)
  BY <1>1, FS_Subset
<1> DEFINE f == [i \in Occupied |-> entries[i].handler]
<1>3. f \in [Occupied -> Waiting]
  BY EntryFields DEF EntriesLive, Waiting
<1>4. \A i, j \in Occupied : f[i] = f[j] => i = j
  BY DEF EntriesLive
<1>5. \A s \in Waiting : \E i \in Occupied : f[i] = s
  BY DEF WaitingTracked, Waiting
<1> HIDE DEF f
<1>6. f \in Bijection(Occupied, Waiting)
  BY <1>3, <1>4, <1>5 DEF Bijection, Injection, Surjection, IsInjective
<1> QED
  BY <1>2, <1>6, FS_Bijection DEF ExistsBijection

\* A free id means fewer than IdCount open requests; none means IdCount.
LEMMA FreeIdMeansRoom ==
    ASSUME PInv, running
    PROVE  IF FreeIds # {} THEN Cardinality(Waiting) < IdCount
                           ELSE Cardinality(Waiting) >= IdCount
<1>1. IsFiniteSet(Ids) /\ Cardinality(Ids) = IdCount
  BY IdCountAssumption, FS_Interval DEF Ids
<1>2. Occupied \subseteq Ids /\ (FreeIds # {} <=> Occupied # Ids)
  BY DEF PInv, IdsMatchEntries, FreeIds, Occupied
<1>3. /\ Cardinality(Occupied) <= IdCount
      /\ Cardinality(Occupied) = IdCount => Occupied = Ids
  BY <1>1, <1>2, FS_Subset
<1>4. Cardinality(Occupied) \in Nat
  BY WaitingCount, FS_CardinalityType
<1> QED
  BY <1>1, <1>2, <1>3, <1>4, WaitingCount, IdCountAssumption

\* The initial states map to the initial state of ConfirmedService.
LEMMA RefineInit == Init => Service!Init
  BY StatusNames DEF Init, Service!Init, status

\* Every step maps to a step of ConfirmedService or leaves its state alone.
LEMMA RefineStep ==
    ASSUME PInv, PInv', [Next]_vars
    PROVE  [Service!Next]_Service!vars
<1>0. TypeOK /\ TypeOK'
  BY DEF PInv, IInv
<1>1. ASSUME NEW s \in Services, Send(s) PROVE Service!Next
  <2>1. running /\ UNCHANGED running /\ status[s] = "new"
    BY <1>1, StatusNames DEF Send, status
  <2>2. CASE FreeIds = {}
    <3>1. outcome' = [outcome EXCEPT ![s] = "refused"]
      BY <1>1, <2>2 DEF Send
    <3>2. status' = [status EXCEPT ![s] = "refused"]
      BY <1>0, <3>1, StatusNames DEF status, TypeOK
    <3>3. Service!Cardinality(Service!Open) >= IdCount
      BY <1>0, <2>1, <2>2, FreeIdMeansRoom, OpenIsWaiting, SameCardinality
    <3> QED
      BY <2>1, <3>2, <3>3 DEF Service!Next, Service!Refuse
  <2>3. CASE FreeIds # {}
    <3>1. outcome' = [outcome EXCEPT ![s] = "waiting"]
      BY <1>1, <2>3 DEF Send
    <3>2. status' = [status EXCEPT ![s] = "open"]
      BY <1>0, <3>1, StatusNames DEF status, TypeOK
    <3>3. Service!Cardinality(Service!Open) < IdCount
      BY <1>0, <2>1, <2>3, FreeIdMeansRoom, OpenIsWaiting, SameCardinality
    <3> QED
      BY <2>1, <3>2, <3>3 DEF Service!Next, Service!Accept
  <2> QED
    BY <2>2, <2>3
<1>2. ASSUME UNCHANGED vars PROVE UNCHANGED Service!vars
  BY <1>2 DEF vars, Service!vars, status
<1>3. ASSUME running, NEW i \in Ids, NEW d, NEW svc, NEW result \in Answers,
             DequeueConfirmedRequest(i, d, svc, result)
      PROVE  Service!Next
  <2>1. CASE ~ Matches(i, d)
    <3>1. running' = FALSE /\ UNCHANGED status
      BY <1>3, <2>1, UnmatchedAnswer DEF status
    <3> QED
      BY <1>3, <3>1 DEF Service!Next, Service!Stop
  <2>2. CASE Matches(i, d)
    <3> DEFINE h == entries[i].handler
    <3>1. /\ h \in Services /\ outcome[h] = "waiting"
          /\ outcome' = [s \in Services |-> IF s = h THEN result ELSE outcome[s]]
      BY <1>3, <2>2, MatchedAnswer DEF PInv
    <3>2. UNCHANGED running
      BY <1>0, <1>3, <2>2, MatchedAnswer DEF PInv, TypeOK
    <3> HIDE DEF h
    <3>3. status' = [status EXCEPT ![h] = "answered"] /\ status[h] = "open"
      BY <3>1, StatusNames DEF status
    <3> QED
      BY <1>3, <3>1, <3>2, <3>3 DEF Service!Next, Service!Answer
  <2> QED
    BY <2>1, <2>2
<1>4. ASSUME TimerEvent PROVE [Service!Next]_Service!vars
  <2>0. running /\ UNCHANGED running
    BY <1>4 DEF TimerEvent
  <2> DEFINE S == HandlersAt(Expired)
  <2>1. S \subseteq Waiting /\ S \subseteq awaiting
    BY <1>0, EntryFields
    DEF HandlersAt, Expired, Late, Occupied, Waiting, PInv, IInv, EntriesLive
  <2>2. outcome' = [s \in Services |-> IF s \in S THEN "timeout" ELSE outcome[s]]
    BY <1>4, <2>1 DEF TimerEvent, ProcessTimeouts, CleanUpServices
  <2> HIDE DEF S
  <2>4. status' = [s \in Services |-> IF s \in S THEN "timedout" ELSE status[s]]
    BY <2>2, StatusNames DEF status
  <2>5. CASE S = {}
    BY <2>0, <2>4, <2>5 DEF status, Service!vars
  <2>6. CASE S # {}
    BY <1>0, <2>0, <2>1, <2>4, <2>6, OpenIsWaiting
    DEF Service!Next, Service!TimeOut, Waiting
  <2> QED
    BY <2>5, <2>6
<1>5. ASSUME NEW m \in sent,
             \/ ReceiveSimpleAck(m) \/ ReceiveComplexAck(m) \/ ReceiveError(m)
             \/ ReceiveReject(m) \/ ReceiveAbort(m)
      PROVE  [Service!Next]_Service!vars
  BY <1>0, <1>2, <1>3, <1>5, AnswerIsDequeue
<1>6. ASSUME NEW i \in Ids, NEW d \in Devices, ReceivePeerAbort(i, d)
      PROVE  Service!Next
  BY <1>3, <1>6 DEF ReceivePeerAbort, Answers
<1> QED
  BY <1>1, <1>2, <1>4, <1>5, <1>6 DEF Next

\* Whatever the network delivers, the TSM is a pool of IdCount concurrent
\* requests until the program ends: it turns a request away only when IdCount
\* are open, and concludes each once.
THEOREM RefinesConfirmedService == Spec => Service!Spec
<1>1. PInv /\ PInv' /\ [Next]_vars => [Service!Next]_Service!vars
  BY RefineStep
<1> QED
  BY RefineInit, <1>1, WholeInvariance, PTL DEF Spec, Service!Spec

=============================================================================
