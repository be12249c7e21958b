# Verification of proto-gateway

TLA+ modules, TLC runs and TLAPS proofs for the BACnet gateway in `src/`. The
gateway offers the points of other protocols (SNG) as BACnet objects, and reads
and writes the points of remote BACnet devices as a client. It is one process
with one Qt event loop: every slot (a datagram, a timer tick, a socket read) runs
to its end before the next one starts. Concurrency is that of events: requests
under way while answers, ticks and other requests arrive in any order.

## Inventory

| component | state it keeps | operations | what makes it correct | status |
|---|---|---|---|---|
| Transaction state machine (`bacnettsm2`, `invokeidgenerator`) | id bits, table of confirmed requests by invoke id | send, five kinds of answer, timer | an entry's service is alive; no id is lost; exact retries; each request ends once | `Tsm`, proved |
| Application layer (`bacnetapplicationlayer`) | awaiting services, device and object routes | send, process ack/error/reject/abort/timeout, register | a service is told once and deleted once | in part, in `Tsm` and `Discovery` |
| Discovery (`discoverywrapper`, `routingtable`, `remoteobjectstodevicemapper`) | wrappers by device number, addresses of devices, devices of objects | send, I-Am, I-Have, tick | a service goes to its device's address or is told; configured addresses stand; tables stay bounded | `Discovery`, proved |
| Data model (`datamodel/`) | asynchronous ids with their time and requester, subjects with values and observers | generate, release, finish, timer, set, get | an id belongs to one operation; results reach their requester; observers know the value | `AsynchActions` and `Objects`, proved |
| Internal objects (`internal/`, `bacnetobject`, `bacnetdeviceobject`) | hash of waiting request handlers, devices, objects, properties | execute, propertyIoFinished | each BACnet client is answered once, with a value that was there, and a write is acknowledged when done | `AsynchActions` and `Objects`, proved |
| External objects (`external/`) | property mappings, read strategies, COV process ids | get, set, timed jobs, subscribe, notification | while the ids fit their octet, one belongs to one mapping; the value shown catches up with the remote one | `CovClient` and `Objects`, proved |
| COV server (`covsupport`, `covsubscriptionstimehandler`) | subscriptions with lifetimes and increments | subscribe, cancel, value change, tick | subscribers hear of changes until their lifetime ends | not modelled: no subscription can exist |
| Network layer (`bacnetnetworklayer`) | routes to networks by port | who-is-router, I-am-router, reject, sendApdu | one route per network, which leads to it; one answer to a question | `Routing`, proved |
| Virtual link layer, BBMD (`bacnetvirtuallinklayer`, `bacnetbbmdhandler`) | broadcast and foreign-device tables | unicast, broadcast; read/write table, forward, distribute | every frame begins with its header | in part, in `Routing`; no BBMD handler is ever created |
| SNG connection (`sng/SNGConnectionManager`) | socket, object addresses, frame buffer | send, read, reconnect | calls return; at most one reconnection is under way; the connection is made again after an error that is noticed | `SngConnection`, proved but for liveness |
| SNG properties (`sng/sngsimple...`) | values | written, received, told | property, device and light agree | `SngConnection`, proved of the property |
| Encoding (`bacnettagparser`, `bacnetprimitivedata`, `bacnetpci`, `bacnetnpci`, `applayer/*data`) | none | toRaw, fromRaw of every message | what is read is what was written | `Encoding`, `NetworkHeader`, `Messages`, `Announcements`; headers, and questions with their answers, proved |
| Configuration (`factories/bacnetconfigurator`) | what the other components start from | one pass over the file at start | every element configured is there once, or was left out | `Configuration`, used by `Objects` |
| Value conversion (`datamodel/propertyconverter`, `propertywithconversionobserver`) | none | convert for the observer, convert for the subject | what is written is read back; the bits outside a mask are kept | `Conversion`, used by `Objects` |
| Transport, buffers, old code | | | | not modelled: pure I/O, not compiled |

How they interact. A client's ReadProperty or WriteProperty reaches the application
layer through the TSM, which makes an `InternalRPRequestHandler` or
`InternalWPRequestHandler` and executes it. The object asks its property, the
`PropertySubject` asks its owner. An external owner takes an asynchronous id from
`DataModel`, hands a confirmed service handler to the application layer and
returns the id; the handler of the client then waits in
`InternalObjectsHandler::_asynchRequests`. The application layer finds the
device's address (by discovery if need be) and passes the service to the TSM. The
answer, or the TSM's timer, calls the service handler, which calls
`PropertySubject::asynchActionFinished`, which calls the waiting handler, which
answers the client. Each hand-over is by id or raw pointer, and three timers (TSM,
application layer, data model) run against the answers.

The behaviours that are hard to test are listed in `PROJECT.json` under
"hazards", each at its line with the properties that would catch it.

## Build facts the models rest on

* `CMakeLists.txt:286` sets `-DQT_NO_DEBUG`: `Q_ASSERT` is compiled out. The models
  describe the code with no assertion; `cov_wrap` checks what one claims.
* `Q_CHECK_PTR` is not removed by `QT_NO_DEBUG`: in Qt 4 with exceptions it throws
  `std::bad_alloc` for a null pointer, which nothing catches. `running` in `Tsm` and
  `AsynchActions` becomes FALSE there. Discovery's undefined behaviour may end the program
  too; the other modules are about a program that runs on.
* `BacnetNetworkLayerHandler::findDestinationForAddress` refuses the gateway's own
  virtual network, so `sendApdu` never delivers to the application layer from
  within a send: handlers do not nest.
* Every service handler returns `DeleteServiceHandler` from each of its callbacks,
  so the branches for `ResendService` and `DoNothing` are not reachable and are
  left out.

## Modules

### `Tsm` (with `ConfirmedService`)

The client half of `BacnetTSM2` with `InvokeIdGenerator`, and the application
layer's `_awaitingConfirmedServices`.

| TLA+ | code |
|---|---|
| `running` | becomes FALSE when an answer meets no entry: `Q_CHECK_PTR(service)` (`bacnettsm2.cpp:173`, 201, 252, 270, 286) comes before the test for 0 |
| `idsBits` | `InvokeIdGenerator::_idsBits`, as the set of bits that are set |
| `entries` | `_confiremedEntriesList` by invoke id; `dst` stands for both addresses, `timeLeft` is 0 or `RequestTimeout` |
| `awaiting` | `_awaitingConfirmedServices`, a set since each service is sent once |
| `outcome` | what the service's callbacks have told it |
| `sent`, `copies`, `answerTo` | history: what reached the network, how often `send_hlpr` was called, whose answer a service got |
| `Send` | `BacnetApplicationLayerHandler::send`, `BacnetTSM2::send`, `queueConfirmedRequest`, `send_hlpr` |
| `Receive...` | the branches of `BacnetTSM2::receive`, with `dequeueConfirmedRequest`, `process...` and `cleanUpService` |
| `Matches`, `Look`, `Tell` | in these, whether the entry under the id is found and addressed to the sender; the id returned and the pointer checked; the service told |
| `ReceivePeerAbort` | the same Abort branch for a transaction of the peer's: the sent-by-server bit is never looked at |
| `TimerEvent` | `timerEvent` with `processTimeout`; the table is visited in hash order, which cannot matter as no entry's step reads another's |

The server half (`sendAck`, `sendError`, `sendAbort`) keeps no state. Segmented
answers are turned down by `receive` and leave the request open
(`ReceiveComplexAck`, second disjunct); an Abort sent to the peer may draw no
answer. The network holds every datagram ever sent and may answer it at any time,
any number of times, or never: that covers loss, duplication and reordering. An answer
that meets no open request ends the program, one that meets a later request under its
id, from the same device, is taken for that one's.

`ConfirmedService` is the promise: at most `IdCount` requests are open, one is
refused only when that many are, and an open one is concluded once. `Tsm`
implements it by the mapping `up <- running`, `status <- status`, whatever the network does:
the promise is for as long as the program runs.

### `AsynchActions`

| TLA+ | code |
|---|---|
| `timeLeft` | `DataModel::_asynchIdStates[].timeLeft`, indexed from 0; ids are index + 1 |
| `operations` | the remote reads and writes under way: external service handlers with their `_asynchId` |
| `asynchRequests` | `InternalObjectsHandler::_asynchRequests`, index 0 included because the timer calls with it |
| `reply` | what each BACnet request has answered |
| `running` | becomes FALSE when a handler that is not there is called (`internalobjectshandler.cpp:36-37`), or an operation's requester (`Q_CHECK_PTR`, `propertysubject.cpp:145`) |
| `Request` | `InternalRP/WPRequestHandler::execute` down to the owner: `Execute` when an id is taken, `ExecuteAtOnce` when the client is answered within the call |
| `OperationFinished` | the service handler's `handleAck/Error/Abort/Reject/Timeout`, then `PropertySubject::asynchActionFinished` |
| `OperationForgotten` | a service that was refused an invoke id, or found no own address: nobody calls it |
| `TimerEvent` | `DataModel::timerEvent`, with the 0-based index passed to the receivers and the wrap-around of `int` |

Two abstractions. One request takes one id, and which property it goes to is
`Objects`' subject: an array too stops at its first asynchronous element. And an operation under
way is never there at its second tick: the data model's period is 200 s
(`cdm.cpp:18`, `cdm.h:77`) and the TSM gives up within seconds, so that the guard
of `TimerEvent` excludes it. An operation that is *forgotten* leaves its
id, and the timer meets that one.

### `Discovery`

What happens to a confirmed service before the TSM sees it.

| TLA+ | code |
|---|---|
| `mapper` | `RemoteObjectsToDeviceMapper::_mapperTable`, configured objects only |
| `static`, `dynamic` | the two tables of `RoutingTable`; an entry's size and segmentation are left out |
| `key`, `asked` | `_awaitingDiscoveries`: the key of each service's wrapper, and the keys with a null wrapper |
| `freed` | services whose wrapper was deleted while its entry stayed in the hash |
| `outcome`, `sent` | what became of the service: "sent" is handed to the TSM for that address |
| `announced` | history: addresses configured or heard of |
| `Send` | `BacnetApplicationLayerHandler::send(object, ...)` with `findEntry` of both tables and `discover` |
| `IAm`, `IHave` | `registerDeviceFromDiscovery`, `registerObjectFromDiscovery`, called for every such message, asked for or not |
| `TimerEvent` | the application layer's 1 s timer with `ConfirmedDiscoveryWrapper::handleTimeout` |

`it = erase(it); delete it.value()` (lines 385-386 and 418-419 of
`bacnetapplicationlayer.cpp`) deletes the wrapper of the entry that *follows* the
concluded one. `DeleteFollower` chooses that entry freely, as the order of the
hash is arbitrary. A freed wrapper that is used or freed again, or a wrapper read at
the end of the hash, is undefined behaviour: the step goes on as if the memory
were intact or ends the program (`running`). Corruption beyond that is
outside the model, and so the properties of the passing run say what holds until then.

The configurator's registrations are the initial state. When there are more objects
than the mapper takes, each further one evicts a random entry, so that any set of
`MapperSize + 1` objects may be left. An I-Have is for an object that is no
device: the gateway asks for nothing else.
`sendUnconfirmedWithDiscovery` has no caller and `discover` is never called with
`forceToHave`, so wrappers of unconfirmed services and null entries under an
object's number do not occur.

### `CovClient`

The timer of `ExternalObjectsHandler` with the read strategies of
`externalobjectreadstrategy.cpp`, one of which each mapping has.

| TLA+ | code |
|---|---|
| `subscribedCovs`, `lastKey` | `_subscribedCovs` by process id, `_lastProcIdValueUsed`, which grows without end; a key is sent modulo 256 (`SentId`), and `KeysFit` says that none was cut so far |
| `strategy` | each strategy's `_timeToAction_ms`, `_subscriptionId` and error flag |
| `shown` | the mapped property's value |
| `net` | requests, acknowledgements and notifications under way: taken in any order, lost, late |
| `remote`, `leases` | the devices, external: values, and subscriptions they hold and may forget (a fault, as a loss or a refusal is) |
| `TimerEvent` | one tick: every strategy that is due reads or subscribes, in the order of the jobs; the application layer may refuse any of them |
| `SubscriptionAcknowledged`, `SubscriptionEnds` | `SubscribeCOVServiceHandler::handleAck`, and `handleError/Abort/Reject/Timeout` |
| `CovValueChangeNotification`, `ReadFinished` | a notification by its process id; a polled read's answer |

The guards of `UnderWay` and `MaxOpen` leave room for one request per mapping in
the run; the proofs hold for any number. `MaxKey` bounds the keys of a run, and
`KeysAssumption` demands that it lies beyond the octet, so that the timer is not
stopped before every mapping could take a key that is cut. A renewal whose entry another
mapping's request erased dereferences `end()` (`externalobjectshandler.cpp:237`): the
model goes on as if that were an entry of somebody else.

### `Routing`

The network layers of several gateways, with the datagrams between them. A
datagram under way may be lost and is read in any order; gateways start in any
order and may crash, after which only configured routes are left. Foreign routers
announce networks that roam, ask, and reject.

| TLA+ | code |
|---|---|
| `via[g][p][n]` | `indirectNetworkAccess` of the routing entry of port p: the router to network n |
| `Start`, `Crash` | the first event after `BacnetProtocolInterface` is configured, with its announcement; the end of the process |
| `SendApdu` | the application layer's request: sent along a route, or a Who-Is-Router on every port if there is none |
| `ProcessWhoIsRouter`, `ProcessIAmRouter`, `ProcessReject` | the handlers of these messages; `MisreadNetwork` is the number that Reject is taken to name |
| `ReadApdu`, `Discard` | delivery to the virtual network or forwarding; what is ignored |
| `FramedKind`, `BroadcastApdu` | `sendNpdu` for a broadcast, whose gap is closed the wrong way |

`Beyond` and `TopologyAssumption` say that the wiring has no loop, which BACnet
demands of an installation.

### `SngConnection`

One TCP connection to a communication server, and the actors and sensors that tie
properties to its addresses. A frame is handed to the listeners inside the
gateway too, and each may write and send within the call: `todo` is the stack of
these nested calls, whose head runs next; no event happens until it is empty.

| TLA+ | code |
|---|---|
| `link`, `timers` | the socket's state, "Lost" when it is gone and the error was passed over; reconnections scheduled by `QTimer::singleShot` |
| `wire`, `unread` | external: what the server sent; the frames the socket holds. `ReadFrame` returns at a keep-alive or an invalid frame and leaves the rest |
| `value` | the value of each actor's property |
| `device`, `led`, `seen`, `lost`, `dirty` | external devices, and history for the properties |
| `Dispose`, `Send`, `Written` | handing a frame to the listeners of its address but the sender; writing it to the socket, ignored if there is no connection |
| `ActorReceives`, `SensorReceives`, `Requested`, `Changed` | the callbacks of the elements and `PropertySubject::setValueInstantly`, which tells all observers but the requester |
| `Error`, `ConnectToHost`, `Connected` | `handleError`, which schedules a reconnection or, for an error of another kind that comes while the socket still looks open and valid, returns before that (`connectionmanager.cpp:399-404`); the reconnection and its end |

### `Encoding`, `NetworkHeader`, `Messages`

The codec, octet by octet. `Encoding` has tags and primitive data, `NetworkHeader`
the NPDU's header, `Messages` the APDU's headers and each service's data.
`Write(m, x)` puts message `m` into a buffer whose octets hold `x` from an
earlier use; `Read` decodes it as the receiver does, with the verdict "accepted",
"refused" or, for a list whose end is not met, "stuck". What comes back is
compared with what was sent. `carried` names the values that the encoding does
*not* carry; each is a place where the code loses something (see Observations).

### `Announcements`

How the gateway's devices are found. A message of `Messages` is handled, and each
answer goes through a buffer of its own and is read by the one who asked.

| TLA+ | code |
|---|---|
| `Devices` | `InternalObjectsHandler::_devices` with their child objects, themselves included |
| `whoIsAnswers`, `whoHasAnswers` | `execute` of `InternalWhoIsRequestHandler` and `InternalWhoHasRequestHandler`, each answer with the place of its device in the map |
| `due` | the answers still to be sent: `execute` sends one after the other, in the order of the devices |
| `Ask`, `Answer`, `Hear`, `Handle` | a message written by another device; an answer written; either read; its buffer given back, and the answers made by `processUnconfirmedRequest` |
| `asked`, `heard` | history, for the property |

What devices and questions may be is assumed (`DevicesAssumption`,
`QuestionAssumption`). A limit of a Who-Is may lie above all instance numbers, but stays
below 2^31: the property is about limits that four octets carry as they are.

### `Conversion`, `Configuration` and `Objects`

`Conversion` has the types of values and the three converters an observer may
have: `Universal`, `Scaled` and `Masked` are the `convertFromInternal` and
`convertToInternal` of the classes in `propertyconverter.cpp`, and `FromInternal`
and `ToInternal` apply the one an observer was made with. A scaling factor is a
fraction; bits are those of a number.

`Configuration` is a function from the elements of the file to what
`BacnetConfigurator` makes of them, in its order, with its refusals: subjects of
the data model, devices with objects and properties (simple, proxy, array, the
defaults of an object type), and the mappings of external subjects.

`Objects` starts from that and models the way of a request: from the application
layer through device, object, property and subject to the remote device and back.

| TLA+ | code |
|---|---|
| `Layer` | what the configurator built; `LayerAssumption` says it is `ApplicationLayer(Config)` |
| `value` | `PropertySubject::_value`; `Null` until it is set |
| `waiting` | an operation by asynchronous id: `PropertySubject::_asynchRequesters` and `InternalObjectsHandler::_asynchRequests` |
| `polls` | a periodic read under way |
| `remote` | external: the remote properties |
| `client`, `said`, `told` | the request each client waits for; an acknowledgement this step sent, if its request named a proxy; what each observer knows |
| `ProcessConfirmedRequest` | the function of that name with `ExecuteRead` and `ExecuteWrite`: an answer within the call (`AnswerAtOnce`), a value stored within the call (`Store`), or an operation started (`Start`) |
| `ReadAnswered`, `WriteAnswered`, `ReadFailed`, `WriteFailed` | the callbacks of the external service handlers, with `asynchActionFinished` of subject, property and request handler |
| `PollSent`, `PollAnswered`, `PollFailed` | `SimpleWithTimeReadStrategy` and what its answer sets |
| `SetValue` | the other protocol sets a subject |

## Runs

All runs but `objects` and `codec` set `CHECK_DEADLOCK FALSE`: callers may stop
sending, and once every request has been served nothing is left to do.

| run | question | result |
|---|---|---|
| `tsm` | with lost, late, repeated and misaddressed answers and peers' own aborts, is it a pool of confirmed requests for as long as it runs? (3 services, one of which never fits a buffer, 2 devices, 2 ids, 3 tries) | passes: `EntriesLive`, `AnswersFromOwnDevice`, `IdsMatchEntries`, `TimeoutIsFinal`, `WaitingEnds`, `ImplementsConfirmedService` |
| `tsm_late` | is an answer to a request that timed out "not an error", as the comments at `bacnettsm2.cpp:173` and its like say? | violated: `Q_CHECK_PTR` in the same line ends the program |
| `asynch_served` | with every result reported, does each client get its own, once? (4 requests, 3 ids, a 4-bit int) | passes: `RightWaiter`, `NeverCrashes`, `AnswersFinal`, `ClientsAnswered` |
| `asynch_forgetful` | what holds when results are lost? | passes: `HandlersLive` |
| `discovery` | do services reach their device through full tables, unasked answers and wrappers freed too early? (3 services, 2 objects, 3 devices of which one is configured, room for one entry in each table) | passes: `SentWhereAnnounced`, `ConfiguredKept`, `AnswerRemembered`, `DiscoveryEnds` |
| `routing` | do three gateways in a row, with a roaming foreign router, learn and keep routes through late starts, a crash, a loss or a rejection? | passes: `OneRoutePerNetwork`, `RoutesLeadOnward`, `OneAnswerer`, `RoutesFound`, `NeighboursReached` |
| `routing_broadcast` | does every frame begin with its link header ("create original-broadcast and send it", `bacnetvirtuallinklayer.cpp:366`)? | violated: a broadcast APDU's is lost at line 375 |
| `cov_client` | do two subscriptions to one device that forgets, with two faults, keep their entries apart and the values shown up to date while their keys fit, and what holds beyond? | passes: `RenewalFindsEntry`, `EntriesKeptApart`, `ShownWasRemote`, `CaughtUp` |
| `cov_wrap` | does the end of a request only meet its own entry, as `externalobjectshandler.cpp:305` asserts? | violated: a key that no longer fits is sent as another mapping's |
| `sng` | two actors and three sensors, a broken connection, frames behind keep-alive frames: do properties, devices and lights agree, and do nested calls return? | passes: `TypeOK`, `ValueOnBus`, `OneReconnection`, `Reconnects`, `CallsReturn`, `LedFollows` |
| `codec` | which messages come back as sent, and what does one hear who asks for devices or objects? (every service, values at the edges of their widths, three old contents of the buffer; three devices) | passes: `Delivered`, `HeadersKept`, `NothingInvented`, `ListKept`, `QuestionsAnswered` |
| `objects` | are clients of a configured device answered with fresh values, once, and observers kept informed, while two clients, polls, the remote device and the other protocol interleave? | passes: `TypeOK`, `FreshAnswers`, `ObserversCurrent`, `WaitersHeld`, `WritesDone` |

Bounds. Two invoke ids with three services let ids run out, be reused by
the same device and by another. Three tries (the code's `DefaultRetryCount`)
separate first, middle and last transmission. A tick takes the whole timeout from
an entry, so that `RequestTimeout = 1` loses nothing. Four requests over three
asynchronous ids let them run out, be reused and be hit by the timer as
neighbours; the int of 4 bits holds the timeout more than twice, as the code's does,
and the wrapped value of a leaked id is far above it. The ids of the code
(256 and 255) and its 32-bit int are covered by the proofs, which do not depend
on the bounds. In `Discovery` the sizes are 0: as the code compares with `<=`,
each table then takes one entry, and with two devices and two objects to compete
for it every branch of the additions is taken. Two services look for the same device,
which is what makes the wrong deletion hit one that is still needed. A third
device has a configured address that announcements contradict.

In `routing` the middle gateway has a neighbour on either side, so that routes of
two hops are learned and turned round; one fault and one datagram at a time that
senders add to (`MaxFaults`, `MaxAir`; what handlers send is not bounded) let a
crash, a loss or a rejection meet every state of the tables. In `cov_client` the
two mappings are of one object, one polls after a refusal and one does not; process
ids have a modulus of 4, keys go up to 5 and there are two faults (a loss, a refusal, a
lapsed subscription), so that every failure happens while the keys fit, and requests,
renewals and late notifications are met by keys that were cut; only the second mapping's
value changes, so that a notification that reaches the first shows. In `cov_wrap` the modulus
is 3. In `sng`
two sensors share the address they send to and the one that lights them, so that
each hears the other; a byte has one bit and values go up to 2, so that
truncation is met; three frames let one hide behind a keep-alive frame. In `codec`
the octets, widths and lengths are the code's own; only the messages and devices are chosen. Two of the
devices have an object of one identifier and two one of one name; the ranges asked for
begin or end at an instance of theirs.
In `objects` two clients and two asynchronous ids contend for one remote property
that is read on demand, by a poll, as a proxy of two objects and as an array
element, beside a simple element and two that mask one bit each of a subject that the other
protocol sets. Two objects read the remote property through a converter, one
scaling by 2, one universal. The
run has 15 requests (each kind of property, with and without an index, unknown
ones, wrong types) and 72,240 states up to exchanging clients and ids. Exhausted
ids are not met there; they are in `asynch_served`.

Fairness. `Tsm!FairSpec` has `WF_vars(TimerEvent)`: the `QBasicTimer` is started in
the constructor and never stopped. Nothing is assumed of callers, peers or the
network. `AsynchActions!FairSpec` assumes that every operation under way ends,
which is what `WaitingEnds` says of a queued request for as long as the program runs. A
request that is refused an invoke id hears nothing: the run `asynch_forgetful` has
such operations, and states no liveness; their client waits until the data model's timer.
`Discovery!FairSpec` has `WF_vars(TimerEvent)`, the timer started at
`bacnetapplicationlayer.cpp:29` and never stopped; no answer is assumed to come.
`Routing!FairSpec`: a gateway is started in the end (weak), datagrams that stay
under way are read (weak, by receiver, sender and kind; losing them counts as a
fault and is bounded), and an application repeats a request that it can send again
and again (strong: that it can is interrupted by the bound `MaxAir`).
`CovClient!FairSpec`: the timer (started in the handler's constructor) ticks and
messages under way are taken or lost; only finitely many are lost or refused, and
subscriptions forgotten (`MaxFaults`).
`SngConnection!FairSpec`: nested calls run, received data are read, and a scheduled
reconnection is made (weak); a connection attempt that is repeated succeeds in the
end, devices report, and the server's keep-alive frames come (strong, of the
environment: without them `LedFollows` fails, as frames stay unread until
something more arrives). `Objects` and `Messages` state no liveness.

Each property of a passing run has a mutant, an operator beside the definition
it replaces (its comment begins "A bug:"), that breaks it.

## Proofs

Proved by TLAPS for every value of the constants that meets the named
assumptions.

* `TsmProofs`: `IInv` is inductive with no assumption about the network. It adds
  `RetryBudget` and `EntriesAddressed` to `EntriesLive`, `UsedIdsHaveEntries` and
  `TypeOK`. The budget is needed for `copies` to stay within
  `RetriesCount`, and the outcome in `EntriesLive` for a new service to be in no
  entry. Theorems: `TypeCorrect`, `NoDanglingEntry`, `NoIdLost`, `BudgetKept`, the
  action property `ToldOnceAlways`, and `AnsweredByOwnDevice`: for all the
  mix-ups a late answer may cause, a service is answered by its own device, since
  an entry is addressed to its service's device whatever its id was used for before.
* The second half of `TsmProofs`: `PInv` adds `IdsMatchEntries` and
  `WaitingTracked` to `IInv`; neither is inductive alone. An answer from the wrong address
  clears the bit of an entry that stays, and `IdsMatchEntries` survives it only because
  that answer also ends the program: with the check of the pointer removed, the
  next request would replace the entry (the mutant `DequeueConfirmedRequestUnchecked`). From
  `PInv` follow `IdsAgree` and `RefinesConfirmedService`: the initial state maps to the
  abstract one and each step to a step or a stutter. The counting argument behind
  Accept and Refuse is that waiting services and occupied ids are in bijection
  (`WaitingCount`). Neither theorem assumes anything of the network.
* `AsynchProofs`: `HInv` (types and `HandlersLive`) is inductive always;
  `OInv`, which relates operations, ids, handlers and replies, is inductive when
  results are reported (`~ OwnersForget`). Its `LowTimesOwned` is what the leaked ids
  need: their time has wrapped far above the timeout, so that the timer never
  acts on them; without it a tick might call a null handler. Theorems:
  `AsynchTypeCorrect`, `HandlersAlwaysLive`, `ResultsReachTheirClient`,
  `WaitersAlwaysServed`, `CrashFree`, `AnswersAlwaysFinal`.

* `DiscoveryProofs`: `DInv` adds `RoutesAnnounced` (what the tables hold was
  configured or announced) and `LookedForUnconfigured` to the types and
  `SentWhereAnnounced`. The last of them carries `ConfiguredKept`: the code
  would let a forced answer overwrite a configured address, and only because
  nobody ever looks for a configured device is no answer forced for it.
  Theorems: `DiscoveryTypeCorrect`, `DiscoverySendsRight`, `ConfigurationStands`,
  `AnswersRemembered`, and `TablesAlwaysBounded`, which counts entries through the
  eviction of a victim.

* `CovClientProofs`: `IInv` has two parts. `Sound` holds always: types, no key above
  `lastKey` in use, and values under way and shown are ones their property had (`ValuesHeld`,
  `ShownWasRemote`). `Own` holds while the keys fit: whatever names a key that has an entry
  (a strategy, a message under way, a subscription in a device) belongs to the
  entry's mapping. The step that takes a key beyond the octet needs only the first part,
  and no step makes keys fit again; so `IInv` is inductive with any number of keys and of
  requests under way. That a value is right although its entry may be another's rests on
  `CovValueChangeNotification` looking for the value by its property. Theorems:
  `CovInvariance`, `CovTypeCorrect`, `RenewalsSafe`, `OwnEntriesMet`, `ShownValuesOwn`, none with
  a hypothesis.
* `RoutingProofs`: `IInv` is `OneRoutePerNetwork` and `RoutesLeadOnward` with
  the soundness of announcements under way (`AirSound`): a gateway announces on a port
  only what the wiring puts behind it there. For any wiring without loops, any
  losses, crashes and foreign routers: `TypeCorrect`, `RoutesUnique`, `RoutesOnward`,
  `AtMostOneAnswer`.

* `ObjectsProofs`: `Inv` is `ObserversCurrent` and `FreshAnswers` with `Waits`: each
  operation under way has a client of its own, is done by the proxy the client named or
  by an element of the array it named (`Apt`), and the client has seen what the remote
  property holds, or held when it was read (`SeenBy`). The lemmas before it follow a
  request down through object, array and proxy: `ReadApt` says that a remote property
  is not answered for at once and what is answered after the operation, `WriteApt`
  what is stored or started. They use nothing of the configuration but
  the named assumptions: `ProxyAssumption`, `KindAssumption` (what kinds of properties
  there are), `OwnedAssumption` (a subject a proxy holds is not mapped to a
  remote one), `ShadowAssumption` (no proxy has a name that objects answer for
  themselves), `AskAssumption` (which requests get this far), `ForeignAssumption` and
  `NumbersAssumption` (a subject's numbers are what conversions of values written or
  received make). Theorems: `InvHolds`, `ObserversKnow`, `WaitersMatch`, `ReadsAreFresh`,
  and the action property `WritesReach`: the part of `WritesDone` that is about remote
  properties being set before they are acknowledged.

  `Typed` is inductive relative to `Inv`: what is told to an observer has a type because
  it is the subject's value (`ObserversCurrent`), and what an operation carries because
  of what `WriteNumber` says a write starts with. `TypesHold` follows.

  `WritesAreDone` is the whole of `WritesDone`, by `AllKept`: a write under way carries a
  number that is read back as what was written, and once it was served its client has
  seen that number in the remote property. It has one hypothesis, `GivesBack`: the
  converters of the proxies return what was written through them, and a mask leaves
  what disjoint masks show. Whether they do is up to the configuration, since a scaling
  converter rounds; `MCObjects` has TLC evaluate `GivesBack` for the configuration of
  the run. What the theorem adds is that no polls, results, and writes of others
  in between undo this. `WritesReach` needs no hypothesis.
* `SngProofs`: `OneReconnection`, that a reconnection is scheduled once if a noticed error
  left the gateway without a connection and not otherwise, is inductive with `NothingLeft`, which says that
  without a connection there is no frame on the wire or at the socket. `GateInv` is
  about the nested calls: all calls on `todo` carry one byte (`Wave`), the call that
  reads the next frame is the last of them, and an actor whose property does not have the
  byte last on its address is still called with it. The last part is not inductive alone,
  as a call that carries an older byte would undo it. Sending starts a wave or continues
  the same one (`SendWave`), because each listener passes on the byte it was given.
  That `Dispose` calls all listeners rests on `PlacesFill`: elements of different rank
  have the places 1 to n. Assumed are `ElementsAssumption` (finitely many elements,
  ranked in the order they were registered) and `NumbersAssumption`. Theorems:
  `OneTimer`, `FramesEnd`, `GateInvariance`, `TypeCorrect`, `ValuesOnBus`.

* `CodecProofs`: for every header, every octet string that begins with it is read
  back as that header, with one hop less if it has a destination network
  (`HeaderRoundTrip`); addresses and numbers are followed to their octets and back. From it
  `HeadersAlwaysKept`, by `CodecInv`: what is on the wire was written of a message that is
  `WellFormed`, and so is each answer still to be sent. The latter is what makes it
  inductive: an answer is addressed to the source found in the question's header, and
  is well formed only because that header was read right. That a header that was spoilt
  is refused is `SpoiltRefused`. Assumed are `SentAssumption` (messages from
  elsewhere have a header that can be written, and data that are octets) and
  `DevicesAssumption` (names have 1 to 252 octets, no two objects of a device one
  identifier).

  `QuestionsAlwaysAnswered` follows Who-Is, Who-Has, I-Am and I-Have through their data as
  well. One lemma says of every field, with a type's tag or a context tag, that a reader
  that has octets before it which begin with the field finds it and has the rest before
  it (`FieldElement`); from it each service is read as it was written (`WhoIsRead`,
  `WhoHasRead`, `IAmRead`, `IHaveRead`, `ServiceRead`), whatever the buffer held before.
  The inductive invariant `ExchangeInv` says that with a question at hand, what has been
  heard is what the answers say that are neither due nor on their way; so when all is
  read, every answer has been heard and nothing else. That a Who-Has has one
  answer at most, also for a name that several objects have, rests on no two objects of
  a device having one identifier (`FirstIsOne`). Assumed in addition is
  `QuestionAssumption` (limits below 2^31, identifiers and names in range).

`TypeOK` of `Tsm`, `AsynchActions`, `Discovery`, `CovClient` and `Routing`, and
`UsedIdsHaveEntries`, `RetryBudget`, `WaitersServed` and `TablesBounded`, are proved and not
part of a run. All invariants and action properties of the other runs are proved;
of the `codec` run they are `HeadersKept` and `QuestionsAnswered`. Its others, `Delivered`,
`NothingInvented` and `ListKept`, compare all the elements of every service's data, among
them lists whose end only an induction over their octets would reach; and that
converters give back what was written (`GivesBack`) is arithmetic of bits and roundings.

Model-checked only: the liveness properties `WaitingEnds`,
`ClientsAnswered`, `DiscoveryEnds`, `RoutesFound`, `NeighboursReached`, `CaughtUp`,
`Reconnects`, `CallsReturn` and `LedFollows`, and the fairness part of
`ImplementsConfirmedService`. Liveness under fairness is outside this prover's reach.

## Observations

What the models show of the code beside the three findings in `PROJECT.json`. Each is
in the model as the code has it; the properties above say what holds all the same.

* Transactions. A late answer to a timed-out request is taken as the answer to the next
  request to that device, as ids are reused lowest first (`bacnettsm2.cpp:504`,
  `invokeidgenerator.cpp:16-35`); `AnswersFromOwnDevice` is what remains. A
  late, repeated or misaddressed answer that meets no request ends the gateway
  (finding `tsm_late`): what follows the check of the pointer for such an answer
  (`bacnettsm2.cpp:174`, 202-206) is never executed.
* Asynchronous ids. The first tick turns every unused id into a used one: the
  `else` at `cdm.cpp:334` belongs to the outer test, and `INT_MIN` minus the timeout
  wraps. The owner of a stale id is not told (`cdm.h:90-93` says it is): the
  callback gets the 0-based index (`cdm.cpp:326`).
* Discovery. `send()` replaces the number of an object the mapper does not hold by the
  invalid one and looks for that (`bacnetapplicationlayer.cpp:282`); an answer frees
  the wrapper that follows its own (lines 385-386, 418-419).
* Subscriptions. After 255 keys, of which each failed attempt takes one, a key and the
  process id it is sent as differ (`externalobjectshandler.cpp:182`, 245; finding
  `cov_wrap`): a request or a notification then meets the entry of another mapping or
  none. Values of the mapping stay as they are, entries of others are erased, and
  the other's next renewal dereferences `end()` (237). A renewal is sent one tick after the lifetime
  asked for has passed. After an error that counts as critical a strategy without
  polling never subscribes again, against `externalobjectreadstrategy.h:75-76`.
  `cov-confirmed="true"` asks for unconfirmed notifications
  (`bacnetconfigurator.cpp:223`), and without an interval attribute an uninitialised one is
  used (198-212).
* Routing. Reject-Message-To-Network reads the network from the wrong pointer
  (`bacnetnetworklayer.cpp:310`); `setSrcAddress` comes after `setToRaw` in a relayed
  Who-Is-Router (444-447).
* SNG. A sensor whose feedback address is the one its actor listens to makes the two
  call each other for ever: only the sender is left out
  (`connectionmanager.h:26-27`, `connectionmanager.cpp:238`); the same through a second listener. A write without
  a connection is lost and reported as done (237). An error of another kind than the three
  listed that comes while the socket still looks open is never followed by a reconnection
  (`connectionmanager.cpp:399-404`). Times are never heard, as
  `receiveTirme` is misspelt (`snginternalsupport.cpp:54`). `sngfactory` collects
  `ok |=` and so refuses no bad address.
* Announcements. A Who-Is for the whole range is never answered: it has no octets, and
  `fromRaw` returning 0 counts as an error (`bacnetapplicationlayer.cpp:101`). The same is
  sent for any range with a limit at one of the ends (`whoisservicedata.cpp:28`).
* Encoding. Abort's `toRaw` writes nothing, so that the buffer's old content is sent
  (`bacnetpci.cpp:399`); hop count 0 becomes 255; a vendor's id is written wrongly
  (`bacnetnpci.cpp:137`); an Error's header is counted one octet short (`bacnetpci.cpp:316`), so that
  errors are misread; a range without its high limit takes the low one
  (`whoisservicedata.cpp:82`); two index tests are the wrong way round
  (`bacnetdefaultobject.cpp:101`, 150); a written value of another class than its
  property's is taken as if it had been read, as error codes count as lengths
  (`writepropertyservicedata.cpp:124-125`).
* Objects. `SimpleProperty::setValue` acknowledges and stores nothing
  (`bacnetproperty.cpp:38`). Reading a whole array returns at its first asynchronous element
  (225), so that `MultipleAsynchHelper` is never used, and the other elements are
  then read at once. An array's last element cannot be written (287). Elements that
  cannot be created leave no gap. A poll of another type than its subject's is dropped
  for ever (`propertysubject.cpp:15`); an older poll's answer may follow a newer
  read's. A remote value that cannot be converted leaves the old one, which is answered
  as fresh (181). Every failure is reported as UnknownProperty.
* Conversion. A masked write to a remote property takes the other bits from what was
  read last, not from the device (`propertywithconversionobserver.cpp:49`), and clears the bits
  above a mask that is shorter than its subject (`propertyconverter.cpp:254`). A boolean written
  through a mask sets all its bits, also when it is false (250). An unset subject
  cannot be read through a universal or scaling converter, and writing 0 to it leaves it
  unset, as an unset value compares equal to 0 (`propertysubject.cpp:106`).
* Configuration. An external instance that cannot be parsed counts as 0
  (`bacnetconfigurator.cpp:120-121`); a subject without strategies is deleted and stays registered
  (162); a proxy whose class cannot take its subject's type returns a value it
  has freed (`bacnetproperty.cpp:104-112`), which `ProxyAssumption` excludes.

## Not modelled, and why

* COV server: `addOrUpdateCovSubscription` dereferences a null subscription
  (`covsupport.cpp:41`, 67), so that no subscription can exist and nothing behind it is a
  behaviour of the program.
* BBMD: `setBbmdHndlr` has no caller. Initialize-Routing-Table: its parsing relies on
  lengths no sender produces.
* Encoding: segmentation beyond its refusal, 32-bit lengths, and constructed types no
  decoded service uses. Value conversion: negative numbers and fractions of floats,
  bit arrays as masked subjects (`MaskAssumption`), and conversions that depend on a text's digits.
* Confirmed notifications, `Index::remove` and raw listeners of the SNG connection, and
  the branches for `ResendService` and `DoNothing` have no caller. Code under
  `ENABLE_IP_NOTIFICATION` and the old versions are not compiled.
* Objects: writes to unknown objects (`Q_CHECK_PTR` at
  `internalwprequesthandler.cpp:72` precedes the answer), nested arrays,
  COV increments of `readClassDataHelper`. Subscriptions are `CovClient`'s
  (`StrategyAssumption`); the class `createDataForObjectProperty` makes is the constant
  `Expects` there and a definition in `Messages`.
* Real time is a count of ticks: an attempt of the TSM lasts at most 500 ms, because
  each 250 ms tick subtracts the whole 1000 ms; the models count attempts.

## Plan

Done: all modules named above. Left, in order of worth:

1. `Discovery` composed with `Tsm` through `ConfirmedService`: a service given
   to the application layer is told once;
2. `Objects` with `AsynchActions` as its abstract specification.
