# espidf-nats in TLA+

This directory holds TLA+ models of espidf-nats, the header-only NATS client for
ESP-IDF in `src/include/espidf_nats`. The modules are translations of the code;
TLC checks them on small instances and TLAPS proves every safety property the
passing runs check, and one refinement, for all instances. Line numbers refer to
the files of this commit; `PROJECT.json` maps every definition to the lines it
stands for.

## 1. The system

A program owns one object of class `NATS` (`nats_client.h`). It calls
`process()` in a loop and, possibly from other FreeRTOS tasks and from
callbacks, `publish`, `subscribe`, `request`, `flush`, `drain` and so on.
Nothing in the library runs by itself except the event task of the WebSocket
client.

| component | state | operations |
|---|---|---|
| Subscription table | `subs`, `free_sids`, `Sub` objects with `ref_count`, `max_wanted`, `received`, deletion mark, time-out | `subscribe`, `request_with_timeout`, `unsubscribe`, dispatch in `recv()`, the time-out scan of `process()`, `restore_subscriptions`, `drain`, `shutdown` |
| Connection life cycle | `connected`, `connect_state`, `async_connect_cb`, `sockfd` or `transport`, `current_server_idx`, `reconnect_attempts`, `last_reconnect_attempt` | `connect`, `connect_with_transport`, `try_connect_to_server`, INFO and -ERR in `recv()`, `disconnect`, `connect_async`, the branches of `process()` |
| Outgoing messages and keepalive | `pending_messages`, `outstanding_pings`, `ping_timer`, `server_max_payload` | `publish` (three forms), `buffer_message`, `send_pending_messages`, `send`, `send_raw`, `send_binary`, `ping`, PING and PONG in `recv()`, `flush` |
| Incoming protocol lines | the byte stream, the line buffer, `argv` | `client_readline`, `client_read_bytes`, `client_skip_bytes`, MSG, HMSG, PING and -ERR in `recv()` |
| WebSocket transport | `state`, `ws_connected`, `connect_result`, `connect_sem`, `rx_buffer` (ring buffer: `head`, `tail`, `data_available`) | `connect`, `disconnect`, `read_line`, `read_bytes`, `skip_bytes`, `has_data_available`, the event handlers |
| TCP transport | socket, TLS contexts, `state` | the same interface on `select`/`recv`/`send` |
| Pure functions | none | `get_reconnect_delay`, `validate_subject_format`, `validate_headers_format`, `json_escape`, base64, `parsers.h`, URI parsing |
| JetStream, key-value and object store | inboxes in the subscription table, buffered messages, chunks under way | `request`, `request_with_timeout`, `jetstream_*`, `kv_*`, `obj_*` |
| TLS/STARTTLS, authentication, types, configuration, example, host tests | | |

### How they interact

* `process()` is the only driver: it runs a due asynchronous connect, or reads
  at most one protocol line with `recv()`, then looks for timed-out requests,
  then sends a PING when its timer is due; without a link it reconnects after
  a delay.
* `recv()` calls back into everything: INFO performs the handshake (CONNECT,
  `connected = true`, re-SUBs, `on_connect`, buffered messages), MSG and HMSG
  look up the subscription table and run the user callback, PONG and PING
  belong to the keepalive, -ERR and end of file disconnect.
* User callbacks run without `mutex` and may call any public method, `flush()`
  included, which calls `recv()` again: invocations of `recv()` nest.
* Four recursive mutexes: `mutex` (subscriptions, buffered messages),
  `io_mutex` (I/O), `state_mutex` (two counters), `recv_mutex` (`recv()` as a
  whole). `connected`, `connect_state` and `async_connect_cb` have none.
* Every send that fails calls `disconnect()` from wherever it is, and
  `disconnect()` calls `on_disconnect`.

### What is hard here

Steps of callbacks, of other tasks and of the WebSocket task between any two
critical sections of `recv()` and `process()`; nested `recv()`; state that is
read before a callback or unlock and used after it; failing sends in the middle
of a handshake; requests whose answer and time-out race; ids that are recycled
through two clean-up paths; links that are open but not connected; a reconnect
between two steps of another operation; limits (subscription slots, buffered
messages, outstanding PINGs, ring buffer) reached in ways no unit test
exercises (the host tests cover `util.h` and `parsers.h` only). `PROJECT.json`
lists each hazard at its line.

### What makes each component correct

* Subscription table: no callback runs on a deleted `Sub`; `ref_count` counts
  the table and the callbacks in progress; an id is never recycled twice or
  while in use; every `Sub` sits in one slot; the limit counts what is active;
  marked subscriptions are deleted; requests time out only without an answer,
  with their own callback; a reconnect restores what is persistent.
* Connection: an open link outside `connect()` is a connected one; CONNECT
  comes first; fail-over tries every server once; a lost link is noticed,
  reported and replaced; backoff restarts after success; callbacks tell the
  truth and exist when called.
* Outgoing: a PUB line is followed by its own payload; a buffered message is
  sent at most once and lost only with the link; `flush()` returns true only
  when the server has received what was published before; a silent server is
  noticed, an answering one never dropped.
* Incoming: a callback gets the whole payload of its message and nothing else;
  what is ignored takes no later message with it; the end of a link is noticed
  by whichever function meets it.
* WebSocket transport: the ring buffer is a queue that loses its oldest bytes
  when it is full and nothing else; a waiting reader returns; nothing uses a
  deleted buffer or a stale signal.
* Requests: a callback gets the answers to its own call; a call with a time-out
  ends; what was given up is not sent later; the metadata of an object follows
  its chunks.

## 2. The modules

| module | content | abstract specification | proved | with |
|---|---|---|---|---|
| `Subscriptions` | the table and its users | | type, use after free, reference counts, free list, no lost slot, restoration, limits, time-outs | `MCSubscriptions`, `SubscriptionsProofs` |
| `Connection` | life of the connection | | type, settled links, greeting, backoff, fail-over | `MCConnection`, `ConnectionProofs` |
| `Outbound` | publish, offline buffer, replay, ping, flush | | type, at most once, bound of the buffer; for one task order, PING count, `flush()`, framing | `MCOutbound`, `OutboundProofs`, `OutboundOneTaskProofs` |
| `RingBuffer` | the ring buffer of `util.h` | `LossyFifo` | index type, refinement | `RingBufferProofs` |
| `WsTransport` | the WebSocket bridge, on `RingBuffer` | `LossyFifo` | type, ownership of the buffer, `connect()`, refinement | `MCWsTransport`, `WsTransportProofs` |
| `Inbound` | lines and payloads from the stream of the server | | type, payloads intact, nothing else lost | `MCInbound`, `InboundProofs` |
| `Requests` | requests, JetStream, stores, on top of the above | | type, own answers, nothing sent after its time-out, metadata after its chunks | `RequestsProofs` |

`WsTransport` extends `RingBuffer` and adds the tasks that call it. `Requests`
composes what `Subscriptions`, `Outbound` and `Connection` promise one task:
its table is that of `Subscriptions` without nested callbacks, its buffer that
of `Outbound`, its connection the outcomes of `Connection` over the own socket
(a handshake in time, late, or never) with the steps of
`restore_subscriptions()` and `send_pending_messages()`. Twelve runs are kept,
one for each question; four of them show where the code does not do what a
comment or the manual says. Section 10 lists the other divergences met.

## 3. `Subscriptions`

**State.** `subs`, `size` and `free_sids` are the members of the same names
(`size` is `subs.size()`). `heap` holds the `Sub` objects; an object is an
element of `Obj` whose record says whether it is alive, and `new` may hand out
only an element that no local variable refers to, so that a use after free
shows as a reference to a dead object. `rx[1 .. depth]` is the stack of running
`recv()` calls with the locals that survive an unlock (`sid`, `sub`,
`will_max_out`); `tmo` is the time-out scan of `process()`; `conn` and `srv`
are the connection as far as the table sees it and the ids the server serves.

**Actions** are cut where the code releases `mutex`. `RecvMsg`, `Acquire`,
`Call` and `Return` are the first look, the second look with `add_ref()`, the
callback and the clean-up of a MSG or HMSG (the two branches do the same to the
table); `RecvAbort` is every early return in between. `TimeoutCollect`,
`TimeoutRecheck` and `TimeoutFinish` are the three critical sections of the
time-out scan (the transport branch and the socket branch of `process()` hold
the same code). As in the code the scan remembers the callbacks it collected
(`obj` of an entry of `tmo.todo` says whose), looks again at whatever `Sub` the
slot holds by then, and runs the callback collected. `Subscribe`,
`RequestWithTimeout`, `Unsubscribe`, `Drain` and `Shutdown` may come between
any two steps: they stand for callbacks and for other tasks. Reads of freed
memory return any value (`Reclaims`).

**Parameters.** `OneReceiver`: only the task of `process()` receives.
`MaxDepth`: how deep `flush()` in callbacks nests `recv()`.
`TeardownInCallback`: whether `drain()`/`shutdown()` may run during a callback.
`UsesShutdown`: whether the program calls `shutdown()`, which damages the
limit (below) and is therefore kept out of the main run.

**Runs.**

| run | instance | shows |
|---|---|---|
| `SubsNested` | 2 slots, 3 objects, nesting 2, two receivers, limits {unlimited, 1}; 137 thousand states | the safety properties of the table |
| `SubsFlat` | no nesting, one receiver, with `shutdown()`, fairness; 213 thousand states | message limits, ids unknown to the server, lazy deletion (liveness) |
| `SubsMaxedOut` | one-message requests, fairness | violation: what `max_wanted` marks is never deleted |

*Bounds.* Two slots are the least with which an id can be wrong; three objects
let both slots be taken while a dead object is still referenced; two nested
receives show every relation of an outer and an inner callback (same or
different subscription); a limit of 1 is the request/reply case. Received
messages of an unlimited subscription are counted to 1, nothing reads them.

*Fairness.* `recv()` that started goes on (weak fairness: it blocks on reads
that end with data or an error), callbacks return after finitely many nested
receives (strong fairness on `Return` at each depth: the nesting may disable it
again and again).

*With nested receives the message limit does not hold:* `will_max_out` (1582)
is computed before the callback, so a second message delivered by a `flush()`
in the callback exceeds `max_wanted`. `LimitRespected` is therefore checked
without nesting; with `MaxDepth = 2` TLC refutes it.

**Proofs** (`SubscriptionsProofs`), for all sizes, under the assumption
`~TeardownInCallback` (needed: section 10). The inductive
invariant `IInv` is `TypeOK`, `NoUseAfterFree`, `RefCountExact`,
`FreeSidsSound`, `EverySubInOneSlot` and two auxiliary parts: `SlotsLive` (what
a slot holds is alive, slots beyond `size` are empty) and `FramesAbove` (frames
above `depth` are idle). Reference counts are what carries the argument: an
object is deleted only at `ref_count <= 1` (or, marked, at 2 by the callback
that releases it), `RefCountExact` turns that into "no other callback holds
it", and so the deletion disturbs no other frame. Each action has its lemma;
counting holders uses the theorems on finite cardinalities.

A second invariant, `MoreInv`, is proved on top of `IInv`. Its parts are what
the remaining properties need to be inductive:

* `SlotsAccounted`: an id below `size` is in a slot that is taken or in
  `free_sids`. With `FreeSidsSound` both sides of `NoSlotLost` are counted from
  it. It needs `~UsesShutdown`: `shutdown()` empties `free_sids` and keeps the
  array (section 10).
* `TimersFresh`: a request whose time-out is armed has received nothing and no
  callback holds it. From it and from a part that says whose callbacks were
  collected follows `TimeoutOnlyWithoutResponse`, an action property: the scan
  looks at the request again under `mutex` before it calls an `on_timeout`, and
  the callback is the request's own, unless the request it was collected from is
  gone. More does not hold (`TimeoutCallbackIsOwn`, section 10).
* `RestoredOnReconnect` is inductive as it stands.
* `MarkedForgotten`: what is marked while its callback runs has been
  unsubscribed, so that its deletion leaves nothing behind at the server
  (`ServerKnowsOnlyTaken`). This holds if `MaxDepth = 1` or no subscription has
  a limit. The condition is not one of convenience: TLC shows that a nested
  callback which reaches `max_wanted` marks the object without an UNSUB, and the
  return of the outer one deletes it, while the server goes on serving the id.
* `LimitCounted`: below its limit, or marked, or the callback that will mark it
  runs. It needs `MaxDepth = 1`, as `LimitRespected` does.

## 4. `Connection`

**State.** `client` is one record with the members that `disconnect()` touches
(`connected`, `connect_state`, `async_cb`, `sock`), the kind of link (`link`:
the own socket, a `TcpTransport` or a `WebSocketTransport`), the other end
(`peer`: what it has sent that is unread), and what tells right from wrong:
`greeted` (on this link CONNECT was sent, or could not be built), `told` (the
last event callback), `due` (the reconnect delay is over). `attempts`, `idx`
and `listed` are `reconnect_attempts`, `current_server_idx` and
`servers.size()`. `pc`, `caller`, `start` and `result` place the task that runs
`process()` and `connect()`; `tried` is a history variable.

**Operators and actions.** `Disconnect(c)`, `SendFails(c)`, `Handshake(c, ..)`
and `Recv(c, ..)` are functions of the record, so that the code's nesting
(`recv()` calls `send()` calls `disconnect()`) stays visible: the INFO handler
is one step in which each of its sends may fail, and what comes after a failed
send is executed as in the code. `send_connect()` has returns that send nothing
and leave the link open (no memory, no nonce, a signature or a line that does
not fit: 1027, 1044, 1057, 1089, 1110); they are the failure `"build"` of
`Greet`. `ProcessAsync`, `ProcessRecv`, `ProcessPing`, `ProcessDropped` and
`ProcessReconnect` are the branches of `process()`; `Dial` .. `Return` are the
loops of `connect()` and `connect_with_transport()`, which differ only in
`AfterTimeout`. `AppDisconnect` at any point also stands for a failing publish
of another task. The server may accept and be silent, send INFO, INFO that
leads to a failing TLS upgrade, or -ERR, or close; the WebSocket event task
drops a link on its own. `calm` becomes true once and for all when the network,
the servers and the application behave.

*The first server.* The constructor leaves out servers with an invalid port
(251-258) and then draws `current_server_idx` from the number of all that were
named (282). `Named` and `Servers` are these two numbers, so the index may begin
outside the list, and the list may be empty. `servers[i]` is the operator of
`util.h:168` that extends the list up to `i` (memory for it is assumed); nothing
initialises what is between.
So `connect()` finds an entry that nobody wrote: `DialUnlisted` lets it fail like
any server, behave like one (`Dial`), or stop the program (`"trapped"`). With it
`servers.size()` has grown past the index, which is why the loop still comes round
and no remainder is taken by 0.

**Runs.**

| run | instance | shows |
|---|---|---|
| `ConnLinks` | all three links, 3 servers named of which 2 are listed, all calls, fairness; 138 thousand states | invariants of the link, fail-over, reconnecting |
| `ConnSocketWedged` | own socket, 2 servers | violation: never reconnects after a failed handshake |

*Bounds.* Three servers distinguish first, next and last in the circular loop,
and one of the three indices is outside the list at first; attempts count to 2
(the models read them as zero or not, there being no maximum); the connection
may be lost and made again any number of times.

*Fairness.* The application calls `process()` again and again (README: "must
be called regularly in loop()"), a running `connect()` goes on, the reconnect
delay elapses, a server that accepted says INFO (`ServerInfo`), the WebSocket
task delivers its event. Nothing is assumed of failures except that they end
(`calm`), and of a program that stopped (`Stopped`). Deadlock is not checked: a
connected client in a calm network has nothing left to do.

*Only over a transport* do `IdleLinkIsConnected`, `GreetedOnOpenLink`,
`BackoffStartsAfresh` and `TransportReconnects` hold. `disconnect()` returns
early on an own socket that is open but not connected (2752), which leaves the
half-open connections of `ConnSocketWedged`. `GreetedOnOpenLink` says that no
failed send is taken for a CONNECT; that CONNECT was sent is more than the code
gives (`ConnectWasSent`, section 10).

**Proofs** (`ConnectionProofs`), for every number of servers, every maximum and
every use of the API. Over every link, the own socket included, `TypeCorrect`
and `FailoverAlwaysTriesAll` hold. Their invariant `LoopInv` adds `TriedSoFar`:
while `connect()` runs, `tried` is the stretch of the circular list of `listed`
entries from `start` to `idx` (`Between`), and both are in it. One more server
either lengthens the stretch or closes the circle (`OneMoreServer`, where the
remainder of `current_server_idx` is dealt with), so the loop ends only with
the whole list.

The other three theorems are about programs whose links are transports
(`"none" \notin Links`). `IInv` joins `TypeOK`, the three invariants and
`LinkSettled`: outside the handshake an open link is connected, while dialling
the client is not, and during the handshake `attempts` is 0. The last part is
what makes `BackoffStartsAfresh` inductive: `connected` becomes true in the
handshake only. The operators on the record have lemmas of their own
(`DisconnectFacts`, `SendFailsFacts`, `HandshakeFacts`, `RecvFacts`), each
action uses those.

## 5. `Outbound`

**State.** `pending` is `pending_messages`, `pings` is `outstanding_pings`;
`conn` holds what the client believes (`connected`), whether its link is open,
whether `connect()` waits for INFO on it (`dialing`) and whether the peer of an
own socket that stays open has gone (`dead`). `out` and `in` are what the link
carries, in order. `task[t]` is where each task is inside the client: `pc` and
`msg` in `publish()` (or between the two critical sections of `ping()`),
`stage` in the handshake part of `recv()` (`on_connect` runs, the buffer is
replayed), `flush`, `initial` and `due` in `flush()`. The server is a parser of
the protocol that notes the messages it got and whether something stood where
it could not; it is the independent reader against which the output is judged.
`past` keeps history for the properties. Messages are numbered in the order of
the `publish()` calls; `Kind[m]` says which of the three forms publishes
message `m`.

**Actions.** `Publish`, `PublishCheck`, `PublishPush`, `PublishLine` and
`PublishPayload` are the steps of one `publish()`: the call, the look at
`connected` and at the size of the buffer, `Queue::push()`, and the two sends
(one for a message with headers). `ReplayBegin` and `ReplayPop` are
`send_pending_messages()`, which publishes what it pops by the same steps.
`RecvInfo` is the handshake in `recv()` up to `on_connect`, any of whose sends
may disconnect. `PingCheck`, `PingCount`, `PingSend` are `ping()`;
`FlushBegin`, `PingSend`, `FlushTrue`, `FlushFalse` are `flush()`, in whose
loop the task receives (`Recv`). `Send` has the three outcomes of `send()`:
sent, no link and a silent return, failure and `disconnect()`. How a connection
is made is left to `Connection`; here `Dial`, `RecvInfo`, `HandshakeFails`,
`ConnectionEnds` and `ProcessDropped` are its outcomes. `disconnect()` returns early
on an own socket that is not connected (`Disconnects`), so a failed handshake
leaves it open (`HalfOpen`): `process()` does not dial again, pings it, and takes a
late INFO for the handshake, or waits for ever if the peer has gone.

*Data race.* `buffer_message()` calls `Queue::push()` without `mutex`, although
the member's comment (116) says that `mutex` protects `pending_messages`. When
two tasks meet there, `PublishPush` may lose the message or the whole queue,
and from then on (`past.raced`) its size is arbitrary. Damage to the heap
beyond the queue is not modelled.

*Coarser than the code:* the look at `connected` and at the size is one step; a
line, a payload or a PING is sent whole or fails; `flush()` is called in a
`recv()` of another `flush()` only from `on_connect`. *Left out,* because they
change nothing: calls refused by the validation of subject, headers or size.
Memory is assumed to suffice, buffering to be switched on. Binary messages are
not empty (an empty one is sent without its CRLF even over a socket).

**Runs.**

| run | instance | shows |
|---|---|---|
| `OutSolo` | one task, both links, a text message and one with headers, 2 buffered, `MaxPings` 0, PINGs of `flush()` up to 2, fairness; 296 thousand states | order, exact PING count, nothing sent into the void over a socket, honest `flush()`, buffered messages arrive, a silent server is given up |
| `OutTasks` | two tasks, transport, three text messages and a binary one, 1 buffered, a network that never settles; 6.6 million states | at most once, bound of the buffer |
| `OutInterleaved` | two tasks, socket | violation: the line of one task between line and payload of the other |

*Bounds.* Two messages are enough for one to overtake, replace or split the
other, three for two tasks to push beyond the limit onto a buffer that is
replayed. With
`MaxPings` 0 the second unanswered PING closes the connection; `PingCap` bounds
only what `flush()` adds. The PINGs in flight need no bound, because the counter
stops them. The connection may be lost and made again any number of times.

*Fairness.* A call that began goes on (`Progress`, weak); `recv()` has
something to read again and again and reads it (`Recv`, strong: `process()`
looks for data before its timer, so a PING that keeps coming cannot starve the
answer or the late INFO that waits); `on_connect` returns (`ReplayBegin`,
strong: a `flush()` in it disables the step for a while); `process()` dials and
pings; a server that is not silent reads. `mood` says once and for all when
failures end (`calm`; a server then answers a PING before the timer fires
again) or the server falls silent (`Moods` are those a run considers:
`OutTasks` checks safety only, for which the wild network has every behaviour).
Nothing is assumed about the application. Deadlock is checked.

*What the conditions of the properties say.* `Alone` (one task) is needed for
`OrderKept`, `PingsExact`, `OfflineNotSent` and the liveness: with two tasks a
message may be buffered after the replay has looked for the last time and then
waits for the next reconnect. `OrderKept` excepts what `on_connect` publishes,
and runs in which a replay began on a connection lost by then: it takes one
message from the front of the buffer and puts it back at the end. `FlushHonest`
asks that no PING was unanswered when `flush()` was called; section 10 says
why. `BufferedIsReceived` leaves out the one case in which the code never gets
there: a dead socket that stays open (`ConnSocketWedged`); a handshake that is
late or fails is in it. A `flush()` whose time is up when the answer has just
been handled counts as true in the model.

**Proofs** (`OutboundProofs`), for every set of tasks, number and kind of
messages, and limit. `TypeCorrect` includes that a task holds a message exactly
while it is inside `publish()`. `ReceivedOnceAlways` rests on the inductive
invariant `OncePlace`: each message is in at most one of the hands of a task,
the buffer, the link and the server, at most once, and has been published. It
is stated about functions and sequences (`Once(h, p, o, g, n)`), with a lemma
for each thing that can happen to them (new, dropped, pushed, popped, sent,
read, link emptied, buffer lost), so that a step of the system only has to be
recognised as one of these. For `BufferBounded` the invariant `Bounded` counts
the tasks that found room and have not pushed yet: buffer and such tasks
together exceed the limit by less than the number of tasks. It holds as long as
`past.raced` is false, which never becomes false again (`RacedStays`).

`OutboundOneTaskProofs` has what one task may rely on (`Alone`), for every
number and kind of messages, limit and link. Its invariant `SoloInv` has these
parts, each with its lemma for a step (`SoloNext`):

* `SoloLink`: between the handshakes nothing is under way, a message about to be
  sent has a connection and one about to be buffered has none.
  `OfflineNotSent` is one of its conjuncts.
* `SoloPings`: the count is what is on the link or about to be sent
  (`PingsExact`), and on a half-open socket as well, as long as its peer is there.
* `SoloOrder`, while no replay has begun on a lost connection: what the server
  has, then the link, the message in hand, the buffer and what will be published
  next stand in this order, messages of `on_connect` excepted
  (`OrderOnLink`, `OrderInBuffer`, `OrderHeld`); outside the handshake a
  connected client has nothing buffered (`BufferDrained`). From this `OrderKept`.
* `SoloFramed`: on the link a line is followed by its payload, and the one that
  misses it is the last and in the hands of the task.
* `SoloFlush`: what a `flush()` has to wait for has been received or stands
  before a PING on the link, or the connection is gone and the count stays above
  0. Since the link keeps its order, the answer to that PING means that what
  stands before it has been received: `FlushHonest`.

The last two ask for `PayloadsSent`: no binary message is published over a
transport, because `send_binary()` knows the own socket only and sends no
payload there (section 10). `OutSolo` has no binary message. With one, over a
transport, the framing of one task is really broken.

## 6. `RingBuffer` and `LossyFifo`

**State.** `slots`, `head`, `tail` are `buffer`, `head`, `tail` of
`NATSUtil::RingBuffer`, `holder` says who has its `mutex`, `token` is the binary
semaphore `data_available`. `data` is what a `write()` in progress has still to
store, `want` and `read` are what a `read()` may still copy and has copied.

**Actions.** A `write()` is `WriteBegin`, for each byte `DropOldest` if the
buffer is full (the code moves `tail` before it stores) and `Store`, then
`WriteEnd` and, after the mutex has been given back, `Signal`. A `read()` is
`ReadBegin`, `Copy` for each byte, `ReadEnd`. `available()` takes no mutex:
`Sees` allows it to see an empty buffer while a writer moves both indices.

**Abstract specification.** `LossyFifo` is a queue of at most `Max` bytes with
what the present read has been given. A byte enters at the end, leaves at the
front, and is lost only from the front of a full queue. `Contents` is the
refinement mapping: the slots from `tail` on, `Available` of them; `Max` is
`Capacity - 1`, since one slot stays free. The order of the two steps in
`write()` is what makes it work: a store over `tail` would empty the queue at
once (the mutant of `FifoSpec`).

**Proofs** (`RingBufferProofs`). For every capacity, each step of the ring
buffer is a step of the queue or leaves it unchanged. `Put` and `Take` on the
sequence `Contents` need the arithmetic of the indices modulo the capacity;
`Slot(k)` states it without a remainder, and lemmas say how `Slot` and
`Available` change when `head` or `tail` moves on.

## 7. `WsTransport`

**State.** `api` holds the members of `WebSocketTransport` that both tasks use:
`state`, `ws_connected`, `connect_result`, `connect_sem`, the client and the
ring buffer (`rx`, by number, because each `connect()` makes a new one);
`allocated` are the ring buffers that exist. `smutex` is `state_mutex` while
`handle_data()` runs. `app` is the task of the application: `pc`, which read
function it is in (`op`), how much it needs (`need`), the buffer `disconnect()`
is about to delete (`doomed`). `esp` is the task of `esp_websocket_client`
(external) and the event handler it is in.

**Actions.** `ConnectStart` .. `ConnectAbandon` are `connect()`: the reset of the
members, waiting for `connect_sem`, the answer, and the two ways of giving up.
`DisconnectCalled`, `DisconnectClose`, `DisconnectJoin` and `DisconnectDelete`
are `disconnect()`, cut where it releases `state_mutex` and where it waits for
the client to stop. `Look`, `Wait`, `CopyBegin`, `CopyByte`, `CopyEnd` and
`ReadOn` are the three read functions, which share their shape: test the
connection, wait for data, copy what is there. `HandleConnected`,
`HandleDisconnected`, `HandleError`, `GiveConnectSem`, `HandleData` and the
`Data*` actions are the event handlers. The server sends 1, 2, 3, ..., so that
the order of bytes shows.

**Run** `WsBridge`: ring buffer of 2 bytes, 6 bytes from the server in frames of
up to 3, lines of 3 and payloads of up to 2 bytes, two connections; 101 thousand
states. Two bytes are the least with which the oldest of several is dropped;
frames of 3 overrun the buffer in one write; a second connection meets the
tokens and bytes of the first.

*Fairness.* The task of the application goes on inside the calls it made, the
WebSocket task finishes its handlers, and a client that has reported an error
reports the end as well (`esp_websocket_client` closes after an error). Without
the last, `read_line()` could wait for ever: `handle_error()` leaves
`ws_connected` true. Nothing is assumed about bytes arriving. Deadlock is
checked: an application that is not in a call can always try to connect again.

**Proofs** (`WsTransportProofs`), for every capacity, frame, line length and
number of connections. `Inv` joins the types with five parts: `Counted` (what a
read has copied and may still copy is what was asked), `Owned` (there is a
client and a ring buffer exactly while `connect()` has made and `disconnect()`
not yet taken them), `Guarded` (a handler that found the buffer holds
`state_mutex`), `Signalled` (what `connect()` sees in `connect_sem` and
`connect_result` comes from a handler of its own client, because the client of
an earlier attempt was joined before the reset) and the two invariants of the
run. `ImplementsFifo` is the refinement, from the step lemma of
`RingBufferProofs` and the fact that the other steps leave the buffer alone.
`DropNoticed` and `CallsReturn` are liveness and stay with TLC.

## 8. `Inbound`

**State.** `wire` is what the server has sent and nobody has read. Its cells
are a control line with its end, a character or a line feed of a payload, a
line of a payload that spells a control line (`"text"`), and the CR and LF
after it; each names its frame, by which the properties judge what is read.
`clear` is how many cells TLS has decrypted already: `select()` and so
`HasData` see the socket only. `rd` is the task in `recv()`: the function it is
in, the characters it still needs and has got. `subs` is the table as `recv()`
sees it.

**Actions.** `Poll` is `process()` finding data, `OwnReadLine` and
`TcpReadLine` are `client_readline()` over the own socket and
`TcpTransport::read_line()`, and so on for payloads and for the CR LF after
them. They read in pieces of any size. `Parse` is what `recv()` makes of a
line: the words as `strtok` cuts them (`Argv`, at most `MaxArgs`), the sizes
where the code looks for them, every early return. A line of an ignored payload
that spells a control line is parsed like one of the server's: it says any of
`Spelt`, and `misread` remembers the first. `Deliver` is the second look at the
slot and the callback. `Resubscribe` and `OtherDisconnects` are other tasks
between the steps.

**Runs.** `InFrames`: two frames of every kind, payloads that are empty, spell a
message, a PING or an error, or are longer than the limits of 1 (payload),
1 (headers) and 2 (line); 897 thousand states. Two frames are enough for the first
to spoil the second.
`InHeaderReply`: violation, a message with headers and a reply is lost
(`NATS_MAX_ARGV` is 5, its line has six words). It is excepted in
`NothingElseLost`, which therefore says that nothing *else* is lost.

*An ignored payload taken at its word.* `recv()` that ignores a MSG (no
subscription, a size beyond the limit, a wrong word) leaves its payload to be read
as lines (1540-1544, 1554-1557), and a line of it that spells MSG, PING or -ERR is
obeyed: a callback may get bytes that no server meant as a message, the next
message may be swallowed, the client may disconnect. TLC refutes `NeverMisread`.
`DeliveredIntact` and `NothingElseLost` hold until the first such line (`stray`,
`misread`), and the latter says besides that only payloads `recv()` had reason to
ignore are ever read so: none of a message that is due.

*Fairness.* `process()` is called again and again.

**Proofs** (`InboundProofs`), for all bodies, heads, limits and numbers of frames.
`InboundInv` has, besides the types, two halves. `Aligned` and `StrayInv` hold while
`misread` is 0, `Strayed` from then on (what has been delivered stays intact, and
the frame misread is one that `recv()` was free to ignore). `Aligned` has four
parts. `GoodWire`: behind a control
line stands its frame, cell by cell (`Cells`), and the lines come in the order
of sending; only the end of the wire may be cut off. `HandOf`: what the task in
`recv()` has in hand is so many cells of one frame, and the wire goes on with
the rest of them (`GoesOn`), which is what makes a payload whole. `OwedOK`:
what is owed is a frame for a live subscription. `ReadUpTo`: there are numbers
`n` and `d` such that the lines up to frame `n` have been read and those behind
it have not, and the frames up to `d` are done with, given to their callbacks
in order if they are owed; between the two is at most the frame in hand. `StrayInv`
says that the cells of a payload are read as lines only if its frame need not be
delivered (`Spare`), which is the first half of `NothingElseLost`. The
steps of the reader are recognised as taking cells from the front of the wire
(`Taken`), whose lemmas say what a take does to lines, frames and `GoesOn`.
`NothingElseLost` needs `MaxArgs >= 5`, which is what `NATS_MAX_ARGV` is: with
fewer words a MSG with a reply would be lost like the HMSG of `InHeaderReply`.
`DropNoticed` is liveness and stays with TLC.

*Left out:* a line of a payload that spells INFO (it changes the limits of the
server and may set off a TLS upgrade, 1425-1510) or PONG, and a control line
that is spelt in part by the payload and in part by what follows it. A payload
without a line feed that exceeds the limit of a line disconnects (1387).
`disconnect()` of another task during a TLS read over the own socket is not
modelled either.

## 9. `Requests`

**State.** `calls` are the calls of the API in the order they were made, each
with its kind (`Op`), the id it got, the answers its callback was given and how
it was given up. `slots` and `free` are `subs` and `free_sids`, `pending` is
`pending_messages`, `conn`, `out` and `in` the link as the client knows it and
what travels on it, `srv` the server: whom it serves under which id, how many
chunks it has stored and which publications it has acted on. `task` is the task
that calls the API and `process()`.

**Calls.** Every function of JetStream, of the key-value store and of the object
store is one of six shapes, which `Op` and the definitions named after the
functions give: subscribe to an inbox for this once or for good, or to a
subject; how many answers; with a time-out or not; whether building the payload
can fail; how many chunks go first. The payloads are not modelled.

**Actions.** `StartCall`, `Subscribe` (or `SubscribeFails`: no slot),
`Publish`, and for `obj_put()` before them `Chunk`, `FlushBegin`, `FlushTrue` or
`FlushFalse`. `Publish` buffers the message if the subscription has just cost
the connection. `RecvMsg` gives a message to whatever call has its id now.
`process()` runs from `ProcessBegin` to `ProcessEnd` whenever there is a socket,
connected or not (4482): it receives, then looks for time-outs (`Timeout`), then may
send a PING (`KeepAlive`). `Dial` is `connect()`; INFO comes in time or not
(`HandshakeFails`), and since `disconnect()` leaves an own socket open that is not
connected (2752), `process()` may find it late: `RecvInfo`, `Restore` and `Replay`
are the handshake in either place. A subscription for this once is not restored
(its subject is not kept), a buffered request is sent again all the same. The link
may break at any moment and with it what travels; the server may answer late, in
part or never. Calls that are refused at once (not connected, no room for the
payload) change nothing and are left out.

**Run** `Requests`: two calls of any kind, one slot, batches of 2, 2 chunks, two
losses of the link, one PING of the keepalive; 1.5 million states. With one
slot the second call always inherits the id of the first, two chunks let one be
lost, two losses hit a request before and after its replay. Deadlock is not
checked: the application stops after its calls.

*Fairness.* A call that began goes on, `process()` returns after it has looked at
every subscription, and time passes. Nothing is assumed of the network: no
reconnect need succeed, and `max_reconnect_attempts` may be spent. Without a
socket `process()` does not look for time-outs (4539-4562), so `RequestEnds` is
conditional: *if* `process()` finds a socket again and again, a request with a
time-out ends. Otherwise it does not: a request waits for ever on a client that
never gets a socket again.

*What the properties leave room for.* `OwnAnswers` allows a late answer to a
call that was given up: the recycled id is all `recv()` has. `MetadataMeansStored`
asks that the server takes chunks of 128 KB and that no PING was unanswered
(`clean`). `GivenUpIsNotSent` is about time-outs that a connected client reports.
Over a socket whose handshake failed `process()` reports the time-out of a request
that is still buffered, and a late INFO sends the request (4482, 1503): TLC refutes
`GivenUpIsNeverSent`, which asks for these as well.

**Proofs** (`RequestsProofs`), for every number of calls, slots, chunks, answers
and losses. The invariant `Inv` has nine parts beside the types. `Held`,
`Holding` and `FreeSound` say that slots and unfinished calls correspond one to
one; `Addressed` says that whatever travels under an id belongs to a call that
has had it, which is what makes `OwnAnswers` inductive: if the id has another
holder now, the call is over. `Awaited` bounds the PINGs and PONGs under way by
`outstanding_pings` (so that a PONG never makes it negative); `Buffered` says
that only a client without a connection, or in its handshake, has buffered
messages, and none of a call whose time-out was reported by a connected client, from
which
`GivenUpIsNotSent` follows; `Current` is about the call being made, `Answered`
types the answers. The proof divides a step into what it does to the table
(`NextTable`), to the link (`NextLink`, on the cases of `LinkCases`), to the task
(`NextTask`) and to the buffer (`NextBuffer`).

`MetadataAlwaysStored` follows `obj_put()` with an invariant of its own,
`StoreInv`. While the link holds and the server takes them, the chunks stored and
on their way (`Handed`) are as many as the loop has sent (`Putting`); the PING of
a clean `flush()` stands behind all of them (`Flushing`), so when its PONG has
come, or the count is back at 0, they are stored (`Stored`); this lasts until the
metadata is published (`Flushed`) and ever after (`Announced`). `Unpublished`
and `Fresh` say that nothing of the call is published before. `Awaited` is what
makes a clean `flush()` safe: with a count of 0 no other PING and no PONG is
under way, whose answer it could take for its own. The steps that have nothing to
do with chunks (`Steady`) share one lemma, the six others have their own.

## 10. What the runs do not show

**Model-checked only.** Every invariant and every action property of a passing
run is proved, and so is the refinement of `LossyFifo`. What stays with TLC is
liveness, whose proof needs `ENABLED` and induction over fair behaviours:
`LazyDeletionHappens`, `TransportReconnects`, `BufferedIsReceived`,
`SilentServerNoticed`, `DropNoticed` (of `WsTransport` and of `Inbound`),
`CallsReturn` and `RequestEnds`. These hold on the instances above; that the
bounds are enough is argued there and not proved.

**What the theorems assume.** Each hypothesis is either what the code gives or
marks where the code stops being right:

| hypothesis | theorems | why |
|---|---|---|
| `~TeardownInCallback` | `Subscriptions` | `drain()`, `shutdown()` delete under a running callback (below) |
| `~UsesShutdown` | `NoSlotEverLost` | `shutdown()` empties `free_sids` (below) |
| `MaxDepth = 1`, or no limits | `ServerNeverBehind`, `LimitAlwaysRespected` (`MaxDepth = 1`) | nested receives and `max_wanted` (section 3) |
| `"none" \notin Links` | three of `Connection` | half-open links over the own socket (section 4) |
| `PayloadsSent` | `FlushAlwaysHonest`, `SoloAlwaysFramed` | `send_binary()` over a transport (section 5) |
| `MaxArgs >= 5` | `NothingElseLostAlways` | `NATS_MAX_ARGV` is 5 (config.h:53) |

The theorems about sequences and finite sets that the proofs cite are those of the
library. The assumptions on the constants stand in the modules, where TLC
evaluates them.

**Not modelled.** One task connects: two tasks in `connect()` at once, or a
second task whose `disconnect()` frees the ring buffer under a reader
(ws_transport.h:274), are out. Two tasks that publish are checked in `Outbound`,
two that receive and subscribe in `Subscriptions`; two that `flush()` at once are
modelled (and part of the proofs), not run. Dialling, TLS contexts, STARTTLS and
authentication are libraries and text: `Connection` has their outcomes.
Validation, escaping, base64, `parsers.h` and the URI are functions on strings,
whose failure is modelled where they are called. The reconnect delay is an
elapsing of time. The order of the four mutexes, and locks of the application in
callbacks, are not modelled. Metrics and error codes change nothing. The
example and the host tests were read, not modelled.

**Divergences without a run of their own.** TLC refutes the definition named.

* `drain()` and `shutdown()` delete a subscription whose callback is running
  (4402, 2807): with `TeardownInCallback` TLC refutes `NoUseAfterFree` of
  `Subscriptions` (subscription.h:26: "Uses reference counting to prevent
  use-after-free in callbacks").
* `process()` runs the `on_timeout` it collected although it looks again at
  whatever `Sub` has the slot by then (4455, 4463, 4470): if the request collected
  is answered and its id recycled by one that times out too, the callback of the
  answered request runs: `TimeoutCallbackIsOwn` of `Subscriptions` ("Re-check under
  mutex: response may have arrived since we collected timeouts", 4462).
* With nested receives `max_wanted` is exceeded (section 3): `LimitRespected`.
* After `shutdown()` the subscription limit counts the emptied slots as active
  for ever (2812, 2121): `LimitCountsActive` of `Subscriptions`.
* `process()` tests `async_connect_cb`, connects, and calls it; a failing send
  in between clears it (4431, 2757), and a NULL callback is called:
  `NoNullCallback` of `Connection`.
* When a re-SUB of the handshake cannot be sent, `on_disconnect` is called and
  then `on_connect` on the closed connection (1500, 1502): `ToldIsConnected` of
  `Connection`.
* When CONNECT cannot be built, `send_connect()` returns without a word and
  `recv()` sets `connected` (1027-1114, 1499): `ConnectWasSent` of `Connection`.
* `connect()` may dial an entry of the server list that nobody wrote, because
  `random(server_count)` counts servers that were left out (258, 282, util.h:168):
  `pc # "trapped"` of `Connection` (section 4).
* `flush()` takes the answer to an earlier PING for its own (4373):
  `FlushMeansReceived` of `Outbound` (README.md:1160 of the repository: "Ensure
  all published messages have been sent to the server").
* Over a transport that has dropped, `publish()` finds `connected` true and
  sends into the void instead of buffering: `OfflineIsBuffered` of `Outbound`
  (README.md:1149: "Messages published while offline are automatically
  buffered").
* Over a transport `publish_binary()` sends its line and no payload, because
  `send_binary()` knows the own socket only (2903, 950): with a binary message
  TLC refutes `Framed` of `Outbound` for one task.
* `Queue::push()` of the buffer runs without the mutex that is said to protect
  it (116, 2057).
* An ignored payload that spells a control line is obeyed (section 8):
  `NeverMisread` of `Inbound`.
* A buffered request is sent after its time-out was reported over a half-open
  socket (section 9): `GivenUpIsNeverSent` of `Requests`.
* `publish_binary()` drops chunks that exceed the `max_payload` of the server;
  `obj_put()` goes on and the metadata is acknowledged, although "The metadata
  ACK at the end confirms everything was stored" (3988): without `clean` TLC
  refutes `MetadataMeansStored` of `Requests`.

Seen in the code, without a definition:

* `get_reconnect_delay()` multiplies 1000 by 2^n in 32 bits before it compares
  (2012). The product wraps from n = 23 on; below the cap of 30 attempts (2009)
  it is 1000 * 2^29 mod 2^32 = 0 at n = 29, one attempt without delay. The
  products of n = 23 .. 28 wrap to values above the maximum, so the delay is 30 s
  as it should be.
* `reconnect_attempts` is reset as soon as the link opens (2509, 2682): a
  server that accepts and then refuses is retried for ever with the shortest
  delay, whatever `max_reconnect_attempts` says.
* `metrics.reconnections` is incremented only if it is positive (2531, 2718),
  so it stays 0.
* `process()` clears `async_connect_cb` after the callback has returned
  (4432), and with it what that callback registered.
* `connect_async()` on a transport that has dropped reports success at once,
  because `connect()` finds `connected` still true.
* `request()` publishes even if no slot was left for the inbox (3066).
* `jetstream_pull()` and `jetstream_fetch()` keep their slot when fewer messages
  come than asked for: the first message stops the time-out.
* `json_escape()` tests `src[j]`, `j` the length of its output (1845).
* `wait_for_data()` may take a token for data that has been read already
  (util.h:425): `has_data_available()` then says yes to an empty buffer and the
  reader waits.
* Data that TLS has decrypted does not show in `select()` (4497): a second
  message in the same record waits for the next one.
* The automatic reply to flow control (1678) needs a message with headers and a
  reply, which is never parsed (`InHeaderReply`).
