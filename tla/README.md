# TLA+ models of aws-crt-python

aws-crt-python is a set of Python bindings over the C libraries of the AWS
Common Runtime. The Python package (`awscrt/`) offers classes and futures; the C
extension (`source/`) connects them to native clients that run on event-loop
threads of their own. The algorithms of the protocols are in the native
libraries, which are git submodules and not part of this repository. What this
repository owns, and what these models are about, is the boundary:

- C callbacks on an event-loop thread call methods of Python objects, resolve
  futures and must survive exceptions raised by the application;
- application threads call down into C, cancel futures, and drop objects at any
  moment, also in the middle of a callback;
- reference counts, capsules, "core" objects and userdata structs keep each side
  alive exactly as long as the other may use it.

Tests of this code run one schedule of the two sides. The models run them all.

## Inventory

| Component | State | Operations | Interaction | What is hard |
|---|---|---|---|---|
| asyncio HTTP stream (`aio/http.py`, `http_stream.c`) | `_received_chunks`, `_chunk_futures`, status/headers/completion futures, `received_headers` | `_on_response`, `_on_body`, `_on_complete`, `_on_h2_remote_end_stream`, `get_next_response_chunk` | event-loop thread fills, asyncio tasks drain | futures resolved outside the lock, task cancellation, end of stream racing a new read |
| HTTP/2 writes (`http.py`, `aio/http.py`, `http_stream.c`) | write futures, `remote_end_stream_future`, completion future, writer task | `write_data`, its completion, remote end, completion, body generator | task feeds the native stream; callbacks resolve futures | END_STREAM after an error, cancelling between `done()` and `set_exception` |
| HTTP connection and streams (`http.py`, `http_connection.c`, `http_stream.c`) | ref-counted binding, capsule, core, connect and shutdown futures, the stream's pin on itself | connect, setup, shutdown, settings, activate, complete, drop | two owners release in either order | last release, failure after half of setup, completion before the pin |
| HTTP headers (`http.py`) | native collection, running generators | add, set, remove, get, iterate | none | a generator over headers that change |
| WebSocket (`websocket.py`, `websocket.c`) | core, capsule, current frame, send ops | connect, setup, frames, send, close, shutdown | callbacks that raise must close the connection | lifetime of core, payload buffers and closures |
| MQTT 5 received messages (`mqtt5.py`, `mqtt5_client.c`) | `puback_taken`, `callback_active`, the native PUBACK control | `_on_publish`, acquire closure, invoke | closure may be kept and called by any thread | exactly one of "acknowledged" and "application has control" |
| MQTT 5 client (`mqtt5.py`, `mqtt5_client.c`) | binding, core, operation userdata, futures | new, start, stop, lifecycle events, publish/subscribe/unsubscribe, terminate | asynchronous termination frees the binding | dropping the client in any state |
| WebSocket handshake transform (`mqtt.py`, `mqtt5.py` and their C files) | done future, arguments, transform data | transform, `set_done` | any thread completes the handshake | exactly one completion |
| MQTT 3.1.1 connection (`mqtt.py`, `mqtt_client_connection.c`) | binding, weak reference to the `Connection`, `on_connect` slot, topic tree | connect, reconnect, disconnect, interruption, publish, subscribe, unsubscribe, resubscribe | callbacks borrow a strong reference | destructor on the event-loop thread, one slot for two attempts, references of refused calls |
| MQTT request-response (`mqtt_request_response.py`, `.c`) | client and stream bindings, futures | request, streaming operation, open, drop | keeps the native connection | destructor stores into memory that the termination callback frees |
| Event-stream RPC (`eventstream/rpc.py`, `event_stream_rpc_client_*.c`) | `self_py` of connection and continuations, futures | connect, close, new stream, activate, send, flush, callbacks | callbacks into user handlers | second or late `activate()`, handlers that raise, circular reference |
| S3 (`s3.py`, `s3_*.c`) | client and request bindings, progress, finished and shutdown events | make request, body, progress, finish, cancel, shutdown | clients use the default bootstrap | finish before shutdown, failing callback, cancelled future |
| Event loops, resolver, bootstrap (`io.py`, `io.c`) | static defaults and their locks, shutdown events | get or create, release, shut down | parts keep each other alive | nested locks, order of shutdown |
| Credentials and signing (`auth.py`, `auth_*.c`) | providers, configs, signing data, futures | constructors, `replace`, get credentials, sign, complete, shutdown | configs keep providers, signings keep configs | dropping what a call in flight uses, `None` encoded as 0 |
| CBOR (`cbor.py`, `cbor.c`) | buffer, nesting depth | encode, decode | converter callback | integer widths, nesting, indefinite lengths, failed values |
| TLS options and AWS IoT metrics (`io.py`, `aws_iot_metrics.py`) | options, context, metadata dictionary | make and change options, make a context, create metrics | metrics read the context | merge order, stale options |
| HTTP messages and proxy options, input streams and PKCS#11, hashing, keys, checksums, module glue, logging, canary tooling | containers, conversions | | none of their own | numeric and string code of native libraries |

`PROJECT.json` lists each component with its status, and the hazards of the code
at the lines where they bite.

## Modules

| Module | Models | Used by |
|---|---|---|
| `AioHttpStream` | response side of `AIOHttpClientStreamUnified` with the callbacks of `http_stream.c` | runs `aio_*` |
| `ChunkChannel` | what `get_next_response_chunk` promises: an ordered channel that closes once | refined by `AioHttpStream` |
| `Http2Stream` | `write_data`, the body writer task, the completion of blocking and asyncio HTTP/2 streams | run `http2_stream` |
| `HttpConnection` | `http_connection_binding`, its capsule and core, the futures of `_generic_new`, and streams pinned by activation | run `http_connection` |
| `WebSocket` | `_WebSocketCore`, `WebSocket`, `websocket.c` | run `websocket` |
| `Mqtt5Puback` | `s_on_publish_received`, `_on_publish`, the acquire closure | run `mqtt5_puback` |
| `HandshakeTransform` | `s_ws_handshake_transform`, `_ws_handshake_transform`, `set_done` | extended by `Mqtt5Client` |
| `Mqtt5Client` | `Client`, `_ClientCore`, `mqtt5_client_binding`; composes the handshake with the client's lifetime | run `mqtt5_client` |
| `MqttConnection` | `Connection` and `mqtt_connection_binding` of MQTT 3.1.1 | extended by `MqttRequestResponse` |
| `MqttRequestResponse` | the request-response client, its requests and a streaming operation; composes it with the connection it keeps | run `mqtt_connection` |
| `EventStreamRpc` | `ClientConnection`, `ClientContinuation` and their bindings | run `eventstream_rpc` |
| `IoDefaults` | static defaults of `io.py`, their locks, construction and shutdown | extended by `S3Client` |
| `S3Client` | `S3Client`, `S3Request`; composes them with the defaults they run on | run `s3_client` |
| `Signing` | credentials providers, signing configs and the calls made with them | run `signing` |
| `Collections` | Python's lists and dictionaries as sequences | extended by the three below |
| `Cbor`, `HttpHeaders`, `IotMetrics` | CBOR, the header multimap, TLS options with the metrics made of them | composed by `MCData` |
| `MCData` | a behaviour of one of the three value types | run `data` |
| `HttpConnectionProofs`, `WebSocketProofs` | the theorems about the module of that name | tlapm |
| `HttpStreamProofs` | the theorems about `AioHttpStream` and `Http2Stream` | tlapm |
| `Mqtt5Proofs` | the theorems about `Mqtt5Client` and `Mqtt5Puback` | tlapm |
| `MqttRequestResponseProofs` | the theorems about `MqttConnection` and `MqttRequestResponse` | tlapm |
| `S3ClientProofs` | the theorems about `IoDefaults` and `S3Client` | tlapm |
| `LifetimeProofs` | the theorems about `Signing` and `EventStreamRpc` | tlapm |
| `DataProofs` | the theorems about `Cbor`, `HttpHeaders` and `IotMetrics` | tlapm |

Conventions. A variable `thread` (or `at`) says where the event-loop thread
stands inside a callback. A callback is one action up to the point where it
calls the application, gives up a lock or releases an object, and another from
there on, so that steps of application threads fall in between exactly where
they can. Futures are states (`pending`, a result, an exception, `cancelled`);
payloads, packets and headers are numbers or model values. Variables under "the
native client" in a module stand for a library outside this repository; they
decide only which callbacks can come next. Definitions called mutants are
faulty variants of the definition that follows them, used to test that a
property can fail. `TypeOK` of each module documents its variables; where there
are proofs it is the theorem `TypeCorrect`. Where two components share a proof
module one of them has its own names: `PubackTypeOK`, `RpcTypeOK`, `Http2TypeOK`,
`HeadersTypeOK`, `MetricsTypeOK`, `CborTypeOK` and the theorems
`PubackTypeCorrect` and so on.

Left out everywhere: the early return of callbacks when the interpreter has shut
down ("Python has shut down. Nothing matters anymore"), logging, and failing
allocations inside the interpreter other than those named.

Atomicity. A C function runs as one step as far as it keeps the GIL. The module
declares itself safe without the GIL (`module.c:1197`), so free-threaded builds
interleave more. Where that matters the models separate the steps: the check and
the store of `on_connect` (`MqttConnection`), the release of a streaming operation
and the store after it (`MqttRequestResponse`), the acquire closure and `set_done`.
The test-and-set of `activate()` in `event_stream_rpc_client_continuation.c:191` is
one step: `EventStreamRpc` assumes the GIL there.

### AioHttpStream

Calls of `get_next_response_chunk` are numbered in the order in which they take
`_deque_lock`, chunks in the order of arrival. `OnIncomingBody` is `_on_body` up
to the release of the lock, `SetChunkResult` the `set_result` after it;
`SnapshotPending` and `ResolveOne` are the two halves of
`_resolve_pending_chunk_futures`. A task may be cancelled while it awaits
(`Cancellable`); `asyncio.wrap_future` passes the cancellation on to the
concurrent future in a later step (`PropagateCancel`), after which `set_result`
raises in the callback, which `http_stream.c` turns into a failed stream.
`OnHeaderBlockUndecodable` is a header block with a field that is not UTF-8: Python
is not called and the stream fails.

### HttpConnection

The binding has at most two owners: the capsule (or, before there is one, the
setup callback) and the native connection until its shutdown callback.
`holders` are those who keep the capsule alive: the setup callback, the
application, and each stream, which refers to its connection. Activation calls
the native library first and pins the stream afterwards; the completion callback
may come in between, and `pyRefs` shows that the count does not reach zero.

### WebSocket

The core has one reference of C from `connect` to the last callback, setup with
an error or shutdown. Each send op owns the payload buffer and a closure that
keeps the `WebSocket`, hence the capsule. `raised` records that a user callback
raised; the Python code then calls `close()`. `fatal` would be the
`AWS_FATAL_ASSERT` of a frame callback whose Python method failed.

### Mqtt5Puback

The PUBACK control is acquired first; conversion, the callback, the return value
and the automatic acknowledgement follow as steps. Other threads call the
closure in two steps (check, then take), because it has no lock. `Events` says
which unusual events occur; `mishaps` remembers which PUBLISH they befell, so that
a property can say that all others are unharmed.

### HandshakeTransform and Mqtt5Client

`tAt` is the position of the handler, `completions` counts calls of
`complete_fn`. `mishap` marks two cases in which the code completes twice: the
function raises and, between `future.done()` and `set_done(e)`, another thread
calls `set_done()`; or it raises something that is no `Exception`, so that C
completes the handshake while the future stays usable. The MQTT 3.1.1 code has
the same control.

`Mqtt5Client` adds the binding, the reference C has to the core, the transform
data's reference to it, the lifecycle events, and the operations: `meta` is the
userdata that lives from an accepted call to the end of its completion callback.
`op = "lost"` is an operation whose acknowledgement could not be converted: its
future is never resolved (see the hazards). `ClientNew` may fail, and then leaves
nothing behind.

### Http2Stream

One module for both APIs (`api`), since `write_data` is the same code: the blocking
application writes by itself, the asyncio constructor starts a task that drains the
generator (`writer`). The task exists (`created`) before its first step
(`StartWriter`); cancelled before that it never enters the `try`, so its `finally`
does not run and END_STREAM is not sent. `queue` and `sent` are the native stream;
`Flush` fails what is queued when it ends. A callback looks at its future in one step
(`callback.seen` is what `cancelled()` or `done()` said) and resolves it in the next;
`cancelledLate` remembers that the application cancelled the remote-end future in
between, after `done()` said no. `FinallyClause` is the `finally` of
`_set_request_body_generator`, which the task, once started, enters after an exhausted
or failing generator, a failing write and a cancellation; `failed` remembers the last
three.

### MqttConnection and MqttRequestResponse

`held` and `cbRef` are the two kinds of strong reference to the `Connection`:
the application's, and the one a native callback makes out of the weak proxy.
The last one to go runs `Destroy`, on whichever thread that is. `slot` is
`on_connect` in the binding. A call of `connect()` first checks the slot (`checked`)
and stores into it in a later step (`StartAttempt`); two calls between the two can
overlap only without the GIL, which `overlapped` remembers. The binding is freed
with its slot (`Terminated`), also when an attempt is under way, whose future then
stays pending. `refs` are the Python callbacks the binding owns per
operation, and `tree` the native topic tree, which owns message callbacks. An
operation without topics (`op = "empty"`) is the resubscribe of no topics, whose
future stays pending.

`MqttRequestResponse` adds the client, whose `rr` keeps the native connection, the
requests, and one streaming operation. The destructor of the latter releases the
native operation and then writes to the binding (`DropStream`, `StoreNull`). With
the GIL the termination callback waits for the destructor; on free-threaded builds
it may free the binding first, so `StreamTerminated` may come in between, and no
property says that it does not. The two are checked together, since the interesting
state (a connection that nobody refers to, with a client on it) is a state of both.

### EventStreamRpc

`self` is `self_py`, for the connection (`Protocol`) and for each continuation. A
callback is a step where the handler begins and one where it returns or raises
(`Finally` is the `finally` clause that resolves the future); the application may
act in between. `Activate` sets `self_py` before it asks the native side and
clears it when refused. `inFlight` is ordered; a terminating message that was
written ends its stream. `OnMessage` is the arrival of a message, whose handler may
do all this while it runs and whose exceptions are only reported.

### IoDefaults and S3Client

`frames` is each thread's stack of nested `get_or_create_static_default()` calls;
a frame whose `got` is as long as `Depends` constructs its object. A thread may ask
for any of the three classes first. A constructor may raise (`ConstructFails`), which
unwinds all calls of the thread and gives their locks back. `uses` is what the binding
of an object references, `ended` the objects whose asynchronous shutdown has
completed. Releasing a default and the shutdown of an object that nobody references
may come at any moment, also between two steps of a thread that constructs something.

`S3Client` gives each thread in `ClientThread` a client on the default bootstrap;
every thread may also ask for a default and let it go (`LetGo`). `bootstrap[t]` is the
reference of `_S3ClientCore`, which goes with the native shutdown of the client
(`CoreDropped`), not with the Python object. Progress is counted in parts; `pending`
is `size_transferred`, recorded and not yet reported. `raised` is an exception of
`on_headers` or `on_body` kept for `_on_finish`; `unknown` has the requests whose
result named a checksum algorithm that Python does not know, for which `_on_finish`
raises between the future and `on_done`.

### Signing

`Referenced` says who keeps a native provider; `ConfigAlive` who keeps a config.
Providers are told apart by whether they answer within the call (`sync`,
`delegate`) or from a thread of their own (`async`, `chain`). A completed signing
first drops its references to config and request (`SigningDataDestroyed`), then
the native call releases the provider (`NativeCallEnds`). `ToNative` and
`FromNative` are the conversion of `expiration_in_seconds`, with `U64` scaled
down: `None` is 0, and the format `K` keeps the low 64 bits of larger numbers.

### Cbor, HttpHeaders, IotMetrics

The CBOR buffer is a sequence of elements, one per head of the encoding. Integers have
the widths `U64` and `Long` (the least `long` is `-Long`), scaled down, so that every
branch of `s_cbor_encoder_write_pylong` is taken; a `long` of 32 bits, as on Windows,
is `2 * Long < U64`. The code negates in `long` before the cast, so that the least one
overflows: `MinNegated` is what a build makes of it. The recursion of the code over
values and over depths is written as functions, so that it can be reasoned about:
`Nested[k]` are the elements of all values with less than `k` levels of values in them
(`MaxNesting` bounds them; it is a bound of the model only), and `Poppers(src,
epoch)[k][d][p]` is the item at place `p`, popped at one of the last `k` depths under
the limit or at the limit, which refuses it. A loop over items or parts is a function
of the turns made; a turn takes an element or is the last, so `Len(src)` turns are
enough. `LeaveItem` counts the depth down whatever the outcome. `written` and `popped`
are the values of whole, successful calls, which is what `CborRoundTrip` compares. The
values written are a constant, closed under the items of its lists and dictionaries
(`CborValues`); so are the headers, how a name is lowered, and what an SDK passes in
its metadata. In `HttpHeaders` a running generator is a record: the count it read when
it started, its next index, and the headers that were there then. `IotMetrics` keeps
Python dictionaries as sequences of pairs, since their order is observable; a factory
method of `TlsContextOptions` is an operator of its name. `MCData` picks one of the
three: they share no state.

## Runs

| Run | Bounds | Distinct states | Shows |
|---|---|---|---|
| `aio_stream` | 4 calls, 3 chunks, 2 header fields per block; readers and header waiters are cancelled | 275,450 | chunks reach calls in order, calls return unless cancelled, `ChunkChannel` is refined |
| `aio_cancel_reader` (violation) | 3 calls, 1 chunk | | one cancelled reader strands the readers behind it |
| `http2_stream` | 3 chunks | 21,270 | the body is framed, every write settles, a writer that started ends what it began, the completion is reported |
| `http_connection` | 2 streams | 4,085 | binding lifetime, pinned streams, everything abandoned is freed |
| `websocket` | 3 sends | 9,945 | core lifetime, sends settled once, a raising callback can close and does |
| `mqtt5_puback` | 2 PUBLISH, 2 more threads, all events | 13,833 | acknowledged or handed over, and nothing lost, next to PUBLISHes that met a mishap |
| `mqtt5_client` | 2 operations | 25,534 | binding and core lifetime, operations settled, one completion per handshake, an abandoned client is freed |
| `mqtt_connection` | 2 operations, 2 attempts, 1 request, 1 stream | 616,203 | binding lifetime, one attempt per slot and a slot given back, callbacks referenced exactly as long as needed, operations settle, a dropped connection terminates |
| `eventstream_rpc` | 2 continuations, 2 messages | 23,120 | callbacks find their object, no circular reference remains, futures settle whatever handlers raise |
| `s3_client` | 2 threads, one of which makes a client, 2 objects per class, 1 release, 1 request, 2 parts | 808,223 | one default at a time, calls return whichever class is asked first, reports add up, all that is abandoned shuts down |
| `signing` | 2 providers, 2 configs, 1 call, expirations `None`, one below `U64` = 4, `U64` itself and one above | 703,662 | objects live as long as calls use them, `replace()` keeps the expiration, calls settle |
| `data` | `U64` = 8, `Long` = 2, depth 2, 3 elements, values nested 3 deep, 3 headers, 2 user entries | 2,735,300 | decoding inverts encoding, depth is per call, iteration is exact, metrics merge as documented |

Why the bounds are enough. In the stream, a call can be ahead of the chunks, level
with them or behind; four calls and three chunks give every combination with one
future resolved, one being resolved and two in the queue, and one call beyond the last
chunk. Three chunks of a body are one sent, one queued and one in the generator. Two
streams share a connection and can outlive each other and the application's reference;
a third adds no new holder. Three sends are one queued, one being reported and one
refused or new. Two PUBLISH packets are needed so that a late closure of the first
runs during the second; two threads race for one closure. Two operations are one being
completed while another is called, cancelled or pending; with two attempts one is
pending while the other is made, and two operations are also a subscription and the
unsubscribe that removes it. Two continuations are one that ends while the other is
activated, two messages an activation and one behind it. Two threads and two objects
of each class are a default released while another thread constructs on top of it, and
two threads that nest from different classes are the least that could wait for each
other; two parts are one reported at once and one recorded. Two providers are a chain
and its member, two configs one and its replacement. Depth 2 has a value on the limit
and one beyond, three elements a container with content, `U64` = 8 with `Long` = 2
numbers on both sides of each width and a least `long` that cannot be negated. Names
of headers include one that Python lowers and the native comparison does not. The
theorems below do not depend on these bounds.

`CHECK_DEADLOCK FALSE` is used everywhere: an application may stop, a connection
that is freed is freed, and the bounded inputs run out. That nobody waits for ever
is stated by the liveness properties instead (`CallsReturn` for the locks).

### Fairness

Weak fairness of the callbacks says that application callbacks return and that
the event loop goes on. Beyond it:

- a stream that was activated completes (native promise on which `_on_complete`
  rests), and asyncio runs ready tasks (`Resume`, `PropagateCancel`);
- the connection's shutdown and stream completions are not postponed for ever by
  other callbacks of the same thread (strong fairness, since each callback
  disables the others while it runs);
- a websocket that is being closed reports unfinished sends and its shutdown;
- an MQTT 5 client that was released goes down. Nothing is assumed of one that
  was not: it may stay connected or disconnected and its operations may stay
  pending;
- an HTTP/2 stream sends what is queued or ends, and the generator of a body goes
  on (`WriterStep`);
- an MQTT 3.1.1 operation is answered, or failed, if the connection is up again and
  again or is being destroyed (strong fairness of `Answering /\ OnAck(o)`: the native
  client resends, and fails what is left when it goes down). Nothing makes a
  connection come up, so `OperationsSettle` speaks of those that do or are abandoned;
  connection attempts, disconnects and terminations end;
- messages that keep arriving on an rpc connection do not hold up its other
  callbacks for ever (strong fairness of `CallbackBegins`); one that is closing ends
  its streams and, though flushes and closed streams come in between, shuts down;
- a thread inside `get_or_create_static_default()` goes on when the lock it waits
  for is free for good (weak fairness only: `threading.Lock` may starve a thread while
  others ask for ever, so `CallsReturn` assumes that they stop), and native shutdowns
  complete. Running S3 requests need not finish;
- a native credentials fetch ends, by a timeout at the latest.

No fairness is assumed of the application: it need not read, acquire, invoke, set
done or drop anything.

## Proofs

All theorems hold for every value of the constants that satisfies the named
assumptions of the modules. Each rests on an inductive invariant that TLC checked
on the instance of the component's run, except `CborRead`, which says that places in
the buffer exist and cannot be enumerated. Components that share
a proof module have specifications of their own, each over its own variables:
`PubackSpec`, `RpcSpec`, `Http2Spec`, `HeadersSpec`, `MetricsSpec`, `CborSpec`.

Every invariant that a run checks is a theorem.

`HttpStreamProofs`, the response of an asyncio stream
- `TypeCorrect`.
- `DeliveryCorrect`: provided `wait_for_completion` is not cancelled, the i-th
  call gets the i-th chunk, and `b""` only beyond the last chunk of an ended
  stream. The property says nothing of the deques, so the invariant
  `DeliveryInv` adds `QueueShape` (one of the deques is empty, the other is
  numbered consecutively from the first call, or chunk, still to be served),
  `HandOver` (what a callback took out belongs to the chunk that just arrived or
  to calls beyond the last) and `EndPublished`. The assumption is needed: a task
  that cancels `wait_for_completion` makes a later reader see the end of a stream
  that is still open.
- `StreamImplementsChannel`: under the same assumption every step is a step of
  `ChunkChannel` or leaves it unchanged. `SetChunkResult` and `ResolveOne` are
  the deliveries; `Fresh` says that no result appears for a call not yet made.

`HttpConnectionProofs`: `TypeCorrect` (the count never goes below zero) and
`BindingLifetime`. `OwnershipInv` states that the count is the number of owners
(`InitialRef` and `ThreadRef`) and, in `Phases`, which positions of the callbacks,
of the capsule and of the native connection occur together, so that each release
is the release of a reference that is owned. `PinHolds`: a stream between its
activation and the end of `on_complete` has its Python object, and the object keeps
the connection's binding, whatever the application drops. `PinInv` adds what every
stream's count is made of, the application's reference and the pin. `activate()`
takes the pin after the native activation, and `on_complete` may give it back
first; the count is the same sum in both orders, because the caller of `activate()`
has a reference until it returns (`StreamPhases`).

`HttpStreamProofs`, HTTP/2 writes: `Http2TypeCorrect`, `Framing` (`BodyIsFramed`),
`CompletionHolds` (`CompletionReported`). `BodyInv` relates three sequences, what was
sent, what the native stream has queued and what was written or pulled: `Order`
(numbers increase through both queues and END_STREAM is the last of all), `Calls` (the
blocking writes are numbered by calls), `Pulls` (the task writes what it pulled last,
and only the write after the last chunk ends the stream) and `Whole` (while nothing
failed no chunk is missing, because the task waits for one write before it pulls the
next). `Reported` adds that only a cancellation can change the remote-end future
between the two looks `_on_complete` takes at it, so that a completion is lost only by
one in just this window (`cancelledLate`): a future cancelled before the callback
looks, or resolved by the peer, never costs it.

`WebSocketProofs`: `TypeCorrect`, `CoreLifetime`, `FramesAreSafe`,
`SendsAreSettled`, `ClosingIsSafe`. `WebSocketInv` counts the owners of the core,
ties `_current_incoming_frame` to the native position in a frame, keeps a ledger
of the sends and says who holds the capsule during each callback.

`Mqtt5Proofs`, the client: `TypeCorrect`, `BindingLifetime`, `OperationsAreSettled`,
`TransformIsCompletedOnce`. `ClientInv` adds `Handling` (the arguments live as
long as the handler, so the data's reference is theirs), `Completion` (the count
of completions by the state of the future and the handler), `Released` (only
dropping the `Client` terminates) and `Ledger` (the reported operation is
complete).

`Mqtt5Proofs`, the PUBACK: `PubackTypeCorrect`, `HandleIsControl`
(`UndisturbedHandleMeansControl`), `NoPubackLost` (`ConvertedPubackNotLost`). In
`PubackInv` the thread handles one PUBLISH at a time (`Position`), and for each
PUBLISH it is known what the two flags of the acquire closure say about the
native control (`Closure`), that without a mishap no other thread is inside the
closure, so that there is at most one handle and it has the control
(`Undisturbed`), and that a converted PUBLISH whose handling is over was acknowledged
or its control was taken (`NotLost`).

`MqttRequestResponseProofs`: `TypeCorrect`, `BindingLifetime`
(`BindingOutlivesCallbacks`), `AttemptReachesFuture` (`PendingAttemptInSlot`: as long
as the binding lives and no two calls of `connect()` overlapped, the callback of a
pending attempt is in the slot), `SlotReturns` (`SlotIsGivenBack`: the slot is taken
only while the native connection tries to connect), `ReferencesBalance`
(`CallbackReferences`) and `OperationsKeepConnection`, which is about the two
components together: while a request or a stream is under way the connection's binding
is there. `ConnectionInv` ties the capsule to the two strong references to the
`Connection` object and says that an operation never tried has left no reference;
`Separate` and `CallsHold` say that calls between check and store have overlapped if
there are two, and that they hold the `Connection`. `ClientReferences` is the chain
from operation to native client to binding, each link of which is dropped only after
the one before.

`S3ClientProofs`: `TypeCorrect`, `SingleDefault` (`OneDefaultAtATime`), `NoCircularWait`
(`SomeCallProceeds`), `RequestReport` (`RequestIsReported`). `S3Inv` first describes the
defaults: the nested `get_or_create_static_default()` calls of a thread descend in
the order of dependencies, and each that is making an object has the lock of a
class without default (`Stack`), which makes the count of objects exact (`Counted`);
a lock is held by a thread with a call of its class (`Holder`). `NoCircularWait`
follows: whichever class each thread asks for first, of the threads inside a call one
is not waiting for a lock. A thread that waits waits for one whose innermost
call is of a lower class (`WaitsDown`), and there are three. `Told` balances progress
reported with progress moved and the outcome with the future.

`LifetimeProofs`, signing: `TypeCorrect`, `ObjectsAreKept` (`CallsKeepTheirObjects`),
`ExpirationIsKept` (`ReplaceKeepsExpiration`). `KeepInv` says which references keep a
provider from shutting down: the application's, those of chains and delegates, of
live configs and of calls in flight (`Alive`, `Configured`), and that a signing
references the config it points to (`Signings`). `Expires` says that the native
expiration is the one asked for, cut to its width, after any number of `replace()`;
`RoundTrip` is the fact about the conversion: a native value survives the way to
Python and back. So `None` and every expiration from 1 to 2^64 - 1 is shown as it was
asked for, and of larger ones, which the code accepts, the low 64 bits or, when they
are 0, `None`. Providers and configs are different objects (`ObjectsAssumption`).

`LifetimeProofs`, event-stream RPC: `RpcTypeCorrect`, `SelfIsFound`
(`CallbacksFindSelf`), `SelfIsReleased` (`NoCircularReference`). `SelfInv` ties the
position of the event-loop thread to the native states (`LoopPhase`: which callback
can be running) and the `self` pointers of connection and continuations to both.

`DataProofs` has what needs an induction over data. The library's induction theorems
take an operator and cannot be used with the installed provers; the least element of
a set of naturals (`Least`, from `WFMin` and `NatLessThanWellFounded`) gives
`SetInduction`, a theorem about sets of numbers, and every induction is over the set
of the numbers for which something holds. For each recursive function a lemma first
shows that its recursion has a solution (`CollectedDef`, `FilledDef`, `FollowDef`,
`NestedDef`, `JoinedDef`, `PopItemsDef`, `PoppersDef`), since a function that is
chosen by its equation says nothing before that.

`DataProofs`, headers: `HeadersTypeCorrect`, `IterationHolds` (`IterationIsExact`), for
any names, any values and any way to lower a name. `WalkInv`: while nothing was taken
away, the headers of the start are a prefix of those there are, and the generator has
yielded what `Collected` has after the places it passed.

`DataProofs`, metrics: `MetricsTypeCorrect`, `MetricsHold` (`MetricsMerge`), for any
metadata of an SDK, of any length. `FilledAs` says of a dictionary filled from a list
that its keys are those of both and each value is the last one given
(`PutAllPairs`, `PutAllUnique`); `SelectKeys` that leaving out keys changes no other
value. `MetricsInv` has the metrics made by `CreateMetrics` from features that name
each id once (`CrtPart`), and options and contexts whose source is the certificate
they were made from (`SourceTrue`). Assumed (`MetricsAssumption`): an SDK's feature
list is a list of features, and `None` is no kind of certificate.

`DataProofs`, CBOR: `CborTypeCorrect`, `DepthHolds` (`DepthIsPerCall`), `RoundTripHolds`
(`CborRoundTrip`), for any depth limit, any `long` up to half of `U64`, any buffer
and any set of values closed under their items. A least `long` that the build cannot
negate is excepted in data items, and only that one. `Popped` says what any pop keeps,
also one that fails: it stays in the buffer, comes back at the depth it began
at, and was refused for its depth only after as many heads of containers as depths
were left; it goes by induction over those depths (`ItemsPop`), and inside
by induction over the turns of a loop. Between calls the decoder is then at depth 0
(`Settled`, in `CborInv`). For the round trip, `SameIntegers` shows that the two
integer encoders agree at every number. `ReadsBack` says that
where the elements of a value lie in the buffer a successful pop gives this value and
ends behind them (a pop may fail, at the depth limit or in the callback, and then the
calls that follow count no more). `LoopReads` has it for the loop over
a container's items, `BodyReads` for one value from that for its items, `ItemsRead`
for all depths. `CborRead` is the invariant: what was written lies in the buffer value
after value (`Laid`), and what was popped are the first of them, up to the place where
the decoder stands (`ReadOff`). Assumed (`CborValues`): keys of a dictionary differ and
can be hashed, as in Python, and the items of a value are values too.

Some theorems state more than a run checks: `FramesAreSafe` (no frame callback of a
WebSocket ends the process), `OperationsKeepConnection`, `NoCircularWait`, and action
properties on top of the invariants, about what no step may do:

- `NothingAfterTermination` (`TerminationIsLast`) of an MQTT 5 client, from `ClientInv`;
- `ForwardOnly` (`DecoderGoesForward`) of the CBOR decoder, from `CborInv` and `Popped`.

TLC checked each of them on the instance of its component's run as well.

Only model-checked: the liveness properties of the runs (`EveryCallReturns`,
`CallsReturnUnlessCancelled`, `WritesSettle`, `WriterEndsBody`,
`AbandonedConnectionIsFreed`, `RaisingShutsDown`, `AbandonedClientIsFreed`,
`OperationsSettle`, `DroppedConnectionTerminates`, `FuturesSettle`, `CallsSettle`,
`CallsReturn`, `AbandonedShutsDown`), since the prover does not handle fairness and
ENABLED.

## Disagreements between code and documentation

`_resolve_pending_chunk_futures` says it resolves all pending futures; a cancelled
one makes it raise, and those behind it are never resolved (run
`aio_cancel_reader`).

Other things met while modelling. The models follow the code, and the properties
are stated so that they speak of what the code does keep:

- `aio/http.py:449`: `get_next_response_chunk` takes a cancelled completion future
  for a finished stream and returns `b""` on an open one (`Cancellable` of the runs
  leaves `wait_for_completion` out, and the theorems assume it).
- `aio/http.py:373`: a stream that fails before its main header block resolves
  neither the status nor the headers future.
- `http.py:659`: cancelling `remote_end_stream_future` while `_on_complete` is
  between `done()` and `set_exception` makes it raise, and the completion future
  stays pending (excepted in `CompletionReported`).
- `aio/http.py:531`: END_STREAM is sent also after the generator raised, so a
  truncated body looks complete to the peer (excepted in `BodyIsFramed`); and a
  writer task that is cancelled before its first step sends none, so that the
  request stays open (`WriterEndsBody` speaks of tasks that started).
- `http.py:888`: the Python side lowers names as Unicode, the native side compares
  ASCII letters, so the two disagree on names outside ASCII (`Lower`, `AsciiLower`).
- `http_connection.c:206`: the settings callback does not give the GIL back when
  it cannot convert the settings.
- `websocket.c:223`: handshake headers that cannot be decoded are dropped.
- `mqtt5.py:1544`: a callback that acquires PUBACK control and then raises has a
  handle, yet the PUBACK is sent automatically; and, against the comment "On
  error, auto-invoke ... so it is not lost", a PUBLISH that cannot be converted is
  never acknowledged (`mishaps` in `Mqtt5Puback`).
- `mqtt5_client.c:1156`: `min_connected_time_to_reset_reconnect_delay_ms` is stored
  as the minimum reconnect delay (the delays are not modelled).
- `mqtt_client_connection.c:59`: a binding freed while an attempt is under way does
  not release `on_connect`, and the future of the attempt stays pending. On
  free-threaded builds two calls of `connect()` may both pass the check at `:729`
  before either stores at `:810`, and the second replaces the callback of the first
  (both excepted in `PendingAttemptInSlot`).
- `mqtt_request_response.c:504`: on free-threaded builds the termination callback may
  free the binding of a streaming operation before its destructor stores to it.
- `mqtt.py:798`: the test `packet_id is None` misses the 0 that resubscribing
  without topics returns; the future stays pending.
- `s3.py:851`: a cancelled `finished_future` makes `set_result` raise, and `on_done`
  is not called; nor is it when the result names an unknown checksum algorithm, for
  which `s3.py:856` raises after the future is resolved (both excepted in
  `RequestIsReported`).
- `auth_signing_config.c:89`: the format `K` wraps silently while `auth.py:624` asks
  only for a positive number: an expiration of 2^64 is stored as 0 and shown as `None`.
- `auth_signing_config.c`: the getter of a provider that is `None` returns `NULL`
  without an exception, so `replace()` of such a config raises `SystemError`.
- `auth_credentials.c:158`: the shutdown callback drops the reference to the delegate
  without taking the GIL, which it holds only when the shutdown ends within the
  capsule's destructor; the model takes it as one step.
- `cbor.py:115` and `:426` call functions that the native module does not have
  (`reset`, `reset_src`); `cbor.py:117` promises a bignum below -2^64, where the code
  raises; `cbor.c:91` negates in `long` before the cast, so that -2^31 in a data item is
  written as -2^64 + 2^31 where `long` has 32 bits; `write_list` of something that is no
  list writes the head of an array of 2^64 - 1 items before it raises (`cbor.c:141`); a
  float that is whole is written as an integer, hence read back as one; the number of
  an epoch tag counts as a level of its own, and when it is
  refused at the limit the missing value is still used (`cbor.c:651`; the model
  ends the use of the decoder there).
- `aws_iot_metrics.py:448`: `isdigit()` accepts digits that `int()` does not.

## Plan

Modelling is complete as far as the repository has state of its own, and every
safety property of a run is a theorem. Action properties like `TerminationIsLast` and
`DecoderGoesForward` could be proved in the same way for the components that have
none yet.

## Not modelled

- The native libraries, except as the source of callbacks.
- HTTP messages and proxy options, input streams and PKCS#11 options: containers
  and conversions without control of their own.
- Hashing, keys, checksums and XML, whose algorithms are native.
- Module glue, error translation, allocator, logging.
- The build service's canary tooling (`codebuild/`), which is no part of the library.
- Of modelled components: the read windows of HTTP streams and WebSockets
  (`update_window` passes a number on); the request of a signing; the reconnect delays
  of the MQTT clients; objects of the io classes that the application constructs
  itself; MQTT packet contents, `get_stats`, `on_message` and the adapter from an MQTT
  5 client to a 3.1.1 connection; events of streaming operations, which only call a
  listener; S3 result contents and `CrossProcessLock`; `AwsCredentials` and the other
  attributes of a signing config, which are values; native TLS contexts, trust stores
  and ALPN lists.
