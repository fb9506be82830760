# A TLA+ verification of the CAF incubator (libcaf_net)

The repository is the incubator of the C++ Actor Framework: `libcaf_net`, a
network layer for actors (multiplexer, socket managers, protocol stacks, BASP),
and `libcaf_bb`, a few actor building blocks. This directory holds TLA+ modules
translated from that code, TLC configurations that check them on small
instances, and TLAPS proofs for all values of the constants. `PROJECT.json`
lists, machine-readably, the components, the source lines behind every
definition, the runs, the hazards and the theorems.

Paths below are relative to `src/libcaf_net/`.

## 1. Inventory

| Component | State | Operations | Interacts through | What makes it correct |
|---|---|---|---|---|
| Message queue of a BASP connection (`src/message_queue.cpp`) | next ID, next ID to ship, sorted vector of early messages, a lock | `new_id`, `push`, `drop` | called by workers and by the multiplexer's thread | messages leave in ID order, the assertions of `push` hold, nothing stays behind |
| BASP workers and remote message handler (`src/worker.cpp`, `caf/net/basp/remote_message_handler.hpp`) | hub of idle workers; payload, header and ID of the message at hand | `launch`, `resume`, `handle_remote_message`, inline handling | scheduler threads, message queue, actor registry | delivery as by one thread, no ID is lost |
| Multiplexer with pollset updater (`src/multiplexer.cpp`, `src/pollset_updater.cpp`) | pollset, managers, pipe, write lock, shutdown flag | `register_reading`, `register_writing`, `init`, `poll_once`, `run`, `shutdown`, `close_pipe` | any thread writes into the pipe; handlers call back into it | pollset and masks agree, references balance, shutdown ends the loop |
| Socket manager (`src/socket_manager.cpp`) | event mask, reference count, abort reason | `mask_add`, `mask_del`, `register_*`, event callbacks | multiplexer, protocol stack | see multiplexer and actor shell |
| Actor shells (`src/net/abstract_actor_shell.cpp`) | mailbox, owner pointer with mutex, response handlers | `enqueue`, `consume_message`, `try_block_mailbox`, `add_multiplexed_response_handler`, `quit`/`cleanup` | any thread enqueues; the write events of the manager consume | no lost wake-up, no dangling owner, every message processed or bounced once |
| Stream transport (`caf/net/stream_transport.hpp`) | read buffer with offsets and thresholds, write buffer | `configure_read`, `begin_output`, `end_output`, read and write events | socket below, protocol layer above | bytes neither lost nor repeated, buffers never stuck |
| Length-prefix framing (`caf/net/length_prefix_framing.hpp`) | upper bound of the receive buffer, offset of the message being written | `begin_message`, `end_message`, `consume` | stream transport, application | a FIFO channel of messages |
| WebSocket (`caf/net/web_socket/*`, `src/detail/rfc6455.cpp`) | handshake status, opcode and payload of a fragmented message | handshake, `consume`, pong, close | stream transport, application | messages reassembled from fragments, pings answered, only bad peers rejected |
| BASP application (`src/net/basp/application.cpp`) | connection state, pending resolves, monitored actors | handshake, resolve, monitor, down, actor messages | peer, endpoint manager, workers | every lookup is answered once and rightly, proxies die with their actors and not before |
| Endpoint manager and queue (`src/endpoint_manager.cpp`) | queue of events and messages | `enqueue`, `resolve`, `new_proxy`, `local_actor_down` | any thread enqueues, the write event consumes | no lost wake-up |
| Transport workers, datagram transport (`caf/net/transport_worker_dispatcher.hpp`, `caf/net/datagram_transport.hpp`) | workers by endpoint and by node, packet queue, recycled buffers | dispatch, `add_new_worker`, read and write events | endpoint manager | a node's messages go to one worker in order, caches stay bounded |
| Connection acceptor (`caf/net/connection_acceptor.hpp`) | accept socket, limit of connections | `init`, read event | multiplexer, sockets | no connection waits unnoticed, no socket leaks |
| Middleman and backends (`src/net/middleman.cpp`, `src/net/backend/*`) | multiplexer, its thread, backends, peers | `init`, `start`, `stop`, `make_acceptor`, `connect`, `emplace` | multiplexer | the thread ends with the middleman |
| Sockets, IP, host | the file descriptor | system calls | - | a socket that could not be set up is closed |
| Examples (`src/examples/net`) | actors of a feed server, a calculator and a terminal client | `caf_main`, behaviors of the actors | all of the above | peers are up to date, each line has one reply, the program ends |
| Building blocks (`libcaf_bb`) | position in a container or a stream | pull with credit | CAF streams | every item once |

The application of BASP, the endpoint manager, the backends and the actor proxy
are in the repository but not in its CMake build at this commit; the message
queue and the workers are built and tested.

What is hard here: threads that meet in the pipe of the multiplexer, in a
mailbox and in the message queue; callbacks that change the registration which
their caller read before; plain pointers to counted objects; shutdown racing
with registration; a byte stream cut anywhere. `hazards` in `PROJECT.json` gives
the lines.

## 2. Plan

Modules, in order of importance. All steps are done.

1. `MessageQueue`, `OrderedDelivery`, `BaspDelivery`: ordered delivery.
2. `Multiplexer`: event loop, pipe, shutdown.
3. `ActorShell`: mailbox, wake-up, ownership.
4. `StreamTransport`, `LengthPrefix`, `MessageChannel`: streams and framing.
5. `BaspDeliveryProofs`, of the message queue too.
6. `Rfc6455`, `WebSocket`: frame codec, fragmentation, control frames and
   handshake, on `StreamTransport`; refines `MessageChannel`.
7. `EndpointManager`, `BaspPeers`: two BASP nodes, or a node and a foreign
   program.
8. `Datagram`: dispatcher, workers and datagram transport, on `EndpointManager`.
9. `Sockets`, `WsFeed`, `WsCalculator`, `WsClient`: acceptor and middleman in
   whole programs that compose the parts above.
10. `ActorShellProofs`, `MultiplexerProofs`, `DatagramProofs`,
    `LengthPrefixProofs`.
11. `BaspPeersProofs`.
12. `WebSocketProofs`, with the codec of `Rfc6455`.
13. `WsClientProofs`.

Left for later: proofs for the servers of step 9 (`WsFeed`, `WsCalculator`), whose
properties are only model-checked.

No module that is to be proved about uses a RECURSIVE operator.

## 3. Modules and how they correspond to the code

**`MessageQueue`.** The members `next_id`, `next_undelivered` and `pending` are
variables; each operation holds the lock from its first to its last statement
and is one action. `ReadyRun` and `InsertionPoint` are the two loops of `push`.
`issued` stands for the callers: the IDs they drew and did not hand back.
`shipped` is the history of what was enqueued at receivers (`NoReceiver` for a
dropped ID, which moves `next_undelivered` on without effect).

**`OrderedDelivery`.** The abstract specification: one thread that numbers and
finishes messages. It is the sentence at `caf/net/basp/message_queue.hpp:17`.

**`BaspDelivery`** extends the queue with its callers. `Launch` and `RunInline`
are the two branches of `application::handle_actor_message`, `Resolve` and
`Ship` the two halves of `handle_remote_message` (the second starts at the
call of `push`), `Return` the end of `worker::resume`. A payload is reduced to
whether it deserializes and which actor it addresses. `Terminate` removes an
actor from the registry (external). The hub is a set, because the code does not
depend on which idle worker it pops.

**`Multiplexer`.** `pollset_` and `managers_` change together and are one
sequence. The thread's position (`mpx`) has the index `i` and the number
`presult` of `poll_once`; one action is one iteration of its loop, or one
message that the updater reads. `register`, `add`, `del`, `mask_del`
and `ApplyEvents` are the functions of the same purpose. The loop of
`multiplexer::shutdown` is an action per entry: `UpdateShutdown` sets the flag,
`NoReading` and `ShutdownStep` are the two cases of the loop's body,
`ShutdownEnds` leaves it for `close_pipe`.
Handlers of managers may register any operations and return either result.
Clients take a reference (`Call`), then the lock (`Lock`), then block in
`write()` while the pipe is full (`Write`). `torn` is a history variable: the
managers whose handlers registered something in an event in which they asked to
stop. Failing system calls are left out, except for sockets on which `poll()`
reports an error. The debug-only and the logging code is left out.

**`ActorShell`.** Mailbox states are those of CAF's intrusive FIFO inbox
(external: `push_back`, `try_block`, `close`). `Enqueue`, `LockOwner`,
`RegisterWriting` and `Unref` are the steps of `enqueue`; `CloseMailbox` and
`DetachOwner` those of `cleanup`; `WriteEvent`, `ConsumeMessage`, `WriteMore`,
`WriteFails` and `DoneSending` those of a write event of `stream_transport` with
an application that uses its shell as the tests do. `refs` counts the references
to the manager; the thread that drops the last one runs the destructor, which
calls `quit()`. The multiplexer is reduced to pipe, polled operations and
shutdown; it is assumed that mask and pollset agree, which holds for this
application (`UntornIsPolled` in `Multiplexer`): it registers nothing in an
event in which it asks to stop. `Guarded` says whether somebody outside the
multiplexer owns the manager as long as other threads send to its shell.

**`StreamTransport`** has the receive buffer as a record and the pieces of
`handle_read_event` and `handle_write_event` as operators from record to record.
A byte is its position in the stream, so that a lost, repeated or moved byte
shows. **`LengthPrefix`** makes the actions of a sender and a receiver from
them. Frames carry the size in the header and the number of bytes that follow;
`Complete`, `Consumed`, `Payloads`, `Needed` and `Malformed` say what the loop
of `consume` computes. `IsMessage` tells the frames that carry a message from
headers without one; `Messages` counts them and `MessageFrame` finds them. An empty message makes the sender fail after its header
was put into the buffer, as `end_message` does; input that does not start with a
header would be delivered as garbage (`Aligned`); `SendHuge` is a peer that
announces more than the limit. **`MessageChannel`** is the abstract FIFO.

**`Rfc6455`** is the frame codec on bytes: `assemble_header`, `decode_header`,
`mask_data`. Numbers are exact below 2^31 and saturate above. Sums over bytes
and bits are written out, at most four terms each, which is all that a number
below 2^31 needs and what the provers can work with.

**`WebSocket`** puts `server` or `client` with `framing` on `StreamTransport`. A
read event is a sequence of steps: `ReadEvent`, `Read`, then one step per
iteration of the loop in `consume` (`ConsumeNoFrame`, `ConsumeFrame`) or for the
HTTP header (`ConsumeNoHeader`, `ConsumeHeader`), and `Return` to the transport
with the new receive policy. The bytes of frames are real bytes; those of an HTTP
header are tokens, because the code looks at its end and at a few fields of which
`http.passes` holds the ones that are as they should be. The peer (`Peer...`) may
break the protocol in any way `FrameKinds` and `HttpSizes` allow; `conduct` is
the judgement of RFC 6455 on it. A peer may send its HTTP header before it has
read anything. `Read(n)` is a `read()` that returns `n` bytes, for an `n` in
`Cuts`: as many as there are and fit, or fewer, if the read would end at a fill
level of the buffer in `ShortReads`. With `ShortReads = Nat` no number is left
out; the constant lets TLC look at a few. `WriteEvent` writes any number of units
of the write buffer. It asks the application for more (`prepare_send`) whenever
`handshake_complete()`, as the code does, whatever has become of the application.
`Fail` includes that `poll_once` writes back the events it polled before, which
loses a registration for writing.

**`EndpointManager`** is the queue between user threads and the write event, as
operators on a record; `BaspPeers` and `Datagram` both use it.

**`BaspPeers`** has a record per node for `basp::application` (state, peer,
pending resolves) with its queue, proxies and BASP workers (`tasks`; how these
order messages is `BaspDelivery`). The actions are the handlers of the
application, the functions of endpoint manager and proxies that users call
(`Resolve`, `Send`), and the life of local actors: termination runs the functors
attached to the actor, then removes it from the registry. The payload of a packet
is the value it serializes, or `Garbage`. A write event handles all events of the
queue; the model gives its outcome in closed form, the i-th lookup getting the
ID that `next_request_id_++` has reached by then (`request_id`). If `foreign`,
the peer sends anything from `ForeignPackets`.

**`Datagram`** has one record for the transport with dispatcher and workers; a
worker is its position in the order of creation. Buffers are counted, since only
the sizes of the caches matter. `phase` is the position in
`endpoint_manager_impl::handle_write_event` or in the loop of reads, so that
pushes of other threads fall between any two of its steps. `pollout` is the copy
of the events that `poll_once` made before the read event; `GivesUp` is a read
event that returns `false`, after which that copy, less reading, is written back,
or the entry deleted. `torn` says that a registration for writing was lost that
way: the mask has it, the pollset does not, and `register_writing` does nothing
from then on (`Registered`).

**`Sockets`** gives, for each function that opens a socket, the set of its
outcomes when any system call in it may fail: whether it succeeds and which
sockets are open afterwards. **`WsFeed`** is the program
`examples/net/web-socket-feed.cpp` with acceptor, connections, shells and the
feed actor; a connection is polled or not, its protocol is left to `WebSocket`.
**`WsCalculator`** is a connection of `examples/net/web-socket-calculator.cpp`
after its handshake: the line buffer, the requests to the worker with their
timeouts, the shell's mailbox and the write buffer. A character of the input
says only what the line it is in will be: a request, other JSON or no JSON. The
acceptor of that program is the one in `WsFeed`; `MCWsServers` runs one of the
two servers.
**`WsClient`** is `examples/net/web-socket-client.cpp` from `middleman::init` to
`middleman::stop`. The main thread calls the manager's `init()` while the
multiplexer's thread may already handle its events; the steps of `init()` are
actions, and `raced` remembers that an event fell between them. `client_consume`
is `client::consume` for one header or frame: a valid response, an invalid one, a
header that is too large, a message, or a frame at which the framing gives up (a
close frame or a bad one). Only a valid response needs the request, since it has
to contain its key.

Definitions named "Mutant" in their comment are not part of any specification:
each is a plausible mistake that, put in place of the definition after it, must
violate a property. They show that the properties depend on the code.

## 4. Runs

| Run | Bounds | Result |
|---|---|---|
| `BaspDelivery` | 4 messages (IDs 0..3), 2 workers and the inline handler, 1 mortal receiver, all payloads | holds |
| `Multiplexer` | 2 managers, 2 client threads, 3 calls, pipe of 3 (symmetric) | holds |
| `MpxShutdown` | 1 manager, 2 clients, 3 calls, pipe of 3 | holds |
| `MpxClose` | 1 manager, 2 clients, 4 calls, pipe of 1 | `CloseReturns` is violated |
| `ActorShell` | 2 threads and the loop, one message of each kind, one call of the shell, guarded | holds |
| `ShellDangling` | 1 thread and the loop, not guarded | `OwnerExists` is violated |
| `LengthPrefix` | 3 frames with payloads of 0, 1, 3; header 2, receive buffer 3, limit 4, wire of 3 bytes, 2 reads per event | holds |
| `WebSocket` | either role; HTTP headers of 2, 14, 15 bytes with at most one fault; 3 frames of 9 kinds; limits 14 and 139; 2 reads per event, ending anywhere in `ShortReads`; 2 mask keys | holds |
| `BaspPeers` | 2 nodes, an actor on each, 2 listeners, 3 calls, one stop; or a foreign program with 3 packets of 19 kinds | holds |
| `Datagram` | 2 nodes (symmetric), 1 endpoint and the unknown one, 2 pushes, 2 datagrams, 2 calls of `add_new_worker`, caches of 1, 2 reads per event | holds |
| `WsServers` | the feed with 2 peers, 1 stock with 2 values, 2 updates; or the calculator with 2 frames of 5 kinds and a buffer of 4 | holds |
| `WsClient` | 2 addresses, 3 lines of the user, a response and 2 frames of the server | holds |

Why the bounds are enough for the cases that matter:

- *BaspDelivery*: three handlers can be at work at once while a fourth message
  has to wait for one; IDs can be stashed before, between and after others, and
  a run of two stashed messages can be shipped at once. The proofs remove the
  bound on everything but liveness.
- *Multiplexer*: two managers make the position of an entry matter when another
  one is deleted; three calls suffice for register, shutdown and a late request,
  from two threads. In `MpxShutdown` the pipe holds all calls, so that nobody
  blocks on it; what happens otherwise is the question of `MpxClose`.
- *ActorShell*: two threads besides the loop meet in every pair of steps of
  `enqueue`, `cleanup` and the write event; there is a message of each kind that
  the code tells apart, and both an answer and a timeout for the same call.
- *LengthPrefix*: the frames of payload 3 exceed the receive buffer and make the
  policy grow; a read can end within a header, within a payload or after several
  frames. The header has 2 bytes instead of 4, which keeps "part of a header" a
  case of its own.
- *WebSocket*: the frames cover both lengths of the length field that fit in the
  limit, first, middle and last fragments, each control frame, a reserved bit and
  a frame that just exceeds the limit without a mask; an HTTP header is below, at
  and above its limit. `ShortReads = {1, 129}`: besides reading all there is, a
  read may end after one byte, within the header of a frame, or one byte before the
  end of the longest frame (within it, if it is masked), so that the rest comes in
  a read of its own; the proofs have any set of numbers here. Three frames make a message of three fragments, and a message
  between two control frames.
- *BaspPeers*: two lookups can be under way at once, by name and by ID, with
  messages between them; every step of the termination of an actor can come
  between the steps of lookup, monitor and message. Of a foreign program, two
  packets pass the handshake and a third meets every handler.
- *Datagram*: a node can be found, created by a message, created by a datagram or
  added in any order; a cache of one is empty, full and overflowing.
- *WsServers*, *WsClient*: each system call fails in some behaviour; two peers
  fall between the updates in all orders. Two frames of the calculator's peer
  hold up to four lines, a line across both of them, empty lines and each kind of
  bad line, and can exceed the buffer. A line of the client's user can come
  before, during and after the loss of the connection, and the server can refuse,
  send too large a header, close or break the protocol at each of these times.

### Properties

- `BDInv`, `SingleThreaded`: messages leave in the order of the wire.
- `IdsAccounted`: the two `CAF_ASSERT`s of `push` hold for any caller, and no ID
  is lost.
- `OnlyAbandonedBlocks`, `EventuallyShipped`: a message is shipped unless it, or
  one before it, was given up by its handler.
- `PollsetSound`: the pollset has one entry per manager, none without events
  (`SoundEntries`), agrees with the masks except for managers that registered
  and stopped in one event (`UntornIsPolled`), and stays meaningful for the loop
  in `poll_once` while the updater changes it (`UpdaterIsFirst`).
- `RefsBalanced`, `ShutdownShrinks`, `ShutdownTerminates`.
- `ActorShell`: `NoLostWakeup`, `NeverDangling`, `Accounted` (each message and
  each request has one outcome), `MessagesSettle`.
- `BuffersMove` (reads have room, output is armed), `IsChannel`, `AllDelivered`.
- `WsReadHasRoom`, `WsIsChannel`, `AllConsumed`: the same for WebSocket.
  `OnlyBadPeersFail`: no proper peer is rejected. `OutputSound`: pongs carry what
  the pings carried, the HTTP header is the first output, and an application that
  was not initialized neither gets nor sends anything.
- `RightAnswer`, `AllAnswered`: lookups. `NoFalseDown`, `DeadProxiesGo`: proxies.
- `Datagram`: `NoLostWakeup`, `InOrder`; the limits of the caches and the
  agreement of the dispatcher's maps are part of its `TypeOK`.
- `OutputInSync`: a peer of the feed gets the current value of every stock
  (`InSync`), each line of a peer of the calculator has one outcome, and results
  keep the order of the lines (`EachLineOnce`). `NoLeak`: sockets.
  `ServersSettle`: acceptor and feed (`Settles`), and every line is answered
  (`LinesAnswered`).
- `NotStranded`, `ProgramEnds`: client program.

### Fairness

- `BaspDelivery`: weak fairness of every handler. The scheduler runs every
  worker that was enqueued, and nothing in a handler blocks.
- `Multiplexer`: the threads keep running; `poll()` reports the pipe if it has
  messages or is hung up. No socket needs to become ready, nobody needs to call.
  `FlushingSpec`, for `ShutdownTerminates` only, adds that a socket which is
  polled for writing is reported as writable and that `handle_write_event`
  eventually has nothing left; without it a peer that never reads keeps the loop
  alive, as the code intends.
- `ActorShell`: the threads run on; write events come again and again while the
  manager is polled for writing, and eventually finish (strong fairness, as
  other handlers run in between); the owner does not keep its manager forever.
  No message has to be sent, no socket has to fail.
- `LengthPrefix`, `WebSocket`: a socket with room is reported as writable, one
  with data as readable. The peer need not send anything. In `WebSocket` a manager
  that stays registered eventually has a write event that takes all of the buffer
  from an application that is done (`Flush`).
- `BaspPeers`: each node's read events, write events and workers come if they
  can, terminating actors finish. Users, actors and the foreign program need do
  nothing.
- `WsServers`: the acceptor, the feed's mailbox and the closing of connections
  are handled; nobody has to connect, leave or complete a handshake. The
  calculator's worker and write events run on, and its peer reads: of writes that
  are tried again and again some take all of the buffer (strong fairness). No
  timeout has to elapse.
- `WsClient`: the three threads run on; neither user nor server has to act.
- `Datagram` has safety properties only.

Some conditions are written as `[]<>~CanX \/ []<><<XStep>>_vars`, which is weak
fairness with the enabling condition spelled out: TLC evaluates it much faster.

`Waiting` steps (`Multiplexer`, `ActorShell`, `LengthPrefix`, `WebSocket`) stand
for a system in which every thread is blocked or idle for want of input, so that
deadlock checking finds real ones only. `BaspDelivery`, `BaspPeers`, `Datagram`
and `WsServers` may stop when their bounds on inputs are reached.

## 5. Where the code does less than it says or seems to

Two runs show disagreements with the documentation:

1. **Shutdown with a full pipe** (`MpxClose`). The pipe's write end blocks under
   `write_lock_`, which `close_pipe` needs in the only thread that reads the
   pipe. It takes as many unread requests as the pipe holds after the updater
   read the shutdown message; the model's capacity of one stands for that.
2. **Owner pointer of a shell** (`ShellDangling`). `owner_` is a plain pointer
   that is reset in the destructor of the manager; `enqueue` may make a counted
   reference from it in between. Under `Guarded` this cannot happen.

Others appear as the exceptions that passing properties have to make. Each
property shows that the exception is the only one.

- `OnlyAbandonedBlocks`: `handle_remote_message` returns early on a malformed
  payload, a missing destination or a dead receiver without calling `drop` for
  its ID (`remote_message_handler.hpp:46`); all later messages of the connection
  stay in `pending`.
- `UntornIsPolled`: `poll_once` works with a copy of the events from before the
  handler ran (`multiplexer.cpp:206`). A handler that registers for writing and
  then fails loses the registration while its mask keeps it. In `WebSocket` this
  is why the answer 431, or a pong in the event in which reading fails, is never
  written.
- `OnlyBadPeersFail`: control frames between the fragments of a message, which
  RFC 6455 allows, are taken for a missing continuation frame
  (`framing.hpp:207`).
- `OutputSound` (`HandshakeFirst`): an invalid response ends a client's handshake
  as well (`client.hpp:143`), so that the abort reaches an application that was
  never initialized; and if the socket was polled for writing too, a write event
  then asks this application for output (`client.hpp:79`), which may be sent. An
  application that was aborted is asked as well. `WsClient` shows the consequence as the end `crash`:
  `app::abort` of the example uses its null `self_`.
- `OutputSound` (`PongsAnswerPings`): a mask key of 0 from `rng_` makes a client
  send an unmasked frame (`framing.hpp:290`); the payload is still right.
- `AllAnswered`: lookups that are under way when a connection breaks are never
  answered; nothing visits `pending_resolves_` then. Once the multiplexer is gone
  `resolve` reports an error.
- `NoLostWakeup` (`Datagram`): a packet whose write fails stays at the front of
  the queue (`datagram_transport.hpp:192`), and nothing behind it is sent
  (`broken`). A read event that answers a datagram, or creates a worker that
  greets its peer, and returns `false` for a later datagram or error
  (`datagram_transport.hpp:78`, `88`) loses the registration for the packet, as
  under `UntornIsPolled`, and every later one (`torn`): the manager is then polled
  for nothing and what is enqueued is never looked at.
- `InOrder` (`Datagram`): `emplace` keeps the first of two workers for an
  endpoint or node, the later one is only in the list of workers. A worker that
  `write_message` creates has no endpoint; its packets go to the default one.
- `TypeOK` (`Datagram`): a header buffer that finds the header cache full is
  recycled as a payload buffer.
- `NoLeak`, `Sockets`: `make_connected_tcp_stream_socket` sets up its guard after
  `child_process_inherit` (`tcp_stream_socket.cpp:50-52`), so that a failure of
  the latter leaks the socket; `WsClient` has that outcome and claims nothing of
  it. The acceptor's functions have their guard in time, as `NoLeak` shows.
- `Settles`: a failing `accept` or `init` of one connection ends the acceptor
  (`connection_acceptor.hpp:63`). Peers in the queue then notice, no later one is
  served.
- `LinesAnswered`: that `prepare_send` returning `false` "aborts the application
  and closes the socket" (`web-socket-calculator.cpp:158`) holds for writing only
  (`stream_transport.hpp:255`). After a response that is an error, such as the
  timeout of a request, the manager stays polled for reading; the error text is
  in the write buffer, and as the mailbox is not blocked no later response wakes
  the manager. Replies to bad lines do not start it either, since the buffer is
  not empty.
- `EachLineOnce`: the error for a bad line is sent at once and may overtake the
  results of earlier lines.
- `NotStranded`: `init()` in the main thread is not synchronized with the
  multiplexer (`web-socket-client.cpp:283`), and `configure_read` registers
  before it sets the size (`stream_transport.hpp:89-92`). An event in between may
  leave the request unsent or the response unread.

Found while reading, without a bearing on a property: `nodelay()` in
`stream_transport::init` is never compiled, since `handle()` is a
`stream_socket` (`stream_transport.hpp:130`); the two error codes of
`accept` are swapped (`tcp_accept_socket.cpp:127-132`); the lowest value of a stock is
computed as `min(high, val)` (`web-socket-feed.cpp:118`); the worker of the
calculator adds `int32_t` values of the peer without a check
(`web-socket-calculator.cpp:113`).

## 6. Proofs

Assumptions: those named in the modules (`MQAssumption`, `BDAssumption`,
`ShellAssumption`, `MpxAssumption`, ...): special values are distinct from
ordinary ones, bounds are natural numbers, sizes fit. Nothing restricts the
number of workers, threads, managers, endpoints or messages. Each module has one
inductive invariant, which TLC checked before it was proved (all but that of
`WebSocket`, see there), a lemma per action
or per group of actions that change the same things, and theorems that follow
from the invariant.

`BaspDeliveryProofs`, the queue. `MQInv` is the inductive invariant. That messages are
shipped in order (`ShipsInOrder`) is not inductive: it needs that the pending
messages are sorted and lie beyond `next_undelivered`, that IDs which are still
out lie in the window and are not pending already (`IssuedInWindow`), and that
no ID of the window is forgotten (`NoneForgotten`). Lemmas state what the two
loops of `push` find (`ReadyRun`, `InsertionPoint`) and what insertion into and
cutting of a sorted sequence preserve. Theorems: `QueueInvariant`,
`QueueShipsInOrder`, `QueueAssertions`, `QueueEmpties` (nothing waits when all
IDs were handed back), `QueueRefines` (safety part of `OrderedDelivery`).

`BaspDeliveryProofs`, delivery. `BDInv` adds that each drawn ID belongs to the one handler
at work on it until it is pushed or given up (`OwnedIds`) and that workers in
the hub are idle; without these a worker could push an ID twice. The proof
reuses the preservation lemmas of the queue for the steps that call it.
Theorems: `DeliveryInvariant`, `DeliveryAssertions`, `DeliveryLosesNone`,
`DeliveryAccounts` (the two together, as the run states them), `DeliveryWaits`,
`DeliveryRefines`.

`ActorShellProofs`. `ShellInv` has six parts besides the types. `NoLostWakeup` is
not inductive, since it says nothing of an open but empty mailbox: `Awake` says
that an open mailbox has the manager awake before the message comes, and
`Phases` that a write event runs only while the manager is polled for writing.
`OneOutcome` and `OnePlace` give `Accounted`. `Counted` says that `refs` is the
number of places that hold a reference; with `KeptAlive` it gives
`NeverDangling`. `Guarded` is a hypothesis of that property only: without it the
run `ShellDangling` is the counterexample. Theorems: `ShellInvariant`,
`ShellTypes`, `ShellWakes`, `ShellAccounts`, `ShellNeverDangles`.

`MultiplexerProofs`. Handlers and messages change the registry in three ways: an
entry gets other events, an entry goes, an entry comes. The first half of the
module shows that each keeps `SoundReg`, the second that each step is one of
them. `MpxInv` holds what `PollsetSound` is silent about. Writing is never
forgotten (in `SoundReg`), or the loop of `shutdown()` could leave an entry with
no events; poll results are a part of what was asked for (`Asked`), or a handler
would run for an operation its manager never registered and its return would
reach `add` in the middle of the scan; the updater is the first entry or the
pipe is empty and closed (`UpdaterStays`), so that its messages are never left
behind; `NoInput` is the invariant of the loop in `shutdown()`; `Messages` says
who may write into the pipe. `Counted` is the arithmetic behind `RefsBalanced`:
references in the pollset, in the pipe, with callers and with the owner.
Theorems: `MpxInvariant`, `MpxTypes`, `MpxPollsetSound`, `MpxRefsBalanced`,
`MpxShutdownShrinks`.

`DatagramProofs`. `DgInv`: `Phases` and `Awake` for the wake-up (the queue is
blocked only while empty; whoever unblocks it registers the manager; packets are
left only in a registered or broken transport; or the registration was torn),
`Settled` (a torn manager is polled for nothing and runs no event), `Timeouts` (a
timeout in a queue
is no longer armed, so it fires once), and `Order`: written packets precede the
packets in the transport, which precede the messages in the queue, and all of
them go to the endpoint that `by_node` names (`Routed`), whichever workers are
added meanwhile. Theorems: `DatagramInvariant`, `DatagramTypes`,
`DatagramWakes`, `DatagramInOrder`.

`LengthPrefixProofs`. `LPInv`: the frames follow each other (`Chained`); read
buffer, wire and write buffer hold, in this order and without gap, the end of
the stream (`Stream`); and unless the receiver failed its buffer starts with the
header of a frame, all messages before which were delivered, and holds less than
this frame, for which the receive policy has room once the header is there
(`Boundary`). From this follow `BuffersMove` and, with lemmas on what `consume`
finds in an input that starts with a frame (`ConsumeStops`, `NextHeader`,
`PayloadsAre`), that each step is a step of `MessageChannel` or none. Theorems:
`FramingInvariant`, `FramingTypes`, `FramingBuffersMove`, `FramingIsChannel`,
the last a full refinement for all sizes of messages, buffers and chunks.

`BaspPeersProofs`. `IInv` has two halves. For the listeners: a lookup is in the
queue of its node (`QueuedOnce`), under one ID in `pending_resolves_`
(`PendingOnce`), or answered, in one of these places at a time; a node that
stopped does not write (`Stopped`), so the lookup that stays in its queue, which
`resolve` reports as an error already, is never answered a second time. This
holds against any peer. For nodes that run this code, `GoodTraffic` says of all
packets on the wire and in `hdr_`, of the messages with the workers and of the
queued events: a request carries the path of the listener that waits under its
ID, a response names the actor this listener asked for, an actor the peer is
told of is in the registry or has terminated (`Known`), and a down message is
about one that has terminated. It stays true because actors do not come back and
IDs are not used again (`Grows`), for which `RequestIds` and `PendingFacts` show
what a write event with any number of lookups does to the IDs. Most actions make
or answer no lookup; `QuietStep` treats what they share. `RightAnswer` is part of
`IInv`; `NoFalseDown` follows since only `handle_down_message` and `Stop` drop
proxies. Theorems: `PeersInvariant`, `PeersTypes`, `PeersRightAnswer`,
`PeersNoFalseDown`.

`WebSocketProofs`. The first part is about the codec, for all keys and lengths
below 2^31: `NetworkInverse` (reading undoes writing in network order),
`MaskFacts` (masking undoes itself), and `Decode`: given any prefix of a frame,
`decode_header` asks for more, rejects a reserved bit or an unknown opcode, or
returns what `assemble_header` put in. The numbers 126 and 65535, where the
length encoding changes, are cases of this proof.

`WSInv`, the inductive invariant, claims a history. `OnlyBadPeersFail` and
`WsIsChannel` speak of frames, the state has only bytes, so that neither is
inductive. `Past` says that there are frames which, one after the other, are all
that the peer has sent, with the state of the peer (unfinished message, finished
messages, pings) at the `Mark` before and after each; only the last may break the
protocol. `Present` says that, while the endpoint reads, its layers are in the
state of the peer at one of these marks (`Synced`: opcode and payload of a
fragmented message, messages delivered, number of pongs), and that what is left
in the buffer and on the wire is exactly what the peer sent after that mark; or
the handshake is not complete, and the HTTP header of the peer comes first.
Steps of the peer add a frame to the past (`PastSend`, `TracksSend`), a
step of `consume` goes from one mark to the next (`TracksFront`, `FrameSeen`,
and a lemma per kind of frame), reads and writes move bytes and units but leave
the input and the output as they are. `RxOK` has what the receive
policy promises: the buffer holds less than `max_read_size` whenever `consume`
returns, for which `DecodeShort` (a header has at most 14 bytes) and
`receive_size >= 14` are needed. `LayersOK` keeps the order of handshake,
application and output, after a failure too: that an application sends before its
`init()` takes a client whose handshake failed.

The history is bound by an existential quantifier over sequences, so TLC cannot
evaluate `WSInv`; it checked the other parts and, on the runs, all that follows.
The assumption on the constants (`WSAssumption`) is that header buffers have 14
bytes at least (2048 in the code), that lengths and keys fit in the model's
integers, that there is a key, and that the peer does send payloads up to
`max_frame_size`. `ShortReads` is any set of numbers: the theorems for
`ShortReads = Nat` are about a `read()` that may return any count. Theorems:
`WsInvariant`, `WsTypeCorrect`, `WsRoom`,
`WsGivesUp`, `WsOutput`, and `WsRefines`, the refinement of `MessageChannel` for
all frames and, as just said, all ways to cut the stream.

`WsClientProofs`. `TypeOK` (when the program ends, its thread is joined, nothing is
polled and its socket is closed) and `NotStranded` are about states that several
threads bring about, so neither is inductive. `CInv` adds who keeps whom alive
(`Owner`: a manager that is gone is in neither pollset nor pipe, a shell closes
with its manager, and only a shell attaches itself to the terminal), that no
shutdown is under way while there is a manager (`Stopping`), that nothing is written
or read on the connection before the request is in the buffer (`Silent`), and that reading and
writing are due from the step of `init()` on that asks for them (`Armed`). The
mailbox of the shell is the point where `Armed` could break: a write event may stop
writing only if it also blocks the mailbox, so that the next line asks for writing
again. `Connects` states what the sequence of system calls in `Sockets` leaves open,
for any list of addresses. Theorems: `ClientInvariant`, `ClientTypes`,
`ClientNotStranded`; the assumption is `ClientAssumption` (sockets are named by
numbers other than 0, which stands for no socket).

Only model-checked: all liveness properties, which are beyond the prover
(`ShutdownTerminates`, `CloseReturns`, `AllDelivered`, `AllConsumed`,
`EventuallyShipped`, `MessagesSettle` and the others of section 4), and the
properties of the example servers (`ServerTypeOK`, `OutputInSync`, `NoLeak` of
`WsFeed` and `WsCalculator`). `OutputInSync` needs facts about filtering and sorting
sequences of any length (`SelectSeq`, `SetToSortSeq`), whose definitions are
recursive: that takes an induction over data, which the prover does not do.
`ServerTypeOK` depends on the same operators. `NoLeak` does not and could be proved,
for sets of peers of any size; the run has it for every failing system call.

## 7. Not modelled, and limits

- The backends `tcp` and `test`: not part of the CMake build at this commit, and
  `tcp.hpp` can not be (it copies the multiplexer and includes a header that does
  not exist). With them go `middleman::connect`, `resolve` and `remote_actor`.
- Building blocks (`libcaf_bb`): sources for the streaming API of the CAF core;
  credit and scheduling are outside the repository.
- Conversions of enumerations to strings, constants, wrappers of one system call
  each: no state of their own.
- Manual multiplexing of the middleman, in which user code runs the loop.
- `StreamTransport`: the branch for a full read buffer (lines 167-190), which
  neither framing layer reaches (`BuffersMove`, `WsReadHasRoom`), and upper layers
  that use the delta.
- `LengthPrefix`: at most one message per `prepare_send`; the application never
  tries to send more than the limit; one direction of the connection.
- `WebSocket`: messages of the application are remembered, not encoded (pongs run
  through the same code); numbers of 2^31 and above are one number; the text of
  HTTP headers and the hash of the key are reduced to whether they are right.
- `BaspPeers`: requests carry paths and IDs, not bytes; the transport below keeps
  order and completes reads. One node stops at most, and does not restart:
  nothing in the code reconnects.
- `Datagram`: an application writes at most one packet per callback; a timeout
  is known by its ID. Sockets on which `poll()` reports an error only, whose entry
  is deleted, are left to `Multiplexer`.
- `WsFeed`, `WsCalculator`, `WsClient`: one interface, no signals; the content of
  messages is the value they report. A frame of the calculator's output is
  written as a whole or not; each frame of its input is a read event of its own,
  except that a rejected one may follow others in the same event.
- `BaspDelivery`: IDs are naturals up to a bound, not 64-bit words that wrap.
- `ActorShell`: down and exit messages are handled like ordinary ones; actors
  linked to or monitoring the shell are not modelled.
