# A TLA+ model of bevy_slinet

bevy_slinet connects a Bevy application to the network. Tokio tasks own the
sockets, ECS systems own the application's view, and bounded queues join the
two. This directory holds TLA+ models of its concurrent parts, the TLC
configurations that check them, and TLAPS proofs. Paths below are relative to
the library's `src/` directory.

## 1. Inventory

| Part | State | Operations | Interacts with |
|---|---|---|---|
| Lossy queue `connection/queue/lossy.rs` | items, bytes, handle count, receiver flag, two `Notify` | clone, drop, `try_send_where`, `send`, `recv`, `try_recv_if`, `close_and_drain` | raw UDP queues, the datagram event queue, outgoing datagrams |
| Outgoing queue `connection/queue/mod.rs` | bounded mpsc or lossy queue, transport handle | `try_send`, `recv`, drop with accounting | `EcsConnection::send`, send task |
| Connection handle `connection/mod.rs` | cancellation token, published flag, id | `send`, `disconnect`, `is_closed` | application, every task of the connection |
| Connection tasks `connection/tasks.rs` | writer state, oneshot for its error | `run_connections`, `send_packets` | endpoints |
| Server endpoint `server.rs` | four channels, permits for pending connections, registry | accept, establish, run, receive, two ECS systems | all of the above |
| Client endpoint `client.rs` | request channel, attempts in flight, registry, current connection | request, attempt, publish, run, receive, two ECS systems | all of the above |
| UDP listener and peers `protocols/udp/{listener,peer,stream}.rs` | address map, slots, one queue and closed flag per association | dispatch, push, split, receive, close, drops | server endpoint |
| UDP sending `protocols/udp/{stream,pacing,diagnostics}.rs` | pacing deadline, counters | send, wait | send task |
| Framing `protocols/framing.rs`, length codecs | partial frame | receive, send | TCP |
| Runtime `runtime/` | task tracker, root token, local thread | spawn, shutdown | every task |
| Scheduling and settings `scheduling.rs`, `connection/settings.rs` | limits | ordering of systems | ECS |
| Serializers, encryption `serializers/` | XOR position, mutex around a stateful codec | encode, decode | tasks |
| Application sessions `../examples/udp_application_sessions` | session table per peer, request automaton | handle, expire, retry | a UDP connection |

What is hard here:

* every queue is used from several tasks, and the lossy queue notifies after
  it has released its mutex, so a wakeup can be lost;
* a connection has two tasks, a token both of them cancel, a oneshot between
  them and two routes to the application; order and cause must survive this;
* datagram packets and lifecycle messages travel through different queues;
* a UDP association is taken apart field by field while the listener may
  already have given its address to a new one;
* queues fill up: streams wait, datagrams are dropped and must be counted;
* several connection attempts share slots, one channel and one resource;
* senders, the send task, the pacer, the socket and a disconnect race, and each
  packet is to be accounted for exactly once;
* shutdown races with tasks that spawn tasks and with a local thread that may
  fail on its own;
* a length prefix comes in pieces and a stateful codec must stay in step with
  its peer, while tasks are cut off anywhere;
* the session example lives on a network that loses, repeats and reorders.

`PROJECT.json` lists these as hazards, each with the line where it bites.

## 2. Modules

| Module | Models |
|---|---|
| `Notify` | `tokio::sync::Notify` as the queue uses it (external) |
| `AtomicQueue` | what the lossy queue promises its callers |
| `LossyQueue`, `LossyQueueProofs`, `MCLossyQueue` | the lossy queue; its `KeepsQueue` says that it implements `AtomicQueue` |
| `UdpPeers`, `MCUdpPeers` | the server side of UDP |
| `ConnectionLifecycle` | what an endpoint promises the application |
| `Endpoint`, `EndpointProofs` | tasks and ECS systems the client and the server share; its `KeepsLifecycle` says that they implement `ConnectionLifecycle` |
| `ServerEndpoint`, `ServerEndpointProofs`, `MCServerEndpoint` | the server |
| `ClientEndpoint`, `ClientEndpointProofs`, `MCClientEndpoint` | the client |
| `SendPath`, `SendPathProofs`, `MCSendPath` | sending: handles, outgoing queue, send task, pacer, UDP write half, counters |
| `Runtime`, `RuntimeProofs`, `MCRuntime` | the executor of the network tasks and its shutdown |
| `FramedStream`, `MCFramedStream` | one direction of a stream: codecs, frames, receive limit |
| `TransportProofs` | proofs about `UdpPeers` and `FramedStream` |
| `Sessions`, `SessionsProofs`, `MCSessions` | the session protocol of the UDP example |

### LossyQueue

One step is one critical section, or one `Notify` call made after it. `sp` and
`rp` are the program counters of the sending handles and of the receiver.
`items`, `bytes`, `senders`, `receiver_open`, `changed` and `space` are the
fields of the same names. The eviction walk calls `can_evict` for one item per
step with the mutex held (`lock`, `walk`); production code passes a predicate
that always accepts, and the model also covers one that refuses. `SendCancel`
and `RecvCancel` drop a waiting future, as a `select!` does. An item has a rank
and a running byte total as history, which is how the properties speak of order
and of sums without recursion.

`AtomicQueue` is the abstract specification: a push, a take, a close or the
report of the end takes effect in one step. A push evicts the least number of
oldest items that makes room, only under `DropOldest`, and a call that is refused
or given up changes nothing. `KeepsQueue` maps the fields to the abstract
variables and the receiver's way from a pop to its return to `holding`; the walk,
the waits and the notifications are stuttering. It is what entitles `UdpPeers`,
`Endpoint` and `SendPath` to use a queue through whole operations.

`Notify` keeps for each future whether it is waiting, was given the single
notification or was reached by `notify_waiters`, and whether a permit is
stored. Dropping a future that was given the single notification passes it on.

### UdpPeers

`stage` says who owns an association or how far its drop has come. Rust drops
fields in declaration order: a `UdpServerStream` leaves the map, cancels,
returns its slot and drains its queue last; a `UdpReadHalf` closes, drains,
leaves the map, cancels and returns its slot. `dispatch` holds the map's lock
from finding a peer to the end of `Peer::push`; closing and draining do not take
that lock, so they interleave with a push.

Abstractions: a raw queue is a number of datagrams, and its byte limit shows as
a push that is refused, or evicts, although there is room for one more. The
drop counters are one sum, updated with the step that causes the drop
(`stats()` promises no consistent snapshot). A datagram that is larger than
`MAX_DATAGRAM_SIZE`, cannot be queued for an unknown address, or finds no slot,
changes nothing and is not a step. The `try_send` into the queue of a new
association cannot fail, because its limits were checked before. The
disconnected branch of `Incoming::next` is not reachable: an entry leaves the
map only closed or by its own drop.

### Endpoint and ServerEndpoint

`stage[c]` follows a connection from task to task: establishing (`announcing`,
`handing`), channel (`connected`), setup (`splitting`, `failing`), receive task
(`receiving`, `forwarding`, `finishing`, `closing`, `reporting`). `writer[c]` is
the send task. `frame` is the ECS schedule: `incoming_system` takes up to
`budget` messages, their commands are applied one by one, then, for datagrams,
`receive_datagram_packets` and its commands. Tasks and `disconnect()` calls
interleave with each of these steps.

* The receive loop's select is biased. A packet is read only if neither the
  oneshot nor the token was ready, because a read that completes after a later
  cancellation could as well have completed before it. The token can be seen
  while the oneshot is set: the writer may fail between the two polls.
* `Finish` is what follows the loop: the oneshot is tried once more, the token
  cancelled, the reader closed. Only then is Closed sent.
* The application has a handle only after the connection was published, so
  `AppDisconnects`, `WriteFails` and `WriterPanics` require it. A second cancel
  changes nothing and is left out.
* The outgoing queue is abstracted away (`SendPath` has it): what matters here is
  whether a write fails. The datagram queue is used through whole operations. Its overflow
  policy is fixed at setup in the code and chosen per overflow in the model,
  which adds behaviours and hides none.
* A codec may panic (`Panics`): `run_task` catches it and the drop guards cancel
  the token.
* The registry keeps its order when a connection leaves it (`RemoveConnection`),
  since the client falls back to the last one.
* `events_per_frame` of zero only pauses delivery and is not in `Budgets`.
* Not modelled: a World that is dropped while tasks still send (every send then
  fails and the tasks end), failure to bind, retries of transient accept errors.

`ConnectionLifecycle` is the abstract specification: unknown, open, closed;
packets in reading order and only while open; streams without gaps, datagrams
never after `disconnect()`; the registry equals the open connections.
`Endpoint` instantiates it with `view` computed from `published` and `ended`, and
runs of the server and of the client check it as the property `KeepsLifecycle`.

### ClientEndpoint

A member of `Connections` is a request and the connection it may become.
`Observe` is the observer of a connection request: it never waits, so a full
channel is answered with a failure. `TakeRequest`, `CreateConnection` and
`Publish` are the loop over `buffer_unordered`: `Polling` says that the loop
polls requests and attempts only while it publishes nothing, which is what can
hold requests up. `connect_to_server()` is external and ends either way.
`RequestPanics` stands for a panic of `build_serializer`, which takes the task,
its requests and its attempts with it. `current` is the resource
`ClientConnection`; `Fallback` is what a closing connection leaves there. The
tasks of a connection and the systems are those of `Endpoint`, without the
report to a listener.

### SendPath

`sender` are threads that call `send()` on clones of one handle. A send reads the
token first and pushes afterwards. The channel of a stream first takes a permit
and then publishes, so the receiver can close in between; a lossy queue pushes
under its lock. `writer` is `send_packets` with the packet it holds, and the
`DataPacer`, the socket and the flag of the association for datagrams. Packets
are told apart only by their encoded size.

* `age` is the time since the last transmission. It does not pass while the pacer
  has something to do. `earliest` is history: the shortest spacing that any rate
  in force since the last transmission asks for.
* `SetSendRate` may set the value in force again, since `send_replace` notifies
  all the same. `rate.changed()` does not fail: the write half keeps the handle
  that owns the sender.
* What `SendsAccounted` leaves out is stated in it. `Reported`: a packet whose own
  error ends the send task is reported by that error and not counted; this
  includes a socket error that races with the closing of the association, which
  is not of the kind `ConnectionAborted`. `late`: a packet of a stream that got
  its permit before the receiver closed and is published after the drain was
  accepted and is neither sent nor counted. The counters are those of UDP, for
  which `late` is always zero.

### Runtime

A task is a future in `run_task`; it is tracked from its spawn to its drop.
`SpawnCheck` reads `stop` and `SpawnTrack` enters the tracker: a shutdown may come
in between, on another thread. `blocking` is the set of tasks whose code never
returns from a poll. The local thread leaves its loop when `stop` is cancelled or
when it panics, cancels and closes by itself, drops its local tasks and waits for
the tracker, parked until a waker unparks it. The app's shutdown waits for it
with a timeout. `wait_for_tasks` may time out, but the fairness does not rely on it.

### FramedStream

One direction of a connection. A byte is a digit of base `Base`; lengths of one
and of two bytes, both byte orders, and the codec of
`protocols/protocol_tests.rs` that asks for more bytes after it has seen the
first are all covered, because the codec is chosen in `Init`. The stream moves
single bytes, so that any cut that TCP makes is a behaviour, and either task may
end between two bytes. The payload codec is stateless or the XOR engine behind a
mutex; `CodecPanics` is a panic in the other direction's task, which leaves the
position anywhere and the mutex poisoned. The limits are the resources of the
receiving app: `Configure` changes one, `SyncLimits` is the system, `Setup` the
start of the tasks. `allowed` is history: the limits in force at some time since the
last `SyncLimits`. So are `stream`, the bytes of all frames, `marks`, where each
frame begins in it and which position the sender's codec had there, and `taken`,
how many bytes were read; the properties do not mention these three, the proofs
do. The operator `^` of `u8` is the constant `XorTable`, of which only that
applying it twice undoes it is assumed; `MCFramedStream` gives it the exclusive or.
Names carry the prefix `Stream` where `UdpPeers` has the same.

### Sessions

The client walks each channel through `Initial`, `Replacement`, `Echo`, `Closing`
and `Done`, repeating each request after `RETRY`; the server keeps the generation
of every channel and lets sessions and peers expire after `IDLE`. The network is
a set of packets that may still arrive, each any number of times, until `Lose`
removes it. The random identifier is drawn per channel and generation, so that the
pair stands for it. `Deadline` is the moment when the demo gives up. Not reached by
the model: `MAX_PEERS` and the eight channels of a peer. The client never sends
`Ping`. An error of `send()`, of a connection that is closed or whose queue is
full, is left out: `server_packet` and `drive_client` return it with `?` to Bevy's
error handler, and `drive_client` then also leaves `last_sent` of that request
unset and skips the requests behind it. Each app of the demo keeps its one socket
open and has far fewer packets under way than its queue takes, so this needs a
local socket that fails.

## 3. Runs

| Run | Bounds | Shows |
|---|---|---|
| `lossy_queue` | 2 handles, 2 items, 3 bytes, weights 1, 2, 4, 4 send calls | limits, byte accounting, FIFO, no stranded receiver or sender, final end, `AtomicQueue` implemented |
| `lossy_queue_live` | 2 handles, 2 items of weight 1, 4 calls | a waiting receiver is served, no sender waits on while its item fits |
| `udp_peers` | 2 addresses, 3 associations, 2 slots, queue of 2, 3 datagrams | slots, routing, accounting; everything is released once the listener is gone |
| `server_stream` | 2 connections, capacity 1, budget 2, 2 packets on one of them, panics, failing listener | lifecycle, causes, no loss before an end caused by the peer |
| `server_datagram` | 2 interchangeable connections, 1 packet each, queue of 1, both policies | lifecycle, accounting, no blocked queue |
| `server_live` | 2 connections, capacity 1, budget 1, 1 packet, panics | a connection that is cancelled, or a task of which fails or panics, is announced as closed and loses both tasks |
| `client_requests` | 3 interchangeable requests, 2 attempts, capacity 1, datagrams | one answer per request, the resource is the youngest connection |
| `client_live` | 2 requests, 1 attempt, capacity 1, 1 packet, panics, stream | lifecycle, every request is answered |
| `send_path` | 2 threads, 3 calls, queue of 1, sizes 2 and 3 for a payload of at most 2, rates 1, 2 and none | each accepted packet accounted for once, pacing, no packet and no disconnect held up |
| `runtime` | 3 tasks, any of them local or blocking | nothing runs after a clean wait, no lost wakeup, shutdown ends |
| `framed_stream` | 3 of 4 packets with 0, 1 and 5 bytes, base 4, 4 length codecs, 2 payload codecs, limit 1 or none, 1 change | received is a prefix of sent, no allocation past the limits |
| `sessions` | 1 channel, retry after 1, idle after 2 | agreement on generations and closing, success by retrying |

Why the bounds are enough to be interesting: weights 1, 2 and 4 against 3 bytes
give an item that needs one eviction, one that needs two and one that can never
fit; 4 calls let two senders wait while a third push arrives. A queue of two
can lose one item and still hold one while a sender waits, which is where waking
only after an empty queue would show. Three
associations on two addresses let one address be taken over while the other
uses up the slots. Capacity one for every channel of an endpoint makes each
sender wait for each other. Three requests let one be queued while two
attempts finish in either order, and let the connections end in any order;
the read side is left to the server's runs there. Three calls on a queue of one
fill it while one packet is held and one is dropped or evicts; sizes 2 and 3 give
an oversized packet and, with the rates 1 and 2, two different spacings. Three tasks
give a parent, its child and a task of the app or of the local thread. In base 4 a
packet of 5 bytes needs two digits for its length and wraps the XOR position; the
long packet begins like a short one, so that a wrong length shows. One channel
of the sessions already has all combinations of lost, repeated and late packets
of two generations; two channels, which interact only through the expiry of the
peer, are beyond five minutes.

Deadlock checking is off where the bounded supply ends or the system may stop:
`udp_peers`, `send_path`, `runtime`, `framed_stream` and `sessions`.

### Fairness

* `lossy_queue_live`: weak fairness of the steps of a call that has begun. No
  call has to be made, and no wait has to be cancelled. `SenderServed` needs
  items of equal weight, which is what the waiting `send()` gets: its only caller,
  `PacketForwarder::forward`, passes weight 1. With unequal weights it does not
  hold: `notify_one` may reach a sender that needs more room than there is, and an
  eviction signals no space.
* `udp_peers`: the listener finishes a push; owners split streams, read, notice
  a closed peer and finish a drop that has begun. Nobody has to close or drop.
* `server_live`, `client_live`: weak fairness of each connection's owner, of an
  exiting send task, of the setup task, of the accept or request task and of the
  schedule; `into_split()` and `connect_to_server()` end. Tokio's executor polls
  ready tasks and Bevy runs frame after frame. Tokio's channels serve waiting
  senders in order, which would justify strong fairness of the sends; the bounded
  number of packets makes weak fairness sufficient. `EndAnnounced` begins at a
  cancelled token, a failed or panicked send task or a panicked receive task, so
  that a drop guard that does not cancel violates it. It excepts the announcement after a panic of the receive task, `RequestsAnswered` a panic
  of the request task: nothing sends the message then.
* `send_path`: the send task is polled when it is ready, and time passes even if
  the rate changes again and again (strong fairness of `Tick`). A write need not
  end: `DisconnectEnds` holds with a socket that never takes the bytes.
* `runtime`: the local thread and the pool make progress, code outside `blocking`
  returns from a poll, and the app's `recv_timeout` runs out. The timeout of
  `wait_for_tasks` is not assumed.
* `sessions`: apps are updated, time passes, and the network delivers a packet that
  is sent again and again (strong fairness per packet). `DemoSucceeds` excepts
  the deadline, and a session that the network starved until it expired.

## 4. Proofs

All theorems hold for every value of the constants that the modules' named
assumptions allow: any finite set of handles, associations, connections,
threads or tasks, any limits, budgets, capacities and numbers of packets. The
assumptions say no more than that sets are finite and numbers are numbers,
positive where the code takes a `NonZeroUsize` or checks; for the framed stream
also that two packets have different encodings and that the exclusive or undoes
itself.

Each proof module states an inductive invariant, proves `Spec => []IInv`, and
derives the properties that the runs check on small instances. TLC has checked
every invariant on the instances of the runs as well.

`LossyQueueProofs` proves `TypeOK`, `WithinLimits`, `ByteAccounting`,
`FifoOrder`, `NoStrandedReceiver`, `NoStrandedSender`, `EndIsFinal` and the
action property `EvictOnlyToAdmit` (no run lists it, the refinement says more). `IInv` adds to these what makes them
inductive: the number of live handles is `senders`; whoever walks holds the
lock, and the walk's locals are the length and weight of the part not yet
passed; each item's `end` is the previous one's plus its own weight, so the byte
total is a difference of two ends, also after a prefix is removed; `left` is the
sequence 1, 2, 3, ... that the queue continues; and the state of each `Notify`
future agrees with the program counter of its owner. The wakeup properties need
the last part: a future that is enabled before the check is either still
waiting when something changes, or has been notified.

`QueueKept` is the refinement: `LossyQueue` implements `AtomicQueue` for any
limits, weights and number of handles. Beyond `IInv` it needs `EvictInv`: under
the lock, the walk has passed only items without which there still was no room.
When the walk ends, this is what makes the number of evicted items the least, and
`IInv` makes the walk's locals the abstract `Room`.

`TransportProofs` proves of `UdpPeers` `TypeOK`, `PeersBounded`, `OpenIsListed`,
`ListedAtHome`, `DatagramsAccounted` and `NothingLeftBehind`. The strengthening
says that a dispatch in progress concerns a listed association (`DispatchInv`:
a drop cannot unlist it while the lock is held), that a queue has its receiver
until the drain (`QueueInv`), and that unused associations are untouched
(`FreshInv`).

Of `FramedStream` it proves `ReceivedIsPrefix` and `NoAllocationPastLimit`, for
every byte size, set of packets and set of limits. The parts of `StreamInv`:

* `FramesInv`: between two marks the stream has the length of a packet as the
  length codec writes it, then its payload as the payload codec makes it at the
  position of the first mark; the position of the second follows.
* `WireInv`: what was read since the last frame or prefix, what is on the wire and
  what is still to be written continue each other in the stream.
* `ReadInv`: the reader stands in the frame behind those it has returned, and its
  codec, unless poisoned, where the sender's was when it made that frame. While
  it has an incomplete prefix it asks for what is missing of it, no byte of the
  payload.
* `LimitInv`: the limit in force is one that was configured since the last
  `sync_limits`, once one ran, and a reader that started has seen one run.
* `PoisonInv`: only the stateful codec is poisoned, and then nothing is decoded.

The lemmas below them say that each length codec reads what it wrote, for a
complete prefix and for each incomplete one, and that the payload codec at the
same position undoes itself.

`EndpointProofs` is about the tasks and systems that the two endpoints share.
`EndpointNext` is what a step of either may do to them: a step of one
connection's tasks, of the ECS schedule, of the setup task, or a change of
stage that concerns the endpoint alone (`Arrange`). The invariant `EndpointInv`
is preserved by every such step. Its parts:

* `TaskInv`: why a token is cancelled. While the receive task runs, the
  application asked, the send task panicked, or the error of the send task is in
  the oneshot, because the send task puts it there before it cancels. `CauseKept`
  is not inductive without this.
* `FrameInv`: the commands under way belong to `incoming_system` or to
  `receive_datagram_packets`. `Told` is what the first has not announced,
  wherever it is: in the commands of this frame or in the channel.
* `AnnounceInv`: the messages about one connection come once and in order, the
  announcement, the packets, the end, and agree with the stage of its tasks and
  with what is published. This carries the refinement and `NeverBlocked`.
* `RegistryInv`: the registry lists each open connection once.
* `EndMessagesInv`: the cause in a Closed message stays justified on its way.
* `StreamInv`: the packets of a stream that are told are the next ones, without
  gap or repetition; by the time it ends they are all told. A bijection between
  their places and their numbers gives the count in `DeliveredBeforeEnd`.
* `DatagramInv`: what is queued is newer than what was taken, and that is newer
  than what was delivered, per connection. This is the order that the abstract
  `Deliver` asks for.
* `PacketsAccounted` itself.
* `ChannelsBounded`: the channel to the setup, the incoming channel and the queue
  of datagrams hold no more than their capacity; every step that adds has room or
  evicts (`StaysBounded`).

`ServerEndpointProofs` and `ClientEndpointProofs` show that the steps of the
two plugins are such steps, add what is their own, and prove `TypeOK`,
`CauseKept`, `DeliveredBeforeEnd`, `PacketsAccounted`, `NeverBlocked` and
`KeepsLifecycle` of each: the endpoint implements `ConnectionLifecycle` for any
number of connections, with publishing mapped to `Open`, an applied packet to
`Deliver`, an applied Closed to `Close`, a call of `disconnect()` to `Disconnect`
and the rest to stuttering. The server adds
`ReportsInv`, the bound of the channel to the accept loop. The client adds
`ClientTypes` with the bound of the channel of requests, and
`AnswerInv` (a refused request was told, or one message on its way will tell
it) and proves `AnsweredOnce` and `CurrentIsLatest` from it and the above.

`SendPathProofs` proves `SendsAccounted` and `Paced`. Permits count against
the capacity (`PermitInv`), a call is answered at most once (`CallInv`), an
error means that the loop was left (`ErrorInv`), and the shortest spacing since
the last transmission is at most that of the rate in force (`RateInv`), which
is all that is known when the rate changes while a packet waits. `Typed` is
`TypeOK` without the bounds of the counters, which follow from `CallInv` and
`SendsAccounted`.

`RuntimeProofs` proves `CleanIsFinal` and `NoLostWakeup`: whoever closes the
tracker has cancelled the token before (`StopInv`), a notification is sent only
when no task can be polled again (`NotifiedInv`), and an empty tracker has
notified the wait (`WaitInv`).

`SessionsProofs` proves `SessionsAgree` for every set of channels. What the
client may still be told, on a network that keeps any packet as long as it
likes, is never newer than the server's record (`RepliesInv`).

Only model-checked: the liveness properties (`ReceiverServed`,
`SenderServed`, `AllReleased`, `EndAnnounced`, `RequestsAnswered`,
`HeldPacketLeaves`, `DisconnectEnds`, `ShutdownEnds`, `DemoSucceeds`), since the
prover does not handle fairness. `TypeOK` of `ClientEndpoint`, `SendPath`, `Runtime` and
`Sessions`, and `StreamTypeOK` of `FramedStream`, are proved and listed by no run.

## 5. Not modelled, and the plan

Left out for good:

* serializer backends, which wrap serialization crates and hold no state;
* binding, accepting and socket options of TCP, the client's read from a
  connected UDP socket, the validation of UDP options: single calls of a library
  or pure checks, whose results are constants or choices of the models;
* the browser runtime, a variant on the browser's event loop;
* plugin construction, system-set labels, accessors;
* the other examples and the benchmarks: `lobby_and_battle_servers` and
  `multiple_connections` show the API on reliable transports, with handlers that
  run one after the other.

Next:

1. The queues of `UdpPeers`, `Endpoint` and `SendPath` as instances of
   `AtomicQueue`, in place of operations of their own on it.
2. Two channels of the sessions, whose liveness is beyond the present bounds.
