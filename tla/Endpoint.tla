------------------------------ MODULE Endpoint ------------------------------
(***************************************************************************)
(* What the client and the server have in common: the tasks of a           *)
(* connection from the moment its transport is handed over to its end      *)
(* (src/src/server.rs, src/src/client.rs, src/src/connection/tasks.rs),    *)
(* and the ECS systems that publish what those tasks send.                 *)
(*                                                                         *)
(* Three channels join them: `incoming' (bounded, senders wait) carries    *)
(* the announcements and, for a stream, the packets; `transports' carries  *)
(* connections to their setup; `datagrams' is the lossy queue of a         *)
(* datagram endpoint, here at the grain of whole operations (LossyQueue    *)
(* has the details; its byte limit is usize::MAX in this use).             *)
(*                                                                         *)
(* A packet is the number of its read on its connection.  What the writer  *)
(* sends is left out: only whether a write fails matters here.             *)
(***************************************************************************)
EXTENDS Naturals, Sequences, FiniteSets

CONSTANTS
    Connections,      \* every ConnectionId that may be given out
    Datagram,         \* Protocol::DATAGRAM
    ReceiveCapacity,  \* receive_capacity
    SetupLimit,       \* concurrent setups of run_connections
    Budgets,          \* values events_per_frame takes; zero only pauses
    Policies,         \* values datagram_receive_overflow may have
    Panics,           \* a codec supplied by the application may panic
    MaxPackets        \* bound: packets read from each connection

ASSUME EndpointAssumption ==
    /\ IsFiniteSet(Connections)
    /\ Datagram \in BOOLEAN
    /\ ReceiveCapacity \in Nat
    /\ SetupLimit \in Nat
    /\ Budgets \subseteq Nat \ {0}
    /\ Policies \subseteq {"DropNewest", "DropOldest"}
    /\ Panics \in BOOLEAN
    /\ MaxPackets \in [Connections -> Nat]

VARIABLES
    stage,       \* the task that owns the connection, or how far it has come
    writer,      \* the send task
    cancelled,   \* disconnect_task, the cancellation token
    send_error,  \* the oneshot from the send task holds an error
    cause,       \* `error', a variable of the receive task
    received,    \* packets read so far
    transports,  \* the channel of connected transports
    incoming,    \* IncomingReceiver's channel
    datagrams,   \* DatagramPacketReceiver's queue
    dropped,     \* receive-side drops recorded on the transport handle
    frame,       \* what the ECS schedule is doing
    budget,      \* events the running system may still take
    commands,    \* deferred commands of the running system
    published,   \* EcsConnection.published
    registry,    \* ServerConnections or ClientConnections
    ended,       \* the end has been announced to the application
    last,        \* number of the last packet event
    delivered,   \* number of packet events
    asked        \* the application has called disconnect()

tasks == <<stage, writer, cancelled, send_error, cause, received>>
channels == <<transports, incoming, datagrams>>
ecs == <<frame, budget, commands, published, registry, ended, last, delivered>>
endpoint == <<tasks, channels, dropped, ecs, asked>>

(***************************************************************************)
(*  new         no transport yet                                           *)
(*  refused     turned down: too many are pending, or requests are refused *)
(*  requested   client: it waits in the channel of requests                *)
(*  connecting  client: connect_to_server() is running                     *)
(*  declining   client: the attempt failed; this is being sent             *)
(*  lost        client: the request task panicked before publishing it     *)
(*  announcing  its Established message is being sent                      *)
(*  handing     it is being sent to the setup task                         *)
(*  connected   it is in the channel of connected transports               *)
(*  splitting   into_split() is running                                    *)
(*  failing     into_split() failed; Closed is being sent                  *)
(*  receiving   the receive task waits in its select                       *)
(*  forwarding  the receive task has a packet to hand on                   *)
(*  finishing   the receive loop has ended                                 *)
(*  closing     Closed is being sent                                       *)
(*  reporting   the listener is being told                                 *)
(*  panicked    the receive task has been unwound                          *)
(*  done        nothing is left                                            *)
(***************************************************************************)
Stages == {"new", "refused", "requested", "connecting", "declining", "lost",
           "announcing", "handing", "connected", "splitting", "failing",
           "receiving", "forwarding", "finishing", "closing", "reporting",
           "panicked", "done"}

Causes == {"none", "intentional", "io", "read"}

Messages ==
    [type: {"established", "packet", "closed", "datagram", "declined"}, conn: Connections,
     n: Nat, cause: Causes]

EndpointTypeOK ==
    /\ stage \in [Connections -> Stages]
    /\ writer \in [Connections -> {"none", "running", "failed", "done", "panicked"}]
    /\ cancelled \in [Connections -> BOOLEAN]
    /\ send_error \in [Connections -> BOOLEAN]
    /\ cause \in [Connections -> Causes]
    /\ received \in [Connections -> Nat]
    /\ transports \in Seq(Connections)
    /\ incoming \in Seq(Messages)
    /\ datagrams \in Seq(Messages)
    /\ dropped \in [Connections -> Nat]
    /\ frame \in {"incoming", "applying", "datagrams", "publishing"}
    /\ budget \in Nat
    /\ commands \in Seq(Messages)
    /\ published \in [Connections -> BOOLEAN]
    /\ registry \in Seq(Connections)
    /\ ended \in [Connections -> BOOLEAN]
    /\ last \in [Connections -> Nat]
    /\ delivered \in [Connections -> Nat]
    /\ asked \in [Connections -> BOOLEAN]

AtLeastOne(n) == IF n = 0 THEN 1 ELSE n

\* incoming_channel: a bounded channel, never of capacity zero.
Capacity == AtLeastOne(ReceiveCapacity)

\* The channels hold what they were created for, and no more.
ChannelsBounded ==
    /\ Len(transports) <= Capacity
    /\ Len(incoming) <= Capacity
    /\ Len(datagrams) <= Capacity

AtZero == [c \in Connections |-> 0]
Never == [c \in Connections |-> FALSE]

EndpointInit ==
    /\ stage = [c \in Connections |-> "new"]
    /\ writer = [c \in Connections |-> "none"]
    /\ cancelled = Never
    /\ send_error = Never
    /\ cause = [c \in Connections |-> "none"]
    /\ received = AtZero
    /\ transports = << >>
    /\ incoming = << >>
    /\ datagrams = << >>
    /\ dropped = AtZero
    /\ frame = "incoming"
    /\ budget \in Budgets
    /\ commands = << >>
    /\ published = Never
    /\ registry = << >>
    /\ ended = Never
    /\ last = AtZero
    /\ delivered = AtZero
    /\ asked = Never

Room(channel) == Len(channel) < Capacity

Message(type, c, n) == [type |-> type, conn |-> c, n |-> n, cause |-> "none"]

ClosedMessage(c) == [type |-> "closed", conn |-> c, n |-> 0, cause |-> cause[c]]

Goto(c, from, to) == stage[c] = from /\ stage' = [stage EXCEPT ![c] = to]

Cancel(c) == cancelled' = [cancelled EXCEPT ![c] = TRUE]

Count(counter, c) == counter' = [counter EXCEPT ![c] = @ + 1]

-----------------------------------------------------------------------------
(* Announcing a connection, and its setup.                                 *)

\* Mutant of SendEstablished: without room the announcement is skipped.
SendEstablishedIfRoom(c) ==
    /\ Goto(c, "announcing", "handing")
    /\ incoming' = IF Room(incoming)
                   THEN Append(incoming, Message("established", c, 0))
                   ELSE incoming
    /\ UNCHANGED <<writer, cancelled, send_error, cause, received, transports,
                   datagrams, dropped, ecs, asked>>

\* `incoming.send(Established)' of establish() and publish()
SendEstablished(c) ==
    /\ Goto(c, "announcing", "handing")
    /\ Room(incoming)
    /\ incoming' = Append(incoming, Message("established", c, 0))
    /\ UNCHANGED <<writer, cancelled, send_error, cause, received, transports,
                   datagrams, dropped, ecs, asked>>

\* `connection_sender.send(..)', after which the permit is released
SendTransport(c) ==
    /\ Goto(c, "handing", "connected")
    /\ Room(transports)
    /\ transports' = Append(transports, c)
    /\ UNCHANGED <<writer, cancelled, send_error, cause, received, incoming,
                   datagrams, dropped, ecs, asked>>

\* run() is underway: it waits for into_split() or for room to report failure.
InSetup == {c \in Connections : stage[c] \in {"splitting", "failing"}}

\* run_connections: take the next transport while a setup slot is free
TakeTransport ==
    /\ transports # << >>
    /\ Cardinality(InSetup) < AtLeastOne(SetupLimit)
    /\ Goto(Head(transports), "connected", "splitting")
    /\ transports' = Tail(transports)
    /\ UNCHANGED <<writer, cancelled, send_error, cause, received, incoming,
                   datagrams, dropped, ecs, asked>>

\* run(): into_split() succeeded, both tasks are spawned
SplitSucceeds(c) ==
    /\ Goto(c, "splitting", "receiving")
    /\ writer' = [writer EXCEPT ![c] = "running"]
    /\ UNCHANGED <<cancelled, send_error, cause, received, channels, dropped,
                   ecs, asked>>

\* run(): into_split() failed
SplitFails(c) ==
    /\ Goto(c, "splitting", "failing")
    /\ Cancel(c)
    /\ cause' = [cause EXCEPT ![c] = "io"]
    /\ UNCHANGED <<writer, send_error, received, channels, dropped, ecs, asked>>

SendClosed(c, from, to) ==
    /\ Goto(c, from, to)
    /\ Room(incoming)
    /\ incoming' = Append(incoming, ClosedMessage(c))
    /\ cause' = [cause EXCEPT ![c] = "none"]
    /\ UNCHANGED <<writer, cancelled, send_error, received, transports,
                   datagrams, dropped, ecs, asked>>

SplitReported(c) == SendClosed(c, "failing", "done")

-----------------------------------------------------------------------------
(* receive_packets.  The select is biased: the writer's error is polled     *)
(* first, then the token, then the transport, so a packet is read only      *)
(* after both were found unset.  The writer may fail between the first two  *)
(* polls: the token can be seen while the error is not.                     *)

EndReceiving(c, from, why) ==
    /\ Goto(c, from, "finishing")
    /\ cause' = [cause EXCEPT ![c] = why]
    /\ UNCHANGED <<writer, cancelled, send_error, received, channels, dropped,
                   ecs, asked>>

SeeSendError(c) == send_error[c] /\ EndReceiving(c, "receiving", "io")

\* Mutant of SeeCancelled: only the writer's failure interrupts a read.
SeeCancelledByWriter(c) ==
    cancelled[c] /\ send_error[c] /\ EndReceiving(c, "receiving", "intentional")

SeeCancelled(c) == cancelled[c] /\ EndReceiving(c, "receiving", "intentional")

\* The transport can be read: neither earlier branch was ready.
Reading(c) == ~send_error[c] /\ ~cancelled[c]

ReceiveFails(c) == Reading(c) /\ EndReceiving(c, "receiving", "read")

ReceivePacket(c) ==
    /\ Reading(c)
    /\ received[c] < MaxPackets[c]
    /\ Goto(c, "receiving", "forwarding")
    /\ Count(received, c)
    /\ UNCHANGED <<writer, cancelled, send_error, cause, channels, dropped, ecs,
                   asked>>

\* Mutant of ForwardStream: without room the packet is dropped.
ForwardStreamIfRoom(c) ==
    /\ ~Datagram
    /\ ~cancelled[c]
    /\ Goto(c, "forwarding", "receiving")
    /\ incoming' = IF Room(incoming)
                   THEN Append(incoming, Message("packet", c, received[c]))
                   ELSE incoming
    /\ UNCHANGED <<writer, cancelled, send_error, cause, received, transports,
                   datagrams, dropped, ecs, asked>>

\* Streams: wait for room on `incoming'.
ForwardStream(c) ==
    /\ ~Datagram
    /\ ~cancelled[c]
    /\ Goto(c, "forwarding", "receiving")
    /\ Room(incoming)
    /\ incoming' = Append(incoming, Message("packet", c, received[c]))
    /\ UNCHANGED <<writer, cancelled, send_error, cause, received, transports,
                   datagrams, dropped, ecs, asked>>

\* Streams: the token ends the wait, and the packet is lost with it.
ForwardCancelled(c) ==
    ~Datagram /\ cancelled[c] /\ EndReceiving(c, "forwarding", "intentional")

\* Mutant of ForwardDatagram: an eviction is counted on the new packet's
\* connection.
ForwardDatagramBlaming(c) ==
    /\ Datagram
    /\ Goto(c, "forwarding", "receiving")
    /\ LET packet == Message("datagram", c, received[c])
       IN  IF Room(datagrams)
           THEN datagrams' = Append(datagrams, packet) /\ UNCHANGED dropped
           ELSE /\ datagrams' = Append(Tail(datagrams), packet)
                /\ Count(dropped, c)
    /\ UNCHANGED <<writer, cancelled, send_error, cause, received, transports,
                   incoming, ecs, asked>>

\* Datagrams: PacketForwarder::forward never waits.  The policy is fixed at
\* setup; choosing it anew at each overflow only adds behaviours.
ForwardDatagram(c) ==
    /\ Datagram
    /\ Goto(c, "forwarding", "receiving")
    /\ LET packet == Message("datagram", c, received[c])
       IN  \/ /\ Room(datagrams)
              /\ datagrams' = Append(datagrams, packet)
              /\ UNCHANGED dropped
           \/ /\ ~Room(datagrams) /\ "DropOldest" \in Policies
              /\ datagrams' = Append(Tail(datagrams), packet)
              /\ Count(dropped, Head(datagrams).conn)
           \/ /\ ~Room(datagrams) /\ "DropNewest" \in Policies
              /\ Count(dropped, c)
              /\ UNCHANGED datagrams
    /\ UNCHANGED <<writer, cancelled, send_error, cause, received, transports,
                   incoming, ecs, asked>>

\* Mutant of Finish: the oneshot is not looked at again.
FinishKeepingCause(c) ==
    /\ Goto(c, "finishing", "closing")
    /\ send_error' = [send_error EXCEPT ![c] = FALSE]
    /\ Cancel(c)
    /\ UNCHANGED <<writer, cause, received, channels, dropped, ecs, asked>>

\* After the loop: a waiting writer error takes precedence, then cancel, close.
Finish(c) ==
    /\ Goto(c, "finishing", "closing")
    /\ cause' = [cause EXCEPT ![c] = IF send_error[c] THEN "io" ELSE @]
    /\ send_error' = [send_error EXCEPT ![c] = FALSE]
    /\ Cancel(c)
    /\ UNCHANGED <<writer, received, channels, dropped, ecs, asked>>

\* Mutant of ReceivePanics: no drop guard, so that the send task stays.
ReceivePanicsUnguarded(c) ==
    /\ Panics
    /\ Reading(c)
    /\ Goto(c, "receiving", "panicked")
    /\ UNCHANGED <<writer, cancelled, send_error, cause, received, channels, dropped,
                   ecs, asked>>

\* The decoder panics; the drop guard cancels the token while unwinding.
ReceivePanics(c) ==
    /\ Panics
    /\ Reading(c)
    /\ Goto(c, "receiving", "panicked")
    /\ Cancel(c)
    /\ UNCHANGED <<writer, send_error, cause, received, channels, dropped, ecs,
                   asked>>

-----------------------------------------------------------------------------
(* send_packets.  A write needs a packet, and the application can send only *)
(* on a connection it has been told of.                                     *)

Unwind(c, to) ==
    /\ writer' = [writer EXCEPT ![c] = to]
    /\ Cancel(c)
    /\ UNCHANGED <<stage, send_error, cause, received, channels, dropped, ecs,
                   asked>>

\* The receive task will still look at the oneshot.
Listening(c) == stage[c] \in {"receiving", "forwarding", "finishing"}

WriteFails(c) ==
    /\ writer[c] = "running"
    /\ published[c]
    /\ writer' = [writer EXCEPT ![c] = "failed"]
    /\ send_error' = [send_error EXCEPT ![c] = Listening(c)]
    /\ UNCHANGED <<stage, cancelled, cause, received, channels, dropped, ecs,
                   asked>>

\* The task returns and its drop guard cancels the token.
WriterExits(c) ==
    /\ writer[c] = "failed" \/ (writer[c] = "running" /\ cancelled[c])
    /\ Unwind(c, "done")

\* The encoder panics.
WriterPanics(c) ==
    /\ Panics
    /\ writer[c] = "running"
    /\ published[c]
    /\ Unwind(c, "panicked")

-----------------------------------------------------------------------------
(* The ECS schedule, frame after frame: incoming_system, its commands, and *)
(* for datagrams then receive_datagram_packets and its commands.  A pause  *)
(* between two frames is a pause of incoming_system here.                  *)

TakeIncoming ==
    /\ frame = "incoming" /\ budget > 0 /\ incoming # << >>
    /\ incoming' = Tail(incoming)
    /\ commands' = Append(commands, Head(incoming))
    /\ budget' = budget - 1
    /\ UNCHANGED <<tasks, transports, datagrams, dropped, frame, published,
                   registry, ended, last, delivered, asked>>

IncomingDone ==
    /\ frame = "incoming" /\ ~(budget > 0 /\ incoming # << >>)
    /\ frame' = "applying"
    /\ budget' = 0
    /\ UNCHANGED <<tasks, channels, dropped, commands, published, registry,
                   ended, last, delivered, asked>>

\* The next command, of the given type, is applied.
Applies(type) ==
    /\ frame \in {"applying", "publishing"}
    /\ commands # << >>
    /\ Head(commands).type = type
    /\ commands' = Tail(commands)
    /\ UNCHANGED <<tasks, channels, frame, budget, asked>>

ApplyEstablished ==
    LET c == Head(commands).conn
    IN  /\ Applies("established")
        /\ registry' = Append(registry, c)
        /\ published' = [published EXCEPT ![c] = TRUE]
        /\ UNCHANGED <<dropped, ended, last, delivered>>

\* The event of a packet reaches the observers.
Deliver(packet) ==
    /\ last' = [last EXCEPT ![packet.conn] = packet.n]
    /\ Count(delivered, packet.conn)

ApplyPacket ==
    /\ Applies("packet")
    /\ Deliver(Head(commands))
    /\ UNCHANGED <<dropped, published, registry, ended>>

\* Mutant of RemoveConnection: the latest connection goes.
RemoveLatest(c) == SubSeq(registry, 1, Len(registry) - 1)

\* remove_connection keeps the connections with another id, in their order.
\* An id is pushed once, so one connection goes at most.
RemoveConnection(c) ==
    LET at == CHOOSE i \in DOMAIN registry : registry[i] = c
    IN  IF \E i \in DOMAIN registry : registry[i] = c
        THEN [i \in 1..(Len(registry) - 1) |-> registry[IF i < at THEN i ELSE i + 1]]
        ELSE registry

ApplyClosed ==
    LET c == Head(commands).conn
    IN  /\ Applies("closed")
        /\ registry' = RemoveConnection(c)
        /\ ended' = [ended EXCEPT ![c] = TRUE]
        /\ UNCHANGED <<dropped, published, last, delivered>>

\* A stream endpoint has no second system.
ApplyingDone ==
    /\ frame = "applying" /\ commands = << >>
    /\ frame' = IF Datagram THEN "datagrams" ELSE "incoming"
    /\ budget' \in Budgets
    /\ UNCHANGED <<tasks, channels, dropped, commands, published, registry, ended,
                   last, delivered, asked>>

\* try_recv_if finds a packet whose connection is published or cancelled.
DatagramReady ==
    /\ datagrams # << >>
    /\ published[Head(datagrams).conn] \/ cancelled[Head(datagrams).conn]

TakeDatagram ==
    /\ frame = "datagrams" /\ budget > 0 /\ DatagramReady
    /\ LET packet == Head(datagrams)
       IN  IF cancelled[packet.conn]
           THEN Count(dropped, packet.conn) /\ UNCHANGED commands
           ELSE commands' = Append(commands, packet) /\ UNCHANGED dropped
    /\ datagrams' = Tail(datagrams)
    /\ budget' = budget - 1
    /\ UNCHANGED <<tasks, transports, incoming, frame, published, registry, ended,
                   last, delivered, asked>>

DatagramsDone ==
    /\ frame = "datagrams" /\ ~(budget > 0 /\ DatagramReady)
    /\ frame' = "publishing"
    /\ budget' = 0
    /\ UNCHANGED <<tasks, channels, dropped, commands, published, registry,
                   ended, last, delivered, asked>>

\* Mutant of ApplyDatagram: the token is not looked at again.
ApplyDatagramUnchecked ==
    /\ Applies("datagram")
    /\ Deliver(Head(commands))
    /\ UNCHANGED <<dropped, published, registry, ended>>

ApplyDatagram ==
    /\ Applies("datagram")
    /\ IF cancelled[Head(commands).conn]
       THEN Count(dropped, Head(commands).conn) /\ UNCHANGED <<last, delivered>>
       ELSE Deliver(Head(commands)) /\ UNCHANGED dropped
    /\ UNCHANGED <<published, registry, ended>>

PublishingDone ==
    /\ frame = "publishing" /\ commands = << >>
    /\ frame' = "incoming"
    /\ budget' \in Budgets
    /\ UNCHANGED <<tasks, channels, dropped, commands, published, registry, ended,
                   last, delivered, asked>>

\* EcsConnection::disconnect, on a handle the application was given; it
\* changes nothing when the token is cancelled already
AppDisconnects(c) ==
    /\ published[c] /\ ~cancelled[c]
    /\ asked' = [asked EXCEPT ![c] = TRUE]
    /\ Cancel(c)
    /\ UNCHANGED <<stage, writer, send_error, cause, received, channels, dropped,
                   ecs>>

-----------------------------------------------------------------------------
ReceiveTask(c) ==
    \/ SeeSendError(c) \/ SeeCancelled(c) \/ ForwardStream(c)
    \/ ForwardCancelled(c) \/ ForwardDatagram(c) \/ Finish(c)

Transport(c) == ReceiveFails(c) \/ ReceivePacket(c) \/ ReceivePanics(c)

SendTask(c) == WriteFails(c) \/ WriterExits(c) \/ WriterPanics(c)

SplitEnds(c) == SplitSucceeds(c) \/ SplitFails(c)

IncomingLoop == TakeIncoming \/ IncomingDone \/ ApplyPacket \/ ApplyingDone

DatagramSystem ==
    TakeDatagram \/ DatagramsDone \/ ApplyDatagram \/ PublishingDone

-----------------------------------------------------------------------------
\* What the application has been told of a connection.
View(c) ==
    IF ended[c] THEN "closed" ELSE IF published[c] THEN "open" ELSE "unknown"

Lifecycle ==
    INSTANCE ConnectionLifecycle
    WITH view <- [c \in Connections |-> View(c)],
         registered <- {registry[i] : i \in DOMAIN registry}

\* An endpoint keeps the promise of ConnectionLifecycle: whatever the tasks and
\* the two ECS systems do, the announcement of a connection comes first and
\* once, packets come in the order they were read, DisconnectionEvent comes
\* last and once, and the registry lists exactly the connections in between.
KeepsLifecycle == Lifecycle!Spec

\* What the application has not been told yet, in the order it will be.
Pipeline == commands \o incoming

\* A connection ends with IntentionalDisconnection only if the application
\* asked for it, or its send task panicked: the error of a failed write is
\* never lost to the cancellation that the failing send task causes itself.
CauseKept ==
    \A i \in DOMAIN Pipeline :
        LET m == Pipeline[i]
        IN  m.type = "closed" /\ m.cause = "intentional"
                => asked[m.conn] \/ writer[m.conn] = "panicked"

\* Stream: the end of a connection that fails on the read side is announced
\* behind every packet that was read from it, and none of them is lost.
DeliveredBeforeEnd ==
    \A i \in DOMAIN Pipeline :
        LET m == Pipeline[i]
            ahead == {j \in 1..i : Pipeline[j].type = "packet"
                                     /\ Pipeline[j].conn = m.conn}
        IN  ~Datagram /\ m.type = "closed" /\ m.cause = "read"
                => last[m.conn] + Cardinality(ahead) = received[m.conn]

Of(c, queue) == Cardinality({i \in DOMAIN queue :
                               queue[i].conn = c /\ queue[i].type = "datagram"})

\* Datagrams: each packet read is held by the receive task, queued, deferred,
\* delivered, or counted as dropped on its own connection.
PacketsAccounted ==
    Datagram => \A c \in Connections :
        received[c] = (IF stage[c] = "forwarding" THEN 1 ELSE 0)
                      + Of(c, datagrams) + Of(c, commands)
                      + delivered[c] + dropped[c]

\* Datagrams: the receive queue is never blocked for good.  A packet that may
\* not be presented yet belongs to a connection whose announcement is already
\* on its way to the application.
NeverBlocked ==
    \A i \in DOMAIN datagrams :
        LET c == datagrams[i].conn
        IN  published[c] \/ cancelled[c]
            \/ \E j \in DOMAIN Pipeline :
                  Pipeline[j] = Message("established", c, 0)

\* A task of the connection has failed, or it has been cancelled.
Ending(c) ==
    cancelled[c] \/ stage[c] = "panicked" \/ writer[c] \in {"failed", "panicked"}

\* A connection that was cancelled, or one of whose tasks failed or was unwound
\* by a panic, loses both its tasks, and its end is announced to the
\* application: the drop guard of either task ends the other.  Only the
\* announcement is missing when the receive task itself panicked.
EndAnnounced ==
    \A c \in Connections :
        Ending(c) ~> /\ writer[c] \notin {"running", "failed"}
                     /\ \/ stage[c] = "panicked"
                        \/ stage[c] = "done" /\ ended[c]
=============================================================================
