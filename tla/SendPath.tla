------------------------------ MODULE SendPath ------------------------------
(***************************************************************************)
(* The way of an outgoing packet: EcsConnection::send on any number of     *)
(* handles, the outgoing queue (src/src/connection/queue/mod.rs), the task *)
(* send_packets (src/src/connection/tasks.rs), and for datagrams the       *)
(* pacer, the socket and the counters of src/src/protocols/udp.            *)
(*                                                                         *)
(* Packets are told apart only by their encoded size, which is chosen when *)
(* one is encoded, so the queue is the number of packets in it.  LossyQueue *)
(* has the details of the queue of a datagram connection.                  *)
(*                                                                         *)
(* Time is the age of the last transmission.  It does not pass while the   *)
(* pacer has something to do: a woken task is polled within one unit.      *)
(***************************************************************************)
EXTENDS Naturals, FiniteSets

CONSTANTS
    Senders,      \* threads that call send() on clones of one handle
    Capacity,     \* send_capacity
    Sizes,        \* sizes of encoded packets
    MaxPayload,   \* max_payload_size
    Rates,        \* values of the send rate
    NoRate,       \* pacing is off
    MaxSends,     \* bound: calls of send()
    MaxAge        \* bound: past this age time changes nothing

ASSUME SendPathAssumption ==
    /\ IsFiniteSet(Senders)
    /\ Capacity \in Nat \ {0}
    /\ Sizes \subseteq Nat
    /\ MaxPayload \in Nat
    /\ Rates \subseteq Nat \ {0}
    /\ NoRate \notin Rates
    /\ MaxSends \in Nat
    /\ MaxAge \in Nat

VARIABLES
    datagram,    \* the queue is lossy and the transport is UDP
    policy,      \* datagram_send_overflow
    sender,      \* what each thread is doing
    queued,      \* packets in the queue
    writer,      \* what send_packets is doing
    size,        \* of the packet that it holds
    cancelled,   \* disconnect_task
    closed,      \* PeerState.closed
    error,       \* kind of the error sent to the receive task
    rate,        \* the watched send rate
    changed,     \* rate.changed() would complete
    previous,    \* DataPacer.previous: bytes, or 0 before the first
    age,         \*   and the time since
    deadline,    \* the age that wait() sleeps for
    calls,       \* calls of send()
    accepted,    \* calls that returned Ok
    sent,        \* packets handed to the network
    drops,       \* packets counted as dropped, by reason
    late,        \* packets that reached a queue without receiver
    earliest     \* the age some rate in force since then asks for, the least

queue == <<datagram, policy, queued, calls, accepted, late>>
pacing == <<rate, changed, previous, age, deadline, earliest>>
tokens == <<cancelled, closed>>
vars == <<queue, sender, writer, size, tokens, error, pacing, sent, drops>>

Reasons == {"full", "evicted", "closed", "oversized", "socket"}

TypeOK ==
    /\ datagram \in BOOLEAN
    /\ policy \in {"DropNewest", "DropOldest"}
    /\ sender \in [Senders -> {"idle", "checked", "reserved", "counting"}]
    /\ queued \in 0..Capacity
    /\ writer \in {"receiving", "held", "waiting", "pacing", "sending", "rejected",
                   "leaving", "closing", "draining", "exited"}
    /\ size \in Sizes \cup {0}
    /\ cancelled \in BOOLEAN /\ closed \in BOOLEAN
    /\ error \in {"none", "aborted", "other"}
    /\ rate \in Rates \cup {NoRate}
    /\ changed \in BOOLEAN
    /\ previous \in Sizes \cup {0}
    /\ age \in 0..MaxAge
    /\ deadline \in Nat
    /\ calls \in 0..MaxSends
    /\ accepted \in 0..MaxSends /\ sent \in 0..MaxSends /\ late \in 0..MaxSends
    /\ drops \in [Reasons -> 0..MaxSends]
    /\ earliest \in Nat

\* outgoing_channel
QueueInit ==
    /\ datagram \in BOOLEAN
    /\ policy \in IF datagram THEN {"DropNewest", "DropOldest"} ELSE {"DropNewest"}
    /\ queued = 0
    /\ calls = 0 /\ accepted = 0 /\ late = 0

\* DataPacer::new
PacerInit ==
    /\ rate \in IF datagram THEN Rates \cup {NoRate} ELSE {NoRate}
    /\ changed = FALSE
    /\ previous = 0 /\ age = 0 /\ deadline = 0
    /\ earliest = 0

\* RawConnection::with_limits, ecs_connection and run()
Init ==
    /\ QueueInit
    /\ PacerInit
    /\ sender = [s \in Senders |-> "idle"]
    /\ writer = "receiving" /\ size = 0
    /\ cancelled = FALSE /\ closed = FALSE
    /\ error = "none"
    /\ sent = 0
    /\ drops = [r \in Reasons |-> 0]

\* UdpConnectionHandle::count_drop
CountDrops(reason, n) == drops' = [drops EXCEPT ![reason] = @ + n]

-----------------------------------------------------------------------------
(* EcsConnection::send                                                     *)

Step(s, from, to) == sender[s] = from /\ sender' = [sender EXCEPT ![s] = to]

Send(s) ==
    /\ calls < MaxSends
    /\ calls' = calls + 1
    /\ IF cancelled THEN Step(s, "idle", "idle") ELSE Step(s, "idle", "checked")
    /\ UNCHANGED <<datagram, policy, queued, accepted, late, writer, size, tokens,
                   error, pacing, sent, drops>>

ReceiverGone == writer \in {"draining", "exited"}

Reserved == {s \in Senders : sender[s] = "reserved"}

SendClosed(s) ==
    /\ ReceiverGone
    /\ Step(s, "checked", "idle")
    /\ UNCHANGED <<queue, writer, size, tokens, error, pacing, sent, drops>>

\* Full, which is counted
SendFull(s) ==
    /\ ~ReceiverGone
    /\ ~datagram \/ policy = "DropNewest"
    /\ queued + Cardinality(Reserved) >= Capacity
    /\ Step(s, "checked", "idle")
    /\ CountDrops("full", 1)
    /\ UNCHANGED <<queue, writer, size, tokens, error, pacing, sent>>

\* The lossy queue pushes under its lock; the sender counts what it evicted.
SendLossy(s) ==
    /\ datagram /\ ~ReceiverGone
    /\ \/ /\ queued < Capacity
          /\ Step(s, "checked", "idle")
          /\ queued' = queued + 1
       \/ /\ queued >= Capacity /\ policy = "DropOldest"
          /\ Step(s, "checked", "counting")
          /\ UNCHANGED queued
    /\ accepted' = accepted + 1
    /\ UNCHANGED <<datagram, policy, calls, late, writer, size, tokens, error,
                   pacing, sent, drops>>

CountEvicted(s) ==
    /\ Step(s, "counting", "idle")
    /\ CountDrops("evicted", 1)
    /\ UNCHANGED <<queue, writer, size, tokens, error, pacing, sent>>

\* The channel of a stream takes a permit, then publishes the packet.
Reserve(s) ==
    /\ ~datagram /\ ~ReceiverGone
    /\ queued + Cardinality(Reserved) < Capacity
    /\ Step(s, "checked", "reserved")
    /\ UNCHANGED <<queue, writer, size, tokens, error, pacing, sent, drops>>

PublishPacket(s) ==
    /\ Step(s, "reserved", "idle")
    /\ accepted' = accepted + 1
    /\ IF writer = "exited"
       THEN late' = late + 1 /\ UNCHANGED queued
       ELSE queued' = queued + 1 /\ UNCHANGED late
    /\ UNCHANGED <<datagram, policy, calls, writer, size, tokens, error, pacing,
                   sent, drops>>

TrySend(s) ==
    \/ SendClosed(s) \/ SendFull(s) \/ SendLossy(s) \/ CountEvicted(s)
    \/ Reserve(s) \/ PublishPacket(s)

-----------------------------------------------------------------------------
(* send_packets                                                            *)

Holding == {"held", "waiting", "pacing", "sending", "rejected"}

ReceiveNext ==
    /\ writer = "receiving" /\ queued > 0
    /\ queued' = queued - 1
    /\ writer' = "held"
    /\ UNCHANGED <<datagram, policy, calls, accepted, late, sender, size, tokens,
                   error, pacing, sent, drops>>

\* The loop ends.  PendingPacket counts the packet that is held, unless
\* writing it failed with an error other than ConnectionAborted.
Leave(kind, held) ==
    /\ writer' = "leaving" /\ size' = 0
    /\ error' = kind
    /\ CountDrops("closed", IF held /\ kind # "other" THEN 1 ELSE 0)
    /\ UNCHANGED <<queue, sender, tokens, pacing, sent>>

\* Mutant of SeeCancelled: the token is looked at only between packets.
SeeCancelledIdle == cancelled /\ writer = "receiving" /\ Leave("none", FALSE)

\* The outer select is biased: the token ends any wait of the loop.
SeeCancelled ==
    /\ cancelled
    /\ writer \in {"receiving", "held", "pacing", "sending"}
    /\ Leave("none", writer # "receiving")

\* write.send of a packet that does not encode, or whose encoder panics
EncodeFails ==
    /\ writer = "held"
    /\ Leave("other", TRUE) \/ Leave("none", TRUE)

\* UdpWriteHalf::send drops an oversized payload and reports success.
Oversized ==
    /\ datagram /\ writer = "held"
    /\ \E n \in Sizes : n > MaxPayload
    /\ writer' = "receiving"
    /\ CountDrops("oversized", 1)
    /\ UNCHANGED <<queue, sender, size, tokens, error, pacing, sent>>

Encode ==
    /\ writer = "held"
    /\ \/ ~datagram /\ writer' = "sending" /\ UNCHANGED size
       \/ datagram /\ writer' = "waiting" /\ size' \in {n \in Sizes : n <= MaxPayload}
    /\ UNCHANGED <<queue, sender, tokens, error, pacing, sent, drops>>

\* The outcomes of a write on a stream
WriteStream ==
    /\ ~datagram /\ writer = "sending"
    /\ \/ /\ writer' = "receiving" /\ size' = 0
          /\ sent' = sent + 1
          /\ UNCHANGED <<queue, sender, tokens, error, pacing, drops>>
       \/ \E kind \in {"aborted", "other"} : Leave(kind, TRUE)

\* The task returns: its guard cancels the token, then the receiver is dropped.
CancelOnExit ==
    /\ writer = "leaving"
    /\ writer' = "closing"
    /\ cancelled' = TRUE
    /\ UNCHANGED <<queue, sender, size, closed, error, pacing, sent, drops>>

\* Mutant of DropReceiver: what was queued is forgotten.
DropReceiverSilently ==
    /\ writer = "closing" /\ writer' = "exited"
    /\ queued' = 0
    /\ UNCHANGED <<datagram, policy, calls, accepted, late, sender, size, tokens,
                   error, pacing, sent, drops>>

\* OutgoingReceiver::drop: a lossy queue is closed and drained in one step; a
\* stream's is closed, then drained until it is found empty.
DropReceiver ==
    /\ \/ /\ datagram /\ writer = "closing" /\ writer' = "exited"
          /\ CountDrops("closed", queued) /\ queued' = 0
       \/ /\ ~datagram /\ writer = "closing" /\ writer' = "draining"
          /\ UNCHANGED <<queued, drops>>
       \/ /\ writer = "draining" /\ queued > 0
          /\ CountDrops("closed", 1) /\ queued' = queued - 1
          /\ UNCHANGED writer
       \/ /\ writer = "draining" /\ queued = 0 /\ writer' = "exited"
          /\ UNCHANGED <<queued, drops>>
    /\ UNCHANGED <<datagram, policy, calls, accepted, late, sender, size, tokens,
                   error, pacing, sent>>

-----------------------------------------------------------------------------
(* DataPacer and the socket                                                *)

\* spacing(), in units of time: rounded up
Spacing(bytes, r) == IF r = NoRate THEN 0 ELSE (bytes + r - 1) \div r

\* wait(): read the rate; go on at once, or sleep
WaitCheck ==
    /\ writer = "waiting"
    /\ changed' = FALSE
    /\ deadline' = Spacing(previous, rate)
    /\ writer' = IF age >= Spacing(previous, rate) THEN "sending" ELSE "pacing"
    /\ UNCHANGED <<queue, sender, size, tokens, error, rate, previous, age,
                   earliest, sent, drops>>

\* wait(): the association is closed
WaitClosed == writer = "pacing" /\ closed /\ Leave("aborted", TRUE)

\* Mutant of WaitChanged: a new rate ends the wait.
WaitChangedEnds ==
    /\ writer = "pacing" /\ ~closed /\ changed
    /\ writer' = "sending"
    /\ UNCHANGED <<queue, sender, size, tokens, error, pacing, sent, drops>>

\* Mutant of WaitChanged: a new rate makes the wait begin anew.
WaitRestarts ==
    /\ writer = "pacing" /\ ~closed /\ changed
    /\ writer' = "waiting"
    /\ age' = 0
    /\ UNCHANGED <<queue, sender, size, tokens, error, rate, changed, previous,
                   deadline, earliest, sent, drops>>

\* wait(): the rate has changed, start over
WaitChanged ==
    /\ writer = "pacing" /\ ~closed /\ changed
    /\ writer' = "waiting"
    /\ UNCHANGED <<queue, sender, size, tokens, error, pacing, sent, drops>>

WaitOver ==
    /\ writer = "pacing" /\ ~closed /\ ~changed /\ age >= deadline
    /\ writer' = "sending"
    /\ UNCHANGED <<queue, sender, size, tokens, error, pacing, sent, drops>>

\* DataPacer::sent
Sent == previous' = size /\ age' = 0 /\ earliest' = Spacing(size, rate)

\* send_datagram finds the association closed.
SendAborted ==
    /\ datagram /\ writer = "sending" /\ closed
    /\ writer' = "leaving" /\ size' = 0
    /\ error' = "aborted"
    /\ CountDrops("closed", 1)
    /\ Sent
    /\ UNCHANGED <<queue, sender, tokens, rate, changed, deadline, sent>>

\* The socket takes the datagram.
SendDatagram ==
    /\ datagram /\ writer = "sending"
    /\ writer' = "receiving" /\ size' = 0
    /\ sent' = sent + 1
    /\ Sent
    /\ UNCHANGED <<queue, sender, tokens, error, rate, changed, deadline, drops>>

\* The socket fails or takes a part; the closed flag is read afterwards.
SocketFails ==
    /\ datagram /\ writer = "sending"
    /\ writer' = "rejected"
    /\ Sent
    /\ UNCHANGED <<queue, sender, size, tokens, error, rate, changed, deadline,
                   sent, drops>>

AfterSocketError ==
    /\ writer = "rejected"
    /\ \/ closed /\ Leave("other", TRUE)
       \/ /\ ~closed
          /\ writer' = "receiving" /\ size' = 0
          /\ CountDrops("socket", 1)
          /\ UNCHANGED <<queue, sender, tokens, error, pacing, sent>>

-----------------------------------------------------------------------------
(* The environment                                                         *)

\* EcsConnection::disconnect, or the end of the receive task
Disconnect ==
    /\ ~cancelled /\ cancelled' = TRUE
    /\ UNCHANGED <<queue, sender, writer, size, closed, error, pacing, sent, drops>>

\* PeerState::close, by the read half or the listener
ClosePeer ==
    /\ datagram /\ ~closed /\ closed' = TRUE
    /\ UNCHANGED <<queue, sender, writer, size, cancelled, error, pacing, sent,
                   drops>>

Least(m, n) == IF m < n THEN m ELSE n

\* set_send_rate: send_replace notifies even if the value is the same
SetSendRate ==
    /\ datagram
    /\ \E r \in Rates \cup {NoRate} :
          /\ rate' = r
          /\ earliest' = Least(earliest, Spacing(previous, r))
    /\ changed' = TRUE
    /\ UNCHANGED <<queue, sender, writer, size, tokens, error, previous, age,
                   deadline, sent, drops>>

Due ==
    \/ writer = "waiting"
    \/ writer = "pacing" /\ (closed \/ changed \/ age >= deadline)

Tick ==
    /\ datagram /\ age < MaxAge /\ ~Due
    /\ age' = age + 1
    /\ UNCHANGED <<queue, sender, writer, size, tokens, error, rate, changed,
                   previous, deadline, earliest, sent, drops>>

SendPackets ==
    \/ ReceiveNext \/ SeeCancelled \/ EncodeFails \/ Oversized \/ Encode
    \/ CancelOnExit \/ DropReceiver

Pace == WaitCheck \/ WaitClosed \/ WaitChanged \/ WaitOver

Socket ==
    \/ WriteStream \/ SendAborted \/ SendDatagram \/ SocketFails
    \/ AfterSocketError

Next ==
    \/ \E s \in Senders : Send(s) \/ TrySend(s)
    \/ SendPackets \/ Pace \/ Socket
    \/ Disconnect \/ ClosePeer \/ SetSendRate \/ Tick

Spec == Init /\ [][Next]_vars

(***************************************************************************)
(* The send task is polled when it is ready, and time passes, however      *)
(* often the rate is changed.  A write may wait for the network for ever.  *)
(***************************************************************************)
Fairness ==
    /\ WF_vars(SendPackets \/ Pace \/ SendAborted \/ AfterSocketError)
    /\ SF_vars(Tick)

FairSpec == Spec /\ Fairness

-----------------------------------------------------------------------------
Held == IF writer \in Holding THEN 1 ELSE 0

Counting == Cardinality({s \in Senders : sender[s] = "counting"})

\* The packet whose error ends the task is reported by that error only.
Reported == IF error = "other" THEN 1 ELSE 0

\* Whatever threads send, and whenever the connection is cancelled or closed,
\* each packet that send() accepted is queued, held by the send task, handed
\* to the network, or counted under exactly one reason; the one exception is
\* the packet whose own error ended the task.  A datagram never reaches the
\* queue after its receiver was drained; a stream's packet may.
SendsAccounted ==
    /\ accepted = queued + Held + sent + Reported + late + Counting
                   + drops["evicted"] + drops["closed"] + drops["oversized"]
                   + drops["socket"]
    /\ datagram => late = 0
    /\ writer = "exited" => queued = 0

\* A datagram goes to the socket no sooner after the one before than some rate
\* that was in force in between allows, and the pacer never sleeps on a stale
\* rate: a raised or removed limit shortens the wait that is underway.
Paced ==
    /\ datagram /\ writer = "sending" => age >= earliest
    /\ writer = "pacing" /\ ~changed => deadline = Spacing(previous, rate)

\* A packet that was taken from the queue gets to the socket or is dropped,
\* however low the rate is and however often it changes meanwhile.
HeldPacketLeaves ==
    writer \in {"held", "waiting", "pacing"} ~>
        writer \in {"sending", "receiving", "exited"}

\* After disconnect() the send task ends, though it may be waiting for the
\* pacer, for a packet, or for a socket that never takes the bytes.
DisconnectEnds == cancelled ~> writer = "exited"
=============================================================================
