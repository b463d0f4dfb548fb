--------------------------- MODULE EndpointProofs ---------------------------
(***************************************************************************)
(* What the proofs about the client and about the server have in common:   *)
(* the inductive invariant of the tasks, the channels and the ECS systems  *)
(* of Endpoint, for any number of connections, any capacity, any budget    *)
(* and any number of packets.                                              *)
(***************************************************************************)
EXTENDS Endpoint, FiniteSetTheorems, SequenceTheorems, TLAPS

\* Its Established message has not been sent.
Unannounced == {"new", "refused", "requested", "connecting", "declining", "lost", "announcing"}

\* Its tasks have not been spawned.
Early == Unannounced \cup {"handing", "connected", "splitting"}

\* Its Closed message has been sent.
Over == {"reporting", "done"}

-----------------------------------------------------------------------------
(* The steps of the client and of the server, as Endpoint sees them.       *)

\* A request or a stream is taken on, attempted, turned down or lost, or the
\* listener has been told of an end.
Arrange ==
    /\ stage' \in [Connections -> Stages]
    /\ \A c \in Connections :
          \/ stage'[c] = stage[c]
          \/ stage[c] \in {"new", "requested", "connecting"} /\ stage'[c] \in Unannounced
          \/ stage[c] = "reporting" /\ stage'[c] = "done"
    /\ UNCHANGED <<writer, cancelled, send_error, cause, received, channels, dropped,
                   ecs, asked>>

\* The client reports an attempt that failed, and the application hears of it.
SendDeclined(c) ==
    /\ Goto(c, "declining", "refused")
    /\ Room(incoming)
    /\ incoming' = Append(incoming, Message("declined", c, 0))
    /\ UNCHANGED <<writer, cancelled, send_error, cause, received, transports,
                   datagrams, dropped, ecs, asked>>

ApplyDeclined ==
    /\ Applies("declined")
    /\ UNCHANGED <<dropped, published, registry, ended, last, delivered>>

\* SendClosed of both endpoints, and of a setup that failed
SendsClosed(c) ==
    \/ SplitReported(c) \/ SendClosed(c, "closing", "done")
    \/ SendClosed(c, "closing", "reporting")

ConnectionStep(c) ==
    \/ SendEstablished(c) \/ SendDeclined(c) \/ SendTransport(c) \/ SplitEnds(c)
    \/ SendsClosed(c) \/ ReceiveTask(c) \/ Transport(c) \/ SendTask(c) \/ AppDisconnects(c)

SystemStep ==
    \/ IncomingLoop \/ DatagramSystem \/ ApplyEstablished \/ ApplyClosed \/ ApplyDeclined

EndpointNext ==
    \/ \E c \in Connections : ConnectionStep(c)
    \/ SystemStep \/ TakeTransport \/ Arrange \/ UNCHANGED endpoint

-----------------------------------------------------------------------------
(* The inductive invariant                                                 *)

\* The receive and the send task of a connection, its token and its oneshot.
TaskOf(c) ==
    /\ stage[c] \in Early =>
          writer[c] = "none" /\ ~send_error[c] /\ received[c] = 0
    /\ stage[c] \in {"closing", "failing", "panicked"} \cup Over => cancelled[c]
    /\ asked[c] => cancelled[c]
    /\ stage[c] \notin {"finishing", "closing", "failing"} => cause[c] = "none"
    /\ stage[c] = "failing" => cause[c] = "io"
    /\ received[c] <= MaxPackets[c]
    /\ stage[c] = "forwarding" => received[c] > 0

\* Why the token is cancelled while the receive task runs: the application
\* asked, the send task panicked, or its error is in the oneshot.
Excused(c) == asked[c] \/ writer[c] = "panicked" \/ send_error[c]

CauseOf(c) ==
    /\ stage[c] \in {"receiving", "forwarding", "finishing"} /\ writer[c] = "failed"
          => send_error[c]
    /\ stage[c] \in Early \cup {"receiving", "forwarding"} /\ cancelled[c] => Excused(c)
    /\ stage[c] = "finishing" /\ cause[c] = "intentional" => Excused(c)
    /\ stage[c] = "closing" /\ cause[c] = "intentional"
          => asked[c] \/ writer[c] = "panicked"

TaskInv == \A c \in Connections : TaskOf(c) /\ CauseOf(c)

\* While receive_datagram_packets runs the commands are its own.
Presenting == frame \in {"datagrams", "publishing"}

\* What incoming_system has not announced yet, in order.
Told == (IF Presenting THEN << >> ELSE commands) \o incoming

\* Datagrams that receive_datagram_packets has taken.
Taken == IF Presenting THEN commands ELSE << >>

FrameInv ==
    /\ Presenting => Datagram
    /\ ~Datagram => datagrams = << >>
    /\ \A i \in DOMAIN datagrams : datagrams[i].type = "datagram"
    /\ \A i \in DOMAIN Taken : Taken[i].type = "datagram"
    /\ \A i \in DOMAIN Told :
          /\ Told[i].type # "datagram"
          /\ Told[i].type = "packet" => ~Datagram
          /\ Told[i].type = "established" => Told[i] = Message("established", Told[i].conn, 0)

\* The place of an announcement of c
Opens(i, c) == Told[i].type = "established" /\ Told[i].conn = c

\* The messages about a connection come once and in order: its announcement,
\* its packets, its end; nothing before, between two ends, or after.
AnnounceInv ==
    /\ \A i \in DOMAIN Told :
          LET c == Told[i].conn
          IN  /\ Told[i].type = "established" => ~published[c] /\ stage[c] \notin Unannounced
              /\ Told[i].type \in {"packet", "closed"}
                    => published[c] \/ \E j \in 1..(i - 1) : Opens(j, c)
              /\ Told[i].type = "closed" => stage[c] \in Over /\ ~ended[c]
              /\ Told[i].type = "declined" => stage[c] = "refused"
    /\ \A i, j \in DOMAIN Told :
          /\ Told[i].type = "established" /\ Opens(j, Told[i].conn) => i = j
          /\ Told[i].type = "closed" /\ i < j => Told[j].conn # Told[i].conn
    /\ \A c \in Connections :
          /\ ended[c] => /\ published[c] /\ stage[c] \in Over
                         /\ \A i \in DOMAIN Told : Told[i].conn # c
          /\ published[c] => stage[c] \notin Unannounced
          /\ stage[c] \notin Unannounced => published[c] \/ \E i \in DOMAIN Told : Opens(i, c)

\* The registry lists each open connection once.
RegistryInv ==
    /\ \A i, j \in DOMAIN registry : registry[i] = registry[j] => i = j
    /\ \A c \in Connections :
          (published[c] /\ ~ended[c]) <=> \E i \in DOMAIN registry : registry[i] = c

EndMessagesInv ==
    \A i \in DOMAIN Told :
        Told[i].type = "closed" /\ Told[i].cause = "intentional"
            => asked[Told[i].conn] \/ writer[Told[i].conn] = "panicked"

\* The place of packet n of c
Packet(i, c, n) == Told[i].type = "packet" /\ Told[i].conn = c /\ Told[i].n = n

\* The packets of c from the next one to be delivered up to m are all waiting.
AllTold(c, m) == \A n \in (last[c] + 1)..m : \E i \in DOMAIN Told : Packet(i, c, n)

\* Streams: the packets that wait are consecutive, and unless a cancellation
\* discarded one they reach up to the last one that was read.
StreamInv ==
    ~Datagram =>
        /\ \A i \in DOMAIN Told : Told[i].type = "packet" =>
              LET c == Told[i].conn
              IN  /\ Told[i].n > last[c] /\ Told[i].n <= received[c]
                  /\ stage[c] = "forwarding" => Told[i].n < received[c]
                  /\ AllTold(c, Told[i].n)
        /\ \A i, j \in DOMAIN Told :
              Told[i].type = "packet" /\ Told[j].type = "packet"
              /\ Told[i].conn = Told[j].conn /\ i < j => Told[i].n < Told[j].n
        /\ \A c \in Connections :
              /\ stage[c] = "receiving" => AllTold(c, received[c])
              /\ stage[c] = "forwarding" => AllTold(c, received[c] - 1)
              /\ stage[c] \in {"finishing", "closing"} /\ cause[c] = "read"
                    => AllTold(c, received[c])
              /\ last[c] <= received[c]
              /\ stage[c] = "forwarding" => last[c] < received[c]
        /\ \A i \in DOMAIN Told :
              Told[i].type = "closed" /\ Told[i].cause = "read"
                  => AllTold(Told[i].conn, received[Told[i].conn])

\* Packets that were handed on and are newer than the last one delivered.
Fresh ==
    {m \in Messages :
        /\ last[m.conn] < m.n /\ m.n <= received[m.conn]
        /\ stage[m.conn] = "forwarding" => m.n < received[m.conn]}

\* The packets of a connection are in the order in which they were read.
Ordered(q) == \A i, j \in DOMAIN q : q[i].conn = q[j].conn /\ i < j => q[i].n < q[j].n

Ahead(p, q) == \A i \in DOMAIN p, j \in DOMAIN q : p[i].conn = q[j].conn => p[i].n < q[j].n

\* Datagrams: what waits is newer than what was delivered, in reading order.
DatagramInv ==
    Datagram =>
        /\ \A i \in DOMAIN datagrams : datagrams[i] \in Fresh
        /\ \A i \in DOMAIN Taken : Taken[i] \in Fresh /\ published[Taken[i].conn]
        /\ Ordered(datagrams) /\ Ordered(Taken) /\ Ahead(Taken, datagrams)
        /\ \A c \in Connections :
              last[c] <= received[c] /\ (stage[c] = "forwarding" => last[c] < received[c])

EndpointInv ==
    /\ EndpointTypeOK /\ ChannelsBounded /\ TaskInv /\ FrameInv /\ AnnounceInv
    /\ RegistryInv /\ EndMessagesInv /\ StreamInv /\ DatagramInv
    /\ PacketsAccounted

-----------------------------------------------------------------------------
(* Types                                                                   *)

LEMMA CapacityPositive == Capacity \in Nat /\ Capacity > 0
BY EndpointAssumption DEF Capacity, AtLeastOne

LEMMA MessageType ==
    ASSUME NEW c \in Connections, NEW n \in Nat,
           NEW type \in {"established", "packet", "closed", "datagram", "declined"}
    PROVE  Message(type, c, n) \in Messages
BY DEF Message, Messages, Causes

LEMMA ClosedMessageType ==
    ASSUME EndpointTypeOK, NEW c \in Connections
    PROVE  ClosedMessage(c) \in Messages
BY DEF EndpointTypeOK, ClosedMessage, Messages

LEMMA MessageFields ==
    ASSUME NEW m \in Messages
    PROVE  m.conn \in Connections /\ m.n \in Nat /\ m.cause \in Causes
BY DEF Messages

LEMMA BudgetType == \A b \in Budgets : b \in Nat
BY EndpointAssumption

\* What is counted on a connection stays a count, and touches no other.
LEMMA Counted ==
    ASSUME NEW f \in [Connections -> Nat], NEW c \in Connections
    PROVE  [f EXCEPT ![c] = @ + 1] \in [Connections -> Nat]
OBVIOUS

LEMMA OneMore ==
    ASSUME NEW a \in Nat, NEW m \in Nat, a < m
    PROVE  a + 1 <= m /\ a + 1 > 0 /\ a + 1 \in Nat
OBVIOUS

LEMMA AppendType ==
    ASSUME NEW S, NEW q \in Seq(S), NEW e \in S
    PROVE  Append(q, e) \in Seq(S)
OBVIOUS

LEMMA HeadType ==
    ASSUME NEW S, NEW q \in Seq(S), q # << >>
    PROVE  Head(q) \in S /\ Tail(q) \in Seq(S)
OBVIOUS

\* The tasks of a connection keep their types.
LEMMA TaskTypes ==
    ASSUME EndpointTypeOK, NEW c \in Connections, ConnectionStep(c)
    PROVE  /\ stage' \in [Connections -> Stages]
           /\ writer' \in [Connections -> {"none", "running", "failed", "done", "panicked"}]
           /\ cancelled' \in [Connections -> BOOLEAN]
           /\ send_error' \in [Connections -> BOOLEAN]
           /\ cause' \in [Connections -> Causes]
           /\ received' \in [Connections -> Nat]
           /\ asked' \in [Connections -> BOOLEAN]
<1> USE DEF EndpointTypeOK, Goto, Cancel, Count, Stages, Causes
<1>1. CASE SendEstablished(c) \/ SendDeclined(c) \/ SendTransport(c) \/ SendsClosed(c)
  BY <1>1 DEF SendEstablished, SendDeclined, SendTransport, SendsClosed, SplitReported, SendClosed
<1>2. CASE SplitEnds(c)
  BY <1>2 DEF SplitEnds, SplitSucceeds, SplitFails
<1>3. CASE SeeSendError(c) \/ SeeCancelled(c) \/ ForwardStream(c) \/ ForwardCancelled(c)
  BY <1>3 DEF SeeSendError, SeeCancelled, ForwardStream, ForwardCancelled, EndReceiving
<1>4. CASE ForwardDatagram(c)
  BY <1>4 DEF ForwardDatagram
<1>5. CASE Finish(c)
  BY <1>5 DEF Finish
<1>6. CASE Transport(c)
  <2>1. CASE ReceiveFails(c)
    BY <2>1 DEF ReceiveFails, EndReceiving
  <2>2. CASE ReceivePacket(c)
    BY <2>2 DEF ReceivePacket
  <2>3. CASE ReceivePanics(c)
    BY <2>3 DEF ReceivePanics
  <2>4. QED
    BY <1>6, <2>1, <2>2, <2>3 DEF Transport
<1>7. CASE SendTask(c)
  <2>1. CASE WriteFails(c)
    <3>1. Listening(c) \in BOOLEAN
      BY DEF Listening
    <3>2. QED
      BY <2>1, <3>1 DEF WriteFails
  <2>2. CASE WriterExits(c) \/ WriterPanics(c)
    BY <2>2 DEF WriterExits, WriterPanics, Unwind
  <2>3. QED
    BY <1>7, <2>1, <2>2 DEF SendTask
<1>8. CASE AppDisconnects(c)
  BY <1>8 DEF AppDisconnects
<1>9. QED
  BY <1>1, <1>2, <1>3, <1>4, <1>5, <1>6, <1>7, <1>8 DEF ConnectionStep, ReceiveTask

\* So do the channels they share.
LEMMA ChannelTypes ==
    ASSUME EndpointTypeOK, NEW c \in Connections, ConnectionStep(c)
    PROVE  /\ transports' \in Seq(Connections) /\ incoming' \in Seq(Messages)
           /\ datagrams' \in Seq(Messages) /\ dropped' \in [Connections -> Nat]
           /\ UNCHANGED ecs
<1> USE DEF EndpointTypeOK
<1>1. CASE SendTransport(c)
  BY <1>1 DEF SendTransport
<1>2. CASE SendEstablished(c) \/ SendDeclined(c)
  <2>1. Message("established", c, 0) \in Messages /\ Message("declined", c, 0) \in Messages
    BY MessageType
  <2>2. incoming' \in Seq(Messages)
    <3>1. \/ incoming' = Append(incoming, Message("established", c, 0))
          \/ incoming' = Append(incoming, Message("declined", c, 0))
      BY <1>2 DEF SendEstablished, SendDeclined
    <3>2. /\ Append(incoming, Message("established", c, 0)) \in Seq(Messages)
          /\ Append(incoming, Message("declined", c, 0)) \in Seq(Messages)
      BY <2>1, AppendType
    <3>3. QED
      BY <3>1, <3>2
  <2>3. UNCHANGED <<transports, datagrams, dropped, ecs>>
    BY <1>2 DEF SendEstablished, SendDeclined
  <2>4. QED
    BY <2>2, <2>3
<1>3. CASE SendsClosed(c)
  <2>1. incoming' = Append(incoming, ClosedMessage(c)) /\ UNCHANGED <<transports, datagrams, dropped, ecs>>
    BY <1>3 DEF SendsClosed, SplitReported, SendClosed
  <2>2. QED
    BY <2>1, ClosedMessageType, AppendType
<1>4. CASE ForwardStream(c)
  <2>1. Message("packet", c, received[c]) \in Messages
    BY MessageType
  <2>2. QED
    BY <1>4, <2>1 DEF ForwardStream
<1>5. CASE ForwardDatagram(c)
  <2> DEFINE packet == Message("datagram", c, received[c])
  <2>1. packet \in Messages
    BY MessageType
  <2> HIDE DEF packet
  <2>2. ASSUME ~Room(datagrams)
        PROVE  Head(datagrams).conn \in Connections /\ Tail(datagrams) \in Seq(Messages)
    <3>1. datagrams # << >>
      BY <2>2, CapacityPositive DEF Room
    <3>2. QED
      BY <3>1, HeadType, MessageFields
  <2>3. UNCHANGED <<transports, incoming, ecs>>
    BY <1>5 DEF ForwardDatagram
  <2>4. datagrams' \in Seq(Messages) /\ dropped' \in [Connections -> Nat]
    <3>1. \/ datagrams' = Append(datagrams, packet) /\ UNCHANGED dropped
          \/ /\ ~Room(datagrams) /\ datagrams' = Append(Tail(datagrams), packet)
             /\ dropped' = [dropped EXCEPT ![Head(datagrams).conn] = @ + 1]
          \/ UNCHANGED datagrams /\ dropped' = [dropped EXCEPT ![c] = @ + 1]
      BY <1>5 DEF ForwardDatagram, Count, packet
    <3>2. Append(datagrams, packet) \in Seq(Messages) /\ [dropped EXCEPT ![c] = @ + 1] \in [Connections -> Nat]
      BY <2>1, AppendType
    <3>3. ASSUME ~Room(datagrams)
          PROVE  /\ Append(Tail(datagrams), packet) \in Seq(Messages)
                 /\ [dropped EXCEPT ![Head(datagrams).conn] = @ + 1] \in [Connections -> Nat]
      BY <2>1, <2>2, <3>3, AppendType
    <3>4. QED
      BY <3>1, <3>2, <3>3
  <2>5. QED
    BY <2>3, <2>4
<1>6. CASE \/ SplitEnds(c) \/ SeeSendError(c) \/ SeeCancelled(c) \/ ForwardCancelled(c)
           \/ Finish(c) \/ Transport(c) \/ SendTask(c) \/ AppDisconnects(c)
  BY <1>6
  DEF SplitEnds, SplitSucceeds, SplitFails, SeeSendError, SeeCancelled, ForwardCancelled,
      EndReceiving, Finish, Transport, ReceiveFails, ReceivePacket, ReceivePanics, SendTask,
      WriteFails, WriterExits, WriterPanics, Unwind, AppDisconnects, channels
<1>7. QED
  BY <1>1, <1>2, <1>3, <1>4, <1>5, <1>6 DEF ConnectionStep, ReceiveTask

\* And so do the systems and what they publish.
LEMMA RemoveType ==
    ASSUME EndpointTypeOK, NEW c
    PROVE  RemoveConnection(c) \in Seq(Connections)
<1>1. CASE \E i \in DOMAIN registry : registry[i] = c
  <2> DEFINE at == CHOOSE i \in DOMAIN registry : registry[i] = c
             n == Len(registry) - 1
             rest == [i \in 1..n |-> registry[IF i < at THEN i ELSE i + 1]]
  <2>1. registry \in Seq(Connections) /\ at \in DOMAIN registry
    BY <1>1 DEF EndpointTypeOK
  <2> HIDE DEF at
  <2>5. n \in Nat /\ at \in 1..Len(registry)
    BY <2>1
  <2>2. \A i \in 1..n : registry[IF i < at THEN i ELSE i + 1] \in Connections
    BY <2>1, <2>5
  <2>3. rest \in Seq(Connections)
    BY <2>2, <2>5, IsASeq
  <2>4. QED
    BY <1>1, <2>3 DEF RemoveConnection, at
<1>2. QED
  BY <1>1 DEF RemoveConnection, EndpointTypeOK

LEMMA SystemTypes ==
    ASSUME EndpointTypeOK, SystemStep
    PROVE  EndpointTypeOK'
<1> USE DEF EndpointTypeOK
<1>1. UNCHANGED <<stage, writer, cancelled, send_error, cause, received, transports, asked>>
  BY DEF SystemStep, IncomingLoop, DatagramSystem, TakeIncoming, IncomingDone, ApplyPacket,
         ApplyingDone, TakeDatagram, DatagramsDone, ApplyDatagram, PublishingDone,
         ApplyEstablished, ApplyClosed, ApplyDeclined, Applies, tasks, channels
<1>2. CASE TakeIncoming
  BY <1>1, <1>2, HeadType DEF TakeIncoming
<1>3. CASE IncomingDone \/ ApplyingDone \/ DatagramsDone \/ PublishingDone
  <2>1. budget' \in Nat
    <3>1. budget' = 0 \/ budget' \in Budgets
      BY <1>3 DEF IncomingDone, ApplyingDone, DatagramsDone, PublishingDone
    <3>2. QED
      BY <3>1, BudgetType
  <2>2. frame' \in {"incoming", "applying", "datagrams", "publishing"}
    BY <1>3 DEF IncomingDone, ApplyingDone, DatagramsDone, PublishingDone
  <2>3. UNCHANGED <<incoming, datagrams, dropped, commands, published, registry, ended, last, delivered>>
    BY <1>3 DEF IncomingDone, ApplyingDone, DatagramsDone, PublishingDone, channels
  <2>4. QED
    BY <1>1, <2>1, <2>2, <2>3
<1>4. ASSUME NEW type, Applies(type)
      PROVE  /\ Head(commands) \in Messages /\ Head(commands).conn \in Connections
             /\ Head(commands).n \in Nat /\ commands' \in Seq(Messages)
             /\ UNCHANGED <<incoming, datagrams, frame, budget>>
  BY <1>4, HeadType, MessageFields DEF Applies, channels
<1>5. CASE ApplyEstablished
  <2> DEFINE c == Head(commands).conn
  <2>1. c \in Connections /\ commands' \in Seq(Messages)
        /\ UNCHANGED <<incoming, datagrams, frame, budget>>
    BY <1>4, <1>5 DEF ApplyEstablished
  <2>2. registry' = Append(registry, c) /\ published' = [published EXCEPT ![c] = TRUE]
        /\ UNCHANGED <<dropped, ended, last, delivered>>
    BY <1>5 DEF ApplyEstablished
  <2> HIDE DEF c
  <2>3. registry' \in Seq(Connections) /\ published' \in [Connections -> BOOLEAN]
    BY <2>1, <2>2, AppendType
  <2>4. QED
    BY <1>1, <2>1, <2>2, <2>3
<1>6. CASE ApplyPacket
  <2>1. UNCHANGED <<dropped, published, registry, ended>>
    BY <1>6 DEF ApplyPacket
  <2>2. last' \in [Connections -> Nat] /\ delivered' \in [Connections -> Nat]
    <3> DEFINE c == Head(commands).conn
               n == Head(commands).n
    <3>1. c \in Connections /\ n \in Nat
      BY <1>4, <1>6 DEF ApplyPacket
    <3>2. last' = [last EXCEPT ![c] = n] /\ delivered' = [delivered EXCEPT ![c] = @ + 1]
      BY <1>6 DEF ApplyPacket, Deliver, Count
    <3> HIDE DEF c, n
    <3>3. QED
      BY <3>1, <3>2
  <2>3. QED
    BY <1>1, <1>4, <1>6, <2>1, <2>2 DEF ApplyPacket
<1>7. CASE ApplyClosed
  BY <1>1, <1>4, <1>7, RemoveType DEF ApplyClosed
<1>8. CASE ApplyDeclined
  BY <1>1, <1>4, <1>8 DEF ApplyDeclined
<1>9. CASE TakeDatagram
  <2>1. /\ datagrams # << >> /\ Head(datagrams) \in Messages
        /\ Head(datagrams).conn \in Connections
    BY <1>9, HeadType, MessageFields DEF TakeDatagram, DatagramReady
  <2>2. dropped' \in [Connections -> Nat] /\ commands' \in Seq(Messages)
    <3>1. CASE cancelled[Head(datagrams).conn]
      <4>1. dropped' = [dropped EXCEPT ![Head(datagrams).conn] = @ + 1] /\ UNCHANGED commands
        BY <1>9, <3>1 DEF TakeDatagram, Count
      <4>2. QED
        BY <2>1, <4>1, Counted
    <3>2. CASE ~cancelled[Head(datagrams).conn]
      <4>1. commands' = Append(commands, Head(datagrams)) /\ UNCHANGED dropped
        BY <1>9, <3>2 DEF TakeDatagram
      <4>2. QED
        BY <2>1, <4>1, AppendType
    <3>3. QED
      BY <3>1, <3>2
  <2>3. budget' \in Nat /\ datagrams' \in Seq(Messages)
        /\ UNCHANGED <<incoming, frame, published, registry, ended, last, delivered>>
    BY <1>9, <2>1 DEF TakeDatagram
  <2>4. QED
    BY <1>1, <2>2, <2>3
<1>10. CASE ApplyDatagram
  <2>1. UNCHANGED <<published, registry, ended>>
    BY <1>10 DEF ApplyDatagram
  <2>2. /\ last' \in [Connections -> Nat] /\ delivered' \in [Connections -> Nat]
        /\ dropped' \in [Connections -> Nat]
    <3> DEFINE c == Head(commands).conn
               n == Head(commands).n
    <3>1. c \in Connections /\ n \in Nat
      BY <1>4, <1>10 DEF ApplyDatagram
    <3>2. \/ dropped' = [dropped EXCEPT ![c] = @ + 1] /\ UNCHANGED <<last, delivered>>
          \/ /\ last' = [last EXCEPT ![c] = n] /\ delivered' = [delivered EXCEPT ![c] = @ + 1]
             /\ UNCHANGED dropped
      BY <1>10 DEF ApplyDatagram, Deliver, Count
    <3> HIDE DEF c, n
    <3>3. /\ [dropped EXCEPT ![c] = @ + 1] \in [Connections -> Nat]
          /\ [last EXCEPT ![c] = n] \in [Connections -> Nat]
          /\ [delivered EXCEPT ![c] = @ + 1] \in [Connections -> Nat]
      BY <3>1
    <3>4. QED
      BY <3>2, <3>3
  <2>3. QED
    BY <1>1, <1>4, <1>10, <2>1, <2>2 DEF ApplyDatagram
<1>11. QED
  BY <1>2, <1>3, <1>5, <1>6, <1>7, <1>8, <1>9, <1>10 DEF SystemStep, IncomingLoop, DatagramSystem

LEMMA TypesKept ==
    ASSUME EndpointTypeOK, EndpointNext
    PROVE  EndpointTypeOK'
<1>1. CASE \E c \in Connections : ConnectionStep(c)
  BY <1>1, TaskTypes, ChannelTypes DEF EndpointTypeOK, ecs
<1>2. CASE TakeTransport
  <2>1. Head(transports) \in Connections /\ Tail(transports) \in Seq(Connections)
    BY <1>2 DEF EndpointTypeOK, TakeTransport
  <2>2. QED
    BY <1>2, <2>1 DEF EndpointTypeOK, TakeTransport, Goto, Stages, ecs
<1>3. CASE Arrange \/ UNCHANGED endpoint
  BY <1>3 DEF EndpointTypeOK, Arrange, endpoint, tasks, channels, ecs
<1>4. QED
  BY <1>1, <1>2, <1>3, SystemTypes DEF EndpointNext

\* A channel with room takes one more, and one that gives up its first message
\* for another, or for none, does not grow.
LEMMA StaysBounded ==
    ASSUME NEW S, NEW q \in Seq(S), Len(q) <= Capacity
    PROVE  /\ \A e \in S : Room(q) => Len(Append(q, e)) <= Capacity
           /\ q # << >> => /\ Len(Tail(q)) <= Capacity
                           /\ \A e \in S : Len(Append(Tail(q), e)) <= Capacity
<1>1. Len(q) \in Nat /\ Capacity \in Nat
  BY CapacityPositive
<1>2. \A e \in S : Len(Append(q, e)) = Len(q) + 1
  OBVIOUS
<1>3. q # << >> => Tail(q) \in Seq(S) /\ Len(Tail(q)) = Len(q) - 1
  OBVIOUS
<1>4. q # << >> => \A e \in S : Len(Append(Tail(q), e)) = Len(Tail(q)) + 1
  BY <1>3
<1>5. QED
  BY <1>1, <1>2, <1>3, <1>4 DEF Room

\* Whoever sends on a channel waits for room or drops, so none overflows.
LEMMA BoundsKept ==
    ASSUME EndpointTypeOK, ChannelsBounded, EndpointNext
    PROVE  ChannelsBounded'
<1>1. /\ transports \in Seq(Connections) /\ incoming \in Seq(Messages) /\ datagrams \in Seq(Messages)
      /\ Len(transports) <= Capacity /\ Len(incoming) <= Capacity /\ Len(datagrams) <= Capacity
  BY DEF EndpointTypeOK, ChannelsBounded
<1>2. CASE UNCHANGED channels
  BY <1>1, <1>2 DEF channels, ChannelsBounded
<1>3. ASSUME NEW c \in Connections, SendTransport(c)
      PROVE  ChannelsBounded'
  <2>1. Room(transports) /\ transports' = Append(transports, c) /\ UNCHANGED <<incoming, datagrams>>
    BY <1>3 DEF SendTransport
  <2>2. Len(transports') <= Capacity
    BY <1>1, <2>1, StaysBounded
  <2>3. QED
    BY <1>1, <2>1, <2>2 DEF ChannelsBounded
<1>4. ASSUME NEW c \in Connections,
             SendEstablished(c) \/ SendDeclined(c) \/ SendsClosed(c) \/ ForwardStream(c)
      PROVE  ChannelsBounded'
  <2>1. PICK m \in Messages : incoming' = Append(incoming, m)
    <3>1. /\ Message("established", c, 0) \in Messages /\ Message("declined", c, 0) \in Messages
          /\ Message("packet", c, received[c]) \in Messages /\ ClosedMessage(c) \in Messages
      BY MessageType, ClosedMessageType DEF EndpointTypeOK
    <3>2. \/ incoming' = Append(incoming, Message("established", c, 0))
          \/ incoming' = Append(incoming, Message("declined", c, 0))
          \/ incoming' = Append(incoming, Message("packet", c, received[c]))
          \/ incoming' = Append(incoming, ClosedMessage(c))
      BY <1>4
      DEF SendEstablished, SendDeclined, SendsClosed, SplitReported, SendClosed, ForwardStream
    <3>3. QED
      BY <3>1, <3>2
  <2>2. Room(incoming) /\ UNCHANGED <<transports, datagrams>>
    BY <1>4 DEF SendEstablished, SendDeclined, SendsClosed, SplitReported, SendClosed, ForwardStream
  <2>3. Len(incoming') <= Capacity
    BY <1>1, <2>1, <2>2, StaysBounded
  <2>4. QED
    BY <1>1, <2>2, <2>3 DEF ChannelsBounded
<1>5. ASSUME NEW c \in Connections, ForwardDatagram(c)
      PROVE  ChannelsBounded'
  <2> DEFINE packet == Message("datagram", c, received[c])
  <2>1. packet \in Messages
    BY MessageType DEF EndpointTypeOK
  <2>2. /\ \/ Room(datagrams) /\ datagrams' = Append(datagrams, packet)
           \/ ~Room(datagrams) /\ datagrams' = Append(Tail(datagrams), packet)
           \/ UNCHANGED datagrams
        /\ UNCHANGED <<transports, incoming>>
    BY <1>5 DEF ForwardDatagram
  <2>3. ~Room(datagrams) => datagrams # << >>
    BY CapacityPositive DEF Room
  <2> HIDE DEF packet
  <2>4. Len(datagrams') <= Capacity
    BY <1>1, <2>1, <2>2, <2>3, StaysBounded
  <2>5. QED
    BY <1>1, <2>2, <2>4 DEF ChannelsBounded
<1>6. CASE TakeTransport
  <2>1. transports # << >> /\ transports' = Tail(transports) /\ UNCHANGED <<incoming, datagrams>>
    BY <1>6 DEF TakeTransport
  <2>2. Len(transports') <= Capacity
    BY <1>1, <2>1, StaysBounded
  <2>3. QED
    BY <1>1, <2>1, <2>2 DEF ChannelsBounded
<1>7. CASE TakeIncoming
  <2>1. incoming # << >> /\ incoming' = Tail(incoming) /\ UNCHANGED <<transports, datagrams>>
    BY <1>7 DEF TakeIncoming
  <2>2. Len(incoming') <= Capacity
    BY <1>1, <2>1, StaysBounded
  <2>3. QED
    BY <1>1, <2>1, <2>2 DEF ChannelsBounded
<1>8. CASE TakeDatagram
  <2>1. datagrams # << >> /\ datagrams' = Tail(datagrams) /\ UNCHANGED <<transports, incoming>>
    BY <1>8 DEF TakeDatagram, DatagramReady
  <2>2. Len(datagrams') <= Capacity
    BY <1>1, <2>1, StaysBounded
  <2>3. QED
    BY <1>1, <2>1, <2>2 DEF ChannelsBounded
<1>9. ASSUME NEW c \in Connections,
             \/ SplitEnds(c) \/ SeeSendError(c) \/ SeeCancelled(c) \/ ForwardCancelled(c)
             \/ Finish(c) \/ Transport(c) \/ SendTask(c) \/ AppDisconnects(c)
      PROVE  UNCHANGED channels
  BY <1>9
  DEF SplitEnds, SplitSucceeds, SplitFails, SeeSendError, SeeCancelled, ForwardCancelled,
      EndReceiving, Finish, Transport, ReceiveFails, ReceivePacket, ReceivePanics, SendTask,
      WriteFails, WriterExits, WriterPanics, Unwind, AppDisconnects
<1>10. ASSUME SystemStep, ~TakeIncoming, ~TakeDatagram
       PROVE  UNCHANGED channels
  BY <1>10
  DEF SystemStep, IncomingLoop, DatagramSystem, IncomingDone, ApplyPacket, ApplyingDone,
      DatagramsDone, ApplyDatagram, PublishingDone, ApplyEstablished, ApplyClosed,
      ApplyDeclined, Applies
<1>11. Arrange \/ UNCHANGED endpoint => UNCHANGED channels
  BY DEF Arrange, endpoint
<1>12. ASSUME NEW c \in Connections, ConnectionStep(c)
       PROVE  ChannelsBounded'
  BY <1>2, <1>3, <1>4, <1>5, <1>9, <1>12 DEF ConnectionStep, ReceiveTask
<1>13. QED
  BY <1>2, <1>6, <1>7, <1>8, <1>10, <1>11, <1>12 DEF EndpointNext

-----------------------------------------------------------------------------
(* The tasks of a connection                                               *)

\* A step of one connection leaves the tasks of the others alone.
LEMMA OthersAlone ==
    ASSUME EndpointTypeOK, NEW c \in Connections, ConnectionStep(c),
           NEW d \in Connections, d # c
    PROVE  /\ stage'[d] = stage[d] /\ writer'[d] = writer[d] /\ cancelled'[d] = cancelled[d]
           /\ send_error'[d] = send_error[d] /\ cause'[d] = cause[d]
           /\ received'[d] = received[d] /\ asked'[d] = asked[d]
<1> USE DEF EndpointTypeOK, Goto, Cancel, Count
<1>1. CASE SendEstablished(c) \/ SendDeclined(c) \/ SendTransport(c) \/ SendsClosed(c)
  BY <1>1 DEF SendEstablished, SendDeclined, SendTransport, SendsClosed, SplitReported, SendClosed
<1>2. CASE SplitEnds(c)
  BY <1>2 DEF SplitEnds, SplitSucceeds, SplitFails
<1>3. CASE SeeSendError(c) \/ SeeCancelled(c) \/ ForwardStream(c) \/ ForwardCancelled(c)
  BY <1>3 DEF SeeSendError, SeeCancelled, ForwardStream, ForwardCancelled, EndReceiving
<1>4. CASE ForwardDatagram(c)
  BY <1>4 DEF ForwardDatagram
<1>5. CASE Finish(c)
  BY <1>5 DEF Finish
<1>6. CASE Transport(c)
  BY <1>6 DEF Transport, ReceiveFails, ReceivePacket, ReceivePanics, EndReceiving
<1>7. CASE SendTask(c)
  BY <1>7 DEF SendTask, WriteFails, WriterExits, WriterPanics, Unwind
<1>8. CASE AppDisconnects(c)
  BY <1>8 DEF AppDisconnects
<1>9. QED
  BY <1>1, <1>2, <1>3, <1>4, <1>5, <1>6, <1>7, <1>8 DEF ConnectionStep, ReceiveTask

\* The steps of its own tasks keep both.
LEMMA OwnStep ==
    ASSUME EndpointTypeOK, NEW c \in Connections, ConnectionStep(c), TaskOf(c), CauseOf(c)
    PROVE  TaskOf(c)' /\ CauseOf(c)'
<1>1. EndpointTypeOK' /\ MaxPackets[c] \in Nat
  BY TypesKept, EndpointAssumption DEF EndpointNext
<1> USE DEF EndpointTypeOK, TaskOf, CauseOf, Excused, Goto, Cancel, Count, Early, Unannounced, Over
<1>2. CASE SendEstablished(c) \/ SendDeclined(c) \/ SendTransport(c)
  BY <1>1, <1>2 DEF SendEstablished, SendDeclined, SendTransport
<1>3. CASE SendsClosed(c)
  <2>1. /\ stage[c] \in {"failing", "closing"} /\ stage'[c] \in Over /\ cause'[c] = "none"
        /\ UNCHANGED <<writer, cancelled, send_error, received, asked>>
    BY <1>3 DEF SendsClosed, SplitReported, SendClosed
  <2>2. QED
    BY <1>1, <2>1
<1>4. CASE SplitEnds(c)
  BY <1>1, <1>4 DEF SplitEnds, SplitSucceeds, SplitFails
<1>5. CASE SeeSendError(c) \/ SeeCancelled(c) \/ ForwardCancelled(c) \/ ReceiveFails(c)
  <2>1. CASE SeeSendError(c)
    BY <1>1, <2>1 DEF SeeSendError, EndReceiving
  <2>2. CASE SeeCancelled(c)
    BY <1>1, <2>2 DEF SeeCancelled, EndReceiving
  <2>3. CASE ForwardCancelled(c)
    BY <1>1, <2>3 DEF ForwardCancelled, EndReceiving
  <2>4. CASE ReceiveFails(c)
    BY <1>1, <2>4 DEF ReceiveFails, EndReceiving
  <2>5. QED
    BY <1>5, <2>1, <2>2, <2>3, <2>4
<1>6. CASE ForwardStream(c) \/ ForwardDatagram(c)
  BY <1>1, <1>6 DEF ForwardStream, ForwardDatagram
<1>7. CASE Finish(c)
  BY <1>1, <1>7 DEF Finish
<1>8. CASE ReceivePacket(c)
  <2>1. /\ stage[c] = "receiving" /\ stage'[c] = "forwarding" /\ ~cancelled[c]
        /\ received[c] < MaxPackets[c] /\ received'[c] = received[c] + 1
        /\ UNCHANGED <<writer, cancelled, send_error, cause, asked>>
    BY <1>8 DEF ReceivePacket, Reading
  <2>2. received[c] \in Nat
    OBVIOUS
  <2>3. received'[c] <= MaxPackets[c] /\ received'[c] > 0
    BY <1>1, <2>1, <2>2, OneMore
  <2>4. QED
    BY <2>1, <2>3
<1>9. CASE ReceivePanics(c)
  BY <1>1, <1>9 DEF ReceivePanics
<1>10. CASE WriteFails(c)
  <2>1. /\ writer[c] = "running" /\ writer'[c] = "failed"
        /\ send_error'[c] = Listening(c)
        /\ UNCHANGED <<stage, cancelled, cause, received, asked>>
    BY <1>10 DEF WriteFails
  <2>2. QED
    BY <1>1, <2>1 DEF Listening
<1>11. CASE WriterExits(c) \/ WriterPanics(c)
  BY <1>1, <1>11 DEF WriterExits, WriterPanics, Unwind
<1>12. CASE AppDisconnects(c)
  BY <1>1, <1>12 DEF AppDisconnects
<1>13. QED
  BY <1>2, <1>3, <1>4, <1>5, <1>6, <1>7, <1>8, <1>9, <1>10, <1>11, <1>12
  DEF ConnectionStep, ReceiveTask, Transport, SendTask

LEMMA TasksKept ==
    ASSUME EndpointTypeOK, TaskInv, EndpointNext
    PROVE  TaskInv'
<1> USE DEF TaskInv, TaskOf, CauseOf, Excused
<1>1. CASE \E c \in Connections : ConnectionStep(c)
  <2>1. PICK c \in Connections : ConnectionStep(c)
    BY <1>1
  <2>2. TaskOf(c)' /\ CauseOf(c)'
    BY <2>1, OwnStep
  <2>3. \A d \in Connections \ {c} :
           /\ stage'[d] = stage[d] /\ writer'[d] = writer[d] /\ cancelled'[d] = cancelled[d]
           /\ send_error'[d] = send_error[d] /\ cause'[d] = cause[d]
           /\ received'[d] = received[d] /\ asked'[d] = asked[d]
    BY <2>1, OthersAlone
  <2>4. QED
    BY <2>2, <2>3
<1>2. CASE SystemStep \/ UNCHANGED endpoint
  <2>1. UNCHANGED <<stage, writer, cancelled, send_error, cause, received, asked>>
    BY <1>2
    DEF SystemStep, IncomingLoop, DatagramSystem, TakeIncoming, IncomingDone, ApplyPacket,
        ApplyingDone, TakeDatagram, DatagramsDone, ApplyDatagram, PublishingDone,
        ApplyEstablished, ApplyClosed, ApplyDeclined, Applies, tasks, endpoint
  <2>2. QED
    BY <2>1
<1>3. CASE TakeTransport \/ Arrange
  <2>1. UNCHANGED <<writer, cancelled, send_error, cause, received, asked>>
    BY <1>3 DEF TakeTransport, Arrange
  <2>2. \A c \in Connections : \/ stage'[c] = stage[c]
                               \/ stage[c] \in Early /\ stage'[c] \in Early
                               \/ stage[c] \in Over /\ stage'[c] \in Over
    BY <1>3 DEF TakeTransport, Arrange, Goto, EndpointTypeOK, Early, Unannounced, Over
  <2>3. QED
    BY <2>1, <2>2 DEF Early, Unannounced, Over
<1>4. QED
  BY <1>1, <1>2, <1>3 DEF EndpointNext

-----------------------------------------------------------------------------
(* The messages that incoming_system has not announced                     *)

LEMMA ConcatAppend ==
    ASSUME NEW S, NEW s \in Seq(S), NEW t \in Seq(S), NEW e \in S
    PROVE  s \o Append(t, e) = Append(s \o t, e)
OBVIOUS

LEMMA ConcatMove ==
    ASSUME NEW S, NEW s \in Seq(S), NEW t \in Seq(S), t # << >>
    PROVE  Append(s, Head(t)) \o Tail(t) = s \o t
OBVIOUS

LEMMA ConcatTail ==
    ASSUME NEW S, NEW s \in Seq(S), NEW t \in Seq(S), s # << >>
    PROVE  /\ s \o t # << >> /\ Tail(s) \o t = Tail(s \o t)
           /\ Head(s) = s[1] /\ (s \o t)[1] = s[1]
OBVIOUS

LEMMA ConcatEmpty ==
    ASSUME NEW S, NEW t \in Seq(S)
    PROVE  << >> \o t = t /\ << >> \in Seq(S)
OBVIOUS

LEMMA ToldType ==
    ASSUME EndpointTypeOK
    PROVE  /\ Told \in Seq(Messages) /\ Taken \in Seq(Messages)
           /\ (IF Presenting THEN << >> ELSE commands) \in Seq(Messages)
           /\ incoming \in Seq(Messages) /\ datagrams \in Seq(Messages)
           /\ commands \in Seq(Messages)
BY DEF Told, Taken, EndpointTypeOK

\* What a task sends is told last.
LEMMA ToldLast ==
    ASSUME EndpointTypeOK, NEW m \in Messages,
           incoming' = Append(incoming, m), UNCHANGED <<commands, frame>>
    PROVE  Told' = Append(Told, m) /\ Taken' = Taken
<1> DEFINE first == IF Presenting THEN << >> ELSE commands
<1>1. first \in Seq(Messages) /\ incoming \in Seq(Messages)
  BY ToldType
<1>2. first' = first /\ Taken' = Taken
  BY DEF Presenting, Taken
<1>3. Told = first \o incoming /\ Told' = first' \o incoming'
  BY DEF Told
<1> HIDE DEF first
<1>4. QED
  BY <1>1, <1>2, <1>3, ConcatAppend

\* What a system announces was told first.
LEMMA ToldFirst ==
    ASSUME EndpointTypeOK, FrameInv, NEW type, type # "datagram", Applies(type)
    PROVE  /\ ~Presenting /\ ~Presenting'
           /\ Told # << >> /\ Told[1] = Head(commands) /\ Told[1].type = type
           /\ Told' = Tail(Told) /\ Taken = << >> /\ Taken' = << >>
<1>1. commands \in Seq(Messages) /\ commands # << >> /\ Head(commands) = commands[1]
      /\ Head(commands).type = type /\ commands' = Tail(commands) /\ UNCHANGED <<frame, incoming>>
  BY DEF Applies, EndpointTypeOK, channels
<1>2. ~Presenting
  <2>1. SUFFICES ASSUME Presenting
                 PROVE  FALSE
    OBVIOUS
  <2>2. Taken = commands /\ 1 \in DOMAIN Taken
    BY <1>1, <2>1 DEF Taken
  <2>3. QED
    BY <1>1, <2>2 DEF FrameInv
<1>3. ~Presenting'
  BY <1>1, <1>2 DEF Presenting
<1>4. Told = commands \o incoming /\ Told' = Tail(commands) \o incoming
  BY <1>1, <1>2, <1>3 DEF Told
<1>5. Taken = << >> /\ Taken' = << >>
  BY <1>2, <1>3 DEF Taken
<1>6. QED
  BY <1>1, <1>2, <1>3, <1>4, <1>5, ConcatTail, ToldType

\* The steps that tell nothing and announce nothing
QuietTask(c) ==
    \/ SendTransport(c) \/ SplitEnds(c) \/ SeeSendError(c) \/ SeeCancelled(c)
    \/ ForwardCancelled(c) \/ ForwardDatagram(c) \/ Finish(c) \/ Transport(c)
    \/ SendTask(c) \/ AppDisconnects(c)

QuietSystem ==
    \/ TakeIncoming \/ IncomingDone \/ ApplyingDone \/ DatagramSystem

Quiet ==
    \/ \E c \in Connections : QuietTask(c)
    \/ QuietSystem \/ TakeTransport \/ Arrange \/ UNCHANGED endpoint

LEMMA QuietOrNot ==
    ASSUME EndpointNext
    PROVE  \/ Quiet
           \/ \E c \in Connections :
                 SendEstablished(c) \/ SendDeclined(c) \/ SendsClosed(c) \/ ForwardStream(c)
           \/ ApplyEstablished \/ ApplyPacket \/ ApplyClosed \/ ApplyDeclined
BY DEF EndpointNext, Quiet, QuietTask, QuietSystem, ConnectionStep, SystemStep, ReceiveTask,
       IncomingLoop

LEMMA QuietTaskFrame ==
    ASSUME NEW c \in Connections, QuietTask(c)
    PROVE  UNCHANGED <<incoming, ecs>>
BY DEF QuietTask, SendTransport, SplitEnds, SplitSucceeds, SplitFails, SeeSendError,
       SeeCancelled, ForwardCancelled, EndReceiving, ForwardDatagram, Finish, Transport,
       ReceiveFails, ReceivePacket, ReceivePanics, SendTask, WriteFails, WriterExits,
       WriterPanics, Unwind, AppDisconnects, channels

LEMMA QuietTold ==
    ASSUME EndpointTypeOK, FrameInv, Quiet
    PROVE  Told' = Told /\ UNCHANGED <<published, registry, ended>>
<1> USE DEF EndpointTypeOK
<1>1. CASE (\E c \in Connections : QuietTask(c)) \/ TakeTransport \/ Arrange \/ UNCHANGED endpoint
  <2>1. UNCHANGED <<incoming, ecs>>
    BY <1>1, QuietTaskFrame DEF TakeTransport, Arrange, endpoint, channels
  <2>2. QED
    BY <2>1 DEF Told, Presenting, ecs
<1>2. CASE TakeIncoming
  <2>1. /\ ~Presenting /\ ~Presenting' /\ incoming # << >>
        /\ commands' = Append(commands, Head(incoming)) /\ incoming' = Tail(incoming)
        /\ UNCHANGED <<published, registry, ended>>
    BY <1>2 DEF TakeIncoming, Presenting
  <2>2. Told = commands \o incoming /\ Told' = Append(commands, Head(incoming)) \o Tail(incoming)
    BY <2>1 DEF Told
  <2>3. QED
    BY <2>1, <2>2, ConcatMove, ToldType
<1>3. CASE IncomingDone
  BY <1>3 DEF IncomingDone, Told, Presenting, channels
<1>4. CASE ApplyingDone \/ PublishingDone
  <2>1. commands = << >> /\ commands' = << >> /\ UNCHANGED <<incoming, published, registry, ended>>
    BY <1>4 DEF ApplyingDone, PublishingDone, channels
  <2>2. QED
    BY <2>1 DEF Told
<1>5. CASE TakeDatagram \/ DatagramsDone
  <2>1. Presenting /\ Presenting' /\ UNCHANGED <<incoming, published, registry, ended>>
    BY <1>5 DEF TakeDatagram, DatagramsDone, Presenting, channels
  <2>2. QED
    BY <2>1 DEF Told
<1>6. CASE ApplyDatagram
  <2>1. /\ commands # << >> /\ Head(commands).type = "datagram"
        /\ UNCHANGED <<incoming, frame, published, registry, ended>>
    BY <1>6 DEF ApplyDatagram, Applies, channels
  <2>2. Presenting
    <3>1. SUFFICES ASSUME ~Presenting
                   PROVE  FALSE
      OBVIOUS
    <3>2. Told = commands \o incoming
      BY <3>1 DEF Told
    <3>3. 1 \in DOMAIN Told /\ Told[1] = Head(commands)
      BY <2>1, <3>2, ConcatTail, ToldType
    <3>4. QED
      BY <2>1, <3>3 DEF FrameInv
  <2>3. QED
    BY <2>1, <2>2 DEF Told, Presenting
<1>7. QED
  BY <1>1, <1>2, <1>3, <1>4, <1>5, <1>6 DEF Quiet, QuietSystem, DatagramSystem

\* Nor do they change whether a connection is announced, refused or over.
LEMMA QuietStages ==
    ASSUME EndpointTypeOK, Quiet, NEW d \in Connections
    PROVE  /\ stage[d] \in Unannounced <=> stage'[d] \in Unannounced
           /\ stage[d] \in Over <=> stage'[d] \in Over
           /\ stage[d] = "refused" => stage'[d] = "refused"
<1> USE DEF EndpointTypeOK, Unannounced, Over, Goto
<1>1. ASSUME NEW c \in Connections, QuietTask(c)
      PROVE  \/ stage'[d] = stage[d]
             \/ /\ stage[d] \notin Unannounced \cup Over
                /\ stage'[d] \notin Unannounced \cup Over
  <2>1. CASE SendTransport(c) \/ SplitEnds(c) \/ Finish(c) \/ ForwardDatagram(c)
    BY <2>1 DEF SendTransport, SplitEnds, SplitSucceeds, SplitFails, Finish, ForwardDatagram
  <2>2. CASE SeeSendError(c) \/ SeeCancelled(c) \/ ForwardCancelled(c) \/ Transport(c)
    BY <2>2 DEF SeeSendError, SeeCancelled, ForwardCancelled, EndReceiving, Transport,
                ReceiveFails, ReceivePacket, ReceivePanics
  <2>3. CASE SendTask(c) \/ AppDisconnects(c)
    BY <2>3 DEF SendTask, WriteFails, WriterExits, WriterPanics, Unwind, AppDisconnects
  <2>4. QED
    BY <1>1, <2>1, <2>2, <2>3 DEF QuietTask
<1>2. CASE QuietSystem \/ UNCHANGED endpoint
  <2>1. UNCHANGED stage
    BY <1>2 DEF QuietSystem, TakeIncoming, IncomingDone, ApplyingDone, DatagramSystem,
                TakeDatagram, DatagramsDone, ApplyDatagram, Applies, PublishingDone, endpoint, tasks
  <2>2. QED
    BY <2>1
<1>3. CASE TakeTransport \/ Arrange
  BY <1>3 DEF TakeTransport, Arrange
<1>4. QED
  BY <1>1, <1>2, <1>3 DEF Quiet

\* Where the elements of a sequence are after a push and after a pop
LEMMA AppendPlaces ==
    ASSUME NEW S, NEW q \in Seq(S), NEW e \in S
    PROVE  /\ DOMAIN Append(q, e) = 1..(Len(q) + 1) /\ DOMAIN q = 1..Len(q) /\ Len(q) \in Nat
           /\ \A i \in DOMAIN q : Append(q, e)[i] = q[i]
           /\ Append(q, e)[Len(q) + 1] = e
           /\ \A i \in DOMAIN Append(q, e) : i \in DOMAIN q \/ i = Len(q) + 1
OBVIOUS

LEMMA TailPlaces ==
    ASSUME NEW S, NEW q \in Seq(S), q # << >>
    PROVE  /\ DOMAIN q = 1..Len(q) /\ Len(q) \in Nat /\ 1 \in DOMAIN q
           /\ DOMAIN Tail(q) = 1..(Len(q) - 1)
           /\ \A i \in DOMAIN Tail(q) : i + 1 \in DOMAIN q /\ Tail(q)[i] = q[i + 1]
           /\ \A i \in DOMAIN q : i # 1 => i - 1 \in DOMAIN Tail(q) /\ Tail(q)[i - 1] = q[i]
           /\ Head(q) = q[1]
OBVIOUS

LEMMA EveryAppend ==
    ASSUME NEW S, NEW q \in Seq(S), NEW e \in S, NEW T,
           \A i \in DOMAIN q : q[i] \in T, e \in T
    PROVE  \A i \in DOMAIN Append(q, e) : Append(q, e)[i] \in T
BY AppendPlaces

LEMMA EveryTail ==
    ASSUME NEW S, NEW q \in Seq(S), q # << >>, NEW T, \A i \in DOMAIN q : q[i] \in T
    PROVE  \A i \in DOMAIN Tail(q) : Tail(q)[i] \in T
BY TailPlaces

\* What may be told, and what the receive queue holds
Tellable ==
    {m \in Messages :
        /\ m.type # "datagram"
        /\ m.type = "packet" => ~Datagram
        /\ m.type = "established" => m = Message("established", m.conn, 0)}

Datagrams == {m \in Messages : m.type = "datagram"}

LEMMA FrameInvIn ==
    ASSUME EndpointTypeOK
    PROVE  FrameInv <=> /\ Presenting => Datagram
                        /\ ~Datagram => datagrams = << >>
                        /\ \A i \in DOMAIN datagrams : datagrams[i] \in Datagrams
                        /\ \A i \in DOMAIN Taken : Taken[i] \in Datagrams
                        /\ \A i \in DOMAIN Told : Told[i] \in Tellable
<1>1. /\ \A i \in DOMAIN datagrams : datagrams[i] \in Messages
      /\ \A i \in DOMAIN Taken : Taken[i] \in Messages
      /\ \A i \in DOMAIN Told : Told[i] \in Messages
  BY ToldType, ElementOfSeq
<1>2. QED
  BY <1>1 DEF FrameInv, Datagrams, Tellable

LEMMA FrameInvInPrimed ==
    ASSUME EndpointTypeOK'
    PROVE  FrameInv' <=> /\ Presenting' => Datagram
                         /\ ~Datagram => datagrams' = << >>
                         /\ \A i \in DOMAIN datagrams' : datagrams'[i] \in Datagrams
                         /\ \A i \in DOMAIN Taken' : Taken'[i] \in Datagrams
                         /\ \A i \in DOMAIN Told' : Told'[i] \in Tellable
<1>1. Told' \in Seq(Messages) /\ Taken' \in Seq(Messages) /\ datagrams' \in Seq(Messages)
  BY DEF Told, Taken, EndpointTypeOK
<1>2. /\ \A i \in DOMAIN datagrams' : datagrams'[i] \in Messages
      /\ \A i \in DOMAIN Taken' : Taken'[i] \in Messages
      /\ \A i \in DOMAIN Told' : Told'[i] \in Messages
  BY <1>1, ElementOfSeq
<1>3. QED
  BY <1>2 DEF FrameInv, Datagrams, Tellable

\* The two streams of messages never mix.
LEMMA FrameKept ==
    ASSUME EndpointTypeOK, FrameInv, EndpointNext
    PROVE  FrameInv'
<1>1. /\ Presenting => Datagram
      /\ ~Datagram => datagrams = << >>
      /\ \A i \in DOMAIN datagrams : datagrams[i] \in Datagrams
      /\ \A i \in DOMAIN Taken : Taken[i] \in Datagrams
      /\ \A i \in DOMAIN Told : Told[i] \in Tellable
  BY FrameInvIn
<1>2. SUFFICES /\ Presenting' => Datagram
               /\ ~Datagram => datagrams' = << >>
               /\ \A i \in DOMAIN datagrams' : datagrams'[i] \in Datagrams
               /\ \A i \in DOMAIN Taken' : Taken'[i] \in Datagrams
               /\ \A i \in DOMAIN Told' : Told'[i] \in Tellable
  BY FrameInvInPrimed, TypesKept
<1> DEFINE Goal == /\ Presenting' => Datagram
                   /\ ~Datagram => datagrams' = << >>
                   /\ \A i \in DOMAIN datagrams' : datagrams'[i] \in Datagrams
                   /\ \A i \in DOMAIN Taken' : Taken'[i] \in Datagrams
                   /\ \A i \in DOMAIN Told' : Told'[i] \in Tellable
<1>3. Told \in Seq(Messages) /\ Taken \in Seq(Messages) /\ datagrams \in Seq(Messages)
      /\ commands \in Seq(Messages)
  BY ToldType
<1>4. ASSUME NEW m \in Messages, m \in Tellable, incoming' = Append(incoming, m),
             UNCHANGED <<commands, frame, datagrams>>
      PROVE  Goal
  <2>1. Told' = Append(Told, m) /\ Taken' = Taken /\ Presenting' = Presenting
    BY <1>4, ToldLast DEF Presenting
  <2>2. \A i \in DOMAIN Told' : Told'[i] \in Tellable
    BY <1>1, <1>3, <1>4, <2>1, EveryAppend
  <2>3. QED
    BY <1>1, <1>4, <2>1, <2>2
<1>5. ASSUME NEW c \in Connections, SendEstablished(c) \/ SendDeclined(c)
      PROVE  Goal
  <2>1. /\ Message("established", c, 0) \in Messages /\ Message("declined", c, 0) \in Messages
        /\ Message("established", c, 0) \in Tellable /\ Message("declined", c, 0) \in Tellable
    <3>1. Message("established", c, 0) \in Messages /\ Message("declined", c, 0) \in Messages
      BY MessageType
    <3>2. QED
      BY <3>1 DEF Tellable, Message
  <2>2. UNCHANGED <<commands, frame, datagrams>>
    BY <1>5 DEF SendEstablished, SendDeclined, ecs
  <2>3. \/ incoming' = Append(incoming, Message("established", c, 0))
        \/ incoming' = Append(incoming, Message("declined", c, 0))
    BY <1>5 DEF SendEstablished, SendDeclined
  <2>4. QED
    BY <1>4, <2>1, <2>2, <2>3
<1>6. ASSUME NEW c \in Connections, SendsClosed(c)
      PROVE  Goal
  <2>1. ClosedMessage(c) \in Messages /\ ClosedMessage(c) \in Tellable
    <3>1. ClosedMessage(c) \in Messages
      BY ClosedMessageType
    <3>2. QED
      BY <3>1 DEF Tellable, ClosedMessage
  <2>2. UNCHANGED <<commands, frame, datagrams>> /\ incoming' = Append(incoming, ClosedMessage(c))
    BY <1>6 DEF SendsClosed, SplitReported, SendClosed, ecs
  <2>3. QED
    BY <1>4, <2>1, <2>2
<1>7. ASSUME NEW c \in Connections, ForwardStream(c)
      PROVE  Goal
  <2> DEFINE packet == Message("packet", c, received[c])
  <2>1. ~Datagram /\ packet \in Messages /\ packet \in Tellable
    <3>1. received[c] \in Nat
      BY DEF EndpointTypeOK
    <3>2. ~Datagram /\ packet \in Messages
      BY <1>7, <3>1, MessageType DEF ForwardStream
    <3>3. QED
      BY <3>2 DEF Tellable, Message
  <2>2. UNCHANGED <<commands, frame, datagrams>> /\ incoming' = Append(incoming, packet)
    BY <1>7 DEF ForwardStream, ecs
  <2>3. QED
    BY <1>4, <2>1, <2>2
<1>8. ASSUME NEW type, type # "datagram", Applies(type)
      PROVE  Goal
  <2>1. Told # << >> /\ Told' = Tail(Told) /\ Taken' = << >> /\ ~Presenting' /\ UNCHANGED datagrams
    BY <1>8, ToldFirst DEF Applies, channels
  <2>2. \A i \in DOMAIN Told' : Told'[i] \in Tellable
    BY <1>1, <1>3, <2>1, EveryTail
  <2>3. QED
    BY <1>1, <2>1, <2>2
<1>9. CASE Quiet
  <2>1. \A i \in DOMAIN Told' : Told'[i] \in Tellable
    BY <1>1, <1>9, QuietTold
  <2>2. ASSUME NEW c \in Connections, ForwardDatagram(c)
        PROVE  Goal
    <3> DEFINE packet == Message("datagram", c, received[c])
    <3>1. Datagram /\ UNCHANGED <<commands, frame>> /\ Taken' = Taken /\ Presenting' = Presenting
      BY <2>2 DEF ForwardDatagram, ecs, Taken, Presenting
    <3>2. packet \in Messages /\ packet \in Datagrams
      <4>1. packet \in Messages
        BY MessageType DEF EndpointTypeOK
      <4>2. QED
        BY <4>1 DEF Datagrams, Message
    <3>3. \A i \in DOMAIN datagrams' : datagrams'[i] \in Datagrams
      <4>1. \/ datagrams' = Append(datagrams, packet)
            \/ ~Room(datagrams) /\ datagrams' = Append(Tail(datagrams), packet)
            \/ datagrams' = datagrams
        BY <2>2 DEF ForwardDatagram
      <4> HIDE DEF packet
      <4>2. \A i \in DOMAIN Append(datagrams, packet) : Append(datagrams, packet)[i] \in Datagrams
        BY <1>1, <1>3, <3>2, EveryAppend
      <4>3. ASSUME ~Room(datagrams)
            PROVE  \A i \in DOMAIN Append(Tail(datagrams), packet) :
                      Append(Tail(datagrams), packet)[i] \in Datagrams
        <5>1. datagrams # << >>
          BY <1>3, <4>3, CapacityPositive DEF Room
        <5>2. /\ Tail(datagrams) \in Seq(Messages)
              /\ \A i \in DOMAIN Tail(datagrams) : Tail(datagrams)[i] \in Datagrams
          BY <1>1, <1>3, <5>1, HeadType, EveryTail
        <5>3. QED
          BY <3>2, <5>2, EveryAppend
      <4>4. QED
        BY <1>1, <4>1, <4>2, <4>3
    <3>4. QED
      BY <1>1, <2>1, <3>1, <3>3
  <2>3. CASE TakeDatagram
    <3>1. Presenting /\ Presenting' /\ datagrams # << >> /\ datagrams' = Tail(datagrams)
          /\ Taken = commands /\ Taken' = commands'
          /\ (commands' = commands \/ commands' = Append(commands, Head(datagrams)))
      BY <2>3 DEF TakeDatagram, DatagramReady, Presenting, Taken
    <3>2. Head(datagrams) \in Datagrams /\ Head(datagrams) \in Messages
      BY <1>1, <1>3, <3>1, TailPlaces, HeadType
    <3>3. \A i \in DOMAIN datagrams' : datagrams'[i] \in Datagrams
      BY <1>1, <1>3, <3>1, EveryTail
    <3>4. \A i \in DOMAIN Append(commands, Head(datagrams)) :
             Append(commands, Head(datagrams))[i] \in Datagrams
      BY <1>1, <1>3, <3>1, <3>2, EveryAppend
    <3>5. QED
      BY <1>1, <2>1, <3>1, <3>3, <3>4
  <2>4. CASE ApplyDatagram
    <3>1. commands # << >> /\ commands' = Tail(commands) /\ UNCHANGED <<datagrams, frame>>
      BY <2>4 DEF ApplyDatagram, Applies, channels
    <3>2. CASE Presenting
      <4>1. Taken = commands /\ Taken' = Tail(commands) /\ Presenting'
        BY <3>1, <3>2 DEF Taken, Presenting
      <4>2. \A i \in DOMAIN Taken' : Taken'[i] \in Datagrams
        BY <1>1, <1>3, <3>1, <4>1, EveryTail
      <4>3. QED
        BY <1>1, <2>1, <3>1, <3>2, <4>2
    <3>3. CASE ~Presenting
      BY <1>1, <2>1, <3>1, <3>3 DEF Taken, Presenting
    <3>4. QED
      BY <3>2, <3>3
  <2>5. CASE TakeIncoming \/ IncomingDone \/ DatagramsDone
    <3>1. (Presenting' <=> Presenting) /\ UNCHANGED datagrams /\ (Presenting => commands' = commands)
      BY <2>5 DEF TakeIncoming, IncomingDone, DatagramsDone, Presenting, channels
    <3>2. QED
      BY <1>1, <2>1, <3>1 DEF Taken
  <2>6. CASE ApplyingDone \/ PublishingDone
    <3>1. commands = << >> /\ commands' = << >> /\ UNCHANGED datagrams
          /\ (Presenting' => Datagram)
      BY <2>6 DEF ApplyingDone, PublishingDone, Presenting, channels
    <3>2. Taken' = << >>
      BY <3>1 DEF Taken
    <3>3. QED
      BY <1>1, <2>1, <3>1, <3>2
  <2>7. ASSUME NEW c \in Connections, QuietTask(c), ~ForwardDatagram(c)
        PROVE  UNCHANGED <<commands, frame, datagrams>>
    BY <2>7
    DEF QuietTask, SendTransport, SplitEnds, SplitSucceeds, SplitFails, SeeSendError,
        SeeCancelled, ForwardCancelled, EndReceiving, Finish, Transport,
        ReceiveFails, ReceivePacket, ReceivePanics, SendTask, WriteFails, WriterExits,
        WriterPanics, Unwind, AppDisconnects, channels, ecs
  <2>8. CASE TakeTransport \/ Arrange \/ UNCHANGED endpoint
    BY <1>1, <2>1, <2>8 DEF TakeTransport, Arrange, endpoint, channels, ecs, Taken, Presenting
  <2>9. ASSUME UNCHANGED <<commands, frame, datagrams>>
        PROVE  Goal
    BY <1>1, <2>1, <2>9 DEF Taken, Presenting
  <2>10. QED
    BY <1>9, <2>2, <2>3, <2>4, <2>5, <2>6, <2>7, <2>8, <2>9
    DEF Quiet, QuietSystem, DatagramSystem
<1>10. QED
  BY <1>5, <1>6, <1>7, <1>8, <1>9, QuietOrNot
  DEF ApplyEstablished, ApplyPacket, ApplyClosed, ApplyDeclined

-----------------------------------------------------------------------------
(* Announcement, packets and end of a connection, once and in this order   *)

\* Opens, in the next state
NowOpens(i, c) == Told'[i].type = "established" /\ Told'[i].conn = c

\* A message is told about a connection that is not over.
LEMMA PushAnnounced ==
    ASSUME EndpointTypeOK, AnnounceInv, NEW c \in Connections, NEW m \in Messages, m.conn = c,
           Told' = Append(Told, m), UNCHANGED <<published, ended>>,
           \A d \in Connections \ {c} : stage'[d] = stage[d],
           stage[c] \notin Over, stage[c] # "refused",
           \/ /\ m.type = "established" /\ stage[c] \in Unannounced
              /\ stage'[c] \notin Unannounced /\ stage'[c] \notin Over
           \/ /\ m.type = "packet" /\ stage[c] \notin Unannounced
              /\ stage'[c] \notin Unannounced /\ stage'[c] \notin Over
           \/ /\ m.type = "closed" /\ stage[c] \notin Unannounced
              /\ stage'[c] \in Over
           \/ /\ m.type = "declined" /\ stage[c] \in Unannounced
              /\ stage'[c] = "refused"
    PROVE  AnnounceInv'
<1> DEFINE q == Told
           k == Len(Told) + 1
<1>1. /\ Told \in Seq(Messages)
      /\ \A i \in DOMAIN Told : Told[i] \in Messages /\ Told[i].conn \in Connections
  BY ToldType, ElementOfSeq, MessageFields
<1>2. /\ Len(Told) \in Nat /\ DOMAIN Told = 1..Len(Told) /\ DOMAIN Told' = 1..k
      /\ \A i \in DOMAIN Told : Told'[i] = Told[i]
      /\ Told'[k] = m
      /\ \A i \in DOMAIN Told' : i \in DOMAIN Told \/ i = k
  BY <1>1, AppendPlaces
<1>3. /\ ~ended[c]
      /\ \A i \in DOMAIN Told : Told[i].conn = c => Told[i].type \notin {"closed", "declined"}
      /\ stage[c] \in Unannounced =>
            /\ ~published[c]
            /\ \A i \in DOMAIN Told : Told[i].conn = c => Told[i].type # "established"
      /\ Unannounced \cap Over = {} /\ "refused" \in Unannounced
  BY <1>1 DEF AnnounceInv, Unannounced, Over
<1>4. ASSUME NEW i \in DOMAIN Told'
      PROVE  LET d == Told'[i].conn
             IN  /\ Told'[i].type = "established" => ~published'[d] /\ stage'[d] \notin Unannounced
                 /\ Told'[i].type \in {"packet", "closed"}
                       => published'[d] \/ \E j \in 1..(i - 1) : NowOpens(j, d)
                 /\ Told'[i].type = "closed" => stage'[d] \in Over /\ ~ended'[d]
                 /\ Told'[i].type = "declined" => stage'[d] = "refused"
  <2>1. CASE i \in DOMAIN Told
    <3> DEFINE d == Told[i].conn
    <3>1. Told'[i] = Told[i] /\ d \in Connections
      BY <1>1, <1>2, <2>1
    <3>2. Told[i].type = "established" => ~published[d] /\ stage[d] \notin Unannounced
      BY <2>1 DEF AnnounceInv
    <3>3. Told[i].type \in {"packet", "closed"} => published[d] \/ \E j \in 1..(i - 1) : Opens(j, d)
      BY <2>1 DEF AnnounceInv
    <3>4. /\ Told[i].type = "closed" => stage[d] \in Over /\ ~ended[d]
          /\ Told[i].type = "declined" => stage[d] = "refused"
      BY <2>1 DEF AnnounceInv
    <3>5. \A j \in 1..(i - 1) : Opens(j, d) => NowOpens(j, d)
      BY <1>2, <2>1 DEF Opens, NowOpens
    <3>6. CASE d # c
      BY <3>1, <3>2, <3>3, <3>4, <3>5, <3>6
    <3>7. CASE d = c
      BY <1>3, <2>1, <3>1, <3>2, <3>3, <3>4, <3>5, <3>7
    <3>8. QED
      BY <3>6, <3>7
  <2>2. CASE i = k
    <3>1. Told'[i] = m /\ m.conn = c
      BY <1>2, <2>2
    <3>2. stage[c] \notin Unannounced => published[c] \/ \E j \in DOMAIN Told : Opens(j, c)
      BY DEF AnnounceInv
    <3>3. \A j \in DOMAIN Told : j \in 1..(i - 1) /\ (Opens(j, c) => NowOpens(j, c))
      BY <1>2, <2>2 DEF Opens, NowOpens
    <3>4. QED
      BY <1>3, <3>1, <3>2, <3>3
  <2>3. QED
    BY <1>2, <2>1, <2>2
<1>5. ASSUME NEW i \in DOMAIN Told', NEW j \in DOMAIN Told'
      PROVE  /\ Told'[i].type = "established" /\ NowOpens(j, Told'[i].conn) => i = j
             /\ Told'[i].type = "closed" /\ i < j => Told'[j].conn # Told'[i].conn
  <2>1. CASE i \in DOMAIN Told /\ j \in DOMAIN Told
    BY <1>2, <2>1 DEF AnnounceInv, Opens, NowOpens
  <2>2. CASE i \in DOMAIN Told /\ j = k
    BY <1>2, <1>3, <2>2 DEF Opens, NowOpens
  <2>3. CASE i = k /\ j \in DOMAIN Told
    BY <1>2, <1>3, <2>3 DEF Opens, NowOpens
  <2>4. QED
    BY <1>2, <2>1, <2>2, <2>3
<1>6. ASSUME NEW d \in Connections
      PROVE  /\ ended'[d] => /\ published'[d] /\ stage'[d] \in Over
                             /\ \A i \in DOMAIN Told' : Told'[i].conn # d
             /\ published'[d] => stage'[d] \notin Unannounced
             /\ stage'[d] \notin Unannounced => published'[d] \/ \E i \in DOMAIN Told' : NowOpens(i, d)
  <2>1. \A i \in DOMAIN Told : i \in DOMAIN Told' /\ (Opens(i, d) => NowOpens(i, d))
    BY <1>2 DEF Opens, NowOpens
  <2>2. CASE d # c
    BY <1>2, <2>1, <2>2 DEF AnnounceInv
  <2>3. CASE d = c
    <3>1. m.type = "established" => NowOpens(k, c) /\ k \in DOMAIN Told'
      BY <1>2 DEF Opens, NowOpens
    <3>2. stage[c] \notin Unannounced => published[c] \/ \E j \in DOMAIN Told : Opens(j, c)
      BY DEF AnnounceInv
    <3>3. QED
      BY <1>3, <2>1, <2>3, <3>1, <3>2
  <2>4. QED
    BY <2>2, <2>3
<1>7. QED
  BY <1>4, <1>5, <1>6 DEF AnnounceInv, Opens, NowOpens

\* The first message that was told is announced.
LEMMA PopAnnounced ==
    ASSUME EndpointTypeOK, EndpointTypeOK', AnnounceInv, Told # << >>, Told' = Tail(Told),
           UNCHANGED stage, NEW c, c = Told[1].conn,
           \/ /\ Told[1].type = "established"
              /\ published' = [published EXCEPT ![c] = TRUE] /\ UNCHANGED ended
           \/ Told[1].type \in {"packet", "declined"} /\ UNCHANGED <<published, ended>>
           \/ /\ Told[1].type = "closed"
              /\ ended' = [ended EXCEPT ![c] = TRUE] /\ UNCHANGED published
    PROVE  AnnounceInv'
<1>1. /\ Told \in Seq(Messages)
      /\ \A i \in DOMAIN Told : Told[i] \in Messages /\ Told[i].conn \in Connections
  BY ToldType, ElementOfSeq, MessageFields
<1>2. /\ DOMAIN Told = 1..Len(Told) /\ Len(Told) \in Nat /\ 1 \in DOMAIN Told
      /\ DOMAIN Told' = 1..(Len(Told) - 1)
      /\ \A i \in DOMAIN Told' : i + 1 \in DOMAIN Told /\ Told'[i] = Told[i + 1]
      /\ \A i \in DOMAIN Told : i # 1 => i - 1 \in DOMAIN Told' /\ Told'[i - 1] = Told[i]
  BY <1>1, TailPlaces
<1>3. /\ c \in Connections
      /\ published \in [Connections -> BOOLEAN] /\ ended \in [Connections -> BOOLEAN]
      /\ \A d \in Connections \ {c} : published'[d] = published[d] /\ ended'[d] = ended[d]
      /\ published'[c] <=> (published[c] \/ Told[1].type = "established")
      /\ ended'[c] <=> (ended[c] \/ Told[1].type = "closed")
  <2>1. /\ c \in Connections
        /\ published \in [Connections -> BOOLEAN] /\ ended \in [Connections -> BOOLEAN]
    BY <1>1, <1>2 DEF EndpointTypeOK
  <2>2. CASE Told[1].type = "established"
    BY <2>1, <2>2
  <2>3. CASE Told[1].type = "closed"
    BY <2>1, <2>3
  <2>4. CASE Told[1].type \notin {"established", "closed"}
    BY <2>1, <2>4
  <2>5. QED
    BY <2>2, <2>3, <2>4
<1>4. /\ Told[1].type = "established" => ~published[c] /\ stage[c] \notin Unannounced
      /\ Told[1].type = "closed" => published[c] /\ stage[c] \in Over /\ ~ended[c]
      /\ Told[1].type = "packet" => published[c]
  BY <1>2 DEF AnnounceInv
<1>5. ASSUME NEW d \in Connections, NEW i \in DOMAIN Told, Opens(i, d)
      PROVE  published'[d] \/ (i # 1 /\ NowOpens(i - 1, d))
  BY <1>2, <1>3, <1>5 DEF Opens, NowOpens
<1>6. ASSUME NEW i \in DOMAIN Told'
      PROVE  LET d == Told'[i].conn
             IN  /\ Told'[i].type = "established" => ~published'[d] /\ stage'[d] \notin Unannounced
                 /\ Told'[i].type \in {"packet", "closed"}
                       => published'[d] \/ \E j \in 1..(i - 1) : NowOpens(j, d)
                 /\ Told'[i].type = "closed" => stage'[d] \in Over /\ ~ended'[d]
                 /\ Told'[i].type = "declined" => stage'[d] = "refused"
  <2> DEFINE d == Told[i + 1].conn
  <2>1. i + 1 \in DOMAIN Told /\ Told'[i] = Told[i + 1] /\ d \in Connections /\ i \in Nat /\ i > 0
    BY <1>1, <1>2
  <2>2. /\ Told[i + 1].type = "established" => ~published[d] /\ stage[d] \notin Unannounced
        /\ Told[i + 1].type = "closed" => stage[d] \in Over /\ ~ended[d]
        /\ Told[i + 1].type = "declined" => stage[d] = "refused"
    BY <2>1 DEF AnnounceInv
  <2>3. Told[i + 1].type = "established" /\ Told[1].type = "established" => d # c
    BY <1>2, <2>1 DEF AnnounceInv, Opens, NowOpens
  <2>4. Told[1].type = "closed" => d # c
    BY <1>2, <2>1 DEF AnnounceInv
  <2>5. Told[i + 1].type \in {"packet", "closed"}
           => published'[d] \/ \E j \in 1..(i - 1) : NowOpens(j, d)
    <3>1. SUFFICES ASSUME Told[i + 1].type \in {"packet", "closed"}, ~published'[d]
                   PROVE  \E j \in 1..(i - 1) : NowOpens(j, d)
      OBVIOUS
    <3>2. ~published[d]
      BY <1>3, <2>1, <3>1
    <3>3. PICK j \in 1..i : Opens(j, d)
      <4>1. \E j \in 1..((i + 1) - 1) : Opens(j, d)
        BY <2>1, <3>1, <3>2 DEF AnnounceInv
      <4>2. (i + 1) - 1 = i
        BY <2>1
      <4>3. QED
        BY <4>1, <4>2
    <3>4. j \in DOMAIN Told
      BY <1>2, <2>1, <3>3
    <3>5. j # 1 /\ NowOpens(j - 1, d)
      BY <1>5, <2>1, <3>1, <3>3, <3>4
    <3>6. j - 1 \in 1..(i - 1)
      BY <2>1, <3>3, <3>5
    <3>7. QED
      BY <3>5, <3>6
  <2>6. QED
    BY <1>3, <2>1, <2>2, <2>3, <2>4, <2>5
<1>7. ASSUME NEW i \in DOMAIN Told', NEW j \in DOMAIN Told'
      PROVE  /\ Told'[i].type = "established" /\ NowOpens(j, Told'[i].conn) => i = j
             /\ Told'[i].type = "closed" /\ i < j => Told'[j].conn # Told'[i].conn
  <2>1. /\ i + 1 \in DOMAIN Told /\ Told'[i] = Told[i + 1] /\ i \in Nat
        /\ j + 1 \in DOMAIN Told /\ Told'[j] = Told[j + 1] /\ j \in Nat
    BY <1>2
  <2>2. /\ Told[i + 1].type = "established" /\ Opens(j + 1, Told[i + 1].conn) => i + 1 = j + 1
        /\ Told[i + 1].type = "closed" /\ i + 1 < j + 1 => Told[j + 1].conn # Told[i + 1].conn
    BY <2>1 DEF AnnounceInv
  <2>3. NowOpens(j, Told'[i].conn) => Opens(j + 1, Told[i + 1].conn)
    BY <2>1 DEF Opens, NowOpens
  <2>4. QED
    BY <2>1, <2>2, <2>3
<1>8. ASSUME NEW d \in Connections
      PROVE  /\ ended'[d] => /\ published'[d] /\ stage'[d] \in Over
                             /\ \A i \in DOMAIN Told' : Told'[i].conn # d
             /\ published'[d] => stage'[d] \notin Unannounced
             /\ stage'[d] \notin Unannounced => published'[d] \/ \E i \in DOMAIN Told' : NowOpens(i, d)
  <2>1. /\ ended[d] => /\ published[d] /\ stage[d] \in Over
                       /\ \A i \in DOMAIN Told : Told[i].conn # d
        /\ published[d] => stage[d] \notin Unannounced
        /\ stage[d] \notin Unannounced => published[d] \/ \E i \in DOMAIN Told : Opens(i, d)
    BY DEF AnnounceInv
  <2>2. Told[1].type = "closed" => \A i \in DOMAIN Told' : Told'[i].conn # c
    <3>1. \A i \in DOMAIN Told' : 1 < i + 1
      BY <1>2
    <3>2. QED
      BY <1>2, <3>1 DEF AnnounceInv
  <2>3. ended'[d] => /\ published'[d] /\ stage'[d] \in Over
                     /\ \A i \in DOMAIN Told' : Told'[i].conn # d
    BY <1>2, <1>3, <1>4, <2>1, <2>2
  <2>4. published'[d] => stage'[d] \notin Unannounced
    BY <1>3, <1>4, <2>1
  <2>5. stage'[d] \notin Unannounced => published'[d] \/ \E i \in DOMAIN Told' : NowOpens(i, d)
    BY <1>2, <1>3, <1>5, <2>1
  <2>6. QED
    BY <2>3, <2>4, <2>5
<1>9. QED
  BY <1>6, <1>7, <1>8 DEF AnnounceInv, Opens, NowOpens

\* A step that tells and announces nothing.
LEMMA StillAnnounced ==
    ASSUME EndpointTypeOK, AnnounceInv, UNCHANGED <<Told, published, ended>>,
           \A d \in Connections : /\ stage[d] \in Unannounced <=> stage'[d] \in Unannounced
                                  /\ stage[d] \in Over <=> stage'[d] \in Over
                                  /\ stage[d] = "refused" => stage'[d] = "refused"
    PROVE  AnnounceInv'
<1>1. \A i \in DOMAIN Told : Told[i].conn \in Connections
  BY ToldType, ElementOfSeq, MessageFields
<1>2. QED
  BY <1>1 DEF AnnounceInv, Opens

LEMMA AnnounceKept ==
    ASSUME EndpointTypeOK, FrameInv, AnnounceInv, EndpointNext
    PROVE  AnnounceInv'
<1> USE DEF Goto, Unannounced, Over
<1>1. EndpointTypeOK'
  BY TypesKept
<1>2. CASE Quiet
  BY <1>2, QuietTold, QuietStages, StillAnnounced
<1>3. ASSUME NEW c \in Connections, SendEstablished(c)
      PROVE  AnnounceInv'
  <2> DEFINE m == Message("established", c, 0)
  <2>1. m \in Messages /\ m.conn = c /\ m.type = "established"
    BY MessageType DEF Message
  <2>2. /\ incoming' = Append(incoming, m) /\ UNCHANGED <<commands, frame, published, ended>>
        /\ stage[c] = "announcing" /\ stage' = [stage EXCEPT ![c] = "handing"]
    BY <1>3 DEF SendEstablished, ecs
  <2> HIDE DEF m
  <2>3. Told' = Append(Told, m)
    BY <2>1, <2>2, ToldLast
  <2>4. stage'[c] = "handing" /\ \A d \in Connections \ {c} : stage'[d] = stage[d]
    BY <2>2 DEF EndpointTypeOK
  <2>5. QED
    BY <2>1, <2>2, <2>3, <2>4, PushAnnounced
<1>4. ASSUME NEW c \in Connections, SendDeclined(c)
      PROVE  AnnounceInv'
  <2> DEFINE m == Message("declined", c, 0)
  <2>1. m \in Messages /\ m.conn = c /\ m.type = "declined"
    BY MessageType DEF Message
  <2>2. /\ incoming' = Append(incoming, m) /\ UNCHANGED <<commands, frame, published, ended>>
        /\ stage[c] = "declining" /\ stage' = [stage EXCEPT ![c] = "refused"]
    BY <1>4 DEF SendDeclined, ecs
  <2> HIDE DEF m
  <2>3. Told' = Append(Told, m)
    BY <2>1, <2>2, ToldLast
  <2>4. stage'[c] = "refused" /\ \A d \in Connections \ {c} : stage'[d] = stage[d]
    BY <2>2 DEF EndpointTypeOK
  <2>5. QED
    BY <2>1, <2>2, <2>3, <2>4, PushAnnounced
<1>5. ASSUME NEW c \in Connections, SendsClosed(c)
      PROVE  AnnounceInv'
  <2> DEFINE m == ClosedMessage(c)
  <2>1. m \in Messages /\ m.conn = c /\ m.type = "closed"
    BY ClosedMessageType DEF ClosedMessage
  <2>2. /\ incoming' = Append(incoming, m) /\ UNCHANGED <<commands, frame, published, ended>>
        /\ stage[c] \in {"failing", "closing"}
        /\ \E to \in Over : stage' = [stage EXCEPT ![c] = to]
    BY <1>5 DEF SendsClosed, SplitReported, SendClosed, ecs
  <2> HIDE DEF m
  <2>3. Told' = Append(Told, m)
    BY <2>1, <2>2, ToldLast
  <2>4. stage'[c] \in Over /\ \A d \in Connections \ {c} : stage'[d] = stage[d]
    BY <2>2 DEF EndpointTypeOK
  <2>5. QED
    BY <2>1, <2>2, <2>3, <2>4, PushAnnounced
<1>6. ASSUME NEW c \in Connections, ForwardStream(c)
      PROVE  AnnounceInv'
  <2> DEFINE m == Message("packet", c, received[c])
  <2>1. m \in Messages /\ m.conn = c /\ m.type = "packet"
    <3>1. received[c] \in Nat
      BY DEF EndpointTypeOK
    <3>2. QED
      BY <3>1, MessageType DEF Message
  <2>2. /\ incoming' = Append(incoming, m) /\ UNCHANGED <<commands, frame, published, ended>>
        /\ stage[c] = "forwarding" /\ stage' = [stage EXCEPT ![c] = "receiving"]
    BY <1>6 DEF ForwardStream, ecs
  <2> HIDE DEF m
  <2>3. Told' = Append(Told, m)
    BY <2>1, <2>2, ToldLast
  <2>4. stage'[c] = "receiving" /\ \A d \in Connections \ {c} : stage'[d] = stage[d]
    BY <2>2 DEF EndpointTypeOK
  <2>5. QED
    BY <2>1, <2>2, <2>3, <2>4, PushAnnounced
<1>7. ASSUME NEW type, type # "datagram", Applies(type)
      PROVE  /\ Told # << >> /\ Told' = Tail(Told) /\ UNCHANGED stage
             /\ Head(commands).conn = Told[1].conn /\ Told[1].type = type
  BY <1>7, ToldFirst DEF Applies, tasks
<1>8. CASE ApplyEstablished
  BY <1>1, <1>7, <1>8, PopAnnounced DEF ApplyEstablished
<1>9. CASE ApplyPacket \/ ApplyDeclined
  BY <1>1, <1>7, <1>9, PopAnnounced DEF ApplyPacket, ApplyDeclined
<1>10. CASE ApplyClosed
  BY <1>1, <1>7, <1>10, PopAnnounced DEF ApplyClosed
<1>11. QED
  BY <1>2, <1>3, <1>4, <1>5, <1>6, <1>8, <1>9, <1>10, QuietOrNot

-----------------------------------------------------------------------------
(* The registry                                                            *)

\* remove_connection closes the gap that the connection leaves.
LEMMA Removed ==
    ASSUME registry \in Seq(Connections), NEW c, NEW p \in DOMAIN registry, registry[p] = c,
           \A i, j \in DOMAIN registry : registry[i] = registry[j] => i = j
    PROVE  /\ RemoveConnection(c) \in Seq(Connections)
           /\ DOMAIN RemoveConnection(c) = 1..(Len(registry) - 1)
           /\ \A i \in 1..(Len(registry) - 1) :
                 RemoveConnection(c)[i] = registry[IF i < p THEN i ELSE i + 1]
<1> DEFINE at == CHOOSE i \in DOMAIN registry : registry[i] = c
           n == Len(registry) - 1
           rest == [i \in 1..n |-> registry[IF i < p THEN i ELSE i + 1]]
<1>1. at = p
  OBVIOUS
<1>2. RemoveConnection(c) = rest
  BY <1>1 DEF RemoveConnection
<1>3. n \in Nat /\ p \in 1..Len(registry)
  OBVIOUS
<1>4. \A i \in 1..n : registry[IF i < p THEN i ELSE i + 1] \in Connections
  BY <1>3
<1>5. rest \in Seq(Connections)
  BY <1>3, <1>4, IsASeq
<1>6. QED
  BY <1>2, <1>5

LEMMA RegistryKept ==
    ASSUME EndpointTypeOK, FrameInv, AnnounceInv, RegistryInv, EndpointNext
    PROVE  RegistryInv'
<1>1. /\ registry \in Seq(Connections) /\ DOMAIN registry = 1..Len(registry) /\ Len(registry) \in Nat
      /\ published \in [Connections -> BOOLEAN] /\ ended \in [Connections -> BOOLEAN]
      /\ \A i \in DOMAIN registry : registry[i] \in Connections
  BY DEF EndpointTypeOK
<1>2. ASSUME UNCHANGED <<published, registry, ended>>
      PROVE  RegistryInv'
  BY <1>2 DEF RegistryInv
<1>3. CASE Quiet
  BY <1>2, <1>3, QuietTold
<1>4. ASSUME NEW c \in Connections,
             SendEstablished(c) \/ SendDeclined(c) \/ SendsClosed(c) \/ ForwardStream(c)
      PROVE  RegistryInv'
  BY <1>2, <1>4
  DEF SendEstablished, SendDeclined, SendsClosed, SplitReported, SendClosed, ForwardStream, ecs
<1>5. CASE ApplyPacket \/ ApplyDeclined
  BY <1>2, <1>5 DEF ApplyPacket, ApplyDeclined
<1>6. ASSUME NEW type, type # "datagram", Applies(type)
      PROVE  /\ Told # << >> /\ 1 \in DOMAIN Told /\ Told[1].type = type
             /\ Head(commands).conn = Told[1].conn /\ Told[1].conn \in Connections
  <2>1. Told # << >> /\ Told[1].type = type /\ Head(commands) = Told[1]
    BY <1>6, ToldFirst
  <2>2. Told \in Seq(Messages) /\ 1 \in DOMAIN Told
    BY <2>1, ToldType, TailPlaces
  <2>3. QED
    BY <2>1, <2>2, ElementOfSeq, MessageFields
<1>7. CASE ApplyEstablished
  <2> DEFINE c == Told[1].conn
             k == Len(registry) + 1
  <2>1. /\ c \in Connections /\ Told[1].type = "established" /\ 1 \in DOMAIN Told
        /\ registry' = Append(registry, c) /\ published' = [published EXCEPT ![c] = TRUE]
        /\ UNCHANGED ended
    BY <1>6, <1>7 DEF ApplyEstablished
  <2>2. ~published[c] /\ ~ended[c]
    BY <2>1 DEF AnnounceInv
  <2> HIDE DEF c
  <2>3. /\ DOMAIN registry' = 1..k /\ registry'[k] = c
        /\ \A i \in DOMAIN registry : registry'[i] = registry[i]
        /\ \A i \in DOMAIN registry' : i \in DOMAIN registry \/ i = k
    BY <1>1, <2>1, AppendPlaces
  <2>4. \A i \in DOMAIN registry : registry[i] # c
    BY <2>1, <2>2 DEF RegistryInv
  <2>5. \A i, j \in DOMAIN registry' : registry'[i] = registry'[j] => i = j
    BY <2>3, <2>4 DEF RegistryInv
  <2>6. ASSUME NEW d \in Connections
        PROVE  (published'[d] /\ ~ended'[d]) <=> \E i \in DOMAIN registry' : registry'[i] = d
    <3>1. CASE d = c
      BY <1>1, <2>1, <2>2, <2>3, <3>1
    <3>2. CASE d # c
      <4>1. (published'[d] <=> published[d]) /\ (ended'[d] <=> ended[d])
        BY <1>1, <2>1, <3>2
      <4>2. (\E i \in DOMAIN registry' : registry'[i] = d) <=> \E i \in DOMAIN registry : registry[i] = d
        BY <1>1, <2>3, <3>2
      <4>3. QED
        BY <4>1, <4>2 DEF RegistryInv
    <3>3. QED
      BY <3>1, <3>2
  <2>7. QED
    BY <2>5, <2>6 DEF RegistryInv
<1>8. CASE ApplyClosed
  <2> DEFINE c == Told[1].conn
             n == Len(registry) - 1
  <2>1. /\ c \in Connections /\ Told[1].type = "closed" /\ 1 \in DOMAIN Told
        /\ registry' = RemoveConnection(c) /\ ended' = [ended EXCEPT ![c] = TRUE]
        /\ UNCHANGED published
    BY <1>6, <1>8 DEF ApplyClosed
  <2>2. published[c] /\ ~ended[c]
    BY <2>1 DEF AnnounceInv
  <2> HIDE DEF c
  <2>3. PICK p \in DOMAIN registry : registry[p] = c
    BY <2>1, <2>2 DEF RegistryInv
  <2>4. /\ DOMAIN registry' = 1..n
        /\ \A i \in 1..n : registry'[i] = registry[IF i < p THEN i ELSE i + 1]
    BY <1>1, <2>1, <2>3, Removed DEF RegistryInv
  <2>5. \A i, j \in DOMAIN registry' : registry'[i] = registry'[j] => i = j
    <3>1. SUFFICES ASSUME NEW i \in 1..n, NEW j \in 1..n, registry'[i] = registry'[j]
                   PROVE  i = j
      BY <2>4
    <3> DEFINE i2 == IF i < p THEN i ELSE i + 1
               j2 == IF j < p THEN j ELSE j + 1
    <3>2. i2 \in DOMAIN registry /\ j2 \in DOMAIN registry /\ registry[i2] = registry[j2]
      BY <1>1, <2>4, <3>1
    <3>3. i2 = j2
      BY <3>2 DEF RegistryInv
    <3>4. QED
      BY <1>1, <3>3
  <2>6. ASSUME NEW d \in Connections
        PROVE  (published'[d] /\ ~ended'[d]) <=> \E i \in DOMAIN registry' : registry'[i] = d
    <3>1. ASSUME NEW i \in 1..n
          PROVE  registry'[i] # c /\ \E j \in DOMAIN registry : registry[j] = registry'[i]
      <4> DEFINE i2 == IF i < p THEN i ELSE i + 1
      <4>1. i2 \in DOMAIN registry /\ i2 # p /\ registry'[i] = registry[i2]
        BY <1>1, <2>4, <3>1
      <4> HIDE DEF i2
      <4>2. QED
        BY <2>3, <4>1 DEF RegistryInv
    <3>2. ASSUME NEW j \in DOMAIN registry, registry[j] # c
          PROVE  \E i \in 1..n : registry'[i] = registry[j]
      <4>1. CASE j < p
        <5>1. j \in 1..n /\ registry'[j] = registry[j]
          BY <1>1, <2>4, <4>1
        <5>2. QED
          BY <5>1
      <4>2. CASE j > p
        <5>1. j - 1 \in 1..n /\ ~(j - 1 < p) /\ (j - 1) + 1 = j
          BY <1>1, <4>2
        <5>2. registry'[j - 1] = registry[j]
          BY <2>4, <5>1
        <5>3. QED
          BY <5>1, <5>2
      <4>3. QED
        BY <1>1, <2>3, <3>2, <4>1, <4>2
    <3>3. CASE d = c
      BY <1>1, <2>1, <2>4, <3>1, <3>3
    <3>4. CASE d # c
      <4>1. (published'[d] <=> published[d]) /\ (ended'[d] <=> ended[d])
        BY <1>1, <2>1, <3>4
      <4>2. (\E i \in DOMAIN registry' : registry'[i] = d) <=> \E i \in DOMAIN registry : registry[i] = d
        BY <2>4, <3>1, <3>2, <3>4
      <4>3. QED
        BY <4>1, <4>2 DEF RegistryInv
    <3>5. QED
      BY <3>3, <3>4
  <2>7. QED
    BY <2>5, <2>6 DEF RegistryInv
<1>9. QED
  BY <1>3, <1>4, <1>5, <1>7, <1>8, QuietOrNot

-----------------------------------------------------------------------------
(* The cause of an end                                                     *)

\* An excuse stands: disconnect() is not taken back, nor is a panic.
LEMMA ExcuseStands ==
    ASSUME EndpointTypeOK, EndpointNext, NEW d \in Connections, stage[d] \in Over
    PROVE  /\ asked[d] => asked'[d]
           /\ writer[d] = "panicked" => writer'[d] = "panicked"
<1>1. ASSUME NEW c \in Connections, ConnectionStep(c)
      PROVE  /\ asked[d] => asked'[d]
             /\ writer[d] = "panicked" => writer'[d] = "panicked"
  <2>1. CASE c # d
    BY <1>1, <2>1, OthersAlone
  <2>2. CASE c = d /\ (SendTask(c) \/ AppDisconnects(c) \/ SplitEnds(c))
    BY <2>2 DEF SendTask, WriteFails, WriterExits, WriterPanics, Unwind, AppDisconnects, SplitEnds,
                SplitSucceeds, SplitFails, Goto, EndpointTypeOK, Over
  <2>3. CASE ~(SendTask(c) \/ AppDisconnects(c) \/ SplitEnds(c))
    BY <1>1, <2>3
    DEF ConnectionStep, SendEstablished, SendDeclined, SendTransport, SendsClosed, SplitReported,
        SendClosed, ReceiveTask, SeeSendError, SeeCancelled, ForwardStream, ForwardCancelled,
        EndReceiving, ForwardDatagram, Finish, Transport, ReceiveFails, ReceivePacket, ReceivePanics
  <2>4. QED
    BY <2>1, <2>2, <2>3
<1>2. CASE SystemStep \/ TakeTransport \/ Arrange \/ UNCHANGED endpoint
  BY <1>2
  DEF SystemStep, IncomingLoop, DatagramSystem, TakeIncoming, IncomingDone, ApplyPacket,
      ApplyingDone, TakeDatagram, DatagramsDone, ApplyDatagram, PublishingDone,
      ApplyEstablished, ApplyClosed, ApplyDeclined, Applies, tasks, endpoint, TakeTransport, Arrange
<1>3. QED
  BY <1>1, <1>2 DEF EndpointNext

LEMMA EndMessagesKept ==
    ASSUME EndpointTypeOK, TaskInv, FrameInv, AnnounceInv, EndMessagesInv, EndpointNext
    PROVE  EndMessagesInv'
<1>1. /\ Told \in Seq(Messages)
      /\ \A i \in DOMAIN Told : Told[i] \in Messages /\ Told[i].conn \in Connections
  BY ToldType, ElementOfSeq, MessageFields
<1> DEFINE Fine(m) == m.type = "closed" /\ m.cause = "intentional"
                         => asked[m.conn] \/ writer[m.conn] = "panicked"
           FineNow(m) == m.type = "closed" /\ m.cause = "intentional"
                            => asked'[m.conn] \/ writer'[m.conn] = "panicked"
<1>2. \A i \in DOMAIN Told : FineNow(Told[i])
  <2>1. \A i \in DOMAIN Told : Told[i].type = "closed" => stage[Told[i].conn] \in Over
    BY DEF AnnounceInv
  <2>2. QED
    BY <1>1, <2>1, ExcuseStands DEF EndMessagesInv
<1>3. SUFFICES \A i \in DOMAIN Told' : FineNow(Told'[i])
  BY DEF EndMessagesInv
<1>4. ASSUME NEW m \in Messages, incoming' = Append(incoming, m), UNCHANGED <<commands, frame>>,
             FineNow(m)
      PROVE  \A i \in DOMAIN Told' : FineNow(Told'[i])
  <2>1. Told' = Append(Told, m)
    BY <1>4, ToldLast
  <2>2. QED
    BY <1>1, <1>2, <1>4, <2>1, AppendPlaces
<1>5. CASE Quiet
  BY <1>2, <1>5, QuietTold
<1>6. ASSUME NEW c \in Connections, SendEstablished(c) \/ SendDeclined(c) \/ ForwardStream(c)
      PROVE  \A i \in DOMAIN Told' : FineNow(Told'[i])
  <2>1. PICK type \in {"established", "packet", "declined"}, n \in Nat :
            incoming' = Append(incoming, Message(type, c, n))
    BY <1>6 DEF SendEstablished, SendDeclined, ForwardStream, EndpointTypeOK
  <2>2. Message(type, c, n) \in Messages /\ Message(type, c, n).type # "closed"
    BY MessageType DEF Message
  <2>3. UNCHANGED <<commands, frame>>
    BY <1>6 DEF SendEstablished, SendDeclined, ForwardStream, ecs
  <2>4. QED
    BY <1>4, <2>1, <2>2, <2>3
<1>7. ASSUME NEW c \in Connections, SendsClosed(c)
      PROVE  \A i \in DOMAIN Told' : FineNow(Told'[i])
  <2> DEFINE m == ClosedMessage(c)
  <2>1. m \in Messages /\ m.conn = c /\ m.type = "closed" /\ m.cause = cause[c]
    BY ClosedMessageType DEF ClosedMessage
  <2>2. /\ incoming' = Append(incoming, m) /\ UNCHANGED <<commands, frame, writer, asked>>
        /\ stage[c] \in {"failing", "closing"}
    BY <1>7 DEF SendsClosed, SplitReported, SendClosed, Goto, ecs
  <2>3. cause[c] = "intentional" => asked[c] \/ writer[c] = "panicked"
    BY <2>2 DEF TaskInv, TaskOf, CauseOf
  <2> HIDE DEF m
  <2>4. QED
    BY <1>4, <2>1, <2>2, <2>3
<1>8. ASSUME NEW type, type # "datagram", Applies(type)
      PROVE  \A i \in DOMAIN Told' : FineNow(Told'[i])
  <2>1. Told # << >> /\ Told' = Tail(Told)
    BY <1>8, ToldFirst
  <2>2. QED
    BY <1>1, <1>2, <2>1, TailPlaces
<1>9. QED
  BY <1>5, <1>6, <1>7, <1>8, QuietOrNot
  DEF ApplyEstablished, ApplyPacket, ApplyClosed, ApplyDeclined

-----------------------------------------------------------------------------
(* The packets of a stream                                                 *)

\* How a step moves a connection between reading and handing on.
Progress(d) ==
    /\ \/ received'[d] = received[d]
       \/ stage[d] = "receiving" /\ stage'[d] = "forwarding" /\ received'[d] = received[d] + 1
    /\ stage'[d] = "forwarding" =>
          \/ stage[d] = "forwarding" /\ received'[d] = received[d]
          \/ stage[d] = "receiving" /\ received'[d] = received[d] + 1
    /\ stage'[d] = "receiving" =>
          \/ stage[d] = "receiving"
          \/ received[d] = 0
          \/ stage[d] = "forwarding"
             /\ (Datagram \/ \E m \in Messages : /\ m.type = "packet" /\ m.conn = d /\ m.n = received[d]
                                                 /\ incoming' = Append(incoming, m))
    /\ stage'[d] \in {"finishing", "closing"} /\ cause'[d] = "read" =>
          stage[d] = "receiving" \/ (stage[d] \in {"finishing", "closing"} /\ cause[d] = "read")

LEMMA ProgressHolds ==
    ASSUME EndpointTypeOK, TaskInv, EndpointNext, NEW d \in Connections
    PROVE  Progress(d)
<1> USE DEF EndpointTypeOK, Goto, Progress
<1>1. received[d] \in Nat
  OBVIOUS
<1>2. ASSUME UNCHANGED <<cause, received>>, stage'[d] = stage[d]
      PROVE  Progress(d)
  BY <1>2
<1>3. ASSUME NEW c \in Connections, ConnectionStep(c)
      PROVE  Progress(d)
  <2>1. CASE c # d
    BY <1>3, <2>1, OthersAlone
  <2>2. CASE c = d /\ (SendEstablished(c) \/ SendDeclined(c) \/ SendTransport(c))
    BY <2>2 DEF SendEstablished, SendDeclined, SendTransport
  <2>3. CASE c = d /\ SendsClosed(c)
    <3>1. stage'[d] \in Over /\ UNCHANGED received
      BY <2>3 DEF SendsClosed, SplitReported, SendClosed, Over
    <3>2. QED
      BY <3>1 DEF Over
  <2>4. CASE c = d /\ SplitEnds(c)
    <3>1. stage[d] = "splitting" /\ stage'[d] \in {"receiving", "failing"} /\ UNCHANGED received
      BY <2>4 DEF SplitEnds, SplitSucceeds, SplitFails
    <3>2. received[d] = 0
      BY <3>1 DEF TaskInv, TaskOf, Early
    <3>3. QED
      BY <3>1, <3>2
  <2>5. CASE c = d /\ (SeeSendError(c) \/ SeeCancelled(c) \/ ForwardCancelled(c) \/ ReceiveFails(c))
    <3>1. /\ stage'[d] = "finishing" /\ UNCHANGED received
          /\ cause'[d] = "read" => stage[d] = "receiving"
      BY <2>5 DEF SeeSendError, SeeCancelled, ForwardCancelled, ReceiveFails, EndReceiving
    <3>2. QED
      BY <3>1
  <2>6. CASE c = d /\ Finish(c)
    <3>1. /\ stage[d] = "finishing" /\ stage'[d] = "closing" /\ UNCHANGED received
          /\ cause'[d] = "read" => cause[d] = "read"
      BY <2>6 DEF Finish
    <3>2. QED
      BY <3>1
  <2>7. CASE c = d /\ ForwardStream(c)
    <3> DEFINE m == Message("packet", d, received[d])
    <3>1. m \in Messages /\ m.type = "packet" /\ m.conn = d /\ m.n = received[d]
      BY <1>1, MessageType DEF Message
    <3>2. /\ stage[d] = "forwarding" /\ stage'[d] = "receiving" /\ UNCHANGED <<received, cause>>
          /\ incoming' = Append(incoming, m)
      BY <2>7 DEF ForwardStream
    <3> HIDE DEF m
    <3>3. QED
      BY <3>1, <3>2
  <2>8. CASE c = d /\ ForwardDatagram(c)
    BY <2>8 DEF ForwardDatagram
  <2>9. CASE c = d /\ ReceivePacket(c)
    <3>1. stage[d] = "receiving" /\ stage'[d] = "forwarding" /\ received'[d] = received[d] + 1
      BY <2>9 DEF ReceivePacket, Count
    <3>2. QED
      BY <3>1
  <2>10. CASE c = d /\ ReceivePanics(c)
    BY <2>10 DEF ReceivePanics
  <2>11. CASE SendTask(c) \/ AppDisconnects(c)
    BY <1>2, <2>11 DEF SendTask, WriteFails, WriterExits, WriterPanics, Unwind, AppDisconnects
  <2>12. QED
    BY <1>3, <2>1, <2>2, <2>3, <2>4, <2>5, <2>6, <2>7, <2>8, <2>9, <2>10, <2>11
    DEF ConnectionStep, ReceiveTask, Transport
<1>4. CASE SystemStep \/ UNCHANGED endpoint
  BY <1>2, <1>4
  DEF SystemStep, IncomingLoop, DatagramSystem, TakeIncoming, IncomingDone, ApplyPacket,
      ApplyingDone, TakeDatagram, DatagramsDone, ApplyDatagram, PublishingDone,
      ApplyEstablished, ApplyClosed, ApplyDeclined, Applies, tasks, endpoint
<1>5. CASE TakeTransport \/ Arrange
  <2>1. UNCHANGED <<cause, received>> /\ (stage'[d] = stage[d] \/ stage'[d] \in Early \/ stage'[d] \in Over)
    BY <1>5 DEF TakeTransport, Arrange, Early, Over
  <2>2. QED
    BY <1>2, <2>1 DEF Early, Unannounced, Over
<1>6. QED
  BY <1>3, <1>4, <1>5 DEF EndpointNext

\* AllTold, in the next state
AllNow(c, m) ==
    \A n \in (last'[c] + 1)..m : \E i \in DOMAIN Told' :
        Told'[i].type = "packet" /\ Told'[i].conn = c /\ Told'[i].n = n

\* Nothing is delivered, and what is told is a packet just read or an end.
LEMMA StreamGrows ==
    ASSUME EndpointTypeOK, EndpointTypeOK', AnnounceInv, ~Datagram, StreamInv, UNCHANGED last,
           \A d \in Connections : Progress(d),
           \/ Told' = Told /\ \A e \in Messages : incoming' # Append(incoming, e)
           \/ \E m \in Messages :
                 /\ incoming' = Append(incoming, m) /\ Told' = Append(Told, m)
                 /\ m.type = "packet" =>
                       /\ stage[m.conn] = "forwarding" /\ m.n = received[m.conn]
                       /\ stage'[m.conn] = "receiving" /\ received'[m.conn] = received[m.conn]
                 /\ m.type = "closed" /\ m.cause = "read" =>
                       /\ stage[m.conn] = "closing" /\ cause[m.conn] = "read"
                       /\ received'[m.conn] = received[m.conn]
    PROVE  StreamInv'
<1> DEFINE k == Len(Told) + 1
           m == Told'[k]
           Pushed == k \in DOMAIN Told'
<1>1. /\ Told \in Seq(Messages) /\ DOMAIN Told = 1..Len(Told) /\ Len(Told) \in Nat
      /\ \A i \in DOMAIN Told : Told[i].conn \in Connections /\ Told[i].n \in Nat
      /\ incoming \in Seq(Messages)
  <2>1. Told \in Seq(Messages) /\ incoming \in Seq(Messages)
    BY ToldType
  <2>2. QED
    BY <2>1, ElementOfSeq, MessageFields
<1>2. /\ \A i \in DOMAIN Told : i \in DOMAIN Told' /\ Told'[i] = Told[i]
      /\ \A i \in DOMAIN Told' : i \in DOMAIN Told \/ (i = k /\ Pushed)
      /\ Pushed => /\ m \in Messages /\ incoming' = Append(incoming, m)
                   /\ m.type = "packet" =>
                         /\ stage[m.conn] = "forwarding" /\ m.n = received[m.conn]
                         /\ stage'[m.conn] = "receiving" /\ received'[m.conn] = received[m.conn]
                   /\ m.type = "closed" /\ m.cause = "read" =>
                         /\ stage[m.conn] = "closing" /\ cause[m.conn] = "read"
                         /\ received'[m.conn] = received[m.conn]
      /\ ~Pushed => \A e \in Messages : incoming' # Append(incoming, e)
  <2>1. CASE Told' = Told /\ \A e \in Messages : incoming' # Append(incoming, e)
    <3>1. Len(Told) + 1 \notin DOMAIN Told
      BY <1>1
    <3>2. ~Pushed /\ DOMAIN Told' = DOMAIN Told
      BY <2>1, <3>1
    <3> HIDE DEF k, m, Pushed
    <3>3. QED
      BY <2>1, <3>2
  <2>2. ASSUME NEW e \in Messages, Told' = Append(Told, e)
        PROVE  /\ m = e /\ Pushed
               /\ \A i \in DOMAIN Told : i \in DOMAIN Told' /\ Told'[i] = Told[i]
               /\ \A i \in DOMAIN Told' : i \in DOMAIN Told \/ i = k
    <3>1. /\ DOMAIN Append(Told, e) = 1..(Len(Told) + 1) /\ Append(Told, e)[Len(Told) + 1] = e
          /\ \A i \in DOMAIN Told : Append(Told, e)[i] = Told[i]
          /\ \A i \in DOMAIN Append(Told, e) : i \in DOMAIN Told \/ i = Len(Told) + 1
      BY <1>1, AppendPlaces
    <3>2. Len(Told) + 1 \in 1..(Len(Told) + 1) /\ \A i \in DOMAIN Told : i \in 1..(Len(Told) + 1)
      BY <1>1
    <3> HIDE DEF k
    <3>3. QED
      BY <2>2, <3>1, <3>2 DEF k
  <2>3. QED
    BY <2>1, <2>2
<1>3. \A c \in Connections : /\ last[c] \in Nat /\ received[c] \in Nat /\ received'[c] \in Nat
                             /\ last'[c] = last[c]
  BY DEF EndpointTypeOK
<1>4. Pushed => m.conn \in Connections /\ m.n \in Nat
  BY <1>2, MessageFields
<1> HIDE DEF k, m, Pushed
<1>5. ASSUME NEW c \in Connections, NEW n \in Int, AllTold(c, n)
      PROVE  AllNow(c, n)
  <2>1. SUFFICES ASSUME NEW x \in (last'[c] + 1)..n
                 PROVE  \E i \in DOMAIN Told' :
                           Told'[i].type = "packet" /\ Told'[i].conn = c /\ Told'[i].n = x
    BY DEF AllNow
  <2>2. \E i \in DOMAIN Told : Packet(i, c, x)
    BY <1>3, <1>5, <2>1 DEF AllTold
  <2>3. QED
    BY <1>2, <2>2 DEF Packet
<1>6. ASSUME NEW c \in Connections, stage[c] = "forwarding", Pushed, m.type = "packet", m.conn = c
      PROVE  AllNow(c, received[c])
  <2>1. AllTold(c, received[c] - 1) /\ m.n = received[c]
    BY <1>2, <1>6 DEF StreamInv
  <2>2. AllNow(c, received[c] - 1)
    BY <1>3, <1>5, <2>1
  <2>3. SUFFICES ASSUME NEW x \in (last'[c] + 1)..received[c]
                 PROVE  \E i \in DOMAIN Told' :
                           Told'[i].type = "packet" /\ Told'[i].conn = c /\ Told'[i].n = x
    BY DEF AllNow
  <2>4. CASE x = received[c]
    <3>1. k \in DOMAIN Told' /\ m = Told'[k]
      BY <1>6 DEF Pushed, m
    <3>2. QED
      BY <1>6, <2>1, <2>4, <3>1
  <2>5. CASE x # received[c]
    <3>1. x \in (last'[c] + 1)..(received[c] - 1)
      BY <1>3, <2>3, <2>5
    <3>2. QED
      BY <2>2, <3>1 DEF AllNow
  <2>6. QED
    BY <2>4, <2>5
<1>7. ASSUME NEW i \in DOMAIN Told', Told'[i].type = "packet"
      PROVE  LET c == Told'[i].conn
             IN  /\ Told'[i].n > last'[c] /\ Told'[i].n <= received'[c]
                 /\ stage'[c] = "forwarding" => Told'[i].n < received'[c]
                 /\ AllNow(c, Told'[i].n)
  <2>1. CASE i \in DOMAIN Told
    <3> DEFINE c == Told[i].conn
    <3>1. Told'[i] = Told[i] /\ c \in Connections /\ Told[i].n \in Nat /\ Told[i].type = "packet"
      BY <1>1, <1>2, <1>7, <2>1
    <3>2. /\ Told[i].n > last[c] /\ Told[i].n <= received[c]
          /\ stage[c] = "forwarding" => Told[i].n < received[c]
          /\ AllTold(c, Told[i].n)
      BY <2>1, <3>1 DEF StreamInv
    <3>3. Progress(c)
      BY <3>1
    <3> HIDE DEF c
    <3>4. AllNow(c, Told[i].n)
      BY <1>5, <3>1, <3>2
    <3>5. Told[i].n <= received'[c] /\ (stage'[c] = "forwarding" => Told[i].n < received'[c])
      BY <1>3, <3>1, <3>2, <3>3 DEF Progress
    <3>6. QED
      BY <1>3, <3>1, <3>2, <3>4, <3>5 DEF c
  <2>2. CASE i = k /\ Pushed
    <3> DEFINE c == m.conn
    <3>1. Told'[i] = m /\ m.type = "packet" /\ c \in Connections
      BY <1>4, <1>7, <2>2 DEF m
    <3>2. /\ stage[c] = "forwarding" /\ m.n = received[c]
          /\ stage'[c] = "receiving" /\ received'[c] = received[c]
      BY <1>2, <2>2, <3>1
    <3>3. last[c] < received[c] /\ AllNow(c, received[c])
      BY <1>6, <2>2, <3>1, <3>2 DEF StreamInv
    <3>4. QED
      BY <1>3, <3>1, <3>2, <3>3
  <2>3. QED
    BY <1>2, <2>1, <2>2
<1>8. ASSUME NEW i \in DOMAIN Told', NEW j \in DOMAIN Told',
             Told'[i].type = "packet", Told'[j].type = "packet",
             Told'[i].conn = Told'[j].conn, i < j
      PROVE  Told'[i].n < Told'[j].n
  <2>1. CASE j \in DOMAIN Told
    <3>1. i \in DOMAIN Told
      BY <1>1, <1>2, <1>8, <2>1 DEF k
    <3>2. QED
      BY <1>2, <1>8, <2>1, <3>1 DEF StreamInv
  <2>2. CASE j = k /\ Pushed
    <3>1. Told'[j] = m /\ i \in DOMAIN Told /\ Told'[i] = Told[i]
      BY <1>1, <1>2, <1>8, <2>2 DEF k, m
    <3>2. stage[m.conn] = "forwarding" /\ m.n = received[m.conn]
      BY <1>2, <1>8, <2>2, <3>1
    <3>3. Told[i].n < received[m.conn]
      BY <1>8, <3>1, <3>2 DEF StreamInv
    <3>4. QED
      BY <3>1, <3>2, <3>3
  <2>3. QED
    BY <1>2, <2>1, <2>2
<1>9. ASSUME NEW c \in Connections
      PROVE  /\ stage'[c] = "receiving" => AllNow(c, received'[c])
             /\ stage'[c] = "forwarding" => AllNow(c, received'[c] - 1)
             /\ stage'[c] \in {"finishing", "closing"} /\ cause'[c] = "read"
                   => AllNow(c, received'[c])
             /\ last'[c] <= received'[c]
             /\ stage'[c] = "forwarding" => last'[c] < received'[c]
  <2>1. /\ stage[c] = "receiving" => AllTold(c, received[c])
        /\ stage[c] = "forwarding" => AllTold(c, received[c] - 1)
        /\ stage[c] \in {"finishing", "closing"} /\ cause[c] = "read"
              => AllTold(c, received[c])
        /\ last[c] <= received[c]
        /\ stage[c] = "forwarding" => last[c] < received[c]
    BY DEF StreamInv
  <2>2. /\ AllTold(c, received[c]) => AllNow(c, received[c])
        /\ AllTold(c, received[c] - 1) => AllNow(c, received[c] - 1)
    BY <1>3, <1>5
  <2>3. last'[c] <= received'[c] /\ (stage'[c] = "forwarding" => last'[c] < received'[c])
    BY <1>3, <2>1 DEF Progress
  <2>4. stage'[c] = "receiving" => AllNow(c, received'[c])
    <3>1. SUFFICES ASSUME stage'[c] = "receiving"
                   PROVE  AllNow(c, received[c])
      BY DEF Progress
    <3>2. CASE stage[c] = "receiving"
      BY <2>1, <2>2, <3>2
    <3>3. CASE received[c] = 0
      <4>1. last'[c] = 0
        BY <1>3, <2>1, <3>3
      <4>2. QED
        BY <3>3, <4>1 DEF AllNow
    <3>4. CASE stage[c] = "forwarding" /\ received[c] # 0
      <4>1. PICK e \in Messages : /\ e.type = "packet" /\ e.conn = c /\ incoming' = Append(incoming, e)
        BY <3>1, <3>4 DEF Progress
      <4>2. Pushed
        BY <1>2, <4>1
      <4>3. m = e
        <5>1. m \in Messages /\ Append(incoming, m) = Append(incoming, e)
          BY <1>2, <4>1, <4>2
        <5>2. QED
          BY <1>1, <5>1, AppendInjective
      <4>4. QED
        BY <1>6, <3>4, <4>1, <4>2, <4>3
    <3>5. QED
      BY <3>1, <3>2, <3>3, <3>4 DEF Progress
  <2>5. stage'[c] = "forwarding" => AllNow(c, received'[c] - 1)
    <3>1. SUFFICES ASSUME stage'[c] = "forwarding"
                   PROVE  AllNow(c, received'[c] - 1)
      OBVIOUS
    <3>2. CASE stage[c] = "forwarding" /\ received'[c] = received[c]
      BY <2>1, <2>2, <3>2
    <3>3. CASE stage[c] = "receiving" /\ received'[c] = received[c] + 1
      <4>1. received'[c] - 1 = received[c]
        BY <1>3, <3>3
      <4>2. QED
        BY <2>1, <2>2, <3>3, <4>1
    <3>4. QED
      BY <3>1, <3>2, <3>3 DEF Progress
  <2>6. stage'[c] \in {"finishing", "closing"} /\ cause'[c] = "read" => AllNow(c, received'[c])
    BY <2>1, <2>2 DEF Progress
  <2>7. QED
    BY <2>3, <2>4, <2>5, <2>6
<1>10. ASSUME NEW i \in DOMAIN Told', Told'[i].type = "closed", Told'[i].cause = "read"
       PROVE  AllNow(Told'[i].conn, received'[Told'[i].conn])
  <2>1. CASE i \in DOMAIN Told
    <3> DEFINE c == Told[i].conn
    <3>1. Told'[i] = Told[i] /\ c \in Connections /\ AllTold(c, received[c])
      BY <1>1, <1>2, <1>10, <2>1 DEF StreamInv
    <3>2. stage[c] \in Over
      BY <1>10, <2>1, <3>1 DEF AnnounceInv
    <3>3. received'[c] = received[c]
      BY <3>1, <3>2 DEF Progress, Over
    <3>4. QED
      BY <1>3, <1>5, <3>1, <3>3
  <2>2. CASE i = k /\ Pushed
    <3> DEFINE c == m.conn
    <3>1. /\ Told'[i] = m /\ c \in Connections /\ stage[c] = "closing" /\ cause[c] = "read"
          /\ received'[c] = received[c]
      BY <1>2, <1>4, <1>10, <2>2 DEF m
    <3>2. AllTold(c, received[c])
      BY <3>1 DEF StreamInv
    <3>3. QED
      BY <1>3, <1>5, <3>1, <3>2
  <2>3. QED
    BY <1>2, <2>1, <2>2
<1>11. QED
  BY <1>7, <1>8, <1>9, <1>10 DEF StreamInv, AllTold, Packet, AllNow

\* The first packet that waits is the one after the last that was delivered.
LEMMA FirstIsNext ==
    ASSUME EndpointTypeOK, StreamInv, ~Datagram, Told # << >>, Told[1].type = "packet"
    PROVE  Told[1].n = last[Told[1].conn] + 1
<1> DEFINE c == Told[1].conn
           n == Told[1].n
<1>1. /\ Told \in Seq(Messages) /\ DOMAIN Told = 1..Len(Told) /\ 1 \in DOMAIN Told
      /\ \A i \in DOMAIN Told : Told[i].conn \in Connections /\ Told[i].n \in Nat
  BY ToldType, TailPlaces, ElementOfSeq, MessageFields
<1>2. c \in Connections /\ n \in Nat /\ last[c] \in Nat
  BY <1>1 DEF EndpointTypeOK
<1>3. n > last[c] /\ AllTold(c, n)
  BY <1>1 DEF StreamInv
<1>4. last[c] + 1 \in (last[c] + 1)..n
  BY <1>2, <1>3
<1>5. PICK i \in DOMAIN Told : Packet(i, c, last[c] + 1)
  BY <1>3, <1>4 DEF AllTold
<1>6. CASE i = 1
  BY <1>5, <1>6 DEF Packet
<1>7. CASE i # 1
  <2>1. 1 < i /\ Told[i].type = "packet" /\ Told[i].conn = c /\ Told[i].n = last[c] + 1
    BY <1>1, <1>5, <1>7 DEF Packet
  <2>2. n < Told[i].n
    BY <1>1, <2>1 DEF StreamInv
  <2>3. QED
    BY <1>2, <1>3, <2>1, <2>2
<1>8. QED
  BY <1>6, <1>7

\* The first message that was told is announced.
LEMMA StreamPops ==
    ASSUME EndpointTypeOK, EndpointTypeOK', ~Datagram, StreamInv, Told # << >>, Told' = Tail(Told),
           UNCHANGED <<stage, cause, received>>,
           last' = IF Told[1].type = "packet"
                   THEN [last EXCEPT ![Told[1].conn] = Told[1].n] ELSE last
    PROVE  StreamInv'
<1>1. /\ Told \in Seq(Messages)
      /\ \A i \in DOMAIN Told : Told[i].conn \in Connections /\ Told[i].n \in Nat
  BY ToldType, ElementOfSeq, MessageFields
<1>2. /\ DOMAIN Told = 1..Len(Told) /\ Len(Told) \in Nat /\ 1 \in DOMAIN Told
      /\ \A i \in DOMAIN Told' : i + 1 \in DOMAIN Told /\ Told'[i] = Told[i + 1] /\ i \in Nat /\ i > 0
      /\ \A i \in DOMAIN Told : i # 1 => i - 1 \in DOMAIN Told' /\ Told'[i - 1] = Told[i]
  <2>1. /\ DOMAIN Told = 1..Len(Told) /\ Len(Told) \in Nat /\ 1 \in DOMAIN Told
        /\ DOMAIN Told' = 1..(Len(Told) - 1)
        /\ \A i \in DOMAIN Told' : i + 1 \in DOMAIN Told /\ Told'[i] = Told[i + 1]
        /\ \A i \in DOMAIN Told : i # 1 => i - 1 \in DOMAIN Told' /\ Told'[i - 1] = Told[i]
    BY <1>1, TailPlaces
  <2>2. \A i \in DOMAIN Told' : i \in Nat /\ i > 0
    BY <2>1
  <2>3. QED
    BY <2>1, <2>2
<1> DEFINE c == Told[1].conn
<1>3. /\ c \in Connections /\ Told[1].n \in Nat
      /\ \A d \in Connections : last[d] \in Nat /\ received[d] \in Nat
      /\ \A d \in Connections : d # c \/ Told[1].type # "packet" => last'[d] = last[d]
      /\ Told[1].type = "packet" => last'[c] = Told[1].n /\ Told[1].n = last[c] + 1
  <2>1. c \in Connections /\ Told[1].n \in Nat /\ last \in [Connections -> Nat]
        /\ \A d \in Connections : received[d] \in Nat
    BY <1>1, <1>2 DEF EndpointTypeOK
  <2>2. Told[1].type = "packet" => Told[1].n = last[c] + 1
    BY FirstIsNext
  <2>3. QED
    BY <2>1, <2>2
<1>4. \A d \in Connections : last'[d] \in Nat
  BY <1>3
<1> HIDE DEF c
<1>5. ASSUME NEW d \in Connections, NEW n \in Int, AllTold(d, n)
      PROVE  AllNow(d, n)
  <2>1. SUFFICES ASSUME NEW x \in (last'[d] + 1)..n
                 PROVE  \E i \in DOMAIN Told' :
                           Told'[i].type = "packet" /\ Told'[i].conn = d /\ Told'[i].n = x
    BY DEF AllNow
  <2>2. x \in (last[d] + 1)..n /\ x > last'[d]
    BY <1>3, <1>4, <2>1
  <2>3. PICK i \in DOMAIN Told : Packet(i, d, x)
    BY <1>5, <2>2 DEF AllTold
  <2>4. i # 1
    <3>1. SUFFICES ASSUME i = 1
                   PROVE  FALSE
      OBVIOUS
    <3>2. Told[1].type = "packet" /\ d = c /\ Told[1].n = x
      BY <2>3, <3>1 DEF Packet, c
    <3>3. last'[d] = x
      BY <1>3, <3>2
    <3>4. x \in Int /\ x > x
      BY <2>1, <2>2, <3>3
    <3>5. QED
      BY <3>4
  <2> DEFINE j == i - 1
  <2>5. j \in DOMAIN Told' /\ Told'[j] = Told[i]
    BY <1>2, <2>4
  <2>6. Told[i].type = "packet" /\ Told[i].conn = d /\ Told[i].n = x
    BY <2>3 DEF Packet
  <2> HIDE DEF j
  <2>7. QED
    BY <2>5, <2>6
<1>6. ASSUME NEW i \in DOMAIN Told', Told'[i].type = "packet"
      PROVE  LET d == Told'[i].conn
             IN  /\ Told'[i].n > last'[d] /\ Told'[i].n <= received'[d]
                 /\ stage'[d] = "forwarding" => Told'[i].n < received'[d]
                 /\ AllNow(d, Told'[i].n)
  <2> DEFINE d == Told[i + 1].conn
  <2>1. /\ i + 1 \in DOMAIN Told /\ Told'[i] = Told[i + 1] /\ d \in Connections
        /\ Told[i + 1].n \in Nat /\ Told[i + 1].type = "packet" /\ 1 < i + 1
    BY <1>1, <1>2, <1>6
  <2>2. /\ Told[i + 1].n > last[d] /\ Told[i + 1].n <= received[d]
        /\ stage[d] = "forwarding" => Told[i + 1].n < received[d]
        /\ AllTold(d, Told[i + 1].n)
    BY <2>1 DEF StreamInv
  <2>3. Told[1].type = "packet" /\ d = c => Told[1].n < Told[i + 1].n
    BY <1>2, <2>1 DEF StreamInv, c
  <2> HIDE DEF d
  <2>4. Told[i + 1].n > last'[d]
    BY <1>3, <2>1, <2>2, <2>3
  <2>5. AllNow(d, Told[i + 1].n)
    BY <1>5, <2>1, <2>2
  <2>6. QED
    BY <2>1, <2>2, <2>4, <2>5 DEF d
<1>7. ASSUME NEW i \in DOMAIN Told', NEW j \in DOMAIN Told',
             Told'[i].type = "packet", Told'[j].type = "packet",
             Told'[i].conn = Told'[j].conn, i < j
      PROVE  Told'[i].n < Told'[j].n
  <2>1. /\ i + 1 \in DOMAIN Told /\ Told'[i] = Told[i + 1]
        /\ j + 1 \in DOMAIN Told /\ Told'[j] = Told[j + 1] /\ i + 1 < j + 1
    BY <1>2, <1>7
  <2>2. QED
    BY <1>7, <2>1 DEF StreamInv
<1>8. ASSUME NEW d \in Connections
      PROVE  /\ stage'[d] = "receiving" => AllNow(d, received'[d])
             /\ stage'[d] = "forwarding" => AllNow(d, received'[d] - 1)
             /\ stage'[d] \in {"finishing", "closing"} /\ cause'[d] = "read"
                   => AllNow(d, received'[d])
             /\ last'[d] <= received'[d]
             /\ stage'[d] = "forwarding" => last'[d] < received'[d]
  <2>1. /\ stage[d] = "receiving" => AllTold(d, received[d])
        /\ stage[d] = "forwarding" => AllTold(d, received[d] - 1)
        /\ stage[d] \in {"finishing", "closing"} /\ cause[d] = "read" => AllTold(d, received[d])
        /\ last[d] <= received[d]
        /\ stage[d] = "forwarding" => last[d] < received[d]
    BY DEF StreamInv
  <2>2. /\ AllTold(d, received[d]) => AllNow(d, received[d])
        /\ AllTold(d, received[d] - 1) => AllNow(d, received[d] - 1)
    BY <1>3, <1>5
  <2>3. Told[1].type = "packet" /\ d = c
           => Told[1].n <= received[d] /\ (stage[d] = "forwarding" => Told[1].n < received[d])
    BY <1>2 DEF StreamInv, c
  <2>4. last'[d] <= received[d] /\ (stage[d] = "forwarding" => last'[d] < received[d])
    BY <1>3, <2>1, <2>3
  <2>5. QED
    BY <2>1, <2>2, <2>4
<1>9. ASSUME NEW i \in DOMAIN Told', Told'[i].type = "closed", Told'[i].cause = "read"
      PROVE  AllNow(Told'[i].conn, received'[Told'[i].conn])
  <2> DEFINE d == Told[i + 1].conn
  <2>1. i + 1 \in DOMAIN Told /\ Told'[i] = Told[i + 1] /\ d \in Connections
    BY <1>1, <1>2
  <2>2. AllTold(d, received[d])
    BY <1>9, <2>1 DEF StreamInv
  <2>3. QED
    BY <1>3, <1>5, <2>1, <2>2
<1>10. QED
  BY <1>6, <1>7, <1>8, <1>9 DEF StreamInv, AllTold, Packet, AllNow

LEMMA StreamKept ==
    ASSUME EndpointTypeOK, TaskInv, FrameInv, AnnounceInv, StreamInv, EndpointNext
    PROVE  StreamInv'
<1>1. CASE Datagram
  BY <1>1 DEF StreamInv
<1> SUFFICES ASSUME ~Datagram
             PROVE  StreamInv'
  BY <1>1
<1>2. EndpointTypeOK' /\ \A d \in Connections : Progress(d)
  BY TypesKept, ProgressHolds
<1>3. incoming \in Seq(Messages) /\ \A e \in Messages : Append(incoming, e) # incoming
  <2>1. incoming \in Seq(Messages)
    BY ToldType
  <2>2. ASSUME NEW e \in Messages, Append(incoming, e) = incoming
        PROVE  FALSE
    <3>1. DOMAIN Append(incoming, e) = 1..(Len(incoming) + 1) /\ DOMAIN incoming = 1..Len(incoming)
          /\ Len(incoming) \in Nat
      BY <2>1, AppendPlaces
    <3>2. Len(incoming) + 1 \in 1..(Len(incoming) + 1) /\ Len(incoming) + 1 \notin 1..Len(incoming)
      BY <3>1
    <3>3. QED
      BY <2>2, <3>1, <3>2
  <2>3. QED
    BY <2>1, <2>2
<1>4. CASE Quiet
  <2>1. Told' = Told
    BY <1>4, QuietTold
  <2>2. UNCHANGED last
    <3>1. CASE ApplyDatagram
      <4>1. Told # << >> /\ Told[1] = Head(commands) /\ Head(commands).type = "datagram"
        <5>1. ~Presenting /\ commands # << >> /\ Head(commands).type = "datagram"
          BY <3>1 DEF ApplyDatagram, Applies, FrameInv
        <5>2. Told = commands \o incoming /\ Head(commands) = commands[1]
          BY <5>1, ToldType, ConcatTail DEF Told
        <5>3. QED
          BY <5>1, <5>2, ToldType, ConcatTail
      <4>2. 1 \in DOMAIN Told
        BY <4>1, ToldType, TailPlaces
      <4>3. QED
        BY <4>1, <4>2 DEF FrameInv
    <3>2. CASE ~ApplyDatagram
      BY <1>4, <3>2, QuietTaskFrame
      DEF Quiet, QuietSystem, DatagramSystem, TakeIncoming, IncomingDone, ApplyingDone, TakeDatagram,
          DatagramsDone, PublishingDone, TakeTransport, Arrange, endpoint, ecs
    <3>3. QED
      BY <3>1, <3>2
  <2>3. incoming' = incoming \/ (incoming # << >> /\ incoming' = Tail(incoming))
    BY <1>4, QuietTaskFrame
    DEF Quiet, QuietSystem, DatagramSystem, TakeIncoming, IncomingDone, ApplyingDone, TakeDatagram,
        DatagramsDone, ApplyDatagram, Applies, PublishingDone, TakeTransport, Arrange, endpoint,
        channels
  <2>4. \A e \in Messages : incoming' # Append(incoming, e)
    <3>1. ASSUME NEW e \in Messages, incoming # << >>, Tail(incoming) = Append(incoming, e)
          PROVE  FALSE
      <4>1. /\ DOMAIN Append(incoming, e) = 1..(Len(incoming) + 1) /\ Len(incoming) \in Nat
            /\ DOMAIN Tail(incoming) = 1..(Len(incoming) - 1)
        BY <1>3, <3>1, AppendPlaces, TailPlaces
      <4>2. Len(incoming) + 1 \in 1..(Len(incoming) + 1) /\ Len(incoming) + 1 \notin 1..(Len(incoming) - 1)
        BY <4>1
      <4>3. QED
        BY <3>1, <4>1, <4>2
    <3>2. QED
      BY <1>3, <2>3, <3>1
  <2>5. QED
    BY <1>2, <2>1, <2>2, <2>4, StreamGrows
<1>5. ASSUME NEW m \in Messages, incoming' = Append(incoming, m), UNCHANGED <<commands, frame, last>>,
             /\ m.type = "packet" =>
                   /\ stage[m.conn] = "forwarding" /\ m.n = received[m.conn]
                   /\ stage'[m.conn] = "receiving" /\ received'[m.conn] = received[m.conn]
             /\ m.type = "closed" /\ m.cause = "read" =>
                   /\ stage[m.conn] = "closing" /\ cause[m.conn] = "read"
                   /\ received'[m.conn] = received[m.conn]
      PROVE  StreamInv'
  <2>1. Told' = Append(Told, m)
    BY <1>5, ToldLast
  <2>2. QED
    BY <1>2, <1>5, <2>1, StreamGrows
<1>6. ASSUME NEW c \in Connections, SendEstablished(c) \/ SendDeclined(c)
      PROVE  StreamInv'
  <2>1. PICK type \in {"established", "declined"} : incoming' = Append(incoming, Message(type, c, 0))
    BY <1>6 DEF SendEstablished, SendDeclined
  <2>2. Message(type, c, 0) \in Messages /\ Message(type, c, 0).type \notin {"closed", "packet"}
    BY MessageType DEF Message
  <2>3. UNCHANGED <<commands, frame, last>>
    BY <1>6 DEF SendEstablished, SendDeclined, ecs
  <2>4. QED
    BY <1>5, <2>1, <2>2, <2>3
<1>7. ASSUME NEW c \in Connections, SendsClosed(c)
      PROVE  StreamInv'
  <2> DEFINE m == ClosedMessage(c)
  <2>1. m \in Messages /\ m.conn = c /\ m.type = "closed" /\ m.cause = cause[c]
    BY ClosedMessageType DEF ClosedMessage
  <2>2. /\ incoming' = Append(incoming, m) /\ UNCHANGED <<commands, frame, last, received>>
        /\ stage[c] \in {"failing", "closing"}
    BY <1>7 DEF SendsClosed, SplitReported, SendClosed, Goto, ecs
  <2>3. cause[c] = "read" => stage[c] = "closing"
    BY <2>2 DEF TaskInv, TaskOf
  <2> HIDE DEF m
  <2>4. QED
    BY <1>5, <2>1, <2>2, <2>3
<1>8. ASSUME NEW c \in Connections, ForwardStream(c)
      PROVE  StreamInv'
  <2> DEFINE m == Message("packet", c, received[c])
  <2>1. m \in Messages /\ m.conn = c /\ m.type = "packet" /\ m.n = received[c]
    <3>1. received[c] \in Nat
      BY DEF EndpointTypeOK
    <3>2. QED
      BY <3>1, MessageType DEF Message
  <2>2. /\ incoming' = Append(incoming, m) /\ UNCHANGED <<commands, frame, last, received>>
        /\ stage[c] = "forwarding" /\ stage'[c] = "receiving"
    BY <1>8 DEF ForwardStream, Goto, ecs, EndpointTypeOK
  <2> HIDE DEF m
  <2>3. QED
    BY <1>5, <2>1, <2>2
<1>9. ASSUME NEW type, type # "datagram", Applies(type)
      PROVE  /\ Told # << >> /\ Told' = Tail(Told) /\ UNCHANGED <<stage, cause, received>>
             /\ Told[1] = Head(commands) /\ Told[1].type = type
  BY <1>9, ToldFirst DEF Applies, tasks
<1>10. CASE ApplyEstablished \/ ApplyClosed \/ ApplyDeclined
  <2>1. PICK type \in {"established", "closed", "declined"} : Applies(type) /\ UNCHANGED last
    BY <1>10 DEF ApplyEstablished, ApplyClosed, ApplyDeclined
  <2>2. QED
    BY <1>2, <1>9, <2>1, StreamPops
<1>11. CASE ApplyPacket
  <2>1. Applies("packet") /\ last' = [last EXCEPT ![Head(commands).conn] = Head(commands).n]
    BY <1>11 DEF ApplyPacket, Deliver
  <2>2. QED
    BY <1>2, <1>9, <2>1, StreamPops
<1>12. QED
  BY <1>4, <1>6, <1>7, <1>8, <1>10, <1>11, QuietOrNot

-----------------------------------------------------------------------------
(* The order of datagrams                                                  *)

LEMMA OrderedTail ==
    ASSUME NEW q \in Seq(Messages), q # << >>, Ordered(q)
    PROVE  Ordered(Tail(q))
<1>1. SUFFICES ASSUME NEW i \in DOMAIN Tail(q), NEW j \in DOMAIN Tail(q),
                      Tail(q)[i].conn = Tail(q)[j].conn, i < j
               PROVE  Tail(q)[i].n < Tail(q)[j].n
  BY DEF Ordered
<1>2. /\ i + 1 \in DOMAIN q /\ Tail(q)[i] = q[i + 1] /\ j + 1 \in DOMAIN q /\ Tail(q)[j] = q[j + 1]
      /\ i \in Int /\ j \in Int
  BY TailPlaces
<1>3. i + 1 < j + 1
  BY <1>1, <1>2
<1>4. QED
  BY <1>1, <1>2, <1>3 DEF Ordered

LEMMA OrderedAppend ==
    ASSUME NEW q \in Seq(Messages), NEW e \in Messages, Ordered(q),
           \A i \in DOMAIN q : q[i].conn = e.conn => q[i].n < e.n
    PROVE  Ordered(Append(q, e))
<1> DEFINE k == Len(q) + 1
           r == Append(q, e)
<1>1. /\ DOMAIN q = 1..Len(q) /\ Len(q) \in Nat /\ r[k] = e
      /\ \A i \in DOMAIN q : r[i] = q[i]
      /\ \A i \in DOMAIN r : i \in DOMAIN q \/ i = k
  BY AppendPlaces
<1>2. \A i \in DOMAIN q : ~(k < i) /\ i # k
  BY <1>1
<1>3. ~(k < k)
  BY <1>1
<1> HIDE DEF k, r
<1>4. Ordered(r)
  BY <1>1, <1>2, <1>3 DEF Ordered
<1>5. QED
  BY <1>4 DEF r

LEMMA AheadTail ==
    ASSUME NEW p \in Seq(Messages), NEW q \in Seq(Messages), Ahead(p, q)
    PROVE  /\ p # << >> => Ahead(Tail(p), q)
           /\ q # << >> => Ahead(p, Tail(q))
<1>1. ASSUME p # << >>
      PROVE  Ahead(Tail(p), q)
  BY <1>1, TailPlaces DEF Ahead
<1>2. ASSUME q # << >>
      PROVE  Ahead(p, Tail(q))
  BY <1>2, TailPlaces DEF Ahead
<1>3. QED
  BY <1>1, <1>2

LEMMA AheadAppend ==
    ASSUME NEW p \in Seq(Messages), NEW q \in Seq(Messages), NEW e \in Messages, Ahead(p, q),
           \A i \in DOMAIN p : p[i].conn = e.conn => p[i].n < e.n
    PROVE  Ahead(p, Append(q, e))
BY AppendPlaces DEF Ahead

\* A packet goes over from the queue to the commands.
LEMMA OrderedMove ==
    ASSUME NEW p \in Seq(Messages), NEW q \in Seq(Messages), q # << >>, Ordered(p), Ordered(q),
           Ahead(p, q)
    PROVE  Ordered(Append(p, Head(q))) /\ Ahead(Append(p, Head(q)), Tail(q))
<1> DEFINE e == Head(q)
           r == Append(p, e)
           t == Tail(q)
<1>1. /\ e \in Messages /\ e = q[1] /\ 1 \in DOMAIN q /\ DOMAIN q = 1..Len(q)
      /\ \A j \in DOMAIN t : j + 1 \in DOMAIN q /\ t[j] = q[j + 1] /\ j \in Int
  <2>1. e \in Messages /\ e = q[1] /\ 1 \in DOMAIN q /\ DOMAIN q = 1..Len(q)
        /\ DOMAIN t = 1..(Len(q) - 1) /\ \A j \in DOMAIN t : j + 1 \in DOMAIN q /\ t[j] = q[j + 1]
    BY HeadType, TailPlaces
  <2>2. QED
    BY <2>1
<1>2. \A j \in DOMAIN t : 1 < j + 1
  <2>1. \A j \in DOMAIN t : j + 1 # 1 /\ j + 1 \in 1..Len(q)
    <3>1. DOMAIN t = 1..(Len(q) - 1)
      BY TailPlaces
    <3>2. QED
      BY <1>1, <3>1
  <2>2. QED
    BY <1>1, <2>1
<1>3. \A i \in DOMAIN p : p[i].conn = e.conn => p[i].n < e.n
  BY <1>1 DEF Ahead
<1>4. /\ \A i \in DOMAIN p : r[i] = p[i]
      /\ r[Len(p) + 1] = e
      /\ \A i \in DOMAIN r : i \in DOMAIN p \/ i = Len(p) + 1
  BY <1>1, AppendPlaces
<1>5. Ordered(r)
  BY <1>1, <1>3, OrderedAppend
<1>6. \A j \in DOMAIN t : t[j].conn = e.conn => e.n < t[j].n
  BY <1>1, <1>2 DEF Ordered
<1>7. \A i \in DOMAIN p, j \in DOMAIN t : p[i].conn = t[j].conn => p[i].n < t[j].n
  BY <1>1 DEF Ahead
<1> HIDE DEF e, r, t
<1>8. Ahead(r, t)
  BY <1>4, <1>6, <1>7 DEF Ahead
<1>9. QED
  BY <1>5, <1>8 DEF e, r, t

\* A packet that is not delivered, dropped or taken over stays fresh.
LEMMA StaysFresh ==
    ASSUME EndpointTypeOK, EndpointTypeOK', NEW m \in Fresh, Progress(m.conn), last'[m.conn] < m.n
    PROVE  m \in Fresh'
<1> DEFINE c == m.conn
<1>1. /\ m \in Messages /\ c \in Connections /\ m.n \in Nat
      /\ last[c] < m.n /\ m.n <= received[c]
      /\ stage[c] = "forwarding" => m.n < received[c]
  BY MessageFields DEF Fresh
<1>2. received[c] \in Nat /\ received'[c] \in Nat
  BY <1>1 DEF EndpointTypeOK
<1>3. m.n <= received'[c] /\ (stage'[c] = "forwarding" => m.n < received'[c])
  BY <1>1, <1>2 DEF Progress
<1>4. QED
  BY <1>1, <1>3 DEF Fresh

LEMMA PublishedStays ==
    ASSUME EndpointTypeOK, FrameInv, EndpointNext, NEW d \in Connections, published[d]
    PROVE  published'[d]
<1>1. CASE Quiet
  BY <1>1, QuietTold
<1>2. ASSUME NEW c \in Connections,
             SendEstablished(c) \/ SendDeclined(c) \/ SendsClosed(c) \/ ForwardStream(c)
      PROVE  published'[d]
  BY <1>2
  DEF SendEstablished, SendDeclined, SendsClosed, SplitReported, SendClosed, ForwardStream, ecs
<1>3. CASE ApplyEstablished
  <2>1. published' = [published EXCEPT ![Head(commands).conn] = TRUE]
    BY <1>3 DEF ApplyEstablished
  <2>2. QED
    BY <2>1 DEF EndpointTypeOK
<1>4. CASE ApplyPacket \/ ApplyClosed \/ ApplyDeclined
  BY <1>4 DEF ApplyPacket, ApplyClosed, ApplyDeclined
<1>5. QED
  BY <1>1, <1>2, <1>3, <1>4, QuietOrNot

\* A datagram is applied while receive_datagram_packets runs.
LEMMA DatagramFirst ==
    ASSUME EndpointTypeOK, FrameInv, ApplyDatagram
    PROVE  /\ Presenting /\ Presenting' /\ Datagram
           /\ Taken # << >> /\ Taken[1] = Head(commands) /\ Taken = commands
           /\ Taken' = Tail(Taken) /\ UNCHANGED <<datagrams, stage, received, published>>
<1>1. /\ commands \in Seq(Messages) /\ commands # << >> /\ Head(commands) = commands[1]
      /\ Head(commands).type = "datagram" /\ commands' = Tail(commands)
      /\ UNCHANGED <<incoming, frame, datagrams, stage, received, published>>
  BY DEF ApplyDatagram, Applies, channels, tasks, EndpointTypeOK
<1>2. Presenting
  <2>1. SUFFICES ASSUME ~Presenting
                 PROVE  FALSE
    OBVIOUS
  <2>2. Told = commands \o incoming
    BY <2>1 DEF Told
  <2>3. Told # << >> /\ Told[1] = Head(commands)
    BY <1>1, <2>2, ConcatTail, ToldType
  <2>4. 1 \in DOMAIN Told
    BY <2>3, ToldType, TailPlaces
  <2>5. QED
    BY <1>1, <2>3, <2>4 DEF FrameInv
<1>3. Presenting' /\ Datagram
  BY <1>1, <1>2 DEF Presenting, FrameInv
<1>4. QED
  BY <1>1, <1>2, <1>3 DEF Taken

LEMMA DatagramKept ==
    ASSUME EndpointTypeOK, TaskInv, FrameInv, DatagramInv, EndpointNext
    PROVE  DatagramInv'
<1>1. SUFFICES ASSUME Datagram
               PROVE  /\ \A i \in DOMAIN datagrams' : datagrams'[i] \in Fresh'
                      /\ \A i \in DOMAIN Taken' : Taken'[i] \in Fresh' /\ published'[Taken'[i].conn]
                      /\ Ordered(datagrams') /\ Ordered(Taken') /\ Ahead(Taken', datagrams')
                      /\ \A c \in Connections :
                            /\ last'[c] <= received'[c]
                            /\ stage'[c] = "forwarding" => last'[c] < received'[c]
  BY DEF DatagramInv
<1> DEFINE Shown == {m \in Messages : m \in Fresh /\ published[m.conn]}
           ShownNow == {m \in Messages : m \in Fresh' /\ published'[m.conn]}
           Goal == /\ \A i \in DOMAIN datagrams' : datagrams'[i] \in Fresh'
                   /\ \A i \in DOMAIN Taken' : Taken'[i] \in ShownNow
                   /\ Ordered(datagrams') /\ Ordered(Taken') /\ Ahead(Taken', datagrams')
                   /\ \A c \in Connections :
                         /\ last'[c] <= received'[c]
                         /\ stage'[c] = "forwarding" => last'[c] < received'[c]
<1>2. /\ \A i \in DOMAIN datagrams : datagrams[i] \in Fresh
      /\ \A i \in DOMAIN Taken : Taken[i] \in Fresh /\ published[Taken[i].conn]
      /\ Ordered(datagrams) /\ Ordered(Taken) /\ Ahead(Taken, datagrams)
      /\ \A c \in Connections :
            last[c] <= received[c] /\ (stage[c] = "forwarding" => last[c] < received[c])
  BY <1>1 DEF DatagramInv
<1>3. /\ EndpointTypeOK' /\ \A d \in Connections : Progress(d)
      /\ Taken \in Seq(Messages) /\ datagrams \in Seq(Messages)
      /\ \A d \in Connections : published[d] => published'[d]
      /\ \A c \in Connections : last[c] \in Nat /\ received[c] \in Nat /\ last'[c] \in Nat
                                /\ received'[c] \in Nat
  <2>1. EndpointTypeOK'
    BY TypesKept
  <2>2. \A c \in Connections : last[c] \in Nat /\ received[c] \in Nat /\ last'[c] \in Nat
                               /\ received'[c] \in Nat
    BY <2>1 DEF EndpointTypeOK
  <2>3. QED
    BY <2>1, <2>2, ProgressHolds, ToldType, PublishedStays
<1>4. SUFFICES Goal
  OBVIOUS
<1>5. ASSUME UNCHANGED last
      PROVE  /\ \A m \in Fresh : m \in Fresh'
             /\ \A i \in DOMAIN datagrams : datagrams[i] \in Fresh'
             /\ \A i \in DOMAIN Taken : Taken[i] \in ShownNow
             /\ \A c \in Connections :
                   /\ last'[c] <= received'[c]
                   /\ stage'[c] = "forwarding" => last'[c] < received'[c]
  <2>1. \A m \in Fresh : m \in Messages /\ m.conn \in Connections /\ last'[m.conn] < m.n
    BY <1>5, MessageFields DEF Fresh
  <2>2. \A m \in Fresh : m \in Fresh'
    BY <1>3, <2>1, StaysFresh
  <2>3. \A c \in Connections :
           /\ last'[c] <= received'[c]
           /\ stage'[c] = "forwarding" => last'[c] < received'[c]
    BY <1>2, <1>3, <1>5 DEF Progress
  <2>4. \A i \in DOMAIN Taken : Taken[i] \in ShownNow
    BY <1>2, <1>3, <2>1, <2>2
  <2>5. QED
    BY <1>2, <2>2, <2>3, <2>4
<1>6. ASSUME UNCHANGED <<last, datagrams, Taken>>
      PROVE  Goal
  BY <1>2, <1>5, <1>6
<1>7. ASSUME NEW c \in Connections, ForwardDatagram(c)
      PROVE  Goal
  <2> DEFINE m == Message("datagram", c, received[c])
  <2>1. /\ m \in Messages /\ m.conn = c /\ m.n = received[c] /\ stage[c] = "forwarding"
        /\ stage'[c] = "receiving" /\ UNCHANGED <<last, received, commands, frame>>
    <3>1. m \in Messages
      BY <1>3, MessageType
    <3>2. QED
      BY <1>7, <3>1 DEF ForwardDatagram, Goto, Message, ecs, EndpointTypeOK
  <2>2. \/ datagrams' = datagrams
        \/ datagrams' = Append(datagrams, m)
        \/ ~Room(datagrams) /\ datagrams' = Append(Tail(datagrams), m)
    BY <1>7 DEF ForwardDatagram
  <2> HIDE DEF m
  <2>3. Taken' = Taken
    BY <2>1 DEF Taken, Presenting
  <2>4. m \in Fresh'
    <3>1. last'[c] < received'[c]
      BY <1>2, <2>1
    <3>2. m.n <= received'[c]
      BY <1>3, <2>1
    <3>3. QED
      BY <2>1, <3>1, <3>2 DEF Fresh
  <2>5. \A x \in Fresh : x.conn = m.conn => x.n < m.n
    BY <2>1 DEF Fresh
  <2>6. ASSUME NEW q \in Seq(Messages), \A i \in DOMAIN q : q[i] \in Fresh, Ordered(q),
               Ahead(Taken, q), datagrams' = Append(q, m)
        PROVE  Goal
    <3>1. \A i \in DOMAIN q : q[i].conn = m.conn => q[i].n < m.n
      BY <2>5, <2>6
    <3>2. Ordered(datagrams')
      BY <2>1, <2>6, <3>1, OrderedAppend
    <3>3. \A i \in DOMAIN Taken : Taken[i].conn = m.conn => Taken[i].n < m.n
      BY <1>2, <2>5
    <3>4. Ahead(Taken, datagrams')
      BY <1>3, <2>1, <2>6, <3>3, AheadAppend
    <3>5. \A i \in DOMAIN q : q[i] \in Fresh'
      BY <1>5, <2>1, <2>6
    <3>6. \A i \in DOMAIN datagrams' : datagrams'[i] \in Fresh'
      BY <2>1, <2>4, <2>6, <3>5, EveryAppend
    <3>7. QED
      BY <1>2, <1>5, <2>1, <2>3, <3>2, <3>4, <3>6
  <2>7. CASE datagrams' = datagrams
    BY <1>6, <2>1, <2>3, <2>7
  <2>8. CASE datagrams' = Append(datagrams, m)
    BY <1>2, <1>3, <2>6, <2>8
  <2>9. CASE ~Room(datagrams) /\ datagrams' = Append(Tail(datagrams), m)
    <3>1. datagrams # << >>
      BY <1>3, <2>9, CapacityPositive DEF Room
    <3>2. /\ Tail(datagrams) \in Seq(Messages) /\ Ordered(Tail(datagrams))
          /\ Ahead(Taken, Tail(datagrams))
          /\ \A i \in DOMAIN Tail(datagrams) : Tail(datagrams)[i] \in Fresh
      BY <1>2, <1>3, <3>1, HeadType, OrderedTail, AheadTail, EveryTail
    <3>3. QED
      BY <2>6, <2>9, <3>2
  <2>10. QED
    BY <2>2, <2>7, <2>8, <2>9
<1>8. CASE TakeDatagram
  <2>1. /\ Presenting /\ Presenting' /\ datagrams # << >> /\ datagrams' = Tail(datagrams)
        /\ UNCHANGED last
        /\ \/ commands' = commands
           \/ commands' = Append(commands, Head(datagrams)) /\ published[Head(datagrams).conn]
    BY <1>8 DEF TakeDatagram, DatagramReady, Presenting
  <2>2. /\ Ordered(datagrams') /\ Ahead(Taken, datagrams')
        /\ \A i \in DOMAIN datagrams' : datagrams'[i] \in Fresh'
    BY <1>2, <1>3, <1>5, <2>1, OrderedTail, AheadTail, EveryTail
  <2>3. CASE commands' = commands
    <3>1. Taken' = Taken
      BY <2>1, <2>3 DEF Taken
    <3>2. QED
      BY <1>2, <1>5, <2>1, <2>2, <3>1
  <2>4. CASE commands' = Append(commands, Head(datagrams)) /\ published[Head(datagrams).conn]
    <3>1. Taken' = Append(Taken, Head(datagrams))
      BY <2>1, <2>4 DEF Taken
    <3>2. Ordered(Taken') /\ Ahead(Taken', datagrams')
      BY <1>2, <1>3, <2>1, <3>1, OrderedMove
    <3>3. Head(datagrams) \in Messages /\ Head(datagrams) \in Fresh' /\ Head(datagrams).conn \in Connections
      <4>1. Head(datagrams) = datagrams[1] /\ 1 \in DOMAIN datagrams /\ Head(datagrams) \in Messages
        BY <1>3, <2>1, TailPlaces, HeadType
      <4>2. QED
        BY <1>5, <2>1, <4>1, MessageFields
    <3>4. Head(datagrams) \in ShownNow
      BY <1>3, <2>4, <3>3
    <3>5. \A i \in DOMAIN Taken' : Taken'[i] \in ShownNow
      BY <1>3, <1>5, <2>1, <3>1, <3>3, <3>4, EveryAppend
    <3>6. QED
      BY <1>5, <2>1, <2>2, <3>2, <3>5
  <2>5. QED
    BY <2>1, <2>3, <2>4
<1>9. CASE ApplyDatagram
  <2> DEFINE h == Taken[1]
  <2>1. /\ Taken # << >> /\ Head(commands) = h /\ Taken' = Tail(Taken)
        /\ UNCHANGED <<datagrams, stage, received, published>>
    BY <1>9, DatagramFirst
  <2>2. /\ Ordered(Taken') /\ Ahead(Taken', datagrams') /\ Ordered(datagrams')
    BY <1>2, <1>3, <2>1, OrderedTail, AheadTail
  <2>3. CASE UNCHANGED last
    <3>1. \A i \in DOMAIN Taken' : Taken'[i] \in ShownNow
      BY <1>3, <1>5, <2>1, <2>3, EveryTail
    <3>2. QED
      BY <1>5, <2>1, <2>2, <2>3, <3>1
  <2>4. CASE last' = [last EXCEPT ![h.conn] = h.n]
    <3>1. /\ DOMAIN Taken = 1..Len(Taken) /\ 1 \in DOMAIN Taken /\ h \in Fresh /\ h \in Messages
          /\ h.conn \in Connections /\ h.n \in Nat /\ h.n <= received[h.conn]
          /\ stage[h.conn] = "forwarding" => h.n < received[h.conn]
          /\ \A i \in DOMAIN Taken' : i + 1 \in DOMAIN Taken /\ Taken'[i] = Taken[i + 1] /\ 1 < i + 1
      <4>1. /\ DOMAIN Taken = 1..Len(Taken) /\ 1 \in DOMAIN Taken /\ DOMAIN Taken' = 1..(Len(Taken) - 1)
            /\ \A i \in DOMAIN Taken' : i + 1 \in DOMAIN Taken /\ Taken'[i] = Taken[i + 1]
        BY <1>3, <2>1, TailPlaces
      <4>2. \A i \in DOMAIN Taken' : 1 < i + 1
        BY <4>1
      <4>3. h \in Fresh
        BY <1>2, <4>1
      <4>4. QED
        BY <4>1, <4>2, <4>3, MessageFields DEF Fresh
    <3>2. /\ last'[h.conn] = h.n
          /\ \A d \in Connections : d # h.conn => last'[d] = last[d]
      BY <2>4, <3>1 DEF EndpointTypeOK
    <3>3. ASSUME NEW x \in Fresh, x.conn = h.conn => h.n < x.n
          PROVE  x \in Fresh'
      <4>1. x \in Messages /\ x.conn \in Connections /\ last[x.conn] < x.n
        BY MessageFields DEF Fresh
      <4>2. last'[x.conn] < x.n
        BY <3>2, <3>3, <4>1
      <4>3. QED
        BY <1>3, <4>1, <4>2, StaysFresh
    <3>4. \A i \in DOMAIN datagrams' : datagrams'[i] \in Fresh'
      BY <1>2, <2>1, <3>1, <3>3 DEF Ahead
    <3>5. \A i \in DOMAIN Taken' : Taken'[i] \in Fresh'
      BY <1>2, <3>1, <3>3 DEF Ordered
    <3>6. \A i \in DOMAIN Taken' : Taken'[i] \in Messages /\ published'[Taken'[i].conn]
      BY <1>2, <2>1, <3>1 DEF Fresh
    <3>7. \A c \in Connections :
             /\ last'[c] <= received'[c]
             /\ stage'[c] = "forwarding" => last'[c] < received'[c]
      BY <1>2, <2>1, <3>1, <3>2
    <3>8. QED
      BY <2>2, <3>4, <3>5, <3>6, <3>7
  <2>5. QED
    BY <1>9, <2>1, <2>3, <2>4 DEF ApplyDatagram, Deliver
<1>10. CASE QuietSystem /\ ~DatagramSystem
  <2>1. UNCHANGED <<last, datagrams>>
    BY <1>10 DEF QuietSystem, TakeIncoming, IncomingDone, ApplyingDone, channels
  <2>2. Taken = << >> /\ Taken' = << >>
    BY <1>10 DEF QuietSystem, TakeIncoming, IncomingDone, ApplyingDone, Taken, Presenting
  <2>3. QED
    BY <1>6, <2>1, <2>2
<1>11. CASE DatagramsDone \/ PublishingDone
  <2>1. UNCHANGED <<last, datagrams, commands>> /\ Presenting /\ (~Presenting' => commands = << >>)
    BY <1>11 DEF DatagramsDone, PublishingDone, Presenting, channels
  <2>2. Taken' = Taken
    BY <2>1 DEF Taken
  <2>3. QED
    BY <1>6, <2>1, <2>2
<1>12. ASSUME NEW c \in Connections, QuietTask(c), ~ForwardDatagram(c)
       PROVE  Goal
  <2>1. UNCHANGED <<last, commands, frame>>
    BY <1>12, QuietTaskFrame DEF ecs
  <2>2. UNCHANGED datagrams
    BY <1>12
    DEF QuietTask, SendTransport, SplitEnds, SplitSucceeds, SplitFails, SeeSendError,
        SeeCancelled, ForwardCancelled, EndReceiving, Finish, Transport,
        ReceiveFails, ReceivePacket, ReceivePanics, SendTask, WriteFails, WriterExits,
        WriterPanics, Unwind, AppDisconnects, channels
  <2>3. QED
    BY <1>6, <2>1, <2>2 DEF Taken, Presenting
<1>13. CASE \/ TakeTransport \/ Arrange \/ UNCHANGED endpoint
            \/ \E c \in Connections :
                  SendEstablished(c) \/ SendDeclined(c) \/ SendsClosed(c) \/ ForwardStream(c)
  <2>1. UNCHANGED <<datagrams, last, commands, frame>>
    BY <1>13
    DEF TakeTransport, Arrange, endpoint, SendEstablished, SendDeclined, SendsClosed, SplitReported,
        SendClosed, ForwardStream, channels, ecs
  <2>2. QED
    BY <1>6, <2>1 DEF Taken, Presenting
<1>14. CASE ApplyEstablished \/ ApplyClosed \/ ApplyDeclined \/ ApplyPacket
  <2>1. PICK type \in {"established", "closed", "declined", "packet"} : Applies(type)
    BY <1>14 DEF ApplyEstablished, ApplyClosed, ApplyDeclined, ApplyPacket
  <2>2. Taken = << >> /\ Taken' = << >> /\ UNCHANGED datagrams
    BY <2>1, ToldFirst DEF Applies, channels
  <2>3. type # "packet"
    <3>1. Told # << >> /\ Told[1].type = type
      BY <2>1, ToldFirst
    <3>2. 1 \in DOMAIN Told
      BY <3>1, ToldType, TailPlaces
    <3>3. QED
      BY <1>1, <3>1, <3>2 DEF FrameInv
  <2>4. UNCHANGED last
    BY <1>14, <2>1, <2>3 DEF ApplyEstablished, ApplyClosed, ApplyDeclined, ApplyPacket, Applies
  <2>5. QED
    BY <1>6, <2>2, <2>4
<1>15. QED
  BY <1>7, <1>8, <1>9, <1>10, <1>11, <1>12, <1>13, <1>14, QuietOrNot DEF Quiet, DatagramSystem

-----------------------------------------------------------------------------
(* The count of datagrams                                                  *)

LEMMA SameSize ==
    ASSUME NEW S, NEW T, IsFiniteSet(S), NEW f \in [S -> T],
           \A a, b \in S : f[a] = f[b] => a = b,
           \A t \in T : \E s \in S : f[s] = t
    PROVE  IsFiniteSet(T) /\ Cardinality(T) = Cardinality(S)
<1>1. f \in Bijection(S, T)
  BY DEF Bijection, Injection, Surjection, IsInjective
<1>2. QED
  BY <1>1, FS_Bijection DEF ExistsBijection

\* The places of the datagrams of c
Places(c, q) == {i \in DOMAIN q : q[i].conn = c /\ q[i].type = "datagram"}

LEMMA OfType ==
    ASSUME NEW c, NEW q \in Seq(Messages)
    PROVE  /\ IsFiniteSet(Places(c, q)) /\ Of(c, q) = Cardinality(Places(c, q)) /\ Of(c, q) \in Nat
<1>1. IsFiniteSet(1..Len(q)) /\ Places(c, q) \in SUBSET (1..Len(q))
  <2>1. Len(q) \in Int /\ 1 \in Int
    OBVIOUS
  <2>2. QED
    BY <2>1, FS_Interval DEF Places
<1>2. IsFiniteSet(Places(c, q))
  BY <1>1, FS_Subset
<1>3. QED
  BY <1>2, FS_CardinalityType DEF Of, Places

LEMMA OfNone ==
    ASSUME NEW c, NEW q \in Seq(Messages), \A i \in DOMAIN q : q[i].type # "datagram"
    PROVE  Of(c, q) = 0
<1>1. Places(c, q) = {}
  BY DEF Places
<1>2. QED
  BY <1>1, OfType, FS_EmptySet

LEMMA OfAppend ==
    ASSUME NEW c, NEW q \in Seq(Messages), NEW e \in Messages, e.type = "datagram"
    PROVE  Of(c, Append(q, e)) = IF e.conn = c THEN Of(c, q) + 1 ELSE Of(c, q)
<1> DEFINE r == Append(q, e)
           k == Len(q) + 1
<1>1. /\ r \in Seq(Messages) /\ DOMAIN r = 1..k /\ DOMAIN q = 1..Len(q) /\ Len(q) \in Nat /\ r[k] = e
      /\ \A i \in DOMAIN q : r[i] = q[i]
      /\ \A i \in DOMAIN r : i \in DOMAIN q \/ i = k
  BY AppendPlaces, AppendType
<1>2. k \in DOMAIN r /\ k \notin DOMAIN q /\ \A i \in DOMAIN q : i \in DOMAIN r
  BY <1>1
<1> HIDE DEF k, r
<1>3. Places(c, r) = IF e.conn = c THEN Places(c, q) \cup {k} ELSE Places(c, q)
  <2>1. CASE e.conn = c
    BY <1>1, <1>2, <2>1 DEF Places
  <2>2. CASE e.conn # c
    BY <1>1, <1>2, <2>2 DEF Places
  <2>3. QED
    BY <2>1, <2>2
<1>4. k \notin Places(c, q)
  BY <1>2 DEF Places
<1>5. Cardinality(Places(c, q) \cup {k}) = Cardinality(Places(c, q)) + 1
  BY <1>4, OfType, FS_AddElement
<1>6. Of(c, r) = IF e.conn = c THEN Of(c, q) + 1 ELSE Of(c, q)
  BY <1>1, <1>3, <1>5, OfType
<1>7. QED
  BY <1>6 DEF r

LEMMA OfTail ==
    ASSUME NEW c, NEW q \in Seq(Messages), q # << >>, q[1].type = "datagram"
    PROVE  Of(c, q) = IF q[1].conn = c THEN Of(c, Tail(q)) + 1 ELSE Of(c, Tail(q))
<1> DEFINE r == Tail(q)
           S == Places(c, r)
           T == Places(c, q) \ {1}
           f == [i \in S |-> i + 1]
<1>1. /\ r \in Seq(Messages) /\ 1 \in DOMAIN q
      /\ \A i \in DOMAIN r : i + 1 \in DOMAIN q /\ r[i] = q[i + 1]
      /\ \A i \in DOMAIN q : i # 1 => i - 1 \in DOMAIN r /\ r[i - 1] = q[i]
      /\ DOMAIN r = 1..(Len(q) - 1) /\ DOMAIN q = 1..Len(q)
  BY TailPlaces, HeadType
<1>2. \A i \in DOMAIN r : i \in Int /\ i + 1 # 1
  BY <1>1
<1>3. \A i \in DOMAIN q : i \in Int /\ (i - 1) + 1 = i
  BY <1>1
<1> HIDE DEF r
<1>4. f \in [S -> T]
  BY <1>1, <1>2 DEF Places
<1>5. \A a, b \in S : f[a] = f[b] => a = b
  BY <1>2 DEF Places
<1>6. \A t \in T : \E s \in S : f[s] = t
  <2>1. TAKE t \in T
  <2> DEFINE s == t - 1
  <2>2. s \in S /\ s + 1 = t
    BY <1>1, <1>3 DEF Places
  <2> HIDE DEF s
  <2>3. f[s] = t
    BY <2>2
  <2> HIDE DEF f, S
  <2>4. QED
    BY <2>2, <2>3
<1>7. IsFiniteSet(S) /\ Of(c, r) = Cardinality(S) /\ Of(c, r) \in Nat
  BY <1>1, OfType
<1> HIDE DEF f, S
<1>8. Cardinality(T) = Cardinality(S)
  <2> HIDE DEF T
  <2>1. QED
    BY <1>4, <1>5, <1>6, <1>7, SameSize
<1>9. /\ IsFiniteSet(Places(c, q)) /\ Of(c, q) = Cardinality(Places(c, q)) /\ Of(c, q) \in Nat
      /\ Cardinality(T) = IF 1 \in Places(c, q) THEN Cardinality(Places(c, q)) - 1
                          ELSE Cardinality(Places(c, q))
  BY OfType, FS_RemoveElement
<1>10. 1 \in Places(c, q) <=> q[1].conn = c
  BY <1>1 DEF Places
<1>11. Of(c, q) = IF q[1].conn = c THEN Of(c, r) + 1 ELSE Of(c, r)
  BY <1>7, <1>8, <1>9, <1>10
<1>12. QED
  BY <1>11 DEF r

\* Only receive_datagram_packets' own commands hold datagrams.
LEMMA OfTaken ==
    ASSUME EndpointTypeOK, FrameInv, NEW c
    PROVE  Of(c, commands) = Of(c, Taken)
<1>1. CASE Presenting
  BY <1>1 DEF Taken
<1>2. CASE ~Presenting
  <2>1. Taken = << >> /\ Told = commands \o incoming
    BY <1>2 DEF Taken, Told
  <2>2. commands \in Seq(Messages) /\ incoming \in Seq(Messages) /\ << >> \in Seq(Messages)
    BY ToldType, ConcatEmpty
  <2>3. \A i \in DOMAIN commands : i \in DOMAIN Told /\ Told[i] = commands[i]
    BY <2>1, <2>2
  <2>4. \A i \in DOMAIN commands : commands[i].type # "datagram"
    BY <2>3 DEF FrameInv
  <2>5. Of(c, commands) = 0
    BY <2>2, <2>4, OfNone
  <2>6. Of(c, << >>) = 0
    <3>1. {i \in DOMAIN << >> : << >>[i].conn = c /\ << >>[i].type = "datagram"} = {}
      OBVIOUS
    <3>2. QED
      BY <3>1, FS_EmptySet DEF Of
  <2>7. QED
    BY <2>1, <2>5, <2>6
<1>3. QED
  BY <1>1, <1>2

\* A packet is held from its read until it is handed on.
LEMMA HeldKept ==
    ASSUME EndpointTypeOK, TaskInv, EndpointNext, Datagram, NEW d \in Connections, ~ForwardDatagram(d)
    PROVE  \/ received'[d] = received[d] /\ (stage'[d] = "forwarding" <=> stage[d] = "forwarding")
           \/ received'[d] = received[d] + 1 /\ stage[d] # "forwarding" /\ stage'[d] = "forwarding"
<1> USE DEF EndpointTypeOK, Goto
<1>1. ASSUME NEW c \in Connections, ConnectionStep(c), c = d
      PROVE  \/ UNCHANGED received /\ (stage'[d] = "forwarding" <=> stage[d] = "forwarding")
             \/ received'[d] = received[d] + 1 /\ stage[d] = "receiving" /\ stage'[d] = "forwarding"
  <2>1. CASE SendEstablished(c) \/ SendDeclined(c) \/ SendTransport(c) \/ SplitEnds(c)
    BY <1>1, <2>1 DEF SendEstablished, SendDeclined, SendTransport, SplitEnds, SplitSucceeds, SplitFails
  <2>2. CASE SendsClosed(c)
    BY <1>1, <2>2 DEF SendsClosed, SplitReported, SendClosed
  <2>3. CASE SeeSendError(c) \/ SeeCancelled(c) \/ Finish(c) \/ ReceiveFails(c) \/ ReceivePanics(c)
    BY <1>1, <2>3 DEF SeeSendError, SeeCancelled, Finish, ReceiveFails, ReceivePanics, EndReceiving
  <2>4. CASE ReceivePacket(c)
    BY <1>1, <2>4 DEF ReceivePacket, Count
  <2>5. CASE ForwardStream(c) \/ ForwardCancelled(c)
    BY <2>5 DEF ForwardStream, ForwardCancelled
  <2>6. CASE SendTask(c) \/ AppDisconnects(c)
    BY <2>6 DEF SendTask, WriteFails, WriterExits, WriterPanics, Unwind, AppDisconnects
  <2>7. QED
    BY <1>1, <2>1, <2>2, <2>3, <2>4, <2>5, <2>6 DEF ConnectionStep, ReceiveTask, Transport
<1>2. ASSUME NEW c \in Connections, ConnectionStep(c), c # d
      PROVE  stage'[d] = stage[d] /\ received'[d] = received[d]
  BY <1>2, OthersAlone
<1>3. CASE SystemStep \/ UNCHANGED endpoint
  BY <1>3
  DEF SystemStep, IncomingLoop, DatagramSystem, TakeIncoming, IncomingDone, ApplyPacket,
      ApplyingDone, TakeDatagram, DatagramsDone, ApplyDatagram, PublishingDone,
      ApplyEstablished, ApplyClosed, ApplyDeclined, Applies, tasks, endpoint
<1>4. CASE TakeTransport \/ Arrange
  BY <1>4 DEF TakeTransport, Arrange, Unannounced
<1>5. QED
  BY <1>1, <1>2, <1>3, <1>4 DEF EndpointNext

\* What has become of the packets of c that were handed on.
Settled(c) == Of(c, datagrams) + Of(c, Taken) + delivered[c] + dropped[c]

LEMMA SumSame ==
    ASSUME NEW a \in Nat, NEW b \in Nat, NEW x \in Nat, NEW y \in Nat
    PROVE  /\ (a + 1) + b + x + y = a + b + x + y + 1
           /\ a + b + x + (y + 1) = (a + 1) + b + x + y
           /\ a + (b + 1) + x + y = (a + 1) + b + x + y
           /\ a + b + (x + 1) + y = a + (b + 1) + x + y
           /\ a + b + x + (y + 1) = a + (b + 1) + x + y
           /\ a + b + x + (y + 1) = a + b + x + y + 1
           /\ a + b + x + y \in Nat
OBVIOUS

LEMMA CountedOn ==
    ASSUME NEW f \in [Connections -> Nat], NEW g, NEW c \in Connections, NEW d \in Connections,
           g = [f EXCEPT ![c] = @ + 1]
    PROVE  g[d] = IF c = d THEN f[d] + 1 ELSE f[d]
OBVIOUS

LEMMA SettledType ==
    ASSUME EndpointTypeOK, NEW d \in Connections
    PROVE  /\ Of(d, datagrams) \in Nat /\ Of(d, Taken) \in Nat /\ delivered[d] \in Nat
           /\ dropped[d] \in Nat /\ Settled(d) \in Nat
<1>1. Of(d, datagrams) \in Nat /\ Of(d, Taken) \in Nat
  BY ToldType, OfType
<1>2. delivered[d] \in Nat /\ dropped[d] \in Nat
  BY DEF EndpointTypeOK
<1>3. QED
  BY <1>1, <1>2, SumSame DEF Settled

LEMMA SettledForward ==
    ASSUME EndpointTypeOK, FrameInv, NEW c \in Connections, ForwardDatagram(c), NEW d \in Connections
    PROVE  Settled(d)' = IF d = c THEN Settled(d) + 1 ELSE Settled(d)
<1> DEFINE m == Message("datagram", c, received[c])
<1>1. /\ m \in Messages /\ m.conn = c /\ m.type = "datagram"
      /\ UNCHANGED <<delivered, commands, frame>>
      /\ datagrams \in Seq(Messages) /\ dropped \in [Connections -> Nat]
  <2>1. m \in Messages
    BY MessageType DEF EndpointTypeOK
  <2>2. QED
    BY <2>1 DEF ForwardDatagram, Message, ecs, EndpointTypeOK
<1>2. \/ datagrams' = Append(datagrams, m) /\ UNCHANGED dropped
      \/ /\ ~Room(datagrams) /\ datagrams' = Append(Tail(datagrams), m)
         /\ dropped' = [dropped EXCEPT ![Head(datagrams).conn] = @ + 1]
      \/ UNCHANGED datagrams /\ dropped' = [dropped EXCEPT ![c] = @ + 1]
  BY DEF ForwardDatagram, Count
<1> HIDE DEF m
<1>3. /\ Of(d, datagrams) \in Nat /\ Of(d, Taken) \in Nat /\ delivered[d] \in Nat
      /\ dropped[d] \in Nat
  BY SettledType
<1>4. Taken' = Taken /\ delivered'[d] = delivered[d]
  BY <1>1 DEF Taken, Presenting
<1>5. CASE datagrams' = Append(datagrams, m) /\ UNCHANGED dropped
  <2>1. Of(d, datagrams') = IF d = c THEN Of(d, datagrams) + 1 ELSE Of(d, datagrams)
    BY <1>1, <1>5, OfAppend
  <2>2. QED
    BY <1>3, <1>4, <1>5, <2>1, SumSame DEF Settled
<1>6. CASE /\ ~Room(datagrams) /\ datagrams' = Append(Tail(datagrams), m)
           /\ dropped' = [dropped EXCEPT ![Head(datagrams).conn] = @ + 1]
  <2> DEFINE h == Head(datagrams)
             t == Tail(datagrams)
  <2>1. datagrams # << >>
    BY <1>1, <1>6, CapacityPositive DEF Room
  <2>2. /\ h = datagrams[1] /\ 1 \in DOMAIN datagrams /\ t \in Seq(Messages) /\ h.conn \in Connections
        /\ h.type = "datagram"
    <3>1. h = datagrams[1] /\ 1 \in DOMAIN datagrams /\ t \in Seq(Messages) /\ h \in Messages
      BY <1>1, <2>1, HeadType, TailPlaces
    <3>2. QED
      BY <3>1, MessageFields DEF FrameInv
  <2>3. Of(d, datagrams) = IF h.conn = d THEN Of(d, t) + 1 ELSE Of(d, t)
    BY <1>1, <2>1, <2>2, OfTail
  <2>4. Of(d, datagrams') = IF d = c THEN Of(d, t) + 1 ELSE Of(d, t)
    BY <1>1, <1>6, <2>2, OfAppend
  <2>5. dropped'[d] = IF h.conn = d THEN dropped[d] + 1 ELSE dropped[d]
    BY <1>1, <1>6, <2>2, CountedOn
  <2>6. Of(d, t) \in Nat
    BY <2>2, OfType
  <2> HIDE DEF h, t
  <2>7. QED
    BY <1>3, <1>4, <2>3, <2>4, <2>5, <2>6, SumSame DEF Settled
<1>7. CASE UNCHANGED datagrams /\ dropped' = [dropped EXCEPT ![c] = @ + 1]
  <2>1. dropped'[d] = IF c = d THEN dropped[d] + 1 ELSE dropped[d]
    BY <1>1, <1>7, CountedOn
  <2>2. QED
    BY <1>3, <1>4, <1>7, <2>1, SumSame DEF Settled
<1>8. QED
  BY <1>2, <1>5, <1>6, <1>7

LEMMA SettledTake ==
    ASSUME EndpointTypeOK, FrameInv, TakeDatagram, NEW d \in Connections
    PROVE  Settled(d)' = Settled(d)
<1> DEFINE h == Head(datagrams)
           t == Tail(datagrams)
<1>1. /\ Presenting /\ Presenting' /\ datagrams # << >> /\ datagrams' = t /\ UNCHANGED delivered
      /\ \/ UNCHANGED commands /\ dropped' = [dropped EXCEPT ![h.conn] = @ + 1]
         \/ commands' = Append(commands, h) /\ UNCHANGED dropped
  BY DEF TakeDatagram, DatagramReady, Presenting, Count
<1>2. /\ datagrams \in Seq(Messages) /\ Taken \in Seq(Messages) /\ dropped \in [Connections -> Nat]
      /\ t \in Seq(Messages) /\ h \in Messages /\ h.conn \in Connections /\ h = datagrams[1]
      /\ h.type = "datagram"
  <2>1. datagrams \in Seq(Messages) /\ Taken \in Seq(Messages) /\ dropped \in [Connections -> Nat]
    BY ToldType DEF EndpointTypeOK
  <2>2. h = datagrams[1] /\ 1 \in DOMAIN datagrams /\ t \in Seq(Messages) /\ h \in Messages
    BY <1>1, <2>1, HeadType, TailPlaces
  <2>3. QED
    BY <2>1, <2>2, MessageFields DEF FrameInv
<1>3. Of(d, datagrams) = IF h.conn = d THEN Of(d, t) + 1 ELSE Of(d, t)
  BY <1>1, <1>2, OfTail
<1>4. /\ Of(d, t) \in Nat /\ Of(d, Taken) \in Nat /\ delivered[d] \in Nat /\ dropped[d] \in Nat
  BY <1>2, OfType, SettledType
<1>5. CASE UNCHANGED commands /\ dropped' = [dropped EXCEPT ![h.conn] = @ + 1]
  <2>1. dropped'[d] = IF h.conn = d THEN dropped[d] + 1 ELSE dropped[d]
    BY <1>2, <1>5, CountedOn
  <2>2. Taken' = Taken
    BY <1>1, <1>5 DEF Taken
  <2> HIDE DEF h, t
  <2>3. Settled(d)' = Of(d, t) + Of(d, Taken) + delivered[d] + dropped'[d]
    BY <1>1, <2>2 DEF Settled
  <2>4. QED
    BY <1>3, <1>4, <2>1, <2>3, SumSame DEF Settled
<1>6. CASE commands' = Append(commands, h) /\ UNCHANGED dropped
  <2>1. Taken' = Append(Taken, h)
    BY <1>1, <1>6 DEF Taken
  <2>2. Of(d, Taken') = IF h.conn = d THEN Of(d, Taken) + 1 ELSE Of(d, Taken)
    BY <1>2, <2>1, OfAppend
  <2> HIDE DEF h, t
  <2>3. QED
    BY <1>1, <1>3, <1>4, <1>6, <2>2, SumSame DEF Settled
<1>7. QED
  BY <1>1, <1>5, <1>6

LEMMA SettledApply ==
    ASSUME EndpointTypeOK, FrameInv, ApplyDatagram, NEW d \in Connections
    PROVE  Settled(d)' = Settled(d)
<1> DEFINE h == Taken[1]
           t == Tail(Taken)
<1>1. /\ Taken # << >> /\ Head(commands) = h /\ Taken' = t /\ UNCHANGED datagrams
  BY DatagramFirst
<1>2. /\ Taken \in Seq(Messages) /\ dropped \in [Connections -> Nat]
      /\ delivered \in [Connections -> Nat]
      /\ t \in Seq(Messages) /\ h.conn \in Connections /\ h.type = "datagram"
  <2>1. Taken \in Seq(Messages) /\ dropped \in [Connections -> Nat]
        /\ delivered \in [Connections -> Nat]
    BY ToldType DEF EndpointTypeOK
  <2>2. h = Head(Taken) /\ 1 \in DOMAIN Taken /\ t \in Seq(Messages) /\ h \in Messages
    BY <1>1, <2>1, HeadType, TailPlaces
  <2>3. QED
    BY <2>1, <2>2, MessageFields DEF FrameInv
<1>3. Of(d, Taken) = IF h.conn = d THEN Of(d, t) + 1 ELSE Of(d, t)
  BY <1>1, <1>2, OfTail
<1>4. /\ Of(d, t) \in Nat /\ Of(d, datagrams) \in Nat /\ delivered[d] \in Nat /\ dropped[d] \in Nat
  BY <1>2, OfType, SettledType
<1>5. CASE dropped' = [dropped EXCEPT ![h.conn] = @ + 1] /\ UNCHANGED delivered
  <2>1. dropped'[d] = IF h.conn = d THEN dropped[d] + 1 ELSE dropped[d]
    BY <1>2, <1>5, CountedOn
  <2> HIDE DEF h, t
  <2>2. Settled(d)' = Of(d, datagrams) + Of(d, t) + delivered[d] + dropped'[d]
    BY <1>1, <1>5 DEF Settled
  <2>3. QED
    BY <1>3, <1>4, <2>1, <2>2, SumSame DEF Settled
<1>6. CASE delivered' = [delivered EXCEPT ![h.conn] = @ + 1] /\ UNCHANGED dropped
  <2>1. delivered'[d] = IF h.conn = d THEN delivered[d] + 1 ELSE delivered[d]
    BY <1>2, <1>6, CountedOn
  <2> HIDE DEF h, t
  <2>2. QED
    BY <1>1, <1>3, <1>4, <1>6, <2>1, SumSame DEF Settled
<1>7. QED
  BY <1>1, <1>5, <1>6 DEF ApplyDatagram, Deliver, Count

\* Every other step leaves what was handed on where it is.
LEMMA SettledKept ==
    ASSUME EndpointTypeOK, FrameInv, EndpointNext, Datagram, NEW d \in Connections
    PROVE  Settled(d)' = IF ForwardDatagram(d) THEN Settled(d) + 1 ELSE Settled(d)
<1>1. CASE ForwardDatagram(d)
  BY <1>1, SettledForward
<1>2. ASSUME NEW c \in Connections, c # d, ForwardDatagram(c)
      PROVE  Settled(d)' = Settled(d)
  BY <1>2, SettledForward
<1> DEFINE Same == Settled(d)' = Settled(d)
<1>3. datagrams' = datagrams /\ Taken' = Taken /\ delivered' = delivered /\ dropped' = dropped => Same
  BY DEF Settled
<1> HIDE DEF Same
<1>4. ASSUME QuietSystem, ~DatagramSystem
      PROVE  Same
  <2>1. UNCHANGED <<datagrams, delivered, dropped>>
    BY <1>4 DEF QuietSystem, TakeIncoming, IncomingDone, ApplyingDone, channels
  <2>2. Taken = << >> /\ Taken' = << >>
    BY <1>4 DEF QuietSystem, TakeIncoming, IncomingDone, ApplyingDone, Taken, Presenting
  <2>3. QED
    BY <1>3, <2>1, <2>2
<1>5. ASSUME DatagramsDone \/ PublishingDone
      PROVE  Same
  <2>1. /\ UNCHANGED <<datagrams, delivered, dropped, commands>>
        /\ Presenting /\ (~Presenting' => commands = << >>)
    BY <1>5 DEF DatagramsDone, PublishingDone, Presenting, channels
  <2>2. Taken' = Taken
    BY <2>1 DEF Taken
  <2>3. QED
    BY <1>3, <2>1, <2>2
<1>6. ASSUME NEW c \in Connections, QuietTask(c), ~ForwardDatagram(c)
      PROVE  Same
  <2>1. UNCHANGED <<delivered, commands, frame>>
    BY <1>6, QuietTaskFrame DEF ecs
  <2>2. UNCHANGED <<datagrams, dropped>>
    BY <1>6
    DEF QuietTask, SendTransport, SplitEnds, SplitSucceeds, SplitFails, SeeSendError,
        SeeCancelled, ForwardCancelled, EndReceiving, Finish, Transport,
        ReceiveFails, ReceivePacket, ReceivePanics, SendTask, WriteFails, WriterExits,
        WriterPanics, Unwind, AppDisconnects, channels
  <2>3. QED
    BY <1>3, <2>1, <2>2 DEF Taken, Presenting
<1>7. ASSUME \/ TakeTransport \/ Arrange \/ UNCHANGED endpoint
             \/ \E c \in Connections :
                   SendEstablished(c) \/ SendDeclined(c) \/ SendsClosed(c) \/ ForwardStream(c)
      PROVE  Same
  <2>1. UNCHANGED <<datagrams, delivered, dropped, commands, frame>>
    BY <1>7
    DEF TakeTransport, Arrange, endpoint, SendEstablished, SendDeclined, SendsClosed, SplitReported,
        SendClosed, ForwardStream, channels, ecs
  <2>2. QED
    BY <1>3, <2>1 DEF Taken, Presenting
<1>8. ASSUME ApplyEstablished \/ ApplyClosed \/ ApplyDeclined \/ ApplyPacket
      PROVE  Same
  <2>1. PICK type \in {"established", "closed", "declined", "packet"} : Applies(type)
    BY <1>8 DEF ApplyEstablished, ApplyClosed, ApplyDeclined, ApplyPacket
  <2>2. Taken = << >> /\ Taken' = << >> /\ UNCHANGED datagrams
    BY <2>1, ToldFirst DEF Applies, channels
  <2>3. type # "packet"
    <3>1. Told # << >> /\ Told[1].type = type
      BY <2>1, ToldFirst
    <3>2. 1 \in DOMAIN Told
      BY <3>1, ToldType, TailPlaces
    <3>3. QED
      BY <3>1, <3>2 DEF FrameInv
  <2>4. UNCHANGED <<delivered, dropped>>
    BY <1>8, <2>1, <2>3 DEF ApplyEstablished, ApplyClosed, ApplyDeclined, ApplyPacket, Applies
  <2>5. QED
    BY <1>3, <2>2, <2>4
<1>9. ~ForwardDatagram(d) => Settled(d)' = Settled(d)
  BY <1>2, <1>4, <1>5, <1>6, <1>7, <1>8, SettledTake, SettledApply, QuietOrNot
  DEF Quiet, DatagramSystem, Same
<1>10. QED
  BY <1>1, <1>9

Held(c) == IF stage[c] = "forwarding" THEN 1 ELSE 0

\* PacketsAccounted, counting the commands of receive_datagram_packets only
Balanced == Datagram => \A c \in Connections : received[c] = Held(c) + Settled(c)

LEMMA AccountedIn ==
    EndpointTypeOK /\ FrameInv => (PacketsAccounted <=> Balanced)
<1>1. SUFFICES ASSUME EndpointTypeOK, FrameInv
               PROVE  PacketsAccounted <=> Balanced
  OBVIOUS
<1>2. ASSUME NEW c \in Connections
      PROVE  Held(c) + Settled(c) = Held(c) + Of(c, datagrams) + Of(c, commands) + delivered[c] + dropped[c]
  <2>1. /\ Of(c, datagrams) \in Nat /\ Of(c, Taken) \in Nat /\ delivered[c] \in Nat
        /\ dropped[c] \in Nat
    BY <1>1, SettledType
  <2>2. Of(c, commands) = Of(c, Taken)
    BY <1>1, OfTaken
  <2>3. Held(c) \in Nat
    BY DEF Held
  <2>4. QED
    BY <2>1, <2>2, <2>3 DEF Settled
<1>3. QED
  BY <1>2 DEF PacketsAccounted, Balanced, Held

LEMMA AccountedKept ==
    ASSUME EndpointTypeOK, TaskInv, FrameInv, PacketsAccounted, EndpointNext
    PROVE  PacketsAccounted'
<1>1. Balanced
  BY AccountedIn
<1>2. EndpointTypeOK' /\ FrameInv'
  BY TypesKept, FrameKept
<1>3. (EndpointTypeOK /\ FrameInv)' => (PacketsAccounted' <=> Balanced')
  BY AccountedIn, PTL
<1>4. ASSUME Datagram, NEW d \in Connections
      PROVE  received'[d] = Held(d)' + Settled(d)'
  <2>1. received[d] = Held(d) + Settled(d) /\ received[d] \in Nat /\ Settled(d) \in Nat
    BY <1>1, <1>4, SettledType DEF Balanced, EndpointTypeOK
  <2>2. Settled(d)' = IF ForwardDatagram(d) THEN Settled(d) + 1 ELSE Settled(d)
    BY <1>4, SettledKept
  <2>3. CASE ForwardDatagram(d)
    <3>1. stage[d] = "forwarding" /\ stage'[d] = "receiving" /\ received'[d] = received[d]
      BY <2>3 DEF ForwardDatagram, Goto, EndpointTypeOK
    <3>2. Held(d) = 1 /\ Held(d)' = 0
      BY <3>1 DEF Held
    <3>3. QED
      BY <2>1, <2>2, <2>3, <3>1, <3>2
  <2>4. CASE ~ForwardDatagram(d)
    <3>1. \/ received'[d] = received[d] /\ Held(d)' = Held(d)
          \/ received'[d] = received[d] + 1 /\ Held(d) = 0 /\ Held(d)' = 1
      BY <1>4, <2>4, HeldKept DEF Held
    <3>2. Held(d) \in Nat
      BY DEF Held
    <3>3. QED
      BY <2>1, <2>2, <2>4, <3>1, <3>2
  <2>5. QED
    BY <2>3, <2>4
<1>5. QED
  BY <1>2, <1>3, <1>4 DEF Balanced

-----------------------------------------------------------------------------
(* The whole invariant                                                     *)

LEMMA EndpointStarts ==
    ASSUME EndpointInit
    PROVE  EndpointInv
<1> USE DEF EndpointInit
<1>1. EndpointTypeOK
  BY BudgetType DEF EndpointTypeOK, Stages, Causes, AtZero, Never
<1>2. /\ ~Presenting /\ Told = << >> /\ Taken = << >> /\ DOMAIN Told = {} /\ DOMAIN Taken = {}
      /\ DOMAIN datagrams = {} /\ DOMAIN registry = {}
  <2>1. ~Presenting
    BY DEF Presenting
  <2>2. Told = << >> \o << >>
    BY <2>1 DEF Told
  <2>3. << >> \o << >> = << >>
    <3>1. << >> \in Seq(Messages)
      OBVIOUS
    <3>2. QED
      BY <3>1, ConcatEmpty
  <2>4. QED
    BY <2>1, <2>2, <2>3 DEF Taken
<1>3. ASSUME NEW c \in Connections
      PROVE  /\ stage[c] = "new" /\ writer[c] = "none" /\ ~cancelled[c] /\ ~send_error[c]
             /\ cause[c] = "none" /\ received[c] = 0 /\ last[c] = 0 /\ ~published[c] /\ ~ended[c]
             /\ ~asked[c] /\ delivered[c] = 0 /\ dropped[c] = 0 /\ MaxPackets[c] \in Nat
  BY EndpointAssumption DEF AtZero, Never
<1>4. TaskInv
  BY <1>3 DEF TaskInv, TaskOf, CauseOf, Early, Unannounced, Over
<1>5. FrameInv
  BY <1>2 DEF FrameInv
<1>6. AnnounceInv
  BY <1>2, <1>3 DEF AnnounceInv, Unannounced
<1>7. RegistryInv /\ EndMessagesInv
  BY <1>2, <1>3 DEF RegistryInv, EndMessagesInv
<1>8. StreamInv
  <2>1. \A c \in Connections : last[c] <= received[c] /\ stage[c] = "new"
    BY <1>3
  <2>2. QED
    BY <1>2, <2>1 DEF StreamInv
<1>9. DatagramInv
  <2>1. \A c \in Connections : last[c] <= received[c] /\ stage[c] = "new"
    BY <1>3
  <2>2. QED
    BY <1>2, <2>1 DEF DatagramInv, Ordered, Ahead
<1>10. PacketsAccounted
  <2>1. \A c \in Connections : Of(c, << >>) = 0
    <3>1. \A c \in Connections :
             {i \in DOMAIN << >> : << >>[i].conn = c /\ << >>[i].type = "datagram"} = {}
      OBVIOUS
    <3>2. QED
      BY <3>1, FS_EmptySet DEF Of
  <2>2. QED
    BY <1>3, <2>1 DEF PacketsAccounted
<1>11. ChannelsBounded
  BY CapacityPositive DEF ChannelsBounded
<1>12. QED
  BY <1>1, <1>4, <1>5, <1>6, <1>7, <1>8, <1>9, <1>10, <1>11 DEF EndpointInv

\* No step of a task, of the transport, of a system or of the application
\* breaks the invariant.
LEMMA EndpointKeeps ==
    ASSUME EndpointInv, EndpointNext
    PROVE  EndpointInv'
BY TypesKept, BoundsKept, TasksKept, FrameKept, AnnounceKept, RegistryKept, EndMessagesKept,
   StreamKept, DatagramKept, AccountedKept
DEF EndpointInv

-----------------------------------------------------------------------------
(* What the invariant says of the application's view                       *)

\* Pipeline differs from Told by the datagrams that were taken.
LEMMA PipelineTold ==
    ASSUME EndpointTypeOK, FrameInv
    PROVE  /\ \A i \in DOMAIN Pipeline : Pipeline[i].type # "datagram"
                 => \E j \in DOMAIN Told : Told[j] = Pipeline[i]
           /\ \A j \in DOMAIN Told : \E i \in DOMAIN Pipeline : Pipeline[i] = Told[j]
           /\ ~Datagram => Pipeline = Told
<1>1. commands \in Seq(Messages) /\ incoming \in Seq(Messages)
  BY ToldType
<1>2. CASE ~Presenting
  BY <1>2 DEF Told, Pipeline
<1>3. CASE Presenting
  <2>1. Told = incoming /\ Taken = commands
    BY <1>1, <1>3, ConcatEmpty DEF Told, Taken
  <2>2. /\ Pipeline = commands \o incoming
        /\ DOMAIN Pipeline = 1..(Len(commands) + Len(incoming))
        /\ DOMAIN commands = 1..Len(commands) /\ DOMAIN incoming = 1..Len(incoming)
        /\ Len(commands) \in Nat /\ Len(incoming) \in Nat
        /\ \A i \in DOMAIN commands : Pipeline[i] = commands[i]
        /\ \A j \in DOMAIN incoming : Pipeline[Len(commands) + j] = incoming[j]
    BY <1>1 DEF Pipeline
  <2> DEFINE k == Len(commands)
  <2>3. \A i \in DOMAIN Pipeline : i \in DOMAIN commands \/ (i - k \in DOMAIN incoming /\ k + (i - k) = i)
    BY <2>2
  <2>4. \A j \in DOMAIN incoming : k + j \in DOMAIN Pipeline
    BY <2>2
  <2> HIDE DEF k
  <2>5. ASSUME NEW i \in DOMAIN Pipeline, Pipeline[i].type # "datagram"
        PROVE  \E j \in DOMAIN Told : Told[j] = Pipeline[i]
    <3>1. i \notin DOMAIN commands
      BY <2>1, <2>2, <2>5 DEF FrameInv
    <3> DEFINE j == i - k
    <3>2. j \in DOMAIN incoming /\ k + j = i
      BY <2>3, <3>1
    <3> HIDE DEF j
    <3>3. Pipeline[k + j] = incoming[j]
      BY <2>2, <3>2 DEF k
    <3>4. QED
      BY <2>1, <3>2, <3>3
  <2>6. \A j \in DOMAIN Told : \E i \in DOMAIN Pipeline : Pipeline[i] = Told[j]
    BY <2>1, <2>2, <2>4 DEF k
  <2>7. Datagram
    BY <1>3 DEF FrameInv
  <2>8. QED
    BY <2>5, <2>6, <2>7
<1>4. QED
  BY <1>2, <1>3

LEMMA CauseFollows ==
    EndpointInv => CauseKept
<1>1. SUFFICES ASSUME EndpointInv, NEW i \in DOMAIN Pipeline, Pipeline[i].type = "closed",
                      Pipeline[i].cause = "intentional"
               PROVE  asked[Pipeline[i].conn] \/ writer[Pipeline[i].conn] = "panicked"
  BY DEF CauseKept
<1>2. PICK j \in DOMAIN Told : Told[j] = Pipeline[i]
  BY <1>1, PipelineTold DEF EndpointInv
<1>3. QED
  BY <1>1, <1>2 DEF EndpointInv, EndMessagesInv

LEMMA NeverBlockedFollows ==
    EndpointInv => NeverBlocked
<1>1. SUFFICES ASSUME EndpointInv, NEW i \in DOMAIN datagrams
               PROVE  \/ published[datagrams[i].conn]
                      \/ \E j \in DOMAIN Pipeline :
                            Pipeline[j] = Message("established", datagrams[i].conn, 0)
  BY DEF NeverBlocked
<1> USE DEF EndpointInv
<1> DEFINE c == datagrams[i].conn
<1>2. Datagram
  <2>1. ~Datagram => DOMAIN datagrams = {}
    BY <1>1 DEF FrameInv
  <2>2. QED
    BY <2>1
<1>3. /\ datagrams[i] \in Messages /\ c \in Connections
      /\ last[c] < datagrams[i].n /\ datagrams[i].n <= received[c]
  BY <1>1, <1>2, MessageFields DEF DatagramInv, Fresh
<1>4. received[c] # 0
  <2>1. last[c] \in Nat /\ received[c] \in Nat /\ datagrams[i].n \in Nat
    BY <1>1, <1>3, MessageFields DEF EndpointTypeOK
  <2>2. QED
    BY <1>3, <2>1
<1>5. stage[c] \notin Unannounced
  BY <1>1, <1>3, <1>4 DEF TaskInv, TaskOf, Early
<1>6. CASE published[c]
  BY <1>6
<1>7. CASE ~published[c]
  <2>1. PICK j \in DOMAIN Told : Opens(j, c)
    BY <1>1, <1>3, <1>5, <1>7 DEF AnnounceInv
  <2>2. Told[j] = Message("established", c, 0)
    BY <1>1, <2>1 DEF FrameInv, Opens
  <2>3. QED
    BY <1>1, <2>1, <2>2, PipelineTold
<1>8. QED
  BY <1>6, <1>7

LEMMA DeliveredFollows ==
    EndpointInv => DeliveredBeforeEnd
<1> DEFINE Before(i) == {j \in 1..i : Pipeline[j].type = "packet" /\ Pipeline[j].conn = Pipeline[i].conn}
<1>1. SUFFICES ASSUME EndpointInv, NEW i \in DOMAIN Pipeline, ~Datagram, Pipeline[i].type = "closed",
                      Pipeline[i].cause = "read"
               PROVE  last[Pipeline[i].conn] + Cardinality(Before(i)) = received[Pipeline[i].conn]
  BY DEF DeliveredBeforeEnd
<1> USE DEF EndpointInv
<1> DEFINE c == Told[i].conn
           S == {j \in 1..i : Told[j].type = "packet" /\ Told[j].conn = c}
           T == (last[c] + 1)..received[c]
           f == [j \in S |-> Told[j].n]
<1>2. Pipeline = Told /\ i \in DOMAIN Told /\ Before(i) = S
  BY <1>1, PipelineTold
<1>3. /\ Told \in Seq(Messages) /\ DOMAIN Told = 1..Len(Told) /\ Len(Told) \in Nat
      /\ \A j \in DOMAIN Told : Told[j].conn \in Connections /\ Told[j].n \in Nat
  <2>1. Told \in Seq(Messages)
    BY <1>1, ToldType
  <2>2. QED
    BY <2>1, ElementOfSeq, MessageFields
<1>4. c \in Connections /\ last[c] \in Nat /\ received[c] \in Nat /\ last[c] <= received[c]
      /\ AllTold(c, received[c])
  <2>1. c \in Connections
    BY <1>2, <1>3
  <2>2. last[c] \in Nat /\ received[c] \in Nat
    BY <1>1, <2>1 DEF EndpointTypeOK
  <2>3. last[c] <= received[c] /\ AllTold(c, received[c])
    BY <1>1, <1>2, <2>1 DEF StreamInv
  <2>4. QED
    BY <2>1, <2>2, <2>3
<1>5. \A j \in S : j \in DOMAIN Told /\ Told[j].type = "packet" /\ Told[j].conn = c
  BY <1>2, <1>3
<1>6. \A j \in DOMAIN Told : Told[j].conn = c => j \in 1..i
  <2>1. \A j \in DOMAIN Told : i < j => Told[j].conn # c
    BY <1>1, <1>2 DEF AnnounceInv
  <2>2. QED
    BY <1>2, <1>3, <2>1
<1>7. f \in [S -> T]
  <2>1. ASSUME NEW j \in S
        PROVE  Told[j].n \in T
    <3>1. Told[j].n > last[c] /\ Told[j].n <= received[c] /\ Told[j].n \in Nat
      BY <1>1, <1>3, <1>5 DEF StreamInv
    <3>2. QED
      BY <1>4, <3>1
  <2>2. QED
    BY <2>1
<1>8. \A a, b \in S : f[a] = f[b] => a = b
  <2>1. ASSUME NEW a \in S, NEW b \in S, a < b
        PROVE  Told[a].n < Told[b].n /\ Told[a].n \in Nat /\ Told[b].n \in Nat
    BY <1>1, <1>3, <1>5, <2>1 DEF StreamInv
  <2>2. ASSUME NEW a \in S, NEW b \in S, Told[a].n = Told[b].n
        PROVE  a = b
    <3>1. ~(a < b) /\ ~(b < a)
      BY <2>1, <2>2
    <3>2. a \in Int /\ b \in Int
      OBVIOUS
    <3>3. QED
      BY <3>1, <3>2
  <2>3. QED
    BY <2>2
<1>9. \A t \in T : \E s \in S : f[s] = t
  <2>1. TAKE t \in T
  <2>2. PICK s \in DOMAIN Told : Packet(s, c, t)
    BY <1>4 DEF AllTold
  <2>3. s \in S /\ Told[s].n = t
    BY <1>6, <2>2 DEF Packet
  <2>4. f[s] = t
    BY <2>3
  <2>5. QED
    BY <2>3, <2>4
<1>10. IsFiniteSet(S)
  <2>1. i \in Int /\ 1 \in Int
    BY <1>2, <1>3
  <2>2. IsFiniteSet(1..i) /\ S \in SUBSET (1..i)
    BY <2>1, FS_Interval
  <2>3. QED
    BY <2>2, FS_Subset
<1>11. Cardinality(T) = received[c] - last[c]
  <2> DEFINE a == last[c] + 1
             b == received[c]
  <2>1. a \in Int /\ b \in Int /\ last[c] \in Nat /\ b \in Nat /\ last[c] <= b
    BY <1>4
  <2>2. Cardinality(a..b) = IF a > b THEN 0 ELSE b - a + 1
    BY <2>1, FS_Interval
  <2>3. (IF a > b THEN 0 ELSE b - a + 1) = b - last[c]
    BY <2>1
  <2>4. QED
    BY <2>2, <2>3
<1>12. Cardinality(S) = Cardinality(T)
  <2> HIDE DEF S, T, f
  <2>1. QED
    BY <1>7, <1>8, <1>9, <1>10, SameSize
<1>13. last[c] + Cardinality(S) = received[c]
  <2> HIDE DEF S, T
  <2>1. QED
    BY <1>4, <1>11, <1>12
<1>14. QED
  BY <1>2, <1>13

-----------------------------------------------------------------------------
(* The promise of ConnectionLifecycle                                      *)

Views == [c \in Connections |-> View(c)]

Registered == {registry[i] : i \in DOMAIN registry}

ListsOpen == Registered = {c \in Connections : published[c] /\ ~ended[c]}

LEMMA RegisteredOpen ==
    EndpointInv => ListsOpen
<1>1. SUFFICES ASSUME EndpointInv
               PROVE  Registered = {c \in Connections : published[c] /\ ~ended[c]}
  BY DEF ListsOpen
<1>2. \A i \in DOMAIN registry : registry[i] \in Connections
  BY <1>1 DEF EndpointInv, EndpointTypeOK
<1>3. \A c \in Connections : (published[c] /\ ~ended[c]) <=> c \in Registered
  BY <1>1 DEF EndpointInv, RegistryInv, Registered
<1>4. QED
  BY <1>2, <1>3 DEF Registered

LEMMA LifecycleStarts ==
    ASSUME EndpointInit
    PROVE  Lifecycle!Init
<1>1. DOMAIN registry = {}
  BY DEF EndpointInit
<1>2. Registered = {}
  BY <1>1 DEF Registered
<1>3. Views = [c \in Connections |-> "unknown"]
  BY DEF EndpointInit, Never, Views, View
<1>4. QED
  BY <1>2, <1>3 DEF Lifecycle!Init, Registered, Views, EndpointInit, AtZero, Never

\* The application hears nothing.
LEMMA LifecycleStutters ==
    ASSUME EndpointInv, EndpointInv', UNCHANGED <<published, ended, last, asked>>
    PROVE  UNCHANGED Lifecycle!vars
<1>1. ListsOpen /\ ListsOpen'
  BY RegisteredOpen, PTL
<1>2. Registered' = Registered
  BY <1>1 DEF ListsOpen
<1>3. Views' = Views
  BY DEF Views, View
<1>4. QED
  BY <1>2, <1>3 DEF Lifecycle!vars, Registered, Views

\* Each step is one of the steps that ConnectionLifecycle allows, or none.
LEMMA LifecycleSteps ==
    ASSUME EndpointInv, EndpointInv', EndpointNext
    PROVE  Lifecycle!Next \/ UNCHANGED Lifecycle!vars
<1>1. ListsOpen /\ ListsOpen'
  BY RegisteredOpen, PTL
<1>2. /\ EndpointTypeOK /\ FrameInv /\ TaskInv /\ AnnounceInv /\ StreamInv /\ DatagramInv
      /\ published \in [Connections -> BOOLEAN] /\ ended \in [Connections -> BOOLEAN]
      /\ asked \in [Connections -> BOOLEAN] /\ last \in [Connections -> Nat]
      /\ Told \in Seq(Messages)
      /\ \A i \in DOMAIN Told : Told[i] \in Messages /\ Told[i].conn \in Connections /\ Told[i].n \in Nat
  <2>1. EndpointTypeOK /\ FrameInv /\ TaskInv /\ AnnounceInv /\ StreamInv /\ DatagramInv
    BY DEF EndpointInv
  <2>2. /\ published \in [Connections -> BOOLEAN] /\ ended \in [Connections -> BOOLEAN]
        /\ asked \in [Connections -> BOOLEAN] /\ last \in [Connections -> Nat]
    BY <2>1 DEF EndpointTypeOK
  <2>3. Told \in Seq(Messages)
    BY <2>1, ToldType
  <2>4. QED
    BY <2>1, <2>2, <2>3, ElementOfSeq, MessageFields
<1>3. Views = [c \in Connections |-> View(c)] /\ Registered = {registry[i] : i \in DOMAIN registry}
      /\ Views' = [c \in Connections |-> View(c)'] /\ Registered' = {registry'[i] : i \in DOMAIN registry'}
  BY DEF Views, Registered
<1>4. ASSUME UNCHANGED <<published, ended>>
      PROVE  Views' = Views /\ Registered' = Registered
  <2>1. Views' = Views
    BY <1>4 DEF Views, View
  <2>2. Registered' = Registered
    BY <1>1, <1>4 DEF ListsOpen
  <2>3. QED
    BY <2>1, <2>2
<1>5. ASSUME NEW c \in Connections, ~published[c], ~ended[c],
             published' = [published EXCEPT ![c] = TRUE], UNCHANGED <<ended, last, asked>>
      PROVE  Lifecycle!Next
  <2>1. View(c) = "unknown"
    BY <1>5 DEF View
  <2>2. Views' = [Views EXCEPT ![c] = "open"]
    <3>1. \A d \in Connections : View(d)' = IF d = c THEN "open" ELSE View(d)
      BY <1>2, <1>5 DEF View
    <3>2. QED
      BY <3>1 DEF Views
  <2>3. Registered' = Registered \cup {c}
    BY <1>1, <1>2, <1>5 DEF ListsOpen
  <2>4. Views[c] = "unknown"
    BY <2>1 DEF Views
  <2>5. Lifecycle!Open(c)
    BY <1>5, <2>2, <2>3, <2>4 DEF Lifecycle!Open, Views, Registered
  <2>6. QED
    BY <2>5 DEF Lifecycle!Next
<1>6. ASSUME NEW c \in Connections, published[c], ~ended[c],
             ended' = [ended EXCEPT ![c] = TRUE], UNCHANGED <<published, last, asked>>
      PROVE  Lifecycle!Next
  <2>1. View(c) = "open"
    BY <1>6 DEF View
  <2>2. Views' = [Views EXCEPT ![c] = "closed"]
    <3>1. \A d \in Connections : View(d)' = IF d = c THEN "closed" ELSE View(d)
      BY <1>2, <1>6 DEF View
    <3>2. QED
      BY <3>1 DEF Views
  <2>3. Registered' = Registered \ {c}
    BY <1>1, <1>2, <1>6 DEF ListsOpen
  <2>4. Views[c] = "open"
    BY <2>1 DEF Views
  <2>5. Lifecycle!Close(c)
    BY <1>6, <2>2, <2>3, <2>4 DEF Lifecycle!Close, Views, Registered
  <2>6. QED
    BY <2>5 DEF Lifecycle!Next
<1>7. ASSUME NEW c \in Connections, NEW n \in 1..MaxPackets[c], published[c], ~ended[c],
             IF Datagram THEN n > last[c] /\ ~asked[c] ELSE n = last[c] + 1,
             last' = [last EXCEPT ![c] = n], UNCHANGED <<published, ended, asked>>
      PROVE  Lifecycle!Next
  <2>1. Views[c] = "open"
    BY <1>7 DEF View, Views
  <2>2. Views' = Views /\ Registered' = Registered
    BY <1>4, <1>7
  <2>3. Lifecycle!Deliver(c, n)
    BY <1>7, <2>1, <2>2 DEF Lifecycle!Deliver, Views, Registered
  <2>4. QED
    BY <2>3 DEF Lifecycle!Next
<1>8. ASSUME NEW c \in Connections, AppDisconnects(c)
      PROVE  Lifecycle!Next
  <2>1. /\ published[c] /\ asked' = [asked EXCEPT ![c] = TRUE] /\ UNCHANGED <<published, ended, last>>
    BY <1>8 DEF AppDisconnects, ecs
  <2>2. Views[c] # "unknown"
    BY <2>1 DEF Views, View
  <2>3. Views' = Views /\ Registered' = Registered
    BY <1>4, <2>1
  <2>4. Lifecycle!Disconnect(c)
    BY <2>1, <2>2, <2>3 DEF Lifecycle!Disconnect, Views, Registered
  <2>5. QED
    BY <2>4 DEF Lifecycle!Next
<1>9. ASSUME NEW type, type # "datagram", Applies(type)
      PROVE  /\ Told # << >> /\ 1 \in DOMAIN Told /\ Told[1] = Head(commands) /\ Told[1].type = type
             /\ Head(commands).conn \in Connections /\ Head(commands).n \in Nat /\ UNCHANGED asked
  <2>1. Told # << >> /\ Told[1] = Head(commands) /\ Told[1].type = type /\ UNCHANGED asked
    BY <1>2, <1>9, ToldFirst DEF Applies
  <2>2. 1 \in DOMAIN Told
    BY <1>2, <2>1, TailPlaces
  <2>3. QED
    BY <1>2, <2>1, <2>2
<1>10. CASE ApplyEstablished
  <2> DEFINE c == Head(commands).conn
  <2>1. /\ c \in Connections /\ 1 \in DOMAIN Told /\ Told[1].conn = c /\ Told[1].type = "established"
        /\ UNCHANGED asked
    BY <1>9, <1>10 DEF ApplyEstablished
  <2>2. published' = [published EXCEPT ![c] = TRUE] /\ UNCHANGED <<ended, last>>
    BY <1>10 DEF ApplyEstablished
  <2>3. ~published[c] /\ ~ended[c]
    BY <1>2, <2>1 DEF AnnounceInv
  <2> HIDE DEF c
  <2>4. QED
    BY <1>5, <2>1, <2>2, <2>3
<1>11. CASE ApplyClosed
  <2> DEFINE c == Head(commands).conn
  <2>1. /\ c \in Connections /\ 1 \in DOMAIN Told /\ Told[1].conn = c /\ Told[1].type = "closed"
        /\ UNCHANGED asked
    BY <1>9, <1>11 DEF ApplyClosed
  <2>2. ended' = [ended EXCEPT ![c] = TRUE] /\ UNCHANGED <<published, last>>
    BY <1>11 DEF ApplyClosed
  <2>3. published[c] /\ ~ended[c]
    <3>1. ~\E j \in 1..(1 - 1) : Opens(j, c)
      OBVIOUS
    <3>2. QED
      BY <1>2, <2>1, <3>1 DEF AnnounceInv
  <2> HIDE DEF c
  <2>4. QED
    BY <1>6, <2>1, <2>2, <2>3
<1>12. CASE ApplyPacket
  <2> DEFINE c == Head(commands).conn
             n == Head(commands).n
  <2>1. /\ c \in Connections /\ n \in Nat /\ Told # << >> /\ 1 \in DOMAIN Told /\ Told[1].conn = c
        /\ Told[1].type = "packet" /\ Told[1].n = n /\ UNCHANGED asked
    BY <1>9, <1>12 DEF ApplyPacket
  <2>2. last' = [last EXCEPT ![c] = n] /\ UNCHANGED <<published, ended>>
    BY <1>12 DEF ApplyPacket, Deliver
  <2>3. published[c] /\ ~ended[c]
    <3>1. ~\E j \in 1..(1 - 1) : Opens(j, c)
      OBVIOUS
    <3>2. QED
      BY <1>2, <2>1, <3>1 DEF AnnounceInv
  <2>4. ~Datagram
    BY <1>2, <2>1 DEF FrameInv
  <2>5. n = last[c] + 1
    BY <1>2, <2>1, <2>4, FirstIsNext
  <2>6. n \in 1..MaxPackets[c]
    <3>1. n <= received[c] /\ received[c] <= MaxPackets[c]
      BY <1>2, <2>1, <2>4 DEF StreamInv, TaskInv, TaskOf
    <3>2. last[c] \in Nat /\ received[c] \in Nat /\ MaxPackets[c] \in Nat
      BY <1>2, <2>1, EndpointAssumption DEF EndpointTypeOK
    <3> HIDE DEF n
    <3>3. QED
      BY <2>1, <2>5, <3>1, <3>2
  <2> HIDE DEF c, n
  <2>7. QED
    BY <1>7, <2>1, <2>2, <2>3, <2>4, <2>5, <2>6
<1>13. CASE ApplyDatagram
  <2> DEFINE c == Head(commands).conn
             n == Head(commands).n
  <2>1. /\ Datagram /\ Taken # << >> /\ Taken[1] = Head(commands) /\ UNCHANGED published
    BY <1>2, <1>13, DatagramFirst
  <2>2. /\ UNCHANGED <<ended, asked>>
        /\ \/ UNCHANGED last
           \/ ~cancelled[c] /\ last' = [last EXCEPT ![c] = n]
    BY <1>13 DEF ApplyDatagram, Deliver, Applies
  <2>3. 1 \in DOMAIN Taken /\ Taken[1] \in Messages
    <3>1. Taken \in Seq(Messages)
      BY <1>2, ToldType
    <3>2. QED
      BY <2>1, <3>1, TailPlaces, ElementOfSeq
  <2>4. /\ c \in Connections /\ n \in Nat /\ last[c] < n /\ n <= received[c] /\ published[c]
    BY <1>2, <2>1, <2>3, MessageFields DEF DatagramInv, Fresh
  <2>5. ~cancelled[c] => ~ended[c] /\ ~asked[c]
    BY <1>2, <2>4 DEF AnnounceInv, TaskInv, TaskOf
  <2>6. n \in 1..MaxPackets[c] /\ n > last[c]
    <3>1. received[c] <= MaxPackets[c]
      BY <1>2, <2>4 DEF TaskInv, TaskOf
    <3>2. last[c] \in Nat /\ received[c] \in Nat /\ MaxPackets[c] \in Nat
      BY <1>2, <2>4, EndpointAssumption DEF EndpointTypeOK
    <3> HIDE DEF n
    <3>3. QED
      BY <2>4, <3>1, <3>2
  <2> HIDE DEF c, n
  <2>7. CASE UNCHANGED last
    BY <2>1, <2>2, <2>7, LifecycleStutters
  <2>8. CASE ~cancelled[c] /\ last' = [last EXCEPT ![c] = n]
    BY <1>7, <2>1, <2>2, <2>4, <2>5, <2>6, <2>8
  <2>9. QED
    BY <2>2, <2>7, <2>8
<1>14. CASE /\ Quiet /\ ~ApplyDatagram /\ ~\E c \in Connections : AppDisconnects(c)
  <2>1. UNCHANGED <<published, ended>>
    BY <1>2, <1>14, QuietTold
  <2>2. UNCHANGED last
    BY <1>14, QuietTaskFrame
    DEF Quiet, QuietSystem, DatagramSystem, TakeIncoming, IncomingDone, ApplyingDone, TakeDatagram,
        DatagramsDone, PublishingDone, TakeTransport, Arrange, endpoint, ecs
  <2>3. UNCHANGED asked
    <3>1. ASSUME NEW c \in Connections, QuietTask(c), ~AppDisconnects(c)
          PROVE  UNCHANGED asked
      BY <3>1
      DEF QuietTask, SendTransport, SplitEnds, SplitSucceeds, SplitFails, SeeSendError,
          SeeCancelled, ForwardCancelled, EndReceiving, ForwardDatagram, Finish, Transport,
          ReceiveFails, ReceivePacket, ReceivePanics, SendTask, WriteFails, WriterExits,
          WriterPanics, Unwind
    <3>2. CASE QuietSystem \/ TakeTransport \/ Arrange \/ UNCHANGED endpoint
      BY <1>14, <3>2
      DEF QuietSystem, DatagramSystem, TakeIncoming, IncomingDone, ApplyingDone, TakeDatagram,
          DatagramsDone, PublishingDone, TakeTransport, Arrange, endpoint
    <3>3. QED
      BY <1>14, <3>1, <3>2 DEF Quiet
  <2>4. QED
    BY <2>1, <2>2, <2>3, LifecycleStutters
<1>15. CASE \/ ApplyDeclined
            \/ \E c \in Connections :
                  SendEstablished(c) \/ SendDeclined(c) \/ SendsClosed(c) \/ ForwardStream(c)
  <2>1. UNCHANGED <<published, ended, last, asked>>
    BY <1>15
    DEF ApplyDeclined, Applies, SendEstablished, SendDeclined, SendsClosed, SplitReported, SendClosed,
        ForwardStream, ecs
  <2>2. QED
    BY <2>1, LifecycleStutters
<1>16. QED
  BY <1>8, <1>10, <1>11, <1>12, <1>13, <1>14, <1>15, QuietOrNot
=============================================================================
