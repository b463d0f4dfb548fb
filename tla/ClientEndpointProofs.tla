------------------------ MODULE ClientEndpointProofs ------------------------
(***************************************************************************)
(* The client plugin: what EndpointProofs shows of the tasks and systems   *)
(* holds whatever the requests and their attempts come to, each request    *)
(* has one answer, and the resource ClientConnection is up to date.        *)
(***************************************************************************)
EXTENDS ClientEndpoint, EndpointProofs

\* The place of the message that c was declined
Declines(i, c) == Told[i].type = "declined" /\ Told[i].conn = c

\* A refused request has been told, or will be told by one message.
AnswerInv ==
    /\ \A c \in Connections :
          /\ failed[c] => stage[c] = "refused" /\ \A i \in DOMAIN Told : ~Declines(i, c)
          /\ stage[c] = "refused" => failed[c] \/ \E i \in DOMAIN Told : Declines(i, c)
    /\ \A i, j \in DOMAIN Told : Told[i].type = "declined" /\ Declines(j, Told[i].conn) => i = j
-----------------------------------------------------------------------------
(* The steps of the client                                                 *)

\* Requests are taken on, attempted or lost; none of them is refused.
LEMMA Attempting ==
    ASSUME EndpointTypeOK,
           \/ TakeRequest \/ RequestPanics
           \/ \E c \in Connections : CreateConnection(c)
           \/ \E c \in Connections : Observe(c) /\ stage'[c] # "refused"
    PROVE  /\ Arrange /\ UNCHANGED failed
           /\ \A d \in Connections : stage'[d] = "refused" <=> stage[d] = "refused"
<1> USE DEF EndpointTypeOK, Goto, Stages, Unannounced
<1>1. CASE TakeRequest
  <2>1. /\ stage' = [stage EXCEPT ![Head(requests)] = "connecting"]
        /\ stage[Head(requests)] = "requested" /\ UNCHANGED failed
        /\ UNCHANGED <<writer, cancelled, send_error, cause, received, channels, dropped, ecs, asked>>
    BY <1>1 DEF TakeRequest
  <2>2. QED
    BY <2>1 DEF Arrange
<1>2. CASE RequestPanics
  <2>1. /\ stage' = [c \in Connections |->
                       IF stage[c] \in {"requested", "connecting"} THEN "lost" ELSE stage[c]]
        /\ UNCHANGED failed
        /\ UNCHANGED <<writer, cancelled, send_error, cause, received, channels, dropped, ecs, asked>>
    BY <1>2 DEF RequestPanics
  <2>2. QED
    BY <2>1 DEF Arrange
<1>3. ASSUME NEW c \in Connections, CreateConnection(c)
      PROVE  /\ Arrange /\ UNCHANGED failed
             /\ \A d \in Connections : stage'[d] = "refused" <=> stage[d] = "refused"
  <2>1. /\ \E to \in {"announcing", "declining"} : stage' = [stage EXCEPT ![c] = to]
        /\ stage[c] = "connecting" /\ UNCHANGED failed
        /\ UNCHANGED <<writer, cancelled, send_error, cause, received, channels, dropped, ecs, asked>>
    BY <1>3 DEF CreateConnection, client
  <2>2. QED
    BY <2>1 DEF Arrange
<1>4. ASSUME NEW c \in Connections, Observe(c), stage'[c] # "refused"
      PROVE  /\ Arrange /\ UNCHANGED failed
             /\ \A d \in Connections : stage'[d] = "refused" <=> stage[d] = "refused"
  <2>1. /\ stage' = [stage EXCEPT ![c] = "requested"]
        /\ stage[c] = "new" /\ UNCHANGED failed
        /\ UNCHANGED <<writer, cancelled, send_error, cause, received, channels, dropped, ecs, asked>>
    BY <1>4 DEF Observe
  <2>2. QED
    BY <2>1 DEF Arrange
<1>5. QED
  BY <1>1, <1>2, <1>3, <1>4

\* A request is turned down at once, and told so.
LEMMA Refusing ==
    ASSUME EndpointTypeOK, NEW c \in Connections, Observe(c), stage'[c] = "refused"
    PROVE  /\ Arrange /\ failed' = [failed EXCEPT ![c] = TRUE] /\ stage[c] = "new"
           /\ \A d \in Connections : d # c => stage'[d] = stage[d]
<1>1. /\ stage' = [stage EXCEPT ![c] = "refused"] /\ stage[c] = "new"
      /\ failed' = [failed EXCEPT ![c] = TRUE]
      /\ UNCHANGED <<writer, cancelled, send_error, cause, received, channels, dropped, ecs, asked>>
  BY DEF Observe, Goto, EndpointTypeOK
<1>2. QED
  BY <1>1 DEF Arrange, EndpointTypeOK, Stages, Unannounced

\* The other steps are those of a connection's tasks and of the systems.
Attempt ==
    \/ TakeRequest \/ RequestPanics
    \/ \E c \in Connections : CreateConnection(c)
    \/ \E c \in Connections : Observe(c) /\ stage'[c] # "refused"

LEMMA ClientCases ==
    ASSUME [Next]_vars
    PROVE  \/ Attempt
           \/ \E c \in Connections : Observe(c) /\ stage'[c] = "refused"
           \/ UNCHANGED client /\ \E c \in Connections : ConnectionStep(c)
           \/ UNCHANGED client /\ (TakeTransport \/ IncomingLoop \/ DatagramSystem \/ UNCHANGED endpoint)
           \/ PublishEstablished \/ PublishClosed \/ PublishDeclined
<1>1. ASSUME NEW c \in Connections, Publish(c)
      PROVE  UNCHANGED client /\ ConnectionStep(c)
  BY <1>1 DEF Publish, Decline, SendDeclined, ConnectionStep
<1>2. ASSUME NEW c \in Connections, Run(c) \/ ReceivePackets(c)
      PROVE  UNCHANGED client /\ ConnectionStep(c)
  BY <1>2 DEF Run, ReceivePackets, ConnectionStep, SendsClosed
<1>3. ASSUME NEW c \in Connections, Transport(c) \/ SendTask(c) \/ AppDisconnects(c), UNCHANGED client
      PROVE  UNCHANGED client /\ ConnectionStep(c)
  BY <1>3 DEF ConnectionStep
<1>4. CASE ProcessConnections \/ IncomingSystem \/ ReceiveDatagramPackets
  BY <1>4 DEF ProcessConnections, IncomingSystem, ReceiveDatagramPackets
<1>5. CASE UNCHANGED vars
  BY <1>5 DEF vars
<1>6. QED
  BY <1>1, <1>2, <1>3, <1>4, <1>5 DEF Next, Attempt

LEMMA ClientSteps ==
    ASSUME EndpointTypeOK, [Next]_vars
    PROVE  EndpointNext
<1>1. CASE Attempt
  BY <1>1, Attempting DEF Attempt, EndpointNext
<1>2. ASSUME NEW c \in Connections, Observe(c), stage'[c] = "refused"
      PROVE  EndpointNext
  BY <1>2, Refusing DEF EndpointNext
<1>3. CASE PublishEstablished \/ PublishClosed \/ PublishDeclined
  BY <1>3
  DEF PublishEstablished, PublishClosed, PublishDeclined, ApplyDeclined, SystemStep, EndpointNext
<1>4. QED
  BY <1>1, <1>2, <1>3, ClientCases DEF EndpointNext, SystemStep

-----------------------------------------------------------------------------
(* Types, and the current connection                                       *)

ClientTypes ==
    /\ requests \in Seq(Connections) /\ Len(requests) <= Capacity
    /\ serving \in BOOLEAN
    /\ failed \in [Connections -> BOOLEAN]

LEMMA ClientTypesKept ==
    ASSUME EndpointTypeOK, FrameInv, ClientTypes, [Next]_vars
    PROVE  ClientTypes'
<1> USE DEF ClientTypes
<1>1. CASE UNCHANGED <<requests, serving, failed>>
  BY <1>1
<1>2. CASE TakeRequest
  <2>1. requests # << >> /\ requests' = Tail(requests) /\ UNCHANGED <<serving, failed>>
    BY <1>2 DEF TakeRequest
  <2>2. requests' \in Seq(Connections) /\ Len(requests') <= Capacity
    BY <2>1, HeadType, StaysBounded
  <2>3. QED
    BY <2>1, <2>2
<1>3. CASE RequestPanics
  <2>1. requests' = << >> /\ serving' = FALSE /\ UNCHANGED failed
    BY <1>3 DEF RequestPanics
  <2>2. requests' \in Seq(Connections) /\ Len(requests') <= Capacity
    BY <2>1, CapacityPositive
  <2>3. QED
    BY <2>1, <2>2
<1>4. ASSUME NEW c \in Connections, Observe(c)
      PROVE  ClientTypes'
  <2>1. /\ (Room(requests) /\ requests' = Append(requests, c)) \/ UNCHANGED requests
        /\ failed' = [failed EXCEPT ![c] = TRUE] \/ UNCHANGED failed
        /\ UNCHANGED serving
    BY <1>4 DEF Observe
  <2>2. requests' \in Seq(Connections) /\ Len(requests') <= Capacity
    BY <2>1, AppendType, StaysBounded
  <2>3. failed' \in [Connections -> BOOLEAN]
    BY <2>1
  <2>4. QED
    BY <2>1, <2>2, <2>3
<1>5. CASE PublishDeclined
  <2>1. failed' = [failed EXCEPT ![Head(commands).conn] = TRUE] /\ UNCHANGED <<requests, serving>>
    BY <1>5 DEF PublishDeclined
  <2>2. QED
    BY <2>1
<1>6. CASE PublishEstablished \/ PublishClosed
  BY <1>1, <1>6 DEF PublishEstablished, PublishClosed
<1>7. ASSUME NEW c \in Connections, CreateConnection(c)
      PROVE  ClientTypes'
  BY <1>1, <1>7 DEF CreateConnection, client
<1>8. CASE UNCHANGED client
  BY <1>1, <1>8 DEF client
<1>9. QED
  BY <1>2, <1>3, <1>4, <1>5, <1>6, <1>7, <1>8, ClientCases DEF Attempt

\* Whenever the registry changes, so does the resource.
LEMMA CurrentKept ==
    ASSUME EndpointTypeOK, CurrentIsLatest, [Next]_vars
    PROVE  CurrentIsLatest'
<1>1. CASE UNCHANGED <<registry, current>>
  BY <1>1 DEF CurrentIsLatest
<1>2. CASE Attempt \/ \E c \in Connections : Observe(c)
  <2>1. UNCHANGED <<registry, current>>
    BY <1>2
    DEF Attempt, TakeRequest, RequestPanics, CreateConnection, Observe, client, ecs
  <2>2. QED
    BY <1>1, <2>1
<1>3. ASSUME UNCHANGED client, NEW c \in Connections, ConnectionStep(c)
      PROVE  CurrentIsLatest'
  BY <1>1, <1>3, ChannelTypes DEF ecs, client
<1>4. CASE UNCHANGED client /\ (TakeTransport \/ IncomingLoop \/ DatagramSystem \/ UNCHANGED endpoint)
  <2>1. UNCHANGED <<registry, current>>
    BY <1>4
    DEF client, TakeTransport, IncomingLoop, DatagramSystem, endpoint, ecs, TakeIncoming, IncomingDone,
        ApplyPacket, ApplyingDone, TakeDatagram, DatagramsDone, ApplyDatagram, PublishingDone
  <2>2. QED
    BY <1>1, <2>1
<1>5. CASE PublishEstablished
  <2> DEFINE c == Head(commands).conn
  <2>1. registry' = Append(registry, c) /\ current' = c
    BY <1>5 DEF PublishEstablished, ApplyEstablished
  <2>2. c \in Connections
    <3>1. commands # << >> /\ commands \in Seq(Messages)
      BY <1>5 DEF PublishEstablished, ApplyEstablished, Applies, EndpointTypeOK
    <3>2. QED
      BY <3>1, HeadType, MessageFields
  <2> HIDE DEF c
  <2>3. registry \in Seq(Connections)
    BY DEF EndpointTypeOK
  <2>4. registry' # << >> /\ registry'[Len(registry')] = c
    BY <2>1, <2>2, <2>3
  <2>5. QED
    BY <2>1, <2>4 DEF CurrentIsLatest
<1>6. CASE PublishClosed
  BY <1>6 DEF PublishClosed, Fallback, CurrentIsLatest
<1>7. CASE PublishDeclined
  BY <1>1, <1>7 DEF PublishDeclined
<1>8. QED
  BY <1>2, <1>3, <1>4, <1>5, <1>6, <1>7, ClientCases

-----------------------------------------------------------------------------
(* One answer for each request                                             *)

\* Outside the request task only the report of a failed attempt refuses one.
LEMMA RefusedSame ==
    ASSUME EndpointTypeOK, NEW d \in Connections,
           \/ \E c \in Connections : ConnectionStep(c) /\ ~SendDeclined(c)
           \/ TakeTransport \/ SystemStep \/ UNCHANGED endpoint
    PROVE  stage'[d] = "refused" <=> stage[d] = "refused"
<1> USE DEF EndpointTypeOK, Goto
<1>1. ASSUME NEW c \in Connections, ConnectionStep(c), ~SendDeclined(c)
      PROVE  stage'[d] = "refused" <=> stage[d] = "refused"
  <2>1. CASE SendEstablished(c) \/ SendTransport(c) \/ SplitEnds(c) \/ SendsClosed(c)
    BY <2>1 DEF SendEstablished, SendTransport, SplitEnds, SplitSucceeds, SplitFails, SendsClosed,
                SplitReported, SendClosed
  <2>2. CASE ReceiveTask(c)
    BY <2>2 DEF ReceiveTask, SeeSendError, SeeCancelled, ForwardStream, ForwardCancelled,
                ForwardDatagram, Finish, EndReceiving
  <2>3. CASE Transport(c)
    BY <2>3 DEF Transport, ReceiveFails, ReceivePacket, ReceivePanics, EndReceiving
  <2>4. CASE SendTask(c) \/ AppDisconnects(c)
    BY <2>4 DEF SendTask, WriteFails, WriterExits, WriterPanics, Unwind, AppDisconnects
  <2>5. QED
    BY <1>1, <2>1, <2>2, <2>3, <2>4 DEF ConnectionStep
<1>2. CASE SystemStep \/ UNCHANGED endpoint
  <2>1. UNCHANGED stage
    BY <1>2
    DEF SystemStep, IncomingLoop, DatagramSystem, TakeIncoming, IncomingDone, ApplyPacket,
        ApplyingDone, TakeDatagram, DatagramsDone, ApplyDatagram, PublishingDone,
        ApplyEstablished, ApplyClosed, ApplyDeclined, Applies, tasks, endpoint
  <2>2. QED
    BY <2>1
<1>3. CASE TakeTransport
  BY <1>3 DEF TakeTransport
<1>4. QED
  BY <1>1, <1>2, <1>3

\* Declines, in the next state
NowDeclines(i, c) == Told'[i].type = "declined" /\ Told'[i].conn = c

\* What is told or announced is not a refusal.
LEMMA AnswersStand ==
    ASSUME EndpointTypeOK, AnswerInv, UNCHANGED failed,
           \A d \in Connections : stage'[d] = "refused" <=> stage[d] = "refused",
           \/ Told' = Told
           \/ \E m \in Messages : m.type # "declined" /\ Told' = Append(Told, m)
           \/ Told # << >> /\ Told[1].type # "declined" /\ Told' = Tail(Told)
    PROVE  AnswerInv'
<1>1. Told \in Seq(Messages)
  BY ToldType
<1>2. CASE Told' = Told
  BY <1>2 DEF AnswerInv, Declines
<1>3. ASSUME NEW m \in Messages, m.type # "declined", Told' = Append(Told, m)
      PROVE  AnswerInv'
  <2>1. /\ \A i \in DOMAIN Told : i \in DOMAIN Told' /\ Told'[i] = Told[i]
        /\ \A i \in DOMAIN Told' : i \in DOMAIN Told \/ Told'[i].type # "declined"
    <3>1. /\ DOMAIN Told' = 1..(Len(Told) + 1) /\ DOMAIN Told = 1..Len(Told) /\ Len(Told) \in Nat
          /\ \A i \in DOMAIN Told : Told'[i] = Told[i]
          /\ Told'[Len(Told) + 1] = m
          /\ \A i \in DOMAIN Told' : i \in DOMAIN Told \/ i = Len(Told) + 1
      BY <1>1, <1>3, AppendPlaces
    <3>2. ASSUME NEW i \in DOMAIN Told
          PROVE  i \in DOMAIN Told'
      <4>1. DOMAIN Told' = 1..(Len(Told) + 1) /\ i \in 1..Len(Told) /\ Len(Told) \in Nat
        BY <3>1
      <4>2. i \in 1..(Len(Told) + 1)
        BY <4>1
      <4>3. QED
        BY <4>1, <4>2
    <3>3. QED
      BY <1>3, <3>1, <3>2
  <2>2. QED
    BY <2>1 DEF AnswerInv, Declines
<1>4. CASE Told # << >> /\ Told[1].type # "declined" /\ Told' = Tail(Told)
  <2>1. /\ \A i \in DOMAIN Told' : i + 1 \in DOMAIN Told /\ Told'[i] = Told[i + 1] /\ i \in Int
        /\ \A i \in DOMAIN Told : i # 1 => i - 1 \in DOMAIN Told' /\ Told'[i - 1] = Told[i]
    <3>1. /\ \A i \in DOMAIN Told' : i + 1 \in DOMAIN Told /\ Told'[i] = Told[i + 1]
          /\ \A i \in DOMAIN Told : i # 1 => i - 1 \in DOMAIN Told' /\ Told'[i - 1] = Told[i]
          /\ DOMAIN Told' = 1..(Len(Told) - 1)
      BY <1>1, <1>4, TailPlaces
    <3>2. Len(Told) \in Nat
      BY <1>1
    <3>3. \A i \in DOMAIN Told' : i \in Int
      BY <3>1, <3>2
    <3>4. QED
      BY <3>1, <3>3
  <2>2. \A i \in DOMAIN Told', c \in Connections : NowDeclines(i, c) => Declines(i + 1, c)
    BY <2>1 DEF Declines, NowDeclines
  <2>3. \A c \in Connections :
           (\E i \in DOMAIN Told : Declines(i, c)) => \E i \in DOMAIN Told' : NowDeclines(i, c)
    <3>1. ASSUME NEW c \in Connections, NEW i \in DOMAIN Told, Declines(i, c)
          PROVE  \E j \in DOMAIN Told' : NowDeclines(j, c)
      <4> DEFINE j == i - 1
      <4>1. j \in DOMAIN Told' /\ Told'[j] = Told[i]
        BY <1>4, <2>1, <3>1 DEF Declines
      <4> HIDE DEF j
      <4>2. QED
        BY <3>1, <4>1 DEF Declines, NowDeclines
    <3>2. QED
      BY <3>1
  <2>4. ASSUME NEW c \in Connections
        PROVE  /\ failed'[c] => stage'[c] = "refused" /\ \A i \in DOMAIN Told' : ~NowDeclines(i, c)
               /\ stage'[c] = "refused" => failed'[c] \/ \E i \in DOMAIN Told' : NowDeclines(i, c)
    BY <2>1, <2>2, <2>3 DEF AnswerInv
  <2>5. ASSUME NEW i \in DOMAIN Told', NEW j \in DOMAIN Told', Told'[i].type = "declined",
               NowDeclines(j, Told'[i].conn)
        PROVE  i = j
    <3>1. i + 1 \in DOMAIN Told /\ j + 1 \in DOMAIN Told /\ i \in Int /\ j \in Int
          /\ Told[i + 1].type = "declined" /\ Declines(j + 1, Told[i + 1].conn)
      BY <2>1, <2>5 DEF Declines, NowDeclines
    <3>2. i + 1 = j + 1
      BY <3>1 DEF AnswerInv
    <3>3. QED
      BY <3>1, <3>2
  <2>6. QED
    BY <2>4, <2>5 DEF AnswerInv, Declines, NowDeclines
<1>5. QED
  BY <1>2, <1>3, <1>4

LEMMA AnswersKept ==
    ASSUME EndpointTypeOK, FrameInv, AnnounceInv, ClientTypes, AnswerInv, [Next]_vars
    PROVE  AnswerInv'
<1>1. /\ Told \in Seq(Messages) /\ EndpointNext
      /\ \A i \in DOMAIN Told : Told[i] \in Messages /\ Told[i].conn \in Connections
  BY ToldType, ElementOfSeq, MessageFields, ClientSteps
<1>2. CASE Attempt
  <2>1. Arrange /\ UNCHANGED failed
        /\ \A d \in Connections : stage'[d] = "refused" <=> stage[d] = "refused"
    BY <1>2, Attempting DEF Attempt
  <2>2. Told' = Told
    BY <2>1, QuietTold DEF Quiet
  <2>3. QED
    BY <2>1, <2>2, AnswersStand
<1>3. ASSUME NEW c \in Connections, Observe(c), stage'[c] = "refused"
      PROVE  AnswerInv'
  <2>1. /\ Arrange /\ failed' = [failed EXCEPT ![c] = TRUE] /\ stage[c] = "new"
        /\ \A d \in Connections : d # c => stage'[d] = stage[d]
    BY <1>3, Refusing
  <2>2. Told' = Told
    BY <2>1, QuietTold DEF Quiet
  <2>3. \A i \in DOMAIN Told : ~Declines(i, c)
    BY <2>1 DEF AnnounceInv, Declines
  <2>4. failed'[c] = TRUE /\ \A d \in Connections : d # c => failed'[d] = failed[d]
    BY <2>1 DEF ClientTypes
  <2>5. QED
    BY <1>3, <2>1, <2>2, <2>3, <2>4 DEF AnswerInv, Declines
<1>4. ASSUME UNCHANGED client, NEW c \in Connections, ConnectionStep(c), ~SendDeclined(c)
      PROVE  AnswerInv'
  <2>1. UNCHANGED failed /\ \A d \in Connections : stage'[d] = "refused" <=> stage[d] = "refused"
    BY <1>4, RefusedSame DEF client
  <2>2. CASE QuietTask(c)
    <3>1. Told' = Told
      BY <2>2, QuietTold DEF Quiet
    <3>2. QED
      BY <2>1, <3>1, AnswersStand
  <2>3. CASE SendEstablished(c) \/ ForwardStream(c)
    <3>1. PICK type \in {"established", "packet"}, n \in Nat :
              incoming' = Append(incoming, Message(type, c, n))
      BY <2>3 DEF SendEstablished, ForwardStream, EndpointTypeOK
    <3>2. Message(type, c, n) \in Messages /\ Message(type, c, n).type # "declined"
      BY MessageType DEF Message
    <3>3. UNCHANGED <<commands, frame>>
      BY <2>3 DEF SendEstablished, ForwardStream, ecs
    <3>4. Told' = Append(Told, Message(type, c, n))
      BY <3>1, <3>2, <3>3, ToldLast
    <3>5. QED
      BY <2>1, <3>2, <3>4, AnswersStand
  <2>4. CASE SendsClosed(c)
    <3>1. incoming' = Append(incoming, ClosedMessage(c)) /\ UNCHANGED <<commands, frame>>
      BY <2>4 DEF SendsClosed, SplitReported, SendClosed, ecs
    <3>2. ClosedMessage(c) \in Messages /\ ClosedMessage(c).type # "declined"
      BY ClosedMessageType DEF ClosedMessage
    <3>3. Told' = Append(Told, ClosedMessage(c))
      BY <3>1, <3>2, ToldLast
    <3>4. QED
      BY <2>1, <3>2, <3>3, AnswersStand
  <2>5. QED
    BY <1>4, <2>2, <2>3, <2>4 DEF ConnectionStep, QuietTask, ReceiveTask
<1>5. ASSUME UNCHANGED client, NEW c \in Connections, SendDeclined(c)
      PROVE  AnswerInv'
  <2> DEFINE m == Message("declined", c, 0)
             k == Len(Told) + 1
  <2>1. m \in Messages /\ m.conn = c /\ m.type = "declined"
    BY MessageType DEF Message
  <2>2. /\ incoming' = Append(incoming, m) /\ UNCHANGED <<commands, frame, failed>>
        /\ stage[c] = "declining" /\ stage'[c] = "refused"
        /\ \A d \in Connections : d # c => stage'[d] = stage[d]
    BY <1>5 DEF SendDeclined, Goto, EndpointTypeOK, ecs, client
  <2> HIDE DEF m
  <2>3. Told' = Append(Told, m)
    BY <2>1, <2>2, ToldLast
  <2>4. /\ \A i \in DOMAIN Told : i \in DOMAIN Told' /\ Told'[i] = Told[i]
        /\ \A i \in DOMAIN Told' : i \in DOMAIN Told \/ i = k
        /\ k \in DOMAIN Told' /\ Told'[k] = m
    <3>1. /\ DOMAIN Told' = 1..(Len(Told) + 1) /\ DOMAIN Told = 1..Len(Told) /\ Len(Told) \in Nat
          /\ \A i \in DOMAIN Told : Told'[i] = Told[i]
          /\ Told'[Len(Told) + 1] = m
          /\ \A i \in DOMAIN Told' : i \in DOMAIN Told \/ i = Len(Told) + 1
      BY <1>1, <2>1, <2>3, AppendPlaces
    <3>2. k \in DOMAIN Told' /\ \A i \in DOMAIN Told : i \in DOMAIN Told'
      BY <3>1
    <3>3. QED
      BY <3>1, <3>2
  <2> HIDE DEF k
  <2>5. ~failed[c] /\ \A i \in DOMAIN Told : ~Declines(i, c)
    BY <2>2 DEF AnswerInv, AnnounceInv, Declines
  <2>6. ASSUME NEW d \in Connections
        PROVE  /\ failed'[d] => stage'[d] = "refused" /\ \A i \in DOMAIN Told' : ~NowDeclines(i, d)
               /\ stage'[d] = "refused" => failed'[d] \/ \E i \in DOMAIN Told' : NowDeclines(i, d)
    <3>1. CASE d = c
      BY <2>1, <2>2, <2>4, <2>5, <3>1 DEF NowDeclines
    <3>2. CASE d # c
      BY <2>1, <2>2, <2>4, <3>2 DEF AnswerInv, Declines, NowDeclines
    <3>3. QED
      BY <3>1, <3>2
  <2>7. ASSUME NEW i \in DOMAIN Told', NEW j \in DOMAIN Told', Told'[i].type = "declined",
               NowDeclines(j, Told'[i].conn)
        PROVE  i = j
    BY <2>1, <2>4, <2>5, <2>7 DEF AnswerInv, Declines, NowDeclines
  <2>8. QED
    BY <2>6, <2>7 DEF AnswerInv, Declines, NowDeclines
<1>6. CASE UNCHANGED client /\ (TakeTransport \/ IncomingLoop \/ DatagramSystem \/ UNCHANGED endpoint)
  <2>1. UNCHANGED failed /\ \A d \in Connections : stage'[d] = "refused" <=> stage[d] = "refused"
    BY <1>6, RefusedSame DEF client, SystemStep
  <2>2. CASE ApplyPacket
    <3>1. Told # << >> /\ Told[1].type # "declined" /\ Told' = Tail(Told)
      BY <2>2, ToldFirst DEF ApplyPacket
    <3>2. QED
      BY <2>1, <3>1, AnswersStand
  <2>3. CASE ~ApplyPacket
    <3>1. Quiet
      BY <1>6, <2>3 DEF Quiet, QuietSystem, IncomingLoop
    <3>2. Told' = Told
      BY <3>1, QuietTold
    <3>3. QED
      BY <2>1, <3>2, AnswersStand
  <2>4. QED
    BY <2>2, <2>3
<1>7. CASE PublishEstablished \/ PublishClosed
  <2>1. PICK type \in {"established", "closed"} : Applies(type) /\ UNCHANGED failed
    BY <1>7 DEF PublishEstablished, PublishClosed, ApplyEstablished, ApplyClosed
  <2>2. \A d \in Connections : stage'[d] = "refused" <=> stage[d] = "refused"
    BY <2>1 DEF Applies, tasks
  <2>3. Told # << >> /\ Told[1].type # "declined" /\ Told' = Tail(Told)
    BY <2>1, ToldFirst
  <2>4. QED
    BY <2>1, <2>2, <2>3, AnswersStand
<1>8. CASE PublishDeclined
  <2> DEFINE c == Head(commands).conn
  <2>1. /\ Applies("declined") /\ failed' = [failed EXCEPT ![c] = TRUE] /\ UNCHANGED stage
    BY <1>8 DEF PublishDeclined, Applies, tasks
  <2>2. /\ Told # << >> /\ Told[1] = Head(commands) /\ Told[1].type = "declined" /\ Told' = Tail(Told)
    BY <2>1, ToldFirst
  <2>3. /\ \A i \in DOMAIN Told' : i + 1 \in DOMAIN Told /\ Told'[i] = Told[i + 1] /\ i \in Int /\ i + 1 # 1
        /\ \A i \in DOMAIN Told : i # 1 => i - 1 \in DOMAIN Told' /\ Told'[i - 1] = Told[i]
        /\ 1 \in DOMAIN Told
    <3>1. /\ \A i \in DOMAIN Told' : i + 1 \in DOMAIN Told /\ Told'[i] = Told[i + 1]
          /\ \A i \in DOMAIN Told : i # 1 => i - 1 \in DOMAIN Told' /\ Told'[i - 1] = Told[i]
          /\ DOMAIN Told' = 1..(Len(Told) - 1) /\ 1 \in DOMAIN Told
      BY <1>1, <2>2, TailPlaces
    <3>2. QED
      BY <3>1
  <2>4. c \in Connections /\ Declines(1, c) /\ stage[c] = "refused"
    BY <1>1, <2>2, <2>3 DEF Declines, AnnounceInv
  <2> HIDE DEF c
  <2>5. failed'[c] = TRUE /\ \A d \in Connections : d # c => failed'[d] = failed[d]
    BY <2>1, <2>4 DEF ClientTypes
  <2>6. \A i \in DOMAIN Told', d \in Connections : NowDeclines(i, d) => Declines(i + 1, d)
    BY <2>3 DEF Declines, NowDeclines
  <2>7. \A i \in DOMAIN Told' : ~NowDeclines(i, c)
    <3>1. ASSUME NEW i \in DOMAIN Told', NowDeclines(i, c)
          PROVE  FALSE
      <4>1. i + 1 \in DOMAIN Told /\ Declines(i + 1, c) /\ i + 1 # 1
        BY <2>3, <2>4, <2>6, <3>1
      <4>2. Told[1].type = "declined" /\ Told[1].conn = c
        BY <2>4 DEF Declines
      <4>3. QED
        BY <2>3, <4>1, <4>2 DEF AnswerInv
    <3>2. QED
      BY <3>1
  <2>8. \A d \in Connections : d # c =>
           ((\E i \in DOMAIN Told : Declines(i, d)) => \E i \in DOMAIN Told' : NowDeclines(i, d))
    <3>1. ASSUME NEW d \in Connections, d # c, NEW i \in DOMAIN Told, Declines(i, d)
          PROVE  \E j \in DOMAIN Told' : NowDeclines(j, d)
      <4> DEFINE j == i - 1
      <4>1. j \in DOMAIN Told' /\ Told'[j] = Told[i]
        BY <2>3, <2>4, <3>1 DEF Declines
      <4> HIDE DEF j
      <4>2. QED
        BY <3>1, <4>1 DEF Declines, NowDeclines
    <3>2. QED
      BY <3>1
  <2>9. ASSUME NEW d \in Connections
        PROVE  /\ failed'[d] => stage'[d] = "refused" /\ \A i \in DOMAIN Told' : ~NowDeclines(i, d)
               /\ stage'[d] = "refused" => failed'[d] \/ \E i \in DOMAIN Told' : NowDeclines(i, d)
    <3>1. CASE d = c
      BY <2>1, <2>4, <2>5, <2>7, <3>1
    <3>2. CASE d # c
      <4>1. /\ failed[d] => stage[d] = "refused" /\ \A i \in DOMAIN Told : ~Declines(i, d)
            /\ stage[d] = "refused" => failed[d] \/ \E i \in DOMAIN Told : Declines(i, d)
        BY DEF AnswerInv
      <4>2. QED
        BY <2>1, <2>3, <2>5, <2>6, <2>8, <3>2, <4>1
    <3>3. QED
      BY <3>1, <3>2
  <2>10. ASSUME NEW i \in DOMAIN Told', NEW j \in DOMAIN Told', Told'[i].type = "declined",
                NowDeclines(j, Told'[i].conn)
         PROVE  i = j
    <3>1. i + 1 \in DOMAIN Told /\ j + 1 \in DOMAIN Told /\ i \in Int /\ j \in Int
          /\ Told[i + 1].type = "declined" /\ Declines(j + 1, Told[i + 1].conn)
      BY <2>3, <2>10 DEF Declines, NowDeclines
    <3>2. i + 1 = j + 1
      BY <3>1 DEF AnswerInv
    <3>3. QED
      BY <3>1, <3>2
  <2>11. QED
    BY <2>9, <2>10 DEF AnswerInv, Declines, NowDeclines
<1>9. QED
  BY <1>2, <1>3, <1>4, <1>5, <1>6, <1>7, <1>8, ClientCases

\* Pipeline is Told behind the datagrams that were taken.
LEMMA PipelineShift ==
    ASSUME EndpointTypeOK, FrameInv
    PROVE  \E k \in Nat :
              /\ \A i \in DOMAIN Pipeline : Pipeline[i].type # "datagram"
                    => i - k \in DOMAIN Told /\ Told[i - k] = Pipeline[i]
              /\ \A j \in DOMAIN Told : k + j \in DOMAIN Pipeline /\ Pipeline[k + j] = Told[j]
              /\ DOMAIN Pipeline \subseteq Int /\ DOMAIN Told \subseteq Int
<1>1. commands \in Seq(Messages) /\ incoming \in Seq(Messages)
  BY ToldType
<1>2. /\ DOMAIN Pipeline = 1..(Len(commands) + Len(incoming))
      /\ DOMAIN commands = 1..Len(commands) /\ DOMAIN incoming = 1..Len(incoming)
      /\ Len(commands) \in Nat /\ Len(incoming) \in Nat
      /\ \A i \in DOMAIN commands : Pipeline[i] = commands[i]
      /\ \A j \in DOMAIN incoming : Pipeline[Len(commands) + j] = incoming[j]
  BY <1>1 DEF Pipeline
<1>3. DOMAIN Pipeline \subseteq Int /\ DOMAIN incoming \subseteq Int
  BY <1>2
<1>4. CASE ~Presenting
  <2>1. Told = Pipeline
    BY <1>4 DEF Told, Pipeline
  <2>2. \A i \in DOMAIN Pipeline : i - 0 = i /\ 0 + i = i
    BY <1>3
  <2>3. QED
    BY <1>3, <2>1, <2>2
<1>5. CASE Presenting
  <2>1. Told = incoming /\ Taken = commands
    BY <1>1, <1>5, ConcatEmpty DEF Told, Taken
  <2> DEFINE k == Len(commands)
  <2>2. \A i \in DOMAIN Pipeline : i \in DOMAIN commands \/ (i - k \in DOMAIN incoming /\ k + (i - k) = i)
    BY <1>2
  <2>3. \A j \in DOMAIN incoming : k + j \in DOMAIN Pipeline
    BY <1>2
  <2>4. k \in Nat /\ \A j \in DOMAIN incoming : Pipeline[k + j] = incoming[j]
    BY <1>2
  <2> HIDE DEF k
  <2>5. ASSUME NEW i \in DOMAIN Pipeline, Pipeline[i].type # "datagram"
        PROVE  i - k \in DOMAIN Told /\ Told[i - k] = Pipeline[i]
    <3>1. i \notin DOMAIN commands
      BY <1>2, <2>1, <2>5 DEF FrameInv
    <3> DEFINE j == i - k
    <3>2. j \in DOMAIN incoming /\ k + j = i
      BY <2>2, <3>1
    <3> HIDE DEF j
    <3>3. j \in DOMAIN Told /\ Told[j] = Pipeline[i]
      BY <2>1, <2>4, <3>2
    <3>4. QED
      BY <3>3 DEF j
  <2>6. QED
    BY <1>3, <2>1, <2>3, <2>4, <2>5
<1>6. QED
  BY <1>4, <1>5

\* The place of an answer to c
AnswersAt(i, c) == Told[i].conn = c /\ Told[i].type \in {"established", "declined"}

AnswerPlaces(c) ==
    {i \in DOMAIN Pipeline :
        Pipeline[i].conn = c /\ Pipeline[i].type \in {"established", "declined"}}

\* The answers under way are the ones in Told.
LEMMA AnswersCounted ==
    ASSUME EndpointTypeOK, FrameInv, NEW c \in Connections
    PROVE  /\ (\A i \in DOMAIN Told : ~AnswersAt(i, c)) => Cardinality(AnswerPlaces(c)) = 0
           /\ \A j \in DOMAIN Told :
                 AnswersAt(j, c) /\ (\A i \in DOMAIN Told : AnswersAt(i, c) => i = j)
                     => Cardinality(AnswerPlaces(c)) = 1
<1>1. PICK k \in Nat :
              /\ \A i \in DOMAIN Pipeline : Pipeline[i].type # "datagram"
                    => i - k \in DOMAIN Told /\ Told[i - k] = Pipeline[i]
              /\ \A j \in DOMAIN Told : k + j \in DOMAIN Pipeline /\ Pipeline[k + j] = Told[j]
              /\ DOMAIN Pipeline \subseteq Int /\ DOMAIN Told \subseteq Int
  BY PipelineShift
<1>2. \A i \in AnswerPlaces(c) : i \in Int /\ i - k \in DOMAIN Told /\ AnswersAt(i - k, c)
  <2>1. ASSUME NEW i \in AnswerPlaces(c)
        PROVE  i \in Int /\ i - k \in DOMAIN Told /\ AnswersAt(i - k, c)
    <3>1. /\ i \in DOMAIN Pipeline /\ Pipeline[i].type \in {"established", "declined"}
          /\ Pipeline[i].conn = c /\ Pipeline[i].type # "datagram"
      BY DEF AnswerPlaces
    <3>2. i \in Int /\ i - k \in DOMAIN Told /\ Told[i - k] = Pipeline[i]
      BY <1>1, <3>1
    <3>3. QED
      BY <3>1, <3>2 DEF AnswersAt
  <2>2. QED
    BY <2>1
<1>3. ASSUME \A i \in DOMAIN Told : ~AnswersAt(i, c)
      PROVE  Cardinality(AnswerPlaces(c)) = 0
  <2>1. AnswerPlaces(c) = {}
    BY <1>2, <1>3
  <2>2. QED
    BY <2>1, FS_EmptySet
<1>4. ASSUME NEW j \in DOMAIN Told, AnswersAt(j, c), \A i \in DOMAIN Told : AnswersAt(i, c) => i = j
      PROVE  Cardinality(AnswerPlaces(c)) = 1
  <2> DEFINE p == k + j
  <2>1. p \in AnswerPlaces(c)
    BY <1>1, <1>4 DEF AnswerPlaces, AnswersAt
  <2>2. ASSUME NEW i \in AnswerPlaces(c)
        PROVE  i = p
    <3>1. i - k = j /\ i \in Int /\ k \in Int
      BY <1>1, <1>2, <1>4
    <3>2. QED
      BY <3>1
  <2> HIDE DEF p
  <2>3. AnswerPlaces(c) = {p}
    BY <2>1, <2>2
  <2>4. QED
    BY <2>3, FS_Singleton
<1>5. QED
  BY <1>3, <1>4

LEMMA AnsweredFollows ==
    ASSUME EndpointInv, ClientTypes, AnswerInv
    PROVE  AnsweredOnce
<1> USE DEF EndpointInv
<1>1. SUFFICES ASSUME NEW c \in Connections
               PROVE  Answers(c) = IF stage[c] \in Unannounced \ {"refused"} THEN 0 ELSE 1
  BY DEF AnsweredOnce, Unannounced
<1>2. /\ Answers(c) = (IF failed[c] THEN 1 ELSE 0) + (IF published[c] THEN 1 ELSE 0)
                      + Cardinality(AnswerPlaces(c))
  BY DEF Answers, AnswerPlaces
<1>3. \A i \in DOMAIN Told : AnswersAt(i, c) <=> (Opens(i, c) \/ Declines(i, c))
  BY DEF AnswersAt, Opens, Declines
<1>4. /\ \A i \in DOMAIN Told : Opens(i, c) => ~published[c] /\ stage[c] \notin Unannounced
      /\ \A i \in DOMAIN Told : Declines(i, c) => stage[c] = "refused"
  BY DEF AnnounceInv, Opens, Declines
<1>5. /\ \A i, j \in DOMAIN Told : Opens(i, c) /\ Opens(j, c) => i = j
      /\ \A i, j \in DOMAIN Told : Declines(i, c) /\ Declines(j, c) => i = j
  BY DEF AnnounceInv, AnswerInv, Opens, Declines
<1>6. /\ published[c] => stage[c] \notin Unannounced
      /\ stage[c] \notin Unannounced => published[c] \/ \E i \in DOMAIN Told : Opens(i, c)
  BY DEF AnnounceInv
<1>7. /\ failed[c] => stage[c] = "refused" /\ \A i \in DOMAIN Told : ~Declines(i, c)
      /\ stage[c] = "refused" => failed[c] \/ \E i \in DOMAIN Told : Declines(i, c)
  BY DEF AnswerInv
<1>8. "refused" \in Unannounced
  BY DEF Unannounced
<1>9. CASE stage[c] \in Unannounced \ {"refused"}
  <2>1. ~failed[c] /\ ~published[c] /\ \A i \in DOMAIN Told : ~AnswersAt(i, c)
    BY <1>3, <1>4, <1>6, <1>7, <1>9
  <2>2. Cardinality(AnswerPlaces(c)) = 0
    BY <2>1, AnswersCounted
  <2>3. QED
    BY <1>2, <1>9, <2>1, <2>2
<1>10. CASE stage[c] = "refused"
  <2>1. ~published[c] /\ \A i \in DOMAIN Told : ~Opens(i, c)
    BY <1>4, <1>6, <1>8, <1>10
  <2>2. CASE failed[c]
    <3>1. \A i \in DOMAIN Told : ~AnswersAt(i, c)
      BY <1>3, <1>7, <2>1, <2>2
    <3>2. Cardinality(AnswerPlaces(c)) = 0
      BY <3>1, AnswersCounted
    <3>3. QED
      BY <1>2, <1>10, <2>1, <2>2, <3>2
  <2>3. CASE ~failed[c]
    <3>1. PICK j \in DOMAIN Told : Declines(j, c)
      BY <1>7, <1>10, <2>3
    <3>2. AnswersAt(j, c) /\ \A i \in DOMAIN Told : AnswersAt(i, c) => i = j
      BY <1>3, <1>5, <2>1, <3>1
    <3>3. Cardinality(AnswerPlaces(c)) = 1
      BY <3>2, AnswersCounted
    <3>4. QED
      BY <1>2, <1>10, <2>1, <2>3, <3>3
  <2>4. QED
    BY <2>2, <2>3
<1>11. CASE stage[c] \notin Unannounced
  <2>1. ~failed[c] /\ \A i \in DOMAIN Told : ~Declines(i, c)
    BY <1>4, <1>7, <1>8, <1>11
  <2>2. CASE published[c]
    <3>1. \A i \in DOMAIN Told : ~AnswersAt(i, c)
      BY <1>3, <1>4, <2>1, <2>2
    <3>2. Cardinality(AnswerPlaces(c)) = 0
      BY <3>1, AnswersCounted
    <3>3. QED
      BY <1>2, <1>11, <2>1, <2>2, <3>2
  <2>3. CASE ~published[c]
    <3>1. PICK j \in DOMAIN Told : Opens(j, c)
      BY <1>6, <1>11, <2>3
    <3>2. AnswersAt(j, c) /\ \A i \in DOMAIN Told : AnswersAt(i, c) => i = j
      BY <1>3, <1>5, <2>1, <3>1
    <3>3. Cardinality(AnswerPlaces(c)) = 1
      BY <3>2, AnswersCounted
    <3>4. QED
      BY <1>2, <1>11, <2>1, <2>3, <3>3
  <2>4. QED
    BY <2>2, <2>3
<1>12. QED
  BY <1>9, <1>10, <1>11

-----------------------------------------------------------------------------
(* What holds of every run of the client                                   *)

\* The inductive invariant: no announcement, packet, end or drop count of a
\* connection goes wrong, no request is answered twice or with two results,
\* and the resource follows the registry.
IInv == EndpointInv /\ ClientTypes /\ CurrentIsLatest /\ AnswerInv

\* setup and every later step keep the invariant, for any
\* number of requests, attempts at once, packets and places in the channels.
THEOREM Invariance == Spec => []IInv
<1>1. Init => IInv
  <2>1. SUFFICES ASSUME Init
                 PROVE  IInv
    OBVIOUS
  <2>2. EndpointInv
    BY <2>1, EndpointStarts DEF Init
  <2>3. ClientTypes
    <3>1. requests = << >> /\ serving = TRUE /\ failed = Never
      BY <2>1 DEF Init
    <3>2. requests \in Seq(Connections) /\ Len(requests) <= Capacity
      BY <3>1, CapacityPositive
    <3>3. QED
      BY <3>1, <3>2 DEF ClientTypes, Never
  <2>4. CurrentIsLatest
    BY <2>1 DEF Init, EndpointInit, CurrentIsLatest
  <2>5. AnswerInv
    <3>1. DOMAIN Told = {}
      <4>1. Told = << >>
        BY <2>1, ConcatEmpty DEF Init, EndpointInit, Told, Presenting
      <4>2. QED
        BY <4>1
    <3>2. \A c \in Connections : stage[c] = "new" /\ ~failed[c]
      BY <2>1 DEF Init, EndpointInit, Never
    <3>3. QED
      BY <3>1, <3>2 DEF AnswerInv
  <2>6. QED
    BY <2>2, <2>3, <2>4, <2>5 DEF IInv
<1>2. IInv /\ [Next]_vars => IInv'
  <2>1. SUFFICES ASSUME IInv, [Next]_vars
                 PROVE  IInv'
    OBVIOUS
  <2>2. EndpointInv'
    BY <2>1, ClientSteps, EndpointKeeps DEF IInv, EndpointInv
  <2>3. ClientTypes'
    BY <2>1, ClientTypesKept DEF IInv, EndpointInv
  <2>4. CurrentIsLatest'
    BY <2>1, CurrentKept DEF IInv, EndpointInv
  <2>5. AnswerInv'
    BY <2>1, AnswersKept DEF IInv, EndpointInv
  <2>6. QED
    BY <2>2, <2>3, <2>4, <2>5 DEF IInv
<1>3. QED
  BY <1>1, <1>2, PTL DEF Spec

\* Every variable of the client keeps its type, and none of its channels ever
\* holds more than it was created for: the one of requests, which observe()
\* fills without waiting, the one to the setup task, the one to the systems,
\* which every connection and every failed attempt shares, and the datagram
\* queue.
THEOREM TypeCorrect == Spec => []TypeOK
<1>1. IInv => TypeOK
  <2>1. SUFFICES ASSUME IInv
                 PROVE  TypeOK
    OBVIOUS
  <2>2. EndpointTypeOK /\ ChannelsBounded /\ registry \in Seq(Connections)
    BY <2>1 DEF IInv, EndpointInv, EndpointTypeOK
  <2>3. current \in Connections \cup {NoConnection}
    BY <2>1, <2>2 DEF IInv, CurrentIsLatest
  <2>4. QED
    BY <2>1, <2>2, <2>3 DEF IInv, ClientTypes, TypeOK
<1>2. QED
  BY <1>1, Invariance, PTL

\* observe() and publish() give each request one answer: a request that was
\* refused, or whose attempt failed or succeeded, is told so once, and never
\* both, whatever the order of attempts, panics and frames.
THEOREM AnswersOnce == Spec => []AnsweredOnce
<1>1. IInv => AnsweredOnce
  BY AnsweredFollows DEF IInv
<1>2. QED
  BY <1>1, Invariance, PTL

\* The resource ClientConnection is the youngest connection that the registry
\* ClientConnections lists, after every established and closed connection.
THEOREM CurrentIsUpToDate == Spec => []CurrentIsLatest
<1>1. IInv => CurrentIsLatest
  BY DEF IInv
<1>2. QED
  BY <1>1, Invariance, PTL

\* The error of a failed write is never lost to the cancellation it causes: an
\* end is called intentional only if the application asked or the send task
\* panicked, whatever the order in which the two tasks and the application act.
THEOREM CauseIsKept == Spec => []CauseKept
<1>1. IInv => CauseKept
  BY CauseFollows DEF IInv
<1>2. QED
  BY <1>1, Invariance, PTL

\* A stream that ends by a failed read has had all its packets handed on, and
\* they are announced before its end.
THEOREM DeliveredFirst == Spec => []DeliveredBeforeEnd
<1>1. IInv => DeliveredBeforeEnd
  BY DeliveredFollows DEF IInv
<1>2. QED
  BY <1>1, Invariance, PTL

\* Each datagram read is held, queued, taken, delivered, or counted as dropped
\* on its own connection, whoever evicted it.
THEOREM EveryDatagramAccounted == Spec => []PacketsAccounted
<1>1. IInv => PacketsAccounted
  BY DEF IInv, EndpointInv
<1>2. QED
  BY <1>1, Invariance, PTL

\* A datagram that may not be presented yet belongs to a connection whose
\* announcement is on its way: the queue is never blocked for good.
THEOREM QueueNeverBlocked == Spec => []NeverBlocked
<1>1. IInv => NeverBlocked
  BY NeverBlockedFollows DEF IInv
<1>2. QED
  BY <1>1, Invariance, PTL

\* The client implements ConnectionLifecycle: to the application each
\* connection is announced, served in order and ended, once each, and the
\* registry lists the ones in between.
THEOREM LifecycleKept == Spec => KeepsLifecycle
<1>1. Init => Lifecycle!Init
  BY LifecycleStarts DEF Init
<1>2. IInv /\ IInv' /\ [Next]_vars => [Lifecycle!Next]_(Lifecycle!vars)
  <2>1. SUFFICES ASSUME IInv, IInv', [Next]_vars
                 PROVE  Lifecycle!Next \/ UNCHANGED Lifecycle!vars
    OBVIOUS
  <2>2. EndpointNext
    BY <2>1, ClientSteps DEF IInv, EndpointInv
  <2>3. QED
    BY <2>1, <2>2, LifecycleSteps DEF IInv
<1>3. QED
  BY <1>1, <1>2, Invariance, PTL DEF Spec, KeepsLifecycle, Lifecycle!Spec
=============================================================================
