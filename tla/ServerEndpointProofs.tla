------------------------ MODULE ServerEndpointProofs ------------------------
(***************************************************************************)
(* The server plugin: what EndpointProofs shows of the tasks and systems   *)
(* holds whatever the accept loop does and however the listener ends.      *)
(***************************************************************************)
EXTENDS ServerEndpoint, EndpointProofs

\* The server's own steps are steps of Endpoint, or leave it alone.
LEMMA ServerSteps ==
    ASSUME EndpointTypeOK, [Next]_vars
    PROVE  EndpointNext
<1>1. ASSUME NEW c \in Connections, Accept(c) \/ Refuse(c) \/ Report(c)
      PROVE  Arrange
  <2>1. PICK from \in {"new", "reporting"}, to \in Unannounced \cup {"done"} :
           /\ Goto(c, from, to)
           /\ from = "new" => to \in Unannounced
           /\ from = "reporting" => to = "done"
    BY <1>1 DEF Accept, Refuse, Report, Accepted, Unannounced
  <2>2. /\ stage \in [Connections -> Stages] /\ to \in Stages
        /\ stage[c] = from /\ stage' = [stage EXCEPT ![c] = to]
    BY <2>1 DEF EndpointTypeOK, Unannounced, Stages, Goto
  <2>3. stage' \in [Connections -> Stages] /\ stage'[c] = to
        /\ \A d \in Connections : d # c => stage'[d] = stage[d]
    BY <2>2
  <2>4. UNCHANGED <<writer, cancelled, send_error, cause, received, channels, dropped, ecs, asked>>
    BY <1>1 DEF Accept, Refuse, Report, Accepted
  <2>5. QED
    BY <2>1, <2>2, <2>3, <2>4 DEF Arrange
<1>2. ASSUME NEW c \in Connections, Establish(c) \/ Run(c)
      PROVE  ConnectionStep(c)
  BY <1>2 DEF Establish, Run, ConnectionStep, SendsClosed
<1>3. ASSUME NEW c \in Connections, ReceivePackets(c), ~Report(c)
      PROVE  ConnectionStep(c)
  BY <1>3 DEF ReceivePackets, Closed, ConnectionStep, SendsClosed
<1>4. ASSUME NEW c \in Connections, Transport(c) \/ SendTask(c) \/ AppDisconnects(c)
      PROVE  ConnectionStep(c)
  BY <1>4 DEF ConnectionStep
<1>5. CASE ProcessConnections
  BY <1>5 DEF ProcessConnections, EndpointNext
<1>6. CASE IncomingSystem \/ ReceiveDatagramPackets
  BY <1>6 DEF IncomingSystem, ReceiveDatagramPackets, EndpointNext, SystemStep
<1>7. CASE HandleDisconnection \/ AcceptFails \/ UNCHANGED vars
  BY <1>7 DEF HandleDisconnection, AcceptFails, vars, EndpointNext
<1>8. QED
  BY <1>1, <1>2, <1>3, <1>4, <1>5, <1>6, <1>7 DEF Next, EndpointNext

\* The channel to the accept loop holds what it can.
ReportsInv == accepting \in BOOLEAN /\ disconnects \in 0..Capacity

LEMMA ReportsKept ==
    ASSUME ReportsInv, [Next]_vars
    PROVE  ReportsInv'
<1> USE CapacityPositive DEF ReportsInv
<1>1. CASE UNCHANGED server
  BY <1>1 DEF server
<1>2. CASE HandleDisconnection
  <2>1. disconnects > 0 /\ disconnects' = disconnects - 1 /\ UNCHANGED accepting
    BY <1>2 DEF HandleDisconnection
  <2>2. disconnects' \in 0..Capacity
    BY <2>1
  <2>3. QED
    BY <2>1, <2>2
<1>3. CASE AcceptFails
  <2>1. accepting' = FALSE /\ disconnects' = 0
    BY <1>3 DEF AcceptFails
  <2>2. disconnects' \in 0..Capacity
    BY <2>1
  <2>3. QED
    BY <2>1, <2>2
<1>4. ASSUME NEW c \in Connections, Report(c)
      PROVE  ReportsInv'
  BY <1>4 DEF Report
<1>5. ASSUME NEW c \in Connections, Accept(c) \/ Refuse(c)
      PROVE  UNCHANGED server
  BY <1>5 DEF Accept, Refuse, Accepted
<1>6. ASSUME NEW c \in Connections, Establish(c) \/ Run(c) \/ (ReceivePackets(c) /\ ~Report(c))
      PROVE  UNCHANGED server
  BY <1>6 DEF Establish, Run, ReceivePackets
<1>7. ProcessConnections \/ IncomingSystem \/ ReceiveDatagramPackets => UNCHANGED server
  BY DEF ProcessConnections, IncomingSystem, ReceiveDatagramPackets
<1>8. UNCHANGED vars => UNCHANGED server
  BY DEF vars, server
<1>9. QED
  BY <1>1, <1>2, <1>3, <1>4, <1>5, <1>6, <1>7, <1>8 DEF Next

\* The inductive invariant: no announcement, packet, end or drop count of a
\* connection goes wrong, for any number of connections that compete for the
\* channels, and the accept loop's channel never overflows.
IInv == EndpointInv /\ ReportsInv

\* setup and every later step keep the invariant, for any number of accepted
\* streams, failures of the listener, packets and places in the channels.
THEOREM Invariance == Spec => []IInv
<1>1. Init => IInv
  BY EndpointStarts, CapacityPositive DEF Init, IInv, ReportsInv
<1>2. IInv /\ [Next]_vars => IInv'
  <2>1. SUFFICES ASSUME IInv, [Next]_vars
                 PROVE  IInv'
    OBVIOUS
  <2>2. EndpointInv'
    BY <2>1, ServerSteps, EndpointKeeps DEF IInv, EndpointInv
  <2>3. ReportsInv'
    BY <2>1, ReportsKept DEF IInv
  <2>4. QED
    BY <2>2, <2>3 DEF IInv
<1>3. QED
  BY <1>1, <1>2, PTL DEF Spec

\* Every variable of the server keeps its type, and none of its channels ever
\* holds more than it was created for: the one to the accept loop, the one to
\* the setup task, the one to the systems and the datagram queue.
THEOREM TypeCorrect == Spec => []TypeOK
<1>1. IInv => TypeOK
  BY DEF IInv, EndpointInv, ReportsInv, TypeOK
<1>2. QED
  BY <1>1, Invariance, PTL

\* The error of a failed write is never lost to the cancellation it causes: an
\* end is called intentional only if the application asked or the send task
\* panicked, whatever the order in which the two tasks and the application act.
THEOREM CauseIsKept == Spec => []CauseKept
<1>1. IInv => CauseKept
  BY CauseFollows DEF IInv
<1>2. QED
  BY <1>1, Invariance, PTL

\* A stream that ends by a failed read has had all its packets handed on, and
\* they are announced before its end.
THEOREM DeliveredFirst == Spec => []DeliveredBeforeEnd
<1>1. IInv => DeliveredBeforeEnd
  BY DeliveredFollows DEF IInv
<1>2. QED
  BY <1>1, Invariance, PTL

\* Each datagram read is held, queued, taken, delivered, or counted as dropped
\* on its own connection, whoever evicted it.
THEOREM EveryDatagramAccounted == Spec => []PacketsAccounted
<1>1. IInv => PacketsAccounted
  BY DEF IInv, EndpointInv
<1>2. QED
  BY <1>1, Invariance, PTL

\* A datagram that may not be presented yet belongs to a connection whose
\* announcement is on its way: the queue is never blocked for good.
THEOREM QueueNeverBlocked == Spec => []NeverBlocked
<1>1. IInv => NeverBlocked
  BY NeverBlockedFollows DEF IInv
<1>2. QED
  BY <1>1, Invariance, PTL

\* The server implements ConnectionLifecycle: to the application each
\* connection is announced, served in order and ended, once each, and the
\* registry lists the ones in between.
THEOREM LifecycleKept == Spec => KeepsLifecycle
<1>1. Init => Lifecycle!Init
  BY LifecycleStarts DEF Init
<1>2. IInv /\ IInv' /\ [Next]_vars => [Lifecycle!Next]_(Lifecycle!vars)
  <2>1. SUFFICES ASSUME IInv, IInv', [Next]_vars
                 PROVE  Lifecycle!Next \/ UNCHANGED Lifecycle!vars
    OBVIOUS
  <2>2. EndpointNext
    BY <2>1, ServerSteps DEF IInv, EndpointInv
  <2>3. QED
    BY <2>1, <2>2, LifecycleSteps DEF IInv
<1>3. QED
  BY <1>1, <1>2, Invariance, PTL DEF Spec, KeepsLifecycle, Lifecycle!Spec
=============================================================================
