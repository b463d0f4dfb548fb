--------------------------- MODULE ServerEndpoint ---------------------------
(***************************************************************************)
(* The server plugin (src/src/server.rs): the accept loop with its bounded *)
(* number of pending connections, one establishing task per accepted       *)
(* stream, the setup task, the two tasks of each connection and the ECS    *)
(* systems.  All but the first and the report to the listener at the end   *)
(* is in Endpoint.                                                         *)
(***************************************************************************)
EXTENDS Endpoint

CONSTANT ListenerFails   \* the listener may fail for good

ASSUME ServerAssumption == ListenerFails \in BOOLEAN

VARIABLES
    accepting,    \* the accept loop runs
    disconnects   \* addresses in the channel to the accept loop

vars == <<endpoint, accepting, disconnects>>
server == <<accepting, disconnects>>

TypeOK ==
    /\ EndpointTypeOK /\ ChannelsBounded
    /\ accepting \in BOOLEAN
    /\ disconnects \in 0..Capacity

Init ==
    /\ EndpointInit
    /\ accepting = TRUE
    /\ disconnects = 0

-----------------------------------------------------------------------------
(* accept_connections                                                      *)

\* Establishing tasks that hold a permit of `pending'.
Pending == {c \in Connections : stage[c] \in {"announcing", "handing"}}

Accepted(c, to) ==
    /\ accepting
    /\ Goto(c, "new", to)
    /\ UNCHANGED <<writer, cancelled, send_error, cause, received, channels,
                   dropped, ecs, asked, server>>

Accept(c) == Cardinality(Pending) < Capacity /\ Accepted(c, "announcing")

\* No permit: the stream is dropped.
Refuse(c) == Cardinality(Pending) >= Capacity /\ Accepted(c, "refused")

\* listener.handle_disconnection does nothing for the built-in protocols.
HandleDisconnection ==
    /\ accepting /\ disconnects > 0
    /\ disconnects' = disconnects - 1
    /\ UNCHANGED <<endpoint, accepting>>

\* The listener failed for good: the loop ends and its channel closes.
AcceptFails ==
    /\ ListenerFails
    /\ accepting
    /\ accepting' = FALSE
    /\ disconnects' = 0
    /\ UNCHANGED endpoint

-----------------------------------------------------------------------------
(* The end of receive_packets                                              *)

Closed(c) == SendClosed(c, "closing", "reporting")

\* Mutant of Report: the channel to the listener is unbounded.
ReportAnyway(c) ==
    /\ Goto(c, "reporting", "done")
    /\ disconnects' = IF accepting THEN disconnects + 1 ELSE disconnects
    /\ UNCHANGED <<writer, cancelled, send_error, cause, received, channels,
                   dropped, ecs, asked, accepting>>

\* disconnect_sender.send: waits for room, fails at once without a receiver
Report(c) ==
    /\ Goto(c, "reporting", "done")
    /\ \/ accepting /\ disconnects < Capacity /\ disconnects' = disconnects + 1
       \/ ~accepting /\ UNCHANGED disconnects
    /\ UNCHANGED <<writer, cancelled, send_error, cause, received, channels,
                   dropped, ecs, asked, accepting>>

-----------------------------------------------------------------------------
(* The tasks of a connection and the systems, as server.rs groups them.    *)

Establish(c) == (SendEstablished(c) \/ SendTransport(c)) /\ UNCHANGED server

ProcessConnections == TakeTransport /\ UNCHANGED server

Run(c) == (SplitEnds(c) \/ SplitReported(c)) /\ UNCHANGED server

ReceivePackets(c) ==
    \/ (ReceiveTask(c) \/ Closed(c)) /\ UNCHANGED server
    \/ Report(c)

IncomingSystem ==
    (IncomingLoop \/ ApplyEstablished \/ ApplyClosed) /\ UNCHANGED server

ReceiveDatagramPackets == DatagramSystem /\ UNCHANGED server

Next ==
    \/ \E c \in Connections :
          \/ Accept(c) \/ Refuse(c) \/ Establish(c) \/ Run(c)
          \/ ReceivePackets(c)
          \/ /\ Transport(c) \/ SendTask(c) \/ AppDisconnects(c)
             /\ UNCHANGED server
    \/ ProcessConnections
    \/ IncomingSystem \/ ReceiveDatagramPackets
    \/ HandleDisconnection
    \/ AcceptFails

Spec == Init /\ [][Next]_vars

(***************************************************************************)
(* Tokio polls every task that is ready, into_split() ends, and the        *)
(* schedule runs frame after frame with a budget that is not zero.         *)
(* Nothing forces a transport to yield a packet or an error, a listener to *)
(* fail or an application to disconnect.                                   *)
(***************************************************************************)
Fairness ==
    /\ WF_vars(IncomingSystem \/ ReceiveDatagramPackets)
    /\ WF_vars(ProcessConnections)
    /\ WF_vars(HandleDisconnection)
    /\ \A c \in Connections :
          /\ WF_vars(Establish(c) \/ Run(c) \/ ReceivePackets(c))
          /\ WF_vars(WriterExits(c) /\ UNCHANGED server)

FairSpec == Spec /\ Fairness
=============================================================================
