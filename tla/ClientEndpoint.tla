--------------------------- MODULE ClientEndpoint ---------------------------
(***************************************************************************)
(* The client plugin (src/src/client.rs): requests to connect, the task    *)
(* that makes the attempts and publishes their results one at a time, and  *)
(* the resource that holds the current connection.  The rest is shared     *)
(* with the server and is in Endpoint.                                     *)
(*                                                                         *)
(* A member of Connections is one request, and the connection it may lead  *)
(* to.  connect_to_server() of the built-in protocols is external: it ends *)
(* either way.                                                             *)
(***************************************************************************)
EXTENDS Endpoint

CONSTANTS
    MaxAttempts,   \* MAX_CONNECTION_ATTEMPTS
    NoConnection   \* no resource of type ClientConnection

ASSUME ClientAssumption ==
    /\ MaxAttempts \in Nat \ {0}
    /\ NoConnection \notin Connections

VARIABLES
    requests,   \* ConnectionRequestSender's channel
    serving,    \* process_connection_requests runs
    failed,     \* the application was told that the attempt failed
    current     \* the resource ClientConnection

client == <<requests, serving, failed, current>>
vars == <<endpoint, client>>

TypeOK ==
    /\ EndpointTypeOK /\ ChannelsBounded
    /\ requests \in Seq(Connections) /\ Len(requests) <= Capacity
    /\ serving \in BOOLEAN
    /\ failed \in [Connections -> BOOLEAN]
    /\ current \in Connections \cup {NoConnection}

\* setup
Init ==
    /\ EndpointInit
    /\ requests = << >>
    /\ serving = TRUE
    /\ failed = Never
    /\ current = NoConnection

-----------------------------------------------------------------------------
(* A request, and the task that serves requests.                           *)

\* Mutant of Observe: a full channel is only logged.
ObserveSilently(c) ==
    /\ IF serving /\ Room(requests)
       THEN /\ Goto(c, "new", "requested")
            /\ requests' = Append(requests, c)
       ELSE Goto(c, "new", "refused") /\ UNCHANGED requests
    /\ UNCHANGED <<writer, cancelled, send_error, cause, received, channels,
                   dropped, ecs, asked, serving, failed, current>>

\* ConnectionRequestSender::observe never waits: a request is queued or is
\* answered at once.
Observe(c) ==
    /\ IF serving /\ Room(requests)
       THEN /\ Goto(c, "new", "requested")
            /\ requests' = Append(requests, c)
            /\ UNCHANGED failed
       ELSE /\ Goto(c, "new", "refused")
            /\ failed' = [failed EXCEPT ![c] = TRUE]
            /\ UNCHANGED requests
    /\ UNCHANGED <<writer, cancelled, send_error, cause, received, channels,
                   dropped, ecs, asked, serving, current>>

\* The loop polls requests and attempts only while no result is published.
Polling ==
    serving /\ \A c \in Connections :
                  stage[c] \notin {"announcing", "handing", "declining"}

Attempts == {c \in Connections : stage[c] = "connecting"}

\* buffer_unordered takes the next request while an attempt may be added.
TakeRequest ==
    /\ Polling
    /\ requests # << >>
    /\ Cardinality(Attempts) < MaxAttempts
    /\ Goto(Head(requests), "requested", "connecting")
    /\ requests' = Tail(requests)
    /\ UNCHANGED <<writer, cancelled, send_error, cause, received, channels,
                   dropped, ecs, asked, serving, failed, current>>

\* build_serializer, supplied by the application, panics: the task is gone,
\* with the requests and the attempts it had.
RequestPanics ==
    /\ Panics
    /\ Polling
    /\ requests # << >>
    /\ Cardinality(Attempts) < MaxAttempts
    /\ serving' = FALSE
    /\ requests' = << >>
    /\ stage' = [c \in Connections |->
                   IF stage[c] \in {"requested", "connecting"}
                   THEN "lost" ELSE stage[c]]
    /\ UNCHANGED <<writer, cancelled, send_error, cause, received, channels,
                   dropped, ecs, asked, failed, current>>

\* create_connection ends, and publish() begins.
CreateConnection(c) ==
    /\ Polling
    /\ Goto(c, "connecting", "announcing") \/ Goto(c, "connecting", "declining")
    /\ UNCHANGED <<writer, cancelled, send_error, cause, received, channels,
                   dropped, ecs, asked, client>>

\* publish() of a failed attempt: Closed without an id
Decline(c) ==
    /\ Goto(c, "declining", "refused")
    /\ Room(incoming)
    /\ incoming' = Append(incoming, Message("declined", c, 0))
    /\ UNCHANGED <<writer, cancelled, send_error, cause, received, transports,
                   datagrams, dropped, ecs, asked, client>>

Publish(c) ==
    \/ (SendEstablished(c) \/ SendTransport(c)) /\ UNCHANGED client
    \/ Decline(c)

-----------------------------------------------------------------------------
(* The tasks of a connection, as in the server but for the listener.       *)

ProcessConnections == TakeTransport /\ UNCHANGED client

Run(c) == (SplitEnds(c) \/ SplitReported(c)) /\ UNCHANGED client

ReceivePackets(c) ==
    (ReceiveTask(c) \/ SendClosed(c, "closing", "done")) /\ UNCHANGED client

-----------------------------------------------------------------------------
(* The systems                                                             *)

PublishEstablished ==
    /\ ApplyEstablished
    /\ current' = Head(commands).conn
    /\ UNCHANGED <<requests, serving, failed>>

\* Mutant of Fallback: the resource changes only when its own connection ends.
FallbackIfOwn ==
    IF current # Head(commands).conn THEN current
    ELSE IF registry' = << >> THEN NoConnection ELSE registry'[1]

\* The registry's last connection, if one is left
Fallback ==
    IF registry' = << >> THEN NoConnection ELSE registry'[Len(registry')]

PublishClosed ==
    /\ ApplyClosed
    /\ current' = Fallback
    /\ UNCHANGED <<requests, serving, failed>>

\* Closed without an id: no registry change
PublishDeclined ==
    /\ Applies("declined")
    /\ failed' = [failed EXCEPT ![Head(commands).conn] = TRUE]
    /\ UNCHANGED <<dropped, published, registry, ended, last, delivered,
                   requests, serving, current>>

IncomingSystem ==
    \/ IncomingLoop /\ UNCHANGED client
    \/ PublishEstablished \/ PublishClosed \/ PublishDeclined

ReceiveDatagramPackets == DatagramSystem /\ UNCHANGED client

-----------------------------------------------------------------------------
Next ==
    \/ \E c \in Connections :
          \/ Observe(c) \/ CreateConnection(c) \/ Publish(c)
          \/ Run(c) \/ ReceivePackets(c)
          \/ /\ Transport(c) \/ SendTask(c) \/ AppDisconnects(c)
             /\ UNCHANGED client
    \/ TakeRequest \/ RequestPanics
    \/ ProcessConnections
    \/ IncomingSystem \/ ReceiveDatagramPackets

Spec == Init /\ [][Next]_vars

(***************************************************************************)
(* As for the server: tasks that are ready are polled, connect_to_server() *)
(* and into_split() end, frames follow frames.                             *)
(***************************************************************************)
Fairness ==
    /\ WF_vars(IncomingSystem \/ ReceiveDatagramPackets)
    /\ WF_vars(ProcessConnections)
    /\ WF_vars(TakeRequest)
    /\ \A c \in Connections :
          /\ WF_vars(CreateConnection(c) \/ Publish(c) \/ Run(c)
                        \/ ReceivePackets(c))
          /\ WF_vars(WriterExits(c) /\ UNCHANGED client)

FairSpec == Spec /\ Fairness

-----------------------------------------------------------------------------
\* Answers to a request that the application has, or that are on their way.
Answers(c) ==
    (IF failed[c] THEN 1 ELSE 0) + (IF published[c] THEN 1 ELSE 0)
    + Cardinality({i \in DOMAIN Pipeline :
                     /\ Pipeline[i].conn = c
                     /\ Pipeline[i].type \in {"established", "declined"}})

\* publish() and observe() give each request exactly one answer: it is queued
\* by the time the loop goes on to the next attempt, and no request is told
\* that it failed after it was told that it succeeded.
AnsweredOnce ==
    \A c \in Connections :
        Answers(c) = IF stage[c] \in {"new", "requested", "connecting", "lost",
                                      "announcing", "declining"}
                     THEN 0 ELSE 1

\* However connections are established and closed, in whatever order, the
\* resource ClientConnection is the youngest connection of ClientConnections
\* and is absent exactly when there is none: never one whose end was announced.
CurrentIsLatest ==
    current = IF registry = << >> THEN NoConnection ELSE registry[Len(registry)]

\* Every request is answered, though attempts share their slots, results are
\* published one at a time and wait for room that only frames make, and other
\* connections fill the same channel.  Only a panic of the request task
\* leaves a request without an answer.
RequestsAnswered ==
    \A c \in Connections :
        stage[c] = "requested" ~> published[c] \/ failed[c] \/ stage[c] = "lost"
=============================================================================
