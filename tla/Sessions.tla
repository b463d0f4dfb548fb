------------------------------ MODULE Sessions ------------------------------
(***************************************************************************)
(* The application protocol of src/examples/udp_application_sessions:      *)
(* logical sessions over one UDP peer that may lose, repeat and reorder    *)
(* packets.  The client opens a session on each channel, replaces it by a  *)
(* second generation, echoes data and closes it, repeating each request    *)
(* until it is answered; the server keeps a record of every channel and    *)
(* lets idle sessions and idle peers expire.                               *)
(*                                                                         *)
(* client_sessions draws one identifier for each channel and generation,   *)
(* so a packet is told apart by these two and its body.  The network holds *)
(* the set of packets that may still arrive: delivery leaves a packet in   *)
(* it, and Lose takes one out.  Instants are ages, up to the timeout that  *)
(* they are compared with.                                                 *)
(***************************************************************************)
EXTENDS Naturals, FiniteSetsExt

CONSTANTS
    Channels,   \* of the client's requests, at most eight
    Retry,      \* RETRY
    Idle        \* IDLE

ASSUME SessionsAssumption == Retry \in Nat /\ Idle \in Nat

VARIABLES
    entries,    \* Sessions.entries; generation 0 is a channel without entry
    known,      \* ServerSessions.peers has the client's address
    created,    \* age of Peer.created
    live,       \* the library has a server connection for the address
    link,       \* the client's connection: "none", "requested", "ready"
    phase,      \* Request.phase
    lastSent,   \* age of Request.last_sent; None counts as Retry
    toServer,   \* packets on their way
    toClient,
    late,       \* DEADLINE has passed
    exit        \* AppExit: "no", "success", "error"

server == <<entries, known, created, live>>
client == <<link, phase, lastSent>>
network == <<toServer, toClient>>
vars == <<server, client, network, late, exit>>

Bodies == {"Hello", "Welcome", "Data", "Close"}
Phases == {"Initial", "Replacement", "Echo", "Closing", "Done"}
Packet == [channel : Channels, generation : 1..2, body : Bodies]

TypeOK ==
    /\ entries \in [Channels -> [generation : 0..2, idle : 0..Idle, active : BOOLEAN]]
    /\ known \in BOOLEAN /\ created \in 0..Idle /\ live \in BOOLEAN
    /\ link \in {"none", "requested", "ready"}
    /\ phase \in [Channels -> Phases]
    /\ lastSent \in [Channels -> 0..Retry]
    /\ toServer \subseteq Packet /\ toClient \subseteq Packet
    /\ late \in BOOLEAN
    /\ exit \in {"no", "success", "error"}

NoEntry == [generation |-> 0, idle |-> 0, active |-> FALSE]

Init ==
    /\ entries = [c \in Channels |-> NoEntry]
    /\ known = FALSE /\ created = 0 /\ live = FALSE
    /\ link = "none"
    /\ phase = [c \in Channels |-> "Initial"]
    /\ lastSent = [c \in Channels |-> Retry]
    /\ toServer = {} /\ toClient = {}
    /\ late = FALSE /\ exit = "no"

-----------------------------------------------------------------------------
(* The server                                                              *)

\* new_peer: the transport publishes a new connection for the address.
NewPeer ==
    /\ live' = TRUE
    /\ known' = TRUE
    /\ created' = IF live THEN created ELSE 0

\* The datagram that the connection was made for is malformed or is evicted.
NewPeerOnly ==
    /\ exit = "no"
    /\ ~live
    /\ toServer # {}
    /\ NewPeer
    /\ UNCHANGED <<entries, client, network, late, exit>>

Refreshed(e, age) == [e EXCEPT !.idle = Min({e.idle, age})]

Reply(e, p, body) == [entry |-> e, reply |-> {[p EXCEPT !.body = body]}]
NoReply(e) == [entry |-> e, reply |-> {}]

HandleHello(e, p, age) ==
    CASE p.generation < e.generation -> NoReply(e)
      [] p.generation = e.generation /\ ~e.active -> NoReply(e)
      [] p.generation = e.generation /\ e.active -> Reply(Refreshed(e, age), p, "Welcome")
      [] OTHER -> Reply([generation |-> p.generation, idle |-> age, active |-> TRUE],
                        p, "Welcome")

\* Mutant of HandleInactive: the acknowledgement of Close is not repeated.
HandleInactiveSilently(e, p) == NoReply(e)

\* Repeats the acknowledgement of Close, without resurrecting the session.
HandleInactive(e, p) ==
    IF p.body = "Close" THEN Reply(e, p, "Close") ELSE NoReply(e)

\* Sessions::handle of a packet that was received age ago
Handle(e, p, age) ==
    CASE p.body = "Hello" -> HandleHello(e, p, age)
      [] p.body # "Hello" /\ p.generation # e.generation -> NoReply(e)
      [] p.body # "Hello" /\ p.generation = e.generation /\ ~e.active -> HandleInactive(e, p)
      [] p.body = "Data" /\ p.generation = e.generation /\ e.active ->
             Reply(Refreshed(e, age), p, "Data")
      [] p.body = "Close" /\ p.generation = e.generation /\ e.active ->
             Reply([e EXCEPT !.active = FALSE], p, "Close")
      [] p.body = "Welcome" /\ p.generation = e.generation /\ e.active -> NoReply(e)

\* server_packet, for a new connection after new_peer; the packet may have
\* waited in the receive queue
ServerPacket(p) ==
    /\ exit = "no"
    /\ p \in toServer
    /\ NewPeer
    /\ \E age \in 0..Idle :
         LET handled == Handle(entries[p.channel], p, age)
         IN  /\ entries' = [entries EXCEPT ![p.channel] = handled.entry]
             /\ toClient' = toClient \cup handled.reply
    /\ UNCHANGED <<client, toServer, late, exit>>

\* Sessions::expire
Expire(e) == [e EXCEPT !.active = e.active /\ e.idle < Idle]

\* Mutant of Retain: an idle peer is forgotten with its records.
RetainNothing(records) == FALSE

\* Only a peer without replay history is removed.
Retain(records) == \E c \in Channels : records[c].generation # 0

\* expire_peers, in every Update
ExpirePeers ==
    LET expired == [c \in Channels |-> Expire(entries[c])]
        idle == (\A c \in Channels : ~expired[c].active) /\ created >= Idle
    IN  /\ exit = "no"
        /\ known
        /\ live' = (live /\ ~idle)
        /\ known' = (idle => Retain(expired))
        /\ entries' = IF known' THEN expired ELSE [c \in Channels |-> NoEntry]
        /\ UNCHANGED <<created, client, network, late, exit>>

-----------------------------------------------------------------------------
(* The client                                                              *)

\* ready: the connection that request_connection asked for is established.
Ready ==
    /\ exit = "no"
    /\ link = "requested"
    /\ link' = "ready"
    /\ UNCHANGED <<server, phase, lastSent, network, late, exit>>

\* Request::outgoing
Outgoing(c) ==
    CASE phase[c] = "Initial"     -> {[channel |-> c, generation |-> 1, body |-> "Hello"]}
      [] phase[c] = "Replacement" -> {[channel |-> c, generation |-> 2, body |-> "Hello"]}
      [] phase[c] = "Echo"        -> {[channel |-> c, generation |-> 2, body |-> "Data"]}
      [] phase[c] = "Closing"     -> {[channel |-> c, generation |-> 2, body |-> "Close"]}
      [] phase[c] = "Done"        -> {}

Due == {c \in Channels : lastSent[c] >= Retry /\ Outgoing(c) # {}}

DriveClient ==
    LET due == IF link = "ready" THEN Due ELSE {}
    IN  /\ toServer' = toServer \cup UNION {Outgoing(c) : c \in due}
        /\ lastSent' = [c \in Channels |-> IF c \in due THEN 0 ELSE lastSent[c]]

AllDone == \A c \in Channels : phase[c] = "Done"

FinishDemo ==
    exit' = CASE link = "ready" /\ AllDone -> "success"
              [] late /\ ~(link = "ready" /\ AllDone) -> "error"
              [] OTHER -> "no"

\* The chain of an Update: request_connection, drive_client, finish_demo
Update ==
    /\ exit = "no"
    /\ link' = IF link = "none" THEN "requested" ELSE link
    /\ DriveClient
    /\ FinishDemo
    /\ UNCHANGED <<server, phase, toClient, late>>

\* Request::matches
Matches(p) == p.generation = IF phase[p.channel] = "Initial" THEN 1 ELSE 2

\* The phase that an answer leads to
Answers == [Initial |-> "Welcome", Replacement |-> "Welcome", Echo |-> "Data",
            Closing |-> "Close"]
After == [Initial |-> "Replacement", Replacement |-> "Echo", Echo |-> "Closing",
          Closing |-> "Done"]

\* client_packet
ClientPacket(p) ==
    LET now == phase[p.channel]
    IN  /\ exit = "no"
        /\ p \in toClient
        /\ Matches(p)
        /\ now # "Done" /\ p.body = Answers[now]
        /\ phase' = [phase EXCEPT ![p.channel] = After[now]]
        /\ lastSent' = [lastSent EXCEPT ![p.channel] = Retry]
        /\ UNCHANGED <<server, link, network, late, exit>>

-----------------------------------------------------------------------------
(* The network and time, external                                          *)

Lose ==
    /\ exit = "no"
    /\ \/ \E p \in toServer : toServer' = toServer \ {p} /\ UNCHANGED toClient
       \/ \E p \in toClient : toClient' = toClient \ {p} /\ UNCHANGED toServer
    /\ UNCHANGED <<server, client, late, exit>>

Tick ==
    /\ exit = "no"
    /\ entries' = [c \in Channels |->
                     [entries[c] EXCEPT !.idle = Min({Idle, entries[c].idle + 1})]]
    /\ created' = Min({Idle, created + 1})
    /\ lastSent' = [c \in Channels |-> Min({Retry, lastSent[c] + 1})]
    /\ UNCHANGED <<known, live, link, phase, network, late, exit>>

Deadline ==
    /\ exit = "no"
    /\ late' = TRUE
    /\ UNCHANGED <<server, client, network, exit>>

Next ==
    \/ NewPeerOnly \/ ExpirePeers \/ Ready \/ Update \/ Lose \/ Tick \/ Deadline
    \/ \E p \in toServer : ServerPacket(p)
    \/ \E p \in toClient : ClientPacket(p)

\* The packets of one direction, Hello or Welcome being of both generations
Exchanged(opening) ==
    {p \in Packet : p.body = opening \/ (p.generation = 2 /\ p.body \in {"Data", "Close"})}

\* Bevy updates the app in a loop and time passes.  The network delivers a
\* packet that is sent again and again, before it has become stale.
Fairness ==
    /\ WF_vars(Update) /\ WF_vars(Ready) /\ WF_vars(Tick)
    /\ \A p \in Exchanged("Hello") : SF_vars(ServerPacket(p))
    /\ \A p \in Exchanged("Welcome") : SF_vars(ClientPacket(p))

Spec == Init /\ [][Next]_vars
FairSpec == Spec /\ Fairness

-----------------------------------------------------------------------------
(* Properties                                                              *)

\* Whatever the network loses, repeats or delays: once the client's second
\* session was welcomed, the server's record of the channel is of that
\* generation and never falls back, and once its Close was acknowledged the
\* session stays closed, although a late Hello of it may still arrive.
SessionsAgree ==
    \A c \in Channels :
        /\ phase[c] \in {"Echo", "Closing", "Done"} => entries[c].generation = 2
        /\ phase[c] = "Done" => ~entries[c].active

\* The session that a request is about is over on the server while the
\* client still counts on it.
Starved(c) ==
    /\ phase[c] \in {"Initial", "Replacement", "Echo"}
    /\ entries[c].generation = (IF phase[c] = "Initial" THEN 1 ELSE 2)
    /\ ~entries[c].active

\* Retries overcome any loss: the demo succeeds unless the deadline passes
\* or the network starves a session so long that the server lets it expire.
DemoSucceeds ==
    <>(exit = "success" \/ late \/ \E c \in Channels : Starved(c))

=============================================================================
