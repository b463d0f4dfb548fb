--------------------------- MODULE SessionsProofs ---------------------------
(***************************************************************************)
(* Proofs about the application sessions, for every set of channels and    *)
(* whatever the network loses, repeats or delays.                          *)
(***************************************************************************)
EXTENDS Sessions, TLAPS

\* What the client may still be told is no newer than the server's record,
\* and a Close of the second session is acknowledged only when it is over.
RepliesInv ==
    \A p \in toClient :
        /\ entries[p.channel].generation >= p.generation
        /\ p.body = "Close" /\ p.generation = 2 => ~entries[p.channel].active

IInv == TypeOK /\ RepliesInv /\ SessionsAgree

Entry == [generation : 0..2, idle : 0..Idle, active : BOOLEAN]

-----------------------------------------------------------------------------
\* An age is capped by what it is compared with.
LEMMA MinType ==
    ASSUME NEW m \in Nat, NEW a \in Nat, NEW b \in 0..m
    PROVE  Min({a, b}) \in 0..m /\ Min({b, a}) \in 0..m
<1>1. CASE a <= b
  BY <1>1 DEF Min
<1>2. CASE b <= a
  BY <1>2 DEF Min
<1>3. QED
  BY <1>1, <1>2

\* No packet, of whatever generation and however late, makes the server's
\* record fall back or a closed second session active again; an answer is of
\* the record's own generation, and an answer to Close ends the session.
LEMMA HandleForward ==
    ASSUME NEW e \in Entry, NEW p \in Packet, NEW age \in 0..Idle
    PROVE  LET handled == Handle(e, p, age)
           IN  /\ handled.entry \in Entry
               /\ handled.entry.generation >= e.generation
               /\ e.generation = 2 /\ ~e.active => ~handled.entry.active
               /\ handled.reply \subseteq Packet
               /\ \A r \in handled.reply :
                     /\ r.channel = p.channel
                     /\ r.generation = handled.entry.generation
                     /\ r.body = "Close" => ~handled.entry.active
<1> DEFINE handled == Handle(e, p, age)
           Forward(h) == /\ h.entry \in Entry
                         /\ h.entry.generation >= e.generation
                         /\ e.generation = 2 /\ ~e.active => ~h.entry.active
                         /\ h.reply \subseteq Packet
                         /\ \A r \in h.reply :
                               /\ r.channel = p.channel
                               /\ r.generation = h.entry.generation
                               /\ r.body = "Close" => ~h.entry.active
<1> USE SessionsAssumption
<1>1. /\ e.generation \in 0..2 /\ e.idle \in 0..Idle /\ e.active \in BOOLEAN
      /\ p.generation \in 1..2 /\ p.body \in Bodies /\ p.channel \in Channels
  BY DEF Entry, Packet
<1>2. Refreshed(e, age) \in Entry /\ Refreshed(e, age).generation = e.generation
      /\ Refreshed(e, age).active = e.active
  <2>1. Min({e.idle, age}) \in 0..Idle
    BY <1>1, MinType
  <2>2. QED
    BY <1>1, <2>1 DEF Refreshed, Entry
<1>3. ASSUME NEW b \in Bodies
      PROVE  /\ [p EXCEPT !.body = b] \in Packet
             /\ [p EXCEPT !.body = b].channel = p.channel
             /\ [p EXCEPT !.body = b].generation = p.generation
             /\ [p EXCEPT !.body = b].body = b
  BY <1>1 DEF Packet
<1>4. Forward(NoReply(e))
  BY <1>1 DEF NoReply
<1>5. ASSUME NEW f \in Entry, NEW b \in Bodies, f.generation = p.generation,
             f.generation >= e.generation,
             e.generation = 2 /\ ~e.active => ~f.active, b = "Close" => ~f.active
      PROVE  Forward(Reply(f, p, b))
  BY <1>3, <1>5 DEF Reply
<1>6. CASE p.body = "Hello"
  <2>1. handled = HandleHello(e, p, age)
    BY <1>6 DEF Handle
  <2>2. CASE p.generation < e.generation \/ (p.generation = e.generation /\ ~e.active)
    <3>1. HandleHello(e, p, age) = NoReply(e)
      BY <1>1, <2>2 DEF HandleHello
    <3>2. QED
      BY <1>4, <2>1, <3>1
  <2>3. CASE p.generation = e.generation /\ e.active
    <3>1. HandleHello(e, p, age) = Reply(Refreshed(e, age), p, "Welcome")
      BY <1>1, <2>3 DEF HandleHello
    <3>2. Forward(Reply(Refreshed(e, age), p, "Welcome"))
      BY <1>1, <1>2, <1>5, <2>3 DEF Bodies
    <3>3. QED
      BY <2>1, <3>1, <3>2
  <2>4. CASE p.generation > e.generation
    <3> DEFINE f == [generation |-> p.generation, idle |-> age, active |-> TRUE]
    <3>1. HandleHello(e, p, age) = Reply(f, p, "Welcome")
      BY <1>1, <2>4 DEF HandleHello
    <3>2. f \in Entry /\ f.generation = p.generation /\ e.generation # 2
      BY <1>1, <2>4 DEF Entry
    <3> HIDE DEF f
    <3>3. Forward(Reply(f, p, "Welcome"))
      BY <1>1, <1>5, <2>4, <3>2 DEF Bodies
    <3>4. QED
      BY <2>1, <3>1, <3>3
  <2>5. QED
    BY <1>1, <2>2, <2>3, <2>4
<1>7. CASE p.body # "Hello" /\ p.generation # e.generation
  <2>1. handled = NoReply(e)
    BY <1>7 DEF Handle
  <2>2. QED
    BY <1>4, <2>1
<1>8. CASE p.body # "Hello" /\ p.generation = e.generation /\ ~e.active
  <2>1. handled = HandleInactive(e, p)
    BY <1>1, <1>8 DEF Handle
  <2>2. Forward(Reply(e, p, "Close"))
    BY <1>1, <1>5, <1>8 DEF Bodies
  <2>3. QED
    BY <1>4, <2>1, <2>2 DEF HandleInactive
<1>9. CASE p.body = "Data" /\ p.generation = e.generation /\ e.active
  <2>1. handled = Reply(Refreshed(e, age), p, "Data")
    BY <1>1, <1>9 DEF Handle
  <2>2. Forward(Reply(Refreshed(e, age), p, "Data"))
    BY <1>1, <1>2, <1>5, <1>9 DEF Bodies
  <2>3. QED
    BY <2>1, <2>2
<1>10. CASE p.body = "Close" /\ p.generation = e.generation /\ e.active
  <2> DEFINE f == [e EXCEPT !.active = FALSE]
  <2>1. handled = Reply(f, p, "Close")
    BY <1>1, <1>10 DEF Handle
  <2>2. f \in Entry /\ f.generation = e.generation /\ ~f.active
    BY <1>1 DEF Entry
  <2> HIDE DEF f
  <2>3. Forward(Reply(f, p, "Close"))
    BY <1>1, <1>5, <1>10, <2>2 DEF Bodies
  <2>4. QED
    BY <2>1, <2>3
<1>11. CASE p.body = "Welcome" /\ p.generation = e.generation /\ e.active
  <2>1. handled = NoReply(e)
    BY <1>1, <1>11 DEF Handle
  <2>2. QED
    BY <1>4, <2>1
<1>12. QED
  BY <1>1, <1>6, <1>7, <1>8, <1>9, <1>10, <1>11 DEF Bodies

-----------------------------------------------------------------------------
\* setup establishes the invariant.
LEMMA InitHolds == Init => IInv
<1> SUFFICES ASSUME Init
             PROVE  IInv
  OBVIOUS
<1>1. entries \in [Channels -> Entry] /\ created \in 0..Idle /\ lastSent \in [Channels -> 0..Retry]
  BY SessionsAssumption DEF Init, NoEntry, Entry
<1>2. known \in BOOLEAN /\ live \in BOOLEAN /\ late \in BOOLEAN
  BY DEF Init
<1>3. TypeOK
  BY <1>1, <1>2 DEF Init, TypeOK, Phases, Entry
<1>4. RepliesInv /\ SessionsAgree
  BY DEF Init, RepliesInv, SessionsAgree
<1>5. QED
  BY <1>3, <1>4 DEF IInv

\* Every packet that client_packet sends is one of the protocol.
LEMMA OutgoingType ==
    ASSUME TypeOK, NEW c \in Channels
    PROVE  Outgoing(c) \subseteq Packet
BY DEF TypeOK, Outgoing, Packet, Bodies, Phases

\* The steps of the server that handle a packet.
LEMMA ServerPacketKeeps ==
    ASSUME IInv, NEW p \in toServer, ServerPacket(p)
    PROVE  IInv'
<1>1. TypeOK /\ p \in Packet /\ p.channel \in Channels
  BY DEF IInv, TypeOK, Packet
<1>2. PICK age \in 0..Idle :
        /\ entries' = [entries EXCEPT ![p.channel] = Handle(entries[p.channel], p, age).entry]
        /\ toClient' = toClient \cup Handle(entries[p.channel], p, age).reply
  BY DEF ServerPacket
<1> DEFINE c == p.channel
           handled == Handle(entries[c], p, age)
<1>3. entries \in [Channels -> Entry] /\ entries[c] \in Entry
  BY <1>1 DEF TypeOK, Entry
<1>4. /\ handled.entry \in Entry
      /\ handled.entry.generation >= entries[c].generation
      /\ entries[c].generation = 2 /\ ~entries[c].active => ~handled.entry.active
      /\ handled.reply \subseteq Packet
      /\ \A r \in handled.reply :
            /\ r.channel = c
            /\ r.generation = handled.entry.generation
            /\ r.body = "Close" => ~handled.entry.active
  BY <1>1, <1>3, HandleForward
<1> HIDE DEF handled
<1>5. entries' = [entries EXCEPT ![c] = handled.entry] /\ toClient' = toClient \cup handled.reply
  BY <1>2 DEF handled
<1>6. entries' \in [Channels -> Entry] /\ toClient' \subseteq Packet
      /\ UNCHANGED <<phase, link, lastSent, toServer, late, exit>>
  BY <1>1, <1>3, <1>4, <1>5 DEF TypeOK, ServerPacket, client
<1>7. TypeOK'
  <2>1. known' \in BOOLEAN /\ live' \in BOOLEAN
    BY DEF ServerPacket, NewPeer
  <2>2. created' \in 0..Idle
    BY <1>1, SessionsAssumption DEF TypeOK, ServerPacket, NewPeer
  <2>3. QED
    BY <1>1, <1>6, <2>1, <2>2 DEF TypeOK, Entry
<1>8. \A d \in Channels :
        /\ entries[d].generation \in 0..2 /\ entries'[d].generation \in 0..2
        /\ entries'[d].generation >= entries[d].generation
        /\ entries[d].generation = 2 /\ ~entries[d].active => ~entries'[d].active
  BY <1>1, <1>3, <1>4, <1>5, <1>6 DEF Entry
<1>9. RepliesInv'
  <2> SUFFICES ASSUME NEW r \in toClient'
               PROVE  /\ entries'[r.channel].generation >= r.generation
                      /\ r.body = "Close" /\ r.generation = 2 => ~entries'[r.channel].active
    BY DEF RepliesInv
  <2>1. r.generation \in 1..2 /\ r.channel \in Channels
    BY <1>6 DEF Packet
  <2>2. CASE r \in toClient
    BY <1>8, <2>1, <2>2 DEF IInv, RepliesInv
  <2>3. CASE r \in handled.reply
    BY <1>1, <1>3, <1>4, <1>5, <2>1, <2>3 DEF Entry
  <2>4. QED
    BY <1>5, <2>2, <2>3
<1>10. SessionsAgree'
  BY <1>6, <1>8 DEF IInv, SessionsAgree
<1>11. QED
  BY <1>7, <1>9, <1>10 DEF IInv

\* expire_peers forgets no record: what it removes has no history.
LEMMA ExpireKeeps ==
    ASSUME IInv, ExpirePeers
    PROVE  IInv'
<1> DEFINE expired == [c \in Channels |-> Expire(entries[c])]
<1>1. TypeOK /\ entries \in [Channels -> Entry]
  BY DEF IInv, TypeOK, Entry
<1>2. \A c \in Channels :
        /\ expired[c] \in Entry /\ expired[c].generation = entries[c].generation
        /\ expired[c].active => entries[c].active
  BY <1>1, SessionsAssumption DEF Expire, Entry
<1>3. NoEntry \in Entry /\ NoEntry.generation = 0 /\ ~NoEntry.active
  BY SessionsAssumption DEF Entry, NoEntry
<1>4. \A c \in Channels :
        /\ entries'[c] \in Entry /\ entries'[c].generation = entries[c].generation
        /\ entries'[c].active => entries[c].active
  <2>1. CASE known'
    BY <1>2, <2>1 DEF ExpirePeers
  <2>2. CASE ~known'
    <3>1. ~Retain(expired) /\ entries' = [c \in Channels |-> NoEntry]
      BY <2>2 DEF ExpirePeers
    <3>2. \A c \in Channels : entries[c].generation = 0
      BY <1>2, <3>1 DEF Retain
    <3>3. QED
      BY <1>3, <3>1, <3>2
  <2>3. QED
    BY <2>1, <2>2
<1>5. entries' \in [Channels -> Entry] /\ UNCHANGED <<created, phase, link, lastSent, toServer, toClient, late, exit>>
  <2>1. entries' = expired \/ entries' = [c \in Channels |-> NoEntry]
    BY DEF ExpirePeers
  <2>2. expired \in [Channels -> Entry] /\ [c \in Channels |-> NoEntry] \in [Channels -> Entry]
    BY <1>2, <1>3
  <2>3. QED
    BY <2>1, <2>2 DEF ExpirePeers, client, network
<1>6. TypeOK'
  <2>1. live' \in BOOLEAN /\ known' \in BOOLEAN
    BY DEF ExpirePeers
  <2>2. QED
    BY <1>1, <1>5, <2>1 DEF TypeOK, Entry
<1>7. RepliesInv'
  BY <1>1, <1>4, <1>5 DEF IInv, RepliesInv, TypeOK, Packet, Entry
<1>8. SessionsAgree'
  BY <1>4, <1>5 DEF IInv, SessionsAgree
<1>9. QED
  BY <1>6, <1>7, <1>8 DEF IInv

\* client_packet moves on only when the server's record warrants it.
LEMMA ClientPacketKeeps ==
    ASSUME IInv, NEW p \in toClient, ClientPacket(p)
    PROVE  IInv'
<1> DEFINE c == p.channel
<1>1. TypeOK /\ p \in Packet /\ c \in Channels /\ p.generation \in 1..2
  BY DEF IInv, TypeOK, Packet
<1>2. /\ phase' = [phase EXCEPT ![c] = After[phase[c]]]
      /\ UNCHANGED <<entries, known, created, live, link, toServer, toClient, late, exit>>
      /\ phase[c] \in Phases \ {"Done"} /\ p.body = Answers[phase[c]]
      /\ p.generation = (IF phase[c] = "Initial" THEN 1 ELSE 2)
  BY <1>1 DEF ClientPacket, server, network, Matches, TypeOK
<1>3. /\ entries[c].generation \in 0..2 /\ entries[c].generation >= p.generation
      /\ p.body = "Close" /\ p.generation = 2 => ~entries[c].active
  BY <1>1 DEF IInv, RepliesInv, TypeOK
<1>4. After[phase[c]] \in Phases /\ phase' \in [Channels -> Phases]
  <2>1. After[phase[c]] \in Phases
    <3>1. /\ After["Initial"] \in Phases /\ After["Replacement"] \in Phases
          /\ After["Echo"] \in Phases /\ After["Closing"] \in Phases
      BY DEF After, Phases
    <3>2. QED
      BY <1>2, <3>1 DEF Phases
  <2>2. QED
    BY <1>1, <1>2, <2>1 DEF TypeOK
<1>5. lastSent' \in [Channels -> 0..Retry]
  BY <1>1, SessionsAssumption DEF TypeOK, ClientPacket
<1>6. TypeOK'
  BY <1>1, <1>2, <1>4, <1>5 DEF TypeOK
<1>7. RepliesInv'
  BY <1>2 DEF IInv, RepliesInv
<1>8. /\ After[phase[c]] \in {"Echo", "Closing", "Done"} => entries[c].generation = 2
      /\ After[phase[c]] = "Done" => ~entries[c].active
  <2>1. After["Initial"] = "Replacement" /\ After["Replacement"] = "Echo"
        /\ After["Echo"] = "Closing" /\ After["Closing"] = "Done" /\ Answers["Closing"] = "Close"
    BY DEF After, Answers
  <2>2. QED
    BY <1>2, <1>3, <2>1 DEF Phases
<1>9. SessionsAgree'
  BY <1>1, <1>2, <1>8 DEF IInv, SessionsAgree, TypeOK
<1>10. QED
  BY <1>6, <1>7, <1>9 DEF IInv

\* An Update sends requests and leaves the server's records alone.
LEMMA UpdateKeeps ==
    ASSUME IInv, Update
    PROVE  IInv'
<1>1. TypeOK /\ UNCHANGED <<entries, known, created, live, phase, toClient, late>>
  BY DEF IInv, Update, server
<1>2. toServer' \subseteq Packet
  BY <1>1, OutgoingType DEF TypeOK, Update, DriveClient, Due
<1>3. lastSent' \in [Channels -> 0..Retry]
  BY <1>1, SessionsAssumption DEF TypeOK, Update, DriveClient
<1>4. link' \in {"none", "requested", "ready"} /\ exit' \in {"no", "success", "error"}
  BY <1>1 DEF TypeOK, Update, FinishDemo
<1>5. QED
  BY <1>1, <1>2, <1>3, <1>4 DEF IInv, TypeOK, RepliesInv, SessionsAgree

\* Time only ages what it passes over.
LEMMA TickKeeps ==
    ASSUME IInv, Tick
    PROVE  IInv'
<1>1. TypeOK /\ UNCHANGED <<known, live, link, phase, toServer, toClient, late, exit>>
  BY DEF IInv, Tick, network
<1>2. \A c \in Channels : Min({Idle, entries[c].idle + 1}) \in 0..Idle
  BY <1>1, MinType, SessionsAssumption DEF TypeOK
<1>3. \A c \in Channels : Min({Retry, lastSent[c] + 1}) \in 0..Retry
  <2>1. Retry \in 0..Retry /\ \A c \in Channels : lastSent[c] + 1 \in Nat
    BY <1>1, SessionsAssumption DEF TypeOK
  <2>2. QED
    BY <2>1, MinType, SessionsAssumption
<1>4. Min({Idle, created + 1}) \in 0..Idle
  BY <1>1, MinType, SessionsAssumption DEF TypeOK
<1>5. \A c \in Channels :
        /\ entries'[c] \in Entry /\ entries'[c].generation = entries[c].generation
        /\ entries'[c].active = entries[c].active
  BY <1>1, <1>2 DEF Tick, TypeOK, Entry
<1>6. entries' \in [Channels -> Entry] /\ created' \in 0..Idle /\ lastSent' \in [Channels -> 0..Retry]
  BY <1>3, <1>4, <1>5 DEF Tick
<1>7. TypeOK'
  BY <1>1, <1>6 DEF TypeOK, Entry
<1>8. RepliesInv'
  BY <1>1, <1>5 DEF IInv, RepliesInv, TypeOK, Packet
<1>9. SessionsAgree'
  BY <1>1, <1>5 DEF IInv, SessionsAgree
<1>10. QED
  BY <1>7, <1>8, <1>9 DEF IInv

\* The other steps touch neither records nor requests.
LEMMA OthersKeep ==
    ASSUME IInv, NewPeerOnly \/ Ready \/ Lose \/ Deadline \/ UNCHANGED vars
    PROVE  IInv'
<1>1. TypeOK /\ UNCHANGED <<entries, phase, lastSent, exit>>
      /\ toServer' \subseteq toServer /\ toClient' \subseteq toClient
  BY DEF IInv, NewPeerOnly, Ready, Lose, Deadline, vars, server, client, network
<1>2. known' \in BOOLEAN /\ live' \in BOOLEAN /\ late' \in BOOLEAN
  <2>1. CASE NewPeerOnly
    BY <1>1, <2>1, Zenon DEF TypeOK, NewPeerOnly, NewPeer
  <2>2. CASE Ready \/ Lose \/ UNCHANGED vars
    BY <1>1, <2>2, Zenon DEF TypeOK, Ready, Lose, vars, server
  <2>3. CASE Deadline
    BY <1>1, <2>3, Zenon DEF TypeOK, Deadline, server
  <2>4. QED
    BY <2>1, <2>2, <2>3
<1>3. created' \in 0..Idle /\ link' \in {"none", "requested", "ready"}
  BY <1>1, SessionsAssumption
  DEF TypeOK, NewPeerOnly, NewPeer, Ready, Lose, Deadline, vars, server, client, network
<1>4. QED
  BY <1>1, <1>2, <1>3 DEF IInv, TypeOK, RepliesInv, SessionsAgree

-----------------------------------------------------------------------------
\* The inductive invariant holds in every reachable state.
THEOREM Invariance == Spec => []IInv
<1>1. IInv /\ [Next]_vars => IInv'
  BY ServerPacketKeeps, ExpireKeeps, ClientPacketKeeps, UpdateKeeps, TickKeeps, OthersKeep DEF Next
<1>2. QED
  BY <1>1, InitHolds, PTL DEF Spec

\* The example keeps its types, its ages stay below their timeouts.
THEOREM TypeCorrect == Spec => []TypeOK
<1>1. IInv => TypeOK
  BY DEF IInv
<1>2. QED
  BY <1>1, Invariance, PTL

\* Client and server agree on the second session and on its end, whatever the
\* network does to the packets.
THEOREM SessionsNeverDisagree == Spec => []SessionsAgree
<1>1. IInv => SessionsAgree
  BY DEF IInv
<1>2. QED
  BY <1>1, Invariance, PTL
=============================================================================
