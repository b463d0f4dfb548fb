------------------------------ MODULE UdpPeers ------------------------------
(***************************************************************************)
(* The server side of UDP: one socket, a map from addresses to peers, and  *)
(* a bounded number of associations                                        *)
(* (src/src/protocols/udp/listener.rs, peer.rs, stream.rs).                *)
(*                                                                         *)
(* The listener task dispatches datagrams under the lock of the map.  The  *)
(* tasks of the associations close, drain and drop them concurrently; a    *)
(* Rust drop is modelled field by field, in declaration order, because a   *)
(* dropped UdpServerStream unlists itself before it drains its queue and a *)
(* dropped UdpReadHalf does it the other way round.                        *)
(*                                                                         *)
(* An association is one PeerState with the PeerRegistration and the raw   *)
(* queue made with it.  Its raw queue is abstracted to the number of       *)
(* datagrams it holds: LossyQueue has the details, and the byte limit      *)
(* shows here as a push that is refused, or evicts, although there is room *)
(* for one more datagram.                                                  *)
(***************************************************************************)
EXTENDS Naturals, FiniteSets

CONSTANTS
    Addresses,     \* remote addresses
    Associations,  \* every PeerState that may ever be created
    None,          \* no association, no address
    MaxPeers,      \* max_peers
    RawItems,      \* receive_queue_capacity
    Policies,      \* overflow policies of the raw queues
    MaxDatagrams   \* bound: datagrams that arrive

ASSUME PeersAssumption ==
    /\ None \notin Associations \cup Addresses
    /\ IsFiniteSet(Associations)
    /\ MaxPeers \in Nat
    /\ RawItems \in Nat
    /\ Policies \subseteq {"DropNewest", "DropOldest"}
    /\ MaxDatagrams \in Nat

VARIABLES
    listening,   \* the UdpNetworkListener exists
    policy,      \* receive_queue_overflow
    peers,       \* UdpNetworkListener.peers
    slots,       \* available permits of UdpNetworkListener.slots
    stage,       \* who owns each association, or how far its drop has come
    address,     \* PeerRegistration.address
    closed,      \* PeerState.closed
    queue_open,  \* the raw queue has its receiver
    queued,      \* datagrams in the raw queue
    received,    \* counter received_data_packets
    delivered,   \* datagrams decoded and handed to the receive task
    dropped,     \* sum of the receive-side drop counters
    dispatch,    \* what the listener is doing while it holds the map's lock
    arrived      \* bound counter

counters == <<received, delivered, dropped>>
vars == <<listening, policy, peers, slots, stage, address, closed, queue_open,
          queued, received, delivered, dropped, dispatch, arrived>>

(***************************************************************************)
(*  free       not created                                                 *)
(*  stream     a UdpServerStream                                           *)
(*  half       a UdpReadHalf, owned by the receive task                    *)
(*  polling    the receive task found it open and is polling the queue     *)
(*  closing    the receive task has closed it and is reporting the end     *)
(*  dropping   the read half's drop has started: its fields come next      *)
(*  drained    TrackedIncoming of a read half is dropped                   *)
(*  unlisted   PeerRegistration::drop has left the map                     *)
(*  cancelled  PeerRegistration::drop is done, its slot is not             *)
(*  released   a dropped stream has given its slot back, but is undrained  *)
(*  gone       nothing is left                                             *)
(***************************************************************************)
Stages == {"free", "stream", "half", "polling", "closing", "dropping",
           "drained", "unlisted", "cancelled", "released", "gone"}

Idle == [step |-> "idle", to |-> None, oversized |-> FALSE]

TypeOK ==
    /\ listening \in BOOLEAN
    /\ policy \in Policies
    /\ peers \in [Addresses -> Associations \cup {None}]
    /\ slots \in Nat
    /\ stage \in [Associations -> Stages]
    /\ address \in [Associations -> Addresses \cup {None}]
    /\ closed \in [Associations -> BOOLEAN]
    /\ queue_open \in [Associations -> BOOLEAN]
    /\ queued \in [Associations -> Nat]
    /\ received \in [Associations -> Nat]
    /\ delivered \in [Associations -> Nat]
    /\ dropped \in [Associations -> Nat]
    /\ dispatch \in [step: {"idle", "found", "checked"},
                     to: Associations \cup {None}, oversized: BOOLEAN]
    /\ arrived \in Nat

Zero == [p \in Associations |-> 0]

\* UdpNetworkListener::from_socket
Init ==
    /\ listening = TRUE
    /\ policy \in Policies
    /\ peers = [a \in Addresses |-> None]
    /\ slots = MaxPeers
    /\ stage = [p \in Associations |-> "free"]
    /\ address = [p \in Associations |-> None]
    /\ closed = [p \in Associations |-> FALSE]
    /\ queue_open = [p \in Associations |-> FALSE]
    /\ queued = Zero
    /\ received = Zero
    /\ delivered = Zero
    /\ dropped = Zero
    /\ dispatch = Idle
    /\ arrived = 0

Add(counter, p, k) == [counter EXCEPT ![p] = @ + k]

Goto(p, from, to) == stage[p] \in from /\ stage' = [stage EXCEPT ![p] = to]

Unlocked == dispatch = Idle

-----------------------------------------------------------------------------
(* The listener task: dispatch.                                            *)

Arrives ==
    /\ listening
    /\ Unlocked
    /\ arrived < MaxDatagrams
    /\ arrived' = arrived + 1

\* An open peer is found for the address: count, then push.
DispatchKnown(a, big) ==
    /\ Arrives
    /\ peers[a] # None /\ ~closed[peers[a]]
    /\ dispatch' = [step |-> "found", to |-> peers[a], oversized |-> big]
    /\ received' = Add(received, peers[a], 1)
    /\ UNCHANGED <<listening, policy, peers, slots, stage, address, closed,
                   queue_open, queued, delivered, dropped>>

\* Mutant of DispatchNew: no slot is needed.
DispatchNewUnbounded(a, p) ==
    /\ Arrives
    /\ peers[a] # None => closed[peers[a]]
    /\ RawItems > 0
    /\ slots' = slots - 1
    /\ Goto(p, {"free"}, "stream")
    /\ address' = [address EXCEPT ![p] = a]
    /\ queue_open' = [queue_open EXCEPT ![p] = TRUE]
    /\ queued' = Add(queued, p, 1)
    /\ received' = Add(received, p, 1)
    /\ peers' = [peers EXCEPT ![a] = p]
    /\ UNCHANGED <<listening, policy, closed, delivered, dropped, dispatch>>

\* No open peer, a datagram that fits and a free slot: a new association
\* that holds the datagram replaces whatever was listed.  (Without a slot, or
\* with a datagram that can never be queued, nothing is changed.)
DispatchNew(a, p) ==
    /\ Arrives
    /\ peers[a] # None => closed[peers[a]]
    /\ RawItems > 0
    /\ slots > 0
    /\ slots' = slots - 1
    /\ Goto(p, {"free"}, "stream")
    /\ address' = [address EXCEPT ![p] = a]
    /\ queue_open' = [queue_open EXCEPT ![p] = TRUE]
    /\ queued' = Add(queued, p, 1)
    /\ received' = Add(received, p, 1)
    /\ peers' = [peers EXCEPT ![a] = p]
    /\ UNCHANGED <<listening, policy, closed, delivered, dropped, dispatch>>

\* Peer::push looks at the closed flag once more.
PushCheck ==
    LET p == dispatch.to
    IN  /\ dispatch.step = "found"
        /\ \/ /\ closed[p]
              /\ dropped' = Add(dropped, p, 1)
              /\ dispatch' = Idle
           \/ /\ ~closed[p]
              /\ dispatch' = [step |-> "checked", to |-> p,
                              oversized |-> dispatch.oversized]
              /\ UNCHANGED dropped
        /\ UNCHANGED <<listening, policy, peers, slots, stage, address, closed,
                       queue_open, queued, received, delivered, arrived>>

\* try_send refuses: closed, too large, or full under DropNewest.
PushRefused ==
    LET p == dispatch.to
    IN  /\ dispatch.step = "checked"
        /\ \/ ~queue_open[p]
           \/ dispatch.oversized
           \/ policy = "DropNewest" /\ queued[p] > 0
        /\ dropped' = Add(dropped, p, 1)
        /\ dispatch' = Idle
        /\ UNCHANGED <<listening, policy, peers, slots, stage, address, closed,
                       queue_open, queued, received, delivered, arrived>>

\* Mutant of PushAccepted: a queue without its receiver still accepts.
PushAcceptedAnyway(k) ==
    LET p == dispatch.to
    IN  /\ dispatch.step = "checked"
        /\ ~dispatch.oversized
        /\ k <= queued[p] /\ queued[p] - k < RawItems
        /\ k > 0 => policy = "DropOldest"
        /\ queued' = [queued EXCEPT ![p] = @ - k + 1]
        /\ dropped' = Add(dropped, p, k)
        /\ dispatch' = Idle
        /\ UNCHANGED <<listening, policy, peers, slots, stage, address, closed,
                       queue_open, received, delivered, arrived>>

\* try_send accepts, after evicting the k oldest datagrams.
PushAccepted(k) ==
    LET p == dispatch.to
    IN  /\ dispatch.step = "checked"
        /\ queue_open[p] /\ ~dispatch.oversized
        /\ k <= queued[p] /\ queued[p] - k < RawItems
        /\ k > 0 => policy = "DropOldest"
        /\ queued' = [queued EXCEPT ![p] = @ - k + 1]
        /\ dropped' = Add(dropped, p, k)
        /\ dispatch' = Idle
        /\ UNCHANGED <<listening, policy, peers, slots, stage, address, closed,
                       queue_open, received, delivered, arrived>>

Listed == {p \in Associations : \E a \in Addresses : peers[a] = p}

\* Mutant of ListenerDrop: the map is cleared, but its peers are not closed.
ListenerDropSilently ==
    /\ Unlocked
    /\ listening /\ listening' = FALSE
    /\ peers' = [a \in Addresses |-> None]
    /\ UNCHANGED <<policy, slots, stage, address, closed, queue_open, queued,
                   counters, dispatch, arrived>>

\* UdpNetworkListener::drop: every listed peer is closed and the map cleared.
ListenerDrop ==
    /\ Unlocked
    /\ listening /\ listening' = FALSE
    /\ closed' = [p \in Associations |-> closed[p] \/ p \in Listed]
    /\ peers' = [a \in Addresses |-> None]
    /\ UNCHANGED <<policy, slots, stage, address, queue_open, queued, counters,
                   dispatch, arrived>>

-----------------------------------------------------------------------------
(* The tasks that own an association.                                      *)

\* into_split
Split(p) ==
    /\ Goto(p, {"stream"}, "half")
    /\ UNCHANGED <<listening, policy, peers, slots, address, closed,
                   queue_open, queued, counters, dispatch, arrived>>

\* receive_with_timestamp: the biased select finds the peer open ...
ReceivePoll(p) ==
    /\ Goto(p, {"half"}, "polling")
    /\ ~closed[p]
    /\ queued[p] > 0
    /\ UNCHANGED <<listening, policy, peers, slots, address, closed,
                   queue_open, queued, counters, dispatch, arrived>>

\* ... and polls the queue: the datagram is decoded, or dropped as too large
\* or malformed.
ReceiveNext(p) ==
    /\ Goto(p, {"polling"}, "half")
    /\ queued[p] > 0
    /\ queued' = [queued EXCEPT ![p] = @ - 1]
    /\ \/ delivered' = Add(delivered, p, 1) /\ UNCHANGED dropped
       \/ dropped' = Add(dropped, p, 1) /\ UNCHANGED delivered
    /\ UNCHANGED <<listening, policy, peers, slots, address, closed,
                   queue_open, received, dispatch, arrived>>

\* The receive task stops: disconnected, failed, or told by the closed flag.
CloseReader(p) ==
    /\ Goto(p, {"half"}, "closing")
    /\ closed' = [closed EXCEPT ![p] = TRUE]
    /\ UNCHANGED <<listening, policy, peers, slots, address, queue_open,
                   queued, counters, dispatch, arrived>>

\* UdpReadHalf::drop, at the end of the receive task or when it is aborted.
DropReadHalf(p) ==
    /\ Goto(p, {"half", "closing"}, "dropping")
    /\ closed' = [closed EXCEPT ![p] = TRUE]
    /\ UNCHANGED <<listening, policy, peers, slots, address, queue_open,
                   queued, counters, dispatch, arrived>>

\* Mutant of Drain: the drained datagrams are not counted.
DrainSilently(p) ==
    /\ \/ Goto(p, {"dropping"}, "drained")
       \/ Goto(p, {"released"}, "gone")
    /\ queue_open' = [queue_open EXCEPT ![p] = FALSE]
    /\ queued' = [queued EXCEPT ![p] = 0]
    /\ UNCHANGED <<listening, policy, peers, slots, address, closed, counters,
                   dispatch, arrived>>

\* TrackedIncoming::drop: second for a read half, last for a stream.
Drain(p) ==
    /\ \/ Goto(p, {"dropping"}, "drained")
       \/ Goto(p, {"released"}, "gone")
    /\ queue_open' = [queue_open EXCEPT ![p] = FALSE]
    /\ queued' = [queued EXCEPT ![p] = 0]
    /\ dropped' = Add(dropped, p, queued[p])
    /\ UNCHANGED <<listening, policy, peers, slots, address, closed, received,
                   delivered, dispatch, arrived>>

\* Mutant of Unlist: whoever is listed for the address is removed.
UnlistAddress(p) ==
    /\ Unlocked
    /\ Goto(p, {"stream", "drained"}, "unlisted")
    /\ peers' = [peers EXCEPT ![address[p]] = None]
    /\ UNCHANGED <<listening, policy, slots, address, closed, queue_open,
                   queued, counters, dispatch, arrived>>

\* Mutant of Unlist: a closed association stays in the map.
UnlistOnlyOpen(p) ==
    /\ Unlocked
    /\ Goto(p, {"stream", "drained"}, "unlisted")
    /\ peers' = [peers EXCEPT ![address[p]] = IF @ = p /\ ~closed[p] THEN None ELSE @]
    /\ UNCHANGED <<listening, policy, slots, address, closed, queue_open,
                   queued, counters, dispatch, arrived>>

\* PeerRegistration::drop under the lock: leave the map, unless a newer
\* association has taken the address.  For a stream it is the first field.
Unlist(p) ==
    /\ Unlocked
    /\ Goto(p, {"stream", "drained"}, "unlisted")
    /\ peers' = [peers EXCEPT ![address[p]] = IF @ = p THEN None ELSE @]
    /\ UNCHANGED <<listening, policy, slots, address, closed, queue_open,
                   queued, counters, dispatch, arrived>>

\* PeerRegistration::drop after the unlock.
CancelState(p) ==
    /\ Goto(p, {"unlisted"}, "cancelled")
    /\ closed' = [closed EXCEPT ![p] = TRUE]
    /\ UNCHANGED <<listening, policy, peers, slots, address, queue_open,
                   queued, counters, dispatch, arrived>>

\* Mutant of ReleaseSlot: the permit goes back before the map is left.
ReleaseSlotEarly(p) ==
    /\ \/ /\ Goto(p, {"closing"}, "dropping")
          /\ slots' = slots + 1
       \/ /\ Goto(p, {"cancelled"}, IF queue_open[p] THEN "released" ELSE "gone")
          /\ UNCHANGED slots
    /\ UNCHANGED <<listening, policy, peers, address, closed, queue_open,
                   queued, counters, dispatch, arrived>>

\* The fields of PeerRegistration: the permit goes back.
ReleaseSlot(p) ==
    /\ Goto(p, {"cancelled"}, IF queue_open[p] THEN "released" ELSE "gone")
    /\ slots' = slots + 1
    /\ UNCHANGED <<listening, policy, peers, address, closed, queue_open,
                   queued, counters, dispatch, arrived>>

-----------------------------------------------------------------------------
Listener ==
    \/ \E a \in Addresses, big \in BOOLEAN : DispatchKnown(a, big)
    \/ \E a \in Addresses, p \in Associations : DispatchNew(a, p)
    \/ PushCheck
    \/ PushRefused
    \/ \E k \in 0..RawItems : PushAccepted(k)
    \/ ListenerDrop

Owner(p) ==
    \/ Split(p)
    \/ ReceivePoll(p)
    \/ ReceiveNext(p)
    \/ CloseReader(p)
    \/ DropReadHalf(p)
    \/ Drain(p)
    \/ Unlist(p)
    \/ CancelState(p)
    \/ ReleaseSlot(p)

Next == Listener \/ \E p \in Associations : Owner(p)

\* What the owner does without being asked: a stream is split, a receive task
\* reads and notices the closed flag, a drop that has begun is finished.
OwnerSteps(p) ==
    \/ Split(p)
    \/ ReceivePoll(p)
    \/ ReceiveNext(p)
    \/ closed[p] /\ CloseReader(p)
    \/ stage[p] = "closing" /\ DropReadHalf(p)
    \/ Drain(p)
    \/ stage[p] = "drained" /\ Unlist(p)
    \/ CancelState(p)
    \/ ReleaseSlot(p)

Fairness ==
    /\ WF_vars(PushCheck \/ PushRefused \/ \E k \in 0..RawItems : PushAccepted(k))
    /\ \A p \in Associations : WF_vars(OwnerSteps(p))

Spec == Init /\ [][Next]_vars

FairSpec == Spec /\ Fairness

-----------------------------------------------------------------------------
(* Properties.                                                             *)

\* The association has a slot of the semaphore.
Holding == {p \in Associations : stage[p] \notin {"free", "released", "gone"}}

\* Permits are neither lost nor duplicated, whichever way an association is
\* dropped: there are never more than max_peers of them.
PeersBounded == slots + Cardinality(Holding) = MaxPeers

\* The association is not being taken apart, or at least is still listed.
Usable(p) == stage[p] \in {"stream", "half", "polling", "closing", "dropping", "drained"}

\* An association that is open and not being dropped is the one its address is
\* routed to: closing, dropping and replacing an older association of the same
\* address never disconnects the newer one, and nobody is left out when the
\* listener closes what is listed.
OpenIsListed ==
    \A p \in Associations : Usable(p) /\ ~closed[p] => peers[address[p]] = p

\* What the listener finds in the map, under the lock, has not passed the point
\* where it gives its slot back, and is routed to under its own address: the
\* map never outgrows the slots.
ListedAtHome ==
    \A a \in Addresses : peers[a] # None => address[peers[a]] = a /\ Usable(peers[a])

InFlight(p) == IF dispatch.to = p THEN 1 ELSE 0

\* Every datagram counted as received for an association is delivered, counted
\* as dropped, still queued, or in the hands of the listener: none disappears
\* whatever the order of push, close, drain and unlisting.
DatagramsAccounted ==
    \A p \in Associations :
        received[p] = delivered[p] + dropped[p] + queued[p] + InFlight(p)

\* Nothing can be pushed behind the drain: the queue of a finished association
\* is empty and nothing is on its way to it.
NothingLeftBehind ==
    \A p \in Associations :
        ~queue_open[p] => queued[p] = 0 /\ (InFlight(p) = 1 => stage[p] # "gone")

\* Once the listener is gone every association ends and every slot returns.
AllReleased == ~listening ~> slots = MaxPeers
=============================================================================
