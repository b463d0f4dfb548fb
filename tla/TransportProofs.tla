-------------------------- MODULE TransportProofs --------------------------
(***************************************************************************)
(* Proofs about the two transports below a connection:                     *)
(*  - the UDP peers, for every set of addresses, every number of           *)
(*    associations and slots, and any number of datagrams;                 *)
(*  - one direction of a stream connection, for every byte size, every set *)
(*    of packets, every length codec and wherever TCP or the end of a task *)
(*    cuts the bytes.                                                      *)
(***************************************************************************)
EXTENDS UdpPeers, FramedStream, FiniteSetTheorems, SequenceTheorems, TLAPS

-----------------------------------------------------------------------------
(* UDP peers: the inductive invariant                                      *)

\* While the listener holds the lock it works for a listed association.
DispatchInv ==
    \/ dispatch = Idle
    \/ /\ dispatch.step \in {"found", "checked"}
       /\ dispatch.to \in Associations
       /\ Usable(dispatch.to)

\* How far the drop has come decides whether the raw queue has its receiver.
QueueInv ==
    \A p \in Associations :
        /\ stage[p] \in {"stream", "half", "polling", "closing", "dropping", "released"}
              => queue_open[p]
        /\ stage[p] \in {"free", "drained", "gone"} => ~queue_open[p]
        /\ ~queue_open[p] => queued[p] = 0

\* What has not been created is untouched; what has been has an address.
FreshInv ==
    \A p \in Associations :
        /\ stage[p] = "free" =>
              /\ ~closed[p]
              /\ received[p] = 0 /\ delivered[p] = 0 /\ dropped[p] = 0
        /\ stage[p] # "free" => address[p] \in Addresses

IInv ==
    /\ TypeOK
    /\ DispatchInv
    /\ QueueInv
    /\ FreshInv
    /\ PeersBounded
    /\ OpenIsListed
    /\ ListedAtHome
    /\ DatagramsAccounted

-----------------------------------------------------------------------------
\* from_socket establishes the invariant.
LEMMA InitHolds == Init => IInv
<1> SUFFICES ASSUME Init
             PROVE  IInv
  OBVIOUS
<1> USE PeersAssumption DEF Init, Zero, Idle
<1>1. TypeOK
  <2>1. /\ stage \in [Associations -> Stages]
        /\ address \in [Associations -> Addresses \cup {None}]
        /\ peers \in [Addresses -> Associations \cup {None}]
    BY DEF Stages
  <2>2. closed \in [Associations -> BOOLEAN] /\ queue_open \in [Associations -> BOOLEAN]
    OBVIOUS
  <2>3. /\ queued \in [Associations -> Nat] /\ received \in [Associations -> Nat]
        /\ delivered \in [Associations -> Nat] /\ dropped \in [Associations -> Nat]
    OBVIOUS
  <2>4. dispatch \in [step: {"idle", "found", "checked"},
                      to: Associations \cup {None}, oversized: BOOLEAN]
    OBVIOUS
  <2>5. slots \in Nat /\ arrived \in Nat /\ policy \in Policies
    OBVIOUS
  <2>6. listening \in BOOLEAN
    OBVIOUS
  <2>7. QED
    BY ONLY <2>1, <2>2, <2>3, <2>4, <2>5, <2>6 DEF TypeOK
<1>2. DispatchInv /\ QueueInv /\ FreshInv
  BY DEF DispatchInv, QueueInv, FreshInv
<1>3. PeersBounded
  <2>1. Holding = {}
    BY DEF Holding
  <2>2. QED
    BY <2>1, FS_EmptySet DEF PeersBounded
<1>4. OpenIsListed /\ ListedAtHome
  BY DEF OpenIsListed, ListedAtHome, Usable
<1>5. DatagramsAccounted
  BY DEF DatagramsAccounted, InFlight
<1>6. QED
  BY <1>1, <1>2, <1>3, <1>4, <1>5 DEF IInv

\* Every step keeps the types.
LEMMA TypeKeeps == IInv /\ [Next]_vars => TypeOK'
<1> SUFFICES ASSUME IInv, [Next]_vars
             PROVE  TypeOK'
  OBVIOUS
<1>1. TypeOK /\ DispatchInv
  BY DEF IInv
<1>2. CASE UNCHANGED vars
  BY <1>1, <1>2 DEF vars, TypeOK
<1>3. ASSUME NEW d,
             \/ d = dispatch
             \/ d = [step |-> "idle", to |-> None, oversized |-> FALSE]
             \/ d = [step |-> "checked", to |-> dispatch.to, oversized |-> dispatch.oversized]
             \/ \E a \in Addresses, big \in BOOLEAN :
                   d = [step |-> "found", to |-> peers[a], oversized |-> big]
      PROVE  d \in [step: {"idle", "found", "checked"},
                    to: Associations \cup {None}, oversized: BOOLEAN]
  <2>1. /\ dispatch \in [step: {"idle", "found", "checked"},
                         to: Associations \cup {None}, oversized: BOOLEAN]
        /\ dispatch.to \in Associations \cup {None}
        /\ dispatch.oversized \in BOOLEAN
        /\ \A a \in Addresses : peers[a] \in Associations \cup {None}
    BY <1>1 DEF TypeOK
  <2>2. ASSUME NEW st \in {"idle", "found", "checked"},
               NEW to \in Associations \cup {None}, NEW big \in BOOLEAN
        PROVE  [step |-> st, to |-> to, oversized |-> big]
                  \in [step: {"idle", "found", "checked"},
                       to: Associations \cup {None}, oversized: BOOLEAN]
    OBVIOUS
  <2>3. CASE d = dispatch
    BY <2>1, <2>3
  <2>4. CASE d = [step |-> "idle", to |-> None, oversized |-> FALSE]
    BY <2>2, <2>4
  <2>5. CASE d = [step |-> "checked", to |-> dispatch.to, oversized |-> dispatch.oversized]
    BY <2>1, <2>2, <2>5
  <2>6. CASE \E a \in Addresses, big \in BOOLEAN :
               d = [step |-> "found", to |-> peers[a], oversized |-> big]
    BY <2>1, <2>2, <2>6
  <2>7. QED
    BY ONLY <1>3, <2>3, <2>4, <2>5, <2>6
<1>4. ASSUME NEW a \in Addresses, NEW big \in BOOLEAN, DispatchKnown(a, big)
      PROVE  TypeOK'
  <2>1. dispatch' \in [step: {"idle", "found", "checked"},
                        to: Associations \cup {None}, oversized: BOOLEAN]
    BY <1>1, <1>3, <1>4 DEF DispatchKnown, Arrives, Unlocked, Idle
  <2>2. QED
    BY <1>1, <1>4, <2>1, PeersAssumption DEF DispatchKnown, Arrives, Unlocked, Add, TypeOK, DispatchInv
<1>5. ASSUME NEW a \in Addresses, NEW p \in Associations, DispatchNew(a, p)
      PROVE  TypeOK'
  BY <1>1, <1>5, PeersAssumption DEF DispatchNew, Arrives, Unlocked, Goto, Add, Stages, TypeOK
<1>6. CASE PushCheck
  <2>1. dispatch' \in [step: {"idle", "found", "checked"},
                        to: Associations \cup {None}, oversized: BOOLEAN]
    BY <1>1, <1>3, <1>6 DEF PushCheck, Idle
  <2>2. QED
    BY <1>1, <1>6, <2>1, PeersAssumption DEF PushCheck, Add, TypeOK, DispatchInv
<1>7. CASE PushRefused
  <2>1. dispatch' \in [step: {"idle", "found", "checked"},
                        to: Associations \cup {None}, oversized: BOOLEAN]
    BY <1>1, <1>3, <1>7 DEF PushRefused, Idle
  <2>2. dropped' \in [Associations -> Nat]
    <3>1. dropped \in [Associations -> Nat]
      BY <1>1 DEF TypeOK
    <3>2. dropped' = [dropped EXCEPT ![dispatch.to] = @ + 1]
      BY <1>7 DEF PushRefused, Add
    <3>3. dispatch.to \in Associations
      BY <1>1, <1>7 DEF PushRefused, DispatchInv, Idle
    <3>4. QED
      BY ONLY <3>1, <3>2, <3>3
  <2>3. UNCHANGED <<listening, policy, peers, slots, stage, address, closed,
                    queue_open, queued, received, delivered, arrived>>
    BY <1>7 DEF PushRefused
  <2>4. QED
    BY <1>1, <2>1, <2>2, <2>3 DEF TypeOK
<1>8. ASSUME NEW k \in 0..RawItems, PushAccepted(k)
      PROVE  TypeOK'
  <2>1. dispatch' \in [step: {"idle", "found", "checked"},
                        to: Associations \cup {None}, oversized: BOOLEAN]
    BY <1>1, <1>3, <1>8 DEF PushAccepted, Idle
  <2>2. dropped' \in [Associations -> Nat] /\ queued' \in [Associations -> Nat]
    <3>1. /\ dropped \in [Associations -> Nat] /\ queued \in [Associations -> Nat]
          /\ k \in Nat
      BY <1>1, <1>8, PeersAssumption DEF TypeOK
    <3>2. /\ dropped' = [dropped EXCEPT ![dispatch.to] = @ + k]
          /\ queued' = [queued EXCEPT ![dispatch.to] = @ - k + 1]
          /\ k <= queued[dispatch.to]
      BY <1>8 DEF PushAccepted, Add
    <3>3. dispatch.to \in Associations
      BY <1>1, <1>8 DEF PushAccepted, DispatchInv, Idle
    <3>4. QED
      BY ONLY <3>1, <3>2, <3>3
  <2>3. UNCHANGED <<listening, policy, peers, slots, stage, address, closed,
                    queue_open, received, delivered, arrived>>
    BY <1>8 DEF PushAccepted
  <2>4. QED
    BY <1>1, <2>1, <2>2, <2>3 DEF TypeOK
<1>9. CASE ListenerDrop
  BY <1>1, <1>9, PeersAssumption DEF ListenerDrop, Unlocked, counters, Listed, TypeOK
<1>10. ASSUME NEW p \in Associations, Split(p)
       PROVE  TypeOK'
  BY <1>1, <1>10, PeersAssumption DEF Split, Goto, counters, Stages, TypeOK
<1>11. ASSUME NEW p \in Associations, ReceivePoll(p)
       PROVE  TypeOK'
  BY <1>1, <1>11, PeersAssumption DEF ReceivePoll, Goto, counters, Stages, TypeOK
<1>12. ASSUME NEW p \in Associations, ReceiveNext(p)
       PROVE  TypeOK'
  BY <1>1, <1>12, PeersAssumption DEF ReceiveNext, Goto, Add, Stages, TypeOK
<1>13. ASSUME NEW p \in Associations, CloseReader(p)
       PROVE  TypeOK'
  BY <1>1, <1>13, PeersAssumption DEF CloseReader, Goto, counters, Stages, TypeOK
<1>14. ASSUME NEW p \in Associations, DropReadHalf(p)
       PROVE  TypeOK'
  BY <1>1, <1>14, PeersAssumption DEF DropReadHalf, Goto, counters, Stages, TypeOK
<1>15. ASSUME NEW p \in Associations, Drain(p)
       PROVE  TypeOK'
  BY <1>1, <1>15, PeersAssumption DEF Drain, Goto, Add, Stages, TypeOK
<1>16. ASSUME NEW p \in Associations, Unlist(p)
       PROVE  TypeOK'
  BY <1>1, <1>16, PeersAssumption DEF Unlist, Unlocked, Goto, counters, Stages, TypeOK
<1>17. ASSUME NEW p \in Associations, CancelState(p)
       PROVE  TypeOK'
  BY <1>1, <1>17, PeersAssumption DEF CancelState, Goto, counters, Stages, TypeOK
<1>18. ASSUME NEW p \in Associations, ReleaseSlot(p)
       PROVE  TypeOK'
  BY <1>1, <1>18, PeersAssumption DEF ReleaseSlot, Goto, counters, Stages, TypeOK
<1>19. QED
  BY <1>2, <1>4, <1>5, <1>6, <1>7, <1>8, <1>9, <1>10, <1>11, <1>12, <1>13, <1>14,
     <1>15, <1>16, <1>17, <1>18
  DEF Next, Listener, Owner

\* The listener's target stays listed while the lock is held.
LEMMA DispatchKeeps == IInv /\ [Next]_vars => DispatchInv'
<1> SUFFICES ASSUME IInv, [Next]_vars
             PROVE  DispatchInv'
  OBVIOUS
<1>1. TypeOK /\ DispatchInv /\ ListedAtHome
  BY DEF IInv
<1>2. CASE UNCHANGED vars
  BY <1>1, <1>2 DEF vars, DispatchInv, Usable, Idle
<1>3. CASE Next
  <2>1. CASE dispatch' = Idle
    BY <2>1 DEF DispatchInv, Idle
  <2>2. ASSUME NEW a \in Addresses, NEW big \in BOOLEAN, DispatchKnown(a, big)
        PROVE  DispatchInv'
    BY <1>1, <2>2 DEF DispatchKnown, DispatchInv, ListedAtHome, Usable, TypeOK
  <2>3. CASE PushCheck /\ dispatch' # Idle
    <3>1. /\ dispatch.step = "found"
          /\ dispatch' = [step |-> "checked", to |-> dispatch.to,
                          oversized |-> dispatch.oversized]
          /\ stage' = stage
      BY <2>3 DEF PushCheck
    <3>2. dispatch.to \in Associations /\ Usable(dispatch.to)
      BY <1>1, <3>1 DEF DispatchInv, Idle
    <3>3. QED
      BY <3>1, <3>2 DEF DispatchInv, Usable
  <2>4. ASSUME dispatch # Idle, dispatch' = dispatch, NEW p \in Associations, Owner(p)
        PROVE  DispatchInv'
    <3>1. dispatch.step \in {"found", "checked"} /\ dispatch.to \in Associations
             /\ Usable(dispatch.to)
      BY <1>1, <2>4 DEF DispatchInv
    <3>2. (Usable(dispatch.to))'
      BY <1>1, <2>4, <3>1
      DEF Owner, Unlocked, Split, ReceivePoll, ReceiveNext, CloseReader, DropReadHalf,
          Drain, Unlist, CancelState, ReleaseSlot, Goto, TypeOK, Usable
    <3>3. QED
      BY <2>4, <3>1, <3>2 DEF DispatchInv
  <2>5. \/ dispatch' = Idle
        \/ \E a \in Addresses, big \in BOOLEAN : DispatchKnown(a, big)
        \/ PushCheck /\ dispatch' # Idle
        \/ dispatch # Idle /\ dispatch' = dispatch /\ \E p \in Associations : Owner(p)
    BY <1>3
    DEF Next, Listener, Owner, DispatchNew, Arrives, Unlocked, PushRefused,
        PushAccepted, ListenerDrop, Split, ReceivePoll, ReceiveNext, CloseReader,
        DropReadHalf, Drain, Unlist, CancelState, ReleaseSlot
  <2>6. QED
    BY <2>1, <2>2, <2>3, <2>4, <2>5
<1>4. QED
  BY <1>2, <1>3

\* The raw queue loses its receiver exactly when it is drained.
LEMMA QueueKeeps == IInv /\ [Next]_vars => QueueInv'
<1> SUFFICES ASSUME IInv, [Next]_vars
             PROVE  QueueInv'
  OBVIOUS
<1>1. TypeOK /\ DispatchInv /\ QueueInv
  BY DEF IInv
<1>2. CASE UNCHANGED vars
  BY <1>1, <1>2 DEF vars, QueueInv
<1>3. ASSUME NEW a \in Addresses, NEW big \in BOOLEAN, DispatchKnown(a, big)
      PROVE  QueueInv'
  BY <1>1, <1>3, PeersAssumption
  DEF DispatchKnown, Arrives, Unlocked, Add, TypeOK,
      QueueInv
<1>4. ASSUME NEW a \in Addresses, NEW p \in Associations, DispatchNew(a, p)
      PROVE  QueueInv'
  BY <1>1, <1>4, PeersAssumption
  DEF DispatchNew, Arrives, Unlocked, Goto, Add,
      TypeOK, QueueInv
<1>5. CASE PushCheck
  BY <1>1, <1>5, PeersAssumption
  DEF PushCheck, Add, Idle, DispatchInv, TypeOK,
      QueueInv
<1>6. CASE PushRefused
  BY <1>1, <1>6, PeersAssumption
  DEF PushRefused, Add, Idle, DispatchInv, TypeOK,
      QueueInv
<1>7. ASSUME NEW k \in 0..RawItems, PushAccepted(k)
      PROVE  QueueInv'
  BY <1>1, <1>7, PeersAssumption
  DEF PushAccepted, Add, Idle, DispatchInv, TypeOK,
      QueueInv
<1>8. CASE ListenerDrop
  BY <1>1, <1>8, PeersAssumption
  DEF ListenerDrop, Unlocked, counters, Listed,
      TypeOK, QueueInv
<1>9. ASSUME NEW p \in Associations, Split(p)
      PROVE  QueueInv'
  BY <1>1, <1>9 DEF Split, Goto, counters, TypeOK, QueueInv
<1>10. ASSUME NEW p \in Associations, ReceivePoll(p)
       PROVE  QueueInv'
  BY <1>1, <1>10 DEF ReceivePoll, Goto, counters, TypeOK, QueueInv
<1>11. ASSUME NEW p \in Associations, ReceiveNext(p)
       PROVE  QueueInv'
  BY <1>1, <1>11 DEF ReceiveNext, Goto, Add, TypeOK, QueueInv
<1>12. ASSUME NEW p \in Associations, CloseReader(p)
       PROVE  QueueInv'
  BY <1>1, <1>12 DEF CloseReader, Goto, counters, TypeOK, QueueInv
<1>13. ASSUME NEW p \in Associations, DropReadHalf(p)
       PROVE  QueueInv'
  BY <1>1, <1>13 DEF DropReadHalf, Goto, counters, TypeOK, QueueInv
<1>14. ASSUME NEW p \in Associations, Drain(p)
       PROVE  QueueInv'
  BY <1>1, <1>14 DEF Drain, Goto, Add, TypeOK, QueueInv
<1>15. ASSUME NEW p \in Associations, Unlist(p)
       PROVE  QueueInv'
  BY <1>1, <1>15, PeersAssumption
  DEF Unlist, Unlocked, Goto, counters, TypeOK,
      QueueInv
<1>16. ASSUME NEW p \in Associations, CancelState(p)
       PROVE  QueueInv'
  BY <1>1, <1>16 DEF CancelState, Goto, counters, TypeOK, QueueInv
<1>17. ASSUME NEW p \in Associations, ReleaseSlot(p)
       PROVE  QueueInv'
  BY <1>1, <1>17 DEF ReleaseSlot, Goto, counters, TypeOK, QueueInv
<1>18. QED
  BY <1>2, <1>3, <1>4, <1>5, <1>6, <1>7, <1>8, <1>9, <1>10,
     <1>11, <1>12, <1>13, <1>14, <1>15, <1>16, <1>17
  DEF Next, Listener, Owner

\* Nobody touches an association before it is created.
LEMMA FreshKeeps == IInv /\ [Next]_vars => FreshInv'
<1> SUFFICES ASSUME IInv, [Next]_vars
             PROVE  FreshInv'
  OBVIOUS
<1>1. TypeOK /\ DispatchInv /\ FreshInv /\ ListedAtHome
  BY DEF IInv
<1>2. CASE UNCHANGED vars
  BY <1>1, <1>2 DEF vars, FreshInv
<1>3. ASSUME NEW a \in Addresses, NEW big \in BOOLEAN, DispatchKnown(a, big)
      PROVE  FreshInv'
  BY <1>1, <1>3, PeersAssumption
  DEF DispatchKnown, Arrives, Unlocked, Add, TypeOK,
      FreshInv, ListedAtHome, Usable
<1>4. ASSUME NEW a \in Addresses, NEW p \in Associations, DispatchNew(a, p)
      PROVE  FreshInv'
  BY <1>1, <1>4, PeersAssumption
  DEF DispatchNew, Arrives, Unlocked, Goto, Add,
      TypeOK, FreshInv
<1>5. CASE PushCheck
  BY <1>1, <1>5, PeersAssumption
  DEF PushCheck, Add, Idle, DispatchInv, TypeOK,
      FreshInv, ListedAtHome, Usable
<1>6. CASE PushRefused
  BY <1>1, <1>6, PeersAssumption
  DEF PushRefused, Add, Idle, DispatchInv, TypeOK,
      FreshInv, ListedAtHome, Usable
<1>7. ASSUME NEW k \in 0..RawItems, PushAccepted(k)
      PROVE  FreshInv'
  BY <1>1, <1>7, PeersAssumption
  DEF PushAccepted, Add, Idle, DispatchInv, TypeOK,
      FreshInv, ListedAtHome, Usable
<1>8. CASE ListenerDrop
  BY <1>1, <1>8, PeersAssumption
  DEF ListenerDrop, Unlocked, counters, Listed,
      TypeOK, FreshInv, ListedAtHome, Usable
<1>9. ASSUME NEW p \in Associations, Split(p)
      PROVE  FreshInv'
  BY <1>1, <1>9 DEF Split, Goto, counters, TypeOK, FreshInv
<1>10. ASSUME NEW p \in Associations, ReceivePoll(p)
       PROVE  FreshInv'
  BY <1>1, <1>10 DEF ReceivePoll, Goto, counters, TypeOK, FreshInv
<1>11. ASSUME NEW p \in Associations, ReceiveNext(p)
       PROVE  FreshInv'
  BY <1>1, <1>11 DEF ReceiveNext, Goto, Add, TypeOK, FreshInv
<1>12. ASSUME NEW p \in Associations, CloseReader(p)
       PROVE  FreshInv'
  BY <1>1, <1>12 DEF CloseReader, Goto, counters, TypeOK, FreshInv
<1>13. ASSUME NEW p \in Associations, DropReadHalf(p)
       PROVE  FreshInv'
  BY <1>1, <1>13 DEF DropReadHalf, Goto, counters, TypeOK, FreshInv
<1>14. ASSUME NEW p \in Associations, Drain(p)
       PROVE  FreshInv'
  BY <1>1, <1>14 DEF Drain, Goto, Add, TypeOK, FreshInv
<1>15. ASSUME NEW p \in Associations, Unlist(p)
       PROVE  FreshInv'
  BY <1>1, <1>15, PeersAssumption
  DEF Unlist, Unlocked, Goto, counters, TypeOK,
      FreshInv
<1>16. ASSUME NEW p \in Associations, CancelState(p)
       PROVE  FreshInv'
  BY <1>1, <1>16 DEF CancelState, Goto, counters, TypeOK, FreshInv
<1>17. ASSUME NEW p \in Associations, ReleaseSlot(p)
       PROVE  FreshInv'
  BY <1>1, <1>17 DEF ReleaseSlot, Goto, counters, TypeOK, FreshInv
<1>18. QED
  BY <1>2, <1>3, <1>4, <1>5, <1>6, <1>7, <1>8, <1>9, <1>10,
     <1>11, <1>12, <1>13, <1>14, <1>15, <1>16, <1>17
  DEF Next, Listener, Owner

\* The map routes to associations that have not begun to leave it.
LEMMA ListedKeeps == IInv /\ [Next]_vars => ListedAtHome'
<1> SUFFICES ASSUME IInv, [Next]_vars
             PROVE  ListedAtHome'
  OBVIOUS
<1>1. TypeOK /\ DispatchInv /\ ListedAtHome
  BY DEF IInv
<1>2. CASE UNCHANGED vars
  BY <1>1, <1>2 DEF vars, ListedAtHome, Usable
<1>3. ASSUME NEW a \in Addresses, NEW big \in BOOLEAN, DispatchKnown(a, big)
      PROVE  ListedAtHome'
  BY <1>1, <1>3, PeersAssumption
  DEF DispatchKnown, Arrives, Unlocked, Add, TypeOK,
      ListedAtHome, Usable
<1>4. ASSUME NEW a \in Addresses, NEW p \in Associations, DispatchNew(a, p)
      PROVE  ListedAtHome'
  BY <1>1, <1>4, PeersAssumption
  DEF DispatchNew, Arrives, Unlocked, Goto, Add,
      TypeOK, ListedAtHome, Usable
<1>5. CASE PushCheck
  BY <1>1, <1>5, PeersAssumption
  DEF PushCheck, Add, Idle, DispatchInv, TypeOK,
      ListedAtHome, Usable
<1>6. CASE PushRefused
  BY <1>1, <1>6, PeersAssumption
  DEF PushRefused, Add, Idle, DispatchInv, TypeOK,
      ListedAtHome, Usable
<1>7. ASSUME NEW k \in 0..RawItems, PushAccepted(k)
      PROVE  ListedAtHome'
  BY <1>1, <1>7, PeersAssumption
  DEF PushAccepted, Add, Idle, DispatchInv, TypeOK,
      ListedAtHome, Usable
<1>8. CASE ListenerDrop
  BY <1>1, <1>8, PeersAssumption
  DEF ListenerDrop, Unlocked, counters, Listed,
      TypeOK, ListedAtHome, Usable
<1>9. ASSUME NEW p \in Associations, Split(p)
      PROVE  ListedAtHome'
  BY <1>1, <1>9 DEF Split, Goto, counters, TypeOK, ListedAtHome, Usable
<1>10. ASSUME NEW p \in Associations, ReceivePoll(p)
       PROVE  ListedAtHome'
  BY <1>1, <1>10 DEF ReceivePoll, Goto, counters, TypeOK, ListedAtHome, Usable
<1>11. ASSUME NEW p \in Associations, ReceiveNext(p)
       PROVE  ListedAtHome'
  BY <1>1, <1>11 DEF ReceiveNext, Goto, Add, TypeOK, ListedAtHome, Usable
<1>12. ASSUME NEW p \in Associations, CloseReader(p)
       PROVE  ListedAtHome'
  BY <1>1, <1>12 DEF CloseReader, Goto, counters, TypeOK, ListedAtHome, Usable
<1>13. ASSUME NEW p \in Associations, DropReadHalf(p)
       PROVE  ListedAtHome'
  BY <1>1, <1>13 DEF DropReadHalf, Goto, counters, TypeOK, ListedAtHome, Usable
<1>14. ASSUME NEW p \in Associations, Drain(p)
       PROVE  ListedAtHome'
  BY <1>1, <1>14 DEF Drain, Goto, Add, TypeOK, ListedAtHome, Usable
<1>15. ASSUME NEW p \in Associations, Unlist(p)
       PROVE  ListedAtHome'
  BY <1>1, <1>15, PeersAssumption
  DEF Unlist, Unlocked, Goto, counters, TypeOK,
      ListedAtHome, Usable
<1>16. ASSUME NEW p \in Associations, CancelState(p)
       PROVE  ListedAtHome'
  BY <1>1, <1>16 DEF CancelState, Goto, counters, TypeOK, ListedAtHome, Usable
<1>17. ASSUME NEW p \in Associations, ReleaseSlot(p)
       PROVE  ListedAtHome'
  BY <1>1, <1>17 DEF ReleaseSlot, Goto, counters, TypeOK, ListedAtHome, Usable
<1>18. QED
  BY <1>2, <1>3, <1>4, <1>5, <1>6, <1>7, <1>8, <1>9, <1>10,
     <1>11, <1>12, <1>13, <1>14, <1>15, <1>16, <1>17
  DEF Next, Listener, Owner

\* An open association is never displaced.
LEMMA OpenKeeps == IInv /\ [Next]_vars => OpenIsListed'
<1> SUFFICES ASSUME IInv, [Next]_vars, NEW p \in Associations,
                    Usable(p)', ~closed'[p]
             PROVE  peers'[address'[p]] = p
  BY DEF OpenIsListed
<1>1. TypeOK /\ ListedAtHome /\ OpenIsListed /\ FreshInv
  BY DEF IInv
<1>2. CASE UNCHANGED vars
  BY <1>1, <1>2 DEF vars, OpenIsListed, Usable
<1>3. ASSUME NEW a \in Addresses, NEW q \in Associations, DispatchNew(a, q)
      PROVE  peers'[address'[p]] = p
  <2>1. CASE p = q
    BY <1>1, <1>3, <2>1 DEF DispatchNew, TypeOK
  <2>2. CASE p # q
    <3>1. Usable(p) /\ ~closed[p] /\ address'[p] = address[p]
      BY <1>1, <1>3, <2>2 DEF DispatchNew, Goto, Usable, TypeOK
    <3>2. peers[address[p]] = p /\ address[p] \in Addresses
      BY <1>1, <3>1 DEF OpenIsListed, FreshInv, Usable
    <3>3. address[p] # a
      BY <1>3, <3>1, <3>2, PeersAssumption DEF DispatchNew
    <3>4. QED
      BY <1>1, <1>3, <3>1, <3>2, <3>3 DEF DispatchNew, TypeOK
  <2>3. QED
    BY <2>1, <2>2
<1>4. CASE ListenerDrop
  <2>1. Usable(p) /\ ~closed[p] /\ p \notin Listed
    BY <1>1, <1>4 DEF ListenerDrop, Usable, TypeOK
  <2>2. peers[address[p]] = p /\ address[p] \in Addresses
    BY <1>1, <2>1 DEF OpenIsListed, FreshInv, Usable
  <2>3. QED
    BY <2>1, <2>2 DEF Listed
<1>5. ASSUME NEW q \in Associations, Unlist(q)
      PROVE  peers'[address'[p]] = p
  <2>1. p # q /\ Usable(p) /\ ~closed[p] /\ address' = address
    BY <1>1, <1>5 DEF Unlist, Goto, Usable, TypeOK
  <2>2. peers[address[p]] = p /\ address[p] \in Addresses
    BY <1>1, <2>1 DEF OpenIsListed, FreshInv, Usable
  <2>3. QED
    BY <1>1, <1>5, <2>1, <2>2 DEF Unlist, TypeOK
<1>6. CASE Usable(p) /\ ~closed[p] /\ UNCHANGED <<peers, address>>
  BY <1>1, <1>6 DEF OpenIsListed
<1>7. \/ Usable(p) /\ ~closed[p] /\ UNCHANGED <<peers, address>>
      \/ UNCHANGED vars
      \/ \E a \in Addresses, q \in Associations : DispatchNew(a, q)
      \/ ListenerDrop
      \/ \E q \in Associations : Unlist(q)
  BY <1>1
  DEF Next, Listener, Owner, DispatchKnown, Arrives, PushCheck, PushRefused,
      PushAccepted, Split, ReceivePoll, ReceiveNext, CloseReader, DropReadHalf,
      Drain, CancelState, ReleaseSlot, Goto, TypeOK, Usable
<1>8. QED
  BY <1>2, <1>3, <1>4, <1>5, <1>6, <1>7

\* No step loses a datagram.
LEMMA AccountedKeeps == IInv /\ [Next]_vars => DatagramsAccounted'
<1> SUFFICES ASSUME IInv, [Next]_vars, NEW p \in Associations
             PROVE  received'[p] = delivered'[p] + dropped'[p] + queued'[p] + InFlight(p)'
  BY DEF DatagramsAccounted
<1>1. TypeOK /\ DispatchInv /\ FreshInv /\ QueueInv
  BY DEF IInv
<1>2. /\ received[p] \in Nat /\ delivered[p] \in Nat /\ dropped[p] \in Nat
      /\ queued[p] \in Nat /\ InFlight(p) \in {0, 1}
      /\ received[p] = delivered[p] + dropped[p] + queued[p] + InFlight(p)
  BY DEF IInv, TypeOK, DatagramsAccounted, InFlight
<1>3. CASE UNCHANGED <<counters, queued, dispatch>>
  BY <1>2, <1>3 DEF counters, InFlight
<1>4. ASSUME NEW a \in Addresses, NEW big \in BOOLEAN, DispatchKnown(a, big)
      PROVE  received'[p] = delivered'[p] + dropped'[p] + queued'[p] + InFlight(p)'
  BY <1>1, <1>2, <1>4, PeersAssumption
  DEF DispatchKnown, Arrives, Unlocked, Idle, InFlight, Add, TypeOK
<1>5. ASSUME NEW a \in Addresses, NEW q \in Associations, DispatchNew(a, q)
      PROVE  received'[p] = delivered'[p] + dropped'[p] + queued'[p] + InFlight(p)'
  BY <1>1, <1>2, <1>5, SMTT(20) DEF DispatchNew, Goto, InFlight, Add, TypeOK
<1>6. CASE PushCheck
  BY <1>1, <1>2, <1>6, PeersAssumption DEF PushCheck, InFlight, Add, TypeOK, DispatchInv, Idle
<1>7. CASE PushRefused
  BY <1>1, <1>2, <1>7, PeersAssumption DEF PushRefused, InFlight, Add, TypeOK, DispatchInv, Idle
<1>8. ASSUME NEW k \in 0..RawItems, PushAccepted(k)
      PROVE  received'[p] = delivered'[p] + dropped'[p] + queued'[p] + InFlight(p)'
  BY <1>1, <1>2, <1>8, PeersAssumption
  DEF PushAccepted, InFlight, Add, TypeOK, DispatchInv, Idle
<1>9. ASSUME NEW q \in Associations, ReceiveNext(q)
      PROVE  received'[p] = delivered'[p] + dropped'[p] + queued'[p] + InFlight(p)'
  BY <1>1, <1>2, <1>9 DEF ReceiveNext, InFlight, Add, TypeOK
<1>10. ASSUME NEW q \in Associations, Drain(q)
       PROVE  received'[p] = delivered'[p] + dropped'[p] + queued'[p] + InFlight(p)'
  BY <1>1, <1>2, <1>10 DEF Drain, InFlight, Add, TypeOK
<1>11. QED
  BY <1>3, <1>4, <1>5, <1>6, <1>7, <1>8, <1>9, <1>10
  DEF vars, counters, Next, Listener, Owner, ListenerDrop, Split, ReceivePoll,
      CloseReader, DropReadHalf, Unlist, CancelState, ReleaseSlot

\* Slots and the associations that hold one are exchanged one for one.
LEMMA BoundedKeeps == IInv /\ [Next]_vars => PeersBounded'
<1> SUFFICES ASSUME IInv, [Next]_vars
             PROVE  PeersBounded'
  OBVIOUS
<1>1. /\ TypeOK /\ PeersBounded
      /\ IsFiniteSet(Holding) /\ Cardinality(Holding) \in Nat
  <2>1. IsFiniteSet(Holding)
    BY PeersAssumption, FS_Subset DEF Holding
  <2>2. QED
    BY <2>1, FS_CardinalityType DEF IInv
<1>2. CASE slots' = slots /\ Holding' = Holding
  BY <1>1, <1>2 DEF PeersBounded
<1>3. ASSUME NEW a \in Addresses, NEW p \in Associations, DispatchNew(a, p)
      PROVE  PeersBounded'
  <2>1. Holding' = Holding \cup {p} /\ p \notin Holding
    BY <1>1, <1>3 DEF DispatchNew, Goto, Holding, TypeOK
  <2>2. slots' = slots - 1 /\ slots \in Nat
    BY <1>1, <1>3 DEF DispatchNew, TypeOK
  <2>3. Cardinality(Holding') = Cardinality(Holding) + 1
    BY <1>1, <2>1, FS_AddElement
  <2>4. QED
    BY <1>1, <2>2, <2>3, PeersAssumption DEF PeersBounded
<1>4. ASSUME NEW p \in Associations, ReleaseSlot(p)
      PROVE  PeersBounded'
  <2>1. Holding' = Holding \ {p} /\ p \in Holding
    BY <1>1, <1>4 DEF ReleaseSlot, Goto, Holding, TypeOK
  <2>2. slots' = slots + 1 /\ slots \in Nat
    BY <1>1, <1>4 DEF ReleaseSlot, TypeOK
  <2>3. Cardinality(Holding') = Cardinality(Holding) - 1
    BY <1>1, <2>1, FS_RemoveElement
  <2>4. QED
    BY <1>1, <2>2, <2>3, PeersAssumption DEF PeersBounded
<1>5. \/ slots' = slots /\ Holding' = Holding
      \/ \E a \in Addresses, p \in Associations : DispatchNew(a, p)
      \/ \E p \in Associations : ReleaseSlot(p)
  BY <1>1
  DEF vars, Next, Listener, Owner, DispatchKnown, PushCheck, PushRefused,
      PushAccepted, ListenerDrop, Split, ReceivePoll, ReceiveNext, CloseReader,
      DropReadHalf, Drain, Unlist, CancelState, Goto, TypeOK, Holding
<1>6. QED
  BY <1>2, <1>3, <1>4, <1>5

-----------------------------------------------------------------------------
(* The theorems.                                                           *)

\* The inductive invariant holds in every reachable state.
THEOREM Invariance == Spec => []IInv
<1>1. IInv /\ [Next]_vars => IInv'
  BY TypeKeeps, DispatchKeeps, QueueKeeps, FreshKeeps, BoundedKeeps, OpenKeeps,
     ListedKeeps, AccountedKeeps
  DEF IInv
<1>2. QED
  BY <1>1, InitHolds, PTL DEF Spec

\* Counters and permits never go below zero.
THEOREM TypeCorrect == Spec => []TypeOK
<1>1. IInv => TypeOK
  BY DEF IInv
<1>2. QED
  BY <1>1, Invariance, PTL

\* At most max_peers associations exist, and no slot is lost.
THEOREM Bounded == Spec => []PeersBounded
<1>1. IInv => PeersBounded
  BY DEF IInv
<1>2. QED
  BY <1>1, Invariance, PTL

\* Dropping or replacing an association never cuts off a newer one.
THEOREM OpenStaysListed == Spec => []OpenIsListed
<1>1. IInv => OpenIsListed
  BY DEF IInv
<1>2. QED
  BY <1>1, Invariance, PTL

\* dispatch only ever finds associations that still hold their slot.
THEOREM RoutesHome == Spec => []ListedAtHome
<1>1. IInv => ListedAtHome
  BY DEF IInv
<1>2. QED
  BY <1>1, Invariance, PTL

\* Every received datagram is delivered, counted as dropped, queued or being
\* pushed.
THEOREM Accounted == Spec => []DatagramsAccounted
<1>1. IInv => DatagramsAccounted
  BY DEF IInv
<1>2. QED
  BY <1>1, Invariance, PTL

\* Nothing is pushed behind the drain.
THEOREM NoneLeftBehind == Spec => []NothingLeftBehind
<1>1. IInv => NothingLeftBehind
  <2> SUFFICES ASSUME IInv, NEW p \in Associations, ~queue_open[p]
               PROVE  queued[p] = 0 /\ (InFlight(p) = 1 => stage[p] # "gone")
    BY DEF NothingLeftBehind
  <2>1. queued[p] = 0
    BY DEF IInv, QueueInv
  <2>2. dispatch.to = p => stage[p] # "gone"
    BY PeersAssumption DEF IInv, DispatchInv, Idle, Usable
  <2>3. QED
    BY <2>1, <2>2 DEF InFlight
<1>2. QED
  BY <1>1, Invariance, PTL

-----------------------------------------------------------------------------
(* Framed stream: the inductive invariant                                  *)

\* What send() made of packet k: its length, its payload, both together.
Length(k) == SerializePacketLength(prefix, Len(Encoding[sent[k]]))
Payload(k) == Code(marks[k].pos, Encoding[sent[k]])
Frame(k) == Length(k) \o Payload(k).bytes

\* Frame k stands in the stream where its mark says, and the next mark is
\* behind it.
FrameAt(k) ==
    /\ Length(k) # <<>>
    /\ marks[k + 1] = [at |-> marks[k].at + Len(Frame(k)), pos |-> Payload(k).pos]
    /\ \A i \in 1..Len(Frame(k)) : stream[marks[k].at + i] = Frame(k)[i]

\* The stream is the frames of the packets sent, one behind the other.
FramesInv ==
    /\ Len(marks) > 0 /\ Len(marks) <= Len(sent) + 1
    /\ marks[Len(marks)].at = Len(stream)
    /\ \A k \in 1..Len(marks) : marks[k].at <= Len(stream)
    /\ writer # "ended" => Len(marks) = Len(sent) + 1 /\ sendPos = marks[Len(marks)].pos
    /\ \A k \in 1..Len(marks) - 1 : FrameAt(k)

\* What was read, is on the wire and is still to be written continue each
\* other in the stream.
WireInv ==
    /\ taken + Len(wire) + Len(out) <= Len(stream)
    /\ writer # "ended" => taken + Len(wire) + Len(out) = Len(stream)
    /\ writer = "writing" <=> out # <<>>
    /\ Len(buf) <= taken
    /\ \A i \in DOMAIN buf : buf[i] = stream[taken - Len(buf) + i]
    /\ \A i \in DOMAIN wire : wire[i] = stream[taken + i]
    /\ \A i \in DOMAIN out : out[i] = stream[taken + Len(wire) + i]

\* The packet that the reader is at.
Reading == Len(returned) + 1

\* The reader is at the prefix or at the payload of the frame behind those it
\* has returned, and its codec is where the sender's was.
ReadInv ==
    /\ Reading <= Len(marks)
    /\ \A i \in DOMAIN returned : returned[i] = sent[i]
    /\ reader # "ended" => poisoned \/ recvPos = marks[Reading].pos
    /\ reader = "starting" => taken = marks[Reading].at /\ buf = <<>>
    /\ reader = "prefix" =>
          /\ taken - Len(buf) = marks[Reading].at
          /\ \/ Len(buf) + need = PrefixSize(prefix)
             \/ prefix = "extended" /\ Len(buf) > 0 /\ Len(buf) + need = 3
    /\ reader = "payload" =>
          /\ Reading < Len(marks)
          /\ taken - Len(buf) = marks[Reading].at + Len(Length(Reading))
          /\ Len(buf) + need = Len(Encoding[sent[Reading]])

\* The limit in force was configured since the last sync_limits, and no
\* receive task runs before there is one.
LimitInv ==
    /\ synced => limit \in allowed
    /\ reader # "starting" => synced

\* A position is that of a codec that may have one.
PoisonInv == poisoned => codec = "Mutable"

StreamInv == StreamTypeOK /\ FramesInv /\ WireInv /\ ReadInv /\ LimitInv /\ PoisonInv
-----------------------------------------------------------------------------
(* Sequences                                                               *)

LEMMA Joined ==
    ASSUME NEW S, NEW s \in Seq(S), NEW t \in Seq(S)
    PROVE  /\ s \o t \in Seq(S) /\ Len(s \o t) = Len(s) + Len(t)
           /\ \A i \in 1..Len(s) : (s \o t)[i] = s[i]
           /\ \A i \in 1..Len(t) : (s \o t)[Len(s) + i] = t[i]
<1> DEFINE u == s \o t
<1>1. /\ u \in Seq(S) /\ Len(u) = Len(s) + Len(t)
      /\ \A i \in 1..Len(s) + Len(t) : u[i] = IF i <= Len(s) THEN s[i] ELSE t[i - Len(s)]
  BY ConcatProperties
<1>2. Len(s) \in Nat /\ Len(t) \in Nat
  OBVIOUS
<1> HIDE DEF u
<1>3. ASSUME NEW i \in 1..Len(s)
      PROVE  u[i] = s[i]
  <2>1. i \in 1..Len(s) + Len(t) /\ i <= Len(s)
    BY <1>2
  <2>2. QED
    BY <1>1, <2>1
<1>4. ASSUME NEW i \in 1..Len(t)
      PROVE  u[Len(s) + i] = t[i]
  <2> DEFINE j == Len(s) + i
  <2>1. j \in 1..Len(s) + Len(t) /\ ~(j <= Len(s)) /\ j - Len(s) = i
    BY <1>2
  <2> HIDE DEF j
  <2>2. u[j] = t[i]
    BY <1>1, <2>1
  <2>3. QED
    BY <2>2 DEF j
<1>5. QED
  BY <1>1, <1>3, <1>4 DEF u

LEMMA Popped ==
    ASSUME NEW S, NEW s \in Seq(S), s # <<>>
    PROVE  /\ Head(s) = s[1] /\ Head(s) \in S
           /\ Tail(s) \in Seq(S) /\ Len(Tail(s)) = Len(s) - 1 /\ Len(s) > 0
           /\ \A i \in 1..Len(s) - 1 : Tail(s)[i] = s[i + 1]
  OBVIOUS

LEMMA Appended ==
    ASSUME NEW S, NEW s \in Seq(S), NEW e \in S
    PROVE  /\ Append(s, e) \in Seq(S) /\ Len(Append(s, e)) = Len(s) + 1
           /\ \A i \in 1..Len(s) : Append(s, e)[i] = s[i]
           /\ Append(s, e)[Len(s) + 1] = e
  OBVIOUS

\* A sequence is its length and its places.
LEMMA Equal ==
    ASSUME NEW S, NEW s \in Seq(S), NEW t \in Seq(S), Len(s) = Len(t),
           \A i \in 1..Len(s) : s[i] = t[i]
    PROVE  s = t
  OBVIOUS

-----------------------------------------------------------------------------
(* Codecs                                                                  *)

\* The two digits of a length that fits in two bytes.
LEMMA Digits ==
    ASSUME NEW n \in Nat, n < Base * Base
    PROVE  /\ n % Base \in Byte /\ n \div Base \in Byte
           /\ (n % Base) + Base * (n \div Base) = n
<1> DEFINE q == n \div Base
           r == n % Base
<1>1. Base \in Nat /\ Base > 0
  BY StreamAssumption
<1>2. q \in Int /\ r \in Int /\ n = Base * q + r /\ 0 <= r /\ r < Base
  BY <1>1
<1> HIDE DEF q, r
<1>3. q >= 0
  <2>1. SUFFICES ASSUME q <= -1
                 PROVE  FALSE
    BY <1>2
  <2>2. Base * q <= -Base
    BY <1>1, <1>2, <2>1
  <2>3. QED
    BY <1>1, <1>2, <2>2
<1>4. q < Base
  <2>1. SUFFICES ASSUME q >= Base
                 PROVE  FALSE
    BY <1>1, <1>2
  <2>2. Base * q >= Base * Base
    BY <1>1, <1>2, <2>1
  <2>3. QED
    BY <1>1, <1>2, <2>2
<1>5. r + Base * q = n
  BY <1>1, <1>2
<1>6. QED
  BY <1>1, <1>2, <1>3, <1>4, <1>5 DEF Byte, q, r

\* A length that can be written is one to three bytes, and its decoder asks
\* for no more and no less than these.
LEMMA LengthWritten ==
    ASSUME NEW p \in LengthCodecs, NEW n \in Nat, SerializePacketLength(p, n) # <<>>
    PROVE  LET l == SerializePacketLength(p, n)
           IN  /\ l \in Seq(Byte)
               /\ Len(l) = IF p = "extended" THEN 3 ELSE PrefixSize(p)
               /\ DeserializePacketLength(p, l) = [length |-> n]
               /\ p = "extended" => l[1] = Base - 1
<1> USE DEF LengthCodecs
<1>1. n < Base * Base
  BY StreamAssumption DEF SerializePacketLength
<1>2. n % Base \in Byte /\ n \div Base \in Byte /\ (n % Base) + Base * (n \div Base) = n
  BY <1>1, Digits
<1> DEFINE l == SerializePacketLength(p, n)
<1>3. CASE p = "little1"
  <2>1. n < Base /\ l = <<n>>
    BY <1>1, <1>3, StreamAssumption DEF SerializePacketLength
  <2>2. n \in Byte
    BY <2>1, StreamAssumption DEF Byte
  <2> HIDE DEF l
  <2>3. l \in Seq(Byte) /\ Len(l) = 1 /\ l[1] = n
    BY <2>1, <2>2
  <2>4. DeserializePacketLength(p, l) = [length |-> l[1]]
    BY <1>3, <2>3 DEF DeserializePacketLength, PrefixSize
  <2>5. QED
    BY <1>3, <2>3, <2>4 DEF l, PrefixSize
<1>4. CASE p = "little2"
  <2>1. l = <<n % Base, n \div Base>>
    BY <1>1, <1>4, StreamAssumption DEF SerializePacketLength, Little
  <2> HIDE DEF l
  <2>2. l \in Seq(Byte) /\ Len(l) = 2 /\ l[1] = n % Base /\ l[2] = n \div Base
    BY <1>2, <2>1
  <2>3. DeserializePacketLength(p, l) = [length |-> FromLittle(l)]
    BY <1>4, <2>2 DEF DeserializePacketLength, PrefixSize
  <2>4. FromLittle(l) = n
    BY <1>2, <2>2 DEF FromLittle
  <2>5. QED
    BY <1>4, <2>2, <2>3, <2>4 DEF l, PrefixSize
<1>5. CASE p = "big2"
  <2>1. l = <<n \div Base, n % Base>>
    BY <1>1, <1>5, StreamAssumption DEF SerializePacketLength
  <2> HIDE DEF l
  <2>2. l \in Seq(Byte) /\ Len(l) = 2 /\ l[2] = n % Base /\ l[1] = n \div Base
    BY <1>2, <2>1
  <2>3. DeserializePacketLength(p, l) = [length |-> FromLittle(<<l[2], l[1]>>)]
    BY <1>5, <2>2 DEF DeserializePacketLength, PrefixSize
  <2>4. FromLittle(<<l[2], l[1]>>) = n
    BY <1>2, <2>2 DEF FromLittle
  <2>5. QED
    BY <1>5, <2>2, <2>3, <2>4 DEF l, PrefixSize
<1>6. CASE p = "extended"
  <2> DEFINE d == Little(n)
  <2>1. d \in Seq(Byte) /\ Len(d) = 2 /\ d[1] = n % Base /\ d[2] = n \div Base
    BY <1>2 DEF Little
  <2>2. Base - 1 \in Byte
    BY StreamAssumption DEF Byte
  <2>3. l = <<Base - 1>> \o d
    BY <1>1, <1>6, StreamAssumption DEF SerializePacketLength
  <2> HIDE DEF l, d
  <2> DEFINE e == <<Base - 1>>
  <2>0. e \in Seq(Byte) /\ Len(e) = 1 /\ e[1] = Base - 1 /\ l = e \o d
    BY <2>2, <2>3
  <2> HIDE DEF e
  <2>4. l \in Seq(Byte) /\ Len(l) = 3 /\ l[1] = Base - 1 /\ l[2] = d[1] /\ l[3] = d[2]
    <3>1. /\ e \o d \in Seq(Byte) /\ Len(e \o d) = Len(e) + Len(d)
          /\ \A i \in 1..Len(e) : (e \o d)[i] = e[i]
          /\ \A i \in 1..Len(d) : (e \o d)[Len(e) + i] = d[i]
      <4>1. e \in Seq(Byte) /\ d \in Seq(Byte)
        BY <2>0, <2>1
      <4>2. QED
        BY <4>1, Joined
    <3>2. Len(l) = 1 + 2 /\ l[1] = e[1] /\ l[1 + 1] = d[1] /\ l[1 + 2] = d[2]
      BY <2>0, <2>1, <3>1
    <3>3. QED
      BY <2>0, <3>1, <3>2
  <2>5. Tail(l)[1] = d[1] /\ Tail(l)[2] = d[2]
    <3>0. Len(l) = 3
      BY <2>4
    <3>1. l # <<>>
      BY <3>0
    <3>2. \A i \in 1..Len(l) - 1 : Tail(l)[i] = l[i + 1]
      BY <2>4, <3>1, Popped
    <3>3. QED
      BY <2>4, <3>2
  <2>6. l # <<Base - 1>>
    BY <2>4
  <2>7. DeserializePacketLength(p, l) = [length |-> FromLittle(Tail(l))]
    BY <1>6, <2>4, <2>6 DEF DeserializePacketLength, PrefixSize
  <2>8. FromLittle(Tail(l)) = n
    BY <1>2, <2>1, <2>5 DEF FromLittle
  <2>9. QED
    BY <1>6, <2>4, <2>7, <2>8 DEF l
<1>7. QED
  BY <1>3, <1>4, <1>5, <1>6

\* A codec keeps the number of bytes, and applied at the same position again
\* it gives the bytes back and ends at the same position.
LEMMA CodeInverse ==
    ASSUME NEW pos \in Byte, NEW data \in Seq(Byte)
    PROVE  LET c == Code(pos, data)
           IN  /\ c.bytes \in Seq(Byte) /\ Len(c.bytes) = Len(data) /\ c.pos \in Byte
               /\ Code(pos, c.bytes).bytes = data
               /\ Code(pos, c.bytes).pos = c.pos
<1>1. CASE codec # "Mutable"
  BY <1>1 DEF Code
<1>2. CASE codec = "Mutable"
  <2> DEFINE key(i) == (pos + i - 1) % Base
             coded == [i \in DOMAIN data |-> XorTable[data[i]][key(i)]]
             after == (pos + Len(data)) % Base
  <2>1. Base \in Nat /\ Base > 0 /\ pos \in Int /\ Len(data) \in Nat /\ DOMAIN data = 1..Len(data)
    BY StreamAssumption DEF Byte
  <2>2. \A x \in Int : x % Base \in Byte
    BY <2>1 DEF Byte
  <2>3. \A i \in DOMAIN data : key(i) \in Byte
    <3>1. \A i \in DOMAIN data : pos + i - 1 \in Int
      BY <2>1
    <3>2. QED
      BY <2>2, <3>1
  <2>4. after \in Byte
    BY <2>1, <2>2
  <2>5. Code(pos, data) = [bytes |-> coded, pos |-> after]
    BY <1>2 DEF Code, Transform
  <2> HIDE DEF key, after
  <2>6. \A i \in DOMAIN data : data[i] \in Byte /\ coded[i] = XorTable[data[i]][key(i)] /\ coded[i] \in Byte
    BY <2>3, StreamAssumption
  <2>7. coded \in Seq(Byte) /\ Len(coded) = Len(data) /\ DOMAIN coded = DOMAIN data
    BY <2>1, <2>6
  <2>8. \A i \in DOMAIN data : XorTable[coded[i]][key(i)] = data[i]
    BY <2>3, <2>6, StreamAssumption
  <2> HIDE DEF coded
  <2>9. Code(pos, coded) = [bytes |-> [i \in DOMAIN data |-> XorTable[coded[i]][key(i)]], pos |-> after]
    BY <1>2, <2>7 DEF Code, Transform, key, after
  <2>10. [i \in DOMAIN data |-> XorTable[coded[i]][key(i)]] = data
    BY <2>8
  <2>11. QED
    BY <2>4, <2>5, <2>7, <2>9, <2>10
<1>3. QED
  BY <1>1, <1>2

-----------------------------------------------------------------------------
(* Types                                                                   *)

LEMMA LimitTypes ==
    ASSUME StreamTypeOK
    PROVE  Effective \in Limits \cup {Unlimited} /\ limit \in Nat /\ Unlimited \in Nat
<1>1. Unlimited \in Nat
  BY StreamAssumption DEF Unlimited
<1>2. QED
  BY <1>1, StreamAssumption DEF StreamTypeOK, Effective

LEMMA SendTypes ==
    ASSUME StreamTypeOK, NEW p \in Packets, Send(p)
    PROVE  StreamTypeOK'
<1> DEFINE c == Code(sendPos, Encoding[p])
           l == SerializePacketLength(prefix, Len(c.bytes))
<1>1. Encoding[p] \in Seq(Byte) /\ sendPos \in Byte /\ prefix \in LengthCodecs
  BY StreamAssumption DEF StreamTypeOK
<1>2. c.bytes \in Seq(Byte) /\ c.pos \in Byte
  BY <1>1, CodeInverse
<1>3. Len(c.bytes) \in Nat
  BY <1>2
<1>4. l # <<>> => l \in Seq(Byte)
  BY <1>1, <1>3, LengthWritten
<1>5. /\ sent' = Append(sent, p) /\ sendPos' = c.pos
      /\ \/ l = <<>> /\ writer' = "ended" /\ UNCHANGED <<out, stream, marks>>
         \/ /\ l # <<>> /\ writer' = "writing" /\ out' = l \o c.bytes /\ stream' = stream \o out'
            /\ marks' = Append(marks, [at |-> Len(stream'), pos |-> c.pos])
      /\ UNCHANGED <<codec, prefix, poisoned, wire, receiving, config>>
  BY DEF Send
<1> HIDE DEF c, l
<1>6. sent' \in Seq(Packets) /\ sendPos' \in Byte
  BY <1>2, <1>5 DEF StreamTypeOK
<1>7. out' \in Seq(Byte) /\ stream' \in Seq(Byte) /\ marks' \in Seq([at: Nat, pos: Byte])
  <2>1. CASE l = <<>>
    BY <1>5, <2>1 DEF StreamTypeOK
  <2>2. CASE l # <<>>
    <3>1. out' \in Seq(Byte)
      BY <1>2, <1>4, <1>5, <2>2, Joined
    <3>2. stream \in Seq(Byte) /\ stream' = stream \o out'
      BY <1>5, <2>2 DEF StreamTypeOK
    <3>3. stream' \in Seq(Byte)
      BY <3>1, <3>2, Joined
    <3>4. [at |-> Len(stream'), pos |-> c.pos] \in [at: Nat, pos: Byte]
      <4>1. Len(stream') \in Nat
        BY <3>3
      <4>2. QED
        BY <1>2, <4>1
    <3>5. marks \in Seq([at: Nat, pos: Byte])
      BY DEF StreamTypeOK
    <3>6. marks' \in Seq([at: Nat, pos: Byte])
      <4> DEFINE m == [at |-> Len(stream'), pos |-> c.pos]
                 Marks == [at: Nat, pos: Byte]
      <4>1. m \in Marks /\ marks \in Seq(Marks) /\ marks' = Append(marks, m)
        BY <1>5, <2>2, <3>4, <3>5
      <4> HIDE DEF m, Marks
      <4>2. marks' \in Seq(Marks)
        BY <4>1
      <4>3. QED
        BY <4>2 DEF Marks
    <3>7. QED
      BY <3>1, <3>3, <3>6
  <2>3. QED
    BY <2>1, <2>2
<1>8. writer' \in {"idle", "writing", "ended"}
  BY <1>5
<1>9. QED
  BY <1>5, <1>6, <1>7, <1>8 DEF StreamTypeOK, receiving, config

LEMMA OtherTypes ==
    ASSUME StreamTypeOK, WireInv,
           \/ UNCHANGED streamVars \/ Configure \/ SyncLimits \/ Setup \/ WriteByte \/ WriterEnds
           \/ ReadByte \/ ReaderEnds \/ CodecPanics
    PROVE  StreamTypeOK'
<1>1. CASE UNCHANGED streamVars
  BY <1>1 DEF StreamTypeOK, streamVars, sending, receiving, config
<1>2. CASE Configure
  <2>1. settings' \in Limits \cup {NoLimit} /\ global' \in Limits \cup {NoLimit}
    BY <1>2 DEF Configure, StreamTypeOK
  <2>2. Effective' \in Limits \cup {Unlimited}
    BY <2>1 DEF Effective, Unlimited
  <2>3. allowed' \subseteq Limits \cup {Unlimited}
    BY <1>2, <2>2 DEF Configure, StreamTypeOK
  <2>4. changes' \in 0..MaxChanges
    BY <1>2, StreamAssumption DEF Configure, StreamTypeOK
  <2>5. UNCHANGED <<codec, prefix, sending, poisoned, wire, receiving, limit, synced>>
    BY <1>2 DEF Configure
  <2>6. QED
    BY <2>1, <2>3, <2>4, <2>5 DEF StreamTypeOK, sending, receiving
<1>3. CASE SyncLimits
  <2>1. /\ limit' = Effective /\ synced' = TRUE /\ allowed' = {Effective}
        /\ UNCHANGED <<codec, prefix, sending, poisoned, wire, receiving, settings, global, changes>>
    BY <1>3 DEF SyncLimits
  <2>2. QED
    BY <2>1, LimitTypes DEF StreamTypeOK, sending, receiving
<1>4. CASE Setup
  BY <1>4 DEF Setup, StreamTypeOK, sending, config, PrefixSize
<1>5. CASE WriteByte
  <2>1. /\ writer = "writing" /\ wire' = Append(wire, Head(out)) /\ out' = Tail(out)
        /\ writer' \in {"idle", "writing"}
        /\ UNCHANGED <<codec, prefix, poisoned, sendPos, sent, stream, marks, receiving, config>>
    BY <1>5 DEF WriteByte
  <2>2. wire' \in Seq(Byte) /\ out' \in Seq(Byte)
    <3>1. out # <<>> /\ out \in Seq(Byte) /\ wire \in Seq(Byte)
      BY <2>1 DEF WireInv, StreamTypeOK
    <3>2. Head(out) \in Byte /\ Tail(out) \in Seq(Byte)
      BY <3>1, Popped
    <3>3. QED
      BY <2>1, <3>1, <3>2, Appended
  <2>3. QED
    BY <2>1, <2>2 DEF StreamTypeOK, receiving, config
<1>6. CASE WriterEnds
  <2>1. out' \in Seq(Byte) /\ writer' = "ended"
    BY <1>6 DEF WriterEnds
  <2>2. QED
    BY <1>6, <2>1 DEF WriterEnds, StreamTypeOK, receiving, config
<1>7. CASE ReadByte
  <2>1. buf' \in Seq(Byte) /\ wire' \in Seq(Byte)
    BY <1>7, Popped, Appended DEF ReadByte, StreamTypeOK
  <2>2. need' \in Nat /\ taken' \in Nat
    BY <1>7 DEF ReadByte, StreamTypeOK
  <2>3. QED
    BY <1>7, <2>1, <2>2 DEF ReadByte, StreamTypeOK, sending, config
<1>8. CASE ReaderEnds
  <2>1. buf' \in Seq(Byte) /\ need' \in Nat /\ reader' = "ended"
    BY <1>8 DEF ReaderEnds
  <2>2. QED
    BY <1>8, <2>1 DEF ReaderEnds, StreamTypeOK, sending, config
<1>9. CASE CodecPanics
  BY <1>9 DEF CodecPanics, StreamTypeOK, sending, config
<1>10. QED
  BY <1>1, <1>2, <1>3, <1>4, <1>5, <1>6, <1>7, <1>8, <1>9

-----------------------------------------------------------------------------
(* The frames in the stream                                                *)

\* What is known of a frame that was sent.
LEMMA FrameParts ==
    ASSUME StreamTypeOK, FramesInv, NEW k \in 1..Len(marks) - 1
    PROVE  /\ sent[k] \in Packets /\ Encoding[sent[k]] \in Seq(Byte) /\ marks[k].at \in Nat
           /\ marks[k].pos \in Byte
           /\ Length(k) \in Seq(Byte)
           /\ Len(Length(k)) = IF prefix = "extended" THEN 3 ELSE PrefixSize(prefix)
           /\ DeserializePacketLength(prefix, Length(k)) = [length |-> Len(Encoding[sent[k]])]
           /\ prefix = "extended" => Length(k)[1] = Base - 1
           /\ Payload(k).bytes \in Seq(Byte)
           /\ Len(Payload(k).bytes) = Len(Encoding[sent[k]])
           /\ marks[k + 1].pos = Payload(k).pos
           /\ marks[k + 1].at = marks[k].at + Len(Length(k)) + Len(Encoding[sent[k]])
           /\ \A i \in 1..Len(Length(k)) : stream[marks[k].at + i] = Length(k)[i]
           /\ \A i \in 1..Len(Encoding[sent[k]]) :
                 stream[marks[k].at + Len(Length(k)) + i] = Payload(k).bytes[i]
<1>1. FrameAt(k) /\ k \in 1..Len(sent) /\ k \in 1..Len(marks)
  <2>1. Len(marks) \in Nat /\ Len(sent) \in Nat /\ Len(marks) <= Len(sent) + 1
    BY DEF StreamTypeOK, FramesInv
  <2>2. QED
    BY <2>1 DEF FramesInv
<1>2. sent[k] \in Packets /\ marks[k] \in [at: Nat, pos: Byte]
  <2>1. sent \in Seq(Packets) /\ marks \in Seq([at: Nat, pos: Byte])
    BY DEF StreamTypeOK
  <2>2. sent[k] \in Packets
    BY <1>1, <2>1, ElementOfSeq
  <2>3. marks[k] \in [at: Nat, pos: Byte]
    BY <1>1, <2>1, ElementOfSeq
  <2>4. QED
    BY <2>2, <2>3
<1>3. Encoding[sent[k]] \in Seq(Byte) /\ marks[k].at \in Nat /\ marks[k].pos \in Byte
  BY <1>2, StreamAssumption
<1>4. Len(Encoding[sent[k]]) \in Nat /\ prefix \in LengthCodecs
  <2>1. Len(Encoding[sent[k]]) \in Nat
    BY <1>3
  <2>2. QED
    BY <2>1 DEF StreamTypeOK
<1>5. /\ Length(k) \in Seq(Byte)
      /\ Len(Length(k)) = IF prefix = "extended" THEN 3 ELSE PrefixSize(prefix)
      /\ DeserializePacketLength(prefix, Length(k)) = [length |-> Len(Encoding[sent[k]])]
      /\ prefix = "extended" => Length(k)[1] = Base - 1
  BY <1>1, <1>4, LengthWritten DEF FrameAt, Length
<1>6. Payload(k).bytes \in Seq(Byte) /\ Len(Payload(k).bytes) = Len(Encoding[sent[k]])
  BY <1>3, CodeInverse DEF Payload
<1> DEFINE l == Length(k)
           b == Payload(k).bytes
<1>7. /\ Frame(k) = l \o b /\ l \in Seq(Byte) /\ b \in Seq(Byte) /\ Len(b) = Len(Encoding[sent[k]])
      /\ Len(l) \in Nat /\ Len(b) \in Nat
  BY <1>5, <1>6 DEF Frame
<1>8. /\ marks[k + 1].at = marks[k].at + Len(Frame(k)) /\ marks[k + 1].pos = Payload(k).pos
      /\ \A i \in 1..Len(Frame(k)) : stream[marks[k].at + i] = Frame(k)[i]
  BY <1>1 DEF FrameAt
<1> HIDE DEF l, b
<1>9. /\ Len(Frame(k)) = Len(l) + Len(b)
      /\ \A i \in 1..Len(l) : Frame(k)[i] = l[i]
      /\ \A i \in 1..Len(b) : Frame(k)[Len(l) + i] = b[i]
  <2>1. l \in Seq(Byte) /\ b \in Seq(Byte)
    BY <1>7
  <2>2. /\ Len(l \o b) = Len(l) + Len(b)
        /\ \A i \in 1..Len(l) : (l \o b)[i] = l[i]
        /\ \A i \in 1..Len(b) : (l \o b)[Len(l) + i] = b[i]
    BY <2>1, Joined
  <2>3. QED
    BY <1>7, <2>2
<1>10. \A i \in 1..Len(l) : stream[marks[k].at + i] = l[i]
  <2>1. \A i \in 1..Len(l) : i \in 1..Len(Frame(k))
    BY <1>7, <1>9
  <2>2. QED
    BY <1>8, <1>9, <2>1
<1>11. ASSUME NEW i \in 1..Len(b)
       PROVE  stream[marks[k].at + Len(l) + i] = b[i]
  <2> DEFINE j == Len(l) + i
  <2>1. j \in 1..Len(Frame(k)) /\ marks[k].at + j = marks[k].at + Len(l) + i
    BY <1>3, <1>7, <1>9, SMTT(20)
  <2>2. stream[marks[k].at + j] = Frame(k)[j] /\ Frame(k)[j] = b[i]
    BY <1>8, <1>9, <2>1
  <2>3. QED
    BY <2>1, <2>2
<1>12. marks[k + 1].at = marks[k].at + Len(l) + Len(b)
  BY <1>3, <1>7, <1>8, <1>9
<1>13. QED
  BY <1>2, <1>3, <1>5, <1>6, <1>7, <1>8, <1>10, <1>11, <1>12 DEF l, b

\* Frames stay where they are.
LEMMA FramesStay ==
    ASSUME StreamTypeOK, FramesInv, UNCHANGED <<codec, prefix, sent, marks, stream>>,
           writer' # "ended" => writer # "ended" /\ UNCHANGED sendPos
    PROVE  FramesInv'
<1>1. ASSUME NEW k \in 1..Len(marks) - 1
      PROVE  FrameAt(k)'
  <2>1. Length(k)' = Length(k) /\ Payload(k)' = Payload(k) /\ FrameAt(k)
    BY <1>1 DEF Length, Payload, Code, FramesInv
  <2>2. QED
    BY <2>1 DEF FrameAt, Frame
<1>2. (\A k \in 1..Len(marks) - 1 : FrameAt(k))'
  BY <1>1
<1>3. (writer # "ended" => Len(marks) = Len(sent) + 1 /\ sendPos = marks[Len(marks)].pos)'
  BY DEF FramesInv
<1>4. (/\ Len(marks) > 0 /\ Len(marks) <= Len(sent) + 1
       /\ marks[Len(marks)].at = Len(stream)
       /\ \A k \in 1..Len(marks) : marks[k].at <= Len(stream))'
  BY DEF FramesInv
<1>5. QED
  BY <1>2, <1>3, <1>4 DEF FramesInv

\* A packet that is sent, its frame behind the others.
LEMMA SendFrames ==
    ASSUME StreamTypeOK, FramesInv, NEW p \in Packets, Send(p)
    PROVE  FramesInv'
<1> DEFINE c == Code(sendPos, Encoding[p])
           l == SerializePacketLength(prefix, Len(c.bytes))
           n == Len(marks)
           Marks == [at: Nat, pos: Byte]
<1>1. Encoding[p] \in Seq(Byte) /\ sendPos \in Byte /\ prefix \in LengthCodecs
  BY StreamAssumption DEF StreamTypeOK
<1>2. c.bytes \in Seq(Byte) /\ c.pos \in Byte /\ Len(c.bytes) = Len(Encoding[p])
  BY <1>1, CodeInverse
<1>3. Len(c.bytes) \in Nat
  BY <1>2
<1>4. l # <<>> => l \in Seq(Byte)
  BY <1>1, <1>3, LengthWritten
<1>5. /\ writer = "idle" /\ sent' = Append(sent, p) /\ sendPos' = c.pos
      /\ \/ l = <<>> /\ writer' = "ended" /\ UNCHANGED <<out, stream, marks>>
         \/ /\ l # <<>> /\ writer' = "writing" /\ out' = l \o c.bytes /\ stream' = stream \o out'
            /\ marks' = Append(marks, [at |-> Len(stream'), pos |-> c.pos])
      /\ UNCHANGED <<codec, prefix>>
  BY DEF Send
<1>6. /\ n \in Nat /\ n > 0 /\ n = Len(sent) + 1 /\ sendPos = marks[n].pos /\ marks[n].at = Len(stream)
      /\ Len(stream) \in Nat /\ marks \in Seq(Marks) /\ stream \in Seq(Byte) /\ sent \in Seq(Packets)
      /\ \A k \in 1..n : marks[k].at <= Len(stream)
      /\ \A k \in 1..n - 1 : FrameAt(k)
  BY <1>5 DEF StreamTypeOK, FramesInv
<1>7. /\ Len(sent') = n /\ sent'[n] = p
      /\ \A k \in 1..n - 1 : sent'[k] = sent[k]
  <2>1. sent \in Seq(Packets) /\ sent' = Append(sent, p) /\ Len(sent) \in Nat
    BY <1>5, <1>6, SMTT(20)
  <2>2. n = Len(sent) + 1 /\ n - 1 = Len(sent)
    <3>1. n = Len(sent) + 1
      BY <1>6
    <3>2. QED
      BY <2>1, <3>1
  <2>3. /\ Len(sent') = Len(sent) + 1 /\ sent'[Len(sent) + 1] = p
        /\ \A k \in 1..Len(sent) : sent'[k] = sent[k]
    BY <2>1, Appended
  <2>4. QED
    BY <2>2, <2>3
<1>8. CASE l = <<>>
  <2>1. ASSUME NEW k \in 1..n - 1
        PROVE  FrameAt(k)'
    <3>1. Length(k)' = Length(k) /\ Payload(k)' = Payload(k) /\ FrameAt(k)
      BY <1>5, <1>6, <1>7, <1>8 DEF Length, Payload, Code
    <3>2. QED
      BY <1>5, <1>8, <3>1 DEF FrameAt, Frame
  <2>2. marks' = marks /\ stream' = stream /\ writer' = "ended"
    BY <1>5, <1>8
  <2>3. (\A k \in 1..Len(marks) - 1 : FrameAt(k))'
    BY <2>1, <2>2
  <2> HIDE DEF c, l
  <2>4. (/\ Len(marks) > 0 /\ Len(marks) <= Len(sent) + 1
         /\ marks[Len(marks)].at = Len(stream)
         /\ \A k \in 1..Len(marks) : marks[k].at <= Len(stream))'
    <3>1. Len(marks) > 0 /\ Len(marks) <= Len(sent') + 1
      <4>1. n \in Nat /\ n > 0 /\ Len(sent') = n
        BY <1>6, <1>7
      <4>2. QED
        BY <4>1
    <3>2. marks[n].at = Len(stream) /\ \A k \in 1..n : marks[k].at <= Len(stream)
      BY <1>6
    <3>3. QED
      BY <2>2, <3>1, <3>2
  <2>5. QED
    BY <2>2, <2>3, <2>4 DEF FramesInv
<1>9. CASE l # <<>>
  <2> DEFINE m == [at |-> Len(stream'), pos |-> c.pos]
  <2>1. /\ out' = l \o c.bytes /\ stream' = stream \o out' /\ marks' = Append(marks, m)
        /\ writer' = "writing"
    BY <1>5, <1>9
  <2>2. out' \in Seq(Byte)
    <3>1. l \in Seq(Byte) /\ c.bytes \in Seq(Byte)
      BY <1>2, <1>4, <1>9
    <3>2. QED
      BY <2>1, <3>1, Joined
  <2>3. /\ stream' \in Seq(Byte) /\ Len(stream') = Len(stream) + Len(out')
        /\ \A i \in 1..Len(stream) : stream'[i] = stream[i]
        /\ \A i \in 1..Len(out') : stream'[Len(stream) + i] = out'[i]
    <3>1. stream \in Seq(Byte)
      BY <1>6
    <3> DEFINE o == out'
    <3>2. o \in Seq(Byte) /\ stream' = stream \o o
      BY <2>1, <2>2
    <3> HIDE DEF o
    <3>3. /\ stream \o o \in Seq(Byte) /\ Len(stream \o o) = Len(stream) + Len(o)
          /\ \A i \in 1..Len(stream) : (stream \o o)[i] = stream[i]
          /\ \A i \in 1..Len(o) : (stream \o o)[Len(stream) + i] = o[i]
      BY <3>1, <3>2, Joined
    <3>4. QED
      BY <3>2, <3>3 DEF o
  <2>4. m \in Marks
    <3>1. Len(stream') \in Nat
      BY <2>3
    <3>2. QED
      BY <1>2, <3>1
  <2>5. m.at = Len(stream') /\ m.pos = c.pos
    OBVIOUS
  <2> HIDE DEF c, l, m, n, Marks
  <2>6. /\ Len(marks') = n + 1 /\ marks'[n + 1] = m
        /\ \A k \in 1..n : marks'[k] = marks[k]
    BY <1>6, <2>1, <2>4, Appended DEF n
  <2>7. Len(out') \in Nat /\ Len(stream') >= Len(stream)
    BY <1>6, <2>2, <2>3
  <2>8. ASSUME NEW k \in 1..n - 1
        PROVE  FrameAt(k)'
    <3>1. k \in 1..n /\ k + 1 \in 1..n
      BY <1>6
    <3>2. Length(k)' = Length(k) /\ Payload(k)' = Payload(k) /\ FrameAt(k)
      BY <1>5, <1>6, <1>7, <2>6, <3>1 DEF Length, Payload, Code
    <3>3. Frame(k)' = Frame(k) /\ marks'[k] = marks[k] /\ marks'[k + 1] = marks[k + 1]
      BY <2>6, <3>1, <3>2 DEF Frame
    <3>4. /\ marks[k].at \in Nat /\ Len(Frame(k)) \in Nat
          /\ marks[k].at + Len(Frame(k)) <= Len(stream)
      <4>1. k \in 1..Len(marks) - 1
        BY DEF n
      <4>2. marks[k].at \in Nat /\ Length(k) \in Seq(Byte) /\ Payload(k).bytes \in Seq(Byte)
        BY <4>1, FrameParts
      <4>3. Len(Frame(k)) \in Nat
        BY <4>2, Joined DEF Frame
      <4>4. marks[k + 1].at = marks[k].at + Len(Frame(k)) /\ marks[k + 1].at <= Len(stream)
        BY <1>6, <3>1, <3>2, SMTT(20) DEF FrameAt
      <4>5. QED
        BY <4>2, <4>3, <4>4
    <3>5. \A i \in 1..Len(Frame(k)) : stream'[marks[k].at + i] = Frame(k)[i]
      <4> DEFINE a == marks[k].at
                 g == Len(Frame(k))
                 h == Len(stream)
      <4>0. a \in Nat /\ g \in Nat /\ h \in Nat /\ a + g <= h
        BY <1>6, <3>4
      <4> HIDE DEF a, g, h
      <4>1. \A i \in 1..g : a + i \in 1..h
        BY <4>0
      <4> USE DEF a, g, h
      <4>2. \A i \in 1..Len(Frame(k)) : stream[marks[k].at + i] = Frame(k)[i]
        BY <3>2 DEF FrameAt
      <4>3. QED
        BY <2>3, <4>1, <4>2
    <3>6. (Length(k) # <<>>)' /\ marks'[k + 1] = [at |-> marks'[k].at + Len(Frame(k)'), pos |-> Payload(k)'.pos]
      BY <3>2, <3>3 DEF FrameAt
    <3>7. QED
      BY <3>3, <3>5, <3>6 DEF FrameAt
  <2>9. ASSUME NEW k, k = n
        PROVE  FrameAt(k)'
    <3>1. sent'[k] = p /\ marks'[k] = marks[k] /\ marks'[k + 1] = m /\ marks[k].pos = sendPos
      BY <1>6, <1>7, <2>6, <2>9
    <3>2. Payload(k)' = c
      BY <1>5, <3>1 DEF Payload, Code, c
    <3>3. Length(k)' = l
      BY <1>2, <1>5, <3>1 DEF Length, l
    <3>4. Frame(k)' = out'
      BY <2>1, <3>2, <3>3 DEF Frame
    <3>5. marks'[k].at = Len(stream)
      BY <1>6, <2>9, <3>1
    <3>6. m = [at |-> Len(stream) + Len(out'), pos |-> c.pos]
      BY <2>3 DEF m
    <3>7. \A i \in 1..Len(out') : stream'[Len(stream) + i] = out'[i]
      BY <2>3
    <3>8. QED
      BY <1>9, <3>1, <3>2, <3>3, <3>4, <3>5, <3>6, <3>7 DEF FrameAt
  <2>10. (\A k \in 1..Len(marks) - 1 : FrameAt(k))'
    <3>1. \A k \in 1..n : k \in 1..n - 1 \/ k = n
      BY <1>6
    <3>2. Len(marks') - 1 = n
      BY <1>6, <2>6
    <3>3. \A k \in 1..n : FrameAt(k)'
      BY <2>8, <2>9, <3>1
    <3>4. QED
      BY <3>2, <3>3
  <2>11. (/\ Len(marks) > 0 /\ Len(marks) <= Len(sent) + 1
          /\ marks[Len(marks)].at = Len(stream))'
    BY <1>6, <1>7, <2>5, <2>6
  <2>12. \A k \in 1..Len(marks') : marks'[k].at <= Len(stream')
    <3>1. \A k \in 1..n : marks[k].at \in Nat
      <4>1. \A k \in 1..n : marks[k] \in Marks
        BY <1>6, ElementOfSeq DEF n
      <4>2. QED
        BY <4>1 DEF Marks
    <3>2. \A k \in 1..n : marks'[k].at <= Len(stream')
      BY <1>6, <2>3, <2>6, <2>7, <3>1
    <3>3. marks'[n + 1].at <= Len(stream')
      BY <1>6, <2>3, <2>5, <2>6, <2>7
    <3>4. QED
      BY <1>6, <2>6, <3>2, <3>3
  <2>13. (Len(marks) = Len(sent) + 1 /\ sendPos = marks[Len(marks)].pos)'
    BY <1>5, <1>6, <1>7, <2>5, <2>6
  <2>14. QED
    BY <2>10, <2>11, <2>12, <2>13 DEF FramesInv
<1>10. QED
  BY <1>8, <1>9

-----------------------------------------------------------------------------
(* The bytes on their way                                                  *)

\* What was read, is on the wire or waits is a part of a longer stream too.
LEMMA SendWire ==
    ASSUME StreamTypeOK, WireInv, NEW p \in Packets, Send(p)
    PROVE  WireInv'
<1> DEFINE c == Code(sendPos, Encoding[p])
           l == SerializePacketLength(prefix, Len(c.bytes))
<1>1. Encoding[p] \in Seq(Byte) /\ sendPos \in Byte /\ prefix \in LengthCodecs
  BY StreamAssumption DEF StreamTypeOK
<1>2. c.bytes \in Seq(Byte)
  BY <1>1, CodeInverse
<1>3. Len(c.bytes) \in Nat
  BY <1>2
<1>4. l # <<>> => l \in Seq(Byte)
  BY <1>1, <1>3, LengthWritten
<1>5. /\ writer = "idle"
      /\ \/ l = <<>> /\ writer' = "ended" /\ UNCHANGED <<out, stream>>
         \/ l # <<>> /\ writer' = "writing" /\ out' = l \o c.bytes /\ stream' = stream \o out'
      /\ UNCHANGED <<wire, buf, taken>>
  BY DEF Send, receiving
<1> HIDE DEF c, l
<1>6. /\ out = <<>> /\ taken + Len(wire) = Len(stream) /\ Len(buf) <= taken
      /\ \A i \in DOMAIN buf : buf[i] = stream[taken - Len(buf) + i]
      /\ \A i \in DOMAIN wire : wire[i] = stream[taken + i]
      /\ taken \in Nat /\ Len(wire) \in Nat /\ Len(buf) \in Nat /\ Len(stream) \in Nat
      /\ DOMAIN buf = 1..Len(buf) /\ DOMAIN wire = 1..Len(wire)
  BY <1>5 DEF WireInv, StreamTypeOK
<1>7. CASE l = <<>>
  BY <1>5, <1>6, <1>7 DEF WireInv
<1>8. CASE l # <<>>
  <2> DEFINE o == out'
  <2>1. l \in Seq(Byte) /\ c.bytes \in Seq(Byte) /\ o = l \o c.bytes /\ stream' = stream \o o /\ writer' = "writing"
    BY <1>2, <1>4, <1>5, <1>8
  <2> HIDE DEF o
  <2>2. o \in Seq(Byte) /\ Len(o) = Len(l) + Len(c.bytes)
    BY <2>1, Joined
  <2>3. Len(o) \in Nat /\ Len(o) > 0 /\ o # <<>>
    <3>1. Len(l) \in Nat /\ Len(l) > 0
      BY <1>8, <2>1
    <3>2. Len(o) \in Nat /\ Len(o) > 0
      BY <1>3, <2>2, <3>1
    <3>3. QED
      BY <2>2, <3>2
  <2>4. stream \in Seq(Byte)
    BY DEF StreamTypeOK
  <2>5. /\ Len(stream') = Len(stream) + Len(o)
        /\ \A i \in 1..Len(stream) : stream'[i] = stream[i]
        /\ \A i \in 1..Len(o) : stream'[Len(stream) + i] = o[i]
    BY <2>1, <2>2, <2>4, Joined
  <2>6. \A i \in 1..Len(buf) : taken - Len(buf) + i \in 1..Len(stream)
    BY <1>6
  <2>7. \A i \in 1..Len(wire) : taken + i \in 1..Len(stream)
    BY <1>6
  <2>8. \A i \in DOMAIN buf : buf[i] = stream'[taken - Len(buf) + i]
    BY <1>6, <2>5, <2>6
  <2>9. \A i \in DOMAIN wire : wire[i] = stream'[taken + i]
    BY <1>6, <2>5, <2>7
  <2>10. \A i \in DOMAIN o : o[i] = stream'[taken + Len(wire) + i]
    <3>1. DOMAIN o = 1..Len(o)
      BY <2>2
    <3>2. QED
      BY <1>6, <2>5, <3>1
  <2>11. taken + Len(wire) + Len(o) = Len(stream')
    BY <1>6, <2>3, <2>5
  <2>12. QED
    <3>1. Len(buf) <= taken
      BY <1>6
    <3>2. Len(stream') \in Nat
      BY <1>6, <2>3, <2>5
    <3>3. o = out'
      BY DEF o
    <3>4. UNCHANGED <<wire, buf, taken>> /\ writer' = "writing"
      BY <1>5, <2>1
    <3>5. QED
      BY <2>3, <2>8, <2>9, <2>10, <2>11, <3>1, <3>2, <3>3, <3>4 DEF WireInv
<1>9. QED
  BY <1>5, <1>7, <1>8

\* A byte that is written goes from the front of what waits to the end of
\* the wire.
LEMMA WriteWire ==
    ASSUME StreamTypeOK, WireInv, WriteByte
    PROVE  WireInv'
<1>1. /\ writer = "writing" /\ wire' = Append(wire, Head(out)) /\ out' = Tail(out)
      /\ writer' = IF out' = <<>> THEN "idle" ELSE "writing"
      /\ UNCHANGED <<stream, buf, taken>>
  BY DEF WriteByte, receiving
<1>2. out # <<>> /\ out \in Seq(Byte) /\ wire \in Seq(Byte)
  BY <1>1 DEF WireInv, StreamTypeOK
<1>3. /\ Head(out) = out[1] /\ Head(out) \in Byte /\ Tail(out) \in Seq(Byte)
      /\ Len(Tail(out)) = Len(out) - 1 /\ Len(out) > 0
      /\ \A i \in 1..Len(out) - 1 : Tail(out)[i] = out[i + 1]
  BY <1>2, Popped
<1>4. /\ Len(wire') = Len(wire) + 1 /\ DOMAIN wire' = 1..Len(wire) + 1
      /\ \A i \in 1..Len(wire) : wire'[i] = wire[i]
      /\ wire'[Len(wire) + 1] = out[1]
  <2>1. wire' \in Seq(Byte)
    BY <1>1, <1>2, <1>3, Appended
  <2>2. /\ Len(wire') = Len(wire) + 1
        /\ \A i \in 1..Len(wire) : wire'[i] = wire[i]
        /\ wire'[Len(wire) + 1] = out[1]
    BY <1>1, <1>2, <1>3, Appended
  <2>3. QED
    BY <2>1, <2>2
<1>5. /\ Len(out') = Len(out) - 1 /\ DOMAIN out' = 1..Len(out) - 1
      /\ \A i \in 1..Len(out) - 1 : out'[i] = out[i + 1]
  BY <1>1, <1>3
<1>6. /\ taken + Len(wire) + Len(out) = Len(stream) /\ taken \in Nat
      /\ Len(wire) \in Nat /\ Len(out) \in Nat /\ Len(stream) \in Nat
      /\ DOMAIN wire = 1..Len(wire) /\ DOMAIN out = 1..Len(out)
      /\ \A i \in 1..Len(wire) : wire[i] = stream[taken + i]
      /\ \A i \in 1..Len(out) : out[i] = stream[taken + Len(wire) + i]
  <2>1. wire \in Seq(Byte) /\ out \in Seq(Byte) /\ stream \in Seq(Byte) /\ taken \in Nat
    BY DEF StreamTypeOK
  <2>2. /\ taken + Len(wire) + Len(out) = Len(stream)
        /\ \A i \in DOMAIN wire : wire[i] = stream[taken + i]
        /\ \A i \in DOMAIN out : out[i] = stream[taken + Len(wire) + i]
    BY <1>1 DEF WireInv
  <2>3. DOMAIN wire = 1..Len(wire) /\ DOMAIN out = 1..Len(out)
    BY <2>1
  <2>4. Len(wire) \in Nat /\ Len(out) \in Nat /\ Len(stream) \in Nat
    BY <2>1
  <2>5. QED
    BY <2>1, <2>2, <2>3, <2>4
<1>7. taken + Len(wire') + Len(out') = Len(stream)
  <2>1. Len(wire') = Len(wire) + 1 /\ Len(out') = Len(out) - 1
    BY <1>4, <1>5
  <2>2. /\ taken + Len(wire) + Len(out) = Len(stream) /\ taken \in Nat
        /\ Len(wire) \in Nat /\ Len(out) \in Nat
    BY <1>6
  <2>3. QED
    BY <2>1, <2>2
<1>8. ASSUME NEW i \in DOMAIN wire'
      PROVE  wire'[i] = stream[taken + i]
  <2>1. CASE i \in 1..Len(wire)
    BY <1>4, <1>6, <2>1
  <2>2. CASE i = Len(wire) + 1
    <3>1. 1 \in 1..Len(out) /\ taken + Len(wire) + 1 = taken + i
      BY <1>3, <1>6, <2>2
    <3>2. QED
      BY <1>4, <1>6, <2>2, <3>1
  <2>3. QED
    BY <1>4, <1>6, <2>1, <2>2
<1>9. ASSUME NEW i \in DOMAIN out'
      PROVE  out'[i] = stream[taken + Len(wire') + i]
  <2> DEFINE j == i + 1
  <2>1. i \in 1..Len(out) - 1 /\ j \in 1..Len(out) /\ taken + Len(wire) + j = taken + Len(wire') + i
    <3>1. /\ DOMAIN out' = 1..Len(out) - 1 /\ Len(wire') = Len(wire) + 1
          /\ taken \in Nat /\ Len(wire) \in Nat /\ Len(out) \in Nat
      BY <1>4, <1>5, <1>6
    <3>2. QED
      BY <3>1
  <2>2. out'[i] = out[j]
    BY <1>5, <2>1
  <2> HIDE DEF j
  <2>3. out[j] = stream[taken + Len(wire) + j]
    BY <1>6, <2>1
  <2>4. QED
    BY <2>1, <2>2, <2>3
<1>10. writer' = "writing" <=> out' # <<>>
  BY <1>1
<1>11. Len(buf) <= taken /\ \A i \in DOMAIN buf : buf[i] = stream[taken - Len(buf) + i]
  BY DEF WireInv
<1>12. QED
  BY <1>1, <1>6, <1>7, <1>8, <1>9, <1>10, <1>11 DEF WireInv

\* A byte that is read goes from the front of the wire to the end of the
\* buffer.
LEMMA ReadWire ==
    ASSUME StreamTypeOK, WireInv, ReadByte
    PROVE  WireInv'
<1>1. /\ wire # <<>> /\ buf' = Append(buf, Head(wire)) /\ wire' = Tail(wire) /\ taken' = taken + 1
      /\ UNCHANGED <<stream, out, writer>>
  BY DEF ReadByte, sending
<1>2. wire \in Seq(Byte) /\ buf \in Seq(Byte) /\ wire # <<>>
  BY <1>1 DEF StreamTypeOK
<1>3. /\ Head(wire) = wire[1] /\ Head(wire) \in Byte /\ Tail(wire) \in Seq(Byte)
      /\ Len(Tail(wire)) = Len(wire) - 1 /\ Len(wire) > 0
      /\ \A i \in 1..Len(wire) - 1 : Tail(wire)[i] = wire[i + 1]
  BY <1>2, Popped
<1>4. /\ Len(buf') = Len(buf) + 1 /\ DOMAIN buf' = 1..Len(buf) + 1
      /\ \A i \in 1..Len(buf) : buf'[i] = buf[i]
      /\ buf'[Len(buf) + 1] = wire[1]
  <2>1. buf' \in Seq(Byte)
    BY <1>1, <1>2, <1>3, Appended
  <2>2. /\ Len(buf') = Len(buf) + 1
        /\ \A i \in 1..Len(buf) : buf'[i] = buf[i]
        /\ buf'[Len(buf) + 1] = wire[1]
    BY <1>1, <1>2, <1>3, Appended
  <2>3. QED
    BY <2>1, <2>2
<1>5. /\ Len(wire') = Len(wire) - 1 /\ DOMAIN wire' = 1..Len(wire) - 1
      /\ \A i \in 1..Len(wire) - 1 : wire'[i] = wire[i + 1]
  BY <1>1, <1>3
<1>6. /\ taken + Len(wire) + Len(out) <= Len(stream) /\ taken \in Nat /\ Len(buf) <= taken
      /\ Len(wire) \in Nat /\ Len(out) \in Nat /\ Len(stream) \in Nat /\ Len(buf) \in Nat
      /\ DOMAIN wire = 1..Len(wire) /\ DOMAIN buf = 1..Len(buf)
      /\ \A i \in 1..Len(wire) : wire[i] = stream[taken + i]
      /\ \A i \in 1..Len(buf) : buf[i] = stream[taken - Len(buf) + i]
  <2>1. /\ wire \in Seq(Byte) /\ out \in Seq(Byte) /\ stream \in Seq(Byte) /\ buf \in Seq(Byte)
        /\ taken \in Nat
    BY DEF StreamTypeOK
  <2>2. /\ taken + Len(wire) + Len(out) <= Len(stream) /\ Len(buf) <= taken
        /\ \A i \in DOMAIN wire : wire[i] = stream[taken + i]
        /\ \A i \in DOMAIN buf : buf[i] = stream[taken - Len(buf) + i]
    BY DEF WireInv
  <2>3. DOMAIN wire = 1..Len(wire) /\ DOMAIN buf = 1..Len(buf)
    BY <2>1
  <2>4. Len(wire) \in Nat /\ Len(out) \in Nat /\ Len(stream) \in Nat /\ Len(buf) \in Nat
    BY <2>1
  <2>5. QED
    BY <2>1, <2>2, <2>3, <2>4
<1>7. taken' + Len(wire') = taken + Len(wire) /\ taken' - Len(buf') = taken - Len(buf)
  <2>1. Len(wire') = Len(wire) - 1 /\ Len(buf') = Len(buf) + 1 /\ taken' = taken + 1
    BY <1>1, <1>4, <1>5
  <2>2. taken \in Nat /\ Len(wire) \in Nat /\ Len(buf) \in Nat
    BY <1>6
  <2>3. QED
    BY <2>1, <2>2
<1>8. ASSUME NEW i \in DOMAIN buf'
      PROVE  buf'[i] = stream[taken' - Len(buf') + i]
  <2>1. CASE i \in 1..Len(buf)
    BY <1>4, <1>6, <1>7, <2>1
  <2>2. CASE i = Len(buf) + 1
    <3>1. 1 \in 1..Len(wire) /\ taken' - Len(buf') + i = taken + 1
      BY <1>3, <1>6, <1>7, <2>2
    <3>2. QED
      BY <1>4, <1>6, <2>2, <3>1
  <2>3. QED
    BY <1>4, <1>6, <2>1, <2>2
<1>9. ASSUME NEW i \in DOMAIN wire'
      PROVE  wire'[i] = stream[taken' + i]
  <2> DEFINE j == i + 1
  <2>1. i \in 1..Len(wire) - 1 /\ j \in 1..Len(wire) /\ taken + j = taken' + i
    <3>1. DOMAIN wire' = 1..Len(wire) - 1 /\ taken' = taken + 1 /\ taken \in Nat /\ Len(wire) \in Nat
      BY <1>1, <1>5, <1>6
    <3>2. QED
      BY <3>1
  <2>2. wire'[i] = wire[j]
    BY <1>5, <2>1
  <2> HIDE DEF j
  <2>3. wire[j] = stream[taken + j]
    BY <1>6, <2>1
  <2>4. QED
    BY <2>1, <2>2, <2>3
<1>10. Len(buf') <= taken'
  BY <1>1, <1>4, <1>6
<1>11. /\ writer # "ended" => taken + Len(wire) + Len(out) = Len(stream)
       /\ writer = "writing" <=> out # <<>>
       /\ \A i \in DOMAIN out : out[i] = stream[taken + Len(wire) + i]
  BY DEF WireInv
<1>12. QED
  BY <1>1, <1>6, <1>7, <1>8, <1>9, <1>10, <1>11 DEF WireInv

\* The other steps at most forget what waits or what the buffer holds.
LEMMA WireStays ==
    ASSUME StreamTypeOK, WireInv, UNCHANGED <<wire, stream, taken>>,
           buf' = buf \/ buf' = <<>>,
           UNCHANGED <<writer, out>> \/ (writer' = "ended" /\ out' = <<>>)
    PROVE  WireInv'
<1>1. taken \in Nat /\ Len(wire) \in Nat /\ Len(out) \in Nat /\ Len(stream) \in Nat
  BY DEF StreamTypeOK
<1>2. (Len(buf) <= taken /\ \A i \in DOMAIN buf : buf[i] = stream[taken - Len(buf) + i])'
  <2>1. CASE buf' = buf
    BY <2>1 DEF WireInv
  <2>2. CASE buf' = <<>>
    BY <1>1, <2>2
  <2>3. QED
    BY <2>1, <2>2
<1>3. \A i \in DOMAIN wire : wire[i] = stream[taken + i]
  BY DEF WireInv
<1>4. CASE UNCHANGED <<writer, out>>
  BY <1>2, <1>4 DEF WireInv
<1>5. CASE writer' = "ended" /\ out' = <<>>
  <2>1. taken + Len(wire) + 0 <= Len(stream)
    BY <1>1 DEF WireInv
  <2>2. Len(out') = 0 /\ DOMAIN out' = {}
    BY <1>5
  <2>3. QED
    BY <1>2, <1>3, <1>5, <2>1, <2>2 DEF WireInv
<1>6. QED
  BY <1>4, <1>5

-----------------------------------------------------------------------------
(* The reader                                                              *)

\* A whole prefix is the length of the frame that the reader is at, or the
\* byte that announces two more.
LEMMA PrefixRead ==
    ASSUME StreamTypeOK, FramesInv, WireInv, ReadInv, reader = "prefix", need = 0,
           NEW k, k = Reading
    PROVE  /\ k \in 1..Len(marks) - 1
           /\ taken - Len(buf) = marks[k].at
           /\ \/ /\ DeserializePacketLength(prefix, buf) = [length |-> Len(Encoding[sent[k]])]
                 /\ Len(buf) = Len(Length(k))
              \/ /\ DeserializePacketLength(prefix, buf) = [more |-> 2]
                 /\ prefix = "extended" /\ Len(buf) = 1
<1>1. /\ buf \in Seq(Byte) /\ Len(buf) \in Nat /\ taken \in Nat /\ Len(stream) \in Nat
      /\ prefix \in LengthCodecs /\ Len(returned) \in Nat /\ Len(marks) \in Nat
      /\ marks \in Seq([at: Nat, pos: Byte])
  BY DEF StreamTypeOK
<1>2. /\ k = Len(returned) + 1 /\ k <= Len(marks) /\ taken - Len(buf) = marks[k].at
      /\ Len(buf) = PrefixSize(prefix) \/ (prefix = "extended" /\ Len(buf) = 3)
  <2>1. /\ Reading <= Len(marks) /\ taken - Len(buf) = marks[Reading].at
        /\ \/ Len(buf) + need = PrefixSize(prefix)
           \/ prefix = "extended" /\ Len(buf) > 0 /\ Len(buf) + need = 3
    BY DEF ReadInv
  <2>2. Len(buf) + need = Len(buf)
    BY <1>1
  <2>3. k = Len(returned) + 1
    BY DEF Reading
  <2>4. k <= Len(marks) /\ taken - Len(buf) = marks[k].at
    BY <2>1
  <2>5. Len(buf) = PrefixSize(prefix) \/ (prefix = "extended" /\ Len(buf) = 3)
    BY <2>1, <2>2
  <2>6. QED
    BY <2>3, <2>4, <2>5
<1>3. k \in Nat /\ k > 0 /\ Len(buf) > 0
  <2>1. Len(buf) \in {1, 2, 3}
    BY <1>2 DEF PrefixSize
  <2>2. Len(buf) > 0
    BY <2>1
  <2>3. Len(returned) \in Nat /\ k = Len(returned) + 1
    BY <1>1, <1>2
  <2>4. QED
    BY <2>2, <2>3
<1>4. k \in 1..Len(marks) - 1
  <2>1. marks[Len(marks)].at = Len(stream)
    BY DEF FramesInv
  <2>2. taken <= Len(stream)
    <3>1. taken + Len(wire) + Len(out) <= Len(stream) /\ Len(wire) \in Nat /\ Len(out) \in Nat
      BY DEF WireInv, StreamTypeOK
    <3>2. QED
      BY <1>1, <3>1
  <2>3. marks[k].at # Len(stream)
    BY <1>1, <1>2, <1>3, <2>2
  <2>4. k # Len(marks)
    BY <2>1, <2>3
  <2>5. QED
    BY <1>1, <1>2, <1>3, <2>4
<1> DEFINE l == Length(k)
<1>5. /\ l \in Seq(Byte)
      /\ Len(l) = IF prefix = "extended" THEN 3 ELSE PrefixSize(prefix)
      /\ DeserializePacketLength(prefix, l) = [length |-> Len(Encoding[sent[k]])]
      /\ prefix = "extended" => l[1] = Base - 1
      /\ \A i \in 1..Len(l) : stream[marks[k].at + i] = l[i]
  BY <1>4, FrameParts
<1> HIDE DEF l
<1>6. Len(buf) <= Len(l)
  <2> DEFINE x == Len(buf)
             y == Len(l)
  <2>1. x \in Nat /\ y \in Nat
    BY <1>1, <1>5
  <2>2. x = y \/ (x = 1 /\ y = 3)
    BY <1>2, <1>5 DEF PrefixSize
  <2> HIDE DEF x, y
  <2>3. x <= y
    BY <2>1, <2>2
  <2>4. QED
    BY <2>3 DEF x, y
<1>7. \A i \in 1..Len(buf) : buf[i] = l[i]
  <2>0. \A i \in DOMAIN buf : buf[i] = stream[taken - Len(buf) + i]
    BY DEF WireInv
  <2>1. \A i \in 1..Len(buf) : buf[i] = stream[marks[k].at + i]
    BY <1>1, <1>2, <2>0, SMTT(20)
  <2>2. Len(l) \in Nat
    BY <1>5
  <2>3. \A i \in 1..Len(buf) : i \in 1..Len(l)
    BY <1>1, <1>6, <2>2
  <2>4. QED
    BY <1>5, <2>1, <2>3
<1>8. CASE Len(buf) = Len(l)
  <2>1. buf = l
    BY <1>1, <1>5, <1>7, <1>8, Equal
  <2>2. QED
    BY <1>2, <1>4, <1>5, <1>8, <2>1 DEF l
<1>9. CASE Len(buf) # Len(l)
  <2>1. prefix = "extended" /\ Len(buf) = 1
    BY <1>2, <1>5, <1>9 DEF PrefixSize
  <2>2. buf[1] = Base - 1
    BY <1>5, <1>7, <2>1
  <2> DEFINE e == <<Base - 1>>
  <2>3. e \in Seq(Byte) /\ Len(e) = 1 /\ e[1] = Base - 1
    BY StreamAssumption DEF Byte
  <2> HIDE DEF e
  <2>4. buf = e
    <3>1. Len(buf) = Len(e) /\ \A i \in 1..Len(buf) : buf[i] = e[i]
      BY <2>1, <2>2, <2>3
    <3>2. QED
      BY <1>1, <2>3, <3>1, Equal
  <2>5. DeserializePacketLength(prefix, buf) = [more |-> 2]
    BY <2>1, <2>4 DEF DeserializePacketLength, PrefixSize, e
  <2>6. QED
    BY <1>2, <1>4, <2>1, <2>5
<1>10. QED
  BY <1>8, <1>9

\* What read_length does.
LEMMA LengthRead ==
    ASSUME StreamTypeOK, FramesInv, WireInv, ReadInv, ReadLength, NEW k, k = Reading
    PROVE  /\ k \in 1..Len(marks) - 1 /\ reader = "prefix"
           /\ taken - Len(buf) = marks[k].at
           /\ \/ reader' = "ended" /\ need' = 0 /\ buf' = <<>>
              \/ /\ reader' = "payload" /\ need' = Len(Encoding[sent[k]]) /\ need' <= limit
                 /\ buf' = <<>> /\ Len(buf) = Len(Length(k))
              \/ /\ UNCHANGED <<reader, buf>> /\ need' = 2
                 /\ prefix = "extended" /\ Len(buf) = 1
           /\ UNCHANGED <<codec, prefix, poisoned, sending, wire, recvPos, returned, taken, config>>
<1> DEFINE d == DeserializePacketLength(prefix, buf)
           n == Len(Encoding[sent[k]])
<1>1. reader = "prefix" /\ need = 0
  BY DEF ReadLength
<1>2. /\ k \in 1..Len(marks) - 1 /\ taken - Len(buf) = marks[k].at
      /\ \/ d = [length |-> n] /\ Len(buf) = Len(Length(k))
         \/ d = [more |-> 2] /\ prefix = "extended" /\ Len(buf) = 1
  BY <1>1, PrefixRead
<1>3. /\ IF "more" \in DOMAIN d
         THEN need' = d.more /\ UNCHANGED <<reader, buf>>
         ELSE /\ IF d.length > limit
                 THEN reader' = "ended" /\ need' = 0
                 ELSE reader' = "payload" /\ need' = d.length
              /\ buf' = <<>>
      /\ UNCHANGED <<codec, prefix, poisoned, sending, wire, recvPos, returned, taken, config>>
  BY DEF ReadLength, ReadMore
<1> HIDE DEF d
<1>4. CASE d = [more |-> 2] /\ prefix = "extended" /\ Len(buf) = 1
  <2>1. "more" \in DOMAIN d /\ d.more = 2
    BY <1>4
  <2>2. QED
    BY <1>1, <1>2, <1>3, <1>4, <2>1
<1>5. CASE d = [length |-> n] /\ Len(buf) = Len(Length(k))
  <2>1. ~("more" \in DOMAIN d) /\ d.length = n
    BY <1>5
  <2>2. n \in Nat /\ limit \in Nat
    <3>1. Encoding[sent[k]] \in Seq(Byte)
      BY <1>2, FrameParts
    <3>2. QED
      BY <3>1, LimitTypes
  <2> HIDE DEF n
  <2>3. n > limit \/ n <= limit
    BY <2>2
  <2>4. QED
    BY <1>1, <1>2, <1>3, <1>5, <2>1, <2>3 DEF n
<1>6. QED
  BY <1>2, <1>4, <1>5

\* A whole payload is that of the frame that the reader is at, and decodes to
\* its packet.
LEMMA Deserialized ==
    ASSUME StreamTypeOK, FramesInv, WireInv, ReadInv, PoisonInv, Deserialize, NEW k, k = Reading
    PROVE  /\ k \in 1..Len(marks) - 1 /\ recvPos' \in Byte /\ buf' = <<>>
           /\ \/ reader' = "ended" /\ UNCHANGED <<need, returned>>
              \/ /\ reader' = "prefix" /\ need' = PrefixSize(prefix)
                 /\ returned' = Append(returned, sent[k]) /\ sent[k] \in Packets
                 /\ recvPos' = marks[k + 1].pos /\ taken = marks[k + 1].at
           /\ UNCHANGED <<codec, prefix, poisoned, sending, wire, taken, config>>
<1> DEFINE c == Code(recvPos, buf)
           d == Decode(c.bytes)
           panics == poisoned /\ codec = "Mutable"
           n == Len(Encoding[sent[k]])
<1>1. /\ reader = "payload" /\ need = 0 /\ buf' = <<>>
      /\ recvPos' = IF panics THEN recvPos ELSE c.pos
      /\ IF panics \/ d = {}
         THEN reader' = "ended" /\ UNCHANGED <<need, returned>>
         ELSE /\ reader' = "prefix" /\ need' = PrefixSize(prefix)
              /\ \E p \in d : returned' = Append(returned, p)
      /\ UNCHANGED <<codec, prefix, poisoned, sending, wire, taken, config>>
  BY DEF Deserialize
<1>2. buf \in Seq(Byte) /\ recvPos \in Byte /\ Len(buf) \in Nat /\ taken \in Nat /\ Len(returned) \in Nat /\ Len(marks) \in Nat
  BY DEF StreamTypeOK
<1>3. c.pos \in Byte
  BY <1>2, CodeInverse
<1>4. recvPos' \in Byte
  BY <1>1, <1>2, <1>3
<1>5. /\ k \in 1..Len(marks) - 1
      /\ taken - Len(buf) = marks[k].at + Len(Length(k))
      /\ Len(buf) = n
  <2>1. /\ Reading < Len(marks)
        /\ taken - Len(buf) = marks[Reading].at + Len(Length(Reading))
        /\ Len(buf) + need = Len(Encoding[sent[Reading]])
    BY <1>1 DEF ReadInv
  <2>2. Len(buf) + need = Len(buf)
    BY <1>1, <1>2
  <2>3. k = Len(returned) + 1
    BY DEF Reading
  <2>4. k \in 1..Len(marks) - 1
    BY <1>2, <2>1, <2>3
  <2>5. QED
    BY <2>1, <2>2, <2>4
<1> DEFINE b == Payload(k).bytes
<1>6. /\ sent[k] \in Packets /\ Encoding[sent[k]] \in Seq(Byte) /\ marks[k].at \in Nat
      /\ marks[k].pos \in Byte /\ Length(k) \in Seq(Byte)
      /\ b \in Seq(Byte) /\ Len(b) = n
      /\ marks[k + 1].pos = Payload(k).pos
      /\ marks[k + 1].at = marks[k].at + Len(Length(k)) + n
      /\ \A i \in 1..n : stream[marks[k].at + Len(Length(k)) + i] = b[i]
  BY <1>5, FrameParts
<1>7. CASE panics \/ d = {}
  BY <1>1, <1>4, <1>5, <1>7
<1>8. CASE ~(panics \/ d = {})
  <2>1. recvPos = marks[k].pos
    <3>1. ~poisoned
      BY <1>8 DEF PoisonInv
    <3>2. QED
      BY <1>1, <3>1 DEF ReadInv
  <2>2. buf = b
    <3> HIDE DEF b, n
    <3>1. \A i \in 1..Len(buf) : buf[i] = stream[taken - Len(buf) + i]
      BY <1>2 DEF WireInv
    <3>2. Len(buf) = Len(b) /\ \A i \in 1..Len(buf) : buf[i] = b[i]
      BY <1>5, <1>6, <3>1
    <3>3. QED
      BY <1>2, <1>6, <3>2, Equal
  <2>3. c.bytes = Encoding[sent[k]] /\ c.pos = Payload(k).pos
    <3>1. c = Code(marks[k].pos, Code(marks[k].pos, Encoding[sent[k]]).bytes)
      BY <2>1, <2>2 DEF Payload
    <3>2. QED
      BY <1>6, <3>1, CodeInverse DEF Payload
  <2>4. \A p \in d : p = sent[k]
    BY <1>6, <2>3, StreamAssumption DEF Decode
  <2>5. recvPos' = marks[k + 1].pos
    BY <1>1, <1>6, <1>8, <2>3
  <2>6. returned' = Append(returned, sent[k])
    BY <1>1, <1>8, <2>4
  <2>7. taken = marks[k + 1].at
    <3> DEFINE a == marks[k].at
               h == Len(Length(k))
    <3>1. a \in Nat /\ h \in Nat /\ taken - Len(buf) = a + h /\ Len(buf) = n /\ marks[k + 1].at = a + h + n
      BY <1>5, <1>6
    <3> HIDE DEF a, h, n
    <3>2. QED
      BY <1>2, <3>1
  <2>8. QED
    BY <1>1, <1>4, <1>5, <1>6, <1>8, <2>5, <2>6, <2>7
<1>9. QED
  BY <1>7, <1>8

\* The reader stays at its frame while others act.
LEMMA ReadStays ==
    ASSUME StreamTypeOK, FramesInv, ReadInv,
           UNCHANGED <<codec, prefix, sent, marks, returned, taken, buf, need, reader>>,
           poisoned' = TRUE \/ UNCHANGED <<poisoned, recvPos>>
    PROVE  ReadInv'
<1>1. Reading' = Reading
  BY DEF Reading
<1>2. ASSUME NEW k, k = Reading
      PROVE  Length(k)' = Length(k)
  BY <1>2 DEF Length
<1>3. (reader # "ended" => poisoned \/ recvPos = marks[Reading].pos)'
  BY <1>1 DEF ReadInv
<1>4. (/\ Reading <= Len(marks)
       /\ \A i \in DOMAIN returned : returned[i] = sent[i]
       /\ reader = "starting" => taken = marks[Reading].at /\ buf = <<>>
       /\ reader = "prefix" =>
          /\ taken - Len(buf) = marks[Reading].at
          /\ \/ Len(buf) + need = PrefixSize(prefix)
             \/ prefix = "extended" /\ Len(buf) > 0 /\ Len(buf) + need = 3)'
  BY <1>1 DEF ReadInv
<1>5. (reader = "payload" =>
          /\ Reading < Len(marks)
          /\ taken - Len(buf) = marks[Reading].at + Len(Length(Reading))
          /\ Len(buf) + need = Len(Encoding[sent[Reading]]))'
  BY <1>1 DEF ReadInv, Length
<1>6. QED
  BY <1>3, <1>4, <1>5 DEF ReadInv

\* A reader that ended has what it returned.
LEMMA ReadEnded ==
    ASSUME ReadInv, UNCHANGED <<sent, marks, returned>>, reader' = "ended"
    PROVE  ReadInv'
  BY DEF ReadInv, Reading

\* What is sent later comes behind the frame that the reader is at.
LEMMA SendRead ==
    ASSUME StreamTypeOK, FramesInv, ReadInv, NEW p \in Packets, Send(p), NEW k, k = Reading
    PROVE  ReadInv'
<1> DEFINE n == Len(marks)
           Marks == [at: Nat, pos: Byte]
<1>1. /\ writer = "idle" /\ sent' = Append(sent, p)
      /\ marks' = marks \/ \E m : marks' = Append(marks, m)
      /\ UNCHANGED <<codec, prefix, poisoned, recvPos, reader, buf, need, returned, taken>>
  BY DEF Send, receiving
<1>2. n \in Nat /\ marks \in Seq(Marks) /\ sent \in Seq(Packets) /\ Len(returned) \in Nat /\ DOMAIN returned = 1..Len(returned)
  BY DEF StreamTypeOK
<1>3. n = Len(sent) + 1
  BY <1>1 DEF FramesInv
<1>4. /\ k = Len(returned) + 1 /\ k <= n
      /\ \A i \in DOMAIN returned : returned[i] = sent[i]
      /\ reader # "ended" => poisoned \/ recvPos = marks[k].pos
      /\ reader = "starting" => taken = marks[k].at /\ buf = <<>>
      /\ reader = "prefix" =>
            /\ taken - Len(buf) = marks[k].at
            /\ \/ Len(buf) + need = PrefixSize(prefix)
               \/ prefix = "extended" /\ Len(buf) > 0 /\ Len(buf) + need = 3
      /\ reader = "payload" =>
            /\ k < n
            /\ taken - Len(buf) = marks[k].at + Len(Length(k))
            /\ Len(buf) + need = Len(Encoding[sent[k]])
  BY DEF ReadInv, Reading
<1>5. \A i \in 1..n - 1 : sent'[i] = sent[i]
  BY <1>1, <1>2, <1>3, Appended
<1>6. n <= Len(marks') /\ \A i \in 1..n : marks'[i] = marks[i]
  <2>1. CASE marks' = marks
    BY <1>2, <2>1
  <2>2. CASE \E m : marks' = Append(marks, m)
    <3>1. PICK m : marks' = Append(marks, m)
      BY <2>2
    <3> HIDE DEF Marks
    <3>2. Len(marks') = n + 1 /\ \A i \in 1..n : marks'[i] = marks[i]
      BY <1>2, <3>1
    <3>3. QED
      BY <1>2, <3>2
  <2>3. QED
    BY <1>1, <2>1, <2>2
<1>7. k \in 1..n /\ marks'[k] = marks[k]
  BY <1>2, <1>4, <1>6
<1>8. k < n => sent'[k] = sent[k] /\ Length(k)' = Length(k)
  <2>1. k < n => sent'[k] = sent[k]
    BY <1>2, <1>5, <1>7
  <2>2. QED
    BY <1>1, <2>1 DEF Length
<1>9. Reading' = k
  BY <1>1 DEF Reading
<1>10. k <= Len(marks') /\ (k < n => k < Len(marks'))
  <2>1. Len(marks') \in Nat
    <3>1. marks' \in Seq(Marks)
      BY SendTypes DEF StreamTypeOK
    <3>2. QED
      BY <3>1
  <2>2. QED
    BY <1>2, <1>6, <1>7, <2>1
<1>11. \A i \in DOMAIN returned' : returned'[i] = sent'[i]
  <2>1. \A i \in 1..Len(returned) : i \in 1..n - 1
    BY <1>2, <1>4
  <2>2. QED
    BY <1>1, <1>2, <1>4, <1>5, <2>1
<1> HIDE DEF n, Marks
<1>12. (reader = "payload" =>
          /\ Reading < Len(marks)
          /\ taken - Len(buf) = marks[Reading].at + Len(Length(Reading))
          /\ Len(buf) + need = Len(Encoding[sent[Reading]]))'
  <2>1. CASE reader = "payload"
    <3>1. k < n
      BY <1>4, <2>1
    <3>2. k < Len(marks') /\ sent'[k] = sent[k] /\ Length(k)' = Length(k)
      BY <1>8, <1>10, <3>1
    <3>3. Length(Reading)' = Length(k)'
      BY <1>9 DEF Length
    <3>4. QED
      BY <1>1, <1>4, <1>7, <1>9, <2>1, <3>2, <3>3
  <2>2. QED
    BY <1>1, <2>1
<1>13. (reader # "ended" => poisoned \/ recvPos = marks[Reading].pos)'
  BY <1>1, <1>4, <1>7, <1>9
<1>14. (/\ reader = "starting" => taken = marks[Reading].at /\ buf = <<>>
        /\ reader = "prefix" =>
           /\ taken - Len(buf) = marks[Reading].at
           /\ \/ Len(buf) + need = PrefixSize(prefix)
              \/ prefix = "extended" /\ Len(buf) > 0 /\ Len(buf) + need = 3)'
  BY <1>1, <1>4, <1>7, <1>9
<1>15. QED
  BY <1>9, <1>10, <1>11, <1>12, <1>13, <1>14 DEF ReadInv

\* The receive task starts at the first frame.
LEMMA SetupRead ==
    ASSUME StreamTypeOK, ReadInv, Setup
    PROVE  ReadInv'
<1>1. /\ reader = "starting" /\ reader' = "prefix" /\ need' = PrefixSize(prefix)
      /\ UNCHANGED <<prefix, poisoned, recvPos, buf, returned, taken, sent, marks>>
  BY DEF Setup, sending
<1>2. Len(buf) = 0 /\ taken \in Nat /\ taken = marks[Reading].at
  BY <1>1 DEF ReadInv, StreamTypeOK
<1>3. taken - Len(buf) = taken /\ Len(buf) + PrefixSize(prefix) = PrefixSize(prefix)
  BY <1>2 DEF PrefixSize
<1>4. Reading' = Reading
  BY <1>1 DEF Reading
<1>5. (reader # "ended" => poisoned \/ recvPos = marks[Reading].pos)'
  BY <1>1, <1>4 DEF ReadInv
<1>6. (Reading <= Len(marks) /\ \A i \in DOMAIN returned : returned[i] = sent[i])'
  BY <1>1, <1>4 DEF ReadInv
<1>7. (taken - Len(buf) = marks[Reading].at /\ Len(buf) + need = PrefixSize(prefix))'
  BY <1>1, <1>2, <1>3, <1>4
<1>8. QED
  BY <1>1, <1>5, <1>6, <1>7 DEF ReadInv

\* A byte moves the reader inside its frame.
LEMMA ByteRead ==
    ASSUME StreamTypeOK, FramesInv, ReadInv, ReadByte, NEW k, k = Reading
    PROVE  ReadInv'
<1>1. /\ reader \in {"prefix", "payload"} /\ need' = need - 1 /\ taken' = taken + 1
      /\ wire # <<>> /\ buf' = Append(buf, Head(wire))
      /\ UNCHANGED <<codec, prefix, poisoned, sent, marks, recvPos, reader, returned>>
  BY DEF ReadByte, sending
<1>2. /\ Len(buf') = Len(buf) + 1 /\ Len(buf) \in Nat /\ need \in Nat /\ taken \in Nat
  BY <1>1 DEF StreamTypeOK
<1>3. /\ taken' - Len(buf') = taken - Len(buf) /\ Len(buf') + need' = Len(buf) + need
      /\ Len(buf') > 0
  BY <1>1, <1>2
<1>4. Reading' = k /\ Length(k)' = Length(k)
  BY <1>1 DEF Reading, Length
<1>5. Length(Reading)' = Length(k)'
  BY <1>4 DEF Length
<1>6. /\ Reading = k
      /\ Reading <= Len(marks)
      /\ \A i \in DOMAIN returned : returned[i] = sent[i]
      /\ poisoned \/ recvPos = marks[k].pos
      /\ reader = "prefix" =>
            /\ taken - Len(buf) = marks[k].at
            /\ \/ Len(buf) + need = PrefixSize(prefix)
               \/ prefix = "extended" /\ Len(buf) + need = 3
      /\ reader = "payload" =>
            /\ k < Len(marks)
            /\ taken - Len(buf) = marks[k].at + Len(Length(k))
            /\ Len(buf) + need = Len(Encoding[sent[k]])
  BY <1>1 DEF ReadInv
<1>7. (/\ Reading <= Len(marks)
       /\ \A i \in DOMAIN returned : returned[i] = sent[i]
       /\ poisoned \/ recvPos = marks[Reading].pos)'
  BY <1>1, <1>4, <1>6
<1>8. (reader = "prefix" =>
          /\ taken - Len(buf) = marks[Reading].at
          /\ \/ Len(buf) + need = PrefixSize(prefix)
             \/ prefix = "extended" /\ Len(buf) > 0 /\ Len(buf) + need = 3)'
  BY <1>1, <1>3, <1>4, <1>6
<1>9. (reader = "payload" =>
          /\ Reading < Len(marks)
          /\ taken - Len(buf) = marks[Reading].at + Len(Length(Reading))
          /\ Len(buf) + need = Len(Encoding[sent[Reading]]))'
  BY <1>1, <1>3, <1>4, <1>5, <1>6
<1>10. QED
  BY <1>1, <1>7, <1>8, <1>9 DEF ReadInv

\* read_length leaves the reader in its frame.
LEMMA LengthStep ==
    ASSUME StreamTypeOK, FramesInv, WireInv, ReadInv, ReadLength, NEW k, k = Reading
    PROVE  ReadInv' /\ StreamTypeOK'
<1>1. /\ k \in 1..Len(marks) - 1 /\ reader = "prefix"
      /\ taken - Len(buf) = marks[k].at
      /\ \/ reader' = "ended" /\ need' = 0 /\ buf' = <<>>
         \/ /\ reader' = "payload" /\ need' = Len(Encoding[sent[k]]) /\ need' <= limit
            /\ buf' = <<>> /\ Len(buf) = Len(Length(k))
         \/ /\ UNCHANGED <<reader, buf>> /\ need' = 2
            /\ prefix = "extended" /\ Len(buf) = 1
      /\ UNCHANGED <<codec, prefix, poisoned, sending, wire, recvPos, returned, taken, config>>
  BY LengthRead
<1>2. UNCHANGED <<sent, marks, stream>>
  BY <1>1 DEF sending
<1>3. Encoding[sent[k]] \in Seq(Byte) /\ marks[k].at \in Nat /\ Length(k) \in Seq(Byte)
  BY <1>1, FrameParts
<1>4. Len(Encoding[sent[k]]) \in Nat /\ Len(Length(k)) \in Nat
  BY <1>3
<1>5. StreamTypeOK'
  <2>1. need' \in Nat /\ buf' \in Seq(Byte) /\ reader' \in {"starting", "prefix", "payload", "ended"}
    <3>1. buf \in Seq(Byte) /\ <<>> \in Seq(Byte)
      BY DEF StreamTypeOK
    <3>2. buf' = buf \/ buf' = <<>>
      BY <1>1
    <3>3. need' \in Nat /\ reader' \in {"starting", "prefix", "payload", "ended"}
      BY <1>1, <1>4
    <3>4. QED
      BY <3>1, <3>2, <3>3
  <2>2. QED
    BY <1>1, <2>1 DEF StreamTypeOK, sending, config
<1>6. CASE reader' = "ended" /\ need' = 0 /\ buf' = <<>>
  BY <1>1, <1>2, <1>5, <1>6, ReadEnded
<1>7. Reading' = k /\ Length(k)' = Length(k)
  BY <1>1, <1>2 DEF Reading, Length
<1>8. Length(Reading)' = Length(k)'
  BY <1>7 DEF Length
<1>9. /\ taken \in Nat /\ Len(buf) \in Nat /\ Len(marks) \in Nat
      /\ Reading = k /\ Reading <= Len(marks)
      /\ \A i \in DOMAIN returned : returned[i] = sent[i]
      /\ poisoned \/ recvPos = marks[k].pos
  <2>1. taken \in Nat /\ Len(buf) \in Nat /\ Len(marks) \in Nat
    BY DEF StreamTypeOK
  <2>2. QED
    BY <1>1, <2>1 DEF ReadInv
<1>10. (/\ Reading <= Len(marks)
        /\ \A i \in DOMAIN returned : returned[i] = sent[i]
        /\ poisoned \/ recvPos = marks[Reading].pos)'
  BY <1>1, <1>2, <1>7, <1>9
<1>11. CASE /\ reader' = "payload" /\ need' = Len(Encoding[sent[k]])
            /\ buf' = <<>> /\ Len(buf) = Len(Length(k))
  <2>1. Len(buf') = 0
    BY <1>11
  <2>2. taken = marks[k].at + Len(Length(k)) /\ taken - 0 = taken
    <3> DEFINE a == marks[k].at
               h == Len(Length(k))
               b == Len(buf)
    <3>1. a \in Nat /\ h \in Nat /\ b \in Nat /\ taken \in Nat
      BY <1>3, <1>4, <1>9
    <3>2. taken - b = a /\ b = h
      BY <1>1, <1>11
    <3> HIDE DEF a, h, b
    <3>3. taken = a + h /\ taken - 0 = taken
      BY <3>1, <3>2
    <3>4. QED
      BY <3>3 DEF a, h
  <2>3. 0 + need' = need'
    BY <1>4, <1>11
  <2>4. k < Len(marks)
    BY <1>1, <1>9
  <2>5. (/\ Reading < Len(marks)
         /\ taken - Len(buf) = marks[Reading].at + Len(Length(Reading))
         /\ Len(buf) + need = Len(Encoding[sent[Reading]]))'
    BY <1>1, <1>2, <1>7, <1>8, <1>11, <2>1, <2>2, <2>3, <2>4
  <2>6. QED
    BY <1>5, <1>10, <1>11, <2>5 DEF ReadInv
<1>12. CASE UNCHANGED <<reader, buf>> /\ need' = 2 /\ prefix = "extended" /\ Len(buf) = 1
  <2>1. Len(buf) + need' = 3 /\ Len(buf) > 0
    BY <1>12
  <2>2. (/\ taken - Len(buf) = marks[Reading].at
         /\ prefix = "extended" /\ Len(buf) > 0 /\ Len(buf) + need = 3)'
    BY <1>1, <1>2, <1>7, <1>12, <2>1
  <2>3. reader' = "prefix"
    BY <1>1, <1>12
  <2>4. QED
    BY <1>5, <1>10, <2>2, <2>3 DEF ReadInv
<1>13. QED
  BY <1>1, <1>5, <1>6, <1>11, <1>12

\* A packet that is returned is the one sent, and the reader goes on with the
\* next frame.
LEMMA DeserializeStep ==
    ASSUME StreamTypeOK, FramesInv, WireInv, ReadInv, PoisonInv, Deserialize, NEW k, k = Reading
    PROVE  ReadInv' /\ StreamTypeOK'
<1>1. /\ k \in 1..Len(marks) - 1 /\ recvPos' \in Byte /\ buf' = <<>>
      /\ \/ reader' = "ended" /\ UNCHANGED <<need, returned>>
         \/ /\ reader' = "prefix" /\ need' = PrefixSize(prefix)
            /\ returned' = Append(returned, sent[k]) /\ sent[k] \in Packets
            /\ recvPos' = marks[k + 1].pos /\ taken = marks[k + 1].at
      /\ UNCHANGED <<codec, prefix, poisoned, sending, wire, taken, config>>
  BY Deserialized
<1>2. UNCHANGED <<sent, marks, stream>>
  BY <1>1 DEF sending
<1>3. returned \in Seq(Packets) /\ Len(returned) \in Nat /\ taken \in Nat /\ Len(marks) \in Nat
  BY DEF StreamTypeOK
<1>4. StreamTypeOK'
  <2>1. /\ need' \in Nat /\ buf' \in Seq(Byte) /\ reader' \in {"starting", "prefix", "payload", "ended"}
    <3>1. need \in Nat /\ PrefixSize(prefix) \in Nat
      BY DEF StreamTypeOK, PrefixSize
    <3>2. buf' \in Seq(Byte)
      BY <1>1
    <3>3. QED
      BY <1>1, <3>1, <3>2
  <2>2. returned' \in Seq(Packets)
    BY <1>1, <1>3
  <2>3. QED
    BY <1>1, <2>1, <2>2 DEF StreamTypeOK, sending, config
<1>5. CASE reader' = "ended" /\ UNCHANGED <<need, returned>>
  BY <1>2, <1>4, <1>5, ReadEnded
<1>6. CASE /\ reader' = "prefix" /\ need' = PrefixSize(prefix)
           /\ returned' = Append(returned, sent[k]) /\ sent[k] \in Packets
           /\ recvPos' = marks[k + 1].pos /\ taken = marks[k + 1].at
  <2>1. /\ k = Len(returned) + 1 /\ \A i \in DOMAIN returned : returned[i] = sent[i]
        /\ DOMAIN returned = 1..Len(returned)
    BY <1>3 DEF Reading, ReadInv
  <2>2. /\ Len(returned') = k /\ DOMAIN returned' = 1..k
        /\ returned'[k] = sent[k] /\ \A i \in 1..k - 1 : returned'[i] = returned[i]
    BY <1>3, <1>6, <2>1
  <2>3. \A i \in DOMAIN returned' : returned'[i] = sent'[i]
    <3>1. \A i \in 1..k : i = k \/ (i \in 1..k - 1 /\ i \in DOMAIN returned)
      BY <1>3, <2>1
    <3>2. QED
      BY <1>2, <2>1, <2>2, <3>1
  <2>4. Reading' = k + 1
    BY <2>2 DEF Reading
  <2>5. k + 1 <= Len(marks)
    BY <1>1, <1>3
  <2>6. Len(buf') = 0 /\ taken - 0 = taken /\ 0 + PrefixSize(prefix) = PrefixSize(prefix)
    BY <1>1, <1>3 DEF PrefixSize
  <2>7. (recvPos = marks[Reading].pos)'
    BY <1>2, <1>6, <2>4
  <2>8. (taken - Len(buf) = marks[Reading].at /\ Len(buf) + need = PrefixSize(prefix))'
    BY <1>1, <1>2, <1>6, <2>4, <2>6
  <2>9. (Reading <= Len(marks))'
    BY <1>2, <2>4, <2>5
  <2>10. QED
    BY <1>4, <1>6, <2>3, <2>7, <2>8, <2>9 DEF ReadInv
<1>7. QED
  BY <1>1, <1>5, <1>6

-----------------------------------------------------------------------------
(* The invariant                                                           *)

LEMMA Initially ==
    ASSUME StreamInit
    PROVE  StreamInv
<1> DEFINE m == [at |-> 0, pos |-> 0]
           Marks == [at: Nat, pos: Byte]
<1>1. 0 \in Byte /\ Unlimited \in Nat
  BY StreamAssumption DEF Byte, Unlimited
<1>2. marks = <<m>> /\ m \in Marks /\ m.at = 0 /\ m.pos = 0
  BY <1>1 DEF StreamInit
<1>3. marks \in Seq(Marks) /\ Len(marks) = 1 /\ marks[1].at = 0 /\ marks[1].pos = 0
  <2> HIDE DEF m, Marks
  <2>1. QED
    BY <1>2
<1>4. Effective \in Limits \cup {Unlimited}
  BY DEF StreamInit, Effective
<1>5. /\ out \in Seq(Byte) /\ wire \in Seq(Byte) /\ buf \in Seq(Byte) /\ stream \in Seq(Byte)
      /\ sent \in Seq(Packets) /\ returned \in Seq(Packets)
  BY DEF StreamInit
<1>6. 0 \in 0..MaxChanges
  BY StreamAssumption
<1>7. StreamTypeOK
  BY <1>1, <1>3, <1>4, <1>5, <1>6 DEF StreamInit, StreamTypeOK
<1>8. /\ Len(sent) = 0 /\ Len(stream) = 0 /\ Len(wire) = 0 /\ Len(out) = 0 /\ Len(buf) = 0 /\ Len(returned) = 0
      /\ DOMAIN returned = {} /\ DOMAIN out = {} /\ DOMAIN wire = {} /\ DOMAIN buf = {}
  BY DEF StreamInit
<1>9. writer = "idle" /\ out = <<>> /\ buf = <<>> /\ reader = "starting" /\ taken = 0 /\ sendPos = 0 /\ recvPos = 0 /\ poisoned = FALSE /\ synced = FALSE
  BY DEF StreamInit
<1>10. FramesInv
  BY <1>3, <1>8, <1>9 DEF FramesInv
<1>11. WireInv
  BY <1>8, <1>9 DEF WireInv
<1>12. ReadInv
  <2>1. Reading = 1
    BY <1>8 DEF Reading
  <2>2. QED
    BY <1>3, <1>8, <1>9, <2>1 DEF ReadInv
<1>13. QED
  BY <1>7, <1>9, <1>10, <1>11, <1>12 DEF StreamInv, LimitInv, PoisonInv

LEMMA LimitStep ==
    ASSUME LimitInv, [StreamNext]_streamVars
    PROVE  LimitInv'
<1>1. CASE UNCHANGED streamVars
  BY <1>1 DEF LimitInv, streamVars, receiving, config
<1>2. CASE Configure
  BY <1>2 DEF LimitInv, Configure, receiving
<1>3. CASE SyncLimits
  BY <1>3 DEF LimitInv, SyncLimits, receiving
<1>4. CASE Setup
  BY <1>4 DEF LimitInv, Setup, config
<1>5. CASE \E p \in Packets : Send(p)
  <2>1. UNCHANGED <<receiving, config>>
    BY <1>5 DEF Send
  <2>2. QED
    BY <2>1 DEF LimitInv, receiving, config
<1>6. CASE WriteByte \/ WriterEnds
  BY <1>6 DEF LimitInv, WriteByte, WriterEnds, receiving, config
<1>7. CASE ReadByte \/ ReadLength \/ Deserialize \/ ReaderEnds
  <2>1. reader # "starting" /\ UNCHANGED config
    BY <1>7 DEF ReadByte, ReadLength, Deserialize, ReaderEnds
  <2>2. QED
    BY <2>1 DEF LimitInv, config
<1>8. CASE CodecPanics
  BY <1>8 DEF LimitInv, CodecPanics, config
<1>9. QED
  BY <1>1, <1>2, <1>3, <1>4, <1>5, <1>6, <1>7, <1>8 DEF StreamNext

LEMMA PoisonStep ==
    ASSUME PoisonInv, [StreamNext]_streamVars
    PROVE  PoisonInv'
<1>1. CASE UNCHANGED <<codec, poisoned>>
  BY <1>1 DEF PoisonInv
<1>2. CASE CodecPanics
  BY <1>2 DEF CodecPanics, PoisonInv
<1>3. [StreamNext]_streamVars => UNCHANGED <<codec, poisoned>> \/ CodecPanics
  BY DEF StreamNext, streamVars, Configure, SyncLimits, Setup, Send, WriteByte, WriterEnds, ReadByte,
         ReadLength, Deserialize, ReaderEnds
<1>4. QED
  BY <1>1, <1>2, <1>3

LEMMA Preserved ==
    ASSUME StreamInv, [StreamNext]_streamVars
    PROVE  StreamInv'
<1> USE DEF StreamInv
<1>1. LimitInv' /\ PoisonInv'
  BY LimitStep, PoisonStep
<1>2. CASE UNCHANGED streamVars \/ Configure \/ SyncLimits \/ CodecPanics
  <2>1. UNCHANGED <<codec, prefix, sending, wire, reader, buf, need, returned, taken>>
    BY <1>2 DEF streamVars, Configure, SyncLimits, CodecPanics, receiving
  <2>2. UNCHANGED <<codec, prefix, sent, marks, stream, wire, out, writer, sendPos, reader, buf, need, returned, taken>>
    BY <2>1 DEF sending
  <2>3. FramesInv' /\ WireInv'
    BY <2>2, FramesStay, WireStays
  <2>4. poisoned' = TRUE \/ UNCHANGED <<poisoned, recvPos>>
    BY <1>2 DEF streamVars, Configure, SyncLimits, CodecPanics, receiving
  <2>5. ReadInv'
    BY <2>2, <2>4, ReadStays
  <2>6. StreamTypeOK'
    BY <1>2, OtherTypes
  <2>7. QED
    BY <1>1, <2>3, <2>5, <2>6
<1>3. CASE Setup
  <2>1. UNCHANGED <<codec, prefix, sent, marks, stream, wire, out, writer, sendPos, buf, taken>>
    BY <1>3 DEF Setup, sending
  <2>2. FramesInv' /\ WireInv'
    BY <2>1, FramesStay, WireStays
  <2>3. ReadInv'
    BY <1>3, SetupRead
  <2>4. StreamTypeOK'
    BY <1>3, OtherTypes
  <2>5. QED
    BY <1>1, <2>2, <2>3, <2>4
<1>4. CASE \E p \in Packets : Send(p)
  BY <1>1, <1>4, SendTypes, SendFrames, SendWire, SendRead
<1>5. CASE WriteByte
  <2>1. UNCHANGED <<codec, prefix, poisoned, sendPos, sent, stream, marks, receiving>> /\ writer = "writing"
    BY <1>5 DEF WriteByte
  <2>2. FramesInv'
    BY <2>1, FramesStay
  <2>3. ReadInv'
    BY <2>1, ReadStays DEF receiving
  <2>4. QED
    BY <1>1, <1>5, <2>2, <2>3, WriteWire, OtherTypes
<1>6. CASE WriterEnds
  <2>1. UNCHANGED <<codec, prefix, poisoned, wire, sent, stream, marks, receiving>> /\ writer' = "ended" /\ out' = <<>>
    BY <1>6 DEF WriterEnds
  <2>2. FramesInv'
    BY <2>1, FramesStay
  <2>3. ReadInv' /\ WireInv'
    BY <2>1, ReadStays, WireStays DEF receiving
  <2>4. StreamTypeOK'
    BY <1>6, OtherTypes
  <2>5. QED
    BY <1>1, <2>2, <2>3, <2>4
<1>7. CASE ReadByte
  <2>1. UNCHANGED <<codec, prefix, sent, stream, marks, writer, sendPos>>
    BY <1>7 DEF ReadByte, sending
  <2>2. FramesInv'
    BY <2>1, FramesStay
  <2>3. QED
    BY <1>1, <1>7, <2>2, ReadWire, ByteRead, OtherTypes
<1>8. CASE ReadLength
  <2>1. \A k : k = Reading => ReadInv' /\ StreamTypeOK' /\ (buf' = buf \/ buf' = <<>>)
    BY <1>8, LengthStep, LengthRead
  <2>2. UNCHANGED <<codec, prefix, sending, wire, taken>>
    BY <1>8 DEF ReadLength
  <2>3. UNCHANGED <<codec, prefix, sent, stream, marks, writer, out, sendPos, wire, taken>>
    BY <2>2 DEF sending
  <2>4. FramesInv' /\ WireInv'
    BY <2>1, <2>3, FramesStay, WireStays
  <2>5. QED
    BY <1>1, <2>1, <2>4
<1>9. CASE Deserialize
  <2>1. ReadInv' /\ StreamTypeOK'
    BY <1>9, DeserializeStep
  <2>2. UNCHANGED <<codec, prefix, sending, wire, taken>> /\ buf' = <<>>
    BY <1>9 DEF Deserialize
  <2>3. UNCHANGED <<codec, prefix, sent, stream, marks, writer, out, sendPos, wire, taken>>
    BY <2>2 DEF sending
  <2>4. FramesInv' /\ WireInv'
    BY <2>2, <2>3, FramesStay, WireStays
  <2>5. QED
    BY <1>1, <2>1, <2>4
<1>10. CASE ReaderEnds
  <2>1. UNCHANGED <<codec, prefix, sending, wire, taken, returned>> /\ buf' = <<>> /\ reader' = "ended"
    BY <1>10 DEF ReaderEnds
  <2>2. UNCHANGED <<codec, prefix, sent, stream, marks, writer, out, sendPos, wire, taken>>
    BY <2>1 DEF sending
  <2>3. FramesInv' /\ WireInv'
    BY <2>1, <2>2, FramesStay, WireStays
  <2>4. ReadInv' /\ StreamTypeOK'
    BY <1>10, <2>1, <2>2, ReadEnded, OtherTypes
  <2>5. QED
    BY <1>1, <2>3, <2>4
<1>11. QED
  BY <1>2, <1>3, <1>4, <1>5, <1>6, <1>7, <1>8, <1>9, <1>10 DEF StreamNext

-----------------------------------------------------------------------------
(* What holds of every run                                                 *)

\* The frames are in the stream, the bytes on their way, the reader, the
\* limit and the codec are always where the invariant says.
THEOREM StreamInvariance == StreamSpec => []StreamInv
<1>1. StreamInit => StreamInv
  BY Initially
<1>2. StreamInv /\ [StreamNext]_streamVars => StreamInv'
  BY Preserved
<1>3. QED
  BY <1>1, <1>2, PTL DEF StreamSpec

\* The types: every length written fits its codec, need never falls below
\* zero, and a position is one of a byte.
THEOREM StreamTypes == StreamSpec => []StreamTypeOK
<1>1. StreamInv => StreamTypeOK
  BY DEF StreamInv
<1>2. QED
  BY <1>1, StreamInvariance, PTL

\* FramedReader::receive returns the packets that FramedWriter::send was
\* given, in order, whatever the length codec, for a plain and for a stateful
\* payload codec, and wherever the stream was cut or a task ended.
THEOREM ReceivedInOrder == StreamSpec => []ReceivedIsPrefix
<1>1. StreamInv => ReceivedIsPrefix
  <2> SUFFICES ASSUME StreamInv
               PROVE  ReceivedIsPrefix
    OBVIOUS
  <2>1. Len(returned) + 1 <= Len(marks) /\ Len(marks) <= Len(sent) + 1
    BY DEF StreamInv, ReadInv, Reading, FramesInv
  <2>2. Len(returned) \in Nat /\ Len(marks) \in Nat /\ Len(sent) \in Nat
    BY DEF StreamInv, StreamTypeOK
  <2>3. Len(returned) <= Len(sent)
    BY <2>1, <2>2
  <2>4. QED
    BY <2>3 DEF StreamInv, ReadInv, ReceivedIsPrefix
<1>2. QED
  BY <1>1, StreamInvariance, PTL

\* A payload is allocated only if some limit that was configured since the
\* last sync_limits allows its length.
THEOREM LimitRespected == StreamSpec => NoAllocationPastLimit
<1>1. StreamInv /\ [StreamNext]_streamVars
      => [reader = "prefix" /\ reader' = "payload" => \E l \in allowed : need' <= l]_streamVars
  <2> SUFFICES ASSUME StreamInv, StreamNext, reader = "prefix", reader' = "payload"
               PROVE  \E l \in allowed : need' <= l
    OBVIOUS
  <2>1. ReadLength
    BY DEF StreamNext, Configure, SyncLimits, Setup, Send, WriteByte, WriterEnds, ReadByte,
           Deserialize, ReaderEnds, CodecPanics, receiving
  <2>2. limit \in allowed
    BY DEF StreamInv, LimitInv
  <2>3. \A k : k = Reading => need' <= limit
    BY <2>1, LengthRead DEF StreamInv
  <2>4. QED
    BY <2>2, <2>3
<1>2. QED
  BY <1>1, StreamInvariance, PTL DEF StreamSpec, NoAllocationPastLimit
=============================================================================
