-------------------------- MODULE SendPathProofs ----------------------------
(***************************************************************************)
(* Proofs about the send path, for any number of sending threads, every    *)
(* capacity, every set of sizes and rates and any number of packets.       *)
(***************************************************************************)
EXTENDS SendPath, FiniteSetTheorems, TLAPS

SenderStates == {"idle", "checked", "reserved", "counting"}

\* Threads whose state is in A.
In(A) == {s \in Senders : sender[s] \in A}

\* The types without the bounds that follow from the accounting.
Typed ==
    /\ datagram \in BOOLEAN
    /\ policy \in {"DropNewest", "DropOldest"}
    /\ sender \in [Senders -> SenderStates]
    /\ queued \in Nat
    /\ writer \in {"receiving", "held", "waiting", "pacing", "sending", "rejected",
                   "leaving", "closing", "draining", "exited"}
    /\ size \in Sizes \cup {0}
    /\ cancelled \in BOOLEAN /\ closed \in BOOLEAN
    /\ error \in {"none", "aborted", "other"}
    /\ rate \in Rates \cup {NoRate}
    /\ changed \in BOOLEAN
    /\ previous \in Sizes \cup {0}
    /\ age \in 0..MaxAge
    /\ deadline \in Nat /\ earliest \in Nat
    /\ calls \in 0..MaxSends
    /\ accepted \in Nat /\ sent \in Nat /\ late \in Nat
    /\ drops \in [Reasons -> Nat]

\* Permits count against the capacity, and only a stream gives permits.
PermitInv ==
    /\ queued + Cardinality(In({"reserved"})) <= Capacity
    /\ datagram => In({"reserved"}) = {}

\* A call of send() is answered at most once.
CallInv ==
    accepted + drops["full"] + Cardinality(In({"checked", "reserved"})) <= calls

\* The error is set by the step that leaves the loop.
ErrorInv == writer \in Holding \cup {"receiving"} => error = "none"

\* Some rate in force since the last transmission is the one in force now.
RateInv ==
    /\ datagram => earliest <= Spacing(previous, rate)
    /\ writer \in {"waiting", "pacing"} => datagram

IInv ==
    /\ Typed /\ PermitInv /\ CallInv /\ ErrorInv /\ RateInv
    /\ SendsAccounted /\ Paced

-----------------------------------------------------------------------------
\* spacing() is a number of units, and zero before the first packet.
LEMMA SpacingType ==
  ASSUME NEW bytes \in Nat, NEW r \in Rates \cup {NoRate}
  PROVE  Spacing(bytes, r) \in Nat
<1>1. CASE r = NoRate
  BY <1>1 DEF Spacing
<1>2. CASE r # NoRate
  <2>1. r \in Nat \ {0}
    BY <1>2, SendPathAssumption
  <2>2. bytes + r - 1 \in Nat
    BY <2>1
  <2>3. (bytes + r - 1) \div r \in Nat
    BY <2>1, <2>2
  <2>4. QED
    BY <1>2, <2>3 DEF Spacing
<1>3. QED
  BY <1>1, <1>2

\* What leaves one summand and joins another leaves the sum alone.
LEMMA Exchange ==
    ASSUME NEW q \in Nat, NEW q2 \in Nat, NEW s \in Nat, NEW r \in Nat,
           NEW t \in Nat, NEW t2 \in Nat, t2 + q2 = t + q
    PROVE  q2 + s + r + t2 = q + s + r + t
OBVIOUS

\* How a step of one thread changes the number of threads in some states.
LEMMA CountMove ==
  ASSUME Typed, NEW s \in Senders, NEW to, sender' = [sender EXCEPT ![s] = to],
         NEW A
  PROVE  /\ Cardinality(In(A)) \in Nat
         /\ to \in A /\ sender[s] \notin A =>
              Cardinality(In(A)') = Cardinality(In(A)) + 1
         /\ to \notin A /\ sender[s] \in A =>
              Cardinality(In(A)') = Cardinality(In(A)) - 1
         /\ (to \in A <=> sender[s] \in A) => In(A)' = In(A)
<1>1. IsFiniteSet(In(A))
  BY FS_Subset, SendPathAssumption DEF In
<1>2. In(A)' = {u \in Senders : sender'[u] \in A}
  BY DEF In
<1>3. CASE to \in A /\ sender[s] \notin A
  <2>1. In(A)' = In(A) \cup {s} /\ s \notin In(A)
    BY <1>2, <1>3 DEF In, Typed
  <2>2. QED
    BY <1>1, <1>3, <2>1, FS_AddElement, FS_CardinalityType
<1>4. CASE to \notin A /\ sender[s] \in A
  <2>1. In(A)' = In(A) \ {s} /\ s \in In(A)
    BY <1>2, <1>4 DEF In, Typed
  <2>2. QED
    BY <1>1, <1>4, <2>1, FS_RemoveElement, FS_CardinalityType
<1>5. CASE to \in A <=> sender[s] \in A
  <2>1. In(A)' = In(A)
    BY <1>2, <1>5 DEF In, Typed
  <2>2. QED
    BY <1>1, <1>5, <2>1, FS_CardinalityType
<1>6. QED
  BY <1>3, <1>4, <1>5

\* The numbers of threads are natural.
LEMMA CountType == ASSUME NEW A PROVE Cardinality(In(A)) \in Nat
  BY FS_Subset, FS_CardinalityType, SendPathAssumption DEF In

\* What the properties count, in terms of In.
LEMMA CountNames ==
  Reserved = In({"reserved"}) /\ Counting = Cardinality(In({"counting"}))
  BY DEF Reserved, Counting, In

\* outgoing_channel, DataPacer::new and run() establish the invariant.
LEMMA InitHolds == Init => IInv
<1> SUFFICES ASSUME Init
             PROVE  IInv
  OBVIOUS
<1> USE SendPathAssumption DEF Init, QueueInit, PacerInit
<1>1. Typed
  <2>1. datagram \in BOOLEAN /\ cancelled \in BOOLEAN /\ closed \in BOOLEAN /\ changed \in BOOLEAN
    OBVIOUS
  <2>2. policy \in {"DropNewest", "DropOldest"} /\ rate \in Rates \cup {NoRate}
    OBVIOUS
  <2>3. sender \in [Senders -> SenderStates] /\ drops \in [Reasons -> Nat]
    BY DEF SenderStates
  <2>4. QED
    BY <2>1, <2>2, <2>3 DEF Typed
<1>2. \A A : "idle" \notin A => In(A) = {} /\ Cardinality(In(A)) = 0
  BY FS_EmptySet DEF In
<1>3. PermitInv /\ CallInv /\ ErrorInv
  BY <1>2 DEF PermitInv, CallInv, ErrorInv, Reasons
<1>4. Spacing(previous, rate) \in Nat
  BY <1>1, SpacingType DEF Typed
<1>5. RateInv /\ Paced
  BY <1>4 DEF RateInv, Paced
<1>6. SendsAccounted
  BY <1>2, CountNames DEF SendsAccounted, Held, Holding, Reported, Reasons
<1>7. QED
  BY <1>1, <1>3, <1>5, <1>6 DEF IInv

-----------------------------------------------------------------------------
\* Every way out of the loop of send_packets: a packet that is held leaves.
Leaving ==
    \E kind \in {"none", "aborted", "other"}, held \in BOOLEAN :
        /\ writer \in Holding \cup {"receiving"}
        /\ held <=> writer \in Holding
        /\ ~held => kind = "none"
        /\ Leave(kind, held)

\* A stream takes the packet.
StreamWritten ==
    /\ ~datagram /\ writer = "sending"
    /\ writer' = "receiving" /\ size' = 0
    /\ sent' = sent + 1
    /\ UNCHANGED <<queue, sender, tokens, error, pacing, drops>>

\* The socket of an open association fails.
SocketDrop ==
    /\ writer = "rejected"
    /\ writer' = "receiving" /\ size' = 0
    /\ CountDrops("socket", 1)
    /\ UNCHANGED <<queue, sender, tokens, error, pacing, sent>>

\* The actions of the task either leave its loop or stay in it.
LEMMA LeaveCases ==
  ASSUME Typed
  PROVE  /\ SeeCancelled \/ EncodeFails \/ WaitClosed => Leaving
         /\ WriteStream => Leaving \/ StreamWritten
         /\ AfterSocketError => Leaving \/ SocketDrop
<1> USE DEF Holding
<1>1. ASSUME SeeCancelled PROVE Leaving
  <2>1. CASE writer = "receiving"
    BY <1>1, <2>1 DEF SeeCancelled, Leaving
  <2>2. CASE writer # "receiving"
    BY <1>1, <2>2 DEF SeeCancelled, Leaving
  <2>3. QED
    BY <2>1, <2>2
<1>2. ASSUME EncodeFails PROVE Leaving
  BY <1>2 DEF EncodeFails, Leaving
<1>3. ASSUME WaitClosed PROVE Leaving
  BY <1>3 DEF WaitClosed, Leaving
<1>4. ASSUME WriteStream PROVE Leaving \/ StreamWritten
  BY <1>4 DEF WriteStream, Leaving, StreamWritten
<1>5. ASSUME AfterSocketError PROVE Leaving \/ SocketDrop
  BY <1>5 DEF AfterSocketError, Leaving, SocketDrop
<1>6. QED
  BY <1>1, <1>2, <1>3, <1>4, <1>5

\* Every step keeps the types.
LEMMA TypedKeeps == IInv /\ [Next]_vars => Typed'
<1> SUFFICES ASSUME IInv, [Next]_vars
             PROVE  Typed'
  OBVIOUS
<1> USE SendPathAssumption DEF Typed, vars, queue, pacing, tokens
<1>1. Typed
  BY DEF IInv
<1>2. ASSUME NEW reason \in Reasons, NEW n \in Nat, CountDrops(reason, n)
      PROVE  drops' \in [Reasons -> Nat]
  BY <1>1, <1>2 DEF CountDrops
<1>3. Reasons = {"full", "evicted", "closed", "oversized", "socket"}
  BY DEF Reasons
<1>4. ASSUME NEW s \in Senders, NEW from, NEW to \in SenderStates, Step(s, from, to)
      PROVE  sender' \in [Senders -> SenderStates]
  BY <1>1, <1>4 DEF Step
<1>5. ASSUME NEW s \in Senders, Send(s) \/ SendClosed(s) \/ SendLossy(s) \/ Reserve(s) \/ PublishPacket(s)
      PROVE  Typed'
  <2>1. sender' \in [Senders -> SenderStates]
    BY <1>4, <1>5 DEF Send, SendClosed, SendLossy, Reserve, PublishPacket, SenderStates
  <2>2. QED
    BY <1>1, <1>5, <2>1 DEF Send, SendClosed, SendLossy, Reserve, PublishPacket
<1>6. ASSUME NEW s \in Senders, SendFull(s) \/ CountEvicted(s)
      PROVE  Typed'
  <2>1. sender' \in [Senders -> SenderStates]
    BY <1>4, <1>6 DEF SendFull, CountEvicted, SenderStates
  <2>2. drops' \in [Reasons -> Nat]
    BY <1>2, <1>3, <1>6 DEF SendFull, CountEvicted
  <2>3. QED
    BY <1>1, <1>6, <2>1, <2>2 DEF SendFull, CountEvicted
<1>7. CASE Leaving
  <2>1. PICK kind \in {"none", "aborted", "other"}, held \in BOOLEAN : Leave(kind, held)
    BY <1>7 DEF Leaving
  <2>2. drops' \in [Reasons -> Nat]
    BY <1>2, <1>3, <2>1 DEF Leave
  <2>3. QED
    BY <1>1, <2>1, <2>2 DEF Leave
<1>8. CASE ReceiveNext \/ Encode \/ CancelOnExit
  <2>1. CASE ReceiveNext
    BY <1>1, <2>1 DEF ReceiveNext
  <2>2. CASE Encode
    BY <1>1, <2>2 DEF Encode
  <2>3. CASE CancelOnExit
    BY <1>1, <2>3 DEF CancelOnExit
  <2>4. QED
    BY <1>8, <2>1, <2>2, <2>3
<1>9. CASE Oversized
  <2>1. drops' \in [Reasons -> Nat]
    BY <1>2, <1>3, <1>9 DEF Oversized
  <2>2. QED
    BY <1>1, <1>9, <2>1 DEF Oversized
<1>10. CASE DropReceiver
  <2>1. drops' \in [Reasons -> Nat]
    BY <1>1, <1>2, <1>3, <1>10 DEF DropReceiver
  <2>2. QED
    BY <1>1, <1>10, <2>1 DEF DropReceiver
<1>11. CASE StreamWritten
  BY <1>1, <1>11 DEF StreamWritten
<1>12. CASE SocketDrop
  <2>1. drops' \in [Reasons -> Nat]
    BY <1>2, <1>3, <1>12 DEF SocketDrop
  <2>2. QED
    BY <1>1, <1>12, <2>1 DEF SocketDrop
<1>13. CASE WaitCheck
  <2>1. Spacing(previous, rate) \in Nat
    BY <1>1, SpacingType
  <2>2. QED
    BY <1>1, <1>13, <2>1 DEF WaitCheck
<1>14. CASE WaitChanged \/ WaitOver
  BY <1>1, <1>14 DEF WaitChanged, WaitOver
<1>15. CASE SendAborted \/ SendDatagram \/ SocketFails
  <2>1. Spacing(size, rate) \in Nat
    BY <1>1, SpacingType
  <2>2. drops' \in [Reasons -> Nat]
    BY <1>1, <1>2, <1>3, <1>15 DEF SendAborted, SendDatagram, SocketFails
  <2>3. QED
    BY <1>1, <1>15, <2>1, <2>2 DEF SendAborted, SendDatagram, SocketFails, Sent
<1>16. CASE Disconnect \/ ClosePeer \/ Tick \/ UNCHANGED vars
  <2>1. CASE Disconnect
    BY <1>1, <2>1 DEF Disconnect
  <2>2. CASE ClosePeer
    BY <1>1, <2>2 DEF ClosePeer
  <2>3. CASE Tick
    BY <1>1, <2>3 DEF Tick
  <2>4. CASE UNCHANGED vars
    BY <1>1, <2>4
  <2>5. QED
    BY <1>16, <2>1, <2>2, <2>3, <2>4
<1>17. CASE SetSendRate
  <2>1. PICK r \in Rates \cup {NoRate} : rate' = r /\ earliest' = Least(earliest, Spacing(previous, r))
    BY <1>17 DEF SetSendRate
  <2>2. Spacing(previous, r) \in Nat
    BY <1>1, SpacingType
  <2>3. QED
    BY <1>1, <1>17, <2>1, <2>2 DEF SetSendRate, Least
<1>18. QED
  BY <1>1, <1>5, <1>6, <1>7, <1>8, <1>9, <1>10, <1>11, <1>12, <1>13, <1>14, <1>15, <1>16, <1>17,
     LeaveCases DEF Next, TrySend, SendPackets, Pace, Socket

\* The steps that are not calls of send().
TaskStep == SendPackets \/ Pace \/ Socket \/ Disconnect \/ ClosePeer \/ SetSendRate \/ Tick

\* What the task and the environment do to the queue: a packet may be taken,
\* the receiver's drop takes all of them.
LEMMA TaskFrame ==
  ASSUME Typed, TaskStep \/ UNCHANGED vars
  PROVE  /\ UNCHANGED <<datagram, policy, calls, accepted, late, sender>>
         /\ queued' <= queued
         /\ drops'["full"] = drops["full"]
         /\ \A A : In(A)' = In(A)
<1> USE DEF Typed, queue, CountDrops, Reasons
<1>1. CASE Leaving
  BY <1>1 DEF Leaving, Leave, In
<1>2. CASE StreamWritten \/ SocketDrop
  BY <1>2 DEF StreamWritten, SocketDrop, In
<1>3. CASE ReceiveNext \/ Oversized \/ Encode \/ CancelOnExit \/ DropReceiver
  BY <1>3 DEF ReceiveNext, Oversized, Encode, CancelOnExit, DropReceiver, In
<1>4. CASE WaitCheck \/ WaitChanged \/ WaitOver \/ SendAborted \/ SendDatagram \/ SocketFails
  BY <1>4 DEF WaitCheck, WaitChanged, WaitOver, SendAborted, SendDatagram, SocketFails, In
<1>5. CASE Disconnect \/ ClosePeer \/ SetSendRate \/ Tick \/ UNCHANGED vars
  BY <1>5 DEF Disconnect, ClosePeer, SetSendRate, Tick, vars, In
<1>6. QED
  BY <1>1, <1>2, <1>3, <1>4, <1>5, LeaveCases DEF TaskStep, SendPackets, Pace, Socket

\* Permits and packets together never exceed the capacity.
LEMMA PermitKeeps == IInv /\ [Next]_vars => PermitInv'
<1> SUFFICES ASSUME IInv, [Next]_vars
             PROVE  PermitInv'
  OBVIOUS
<1> USE DEF PermitInv
<1>1. Typed /\ PermitInv
  BY DEF IInv
<1>2. Cardinality(In({"reserved"})) \in Nat /\ Capacity \in Nat
  BY CountType, SendPathAssumption
<1>3. ASSUME NEW s \in Senders, NEW from, NEW to, Step(s, from, to),
             from # "reserved", to # "reserved"
      PROVE  In({"reserved"})' = In({"reserved"})
  BY <1>1, <1>3, CountMove DEF Step
<1>4. ASSUME NEW s \in Senders, Send(s) \/ SendClosed(s) \/ SendFull(s) \/ CountEvicted(s)
      PROVE  PermitInv'
  <2>1. UNCHANGED <<datagram, queued>>
    BY <1>4 DEF Send, SendClosed, SendFull, CountEvicted, queue
  <2>2. In({"reserved"})' = In({"reserved"})
    BY <1>3, <1>4 DEF Send, SendClosed, SendFull, CountEvicted
  <2>3. QED
    BY <1>1, <2>1, <2>2
<1>5. ASSUME NEW s \in Senders, SendLossy(s)
      PROVE  PermitInv'
  <2>1. In({"reserved"})' = In({"reserved"})
    BY <1>3, <1>5 DEF SendLossy
  <2>2. Cardinality(In({"reserved"})) = 0
    BY <1>1, <1>5, FS_EmptySet DEF SendLossy
  <2>3. queued' <= Capacity /\ UNCHANGED datagram
    BY <1>1, <1>2, <1>5, <2>2 DEF SendLossy, Typed
  <2>4. QED
    BY <1>1, <2>1, <2>2, <2>3, TypedKeeps DEF Typed
<1>6. ASSUME NEW s \in Senders, Reserve(s)
      PROVE  PermitInv'
  <2>1. Cardinality(In({"reserved"})') = Cardinality(In({"reserved"})) + 1
    BY <1>1, <1>6, CountMove DEF Reserve, Step
  <2>2. /\ ~datagram /\ UNCHANGED <<datagram, queued>>
        /\ queued + Cardinality(In({"reserved"})) < Capacity
    BY <1>6, CountNames DEF Reserve, queue
  <2>3. QED
    BY <1>1, <1>2, <2>1, <2>2 DEF Typed
<1>7. ASSUME NEW s \in Senders, PublishPacket(s)
      PROVE  PermitInv'
  <2>1. Cardinality(In({"reserved"})') = Cardinality(In({"reserved"})) - 1
    <3>1. sender[s] = "reserved" /\ sender' = [sender EXCEPT ![s] = "idle"]
      BY <1>7 DEF PublishPacket, Step
    <3>2. "idle" \notin {"reserved"} /\ sender[s] \in {"reserved"}
      BY <3>1
    <3>3. QED
      BY <1>1, <3>1, <3>2, CountMove, Zenon
  <2>2. s \in In({"reserved"})
    BY <1>7 DEF PublishPacket, Step, In
  <2>3. ~datagram /\ UNCHANGED datagram /\ queued' <= queued + 1
    BY <1>1, <1>7, <2>2 DEF PublishPacket, Typed
  <2>4. QED
    BY <1>1, <1>2, <2>1, <2>3, TypedKeeps DEF Typed
<1>8. CASE TaskStep \/ UNCHANGED vars
  BY <1>1, <1>2, <1>8, TaskFrame, TypedKeeps DEF Typed
<1>9. QED
  BY <1>4, <1>5, <1>6, <1>7, <1>8 DEF Next, TrySend, TaskStep

\* A call is answered at most once.
LEMMA CallKeeps == IInv /\ [Next]_vars => CallInv'
<1> SUFFICES ASSUME IInv, [Next]_vars
             PROVE  CallInv'
  OBVIOUS
<1> DEFINE Calling == In({"checked", "reserved"})
<1> HIDE DEF Calling
<1> USE DEF Typed, CallInv
<1>1. Typed /\ Typed' /\ CallInv /\ Cardinality(Calling) \in Nat
  BY TypedKeeps, CountType DEF IInv, Calling
<1>2. accepted + drops["full"] + Cardinality(Calling) <= calls
  BY <1>1 DEF Calling
<1>3. ASSUME accepted' + drops'["full"] + Cardinality(Calling') <= calls'
      PROVE  CallInv'
  BY <1>3 DEF Calling
<1>4. drops["full"] \in Nat
  BY <1>1 DEF Reasons
<1>5. ASSUME NEW s \in Senders, NEW from, NEW to, Step(s, from, to)
      PROVE  /\ from \in {"checked", "reserved"} /\ to \notin {"checked", "reserved"} =>
                   Cardinality(Calling') = Cardinality(Calling) - 1
             /\ from \notin {"checked", "reserved"} /\ to \in {"checked", "reserved"} =>
                   Cardinality(Calling') = Cardinality(Calling) + 1
             /\ (from \in {"checked", "reserved"} <=> to \in {"checked", "reserved"}) =>
                   Calling' = Calling
  BY <1>1, <1>5, CountMove DEF Step, Calling
<1>6. ASSUME NEW s \in Senders, Send(s)
      PROVE  CallInv'
  <2>1. UNCHANGED <<accepted, drops>> /\ calls' = calls + 1
    BY <1>6 DEF Send
  <2>2. Cardinality(Calling') <= Cardinality(Calling) + 1
    BY <1>1, <1>5, <1>6 DEF Send
  <2>3. Cardinality(Calling') \in Nat
    BY <1>1, <1>5, <1>6 DEF Send
  <2>4. QED
    BY <1>1, <1>2, <1>3, <1>4, <2>1, <2>2, <2>3
<1>7. ASSUME NEW s \in Senders, SendClosed(s) \/ CountEvicted(s) \/ Reserve(s)
      PROVE  CallInv'
  <2>1. UNCHANGED <<accepted, calls>> /\ drops'["full"] = drops["full"]
    BY <1>1, <1>7 DEF SendClosed, CountEvicted, Reserve, queue, CountDrops, Reasons
  <2>2. Cardinality(Calling') = Cardinality(Calling) \/ Cardinality(Calling') = Cardinality(Calling) - 1
    BY <1>1, <1>5, <1>7 DEF SendClosed, CountEvicted, Reserve
  <2>3. QED
    BY <1>1, <1>2, <1>3, <1>4, <2>1, <2>2
<1>8. ASSUME NEW s \in Senders, SendFull(s)
      PROVE  CallInv'
  <2>1. UNCHANGED <<accepted, calls>> /\ drops'["full"] = drops["full"] + 1
    BY <1>1, <1>8 DEF SendFull, queue, CountDrops, Reasons
  <2>2. Cardinality(Calling') = Cardinality(Calling) - 1
    BY <1>5, <1>8 DEF SendFull
  <2>3. QED
    BY <1>1, <1>2, <1>3, <1>4, <2>1, <2>2
<1>9. ASSUME NEW s \in Senders, SendLossy(s) \/ PublishPacket(s)
      PROVE  CallInv'
  <2>1. UNCHANGED <<drops, calls>> /\ accepted' = accepted + 1
    BY <1>9 DEF SendLossy, PublishPacket
  <2>2. Cardinality(Calling') = Cardinality(Calling) - 1
    BY <1>5, <1>9 DEF SendLossy, PublishPacket
  <2>3. QED
    BY <1>1, <1>2, <1>3, <1>4, <2>1, <2>2
<1>10. CASE TaskStep \/ UNCHANGED vars
  <2>1. Calling' = Calling /\ UNCHANGED <<accepted, calls>> /\ drops'["full"] = drops["full"]
    BY <1>1, <1>10, TaskFrame DEF Calling
  <2>2. QED
    BY <1>2, <1>3, <2>1
<1>11. QED
  BY <1>6, <1>7, <1>8, <1>9, <1>10 DEF Next, TrySend, TaskStep

\* An error is set by the step that leaves the loop.
LEMMA ErrorKeeps == IInv /\ [Next]_vars => ErrorInv'
<1> SUFFICES ASSUME IInv, [Next]_vars
             PROVE  ErrorInv'
  OBVIOUS
<1> USE DEF ErrorInv, Holding
<1>1. Typed /\ ErrorInv
  BY DEF IInv
<1>2. ASSUME NEW s \in Senders, Send(s) \/ TrySend(s)
      PROVE  ErrorInv'
  BY <1>1, <1>2 DEF Send, TrySend, SendClosed, SendFull, SendLossy, CountEvicted, Reserve,
                    PublishPacket
<1>3. CASE Leaving
  BY <1>3 DEF Leaving, Leave
<1>4. CASE StreamWritten \/ SocketDrop \/ ReceiveNext \/ Oversized \/ Encode
  BY <1>1, <1>4 DEF StreamWritten, SocketDrop, ReceiveNext, Oversized, Encode
<1>5. CASE CancelOnExit \/ DropReceiver \/ SendAborted
  BY <1>5 DEF CancelOnExit, DropReceiver, SendAborted
<1>6. CASE WaitCheck \/ WaitChanged \/ WaitOver \/ SendDatagram \/ SocketFails
  BY <1>1, <1>6 DEF WaitCheck, WaitChanged, WaitOver, SendDatagram, SocketFails
<1>7. CASE Disconnect \/ ClosePeer \/ SetSendRate \/ Tick \/ UNCHANGED vars
  BY <1>1, <1>7 DEF Disconnect, ClosePeer, SetSendRate, Tick, vars
<1>8. QED
  BY <1>1, <1>2, <1>3, <1>4, <1>5, <1>6, <1>7, LeaveCases DEF Next, SendPackets, Pace, Socket

\* The pacer keeps the distance that some rate in force asks for.
LEMMA PacedKeeps == IInv /\ [Next]_vars => RateInv' /\ Paced'
<1> SUFFICES ASSUME IInv, [Next]_vars
             PROVE  RateInv' /\ Paced'
  OBVIOUS
<1> USE DEF Typed, RateInv, Paced
<1>1. Typed /\ Typed' /\ RateInv /\ Paced
  BY TypedKeeps DEF IInv
<1>2. \A bytes \in Sizes \cup {0}, r \in Rates \cup {NoRate} : Spacing(bytes, r) \in Nat
  BY SpacingType, SendPathAssumption
<1>3. Spacing(previous, rate) \in Nat /\ age \in Nat /\ earliest \in Nat
  BY <1>1, <1>2, SendPathAssumption
<1>4. ASSUME UNCHANGED <<datagram, writer, pacing>>
      PROVE  RateInv' /\ Paced'
  BY <1>1, <1>4 DEF pacing
<1>5. ASSUME UNCHANGED <<datagram, pacing>>, writer' \notin {"waiting", "pacing", "sending"}
      PROVE  RateInv' /\ Paced'
  BY <1>1, <1>5 DEF pacing
<1>6. ASSUME NEW s \in Senders, Send(s) \/ TrySend(s)
      PROVE  RateInv' /\ Paced'
  BY <1>4, <1>6 DEF Send, TrySend, SendClosed, SendFull, SendLossy, CountEvicted, Reserve,
                    PublishPacket, queue
<1>7. CASE Leaving \/ StreamWritten \/ SocketDrop
  BY <1>5, <1>7 DEF Leaving, Leave, StreamWritten, SocketDrop, queue
<1>8. CASE ReceiveNext \/ Oversized \/ CancelOnExit \/ DropReceiver
  BY <1>5, <1>8 DEF ReceiveNext, Oversized, CancelOnExit, DropReceiver, queue
<1>9. CASE Encode
  <2>1. UNCHANGED <<datagram, pacing>> /\ (datagram => writer' = "waiting")
        /\ (~datagram => writer' = "sending")
    BY <1>9 DEF Encode, queue
  <2>2. QED
    BY <1>1, <2>1 DEF pacing
<1>10. CASE WaitCheck
  <2>1. /\ writer = "waiting" /\ datagram' = datagram /\ rate' = rate /\ previous' = previous
        /\ age' = age /\ earliest' = earliest /\ deadline' = Spacing(previous, rate)
        /\ writer' = IF age >= Spacing(previous, rate) THEN "sending" ELSE "pacing"
    BY <1>10 DEF WaitCheck, queue
  <2>2. Spacing(previous', rate') = Spacing(previous, rate)
    BY <2>1
  <2>3. RateInv'
    BY <1>1, <2>1, <2>2
  <2>4. Paced'
    BY <1>1, <1>3, <2>1, <2>2
  <2>5. QED
    BY <2>3, <2>4
<1>11. CASE WaitChanged
  BY <1>1, <1>11 DEF WaitChanged, pacing, queue
<1>12. CASE WaitOver
  <2>1. /\ writer = "pacing" /\ writer' = "sending" /\ ~changed /\ age >= deadline
        /\ UNCHANGED <<datagram, pacing>>
    BY <1>12 DEF WaitOver, queue
  <2>2. age >= earliest
    BY <1>1, <1>3, <2>1
  <2>3. QED
    BY <1>1, <2>1, <2>2 DEF pacing
<1>13. CASE SendAborted \/ SendDatagram \/ SocketFails
  <2>1. /\ UNCHANGED <<datagram, rate>> /\ Sent
        /\ writer' \notin {"waiting", "pacing", "sending"}
    BY <1>13 DEF SendAborted, SendDatagram, SocketFails, queue
  <2>2. Spacing(size, rate) \in Nat
    BY <1>1, <1>2
  <2>3. QED
    BY <2>1, <2>2 DEF Sent
<1>14. CASE Disconnect \/ ClosePeer \/ UNCHANGED vars
  BY <1>4, <1>14 DEF Disconnect, ClosePeer, vars, queue
<1>15. CASE SetSendRate
  <2>1. PICK r \in Rates \cup {NoRate} : rate' = r /\ earliest' = Least(earliest, Spacing(previous, r))
    BY <1>15 DEF SetSendRate
  <2>2. changed' /\ UNCHANGED <<datagram, writer, previous, age>>
    BY <1>15 DEF SetSendRate, queue
  <2>3. Spacing(previous, r) \in Nat
    BY <1>1, <1>2
  <2>4. earliest' <= earliest /\ earliest' <= Spacing(previous, r)
    BY <1>3, <2>1, <2>3 DEF Least
  <2>5. QED
    BY <1>1, <1>3, <2>1, <2>2, <2>4
<1>16. CASE Tick
  <2>1. age' = age + 1 /\ UNCHANGED <<datagram, writer, rate, changed, previous, deadline, earliest>>
    BY <1>16 DEF Tick, queue
  <2>2. QED
    BY <1>1, <1>3, <2>1
<1>17. QED
  BY <1>1, <1>6, <1>7, <1>8, <1>9, <1>10, <1>11, <1>12, <1>13, <1>14, <1>15, <1>16, LeaveCases
  DEF Next, SendPackets, Pace, Socket

\* Each accepted packet stays accounted for.
LEMMA AccountedKeeps == IInv /\ [Next]_vars => SendsAccounted'
<1> SUFFICES ASSUME IInv, [Next]_vars
             PROVE  SendsAccounted'
  OBVIOUS
<1> DEFINE C == Cardinality(In({"counting"}))
           Total == drops["evicted"] + drops["closed"] + drops["oversized"] + drops["socket"]
<1> HIDE DEF C
<1> USE DEF Typed
<1>1. Typed /\ Typed' /\ ErrorInv /\ PermitInv /\ C \in Nat
  BY TypedKeeps, CountType DEF IInv, C
<1>2. /\ drops["evicted"] \in Nat /\ drops["closed"] \in Nat
      /\ drops["oversized"] \in Nat /\ drops["socket"] \in Nat
      /\ Held \in 0..1 /\ Reported \in 0..1
  BY <1>1 DEF Reasons, Held, Reported
<1>3. /\ accepted = queued + Held + sent + Reported + late + C + Total
      /\ datagram => late = 0
      /\ writer = "exited" => queued = 0
  <2>1. Counting = C
    BY CountNames DEF C
  <2>2. SendsAccounted
    BY DEF IInv
  <2>3. QED
    BY <1>1, <1>2, <2>1, <2>2 DEF SendsAccounted
<1>4. ASSUME accepted' = queued' + Held' + sent' + Reported' + late' + C' + Total',
             datagram' => late' = 0,
             writer' = "exited" => queued' = 0
      PROVE  SendsAccounted'
  <2>1. Counting' = C'
    BY DEF Counting, C, In
  <2>2. /\ drops'["evicted"] \in Nat /\ drops'["closed"] \in Nat
        /\ drops'["oversized"] \in Nat /\ drops'["socket"] \in Nat
        /\ Held' \in 0..1 /\ Reported' \in 0..1
    BY <1>1 DEF Reasons, Held, Reported
  <2>3. C' \in Nat
    BY FS_Subset, FS_CardinalityType, SendPathAssumption DEF C, In
  <2>4. QED
    BY <1>1, <1>4, <2>1, <2>2, <2>3 DEF SendsAccounted
<1>5. ASSUME NEW s \in Senders, NEW from, NEW to, Step(s, from, to)
      PROVE  /\ from = "counting" /\ to # "counting" => C' = C - 1
             /\ from # "counting" /\ to = "counting" => C' = C + 1
             /\ (from = "counting" <=> to = "counting") => C' = C
  BY <1>1, <1>5, CountMove DEF Step, C
<1>6. ASSUME NEW s \in Senders, Send(s) \/ SendClosed(s) \/ SendFull(s) \/ Reserve(s)
      PROVE  SendsAccounted'
  <2>1. /\ UNCHANGED <<datagram, accepted, queued, writer, sent, error, late>>
        /\ C' = C
    BY <1>5, <1>6 DEF Send, SendClosed, SendFull, Reserve, queue
  <2>2. Total' = Total
    BY <1>1, <1>6 DEF Send, SendClosed, SendFull, Reserve, CountDrops, Reasons
  <2>3. Held' = Held /\ Reported' = Reported
    BY <2>1 DEF Held, Reported
  <2>4. QED
    BY <1>3, <1>4, <2>1, <2>2, <2>3
<1>7. ASSUME NEW s \in Senders, SendLossy(s)
      PROVE  SendsAccounted'
  <2>1. UNCHANGED <<datagram, writer, sent, error, late, drops>> /\ accepted' = accepted + 1
    BY <1>7 DEF SendLossy
  <2>2. Held' = Held /\ Reported' = Reported /\ Total' = Total
    BY <2>1 DEF Held, Reported
  <2>3. (queued' = queued + 1 /\ C' = C) \/ (queued' = queued /\ C' = C + 1)
    BY <1>5, <1>7 DEF SendLossy
  <2>4. writer # "exited"
    BY <1>7 DEF SendLossy, ReceiverGone
  <2>5. QED
    BY <1>1, <1>3, <1>4, <1>2, <2>1, <2>2, <2>3, <2>4
<1>8. ASSUME NEW s \in Senders, CountEvicted(s)
      PROVE  SendsAccounted'
  <2>1. UNCHANGED <<datagram, accepted, queued, writer, sent, error, late>> /\ C' = C - 1
    BY <1>5, <1>8 DEF CountEvicted, queue
  <2>2. Held' = Held /\ Reported' = Reported
    BY <2>1 DEF Held, Reported
  <2>3. Total' = Total + 1
    BY <1>1, <1>2, <1>8 DEF CountEvicted, CountDrops, Reasons
  <2>4. QED
    BY <1>1, <1>3, <1>4, <1>2, <2>1, <2>2, <2>3
<1>9. ASSUME NEW s \in Senders, PublishPacket(s)
      PROVE  SendsAccounted'
  <2>1. UNCHANGED <<datagram, writer, sent, error, drops>> /\ accepted' = accepted + 1 /\ C' = C
    BY <1>5, <1>9 DEF PublishPacket
  <2>2. Held' = Held /\ Reported' = Reported /\ Total' = Total
    BY <2>1 DEF Held, Reported
  <2>3. \/ writer = "exited" /\ late' = late + 1 /\ queued' = queued
        \/ writer # "exited" /\ late' = late /\ queued' = queued + 1
    BY <1>9 DEF PublishPacket
  <2>4. ~datagram'
    BY <1>1, <1>9 DEF PublishPacket, Step, PermitInv, In
  <2>5. accepted' = queued' + Held' + sent' + Reported' + late' + C' + Total'
    BY <1>1, <1>3, <1>2, <2>1, <2>2, <2>3
  <2>6. writer' = "exited" => queued' = 0
    BY <1>3, <2>1, <2>3
  <2>7. QED
    BY <1>4, <2>4, <2>5, <2>6
<1>10. CASE TaskStep \/ UNCHANGED vars
  <2>1. UNCHANGED <<datagram, accepted, late>> /\ C' = C
    BY <1>1, <1>10, TaskFrame DEF C
  <2>2. ASSUME queued' + Held' + sent' + Reported' + Total' = queued + Held + sent + Reported + Total,
               writer' = "exited" => queued' = 0
        PROVE  SendsAccounted'
    <3>1. /\ Held' \in 0..1 /\ Reported' \in 0..1 /\ Total' \in Nat /\ Total \in Nat
      BY <1>1, <1>2 DEF Held, Reported, Reasons
    <3>2. QED
      BY <1>1, <1>3, <1>4, <1>2, <2>1, <2>2, <3>1
  <2>3. CASE Leaving
    <3>1. PICK kind \in {"none", "aborted", "other"}, held \in BOOLEAN :
             /\ writer \in Holding \cup {"receiving"} /\ (held <=> writer \in Holding)
             /\ (~held => kind = "none") /\ Leave(kind, held)
      BY <2>3 DEF Leaving
    <3>2. writer' = "leaving" /\ error' = kind /\ error = "none" /\ UNCHANGED <<queued, sent>>
      BY <1>1, <3>1 DEF Leave, ErrorInv, queue
    <3>3. Total' = Total + IF held /\ kind # "other" THEN 1 ELSE 0
      BY <1>1, <1>2, <3>1 DEF Leave, CountDrops, Reasons
    <3>4. Held = (IF held THEN 1 ELSE 0) /\ Held' = 0 /\ Reported = 0
          /\ Reported' = (IF kind = "other" THEN 1 ELSE 0)
      BY <3>1, <3>2 DEF Held, Reported, Holding
    <3>5. QED
      BY <1>1, <1>2, <2>2, <3>1, <3>2, <3>3, <3>4
  <2>4. CASE StreamWritten \/ SendDatagram
    <3>1. writer = "sending" /\ writer' = "receiving" /\ sent' = sent + 1
          /\ UNCHANGED <<queued, error, drops>>
      BY <2>4 DEF StreamWritten, SendDatagram, queue
    <3>2. Held = 1 /\ Held' = 0 /\ Reported' = Reported /\ Total' = Total
      BY <3>1 DEF Held, Reported, Holding
    <3>3. QED
      BY <1>1, <1>2, <2>2, <3>1, <3>2
  <2>5. CASE SocketDrop \/ Oversized
    <3>1. writer \in Holding /\ writer' = "receiving" /\ UNCHANGED <<queued, error, sent>>
      BY <2>5 DEF SocketDrop, Oversized, queue, Holding
    <3>2. Total' = Total + 1
      BY <1>1, <1>2, <2>5 DEF SocketDrop, Oversized, CountDrops, Reasons
    <3>3. Held = 1 /\ Held' = 0 /\ Reported' = Reported
      BY <3>1 DEF Held, Reported, Holding
    <3>4. QED
      BY <1>1, <1>2, <2>2, <3>1, <3>2, <3>3
  <2>6. CASE SendAborted
    <3>1. writer = "sending" /\ writer' = "leaving" /\ error' = "aborted" /\ UNCHANGED <<queued, sent>>
      BY <2>6 DEF SendAborted, queue
    <3>2. Total' = Total + 1
      BY <1>1, <1>2, <2>6 DEF SendAborted, CountDrops, Reasons
    <3>3. Held = 1 /\ Held' = 0 /\ Reported = 0 /\ Reported' = 0
      BY <1>1, <3>1 DEF Held, Reported, Holding, ErrorInv
    <3>4. QED
      BY <1>1, <1>2, <2>2, <3>1, <3>2, <3>3
  <2>7. CASE ReceiveNext
    <3>1. writer = "receiving" /\ writer' = "held" /\ queued' = queued - 1 /\ UNCHANGED <<error, sent, drops>>
      BY <2>7 DEF ReceiveNext
    <3>2. Held = 0 /\ Held' = 1 /\ Reported' = Reported /\ Total' = Total
      BY <3>1 DEF Held, Reported, Holding
    <3>3. QED
      BY <1>1, <1>2, <2>2, <3>1, <3>2
  <2>8. CASE DropReceiver
    <3>1. /\ writer \notin Holding /\ writer' \notin Holding /\ UNCHANGED <<error, sent>>
          /\ writer' = "exited" => queued' = 0
      BY <2>8 DEF DropReceiver, Holding
    <3>2. Total' + queued' = Total + queued
      <4>1. /\ drops'["closed"] + queued' = drops["closed"] + queued
            /\ drops'["evicted"] = drops["evicted"]
            /\ drops'["oversized"] = drops["oversized"]
            /\ drops'["socket"] = drops["socket"]
        BY <1>1, <1>2, <2>8 DEF DropReceiver, CountDrops, Reasons
      <4>2. drops'["closed"] \in Nat
        BY <1>1 DEF Reasons
      <4>3. QED
        BY <1>1, <1>2, <4>1, <4>2
    <3>3. Held = 0 /\ Held' = 0 /\ Reported' = Reported
      BY <3>1 DEF Held, Reported
    <3>4. Total \in Nat /\ Total' \in Nat
      BY <1>1, <1>2 DEF Reasons
    <3>5. queued' + Held' + sent' + Reported' + Total' = queued + Held + sent + Reported + Total
      <4>1. queued \in Nat /\ queued' \in Nat /\ sent \in Nat /\ sent' = sent /\ Reported \in Nat
        BY <1>1, <1>2, <3>1
      <4>2. queued' + sent + Reported + Total' = queued + sent + Reported + Total
        BY <3>2, <3>4, <4>1, Exchange
      <4>3. QED
        BY <3>2, <3>3, <3>4, <4>1, <4>2
    <3>6. QED
      BY <2>2, <3>1, <3>5
  <2>9. CASE \/ Encode \/ CancelOnExit \/ WaitCheck \/ WaitChanged \/ WaitOver \/ SocketFails
             \/ Disconnect \/ ClosePeer \/ SetSendRate \/ Tick \/ UNCHANGED vars
    <3>1. /\ UNCHANGED <<queued, sent, error, drops>>
          /\ (writer' \in Holding <=> writer \in Holding)
          /\ (writer' = "exited" <=> writer = "exited")
      BY <2>9 DEF Encode, CancelOnExit, WaitCheck, WaitChanged, WaitOver, SocketFails, Disconnect,
                  ClosePeer, SetSendRate, Tick, vars, queue, Holding
    <3>2. Held' = Held /\ Reported' = Reported /\ Total' = Total
      BY <3>1 DEF Held, Reported
    <3>3. QED
      BY <1>3, <2>2, <3>1, <3>2
  <2>10. QED
    BY <1>1, <1>10, <2>3, <2>4, <2>5, <2>6, <2>7, <2>8, <2>9, LeaveCases
    DEF TaskStep, SendPackets, Pace, Socket
<1>11. QED
  BY <1>6, <1>7, <1>8, <1>9, <1>10 DEF Next, TrySend, TaskStep

-----------------------------------------------------------------------------
\* The inductive invariant holds in every reachable state.
THEOREM Invariance == Spec => []IInv
<1>1. IInv /\ [Next]_vars => IInv'
  BY TypedKeeps, PermitKeeps, CallKeeps, ErrorKeeps, PacedKeeps, AccountedKeeps DEF IInv
<1>2. QED
  BY <1>1, InitHolds, PTL DEF Spec

\* The send path is well typed; the bounds of its counters follow from the
\* accounting and from the number of calls.
THEOREM TypeCorrect == Spec => []TypeOK
<1>1. ASSUME IInv PROVE TypeOK
  <2>1. Typed /\ SendsAccounted /\ CallInv /\ PermitInv
    BY <1>1 DEF IInv
  <2>2. /\ Cardinality(In({"reserved"})) \in Nat /\ Cardinality(In({"checked", "reserved"})) \in Nat
        /\ Counting \in Nat /\ Held \in 0..1 /\ Reported \in 0..1
    BY CountType, CountNames DEF Held, Reported
  <2>3. drops \in [Reasons -> Nat] /\ \A r \in Reasons : drops[r] \in Nat
    BY <2>1 DEF Typed
  <2>4. /\ drops["full"] \in Nat /\ drops["evicted"] \in Nat /\ drops["closed"] \in Nat
        /\ drops["oversized"] \in Nat /\ drops["socket"] \in Nat
    BY <2>3 DEF Reasons
  <2>5. accepted + drops["full"] <= MaxSends /\ queued <= Capacity
    BY <2>1, <2>2, <2>4, SendPathAssumption DEF Typed, CallInv, PermitInv
  <2>6. /\ accepted <= MaxSends /\ sent <= MaxSends /\ late <= MaxSends
        /\ drops["full"] <= MaxSends /\ drops["evicted"] <= MaxSends /\ drops["closed"] <= MaxSends
        /\ drops["oversized"] <= MaxSends /\ drops["socket"] <= MaxSends
    BY <2>1, <2>2, <2>4, <2>5, SendPathAssumption DEF Typed, SendsAccounted
  <2>7. drops \in [Reasons -> 0..MaxSends]
    <3>1. \A r \in Reasons : drops[r] \in 0..MaxSends
      BY <2>4, <2>6, SendPathAssumption DEF Reasons
    <3>2. QED
      BY <2>3, <3>1
  <2>8. /\ accepted \in 0..MaxSends /\ sent \in 0..MaxSends /\ late \in 0..MaxSends
        /\ queued \in 0..Capacity
    BY <2>1, <2>5, <2>6, SendPathAssumption DEF Typed
  <2>9. QED
    BY <2>1, <2>7, <2>8 DEF Typed, TypeOK, SenderStates
<1>2. QED
  BY <1>1, Invariance, PTL

\* Every packet that send() accepted is queued, held, sent, or counted once.
THEOREM EveryPacketAccounted == Spec => []SendsAccounted
<1>1. IInv => SendsAccounted
  BY DEF IInv
<1>2. QED
  BY <1>1, Invariance, PTL

\* No datagram is early, and no sleep is on a stale rate.
THEOREM PacingHolds == Spec => []Paced
<1>1. IInv => Paced
  BY DEF IInv
<1>2. QED
  BY <1>1, Invariance, PTL
=============================================================================
