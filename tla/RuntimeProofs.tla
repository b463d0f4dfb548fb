--------------------------- MODULE RuntimeProofs ----------------------------
(***************************************************************************)
(* Proofs about the runtime, for any finite set of tasks, any of which may *)
(* be local, spawn others and never return from a poll.                    *)
(***************************************************************************)
EXTENDS Runtime, TLAPS

\* Who closes the tracker has cancelled the token before.
StopInv ==
    /\ closed => stop
    /\ thread \in {"closing", "dropping", "polling", "parked", "finished", "done"} => stop
    /\ thread \in {"dropping", "polling", "parked", "finished", "done"} => closed
    /\ app = "running" => inner \/ thread = "none"
    /\ app = "closing" => stop \/ thread = "none"

\* A notification is final: until_cancelled polls nothing after it.
NotifiedInv ==
    notified \/ clean => stop /\ \A t \in Tasks : state[t] # "polling"

\* While the wait future exists, an empty tracker has notified it.
WaitInv ==
    /\ thread \in {"polling", "parked"} /\ Tracked = {} => notified
    /\ NoLostWakeup

IInv == TypeOK /\ StopInv /\ NotifiedInv /\ WaitInv

-----------------------------------------------------------------------------
\* NetworkRuntime::new establishes the invariant.
LEMMA InitHolds == Init => IInv
  BY DEF Init, IInv, TypeOK, StopInv, NotifiedInv, WaitInv, NoLostWakeup, Tracked

\* What a step that moves one task does to the set of tracked tasks.
LEMMA TrackedMove ==
  ASSUME TypeOK, NEW t \in Tasks, NEW to, state' = [state EXCEPT ![t] = to]
  PROVE  Tracked' = IF to \in {"waiting", "polling"} THEN Tracked \cup {t}
                                                     ELSE Tracked \ {t}
  BY DEF TypeOK, Tracked

\* A notification is a Boolean matter.
LEMMA NotifyType ==
  ASSUME NEW last, Notify(last), clean \in BOOLEAN
  PROVE  notified' \in BOOLEAN /\ unparked' \in BOOLEAN /\ clean' \in BOOLEAN
  BY Zenon DEF Notify

\* Every step keeps the types.
LEMMA TypeKeeps == TypeOK /\ [Next]_vars => TypeOK'
<1> SUFFICES ASSUME TypeOK, [Next]_vars
             PROVE  TypeOK'
  OBVIOUS
<1> USE DEF TypeOK
<1>1. ASSUME NEW t \in Tasks, NEW p \in Tasks \cup {App}, SpawnCheck(p, t)
      PROVE  TypeOK'
  BY <1>1 DEF SpawnCheck, Move, signals
<1>2. ASSUME NEW t \in Tasks,
             SpawnUnavailable(t) \/ SpawnLocal(t) \/ TakeCommand(t) \/ SpawnTrack(t) \/ Poll(t)
      PROVE  TypeOK'
  BY <1>2 DEF SpawnUnavailable, SpawnLocal, TakeCommand, SpawnTrack, Poll, Move, signals
<1>3. ASSUME NEW t \in Tasks, PollStopped(t) \/ Return(t)
      PROVE  TypeOK'
  <2>1. notified' \in BOOLEAN /\ unparked' \in BOOLEAN /\ clean' \in BOOLEAN
    BY <1>3, NotifyType DEF PollStopped, Return, signals
  <2>2. QED
    BY <1>3, <2>1 DEF PollStopped, Return, Move
<1>4. CASE LocalThread \/ WaitTimeout
  BY <1>4 DEF LocalThread, LeaveLoop, ThreadCancels, ThreadCloses, DropLocal, WaitPoll, Unpark,
              Finish, WaitTimeout, signals
<1>5. CASE Shutdown
  BY <1>5 DEF Shutdown, ShutdownCancels, ShutdownCloses, ShutdownReturns, Notify, signals
<1>6. CASE UNCHANGED vars
  BY <1>6 DEF vars, signals
<1>7. QED
  BY <1>1, <1>2, <1>3, <1>4, <1>5, <1>6 DEF Next, RunTask

\* Every step keeps the order in which stop, closed and the thread change.
LEMMA StopKeeps == IInv /\ [Next]_vars => StopInv'
<1> SUFFICES ASSUME IInv, [Next]_vars
             PROVE  StopInv'
  OBVIOUS
<1> USE DEF IInv, TypeOK, StopInv
<1>1. ASSUME NEW t \in Tasks,
             \/ \E p \in Tasks \cup {App} : SpawnCheck(p, t)
             \/ SpawnUnavailable(t) \/ SpawnLocal(t) \/ RunTask(t) \/ TakeCommand(t)
      PROVE  StopInv'
  BY <1>1 DEF SpawnCheck, SpawnUnavailable, SpawnLocal, RunTask, PollStopped, Poll, Return,
              SpawnTrack, TakeCommand
<1>2. CASE LocalThread \/ WaitTimeout
  BY <1>2 DEF LocalThread, LeaveLoop, ThreadCancels, ThreadCloses, DropLocal, WaitPoll, Unpark,
              Finish, WaitTimeout
<1>3. CASE Shutdown
  <2>1. CASE ShutdownCancels
    BY <2>1 DEF ShutdownCancels
  <2>2. CASE ShutdownCloses
    BY <2>2 DEF ShutdownCloses
  <2>3. CASE ShutdownReturns
    BY <2>3 DEF ShutdownReturns
  <2>4. QED
    BY <1>3, <2>1, <2>2, <2>3 DEF Shutdown
<1>4. CASE UNCHANGED vars
  BY <1>4 DEF vars
<1>5. QED
  BY <1>1, <1>2, <1>3, <1>4 DEF Next

\* After a notification no task is polled again.
LEMMA NotifiedKeeps == IInv /\ [Next]_vars => NotifiedInv'
<1> SUFFICES ASSUME IInv, [Next]_vars
             PROVE  NotifiedInv'
  OBVIOUS
<1> USE DEF IInv, TypeOK, NotifiedInv
<1>1. ASSUME NEW t \in Tasks,
             \/ \E p \in Tasks \cup {App} : SpawnCheck(p, t)
             \/ SpawnUnavailable(t) \/ SpawnLocal(t) \/ SpawnTrack(t) \/ Poll(t)
             \/ TakeCommand(t)
      PROVE  NotifiedInv'
  BY <1>1 DEF SpawnCheck, SpawnUnavailable, SpawnLocal, Poll, SpawnTrack, TakeCommand, Move,
              signals
<1>2. ASSUME NEW t \in Tasks, PollStopped(t) \/ Return(t)
      PROVE  NotifiedInv'
  <2>1. \/ Move(t, state[t], "done") /\ Notify(LastExit(t))
        \/ Move(t, "polling", "waiting") /\ UNCHANGED signals
    BY <1>2 DEF PollStopped, Return, Move
  <2>2. UNCHANGED stop
    BY <1>2 DEF PollStopped, Return
  <2>3. CASE LastExit(t) /\ Move(t, state[t], "done")
    <3>1. closed /\ \A u \in Tasks : u # t => state[u] # "polling"
      BY <2>3 DEF LastExit, Tracked
    <3>2. stop' /\ \A u \in Tasks : state'[u] # "polling"
      BY <2>2, <2>3, <3>1 DEF Move, StopInv
    <3>3. QED
      BY <3>2
  <2>4. CASE ~LastExit(t) /\ Notify(LastExit(t)) /\ Move(t, state[t], "done")
    <3>1. (notified' => notified) /\ (clean' => clean)
      BY <2>4 DEF Notify
    <3>2. QED
      BY <2>2, <2>4, <3>1 DEF Move
  <2>5. CASE Move(t, "polling", "waiting") /\ UNCHANGED signals
    BY <2>2, <2>5 DEF Move, signals
  <2>6. QED
    BY <2>1, <2>3, <2>4, <2>5
<1>3. CASE DropLocal
  <2>1. (clean' => clean) /\ (notified' => closed /\ Tracked \subseteq local) /\ UNCHANGED stop
    BY <1>3 DEF DropLocal
  <2>2. \A t \in Tasks : state'[t] = "polling" => state[t] = "polling" /\ t \notin local
    BY <1>3 DEF DropLocal
  <2>3. QED
    BY <2>1, <2>2 DEF Tracked, StopInv
<1>4. CASE LeaveLoop \/ ThreadCancels \/ ThreadCloses \/ WaitPoll \/ Unpark \/ Finish \/ WaitTimeout
  BY <1>4 DEF LeaveLoop, ThreadCancels, ThreadCloses, WaitPoll, Unpark, Finish, WaitTimeout,
              signals
<1>5. CASE ShutdownCloses
  <2>1. (clean' => clean) /\ (notified' => notified \/ (closed' /\ Tracked = {}))
    BY <1>5 DEF ShutdownCloses, Notify
  <2>2. UNCHANGED <<state, stop>> /\ (closed' => stop)
    BY <1>5 DEF ShutdownCloses, StopInv
  <2>3. QED
    BY <2>1, <2>2 DEF Tracked
<1>6. CASE ShutdownCancels
  BY <1>6 DEF ShutdownCancels, signals
<1>7. CASE ShutdownReturns \/ UNCHANGED vars
  BY <1>7 DEF ShutdownReturns, vars, signals
<1>8. QED
  BY <1>1, <1>2, <1>3, <1>4, <1>5, <1>6, <1>7 DEF Next, RunTask, LocalThread, Shutdown

\* Whoever leaves the tracker empty wakes the thread that waits for it.
LEMMA WaitKeeps == IInv /\ [Next]_vars => WaitInv'
<1> SUFFICES ASSUME IInv, [Next]_vars
             PROVE  WaitInv'
  OBVIOUS
<1> USE DEF IInv, WaitInv, NoLostWakeup
<1>1. ASSUME NEW t \in Tasks,
             \/ \E p \in Tasks \cup {App} : SpawnCheck(p, t)
             \/ SpawnUnavailable(t) \/ SpawnLocal(t) \/ SpawnTrack(t) \/ Poll(t)
             \/ TakeCommand(t)
      PROVE  WaitInv'
  <2>1. /\ \E to : /\ state[t] \in {"waiting", "polling"} => to \in {"waiting", "polling"}
                   /\ state' = [state EXCEPT ![t] = to]
        /\ UNCHANGED <<thread, notified, unparked>>
    BY <1>1 DEF SpawnCheck, SpawnUnavailable, SpawnLocal, Poll, SpawnTrack, TakeCommand, Move,
                signals
  <2>2. Tracked \subseteq Tracked'
    BY <2>1 DEF Tracked, TypeOK
  <2>3. QED
    BY <2>1, <2>2
<1>2. ASSUME NEW t \in Tasks, PollStopped(t) \/ Return(t)
      PROVE  WaitInv'
  <2>1. t \in Tracked /\ UNCHANGED thread
    BY <1>2 DEF PollStopped, Return, Move, Tracked
  <2>2. CASE Move(t, state[t], "done") /\ Notify(LastExit(t))
    <3>1. Tracked' = Tracked \ {t}
      BY <2>2, TrackedMove DEF Move
    <3>2. CASE thread \in {"polling", "parked"} /\ Tracked' = {}
      <4>1. LastExit(t)
        BY <2>1, <3>1, <3>2 DEF LastExit, StopInv
      <4>2. notified' /\ (thread = "parked" => unparked')
        BY <2>2, <3>2, <4>1 DEF Notify
      <4>3. QED
        BY <2>1, <4>2
    <3>3. QED
      BY <2>1, <3>2
  <2>3. CASE Move(t, "polling", "waiting") /\ UNCHANGED signals
    <3>1. t \in Tracked'
      BY <2>3, TrackedMove DEF Move
    <3>2. QED
      BY <3>1
  <2>4. QED
    BY <1>2, <2>2, <2>3 DEF PollStopped, Return, Move
<1>3. CASE DropLocal
  <2>1. Tracked' = Tracked \ local
    BY <1>3 DEF DropLocal, Tracked, TypeOK
  <2>2. closed /\ thread' = "polling" /\ (notified' <=> closed /\ Tracked \subseteq local)
    BY <1>3 DEF DropLocal, StopInv, TypeOK
  <2>3. QED
    BY <2>1, <2>2
<1>4. CASE WaitPoll \/ Unpark
  <2>1. UNCHANGED <<Tracked, notified>>
    BY <1>4 DEF WaitPoll, Unpark, Tracked
  <2>2. QED
    BY <1>4, <2>1 DEF WaitPoll, Unpark
<1>5. CASE LeaveLoop \/ ThreadCancels \/ ThreadCloses \/ Finish \/ WaitTimeout
  BY <1>5 DEF LeaveLoop, ThreadCancels, ThreadCloses, Finish, WaitTimeout
<1>6. CASE ShutdownCloses
  <2>1. UNCHANGED <<thread, Tracked>>
    BY <1>6 DEF ShutdownCloses, Tracked
  <2>2. (notified => notified') /\ (unparked => unparked')
    BY <1>6 DEF ShutdownCloses, Notify
  <2>3. QED
    BY <2>1, <2>2
<1>7. CASE ShutdownCancels \/ ShutdownReturns \/ UNCHANGED vars
  BY <1>7 DEF ShutdownCancels, ShutdownReturns, vars, signals, Tracked
<1>8. QED
  BY <1>1, <1>2, <1>3, <1>4, <1>5, <1>6, <1>7 DEF Next, RunTask, LocalThread, Shutdown

-----------------------------------------------------------------------------
\* The inductive invariant holds in every reachable state.
THEOREM Invariance == Spec => []IInv
<1>1. IInv /\ [Next]_vars => IInv'
  BY TypeKeeps, StopKeeps, NotifiedKeeps, WaitKeeps DEF IInv
<1>2. QED
  BY <1>1, InitHolds, PTL DEF Spec

\* The state of the runtime is well typed.
THEOREM TypeCorrect == Spec => []TypeOK
  BY Invariance, PTL DEF IInv

\* After a clean wait no network task runs, and none will.
THEOREM CleanWaitIsFinal == Spec => []CleanIsFinal
<1>1. IInv => CleanIsFinal
  BY DEF IInv, NotifiedInv, CleanIsFinal
<1>2. QED
  BY <1>1, Invariance, PTL

\* The local thread never sleeps while the tracker is empty.
THEOREM WakeupsSuffice == Spec => []NoLostWakeup
<1>1. IInv => NoLostWakeup
  BY DEF IInv, WaitInv
<1>2. QED
  BY <1>1, Invariance, PTL
=============================================================================
