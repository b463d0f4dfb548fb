------------------------------ MODULE Runtime -------------------------------
(***************************************************************************)
(* The executor of an app's network tasks (src/src/runtime/mod.rs): tasks  *)
(* on the worker pool and on the local thread, children that tasks spawn   *)
(* while they are polled, and the shutdown that the app or a failure of    *)
(* the local thread starts.                                                *)
(*                                                                         *)
(* A task is a future wrapped by run_task.  It is counted by the tracker   *)
(* from its spawn until its future is dropped.  Tokio is external: it      *)
(* polls spawned tasks, and TaskTracker::wait completes once the tracker   *)
(* was closed and empty at a moment since the call.                        *)
(***************************************************************************)
EXTENDS FiniteSets, Naturals

CONSTANTS
    Tasks,   \* futures that may be spawned
    App      \* the thread of the Bevy app, as a spawner

ASSUME RuntimeAssumption == IsFiniteSet(Tasks) /\ App \notin Tasks

VARIABLES
    state,      \* of each task
    local,      \* tasks of the local thread
    parent,     \* who is spawning the task, or did
    stop,       \* Inner.stop is cancelled
    closed,     \* Inner.tasks is closed
    thread,     \* what the local thread is doing
    app,        \* what the app is doing with its NetworkRuntime
    inner,      \* NetworkRuntime.inner is Some
    notified,   \* the wait future was notified
    unparked,   \* the local thread has an unpark token
    clean,      \* wait_for_tasks returned true
    blocking    \* tasks whose code never returns from a poll

signals == <<notified, unparked, clean>>
vars == <<state, local, parent, stop, closed, thread, app, inner, signals, blocking>>

(***************************************************************************)
(*  unborn   not spawned yet                                               *)
(*  checked  spawn_on found stop unset                                     *)
(*  queued   its factory is in the channel to the local thread             *)
(*  waiting  tracked, between two polls                                    *)
(*  polling  tracked, its code is running                                  *)
(*  done     dropped, whether it ran or not                                *)
(***************************************************************************)
TypeOK ==
    /\ state \in [Tasks -> {"unborn", "checked", "queued", "waiting", "polling",
                            "done"}]
    /\ local \subseteq Tasks
    /\ parent \in [Tasks -> Tasks \cup {App}]
    /\ stop \in BOOLEAN /\ closed \in BOOLEAN /\ inner \in BOOLEAN
    /\ thread \in {"none", "serving", "stopping", "closing", "dropping", "polling",
                   "parked", "finished", "done"}
    /\ app \in {"running", "closing", "awaiting", "over"}
    /\ notified \in BOOLEAN /\ unparked \in BOOLEAN /\ clean \in BOOLEAN
    /\ blocking \subseteq Tasks

\* NetworkRuntime::new, which may leave the runtime unavailable
Init ==
    /\ state = [t \in Tasks |-> "unborn"]
    /\ local = {}
    /\ parent = [t \in Tasks |-> App]
    /\ stop = FALSE /\ closed = FALSE
    /\ \/ thread = "serving" /\ inner = TRUE
       \/ thread = "none" /\ inner = FALSE
    /\ app = "running"
    /\ notified = FALSE /\ unparked = FALSE /\ clean = FALSE
    /\ blocking \in SUBSET Tasks

Tracked == {t \in Tasks : state[t] \in {"waiting", "polling"}}

Move(t, from, to) == state[t] = from /\ state' = [state EXCEPT ![t] = to]

\* TaskTracker: whoever leaves it closed and empty notifies the wait future,
\* whose waker unparks the local thread.
Notify(lastExit) ==
    /\ notified' = (notified \/ (lastExit /\ thread \in {"polling", "parked"}))
    /\ unparked' = (unparked \/ (lastExit /\ thread = "parked"))
    /\ UNCHANGED clean

-----------------------------------------------------------------------------
(* Spawning                                                                *)

\* The local thread runs one future at a time.
LocalFree == \A t \in local : state[t] # "polling"

\* Code that may spawn: the app while it has the runtime, or a polled task
Spawner(p) == IF p = App THEN app = "running" /\ inner ELSE state[p] = "polling"

Spawning(p) == \E t \in Tasks : state[t] = "checked" /\ parent[t] = p

\* spawn and spawn_on: nothing is spawned once stop is cancelled
SpawnCheck(p, t) ==
    /\ Spawner(p) /\ ~Spawning(p)
    /\ IF stop THEN Move(t, "unborn", "done") ELSE Move(t, "unborn", "checked")
    /\ parent' = [parent EXCEPT ![t] = p]
    /\ UNCHANGED <<local, stop, closed, thread, app, inner, signals, blocking>>

SpawnTrack(t) ==
    /\ Move(t, "checked", "waiting")
    /\ UNCHANGED <<local, parent, stop, closed, thread, app, inner, signals,
                   blocking>>

\* NetworkRuntime::spawn on a runtime that is not available
SpawnUnavailable(t) ==
    /\ app = "running" /\ ~inner
    /\ Move(t, "unborn", "done")
    /\ UNCHANGED <<local, parent, stop, closed, thread, app, inner, signals,
                   blocking>>

\* spawn_local: the factory is queued while the local thread holds the receiver
SpawnLocal(t) ==
    /\ app = "running" /\ inner
    /\ IF thread \in {"serving", "stopping", "closing", "dropping"}
       THEN Move(t, "unborn", "queued")
       ELSE Move(t, "unborn", "done")
    /\ local' = local \cup {t}
    /\ UNCHANGED <<parent, stop, closed, thread, app, inner, signals, blocking>>

-----------------------------------------------------------------------------
(* run_task: until_cancelled polls stop first, and unwinding is caught.    *)

\* The executor may poll t: a local task only from the local thread's loop.
Pollable(t) == t \in local => thread = "serving" /\ LocalFree

\* The last tracked task goes while the tracker is closed.
LastExit(t) == closed /\ Tracked = {t}

PollStopped(t) ==
    /\ stop /\ Pollable(t)
    /\ Move(t, "waiting", "done")
    /\ Notify(LastExit(t))
    /\ UNCHANGED <<local, parent, stop, closed, thread, app, inner, blocking>>

\* Mutant of Poll: the task is spawned without until_cancelled.
PollAnyway(t) ==
    /\ Pollable(t)
    /\ Move(t, "waiting", "polling")
    /\ UNCHANGED <<local, parent, stop, closed, thread, app, inner, signals,
                   blocking>>

Poll(t) ==
    /\ ~stop /\ Pollable(t)
    /\ Move(t, "waiting", "polling")
    /\ UNCHANGED <<local, parent, stop, closed, thread, app, inner, signals,
                   blocking>>

\* The code returns: it is pending, or it has ended or panicked.
Return(t) ==
    /\ t \notin blocking /\ ~Spawning(t)
    /\ \/ Move(t, "polling", "waiting") /\ UNCHANGED signals
       \/ Move(t, "polling", "done") /\ Notify(LastExit(t))
    /\ UNCHANGED <<local, parent, stop, closed, thread, app, inner, blocking>>

-----------------------------------------------------------------------------
(* The local thread                                                        *)

\* A queued factory is taken, which the select may do after stop, too.
TakeCommand(t) ==
    /\ thread = "serving" /\ LocalFree
    /\ Move(t, "queued", "waiting")
    /\ UNCHANGED <<local, parent, stop, closed, thread, app, inner, signals,
                   blocking>>

\* The loop ends: stop was cancelled, or block_on panicked.
LeaveLoop ==
    /\ thread = "serving" /\ LocalFree
    /\ thread' = "stopping"
    /\ UNCHANGED <<state, local, parent, stop, closed, app, inner, signals,
                   blocking>>

ThreadCancels ==
    /\ thread = "stopping" /\ thread' = "closing"
    /\ stop' = TRUE
    /\ UNCHANGED <<state, local, parent, closed, app, inner, signals, blocking>>

\* Mutant of ThreadCloses: closing is left to shutdown().
ThreadDoesNotClose ==
    /\ thread = "closing" /\ thread' = "dropping"
    /\ UNCHANGED <<state, local, parent, stop, closed, app, inner, signals,
                   blocking>>

ThreadCloses ==
    /\ thread = "closing" /\ thread' = "dropping"
    /\ closed' = TRUE
    /\ UNCHANGED <<state, local, parent, stop, app, inner, signals, blocking>>

\* drop(local) and drop(local_rx), and the wait future is made
DropLocal ==
    /\ thread = "dropping" /\ thread' = "polling"
    /\ state' = [t \in Tasks |->
                   IF t \in local /\ state[t] # "unborn" THEN "done" ELSE state[t]]
    /\ notified' = (closed /\ Tracked \subseteq local)
    /\ UNCHANGED <<local, parent, stop, closed, app, inner, unparked, clean,
                   blocking>>

\* wait_for_tasks
WaitPoll ==
    /\ thread = "polling"
    /\ IF notified
       THEN thread' = "finished" /\ clean' = TRUE
       ELSE thread' = "parked" /\ UNCHANGED clean
    /\ UNCHANGED <<state, local, parent, stop, closed, app, inner, notified,
                   unparked, blocking>>

Unpark ==
    /\ thread = "parked" /\ unparked
    /\ thread' = "polling"
    /\ unparked' = FALSE
    /\ UNCHANGED <<state, local, parent, stop, closed, app, inner, notified, clean,
                   blocking>>

WaitTimeout ==
    /\ thread = "parked"
    /\ thread' = "finished"
    /\ UNCHANGED <<state, local, parent, stop, closed, app, inner, signals,
                   blocking>>

\* shutdown_timeout of an owned runtime, then done_tx.send
Finish ==
    /\ thread = "finished" /\ thread' = "done"
    /\ UNCHANGED <<state, local, parent, stop, closed, app, inner, signals,
                   blocking>>

-----------------------------------------------------------------------------
(* NetworkRuntime::shutdown, on AppExit or drop                            *)

ShutdownCancels ==
    /\ app = "running" /\ ~Spawning(App)
    /\ app' = "closing"
    /\ inner' = FALSE
    /\ stop' = (stop \/ inner)
    /\ UNCHANGED <<state, local, parent, closed, thread, signals, blocking>>

ShutdownCloses ==
    /\ app = "closing" /\ app' = "awaiting"
    /\ closed' = (closed \/ thread # "none")
    /\ Notify(closed' /\ ~closed /\ Tracked = {})
    /\ UNCHANGED <<state, local, parent, stop, thread, inner, blocking>>

\* The thread has answered, or recv_timeout has run out; join does not wait
\* for a thread that is not finished.
ShutdownReturns ==
    /\ app = "awaiting" /\ app' = "over"
    /\ UNCHANGED <<state, local, parent, stop, closed, thread, inner, signals,
                   blocking>>

-----------------------------------------------------------------------------
LocalThread ==
    \/ LeaveLoop \/ ThreadCancels \/ ThreadCloses \/ DropLocal \/ WaitPoll
    \/ Unpark \/ Finish

Shutdown == ShutdownCancels \/ ShutdownCloses \/ ShutdownReturns

RunTask(t) == PollStopped(t) \/ Poll(t) \/ Return(t) \/ SpawnTrack(t)

Next ==
    \/ \E t \in Tasks :
          \/ \E p \in Tasks \cup {App} : SpawnCheck(p, t)
          \/ SpawnUnavailable(t) \/ SpawnLocal(t) \/ RunTask(t) \/ TakeCommand(t)
    \/ LocalThread \/ WaitTimeout
    \/ Shutdown

Spec == Init /\ [][Next]_vars

(***************************************************************************)
(* The local thread and the pool make progress, code that is not blocking  *)
(* returns from a poll, and recv_timeout runs out.  The timeout of         *)
(* wait_for_tasks is not assumed to: the wake-ups have to suffice.         *)
(***************************************************************************)
Fairness ==
    /\ WF_vars(LocalThread /\ stop) /\ WF_vars(LocalThread /\ thread # "serving")
    /\ WF_vars(ShutdownCloses) /\ WF_vars(ShutdownReturns)
    /\ \A t \in Tasks : WF_vars(PollStopped(t)) /\ WF_vars(Return(t) \/ SpawnTrack(t))

FairSpec == Spec /\ Fairness

-----------------------------------------------------------------------------
\* After wait_for_tasks has succeeded no network task runs, and none will:
\* whatever parents and the app were spawning when the shutdown began.
CleanIsFinal == clean => stop /\ \A t \in Tasks : state[t] # "polling"

\* The local thread never sleeps until its timeout although every task has
\* gone: whoever was last, or closed the tracker, has woken it.
NoLostWakeup == thread = "parked" /\ Tracked = {} => unparked

\* shutdown() returns though a task may block for ever.  Without blocking
\* tasks the local thread ends, and nothing that was spawned stays behind.
ShutdownEnds ==
    /\ app = "closing" ~> app = "over"
    /\ stop /\ blocking = {} ~> /\ thread = "done"
                                /\ \A t \in Tasks : state[t] \in {"unborn", "done"}
=============================================================================
