------------------------------- MODULE Notify -------------------------------
(***************************************************************************)
(* The wake-up primitive tokio::sync::Notify, as the lossy queue uses it.  *)
(* A Notify value n is a record: n.permit is the one stored permit (0 or   *)
(* 1) and n.got[w] is the state of waiter w's current Notified future:     *)
(*                                                                         *)
(*   none     the waiter holds no future                                   *)
(*   waiting  the future is enlisted and nobody has woken it               *)
(*   one      woken by notify_one, not polled yet                          *)
(*   all      woken by notify_waiters, not polled yet                      *)
(*   done     enable() found the stored permit and consumed it             *)
(*                                                                         *)
(* tokio wakes enlisted futures in the order they were enlisted; here      *)
(* notify_one may wake any of them, which allows more behaviours.          *)
(***************************************************************************)
EXTENDS Naturals

FutureStates == {"none", "waiting", "one", "all", "done"}

NotifyType(W) == [permit: {0, 1}, got: [W -> FutureStates]]

NewNotify(W) == [permit |-> 0, got |-> [w \in W |-> "none"]]

Waiting(n) == {w \in DOMAIN n.got : n.got[w] = "waiting"}

Ready(n, w) == n.got[w] \in {"one", "all", "done"}

SetFuture(n, w, state) == [n EXCEPT !.got = [n.got EXCEPT ![w] = state]]

\* Notified::enable: take the stored permit, or enlist.
Enable(n, w) ==
    IF n.permit = 1
    THEN [SetFuture(n, w, "done") EXCEPT !.permit = 0]
    ELSE SetFuture(n, w, "waiting")

\* The possible results of notify_one: a waiter is woken, or the permit stored.
NotifyOne(n) ==
    IF Waiting(n) = {}
    THEN {[n EXCEPT !.permit = 1]}
    ELSE {SetFuture(n, w, "one") : w \in Waiting(n)}

\* notify_waiters wakes everyone enlisted and stores nothing.
NotifyWaiters(n) ==
    [n EXCEPT !.got = [w \in DOMAIN n.got |->
                         IF n.got[w] = "waiting" THEN "all" ELSE n.got[w]]]

\* The awaited future completes.
Complete(n, w) == SetFuture(n, w, "none")

\* Dropping a future: an unused notify_one is handed to another waiter.
Release(n, w) ==
    IF n.got[w] = "one"
    THEN NotifyOne(SetFuture(n, w, "none"))
    ELSE {SetFuture(n, w, "none")}
=============================================================================
