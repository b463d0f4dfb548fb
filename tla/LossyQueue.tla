----------------------------- MODULE LossyQueue -----------------------------
(***************************************************************************)
(* The bounded lossy queue (src/src/connection/queue/lossy.rs): cloned     *)
(* sending handles, one receiver, limits on items and on bytes, and an     *)
(* overflow policy that may evict the oldest items.                        *)
(*                                                                         *)
(* Every step is one critical section of the queue's mutex, or one call    *)
(* on one of its two Notify objects, so the windows between unlocking and  *)
(* notifying are states of the model.  The eviction walk of try_send_where *)
(* calls the caller's predicate once per item while the mutex is held: it  *)
(* is the only critical section of several steps, and `lock' names the     *)
(* sender that is inside it.                                               *)
(*                                                                         *)
(* A queued item carries its weight and two history fields: `id', its rank *)
(* among accepted items, and `end', the number of bytes accepted up to and *)
(* including it.  `left' lists the ids that have left, in leaving order.   *)
(***************************************************************************)
EXTENDS Notify, Integers, Sequences, FiniteSets

CONSTANTS
    Senders,      \* the sending handles that may ever exist
    FirstSender,  \* the handle lossy_channel returns
    Free,         \* "nobody holds the mutex across a step"
    MaxItems,     \* max_items
    MaxBytes,     \* max_bytes
    Sizes,        \* byte weights callers submit
    Policies,     \* the overflow policies a channel may be created with
    MaxCalls      \* bound: number of send and try_send calls

ASSUME QueueAssumption ==
    /\ FirstSender \in Senders
    /\ Free \notin Senders
    /\ IsFiniteSet(Senders)
    /\ MaxItems \in Nat
    /\ MaxBytes \in Nat
    /\ Sizes \subseteq Nat
    /\ Policies \subseteq {"DropNewest", "DropOldest"}
    /\ MaxCalls \in Nat

VARIABLES
    items,          \* State.items
    bytes,          \* State.bytes
    senders,        \* State.senders
    receiver_open,  \* State.receiver_open
    policy,         \* Shared.policy
    lock,           \* the sender walking the queue under the mutex, or Free
    changed,        \* Shared.changed: wakes the receiver
    space,          \* Shared.space: wakes senders waiting for capacity
    sp,             \* where each sending handle is in its current call
    size,           \* the weight each handle is sending
    walk,           \* remaining_items and remaining_bytes of the walk
    rp,             \* where the receiver is in its current call
    eof,            \* the receiver has been told "disconnected"
    accepted,       \* history: items ever accepted
    total,          \* history: bytes ever accepted
    left,           \* history: ids of the items that left, in order
    calls           \* bound counter

state == <<items, bytes>>
history == <<accepted, total, left>>
vars == <<items, bytes, senders, receiver_open, policy, lock, changed, space,
          sp, size, walk, rp, eof, accepted, total, left, calls>>

Receiver == {"rx"}

SenderStates == {"absent", "idle", "walking", "notify", "start", "enabled",
                 "parked", "sent", "release", "last", "dropped"}

ReceiverStates == {"idle", "start", "enabled", "parked", "took", "popped",
                   "release", "closing", "waking"}

Item == [id: Nat, bytes: Nat, end: Nat]

TypeOK ==
    /\ items \in Seq(Item)
    /\ bytes \in Nat
    /\ senders \in Nat
    /\ receiver_open \in BOOLEAN
    /\ policy \in Policies
    /\ lock \in Senders \cup {Free}
    /\ changed \in NotifyType(Receiver)
    /\ space \in NotifyType(Senders)
    /\ sp \in [Senders -> SenderStates]
    /\ size \in [Senders -> Nat]
    /\ walk \in [items: Nat, bytes: Nat]
    /\ rp \in ReceiverStates
    /\ eof \in BOOLEAN
    /\ accepted \in Nat
    /\ total \in Nat
    /\ left \in Seq(Nat)
    /\ calls \in Nat

\* The locals of a walk when nobody walks.
NoWalk == [items |-> 0, bytes |-> 0]

\* lossy_channel
Init ==
    /\ items = <<>>
    /\ bytes = 0
    /\ senders = 1
    /\ receiver_open = TRUE
    /\ policy \in Policies
    /\ lock = Free
    /\ changed = NewNotify(Receiver)
    /\ space = NewNotify(Senders)
    /\ sp = [s \in Senders |-> IF s = FirstSender THEN "idle" ELSE "absent"]
    /\ size = [s \in Senders |-> 0]
    /\ walk = NoWalk
    /\ rp = "idle"
    /\ eof = FALSE
    /\ accepted = 0
    /\ total = 0
    /\ left = <<>>
    /\ calls = 0

-----------------------------------------------------------------------------
(* Helpers shared by the operations.                                       *)

Goto(s, from, to) == sp[s] = from /\ sp' = [sp EXCEPT ![s] = to]

RGoto(from, to) == rp = from /\ rp' = to

\* Locals go out of scope when a call stops needing them.
Forget(s) == size' = [size EXCEPT ![s] = 0]

\* The item can never be queued.
Oversized(b) == MaxItems = 0 \/ b > MaxBytes

\* Mutant of Fits: one item too many.
FitsOneMore(n, held, b) == n <= MaxItems /\ held <= MaxBytes - b

\* There is room for b more bytes behind n items that weigh held bytes.
Fits(n, held, b) == n < MaxItems /\ held <= MaxBytes - b

NewItem(b) == [id |-> accepted + 1, bytes |-> b, end |-> total + b]

\* push_back behind the items in q, which weigh held bytes.
Push(q, held, b) ==
    /\ items' = Append(q, NewItem(b))
    /\ bytes' = held + b
    /\ accepted' = accepted + 1
    /\ total' = total + b

Ids(q) == [i \in 1..Len(q) |-> q[i].id]

\* Mutant of Pop: the weight of the item is not given back.
PopKeepingBytes ==
    /\ items # <<>>
    /\ items' = Tail(items)
    /\ left' = Append(left, Head(items).id)
    /\ UNCHANGED <<bytes, accepted, total>>

\* Mutant of Pop: the newest item is taken.
PopNewest ==
    /\ items # <<>>
    /\ items' = SubSeq(items, 1, Len(items) - 1)
    /\ bytes' = bytes - items[Len(items)].bytes
    /\ left' = Append(left, items[Len(items)].id)
    /\ UNCHANGED <<accepted, total>>

\* pop_front and give its bytes back.
Pop ==
    /\ items # <<>>
    /\ items' = Tail(items)
    /\ bytes' = bytes - Head(items).bytes
    /\ left' = Append(left, Head(items).id)
    /\ UNCHANGED <<accepted, total>>

Disconnected == items = <<>> /\ (senders = 0 \/ ~receiver_open)

-----------------------------------------------------------------------------
(* Sending handles.                                                        *)

Clone(s, t) ==
    /\ lock = Free
    /\ sp[s] = "idle"
    /\ Goto(t, "absent", "idle")
    /\ senders' = senders + 1
    /\ UNCHANGED <<state, history, receiver_open, policy, lock, changed, space,
                   size, walk, rp, eof, calls>>

DropSender(s) ==
    /\ lock = Free
    /\ senders' = senders - 1
    /\ Goto(s, "idle", IF senders = 1 THEN "last" ELSE "dropped")
    /\ UNCHANGED <<state, history, receiver_open, policy, lock, changed, space,
                   size, walk, rp, eof, calls>>

\* Mutant of DropSenderNotify: the receiver is not told.
DropSenderSilently(s) ==
    /\ Goto(s, "last", "dropped")
    /\ UNCHANGED <<state, history, senders, receiver_open, policy, lock,
                   changed, space, size, walk, rp, eof, calls>>

\* The last handle is gone: changed.notify_waiters() after the unlock.
DropSenderNotify(s) ==
    /\ Goto(s, "last", "dropped")
    /\ changed' = NotifyWaiters(changed)
    /\ UNCHANGED <<state, history, senders, receiver_open, policy, lock, space,
                   size, walk, rp, eof, calls>>

\* try_send_where returns Closed or Full before it looks at the queue.
TrySendRefused(s, b) ==
    /\ lock = Free
    /\ calls < MaxCalls
    /\ calls' = calls + 1
    /\ sp[s] = "idle"
    /\ ~receiver_open \/ Oversized(b)
    /\ UNCHANGED <<state, history, senders, receiver_open, policy, lock,
                   changed, space, sp, size, walk, rp, eof>>

\* try_send_where under DropNewest: push, or return Full.
TrySendNewest(s, b) ==
    /\ lock = Free
    /\ calls < MaxCalls
    /\ calls' = calls + 1
    /\ receiver_open /\ ~Oversized(b)
    /\ policy = "DropNewest"
    /\ \/ /\ Fits(Len(items), bytes, b)
          /\ Goto(s, "idle", "notify")
          /\ Push(items, bytes, b)
       \/ /\ ~Fits(Len(items), bytes, b)
          /\ sp[s] = "idle"
          /\ UNCHANGED <<state, sp, accepted, total>>
    /\ UNCHANGED <<senders, receiver_open, policy, lock, changed, space, size,
                   walk, rp, eof, left>>

\* try_send_where under DropOldest: start walking from the front.
TrySendOldest(s, b) ==
    /\ lock = Free
    /\ calls < MaxCalls
    /\ calls' = calls + 1
    /\ receiver_open /\ ~Oversized(b)
    /\ policy = "DropOldest"
    /\ Goto(s, "idle", "walking")
    /\ lock' = s
    /\ size' = [size EXCEPT ![s] = b]
    /\ walk' = [items |-> Len(items), bytes |-> bytes]
    /\ UNCHANGED <<state, history, senders, receiver_open, policy, changed,
                   space, rp, eof>>

\* Mutant of WalkOver: the walk goes on to one item too many.
WalkOverLate(s) == walk.items = 0 \/ Fits(walk.items + 1, walk.bytes, size[s])

WalkOver(s) == walk.items = 0 \/ Fits(walk.items, walk.bytes, size[s])

\* The item the walk looks at next.
WalkItem == items[Len(items) - walk.items + 1]

WalkEvictable(s) ==
    /\ sp[s] = "walking" /\ ~WalkOver(s)
    /\ walk' = [items |-> walk.items - 1, bytes |-> walk.bytes - WalkItem.bytes]
    /\ UNCHANGED <<state, history, senders, receiver_open, policy, lock,
                   changed, space, sp, size, rp, eof, calls>>

\* can_evict refuses an item: return Full, and nothing has been evicted.
WalkProtected(s) ==
    /\ Goto(s, "walking", "idle")
    /\ ~WalkOver(s)
    /\ lock' = Free
    /\ Forget(s)
    /\ walk' = NoWalk
    /\ UNCHANGED <<state, history, senders, receiver_open, policy, changed,
                   space, rp, eof, calls>>

\* The walk ends: drain what was walked over, then push if there is room.
WalkEnd(s) ==
    LET evicted == Len(items) - walk.items
        kept == SubSeq(items, evicted + 1, Len(items))
    IN  /\ sp[s] = "walking" /\ WalkOver(s)
        /\ left' = left \o Ids(SubSeq(items, 1, evicted))
        /\ lock' = Free
        /\ \/ /\ Fits(Len(kept), walk.bytes, size[s])
              /\ Goto(s, "walking", "notify")
              /\ Push(kept, walk.bytes, size[s])
           \/ /\ ~Fits(Len(kept), walk.bytes, size[s])
              /\ Goto(s, "walking", "idle")
              /\ items' = kept
              /\ bytes' = walk.bytes
              /\ UNCHANGED <<accepted, total>>
        /\ Forget(s)
        /\ walk' = NoWalk
        /\ UNCHANGED <<senders, receiver_open, policy, changed, space, rp, eof,
                       calls>>

\* changed.notify_one() after a push and the unlock.
NotifyChanged(s) ==
    /\ \/ Goto(s, "notify", "idle")
       \/ Goto(s, "sent", "release")
    /\ changed' \in NotifyOne(changed)
    /\ UNCHANGED <<state, history, senders, receiver_open, policy, lock, space,
                   size, walk, rp, eof, calls>>

\* async send is called; Full is returned at once for an oversized item.
SendCall(s, b) ==
    /\ calls < MaxCalls
    /\ calls' = calls + 1
    /\ \/ /\ Oversized(b)
          /\ Goto(s, "idle", "idle")
          /\ UNCHANGED size
       \/ /\ ~Oversized(b)
          /\ Goto(s, "idle", "start")
          /\ size' = [size EXCEPT ![s] = b]
    /\ UNCHANGED <<state, history, senders, receiver_open, policy, lock,
                   changed, space, walk, rp, eof>>

SendEnable(s) ==
    /\ Goto(s, "start", "enabled")
    /\ space' = Enable(space, s)
    /\ UNCHANGED <<state, history, senders, receiver_open, policy, lock,
                   changed, size, walk, rp, eof, calls>>

\* The critical section of send: Closed, enqueued, or wait.
SendCheck(s) ==
    /\ lock = Free
    /\ \/ /\ ~receiver_open
          /\ Goto(s, "enabled", "release")
          /\ Forget(s)
          /\ UNCHANGED <<state, accepted, total>>
       \/ /\ receiver_open /\ Fits(Len(items), bytes, size[s])
          /\ Goto(s, "enabled", "sent")
          /\ Push(items, bytes, size[s])
          /\ Forget(s)
       \/ /\ receiver_open /\ ~Fits(Len(items), bytes, size[s])
          /\ Goto(s, "enabled", "parked")
          /\ UNCHANGED <<state, accepted, total, size>>
    /\ UNCHANGED <<senders, receiver_open, policy, lock, changed, space, walk,
                   rp, eof, left, calls>>

\* notified.await completes and the loop starts again.
SendWake(s) ==
    /\ Ready(space, s)
    /\ Goto(s, "parked", "start")
    /\ space' = Complete(space, s)
    /\ UNCHANGED <<state, history, senders, receiver_open, policy, lock,
                   changed, size, walk, rp, eof, calls>>

\* The send future is dropped while it waits (the select in forward).
SendCancel(s) ==
    /\ Goto(s, "parked", "release")
    /\ Forget(s)
    /\ UNCHANGED <<state, history, senders, receiver_open, policy, lock,
                   changed, space, walk, rp, eof, calls>>

\* The Notified future goes out of scope.
SendRelease(s) ==
    /\ Goto(s, "release", "idle")
    /\ space' \in Release(space, s)
    /\ UNCHANGED <<state, history, senders, receiver_open, policy, lock,
                   changed, size, walk, rp, eof, calls>>

-----------------------------------------------------------------------------
(* The receiver.                                                           *)

RecvCall ==
    /\ RGoto("idle", "start")
    /\ UNCHANGED <<state, history, senders, receiver_open, policy, lock,
                   changed, space, sp, size, walk, eof, calls>>

RecvEnable ==
    /\ RGoto("start", "enabled")
    /\ changed' = Enable(changed, "rx")
    /\ UNCHANGED <<state, history, senders, receiver_open, policy, lock, space,
                   sp, size, walk, eof, calls>>

\* Mutant of RecvCheck: the absence of senders is taken for the end before
\* the last items are looked at.
RecvCheckSendersFirst ==
    /\ lock = Free
    /\ \/ /\ senders # 0 /\ RGoto("enabled", "took") /\ Pop /\ UNCHANGED eof
       \/ /\ senders = 0 \/ Disconnected
          /\ RGoto("enabled", "release") /\ eof' = TRUE
          /\ UNCHANGED <<state, history>>
       \/ /\ senders # 0 /\ items = <<>> /\ ~Disconnected
          /\ RGoto("enabled", "parked") /\ UNCHANGED <<eof, state, history>>
    /\ UNCHANGED <<senders, receiver_open, policy, lock, changed, space, sp,
                   size, walk, calls>>

\* try_recv inside recv: an item, the end of the stream, or wait.
RecvCheck ==
    /\ lock = Free
    /\ \/ /\ RGoto("enabled", "took")
          /\ Pop
          /\ UNCHANGED eof
       \/ /\ Disconnected
          /\ RGoto("enabled", "release")
          /\ eof' = TRUE
          /\ UNCHANGED <<state, history>>
       \/ /\ items = <<>> /\ ~Disconnected
          /\ RGoto("enabled", "parked")
          /\ UNCHANGED <<eof, state, history>>
    /\ UNCHANGED <<senders, receiver_open, policy, lock, changed, space, sp,
                   size, walk, calls>>

\* try_recv_if outside recv.  With a front item the predicate refuses, and
\* with an empty queue that is not disconnected, it returns Empty and changes
\* nothing.
TryRecvIf ==
    /\ lock = Free
    /\ \/ /\ RGoto("idle", "popped")
          /\ Pop
          /\ UNCHANGED eof
       \/ /\ Disconnected
          /\ RGoto("idle", "idle")
          /\ eof' = TRUE
          /\ UNCHANGED <<state, history>>
    /\ UNCHANGED <<senders, receiver_open, policy, lock, changed, space, sp,
                   size, walk, calls>>

\* Mutant of NotifySpace: a pop does not announce the room it makes.
NotifySpaceNone ==
    /\ \/ RGoto("took", "release")
       \/ RGoto("popped", "idle")
    /\ UNCHANGED <<state, history, senders, receiver_open, policy, lock,
                   changed, space, sp, size, walk, eof, calls>>

\* Mutant of NotifySpace: only a pop from a full queue is announced.
NotifySpaceIfFull ==
    /\ \/ RGoto("took", "release")
       \/ RGoto("popped", "idle")
    /\ IF Len(items) + 1 = MaxItems THEN space' \in NotifyOne(space) ELSE UNCHANGED space
    /\ UNCHANGED <<state, history, senders, receiver_open, policy, lock,
                   changed, sp, size, walk, eof, calls>>

\* space.notify_one() after a pop and the unlock.
NotifySpace ==
    /\ \/ RGoto("took", "release")
       \/ RGoto("popped", "idle")
    /\ space' \in NotifyOne(space)
    /\ UNCHANGED <<state, history, senders, receiver_open, policy, lock,
                   changed, sp, size, walk, eof, calls>>

RecvWake ==
    /\ Ready(changed, "rx")
    /\ RGoto("parked", "start")
    /\ changed' = Complete(changed, "rx")
    /\ UNCHANGED <<state, history, senders, receiver_open, policy, lock, space,
                   sp, size, walk, eof, calls>>

\* The recv future is dropped while it waits (select against cancellation).
RecvCancel ==
    /\ RGoto("parked", "release")
    /\ UNCHANGED <<state, history, senders, receiver_open, policy, lock,
                   changed, space, sp, size, walk, eof, calls>>

RecvRelease ==
    /\ RGoto("release", "idle")
    /\ changed' \in Release(changed, "rx")
    /\ UNCHANGED <<state, history, senders, receiver_open, policy, lock, space,
                   sp, size, walk, eof, calls>>

\* Mutant of CloseAndDrain: the byte count is reset but the items stay.
CloseKeepingItems ==
    /\ lock = Free
    /\ RGoto("idle", "closing")
    /\ receiver_open' = FALSE
    /\ bytes' = 0
    /\ UNCHANGED <<items, history, senders, policy, lock, changed, space, sp,
                   size, walk, eof, calls>>

\* close_and_drain, also run when the receiver is dropped.
CloseAndDrain ==
    /\ lock = Free
    /\ RGoto("idle", "closing")
    /\ receiver_open' = FALSE
    /\ items' = <<>>
    /\ bytes' = 0
    /\ left' = left \o Ids(items)
    /\ UNCHANGED <<accepted, total, senders, policy, lock, changed, space, sp,
                   size, walk, eof, calls>>

CloseNotifyChanged ==
    /\ RGoto("closing", "waking")
    /\ changed' = NotifyWaiters(changed)
    /\ UNCHANGED <<state, history, senders, receiver_open, policy, lock, space,
                   sp, size, walk, eof, calls>>

\* Mutant of CloseNotifySpace: the waiting senders are not told.
CloseNotifyNobody ==
    /\ RGoto("waking", "idle")
    /\ UNCHANGED <<state, history, senders, receiver_open, policy, lock,
                   changed, space, sp, size, walk, eof, calls>>

CloseNotifySpace ==
    /\ RGoto("waking", "idle")
    /\ space' = NotifyWaiters(space)
    /\ UNCHANGED <<state, history, senders, receiver_open, policy, lock,
                   changed, sp, size, walk, eof, calls>>

-----------------------------------------------------------------------------
SenderCalls(s) ==
    \/ \E t \in Senders : Clone(s, t)
    \/ DropSender(s)
    \/ \E b \in Sizes : \/ TrySendRefused(s, b)
                        \/ TrySendNewest(s, b)
                        \/ TrySendOldest(s, b)
                        \/ SendCall(s, b)
    \/ SendCancel(s)

\* What a sender does by itself once it is inside a call.
SenderSteps(s) ==
    \/ DropSenderNotify(s)
    \/ WalkEvictable(s)
    \/ WalkProtected(s)
    \/ WalkEnd(s)
    \/ NotifyChanged(s)
    \/ SendEnable(s)
    \/ SendCheck(s)
    \/ SendWake(s)
    \/ SendRelease(s)

ReceiverCalls ==
    \/ RecvCall
    \/ TryRecvIf
    \/ RecvCancel
    \/ CloseAndDrain

ReceiverSteps ==
    \/ RecvEnable
    \/ RecvCheck
    \/ NotifySpace
    \/ RecvWake
    \/ RecvRelease
    \/ CloseNotifyChanged
    \/ CloseNotifySpace

Next ==
    \/ \E s \in Senders : SenderCalls(s) \/ SenderSteps(s)
    \/ ReceiverCalls
    \/ ReceiverSteps

\* A thread inside a call keeps running, and the runtime polls a woken task.
\* Nothing forces a caller to make a call.
Fairness ==
    /\ \A s \in Senders : WF_vars(SenderSteps(s))
    /\ WF_vars(ReceiverSteps)

Spec == Init /\ [][Next]_vars

FairSpec == Spec /\ Fairness

-----------------------------------------------------------------------------
(* Properties.                                                             *)

\* The queue never holds more than max_items items or max_bytes bytes.
WithinLimits == Len(items) <= MaxItems /\ bytes <= MaxBytes

\* State.bytes is the weight of what is queued, after every mix of pushes,
\* pops, multi-item evictions and drains: the subtractions in try_recv_if and
\* in the eviction walk can never underflow.  Stated with the history field
\* `end': the queued items are a contiguous stretch of the accepted bytes.
ByteAccounting ==
    IF items = <<>>
    THEN bytes = 0
    ELSE /\ bytes = items[Len(items)].end - items[1].end + items[1].bytes
         /\ items[Len(items)].end = total
         /\ \A i \in 1..Len(items) - 1 :
               items[i + 1].end = items[i].end + items[i + 1].bytes

\* Items leave in the order they were accepted, each exactly once, whether
\* they are received, evicted or drained: eviction is oldest first.
FifoOrder ==
    /\ \A k \in 1..Len(left) : left[k] = k
    /\ \A i \in 1..Len(items) : items[i].id = Len(left) + i
    /\ accepted = Len(left) + Len(items)

\* A receiver that sleeps in recv without a pending wake-up has nothing to
\* read and no end to report, unless a sender is about to notify it: no
\* wake-up is lost between a push (or the last drop) and the notification.
NoStrandedReceiver ==
    (rp = "parked" /\ changed.got["rx"] = "waiting")
        => \/ items = <<>> /\ ~Disconnected
           \/ \E s \in Senders : sp[s] \in {"notify", "sent", "last"}

\* Somebody is about to pass a space notification on, or to use one.
SpaceWakeComing ==
    \/ rp \in {"took", "popped", "closing", "waking"}
    \/ \E s \in Senders : sp[s] \in {"start", "enabled"} \/ space.got[s] = "one"

\* A sender that sleeps for capacity is never left behind: while the queue is
\* empty, or once it is closed, some wake-up is on its way.  (A notification
\* is spent on one sender, which may not fit, be cancelled, or find the room
\* taken by try_send; the others must still be reached.)
NoStrandedSender ==
    \A s \in Senders :
        /\ sp[s] = "parked" /\ space.got[s] = "waiting"
        /\ items = <<>>
        => SpaceWakeComing

\* An item is evicted only in the step that admits a newer one: a send that
\* is refused (oversized, protected item, closed) evicts nothing.
EvictOnlyToAdmit ==
    [][(receiver_open' /\ rp' = rp /\ left' # left)
            => accepted' = accepted + 1]_vars

Atomic ==
    INSTANCE AtomicQueue
    WITH queue <- items, open <- receiver_open, handles <- senders, ended <- eof,
         holding <- rp \in {"took", "popped"}

\* To its callers every operation takes effect in one step, as AtomicQueue
\* says: although the walk of try_send_where looks at one item at a time, and
\* wake-ups, waits and cancellations lie between the critical sections, a push
\* evicts the least number of oldest items that makes room, only under
\* DropOldest, and a call that is refused or given up leaves no trace.
KeepsQueue == Atomic!Spec

\* After recv or try_recv has reported the end, nothing is ever queued again.
EndIsFinal == eof => Disconnected

\* A receiver waiting in recv is served once there is an item or an end.
ReceiverServed ==
    (rp = "parked" /\ (items # <<>> \/ Disconnected)) ~> rp # "parked"

\* A sender waiting for capacity does not wait on while there is room for its
\* item: it stops waiting or the room is taken by another, also when the room
\* appeared behind one of several notify_one calls, when the sender that was
\* notified was cancelled or overtaken, and once the receiver has closed, which
\* leaves the queue empty for good.  This needs items of equal weight, as
\* send() gets from its caller PacketForwarder::forward: else the notification
\* may go to a sender that needs more room, or an eviction make room without
\* one, and a sender that would fit waits for the next pop.
SenderServed ==
    \A s \in Senders :
        LET fits == Fits(Len(items), bytes, size[s])
        IN  (sp[s] = "parked" /\ fits) ~> (sp[s] # "parked" \/ ~fits)
=============================================================================
