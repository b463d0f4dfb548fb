----------------------------- MODULE AtomicQueue -----------------------------
(***************************************************************************)
(* What the lossy queue promises its callers: each call takes effect at    *)
(* once.  A push makes room by dropping the oldest items, no more of them  *)
(* than it needs and none at all unless the policy says so or if it cannot *)
(* get in; items are taken from the front; a closed queue is empty and     *)
(* stays so; the end is reported once there is nothing left and nobody     *)
(* could add to it.                                                        *)
(*                                                                         *)
(* An item carries its weight, its number and the bytes accepted up to it, *)
(* so that the weight of a stretch of the queue is a difference.           *)
(***************************************************************************)
EXTENDS Integers, Sequences

CONSTANTS
    MaxItems, MaxBytes,  \* the limits
    Sizes,               \* weights of items
    Policies             \* the overflow policies

VARIABLES
    queue,     \* the items, oldest first
    open,      \* the receiver has not closed the queue
    handles,   \* sending handles
    policy,    \* the overflow policy
    holding,   \* the receiver is returning with an item
    ended,     \* the receiver was told that nothing will come
    accepted,  \* number of items accepted
    total      \* number of bytes accepted

vars == <<queue, open, handles, policy, holding, ended, accepted, total>>

Init ==
    /\ queue = <<>>
    /\ open = TRUE
    /\ handles = 1
    /\ policy \in Policies
    /\ holding = FALSE
    /\ ended = FALSE
    /\ accepted = 0
    /\ total = 0

\* The weight of the queue without its k oldest items.
Weight(k) ==
    IF k = Len(queue) THEN 0
    ELSE queue[Len(queue)].end - queue[k + 1].end + queue[k + 1].bytes

\* b bytes fit behind the queue without its k oldest items.
Room(k, b) == Len(queue) - k < MaxItems /\ Weight(k) + b <= MaxBytes

Push(b, k) ==
    /\ open /\ handles > 0
    /\ Room(k, b)
    /\ \A j \in 0..k - 1 : policy = "DropOldest" /\ ~Room(j, b)
    /\ queue' = Append(SubSeq(queue, k + 1, Len(queue)),
                       [id |-> accepted + 1, bytes |-> b, end |-> total + b])
    /\ accepted' = accepted + 1
    /\ total' = total + b
    /\ UNCHANGED <<open, handles, policy, holding, ended>>

Take ==
    /\ ~holding /\ holding' = TRUE
    /\ queue # <<>>
    /\ queue' = Tail(queue)
    /\ UNCHANGED <<open, handles, policy, ended, accepted, total>>

Return ==
    /\ holding /\ holding' = FALSE
    /\ UNCHANGED <<queue, open, handles, policy, ended, accepted, total>>

Close ==
    /\ ~holding
    /\ open' = FALSE
    /\ queue' = <<>>
    /\ UNCHANGED <<handles, policy, holding, ended, accepted, total>>

\* A handle makes another one, or is dropped.
Handle ==
    /\ handles > 0
    /\ handles' \in {handles + 1, handles - 1}
    /\ UNCHANGED <<queue, open, policy, holding, ended, accepted, total>>

ReportEnd ==
    /\ ~holding
    /\ queue = <<>>
    /\ handles = 0 \/ ~open
    /\ ended' = TRUE
    /\ UNCHANGED <<queue, open, handles, policy, holding, accepted, total>>

Next ==
    \/ \E b \in Sizes, k \in 0..Len(queue) : Push(b, k)
    \/ Take \/ Return \/ Close \/ Handle \/ ReportEnd

Spec == Init /\ [][Next]_vars
=============================================================================
