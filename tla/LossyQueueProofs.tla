-------------------------- MODULE LossyQueueProofs --------------------------
(***************************************************************************)
(* Proofs about the lossy queue, for every set of handles, every limit,    *)
(* every weight and any number of calls.                                   *)
(***************************************************************************)
EXTENDS LossyQueue, FiniteSetTheorems, SequenceTheorems, TLAPS

-----------------------------------------------------------------------------
(* The contents of the queue, as facts about values: q is the queue, w its *)
(* byte count, acc and tot the accepted items and bytes, out what has left.*)

QueueType(q, w, acc, tot, out) ==
    /\ q \in Seq(Item) /\ w \in Int
    /\ acc \in Nat /\ tot \in Nat /\ out \in Seq(Nat)

Accounting(q, w, tot) ==
    IF q = <<>>
    THEN w = 0
    ELSE /\ w = q[Len(q)].end - q[1].end + q[1].bytes
         /\ q[Len(q)].end = tot
         /\ \A i \in 1..Len(q) - 1 : q[i + 1].end = q[i].end + q[i + 1].bytes

Stretched(q) ==
    /\ \A i \in 1..Len(q) : q[i].bytes <= q[i].end
    /\ \A i, j \in 1..Len(q) : i < j => q[i].end + q[j].bytes <= q[j].end

Limited(q, w) == Len(q) <= MaxItems /\ w <= MaxBytes

InOrder(q, acc, out) ==
    /\ \A k \in 1..Len(out) : out[k] = k
    /\ \A i \in 1..Len(q) : q[i].id = Len(out) + i
    /\ acc = Len(out) + Len(q)

QueueOK(q, w, acc, tot, out) ==
    /\ QueueType(q, w, acc, tot, out)
    /\ Accounting(q, w, tot)
    /\ Stretched(q)
    /\ Limited(q, w)
    /\ InOrder(q, acc, out)

\* The queue as it is.
QueueInv == QueueOK(items, bytes, accepted, total, left)

\* b more bytes behind q.
Pushed(q, w, acc, tot, b, q2, w2, acc2, tot2) ==
    /\ q2 = Append(q, [id |-> acc + 1, bytes |-> b, end |-> tot + b])
    /\ w2 = w + b
    /\ acc2 = acc + 1
    /\ tot2 = tot + b

\* q without its k oldest items, whose ids are added to what has left.
Shortened(q, out, k, q2, out2) ==
    /\ q2 = SubSeq(q, k + 1, Len(q))
    /\ out2 = out \o Ids(SubSeq(q, 1, k))

\* The weight of q without its k oldest items.
WeightAfter(q, k) ==
    IF k = Len(q) THEN 0 ELSE q[Len(q)].end - q[k + 1].end + q[k + 1].bytes

-----------------------------------------------------------------------------
(* The inductive invariant.                                                *)

\* The types of everything but the queue itself.
TypeBase ==
    /\ senders \in Int
    /\ receiver_open \in BOOLEAN
    /\ policy \in Policies
    /\ lock \in Senders \cup {Free}
    /\ changed \in NotifyType(Receiver)
    /\ space \in NotifyType(Senders)
    /\ sp \in [Senders -> SenderStates]
    /\ size \in [Senders -> Nat]
    /\ walk \in [items: Int, bytes: Int]
    /\ rp \in ReceiverStates
    /\ eof \in BOOLEAN
    /\ calls \in Nat

\* Who is inside the eviction walk, and what its locals mean.
WalkInv ==
    /\ \A s \in Senders : sp[s] = "walking" <=> lock = s
    /\ \A s \in Senders :
          sp[s] \in {"walking", "start", "enabled", "parked"}
             => ~Oversized(size[s])
    /\ lock # Free =>
          /\ receiver_open
          /\ walk.items \in 0..Len(items)
          /\ walk.bytes = WeightAfter(items, Len(items) - walk.items)
    /\ lock = Free => walk = NoWalk

Live == {s \in Senders : sp[s] \notin {"absent", "last", "dropped"}}

SendersInv == senders = Cardinality(Live)

\* A closed queue is empty and everyone waiting for space is being woken.
ClosedInv ==
    ~receiver_open =>
        /\ items = <<>>
        /\ \A s \in Senders :
              sp[s] = "parked" /\ space.got[s] = "waiting"
                 => rp \in {"closing", "waking"}

IInv ==
    /\ TypeBase
    /\ QueueInv
    /\ WalkInv
    /\ SendersInv
    /\ ClosedInv
    /\ NoStrandedReceiver
    /\ NoStrandedSender
    /\ EndIsFinal

-----------------------------------------------------------------------------
(* What can be done to a queue.                                            *)

\* The fields of queued items are numbers.
LEMMA ItemFields ==
    ASSUME NEW q \in Seq(Item)
    PROVE  /\ Len(q) \in Nat
           /\ q = <<>> <=> Len(q) = 0
           /\ \A i \in 1..Len(q) :
                 q[i] \in Item /\ q[i].id \in Nat /\ q[i].bytes \in Nat /\ q[i].end \in Nat
<1>1. \A i \in 1..Len(q) : q[i] \in Item
  OBVIOUS
<1>2. \A x \in Item : x.id \in Nat /\ x.bytes \in Nat /\ x.end \in Nat
  BY DEF Item
<1>3. QED
  BY <1>1, <1>2

\* No queued item ends behind the accepted bytes, and the oldest one weighs
\* no more than the whole queue.
LEMMA EndsBounded ==
    ASSUME NEW q, NEW w, NEW acc, NEW tot, NEW out,
           QueueOK(q, w, acc, tot, out), q # <<>>
    PROVE  /\ \A i \in 1..Len(q) : q[i].end <= tot
           /\ q[1].bytes <= w
<1>1. /\ Len(q) \in Nat /\ Len(q) >= 1
      /\ \A i \in 1..Len(q) : q[i].bytes \in Nat /\ q[i].end \in Nat
      /\ tot \in Nat
  BY ItemFields DEF QueueOK, QueueType
<1>2. /\ q[Len(q)].end = tot
      /\ w = q[Len(q)].end - q[1].end + q[1].bytes
  BY DEF QueueOK, Accounting
<1>3. \A i \in 1..Len(q) : i < Len(q) => q[i].end <= q[Len(q)].end
  <2> SUFFICES ASSUME NEW i \in 1..Len(q), i < Len(q)
               PROVE  q[i].end <= q[Len(q)].end
    OBVIOUS
  <2>1. q[i].end + q[Len(q)].bytes <= q[Len(q)].end
    BY <1>1 DEF QueueOK, Stretched
  <2>2. QED
    BY <2>1, <1>1
<1>4. \A i \in 1..Len(q) : q[i].end <= tot
  BY <1>1, <1>2, <1>3
<1>5. QED
  BY <1>1, <1>2, <1>4

\* A push keeps the queue well formed.
LEMMA PushKeeps ==
    ASSUME NEW q, NEW w, NEW acc, NEW tot, NEW out,
           NEW q2, NEW w2, NEW acc2, NEW tot2,
           QueueOK(q, w, acc, tot, out), NEW b \in Nat, Fits(Len(q), w, b),
           Pushed(q, w, acc, tot, b, q2, w2, acc2, tot2)
    PROVE  QueueOK(q2, w2, acc2, tot2, out)
<1> DEFINE n == Len(q)
<1>1. QueueType(q2, w2, acc2, tot2, out)
  BY DEF QueueOK, QueueType, Item, Pushed
<1>2. /\ Len(q2) = n + 1
      /\ \A i \in 1..n : q2[i] = q[i]
      /\ q2[n + 1] = [id |-> acc + 1, bytes |-> b, end |-> tot + b]
  BY DEF QueueOK, QueueType, Pushed
<1>3. /\ n \in Nat
      /\ q = <<>> <=> n = 0
      /\ \A i \in 1..n : q[i].bytes \in Nat /\ q[i].end \in Nat
      /\ q2 # <<>>
      /\ tot \in Nat /\ w \in Int /\ acc \in Nat /\ Len(out) \in Nat
  BY <1>1, <1>2, ItemFields DEF QueueOK, QueueType
<1>4. /\ q2[n + 1].bytes = b
      /\ q2[n + 1].end = tot + b
      /\ q2[n + 1].id = acc + 1
      /\ tot2 = tot + b /\ w2 = w + b /\ acc2 = acc + 1
  BY <1>2 DEF Pushed
<1> HIDE DEF n
<1>5. Accounting(q2, w2, tot2)
  <2>1. CASE n = 0
    BY <2>1, <1>2, <1>3, <1>4 DEF QueueOK, Accounting
  <2>2. CASE n > 0
    <3>1. /\ w = q[n].end - q[1].end + q[1].bytes
          /\ q[n].end = tot
          /\ \A i \in 1..n - 1 : q[i + 1].end = q[i].end + q[i + 1].bytes
      <4>1. Accounting(q, w, tot) /\ q # <<>>
        BY <2>2, <1>3 DEF QueueOK
      <4>2. QED
        BY <4>1 DEF Accounting, n
    <3>2. \A i \in 1..n : q2[i + 1].end = q2[i].end + q2[i + 1].bytes
      <4> SUFFICES ASSUME NEW i \in 1..n
                   PROVE  q2[i + 1].end = q2[i].end + q2[i + 1].bytes
        OBVIOUS
      <4>1. q2[i] = q[i]
        BY <1>2
      <4>2. CASE i = n
        BY <4>1, <4>2, <3>1, <1>3, <1>4
      <4>3. CASE i # n
        <5>1. i \in 1..n - 1 /\ i + 1 \in 1..n
          BY <4>3, <1>3
        <5>2. QED
          BY <5>1, <4>1, <3>1, <1>2
      <4>4. QED
        BY <4>2, <4>3
    <3>3. /\ w2 = q2[n + 1].end - q2[1].end + q2[1].bytes
          /\ q2[n + 1].end = tot2
      <4>1. 1 \in 1..n /\ n \in 1..n
        BY <2>2, <1>3
      <4>2. q2[1] = q[1] /\ q[1].bytes \in Nat /\ q[1].end \in Nat
        BY <4>1, <1>2, <1>3
      <4>3. \A a, c, d, x \in Nat : (a - d + c) + x = (a + x) - d + c
        OBVIOUS
      <4>4. w + b = (q[n].end + b) - q[1].end + q[1].bytes
        <5>1. w = q[n].end - q[1].end + q[1].bytes /\ q[n].end \in Nat
          BY <3>1, <4>1, <1>3
        <5>2. QED
          BY <5>1, <4>2, <4>3
      <4>5. QED
        BY <4>2, <4>4, <3>1, <1>4
    <3>4. QED
      BY <3>2, <3>3, <1>2, <1>3 DEF Accounting
  <2>3. QED
    BY <2>1, <2>2, <1>3
<1>6. Stretched(q2)
  <2>1. \A i \in 1..n : q[i].end <= tot /\ q[i].bytes <= q[i].end
    BY <1>3, EndsBounded DEF QueueOK, Stretched, n
  <2>2. \A i, j \in 1..n : i < j => q[i].end + q[j].bytes <= q[j].end
    BY DEF QueueOK, Stretched, n
  <2>3. \A i \in 1..n + 1 : q2[i].bytes <= q2[i].end
    BY <2>1, <1>2, <1>3, <1>4
  <2>4. ASSUME NEW i \in 1..n + 1, NEW j \in 1..n + 1, i < j
        PROVE  q2[i].end + q2[j].bytes <= q2[j].end
    <3>1. CASE j = n + 1
      BY <3>1, <2>4, <2>1, <1>2, <1>3, <1>4
    <3>2. CASE j # n + 1
      <4>1. i \in 1..n /\ j \in 1..n
        BY <3>2, <2>4, <1>3
      <4>2. q2[i] = q[i] /\ q2[j] = q[j]
        BY <4>1, <1>2
      <4>3. QED
        BY <4>1, <4>2, <2>2, <2>4
    <3>3. QED
      BY <3>1, <3>2
  <2>5. QED
    BY <2>3, <2>4, <1>2 DEF Stretched
<1>7. Limited(q2, w2)
  BY <1>2, <1>3, <1>4, QueueAssumption DEF QueueOK, Limited, Fits, n
<1>8. InOrder(q2, acc2, out)
  <2>1. /\ \A i \in 1..n : q[i].id = Len(out) + i
        /\ acc = Len(out) + n
    BY DEF QueueOK, InOrder, n
  <2>2. \A i \in 1..n + 1 : q2[i].id = Len(out) + i
    <3> TAKE i \in 1..n + 1
    <3>1. CASE i = n + 1
      BY <3>1, <2>1, <1>3, <1>4
    <3>2. CASE i # n + 1
      <4>1. i \in 1..n
        BY <3>2, <1>3
      <4>2. QED
        BY <4>1, <2>1, <1>2
    <3>3. QED
      BY <3>1, <3>2
  <2>3. QED
    <3>1. out = out /\ \A i \in 1..Len(out) : out[i] = i
      BY DEF QueueOK, InOrder
    <3>2. acc2 = Len(out) + (n + 1)
      BY <2>1, <1>3, <1>4
    <3>3. QED
      BY <3>1, <3>2, <2>2, <1>2 DEF InOrder
<1>9. QED
  BY <1>1, <1>5, <1>6, <1>7, <1>8 DEF QueueOK

\* Removing the k oldest q together with their weight keeps the queue
\* well formed.  Pops, evictions and drains are all of this kind.
LEMMA ShorteningKeeps ==
    ASSUME NEW q, NEW w, NEW acc, NEW tot, NEW out, NEW q2, NEW w2, NEW out2,
           QueueOK(q, w, acc, tot, out), NEW k \in 0..Len(q),
           Shortened(q, out, k, q2, out2), w2 = WeightAfter(q, k)
    PROVE  QueueOK(q2, w2, acc, tot, out2)
<1> DEFINE n == Len(q)
<1>1. /\ n \in Nat /\ Len(out) \in Nat /\ acc \in Nat /\ tot \in Nat
      /\ q = <<>> <=> n = 0
      /\ \A i \in 1..n : q[i] \in Item /\ q[i].id \in Nat
                            /\ q[i].bytes \in Nat /\ q[i].end \in Nat
  BY ItemFields DEF QueueOK, QueueType
<1>2. /\ q2 \in Seq(Item)
      /\ Len(q2) = n - k
      /\ \A i \in 1..n - k : q2[i] = q[k + i]
  BY <1>1 DEF QueueOK, QueueType, Shortened
<1>3. q2 = <<>> <=> k = n
  BY <1>1, <1>2, ItemFields
<1>4. /\ Ids(SubSeq(q, 1, k)) \in Seq(Nat)
      /\ Len(Ids(SubSeq(q, 1, k))) = k
      /\ \A i \in 1..k : Ids(SubSeq(q, 1, k))[i] = q[i].id
  <2>1. /\ SubSeq(q, 1, k) \in Seq(Item)
        /\ Len(SubSeq(q, 1, k)) = k
        /\ \A i \in 1..k : SubSeq(q, 1, k)[i] = q[i]
    BY <1>1 DEF QueueOK, QueueType
  <2>2. Ids(SubSeq(q, 1, k)) = [i \in 1..k |-> q[i].id]
    BY <2>1 DEF Ids
  <2>3. [i \in 1..k |-> q[i].id] \in Seq(Nat)
    BY <1>1
  <2>4. Len([i \in 1..k |-> q[i].id]) = k
    BY <2>3, LenProperties
  <2>5. QED
    BY <2>2, <2>3, <2>4
<1>5. /\ out2 \in Seq(Nat)
      /\ Len(out2) = Len(out) + k
      /\ \A i \in 1..Len(out) : out2[i] = out[i]
      /\ \A i \in 1..k : out2[Len(out) + i] = q[i].id
  <2>1. out \in Seq(Nat) /\ out2 = out \o Ids(SubSeq(q, 1, k))
    BY DEF QueueOK, QueueType, Shortened
  <2>2. /\ out2 \in Seq(Nat)
        /\ Len(out2) = Len(out) + k
        /\ \A i \in 1..Len(out) + k :
              out2[i] = IF i <= Len(out) THEN out[i]
                         ELSE Ids(SubSeq(q, 1, k))[i - Len(out)]
    <3> DEFINE ids == Ids(SubSeq(q, 1, k))
    <3>1. ids \in Seq(Nat) /\ Len(ids) = k
      BY <1>4
    <3> HIDE DEF ids
    <3>2. /\ out \o ids \in Seq(Nat)
          /\ Len(out \o ids) = Len(out) + Len(ids)
          /\ \A i \in 1..Len(out) + Len(ids) :
                (out \o ids)[i] = IF i <= Len(out) THEN out[i] ELSE ids[i - Len(out)]
      BY <2>1, <3>1, ConcatProperties
    <3>3. QED
      BY <2>1, <3>1, <3>2 DEF ids
  <2>3. \A i \in 1..Len(out) : i \in 1..Len(out) + k /\ i <= Len(out)
    BY <1>1
  <2>4. \A i \in 1..k : /\ Len(out) + i \in 1..Len(out) + k
                        /\ ~(Len(out) + i <= Len(out))
                        /\ (Len(out) + i) - Len(out) = i
    BY <1>1
  <2>5. QED
    BY <2>2, <2>3, <2>4, <1>4
<1>6. /\ k = n => w2 = 0
      /\ k # n => w2 = q[n].end - q[k + 1].end + q[k + 1].bytes
      /\ w2 \in Int
  BY <1>1 DEF WeightAfter
<1>7. QueueType(q2, w2, acc, tot, out2)
  BY <1>1, <1>2, <1>5, <1>6 DEF QueueType
<1> HIDE DEF n
<1>8. InOrder(q2, acc, out2)
  <2>1. /\ \A i \in 1..Len(out) : out[i] = i
        /\ \A i \in 1..n : q[i].id = Len(out) + i
        /\ acc = Len(out) + n
    BY DEF QueueOK, InOrder, n
  <2>2. ASSUME NEW i \in 1..Len(out2)
        PROVE  out2[i] = i
    <3>1. CASE i <= Len(out)
      <4>1. i \in 1..Len(out)
        BY <3>1, <1>1, <1>5
      <4>2. QED
        BY <4>1, <2>1, <1>5
    <3>2. CASE i > Len(out)
      <4>1. i - Len(out) \in 1..k /\ i - Len(out) \in 1..n
        BY <3>2, <1>1, <1>5 DEF n
      <4>2. out2[Len(out) + (i - Len(out))] = q[i - Len(out)].id
        BY <4>1, <1>5
      <4>3. QED
        BY <4>1, <4>2, <2>1, <1>1, <1>5
    <3>3. QED
      BY <3>1, <3>2, <1>1, <1>5
  <2>3. \A i \in 1..Len(q2) : q2[i].id = Len(out2) + i
    <3> TAKE i \in 1..Len(q2)
    <3>1. k + i \in 1..n /\ i \in 1..n - k
      BY <1>1, <1>2 DEF n
    <3>2. q2[i] = q[k + i]
      BY <3>1, <1>2 DEF n
    <3>3. q[k + i].id = Len(out) + (k + i)
      BY <3>1, <2>1
    <3>4. QED
      BY <3>1, <3>2, <3>3, <1>1, <1>5
  <2>4. acc = Len(out2) + Len(q2)
    <3>1. k \in 0..n
      BY DEF n
    <3>2. Len(q2) = n - k
      BY <1>2 DEF n
    <3>3. QED
      BY <3>1, <3>2, <2>1, <1>1, <1>5
  <2>5. QED
    BY <2>2, <2>3, <2>4 DEF InOrder
<1>9. Accounting(q2, w2, tot)
  <2>1. CASE k = n
    BY <2>1, <1>3, <1>6 DEF Accounting
  <2>2. CASE k # n
    <3>1. /\ q[n].end = tot
          /\ \A i \in 1..n - 1 : q[i + 1].end = q[i].end + q[i + 1].bytes
      BY <2>2, <1>1 DEF QueueOK, Accounting, n
    <3>2. q2[n - k] = q[n] /\ q2[1] = q[k + 1] /\ n - k >= 1
      BY <2>2, <1>1, <1>2 DEF n
    <3>3. \A i \in 1..(n - k) - 1 : q2[i + 1].end = q2[i].end + q2[i + 1].bytes
      <4> SUFFICES ASSUME NEW i \in 1..(n - k) - 1
                   PROVE  q2[i + 1].end = q2[i].end + q2[i + 1].bytes
        OBVIOUS
      <4>1. q2[i] = q[k + i] /\ q2[i + 1] = q[(k + i) + 1]
        BY <1>1, <1>2 DEF n
      <4>2. k + i \in 1..n - 1
        BY <1>1 DEF n
      <4>3. QED
        BY <4>1, <4>2, <3>1
    <3>4. QED
      <4>1. w2 = q2[n - k].end - q2[1].end + q2[1].bytes /\ q2[n - k].end = tot
        BY <2>2, <3>1, <3>2, <1>6
      <4>2. Len(q2) = n - k /\ q2 # <<>>
        BY <2>2, <1>2, <1>3 DEF n
      <4>3. QED
        BY <4>1, <4>2, <3>3 DEF Accounting
  <2>3. QED
    BY <2>1, <2>2
<1>10. Stretched(q2)
  <2>1. \A i \in 1..Len(q2) : i \in 1..n - k /\ k + i \in 1..n /\ q2[i] = q[k + i]
    BY <1>1, <1>2 DEF n
  <2>2. /\ \A i \in 1..n : q[i].bytes <= q[i].end
        /\ \A i, j \in 1..n : i < j => q[i].end + q[j].bytes <= q[j].end
    BY DEF QueueOK, Stretched, n
  <2>3. \A i \in 1..Len(q2) : q2[i].bytes <= q2[i].end
    BY <2>1, <2>2
  <2>4. ASSUME NEW i \in 1..Len(q2), NEW j \in 1..Len(q2), i < j
        PROVE  q2[i].end + q2[j].bytes <= q2[j].end
    <3>1. k + i < k + j /\ k + i \in 1..n /\ k + j \in 1..n
      BY <2>1, <2>4, <1>1
    <3>2. QED
      BY <3>1, <2>1, <2>2
  <2>5. QED
    BY <2>3, <2>4 DEF Stretched
<1>11. w2 <= w
  <2>1. CASE k = n
    <3>1. CASE n = 0
      BY <3>1, <2>1, <1>1, <1>6 DEF QueueOK, Accounting
    <3>2. CASE n # 0
      <4>1. q[1].bytes <= w /\ q[1].bytes \in Nat /\ w \in Int
        BY <3>2, <1>1, EndsBounded DEF QueueOK, QueueType, n
      <4>2. QED
        BY <4>1, <2>1, <1>6
    <3>3. QED
      BY <3>1, <3>2
  <2>2. CASE k # n
    <3>1. w = q[n].end - q[1].end + q[1].bytes
      BY <2>2, <1>1 DEF QueueOK, Accounting, n
    <3>2. CASE k = 0
      <4>1. w2 = w /\ w \in Int
        BY <3>1, <3>2, <2>2, <1>6 DEF QueueOK, QueueType
      <4>2. QED
        BY <4>1
    <3>3. CASE k > 0
      <4>1. q[1].end + q[k + 1].bytes <= q[k + 1].end
        BY <3>3, <2>2, <1>1 DEF QueueOK, Stretched, n
      <4>2. 1 \in 1..n /\ k + 1 \in 1..n /\ n \in 1..n
        BY <3>3, <2>2, <1>1 DEF n
      <4>3. /\ q[1].end \in Nat /\ q[1].bytes \in Nat
            /\ q[k + 1].end \in Nat /\ q[k + 1].bytes \in Nat
            /\ q[n].end \in Nat
        BY <4>2, <1>1 DEF n
      <4>4. w2 = q[n].end - q[k + 1].end + q[k + 1].bytes
        BY <2>2, <1>6
      <4>5. \A a, b, c, d, e \in Nat : b + e <= d => a - d + e <= a - b + c
        OBVIOUS
      <4>6. QED
        BY <4>1, <4>3, <4>4, <4>5, <3>1
    <3>4. QED
      BY <3>2, <3>3
  <2>3. QED
    BY <2>1, <2>2
<1>12. Limited(q2, w2)
  BY <1>1, <1>2, <1>6, <1>11, QueueAssumption DEF QueueOK, QueueType, Limited, n
<1>13. QED
  BY <1>7, <1>8, <1>9, <1>10, <1>12 DEF QueueOK

\* The whole queue weighs its byte count.
LEMMA FullWeight ==
    ASSUME NEW q, NEW w, NEW acc, NEW tot, NEW out,
           QueueOK(q, w, acc, tot, out)
    PROVE  w = WeightAfter(q, 0)
<1>1. Len(q) \in Nat /\ (q = <<>> <=> Len(q) = 0) /\ 0 + 1 = 1
  BY ItemFields DEF QueueOK, QueueType
<1>2. CASE q = <<>>
  BY <1>1, <1>2 DEF QueueOK, Accounting, WeightAfter
<1>3. CASE q # <<>>
  BY <1>1, <1>3 DEF QueueOK, Accounting, WeightAfter
<1>4. QED
  BY <1>2, <1>3

\* Taking the weight of the next item away leaves the weight of the rest.
LEMMA NextWeight ==
    ASSUME NEW q, NEW w, NEW acc, NEW tot, NEW out,
           QueueOK(q, w, acc, tot, out), NEW k \in Nat, k < Len(q)
    PROVE  WeightAfter(q, k) - q[k + 1].bytes = WeightAfter(q, k + 1)
<1> DEFINE n == Len(q)
<1>1. /\ n \in Nat /\ q # <<>>
      /\ \A i \in 1..n : q[i].bytes \in Nat /\ q[i].end \in Nat
  BY ItemFields DEF QueueOK, QueueType
<1>2. \A i \in 1..n - 1 : q[i + 1].end = q[i].end + q[i + 1].bytes
  BY <1>1 DEF QueueOK, Accounting
<1>3. WeightAfter(q, k) = q[n].end - q[k + 1].end + q[k + 1].bytes
  BY <1>1 DEF WeightAfter
<1>4. k < n
  OBVIOUS
<1>5. /\ k + 1 = n => WeightAfter(q, k + 1) = 0
      /\ k + 1 # n =>
            WeightAfter(q, k + 1) = q[n].end - q[(k + 1) + 1].end + q[(k + 1) + 1].bytes
  BY DEF WeightAfter
<1> HIDE DEF n
<1>6. q[k + 1].bytes \in Nat /\ q[k + 1].end \in Nat /\ q[n].end \in Nat
  BY <1>1, <1>4
<1>7. CASE k + 1 = n
  <2>1. \A a, c \in Nat : (a - a + c) - c = 0
    OBVIOUS
  <2>2. (q[n].end - q[n].end + q[n].bytes) - q[n].bytes = 0
    BY <2>1, <1>6, <1>7
  <2>3. QED
    BY <2>2, <1>3, <1>5, <1>7
<1>8. CASE k + 1 # n
  <2>1. k + 1 \in 1..n - 1 /\ (k + 1) + 1 \in 1..n
    BY <1>1, <1>4, <1>8
  <2>2. /\ q[(k + 1) + 1].end = q[k + 1].end + q[(k + 1) + 1].bytes
        /\ q[(k + 1) + 1].bytes \in Nat
    BY <2>1, <1>1, <1>2
  <2>3. \A a, b, c, x \in Nat : (a - b + c) - c = a - (b + x) + x
    OBVIOUS
  <2>4. (q[n].end - q[k + 1].end + q[k + 1].bytes) - q[k + 1].bytes
           = q[n].end - (q[k + 1].end + q[(k + 1) + 1].bytes) + q[(k + 1) + 1].bytes
    BY <2>2, <2>3, <1>6
  <2>5. QED
    BY <2>2, <2>4, <1>3, <1>5, <1>8
<1>9. QED
  BY <1>7, <1>8

-----------------------------------------------------------------------------
(* What the Notify operators return.                                       *)

\* Every Notify operation returns a Notify value.
LEMMA NotifyTypes ==
    ASSUME NEW W, NEW n \in NotifyType(W), NEW w \in W,
           NEW st \in FutureStates
    PROVE  /\ SetFuture(n, w, st) \in NotifyType(W)
           /\ Enable(n, w) \in NotifyType(W)
           /\ NotifyOne(n) \subseteq NotifyType(W)
           /\ NotifyWaiters(n) \in NotifyType(W)
           /\ Complete(n, w) \in NotifyType(W)
           /\ Release(n, w) \subseteq NotifyType(W)
<1>1. \A m \in NotifyType(W), v \in W, x \in FutureStates :
         SetFuture(m, v, x) \in NotifyType(W)
  BY DEF SetFuture, NotifyType
<1>2. \A m \in NotifyType(W) : NotifyOne(m) \subseteq NotifyType(W)
  <2> SUFFICES ASSUME NEW m \in NotifyType(W), NEW r \in NotifyOne(m)
               PROVE  r \in NotifyType(W)
    OBVIOUS
  <2>1. CASE Waiting(m) = {}
    BY <2>1 DEF NotifyOne, NotifyType
  <2>2. CASE Waiting(m) # {}
    <3>1. PICK v \in Waiting(m) : r = SetFuture(m, v, "one")
      BY <2>2 DEF NotifyOne
    <3>2. v \in W
      BY DEF Waiting, NotifyType
    <3>3. QED
      BY <1>1, <3>1, <3>2 DEF FutureStates
  <2>3. QED
    BY <2>1, <2>2
<1>3. \A x \in FutureStates : SetFuture(n, w, x) \in NotifyType(W)
  BY <1>1
<1>4. Enable(n, w) \in NotifyType(W)
  BY DEF Enable, SetFuture, NotifyType, FutureStates
<1>5. NotifyWaiters(n) \in NotifyType(W)
  BY DEF NotifyWaiters, NotifyType, FutureStates
<1>6. SetFuture(n, w, "none") \in NotifyType(W)
  BY <1>3 DEF FutureStates
<1>7. Release(n, w) \subseteq NotifyType(W)
  BY <1>2, <1>6 DEF Release
<1>8. QED
  BY <1>2, <1>3, <1>4, <1>5, <1>6, <1>7 DEF Complete

\* notify_one wakes exactly one enlisted future, if there is one.
LEMMA NotifyOneGot ==
    ASSUME NEW W, NEW n \in NotifyType(W), NEW m \in NotifyOne(n)
    PROVE  \/ /\ \A w \in W : n.got[w] # "waiting"
              /\ m.got = n.got
           \/ \E w \in W : /\ n.got[w] = "waiting"
                           /\ m.got = [n.got EXCEPT ![w] = "one"]
<1> USE DEF NotifyType, Waiting
<1>1. CASE Waiting(n) = {}
  BY <1>1 DEF NotifyOne
<1>2. CASE Waiting(n) # {}
  BY <1>2 DEF NotifyOne, SetFuture
<1>3. QED
  BY <1>1, <1>2

-----------------------------------------------------------------------------
(* What a step may change: Next seen through one group of variables at a   *)
(* time.                                                                   *)

\* A push with room in an open queue, an unconditional part of three actions.
PushStep ==
    \E b \in Nat :
        /\ lock = Free /\ receiver_open /\ ~Oversized(b)
        /\ Fits(Len(items), bytes, b)
        /\ Push(items, bytes, b)
        /\ UNCHANGED left

PopStep == lock = Free /\ Pop /\ rp' \in {"took", "popped"}

\* The queue changes by a push, a pop, the end of an eviction walk or a drain.
LEMMA QueueSteps ==
    ASSUME Next, TypeBase, WalkInv
    PROVE  \/ UNCHANGED <<items, bytes, accepted, total, left>>
           \/ PushStep
           \/ PopStep
           \/ \E s \in Senders : WalkEnd(s)
           \/ CloseAndDrain
<1> USE DEF state, history
<1>1. ASSUME NEW s \in Senders, NEW b \in Sizes, TrySendNewest(s, b)
      PROVE  UNCHANGED <<items, bytes, accepted, total, left>> \/ PushStep
  BY <1>1, QueueAssumption DEF TrySendNewest, PushStep
<1>2. ASSUME NEW s \in Senders, SendCheck(s)
      PROVE  UNCHANGED <<items, bytes, accepted, total, left>> \/ PushStep
  BY <1>2, QueueAssumption DEF SendCheck, PushStep, TypeBase, WalkInv, Goto
<1>3. ASSUME RecvCheck \/ TryRecvIf
      PROVE  UNCHANGED <<items, bytes, accepted, total, left>> \/ PopStep
  BY <1>3 DEF RecvCheck, TryRecvIf, PopStep, RGoto
<1>4. QED
  BY <1>1, <1>2, <1>3
  DEF Next, SenderCalls, SenderSteps, ReceiverCalls, ReceiverSteps, Clone,
      DropSender, TrySendRefused, TrySendOldest, SendCall, SendCancel,
      DropSenderNotify, WalkEvictable, WalkProtected, NotifyChanged,
      SendEnable, SendWake, SendRelease, RecvCall, RecvCancel, RecvEnable,
      NotifySpace, RecvWake, RecvRelease, CloseNotifyChanged, CloseNotifySpace

\* A handle moves alone, and only between the states of a call.
LEMMA SenderMoves ==
    ASSUME Next, sp \in [Senders -> SenderStates]
    PROVE  sp' \in [Senders -> SenderStates]
<1>1. sp' = sp \/ \E s \in Senders, to \in SenderStates : sp' = [sp EXCEPT ![s] = to]
  BY DEF SenderStates, Goto, state, history,
      Next, SenderCalls, SenderSteps, ReceiverCalls, ReceiverSteps, Clone,
      DropSender, TrySendRefused, TrySendNewest, TrySendOldest, SendCall,
      SendCancel, DropSenderNotify, WalkEvictable, WalkProtected, WalkEnd,
      NotifyChanged, SendEnable, SendCheck, SendWake, SendRelease, RecvCall,
      TryRecvIf, RecvCancel, CloseAndDrain, RecvEnable, RecvCheck,
      NotifySpace, RecvWake, RecvRelease, CloseNotifyChanged, CloseNotifySpace
<1>2. QED
  BY <1>1

-----------------------------------------------------------------------------
(* One lemma per part of the invariant.                                    *)

\* A walk ends in a push: there is room once it stops.
LEMMA WalkEndPushes ==
    ASSUME IInv, NEW s \in Senders, WalkEnd(s)
    PROVE  LET k == Len(items) - walk.items
               kept == SubSeq(items, k + 1, Len(items))
           IN  /\ k \in 0..Len(items)
               /\ Len(kept) = walk.items
               /\ walk.bytes = WeightAfter(items, k)
               /\ Fits(Len(kept), walk.bytes, size[s])
               /\ Push(kept, walk.bytes, size[s])
               /\ left' = left \o Ids(SubSeq(items, 1, k))
               /\ sp' = [sp EXCEPT ![s] = "notify"]
<1> DEFINE k == Len(items) - walk.items
           kept == SubSeq(items, k + 1, Len(items))
<1>1. sp[s] = "walking" /\ lock = s /\ lock # Free
  BY QueueAssumption DEF IInv, WalkInv, WalkEnd
<1>2. /\ walk.items \in 0..Len(items)
      /\ walk.bytes = WeightAfter(items, k)
      /\ ~Oversized(size[s])
      /\ size[s] \in Nat
  BY <1>1 DEF IInv, WalkInv, TypeBase
<1>3. Len(items) \in Nat /\ items \in Seq(Item)
  BY DEF IInv, QueueInv, QueueOK, QueueType
<1>4. k \in 0..Len(items)
  BY <1>2, <1>3
<1>5. Len(kept) = walk.items
  BY <1>2, <1>3, <1>4
<1>6. Fits(walk.items, walk.bytes, size[s])
  <2>1. CASE walk.items = 0
    <3>1. walk.bytes = 0
      BY <2>1, <1>2, <1>3 DEF WeightAfter
    <3>2. QED
      BY <2>1, <3>1, <1>2, QueueAssumption DEF Fits, Oversized
  <2>2. CASE walk.items # 0
    BY <2>2 DEF WalkEnd, WalkOver
  <2>3. QED
    BY <2>1, <2>2
<1>7. QED
  BY <1>2, <1>4, <1>5, <1>6 DEF WalkEnd, Goto

\* The queue stays well formed.
LEMMA QueueKeeps == IInv /\ [Next]_vars => QueueInv'
<1> SUFFICES ASSUME IInv, [Next]_vars
             PROVE  QueueInv'
  OBVIOUS
<1>1. /\ QueueOK(items, bytes, accepted, total, left)
      /\ Len(items) \in Nat /\ items \in Seq(Item) /\ left \in Seq(Nat)
  BY DEF IInv, QueueInv, QueueOK, QueueType
<1>2. CASE UNCHANGED <<items, bytes, accepted, total, left>>
  BY <1>1, <1>2 DEF QueueInv
<1>3. CASE PushStep
  <2>1. PICK b \in Nat : /\ Fits(Len(items), bytes, b)
                         /\ Push(items, bytes, b)
                         /\ UNCHANGED left
    BY <1>3 DEF PushStep
  <2>2. Pushed(items, bytes, accepted, total, b, items', bytes', accepted', total')
    BY <2>1 DEF Pushed, Push, NewItem
  <2>3. QED
    BY <1>1, <2>1, <2>2, PushKeeps DEF QueueInv
<1>4. CASE PopStep
  <2>1. /\ items # <<>> /\ Len(items) >= 1
        /\ items' = Tail(items)
        /\ bytes' = bytes - Head(items).bytes
        /\ left' = Append(left, Head(items).id)
        /\ UNCHANGED <<accepted, total>>
    BY <1>1, <1>4 DEF PopStep, Pop
  <2>2. Shortened(items, left, 1, items', left')
    <3>1. Tail(items) = SubSeq(items, 2, Len(items))
      BY <1>1, <2>1, TailIsSubSeq
    <3>2. /\ SubSeq(items, 1, 1) \in Seq(Item) /\ Len(SubSeq(items, 1, 1)) = 1
          /\ SubSeq(items, 1, 1)[1] = Head(items)
      BY <1>1, <2>1
    <3>3. Ids(SubSeq(items, 1, 1)) = <<Head(items).id>>
      BY <3>2 DEF Ids
    <3>4. Append(left, Head(items).id) = left \o <<Head(items).id>>
      BY <1>1, <2>1, ItemFields, AppendIsConcat
    <3>5. QED
      BY <2>1, <3>1, <3>3, <3>4, 1 + 1 = 2 DEF Shortened
  <2>3. bytes' = WeightAfter(items, 1)
    <3>1. bytes = WeightAfter(items, 0) /\ 0 + 1 = 1 /\ 0 < Len(items)
      BY <1>1, <2>1, FullWeight
    <3>2. WeightAfter(items, 0) - items[1].bytes = WeightAfter(items, 1)
      BY <1>1, <3>1, NextWeight
    <3>3. QED
      BY <1>1, <2>1, <3>1, <3>2
  <2>4. 1 \in 0..Len(items)
    BY <1>1, <2>1
  <2>5. QED
    BY <1>1, <2>1, <2>2, <2>3, <2>4, ShorteningKeeps DEF QueueInv
<1>5. ASSUME NEW s \in Senders, WalkEnd(s)
      PROVE  QueueInv'
  <2> DEFINE k == Len(items) - walk.items
             kept == SubSeq(items, k + 1, Len(items))
  <2>1. /\ k \in 0..Len(items)
        /\ walk.bytes = WeightAfter(items, k)
        /\ Fits(Len(kept), walk.bytes, size[s])
        /\ Push(kept, walk.bytes, size[s])
        /\ left' = left \o Ids(SubSeq(items, 1, k))
        /\ size[s] \in Nat
    BY <1>5, WalkEndPushes DEF IInv, TypeBase
  <2> HIDE DEF k
  <2>2. Shortened(items, left, k, kept, left')
    BY <2>1 DEF Shortened
  <2> HIDE DEF kept
  <2>3. QueueOK(kept, walk.bytes, accepted, total, left')
    BY <1>1, <2>1, <2>2, ShorteningKeeps
  <2>4. Pushed(kept, walk.bytes, accepted, total, size[s], items', bytes', accepted', total')
    BY <2>1 DEF Pushed, Push, NewItem
  <2>5. QED
    BY <2>1, <2>3, <2>4, PushKeeps DEF QueueInv
<1>6. CASE CloseAndDrain
  <2>1. /\ items' = <<>> /\ bytes' = 0 /\ left' = left \o Ids(items)
        /\ UNCHANGED <<accepted, total>>
    BY <1>6 DEF CloseAndDrain
  <2>2. SubSeq(items, Len(items) + 1, Len(items)) = <<>> /\ SubSeq(items, 1, Len(items)) = items
    BY <1>1, SubSeqEmpty, SubSeqFull
  <2>3. Shortened(items, left, Len(items), items', left')
    BY <2>1, <2>2 DEF Shortened
  <2>4. bytes' = WeightAfter(items, Len(items)) /\ Len(items) \in 0..Len(items)
    BY <1>1, <2>1 DEF WeightAfter
  <2>5. QED
    BY <1>1, <2>1, <2>3, <2>4, ShorteningKeeps DEF QueueInv
<1>7. QED
  BY <1>2, <1>3, <1>4, <1>5, <1>6, QueueSteps DEF IInv, vars

\* What the walk looks at is an item, and the walk has not reached the end.
LEMMA WalkTypes ==
    ASSUME IInv, NEW s \in Senders, WalkEvictable(s)
    PROVE  LET k == Len(items) - walk.items
           IN  /\ k \in Nat /\ k < Len(items) /\ walk.items > 0
               /\ Len(items) \in Nat /\ walk.items \in Nat /\ walk.bytes \in Int
               /\ WalkItem = items[k + 1] /\ WalkItem.bytes \in Nat
               /\ walk.bytes = WeightAfter(items, k)
               /\ lock = s /\ lock # Free
<1>1. sp[s] = "walking" /\ lock = s /\ lock # Free
  BY QueueAssumption DEF IInv, WalkInv, WalkEvictable
<1>2. /\ walk.items \in 0..Len(items)
      /\ walk.bytes = WeightAfter(items, Len(items) - walk.items)
      /\ walk.bytes \in Int
  BY <1>1 DEF IInv, WalkInv, TypeBase
<1>3. walk.items # 0
  BY DEF WalkEvictable, WalkOver
<1>4. /\ Len(items) \in Nat
      /\ \A i \in 1..Len(items) : items[i].bytes \in Nat
  BY ItemFields DEF IInv, QueueInv, QueueOK, QueueType
<1>5. (Len(items) - walk.items) + 1 \in 1..Len(items)
  BY <1>2, <1>3, <1>4
<1>6. WalkItem = items[(Len(items) - walk.items) + 1]
  BY DEF WalkItem
<1>7. QED
  BY <1>1, <1>2, <1>3, <1>4, <1>5, <1>6

\* Types are preserved.
LEMMA TypeKeeps == IInv /\ [Next]_vars => TypeBase'
<1> SUFFICES ASSUME IInv, [Next]_vars
             PROVE  TypeBase'
  OBVIOUS
<1>1. TypeBase /\ QueueInv
  BY DEF IInv
<1>2. /\ space \in NotifyType(Senders)
      /\ NotifyOne(space) \subseteq NotifyType(Senders)
      /\ NotifyWaiters(space) \in NotifyType(Senders)
      /\ \A s \in Senders : /\ Enable(space, s) \in NotifyType(Senders)
                            /\ Complete(space, s) \in NotifyType(Senders)
                            /\ Release(space, s) \subseteq NotifyType(Senders)
  <2>1. space \in NotifyType(Senders) /\ "none" \in FutureStates
    BY <1>1 DEF TypeBase, FutureStates
  <2>2. QED
    BY ONLY <2>1, NotifyTypes, QueueAssumption
<1>3. CASE UNCHANGED vars
  BY <1>1, <1>3 DEF vars, TypeBase
<1>4. CASE Next
  <2> USE <1>4 DEF Next, SenderCalls, SenderSteps, ReceiverCalls, ReceiverSteps,
      Clone, DropSender, TrySendRefused, TrySendNewest, TrySendOldest, SendCall,
      SendCancel, DropSenderNotify, WalkEvictable, WalkProtected, WalkEnd,
      NotifyChanged, SendEnable, SendCheck, SendWake, SendRelease, RecvCall,
      TryRecvIf, RecvCancel, CloseAndDrain, RecvEnable, RecvCheck,
      NotifySpace, RecvWake, RecvRelease, CloseNotifyChanged, CloseNotifySpace,
      state, history
  <2>1. senders' \in Int
    BY <1>1 DEF TypeBase
  <2>2. receiver_open' \in BOOLEAN
    BY <1>1 DEF TypeBase
  <2>3. policy' \in Policies
    BY <1>1 DEF TypeBase
  <2>4. lock' \in Senders \cup {Free}
    BY <1>1 DEF TypeBase
  <2>5. changed' \in NotifyType(Receiver)
    BY <1>1, NotifyTypes DEF TypeBase, Receiver, FutureStates
  <2>6. space' \in NotifyType(Senders)
    <3>1. \/ space' = space
          \/ \E s \in Senders : \/ space' = Enable(space, s)
                               \/ space' = Complete(space, s)
                               \/ space' \in Release(space, s)
          \/ space' \in NotifyOne(space)
          \/ space' = NotifyWaiters(space)
      OBVIOUS
    <3>2. QED
      BY ONLY <1>2, <3>1
  <2>7. sp' \in [Senders -> SenderStates]
    BY ONLY <1>1, <1>4, SenderMoves DEF TypeBase
  <2>8. size' \in [Senders -> Nat]
    BY <1>1, QueueAssumption DEF TypeBase, Forget
  <2>9. walk' \in [items: Int, bytes: Int]
    <3>1. \/ walk' = walk
          \/ walk' = NoWalk
          \/ walk' = [items |-> Len(items), bytes |-> bytes]
          \/ \E s \in Senders : WalkEvictable(s)
      OBVIOUS
    <3>2. Len(items) \in Int /\ bytes \in Int
      BY ONLY <1>1 DEF QueueInv, QueueOK, QueueType
    <3>3. ASSUME NEW s \in Senders, WalkEvictable(s)
          PROVE  walk' \in [items: Int, bytes: Int]
      BY ONLY <3>3, WalkTypes, IInv DEF WalkEvictable
    <3>4. QED
      BY ONLY <1>1, <3>1, <3>2, <3>3 DEF TypeBase, NoWalk
  <2>10. rp' \in ReceiverStates
    BY <1>1 DEF TypeBase, ReceiverStates, RGoto
  <2>11. eof' \in BOOLEAN
    BY <1>1 DEF TypeBase
  <2>12. calls' \in Nat
    BY <1>1 DEF TypeBase
  <2>13. QED
    BY ONLY <2>1, <2>2, <2>3, <2>4, <2>5, <2>6, <2>7, <2>8, <2>9, <2>10, <2>11, <2>12
    DEF TypeBase
<1>5. QED
  BY <1>3, <1>4

\* The locals of the walk stay meaningful.
LEMMA WalkKeeps == IInv /\ [Next]_vars => WalkInv'
<1> SUFFICES ASSUME IInv, [Next]_vars
             PROVE  WalkInv'
  OBVIOUS
<1>1. TypeBase /\ QueueInv /\ WalkInv /\ QueueInv'
  BY QueueKeeps DEF IInv
<1>2. CASE UNCHANGED vars
  BY <1>1, <1>2 DEF vars, WalkInv, Oversized, WeightAfter
<1> DEFINE Locals == /\ walk.items \in 0..Len(items)
                      /\ walk.bytes = WeightAfter(items, Len(items) - walk.items)
<1>3. ASSUME lock' = lock /\ UNCHANGED <<walk, items>>, lock' # Free
      PROVE  Locals'
  BY <1>1, <1>3 DEF WalkInv, WeightAfter
<1>4. ASSUME NEW s \in Senders, NEW b \in Sizes, TrySendOldest(s, b)
      PROVE  Locals'
  <2>1. bytes = WeightAfter(items, 0)
    BY <1>1, FullWeight DEF QueueInv
  <2>2. Len(items) \in Nat /\ Len(items) - Len(items) = 0
    BY <1>1 DEF QueueInv, QueueOK, QueueType
  <2>3. /\ walk' = [items |-> Len(items), bytes |-> bytes]
        /\ UNCHANGED items
    BY <1>4 DEF TrySendOldest, state
  <2>4. QED
    BY <2>1, <2>2, <2>3
<1>5. ASSUME NEW s \in Senders, WalkEvictable(s)
      PROVE  Locals'
  <2> DEFINE k == Len(items) - walk.items
  <2>1. /\ k \in Nat /\ k < Len(items) /\ walk.items > 0
        /\ Len(items) \in Nat /\ walk.items \in Nat
        /\ WalkItem = items[k + 1]
        /\ walk.bytes = WeightAfter(items, k)
    BY <1>5, WalkTypes
  <2>2. /\ walk' = [items |-> walk.items - 1, bytes |-> walk.bytes - WalkItem.bytes]
        /\ UNCHANGED items
    BY <1>5 DEF WalkEvictable, state
  <2>3. WeightAfter(items, k) - items[k + 1].bytes = WeightAfter(items, k + 1)
    BY <1>1, <2>1, NextWeight DEF QueueInv
  <2>4. Len(items) - (walk.items - 1) = k + 1
    BY <2>1
  <2>5. QED
    BY <2>1, <2>2, <2>3, <2>4
<1> HIDE DEF Locals
<1>6. CASE Next
  <2> USE <1>6 DEF Next, SenderCalls, SenderSteps, ReceiverCalls, ReceiverSteps,
      Clone, DropSender, TrySendRefused, TrySendNewest, TrySendOldest, SendCall,
      SendCancel, DropSenderNotify, WalkEvictable, WalkProtected, WalkEnd,
      NotifyChanged, SendEnable, SendCheck, SendWake, SendRelease, RecvCall,
      TryRecvIf, RecvCancel, CloseAndDrain, RecvEnable, RecvCheck,
      NotifySpace, RecvWake, RecvRelease, CloseNotifyChanged, CloseNotifySpace,
      state, history, Goto
  <2>1. \A s \in Senders : sp'[s] = "walking" <=> lock' = s
    BY <1>1, QueueAssumption DEF TypeBase, WalkInv
  <2>2. \A s \in Senders :
          sp'[s] \in {"walking", "start", "enabled", "parked"} => ~Oversized(size'[s])
    BY <1>1, QueueAssumption DEF TypeBase, WalkInv, Forget, Oversized
  <2>3. lock' # Free => receiver_open'
    BY <1>1 DEF WalkInv
  <2>4. lock' # Free => Locals'
    <3>1. \/ lock' = Free
          \/ lock' = lock /\ UNCHANGED <<walk, items>>
          \/ \E s \in Senders, b \in Sizes : TrySendOldest(s, b)
          \/ \E s \in Senders : WalkEvictable(s)
      BY <1>1 DEF WalkInv
    <3>2. QED
      BY ONLY <1>3, <1>4, <1>5, <3>1
  <2>5. lock' = Free => walk' = NoWalk
    BY <1>1, QueueAssumption DEF WalkInv
  <2>6. QED
    BY ONLY <2>1, <2>2, <2>3, <2>4, <2>5 DEF WalkInv, Oversized, Locals
<1>7. QED
  BY <1>2, <1>6

\* The count of live handles is a number, and zero only without live handles.
LEMMA LiveCount ==
    ASSUME SendersInv
    PROVE  /\ IsFiniteSet(Live)
           /\ senders \in Nat
           /\ senders = 0 <=> Live = {}
<1>1. IsFiniteSet(Live)
  BY QueueAssumption, FS_Subset DEF Live
<1>2. QED
  BY <1>1, FS_CardinalityType, FS_EmptySet DEF SendersInv

\* State.senders keeps counting the live handles.
LEMMA SendersKeeps == IInv /\ [Next]_vars => SendersInv'
<1> SUFFICES ASSUME IInv, [Next]_vars
             PROVE  SendersInv'
  OBVIOUS
<1>1. TypeBase /\ SendersInv /\ IsFiniteSet(Live) /\ senders \in Nat
  BY LiveCount DEF IInv
<1>2. ASSUME Live' = Live, senders' = senders
      PROVE  SendersInv'
  BY <1>1, <1>2 DEF SendersInv
<1>3. ASSUME NEW s \in Senders, NEW t \in Senders, Clone(s, t)
      PROVE  SendersInv'
  <2>1. Live' = Live \cup {t} /\ t \notin Live
    BY <1>1, <1>3 DEF Clone, Goto, Live, TypeBase
  <2>2. senders' = senders + 1
    BY <1>3 DEF Clone
  <2>3. QED
    BY <1>1, <2>1, <2>2, FS_AddElement DEF SendersInv
<1>4. ASSUME NEW s \in Senders, DropSender(s)
      PROVE  SendersInv'
  <2>1. Live' = Live \ {s} /\ s \in Live
    BY <1>1, <1>4 DEF DropSender, Goto, Live, TypeBase
  <2>2. senders' = senders - 1
    BY <1>4 DEF DropSender
  <2>3. QED
    BY <1>1, <2>1, <2>2, FS_RemoveElement DEF SendersInv
<1>5. \/ senders' = senders /\ Live' = Live
      \/ \E s, t \in Senders : Clone(s, t)
      \/ \E s \in Senders : DropSender(s)
  BY <1>1
  DEF vars, Next, SenderCalls, SenderSteps, ReceiverCalls, ReceiverSteps,
      TrySendRefused, TrySendNewest, TrySendOldest, SendCall,
      SendCancel, DropSenderNotify, WalkEvictable, WalkProtected, WalkEnd,
      NotifyChanged, SendEnable, SendCheck, SendWake, SendRelease, RecvCall,
      TryRecvIf, RecvCancel, CloseAndDrain, RecvEnable, RecvCheck,
      NotifySpace, RecvWake, RecvRelease, CloseNotifyChanged, CloseNotifySpace,
      state, history, Goto, Live, TypeBase
<1>6. QED
  BY <1>2, <1>3, <1>4, <1>5

\* Who can start waiting for space, and who can lose a wake-up.
LEMMA SpaceMoves ==
    ASSUME TypeBase, Next, NEW s \in Senders
    PROVE  /\ space'.got[s] = "waiting" => space.got[s] = "waiting" \/ sp'[s] = "enabled"
           /\ space.got[s] = "one" /\ space'.got[s] # "one" =>
                 \/ sp'[s] \in {"start", "enabled"}
                 \/ SendRelease(s)
<1>1. \/ space' = space
      \/ \E t \in Senders : SendEnable(t) \/ SendWake(t) \/ SendRelease(t)
      \/ NotifySpace
      \/ CloseNotifySpace
  BY DEF Next, SenderCalls, SenderSteps, ReceiverCalls, ReceiverSteps, Clone,
      DropSender, TrySendRefused, TrySendNewest, TrySendOldest, SendCall,
      SendCancel, DropSenderNotify, WalkEvictable, WalkProtected, WalkEnd,
      NotifyChanged, SendCheck, RecvCall, TryRecvIf, RecvCancel, CloseAndDrain,
      RecvEnable, RecvCheck, RecvWake, RecvRelease, CloseNotifyChanged
<1>2. ASSUME NEW t \in Senders, SendEnable(t) \/ SendWake(t)
      PROVE  /\ \A u \in Senders : u # t => space'.got[u] = space.got[u]
             /\ sp'[t] \in {"start", "enabled"}
             /\ space'.got[t] = "waiting" => sp'[t] = "enabled"
  <2>1. /\ sp \in [Senders -> SenderStates]
        /\ space \in [permit : {0, 1}, got : [Senders -> FutureStates]]
    BY DEF TypeBase, NotifyType
  <2>2. \/ space'.got = [space.got EXCEPT ![t] = "done"]
        \/ space'.got = [space.got EXCEPT ![t] = "waiting"] /\ sp'[t] = "enabled"
        \/ space'.got = [space.got EXCEPT ![t] = "none"]
    BY <1>2, <2>1 DEF SendEnable, SendWake, Enable, Complete, SetFuture, Goto
  <2>3. sp'[t] \in {"start", "enabled"}
    BY <1>2, <2>1 DEF SendEnable, SendWake, Goto
  <2>4. QED
    BY <2>1, <2>2, <2>3
<1>3. ASSUME NEW t \in Senders, SendRelease(t)
      PROVE  /\ \A u \in Senders : space'.got[u] = "waiting" => space.got[u] = "waiting"
             /\ \A u \in Senders : u # t /\ space.got[u] = "one" => space'.got[u] = "one"
  <2> DEFINE n == SetFuture(space, t, "none")
  <2>1. /\ n \in NotifyType(Senders)
        /\ n.got = [space.got EXCEPT ![t] = "none"]
    BY DEF TypeBase, SetFuture, NotifyType, FutureStates
  <2>2. space' = n \/ space' \in NotifyOne(n)
    BY <1>3 DEF SendRelease, Release
  <2> HIDE DEF n
  <2>3. CASE space' = n
    BY <2>1, <2>3 DEF TypeBase, NotifyType
  <2>4. CASE space' \in NotifyOne(n)
    <3>1. \/ space'.got = n.got
          \/ \E w \in Senders : /\ n.got[w] = "waiting"
                                /\ space'.got = [n.got EXCEPT ![w] = "one"]
      BY <2>1, <2>4, NotifyOneGot
    <3>2. QED
      BY <2>1, <3>1 DEF TypeBase, NotifyType
  <2>5. QED
    BY <2>2, <2>3, <2>4
<1>4. ASSUME NotifySpace
      PROVE  /\ space'.got[s] = "waiting" => space.got[s] = "waiting"
             /\ space.got[s] = "one" => space'.got[s] = "one"
  <2>1. space \in NotifyType(Senders) /\ space' \in NotifyOne(space)
    BY <1>4 DEF TypeBase, NotifySpace
  <2>2. \/ space'.got = space.got
        \/ \E w \in Senders : /\ space.got[w] = "waiting"
                              /\ space'.got = [space.got EXCEPT ![w] = "one"]
    BY <2>1, NotifyOneGot
  <2>3. QED
    BY <2>1, <2>2 DEF NotifyType
<1>5. ASSUME CloseNotifySpace
      PROVE  /\ space'.got[s] # "waiting"
             /\ space.got[s] = "one" => space'.got[s] = "one"
  BY <1>5 DEF CloseNotifySpace, NotifyWaiters, TypeBase, NotifyType
<1>6. QED
  BY <1>1, <1>2, <1>3, <1>4, <1>5

\* An empty queue has room for every item that is not oversized.
LEMMA EmptyFits ==
    ASSUME QueueInv, items = <<>>, NEW b \in Nat, ~Oversized(b)
    PROVE  Fits(Len(items), bytes, b)
BY QueueAssumption DEF QueueInv, QueueOK, Accounting, Fits, Oversized

\* A closed queue stays closed and empty, and its waiting senders are woken.
LEMMA ClosedKeeps == IInv /\ [Next]_vars => ClosedInv'
<1> SUFFICES ASSUME IInv, [Next]_vars, ~receiver_open'
             PROVE  /\ items' = <<>>
                    /\ \A s \in Senders :
                          sp'[s] = "parked" /\ space'.got[s] = "waiting"
                             => rp' \in {"closing", "waking"}
  BY DEF ClosedInv
<1>1. TypeBase /\ ClosedInv /\ WalkInv
  BY DEF IInv
<1>2. CASE UNCHANGED vars
  BY <1>1, <1>2 DEF vars, ClosedInv
<1>3. CASE CloseAndDrain
  BY <1>3 DEF CloseAndDrain, RGoto
<1>4. CASE Next /\ ~CloseAndDrain
  <2>1. ~receiver_open
    BY <1>4
    DEF Next, SenderCalls, SenderSteps, ReceiverCalls, ReceiverSteps, Clone,
      DropSender, TrySendRefused, TrySendNewest, TrySendOldest, SendCall,
      SendCancel, DropSenderNotify, WalkEvictable, WalkProtected, WalkEnd,
      NotifyChanged, SendEnable, SendCheck, SendWake, SendRelease, RecvCall,
      TryRecvIf, RecvCancel, RecvEnable, RecvCheck,
      NotifySpace, RecvWake, RecvRelease, CloseNotifyChanged, CloseNotifySpace
  <2>2. /\ items = <<>> /\ lock = Free
        /\ \A s \in Senders :
              sp[s] = "parked" /\ space.got[s] = "waiting" => rp \in {"closing", "waking"}
    BY <1>1, <2>1 DEF ClosedInv, WalkInv
  <2>3. ~PushStep /\ ~PopStep /\ \A s \in Senders : ~WalkEnd(s)
    BY <1>1, <2>1, <2>2, QueueAssumption DEF PushStep, PopStep, Pop, WalkEnd, WalkInv
  <2>4. items' = <<>>
    BY <1>1, <1>4, <2>2, <2>3, QueueSteps
  <2>5. ASSUME NEW s \in Senders, sp'[s] = "parked", space'.got[s] = "waiting"
        PROVE  rp' \in {"closing", "waking"}
    <3>1. space.got[s] = "waiting"
      BY <1>1, <1>4, <2>5, SpaceMoves
    <3>2. sp[s] = "parked"
      BY <1>1, <1>4, <2>1, <2>5
      DEF Next, SenderCalls, SenderSteps, ReceiverCalls, ReceiverSteps, Clone,
        DropSender, TrySendRefused, TrySendNewest, TrySendOldest, SendCall,
        SendCancel, DropSenderNotify, WalkEvictable, WalkProtected, WalkEnd,
        NotifyChanged, SendEnable, SendCheck, SendWake, SendRelease, RecvCall,
        TryRecvIf, RecvCancel, RecvEnable, RecvCheck, NotifySpace, RecvWake,
        RecvRelease, CloseNotifyChanged, CloseNotifySpace, Goto, TypeBase
    <3>3. rp \in {"closing", "waking"}
      BY <2>2, <3>1, <3>2
    <3>4. ~CloseNotifySpace
      BY <1>1, <2>5 DEF CloseNotifySpace, NotifyWaiters, TypeBase, NotifyType
    <3>5. rp' = rp \/ rp' = "waking"
      BY <1>4, <3>3, <3>4
      DEF Next, SenderCalls, SenderSteps, ReceiverCalls, ReceiverSteps, Clone,
        DropSender, TrySendRefused, TrySendNewest, TrySendOldest, SendCall,
        SendCancel, DropSenderNotify, WalkEvictable, WalkProtected, WalkEnd,
        NotifyChanged, SendEnable, SendCheck, SendWake, SendRelease, RecvCall,
        TryRecvIf, RecvCancel, RecvEnable, RecvCheck, NotifySpace, RecvWake,
        RecvRelease, CloseNotifyChanged, RGoto
    <3>6. QED
      BY <3>3, <3>5
  <2>6. QED
    BY <2>4, <2>5
<1>5. QED
  BY <1>2, <1>3, <1>4

\* The end of the stream stays the end: nothing is pushed by a dead handle.
LEMMA EndKeeps == IInv /\ [Next]_vars => EndIsFinal'
<1> SUFFICES ASSUME IInv, [Next]_vars, eof'
             PROVE  Disconnected'
  BY DEF EndIsFinal
<1>1. TypeBase /\ EndIsFinal /\ WalkInv /\ SendersInv /\ senders \in Nat
      /\ (senders = 0 <=> Live = {})
  BY LiveCount DEF IInv
<1>2. CASE UNCHANGED vars
  BY <1>1, <1>2 DEF vars, EndIsFinal, Disconnected
<1>3. CASE ~eof /\ Next
  <2>1. Disconnected /\ UNCHANGED <<items, senders, receiver_open>>
    BY <1>3
    DEF Next, SenderCalls, SenderSteps, ReceiverCalls, ReceiverSteps, Clone,
      DropSender, TrySendRefused, TrySendNewest, TrySendOldest, SendCall,
      SendCancel, DropSenderNotify, WalkEvictable, WalkProtected, WalkEnd,
      NotifyChanged, SendEnable, SendCheck, SendWake, SendRelease, RecvCall,
      TryRecvIf, RecvCancel, CloseAndDrain, RecvEnable, RecvCheck, NotifySpace,
      RecvWake, RecvRelease, CloseNotifyChanged, CloseNotifySpace, state
  <2>2. QED
    BY <2>1 DEF Disconnected
<1>4. CASE eof /\ Next
  <2>1. Disconnected
    BY <1>1, <1>4 DEF EndIsFinal
  <2>2. ASSUME senders = 0
        PROVE  /\ senders' = 0
               /\ items' = items
    <3>1. \A s \in Senders : sp[s] \in {"absent", "last", "dropped"}
      BY <1>1, <2>2 DEF Live
    <3>2. QED
      BY <1>4, <2>1, <2>2, <3>1
      DEF Next, SenderCalls, SenderSteps, ReceiverCalls, ReceiverSteps, Clone,
        DropSender, TrySendRefused, TrySendNewest, TrySendOldest, SendCall,
        SendCancel, DropSenderNotify, WalkEvictable, WalkProtected, WalkEnd,
        NotifyChanged, SendEnable, SendCheck, SendWake, SendRelease, RecvCall,
        TryRecvIf, RecvCancel, CloseAndDrain, RecvEnable, RecvCheck, NotifySpace,
        RecvWake, RecvRelease, CloseNotifyChanged, CloseNotifySpace, state,
        Goto, Pop, Disconnected
  <2>3. ASSUME ~receiver_open
        PROVE  ~receiver_open' /\ items' = <<>>
    <3>1. ~receiver_open'
      BY <1>4, <2>3
      DEF Next, SenderCalls, SenderSteps, ReceiverCalls, ReceiverSteps, Clone,
        DropSender, TrySendRefused, TrySendNewest, TrySendOldest, SendCall,
        SendCancel, DropSenderNotify, WalkEvictable, WalkProtected, WalkEnd,
        NotifyChanged, SendEnable, SendCheck, SendWake, SendRelease, RecvCall,
        TryRecvIf, RecvCancel, CloseAndDrain, RecvEnable, RecvCheck, NotifySpace,
        RecvWake, RecvRelease, CloseNotifyChanged, CloseNotifySpace
    <3>2. QED
      BY <3>1, ClosedKeeps DEF ClosedInv
  <2>4. QED
    BY <2>1, <2>2, <2>3 DEF Disconnected
<1>5. QED
  BY <1>1, <1>2, <1>3, <1>4 DEF TypeBase

\* No wake-up of the receiver is lost.
LEMMA ReceiverKeeps == IInv /\ [Next]_vars => NoStrandedReceiver'
<1> DEFINE Coming == \E s \in Senders : sp[s] \in {"notify", "sent", "last"}
<1> SUFFICES ASSUME IInv, [Next]_vars, rp' = "parked", changed'.got["rx"] = "waiting"
             PROVE  (items' = <<>> /\ ~Disconnected') \/ Coming'
  BY DEF NoStrandedReceiver
<1>1. TypeBase /\ NoStrandedReceiver /\ WalkInv /\ senders \in Nat
  BY LiveCount DEF IInv
<1>2. CASE UNCHANGED vars
  BY <1>1, <1>2 DEF vars, NoStrandedReceiver, Disconnected
<1>3. CASE Next
  <2>1. CASE rp # "parked"
    <3>1. items = <<>> /\ ~Disconnected /\ UNCHANGED <<items, senders, receiver_open>>
      BY <1>3, <2>1
      DEF Next, SenderCalls, SenderSteps, ReceiverCalls, ReceiverSteps, Clone,
        DropSender, TrySendRefused, TrySendNewest, TrySendOldest, SendCall,
        SendCancel, DropSenderNotify, WalkEvictable, WalkProtected, WalkEnd,
        NotifyChanged, SendEnable, SendCheck, SendWake, SendRelease, RecvCall,
        TryRecvIf, RecvCancel, CloseAndDrain, RecvEnable, RecvCheck, NotifySpace,
        RecvWake, RecvRelease, CloseNotifyChanged, CloseNotifySpace, state,
        RGoto
    <3>2. QED
      BY <3>1 DEF Disconnected
  <2>2. CASE rp = "parked"
    <3>1. changed' = changed
      <4>1. \/ changed' = changed
            \/ changed' \in NotifyOne(changed)
            \/ changed' = NotifyWaiters(changed)
            \/ changed' = Complete(changed, "rx")
        BY <1>3, <2>2
        DEF Next, SenderCalls, SenderSteps, ReceiverCalls, ReceiverSteps, Clone,
          DropSender, TrySendRefused, TrySendNewest, TrySendOldest, SendCall,
          SendCancel, DropSenderNotify, WalkEvictable, WalkProtected, WalkEnd,
          NotifyChanged, SendEnable, SendCheck, SendWake, SendRelease, RecvCall,
          TryRecvIf, RecvCancel, CloseAndDrain, RecvEnable, RecvCheck,
          NotifySpace, RecvWake, RecvRelease, CloseNotifyChanged,
          CloseNotifySpace, RGoto
      <4>2. changed \in NotifyType(Receiver)
        BY <1>1 DEF TypeBase
      <4>3. ASSUME changed' \in NotifyOne(changed)
            PROVE  FALSE
        <5>1. \/ /\ \A w \in Receiver : changed.got[w] # "waiting"
                 /\ changed'.got = changed.got
              \/ \E w \in Receiver :
                    /\ changed.got[w] = "waiting"
                    /\ changed'.got = [changed.got EXCEPT ![w] = "one"]
          BY <4>2, <4>3, NotifyOneGot
        <5>2. QED
          BY <5>1, <4>2 DEF NotifyType, Receiver
      <4>4. changed' # NotifyWaiters(changed) /\ changed' # Complete(changed, "rx")
        BY <4>2 DEF NotifyType, Receiver, NotifyWaiters, Complete, SetFuture
      <4>5. QED
        BY <4>1, <4>3, <4>4
    <3>2. (items = <<>> /\ ~Disconnected) \/ Coming
      BY <1>1, <2>2, <3>1 DEF NoStrandedReceiver
    <3>3. \A s \in Senders : ~NotifyChanged(s) /\ ~DropSenderNotify(s)
      <4>1. changed \in [permit : {0, 1}, got : [{"rx"} -> FutureStates]]
        BY <1>1 DEF TypeBase, NotifyType, Receiver
      <4>2. changed.got["rx"] = "waiting" /\ Waiting(changed) # {}
        BY <3>1, <4>1 DEF Waiting
      <4>3. changed \notin NotifyOne(changed)
        <5>1. \A w \in Waiting(changed) : changed # SetFuture(changed, w, "one")
          BY <4>1 DEF Waiting, SetFuture
        <5>2. QED
          BY <5>1, <4>2 DEF NotifyOne
      <4>4. changed # NotifyWaiters(changed)
        BY <4>1, <4>2 DEF NotifyWaiters
      <4>5. QED
        BY <3>1, <4>3, <4>4 DEF NotifyChanged, DropSenderNotify
    <3>4. CASE Coming
      <4>1. Coming'
        BY <1>1, <1>3, <3>3, <3>4
        DEF Next, SenderCalls, SenderSteps, ReceiverCalls, ReceiverSteps, Clone,
          DropSender, TrySendRefused, TrySendNewest, TrySendOldest, SendCall,
          SendCancel, WalkEvictable, WalkProtected, WalkEnd,
          SendEnable, SendCheck, SendWake, SendRelease, RecvCall,
          TryRecvIf, RecvCancel, CloseAndDrain, RecvEnable, RecvCheck,
          NotifySpace, RecvWake, RecvRelease, CloseNotifyChanged,
          CloseNotifySpace, Goto, TypeBase
      <4>2. QED
        BY <4>1
    <3>5. CASE items = <<>> /\ ~Disconnected
      <4>1. ASSUME NEW s \in Senders, WalkEnd(s)
            PROVE  Coming'
        <5>1. sp' = [sp EXCEPT ![s] = "notify"]
          BY <4>1, WalkEndPushes
        <5>2. QED
          BY <1>1, <5>1 DEF TypeBase
      <4> DEFINE Harmless ==
            /\ items' = items /\ receiver_open' = receiver_open
            /\ \/ senders' = senders \/ senders' = senders + 1
               \/ senders' = senders - 1 /\ senders # 1
      <4>2. ASSUME NEW s \in Senders, NEW b \in Sizes, TrySendNewest(s, b)
            PROVE  Coming' \/ Harmless
        BY <1>1, <4>2 DEF TrySendNewest, Goto, TypeBase, state
      <4>3. ASSUME NEW s \in Senders, SendCheck(s)
            PROVE  Coming' \/ Harmless
        BY <1>1, <4>3 DEF SendCheck, Goto, TypeBase, state
      <4>4. ASSUME NEW s \in Senders, DropSender(s)
            PROVE  Coming' \/ Harmless
        BY <1>1, <4>4 DEF DropSender, Goto, TypeBase, state
      <4> HIDE DEF Coming
      <4>5. Coming' \/ Harmless
        BY <1>3, <2>2, <3>5, <4>1, <4>2, <4>3, <4>4
        DEF Next, SenderCalls, SenderSteps, ReceiverCalls, ReceiverSteps, Clone,
          TrySendRefused, TrySendOldest, SendCall, SendCancel, DropSenderNotify,
          WalkEvictable, WalkProtected, NotifyChanged, SendEnable, SendWake,
          SendRelease, RecvCall, TryRecvIf, RecvCancel, CloseAndDrain,
          RecvEnable, RecvCheck, NotifySpace, RecvWake, RecvRelease,
          CloseNotifyChanged, CloseNotifySpace, RGoto, state
      <4>6. QED
        BY <1>1, <3>5, <4>5 DEF Disconnected
    <3>6. QED
      BY <3>2, <3>4, <3>5
  <2>3. QED
    BY <2>1, <2>2
<1>4. QED
  BY <1>2, <1>3

\* A notify_one that finds a waiter leaves a woken one behind.
LEMMA NotifyOneWakes ==
    ASSUME NEW W, NEW n \in NotifyType(W), NEW m \in NotifyOne(n),
           NEW s \in W, n.got[s] = "waiting"
    PROVE  \E w \in W : m.got[w] = "one"
<1>1. \E w \in W : m.got = [n.got EXCEPT ![w] = "one"]
  BY NotifyOneGot
<1>2. n.got \in [W -> FutureStates]
  BY DEF NotifyType
<1>3. QED
  BY <1>1, <1>2

\* No waiting sender is left behind.
LEMMA SenderKeeps == IInv /\ [Next]_vars => NoStrandedSender'
<1> SUFFICES ASSUME IInv, [Next]_vars, NEW s \in Senders,
                    sp'[s] = "parked", space'.got[s] = "waiting", items' = <<>>
             PROVE  SpaceWakeComing'
  BY DEF NoStrandedSender
<1>1. TypeBase /\ QueueInv /\ WalkInv /\ ClosedInv /\ NoStrandedSender
  BY DEF IInv
<1>2. CASE UNCHANGED vars
  BY <1>1, <1>2 DEF vars, NoStrandedSender, SpaceWakeComing
<1>3. CASE Next /\ items # <<>>
  <2>1. rp' \in {"took", "popped", "closing"}
    <3>1. ASSUME NEW t \in Senders, WalkEnd(t)
          PROVE  FALSE
      <4>1. \E q \in Seq(Item) : items' = Append(q, NewItem(size[t]))
        <5>1. items \in Seq(Item) /\ Len(items) \in Nat
          BY <1>1 DEF QueueInv, QueueOK, QueueType
        <5>2. Len(items) - walk.items \in 0..Len(items)
          BY <3>1, WalkEndPushes
        <5>3. SubSeq(items, (Len(items) - walk.items) + 1, Len(items)) \in Seq(Item)
          BY <5>1, <5>2
        <5>4. QED
          BY <5>3, <3>1, WalkEndPushes DEF Push
      <4>2. QED
        BY <4>1
    <3>2. ASSUME PushStep
          PROVE  FALSE
      <4>1. items \in Seq(Item)
        BY <1>1 DEF QueueInv, QueueOK, QueueType
      <4>2. PICK b \in Nat : items' = Append(items, NewItem(b))
        BY <3>2 DEF PushStep, Push
      <4>3. Len(Append(items, NewItem(b))) = Len(items) + 1 /\ Len(items) \in Nat
        BY <4>1
      <4>4. QED
        BY <4>2, <4>3
    <3>3. CASE CloseAndDrain
      BY <3>3 DEF CloseAndDrain, RGoto
    <3>4. CASE PopStep
      BY <3>4 DEF PopStep
    <3>5. QED
      BY <1>1, <1>3, <3>1, <3>2, <3>3, <3>4, QueueSteps
  <2>2. QED
    BY <2>1 DEF SpaceWakeComing
<1>4. CASE Next /\ items = <<>>
  <2>1. \A t \in Senders :
           sp[t] \in {"start", "enabled", "parked"} => Fits(Len(items), bytes, size[t])
    BY <1>1, <1>4, EmptyFits DEF WalkInv, TypeBase
  <2>2. space.got[s] = "waiting"
    BY <1>1, <1>4, SpaceMoves
  <2>3. sp[s] = "parked"
    BY <1>1, <1>4, <2>1
    DEF Next, SenderCalls, SenderSteps, ReceiverCalls, ReceiverSteps, Clone,
      DropSender, TrySendRefused, TrySendNewest, TrySendOldest, SendCall,
      SendCancel, DropSenderNotify, WalkEvictable, WalkProtected, WalkEnd,
      NotifyChanged, SendEnable, SendCheck, SendWake, SendRelease, RecvCall,
      TryRecvIf, RecvCancel, CloseAndDrain, RecvEnable, RecvCheck, NotifySpace,
      RecvWake, RecvRelease, CloseNotifyChanged, CloseNotifySpace, Goto, TypeBase
  <2>4. SpaceWakeComing
    BY <1>1, <1>4, <2>2, <2>3 DEF NoStrandedSender
  <2>5. CASE NotifySpace
    BY <1>1, <2>2, <2>5, NotifyOneWakes
    DEF NotifySpace, SpaceWakeComing, TypeBase
  <2>6. ASSUME NEW t \in Senders, SendRelease(t), space.got[t] = "one"
        PROVE  SpaceWakeComing'
    <3> DEFINE n == SetFuture(space, t, "none")
    <3>1. space \in [permit : {0, 1}, got : [Senders -> FutureStates]]
      BY <1>1 DEF TypeBase, NotifyType
    <3>2. n \in NotifyType(Senders) /\ n.got[s] = "waiting"
      BY <2>2, <2>6, <3>1 DEF SetFuture, NotifyType, FutureStates
    <3>3. space' \in NotifyOne(n)
      BY <2>6 DEF SendRelease, Release
    <3> HIDE DEF n
    <3>4. \E w \in Senders : space'.got[w] = "one"
      BY <3>2, <3>3, NotifyOneWakes
    <3>5. QED
      BY <3>4 DEF SpaceWakeComing
  <2>7. ~CloseNotifySpace
    BY <1>1 DEF CloseNotifySpace, NotifyWaiters, TypeBase, NotifyType
  <2>8. CASE rp \in {"took", "popped", "closing", "waking"} /\ ~NotifySpace
    <3>1. rp' \in {"took", "popped", "closing", "waking"}
      BY <1>4, <2>7, <2>8
      DEF Next, SenderCalls, SenderSteps, ReceiverCalls, ReceiverSteps, Clone,
        DropSender, TrySendRefused, TrySendNewest, TrySendOldest, SendCall,
        SendCancel, DropSenderNotify, WalkEvictable, WalkProtected, WalkEnd,
        NotifyChanged, SendEnable, SendCheck, SendWake, SendRelease, RecvCall,
        TryRecvIf, RecvCancel, CloseAndDrain, RecvEnable, RecvCheck,
        RecvWake, RecvRelease, CloseNotifyChanged, RGoto
    <3>2. QED
      BY <3>1 DEF SpaceWakeComing
  <2>9. ASSUME NEW t \in Senders, sp[t] \in {"start", "enabled"}
        PROVE  SpaceWakeComing'
    <3>1. CASE SendCheck(t) /\ receiver_open
      <4>1. PICK b \in Nat : items' = Append(items, NewItem(b)) /\ items \in Seq(Item)
        BY <1>1, <2>1, <2>9, <3>1
        DEF SendCheck, Push, TypeBase, QueueInv, QueueOK, QueueType
      <4>2. Len(Append(items, NewItem(b))) = Len(items) + 1 /\ Len(items) \in Nat
        BY <4>1
      <4>3. QED
        BY <4>1, <4>2
    <3>2. CASE SendCheck(t) /\ ~receiver_open
      <4>1. rp \in {"closing", "waking"} /\ rp' = rp
        BY <1>1, <2>2, <2>3, <3>2 DEF ClosedInv, SendCheck
      <4>2. QED
        BY <4>1 DEF SpaceWakeComing
    <3>3. CASE ~SendCheck(t)
      <4>1. sp'[t] \in {"start", "enabled"}
        BY <1>1, <1>4, <2>9, <3>3
        DEF Next, SenderCalls, SenderSteps, ReceiverCalls, ReceiverSteps, Clone,
          DropSender, TrySendRefused, TrySendNewest, TrySendOldest, SendCall,
          SendCancel, DropSenderNotify, WalkEvictable, WalkProtected, WalkEnd,
          NotifyChanged, SendEnable, SendCheck, SendWake, SendRelease, RecvCall,
          TryRecvIf, RecvCancel, CloseAndDrain, RecvEnable, RecvCheck,
          NotifySpace, RecvWake, RecvRelease, CloseNotifyChanged,
          CloseNotifySpace, Goto, TypeBase
      <4>2. QED
        BY <4>1 DEF SpaceWakeComing
    <3>4. QED
      BY <3>1, <3>2, <3>3
  <2>10. ASSUME NEW t \in Senders, space.got[t] = "one"
         PROVE  SpaceWakeComing'
    BY <1>1, <1>4, <2>6, <2>10, SpaceMoves DEF SpaceWakeComing
  <2>11. QED
    BY <2>4, <2>5, <2>8, <2>9, <2>10 DEF SpaceWakeComing
<1>5. QED
  BY <1>2, <1>3, <1>4

-----------------------------------------------------------------------------
(* The theorems.                                                           *)

\* lossy_channel establishes the invariant.
LEMMA InitHolds == Init => IInv
<1> SUFFICES ASSUME Init
             PROVE  IInv
  OBVIOUS
<1> USE DEF Init
<1>1. TypeBase
  <2>1. changed \in NotifyType(Receiver) /\ space \in NotifyType(Senders)
    BY DEF NotifyType, NewNotify, FutureStates
  <2>2. sp \in [Senders -> SenderStates] /\ size \in [Senders -> Nat]
    BY DEF SenderStates
  <2>3. walk \in [items: Int, bytes: Int] /\ rp \in ReceiverStates
    BY DEF NoWalk, ReceiverStates
  <2>4. senders \in Int /\ policy \in Policies /\ calls \in Nat
    OBVIOUS
  <2>5. receiver_open \in BOOLEAN /\ eof \in BOOLEAN /\ lock \in Senders \cup {Free}
    OBVIOUS
  <2>6. QED
    BY ONLY <2>1, <2>2, <2>3, <2>4, <2>5 DEF TypeBase
<1>2. QueueInv
  <2>1. QueueType(items, bytes, accepted, total, left)
    BY DEF QueueType
  <2>2. Accounting(items, bytes, total)
    BY DEF Accounting
  <2>3. Stretched(items) /\ Limited(items, bytes) /\ InOrder(items, accepted, left)
    BY QueueAssumption DEF Stretched, Limited, InOrder
  <2>4. QED
    BY <2>1, <2>2, <2>3 DEF QueueInv, QueueOK
<1>3. WalkInv
  BY QueueAssumption DEF WalkInv
<1>4. SendersInv
  <2>1. Live = {FirstSender}
    BY QueueAssumption DEF Live
  <2>2. QED
    BY <2>1, FS_Singleton DEF SendersInv
<1>5. ClosedInv /\ NoStrandedReceiver /\ NoStrandedSender /\ EndIsFinal
  BY DEF ClosedInv, NoStrandedReceiver, NoStrandedSender, EndIsFinal
<1>6. QED
  BY <1>1, <1>2, <1>3, <1>4, <1>5 DEF IInv

\* Every step keeps the invariant.
LEMMA NextKeeps == IInv /\ [Next]_vars => IInv'
BY TypeKeeps, QueueKeeps, WalkKeeps, SendersKeeps, ClosedKeeps, ReceiverKeeps,
   SenderKeeps, EndKeeps
DEF IInv

\* The inductive invariant holds in every reachable state.
THEOREM Invariance == Spec => []IInv
BY InitHolds, NextKeeps, PTL DEF Spec

\* The invariant implies the types the code declares: no usize underflows.
LEMMA TypesFollow == IInv => TypeOK
<1> SUFFICES ASSUME IInv
             PROVE  TypeOK
  OBVIOUS
<1>1. /\ items \in Seq(Item) /\ accepted \in Nat /\ total \in Nat
      /\ left \in Seq(Nat) /\ bytes \in Int /\ Len(items) \in Nat
  BY DEF IInv, QueueInv, QueueOK, QueueType
<1>2. \A k \in 0..Len(items) : WeightAfter(items, k) \in Nat
  <2> SUFFICES ASSUME NEW k \in 0..Len(items), k # Len(items)
               PROVE  WeightAfter(items, k) \in Nat
    BY DEF WeightAfter
  <2>1. /\ k + 1 \in 1..Len(items) /\ Len(items) \in 1..Len(items)
        /\ \A i \in 1..Len(items) : items[i].bytes \in Nat /\ items[i].end \in Nat
    BY <1>1, ItemFields
  <2>2. items[k + 1].end <= items[Len(items)].end
    <3>1. QueueOK(items, bytes, accepted, total, left) /\ items # <<>>
      BY <1>1, <2>1 DEF IInv, QueueInv
    <3>2. items[k + 1].end <= total
      BY <2>1, <3>1, EndsBounded
    <3>3. items[Len(items)].end = total
      BY <3>1 DEF QueueOK, Accounting
    <3>4. QED
      BY <3>2, <3>3
  <2>3. WeightAfter(items, k)
          = items[Len(items)].end - items[k + 1].end + items[k + 1].bytes
    BY DEF WeightAfter
  <2>4. \A a, b, c \in Nat : b <= a => a - b + c \in Nat
    OBVIOUS
  <2>5. QED
    BY <2>1, <2>2, <2>3, <2>4
<1>3. bytes \in Nat
  <2>1. bytes = WeightAfter(items, 0)
    BY FullWeight DEF IInv, QueueInv
  <2>2. QED
    BY <2>1, <1>1, <1>2
<1>4. walk \in [items: Nat, bytes: Nat]
  <2>1. TypeBase /\ WalkInv
    BY DEF IInv
  <2>2. CASE lock = Free
    BY <2>1, <2>2 DEF WalkInv, NoWalk
  <2>3. CASE lock # Free
    <3>1. /\ walk.items \in 0..Len(items)
          /\ walk.bytes = WeightAfter(items, Len(items) - walk.items)
          /\ walk \in [items: Int, bytes: Int]
      BY <2>1, <2>3 DEF WalkInv, TypeBase
    <3>2. Len(items) - walk.items \in 0..Len(items)
      BY <1>1, <3>1
    <3>3. walk.items \in Nat /\ walk.bytes \in Nat
      BY <1>1, <1>2, <3>1, <3>2
    <3>4. QED
      BY <3>1, <3>3
  <2>4. QED
    BY <2>2, <2>3
<1>5. senders \in Nat
  BY LiveCount DEF IInv
<1>6. QED
  BY <1>1, <1>3, <1>4, <1>5 DEF IInv, TypeBase, TypeOK

\* State.bytes, State.senders and the walk's counters never go below zero,
\* although try_recv_if, Drop and the walk subtract unchecked.
THEOREM TypeCorrect == Spec => []TypeOK
BY Invariance, TypesFollow, PTL

\* The item and byte limits of try_send_where and send hold always.
THEOREM Bounded == Spec => []WithinLimits
<1>1. IInv => WithinLimits
  BY DEF IInv, QueueInv, QueueOK, Limited, WithinLimits
<1>2. QED
  BY <1>1, Invariance, PTL

\* State.bytes is always the weight of the queued items.
THEOREM BytesAccounted == Spec => []ByteAccounting
<1>1. IInv => ByteAccounting
  BY DEF IInv, QueueInv, QueueOK, Accounting, ByteAccounting
<1>2. QED
  BY <1>1, Invariance, PTL

\* Received, evicted and drained items leave in acceptance order, once each.
THEOREM LeavesInOrder == Spec => []FifoOrder
<1>1. IInv => FifoOrder
  BY DEF IInv, QueueInv, QueueOK, InOrder, FifoOrder
<1>2. QED
  BY <1>1, Invariance, PTL

\* recv never sleeps on an item or an end that nobody will announce.
THEOREM ReceiverNotStranded == Spec => []NoStrandedReceiver
<1>1. IInv => NoStrandedReceiver
  BY DEF IInv
<1>2. QED
  BY <1>1, Invariance, PTL

\* send never sleeps while the queue is empty or closed without a wake-up on
\* its way.
THEOREM SenderNotStranded == Spec => []NoStrandedSender
<1>1. IInv => NoStrandedSender
  BY DEF IInv
<1>2. QED
  BY <1>1, Invariance, PTL

\* Disconnected is reported only when nothing can follow.
THEOREM EndStays == Spec => []EndIsFinal
<1>1. IInv => EndIsFinal
  BY DEF IInv
<1>2. QED
  BY <1>1, Invariance, PTL

\* A refused send evicts nothing: what leaves without being received or
\* drained leaves in the step that admits a newer item.
THEOREM EvictsOnlyToAdmit == Spec => EvictOnlyToAdmit
<1> DEFINE A == (receiver_open' /\ rp' = rp /\ left' # left) => accepted' = accepted + 1
<1>1. IInv /\ [Next]_vars => [A]_vars
  <2> SUFFICES ASSUME IInv, Next, receiver_open', rp' = rp, left' # left
               PROVE  accepted' = accepted + 1
    OBVIOUS
  <2>1. \E s \in Senders : WalkEnd(s)
    BY DEF Next, SenderCalls, SenderSteps, ReceiverCalls, ReceiverSteps, Clone,
      DropSender, TrySendRefused, TrySendNewest, TrySendOldest, SendCall,
      SendCancel, DropSenderNotify, WalkEvictable, WalkProtected,
      NotifyChanged, SendEnable, SendCheck, SendWake, SendRelease, RecvCall,
      TryRecvIf, RecvCancel, CloseAndDrain, RecvEnable, RecvCheck, NotifySpace,
      RecvWake, RecvRelease, CloseNotifyChanged, CloseNotifySpace, RGoto, history
  <2>2. QED
    BY <2>1, WalkEndPushes DEF Push
<1>2. QED
  BY <1>1, Invariance, PTL DEF Spec, EvictOnlyToAdmit

-----------------------------------------------------------------------------
(* The queue is an AtomicQueue.                                            *)

\* The walk has passed only items without which there still was no room, and
\* what is being sent is one of the weights that callers submit.
EvictInv ==
    /\ \A s \in Senders :
          sp[s] \in {"walking", "start", "enabled", "parked"} => size[s] \in Sizes
    /\ lock # Free =>
          /\ policy = "DropOldest"
          /\ \A j \in 0..Len(items) - walk.items - 1 :
                ~Fits(Len(items) - j, WeightAfter(items, j), size[lock])

\* A walk goes on only past an item without which there is still no room.
LEMMA EvictKeeps == IInv /\ EvictInv /\ [Next]_vars => EvictInv'
<1> SUFFICES ASSUME IInv, EvictInv, [Next]_vars
             PROVE  EvictInv'
  OBVIOUS
<1>1. TypeBase /\ QueueInv /\ WalkInv
  BY DEF IInv
<1> DEFINE Passed == /\ policy = "DropOldest"
                      /\ \A j \in 0..Len(items) - walk.items - 1 :
                            ~Fits(Len(items) - j, WeightAfter(items, j), size[lock])
<1>2. ASSUME lock' = lock, UNCHANGED <<walk, items, policy>>, size'[lock] = size[lock], lock' # Free
      PROVE  Passed'
  BY <1>2 DEF EvictInv, WeightAfter, Fits
<1>3. ASSUME NEW s \in Senders, NEW b \in Sizes, TrySendOldest(s, b)
      PROVE  Passed'
  <2>1. Len(items) \in Nat /\ Len(items) - Len(items) - 1 = -1
    BY <1>1 DEF QueueInv, QueueOK, QueueType
  <2>2. walk'.items = Len(items) /\ UNCHANGED items /\ policy' = "DropOldest"
    BY <1>3 DEF TrySendOldest, state
  <2>3. Len(items') - walk'.items - 1 = -1
    BY <2>1, <2>2
  <2>4. QED
    BY <2>2, <2>3
<1>4. ASSUME NEW s \in Senders, WalkEvictable(s)
      PROVE  Passed'
  <2> DEFINE k == Len(items) - walk.items
             n == Len(items)
  <2>1. /\ k \in Nat /\ k < n /\ n \in Nat /\ walk.items \in Nat
        /\ walk.bytes = WeightAfter(items, k)
    BY <1>1, <1>4, WalkTypes
  <2>2. /\ sp[s] = "walking" /\ walk'.items = walk.items - 1
        /\ UNCHANGED <<items, policy, lock, size>>
        /\ ~Fits(walk.items, walk.bytes, size[s])
    BY <1>4 DEF WalkEvictable, WalkOver, state
  <2>3. lock = s /\ lock # Free
    BY <1>1, <2>2, QueueAssumption DEF WalkInv
  <2>4. n - k = walk.items /\ n - walk'.items - 1 = k
    BY <2>1, <2>2
  <2>5. policy = "DropOldest" /\ \A j \in 0..k - 1 : ~Fits(n - j, WeightAfter(items, j), size[s])
    BY <2>3 DEF EvictInv
  <2>6. ~Fits(n - k, WeightAfter(items, k), size[s])
    BY <2>1, <2>2, <2>4
  <2> HIDE DEF k, n
  <2>7. \A j \in 0..k : j = k \/ j \in 0..k - 1
    BY <2>1
  <2>8. \A j \in 0..k : ~Fits(n - j, WeightAfter(items, j), size[s])
    BY <2>5, <2>6, <2>7
  <2>9. QED
    BY <2>2, <2>3, <2>4, <2>5, <2>8 DEF n, WeightAfter, Fits
<1> HIDE DEF Passed
<1>5. CASE UNCHANGED vars
  BY <1>5 DEF vars, EvictInv, WeightAfter, Fits
<1>6. CASE Next
  <2> USE <1>6 DEF Next, SenderCalls, SenderSteps, ReceiverCalls, ReceiverSteps,
      Clone, DropSender, TrySendRefused, TrySendNewest, TrySendOldest, SendCall,
      SendCancel, DropSenderNotify, WalkEvictable, WalkProtected, WalkEnd,
      NotifyChanged, SendEnable, SendCheck, SendWake, SendRelease, RecvCall,
      TryRecvIf, RecvCancel, CloseAndDrain, RecvEnable, RecvCheck,
      NotifySpace, RecvWake, RecvRelease, CloseNotifyChanged, CloseNotifySpace,
      state, history, Goto
  <2>1. \A s \in Senders :
          sp'[s] \in {"walking", "start", "enabled", "parked"} => size'[s] \in Sizes
    BY <1>1 DEF TypeBase, EvictInv, Forget
  <2>2. \/ lock' = Free
        \/ lock' = lock /\ UNCHANGED <<walk, items, policy>> /\ size'[lock] = size[lock]
        \/ \E s \in Senders, b \in Sizes : TrySendOldest(s, b)
        \/ \E s \in Senders : WalkEvictable(s)
    BY <1>1 DEF TypeBase, WalkInv, Forget
  <2>3. lock' # Free => Passed'
    BY ONLY <1>2, <1>3, <1>4, <2>2
  <2>4. QED
    BY ONLY <2>1, <2>3 DEF EvictInv, Passed
<1>7. QED
  BY <1>5, <1>6

\* AtomicQueue's room is what the code compares.
LEMMA RoomFits ==
    ASSUME QueueInv, NEW k \in 0..Len(items), NEW b \in Nat
    PROVE  Atomic!Room(k, b) <=> Fits(Len(items) - k, WeightAfter(items, k), b)
<1>1. Atomic!Weight(k) = WeightAfter(items, k)
  BY DEF Atomic!Weight, WeightAfter
<1>2. WeightAfter(items, k) \in Int
  <2>1. /\ Len(items) \in Nat
        /\ \A i \in 1..Len(items) : items[i].bytes \in Nat /\ items[i].end \in Nat
    BY ItemFields DEF QueueInv, QueueOK, QueueType
  <2>2. CASE k = Len(items)
    BY <2>2 DEF WeightAfter
  <2>3. CASE k # Len(items)
    <3>1. k + 1 \in 1..Len(items) /\ Len(items) \in 1..Len(items)
      BY <2>1, <2>3
    <3>2. QED
      BY <2>1, <2>3, <3>1 DEF WeightAfter
  <2>4. QED
    BY <2>2, <2>3
<1>3. \A w \in Int : w + b <= MaxBytes <=> w <= MaxBytes - b
  BY QueueAssumption
<1>4. QED
  BY <1>1, <1>2, <1>3 DEF Atomic!Room, Fits

\* A push with room in an open queue, by a live handle, in AtomicQueue.
LEMMA PushIsAtomic ==
    ASSUME IInv, NEW s \in Senders, s \in Live, NEW b \in Sizes, receiver_open,
           Fits(Len(items), bytes, b), Push(items, bytes, b),
           UNCHANGED <<senders, receiver_open, policy, rp, eof>>
    PROVE  Atomic!Next
<1>1. QueueInv /\ Len(items) \in Nat /\ items \in Seq(Item)
  BY DEF IInv, QueueInv, QueueOK, QueueType
<1>2. senders > 0
  BY LiveCount DEF IInv
<1>3. b \in Nat /\ 0 \in 0..Len(items) /\ Len(items) - 0 = Len(items) /\ 0 + 1 = 1
  BY <1>1, QueueAssumption
<1>4. Atomic!Room(0, b)
  <2>1. bytes = WeightAfter(items, 0)
    BY <1>1, FullWeight DEF QueueInv
  <2>2. QED
    BY <1>1, <1>3, <2>1, RoomFits
<1>5. SubSeq(items, 0 + 1, Len(items)) = items
  BY <1>1, <1>3
<1>6. items' = Append(items, [id |-> accepted + 1, bytes |-> b, end |-> total + b])
      /\ accepted' = accepted + 1 /\ total' = total + b
  BY DEF Push, NewItem
<1>7. \A j \in 0..0 - 1 : policy = "DropOldest" /\ ~Atomic!Room(j, b)
  OBVIOUS
<1>8. Atomic!Push(b, 0)
  BY <1>2, <1>4, <1>5, <1>6, <1>7 DEF Atomic!Push
<1>9. QED
  BY <1>3, <1>8 DEF Atomic!Next

\* The end of a walk is a push that evicts what was walked over.
LEMMA WalkIsAtomic ==
    ASSUME IInv, EvictInv, NEW s \in Senders, WalkEnd(s)
    PROVE  Atomic!Next
<1> DEFINE k == Len(items) - walk.items
           kept == SubSeq(items, k + 1, Len(items))
           b == size[s]
<1>1. /\ k \in 0..Len(items) /\ Len(kept) = walk.items
      /\ walk.bytes = WeightAfter(items, k)
      /\ Fits(Len(kept), walk.bytes, b)
      /\ Push(kept, walk.bytes, b)
  BY WalkEndPushes
<1>2. /\ QueueInv /\ Len(items) \in Nat /\ walk.items \in Int
  BY DEF IInv, QueueInv, QueueOK, QueueType, TypeBase
<1>3. sp[s] = "walking" /\ UNCHANGED <<senders, receiver_open, policy, rp, eof>>
  BY DEF WalkEnd
<1>4. lock = s /\ lock # Free /\ receiver_open /\ b \in Sizes /\ s \in Live
  BY <1>3, QueueAssumption DEF IInv, WalkInv, EvictInv, Live
<1>5. senders > 0
  BY <1>4, LiveCount DEF IInv
<1>6. b \in Nat
  BY <1>4, QueueAssumption
<1>7. Len(items) - k = walk.items
  BY <1>2
<1>8. Atomic!Room(k, b)
  BY <1>1, <1>2, <1>6, <1>7, RoomFits
<1>9. policy = "DropOldest" /\ \A j \in 0..k - 1 : ~Fits(Len(items) - j, WeightAfter(items, j), b)
  BY <1>4 DEF EvictInv
<1>10. items' = Append(kept, [id |-> accepted + 1, bytes |-> b, end |-> total + b])
       /\ accepted' = accepted + 1 /\ total' = total + b
  BY <1>1 DEF Push, NewItem
<1> HIDE DEF k, b
<1>11. \A j \in 0..k - 1 : j \in 0..Len(items)
  BY <1>1, <1>2
<1>12. \A j \in 0..k - 1 : policy = "DropOldest" /\ ~Atomic!Room(j, b)
  BY <1>2, <1>6, <1>9, <1>11, RoomFits
<1>13. Atomic!Push(b, k)
  BY <1>3, <1>4, <1>5, <1>8, <1>10, <1>12 DEF Atomic!Push
<1>14. QED
  BY <1>1, <1>4, <1>13 DEF Atomic!Next

\* A critical section is a step of AtomicQueue, everything else none.
LEMMA AtomicSteps ==
    ASSUME IInv, EvictInv, [Next]_vars
    PROVE  Atomic!Next \/ UNCHANGED Atomic!vars
<1>1. TypeBase /\ WalkInv
  BY DEF IInv
<1> USE DEF state, history
<1>2. ASSUME NEW s \in Senders, NEW t \in Senders, Clone(s, t)
      PROVE  Atomic!Next
  <2>1. s \in Live /\ senders' = senders + 1
        /\ UNCHANGED <<items, receiver_open, policy, rp, eof, accepted, total>>
    BY <1>2 DEF Clone, Live
  <2>2. senders > 0
    BY <2>1, LiveCount DEF IInv
  <2>3. Atomic!Handle
    BY <2>1, <2>2 DEF Atomic!Handle
  <2>4. QED
    BY <2>3 DEF Atomic!Next
<1>3. ASSUME NEW s \in Senders, DropSender(s)
      PROVE  Atomic!Next
  <2>1. s \in Live /\ senders' = senders - 1
        /\ UNCHANGED <<items, receiver_open, policy, rp, eof, accepted, total>>
    BY <1>3 DEF DropSender, Live, Goto
  <2>2. senders > 0
    BY <2>1, LiveCount DEF IInv
  <2>3. Atomic!Handle
    BY <2>1, <2>2 DEF Atomic!Handle
  <2>4. QED
    BY <2>3 DEF Atomic!Next
<1>4. ASSUME NEW s \in Senders, NEW b \in Sizes, TrySendNewest(s, b)
      PROVE  Atomic!Next \/ UNCHANGED Atomic!vars
  <2>1. UNCHANGED <<senders, receiver_open, policy, rp, eof>> /\ receiver_open /\ sp[s] = "idle"
    BY <1>4 DEF TrySendNewest, Goto
  <2>2. CASE Fits(Len(items), bytes, b)
    <3>1. Push(items, bytes, b) /\ s \in Live
      BY <1>4, <2>1, <2>2 DEF TrySendNewest, Live
    <3>2. QED
      BY <2>1, <2>2, <3>1, PushIsAtomic
  <2>3. CASE ~Fits(Len(items), bytes, b)
    <3>1. UNCHANGED <<items, accepted, total>>
      BY <1>4, <2>3 DEF TrySendNewest
    <3>2. QED
      BY <2>1, <3>1 DEF Atomic!vars
  <2>4. QED
    BY <2>2, <2>3
<1>5. ASSUME NEW s \in Senders, SendCheck(s)
      PROVE  Atomic!Next \/ UNCHANGED Atomic!vars
  <2>1. UNCHANGED <<senders, receiver_open, policy, rp, eof>> /\ sp[s] = "enabled"
    BY <1>5 DEF SendCheck, Goto
  <2>2. size[s] \in Sizes /\ s \in Live
    BY <2>1 DEF EvictInv, Live
  <2>3. CASE receiver_open /\ Fits(Len(items), bytes, size[s])
    <3>1. Push(items, bytes, size[s])
      BY <1>5, <2>3 DEF SendCheck
    <3>2. QED
      BY <2>1, <2>2, <2>3, <3>1, PushIsAtomic
  <2>4. CASE ~(receiver_open /\ Fits(Len(items), bytes, size[s]))
    <3>1. UNCHANGED <<items, accepted, total>>
      BY <1>5, <2>4 DEF SendCheck
    <3>2. QED
      BY <2>1, <3>1 DEF Atomic!vars
  <2>5. QED
    BY <2>3, <2>4
<1>6. ASSUME NEW s \in Senders, WalkEnd(s)
      PROVE  Atomic!Next
  BY <1>6, WalkIsAtomic
<1>7. ASSUME RecvCheck \/ TryRecvIf
      PROVE  Atomic!Next \/ UNCHANGED Atomic!vars
  <2>1. /\ rp \in {"enabled", "idle"} /\ UNCHANGED <<senders, receiver_open, policy, accepted, total>>
        /\ \/ rp' \in {"took", "popped"} /\ items # <<>> /\ items' = Tail(items) /\ UNCHANGED eof
           \/ rp' \in {"release", "idle"} /\ Disconnected /\ eof' = TRUE /\ UNCHANGED items
           \/ rp' = "parked" /\ UNCHANGED <<eof, items>>
    BY <1>7 DEF RecvCheck, TryRecvIf, RGoto, Pop
  <2>2. ~(rp \in {"took", "popped"})
    BY <2>1
  <2>3. CASE rp' \in {"took", "popped"} /\ items # <<>> /\ items' = Tail(items) /\ UNCHANGED eof
    <3>1. Atomic!Take
      BY <2>1, <2>2, <2>3 DEF Atomic!Take
    <3>2. QED
      BY <3>1 DEF Atomic!Next
  <2>4. CASE rp' \in {"release", "idle"} /\ Disconnected /\ eof' = TRUE /\ UNCHANGED items
    <3>1. ~(rp' \in {"took", "popped"})
      BY <2>4
    <3>2. Atomic!ReportEnd
      BY <2>1, <2>2, <2>4, <3>1 DEF Atomic!ReportEnd, Disconnected
    <3>3. QED
      BY <3>2 DEF Atomic!Next
  <2>5. CASE rp' = "parked" /\ UNCHANGED <<eof, items>>
    <3>1. ~(rp' \in {"took", "popped"})
      BY <2>5
    <3>2. QED
      BY <2>1, <2>2, <2>5, <3>1 DEF Atomic!vars
  <2>6. QED
    BY <2>1, <2>3, <2>4, <2>5
<1>8. CASE NotifySpace
  <2>1. /\ rp \in {"took", "popped"} /\ ~(rp' \in {"took", "popped"})
        /\ UNCHANGED <<items, senders, receiver_open, policy, eof, accepted, total>>
    BY <1>8 DEF NotifySpace, RGoto
  <2>2. Atomic!Return
    BY <2>1 DEF Atomic!Return
  <2>3. QED
    BY <2>2 DEF Atomic!Next
<1>9. CASE CloseAndDrain
  <2>1. /\ ~(rp \in {"took", "popped"}) /\ ~(rp' \in {"took", "popped"})
        /\ receiver_open' = FALSE /\ items' = <<>>
        /\ UNCHANGED <<senders, policy, eof, accepted, total>>
    BY <1>9 DEF CloseAndDrain, RGoto
  <2>2. Atomic!Close
    BY <2>1 DEF Atomic!Close
  <2>3. QED
    BY <2>2 DEF Atomic!Next
<1>10. ASSUME UNCHANGED <<items, senders, receiver_open, policy, eof, accepted, total>>,
              rp' = rp \/ (rp \notin {"took", "popped"} /\ rp' \notin {"took", "popped"})
       PROVE  UNCHANGED Atomic!vars
  BY <1>10 DEF Atomic!vars
<1>11. ASSUME NEW s \in Senders,
              \/ \E b \in Sizes : TrySendRefused(s, b) \/ TrySendOldest(s, b) \/ SendCall(s, b)
              \/ SendCancel(s) \/ DropSenderNotify(s) \/ WalkEvictable(s) \/ WalkProtected(s)
              \/ NotifyChanged(s) \/ SendEnable(s) \/ SendWake(s) \/ SendRelease(s)
       PROVE  UNCHANGED Atomic!vars
  <2>1. UNCHANGED <<items, senders, receiver_open, policy, eof, accepted, total, rp>>
    BY <1>11 DEF TrySendRefused, TrySendOldest, SendCall, SendCancel, DropSenderNotify,
        WalkEvictable, WalkProtected, NotifyChanged, SendEnable, SendWake, SendRelease
  <2>2. QED
    BY <1>10, <2>1
<1>12. ASSUME \/ RecvCall \/ RecvCancel \/ RecvEnable \/ RecvWake \/ RecvRelease
              \/ CloseNotifyChanged \/ CloseNotifySpace
       PROVE  UNCHANGED Atomic!vars
  <2>1. /\ UNCHANGED <<items, senders, receiver_open, policy, eof, accepted, total>>
        /\ rp \notin {"took", "popped"} /\ rp' \notin {"took", "popped"}
    BY <1>12 DEF RecvCall, RecvCancel, RecvEnable, RecvWake, RecvRelease,
        CloseNotifyChanged, CloseNotifySpace, RGoto
  <2>2. QED
    BY <1>10, <2>1
<1>13. CASE UNCHANGED vars
  BY <1>10, <1>13 DEF vars
<1>14. QED
  BY <1>2, <1>3, <1>4, <1>5, <1>6, <1>7, <1>8, <1>9, <1>11, <1>12, <1>13
  DEF Next, SenderCalls, SenderSteps, ReceiverCalls, ReceiverSteps

\* The lossy queue implements AtomicQueue: whatever the handles and the
\* receiver do between its critical sections, callers see one queue whose
\* operations take effect at once, and a push evicts the least number of
\* oldest items that makes room for it.
THEOREM QueueKept == Spec => KeepsQueue
<1>1. Init => Atomic!Init
  <2>1. SUFFICES ASSUME Init
                 PROVE  Atomic!Init
    OBVIOUS
  <2>2. ~(rp \in {"took", "popped"})
    BY <2>1 DEF Init
  <2>3. QED
    BY <2>1, <2>2 DEF Init, Atomic!Init
<1>2. Init => EvictInv
  BY QueueAssumption DEF Init, EvictInv
<1>3. IInv /\ EvictInv /\ [Next]_vars => EvictInv'
  BY EvictKeeps
<1>4. IInv /\ EvictInv /\ [Next]_vars => [Atomic!Next]_(Atomic!vars)
  BY AtomicSteps
<1>5. QED
  BY <1>1, <1>2, <1>3, <1>4, Invariance, PTL DEF Spec, KeepsQueue, Atomic!Spec
=============================================================================
