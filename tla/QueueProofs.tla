---------------------------- MODULE QueueProofs ----------------------------
(***************************************************************************)
(* Proofs about Q<T>, for any number of threads, messages and usages.      *)
(*                                                                         *)
(* That a queue is first in, first out takes a condition on its callers: a *)
(* thread that drains (empty, front, pop, three calls) is the only one to  *)
(* take from the queue.  The three calls then act as one because what      *)
(* front() returned stays the head of the deque, which is the inductive    *)
(* invariant DrainerSeesHead.                                              *)
(***************************************************************************)
EXTENDS Queue, SequenceTheorems, TLAPS

USE DEF Free, PushBack, NotEmpty, Unlocked

\* A sequence and the first element of another one, which loses it: together they
\* are what they were (pop_front of a message that goes to the caller).
LEMMA PopKeepsAll ==
  ASSUME NEW S, NEW s \in Seq(S), NEW q \in Seq(S), q # <<>>
  PROVE  /\ Append(s, Head(q)) \o Tail(q) = s \o q
         /\ Append(s, Head(q)) \in Seq(S) /\ Tail(q) \in Seq(S) /\ Head(q) \in S
         /\ Range(Append(s, Head(q))) \cup Range(Tail(q)) = Range(s) \cup Range(q)
<1>1. /\ Head(q) \in S /\ Tail(q) \in Seq(S) /\ Len(Tail(q)) = Len(q) - 1
      /\ Len(q) \in Nat \ {0} /\ Len(s) \in Nat
      /\ \A i \in 1 .. Len(Tail(q)) : Tail(q)[i] = q[i + 1]
  BY HeadTailProperties, EmptySeq, LenProperties
<1>2. Append(s, Head(q)) \in Seq(S) /\ Len(Append(s, Head(q))) = Len(s) + 1
  BY <1>1, AppendProperties
<1>3. /\ Append(s, Head(q)) \o Tail(q) \in Seq(S)
      /\ s \o q \in Seq(S)
      /\ Len(Append(s, Head(q)) \o Tail(q)) = Len(s) + Len(q)
      /\ Len(s \o q) = Len(s) + Len(q)
  BY <1>1, <1>2, ConcatProperties
<1>4. ASSUME NEW i \in 1 .. Len(s) + Len(q)
      PROVE  (Append(s, Head(q)) \o Tail(q))[i] = (s \o q)[i]
  <2>1. (s \o q)[i] = IF i <= Len(s) THEN s[i] ELSE q[i - Len(s)]
    BY ConcatProperties
  <2>2. (Append(s, Head(q)) \o Tail(q))[i] =
          IF i <= Len(s) + 1 THEN Append(s, Head(q))[i] ELSE Tail(q)[i - (Len(s) + 1)]
    BY <1>1, <1>2, ConcatProperties
  <2>3. CASE i <= Len(s)
    BY <1>1, <2>1, <2>2, <2>3, AppendProperties
  <2>4. CASE i = Len(s) + 1
    BY <1>1, <2>1, <2>2, <2>4, AppendProperties
  <2>5. CASE i > Len(s) + 1
    BY <1>1, <2>1, <2>2, <2>5
  <2> QED  BY <1>1, <2>3, <2>4, <2>5
<1>5. Append(s, Head(q)) \o Tail(q) = s \o q
  BY <1>3, <1>4, SeqEqual
<1>6. Range(Append(s, Head(q)) \o Tail(q)) = Range(s \o q)
  BY <1>5
<1>7. Range(s \o q) = Range(s) \cup Range(q)
  BY RangeConcatenation
<1>8. Range(Append(s, Head(q)) \o Tail(q)) = Range(Append(s, Head(q))) \cup Range(Tail(q))
  BY <1>1, <1>2, RangeConcatenation, ZenonT(60)
<1> QED  BY <1>1, <1>2, <1>5, <1>6, <1>7, <1>8

\* An increasing sequence stays one when a greater number comes to its end, and so
\* does the beginning of one.
LEMMA IncreasingAppend ==
  ASSUME NEW s \in Seq(Nat), NEW m \in Nat, Increasing(s), \A i \in DOMAIN s : s[i] < m
  PROVE  Increasing(Append(s, m))
<1>1. /\ Len(s) \in Nat /\ DOMAIN s = 1 .. Len(s) /\ DOMAIN Append(s, m) = 1 .. Len(s) + 1
      /\ \A i \in 1 .. Len(s) : Append(s, m)[i] = s[i]
      /\ Append(s, m)[Len(s) + 1] = m
  BY AppendProperties, LenProperties
<1> QED  BY <1>1 DEF Increasing

\* The beginning of an increasing sequence is increasing.
LEMMA IncreasingBeginning ==
  ASSUME NEW s \in Seq(Nat), NEW q \in Seq(Nat), Increasing(s \o q)
  PROVE  Increasing(s)
<1>1. /\ Len(s) \in Nat /\ Len(q) \in Nat /\ DOMAIN s = 1 .. Len(s)
      /\ DOMAIN (s \o q) = 1 .. Len(s) + Len(q)
      /\ \A i \in 1 .. Len(s) : (s \o q)[i] = s[i]
  BY ConcatProperties, LenProperties
<1> DEFINE c == s \o q
<1>2. /\ DOMAIN s \subseteq DOMAIN c /\ \A i \in DOMAIN s : c[i] = s[i]
  BY <1>1
<1>3. Increasing(c)
  OBVIOUS
<1> HIDE DEF c
<1> QED  BY <1>2, <1>3 DEF Increasing

-----------------------------------------------------------------------------
(* Type correctness.                                                       *)

\* What front() returned is a message (unless it found none, and all ends).
ReadIsMessage == ~ undefined => \A t \in Threads : pc[t] = "read" => val[t] # 0

TypeInv == TypeOK /\ ReadIsMessage

\* Every queue is empty and nobody is in a call at first.
LEMMA InitTypeInv == Init => TypeInv
<1> SUFFICES ASSUME Init PROVE TypeInv
  OBVIOUS
<1>1. queue \in Seq(1 .. pushed) /\ other \in Seq(1 .. pushed) /\ taken \in Seq(1 .. pushed)
  BY EmptySeq DEF Init
<1>2. /\ \A t \in Threads : pc[t] = "idle" /\ t # NoThread
      /\ mtx = NoThread /\ pushed = 0 /\ dropped = {} /\ undefined = FALSE
      /\ calls \in Usages
  BY QueueAssumption DEF Init
<1>3. /\ val \in [Threads -> 0 .. pushed]
      /\ pc \in [Threads -> {"idle", "wait", "woken", "nonempty", "read", "paused"}]
  BY DEF Init
<1> QED  BY <1>1, <1>2, <1>3 DEF TypeInv, TypeOK, ReadIsMessage

\* pop_front, with what the caller gets.
LEMMA PopFrontTypeInv ==
  ASSUME TypeInv, NEW t \in Threads, pc[t] \in {"woken", "read"}, ~ undefined,
         NEW v \in 0 .. pushed, queue # <<>> => v # 0, PopFront(t, v)
  PROVE  TypeInv'
<1>0. TypeOK
  BY DEF TypeInv
<1>1. /\ pc' = NotifyAll(t, "idle") /\ UNCHANGED <<calls, other, mtx, val, pushed, dropped>>
  BY DEF PopFront
<1>2. /\ pc' \in [Threads -> {"idle", "wait", "woken", "nonempty", "read", "paused"}]
      /\ \A u \in Threads : pc'[u] = "paused" <=> pc[u] = "paused"
      /\ \A u \in Threads : pc'[u] = "read" => pc[u] = "read"
  BY <1>0, <1>1 DEF NotifyAll, TypeOK
<1>3. queue' \in Seq(1 .. pushed) /\ taken' \in Seq(1 .. pushed) /\ undefined' \in BOOLEAN
  <2>1. CASE queue = <<>>
    BY <1>0, <2>1 DEF PopFront, TypeOK
  <2>2. CASE queue # <<>>
    <3>1. v \in 1 .. pushed /\ Tail(queue) \in Seq(1 .. pushed)
      BY <1>0, <2>2, HeadTailProperties DEF TypeOK
    <3>2. taken \in Seq(1 .. pushed) /\ Append(taken, v) \in Seq(1 .. pushed)
      BY <1>0, <3>1, AppendProperties DEF TypeOK
    <3> QED  BY <1>0, <2>2, <3>1, <3>2 DEF PopFront, TypeOK
  <2> QED  BY <2>1, <2>2
<1> QED  BY <1>0, <1>1, <1>2, <1>3 DEF TypeInv, TypeOK, ReadIsMessage

\* Every step of a call keeps the types.
LEMMA NextTypeInv == TypeInv /\ [Next]_vars => TypeInv'
<1> SUFFICES ASSUME TypeInv, [Next]_vars PROVE TypeInv'
  OBVIOUS
<1>0. TypeOK /\ ReadIsMessage
  BY DEF TypeInv
<1>1. ASSUME NEW t \in Threads, Push(t) PROVE TypeInv'
  <2>1. 1 .. pushed \subseteq 1 .. pushed + 1 /\ pushed + 1 \in 1 .. pushed + 1
    BY <1>0 DEF TypeOK
  <2>2. /\ queue \in Seq(1 .. pushed + 1) /\ other \in Seq(1 .. pushed + 1)
        /\ taken \in Seq(1 .. pushed + 1)
    BY <1>0, <2>1, SeqMonotonic DEF TypeOK
  <2>3. Append(queue, pushed + 1) \in Seq(1 .. pushed + 1)
    BY <2>1, <2>2, AppendProperties
  <2>4. /\ pc' \in [Threads -> {"idle", "wait", "woken", "nonempty", "read", "paused"}]
        /\ \A u \in Threads : pc'[u] = "paused" <=> pc[u] = "paused"
        /\ \A u \in Threads : pc'[u] = "read" => pc[u] = "read"
    BY <1>0, <1>1 DEF NotifyAll, TypeOK, Push, Calls
  <2>5. val \in [Threads -> 0 .. pushed + 1] /\ dropped \subseteq 1 .. pushed + 1
        /\ pushed + 1 \in Nat
    BY <1>0, <2>1 DEF TypeOK
  <2>6. /\ queue' = Append(queue, pushed + 1) /\ pushed' = pushed + 1
        /\ UNCHANGED <<calls, other, mtx, val, undefined, taken, dropped>>
    BY <1>1 DEF Push
  <2> QED  BY <1>0, <2>2, <2>3, <2>4, <2>5, <2>6 DEF TypeInv, TypeOK, ReadIsMessage
<1>2. ASSUME NEW t \in Threads, PopWoken(t) PROVE TypeInv'
  <2> DEFINE v == IF queue = <<>> THEN 0 ELSE Head(queue)
  <2>1. v \in 0 .. pushed /\ (queue # <<>> => v # 0)
    BY <1>0, HeadTailProperties DEF TypeOK
  <2>2. PopFront(t, v) /\ pc[t] = "woken" /\ ~ undefined
    BY <1>2 DEF PopWoken
  <2> HIDE DEF v
  <2> QED  BY <2>1, <2>2, PopFrontTypeInv
<1>3. ASSUME NEW t \in Threads, DrainPop(t) PROVE TypeInv'
  <2>1. val[t] \in 0 .. pushed /\ val[t] # 0 /\ pc[t] = "read" /\ ~ undefined /\ PopFront(t, val[t])
    BY <1>0, <1>3 DEF DrainPop, TypeOK, ReadIsMessage
  <2> QED  BY <2>1, PopFrontTypeInv
<1>4. ASSUME NEW t \in Threads, DrainFront(t) PROVE TypeInv'
  <2>1. /\ pc[t] = "nonempty" /\ pc' = [pc EXCEPT ![t] = "read"]
        /\ UNCHANGED <<calls, queue, other, mtx, pushed, taken, dropped>>
    BY <1>4 DEF DrainFront
  <2>2. CASE queue = <<>>
    BY <1>0, <1>4, <2>1, <2>2 DEF DrainFront, TypeInv, TypeOK, ReadIsMessage
  <2>3. CASE queue # <<>>
    <3>1. Head(queue) \in 1 .. pushed
      BY <1>0, <2>3, HeadTailProperties DEF TypeOK
    <3>2. val' = [val EXCEPT ![t] = Head(queue)] /\ UNCHANGED undefined
      BY <1>4, <2>3 DEF DrainFront
    <3>3. val' \in [Threads -> 0 .. pushed] /\ val'[t] # 0
      BY <1>0, <3>1, <3>2 DEF TypeOK
    <3>4. TypeOK'
      BY <1>0, <2>1, <3>2, <3>3 DEF TypeOK
    <3>5. ReadIsMessage'
      BY <1>0, <2>1, <3>2, <3>3 DEF TypeOK, ReadIsMessage
    <3> QED  BY <3>4, <3>5 DEF TypeInv
  <2> QED  BY <2>2, <2>3
<1>5. ASSUME NEW t \in Threads, Move(t) \/ Copy(t) PROVE TypeInv'
  <2>1. /\ taken \o queue \in Seq(1 .. pushed) /\ other \o queue \in Seq(1 .. pushed)
        /\ <<>> \in Seq(1 .. pushed)
    BY <1>0, ConcatProperties, EmptySeq DEF TypeOK
  <2> QED  BY <1>0, <1>5, <2>1 DEF Move, Copy, client, TypeInv, TypeOK, ReadIsMessage
<1>6. ASSUME NEW t \in Threads, PopWait(t) \/ SpuriousWake(t) \/ DrainEmpty(t) \/ Stop(t)
      PROVE  TypeInv'
  <2>1. /\ pc' \in [Threads -> {"idle", "wait", "woken", "nonempty", "read", "paused"}]
        /\ \A u \in Threads : pc'[u] = "paused" <=> pc[u] = "paused"
        /\ \A u \in Threads : pc'[u] = "read" => pc[u] = "read"
    BY <1>0, <1>6 DEF NotifyAll, TypeOK, PopWait, SpuriousWake, DrainEmpty, Stop, Calls
  <2>2. UNCHANGED <<calls, queue, other, mtx, val, undefined, pushed, taken, dropped>>
    BY <1>6 DEF PopWait, SpuriousWake, DrainEmpty, Stop
  <2> QED  BY <1>0, <2>1, <2>2 DEF TypeInv, TypeOK, ReadIsMessage
<1>7. ASSUME NEW t \in Threads, Pause(t) PROVE TypeInv'
  BY <1>0, <1>7, QueueAssumption DEF Pause, Calls, TypeInv, TypeOK, ReadIsMessage
<1>8. ASSUME NEW t \in Threads, Restart(t) PROVE TypeInv'
  <2>1. Range(queue) \subseteq 1 .. pushed /\ <<>> \in Seq(1 .. pushed)
    BY <1>0, RangeOfSeq, EmptySeq DEF TypeOK
  <2> QED
    BY <1>0, <1>8, <2>1, QueueAssumption DEF Restart, TypeInv, TypeOK, ReadIsMessage
<1>9. CASE UNCHANGED vars
  BY <1>0, <1>9 DEF vars, TypeInv, TypeOK, ReadIsMessage
<1> QED  BY <1>1, <1>2, <1>3, <1>4, <1>5, <1>6, <1>7, <1>8, <1>9 DEF Next, GoOn

\* Type correctness: whatever threads call whatever operations, what is in the deques,
\* with the callers and discarded are messages that were pushed, and a thread is
\* between pause() and restart() exactly while it has the mutex.
THEOREM TypeCorrect == Spec => []TypeOK
<1>1. Spec => []TypeInv
  BY InitTypeInv, NextTypeInv, PTL DEF Spec
<1> QED  BY <1>1, PTL DEF TypeInv

\* Nobody changes a paused queue: every operation that does locks the mutex first.
THEOREM PausedQueueIsFrozen == Spec => PauseFreezes
<1>1. [Next]_vars => [mtx # NoThread /\ mtx' = mtx => queue' = queue]_vars
  BY DEF Next, GoOn, vars, Push, PopWait, SpuriousWake, DrainEmpty, Move, Copy, Stop, Pause,
         PopWoken, DrainFront, DrainPop, Restart, PopFront, client
<1> QED  BY <1>1, PTL DEF Spec, PauseFreezes

-----------------------------------------------------------------------------
(* Order.                                                                  *)

\* A thread is inside a call that its usage has.
InsideItsCalls ==
  \A t \in Threads :
    /\ pc[t] \in {"nonempty", "read"} => "drain" \in calls[t]
    /\ pc[t] \in {"wait", "woken"} => "pop" \in calls[t]
    /\ pc[t] = "paused" => "pause" \in calls[t]

\* What empty() and front() told a draining thread is still so.
DrainerSeesHead ==
  ~ undefined => \A t \in Threads : pc[t] \in {"nonempty", "read"} =>
                   /\ queue # <<>>
                   /\ pc[t] = "read" => val[t] = Head(queue)

QueueInv ==
  TypeInv /\ InsideItsCalls /\ DrainerSeesHead /\ FirstInFirstOut /\ TestedPopFindsData

Sole == \A u \in Usages : SoleDrainer(u)

\* The invariant holds when nobody has called.
LEMMA InitQueueInv == Init => QueueInv
<1> SUFFICES ASSUME Init PROVE QueueInv
  OBVIOUS
<1>1. /\ taken = <<>> /\ queue = <<>> /\ taken \o queue = <<>> /\ dropped = {} /\ pushed = 0
      /\ undefined = FALSE /\ \A t \in Threads : pc[t] = "idle"
  BY DEF Init
<1>2. Increasing(taken \o queue)
  BY <1>1 DEF Increasing
<1>3. Range(taken) \cup Range(queue) \cup dropped = 1 .. pushed
  BY <1>1 DEF Range
<1> QED  BY <1>1, <1>2, <1>3, InitTypeInv
         DEF QueueInv, InsideItsCalls, DrainerSeesHead, FirstInFirstOut, TestedPopFindsData

\* While one thread takes, no other is between empty() and pop().
LEMMA TakerIsAlone ==
  ASSUME Sole, QueueInv, NEW t \in Threads,
         \/ pc[t] \in {"nonempty", "read", "wait", "woken", "paused"}
         \/ calls[t] \cap {"pop", "drain", "move", "pause"} # {},
         NEW u \in Threads, u # t
  PROVE  pc[u] \notin {"nonempty", "read"}
<1>1. calls[t] \cap {"pop", "drain", "move", "pause"} # {}
  BY DEF QueueInv, InsideItsCalls
<1>2. SoleDrainer(calls)
  BY DEF Sole, QueueInv, TypeInv, TypeOK
<1>3. "drain" \notin calls[u]
  BY <1>1, <1>2 DEF SoleDrainer
<1> QED  BY <1>3 DEF QueueInv, InsideItsCalls

\* pop_front of the head of a deque that is not empty, by a thread that then is idle.
LEMMA PopFrontOrder ==
  ASSUME TypeInv, FirstInFirstOut, NEW t \in Threads, queue # <<>>, PopFront(t, Head(queue))
  PROVE  FirstInFirstOut'
<1>0. queue \in Seq(1 .. pushed) /\ taken \in Seq(1 .. pushed)
  BY DEF TypeInv, TypeOK
<1>1. /\ queue' = Tail(queue) /\ taken' = Append(taken, Head(queue))
      /\ UNCHANGED <<pushed, dropped>>
  BY DEF PopFront
<1>2. /\ taken' \o queue' = taken \o queue
      /\ Range(taken') \cup Range(queue') = Range(taken) \cup Range(queue)
  BY <1>0, <1>1, PopKeepsAll
<1> QED  BY <1>1, <1>2 DEF FirstInFirstOut

\* A push gives the queue a number above all the others.
LEMMA PushOrder ==
  ASSUME TypeInv, FirstInFirstOut, NEW t \in Threads, Push(t)
  PROVE  FirstInFirstOut'
<1> DEFINE s == taken \o queue
           n == pushed + 1
<1>0. /\ queue \in Seq(1 .. pushed) /\ taken \in Seq(1 .. pushed) /\ pushed \in Nat
      /\ queue' = Append(queue, n) /\ pushed' = n /\ taken' = taken /\ dropped' = dropped
  BY DEF TypeInv, TypeOK, Push
<1>1. /\ queue \in Seq(Nat) /\ taken \in Seq(Nat) /\ n \in Nat
  BY <1>0, SeqMonotonic, 1 .. pushed \subseteq Nat
<1>2. s \in Seq(1 .. pushed)
  BY <1>0, ConcatProperties
<1>3. \A i \in DOMAIN s : s[i] < n
  BY <1>0, <1>2, LenProperties
<1>4. s \in Seq(Nat) /\ Increasing(s)
  BY <1>1, ConcatProperties DEF FirstInFirstOut
<1>5. taken \o Append(queue, n) = Append(taken \o queue, n)
  BY <1>1
<1>6. Increasing(Append(s, n))
  <2> HIDE DEF s, n
  <2> QED  BY <1>1, <1>3, <1>4, IncreasingAppend
<1>7. Range(Append(queue, n)) = Range(queue) \cup {n}
  <2>1. /\ Len(queue) \in Nat /\ DOMAIN queue = 1 .. Len(queue)
        /\ DOMAIN Append(queue, n) = 1 .. Len(queue) + 1
        /\ \A i \in 1 .. Len(queue) : Append(queue, n)[i] = queue[i]
        /\ Append(queue, n)[Len(queue) + 1] = n
    BY <1>1, LenProperties, AppendProperties
  <2> QED  BY <2>1 DEF Range
<1>8. 1 .. n = (1 .. pushed) \cup {n}
  BY <1>0
<1> QED  BY <1>0, <1>5, <1>6, <1>7, <1>8 DEF FirstInFirstOut

\* Every step keeps the invariant, if each usage has a sole drainer.
LEMMA NextQueueInv ==
  ASSUME Sole
  PROVE  QueueInv /\ [Next]_vars => QueueInv'
<1> SUFFICES ASSUME QueueInv, [Next]_vars PROVE QueueInv'
  OBVIOUS
<1>0. /\ TypeInv /\ TypeInv' /\ TypeOK /\ TypeOK'
      /\ InsideItsCalls /\ DrainerSeesHead /\ FirstInFirstOut /\ TestedPopFindsData
  BY NextTypeInv DEF QueueInv, TypeInv
<1>1. ASSUME NEW t \in Threads, Push(t) PROVE QueueInv'
  <2>1. /\ queue' = Append(queue, pushed + 1) /\ pc[t] = "idle"
        /\ pc' = NotifyAll(t, "idle") /\ UNCHANGED <<calls, val, undefined>>
    BY <1>1 DEF Push, Calls
  <2>2. \A u \in Threads : /\ pc'[u] \in {"nonempty", "read"} => pc'[u] = pc[u]
                           /\ pc'[u] \in {"wait", "woken"} => pc[u] \in {"wait", "woken"}
                           /\ pc'[u] = "paused" => pc[u] = "paused"
    BY <1>0, <2>1 DEF NotifyAll, TypeOK
  <2>3. queue # <<>> => queue' # <<>> /\ Head(queue') = Head(queue)
    <3>1. queue \in Seq(Nat) /\ pushed + 1 \in Nat
      BY <1>0, SeqMonotonic, 1 .. pushed \subseteq Nat DEF TypeOK
    <3> QED  BY <2>1, <3>1, HeadTailAppend, AppendProperties
  <2>4. InsideItsCalls' /\ DrainerSeesHead'
    BY <1>0, <2>1, <2>2, <2>3 DEF InsideItsCalls, DrainerSeesHead
  <2>5. FirstInFirstOut'
    BY <1>0, <1>1, PushOrder
  <2> QED  BY <1>0, <2>1, <2>4, <2>5 DEF QueueInv, TestedPopFindsData
<1>2. ASSUME NEW t \in Threads, NEW v, PopFront(t, v), pc[t] \in {"woken", "read"},
             ~ undefined, queue # <<>> => v = Head(queue),
             queue = <<>> => "pop" \in calls[t]
      PROVE  QueueInv'
  <2>1. pc' = NotifyAll(t, "idle") /\ UNCHANGED <<calls, val, pushed, dropped>>
    BY <1>2 DEF PopFront
  <2>2. \A u \in Threads : /\ pc'[u] \in {"wait", "woken"} => pc[u] \in {"wait", "woken"}
                           /\ pc'[u] = "paused" => pc[u] = "paused"
    BY <1>0, <2>1 DEF NotifyAll, TypeOK
  <2>3. \A u \in Threads : pc'[u] \notin {"nonempty", "read"}
    BY <1>2, <2>1, TakerIsAlone DEF NotifyAll
  <2>4. InsideItsCalls' /\ DrainerSeesHead'
    BY <1>0, <2>1, <2>2, <2>3 DEF InsideItsCalls, DrainerSeesHead
  <2>5. FirstInFirstOut' /\ TestedPopFindsData'
    <3>1. CASE queue = <<>>
      <4>1. UNCHANGED <<queue, taken>>
        BY <1>2, <3>1 DEF PopFront
      <4> QED  BY <1>0, <1>2, <2>1, <3>1, <4>1 DEF FirstInFirstOut, TestedPopFindsData
    <3>2. CASE queue # <<>>
      <4>1. undefined' = undefined
        BY <1>2, <3>2 DEF PopFront
      <4>2. FirstInFirstOut'
        BY <1>0, <1>2, <3>2, PopFrontOrder
      <4> QED  BY <1>0, <2>1, <4>1, <4>2 DEF TestedPopFindsData
    <3> QED  BY <3>1, <3>2
  <2> QED  BY <1>0, <2>4, <2>5 DEF QueueInv
<1>3. ASSUME NEW t \in Threads, PopWoken(t) PROVE QueueInv'
  BY <1>0, <1>2, <1>3 DEF PopWoken, InsideItsCalls
<1>4. ASSUME NEW t \in Threads, DrainPop(t) PROVE QueueInv'
  BY <1>0, <1>2, <1>4 DEF DrainPop, DrainerSeesHead
<1>5. ASSUME NEW t \in Threads, DrainFront(t) PROVE QueueInv'
  <2>1. pc[t] = "nonempty" /\ ~ undefined /\ queue # <<>>
    BY <1>0, <1>5 DEF DrainFront, DrainerSeesHead
  <2>2. /\ pc' = [pc EXCEPT ![t] = "read"] /\ val' = [val EXCEPT ![t] = Head(queue)]
        /\ UNCHANGED <<calls, queue, pushed, taken, dropped, undefined>>
    BY <1>5, <2>1 DEF DrainFront
  <2>3. InsideItsCalls'
    BY <1>0, <2>1, <2>2 DEF InsideItsCalls, TypeOK
  <2>4. DrainerSeesHead'
    BY <1>0, <2>1, <2>2 DEF DrainerSeesHead, TypeOK
  <2> QED  BY <1>0, <2>2, <2>3, <2>4 DEF QueueInv, FirstInFirstOut, TestedPopFindsData
<1>6. ASSUME NEW t \in Threads, Move(t) PROVE QueueInv'
  <2>1. /\ pc[t] = "idle" /\ "move" \in calls[t] /\ taken' = taken \o queue /\ queue' = <<>>
        /\ UNCHANGED <<calls, pc, val, undefined, pushed, dropped>>
    BY <1>6 DEF Move, Calls, client
  <2>2. \A u \in Threads : pc'[u] \notin {"nonempty", "read"}
    BY <2>1, TakerIsAlone
  <2>3. /\ taken' \o queue' = taken \o queue
        /\ Range(taken') = Range(taken) \cup Range(queue) /\ Range(queue') = {}
    <3>1. /\ taken \o queue \in Seq(1 .. pushed)
          /\ Range(taken \o queue) = Range(taken) \cup Range(queue)
      BY <1>0, ConcatProperties, RangeConcatenation DEF TypeOK
    <3>2. (taken \o queue) \o <<>> = taken \o queue
      BY <3>1, ConcatEmptySeq
    <3>3. Range(<<>>) = {}
      BY DEF Range
    <3> QED  BY <2>1, <3>1, <3>2, <3>3
  <2> QED  BY <1>0, <2>1, <2>2, <2>3
           DEF QueueInv, InsideItsCalls, DrainerSeesHead, FirstInFirstOut, TestedPopFindsData
<1>7. ASSUME NEW t \in Threads, Restart(t) PROVE QueueInv'
  <2>1. /\ pc[t] = "paused" /\ pc' = [pc EXCEPT ![t] = "idle"] /\ queue' = <<>>
        /\ dropped' = dropped \cup Range(queue)
        /\ UNCHANGED <<calls, val, undefined, pushed, taken>>
    BY <1>7 DEF Restart
  <2>2. \A u \in Threads : pc'[u] \notin {"nonempty", "read"}
    BY <1>0, <2>1, TakerIsAlone DEF TypeOK
  <2>3. taken' \o queue' = taken /\ Range(queue') = {} /\ Increasing(taken)
    <3>1. taken \in Seq(Nat) /\ queue \in Seq(Nat)
      BY <1>0, SeqMonotonic, 1 .. pushed \subseteq Nat DEF TypeOK
    <3>2. Increasing(taken)
      BY <1>0, <3>1, IncreasingBeginning DEF FirstInFirstOut
    <3>3. taken \o <<>> = taken
      BY <3>1, ConcatEmptySeq
    <3> QED  BY <2>1, <3>2, <3>3 DEF Range
  <2>4. FirstInFirstOut'
    BY <1>0, <2>1, <2>3 DEF FirstInFirstOut
  <2>5. InsideItsCalls'
    BY <1>0, <2>1 DEF InsideItsCalls, TypeOK
  <2> QED  BY <1>0, <2>1, <2>2, <2>4, <2>5 DEF QueueInv, DrainerSeesHead, TestedPopFindsData
<1>8. ASSUME NEW t \in Threads,
             PopWait(t) \/ SpuriousWake(t) \/ DrainEmpty(t) \/ Stop(t) \/ Pause(t) \/ Copy(t)
      PROVE  QueueInv'
  <2>1. UNCHANGED <<calls, queue, val, undefined, pushed, taken, dropped>>
    BY <1>8 DEF PopWait, SpuriousWake, DrainEmpty, Stop, Pause, Copy, client
  <2>2. InsideItsCalls'
    BY <1>0, <1>8, <2>1 DEF PopWait, SpuriousWake, DrainEmpty, Stop, Pause, Copy, client,
                            Calls, NotifyAll, InsideItsCalls, TypeOK
  <2>3. \A u \in Threads : pc'[u] \in {"nonempty", "read"} =>
          pc'[u] = pc[u] \/ (pc'[u] = "nonempty" /\ queue # <<>>)
    BY <1>0, <1>8 DEF PopWait, SpuriousWake, DrainEmpty, Stop, Pause, Copy, client,
                      NotifyAll, TypeOK
  <2>4. DrainerSeesHead'
    BY <1>0, <2>1, <2>3 DEF DrainerSeesHead
  <2> QED  BY <1>0, <2>1, <2>2, <2>4 DEF QueueInv, FirstInFirstOut, TestedPopFindsData
<1>9. CASE UNCHANGED vars
  BY <1>0, <1>9 DEF vars, QueueInv, InsideItsCalls, DrainerSeesHead, FirstInFirstOut,
                    TestedPopFindsData
<1> QED  BY <1>1, <1>3, <1>4, <1>5, <1>6, <1>7, <1>8, <1>9 DEF Next, GoOn

\* The queue's inductive invariant, for callers among whom a drainer is the only taker.
LEMMA QueueInvariant ==
  ASSUME Sole
  PROVE  Spec => []QueueInv
BY InitQueueInv, NextQueueInv, PTL DEF Spec

\* Messages leave a Q<T> in the order they were pushed, each once, and only restart()
\* discards any, if a caller that drains with empty(), front() and pop() is the only
\* one that takes from the queue.
THEOREM FirstInIsFirstOut ==
  ASSUME \A u \in Usages : SoleDrainer(u)
  PROVE  Spec => []FirstInFirstOut
<1>1. Sole
  BY DEF Sole
<1>2. QueueInv => FirstInFirstOut
  BY DEF QueueInv
<1> QED  BY <1>1, <1>2, QueueInvariant, PTL

\* For such callers pop_front never meets an empty deque unless somebody uses the
\* blocking pop, which does not look.
THEOREM TestedPopIsSafe ==
  ASSUME \A u \in Usages : SoleDrainer(u)
  PROVE  Spec => []TestedPopFindsData
<1>1. Sole
  BY DEF Sole
<1>2. QueueInv => TestedPopFindsData
  BY DEF QueueInv
<1> QED  BY <1>1, <1>2, QueueInvariant, PTL
=============================================================================
