------------------------------- MODULE Queue -------------------------------
(***************************************************************************)
(* Q<T>: a deque with a mutex and a condition variable, and the threads    *)
(* that call it.                                                           *)
(*                                                                         *)
(* A critical section is one step; mtx says who keeps the mutex between    *)
(* two calls, which only pause() does.  cv is the set of threads in        *)
(* pc "wait".  The condition variable's wait has no predicate, and the     *)
(* deque is never tested before pop_front: to take from an empty deque is  *)
(* undefined behaviour in C++, after which the model says nothing.         *)
(* (The copy to a vector of queues is part of module DataManager.)         *)
(***************************************************************************)
EXTENDS Integers, Sequences, Functions

CONSTANTS
  Threads,
  Usages,      \* the ways the program uses one queue: each maps a thread to
               \* the operations it calls
  NoThread,    \* the mutex is free
  MaxPush,     \* bound: messages pushed
  MaxCopy      \* bound: length of the queue copy() writes to

Operations == {"push", "pop", "drain", "move", "copy", "stop", "pause"}

ASSUME QueueAssumption ==
  /\ NoThread \notin Threads
  /\ Usages \subseteq [Threads -> SUBSET Operations]
  /\ MaxPush \in Nat /\ MaxCopy \in Nat

VARIABLES
  calls,       \* the usage, an element of Usages
  queue,       \* the deque; messages are numbered as they are pushed
  other,       \* the deque of the queue that copy() writes to
  mtx,         \* the thread that has paused the queue, or NoThread
  pc,          \* where each thread is in its call
  val,         \* what front() has returned to each thread
  undefined,   \* an empty deque has been popped
  pushed,      \* history: number of messages pushed
  taken,       \* history: what the callers have got, in order
  dropped      \* history: messages restart() has discarded

client == <<calls, pc, val>>
vars == <<calls, queue, other, mtx, pc, val, undefined, pushed, taken, dropped>>

Init ==
  /\ calls \in Usages
  /\ queue = <<>> /\ other = <<>>
  /\ mtx = NoThread
  /\ pc = [t \in Threads |-> "idle"]
  /\ val = [t \in Threads |-> 0]
  /\ undefined = FALSE
  /\ pushed = 0 /\ taken = <<>> /\ dropped = {}

Calls(t, op) == ~ undefined /\ pc[t] = "idle" /\ op \in calls[t]

\* Slip: no lock_guard.
Free_Always == TRUE

\* The mutex can be locked.
Free == mtx = NoThread

\* cv.notify_all(), with thread t going on at p.
NotifyAll(t, p) ==
  [u \in Threads |-> IF u = t THEN p ELSE IF pc[u] = "wait" THEN "woken" ELSE pc[u]]

-----------------------------------------------------------------------------
\* Slip: push_front.
PushBack_Front(q, m) == <<m>> \o q

PushBack(q, m) == Append(q, m)

Push(t) ==
  /\ Calls(t, "push") /\ Free /\ pushed < MaxPush
  /\ queue' = PushBack(queue, pushed + 1)
  /\ pushed' = pushed + 1
  /\ pc' = NotifyAll(t, "idle")
  /\ UNCHANGED <<calls, other, mtx, val, undefined, taken, dropped>>

\* queue.pop_front(), then notify_all; v is what the caller gets.
PopFront(t, v) ==
  /\ pc' = NotifyAll(t, "idle")
  /\ IF queue = <<>>
     THEN undefined' = TRUE /\ UNCHANGED <<queue, taken>>
     ELSE /\ queue' = Tail(queue)
          /\ taken' = Append(taken, v)
          /\ UNCHANGED undefined
  /\ UNCHANGED <<calls, other, mtx, val, pushed, dropped>>

\* pop(data, true): lock, then wait, whether or not there is data.
PopWait(t) ==
  /\ Calls(t, "pop") /\ Free
  /\ pc' = [pc EXCEPT ![t] = "wait"]
  /\ UNCHANGED <<calls, queue, other, mtx, val, undefined, pushed, taken, dropped>>

\* wait may return without a notification.
SpuriousWake(t) ==
  /\ ~ undefined /\ pc[t] = "wait"
  /\ pc' = [pc EXCEPT ![t] = "woken"]
  /\ UNCHANGED <<calls, queue, other, mtx, val, undefined, pushed, taken, dropped>>

\* wait has the mutex again and returns.
PopWoken(t) ==
  /\ ~ undefined /\ pc[t] = "woken" /\ Free
  /\ PopFront(t, IF queue = <<>> THEN 0 ELSE Head(queue))

-----------------------------------------------------------------------------
(* The caller that drains a queue: while (!empty()) { front(); pop(false) } *)

\* Slip: the caller does not look at the result of empty().
NotEmpty_Any == TRUE

NotEmpty == queue # <<>>

DrainEmpty(t) ==
  /\ Calls(t, "drain") /\ Free
  /\ NotEmpty
  /\ pc' = [pc EXCEPT ![t] = "nonempty"]
  /\ UNCHANGED <<calls, queue, other, mtx, val, undefined, pushed, taken, dropped>>

\* front() does not lock, so that a push may run beside it: by the standard a data race.
\* What the build produces is one outcome: push_back of a deque that is not empty changes
\* neither its first element nor the start pointer, the two things that front() reads.
\* (What removes elements takes the mutex, and beside a sole drainer nobody else takes.)
DrainFront(t) ==
  /\ ~ undefined /\ pc[t] = "nonempty"
  /\ pc' = [pc EXCEPT ![t] = "read"]
  /\ IF queue = <<>>
     THEN undefined' = TRUE /\ UNCHANGED val
     ELSE val' = [val EXCEPT ![t] = Head(queue)] /\ UNCHANGED undefined
  /\ UNCHANGED <<calls, queue, other, mtx, pushed, taken, dropped>>

DrainPop(t) ==
  /\ ~ undefined /\ pc[t] = "read" /\ Free
  /\ PopFront(t, val[t])

-----------------------------------------------------------------------------
\* move(vector): everything goes to the caller; nobody is notified.
Move(t) ==
  /\ Calls(t, "move") /\ Free
  /\ queue # <<>>
  /\ taken' = taken \o queue
  /\ queue' = <<>>
  /\ UNCHANGED <<client, other, mtx, undefined, pushed, dropped>>

\* copy(Q): the source keeps what it has, so each call copies it again.
Copy(t) ==
  /\ Calls(t, "copy") /\ Free
  /\ queue # <<>> /\ Len(other) + Len(queue) <= MaxCopy
  /\ other' = other \o queue
  /\ UNCHANGED <<client, queue, mtx, undefined, pushed, taken, dropped>>

\* stop() notifies, without the mutex, and leaves nothing behind that says so.
Stop(t) ==
  /\ Calls(t, "stop")
  /\ pc' = NotifyAll(t, "idle")
  /\ UNCHANGED <<calls, queue, other, mtx, val, undefined, pushed, taken, dropped>>

Pause(t) ==
  /\ Calls(t, "pause") /\ Free
  /\ mtx' = t
  /\ pc' = [pc EXCEPT ![t] = "paused"]
  /\ UNCHANGED <<calls, queue, other, val, undefined, pushed, taken, dropped>>

\* Slip: restart() does not unlock.
Unlocked_Not == mtx

Unlocked == NoThread

\* restart() discards what the queue held and unlocks the mutex.
Restart(t) ==
  /\ ~ undefined /\ pc[t] = "paused"
  /\ dropped' = dropped \cup Range(queue)
  /\ queue' = <<>>
  /\ mtx' = Unlocked
  /\ pc' = [pc EXCEPT ![t] = "idle"]
  /\ UNCHANGED <<calls, other, val, undefined, pushed, taken>>

-----------------------------------------------------------------------------
\* The rest of a call that has begun; a thread in wait has nothing to do.
GoOn(t) == PopWoken(t) \/ DrainFront(t) \/ DrainPop(t) \/ Restart(t)

Next == \E t \in Threads :
  \/ Push(t) \/ PopWait(t) \/ SpuriousWake(t)
  \/ DrainEmpty(t) \/ Move(t) \/ Copy(t) \/ Stop(t) \/ Pause(t)
  \/ GoOn(t)

Spec == Init /\ [][Next]_vars

-----------------------------------------------------------------------------
TypeOK ==
  /\ calls \in Usages
  /\ queue \in Seq(1 .. pushed) /\ other \in Seq(1 .. pushed)
  /\ mtx \in Threads \cup {NoThread}
  /\ \A t \in Threads : pc[t] = "paused" <=> mtx = t
  /\ pc \in [Threads -> {"idle", "wait", "woken", "nonempty", "read", "paused"}]
  /\ val \in [Threads -> 0 .. pushed]
  /\ undefined \in BOOLEAN
  /\ pushed \in Nat
  /\ taken \in Seq(1 .. pushed)
  /\ dropped \subseteq 1 .. pushed

\* A usage in which a caller that drains is the only one that takes: empty(), front()
\* and pop() are three calls, and the queue gives nobody a way to make them one.
SoleDrainer(u) ==
  \A t \in Threads : "drain" \in u[t] =>
    \A s \in Threads \ {t} : u[s] \cap {"pop", "drain", "move", "pause"} = {}

Increasing(s) == \A i, j \in DOMAIN s : i < j => s[i] < s[j]

\* Messages leave the queue in the order they came in, each once, and none goes
\* missing except in restart(): push, move and the three separate calls of a
\* draining caller interleave, and what front() returned is what pop() removed.
FirstInFirstOut ==
  /\ Increasing(taken \o queue)
  /\ Range(taken) \cup Range(queue) \cup dropped = 1 .. pushed

\* Between pause() and restart() the queue stays as it is, whoever calls it.
PauseFreezes == [][mtx # NoThread /\ mtx' = mtx => queue' = queue]_vars

\* A caller that asks empty() before it takes never pops an empty deque: only a
\* blocking pop, which does not test for data, can.
TestedPopFindsData == undefined => \E t \in Threads : "pop" \in calls[t]
=============================================================================
