---------------------------- MODULE DataManager ----------------------------
(***************************************************************************)
(* DataManager<T>: the buffer between the feeders and the consumers.       *)
(*                                                                         *)
(* Feeders push into input queues, one thread (run) moves whatever the     *)
(* input queues hold to every output queue (manageBroadcast), consumers    *)
(* pop whole output queues.  Each queue has its own mutex; the registry    *)
(* (names to queue positions, and the two vectors of queues) has none, so  *)
(* the program registers only while no thread is inside run or pop: the    *)
(* framework registers every node while it parses the topology, before it  *)
(* starts its threads, and the unit tests do the same.                     *)
(*                                                                         *)
(* Queue positions count from 1 here and from 0 in the code.  A step that  *)
(* leaves every variable alone in the code (a refused registration, a pop  *)
(* that finds nothing) is a stuttering step here.                          *)
(***************************************************************************)
EXTENDS Integers, Sequences, FiniteSets, Functions

CONSTANTS
  Feeders,     \* names a feeder may register under
  Consumers,   \* names a consumer may register under
  Removable,   \* the feeders the application may call remFeeder for
  Modes,       \* the modes the configuration may ask for
  MaxIn,       \* m_maxNbInQueues
  MaxOut,      \* m_maxNbOutQueues
  MaxPush,     \* bound: pushes per feeder
  MaxVector    \* bound: length of m_inQueues, which every setFeeder after a
               \* remFeeder makes longer

ASSUME DMAssumption ==
  /\ Removable \subseteq Feeders
  /\ Modes \subseteq {"BROADCAST", "MAP"}
  /\ MaxIn \in 0 .. 255 /\ MaxOut \in 0 .. 255     \* both are uint8_t
  /\ MaxPush \in Nat /\ MaxVector \in Nat

VARIABLES
  m_mode,          \* fixed by the constructor
  m_inQueues,      \* vector of input queues
  m_outQueues,     \* vector of output queues
  m_inQueuesIds,   \* feeder name -> position in m_inQueues
  m_outQueuesIds,  \* consumer name -> position in m_outQueues
  isRunning_,
  pc,              \* where the thread that executes run() is
  it,              \* the input queue manageBroadcast looks at
  dst,             \* the output queue Q::copy writes next
  popPc,           \* where each consumer is in pop()
  attempts,        \* history: pushes each feeder has called
  accepted,        \* history: messages that reached an input queue
  log,             \* history: messages in the order Q::copy took them
  rx,              \* history: what each consumer has popped
  joined           \* history: length of log each consumer's queue starts after

registry == <<m_inQueuesIds, m_outQueuesIds>>
thread   == <<isRunning_, pc, it, dst>>
vars == <<m_mode, m_inQueues, m_outQueues, registry, thread, popPc,
          attempts, accepted, log, rx, joined>>

Message == [from : Feeders, n : Nat \ {0}]

-----------------------------------------------------------------------------
Bind(f, k, v) == [x \in DOMAIN f \cup {k} |-> IF x = k THEN v ELSE f[x]]
Unbind(f, k)  == Restrict(f, DOMAIN f \ {k})
NoIds == [x \in {} |-> 0]

Init ==
  /\ m_mode \in Modes
  /\ m_inQueues = <<>> /\ m_outQueues = <<>>
  /\ m_inQueuesIds = NoIds /\ m_outQueuesIds = NoIds
  /\ isRunning_ \in BOOLEAN                \* the constructor leaves it unset
  /\ pc = "idle" /\ it = 1 /\ dst = 1
  /\ popPc = [c \in Consumers |-> "out"]
  /\ attempts = [f \in Feeders |-> 0]
  /\ accepted = {} /\ log = <<>>
  /\ rx = [c \in Consumers |-> <<>>]
  /\ joined = [c \in Consumers |-> 0]

-----------------------------------------------------------------------------
(* Registration.                                                           *)

\* No thread is inside run() or pop(): the registry may be changed.
Quiet == pc = "idle" /\ \A c \in Consumers : popPc[c] = "out"

\* Slip: the position is one short, size() - 1.
NewPosition_Short(ids) == Cardinality(DOMAIN ids)

\* The position of a new name is the size of the map, whatever the vector's.
NewPosition(ids) == Cardinality(DOMAIN ids) + 1

\* Slip: no queue is made for the new name.
NewQueue_None(queues) == queues

\* emplace_back(Q<T>())
NewQueue(queues) == Append(queues, <<>>)

\* setFeeder while the map is not full.
SetFeederNew(f) ==
  /\ Quiet
  /\ f \notin DOMAIN m_inQueuesIds
  /\ Cardinality(DOMAIN m_inQueuesIds) < MaxIn
  /\ Len(m_inQueues) < MaxVector
  /\ m_inQueuesIds' = Bind(m_inQueuesIds, f, NewPosition(m_inQueuesIds))
  /\ m_inQueues' = NewQueue(m_inQueues)
  /\ UNCHANGED <<m_mode, m_outQueues, m_outQueuesIds, thread, popPc,
                 attempts, accepted, log, rx, joined>>

\* setFeeder on a full map: take over the queue registered as "empty".
SetFeederReuse(f) ==
  /\ Quiet
  /\ f \notin DOMAIN m_inQueuesIds
  /\ Cardinality(DOMAIN m_inQueuesIds) >= MaxIn
  /\ "empty" \in DOMAIN m_inQueuesIds
  /\ m_inQueuesIds' = Unbind(Bind(m_inQueuesIds, f, m_inQueuesIds["empty"]), "empty")
  /\ UNCHANGED <<m_mode, m_inQueues, m_outQueues, m_outQueuesIds, thread, popPc,
                 attempts, accepted, log, rx, joined>>

\* remFeeder: the name goes, its queue and what is in it stay.
RemFeeder(f) ==
  /\ Quiet
  /\ f \in DOMAIN m_inQueuesIds
  /\ m_inQueuesIds' = Unbind(m_inQueuesIds, f)
  /\ UNCHANGED <<m_mode, m_inQueues, m_outQueues, m_outQueuesIds, thread, popPc,
                 attempts, accepted, log, rx, joined>>

\* The stream of consumer c starts with what queue q already holds.
Join(c, held) ==
  /\ joined' = [joined EXCEPT ![c] = Len(log) - Len(held)]
  /\ rx' = [rx EXCEPT ![c] = <<>>]

SetConsumerNew(c) ==
  /\ Quiet
  /\ c \notin DOMAIN m_outQueuesIds
  /\ Cardinality(DOMAIN m_outQueuesIds) < MaxOut
  /\ m_outQueuesIds' = Bind(m_outQueuesIds, c, NewPosition(m_outQueuesIds))
  /\ m_outQueues' = NewQueue(m_outQueues)
  /\ Join(c, <<>>)
  /\ UNCHANGED <<m_mode, m_inQueues, m_inQueuesIds, thread, popPc,
                 attempts, accepted, log>>

SetConsumerReuse(c) ==
  /\ Quiet
  /\ c \notin DOMAIN m_outQueuesIds
  /\ Cardinality(DOMAIN m_outQueuesIds) >= MaxOut
  /\ "empty" \in DOMAIN m_outQueuesIds
  /\ m_outQueuesIds' = Unbind(Bind(m_outQueuesIds, c, m_outQueuesIds["empty"]), "empty")
  /\ Join(c, m_outQueues[m_outQueuesIds["empty"]])
  /\ UNCHANGED <<m_mode, m_inQueues, m_outQueues, m_inQueuesIds, thread, popPc,
                 attempts, accepted, log>>

\* reset() forgets queues, names and data; the histories start over with it.
Reset ==
  /\ Quiet
  /\ m_inQueues' = <<>> /\ m_outQueues' = <<>>
  /\ m_inQueuesIds' = NoIds /\ m_outQueuesIds' = NoIds
  /\ accepted' = {} /\ log' = <<>>
  /\ rx' = [c \in Consumers |-> <<>>]
  /\ joined' = [c \in Consumers |-> 0]
  /\ UNCHANGED <<m_mode, thread, popPc, attempts>>

-----------------------------------------------------------------------------
(* push and pop.                                                           *)

\* Q::copy keeps the mutex of the queue it copies from until it returns.
Locked(q) == pc = "copy" /\ it = q

\* Slip: push_front.
PushBack_Front(q, m) == <<m>> \o q

PushBack(q, m) == Append(q, m)

Push(f) ==
  /\ attempts[f] < MaxPush
  /\ f \in DOMAIN m_inQueuesIds
  /\ ~ Locked(m_inQueuesIds[f])
  /\ attempts' = [attempts EXCEPT ![f] = @ + 1]
  /\ LET m == [from |-> f, n |-> attempts[f] + 1] IN
       /\ m_inQueues' = [m_inQueues EXCEPT ![m_inQueuesIds[f]] = PushBack(@, m)]
       /\ accepted' = accepted \cup {m}
  /\ UNCHANGED <<m_mode, m_outQueues, registry, thread, popPc, log, rx, joined>>

\* push under a name that is not registered: logged as an error and dropped.
PushUnknown(f) ==
  /\ attempts[f] < MaxPush
  /\ f \notin DOMAIN m_inQueuesIds
  /\ attempts' = [attempts EXCEPT ![f] = @ + 1]
  /\ UNCHANGED <<m_mode, m_inQueues, m_outQueues, registry, thread, popPc,
                 accepted, log, rx, joined>>

\* pop, first half: the queue's empty(), under the queue's mutex.
PopCheck(c) ==
  /\ popPc[c] = "out"
  /\ c \in DOMAIN m_outQueuesIds
  /\ m_outQueues[m_outQueuesIds[c]] # <<>>
  /\ popPc' = [popPc EXCEPT ![c] = "move"]
  /\ UNCHANGED <<m_mode, m_inQueues, m_outQueues, registry, thread,
                 attempts, accepted, log, rx, joined>>

\* Slip: the queue is left as it is.
Cleared_Keep(q) == q

\* queue.clear()
Cleared(q) == <<>>

\* pop, second half: Q::move, under the mutex again, takes all there is by now.
PopMove(c) ==
  /\ popPc[c] = "move"
  /\ LET q == m_outQueuesIds[c] IN
       /\ rx' = [rx EXCEPT ![c] = @ \o m_outQueues[q]]
       /\ m_outQueues' = [m_outQueues EXCEPT ![q] = Cleared(@)]
  /\ popPc' = [popPc EXCEPT ![c] = "out"]
  /\ UNCHANGED <<m_mode, m_inQueues, registry, thread, attempts, accepted, log, joined>>

-----------------------------------------------------------------------------
(* run() and stop().                                                       *)

data == <<m_inQueues, m_outQueues, popPc, attempts, accepted, log, rx, joined>>

\* A thread (a job of the pool, a thread of a test) is told to execute run().
RunCall ==
  /\ pc = "idle"
  /\ pc' = "called"
  /\ UNCHANGED <<m_mode, registry, isRunning_, it, dst, data>>

RunEnter ==
  /\ pc = "called"
  /\ isRunning_' = TRUE
  /\ pc' = "scan"
  /\ UNCHANGED <<m_mode, registry, it, dst, data>>

\* stop() also notifies the queues, on which nobody waits.
Stop ==
  /\ isRunning_' = FALSE
  /\ UNCHANGED <<m_mode, registry, pc, it, dst, data>>

\* manageBroadcast starts: its list of outputs is all of m_outQueues.
ScanBegin ==
  /\ pc = "scan"
  /\ m_mode = "BROADCAST"
  /\ it' = 1
  /\ pc' = "check"
  /\ UNCHANGED <<m_mode, registry, isRunning_, dst, data>>

\* manageMap has an empty body.
ManageMap ==
  /\ pc = "scan"
  /\ m_mode = "MAP"
  /\ pc' = "test"
  /\ UNCHANGED <<m_mode, registry, isRunning_, it, dst, data>>

\* Slip: the scan stops before the last queue.
MoreQueues_Early == it < Len(m_inQueues)

MoreQueues == it <= Len(m_inQueues)

\* Slip: the queue is copied whether or not it is empty.
HasWork_Any == m_outQueues # <<>>

HasWork == m_inQueues[it] # <<>> /\ m_outQueues # <<>>

\* empty() says the queue is empty, or there is no output: next queue.
CheckSkip ==
  /\ pc = "check"
  /\ MoreQueues /\ ~ HasWork
  /\ it' = it + 1
  /\ UNCHANGED <<m_mode, registry, isRunning_, pc, dst, data>>

CheckHit ==
  /\ pc = "check"
  /\ MoreQueues /\ HasWork
  /\ pc' = "lock"
  /\ UNCHANGED <<m_mode, registry, isRunning_, it, dst, data>>

CheckEnd ==
  /\ pc = "check"
  /\ ~ MoreQueues
  /\ pc' = "test"
  /\ UNCHANGED <<m_mode, registry, isRunning_, it, dst, data>>

\* Q::copy locks its source: from here on no push reaches that queue.
CopyLock ==
  /\ pc = "lock"
  /\ pc' = "copy"
  /\ dst' = 1
  /\ log' = log \o m_inQueues[it]
  /\ UNCHANGED <<m_mode, m_inQueues, m_outQueues, registry, isRunning_, it, popPc,
                 attempts, accepted, rx, joined>>

\* Slip: the last destination is left out.
MoreOutputs_Short == dst < Len(m_outQueues)

MoreOutputs == dst <= Len(m_outQueues)

\* One turn of Q::copy's loop, under the mutex of the destination.
CopyTo ==
  /\ pc = "copy"
  /\ MoreOutputs
  /\ m_outQueues' = [m_outQueues EXCEPT ![dst] = @ \o m_inQueues[it]]
  /\ dst' = dst + 1
  /\ UNCHANGED <<m_mode, m_inQueues, registry, isRunning_, pc, it, popPc,
                 attempts, accepted, log, rx, joined>>

\* Q::copy clears its source, unlocks it and returns.
CopyDone ==
  /\ pc = "copy"
  /\ ~ MoreOutputs
  /\ m_inQueues' = [m_inQueues EXCEPT ![it] = Cleared(@)]
  /\ it' = it + 1
  /\ pc' = "check"
  /\ UNCHANGED <<m_mode, m_outQueues, registry, isRunning_, dst, popPc,
                 attempts, accepted, log, rx, joined>>

\* Slip: the loop does not look at isRunning_.
AfterTest_Forever == {"scan"}

\* isRunning_ is a plain bool that stop() writes from another thread.  In mode MAP
\* the loop holds no call, lock or atomic access that makes the build read it again,
\* and a cleared flag may go unnoticed.
AfterTest ==
  IF isRunning_ THEN {"scan"}
  ELSE IF m_mode = "MAP" THEN {"scan", "idle"} ELSE {"idle"}

LoopTest ==
  /\ pc = "test"
  /\ pc' \in AfterTest
  /\ UNCHANGED <<m_mode, registry, isRunning_, it, dst, data>>

-----------------------------------------------------------------------------
Register ==
  \/ \E f \in Feeders : SetFeederNew(f) \/ SetFeederReuse(f)
  \/ \E f \in Removable : RemFeeder(f)
  \/ \E c \in Consumers : SetConsumerNew(c) \/ SetConsumerReuse(c)
  \/ Reset

Feed == \E f \in Feeders : Push(f) \/ PushUnknown(f)

Consume == \E c \in Consumers : PopCheck(c) \/ PopMove(c)

RunStep ==
  \/ RunEnter \/ ScanBegin \/ ManageMap
  \/ CheckSkip \/ CheckHit \/ CheckEnd
  \/ CopyLock \/ CopyTo \/ CopyDone \/ LoopTest

Next == Register \/ Feed \/ Consume \/ RunCall \/ RunStep \/ Stop

Spec == Init /\ [][Next]_vars

\* The thread in run() keeps executing, and a consumer keeps calling pop
\* (Consumer::run calls it every 100 ms); nobody has to push, register or stop.
Fairness ==
  /\ WF_vars(RunStep)
  /\ \A c \in Consumers : WF_vars(PopCheck(c) \/ PopMove(c))

FairSpec == Spec /\ Fairness

-----------------------------------------------------------------------------
TypeOK ==
  /\ m_mode \in Modes
  /\ m_inQueues \in Seq(Seq(Message)) /\ m_outQueues \in Seq(Seq(Message))
  /\ DOMAIN m_inQueuesIds \subseteq Feeders
  /\ m_inQueuesIds \in [DOMAIN m_inQueuesIds -> Nat \ {0}]
  /\ DOMAIN m_outQueuesIds \subseteq Consumers
  /\ m_outQueuesIds \in [DOMAIN m_outQueuesIds -> Nat \ {0}]
  /\ isRunning_ \in BOOLEAN
  /\ pc \in {"idle", "called", "scan", "check", "lock", "copy", "test"}
  /\ it \in Nat \ {0} /\ dst \in Nat \ {0}
  /\ popPc \in [Consumers -> {"out", "move"}]
  /\ attempts \in [Feeders -> Nat]
  /\ accepted \subseteq Message
  /\ log \in Seq(Message)
  /\ rx \in [Consumers -> Seq(Message)]
  /\ joined \in [Consumers -> Nat]
-----------------------------------------------------------------------------
\* How much of log output queue q has been given: while Q::copy is between two
\* destinations, the batch it holds has reached only the first ones.
Reached(q) ==
  IF pc = "copy" /\ q >= dst THEN Len(log) - Len(m_inQueues[it]) ELSE Len(log)

\* There is one order of broadcast, and every registered consumer gets it without
\* a gap, a repetition or a swap: what it has popped followed by what waits in its
\* queue is the piece of log from its registration on.  (manageBroadcast, Q::copy
\* and pop run in different threads, and a batch is in some queues before others.)
TotalOrder ==
  \A c \in DOMAIN m_outQueuesIds :
    LET q == m_outQueuesIds[c] IN
      rx[c] \o m_outQueues[q] = SubSeq(log, joined[c] + 1, Reached(q))

\* What input queue q holds that no copy has taken yet.
Waiting(q) == IF Locked(q) THEN <<>> ELSE m_inQueues[q]

\* A message accepted by push is at every moment in exactly one place: once in one
\* input queue, or once in log.  Q::copy reads the queue and clears it in different
\* steps, pushes in between must be neither lost nor broadcast twice.
ExactlyOnce ==
  /\ accepted = Range(log) \cup UNION {Range(Waiting(q)) : q \in DOMAIN m_inQueues}
  /\ \A i, j \in DOMAIN log : log[i] = log[j] => i = j
  /\ \A q \in DOMAIN m_inQueues : \A i \in DOMAIN Waiting(q) :
       /\ Waiting(q)[i] \notin Range(log)
       /\ \A r \in DOMAIN m_inQueues : \A j \in DOMAIN Waiting(r) :
            Waiting(q)[i] = Waiting(r)[j] => q = r /\ i = j

\* The position of every registered name is that of an existing queue, which push
\* and pop index without a check, and no two consumers pop the same queue.
RegistrySound ==
  /\ Range(m_inQueuesIds) \subseteq DOMAIN m_inQueues
  /\ Range(m_outQueuesIds) \subseteq DOMAIN m_outQueues
  /\ IsInjective(m_outQueuesIds)

\* pop and manageBroadcast test empty() and lock again to move or copy: what they
\* found is still true when they act on it.
ChecksStillHold ==
  /\ \A c \in Consumers : popPc[c] = "move" =>
       /\ c \in DOMAIN m_outQueuesIds
       /\ m_outQueues[m_outQueuesIds[c]] # <<>>
  /\ pc \in {"lock", "copy"} =>
       /\ it \in DOMAIN m_inQueues
       /\ m_inQueues[it] # <<>> /\ m_outQueues # <<>>

\* A consumer gets the messages of one feeder in the order they were pushed.
FifoPerFeeder ==
  \A c \in Consumers : \A i, j \in DOMAIN rx[c] :
    i < j /\ rx[c][i].from = rx[c][j].from => rx[c][i].n < rx[c][j].n

-----------------------------------------------------------------------------
Pending(m) == \E q \in DOMAIN m_inQueues : m \in Range(Waiting(q))

\* In mode BROADCAST a message that waits in an input queue while run() executes gets to
\* every registered consumer, unless run() ends before it has taken the message or
\* reset() discards everything.
Delivery ==
  \A f \in Feeders, k \in 1 .. MaxPush, c \in Consumers :
    LET m == [from |-> f, n |-> k] IN
      (Pending(m) /\ m_mode = "BROADCAST" /\ pc # "idle" /\ c \in DOMAIN m_outQueuesIds)
        ~> \/ m \in Range(rx[c])
           \/ pc = "idle" /\ Pending(m)
           \/ c \notin DOMAIN m_outQueuesIds

\* In mode BROADCAST a stop() that finds run() in its loop makes it return, whatever the
\* feeders push.  Not so a stop() that comes while run() is called (RunEnter sets the flag
\* again), and not in mode MAP, where the build may never read the flag a second time.
StopEndsBroadcast ==
  (pc \notin {"idle", "called"} /\ ~ isRunning_ /\ m_mode = "BROADCAST") ~> (pc = "idle")

-----------------------------------------------------------------------------
\* The promise of the data manager: a total order broadcast.
Channel == INSTANCE TotalOrderBroadcast
  WITH Message <- Message,
       Receivers <- Consumers,
       fed <- accepted \ Range(log),
       order <- log,
       got <- rx,
       base <- joined

\* Every step of the data manager is a step of the abstract channel, or none.
ImplementsChannel == Channel!Spec
=============================================================================
