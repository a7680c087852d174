----------------------------- MODULE ThreadPool -----------------------------
(***************************************************************************)
(* ThreadPool: m_nproc threads take jobs from one queue.                   *)
(*                                                                         *)
(* Every critical section of queue_mutex is one step: the mutex is never   *)
(* held across a call that waits, except inside mutex_condition.wait,      *)
(* which releases it.  mutex_condition is the set of threads that wait on  *)
(* it.  QueueJob and stop notify after they have unlocked, so the change   *)
(* and its notification are two steps that other threads come between.     *)
(***************************************************************************)
EXTENDS Integers, Sequences, FiniteSets, Functions

CONSTANTS
  Workers,     \* the threads of the pool, m_nproc of them
  Producers,   \* the threads that call QueueJob
  Looping,     \* the jobs (by their number) that do not return by themselves
  MaxJobs      \* bound: calls of QueueJob

ASSUME PoolAssumption ==
  /\ IsFiniteSet(Workers) /\ IsFiniteSet(Producers)
  /\ Looping \subseteq Nat
  /\ MaxJobs \in Nat

VARIABLES
  jobs,               \* the queue of jobs; jobs are numbered as they are queued
  should_terminate,
  owner,              \* where the thread that calls start and stop is
  workerPc,           \* where each worker is in ThreadLoop
  job,                \* the job each worker has taken last
  producerPc,         \* where each producer is in QueueJob
  queued,             \* history: number of jobs queued
  started,            \* history: jobs in the order they were taken
  stopped             \* history: stop has been called

vars == <<jobs, should_terminate, owner, workerPc, job, producerPc, queued, started, stopped>>

Waiting   == {w \in Workers : workerPc[w] = "wait"}
Checking  == {w \in Workers : workerPc[w] = "check"}
Notifying == {p \in Producers : producerPc[p] = "notify"}

Init ==
  /\ jobs = <<>>
  /\ should_terminate = FALSE
  /\ owner = "idle"
  /\ workerPc = [w \in Workers |-> "none"]
  /\ job = [w \in Workers |-> 0]
  /\ producerPc = [p \in Producers |-> "idle"]
  /\ queued = 0
  /\ started = <<>>
  /\ stopped = FALSE

-----------------------------------------------------------------------------
(* start()                                                                 *)

\* Slip: start sets the pool up anew, should_terminate included.
Start_Reset ==
  /\ owner = "idle"
  /\ owner' = "start"
  /\ should_terminate' = FALSE
  /\ UNCHANGED <<jobs, workerPc, job, producerPc, queued, started, stopped>>

Start ==
  /\ owner = "idle"
  /\ owner' = "start"
  /\ UNCHANGED <<jobs, should_terminate, workerPc, job, producerPc, queued, started, stopped>>

\* One turn of start's loop: a thread begins ThreadLoop.
StartThread(w) ==
  /\ owner = "start"
  /\ workerPc[w] = "none"
  /\ workerPc' = [workerPc EXCEPT ![w] = "check"]
  /\ UNCHANGED <<jobs, should_terminate, owner, job, producerPc, queued, started, stopped>>

StartDone ==
  /\ owner = "start"
  /\ \A w \in Workers : workerPc[w] # "none"
  /\ owner' = "started"
  /\ UNCHANGED <<jobs, should_terminate, workerPc, job, producerPc, queued, started, stopped>>

-----------------------------------------------------------------------------
(* ThreadLoop()                                                            *)

\* The predicate of wait is false: unlock and wait, in one step.
ThreadWait(w) ==
  /\ workerPc[w] = "check"
  /\ jobs = <<>> /\ ~ should_terminate
  /\ workerPc' = [workerPc EXCEPT ![w] = "wait"]
  /\ UNCHANGED <<jobs, should_terminate, owner, job, producerPc, queued, started, stopped>>

\* wait may return without a notification.
SpuriousWake(w) ==
  /\ workerPc[w] = "wait"
  /\ workerPc' = [workerPc EXCEPT ![w] = "check"]
  /\ UNCHANGED <<jobs, should_terminate, owner, job, producerPc, queued, started, stopped>>

\* should_terminate goes before the jobs that are left.
ThreadExit(w) ==
  /\ workerPc[w] = "check"
  /\ should_terminate
  /\ workerPc' = [workerPc EXCEPT ![w] = "exit"]
  /\ UNCHANGED <<jobs, should_terminate, owner, job, producerPc, queued, started, stopped>>

\* Slip: a worker empties the queue before it looks at should_terminate.
MayTake_Drain == jobs # <<>>

MayTake == jobs # <<>> /\ ~ should_terminate

\* Slip: a stack of jobs for a queue.
FirstJob_Last(q) == q[Len(q)]

\* front()
FirstJob(q) == Head(q)

\* Slip: front() without pop().
Popped_Not(q) == q

\* pop()
Popped(q) == Tail(q)

ThreadTake(w) ==
  /\ workerPc[w] = "check"
  /\ MayTake
  /\ job' = [job EXCEPT ![w] = FirstJob(jobs)]
  /\ started' = Append(started, FirstJob(jobs))
  /\ jobs' = Popped(jobs)
  /\ workerPc' = [workerPc EXCEPT ![w] = "run"]
  /\ UNCHANGED <<should_terminate, owner, producerPc, queued, stopped>>

\* job.second() returns.
JobReturns(w) ==
  /\ workerPc[w] = "run"
  /\ job[w] \notin Looping
  /\ workerPc' = [workerPc EXCEPT ![w] = "check"]
  /\ UNCHANGED <<jobs, should_terminate, owner, job, producerPc, queued, started, stopped>>

-----------------------------------------------------------------------------
(* QueueJob()                                                              *)

\* Slip: a number is left out.
NewJob_Ahead == queued + 2

\* Jobs are numbered from 1.
NewJob == queued + 1

\* Slip: only the job that finds the queue empty notifies.
AfterPush_IfEmpty == IF jobs = <<>> THEN "notify" ELSE "idle"

AfterPush == "notify"

QueueJob(p) ==
  /\ producerPc[p] = "idle"
  /\ queued < MaxJobs
  /\ jobs' = Append(jobs, NewJob)
  /\ queued' = queued + 1
  /\ producerPc' = [producerPc EXCEPT ![p] = AfterPush]
  /\ UNCHANGED <<should_terminate, owner, workerPc, job, started, stopped>>

\* notify_one wakes one of the threads that wait, if there is one.
WakeOne ==
  \/ Waiting = {} /\ UNCHANGED workerPc
  \/ \E w \in Waiting : workerPc' = [workerPc EXCEPT ![w] = "check"]

NotifyOne(p) ==
  /\ producerPc[p] = "notify"
  /\ producerPc' = [producerPc EXCEPT ![p] = "idle"]
  /\ WakeOne
  /\ UNCHANGED <<jobs, should_terminate, owner, job, queued, started, stopped>>

-----------------------------------------------------------------------------
(* stop()                                                                  *)

StopFlag ==
  /\ owner = "started"
  /\ should_terminate' = TRUE
  /\ stopped' = TRUE
  /\ owner' = "notifyAll"
  /\ UNCHANGED <<jobs, workerPc, job, producerPc, queued, started>>

\* Slip: notify_one for notify_all.
WakeAll_One == WakeOne

WakeAll ==
  workerPc' = [w \in Workers |-> IF w \in Waiting THEN "check" ELSE workerPc[w]]

NotifyAll ==
  /\ owner = "notifyAll"
  /\ WakeAll
  /\ owner' = "join"
  /\ UNCHANGED <<jobs, should_terminate, job, producerPc, queued, started, stopped>>

\* Slip: the threads are detached.
Joined_Not ==
  /\ owner = "join"
  /\ owner' = "idle"
  /\ UNCHANGED <<jobs, should_terminate, workerPc, job, producerPc, queued, started, stopped>>

\* Every thread has been joined; threads.clear().
Joined ==
  /\ owner = "join"
  /\ \A w \in Workers : workerPc[w] = "exit"
  /\ workerPc' = [w \in Workers |-> "none"]
  /\ owner' = "idle"
  /\ UNCHANGED <<jobs, should_terminate, job, producerPc, queued, started, stopped>>

-----------------------------------------------------------------------------
WorkerStep(w) == ThreadWait(w) \/ ThreadExit(w) \/ ThreadTake(w) \/ JobReturns(w)

StartStep == (\E w \in Workers : StartThread(w)) \/ StartDone

Next ==
  \/ Start \/ StartStep
  \/ \E w \in Workers : WorkerStep(w) \/ SpuriousWake(w)
  \/ \E p \in Producers : QueueJob(p) \/ NotifyOne(p)
  \/ StopFlag \/ NotifyAll \/ Joined

Spec == Init /\ [][Next]_vars

\* A call that has begun goes on, a thread that can run does; nobody has to call
\* start, QueueJob or stop, and no spurious wake-up is counted on.
Fairness ==
  /\ \A w \in Workers : WF_vars(WorkerStep(w))
  /\ \A p \in Producers : WF_vars(NotifyOne(p))
  /\ WF_vars(StartStep) /\ WF_vars(NotifyAll) /\ WF_vars(Joined)

FairSpec == Spec /\ Fairness

-----------------------------------------------------------------------------
TypeOK ==
  /\ jobs \in Seq(1 .. queued)
  /\ should_terminate \in BOOLEAN
  /\ owner \in {"idle", "start", "started", "notifyAll", "join"}
  /\ workerPc \in [Workers -> {"none", "check", "wait", "run", "exit"}]
  /\ job \in [Workers -> Nat]
  /\ producerPc \in [Producers -> {"idle", "notify"}]
  /\ queued \in Nat
  /\ started \in Seq(1 .. queued)
  /\ stopped \in BOOLEAN

\* Every job is taken once and in the order of QueueJob: the jobs taken followed by
\* the jobs in the queue are all the jobs there have been, whoever took them.
JobsInOrder == started \o jobs = [i \in 1 .. queued |-> i]

\* No two workers run the same job.
OneWorkerPerJob ==
  \A v, w \in Workers :
    workerPc[v] = "run" /\ workerPc[w] = "run" /\ job[v] = job[w] => v = w

\* No wake-up is lost although notify_one comes after the unlock: while a worker
\* sleeps, each job in the queue has a notification under way or a worker that is
\* about to look at the queue.
NoLostWakeup ==
  ~ should_terminate /\ Waiting # {} =>
    Len(jobs) <= Cardinality(Notifying) + Cardinality(Checking)

\* Once stop has notified, no worker sleeps: join cannot wait for a sleeper.
NobodySleepsThroughStop ==
  should_terminate /\ owner # "notifyAll" => Waiting = {}

\* From the first stop on no job is begun: not the ones it leaves in the queue, not the
\* ones that are queued later, and also not by the threads of a later start.
NothingBeginsAfterStop == [][stopped => started' = started]_vars

\* A job in the queue of a running pool is begun, unless stop comes first or
\* every worker is in a job that does not return.
JobsBegin ==
  \A k \in 1 .. MaxJobs :
    (owner = "started" /\ k \in Range(jobs))
      ~> \/ k \in Range(started)
         \/ should_terminate
         \/ \A w \in Workers : workerPc[w] = "run" /\ job[w] \in Looping

\* stop returns, unless a worker is in a job that does not return.
StopReturns ==
  (owner = "notifyAll")
    ~> \/ owner = "idle"
       \/ \E w \in Workers : workerPc[w] = "run" /\ job[w] \in Looping
=============================================================================
