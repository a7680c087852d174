-------------------------- MODULE ThreadPoolProofs --------------------------
(***************************************************************************)
(* Proofs about the thread pool, for any number of workers, of producers   *)
(* and of jobs.                                                            *)
(***************************************************************************)
EXTENDS ThreadPool, FiniteSetTheorems, SequenceTheorems, TLAPS

\* The short operators the actions are written with.
USE DEF MayTake, FirstJob, Popped, NewJob, AfterPush, WakeOne, WakeAll

\* A sequence without its first element, which another one has got: the two
\* together are what they were (the take of ThreadLoop).
LEMMA TakeKeepsAll ==
  ASSUME NEW S, NEW s \in Seq(S), NEW t \in Seq(S), t # <<>>
  PROVE  Append(s, Head(t)) \o Tail(t) = s \o t
<1>1. /\ Head(t) \in S /\ Tail(t) \in Seq(S) /\ Len(Tail(t)) = Len(t) - 1
      /\ Len(t) \in Nat \ {0} /\ Len(s) \in Nat
      /\ \A i \in 1 .. Len(Tail(t)) : Tail(t)[i] = t[i + 1]
  BY HeadTailProperties, EmptySeq, LenProperties
<1>2. Append(s, Head(t)) \in Seq(S) /\ Len(Append(s, Head(t))) = Len(s) + 1
  BY <1>1, AppendProperties
<1>3. /\ Append(s, Head(t)) \o Tail(t) \in Seq(S)
      /\ s \o t \in Seq(S)
      /\ Len(Append(s, Head(t)) \o Tail(t)) = Len(s) + Len(t)
      /\ Len(s \o t) = Len(s) + Len(t)
  BY <1>1, <1>2, ConcatProperties
<1>4. ASSUME NEW i \in 1 .. Len(s) + Len(t)
      PROVE  (Append(s, Head(t)) \o Tail(t))[i] = (s \o t)[i]
  <2>1. (s \o t)[i] = IF i <= Len(s) THEN s[i] ELSE t[i - Len(s)]
    BY ConcatProperties
  <2>2. (Append(s, Head(t)) \o Tail(t))[i] =
          IF i <= Len(s) + 1 THEN Append(s, Head(t))[i] ELSE Tail(t)[i - (Len(s) + 1)]
    BY <1>1, <1>2, ConcatProperties
  <2>3. CASE i <= Len(s)
    BY <1>1, <2>1, <2>2, <2>3, AppendProperties
  <2>4. CASE i = Len(s) + 1
    BY <1>1, <2>1, <2>2, <2>4, AppendProperties
  <2>5. CASE i > Len(s) + 1
    BY <1>1, <2>1, <2>2, <2>5
  <2> QED  BY <1>1, <2>3, <2>4, <2>5
<1> QED  BY <1>3, <1>4, SeqEqual

-----------------------------------------------------------------------------
\* A pool that was not started has its type.
LEMMA InitTypeOK == Init => TypeOK
<1> SUFFICES ASSUME Init PROVE TypeOK
  OBVIOUS
<1>1. jobs \in Seq(1 .. queued) /\ started \in Seq(1 .. queued)
  BY EmptySeq DEF Init
<1> QED  BY <1>1 DEF Init, TypeOK

\* Every step of the pool keeps its state well typed.
LEMMA NextTypeOK == TypeOK /\ [Next]_vars => TypeOK'
<1> SUFFICES ASSUME TypeOK, [Next]_vars PROVE TypeOK'
  OBVIOUS
<1> USE DEF TypeOK
<1>1. CASE \E w \in Workers : StartThread(w) \/ ThreadWait(w) \/ SpuriousWake(w)
                               \/ ThreadExit(w) \/ JobReturns(w)
  BY <1>1 DEF StartThread, ThreadWait, SpuriousWake, ThreadExit, JobReturns
<1>2. ASSUME NEW w \in Workers, ThreadTake(w) PROVE TypeOK'
  <2>1. Head(jobs) \in 1 .. queued /\ Tail(jobs) \in Seq(1 .. queued)
    BY <1>2, HeadTailProperties DEF ThreadTake
  <2>2. Append(started, Head(jobs)) \in Seq(1 .. queued)
    BY <2>1, AppendProperties
  <2> QED  BY <1>2, <2>1, <2>2 DEF ThreadTake
<1>3. ASSUME NEW p \in Producers, QueueJob(p) PROVE TypeOK'
  <2>1. jobs \in Seq(1 .. queued + 1) /\ started \in Seq(1 .. queued + 1)
    BY 1 .. queued \subseteq 1 .. queued + 1, SeqMonotonic
  <2>2. Append(jobs, queued + 1) \in Seq(1 .. queued + 1)
    BY <2>1, AppendProperties
  <2> QED  BY <1>3, <2>1, <2>2 DEF QueueJob
<1>4. ASSUME NEW p \in Producers, NotifyOne(p) PROVE TypeOK'
  BY <1>4 DEF NotifyOne, Waiting
<1>5. CASE Start \/ StartDone \/ StopFlag \/ NotifyAll \/ Joined
  BY <1>5 DEF Start, StartDone, StopFlag, NotifyAll, Joined
<1>6. CASE UNCHANGED vars
  BY <1>6 DEF vars
<1> QED  BY <1>1, <1>2, <1>3, <1>4, <1>5, <1>6 DEF Next, StartStep, WorkerStep

\* Type correctness: every state of ThreadPool is well typed, and every job in the
\* queue or taken from it is one that QueueJob has numbered.
THEOREM TypeCorrect == Spec => []TypeOK
BY InitTypeOK, NextTypeOK, PTL DEF Spec

-----------------------------------------------------------------------------
\* The threads that wait, check and notify are finitely many.
LEMMA FiniteCounts ==
  /\ IsFiniteSet(Checking) /\ IsFiniteSet(Notifying)
  /\ Cardinality(Checking) \in Nat /\ Cardinality(Notifying) \in Nat
BY PoolAssumption, FS_Subset, FS_CardinalityType DEF Checking, Notifying

\* Nobody sleeps in a pool that was not started.
LEMMA InitWakeup == Init => NoLostWakeup /\ NobodySleepsThroughStop
BY DEF Init, NoLostWakeup, NobodySleepsThroughStop, Waiting

\* notify_one after the unlock loses nothing: each way the left side of the count
\* grows (a job is queued) or the right side shrinks (a worker takes, a producer has
\* notified) is matched by the other side.
LEMMA NextNoLostWakeup == TypeOK /\ NoLostWakeup /\ [Next]_vars => NoLostWakeup'
<1> SUFFICES ASSUME TypeOK, NoLostWakeup, [Next]_vars,
                    ~ should_terminate', Waiting' # {}
             PROVE  Len(jobs') <= Cardinality(Notifying') + Cardinality(Checking')
  BY DEF NoLostWakeup
<1>0. /\ IsFiniteSet(Checking) /\ IsFiniteSet(Notifying)
      /\ Cardinality(Checking) \in Nat /\ Cardinality(Notifying) \in Nat
      /\ Len(jobs) \in Nat
  BY FiniteCounts, LenProperties DEF TypeOK
<1>1. ASSUME NEW w \in Workers, StartThread(w) \/ SpuriousWake(w) \/ JobReturns(w)
      PROVE  Len(jobs') <= Cardinality(Notifying') + Cardinality(Checking')
  <2>1. /\ workerPc' = [workerPc EXCEPT ![w] = "check"]
        /\ workerPc[w] # "check"
        /\ UNCHANGED <<jobs, should_terminate, producerPc>>
    BY <1>1 DEF StartThread, SpuriousWake, JobReturns
  <2>2. Checking' = Checking \cup {w} /\ w \notin Checking /\ Notifying' = Notifying
    BY <2>1 DEF TypeOK, Checking, Notifying
  <2>3. Waiting # {} /\ ~ should_terminate
    BY <2>1 DEF TypeOK, Waiting
  <2>4. Cardinality(Checking') = Cardinality(Checking) + 1
    BY <1>0, <2>2, FS_AddElement
  <2> QED  BY <1>0, <2>1, <2>2, <2>3, <2>4 DEF NoLostWakeup
<1>2. ASSUME NEW w \in Workers, ThreadWait(w)
      PROVE  Len(jobs') <= Cardinality(Notifying') + Cardinality(Checking')
  <2>1. jobs' = <<>> /\ workerPc' = [workerPc EXCEPT ![w] = "wait"] /\ workerPc[w] = "check"
        /\ UNCHANGED producerPc
    BY <1>2 DEF ThreadWait
  <2>2. Checking' = Checking \ {w} /\ Notifying' = Notifying
    BY <2>1 DEF TypeOK, Checking, Notifying
  <2>3. Cardinality(Checking') \in Nat
    BY <1>0, <2>2, FS_RemoveElement, FS_CardinalityType
  <2> QED  BY <1>0, <2>1, <2>2, <2>3
<1>3. ASSUME NEW w \in Workers, ThreadExit(w)
      PROVE  FALSE
  BY <1>3 DEF ThreadExit
<1>4. ASSUME NEW w \in Workers, ThreadTake(w)
      PROVE  Len(jobs') <= Cardinality(Notifying') + Cardinality(Checking')
  <2>1. /\ workerPc' = [workerPc EXCEPT ![w] = "run"] /\ workerPc[w] = "check"
        /\ jobs # <<>> /\ jobs' = Tail(jobs)
        /\ UNCHANGED <<should_terminate, producerPc>>
    BY <1>4 DEF ThreadTake
  <2>2. Checking' = Checking \ {w} /\ w \in Checking /\ Notifying' = Notifying
    BY <2>1 DEF TypeOK, Checking, Notifying
  <2>3. Waiting # {} /\ ~ should_terminate
    BY <2>1 DEF TypeOK, Waiting
  <2>4. Cardinality(Checking') = Cardinality(Checking) - 1
    BY <1>0, <2>2, FS_RemoveElement
  <2>5. Len(jobs') = Len(jobs) - 1
    BY <2>1, HeadTailProperties DEF TypeOK
  <2> QED  BY <1>0, <2>2, <2>3, <2>4, <2>5 DEF NoLostWakeup
<1>5. ASSUME NEW p \in Producers, QueueJob(p)
      PROVE  Len(jobs') <= Cardinality(Notifying') + Cardinality(Checking')
  <2>1. /\ producerPc' = [producerPc EXCEPT ![p] = "notify"] /\ producerPc[p] = "idle"
        /\ jobs' = Append(jobs, queued + 1)
        /\ UNCHANGED <<should_terminate, workerPc>>
    BY <1>5 DEF QueueJob
  <2>2. Notifying' = Notifying \cup {p} /\ p \notin Notifying /\ Checking' = Checking
    BY <2>1 DEF TypeOK, Checking, Notifying
  <2>3. Waiting # {} /\ ~ should_terminate
    BY <2>1 DEF Waiting
  <2>4. Cardinality(Notifying') = Cardinality(Notifying) + 1
    BY <1>0, <2>2, FS_AddElement
  <2>5. Len(jobs') = Len(jobs) + 1
    BY <2>1 DEF TypeOK
  <2> QED  BY <1>0, <2>2, <2>3, <2>4, <2>5 DEF NoLostWakeup
<1>6. ASSUME NEW p \in Producers, NotifyOne(p)
      PROVE  Len(jobs') <= Cardinality(Notifying') + Cardinality(Checking')
  <2>1. /\ producerPc' = [producerPc EXCEPT ![p] = "idle"] /\ producerPc[p] = "notify"
        /\ UNCHANGED <<jobs, should_terminate>>
    BY <1>6 DEF NotifyOne
  <2>2. PICK w \in Waiting : workerPc' = [workerPc EXCEPT ![w] = "check"]
    BY <1>6 DEF NotifyOne, Waiting
  <2>3. Notifying' = Notifying \ {p} /\ p \in Notifying
    BY <2>1 DEF TypeOK, Notifying
  <2>4. Checking' = Checking \cup {w} /\ w \notin Checking
    BY <2>2 DEF TypeOK, Checking, Waiting
  <2>5. Cardinality(Checking') = Cardinality(Checking) + 1
    BY <1>0, <2>4, FS_AddElement
  <2>6. Cardinality(Notifying') = Cardinality(Notifying) - 1
    BY <1>0, <2>3, FS_RemoveElement
  <2> QED  BY <1>0, <2>1, <2>2, <2>5, <2>6 DEF NoLostWakeup
<1>7. CASE Start \/ StartDone \/ UNCHANGED vars
  BY <1>7 DEF Start, StartDone, vars, NoLostWakeup, Waiting, Checking, Notifying
<1>8. CASE StopFlag
  BY <1>8 DEF StopFlag
<1>9. CASE NotifyAll \/ Joined
  BY <1>9 DEF NotifyAll, Joined, Waiting, TypeOK
<1> QED  BY <1>1, <1>2, <1>3, <1>4, <1>5, <1>6, <1>7, <1>8, <1>9
         DEF Next, StartStep, WorkerStep

\* A worker goes to sleep only while should_terminate is unset.
LEMMA NextNobodySleeps ==
  TypeOK /\ NobodySleepsThroughStop /\ [Next]_vars => NobodySleepsThroughStop'
<1> SUFFICES ASSUME TypeOK, NobodySleepsThroughStop, [Next]_vars
             PROVE  NobodySleepsThroughStop'
  OBVIOUS
<1> USE DEF NobodySleepsThroughStop, Waiting, TypeOK
<1>1. CASE \E w \in Workers : StartThread(w) \/ SpuriousWake(w) \/ ThreadExit(w)
                               \/ ThreadTake(w) \/ JobReturns(w) \/ ThreadWait(w)
  BY <1>1 DEF StartThread, ThreadWait, SpuriousWake, ThreadExit, ThreadTake, JobReturns
<1>2. CASE \E p \in Producers : QueueJob(p) \/ NotifyOne(p)
  BY <1>2 DEF QueueJob, NotifyOne
<1>3. CASE Start \/ StartDone \/ StopFlag \/ NotifyAll \/ Joined \/ UNCHANGED vars
  BY <1>3 DEF Start, StartDone, StopFlag, NotifyAll, Joined, vars
<1> QED  BY <1>1, <1>2, <1>3 DEF Next, StartStep, WorkerStep

\* No wake-up is lost: while a worker sleeps, every job in the queue has a
\* notification under way or a worker about to look at the queue.
THEOREM WakeupsAreKept == Spec => []NoLostWakeup
BY InitTypeOK, NextTypeOK, InitWakeup, NextNoLostWakeup, PTL DEF Spec

\* stop() leaves no worker asleep when it begins to join.
THEOREM StopWakesEverybody == Spec => []NobodySleepsThroughStop
BY InitTypeOK, NextTypeOK, InitWakeup, NextNobodySleeps, PTL DEF Spec

-----------------------------------------------------------------------------
(* Jobs are taken in order, each by one worker.  OneWorkerPerJob needs to   *)
(* know that a job under way is one of the jobs taken so far, while the     *)
(* job at the head of the queue is the one after them.                      *)

RunningWereTaken ==
  \A w \in Workers : workerPc[w] = "run" => job[w] \in 1 .. Len(started)

JobsInv == TypeOK /\ JobsInOrder /\ RunningWereTaken /\ OneWorkerPerJob

\* No job has been queued at first.
LEMMA InitJobsInv == Init => JobsInv
<1> SUFFICES ASSUME Init PROVE JobsInv
  OBVIOUS
<1>1. started \o jobs = [i \in 1 .. queued |-> i]
  BY DEF Init
<1> QED  BY <1>1, InitTypeOK DEF Init, JobsInv, JobsInOrder, RunningWereTaken, OneWorkerPerJob

\* The next job of the queue has the number after those taken.
LEMMA HeadIsNext ==
  ASSUME TypeOK, JobsInOrder, jobs # <<>>
  PROVE  Head(jobs) = Len(started) + 1
<1>1. Len(started) \in Nat /\ Len(jobs) \in Nat \ {0}
  BY LenProperties, EmptySeq DEF TypeOK
<1>2. /\ Len(started \o jobs) = Len(started) + Len(jobs)
      /\ (started \o jobs)[Len(started) + 1] = jobs[1]
  BY <1>1, ConcatProperties DEF TypeOK
<1>3. Len(started \o jobs) = queued
  BY DEF JobsInOrder, TypeOK
<1>4. Len(started) + 1 \in 1 .. queued
  BY <1>1, <1>2, <1>3
<1>5. (started \o jobs)[Len(started) + 1] = Len(started) + 1
  BY <1>4 DEF JobsInOrder
<1>6. Head(jobs) = jobs[1]
  BY DEF TypeOK
<1> QED  BY <1>2, <1>5, <1>6

\* Whoever takes a job takes the one after the last that was taken.
LEMMA NextJobsInv == JobsInv /\ [Next]_vars => JobsInv'
<1> SUFFICES ASSUME JobsInv, [Next]_vars PROVE JobsInv'
  OBVIOUS
<1>0. TypeOK /\ TypeOK'
  BY NextTypeOK DEF JobsInv
<1>1. ASSUME NEW w \in Workers, ThreadTake(w) PROVE JobsInv'
  <2>1. /\ workerPc[w] = "check" /\ jobs # <<>>
        /\ job' = [job EXCEPT ![w] = Head(jobs)]
        /\ started' = Append(started, Head(jobs)) /\ jobs' = Tail(jobs)
        /\ workerPc' = [workerPc EXCEPT ![w] = "run"] /\ UNCHANGED queued
    BY <1>1 DEF ThreadTake
  <2>2. started' \o jobs' = started \o jobs
    <3>1. started \in Seq(1 .. queued) /\ jobs \in Seq(1 .. queued) /\ jobs # <<>>
      BY <1>0, <2>1 DEF TypeOK
    <3>2. Append(started, Head(jobs)) \o Tail(jobs) = started \o jobs
      BY <3>1, TakeKeepsAll
    <3> QED  BY <2>1, <3>2
  <2>3. JobsInOrder'
    BY <2>1, <2>2 DEF JobsInv, JobsInOrder
  <2>4. Head(jobs) = Len(started) + 1
    BY <1>0, <2>1, HeadIsNext DEF JobsInv
  <2>5. Len(started) \in Nat /\ Len(started') = Len(started) + 1
    <3>1. Head(jobs) \in 1 .. queued
      BY <1>0, <2>1, HeadTailProperties DEF TypeOK
    <3> QED  BY <1>0, <2>1, <3>1, AppendProperties, LenProperties DEF TypeOK
  <2>6. job'[w] = Len(started) + 1 /\ workerPc'[w] = "run"
    BY <1>0, <2>1, <2>4 DEF TypeOK
  <2>7. ASSUME NEW v \in Workers, v # w, workerPc'[v] = "run"
        PROVE  workerPc[v] = "run" /\ job'[v] = job[v] /\ job[v] \in 1 .. Len(started)
    BY <1>0, <2>1, <2>7 DEF TypeOK, JobsInv, RunningWereTaken
  <2>8. RunningWereTaken'
    BY <2>5, <2>6, <2>7 DEF RunningWereTaken
  <2>9. OneWorkerPerJob'
    BY <2>5, <2>6, <2>7 DEF JobsInv, OneWorkerPerJob
  <2> QED  BY <1>0, <2>3, <2>8, <2>9 DEF JobsInv
<1>2. ASSUME NEW p \in Producers, QueueJob(p) PROVE JobsInv'
  <2>1. /\ jobs' = Append(jobs, queued + 1) /\ queued' = queued + 1
        /\ UNCHANGED <<workerPc, job, started>>
    BY <1>2 DEF QueueJob
  <2>2. jobs \in Seq(Nat) /\ started \in Seq(Nat) /\ queued \in Nat
    BY <1>0, 1 .. queued \subseteq Nat, SeqMonotonic DEF TypeOK
  <2>3. started \o Append(jobs, queued + 1) = Append(started \o jobs, queued + 1)
    BY <2>2
  <2>4. Append([i \in 1 .. queued |-> i], queued + 1) = [i \in 1 .. queued + 1 |-> i]
    BY <2>2
  <2>5. JobsInOrder'
    BY <2>1, <2>3, <2>4 DEF JobsInv, JobsInOrder
  <2> QED  BY <1>0, <2>1, <2>5 DEF JobsInv, RunningWereTaken, OneWorkerPerJob
<1>3. CASE \/ \E w \in Workers : StartThread(w) \/ ThreadWait(w) \/ SpuriousWake(w)
                                  \/ ThreadExit(w) \/ JobReturns(w)
           \/ \E p \in Producers : NotifyOne(p)
           \/ Start \/ StartDone \/ StopFlag \/ NotifyAll \/ Joined \/ UNCHANGED vars
  <2>1. UNCHANGED <<jobs, job, queued, started>>
    BY <1>3 DEF StartThread, ThreadWait, SpuriousWake, ThreadExit, JobReturns, NotifyOne,
                Start, StartDone, StopFlag, NotifyAll, Joined, vars
  <2>2. \A w \in Workers : workerPc'[w] = "run" => workerPc[w] = "run"
    BY <1>0, <1>3 DEF TypeOK, StartThread, ThreadWait, SpuriousWake, ThreadExit, JobReturns,
                NotifyOne, Start, StartDone, StopFlag, NotifyAll, Joined, vars, Waiting
  <2> QED  BY <1>0, <2>1, <2>2 DEF JobsInv, JobsInOrder, RunningWereTaken, OneWorkerPerJob
<1> QED  BY <1>1, <1>2, <1>3 DEF Next, StartStep, WorkerStep

\* The invariant of the jobs holds in every behaviour.
LEMMA JobsInvariant == Spec => []JobsInv
BY InitJobsInv, NextJobsInv, PTL DEF Spec

\* The pool takes every job once and in the order of QueueJob.
THEOREM JobsAreTakenInOrder == Spec => []JobsInOrder
BY JobsInvariant, PTL DEF JobsInv

\* Two workers never execute the same job.
THEOREM JobsAreNotShared == Spec => []OneWorkerPerJob
BY JobsInvariant, PTL DEF JobsInv

-----------------------------------------------------------------------------
\* What stop has set stays set: no other call writes should_terminate.
FlagIsKept == stopped => should_terminate

\* The invariant of the flag holds in every behaviour.
LEMMA FlagInvariant == Spec => []FlagIsKept
<1>1. Init => FlagIsKept
  BY DEF Init, FlagIsKept
<1>2. FlagIsKept /\ [Next]_vars => FlagIsKept'
  BY DEF FlagIsKept, Next, StartStep, WorkerStep, vars, Start, StartThread, StartDone, ThreadWait,
         SpuriousWake, ThreadExit, ThreadTake, JobReturns, QueueJob, NotifyOne,
         StopFlag, NotifyAll, Joined
<1> QED  BY <1>1, <1>2, PTL DEF Spec

\* Once stop has been called no job is begun, whatever is queued and started afterwards:
\* the one action that begins a job needs a flag that nothing clears.
THEOREM StopIsFinal == Spec => NothingBeginsAfterStop
<1>1. FlagIsKept /\ [Next]_vars => [stopped => started' = started]_vars
  <2> SUFFICES ASSUME FlagIsKept, Next, stopped PROVE started' = started
    OBVIOUS
  <2>1. \A w \in Workers : ~ ThreadTake(w)
    BY DEF FlagIsKept, ThreadTake
  <2> QED
    BY <2>1 DEF Next, StartStep, WorkerStep, Start, StartThread, StartDone, ThreadWait,
           SpuriousWake, ThreadExit, JobReturns, QueueJob, NotifyOne, StopFlag, NotifyAll, Joined
<1> QED  BY <1>1, FlagInvariant, PTL DEF Spec, NothingBeginsAfterStop
=============================================================================
