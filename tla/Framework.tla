----------------------------- MODULE Framework -----------------------------
(***************************************************************************)
(* DataFramework: construction (module Setup), run() and stop() of the     *)
(* whole program, composed with the thread pool (module ThreadPool) that   *)
(* executes its jobs.                                                      *)
(*                                                                         *)
(* Three kinds of jobs go through the pool.  DataManager::run and          *)
(* Consumer::run loop until somebody clears their flag, and set the flag   *)
(* themselves when they begin.  The run of a UDP node returns by itself.   *)
(* The run of a TCP server may block in a read until a client sends or     *)
(* closes (see RunReturns of module TcpServer).  The main thread (runJobs) *)
(* queues the nodes of the input proxy again and again.  What the jobs     *)
(* move is the business of modules DataManager, TcpServer and UdpPipeline. *)
(***************************************************************************)
EXTENDS Setup

CONSTANTS
  Workers,     \* the threads of the pool, threadCount of them
  MaxJobs      \* bound: jobs queued; runJobs queues without end

\* The data manager's job, and the framework beside it: not the nodes of a topology.
DM  == [type |-> "DataManager", name |-> "dm_run"]
App == [type |-> "DataFramework", name |-> "framework"]

NodesOf(t) == UNION {Range(t.proxies[d]) : d \in DOMAIN t.proxies}
AllNodes == UNION {NodesOf(t) : t \in Topologies}

ASSUME FrameworkAssumption ==
  /\ IsFiniteSet(Workers)
  /\ {DM, App} \cap AllNodes = {}
  /\ MaxJobs \in Nat
  /\ \A t \in Topologies : MaxJobs > Cardinality(NodesOf(t))   \* a turn of runJobs at least

VARIABLES
  \* the pool, see ThreadPool
  jobs, should_terminate, owner, workerPc, job, producerPc, queued, started,
  stopped,
  name,          \* what each job queued executes: DM or a node
  app,           \* where the thread that constructs, runs and stops is
  mainThread,    \* where m_mainThread is in runJobs()
  at,            \* the node each of the two has come to
  m_isRunning,   \* the flags: of the framework, the data manager (isRunning_)
                 \* and the nodes
  body           \* where each worker is in the job it executes

pool == <<jobs, should_terminate, owner, workerPc, job, producerPc, queued, started,
         stopped>>
own  == <<setup, name, app, mainThread, at, m_isRunning, body>>
vars == <<pool, own>>

Pool == INSTANCE ThreadPool WITH Producers <- {"app", "main"}, Looping <- {}

InNodes  == m_proxyNodeList["in"]
OutNodes == m_proxyNodeList["out"]
Consumers == {n \in AllNodes : n.type = "CONSUMER"}
Loopers   == Consumers \cup {DM}
Flags     == NodesOf(m_pt) \cup {DM, App}

\* What worker w executes.
Job(w) == name[job[w]]

Init ==
  /\ SetupInit
  /\ Pool!Init
  /\ name = <<>>
  /\ app = "new" /\ mainThread = "none"
  /\ at = [p \in {"app", "main"} |-> 1]
  /\ m_isRunning \in {f \in [Flags -> BOOLEAN] : \A x \in Flags \ {DM} : ~ f[x]}
  /\ body = [w \in Workers |-> "none"]

\* The constructor; it returns whether parseConf has succeeded or not.
Construction ==
  /\ app = "new"
  /\ Construct
  /\ UNCHANGED <<pool, name, app, mainThread, at, m_isRunning, body>>

Constructed == step \in {"built", "failed"}

-----------------------------------------------------------------------------
(* run()                                                                   *)

RunStart ==
  /\ app = "new" /\ Constructed /\ "pool" \in made
  /\ Pool!Start
  /\ app' = "start"
  /\ UNCHANGED <<setup, name, mainThread, at, m_isRunning, body>>

\* A part that was never made is used: the program ends here.
Crash ==
  /\ \/ app = "new" /\ Constructed /\ "pool" \notin made
     \/ app = "queueOut" /\ producerPc["app"] = "idle" /\ "out" \notin made
     \/ app = "stopDm" /\ "dm" \notin made
     \/ app = "stopIn" /\ "in" \notin made
     \/ app = "stopOut" /\ "out" \notin made
     \/ mainThread = "queue" /\ "in" \notin made
     \/ \E w \in Workers : body[w] = "begin" /\ Job(w) = DM /\ "dm" \notin made
  /\ app' = "crashed"
  /\ UNCHANGED <<pool, setup, name, mainThread, at, m_isRunning, body>>

RunThread(w) == Pool!StartThread(w) /\ UNCHANGED own

RunStarted ==
  /\ app = "start"
  /\ Pool!StartDone
  /\ app' = "queueDm"
  /\ m_isRunning' = [m_isRunning EXCEPT ![App] = TRUE]
  /\ UNCHANGED <<setup, name, mainThread, at, body>>

\* Slip: the name of the job is not kept.
Queue_NoName(p, n) == Pool!QueueJob(p) /\ UNCHANGED name

\* Thread p queues the run of n.
Queue(p, n) == Pool!QueueJob(p) /\ name' = Append(name, n)

RunDataManager ==
  /\ app = "queueDm"
  /\ Queue("app", DM)
  /\ app' = "queueOut"
  /\ UNCHANGED <<setup, mainThread, at, m_isRunning, body>>

\* One turn of the loop of m_outProxyPtr->run().
RunOut ==
  /\ app = "queueOut" /\ "out" \in made /\ at["app"] <= Len(OutNodes)
  /\ Queue("app", OutNodes[at["app"]])
  /\ at' = [at EXCEPT !["app"] = @ + 1]
  /\ UNCHANGED <<setup, app, mainThread, m_isRunning, body>>

\* The main thread is created and run() returns.
RunDone ==
  /\ app = "queueOut" /\ "out" \in made /\ at["app"] > Len(OutNodes)
  /\ producerPc["app"] = "idle"
  /\ mainThread' = "test"
  /\ app' = "up"
  /\ UNCHANGED <<pool, setup, name, at, m_isRunning, body>>

\* The second half of QueueJob.
Notify(p) == Pool!NotifyOne(p) /\ UNCHANGED own

-----------------------------------------------------------------------------
(* runJobs(): m_inProxyPtr->run() while the framework is running.          *)

MainTest ==
  /\ mainThread = "test"
  /\ mainThread' = IF m_isRunning[App] THEN "queue" ELSE "ended"
  /\ at' = [at EXCEPT !["main"] = 1]
  /\ UNCHANGED <<pool, setup, name, app, m_isRunning, body>>

\* Slip: runJobs runs the output proxy.
JobNodes_Out == OutNodes

\* The nodes of m_inProxyPtr.
JobNodes == InNodes

MainQueue ==
  /\ mainThread = "queue" /\ "in" \in made /\ at["main"] <= Len(JobNodes)
  /\ Queue("main", JobNodes[at["main"]])
  /\ at' = [at EXCEPT !["main"] = @ + 1]
  /\ UNCHANGED <<setup, app, mainThread, m_isRunning, body>>

\* The end of a turn; at the bound the rest of the turn is left out.
MainTurn ==
  /\ mainThread = "queue" /\ "in" \in made
  /\ at["main"] > Len(JobNodes) \/ queued = MaxJobs
  /\ producerPc["main"] = "idle"
  /\ mainThread' = "test"
  /\ UNCHANGED <<pool, setup, name, app, at, m_isRunning, body>>

-----------------------------------------------------------------------------
(* stop()                                                                  *)


Clear(x) == m_isRunning' = [m_isRunning EXCEPT ![x] = FALSE]

\* The caller may come before run() and, again, after a stop() that has returned.
Stop ==
  /\ app \in {"up", "stopped"} \/ (app = "new" /\ Constructed)
  /\ Clear(App)
  /\ app' = "stopDm"
  /\ UNCHANGED <<pool, setup, name, mainThread, at, body>>

\* m_dataManager->stop()
StopDataManager ==
  /\ app = "stopDm" /\ "dm" \in made
  /\ Clear(DM)
  /\ at' = [at EXCEPT !["app"] = 1]
  /\ app' = "stopIn"
  /\ UNCHANGED <<pool, setup, name, mainThread, body>>

\* One turn of the loop of m_inProxyPtr->stop(); of the input nodes only a consumer
\* looks at its flag.
StopIn ==
  /\ app = "stopIn" /\ "in" \in made /\ at["app"] <= Len(InNodes)
  /\ Clear(InNodes[at["app"]])
  /\ at' = [at EXCEPT !["app"] = @ + 1]
  /\ UNCHANGED <<pool, setup, name, app, mainThread, body>>

StopInDone ==
  /\ app = "stopIn" /\ "in" \in made /\ at["app"] > Len(InNodes)
  /\ at' = [at EXCEPT !["app"] = 1]
  /\ app' = "stopOut"
  /\ UNCHANGED <<pool, setup, name, mainThread, m_isRunning, body>>

\* One turn of the loop of m_outProxyPtr->stop().
StopOut ==
  /\ app = "stopOut" /\ "out" \in made /\ at["app"] <= Len(OutNodes)
  /\ Clear(OutNodes[at["app"]])
  /\ at' = [at EXCEPT !["app"] = @ + 1]
  /\ UNCHANGED <<pool, setup, name, app, mainThread, body>>

AllCleared == app = "stopOut" /\ "out" \in made /\ at["app"] > Len(OutNodes)

\* join() of a thread that was never made or was joined before throws out of stop().
JoinThrows ==
  /\ AllCleared /\ mainThread = "none"
  /\ app' = "thrown"
  /\ UNCHANGED <<pool, setup, name, mainThread, at, m_isRunning, body>>

\* Slip: the main thread is not joined before the pool is stopped.
MainJoined_Not == mainThread # "none"

MainJoined == mainThread = "ended"

\* m_mainThread.join() returns; m_threadPoolPtr->stop() begins.
StopPool ==
  /\ AllCleared /\ MainJoined
  /\ Pool!StopFlag
  /\ mainThread' = "none"
  /\ app' = "stopPool"
  /\ UNCHANGED <<setup, name, at, m_isRunning, body>>

StopNotify == Pool!NotifyAll /\ UNCHANGED own

StopJoined ==
  /\ Pool!Joined
  /\ app' = "stopped"
  /\ UNCHANGED <<setup, name, mainThread, at, m_isRunning, body>>

\* The destructor, after stop() or on a framework that never ran: the data manager goes.
Destroy ==
  /\ app = "stopped" \/ (app = "new" /\ Constructed)
  /\ made' = made \ {"dm"}
  /\ app' = "destroyed"
  /\ UNCHANGED <<pool, m_pt, step, m_proxyNodeList, feeders, consumers,
                 name, mainThread, at, m_isRunning, body>>

-----------------------------------------------------------------------------
(* The workers.                                                            *)

Take(w) ==
  /\ Pool!ThreadTake(w)
  /\ body' = [body EXCEPT ![w] = "begin"]
  /\ UNCHANGED <<setup, name, app, mainThread, at, m_isRunning>>

\* DataManager::run and Consumer::run begin: the flag is set, whatever it was.
BeginLoop(w) ==
  /\ body[w] = "begin" /\ Job(w) \in Loopers
  /\ Job(w) = DM => "dm" \in made
  /\ m_isRunning' = [m_isRunning EXCEPT ![Job(w)] = TRUE]
  /\ body' = [body EXCEPT ![w] = "loop"]
  /\ UNCHANGED <<pool, setup, name, app, mainThread, at>>

\* A consumer that cannot open its file returns; its flag stays set.
OpenFails(w) ==
  /\ body[w] = "begin" /\ Job(w) \in Consumers
  /\ m_isRunning' = [m_isRunning EXCEPT ![Job(w)] = TRUE]
  /\ body' = [body EXCEPT ![w] = "end"]
  /\ UNCHANGED <<pool, setup, name, app, mainThread, at>>

Begins(w, type) == body[w] = "begin" /\ Job(w).type = type

Ends(w) ==
  /\ body' = [body EXCEPT ![w] = "end"]
  /\ UNCHANGED <<pool, setup, name, app, mainThread, at, m_isRunning>>

\* UdpServer::run: its socket does not block.
RunReceiver(w) == Begins(w, "UDP_Rx") /\ Ends(w)

\* UdpClient::run: one pop.
RunSender(w) == Begins(w, "UDP_Tx") /\ Ends(w)

\* TcpServer::run, when no read blocks...
RunServer(w) == Begins(w, "TCP_Server") /\ Ends(w)

\* ...and when one does.
RunServerBlocks(w) ==
  /\ Begins(w, "TCP_Server")
  /\ body' = [body EXCEPT ![w] = "read"]
  /\ UNCHANGED <<pool, setup, name, app, mainThread, at, m_isRunning>>

\* The client sends or closes, which it need not do.
ReadReturns(w) == body[w] = "read" /\ Ends(w)

\* The loop finds its flag cleared.
LoopEnds(w) ==
  /\ body[w] = "loop"
  /\ ~ m_isRunning[Job(w)]
  /\ body' = [body EXCEPT ![w] = "end"]
  /\ UNCHANGED <<pool, setup, name, app, mainThread, at, m_isRunning>>

Return(w) ==
  /\ body[w] = "end"
  /\ Pool!JobReturns(w)
  /\ body' = [body EXCEPT ![w] = "none"]
  /\ UNCHANGED <<setup, name, app, mainThread, at, m_isRunning>>

WaitOrExit(w) == (Pool!ThreadWait(w) \/ Pool!ThreadExit(w)) /\ UNCHANGED own

SpuriousWake(w) == Pool!SpuriousWake(w) /\ UNCHANGED own

-----------------------------------------------------------------------------
WorkerStep(w) ==
  /\ app # "crashed"
  /\ \/ WaitOrExit(w) \/ Take(w) \/ Return(w)
     \/ BeginLoop(w) \/ OpenFails(w) \/ LoopEnds(w)
     \/ RunReceiver(w) \/ RunSender(w) \/ RunServer(w) \/ RunServerBlocks(w)

\* What the caller of run() or stop() goes on to do.
AppStep ==
  /\ app # "crashed"
  /\ \/ (\E w \in Workers : RunThread(w)) \/ RunStarted
     \/ RunDataManager \/ RunOut \/ RunDone \/ Notify("app")
     \/ StopDataManager \/ StopIn \/ StopInDone \/ StopOut \/ JoinThrows
     \/ StopPool \/ StopNotify \/ StopJoined

MainStep ==
  app # "crashed" /\ (MainTest \/ MainQueue \/ MainTurn \/ Notify("main"))

Next ==
  \/ Construction \/ RunStart \/ Crash \/ Stop \/ Destroy
  \/ AppStep \/ MainStep
  \/ \E w \in Workers :
       WorkerStep(w) \/ (app # "crashed" /\ (ReadReturns(w) \/ SpuriousWake(w)))

Spec == Init /\ [][Next]_vars

\* Threads go on when they can; nobody has to call run() or stop(), and no client has to
\* end a read that blocks.
Fairness ==
  /\ WF_vars(AppStep) /\ WF_vars(MainStep)
  /\ \A w \in Workers : WF_vars(WorkerStep(w))

FairSpec == Spec /\ Fairness

-----------------------------------------------------------------------------
Executing(n) == {w \in Workers : workerPc[w] = "run" /\ Job(w) = n}

TypeOK ==
  /\ SetupTypeOK
  /\ Pool!TypeOK
  /\ name \in Seq(AllNodes \cup {DM}) /\ Len(name) = queued
  /\ app \in {"new", "start", "queueDm", "queueOut", "up", "stopDm", "stopIn", "stopOut",
              "stopPool", "stopped", "crashed", "thrown", "destroyed"}
  /\ mainThread \in {"none", "test", "queue", "ended"}
  /\ at \in [{"app", "main"} -> Nat \ {0}]
  /\ m_isRunning \in [Flags -> BOOLEAN]
  /\ body \in [Workers -> {"none", "begin", "loop", "read", "end"}]
  /\ \A w \in Workers : (body[w] # "none") <=> (workerPc[w] = "run")

\* Every entry of the output proxy is a node of its own: no two consumers share a name.
DistinctOutputs ==
  \A t \in Topologies : "out" \in DOMAIN t.proxies => IsInjective(t.proxies["out"])

\* DataManager::run and Consumer::run are executed by one thread at most, which
\* the data manager (one thread copies) and the consumers (one thread pops) rely on.
\* (A consumer that the topology puts into the input proxy is queued without end.)
LoopersRunOnce ==
  \A n \in Loopers \ Range(InNodes) : Cardinality(Executing(n)) <= 1

\* When the pool is told to stop nobody queues any more: no job comes into a queue
\* that nobody empties.
NobodyQueuesAfterStop ==
  [][should_terminate => queued' = queued /\ producerPc["main"] = "idle"]_vars

\* When stop() has returned, no worker is left in a job and runJobs has been joined: the
\* destructor deletes a data manager that nobody uses.
QuietWhenStopped ==
  app \in {"stopped", "destroyed"} /\ name # <<>> =>
    /\ \A n \in Range(name) : Executing(n) = {}
    /\ mainThread = "none"

\* Only a framework whose construction failed uses a part that was not made.
CrashesOnlyUnbuilt == app = "crashed" => step = "failed"


\* stop() of a running framework returns, whenever it is called.
StopAlwaysReturns ==
  (app = "stopDm" /\ mainThread # "none") ~> (app = "stopped")

\* Every input node is executed, unless stop() is called or every worker is kept for good:
\* by a job that loops, of which there is one for the data manager and one per consumer,
\* or by a read.
EveryInputRuns ==
  \A n \in AllNodes :
    (app = "up" /\ n \in Range(InNodes))
      ~> \/ app # "up"
         \/ \E k \in Range(started) : name[k] = n
         \/ [](\A w \in Workers : body[w] \in {"loop", "read"})
=============================================================================
