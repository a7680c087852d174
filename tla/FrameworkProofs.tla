-------------------------- MODULE FrameworkProofs --------------------------
(***************************************************************************)
(* Proofs about the construction, run() and stop() of the framework, for   *)
(* any topologies, any number of threads in the pool and any number of     *)
(* jobs.                                                                   *)
(*                                                                         *)
(* What is proved about the thread pool in ThreadPoolProofs is used here:  *)
(* the steps of the framework are steps of the pool.                       *)
(***************************************************************************)
EXTENDS Framework, SequenceTheorems, FiniteSetTheorems, TLAPS

\* The pool of the framework, with its theorems.
Threads == INSTANCE ThreadPoolProofs WITH Producers <- {"app", "main"}, Looping <- {}

-----------------------------------------------------------------------------
(* Construction.                                                           *)

\* The nodes of a proxy are the first ones the topology lists for it.
Lists ==
  /\ m_pt \in Topologies
  /\ m_proxyNodeList \in [Directions -> Seq(Node)]
  /\ \A d \in Directions :
       /\ d \in made => /\ d \in DOMAIN m_pt.proxies
                        /\ Len(m_proxyNodeList[d]) <= Len(m_pt.proxies[d])
       /\ d \notin made => m_proxyNodeList[d] = <<>>
       /\ \A k \in DOMAIN m_proxyNodeList[d] : m_proxyNodeList[d][k] = m_pt.proxies[d][k]

\* The parts there are at each step of parseConf.
Parts ==
  /\ step \in {"file", "pool", "dm", "out", "in", "built", "failed", "thrown"}
  /\ made \subseteq {"pool", "dm", "out", "in"}
  /\ step \in {"dm", "out", "in", "built"} => "pool" \in made
  /\ step \in {"in", "built"} => "out" \in made
  /\ step = "built" => "in" \in made
  /\ step \in {"out", "in", "built"} /\ app # "destroyed" => "dm" \in made

\* The names under which the nodes of some types should be registered.
NamesOf(types) == UNION {Names(d, types) : d \in Directions}

\* Finitely many names asked for a place, and a registry holds as many as fit.
Fits(names, wanted, max) == IsFiniteSet(wanted) /\ AsManyAsFit(names, wanted, max)

Registered ==
  step # "failed" => /\ Fits(feeders, NamesOf(Receivers), MaxIn)
                     /\ Fits(consumers, NamesOf({"CONSUMER"}), MaxOut)

\* Nothing is made at first.
LEMMA InitConstruction == Init => Lists /\ Parts /\ Registered
<1> SUFFICES ASSUME Init PROVE Lists /\ Parts /\ Registered
  OBVIOUS
<1>1. Lists
  <2>1. <<>> \in Seq(Node)
    BY EmptySeq
  <2> QED  BY <2>1 DEF Init, SetupInit, Lists, Directions
<1>2. Parts
  BY DEF Init, SetupInit, Parts
<1>3. \A types : NamesOf(types) = {}
  BY DEF Init, SetupInit, NamesOf, Names, Range
<1>4. Registered
  <2>1. \A max \in Nat : Fits({}, {}, max)
    BY FS_EmptySet DEF Fits, AsManyAsFit
  <2>2. MaxIn \in Nat /\ MaxOut \in Nat /\ feeders = {} /\ consumers = {}
    BY SetupAssumption DEF Init, SetupInit
  <2> QED  BY <1>3, <2>1, <2>2 DEF Registered
<1> QED  BY <1>1, <1>2, <1>4

\* The node the constructor has come to is one of the topology.
LEMMA ComingNode ==
  ASSUME Lists, NEW d \in Directions, HasComing(d)
  PROVE  /\ d \in made /\ Coming(d) \in Node
         /\ m_pt.proxies[d] \in Seq(Node) /\ m_proxyNodeList[d] \in Seq(Node)
         /\ Len(m_proxyNodeList[d]) + 1 <= Len(m_pt.proxies[d])
<1>1. /\ d \in made /\ m_pt.proxies[d] \in Seq(Node) /\ m_proxyNodeList[d] \in Seq(Node)
  BY SetupAssumption DEF HasComing, Lists, IsTopology
<1>2. Len(m_proxyNodeList[d]) \in Nat /\ Len(m_pt.proxies[d]) \in Nat
  BY <1>1, LenProperties
<1>3. Len(m_proxyNodeList[d]) + 1 \in 1 .. Len(m_pt.proxies[d])
  BY <1>2 DEF HasComing
<1>4. Coming(d) \in Node
  BY <1>1, <1>3, ElementOfSeq DEF Coming
<1> QED  BY <1>1, <1>2, <1>3, <1>4

\* addNode puts the next node of the topology to the end of the list.
LEMMA AddNodeLists ==
  ASSUME Lists, NEW d \in Directions, AddNode(d)
  PROVE  Lists'
<1> DEFINE old == m_proxyNodeList[d]
           n == Coming(d)
<1>1. /\ d \in made /\ n \in Node /\ m_pt.proxies[d] \in Seq(Node) /\ old \in Seq(Node)
      /\ Len(old) + 1 <= Len(m_pt.proxies[d])
  BY ComingNode DEF AddNode
<1>2. /\ m_proxyNodeList' = [m_proxyNodeList EXCEPT ![d] = Append(old, n)]
      /\ UNCHANGED <<m_pt, made>>
  BY DEF AddNode
<1>3. /\ Append(old, n) \in Seq(Node) /\ Len(Append(old, n)) = Len(old) + 1
      /\ DOMAIN Append(old, n) = 1 .. Len(old) + 1 /\ DOMAIN old = 1 .. Len(old) /\ Len(old) \in Nat
      /\ \A i \in 1 .. Len(old) : Append(old, n)[i] = old[i]
      /\ Append(old, n)[Len(old) + 1] = n
  BY <1>1, AppendProperties, LenProperties
<1>4. m_proxyNodeList' \in [Directions -> Seq(Node)]
  BY <1>2, <1>3 DEF Lists
<1>5. m_proxyNodeList'[d] = Append(old, n)
  BY <1>2 DEF Lists
<1>6. \A e \in Directions : e # d => m_proxyNodeList'[e] = m_proxyNodeList[e]
  BY <1>2 DEF Lists
<1>7. n = m_pt.proxies[d][Len(old) + 1]
  BY DEF Coming
<1> HIDE DEF n
<1>8. \A k \in DOMAIN Append(old, n) : Append(old, n)[k] = m_pt.proxies[d][k]
  <2>1. \A k \in 1 .. Len(old) : old[k] = m_pt.proxies[d][k]
    BY <1>3 DEF Lists
  <2> HIDE DEF old
  <2> QED  BY <1>3, <1>7, <2>1
<1>9. /\ d \in made' /\ d \in DOMAIN m_pt'.proxies
      /\ Len(m_proxyNodeList'[d]) <= Len(m_pt'.proxies[d])
  BY <1>1, <1>2, <1>3, <1>5 DEF Lists
<1> QED
  <2> SUFFICES ASSUME NEW e \in Directions
               PROVE  /\ e \in made' => /\ e \in DOMAIN m_pt'.proxies
                                        /\ Len(m_proxyNodeList'[e]) <= Len(m_pt'.proxies[e])
                      /\ e \notin made' => m_proxyNodeList'[e] = <<>>
                      /\ \A k \in DOMAIN m_proxyNodeList'[e] :
                           m_proxyNodeList'[e][k] = m_pt'.proxies[e][k]
    BY <1>2, <1>4 DEF Lists
  <2>1. CASE e = d
    BY <1>2, <1>5, <1>8, <1>9, <2>1
  <2>2. CASE e # d
    BY <1>2, <1>6, <2>2 DEF Lists
  <2> QED  BY <2>1, <2>2

\* Every step of the constructor keeps the lists.
LEMMA ConstructLists ==
  ASSUME Lists, Construct
  PROVE  Lists'
<1>1. CASE \E d \in Directions : AddNode(d)
  BY <1>1, AddNodeLists
<1>2. ASSUME NEW d \in Directions, InstantiateProxy(d) PROVE Lists'
  <2>1. CASE UNCHANGED made
    BY <1>2, <2>1 DEF InstantiateProxy, Lists
  <2>2. CASE d \in DOMAIN m_pt.proxies /\ made' = made \cup {d}
    <3>1. /\ d \notin made /\ UNCHANGED <<m_pt, m_proxyNodeList>>
      BY <1>2 DEF InstantiateProxy
    <3>2. m_proxyNodeList[d] = <<>> /\ m_pt.proxies[d] \in Seq(Node)
      BY <2>2, <3>1, SetupAssumption DEF Lists, IsTopology
    <3>3. Len(m_proxyNodeList[d]) <= Len(m_pt.proxies[d])
      BY <3>2, LenProperties, EmptySeq
    <3> QED  BY <2>2, <3>1, <3>3 DEF Lists
  <2> QED  BY <1>2, <2>1, <2>2 DEF InstantiateProxy
<1>3. CASE ReadConf \/ \E d \in Directions : UnknownType(d) \/ BindFails(d) \/ ProxyDone(d)
  BY <1>3 DEF ReadConf, UnknownType, BindFails, ProxyDone, Lists
<1>4. CASE InstantiateThreadPool \/ InstantiateDataManager
  <2>1. UNCHANGED <<m_pt, m_proxyNodeList>> /\ \A d \in Directions : d \in made' <=> d \in made
    BY <1>4 DEF InstantiateThreadPool, InstantiateDataManager, Directions
  <2> QED  BY <2>1 DEF Lists
<1> QED  BY <1>1, <1>2, <1>3, <1>4 DEF Construct

\* parseConf makes the parts in their order.
LEMMA ConstructParts ==
  ASSUME Parts, Construct, UNCHANGED app
  PROVE  Parts'
<1>1. CASE ReadConf \/ InstantiateThreadPool \/ InstantiateDataManager
  BY <1>1 DEF Parts, ReadConf, InstantiateThreadPool, InstantiateDataManager
<1>2. ASSUME NEW d \in Directions, InstantiateProxy(d) \/ ProxyDone(d) PROVE Parts'
  BY <1>2 DEF Parts, Directions, InstantiateProxy, ProxyDone
<1>3. ASSUME NEW d \in Directions, AddNode(d) \/ UnknownType(d) \/ BindFails(d) PROVE Parts'
  BY <1>3 DEF Parts, AddNode, UnknownType, BindFails
<1> QED  BY <1>1, <1>2, <1>3 DEF Construct

\* A name that asks for a place gets one, also that of "empty", or there is none left.
LEMMA RegisterKeeps ==
  ASSUME NEW names, NEW wanted, NEW n, NEW max \in Nat, Fits(names, wanted, max)
  PROVE  Fits(Register(names, n, max), wanted \cup {n}, max)
<1> DEFINE all == wanted \cup {n}
           held == Register(names, n, max)
<1>1. IsFiniteSet(wanted) /\ names \subseteq wanted
  BY DEF Fits, AsManyAsFit
<1>2. /\ IsFiniteSet(all)
      /\ Cardinality(all) = IF n \in wanted THEN Cardinality(wanted) ELSE Cardinality(wanted) + 1
      /\ Cardinality(wanted) \in Nat /\ Cardinality(all) \in Nat
  BY <1>1, FS_AddElement, FS_CardinalityType
<1>3. /\ IsFiniteSet(names) /\ Cardinality(names) \in Nat
      /\ Cardinality(names) <= Cardinality(wanted)
      /\ Cardinality(names) = Cardinality(wanted) => names = wanted
  BY <1>1, FS_Subset, FS_CardinalityType
<1>4. CASE Cardinality(names) < max
  <2>1. Cardinality(wanted) <= max /\ Cardinality(names) = Cardinality(wanted)
    BY <1>2, <1>3, <1>4 DEF Fits, AsManyAsFit
  <2>2. names = wanted /\ held = all
    BY <1>3, <1>4, <2>1 DEF Register
  <2>3. Cardinality(all) <= max
    BY <1>2, <1>3, <1>4, <2>1
  <2> QED  BY <1>2, <2>2, <2>3 DEF Fits, AsManyAsFit
<1>5. CASE ~ (Cardinality(names) < max)
  <2>1. Cardinality(names) = max /\ Cardinality(all) >= max
    BY <1>2, <1>3, <1>5 DEF Fits, AsManyAsFit
  <2>2. held \subseteq all /\ Cardinality(held) = max
    <3>1. CASE "empty" \in names /\ n \notin names
      <4> DEFINE rest == names \ {"empty"}
      <4>1. IsFiniteSet(rest) /\ Cardinality(rest) = max - 1
        BY <1>3, <2>1, <3>1, FS_RemoveElement
      <4>2. n \notin rest
        BY <3>1
      <4>3. Cardinality(rest \cup {n}) = (max - 1) + 1
        BY <4>1, <4>2, FS_AddElement
      <4>4. held = rest \cup {n}
        BY <1>5, <3>1 DEF Register
      <4> QED  BY <1>1, <4>3, <4>4
    <3>2. CASE ~ ("empty" \in names /\ n \notin names)
      <4>1. held = names
        BY <1>5, <3>2 DEF Register
      <4> QED  BY <1>1, <2>1, <4>1
    <3> QED  BY <3>1, <3>2
  <2> HIDE DEF all, held
  <2>3. AsManyAsFit(held, all, max)
    BY <1>2, <2>1, <2>2 DEF AsManyAsFit
  <2> QED  BY <1>2, <2>3 DEF Fits, all, held
<1> QED  BY <1>4, <1>5

\* The names of the nodes, one by one.
LEMMA NamesOneByOne ==
  ASSUME NEW types, NEW x
  PROVE  x \in NamesOf(types) <=>
           \E e \in Directions : \E k \in DOMAIN m_proxyNodeList[e] :
             m_proxyNodeList[e][k].type \in types /\ x = m_proxyNodeList[e][k].name
BY DEF NamesOf, Names, Range

\* With one more node, the same names or one more.
LEMMA NamesWithNode ==
  ASSUME Lists, NEW types, NEW d \in Directions, AddNode(d)
  PROVE  NamesOf(types)' = IF Coming(d).type \in types THEN NamesOf(types) \cup {Coming(d).name}
                                                       ELSE NamesOf(types)
<1> DEFINE old == m_proxyNodeList[d]
           n == Coming(d)
<1>1. n \in Node /\ old \in Seq(Node)
  BY ComingNode DEF AddNode
<1>2. /\ m_proxyNodeList'[d] = Append(old, n)
      /\ \A e \in Directions : e # d => m_proxyNodeList'[e] = m_proxyNodeList[e]
  BY DEF AddNode, Lists
<1>3. /\ DOMAIN Append(old, n) = 1 .. Len(old) + 1 /\ DOMAIN old = 1 .. Len(old) /\ Len(old) \in Nat
      /\ \A i \in 1 .. Len(old) : Append(old, n)[i] = old[i]
      /\ Append(old, n)[Len(old) + 1] = n
  BY <1>1, AppendProperties, LenProperties
<1> HIDE DEF n
<1>4. ASSUME NEW x PROVE x \in NamesOf(types)' <=>
           \E e \in Directions : \E k \in DOMAIN m_proxyNodeList'[e] :
             m_proxyNodeList'[e][k].type \in types /\ x = m_proxyNodeList'[e][k].name
  BY DEF NamesOf, Names, Range
<1>5. ASSUME NEW x \in NamesOf(types)
      PROVE  x \in NamesOf(types)'
  <2>0. PICK e \in Directions : \E k \in DOMAIN m_proxyNodeList[e] :
          m_proxyNodeList[e][k].type \in types /\ x = m_proxyNodeList[e][k].name
    BY <1>5, NamesOneByOne
  <2>1. PICK k \in DOMAIN m_proxyNodeList[e] :
          m_proxyNodeList[e][k].type \in types /\ x = m_proxyNodeList[e][k].name
    BY <2>0
  <2>2. k \in DOMAIN m_proxyNodeList'[e] /\ m_proxyNodeList'[e][k] = m_proxyNodeList[e][k]
    BY <1>2, <1>3, <2>1
  <2> QED  BY <1>4, <2>1, <2>2
<1>6. ASSUME n.type \in types PROVE n.name \in NamesOf(types)'
  <2>1. Len(old) + 1 \in DOMAIN m_proxyNodeList'[d] /\ m_proxyNodeList'[d][Len(old) + 1] = n
    BY <1>2, <1>3
  <2> QED  BY <1>4, <1>6, <2>1
<1>7. ASSUME NEW x \in NamesOf(types)'
      PROVE  x \in NamesOf(types) \/ (n.type \in types /\ x = n.name)
  <2>0. PICK e \in Directions : \E k \in DOMAIN m_proxyNodeList'[e] :
          m_proxyNodeList'[e][k].type \in types /\ x = m_proxyNodeList'[e][k].name
    BY <1>4, <1>7
  <2>1. PICK k \in DOMAIN m_proxyNodeList'[e] :
          m_proxyNodeList'[e][k].type \in types /\ x = m_proxyNodeList'[e][k].name
    BY <2>0
  <2>2. \/ k \in DOMAIN m_proxyNodeList[e] /\ m_proxyNodeList'[e][k] = m_proxyNodeList[e][k]
        \/ m_proxyNodeList'[e][k] = n
    BY <1>2, <1>3, <2>1
  <2> QED  BY <2>1, <2>2, NamesOneByOne
<1> QED  BY <1>5, <1>6, <1>7 DEF n

\* Every step of the constructor keeps what is registered in line with the nodes.
LEMMA ConstructRegistered ==
  ASSUME Lists, Registered, Construct
  PROVE  Registered'
<1>1. ASSUME NEW d \in Directions, AddNode(d) PROVE Registered'
  <2> SUFFICES ASSUME step # "failed" PROVE Registered'
    BY <1>1 DEF AddNode, Registered
  <2> DEFINE n == Coming(d)
  <2>1. /\ Fits(feeders, NamesOf(Receivers), MaxIn)
        /\ Fits(consumers, NamesOf({"CONSUMER"}), MaxOut)
    BY DEF Registered
  <2>2. MaxIn \in Nat /\ MaxOut \in Nat
    BY SetupAssumption
  <2>3. /\ feeders' = IF n.type \in Receivers THEN Register(feeders, n.name, MaxIn) ELSE feeders
        /\ consumers' = IF n.type = "CONSUMER" THEN Register(consumers, n.name, MaxOut)
                                               ELSE consumers
    BY <1>1 DEF AddNode, RegisterNode
  <2>4. /\ NamesOf(Receivers)' = IF n.type \in Receivers THEN NamesOf(Receivers) \cup {n.name}
                                                         ELSE NamesOf(Receivers)
        /\ NamesOf({"CONSUMER"})' = IF n.type \in {"CONSUMER"} THEN NamesOf({"CONSUMER"}) \cup {n.name}
                                                               ELSE NamesOf({"CONSUMER"})
    <3> HIDE DEF n
    <3>1. \A types : NamesOf(types)' = IF n.type \in types THEN NamesOf(types) \cup {n.name}
                                                           ELSE NamesOf(types)
      BY <1>1, NamesWithNode DEF n
    <3> QED  BY <3>1 DEF Receivers
  <2> HIDE DEF n
  <2>5. Fits(feeders', NamesOf(Receivers)', MaxIn)
    BY <2>1, <2>2, <2>3, <2>4, RegisterKeeps
  <2>6. Fits(consumers', NamesOf({"CONSUMER"})', MaxOut)
    BY <2>1, <2>2, <2>3, <2>4, RegisterKeeps
  <2>7. /\ Fits(feeders, NamesOf(Receivers), MaxIn)'
        /\ Fits(consumers, NamesOf({"CONSUMER"}), MaxOut)'
    BY <2>5, <2>6 DEF Fits, AsManyAsFit
  <2> QED  BY <2>7 DEF Registered
<1>2. CASE \E d \in Directions : UnknownType(d) \/ BindFails(d)
  BY <1>2 DEF UnknownType, BindFails, Registered
<1>3. CASE \/ ReadConf \/ InstantiateThreadPool \/ InstantiateDataManager
           \/ \E d \in Directions : InstantiateProxy(d) \/ ProxyDone(d)
  <2>1. /\ UNCHANGED <<m_proxyNodeList, feeders, consumers>>
        /\ step = "failed" => step' = "failed"
    BY <1>3 DEF ReadConf, InstantiateThreadPool, InstantiateDataManager, InstantiateProxy,
                ProxyDone, Directions
  <2>2. \A types : NamesOf(types)' = NamesOf(types)
    BY <2>1 DEF NamesOf, Names
  <2> QED  BY <2>1, <2>2 DEF Registered, Fits, AsManyAsFit
<1> QED  BY <1>1, <1>2, <1>3 DEF Construct

\* What NodesHaveQueues says of a framework that was built.
LEMMA AllRegistered == Registered => NodesHaveQueues
BY DEF Registered, NodesHaveQueues, NamesOf, Fits

-----------------------------------------------------------------------------
(* The steps of the framework are steps of its pool.                       *)

\* The pool of the framework is as its proofs assume.
LEMMA PoolIsAsAssumed == Threads!PoolAssumption
<1>1. IsFiniteSet({"app", "main"})
  <2>1. IsFiniteSet({"app"})
    BY FS_Singleton
  <2>2. IsFiniteSet({"app"} \cup {"main"})
    BY <2>1, FS_AddElement
  <2>3. {"app"} \cup {"main"} = {"app", "main"}
    OBVIOUS
  <2> QED  BY <2>2, <2>3
<1>2. IsFiniteSet(Workers) /\ MaxJobs \in Nat
  BY FrameworkAssumption
<1>3. \A S : IsFiniteSet(S) <=> Threads!IsFiniteSet(S)
  BY DEF IsFiniteSet, Threads!IsFiniteSet
<1> QED  BY <1>1, <1>2, <1>3 DEF Threads!PoolAssumption

\* The same pool under two names.
LEMMA SamePool ==
  /\ Pool!Init => Threads!Init
  /\ UNCHANGED pool => UNCHANGED Threads!vars
  /\ \A p \in {"app", "main"} : /\ Pool!QueueJob(p) => Threads!QueueJob(p)
                                /\ Pool!NotifyOne(p) => Threads!NotifyOne(p)
  /\ \A w \in Workers : /\ Pool!StartThread(w) => Threads!StartThread(w)
                        /\ Pool!ThreadTake(w) => Threads!ThreadTake(w)
                        /\ Pool!JobReturns(w) => Threads!JobReturns(w)
                        /\ Pool!ThreadWait(w) => Threads!ThreadWait(w)
                        /\ Pool!ThreadExit(w) => Threads!ThreadExit(w)
                        /\ Pool!SpuriousWake(w) => Threads!SpuriousWake(w)
  /\ (Pool!Start => Threads!Start) /\ (Pool!StartDone => Threads!StartDone)
  /\ (Pool!StopFlag => Threads!StopFlag) /\ (Pool!NotifyAll => Threads!NotifyAll)
  /\ Pool!Joined => Threads!Joined
<1>1. (Pool!Init => Threads!Init) /\ (UNCHANGED pool => UNCHANGED Threads!vars)
  BY DEF Pool!Init, Threads!Init, pool, Threads!vars
<1>2. \A p \in {"app", "main"} : /\ Pool!QueueJob(p) => Threads!QueueJob(p)
                                 /\ Pool!NotifyOne(p) => Threads!NotifyOne(p)
  BY DEF Pool!QueueJob, Threads!QueueJob, Pool!NewJob, Threads!NewJob, Pool!AfterPush,
         Threads!AfterPush, Pool!NotifyOne, Threads!NotifyOne, Pool!WakeOne, Threads!WakeOne,
         Pool!Waiting, Threads!Waiting
<1>3. \A w \in Workers : /\ Pool!StartThread(w) => Threads!StartThread(w)
                         /\ Pool!ThreadTake(w) => Threads!ThreadTake(w)
                         /\ Pool!JobReturns(w) => Threads!JobReturns(w)
                         /\ Pool!ThreadWait(w) => Threads!ThreadWait(w)
                         /\ Pool!ThreadExit(w) => Threads!ThreadExit(w)
                         /\ Pool!SpuriousWake(w) => Threads!SpuriousWake(w)
  BY DEF Pool!StartThread, Threads!StartThread, Pool!ThreadTake, Threads!ThreadTake,
         Pool!MayTake, Threads!MayTake, Pool!FirstJob, Threads!FirstJob, Pool!Popped,
         Threads!Popped, Pool!JobReturns, Threads!JobReturns, Pool!ThreadWait,
         Threads!ThreadWait, Pool!ThreadExit, Threads!ThreadExit, Pool!SpuriousWake,
         Threads!SpuriousWake
<1>4. /\ (Pool!Start => Threads!Start) /\ (Pool!StartDone => Threads!StartDone)
      /\ (Pool!StopFlag => Threads!StopFlag) /\ (Pool!NotifyAll => Threads!NotifyAll)
      /\ Pool!Joined => Threads!Joined
  BY DEF Pool!Start, Threads!Start, Pool!StartDone, Threads!StartDone, Pool!StopFlag,
         Threads!StopFlag, Pool!NotifyAll, Threads!NotifyAll, Pool!WakeAll, Threads!WakeAll,
         Pool!Waiting, Threads!Waiting, Pool!Joined, Threads!Joined
<1> QED  BY <1>1, <1>2, <1>3, <1>4

\* The steps of worker w in its job, but for the first and the last.
JobStep(w) ==
  \/ BeginLoop(w) \/ OpenFails(w) \/ LoopEnds(w)
  \/ RunReceiver(w) \/ RunSender(w) \/ RunServer(w) \/ RunServerBlocks(w) \/ ReadReturns(w)

\* The steps that leave the pool alone.
Beside ==
  \/ Construction \/ Crash \/ RunDone \/ MainTest \/ MainTurn \/ Stop \/ StopDataManager
  \/ StopIn \/ StopInDone \/ StopOut \/ JoinThrows \/ Destroy
  \/ \E w \in Workers : JobStep(w)

\* Whatever the framework does is a step of the pool, or none.
LEMMA FrameworkStep == [Next]_vars => [Threads!Next]_(Threads!vars)
<1> SUFFICES ASSUME [Next]_vars PROVE Threads!Next \/ UNCHANGED Threads!vars
  OBVIOUS
<1>1. CASE Beside \/ UNCHANGED vars
  <2>1. UNCHANGED pool
    BY <1>1 DEF Beside, vars, Construction, Crash, RunDone, MainTest, MainTurn, Stop,
              StopDataManager, StopIn, StopInDone, StopOut, JoinThrows, AllCleared, Destroy,
              JobStep, BeginLoop, OpenFails, LoopEnds, RunReceiver, RunSender, RunServer,
              RunServerBlocks, ReadReturns, Begins, Ends
  <2> QED  BY <2>1, SamePool
<1>2. CASE RunStart \/ RunStarted \/ \E w \in Workers : RunThread(w)
  BY <1>2, SamePool DEF RunStart, RunStarted, RunThread, Threads!Next, Threads!StartStep
<1>3. CASE RunDataManager \/ RunOut \/ MainQueue \/ Notify("app") \/ Notify("main")
  BY <1>3, SamePool DEF RunDataManager, RunOut, MainQueue, Queue, Notify, Threads!Next
<1>4. CASE StopPool \/ StopNotify \/ StopJoined
  BY <1>4, SamePool DEF StopPool, StopNotify, StopJoined, Threads!Next
<1>5. CASE \E w \in Workers : Take(w) \/ Return(w) \/ WaitOrExit(w) \/ SpuriousWake(w)
  BY <1>5, SamePool DEF Take, Return, WaitOrExit, SpuriousWake, Threads!Next, Threads!WorkerStep
<1> QED  BY <1>1, <1>2, <1>3, <1>4, <1>5 DEF Next, AppStep, MainStep, WorkerStep, Beside, JobStep

\* What is proved of the pool holds for the framework's.
LEMMA PoolInv ==
  /\ Init => Threads!JobsInv
  /\ Threads!JobsInv /\ [Next]_vars => Threads!JobsInv'
<1>1. Init => Threads!JobsInv
  BY SamePool, PoolIsAsAssumed, Threads!InitJobsInv DEF Init
<1>2. Threads!JobsInv /\ [Threads!Next]_(Threads!vars) => Threads!JobsInv'
  BY PoolIsAsAssumed, Threads!NextJobsInv
<1> QED  BY <1>1, <1>2, FrameworkStep

-----------------------------------------------------------------------------
(* run() and stop().                                                       *)

\* No main thread to join, and no thread in the pool.
Still == mainThread = "none" /\ owner = "idle" /\ \A w \in Workers : workerPc[w] = "none"

\* Where the caller of run() and stop() is says where the pool and the main thread are;
\* stop() is called of a framework that runs or of one that is still.
Phases ==
  /\ app \in {"new", "start", "queueDm", "queueOut", "up", "stopDm", "stopIn", "stopOut",
              "stopPool", "stopped", "crashed", "thrown", "destroyed"}
  /\ mainThread \in {"none", "test", "queue", "ended"}
  /\ app \in {"new", "start", "queueDm"} => name = <<>>
  /\ app \in {"start", "queueDm", "queueOut", "stopPool"} => mainThread = "none"
  /\ app \in {"new", "stopped", "thrown", "destroyed"} => Still
  /\ app = "start" => owner = "start"
  /\ app \in {"queueDm", "queueOut", "up"} => owner = "started"
  /\ app = "up" => mainThread # "none"
  /\ app \in {"stopDm", "stopIn", "stopOut"} =>
       Still \/ (mainThread # "none" /\ owner = "started")
  /\ app = "stopPool" => owner \in {"notifyAll", "join"}
  /\ app # "new" => Constructed

\* A worker has a place in a job as long as it executes one.
Bodies ==
  /\ body \in [Workers -> {"none", "begin", "loop", "read", "end"}]
  /\ \A w \in Workers : (body[w] # "none") <=> (workerPc[w] = "run")

\* The pool is told to stop when the main thread was joined and has nothing under way.
Ended ==
  /\ mainThread # "queue" => producerPc["main"] = "idle"
  /\ should_terminate =>
       /\ mainThread = "none"
       /\ app \notin {"new", "start", "queueDm", "queueOut", "up"}

\* Nobody is left to begin, and nothing has begun, at first.
LEMMA InitControl == Init => Phases /\ Bodies /\ Ended
BY DEF Init, Pool!Init, Phases, Still, Bodies, Ended

\* The bodies follow the workers.
LEMMA NextBodies ==
  ASSUME Threads!JobsInv, Bodies, [Next]_vars
  PROVE  Bodies'
<1>0. workerPc \in [Workers -> {"none", "check", "wait", "run", "exit"}]
  BY DEF Threads!JobsInv, Threads!TypeOK
<1>1. CASE Beside
  <2>1. UNCHANGED workerPc
    BY <1>1 DEF Beside, Construction, Crash, RunDone, MainTest, MainTurn, Stop, pool,
              StopDataManager, StopIn, StopInDone, StopOut, JoinThrows, AllCleared, Destroy,
              JobStep, BeginLoop, OpenFails, LoopEnds, RunReceiver, RunSender, RunServer,
              RunServerBlocks, ReadReturns, Begins, Ends
  <2>2. \/ UNCHANGED body
        \/ \E w \in Workers : /\ body[w] # "none"
                              /\ \E b \in {"loop", "read", "end"} : body' = [body EXCEPT ![w] = b]
    BY <1>1 DEF Beside, Construction, Crash, RunDone, MainTest, MainTurn, Stop, StopDataManager,
              StopIn, StopInDone, StopOut, JoinThrows, AllCleared, Destroy, JobStep, BeginLoop,
              OpenFails, LoopEnds, RunReceiver, RunSender, RunServer, RunServerBlocks, ReadReturns,
              Begins, Ends
  <2> QED  BY <1>0, <2>1, <2>2 DEF Bodies
<1>2. CASE \/ RunStart \/ RunStarted \/ RunDataManager \/ RunOut \/ MainQueue \/ StopPool
           \/ UNCHANGED vars
  BY <1>2 DEF RunStart, RunStarted, RunDataManager, RunOut, MainQueue, StopPool, Queue, vars, own,
              pool, Pool!Start, Pool!StartDone, Pool!QueueJob, Pool!StopFlag, Bodies
<1>3. CASE \/ Notify("app") \/ Notify("main")
           \/ \E w \in Workers : RunThread(w) \/ WaitOrExit(w) \/ SpuriousWake(w)
  <2>1. UNCHANGED body
    BY <1>3 DEF Notify, RunThread, WaitOrExit, SpuriousWake, own
  <2>2. \/ UNCHANGED workerPc
        \/ \E w \in Workers : /\ workerPc[w] # "run"
                              /\ \E s \in {"check", "wait", "exit"} :
                                   workerPc' = [workerPc EXCEPT ![w] = s]
    BY <1>3 DEF Notify, RunThread, WaitOrExit, SpuriousWake, Pool!NotifyOne, Pool!WakeOne,
              Pool!Waiting, Pool!StartThread, Pool!ThreadWait, Pool!ThreadExit, Pool!SpuriousWake
  <2> QED  BY <1>0, <2>1, <2>2 DEF Bodies
<1>4. CASE StopNotify \/ StopJoined
  <2>1. UNCHANGED body
    BY <1>4 DEF StopNotify, StopJoined, own
  <2>2. \A w \in Workers : (workerPc'[w] = "run") <=> (workerPc[w] = "run")
    BY <1>0, <1>4 DEF StopNotify, StopJoined, Pool!NotifyAll, Pool!WakeAll, Pool!Waiting,
              Pool!Joined
  <2> QED  BY <2>1, <2>2 DEF Bodies
<1>5. ASSUME NEW w \in Workers, Take(w) \/ Return(w) PROVE Bodies'
  BY <1>0, <1>5 DEF Take, Return, Pool!ThreadTake, Pool!JobReturns, Bodies
<1> QED  BY <1>1, <1>2, <1>3, <1>4, <1>5 DEF Next, AppStep, MainStep, WorkerStep, Beside, JobStep

\* Every step leads from one phase to the next, or stays in it.
LEMMA NextPhases ==
  ASSUME Threads!JobsInv, Bodies, Phases, [Next]_vars
  PROVE  Phases'
<1>0. workerPc \in [Workers -> {"none", "check", "wait", "run", "exit"}]
  BY DEF Threads!JobsInv, Threads!TypeOK
<1>1. CASE UNCHANGED vars
  BY <1>1 DEF Phases, Still, vars, pool, own, setup, Constructed
<1>2. CASE Construction
  BY <1>2 DEF Phases, Still, Construction, pool
<1>3. CASE RunStart
  BY <1>3 DEF Phases, Still, RunStart, Pool!Start, setup, Constructed
<1>4. CASE Crash
  <2>1. Constructed
    BY <1>4 DEF Crash, Phases, Still, Bodies
  <2> QED  BY <1>4, <2>1 DEF Phases, Still, Crash, setup, Constructed
<1>5. ASSUME NEW w \in Workers, app # "crashed", RunThread(w) PROVE Phases'
  <2>1. app = "start" /\ UNCHANGED <<owner, own>>
    BY <1>5 DEF Phases, Still, RunThread, Pool!StartThread
  <2> QED  BY <2>1 DEF Phases, Still, own, setup, Constructed
<1>6. CASE RunStarted
  BY <1>6 DEF Phases, Still, RunStarted, Pool!StartDone, setup, Constructed
<1>7. CASE RunDataManager \/ RunOut
  BY <1>7 DEF Phases, Still, RunDataManager, RunOut, Queue, Pool!QueueJob, setup, Constructed
<1>8. CASE RunDone
  BY <1>8 DEF Phases, Still, RunDone, pool, setup, Constructed
<1>9. ASSUME app # "crashed", Notify("app") \/ Notify("main") PROVE Phases'
  <2>1. UNCHANGED <<owner, own>>
    BY <1>9 DEF Notify, Pool!NotifyOne
  <2>2. \A w \in Workers : workerPc[w] = "none" => workerPc'[w] = "none"
    BY <1>0, <1>9 DEF Notify, Pool!NotifyOne, Pool!WakeOne, Pool!Waiting
  <2> QED  BY <2>1, <2>2 DEF Phases, Still, own, setup, Constructed
<1>10. CASE MainTest \/ MainTurn
  BY <1>10 DEF Phases, Still, MainTest, MainTurn, pool, setup, Constructed
<1>11. CASE app # "crashed" /\ MainQueue
  <2>1. app \in {"up", "stopDm", "stopIn", "stopOut"} /\ mainThread = "queue"
    BY <1>11 DEF Phases, Still, MainQueue
  <2> QED  BY <1>11, <2>1 DEF Phases, Still, MainQueue, Queue, Pool!QueueJob, setup, Constructed
<1>12. CASE Stop \/ StopDataManager \/ StopIn \/ StopInDone \/ StopOut \/ JoinThrows
  BY <1>12 DEF Phases, Still, Stop, StopDataManager, StopIn, StopInDone, StopOut, JoinThrows,
              AllCleared, pool, setup, Constructed
<1>13. CASE StopPool
  BY <1>13 DEF Phases, Still, StopPool, MainJoined, Pool!StopFlag, setup, Constructed
<1>14. CASE app # "crashed" /\ StopNotify
  <2>1. app = "stopPool" /\ owner' = "join" /\ UNCHANGED own
    BY <1>14 DEF Phases, Still, StopNotify, Pool!NotifyAll
  <2> QED  BY <2>1 DEF Phases, Still, own, setup, Constructed
<1>15. CASE app # "crashed" /\ StopJoined
  <2>1. app = "stopPool" /\ app' = "stopped"
    BY <1>15 DEF Phases, Still, StopJoined, Pool!Joined
  <2> QED  BY <1>15, <2>1 DEF Phases, Still, StopJoined, Pool!Joined, setup, Constructed
<1>16. CASE Destroy
  BY <1>16 DEF Phases, Still, Destroy, pool, Constructed
<1>17. ASSUME NEW w \in Workers, app # "crashed",
              Take(w) \/ Return(w) \/ WaitOrExit(w) \/ SpuriousWake(w)
       PROVE  Phases'
  <2>1. workerPc[w] # "none"
    BY <1>17 DEF Take, Return, WaitOrExit, SpuriousWake, Pool!ThreadTake, Pool!JobReturns,
                 Pool!ThreadWait, Pool!ThreadExit, Pool!SpuriousWake
  <2>2. ~ Still
    BY <2>1 DEF Phases, Still
  <2>3. UNCHANGED <<owner, setup, name, app, mainThread>>
    BY <1>17 DEF Take, Return, WaitOrExit, SpuriousWake, own, Pool!ThreadTake, Pool!JobReturns,
                 Pool!ThreadWait, Pool!ThreadExit, Pool!SpuriousWake
  <2> QED  BY <2>2, <2>3 DEF Phases, Still, setup, Constructed
<1>18. ASSUME NEW w \in Workers, JobStep(w)
       PROVE  Phases'
  BY <1>18 DEF Phases, Still, JobStep, BeginLoop, OpenFails, LoopEnds, RunReceiver, RunSender,
              RunServer, RunServerBlocks, ReadReturns, Begins, Ends, pool, setup, Constructed
<1> QED  BY <1>1, <1>2, <1>3, <1>4, <1>5, <1>6, <1>7, <1>8, <1>9, <1>10, <1>11, <1>12, <1>13,
            <1>14, <1>15, <1>16, <1>17, <1>18 DEF Next, AppStep, MainStep, WorkerStep, JobStep

\* The main thread ends with nothing under way, before should_terminate is set.
LEMMA NextEnded ==
  ASSUME Threads!JobsInv, Phases, Ended, [Next]_vars
  PROVE  Ended'
<1>0. producerPc \in [{"app", "main"} -> {"idle", "notify"}]
  BY DEF Threads!JobsInv, Threads!TypeOK
<1>1. CASE UNCHANGED vars
  BY <1>1 DEF Ended, vars, pool, own
<1>2. CASE \/ Construction \/ Crash \/ RunDone \/ Stop \/ StopDataManager \/ StopIn \/ StopInDone
          \/ StopOut \/ JoinThrows \/ Destroy
  BY <1>2 DEF Ended, Phases, Still, Construction, Crash, RunDone, Stop, StopDataManager, StopIn,
              StopInDone, StopOut, JoinThrows, AllCleared, Destroy, pool
<1>3. CASE MainTest \/ MainTurn
  BY <1>3 DEF Ended, Phases, Still, MainTest, MainTurn, pool
<1>4. CASE RunStart \/ RunStarted \/ \E w \in Workers : RunThread(w)
  BY <1>4 DEF Ended, RunStart, RunStarted, RunThread, own, Pool!Start, Pool!StartDone,
              Pool!StartThread
<1>5. CASE RunDataManager \/ RunOut \/ MainQueue
  BY <1>0, <1>5 DEF Ended, Phases, Still, RunDataManager, RunOut, MainQueue, Queue, Pool!QueueJob
<1>6. CASE Notify("app") \/ Notify("main")
  BY <1>0, <1>6 DEF Ended, Notify, own, Pool!NotifyOne
<1>7. CASE StopPool
  BY <1>7 DEF Ended, StopPool, MainJoined, Pool!StopFlag
<1>8. CASE StopNotify \/ StopJoined
  BY <1>8 DEF Ended, StopNotify, StopJoined, own, Pool!NotifyAll, Pool!Joined
<1>9. ASSUME NEW w \in Workers, \/ Take(w) \/ Return(w) \/ WaitOrExit(w) \/ SpuriousWake(w)
      PROVE  Ended'
  BY <1>9 DEF Ended, Take, Return, WaitOrExit, SpuriousWake, own, Pool!ThreadTake, Pool!JobReturns,
              Pool!ThreadWait, Pool!ThreadExit, Pool!SpuriousWake
<1>10. ASSUME NEW w \in Workers, JobStep(w)
       PROVE  Ended'
  BY <1>10 DEF Ended, JobStep, BeginLoop, OpenFails, LoopEnds, RunReceiver, RunSender, RunServer,
              RunServerBlocks, ReadReturns, Begins, Ends, pool
<1> QED  BY <1>1, <1>2, <1>3, <1>4, <1>5, <1>6, <1>7, <1>8, <1>9, <1>10
         DEF Next, AppStep, MainStep, WorkerStep, JobStep

\* The parts of the framework, once it is constructed, and its registrations.
LEMMA NextConstruction ==
  ASSUME Lists, Parts, Registered, Phases, Bodies, [Next]_vars
  PROVE  Lists' /\ Parts' /\ Registered'
<1>1. CASE Construction
  BY <1>1, ConstructLists, ConstructParts, ConstructRegistered DEF Construction
<1>2. CASE Destroy
  <2>1. made' = made \ {"dm"} /\ app' = "destroyed"
        /\ UNCHANGED <<m_pt, step, m_proxyNodeList, feeders, consumers>>
    BY <1>2 DEF Destroy
  <2>2. Lists'
    <3>1. \A d \in Directions : d \in made' <=> d \in made
      BY <2>1 DEF Directions
    <3> QED  BY <2>1, <3>1 DEF Lists
  <2>3. Parts'
    BY <2>1 DEF Parts
  <2>4. \A types : NamesOf(types)' = NamesOf(types)
    BY <2>1 DEF NamesOf, Names
  <2> QED  BY <2>1, <2>2, <2>3, <2>4 DEF Registered, Fits, AsManyAsFit
<1>3. CASE ~ Construction /\ ~ Destroy
  <2>1. UNCHANGED setup
    BY <1>3 DEF Next, AppStep, MainStep, WorkerStep, vars, own, RunStart, Crash, Stop, RunThread,
              RunStarted, RunDataManager, RunOut, RunDone, Notify, StopDataManager, StopIn,
              StopInDone, StopOut, JoinThrows, AllCleared, StopPool, StopNotify, StopJoined,
              MainTest, MainQueue, MainTurn, WaitOrExit, Take, Return, JobStep, BeginLoop,
              OpenFails, LoopEnds, RunReceiver, RunSender, RunServer, RunServerBlocks, ReadReturns,
              Begins, Ends, SpuriousWake
  <2>2. app = "destroyed" => app' = "destroyed"
    <3>1. CASE Crash \/ StopJoined
      BY <3>1 DEF Phases, Still, Bodies, Crash, StopJoined, Pool!Joined
    <3>2. CASE ~ Crash /\ ~ StopJoined
      BY <1>3, <3>2 DEF Next, AppStep, MainStep, WorkerStep, vars, own, RunStart, Stop, RunThread,
              RunStarted, RunDataManager, RunOut, RunDone, Notify, StopDataManager, StopIn,
              StopInDone, StopOut, JoinThrows, AllCleared, StopPool, StopNotify, MainTest,
              MainQueue, MainTurn, WaitOrExit, Take, Return, JobStep, BeginLoop, OpenFails,
              LoopEnds, RunReceiver, RunSender, RunServer, RunServerBlocks, ReadReturns, Begins,
              Ends, SpuriousWake
    <3> QED  BY <3>1, <3>2
  <2>3. \A types : NamesOf(types)' = NamesOf(types)
    BY <2>1 DEF setup, NamesOf, Names
  <2> QED  BY <2>1, <2>2, <2>3 DEF setup, Lists, Parts, Registered, Fits, AsManyAsFit
<1> QED  BY <1>1, <1>2, <1>3

\* Only a framework without a part that run() uses crashes, and that one was not built.
LEMMA NextCrashes ==
  ASSUME Parts, Phases, Bodies, CrashesOnlyUnbuilt, [Next]_vars
  PROVE  CrashesOnlyUnbuilt'
<1> USE DEF CrashesOnlyUnbuilt
<1>1. CASE Crash
  <2>1. step \in {"built", "failed"}
    BY <1>1 DEF Crash, Phases, Still, Bodies, Constructed
  <2>2. step # "built"
    <3>1. ASSUME step = "built" PROVE FALSE
      <4>1. {"pool", "out", "in"} \subseteq made
        BY <3>1 DEF Parts
      <4>2. app # "destroyed"
        BY <1>1 DEF Crash, Bodies, Phases, Still
      <4>3. "dm" \in made
        BY <3>1, <4>2 DEF Parts
      <4> QED  BY <1>1, <4>1, <4>3 DEF Crash
    <3> QED  BY <3>1
  <2> QED  BY <1>1, <2>1, <2>2 DEF Crash, setup
<1>2. CASE Construction \/ Destroy
  BY <1>2 DEF Construction, Destroy
<1>3. CASE ~ Crash /\ ~ Construction /\ ~ Destroy
  <2>1. UNCHANGED setup
    BY <1>3 DEF Next, AppStep, MainStep, WorkerStep, vars, own, RunStart, Stop, RunThread,
              RunStarted, RunDataManager, RunOut, RunDone, Notify, StopDataManager, StopIn,
              StopInDone, StopOut, JoinThrows, AllCleared, StopPool, StopNotify, StopJoined,
              MainTest, MainQueue, MainTurn, WaitOrExit, Take, Return, JobStep, BeginLoop,
              OpenFails, LoopEnds, RunReceiver, RunSender, RunServer, RunServerBlocks, ReadReturns,
              Begins, Ends, SpuriousWake
  <2>2. app' = "crashed" => app = "crashed"
    BY <1>3 DEF Next, AppStep, MainStep, WorkerStep, vars, own, RunStart, Stop, RunThread,
              RunStarted, RunDataManager, RunOut, RunDone, Notify, StopDataManager, StopIn,
              StopInDone, StopOut, JoinThrows, AllCleared, StopPool, StopNotify, StopJoined,
              MainTest, MainQueue, MainTurn, WaitOrExit, Take, Return, JobStep, BeginLoop,
              OpenFails, LoopEnds, RunReceiver, RunSender, RunServer, RunServerBlocks, ReadReturns,
              Begins, Ends, SpuriousWake
  <2> QED  BY <2>1, <2>2 DEF setup
<1> QED  BY <1>1, <1>2, <1>3

-----------------------------------------------------------------------------
(* The jobs and their names.                                               *)

\* What is queued, and where the two threads that queue have come to.
Named ==
  /\ name \in Seq(AllNodes \cup {DM}) /\ Len(name) = queued
  /\ at \in [{"app", "main"} -> Nat \ {0}]
  /\ m_isRunning \in [Flags -> BOOLEAN]

\* The nodes of a proxy are nodes of a topology.
LEMMA NodesKnown ==
  ASSUME Lists, NEW d \in Directions, NEW k \in DOMAIN m_proxyNodeList[d]
  PROVE  /\ m_proxyNodeList[d][k] \in AllNodes
         /\ d \in DOMAIN m_pt.proxies /\ k \in DOMAIN m_pt.proxies[d]
         /\ m_proxyNodeList[d][k] = m_pt.proxies[d][k]
<1>1. m_proxyNodeList[d] \in Seq(Node) /\ m_proxyNodeList[d][k] = m_pt.proxies[d][k]
  BY DEF Lists
<1>2. /\ d \in DOMAIN m_pt.proxies /\ m_pt \in Topologies
      /\ Len(m_proxyNodeList[d]) <= Len(m_pt.proxies[d])
  <2>1. d \in made
    BY DEF Lists
  <2> QED  BY <2>1 DEF Lists
<1>3. m_pt.proxies[d] \in Seq(Node)
  BY <1>2, SetupAssumption DEF IsTopology
<1>4. k \in DOMAIN m_pt.proxies[d]
  BY <1>1, <1>2, <1>3, LenProperties
<1>5. m_pt.proxies[d][k] \in NodesOf(m_pt)
  BY <1>2, <1>4 DEF NodesOf, Range
<1>6. m_pt.proxies[d][k] \in AllNodes
  BY <1>2, <1>5 DEF AllNodes
<1> QED  BY <1>1, <1>2, <1>4, <1>6

\* A job and its name are queued together.
LEMMA QueueNames ==
  ASSUME NEW S, NEW n \in S, NEW p \in {"app", "main"}, name \in Seq(S), Len(name) = queued,
         Queue(p, n)
  PROVE  /\ name' \in Seq(S) /\ Len(name') = queued' /\ DOMAIN name' = 1 .. Len(name) + 1
         /\ DOMAIN name = 1 .. Len(name) /\ Len(name) \in Nat
         /\ \A k \in DOMAIN name : name'[k] = name[k]
         /\ name'[Len(name) + 1] = n
<1>1. name' = Append(name, n) /\ queued' = queued + 1
  BY DEF Queue, Pool!QueueJob
<1>2. /\ Append(name, n) \in Seq(S) /\ Len(Append(name, n)) = Len(name) + 1
      /\ \A i \in 1 .. Len(name) : Append(name, n)[i] = name[i]
      /\ Append(name, n)[Len(name) + 1] = n
  BY AppendProperties
<1>3. DOMAIN Append(name, n) = 1 .. Len(name) + 1 /\ DOMAIN name = 1 .. Len(name) /\ Len(name) \in Nat
  BY <1>2, LenProperties
<1> QED  BY <1>1, <1>2, <1>3

\* The steps that queue a job, and what they queue.
Queueing ==
  \/ RunDataManager /\ Queue("app", DM)
  \/ RunOut /\ \E k \in DOMAIN m_proxyNodeList["out"] : Queue("app", m_proxyNodeList["out"][k])
  \/ MainQueue /\ \E k \in DOMAIN m_proxyNodeList["in"] : Queue("main", m_proxyNodeList["in"][k])

\* A step queues a job with its name, or leaves both alone.
LEMMA QueueingOrNot ==
  ASSUME Lists, Named, [Next]_vars
  PROVE  Queueing \/ UNCHANGED <<name, queued>>
<1>0. /\ OutNodes \in Seq(Node) /\ InNodes \in Seq(Node)
      /\ at["app"] \in Nat \ {0} /\ at["main"] \in Nat \ {0}
  BY DEF Lists, Directions, OutNodes, InNodes, Named
<1>1. CASE RunDataManager
  BY <1>1 DEF RunDataManager, Queueing
<1>2. CASE RunOut
  <2>1. at["app"] \in DOMAIN OutNodes
    BY <1>0, <1>2, LenProperties DEF RunOut
  <2> QED  BY <1>2, <2>1 DEF RunOut, Queueing, OutNodes
<1>3. CASE MainQueue
  <2>1. at["main"] \in DOMAIN InNodes
    BY <1>0, <1>3, LenProperties DEF MainQueue, JobNodes
  <2> QED  BY <1>3, <2>1 DEF MainQueue, Queueing, InNodes, JobNodes
<1>4. CASE Beside \/ UNCHANGED vars
  BY <1>4 DEF Beside, vars, own, pool, Construction, Crash, RunDone, MainTest, MainTurn, Stop,
              StopDataManager, StopIn, StopInDone, StopOut, JoinThrows, AllCleared, Destroy,
              JobStep, BeginLoop, OpenFails, LoopEnds, RunReceiver, RunSender, RunServer,
              RunServerBlocks, ReadReturns, Begins, Ends
<1>5. CASE \/ RunStart \/ RunStarted \/ StopPool \/ StopNotify \/ StopJoined
           \/ Notify("app") \/ Notify("main")
  BY <1>5 DEF own, RunStart, RunStarted, StopPool, StopNotify, StopJoined, Notify, Pool!Start,
              Pool!StartDone, Pool!StopFlag, Pool!NotifyAll, Pool!Joined, Pool!NotifyOne
<1>6. CASE \E w \in Workers : RunThread(w) \/ Take(w) \/ Return(w) \/ WaitOrExit(w) \/ SpuriousWake(w)
  BY <1>6 DEF own, RunThread, Take, Return, WaitOrExit, SpuriousWake, Pool!StartThread,
              Pool!ThreadTake, Pool!JobReturns, Pool!ThreadWait, Pool!ThreadExit, Pool!SpuriousWake
<1> QED  BY <1>1, <1>2, <1>3, <1>4, <1>5, <1>6 DEF Next, AppStep, MainStep, WorkerStep, Beside,
         JobStep

\* Every job has a name, and the flags stay flags.
LEMMA NextNamed ==
  ASSUME Lists, Named, [Next]_vars
  PROVE  Named'
<1>1. name' \in Seq(AllNodes \cup {DM}) /\ Len(name') = queued'
  <2>1. CASE Queueing
    <3>1. PICK n \in AllNodes \cup {DM}, p \in {"app", "main"} : Queue(p, n)
      BY <2>1, NodesKnown DEF Queueing, Directions
    <3> QED  BY <3>1, QueueNames DEF Named
  <2>2. CASE UNCHANGED <<name, queued>>
    BY <2>2 DEF Named
  <2> QED  BY <2>1, <2>2, QueueingOrNot
<1>2. \/ UNCHANGED at
      \/ \E p \in {"app", "main"} : at' = [at EXCEPT ![p] = 1] \/ at' = [at EXCEPT ![p] = at[p] + 1]
  BY DEF Next, AppStep, MainStep, WorkerStep, vars, own, Construction, Crash, Destroy, RunStart,
         Stop, RunThread, RunStarted, RunDataManager, RunOut, RunDone, Notify, StopDataManager,
         StopIn, StopInDone, StopOut, JoinThrows, AllCleared, StopPool, StopNotify, StopJoined,
         MainTest, MainQueue, MainTurn, WaitOrExit, Take, Return, JobStep, BeginLoop, OpenFails,
         LoopEnds, RunReceiver, RunSender, RunServer, RunServerBlocks, ReadReturns, Begins, Ends,
         SpuriousWake
<1>3. at' \in [{"app", "main"} -> Nat \ {0}]
  <2>1. \A p \in {"app", "main"} : at[p] + 1 \in Nat \ {0} /\ 1 \in Nat \ {0}
    BY DEF Named
  <2> QED  BY <1>2, <2>1 DEF Named
<1>4. UNCHANGED m_pt
  BY DEF Next, AppStep, MainStep, WorkerStep, vars, own, setup, Construction, Construct, ReadConf,
         InstantiateThreadPool, InstantiateDataManager, InstantiateProxy, AddNode, UnknownType,
         BindFails, ProxyDone, Crash, Destroy, RunStart, Stop, RunThread, RunStarted,
         RunDataManager, RunOut, RunDone, Notify, StopDataManager, StopIn, StopInDone, StopOut,
         JoinThrows, AllCleared, StopPool, StopNotify, StopJoined, MainTest, MainQueue, MainTurn,
         WaitOrExit, Take, Return, JobStep, BeginLoop, OpenFails, LoopEnds, RunReceiver, RunSender,
         RunServer, RunServerBlocks, ReadReturns, Begins, Ends, SpuriousWake
<1>5. UNCHANGED m_isRunning \/ \E x : \E b \in BOOLEAN : m_isRunning' = [m_isRunning EXCEPT ![x] = b]
  BY DEF Next, AppStep, MainStep, WorkerStep, vars, own, Construction, Crash, Destroy, RunStart,
         Stop, RunThread, RunStarted, RunDataManager, RunOut, RunDone, Notify, StopDataManager,
         StopIn, StopInDone, StopOut, JoinThrows, AllCleared, StopPool, StopNotify, StopJoined,
         MainTest, MainQueue, MainTurn, WaitOrExit, Take, Return, JobStep, BeginLoop, OpenFails,
         LoopEnds, RunReceiver, RunSender, RunServer, RunServerBlocks, ReadReturns, Begins, Ends,
         SpuriousWake, Clear
<1>6. m_isRunning' \in [Flags -> BOOLEAN]
  BY <1>5 DEF Named
<1>7. Flags' = Flags
  BY <1>4 DEF Flags, NodesOf
<1> QED  BY <1>1, <1>3, <1>6, <1>7 DEF Named

-----------------------------------------------------------------------------
(* A looping run is queued once.  run() queues the data manager first and  *)
(* then one output node after the other; runJobs queues input nodes.       *)

\* While run() queues the output nodes, only the data manager and the nodes before at
\* are queued; always, no name but that of an input node is queued twice.
QueuedOnce ==
  /\ app = "queueOut" =>
       \A k \in DOMAIN name :
         name[k] = DM \/ \E i \in DOMAIN OutNodes : i < at["app"] /\ name[k] = OutNodes[i]
  /\ \A k, l \in DOMAIN name : name[k] = name[l] /\ name[k] \notin Range(InNodes) => k = l

\* No two output nodes are the same.
LEMMA OutputsDistinct ==
  ASSUME DistinctOutputs, Lists, NEW i \in DOMAIN OutNodes, NEW j \in DOMAIN OutNodes,
         OutNodes[i] = OutNodes[j]
  PROVE  i = j
<1>1. "out" \in Directions /\ m_pt \in Topologies
  BY DEF Directions, Lists
<1>2. /\ "out" \in DOMAIN m_pt.proxies
      /\ i \in DOMAIN m_pt.proxies["out"] /\ OutNodes[i] = m_pt.proxies["out"][i]
      /\ j \in DOMAIN m_pt.proxies["out"] /\ OutNodes[j] = m_pt.proxies["out"][j]
  BY <1>1, NodesKnown DEF OutNodes
<1> QED  BY <1>1, <1>2 DEF DistinctOutputs, IsInjective

\* Who queues adds a name that was not queued, or that of an input node.
LEMMA NextQueuedOnce ==
  ASSUME DistinctOutputs, Lists, Phases, Named, QueuedOnce, [Next]_vars
  PROVE  QueuedOnce'
<1>1. CASE Construction
  <2>1. name' = <<>> /\ app' = "new"
    BY <1>1 DEF Construction, Phases
  <2> QED  BY <2>1 DEF QueuedOnce
<1>2. CASE ~ Construction
  <2>1. UNCHANGED m_proxyNodeList
    BY <1>2 DEF Next, AppStep, MainStep, WorkerStep, vars, own, setup, Crash, Destroy, RunStart,
              Stop, RunThread, RunStarted, RunDataManager, RunOut, RunDone, Notify,
              StopDataManager, StopIn, StopInDone, StopOut, JoinThrows, AllCleared, StopPool,
              StopNotify, StopJoined, MainTest, MainQueue, MainTurn, WaitOrExit, Take, Return,
              JobStep, BeginLoop, OpenFails, LoopEnds, RunReceiver, RunSender, RunServer,
              RunServerBlocks, ReadReturns, Begins, Ends, SpuriousWake
  <2>2. OutNodes' = OutNodes /\ InNodes' = InNodes
    BY <2>1 DEF OutNodes, InNodes
  <2>3. CASE RunDataManager
    <3>1. name = <<>> /\ Queue("app", DM)
      BY <2>3 DEF RunDataManager, Phases
    <3>2. DOMAIN name' = 1 .. 1 /\ name'[1] = DM
      BY <3>1 DEF Queue
    <3> QED  BY <3>2 DEF QueuedOnce
  <2>4. CASE RunOut
    <3> DEFINE a == at["app"]
               n == OutNodes[a]
    <3>1. /\ OutNodes \in Seq(Node) /\ a \in Nat \ {0} /\ app = "queueOut"
          /\ Queue("app", n) /\ at'["app"] = a + 1
      BY <2>4 DEF RunOut, Named, Lists, Directions, OutNodes
    <3>2. a \in DOMAIN OutNodes /\ DOMAIN OutNodes \subseteq Nat
      BY <2>4, <3>1, LenProperties DEF RunOut
    <3>3. n \in AllNodes
      BY <3>2, NodesKnown DEF OutNodes, Directions
    <3>4. /\ DOMAIN name' = 1 .. Len(name) + 1 /\ DOMAIN name = 1 .. Len(name) /\ Len(name) \in Nat
          /\ \A k \in DOMAIN name : name'[k] = name[k]
          /\ name'[Len(name) + 1] = n
      BY <3>1, <3>3, QueueNames DEF Named
    <3>5. \A k \in DOMAIN name : name[k] # n
      <4> SUFFICES ASSUME NEW k \in DOMAIN name, name[k] = n PROVE FALSE
        OBVIOUS
      <4>1. n # DM
        BY <3>3, FrameworkAssumption
      <4>2. PICK i \in DOMAIN OutNodes : i < a /\ name[k] = OutNodes[i]
        BY <3>1, <4>1 DEF QueuedOnce
      <4>3. i = a
        BY <3>2, <4>2, OutputsDistinct
      <4> QED  BY <3>2, <4>2, <4>3
    <3>6. \A k \in DOMAIN name' : \/ k \in DOMAIN name /\ name'[k] = name[k]
                                  \/ k = Len(name) + 1 /\ name'[k] = n
      BY <3>4
    <3>7. \A k, l \in DOMAIN name' : name'[k] = name'[l] /\ name'[k] \notin Range(InNodes) => k = l
      BY <3>5, <3>6 DEF QueuedOnce
    <3>8. \A k \in DOMAIN name' :
            name'[k] = DM \/ \E i \in DOMAIN OutNodes : i < a + 1 /\ name'[k] = OutNodes[i]
      <4> SUFFICES ASSUME NEW k \in DOMAIN name', name'[k] # DM
                   PROVE  \E i \in DOMAIN OutNodes : i < a + 1 /\ name'[k] = OutNodes[i]
        OBVIOUS
      <4>1. CASE name'[k] = n
        BY <3>2, <4>1
      <4>2. CASE k \in DOMAIN name /\ name'[k] = name[k]
        <5>1. PICK i \in DOMAIN OutNodes : i < a /\ name[k] = OutNodes[i]
          BY <3>1, <4>2 DEF QueuedOnce
        <5> QED  BY <3>2, <4>2, <5>1
      <4> QED  BY <3>6, <4>1, <4>2
    <3> QED  BY <2>2, <3>1, <3>7, <3>8 DEF QueuedOnce
  <2>5. CASE MainQueue
    <3>1. app # "queueOut" /\ UNCHANGED app
      BY <2>5 DEF MainQueue, Phases, Still
    <3>2. PICK n \in Range(InNodes) : Queue("main", n)
      <4>1. InNodes \in Seq(Node) /\ at["main"] \in Nat \ {0}
        BY DEF Named, Lists, Directions, InNodes
      <4>2. at["main"] \in DOMAIN InNodes
        BY <2>5, <4>1, LenProperties DEF MainQueue, JobNodes
      <4> QED  BY <2>5, <4>2 DEF MainQueue, JobNodes, Range
    <3>3. n \in AllNodes
      BY NodesKnown DEF InNodes, Directions, Range
    <3>4. /\ DOMAIN name' = 1 .. Len(name) + 1 /\ DOMAIN name = 1 .. Len(name) /\ Len(name) \in Nat
          /\ \A k \in DOMAIN name : name'[k] = name[k]
          /\ name'[Len(name) + 1] = n
      BY <3>2, <3>3, QueueNames DEF Named
    <3>5. \A k \in DOMAIN name' : \/ k \in DOMAIN name /\ name'[k] = name[k]
                                  \/ k = Len(name) + 1 /\ name'[k] = n
      BY <3>4
    <3>6. \A k, l \in DOMAIN name' : name'[k] = name'[l] /\ name'[k] \notin Range(InNodes) => k = l
      BY <3>5 DEF QueuedOnce
    <3> QED  BY <2>2, <3>1, <3>6 DEF QueuedOnce
  <2>6. CASE ~ Queueing
    <3>1. UNCHANGED name
      BY <2>6, QueueingOrNot
    <3>2. app' = "queueOut" => app = "queueOut" /\ at'["app"] = at["app"]
      <4>1. ~ RunDataManager /\ (~ RunOut \/ app = "queueOut")
        BY <2>6 DEF RunDataManager, Queueing, RunOut
      <4>2. CASE MainTest \/ MainTurn \/ MainQueue
        BY <4>2 DEF MainTest, MainTurn, MainQueue, Phases, Still, Named
      <4>3. CASE RunOut
        BY <2>6, <4>3, QueueingOrNot DEF RunOut, Queue, Pool!QueueJob, Named
      <4>4. CASE ~ (MainTest \/ MainTurn \/ MainQueue) /\ ~ RunOut
        BY <1>2, <4>1, <4>4 DEF Next, AppStep, MainStep, WorkerStep, vars, own, Crash, Destroy,
              RunStart, Stop, RunThread, RunStarted, RunDone, Notify, StopDataManager, StopIn,
              StopInDone, StopOut, JoinThrows, AllCleared, StopPool, StopNotify, StopJoined,
              WaitOrExit, Take, Return, JobStep, BeginLoop, OpenFails, LoopEnds, RunReceiver,
              RunSender, RunServer, RunServerBlocks, ReadReturns, Begins, Ends, SpuriousWake
      <4> QED  BY <4>2, <4>3, <4>4
    <3> QED  BY <2>2, <3>1, <3>2 DEF QueuedOnce
  <2> QED  BY <2>3, <2>4, <2>5, <2>6 DEF Queueing
<1> QED  BY <1>1, <1>2

\* Two workers in a run of the same name are in the same job, hence the same worker.
LEMMA OneExecutes ==
  ASSUME Threads!JobsInv, Named, QueuedOnce
  PROVE  LoopersRunOnce
<1> SUFFICES ASSUME NEW n \in Loopers \ Range(InNodes) PROVE Cardinality(Executing(n)) <= 1
  BY DEF LoopersRunOnce
<1>1. \A w \in Workers : workerPc[w] = "run" => job[w] \in DOMAIN name
  <2> SUFFICES ASSUME NEW w \in Workers, workerPc[w] = "run" PROVE job[w] \in DOMAIN name
    OBVIOUS
  <2>1. job[w] \in 1 .. Len(started)
    BY DEF Threads!JobsInv, Threads!RunningWereTaken
  <2>2. started \in Seq(1 .. queued) /\ jobs \in Seq(1 .. queued)
    BY DEF Threads!JobsInv, Threads!TypeOK
  <2>3. DOMAIN (started \o jobs) = 1 .. Len(started) + Len(jobs)
    BY <2>2, ConcatProperties, LenProperties
  <2>4. DOMAIN (started \o jobs) = 1 .. queued
    <3>1. started \o jobs = [i \in 1 .. queued |-> i]
      BY DEF Threads!JobsInv, Threads!JobsInOrder
    <3> QED  BY <3>1, Zenon
  <2>5. Len(started) \in Nat /\ Len(jobs) \in Nat /\ DOMAIN name = 1 .. queued
    BY <2>2, LenProperties DEF Named
  <2>6. job[w] \in 1 .. Len(started) + Len(jobs)
    BY <2>1, <2>5
  <2>7. job[w] \in 1 .. queued
    BY <2>3, <2>4, <2>6, Zenon
  <2> QED  BY <2>5, <2>7
<1>2. \A v, w \in Executing(n) : v = w
  <2> SUFFICES ASSUME NEW v \in Executing(n), NEW w \in Executing(n) PROVE v = w
    OBVIOUS
  <2>1. /\ v \in Workers /\ workerPc[v] = "run" /\ name[job[v]] = n
        /\ w \in Workers /\ workerPc[w] = "run" /\ name[job[w]] = n
    BY DEF Executing, Job
  <2>2. job[v] = job[w]
    BY <1>1, <2>1 DEF QueuedOnce
  <2> QED  BY <2>1, <2>2 DEF Threads!JobsInv, Threads!OneWorkerPerJob
<1>3. CASE Executing(n) = {}
  BY <1>3, FS_EmptySet
<1>4. CASE Executing(n) # {}
  <2>1. PICK w : Executing(n) = {w}
    BY <1>2, <1>4
  <2>2. Cardinality({w}) = 1
    BY FS_Singleton
  <2> QED  BY <2>1, <2>2
<1> QED  BY <1>3, <1>4

-----------------------------------------------------------------------------
(* The results.                                                            *)

\* The invariant of the framework.
FrameworkInv ==
  /\ Threads!JobsInv
  /\ Lists /\ Parts /\ Registered
  /\ Phases /\ Bodies /\ Ended
  /\ Named /\ CrashesOnlyUnbuilt

\* The program starts with nothing made, nothing queued and no thread.
LEMMA InitFrameworkInv == Init => FrameworkInv
<1> SUFFICES ASSUME Init PROVE FrameworkInv
  OBVIOUS
<1>1. Named
  <2>1. <<>> \in Seq(AllNodes \cup {DM}) /\ Len(<<>>) = 0
    BY EmptySeq
  <2> QED  BY <2>1 DEF Init, Pool!Init, Named
<1>2. CrashesOnlyUnbuilt
  BY DEF Init, CrashesOnlyUnbuilt
<1> QED  BY <1>1, <1>2, PoolInv, InitConstruction, InitControl DEF FrameworkInv

\* Every step of every thread keeps the invariant.
LEMMA NextFrameworkInv == FrameworkInv /\ [Next]_vars => FrameworkInv'
BY PoolInv, NextConstruction, NextPhases, NextBodies, NextEnded, NextNamed, NextCrashes
   DEF FrameworkInv

\* Whatever the topology, every variable of the framework has its type, the job of every
\* worker has a name, and a worker is in the body of a run exactly while it has a job.
THEOREM TypeCorrect == Spec => []TypeOK
<1>1. FrameworkInv => TypeOK
  <2> SUFFICES ASSUME FrameworkInv PROVE TypeOK
    OBVIOUS
  <2>1. SetupTypeOK
    BY DEF FrameworkInv, Lists, Parts, SetupTypeOK
  <2>2. Pool!TypeOK
    <3>1. Threads!TypeOK
      BY DEF FrameworkInv, Threads!JobsInv
    <3> QED  BY <3>1 DEF Threads!TypeOK, Pool!TypeOK
  <2>3. /\ app \in {"new", "start", "queueDm", "queueOut", "up", "stopDm", "stopIn",
                    "stopOut", "stopPool", "stopped", "crashed", "thrown", "destroyed"}
        /\ mainThread \in {"none", "test", "queue", "ended"}
    BY DEF FrameworkInv, Phases
  <2> QED  BY <2>1, <2>2, <2>3 DEF FrameworkInv, Named, Bodies, TypeOK
<1> QED  BY <1>1, InitFrameworkInv, NextFrameworkInv, PTL DEF Spec

\* Although no node looks at the answer to its registration, every receiver of a
\* framework that was built can push and every consumer can pop, as long as there are
\* places: as many of them are registered as fit, not one less and no one else, also when
\* a node takes over the place of one that is called "empty".
THEOREM NodesGetTheirQueues == Spec => []NodesHaveQueues
<1>1. FrameworkInv => NodesHaveQueues
  BY AllRegistered DEF FrameworkInv
<1> QED  BY <1>1, InitFrameworkInv, NextFrameworkInv, PTL DEF Spec

\* Every part that run(), the main thread and the workers use was made, unless the
\* constructor swallowed an error: parseConf makes all of them before it ends well, and
\* the destructor deletes the data manager when no worker is left to use it.
THEOREM BuiltDoesNotCrash == Spec => []CrashesOnlyUnbuilt
<1>1. FrameworkInv => CrashesOnlyUnbuilt
  BY DEF FrameworkInv
<1> QED  BY <1>1, InitFrameworkInv, NextFrameworkInv, PTL DEF Spec

\* stop() returns to a program in which no worker executes anything and runJobs is over.
THEOREM StopLeavesQuiet == Spec => []QuietWhenStopped
<1>1. FrameworkInv => QuietWhenStopped
  <2> SUFFICES ASSUME FrameworkInv, app \in {"stopped", "destroyed"}, name # <<>>
               PROVE  Still
    BY DEF QuietWhenStopped, Executing, Still
  <2> QED  BY DEF FrameworkInv, Phases
<1> QED  BY <1>1, InitFrameworkInv, NextFrameworkInv, PTL DEF Spec

\* Nobody queues a job into a pool that was told to stop.
THEOREM StopEndsQueueing == Spec => NobodyQueuesAfterStop
<1>1. FrameworkInv /\ [Next]_vars =>
        [should_terminate => queued' = queued /\ producerPc["main"] = "idle"]_vars
  <2> SUFFICES ASSUME FrameworkInv, [Next]_vars, should_terminate
               PROVE  queued' = queued /\ producerPc["main"] = "idle"
    OBVIOUS
  <2>1. /\ mainThread = "none" /\ producerPc["main"] = "idle"
        /\ app \notin {"queueDm", "queueOut"}
    BY DEF FrameworkInv, Ended
  <2>2. ~ Queueing
    BY <2>1 DEF Queueing, RunDataManager, RunOut, MainQueue
  <2> QED  BY <2>1, <2>2, QueueingOrNot DEF FrameworkInv
<1> QED  BY <1>1, InitFrameworkInv, NextFrameworkInv, PTL DEF Spec, NobodyQueuesAfterStop

\* The data manager copies and every consumer pops in one thread at most, if the topology
\* gives no output node twice: two entries with the name of one consumer are two objects
\* that pop from one queue.
THEOREM LoopersAreAlone ==
  ASSUME DistinctOutputs PROVE Spec => []LoopersRunOnce
<1>1. Init => QueuedOnce
  BY DEF Init, QueuedOnce
<1>2. FrameworkInv /\ QueuedOnce /\ [Next]_vars => QueuedOnce'
  BY NextQueuedOnce DEF FrameworkInv
<1>3. FrameworkInv /\ QueuedOnce => LoopersRunOnce
  BY OneExecutes DEF FrameworkInv
<1> QED  BY <1>1, <1>2, <1>3, InitFrameworkInv, NextFrameworkInv, PTL DEF Spec
=============================================================================
