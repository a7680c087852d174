------------------------------- MODULE Setup -------------------------------
(***************************************************************************)
(* The constructor of DataFramework: from a topology file to a thread      *)
(* pool, a data manager and two proxies with their nodes.                  *)
(*                                                                         *)
(* parseConf builds the parts one after the other and catches whatever is  *)
(* thrown on the way: the parts made so far stay, the pointers to the      *)
(* others stay null, and the constructor returns all the same.  A node     *)
(* registers its name with the data manager (a feeder if it receives, a    *)
(* consumer if it is one) and ignores the answer.                          *)
(***************************************************************************)
EXTENDS Integers, Sequences, FiniteSets, Functions

CONSTANTS
  Topologies,  \* the topology files, see Topology
  MaxIn,       \* maxFeeders, 8 in the code
  MaxOut       \* maxConsumers

Directions == {"in", "out"}
Receivers  == {"TCP_Server", "UDP_Rx"}
NodeTypes  == Receivers \cup {"UDP_Tx", "CONSUMER"}   \* the types addNode makes

Node == [type : STRING, name : STRING]

\* A file that is there or not, can be read as JSON or not, has a name and a valid mode
\* for the data manager or not, and has the proxies of a set of directions.
IsTopology(t) ==
  /\ {t.there, t.json, t.conf} \subseteq BOOLEAN
  /\ DOMAIN t.proxies \subseteq Directions
  /\ \A d \in DOMAIN t.proxies : t.proxies[d] \in Seq(Node)

ASSUME SetupAssumption ==
  /\ \A t \in Topologies : IsTopology(t)
  /\ MaxIn \in 0 .. 255 /\ MaxOut \in 0 .. 255

VARIABLES
  m_pt,          \* the topology
  step,          \* what the constructor does next, or how it ended
  made,          \* the parts whose pointers have been set
  m_proxyNodeList,   \* the nodes of each proxy
  feeders,       \* names registered with the data manager
  consumers

setup == <<m_pt, step, made, m_proxyNodeList, feeders, consumers>>

SetupInit ==
  /\ m_pt \in Topologies
  /\ step = "file"
  /\ made = {}
  /\ m_proxyNodeList = [d \in Directions |-> <<>>]
  /\ feeders = {} /\ consumers = {}

-----------------------------------------------------------------------------
\* setConf throws out of the constructor when there is no file; parseConf reads it.
ReadConf ==
  /\ step = "file"
  /\ step' = IF ~ m_pt.there THEN "thrown" ELSE IF m_pt.json THEN "pool" ELSE "failed"
  /\ UNCHANGED <<m_pt, made, m_proxyNodeList, feeders, consumers>>

InstantiateThreadPool ==
  /\ step = "pool"
  /\ made' = made \cup {"pool"}
  /\ step' = "dm"
  /\ UNCHANGED <<m_pt, m_proxyNodeList, feeders, consumers>>

\* setDataManagerConf throws unless there are a name and a valid mode.
InstantiateDataManager ==
  /\ step = "dm"
  /\ IF m_pt.conf THEN made' = made \cup {"dm"} /\ step' = "out"
                  ELSE step' = "failed" /\ UNCHANGED made
  /\ UNCHANGED <<m_pt, m_proxyNodeList, feeders, consumers>>

\* Slip: the proxy is made when its first node is.
InstantiateProxy_Late(d) ==
  /\ step = d /\ d \notin made
  /\ IF d \in DOMAIN m_pt.proxies /\ m_pt.proxies[d] # <<>>
     THEN made' = made \cup {d} /\ UNCHANGED step
     ELSE UNCHANGED made /\ step' = IF d = "out" THEN "in" ELSE "built"
  /\ UNCHANGED <<m_pt, m_proxyNodeList, feeders, consumers>>

\* instantiateProxy: the topology must have the proxy.
InstantiateProxy(d) ==
  /\ step = d /\ d \notin made
  /\ IF d \in DOMAIN m_pt.proxies THEN made' = made \cup {d} /\ UNCHANGED step
                                  ELSE step' = "failed" /\ UNCHANGED made
  /\ UNCHANGED <<m_pt, m_proxyNodeList, feeders, consumers>>

\* Slip: one place less.
Register_Short(names, n, max) ==
  IF Cardinality(names) < max - 1 THEN names \cup {n} ELSE names

\* setFeeder or setConsumer: a name that is there is refused, and so is one for which there
\* is no place, unless it can take over the place of the name "empty".
Register(names, n, max) ==
  IF Cardinality(names) < max THEN names \cup {n}
  ELSE IF "empty" \in names /\ n \notin names THEN (names \ {"empty"}) \cup {n}
  ELSE names

\* The node of m_pt that the loop of instantiateProxy has come to.
Coming(d) == m_pt.proxies[d][Len(m_proxyNodeList[d]) + 1]
HasComing(d) ==
  step = d /\ d \in made /\ Len(m_proxyNodeList[d]) < Len(m_pt.proxies[d])

\* Node n registers in its constructor.
RegisterNode(n) ==
  /\ feeders' = IF n.type \in Receivers THEN Register(feeders, n.name, MaxIn) ELSE feeders
  /\ consumers' =
       IF n.type = "CONSUMER" THEN Register(consumers, n.name, MaxOut) ELSE consumers

\* addNode, for either proxy and whatever the type is for.
AddNode(d) ==
  /\ HasComing(d) /\ Coming(d).type \in NodeTypes
  /\ RegisterNode(Coming(d))
  /\ m_proxyNodeList' = [m_proxyNodeList EXCEPT ![d] = Append(@, Coming(d))]
  /\ UNCHANGED <<m_pt, step, made>>

\* getProxyType or addNode throws: no such type, or none that can be made.
UnknownType(d) ==
  /\ HasComing(d) /\ Coming(d).type \notin NodeTypes
  /\ step' = "failed"
  /\ UNCHANGED <<m_pt, made, m_proxyNodeList, feeders, consumers>>

\* The port is taken: the constructor of the node throws, its name stays registered.
BindFails(d) ==
  /\ HasComing(d) /\ Coming(d).type \in Receivers
  /\ RegisterNode(Coming(d))
  /\ step' = "failed"
  /\ UNCHANGED <<m_pt, made, m_proxyNodeList>>

ProxyDone(d) ==
  /\ step = d /\ d \in made /\ Len(m_proxyNodeList[d]) = Len(m_pt.proxies[d])
  /\ step' = IF d = "out" THEN "in" ELSE "built"
  /\ UNCHANGED <<m_pt, made, m_proxyNodeList, feeders, consumers>>

Construct ==
  \/ ReadConf \/ InstantiateThreadPool \/ InstantiateDataManager
  \/ \E d \in Directions :
       InstantiateProxy(d) \/ AddNode(d) \/ UnknownType(d) \/ BindFails(d) \/ ProxyDone(d)

-----------------------------------------------------------------------------
SetupTypeOK ==
  /\ m_pt \in Topologies
  /\ step \in {"file", "pool", "dm", "out", "in", "built", "failed", "thrown"}
  /\ made \subseteq {"pool", "dm", "out", "in"}
  /\ \A d \in Directions : \A k \in DOMAIN m_proxyNodeList[d] :
       m_proxyNodeList[d][k] = m_pt.proxies[d][k]

Names(d, types) == {n.name : n \in {m \in Range(m_proxyNodeList[d]) : m.type \in types}}

\* As many of the names as there are places for are registered, and no others.
AsManyAsFit(names, wanted, max) ==
  /\ names \subseteq wanted
  /\ Cardinality(names) = IF Cardinality(wanted) <= max THEN Cardinality(wanted) ELSE max

\* In a framework that was built, every node that receives has an input queue to push to
\* and every consumer an output queue to pop from, as far as the data manager has places;
\* of more nodes than that the rest was built all the same and has none: the nodes
\* register while they are made and nobody looks at the answers.
NodesHaveQueues ==
  step = "built" =>
    /\ AsManyAsFit(feeders, UNION {Names(d, Receivers) : d \in Directions}, MaxIn)
    /\ AsManyAsFit(consumers, UNION {Names(d, {"CONSUMER"}) : d \in Directions}, MaxOut)

\* Every output node of a framework that was built has an output queue to pop from.
OutputNodesGetData == step = "built" => Names("out", NodeTypes) \subseteq consumers
=============================================================================
