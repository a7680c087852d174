---------------------------- MODULE UdpPipeline ----------------------------
(***************************************************************************)
(* From a UDP client to the consumers: the socket of a UdpServer, the      *)
(* workers that execute its run(), and the data manager (module            *)
(* DataManager) that takes what they push to the consumers.                *)
(*                                                                         *)
(* Datagrams are numbered as they are sent.  The socket is external: it    *)
(* keeps datagrams in order and may drop one.                              *)
(***************************************************************************)
EXTENDS Integers, Sequences, FiniteSets, Functions

CONSTANTS
  Workers,
  Crews,       \* the sets of workers that may come to execute run()
  Name,        \* m_name, the name the server feeds under
  Consumers,
  MaxSend      \* bound: datagrams sent

ASSUME UdpAssumption ==
  /\ Crews \subseteq SUBSET Workers
  /\ IsFiniteSet(Workers)   \* threads of the pool
  /\ MaxSend \in Nat

VARIABLES
  \* the data manager, see DataManager
  m_mode, m_inQueues, m_outQueues, m_inQueuesIds, m_outQueuesIds, isRunning_,
  pc, it, dst, popPc, attempts, accepted, log, rx, joined,
  crew,        \* the workers that execute run(), an element of Crews
  socket,      \* datagrams the socket of the server holds
  buffer,      \* the datagram each worker has received and not pushed, or 0
  sent,        \* history: number of datagrams sent
  lost,        \* history: datagrams that never reach an input queue
  pushed       \* history: datagrams in the order they were pushed

manager == <<m_mode, m_inQueues, m_outQueues, m_inQueuesIds, m_outQueuesIds, isRunning_,
             pc, it, dst, popPc, attempts, accepted, log, rx, joined>>
vars == <<manager, crew, socket, buffer, sent, lost, pushed>>

DM == INSTANCE DataManager
  WITH Feeders <- {Name}, Removable <- {}, Modes <- {"BROADCAST"},
       MaxIn <- 8, MaxOut <- 8, MaxPush <- MaxSend, MaxVector <- 8

Init ==
  /\ DM!Init
  /\ crew \in Crews
  /\ socket = <<>>
  /\ buffer = [w \in Workers |-> 0]
  /\ sent = 0 /\ lost = {} /\ pushed = <<>>

-----------------------------------------------------------------------------
\* The constructor of the server registers its name, those of the consumers theirs.
Register ==
  /\ DM!SetFeederNew(Name) \/ \E c \in Consumers : DM!SetConsumerNew(c)
  /\ UNCHANGED <<crew, socket, buffer, sent, lost, pushed>>

\* UdpClient::send: the datagram reaches the socket, or nobody ever sees it.
Send ==
  /\ sent < MaxSend
  /\ sent' = sent + 1
  /\ \/ socket' = Append(socket, sent') /\ UNCHANGED lost
     \/ lost' = lost \cup {sent'} /\ UNCHANGED socket
  /\ UNCHANGED <<manager, crew, buffer, pushed>>

\* Slip: MSG_PEEK, the datagram stays in the socket.
Rest_Peek(s) == s

Rest(s) == Tail(s)

\* recvfrom() of UdpServer::run; without a datagram run() returns at once.
Receive(w) ==
  /\ w \in crew /\ buffer[w] = 0
  /\ socket # <<>>
  /\ buffer' = [buffer EXCEPT ![w] = Head(socket)]
  /\ socket' = Rest(socket)
  /\ UNCHANGED <<manager, crew, sent, lost, pushed>>

\* m_dataHandler->push, a step of its own: another worker may come first.
Push(w) ==
  /\ buffer[w] # 0
  /\ DM!Push(Name)
  /\ pushed' = Append(pushed, buffer[w])
  /\ buffer' = [buffer EXCEPT ![w] = 0]
  /\ UNCHANGED <<crew, socket, sent, lost>>

\* The name is not registered: the data manager drops the datagram.
PushUnknown(w) ==
  /\ buffer[w] # 0
  /\ DM!PushUnknown(Name)
  /\ lost' = lost \cup {buffer[w]}
  /\ pushed' = Append(pushed, buffer[w])
  /\ buffer' = [buffer EXCEPT ![w] = 0]
  /\ UNCHANGED <<crew, socket, sent>>

\* The thread in DataManager::run, the consumers, and whoever calls run and stop.
Manage ==
  /\ DM!RunCall \/ DM!RunStep \/ DM!Stop
  /\ UNCHANGED <<crew, socket, buffer, sent, lost, pushed>>

Pop(c) ==
  /\ DM!PopCheck(c) \/ DM!PopMove(c)
  /\ UNCHANGED <<crew, socket, buffer, sent, lost, pushed>>

Next ==
  \/ Register \/ Send \/ Manage
  \/ \E w \in Workers : Receive(w) \/ Push(w) \/ PushUnknown(w)
  \/ \E c \in Consumers : Pop(c)

Spec == Init /\ [][Next]_vars

\* Threads go on when they can and the pool runs the node again and again; no client
\* has to send, nobody has to register, to call run or to stop.
Fairness ==
  /\ \A w \in Workers : WF_vars(Receive(w) \/ Push(w) \/ PushUnknown(w))
  /\ WF_vars(DM!RunStep /\ UNCHANGED <<crew, socket, buffer, sent, lost, pushed>>)
  /\ \A c \in Consumers : WF_vars(Pop(c))

FairSpec == Spec /\ Fairness

-----------------------------------------------------------------------------
\* The datagrams consumer c has written to its file.
File(c) == [k \in DOMAIN rx[c] |-> pushed[rx[c][k].n]]

TypeOK ==
  /\ DM!TypeOK
  /\ crew \in Crews
  /\ socket \in Seq(1 .. sent) /\ pushed \in Seq(1 .. sent)
  /\ buffer \in [Workers -> 0 .. sent]
  /\ sent \in Nat /\ lost \subseteq 1 .. sent
  /\ Len(pushed) = attempts[Name]

\* A consumer gets no datagram twice, and none that was lost, whichever workers
\* received and pushed it.
FilesWithoutRepetition ==
  \A c \in Consumers : IsInjective(File(c)) /\ Range(File(c)) \subseteq (1 .. sent) \ lost

\* With one worker in run() a consumer gets datagrams in the order they were sent,
\* through socket, input queue, broadcast and output queue.
AloneInOrder ==
  Cardinality(crew) = 1 =>
    \A c \in Consumers : \A j, k \in DOMAIN File(c) : j < k => File(c)[j] < File(c)[k]

\* Consumers agree on the order also when workers overtake each other: of two files
\* that begin with the same datagram, one is the beginning of the other.
FilesAgree ==
  \A c, d \in Consumers :
    Len(rx[c]) <= Len(rx[d]) /\ joined[c] = joined[d] =>
      \A k \in DOMAIN File(c) : File(c)[k] = File(d)[k]

\* A datagram in the socket gets to every consumer that is registered, unless the name
\* of the server is not, or run() of the data manager has not begun or has ended.
DatagramArrives ==
  \A k \in 1 .. MaxSend, c \in Consumers :
    (k \in Range(socket) /\ c \in DOMAIN m_outQueuesIds)
      ~> (k \in Range(File(c)) \/ k \in lost \/ pc = "idle")
=============================================================================
