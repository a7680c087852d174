------------------------- MODULE UdpPipelineProofs -------------------------
(***************************************************************************)
(* Proofs about the way of a datagram from a UDP client to the files of    *)
(* the consumers, for any number of workers, consumers and datagrams.      *)
(*                                                                         *)
(* The data manager is the one of module DataManager, and what is proved   *)
(* about it there is used here: the steps of the pipeline are steps of the *)
(* data manager, so its invariants hold in the pipeline.                   *)
(***************************************************************************)
EXTENDS UdpPipeline, SequenceTheorems, FiniteSetTheorems, TLAPS

\* The data manager of the pipeline, with its theorems.
Manager == INSTANCE DataManagerChannelProofs
  WITH Feeders <- {Name}, Removable <- {}, Modes <- {"BROADCAST"},
       MaxIn <- 8, MaxOut <- 8, MaxPush <- MaxSend, MaxVector <- 8

-----------------------------------------------------------------------------
(* The steps of the pipeline are steps of the data manager.                *)

\* The data manager of the pipeline is as its proofs assume.
LEMMA ManagerAssumption == Manager!DMAssumption
  BY UdpAssumption DEF Manager!DMAssumption

\* The same data manager under two names.
LEMMA SameManager ==
  /\ DM!Init => Manager!Init
  /\ UNCHANGED manager => UNCHANGED Manager!vars
  /\ DM!Push(Name) => Manager!Push(Name)
  /\ DM!PushUnknown(Name) => Manager!PushUnknown(Name)
  /\ DM!SetFeederNew(Name) => Manager!SetFeederNew(Name)
  /\ \A c \in Consumers : /\ DM!SetConsumerNew(c) => Manager!SetConsumerNew(c)
                          /\ DM!PopCheck(c) => Manager!PopCheck(c)
                          /\ DM!PopMove(c) => Manager!PopMove(c)
  /\ DM!RunCall => Manager!RunCall
  /\ DM!Stop => Manager!Stop
  /\ DM!RunStep => Manager!RunStep
<1>1. DM!Init => Manager!Init
  BY DEF DM!Init, Manager!Init, DM!NoIds, Manager!NoIds
<1>2. UNCHANGED manager => UNCHANGED Manager!vars
  BY DEF manager, Manager!vars, Manager!registry, Manager!thread
<1>3. /\ DM!Push(Name) => Manager!Push(Name)
      /\ DM!PushUnknown(Name) => Manager!PushUnknown(Name)
  BY DEF DM!Push, Manager!Push, DM!PushUnknown, Manager!PushUnknown, DM!Locked, Manager!Locked,
         DM!PushBack, Manager!PushBack, DM!registry, Manager!registry, DM!thread, Manager!thread
<1>4. DM!SetFeederNew(Name) => Manager!SetFeederNew(Name)
  BY DEF DM!SetFeederNew, Manager!SetFeederNew, DM!Quiet, Manager!Quiet, DM!Bind, Manager!Bind,
         DM!NewPosition, Manager!NewPosition, DM!NewQueue, Manager!NewQueue,
         DM!Cardinality, Manager!Cardinality, DM!thread, Manager!thread
<1>5. \A c \in Consumers : DM!SetConsumerNew(c) => Manager!SetConsumerNew(c)
  BY DEF DM!SetConsumerNew, Manager!SetConsumerNew, DM!Quiet, Manager!Quiet,
         DM!Bind, Manager!Bind, DM!NewPosition, Manager!NewPosition,
         DM!NewQueue, Manager!NewQueue, DM!Cardinality, Manager!Cardinality,
         DM!Join, Manager!Join, DM!thread, Manager!thread
<1>6. \A c \in Consumers : /\ DM!PopCheck(c) => Manager!PopCheck(c)
                           /\ DM!PopMove(c) => Manager!PopMove(c)
  BY DEF DM!PopCheck, Manager!PopCheck, DM!PopMove, Manager!PopMove, DM!Cleared, Manager!Cleared,
         DM!registry, Manager!registry, DM!thread, Manager!thread
<1>7. (DM!RunCall => Manager!RunCall) /\ (DM!Stop => Manager!Stop)
  BY DEF DM!RunCall, Manager!RunCall, DM!Stop, Manager!Stop, DM!registry, Manager!registry,
         DM!data, Manager!data
<1>8. DM!RunStep => Manager!RunStep
  BY DEF DM!RunStep, Manager!RunStep, DM!RunEnter, Manager!RunEnter,
         DM!ScanBegin, Manager!ScanBegin, DM!ManageMap, Manager!ManageMap,
         DM!CheckSkip, Manager!CheckSkip, DM!CheckHit, Manager!CheckHit,
         DM!CheckEnd, Manager!CheckEnd, DM!CopyLock, Manager!CopyLock,
         DM!CopyTo, Manager!CopyTo, DM!CopyDone, Manager!CopyDone,
         DM!LoopTest, Manager!LoopTest, DM!MoreQueues, Manager!MoreQueues,
         DM!HasWork, Manager!HasWork, DM!MoreOutputs, Manager!MoreOutputs,
         DM!Cleared, Manager!Cleared, DM!AfterTest, Manager!AfterTest,
         DM!registry, Manager!registry, DM!data, Manager!data
<1> QED  BY <1>1, <1>2, <1>3, <1>4, <1>5, <1>6, <1>7, <1>8

\* Whatever happens in the pipeline is a step of the data manager, or none.
LEMMA PipelineStep == [Next]_vars => [Manager!Next]_(Manager!vars)
<1> SUFFICES ASSUME [Next]_vars PROVE Manager!Next \/ UNCHANGED Manager!vars
  OBVIOUS
<1>1. CASE Send \/ (\E w \in Workers : Receive(w)) \/ UNCHANGED vars
  <2>1. UNCHANGED manager
    BY <1>1 DEF Send, Receive, vars
  <2> QED  BY <2>1, SameManager
<1>2. CASE Register \/ Manage
  BY <1>2, SameManager DEF Register, Manage, Manager!Next, Manager!Register
<1>3. CASE \E w \in Workers : Push(w) \/ PushUnknown(w)
  BY <1>3, SameManager DEF Push, PushUnknown, Manager!Next, Manager!Feed
<1>4. CASE \E c \in Consumers : Pop(c)
  BY <1>4, SameManager DEF Pop, Manager!Next, Manager!Consume
<1> QED  BY <1>1, <1>2, <1>3, <1>4 DEF Next

\* The invariant of the data manager holds in the pipeline, where no feeder is removed.
LEMMA ManagerInv ==
  /\ Init => Manager!FifoInv
  /\ Manager!FifoInv /\ [Next]_vars => Manager!FifoInv'
<1>1. Init => Manager!FifoInv
  BY SameManager, ManagerAssumption, Manager!FifoInit DEF Init
<1>2. Manager!FifoInv /\ [Manager!Next]_(Manager!vars) => Manager!FifoInv'
  BY ManagerAssumption, Manager!FifoNext
<1> QED  BY <1>1, <1>2, PipelineStep

\* What the pipeline needs to know of a step of the data manager.
LEMMA ManagerLeaves ==
  ASSUME Manager!FifoInv, Register \/ Manage \/ \E c \in Consumers : Pop(c)
  PROVE  UNCHANGED <<attempts, accepted, crew, socket, buffer, sent, lost, pushed>>
<1>1. CASE Register \/ \E c \in Consumers : Pop(c)
  BY <1>1 DEF Register, Pop, DM!SetFeederNew, DM!SetConsumerNew, DM!PopCheck, DM!PopMove
<1>2. CASE Manage
  BY <1>2 DEF Manage, DM!RunCall, DM!Stop, DM!RunStep, DM!RunEnter, DM!ScanBegin, DM!ManageMap,
              DM!CheckSkip, DM!CheckHit, DM!CheckEnd, DM!CopyLock, DM!CopyTo, DM!CopyDone,
              DM!LoopTest, DM!data
<1> QED  BY <1>1, <1>2

-----------------------------------------------------------------------------
(* Types.                                                                  *)

\* What the server keeps.
ServerType ==
  /\ crew \in Crews
  /\ socket \in Seq(1 .. sent) /\ pushed \in Seq(1 .. sent)
  /\ buffer \in [Workers -> 0 .. sent]
  /\ sent \in Nat /\ lost \subseteq 1 .. sent
  /\ attempts \in [{Name} -> Nat] /\ Len(pushed) = attempts[Name]

\* Longer numbering, same datagrams.
LEMMA MoreSent ==
  ASSUME NEW n \in Nat, NEW s \in Seq(1 .. n)
  PROVE  s \in Seq(1 .. n + 1)
<1>1. Len(s) \in Nat /\ s \in [1 .. Len(s) -> 1 .. n]
  BY LenProperties
<1>2. s \in [1 .. Len(s) -> 1 .. n + 1]
  BY <1>1
<1> QED  BY <1>1, <1>2, IsASeq

\* Every step of the pipeline keeps the types.
LEMMA NextServerType ==
  ASSUME ServerType, Manager!FifoInv, [Next]_vars
  PROVE  ServerType'
<1>1. CASE UNCHANGED vars
  BY <1>1 DEF ServerType, vars, manager
<1>2. CASE Register \/ Manage \/ \E c \in Consumers : Pop(c)
  BY <1>2, ManagerLeaves DEF ServerType
<1>3. CASE Send
  <2>1. /\ sent' = sent + 1 /\ UNCHANGED <<attempts, crew, buffer, pushed>>
        /\ \/ socket' = Append(socket, sent + 1) /\ UNCHANGED lost
           \/ lost' = lost \cup {sent + 1} /\ UNCHANGED socket
    BY <1>3 DEF Send, manager
  <2>2. sent \in Nat /\ sent' \in Nat /\ sent + 1 \in 1 .. sent + 1
    BY <2>1 DEF ServerType
  <2>3. socket \in Seq(1 .. sent + 1) /\ pushed \in Seq(1 .. sent + 1)
    BY <2>2, MoreSent DEF ServerType
  <2>4. Append(socket, sent + 1) \in Seq(1 .. sent + 1)
    BY <2>2, <2>3, AppendProperties
  <2>5. buffer \in [Workers -> 0 .. sent + 1] /\ lost \subseteq 1 .. sent + 1
    BY <2>2 DEF ServerType
  <2> QED  BY <2>1, <2>2, <2>3, <2>4, <2>5 DEF ServerType
<1>4. ASSUME NEW w \in Workers, Receive(w) PROVE ServerType'
  <2>1. /\ socket # <<>> /\ socket' = Tail(socket)
        /\ buffer' = [buffer EXCEPT ![w] = Head(socket)]
        /\ UNCHANGED <<attempts, crew, sent, lost, pushed>>
    BY <1>4 DEF Receive, Rest, manager
  <2>2. Head(socket) \in 1 .. sent /\ Tail(socket) \in Seq(1 .. sent)
    BY <2>1, HeadTailProperties DEF ServerType
  <2>3. Head(socket) \in 0 .. sent
    BY <2>2 DEF ServerType
  <2> QED  BY <2>1, <2>2, <2>3 DEF ServerType
<1>5. ASSUME NEW w \in Workers, Push(w) \/ PushUnknown(w) PROVE ServerType'
  <2>1. /\ buffer[w] # 0 /\ pushed' = Append(pushed, buffer[w])
        /\ buffer' = [buffer EXCEPT ![w] = 0]
        /\ attempts' = [attempts EXCEPT ![Name] = attempts[Name] + 1]
        /\ UNCHANGED <<crew, socket, sent>>
        /\ lost' = lost \/ lost' = lost \cup {buffer[w]}
    BY <1>5 DEF Push, PushUnknown, DM!Push, DM!PushUnknown
  <2>2. buffer[w] \in 1 .. sent
    BY <2>1 DEF ServerType
  <2>3. /\ Append(pushed, buffer[w]) \in Seq(1 .. sent)
        /\ Len(Append(pushed, buffer[w])) = Len(pushed) + 1
    BY <2>2, AppendProperties, SMTT(30) DEF ServerType
  <2>4. buffer' \in [Workers -> 0 .. sent]
    <3>1. 0 \in 0 .. sent
      BY DEF ServerType
    <3> QED  BY <2>1, <3>1 DEF ServerType
  <2>5. attempts' \in [{Name} -> Nat] /\ Len(pushed') = attempts'[Name]
    <3>1. attempts'[Name] = attempts[Name] + 1 /\ attempts' \in [{Name} -> Nat]
      BY <2>1 DEF ServerType
    <3> QED  BY <2>1, <2>3, <3>1 DEF ServerType
  <2>6. lost' \subseteq 1 .. sent
    BY <2>1, <2>2 DEF ServerType
  <2> QED  BY <2>1, <2>3, <2>4, <2>5, <2>6 DEF ServerType
<1> QED  BY <1>1, <1>2, <1>3, <1>4, <1>5 DEF Next

\* Nothing is sent at first.
LEMMA InitServerType == Init => ServerType
<1> SUFFICES ASSUME Init PROVE ServerType
  OBVIOUS
<1>1. <<>> \in Seq(1 .. 0) /\ Len(<<>>) = 0
  BY EmptySeq
<1> QED  BY <1>1 DEF Init, DM!Init, ServerType

\* The invariant of the pipeline, and the first of its results: whatever is sent, lost,
\* received and pushed, every part of the pipeline has its type.
THEOREM TypeCorrect == Spec => []TypeOK
<1>1. Init => ServerType /\ Manager!FifoInv
  BY InitServerType, ManagerInv
<1>2. ServerType /\ Manager!FifoInv /\ [Next]_vars => ServerType' /\ Manager!FifoInv'
  BY NextServerType, ManagerInv
<1>3. ServerType /\ Manager!FifoInv => TypeOK
  <2> SUFFICES ASSUME ServerType, Manager!FifoInv PROVE TypeOK
    OBVIOUS
  <2>1. Manager!TypeOK
    BY DEF Manager!FifoInv, Manager!OnceInv, Manager!Inv
  <2>2. DM!TypeOK
    BY <2>1 DEF DM!TypeOK, Manager!TypeOK, DM!Message, Manager!Message
  <2> QED  BY <2>2 DEF ServerType, TypeOK
<1> QED  BY <1>1, <1>2, <1>3, PTL DEF Spec
-----------------------------------------------------------------------------
(* A datagram is in one place: in the socket, with a worker, pushed, or    *)
(* lost on the way.                                                        *)

\* Where the datagrams are, with any number of workers.
ApartSocket ==
  /\ \A i, j \in DOMAIN socket : socket[i] = socket[j] => i = j
  /\ \A j \in DOMAIN socket : socket[j] \notin lost
  /\ \A j \in DOMAIN socket : \A i \in DOMAIN pushed : pushed[i] # socket[j]
ApartPushed == \A i, j \in DOMAIN pushed : pushed[i] = pushed[j] => i = j
ApartBuffer ==
  \A w \in Workers : buffer[w] # 0 =>
    /\ buffer[w] \notin lost
    /\ \A i \in DOMAIN pushed : pushed[i] # buffer[w]
    /\ \A j \in DOMAIN socket : socket[j] # buffer[w]
    /\ \A v \in Workers : buffer[v] = buffer[w] => v = w
Apart == ApartSocket /\ ApartPushed /\ ApartBuffer

\* Message number n of the data manager is the n-th datagram pushed, and not a lost one.
Taken == \A m \in accepted : m.n \in DOMAIN pushed /\ pushed[m.n] \notin lost

\* The elements of a sequence with one more at its end.
LEMMA Appended ==
  ASSUME NEW S, NEW s \in Seq(S), NEW x \in S
  PROVE  /\ \A i \in DOMAIN s : i \in DOMAIN Append(s, x) /\ Append(s, x)[i] = s[i] /\ i < Len(s) + 1
         /\ \A i \in DOMAIN Append(s, x) : i \notin DOMAIN s => i = Len(s) + 1
         /\ Len(s) + 1 \in DOMAIN Append(s, x) /\ Append(s, x)[Len(s) + 1] = x
<1>1. /\ Append(s, x) \in Seq(S) /\ Len(Append(s, x)) = Len(s) + 1
      /\ \A i \in 1 .. Len(s) : Append(s, x)[i] = s[i]
      /\ Append(s, x)[Len(s) + 1] = x
  BY AppendProperties
<1>2. Len(s) \in Nat /\ DOMAIN s = 1 .. Len(s)
  BY LenProperties
<1>3. DOMAIN Append(s, x) = 1 .. Len(s) + 1
  BY <1>1, LenProperties
<1> HIDE <1>1
<1> QED  BY <1>1, <1>2, <1>3

\* The elements of a sequence without its first.
LEMMA Shortened ==
  ASSUME NEW S, NEW s \in Seq(S), s # <<>>
  PROVE  /\ 1 \in DOMAIN s /\ Head(s) = s[1]
         /\ \A i \in DOMAIN Tail(s) :
              i \in Nat \ {0} /\ i + 1 \in DOMAIN s /\ Tail(s)[i] = s[i + 1]
<1>1. Len(s) \in Nat \ {0} /\ DOMAIN s = 1 .. Len(s)
  BY LenProperties, EmptySeq
<1>2. /\ Tail(s) \in Seq(S) /\ Len(Tail(s)) = Len(s) - 1
      /\ \A i \in 1 .. Len(Tail(s)) : Tail(s)[i] = s[i + 1]
  BY HeadTailProperties
<1>3. DOMAIN Tail(s) = 1 .. Len(s) - 1
  BY <1>2, LenProperties
<1>4. Head(s) = s[1]
  OBVIOUS
<1> QED  BY <1>1, <1>2, <1>3, <1>4

\* What a send changes.
LEMMA SendFacts ==
  ASSUME ServerType, Send
  PROVE  /\ sent \in Nat /\ sent + 1 > sent
         /\ \A i \in DOMAIN pushed : pushed[i] \in 1 .. sent
         /\ \A i \in DOMAIN socket : socket[i] \in 1 .. sent
         /\ \A w \in Workers : buffer[w] \in 0 .. sent
         /\ UNCHANGED <<manager, crew, buffer, pushed>>
         /\ \/ lost' = lost \cup {sent + 1} /\ UNCHANGED socket
            \/ /\ UNCHANGED lost
               /\ \A i \in DOMAIN socket :
                    i \in DOMAIN socket' /\ socket'[i] = socket[i] /\ i < Len(socket) + 1
               /\ \A i \in DOMAIN socket' : i \notin DOMAIN socket => i = Len(socket) + 1
               /\ socket'[Len(socket) + 1] = sent + 1
<1>1. socket \in Seq(Nat) /\ sent + 1 \in Nat
  <2>1. socket \in [1 .. Len(socket) -> 1 .. sent] /\ Len(socket) \in Nat
    BY LenProperties DEF ServerType
  <2> QED  BY <2>1, IsASeq DEF ServerType
<1>2. sent' = sent + 1
  BY DEF Send
<1>3. CASE socket' = Append(socket, sent') /\ UNCHANGED lost
  BY <1>1, <1>2, <1>3, Appended, SMTT(30) DEF Send, ServerType
<1>4. CASE lost' = lost \cup {sent'} /\ UNCHANGED socket
  BY <1>2, <1>4 DEF Send, ServerType
<1> QED  BY <1>3, <1>4 DEF Send

\* What a receive changes.
LEMMA ReceiveFacts ==
  ASSUME ServerType, NEW w \in Workers, Receive(w)
  PROVE  /\ w \in crew /\ buffer[w] = 0
         /\ 1 \in DOMAIN socket /\ socket[1] # 0
         /\ buffer'[w] = socket[1] /\ \A v \in Workers : v # w => buffer'[v] = buffer[v]
         /\ \A i \in DOMAIN socket' :
              i \in Nat \ {0} /\ i + 1 \in DOMAIN socket /\ socket'[i] = socket[i + 1]
         /\ UNCHANGED <<manager, crew, sent, lost, pushed>>
<1>1. /\ socket # <<>> /\ socket' = Tail(socket)
      /\ buffer' = [buffer EXCEPT ![w] = Head(socket)]
      /\ w \in crew /\ buffer[w] = 0
      /\ UNCHANGED <<manager, crew, sent, lost, pushed>>
  BY DEF Receive, Rest
<1>2. socket \in Seq(1 .. sent)
  BY DEF ServerType
<1>3. /\ 1 \in DOMAIN socket /\ Head(socket) = socket[1]
      /\ \A i \in DOMAIN Tail(socket) :
           i \in Nat \ {0} /\ i + 1 \in DOMAIN socket /\ Tail(socket)[i] = socket[i + 1]
  BY <1>1, <1>2, Shortened
<1>4. socket[1] # 0
  <2>1. sent \in Nat /\ socket[1] \in 1 .. sent
    BY <1>2, <1>3, ElementOfSeq, LenProperties DEF ServerType
  <2> QED  BY <2>1
<1>5. buffer'[w] = socket[1] /\ \A v \in Workers : v # w => buffer'[v] = buffer[v]
  BY <1>1, <1>3 DEF ServerType
<1> QED  BY <1>1, <1>3, <1>4, <1>5

\* What a push changes.
LEMMA PushFacts ==
  ASSUME ServerType, NEW w \in Workers, Push(w) \/ PushUnknown(w)
  PROVE  /\ buffer[w] # 0
         /\ buffer'[w] = 0 /\ \A v \in Workers : v # w => buffer'[v] = buffer[v]
         /\ \A i \in DOMAIN pushed : i \in DOMAIN pushed' /\ pushed'[i] = pushed[i] /\ i < Len(pushed) + 1
         /\ \A i \in DOMAIN pushed' : i \notin DOMAIN pushed => i = Len(pushed) + 1
         /\ Len(pushed) + 1 \in DOMAIN pushed' /\ pushed'[Len(pushed) + 1] = buffer[w]
         /\ UNCHANGED <<crew, socket, sent>>
         /\ \/ /\ lost' = lost
               /\ accepted' = accepted \cup {[from |-> Name, n |-> Len(pushed) + 1]}
            \/ lost' = lost \cup {buffer[w]} /\ accepted' = accepted
<1>1. /\ buffer[w] # 0 /\ pushed' = Append(pushed, buffer[w])
      /\ buffer' = [buffer EXCEPT ![w] = 0]
      /\ UNCHANGED <<crew, socket, sent>>
  BY DEF Push, PushUnknown
<1>2. buffer[w] \in 1 .. sent /\ pushed \in Seq(1 .. sent)
  BY <1>1 DEF ServerType
<1>3. \/ /\ lost' = lost
         /\ accepted' = accepted \cup {[from |-> Name, n |-> Len(pushed) + 1]}
      \/ lost' = lost \cup {buffer[w]} /\ accepted' = accepted
  <2>1. CASE Push(w)
    BY <2>1 DEF Push, DM!Push, ServerType
  <2>2. CASE PushUnknown(w)
    BY <2>2 DEF PushUnknown, DM!PushUnknown
  <2> QED  BY <2>1, <2>2
<1>4. /\ \A i \in DOMAIN pushed : i \in DOMAIN pushed' /\ pushed'[i] = pushed[i] /\ i < Len(pushed) + 1
      /\ \A i \in DOMAIN pushed' : i \notin DOMAIN pushed => i = Len(pushed) + 1
      /\ Len(pushed) + 1 \in DOMAIN pushed' /\ pushed'[Len(pushed) + 1] = buffer[w]
  BY <1>1, <1>2, Appended
<1>5. buffer'[w] = 0 /\ \A v \in Workers : v # w => buffer'[v] = buffer[v]
  BY <1>1 DEF ServerType
<1> QED  BY <1>1, <1>3, <1>4, <1>5

\* No step puts a datagram into two places.
LEMMA NextApart ==
  ASSUME ServerType, Manager!FifoInv, Apart, [Next]_vars
  PROVE  Apart'
<1>1. CASE UNCHANGED vars
  BY <1>1 DEF Apart, ApartSocket, ApartPushed, ApartBuffer, vars
<1>2. CASE Register \/ Manage \/ \E c \in Consumers : Pop(c)
  BY <1>2, ManagerLeaves DEF Apart, ApartSocket, ApartPushed, ApartBuffer
<1>3. CASE Send
  <2> USE <1>3, SendFacts
  <2>1. ApartSocket'
    <3>1. ASSUME UNCHANGED lost, socket'[Len(socket) + 1] = sent + 1,
                 \A i \in DOMAIN socket : socket'[i] = socket[i],
                 \A i \in DOMAIN socket' : i \notin DOMAIN socket => i = Len(socket) + 1
          PROVE  ApartSocket'
      <4>1. sent + 1 \notin lost
        BY DEF ServerType
      <4>2. \A i \in DOMAIN socket' : \/ i \in DOMAIN socket /\ socket'[i] = socket[i]
                                      \/ i = Len(socket) + 1 /\ socket'[i] = sent + 1
        BY ONLY <3>1
      <4>3. \A i \in DOMAIN socket : socket[i] # sent + 1
        OBVIOUS
      <4>4. \A i \in DOMAIN pushed : pushed'[i] = pushed[i] /\ pushed[i] # sent + 1
        OBVIOUS
      <4> QED  BY ONLY <3>1, <4>1, <4>2, <4>3, <4>4, UNCHANGED pushed, Apart
               DEF Apart, ApartSocket
    <3>2. CASE UNCHANGED socket
      BY <3>2 DEF Apart, ApartSocket
    <3> QED  BY <3>1, <3>2
  <2>2. ApartPushed'
    BY DEF Apart, ApartPushed
  <2>3. ApartBuffer'
    BY DEF Apart, ApartBuffer
  <2> QED  BY <2>1, <2>2, <2>3 DEF Apart
<1>4. ASSUME NEW w \in Workers, Receive(w) PROVE Apart'
  <2> USE <1>4, ReceiveFacts
  <2>1. ApartSocket'
    BY DEF Apart, ApartSocket
  <2>2. ApartPushed'
    BY DEF Apart, ApartPushed
  <2>3. ApartBuffer'
    <3> SUFFICES ASSUME NEW v \in Workers, buffer'[v] # 0
                 PROVE  /\ buffer'[v] \notin lost'
                        /\ \A i \in DOMAIN pushed' : pushed'[i] # buffer'[v]
                        /\ \A j \in DOMAIN socket' : socket'[j] # buffer'[v]
                        /\ \A u \in Workers : buffer'[u] = buffer'[v] => u = v
      BY DEF ApartBuffer
    <3>1. CASE v = w
      BY <3>1 DEF Apart, ApartBuffer, ApartSocket
    <3>2. CASE v # w
      BY <3>2 DEF Apart, ApartBuffer, ApartSocket
    <3> QED  BY <3>1, <3>2
  <2> QED  BY <2>1, <2>2, <2>3 DEF Apart
<1>5. ASSUME NEW w \in Workers, Push(w) \/ PushUnknown(w) PROVE Apart'
  <2> USE <1>5, PushFacts
  <2>1. ApartSocket'
    BY DEF Apart, ApartSocket, ApartBuffer
  <2>2. ApartPushed'
    BY DEF Apart, ApartPushed, ApartBuffer
  <2>3. ApartBuffer'
    <3> SUFFICES ASSUME NEW v \in Workers, buffer'[v] # 0
                 PROVE  /\ buffer'[v] \notin lost'
                        /\ \A i \in DOMAIN pushed' : pushed'[i] # buffer'[v]
                        /\ \A j \in DOMAIN socket' : socket'[j] # buffer'[v]
                        /\ \A u \in Workers : buffer'[u] = buffer'[v] => u = v
      BY DEF ApartBuffer
    <3>1. v # w /\ buffer'[v] = buffer[v]
      OBVIOUS
    <3> QED  BY <3>1 DEF Apart, ApartBuffer
  <2> QED  BY <2>1, <2>2, <2>3 DEF Apart
<1> QED  BY <1>1, <1>2, <1>3, <1>4, <1>5 DEF Next

\* The data manager numbers the datagrams as they are pushed.
LEMMA NextTaken ==
  ASSUME ServerType, Manager!FifoInv, Apart, Taken, [Next]_vars
  PROVE  Taken'
<1>1. CASE UNCHANGED vars
  BY <1>1 DEF Taken, vars, manager
<1>2. CASE Register \/ Manage \/ \E c \in Consumers : Pop(c)
  BY <1>2, ManagerLeaves DEF Taken
<1>3. CASE Send
  BY <1>3, SendFacts DEF Taken, manager
<1>4. ASSUME NEW w \in Workers, Receive(w) PROVE Taken'
  BY <1>4, ReceiveFacts DEF Taken, manager
<1>5. ASSUME NEW w \in Workers, Push(w) \/ PushUnknown(w) PROVE Taken'
  BY <1>5, PushFacts DEF Taken, Apart, ApartBuffer
<1> QED  BY <1>1, <1>2, <1>3, <1>4, <1>5 DEF Next

-----------------------------------------------------------------------------
(* One worker keeps the order.                                             *)

\* With w alone in run(), the datagrams pushed, the one w holds and those in the socket
\* are numbered upwards, and no other worker holds one.
Ordered(w) ==
  /\ \A v \in Workers : v # w => buffer[v] = 0
  /\ \A i, j \in DOMAIN pushed : i < j => pushed[i] < pushed[j]
  /\ \A i, j \in DOMAIN socket : i < j => socket[i] < socket[j]
  /\ \A i \in DOMAIN pushed, j \in DOMAIN socket : pushed[i] < socket[j]
  /\ buffer[w] # 0 =>
       /\ \A i \in DOMAIN pushed : pushed[i] < buffer[w]
       /\ \A j \in DOMAIN socket : buffer[w] < socket[j]

AloneOrdered == \A w \in Workers : crew = {w} => Ordered(w)

\* A single worker takes the first datagram of the socket only when it holds none.
LEMMA NextOrdered ==
  ASSUME ServerType, Manager!FifoInv, NEW w \in Workers, crew = {w}, Ordered(w), [Next]_vars
  PROVE  Ordered(w)'
<1>0. /\ DOMAIN socket \subseteq Nat /\ DOMAIN pushed \subseteq Nat
      /\ Len(socket) \in Nat /\ Len(pushed) \in Nat /\ sent \in Nat
      /\ \A i \in DOMAIN pushed : pushed[i] \in 1 .. sent
      /\ \A i \in DOMAIN socket : socket[i] \in 1 .. sent
      /\ buffer[w] \in 0 .. sent
  BY LenProperties, ElementOfSeq DEF ServerType
<1>1. CASE UNCHANGED vars
  BY <1>1 DEF Ordered, vars
<1>2. CASE Register \/ Manage \/ \E c \in Consumers : Pop(c)
  BY <1>2, ManagerLeaves DEF Ordered
<1>3. CASE Send
  <2>1. CASE UNCHANGED socket
    BY <1>3, <2>1, SendFacts DEF Ordered
  <2>2. ASSUME \A i \in DOMAIN socket : socket'[i] = socket[i] /\ i < Len(socket) + 1,
               \A i \in DOMAIN socket' : i \notin DOMAIN socket => i = Len(socket) + 1,
               socket'[Len(socket) + 1] = sent + 1
        PROVE  Ordered(w)'
    <3>1. \A i \in DOMAIN socket' : \/ i \in DOMAIN socket /\ socket'[i] = socket[i]
                                    \/ i = Len(socket) + 1 /\ socket'[i] = sent + 1
      BY ONLY <2>2
    <3>2. UNCHANGED <<buffer, pushed>>
      BY <1>3, SendFacts
    <3>3. \A i, j \in DOMAIN socket' : i < j => socket'[i] < socket'[j]
      BY <1>0, <2>2, <3>1 DEF Ordered
    <3>4. \A i \in DOMAIN pushed, j \in DOMAIN socket' : pushed[i] < socket'[j]
      BY <1>0, <3>1 DEF Ordered
    <3>5. buffer[w] # 0 => \A j \in DOMAIN socket' : buffer[w] < socket'[j]
      BY <1>0, <3>1 DEF Ordered
    <3> QED  BY <3>2, <3>3, <3>4, <3>5 DEF Ordered
  <2> QED  BY <1>3, <2>1, <2>2, SendFacts
<1>4. ASSUME NEW v \in Workers, Receive(v) PROVE Ordered(w)'
  <2>1. v = w
    BY <1>4, ReceiveFacts
  <2>2. /\ buffer[w] = 0 /\ buffer'[w] = socket[1] /\ 1 \in DOMAIN socket
        /\ \A u \in Workers : u # w => buffer'[u] = buffer[u]
        /\ \A i \in DOMAIN socket' :
             i \in Nat \ {0} /\ i + 1 \in DOMAIN socket /\ socket'[i] = socket[i + 1]
        /\ UNCHANGED pushed
    BY <1>4, <2>1, ReceiveFacts
  <2>3. \A i, j \in DOMAIN socket' : i < j => socket'[i] < socket'[j]
    BY <1>0, <2>2 DEF Ordered
  <2>4. \A j \in DOMAIN socket' : /\ socket[1] < socket'[j]
                                  /\ \A i \in DOMAIN pushed : pushed[i] < socket'[j]
    BY <1>0, <2>2 DEF Ordered
  <2>5. \A i \in DOMAIN pushed : pushed[i] < socket[1]
    BY <2>2 DEF Ordered
  <2> QED  BY <2>2, <2>3, <2>4, <2>5 DEF Ordered
<1>5. ASSUME NEW v \in Workers, Push(v) \/ PushUnknown(v) PROVE Ordered(w)'
  <2>1. v = w
    BY <1>5, PushFacts DEF Ordered
  <2>2. /\ buffer[w] # 0 /\ buffer'[w] = 0
        /\ \A u \in Workers : u # w => buffer'[u] = buffer[u]
        /\ \A i \in DOMAIN pushed' : i \notin DOMAIN pushed => i = Len(pushed) + 1
        /\ \A i \in DOMAIN pushed : pushed'[i] = pushed[i] /\ i < Len(pushed) + 1
        /\ pushed'[Len(pushed) + 1] = buffer[w]
        /\ UNCHANGED socket
    BY <1>5, <2>1, PushFacts
  <2>3. \A i \in DOMAIN pushed' : \/ i \in DOMAIN pushed /\ pushed'[i] = pushed[i]
                                  \/ i = Len(pushed) + 1 /\ pushed'[i] = buffer[w]
    BY ONLY <2>2
  <2>4. \A i, j \in DOMAIN pushed' : i < j => pushed'[i] < pushed'[j]
    BY <1>0, <2>2, <2>3 DEF Ordered
  <2>5. \A i \in DOMAIN pushed', j \in DOMAIN socket : pushed'[i] < socket[j]
    BY <2>2, <2>3 DEF Ordered
  <2> QED  BY <2>2, <2>4, <2>5 DEF Ordered
<1> QED  BY <1>1, <1>2, <1>3, <1>4, <1>5 DEF Next

\* The crew stays as it is.
LEMMA CrewStays == ASSUME Manager!FifoInv, [Next]_vars PROVE crew' = crew
<1>1. CASE Register \/ Manage \/ \E c \in Consumers : Pop(c)
  BY <1>1, ManagerLeaves
<1>2. CASE Send \/ (\E w \in Workers : Receive(w) \/ Push(w) \/ PushUnknown(w)) \/ UNCHANGED vars
  BY <1>2 DEF Send, Receive, Push, PushUnknown, vars
<1> QED  BY <1>1, <1>2 DEF Next

-----------------------------------------------------------------------------
(* The files of the consumers.                                             *)

\* Who is not registered has an empty file.
Unregistered == \A c \in Consumers : c \notin DOMAIN m_outQueuesIds => rx[c] = <<>>

\* A consumer registers before it pops.
LEMMA NextUnregistered ==
  ASSUME Manager!FifoInv, Unregistered, [Next]_vars
  PROVE  Unregistered'
<1>0. /\ rx = [c \in Consumers |-> rx[c]]
      /\ \A c \in Consumers : popPc[c] = "move" => c \in DOMAIN m_outQueuesIds
  BY DEF Manager!FifoInv, Manager!OnceInv, Manager!Inv, Manager!TypeOK, Manager!ChecksStillHold
<1>1. CASE UNCHANGED <<m_outQueuesIds, rx>>
  BY <1>1 DEF Unregistered
<1>2. ASSUME NEW c \in Consumers, DM!SetConsumerNew(c) PROVE Unregistered'
  <2>1. DOMAIN m_outQueuesIds' = DOMAIN m_outQueuesIds \cup {c} /\ rx' = [rx EXCEPT ![c] = <<>>]
    BY <1>2 DEF DM!SetConsumerNew, DM!Bind, DM!Join
  <2> QED  BY <1>0, <2>1 DEF Unregistered
<1>3. ASSUME NEW c \in Consumers, DM!PopMove(c) PROVE Unregistered'
  <2>1. popPc[c] = "move" /\ UNCHANGED m_outQueuesIds /\ \A d \in Consumers : d # c => rx'[d] = rx[d]
    BY <1>0, <1>3 DEF DM!PopMove, DM!registry
  <2> QED  BY <1>0, <2>1 DEF Unregistered
<1>4. CASE Send \/ (\E w \in Workers : Receive(w) \/ Push(w) \/ PushUnknown(w)) \/ UNCHANGED vars
  <2>1. UNCHANGED <<m_outQueuesIds, rx>>
    BY <1>4 DEF Send, Receive, Push, PushUnknown, DM!Push, DM!PushUnknown, DM!registry, vars, manager
  <2> QED  BY <1>1, <2>1
<1>5. CASE DM!SetFeederNew(Name) \/ \E c \in Consumers : DM!PopCheck(c)
  BY <1>1, <1>5 DEF DM!SetFeederNew, DM!PopCheck, DM!registry
<1>6. CASE Manage
  <2>1. UNCHANGED <<m_outQueuesIds, rx>>
    BY <1>6 DEF Manage, DM!RunCall, DM!Stop, DM!RunStep, DM!RunEnter, DM!ScanBegin, DM!ManageMap,
                DM!CheckSkip, DM!CheckHit, DM!CheckEnd, DM!CopyLock, DM!CopyTo, DM!CopyDone,
                DM!LoopTest, DM!data, DM!registry
  <2> QED  BY <1>1, <2>1
<1> QED  BY <1>2, <1>3, <1>4, <1>5, <1>6 DEF Next, Register, Pop

\* The invariant of the pipeline.
PipelineInv ==
  ServerType /\ Manager!FifoInv /\ Apart /\ Taken /\ AloneOrdered /\ Unregistered

\* Nothing is sent, lost or pushed at first.
LEMMA InitPipelineInv == Init => PipelineInv
<1> SUFFICES ASSUME Init PROVE PipelineInv
  OBVIOUS
<1>1. ServerType /\ Manager!FifoInv
  BY InitServerType, ManagerInv
<1>2. /\ DOMAIN socket = {} /\ DOMAIN pushed = {} /\ \A w \in Workers : buffer[w] = 0
      /\ accepted = {} /\ \A c \in Consumers : rx[c] = <<>>
  BY DEF Init, DM!Init
<1>3. Apart
  BY <1>2 DEF Apart, ApartSocket, ApartPushed, ApartBuffer
<1>4. Taken /\ AloneOrdered /\ Unregistered
  BY <1>2 DEF Taken, AloneOrdered, Ordered, Unregistered
<1> QED  BY <1>1, <1>3, <1>4 DEF PipelineInv

\* Every step of every thread keeps the invariant.
LEMMA NextPipelineInv == PipelineInv /\ [Next]_vars => PipelineInv'
<1> SUFFICES ASSUME PipelineInv, [Next]_vars PROVE PipelineInv'
  OBVIOUS
<1> USE DEF PipelineInv
<1>1. ServerType' /\ Manager!FifoInv'
  BY NextServerType, ManagerInv
<1>2. Apart' /\ Taken' /\ Unregistered'
  BY NextApart, NextTaken, NextUnregistered
<1>3. AloneOrdered'
  <2> SUFFICES ASSUME NEW w \in Workers, crew' = {w} PROVE Ordered(w)'
    BY DEF AloneOrdered
  <2>1. crew = {w}
    BY CrewStays
  <2> QED  BY <2>1, NextOrdered DEF AloneOrdered
<1> QED  BY <1>1, <1>2, <1>3

\* What a consumer has in its file.
LEMMA InFile ==
  ASSUME PipelineInv, NEW c \in Consumers
  PROVE  /\ rx[c] \in Seq(Manager!Message) /\ joined[c] \in Nat
         /\ \A k \in DOMAIN rx[c] :
              /\ rx[c][k] = log[joined[c] + k]
              /\ rx[c][k].n \in DOMAIN pushed /\ pushed[rx[c][k].n] \notin lost
         /\ \A j, k \in DOMAIN rx[c] : j < k => rx[c][j].n < rx[c][k].n
<1>1. Manager!OnceInv /\ Manager!TypeOK /\ Manager!FifoPerFeeder
  BY DEF PipelineInv, Manager!FifoInv, Manager!OnceInv, Manager!Inv
<1>2. rx[c] \in Seq(Manager!Message) /\ joined[c] \in Nat
  BY <1>1 DEF Manager!TypeOK
<1>3. \A k \in DOMAIN rx[c] : rx[c][k] = log[joined[c] + k] /\ rx[c][k] \in accepted
  <2> TAKE k \in DOMAIN rx[c]
  <2>1. c \in DOMAIN m_outQueuesIds
    BY DEF PipelineInv, Unregistered
  <2> QED  BY <1>1, <2>1, ManagerAssumption, Manager!ReceivedFromLog
<1>4. \A k \in DOMAIN rx[c] : rx[c][k].n \in DOMAIN pushed /\ pushed[rx[c][k].n] \notin lost
  BY <1>3 DEF PipelineInv, Taken
<1>5. \A j, k \in DOMAIN rx[c] : j < k => rx[c][j].n < rx[c][k].n
  <2>1. \A k \in DOMAIN rx[c] : rx[c][k] \in Manager!Message
    BY <1>2, ElementOfSeq, LenProperties
  <2>2. \A k \in DOMAIN rx[c] : rx[c][k].from = Name
    BY <2>1 DEF Manager!Message
  <2> QED  BY <1>1, <2>2 DEF Manager!FifoPerFeeder
<1> QED  BY <1>2, <1>3, <1>4, <1>5

\* Several workers receive and push side by side, and still no datagram is written
\* twice to the file of a consumer, and none that the socket or the data manager dropped.
THEOREM NoRepetition == Spec => []FilesWithoutRepetition
<1>1. PipelineInv => FilesWithoutRepetition
  <2> SUFFICES ASSUME PipelineInv, NEW c \in Consumers
               PROVE  IsInjective(File(c)) /\ Range(File(c)) \subseteq (1 .. sent) \ lost
    BY DEF FilesWithoutRepetition
  <2>1. rx[c] \in Seq(Manager!Message)
    BY InFile
  <2>2. DOMAIN rx[c] \subseteq Nat
    BY <2>1, LenProperties
  <2>3. \A k \in DOMAIN rx[c] : rx[c][k].n \in DOMAIN pushed /\ pushed[rx[c][k].n] \notin lost
    BY InFile
  <2>4. \A j, k \in DOMAIN rx[c] : j < k => rx[c][j].n < rx[c][k].n
    BY InFile
  <2>5. \A i \in DOMAIN pushed : i \in Nat /\ pushed[i] \in 1 .. sent
    BY LenProperties, ElementOfSeq DEF PipelineInv, ServerType
  <2>6. \A k \in DOMAIN rx[c] : pushed[rx[c][k].n] \in (1 .. sent) \ lost
    BY <2>3, <2>5
  <2>7. ASSUME NEW j \in DOMAIN rx[c], NEW k \in DOMAIN rx[c],
               pushed[rx[c][j].n] = pushed[rx[c][k].n]
        PROVE  j = k
    <3>1. rx[c][j].n = rx[c][k].n
      BY <2>3, <2>7 DEF PipelineInv, Apart, ApartPushed
    <3>2. rx[c][j].n \in Nat
      BY <2>3, <2>5
    <3>3. ~ (j < k) /\ ~ (k < j)
      BY <2>4, <3>1, <3>2
    <3> QED  BY <2>2, <3>3
  <2>8. DOMAIN File(c) = DOMAIN rx[c] /\ \A k \in DOMAIN rx[c] : File(c)[k] = pushed[rx[c][k].n]
    BY DEF File
  <2>9. IsInjective(File(c))
    BY <2>7, <2>8 DEF IsInjective
  <2>10. Range(File(c)) \subseteq (1 .. sent) \ lost
    BY <2>6, <2>8 DEF Range
  <2> QED  BY <2>9, <2>10
<1> QED  BY <1>1, InitPipelineInv, NextPipelineInv, PTL DEF Spec

\* With a single worker in run() datagrams arrive in every file in the order they were
\* sent, through the socket, the input queue, the broadcast and the output queue.
THEOREM OrderKeptAlone == Spec => []AloneInOrder
<1>1. PipelineInv => AloneInOrder
  <2> SUFFICES ASSUME PipelineInv, Cardinality(crew) = 1, NEW c \in Consumers,
                      NEW j \in DOMAIN File(c), NEW k \in DOMAIN File(c), j < k
               PROVE  File(c)[j] < File(c)[k]
    BY DEF AloneInOrder
  <2>1. PICK w \in Workers : crew = {w}
    <3>1. crew \subseteq Workers /\ IsFiniteSet(crew)
      BY UdpAssumption, FS_Subset DEF PipelineInv, ServerType
    <3>2. \E w : crew = {w}
      BY <3>1, FS_Singleton
    <3> QED  BY <3>1, <3>2
  <2>2. \A a, b \in DOMAIN pushed : a < b => pushed[a] < pushed[b]
    BY <2>1 DEF PipelineInv, AloneOrdered, Ordered
  <2>3. /\ j \in DOMAIN rx[c] /\ k \in DOMAIN rx[c]
        /\ File(c)[j] = pushed[rx[c][j].n] /\ File(c)[k] = pushed[rx[c][k].n]
    BY DEF File
  <2>4. /\ rx[c][j].n \in DOMAIN pushed /\ rx[c][k].n \in DOMAIN pushed
        /\ rx[c][j].n < rx[c][k].n
    BY <2>3, InFile
  <2> QED  BY <2>2, <2>3, <2>4
<1> QED  BY <1>1, InitPipelineInv, NextPipelineInv, PTL DEF Spec

\* However the workers overtake each other, consumers that registered at the same point
\* write the same file, one as far as the other has come.
THEOREM ConsumersAgree == Spec => []FilesAgree
<1>1. PipelineInv => FilesAgree
  <2> SUFFICES ASSUME PipelineInv, NEW c \in Consumers, NEW d \in Consumers,
                      Len(rx[c]) <= Len(rx[d]), joined[c] = joined[d], NEW k \in DOMAIN File(c)
               PROVE  File(c)[k] = File(d)[k]
    BY DEF FilesAgree
  <2>1. rx[c] \in Seq(Manager!Message) /\ rx[d] \in Seq(Manager!Message)
    BY InFile
  <2>2. k \in DOMAIN rx[c]
    BY DEF File
  <2>3. k \in DOMAIN rx[d]
    BY <2>1, <2>2, LenProperties
  <2>4. rx[c][k] = rx[d][k]
    BY <2>2, <2>3, InFile
  <2> QED  BY <2>2, <2>3, <2>4 DEF File
<1> QED  BY <1>1, InitPipelineInv, NextPipelineInv, PTL DEF Spec
=============================================================================
