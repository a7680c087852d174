---------------------- MODULE DataManagerChannelProofs ----------------------
(***************************************************************************)
(* Proof that the data manager implements the total order broadcast, for   *)
(* any feeders, consumers, limits and number of messages, and that without *)
(* remFeeder a consumer gets the messages of one feeder in the order they  *)
(* were pushed.                                                            *)
(*                                                                         *)
(* The first proof has one lemma per action that the channel sees: push    *)
(* feeds, the lock of Q::copy orders, the move of pop receives, a consumer *)
(* that registers joins.  The other actions leave the channel alone.  The  *)
(* second one follows the messages of one feeder from its input queue to   *)
(* the order of broadcast.                                                 *)
(***************************************************************************)
EXTENDS DataManagerOnceProofs

USE DEF NewPosition, NewQueue, PushBack, Cleared, MoreQueues, HasWork, MoreOutputs, AfterTest

\* Steps of the data manager during which nothing happens to the channel.
BehindChannel ==
  \/ \E f \in Feeders : SetFeederNew(f) \/ SetFeederReuse(f) \/ PushUnknown(f)
  \/ \E f \in Removable : RemFeeder(f)
  \/ \E c \in Consumers : PopCheck(c)
  \/ RunCall \/ RunEnter \/ Stop \/ ScanBegin \/ ManageMap
  \/ CheckSkip \/ CheckHit \/ CheckEnd \/ CopyTo \/ CopyDone \/ LoopTest
  \/ UNCHANGED vars

\* The channel's module brings its own copy of the operators on functions.
LEMMA SameOperators == \A f : /\ Channel!Range(f) = Range(f)
                              /\ Channel!IsInjective(f) <=> IsInjective(f)
  BY DEF Channel!Range, Range, Channel!IsInjective, IsInjective

\* The constructor leaves an empty channel.
LEMMA ChannelInit == Init => Channel!Init
<1> SUFFICES ASSUME Init PROVE Channel!Init
  OBVIOUS
<1>1. accepted \ Range(log) = {}
  BY DEF Init
<1> QED  BY <1>1 DEF Init, Channel!Init

\* push feeds a message the channel has not seen.
LEMMA PushFeeds ==
  ASSUME OnceInv, NEW f \in Feeders, Push(f)
  PROVE  Channel!Next
<1> DEFINE m == [from |-> f, n |-> attempts[f] + 1]
<1>1. /\ accepted' = accepted \cup {m} /\ UNCHANGED <<log, rx, joined>>
  BY DEF Push
<1>2. /\ attempts \in [Feeders -> Nat] /\ accepted \subseteq Message
      /\ m \in Message /\ m.from = f /\ m.n = attempts[f] + 1
  BY DEF OnceInv, Inv, TypeOK, Message
<1>3. m \notin accepted
  BY <1>2 DEF OnceInv, Numbered
<1>4. Range(log) \subseteq accepted
  BY DEF OnceInv, Once, Range
<1> HIDE DEF m
<1>5. /\ m \notin (accepted \ Range(log)) \cup Range(log)
      /\ accepted' \ Range(log') = (accepted \ Range(log)) \cup {m}
      /\ m \in (accepted' \ Range(log')) \cap Message
  BY <1>1, <1>2, <1>3, <1>4
<1>6. Channel!Feed(m)
  BY <1>1, <1>5, SameOperators DEF Channel!Feed
<1> QED  BY <1>5, <1>6 DEF Channel!Next

\* Q::copy puts what its source holds next into the order, each message once.
LEMMA CopyOrders ==
  ASSUME OnceInv, CopyLock
  PROVE  Channel!Next
<1> DEFINE b == m_inQueues[it]
<1>0. Inv /\ Once(accepted, log, WaitingAll)
  BY DEF OnceInv
<1>1. /\ pc = "lock" /\ log' = log \o b
      /\ UNCHANGED <<accepted, rx, joined>>
  BY DEF CopyLock
<1>2. /\ it \in DOMAIN m_inQueues /\ log \in Seq(Message) /\ b \in Seq(Message)
  BY <1>0, <1>1, QueueFacts DEF Inv, ChecksStillHold, TypeOK
<1>3. it \in DOMAIN WaitingAll /\ WaitingAll[it] = b
  BY <1>1, <1>2 DEF WaitingAll, Waiting, Locked
<1>4. /\ IsInjective(b)
      /\ Range(b) \subseteq accepted \ Range(log)
  <2> HIDE DEF b
  <2>1. /\ \A i \in DOMAIN b : b[i] \in accepted /\ \A j \in DOMAIN log : b[i] # log[j]
        /\ \A i, j \in DOMAIN b : b[i] = b[j] => i = j
    BY <1>0, <1>3 DEF Once
  <2> QED  BY <2>1 DEF IsInjective, Range
<1>5. /\ Len(log) \in Nat /\ Len(b) \in Nat
      /\ Len(log') = Len(log) + Len(b)
      /\ SubSeq(log', Len(log) + 1, Len(log')) = b
      /\ SubSeq(log', 0 + 1, Len(log)) = SubSeq(log, 0 + 1, Len(log))
  BY <1>1, <1>2, PieceOfLonger, LenProperties
<1>6. SubSeq(log', 1, Len(log)) = log
  BY <1>2, <1>5, SubSeqFull
<1>7. accepted' \ Range(log') = (accepted \ Range(log)) \ Range(b)
  <2>1. Range(log \o b) = Range(log) \cup Range(b)
    BY <1>2, RangeConcatenation
  <2> QED  BY <1>1, <2>1
<1>8. Len(log') >= Len(log)
  BY <1>5
<1> HIDE DEF b
<1>9. Channel!Order
  BY <1>1, <1>4, <1>5, <1>6, <1>7, <1>8, SameOperators DEF Channel!Order
<1> QED  BY <1>9 DEF Channel!Next

\* pop moves the next messages of the order, up to where the queue has been filled.
LEMMA PopReceives ==
  ASSUME OnceInv, NEW c \in Consumers, PopMove(c)
  PROVE  Channel!Next
<1> DEFINE q == m_outQueuesIds[c]
           b == m_outQueues[q]
           n == Reached(q)
<1>0. Inv
  BY DEF OnceInv
<1>1. /\ popPc[c] = "move" /\ rx' = [rx EXCEPT ![c] = rx[c] \o b]
      /\ UNCHANGED <<accepted, log, joined>>
  BY DEF PopMove
<1>2. /\ c \in DOMAIN m_outQueuesIds /\ q \in DOMAIN m_outQueues
      /\ log \in Seq(Message) /\ b \in Seq(Message) /\ rx[c] \in Seq(Message)
      /\ joined[c] \in Nat /\ joined[c] <= Before
  BY <1>0, <1>1, QueueFacts DEF Inv, ChecksStillHold, TypeOK, StreamsStart
<1>3. n \in 0 .. Len(log) /\ joined[c] <= n
  <2>1. Len(log) \in Nat /\ Before \in 0 .. Len(log)
    <3>1. pc = "copy" => Before \in 0 .. Len(log)
      BY <1>0 DEF Inv, BatchEndsLog
    <3>2. pc # "copy" => Before = Len(log)
      BY DEF Before
    <3> QED  BY <1>0, <3>1, <3>2, QueueFacts
  <2>2. n = Before \/ n = Len(log)
    BY DEF Reached, Before
  <2> HIDE DEF n
  <2> QED  BY <1>2, <2>1, <2>2
<1>4. rx[c] \o b = SubSeq(log, joined[c] + 1, n)
  BY <1>0, <1>2 DEF Inv, TotalOrder
<1>5. b = SubSeq(log, joined[c] + Len(rx[c]) + 1, n)
  <2> DEFINE a == rx[c]
             j == joined[c]
  <2>1. /\ log \in Seq(Message) /\ a \in Seq(Message) /\ b \in Seq(Message)
        /\ j \in Nat /\ n \in 0 .. Len(log) /\ j <= n
        /\ a \o b = SubSeq(log, j + 1, n)
    BY <1>2, <1>3, <1>4
  <2>2. Len(a) \in Nat /\ Len(b) \in Nat /\ Len(log) \in Nat /\ j \in Nat /\ n \in Nat
    BY <1>2, <1>3, LenProperties
  <2> HIDE DEF a, b, j, n, q
  <2>3. Len(a) + Len(b) = n - j
    <3>1. Len(a \o b) = Len(a) + Len(b)
      BY <2>1, ElementsOfConcat
    <3>2. Len(SubSeq(log, j + 1, n)) = n - j
      <4>1. log \in Seq(Message) /\ \A x \in j + 1 .. n : log[x] \in Message
        BY <1>2, <2>2, <1>3, ElementOfSeq DEF n, j
      <4>2. j <= n /\ j + 1 \in Int
        BY <2>2, <1>3 DEF j
      <4> QED  BY <2>2, <4>1, <4>2, SubSeqProperties
    <3> QED  BY <2>1, <3>1, <3>2
  <2>4. b = SubSeq(log, (n - Len(b)) + 1, n)
    BY <2>1, <2>2, EndOfPiece, SMTT(30)
  <2>5. (n - Len(b)) + 1 = j + Len(a) + 1
    BY <2>2, <2>3
  <2> QED  BY <2>4, <2>5 DEF a, j
<1> HIDE DEF b, n
<1>6. rx' = [rx EXCEPT ![c] = rx[c] \o SubSeq(log, joined[c] + Len(rx[c]) + 1, n)]
  BY <1>1, <1>5
<1>7. Channel!Receive(c, n)
  BY <1>1, <1>6 DEF Channel!Receive
<1> QED  BY <1>3, <1>7 DEF Channel!Next

\* A consumer joins at the end of the order, or where the queue it takes over begins.
LEMMA RegistrationJoins ==
  ASSUME OnceInv, NEW c \in Consumers, SetConsumerNew(c) \/ SetConsumerReuse(c)
  PROVE  Channel!Next
<1>0. Inv /\ Inv'
  BY NextInv DEF OnceInv, Next, Register
<1>1. /\ c \in DOMAIN m_outQueuesIds'
      /\ rx' = [rx EXCEPT ![c] = <<>>]
      /\ \E k : joined' = [joined EXCEPT ![c] = k]
      /\ UNCHANGED <<accepted, log, pc>> /\ pc = "idle"
  <2>1. CASE SetConsumerNew(c)
    BY <2>1 DEF SetConsumerNew, Join, Quiet, thread, Bind
  <2>2. CASE SetConsumerReuse(c)
    <3>1. /\ rx' = [rx EXCEPT ![c] = <<>>]
          /\ \E k : joined' = [joined EXCEPT ![c] = k]
          /\ UNCHANGED <<accepted, log, pc>> /\ pc = "idle"
      BY <2>2 DEF SetConsumerReuse, Join, Quiet, thread
    <3>2. c \in DOMAIN m_outQueuesIds'
      BY <2>2 DEF SetConsumerReuse, Unbind, Bind, Restrict
    <3> QED  BY <3>1, <3>2
  <2> QED  BY <2>1, <2>2
<1>2. PICK k : joined' = [joined EXCEPT ![c] = k]
  BY <1>1
<1>3. k \in 0 .. Len(log)
  <2>1. joined \in [Consumers -> Nat] /\ joined' \in [Consumers -> Nat] /\ Len(log) \in Nat
    BY <1>0, QueueFacts DEF Inv, TypeOK
  <2>2. joined'[c] = k
    BY <1>2, <2>1
  <2>3. joined'[c] <= Before'
    BY <1>0, <1>1 DEF Inv, StreamsStart
  <2>4. Before' = Len(log)
    BY <1>1 DEF Before
  <2> QED  BY <2>1, <2>2, <2>3, <2>4
<1>4. Channel!Join(c, k)
  BY <1>1, <1>2 DEF Channel!Join
<1> QED  BY <1>3, <1>4 DEF Channel!Next

\* reset() empties the channel.
LEMMA ResetResets ==
  ASSUME Reset
  PROVE  Channel!Next
<1>1. accepted' \ Range(log') = {}
  BY DEF Reset
<1>2. Channel!Reset
  BY <1>1 DEF Reset, Channel!Reset
<1> QED  BY <1>2 DEF Channel!Next

\* The other actions.
LEMMA BehindChannelStutters ==
  ASSUME BehindChannel
  PROVE  UNCHANGED Channel!vars
<1>1. UNCHANGED <<accepted, log, rx, joined>>
  BY DEF BehindChannel, SetFeederNew, SetFeederReuse, PushUnknown, RemFeeder, PopCheck,
         RunCall, RunEnter, Stop, ScanBegin, ManageMap, CheckSkip, CheckHit, CheckEnd,
         CopyTo, CopyDone, LoopTest, vars, data
<1> QED  BY <1>1 DEF Channel!vars

\* Every step of the data manager is a step of the channel, or none.
LEMMA ChannelNext == OnceInv /\ [Next]_vars => [Channel!Next]_(Channel!vars)
<1> SUFFICES ASSUME OnceInv, [Next]_vars PROVE Channel!Next \/ UNCHANGED Channel!vars
  OBVIOUS
<1>1. CASE BehindChannel
  BY <1>1, BehindChannelStutters
<1>2. CASE \E f \in Feeders : Push(f)
  BY <1>2, PushFeeds
<1>3. CASE CopyLock
  BY <1>3, CopyOrders
<1>4. CASE \E c \in Consumers : PopMove(c)
  BY <1>4, PopReceives
<1>5. CASE \E c \in Consumers : SetConsumerNew(c) \/ SetConsumerReuse(c)
  BY <1>5, RegistrationJoins
<1>6. CASE Reset
  BY <1>6, ResetResets
<1> QED  BY <1>1, <1>2, <1>3, <1>4, <1>5, <1>6
         DEF Next, Register, Feed, Consume, RunStep, BehindChannel

\* The data manager implements the total order broadcast: whatever the threads of
\* push, manageBroadcast, Q::copy and pop interleave, and whatever is registered,
\* removed or reset, each of their steps is one of the channel or invisible to it.
THEOREM DataManagerImplementsChannel == Spec => ImplementsChannel
<1>1. Spec => []OnceInv
  BY OnceInit, OnceNext, PTL DEF Spec
<1> QED  BY <1>1, ChannelInit, ChannelNext, PTL DEF Spec, ImplementsChannel, Channel!Spec

-----------------------------------------------------------------------------
(* The order of the messages of one feeder.                                *)

\* The messages of one feeder are in the order they were pushed.
Ordered(s) == \A i, j \in DOMAIN s : i < j /\ s[i].from = s[j].from => s[i].n < s[j].n

\* The same of an order and a family of queues together: what is in the order comes
\* before what waits, and what waits of one feeder waits in one queue.
Fifo(l, w) ==
  /\ Ordered(l)
  /\ \A q \in DOMAIN w : Ordered(w[q])
  /\ \A q \in DOMAIN w : \A k \in DOMAIN w[q] : \A i \in DOMAIN l :
       l[i].from = w[q][k].from => l[i].n < w[q][k].n
  /\ \A q, r \in DOMAIN w : \A i \in DOMAIN w[q] : \A j \in DOMAIN w[r] :
       w[q][i].from = w[r][j].from => q = r

\* A message waits in the queue of its feeder.  Only the queue of "empty" is given to
\* another name, once the map is full, and "empty" does not come back then.
Home ==
  \A q \in DOMAIN m_inQueues : \A k \in DOMAIN Waiting(q) :
    LET f == Waiting(q)[k].from IN
      IF f \in DOMAIN m_inQueuesIds
      THEN m_inQueuesIds[f] = q
      ELSE f = "empty" /\ ~ (Cardinality(DOMAIN m_inQueuesIds) < MaxIn)

FifoInv == OnceInv /\ Home /\ Fifo(log, WaitingAll) /\ FifoPerFeeder

\* Message m is later than the others of its feeder, and they wait in queue q.
Later(m, q, l, w) ==
  /\ \A i \in DOMAIN l : l[i].from = m.from => l[i].n < m.n
  /\ \A r \in DOMAIN w : \A i \in DOMAIN w[r] :
       w[r][i].from = m.from => r = q /\ w[r][i].n < m.n

\* A queue gets a message later than the others of its feeder.
LEMMA FifoAppend ==
  ASSUME NEW S, NEW l \in Seq(S), NEW w, NEW v, NEW q \in DOMAIN w,
         \A r \in DOMAIN w : w[r] \in Seq(S),
         NEW m \in S, Fifo(l, w), Later(m, q, l, w),
         DOMAIN v = DOMAIN w, v[q] = Append(w[q], m),
         \A r \in DOMAIN w \ {q} : v[r] = w[r]
  PROVE  Fifo(l, v)
<1> DEFINE e == Len(w[q]) + 1
<1>1. /\ e \in Nat /\ DOMAIN w[q] \subseteq 1 .. e - 1 /\ DOMAIN v[q] = 1 .. e
      /\ v[q][e] = m /\ \A i \in DOMAIN w[q] : v[q][i] = w[q][i]
      /\ \A i \in DOMAIN v[q] : i # e => i \in DOMAIN w[q]
  BY AppendProperties, LenProperties
<1> HIDE DEF e
\* Every element of v is one of w or the new one.
<1>2. \A r \in DOMAIN v : \A i \in DOMAIN v[r] :
        \/ r = q /\ i = e /\ v[r][i] = m
        \/ i \in DOMAIN w[r] /\ v[r][i] = w[r][i]
  BY <1>1
<1>3. \A r \in DOMAIN v : Ordered(v[r])
  <2> SUFFICES ASSUME NEW r \in DOMAIN v, NEW i \in DOMAIN v[r], NEW j \in DOMAIN v[r],
                      i < j, v[r][i].from = v[r][j].from
               PROVE  v[r][i].n < v[r][j].n
    BY DEF Ordered
  <2>1. CASE i \in DOMAIN w[r] /\ v[r][i] = w[r][i] /\ j \in DOMAIN w[r] /\ v[r][j] = w[r][j]
    BY <2>1 DEF Fifo, Ordered
  <2>2. CASE i \in DOMAIN w[r] /\ v[r][i] = w[r][i] /\ v[r][j] = m
    BY <2>2 DEF Later
  <2>3. CASE r = q /\ i = e
    BY <1>1, <2>3
  <2> QED  BY <1>2, <2>1, <2>2, <2>3
<1>4. \A r \in DOMAIN v : \A k \in DOMAIN v[r] : \A i \in DOMAIN l :
        l[i].from = v[r][k].from => l[i].n < v[r][k].n
  <2> SUFFICES ASSUME NEW r \in DOMAIN v, NEW k \in DOMAIN v[r], NEW i \in DOMAIN l,
                      l[i].from = v[r][k].from
               PROVE  l[i].n < v[r][k].n
    OBVIOUS
  <2>1. CASE k \in DOMAIN w[r] /\ v[r][k] = w[r][k]
    BY <2>1 DEF Fifo
  <2>2. CASE v[r][k] = m
    BY <2>2 DEF Later
  <2> QED  BY <1>2, <2>1, <2>2
<1>5. \A r, s \in DOMAIN v : \A i \in DOMAIN v[r] : \A j \in DOMAIN v[s] :
        v[r][i].from = v[s][j].from => r = s
  <2> SUFFICES ASSUME NEW r \in DOMAIN v, NEW s \in DOMAIN v,
                      NEW i \in DOMAIN v[r], NEW j \in DOMAIN v[s],
                      v[r][i].from = v[s][j].from
               PROVE  r = s
    OBVIOUS
  <2>1. CASE i \in DOMAIN w[r] /\ v[r][i] = w[r][i] /\ j \in DOMAIN w[s] /\ v[s][j] = w[s][j]
    BY <2>1 DEF Fifo
  <2>2. CASE i \in DOMAIN w[r] /\ v[r][i] = w[r][i] /\ s = q /\ v[s][j] = m
    BY <2>2 DEF Later
  <2>3. CASE r = q /\ v[r][i] = m /\ j \in DOMAIN w[s] /\ v[s][j] = w[s][j]
    BY <2>3 DEF Later
  <2> QED  BY <1>2, <2>1, <2>2, <2>3
<1> QED  BY <1>3, <1>4, <1>5 DEF Fifo

\* What waits in a queue goes to the end of the order.
LEMMA FifoTake ==
  ASSUME NEW S, NEW l \in Seq(S), NEW w, NEW v, NEW q \in DOMAIN w,
         w[q] \in Seq(S), Fifo(l, w),
         DOMAIN v = DOMAIN w, v[q] = <<>>,
         \A r \in DOMAIN w \ {q} : v[r] = w[r]
  PROVE  Fifo(l \o w[q], v)
<1> DEFINE b == w[q]
           n == Len(l)
           k == l \o b
<1>1. /\ n \in Nat /\ Len(b) \in Nat /\ DOMAIN l = 1 .. n /\ DOMAIN b = 1 .. Len(b)
      /\ DOMAIN k = 1 .. n + Len(b)
      /\ \A i \in 1 .. n + Len(b) : k[i] = IF i <= n THEN l[i] ELSE b[i - n]
  BY ConcatProperties, LenProperties
<1> HIDE DEF b, n, k
<1>2. \A i \in DOMAIN k : \/ i \in DOMAIN l /\ k[i] = l[i]
                          \/ i - n \in DOMAIN b /\ k[i] = b[i - n] /\ i > n
  BY <1>1
<1>3. \A r \in DOMAIN v : \A i \in DOMAIN v[r] : r # q /\ r \in DOMAIN w /\ v[r] = w[r]
  <2>1. DOMAIN v[q] = {}
    OBVIOUS
  <2> QED  BY <2>1
<1>4. Ordered(k)
  <2> SUFFICES ASSUME NEW i \in DOMAIN k, NEW j \in DOMAIN k, i < j, k[i].from = k[j].from
               PROVE  k[i].n < k[j].n
    BY DEF Ordered
  <2>1. CASE i \in DOMAIN l /\ k[i] = l[i] /\ j \in DOMAIN l /\ k[j] = l[j]
    BY <2>1 DEF Fifo, Ordered
  <2>2. CASE i \in DOMAIN l /\ k[i] = l[i] /\ j - n \in DOMAIN b /\ k[j] = b[j - n]
    BY <2>2 DEF Fifo, b
  <2>3. CASE /\ i - n \in DOMAIN b /\ k[i] = b[i - n]
             /\ j - n \in DOMAIN b /\ k[j] = b[j - n]
    <3>1. i - n < j - n
      BY <1>1
    <3> QED  BY <2>3, <3>1 DEF Fifo, Ordered, b
  <2>4. CASE i > n /\ j \in DOMAIN l
    BY <1>1, <2>4
  <2> QED  BY <1>2, <2>1, <2>2, <2>3, <2>4
<1>5. \A r \in DOMAIN v : Ordered(v[r])
  BY <1>3 DEF Fifo, Ordered
<1>6. \A r \in DOMAIN v : \A i \in DOMAIN v[r] : \A j \in DOMAIN k :
        k[j].from = v[r][i].from => k[j].n < v[r][i].n
  <2> SUFFICES ASSUME NEW r \in DOMAIN v, NEW i \in DOMAIN v[r], NEW j \in DOMAIN k,
                      k[j].from = v[r][i].from
               PROVE  k[j].n < v[r][i].n
    OBVIOUS
  <2>1. r # q /\ r \in DOMAIN w /\ i \in DOMAIN w[r] /\ v[r][i] = w[r][i]
    BY <1>3
  <2>2. CASE j \in DOMAIN l /\ k[j] = l[j]
    BY <2>1, <2>2 DEF Fifo
  <2>3. CASE j - n \in DOMAIN b /\ k[j] = b[j - n]
    BY <2>1, <2>3 DEF Fifo, b
  <2> QED  BY <1>2, <2>2, <2>3
<1>7. \A r, s \in DOMAIN v : \A i \in DOMAIN v[r] : \A j \in DOMAIN v[s] :
        v[r][i].from = v[s][j].from => r = s
  BY <1>3 DEF Fifo
<1> QED  BY <1>4, <1>5, <1>6, <1>7 DEF Fifo, k, b

\* There is one more queue, with nothing in it.
LEMMA FifoMore ==
  ASSUME NEW l, NEW w, NEW v, NEW k, Fifo(l, w),
         DOMAIN v = DOMAIN w \cup {k}, v[k] = <<>>,
         \A r \in DOMAIN w : r # k => v[r] = w[r]
  PROVE  Fifo(l, v)
<1>1. DOMAIN v[k] = {}
  OBVIOUS
<1>2. \A r \in DOMAIN v : \A i \in DOMAIN v[r] : r \in DOMAIN w /\ v[r] = w[r]
  BY <1>1
<1>3. \A r \in DOMAIN v : Ordered(v[r])
  BY <1>2 DEF Fifo, Ordered
<1> QED  BY <1>2, <1>3 DEF Fifo

\* A piece of an ordered sequence is ordered.
LEMMA OrderedPiece ==
  ASSUME NEW S, NEW l \in Seq(S), Ordered(l), NEW j \in Nat, NEW n \in Nat, n <= Len(l)
  PROVE  Ordered(SubSeq(l, j + 1, n))
<1> DEFINE d == SubSeq(l, j + 1, n)
<1>1. Len(l) \in Nat /\ DOMAIN l = 1 .. Len(l)
  BY LenProperties
<1>2. CASE n < j + 1
  <2>1. d = <<>>
    BY <1>2, SubSeqEmpty
  <2>2. Ordered(<<>>)
    BY DEF Ordered
  <2> QED  BY <2>1, <2>2
<1>3. CASE j + 1 <= n
  <2>1. \A i \in j + 1 .. n : l[i] \in S
    BY <1>1, ElementOfSeq
  <2>2. /\ d \in Seq(S) /\ Len(d) = n - j
        /\ \A i \in 1 .. n - j : d[i] = l[j + i]
    BY <1>3, <2>1, SubSeqProperties
  <2>3. DOMAIN d = 1 .. n - j
    BY <2>2, LenProperties
  <2> HIDE DEF d
  <2>4. \A i \in DOMAIN d : j + i \in DOMAIN l /\ d[i] = l[j + i] /\ i \in Nat
    BY <1>1, <2>2, <2>3
  <2>5. ASSUME NEW i \in DOMAIN d, NEW k \in DOMAIN d, i < k, d[i].from = d[k].from
        PROVE  d[i].n < d[k].n
    <3>1. j + i \in DOMAIN l /\ j + k \in DOMAIN l /\ j + i < j + k
      BY <2>4, <2>5
    <3> QED  BY <2>4, <2>5, <3>1 DEF Ordered
  <2>6. Ordered(d)
    BY <2>5 DEF Ordered
  <2> QED  BY <2>6 DEF d
<1> QED  BY <1>2, <1>3

-----------------------------------------------------------------------------
\* Nothing is registered, waits or has been broadcast.
LEMMA FifoInit == Init => FifoInv
<1> SUFFICES ASSUME Init PROVE FifoInv
  OBVIOUS
<1>1. /\ DOMAIN m_inQueues = {} /\ DOMAIN WaitingAll = {} /\ DOMAIN log = {}
      /\ \A c \in Consumers : DOMAIN rx[c] = {}
  BY DEF Init, WaitingAll
<1>2. Home /\ Fifo(log, WaitingAll) /\ FifoPerFeeder
  BY <1>1 DEF Home, Fifo, Ordered, FifoPerFeeder
<1> QED  BY <1>2, OnceInit DEF FifoInv

\* Home, in terms of what waits in all the queues.
LEMMA HomeFacts ==
  ASSUME FifoInv, NEW q \in DOMAIN WaitingAll, NEW k \in DOMAIN WaitingAll[q]
  PROVE  LET f == WaitingAll[q][k].from IN
         /\ f \in DOMAIN m_inQueuesIds => m_inQueuesIds[f] = q
         /\ f \notin DOMAIN m_inQueuesIds =>
              f = "empty" /\ ~ (Cardinality(DOMAIN m_inQueuesIds) < MaxIn)
  BY WaitingFacts DEF FifoInv, OnceInv, Home

\* The same the other way round, for the state after a step.
LEMMA HomeAgain ==
  ASSUME Inv',
         \A q \in DOMAIN WaitingAll' : \A k \in DOMAIN WaitingAll'[q] :
           LET f == WaitingAll'[q][k].from IN
           /\ f \in DOMAIN m_inQueuesIds' => m_inQueuesIds'[f] = q
           /\ f \notin DOMAIN m_inQueuesIds' =>
                f = "empty" /\ ~ (Cardinality(DOMAIN m_inQueuesIds') < MaxIn)
  PROVE  Home'
<1>1. \A q \in DOMAIN m_inQueues' : q \in DOMAIN WaitingAll' /\ WaitingAll'[q] = Waiting(q)'
  BY DEF WaitingAll
<1> QED  BY <1>1 DEF Home

\* What a consumer has popped changes only by pop and registration.
LEMMA FifoOfOthers ==
  ASSUME FifoPerFeeder, UNCHANGED rx
  PROVE  FifoPerFeeder'
  BY DEF FifoPerFeeder

\* push: the message is later than all of its feeder, and they wait in the same queue.
LEMMA FifoPush ==
  ASSUME FifoInv, NEW f \in Feeders, Push(f), OnceInv'
  PROVE  FifoInv'
<1> DEFINE q == m_inQueuesIds[f]
           m == [from |-> f, n |-> attempts[f] + 1]
<1>0. /\ Inv /\ Numbered /\ Once(accepted, log, WaitingAll) /\ Fifo(log, WaitingAll)
      /\ FifoPerFeeder
  BY DEF FifoInv, OnceInv
<1>1. /\ f \in DOMAIN m_inQueuesIds /\ ~ Locked(q)
      /\ m_inQueues' = [m_inQueues EXCEPT ![q] = Append(@, m)]
      /\ UNCHANGED <<m_inQueuesIds, log, rx, pc, it>>
  BY DEF Push, thread, registry
<1>2. /\ attempts \in [Feeders -> Nat] /\ accepted \subseteq Message
      /\ m \in Message /\ m.from = f /\ m.n = attempts[f] + 1
  BY <1>0, SMTT(30) DEF Inv, TypeOK, Message
<1>3. \A x \in accepted : x.from = m.from => x.n < m.n
  BY <1>0, <1>2 DEF Numbered, Message
<1>4. q \in DOMAIN m_inQueues
  BY <1>0, <1>1 DEF Inv, RegistrySound, Range
<1>5. /\ DOMAIN WaitingAll' = DOMAIN WaitingAll
      /\ WaitingAll'[q] = Append(WaitingAll[q], m)
      /\ \A r \in DOMAIN WaitingAll \ {q} : WaitingAll'[r] = WaitingAll[r]
      /\ q \in DOMAIN WaitingAll
  BY <1>1, <1>4 DEF WaitingAll, Waiting, Locked
<1>6. \A r \in DOMAIN WaitingAll : \A i \in DOMAIN WaitingAll[r] :
        WaitingAll[r][i].from = m.from => r = q /\ WaitingAll[r][i].n < m.n
  <2> SUFFICES ASSUME NEW r \in DOMAIN WaitingAll, NEW i \in DOMAIN WaitingAll[r],
                      WaitingAll[r][i].from = m.from
               PROVE  r = q /\ WaitingAll[r][i].n < m.n
    OBVIOUS
  <2>1. WaitingAll[r][i] \in accepted
    BY <1>0 DEF Once
  <2>2. m_inQueuesIds[f] = r
    BY <1>1, <1>2, HomeFacts
  <2> QED  BY <1>3, <2>1, <2>2
<1>7. \A i \in DOMAIN log : log[i].from = m.from => log[i].n < m.n
  BY <1>0, <1>3 DEF Once
<1>8. Fifo(log, WaitingAll')
  <2> DEFINE w == WaitingAll
             v == WaitingAll'
  <2>1. /\ log \in Seq(Message) /\ q \in DOMAIN w /\ m \in Message
        /\ \A r \in DOMAIN w : w[r] \in Seq(Message)
    BY <1>0, <1>2, <1>5, WaitingFacts
  <2>2. Fifo(log, w) /\ Later(m, q, log, w)
    BY <1>0, <1>6, <1>7 DEF Later
  <2>3. /\ DOMAIN v = DOMAIN w /\ v[q] = Append(w[q], m)
        /\ \A r \in DOMAIN w \ {q} : v[r] = w[r]
    BY <1>5
  <2> HIDE DEF q, m, w, v
  <2>4. Fifo(log, v)
    BY <2>1, <2>2, <2>3, FifoAppend
  <2> QED  BY <2>4 DEF v
<1>9. Home'
  <2> SUFFICES ASSUME NEW r \in DOMAIN WaitingAll', NEW k \in DOMAIN WaitingAll'[r]
               PROVE  LET g == WaitingAll'[r][k].from IN
                      /\ g \in DOMAIN m_inQueuesIds => m_inQueuesIds[g] = r
                      /\ g \notin DOMAIN m_inQueuesIds =>
                           g = "empty" /\ ~ (Cardinality(DOMAIN m_inQueuesIds) < MaxIn)
    BY <1>1, HomeAgain DEF OnceInv
  <2>0. WaitingAll[q] \in Seq(Message)
    BY <1>0, <1>4, WaitingFacts
  <2>1. \/ r = q /\ WaitingAll'[r][k] = m
        \/ r \in DOMAIN WaitingAll /\ k \in DOMAIN WaitingAll[r]
             /\ WaitingAll'[r][k] = WaitingAll[r][k]
    <3>1. CASE r # q
      BY <1>5, <3>1
    <3>2. CASE r = q
      <4> DEFINE s == WaitingAll[q]
      <4>1. /\ Len(s) \in Nat /\ DOMAIN s = 1 .. Len(s)
            /\ DOMAIN Append(s, m) = 1 .. Len(s) + 1
            /\ Append(s, m)[Len(s) + 1] = m
            /\ \A i \in 1 .. Len(s) : Append(s, m)[i] = s[i]
        BY <1>2, <2>0, AppendProperties, LenProperties
      <4>2. k \in 1 .. Len(s) + 1 /\ WaitingAll'[r] = Append(s, m)
        BY <1>5, <3>2, <4>1
      <4> HIDE DEF s, m
      <4>3. CASE k = Len(s) + 1
        BY <3>2, <4>1, <4>2, <4>3
      <4>4. CASE k \in 1 .. Len(s)
        BY <1>5, <3>2, <4>1, <4>2, <4>4 DEF s
      <4> QED  BY <4>1, <4>2, <4>3, <4>4
    <3> QED  BY <3>1, <3>2
  <2>2. CASE r = q /\ WaitingAll'[r][k] = m
    BY <1>1, <1>2, <2>2
  <2>3. CASE r \in DOMAIN WaitingAll /\ k \in DOMAIN WaitingAll[r]
               /\ WaitingAll'[r][k] = WaitingAll[r][k]
    BY <2>3, HomeFacts
  <2> QED  BY <2>1, <2>2, <2>3
<1> QED  BY <1>0, <1>1, <1>8, <1>9, FifoOfOthers DEF FifoInv

\* Q::copy takes all that waits in a queue.
LEMMA FifoCopyLock ==
  ASSUME FifoInv, CopyLock, OnceInv'
  PROVE  FifoInv'
<1>0. Inv /\ Fifo(log, WaitingAll) /\ FifoPerFeeder
  BY DEF FifoInv, OnceInv
<1>1. /\ pc = "lock" /\ pc' = "copy" /\ it' = it
      /\ log' = log \o m_inQueues[it]
      /\ UNCHANGED <<m_inQueues, m_inQueuesIds, rx>>
  BY DEF CopyLock, registry
<1>2. it \in DOMAIN m_inQueues
  BY <1>0, <1>1 DEF Inv, ChecksStillHold
<1>3. /\ it \in DOMAIN WaitingAll /\ WaitingAll[it] = m_inQueues[it]
      /\ DOMAIN WaitingAll' = DOMAIN WaitingAll /\ WaitingAll'[it] = <<>>
      /\ \A r \in DOMAIN WaitingAll \ {it} : WaitingAll'[r] = WaitingAll[r]
  BY <1>1, <1>2 DEF WaitingAll, Waiting, Locked
<1>4. Fifo(log \o WaitingAll[it], WaitingAll')
  BY <1>0, <1>3, WaitingFacts, FifoTake
<1>5. Home'
  <2>1. DOMAIN WaitingAll'[it] = {}
    BY <1>3
  <2>2. \A r \in DOMAIN WaitingAll' : \A k \in DOMAIN WaitingAll'[r] :
          r \in DOMAIN WaitingAll /\ WaitingAll'[r] = WaitingAll[r]
    BY <1>3, <2>1
  <2> QED  BY <1>1, <2>2, HomeFacts, HomeAgain DEF OnceInv
<1> QED  BY <1>0, <1>1, <1>3, <1>4, <1>5, FifoOfOthers DEF FifoInv

\* setFeeder: nothing of the new name waits, since the map is not full.
LEMMA FifoSetFeederNew ==
  ASSUME FifoInv, NEW f \in Feeders, SetFeederNew(f), OnceInv'
  PROVE  FifoInv'
<1>0. Inv /\ Fifo(log, WaitingAll) /\ FifoPerFeeder
  BY DEF FifoInv, OnceInv
<1>1. /\ pc = "idle" /\ pc' = "idle" /\ f \notin DOMAIN m_inQueuesIds
      /\ Cardinality(DOMAIN m_inQueuesIds) < MaxIn
      /\ m_inQueuesIds' = Bind(m_inQueuesIds, f, NewPosition(m_inQueuesIds))
      /\ m_inQueues' = Append(m_inQueues, <<>>)
      /\ UNCHANGED <<log, rx>>
  BY DEF SetFeederNew, Quiet, thread
<1> DEFINE k == Len(m_inQueues) + 1
<1>2. /\ m_inQueues \in Seq(Seq(Message)) /\ Len(m_inQueues) \in Nat
  BY <1>0, QueueFacts DEF Inv, TypeOK
<1>3. /\ DOMAIN m_inQueues' = DOMAIN m_inQueues \cup {k} /\ k \notin DOMAIN m_inQueues
      /\ m_inQueues'[k] = <<>>
      /\ \A r \in DOMAIN m_inQueues : m_inQueues'[r] = m_inQueues[r]
  BY <1>1, <1>2, OneMoreQueue
<1>4. /\ DOMAIN WaitingAll' = DOMAIN WaitingAll \cup {k} /\ WaitingAll'[k] = <<>>
      /\ \A r \in DOMAIN WaitingAll : r # k => WaitingAll'[r] = WaitingAll[r]
  BY <1>1, <1>3 DEF WaitingAll, Waiting, Locked
<1>5. Fifo(log, WaitingAll')
  BY <1>0, <1>4, FifoMore
<1>6. Home'
  <2>1. DOMAIN WaitingAll'[k] = {}
    BY <1>4
  <2>2. \A r \in DOMAIN WaitingAll' : \A i \in DOMAIN WaitingAll'[r] :
          r \in DOMAIN WaitingAll /\ i \in DOMAIN WaitingAll[r]
            /\ WaitingAll'[r] = WaitingAll[r]
    BY <1>4, <2>1
  <2>3. /\ DOMAIN m_inQueuesIds' = DOMAIN m_inQueuesIds \cup {f}
        /\ \A x \in DOMAIN m_inQueuesIds : m_inQueuesIds'[x] = m_inQueuesIds[x]
    BY <1>1 DEF Bind
  <2>4. \A r \in DOMAIN WaitingAll : \A i \in DOMAIN WaitingAll[r] :
          /\ WaitingAll[r][i].from \in DOMAIN m_inQueuesIds
          /\ m_inQueuesIds[WaitingAll[r][i].from] = r
    BY <1>1, HomeFacts
  <2>5. \A r \in DOMAIN WaitingAll' : \A i \in DOMAIN WaitingAll'[r] :
          /\ WaitingAll'[r][i].from \in DOMAIN m_inQueuesIds'
          /\ m_inQueuesIds'[WaitingAll'[r][i].from] = r
    BY <2>2, <2>3, <2>4
  <2> QED  BY <2>5, HomeAgain DEF OnceInv
<1> QED  BY <1>0, <1>1, <1>5, <1>6, FifoOfOthers DEF FifoInv

\* setFeeder on a full map: nothing of the new name waits, since it is not "empty",
\* and what "empty" has pushed stays in the queue that changes its name.
LEMMA FifoSetFeederReuse ==
  ASSUME FifoInv, NEW f \in Feeders, SetFeederReuse(f), OnceInv'
  PROVE  FifoInv'
<1>0. Inv /\ Fifo(log, WaitingAll) /\ FifoPerFeeder
  BY DEF FifoInv, OnceInv
<1>1. /\ pc = "idle" /\ pc' = "idle" /\ f \notin DOMAIN m_inQueuesIds
      /\ "empty" \in DOMAIN m_inQueuesIds
      /\ Cardinality(DOMAIN m_inQueuesIds) >= MaxIn
      /\ m_inQueuesIds' = Unbind(Bind(m_inQueuesIds, f, m_inQueuesIds["empty"]), "empty")
      /\ UNCHANGED <<m_inQueues, log, rx>>
  BY DEF SetFeederReuse, Quiet, thread
<1>2. /\ m_inQueuesIds \in [DOMAIN m_inQueuesIds -> Nat \ {0}]
      /\ IsFiniteSet(DOMAIN m_inQueuesIds)
  BY <1>0 DEF Inv, TypeOK, RegistrySize
<1>3. /\ DOMAIN m_inQueuesIds' = (DOMAIN m_inQueuesIds \cup {f}) \ {"empty"}
      /\ \A x \in DOMAIN m_inQueuesIds \ {"empty"} : m_inQueuesIds'[x] = m_inQueuesIds[x]
      /\ Cardinality(DOMAIN m_inQueuesIds') = Cardinality(DOMAIN m_inQueuesIds)
  <2> DEFINE g == Unbind(Bind(m_inQueuesIds, f, m_inQueuesIds["empty"]), "empty")
  <2>1. /\ DOMAIN g = (DOMAIN m_inQueuesIds \cup {f}) \ {"empty"}
        /\ \A x \in DOMAIN m_inQueuesIds \ {"empty"} : g[x] = m_inQueuesIds[x]
        /\ Cardinality(DOMAIN g) = Cardinality(DOMAIN m_inQueuesIds)
    BY <1>1, <1>2, RebindFacts, ZenonT(60)
  <2> HIDE DEF g
  <2>2. m_inQueuesIds' = g
    BY <1>1 DEF g
  <2> QED  BY <2>1, <2>2
<1>4. ~ (Cardinality(DOMAIN m_inQueuesIds') < MaxIn)
  <2>1. Cardinality(DOMAIN m_inQueuesIds) \in Nat
    BY <1>2, FS_CardinalityType
  <2>2. MaxIn \in Nat
    BY DMAssumption
  <2> QED  BY <1>1, <1>3, <2>1, <2>2
<1>5. WaitingAll' = WaitingAll
  BY <1>1 DEF WaitingAll, Waiting, Locked
<1>6. Home'
  <2> SUFFICES ASSUME NEW q \in DOMAIN WaitingAll, NEW k \in DOMAIN WaitingAll[q]
               PROVE  LET g == WaitingAll[q][k].from IN
                      /\ g \in DOMAIN m_inQueuesIds' => m_inQueuesIds'[g] = q
                      /\ g \notin DOMAIN m_inQueuesIds' =>
                           g = "empty" /\ ~ (Cardinality(DOMAIN m_inQueuesIds') < MaxIn)
    BY <1>5, HomeAgain DEF OnceInv
  <2> DEFINE g == WaitingAll[q][k].from
  <2>1. g \in DOMAIN m_inQueuesIds /\ m_inQueuesIds[g] = q
    BY <1>1, HomeFacts
  <2> HIDE DEF g
  <2>2. /\ g \in DOMAIN m_inQueuesIds' => m_inQueuesIds'[g] = q
        /\ g \notin DOMAIN m_inQueuesIds' => g = "empty"
    BY <1>1, <1>3, <2>1
  <2> QED  BY <1>4, <2>2 DEF g
<1> QED  BY <1>0, <1>1, <1>5, <1>6, FifoOfOthers DEF FifoInv

\* A step that leaves alone the order, what waits and the names of the input queues.
LEMMA FifoAside ==
  ASSUME FifoInv, OnceInv', FifoPerFeeder',
         UNCHANGED <<m_inQueuesIds, log>>, WaitingAll' = WaitingAll
  PROVE  FifoInv'
<1>1. Home'
  BY HomeFacts, HomeAgain DEF OnceInv
<1>2. Fifo(log, WaitingAll)'
  BY DEF FifoInv
<1> QED  BY <1>1, <1>2 DEF FifoInv

\* pop gives the consumer a piece of the order.
LEMMA FifoPopMove ==
  ASSUME FifoInv, NEW c \in Consumers, PopMove(c)
  PROVE  FifoPerFeeder'
<1> DEFINE q == m_outQueuesIds[c]
           b == m_outQueues[q]
           n == Reached(q)
<1>0. Inv /\ Fifo(log, WaitingAll) /\ FifoPerFeeder
  BY DEF FifoInv, OnceInv
<1>1. /\ popPc[c] = "move" /\ rx' = [rx EXCEPT ![c] = rx[c] \o b]
  BY DEF PopMove
<1>2. /\ c \in DOMAIN m_outQueuesIds /\ log \in Seq(Message) /\ joined[c] \in Nat
      /\ rx \in [Consumers -> Seq(Message)]
  BY <1>0, <1>1 DEF Inv, ChecksStillHold, TypeOK
<1>3. n \in Nat /\ n <= Len(log)
  <2>1. Len(log) \in Nat
    BY <1>0, QueueFacts
  <2>2. n = Before \/ n = Len(log)
    BY DEF Reached, Before
  <2>3. Before \in 0 .. Len(log)
    <3>1. pc = "copy" => Before \in 0 .. Len(log)
      BY <1>0 DEF Inv, BatchEndsLog
    <3>2. pc # "copy" => Before = Len(log)
      BY DEF Before
    <3> QED  BY <2>1, <3>1, <3>2
  <2> HIDE DEF n
  <2> QED  BY <2>1, <2>2, <2>3
<1>4. rx[c] \o b = SubSeq(log, joined[c] + 1, n)
  BY <1>0, <1>2 DEF Inv, TotalOrder
<1> HIDE DEF b, n
<1>5. Ordered(SubSeq(log, joined[c] + 1, n))
  BY <1>0, <1>2, <1>3, OrderedPiece DEF Fifo
<1>6. Ordered(rx'[c]) /\ \A d \in Consumers \ {c} : rx'[d] = rx[d]
  BY <1>1, <1>2, <1>4, <1>5
<1>7. \A d \in Consumers : Ordered(rx'[d])
  BY <1>0, <1>6 DEF FifoPerFeeder, Ordered
<1> QED  BY <1>7 DEF FifoPerFeeder, Ordered

\* A consumer that registers has popped nothing.
LEMMA FifoJoin ==
  ASSUME FifoInv, NEW c \in Consumers, SetConsumerNew(c) \/ SetConsumerReuse(c)
  PROVE  FifoPerFeeder'
<1>1. rx' = [rx EXCEPT ![c] = <<>>]
  BY DEF SetConsumerNew, SetConsumerReuse, Join
<1>2. rx \in [Consumers -> Seq(Message)] /\ FifoPerFeeder
  BY DEF FifoInv, OnceInv, Inv, TypeOK
<1>3. DOMAIN rx'[c] = {} /\ \A d \in Consumers \ {c} : rx'[d] = rx[d]
  BY <1>1, <1>2
<1> QED  BY <1>2, <1>3 DEF FifoPerFeeder

\* reset() forgets queues, order and what has been popped together.
LEMMA FifoReset ==
  ASSUME Reset, OnceInv'
  PROVE  FifoInv'
<1>1. /\ DOMAIN m_inQueues' = {} /\ DOMAIN WaitingAll' = {} /\ DOMAIN log' = {}
      /\ \A c \in Consumers : DOMAIN rx'[c] = {}
  BY DEF Reset, WaitingAll
<1>2. Home' /\ Fifo(log, WaitingAll)' /\ FifoPerFeeder'
  BY <1>1 DEF Home, Fifo, Ordered, FifoPerFeeder
<1> QED  BY <1>2 DEF FifoInv

\* Steps that leave alone the order, what waits and the names of the input queues.
FeedsUntouched ==
  \/ \E f \in Feeders : PushUnknown(f)
  \/ \E c \in Consumers : SetConsumerNew(c) \/ SetConsumerReuse(c) \/ PopCheck(c) \/ PopMove(c)
  \/ RunCall \/ RunEnter \/ Stop \/ ScanBegin \/ ManageMap
  \/ CheckSkip \/ CheckHit \/ CheckEnd \/ CopyTo \/ LoopTest
  \/ UNCHANGED vars

\* They do.
LEMMA FeedsUntouchedFacts ==
  ASSUME FeedsUntouched
  PROVE  /\ UNCHANGED <<m_inQueuesIds, log>> /\ WaitingAll' = WaitingAll
         /\ UNCHANGED rx \/ \E c \in Consumers :
              SetConsumerNew(c) \/ SetConsumerReuse(c) \/ PopMove(c)
<1>1. UNCHANGED <<m_inQueues, m_inQueuesIds, log>>
  BY DEF FeedsUntouched, PushUnknown, SetConsumerNew, SetConsumerReuse, PopCheck, PopMove,
         RunCall, RunEnter, Stop, ScanBegin, ManageMap, CheckSkip, CheckHit, CheckEnd,
         CopyTo, LoopTest, vars, data, registry
<1>2. \/ UNCHANGED <<pc, it>>
      \/ pc # "copy" /\ pc' # "copy"
  BY DEF FeedsUntouched, PushUnknown, SetConsumerNew, SetConsumerReuse, PopCheck, PopMove,
         RunCall, RunEnter, Stop, ScanBegin, ManageMap, CheckSkip, CheckHit, CheckEnd,
         CopyTo, LoopTest, vars, thread
<1>3. UNCHANGED rx \/ \E c \in Consumers :
        SetConsumerNew(c) \/ SetConsumerReuse(c) \/ PopMove(c)
  BY DEF FeedsUntouched, PushUnknown, PopCheck,
         RunCall, RunEnter, Stop, ScanBegin, ManageMap, CheckSkip, CheckHit, CheckEnd,
         CopyTo, LoopTest, vars, data
<1>4. WaitingAll' = WaitingAll
  BY <1>1, <1>2 DEF WaitingAll, Waiting, Locked
<1> QED  BY <1>1, <1>3, <1>4

\* Every step keeps the invariant, as long as no feeder is removed.
LEMMA FifoNext ==
  ASSUME Removable = {}
  PROVE  FifoInv /\ [Next]_vars => FifoInv'
<1> SUFFICES ASSUME FifoInv, [Next]_vars PROVE FifoInv'
  OBVIOUS
<1>0. OnceInv'
  BY OnceNext DEF FifoInv
<1>1. CASE FeedsUntouched
  <2>1. FifoPerFeeder'
    BY <1>1, FeedsUntouchedFacts, FifoOfOthers, FifoPopMove, FifoJoin DEF FifoInv
  <2> QED  BY <1>0, <1>1, <2>1, FeedsUntouchedFacts, FifoAside
<1>2. CASE \E f \in Feeders : SetFeederNew(f)
  BY <1>0, <1>2, FifoSetFeederNew
<1>3. CASE \E f \in Feeders : SetFeederReuse(f)
  BY <1>0, <1>3, FifoSetFeederReuse
<1>4. CASE \E f \in Feeders : Push(f)
  BY <1>0, <1>4, FifoPush
<1>5. CASE CopyLock
  BY <1>0, <1>5, FifoCopyLock
<1>6. CASE CopyDone
  <2>1. /\ pc = "copy" /\ pc' = "check" /\ it \in Nat
        /\ m_inQueues' = [m_inQueues EXCEPT ![it] = <<>>]
        /\ UNCHANGED <<m_inQueuesIds, log, rx>>
    BY <1>6 DEF CopyDone, FifoInv, OnceInv, Inv, TypeOK, registry
  <2>2. WaitingAll' = WaitingAll
    BY <2>1 DEF WaitingAll, Waiting, Locked
  <2>3. FifoPerFeeder'
    BY <2>1, FifoOfOthers DEF FifoInv
  <2> QED  BY <1>0, <2>1, <2>2, <2>3, FifoAside
<1>7. CASE Reset
  BY <1>0, <1>7, FifoReset
<1> QED  BY <1>1, <1>2, <1>3, <1>4, <1>5, <1>6, <1>7
         DEF Next, Register, Feed, Consume, RunStep, FeedsUntouched

\* As long as the application removes no feeder (the framework has no way to), every
\* consumer gets the messages of one feeder in the order they were pushed, also those
\* a feeder named "empty" has left in a queue that another name took over.  With
\* remFeeder it may not: a name that is removed and set again gets a second queue, and
\* manageBroadcast may come to that one first.
THEOREM FeedersKeepTheirOrder ==
  ASSUME Removable = {}
  PROVE  Spec => []FifoPerFeeder
<1>1. FifoInv => FifoPerFeeder
  BY DEF FifoInv
<1>2. Spec => []FifoInv
  BY FifoInit, FifoNext, PTL DEF Spec
<1> QED  BY <1>1, <1>2, PTL

-----------------------------------------------------------------------------
\* What begins a piece of a sequence is in the sequence, as far from its start.
LEMMA BeginningOfPiece ==
  ASSUME NEW S, NEW l \in Seq(S), NEW j \in Nat, NEW n \in 0 .. Len(l), j <= n,
         NEW a \in Seq(S), NEW b \in Seq(S)
  PROVE  a \o b = SubSeq(l, j + 1, n) =>
           \A k \in DOMAIN a : j + k \in DOMAIN l /\ a[k] = l[j + k]
<1> DEFINE c == a \o b
           d == SubSeq(l, j + 1, n)
<1>1. Len(l) \in Nat /\ DOMAIN l = 1 .. Len(l) /\ \A i \in 1 .. Len(l) : l[i] \in S
  BY LenProperties, ElementOfSeq
<1>2. Len(d) = n - j /\ \A i \in 1 .. n - j : d[i] = l[j + i]
  BY <1>1, SubSeqProperties
<1>3. /\ Len(a) \in Nat /\ Len(b) \in Nat /\ Len(c) = Len(a) + Len(b) /\ DOMAIN a = 1 .. Len(a)
      /\ \A i \in 1 .. Len(a) : c[i] = a[i]
  BY ConcatProperties, LenProperties
<1> HIDE DEF c, d
<1> SUFFICES ASSUME c = d, NEW k \in 1 .. Len(a) PROVE j + k \in DOMAIN l /\ a[k] = l[j + k]
  BY <1>3 DEF c, d
<1>4. n \in Nat /\ n <= Len(l)
  BY <1>1
<1>5. k \in 1 .. n - j /\ j + k \in 1 .. Len(l)
  BY <1>1, <1>2, <1>3, <1>4
<1> QED  BY <1>1, <1>2, <1>3, <1>5

\* What a consumer has got is the order of broadcast from its registration on.
LEMMA ReceivedFromLog ==
  ASSUME OnceInv, NEW c \in DOMAIN m_outQueuesIds, NEW k \in DOMAIN rx[c]
  PROVE  /\ joined[c] + k \in DOMAIN log /\ rx[c][k] = log[joined[c] + k]
         /\ rx[c][k] \in accepted
<1> DEFINE q == m_outQueuesIds[c]
           b == m_outQueues[q]
           n == Reached(q)
<1>0. Inv /\ Once(accepted, log, WaitingAll)
  BY DEF OnceInv
<1>1. /\ c \in Consumers /\ q \in DOMAIN m_outQueues /\ b \in Seq(Message) /\ Len(log) \in Nat
  BY <1>0, QueueFacts
<1>2. rx[c] \in Seq(Message) /\ log \in Seq(Message) /\ joined[c] \in Nat
  BY <1>0, <1>1 DEF Inv, TypeOK
<1>3. n \in 0 .. Len(log) /\ joined[c] <= n
  <2>1. joined[c] <= Before
    BY <1>0 DEF Inv, StreamsStart
  <2>2. n = Before \/ n = Len(log)
    BY DEF Reached, Before
  <2>3. Before \in 0 .. Len(log)
    <3>1. pc = "copy" => Before \in 0 .. Len(log)
      BY <1>0 DEF Inv, BatchEndsLog
    <3>2. pc # "copy" => Before = Len(log)
      BY DEF Before
    <3> QED  BY <1>1, <3>1, <3>2
  <2> HIDE DEF n
  <2> QED  BY <1>1, <1>2, <2>1, <2>2, <2>3
<1>4. rx[c] \o b = SubSeq(log, joined[c] + 1, n)
  BY <1>0 DEF Inv, TotalOrder
<1> HIDE DEF b, n
<1>5. joined[c] + k \in DOMAIN log /\ rx[c][k] = log[joined[c] + k]
  <2>1. rx[c] \o b = SubSeq(log, joined[c] + 1, n) =>
          \A i \in DOMAIN rx[c] : joined[c] + i \in DOMAIN log /\ rx[c][i] = log[joined[c] + i]
    <3> HIDE <1>4
    <3> QED  BY <1>1, <1>2, <1>3, BeginningOfPiece, ZenonT(60)
  <2> QED  BY <1>4, <2>1, Zenon
<1>6. rx[c][k] \in accepted
  BY <1>0, <1>5 DEF Once
<1> QED  BY <1>5, <1>6
=============================================================================
