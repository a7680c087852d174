----------------------- MODULE DataManagerOnceProofs -----------------------
(***************************************************************************)
(* Proof that the data manager neither loses nor repeats a message, for    *)
(* any feeders, consumers, limits and number of messages.                  *)
(*                                                                         *)
(* ExactlyOnce is about a set, a sequence and a family of sequences: the   *)
(* messages accepted, the order of broadcast, and what waits in each input *)
(* queue.  Three lemmas say what keeps it true of any such three: a queue  *)
(* gets a new message, a queue goes to the end of the order, there is one  *)
(* more empty queue.  Every action is one of these or changes nothing, and *)
(* a pushed message is new because a feeder numbers its messages.          *)
(***************************************************************************)
EXTENDS DataManagerProofs

\* ExactlyOnce, of a set, a sequence and a family of sequences.
Once(acc, l, w) ==
  /\ \A m \in acc : (\E i \in DOMAIN l : l[i] = m)
                      \/ (\E q \in DOMAIN w : \E i \in DOMAIN w[q] : w[q][i] = m)
  /\ \A i \in DOMAIN l : l[i] \in acc
  /\ \A q \in DOMAIN w : \A i \in DOMAIN w[q] : w[q][i] \in acc
  /\ \A i, j \in DOMAIN l : l[i] = l[j] => i = j
  /\ \A q \in DOMAIN w : \A i \in DOMAIN w[q] : \A j \in DOMAIN l : w[q][i] # l[j]
  /\ \A q, r \in DOMAIN w : \A i \in DOMAIN w[q] : \A j \in DOMAIN w[r] :
       w[q][i] = w[r][j] => q = r /\ i = j

\* What waits in the input queues.
WaitingAll == [q \in DOMAIN m_inQueues |-> Waiting(q)]

\* A feeder's messages are numbered as it pushes them.
Numbered == \A m \in accepted : m.n <= attempts[m.from]

OnceInv == Inv /\ Numbered /\ Once(accepted, log, WaitingAll)

\* Once of the histories and of what waits is ExactlyOnce.
LEMMA OnceIsExactlyOnce == Once(accepted, log, WaitingAll) <=> ExactlyOnce
<1> DEFINE w == WaitingAll
<1>1. DOMAIN w = DOMAIN m_inQueues /\ \A q \in DOMAIN m_inQueues : w[q] = Waiting(q)
  BY DEF WaitingAll
<1> HIDE DEF w
<1>2. accepted = Range(log) \cup UNION {Range(Waiting(q)) : q \in DOMAIN m_inQueues}
        <=> /\ \A m \in accepted : (\E i \in DOMAIN log : log[i] = m)
                 \/ (\E q \in DOMAIN w : \E i \in DOMAIN w[q] : w[q][i] = m)
            /\ \A i \in DOMAIN log : log[i] \in accepted
            /\ \A q \in DOMAIN w : \A i \in DOMAIN w[q] : w[q][i] \in accepted
  <2> DEFINE U == UNION {Range(Waiting(q)) : q \in DOMAIN m_inQueues}
  <2>1. \A m : m \in Range(log) <=> \E i \in DOMAIN log : log[i] = m
    BY DEF Range
  <2>2. \A m : m \in U <=> \E q \in DOMAIN m_inQueues : m \in Range(Waiting(q))
    OBVIOUS
  <2>3. \A m : \A q : m \in Range(Waiting(q)) <=> \E i \in DOMAIN Waiting(q) : Waiting(q)[i] = m
    BY DEF Range
  <2>4. \A m : m \in U <=> \E q \in DOMAIN w : \E i \in DOMAIN w[q] : w[q][i] = m
    BY <1>1, <2>2, <2>3
  <2>5. accepted = Range(log) \cup U
          <=> \A m : m \in accepted <=> m \in Range(log) \/ m \in U
    <3> HIDE DEF U
    <3> QED  OBVIOUS
  <2>6. (\A m : m \in accepted <=> m \in Range(log) \/ m \in U)
          <=> /\ \A m \in accepted : (\E i \in DOMAIN log : log[i] = m)
                   \/ (\E q \in DOMAIN w : \E i \in DOMAIN w[q] : w[q][i] = m)
              /\ \A i \in DOMAIN log : log[i] \in accepted
              /\ \A q \in DOMAIN w : \A i \in DOMAIN w[q] : w[q][i] \in accepted
    <3> HIDE DEF U
    <3> QED  BY <2>1, <2>4
  <2> QED  BY <2>5, <2>6
<1>3. \A q \in DOMAIN w : \A i \in DOMAIN w[q] :
        w[q][i] \notin Range(log) <=> \A j \in DOMAIN log : w[q][i] # log[j]
  BY DEF Range
<1> QED  BY <1>1, <1>2, <1>3 DEF Once, ExactlyOnce, w

-----------------------------------------------------------------------------
\* A queue gets a message that is new.
LEMMA OnceAppend ==
  ASSUME NEW S, NEW acc, NEW l \in Seq(S), NEW w, NEW v, NEW q \in DOMAIN w,
         \A r \in DOMAIN w : w[r] \in Seq(S),
         NEW m \in S, m \notin acc, Once(acc, l, w),
         DOMAIN v = DOMAIN w, v[q] = Append(w[q], m),
         \A r \in DOMAIN w \ {q} : v[r] = w[r]
  PROVE  Once(acc \cup {m}, l, v)
<1>1. /\ Len(w[q]) \in Nat /\ DOMAIN w[q] = 1 .. Len(w[q])
      /\ DOMAIN v[q] = 1 .. Len(w[q]) + 1
      /\ v[q][Len(w[q]) + 1] = m
      /\ \A i \in DOMAIN w[q] : v[q][i] = w[q][i]
  BY AppendProperties, LenProperties
<1>2. /\ Len(w[q]) + 1 \in DOMAIN v[q] /\ DOMAIN w[q] \subseteq DOMAIN v[q]
      /\ \A i \in DOMAIN v[q] : i \in DOMAIN w[q] \/ i = Len(w[q]) + 1
  BY <1>1
<1> DEFINE e == Len(w[q]) + 1
<1>3. /\ e \in DOMAIN v[q] /\ v[q][e] = m /\ e \notin DOMAIN w[q]
      /\ \A i \in DOMAIN v[q] : i # e => i \in DOMAIN w[q] /\ v[q][i] = w[q][i]
      /\ \A i \in DOMAIN w[q] : i \in DOMAIN v[q] /\ v[q][i] = w[q][i]
  BY <1>1, <1>2
<1> HIDE DEF e
\* Every element of v is one of w or the new one.
<1>4. \A r \in DOMAIN v : \A i \in DOMAIN v[r] :
        \/ r = q /\ i = e /\ v[r][i] = m
        \/ i \in DOMAIN w[r] /\ v[r][i] = w[r][i] /\ v[r][i] \in acc /\ v[r][i] # m
  BY <1>3 DEF Once
<1>5. \A r \in DOMAIN w : \A i \in DOMAIN w[r] : i \in DOMAIN v[r] /\ v[r][i] = w[r][i]
  BY <1>3
<1>6. \A x \in acc \cup {m} : (\E i \in DOMAIN l : l[i] = x)
                      \/ (\E r \in DOMAIN v : \E i \in DOMAIN v[r] : v[r][i] = x)
  BY <1>3, <1>5 DEF Once
<1>7. \A r, s \in DOMAIN v : \A i \in DOMAIN v[r] : \A j \in DOMAIN v[s] :
        v[r][i] = v[s][j] => r = s /\ i = j
  BY <1>4, SMTT(30) DEF Once
<1>8. /\ \A i \in DOMAIN l : l[i] \in acc \cup {m} /\ l[i] # m
      /\ \A i, j \in DOMAIN l : l[i] = l[j] => i = j
  BY DEF Once
<1>9. \A r \in DOMAIN v : \A i \in DOMAIN v[r] :
        v[r][i] \in acc \cup {m} /\ \A j \in DOMAIN l : v[r][i] # l[j]
  BY <1>4, <1>8 DEF Once
<1> QED  BY <1>6, <1>7, <1>8, <1>9 DEF Once

\* What waits in a queue goes to the end of the order.
LEMMA OnceTake ==
  ASSUME NEW S, NEW acc, NEW l \in Seq(S), NEW w, NEW v, NEW q \in DOMAIN w,
         w[q] \in Seq(S), Once(acc, l, w),
         DOMAIN v = DOMAIN w, v[q] = <<>>,
         \A r \in DOMAIN w \ {q} : v[r] = w[r]
  PROVE  Once(acc, l \o w[q], v)
<1> DEFINE b == w[q]
           n == Len(l)
           k == l \o b
<1>1. /\ n \in Nat /\ Len(b) \in Nat /\ DOMAIN l = 1 .. n /\ DOMAIN b = 1 .. Len(b)
      /\ DOMAIN k = 1 .. n + Len(b)
      /\ \A i \in 1 .. n + Len(b) : k[i] = IF i <= n THEN l[i] ELSE b[i - n]
  BY ConcatProperties, LenProperties
<1> HIDE DEF b, n, k
<1>2. /\ \A i \in DOMAIN l : i \in DOMAIN k /\ k[i] = l[i]
      /\ \A i \in DOMAIN b : n + i \in DOMAIN k /\ k[n + i] = b[i]
  BY <1>1
<1>3. \A i \in DOMAIN k : \/ i \in DOMAIN l /\ k[i] = l[i]
                          \/ i - n \in DOMAIN b /\ k[i] = b[i - n] /\ i \notin DOMAIN l
  BY <1>1
<1>4. DOMAIN v[q] = {}
  OBVIOUS
<1>5. \A r \in DOMAIN v : \A i \in DOMAIN v[r] : r # q /\ r \in DOMAIN w /\ v[r] = w[r]
  BY <1>4
<1>6. \A x \in acc : (\E i \in DOMAIN k : k[i] = x)
                       \/ (\E r \in DOMAIN v : \E i \in DOMAIN v[r] : v[r][i] = x)
  <2> TAKE x \in acc
  <2>1. CASE \E i \in DOMAIN l : l[i] = x
    BY <2>1, <1>2
  <2>2. CASE \E i \in DOMAIN b : b[i] = x
    BY <2>2, <1>2
  <2>3. CASE \E r \in DOMAIN w \ {q} : \E i \in DOMAIN w[r] : w[r][i] = x
    BY <2>3
  <2> QED  BY <2>1, <2>2, <2>3 DEF Once, b
<1>7. /\ \A i \in DOMAIN b : b[i] \in acc
      /\ \A i \in DOMAIN b : \A j \in DOMAIN l : b[i] # l[j]
      /\ \A i, j \in DOMAIN b : b[i] = b[j] => i = j
      /\ \A r \in DOMAIN w \ {q} : \A i \in DOMAIN w[r] : \A j \in DOMAIN b : w[r][i] # b[j]
  BY DEF Once, b
<1>8. \A i \in DOMAIN k : k[i] \in acc
  BY <1>3, <1>7 DEF Once
<1>9. \A i, j \in DOMAIN k : k[i] = k[j] => i = j
  <2> SUFFICES ASSUME NEW i \in DOMAIN k, NEW j \in DOMAIN k, k[i] = k[j] PROVE i = j
    OBVIOUS
  <2>1. CASE i \in DOMAIN l /\ j \in DOMAIN l
    BY <2>1, <1>2 DEF Once
  <2>2. CASE i \notin DOMAIN l /\ j \notin DOMAIN l
    <3>1. i - n = j - n
      BY <2>2, <1>3, <1>7
    <3> QED  BY <3>1, <1>1
  <2>3. CASE (i \in DOMAIN l /\ j \notin DOMAIN l) \/ (i \notin DOMAIN l /\ j \in DOMAIN l)
    BY <2>3, <1>3, <1>7
  <2> QED  BY <2>1, <2>2, <2>3
<1>10. \A r \in DOMAIN v : \A i \in DOMAIN v[r] :
         v[r][i] \in acc /\ \A j \in DOMAIN k : v[r][i] # k[j]
  <2> SUFFICES ASSUME NEW r \in DOMAIN v, NEW i \in DOMAIN v[r], NEW j \in DOMAIN k
               PROVE  v[r][i] \in acc /\ v[r][i] # k[j]
    BY <1>5 DEF Once
  <2>1. r \in DOMAIN w \ {q} /\ i \in DOMAIN w[r] /\ v[r][i] = w[r][i]
    BY <1>5
  <2> QED  BY <2>1, <1>3, <1>7 DEF Once
<1>11. \A r, s \in DOMAIN v : \A i \in DOMAIN v[r] : \A j \in DOMAIN v[s] :
         v[r][i] = v[s][j] => r = s /\ i = j
  BY <1>5 DEF Once
<1> QED  BY <1>6, <1>8, <1>9, <1>10, <1>11 DEF Once, k, b

\* There is one more queue, with nothing in it.
LEMMA OnceMore ==
  ASSUME NEW acc, NEW l, NEW w, NEW v, NEW k, Once(acc, l, w),
         DOMAIN v = DOMAIN w \cup {k}, k \notin DOMAIN w, v[k] = <<>>,
         \A r \in DOMAIN w : v[r] = w[r]
  PROVE  Once(acc, l, v)
<1>1. DOMAIN v[k] = {}
  OBVIOUS
<1>2. \A r \in DOMAIN v : \A i \in DOMAIN v[r] : r \in DOMAIN w /\ v[r] = w[r]
  BY <1>1
<1> QED  BY <1>2 DEF Once

-----------------------------------------------------------------------------
\* The constructor leaves no queue and no message.
LEMMA OnceInit == Init => OnceInv
<1> SUFFICES ASSUME Init PROVE OnceInv
  OBVIOUS
<1>1. /\ accepted = {} /\ log = <<>> /\ DOMAIN WaitingAll = {} /\ DOMAIN log = {}
  BY DEF Init, WaitingAll
<1>2. Numbered /\ Once(accepted, log, WaitingAll)
  BY <1>1 DEF Once, Numbered
<1> QED  BY <1>2, InitInv DEF OnceInv

\* Types, as far as the steps below need them.
LEMMA WaitingFacts ==
  ASSUME Inv
  PROVE  /\ DOMAIN WaitingAll = DOMAIN m_inQueues
         /\ \A q \in DOMAIN m_inQueues : /\ WaitingAll[q] = Waiting(q)
                                         /\ WaitingAll[q] \in Seq(Message)
         /\ log \in Seq(Message)
<1>1. \A q \in DOMAIN m_inQueues : m_inQueues[q] \in Seq(Message)
  BY QueueFacts DEF Inv, TypeOK
<1>2. <<>> \in Seq(Message)
  BY EmptySeq
<1> QED  BY <1>1, <1>2 DEF WaitingAll, Waiting, Inv, TypeOK

\* A step that leaves alone what the queues, the copy and the histories are.
LEMMA OnceAside ==
  ASSUME Once(accepted, log, WaitingAll), UNCHANGED <<m_inQueues, accepted, log>>,
         \A q \in DOMAIN m_inQueues : Locked(q)' <=> Locked(q)
  PROVE  Once(accepted, log, WaitingAll)'
<1>1. WaitingAll' = WaitingAll
  BY DEF WaitingAll, Waiting
<1> QED  BY <1>1

\* push: the message is new, since the feeder's number is above all it has used.
LEMMA OncePush ==
  ASSUME OnceInv, NEW f \in Feeders, Push(f), Inv'
  PROVE  Numbered' /\ Once(accepted, log, WaitingAll)'
<1> DEFINE q == m_inQueuesIds[f]
           m == [from |-> f, n |-> attempts[f] + 1]
<1>0. Inv /\ Numbered /\ Once(accepted, log, WaitingAll)
  BY DEF OnceInv
<1>1. /\ f \in DOMAIN m_inQueuesIds /\ ~ Locked(q)
      /\ attempts' = [attempts EXCEPT ![f] = @ + 1]
      /\ m_inQueues' = [m_inQueues EXCEPT ![q] = Append(@, m)]
      /\ accepted' = accepted \cup {m} /\ log' = log /\ pc' = pc /\ it' = it
  BY DEF Push, PushBack, thread
<1>2. /\ attempts \in [Feeders -> Nat] /\ accepted \subseteq Message
      /\ m \in Message /\ m.from = f /\ m.n = attempts[f] + 1
  BY <1>0, SMTT(30) DEF Inv, TypeOK, Message
<1>3. m \notin accepted
  BY <1>0, <1>2 DEF Numbered
<1>4. Numbered'
  <2> SUFFICES ASSUME NEW x \in accepted' PROVE x.n <= attempts'[x.from]
    BY DEF Numbered
  <2>1. CASE x \in accepted
    <3>1. x.from \in Feeders /\ x.n \in Nat /\ x.n <= attempts[x.from]
      BY <2>1, <1>0, <1>2 DEF Numbered, Message
    <3>2. attempts'[x.from] = IF x.from = f THEN attempts[f] + 1 ELSE attempts[x.from]
      BY <3>1, <1>1, <1>2
    <3> QED  BY <3>1, <3>2, <1>2
  <2>2. CASE x = m
    BY <2>2, <1>1, <1>2
  <2> QED  BY <2>1, <2>2, <1>1
<1>5. q \in DOMAIN m_inQueues
  BY <1>0, <1>1 DEF Inv, RegistrySound, Range
<1>6. /\ DOMAIN WaitingAll' = DOMAIN WaitingAll
      /\ WaitingAll'[q] = Append(WaitingAll[q], m)
      /\ \A r \in DOMAIN WaitingAll \ {q} : WaitingAll'[r] = WaitingAll[r]
      /\ q \in DOMAIN WaitingAll
  BY <1>1, <1>5 DEF WaitingAll, Waiting, Locked
<1>7. Once(accepted', log', WaitingAll')
  <2> HIDE DEF q, m
  <2> QED  BY <1>0, <1>1, <1>2, <1>3, <1>6, WaitingFacts, OnceAppend
<1> QED  BY <1>4, <1>7

\* Q::copy takes what its source holds to the end of the order.
LEMMA OnceCopyLock ==
  ASSUME OnceInv, CopyLock
  PROVE  Once(accepted, log, WaitingAll)'
<1>0. Inv /\ Once(accepted, log, WaitingAll)
  BY DEF OnceInv
<1>1. /\ pc = "lock" /\ pc' = "copy" /\ it' = it
      /\ log' = log \o m_inQueues[it]
      /\ UNCHANGED <<m_inQueues, accepted>>
  BY DEF CopyLock
<1>2. it \in DOMAIN m_inQueues
  BY <1>0, <1>1 DEF Inv, ChecksStillHold
<1>3. /\ it \in DOMAIN WaitingAll /\ WaitingAll[it] = m_inQueues[it]
      /\ DOMAIN WaitingAll' = DOMAIN WaitingAll /\ WaitingAll'[it] = <<>>
      /\ \A r \in DOMAIN WaitingAll \ {it} : WaitingAll'[r] = WaitingAll[r]
  BY <1>1, <1>2 DEF WaitingAll, Waiting, Locked
<1>4. Once(accepted, log \o WaitingAll[it], WaitingAll')
  BY <1>0, <1>3, WaitingFacts, OnceTake
<1> QED  BY <1>1, <1>3, <1>4

\* The queue that is cleared was taken when the copy began.
LEMMA OnceCopyDone ==
  ASSUME OnceInv, CopyDone
  PROVE  Once(accepted, log, WaitingAll)'
<1>0. Inv /\ Once(accepted, log, WaitingAll)
  BY DEF OnceInv
<1>1. /\ pc = "copy" /\ pc' = "check" /\ it \in Nat
      /\ m_inQueues' = [m_inQueues EXCEPT ![it] = <<>>]
      /\ UNCHANGED <<log, accepted>>
  BY <1>0 DEF CopyDone, Cleared, Inv, TypeOK
<1>2. WaitingAll' = WaitingAll
  BY <1>1 DEF WaitingAll, Waiting, Locked
<1> QED  BY <1>0, <1>1, <1>2

\* setFeeder adds an empty queue.
LEMMA OnceSetFeederNew ==
  ASSUME OnceInv, NEW f \in Feeders, SetFeederNew(f)
  PROVE  Once(accepted, log, WaitingAll)'
<1>0. Inv /\ Once(accepted, log, WaitingAll)
  BY DEF OnceInv
<1>1. /\ pc = "idle" /\ pc' = "idle"
      /\ m_inQueues' = Append(m_inQueues, <<>>)
      /\ UNCHANGED <<log, accepted>>
  BY DEF SetFeederNew, NewQueue, Quiet, thread
<1> DEFINE k == Len(m_inQueues) + 1
<1>2. /\ m_inQueues \in Seq(Seq(Message)) /\ Len(m_inQueues) \in Nat
  BY <1>0, QueueFacts DEF Inv, TypeOK
<1>3. /\ DOMAIN m_inQueues' = DOMAIN m_inQueues \cup {k} /\ k \notin DOMAIN m_inQueues
      /\ m_inQueues'[k] = <<>>
      /\ \A r \in DOMAIN m_inQueues : m_inQueues'[r] = m_inQueues[r]
  BY <1>1, <1>2, OneMoreQueue
<1>4. /\ DOMAIN WaitingAll' = DOMAIN WaitingAll \cup {k} /\ k \notin DOMAIN WaitingAll
      /\ WaitingAll'[k] = <<>>
      /\ \A r \in DOMAIN WaitingAll : WaitingAll'[r] = WaitingAll[r]
  BY <1>1, <1>3 DEF WaitingAll, Waiting, Locked
<1>5. Once(accepted, log, WaitingAll')
  BY <1>0, <1>4, OnceMore
<1> QED  BY <1>1, <1>5

\* reset() forgets messages, queues and order together.
LEMMA OnceReset ==
  ASSUME Reset
  PROVE  Numbered' /\ Once(accepted, log, WaitingAll)'
<1>1. /\ accepted' = {} /\ log' = <<>> /\ DOMAIN WaitingAll' = {} /\ DOMAIN log' = {}
  BY DEF Reset, WaitingAll
<1> QED  BY <1>1 DEF Once, Numbered

-----------------------------------------------------------------------------
\* Steps that change neither an input queue nor what has been accepted or taken, and
\* neither begin nor end a copy.
Elsewhere ==
  \/ \E f \in Feeders : SetFeederReuse(f) \/ PushUnknown(f)
  \/ \E f \in Removable : RemFeeder(f)
  \/ \E c \in Consumers : SetConsumerNew(c) \/ SetConsumerReuse(c) \/ PopCheck(c) \/ PopMove(c)
  \/ RunCall \/ RunEnter \/ Stop \/ ScanBegin \/ ManageMap
  \/ CheckSkip \/ CheckHit \/ CheckEnd \/ CopyTo \/ LoopTest
  \/ UNCHANGED vars

\* The other operations leave alone what Once speaks of.
LEMMA OnceElsewhere ==
  ASSUME OnceInv, Elsewhere
  PROVE  Numbered' /\ Once(accepted, log, WaitingAll)'
<1>0. /\ Numbered /\ Once(accepted, log, WaitingAll)
      /\ attempts \in [Feeders -> Nat] /\ accepted \subseteq Message
  BY DEF OnceInv, Inv, TypeOK
<1>1. UNCHANGED <<m_inQueues, accepted, log>>
  BY DEF Elsewhere, SetFeederReuse, PushUnknown, RemFeeder, SetConsumerNew,
         SetConsumerReuse, PopCheck, PopMove, RunCall, RunEnter, Stop, ScanBegin, ManageMap,
         CheckSkip, CheckHit, CheckEnd, CopyTo, LoopTest, vars, data
<1>2. \/ UNCHANGED <<pc, it>>
      \/ pc # "copy" /\ pc' # "copy"
  BY DEF Elsewhere, SetFeederReuse, PushUnknown, RemFeeder, SetConsumerNew,
         SetConsumerReuse, PopCheck, PopMove, RunCall, RunEnter, Stop, ScanBegin, ManageMap,
         CheckSkip, CheckHit, CheckEnd, CopyTo, LoopTest, AfterTest, vars, thread
<1>3. \A q \in DOMAIN m_inQueues : Locked(q)' <=> Locked(q)
  BY <1>2 DEF Locked
<1>4. \/ attempts' = attempts
      \/ \E f \in Feeders : attempts' = [attempts EXCEPT ![f] = @ + 1]
  BY DEF Elsewhere, SetFeederReuse, PushUnknown, RemFeeder, SetConsumerNew,
         SetConsumerReuse, PopCheck, PopMove, RunCall, RunEnter, Stop, ScanBegin, ManageMap,
         CheckSkip, CheckHit, CheckEnd, CopyTo, LoopTest, vars, data
<1>5. Numbered'
  <2>1. \A x \in accepted : x.from \in Feeders /\ x.n \in Nat /\ attempts[x.from] \in Nat
    BY <1>0 DEF Message
  <2>2. \A g \in Feeders : attempts[g] <= attempts'[g] /\ attempts'[g] \in Nat
    BY <1>0, <1>4
  <2> QED  BY <1>0, <1>1, <2>1, <2>2 DEF Numbered
<1> QED  BY <1>0, <1>1, <1>3, <1>5, OnceAside

\* Every step of the data manager keeps the invariant.
LEMMA OnceNext == OnceInv /\ [Next]_vars => OnceInv'
<1> SUFFICES ASSUME OnceInv, [Next]_vars PROVE OnceInv'
  OBVIOUS
<1>1. Inv'
  BY NextInv DEF OnceInv
<1>2. ASSUME UNCHANGED <<attempts, accepted>> PROVE Numbered'
  BY <1>2 DEF OnceInv, Numbered
<1>3. CASE Elsewhere
  BY <1>1, <1>3, OnceElsewhere DEF OnceInv
<1>4. CASE \E f \in Feeders : SetFeederNew(f)
  <2>1. UNCHANGED <<attempts, accepted>>
    BY <1>4 DEF SetFeederNew
  <2> QED  BY <1>1, <1>2, <1>4, <2>1, OnceSetFeederNew DEF OnceInv
<1>5. CASE \E f \in Feeders : Push(f)
  BY <1>1, <1>5, OncePush DEF OnceInv
<1>6. CASE CopyLock
  <2>1. UNCHANGED <<attempts, accepted>>
    BY <1>6 DEF CopyLock
  <2> QED  BY <1>1, <1>2, <1>6, <2>1, OnceCopyLock DEF OnceInv
<1>7. CASE CopyDone
  <2>1. UNCHANGED <<attempts, accepted>>
    BY <1>7 DEF CopyDone
  <2> QED  BY <1>1, <1>2, <1>7, <2>1, OnceCopyDone DEF OnceInv
<1>8. CASE Reset
  BY <1>1, <1>8, OnceReset DEF OnceInv
<1> QED  BY <1>3, <1>4, <1>5, <1>6, <1>7, <1>8
         DEF Next, Register, Feed, Consume, RunStep, Elsewhere

\* No message is lost or repeated between push and the order of broadcast: one that was
\* accepted is in one input queue once, or in the order once, whatever pushes come
\* between the tests, the copies and the clearing of manageBroadcast and Q::copy.
THEOREM NothingLostNothingTwice == Spec => []ExactlyOnce
<1>1. OnceInv => ExactlyOnce
  BY OnceIsExactlyOnce DEF OnceInv
<1>2. Spec => []OnceInv
  BY OnceInit, OnceNext, PTL DEF Spec
<1> QED  BY <1>1, <1>2, PTL
=============================================================================
