------------------------- MODULE DataManagerProofs -------------------------
(***************************************************************************)
(* Proofs about the data manager, for any sets of feeders and consumers,   *)
(* any limits and any number of messages.                                  *)
(*                                                                         *)
(* The properties lean on one another: the positions of the registry are   *)
(* sound because the vectors are as long as the maps, a stream stays in    *)
(* one piece because nobody else pops the queue and because the batch      *)
(* Q::copy holds is the end of log.  They are proved as one inductive      *)
(* invariant, Inv.                                                         *)
(***************************************************************************)
EXTENDS DataManager, FiniteSetTheorems, SequenceTheorems, TLAPS

\* The one-line operators the actions are written with.
USE DEF NewPosition, NewQueue, PushBack, Cleared, MoreQueues, HasWork, MoreOutputs, AfterTest

\* The vectors are at least (outputs: exactly) as long as the maps are big.
RegistrySize ==
  /\ IsFiniteSet(DOMAIN m_inQueuesIds) /\ IsFiniteSet(DOMAIN m_outQueuesIds)
  /\ Cardinality(DOMAIN m_inQueuesIds) <= Len(m_inQueues)
  /\ Cardinality(DOMAIN m_outQueuesIds) = Len(m_outQueues)

\* How much of log was there before the copy under way.
Before == IF pc = "copy" THEN Len(log) - Len(m_inQueues[it]) ELSE Len(log)

\* While Q::copy is at work, the queue it copies is the end of log.
BatchEndsLog ==
  pc = "copy" =>
    /\ dst \in 1 .. Len(m_outQueues) + 1
    /\ Before \in 0 .. Len(log)
    /\ SubSeq(log, Before + 1, Len(log)) = m_inQueues[it]

\* A stream starts at a place that the copy under way has not reached.
StreamsStart == \A c \in DOMAIN m_outQueuesIds : joined[c] <= Before

Inv ==
  /\ TypeOK /\ RegistrySound /\ RegistrySize /\ ChecksStillHold
  /\ BatchEndsLog /\ StreamsStart /\ TotalOrder

-----------------------------------------------------------------------------
(* Lemmas about sequences.                                                 *)

\* Pieces of a sequence do not change when the sequence grows.
LEMMA PieceOfLonger ==
  ASSUME NEW S, NEW l \in Seq(S), NEW x \in Seq(S), NEW j \in Nat
  PROVE  /\ SubSeq(l \o x, j + 1, Len(l)) = SubSeq(l, j + 1, Len(l))
         /\ SubSeq(l \o x, Len(l) + 1, Len(l \o x)) = x
         /\ Len(l \o x) = Len(l) + Len(x)
<1>1. /\ Len(l) \in Nat /\ Len(x) \in Nat
      /\ l \in [1 .. Len(l) -> S] /\ x \in [1 .. Len(x) -> S]
      /\ l \o x \in Seq(S) /\ Len(l \o x) = Len(l) + Len(x)
      /\ \A i \in 1 .. Len(l) + Len(x) :
           (l \o x)[i] = IF i <= Len(l) THEN l[i] ELSE x[i - Len(l)]
  BY LenProperties, ConcatProperties
<1>2. SubSeq(l \o x, j + 1, Len(l)) = SubSeq(l, j + 1, Len(l))
  <2>1. CASE j >= Len(l)
    BY <1>1, <2>1, SubSeqEmpty
  <2>2. CASE j < Len(l)
    BY <1>1, <2>2, SubSeqOfConcat1
  <2> QED  BY <1>1, <2>1, <2>2
<1>3. LET e == SubSeq(l \o x, Len(l) + 1, Len(l) + Len(x))
      IN  e \in Seq(S) /\ Len(e) = Len(x) /\ \A i \in 1 .. Len(x) : e[i] = x[i]
  BY <1>1, SubSeqProperties
<1>4. SubSeq(l \o x, Len(l) + 1, Len(l) + Len(x)) = x
  BY <1>1, <1>3, SeqEqual
<1> QED  BY <1>1, <1>2, <1>4

\* The elements of the second of two sequences in their concatenation.
LEMMA ElementsOfConcat ==
  ASSUME NEW S, NEW a \in Seq(S), NEW b \in Seq(S)
  PROVE  /\ Len(a) \in Nat /\ Len(b) \in Nat /\ Len(a \o b) = Len(a) + Len(b)
         /\ \A i \in 1 .. Len(b) : (a \o b)[Len(a) + i] = b[i]
<1>1. Len(a) \in Nat /\ Len(b) \in Nat
  BY LenProperties
<1>2. ASSUME NEW i \in 1 .. Len(b) PROVE (a \o b)[Len(a) + i] = b[i]
  BY <1>1, ConcatProperties
<1> QED  BY <1>1, <1>2, ConcatProperties

\* The end of a piece of a sequence is a piece, too.
LEMMA EndOfPiece ==
  ASSUME NEW S, NEW l \in Seq(S), NEW j \in Nat, NEW n \in 0 .. Len(l), j <= n,
         NEW a \in Seq(S), NEW b \in Seq(S)
  PROVE  a \o b = SubSeq(l, j + 1, n) =>
           /\ Len(a) + Len(b) = n - j
           /\ n - Len(b) \in j .. n
           /\ b = SubSeq(l, (n - Len(b)) + 1, n)
<1> DEFINE c == a \o b
           d == SubSeq(l, j + 1, n)
           e == SubSeq(l, (n - Len(b)) + 1, n)
<1>1. /\ Len(l) \in Nat /\ l \in [1 .. Len(l) -> S]
  BY LenProperties
<1>2. Len(d) = n - j
  BY <1>1, SubSeqProperties
<1>3. \A i \in 1 .. n - j : d[i] = l[j + i]
  BY <1>1, SubSeqProperties
<1>4. /\ Len(a) \in Nat /\ Len(b) \in Nat /\ Len(c) = Len(a) + Len(b)
      /\ \A i \in 1 .. Len(b) : c[Len(a) + i] = b[i]
  BY ElementsOfConcat
<1>5. Len(b) <= n - j => e \in Seq(S) /\ Len(e) = Len(b)
  BY <1>1, <1>4, SubSeqProperties
<1>6. Len(b) <= n - j => \A i \in 1 .. Len(b) : e[i] = l[(n - Len(b)) + i]
  BY <1>1, <1>4, SubSeqProperties
<1> HIDE DEF c, d, e
<1> SUFFICES ASSUME c = d
             PROVE  /\ Len(a) + Len(b) = n - j
                    /\ n - Len(b) \in j .. n
                    /\ b = e
  BY DEF c, d, e
<1>7. /\ Len(a) + Len(b) = n - j
      /\ n - Len(b) \in j .. n
      /\ Len(b) <= n - j
  BY <1>1, <1>2, <1>4
<1>8. ASSUME NEW i \in 1 .. Len(b) PROVE b[i] = e[i]
  <2>0. n \in Nat /\ Len(a) \in Nat /\ Len(b) \in Nat /\ Len(a) + Len(b) = n - j
    BY <1>1, <1>4, <1>7
  <2>1. Len(a) + i \in 1 .. n - j /\ j + (Len(a) + i) = (n - Len(b)) + i
    BY <2>0, SMTT(30)
  <2> QED  BY <1>3, <1>4, <1>6, <1>7, <2>1
<1>9. b = e
  BY <1>4, <1>5, <1>7, <1>8, SeqEqual
<1> QED  BY <1>7, <1>9

-----------------------------------------------------------------------------
(* Lemmas about the maps of the registry.                                  *)

\* A name takes over the position of "empty" in a map that is full.
LEMMA RebindFacts ==
  ASSUME NEW f, NEW V, f \in [DOMAIN f -> V], IsFiniteSet(DOMAIN f),
         NEW k, k \notin DOMAIN f, "empty" \in DOMAIN f
  PROVE  LET g == Unbind(Bind(f, k, f["empty"]), "empty") IN
         /\ DOMAIN g = (DOMAIN f \cup {k}) \ {"empty"}
         /\ g \in [DOMAIN g -> V]
         /\ g[k] = f["empty"]
         /\ \A x \in DOMAIN f \ {"empty"} : g[x] = f[x]
         /\ Range(g) \subseteq Range(f)
         /\ IsInjective(f) => IsInjective(g)
         /\ IsFiniteSet(DOMAIN g) /\ Cardinality(DOMAIN g) = Cardinality(DOMAIN f)
<1> DEFINE b == Bind(f, k, f["empty"])
           g == Unbind(b, "empty")
<1>1. f["empty"] \in V
  OBVIOUS
<1>2. /\ DOMAIN b = DOMAIN f \cup {k} /\ b \in [DOMAIN b -> V]
      /\ b[k] = f["empty"] /\ \A x \in DOMAIN f : b[x] = f[x]
  BY <1>1 DEF Bind
<1> HIDE DEF b
<1>3. /\ DOMAIN g = (DOMAIN f \cup {k}) \ {"empty"}
      /\ g \in [DOMAIN g -> V]
      /\ g[k] = f["empty"]
      /\ \A x \in DOMAIN f \ {"empty"} : g[x] = f[x]
  BY <1>2 DEF Unbind, Restrict
<1> HIDE DEF g
<1>4. Range(g) \subseteq Range(f)
  BY <1>3 DEF Range
<1>5. IsInjective(f) => IsInjective(g)
  BY <1>3 DEF IsInjective
<1>6. IsFiniteSet(DOMAIN g) /\ Cardinality(DOMAIN g) = Cardinality(DOMAIN f)
  <2>1. /\ IsFiniteSet(DOMAIN f \cup {k})
        /\ Cardinality(DOMAIN f \cup {k}) = Cardinality(DOMAIN f) + 1
        /\ Cardinality(DOMAIN f) \in Nat
    BY FS_AddElement, FS_CardinalityType
  <2>2. /\ IsFiniteSet((DOMAIN f \cup {k}) \ {"empty"})
        /\ Cardinality((DOMAIN f \cup {k}) \ {"empty"}) = Cardinality(DOMAIN f \cup {k}) - 1
    BY <2>1, FS_RemoveElement
  <2> QED  BY <1>3, <2>1, <2>2
<1> QED  BY <1>3, <1>4, <1>5, <1>6 DEF g, b

-----------------------------------------------------------------------------
(* The vectors of queues.                                                  *)

\* emplace_back of a queue.
LEMMA OneMoreQueue ==
  ASSUME NEW S, NEW v \in Seq(Seq(S))
  PROVE  LET w == Append(v, <<>>) IN
         /\ w \in Seq(Seq(S)) /\ Len(w) = Len(v) + 1 /\ Len(v) \in Nat
         /\ DOMAIN w = 1 .. Len(v) + 1 /\ DOMAIN v = 1 .. Len(v)
         /\ w[Len(v) + 1] = <<>>
         /\ \A i \in DOMAIN v : w[i] = v[i]
<1>1. <<>> \in Seq(S)
  BY EmptySeq
<1>2. Append(v, <<>>) \in Seq(Seq(S))
  BY <1>1, AppendProperties
<1> QED  BY <1>1, <1>2, AppendProperties, LenProperties

\* A queue of a vector gets other contents.
LEMMA ChangeQueue ==
  ASSUME NEW S, NEW v \in Seq(Seq(S)), NEW q \in DOMAIN v, NEW s \in Seq(S)
  PROVE  LET w == [v EXCEPT ![q] = s] IN
         /\ w \in Seq(Seq(S)) /\ Len(w) = Len(v) /\ Len(v) \in Nat
         /\ DOMAIN w = DOMAIN v /\ DOMAIN v = 1 .. Len(v)
         /\ w[q] = s
         /\ \A i \in DOMAIN v : i # q => w[i] = v[i]
<1>1. DOMAIN v = 1 .. Len(v) /\ Len(v) \in Nat
  BY LenProperties
<1> QED  BY <1>1, ExceptSeq

-----------------------------------------------------------------------------
(* Inv holds initially and after every step, action by action.             *)

\* Without queues and names the invariant holds.
LEMMA InitInv == Init => Inv
<1> SUFFICES ASSUME Init PROVE Inv
  OBVIOUS
<1>1. TypeOK
  BY DEF Init, TypeOK, NoIds
<1>2. DOMAIN m_inQueuesIds = {} /\ DOMAIN m_outQueuesIds = {}
  BY DEF Init, NoIds
<1>3. RegistrySound /\ RegistrySize
  BY <1>2, FS_EmptySet DEF Init, RegistrySound, RegistrySize, Range, IsInjective
<1>4. ChecksStillHold /\ BatchEndsLog
  BY DEF Init, ChecksStillHold, BatchEndsLog
<1>5. StreamsStart /\ TotalOrder
  BY <1>2 DEF StreamsStart, TotalOrder
<1> QED  BY <1>1, <1>3, <1>4, <1>5 DEF Inv

\* What a registration leaves alone: nothing is being copied or popped.
LEMMA QuietStep ==
  ASSUME Inv, Quiet, UNCHANGED <<thread, popPc>>
  PROVE  /\ pc = "idle" /\ pc' = "idle"
         /\ ChecksStillHold' /\ BatchEndsLog'
         /\ Before = Len(log) /\ Before' = Len(log')
         /\ \A q : Reached(q) = Len(log) /\ Reached(q)' = Len(log')
<1>1. pc = "idle" /\ pc' = "idle" /\ popPc' = popPc /\ \A c \in Consumers : popPc[c] = "out"
  BY DEF Quiet, thread
<1> QED  BY <1>1 DEF ChecksStillHold, BatchEndsLog, Before, Reached

\* setFeeder adds a queue at the end and a name for a position there is.
LEMMA SetFeederNewInv ==
  ASSUME Inv, NEW f \in Feeders, SetFeederNew(f)
  PROVE  Inv'
<1> USE DEF Inv
<1> DEFINE k == Cardinality(DOMAIN m_inQueuesIds) + 1
<1>1. /\ Quiet /\ f \notin DOMAIN m_inQueuesIds
      /\ m_inQueuesIds' = Bind(m_inQueuesIds, f, k)
      /\ m_inQueues' = Append(m_inQueues, <<>>)
      /\ UNCHANGED <<m_mode, m_outQueues, m_outQueuesIds, thread, popPc,
                     attempts, accepted, log, rx, joined>>
  BY DEF SetFeederNew
<1>2. k \in Nat \ {0} /\ k <= Len(m_inQueues) + 1 /\ Len(m_inQueues) \in Nat
  BY FS_CardinalityType, LenProperties DEF RegistrySize, TypeOK
<1>3. /\ m_inQueues' \in Seq(Seq(Message)) /\ Len(m_inQueues') = Len(m_inQueues) + 1
      /\ DOMAIN m_inQueues' = 1 .. Len(m_inQueues) + 1
      /\ DOMAIN m_inQueues = 1 .. Len(m_inQueues)
  BY <1>1, OneMoreQueue DEF TypeOK
<1>4. /\ DOMAIN m_inQueuesIds' = DOMAIN m_inQueuesIds \cup {f}
      /\ m_inQueuesIds' \in [DOMAIN m_inQueuesIds' -> Nat \ {0}]
      /\ m_inQueuesIds'[f] = k
      /\ \A x \in DOMAIN m_inQueuesIds : m_inQueuesIds'[x] = m_inQueuesIds[x]
  BY <1>1, <1>2 DEF TypeOK, Bind
<1>5. TypeOK'
  BY <1>1, <1>3, <1>4 DEF TypeOK, thread
<1>6. RegistrySound'
  <2>1. \A x \in DOMAIN m_inQueuesIds : m_inQueuesIds[x] \in 1 .. Len(m_inQueues)
    BY <1>3 DEF RegistrySound, Range
  <2>2. \A x \in DOMAIN m_inQueuesIds' : m_inQueuesIds'[x] \in 1 .. Len(m_inQueues) + 1
    BY <1>2, <1>4, <2>1
  <2>3. Range(m_inQueuesIds') \subseteq DOMAIN m_inQueues'
    BY <1>3, <2>2 DEF Range
  <2> QED  BY <1>1, <2>3 DEF RegistrySound
<1>7. RegistrySize'
  <2>1. /\ IsFiniteSet(DOMAIN m_inQueuesIds')
        /\ Cardinality(DOMAIN m_inQueuesIds') = k
    BY <1>1, <1>4, FS_AddElement DEF RegistrySize
  <2> QED  BY <1>1, <1>2, <1>3, <2>1 DEF RegistrySize
<1>8. ChecksStillHold' /\ BatchEndsLog' /\ StreamsStart' /\ TotalOrder'
  BY <1>1, QuietStep DEF StreamsStart, TotalOrder
<1> QED  BY <1>5, <1>6, <1>7, <1>8

\* setFeeder on a full map hands the queue of "empty" to another name.
LEMMA SetFeederReuseInv ==
  ASSUME Inv, NEW f \in Feeders, SetFeederReuse(f)
  PROVE  Inv'
<1> USE DEF Inv
<1>1. /\ Quiet /\ f \notin DOMAIN m_inQueuesIds /\ "empty" \in DOMAIN m_inQueuesIds
      /\ m_inQueuesIds' = Unbind(Bind(m_inQueuesIds, f, m_inQueuesIds["empty"]), "empty")
      /\ UNCHANGED <<m_mode, m_inQueues, m_outQueues, m_outQueuesIds, thread, popPc,
                     attempts, accepted, log, rx, joined>>
  BY DEF SetFeederReuse
<1>2. /\ DOMAIN m_inQueuesIds' = (DOMAIN m_inQueuesIds \cup {f}) \ {"empty"}
      /\ m_inQueuesIds' \in [DOMAIN m_inQueuesIds' -> Nat \ {0}]
      /\ Range(m_inQueuesIds') \subseteq Range(m_inQueuesIds)
      /\ IsFiniteSet(DOMAIN m_inQueuesIds')
      /\ Cardinality(DOMAIN m_inQueuesIds') = Cardinality(DOMAIN m_inQueuesIds)
  BY <1>1, RebindFacts DEF TypeOK, RegistrySize
<1>3. TypeOK'
  BY <1>1, <1>2 DEF TypeOK, thread
<1>4. RegistrySound' /\ RegistrySize'
  BY <1>1, <1>2 DEF RegistrySound, RegistrySize
<1>5. ChecksStillHold' /\ BatchEndsLog' /\ StreamsStart' /\ TotalOrder'
  BY <1>1, QuietStep DEF StreamsStart, TotalOrder
<1> QED  BY <1>3, <1>4, <1>5

\* remFeeder takes a name away and leaves the queues alone.
LEMMA RemFeederInv ==
  ASSUME Inv, NEW f \in Removable, RemFeeder(f)
  PROVE  Inv'
<1> USE DEF Inv
<1>1. /\ Quiet /\ f \in DOMAIN m_inQueuesIds
      /\ m_inQueuesIds' = Unbind(m_inQueuesIds, f)
      /\ UNCHANGED <<m_mode, m_inQueues, m_outQueues, m_outQueuesIds, thread, popPc,
                     attempts, accepted, log, rx, joined>>
  BY DEF RemFeeder
<1>2. /\ DOMAIN m_inQueuesIds' = DOMAIN m_inQueuesIds \ {f}
      /\ m_inQueuesIds' \in [DOMAIN m_inQueuesIds' -> Nat \ {0}]
      /\ \A x \in DOMAIN m_inQueuesIds' : m_inQueuesIds'[x] = m_inQueuesIds[x]
  BY <1>1 DEF TypeOK, Unbind, Restrict
<1>3. TypeOK'
  BY <1>1, <1>2 DEF TypeOK, thread
<1>4. RegistrySound'
  BY <1>1, <1>2 DEF RegistrySound, Range
<1>5. RegistrySize'
  <2>1. /\ IsFiniteSet(DOMAIN m_inQueuesIds')
        /\ Cardinality(DOMAIN m_inQueuesIds') = Cardinality(DOMAIN m_inQueuesIds) - 1
        /\ Cardinality(DOMAIN m_inQueuesIds) \in Nat /\ Len(m_inQueues) \in Nat
    BY <1>1, <1>2, FS_RemoveElement, FS_CardinalityType, LenProperties
       DEF RegistrySize, TypeOK
  <2> QED  BY <1>1, <2>1 DEF RegistrySize
<1>6. ChecksStillHold' /\ BatchEndsLog' /\ StreamsStart' /\ TotalOrder'
  BY <1>1, QuietStep DEF StreamsStart, TotalOrder
<1> QED  BY <1>3, <1>4, <1>5, <1>6

\* A new output queue starts empty, and the stream of its consumer with it.
LEMMA SetConsumerNewInv ==
  ASSUME Inv, NEW c \in Consumers, SetConsumerNew(c)
  PROVE  Inv'
<1> USE DEF Inv
<1> DEFINE k == Cardinality(DOMAIN m_outQueuesIds) + 1
<1>1. /\ Quiet /\ c \notin DOMAIN m_outQueuesIds
      /\ m_outQueuesIds' = Bind(m_outQueuesIds, c, k)
      /\ m_outQueues' = Append(m_outQueues, <<>>)
      /\ joined' = [joined EXCEPT ![c] = Len(log) - Len(<<>>)]
      /\ rx' = [rx EXCEPT ![c] = <<>>]
      /\ UNCHANGED <<m_mode, m_inQueues, m_inQueuesIds, thread, popPc,
                     attempts, accepted, log>>
  BY DEF SetConsumerNew, Join
<1>2. k \in Nat \ {0} /\ k = Len(m_outQueues) + 1 /\ Len(m_outQueues) \in Nat
      /\ Len(log) \in Nat
  BY FS_CardinalityType, LenProperties DEF RegistrySize, TypeOK
<1>3. /\ m_outQueues' \in Seq(Seq(Message)) /\ Len(m_outQueues') = Len(m_outQueues) + 1
      /\ DOMAIN m_outQueues' = 1 .. Len(m_outQueues) + 1
      /\ DOMAIN m_outQueues = 1 .. Len(m_outQueues)
      /\ m_outQueues'[k] = <<>>
      /\ \A i \in DOMAIN m_outQueues : m_outQueues'[i] = m_outQueues[i]
  BY <1>1, <1>2, OneMoreQueue DEF TypeOK
<1>4. /\ DOMAIN m_outQueuesIds' = DOMAIN m_outQueuesIds \cup {c}
      /\ m_outQueuesIds' \in [DOMAIN m_outQueuesIds' -> Nat \ {0}]
      /\ m_outQueuesIds'[c] = k
      /\ \A x \in DOMAIN m_outQueuesIds : m_outQueuesIds'[x] = m_outQueuesIds[x]
  BY <1>1, <1>2 DEF TypeOK, Bind
<1>5. /\ joined'[c] = Len(log) /\ joined' \in [Consumers -> Nat]
      /\ rx'[c] = <<>> /\ rx' \in [Consumers -> Seq(Message)]
      /\ \A x \in DOMAIN m_outQueuesIds : joined'[x] = joined[x] /\ rx'[x] = rx[x]
  <2>1. Len(log) - Len(<<>>) = Len(log) /\ <<>> \in Seq(Message)
    BY <1>2
  <2> QED  BY <1>1, <1>2, <2>1 DEF TypeOK
<1>6. TypeOK'
  BY <1>1, <1>3, <1>4, <1>5 DEF TypeOK, thread
<1>7. \A x \in DOMAIN m_outQueuesIds : m_outQueuesIds[x] \in 1 .. Len(m_outQueues)
  BY <1>3 DEF RegistrySound, Range
<1>8. RegistrySound'
  <2>1. \A x \in DOMAIN m_outQueuesIds' : m_outQueuesIds'[x] \in 1 .. Len(m_outQueues) + 1
    BY <1>2, <1>4, <1>7
  <2>2. Range(m_outQueuesIds') \subseteq DOMAIN m_outQueues'
    BY <1>3, <2>1 DEF Range
  <2>3. IsInjective(m_outQueuesIds')
    BY <1>2, <1>4, <1>7 DEF RegistrySound, IsInjective
  <2> QED  BY <1>1, <2>2, <2>3 DEF RegistrySound
<1>9. RegistrySize'
  <2>1. /\ IsFiniteSet(DOMAIN m_outQueuesIds')
        /\ Cardinality(DOMAIN m_outQueuesIds') = k
    BY <1>1, <1>4, FS_AddElement DEF RegistrySize
  <2> QED  BY <1>1, <1>2, <1>3, <2>1 DEF RegistrySize
<1>10. /\ ChecksStillHold' /\ BatchEndsLog'
       /\ Before = Len(log) /\ Before' = Len(log)
       /\ \A q : Reached(q) = Len(log) /\ Reached(q)' = Len(log)
  BY <1>1, QuietStep
<1>11. StreamsStart'
  <2>1. \A x \in DOMAIN m_outQueuesIds : joined'[x] <= Len(log)
    BY <1>5, <1>10 DEF StreamsStart
  <2>2. joined'[c] <= Len(log)
    BY <1>2, <1>5
  <2> QED  BY <1>4, <1>10, <2>1, <2>2 DEF StreamsStart
<1>12. TotalOrder'
  <2>1. rx'[c] \o m_outQueues'[k] = SubSeq(log, joined'[c] + 1, Len(log))
    <3>1. SubSeq(log, Len(log) + 1, Len(log)) = <<>>
      BY <1>2, SubSeqEmpty
    <3> QED  BY <1>3, <1>5, <3>1
  <2>2. ASSUME NEW x \in DOMAIN m_outQueuesIds
        PROVE  rx'[x] \o m_outQueues'[m_outQueuesIds'[x]]
                 = SubSeq(log, joined'[x] + 1, Len(log))
    BY <1>3, <1>4, <1>5, <1>7, <1>10 DEF TotalOrder
  <2> QED  BY <1>1, <1>4, <1>10, <2>1, <2>2 DEF TotalOrder
<1> QED  BY <1>6, <1>8, <1>9, <1>10, <1>11, <1>12

\* A consumer that takes over the queue of "empty" starts with what is in it, which
\* is the end of log.
LEMMA SetConsumerReuseInv ==
  ASSUME Inv, NEW c \in Consumers, SetConsumerReuse(c)
  PROVE  Inv'
<1> USE DEF Inv
<1> DEFINE e == m_outQueuesIds["empty"]
           held == m_outQueues[e]
<1>1. /\ Quiet /\ c \notin DOMAIN m_outQueuesIds /\ "empty" \in DOMAIN m_outQueuesIds
      /\ m_outQueuesIds' = Unbind(Bind(m_outQueuesIds, c, e), "empty")
      /\ joined' = [joined EXCEPT ![c] = Len(log) - Len(held)]
      /\ rx' = [rx EXCEPT ![c] = <<>>]
      /\ UNCHANGED <<m_mode, m_inQueues, m_outQueues, m_inQueuesIds, thread, popPc,
                     attempts, accepted, log>>
  BY DEF SetConsumerReuse, Join
<1>2. /\ DOMAIN m_outQueuesIds' = (DOMAIN m_outQueuesIds \cup {c}) \ {"empty"}
      /\ m_outQueuesIds' \in [DOMAIN m_outQueuesIds' -> Nat \ {0}]
      /\ m_outQueuesIds'[c] = e
      /\ \A x \in DOMAIN m_outQueuesIds \ {"empty"} : m_outQueuesIds'[x] = m_outQueuesIds[x]
      /\ Range(m_outQueuesIds') \subseteq Range(m_outQueuesIds)
      /\ IsInjective(m_outQueuesIds) => IsInjective(m_outQueuesIds')
      /\ IsFiniteSet(DOMAIN m_outQueuesIds')
      /\ Cardinality(DOMAIN m_outQueuesIds') = Cardinality(DOMAIN m_outQueuesIds)
  <2> DEFINE g == Unbind(Bind(m_outQueuesIds, c, m_outQueuesIds["empty"]), "empty")
  <2>1. /\ DOMAIN g = (DOMAIN m_outQueuesIds \cup {c}) \ {"empty"}
        /\ g \in [DOMAIN g -> Nat \ {0}]
        /\ g[c] = m_outQueuesIds["empty"]
        /\ \A x \in DOMAIN m_outQueuesIds \ {"empty"} : g[x] = m_outQueuesIds[x]
        /\ Range(g) \subseteq Range(m_outQueuesIds)
        /\ IsInjective(m_outQueuesIds) => IsInjective(g)
        /\ IsFiniteSet(DOMAIN g)
        /\ Cardinality(DOMAIN g) = Cardinality(DOMAIN m_outQueuesIds)
    <3>1. /\ m_outQueuesIds \in [DOMAIN m_outQueuesIds -> Nat \ {0}]
          /\ IsFiniteSet(DOMAIN m_outQueuesIds)
      BY DEF TypeOK, RegistrySize
    <3> QED  BY <1>1, <3>1, RebindFacts
  <2> HIDE DEF g
  <2>2. m_outQueuesIds' = g
    BY <1>1 DEF g
  <2> QED  BY <2>1, <2>2
<1>3. RegistrySound' /\ RegistrySize'
  BY <1>1, <1>2 DEF RegistrySound, RegistrySize
<1>4. /\ ChecksStillHold' /\ BatchEndsLog'
      /\ Before = Len(log) /\ Before' = Len(log)
      /\ \A q : Reached(q) = Len(log) /\ Reached(q)' = Len(log)
  BY <1>1, QuietStep
<1>5. /\ log \in Seq(Message) /\ Len(log) \in Nat
      /\ rx["empty"] \in Seq(Message) /\ held \in Seq(Message)
      /\ joined["empty"] \in Nat /\ joined["empty"] <= Len(log)
  <2>1. e \in DOMAIN m_outQueues
    BY <1>1 DEF RegistrySound, Range
  <2>2. held \in Seq(Message)
    BY <2>1, ElementOfSeq, LenProperties DEF TypeOK
  <2> QED  BY <1>1, <1>4, <2>2, LenProperties DEF TypeOK, StreamsStart
<1>6. rx["empty"] \o held = SubSeq(log, joined["empty"] + 1, Len(log))
  BY <1>1, <1>4 DEF TotalOrder
<1> HIDE DEF held
<1>7. /\ Len(log) - Len(held) \in 0 .. Len(log)
      /\ held = SubSeq(log, (Len(log) - Len(held)) + 1, Len(log))
  <2>1. /\ Len(log) - Len(held) \in joined["empty"] .. Len(log)
        /\ held = SubSeq(log, (Len(log) - Len(held)) + 1, Len(log))
    <3> DEFINE a == rx["empty"]
               j == joined["empty"]
               n == Len(log)
    <3>1. /\ log \in Seq(Message) /\ a \in Seq(Message) /\ held \in Seq(Message)
          /\ j \in Nat /\ n \in 0 .. Len(log) /\ j <= n
          /\ a \o held = SubSeq(log, j + 1, n)
      BY <1>5, <1>6
    <3> HIDE DEF a, j, n
    <3>2. n - Len(held) \in j .. n /\ held = SubSeq(log, (n - Len(held)) + 1, n)
      BY <3>1, EndOfPiece, SMTT(30)
    <3> QED  BY <3>2 DEF j, n
  <2> QED  BY <1>5, <2>1
<1>8. /\ joined'[c] = Len(log) - Len(held) /\ joined' \in [Consumers -> Nat]
      /\ rx'[c] = <<>> /\ rx' \in [Consumers -> Seq(Message)]
      /\ \A x \in DOMAIN m_outQueuesIds : joined'[x] = joined[x] /\ rx'[x] = rx[x]
  <2>1. <<>> \in Seq(Message)
    BY EmptySeq
  <2> QED  BY <1>1, <1>5, <1>7, <2>1, SMTT(30) DEF TypeOK
<1>9. TypeOK'
  BY <1>1, <1>2, <1>8 DEF TypeOK, thread
<1>10. StreamsStart'
  <2>1. \A x \in DOMAIN m_outQueuesIds : joined'[x] <= Len(log)
    BY <1>4, <1>8 DEF StreamsStart
  <2>2. joined'[c] <= Len(log)
    BY <1>5, <1>7, <1>8
  <2> QED  BY <1>2, <1>4, <2>1, <2>2 DEF StreamsStart
<1>11. TotalOrder'
  <2>1. rx'[c] \o m_outQueues'[m_outQueuesIds'[c]] = SubSeq(log, joined'[c] + 1, Len(log))
    <3>1. <<>> \o held = held
      BY <1>5, ConcatEmptySeq
    <3> QED  BY <1>1, <1>2, <1>7, <1>8, <3>1 DEF held
  <2>2. ASSUME NEW x \in DOMAIN m_outQueuesIds \ {"empty"}
        PROVE  rx'[x] \o m_outQueues'[m_outQueuesIds'[x]]
                 = SubSeq(log, joined'[x] + 1, Len(log))
    BY <1>1, <1>2, <1>4, <1>8 DEF TotalOrder
  <2> QED  BY <1>1, <1>2, <1>4, <2>1, <2>2 DEF TotalOrder
<1> QED  BY <1>3, <1>4, <1>9, <1>10, <1>11

\* reset() goes back to a data manager without queues and names.
LEMMA ResetInv ==
  ASSUME Inv, Reset
  PROVE  Inv'
<1> USE DEF Inv
<1>1. /\ Quiet /\ UNCHANGED <<m_mode, thread, popPc, attempts>>
      /\ m_inQueues' = <<>> /\ m_outQueues' = <<>>
      /\ m_inQueuesIds' = NoIds /\ m_outQueuesIds' = NoIds
      /\ accepted' = {} /\ log' = <<>>
      /\ rx' = [c \in Consumers |-> <<>>] /\ joined' = [c \in Consumers |-> 0]
  BY DEF Reset
<1>2. TypeOK'
  BY <1>1 DEF TypeOK, NoIds, thread
<1>3. DOMAIN m_inQueuesIds' = {} /\ DOMAIN m_outQueuesIds' = {}
  BY <1>1 DEF NoIds
<1>4. RegistrySound' /\ RegistrySize'
  BY <1>1, <1>3, FS_EmptySet DEF RegistrySound, RegistrySize, Range, IsInjective
<1>5. ChecksStillHold' /\ BatchEndsLog'
  BY <1>1, QuietStep
<1>6. StreamsStart' /\ TotalOrder'
  BY <1>3 DEF StreamsStart, TotalOrder
<1> QED  BY <1>2, <1>4, <1>5, <1>6

-----------------------------------------------------------------------------
\* The queues are sequences of messages, and every consumer's position is a queue.
LEMMA QueueFacts ==
  ASSUME Inv
  PROVE  /\ Len(log) \in Nat /\ Len(m_inQueues) \in Nat /\ Len(m_outQueues) \in Nat
         /\ DOMAIN m_inQueues = 1 .. Len(m_inQueues)
         /\ DOMAIN m_outQueues = 1 .. Len(m_outQueues)
         /\ \A q \in DOMAIN m_inQueues :
              m_inQueues[q] \in Seq(Message) /\ Len(m_inQueues[q]) \in Nat
         /\ \A q \in DOMAIN m_outQueues :
              m_outQueues[q] \in Seq(Message) /\ Len(m_outQueues[q]) \in Nat
         /\ \A f \in DOMAIN m_inQueuesIds : m_inQueuesIds[f] \in DOMAIN m_inQueues
         /\ \A c \in DOMAIN m_outQueuesIds :
              c \in Consumers /\ m_outQueuesIds[c] \in DOMAIN m_outQueues
<1>1. /\ Len(log) \in Nat /\ Len(m_inQueues) \in Nat /\ Len(m_outQueues) \in Nat
      /\ DOMAIN m_inQueues = 1 .. Len(m_inQueues)
      /\ DOMAIN m_outQueues = 1 .. Len(m_outQueues)
  BY LenProperties DEF Inv, TypeOK
<1>2. /\ \A q \in DOMAIN m_inQueues : m_inQueues[q] \in Seq(Message)
      /\ \A q \in DOMAIN m_outQueues : m_outQueues[q] \in Seq(Message)
  BY <1>1, ElementOfSeq DEF Inv, TypeOK
<1>3. /\ \A f \in DOMAIN m_inQueuesIds : m_inQueuesIds[f] \in DOMAIN m_inQueues
      /\ \A c \in DOMAIN m_outQueuesIds :
           c \in Consumers /\ m_outQueuesIds[c] \in DOMAIN m_outQueues
  BY DEF Inv, TypeOK, RegistrySound, Range
<1> QED  BY <1>1, <1>2, <1>3, LenProperties

\* A step that leaves queues, registry and streams alone, away from Q::copy.
LEMMA ThreadStep ==
  ASSUME Inv, UNCHANGED <<m_mode, registry, data>>,
         isRunning_' \in BOOLEAN, it' \in Nat \ {0}, dst' = dst,
         pc # "copy", pc' \in {"idle", "called", "scan", "check", "lock", "test"},
         pc' = "lock" => /\ it' \in DOMAIN m_inQueues
                         /\ m_inQueues[it'] # <<>> /\ m_outQueues # <<>>
  PROVE  Inv'
<1> USE DEF Inv
<1>1. TypeOK'
  BY DEF TypeOK, registry, data
<1>2. RegistrySound' /\ RegistrySize'
  BY DEF RegistrySound, RegistrySize, registry, data
<1>3. ChecksStillHold' /\ BatchEndsLog'
  BY DEF ChecksStillHold, BatchEndsLog, registry, data
<1>4. /\ Before = Len(log) /\ Before' = Len(log)
      /\ \A q : Reached(q) = Len(log) /\ Reached(q)' = Len(log)
  BY DEF Before, Reached, data
<1>5. StreamsStart' /\ TotalOrder'
  BY <1>4 DEF StreamsStart, TotalOrder, registry, data
<1> QED  BY <1>1, <1>2, <1>3, <1>5

\* The steps of run() outside Q::copy.
LEMMA RunInv ==
  ASSUME Inv, \/ RunCall \/ RunEnter \/ ScanBegin \/ ManageMap
              \/ CheckSkip \/ CheckHit \/ CheckEnd \/ LoopTest
  PROVE  Inv'
<1>0. it \in Nat \ {0} /\ it + 1 \in Nat \ {0} /\ isRunning_ \in BOOLEAN
  BY DEF Inv, TypeOK
<1>1. CASE RunCall \/ RunEnter \/ ManageMap \/ CheckEnd \/ LoopTest
  BY <1>0, <1>1, ThreadStep DEF RunCall, RunEnter, ManageMap, CheckEnd, LoopTest
<1>2. CASE ScanBegin \/ CheckSkip
  BY <1>0, <1>2, ThreadStep DEF ScanBegin, CheckSkip
<1>3. CASE CheckHit
  <2>1. it \in DOMAIN m_inQueues
    BY <1>0, <1>3, QueueFacts DEF CheckHit
  <2> QED  BY <1>0, <1>3, <2>1, ThreadStep DEF CheckHit
<1> QED  BY <1>1, <1>2, <1>3

\* A step that leaves queues, registry, streams and the place of run() alone: stop(),
\* a refused push and the test of pop.
LEMMA AsideStep ==
  ASSUME Inv, TypeOK', pc' = pc, it' = it, dst' = dst,
         UNCHANGED <<m_inQueues, m_outQueues, registry, log, rx, joined>>,
         \A c \in Consumers : popPc'[c] = "move" =>
           /\ c \in DOMAIN m_outQueuesIds
           /\ m_outQueues[m_outQueuesIds[c]] # <<>>
  PROVE  Inv'
<1> USE DEF Inv
<1>1. RegistrySound' /\ RegistrySize'
  BY DEF RegistrySound, RegistrySize, registry
<1>2. ChecksStillHold'
  BY DEF ChecksStillHold, registry
<1>3. Before' = Before /\ \A q : Reached(q)' = Reached(q)
  BY DEF Before, Reached
<1>4. BatchEndsLog' /\ StreamsStart'
  BY <1>3 DEF BatchEndsLog, StreamsStart, registry
<1>5. TotalOrder'
  BY <1>3 DEF TotalOrder, registry
<1> QED  BY <1>1, <1>2, <1>4, <1>5

\* stop() writes a flag the invariant does not speak of.
LEMMA StopInv ==
  ASSUME Inv, Stop
  PROVE  Inv'
<1>1. TypeOK'
  BY DEF Inv, Stop, TypeOK, registry, data
<1> QED  BY <1>1, AsideStep DEF Stop, Inv, ChecksStillHold, data

\* A push under an unknown name changes no queue.
LEMMA PushUnknownInv ==
  ASSUME Inv, NEW f \in Feeders, PushUnknown(f)
  PROVE  Inv'
<1>1. TypeOK'
  BY DEF Inv, PushUnknown, TypeOK, registry, thread
<1> QED  BY <1>1, AsideStep DEF PushUnknown, Inv, ChecksStillHold, thread

\* empty() of pop tells what the second half of pop relies on.
LEMMA PopCheckInv ==
  ASSUME Inv, NEW c \in Consumers, PopCheck(c)
  PROVE  Inv'
<1>1. TypeOK'
  BY DEF Inv, PopCheck, TypeOK, registry, thread
<1>2. \A x \in Consumers : popPc'[x] = "move" =>
        /\ x \in DOMAIN m_outQueuesIds
        /\ m_outQueues[m_outQueuesIds[x]] # <<>>
  BY DEF Inv, PopCheck, TypeOK, ChecksStillHold
<1> QED  BY <1>1, <1>2, AsideStep DEF PopCheck, thread

\* A push reaches no queue that is being copied.
LEMMA PushInv ==
  ASSUME Inv, NEW f \in Feeders, Push(f)
  PROVE  Inv'
<1> USE DEF Inv
<1> DEFINE q == m_inQueuesIds[f]
           m == [from |-> f, n |-> attempts[f] + 1]
           new == Append(m_inQueues[q], m)
<1>1. /\ f \in DOMAIN m_inQueuesIds /\ ~ Locked(q)
      /\ attempts' = [attempts EXCEPT ![f] = @ + 1]
      /\ m_inQueues' = [m_inQueues EXCEPT ![q] = new]
      /\ accepted' = accepted \cup {m}
      /\ UNCHANGED <<m_mode, m_outQueues, registry, thread, popPc, log, rx, joined>>
  BY DEF Push
<1>2. m \in Message
  BY DEF TypeOK, Message
<1>3. q \in DOMAIN m_inQueues /\ new \in Seq(Message) /\ new # <<>>
  BY <1>1, <1>2, QueueFacts, AppendProperties
<1> HIDE DEF m, new
<1>4. /\ m_inQueues' \in Seq(Seq(Message)) /\ Len(m_inQueues') = Len(m_inQueues)
      /\ DOMAIN m_inQueues' = DOMAIN m_inQueues
      /\ m_inQueues'[q] # <<>>
      /\ \A i \in DOMAIN m_inQueues : i # q => m_inQueues'[i] = m_inQueues[i]
  BY <1>1, <1>3, ChangeQueue DEF TypeOK
<1>5. TypeOK'
  BY <1>1, <1>2, <1>4 DEF TypeOK, registry, thread
<1>6. RegistrySound' /\ RegistrySize'
  BY <1>1, <1>4 DEF RegistrySound, RegistrySize, registry
<1>7. ChecksStillHold'
  BY <1>1, <1>4 DEF ChecksStillHold, registry, thread
<1>8. pc = "copy" => m_inQueues'[it] = m_inQueues[it]
  BY <1>1, <1>4 DEF ChecksStillHold, Locked
<1>9. Before' = Before /\ \A x : Reached(x)' = Reached(x)
  BY <1>1, <1>8 DEF Before, Reached, thread
<1>10. BatchEndsLog' /\ StreamsStart'
  BY <1>1, <1>8, <1>9 DEF BatchEndsLog, StreamsStart, registry, thread
<1>11. TotalOrder'
  BY <1>1, <1>9 DEF TotalOrder, registry
<1> QED  BY <1>5, <1>6, <1>7, <1>10, <1>11

\* A pop moves a queue to the end of what its one consumer has popped.
LEMMA PopMoveInv ==
  ASSUME Inv, NEW c \in Consumers, PopMove(c)
  PROVE  Inv'
<1> USE DEF Inv
<1> DEFINE q == m_outQueuesIds[c]
<1>1. /\ popPc[c] = "move"
      /\ rx' = [rx EXCEPT ![c] = rx[c] \o m_outQueues[q]]
      /\ m_outQueues' = [m_outQueues EXCEPT ![q] = <<>>]
      /\ popPc' = [popPc EXCEPT ![c] = "out"]
      /\ UNCHANGED <<m_mode, m_inQueues, registry, thread, attempts, accepted, log, joined>>
  BY DEF PopMove
<1>2. c \in DOMAIN m_outQueuesIds /\ q \in DOMAIN m_outQueues
  BY <1>1, QueueFacts DEF ChecksStillHold
<1>3. /\ m_outQueues[q] \in Seq(Message) /\ rx[c] \in Seq(Message)
      /\ rx[c] \o m_outQueues[q] \in Seq(Message) /\ <<>> \in Seq(Message)
  BY <1>2, QueueFacts, ConcatProperties, EmptySeq DEF TypeOK
<1>4. /\ m_outQueues' \in Seq(Seq(Message)) /\ Len(m_outQueues') = Len(m_outQueues)
      /\ DOMAIN m_outQueues' = DOMAIN m_outQueues
      /\ m_outQueues'[q] = <<>>
      /\ \A i \in DOMAIN m_outQueues : i # q => m_outQueues'[i] = m_outQueues[i]
  BY <1>1, <1>2, <1>3, ChangeQueue DEF TypeOK
<1>5. /\ rx' \in [Consumers -> Seq(Message)]
      /\ rx'[c] = rx[c] \o m_outQueues[q]
      /\ \A x \in Consumers : x # c => rx'[x] = rx[x]
  BY <1>1, <1>3 DEF TypeOK
<1>6. TypeOK'
  BY <1>1, <1>4, <1>5 DEF TypeOK, registry, thread
<1>7. RegistrySound' /\ RegistrySize'
  BY <1>1, <1>4 DEF RegistrySound, RegistrySize, registry
<1>8. \A x \in DOMAIN m_outQueuesIds : x # c =>
        /\ x \in Consumers /\ m_outQueuesIds[x] # q
        /\ m_outQueues'[m_outQueuesIds[x]] = m_outQueues[m_outQueuesIds[x]]
  BY <1>2, <1>4, QueueFacts DEF RegistrySound, IsInjective
<1>9. ChecksStillHold'
  <2>1. \A x \in Consumers : popPc'[x] = "move" => x # c /\ popPc[x] = "move"
    BY <1>1 DEF TypeOK
  <2>2. m_outQueues # <<>> => m_outQueues' # <<>>
    BY <1>2, <1>4
  <2> QED  BY <1>1, <1>8, <2>1, <2>2 DEF ChecksStillHold, registry, thread
<1>10. Before' = Before /\ \A x : Reached(x)' = Reached(x)
  BY <1>1 DEF Before, Reached, thread
<1>11. BatchEndsLog' /\ StreamsStart'
  BY <1>1, <1>4, <1>10 DEF BatchEndsLog, StreamsStart, registry, thread
<1>12. TotalOrder'
  <2>1. rx'[c] \o m_outQueues'[q] = rx[c] \o m_outQueues[q]
    BY <1>3, <1>4, <1>5, ConcatEmptySeq
  <2>2. \A x \in DOMAIN m_outQueuesIds :
          rx'[x] \o m_outQueues'[m_outQueuesIds[x]] = rx[x] \o m_outQueues[m_outQueuesIds[x]]
    BY <1>5, <1>8, <2>1
  <2> QED  BY <1>1, <1>10, <2>2 DEF TotalOrder, registry
<1> QED  BY <1>6, <1>7, <1>9, <1>11, <1>12

-----------------------------------------------------------------------------
(* Q::copy.                                                                *)

\* The copy takes its place in log, at the end, before any queue has it.
LEMMA CopyLockInv ==
  ASSUME Inv, CopyLock
  PROVE  Inv'
<1> USE DEF Inv
<1> DEFINE batch == m_inQueues[it]
<1>1. /\ pc = "lock" /\ pc' = "copy" /\ dst' = 1 /\ log' = log \o batch
      /\ UNCHANGED <<m_mode, m_inQueues, m_outQueues, registry, isRunning_, it, popPc,
                     attempts, accepted, rx, joined>>
  BY DEF CopyLock
<1>2. /\ it \in DOMAIN m_inQueues /\ batch \in Seq(Message) /\ Len(batch) \in Nat
      /\ Len(log) \in Nat /\ Len(m_outQueues) \in Nat /\ log \in Seq(Message)
      /\ DOMAIN m_outQueues = 1 .. Len(m_outQueues)
  BY <1>1, QueueFacts DEF ChecksStillHold, TypeOK
<1>3. /\ log' \in Seq(Message) /\ Len(log') = Len(log) + Len(batch)
      /\ SubSeq(log', Len(log) + 1, Len(log')) = batch
      /\ \A j \in Nat : SubSeq(log', j + 1, Len(log)) = SubSeq(log, j + 1, Len(log))
  BY <1>1, <1>2, PieceOfLonger, ConcatProperties
<1>4. TypeOK'
  <2>1. /\ pc' = "copy" /\ dst' = 1 /\ log' \in Seq(Message)
        /\ UNCHANGED <<m_mode, m_inQueues, m_outQueues, m_inQueuesIds, m_outQueuesIds,
                       isRunning_, it, popPc, attempts, accepted, rx, joined>>
    BY <1>1, <1>3 DEF registry
  <2> QED  BY <2>1 DEF TypeOK
<1>5. RegistrySound' /\ RegistrySize' /\ ChecksStillHold'
  BY <1>1 DEF RegistrySound, RegistrySize, ChecksStillHold, registry
<1>6. /\ Before = Len(log) /\ Before' = Len(log)
      /\ \A q : Reached(q) = Len(log)
      /\ \A q \in DOMAIN m_outQueues : Reached(q)' = Len(log)
  BY <1>1, <1>2, <1>3 DEF Before, Reached
<1>7. BatchEndsLog' /\ StreamsStart'
  <2>1. Len(log) \in 0 .. Len(log') /\ 1 \in 1 .. Len(m_outQueues) + 1
    BY <1>2, <1>3
  <2>2. BatchEndsLog'
    BY <1>1, <1>3, <1>6, <2>1 DEF BatchEndsLog
  <2> QED  BY <1>1, <1>6, <2>2 DEF StreamsStart, registry
<1>8. TotalOrder'
  <2>1. ASSUME NEW c \in DOMAIN m_outQueuesIds
        PROVE  rx[c] \o m_outQueues[m_outQueuesIds[c]]
                 = SubSeq(log', joined[c] + 1, Reached(m_outQueuesIds[c])')
    <3>0. c \in Consumers /\ m_outQueuesIds[c] \in DOMAIN m_outQueues
      BY QueueFacts
    <3>1. /\ joined[c] \in Nat
          /\ Reached(m_outQueuesIds[c])' = Len(log)
          /\ Reached(m_outQueuesIds[c]) = Len(log)
      BY <1>1, <1>6, <3>0 DEF TypeOK, registry
    <3> QED  BY <1>3, <3>1 DEF TotalOrder
  <2> QED  BY <1>1, <2>1 DEF TotalOrder, registry
<1> QED  BY <1>4, <1>5, <1>7, <1>8

\* The next output queue gets the batch; its stream then reaches the end of log.
LEMMA CopyToInv ==
  ASSUME Inv, CopyTo
  PROVE  Inv'
<1> USE DEF Inv
<1> DEFINE batch == m_inQueues[it]
           new == m_outQueues[dst] \o batch
<1>1. /\ pc = "copy" /\ dst <= Len(m_outQueues) /\ dst' = dst + 1
      /\ m_outQueues' = [m_outQueues EXCEPT ![dst] = new]
      /\ UNCHANGED <<m_mode, m_inQueues, registry, isRunning_, pc, it, popPc,
                     attempts, accepted, log, rx, joined>>
  BY DEF CopyTo
<1>2. /\ batch \in Seq(Message) /\ batch # <<>>
      /\ Len(log) \in Nat /\ Len(m_outQueues) \in Nat
      /\ DOMAIN m_outQueues = 1 .. Len(m_outQueues)
      /\ dst \in Nat \ {0} /\ dst \in DOMAIN m_outQueues
      /\ m_outQueues[dst] \in Seq(Message)
  <2>1. it \in DOMAIN m_inQueues /\ m_inQueues[it] # <<>>
    BY <1>1 DEF ChecksStillHold
  <2>2. /\ Len(log) \in Nat /\ Len(m_outQueues) \in Nat
        /\ DOMAIN m_outQueues = 1 .. Len(m_outQueues)
        /\ m_inQueues[it] \in Seq(Message)
        /\ \A q \in DOMAIN m_outQueues : m_outQueues[q] \in Seq(Message)
    BY <2>1, QueueFacts
  <2>3. dst \in Nat \ {0}
    BY DEF TypeOK
  <2>4. dst \in 1 .. Len(m_outQueues)
    BY <1>1, <2>2, <2>3
  <2> QED  BY <2>1, <2>2, <2>3, <2>4
<1>3. new \in Seq(Message) /\ new # <<>>
  <2>1. /\ new \in Seq(Message)
        /\ Len(new) = Len(m_outQueues[dst]) + Len(batch)
    BY <1>2, ConcatProperties
  <2>2. Len(m_outQueues[dst]) \in Nat /\ Len(batch) \in Nat \ {0}
    BY <1>2, EmptySeq, LenProperties
  <2> QED  BY <2>1, <2>2, EmptySeq
<1> HIDE DEF new
<1>4. /\ m_outQueues' \in Seq(Seq(Message)) /\ Len(m_outQueues') = Len(m_outQueues)
      /\ DOMAIN m_outQueues' = DOMAIN m_outQueues
      /\ m_outQueues'[dst] = new
      /\ \A i \in DOMAIN m_outQueues : i # dst => m_outQueues'[i] = m_outQueues[i]
  BY <1>1, <1>2, <1>3, ChangeQueue DEF TypeOK
<1>5. TypeOK'
  <2>1. /\ dst' \in Nat \ {0} /\ m_outQueues' \in Seq(Seq(Message))
        /\ UNCHANGED <<m_mode, m_inQueues, m_inQueuesIds, m_outQueuesIds, isRunning_,
                       pc, it, popPc, attempts, accepted, log, rx, joined>>
    BY <1>1, <1>2, <1>4 DEF registry
  <2> QED  BY <2>1 DEF TypeOK
<1>6. RegistrySound' /\ RegistrySize'
  BY <1>1, <1>4 DEF RegistrySound, RegistrySize, registry
<1>7. ChecksStillHold'
  <2>1. \A i \in DOMAIN m_outQueues : m_outQueues[i] # <<>> => m_outQueues'[i] # <<>>
    BY <1>3, <1>4
  <2>2. m_outQueues' # <<>>
    BY <1>2, <1>4
  <2> QED  BY <1>1, <2>1, <2>2, QueueFacts DEF ChecksStillHold, registry
<1>8. /\ Before' = Before /\ Before \in 0 .. Len(log)
      /\ batch = SubSeq(log, Before + 1, Len(log))
      /\ \A q \in DOMAIN m_outQueues : q = dst => Reached(q) = Before /\ Reached(q)' = Len(log)
      /\ \A q \in DOMAIN m_outQueues : q # dst => Reached(q)' = Reached(q)
  <2>1. /\ Before \in 0 .. Len(log)
        /\ batch = SubSeq(log, Before + 1, Len(log))
    BY <1>1 DEF BatchEndsLog
  <2>2. /\ pc = "copy" /\ pc' = "copy" /\ it' = it /\ m_inQueues' = m_inQueues /\ log' = log
        /\ dst' = dst + 1 /\ dst \in Nat
    BY <1>1, <1>2
  <2>3. /\ \A q \in Nat : q # dst => (q >= dst' <=> q >= dst)
        /\ \A q \in Nat : q = dst => q >= dst /\ ~ (q >= dst')
    BY <2>2
  <2>4. Before' = Before
    BY <2>2 DEF Before
  <2>5. \A q \in Nat : q = dst => Reached(q) = Before /\ Reached(q)' = Len(log)
    BY <2>2, <2>3 DEF Reached, Before
  <2>6. \A q \in Nat : q # dst => Reached(q)' = Reached(q)
    BY <2>2, <2>3 DEF Reached
  <2> QED  BY <1>2, <2>1, <2>4, <2>5, <2>6
<1>9. BatchEndsLog' /\ StreamsStart'
  <2>1. dst' \in 1 .. Len(m_outQueues) + 1
    BY <1>1, <1>2
  <2> QED  BY <1>1, <1>4, <1>8, <2>1 DEF BatchEndsLog, StreamsStart, registry
<1>10. TotalOrder'
  <2>1. ASSUME NEW c \in DOMAIN m_outQueuesIds,
               NEW q \in DOMAIN m_outQueues, q = m_outQueuesIds[c], q # dst
        PROVE  rx[c] \o m_outQueues'[q] = SubSeq(log, joined[c] + 1, Reached(q)')
    BY <1>4, <1>8, <2>1 DEF TotalOrder
  <2>2. ASSUME NEW c \in DOMAIN m_outQueuesIds,
               NEW q \in DOMAIN m_outQueues, q = m_outQueuesIds[c], q = dst
        PROVE  rx[c] \o m_outQueues'[q] = SubSeq(log, joined[c] + 1, Reached(q)')
    <3>1. /\ log \in Seq(Message) /\ joined[c] \in Nat /\ joined[c] <= Before
          /\ rx[c] \in Seq(Message) /\ Before \in 0 .. Len(log)
      BY <1>8, QueueFacts DEF TypeOK, StreamsStart
    <3>2. rx[c] \o m_outQueues[q] = SubSeq(log, joined[c] + 1, Before)
      BY <1>8, <2>2 DEF TotalOrder
    <3> DEFINE b == Before
               j == joined[c]
               r == rx[c]
               o == m_outQueues[q]
    <3>3. r \o o = SubSeq(log, j + 1, b) /\ batch = SubSeq(log, b + 1, Len(log))
      BY <1>8, <3>2
    <3>4. /\ log \in Seq(Message) /\ j \in Nat /\ b \in 0 .. Len(log) /\ j <= b
          /\ r \in Seq(Message) /\ o \in Seq(Message) /\ batch \in Seq(Message)
      BY <1>2, <2>2, <3>1
    <3>5. m_outQueues'[q] = o \o batch
      BY <1>4, <2>2 DEF new
    <3> HIDE DEF b, j, r, o, batch
    <3>6. r \o (o \o batch) = (r \o o) \o batch
      <4>1. \A s, t, u \in Seq(Message) : (s \o t) \o u = s \o (t \o u)
        BY ConcatAssociative
      <4>2. r \in Seq(Message) /\ o \in Seq(Message) /\ batch \in Seq(Message)
        BY <3>4
      <4> QED  BY <4>1, <4>2
    <3>7. SubSeq(log, j + 1, b) \o SubSeq(log, b + 1, Len(log)) = SubSeq(log, j + 1, Len(log))
      <4>1. /\ log \in Seq(Message) /\ j + 1 \in 1 .. Len(log) + 1
            /\ b \in (j + 1) - 1 .. Len(log) /\ Len(log) \in b .. Len(log)
        BY <1>2, <3>4
      <4> QED  BY <4>1, ConcatAdjacentSubSeq
    <3>8. r \o (o \o batch) = SubSeq(log, j + 1, Len(log))
      BY <3>3, <3>6, <3>7
    <3> QED  BY <1>8, <2>2, <3>5, <3>8 DEF r, j
  <2>3. ASSUME NEW c \in DOMAIN m_outQueuesIds, NEW q \in DOMAIN m_outQueues,
               q = m_outQueuesIds[c]
        PROVE  rx[c] \o m_outQueues'[q] = SubSeq(log, joined[c] + 1, Reached(q)')
    BY <2>1, <2>2, <2>3
  <2> QED  BY <1>1, <2>3, QueueFacts DEF TotalOrder, registry
<1> QED  BY <1>5, <1>6, <1>7, <1>9, <1>10

\* When Q::copy clears its queue, every output queue has had the batch.
LEMMA CopyDoneInv ==
  ASSUME Inv, CopyDone
  PROVE  Inv'
<1> USE DEF Inv
<1>0. dst \in Nat /\ Len(m_outQueues) \in Nat
  BY QueueFacts DEF TypeOK
<1>1. /\ pc = "copy" /\ pc' = "check" /\ dst > Len(m_outQueues) /\ it' = it + 1
      /\ m_inQueues' = [m_inQueues EXCEPT ![it] = <<>>]
      /\ UNCHANGED <<m_mode, m_outQueues, registry, isRunning_, dst, popPc,
                     attempts, accepted, log, rx, joined>>
  BY <1>0 DEF CopyDone
<1>2. /\ it \in DOMAIN m_inQueues /\ <<>> \in Seq(Message)
      /\ Len(log) \in Nat /\ Len(m_outQueues) \in Nat
      /\ DOMAIN m_outQueues = 1 .. Len(m_outQueues) /\ dst \in Nat
  BY <1>1, QueueFacts, EmptySeq DEF ChecksStillHold, TypeOK
<1>3. /\ m_inQueues' \in Seq(Seq(Message)) /\ Len(m_inQueues') = Len(m_inQueues)
      /\ DOMAIN m_inQueues' = DOMAIN m_inQueues
  BY <1>1, <1>2, ChangeQueue DEF TypeOK
<1>4. TypeOK'
  BY <1>1, <1>3, SMTT(30) DEF TypeOK, registry
<1>5. RegistrySound' /\ RegistrySize'
  BY <1>1, <1>3 DEF RegistrySound, RegistrySize, registry
<1>6. ChecksStillHold' /\ BatchEndsLog'
  BY <1>1 DEF ChecksStillHold, BatchEndsLog, registry
<1>7. /\ Before' = Len(log) /\ Before \in 0 .. Len(log)
      /\ \A q \in DOMAIN m_outQueues : Reached(q) = Len(log) /\ Reached(q)' = Len(log)
  BY <1>1, <1>2 DEF Before, Reached, BatchEndsLog
<1>8. StreamsStart'
  <2>1. \A c \in DOMAIN m_outQueuesIds : joined[c] \in Nat /\ joined[c] <= Before
    BY QueueFacts DEF StreamsStart, TypeOK
  <2>2. \A c \in DOMAIN m_outQueuesIds : joined[c] <= Len(log)
    BY <1>2, <1>7, <2>1
  <2> QED  BY <1>1, <1>7, <2>2 DEF StreamsStart, registry
<1>9. TotalOrder'
  BY <1>1, <1>7, QueueFacts DEF TotalOrder, registry
<1> QED  BY <1>4, <1>5, <1>6, <1>8, <1>9

-----------------------------------------------------------------------------
\* Every step of every thread keeps the invariant.
LEMMA NextInv == Inv /\ [Next]_vars => Inv'
<1> SUFFICES ASSUME Inv, [Next]_vars PROVE Inv'
  OBVIOUS
<1>1. CASE Register
  BY <1>1, SetFeederNewInv, SetFeederReuseInv, RemFeederInv, SetConsumerNewInv,
     SetConsumerReuseInv, ResetInv DEF Register
<1>2. CASE Feed
  BY <1>2, PushInv, PushUnknownInv DEF Feed
<1>3. CASE Consume
  BY <1>3, PopCheckInv, PopMoveInv DEF Consume
<1>4. CASE RunCall \/ RunStep
  BY <1>4, RunInv, CopyLockInv, CopyToInv, CopyDoneInv DEF RunStep
<1>5. CASE Stop
  BY <1>5, StopInv
<1>6. CASE UNCHANGED vars
  <2>1. TypeOK'
    BY <1>6 DEF Inv, TypeOK, vars, registry, thread
  <2> QED  BY <1>6, <2>1, AsideStep DEF Inv, ChecksStillHold, vars, thread
<1> QED  BY <1>1, <1>2, <1>3, <1>4, <1>5, <1>6 DEF Next

\* Every state run(), push, pop, stop and the registration reach satisfies Inv.
THEOREM Invariance == Spec => []Inv
  BY InitInv, NextInv, PTL DEF Spec

\* The state of the data manager has its type: queues hold messages of registered
\* feeders, positions count from the first queue.
THEOREM TypeCorrect == Spec => []TypeOK
<1>1. Inv => TypeOK
  BY DEF Inv
<1> QED  BY <1>1, Invariance, PTL

\* push and pop never index a queue that does not exist, whatever registrations,
\* removals and resets came before, and no two consumers share a queue.
THEOREM RegistryIsSound == Spec => []RegistrySound
<1>1. Inv => RegistrySound
  BY DEF Inv
<1> QED  BY <1>1, Invariance, PTL

\* What empty() told pop and manageBroadcast is still true when they lock the queue
\* again to move or to copy it.
THEOREM ChecksAreNotStale == Spec => []ChecksStillHold
<1>1. Inv => ChecksStillHold
  BY DEF Inv
<1> QED  BY <1>1, Invariance, PTL

\* Every consumer gets the one order of broadcast from its registration on, without
\* a gap, a repetition or a swap, at every point of Q::copy and of pop.
THEOREM StreamsAreInOrder == Spec => []TotalOrder
<1>1. Inv => TotalOrder
  BY DEF Inv
<1> QED  BY <1>1, Invariance, PTL
=============================================================================
