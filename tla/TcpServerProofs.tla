-------------------------- MODULE TcpServerProofs --------------------------
(***************************************************************************)
(* Proofs about the TCP server, for any clients, any number of workers and *)
(* any amount of data.                                                     *)
(***************************************************************************)
EXTENDS TcpServer, SequenceTheorems, FiniteSetTheorems, TLAPS

USE DEF FirstEntry

-----------------------------------------------------------------------------
(* Types.                                                                  *)

\* A sequence without the element at position k.
LEMMA RemoveAtFacts ==
  ASSUME NEW S, NEW s \in Seq(S), NEW k \in 1 .. Len(s)
  PROVE  /\ RemoveAt(s, k) \in Seq(S) /\ Len(RemoveAt(s, k)) = Len(s) - 1
         /\ \A x \in 1 .. Len(s) - 1 : RemoveAt(s, k)[x] = IF x < k THEN s[x] ELSE s[x + 1]
<1> DEFINE a == SubSeq(s, 1, k - 1)
           b == SubSeq(s, k + 1, Len(s))
<1>1. Len(s) \in Nat /\ \A x \in 1 .. Len(s) : s[x] \in S
  BY LenProperties, ElementOfSeq
<1>2. /\ k \in Int /\ k - 1 \in Int /\ k + 1 \in Int /\ Len(s) \in Int
      /\ 1 <= k /\ k <= Len(s)
      /\ \A x \in 1 .. k - 1 : s[x] \in S
      /\ \A x \in k + 1 .. Len(s) : s[x] \in S
  BY <1>1
<1>3. /\ a \in Seq(S) /\ Len(a) = k - 1
      /\ \A x \in 1 .. k - 1 : a[x] = s[x]
  <2>1. /\ a \in Seq(S) /\ Len(a) = IF 1 <= k - 1 THEN (k - 1) - 1 + 1 ELSE 0
        /\ \A x \in 1 .. (k - 1) - 1 + 1 : a[x] = s[1 + x - 1]
    BY <1>2, SubSeqProperties
  <2> QED  BY <1>2, <2>1
<1>4. /\ b \in Seq(S) /\ Len(b) = Len(s) - k
      /\ \A x \in 1 .. Len(s) - k : b[x] = s[k + x]
  <2>1. /\ b \in Seq(S) /\ Len(b) = IF k + 1 <= Len(s) THEN Len(s) - (k + 1) + 1 ELSE 0
        /\ \A x \in 1 .. Len(s) - (k + 1) + 1 : b[x] = s[(k + 1) + x - 1]
    BY <1>2, SubSeqProperties
  <2> QED  BY <1>2, <2>1
<1> HIDE DEF a, b
<1>5. /\ a \o b \in Seq(S) /\ Len(a \o b) = Len(a) + Len(b)
      /\ \A x \in 1 .. Len(a) + Len(b) :
           (a \o b)[x] = IF x <= Len(a) THEN a[x] ELSE b[x - Len(a)]
  BY <1>3, <1>4, ConcatProperties
<1>6. Len(a) + Len(b) = Len(s) - 1
  BY <1>2, <1>3, <1>4
<1>7. ASSUME NEW x \in 1 .. Len(s) - 1
      PROVE  (a \o b)[x] = IF x < k THEN s[x] ELSE s[x + 1]
  <2>1. CASE x < k
    BY <1>2, <1>3, <1>5, <1>6, <2>1
  <2>2. CASE ~ (x < k)
    <3>1. /\ x - (k - 1) \in 1 .. Len(s) - k /\ ~ (x <= k - 1)
          /\ k + (x - (k - 1)) = x + 1
      BY <1>2, <2>2
    <3> QED  BY <1>3, <1>4, <1>5, <1>6, <2>2, <3>1, ZenonT(60)
  <2> QED  BY <2>1, <2>2
<1>8. RemoveAt(s, k) = a \o b
  BY DEF RemoveAt, a, b
<1> QED  BY <1>5, <1>6, <1>7, <1>8

\* A worker adds to the list only what accept() has given it.
AcceptedIsClient == \A w \in Workers : pc[w] = "accepted" => fd[w] \in Clients

\* The list without a client: nobody else is lost, and the others stay in order.
LEMMA WithoutFacts ==
  ASSUME NEW S, NEW s \in Seq(S), NEW c
  PROVE  /\ Without(s, c) \in Seq(S) /\ Len(Without(s, c)) <= Len(s)
         /\ Contains(s, c) => Len(Without(s, c)) = Len(s) - 1
         /\ \A x \in 1 .. Len(s) : s[x] # c => Contains(Without(s, c), s[x])
         /\ \A x \in DOMAIN Without(s, c) : \E y \in DOMAIN s : Without(s, c)[x] = s[y]
         /\ IsInjective(s) => IsInjective(Without(s, c))
<1>1. Len(s) \in Nat /\ DOMAIN s = 1 .. Len(s)
  BY LenProperties
<1>2. CASE Contains(s, c)
  <2> DEFINE k == CHOOSE k \in DOMAIN s : s[k] = c
             r == RemoveAt(s, k)
  <2>1. k \in 1 .. Len(s) /\ s[k] = c
    BY <1>1, <1>2 DEF Contains
  <2>2. Without(s, c) = r
    BY <1>2 DEF Without
  <2> HIDE DEF k
  <2>3. /\ r \in Seq(S) /\ Len(r) = Len(s) - 1
        /\ \A x \in 1 .. Len(s) - 1 : r[x] = IF x < k THEN s[x] ELSE s[x + 1]
    BY <2>1, RemoveAtFacts
  <2> HIDE DEF r
  <2>4. DOMAIN r = 1 .. Len(s) - 1
    BY <2>3, LenProperties
  <2>5. \A x \in 1 .. Len(s) : s[x] # c => Contains(r, s[x])
    <3> SUFFICES ASSUME NEW x \in 1 .. Len(s), s[x] # c
                 PROVE  \E y \in 1 .. Len(r) : r[y] = s[x]
      BY DEF Contains
    <3>1. CASE x < k
      BY <1>1, <2>1, <2>3, <3>1
    <3>2. CASE ~ (x < k)
      <4>1. x - 1 \in 1 .. Len(s) - 1 /\ ~ (x - 1 < k) /\ (x - 1) + 1 = x
        BY <1>1, <2>1, <3>2
      <4> QED  BY <2>3, <4>1
    <3> QED  BY <3>1, <3>2
  <2>6. \A x \in DOMAIN r : \E y \in DOMAIN s : r[x] = s[y]
    <3> SUFFICES ASSUME NEW x \in 1 .. Len(s) - 1 PROVE \E y \in DOMAIN s : r[x] = s[y]
      BY <2>4
    <3>1. x \in DOMAIN s /\ x + 1 \in DOMAIN s
      BY <1>1
    <3> QED  BY <2>3, <3>1
  <2>7. IsInjective(s) => IsInjective(r)
    <3> SUFFICES ASSUME IsInjective(s), NEW x \in 1 .. Len(s) - 1, NEW y \in 1 .. Len(s) - 1,
                        r[x] = r[y]
                 PROVE  x = y
      BY <2>4 DEF IsInjective
    <3> DEFINE u == IF x < k THEN x ELSE x + 1
               v == IF y < k THEN y ELSE y + 1
    <3>1. u \in DOMAIN s /\ v \in DOMAIN s /\ r[x] = s[u] /\ r[y] = s[v]
      BY <1>1, <2>3
    <3>2. u = v
      <4> HIDE DEF u, v
      <4> QED  BY <3>1 DEF IsInjective
    <3> QED  BY <1>1, <2>1, <3>2
  <2> QED  BY <1>1, <2>2, <2>3, <2>5, <2>6, <2>7
<1>3. CASE ~ Contains(s, c)
  <2>1. Without(s, c) = s
    BY <1>3 DEF Without
  <2>2. \A x \in 1 .. Len(s) : Contains(s, s[x])
    BY DEF Contains
  <2>3. Len(s) <= Len(s) /\ \A x \in DOMAIN s : \E y \in DOMAIN s : s[x] = s[y]
    BY <1>1
  <2> QED  BY <1>3, <2>1, <2>2, <2>3, Zenon
<1> QED  BY <1>2, <1>3

\* Nothing has happened yet.
LEMMA InitType == Init => TypeOK
<1> SUFFICES ASSUME Init PROVE TypeOK
  OBVIOUS
<1>1. NoFd \in Fds
  BY DEF Fds
<1>2. /\ m_connectedClientsFds \in Seq(Clients) /\ backlog \in Seq(Clients)
      /\ stream \in [Clients -> Seq(Nat)] /\ msg \in [Workers -> Seq(Nat)]
      /\ pushed \in [Clients -> Seq(Nat)]
      /\ pollfds \in [Workers -> Seq([fd : Fds, revents : Events])]
  <2>1. /\ <<>> \in Seq(Clients) /\ <<>> \in Seq(Nat)
        /\ <<>> \in Seq([fd : Fds, revents : Events])
    BY EmptySeq
  <2> QED  BY <2>1 DEF Init
<1>3. /\ conn \in [Clients -> {"none", "up", "closed", "broken"}]
      /\ pc \in [Workers -> {"idle", "accepted", "checkRx", "fill", "loop", "read", "push"}]
      /\ fd \in [Workers -> Fds] /\ i \in [Workers -> Nat \ {0}]
      /\ sent \in [Clients -> Nat]
  BY <1>1 DEF Init
<1>4. undefined \in BOOLEAN /\ ret \in [Workers -> {-1, 0, 1}] /\ unheard \subseteq Clients
  BY DEF Init
<1> QED  BY <1>2, <1>3, <1>4 DEF TypeOK

\* A worker goes on to another place and another entry.
LEMMA MoveType ==
  ASSUME TypeOK, NEW w \in Workers,
         NEW p \in {"idle", "accepted", "checkRx", "fill", "loop", "read", "push"},
         pc' = [pc EXCEPT ![w] = p],
         i' = [i EXCEPT ![w] = @ + 1] \/ i' = [i EXCEPT ![w] = 1]
  PROVE  /\ pc' \in [Workers -> {"idle", "accepted", "checkRx", "fill", "loop", "read", "push"}]
         /\ i' \in [Workers -> Nat \ {0}]
<1>1. pc' \in [Workers -> {"idle", "accepted", "checkRx", "fill", "loop", "read", "push"}]
  BY DEF TypeOK
<1>2. i' \in [Workers -> Nat \ {0}]
  <2>1. i \in [Workers -> Nat \ {0}] /\ i[w] + 1 \in Nat \ {0} /\ 1 \in Nat \ {0}
    BY DEF TypeOK
  <2> QED  BY <2>1
<1> QED  BY <1>1, <1>2

\* The clients.
LEMMA PeerType ==
  ASSUME TypeOK, NEW c \in Clients, Connect(c) \/ Send(c) \/ Disconnect(c) \/ Abort(c)
  PROVE  TypeOK'
<1> USE DEF TypeOK
<1>1. CASE Connect(c)
  <2>1. Append(backlog, c) \in Seq(Clients)
    BY AppendProperties
  <2>2. backlog' \in Seq(Clients) /\ conn' \in [Clients -> {"none", "up", "closed", "broken"}]
    BY <1>1, <2>1 DEF Connect
  <2>3. UNCHANGED <<server, stream, sent>>
    BY <1>1 DEF Connect
  <2> QED  BY <2>2, <2>3 DEF server, worker
<1>2. CASE Send(c)
  <2>1. sent' \in [Clients -> Nat] /\ sent'[c] \in Nat
    BY <1>2 DEF Send
  <2>2. Append(stream[c], sent'[c]) \in Seq(Nat)
    BY <2>1, AppendProperties
  <2>3. stream' \in [Clients -> Seq(Nat)]
    BY <1>2, <2>2 DEF Send
  <2>4. UNCHANGED <<server, backlog, conn>>
    BY <1>2 DEF Send
  <2> QED  BY <2>1, <2>3, <2>4 DEF server, worker
<1>3. CASE Disconnect(c)
  BY <1>3 DEF Disconnect, server, worker
<1>4. CASE Abort(c)
  <2>1. <<>> \in Seq(Nat)
    BY EmptySeq
  <2>2. /\ stream' \in [Clients -> Seq(Nat)]
        /\ conn' \in [Clients -> {"none", "up", "closed", "broken"}]
    BY <1>4, <2>1 DEF Abort
  <2>3. UNCHANGED <<server, backlog, sent>>
    BY <1>4 DEF Abort
  <2> QED  BY <2>2, <2>3 DEF server, worker
<1> QED  BY <1>1, <1>2, <1>3, <1>4

\* What a worker may find in an entry of the array.
LEMMA EntriesType ==
  ASSUME TypeOK, NEW w \in Workers, NEW e \in Entries(w)
  PROVE  e.fd \in Fds /\ e.revents \in Events
<1>1. pollfds[w] \in Seq([fd : Fds, revents : Events])
  BY DEF TypeOK
<1>2. \A k \in DOMAIN pollfds[w] : pollfds[w][k].fd \in Fds /\ pollfds[w][k].revents \in Events
  <2> SUFFICES ASSUME NEW k \in DOMAIN pollfds[w]
               PROVE  pollfds[w][k].fd \in Fds /\ pollfds[w][k].revents \in Events
    OBVIOUS
  <2>1. pollfds[w][k] \in [fd : Fds, revents : Events]
    BY <1>1, LenProperties, ElementOfSeq
  <2> QED  BY <2>1
<1>3. Garbage \subseteq Fds
  BY DEF Garbage, Fds
<1>4. CASE i[w] \in DOMAIN pollfds[w] /\ pollfds[w][i[w]].revents # "unset"
  BY <1>2, <1>4 DEF Entries
<1>5. CASE ~ (i[w] \in DOMAIN pollfds[w] /\ pollfds[w][i[w]].revents # "unset")
  BY <1>2, <1>3, <1>5 DEF Entries
<1> QED  BY <1>4, <1>5

\* accept() and the list.
LEMMA AcceptType ==
  ASSUME TypeOK, AcceptedIsClient, NEW w \in Workers,
         Accept(w) \/ AcceptNone(w) \/ AddClient(w) \/ CheckRx(w)
  PROVE  TypeOK'
<1> USE DEF TypeOK
<1>0. \A x : Node(x) \in Fds
  BY LenProperties, ElementOfSeq DEF Node, Fds
<1>1. CASE Accept(w)
  <2>1. Tail(backlog) \in Seq(Clients) /\ Head(backlog) \in Fds
    BY <1>1, HeadTailProperties DEF Accept, Fds
  <2>2. backlog' \in Seq(Clients) /\ fd' \in [Workers -> Fds]
    BY <1>1, <2>1 DEF Accept
  <2>3. pc' = [pc EXCEPT ![w] = "accepted"]
    BY <1>1 DEF Accept, Goto
  <2>4. UNCHANGED <<m_connectedClientsFds, conn, stream, sent, pollfds, i, msg,
                    undefined, pushed, ret, unheard>>
    BY <1>1 DEF Accept
  <2> QED  BY <2>2, <2>3, <2>4
<1>2. CASE AcceptNone(w)
  BY <1>2 DEF AcceptNone, Goto, socket
<1>3. CASE AddClient(w)
  <2>1. fd[w] \in Clients
    BY <1>3 DEF AddClient, Goto, AcceptedIsClient
  <2>2. m_connectedClientsFds' \in Seq(Clients)
    BY <1>3, <2>1, AppendProperties DEF AddClient
  <2>3. pc' = [pc EXCEPT ![w] = "checkRx"]
    BY <1>3 DEF AddClient, Goto
  <2>4. UNCHANGED <<socket, fd, pollfds, i, msg, undefined, pushed, ret, unheard>>
    BY <1>3 DEF AddClient
  <2> QED  BY <2>2, <2>3, <2>4 DEF socket
<1>4. CASE CheckRx(w)
  <2>1. <<>> \in Seq([fd : Fds, revents : Events])
    BY EmptySeq
  <2>2. /\ pollfds' \in [Workers -> Seq([fd : Fds, revents : Events])]
        /\ fd' \in [Workers -> Fds]
    BY <1>0, <1>4, <2>1 DEF CheckRx
  <2>3. pc' = [pc EXCEPT ![w] = "fill"]
    BY <1>4 DEF CheckRx, Goto
  <2>4. UNCHANGED <<m_connectedClientsFds, socket, i, msg, undefined, pushed, ret, unheard>>
    BY <1>4 DEF CheckRx
  <2> QED  BY <2>2, <2>3, <2>4 DEF socket
<1> QED  BY <1>1, <1>2, <1>3, <1>4

\* A turn of the loop over the list.
LEMMA FillType ==
  ASSUME TypeOK, NEW w \in Workers, Fill(w)
  PROVE  TypeOK'
<1> USE DEF TypeOK
<1>0. \A x : Node(x) \in Fds
  BY LenProperties, ElementOfSeq DEF Node, Fds
<1>1. pc' = [pc EXCEPT ![w] = "fill"]
  BY DEF Fill, Goto
<1>2. UNCHANGED <<m_connectedClientsFds, socket, i, msg, pushed, ret, unheard>>
  BY DEF Fill
<1>3. CASE Contains(m_connectedClientsFds, fd[w]) /\ Len(pollfds[w]) < BACKLOG
  <2>1. [fd |-> fd[w], revents |-> "unset"] \in [fd : Fds, revents : Events]
    BY DEF Events
  <2>2. Append(pollfds[w], [fd |-> fd[w], revents |-> "unset"])
          \in Seq([fd : Fds, revents : Events])
    BY <2>1, AppendProperties
  <2>3. pollfds' \in [Workers -> Seq([fd : Fds, revents : Events])]
    BY <1>3, <2>2 DEF Fill
  <2>4. \E k \in DOMAIN m_connectedClientsFds : fd' = [fd EXCEPT ![w] = Node(k + 1)]
    BY <1>3 DEF Fill
  <2>5. fd' \in [Workers -> Fds]
    BY <1>0, <2>4
  <2>6. undefined' = undefined
    BY <1>3 DEF Fill
  <2> QED  BY <1>1, <1>2, <2>3, <2>5, <2>6 DEF socket
<1>4. CASE ~ (Contains(m_connectedClientsFds, fd[w]) /\ Len(pollfds[w]) < BACKLOG)
  <2>1. undefined' = TRUE /\ UNCHANGED <<pollfds, fd>>
    BY <1>4 DEF Fill
  <2> QED  BY <1>1, <1>2, <2>1 DEF socket
<1> QED  BY <1>3, <1>4

\* poll() keeps the array an array of descriptors and events, however long the list is.
LEMMA PolledFacts ==
  ASSUME TypeOK, NEW w \in Workers, NEW n \in Nat,
         NEW e \in [Len(pollfds[w]) + 1 .. n -> Garbage]
  PROVE  /\ Polled(w, n, e) \in Seq([fd : Fds, revents : Events])
         /\ Len(Polled(w, n, e)) = IF n < Len(pollfds[w]) THEN Len(pollfds[w]) ELSE n
         /\ \A k \in 1 .. n : /\ Polled(w, n, e)[k].revents = Revents(Polled(w, n, e)[k].fd)
                              /\ k <= Len(pollfds[w]) =>
                                   Polled(w, n, e)[k].fd = pollfds[w][k].fd
<1> DEFINE E == [fd : Fds, revents : Events]
           C(k) == IF k <= Len(pollfds[w]) THEN pollfds[w][k].fd ELSE e[k]
           a == [k \in 1 .. n |-> [fd |-> C(k), revents |-> Revents(C(k))]]
           b == SubSeq(pollfds[w], n + 1, Len(pollfds[w]))
<1>1. /\ pollfds[w] \in Seq(E) /\ Len(pollfds[w]) \in Nat
      /\ \A k \in 1 .. Len(pollfds[w]) : pollfds[w][k] \in E
  <2>1. pollfds[w] \in Seq(E)
    BY DEF TypeOK
  <2> QED  BY <2>1, LenProperties, ElementOfSeq
<1>2. \A k \in 1 .. n : C(k) \in Fds
  <2> SUFFICES ASSUME NEW k \in 1 .. n PROVE C(k) \in Fds
    OBVIOUS
  <2>1. CASE k <= Len(pollfds[w])
    BY <1>1, <2>1
  <2>2. CASE ~ (k <= Len(pollfds[w]))
    <3>1. k \in Len(pollfds[w]) + 1 .. n
      BY <1>1, <2>2
    <3>2. e[k] \in Fds
      BY <3>1 DEF Garbage, Fds
    <3> QED  BY <2>2, <3>2
  <2> QED  BY <2>1, <2>2
<1>3. \A x : Revents(x) \in Events
  BY DEF Revents, Events
<1>4. a \in [1 .. n -> E]
  <2> HIDE DEF C
  <2> QED  BY <1>2, <1>3
<1>5. a \in Seq(E) /\ Len(a) = n
  <2> HIDE DEF a, E
  <2> QED  BY <1>4
<1>6. b \in Seq(E) /\ Len(b) = IF n < Len(pollfds[w]) THEN Len(pollfds[w]) - n ELSE 0
  <2>1. n + 1 \in Int /\ Len(pollfds[w]) \in Int
        /\ \A k \in n + 1 .. Len(pollfds[w]) : pollfds[w][k] \in E
    BY <1>1
  <2> HIDE DEF E
  <2>2. b \in Seq(E)
        /\ Len(b) = IF n + 1 <= Len(pollfds[w]) THEN Len(pollfds[w]) - (n + 1) + 1 ELSE 0
    BY <2>1, SubSeqProperties
  <2> QED  BY <1>1, <2>2
<1>7. Polled(w, n, e) = a \o b
  BY DEF Polled
<1>8. /\ a \o b \in Seq(E) /\ Len(a \o b) = Len(a) + Len(b)
      /\ \A k \in 1 .. n : (a \o b)[k] = a[k]
  <2> HIDE DEF a, b, E
  <2>1. Len(b) \in Nat
    BY <1>6, LenProperties
  <2>2. /\ a \o b \in Seq(E) /\ Len(a \o b) = Len(a) + Len(b)
        /\ \A k \in 1 .. Len(a) + Len(b) :
             (a \o b)[k] = IF k <= Len(a) THEN a[k] ELSE b[k - Len(a)]
    BY <1>5, <1>6, ConcatProperties
  <2> QED  BY <1>5, <2>1, <2>2
<1>9. \A k \in 1 .. n : a[k].fd = C(k) /\ a[k].revents = Revents(C(k))
  <2> HIDE DEF C
  <2> QED  OBVIOUS
<1>10. \A k \in 1 .. n : k <= Len(pollfds[w]) => C(k) = pollfds[w][k].fd
  OBVIOUS
<1> HIDE DEF a, b, C, E
<1>11. Len(a \o b) = IF n < Len(pollfds[w]) THEN Len(pollfds[w]) ELSE n
  BY <1>1, <1>5, <1>6, <1>8
<1>12. a \o b \in Seq([fd : Fds, revents : Events])
  BY <1>8 DEF E
<1> QED  BY <1>7, <1>8, <1>9, <1>10, <1>11, <1>12

\* poll().
LEMMA PollType ==
  ASSUME TypeOK, NEW w \in Workers, Poll(w)
  PROVE  TypeOK'
<1> USE DEF TypeOK
<1> DEFINE n == Len(m_connectedClientsFds)
           E == [fd : Fds, revents : Events]
<1>1. n \in Nat /\ <<>> \in Seq(E)
  BY LenProperties, EmptySeq
<1>2. \E e \in [Len(pollfds[w]) + 1 .. n -> Garbage] :
        \/ pollfds' = [pollfds EXCEPT ![w] = Polled(w, n, e)]
        \/ pollfds' = [pollfds EXCEPT ![w] = <<>>]
  BY DEF Poll
<1>3. pc' = [pc EXCEPT ![w] = "loop"] \/ pc' = [pc EXCEPT ![w] = "idle"]
  BY DEF Poll
<1>4. /\ i' = [i EXCEPT ![w] = 1] /\ undefined' \in BOOLEAN
      /\ UNCHANGED <<m_connectedClientsFds, socket, fd, msg, pushed, unheard>>
  BY DEF Poll
<1>4a. ret' \in [Workers -> {-1, 0, 1}]
  <2>1. ret' = ret \/ ret' = [ret EXCEPT ![w] = 1]
    BY DEF Poll
  <2> QED  BY <2>1
<1> HIDE DEF n, E
<1>5. \A e \in [Len(pollfds[w]) + 1 .. n -> Garbage] : Polled(w, n, e) \in Seq(E)
  BY <1>1, PolledFacts DEF E
<1>6. pollfds \in [Workers -> Seq(E)]
  BY DEF E
<1>7. pollfds' \in [Workers -> Seq(E)]
  BY <1>1, <1>2, <1>5, <1>6
<1>8. pollfds' \in [Workers -> Seq([fd : Fds, revents : Events])]
  BY <1>7 DEF E
<1>9. /\ pc' \in [Workers -> {"idle", "accepted", "checkRx", "fill", "loop", "read", "push"}]
      /\ i' \in [Workers -> Nat \ {0}]
  BY <1>3, <1>4, MoveType
<1> QED  BY <1>4, <1>4a, <1>8, <1>9 DEF socket

\* poll() fails.
LEMMA PollFailsType ==
  ASSUME TypeOK, NEW w \in Workers, PollFails(w)
  PROVE  TypeOK'
<1> USE DEF TypeOK
<1>1. pc' = [pc EXCEPT ![w] = "loop"] /\ i' = [i EXCEPT ![w] = 1]
  BY DEF PollFails, Goto
<1>2. /\ pc' \in [Workers -> {"idle", "accepted", "checkRx", "fill", "loop", "read", "push"}]
      /\ i' \in [Workers -> Nat \ {0}]
  BY <1>1, MoveType
<1>3. ret' \in [Workers -> {-1, 0, 1}]
  BY DEF PollFails
<1>4. UNCHANGED <<m_connectedClientsFds, socket, fd, pollfds, msg, undefined, pushed, unheard>>
  BY DEF PollFails
<1> QED  BY <1>2, <1>3, <1>4 DEF socket

\* The loop over the array.
LEMMA LoopType ==
  ASSUME TypeOK, NEW w \in Workers,
         HangUp(w) \/ HasData(w) \/ NoEvent(w) \/ LoopDone(w)
  PROVE  TypeOK'
<1> USE DEF TypeOK
<1>1. CASE HangUp(w)
  <2>1. \A c : Without(m_connectedClientsFds, c) \in Seq(Clients)
    BY WithoutFacts
  <2>2. m_connectedClientsFds' \in Seq(Clients)
    BY <1>1, <2>1 DEF HangUp
  <2>3. /\ pc' \in [Workers -> {"idle", "accepted", "checkRx", "fill", "loop", "read", "push"}]
        /\ i' \in [Workers -> Nat \ {0}]
    <3>1. pc' = [pc EXCEPT ![w] = "loop"] /\ i' = [i EXCEPT ![w] = @ + 1]
      BY <1>1 DEF HangUp, Goto, Next_i
    <3> QED  BY <3>1, MoveType
  <2>4. UNCHANGED <<socket, fd, pollfds, msg, undefined, pushed, ret>>
    BY <1>1 DEF HangUp
  <2>5. unheard' \subseteq Clients
    <3>1. \A c : Contains(m_connectedClientsFds, c) => c \in Clients
      BY ElementOfSeq DEF Contains
    <3>2. PICK e \in Entries(w) :
            unheard' = IF ret[w] = -1 /\ Contains(m_connectedClientsFds, e.fd)
                       THEN unheard \cup {e.fd} ELSE unheard
      BY <1>1 DEF HangUp
    <3> QED  BY <3>1, <3>2
  <2> QED  BY <2>2, <2>3, <2>4, <2>5 DEF socket
<1>2. CASE HasData(w)
  <2>1. \E e \in Entries(w) : fd' = [fd EXCEPT ![w] = e.fd]
    BY <1>2 DEF HasData
  <2>2. fd' \in [Workers -> Fds]
    BY <2>1, EntriesType
  <2>3. pc' = [pc EXCEPT ![w] = "read"]
    BY <1>2 DEF HasData, Goto
  <2>4. UNCHANGED <<m_connectedClientsFds, socket, pollfds, i, msg, undefined, pushed, ret, unheard>>
    BY <1>2 DEF HasData
  <2> QED  BY <2>2, <2>3, <2>4 DEF socket
<1>3. CASE NoEvent(w)
  <2>1. /\ pc' \in [Workers -> {"idle", "accepted", "checkRx", "fill", "loop", "read", "push"}]
        /\ i' \in [Workers -> Nat \ {0}]
    <3>1. pc' = [pc EXCEPT ![w] = "loop"] /\ i' = [i EXCEPT ![w] = @ + 1]
      BY <1>3 DEF NoEvent, Goto, Next_i
    <3> QED  BY <3>1, MoveType
  <2>2. UNCHANGED <<m_connectedClientsFds, socket, fd, pollfds, msg, undefined, pushed, ret, unheard>>
    BY <1>3 DEF NoEvent
  <2> QED  BY <2>1, <2>2 DEF socket
<1>4. CASE LoopDone(w)
  <2>1. <<>> \in Seq([fd : Fds, revents : Events])
    BY EmptySeq
  <2>2. pollfds' \in [Workers -> Seq([fd : Fds, revents : Events])]
    BY <1>4, <2>1 DEF LoopDone
  <2>3. /\ pc' \in [Workers -> {"idle", "accepted", "checkRx", "fill", "loop", "read", "push"}]
        /\ i' \in [Workers -> Nat \ {0}]
    <3>1. pc' = [pc EXCEPT ![w] = "idle"] /\ i' = [i EXCEPT ![w] = 1]
      BY <1>4 DEF LoopDone, Goto
    <3> QED  BY <3>1, MoveType
  <2>4. UNCHANGED <<m_connectedClientsFds, socket, fd, msg, pushed, unheard>>
    BY <1>4 DEF LoopDone
  <2>5. undefined' \in BOOLEAN /\ ret' \in [Workers -> {-1, 0, 1}]
    BY <1>4 DEF LoopDone
  <2> QED  BY <2>2, <2>3, <2>4, <2>5 DEF socket
<1> QED  BY <1>1, <1>2, <1>3, <1>4

\* The two ends of what a read takes.
LEMMA SplitFacts ==
  ASSUME NEW S, NEW s \in Seq(S), NEW n \in Nat, n <= Len(s)
  PROVE  /\ SubSeq(s, 1, n) \in Seq(S) /\ Len(SubSeq(s, 1, n)) = n
         /\ Unread(s, n) \in Seq(S) /\ Len(Unread(s, n)) = Len(s) - n
         /\ \A x \in 1 .. n : SubSeq(s, 1, n)[x] = s[x]
         /\ \A x \in 1 .. Len(s) - n : Unread(s, n)[x] = s[n + x]
<1>1. Len(s) \in Nat /\ n \in Int /\ n + 1 \in Int /\ \A x \in 1 .. Len(s) : s[x] \in S
  BY LenProperties, ElementOfSeq
<1>2. (\A x \in 1 .. n : s[x] \in S) /\ (\A x \in n + 1 .. Len(s) : s[x] \in S)
  BY <1>1
<1>3. /\ SubSeq(s, 1, n) \in Seq(S) /\ Len(SubSeq(s, 1, n)) = IF 1 <= n THEN n - 1 + 1 ELSE 0
      /\ \A x \in 1 .. n - 1 + 1 : SubSeq(s, 1, n)[x] = s[1 + x - 1]
  BY <1>1, <1>2, SubSeqProperties
<1>4. /\ SubSeq(s, n + 1, Len(s)) \in Seq(S)
      /\ Len(SubSeq(s, n + 1, Len(s))) = IF n + 1 <= Len(s) THEN Len(s) - (n + 1) + 1 ELSE 0
      /\ \A x \in 1 .. Len(s) - (n + 1) + 1 : SubSeq(s, n + 1, Len(s))[x] = s[(n + 1) + x - 1]
  BY <1>1, <1>2, SubSeqProperties
<1>5. /\ Len(SubSeq(s, 1, n)) = n /\ \A x \in 1 .. n : SubSeq(s, 1, n)[x] = s[x]
  BY <1>3
<1>6. /\ Len(SubSeq(s, n + 1, Len(s))) = Len(s) - n
      /\ \A x \in 1 .. Len(s) - n : SubSeq(s, n + 1, Len(s))[x] = s[n + x]
  BY <1>1, <1>4
<1> QED  BY <1>3, <1>4, <1>5, <1>6 DEF Unread

\* readRxData() and the push.
LEMMA ReadType ==
  ASSUME TypeOK, NEW w \in Workers, Read(w) \/ ReadEnd(w) \/ ReadError(w) \/ Push(w)
  PROVE  TypeOK'
<1> USE DEF TypeOK
<1>0. <<>> \in Seq(Nat) /\ NoFd \in Fds /\ MaxRead \in Nat
  BY EmptySeq, TcpAssumption DEF Fds
<1>1. CASE Read(w)
  <2> DEFINE s == stream[fd[w]]
             n == IF Len(s) < MaxRead THEN Len(s) ELSE MaxRead
  <2>1. s \in Seq(Nat) /\ fd[w] \in Clients
    BY <1>1 DEF Read, Fds
  <2>2. n \in Nat /\ n <= Len(s)
    BY <1>0, <2>1, LenProperties
  <2>3. /\ msg' = [msg EXCEPT ![w] = SubSeq(s, 1, n)]
        /\ stream' = [stream EXCEPT ![fd[w]] = Unread(s, n)]
    BY <1>1 DEF Read
  <2>4. pc' = [pc EXCEPT ![w] = "push"]
    BY <1>1 DEF Read, Goto
  <2>5. UNCHANGED <<m_connectedClientsFds, backlog, conn, sent, fd, pollfds, i,
                    undefined, pushed, ret, unheard>>
    BY <1>1 DEF Read
  <2> HIDE DEF s, n
  <2>6. SubSeq(s, 1, n) \in Seq(Nat) /\ Unread(s, n) \in Seq(Nat)
    BY <2>1, <2>2, SplitFacts
  <2>7. msg' \in [Workers -> Seq(Nat)] /\ stream' \in [Clients -> Seq(Nat)]
    BY <2>3, <2>6
  <2> QED  BY <2>4, <2>5, <2>7
<1>2. CASE ReadEnd(w)
  <2>1. fd' \in [Workers -> Fds]
    BY <1>0, <1>2 DEF ReadEnd
  <2>2. /\ pc' \in [Workers -> {"idle", "accepted", "checkRx", "fill", "loop", "read", "push"}]
        /\ i' \in [Workers -> Nat \ {0}]
    <3>1. pc' = [pc EXCEPT ![w] = "loop"] /\ i' = [i EXCEPT ![w] = @ + 1]
      BY <1>2 DEF ReadEnd, Goto, Next_i
    <3> QED  BY <3>1, MoveType
  <2>3. UNCHANGED <<m_connectedClientsFds, socket, pollfds, msg, undefined, pushed, ret, unheard>>
    BY <1>2 DEF ReadEnd
  <2> QED  BY <2>1, <2>2, <2>3 DEF socket
<1>3. CASE ReadError(w)
  <2>1. msg' \in [Workers -> Seq(Nat)]
    BY <1>0, <1>3 DEF ReadError
  <2>2. pc' = [pc EXCEPT ![w] = "push"]
    BY <1>3 DEF ReadError, Goto
  <2>3. UNCHANGED <<m_connectedClientsFds, socket, fd, pollfds, i, undefined, pushed, ret, unheard>>
    BY <1>3 DEF ReadError
  <2> QED  BY <2>1, <2>2, <2>3 DEF socket
<1>4. CASE Push(w)
  <2>1. /\ msg' \in [Workers -> Seq(Nat)] /\ fd' \in [Workers -> Fds]
    BY <1>0, <1>4 DEF Push
  <2>2. /\ pc' \in [Workers -> {"idle", "accepted", "checkRx", "fill", "loop", "read", "push"}]
        /\ i' \in [Workers -> Nat \ {0}]
    <3>1. pc' = [pc EXCEPT ![w] = "loop"] /\ i' = [i EXCEPT ![w] = @ + 1]
      BY <1>4 DEF Push, Goto, Next_i
    <3> QED  BY <3>1, MoveType
  <2>3. UNCHANGED <<m_connectedClientsFds, socket, pollfds, undefined, ret, unheard>>
    BY <1>4 DEF Push
  <2>4. \A c \in Clients : pushed[c] \o msg[w] \in Seq(Nat)
    BY ConcatProperties
  <2>5. pushed' \in [Clients -> Seq(Nat)]
    <3>1. pushed' = IF fd[w] = NoFd THEN pushed
                    ELSE [pushed EXCEPT ![fd[w]] = pushed[fd[w]] \o msg[w]]
      BY <1>4 DEF Push
    <3>2. fd[w] # NoFd => fd[w] \in Clients
      BY DEF Fds
    <3> QED  BY <2>4, <3>1, <3>2
  <2> QED  BY <2>1, <2>2, <2>3, <2>5 DEF socket
<1> QED  BY <1>1, <1>2, <1>3, <1>4

\* Only accept() takes a worker to where it adds a client.
LEMMA NextAccepted ==
  ASSUME TypeOK, AcceptedIsClient, [Next]_vars
  PROVE  AcceptedIsClient'
<1>1. CASE \E w \in Workers : Accept(w)
  <2>1. PICK w \in Workers : Accept(w)
    BY <1>1
  <2>2. Head(backlog) \in Clients
    BY <2>1, HeadTailProperties DEF Accept, TypeOK
  <2>3. /\ fd' = [fd EXCEPT ![w] = Head(backlog)] /\ pc' = [pc EXCEPT ![w] = "accepted"]
    BY <2>1 DEF Accept, Goto
  <2>4. \A v \in Workers : v # w => pc'[v] = pc[v] /\ fd'[v] = fd[v]
    BY <2>3 DEF TypeOK
  <2>5. fd'[w] \in Clients
    BY <2>2, <2>3 DEF TypeOK
  <2> QED  BY <2>4, <2>5 DEF AcceptedIsClient
<1>2. CASE ~ \E w \in Workers : Accept(w)
  <2>1. \A v \in Workers : pc'[v] = "accepted" => pc[v] = "accepted" /\ fd'[v] = fd[v]
    <3>1. CASE Peer \/ UNCHANGED vars
      BY <3>1 DEF Peer, Connect, Send, Disconnect, Abort, server, vars, worker
    <3>2. ASSUME NEW w \in Workers,
                 AcceptNone(w) \/ AddClient(w) \/ NoEvent(w) \/ LoopDone(w) \/ HangUp(w)
                   \/ Read(w) \/ ReadError(w) \/ PollFails(w)
          PROVE  fd' = fd /\ \A v \in Workers : pc'[v] = "accepted" => pc[v] = "accepted"
      BY <3>2 DEF AcceptNone, AddClient, NoEvent, LoopDone, HangUp, Read, ReadError, PollFails,
                  Goto, TypeOK
    <3>3. ASSUME NEW w \in Workers,
                 CheckRx(w) \/ Fill(w) \/ Poll(w) \/ HasData(w) \/ ReadEnd(w) \/ Push(w)
          PROVE  \A v \in Workers : pc'[v] = "accepted" => v # w /\ pc[v] = "accepted"
      BY <3>3 DEF CheckRx, Fill, Poll, HasData, ReadEnd, Push, Goto, TypeOK
    <3>4. ASSUME NEW w \in Workers,
                 CheckRx(w) \/ Fill(w) \/ Poll(w) \/ HasData(w) \/ ReadEnd(w) \/ Push(w)
          PROVE  \A v \in Workers : v # w => fd'[v] = fd[v]
      BY <3>4 DEF CheckRx, Fill, Poll, HasData, ReadEnd, Push, TypeOK
    <3> QED  BY <1>2, <3>1, <3>2, <3>3, <3>4 DEF Next, RunStep
  <2> QED  BY <2>1 DEF AcceptedIsClient
<1> QED  BY <1>1, <1>2

\* Every step keeps the types.
LEMMA NextType == TypeOK /\ AcceptedIsClient /\ [Next]_vars => TypeOK' /\ AcceptedIsClient'
<1> SUFFICES ASSUME TypeOK, AcceptedIsClient, [Next]_vars PROVE TypeOK'
  BY NextAccepted
<1>1. CASE UNCHANGED vars
  BY <1>1 DEF TypeOK, vars, socket, worker
<1> QED  BY <1>1, PeerType, AcceptType, FillType, PollType, PollFailsType, LoopType, ReadType
         DEF Next, Peer, RunStep

\* Every state of the server has its type, whatever the clients and the workers do, also
\* when poll() and the loop look at entries of the array nobody has written.
THEOREM TypeCorrect == Spec => []TypeOK
<1>1. Init => TypeOK /\ AcceptedIsClient
  BY InitType DEF Init, AcceptedIsClient
<1> QED  BY <1>1, NextType, PTL DEF Spec

-----------------------------------------------------------------------------
(* Every piece of data is in one place.                                    *)

In(x, s) == \E k \in DOMAIN s : s[k] = x

\* ReadOnce of one client: what has been pushed, what nobody has read, what each worker
\* holds, whether the connection has kept everything, and how much was sent.
Places(p, s, h, whole, n) ==
  /\ \A j, k \in DOMAIN p : p[j] = p[k] => j = k
  /\ \A j, k \in DOMAIN s : s[j] = s[k] => j = k
  /\ \A j \in DOMAIN p : \A k \in DOMAIN s : p[j] # s[k]
  /\ \A w \in DOMAIN h : \A j \in DOMAIN h[w] :
       /\ \A k \in DOMAIN p : h[w][j] # p[k]
       /\ \A k \in DOMAIN s : h[w][j] # s[k]
  /\ \A v, w \in DOMAIN h : \A j \in DOMAIN h[v] : \A k \in DOMAIN h[w] :
       h[v][j] = h[w][k] => v = w /\ j = k
  /\ whole => \A x : x \in 1 .. n <=> In(x, p) \/ In(x, s) \/ \E w \in DOMAIN h : In(x, h[w])

\* What the workers hold of client c.
HeldAll(c) == [w \in Workers |-> Held(w, c)]

OncePlaces == \A c \in Clients : Places(pushed[c], stream[c], HeldAll(c), conn[c] # "broken", sent[c])

\* The elements of two sequences in a row.
LEMMA ConcatElements ==
  ASSUME NEW S, NEW a \in Seq(S), NEW b \in Seq(S)
  PROVE  /\ Len(a) \in Nat /\ Len(b) \in Nat
         /\ DOMAIN a = 1 .. Len(a) /\ DOMAIN b = 1 .. Len(b)
         /\ DOMAIN (a \o b) = 1 .. Len(a) + Len(b)
         /\ \A k \in DOMAIN a : k \in DOMAIN (a \o b) /\ (a \o b)[k] = a[k]
         /\ \A k \in DOMAIN b : Len(a) + k \in DOMAIN (a \o b) /\ (a \o b)[Len(a) + k] = b[k]
         /\ \A k \in DOMAIN (a \o b) :
              \/ k \in DOMAIN a /\ (a \o b)[k] = a[k]
              \/ k - Len(a) \in DOMAIN b /\ (a \o b)[k] = b[k - Len(a)] /\ k > Len(a)
<1> DEFINE c == a \o b
<1>1. /\ Len(a) \in Nat /\ Len(b) \in Nat
      /\ DOMAIN a = 1 .. Len(a) /\ DOMAIN b = 1 .. Len(b)
      /\ c \in Seq(S) /\ Len(c) = Len(a) + Len(b)
      /\ \A k \in 1 .. Len(a) + Len(b) : c[k] = IF k <= Len(a) THEN a[k] ELSE b[k - Len(a)]
  BY LenProperties, ConcatProperties
<1>2. DOMAIN c = 1 .. Len(a) + Len(b)
  BY <1>1, LenProperties
<1> HIDE DEF c
<1>3. \A k \in DOMAIN a : k \in DOMAIN c /\ c[k] = a[k]
  BY <1>1, <1>2
<1>4. \A k \in DOMAIN b : Len(a) + k \in DOMAIN c /\ c[Len(a) + k] = b[k]
  BY <1>1, <1>2
<1>5. \A k \in DOMAIN c :
        \/ k \in DOMAIN a /\ c[k] = a[k]
        \/ k - Len(a) \in DOMAIN b /\ c[k] = b[k - Len(a)] /\ k > Len(a)
  BY <1>1, <1>2
<1> QED  BY <1>1, <1>2, <1>3, <1>4, <1>5 DEF c

\* Two sequences in a row repeat nothing when neither does and they share nothing.
LEMMA ConcatInjective ==
  ASSUME NEW S, NEW a \in Seq(S), NEW b \in Seq(S)
  PROVE  IsInjective(a \o b) <=> /\ \A j, k \in DOMAIN a : a[j] = a[k] => j = k
                                 /\ \A j, k \in DOMAIN b : b[j] = b[k] => j = k
                                 /\ \A j \in DOMAIN a : \A k \in DOMAIN b : a[j] # b[k]
<1> DEFINE c == a \o b
<1>1. /\ Len(a) \in Nat /\ DOMAIN a = 1 .. Len(a) /\ DOMAIN b = 1 .. Len(b) /\ Len(b) \in Nat
      /\ \A k \in DOMAIN a : k \in DOMAIN c /\ c[k] = a[k]
      /\ \A k \in DOMAIN b : Len(a) + k \in DOMAIN c /\ c[Len(a) + k] = b[k]
      /\ DOMAIN c = 1 .. Len(a) + Len(b)
      /\ \A k \in DOMAIN c :
           \/ k \in DOMAIN a /\ c[k] = a[k]
           \/ k - Len(a) \in DOMAIN b /\ c[k] = b[k - Len(a)] /\ k > Len(a)
  BY ConcatElements
<1> HIDE DEF c
<1>2. ASSUME IsInjective(c)
      PROVE  /\ \A j, k \in DOMAIN a : a[j] = a[k] => j = k
             /\ \A j, k \in DOMAIN b : b[j] = b[k] => j = k
             /\ \A j \in DOMAIN a : \A k \in DOMAIN b : a[j] # b[k]
  <2>1. \A j, k \in DOMAIN c : c[j] = c[k] => j = k
    BY <1>2 DEF IsInjective
  <2>2. \A j, k \in DOMAIN a : a[j] = a[k] => j = k
    BY <1>1, <2>1
  <2>3. ASSUME NEW j \in DOMAIN b, NEW k \in DOMAIN b, b[j] = b[k] PROVE j = k
    <3>1. Len(a) + j = Len(a) + k
      BY <1>1, <2>1, <2>3
    <3> QED  BY <1>1, <3>1
  <2>4. ASSUME NEW j \in DOMAIN a, NEW k \in DOMAIN b PROVE a[j] # b[k]
    <3>1. j # Len(a) + k
      BY <1>1
    <3> QED  BY <1>1, <2>1, <3>1
  <2> QED  BY <2>2, <2>3, <2>4
<1>3. ASSUME \A j, k \in DOMAIN a : a[j] = a[k] => j = k,
             \A j, k \in DOMAIN b : b[j] = b[k] => j = k,
             \A j \in DOMAIN a : \A k \in DOMAIN b : a[j] # b[k]
      PROVE  IsInjective(c)
  <2> SUFFICES ASSUME NEW j \in DOMAIN c, NEW k \in DOMAIN c, c[j] = c[k] PROVE j = k
    BY DEF IsInjective
  <2>1. CASE j \in DOMAIN a /\ c[j] = a[j] /\ k \in DOMAIN a /\ c[k] = a[k]
    BY <1>3, <2>1
  <2>2. CASE /\ j - Len(a) \in DOMAIN b /\ c[j] = b[j - Len(a)]
             /\ k - Len(a) \in DOMAIN b /\ c[k] = b[k - Len(a)]
    <3>1. j - Len(a) = k - Len(a)
      BY <1>3, <2>2
    <3> QED  BY <1>1, <3>1
  <2>3. CASE j \in DOMAIN a /\ c[j] = a[j] /\ k - Len(a) \in DOMAIN b /\ c[k] = b[k - Len(a)]
    BY <1>3, <2>3
  <2>4. CASE k \in DOMAIN a /\ c[k] = a[k] /\ j - Len(a) \in DOMAIN b /\ c[j] = b[j - Len(a)]
    BY <1>3, <2>4
  <2> QED  BY <1>1, <2>1, <2>2, <2>3, <2>4
<1> QED  BY <1>2, <1>3 DEF c

\* The client sends one more piece.
LEMMA PlacesSend ==
  ASSUME NEW p, NEW s \in Seq(Nat), NEW h, NEW n \in Nat, Places(p, s, h, TRUE, n)
  PROVE  Places(p, Append(s, n + 1), h, TRUE, n + 1)
<1> DEFINE t == Append(s, n + 1)
           e == Len(s) + 1
<1>1. /\ e \in DOMAIN t /\ t[e] = n + 1
      /\ \A k \in DOMAIN s : k \in DOMAIN t /\ t[k] = s[k]
      /\ \A k \in DOMAIN t : k # e => k \in DOMAIN s /\ t[k] = s[k]
  BY AppendProperties, LenProperties
<1> HIDE DEF t, e
<1>2. ~ (n + 1 \in 1 .. n)
  OBVIOUS
<1>3. ~ In(n + 1, p) /\ ~ In(n + 1, s) /\ \A w \in DOMAIN h : ~ In(n + 1, h[w])
  BY <1>2 DEF Places
<1>4. /\ \A k \in DOMAIN p : p[k] # n + 1
      /\ \A k \in DOMAIN s : s[k] # n + 1
      /\ \A w \in DOMAIN h : \A k \in DOMAIN h[w] : h[w][k] # n + 1
  BY <1>3 DEF In
<1>5. \A x : In(x, t) <=> In(x, s) \/ x = n + 1
  BY <1>1 DEF In
<1>6. \A x : x \in 1 .. n + 1 <=> x \in 1 .. n \/ x = n + 1
  OBVIOUS
<1>7. \A x : x \in 1 .. n + 1 <=> In(x, p) \/ In(x, t) \/ \E w \in DOMAIN h : In(x, h[w])
  BY <1>5, <1>6 DEF Places
<1>8. /\ \A j, k \in DOMAIN t : t[j] = t[k] => j = k
      /\ \A j \in DOMAIN p : \A k \in DOMAIN t : p[j] # t[k]
      /\ \A w \in DOMAIN h : \A j \in DOMAIN h[w] : \A k \in DOMAIN t : h[w][j] # t[k]
  BY <1>1, <1>4 DEF Places
<1> QED  BY <1>7, <1>8 DEF Places, t

\* A worker that holds nothing takes the beginning of what nobody has read.
LEMMA PlacesRead ==
  ASSUME NEW S, NEW p, NEW s \in Seq(S), NEW h, NEW g, NEW whole, NEW m,
         NEW w \in DOMAIN h, NEW n \in Nat, n <= Len(s), Places(p, s, h, whole, m),
         DOMAIN g = DOMAIN h, h[w] = <<>>, g[w] = SubSeq(s, 1, n),
         \A v \in DOMAIN h \ {w} : g[v] = h[v]
  PROVE  Places(p, Unread(s, n), g, whole, m)
<1> DEFINE a == SubSeq(s, 1, n)
           b == Unread(s, n)
<1>1. /\ a \in Seq(S) /\ Len(a) = n /\ b \in Seq(S) /\ Len(b) = Len(s) - n
      /\ \A x \in 1 .. n : a[x] = s[x]
      /\ \A x \in 1 .. Len(s) - n : b[x] = s[n + x]
  BY ONLY SplitFacts, s \in Seq(S), n \in Nat, n <= Len(s)
<1>2. /\ DOMAIN a = 1 .. n /\ DOMAIN b = 1 .. Len(s) - n
      /\ Len(s) \in Nat /\ DOMAIN s = 1 .. Len(s)
  BY <1>1, LenProperties
<1>3. g[w] = a
  OBVIOUS
<1> HIDE DEF a, b
<1>4. /\ \A k \in DOMAIN a : k \in DOMAIN s /\ a[k] = s[k]
      /\ \A k \in DOMAIN b : n + k \in DOMAIN s /\ b[k] = s[n + k]
      /\ \A j \in DOMAIN a : \A k \in DOMAIN b : j # n + k
      /\ \A j, k \in DOMAIN b : n + j = n + k => j = k
  BY <1>1, <1>2
<1>5. \A k \in DOMAIN s : (k \in DOMAIN a /\ a[k] = s[k]) \/ (k - n \in DOMAIN b /\ b[k - n] = s[k])
  BY <1>1, <1>2
<1>6. \A x : In(x, s) <=> In(x, a) \/ In(x, b)
  BY <1>4, <1>5 DEF In
<1>7. DOMAIN h[w] = {}
  OBVIOUS
<1>8. \A x : (\E v \in DOMAIN g : In(x, g[v])) <=> In(x, a) \/ \E v \in DOMAIN h : In(x, h[v])
  <2>1. \A x : ~ In(x, h[w])
    BY <1>7 DEF In
  <2> QED  BY <1>3, <2>1
<1>9. /\ \A j, k \in DOMAIN b : b[j] = b[k] => j = k
      /\ \A j \in DOMAIN p : \A k \in DOMAIN b : p[j] # b[k]
  BY <1>4 DEF Places
<1>10. \A v \in DOMAIN g : \A j \in DOMAIN g[v] :
         /\ \A k \in DOMAIN p : g[v][j] # p[k]
         /\ \A k \in DOMAIN b : g[v][j] # b[k]
  <2> SUFFICES ASSUME NEW v \in DOMAIN g, NEW j \in DOMAIN g[v]
               PROVE  /\ \A k \in DOMAIN p : g[v][j] # p[k]
                      /\ \A k \in DOMAIN b : g[v][j] # b[k]
    OBVIOUS
  <2>1. CASE v = w
    BY <1>3, <1>4, <2>1 DEF Places
  <2>2. CASE v # w
    BY <1>4, <2>2 DEF Places
  <2> QED  BY <2>1, <2>2
<1>11. \A u, v \in DOMAIN g : \A j \in DOMAIN g[u] : \A k \in DOMAIN g[v] :
         g[u][j] = g[v][k] => u = v /\ j = k
  <2> SUFFICES ASSUME NEW u \in DOMAIN g, NEW v \in DOMAIN g,
                      NEW j \in DOMAIN g[u], NEW k \in DOMAIN g[v], g[u][j] = g[v][k]
               PROVE  u = v /\ j = k
    OBVIOUS
  <2>1. CASE u = w /\ v = w
    BY <1>3, <1>4, <2>1 DEF Places
  <2>2. CASE u = w /\ v # w
    BY <1>3, <1>4, <2>2 DEF Places
  <2>3. CASE u # w /\ v = w
    BY <1>3, <1>4, <2>3 DEF Places
  <2>4. CASE u # w /\ v # w
    BY <2>4 DEF Places
  <2> QED  BY <2>1, <2>2, <2>3, <2>4
<1>12. whole => \A x : x \in 1 .. m <=> In(x, p) \/ In(x, b) \/ \E v \in DOMAIN g : In(x, g[v])
  BY <1>6, <1>8 DEF Places
<1>13. \A j, k \in DOMAIN p : p[j] = p[k] => j = k
  BY DEF Places
<1> QED  BY <1>9, <1>10, <1>11, <1>12, <1>13 DEF Places, b

\* A worker pushes what it holds.
LEMMA PlacesPush ==
  ASSUME NEW S, NEW p \in Seq(S), NEW s, NEW h, NEW g, NEW whole, NEW m,
         NEW w \in DOMAIN h, h[w] \in Seq(S), Places(p, s, h, whole, m),
         DOMAIN g = DOMAIN h, g[w] = <<>>,
         \A v \in DOMAIN h \ {w} : g[v] = h[v]
  PROVE  Places(p \o h[w], s, g, whole, m)
<1> DEFINE b == h[w]
           q == p \o b
<1>1. /\ \A j, k \in DOMAIN p : p[j] = p[k] => j = k
      /\ \A j, k \in DOMAIN b : b[j] = b[k] => j = k
      /\ \A j \in DOMAIN p : \A k \in DOMAIN b : p[j] # b[k]
  BY DEF Places
<1>2. IsInjective(q)
  <2> HIDE DEF b
  <2>1. b \in Seq(S)
    BY DEF b
  <2> QED  BY <1>1, <2>1, ConcatInjective
<1>3. /\ \A k \in DOMAIN p : k \in DOMAIN q /\ q[k] = p[k]
      /\ \A k \in DOMAIN b : Len(p) + k \in DOMAIN q /\ q[Len(p) + k] = b[k]
      /\ \A k \in DOMAIN q : \/ k \in DOMAIN p /\ q[k] = p[k]
                             \/ k - Len(p) \in DOMAIN b /\ q[k] = b[k - Len(p)]
  BY ConcatElements
<1> HIDE DEF q
<1>4. \A x : In(x, q) <=> In(x, p) \/ In(x, b)
  <2> HIDE DEF b
  <2> QED  BY <1>3 DEF In
<1>5. DOMAIN g[w] = {}
  OBVIOUS
<1>6. \A v \in DOMAIN g : \A j \in DOMAIN g[v] : v \in DOMAIN h \ {w} /\ g[v] = h[v]
  BY <1>5
<1>7. \A x : In(x, b) \/ (\E v \in DOMAIN g : In(x, g[v])) <=> \E v \in DOMAIN h : In(x, h[v])
  <2>1. \A x : ~ In(x, g[w])
    BY <1>5 DEF In
  <2> QED  BY <2>1
<1>8. \A j, k \in DOMAIN q : q[j] = q[k] => j = k
  BY <1>2 DEF IsInjective
<1>9. \A j \in DOMAIN q : \A k \in DOMAIN s : q[j] # s[k]
  BY <1>3 DEF Places
<1>10. \A v \in DOMAIN g : \A j \in DOMAIN g[v] :
         /\ \A k \in DOMAIN q : g[v][j] # q[k]
         /\ \A k \in DOMAIN s : g[v][j] # s[k]
  <2> SUFFICES ASSUME NEW v \in DOMAIN g, NEW j \in DOMAIN g[v]
               PROVE  /\ \A k \in DOMAIN q : g[v][j] # q[k]
                      /\ \A k \in DOMAIN s : g[v][j] # s[k]
    OBVIOUS
  <2>1. v \in DOMAIN h \ {w} /\ g[v] = h[v]
    BY <1>6
  <2>2. /\ \A k \in DOMAIN p : h[v][j] # p[k]
        /\ \A k \in DOMAIN b : h[v][j] # b[k]
        /\ \A k \in DOMAIN s : h[v][j] # s[k]
    BY <2>1 DEF Places
  <2> HIDE DEF b
  <2> QED  BY <1>3, <2>1, <2>2
<1>11. \A u, v \in DOMAIN g : \A j \in DOMAIN g[u] : \A k \in DOMAIN g[v] :
         g[u][j] = g[v][k] => u = v /\ j = k
  BY <1>6 DEF Places
<1>12. whole => \A x : x \in 1 .. m <=> In(x, q) \/ In(x, s) \/ \E v \in DOMAIN g : In(x, g[v])
  <2> HIDE DEF b
  <2> QED  BY <1>4, <1>7 DEF Places
<1>13. \A j, k \in DOMAIN s : s[j] = s[k] => j = k
  BY DEF Places
<1> QED  BY <1>8, <1>9, <1>10, <1>11, <1>12, <1>13 DEF Places, q, b

\* The connection breaks.
LEMMA PlacesAbort ==
  ASSUME NEW p, NEW s, NEW h, NEW whole, NEW n, Places(p, s, h, whole, n)
  PROVE  Places(p, <<>>, h, FALSE, n)
<1>1. DOMAIN <<>> = {}
  OBVIOUS
<1> QED  BY <1>1 DEF Places

\* Places of every client is ReadOnce.
LEMMA OncePlacesIsReadOnce ==
  ASSUME TypeOK, OncePlaces
  PROVE  ReadOnce
<1> SUFFICES ASSUME NEW c \in Clients
             PROVE  /\ IsInjective(pushed[c] \o stream[c])
                    /\ \A v \in Workers :
                         /\ IsInjective(Held(v, c))
                         /\ Range(Held(v, c)) \cap Range(pushed[c] \o stream[c]) = {}
                         /\ \A w \in Workers \ {v} : Range(Held(v, c)) \cap Range(Held(w, c)) = {}
                    /\ conn[c] # "broken" =>
                         1 .. sent[c] = Range(pushed[c] \o stream[c])
                                          \cup UNION {Range(Held(w, c)) : w \in Workers}
  BY DEF ReadOnce
<1> DEFINE p == pushed[c]
           s == stream[c]
           h == HeldAll(c)
           whole == conn[c] # "broken"
<1>1. p \in Seq(Nat) /\ s \in Seq(Nat) /\ Places(p, s, h, whole, sent[c])
  BY DEF TypeOK, OncePlaces
<1>2. DOMAIN h = Workers /\ \A w \in Workers : h[w] = Held(w, c)
  BY DEF HeldAll
<1>3. Range(p \o s) = Range(p) \cup Range(s)
  BY <1>1, RangeConcatenation
<1> HIDE DEF p, s, h, whole
<1>4. \A f, x : x \in Range(f) <=> In(x, f)
  BY DEF Range, In
<1>5. IsInjective(p \o s)
  BY <1>1, ConcatInjective DEF Places
<1>6. \A v \in Workers : IsInjective(h[v])
  BY <1>1, <1>2 DEF Places, IsInjective
<1>7. ASSUME NEW v \in Workers PROVE Range(h[v]) \cap Range(p \o s) = {}
  <2>1. \A x : ~ (x \in Range(h[v]) /\ (x \in Range(p) \/ x \in Range(s)))
    BY <1>1, <1>2, <1>4 DEF Places, In
  <2> QED  BY <1>3, <2>1
<1>8. ASSUME NEW v \in Workers, NEW w \in Workers \ {v} PROVE Range(h[v]) \cap Range(h[w]) = {}
  <2>1. \A x : ~ (In(x, h[v]) /\ In(x, h[w]))
    BY <1>1, <1>2 DEF Places, In
  <2> QED  BY <1>4, <2>1
<1>9. ASSUME whole
      PROVE  1 .. sent[c] = Range(p \o s) \cup UNION {Range(Held(w, c)) : w \in Workers}
  <2>1. \A x : x \in UNION {Range(Held(w, c)) : w \in Workers}
                 <=> \E w \in Workers : x \in Range(Held(w, c))
    OBVIOUS
  <2>2. \A x : x \in UNION {Range(Held(w, c)) : w \in Workers} <=> \E w \in DOMAIN h : In(x, h[w])
    BY <1>2, <1>4, <2>1
  <2> DEFINE U == UNION {Range(Held(w, c)) : w \in Workers}
             N == 1 .. sent[c]
  <2>3. \A x : x \in N <=> In(x, p) \/ In(x, s) \/ \E w \in DOMAIN h : In(x, h[w])
    BY <1>1, <1>9 DEF Places
  <2>4. \A x : x \in U <=> \E w \in DOMAIN h : In(x, h[w])
    BY <2>2
  <2> HIDE DEF U, N
  <2>5. N = Range(p \o s) \cup U
    BY <1>3, <1>4, <2>3, <2>4
  <2> QED  BY <2>5 DEF U, N
<1> QED  BY <1>2, <1>5, <1>6, <1>7, <1>8, <1>9 DEF p, s, whole

\* Nothing has been sent.
LEMMA InitPlaces == Init => OncePlaces
<1> SUFFICES ASSUME Init, NEW c \in Clients
             PROVE  Places(pushed[c], stream[c], HeldAll(c), conn[c] # "broken", sent[c])
  BY DEF OncePlaces
<1>1. /\ DOMAIN pushed[c] = {} /\ DOMAIN stream[c] = {} /\ sent[c] = 0
      /\ DOMAIN HeldAll(c) = Workers
      /\ \A w \in Workers : DOMAIN HeldAll(c)[w] = {}
  BY DEF Init, HeldAll, Held
<1>2. \A x : ~ (x \in 1 .. 0)
  OBVIOUS
<1> QED  BY <1>1, <1>2 DEF Places, In

\* Steps that move no data.
LEMMA PlacesAside ==
  ASSUME OncePlaces, UNCHANGED <<pushed, stream, sent>>,
         \A c \in Clients : conn'[c] = "broken" <=> conn[c] = "broken",
         \A c \in Clients : HeldAll(c)' = HeldAll(c)
  PROVE  OncePlaces'
<1> SUFFICES ASSUME NEW c \in Clients
             PROVE  Places(pushed[c], stream[c], HeldAll(c)', conn'[c] # "broken", sent[c])
  BY DEF OncePlaces
<1>1. Places(pushed[c], stream[c], HeldAll(c), conn[c] # "broken", sent[c])
  BY DEF OncePlaces
<1>2. HeldAll(c)' = HeldAll(c) /\ ((conn'[c] # "broken") = (conn[c] # "broken"))
  OBVIOUS
<1> QED  BY <1>1, <1>2

\* What one worker holds changes, of one client.
LEMMA HeldFrame ==
  ASSUME TypeOK, NEW w \in Workers, NEW p,
         pc' = [pc EXCEPT ![w] = p],
         \A v \in Workers : v # w => fd'[v] = fd[v] /\ msg'[v] = msg[v],
         NEW c \in Clients
  PROVE  /\ DOMAIN HeldAll(c) = Workers /\ DOMAIN HeldAll(c)' = Workers
         /\ \A v \in Workers \ {w} : HeldAll(c)'[v] = HeldAll(c)[v]
         /\ Held(w, c)' = Held(w, c) => HeldAll(c)' = HeldAll(c)
<1>1. \A v \in Workers \ {w} : Held(v, c)' = Held(v, c)
  BY DEF Held, TypeOK
<1> QED  BY <1>1 DEF HeldAll

\* The clients.
LEMMA PeerPlaces ==
  ASSUME TypeOK, OncePlaces, NEW c \in Clients,
         Connect(c) \/ Send(c) \/ Disconnect(c) \/ Abort(c)
  PROVE  OncePlaces'
<1>0. /\ \A d : HeldAll(d)' = HeldAll(d)
      /\ pushed' = pushed
  BY DEF Connect, Send, Disconnect, Abort, server, worker, HeldAll, Held
<1>1. CASE Connect(c) \/ Disconnect(c)
  <2>1. /\ UNCHANGED <<stream, sent>>
        /\ \A d \in Clients : conn'[d] = "broken" <=> conn[d] = "broken"
    BY <1>1 DEF Connect, Disconnect, TypeOK
  <2> QED  BY <1>0, <2>1, PlacesAside
<1>2. CASE Send(c)
  <2>1. /\ conn[c] = "up" /\ conn' = conn
        /\ sent' = [sent EXCEPT ![c] = @ + 1]
        /\ stream' = [stream EXCEPT ![c] = Append(@, sent'[c])]
    BY <1>2 DEF Send
  <2>2. sent \in [Clients -> Nat] /\ stream \in [Clients -> Seq(Nat)]
    BY DEF TypeOK
  <2>3. sent'[c] = sent[c] + 1 /\ stream'[c] = Append(stream[c], sent[c] + 1)
    BY <2>1, <2>2
  <2>4. \A d \in Clients \ {c} : sent'[d] = sent[d] /\ stream'[d] = stream[d]
    BY <2>1, <2>2
  <2>5. Places(pushed[c], stream[c], HeldAll(c), TRUE, sent[c])
    <3>1. (conn[c] # "broken") = TRUE
      BY <2>1
    <3> QED  BY <3>1 DEF OncePlaces
  <2>6. Places(pushed[c], Append(stream[c], sent[c] + 1), HeldAll(c), TRUE, sent[c] + 1)
    BY <2>2, <2>5, PlacesSend
  <2>7. Places(pushed'[c], stream'[c], HeldAll(c)', conn'[c] # "broken", sent'[c])
    <3>1. (conn'[c] # "broken") = TRUE
      BY <2>1
    <3> QED  BY <1>0, <2>3, <2>6, <3>1
  <2>8. \A d \in Clients \ {c} :
          Places(pushed'[d], stream'[d], HeldAll(d)', conn'[d] # "broken", sent'[d])
    BY <1>0, <2>1, <2>4 DEF OncePlaces
  <2>9. \A d \in Clients :
          Places(pushed'[d], stream'[d], HeldAll(d)', conn'[d] # "broken", sent'[d])
    BY <2>7, <2>8
  <2> QED  BY <2>9 DEF OncePlaces
<1>3. CASE Abort(c)
  <2>1. /\ conn' = [conn EXCEPT ![c] = "broken"] /\ sent' = sent
        /\ stream' = [stream EXCEPT ![c] = <<>>]
        /\ stream \in [Clients -> Seq(Nat)]
        /\ conn \in [Clients -> {"none", "up", "closed", "broken"}]
    BY <1>3 DEF Abort, TypeOK
  <2>2. Places(pushed[c], stream[c], HeldAll(c), conn[c] # "broken", sent[c])
    BY DEF OncePlaces
  <2>3. Places(pushed[c], <<>>, HeldAll(c), FALSE, sent[c])
    BY <2>2, PlacesAbort
  <2>4. (conn'[c] # "broken") = FALSE /\ stream'[c] = <<>>
    BY <2>1
  <2>5. Places(pushed'[c], stream'[c], HeldAll(c)', conn'[c] # "broken", sent'[c])
    BY <1>0, <2>1, <2>3, <2>4
  <2>6. \A d \in Clients \ {c} : conn'[d] = conn[d] /\ stream'[d] = stream[d]
    BY <2>1
  <2>7. \A d \in Clients \ {c} :
          Places(pushed'[d], stream'[d], HeldAll(d)', conn'[d] # "broken", sent'[d])
    BY <1>0, <2>1, <2>6 DEF OncePlaces
  <2>8. \A d \in Clients :
          Places(pushed'[d], stream'[d], HeldAll(d)', conn'[d] # "broken", sent'[d])
    BY <2>5, <2>7
  <2> QED  BY <2>8 DEF OncePlaces
<1> QED  BY <1>1, <1>2, <1>3

\* A read takes the beginning of a stream into the hands of its worker.
LEMMA ReadPlaces ==
  ASSUME TypeOK, OncePlaces, NEW w \in Workers, Read(w), NEW c \in Clients, fd[w] = c
  PROVE  OncePlaces'
<1> DEFINE s == stream[c]
           n == IF Len(s) < MaxRead THEN Len(s) ELSE MaxRead
           m == SubSeq(s, 1, n)
           u == Unread(s, n)
<1>1. /\ pc[w] = "read" /\ pc' = [pc EXCEPT ![w] = "push"]
      /\ msg' = [msg EXCEPT ![w] = m]
      /\ stream' = [stream EXCEPT ![c] = u]
      /\ UNCHANGED <<conn, sent, fd, pushed>>
  BY DEF Read, Goto
<1>2. /\ stream \in [Clients -> Seq(Nat)] /\ msg \in [Workers -> Seq(Nat)]
      /\ pc \in [Workers -> {"idle", "accepted", "checkRx", "fill", "loop", "read", "push"}]
  BY DEF TypeOK
<1>3. s \in Seq(Nat) /\ n \in Nat /\ n <= Len(s)
  BY <1>2, LenProperties, TcpAssumption
<1>3a. n \in 0 .. Len(s) /\ Len(s) \in Nat
  BY <1>3, LenProperties
<1> HIDE DEF m, u
<1>4. /\ \A v \in Workers : v # w => fd'[v] = fd[v] /\ msg'[v] = msg[v]
      /\ msg'[w] = m /\ pc'[w] = "push" /\ fd'[w] = c
      /\ stream'[c] = u /\ \A d \in Clients \ {c} : stream'[d] = stream[d]
  BY <1>1, <1>2
<1>5. /\ \A d : Held(w, d) = <<>>
      /\ \A d : Held(w, d)' = IF d = c THEN m ELSE <<>>
  BY <1>1, <1>4 DEF Held
<1>6. \A d \in Clients : /\ DOMAIN HeldAll(d) = Workers /\ DOMAIN HeldAll(d)' = Workers
                         /\ \A v \in Workers \ {w} : HeldAll(d)'[v] = HeldAll(d)[v]
                         /\ Held(w, d)' = Held(w, d) => HeldAll(d)' = HeldAll(d)
  BY <1>1, <1>4, HeldFrame
<1>7. \A d : HeldAll(d)'[w] = Held(w, d)' /\ HeldAll(d)[w] = Held(w, d)
  BY DEF HeldAll
<1>8. Places(pushed[c], s, HeldAll(c), conn[c] # "broken", sent[c])
  BY DEF OncePlaces
<1>9. Places(pushed[c], u, HeldAll(c)', conn[c] # "broken", sent[c])
  <2> DEFINE h == HeldAll(c)
             g == HeldAll(c)'
             whole == conn[c] # "broken"
  <2>1. /\ DOMAIN h = Workers /\ DOMAIN g = Workers
        /\ \A v \in Workers \ {w} : g[v] = h[v]
        /\ h[w] = <<>> /\ g[w] = m
    BY <1>5, <1>6, <1>7
  <2> HIDE DEF h, g, whole, s, n
  <2>2. Places(pushed[c], s, h, whole, sent[c])
    BY <1>8 DEF h, whole
  <2> QED  BY <1>3, <1>3a, <2>1, <2>2, PlacesRead DEF m, u, g, whole
<1>10. ASSUME NEW d \in Clients
       PROVE  Places(pushed[d], stream'[d], HeldAll(d)', conn[d] # "broken", sent[d])
  <2>1. CASE d = c
    BY <1>4, <1>9, <2>1
  <2>2. CASE d # c
    <3>1. HeldAll(d)' = HeldAll(d) /\ stream'[d] = stream[d]
      BY <1>4, <1>5, <1>6, <2>2
    <3> QED  BY <3>1 DEF OncePlaces
  <2> QED  BY <2>1, <2>2
<1> QED  BY <1>1, <1>10 DEF OncePlaces

\* A push takes them from there to what has been pushed.
LEMMA PushPlaces ==
  ASSUME TypeOK, OncePlaces, NEW w \in Workers, Push(w), NEW c \in Fds, fd[w] = c
  PROVE  OncePlaces'
<1> DEFINE m == msg[w]
<1>1. /\ pc[w] = "push" /\ pc' = [pc EXCEPT ![w] = "loop"]
      /\ msg' = [msg EXCEPT ![w] = <<>>] /\ fd' = [fd EXCEPT ![w] = NoFd]
      /\ UNCHANGED <<conn, sent, stream>>
      /\ pushed' = IF c = NoFd THEN pushed ELSE [pushed EXCEPT ![c] = pushed[c] \o m]
  BY DEF Push, Goto, socket
<1>2. /\ pushed \in [Clients -> Seq(Nat)] /\ msg \in [Workers -> Seq(Nat)]
      /\ pc \in [Workers -> {"idle", "accepted", "checkRx", "fill", "loop", "read", "push"}]
      /\ fd \in [Workers -> Fds]
  BY DEF TypeOK
<1>3. m \in Seq(Nat)
  BY <1>2
<1>4. /\ \A v \in Workers : v # w => fd'[v] = fd[v] /\ msg'[v] = msg[v]
      /\ pc'[w] = "loop"
  BY <1>1, <1>2
<1>5. /\ \A d : Held(w, d) = IF d = c THEN m ELSE <<>>
      /\ \A d : Held(w, d)' = <<>>
  BY <1>1, <1>4 DEF Held
<1>6. \A d \in Clients : /\ DOMAIN HeldAll(d) = Workers /\ DOMAIN HeldAll(d)' = Workers
                         /\ \A v \in Workers \ {w} : HeldAll(d)'[v] = HeldAll(d)[v]
                         /\ Held(w, d)' = Held(w, d) => HeldAll(d)' = HeldAll(d)
  BY <1>1, <1>4, HeldFrame
<1>7. \A d \in Clients : d # c => HeldAll(d)' = HeldAll(d)
  BY <1>5, <1>6
<1>8. CASE c = NoFd
  <2>1. pushed' = pushed /\ \A d \in Clients : d # c
    BY <1>1, <1>8, TcpAssumption
  <2> QED  BY <1>1, <1>7, <2>1, PlacesAside
<1>9. CASE c \in Clients
  <2>1. pushed' = [pushed EXCEPT ![c] = pushed[c] \o m]
    BY <1>1, <1>9, TcpAssumption
  <2>2. /\ pushed'[c] = pushed[c] \o m
        /\ \A d \in Clients \ {c} : pushed'[d] = pushed[d]
    BY <1>2, <1>9, <2>1
  <2>3. \A d : HeldAll(d)'[w] = Held(w, d)' /\ HeldAll(d)[w] = Held(w, d)
    BY DEF HeldAll
  <2>4. Places(pushed[c] \o m, stream[c], HeldAll(c)', conn[c] # "broken", sent[c])
    <3> DEFINE h == HeldAll(c)
               g == HeldAll(c)'
               whole == conn[c] # "broken"
               p == pushed[c]
    <3>1. /\ DOMAIN h = Workers /\ DOMAIN g = Workers
          /\ \A v \in Workers \ {w} : g[v] = h[v]
          /\ h[w] = m /\ g[w] = <<>>
      BY <1>5, <1>6, <1>9, <2>3
    <3>2. p \in Seq(Nat)
      BY <1>2, <1>9
    <3> HIDE DEF h, g, whole, m
    <3>3. Places(p, stream[c], h, whole, sent[c])
      BY <1>9 DEF OncePlaces, h, whole
    <3> HIDE DEF p
    <3>4. Places(p \o m, stream[c], g, whole, sent[c])
      BY <1>3, <3>1, <3>2, <3>3, PlacesPush
    <3> QED  BY <3>4 DEF p, g, whole
  <2>5. ASSUME NEW d \in Clients
        PROVE  Places(pushed'[d], stream[d], HeldAll(d)', conn[d] # "broken", sent[d])
    <3>1. CASE d = c
      BY <2>2, <2>4, <3>1
    <3>2. CASE d # c
      BY <1>7, <2>2, <3>2 DEF OncePlaces
    <3> QED  BY <3>1, <3>2
  <2> QED  BY <1>1, <2>5 DEF OncePlaces
<1> QED  BY <1>8, <1>9 DEF Fds

\* Worker w does something else: whatever it holds, it holds before and after.
Aside(w) ==
  \/ Accept(w) \/ AcceptNone(w) \/ AddClient(w) \/ CheckRx(w) \/ Fill(w) \/ Poll(w)
  \/ PollFails(w) \/ HangUp(w) \/ HasData(w) \/ NoEvent(w) \/ LoopDone(w) \/ ReadEnd(w) \/ ReadError(w)

\* An error returns an empty message; nothing but a read and a push moves data.
LEMMA AsideMovesNothing ==
  ASSUME TypeOK, NEW w \in Workers, Aside(w)
  PROVE  /\ UNCHANGED <<pushed, stream, sent, conn>>
         /\ \A v \in Workers, c \in Clients : Held(v, c)' = Held(v, c)
         /\ \A c \in Clients : HeldAll(c)' = HeldAll(c)
<1>1. /\ UNCHANGED <<pushed, stream, sent, conn>>
      /\ \A v \in Workers : v # w => fd'[v] = fd[v] /\ msg'[v] = msg[v]
  <2>1. CASE \/ Accept(w) \/ AcceptNone(w) \/ AddClient(w) \/ CheckRx(w) \/ Fill(w) \/ Poll(w)
             \/ PollFails(w)
    BY <2>1 DEF Accept, AcceptNone, AddClient, CheckRx, Fill, Poll, PollFails, socket, TypeOK
  <2>2. CASE HangUp(w) \/ HasData(w) \/ NoEvent(w) \/ LoopDone(w) \/ ReadEnd(w) \/ ReadError(w)
    BY <2>2 DEF HangUp, HasData, NoEvent, LoopDone, ReadEnd, ReadError, socket, TypeOK
  <2> QED  BY <2>1, <2>2 DEF Aside
<1>2. pc[w] # "push" /\ \E q : pc' = [pc EXCEPT ![w] = q]
  BY DEF Aside, Accept, AcceptNone, AddClient, CheckRx, Fill, Poll, PollFails, HangUp, HasData,
         NoEvent, LoopDone, ReadEnd, ReadError, Goto
<1>3. pc'[w] = "push" => msg'[w] = <<>>
  <2>1. CASE ReadError(w)
    BY <2>1 DEF ReadError, TypeOK
  <2>2. CASE ~ ReadError(w)
    <3>1. pc'[w] # "push"
      BY <2>2 DEF Aside, Accept, AcceptNone, AddClient, CheckRx, Fill, Poll, PollFails,
                  HangUp, HasData, NoEvent, LoopDone, ReadEnd, Goto, TypeOK
    <3> QED  BY <3>1
  <2> QED  BY <2>1, <2>2
<1>4. \A c \in Clients : Held(w, c)' = Held(w, c)
  BY <1>2, <1>3 DEF Held
<1>5. \A c \in Clients : HeldAll(c)' = HeldAll(c)
  BY <1>1, <1>2, <1>4, HeldFrame
<1>6. \A v \in Workers, c \in Clients : Held(v, c)' = Held(v, c)
  <2>1. \A v \in Workers, c \in Clients :
          HeldAll(c)[v] = Held(v, c) /\ HeldAll(c)'[v] = Held(v, c)'
    BY DEF HeldAll
  <2> QED  BY <1>5, <2>1
<1> QED  BY <1>1, <1>5, <1>6

\* Every step leaves every piece of data in one place.
LEMMA NextPlaces == TypeOK /\ OncePlaces /\ [Next]_vars => OncePlaces'
<1> SUFFICES ASSUME TypeOK, OncePlaces, [Next]_vars PROVE OncePlaces'
  OBVIOUS
<1>1. CASE UNCHANGED vars
  <2>1. \A c : HeldAll(c)' = HeldAll(c)
    BY <1>1 DEF HeldAll, Held, vars, worker
  <2>2. UNCHANGED <<pushed, stream, sent, conn>>
    BY <1>1 DEF vars, socket
  <2> QED  BY <2>1, <2>2, PlacesAside
<1>2. CASE Peer
  BY <1>2, PeerPlaces DEF Peer
<1>3. ASSUME NEW w \in Workers, RunStep(w) PROVE OncePlaces'
  <2>1. CASE Read(w)
    <3>1. fd[w] \in Clients
      BY <2>1 DEF Read, TypeOK, Fds
    <3> QED  BY <2>1, <3>1, ReadPlaces
  <2>2. CASE Push(w)
    <3>1. fd[w] \in Fds
      BY DEF TypeOK
    <3> QED  BY <2>2, <3>1, PushPlaces
  <2>3. CASE Aside(w)
    BY <2>3, AsideMovesNothing, PlacesAside
  <2> QED  BY <1>3, <2>1, <2>2, <2>3 DEF RunStep, Aside
<1> QED  BY <1>1, <1>2, <1>3 DEF Next

\* Two workers that poll the same client read from it one after the other, and what one
\* has read the other does not: nothing is pushed twice, and while the connection is not
\* broken nothing is lost, however many workers are in run().
THEOREM EveryPieceInOnePlace == Spec => []ReadOnce
<1>1. Init => TypeOK /\ AcceptedIsClient /\ OncePlaces
  BY InitType, InitPlaces DEF Init, AcceptedIsClient
<1>2. TypeOK /\ AcceptedIsClient /\ OncePlaces /\ [Next]_vars
        => TypeOK' /\ AcceptedIsClient' /\ OncePlaces'
  BY NextType, NextPlaces
<1>3. TypeOK /\ OncePlaces => ReadOnce
  BY OncePlacesIsReadOnce
<1> QED  BY <1>1, <1>2, <1>3, PTL DEF Spec

-----------------------------------------------------------------------------
(* A worker that is alone keeps the order.                                 *)

\* The data of a client from what has been pushed to what nobody has read, all of it
\* unless the connection has broken.
Numbered(f, n, whole) ==
  (\A k \in DOMAIN f : f[k] = k) /\ Len(f) <= n /\ (whole => Len(f) = n)

\* Appending to the second of two sequences in a row.
LEMMA ConcatAppend ==
  ASSUME NEW S, NEW a \in Seq(S), NEW s \in Seq(S), NEW x \in S
  PROVE  a \o Append(s, x) = Append(a \o s, x)
<1> DEFINE t == <<x>>
<1>1. t \in Seq(S) /\ a \o s \in Seq(S)
  BY ConcatProperties
<1>2. Append(s, x) = s \o t /\ Append(a \o s, x) = (a \o s) \o t
  BY <1>1, AppendIsConcat
<1> HIDE DEF t
<1>3. (a \o s) \o t = a \o (s \o t)
  BY <1>1, ConcatAssociative
<1> QED  BY <1>2, <1>3

\* What is read and what is left are what there was.
LEMMA SplitConcat ==
  ASSUME NEW S, NEW s \in Seq(S), NEW n \in Nat, n <= Len(s)
  PROVE  SubSeq(s, 1, n) \o Unread(s, n) = s
<1> DEFINE a == SubSeq(s, 1, n)
           b == Unread(s, n)
<1>1. /\ a \in Seq(S) /\ Len(a) = n /\ b \in Seq(S) /\ Len(b) = Len(s) - n
      /\ \A x \in 1 .. n : a[x] = s[x]
      /\ \A x \in 1 .. Len(s) - n : b[x] = s[n + x]
  BY SplitFacts
<1>2. Len(s) \in Nat
  BY LenProperties
<1> HIDE DEF a, b
<1>3. /\ a \o b \in Seq(S) /\ Len(a \o b) = Len(a) + Len(b)
      /\ \A x \in 1 .. Len(a) + Len(b) :
           (a \o b)[x] = IF x <= Len(a) THEN a[x] ELSE b[x - Len(a)]
  BY <1>1, ConcatProperties
<1>4. Len(a \o b) = Len(s)
  BY <1>1, <1>2, <1>3
<1>5. ASSUME NEW x \in 1 .. Len(s) PROVE (a \o b)[x] = s[x]
  <2>1. CASE x <= n
    BY <1>1, <1>2, <1>3, <2>1
  <2>2. CASE ~ (x <= n)
    <3>1. x - n \in 1 .. Len(s) - n /\ n + (x - n) = x
      BY <1>2, <2>2
    <3> QED  BY <1>1, <1>2, <1>3, <2>2, <3>1
  <2> QED  BY <2>1, <2>2
<1>6. a \o b = s
  BY <1>3, <1>4, <1>5, SeqEqual
<1> QED  BY <1>6 DEF a, b

\* The next piece comes to the end.
LEMMA NumberedAppend ==
  ASSUME NEW f \in Seq(Nat), NEW n \in Nat, Numbered(f, n, TRUE)
  PROVE  Numbered(Append(f, n + 1), n + 1, TRUE)
<1> DEFINE g == Append(f, n + 1)
<1>1. /\ Len(f) = n /\ \A k \in 1 .. n : f[k] = k
  BY LenProperties DEF Numbered
<1>2. /\ g \in Seq(Nat) /\ Len(g) = n + 1
      /\ \A k \in 1 .. n : g[k] = f[k]
      /\ g[n + 1] = n + 1
  BY <1>1, AppendProperties
<1>3. DOMAIN g = 1 .. n + 1
  BY <1>2, LenProperties
<1> HIDE DEF g
<1>4. \A k \in 1 .. n + 1 : g[k] = k
  BY <1>1, <1>2
<1>5. Numbered(g, n + 1, TRUE)
  BY <1>2, <1>3, <1>4 DEF Numbered
<1> QED  BY <1>5 DEF g

\* What is left when the end has gone.
LEMMA NumberedBeginning ==
  ASSUME NEW f \in Seq(Nat), NEW g \in Seq(Nat), NEW n \in Nat, NEW whole,
         Numbered(f \o g, n, whole)
  PROVE  Numbered(f, n, FALSE)
<1>1. /\ Len(f) \in Nat /\ Len(g) \in Nat /\ DOMAIN f = 1 .. Len(f)
      /\ Len(f \o g) = Len(f) + Len(g)
      /\ \A k \in DOMAIN f : k \in DOMAIN (f \o g) /\ (f \o g)[k] = f[k]
  BY ConcatElements, ConcatProperties
<1>2. Len(f) <= n
  BY <1>1 DEF Numbered
<1>3. \A k \in DOMAIN f : f[k] = k
  BY <1>1 DEF Numbered
<1> QED  BY <1>2, <1>3 DEF Numbered

\* Where the pieces of client c are when worker w is alone.
Flow(w, c) == pushed[c] \o Held(w, c) \o stream[c]

InOrder(w) == \A c \in Clients : Numbered(Flow(w, c), sent[c], conn[c] # "broken")

\* The pieces a client has sent, wherever they are, are numbers.
LEMMA HeldType ==
  ASSUME TypeOK, NEW w \in Workers, NEW c \in Clients
  PROVE  /\ Held(w, c) \in Seq(Nat) /\ pushed[c] \in Seq(Nat) /\ stream[c] \in Seq(Nat)
         /\ sent[c] \in Nat /\ pushed[c] \o Held(w, c) \in Seq(Nat) /\ Flow(w, c) \in Seq(Nat)
<1>1. <<>> \in Seq(Nat)
  BY EmptySeq
<1>2. msg[w] \in Seq(Nat) /\ pushed[c] \in Seq(Nat) /\ stream[c] \in Seq(Nat) /\ sent[c] \in Nat
  BY DEF TypeOK
<1>3. Held(w, c) \in Seq(Nat)
  BY <1>1, <1>2 DEF Held
<1>4. pushed[c] \o Held(w, c) \in Seq(Nat)
  BY <1>2, <1>3, ConcatProperties
<1>5. Flow(w, c) \in Seq(Nat)
  BY <1>2, <1>4, ConcatProperties DEF Flow
<1> QED  BY <1>2, <1>3, <1>4, <1>5

\* The clients.
LEMMA PeerOrder ==
  ASSUME TypeOK, NEW w \in Workers, InOrder(w), NEW c \in Clients,
         Connect(c) \/ Send(c) \/ Disconnect(c) \/ Abort(c)
  PROVE  InOrder(w)'
<1> SUFFICES ASSUME NEW d \in Clients
             PROVE  Numbered(Flow(w, d)', sent'[d], conn'[d] # "broken")
  BY DEF InOrder
<1> DEFINE p == pushed[d]
           h == Held(w, d)
           s == stream[d]
           n == sent[d]
<1>1. Held(w, d)' = h /\ pushed' = pushed
  BY DEF Connect, Send, Disconnect, Abort, server, worker, Held
<1>2. /\ h \in Seq(Nat) /\ p \in Seq(Nat) /\ s \in Seq(Nat) /\ n \in Nat
      /\ p \o h \in Seq(Nat)
  BY HeldType
<1>3. Flow(w, d) = p \o h \o s /\ Flow(w, d)' = p \o h \o stream'[d]
  BY <1>1 DEF Flow
<1>4. Numbered(p \o h \o s, n, conn[d] # "broken")
  BY <1>3 DEF InOrder
<1>5. CASE (Connect(c) \/ Disconnect(c)) \/ (d # c /\ (Send(c) \/ Abort(c)))
  <2>1. /\ stream'[d] = s /\ sent'[d] = n
        /\ (conn'[d] # "broken") = (conn[d] # "broken")
    BY <1>5 DEF Connect, Disconnect, Send, Abort, TypeOK
  <2> QED  BY <1>3, <1>4, <2>1
<1>6. CASE Send(c) /\ d = c
  <2>1. /\ conn[d] = "up" /\ conn' = conn /\ sent'[d] = n + 1
        /\ stream'[d] = Append(s, n + 1)
    BY <1>6 DEF Send, TypeOK
  <2>2. (conn[d] # "broken") = TRUE /\ (conn'[d] # "broken") = TRUE
    BY <2>1
  <2> HIDE DEF p, h, s, n
  <2>3. p \o h \o Append(s, n + 1) = Append(p \o h \o s, n + 1)
    <3> DEFINE a == p \o h
    <3>1. n + 1 \in Nat /\ a \in Seq(Nat)
      BY <1>2
    <3> HIDE DEF a
    <3>2. a \o Append(s, n + 1) = Append(a \o s, n + 1)
      BY <1>2, <3>1, ConcatAppend, SMTT(30)
    <3> QED  BY <3>2 DEF a
  <2> DEFINE f == p \o h \o s
  <2>4. f \in Seq(Nat)
    BY <1>2, ConcatProperties
  <2>5. Numbered(f, n, TRUE)
    BY <1>4, <2>2
  <2> HIDE DEF f
  <2>6. Numbered(Append(f, n + 1), n + 1, TRUE)
    BY <1>2, <2>4, <2>5, NumberedAppend
  <2> QED  BY <1>3, <2>1, <2>2, <2>3, <2>6 DEF f
<1>7. CASE Abort(c) /\ d = c
  <2>1. (conn'[d] # "broken") = FALSE /\ sent'[d] = n /\ stream'[d] = <<>>
    BY <1>7 DEF Abort, TypeOK
  <2> DEFINE a == p \o h
  <2>2. a \o <<>> = a
    BY <1>2, ConcatEmptySeq
  <2>3. a \in Seq(Nat) /\ Numbered(a \o s, n, conn[d] # "broken")
    BY <1>2, <1>4
  <2> HIDE DEF a, s, n
  <2>4. Numbered(a, n, FALSE)
    BY <1>2, <2>3, NumberedBeginning
  <2> QED  BY <1>3, <2>1, <2>2, <2>4 DEF a
<1> QED  BY <1>5, <1>6, <1>7

\* A read and a push move the border between the three parts.
LEMMA RunOrder ==
  ASSUME TypeOK, NEW w \in Workers, Read(w) \/ Push(w), NEW d \in Clients
  PROVE  Flow(w, d)' = Flow(w, d) /\ UNCHANGED <<sent, conn>>
<1> DEFINE p == pushed[d]
           s == stream[d]
           m == msg[w]
<1>1. /\ p \in Seq(Nat) /\ s \in Seq(Nat) /\ m \in Seq(Nat)
  BY DEF TypeOK
<1>2. CASE Read(w)
  <2> DEFINE n == IF Len(stream[fd[w]]) < MaxRead THEN Len(stream[fd[w]]) ELSE MaxRead
  <2>1. /\ pc[w] = "read" /\ pc'[w] = "push" /\ UNCHANGED <<fd, pushed, sent, conn>>
        /\ msg'[w] = SubSeq(stream[fd[w]], 1, n)
        /\ fd[w] \in Clients
        /\ stream' = [stream EXCEPT ![fd[w]] = Unread(stream[fd[w]], n)]
    BY <1>2 DEF Read, Goto, TypeOK, Fds
  <2>2. Held(w, d) = <<>> /\ Flow(w, d) = p \o s
    <3>1. Held(w, d) = <<>>
      BY <2>1 DEF Held
    <3>2. p \o <<>> = p
      BY <1>1, ConcatEmptySeq
    <3> QED  BY <3>1, <3>2 DEF Flow
  <2>3. CASE d # fd[w]
    <3>1. Held(w, d)' = <<>> /\ stream'[d] = stream[d]
      BY <2>1, <2>3 DEF Held, TypeOK
    <3>2. Held(w, d)' = Held(w, d)
      BY <2>2, <3>1
    <3> QED  BY <2>1, <3>1, <3>2 DEF Flow
  <2>4. CASE d = fd[w]
    <3> DEFINE a == SubSeq(s, 1, n)
               b == SubSeq(s, n + 1, Len(s))
    <3>1. Len(s) \in Nat /\ n \in 0 .. Len(s)
      BY <1>1, <2>4, LenProperties, TcpAssumption
    <3>2. Held(w, d)' = a /\ stream'[d] = b
      BY <2>1, <2>4 DEF Held, Unread, TypeOK
    <3>3. Flow(w, d)' = (p \o a) \o b
      BY <2>1, <3>2 DEF Flow
    <3> HIDE DEF s, n
    <3>4. a \in Seq(Nat) /\ b \in Seq(Nat)
      BY <1>1, <3>1, SplitFacts DEF Unread
    <3>5. a \o b = s
      <4>1. n \in Nat /\ n <= Len(s)
        BY <3>1
      <4> HIDE DEF p
      <4> QED  BY <1>1, <4>1, SplitConcat DEF Unread
    <3> HIDE DEF a, b, p
    <3>6. (p \o a) \o b = p \o (a \o b)
      BY <1>1, <3>4, ConcatAssociative, SMTT(30)
    <3> QED  BY <2>1, <2>2, <3>3, <3>5, <3>6
  <2> QED  BY <2>3, <2>4
<1>3. CASE Push(w)
  <2>1. /\ pc[w] = "push" /\ pc'[w] = "loop" /\ UNCHANGED <<stream, sent, conn>>
        /\ pushed' = IF fd[w] = NoFd THEN pushed
                     ELSE [pushed EXCEPT ![fd[w]] = pushed[fd[w]] \o m]
    BY <1>3 DEF Push, Goto, socket, TypeOK
  <2>2. Held(w, d)' = <<>> /\ Held(w, d) = IF fd[w] = d THEN m ELSE <<>>
    BY <2>1 DEF Held
  <2>3. pushed'[d] = IF fd[w] = d THEN p \o m ELSE p
    <3>1. d # NoFd
      BY TcpAssumption
    <3>2. pushed \in [Clients -> Seq(Nat)]
      BY DEF TypeOK
    <3> QED  BY <2>1, <3>1, <3>2
  <2> HIDE DEF p, m
  <2>4. p \o m \in Seq(Nat)
    BY <1>1, ConcatProperties
  <2>5. (p \o m) \o <<>> = p \o m /\ p \o <<>> = p
    BY <1>1, <2>4, ConcatEmptySeq
  <2>6. pushed'[d] \o Held(w, d)' = p \o Held(w, d)
    BY <2>2, <2>3, <2>5
  <2> QED  BY <2>1, <2>6 DEF Flow, p
<1> QED  BY <1>2, <1>3

\* Alone, that is with no other worker.
LEMMA AloneWorker ==
  ASSUME Alone, NEW w \in Workers
  PROVE  Workers = {w}
<1>1. \E v : Workers = {v}
  BY FS_Singleton, TcpAssumption DEF Alone
<1> QED  BY <1>1

\* What a client sends through a server with one worker is pushed in the order it was
\* sent, without a gap: a read takes from the front of the stream what fits, and what it
\* took is pushed before the next read.
THEOREM OrderKeptAlone == Spec => []AloneInOrder
<1> SUFFICES ASSUME Alone PROVE Spec => []AloneInOrder
  <2>1. CASE Alone
    BY <2>1
  <2>2. CASE ~ Alone
    <3>1. AloneInOrder
      BY <2>2 DEF AloneInOrder
    <3> QED  BY <3>1, PTL
  <2> QED  BY <2>1, <2>2
<1> DEFINE Ordered == \A w \in Workers : InOrder(w)
<1>1. Init => TypeOK /\ AcceptedIsClient /\ Ordered
  <2> SUFFICES ASSUME Init, NEW w \in Workers, NEW c \in Clients
               PROVE  Numbered(Flow(w, c), sent[c], conn[c] # "broken")
    BY InitType DEF Init, AcceptedIsClient, InOrder
  <2>1. pushed[c] = <<>> /\ stream[c] = <<>> /\ Held(w, c) = <<>> /\ sent[c] = 0
    BY DEF Init, Held
  <2>2. Flow(w, c) = <<>>
    BY <2>1 DEF Flow
  <2> QED  BY <2>1, <2>2 DEF Numbered
<1>2. TypeOK /\ AcceptedIsClient /\ Ordered /\ [Next]_vars
        => TypeOK' /\ AcceptedIsClient' /\ Ordered'
  <2> SUFFICES ASSUME TypeOK, Ordered, [Next]_vars, NEW w \in Workers PROVE InOrder(w)'
    BY NextType
  <2>1. CASE Peer
    BY <2>1, PeerOrder DEF Peer
  <2>2. CASE Read(w) \/ Push(w)
    BY <2>2, RunOrder DEF InOrder
  <2>3. CASE Aside(w) \/ UNCHANGED vars
    <3>1. /\ UNCHANGED <<pushed, stream, sent, conn>>
          /\ \A c \in Clients : Held(w, c)' = Held(w, c)
      <4>1. CASE Aside(w)
        BY <4>1, AsideMovesNothing
      <4>2. CASE UNCHANGED vars
        BY <4>2 DEF Held, vars, socket, worker
      <4> QED  BY <2>3, <4>1, <4>2
    <3>2. \A c \in Clients : Flow(w, c)' = Flow(w, c)
      BY <3>1 DEF Flow
    <3> QED  BY <3>1, <3>2 DEF InOrder
  <2>4. Workers = {w}
    BY AloneWorker
  <2> QED  BY <2>1, <2>2, <2>3, <2>4 DEF Next, RunStep, Aside
<1>3. Ordered => AloneInOrder
  BY DEF InOrder, Numbered, Flow, AloneInOrder
<1> QED  BY <1>1, <1>2, <1>3, PTL DEF Spec

-----------------------------------------------------------------------------
(* Where the server knows a client.                                        *)

\* A sequence that grows at its end.
LEMMA AppendElements ==
  ASSUME NEW S, NEW s \in Seq(S), NEW x \in S
  PROVE  /\ \A y : In(y, Append(s, x)) <=> In(y, s) \/ y = x
         /\ IsInjective(s) /\ ~ In(x, s) => IsInjective(Append(s, x))
<1> DEFINE t == Append(s, x)
           n == Len(s)
<1>1. /\ n \in Nat /\ DOMAIN s = 1 .. n /\ DOMAIN t = 1 .. n + 1
      /\ \A k \in 1 .. n : t[k] = s[k]
      /\ t[n + 1] = x
  BY LenProperties, AppendProperties
<1> HIDE DEF t, n
<1>2. \A y : In(y, t) <=> In(y, s) \/ y = x
  <2> SUFFICES ASSUME NEW y PROVE In(y, t) <=> In(y, s) \/ y = x
    OBVIOUS
  <2>1. ASSUME In(y, t) PROVE In(y, s) \/ y = x
    <3>1. PICK k \in 1 .. n + 1 : t[k] = y
      BY <1>1, <2>1 DEF In
    <3>2. k \in 1 .. n \/ k = n + 1
      BY <1>1
    <3> QED  BY <1>1, <3>1, <3>2 DEF In
  <2>2. ASSUME In(y, s) PROVE In(y, t)
    <3>1. PICK k \in 1 .. n : s[k] = y
      BY <1>1, <2>2 DEF In
    <3>2. k \in 1 .. n + 1
      BY <1>1
    <3> QED  BY <1>1, <3>1, <3>2 DEF In
  <2>3. In(x, t)
    <3>1. n + 1 \in 1 .. n + 1
      BY <1>1
    <3> QED  BY <1>1, <3>1 DEF In
  <2> QED  BY <2>1, <2>2, <2>3
<1>3. ASSUME IsInjective(s), ~ In(x, s) PROVE IsInjective(t)
  <2> SUFFICES ASSUME NEW j \in 1 .. n + 1, NEW k \in 1 .. n + 1, t[j] = t[k] PROVE j = k
    BY <1>1 DEF IsInjective
  <2>1. (j \in 1 .. n \/ j = n + 1) /\ (k \in 1 .. n \/ k = n + 1)
    BY <1>1
  <2> QED  BY <1>1, <1>3, <2>1 DEF In, IsInjective
<1> QED  BY <1>2, <1>3 DEF t

\* A sequence that shrinks at its beginning.
LEMMA TailElements ==
  ASSUME NEW S, NEW s \in Seq(S), s # <<>>
  PROVE  /\ Head(s) \in S
         /\ \A y : In(y, s) <=> y = Head(s) \/ In(y, Tail(s))
         /\ IsInjective(s) => IsInjective(Tail(s)) /\ ~ In(Head(s), Tail(s))
<1> DEFINE t == Tail(s)
           n == Len(s)
<1>1. /\ n \in Nat \ {0} /\ DOMAIN s = 1 .. n /\ DOMAIN t = 1 .. n - 1
      /\ \A k \in 1 .. n - 1 : t[k] = s[k + 1]
      /\ Head(s) = s[1] /\ Head(s) \in S
  <2>1. n \in Nat /\ DOMAIN s = 1 .. n /\ n # 0
    BY LenProperties, EmptySeq
  <2>2. t \in Seq(S) /\ Len(t) = n - 1 /\ \A k \in 1 .. Len(t) : t[k] = s[k + 1]
    BY HeadTailProperties
  <2> QED  BY <2>1, <2>2, HeadTailProperties, LenProperties
<1>2. \A k \in 1 .. n : k = 1 \/ (k - 1 \in 1 .. n - 1 /\ (k - 1) + 1 = k)
  BY <1>1
<1>3. 1 \in 1 .. n /\ \A k \in 1 .. n - 1 : k + 1 \in 1 .. n /\ k + 1 # 1
  BY <1>1
<1> HIDE DEF t, n
<1>4. ASSUME NEW y PROVE In(y, s) <=> y = Head(s) \/ In(y, t)
  <2>1. ASSUME In(y, s) PROVE y = Head(s) \/ In(y, t)
    <3>1. PICK k \in 1 .. n : s[k] = y
      BY <1>1, <2>1 DEF In
    <3> QED  BY <1>1, <1>2, <3>1 DEF In
  <2>2. In(Head(s), s)
    BY <1>1, <1>3 DEF In
  <2>3. ASSUME In(y, t) PROVE In(y, s)
    <3>1. PICK k \in 1 .. n - 1 : t[k] = y
      BY <1>1, <2>3 DEF In
    <3> QED  BY <1>1, <1>3, <3>1 DEF In
  <2> QED  BY <2>1, <2>2, <2>3
<1>5. ASSUME IsInjective(s) PROVE IsInjective(t) /\ ~ In(Head(s), t)
  <2>1. \A j, k \in 1 .. n - 1 : t[j] = t[k] => j = k
    <3> SUFFICES ASSUME NEW j \in 1 .. n - 1, NEW k \in 1 .. n - 1, t[j] = t[k] PROVE j = k
      OBVIOUS
    <3>1. j + 1 = k + 1
      BY <1>1, <1>3, <1>5, SMTT(30) DEF IsInjective
    <3> QED  BY <1>1, <3>1
  <2>2. \A k \in 1 .. n - 1 : t[k] # Head(s)
    BY <1>1, <1>3, <1>5 DEF IsInjective
  <2> QED  BY <1>1, <2>1, <2>2 DEF IsInjective, In
<1> QED  BY <1>1, <1>4, <1>5 DEF t

Accepting(w, c) == pc[w] = "accepted" /\ fd[w] = c

\* A client that is connected is in the backlog, with one worker or on the list, and
\* only in one of these places; a client that is not is in none.
KnownOnce ==
  /\ IsInjective(m_connectedClientsFds) /\ IsInjective(backlog)
  /\ \A c \in Clients :
       /\ ~ (In(c, m_connectedClientsFds) /\ In(c, backlog))
       /\ \A w \in Workers : Accepting(w, c) =>
            /\ ~ In(c, m_connectedClientsFds) /\ ~ In(c, backlog)
            /\ \A v \in Workers : Accepting(v, c) => v = w
       /\ conn[c] = "none" =>
            /\ ~ In(c, m_connectedClientsFds) /\ ~ In(c, backlog)
            /\ \A w \in Workers : ~ Accepting(w, c)

\* Nobody has been taken on or off, except perhaps off the list.
LEMMA KnownFrame ==
  ASSUME KnownOnce, backlog' = backlog, IsInjective(m_connectedClientsFds'),
         \A c \in Clients : In(c, m_connectedClientsFds') => In(c, m_connectedClientsFds),
         \A c \in Clients : conn'[c] = "none" => conn[c] = "none",
         \A w \in Workers, c \in Clients : Accepting(w, c)' => Accepting(w, c)
  PROVE  KnownOnce'
<1> QED  BY DEF KnownOnce

\* The steps that neither accept a client nor add one to the list.
LEMMA StillKnown ==
  ASSUME TypeOK, NEW w \in Workers,
         AcceptNone(w) \/ CheckRx(w) \/ Fill(w) \/ Poll(w) \/ PollFails(w) \/ HangUp(w)
           \/ HasData(w) \/ NoEvent(w) \/ LoopDone(w) \/ Read(w) \/ ReadEnd(w) \/ ReadError(w) \/ Push(w)
  PROVE  /\ UNCHANGED <<backlog, conn>>
         /\ ~ HangUp(w) => UNCHANGED m_connectedClientsFds
         /\ pc[w] # "accepted" /\ pc'[w] # "accepted"
         /\ \A v \in Workers, c \in Clients : Accepting(v, c)' <=> Accepting(v, c)
<1>1. CASE AcceptNone(w) \/ CheckRx(w) \/ Fill(w) \/ Poll(w) \/ PollFails(w)
  <2>1. /\ UNCHANGED <<backlog, conn, m_connectedClientsFds>>
        /\ pc[w] # "accepted" /\ pc'[w] # "accepted"
        /\ \A v \in Workers \ {w} : pc'[v] = pc[v] /\ fd'[v] = fd[v]
    BY <1>1 DEF AcceptNone, CheckRx, Fill, Poll, PollFails, Goto, TypeOK, socket
  <2> QED  BY <2>1 DEF Accepting
<1>2. CASE HangUp(w) \/ HasData(w) \/ NoEvent(w) \/ LoopDone(w)
  <2>1. /\ UNCHANGED <<backlog, conn>>
        /\ ~ HangUp(w) => UNCHANGED m_connectedClientsFds
        /\ pc[w] # "accepted" /\ pc'[w] # "accepted"
        /\ \A v \in Workers \ {w} : pc'[v] = pc[v] /\ fd'[v] = fd[v]
    BY <1>2 DEF HangUp, HasData, NoEvent, LoopDone, Goto, TypeOK, socket
  <2> QED  BY <2>1 DEF Accepting
<1>3. CASE Read(w) \/ ReadEnd(w) \/ ReadError(w) \/ Push(w)
  <2>1. /\ UNCHANGED <<backlog, conn, m_connectedClientsFds>>
        /\ pc[w] # "accepted" /\ pc'[w] # "accepted"
        /\ \A v \in Workers \ {w} : pc'[v] = pc[v] /\ fd'[v] = fd[v]
    BY <1>3 DEF Read, ReadEnd, ReadError, Push, Goto, TypeOK, socket
  <2> QED  BY <2>1 DEF Accepting
<1> QED  BY <1>1, <1>2, <1>3

\* What HangUp does to the list.
LEMMA HangUpFacts ==
  ASSUME TypeOK, NEW w \in Workers, HangUp(w)
  PROVE  /\ \A c : In(c, m_connectedClientsFds') => In(c, m_connectedClientsFds)
         /\ Len(m_connectedClientsFds') <= Len(m_connectedClientsFds)
         /\ IsInjective(m_connectedClientsFds) => IsInjective(m_connectedClientsFds')
         /\ \E e \in Entries(w) :
              /\ e.revents = "hup"
              /\ \A c : In(c, m_connectedClientsFds) /\ c # e.fd => In(c, m_connectedClientsFds')
              /\ ret[w] = -1 /\ In(e.fd, m_connectedClientsFds) => e.fd \in unheard'
         /\ unheard \subseteq unheard'
<1>1. PICK e \in Entries(w) :
        /\ e.revents = "hup" /\ m_connectedClientsFds' = Without(m_connectedClientsFds, e.fd)
        /\ unheard' = IF ret[w] = -1 /\ Contains(m_connectedClientsFds, e.fd)
                      THEN unheard \cup {e.fd} ELSE unheard
  BY DEF HangUp
<1> DEFINE s == m_connectedClientsFds
           t == Without(s, e.fd)
           x == e.fd
<1>2. s \in Seq(Clients)
  BY DEF TypeOK
<1> HIDE DEF x, s
<1>3. /\ t \in Seq(Clients) /\ Len(t) <= Len(s)
      /\ \A k \in 1 .. Len(s) : s[k] # x => Contains(t, s[k])
      /\ \A k \in DOMAIN t : \E j \in DOMAIN s : t[k] = s[j]
      /\ IsInjective(s) => IsInjective(t)
  <2>1. t = Without(s, x)
    BY DEF x
  <2> QED  BY <1>2, <2>1, WithoutFacts
<1>4. DOMAIN s = 1 .. Len(s) /\ DOMAIN t = 1 .. Len(t)
  BY <1>2, <1>3, LenProperties
<1> HIDE DEF t
<1>5. \A c : In(c, t) => In(c, s)
  BY <1>3 DEF In
<1>6. \A c : In(c, s) /\ c # x => In(c, t)
  BY <1>3, <1>4 DEF In, Contains
<1>7. m_connectedClientsFds' = t
  BY <1>1 DEF t, s
<1>8. ret[w] = -1 /\ In(x, s) => x \in unheard'
  <2>1. In(x, s) => Contains(s, x)
    BY <1>4 DEF In, Contains
  <2> QED  BY <1>1, <2>1 DEF s, x
<1>9. unheard \subseteq unheard'
  BY <1>1
<1> QED  BY <1>1, <1>3, <1>5, <1>6, <1>7, <1>8, <1>9 DEF s, x

\* A client that connects was not known.
LEMMA ConnectKnown ==
  ASSUME TypeOK, KnownOnce, NEW c \in Clients, Connect(c)
  PROVE  KnownOnce'
<1>1. /\ conn[c] = "none" /\ conn' = [conn EXCEPT ![c] = "up"] /\ backlog' = Append(backlog, c)
      /\ UNCHANGED <<m_connectedClientsFds, pc, fd>>
      /\ backlog \in Seq(Clients) /\ conn \in [Clients -> {"none", "up", "closed", "broken"}]
  BY DEF Connect, server, worker, TypeOK
<1>2. /\ \A d : In(d, backlog') <=> In(d, backlog) \/ d = c
      /\ IsInjective(backlog) /\ ~ In(c, backlog) => IsInjective(backlog')
  BY <1>1, AppendElements
<1>3. \A w \in Workers, d \in Clients : Accepting(w, d)' <=> Accepting(w, d)
  BY <1>1 DEF Accepting
<1>4. conn'[c] = "up" /\ \A d \in Clients \ {c} : conn'[d] = conn[d]
  BY <1>1
<1> QED  BY <1>1, <1>2, <1>3, <1>4 DEF KnownOnce

\* From the backlog to a worker, and from the worker to the list.
LEMMA AcceptKnown ==
  ASSUME TypeOK, AcceptedIsClient, KnownOnce, NEW w \in Workers, Accept(w) \/ AddClient(w)
  PROVE  /\ KnownOnce'
         /\ \A d \in Clients :
              (\/ In(d, m_connectedClientsFds) \/ In(d, backlog)
               \/ \E v \in Workers : Accepting(v, d))
                => (\/ In(d, m_connectedClientsFds') \/ In(d, backlog')
                    \/ \E v \in Workers : Accepting(v, d)')
         /\ conn' = conn
<1>1. CASE Accept(w)
  <2> DEFINE c == Head(backlog)
  <2>1. /\ pc[w] = "idle" /\ pc' = [pc EXCEPT ![w] = "accepted"]
        /\ backlog' = Tail(backlog) /\ backlog # <<>> /\ fd' = [fd EXCEPT ![w] = c]
        /\ UNCHANGED <<m_connectedClientsFds, conn>>
        /\ backlog \in Seq(Clients)
    BY <1>1 DEF Accept, Goto, TypeOK
  <2>2. /\ c \in Clients
        /\ \A d : In(d, backlog) <=> d = c \/ In(d, backlog')
        /\ IsInjective(backlog) => IsInjective(backlog') /\ ~ In(c, backlog')
    BY <2>1, TailElements
  <2> HIDE DEF c
  <2>3. \A d : Accepting(w, d)' <=> d = c
    BY <2>1 DEF Accepting, TypeOK
  <2>4. \A v \in Workers \ {w}, d \in Clients : Accepting(v, d)' <=> Accepting(v, d)
    BY <2>1 DEF Accepting, TypeOK
  <2>5. \A d : ~ Accepting(w, d)
    BY <2>1 DEF Accepting
  <2> QED  BY <2>1, <2>2, <2>3, <2>4, <2>5 DEF KnownOnce
<1>2. CASE AddClient(w)
  <2> DEFINE c == fd[w]
  <2>1. /\ pc[w] = "accepted" /\ pc' = [pc EXCEPT ![w] = "checkRx"] /\ c \in Clients
        /\ m_connectedClientsFds' = Append(m_connectedClientsFds, c)
        /\ UNCHANGED <<fd, backlog, conn>> /\ m_connectedClientsFds \in Seq(Clients)
    BY <1>2 DEF AddClient, Goto, socket, TypeOK, AcceptedIsClient
  <2>2. /\ \A d : In(d, m_connectedClientsFds') <=> In(d, m_connectedClientsFds) \/ d = c
        /\ IsInjective(m_connectedClientsFds) /\ ~ In(c, m_connectedClientsFds)
             => IsInjective(m_connectedClientsFds')
    BY <2>1, AppendElements
  <2>3. \A d : Accepting(w, d) <=> d = c
    BY <2>1 DEF Accepting
  <2>4. \A v \in Workers \ {w}, d \in Clients : Accepting(v, d)' <=> Accepting(v, d)
    BY <2>1 DEF Accepting, TypeOK
  <2>5. \A d : ~ Accepting(w, d)'
    BY <2>1 DEF Accepting, TypeOK
  <2> HIDE DEF c
  <2> QED  BY <2>1, <2>2, <2>3, <2>4, <2>5 DEF KnownOnce
<1> QED  BY <1>1, <1>2

\* Every step leaves a client in one place.
LEMMA NextKnown == TypeOK /\ AcceptedIsClient /\ KnownOnce /\ [Next]_vars => KnownOnce'
<1> SUFFICES ASSUME TypeOK, AcceptedIsClient, KnownOnce, [Next]_vars PROVE KnownOnce'
  OBVIOUS
<1>1. CASE UNCHANGED vars
  <2>1. /\ UNCHANGED <<m_connectedClientsFds, backlog, conn>>
        /\ \A w \in Workers, c \in Clients : Accepting(w, c)' => Accepting(w, c)
    BY <1>1 DEF vars, socket, worker, Accepting
  <2>2. IsInjective(m_connectedClientsFds)
    BY DEF KnownOnce
  <2> QED  BY <2>1, <2>2, KnownFrame
<1>2. ASSUME NEW c \in Clients, Connect(c) \/ Send(c) \/ Disconnect(c) \/ Abort(c)
      PROVE  KnownOnce'
  <2>1. CASE Connect(c)
    BY <2>1, ConnectKnown
  <2>2. CASE Send(c) \/ Disconnect(c) \/ Abort(c)
    <3>1. /\ UNCHANGED <<m_connectedClientsFds, backlog>>
          /\ \A w \in Workers, d \in Clients : Accepting(w, d)' => Accepting(w, d)
      BY <2>2 DEF Send, Disconnect, Abort, server, worker, Accepting
    <3>2. \A d \in Clients : conn'[d] = "none" => conn[d] = "none"
      BY <2>2 DEF Send, Disconnect, Abort, TypeOK
    <3>3. IsInjective(m_connectedClientsFds)
      BY DEF KnownOnce
    <3> QED  BY <3>1, <3>2, <3>3, KnownFrame
  <2> QED  BY <1>2, <2>1, <2>2
<1>3. ASSUME NEW w \in Workers, RunStep(w) PROVE KnownOnce'
  <2>1. CASE Accept(w) \/ AddClient(w)
    BY <2>1, AcceptKnown
  <2>2. CASE ~ (Accept(w) \/ AddClient(w))
    <3>1. /\ UNCHANGED <<backlog, conn>>
          /\ ~ HangUp(w) => UNCHANGED m_connectedClientsFds
          /\ \A v \in Workers, c \in Clients : Accepting(v, c)' <=> Accepting(v, c)
      BY <1>3, <2>2, StillKnown DEF RunStep
    <3>2. IsInjective(m_connectedClientsFds)
      BY DEF KnownOnce
    <3>3. /\ IsInjective(m_connectedClientsFds')
          /\ \A c \in Clients : In(c, m_connectedClientsFds') => In(c, m_connectedClientsFds)
      BY <3>1, <3>2, HangUpFacts
    <3> QED  BY <3>1, <3>3, KnownFrame
  <2> QED  BY <2>1, <2>2
<1> QED  BY <1>1, <1>2, <1>3 DEF Next, Peer

-----------------------------------------------------------------------------
(* The poll array of a worker that is alone.                               *)

Gone(c) == conn[c] \in {"closed", "broken"}

\* A read returns at once.
Readable(c) == stream[c] # <<>> \/ Gone(c)

\* The array is a copy of the list as far as the loop has come, and not polled yet.
Filling(w) ==
  pc[w] = "fill" =>
    /\ Len(pollfds[w]) <= Len(m_connectedClientsFds)
    /\ \A k \in 1 .. Len(pollfds[w]) :
         pollfds[w][k].fd = m_connectedClientsFds[k] /\ pollfds[w][k].revents = "unset"
    /\ fd[w] = Node(Len(pollfds[w]) + 1)

\* Entry k of an array p is polled unless poll() has failed, and what it has reported still
\* is so unless the worker has come past the entry; r is what poll() has returned.
Reported(p, k, past, r) ==
  /\ p[k].fd \in Clients /\ (p[k].revents = "unset" <=> r = -1)
  /\ p[k].revents = "hup" => Gone(p[k].fd)
  /\ ~ past /\ p[k].revents = "in" => Readable(p[k].fd)

\* The array covers the list, each client has one entry, and each entry is polled unless
\* poll() has failed.
Looking(w) ==
  pc[w] \in {"loop", "read", "push"} =>
    /\ Len(m_connectedClientsFds) <= Len(pollfds[w])
    /\ \A j, k \in 1 .. Len(pollfds[w]) : pollfds[w][j].fd = pollfds[w][k].fd => j = k
    /\ \A k \in 1 .. Len(pollfds[w]) :
         Reported(pollfds[w], k, IF pc[w] = "loop" THEN k < i[w] ELSE k <= i[w], ret[w])
    /\ pc[w] = "read" =>
         /\ i[w] \in 1 .. Len(pollfds[w]) /\ fd[w] = pollfds[w][i[w]].fd
         /\ Readable(fd[w]) \/ ret[w] = -1

\* The worker does nothing, and no peer takes back what poll() has reported.
LEMMA LookingFrame ==
  ASSUME TypeOK, NEW w \in Workers, Filling(w), Looking(w),
         UNCHANGED <<m_connectedClientsFds, pc, fd, pollfds, ret, i>>,
         \A c \in Clients : (Gone(c) => Gone(c)') /\ (Readable(c) => Readable(c)')
  PROVE  Filling(w)' /\ Looking(w)'
<1>1. Filling(w)'
  BY DEF Filling, Node
<1>2. \A k, past : Reported(pollfds[w], k, past, ret[w]) => Reported(pollfds[w], k, past, ret[w])'
  BY DEF Reported
<1>3. pc[w] = "read" => fd[w] \in Clients /\ (Readable(fd[w]) \/ ret[w] = -1)
  BY DEF Looking, Reported
<1>4. pc[w] = "read" => Readable(fd[w])' \/ ret[w] = -1
  <2>1. \A c \in Clients : fd[w] = c /\ Readable(c) => Readable(fd[w])'
    BY DEF Readable, Gone
  <2> QED  BY <1>3, <2>1
<1>5. Looking(w)'
  BY <1>2, <1>4 DEF Looking
<1> QED  BY <1>1, <1>5

\* The clients.
LEMMA PeerLooking ==
  ASSUME TypeOK, NEW c \in Clients, Connect(c) \/ Send(c) \/ Disconnect(c) \/ Abort(c)
  PROVE  /\ UNCHANGED <<m_connectedClientsFds, pc, fd, pollfds, ret, i, undefined, unheard>>
         /\ ~ undefined
         /\ \A d \in Clients : (Gone(d) => Gone(d)') /\ (Readable(d) => Readable(d)')
<1>1. UNCHANGED <<m_connectedClientsFds, pc, fd, pollfds, ret, i, undefined, unheard>> /\ ~ undefined
  BY DEF Connect, Send, Disconnect, Abort, server, worker
<1>2. \A d \in Clients : Gone(d) => Gone(d)'
  BY DEF Connect, Send, Disconnect, Abort, Gone, TypeOK
<1>3. \A d \in Clients : stream[d] # <<>> => stream'[d] # <<>> \/ Gone(d)'
  <2>1. CASE Connect(c) \/ Disconnect(c)
    BY <2>1 DEF Connect, Disconnect
  <2>2. CASE Send(c)
    <3>1. sent'[c] \in Nat /\ stream[c] \in Seq(Nat)
      BY <2>2 DEF Send, TypeOK
    <3>2. Append(stream[c], sent'[c]) # <<>>
      BY <3>1, AppendProperties
    <3>3. stream' = [stream EXCEPT ![c] = Append(stream[c], sent'[c])]
      BY <2>2 DEF Send
    <3>4. \A d \in Clients : stream'[d] = IF d = c THEN Append(stream[c], sent'[c]) ELSE stream[d]
      BY <3>3 DEF TypeOK
    <3> QED  BY <3>2, <3>4
  <2>3. CASE Abort(c)
    BY <2>3 DEF Abort, Gone, TypeOK
  <2> QED  BY <2>1, <2>2, <2>3
<1> QED  BY <1>1, <1>2, <1>3 DEF Readable

\* The loop finds its entry in the array, and polled.
LEMMA EntryAt ==
  ASSUME TypeOK, NEW w \in Workers, Looking(w), pc[w] = "loop",
         i[w] <= Len(m_connectedClientsFds)
  PROVE  /\ i[w] \in 1 .. Len(pollfds[w])
         /\ Reported(pollfds[w], i[w], FALSE, ret[w])
         /\ \A e \in Entries(w) :
              e.fd = pollfds[w][i[w]].fd /\ (ret[w] # -1 => e = pollfds[w][i[w]])
<1>1. /\ i[w] \in Nat \ {0} /\ Len(m_connectedClientsFds) \in Nat /\ Len(pollfds[w]) \in Nat
      /\ DOMAIN pollfds[w] = 1 .. Len(pollfds[w])
  BY LenProperties DEF TypeOK
<1>2. i[w] \in 1 .. Len(pollfds[w])
  BY <1>1 DEF Looking
<1>3. Reported(pollfds[w], i[w], FALSE, ret[w])
  <2>1. Reported(pollfds[w], i[w], i[w] < i[w], ret[w])
    BY <1>2 DEF Looking
  <2>2. (i[w] < i[w]) = FALSE
    BY <1>1
  <2> QED  BY <2>1, <2>2
<1>4. ret[w] # -1 => pollfds[w][i[w]].revents # "unset"
  BY <1>3 DEF Reported
<1>5. ret[w] # -1 => Entries(w) = {pollfds[w][i[w]]}
  BY <1>1, <1>2, <1>4 DEF Entries
<1>6. \A e \in Entries(w) : e.fd = pollfds[w][i[w]].fd
  BY <1>1, <1>2 DEF Entries
<1> QED  BY <1>2, <1>3, <1>5, <1>6

\* The worker goes to the next entry, past the one it was at.
LEMMA NextEntry ==
  ASSUME TypeOK, NEW w \in Workers, Looking(w), pc[w] \in {"loop", "read", "push"},
         pc'[w] = "loop", i'[w] = i[w] + 1, UNCHANGED <<pollfds, ret, stream, conn>>,
         Len(m_connectedClientsFds') <= Len(m_connectedClientsFds),
         m_connectedClientsFds' \in Seq(Clients)
  PROVE  Filling(w)' /\ Looking(w)'
<1>1. /\ i[w] \in Nat /\ Len(pollfds[w]) \in Nat /\ Len(m_connectedClientsFds) \in Nat
      /\ Len(m_connectedClientsFds') \in Nat
  BY LenProperties DEF TypeOK
<1>2. Len(m_connectedClientsFds') <= Len(pollfds[w])
  BY <1>1 DEF Looking
<1>3. ASSUME NEW k \in 1 .. Len(pollfds[w]) PROVE Reported(pollfds[w], k, k < i[w], ret[w])'
  <2>1. Reported(pollfds[w], k, IF pc[w] = "loop" THEN k < i[w] ELSE k <= i[w], ret[w])
    BY DEF Looking
  <2>2. (IF pc[w] = "loop" THEN k < i[w] ELSE k <= i[w]) => k < i'[w]
    BY <1>1
  <2>3. Reported(pollfds[w], k, k < i'[w], ret[w])
    BY <2>1, <2>2 DEF Reported
  <2> QED  BY <2>3 DEF Reported, Gone, Readable
<1> QED  BY <1>2, <1>3 DEF Filling, Looking

\* The worker copies the list, which nobody else changes.
LEMMA FillLooking ==
  ASSUME TypeOK, TypeOK', KnownOnce, NEW w \in Workers, Filling(w), CheckRx(w) \/ Fill(w)
  PROVE  /\ Filling(w)' /\ Looking(w)' /\ m_connectedClientsFds' = m_connectedClientsFds
         /\ undefined' => Len(m_connectedClientsFds) > BACKLOG
<1> DEFINE s == m_connectedClientsFds
           p == pollfds[w]
           E == [fd : Fds, revents : Events]
<1>0. /\ s \in Seq(Clients) /\ Len(s) \in Nat /\ DOMAIN s = 1 .. Len(s)
      /\ p \in Seq(E) /\ Len(p) \in Nat
      /\ fd \in [Workers -> Fds] /\ pollfds \in [Workers -> Seq(E)]
  BY LenProperties DEF TypeOK
<1>1. CASE CheckRx(w)
  <2>1. /\ pc'[w] = "fill" /\ pollfds'[w] = <<>> /\ fd'[w] = Node(1)
        /\ s' = s /\ undefined' = FALSE
    BY <1>1 DEF CheckRx, Goto, TypeOK
  <2>2. fd'[w] = Node(1)'
    BY <2>1 DEF Node
  <2>3. Filling(w)'
    BY <1>0, <2>1, <2>2 DEF Filling
  <2>4. Looking(w)'
    BY <2>1 DEF Looking
  <2> QED  BY <2>1, <2>3, <2>4
<1>2. CASE Fill(w)
  <2> DEFINE n == Len(p) + 1
  <2>1. /\ pc[w] = "fill" /\ pc'[w] = "fill" /\ ~ undefined /\ fd[w] # NoFd /\ s' = s
    BY <1>2 DEF Fill, Goto, TypeOK
  <2>2. /\ Len(p) <= Len(s) /\ fd[w] = Node(n)
        /\ \A k \in 1 .. Len(p) : p[k].fd = s[k] /\ p[k].revents = "unset"
    BY <2>1 DEF Filling
  <2>3. n \in 1 .. Len(s) /\ fd[w] = s[n]
    BY <1>0, <2>1, <2>2 DEF Node
  <2>4. Looking(w)'
    BY <2>1 DEF Looking
  <2>5. CASE Contains(s, fd[w]) /\ Len(p) < BACKLOG
    <3> DEFINE e == [fd |-> fd[w], revents |-> "unset"]
    <3>1. pollfds'[w] = Append(p, e) /\ undefined' = FALSE
      BY <1>0, <1>2, <2>1, <2>5 DEF Fill
    <3>2. PICK k \in 1 .. Len(s) : s[k] = fd[w] /\ fd'[w] = Node(k + 1)
      BY <1>0, <1>2, <2>5 DEF Fill
    <3>3. k = n
      <4>1. IsInjective(s)
        BY DEF KnownOnce
      <4> QED  BY <1>0, <2>3, <3>2, <4>1 DEF IsInjective
    <3>4. e \in E
      BY <1>0, <2>3 DEF E, Fds, Events
    <3>5. /\ Len(pollfds'[w]) = n /\ pollfds'[w][n] = e
          /\ \A j \in 1 .. Len(p) : pollfds'[w][j] = p[j]
      <4> HIDE DEF E, e, p
      <4> QED  BY <1>0, <3>1, <3>4, AppendProperties
    <3>6. ASSUME NEW j \in 1 .. n
          PROVE  pollfds'[w][j].fd = s[j] /\ pollfds'[w][j].revents = "unset"
      <4>1. j = n \/ j \in 1 .. Len(p)
        BY <1>0
      <4> QED  BY <2>2, <2>3, <3>5, <4>1
    <3>7. \A j : Node(j)' = Node(j)
      BY <2>1 DEF Node
    <3>8. fd'[w] = Node(n + 1)
      BY <3>2, <3>3
    <3>9. n <= Len(s)
      BY <1>0, <2>3
    <3> HIDE DEF n
    <3>10. Filling(w)'
      <4>1. fd'[w] = Node(Len(pollfds[w]) + 1)'
        BY <3>5, <3>8, <2>1 DEF Node
      <4> QED  BY <2>1, <3>5, <3>6, <3>9, <4>1 DEF Filling
    <3> QED  BY <2>1, <2>4, <3>1, <3>10
  <2>6. CASE ~ (Contains(s, fd[w]) /\ Len(p) < BACKLOG)
    <3>1. UNCHANGED <<pollfds, fd>>
      BY <1>2, <2>6 DEF Fill
    <3>2. Filling(w)'
      BY <2>1, <2>2, <3>1 DEF Filling, Node
    <3>3. Contains(s, fd[w])
      BY <2>3 DEF Contains
    <3>4. Len(s) > BACKLOG
      BY <1>0, <2>3, <2>6, <3>3, TcpAssumption
    <3> QED  BY <2>1, <2>4, <3>2, <3>4
  <2> QED  BY <2>5, <2>6
<1> QED  BY <1>1, <1>2

\* poll() looks at the entries the worker has written: the list has not changed since.
LEMMA PollLooking ==
  ASSUME TypeOK, KnownOnce, NEW w \in Workers, Filling(w), Poll(w)
  PROVE  /\ Filling(w)' /\ Looking(w)' /\ m_connectedClientsFds' = m_connectedClientsFds
         /\ undefined' => Len(m_connectedClientsFds) > BACKLOG
<1> DEFINE s == m_connectedClientsFds
           n == Len(s)
           p == pollfds[w]
<1>1. /\ pc[w] = "fill" /\ fd[w] = NoFd /\ UNCHANGED <<m_connectedClientsFds, conn, stream>>
      /\ undefined' = (n > BACKLOG) /\ i'[w] = 1
  BY DEF Poll, socket, TypeOK
<1>2. PICK e \in [Len(p) + 1 .. n -> Garbage] :
        IF \E k \in 1 .. n : Polled(w, n, e)[k].revents # "none"
        THEN /\ pc' = [pc EXCEPT ![w] = "loop"]
             /\ pollfds' = [pollfds EXCEPT ![w] = Polled(w, n, e)]
             /\ ret' = [ret EXCEPT ![w] = 1]
        ELSE /\ pc' = [pc EXCEPT ![w] = "idle"]
             /\ pollfds' = [pollfds EXCEPT ![w] = <<>>]
  BY DEF Poll
<1>3. /\ s \in Seq(Clients) /\ n \in Nat /\ DOMAIN s = 1 .. n /\ Len(p) \in Nat
      /\ \A k \in 1 .. n : s[k] \in Clients
  BY LenProperties, ElementOfSeq DEF TypeOK
<1>4. n = Len(p) /\ \A k \in 1 .. n : p[k].fd = s[k]
  <2>1. /\ Len(p) <= n /\ Node(Len(p) + 1) = NoFd
        /\ \A k \in 1 .. Len(p) : p[k].fd = s[k]
    BY <1>1 DEF Filling
  <2>2. n = Len(p)
    <3> SUFFICES ASSUME Len(p) < n PROVE FALSE
      BY <1>3, <2>1
    <3>1. Len(p) + 1 \in 1 .. n
      BY <1>3
    <3> QED  BY <1>3, <2>1, <3>1, TcpAssumption DEF Node
  <2> QED  BY <2>1, <2>2
<1>5. CASE pc'[w] = "idle"
  BY <1>1, <1>5 DEF Filling, Looking
<1>6. CASE pc'[w] # "idle"
  <2> DEFINE q == Polled(w, n, e)
  <2>1. pc'[w] = "loop" /\ pollfds'[w] = q /\ ret'[w] = 1
    BY <1>2, <1>6 DEF TypeOK
  <2>2. /\ Len(q) = n
        /\ \A k \in 1 .. n : q[k].revents = Revents(q[k].fd) /\ q[k].fd = p[k].fd
    <3>1. /\ Len(q) = IF n < Len(p) THEN Len(p) ELSE n
          /\ \A k \in 1 .. n : /\ q[k].revents = Revents(q[k].fd)
                               /\ k <= Len(p) => q[k].fd = p[k].fd
      BY <1>2, <1>3, PolledFacts
    <3> HIDE DEF q
    <3> QED  BY <1>3, <1>4, <3>1
  <2> HIDE DEF q
  <2>3. \A k \in 1 .. n : q[k].fd = s[k] /\ s[k] \in Clients /\ q[k].revents = Revents(s[k])
    BY <1>3, <1>4, <2>2
  <2>4. ASSUME NEW k \in 1 .. n PROVE Reported(q, k, k < i'[w], 1)
    <3>1. \A c \in Clients :
            /\ Revents(c) # "unset"
            /\ Revents(c) = "hup" => Gone(c)
            /\ Revents(c) = "in" => Readable(c)
      BY TcpAssumption DEF Revents, Gone, Readable
    <3>2. q[k].fd \in Clients /\ q[k].revents = Revents(q[k].fd)
      BY <2>3
    <3> QED  BY <3>1, <3>2 DEF Reported
  <2>5. \A j, k \in 1 .. n : q[j].fd = q[k].fd => j = k
    BY <1>3, <2>3 DEF KnownOnce, IsInjective
  <2>6. Looking(w)'
    <3>1. ASSUME NEW k \in 1 .. n PROVE Reported(pollfds[w], k, k < i[w], ret[w])'
      BY <1>1, <2>1, <2>4 DEF Reported, Gone, Readable
    <3> QED  BY <1>1, <1>3, <2>1, <2>2, <2>5, <3>1 DEF Looking
  <2>7. Filling(w)'
    BY <2>1 DEF Filling
  <2> QED  BY <1>1, <2>6, <2>7
<1> QED  BY <1>5, <1>6

\* poll() fails: the loop begins over a copy of the list of which nothing is reported.
LEMMA PollFailsLooking ==
  ASSUME TypeOK, KnownOnce, NEW w \in Workers, Filling(w), PollFails(w)
  PROVE  Filling(w)' /\ Looking(w)' /\ undefined' = FALSE
<1> DEFINE s == m_connectedClientsFds
           n == Len(s)
           p == pollfds[w]
<1>1. /\ pc[w] = "fill" /\ pc'[w] = "loop" /\ fd[w] = NoFd /\ ret'[w] = -1
      /\ UNCHANGED <<m_connectedClientsFds, conn, stream, pollfds, undefined>> /\ ~ undefined
  BY DEF PollFails, Goto, socket, TypeOK
<1>2. /\ s \in Seq(Clients) /\ n \in Nat /\ DOMAIN s = 1 .. n /\ Len(p) \in Nat
      /\ \A k \in 1 .. n : s[k] \in Clients
  BY LenProperties, ElementOfSeq DEF TypeOK
<1>3. /\ Len(p) <= n /\ Node(Len(p) + 1) = NoFd
      /\ \A k \in 1 .. Len(p) : p[k].fd = s[k] /\ p[k].revents = "unset"
  BY <1>1 DEF Filling
<1>4. n = Len(p)
  <2> SUFFICES ASSUME Len(p) < n PROVE FALSE
    BY <1>2, <1>3
  <2>1. Len(p) + 1 \in 1 .. n
    BY <1>2
  <2> QED  BY <1>2, <1>3, <2>1, TcpAssumption DEF Node
<1>5. \A j, k \in 1 .. n : p[j].fd = p[k].fd => j = k
  BY <1>2, <1>3, <1>4 DEF KnownOnce, IsInjective
<1>6. \A k \in 1 .. n : Reported(p, k, k < i'[w], -1)
  BY <1>2, <1>3, <1>4 DEF Reported
<1>7. \A k \in 1 .. n : Reported(pollfds[w], k, k < i[w], ret[w])'
  BY <1>1, <1>6 DEF Reported, Gone, Readable
<1>8. Looking(w)'
  BY <1>1, <1>2, <1>4, <1>5, <1>7 DEF Looking
<1> QED  BY <1>1, <1>8 DEF Filling

\* The loop: a client is taken off the list when its connection has gone, and a read
\* begins where it returns at once, unless poll() has failed.
LEMMA LoopLooking ==
  ASSUME TypeOK, TypeOK', NEW w \in Workers, Looking(w), undefined' = FALSE,
         HangUp(w) \/ NoEvent(w) \/ HasData(w)
  PROVE  /\ Filling(w)' /\ Looking(w)'
         /\ HangUp(w) => \A c \in Clients : In(c, m_connectedClientsFds) /\ ~ Gone(c)
                                              => In(c, m_connectedClientsFds') \/ c \in unheard'
<1>1. /\ pc[w] = "loop" /\ i[w] <= Len(m_connectedClientsFds)
      /\ UNCHANGED <<pollfds, ret, stream, conn>>
  BY DEF HangUp, NoEvent, HasData, Goto, InLoop, socket
<1>2. /\ i[w] \in 1 .. Len(pollfds[w]) /\ Reported(pollfds[w], i[w], FALSE, ret[w])
      /\ \A e \in Entries(w) :
           e.fd = pollfds[w][i[w]].fd /\ (ret[w] # -1 => e = pollfds[w][i[w]])
  BY <1>1, EntryAt
<1>3. CASE HangUp(w) \/ NoEvent(w)
  <2>1. pc'[w] = "loop" /\ i'[w] = i[w] + 1
    BY <1>3 DEF HangUp, NoEvent, Goto, Next_i, TypeOK
  <2>2. Len(m_connectedClientsFds') <= Len(m_connectedClientsFds)
    <3>1. CASE HangUp(w)
      BY <3>1, HangUpFacts
    <3>2. CASE NoEvent(w)
      <4>1. m_connectedClientsFds' = m_connectedClientsFds /\ Len(m_connectedClientsFds) \in Nat
        BY <3>2, LenProperties DEF NoEvent, TypeOK
      <4> QED  BY <4>1
    <3> QED  BY <1>3, <3>1, <3>2
  <2>3. m_connectedClientsFds' \in Seq(Clients)
    BY DEF TypeOK
  <2>4. Filling(w)' /\ Looking(w)'
    BY <1>1, <2>1, <2>2, <2>3, NextEntry
  <2>5. ASSUME HangUp(w), NEW c \in Clients, In(c, m_connectedClientsFds), ~ Gone(c)
        PROVE  In(c, m_connectedClientsFds') \/ c \in unheard'
    <3>1. PICK e \in Entries(w) :
            /\ e.revents = "hup"
            /\ \A d : In(d, m_connectedClientsFds) /\ d # e.fd => In(d, m_connectedClientsFds')
            /\ ret[w] = -1 /\ In(e.fd, m_connectedClientsFds) => e.fd \in unheard'
      BY <2>5, HangUpFacts
    <3>2. ret[w] # -1 => Gone(e.fd)
      BY <1>2, <3>1 DEF Reported
    <3> QED  BY <2>5, <3>1, <3>2
  <2> QED  BY <2>4, <2>5
<1>4. CASE HasData(w)
  <2>1. /\ pc'[w] = "read" /\ i' = i /\ m_connectedClientsFds' = m_connectedClientsFds
        /\ \E e \in Entries(w) : e.revents = "in" /\ fd'[w] = e.fd
    BY <1>4 DEF HasData, Goto, TypeOK
  <2>2. /\ ret[w] # -1 => pollfds[w][i[w]].revents = "in"
        /\ fd'[w] = pollfds[w][i[w]].fd
    BY <1>2, <2>1
  <2>3. ret[w] # -1 => Readable(pollfds[w][i[w]].fd)
    BY <1>2, <2>2 DEF Reported
  <2>4. Readable(fd[w])' \/ ret'[w] = -1
    BY <1>1, <2>2, <2>3 DEF Readable, Gone
  <2>5. ASSUME NEW k \in 1 .. Len(pollfds[w]) PROVE Reported(pollfds[w], k, k <= i[w], ret[w])'
    <3>1. Reported(pollfds[w], k, k < i[w], ret[w])
      BY <1>1 DEF Looking
    <3>2. k < i[w] => k <= i[w]
      BY <1>2
    <3> QED  BY <1>1, <2>1, <3>1, <3>2 DEF Reported, Gone, Readable
  <2>6. Looking(w)'
    BY <1>1, <1>2, <2>1, <2>2, <2>4, <2>5 DEF Looking
  <2>7. Filling(w)' /\ ~ HangUp(w)
    BY <1>4, <2>1 DEF Filling, HangUp, Goto, TypeOK
  <2> QED  BY <2>6, <2>7
<1> QED  BY <1>3, <1>4

\* A read takes data from one client; later entries are of others.
LEMMA ReadLooking ==
  ASSUME TypeOK, TypeOK', NEW w \in Workers, Looking(w),
         Read(w) \/ ReadError(w) \/ ReadEnd(w) \/ Push(w)
  PROVE  Filling(w)' /\ Looking(w)'
<1>1. CASE ReadEnd(w) \/ Push(w)
  <2>1. /\ pc[w] \in {"loop", "read", "push"} /\ pc'[w] = "loop" /\ i'[w] = i[w] + 1
        /\ UNCHANGED <<pollfds, ret, stream, conn, m_connectedClientsFds>>
    BY <1>1 DEF ReadEnd, Push, Goto, Next_i, TypeOK, socket
  <2>2. Len(m_connectedClientsFds) \in Nat /\ m_connectedClientsFds' \in Seq(Clients)
    BY LenProperties DEF TypeOK
  <2>3. Len(m_connectedClientsFds') <= Len(m_connectedClientsFds)
    BY <2>1, <2>2
  <2> QED  BY <2>1, <2>2, <2>3, NextEntry
<1>2. CASE Read(w) \/ ReadError(w)
  <2>1. /\ pc[w] = "read" /\ pc'[w] = "push"
        /\ UNCHANGED <<pollfds, ret, conn, m_connectedClientsFds, i>>
        /\ \A c \in Clients : c # fd[w] => stream'[c] = stream[c]
    BY <1>2 DEF Read, ReadError, Goto, TypeOK, socket
  <2>2. ASSUME NEW k \in 1 .. Len(pollfds[w]) PROVE Reported(pollfds[w], k, k <= i[w], ret[w])'
    <3>1. Reported(pollfds[w], k, k <= i[w], ret[w])
      BY <2>1 DEF Looking
    <3>2. CASE k <= i[w]
      BY <2>1, <3>1, <3>2 DEF Reported, Gone
    <3>3. CASE ~ (k <= i[w])
      <4>1. i[w] \in 1 .. Len(pollfds[w]) /\ fd[w] = pollfds[w][i[w]].fd
        BY <2>1 DEF Looking
      <4>2. k # i[w]
        BY <3>3, <4>1
      <4>3. pollfds[w][k].fd # fd[w]
        BY <2>1, <4>1, <4>2 DEF Looking
      <4> QED  BY <2>1, <3>1, <4>3 DEF Reported, Gone, Readable
    <3> QED  BY <3>2, <3>3
  <2>3. Looking(w)'
    BY <2>1, <2>2 DEF Looking
  <2> QED  BY <2>1, <2>3 DEF Filling
<1> QED  BY <1>1, <1>2

\* A client that is connected is somewhere, unless a poll() that failed cost it its place.
Kept ==
  \A c \in Clients : conn[c] = "up" =>
    \/ In(c, m_connectedClientsFds) \/ In(c, backlog)
    \/ \E w \in Workers : Accepting(w, c)
    \/ c \in unheard

\* What holds of the array, the list and the clients while one worker is alone.
AloneInv ==
  /\ \A w \in Workers : Filling(w) /\ Looking(w)
  /\ undefined => Len(m_connectedClientsFds) > BACKLOG
  /\ Kept

ServerInv == TypeOK /\ AcceptedIsClient /\ KnownOnce /\ (Alone => AloneInv)

\* A server without clients.
LEMMA InitServerInv == Init => ServerInv
<1> SUFFICES ASSUME Init PROVE ServerInv
  OBVIOUS
<1>1. TypeOK /\ AcceptedIsClient
  BY InitType DEF Init, AcceptedIsClient
<1>2. \A c : ~ In(c, m_connectedClientsFds) /\ ~ In(c, backlog)
  BY DEF Init, In
<1>3. \A w \in Workers, c \in Clients : ~ Accepting(w, c)
  BY DEF Init, Accepting
<1>4. KnownOnce
  BY <1>2, <1>3 DEF KnownOnce, Init, IsInjective
<1>5. AloneInv
  BY DEF AloneInv, Init, Filling, Looking, Kept
<1> QED  BY <1>1, <1>4, <1>5 DEF ServerInv

\* A client is not forgotten.
LEMMA KeptFrame ==
  ASSUME Kept,
         \A c \in Clients : conn'[c] = "up" => conn[c] = "up" \/ In(c, backlog'),
         \A c \in Clients : In(c, backlog) => In(c, backlog'),
         \A c \in Clients : In(c, m_connectedClientsFds) /\ conn[c] = "up"
                              => In(c, m_connectedClientsFds') \/ c \in unheard',
         unheard \subseteq unheard',
         \A w \in Workers, c \in Clients : Accepting(w, c) => Accepting(w, c)'
  PROVE  Kept'
<1> QED  BY DEF Kept

\* A single worker in run() keeps what it knows of the list of clients.
LEMMA NextAlone ==
  ASSUME TypeOK, TypeOK', AcceptedIsClient, KnownOnce, AloneInv, Alone, [Next]_vars
  PROVE  AloneInv'
<1>1. CASE UNCHANGED vars
  <2>1. UNCHANGED <<m_connectedClientsFds, backlog, conn, stream, pc, fd, pollfds, ret, i,
                    undefined, unheard>>
    BY <1>1 DEF vars, socket, worker
  <2>2. \A w \in Workers : Filling(w)' /\ Looking(w)'
    BY <2>1, LookingFrame DEF AloneInv, Gone, Readable
  <2>3. Kept'
    BY <2>1 DEF Kept, AloneInv, Accepting
  <2> QED  BY <2>1, <2>2, <2>3 DEF AloneInv
<1>2. ASSUME NEW c \in Clients, Connect(c) \/ Send(c) \/ Disconnect(c) \/ Abort(c)
      PROVE  AloneInv'
  <2>1. /\ UNCHANGED <<m_connectedClientsFds, pc, fd, pollfds, ret, i, undefined, unheard>> /\ ~ undefined
        /\ \A d \in Clients : (Gone(d) => Gone(d)') /\ (Readable(d) => Readable(d)')
    BY <1>2, PeerLooking
  <2>2. \A w \in Workers : Filling(w)' /\ Looking(w)'
    BY <2>1, LookingFrame DEF AloneInv
  <2>3. Kept'
    <3>1. \A w \in Workers, d \in Clients : Accepting(w, d) => Accepting(w, d)'
      BY <2>1 DEF Accepting
    <3>2. /\ \A d \in Clients : In(d, backlog) => In(d, backlog')
          /\ \A d \in Clients : conn'[d] = "up" => conn[d] = "up" \/ In(d, backlog')
      <4>1. CASE Connect(c)
        <5>1. /\ backlog' = Append(backlog, c) /\ backlog \in Seq(Clients)
              /\ conn' = [conn EXCEPT ![c] = "up"]
          BY <4>1 DEF Connect, TypeOK
        <5>2. \A d : In(d, backlog') <=> In(d, backlog) \/ d = c
          BY <5>1, AppendElements
        <5>3. \A d \in Clients \ {c} : conn'[d] = conn[d]
          BY <5>1 DEF TypeOK
        <5> QED  BY <5>2, <5>3
      <4>2. CASE Send(c) \/ Disconnect(c) \/ Abort(c)
        BY <4>2 DEF Send, Disconnect, Abort, TypeOK
      <4> QED  BY <1>2, <4>1, <4>2
    <3> QED  BY <2>1, <3>1, <3>2, KeptFrame DEF AloneInv
  <2> QED  BY <2>1, <2>2, <2>3 DEF AloneInv
<1>3. ASSUME NEW w \in Workers, RunStep(w) PROVE AloneInv'
  <2>1. Workers = {w} /\ Filling(w) /\ Looking(w) /\ Kept
    BY AloneWorker DEF AloneInv
  <2>2. CASE Accept(w) \/ AddClient(w)
    <3>1. Kept'
      <4>1. unheard' = unheard
        BY <2>2 DEF Accept, AddClient
      <4> QED  BY <2>1, <2>2, <4>1, AcceptKnown DEF Kept
    <3>2. pc'[w] \in {"accepted", "checkRx"} /\ undefined' = FALSE
      BY <2>2 DEF Accept, AddClient, Goto, TypeOK
    <3>3. Filling(w)' /\ Looking(w)'
      BY <3>2 DEF Filling, Looking
    <3> QED  BY <2>1, <3>1, <3>2, <3>3 DEF AloneInv
  <2>3. CASE ~ (Accept(w) \/ AddClient(w))
    <3>1. /\ UNCHANGED <<backlog, conn>>
          /\ ~ HangUp(w) => UNCHANGED m_connectedClientsFds
          /\ \A v \in Workers, c \in Clients : Accepting(v, c)' <=> Accepting(v, c)
      BY <1>3, <2>3, StillKnown DEF RunStep
    <3>2. /\ Filling(w)' /\ Looking(w)'
          /\ undefined' => ~ HangUp(w) /\ Len(m_connectedClientsFds) > BACKLOG
      <4>1. CASE CheckRx(w) \/ Fill(w)
        <5>1. ~ HangUp(w)
          BY <4>1 DEF CheckRx, Fill, HangUp, Goto
        <5> QED  BY <2>1, <4>1, <5>1, FillLooking
      <4>2. CASE Poll(w)
        <5>1. ~ HangUp(w)
          BY <4>2 DEF Poll, HangUp, Goto
        <5> QED  BY <2>1, <4>2, <5>1, PollLooking
      <4>2a. CASE PollFails(w)
        BY <2>1, <4>2a, PollFailsLooking
      <4>3. CASE HangUp(w) \/ NoEvent(w) \/ HasData(w)
        <5>1. undefined' = FALSE
          BY <4>3 DEF HangUp, NoEvent, HasData, Goto, TypeOK
        <5> QED  BY <2>1, <4>3, <5>1, LoopLooking
      <4>4. CASE Read(w) \/ ReadError(w) \/ ReadEnd(w) \/ Push(w)
        <5>1. undefined' = FALSE
          BY <4>4 DEF Read, ReadError, ReadEnd, Push, Goto, TypeOK
        <5> QED  BY <2>1, <4>4, <5>1, ReadLooking
      <4>5. CASE LoopDone(w)
        <5>1. /\ pc'[w] = "idle" /\ ~ HangUp(w)
              /\ undefined' = (BACKLOG < i[w] /\ i[w] <= Len(m_connectedClientsFds))
          BY <4>5 DEF LoopDone, HangUp, Goto, TypeOK
        <5>2. i[w] \in Nat /\ Len(m_connectedClientsFds) \in Nat
          BY LenProperties DEF TypeOK
        <5>3. undefined' => Len(m_connectedClientsFds) > BACKLOG
          <6>1. undefined' => BACKLOG < i[w] /\ i[w] <= Len(m_connectedClientsFds)
            BY <5>1
          <6>2. BACKLOG < i[w] /\ i[w] <= Len(m_connectedClientsFds)
                  => Len(m_connectedClientsFds) > BACKLOG
            BY <5>2, TcpAssumption
          <6> QED  BY <6>1, <6>2
        <5>4. Filling(w)' /\ Looking(w)'
          BY <5>1 DEF Filling, Looking
        <5> QED  BY <5>1, <5>3, <5>4
      <4>6. CASE AcceptNone(w)
        <5>1. pc'[w] = "checkRx" /\ undefined' = FALSE
          BY <4>6 DEF AcceptNone, Goto, TypeOK
        <5> QED  BY <5>1 DEF Filling, Looking
      <4> QED  BY <1>3, <2>3, <4>1, <4>2, <4>2a, <4>3, <4>4, <4>5, <4>6 DEF RunStep
    <3>3. \A c \in Clients : In(c, m_connectedClientsFds) /\ conn[c] = "up"
                               => In(c, m_connectedClientsFds') \/ c \in unheard'
      <4>1. CASE HangUp(w)
        <5>1. undefined' = FALSE
          BY <4>1 DEF HangUp, Goto, TypeOK
        <5>2. \A c \in Clients : In(c, m_connectedClientsFds) /\ ~ Gone(c)
                                   => In(c, m_connectedClientsFds') \/ c \in unheard'
          BY <2>1, <4>1, <5>1, LoopLooking
        <5> QED  BY <5>2 DEF Gone
      <4>2. CASE ~ HangUp(w)
        BY <3>1, <4>2
      <4> QED  BY <4>1, <4>2
    <3>3a. unheard \subseteq unheard'
      <4>1. CASE HangUp(w)
        BY <4>1, HangUpFacts
      <4>2. CASE ~ HangUp(w)
        BY <1>3, <2>3, <4>2 DEF RunStep, AcceptNone, CheckRx, Fill, Poll, PollFails, HasData,
           NoEvent, LoopDone, Read, ReadEnd, ReadError, Push
      <4> QED  BY <4>1, <4>2
    <3>4. Kept'
      BY <2>1, <3>1, <3>3, <3>3a, KeptFrame
    <3> QED  BY <2>1, <3>1, <3>2, <3>4 DEF AloneInv
  <2> QED  BY <2>2, <2>3
<1> QED  BY <1>1, <1>2, <1>3 DEF Next, Peer

\* Every step of workers, clients and the listening thread keeps the invariant.
LEMMA NextServerInv == ServerInv /\ [Next]_vars => ServerInv'
<1> SUFFICES ASSUME ServerInv, [Next]_vars PROVE ServerInv'
  OBVIOUS
<1>1. TypeOK' /\ AcceptedIsClient' /\ KnownOnce'
  BY NextType, NextKnown DEF ServerInv
<1>2. Alone => AloneInv'
  BY <1>1, NextAlone DEF ServerInv
<1> QED  BY <1>1, <1>2 DEF ServerInv, Alone

\* A client is in the backlog, with the worker that accepted it or on the list, never in
\* two of these places, with any number of workers; and with one worker no client that
\* is connected is ever dropped, although the loop takes others off the list it runs over,
\* unless poll() failed.
THEOREM NoClientTwiceOrForgotten == Spec => []ClientsKept
<1>1. ServerInv => ClientsKept
  <2> SUFFICES ASSUME ServerInv PROVE ClientsKept
    OBVIOUS
  <2> DEFINE s == m_connectedClientsFds
             b == backlog
  <2>1. s \in Seq(Clients) /\ b \in Seq(Clients)
    BY DEF ServerInv, TypeOK
  <2>2. /\ IsInjective(s) /\ IsInjective(b)
        /\ \A j \in DOMAIN s : \A k \in DOMAIN b : s[j] # b[k]
    <3>1. DOMAIN s = 1 .. Len(s) /\ \A j \in 1 .. Len(s) : s[j] \in Clients
      BY <2>1, LenProperties, ElementOfSeq
    <3> QED  BY <3>1 DEF ServerInv, KnownOnce, In
  <2>3. IsInjective(s \o b)
    BY <2>1, <2>2, ConcatInjective DEF IsInjective
  <2>4. \A c : Contains(s \o b, c) <=> In(c, s) \/ In(c, b)
    <3>1. Len(s \o b) = Len(s) + Len(b)
      BY <2>1, ConcatProperties
    <3>2. DOMAIN (s \o b) = 1 .. Len(s \o b)
      BY <2>1, <3>1, ConcatElements
    <3> SUFFICES ASSUME NEW c PROVE In(c, s \o b) <=> In(c, s) \/ In(c, b)
      BY <3>2 DEF Contains, In
    <3> DEFINE t == s \o b
    <3> HIDE DEF s, b
    <3>3. /\ \A k \in DOMAIN s : k \in DOMAIN t /\ t[k] = s[k]
          /\ \A k \in DOMAIN b : Len(s) + k \in DOMAIN t /\ t[Len(s) + k] = b[k]
          /\ \A k \in DOMAIN t :
               \/ k \in DOMAIN s /\ t[k] = s[k]
               \/ k - Len(s) \in DOMAIN b /\ t[k] = b[k - Len(s)] /\ k > Len(s)
      BY <2>1, ConcatElements
    <3> HIDE DEF t
    <3>4. ASSUME In(c, t) PROVE In(c, s) \/ In(c, b)
      <4>1. PICK k \in DOMAIN t : t[k] = c
        BY <3>4 DEF In
      <4>2. \/ k \in DOMAIN s /\ t[k] = s[k]
            \/ k - Len(s) \in DOMAIN b /\ t[k] = b[k - Len(s)]
        BY <3>3
      <4> QED  BY <4>1, <4>2 DEF In
    <3>5. In(c, s) => In(c, t)
      BY <3>3 DEF In
    <3>6. ASSUME In(c, b) PROVE In(c, t)
      <4>1. PICK k \in DOMAIN b : b[k] = c
        BY <3>6 DEF In
      <4>2. Len(s) + k \in DOMAIN t /\ t[Len(s) + k] = b[k]
        BY <3>3
      <4> QED  BY <4>1, <4>2 DEF In
    <3> QED  BY <3>4, <3>5, <3>6 DEF t
  <2>5. \A w \in Workers : pc[w] = "accepted" => ~ Contains(s \o b, fd[w])
    BY <2>4 DEF ServerInv, KnownOnce, AcceptedIsClient, Accepting
  <2>6. Alone => \A c \in Clients : conn[c] = "up" =>
          \/ Contains(s \o b, c) \/ c \in unheard
          \/ \E w \in Workers : pc[w] = "accepted" /\ fd[w] = c
    BY <2>4 DEF ServerInv, AloneInv, Kept, Accepting
  <2> QED  BY <2>3, <2>5, <2>6 DEF ClientsKept
<1> QED  BY <1>1, InitServerInv, NextServerInv, PTL DEF Spec

\* With one worker the server looks only at entries of the array that it has written, and
\* it stays inside the array as long as no more clients are connected than the array has
\* places.  An entry it looks at was polled exactly when poll() has not failed, and then a
\* read that it begins returns at once.
THEOREM AloneIsDefined == Spec => []AloneDefined
<1>1. ServerInv => AloneDefined
  <2> SUFFICES ASSUME ServerInv, Alone, NEW w \in Workers
               PROVE  /\ undefined => Len(m_connectedClientsFds) > BACKLOG
                      /\ pc[w] = "read" =>
                           /\ fd[w] # NoFd
                           /\ stream[fd[w]] # <<>> \/ conn[fd[w]] # "up" \/ ret[w] = -1
                      /\ pc[w] = "loop" /\ i[w] <= Len(m_connectedClientsFds) =>
                           /\ i[w] <= Len(pollfds[w])
                           /\ pollfds[w][i[w]].revents = "unset" <=> ret[w] = -1
    <3>1. Alone => Workers # {}
      BY FS_Singleton, TcpAssumption DEF Alone
    <3> QED  BY <3>1 DEF AloneDefined
  <2>1. TypeOK /\ Looking(w) /\ (undefined => Len(m_connectedClientsFds) > BACKLOG)
    BY DEF ServerInv, AloneInv
  <2>2. ASSUME pc[w] = "read"
        PROVE  /\ fd[w] # NoFd
               /\ stream[fd[w]] # <<>> \/ conn[fd[w]] # "up" \/ ret[w] = -1
    <3>1. fd[w] \in Clients /\ (Readable(fd[w]) \/ ret[w] = -1)
      BY <2>1, <2>2 DEF Looking, Reported
    <3> QED  BY <3>1, TcpAssumption DEF Readable, Gone
  <2>3. ASSUME pc[w] = "loop", i[w] <= Len(m_connectedClientsFds)
        PROVE  i[w] <= Len(pollfds[w]) /\ (pollfds[w][i[w]].revents = "unset" <=> ret[w] = -1)
    <3>1. i[w] \in 1 .. Len(pollfds[w]) /\ Reported(pollfds[w], i[w], FALSE, ret[w])
      BY <2>1, <2>3, EntryAt
    <3> QED  BY <3>1 DEF Reported
  <2> QED  BY <2>1, <2>2, <2>3
<1> QED  BY <1>1, InitServerInv, NextServerInv, PTL DEF Spec
=============================================================================
