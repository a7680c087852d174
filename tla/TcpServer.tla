----------------------------- MODULE TcpServer -----------------------------
(***************************************************************************)
(* TcpServer: an input node that accepts TCP clients and pushes what they  *)
(* send to the data manager.                                               *)
(*                                                                         *)
(* runJobs queues the node again and again, so several workers of the pool *)
(* may be inside run() of one server at a time.  The list of clients is    *)
(* changed under a mutex and read without it.  A file descriptor stands    *)
(* for its client: the server never closes one, so none is used twice.     *)
(* The clients and their connections are external; a client's data is      *)
(* numbered in the order it is sent.                                       *)
(*                                                                         *)
(* An entry of the poll array that nobody has written holds anything, and  *)
(* so does what poll() was to report in it when poll() has failed.  A list *)
(* node used after its removal and a write past the array are undefined    *)
(* behaviour, after which the model says nothing.                          *)
(***************************************************************************)
EXTENDS Integers, Sequences, FiniteSets, SequencesExt

CONSTANTS
  Clients,
  Workers,     \* the workers that come to execute run() of the server
  NoFd,        \* a number that is no open file descriptor
  BACKLOG,     \* places in the poll array
  MaxRead,     \* what one read takes at most, MSG_MAX_SIZE
  MaxSend      \* bound: pieces of data the clients send

ASSUME TcpAssumption ==
  /\ NoFd \notin Clients
  /\ IsFiniteSet(Workers)   \* threads of the pool
  /\ BACKLOG \in Nat /\ MaxSend \in Nat
  /\ MaxRead \in Nat \ {0}

VARIABLES
  m_connectedClientsFds,
  backlog,     \* connections the listening socket holds for accept
  conn,        \* state of each client's connection
  stream,      \* what each client has sent and nobody has read
  pc,          \* where each worker is in run()
  fd,          \* the client each worker accepts, copies or reads
  pollfds,     \* the poll array of each worker, as far as it is written
  ret,         \* what poll() has returned to each worker in the loop: -1 when it failed,
               \* 1 for any number of events; 0 outside of the loop
  i,           \* the entry each worker has come to
  msg,         \* what each worker has read
  undefined,
  sent,        \* history: pieces each client has sent
  pushed,      \* history: what has been pushed of each client, in order
  unheard      \* history: clients taken off the list after a poll() that failed

socket == <<backlog, conn, stream, sent>>
worker == <<pc, fd, pollfds, ret, i, msg>>
vars == <<m_connectedClientsFds, socket, worker, undefined, pushed, unheard>>

Fds == Clients \cup {NoFd}
Events == {"unset", "none", "in", "hup"}

Init ==
  /\ m_connectedClientsFds = <<>>
  /\ backlog = <<>>
  /\ conn = [c \in Clients |-> "none"]
  /\ stream = [c \in Clients |-> <<>>]
  /\ pc = [w \in Workers |-> "idle"]
  /\ fd = [w \in Workers |-> NoFd]
  /\ pollfds = [w \in Workers |-> <<>>]
  /\ ret = [w \in Workers |-> 0]
  /\ i = [w \in Workers |-> 1]
  /\ msg = [w \in Workers |-> <<>>]
  /\ undefined = FALSE
  /\ sent = [c \in Clients |-> 0]
  /\ pushed = [c \in Clients |-> <<>>]
  /\ unheard = {}

-----------------------------------------------------------------------------
(* The clients.                                                            *)

server == <<m_connectedClientsFds, worker, undefined, pushed, unheard>>

Connect(c) ==
  /\ ~ undefined /\ conn[c] = "none" /\ Len(backlog) <= BACKLOG
  /\ conn' = [conn EXCEPT ![c] = "up"]
  /\ backlog' = Append(backlog, c)
  /\ UNCHANGED <<server, stream, sent>>

Send(c) ==
  /\ ~ undefined /\ conn[c] = "up"
  /\ Cardinality({p \in Clients \X (1 .. MaxSend) : p[2] <= sent[p[1]]}) < MaxSend
  /\ sent' = [sent EXCEPT ![c] = @ + 1]
  /\ stream' = [stream EXCEPT ![c] = Append(@, sent'[c])]
  /\ UNCHANGED <<server, backlog, conn>>

\* An orderly close: what was sent before it can still be read.
Disconnect(c) ==
  /\ ~ undefined /\ conn[c] = "up"
  /\ conn' = [conn EXCEPT ![c] = "closed"]
  /\ UNCHANGED <<server, backlog, stream, sent>>

\* The connection breaks: what nobody has read is gone.
Abort(c) ==
  /\ ~ undefined /\ conn[c] = "up"
  /\ conn' = [conn EXCEPT ![c] = "broken"]
  /\ stream' = [stream EXCEPT ![c] = <<>>]
  /\ UNCHANGED <<server, backlog, sent>>

-----------------------------------------------------------------------------
(* acceptConnectionReq()                                                   *)

Goto(w, from, to) ==
  ~ undefined /\ pc[w] = from /\ pc' = [pc EXCEPT ![w] = to]

\* accept() finds a connection.
Accept(w) ==
  /\ Goto(w, "idle", "accepted")
  /\ backlog # <<>>
  /\ backlog' = Tail(backlog)
  /\ fd' = [fd EXCEPT ![w] = Head(backlog)]
  /\ UNCHANGED <<m_connectedClientsFds, conn, stream, sent, pollfds, ret, i, msg,
                 undefined, pushed, unheard>>

\* accept() would block, and the socket is non-blocking.
AcceptNone(w) ==
  /\ Goto(w, "idle", "checkRx")
  /\ backlog = <<>>
  /\ UNCHANGED <<m_connectedClientsFds, socket, fd, pollfds, ret, i, msg, undefined,
                 pushed, unheard>>

\* The client joins the list, under the mutex.
AddClient(w) ==
  /\ Goto(w, "accepted", "checkRx")
  /\ m_connectedClientsFds' = Append(m_connectedClientsFds, fd[w])
  /\ UNCHANGED <<socket, fd, pollfds, ret, i, msg, undefined, pushed, unheard>>

-----------------------------------------------------------------------------
(* fdToPollFdArray() and poll()                                            *)

\* The client behind position k of the list, NoFd for its end.
Node(k) == IF k \in DOMAIN m_connectedClientsFds THEN m_connectedClientsFds[k] ELSE NoFd

\* Slip: the loop counts from before the first entry.
FirstEntry_Before == 0

FirstEntry == 1

\* A new poll array, nothing of it written; the iterator is at the first client.
CheckRx(w) ==
  /\ Goto(w, "checkRx", "fill")
  /\ pollfds' = [pollfds EXCEPT ![w] = <<>>]
  /\ fd' = [fd EXCEPT ![w] = Node(1)]
  /\ UNCHANGED <<m_connectedClientsFds, socket, ret, i, msg, undefined, pushed, unheard>>

\* One turn of the loop over the list, without the mutex.
Fill(w) ==
  /\ Goto(w, "fill", "fill")
  /\ fd[w] # NoFd
  /\ IF Contains(m_connectedClientsFds, fd[w]) /\ Len(pollfds[w]) < BACKLOG
     THEN /\ pollfds' = [pollfds EXCEPT ![w] = Append(@, [fd |-> fd[w], revents |-> "unset"])]
          /\ \E k \in DOMAIN m_connectedClientsFds :
               /\ m_connectedClientsFds[k] = fd[w]
               /\ fd' = [fd EXCEPT ![w] = Node(k + 1)]
          /\ UNCHANGED undefined
     ELSE undefined' = TRUE /\ UNCHANGED <<pollfds, fd>>
  /\ UNCHANGED <<m_connectedClientsFds, socket, ret, i, msg, pushed, unheard>>

\* Slip: POLLOUT among the events, which a connection always has.
Revents_Writable(c) ==
  IF c = NoFd THEN "none" ELSE IF conn[c] = "up" THEN "in" ELSE "hup"

\* What poll() reports of a descriptor; a peer that has closed shows as hung up,
\* beside any data that is left.
Revents(c) ==
  IF c = NoFd THEN "none"
  ELSE IF conn[c] \in {"closed", "broken"} THEN "hup"
  ELSE IF stream[c] # <<>> THEN "in"
  ELSE "none"

\* What an entry that nobody has written may hold: any number.
Garbage == {NoFd} \cup {c \in Clients : conn[c] # "none" /\ ~ Contains(backlog, c)}

\* poll() looks at as many entries as the list has by now; entries beyond the
\* ones written hold any descriptor.
Polled(w, n, e) ==
  [k \in 1 .. n |->
     LET c == IF k <= Len(pollfds[w]) THEN pollfds[w][k].fd ELSE e[k] IN
       [fd |-> c, revents |-> Revents(c)]]
    \o SubSeq(pollfds[w], n + 1, Len(pollfds[w]))

\* poll() returns; with no event it has timed out and run() ends.
Poll(w) ==
  /\ ~ undefined /\ pc[w] = "fill" /\ fd[w] = NoFd
  /\ LET n == Len(m_connectedClientsFds) IN
       \E e \in [Len(pollfds[w]) + 1 .. n -> Garbage] :
         LET p == Polled(w, n, e) IN
           IF \E k \in 1 .. n : p[k].revents # "none"
           THEN /\ pc' = [pc EXCEPT ![w] = "loop"]
                /\ pollfds' = [pollfds EXCEPT ![w] = p]
                /\ ret' = [ret EXCEPT ![w] = 1]
           ELSE /\ pc' = [pc EXCEPT ![w] = "idle"]
                /\ pollfds' = [pollfds EXCEPT ![w] = <<>>]
                /\ UNCHANGED ret
  /\ undefined' = (Len(m_connectedClientsFds) > BACKLOG)
  /\ i' = [i EXCEPT ![w] = FirstEntry]
  /\ UNCHANGED <<m_connectedClientsFds, socket, fd, msg, pushed, unheard>>

\* poll() fails; -1 is not 0, and the loop begins over what poll() has not written.
PollFails(w) ==
  /\ Goto(w, "fill", "loop")
  /\ fd[w] = NoFd
  /\ ret' = [ret EXCEPT ![w] = -1]
  /\ i' = [i EXCEPT ![w] = FirstEntry]
  /\ UNCHANGED <<m_connectedClientsFds, socket, fd, pollfds, msg, undefined, pushed,
                 unheard>>

-----------------------------------------------------------------------------
(* checkRx(): the loop over the array, as long as the list is by now.      *)

\* What entry i of the array may hold.
Entries(w) ==
  IF i[w] \in DOMAIN pollfds[w] /\ pollfds[w][i[w]].revents # "unset"
  THEN {pollfds[w][i[w]]}
  ELSE [fd : IF i[w] \in DOMAIN pollfds[w] THEN {pollfds[w][i[w]].fd} ELSE Garbage,
        revents : Events]

Next_i(w) == i' = [i EXCEPT ![w] = @ + 1]

\* Slip: the loop ends one entry early.
InLoop_Short(w) == i[w] < Len(m_connectedClientsFds)

InLoop(w) == i[w] <= Len(m_connectedClientsFds) /\ i[w] <= BACKLOG

\* Slip: the first of the list is removed.
Without_First(list, c) == Tail(list)

\* list::remove; a descriptor is on the list once at most, see ClientsKept.
Without(list, c) ==
  IF Contains(list, c) THEN RemoveAt(list, CHOOSE k \in DOMAIN list : list[k] = c) ELSE list

\* remConnectedClient: off the list, the descriptor stays open.
HangUp(w) ==
  /\ Goto(w, "loop", "loop") /\ InLoop(w)
  /\ \E e \in Entries(w) :
       /\ e.revents = "hup"
       /\ m_connectedClientsFds' = Without(m_connectedClientsFds, e.fd)
       /\ unheard' = IF ret[w] = -1 /\ Contains(m_connectedClientsFds, e.fd)
                     THEN unheard \cup {e.fd} ELSE unheard
  /\ Next_i(w)
  /\ UNCHANGED <<socket, fd, pollfds, ret, msg, undefined, pushed>>

HasData(w) ==
  /\ Goto(w, "loop", "read") /\ InLoop(w)
  /\ \E e \in Entries(w) : e.revents = "in" /\ fd' = [fd EXCEPT ![w] = e.fd]
  /\ UNCHANGED <<m_connectedClientsFds, socket, pollfds, ret, i, msg, undefined,
                 pushed, unheard>>

NoEvent(w) ==
  /\ Goto(w, "loop", "loop") /\ InLoop(w)
  /\ \E e \in Entries(w) : e.revents \in {"none", "unset"}
  /\ Next_i(w)
  /\ UNCHANGED <<m_connectedClientsFds, socket, fd, pollfds, ret, msg, undefined,
                 pushed, unheard>>

\* The array is deleted and run() ends.
LoopDone(w) ==
  /\ Goto(w, "loop", "idle") /\ ~ InLoop(w)
  /\ pollfds' = [pollfds EXCEPT ![w] = <<>>]
  /\ ret' = [ret EXCEPT ![w] = 0]
  /\ i' = [i EXCEPT ![w] = FirstEntry]
  /\ undefined' = (BACKLOG < i[w] /\ i[w] <= Len(m_connectedClientsFds))
  /\ UNCHANGED <<m_connectedClientsFds, socket, fd, msg, pushed, unheard>>

-----------------------------------------------------------------------------
(* readRxData(): a read that blocks until there is something to return.    *)

\* Slip: MSG_PEEK, what is read stays in the socket.
Unread_Peek(s, n) == s

\* Slip: what does not fit into the buffer is thrown away.
Unread_None(s, n) == <<>>

Unread(s, n) == SubSeq(s, n + 1, Len(s))

Read(w) ==
  /\ Goto(w, "read", "push")
  /\ fd[w] # NoFd /\ stream[fd[w]] # <<>>
  /\ LET n == IF Len(stream[fd[w]]) < MaxRead THEN Len(stream[fd[w]]) ELSE MaxRead IN
       /\ msg' = [msg EXCEPT ![w] = SubSeq(stream[fd[w]], 1, n)]
       /\ stream' = [stream EXCEPT ![fd[w]] = Unread(@, n)]
  /\ UNCHANGED <<m_connectedClientsFds, backlog, conn, sent, fd, pollfds, ret, i,
                 undefined, pushed, unheard>>

\* read returns 0: nothing is pushed.  (Of a broken connection the error is reported once.)
ReadEnd(w) ==
  /\ Goto(w, "read", "loop")
  /\ fd[w] # NoFd /\ conn[fd[w]] \in {"closed", "broken"} /\ stream[fd[w]] = <<>>
  /\ fd' = [fd EXCEPT ![w] = NoFd]
  /\ Next_i(w)
  /\ UNCHANGED <<m_connectedClientsFds, socket, pollfds, ret, msg, undefined, pushed,
                 unheard>>

\* read returns -1, which is not 0 either: an empty message is pushed.
ReadError(w) ==
  /\ Goto(w, "read", "push")
  /\ fd[w] # NoFd => conn[fd[w]] = "broken"
  /\ msg' = [msg EXCEPT ![w] = <<>>]
  /\ UNCHANGED <<m_connectedClientsFds, socket, fd, pollfds, ret, i, undefined, pushed,
                 unheard>>

\* m_dataHandler->push, a step of its own: another worker may come first.
Push(w) ==
  /\ Goto(w, "push", "loop")
  /\ pushed' = IF fd[w] = NoFd THEN pushed
               ELSE [pushed EXCEPT ![fd[w]] = @ \o msg[w]]
  /\ msg' = [msg EXCEPT ![w] = <<>>]
  /\ fd' = [fd EXCEPT ![w] = NoFd]
  /\ Next_i(w)
  /\ UNCHANGED <<m_connectedClientsFds, socket, pollfds, ret, undefined, unheard>>

-----------------------------------------------------------------------------
Peer == \E c \in Clients : Connect(c) \/ Send(c) \/ Disconnect(c) \/ Abort(c)

RunStep(w) ==
  \/ Accept(w) \/ AcceptNone(w) \/ AddClient(w)
  \/ CheckRx(w) \/ Fill(w) \/ Poll(w) \/ PollFails(w)
  \/ HangUp(w) \/ HasData(w) \/ NoEvent(w) \/ LoopDone(w)
  \/ Read(w) \/ ReadEnd(w) \/ ReadError(w) \/ Push(w)

Next == Peer \/ \E w \in Workers : RunStep(w)

Spec == Init /\ [][Next]_vars

\* A worker that can go on does; the pool gives the node a worker again and again.
\* No client has to connect, to send or to close.  poll() may fail any number of times,
\* but a call that is made again and again does not fail for ever.
Fairness == \A w \in Workers : WF_vars(RunStep(w)) /\ SF_vars(Poll(w))

FairSpec == Spec /\ Fairness

-----------------------------------------------------------------------------
TypeOK ==
  /\ m_connectedClientsFds \in Seq(Clients) /\ backlog \in Seq(Clients)
  /\ conn \in [Clients -> {"none", "up", "closed", "broken"}]
  /\ stream \in [Clients -> Seq(Nat)]
  /\ pc \in [Workers -> {"idle", "accepted", "checkRx", "fill", "loop", "read", "push"}]
  /\ fd \in [Workers -> Fds]
  /\ pollfds \in [Workers -> Seq([fd : Fds, revents : Events])]
  /\ ret \in [Workers -> {-1, 0, 1}]
  /\ i \in [Workers -> Nat \ {0}]
  /\ msg \in [Workers -> Seq(Nat)]
  /\ undefined \in BOOLEAN
  /\ sent \in [Clients -> Nat]
  /\ pushed \in [Clients -> Seq(Nat)]
  /\ unheard \subseteq Clients

Alone == Cardinality(Workers) = 1

\* What worker w has read of client c and not pushed yet.
Held(w, c) == IF pc[w] = "push" /\ fd[w] = c THEN msg[w] ELSE <<>>

\* However many workers are in run(), each piece of data is at every moment in one
\* place, once: unread, in the hands of one worker, or pushed; a read and its push
\* are two steps, and all the workers that polled the client read from it.
ReadOnce ==
  \A c \in Clients :
    /\ IsInjective(pushed[c] \o stream[c])
    /\ \A v \in Workers :
         /\ IsInjective(Held(v, c))
         /\ Range(Held(v, c)) \cap Range(pushed[c] \o stream[c]) = {}
         /\ \A w \in Workers \ {v} : Range(Held(v, c)) \cap Range(Held(w, c)) = {}
    /\ conn[c] # "broken" =>
         1 .. sent[c] = Range(pushed[c] \o stream[c]) \cup UNION {Range(Held(w, c)) : w \in Workers}

\* A worker that is alone in run() pushes the data of a client in the order the
\* client sent it, and loses nothing unless the connection breaks.
AloneInOrder ==
  Alone => \A w \in Workers, c \in Clients :
    LET flow == pushed[c] \o Held(w, c) \o stream[c] IN
      /\ \A k \in DOMAIN flow : flow[k] = k
      /\ Len(flow) <= sent[c] /\ (conn[c] # "broken" => Len(flow) = sent[c])

\* A client is known to the server in one place at most, and a worker that is alone
\* keeps every client that is connected: the loop removes clients from the list whose
\* length it runs to, while later entries of the array wait.  Only a poll() that failed
\* lets it drop one that has not hung up.
ClientsKept ==
  LET accepting == {w \in Workers : pc[w] = "accepted"} IN
    /\ IsInjective(m_connectedClientsFds \o backlog)
    /\ \A w \in accepting : ~ Contains(m_connectedClientsFds \o backlog, fd[w])
    /\ Alone => \A c \in Clients : conn[c] = "up" =>
         \/ Contains(m_connectedClientsFds \o backlog, c)
         \/ \E w \in accepting : fd[w] = c
         \/ c \in unheard

\* A worker that is alone in run() looks only at entries it has written, reads only from
\* descriptors it has written, and stays inside the array while no more than BACKLOG
\* clients are connected.  Unless poll() has failed, every entry it looks at was polled,
\* and what poll() reported of it still holds: a read returns at once.
AloneDefined ==
  Alone =>
    /\ undefined => Len(m_connectedClientsFds) > BACKLOG
    /\ \A w \in Workers :
         /\ pc[w] = "read" =>
              /\ fd[w] # NoFd
              /\ stream[fd[w]] # <<>> \/ conn[fd[w]] # "up" \/ ret[w] = -1
         /\ pc[w] = "loop" /\ i[w] <= Len(m_connectedClientsFds) =>
              /\ i[w] <= Len(pollfds[w])
              /\ pollfds[w][i[w]].revents = "unset" <=> ret[w] = -1

\* What a client sent before it closed the connection is read: a client that is off the
\* list after a poll() that worked leaves nothing unread.
NothingLeftUnread ==
  \A c \in Clients \ unheard : conn[c] = "closed" /\ stream[c] # <<>> =>
    \/ Contains(m_connectedClientsFds \o backlog, c)
    \/ \E w \in Workers : pc[w] = "accepted" /\ fd[w] = c

-----------------------------------------------------------------------------
\* run() returns, whatever the clients do: no worker whose poll() worked stays in a read.
RunReturns ==
  \A w \in Workers : (pc[w] = "read" /\ ret[w] = 1) ~> (pc[w] # "read" \/ undefined)

Settled(c) ==
  IF conn[c] = "up" THEN Len(pushed[c]) = sent[c]
  ELSE ~ Contains(m_connectedClientsFds \o backlog, c)

\* With one worker that is run again and again everything a client sends is pushed in
\* the end, or the client goes; and a client that has gone leaves the list of peers.
\* (After a poll() that failed the worker may drop the client, or stay in a read.)
ClientsServed ==
  \A c \in Clients : (Alone /\ ~ Settled(c)) ~>
    \/ Settled(c) \/ undefined \/ c \in unheard
    \/ \E w \in Workers : [](pc[w] = "read" /\ ret[w] = -1)
=============================================================================
