------------------------ MODULE TotalOrderBroadcast ------------------------
(***************************************************************************)
(* What the data manager promises: messages fed to the channel are put     *)
(* into one order, each once, and every receiver gets the messages in that *)
(* order, starting at the position it has joined at.  Nothing is said of   *)
(* queues, threads or locks.                                               *)
(***************************************************************************)
EXTENDS Integers, Sequences, Functions

CONSTANTS Message, Receivers

VARIABLES
  fed,     \* messages fed and not yet ordered
  order,   \* the one order of the messages
  got,     \* what each receiver has received
  base     \* the position in the order each receiver has joined at

vars == <<fed, order, got, base>>

Init ==
  /\ fed = {} /\ order = <<>>
  /\ got = [r \in Receivers |-> <<>>]
  /\ base = [r \in Receivers |-> 0]

Feed(m) ==
  /\ m \notin fed \cup Range(order)
  /\ fed' = fed \cup {m}
  /\ UNCHANGED <<order, got, base>>

\* Some of the messages fed, in some order, are next.
Order ==
  /\ Len(order') >= Len(order)
  /\ SubSeq(order', 1, Len(order)) = order
  /\ LET batch == SubSeq(order', Len(order) + 1, Len(order')) IN
       /\ IsInjective(batch)
       /\ Range(batch) \subseteq fed
       /\ fed' = fed \ Range(batch)
  /\ UNCHANGED <<got, base>>

\* r receives the next messages of the order, up to position n.
Receive(r, n) ==
  /\ got' = [got EXCEPT ![r] = @ \o SubSeq(order, base[r] + Len(@) + 1, n)]
  /\ UNCHANGED <<fed, order, base>>

\* r joins, at a position it chooses.
Join(r, n) ==
  /\ base' = [base EXCEPT ![r] = n]
  /\ got' = [got EXCEPT ![r] = <<>>]
  /\ UNCHANGED <<fed, order>>

\* Everything is forgotten.
Reset ==
  /\ fed' = {} /\ order' = <<>>
  /\ got' = [r \in Receivers |-> <<>>]
  /\ base' = [r \in Receivers |-> 0]

Next ==
  \/ \E m \in fed' \cap Message : Feed(m)
  \/ Order
  \/ \E r \in Receivers, n \in 0 .. Len(order) : Receive(r, n) \/ Join(r, n)
  \/ Reset

Spec == Init /\ [][Next]_vars
=============================================================================
