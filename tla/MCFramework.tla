---------------------------- MODULE MCFramework ----------------------------
(***************************************************************************)
(* Topologies to model-check.                                              *)
(***************************************************************************)
EXTENDS Framework

NodeOf(type, name_) == [type |-> type, name |-> name_]

Good(in, out) ==
  [there |-> TRUE, json |-> TRUE, conf |-> TRUE,
   proxies |-> [d \in Directions |-> IF d = "in" THEN in ELSE out]]

Rx == NodeOf("UDP_Rx", "in1")
C1 == NodeOf("CONSUMER", "c1")

\* One input node and one consumer, as small as it gets.
Small == Good(<<Rx>>, <<C1>>)

\* A UDP sender as the output node; an input proxy without nodes.
WithSender == Good(<<Rx>>, <<NodeOf("UDP_Tx", "s1")>>)
NoInput    == Good(<<>>, <<C1>>)

\* More receivers than the data manager has places for.
Crowded == Good(<<Rx, NodeOf("TCP_Server", "in2")>>, <<>>)

\* As many, one of which leaves its place to the other.
Handed == Good(<<NodeOf("UDP_Rx", "empty"), NodeOf("TCP_Server", "in2")>>, <<>>)

\* A consumer in the input proxy, which stop() has to stop there.
Inside == Good(<<C1>>, <<>>)

\* The types of test/topology_tcp2udp.json, and files that cannot be used.
Tcp2Udp  == Good(<<NodeOf("TCP", "in1")>>, <<NodeOf("UDP", "c1")>>)
NoFile   == [Small EXCEPT !.there = FALSE]
NoJson   == [Small EXCEPT !.json = FALSE]
NoMode   == [Small EXCEPT !.conf = FALSE]
NoInProxy == [Small EXCEPT !.proxies = [d \in {"out"} |-> <<C1>>]]

MCTopologies ==
  {Small, WithSender, NoInput, Crowded, Handed, Inside, Tcp2Udp, NoFile, NoJson, NoMode, NoInProxy}
MCSmall == {Small}
MCSender == {WithSender}

\* None of them gives two output nodes the same name: what LoopersRunOnce needs.
ASSUME OutputsAreDistinct == DistinctOutputs
=============================================================================
