------------------------------ MODULE MCQueue ------------------------------
(***************************************************************************)
(* Uses of Q<T> to model-check: threads a and b feed, c and d take.        *)
(***************************************************************************)
EXTENDS Queue

CONSTANTS a, b, c, d

MCThreads == {a, b, c, d}

Usage(c_ops, d_ops) ==
  [t \in MCThreads |-> CASE t = c -> c_ops
                         [] t = d -> d_ops
                         [] OTHER -> {"push"}]

\* One thread that drains, beside one that copies and stops; two that move, the
\* queue being paused at times; two that wait, one of which stops, too.
AllUsages ==
  {Usage({"drain"}, {"copy", "stop"}),
   Usage({"move"}, {"move", "pause"}),
   Usage({"pop"}, {"pop", "stop"})}

\* The usages are such that the theorems of QueueProofs speak of them.
ASSUME UsagesAreSole == \A u \in Usages : SoleDrainer(u)
=============================================================================
