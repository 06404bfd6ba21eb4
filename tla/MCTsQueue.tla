----------------------------- MODULE MCTsQueue -----------------------------
(***************************************************************************)
(* Two producers and two consumers, or the server's own use of the queue:  *)
(* one of each.  The list has at most three nodes, one of them the dummy.  *)
(***************************************************************************)
EXTENDS TsQueue, TLC

CONSTANTS p1, p2, c1, c2, n1, n2, n3, v1, v2

MCProducers == {p1, p2}
MCConsumers == {c1, c2}
MCOneProducer == {p1}
MCOneConsumer == {c1}
MCNodes == {n1, n2, n3}
MCValues == {v1, v2}

\* Threads of a kind, nodes and values are interchangeable.
MCSymmetry ==
  Permutations(MCProducers) \cup Permutations(MCConsumers)
    \cup Permutations(MCNodes) \cup Permutations(MCValues)
============================================================================
