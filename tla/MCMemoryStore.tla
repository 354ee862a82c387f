---------------------------- MODULE MCMemoryStore ----------------------------
(* Model-checking instances of MemoryStore.                                 *)
EXTENDS MemoryStore, TLC

CONSTANTS n1, n2

\* A node alone, two related nodes, and an answer with an edge to a node the
\* extraction did not name, which is dropped.
MCGraphs ==
  {[nodes |-> {}, edges |-> {}],
   [nodes |-> {n1}, edges |-> {<<n1, n2>>}],
   [nodes |-> {n1, n2}, edges |-> {<<n1, n2>>, <<n2, n2>>}]}

Ids == Permutations(SliceIds)
=============================================================================
