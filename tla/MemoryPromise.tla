---------------------------- MODULE MemoryPromise ----------------------------
(***************************************************************************)
(* What the memory layer promises its callers, with every operation atomic: *)
(* a slice is remembered and searchable at once, its relations appear only  *)
(* while it is remembered, and forgetting it erases all it introduced, for  *)
(* good.  Concepts and nothing else outlive the slices that named them.     *)
(* MemoryStore, with its locks, stages, failures and crashes, implements    *)
(* this.                                                                    *)
(***************************************************************************)

CONSTANT SliceIds

VARIABLES
  memory,      \* slices that can be read back
  index,       \* slices that a vector search can find
  relations,   \* [slice, src, dst]: the relations each slice introduced
  concepts,    \* every concept ever named
  erased       \* slices the user had forgotten

pvars == <<memory, index, relations, concepts, erased>>

PromiseInit ==
  /\ memory = {} /\ index = {} /\ relations = {} /\ concepts = {} /\ erased = {}

Remember(s) ==
  /\ s \notin memory \cup erased
  /\ memory' = memory \cup {s}
  /\ index' = index \cup {s}
  /\ UNCHANGED <<relations, concepts, erased>>

\* A slice is related to concepts once; naming concepts alone needs no slice.
Relate(s) ==
  LET new == relations' \ relations IN
  /\ new # {} => s \in memory /\ ~\E e \in relations : e.slice = s
  /\ \A e \in new : e.slice = s /\ e.src \in concepts' /\ e.dst \in concepts'
  /\ relations \subseteq relations'
  /\ concepts \subseteq concepts'
  /\ UNCHANGED <<memory, index, erased>>

Forget(s) ==
  /\ s \in memory
  /\ memory' = memory \ {s}
  /\ index' = index \ {s}
  /\ relations' = {e \in relations : e.slice # s}
  /\ erased' = erased \cup {s}
  /\ UNCHANGED concepts

PromiseNext == \E s \in SliceIds : Remember(s) \/ Relate(s) \/ Forget(s)

PromiseSpec == PromiseInit /\ [][PromiseNext]_pvars
=============================================================================
