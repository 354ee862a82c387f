-------------------------- MODULE MemoryStoreProofs --------------------------
(***************************************************************************)
(* What MemoryStore guarantees for any number of clients, slices, texts and *)
(* concepts, any faults and any extraction answers.                         *)
(***************************************************************************)
EXTENDS MemoryStore, FiniteSetTheorems, SequenceTheorems, TLAPS

StageA == {"lookup", "provider", "cache", "insertSlice", "insertVector", "commitA"}
StageB == {"extract", "insertNodes", "insertEdges", "commitB"}
Forgetting == {"countEdges", "deleteVector", "deleteSlice", "commitForget"}

\* An operation under way has a slice, and a text while it needs one.
JobOK ==
  \A c \in Clients :
    /\ pc[c] # "idle" => job[c].sid \in SliceIds
    /\ pc[c] \in {"lookup", "provider", "cache"} => job[c].text \in Texts

\* Ids: a save in stage A has an id no one has used; no two saves share one.
Fresh ==
  /\ db.slices \cup erased \subseteq minted
  /\ \A c \in Clients : pc[c] \in StageA =>
       job[c].sid \in minted \ (db.slices \cup erased)
  /\ \A c, d \in Clients :
       /\ c # d
       /\ pc[c] \in StageA \cup StageB /\ pc[d] \in StageA \cup StageB
       => job[c].sid # job[d].sid

\* After stage A, and all through a forget, the slice is stored or was erased.
Known ==
  /\ \A c \in Clients : pc[c] \in StageB \cup Forgetting \cup {"logIngest", "logForget"} =>
       job[c].sid \in db.slices \cup erased
  /\ \A c \in Clients : pc[c] \in StageB => job[c].sid \in minted
  /\ \A c \in Clients : view[c] \notin {Closed, Begun} =>
       view[c].slices \subseteq db.slices \cup erased

\* A slice has no edges before its own stage B commits.
Unrelated ==
  \A c \in Clients : pc[c] \in StageA \cup StageB => EdgesOf(db, job[c].sid) = {}

\* What an operation holds in its locals and, while it has a transaction open,
\* has written, at each of its steps.
WritesOf(c) ==
  LET j == job[c] IN
  /\ pc[c] \in {"insertNodes", "insertEdges", "commitB"} => j.edges \subseteq j.nodes \X j.nodes
  /\ pc[c] = "insertVector" => wal = [db EXCEPT !.slices = @ \cup {j.sid}]
  /\ pc[c] = "commitA" =>
       wal = [db EXCEPT !.slices = @ \cup {j.sid}, !.vec = @ \cup {j.sid}]
  /\ pc[c] = "insertEdges" => wal = [db EXCEPT !.nodes = @ \cup j.nodes]
  /\ pc[c] = "commitB" =>
       /\ wal = [db EXCEPT !.nodes = @ \cup j.nodes, !.edges = @ \cup NewEdges(c)]
       /\ j.edges # {} => j.sid \in db.slices
  /\ pc[c] = "deleteSlice" => wal = [db EXCEPT !.vec = @ \ {j.sid}]
  /\ pc[c] = "commitForget" =>
       wal = [db EXCEPT !.vec = @ \ {j.sid}, !.slices = @ \ {j.sid},
                        !.edges = @ \ EdgesOf(db, j.sid)]
Writes == \A c \in Clients : WritesOf(c)

TypeInv == TypeOK /\ JobOK
Base == TypeInv /\ LockHeldInTransaction /\ Writes
History ==
  /\ Fresh /\ Known /\ Unrelated
  /\ DatabaseIsWhole /\ erased \cap db.slices = {} /\ SavedIsDurable
IInv == Base /\ History
-----------------------------------------------------------------------------
(* Types                                                                    *)

\* Inserts and deletes keep the tables well typed.
LEMMA TablesTyped ==
  ASSUME NEW t \in Tables, NEW s \in SliceIds, NEW x \in Texts,
         NEW N \in SUBSET Concepts, NEW E \in FinSubsets(Edge)
  PROVE  /\ [t EXCEPT !.slices = @ \cup {s}] \in Tables
         /\ [t EXCEPT !.vec = @ \cup {s}] \in Tables
         /\ [t EXCEPT !.vec = @ \ {s}] \in Tables
         /\ [t EXCEPT !.nodes = @ \cup N] \in Tables
         /\ [t EXCEPT !.cache = @ \cup {x}] \in Tables
         /\ [t EXCEPT !.edges = @ \cup E] \in Tables
         /\ WithoutSlice(t, s) \in Tables
<1>1. IsFiniteSet(t.edges) /\ IsFiniteSet(E)
  BY DEF Tables, FinSubsets
<1>2. IsFiniteSet(t.edges \cup E)
  BY <1>1, FS_Union
<1>3. IsFiniteSet(t.edges \ EdgesOf(t, s))
  BY <1>1, FS_Difference
<1> QED
  BY <1>2, <1>3 DEF Tables, FinSubsets, WithoutSlice

\* The rows of one INSERT loop, and the number of them.
LEMMA NewEdgesTyped ==
  ASSUME NEW c \in Clients, job[c] \in Jobs, job[c].sid \in SliceIds
  PROVE  NewEdges(c) \in FinSubsets(Edge)
<1> DEFINE E == job[c].edges
           f == [e \in E |-> [slice |-> job[c].sid, src |-> e[1], dst |-> e[2]]]
<1>1. IsFiniteSet(E) /\ E \subseteq Concepts \X Concepts
  BY DEF Jobs, FinSubsets
<1>2. NewEdges(c) \subseteq Edge
  BY <1>1 DEF NewEdges, Edge
<1>3. f \in Surjection(E, NewEdges(c))
  BY DEF NewEdges, Surjection
<1> QED
  BY <1>1, <1>2, <1>3, FS_Surjection DEF FinSubsets

LEMMA InitTyped == Init => TypeInv
<1> SUFFICES ASSUME Init PROVE TypeInv
  OBVIOUS
<1>1. Empty \in Tables
  BY FS_EmptySet DEF Empty, Tables, FinSubsets
<1>2. NoJob \in Jobs
  BY FS_EmptySet DEF NoJob, Jobs, FinSubsets
<1> QED
  BY <1>1, <1>2, ConstantsAssumption DEF Init, TypeInv, TypeOK, JobOK, Steps

LEMMA LogTyped ==
  ASSUME NEW e \in Events, log \in Seq(Events), Append1(e)
  PROVE  log' \in Seq(Events)
BY AppendProperties DEF Append1

LEMMA NextTyped == TypeInv /\ [Next]_vars => TypeInv'
<1> SUFFICES ASSUME TypeInv, [Next]_vars PROVE TypeInv'
  OBVIOUS
<1> USE DEF TypeInv, TypeOK, JobOK, Go, Return, store
<1>1. CASE UNCHANGED vars
  BY <1>1 DEF vars
<1>2. ASSUME NEW c \in Clients, Save(c) PROVE TypeInv'
  <2>1. PICK sid \in SliceIds, text \in Texts, role \in {"user", "assistant"} :
          job' = [job EXCEPT ![c] = [job[c] EXCEPT !.sid = sid, !.text = text, !.role = role]]
    BY <1>2 DEF Save
  <2>2. [job[c] EXCEPT !.sid = sid, !.text = text, !.role = role] \in Jobs
    BY DEF Jobs
  <2>3. job' \in [Clients -> Jobs] /\ job'[c].sid = sid /\ job'[c].text = text
        /\ \A d \in Clients \ {c} : job'[d] = job[d]
    BY <2>1, <2>2 DEF Jobs
  <2> QED
    BY <1>2, <2>3 DEF Save, Steps
<1>3. ASSUME NEW c \in Clients, Lookup(c) PROVE TypeInv'
  BY <1>3 DEF Lookup, Look, Steps
<1>4. ASSUME NEW c \in Clients, AskProvider(c) PROVE TypeInv'
  BY <1>4 DEF AskProvider, Steps
<1>5. ASSUME NEW c \in Clients, CacheVector(c) PROVE TypeInv'
  <2>1. job[c].text \in Texts /\ job[c].sid \in SliceIds
    BY <1>5 DEF CacheVector
  <2>2. db' \in Tables
    BY <1>5, <2>1 DEF CacheVector, Tables
  <2> QED
    BY <1>5, <2>2 DEF CacheVector, Overtake, Steps
<1>6. ASSUME NEW c \in Clients, InsertSlice(c) PROVE TypeInv'
  <2>1. wal' \in Tables
    BY <1>6 DEF InsertSlice, Begin, Tables
  <2> QED
    BY <1>6, <2>1 DEF InsertSlice, Begin, Steps, InTransaction
<1>7. ASSUME NEW c \in Clients, InsertVector(c) PROVE TypeInv'
  <2>1. wal' \in Tables
    BY <1>7 DEF InsertVector, Write, Tables
  <2> QED
    BY <1>7, <2>1 DEF InsertVector, Write, Steps, InTransaction
<1>8. ASSUME NEW c \in Clients, CommitA(c) PROVE TypeInv'
  BY <1>8 DEF CommitA, Publish, Overtake, Steps
<1>9. ASSUME NEW c \in Clients, Extract(c) PROVE TypeInv'
  <2>1. CASE \E g \in LLMGraphs :
          /\ Go(c, "extract", IF g.nodes = {} THEN "logIngest" ELSE "insertNodes")
          /\ job' = [job EXCEPT ![c] = [@ EXCEPT !.nodes = g.nodes,
                                                  !.edges = g.edges \cap (g.nodes \X g.nodes)]]
    <3>1. PICK g \in LLMGraphs :
          /\ Go(c, "extract", IF g.nodes = {} THEN "logIngest" ELSE "insertNodes")
          /\ job' = [job EXCEPT ![c] = [@ EXCEPT !.nodes = g.nodes,
                                                  !.edges = g.edges \cap (g.nodes \X g.nodes)]]
      BY <2>1
    <3>2. /\ g.nodes \subseteq Concepts
          /\ g.edges \cap (g.nodes \X g.nodes) \in FinSubsets(Concepts \X Concepts)
      BY ConstantsAssumption, FS_Intersection DEF FinSubsets
    <3>3. [job[c] EXCEPT !.nodes = g.nodes, !.edges = g.edges \cap (g.nodes \X g.nodes)]
            \in Jobs
      BY <3>2 DEF Jobs
    <3>4. job' = [job EXCEPT ![c] = [job[c] EXCEPT
                    !.nodes = g.nodes, !.edges = g.edges \cap (g.nodes \X g.nodes)]]
      BY <3>1
    <3>5. job' \in [Clients -> Jobs]
      BY <3>3, <3>4
    <3>6. job'[c].sid = job[c].sid /\ \A d \in Clients \ {c} : job'[d] = job[d]
      BY <3>4 DEF Jobs
    <3> QED
      BY <1>9, <3>1, <3>5, <3>6 DEF Extract, Steps
  <2>2. CASE Go(c, "extract", "logIngest") /\ UNCHANGED job
    BY <1>9, <2>2 DEF Extract, Steps
  <2> QED
    BY <1>9, <2>1, <2>2 DEF Extract
<1>10. ASSUME NEW c \in Clients, InsertNodes(c) PROVE TypeInv'
  <2>1. wal' \in Tables
    BY <1>10 DEF InsertNodes, Begin, Tables, Jobs
  <2> QED
    BY <1>10, <2>1 DEF InsertNodes, Begin, Steps, InTransaction
<1>11. ASSUME NEW c \in Clients, InsertEdges(c) PROVE TypeInv'
  <2>1. job[c].sid \in SliceIds /\ job[c] \in Jobs
    BY <1>11 DEF InsertEdges
  <2>2. NewEdges(c) \in FinSubsets(Edge)
    BY <2>1, NewEdgesTyped
  <2>3. IsFiniteSet(wal.edges \cup NewEdges(c))
    BY <2>2, FS_Union DEF FinSubsets, Tables
  <2>4. wal' \in Tables
    BY <1>11, <2>2, <2>3 DEF InsertEdges, Write, Tables, FinSubsets
  <2> QED
    BY <1>11, <2>4 DEF InsertEdges, Write, Steps, InTransaction
<1>12. ASSUME NEW c \in Clients, CommitB(c) PROVE TypeInv'
  BY <1>12 DEF CommitB, Publish, Overtake, Steps
<1>13. ASSUME NEW c \in Clients, LogIngest(c) PROVE TypeInv'
  <2>1. job[c].sid \in SliceIds /\ Cardinality(job[c].edges) \in Nat
    BY <1>13, FS_CardinalityType DEF LogIngest, Jobs, FinSubsets
  <2>2. log' \in Seq(Events)
    <3> DEFINE e == [kind |-> "ingest", slice |-> job[c].sid, edges |-> Cardinality(job[c].edges)]
    <3>1. e \in Events
      BY <2>1 DEF Events
    <3>2. Append1(e)
      BY <1>13 DEF LogIngest
    <3> HIDE DEF e
    <3> QED
      BY <3>1, <3>2, LogTyped
  <2>3. NoJob \in Jobs
    BY FS_EmptySet DEF NoJob, Jobs, FinSubsets
  <2> QED
    BY <1>13, <2>1, <2>2, <2>3 DEF LogIngest, Steps
<1>14. ASSUME NEW c \in Clients, Forget(c) PROVE TypeInv'
  <2>1. Seen(c) \in Tables
    BY DEF Seen
  <2>2. Seen(c).slices \subseteq SliceIds
    BY <2>1 DEF Tables
  <2>3. CASE UNCHANGED <<pc, job>>
    BY <1>14, <2>1, <2>3 DEF Forget, Look
  <2>4. ASSUME NEW sid \in Seen(c).slices, job' = [job EXCEPT ![c].sid = sid],
               Go(c, "idle", "countEdges")
        PROVE  TypeInv'
    <3>1. sid \in SliceIds /\ [job[c] EXCEPT !.sid = sid] \in Jobs
      BY <2>2 DEF Jobs
    <3>2. job' \in [Clients -> Jobs] /\ job'[c].sid = sid
          /\ \A d \in Clients \ {c} : job'[d] = job[d]
      BY <2>4, <3>1 DEF Jobs
    <3> QED
      BY <1>14, <2>4, <3>1, <3>2 DEF Forget, Look, Steps
  <2> QED
    BY <1>14, <2>3, <2>4 DEF Forget
<1>15. ASSUME NEW c \in Clients, CountEdges(c) PROVE TypeInv'
  <2>1. Seen(c) \in Tables
    BY DEF Seen
  <2>2. Cardinality(EdgesOf(Seen(c), job[c].sid)) \in Nat
    BY <2>1, FS_Subset, FS_CardinalityType DEF EdgesOf, Tables, FinSubsets
  <2> DEFINE n == Cardinality(EdgesOf(Seen(c), job[c].sid))
  <2>3. [job[c] EXCEPT !.count = n] \in Jobs
    BY <2>2 DEF Jobs
  <2>4. job' = [job EXCEPT ![c] = [job[c] EXCEPT !.count = n]]
    BY <1>15 DEF CountEdges
  <2>5. job' \in [Clients -> Jobs] /\ job'[c].sid = job[c].sid
        /\ \A d \in Clients \ {c} : job'[d] = job[d]
    BY <2>3, <2>4 DEF Jobs
  <2> QED
    BY <1>15, <2>5 DEF CountEdges, Steps
<1>16. ASSUME NEW c \in Clients, DeleteVector(c) PROVE TypeInv'
  <2>1. wal' \in Tables
    BY <1>16 DEF DeleteVector, Begin, Tables
  <2> QED
    BY <1>16, <2>1 DEF DeleteVector, Begin, Steps, InTransaction
<1>17. ASSUME NEW c \in Clients, DeleteSlice(c) PROVE TypeInv'
  <2>1. job[c].sid \in SliceIds
    BY <1>17 DEF DeleteSlice
  <2>2. IsFiniteSet(wal.edges \ EdgesOf(wal, job[c].sid))
    BY FS_Difference DEF Tables, FinSubsets
  <2>3. wal' \in Tables
    BY <1>17, <2>1, <2>2 DEF DeleteSlice, Write, WithoutSlice, Tables, FinSubsets
  <2> QED
    BY <1>17, <2>3 DEF DeleteSlice, Write, Steps, InTransaction
<1>18. ASSUME NEW c \in Clients, CommitForget(c) PROVE TypeInv'
  BY <1>18 DEF CommitForget, Publish, Overtake, Steps
<1>19. ASSUME NEW c \in Clients, LogForget(c) PROVE TypeInv'
  <2>1. job[c].sid \in SliceIds /\ job[c].count \in Nat
    BY <1>19 DEF LogForget, Jobs
  <2>2. log' \in Seq(Events)
    <3> DEFINE e == [kind |-> "forget", slice |-> job[c].sid, edges |-> job[c].count]
    <3>1. e \in Events
      BY <2>1 DEF Events
    <3>2. Append1(e)
      BY <1>19 DEF LogForget
    <3> HIDE DEF e
    <3> QED
      BY <3>1, <3>2, LogTyped
  <2>3. NoJob \in Jobs
    BY FS_EmptySet DEF NoJob, Jobs, FinSubsets
  <2> QED
    BY <1>19, <2>1, <2>2, <2>3 DEF LogForget, Steps
<1>20. ASSUME NEW c \in Clients, LLMFails(c) \/ CacheFails(c) \/ TxFails(c) \/ Crash(c)
       PROVE  TypeInv'
  <2>1. NoJob \in Jobs
    BY FS_EmptySet DEF NoJob, Jobs, FinSubsets
  <2>2. CASE LLMFails(c)
    BY <2>1, <2>2 DEF LLMFails, Leave, Steps
  <2>3. CASE CacheFails(c)
    BY <2>1, <2>3 DEF CacheFails, Leave, Steps
  <2>4. CASE TxFails(c)
    BY <2>1, <2>4 DEF TxFails, Rollback, Steps
  <2>5. CASE Crash(c)
    BY <2>1, <2>5 DEF Crash, Rollback, Steps
  <2> QED
    BY <1>20, <2>2, <2>3, <2>4, <2>5
<1> QED
  BY <1>1, <1>2, <1>3, <1>4, <1>5, <1>6, <1>7, <1>8, <1>9, <1>10, <1>11, <1>12, <1>13, <1>14,
     <1>15, <1>16, <1>17, <1>18, <1>19, <1>20 DEF Next, Work, Statement

\* The tables, the locals of every operation and the log always have the types
\* the schema and the code give them.
THEOREM TypesHold == Spec => []TypeOK
<1>1. TypeInv => TypeOK
  BY DEF TypeInv
<1> QED
  BY <1>1, InitTyped, NextTyped, PTL DEF Spec
-----------------------------------------------------------------------------
(* The write lock                                                           *)

LEMMA LockStep ==
  TypeInv /\ LockHeldInTransaction /\ [Next]_vars => LockHeldInTransaction'
<1> SUFFICES ASSUME TypeInv, LockHeldInTransaction, [Next]_vars
             PROVE  LockHeldInTransaction'
  OBVIOUS
<1> USE ConstantsAssumption
    DEF TypeInv, TypeOK, LockHeldInTransaction, InTransaction, Go, Return, store
<1>1. CASE UNCHANGED vars
  BY <1>1 DEF vars
<1>2. ASSUME NEW c \in Clients, Save(c) PROVE LockHeldInTransaction'
  BY <1>2 DEF Save
<1>3. ASSUME NEW c \in Clients, Lookup(c) PROVE LockHeldInTransaction'
  BY <1>3 DEF Lookup, Look
<1>4. ASSUME NEW c \in Clients, AskProvider(c) PROVE LockHeldInTransaction'
  BY <1>4 DEF AskProvider
<1>5. ASSUME NEW c \in Clients, CacheVector(c) PROVE LockHeldInTransaction'
  BY <1>5 DEF CacheVector, CanWrite
<1>6. ASSUME NEW c \in Clients, InsertSlice(c) PROVE LockHeldInTransaction'
  BY <1>6 DEF InsertSlice, Begin, CanWrite
<1>7. ASSUME NEW c \in Clients, InsertVector(c) PROVE LockHeldInTransaction'
  BY <1>7 DEF InsertVector, Write
<1>8. ASSUME NEW c \in Clients, CommitA(c) PROVE LockHeldInTransaction'
  BY <1>8 DEF CommitA, Publish
<1>9. ASSUME NEW c \in Clients, Extract(c) PROVE LockHeldInTransaction'
  BY <1>9 DEF Extract
<1>10. ASSUME NEW c \in Clients, InsertNodes(c) PROVE LockHeldInTransaction'
  BY <1>10 DEF InsertNodes, Begin, CanWrite
<1>11. ASSUME NEW c \in Clients, InsertEdges(c) PROVE LockHeldInTransaction'
  BY <1>11 DEF InsertEdges, Write
<1>12. ASSUME NEW c \in Clients, CommitB(c) PROVE LockHeldInTransaction'
  BY <1>12 DEF CommitB, Publish
<1>13. ASSUME NEW c \in Clients, LogIngest(c) PROVE LockHeldInTransaction'
  BY <1>13 DEF LogIngest
<1>14. ASSUME NEW c \in Clients, Forget(c) PROVE LockHeldInTransaction'
  BY <1>14 DEF Forget, Look, Seen
<1>15. ASSUME NEW c \in Clients, CountEdges(c) PROVE LockHeldInTransaction'
  BY <1>15 DEF CountEdges
<1>16. ASSUME NEW c \in Clients, DeleteVector(c) PROVE LockHeldInTransaction'
  BY <1>16 DEF DeleteVector, Begin, CanWrite
<1>17. ASSUME NEW c \in Clients, DeleteSlice(c) PROVE LockHeldInTransaction'
  BY <1>17 DEF DeleteSlice, Write
<1>18. ASSUME NEW c \in Clients, CommitForget(c) PROVE LockHeldInTransaction'
  BY <1>18 DEF CommitForget, Publish
<1>19. ASSUME NEW c \in Clients, LogForget(c) PROVE LockHeldInTransaction'
  BY <1>19 DEF LogForget
<1>20. ASSUME NEW c \in Clients, LLMFails(c) PROVE LockHeldInTransaction'
  BY <1>20 DEF LLMFails, Leave
<1>21. ASSUME NEW c \in Clients, CacheFails(c) PROVE LockHeldInTransaction'
  BY <1>21 DEF CacheFails, Leave, CanWrite
<1>22. ASSUME NEW c \in Clients, TxFails(c) PROVE LockHeldInTransaction'
  BY <1>22 DEF TxFails, Rollback
<1>23. ASSUME NEW c \in Clients, Crash(c) PROVE LockHeldInTransaction'
  BY <1>23 DEF Crash, Rollback
<1> QED
  BY <1>1, <1>2, <1>3, <1>4, <1>5, <1>6, <1>7, <1>8, <1>9, <1>10, <1>11, <1>12, <1>13, <1>14, <1>15, <1>16, <1>17, <1>18, <1>19, <1>20, <1>21, <1>22, <1>23 DEF Next, Work, Statement
-----------------------------------------------------------------------------
(* What a step of one client does, as far as the other clients and the      *)
(* history of the slices are concerned.                                     *)

\* The other clients stand where they stood; their transactions, too.
Aside(c) ==
  \A d \in Clients \ {c} :
    /\ pc'[d] = pc[d] /\ job'[d] = job[d] /\ view'[d] = view[d]
    /\ pc[d] \in InTransaction => db' = db /\ wal' = wal

\* Where the ids that c works on come from.
Moves(c) ==
  /\ minted \subseteq minted'
  /\ pc'[c] \in StageA =>
       \/ pc[c] \in StageA \ {"commitA"} /\ job'[c].sid = job[c].sid
       \/ pc[c] = "idle" /\ job'[c].sid \in minted' \ minted
  /\ pc'[c] \in StageB \cup {"logIngest"} =>
       pc[c] \in StageB \cup {"commitA"} /\ job'[c].sid = job[c].sid
  /\ pc'[c] \in Forgetting \cup {"logForget"} =>
       \/ pc[c] \in Forgetting /\ job'[c].sid = job[c].sid
       \/ pc[c] = "idle" /\ job'[c].sid \in Seen(c).slices

Returns(c) ==
  \/ saved' = saved
  \/ pc[c] = "logIngest" /\ saved' = saved \cup {job[c].sid}

Views(c) == view'[c] \in {Closed, Begun, view[c], db}

Kept ==
  /\ db'.slices = db.slices /\ db'.vec = db.vec
  /\ db'.nodes = db.nodes /\ db'.edges = db.edges
  /\ erased' = erased

Stored(c) ==
  /\ pc[c] = "commitA"
  /\ db'.slices = db.slices \cup {job[c].sid} /\ db'.vec = db.vec \cup {job[c].sid}
  /\ db'.nodes = db.nodes /\ db'.edges = db.edges
  /\ erased' = erased

Related(c) ==
  /\ pc[c] = "commitB" /\ pc'[c] = "logIngest"
  /\ db'.slices = db.slices /\ db'.vec = db.vec
  /\ db'.nodes = db.nodes \cup job[c].nodes /\ db'.edges = db.edges \cup NewEdges(c)
  /\ job[c].edges \subseteq job[c].nodes \X job[c].nodes
  /\ job[c].edges # {} => job[c].sid \in db.slices
  /\ erased' = erased

Removed(c) ==
  /\ pc[c] = "commitForget"
  /\ db'.slices = db.slices \ {job[c].sid} /\ db'.vec = db.vec \ {job[c].sid}
  /\ db'.nodes = db.nodes /\ db'.edges = db.edges \ EdgesOf(db, job[c].sid)
  /\ erased' = erased \cup {job[c].sid}

Effect(c) ==
  \/ Kept /\ ~(pc[c] = "commitA" /\ pc'[c] # "idle")
  \/ Stored(c) \/ Related(c) \/ Removed(c)

LEMMA StepAside ==
  ASSUME Base, NEW c \in Clients, Save(c) \/ Forget(c) \/ Work(c) \/ Crash(c)
  PROVE  Aside(c)
<1> USE ConstantsAssumption
    DEF Base, TypeInv, TypeOK, LockHeldInTransaction, InTransaction, Aside, Go, Return, store
<1>1. CASE Save(c)
  BY <1>1 DEF Save
<1>2. CASE Lookup(c)
  BY <1>2 DEF Lookup, Look
<1>3. CASE AskProvider(c)
  BY <1>3 DEF AskProvider
<1>4. CASE CacheVector(c)
  BY <1>4 DEF CacheVector, CanWrite
<1>5. CASE InsertSlice(c)
  BY <1>5 DEF InsertSlice, Begin, CanWrite
<1>6. CASE InsertVector(c)
  BY <1>6 DEF InsertVector, Write
<1>7. CASE CommitA(c)
  BY <1>7 DEF CommitA, Publish
<1>8. CASE Extract(c)
  BY <1>8 DEF Extract
<1>9. CASE InsertNodes(c)
  BY <1>9 DEF InsertNodes, Begin, CanWrite
<1>10. CASE InsertEdges(c)
  BY <1>10 DEF InsertEdges, Write, SliceMissing, ForeignKeys
<1>11. CASE CommitB(c)
  BY <1>11 DEF CommitB, Publish
<1>12. CASE LogIngest(c)
  BY <1>12 DEF LogIngest
<1>13. CASE Forget(c)
  BY <1>13 DEF Forget, Look
<1>14. CASE CountEdges(c)
  BY <1>14 DEF CountEdges
<1>15. CASE DeleteVector(c)
  BY <1>15 DEF DeleteVector, Begin, CanWrite
<1>16. CASE DeleteSlice(c)
  BY <1>16 DEF DeleteSlice, Write, WithoutSlice, ForeignKeys
<1>17. CASE CommitForget(c)
  BY <1>17 DEF CommitForget, Publish
<1>18. CASE LogForget(c)
  BY <1>18 DEF LogForget
<1>19. CASE LLMFails(c)
  BY <1>19 DEF LLMFails, Leave
<1>20. CASE CacheFails(c)
  BY <1>20 DEF CacheFails, Leave
<1>21. CASE TxFails(c)
  BY <1>21 DEF TxFails, Rollback
<1>22. CASE Crash(c)
  BY <1>22 DEF Crash, Rollback
<1> QED
  BY <1>1, <1>2, <1>3, <1>4, <1>5, <1>6, <1>7, <1>8, <1>9, <1>10, <1>11, <1>12, <1>13, <1>14, <1>15, <1>16, <1>17, <1>18, <1>19, <1>20, <1>21, <1>22 DEF Work, Statement

LEMMA StepMoves ==
  ASSUME Base, NEW c \in Clients, Save(c) \/ Forget(c) \/ Work(c) \/ Crash(c)
  PROVE  Moves(c)
<1> USE DEF Base, TypeInv, TypeOK, JobOK, Moves, StageA, StageB, Forgetting, Go, Return, store
<1>1. CASE Save(c)
  BY <1>1 DEF Save, Jobs
<1>2. CASE Lookup(c)
  BY <1>2 DEF Lookup, Look
<1>3. CASE AskProvider(c)
  BY <1>3 DEF AskProvider
<1>4. CASE CacheVector(c)
  BY <1>4 DEF CacheVector, CanWrite
<1>5. CASE InsertSlice(c)
  BY <1>5 DEF InsertSlice, Begin, CanWrite
<1>6. CASE InsertVector(c)
  BY <1>6 DEF InsertVector, Write
<1>7. CASE CommitA(c)
  BY <1>7 DEF CommitA, Publish
<1>8. CASE Extract(c)
  <2>1. pc'[c] \in {"insertNodes", "logIngest"} /\ pc[c] = "extract" /\ minted' = minted
    BY <1>8 DEF Extract
  <2>2. job'[c].sid = job[c].sid
    <3>1. CASE UNCHANGED job
      BY <3>1
    <3>2. CASE ~UNCHANGED job
      <4>1. PICK g \in LLMGraphs :
              job' = [job EXCEPT ![c] = [@ EXCEPT !.nodes = g.nodes,
                                                  !.edges = g.edges \cap (g.nodes \X g.nodes)]]
        BY <1>8, <3>2 DEF Extract
      <4> QED
        BY <4>1 DEF Jobs
    <3> QED
      BY <3>1, <3>2
  <2> QED
    BY <2>1, <2>2
<1>9. CASE InsertNodes(c)
  BY <1>9 DEF InsertNodes, Begin, CanWrite
<1>10. CASE InsertEdges(c)
  BY <1>10 DEF InsertEdges, Write, SliceMissing, ForeignKeys
<1>11. CASE CommitB(c)
  BY <1>11 DEF CommitB, Publish
<1>12. CASE LogIngest(c)
  BY <1>12 DEF LogIngest
<1>13. CASE Forget(c)
  BY <1>13 DEF Forget, Look, Jobs
<1>14. CASE CountEdges(c)
  BY <1>14 DEF CountEdges, Jobs
<1>15. CASE DeleteVector(c)
  BY <1>15 DEF DeleteVector, Begin, CanWrite
<1>16. CASE DeleteSlice(c)
  BY <1>16 DEF DeleteSlice, Write, WithoutSlice, ForeignKeys
<1>17. CASE CommitForget(c)
  BY <1>17 DEF CommitForget, Publish
<1>18. CASE LogForget(c)
  BY <1>18 DEF LogForget
<1>19. CASE LLMFails(c)
  BY <1>19 DEF LLMFails, Leave
<1>20. CASE CacheFails(c)
  BY <1>20 DEF CacheFails, Leave
<1>21. CASE TxFails(c)
  BY <1>21 DEF TxFails, Rollback
<1>22. CASE Crash(c)
  BY <1>22 DEF Crash, Rollback
<1> QED
  BY <1>1, <1>2, <1>3, <1>4, <1>5, <1>6, <1>7, <1>8, <1>9, <1>10, <1>11, <1>12, <1>13, <1>14, <1>15, <1>16, <1>17, <1>18, <1>19, <1>20, <1>21, <1>22 DEF Work, Statement

LEMMA StepReturns ==
  ASSUME Base, NEW c \in Clients, Save(c) \/ Forget(c) \/ Work(c) \/ Crash(c)
  PROVE  Returns(c)
<1> USE DEF Returns, store
<1>1. CASE Save(c)
  BY <1>1 DEF Save
<1>2. CASE Lookup(c)
  BY <1>2 DEF Lookup, Look
<1>3. CASE AskProvider(c)
  BY <1>3 DEF AskProvider
<1>4. CASE CacheVector(c)
  BY <1>4 DEF CacheVector, CanWrite
<1>5. CASE InsertSlice(c)
  BY <1>5 DEF InsertSlice, Begin, CanWrite
<1>6. CASE InsertVector(c)
  BY <1>6 DEF InsertVector, Write
<1>7. CASE CommitA(c)
  BY <1>7 DEF CommitA, Publish
<1>8. CASE Extract(c)
  BY <1>8 DEF Extract
<1>9. CASE InsertNodes(c)
  BY <1>9 DEF InsertNodes, Begin, CanWrite
<1>10. CASE InsertEdges(c)
  BY <1>10 DEF InsertEdges, Write, SliceMissing, ForeignKeys
<1>11. CASE CommitB(c)
  BY <1>11 DEF CommitB, Publish
<1>12. CASE LogIngest(c)
  BY <1>12 DEF LogIngest
<1>13. CASE Forget(c)
  BY <1>13 DEF Forget, Look
<1>14. CASE CountEdges(c)
  BY <1>14 DEF CountEdges
<1>15. CASE DeleteVector(c)
  BY <1>15 DEF DeleteVector, Begin, CanWrite
<1>16. CASE DeleteSlice(c)
  BY <1>16 DEF DeleteSlice, Write, WithoutSlice, ForeignKeys
<1>17. CASE CommitForget(c)
  BY <1>17 DEF CommitForget, Publish
<1>18. CASE LogForget(c)
  BY <1>18 DEF LogForget
<1>19. CASE LLMFails(c)
  BY <1>19 DEF LLMFails, Leave
<1>20. CASE CacheFails(c)
  BY <1>20 DEF CacheFails, Leave
<1>21. CASE TxFails(c)
  BY <1>21 DEF TxFails, Rollback
<1>22. CASE Crash(c)
  BY <1>22 DEF Crash, Rollback
<1> QED
  BY <1>1, <1>2, <1>3, <1>4, <1>5, <1>6, <1>7, <1>8, <1>9, <1>10, <1>11, <1>12, <1>13, <1>14, <1>15, <1>16, <1>17, <1>18, <1>19, <1>20, <1>21, <1>22 DEF Work, Statement

LEMMA StepViews ==
  ASSUME Base, NEW c \in Clients, Save(c) \/ Forget(c) \/ Work(c) \/ Crash(c)
  PROVE  Views(c)
<1> USE DEF Base, TypeInv, TypeOK, Views, store
<1>1. CASE Save(c)
  BY <1>1 DEF Save
<1>2. CASE Lookup(c)
  BY <1>2 DEF Lookup, Look
<1>3. CASE AskProvider(c)
  BY <1>3 DEF AskProvider
<1>4. CASE CacheVector(c)
  BY <1>4 DEF CacheVector, CanWrite
<1>5. CASE InsertSlice(c)
  BY <1>5 DEF InsertSlice, Begin, CanWrite
<1>6. CASE InsertVector(c)
  BY <1>6 DEF InsertVector, Write
<1>7. CASE CommitA(c)
  BY <1>7 DEF CommitA, Publish
<1>8. CASE Extract(c)
  BY <1>8 DEF Extract
<1>9. CASE InsertNodes(c)
  BY <1>9 DEF InsertNodes, Begin, CanWrite
<1>10. CASE InsertEdges(c)
  BY <1>10 DEF InsertEdges, Write, SliceMissing, ForeignKeys
<1>11. CASE CommitB(c)
  BY <1>11 DEF CommitB, Publish
<1>12. CASE LogIngest(c)
  BY <1>12 DEF LogIngest
<1>13. CASE Forget(c)
  BY <1>13 DEF Forget, Look
<1>14. CASE CountEdges(c)
  BY <1>14 DEF CountEdges
<1>15. CASE DeleteVector(c)
  BY <1>15 DEF DeleteVector, Begin, CanWrite
<1>16. CASE DeleteSlice(c)
  BY <1>16 DEF DeleteSlice, Write, WithoutSlice, ForeignKeys
<1>17. CASE CommitForget(c)
  BY <1>17 DEF CommitForget, Publish
<1>18. CASE LogForget(c)
  BY <1>18 DEF LogForget
<1>19. CASE LLMFails(c)
  BY <1>19 DEF LLMFails, Leave
<1>20. CASE CacheFails(c)
  BY <1>20 DEF CacheFails, Leave
<1>21. CASE TxFails(c)
  BY <1>21 DEF TxFails, Rollback
<1>22. CASE Crash(c)
  BY <1>22 DEF Crash, Rollback
<1> QED
  BY <1>1, <1>2, <1>3, <1>4, <1>5, <1>6, <1>7, <1>8, <1>9, <1>10, <1>11, <1>12, <1>13, <1>14, <1>15, <1>16, <1>17, <1>18, <1>19, <1>20, <1>21, <1>22 DEF Work, Statement

LEMMA StepEffect ==
  ASSUME Base, NEW c \in Clients, Save(c) \/ Forget(c) \/ Work(c) \/ Crash(c)
  PROVE  Effect(c)
<1> USE DEF Base, TypeInv, TypeOK, Writes, WritesOf, Effect, Kept, Stored, Related, Removed, Go, Return, store
<1>1. CASE Save(c)
  BY <1>1 DEF Save
<1>2. CASE Lookup(c)
  BY <1>2 DEF Lookup, Look
<1>3. CASE AskProvider(c)
  BY <1>3 DEF AskProvider
<1>4. CASE CacheVector(c)
  BY <1>4 DEF CacheVector, CanWrite, Tables
<1>5. CASE InsertSlice(c)
  BY <1>5 DEF InsertSlice, Begin, CanWrite
<1>6. CASE InsertVector(c)
  BY <1>6 DEF InsertVector, Write
<1>7. CASE CommitA(c)
  BY <1>7 DEF CommitA, Publish, Tables
<1>8. CASE Extract(c)
  BY <1>8 DEF Extract
<1>9. CASE InsertNodes(c)
  BY <1>9 DEF InsertNodes, Begin, CanWrite
<1>10. CASE InsertEdges(c)
  BY <1>10 DEF InsertEdges, Write, SliceMissing, ForeignKeys
<1>11. CASE CommitB(c)
  BY <1>11 DEF CommitB, Publish, Tables
<1>12. CASE LogIngest(c)
  BY <1>12 DEF LogIngest
<1>13. CASE Forget(c)
  BY <1>13 DEF Forget, Look
<1>14. CASE CountEdges(c)
  BY <1>14 DEF CountEdges
<1>15. CASE DeleteVector(c)
  BY <1>15 DEF DeleteVector, Begin, CanWrite
<1>16. CASE DeleteSlice(c)
  BY <1>16 DEF DeleteSlice, Write, WithoutSlice, ForeignKeys
<1>17. CASE CommitForget(c)
  <2>1. /\ pc[c] = "commitForget" /\ erased' = erased \cup {job[c].sid}
        /\ db' = [db EXCEPT !.vec = @ \ {job[c].sid}, !.slices = @ \ {job[c].sid},
                            !.edges = @ \ EdgesOf(db, job[c].sid)]
    BY <1>17 DEF CommitForget, Publish
  <2>2. Removed(c)
    BY <2>1 DEF Removed, Tables
  <2> QED
    BY <2>2
<1>18. CASE LogForget(c)
  BY <1>18 DEF LogForget
<1>19. CASE LLMFails(c)
  BY <1>19 DEF LLMFails, Leave
<1>20. CASE CacheFails(c)
  BY <1>20 DEF CacheFails, Leave
<1>21. CASE TxFails(c)
  BY <1>21 DEF TxFails, Rollback
<1>22. CASE Crash(c)
  BY <1>22 DEF Crash, Rollback
<1> QED
  BY <1>1, <1>2, <1>3, <1>4, <1>5, <1>6, <1>7, <1>8, <1>9, <1>10, <1>11, <1>12, <1>13, <1>14, <1>15, <1>16, <1>17, <1>18, <1>19, <1>20, <1>21, <1>22 DEF Work, Statement

LEMMA StepWrites ==
  ASSUME Base, NEW c \in Clients, Save(c) \/ Forget(c) \/ Work(c) \/ Crash(c)
  PROVE  WritesOf(c)'
<1> USE DEF Base, TypeInv, TypeOK, LockHeldInTransaction, InTransaction, Writes, WritesOf, Go, Return, store
<1>1. CASE Save(c)
  BY <1>1 DEF Save
<1>2. CASE Lookup(c)
  BY <1>2 DEF Lookup, Look
<1>3. CASE AskProvider(c)
  BY <1>3 DEF AskProvider
<1>4. CASE CacheVector(c)
  BY <1>4 DEF CacheVector, CanWrite, Tables
<1>5. CASE InsertSlice(c)
  BY <1>5 DEF InsertSlice, Begin, CanWrite, Tables
<1>6. CASE InsertVector(c)
  <2>1. /\ pc'[c] = "commitA" /\ job' = job /\ db' = db
        /\ wal' = [wal EXCEPT !.vec = @ \cup {job[c].sid}]
        /\ wal = [db EXCEPT !.slices = @ \cup {job[c].sid}]
    BY <1>6 DEF InsertVector, Write
  <2>2. wal' = [db EXCEPT !.slices = @ \cup {job[c].sid}, !.vec = @ \cup {job[c].sid}]
    BY <2>1 DEF Tables
  <2> QED
    BY <2>1, <2>2
<1>7. CASE CommitA(c)
  BY <1>7 DEF CommitA, Publish
<1>8. CASE Extract(c)
  <2>1. CASE pc'[c] = "logIngest"
    BY <2>1
  <2>2. CASE pc'[c] # "logIngest"
    <3>1. PICK g \in LLMGraphs :
            job' = [job EXCEPT ![c] = [@ EXCEPT !.nodes = g.nodes,
                                                !.edges = g.edges \cap (g.nodes \X g.nodes)]]
      BY <1>8, <2>2 DEF Extract
    <3> DEFINE E == g.edges \cap (g.nodes \X g.nodes)
    <3>a. job'[c] = [job[c] EXCEPT !.nodes = g.nodes, !.edges = E]
      BY <3>1
    <3> HIDE DEF E
    <3>0. job[c] \in Jobs
      OBVIOUS
    <3>b. job'[c].nodes = g.nodes /\ job'[c].edges = E
      BY ONLY <3>0, <3>a DEF Jobs
    <3>2. job'[c].edges \subseteq job'[c].nodes \X job'[c].nodes
      BY <3>b DEF E
    <3>3. pc'[c] = "insertNodes"
      BY <1>8, <2>2 DEF Extract
    <3> QED
      BY <3>2, <3>3
  <2> QED
    BY <2>1, <2>2
<1>9. CASE InsertNodes(c)
  BY <1>9 DEF InsertNodes, Begin, CanWrite, Tables
<1>10. CASE InsertEdges(c)
  <2>1. /\ pc'[c] = "commitB" /\ job' = job /\ db' = db
        /\ wal' = [wal EXCEPT !.edges = @ \cup NewEdges(c)]
        /\ wal = [db EXCEPT !.nodes = @ \cup job[c].nodes]
        /\ job[c].edges \subseteq job[c].nodes \X job[c].nodes
        /\ job[c].edges # {} => job[c].sid \in wal.slices
    BY <1>10 DEF InsertEdges, Write, SliceMissing, ForeignKeys
  <2>2. wal' = [db EXCEPT !.nodes = @ \cup job[c].nodes, !.edges = @ \cup NewEdges(c)]
    BY <2>1 DEF Tables
  <2>3. job[c].edges # {} => job[c].sid \in db.slices
    BY <2>1 DEF Tables
  <2>4. NewEdges(c)' = NewEdges(c)
    <3>1. job' = job
      BY <2>1
    <3> QED
      BY ONLY <3>1 DEF NewEdges
  <2> QED
    BY <2>1, <2>2, <2>3, <2>4
<1>11. CASE CommitB(c)
  BY <1>11 DEF CommitB, Publish
<1>12. CASE LogIngest(c)
  BY <1>12 DEF LogIngest
<1>13. CASE Forget(c)
  BY <1>13 DEF Forget, Look
<1>14. CASE CountEdges(c)
  BY <1>14 DEF CountEdges
<1>15. CASE DeleteVector(c)
  BY <1>15 DEF DeleteVector, Begin, CanWrite, Tables
<1>16. CASE DeleteSlice(c)
  <2> DEFINE s == job[c].sid
  <2>1. /\ pc'[c] = "commitForget" /\ job' = job /\ db' = db
        /\ wal' = [wal EXCEPT !.slices = @ \ {s}, !.edges = @ \ EdgesOf(wal, s)]
        /\ wal = [db EXCEPT !.vec = @ \ {s}]
    BY <1>16 DEF DeleteSlice, Write, WithoutSlice, ForeignKeys
  <2>2. wal.edges = db.edges /\ EdgesOf(wal, s) = EdgesOf(db, s)
    BY <2>1 DEF Tables, EdgesOf
  <2>3. wal' = [db EXCEPT !.vec = @ \ {s}, !.slices = @ \ {s}, !.edges = @ \ EdgesOf(db, s)]
    BY <2>1, <2>2 DEF Tables
  <2>4. EdgesOf(db, s)' = EdgesOf(db, s)
    BY <2>1 DEF EdgesOf
  <2> QED
    BY <2>1, <2>3, <2>4
<1>17. CASE CommitForget(c)
  BY <1>17 DEF CommitForget, Publish
<1>18. CASE LogForget(c)
  BY <1>18 DEF LogForget
<1>19. CASE LLMFails(c)
  BY <1>19 DEF LLMFails, Leave
<1>20. CASE CacheFails(c)
  BY <1>20 DEF CacheFails, Leave
<1>21. CASE TxFails(c)
  BY <1>21 DEF TxFails, Rollback
<1>22. CASE Crash(c)
  BY <1>22 DEF Crash, Rollback
<1> QED
  BY <1>1, <1>2, <1>3, <1>4, <1>5, <1>6, <1>7, <1>8, <1>9, <1>10, <1>11, <1>12, <1>13, <1>14, <1>15, <1>16, <1>17, <1>18, <1>19, <1>20, <1>21, <1>22 DEF Work, Statement

\* Base is inductive: the locals and the open transaction of the stepping client
\* change together, and those of the others not at all.
LEMMA BaseInvariant == Base /\ [Next]_vars => Base'
<1> SUFFICES ASSUME Base, [Next]_vars PROVE Base'
  OBVIOUS
<1>1. TypeInv' /\ LockHeldInTransaction'
  BY NextTyped, LockStep DEF Base
<1>2. CASE UNCHANGED vars
  <2>1. ASSUME NEW c \in Clients PROVE WritesOf(c)'
    <3>1. WritesOf(c) /\ NewEdges(c)' = NewEdges(c) /\ EdgesOf(db, job[c].sid)' = EdgesOf(db, job[c].sid)
      BY <1>2 DEF Base, Writes, NewEdges, EdgesOf, vars
    <3> QED
      BY <1>2, <3>1 DEF WritesOf, vars
  <2> QED
    BY <1>1, <2>1 DEF Base, Writes
<1>3. ASSUME NEW c \in Clients, Save(c) \/ Forget(c) \/ Work(c) \/ Crash(c)
      PROVE  Writes'
  <2>1. Aside(c) /\ WritesOf(c)'
    BY <1>3, StepAside, StepWrites
  <2>2. ASSUME NEW d \in Clients \ {c} PROVE WritesOf(d)'
    <3>1. WritesOf(d) /\ pc'[d] = pc[d] /\ job'[d] = job[d]
      BY <2>1 DEF Base, Writes, Aside
    <3>2. pc[d] \in InTransaction => db' = db /\ wal' = wal
      BY <2>1 DEF Aside
    <3>3. CASE pc[d] \in InTransaction
      <4>1. /\ NewEdges(d)' = NewEdges(d)
            /\ EdgesOf(db, job[d].sid)' = EdgesOf(db, job[d].sid)
        BY <3>1, <3>2, <3>3 DEF NewEdges, EdgesOf
      <4> QED
        BY <3>1, <3>2, <3>3, <4>1 DEF WritesOf
    <3>4. CASE pc[d] \notin InTransaction
      BY <3>1, <3>4 DEF WritesOf, InTransaction
    <3> QED
      BY <3>3, <3>4
  <2> QED
    BY <2>1, <2>2 DEF Writes
<1> QED
  BY <1>1, <1>2, <1>3 DEF Next, Base
-----------------------------------------------------------------------------
(* The history of the slices                                                *)

LEMMA HistoryInvariant ==
  ASSUME IInv, NEW c \in Clients, Save(c) \/ Forget(c) \/ Work(c) \/ Crash(c), TypeInv'
  PROVE  History'
<1> DEFINE s == job[c].sid
<1>1. Aside(c) /\ Moves(c) /\ Returns(c) /\ Views(c) /\ Effect(c)
  BY StepAside, StepMoves, StepReturns, StepViews, StepEffect DEF IInv
<1>2. s \notin db.slices \cup erased \/ pc[c] # "commitA"
  BY DEF IInv, History, Fresh, StageA
<1>3. s \in db.slices \cup erased \/ pc[c] \notin StageB \cup Forgetting \cup {"logIngest"}
  BY DEF IInv, History, Known
\* No step takes a slice out of what is stored or erased.
<1>4. db.slices \cup erased \subseteq db'.slices \cup erased'
  BY <1>1 DEF Effect, Kept, Stored, Related, Removed
<1>5. \/ db'.slices \cup erased' = db.slices \cup erased
      \/ pc[c] = "commitA" /\ db'.slices \cup erased' = db.slices \cup erased \cup {s}
  BY <1>1, <1>3 DEF Effect, Kept, Stored, Related, Removed, Forgetting
<1>6. Fresh'
  <2> USE DEF IInv, History, Fresh, Moves, Aside, StageA, StageB
  <2>1. (db.slices \cup erased \subseteq minted)'
    BY <1>1, <1>5
  <2>2. ASSUME NEW d \in Clients, pc'[d] \in StageA
        PROVE  job'[d].sid \in minted' \ (db'.slices \cup erased')
    <3>1. CASE d = c
      BY <1>1, <1>4, <1>5, <2>2, <3>1
    <3>2. CASE d # c
      <4>1. pc[d] \in StageA /\ job'[d].sid = job[d].sid
        BY <1>1, <2>2, <3>2
      <4>2. pc[c] = "commitA" => job[d].sid # s
        BY <4>1, <3>2
      <4> QED
        BY <1>1, <1>5, <4>1, <4>2
    <3> QED
      BY <3>1, <3>2
  <2>3. ASSUME NEW d \in Clients, NEW e \in Clients, d # e,
               pc'[d] \in StageA \cup StageB, pc'[e] \in StageA \cup StageB
        PROVE  job'[d].sid # job'[e].sid
    BY <1>1, <2>3 DEF Known
  <2> QED
    BY <2>1, <2>2, <2>3
<1>7. Known'
  <2> USE DEF IInv, History, Known
  <2>1. ASSUME NEW d \in Clients,
               pc'[d] \in StageB \cup Forgetting \cup {"logIngest", "logForget"}
        PROVE  job'[d].sid \in db'.slices \cup erased'
    <3>1. CASE d # c
      BY <1>1, <1>4, <2>1, <3>1 DEF Aside
    <3>2. CASE d = c /\ pc'[c] \in Forgetting \cup {"logForget"}
      <4>1. Seen(c).slices \subseteq db.slices \cup erased
        BY DEF Seen
      <4> QED
        BY <1>1, <1>3, <1>4, <3>2, <4>1 DEF Moves
    <3>3. CASE d = c /\ pc'[c] \in StageB \cup {"logIngest"}
      <4>1. CASE pc[c] = "commitA"
        BY <1>1, <3>3, <4>1 DEF Moves, Effect, Stored, Related, Removed, StageB
      <4>2. CASE pc[c] \in StageB
        BY <1>1, <1>3, <1>4, <3>3, <4>2 DEF Moves
      <4> QED
        BY <1>1, <3>3, <4>1, <4>2 DEF Moves
    <3> QED
      BY <2>1, <3>1, <3>2, <3>3
  <2>2. ASSUME NEW d \in Clients, pc'[d] \in StageB PROVE job'[d].sid \in minted'
    BY <1>1, <2>2 DEF Moves, Aside, Fresh, StageA
  <2>3. ASSUME NEW d \in Clients, view'[d] \notin {Closed, Begun}
        PROVE  view'[d].slices \subseteq db'.slices \cup erased'
    BY <1>1, <1>4, <2>3 DEF Views, Aside
  <2> QED
    BY <2>1, <2>2, <2>3
<1>8. Unrelated'
  <2> SUFFICES ASSUME NEW d \in Clients, pc'[d] \in StageA \cup StageB
               PROVE  EdgesOf(db', job'[d].sid) = {}
    BY DEF Unrelated, EdgesOf
  <2>1. CASE pc'[d] \in StageA /\ d = c
    <3>1. job'[d].sid \notin db'.slices
      BY <1>6, <2>1 DEF Fresh
    <3>2. job'[d].sid \notin db.slices
      BY <1>1, <2>1 DEF Moves, IInv, History, Fresh, StageA
    <3>3. ~Related(c)
      BY <2>1, <1>1 DEF Related, StageA
    <3> QED
      BY <1>1, <3>2, <3>3 DEF Effect, Kept, Stored, Removed, EdgesOf, IInv, History,
         DatabaseIsWhole, Whole
  <2>2. CASE pc'[d] \in StageB /\ d = c
    <3>1. EdgesOf(db, job[c].sid) = {} /\ job'[c].sid = job[c].sid
      BY <1>1, <2>2 DEF Moves, IInv, History, Unrelated, StageA
    <3>2. ~Related(c)
      BY <2>2 DEF Related, StageB
    <3> QED
      BY <1>1, <2>2, <3>1, <3>2 DEF Effect, Kept, Stored, Removed, EdgesOf
  <2>3. CASE d # c
    <3>1. pc[d] \in StageA \cup StageB /\ job'[d].sid = job[d].sid
      BY <1>1, <2>3 DEF Aside
    <3>2. EdgesOf(db, job[d].sid) = {}
      BY <3>1 DEF IInv, History, Unrelated
    <3>3. Related(c) => job[d].sid # s
      BY <2>3, <3>1 DEF Related, IInv, History, Fresh, StageB
    <3> QED
      BY <1>1, <3>1, <3>2, <3>3
         DEF Effect, Kept, Stored, Related, Removed, EdgesOf, NewEdges
  <2> QED
    BY <2>1, <2>2, <2>3
<1>9. DatabaseIsWhole'
  <2> USE DEF IInv, History, DatabaseIsWhole, Whole
  <2>1. CASE Kept
    BY <2>1 DEF Kept
  <2>2. CASE Stored(c)
    BY <2>2 DEF Stored
  <2>3. CASE Related(c)
    <3>1. ASSUME NEW e \in NewEdges(c)
          PROVE  e.slice \in db.slices /\ e.src \in job[c].nodes /\ e.dst \in job[c].nodes
      BY <2>3 DEF Related, NewEdges
    <3> QED
      BY <2>3, <3>1 DEF Related
  <2>4. CASE Removed(c)
    BY <2>4 DEF Removed, EdgesOf
  <2> QED
    BY <1>1, <2>1, <2>2, <2>3, <2>4 DEF Effect
<1>10. (erased \cap db.slices = {})'
  BY <1>1, <1>2 DEF Effect, Kept, Stored, Related, Removed, IInv, History
<1>11. SavedIsDurable'
  BY <1>1, <1>3, <1>4 DEF Returns, IInv, History, SavedIsDurable
<1> QED
  BY <1>6, <1>7, <1>8, <1>9, <1>10, <1>11 DEF History

LEMMA InitHistory == Init => IInv
<1> SUFFICES ASSUME Init PROVE IInv
  OBVIOUS
<1>1. TypeInv
  BY InitTyped
<1> QED
  BY <1>1, ConstantsAssumption
     DEF Init, IInv, Base, History, Writes, WritesOf, LockHeldInTransaction, InTransaction,
         Fresh, Known, Unrelated, StageA, StageB, Forgetting, DatabaseIsWhole, Whole, Empty,
         SavedIsDurable

LEMMA InductiveInvariant == IInv /\ [Next]_vars => IInv'
<1> SUFFICES ASSUME IInv, [Next]_vars PROVE IInv'
  OBVIOUS
<1>1. Base'
  BY BaseInvariant DEF IInv
<1>2. TypeInv'
  BY <1>1 DEF Base
<1>3. CASE UNCHANGED vars
  BY <1>1, <1>3 DEF vars, IInv, History, Fresh, Known, Unrelated, EdgesOf, DatabaseIsWhole, Whole,
     SavedIsDurable
<1>4. ASSUME NEW c \in Clients, Save(c) \/ Forget(c) \/ Work(c) \/ Crash(c)
      PROVE  History'
  BY <1>2, <1>4, HistoryInvariant
<1> QED
  BY <1>1, <1>3, <1>4 DEF Next, IInv

LEMMA AlwaysIInv == Spec => []IInv
BY InitHistory, InductiveInvariant, PTL DEF Spec
-----------------------------------------------------------------------------
(* The event log                                                            *)

Saving == StageA \cup StageB \cup {"logIngest"}
IngestLine(c) ==
  [kind |-> "ingest", slice |-> job[c].sid, edges |-> Cardinality(job[c].edges)]
ForgetLine(c) == [kind |-> "forget", slice |-> job[c].sid, edges |-> job[c].count]

\* No relation is known before the extraction answers.
NoEdgesYet == \A c \in Clients : pc[c] \in StageA \cup {"idle", "extract"} => job[c].edges = {}

\* A save has an id of its own until its line is written, and no line is there.
Untold ==
  /\ \A c, d \in Clients : c # d /\ pc[c] \in Saving /\ pc[d] \in Saving => job[c].sid # job[d].sid
  /\ \A c \in Clients : pc[c] \in Saving =>
       \A i \in DOMAIN log : log[i].kind = "ingest" => log[i].slice # job[c].sid

\* What is about to be logged is so.
AboutToTell ==
  /\ \A c \in Clients : pc[c] = "logForget" => job[c].sid \in erased
  /\ \A c \in Clients : pc[c] = "logIngest" /\ job[c].sid \in db.slices =>
       Cardinality(job[c].edges) = Cardinality(EdgesOf(db, job[c].sid))

LogHistory == LogIsTrue /\ NoEdgesYet /\ Untold /\ AboutToTell

\* What a step writes to the log, and where a step that leads there comes from.
Tells(c) ==
  /\ \/ log' = log
     \/ pc[c] = "logIngest" /\ pc'[c] = "idle" /\ log' = Append(log, IngestLine(c))
     \/ pc[c] = "logForget" /\ pc'[c] = "idle" /\ log' = Append(log, ForgetLine(c))
  /\ pc'[c] = "logIngest" =>
       \/ pc[c] = "commitA" /\ job' = job
       \/ pc[c] = "extract" /\ job'[c].edges = {}
       \/ pc[c] = "commitB" /\ job' = job /\ Related(c)
  /\ pc'[c] = "logForget" => pc[c] = "commitForget" /\ job' = job /\ Removed(c)
  /\ pc'[c] \in StageA \cup {"idle", "extract"} => job'[c].edges = {}

LEMMA StepTells ==
  ASSUME Base, NoEdgesYet, NEW c \in Clients, Save(c) \/ Forget(c) \/ Work(c) \/ Crash(c)
  PROVE  Tells(c)
<1> USE DEF Base, TypeInv, TypeOK, NoEdgesYet, Tells, IngestLine, ForgetLine, StageA, StageB,
            Go, Return, store
<1>0. NoJob.edges = {}
  BY DEF NoJob
<1>1. CASE Save(c)
  <2>1. PICK sid \in SliceIds, text \in Texts, role \in {"user", "assistant"} :
          job' = [job EXCEPT ![c] = [job[c] EXCEPT !.sid = sid, !.text = text, !.role = role]]
    BY <1>1 DEF Save
  <2>2. job'[c].edges = job[c].edges
    BY <2>1 DEF Jobs
  <2> QED
    BY <1>1, <2>2 DEF Save
<1>2. CASE Lookup(c)
  BY <1>0, <1>2 DEF Lookup, Look
<1>3. CASE AskProvider(c)
  BY <1>0, <1>3 DEF AskProvider
<1>4. CASE CacheVector(c)
  BY <1>0, <1>4 DEF CacheVector, CanWrite
<1>5. CASE InsertSlice(c)
  BY <1>0, <1>5 DEF InsertSlice, Begin, CanWrite
<1>6. CASE InsertVector(c)
  BY <1>0, <1>6 DEF InsertVector, Write
<1>7. CASE CommitA(c)
  BY <1>0, <1>7 DEF CommitA, Publish
<1>8. CASE Extract(c)
  <2>1. CASE UNCHANGED job
    BY <1>8, <2>1 DEF Extract
  <2>2. CASE ~UNCHANGED job
    <3>1. PICK g \in LLMGraphs :
            /\ Go(c, "extract", IF g.nodes = {} THEN "logIngest" ELSE "insertNodes")
            /\ job' = [job EXCEPT ![c] = [@ EXCEPT !.nodes = g.nodes,
                                                   !.edges = g.edges \cap (g.nodes \X g.nodes)]]
      BY <1>8, <2>2 DEF Extract
    <3>2. job'[c].edges = g.edges \cap (g.nodes \X g.nodes)
      BY <3>1 DEF Jobs
    <3>3. pc'[c] = "logIngest" => job'[c].edges = {}
      BY <3>1, <3>2
    <3> QED
      BY <1>8, <3>1, <3>3 DEF Extract
  <2> QED
    BY <2>1, <2>2
<1>9. CASE InsertNodes(c)
  BY <1>0, <1>9 DEF InsertNodes, Begin, CanWrite
<1>10. CASE InsertEdges(c)
  BY <1>0, <1>10 DEF InsertEdges, Write, SliceMissing, ForeignKeys
<1>11. CASE CommitB(c)
  <2>1. /\ pc[c] = "commitB" /\ pc'[c] = "logIngest" /\ erased' = erased /\ db' = wal
        /\ WritesOf(c)
    BY <1>11 DEF CommitB, Publish, Writes
  <2>2. /\ db' = [db EXCEPT !.nodes = @ \cup job[c].nodes, !.edges = @ \cup NewEdges(c)]
        /\ job[c].edges # {} => job[c].sid \in db.slices
        /\ job[c].edges \subseteq job[c].nodes \X job[c].nodes
    BY <2>1 DEF WritesOf
  <2>3. Related(c)
    BY <2>1, <2>2 DEF Related, Tables
  <2> QED
    BY <1>11, <2>3 DEF CommitB
<1>12. CASE LogIngest(c)
  BY <1>0, <1>12 DEF LogIngest, Append1
<1>13. CASE Forget(c)
  BY <1>0, <1>13 DEF Forget, Look, Jobs
<1>14. CASE CountEdges(c)
  BY <1>0, <1>14 DEF CountEdges, Jobs
<1>15. CASE DeleteVector(c)
  BY <1>0, <1>15 DEF DeleteVector, Begin, CanWrite
<1>16. CASE DeleteSlice(c)
  BY <1>0, <1>16 DEF DeleteSlice, Write, WithoutSlice, ForeignKeys
<1>17. CASE CommitForget(c)
  <2>1. /\ pc[c] = "commitForget" /\ erased' = erased \cup {job[c].sid}
        /\ db' = [db EXCEPT !.vec = @ \ {job[c].sid}, !.slices = @ \ {job[c].sid},
                            !.edges = @ \ EdgesOf(db, job[c].sid)]
    BY <1>17 DEF CommitForget, Publish, Writes, WritesOf
  <2>2. Removed(c)
    BY <2>1 DEF Removed, Tables
  <2> QED
    BY <1>17, <2>2 DEF CommitForget
<1>18. CASE LogForget(c)
  BY <1>0, <1>18 DEF LogForget, Append1
<1>19. CASE LLMFails(c)
  BY <1>0, <1>19 DEF LLMFails, Leave
<1>20. CASE CacheFails(c)
  BY <1>0, <1>20 DEF CacheFails, Leave
<1>21. CASE TxFails(c)
  BY <1>0, <1>21 DEF TxFails, Rollback
<1>22. CASE Crash(c)
  BY <1>0, <1>22 DEF Crash, Rollback
<1> QED
  BY <1>1, <1>2, <1>3, <1>4, <1>5, <1>6, <1>7, <1>8, <1>9, <1>10, <1>11, <1>12, <1>13, <1>14, <1>15, <1>16, <1>17, <1>18, <1>19, <1>20, <1>21, <1>22 DEF Work, Statement

\* A log that is true stays so with one more line that is.
LEMMA OneMoreLine ==
  ASSUME NEW l \in Seq(Events), NEW e \in Events
  PROVE  /\ DOMAIN Append(l, e) = (DOMAIN l) \cup {Len(l) + 1}
         /\ \A i \in DOMAIN l : Append(l, e)[i] = l[i]
         /\ Append(l, e)[Len(l) + 1] = e
<1>1. /\ Append(l, e) \in Seq(Events) /\ Len(Append(l, e)) = Len(l) + 1
      /\ \A i \in 1..Len(l) : Append(l, e)[i] = l[i]
      /\ Append(l, e)[Len(l) + 1] = e
  BY AppendProperties
<1>2. DOMAIN l = 1..Len(l) /\ DOMAIN Append(l, e) = 1..Len(l) + 1 /\ Len(l) \in Nat
  BY <1>1, LenProperties
<1> QED
  BY <1>1, <1>2

\* One edge for each relation of the answer.
LEMMA AsManyEdges ==
  ASSUME NEW c \in Clients, job[c] \in Jobs
  PROVE  Cardinality(NewEdges(c)) = Cardinality(job[c].edges)
<1> DEFINE E == job[c].edges
           f == [e \in E |-> [slice |-> job[c].sid, src |-> e[1], dst |-> e[2]]]
<1>1. IsFiniteSet(E) /\ E \subseteq Concepts \X Concepts
  BY DEF Jobs, FinSubsets
<1>2. f \in [E -> NewEdges(c)]
  BY DEF NewEdges
<1>3. \A n \in NewEdges(c) : \E e \in E : f[e] = n
  BY DEF NewEdges
<1>4. ASSUME NEW a \in E, NEW b \in E, f[a] = f[b] PROVE a = b
  <2>1. f[a].src = a[1] /\ f[a].dst = a[2] /\ f[b].src = b[1] /\ f[b].dst = b[2]
    OBVIOUS
  <2>2. a[1] = b[1] /\ a[2] = b[2]
    BY <1>4, <2>1
  <2> QED
    BY <1>1, <2>2
<1> HIDE DEF f
<1>5. f \in Bijection(E, NewEdges(c))
  <2>1. IsInjective(f)
    BY <1>2, <1>4 DEF IsInjective
  <2> QED
    BY <1>2, <1>3, <2>1 DEF Bijection, Injection, Surjection
<1> QED
  BY <1>1, <1>5, FS_Bijection DEF ExistsBijection

\* The edges of a stored slice other than one that a commit relates stay.
LEMMA EdgesStay ==
  ASSUME NEW c \in Clients, Effect(c), NEW s, s \in db'.slices,
         pc[c] = "commitB" => s # job[c].sid
  PROVE  EdgesOf(db', s) = EdgesOf(db, s)
<1>1. CASE Kept
  BY <1>1 DEF Kept, EdgesOf
<1>2. CASE Stored(c)
  BY <1>2 DEF Stored, EdgesOf
<1>3. CASE Related(c)
  BY <1>3 DEF Related, NewEdges, EdgesOf
<1>4. CASE Removed(c)
  BY <1>4 DEF Removed, EdgesOf
<1> QED
  BY <1>1, <1>2, <1>3, <1>4 DEF Effect

LEMMA LogStep ==
  ASSUME IInv, LogHistory, NEW c \in Clients, Save(c) \/ Forget(c) \/ Work(c) \/ Crash(c), IInv'
  PROVE  LogHistory'
<1> DEFINE s == job[c].sid
<1>1. Aside(c) /\ Moves(c) /\ Effect(c) /\ Tells(c)
  BY StepAside, StepMoves, StepEffect, StepTells DEF IInv, LogHistory
<1>2. /\ log \in Seq(Events) /\ job \in [Clients -> Jobs] /\ pc \in [Clients -> Steps]
      /\ \A d \in Clients : pc[d] # "idle" => job[d].sid \in SliceIds
  BY DEF IInv, Base, TypeInv, TypeOK, JobOK
<1>3. /\ db.slices \cup erased \subseteq minted
      /\ db.slices \cup erased \subseteq db'.slices \cup erased'
      /\ erased \subseteq erased' /\ erased' \cap db'.slices = {}
      /\ erased \cap db.slices = {}
      /\ pc[c] \in StageA => s \notin db.slices \cup erased
      /\ \A d \in Clients : pc[d] \in StageB \cup {"logIngest"} => job[d].sid \in db.slices \cup erased
      /\ \A d \in Clients : pc[d] \in StageA => job[d].sid \in minted
  <2>1. \A d \in Clients : pc[d] \in StageB \cup {"logIngest"} => job[d].sid \in db.slices \cup erased
    BY DEF IInv, History, Known
  <2>2. /\ db.slices \cup erased \subseteq minted
        /\ \A d \in Clients : pc[d] \in StageA => job[d].sid \in minted \ (db.slices \cup erased)
    BY DEF IInv, History, Fresh
  <2>3. erased \cap db.slices = {} /\ erased' \cap db'.slices = {}
    BY DEF IInv, History
  <2>4. erased \subseteq erased' /\ db.slices \cup erased \subseteq db'.slices \cup erased'
    BY <1>1 DEF Effect, Kept, Stored, Related, Removed
  <2> QED
    BY <2>1, <2>2, <2>3, <2>4
\* A line written is true, of a slice that nobody else saves.
<1>4. ASSUME NEW i \in DOMAIN log', i \notin DOMAIN log \/ log'[i] # log[i]
      PROVE  \/ pc[c] = "logIngest" /\ pc'[c] = "idle" /\ log'[i] = IngestLine(c)
             \/ pc[c] = "logForget" /\ pc'[c] = "idle" /\ log'[i] = ForgetLine(c)
  <2>1. CASE log' = log
    BY <1>4, <2>1
  <2>2. CASE pc[c] = "logIngest" /\ pc'[c] = "idle" /\ log' = Append(log, IngestLine(c))
    <3> DEFINE e == IngestLine(c)
    <3>1. e \in Events
      BY <1>2, <2>2, FS_CardinalityType DEF IngestLine, Events, Jobs, FinSubsets
    <3> HIDE DEF e
    <3>2. i = Len(log) + 1 /\ log'[i] = e
      BY <1>2, <1>4, <2>2, <3>1, OneMoreLine DEF e
    <3> QED
      BY <2>2, <3>2 DEF e
  <2>3. CASE pc[c] = "logForget" /\ pc'[c] = "idle" /\ log' = Append(log, ForgetLine(c))
    <3> DEFINE e == ForgetLine(c)
    <3>1. e \in Events
      BY <1>2, <2>3 DEF ForgetLine, Events, Jobs
    <3> HIDE DEF e
    <3>2. i = Len(log) + 1 /\ log'[i] = e
      BY <1>2, <1>4, <2>3, <3>1, OneMoreLine DEF e
    <3> QED
      BY <2>3, <3>2 DEF e
  <2> QED
    BY <1>1, <2>1, <2>2, <2>3 DEF Tells
<1>5. /\ IngestLine(c).kind = "ingest" /\ IngestLine(c).slice = s
      /\ IngestLine(c).edges = Cardinality(job[c].edges)
      /\ ForgetLine(c).kind = "forget" /\ ForgetLine(c).slice = s
  BY DEF IngestLine, ForgetLine
<1>6. LogIsTrue'
  <2> SUFFICES ASSUME NEW i \in DOMAIN log'
               PROVE  IF log'[i].kind = "forget" THEN log'[i].slice \in erased'
                      ELSE /\ log'[i].slice \in db'.slices \cup erased'
                           /\ log'[i].slice \in db'.slices =>
                                log'[i].edges = Cardinality(EdgesOf(db', log'[i].slice))
    BY DEF LogIsTrue
  <2>1. CASE i \in DOMAIN log /\ log'[i] = log[i]
    <3> DEFINE e == log[i]
    <3>1. CASE e.kind = "forget"
      BY <1>3, <2>1, <3>1 DEF LogHistory, LogIsTrue
    <3>2. CASE e.kind # "forget"
      <4>1. /\ e.slice \in db.slices \cup erased
            /\ e.slice \in db.slices => e.edges = Cardinality(EdgesOf(db, e.slice))
        BY <2>1, <3>2 DEF LogHistory, LogIsTrue
      <4>2. e.kind = "ingest"
        <5>1. DOMAIN log = 1..Len(log)
          BY <1>2, LenProperties
        <5>2. log[i] \in Events
          BY <1>2, <2>1, <5>1, ElementOfSeq
        <5> QED
          BY <3>2, <5>2 DEF Events
      <4>3. pc[c] = "commitB" => e.slice # s
        BY <2>1, <4>2 DEF LogHistory, Untold, Saving, StageB
      <4>4. ASSUME e.slice \in db'.slices PROVE e.edges = Cardinality(EdgesOf(db', e.slice))
        <5>1. EdgesOf(db', e.slice) = EdgesOf(db, e.slice)
          BY <1>1, <4>3, <4>4, EdgesStay
        <5>2. e.slice \in db.slices
          BY <1>3, <4>1, <4>4
        <5> QED
          BY <4>1, <5>1, <5>2
      <4> QED
        BY <1>3, <2>1, <3>2, <4>1, <4>4
    <3> QED
      BY <3>1, <3>2
  <2>2. CASE pc[c] = "logIngest" /\ pc'[c] = "idle" /\ log'[i] = IngestLine(c)
    <3>1. s \in db.slices \cup erased
      BY <1>3, <2>2
    <3>2. ASSUME s \in db'.slices PROVE Cardinality(job[c].edges) = Cardinality(EdgesOf(db', s))
      <4>1. s \in db.slices
        BY <1>3, <3>1, <3>2
      <4>2. Cardinality(job[c].edges) = Cardinality(EdgesOf(db, s))
        BY <2>2, <4>1 DEF LogHistory, AboutToTell
      <4>3. EdgesOf(db', s) = EdgesOf(db, s)
        BY <1>1, <2>2, <3>2, EdgesStay
      <4> QED
        BY <4>2, <4>3
    <3>3. "ingest" # "forget"
      OBVIOUS
    <3> QED
      BY <1>3, <1>5, <2>2, <3>1, <3>2, <3>3
  <2>3. CASE pc[c] = "logForget" /\ pc'[c] = "idle" /\ log'[i] = ForgetLine(c)
    BY <1>3, <1>5, <2>3 DEF LogHistory, AboutToTell
  <2> QED
    BY <1>4, <2>1, <2>2, <2>3
<1>7. NoEdgesYet'
  <2> SUFFICES ASSUME NEW d \in Clients, pc'[d] \in StageA \cup {"idle", "extract"}
               PROVE  job'[d].edges = {}
    BY DEF NoEdgesYet
  <2> QED
    BY <1>1 DEF Aside, Tells, LogHistory, NoEdgesYet
<1>8. ASSUME NEW d \in Clients, pc'[d] \in Saving
      PROVE  \/ pc[d] \in Saving /\ job'[d].sid = job[d].sid
             \/ d = c /\ job'[d].sid \notin minted
  BY <1>1, <1>8 DEF Aside, Moves, Saving, StageA, StageB
<1>9. \A d \in Clients : pc[d] \in Saving => job[d].sid \in minted
  BY <1>3 DEF Saving
<1>10. Untold'
  <2>1. ASSUME NEW d \in Clients, NEW e \in Clients, d # e, pc'[d] \in Saving, pc'[e] \in Saving
        PROVE  job'[d].sid # job'[e].sid
    BY <1>8, <1>9, <2>1 DEF LogHistory, Untold
  <2>2. ASSUME NEW d \in Clients, pc'[d] \in Saving, NEW i \in DOMAIN log', log'[i].kind = "ingest"
        PROVE  log'[i].slice # job'[d].sid
    <3>1. CASE i \in DOMAIN log /\ log'[i] = log[i]
      <4>1. log[i].slice \in minted
        BY <1>3, <2>2, <3>1 DEF LogHistory, LogIsTrue
      <4> QED
        BY <1>8, <2>2, <3>1, <4>1 DEF LogHistory, Untold
    <3>2. CASE pc[c] = "logIngest" /\ pc'[c] = "idle" /\ log'[i] = IngestLine(c)
      <4>1. d # c /\ pc[d] \in Saving /\ job'[d].sid = job[d].sid
        BY <1>8, <2>2, <3>2 DEF Saving, StageA, StageB
      <4> QED
        BY <1>5, <3>2, <4>1 DEF LogHistory, Untold, Saving
    <3>3. CASE pc[c] = "logForget" /\ pc'[c] = "idle" /\ log'[i] = ForgetLine(c)
      BY <1>5, <2>2, <3>3
    <3> QED
      BY <1>4, <3>1, <3>2, <3>3
  <2> QED
    BY <2>1, <2>2 DEF Untold
<1>11. ASSUME NEW d \in Clients, pc'[d] = "logForget" PROVE job'[d].sid \in erased'
  <2>1. CASE d = c
    BY <1>1, <1>11, <2>1 DEF Tells, Removed
  <2>2. CASE d # c
    BY <1>1, <1>3, <1>11, <2>2 DEF Aside, LogHistory, AboutToTell
  <2> QED
    BY <2>1, <2>2
<1>12. ASSUME NEW d \in Clients, pc'[d] = "logIngest", job'[d].sid \in db'.slices
       PROVE  Cardinality(job'[d].edges) = Cardinality(EdgesOf(db', job'[d].sid))
  <2>1. CASE d # c
    <3>1. pc[d] = "logIngest" /\ job'[d] = job[d]
      BY <1>1, <1>12, <2>1 DEF Aside
    <3>2. job[d].sid \in db.slices
      BY <1>3, <1>12, <3>1
    <3>3. Cardinality(job[d].edges) = Cardinality(EdgesOf(db, job[d].sid))
      BY <3>1, <3>2 DEF LogHistory, AboutToTell
    <3>4. pc[c] = "commitB" => job[d].sid # s
      BY <2>1, <3>1 DEF LogHistory, Untold, Saving, StageB
    <3> DEFINE t == job[d].sid
    <3>6. EdgesOf(db', t) = EdgesOf(db, t)
      BY <1>1, <1>12, <3>1, <3>4, EdgesStay DEF EdgesOf
    <3> QED
      BY <3>1, <3>3, <3>6 DEF EdgesOf
  <2>2. CASE d = c /\ pc[c] = "commitA" /\ job' = job
    <3>1. EdgesOf(db, s) = {} /\ job[c].edges = {}
      BY <2>2 DEF IInv, History, Unrelated, StageA, LogHistory, NoEdgesYet
    <3>2. db'.edges = db.edges
      BY <1>1, <1>12, <2>2 DEF Effect, Kept, Stored, Related, Removed
    <3>3. EdgesOf(db', job'[d].sid) = {}
      BY <2>2, <3>1, <3>2 DEF EdgesOf
    <3> QED
      BY <2>2, <3>1, <3>3
  <2>3. CASE d = c /\ pc[c] = "extract" /\ job'[c].edges = {}
    <3>1. EdgesOf(db, s) = {} /\ job'[c].sid = s
      BY <1>1, <1>12, <2>3 DEF IInv, History, Unrelated, StageB, Moves
    <3>2. db'.edges = db.edges
      BY <1>1, <2>3 DEF Effect, Kept, Stored, Related, Removed
    <3>3. EdgesOf(db', job'[d].sid) = {}
      BY <2>3, <3>1, <3>2 DEF EdgesOf
    <3> QED
      BY <2>3, <3>3
  <2>4. CASE d = c /\ pc[c] = "commitB" /\ job' = job /\ Related(c)
    <3>1. EdgesOf(db, s) = {}
      BY <2>4 DEF IInv, History, Unrelated, StageB
    <3>2. EdgesOf(db', job'[d].sid) = NewEdges(c)
      BY <2>4, <3>1 DEF Related, EdgesOf, NewEdges
    <3>3. Cardinality(NewEdges(c)) = Cardinality(job[c].edges)
      BY <1>2, AsManyEdges
    <3> QED
      BY <2>4, <3>2, <3>3
  <2> QED
    BY <1>1, <1>12, <2>1, <2>2, <2>3, <2>4 DEF Tells
<1>13. AboutToTell'
  BY <1>11, <1>12 DEF AboutToTell
<1> QED
  BY <1>6, <1>7, <1>10, <1>13 DEF LogHistory

LEMMA LogKept == IInv /\ LogHistory /\ [Next]_vars => LogHistory'
<1> SUFFICES ASSUME IInv, LogHistory, [Next]_vars PROVE LogHistory'
  OBVIOUS
<1>1. CASE UNCHANGED vars
  BY <1>1 DEF vars, LogHistory, LogIsTrue, NoEdgesYet, Untold, AboutToTell, EdgesOf
<1>2. IInv'
  BY InductiveInvariant
<1> QED
  BY <1>1, <1>2, LogStep DEF Next

LEMMA InitLog == Init => LogHistory
<1> SUFFICES ASSUME Init PROVE LogHistory
  OBVIOUS
<1>1. log = <<>> /\ DOMAIN log = {} /\ NoJob.edges = {}
  BY DEF Init, NoJob
<1> QED
  BY <1>1 DEF Init, LogHistory, LogIsTrue, NoEdgesYet, Untold, AboutToTell, Saving, StageA, StageB

-----------------------------------------------------------------------------
(* The theorems                                                             *)

\* Whatever saves, forgets, failures and crashes interleave, committed tables
\* are whole: a vector for each slice, every edge on a slice and nodes present.
THEOREM DatabaseAlwaysWhole == Spec => []DatabaseIsWhole
<1>1. IInv => DatabaseIsWhole
  BY DEF IInv, History
<1> QED
  BY <1>1, AlwaysIInv, PTL

\* A forgotten slice is gone with its vector and its edges, and stays gone.
THEOREM ForgettingIsFinal == Spec => []ForgottenLeavesNoTrace
<1>1. IInv => ForgottenLeavesNoTrace
  BY DEF IInv, History, ForgottenLeavesNoTrace, DatabaseIsWhole, Whole
<1> QED
  BY <1>1, AlwaysIInv, PTL

\* A slice whose save returned is stored until the user has it forgotten.
THEOREM SavesAreDurable == Spec => []SavedIsDurable
<1>1. IInv => SavedIsDurable
  BY DEF IInv, History
<1> QED
  BY <1>1, AlwaysIInv, PTL

\* The event log never tells more than what happened: lines of slices that were
\* stored, with the edges they have, and of slices that are gone (LogIsTrue).
THEOREM LogNeverLies == Spec => []LogIsTrue
<1>1. LogHistory => LogIsTrue
  BY DEF LogHistory
<1> QED
  BY <1>1, InitLog, LogKept, AlwaysIInv, PTL DEF Spec

\* The write lock is held exactly by the client inside a transaction.
THEOREM LockDiscipline == Spec => []LockHeldInTransaction
<1>1. IInv => LockHeldInTransaction
  BY DEF IInv, Base
<1> QED
  BY <1>1, AlwaysIInv, PTL

\* Each step is, seen through the committed tables, one atomic step of the
\* promise or none: a commit of stage A remembers, of stage B relates, of a
\* forget forgets (a second forget of the same slice changes nothing).
LEMMA PromiseStep == IInv /\ [Next]_vars => [Promise!PromiseNext]_(Promise!pvars)
<1> SUFFICES ASSUME IInv, [Next]_vars PROVE [Promise!PromiseNext]_(Promise!pvars)
  OBVIOUS
<1> USE DEF Promise!pvars
<1>1. CASE UNCHANGED vars
  BY <1>1 DEF vars
<1>2. ASSUME NEW c \in Clients, Save(c) \/ Forget(c) \/ Work(c) \/ Crash(c)
      PROVE  [Promise!PromiseNext]_(Promise!pvars)
  <2> DEFINE s == job[c].sid
  <2>1. Effect(c)
    BY <1>2, StepEffect DEF IInv
  <2>2. CASE Kept
    BY <2>2 DEF Kept
  <2>3. CASE Stored(c)
    <3>1. s \in SliceIds /\ s \notin db.slices \cup erased
      BY <2>3 DEF Stored, IInv, Base, TypeInv, JobOK, History, Fresh, StageA
    <3>2. Promise!Remember(s)
      BY <2>3, <3>1 DEF Stored, Promise!Remember
    <3> QED
      BY <3>1, <3>2 DEF Promise!PromiseNext
  <2>4. CASE Related(c)
    <3>1. s \in SliceIds /\ EdgesOf(db, s) = {}
      BY <2>4 DEF Related, IInv, Base, TypeInv, JobOK, History, Unrelated, StageB
    <3>2. \A e \in NewEdges(c) :
            e.slice = s /\ s \in db.slices /\ e.src \in db'.nodes /\ e.dst \in db'.nodes
      BY <2>4 DEF Related, NewEdges
    <3>3. Promise!Relate(s)
      BY <2>4, <3>1, <3>2 DEF Related, Promise!Relate, EdgesOf
    <3> QED
      BY <3>1, <3>3 DEF Promise!PromiseNext
  <2>5. CASE Removed(c)
    <3>1. s \in SliceIds /\ s \in db.slices \cup erased
      BY <2>5 DEF Removed, IInv, Base, TypeInv, JobOK, History, Known, Forgetting
    <3>2. CASE s \in db.slices
      <4>1. Promise!Forget(s)
        BY <2>5, <3>2 DEF Removed, Promise!Forget, EdgesOf
      <4> QED
        BY <3>1, <4>1 DEF Promise!PromiseNext
    <3>3. CASE s \notin db.slices
      <4>1. EdgesOf(db, s) = {} /\ s \notin db.vec
        BY <3>3 DEF IInv, History, DatabaseIsWhole, Whole, EdgesOf
      <4> QED
        BY <2>5, <3>1, <3>3, <4>1 DEF Removed
    <3> QED
      BY <3>2, <3>3
  <2> QED
    BY <2>1, <2>2, <2>3, <2>4, <2>5 DEF Effect
<1> QED
  BY <1>1, <1>2 DEF Next

\* The memory layer implements the promise of atomic remember, relate, forget.
THEOREM MemoryKeepsPromise == Spec => KeepsPromise
<1>1. Init => Promise!PromiseInit
  BY DEF Init, Empty, Promise!PromiseInit
<1> QED
  BY <1>1, AlwaysIInv, PromiseStep, PTL DEF Spec, KeepsPromise, Promise!PromiseSpec
=============================================================================
