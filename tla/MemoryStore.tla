----------------------------- MODULE MemoryStore -----------------------------
(***************************************************************************)
(* The memory layer of Mneme as its processes and threads run it: ingest    *)
(* (memory/ingest.py, embed.py, concept.py) and forget (forget.py) over one *)
(* SQLite file (store.py, schema.sql) and the event log (trace/events.py).  *)
(*                                                                          *)
(* A client is whoever runs one operation at a time on a connection of its  *)
(* own: a server thread, which opens one for each request, or a `mneme      *)
(* chat` process, which keeps one for all its turns (Repls).  Every SQL     *)
(* statement is a step.  What the code takes from SQLite is modelled as the *)
(* code relies on it: one writer at a time, uncommitted rows visible to     *)
(* their writer alone, a failed or crashed transaction undone whole.        *)
(***************************************************************************)
EXTENDS Naturals, FiniteSets, Sequences

CONSTANTS
  Clients,     \* threads and processes
  Repls,       \* those that keep their connection from one turn to the next
  SliceIds,    \* the ULIDs that can be drawn
  Texts,       \* message texts
  Concepts,    \* node names
  LLMGraphs,   \* the graphs a concept extraction may answer
  Faults,      \* which failures can happen: "crash", "disk", "llm", "log"
  None, Closed, Begun

ASSUME ConstantsAssumption ==
  /\ Repls \subseteq Clients
  /\ None \notin Clients \cup SliceIds \cup Texts
  /\ \A g \in LLMGraphs :
       /\ g.nodes \subseteq Concepts
       /\ g.edges \subseteq Concepts \X Concepts /\ IsFiniteSet(g.edges)
  /\ Faults \subseteq {"crash", "disk", "llm", "log"}

VARIABLES
  db,         \* the committed tables of mneme.db
  wal,        \* the tables as the transaction of `writer` sees them
  writer,     \* the client holding SQLite's write lock, or None
  view,       \* per client: Closed (no transaction open on its connection), Begun
              \* (open, nothing read yet), or the tables it read first
  behind,     \* the clients whose open transaction reads tables since changed
  pc, job,    \* per client: where its operation stands, and its locals
  minted,     \* the slice ids drawn so far
  log,        \* events.jsonl
  erased,     \* history: slices whose deletion was committed
  saved       \* history: slice ids a save returned to its caller

store == <<db, wal, writer, view, behind>>
vars == <<db, wal, writer, view, behind, pc, job, minted, log, erased, saved>>

FinSubsets(S) == {T \in SUBSET S : IsFiniteSet(T)}

Edge == [slice : SliceIds, src : Concepts, dst : Concepts]
Tables == [slices : SUBSET SliceIds, vec : SUBSET SliceIds, nodes : SUBSET Concepts,
           edges : FinSubsets(Edge), cache : SUBSET Texts]
Empty == [slices |-> {}, vec |-> {}, nodes |-> {}, edges |-> {}, cache |-> {}]

Jobs == [sid : SliceIds \cup {None}, text : Texts \cup {None}, role : {"user", "assistant"},
         nodes : SUBSET Concepts, edges : FinSubsets(Concepts \X Concepts), count : Nat]
NoJob == [sid |-> None, text |-> None, role |-> "assistant", nodes |-> {}, edges |-> {},
          count |-> 0]

Events == [kind : {"ingest", "forget"}, slice : SliceIds, edges : Nat]

EdgesOf(tables, sid) == {e \in tables.edges : e.slice = sid}
-----------------------------------------------------------------------------
(* SQLite, as store.connect, store.tx and the callers use it.               *)

\* mutant: connect() without the pragma
NoForeignKeys == FALSE

\* connect(): PRAGMA foreign_keys = ON on every connection
ForeignKeys == TRUE

\* What a SELECT of c reads: inside an open transaction, what it saw first.
Seen(c) == IF view[c] \in {Closed, Begun} THEN db ELSE view[c]

\* A SELECT in a transaction that has read nothing yet fixes what it sees.
Look(c) == view' = IF view[c] = Begun THEN [view EXCEPT ![c] = db] ELSE view

\* The lock is free, and nothing was committed since the snapshot of c.
CanWrite(c) == writer = None /\ c \notin behind

\* After a step of c that ends its transaction: a commit that changed something
\* leaves the other snapshots behind.
Overtake(c) ==
  behind' = (IF db' = db THEN behind ELSE {d \in Clients : view[d] \notin {Closed, Begun}}) \ {c}

\* First write of a transaction: take the lock; the write is seen by c alone.
Begin(c, tables) ==
  /\ CanWrite(c)
  /\ writer' = c
  /\ wal' = tables
  /\ UNCHANGED <<db, view, behind>>

\* A later write of the same transaction.
Write(c, tables) ==
  /\ writer = c
  /\ wal' = tables
  /\ UNCHANGED <<db, writer, view, behind>>

\* store.tx, no exception: what the transaction wrote becomes the database.
Publish(c) ==
  /\ writer = c
  /\ db' = wal
  /\ writer' = None
  /\ view' = [view EXCEPT ![c] = Closed]
  /\ Overtake(c)
  /\ UNCHANGED wal

\* mutant: an exit from the transaction that does not roll it back
KeepLock(c) == UNCHANGED store

\* The transaction of c, if it has one, is undone and the lock is free again.
Rollback(c) ==
  /\ writer' = IF writer = c THEN None ELSE writer
  /\ wal' = IF writer = c THEN db ELSE wal
  /\ view' = [view EXCEPT ![c] = Closed]
  /\ behind' = behind \ {c}
  /\ UNCHANGED db

\* DELETE FROM slices: the edges follow, ON DELETE CASCADE
WithoutSlice(tables, sid) ==
  [tables EXCEPT !.slices = @ \ {sid},
                 !.edges = IF ForeignKeys THEN @ \ EdgesOf(tables, sid) ELSE @]

\* events.append: one line, or none if writing fails; it never raises
Append1(event) ==
  \/ log' = Append(log, event)
  \/ "log" \in Faults /\ log' = log
-----------------------------------------------------------------------------
Init ==
  /\ db = Empty /\ wal = Empty /\ writer = None
  /\ view = [c \in Clients |-> Closed] /\ behind = {}
  /\ pc = [c \in Clients |-> "idle"]
  /\ job = [c \in Clients |-> NoJob]
  /\ minted = {} /\ log = <<>>
  /\ erased = {} /\ saved = {}

Go(c, from, to) ==
  /\ pc[c] = from
  /\ pc' = [pc EXCEPT ![c] = to]

Return(c) ==
  /\ pc' = [pc EXCEPT ![c] = "idle"]
  /\ job' = [job EXCEPT ![c] = NoJob]

\* An exception reaches the caller.  A server thread's connection is closed
\* with its request; a REPL prints the error and keeps its connection.
Leave(c, open) ==
  /\ Return(c)
  /\ view' = [view EXCEPT ![c] = IF c \in Repls THEN open ELSE Closed]
  /\ behind' = IF c \in Repls THEN behind ELSE behind \ {c}
-----------------------------------------------------------------------------
(* ingest._save                                                             *)

Save(c) ==
  /\ Go(c, "idle", "lookup")
  /\ \E sid \in SliceIds \ minted, text \in Texts, role \in {"user", "assistant"} :
       /\ job' = [job EXCEPT ![c] = [@ EXCEPT !.sid = sid, !.text = text, !.role = role]]
       /\ minted' = minted \cup {sid}
  /\ UNCHANGED <<store, log, erased, saved>>

\* embed: the vector comes from embeddings_cache, or from the provider
Lookup(c) ==
  /\ Go(c, "lookup", IF job[c].text \in Seen(c).cache THEN "insertSlice" ELSE "provider")
  /\ Look(c)
  /\ UNCHANGED <<db, wal, writer, behind, job, minted, log, erased, saved>>

AskProvider(c) ==
  /\ Go(c, "provider", "cache")
  /\ UNCHANGED <<store, job, minted, log, erased, saved>>

\* INSERT OR IGNORE and commit: a transaction of one statement
CacheVector(c) ==
  /\ Go(c, "cache", "insertSlice")
  /\ CanWrite(c)
  /\ db' = [db EXCEPT !.cache = @ \cup {job[c].text}]
  /\ wal' = db'
  /\ view' = [view EXCEPT ![c] = Closed]
  /\ Overtake(c)
  /\ UNCHANGED <<writer, job, minted, log, erased, saved>>

InsertSlice(c) ==
  /\ Go(c, "insertSlice", "insertVector")
  /\ Begin(c, [db EXCEPT !.slices = @ \cup {job[c].sid}])
  /\ UNCHANGED <<job, minted, log, erased, saved>>

InsertVector(c) ==
  /\ Go(c, "insertVector", "commitA")
  /\ Write(c, [wal EXCEPT !.vec = @ \cup {job[c].sid}])
  /\ UNCHANGED <<job, minted, log, erased, saved>>

\* mutant: stage A leaves its transaction open
ForgetToCommitA(c) ==
  /\ Go(c, "commitA", IF job[c].role = "user" THEN "extract" ELSE "logIngest")
  /\ UNCHANGED <<store, job, minted, log, erased, saved>>

CommitA(c) ==
  /\ Go(c, "commitA", IF job[c].role = "user" THEN "extract" ELSE "logIngest")
  /\ Publish(c)
  /\ UNCHANGED <<job, minted, log, erased, saved>>

\* concept.extract keeps the edges between the nodes it kept.  A graph without
\* nodes writes nothing; a failed extraction is a warning and adds nothing.
Extract(c) ==
  /\ \/ \E g \in LLMGraphs :
          /\ Go(c, "extract", IF g.nodes = {} THEN "logIngest" ELSE "insertNodes")
          /\ job' = [job EXCEPT ![c] = [@ EXCEPT !.nodes = g.nodes,
                                                  !.edges = g.edges \cap (g.nodes \X g.nodes)]]
     \/ /\ "llm" \in Faults
        /\ Go(c, "extract", "logIngest")
        /\ UNCHANGED job
  /\ UNCHANGED <<store, minted, log, erased, saved>>

InsertNodes(c) ==
  /\ Go(c, "insertNodes", "insertEdges")
  /\ Begin(c, [db EXCEPT !.nodes = @ \cup job[c].nodes])
  /\ UNCHANGED <<job, minted, log, erased, saved>>

\* mutant: the columns of INSERT INTO edges in another order
MisplacedColumns(c) ==
  {[slice |-> e[1], src |-> job[c].sid, dst |-> e[2]] : e \in job[c].edges}

NewEdges(c) == {[slice |-> job[c].sid, src |-> e[1], dst |-> e[2]] : e \in job[c].edges}

\* mutant: edges.slice_id declared without REFERENCES
Unreferenced(c) == FALSE

\* edges.slice_id REFERENCES slices(id)
SliceMissing(c) == ForeignKeys /\ job[c].edges # {} /\ job[c].sid \notin wal.slices

InsertEdges(c) ==
  /\ Go(c, "insertEdges", "commitB")
  /\ ~SliceMissing(c)
  /\ Write(c, [wal EXCEPT !.edges = @ \cup NewEdges(c)])
  /\ UNCHANGED <<job, minted, log, erased, saved>>

CommitB(c) ==
  /\ Go(c, "commitB", "logIngest")
  /\ Publish(c)
  /\ UNCHANGED <<job, minted, log, erased, saved>>

LogIngest(c) ==
  /\ pc[c] = "logIngest"
  /\ Append1([kind |-> "ingest", slice |-> job[c].sid, edges |-> Cardinality(job[c].edges)])
  /\ saved' = saved \cup {job[c].sid}
  /\ Return(c)
  /\ UNCHANGED <<store, minted, erased>>
-----------------------------------------------------------------------------
(* forget.forget, consent given; without it, it raises before it reads       *)
(* anything.                                                                *)

\* An id that is not there raises, but only after the SELECT.
Forget(c) ==
  /\ pc[c] = "idle"
  /\ Look(c)
  /\ \/ /\ Go(c, "idle", "countEdges")
        /\ \E sid \in Seen(c).slices : job' = [job EXCEPT ![c].sid = sid]
     \/ UNCHANGED <<pc, job>>
  /\ UNCHANGED <<db, wal, writer, behind, minted, log, erased, saved>>

CountEdges(c) ==
  /\ Go(c, "countEdges", "deleteVector")
  /\ job' = [job EXCEPT ![c].count = Cardinality(EdgesOf(Seen(c), job[c].sid))]
  /\ UNCHANGED <<store, minted, log, erased, saved>>

\* mutant: the vector is deleted before, not inside, the transaction
DeleteVectorEarly(c) ==
  /\ Go(c, "deleteVector", "deleteSlice")
  /\ CanWrite(c)
  /\ db' = [db EXCEPT !.vec = @ \ {job[c].sid}]
  /\ wal' = db'
  /\ writer' = c
  /\ UNCHANGED <<view, behind, job, minted, log, erased, saved>>

DeleteVector(c) ==
  /\ Go(c, "deleteVector", "deleteSlice")
  /\ Begin(c, [db EXCEPT !.vec = @ \ {job[c].sid}])
  /\ UNCHANGED <<job, minted, log, erased, saved>>

DeleteSlice(c) ==
  /\ Go(c, "deleteSlice", "commitForget")
  /\ Write(c, WithoutSlice(wal, job[c].sid))
  /\ UNCHANGED <<job, minted, log, erased, saved>>

CommitForget(c) ==
  /\ Go(c, "commitForget", "logForget")
  /\ Publish(c)
  /\ erased' = erased \cup {job[c].sid}
  /\ UNCHANGED <<job, minted, log, saved>>

LogForget(c) ==
  /\ pc[c] = "logForget"
  /\ Append1([kind |-> "forget", slice |-> job[c].sid, edges |-> job[c].count])
  /\ Return(c)
  /\ UNCHANGED <<store, minted, erased, saved>>
-----------------------------------------------------------------------------
(* Failures                                                                 *)

\* SQLite does not take the next write of c: the wait for the lock was in vain,
\* or a foreign key has no row.
Refused(c) ==
  \/ pc[c] \in {"cache", "insertSlice", "insertNodes", "deleteVector"} /\ ~CanWrite(c)
  \/ pc[c] = "insertEdges" /\ SliceMissing(c)

\* The embedding provider fails, or the extraction answer has the wrong shape
\* in a way concept.extract does not turn into ConceptExtractionFailed.
LLMFails(c) ==
  /\ "llm" \in Faults
  /\ pc[c] \in {"provider", "extract"}
  /\ Leave(c, view[c])
  /\ UNCHANGED <<db, wal, writer, minted, log, erased, saved>>

\* The cache write is refused, or fails: it is outside store.tx, so the
\* transaction it opened stays open on the connection.
CacheFails(c) ==
  /\ pc[c] = "cache"
  /\ Refused(c) \/ "disk" \in Faults
  /\ Leave(c, IF view[c] = Closed THEN Begun ELSE view[c])
  /\ UNCHANGED <<db, wal, writer, minted, log, erased, saved>>

\* mutant: stage B's handler catches every exception, its counters already set
CatchAll(c) ==
  /\ pc[c] \in {"insertEdges", "commitB"}
  /\ Refused(c) \/ "disk" \in Faults
  /\ pc' = [pc EXCEPT ![c] = "logIngest"]
  /\ Rollback(c)
  /\ UNCHANGED <<job, minted, log, erased, saved>>

\* mutant: a failed transaction is tried again until it succeeds
RetryForever(c) ==
  /\ pc[c] \in {"commitA", "commitB", "commitForget"}
  /\ "disk" \in Faults
  /\ pc' = [pc EXCEPT ![c] = CASE pc[c] = "commitA" -> "insertSlice"
                               [] pc[c] = "commitB" -> "insertNodes"
                               [] OTHER -> "deleteVector"]
  /\ Rollback(c)
  /\ UNCHANGED <<job, minted, log, erased, saved>>

\* A statement or the commit of a store.tx block raises: it is refused, or the
\* disk fails.
TxFails(c) ==
  /\ pc[c] \in {"insertSlice", "insertVector", "commitA", "insertNodes", "insertEdges",
                "commitB", "deleteVector", "deleteSlice", "commitForget"}
  /\ Refused(c) \/ "disk" \in Faults
  /\ Rollback(c)
  /\ Return(c)
  /\ UNCHANGED <<minted, log, erased, saved>>

\* The process dies, or a REPL is left: SQLite undoes an unfinished transaction.
Crash(c) ==
  /\ "crash" \in Faults
  /\ pc[c] # "idle" \/ view[c] # Closed
  /\ Rollback(c)
  /\ Return(c)
  /\ UNCHANGED <<minted, log, erased, saved>>
-----------------------------------------------------------------------------
Statement(c) ==
  \/ Lookup(c) \/ AskProvider(c) \/ CacheVector(c)
  \/ InsertSlice(c) \/ InsertVector(c) \/ CommitA(c)
  \/ Extract(c) \/ InsertNodes(c) \/ InsertEdges(c) \/ CommitB(c) \/ LogIngest(c)
  \/ CountEdges(c) \/ DeleteVector(c) \/ DeleteSlice(c) \/ CommitForget(c) \/ LogForget(c)

Work(c) == Statement(c) \/ LLMFails(c) \/ CacheFails(c) \/ TxFails(c)

Next == \E c \in Clients : Save(c) \/ Forget(c) \/ Work(c) \/ Crash(c)

Spec == Init /\ [][Next]_vars

\* A thread that is running an operation keeps running, and a statement that is
\* refused raises: SQLite's busy timeout ends a wait for the lock.  No failure
\* that may not happen is assumed to happen.
Proceed(c) == Statement(c) \/ (Refused(c) /\ (CacheFails(c) \/ TxFails(c)))

FairSpec == Spec /\ \A c \in Clients : WF_vars(Proceed(c))
-----------------------------------------------------------------------------
(* Properties                                                               *)

InTransaction == {"insertVector", "commitA", "insertEdges", "commitB",
                  "deleteSlice", "commitForget"}
Steps == {"idle", "lookup", "provider", "cache", "insertSlice", "extract", "insertNodes",
          "logIngest", "countEdges", "deleteVector", "logForget"} \cup InTransaction

\* The shape of the state: tables, locals and log hold what the schema lets
\* them hold (schema.sql, and the locals of ingest._save and forget.forget).
TypeOK ==
  /\ db \in Tables /\ wal \in Tables
  /\ writer \in Clients \cup {None}
  /\ view \in [Clients -> Tables \cup {Closed, Begun}] /\ behind \subseteq Clients
  /\ pc \in [Clients -> Steps]
  /\ job \in [Clients -> Jobs]
  /\ minted \subseteq SliceIds
  /\ log \in Seq(Events)
  /\ erased \subseteq SliceIds /\ saved \subseteq SliceIds

\* What any reader of the database finds, whatever saves and forgets are under
\* way or were cut short: vectors and slices 1:1 (schema.sql:49), every edge
\* on a slice and on nodes that are there.
Whole(tables) ==
  /\ tables.vec = tables.slices
  /\ \A e \in tables.edges :
       e.slice \in tables.slices /\ e.src \in tables.nodes /\ e.dst \in tables.nodes
DatabaseIsWhole == Whole(db)

\* Once a forget has committed, no slice, vector or edge of that slice is ever
\* in the database again, not even by a save of it still in its stage B.
ForgottenLeavesNoTrace ==
  erased \cap (db.slices \cup db.vec \cup {e.slice : e \in db.edges}) = {}

\* A save that returned its id to the caller has its slice in the database,
\* through every later failure and crash, until the user has it forgotten.
SavedIsDurable == saved \subseteq db.slices \cup erased

\* The event log never tells more than what happened: an ingest line names a
\* slice that was stored and, while it is stored, counts its edges; a forget
\* line names a slice that is gone (ingest.py:80-83, forget.py:42-50).
LogIsTrue ==
  \A i \in DOMAIN log :
    LET e == log[i] IN
    IF e.kind = "forget" THEN e.slice \in erased
    ELSE /\ e.slice \in db.slices \cup erased
         /\ e.slice \in db.slices => e.edges = Cardinality(EdgesOf(db, e.slice))

\* SQLite's write lock is held between the first write of a store.tx block and
\* its end, by the client inside that block: no way out of an operation keeps it.
LockHeldInTransaction ==
  /\ \A c \in Clients : writer = c <=> pc[c] \in InTransaction
  /\ writer = None => wal = db

\* Every save and forget returns or raises: no wait for the lock, the provider
\* or another client is for ever.
OperationsEnd == \A c \in Clients : pc[c] # "idle" ~> pc[c] = "idle"

\* Seen through its committed tables, the memory layer implements the promise
\* of atomic remember, relate and forget.
Promise == INSTANCE MemoryPromise WITH
  memory <- db.slices, index <- db.vec, relations <- db.edges, concepts <- db.nodes
KeepsPromise == Promise!PromiseSpec

\* ingest.py:5-6, "best-effort [...] failure is logged": once stage A has
\* committed, the save returns, whatever stage B meets (crashes apart).
StageBIsBestEffort ==
  [][\A c \in Clients :
       pc[c] \in {"extract", "insertNodes", "insertEdges", "commitB"} /\ pc'[c] = "idle"
         => job[c].sid \in saved']_vars

\* store.py:69, "commit on success, rollback on error": nothing a failed
\* operation leaves on a connection keeps a later one from writing, so with the
\* lock free the vector a save just fetched can be cached.
FreeLockMeansWritable ==
  \A c \in Clients : pc[c] = "cache" /\ writer = None => CanWrite(c)
=============================================================================
