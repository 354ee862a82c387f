------------------------------ MODULE Migration ------------------------------
(***************************************************************************)
(* store.init_db, which mneme init runs on a fresh database, one of before *)
(* v0.10 whose slices have no session_id, or one that an earlier run left  *)
(* half done; other inits run and other clients save meanwhile.  The       *)
(* statements of schema.sql, CREATE VIRTUAL TABLE and ALTER TABLE commit   *)
(* one by one; the back-fill and its index are one transaction, which      *)
(* Python opens before the UPDATE.                                         *)
(***************************************************************************)
EXTENDS Naturals, Sequences, FiniteSets

CONSTANTS
  Inits,    \* processes that run mneme init
  Rows,     \* ids of slices
  OldRows,  \* the slices of a database of before v0.10
  None

ASSUME MigrationAssumption == OldRows \subseteq Rows /\ None \notin Inits

VARIABLES
  made,     \* the tables of the database, and idx_slices_session
  column,   \* slices has a session_id
  session,  \* of each slice: "none" (no such row), "null", "turn", "real"
  writer,   \* the process whose transaction holds the write lock, or None
  staged,   \* what its transaction would make of session
  pc,       \* where each init is
  at,       \* the next statement of its script
  found     \* history: what each run of init found at its start

db == <<made, column, session>>
local == <<pc, at, found>>
vars == <<db, writer, staged, local>>

\* The tables in the order init_db makes them.  Their indexes are left out.
Script == <<"slices", "nodes", "edges", "embeddings_cache", "vec_slices">>
Tables == {Script[n] : n \in 1..Len(Script)}
Index == "idx_slices_session"

Ended == {"idle", "done", "duplicate", "locked"}
Points == Ended \cup {"script", "table_info", "alter", "update", "index", "commit"}

What == IF "slices" \notin made THEN "fresh" ELSE IF column THEN "new" ELSE "old"

\* A client's save finds the tables and the column, or raises.
Ready == Tables \subseteq made /\ column

Init ==
  /\ \/ made = {} /\ session = [s \in Rows |-> "none"]
     \/ made = Tables /\ session = [s \in Rows |-> IF s \in OldRows THEN "null" ELSE "none"]
  /\ column = FALSE
  /\ writer = None /\ staged = session
  /\ pc = [p \in Inits |-> "idle"]
  /\ at = [p \in Inits |-> 1]
  /\ found = [p \in Inits |-> "fresh"]

Go(p, from, to) ==
  /\ pc[p] = from
  /\ pc' = [pc EXCEPT ![p] = to]

\* init_db is called, for the first time or again.
Begin(p) ==
  /\ pc[p] \in Ended
  /\ pc' = [pc EXCEPT ![p] = "script"]
  /\ at' = [at EXCEPT ![p] = 1]
  /\ found' = [found EXCEPT ![p] = What]
  /\ UNCHANGED <<db, writer, staged>>

\* CREATE TABLE IF NOT EXISTS; slices is made with its session_id.
Create(p) ==
  LET name == Script[at[p]] IN
  /\ Go(p, "script", IF at[p] = Len(Script) THEN "table_info" ELSE "script")
  /\ name \notin made => writer = None
  /\ made' = made \cup {name}
  /\ column' = (column \/ (name = "slices" /\ name \notin made))
  /\ at' = [at EXCEPT ![p] = IF @ = Len(Script) THEN 1 ELSE @ + 1]
  /\ UNCHANGED <<session, writer, staged, found>>

\* mutant: the column is not looked for
AddAnyway(p) ==
  /\ Go(p, "table_info", "alter")
  /\ UNCHANGED <<db, writer, staged, at, found>>

\* mutant: only the run that adds the column fills it
DoneIfThere(p) ==
  /\ Go(p, "table_info", IF column THEN "done" ELSE "alter")
  /\ UNCHANGED <<db, writer, staged, at, found>>

TableInfo(p) ==
  /\ Go(p, "table_info", IF column THEN "update" ELSE "alter")
  /\ UNCHANGED <<db, writer, staged, at, found>>

\* A column that has come meanwhile is an error, and init raises it.
Alter(p) ==
  /\ Go(p, "alter", IF column THEN "duplicate" ELSE "update")
  /\ writer = None
  /\ column' = TRUE
  /\ UNCHANGED <<made, session, writer, staged, at, found>>

\* mutant: UPDATE without WHERE session_id IS NULL
StompAll(rows) == [s \in Rows |-> IF rows[s] # "none" THEN "turn" ELSE rows[s]]

BackFill(rows) == [s \in Rows |-> IF rows[s] = "null" THEN "turn" ELSE rows[s]]

Update(p) ==
  /\ Go(p, "update", "index")
  /\ writer = None
  /\ writer' = p
  /\ staged' = BackFill(session)
  /\ UNCHANGED <<db, at, found>>

CreateIndex(p) ==
  /\ Go(p, "index", "commit")
  /\ UNCHANGED <<db, writer, staged, at, found>>

\* mutant: the writer forgets to let others write
KeepLock(p) ==
  /\ Go(p, "commit", "done")
  /\ session' = staged
  /\ made' = made \cup {Index}
  /\ UNCHANGED <<column, writer, staged, at, found>>

Commit(p) ==
  /\ Go(p, "commit", "done")
  /\ session' = staged
  /\ made' = made \cup {Index}
  /\ writer' = None
  /\ UNCHANGED <<column, staged, at, found>>

Waits(p) ==
  \/ pc[p] = "script" /\ Script[at[p]] \notin made
  \/ pc[p] \in {"alter", "update"}

\* mutant: no timeout
WaitOn(p) == Waits(p) /\ writer # None /\ UNCHANGED vars

\* sqlite3 waits 5 s for the lock, of an init or of a client, whose transactions
\* are one step here; then the statement raises.
Locked(p) ==
  /\ Waits(p)
  /\ pc' = [pc EXCEPT ![p] = "locked"]
  /\ UNCHANGED <<db, writer, staged, at, found>>

\* The process dies, or raises; what it has not committed is undone.
Crash(p) ==
  /\ pc[p] \notin Ended
  /\ pc' = [pc EXCEPT ![p] = "idle"]
  /\ writer' = IF writer = p THEN None ELSE writer
  /\ UNCHANGED <<db, staged, at, found>>

\* The first transaction of a save, by a client whose turn has a session.
Save(s) ==
  /\ Ready /\ writer = None
  /\ session[s] = "none"
  /\ session' = [session EXCEPT ![s] = "real"]
  /\ UNCHANGED <<made, column, writer, staged, local>>

Proceed(p) ==
  \/ Create(p) \/ TableInfo(p) \/ Alter(p) \/ Update(p) \/ CreateIndex(p) \/ Commit(p)
  \/ Locked(p)

Next ==
  \/ \E p \in Inits : Begin(p) \/ Proceed(p) \/ Crash(p)
  \/ \E s \in Rows : Save(s)

Spec == Init /\ [][Next]_vars

\* A running init goes on: its next statement runs, or has waited long enough.
FairSpec == Spec /\ \A p \in Inits : WF_vars(Proceed(p))
-----------------------------------------------------------------------------
(* Properties                                                               *)

Sessions == {"none", "null", "turn", "real"}

\* The shape of the state; the lock is held inside the back-fill only.
TypeOK ==
  /\ made \subseteq Tables \cup {Index} /\ column \in BOOLEAN
  /\ session \in [Rows -> Sessions] /\ staged \in [Rows -> Sessions]
  /\ writer \in Inits \cup {None}
  /\ pc \in [Inits -> Points] /\ at \in [Inits -> 1..Len(Script)]
  /\ found \in [Inits -> {"fresh", "old", "new"}]
  /\ \A p \in Inits : pc[p] \in {"index", "commit"} <=> writer = p

\* store.py:31-41, "re-running init_db on a partially-migrated DB never overwrites
\* real session ids", nor does it drop a row, whoever else migrates or saves.
RealSessionsStay ==
  [][\A s \in Rows : /\ session[s] = "real" => session'[s] = "real"
                     /\ session[s] # "none" => session'[s] # "none"]_vars

\* Once an init has returned, the migration is whole: every table and the index
\* are there and every slice has a session, also if the run before it died
\* between the column and its back-fill (store.py:31-66).
DoneIsWhole ==
  (\E p \in Inits : pc[p] = "done") =>
    /\ Ready /\ Index \in made
    /\ \A s \in Rows : session[s] # "null"

\* store.py:50-53, "safe to re-run on a fresh or already-migrated DB": the column
\* is added twice only where two runs found a database without it.
SafeToRerun == \A p \in Inits : pc[p] = "duplicate" => found[p] = "old"

\* Every run of init ends.
InitEnds == \A p \in Inits : pc[p] \notin Ended ~> pc[p] \in Ended
=============================================================================
