--------------------------- MODULE MigrationProofs ---------------------------
(***************************************************************************)
(* What the migration guarantees for any number of inits and slices, and   *)
(* any interleaving with saves, deaths and lock timeouts.                  *)
(***************************************************************************)
EXTENDS Migration, TLAPS

\* An init past the script has seen all its tables made; within it, those
\* before the next one.
TablesMade ==
  \A p \in Inits :
    /\ pc[p] = "script" => \A n \in 1..at[p] - 1 : Script[n] \in made
    /\ pc[p] \in {"table_info", "alter", "update", "index", "commit", "done"} => Tables \subseteq made

\* Who found the column, made the table with it, or added it, has it; who goes
\* to add it found an old database.
ColumnSeen ==
  /\ column => "slices" \in made
  /\ \A p \in Inits :
       /\ pc[p] \notin Ended /\ found[p] = "fresh" => ("slices" \in made => column)
       /\ pc[p] \notin Ended /\ found[p] = "new" => column
       /\ pc[p] \in {"alter", "duplicate"} => found[p] = "old"
       /\ pc[p] \in {"update", "index", "commit", "done"} => column

\* The open transaction is the back-fill of what is committed.
Filling == writer # None => staged = BackFill(session)

\* A run that has returned filled every row there was, and none came without.
Filled ==
  \A p \in Inits : pc[p] = "done" =>
    Index \in made /\ \A s \in Rows : session[s] # "null"

IInv == TypeOK /\ TablesMade /\ ColumnSeen /\ Filling /\ Filled

-----------------------------------------------------------------------------
LEMMA ScriptNames ==
  /\ Len(Script) = 5 /\ \A n \in 1..5 : Script[n] \in Tables
  /\ \A t \in Tables : \E n \in 1..5 : t = Script[n]
  /\ "slices" \in Tables /\ Index \notin Tables
  /\ \A n \in 1..5 : Script[n] = "slices" <=> n = 1
<1>1. Len(Script) = 5 /\ Script[1] = "slices" /\ Script[2] = "nodes" /\ Script[3] = "edges"
      /\ Script[4] = "embeddings_cache" /\ Script[5] = "vec_slices"
  BY DEF Script
<1>2. \A n \in 1..5 : n = 1 \/ n = 2 \/ n = 3 \/ n = 4 \/ n = 5 OBVIOUS
<1> QED BY <1>1, <1>2 DEF Tables, Index

LEMMA BackFilled ==
  ASSUME NEW rows \in [Rows -> Sessions]
  PROVE  /\ BackFill(rows) \in [Rows -> Sessions]
         /\ \A s \in Rows : /\ BackFill(rows)[s] # "null"
                            /\ rows[s] = "real" => BackFill(rows)[s] = "real"
                            /\ rows[s] # "none" => BackFill(rows)[s] # "none"
  BY DEF BackFill, Sessions

LEMMA InitIInv == Init => IInv
<1> SUFFICES ASSUME Init PROVE IInv OBVIOUS
<1>1. session \in [Rows -> Sessions] /\ made \subseteq Tables
  BY DEF Init, Sessions
<1> QED BY <1>1, ScriptNames, MigrationAssumption
        DEF Init, IInv, TypeOK, TablesMade, ColumnSeen, Filling, Filled, Ended, Points

\* The steps of an init before it takes the lock.
LEMMA ScriptSteps ==
  ASSUME IInv, NEW p \in Inits, Begin(p) \/ Create(p) \/ TableInfo(p) \/ Alter(p)
  PROVE  IInv'
<1> USE DEF IInv, TypeOK, TablesMade, ColumnSeen, Filling, Filled, db, Go, Ended, Points
<1>0. at[p] \in 1..5 /\ Len(Script) = 5 BY ScriptNames
<1>1. CASE Begin(p) BY <1>0, <1>1, ScriptNames DEF Begin, What
<1>2. CASE Create(p)
  <2> DEFINE name == Script[at[p]]
  <2>1. name \in Tables BY <1>0, ScriptNames
  <2>2. /\ pc[p] = "script" /\ made' = made \cup {name}
        /\ column' = (column \/ (name = "slices" /\ name \notin made))
        /\ pc' = [pc EXCEPT ![p] = IF at[p] = 5 THEN "table_info" ELSE "script"]
        /\ at' = [at EXCEPT ![p] = IF at[p] = 5 THEN 1 ELSE at[p] + 1]
        /\ UNCHANGED <<session, writer, staged, found>>
    BY <1>0, <1>2 DEF Create
  <2>3. \A n \in 1..at[p] : Script[n] \in made' BY <1>0, <2>2
  <2>4. TablesMade'
    <3>1. at[p] = 5 => Tables \subseteq made' BY <2>3, ScriptNames
    <3>2. ASSUME NEW q \in Inits, q # p
          PROVE  /\ pc'[q] = "script" => \A n \in 1..at'[q] - 1 : Script[n] \in made'
                 /\ pc'[q] \in {"table_info", "alter", "update", "index", "commit", "done"}
                      => Tables \subseteq made'
      BY <2>2, <3>2
    <3>3. /\ pc'[p] = "script" => \A n \in 1..at'[p] - 1 : Script[n] \in made'
          /\ pc'[p] \in {"table_info", "alter", "update", "index", "commit", "done"}
               => Tables \subseteq made'
      BY <1>0, <2>2, <2>3, <3>1
    <3> QED BY <3>2, <3>3
  <2>5. TypeOK'
    <3>1. at' \in [Inits -> 1..5] BY <1>0, <2>2
    <3> QED BY <1>0, <2>1, <2>2, <3>1
  <2>6. ColumnSeen'
    <3>1. ("slices" \in made => column) => ("slices" \in made' => column') BY <2>2
    <3>2. column' => "slices" \in made' BY <2>2
    <3> QED BY <2>2, <3>1, <3>2
  <2> QED BY <2>2, <2>4, <2>5, <2>6
<1>3. CASE TableInfo(p)
  <2>1. "slices" \in made BY <1>3, ScriptNames DEF TableInfo
  <2> QED BY <1>3, <2>1 DEF TableInfo
<1>4. CASE Alter(p)
  <2>1. "slices" \in made BY <1>4, ScriptNames DEF Alter
  <2> QED BY <1>4, <2>1 DEF Alter
<1> QED BY <1>1, <1>2, <1>3, <1>4

\* The back-fill.
LEMMA FillSteps ==
  ASSUME IInv, NEW p \in Inits, Update(p) \/ CreateIndex(p) \/ Commit(p)
  PROVE  IInv'
<1> USE DEF IInv, TypeOK, db, Go, Ended, Points
<1>1. CASE Update(p)
  <2>1. BackFill(session) \in [Rows -> Sessions] BY BackFilled
  <2> QED BY <1>1, <2>1, MigrationAssumption DEF Update, TablesMade, ColumnSeen, Filling, Filled
<1>2. CASE CreateIndex(p)
  BY <1>2 DEF CreateIndex, TablesMade, ColumnSeen, Filling, Filled
<1>3. CASE Commit(p)
  <2>1. writer = p /\ writer # None BY <1>3, MigrationAssumption DEF Commit
  <2>2. session' = BackFill(session) /\ session' \in [Rows -> Sessions]
        /\ \A s \in Rows : session'[s] # "null"
    BY <1>3, <2>1, BackFilled DEF Commit, Filling
  <2>3. TypeOK'
    BY <1>3, <2>1, <2>2, MigrationAssumption DEF Commit
  <2>4. TablesMade' /\ ColumnSeen' BY <1>3 DEF Commit, TablesMade, ColumnSeen
  <2> QED BY <1>3, <2>2, <2>3, <2>4 DEF Commit, Filling, Filled
<1> QED BY <1>1, <1>2, <1>3

\* Ends of a run, and what other clients do.
LEMMA OtherSteps ==
  ASSUME IInv, (\E p \in Inits : Locked(p) \/ Crash(p)) \/ (\E s \in Rows : Save(s)) \/ UNCHANGED vars
  PROVE  IInv'
<1> USE DEF IInv, TypeOK, db, local, Ended, Points
<1>1. ASSUME NEW p \in Inits, Locked(p) PROVE IInv'
  BY <1>1, MigrationAssumption DEF Locked, Waits, TablesMade, ColumnSeen, Filling, Filled
<1>2. ASSUME NEW p \in Inits, Crash(p) PROVE IInv'
  BY <1>2, MigrationAssumption DEF Crash, TablesMade, ColumnSeen, Filling, Filled
<1>3. ASSUME NEW s \in Rows, Save(s) PROVE IInv'
  BY <1>3, MigrationAssumption DEF Save, TablesMade, ColumnSeen, Filling, Filled, Sessions
<1>4. CASE UNCHANGED vars
  BY <1>4 DEF vars, TablesMade, ColumnSeen, Filling, Filled
<1> QED BY <1>1, <1>2, <1>3, <1>4

LEMMA IInvKept == IInv /\ [Next]_vars => IInv'
  BY ScriptSteps, FillSteps, OtherSteps DEF Next, Proceed

LEMMA IInvAlways == Spec => []IInv
  BY InitIInv, IInvKept, PTL DEF Spec

\* The state keeps its shape, and only the back-fill holds the lock (TypeOK).
THEOREM MigrationTypes == Spec => []TypeOK
<1>1. IInv => TypeOK BY DEF IInv
<1> QED BY <1>1, IInvAlways, PTL

\* A run of init that returns leaves the migration whole (DoneIsWhole).
THEOREM MigrationCompletes == Spec => []DoneIsWhole
<1>1. IInv => DoneIsWhole
  BY DEF IInv, DoneIsWhole, Ready, TablesMade, ColumnSeen, Filled
<1> QED BY <1>1, IInvAlways, PTL

\* A run that finds the column, or no table, never adds it twice (SafeToRerun).
THEOREM RerunsAreSafe == Spec => []SafeToRerun
<1>1. IInv => SafeToRerun BY DEF IInv, SafeToRerun, ColumnSeen
<1> QED BY <1>1, IInvAlways, PTL

\* No init, first or repeated, touches a session that a save gave
\* (RealSessionsStay).
THEOREM RealSessionsAreFinal == Spec => RealSessionsStay
<1> DEFINE Stay == \A s \in Rows : /\ session[s] = "real" => session'[s] = "real"
                                   /\ session[s] # "none" => session'[s] # "none"
<1>1. IInv /\ [Next]_vars => [Stay]_vars
  <2> SUFFICES ASSUME IInv, Next PROVE Stay OBVIOUS
  <2>1. ASSUME NEW p \in Inits, Commit(p) PROVE Stay
    <3>1. session' = BackFill(session)
      BY <2>1, MigrationAssumption DEF Commit, Go, IInv, TypeOK, Filling
    <3> QED BY <3>1, BackFilled DEF IInv, TypeOK
  <2>2. ASSUME NEW s \in Rows, Save(s) PROVE Stay
    BY <2>2 DEF Save, IInv, TypeOK
  <2>3. CASE UNCHANGED session BY <2>3
  <2>4. Next => UNCHANGED session \/ (\E p \in Inits : Commit(p)) \/ (\E s \in Rows : Save(s))
    BY DEF Next, Proceed, Begin, Create, TableInfo, Alter, Update, CreateIndex, Locked, Crash, db
  <2> QED BY <2>1, <2>2, <2>3, <2>4
<1> QED BY <1>1, IInvAlways, PTL DEF Spec, RealSessionsStay
=============================================================================
