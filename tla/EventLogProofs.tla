--------------------------- MODULE EventLogProofs ---------------------------
(***************************************************************************)
(* What EventLog guarantees for any number of processes, events, days and  *)
(* short writes.                                                           *)
(***************************************************************************)
EXTENDS EventLog, FoldProofs, SequenceTheorems, FiniteSetTheorems, TLAPS

\* A turn that has its answer paid for it.
Charged == \A p \in Procs : pc[p] = "close" => spent[turn[p]] \in Spends

TypeInv == TypeOK /\ Charged

-----------------------------------------------------------------------------
(* Shape *)

\* A line can be handed to append if it is one of the records.
LEMMA LinesAreRecords ==
  ASSUME NEW i \in Ids
  PROVE  /\ OpenLine(i) \in Records /\ NoteLine(i) \in Records
         /\ \A d \in 0..MaxDay, u \in Spends : CloseLine(i, d, u) \in Records
  BY DEF OpenLine, NoteLine, CloseLine, Records

\* A line is not None once it is a record.
LEMMA LineIsRecord ==
  ASSUME TypeInv, NEW p \in Procs, line[p] # None
  PROVE  line[p] \in Records /\ line[p] \in asked
  BY DEF TypeInv, TypeOK

LEMMA PieceType ==
  ASSUME NEW r \in Records, NEW from \in {"start", "later"}, NEW to \in Cuts \cup {"newline"}
  PROVE  /\ Piece(r, from, to) \in Pieces
         /\ Piece(r, from, to).rec = r
         /\ Piece(r, from, to).from = from /\ Piece(r, from, to).to = to
  BY DEF Piece, Pieces

\* The pieces before the end stay, and the new one is the last.
LEMMA Appended ==
  ASSUME NEW f \in Seq(Pieces), NEW x \in Pieces
  PROVE  /\ Len(f) \in Nat /\ Len(Append(f, x)) = Len(f) + 1
         /\ \A j \in 1..Len(f) : Append(f, x)[j] = f[j]
         /\ Append(f, x)[Len(f) + 1] = x
         /\ Append(f, x) \in Seq(Pieces)
  BY AppendProperties, LenProperties

\* A piece appended to the file leaves the shape of the file.
LEMMA FileGrows ==
  ASSUME NEW f \in Seq(Pieces), NEW A, \A j \in 1..Len(f) : f[j].rec \in A,
         NEW x \in Pieces, x.rec \in A
  PROVE  /\ Append(f, x) \in Seq(Pieces)
         /\ \A j \in 1..Len(Append(f, x)) : Append(f, x)[j].rec \in A
  BY Appended

\* How many pieces of a kind were cut is a number.
LEMMA CutsAreCounted ==
  ASSUME NEW f \in Seq(Pieces), NEW from
  PROVE  IsFiniteSet(CutsIn(f)) /\ Cut(f, from) \in Nat
<1>1. Len(f) \in Int BY LenProperties
<1>2. IsFiniteSet(1..Len(f)) BY <1>1, 1 \in Int, FS_Interval
<1>3. IsFiniteSet(CutsIn(f)) BY <1>2, CutsIn(f) \in SUBSET (1..Len(f)), FS_Subset DEF CutsIn
<1> DEFINE S == {j \in CutsIn(f) : f[j].from = from}
<1>4. S \in SUBSET CutsIn(f) OBVIOUS
<1> HIDE DEF S
<1>5. Cardinality(S) \in Nat BY <1>3, <1>4, FS_Subset, FS_CardinalityType
<1> QED BY <1>3, <1>5 DEF Cut, S

LEMMA InitTypes == Init => TypeInv
<1> SUFFICES ASSUME Init PROVE TypeInv OBVIOUS
<1>1. file \in Seq(Pieces) /\ Len(file) = 0 BY DEF Init
<1> QED BY <1>1, LogAssumption DEF Init, TypeInv, TypeOK, Charged

LEMMA StampTypes ==
  ASSUME TypeInv, NEW p \in Procs, NEW r \in Records, Stamp(p, r)
  PROVE  /\ file' \in Seq(Pieces) /\ \A j \in 1..Len(file') : file'[j].rec \in asked'
         /\ DOMAIN line' = Procs /\ \A q \in Procs : line'[q] # None => line'[q] \in asked'
         /\ left' \in [Procs -> {"all", "rest", "newline"}]
         /\ asked' \subseteq Records /\ written' \subseteq asked'
  BY DEF Stamp, TypeInv, TypeOK

LEMMA DoneTypes ==
  ASSUME TypeInv, NEW p \in Procs, Done(p)
  PROVE  /\ DOMAIN line' = Procs /\ \A q \in Procs : line'[q] # None => line'[q] \in asked
         /\ left' \in [Procs -> {"all", "rest", "newline"}]
  BY DEF Done, TypeInv, TypeOK

\* What a step of append writes: one piece of the line it is appending.
LEMMA Writes ==
  ASSUME TypeInv, NEW p \in Procs, WriteLine(p) \/ WriteShort(p) \/ WriteRest(p)
  PROVE  \E x \in Pieces : file' = Append(file, x) /\ x.rec = line[p] /\ line[p] \in asked
<1>1. line[p] \in Records /\ line[p] \in asked
  BY LineIsRecord DEF WriteLine, WriteShort, WriteRest
<1>2. From(p) \in {"start", "later"} BY DEF From
<1>3. \E from \in {"start", "later"}, to \in Cuts \cup {"newline"} :
        file' = Append(file, Piece(line[p], from, to))
  BY <1>2 DEF WriteLine, WriteShort, WriteRest
<1> QED BY <1>1, <1>3, PieceType

LEMMA AppendTypes ==
  ASSUME TypeInv, NEW p \in Procs, Appends(p)
  PROVE  TypeInv'
<1> USE DEF TypeInv, TypeOK, Charged, history
<1>1. CASE WriteLine(p) \/ WriteShort(p) \/ WriteRest(p)
  <2>1. PICK x \in Pieces : file' = Append(file, x) /\ x.rec = line[p] /\ line[p] \in asked
    BY <1>1, Writes
  <2>2. file' \in Seq(Pieces) /\ \A j \in 1..Len(file') : file'[j].rec \in asked
    BY <2>1, FileGrows
  <2>3. asked' = asked /\ UNCHANGED <<day, pc, turn, since, called, spent>>
    BY <1>1 DEF WriteLine, WriteShort, WriteRest
  <2>4. /\ DOMAIN line' = Procs /\ \A q \in Procs : line'[q] # None => line'[q] \in asked
        /\ left' \in [Procs -> {"all", "rest", "newline"}]
        /\ written' \subseteq asked
    BY <1>1, <2>1, DoneTypes DEF WriteLine, WriteShort, WriteRest
  <2> QED BY <2>2, <2>3, <2>4
<1>4. CASE GiveUp(p)
  BY <1>4, DoneTypes DEF GiveUp
<1> QED BY <1>1, <1>4 DEF Appends

LEMMA TurnTypes ==
  ASSUME TypeInv, NEW p \in Procs, Turns(p) \/ Note(p) \/ Crash(p)
  PROVE  TypeInv'
<1> USE LogAssumption DEF TypeInv, TypeOK, Charged, history, log, Go
<1>1. CASE Open(p)
  <2>1. PICK i \in Unused : turn' = [turn EXCEPT ![p] = i] /\ Stamp(p, OpenLine(i))
    BY <1>1 DEF Open
  <2>2. i \in Ids BY DEF Unused
  <2> QED BY <1>1, <2>1, <2>2, StampTypes, LinesAreRecords DEF Open
<1>2. CASE TodayStart(p) BY <1>2 DEF TodayStart
<1>3. CASE Call(p) BY <1>3 DEF Call
<1>4. CASE Refuse(p) BY <1>4 DEF Refuse
<1>5. CASE Answer(p) BY <1>5 DEF Answer
<1>6. CASE Close(p)
  <2>1. turn[p] \in Ids /\ spent[turn[p]] \in Spends BY <1>6 DEF Close
  <2>2. CloseLine(turn[p], day, spent[turn[p]]) \in Records BY <2>1, LinesAreRecords
  <2> QED BY <1>6, <2>2, StampTypes DEF Close
<1>7. CASE Note(p)
  <2>1. PICK i \in Unused : Stamp(p, NoteLine(i)) BY <1>7 DEF Note
  <2>2. i \in Ids BY DEF Unused
  <2> QED BY <1>7, <2>1, <2>2, StampTypes, LinesAreRecords DEF Note
<1>8. CASE Crash(p) BY <1>8, DoneTypes DEF Crash
<1> QED BY <1>1, <1>2, <1>3, <1>4, <1>5, <1>6, <1>7, <1>8 DEF Turns

LEMMA TypesKept == TypeInv /\ [Next]_vars => TypeInv'
<1> SUFFICES ASSUME TypeInv, [Next]_vars PROVE TypeInv' OBVIOUS
<1>1. CASE UNCHANGED vars
  BY <1>1 DEF vars, history, TypeInv, TypeOK, Charged
<1>2. CASE Midnight
  <2>1. Cut(file, "later") \in Nat BY CutsAreCounted DEF TypeInv, TypeOK
  <2>2. day \in 0..MaxDay /\ day' = day + 1 /\ day + Cut(file, "later") < MaxDay
    BY <1>2 DEF Midnight, TypeInv, TypeOK
  <2>3. day' \in 0..MaxDay BY <2>1, <2>2, LogAssumption
  <2> QED BY <1>2, <2>3 DEF Midnight, log, TypeInv, TypeOK, Charged
<1> QED BY <1>1, <1>2, AppendTypes, TurnTypes DEF Next

\* The state keeps its shape (TypeOK).
THEOREM LogTypes == Spec => []TypeOK
<1>1. TypeInv => TypeOK BY DEF TypeInv
<1> QED BY <1>1, InitTypes, TypesKept, PTL DEF Spec

-----------------------------------------------------------------------------
(* The promise *)

\* One record from j to k: more pieces at the end do not change that.
LEMMA OneRecordStays ==
  ASSUME NEW f \in Seq(Pieces), NEW x \in Pieces, NEW j \in 1..Len(f), NEW k \in j..Len(f)
  PROVE  OneRecord(Append(f, x), j, k) <=> OneRecord(f, j, k)
<1> DEFINE g == Append(f, x)
<1>1. Len(f) \in Nat /\ \A i \in 1..Len(f) : g[i] = f[i]
  BY Appended
<1> HIDE DEF g
<1>2. g[j] = f[j] /\ \A i \in j..k : i \in 1..Len(f) /\ g[i] = f[i]
  BY <1>1
<1>3. j # 1 => j - 1 \in 1..Len(f) /\ g[j - 1] = f[j - 1]
  BY <1>1
<1>4. OneRecord(g, j, k) <=> OneRecord(f, j, k)
  BY <1>2, <1>3 DEF OneRecord, StartsLine
<1> QED BY <1>4 DEF g

\* A line that is intact stays so.
LEMMA IntactStays ==
  ASSUME NEW f \in Seq(Pieces), NEW x \in Pieces, NEW j \in 1..Len(f), Intact(f, j)
  PROVE  Intact(Append(f, x), j)
<1>1. PICK k \in j..Len(f) : EndsLine(f[k]) /\ OneRecord(f, j, k)
  BY DEF Intact
<1>2. OneRecord(Append(f, x), j, k)
  BY <1>1, OneRecordStays
<1>3. /\ Len(f) \in Nat /\ Len(Append(f, x)) = Len(f) + 1
      /\ \A i \in 1..Len(f) : Append(f, x)[i] = f[i]
  BY Appended
<1>4. k \in j..Len(Append(f, x)) /\ Append(f, x)[k] = f[k]
  BY <1>3
<1> QED BY <1>1, <1>2, <1>4 DEF Intact

\* The only line a new piece can complete is that of its own record.
LEMMA NewlyIntact ==
  ASSUME NEW f \in Seq(Pieces), NEW x \in Pieces, NEW j \in 1..Len(f) + 1,
         Intact(Append(f, x), j)
  PROVE  \/ j \in 1..Len(f) /\ Intact(f, j)
         \/ /\ EndsLine(x) /\ OneRecord(Append(f, x), j, Len(f) + 1)
            /\ Append(f, x)[j].rec = x.rec
<1>1. /\ Len(f) \in Nat /\ Len(Append(f, x)) = Len(f) + 1
      /\ \A i \in 1..Len(f) : Append(f, x)[i] = f[i]
      /\ Append(f, x)[Len(f) + 1] = x
  BY Appended
<1>2. PICK k \in j..Len(Append(f, x)) :
        EndsLine(Append(f, x)[k]) /\ OneRecord(Append(f, x), j, k)
  BY DEF Intact
<1>3. CASE k = Len(f) + 1
  <2>1. k \in j..k BY <1>1, <1>3
  <2>2. x.rec = Append(f, x)[j].rec BY <1>1, <1>2, <1>3, <2>1 DEF OneRecord
  <2> QED BY <1>1, <1>2, <1>3, <2>2
<1>4. CASE k \in j..Len(f)
  <2>1. j \in 1..Len(f) /\ Append(f, x)[k] = f[k] BY <1>1, <1>4
  <2>2. OneRecord(f, j, k) BY <1>2, <1>4, <2>1, OneRecordStays
  <2> QED BY <1>2, <1>4, <2>1, <2>2 DEF Intact
<1> QED BY <1>1, <1>3, <1>4

\* A line that hangs at the end is of one record with what completes a line.
LEMMA HangsOn ==
  ASSUME NEW f \in Seq(Pieces), NEW x \in Pieces, NEW j \in 1..Len(f) + 1,
         OneRecord(Append(f, x), j, Len(f) + 1)
  PROVE  LastLine(f) \subseteq {x.rec}
<1> SUFFICES ASSUME NEW k \in 1..Len(f), Hanging(f, k) PROVE f[k].rec = x.rec
  BY DEF LastLine
<1>1. /\ Len(f) \in Nat /\ \A i \in 1..Len(f) : Append(f, x)[i] = f[i]
      /\ Append(f, x)[Len(f) + 1] = x
  BY Appended
<1>2. Len(f) \in k..Len(f) /\ Len(f) \in 1..Len(f) /\ Len(f) + 1 # 1 /\ (Len(f) + 1) - 1 = Len(f)
  BY <1>1
<1>3. f[Len(f)].rec = f[k].rec /\ f[Len(f)].to = "body"
  BY <1>2 DEF Hanging, OneRecord
<1>4. j # Len(f) + 1
  BY <1>1, <1>2, <1>3 DEF OneRecord, StartsLine, EndsLine
<1>5. Len(f) \in j..Len(f) + 1 /\ Len(f) + 1 \in j..Len(f) + 1
  BY <1>1, <1>4
<1>6. Append(f, x)[Len(f)].rec = Append(f, x)[Len(f) + 1].rec
  BY <1>5 DEF OneRecord
<1> QED BY <1>1, <1>2, <1>3, <1>6

\* What a piece adds to the lines of their own: its record, or nothing.
LEMMA WholeGrows ==
  ASSUME NEW f \in Seq(Pieces), NEW x \in Pieces
  PROVE  \/ Whole(Append(f, x)) = Whole(f)
         \/ /\ Whole(Append(f, x)) = Whole(f) \cup {x.rec}
            /\ EndsLine(x) /\ LastLine(f) \subseteq {x.rec}
<1> DEFINE g == Append(f, x)
<1>1. /\ Len(f) \in Nat /\ Len(g) = Len(f) + 1 /\ \A k \in 1..Len(f) : g[k] = f[k]
  BY Appended
<1>2. Whole(f) \subseteq Whole(g)
  <2> SUFFICES ASSUME NEW j \in 1..Len(f), Intact(f, j) PROVE f[j].rec \in Whole(g)
    BY DEF Whole
  <2>1. Intact(g, j) BY IntactStays
  <2>2. j \in 1..Len(g) /\ g[j] = f[j] BY <1>1
  <2> QED BY <2>1, <2>2 DEF Whole
<1>3. CASE \A j \in 1..Len(g) : Intact(g, j) => g[j].rec \in Whole(f)
  <2>1. Whole(g) \subseteq Whole(f) BY <1>3 DEF Whole
  <2> QED BY <1>2, <2>1
<1>4. ASSUME NEW j \in 1..Len(g), Intact(g, j), g[j].rec \notin Whole(f)
      PROVE  /\ Whole(g) = Whole(f) \cup {x.rec}
             /\ EndsLine(x) /\ LastLine(f) \subseteq {x.rec}
  <2>1. j \in 1..Len(f) + 1 BY <1>1
  <2>2. ~(j \in 1..Len(f) /\ Intact(f, j)) BY <1>1, <1>4 DEF Whole
  <2>3. EndsLine(x) /\ OneRecord(g, j, Len(f) + 1) /\ g[j].rec = x.rec
    BY <1>4, <2>1, <2>2, NewlyIntact
  <2>4. LastLine(f) \subseteq {x.rec} BY <2>1, <2>3, HangsOn
  <2>5. x.rec \in Whole(g) BY <1>4, <2>3 DEF Whole
  <2>6. ASSUME NEW k \in 1..Len(g), Intact(g, k) PROVE g[k].rec \in Whole(f) \cup {x.rec}
    <3>1. k \in 1..Len(f) + 1 BY <1>1
    <3>2. (k \in 1..Len(f) /\ Intact(f, k)) \/ g[k].rec = x.rec BY <2>6, <3>1, NewlyIntact
    <3> QED BY <1>1, <3>2 DEF Whole
  <2>7. Whole(g) \subseteq Whole(f) \cup {x.rec} BY <2>6 DEF Whole
  <2> QED BY <1>2, <2>3, <2>4, <2>5, <2>7
<1> QED BY <1>3, <1>4

\* A line that hangs after a piece is the piece's.
LEMMA LastLineGrows ==
  ASSUME NEW f \in Seq(Pieces), NEW x \in Pieces
  PROVE  /\ LastLine(Append(f, x)) \subseteq {x.rec}
         /\ x.to # "body" => LastLine(Append(f, x)) = {}
         /\ LastLine(Append(f, x)) # {} => LastLine(f) \subseteq {x.rec}
<1>1. /\ Len(f) \in Nat /\ Len(Append(f, x)) = Len(f) + 1
      /\ Append(f, x)[Len(f) + 1] = x
  BY Appended
<1>2. ASSUME NEW j \in 1..Len(Append(f, x)), Hanging(Append(f, x), j)
      PROVE  /\ Append(f, x)[j].rec = x.rec /\ x.to = "body"
             /\ LastLine(f) \subseteq {x.rec}
  <2>1. OneRecord(Append(f, x), j, Len(f) + 1) /\ x.to = "body"
    BY <1>1, <1>2 DEF Hanging
  <2>2. j \in 1..Len(f) + 1 /\ Len(f) + 1 \in j..Len(f) + 1 BY <1>1
  <2>3. Append(f, x)[j].rec = x.rec BY <1>1, <2>1, <2>2 DEF OneRecord
  <2> QED BY <2>1, <2>2, <2>3, HangsOn
<1> QED BY <1>2 DEF LastLine

\* A piece tears the file if it is torn itself, and for good if it is not the
\* rest that was missing.
LEMMA TornGrows ==
  ASSUME NEW f \in Seq(Pieces), NEW x \in Pieces
  PROVE  /\ Torn(Append(f, x)) = IF x.to = "torn" THEN {x.rec} ELSE {}
         /\ TornForGood(Append(f, x)) <=> TornForGood(f) \/ ~(Torn(f) \subseteq {x.rec})
<1> DEFINE g == Append(f, x)
<1>1. /\ Len(f) \in Nat /\ Len(g) = Len(f) + 1
      /\ \A k \in 1..Len(f) : g[k] = f[k]
      /\ g[Len(f) + 1] = x
  BY Appended
<1> HIDE DEF g
<1>2. Torn(g) = IF x.to = "torn" THEN {x.rec} ELSE {}
  BY <1>1 DEF Torn
<1>3. TornForGood(f) => TornForGood(g)
  <2> SUFFICES ASSUME NEW j \in 1..Len(f), j < Len(f), f[j].to = "torn", f[j + 1].rec # f[j].rec
               PROVE  TornForGood(g)
    BY DEF TornForGood
  <2>1. j \in 1..Len(g) /\ j < Len(g) /\ g[j] = f[j] /\ g[j + 1] = f[j + 1]
    BY <1>1
  <2> QED BY <2>1 DEF TornForGood
<1>4. ASSUME ~(Torn(f) \subseteq {x.rec}) PROVE TornForGood(g)
  <2>1. Len(f) \in 1..Len(f) /\ f[Len(f)].to = "torn" /\ f[Len(f)].rec # x.rec
    BY <1>4 DEF Torn
  <2>2. /\ Len(f) \in 1..Len(g) /\ Len(f) < Len(g) /\ g[Len(f)] = f[Len(f)]
        /\ g[Len(f) + 1] = x
    BY <1>1, <2>1
  <2> QED BY <2>1, <2>2 DEF TornForGood
<1>5. ASSUME TornForGood(g) PROVE TornForGood(f) \/ ~(Torn(f) \subseteq {x.rec})
  <2>1. PICK j \in 1..Len(g) : j < Len(g) /\ g[j].to = "torn" /\ g[j + 1].rec # g[j].rec
    BY <1>5 DEF TornForGood
  <2>2. CASE j = Len(f)
    <3>1. j \in 1..Len(f) /\ f[j].to = "torn" /\ f[j].rec # x.rec BY <1>1, <2>1, <2>2
    <3>2. f[j].rec \in Torn(f) BY <2>2, <3>1 DEF Torn
    <3> QED BY <3>1, <3>2
  <2>3. CASE j < Len(f)
    <3>1. j \in 1..Len(f) /\ j + 1 \in 1..Len(f) BY <1>1, <2>3
    <3> QED BY <1>1, <2>1, <2>3, <3>1 DEF TornForGood
  <2> QED BY <1>1, <2>1, <2>2, <2>3
<1>6. TornForGood(g) <=> TornForGood(f) \/ ~(Torn(f) \subseteq {x.rec})
  BY <1>3, <1>4, <1>5
<1> QED BY <1>2, <1>6 DEF g

\* The records in the file are among those handed to append.
LEMMA InTheFile ==
  ASSUME NEW f \in Seq(Pieces), NEW A, \A j \in 1..Len(f) : f[j].rec \in A
  PROVE  Whole(f) \cup LastLine(f) \cup Torn(f) \subseteq A
  BY DEF Whole, LastLine, Torn

\* A reader of EventLog finds what the promise says is found.
LEMMA ReadersFind == Promised!Found = Read(file)
  BY DEF Promised!Found, Read, LinesRead, Undecodable, Whole, LastLine

LEMMA PromiseStart == Init => Promised!LogInit
<1> SUFFICES ASSUME Init PROVE Promised!LogInit OBVIOUS
<1>1. Len(file) = 0 /\ asked = {} BY DEF Init
<1>2. TornForGood(file) = FALSE BY <1>1 DEF TornForGood
<1> QED BY <1>1, <1>2 DEF Promised!LogInit, Whole, LastLine, Torn

\* What the promise speaks of depends on the file alone.
LEMMA SeenInFile ==
  ASSUME file' = file
  PROVE  UNCHANGED <<Whole(file), LastLine(file), Torn(file), TornForGood(file)>>
  BY DEF Whole, LastLine, Torn, TornForGood, Intact, Hanging, OneRecord, StartsLine, EndsLine

LEMMA NewFile ==
  /\ Whole(file)' = Whole(file') /\ LastLine(file)' = LastLine(file')
  /\ Torn(file)' = Torn(file') /\ TornForGood(file)' = TornForGood(file')
  BY DEF Whole, LastLine, Torn, TornForGood, Intact, Hanging, OneRecord, StartsLine, EndsLine

\* A piece at the end of the file is a step of the promise.
LEMMA PieceShows ==
  ASSUME NEW x \in Pieces, TypeInv, x.rec \in asked,
         file' = Append(file, x), asked' = asked
  PROVE  Promised!LogNext
<1>0. file \in Seq(Pieces) /\ \A j \in 1..Len(file) : file[j].rec \in asked
  BY DEF TypeInv, TypeOK
<1> DEFINE g == Append(file, x)
<1>1. /\ Whole(file)' = Whole(g) /\ LastLine(file)' = LastLine(g)
      /\ Torn(file)' = Torn(g) /\ TornForGood(file)' = TornForGood(g)
  BY NewFile
<1>2. /\ Torn(g) = IF x.to = "torn" THEN {x.rec} ELSE {}
      /\ TornForGood(g) <=> TornForGood(file) \/ ~(Torn(file) \subseteq {x.rec})
  BY <1>0, TornGrows
<1>3. /\ LastLine(g) \subseteq {x.rec} /\ (x.to # "body" => LastLine(g) = {})
      /\ LastLine(g) # {} => LastLine(file) \subseteq {x.rec}
  BY <1>0, LastLineGrows
<1>4. \/ Whole(g) = Whole(file)
      \/ /\ Whole(g) = Whole(file) \cup {x.rec}
         /\ EndsLine(x) /\ LastLine(file) \subseteq {x.rec}
  BY <1>0, WholeGrows
<1>5. Whole(g) \cup LastLine(g) \cup Torn(g) \subseteq asked
  <2>1. g \in Seq(Pieces) /\ \A j \in 1..Len(g) : g[j].rec \in asked BY <1>0, FileGrows
  <2> HIDE DEF g
  <2> QED BY <2>1, InTheFile
<1> HIDE DEF g
<1>6. CASE TornForGood(file) \/ ~(Torn(file) \subseteq {x.rec})
  <2>1. TornForGood(g) = TRUE BY <1>2, <1>6 DEF TornForGood
  <2>2. TornForGood(file) \/ Torn(file) # {} BY <1>6
  <2>3. Promised!Lose BY <1>1, <1>5, <2>1, <2>2 DEF Promised!Lose
  <2> QED BY <2>3 DEF Promised!LogNext
<1>7. CASE ~TornForGood(file) /\ Torn(file) \subseteq {x.rec}
  <2>1. TornForGood(g) = TornForGood(file) BY <1>2, <1>7 DEF TornForGood
  <2>2. Promised!MayFollow(x.rec) BY <1>7 DEF Promised!MayFollow
  <2>3. CASE x.to = "torn"
    <3>1. Whole(g) = Whole(file) /\ LastLine(g) = {} /\ Torn(g) = {x.rec}
      BY <1>2, <1>3, <1>4, <2>3 DEF EndsLine
    <3>2. Promised!Tear(x.rec) BY <1>1, <2>1, <2>2, <3>1 DEF Promised!Tear
    <3> QED BY <3>2 DEF Promised!LogNext
  <2>4. CASE x.to # "torn" /\ Whole(g) = Whole(file)
    <3>1. Promised!Hang(x.rec) BY <1>1, <1>2, <1>3, <2>1, <2>2, <2>4 DEF Promised!Hang
    <3> QED BY <3>1 DEF Promised!LogNext
  <2>5. CASE x.to # "torn" /\ Whole(g) # Whole(file)
    <3>1. /\ Whole(g) = Whole(file) \cup {x.rec} /\ LastLine(file) \subseteq {x.rec}
          /\ LastLine(g) = {} /\ Torn(g) = {}
      BY <1>2, <1>3, <1>4, <2>5 DEF EndsLine
    <3>2. Promised!Keep(x.rec) BY <1>1, <2>1, <2>2, <3>1 DEF Promised!Keep
    <3> QED BY <3>2 DEF Promised!LogNext
  <2> QED BY <2>3, <2>4, <2>5
<1> QED BY <1>6, <1>7

\* A step of append is one of the promise.
LEMMA AppendShows ==
  ASSUME TypeInv, NEW p \in Procs, Appends(p)
  PROVE  [Promised!LogNext]_Promised!lvars
<1>1. CASE GiveUp(p)
  BY <1>1, SeenInFile DEF GiveUp, history, Promised!lvars
<1>2. CASE WriteLine(p) \/ WriteShort(p) \/ WriteRest(p)
  <2>1. PICK x \in Pieces : file' = Append(file, x) /\ x.rec = line[p] /\ line[p] \in asked
    BY <1>2, Writes
  <2>2. asked' = asked BY <1>2 DEF WriteLine, WriteShort, WriteRest, history
  <2> QED BY <2>1, <2>2, PieceShows
<1> QED BY <1>1, <1>2 DEF Appends

LEMMA StampAsks ==
  ASSUME NEW p \in Procs, NEW r \in Records, Stamp(p, r)
  PROVE  Promised!LogNext
<1>1. file' = file /\ asked' = asked \cup {r}
  BY DEF Stamp
<1>2. Promised!Ask(r) /\ r \in asked' BY <1>1, SeenInFile DEF Promised!Ask
<1> QED BY <1>2 DEF Promised!LogNext

LEMMA TurnAsks ==
  ASSUME TypeInv, NEW p \in Procs, Turns(p) \/ Note(p) \/ Crash(p)
  PROVE  [Promised!LogNext]_Promised!lvars
<1>1. CASE Open(p)
  <2>1. PICK i \in Unused : Stamp(p, OpenLine(i)) BY <1>1 DEF Open
  <2> QED BY <2>1, StampAsks, LinesAreRecords DEF Unused
<1>2. CASE Note(p)
  <2>1. PICK i \in Unused : Stamp(p, NoteLine(i)) BY <1>2 DEF Note
  <2> QED BY <2>1, StampAsks, LinesAreRecords DEF Unused
<1>3. CASE Close(p)
  <2>1. turn[p] \in Ids /\ spent[turn[p]] \in Spends /\ day \in 0..MaxDay
    BY <1>3 DEF Close, Go, TypeInv, TypeOK, Charged
  <2> QED BY <1>3, <2>1, StampAsks, LinesAreRecords DEF Close
<1>4. CASE TodayStart(p) \/ Call(p) \/ Refuse(p) \/ Answer(p) \/ Crash(p)
  <2>1. UNCHANGED <<file, asked>>
    BY <1>4 DEF TodayStart, Call, Refuse, Answer, Crash, log, history
  <2> QED BY <2>1, SeenInFile DEF Promised!lvars
<1> QED BY <1>1, <1>2, <1>3, <1>4 DEF Turns

LEMMA PromiseStep ==
  TypeInv /\ [Next]_vars => [Promised!LogNext]_Promised!lvars
<1> SUFFICES ASSUME TypeInv, [Next]_vars PROVE [Promised!LogNext]_Promised!lvars
  OBVIOUS
<1>1. CASE Midnight \/ UNCHANGED vars
  <2>1. UNCHANGED <<file, asked>> BY <1>1 DEF Midnight, log, vars, history
  <2> QED BY <2>1, SeenInFile DEF Promised!lvars
<1> QED BY <1>1, AppendShows, TurnAsks DEF Next

\* Whatever is cut short or given up, a record on a line of its own is found for
\* good, unless a line is torn inside a character; and that only its own rest
\* mends (KeepsLogPromise).
THEOREM LogKeepsPromise == Spec => KeepsLogPromise
  BY InitTypes, TypesKept, PromiseStart, PromiseStep, PTL
     DEF Spec, KeepsLogPromise, Promised!LogSpec

-----------------------------------------------------------------------------
(* The damage of a short write *)

\* The first piece of r is in the file.
Begun(f, r) == \E j \in 1..Len(f) : f[j].rec = r /\ f[j].from = "start"

\* What was written, or half written, has begun in the file.
InFile ==
  /\ \A r \in written : Begun(file, r)
  /\ \A p \in Procs : left[p] # "all" => line[p] # None /\ Begun(file, line[p])

\* The first piece stays in the file whatever follows.
LEMMA StaysInFile ==
  ASSUME NEW f \in Seq(Pieces), NEW x \in Pieces
  PROVE  /\ \A r : Begun(f, r) => Begun(Append(f, x), r)
         /\ x.from = "start" => Begun(Append(f, x), x.rec)
<1>1. /\ Len(f) \in Nat /\ Len(Append(f, x)) = Len(f) + 1
      /\ \A k \in 1..Len(f) : Append(f, x)[k] = f[k]
      /\ Append(f, x)[Len(f) + 1] = x
  BY Appended
<1>2. Len(f) + 1 \in 1..Len(Append(f, x)) /\ \A j \in 1..Len(f) : j \in 1..Len(Append(f, x))
  BY <1>1
<1> QED BY <1>1, <1>2 DEF Begun

LEMMA InFileAppends ==
  ASSUME TypeInv, InFile, NEW p \in Procs, Appends(p)
  PROVE  InFile'
<1>0. /\ DOMAIN line = Procs /\ left \in [Procs -> {"all", "rest", "newline"}]
      /\ file \in Seq(Pieces)
  BY DEF TypeInv, TypeOK
<1>1. CASE GiveUp(p) BY <1>0, <1>1 DEF GiveUp, InFile, history, Done
<1>2. ASSUME NEW x \in Pieces, file' = Append(file, x), x.rec = line[p],
             x.from = "start" \/ left[p] # "all"
      PROVE  /\ \A r \in written : Begun(file', r)
             /\ \A q \in Procs : left[q] # "all" => line[q] # None /\ Begun(file', line[q])
             /\ Begun(file', line[p])
  BY <1>0, <1>2, StaysInFile DEF InFile
<1>3. CASE WriteLine(p) \/ WriteRest(p)
  <2>1. \E x \in Pieces : /\ file' = Append(file, x) /\ x.rec = line[p]
                          /\ x.from = "start" \/ left[p] # "all"
    BY <1>3, LineIsRecord, PieceType DEF WriteLine, WriteRest
  <2>2. /\ written' = written \cup {line[p]}
        /\ \A q \in Procs : left'[q] # "all" => line'[q] = line[q] /\ left[q] # "all"
    BY <1>0, <1>3 DEF WriteLine, WriteRest, Done
  <2>3. /\ \A r \in written : Begun(file', r)
        /\ \A q \in Procs : left[q] # "all" => line[q] # None /\ Begun(file', line[q])
        /\ Begun(file', line[p])
    BY <1>2, <2>1
  <2>4. (\A r \in written' : Begun(file', r)) /\ \A q \in Procs : left'[q] # "all" => line'[q] # None /\ Begun(file', line'[q])
    BY <2>2, <2>3
  <2> QED BY <2>4 DEF InFile, Begun
<1>4. CASE WriteShort(p)
  <2>1. PICK to \in Cuts : file' = Append(file, Piece(line[p], From(p), to))
    BY <1>4 DEF WriteShort
  <2>2. From(p) \in {"start", "later"} /\ (From(p) = "start" \/ left[p] # "all") BY DEF From
  <2>3. \E x \in Pieces : /\ file' = Append(file, x) /\ x.rec = line[p]
                          /\ x.from = "start" \/ left[p] # "all"
    BY <1>4, <2>1, <2>2, LineIsRecord, PieceType DEF WriteShort
  <2>4. /\ line[p] # None /\ written' = written /\ line' = line
        /\ \A q \in Procs : q # p => left'[q] = left[q]
    BY <1>0, <1>4 DEF WriteShort, history
  <2>5. /\ \A r \in written : Begun(file', r)
        /\ \A q \in Procs : left[q] # "all" => line[q] # None /\ Begun(file', line[q])
        /\ Begun(file', line[p])
    BY <1>2, <2>3
  <2>6. (\A r \in written' : Begun(file', r)) /\ \A q \in Procs : left'[q] # "all" => line'[q] # None /\ Begun(file', line'[q])
    BY <2>4, <2>5
  <2> QED BY <2>6 DEF InFile, Begun
<1> QED BY <1>1, <1>3, <1>4 DEF Appends

LEMMA InFileTurns ==
  ASSUME TypeInv, InFile, NEW p \in Procs, Turns(p) \/ Note(p) \/ Crash(p)
  PROVE  InFile'
<1>1. /\ DOMAIN line = Procs /\ left \in [Procs -> {"all", "rest", "newline"}]
  BY DEF TypeInv, TypeOK
<1>2. CASE Open(p) \/ Note(p) \/ Close(p)
  <2>1. PICK r : Stamp(p, r) /\ line[p] = None
    BY <1>2 DEF Open, Note, Close, Go
  <2> QED BY <1>1, <1>2, <2>1 DEF Stamp, InFile, Begun
<1>3. CASE TodayStart(p) \/ Call(p) \/ Refuse(p) \/ Answer(p)
  BY <1>1, <1>3 DEF TodayStart, Call, Refuse, Answer, log, InFile, Begun
<1>4. CASE Crash(p)
  BY <1>1, <1>4 DEF Crash, Done, history, InFile, Begun
<1> QED BY <1>2, <1>3, <1>4 DEF Turns

LEMMA InFileKept == TypeInv /\ InFile /\ [Next]_vars => InFile'
<1>1. ASSUME InFile, Midnight \/ UNCHANGED vars PROVE InFile'
  BY <1>1 DEF Midnight, log, vars, history, InFile, Begun
<1> QED BY <1>1, InFileAppends, InFileTurns DEF Next

\* A function from a finite set to its values does not make more of them.
LEMMA FewerValues ==
  ASSUME NEW S, IsFiniteSet(S), NEW f, DOMAIN f = S
  PROVE  /\ IsFiniteSet({f[x] : x \in S})
         /\ Cardinality({f[x] : x \in S}) <= Cardinality(S)
<1>1. [x \in S |-> f[x]] \in Surjection(S, {f[x] : x \in S})
  BY DEF Surjection
<1> QED BY <1>1, FS_Surjection

\* What was written and cannot be found was cut, or stands behind a cut.
LEMMA LostBehindCut ==
  ASSUME TypeInv, InFile, NEW r \in written, r \notin Whole(file)
  PROVE  \E j \in CutsIn(file) :
           file[j].rec = r \/ (j + 1 \in 1..Len(file) /\ file[j + 1].rec = r)
<1>1. file \in Seq(Pieces) /\ Len(file) \in Nat /\ \A k \in 1..Len(file) : file[k] \in Pieces
  BY LenProperties, ElementOfSeq DEF TypeInv, TypeOK
<1>2. PICK j \in 1..Len(file) : file[j].rec = r /\ file[j].from = "start"
  BY DEF InFile, Begun
<1>3. CASE file[j].to \in Cuts BY <1>2, <1>3 DEF CutsIn
<1>4. CASE file[j].to = "newline"
  <2>1. j \in j..Len(file) /\ \A i \in j..j : i = j BY <1>1
  <2>2. ~Intact(file, j) BY <1>2 DEF Whole
  <2>3. j # 1 /\ ~EndsLine(file[j - 1])
    BY <1>2, <1>4, <2>1, <2>2 DEF Intact, OneRecord, StartsLine, EndsLine
  <2>4. j - 1 \in 1..Len(file) /\ file[j - 1] \in Pieces /\ (j - 1) + 1 = j
    BY <1>1, <2>3
  <2>5. j - 1 \in CutsIn(file)
    BY <2>3, <2>4 DEF EndsLine, CutsIn, Pieces
  <2> QED BY <1>2, <2>4, <2>5
<1> QED BY <1>1, <1>2, <1>3, <1>4 DEF Pieces

LEMMA TearBound == TypeInv /\ InFile => ATearCostsTwo
<1> SUFFICES ASSUME TypeInv, InFile, ~Undecodable(file)
             PROVE  Cardinality(written \ Kept(file)) <= 2 * Cardinality(CutsIn(file))
  BY DEF ATearCostsTwo
<1> DEFINE cuts == CutsIn(file)
           own == [j \in cuts |-> file[j].rec]
           behind == [j \in cuts |-> file[j + 1].rec]
           Own == {own[j] : j \in cuts}
           Behind == {behind[j] : j \in cuts}
<1>0. Kept(file) = Whole(file) BY DEF Kept
<1>1. IsFiniteSet(cuts) BY CutsAreCounted DEF TypeInv, TypeOK
<1>2. written \ Kept(file) \subseteq Own \cup Behind
  BY <1>0, LostBehindCut
<1>3. DOMAIN own = cuts /\ DOMAIN behind = cuts OBVIOUS
<1> HIDE DEF own, behind, cuts
<1>4. IsFiniteSet(Own) /\ Cardinality(Own) <= Cardinality(cuts)
  BY <1>1, <1>3, FewerValues
<1>5. IsFiniteSet(Behind) /\ Cardinality(Behind) <= Cardinality(cuts)
  BY <1>1, <1>3, FewerValues
<1> HIDE DEF Own, Behind
<1>6. /\ IsFiniteSet(Own \cup Behind)
      /\ Cardinality(Own \cup Behind) = Cardinality(Own) + Cardinality(Behind) - Cardinality(Own \cap Behind)
      /\ Cardinality(Own \cap Behind) \in Nat
      /\ Cardinality(Own) \in Nat /\ Cardinality(Behind) \in Nat /\ Cardinality(cuts) \in Nat
  BY <1>1, <1>4, <1>5, FS_Union, FS_Subset, FS_CardinalityType, Own \cap Behind \in SUBSET Own
<1>7. /\ IsFiniteSet(written \ Kept(file))
      /\ Cardinality(written \ Kept(file)) <= Cardinality(Own \cup Behind)
      /\ Cardinality(written \ Kept(file)) \in Nat
  BY <1>2, <1>6, FS_Subset, FS_CardinalityType
<1>8. Cardinality(written \ Kept(file)) <= 2 * Cardinality(cuts)
  BY <1>4, <1>5, <1>6, <1>7
<1> QED BY <1>8 DEF cuts

\* A short write makes at most two records unreadable that were written in full,
\* or, inside a character and not mended, all of them (ATearCostsTwo).
THEOREM DamageIsConfined == Spec => []ATearCostsTwo
<1>1. Init => InFile BY DEF Init, InFile
<1> QED BY <1>1, InitTypes, TypesKept, InFileKept, TearBound, PTL DEF Spec

-----------------------------------------------------------------------------
(* Turns and their lines *)

\* The turn a process is in or whose line it is appending is its own: the line
\* belongs to the turn, and nobody else is in it.
Owned ==
  /\ \A p \in Procs : line[p] # None /\ turn[p] # None => line[p].id = turn[p]
  /\ \A p, q \in Procs : turn[p] # None /\ turn[p] = turn[q] => p = q
  /\ \A p \in Procs : line[p] # None /\ line[p].kind = "open" => turn[p] = line[p].id
  /\ \A p \in Procs : turn[p] # None => \E r \in asked : r.id = turn[p]

\* A turn calls at most once, after its open line and on a day that has come.
Timely ==
  /\ \A p \in Procs : since[p] <= day
  /\ \A p \in Procs : pc[p] \in {"today", "count"} => called[turn[p]] = None
  /\ \A p \in Procs : pc[p] \in {"calling", "close"} => called[turn[p]] # None
  /\ \A i \in Ids : called[i] # None => called[i] <= day /\ \E r \in asked : r.id = i

\* A close tells what its turn cost, is not older than the call and ends it.
Truthful ==
  /\ \A p \in Procs, r \in asked : r.kind = "close" /\ turn[p] # None => r.id # turn[p]
  /\ \A r \in asked : r.kind = "close" =>
       called[r.id] # None /\ called[r.id] <= r.ts /\ r.tokens = spent[r.id]

TurnInv == TypeInv /\ Owned /\ Timely /\ Truthful

LEMMA RecordShape ==
  ASSUME NEW r \in Records
  PROVE  /\ r.kind \in {"open", "note", "close"} /\ r.id \in Ids
         /\ r.kind = "close" => r.ts \in 0..MaxDay /\ r.tokens \in Spends
  BY DEF Records

\* An id that nobody used is not that of a turn or of a line.
LEMMA UnusedIsNew ==
  ASSUME TurnInv, NEW i \in Unused
  PROVE  /\ i \in Ids /\ i # None /\ called[i] = None
         /\ \A r \in asked : r.id # i
         /\ \A p \in Procs : turn[p] # i /\ (line[p] # None => line[p].id # i)
<1>1. i \in Ids /\ \A r \in asked : r.id # i
  BY DEF Unused
<1>2. i # None
  BY <1>1, LogAssumption
<1>3. \A p \in Procs : line[p] # None => line[p] \in asked
  BY DEF TurnInv, TypeInv, TypeOK
<1> QED
  BY <1>1, <1>2, <1>3 DEF TurnInv, Owned, Timely

\* Lines that are written or given up, and turns that end, take nothing back.
LEMMA FewerTurns ==
  ASSUME TurnInv, UNCHANGED <<day, asked, called, spent>>,
         \A q \in Procs : \/ turn'[q] = turn[q] /\ pc'[q] = pc[q] /\ since'[q] = since[q]
                          \/ turn'[q] = None /\ pc'[q] = "idle" /\ since'[q] = 0 /\ line'[q] = None,
         \A q \in Procs : line'[q] = line[q] \/ line'[q] = None
  PROVE  Owned' /\ Timely' /\ Truthful'
<1> USE DEF TurnInv
<1>1. Owned'
  BY DEF Owned
<1>2. Timely'
  <2>1. day \in Nat
    BY LogAssumption DEF TypeInv, TypeOK
  <2> QED
    BY <2>1 DEF Timely
<1>3. Truthful'
  BY DEF Truthful
<1> QED
  BY <1>1, <1>2, <1>3

LEMMA TurnAppends ==
  ASSUME TurnInv, NEW p \in Procs, Appends(p) \/ Crash(p) \/ Refuse(p)
  PROVE  Owned' /\ Timely' /\ Truthful'
<1>1. /\ DOMAIN line = Procs /\ turn \in [Procs -> Ids \cup {None}]
      /\ pc \in [Procs -> {"idle", "today", "count", "calling", "close"}]
      /\ since \in [Procs -> 0..MaxDay]
  BY DEF TurnInv, TypeInv, TypeOK
<1>2. CASE Appends(p)
  <2>1. UNCHANGED <<day, asked, called, spent, turn, pc, since>>
    BY <1>2 DEF Appends, WriteLine, WriteShort, WriteRest, GiveUp, history
  <2>2. \A q \in Procs : line'[q] = line[q] \/ line'[q] = None
    BY <1>1, <1>2 DEF Appends, WriteLine, WriteShort, WriteRest, GiveUp, Done
  <2> QED
    BY <2>1, <2>2, FewerTurns
<1>3. CASE Crash(p)
  <2>1. UNCHANGED <<day, asked, called, spent>>
    BY <1>3 DEF Crash, history
  <2>2. \A q \in Procs : IF q = p THEN turn'[q] = None /\ pc'[q] = "idle" /\ since'[q] = 0 /\ line'[q] = None
                         ELSE turn'[q] = turn[q] /\ pc'[q] = pc[q] /\ since'[q] = since[q] /\ line'[q] = line[q]
    BY <1>1, <1>3 DEF Crash, Done
  <2> QED
    BY <2>1, <2>2, FewerTurns
<1>4. CASE Refuse(p)
  <2>1. UNCHANGED <<day, asked, called, spent>>
    BY <1>4 DEF Refuse, log
  <2>2. \A q \in Procs : IF q = p THEN turn'[q] = None /\ pc'[q] = "idle" /\ since'[q] = 0 /\ line'[q] = None
                         ELSE turn'[q] = turn[q] /\ pc'[q] = pc[q] /\ since'[q] = since[q] /\ line'[q] = line[q]
    BY <1>1, <1>4 DEF Refuse, Go, log
  <2> QED
    BY <2>1, <2>2, FewerTurns
<1> QED
  BY <1>2, <1>3, <1>4

\* A record handed to append, of a process that has no other line under way.
LEMMA TurnStamps ==
  ASSUME TurnInv, NEW p \in Procs, Open(p) \/ Note(p) \/ Close(p)
  PROVE  Owned' /\ Timely' /\ Truthful'
<1>1. /\ DOMAIN line = Procs /\ turn \in [Procs -> Ids \cup {None}]
      /\ pc \in [Procs -> {"idle", "today", "count", "calling", "close"}]
      /\ \A q \in Procs : turn[q] = None <=> pc[q] = "idle"
      /\ asked \subseteq Records
  BY DEF TurnInv, TypeInv, TypeOK
<1>2. CASE Open(p)
  <2>1. PICK i \in Unused : turn' = [turn EXCEPT ![p] = i] /\ Stamp(p, OpenLine(i))
    BY <1>2 DEF Open
  <2>2. /\ i \in Ids /\ i # None /\ called[i] = None /\ \A r \in asked : r.id # i
        /\ \A q \in Procs : turn[q] # i /\ (line[q] # None => line[q].id # i)
    BY UnusedIsNew
  <2>3. /\ turn'[p] = i /\ line'[p] = OpenLine(i) /\ asked' = asked \cup {OpenLine(i)}
        /\ pc'[p] = "today"
        /\ \A q \in Procs \ {p} : turn'[q] = turn[q] /\ line'[q] = line[q] /\ pc'[q] = pc[q]
        /\ UNCHANGED <<day, since, called, spent>>
    BY <1>1, <1>2, <2>1 DEF Open, Stamp, Go
  <2>4. OpenLine(i).id = i /\ OpenLine(i).kind = "open"
    BY DEF OpenLine
  <2>5. Owned'
    BY <2>2, <2>3, <2>4 DEF Owned, TurnInv
  <2>6. Timely'
    BY <2>2, <2>3, <2>4 DEF Timely, TurnInv
  <2>7. Truthful'
    BY <2>2, <2>3, <2>4 DEF Truthful, TurnInv
  <2> QED
    BY <2>5, <2>6, <2>7
<1>3. CASE Note(p)
  <2>1. PICK i \in Unused : Stamp(p, NoteLine(i))
    BY <1>3 DEF Note
  <2>2. turn[p] = None
    BY <1>1, <1>3 DEF Note, Go
  <2>3. /\ line'[p] = NoteLine(i) /\ asked' = asked \cup {NoteLine(i)}
        /\ \A q \in Procs \ {p} : line'[q] = line[q]
        /\ pc' = pc
        /\ UNCHANGED <<day, turn, since, called, spent>>
    BY <1>1, <1>3, <2>1 DEF Note, Stamp, Go
  <2>4. NoteLine(i).id = i /\ NoteLine(i).kind = "note"
    BY DEF NoteLine
  <2>5. Owned'
    BY <2>2, <2>3, <2>4 DEF Owned, TurnInv
  <2>6. Timely'
    BY <2>3 DEF Timely, TurnInv
  <2>7. Truthful'
    BY <2>3, <2>4 DEF Truthful, TurnInv
  <2> QED
    BY <2>5, <2>6, <2>7
<1>4. CASE Close(p)
  <2> DEFINE i == turn[p]
             r == CloseLine(i, day, spent[i])
  <2>1. i \in Ids /\ i # None /\ called[i] # None /\ called[i] <= day /\ pc[p] = "close"
    BY <1>1, <1>4 DEF Close, Go, Timely, TurnInv
  <2>2. r.id = i /\ r.kind = "close" /\ r.ts = day /\ r.tokens = spent[i]
    BY DEF CloseLine
  <2> HIDE DEF r
  <2>3. /\ turn'[p] = None /\ line'[p] = r /\ asked' = asked \cup {r} /\ pc'[p] = "idle"
        /\ \A q \in Procs \ {p} : turn'[q] = turn[q] /\ line'[q] = line[q] /\ pc'[q] = pc[q]
        /\ UNCHANGED <<day, since, called, spent>>
    BY <1>1, <1>4 DEF Close, Stamp, Go, r
  <2>4. \A q \in Procs \ {p} : turn[q] # i
    BY <2>1 DEF Owned, TurnInv
  <2>5. Owned'
    BY <2>2, <2>3 DEF Owned, TurnInv
  <2>6. Timely'
    BY <2>3 DEF Timely, TurnInv
  <2>7. Truthful'
    BY <2>1, <2>2, <2>3, <2>4 DEF Truthful, TurnInv
  <2> QED
    BY <2>5, <2>6, <2>7
<1> QED
  BY <1>2, <1>3, <1>4

LEMMA TurnCalls ==
  ASSUME TurnInv, NEW p \in Procs, TodayStart(p) \/ Call(p) \/ Answer(p)
  PROVE  Owned' /\ Timely' /\ Truthful'
<1>1. /\ DOMAIN line = Procs /\ turn \in [Procs -> Ids \cup {None}] /\ day \in Nat
      /\ pc \in [Procs -> {"idle", "today", "count", "calling", "close"}]
      /\ \A q \in Procs : turn[q] = None <=> pc[q] = "idle"
      /\ since \in [Procs -> 0..MaxDay] /\ DOMAIN called = Ids /\ spent \in [Ids -> Spends \cup {0}]
      /\ asked \subseteq Records /\ None # day
  BY LogAssumption DEF TurnInv, TypeInv, TypeOK
<1>2. UNCHANGED <<day, turn, line, asked>>
  BY DEF TodayStart, Call, Answer, log
<1>3. Owned'
  BY <1>2 DEF Owned, TurnInv
<1>4. CASE TodayStart(p)
  BY <1>1, <1>2, <1>3, <1>4 DEF TodayStart, Go, Timely, Truthful, TurnInv
<1>5. CASE Call(p)
  <2>1. turn[p] \in Ids /\ turn[p] # None /\ \A q \in Procs \ {p} : turn[q] # turn[p]
    BY <1>1, <1>5 DEF Call, Go, Owned, TurnInv
  <2>2. /\ called'[turn[p]] = day /\ \A i \in Ids \ {turn[p]} : called'[i] = called[i]
        /\ pc'[p] = "calling" /\ since'[p] = 0 /\ spent' = spent
        /\ \A q \in Procs \ {p} : pc'[q] = pc[q] /\ since'[q] = since[q]
    BY <1>1, <1>5, <2>1 DEF Call, Go
  <2>3. Timely'
    BY <1>1, <1>2, <2>1, <2>2 DEF Timely, Owned, TurnInv
  <2>4. \A r \in asked : r.kind = "close" => r.id # turn[p] /\ r.id \in Ids
    BY <1>1, <2>1, RecordShape DEF Truthful, TurnInv
  <2>5. Truthful'
    BY <1>2, <2>2, <2>4 DEF Truthful, TurnInv
  <2> QED
    BY <1>3, <2>3, <2>5
<1>6. CASE Answer(p)
  <2>1. turn[p] \in Ids /\ turn[p] # None
    BY <1>1, <1>6 DEF Answer, Go
  <2>2. /\ \A i \in Ids \ {turn[p]} : spent'[i] = spent[i]
        /\ pc[p] = "calling" /\ pc'[p] = "close" /\ \A q \in Procs \ {p} : pc'[q] = pc[q]
        /\ UNCHANGED <<since, called>>
    BY <1>1, <1>6 DEF Answer, Go
  <2>3. Timely'
    BY <1>2, <2>2 DEF Timely, TurnInv
  <2>4. \A r \in asked : r.kind = "close" => r.id # turn[p] /\ r.id \in Ids
    BY <1>1, <2>1, RecordShape DEF Truthful, TurnInv
  <2>5. Truthful'
    BY <1>2, <2>2, <2>4 DEF Truthful, TurnInv
  <2> QED
    BY <1>3, <2>3, <2>5
<1> QED
  BY <1>4, <1>5, <1>6

LEMMA TurnsKept == TurnInv /\ [Next]_vars => TurnInv'
<1> SUFFICES ASSUME TurnInv, [Next]_vars PROVE TurnInv'
  OBVIOUS
<1>1. TypeInv'
  BY TypesKept DEF TurnInv
<1>2. CASE UNCHANGED vars
  BY <1>2 DEF vars, history, TurnInv, TypeInv, TypeOK, Charged, Owned, Timely, Truthful
<1>3. CASE Midnight
  <2>1. /\ day \in Nat /\ day' = day + 1 /\ since \in [Procs -> 0..MaxDay]
        /\ \A i \in Ids : called[i] # None => called[i] \in Nat
    BY <1>3, LogAssumption DEF Midnight, TurnInv, TypeInv, TypeOK
  <2>2. UNCHANGED <<pc, turn, since, called, spent, line, asked>>
    BY <1>3 DEF Midnight, log
  <2>3. Timely'
    BY <2>1, <2>2 DEF Timely, TurnInv
  <2> QED
    BY <1>1, <2>2, <2>3 DEF Owned, Truthful, TurnInv
<1>4. ASSUME NEW p \in Procs, Appends(p) \/ Turns(p) \/ Note(p) \/ Crash(p) PROVE TurnInv'
  BY <1>1, <1>4, TurnAppends, TurnStamps, TurnCalls DEF Turns, TurnInv
<1> QED
  BY <1>2, <1>3, <1>4 DEF Next

LEMMA InitTurns == Init => TurnInv
<1> SUFFICES ASSUME Init PROVE TurnInv
  OBVIOUS
<1>1. TypeInv
  BY InitTypes
<1>2. Owned /\ Timely /\ Truthful
  BY DEF Init, Owned, Timely, Truthful
<1> QED
  BY <1>1, <1>2 DEF TurnInv

-----------------------------------------------------------------------------
(* What the daily wall is worth *)

RunningOn(d) == {i \in CalledOn(d) : Running(i)}

\* The turns of a day are less than a budget's worth, but for those whose close
\* has no line of its own and as many others as there are processes: all that were under
\* way when the last of them asked.
WallDays ==
  \A d \in 0..MaxDay : \E A \in SUBSET CalledOn(d) :
    /\ Cardinality(A) <= Cardinality(Procs)
    /\ RunningOn(d) \subseteq A
    /\ SumFunctionOnSet(spent, CalledOn(d) \ (A \cup Hidden(d))) < Budget

\* The close of turn i has a line of its own.
Told(i) == \E r \in Whole(file) : r.kind = "close" /\ r.id = i

LEMMA SpentIs ==
  ASSUME TypeInv
  PROVE  /\ Largest \in Nat
         /\ \A i \in Ids : spent[i] \in Nat /\ spent[i] \in 0..Largest
<1>1. Largest \in Spends /\ \A v \in Spends : v <= Largest
  BY LogAssumption DEF Largest
<1>2. Spends \subseteq Nat /\ spent \in [Ids -> Spends \cup {0}]
  BY LogAssumption DEF TypeInv, TypeOK
<1> HIDE DEF Largest
<1>3. Largest \in Nat
  BY <1>1, <1>2
<1>4. ASSUME NEW i \in Ids PROVE spent[i] \in Nat /\ spent[i] \in 0..Largest
  <2>1. spent[i] \in Spends \cup {0}
    BY <1>2
  <2>2. CASE spent[i] \in Spends
    <3>1. spent[i] \in Nat
      BY <1>2, <2>2
    <3>2. spent[i] <= Largest
      BY <1>1, <2>2
    <3> QED
      BY <1>3, <3>1, <3>2
  <2>3. CASE spent[i] = 0
    BY <1>3, <2>3
  <2> QED
    BY <2>1, <2>2, <2>3
<1> QED
  BY <1>3, <1>4

\* An append leaves the lines of their own as they are, but for the line appended.
LEMMA WholeIsMine ==
  ASSUME TypeInv, NEW p \in Procs, Appends(p)
  PROVE  Whole(file)' = Whole(file) \/ (line[p] # None /\ Whole(file)' = Whole(file) \cup {line[p]})
<1>1. CASE GiveUp(p)
  BY <1>1, SeenInFile DEF GiveUp
<1>2. CASE WriteLine(p) \/ WriteShort(p) \/ WriteRest(p)
  <2>1. PICK x \in Pieces : file' = Append(file, x) /\ x.rec = line[p]
    BY <1>2, Writes
  <2>2. file \in Seq(Pieces) /\ line[p] # None
    BY <1>2 DEF TypeInv, TypeOK, WriteLine, WriteShort, WriteRest
  <2>3. Whole(file') = Whole(file) \/ Whole(file') = Whole(file) \cup {line[p]}
    BY <2>1, <2>2, WholeGrows
  <2>4. Whole(file)' = Whole(file')
    BY NewFile
  <2> QED
    BY <2>2, <2>3, <2>4, Zenon
<1> QED
  BY <1>1, <1>2 DEF Appends

\* A turn that called and is over stays as it is.
LEMMA OverIsOver ==
  ASSUME TurnInv, [Next]_vars, NEW i \in Ids, called[i] # None, ~Running(i)
  PROVE  ~Running(i)' /\ spent'[i] = spent[i] /\ (Told(i)' <=> Told(i))
<1>1. /\ DOMAIN line = Procs /\ turn \in [Procs -> Ids \cup {None}]
      /\ spent \in [Ids -> Spends \cup {0}] /\ i \notin Unused
      /\ \A q \in Procs : turn[q] = None <=> pc[q] = "idle"
  <2>1. i \notin Unused
    BY DEF TurnInv, Timely, Unused
  <2> QED
    BY <2>1 DEF TurnInv, TypeInv, TypeOK
<1>2. \A q \in Procs : turn[q] # i /\ (line[q] # None => line[q].id # i)
  BY DEF Running
<1>3. CASE Midnight \/ UNCHANGED vars
  <2>1. UNCHANGED <<turn, line, spent, file>>
    BY <1>3 DEF Midnight, log, vars, history
  <2> QED
    BY <2>1, SeenInFile DEF Running, Told
<1>4. ASSUME NEW p \in Procs, Appends(p)
      PROVE  ~Running(i)' /\ spent'[i] = spent[i] /\ (Told(i)' <=> Told(i))
  <2>1. UNCHANGED <<turn, spent>> /\ \A q \in Procs : line'[q] = line[q] \/ line'[q] = None
    BY <1>1, <1>4 DEF Appends, WriteLine, WriteShort, WriteRest, GiveUp, Done, history
  <2>2. ~Running(i)'
    BY <1>2, <2>1 DEF Running
  <2>3. Told(i)' <=> Told(i)
    BY <1>2, <1>4, WholeIsMine DEF Told, TurnInv
  <2> QED
    BY <2>1, <2>2, <2>3
<1>5. ASSUME NEW p \in Procs, Turns(p) \/ Note(p) \/ Crash(p)
      PROVE  ~Running(i)' /\ spent'[i] = spent[i] /\ (Told(i)' <=> Told(i))
  <2>1. file' = file
    BY <1>5 DEF Turns, Open, TodayStart, Call, Refuse, Answer, Close, Note, Crash, Stamp, log
  <2>2. Told(i)' <=> Told(i)
    BY <2>1, SeenInFile DEF Told
  <2>3. CASE Open(p) \/ Note(p)
    <3>1. PICK j \in Unused : turn'[p] \in {turn[p], j} /\ (Stamp(p, OpenLine(j)) \/ Stamp(p, NoteLine(j)))
      BY <1>1, <2>3 DEF Open, Note
    <3>2. j # i /\ line'[p].id = j /\ spent' = spent
          /\ \A q \in Procs \ {p} : turn'[q] = turn[q] /\ line'[q] = line[q]
      BY <1>1, <2>3, <3>1 DEF Open, Note, Stamp, OpenLine, NoteLine
    <3>3. ~Running(i)'
      BY <1>2, <3>1, <3>2 DEF Running
    <3> QED
      BY <2>2, <3>2, <3>3
  <2>4. CASE Close(p)
    <3>1. /\ line'[p].id = turn[p] /\ turn'[p] = None /\ spent' = spent
          /\ \A q \in Procs \ {p} : turn'[q] = turn[q] /\ line'[q] = line[q]
      BY <1>1, <2>4 DEF Close, Stamp, CloseLine
    <3>2. None # i
      BY LogAssumption
    <3>3. ~Running(i)'
      BY <1>2, <3>1, <3>2 DEF Running
    <3> QED
      BY <2>2, <3>1, <3>3
  <2>5. CASE TodayStart(p) \/ Call(p) \/ Refuse(p) \/ Answer(p) \/ Crash(p)
    <3>1. /\ \A q \in Procs : turn'[q] \in {turn[q], None}
          /\ \A q \in Procs : line'[q] \in {line[q], None}
      BY <1>1, <2>5 DEF TodayStart, Call, Refuse, Answer, Crash, Done, log
    <3>2. None # i
      BY LogAssumption
    <3>3. ~Running(i)'
      BY <1>2, <3>1, <3>2 DEF Running
    <3>4. spent'[i] = spent[i]
      BY <1>1, <1>2, <2>5 DEF TodayStart, Call, Refuse, Answer, Crash, history
    <3> QED
      BY <2>2, <3>3, <3>4
  <2> QED
    BY <1>5, <2>3, <2>4, <2>5 DEF Turns
<1> QED
  BY <1>3, <1>4, <1>5 DEF Next

\* Where nobody calls, a day is worth what it was.
LEMMA DayStays ==
  ASSUME TurnInv, WallDays, [Next]_vars, NEW d \in 0..MaxDay, CalledOn(d)' = CalledOn(d)
  PROVE  (\E A \in SUBSET CalledOn(d) :
            /\ Cardinality(A) <= Cardinality(Procs)
            /\ RunningOn(d) \subseteq A
            /\ SumFunctionOnSet(spent, CalledOn(d) \ (A \cup Hidden(d))) < Budget)'
<1>1. PICK A \in SUBSET CalledOn(d) :
        /\ Cardinality(A) <= Cardinality(Procs)
        /\ RunningOn(d) \subseteq A
        /\ SumFunctionOnSet(spent, CalledOn(d) \ (A \cup Hidden(d))) < Budget
  BY DEF WallDays
<1>2. CalledOn(d) \subseteq Ids /\ \A i \in CalledOn(d) : called[i] # None
  BY LogAssumption DEF CalledOn
<1>3. \A i \in CalledOn(d) : ~Running(i) => ~Running(i)' /\ spent'[i] = spent[i] /\ (Told(i)' <=> Told(i))
  BY <1>2, OverIsOver
<1>4. RunningOn(d)' \subseteq A
  BY <1>1, <1>3 DEF RunningOn
<1>5. \A i \in CalledOn(d) : i \in Hidden(d) <=> ~Running(i) /\ ~Told(i)
  BY DEF Hidden, Told
<1>6. \A i \in CalledOn(d) : i \in Hidden(d)' <=> ~Running(i)' /\ ~Told(i)'
  BY DEF Hidden, Told
<1> DEFINE T == CalledOn(d) \ (A \cup Hidden(d))
           S == CalledOn(d) \ (A \cup Hidden(d)')
<1>7. S \in SUBSET T /\ \A i \in S : ~Running(i) /\ spent'[i] = spent[i]
  BY <1>1, <1>3, <1>5, <1>6 DEF RunningOn
<1>8. \A i \in Ids : spent[i] \in Nat
  BY SpentIs DEF TurnInv
<1>9. IsFiniteSet(T) /\ T \subseteq Ids
  BY <1>2, LogAssumption, FS_Subset, T \in SUBSET Ids
<1>10. SumFunctionOnSet(spent, T) < Budget /\ SumFunctionOnSet(spent, T) \in Nat
  BY <1>1, <1>8, <1>9, SumElement
<1> HIDE DEF S, T
<1>11. \A i \in S : spent'[i] \in Nat /\ spent'[i] <= spent[i]
  BY <1>7, <1>8, <1>9
<1>12. SumFunctionOnSet(spent', S) <= SumFunctionOnSet(spent, T)
  BY <1>7, <1>8, <1>9, <1>11, SumOfFewer
<1>13. IsFiniteSet(S)
  BY <1>7, <1>9, FS_Subset
<1>14. SumFunctionOnSet(spent', S) \in Nat
  BY <1>11, <1>13, SumElement
<1>15. SumFunctionOnSet(spent', S) < Budget
  BY <1>10, <1>12, <1>14, LogAssumption
<1>16. A \in SUBSET CalledOn(d)'
  BY <1>1
<1>17. S = (CalledOn(d)' \ (A \cup Hidden(d)'))
  BY DEF S
<1> QED
  BY <1>1, <1>4, <1>15, <1>16, <1>17

\* A process is in one turn at most, or appends its line.
LEMMA FewRun ==
  ASSUME TurnInv, NEW A, \A i \in A : i \in Ids /\ Running(i)
  PROVE  IsFiniteSet(A) /\ Cardinality(A) <= Cardinality(Procs)
<1> DEFINE owner == [i \in A |-> CHOOSE p \in Procs : turn[p] = i \/ (line[p] # None /\ line[p].id = i)]
<1>1. ASSUME NEW i \in A
      PROVE  owner[i] \in Procs /\ (turn[owner[i]] = i \/ (line[owner[i]] # None /\ line[owner[i]].id = i))
  BY DEF Running
<1>2. DOMAIN owner = A /\ owner = [i \in A |-> owner[i]]
  OBVIOUS
<1> HIDE DEF owner
<1>3. ASSUME NEW i \in A, NEW j \in A, owner[i] = owner[j] PROVE i = j
  <2>1. i # None /\ j # None
    BY LogAssumption
  <2> QED
    BY <1>1, <1>3, <2>1 DEF Owned, TurnInv
<1>4. owner \in Injection(A, Procs)
  <2>1. owner \in [A -> Procs]
    BY <1>1, <1>2
  <2>2. IsInjective(owner)
    BY <1>2, <1>3 DEF IsInjective
  <2> QED
    BY <2>1, <2>2 DEF Injection
<1> QED
  BY <1>4, LogAssumption, FS_Injection

\* The closes of a day that have lines of their own are in the sum it asks for, if
\* it gets one.
LEMMA ToldAreSummed ==
  ASSUME TurnInv, ~Undecodable(file),
         NEW Q, \A i \in Q : i \in Ids /\ called[i] = day /\ Told(i),
         NEW d \in Nat, d <= day
  PROVE  SumFunctionOnSet(spent, Q) <= SumSince(file, d) /\ SumSince(file, d) \in Nat
<1>1. /\ file \in Seq(Pieces) /\ Len(file) \in Nat
      /\ asked \subseteq Records /\ \A j \in 1..Len(file) : file[j].rec \in asked
      /\ day \in Nat /\ Spends \subseteq Nat
  BY LenProperties, LogAssumption DEF TurnInv, TypeInv, TypeOK
<1> DEFINE Closes(k) == Intact(file, k) /\ file[k].rec.kind = "close"
           lines == {k \in LinesRead(file) :
                       file[k].rec.kind = "close" /\ file[k].rec.ts >= d}
           tokens == [k \in lines |-> file[k].rec.tokens]
           h == [i \in Q |-> CHOOSE k \in 1..Len(file) : Closes(k) /\ file[k].rec.id = i]
<1>2. SumSince(file, d) = SumFunctionOnSet(tokens, lines)
  BY DEF SumSince, SumFunction
<1>3. IsFiniteSet(lines)
  <2> DEFINE R == 1..Len(file)
  <2>1. IsFiniteSet(R)
    BY <1>1, FS_Interval
  <2>2. lines \in SUBSET R
    BY <1>1 DEF LinesRead
  <2> HIDE DEF R, lines
  <2> QED
    BY <2>1, <2>2, FS_Subset
<1>4. ASSUME NEW k \in lines PROVE tokens[k] \in Nat
  BY <1>1, RecordShape DEF LinesRead
<1>5. ASSUME NEW i \in Q PROVE h[i] \in 1..Len(file) /\ Closes(h[i]) /\ file[h[i]].rec.id = i
  <2>1. \E k \in 1..Len(file) : Closes(k) /\ file[k].rec.id = i
    BY DEF Told, Whole
  <2> HIDE DEF Closes
  <2> QED
    BY <2>1
<1>6. ASSUME NEW i \in Q PROVE h[i] \in lines /\ tokens[h[i]] = spent[i]
  <2> DEFINE r == file[h[i]].rec
  <2>1. r \in asked /\ r \in Records /\ r.kind = "close" /\ r.id = i
    BY <1>1, <1>5
  <2>2. r.tokens = spent[i] /\ r.ts >= day /\ r.ts \in Nat
    BY <1>1, <2>1, RecordShape DEF Truthful, TurnInv
  <2>3. r.ts >= d
    <3> HIDE DEF r
    <3> QED
      BY <1>1, <2>2
  <2>4. h[i] \in LinesRead(file)
    BY <1>5 DEF LinesRead
  <2> HIDE DEF h
  <2>5. h[i] \in lines
    BY <2>1, <2>3, <2>4
  <2> QED
    BY <2>2, <2>5
<1>7. DOMAIN h = Q /\ h = [i \in Q |-> h[i]]
  OBVIOUS
<1> HIDE DEF h, lines, tokens, Closes
<1>8. h \in Injection(Q, lines)
  <2>1. h \in [Q -> lines]
    BY <1>6, <1>7
  <2>2. IsInjective(h)
    BY <1>5, <1>7 DEF IsInjective
  <2> QED
    BY <2>1, <2>2 DEF Injection
<1>9. \A i \in Q : spent[i] \in Nat /\ spent[i] <= tokens[h[i]]
  BY <1>6, SpentIs DEF TurnInv
<1>10. SumFunctionOnSet(spent, Q) <= SumFunctionOnSet(tokens, lines)
  BY <1>3, <1>4, <1>8, <1>9, SumAtMost
<1>11. SumFunctionOnSet(tokens, lines) \in Nat
  BY <1>3, <1>4, SumElement
<1> QED
  BY <1>2, <1>10, <1>11

\* A call finds the turns of its day that are over below the budget.
LEMMA DayCalls ==
  ASSUME TurnInv, NEW p \in Procs, Call(p), CalledOn(day)' \subseteq Ids
  PROVE  (\E A \in SUBSET CalledOn(day) :
            /\ Cardinality(A) <= Cardinality(Procs)
            /\ RunningOn(day) \subseteq A
            /\ SumFunctionOnSet(spent, CalledOn(day) \ (A \cup Hidden(day))) < Budget)'
<1>1. /\ turn \in [Procs -> Ids \cup {None}] /\ day \in Nat /\ DOMAIN called = Ids
      /\ since \in [Procs -> 0..MaxDay] /\ turn[p] # None
  BY LogAssumption DEF Call, Go, TurnInv, TypeInv, TypeOK
<1>2. /\ UNCHANGED <<day, turn, line, spent, file>>
      /\ called' = [called EXCEPT ![turn[p]] = day] /\ ~Barred(p)
  BY DEF Call, log
<1>3. \A i \in Ids : (Running(i)' <=> Running(i)) /\ (Told(i)' <=> Told(i))
  BY <1>2, SeenInFile DEF Running, Told
<1>4. Running(turn[p])
  BY DEF Running
<1> DEFINE A == {i \in CalledOn(day)' : Running(i)}
           Q == CalledOn(day)' \ (A \cup Hidden(day)')
<1>5. Cardinality(A) <= Cardinality(Procs)
  BY FewRun
<1>6. RunningOn(day)' \subseteq A
  BY <1>2, <1>3 DEF RunningOn
<1>7. ASSUME NEW i \in Q PROVE i \in Ids /\ called[i] = day /\ Told(i)
  <2>1. i \in CalledOn(day)' /\ i \in Ids /\ ~Running(i) /\ i \notin Hidden(day)'
    OBVIOUS
  <2>2. Told(i)
    BY <1>2, <1>3, <2>1 DEF Hidden, Told
  <2>3. i # turn[p] /\ called'[i] = day
    BY <1>2, <1>4, <2>1 DEF CalledOn
  <2> QED
    BY <1>1, <1>2, <2>1, <2>2, <2>3
<1>8. since[p] \in Nat /\ since[p] <= day
  BY <1>1, LogAssumption DEF Timely, TurnInv
<1> HIDE DEF Q
<1>9. SumFunctionOnSet(spent, Q) <= SumSince(file, since[p]) /\ SumSince(file, since[p]) \in Nat
  BY <1>2, <1>7, <1>8, ToldAreSummed DEF Barred
<1>10. SumSince(file, since[p]) < Budget
  BY <1>2, <1>9, LogAssumption DEF Barred
<1>11. IsFiniteSet(Q) /\ \A i \in Q : spent[i] \in Nat
  <2>1. Q \in SUBSET Ids
    BY <1>7
  <2> QED
    BY <2>1, LogAssumption, FS_Subset, SpentIs DEF TurnInv
<1>12. SumFunctionOnSet(spent, Q) \in Nat
  BY <1>11, SumElement
<1>13. SumFunctionOnSet(spent, Q) < Budget
  BY <1>9, <1>10, <1>12, LogAssumption
<1>14. A \in SUBSET CalledOn(day)' /\ spent' = spent
  BY <1>2
<1> QED
  BY <1>2, <1>5, <1>6, <1>13, <1>14 DEF Q

LEMMA DaysKept == TurnInv /\ WallDays /\ [Next]_vars => WallDays'
<1> SUFFICES ASSUME TurnInv, WallDays, [Next]_vars PROVE WallDays'
  OBVIOUS
<1> DEFINE Worth(d) == \E A \in SUBSET CalledOn(d) :
                         /\ Cardinality(A) <= Cardinality(Procs)
                         /\ RunningOn(d) \subseteq A
                         /\ SumFunctionOnSet(spent, CalledOn(d) \ (A \cup Hidden(d))) < Budget
<1>1. ASSUME NEW d \in 0..MaxDay PROVE Worth(d)'
  <2>1. CASE CalledOn(d)' = CalledOn(d)
    BY <2>1, DayStays
  <2>2. CASE CalledOn(d)' # CalledOn(d)
    <3>1. called' # called
      BY <2>2 DEF CalledOn
    <3>2. PICK p \in Procs : Call(p)
      BY <3>1 DEF Next, vars, history, log, Midnight, Appends, Turns, WriteLine, WriteShort,
           WriteRest, GiveUp, Open, TodayStart, Refuse, Answer, Close, Note, Crash
    <3>3. /\ turn[p] \in Ids /\ called[turn[p]] = None /\ DOMAIN called = Ids
          /\ called' = [called EXCEPT ![turn[p]] = day]
      BY <3>2, LogAssumption DEF Call, Go, TurnInv, TypeInv, TypeOK, Timely
    <3>4. d # None
      BY LogAssumption
    <3>5. d = day
      BY <2>2, <3>3, <3>4 DEF CalledOn
    <3>6. CalledOn(day)' \subseteq Ids
      BY DEF CalledOn
    <3>7. Worth(day)'
      BY <3>2, <3>6, DayCalls
    <3>8. day' = day
      BY <3>2 DEF Call
    <3> QED
      BY <3>5, <3>7, <3>8
  <2> QED
    BY <2>1, <2>2
<1> QED
  BY <1>1 DEF WallDays

LEMMA InitDays == Init => WallDays
<1> SUFFICES ASSUME Init, NEW d \in 0..MaxDay
    PROVE  \E A \in SUBSET CalledOn(d) :
             /\ Cardinality(A) <= Cardinality(Procs)
             /\ RunningOn(d) \subseteq A
             /\ SumFunctionOnSet(spent, CalledOn(d) \ (A \cup Hidden(d))) < Budget
  BY DEF WallDays
<1>1. CalledOn(d) = {}
  BY LogAssumption DEF Init, CalledOn
<1>2. RunningOn(d) = {} /\ CalledOn(d) \ ({} \cup Hidden(d)) = {}
  BY <1>1 DEF RunningOn
<1>3. IsFiniteSet({}) /\ Cardinality({}) = 0 /\ Cardinality(Procs) \in Nat
  BY LogAssumption, FS_EmptySet, FS_CardinalityType
<1>4. SumFunctionOnSet(spent, {}) = 0
  BY <1>3, SumElement
<1>5. 0 < Budget /\ 0 <= Cardinality(Procs)
  BY <1>3, LogAssumption
<1> WITNESS {} \in SUBSET CalledOn(d)
<1> QED
  BY <1>1, <1>2, <1>3, <1>4, <1>5

LEMMA DaysWorth == TurnInv /\ WallDays => DailyOvershootIsBounded
<1> SUFFICES ASSUME TurnInv, WallDays, NEW d \in 0..MaxDay
    PROVE  SumFunctionOnSet(spent, CalledOn(d))
             < Budget + Largest * (Cardinality(Procs) + Cardinality(Hidden(d)))
  BY DEF DailyOvershootIsBounded
<1>1. PICK A \in SUBSET CalledOn(d) :
        /\ Cardinality(A) <= Cardinality(Procs)
        /\ RunningOn(d) \subseteq A
        /\ SumFunctionOnSet(spent, CalledOn(d) \ (A \cup Hidden(d))) < Budget
  BY DEF WallDays
<1> DEFINE H == Hidden(d)
           S == CalledOn(d) \ (A \cup H)
           T == A \cup H
<1>2. /\ CalledOn(d) \in SUBSET Ids /\ A \in SUBSET Ids /\ H \in SUBSET Ids /\ H \subseteq CalledOn(d)
      /\ S \cup T = CalledOn(d) /\ S \cap T = {}
  BY DEF CalledOn, Hidden
<1>3. IsFiniteSet(A) /\ IsFiniteSet(H)
  BY <1>2, LogAssumption, FS_Subset
<1>4. IsFiniteSet(S) /\ S \subseteq Ids
  <2>1. S \in SUBSET Ids
    BY <1>2
  <2> HIDE DEF S
  <2> QED
    BY <2>1, LogAssumption, FS_Subset
<1> HIDE DEF H, S
<1>5. /\ IsFiniteSet(T) /\ Cardinality(T) = Cardinality(A) + Cardinality(H) - Cardinality(A \cap H)
      /\ Cardinality(A \cap H) \in Nat
  <2>1. A \cap H \in SUBSET A
    OBVIOUS
  <2>2. IsFiniteSet(A \cap H)
    BY <1>3, <2>1, FS_Subset
  <2> QED
    BY <1>3, <2>2, FS_Union, FS_CardinalityType
<1> DEFINE a == Cardinality(A)
           b == Cardinality(H)
           n == Cardinality(Procs)
           t == Cardinality(T)
<1>6. a \in Nat /\ b \in Nat /\ n \in Nat /\ t \in Nat /\ a <= n /\ t <= a + b
  <2>1. a \in Nat /\ b \in Nat /\ n \in Nat /\ t \in Nat
    BY <1>3, <1>5, LogAssumption, FS_CardinalityType
  <2> QED
    BY <1>1, <1>5, <2>1
<1>7. Largest \in Nat /\ \A i \in Ids : spent[i] \in Nat /\ spent[i] \in 0..Largest
  BY SpentIs DEF TurnInv
<1>8. T \subseteq Ids
  BY <1>2
<1> HIDE DEF T
<1>9. SumFunctionOnSet(spent, T) <= Largest * t /\ SumFunctionOnSet(spent, T) \in Nat
  BY <1>5, <1>7, <1>8, SumOfSmall, SumElement
<1>10. SumFunctionOnSet(spent, S) < Budget /\ SumFunctionOnSet(spent, S) \in Nat
  <2>1. SumFunctionOnSet(spent, S) \in Nat
    BY <1>4, <1>7, SumElement
  <2> QED
    BY <1>1, <2>1 DEF S, H
<1>11. SumFunctionOnSet(spent, CalledOn(d)) = SumFunctionOnSet(spent, S) + SumFunctionOnSet(spent, T)
  <2>1. \A i \in S \cup T : spent[i] \in Nat
    BY <1>4, <1>7, <1>8
  <2>2. SumFunctionOnSet(spent, S \cup T) = SumFunctionOnSet(spent, S) + SumFunctionOnSet(spent, T)
    BY <1>2, <1>4, <1>5, <2>1, SumOfBoth DEF T
  <2> QED
    BY <1>2, <2>2 DEF T
<1>12. Largest * t <= Largest * (n + b) /\ Largest * t \in Nat /\ Largest * (n + b) \in Nat
  <2> DEFINE big == n + b
  <2>1. big \in Nat /\ t <= big
    BY <1>6
  <2> HIDE DEF big, n, b, t
  <2>2. big * Largest \in Nat /\ t * Largest \in Nat /\ t * Largest <= big * Largest
    BY <1>6, <1>7, <2>1, Multiples
  <2>3. Largest * t = t * Largest /\ Largest * big = big * Largest
    BY <1>6, <1>7, <2>1
  <2>4. Largest * t <= Largest * big /\ Largest * t \in Nat /\ Largest * big \in Nat
    BY <2>2, <2>3, Zenon
  <2> QED
    BY <2>4 DEF big
<1> DEFINE x == SumFunctionOnSet(spent, S)
           y == SumFunctionOnSet(spent, T)
           u == Largest * t
           v == Largest * (n + b)
<1>13. x \in Nat /\ y \in Nat /\ u \in Nat /\ v \in Nat /\ x < Budget /\ y <= u /\ u <= v /\ Budget \in Nat
  BY <1>9, <1>10, <1>12, LogAssumption
<1> HIDE DEF x, y, u, v, n, b, t
<1>14. x + y < Budget + v
  BY <1>13
<1> QED
  BY <1>11, <1>14, Zenon DEF x, y, v, n, b, H

\* What the day's calls cost beyond the budget is bounded by one call for each
\* process and one for each turn whose close has no line of its own, whatever is torn,
\* lost or closed after midnight (DailyOvershootIsBounded).
THEOREM DayIsBounded == Spec => []DailyOvershootIsBounded
<1>1. Init => TurnInv /\ WallDays
  BY InitTurns, InitDays
<1>2. TurnInv /\ WallDays /\ [Next]_vars => (TurnInv /\ WallDays)'
  BY TurnsKept, DaysKept
<1> QED
  BY <1>1, <1>2, DaysWorth, PTL DEF Spec

-----------------------------------------------------------------------------
(* What explain shows *)

\* The lines at positions s of f, merged: each field as it is in the last that
\* has it.
Fields(f, s) == UNION {DOMAIN f[j].rec : j \in s}
With(f, s, field) == {j \in s : field \in DOMAIN f[j].rec}
Merged(f, s) == [field \in Fields(f, s) |-> f[Max(With(f, s, field))].rec[field]]

LEMMA MaxIs ==
  ASSUME NEW n \in Nat, NEW S, S \subseteq 1..n, S # {}
  PROVE  Max(S) \in S /\ \A y \in S : y <= Max(S)
<1>1. \E x \in S : \A y \in S : y <= x
  BY S \subseteq 0..n, GreatestNat
<1>2. \E x \in S : \A y \in S : x >= y
  BY <1>1
<1>3. Max(S) \in S /\ \A y \in S : Max(S) >= y
  BY <1>2, Zenon DEF Max
<1> QED
  BY <1>3

\* Where x is the last of them, its fields come first.
LEMMA MergedStep ==
  ASSUME NEW f, NEW n \in Nat, NEW s, s \subseteq 1..n, s # {}
  PROVE  Merged(f, s) = Merge(f[Max(s)].rec, Merged(f, s \ {Max(s)}))
<1> DEFINE m == Max(s)
           r == s \ {m}
<1>1. m \in s /\ \A y \in s : y <= m
  BY MaxIs
<1> HIDE DEF m
<1>2. Fields(f, s) = (DOMAIN f[m].rec) \cup Fields(f, r)
  BY <1>1 DEF Fields
<1>3. ASSUME NEW field \in DOMAIN f[m].rec PROVE Max(With(f, s, field)) = m
  <2>1. m \in With(f, s, field) /\ With(f, s, field) \subseteq 1..n
    BY <1>1 DEF With
  <2>2. Max(With(f, s, field)) \in s /\ m <= Max(With(f, s, field))
    BY <2>1, MaxIs DEF With
  <2> DEFINE x == Max(With(f, s, field))
  <2>3. x \in s /\ m <= x /\ x <= m /\ x \in 1..n /\ m \in 1..n
    BY <1>1, <2>2
  <2> HIDE DEF x
  <2>4. x = m
    BY <2>3
  <2> QED
    BY <2>4 DEF x
<1>4. ASSUME NEW field, field \notin DOMAIN f[m].rec PROVE With(f, s, field) = With(f, r, field)
  BY <1>4 DEF With
<1>5. DOMAIN Merged(f, r) = Fields(f, r)
  BY DEF Merged
<1>6. ASSUME NEW field \in Fields(f, s)
      PROVE  f[Max(With(f, s, field))].rec[field]
               = IF field \in DOMAIN f[m].rec THEN f[m].rec[field] ELSE Merged(f, r)[field]
  <2>1. CASE field \in DOMAIN f[m].rec
    BY <1>3, <2>1
  <2>2. CASE field \notin DOMAIN f[m].rec
    <3>1. field \in Fields(f, r)
      BY <1>2, <2>2
    <3>2. Merged(f, r)[field] = f[Max(With(f, r, field))].rec[field]
      BY <3>1 DEF Merged
    <3> QED
      BY <1>4, <2>2, <3>2
  <2> QED
    BY <2>1, <2>2
<1>7. Merge(f[m].rec, Merged(f, r))
        = [field \in Fields(f, s) |->
             IF field \in DOMAIN f[m].rec THEN f[m].rec[field] ELSE Merged(f, r)[field]]
  BY <1>2, <1>5 DEF Merge
<1>8. Merged(f, s) = Merge(f[m].rec, Merged(f, r))
  BY <1>6, <1>7 DEF Merged
<1> QED
  BY <1>8 DEF m

\* The fold of explain, if what is left to merge has the last line first.
LEMMA FoldIsMerged ==
  ASSUME NEW f, NEW S, IsFiniteSet(S),
         \A s \in SUBSET S : s # {} =>
           /\ Max(s) \in s
           /\ Merged(f, s) = Merge(f[Max(s)].rec, Merged(f, s \ {Max(s)}))
  PROVE  MapThenFoldSet(Merge, <<>>, LAMBDA j : f[j].rec, Max, S) = Merged(f, S)
<1> DEFINE Merges(g) == g = [s \in SUBSET S |-> IF s = {} THEN <<>>
                                                ELSE Merge(f[Max(s)].rec, g[s \ {Max(s)}])]
           last == [s \in SUBSET S |-> Merged(f, s)]
           fold == CHOOSE g : Merges(g)
<1>1. MapThenFoldSet(Merge, <<>>, LAMBDA j : f[j].rec, Max, S) = fold[S]
  BY DEF MapThenFoldSet
<1>2. ASSUME NEW s \in SUBSET S, s # {}
      PROVE  Max(s) \in s /\ s \ {Max(s)} \in SUBSET S /\ s \ {Max(s)} # s
  BY <1>2
<1>3. Merged(f, {}) = <<>>
  <2>1. Fields(f, {}) = {}
    BY DEF Fields
  <2> QED
    BY <2>1 DEF Merged
<1>4. Merges(last)
  <2>1. ASSUME NEW s \in SUBSET S
        PROVE  last[s] = IF s = {} THEN <<>> ELSE Merge(f[Max(s)].rec, last[s \ {Max(s)}])
    <3>1. CASE s = {}
      BY <1>3, <3>1
    <3>2. CASE s # {}
      <4>1. Merged(f, s) = Merge(f[Max(s)].rec, Merged(f, s \ {Max(s)}))
        BY <3>2
      <4> QED
        BY <1>2, <3>2, <4>1
    <3> QED
      BY <3>1, <3>2
  <2> QED
    BY <2>1
<1>5. Merges(fold)
  BY <1>4
<1> HIDE DEF fold, last
<1>6. fold[S] = last[S]
  <2>1. SUFFICES ASSUME NEW T, T = {s \in SUBSET S : fold[s] # last[s]}, T # {} PROVE FALSE
    BY Zenon
  <2>2. PICK s \in T : \A r \in T : r \subseteq s => r = s
    BY <2>1, SmallestSubset
  <2>3. CASE s = {}
    BY <1>4, <1>5, <2>1, <2>2, <2>3
  <2>4. CASE s # {}
    <3>1. s \ {Max(s)} \notin T
      BY <1>2, <2>1, <2>2, <2>4
    <3> QED
      BY <1>2, <1>4, <1>5, <2>1, <2>2, <2>4, <3>1
  <2> QED
    BY <2>3, <2>4
<1> QED
  BY <1>1, <1>6 DEF last

\* The fold of explain gives every field the value of the last line that has it.
LEMMA MergeIsLast ==
  ASSUME NEW f, NEW n \in Nat, NEW S, S \subseteq 1..n
  PROVE  MapThenFoldSet(Merge, <<>>, LAMBDA j : f[j].rec, Max, S) = Merged(f, S)
<1>1. IsFiniteSet(S)
  <2> DEFINE R == 1..n
  <2>1. IsFiniteSet(R) /\ S \in SUBSET R
    BY FS_Interval
  <2> HIDE DEF R
  <2> QED
    BY <2>1, FS_Subset
<1>2. ASSUME NEW s \in SUBSET S, s # {}
      PROVE  Max(s) \in s /\ Merged(f, s) = Merge(f[Max(s)].rec, Merged(f, s \ {Max(s)}))
  BY <1>2, MaxIs, MergedStep
<1> QED
  BY <1>1, <1>2, FoldIsMerged

\* The open line of a turn comes before its close.
Ordered ==
  \A j, k \in 1..Len(file) :
    /\ file[j].rec.kind = "open" /\ file[k].rec.kind = "close"
    /\ file[j].rec.id = file[k].rec.id
    => j < k

LEMMA OrderedKept == TurnInv /\ Ordered /\ [Next]_vars => Ordered'
<1> SUFFICES ASSUME TurnInv, Ordered, [Next]_vars PROVE Ordered'
  OBVIOUS
<1>1. /\ file \in Seq(Pieces) /\ \A j \in 1..Len(file) : file[j].rec \in asked
      /\ asked \subseteq Records
  BY DEF TurnInv, TypeInv, TypeOK
<1>2. CASE UNCHANGED file
  BY <1>2 DEF Ordered
<1>3. ASSUME NEW p \in Procs, line[p] # None, NEW x \in Pieces,
             file' = Append(file, x), x.rec = line[p], line[p] \in asked
      PROVE  Ordered'
  <2> DEFINE n == Len(file)
  <2>1. x \in Pieces /\ x.rec = line[p] /\ line[p] \in asked
    BY <1>3
  <2>2. /\ n \in Nat /\ Len(Append(file, x)) = n + 1
        /\ \A j \in 1..n : Append(file, x)[j] = file[j]
        /\ Append(file, x)[n + 1] = x
    BY <1>1, <2>1, Appended
  <2>3. file' = Append(file, x)
    BY <1>3
  <2> HIDE DEF n
  <2>4. line[p].kind = "open" => \A r \in asked : r.kind = "close" => r.id # line[p].id
    BY <1>3, LogAssumption, <1>1, <2>1, RecordShape DEF Owned, Truthful, TurnInv
  <2> SUFFICES ASSUME NEW j \in 1..n + 1, NEW k \in 1..n + 1,
                      file'[j].rec.kind = "open", file'[k].rec.kind = "close",
                      file'[j].rec.id = file'[k].rec.id
               PROVE  j < k
    BY <2>2, <2>3 DEF Ordered
  <2>5. CASE j \in 1..n /\ k \in 1..n
    BY <2>2, <2>3, <2>5 DEF Ordered
  <2>6. CASE j = n + 1
    <3>1. line[p].kind = "open" /\ line[p].id = file'[k].rec.id
      BY <2>1, <2>2, <2>3, <2>6
    <3>2. CASE k \in 1..n
      <4>1. file[k].rec \in asked /\ file[k].rec.kind = "close" /\ file[k].rec.id = line[p].id
        BY <1>1, <2>2, <2>3, <3>1, <3>2
      <4> QED
        BY <2>4, <3>1, <4>1
    <3>3. CASE k = n + 1
      BY <2>1, <2>2, <2>3, <3>1, <3>3
    <3> QED
      BY <2>2, <3>2, <3>3
  <2>7. CASE j \in 1..n /\ k = n + 1
    BY <2>2, <2>7
  <2> QED
    BY <2>2, <2>5, <2>6, <2>7
<1>4. ASSUME NEW p \in Procs, Appends(p) PROVE Ordered'
  <2>1. CASE WriteLine(p) \/ WriteShort(p) \/ WriteRest(p)
    BY <1>3, <2>1, Writes DEF WriteLine, WriteShort, WriteRest, TurnInv
  <2>2. CASE GiveUp(p)
    BY <1>2, <2>2 DEF GiveUp
  <2> QED
    BY <1>4, <2>1, <2>2 DEF Appends
<1>5. CASE Midnight \/ UNCHANGED vars
  BY <1>2, <1>5 DEF Midnight, log, vars
<1>6. ASSUME NEW p \in Procs, Turns(p) \/ Note(p) \/ Crash(p) PROVE Ordered'
  BY <1>2, <1>6 DEF Turns, Open, TodayStart, Call, Refuse, Answer, Close, Note, Crash, Stamp, log
<1> QED
  BY <1>4, <1>5, <1>6 DEF Next

LEMMA RecordFields ==
  ASSUME NEW r \in Records
  PROVE  /\ r.kind # "close" => DOMAIN r = {"kind", "id"}
         /\ r.kind = "close" => DOMAIN r = {"kind", "id", "ts", "tokens"}
         /\ r = [field \in DOMAIN r |-> r[field]]
  BY DEF Records

LEMMA TraceTold == TurnInv /\ Ordered => ExplainTellsTheTurn
<1> SUFFICES ASSUME TurnInv, Ordered, NEW i \in Ids
    PROVE  LET trace == Explain(file, i)
               closes == {r \in Read(file) : r.kind = "close" /\ r.id = i}
           IN IF closes = {} THEN "tokens" \notin DOMAIN trace
              ELSE \E r \in closes : trace = r /\ r.tokens = spent[i]
  BY DEF ExplainTellsTheTurn
<1> DEFINE lines == {j \in LinesRead(file) :
                       file[j].rec.kind # "note" /\ file[j].rec.id = i}
           closes == {r \in Read(file) : r.kind = "close" /\ r.id = i}
           m == Max(lines)
<1>1. /\ file \in Seq(Pieces) /\ Len(file) \in Nat
      /\ \A j \in 1..Len(file) : file[j].rec \in asked /\ file[j].rec \in Records
  BY LenProperties DEF TurnInv, TypeInv, TypeOK
<1>2. lines \subseteq 1..Len(file)
  BY DEF LinesRead
<1>3. \A j \in lines : file[j].rec.kind \in {"open", "close"} /\ file[j].rec \in Records
  BY <1>1, <1>2, RecordShape
<1>4. \A j \in lines : file[j].rec.kind = "close" => file[j].rec \in closes
  BY DEF Read
<1>5. \A r \in closes : \E j \in lines : file[j].rec = r
  <2> SUFFICES ASSUME NEW r \in closes PROVE \E j \in lines : file[j].rec = r
    OBVIOUS
  <2>1. PICK j \in LinesRead(file) : file[j].rec = r
    BY DEF Read
  <2> QED
    BY <2>1
<1>6. Explain(file, i) = Merged(file, lines)
  <2>1. Explain(file, i) = MapThenFoldSet(Merge, <<>>, LAMBDA j : file[j].rec, Max, lines)
    BY DEF Explain
  <2> HIDE DEF lines
  <2>2. MapThenFoldSet(Merge, <<>>, LAMBDA j : file[j].rec, Max, lines) = Merged(file, lines)
    BY <1>1, <1>2, MergeIsLast
  <2> QED
    BY <2>1, <2>2, Zenon
<1>7. ASSUME NEW j \in lines, NEW k \in lines, file[j].rec.kind = "open", file[k].rec.kind = "close"
      PROVE  j < k
  BY <1>2, <1>7 DEF Ordered
<1>8. \A r \in closes : r.tokens = spent[i]
  BY <1>1 DEF Read, LinesRead, Truthful, TurnInv
<1> HIDE DEF lines, closes
<1>9. CASE closes = {}
  <2>1. \A j \in lines : DOMAIN file[j].rec = {"kind", "id"}
    BY <1>3, <1>4, <1>9, RecordFields
  <2>2. "tokens" \notin Fields(file, lines)
    BY <2>1 DEF Fields
  <2>3. "tokens" \notin DOMAIN Explain(file, i)
    BY <1>6, <2>2 DEF Merged
  <2> QED
    BY <1>9, <2>3 DEF closes
<1>10. CASE closes # {}
  <2>1. PICK k \in lines : file[k].rec \in closes
    BY <1>5, <1>10
  <2>2. file[k].rec.kind = "close"
    BY <2>1 DEF closes
  <2>3. m \in lines /\ \A j \in lines : j <= m
    BY <1>1, <1>2, MaxIs
  <2> HIDE DEF m
  <2>4. m \in 1..Len(file) /\ k \in 1..Len(file) /\ k <= m
    BY <1>2, <2>3
  <2>5. file[m].rec.kind = "close"
    <3>1. CASE file[m].rec.kind = "open"
      <4>1. m < k
        BY <1>7, <2>2, <2>3, <3>1
      <4> QED
        BY <2>4, <4>1
    <3> QED
      BY <1>3, <2>3, <3>1
  <2> DEFINE r == file[m].rec
             rest == lines \ {m}
  <2>6. r \in closes /\ r \in Records /\ DOMAIN r = {"kind", "id", "ts", "tokens"}
    BY <1>3, <1>4, <2>3, <2>5, RecordFields
  <2>7. Merged(file, lines) = Merge(r, Merged(file, rest))
    BY <1>1, <1>2, <2>3, MergedStep DEF m
  <2>8. Fields(file, rest) \subseteq DOMAIN r
    <3>1. \A j \in lines : DOMAIN file[j].rec \subseteq {"kind", "id", "ts", "tokens"}
      BY <1>3, RecordFields
    <3> HIDE DEF r
    <3> QED
      BY <2>6, <3>1 DEF Fields
  <2>9. DOMAIN Merged(file, rest) = Fields(file, rest)
    BY DEF Merged
  <2>10. r = [field \in DOMAIN r |-> r[field]]
    BY <2>6, RecordFields
  <2> HIDE DEF r, rest
  <2>11. Merge(r, Merged(file, rest)) = r
    <3>1. Merge(r, Merged(file, rest)) = [field \in DOMAIN r |-> r[field]]
      BY <2>8, <2>9 DEF Merge
    <3> QED
      BY <2>10, <3>1
  <2>12. Explain(file, i) = r /\ r.tokens = spent[i]
    BY <1>6, <1>8, <2>6, <2>7, <2>11
  <2> QED
    BY <1>10, <2>6, <2>12 DEF closes
<1> QED
  BY <1>9, <1>10

\* explain shows of a turn whose close can be read what it cost, of any other no
\* cost (ExplainTellsTheTurn).
THEOREM ExplainIsTrue == Spec => []ExplainTellsTheTurn
<1>1. Init => Ordered
  BY DEF Init, Ordered
<1> QED
  BY <1>1, InitTurns, TurnsKept, OrderedKept, TraceTold, PTL DEF Spec
=============================================================================
