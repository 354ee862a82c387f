------------------------------ MODULE EventLog ------------------------------
(***************************************************************************)
(* The file events.jsonl, byte ranges instead of records: what its readers *)
(* make of lines that were cut short, glued together or torn inside a      *)
(* character (trace/events.py), and what the daily token wall, which reads *)
(* it, is worth then (llm/client.py, _check_budget).  A process opens the  *)
(* file for appending and hands a line to write(2), which the system may   *)
(* carry out in part: the disk is full, or the process is killed.  Turns   *)
(* have one call to a cloud model, those of POST /chat have no more.       *)
(***************************************************************************)
EXTENDS Integers, FiniteSets, Sequences, SequencesExt, TLC

CONSTANTS
  Procs,      \* processes that append, read and spend
  Ids,        \* ids of turns and of other events, each used once
  Spends,     \* the tokens a call may cost
  Budget,     \* client.config.daily_token_budget, above 0
  MaxDay,     \* bound: how many midnights pass and rests are cut short, in all
  MaxShort,   \* bound: how many lines are cut short
  None

ASSUME LogAssumption ==
  /\ IsFiniteSet(Procs) /\ IsFiniteSet(Ids) /\ None \notin Ids \cup Nat
  /\ Spends \subseteq Nat /\ \E u \in Spends : \A v \in Spends : v <= u
  /\ Budget \in Nat \ {0}
  /\ MaxDay \in Nat /\ MaxShort \in Nat

VARIABLES
  file,     \* the pieces of lines in the file, in order
  day,      \* the local day it is
  pc,       \* where each process is once its line is written
  line,     \* the record each process is appending, or None
  left,     \* what is still to be written of it: "all", "rest" or its "newline"
  turn,     \* the turn a process is in
  since,    \* the midnight it counts from
  asked,    \* history: the records handed to append
  written,  \* history: the records that were written in full
  called,   \* history: the day on which each turn called the model
  spent     \* history: the tokens its answer cost

log == <<file, line, left, asked, written>>
history == <<asked, written, called, spent>>
vars == <<file, day, pc, line, left, turn, since, history>>

\* A line of the log.  Open lines are the pre-call traces, close lines alone
\* carry total_tokens, notes are all the others: audits, ingests, local turns.
\* The time stamp is left out where no reader looks at it.
OpenLine(i) == [kind |-> "open", id |-> i]
NoteLine(i) == [kind |-> "note", id |-> i]
CloseLine(i, d, u) == [kind |-> "close", id |-> i, ts |-> d, tokens |-> u]

Records ==
  [kind : {"open", "note"}, id : Ids]
  \cup [kind : {"close"}, id : Ids, ts : 0..MaxDay, tokens : Spends]

\* A piece is what one write(2) puts into the file: it goes from the start of
\* the line or from where the last write stopped, to its newline ("newline"), to
\* all but the newline ("body"), or to a part of the line that ends between two
\* characters ("head") or inside one ("torn").
Cuts == {"body", "head", "torn"}
Pieces == [rec : Records, from : {"start", "later"}, to : Cuts \cup {"newline"}]
Piece(r, from, to) == [rec |-> r, from |-> from, to |-> to]

\* mutant: the line is written without its newline
NoNewline(p) == p.to = "newline" /\ p.from = "later"

EndsLine(p) == p.to = "newline"

\* Position j of the file is the first of a line.
StartsLine(f, j) == j = 1 \/ EndsLine(f[j - 1])

\* From j to k one line begins and holds a single record, which was appended
\* once: its pieces follow each other.  A line made of two records is no JSON.
OneRecord(f, j, k) ==
  /\ StartsLine(f, j) /\ f[j].from = "start"
  /\ \A i \in j..k : f[i].rec = f[j].rec

Intact(f, j) == \E k \in j..Len(f) : EndsLine(f[k]) /\ OneRecord(f, j, k)

\* The last line may lack its newline and still be read.
Hanging(f, j) == OneRecord(f, j, Len(f)) /\ f[Len(f)].to = "body"

Whole(f) == {f[j].rec : j \in {k \in 1..Len(f) : Intact(f, k)}}
LastLine(f) == {f[j].rec : j \in {k \in 1..Len(f) : Hanging(f, k)}}

\* Half a character is mended by the rest of its own line only: another line
\* begins with "{", and the rest of another line that was torn would have had to
\* follow that one.
TornForGood(f) ==
  \E j \in 1..Len(f) : j < Len(f) /\ f[j].to = "torn" /\ f[j + 1].rec # f[j].rec

Torn(f) == {f[j].rec : j \in {k \in 1..Len(f) : k = Len(f) /\ f[k].to = "torn"}}

\* Every reader of the file raises UnicodeDecodeError, which none of them
\* catches, wherever in the file the half character is.
Undecodable(f) == TornForGood(f) \/ Torn(f) # {}

\* The lines a reader gets to see, and the records it finds; those with a
\* newline it goes on to find.
LinesRead(f) ==
  IF Undecodable(f) THEN {} ELSE {j \in 1..Len(f) : Intact(f, j) \/ Hanging(f, j)}
Read(f) == {f[j].rec : j \in LinesRead(f)}
Kept(f) == IF Undecodable(f) THEN {} ELSE Whole(f)

\* events.sum_cloud_tokens_since, of a file that can be decoded
SumSince(f, d) ==
  LET lines == {j \in LinesRead(f) : f[j].rec.kind = "close" /\ f[j].rec.ts >= d}
  IN SumFunction([j \in lines |-> f[j].rec.tokens])

\* mutant: the first line of a turn wins
FirstWins(later, merged) == merged @@ later

Merge(later, merged) ==
  [field \in DOMAIN later \cup DOMAIN merged |->
     IF field \in DOMAIN later THEN later[field] ELSE merged[field]]

\* events.explain: the lines of a turn merged, later fields winning; nothing is
\* a KeyError, or the UnicodeDecodeError.
Explain(f, i) ==
  LET lines == {j \in LinesRead(f) : f[j].rec.kind # "note" /\ f[j].rec.id = i}
  IN MapThenFoldSet(Merge, <<>>, LAMBDA j : f[j].rec, Max, lines)
-----------------------------------------------------------------------------
Init ==
  /\ file = <<>>
  /\ day = 0
  /\ pc = [p \in Procs |-> "idle"]
  /\ line = [p \in Procs |-> None] /\ left = [p \in Procs |-> "all"]
  /\ turn = [p \in Procs |-> None]
  /\ since = [p \in Procs |-> 0]
  /\ asked = {} /\ written = {}
  /\ called = [i \in Ids |-> None] /\ spent = [i \in Ids |-> 0]

Unused == Ids \ {r.id : r \in asked}

Go(p, from, to) ==
  /\ pc[p] = from /\ line[p] = None
  /\ pc' = [pc EXCEPT ![p] = to]

(* events.append                                                            *)

\* time.time() and json.dumps, before the file is opened
Stamp(p, r) ==
  /\ line' = [line EXCEPT ![p] = r]
  /\ asked' = asked \cup {r}
  /\ UNCHANGED <<file, left, written>>

Done(p) ==
  /\ line' = [line EXCEPT ![p] = None]
  /\ left' = [left EXCEPT ![p] = "all"]

\* mutant: the file is opened for writing
Overwrite(p) ==
  /\ line[p] # None /\ left[p] = "all"
  /\ file' = <<Piece(line[p], "start", "newline")>>
  /\ written' = written \cup {line[p]}
  /\ Done(p)
  /\ UNCHANGED <<day, pc, turn, since, asked, called, spent>>

WriteLine(p) ==
  /\ line[p] # None /\ left[p] = "all"
  /\ file' = Append(file, Piece(line[p], "start", "newline"))
  /\ written' = written \cup {line[p]}
  /\ Done(p)
  /\ UNCHANGED <<day, pc, turn, since, asked, called, spent>>

CutsIn(f) == {j \in 1..Len(f) : f[j].to \in Cuts}
Cut(f, from) == Cardinality({j \in CutsIn(f) : f[j].from = from})
From(p) == IF left[p] = "all" THEN "start" ELSE "later"

\* The system writes part of the line, or of the rest of it.  All text in a close
\* line is ASCII.
WriteShort(p) ==
  /\ line[p] # None /\ left[p] \in {"all", "rest"}
  /\ IF left[p] = "all" THEN Cut(file, "start") < MaxShort
     ELSE day + Cut(file, "later") < MaxDay
  /\ \E to \in IF line[p].kind = "close" THEN Cuts \ {"torn"} ELSE Cuts :
       /\ file' = Append(file, Piece(line[p], From(p), to))
       /\ left' = [left EXCEPT ![p] = IF to = "body" THEN "newline" ELSE "rest"]
  /\ UNCHANGED <<day, pc, line, turn, since, history>>

\* The buffer is flushed again, by its own loop or when the file is closed.
WriteRest(p) ==
  /\ line[p] # None /\ left[p] \in {"rest", "newline"}
  /\ file' = Append(file, Piece(line[p], "later", "newline"))
  /\ written' = written \cup {line[p]}
  /\ Done(p)
  /\ UNCHANGED <<day, pc, turn, since, asked, called, spent>>

\* "Logging must never break the main path": the exception is swallowed.
GiveUp(p) ==
  /\ line[p] # None
  /\ Done(p)
  /\ UNCHANGED <<file, day, pc, turn, since, history>>
-----------------------------------------------------------------------------
(* What a process does                                                      *)

\* An event of another kind, and a turn's pre-call trace.
Note(p) ==
  /\ Go(p, "idle", "idle")
  /\ \E i \in Unused : Stamp(p, NoteLine(i))
  /\ UNCHANGED <<day, turn, since, called, spent>>

Open(p) ==
  /\ Go(p, "idle", "today")
  /\ \E i \in Unused :
       /\ turn' = [turn EXCEPT ![p] = i]
       /\ Stamp(p, OpenLine(i))
  /\ UNCHANGED <<day, since, called, spent>>

\* _check_budget: today_start_ts, and then the sum of the lines since
TodayStart(p) ==
  /\ Go(p, "today", "count")
  /\ since' = [since EXCEPT ![p] = day]
  /\ UNCHANGED <<day, turn, called, spent, log>>

\* mutant: a log that cannot be decoded counts as empty
FailOpen(p) == SumSince(file, since[p]) >= Budget

\* BudgetExceeded, or the UnicodeDecodeError of a torn log
Barred(p) == Undecodable(file) \/ SumSince(file, since[p]) >= Budget

Call(p) ==
  /\ Go(p, "count", "calling")
  /\ ~Barred(p)
  /\ called' = [called EXCEPT ![turn[p]] = day]
  /\ since' = [since EXCEPT ![p] = 0]
  /\ UNCHANGED <<day, turn, spent, log>>

Refuse(p) ==
  /\ Go(p, "count", "idle")
  /\ Barred(p)
  /\ turn' = [turn EXCEPT ![p] = None]
  /\ since' = [since EXCEPT ![p] = 0]
  /\ UNCHANGED <<day, called, spent, log>>

\* mutant: the usage is counted chunk by chunk and again at the end
CountTwice(p) ==
  /\ Go(p, "calling", "close")
  /\ \E u \in Spends : spent' = [spent EXCEPT ![turn[p]] = u + u]
  /\ UNCHANGED <<day, turn, since, called, log>>

Answer(p) ==
  /\ Go(p, "calling", "close")
  /\ \E u \in Spends : spent' = [spent EXCEPT ![turn[p]] = u]
  /\ UNCHANGED <<day, turn, since, called, log>>

Close(p) ==
  /\ Go(p, "close", "idle")
  /\ turn' = [turn EXCEPT ![p] = None]
  /\ Stamp(p, CloseLine(turn[p], day, spent[turn[p]]))
  /\ UNCHANGED <<day, since, called, spent>>

\* The process dies, or its turn does with an exception.
Crash(p) ==
  /\ pc[p] # "idle" \/ line[p] # None
  /\ pc' = [pc EXCEPT ![p] = "idle"]
  /\ turn' = [turn EXCEPT ![p] = None]
  /\ since' = [since EXCEPT ![p] = 0]
  /\ Done(p)
  /\ UNCHANGED <<file, day, history>>

Midnight ==
  /\ day + Cut(file, "later") < MaxDay
  /\ day' = day + 1
  /\ UNCHANGED <<pc, turn, since, called, spent, log>>
-----------------------------------------------------------------------------
Appends(p) == WriteLine(p) \/ WriteShort(p) \/ WriteRest(p) \/ GiveUp(p)
Turns(p) == Open(p) \/ TodayStart(p) \/ Call(p) \/ Refuse(p) \/ Answer(p) \/ Close(p)

Next ==
  \/ \E p \in Procs : Appends(p) \/ Turns(p) \/ Note(p) \/ Crash(p)
  \/ Midnight

Spec == Init /\ [][Next]_vars
-----------------------------------------------------------------------------
(* Properties                                                               *)

\* The shape of the state: what is in the file was handed to append, a process
\* past Open has a turn, one that has written part of a line owes the rest.
TypeOK ==
  /\ file \in Seq(Pieces) /\ \A j \in 1..Len(file) : file[j].rec \in asked
  /\ day \in 0..MaxDay
  /\ pc \in [Procs -> {"idle", "today", "count", "calling", "close"}]
  /\ DOMAIN line = Procs /\ \A p \in Procs : line[p] # None => line[p] \in asked
  /\ left \in [Procs -> {"all", "rest", "newline"}]
  /\ turn \in [Procs -> Ids \cup {None}] /\ \A p \in Procs : turn[p] = None <=> pc[p] = "idle"
  /\ since \in [Procs -> 0..MaxDay]
  /\ asked \subseteq Records /\ written \subseteq asked
  /\ DOMAIN called = Ids /\ \A i \in Ids : called[i] # None => called[i] \in 0..MaxDay
  /\ spent \in [Ids -> Spends \cup {0}]

\* events.py:1-7, "single append-only event log": whatever is written, cut short
\* or given up around it, a record on a line of its own is found for good,
\* unless a line is torn inside a character; then every reader raises, until the
\* rest of that line follows and for good if anything else does (events.py:37-38,
\* 67-68).
Promised == INSTANCE LogPromise WITH
  kept <- Whole(file), tail <- LastLine(file),
  torn <- Torn(file), lost <- TornForGood(file)
KeepsLogPromise == Promised!LogSpec

\* The damage of a write that was cut short between two characters is confined:
\* besides its own record at most one other that was written in full cannot be
\* read (events.py:24-25, 40-43).  One that is cut inside a character and not
\* mended costs the whole log.
ATearCostsTwo ==
  Undecodable(file) \/ Cardinality(written \ Kept(file)) <= 2 * Cardinality(CutsIn(file))

\* The trace explain shows (events.py:30-52): of a turn whose close can be read,
\* what the turn cost and when it closed, whether or not its open line was lost;
\* of any other, no cost, and of a log that cannot be decoded nothing.
ExplainTellsTheTurn ==
  LET read == Read(file)
  IN \A i \in Ids :
       LET trace == Explain(file, i)
           closes == {r \in read : r.kind = "close" /\ r.id = i}
       IN IF closes = {} THEN "tokens" \notin DOMAIN trace
          ELSE \E r \in closes : trace = r /\ r.tokens = spent[i]

Largest == CHOOSE u \in Spends : \A v \in Spends : v <= u
Running(i) == \E p \in Procs : turn[p] = i \/ (line[p] # None /\ line[p].id = i)
CalledOn(d) == {i \in Ids : called[i] = d}
Hidden(d) == {i \in CalledOn(d) : ~Running(i) /\ ~\E r \in Whole(file) : r.kind = "close" /\ r.id = i}

\* client.py:171-185, what the daily wall is worth over a log that loses lines:
\* the calls of a day cost more than the budget by less than one call for each
\* process and one for each turn whose close has no line of its own, also when
\* the wall is asked, or a turn closed, across midnight.
DailyOvershootIsBounded ==
  \A d \in 0..MaxDay :
    SumFunctionOnSet(spent, CalledOn(d))
      < Budget + Largest * (Cardinality(Procs) + Cardinality(Hidden(d)))
=============================================================================
