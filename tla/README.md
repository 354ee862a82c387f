# Mneme, specified

TLA+ models of Mneme (`mneme/`), a local-first chat agent with a long-term memory, with the TLC
runs that check them and TLAPS proofs about them. File names below are relative to `mneme/`.

## The system

```
 mneme chat (REPL)    POST /chat, /forget (server threads)    respond_stream callers
        \                         |                                  /
         +--------------- agent turn (agent.py) --------------------+
              |                    |                      |
     ingest / recall / forget   LLM client            tool registry -> tools
     memory/*.py                llm/client.py         tools/*.py, with the user's yes
              |                    |
        mneme.db (SQLite)      providers (HTTP)
              \___________ events.jsonl ___________/   trace/events.py
```

| component | state | operations | hard behaviour | what makes it correct |
|---|---|---|---|---|
| ingest (`memory/ingest.py`) | rows of `slices`, `vec_slices`, `nodes`, `edges`; locals of a save | `save_user_message`, `save_assistant_message`: stage A, extraction, stage B, event | two transactions around an LLM call, other clients in between | slices and vectors 1:1, saves durable, stage B adds to a slice that is there or adds nothing |
| embedding cache (`memory/embed.py`) | `embeddings_cache` | `embed`: look up, ask, insert, commit | check-then-act around a slow call; a write outside `store.tx` | a duplicate call does no harm; a failure leaves nothing behind |
| forget (`memory/forget.py`) | the same tables | `forget`: two reads, one transaction, event | stale reads, cascade, race with stage B | nothing of a forgotten slice remains or comes back |
| store (`memory/store.py`, `schema.sql`) | the database file, its write lock, a transaction for each connection | `connect`, `tx`, `init_db` and migration, `snapshot` | lock timeouts, crashes, two processes migrating, a migration cut and run again | commit or roll back whole; a migration that returned is whole, real sessions stay |
| concepts (`memory/concept.py`) | none | `extract` | malformed answers | only named nodes get edges |
| recall (`memory/retrieve.py`, `graph.py`) | locals; a row of SELECTs | vector search, seeds, BFS, scores, character budget | forgets in between, limits | stable order, no forgotten text, within the budget |
| agent turn (`agent.py`) | locals of a turn | `respond`, `respond_stream`: open, loop, tool calls, close | failures at every step, callbacks, cap | only approved tools run, audits and traces are true, the loop ends |
| LLM client (`llm/client.py`) | one object for each process, `last_usage` | `chat`, streams, `embed`, `_check_budget` | shared by server threads | each turn is charged its own tokens; the wall holds |
| prompt budget (`llm/budget.py`) | none | `assemble_prompt` | boundaries, `PromptTooBig` | the longest prefix of the ranking that fits |
| event log (`trace/events.py`) | `events.jsonl` | `append`, `explain`, `today_start_ts`, `sum_cloud_tokens_since` | lost lines, short writes, torn characters, no lock, midnight | what is read was written, and stays readable unless a line is torn inside a character; other damage is confined; the sum bounds the day's spend |
| tool registry and tools (`tools/*.py`) | the registry | `tool`, `execute`, `schemas_for_provider`; shell, python_exec, file_read, web_fetch | redirects, files that change or give way to pipes, commands that leave children, negative caps, timeouts | every hop is checked and counted; caps hold, cuts are told; an exit code is the command's, its output complete; a call ends |
| server, CLI (`server.py`, `cli.py`) | a connection for each request, or for each REPL; session ids | `/chat`, `/forget`, `/explain`, `/snapshot`, `/stats`; `chat`, `search`, `stats`, ... | threads over one client; a REPL that survives exceptions | no request sees another's state |
| prices, ids, soul, paths | none that changes | lookup, `ulid`, load | clock set back | ids distinct and ordered |

Components interact in four ways: calls in one thread (turn to ingest to embed to provider), the
database file (all processes and threads), the event log (all of them, and read back by the
budget), and the client object (the threads of one server).

## Modules

| module | what it is |
|---|---|
| `MemoryPromise` | the abstract memory: `Remember`, `Relate`, `Forget`, each atomic; `erased` slices never return |
| `MemoryStore` | ingest, embed, concept, forget, store and schema, one SQL statement a step |
| `MCMemoryStore` | its instances: extraction answers, symmetry of slice ids |
| `MemoryStoreProofs` | its inductive invariants, the log's and the refinement, proved |
| `AgentTurn` | a chat turn, the client its process shares, the log all processes share |
| `MCAgentTurn` | its instances |
| `AgentTurnProofs` | its inductive invariants, the bounds on spend and on the length of a turn, proved |
| `Recall` | recall and graph search, query by query, over `MemoryPromise`, then the prompt budget |
| `MCRecall` | its instances: concepts on a cycle and a path, turns and searches |
| `RecallProofs` | its inductive invariants, and what a search finds while others write, proved |
| `LogPromise` | the abstract log: what a reader finds, until a line torn inside a character hides it all |
| `EventLog` | the file of the log as pieces of lines; its readers; the daily token wall |
| `MCEventLog` | its instance |
| `EventLogProofs` | the refinement of `LogPromise`, the bounds on damage and on a day's spend, and `explain`, proved |
| `Migration` | `init_db`, statement by statement, by several processes, with saves meanwhile |
| `MigrationProofs` | its inductive invariant, proved |
| `Tools` | one call of `registry.execute`, with the servers, files and commands it meets |
| `MCTools` | its instance |
| `ToolsProofs` | its inductive invariant, proved |
| `FoldProofs` | lemmas about sums over finite sets, used by the proofs of turns, the log and recall |

What stands on what, each of it proved: `MemoryStore` implements `MemoryPromise`
(`MemoryKeepsPromise`), and the memory over which `Recall` reads is `MemoryPromise`
(`RecallOnlyReads`); `EventLog` implements `LogPromise` (`LogKeepsPromise`). `Execute` of `AgentTurn` is one
call of `Tools`, the saves of its turn are operations of `MemoryStore`, and its log is one whose lines are
found at once or never: the torn and glued ones are `EventLog`'s. No proof is about these three.

### MemoryStore

`db` is the committed database, `wal` what the transaction of `writer` sees, `view[c]` the transaction open
on the connection of `c` (none, begun, or the snapshot it read). The schema puts the database in WAL mode,
so readers never wait, a writer needs the lock, and a connection whose snapshot is behind the last commit
cannot write (`CanWrite`), also when a later commit took back what the one before changed: `behind` has
those connections, and each commit puts in it all others that have read (`Overtake`). Each client runs one
operation; `pc` and `job` are its program counter and locals. The action names follow the code: `Lookup`,
`AskProvider`, `CacheVector` are `embed`; `InsertSlice`, `InsertVector`, `CommitA` stage A; `Extract` the
extraction; `InsertNodes`, `InsertEdges`, `CommitB` stage B; `Forget` and `CountEdges` the two reads of
`forget.forget` (of an unknown id the first alone, which leaves its mark on the snapshot), `DeleteVector`,
`DeleteSlice`, `CommitForget` its transaction; `LogIngest` and `LogForget` the events. `LLMFails`,
`CacheFails`, `TxFails` and `Crash` are the ways out. `Repls` keep their connection, and so what a failed
cache write left open on it; the others close theirs. `saved`, `erased` and `asked` are history.

Abstractions. A text stands for its vector and its cache key. The extraction's duplicate edges are
one (each would get its own id in the code), a node is its name (`INSERT OR IGNORE` by `UNIQUE
name`), the inserts of one stage-B loop are one step, since nobody else can see or write between
them. A new ULID is an unused one. The memory of a crashed process is gone, its committed data is
not (`PRAGMA synchronous` at its default).

### AgentTurn

`pc[t]` and `turn[t]` are the point and the locals of the turn of thread `t`; `lastUsage` is
`client.last_usage`, one for each process (`ClientOf`); `log` is the set of lines of the file.
`Begin` to `Open` are `_open_turn` (with the extraction's call to the model as two steps, and the
pre-call trace), `StartCall`, `EndCall`, `ReadUsage` one round of the loop, `Announce`, `Accept`,
`Reject`, `Execute`, `Report` are `_run_tool_call`, `AfterCall` chooses between the next call of the
batch, the next round and the end, `SaveReply` and `Close` are `_close_turn`, `Fail` an exception,
`Crash` the end of a process with all its threads. `Repls` have a confirm callback and tools,
`Requests` neither and one process between them, `Streams` no callback and a stream that may end
without usage: an answer the provider bills and the code knows no tokens of, whose turn is then in `mute`.
`Execute` ends with a `ToolResult`; that arguments which are no object raise (`registry.py:293-300`) is
`Fail` at that point. What a line would have said is kept in `lost` when it could not be written; `chats`,
`billed`, `mute`, `approved`, `ran` and `remembered` are history.

Abstractions. The saves and the recall of a turn are steps that succeed or raise: `MemoryStore` has
their insides. A trace and its turn have one id. A tool call is its number in the turn. A batch with
a rejection is the last, so `any_rejected` is "rejected any so far". Tokens are one number, cost and
citation class are left out, the day does not end, `Budget = 0` is no wall or a local provider. The
cloud audit lines (`_audit`) are left out. `Report` is one line however large. The tokens of an
extraction are metered nowhere in the code, and so are no part of `billed`.

### Recall

`MemoryStore` implements `MemoryPromise`; `Recall` stands on the promise and adds a reader.
`Ask` starts a turn's recall, or `mneme search`; `VecSearch`, `Seeds`, `Visit`, `GraphSearch` and
`Fetch` are the SELECTs of `retrieve.recall` and `graph.bfs`, one step each, so that `Saved`,
`Related` and `Forgotten` of other clients fall between any two; `Recalled` is its return. `Drop`,
`Assembled` and `TooBig` are the loop of `assemble_prompt` and its ends, over `Window`, `RatioInverse`
and `Budget`. `TooManyVariables` is the recall that binds more nodes than SQLite allows, `NoInverse` the
ratio (nan, or next to 0) over which `round` raises. `gone`,
`still`, `steady` and `ever` are history: what was forgotten in time, whether anybody wrote, which
relations held all the time or at some time.

Abstractions. Recalls write nothing but the vector of a new query, which is `Lookup` to `CacheVector`
of `MemoryStore`; so one reader is enough. Each SELECT sees the last commit: the connection has no
transaction open, other than after the failure `open_transaction` shows. The queue of `bfs` is first
in, first out, and so a set of nodes for each depth, taken in any order. A slice's nearness is its
share of the score in percent points; equal distances are resolved either way. A turn's own slice is
as near as any to what it says. The reserve ratio is in whole percent. Texts are their lengths.

### EventLog

`file` is the sequence of pieces in `events.jsonl`. `line[p]` and `left[p]` are the record a process is
in the middle of appending. The file is opened for appending and a line leaves Python in one `write(2)`,
so that lines of two processes do not mix (`WriteLine`), unless the system carries the write out in part:
`WriteShort` leaves all but the newline (`body`), a part that ends between characters (`head`) or inside
one (`torn`; only in lines that hold text other than ASCII); then the rest follows (`WriteRest`), with
lines of others before it perhaps, or `append` gives up (`GiveUp`) or the process dies (`Crash`).
A rest may be cut short again. `Whole` are the records on lines of their own, which `json.loads` accepts,
`LastLine` the one that lacks but its newline at the end of the file. A file is `Undecodable` when a line is
torn inside a character and something else than its rest follows (`TornForGood`), or nothing yet (`Torn`):
then every reader raises `UnicodeDecodeError`, and `Read`, `Kept` and `Explain`, the readers' results, are
empty. `Note`, `Open` and `Close` are
the callers of `append`; `TodayStart`, `Call`, `Refuse` the two reads of `_check_budget` and its outcome,
`Midnight` the clock. `Explain` and `SumSince` are functions of the file. `asked`, `written`, `called` and
`spent` are history.

Abstractions. A record is its kind, its id and, in a close, the day and the tokens. A cut at any byte is one
of the three: no proper part of a JSON object is JSON, but for its newline. Turns have one call. `explain`
of an id stands for the trace lines alone; events of other kinds are notes. Write errors before the first
byte are `GiveUp`.

### Migration

`made`, `column` and `session` are the tables, whether `slices` has `session_id`, and the session of each
row; `writer` and `staged` the open back-fill. `Create` is a statement of `schema.sql`, or the
`CREATE VIRTUAL TABLE`, each of which commits alone (`executescript` commits first, and DDL opens no
transaction in Python's `sqlite3`); `TableInfo`, `Alter`, `Update`, `CreateIndex`, `Commit` the rest:
the `UPDATE` opens the transaction that `cx.commit()` ends. `Locked` is a lock that was not to be had in
5 s, `Crash` a process that dies, `Begin` an init that starts, or starts again; `Save` is stage A of a
client. The indexes of `schema.sql` are part of the table they belong to.

### Tools

`Execute` is `registry.execute` with any tool, any set of typed arguments and one more that is not declared,
`NoObject` with arguments that are no object, which may raise; `pc` follows the tool from there.
*web_fetch*: `BadURL`, `Refuse`, `Allow` are the checks of a URL and of its host, before the first request
and after each redirect; `Get` is the request, `Redirect`, `Deliver`, `FetchFails` what comes of it.
`passed` and `gets` are history. *file_read*: `Resolve`, `Exists`, `IsFile`, `Probe`, `ReadFile` are its
system calls, one step each, and `Rewrite` is another process that changes the file between any two; where
it put a named pipe there, `OpenPipe` opens it and waits for somebody to write (`Feed`), as `open` does,
without end. *shell* and *python_exec*: `child` is the command, what it wrote and what was read of it, and
whether it or something it left in the background still holds the pipes; `Collect` is `communicate` that
returns, `Deadline` the timeout that kills the command but not what it left. `Text` is what universal
newlines make of the output (CRLF is one character), `Replaced` what the decoding of a partial output makes
of it. A result says what went wrong, the exit code, how many bytes it shows and whether a marker says that
there were more.

Abstractions. Contents are lengths; in the partial output of a timeout all bytes are characters, or none is.
A URL is a scheme class and a host, a host is let through or not at each check (names can resolve anew).
Strings and lists in arguments have no content. The time limit of `python_exec`, clamped to 0.1 to 60 s, is
one deadline. Where Python versions differ (`Path.exists` under a closed directory) both outcomes are steps.

## What the runs check

| run | bounds | what it shows |
|---|---|---|
| `memory_safety` | 2 clients (one REPL), 2 slices, 2 texts, 3 extraction answers, all faults | `DatabaseIsWhole`, `ForgottenLeavesNoTrace`, `SavedIsDurable`, `LogIsTrue`, `LockHeldInTransaction`, `TypeOK`, and `KeepsPromise`: the refinement of `MemoryPromise` |
| `memory_progress` | 1 text | `OperationsEnd`: every save and forget ends |
| `agent_turn` | a REPL and a stream, 3 turns, 2 rounds, batches of up to 2 tool calls, budget of 2 calls, faults llm, memory, crash | `AuditTellsWhatRan`, `CloseIsTrue`, `OvershootIsBounded`, `LoopIsCut`, `TypeOK` |
| `agent_progress` | 1 turn, batches of up to 2 tool calls, all faults, lost log lines and answers without usage too | `TurnsEnd`; `TurnsShrink`: each step leaves a turn fewer; `EachTurnCountsItsOwn`, `OvershootIsBounded` |
| `recall` | 3 slices, 5 concepts on a cycle and a path from it, k from -1 to 9, up to 2 hops, 5 turns and 3 searches | `ReachesWhatHeld`, `RecallIsExact`, `ForgottenStaysOut`, `RankedRecall`, `LongestThatFits`, `TypeOK` |
| `event_log` | 2 processes, 3 ids, 1 line cut short, 1 midnight or rest cut short, a budget of 1 call | `KeepsLogPromise`: the refinement of `LogPromise`; `ATearCostsTwo`, `ExplainTellsTheTurn`, `DailyOvershootIsBounded`, `TypeOK` |
| `migration` | 2 inits, run again without limit, 3 slices of which 2 are old | `RealSessionsStay`, `DoneIsWhole`, `SafeToRerun`, `InitEnds`, `TypeOK` |
| `tools` | each tool, 2 hosts, 2 redirects, a ceiling of 3, `max_bytes` from -6 to 5, sizes to 4 | `EveryHopIsChecked`, `RedirectsAreCounted`, `NothingCutSilently`, `CapHolds`, `ExitIsTheCommands`, `ToolEnds`, `TypeOK` |
| `stage_b` | two server threads, no faults | violated: "best-effort" stage B raises on a busy lock or a forgotten slice |
| `open_transaction` | a REPL and a server thread, 3 slices | violated: after a failed cache write the REPL cannot write though the lock is free |
| `shared_usage` | two server threads | violated: a turn reports another's tokens, or none |
| `ratio` | one turn, a window of 128000, 70 % reserved | violated: a prompt of 300 tokens is refused, since the divisor is rounded to 1 |

The bounds suffice because the hazards need little: every race here is between two clients over one slice,
text or log; two slices separate "mine" from "the other's", and a second operation of the same client
follows the first, so that leftovers of a failed operation are met. Two rounds are one below and one at the
cap; a batch of two has a call after a rejection. Three turns with a budget of two calls let one turn be
blocked by two that closed. For `Recall` a search with `k` = 1 finds one slice by its vector and others only
by their edges; two hops reach the end of the path only from the cycle's near side; two texts fill the
character budget exactly, the third is longer than it; `SqlVariables` = 8 and `VecKMax` = 3 stand for
SQLite's limit and 4096, and four and five nodes are at and above the one, `k` = 2 and 9 below and above the
other; prompts fit whole, in part or not at all, with one slice but not with the longer text for none, and
into a window of which nothing is left. Turns have `k` = 2 for the default of 10. For `EventLog` one line
cut short suffices to glue two lines, tear a character, hide a close and let the rest of a line come after
another's, and the rest may be cut once more (`MaxDay` counts those cuts and the midnights, which need not
meet: a cut rest is a line longer in pieces); three ids suffice to have two turns and a note, or a turn
after two others. For `Migration` two inits are enough for every collision, and one that is cut and run
again meets every state of the database. For `Tools` two redirects are one below and one at the limit, -6
and -3 to -1 are the four ways a negative cap goes wrong (`Ssize` = 4 stands for 2^63), 5 is above the
ceiling, and sizes lie below, at and above each limit. Deadlock is checked for `Recall`, `Ratio` and
`Migration`, and not for the others: when the ids run out and all clients are idle, or the one tool call is
over, the system rests. Slice, turn and event ids are symmetric in the safety runs; the liveness runs use no
symmetry.

`OvershootIsBounded` says what the wall is worth, where each thread is a process of its own: closed traces
exceed the budget by at most the calls of one turn for each process, and calls hidden by turns that did not
close, or one of whose answers told no tokens, are at most `MaxIters` for each of them.
`DailyOvershootIsBounded` says it of each day over the bytes of the file. No less can be said: a turn under
way is not counted until it closes, and the call of an extraction (`concept.py:46`) never is, though
`client.py:175-176` says that "no further calls go through". Two more sentences of the comments are not
quite so, and no run is spent on them: two clients that save one text at once both have it embedded
(`embed.py:3`), and the extraction asks the model before the turn's first trace line (`events.py:4-6`).

**Fairness.** `FairSpec` assumes that a running operation goes on (`WF_vars(Proceed(c))`): its next
statement runs, or raises where SQLite refuses it (`Refused`) and where the budget is spent (`Blocked`).
Failures that may or may not happen are left out of it. In the code each wait ends: `sqlite3.connect` waits
5 s for a lock and then raises, the HTTP clients have a timeout of 120 s, the shell 30 s, `python_exec` at
most 60 s; the confirm callback waits for a person, who is assumed to answer. `Migration` has `WF` of each
running init, whose statements run or are refused after 5 s. `Tools` has `WF` of its own steps and of
`Deadline`, and none of a server's answer: httpx bounds each read by 15 s and not the whole answer, so
`ToolEnds` allows a call to wait there (a server that keeps sending is one the code would wait for). Nor has
`Feed` any: a `file_read` whose file became a pipe waits in `open` as long as nobody writes, and `ToolEnds`
allows that, too. Nothing assumes that an operation starts, that a lock is obtained or that a call succeeds.

## What is proved

For every value of the constants that satisfies the named assumptions (`ConstantsAssumption`,
`AgentAssumption`, `RecallAssumption`, `LogAssumption`, `MigrationAssumption`, `ToolsAssumption`):
any number of clients, slices, texts, answers, turns, rounds, events, inits, redirects and failures.
Every invariant, action property and refinement that a passing run checks is a theorem. Where a sum
or a bound is claimed, the assumptions ask for finitely many threads, processes and ids, and for a
largest number of tokens that a call can cost: a run of the program has no more of the former, and the
context window of a model bounds the latter. `OneThreadEach` is assumed by two theorems, which name it.

The models fold over sets (the day's tokens, the lines of a trace, the text of what was recalled) and
recur over hops. The folds of the library and `Reach` are recursive functions, and the prover knows of
such a function only what its `CHOOSE` says. Two steps make up for the induction it lacks: a witness,
written without recursion, shows that a function with the equation exists, and a smallest
counterexample shows that any such function has the value claimed. `FoldProofs` does so once for
`SumFunctionOnSet` (the witness counts pairs, `Units`), with the least number and the smallest subset in
the place of induction (`LeastNat`, `GreatestNat`, `SmallestSubset`), and derives how sums grow, split
and compare.

*MemoryStoreProofs.* `TypesHold` is inductive alone. `IInv` is `Base /\ History`. `Base` ties the
transaction to the program counters: the writer is the client inside a `store.tx` block, `wal` differs
from `db` only as that block's progress says, a snapshot is open only on an idle or still reading
client. `DatabaseIsWhole` needs it since it is not inductive alone: between the slice and its vector
`wal` is not whole, and only `Base` says that nobody publishes it there. `History` adds what each
operation may rely on: the id of a running save is its own, is stored or erased once stage A
committed, and has no edges before stage B. From `IInv` follow `DatabaseAlwaysWhole`,
`ForgettingIsFinal`, `SavesAreDurable`, `LockDiscipline`, and `MemoryKeepsPromise`: each step of the
store is a `Remember` (`CommitA`), a `Relate` (`CommitB`), a `Forget` (`CommitForget`) or a stutter.
`LogNeverLies` has an invariant of its own, `LogHistory`: what a client is about to log is so
(`AboutToTell`), the slice of a running save has no line yet and no other save (`Untold`), and so the
edges of a slice that has a line are final.

*AgentTurnProofs.* `TurnTypes` first. `IInv` adds that running turns have different ids and ids not
drawn have no lines (`OwnTurn`), and for each running turn that the audit of its current call stands
where its program counter is (`Trail`), that its rounds are below the cap or it is in its last one
(`Loop`), and that its locals count its own lines (`Counts`). From it follow `OnlyApprovedToolsRun`,
`ClosedTracesAreTrue` and `LoopAlwaysCut`. `UsageIsAttributed` has a second invariant, `UsageInv`, on
top: the tokens billed to a running turn are its running sum plus, just before `ReadUsage`, the
client's last usage. It assumes `OneThreadEach`, no two threads share a client, which is what
`shared_usage` shows to be needed: the REPL satisfies it, the server does not.

The wall: `WallHoldsTurns` and `SpendIsBounded` rest on `SpendInv`. `Caps` is what a turn of each thread
may still be charged once it is past the wall, `Flying` the threads that are. `WallStands` says that the
closed traces are below the budget or, with the caps of those flying, below the budget and the caps of
all: a turn passes the wall only in the first case, and one that closes moves at most its cap from the
one sum to the other. `Paced`, `Charged` and `Pending` keep what a turn adds up, and what it was billed,
within its calls. That the traces hide no more than the turns that have none in the log follows from
`UsageIsAttributed`, and so needs `OneThreadEach`; that the wall holds does not.

The end: `TurnsAreFinite` is what a proof can say of `TurnsEnd`. `StepsLeft` counts the rounds, calls of
the batch and steps a turn may still take; each step of a turn lowers it, since `Loop` keeps the rounds
below the cap, and no step of anybody raises it. What is left to fairness is that a turn takes its steps.

*RecallProofs.* `TypeInv` is `TypeOK` and `Fresh` (before its fetch a recall has no result, after it no
candidates). `RecallIsRanked` is inductive on top of it: `First` appends a candidate that is before all
that are left, and `Before` is a strict order. `ForgottenNeverRecalled`: `gone` grows only by slices
not recalled yet, which are erased and therefore not in `memory`, and that `erased` and `memory` stay
disjoint is `Apart`. `PromptIsLongest`: each turn of the loop moves the last kept slice to the dropped
ones, and has found that the part just given up does not fit. These hold for any graphs, requests,
lengths, weights and limits, and whatever other clients do. They assume `RecallAssumption`.

`ExpansionIsSound` is about a search over relations that others change between its queries. `Walks` are
the paths of at most so many hops; they show what `Reach` is (`ReachSteps`), that it grows with the
relations and the hops, and that it stays in a set that is closed under a hop. `Held` says that lasting
relations are there now and those there now were there at some time; `Expanding`, that the nodes of
this depth include all that lasting relations lead to in so many hops, that their lasting neighbours
were seen once they are expanded, and that relations of some time lead to each of them. At the end no
node is left to expand, or the last hop is done (`AllSeen`).

`UndisturbedRecallIsExact` needs all of the above. `Tidy` says that vectors and relations are of slices
remembered and that, undisturbed, the lasting relations are those of now, so that `hits` is exact
(`FoundIsThere`). `Exact` is the loop of `retrieve.py:95-108`: what is recalled is affordable and, but
for the slice excluded, nothing it went past is missing, with `left` the budget less its text; or the
loop has stopped and nothing else is affordable. It stops at the first slice that goes over, and
rightly: what is before an affordable slice is affordable, as a sum over fewer slices is no greater.

*EventLogProofs.* `TypeInv` adds to `TypeOK` that a turn with an answer paid for it. `LogKeepsPromise`
rests on `WholeGrows`, `LastLineGrows` and `TornGrows`: under an append a whole line stays whole, at most its
own record becomes one, the last line stays so under its newline alone, and half a character is mended by
its own rest only. Each step is then an `Ask`, or for a piece a `Keep`, `Hang`, `Tear` or, once a line is
torn, `Lose`; and what `LogPromise` says a reader finds is what `Read` is (`ReadersFind`). `DamageIsConfined`,
which speaks of files that can be decoded, needs
`InFile`: whatever was written in full is in the file as a line, or as a cut piece and its rest. A record
that was written and is not kept therefore lies at a cut or right behind one, and the positions of cuts
bound both.

`TurnInv` adds whose turn and line is whose (`Owned`), that calls come after the open line and on days
that have come (`Timely`), and that a close has the tokens and a day not before that of the call
(`Truthful`). `DayIsBounded` has `WallDays` on top: of the turns that called on a day, all but those
whose close cannot be read and as many as there are processes cost less than the budget. Those are the
turns that ran when the last of them asked, since the others' closes were in the sum it was shown
(`ToldAreSummed`), which is taken over two steps and over midnight. `ExplainIsTrue` has `Ordered` on top,
the open line of a turn is before its close in the file: the fold of `explain` gives each field its last
value (`MergeIsLast`), and so the tokens of the close, of which a turn has one.

*MigrationProofs.* `IInv` says which tables each program counter has seen made (`TablesMade`), who may
still find the column missing (`ColumnSeen`), that the open transaction is the back-fill of what is
committed (`Filling`, true since nobody saves while the lock is held), and that a back-fill once committed
lasts (`Filled`, since saves come with a session). `DoneIsWhole` is not inductive without `Filling`.

*ToolsProofs.* `IInv` says which tool and arguments belong to each program counter (`Called`), how the
requests made, the hosts passed and the hops counted hang together at each point of the loop (`Hops`), and
that a finished call tells the truth (`Told`). `EveryHopIsChecked` needs `Hops`: just after a check there
is one host more passed than requests made, and nowhere else. The arithmetic of negative caps is in
`CapBounds`, `ShownBounds` and `ReadBounds`.

## What is only model-checked

Liveness, which is outside the prover's reach: `OperationsEnd`, `TurnsEnd`, `InitEnds` and `ToolEnds`
(of `TurnsEnd` the bound on the steps is proved). `ENABLED`, and so that the fair actions can be taken,
is in none of the proofs. The properties of the four violated runs are refuted, not proved.

## Facts met on the way

Things the models follow the code in, which a reader of the comments would not expect:

- A line torn inside a character, as the log of a full disk or of a killed process may have it, stops every
  reader: `_check_budget`, and so every cloud call with a
  budget; `explain`; and `_iters_footer` (`cli.py:209-217`), which is outside the `try` of the REPL, so
  that a REPL ends on a reply that was saved.
- `file_read` takes a negative `max_bytes`: -2 reads the whole file and shows all but its last two bytes,
  beyond the ceiling of `file_read.py:18`; -1 shows nothing and says so; less raises and is caught.
  `web_fetch` drops the tail and says so, and reports a negative number of bytes. `CapHolds` is therefore
  claimed for 0 and more. A value beyond the range of a read's length raises another error. The total in
  `file_read`'s marker is that of an earlier `stat`.
- `shell.execute` "never raises", but output that is no UTF-8 does raise there, and its wrapper catches it.
  An exit code of -1 is a timeout, a failed launch, or the end by SIGHUP; the two former come with a message.
- A `shell` timeout shows what was read so far, unless all was read and only the end of the command was
  awaited: then Python's exception holds no output.
- `registry.execute` "NEVER raises" (`registry.py:275`), but arguments that are no JSON object, which a model may
  send (`client.py:423-425`), raise at `registry.py:293-300`, before its `try`, and end the turn.
- `file_read` looks the path up four times; a named pipe that took the file's place after `is_file` makes
  `open` (`file_read.py:78`, `:100`) wait without a timeout.
- A `MNEME_CONTEXT_BUDGET_RATIO` of `nan` is neither `<= 0.0` nor `>= 1.0`: `round` raises in every turn.
- "Tools themselves never touch events.jsonl" (`agent.py:250`), but `web_fetch` logs its first host.
- Two snapshots in one second go to the same file (`server.py:112`).

## What is not modelled

What tools do to the machine and which addresses are private, prices, prompt and wire formats, terminal
output, sessions of the REPL (a row looked for at `--resume`), registration of tools (once, at import),
loading of templates and paths. The order of ids: it follows a clock that may stand still or go back, and
only ties of scores depend on it. `PROJECT.json` lists each component with what is missing.

## Plan

Done so far: `MemoryStore`, `AgentTurn`, `Recall`, `EventLog`, `Migration`, `Tools`, each with its proofs.

1. `AgentTurn`: the provider and its wire format where it pairs tool results with calls, the slices of
   the prompt, and citations judged against them while others forget.
2. Proofs: refinement of an abstract turn (asked, answered, remembered) by `AgentTurn`; bounds on the
   steps of saves, forgets, inits and tool calls, as `StepsLeft` is for turns; `MemoryStore`'s event log
   as `LogPromise`.
