------------------------------ MODULE AgentTurn ------------------------------
(***************************************************************************)
(* A chat turn (agent.py) over the LLM client its process shares            *)
(* (llm/client.py) and the event log every process shares                   *)
(* (trace/events.py): the user message is saved and its concepts extracted, *)
(* the trace is opened, the model is asked, the tool calls it wants are     *)
(* audited, confirmed and run until it stops asking or the iteration cap is *)
(* met, the reply is saved and the trace is closed.                         *)
(*                                                                          *)
(* A thread runs one turn at a time: a `mneme chat` REPL with tools and a   *)
(* confirm callback, a server thread in POST /chat without them, or a user  *)
(* of respond_stream without a callback.  What ingest, retrieve and the     *)
(* budget of the prompt do in a turn is here one step that may raise.       *)
(*                                                                          *)
(* The log is the set of its lines.  A turn id stands for the turn_id and   *)
(* the trace_id of that turn, a tool call for its number in the turn.       *)
(***************************************************************************)
EXTENDS Naturals, FiniteSets, Functions

CONSTANTS
  Repls, Requests, Streams,  \* threads, by the way they call the agent
  Server,      \* the process of all Requests; the others have one of their own
  TurnIds,     \* the ULIDs that can be drawn
  MaxIters,    \* MNEME_MAX_ITERS
  MaxBatch,    \* bound: tool calls in one answer of the model
  Spends,      \* token counts a provider may report for a call
  Budget,      \* daily_token_budget; 0 stands for no wall (unset, or a local provider)
  Faults,      \* which failures can happen: "llm", "usage", "memory", "log", "crash"
  None

Threads == Repls \cup Requests \cup Streams

ASSUME AgentAssumption ==
  /\ MaxIters \in Nat \ {0} /\ MaxBatch \in Nat /\ Budget \in Nat
  /\ Spends \subseteq Nat
  /\ \E u \in Spends : \A v \in Spends : v <= u  \* a model's context is bounded
  /\ IsFiniteSet(Threads) /\ IsFiniteSet(TurnIds)
  /\ Server \notin Threads
  /\ None \notin Nat \cup TurnIds
  /\ Faults \subseteq {"llm", "usage", "memory", "log", "crash"}

VARIABLES
  pc, turn,   \* per thread: where its turn stands, and its locals
  lastUsage,  \* per process: client.last_usage
  minted,     \* the turn ids drawn so far
  log,        \* events.jsonl
  lost,       \* history: the lines events.append failed to write
  chats,      \* history: calls to the model made for each turn's answer
  billed,     \* history: tokens the provider counted in those it answered
  mute,       \* history: turns one of whose answers did not tell its tokens
  approved,   \* history: tool calls the user said yes to
  ran,        \* history: tool calls that were run
  remembered  \* history: turns whose reply was saved

history == <<lost, chats, billed, mute, approved, ran, remembered>>
vars == <<pc, turn, lastUsage, minted, log, history>>

ClientOf(t) == IF t \in Requests THEN Server ELSE t
Clients == {ClientOf(t) : t \in Threads}

NoTurn == [id |-> None, iters |-> 0, todo |-> 0, calls |-> 0, rejects |-> 0, usage |-> None]

\* The pre-call trace, a tool_audit (by its decision) or tool_result, and the
\* trace that closes the turn.
OpenLine(i) == [kind |-> "open", turn |-> i]
AuditLine(call, decision) == [kind |-> decision, turn |-> call[1], call |-> call[2]]
CloseLine(t) ==
  [kind |-> "close", turn |-> turn[t].id, iters |-> turn[t].iters, calls |-> turn[t].calls,
   rejects |-> turn[t].rejects, tokens |-> turn[t].usage]

\* Every line that was written, or would have been.
Written == log \cup lost

\* events.append: the line is in the log, or writing it fails and nobody notices.
Append1(line) ==
  \/ log' = log \cup {line} /\ UNCHANGED lost
  \/ "log" \in Faults /\ lost' = lost \cup {line} /\ UNCHANGED log

Tokens(line) == IF line.tokens = None THEN 0 ELSE line.tokens

\* events.sum_cloud_tokens_since, the lines of one day
Counted == SumFunction([e \in {l \in log : l.kind = "close"} |-> Tokens(e)])

\* mutant: the wall stands one token too far
OneMore == Budget > 0 /\ Counted > Budget

\* client._check_budget raises BudgetExceeded
OverBudget == Budget > 0 /\ Counted >= Budget
-----------------------------------------------------------------------------
Init ==
  /\ pc = [t \in Threads |-> "idle"]
  /\ turn = [t \in Threads |-> NoTurn]
  /\ lastUsage = [c \in Clients |-> None]
  /\ minted = {}
  /\ log = {} /\ lost = {}
  /\ chats = [i \in TurnIds |-> 0] /\ billed = [i \in TurnIds |-> 0]
  /\ mute = {} /\ approved = {} /\ ran = {} /\ remembered = {}

Go(t, from, to) ==
  /\ pc[t] = from
  /\ pc' = [pc EXCEPT ![t] = to]

Return(t) ==
  /\ pc' = [pc EXCEPT ![t] = "idle"]
  /\ turn' = [turn EXCEPT ![t] = NoTurn]

SetUsage(t, u) == lastUsage' = [lastUsage EXCEPT ![ClientOf(t)] = u]
-----------------------------------------------------------------------------
(* _open_turn                                                               *)

\* mutant: the turn id is not a fresh one
ReuseTurnId(t) ==
  /\ Go(t, "idle", "extract")
  /\ \E i \in TurnIds : turn' = [turn EXCEPT ![t] = [NoTurn EXCEPT !.id = i]]
  /\ UNCHANGED <<lastUsage, minted, log, history>>

\* save_user_message, up to the commit of its stage A
Begin(t) ==
  /\ Go(t, "idle", "extract")
  /\ \E i \in TurnIds \ minted :
       /\ turn' = [turn EXCEPT ![t] = [NoTurn EXCEPT !.id = i]]
       /\ minted' = minted \cup {i}
  /\ UNCHANGED <<lastUsage, log, history>>

\* Its stage B asks the model too; an exhausted budget is a failed extraction.
StartExtract(t) ==
  /\ IF OverBudget
     THEN Go(t, "extract", "open") /\ UNCHANGED lastUsage
     ELSE Go(t, "extract", "extracting") /\ SetUsage(t, None)
  /\ UNCHANGED <<turn, minted, log, history>>

EndExtract(t) ==
  /\ Go(t, "extracting", "open")
  /\ \/ \E u \in Spends : SetUsage(t, u)
     \/ "llm" \in Faults /\ UNCHANGED lastUsage
  /\ UNCHANGED <<turn, minted, log, history>>

\* recall, assemble_prompt, and the pre-call trace
Open(t) ==
  /\ Go(t, "open", "call")
  /\ Append1(OpenLine(turn[t].id))
  /\ UNCHANGED <<turn, lastUsage, minted, chats, billed, mute, approved, ran, remembered>>
-----------------------------------------------------------------------------
(* _agent_loop, client.chat and _run_tool_call                              *)

StartCall(t) ==
  /\ Go(t, "call", "calling")
  /\ ~OverBudget
  /\ SetUsage(t, None)
  /\ turn' = [turn EXCEPT ![t] = [@ EXCEPT !.iters = turn[t].iters + 1]]
  /\ chats' = [chats EXCEPT ![turn[t].id] = @ + 1]
  /\ UNCHANGED <<minted, log, lost, billed, mute, approved, ran, remembered>>

\* The answer, with tool calls if tools were offered.  It may not tell what it
\* cost, which the parsers take for nothing; a stream without a usage chunk
\* leaves last_usage alone.
EndCall(t) ==
  /\ Go(t, "calling", "usage")
  /\ \E u \in Spends :
       /\ billed' = [billed EXCEPT ![turn[t].id] = @ + u]
       /\ \/ SetUsage(t, u) /\ UNCHANGED mute
          \/ /\ "usage" \in Faults
             /\ SetUsage(t, 0) \/ (t \in Streams /\ UNCHANGED lastUsage)
             /\ mute' = mute \cup {turn[t].id}
  /\ \E n \in IF t \in Repls THEN 0..MaxBatch ELSE {0} :
       turn' = [turn EXCEPT ![t] = [@ EXCEPT !.todo = n]]
  /\ UNCHANGED <<minted, log, lost, chats, approved, ran, remembered>>

\* mutant: the running total is replaced instead of added to
LatestOnly(running, latest) == IF latest = None THEN running ELSE latest

Accumulate(running, latest) ==
  IF latest = None THEN running
  ELSE IF running = None THEN latest ELSE running + latest

\* mutant: the turn waits for a usage that was not sent
AwaitUsage(t) ==
  /\ lastUsage[ClientOf(t)] # None
  /\ Go(t, "usage", IF turn[t].todo = 0 THEN "save" ELSE "tool")
  /\ turn' = [turn EXCEPT ![t] = [@ EXCEPT
               !.usage = Accumulate(turn[t].usage, lastUsage[ClientOf(t)])]]
  /\ UNCHANGED <<lastUsage, minted, log, history>>

ReadUsage(t) ==
  /\ Go(t, "usage", IF turn[t].todo = 0 THEN "save" ELSE "tool")
  /\ turn' = [turn EXCEPT ![t] = [@ EXCEPT
               !.usage = Accumulate(turn[t].usage, lastUsage[ClientOf(t)])]]
  /\ UNCHANGED <<lastUsage, minted, log, history>>

ToolCall(t) == <<turn[t].id, turn[t].calls>>

Announce(t) ==
  /\ Go(t, "tool", "confirm")
  /\ turn' = [turn EXCEPT ![t] = [@ EXCEPT !.calls = turn[t].calls + 1,
                                           !.todo = turn[t].todo - 1]]
  /\ Append1(AuditLine(<<turn[t].id, turn[t].calls + 1>>, "pending"))
  /\ UNCHANGED <<lastUsage, minted, chats, billed, mute, approved, ran, remembered>>

\* mutant: the cap is met by a turn whose last call was the one too many
CapOffByOne(rejects, iters) == rejects > 0 \/ iters > MaxIters

\* any_rejected, or the iteration cap, once the batch is done.  A batch with a
\* rejection is the turn's last, so any_rejected is tool_rejects_count > 0.
LastBatch(rejects, iters) == rejects > 0 \/ iters >= MaxIters

AfterCall(todo, rejects, iters) ==
  IF todo > 0 THEN "tool" ELSE IF LastBatch(rejects, iters) THEN "save" ELSE "call"

Accept(t) ==
  /\ Go(t, "confirm", "run")
  /\ approved' = approved \cup {ToolCall(t)}
  /\ Append1(AuditLine(ToolCall(t), "accepted"))
  /\ UNCHANGED <<turn, lastUsage, minted, chats, billed, mute, ran, remembered>>

\* mutant: a callback that fails counts as a yes
FailOpen(t) ==
  /\ Go(t, "confirm", "run")
  /\ turn' = [turn EXCEPT ![t] = [@ EXCEPT !.rejects = turn[t].rejects + 1]]
  /\ Append1(AuditLine(ToolCall(t), "rejected"))
  /\ UNCHANGED <<lastUsage, minted, chats, billed, mute, approved, ran, remembered>>

\* The user says no, or the callback fails.
Reject(t) ==
  /\ Go(t, "confirm", AfterCall(turn[t].todo, turn[t].rejects + 1, turn[t].iters))
  /\ turn' = [turn EXCEPT ![t] = [@ EXCEPT !.rejects = turn[t].rejects + 1]]
  /\ Append1(AuditLine(ToolCall(t), "rejected"))
  /\ UNCHANGED <<lastUsage, minted, chats, billed, mute, approved, ran, remembered>>

\* registry.execute: what a tool raises is a result like another
Execute(t) ==
  /\ Go(t, "run", "report")
  /\ ran' = ran \cup {ToolCall(t)}
  /\ UNCHANGED <<turn, lastUsage, minted, log, lost, chats, billed, mute, approved, remembered>>

Report(t) ==
  /\ Go(t, "report", AfterCall(turn[t].todo, turn[t].rejects, turn[t].iters))
  /\ Append1(AuditLine(ToolCall(t), "result"))
  /\ UNCHANGED <<turn, lastUsage, minted, chats, billed, mute, approved, ran, remembered>>
-----------------------------------------------------------------------------
(* _close_turn                                                              *)

SaveReply(t) ==
  /\ Go(t, "save", "close")
  /\ remembered' = remembered \cup {turn[t].id}
  /\ UNCHANGED <<turn, lastUsage, minted, log, lost, chats, billed, mute, approved, ran>>

Close(t) ==
  /\ pc[t] = "close"
  /\ Return(t)
  /\ Append1(CloseLine(t))
  /\ UNCHANGED <<lastUsage, minted, chats, billed, mute, approved, ran, remembered>>
-----------------------------------------------------------------------------
(* Failures                                                                 *)

\* The budget is exhausted: BudgetExceeded leaves the turn.
Blocked(t) ==
  /\ pc[t] = "call"
  /\ OverBudget
  /\ Return(t)
  /\ UNCHANGED <<lastUsage, minted, log, history>>

\* mutant: a save that fails is logged and the turn closed all the same
CloseAnyway(t) ==
  /\ \/ "llm" \in Faults /\ pc[t] \in {"call", "calling", "usage", "run"} /\ Return(t)
     \/ "memory" \in Faults /\ pc[t] \in {"extract", "open"} /\ Return(t)
     \/ "memory" \in Faults /\ Go(t, "save", "close") /\ UNCHANGED turn
  /\ UNCHANGED <<lastUsage, minted, log, history>>

\* Any other exception: the provider fails, has no tool schemas, or answers, and
\* counts, something the parser chokes on; the arguments it gives for a tool are
\* no object (registry.py:293-300); a save or the recall fails, or the prompt is
\* too big.
Fail(t) ==
  /\ \/ "llm" \in Faults /\ pc[t] \in {"call", "calling", "usage", "run"}
     \/ "memory" \in Faults /\ pc[t] \in {"extract", "open", "save"}
  /\ Return(t)
  /\ UNCHANGED <<lastUsage, minted, log, history>>

\* A process dies, or is interrupted and started again.
Crash(c) ==
  /\ "crash" \in Faults
  /\ \E t \in Threads : ClientOf(t) = c /\ pc[t] # "idle"
  /\ pc' = [t \in Threads |-> IF ClientOf(t) = c THEN "idle" ELSE pc[t]]
  /\ turn' = [t \in Threads |-> IF ClientOf(t) = c THEN NoTurn ELSE turn[t]]
  /\ lastUsage' = [lastUsage EXCEPT ![c] = None]
  /\ UNCHANGED <<minted, log, history>>
-----------------------------------------------------------------------------
Proceed(t) ==
  \/ StartExtract(t) \/ EndExtract(t) \/ Open(t)
  \/ StartCall(t) \/ EndCall(t) \/ ReadUsage(t)
  \/ Announce(t) \/ Accept(t) \/ Reject(t) \/ Execute(t) \/ Report(t)
  \/ SaveReply(t) \/ Close(t) \/ Blocked(t)

Next ==
  \/ \E t \in Threads : Begin(t) \/ Proceed(t) \/ Fail(t)
  \/ \E c \in Clients : Crash(c)

Spec == Init /\ [][Next]_vars

\* A turn under way goes on: calls to the provider and tools have timeouts, and
\* the user answers the confirmation.  No failure is assumed to happen.
FairSpec == Spec /\ \A t \in Threads : WF_vars(Proceed(t))
-----------------------------------------------------------------------------
(* Properties                                                               *)

Steps == {"idle", "extract", "extracting", "open", "call", "calling", "usage", "tool",
          "confirm", "run", "report", "save", "close"}
Turns == [id : TurnIds \cup {None}, iters : Nat, todo : Nat, calls : Nat, rejects : Nat,
          usage : Nat \cup {None}]
ToolCalls == TurnIds \X Nat
Audits == {"pending", "accepted", "rejected", "result"}
Lines ==
  [kind : {"open"}, turn : TurnIds] \cup [kind : Audits, turn : TurnIds, call : Nat]
  \cup [kind : {"close"}, turn : TurnIds, iters : Nat, calls : Nat, rejects : Nat,
        tokens : Nat \cup {None}]

\* The shape of the state: a running turn has an id of its own, the log lines
\* have the fields agent.py gives them.
TypeOK ==
  /\ pc \in [Threads -> Steps]
  /\ turn \in [Threads -> Turns]
  /\ \A t \in Threads : pc[t] # "idle" => turn[t].id \in minted
  /\ lastUsage \in [Clients -> Nat \cup {None}]
  /\ minted \subseteq TurnIds
  /\ log \subseteq Lines /\ lost \subseteq Lines
  /\ chats \in [TurnIds -> Nat] /\ billed \in [TurnIds -> Nat]
  /\ mute \subseteq TurnIds /\ approved \subseteq ToolCalls /\ ran \subseteq ToolCalls /\ remembered \subseteq TurnIds

\* No tool runs without the user's yes to that very call, and the audit tells
\* of it whatever interrupts the turn: "accepted" is written before the tool
\* runs, "pending" before the user is asked, "result" for what ran only, and
\* nothing rejected ever runs (agent.py:257-292).
AuditTellsWhatRan ==
  /\ \A call \in ran : call \in approved /\ AuditLine(call, "accepted") \in Written
  /\ \A e \in Written : e.kind \in Audits =>
       LET call == <<e.turn, e.call>> IN
       /\ AuditLine(call, "pending") \in Written
       /\ e.kind = "accepted" => call \in approved
       /\ e.kind = "rejected" => call \notin approved
       /\ e.kind = "result" => call \in ran

\* The lines of one kind about a turn.
About(i, kind) == {e \in Written : e.turn = i /\ e.kind = kind}

\* A closed trace tells the truth about its turn: its reply was saved, and it
\* counts the calls to the model, the tool calls announced and those rejected
\* (agent.py:188-208).
CloseIsTrue ==
  \A e \in Written : e.kind = "close" =>
    /\ e.turn \in remembered /\ About(e.turn, "open") # {}
    /\ e.iters = chats[e.turn]
    /\ e.calls = Cardinality(About(e.turn, "pending"))
    /\ e.rejects = Cardinality(About(e.turn, "rejected"))
    /\ e.calls = e.rejects + Cardinality(About(e.turn, "result"))

\* client.py:208-210: where each answer told its tokens, the usage a closed trace
\* reports is what the provider counted for the calls of that turn, no other's.
EachTurnCountsItsOwn ==
  \A e \in Written : e.kind = "close" /\ e.turn \notin mute => Tokens(e) = billed[e.turn]

\* The model is never asked again in a turn once a tool call of it was rejected
\* (agent.py:484-488), and never more than MaxIters times (agent.py:492-499).
LoopIsCut ==
  [][\A i \in TurnIds : chats'[i] # chats[i] =>
       /\ chats'[i] <= MaxIters
       /\ About(i, "rejected") = {}]_vars

\* Every turn ends, with a reply or an exception.
TurnsEnd == \A t \in Threads : pc[t] # "idle" ~> pc[t] = "idle"

\* At most so many steps are left of a turn: those of the rounds it may still
\* begin, those of the batch it is in, and those of its current round.
StepsLeft(t) ==
  LET rounds == (MaxIters - turn[t].iters) * (4 * MaxBatch + 3)
      batch == IF pc[t] \in {"usage", "tool", "confirm", "run", "report"} THEN 4 * turn[t].todo ELSE 0
      round == [extract |-> 5, extracting |-> 4, open |-> 3,
                call |-> 2, calling |-> 4 * MaxBatch + 4, usage |-> 3,
                tool |-> 2, confirm |-> 5, run |-> 4, report |-> 3, save |-> 2, close |-> 1]
  IN  IF pc[t] = "idle" THEN 0 ELSE rounds + batch + round[pc[t]]

\* Whatever the model asks for and the user answers, a turn never goes round: no
\* step gives it more steps to take, and each of its own leaves it with fewer
\* (agent.py:436-499).
TurnsShrink ==
  [][\A t \in Threads : pc[t] # "idle" =>
       /\ StepsLeft(t)' \in 0..StepsLeft(t)
       /\ Proceed(t) => StepsLeft(t)' # StepsLeft(t)]_vars

Largest == CHOOSE u \in Spends : \A v \in Spends : v <= u
Spent == SumFunction(billed)

InFlight == Cardinality(Repls) * MaxIters + Cardinality(Requests \cup Streams)
Unclosed == minted \ {e.turn : e \in {l \in log : l.kind = "close"}}

WallHolds == Budget > 0 => Counted < Budget + InFlight * Largest
HidesNoMore == Spent <= Counted + Cardinality(Unclosed \cup mute) * (MaxIters * Largest)

\* What the wall is worth where each thread is a process of its own: closed
\* traces exceed the budget by at most the calls of one turn for each process, and
\* a turn that was cut short, or not told what a call cost, hides at most its own.
\* (client.py:171-185; concept extractions are not counted at all.)
OvershootIsBounded == WallHolds /\ HidesNoMore
=============================================================================
