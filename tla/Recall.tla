------------------------------- MODULE Recall --------------------------------
(***************************************************************************)
(* The reading half of a turn: memory/retrieve.py recall with graph.py bfs,  *)
(* then llm/budget.py assemble_prompt.  Recall is a row of SELECTs, each a   *)
(* step, over a memory that other clients save to and forget from meanwhile; *)
(* MemoryPromise, which MemoryStore implements, is that memory.  Recalls     *)
(* write nothing, so one reader is enough.                                   *)
(*                                                                          *)
(* Ids are numbers, ordered as ULIDs are.  Scores are in percent points.     *)
(***************************************************************************)
EXTENDS MemoryPromise, Integers, FiniteSets, Functions, SequencesExt

CONSTANTS
  Graphs,            \* the nodes and edges a slice may introduce
  Requests,          \* what is asked: [near, k, hops, prompt]
  Length, LineLength,\* per slice: characters of its text, and of its prompt line
  EmptyLength,       \* characters of the line that stands for no slices
  GraphWeight,       \* _GRAPH_WEIGHT
  CharBudget,        \* _CHAR_BUDGET
  VecKMax,           \* _VEC_K_MAX
  SqlVariables,      \* the parameters a statement can have
  FallbackWindow,    \* _FALLBACK_WINDOW
  ReserveFloor, ToolsReserve,  \* _COMPLETION_RESERVE_FLOOR, _TOOLS_SCHEMA_RESERVE
  None

\* A slice's share of the score by its vector is positive; a prompt knows the
\* characters of its prefix and of its suffix without the slices, the window the
\* table lists for its model, or None, and the ratio that is set, or None for one
\* that has no finite inverse.
ASSUME RecallAssumption ==
  /\ SliceIds \subseteq Nat /\ None \notin SliceIds /\ None \notin Requests
  /\ Length \in [SliceIds -> Nat] /\ LineLength \in [SliceIds -> Nat]
  /\ {EmptyLength, GraphWeight, CharBudget, VecKMax, SqlVariables, FallbackWindow,
      ReserveFloor, ToolsReserve} \subseteq Nat
  /\ \A r \in Requests :
       /\ r.near \in [SliceIds -> Nat] /\ r.k \in Int /\ r.hops \in Int
       /\ r.prompt # None =>
            r.prompt \in [prefix : Nat, fixed : Nat, window : Nat \cup {None},
                          ratio : Int \cup {None}]

VARIABLES
  pc,
  req, own,                     \* the request, and the slice a turn excludes
  vec,                          \* slices the vector search returned
  visited, level, found, depth, \* bfs: nodes seen, those of this depth still to
                                \* be expanded, those of the next, the depth
  hits,                         \* slices with an edge at a visited node
  todo, result, left,           \* candidates not yet fetched, slices recalled,
                                \* characters left
  kept, dropped,                \* assemble_prompt: slices kept, and dropped in order
  gone,                         \* history: slices erased before they were recalled
  still,                        \* history: nobody wrote since it began
  steady, ever                  \* history: relations present all the time since it
                                \* began, or at some time

search == <<vec, visited, level, found, depth, hits>>
ranking == <<todo, result, left>>
prompt == <<kept, dropped>>
history == <<gone, still, steady, ever>>
vars == <<pvars, pc, req, own, search, ranking, prompt, history>>

Ends(edges) == UNION {{e.src, e.dst} : e \in edges}
Of(edges, slices) == {e \in edges : e.slice \in slices}
At(edges, nodes) == {e \in edges : e.src \in nodes \/ e.dst \in nodes}
-----------------------------------------------------------------------------
(* recall *)

Score(slice, hit) ==
  (IF slice \in vec THEN req.near[slice] ELSE 0) + (IF slice \in hit THEN GraphWeight ELSE 0)

\* Score first, then id: the order of the tuples that are sorted.
Before(a, b, hit) ==
  \/ Score(a, hit) > Score(b, hit)
  \/ Score(a, hit) = Score(b, hit) /\ a < b

Clamped(k) == IF k < 0 THEN 0 ELSE IF k > VecKMax THEN VecKMax ELSE k

\* The k nearest rows of vec_slices; between equal distances SQLite chooses.
Nearest(V) ==
  /\ Cardinality(V) = IF Clamped(req.k) < Cardinality(index)
                        THEN Clamped(req.k) ELSE Cardinality(index)
  /\ \A v \in V, o \in index \ V : req.near[v] >= req.near[o]

Init ==
  /\ PromiseInit
  /\ pc = "idle" /\ req = None /\ own = None
  /\ vec = {} /\ visited = {} /\ level = {} /\ found = {} /\ depth = 0 /\ hits = {}
  /\ todo = {} /\ result = <<>> /\ left = CharBudget
  /\ kept = <<>> /\ dropped = <<>>
  /\ gone = {} /\ still = FALSE /\ steady = {} /\ ever = {}

\* A turn asks for what its own user slice says, so that none is nearer, and
\* excludes that slice, which somebody may have forgotten by now; `mneme search`
\* excludes nothing.
Ask(r) ==
  /\ pc = "idle"
  /\ own' \in IF r.prompt = None THEN {None}
             ELSE {s \in memory \cup erased : \A o \in SliceIds : r.near[o] <= r.near[s]}
  /\ pc' = "vec"
  /\ req' = r
  /\ gone' = erased /\ still' = TRUE /\ steady' = relations /\ ever' = relations
  /\ UNCHANGED <<pvars, search, ranking, prompt>>

VecSearch ==
  /\ pc = "vec"
  /\ \E V \in SUBSET index : Nearest(V) /\ vec' = V
  /\ pc' = "seeds"
  /\ UNCHANGED <<pvars, req, own, visited, level, found, depth, hits, ranking, prompt, history>>

Seeds ==
  /\ pc = "seeds"
  /\ visited' = Ends(Of(relations, vec))
  /\ level' = IF req.hops > 0 THEN visited' ELSE {}
  /\ pc' = "bfs"
  /\ UNCHANGED <<pvars, req, own, vec, found, depth, hits, ranking, prompt, history>>

\* mutant: the depth test lets the nodes at the last hop be expanded, too
OneHopMore(d) == d <= req.hops

WithinHops(d) == d < req.hops

Unseen(n) == Ends(At(relations, {n})) \ visited

\* One turn of the loop of bfs.  The queue is first in, first out, so all nodes
\* of a depth are expanded, in an order that depends on the rows, before the
\* next depth is.
Expand(n, marked) ==
  LET last == level = {n} IN
  /\ pc = "bfs"
  /\ visited' = visited \cup marked
  /\ level' = IF ~last THEN level \ {n}
              ELSE IF WithinHops(depth + 1) THEN found \cup Unseen(n) ELSE {}
  /\ found' = IF last THEN {} ELSE found \cup Unseen(n)
  /\ depth' = IF last THEN depth + 1 ELSE depth
  /\ UNCHANGED <<pvars, pc, req, own, vec, hits, ranking, prompt, history>>

\* mutant: a node is marked when it is taken from the queue
MarkLate(n) == Expand(n, {n})

\* A node is marked when it is put into the queue.
Visit(n) == Expand(n, Unseen(n))

\* The slices with an edge at a reachable node: each node is two parameters.
GraphSearch ==
  /\ pc = "bfs" /\ level = {}
  /\ 2 * Cardinality(visited) <= SqlVariables
  /\ hits' = {e.slice : e \in At(relations, visited)}
  /\ todo' = vec \cup hits'
  /\ pc' = "fetch"
  /\ UNCHANGED <<pvars, req, own, vec, visited, level, found, depth, result, left, prompt, history>>

TooManyVariables ==
  /\ pc = "bfs" /\ level = {}
  /\ 2 * Cardinality(visited) > SqlVariables
  /\ pc' = "raised"
  /\ UNCHANGED <<pvars, req, own, search, ranking, prompt, history>>

\* mutant: ties stay in the order the rows came
ByScoreOnly(s) == s \in todo /\ \A o \in todo : Score(s, hits) >= Score(o, hits)

First(s) == s \in todo /\ \A o \in todo \ {s} : Before(s, o, hits)

\* mutant: a candidate without a row is not skipped
KeepMissing(s) == s = own

Skipped(s) == s = own \/ s \notin memory

\* mutant: off by one, a slice that fits exactly is left out
FullAtZero(s) == result # <<>> /\ left - Length[s] <= 0

Full(s) == result # <<>> /\ left - Length[s] < 0

\* One candidate: passed over, the end of the list, or recalled.
Fetch(s) ==
  /\ pc = "fetch"
  /\ First(s)
  /\ \/ /\ Skipped(s)
        /\ todo' = todo \ {s}
        /\ UNCHANGED <<result, left>>
     \/ /\ ~Skipped(s) /\ Full(s)
        /\ todo' = {}
        /\ UNCHANGED <<result, left>>
     \/ /\ ~Skipped(s) /\ ~Full(s)
        /\ todo' = todo \ {s}
        /\ result' = Append(result, s)
        /\ left' = left - Length[s]
  /\ UNCHANGED <<pvars, pc, req, own, search, prompt, history>>

\* recall returns, and its locals are gone: vec and hits, by which the result is
\* ranked, are kept for the properties.
Recalled ==
  /\ pc = "fetch" /\ todo = {}
  /\ kept' = result
  /\ pc' = IF req.prompt = None THEN "done" ELSE "assemble"
  /\ visited' = {} /\ depth' = 0 /\ left' = CharBudget
  /\ still' = FALSE /\ steady' = {} /\ ever' = {}
  /\ UNCHANGED <<pvars, req, own, vec, level, found, hits, todo, result, dropped, gone>>
-----------------------------------------------------------------------------
(* assemble_prompt *)

Tokens(chars) == chars \div 4 + 1

\* round(1.0 / ratio), halves to the even neighbour, for a ratio in percent;
\* 4 for no number between 0 and 1.
RatioInverse(ratio) ==
  IF ratio \notin 1..99 THEN 4
  ELSE LET q == 100 \div ratio
           twice == 2 * (100 % ratio)
       IN  IF twice > ratio \/ (twice = ratio /\ q % 2 = 1) THEN q + 1 ELSE q

\* context_window_for: no provider, no model or no table gives the fallback.
Window(listed) == IF listed = None THEN FallbackWindow ELSE listed

\* budget_for_retrieval
Budget(window, ratio) ==
  LET share == window \div RatioInverse(ratio)
      reserve == (IF share > ReserveFloor THEN share ELSE ReserveFloor) + ToolsReserve
  IN  IF window > reserve THEN window - reserve ELSE 0

\* build_prompt: one line a slice, or the line that says there are none
BodyLength(slices) ==
  IF slices = <<>> THEN EmptyLength
  ELSE SumFunctionOnSet(LineLength, ToSet(slices)) + Len(slices) - 1

Estimated(slices) ==
  Tokens(req.prompt.prefix) + Tokens(req.prompt.fixed + BodyLength(slices))

Fits(slices) == Estimated(slices) <= Budget(Window(req.prompt.window), req.prompt.ratio)

\* round() raises for nan, and for a ratio so small that its inverse is infinite.
NoInverse ==
  /\ pc = "assemble"
  /\ req.prompt.ratio = None
  /\ pc' = "raised"
  /\ UNCHANGED <<pvars, req, own, search, ranking, prompt, history>>

Assembling == pc = "assemble" /\ req.prompt.ratio # None

\* mutant: the best slice goes first
DropHead ==
  /\ Assembling
  /\ ~Fits(kept) /\ kept # <<>>
  /\ kept' = Tail(kept)
  /\ dropped' = Append(dropped, Head(kept))
  /\ UNCHANGED <<pvars, pc, req, own, search, ranking, history>>

Drop ==
  /\ Assembling
  /\ ~Fits(kept) /\ kept # <<>>
  /\ kept' = Front(kept)
  /\ dropped' = Append(dropped, Last(kept))
  /\ UNCHANGED <<pvars, pc, req, own, search, ranking, history>>

Assembled ==
  /\ Assembling
  /\ Fits(kept)
  /\ pc' = "done"
  /\ UNCHANGED <<pvars, req, own, search, ranking, prompt, history>>

\* PromptTooBig
TooBig ==
  /\ Assembling
  /\ ~Fits(kept) /\ kept = <<>>
  /\ pc' = "refused"
  /\ UNCHANGED <<pvars, req, own, search, ranking, prompt, history>>

Return ==
  /\ pc \in {"done", "refused", "raised"}
  /\ pc' = "idle" /\ req' = None /\ own' = None
  /\ vec' = {} /\ visited' = {} /\ level' = {} /\ found' = {} /\ depth' = 0 /\ hits' = {}
  /\ todo' = {} /\ result' = <<>> /\ left' = CharBudget
  /\ kept' = <<>> /\ dropped' = <<>>
  /\ gone' = {} /\ still' = FALSE /\ steady' = {} /\ ever' = {}
  /\ UNCHANGED pvars
-----------------------------------------------------------------------------
(* The other clients, and what is remembered of them for the properties.    *)

Searching == pc \in {"vec", "seeds", "bfs"}

Watch ==
  /\ still' = FALSE
  /\ steady' = IF Searching THEN steady \cap relations' ELSE steady
  /\ ever' = IF Searching THEN ever \cup relations' ELSE ever
  /\ gone' = IF Searching \/ pc = "fetch" THEN gone \cup (erased' \ ToSet(result)) ELSE gone
  /\ UNCHANGED <<pc, req, own, search, ranking, prompt>>

Saved(s) == Remember(s) /\ Watch

Related(s) ==
  \E g \in Graphs :
    /\ concepts' = concepts \cup g.nodes
    /\ relations' = relations \cup {[slice |-> s, src |-> e[1], dst |-> e[2]] : e \in g.edges}
    /\ Relate(s)
    /\ Watch

Forgotten(s) == Forget(s) /\ Watch

Next ==
  \/ \E r \in Requests : Ask(r)
  \/ VecSearch \/ Seeds \/ GraphSearch \/ TooManyVariables \/ Recalled
  \/ \E n \in level : Visit(n)
  \/ \E s \in todo : Fetch(s)
  \/ NoInverse \/ Drop \/ Assembled \/ TooBig \/ Return
  \/ \E s \in SliceIds : Saved(s) \/ Related(s) \/ Forgotten(s)

Spec == Init /\ [][Next]_vars
-----------------------------------------------------------------------------
(* Properties                                                               *)

Points == {"idle", "vec", "seeds", "bfs", "fetch", "assemble", "done", "refused", "raised"}
Edges == [slice : SliceIds, src : concepts, dst : concepts]

\* The locals of a recall, and the memory, keep their shape.
TypeOK ==
  /\ memory \subseteq SliceIds /\ index \subseteq SliceIds /\ erased \subseteq SliceIds
  /\ relations \subseteq Edges
  /\ pc \in Points
  /\ req \in Requests \cup {None} /\ (req = None <=> pc = "idle")
  /\ own \in SliceIds \cup {None}
  /\ vec \subseteq SliceIds /\ hits \subseteq SliceIds
  /\ visited \subseteq concepts /\ level \subseteq visited /\ found \subseteq visited
  /\ depth \in Nat
  /\ todo \subseteq vec \cup hits
  /\ result \in Seq(vec \cup hits) /\ left \in Int
  /\ kept \in Seq(vec \cup hits) /\ dropped \in Seq(vec \cup hits)
  /\ gone \subseteq erased /\ still \in BOOLEAN
  /\ steady \subseteq ever /\ ever \subseteq Edges

\* What graph.bfs promises: the nodes within h edges, in either direction.
Reach(edges, from, h) ==
  LET reached[i \in Nat] ==
        IF i = 0 THEN from ELSE reached[i - 1] \cup Ends(At(edges, reached[i - 1]))
  IN  reached[IF h > 0 THEN h ELSE 0]

\* The slices recall's graph expansion stands for, over the given edges.
Around(edges) ==
  {e.slice : e \in At(edges, Reach(edges, Ends(Of(edges, vec)), req.hops))}

\* The expansion is a row of queries that other clients write between.  It
\* finds every node and slice that relations present all the time lead to within
\* the hops asked for, and none that relations present at some time do not.
ReachesWhatHeld ==
  pc = "fetch" =>
    /\ Reach(steady, Ends(Of(steady, vec)), req.hops) \subseteq visited
    /\ visited \subseteq Reach(ever, Ends(Of(ever, vec)), req.hops)
    /\ Around(steady) \subseteq hits
    /\ hits \subseteq Around(ever)

\* The candidates whose texts, with those of all that come before them in the
\* order of score and id, fit the character budget; the first whatever its length.
Expected ==
  LET hit == Around(relations)
      candidates == (vec \cup hit) \ {own}
      UpTo(s) == {o \in candidates : o = s \/ Before(o, s, hit)}
  IN  {s \in candidates :
         UpTo(s) = {s} \/ SumFunctionOnSet(Length, UpTo(s)) <= CharBudget}

\* When nobody wrote in the meantime, recall returns what it stands for: the
\* nearest slices and those around them, each once and in order, as far as the
\* character budget goes.
RecallIsExact ==
  pc = "fetch" /\ todo = {} /\ still =>
    /\ ToSet(result) = Expected
    /\ \A i, j \in 1..Len(result) :
         i < j => Before(result[i], result[j], Around(relations))

\* A slice that is forgotten before its text is read is not recalled, however
\* it was found by then; nor is the turn's own message.
ForgottenStaysOut == ToSet(result) \cap (gone \cup {own}) = {}

\* Whatever other clients do, the slices recalled are in the order of score and
\* id that the prompt cache relies on, and no candidate left is before them.
RankedRecall ==
  /\ \A i, j \in 1..Len(result) : i < j => Before(result[i], result[j], hits)
  /\ \A i \in 1..Len(result), s \in todo : Before(result[i], s, hits)

\* assemble_prompt keeps the longest part of the ranking, from the best slice on,
\* that fits the budget, records the others worst first, and refuses a prompt
\* only when no part fits, not even none of the slices.
LongestThatFits ==
  LET Longer(n) == \A m \in n + 1 .. Len(result) : ~Fits(SubSeq(result, 1, m)) IN
  req # None /\ req.prompt # None /\ pc \in {"assemble", "done", "refused"} =>
    /\ result = kept \o Reverse(dropped)
    /\ Longer(Len(kept))
    /\ pc = "done" => Fits(kept)
    /\ pc = "refused" => kept = <<>> /\ ~Fits(kept)

\* docs/v0.11-design.md: a ratio between 0 and 1 is the share of the window that
\* is reserved, and a prompt is refused when it does not fit the rest.
Promised(window, ratio) ==
  LET share == (window * ratio) \div 100
  IN  window - (IF share > ReserveFloor THEN share ELSE ReserveFloor) - ToolsReserve

OnlyOversizedRefused ==
  pc = "refused" /\ req.prompt.ratio \in 1..99 =>
    Estimated(<<>>) > Promised(Window(req.prompt.window), req.prompt.ratio)
=============================================================================
