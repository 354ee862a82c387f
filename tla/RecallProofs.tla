----------------------------- MODULE RecallProofs -----------------------------
(***************************************************************************)
(* What Recall guarantees for any memory, requests, scores, lengths and     *)
(* budgets, whatever other clients save and forget while it reads.          *)
(***************************************************************************)
EXTENDS Recall, FoldProofs, SequenceTheorems, FiniteSetTheorems, TLAPS

\* What has not been reached is still blank.
Fresh ==
  /\ pc # "bfs" => level = {}
  /\ level = {} => found = {}
  /\ pc \in {"idle", "vec", "seeds", "bfs"} => todo = {} /\ result = <<>>
  /\ pc \in {"idle", "vec", "seeds", "bfs", "fetch"} => kept = <<>> /\ dropped = <<>>

TypeInv == TypeOK /\ Fresh

Inside(e, nodes) == e.slice \in SliceIds /\ e.src \in nodes /\ e.dst \in nodes

\* The steps of the reader leave the memory alone.
Reading ==
  \/ \E r \in Requests : Ask(r)
  \/ VecSearch \/ Seeds \/ GraphSearch \/ TooManyVariables \/ Recalled
  \/ \E n \in level : Visit(n)
  \/ \E s \in todo : Fetch(s)
  \/ NoInverse \/ Drop \/ Assembled \/ TooBig \/ Return

Writing == \E s \in SliceIds : Saved(s) \/ Related(s) \/ Forgotten(s)

LEMMA Steps == Next => Reading \/ Writing
  BY Zenon DEF Next, Reading, Writing

\* A recall only reads: the memory it runs over is MemoryPromise, which
\* MemoryStore implements.
THEOREM RecallOnlyReads == Spec => PromiseSpec
<1>1. Init => PromiseInit
  BY DEF Init
<1>2. [Next]_vars => [PromiseNext]_pvars
  <2> SUFFICES ASSUME [Next]_vars PROVE [PromiseNext]_pvars
    OBVIOUS
  <2>1. CASE UNCHANGED vars
    BY <2>1 DEF vars
  <2>2. CASE Writing
    BY <2>2 DEF Writing, Saved, Related, Forgotten, PromiseNext
  <2>3. CASE Reading
    BY <2>3 DEF Reading, Ask, VecSearch, Seeds, GraphSearch, TooManyVariables, Recalled, Visit,
      Expand, Fetch, Drop, Assembled, TooBig, Assembling, NoInverse, Return
  <2> QED
    BY <2>1, <2>2, <2>3, Steps
<1> QED
  BY <1>1, <1>2, PTL DEF Spec, PromiseSpec

-----------------------------------------------------------------------------
(* Shape *)

\* The ends of relations over known concepts are known.
LEMMA EndsKnown ==
  ASSUME NEW E \in SUBSET Edges, NEW F \in SUBSET E
  PROVE  Ends(F) \subseteq concepts
  BY DEF Ends, Edges

\* The first n elements of a sequence.
LEMMA FirstOf ==
  ASSUME NEW S, NEW q \in Seq(S), NEW n \in Nat, n <= Len(q)
  PROVE  /\ SubSeq(q, 1, n) \in Seq(S)
         /\ Len(SubSeq(q, 1, n)) = n
         /\ \A i \in 1..n : SubSeq(q, 1, n)[i] = q[i]
  OBVIOUS

\* The last element leaves, and the rest and it are of the sequence's kind.
LEMMA FrontLast ==
  ASSUME NEW S, NEW q \in Seq(S), q # <<>>
  PROVE  /\ Front(q) \in Seq(S) /\ Last(q) \in S
         /\ Len(Front(q)) = Len(q) - 1
         /\ \A i \in 1..Len(q) - 1 : Front(q)[i] = q[i]
<1>1. Len(q) - 1 \in Nat /\ Len(q) - 1 <= Len(q) /\ Len(q) \in 1..Len(q)
  BY EmptySeq
<1>2. Last(q) \in S
  BY <1>1, ElementOfSeq DEF Last
<1>3. /\ SubSeq(q, 1, Len(q) - 1) \in Seq(S)
      /\ Len(SubSeq(q, 1, Len(q) - 1)) = Len(q) - 1
      /\ \A i \in 1..Len(q) - 1 : SubSeq(q, 1, Len(q) - 1)[i] = q[i]
  BY <1>1, FirstOf
<1> QED BY <1>2, <1>3 DEF Front

LEMMA TypeInit == Init => TypeInv
<1> SUFFICES ASSUME Init PROVE TypeInv
  OBVIOUS
<1>1. CharBudget \in Int
  BY RecallAssumption
<1>2. \A S : <<>> \in Seq(S)
  OBVIOUS
<1>3. Fresh
  BY DEF Init, Fresh
<1>4. TypeOK
  BY <1>1, <1>2, RecallAssumption DEF Init, PromiseInit, TypeOK, Points
<1> QED BY <1>3, <1>4 DEF TypeInv

\* Other clients add known edges and concepts only.
LEMMA TypeWriting == TypeInv /\ Writing => TypeInv'
<1> SUFFICES ASSUME TypeInv, NEW s \in SliceIds, Saved(s) \/ Related(s) \/ Forgotten(s)
    PROVE TypeInv'
  BY DEF Writing
<1>1. /\ UNCHANGED <<pc, req, own, search, ranking, prompt>>
      /\ still' = FALSE
      /\ steady' = IF Searching THEN steady \cap relations' ELSE steady
      /\ ever' = IF Searching THEN ever \cup relations' ELSE ever
      /\ gone' = IF Searching \/ pc = "fetch" THEN gone \cup (erased' \ ToSet(result)) ELSE gone
  BY DEF Saved, Related, Forgotten, Watch
<1>2. /\ memory' \subseteq SliceIds /\ index' \subseteq SliceIds /\ erased' \subseteq SliceIds
      /\ concepts \subseteq concepts' /\ erased \subseteq erased'
  BY DEF TypeInv, TypeOK, Saved, Related, Forgotten, Remember, Relate, Forget
<1>3. relations' \subseteq Edges'
  <2>1. CASE Saved(s) \/ Forgotten(s)
    BY <2>1 DEF TypeInv, TypeOK, Saved, Forgotten, Remember, Forget, Edges
  <2>2. CASE Related(s)
    <3>1. PICK g \in Graphs :
            relations' = relations \cup {[slice |-> s, src |-> e[1], dst |-> e[2]] : e \in g.edges}
      BY <2>2 DEF Related
    <3>2. \A e \in relations' \ relations : e.src \in concepts' /\ e.dst \in concepts'
      BY <2>2 DEF Related, Relate
    <3>3. \A e \in relations' \ relations : e \in Edges'
      BY <3>1, <3>2 DEF Edges
    <3>4. relations \subseteq Edges'
      BY <1>2 DEF TypeInv, TypeOK, Edges
    <3> QED BY <3>3, <3>4
  <2> QED BY <2>1, <2>2
<1>4. steady' \subseteq ever' /\ ever' \subseteq Edges' /\ gone' \subseteq erased' /\ still' \in BOOLEAN
  <2>1. ever \subseteq Edges'
    BY <1>2 DEF TypeInv, TypeOK, Edges
  <2> QED BY <1>1, <1>2, <1>3, <2>1 DEF TypeInv, TypeOK
<1>5. Fresh'
  BY <1>1 DEF TypeInv, Fresh, search, ranking, prompt
<1>6. /\ pc' \in Points /\ req' \in Requests \cup {None} /\ (req' = None <=> pc' = "idle")
      /\ own' \in SliceIds \cup {None} /\ vec' \subseteq SliceIds /\ hits' \subseteq SliceIds
      /\ visited' \subseteq concepts' /\ level' \subseteq visited' /\ found' \subseteq visited'
      /\ depth' \in Nat /\ todo' \subseteq (vec \cup hits)'
      /\ result' \in Seq((vec \cup hits)') /\ left' \in Int
      /\ kept' \in Seq((vec \cup hits)') /\ dropped' \in Seq((vec \cup hits)')
  BY <1>1, <1>2 DEF TypeInv, TypeOK, search, ranking, prompt
<1> QED BY <1>2, <1>3, <1>4, <1>5, <1>6 DEF TypeInv, TypeOK

\* The reader's steps.
LEMMA TypeReading == TypeInv /\ Reading => TypeInv'
<1> SUFFICES ASSUME TypeInv, Reading PROVE TypeInv'
  OBVIOUS
<1> USE DEF TypeInv
<1>1. ASSUME NEW r \in Requests, Ask(r) PROVE TypeInv'
  <2>1. own' \in SliceIds \cup {None}
    BY <1>1 DEF Ask, TypeOK
  <2>2. req' \in Requests /\ req' # None
    BY <1>1, RecallAssumption DEF Ask
  <2>3. TypeOK'
    BY <1>1, <2>1, <2>2 DEF Ask, TypeOK, Points, Edges, pvars, search, ranking, prompt
  <2>4. Fresh'
    BY <1>1 DEF Ask, Fresh, search, ranking, prompt
  <2> QED BY <2>3, <2>4
<1>2. ASSUME VecSearch PROVE TypeInv'
  <2>1. vec' \subseteq SliceIds
    BY <1>2 DEF VecSearch, TypeOK
  <2>2. Fresh'
    BY <1>2 DEF VecSearch, Fresh, ranking, prompt
  <2>3. /\ todo = {} /\ result = <<>> /\ kept = <<>> /\ dropped = <<>>
        /\ \A S : <<>> \in Seq(S)
    BY <1>2 DEF VecSearch, Fresh
  <2>4. TypeOK'
    BY <1>2, <2>1, <2>3 DEF VecSearch, TypeOK, Points, Edges, pvars, ranking, prompt, history
  <2> QED BY <2>2, <2>4
<1>3. ASSUME Seeds PROVE TypeInv'
  <2>1. Ends(Of(relations, vec)) \subseteq concepts
    BY EndsKnown DEF TypeOK, Of
  <2>2. visited' \subseteq concepts /\ level' \subseteq visited' /\ found' \subseteq visited'
    BY <1>3, <2>1 DEF Seeds, Fresh
  <2>3. TypeOK'
    BY <1>3, <2>2 DEF Seeds, TypeOK, Points, Edges, pvars, ranking, prompt, history
  <2>4. Fresh'
    BY <1>3 DEF Seeds, Fresh, ranking, prompt
  <2> QED BY <2>3, <2>4
<1>4. ASSUME NEW n \in level, Visit(n) PROVE TypeInv'
  <2>1. Unseen(n) \subseteq concepts
    BY EndsKnown DEF TypeOK, Unseen, At
  <2>2. /\ visited' \subseteq concepts /\ level' \subseteq visited' /\ found' \subseteq visited'
        /\ depth' \in Nat
    BY <1>4, <2>1 DEF Visit, Expand, TypeOK, pvars
  <2>3. TypeOK'
    BY <1>4, <2>2 DEF Visit, Expand, TypeOK, Points, Edges, pvars, ranking, prompt, history
  <2>4. Fresh'
    BY <1>4 DEF Visit, Expand, Fresh, ranking, prompt
  <2> QED BY <2>3, <2>4
<1>5. ASSUME GraphSearch PROVE TypeInv'
  <2>1. hits' \subseteq SliceIds
    BY <1>5 DEF GraphSearch, At, TypeOK, Edges
  <2>2. result = <<>> /\ kept = <<>> /\ dropped = <<>> /\ \A S : <<>> \in Seq(S)
    BY <1>5 DEF GraphSearch, Fresh
  <2>3. TypeOK'
    BY <1>5, <2>1, <2>2 DEF GraphSearch, TypeOK, Points, Edges, pvars, prompt, history
  <2>4. Fresh'
    BY <1>5, <2>2 DEF GraphSearch, Fresh, prompt
  <2> QED BY <2>3, <2>4
<1>6. ASSUME NEW s \in todo, Fetch(s) PROVE TypeInv'
  <2>1. s \in vec \cup hits /\ s \in SliceIds
    BY DEF TypeOK
  <2>2. left - Length[s] \in Int
    BY <2>1, RecallAssumption DEF TypeOK
  <2>3. Append(result, s) \in Seq(vec \cup hits)
    BY <2>1 DEF TypeOK
  <2>4. /\ todo' \subseteq vec \cup hits
        /\ result' \in Seq(vec \cup hits) /\ left' \in Int
    BY <1>6, <2>2, <2>3 DEF Fetch, TypeOK
  <2>5. TypeOK'
    BY <1>6, <2>4 DEF Fetch, TypeOK, Points, Edges, pvars, search, prompt, history
  <2>6. Fresh'
    BY <1>6 DEF Fetch, Fresh, search, prompt
  <2> QED BY <2>5, <2>6
<1>7. ASSUME Recalled PROVE TypeInv'
  <2>1. pc' \in {"done", "assemble"} /\ left' \in Int
    BY <1>7, RecallAssumption DEF Recalled
  <2>2. level \subseteq {} /\ found \subseteq {}
    BY <1>7 DEF Recalled, Fresh
  <2> QED BY <1>7, <2>1, <2>2 DEF Recalled, TypeOK, Fresh, Points, Edges, pvars
<1>8. ASSUME Drop PROVE TypeInv'
  <2>1. kept \in Seq(vec \cup hits) /\ kept # <<>> /\ dropped \in Seq(vec \cup hits)
    BY <1>8 DEF Drop, Assembling, TypeOK
  <2>2. Front(kept) \in Seq(vec \cup hits) /\ Last(kept) \in vec \cup hits
    BY <2>1, FrontLast
  <2>3. Append(dropped, Last(kept)) \in Seq(vec \cup hits)
    BY <2>1, <2>2
  <2> QED BY <1>8, <2>2, <2>3 DEF Drop, Assembling, TypeOK, Fresh, Points, Edges, pvars, search,
      ranking, history
<1>9. ASSUME TooManyVariables \/ NoInverse \/ Assembled \/ TooBig PROVE TypeInv'
  BY <1>9 DEF TooManyVariables, Assembled, TooBig, Assembling, NoInverse, TypeOK, Fresh, Points,
    Edges, pvars, search, ranking, prompt, history
<1>10. ASSUME Return PROVE TypeInv'
  <2>1. CharBudget \in Int /\ \A S : <<>> \in Seq(S)
    BY RecallAssumption
  <2>2. TypeOK'
    BY <1>10, <2>1 DEF Return, TypeOK, Points, Edges, pvars
  <2>3. Fresh'
    BY <1>10 DEF Return, Fresh
  <2> QED BY <2>2, <2>3
<1> QED BY <1>1, <1>2, <1>3, <1>4, <1>5, <1>6, <1>7, <1>8, <1>9, <1>10 DEF Reading

LEMMA TypesInvariant == Spec => []TypeInv
<1>1. TypeInv /\ [Next]_vars => TypeInv'
  <2>1. TypeInv /\ UNCHANGED vars => TypeInv'
    BY DEF TypeInv, TypeOK, Fresh, Points, Edges, vars, pvars, search, ranking, prompt, history
  <2> QED BY <2>1, Steps, TypeReading, TypeWriting
<1> QED BY TypeInit, <1>1, PTL DEF Spec

\* TypeOK: the locals of a recall, and the memory, keep their shape.
THEOREM RecallTypes == Spec => []TypeOK
<1>1. TypeInv => TypeOK
  BY DEF TypeInv
<1> QED BY <1>1, TypesInvariant, PTL
-----------------------------------------------------------------------------
(* Forgetting while somebody reads *)

\* What is remembered is not erased, so what was erased is never read.
Apart == memory \cap erased = {} /\ ForgottenStaysOut

LEMMA ApartStep == TypeInv /\ Apart /\ [Next]_vars => Apart'
<1> SUFFICES ASSUME TypeInv, Apart, [Next]_vars PROVE Apart'
  OBVIOUS
<1>1. CASE UNCHANGED vars
  BY <1>1 DEF Apart, ForgottenStaysOut, ToSet, vars, pvars, search, ranking, prompt, history
<1>2. ASSUME NEW s \in SliceIds, Saved(s) \/ Related(s) \/ Forgotten(s) PROVE Apart'
  <2>1. (memory \cap erased = {})'
    BY <1>2 DEF Apart, Saved, Related, Forgotten, Remember, Relate, Forget
  <2>2. /\ result' = result /\ own' = own
        /\ gone' = gone \/ gone' = gone \cup (erased' \ ToSet(result))
    BY <1>2 DEF Saved, Related, Forgotten, Watch, ranking
  <2>3. ToSet(result') = ToSet(result)
    BY <2>2
  <2> QED BY <2>1, <2>2, <2>3 DEF Apart, ForgottenStaysOut
<1>3. ASSUME Reading PROVE Apart'
  <2>1. memory' = memory /\ erased' = erased
    BY <1>3 DEF Reading, Ask, VecSearch, Seeds, GraphSearch, TooManyVariables, Recalled, Visit,
      Expand, Fetch, Drop, Assembled, TooBig, Assembling, NoInverse, Return, pvars
  <2>2. ASSUME result' = <<>> PROVE ForgottenStaysOut'
    BY <2>2 DEF ForgottenStaysOut, ToSet
  <2>3. CASE (\E r \in Requests : Ask(r)) \/ Return
    <3>1. result' = <<>>
      BY <2>3 DEF Ask, Return, TypeInv, Fresh, ranking
    <3> QED BY <2>1, <2>2, <3>1 DEF Apart
  <2>4. CASE UNCHANGED <<result, own, gone>>
    BY <2>1, <2>4 DEF Apart, ForgottenStaysOut, ToSet
  <2>5. ASSUME NEW s \in todo, Fetch(s), result' = Append(result, s), ~Skipped(s) PROVE Apart'
    <3>1. gone' = gone /\ own' = own /\ gone \subseteq erased
      BY <2>5 DEF Fetch, TypeInv, TypeOK, history
    <3>2. s \notin gone \cup {own}
      BY <2>5, <3>1 DEF Skipped, Apart
    <3>3. result \in Seq(vec \cup hits)
      BY DEF TypeInv, TypeOK
    <3>4. ToSet(Append(result, s)) = ToSet(result) \cup {s}
      BY <3>3 DEF ToSet
    <3> QED BY <2>1, <2>5, <3>1, <3>2, <3>4 DEF Apart, ForgottenStaysOut
  <2>6. ASSUME NEW s \in todo, Fetch(s) PROVE Apart'
    <3>1. CASE result' = result
      BY <2>4, <2>6, <3>1 DEF Fetch, history
    <3>2. CASE result' = Append(result, s) /\ ~Skipped(s)
      BY <2>5, <2>6, <3>2
    <3> QED BY <2>6, <3>1, <3>2 DEF Fetch
  <2>7. CASE VecSearch \/ Seeds \/ GraphSearch \/ TooManyVariables \/ Recalled
             \/ (\E n \in level : Visit(n)) \/ NoInverse \/ Drop \/ Assembled \/ TooBig
    BY <2>4, <2>7 DEF VecSearch, Seeds, GraphSearch, TooManyVariables, Recalled, Visit, Expand,
      Drop, Assembled, TooBig, Assembling, NoInverse, ranking, history
  <2> QED BY <1>3, <2>3, <2>6, <2>7 DEF Reading
<1> QED BY <1>1, <1>2, <1>3, Steps DEF Writing

\* ForgottenStaysOut: a slice forgotten before its text is read is not recalled,
\* though the search or the expansion had found it.
THEOREM ForgottenNeverRecalled == Spec => []ForgottenStaysOut
<1>1. Init => Apart
  BY DEF Init, PromiseInit, Apart, ForgottenStaysOut, ToSet
<1>2. Apart => ForgottenStaysOut
  BY DEF Apart
<1> QED BY <1>1, <1>2, ApartStep, TypesInvariant, PTL DEF Spec
-----------------------------------------------------------------------------
(* The order of the result *)

LEMMA RankedStep == TypeInv /\ RankedRecall /\ [Next]_vars => RankedRecall'
<1> SUFFICES ASSUME TypeInv, RankedRecall, [Next]_vars PROVE RankedRecall'
  OBVIOUS
\* Order depends on the request and what was found; fewer candidates do not hurt.
<1>1. ASSUME UNCHANGED <<req, vec, hits, result>>, todo' \subseteq todo PROVE RankedRecall'
  BY <1>1 DEF RankedRecall, Before, Score
<1>2. ASSUME result' = <<>> PROVE RankedRecall'
  BY <1>2 DEF RankedRecall
<1>3. CASE UNCHANGED vars
  BY <1>1, <1>3 DEF vars, search, ranking
<1>4. CASE Writing
  BY <1>1, <1>4 DEF Writing, Saved, Related, Forgotten, Watch, search, ranking
<1>5. CASE (\E r \in Requests : Ask(r)) \/ VecSearch \/ GraphSearch \/ Return
  BY <1>2, <1>5 DEF Ask, VecSearch, GraphSearch, Return, ranking, TypeInv, Fresh
<1>6. CASE Seeds \/ TooManyVariables \/ Recalled \/ (\E n \in level : Visit(n))
           \/ NoInverse \/ Drop \/ Assembled \/ TooBig
  BY <1>1, <1>6 DEF Seeds, TooManyVariables, Recalled, Visit, Expand, Drop, Assembled, TooBig,
    Assembling, NoInverse, search, ranking
<1>7. ASSUME NEW s \in todo, Fetch(s) PROVE RankedRecall'
  <2>1. CASE result' = result
    BY <1>1, <1>7, <2>1 DEF Fetch, search
  <2>2. CASE result' = Append(result, s) /\ todo' = todo \ {s}
    <3> DEFINE n == Len(result)
    <3>1. n \in Nat /\ Len(result') = n + 1 /\ result'[n + 1] = s
          /\ \A i \in 1..n : result'[i] = result[i]
      BY <2>2 DEF TypeInv, TypeOK
    <3>2. \A x, y : Before(x, y, hits)' = Before(x, y, hits)
      BY <1>7 DEF Fetch, search, Before, Score
    <3>3. \A o \in todo \ {s} : Before(s, o, hits)
      BY <1>7 DEF Fetch, First
    <3>4. \A i \in 1..n : Before(result[i], s, hits)
      BY DEF RankedRecall
    <3>5. \A i, j \in 1..n + 1 : i < j => Before(result'[i], result'[j], hits)
      <4> SUFFICES ASSUME NEW i \in 1..n + 1, NEW j \in 1..n + 1, i < j
          PROVE Before(result'[i], result'[j], hits)
        OBVIOUS
      <4>1. i \in 1..n /\ result'[i] = result[i]
        BY <3>1
      <4>2. CASE j = n + 1
        BY <3>1, <3>4, <4>1, <4>2
      <4>3. CASE j \in 1..n
        BY <3>1, <4>1, <4>3 DEF RankedRecall
      <4> QED BY <3>1, <4>2, <4>3
    <3>6. \A i \in 1..n + 1, o \in todo \ {s} : Before(result'[i], o, hits)
      <4> SUFFICES ASSUME NEW i \in 1..n + 1, NEW o \in todo \ {s}
          PROVE Before(result'[i], o, hits)
        OBVIOUS
      <4>1. CASE i = n + 1
        BY <3>1, <3>3, <4>1
      <4>2. CASE i \in 1..n
        BY <3>1, <4>2 DEF RankedRecall
      <4> QED BY <3>1, <4>1, <4>2
    <3>7. /\ \A i, j \in 1..n + 1 : i < j => Before(result[i], result[j], hits)'
          /\ \A i \in 1..n + 1, o \in todo' : Before(result[i], o, hits)'
      <4>1. hits' = hits /\ vec' = vec /\ req' = req
        BY <1>7 DEF Fetch, search
      <4> QED BY <2>2, <3>5, <3>6, <4>1 DEF Before, Score
    <3> QED BY <3>1, <3>7 DEF RankedRecall
  <2> QED BY <1>7, <2>1, <2>2 DEF Fetch
<1> QED BY <1>3, <1>4, <1>5, <1>6, <1>7, Steps DEF Reading

\* RankedRecall: the slices recalled are in the order of score and id, and no
\* candidate still to be fetched is before them.
THEOREM RecallIsRanked == Spec => []RankedRecall
<1>1. Init => RankedRecall
  BY DEF Init, RankedRecall
<1> QED BY <1>1, RankedStep, TypesInvariant, PTL DEF Spec
-----------------------------------------------------------------------------
(* The prompt *)

LEMMA ReverseIs ==
  ASSUME NEW S, NEW d \in Seq(S)
  PROVE  /\ Reverse(d) \in Seq(S) /\ Len(Reverse(d)) = Len(d)
         /\ \A i \in 1..Len(d) : Reverse(d)[i] = d[Len(d) - i + 1]
  BY DEF Reverse

\* Moving the last kept slice to the end of the dropped ones moves nothing in
\* the ranking they make up.
LEMMA MoveLast ==
  ASSUME NEW S, NEW k \in Seq(S), NEW d \in Seq(S), k # <<>>
  PROVE  Front(k) \o Reverse(Append(d, Last(k))) = k \o Reverse(d)
<1>1. PICK x \in S : x = Last(k) /\ x = k[Len(k)]
  BY FrontLast DEF Last
<1>2. PICK p \in Seq(S) :
        p = Front(k) /\ Len(p) = Len(k) - 1 /\ \A i \in 1..Len(k) - 1 : p[i] = k[i]
  BY FrontLast
<1>3. PICK r \in Seq(S) :
        r = Reverse(d) /\ Len(r) = Len(d) /\ \A i \in 1..Len(d) : r[i] = d[Len(d) - i + 1]
  BY ReverseIs
<1>4. PICK a : a = Append(d, x)
  OBVIOUS
<1>5. /\ a \in Seq(S) /\ Len(a) = Len(d) + 1 /\ a[Len(d) + 1] = x
      /\ \A i \in 1..Len(d) : a[i] = d[i]
  BY <1>4
<1>6. PICK m \in Seq(S) :
        m = Reverse(a) /\ Len(m) = Len(a) /\ \A i \in 1..Len(a) : m[i] = a[Len(a) - i + 1]
  BY <1>5, ReverseIs
<1>7. Len(d) \in Nat /\ Len(k) \in Nat \ {0}
  BY EmptySeq
<1>8. m[1] = x
  BY <1>5, <1>6, <1>7
<1>9. ASSUME NEW i \in 1..Len(r) PROVE m[i + 1] = r[i]
  <2>1. /\ i \in 1..Len(d) /\ i + 1 \in 1..Len(a) /\ Len(d) - i + 1 \in 1..Len(d)
        /\ Len(a) - (i + 1) + 1 = Len(d) - i + 1
    BY <1>3, <1>5, <1>7
  <2> QED BY <2>1, <1>3, <1>5, <1>6
<1>10. Len(k) = Len(p) + 1 /\ Len(m) = Len(r) + 1 /\ \A i \in 1..Len(p) : p[i] = k[i]
  BY <1>2, <1>3, <1>5, <1>6, <1>7
<1>11. p \o m \in Seq(S) /\ k \o r \in Seq(S)
  OBVIOUS
<1>12. Len(p \o m) = Len(k \o r)
  <2>1. Len(p \o m) = Len(p) + Len(m) /\ Len(k \o r) = Len(k) + Len(r)
    BY ConcatProperties, Zenon
  <2> QED BY <2>1, <1>3, <1>7, <1>10
<1>13. ASSUME NEW i \in 1..Len(p \o m) PROVE (p \o m)[i] = (k \o r)[i]
  <2>1. i \in 1..Len(k) + Len(r)
    BY <1>3, <1>7, <1>10
  <2>2. CASE i \in 1..Len(p)
    BY <2>2, <1>7, <1>10
  <2>3. CASE i = Len(k)
    <3>1. (p \o m)[i] = m[1]
      BY <2>3, <1>3, <1>7, <1>10
    <3>2. (k \o r)[i] = k[Len(k)]
      BY <2>3, <1>3, <1>7
    <3> QED BY <3>1, <3>2, <1>1, <1>8
  <2>4. CASE i > Len(k)
    <3>1. i - Len(k) \in 1..Len(r) /\ i - Len(p) = (i - Len(k)) + 1
      BY <2>1, <2>4, <1>3, <1>7, <1>10
    <3>2. (p \o m)[i] = m[i - Len(p)]
      BY <2>1, <2>4, <1>3, <1>7, <1>10
    <3>3. (k \o r)[i] = r[i - Len(k)]
      BY <2>1, <2>4, <1>3, <1>7
    <3> QED BY <3>1, <3>2, <3>3, <1>9
  <2> QED BY <2>1, <2>2, <2>3, <2>4, <1>3, <1>7, <1>10
<1>14. p \o m = k \o r
  BY <1>11, <1>12, <1>13, SeqEqual
<1> QED BY <1>1, <1>2, <1>3, <1>4, <1>6, <1>14

LEMMA LongestStep == TypeInv /\ LongestThatFits /\ [Next]_vars => LongestThatFits'
<1> SUFFICES ASSUME TypeInv, LongestThatFits, [Next]_vars PROVE LongestThatFits'
  OBVIOUS
<1> DEFINE Reached == pc \in {"assemble", "done", "refused"} /\ req # None /\ req.prompt # None
\* What fits depends on the request alone.
<1>1. ASSUME req' = req PROVE \A q : Fits(q)' <=> Fits(q)
  BY <1>1 DEF Fits, Estimated
<1>2. ASSUME ~Reached' PROVE LongestThatFits'
  BY <1>2 DEF LongestThatFits
<1>3. ASSUME UNCHANGED <<pc, req, result, kept, dropped>> PROVE LongestThatFits'
  BY <1>3 DEF LongestThatFits, Fits, Estimated
<1>4. CASE UNCHANGED vars \/ Writing
  BY <1>3, <1>4 DEF vars, ranking, prompt, Writing, Saved, Related, Forgotten, Watch
<1>5. CASE \/ \E r \in Requests : Ask(r)
           \/ VecSearch \/ Seeds \/ GraphSearch \/ TooManyVariables \/ Return
           \/ \E n \in level : Visit(n)
           \/ \E s \in todo : Fetch(s)
  <2>1. pc' \in {"vec", "seeds", "bfs", "fetch", "raised", "idle"}
    BY <1>5 DEF Ask, VecSearch, Seeds, GraphSearch, TooManyVariables, Return, Visit, Expand, Fetch
  <2> QED BY <1>2, <2>1
<1>6. CASE Recalled
  <2>1. req' = req /\ result' = result /\ kept' = result /\ dropped' = <<>>
    BY <1>6 DEF Recalled, TypeInv, Fresh
  <2>2. Reached' => pc' = "assemble"
    BY <1>6, <2>1 DEF Recalled
  <2>3. Reverse(<<>>) = <<>> /\ result \in Seq(vec \cup hits)
    BY DEF Reverse, TypeInv, TypeOK
  <2>4. result' = kept' \o Reverse(dropped')
    BY <2>1, <2>3, ConcatEmptySeq
  <2>5. \A m \in Len(kept') + 1 .. Len(result') : FALSE
    BY <2>1, <2>3
  <2> QED BY <2>2, <2>4, <2>5 DEF LongestThatFits
<1>7. CASE Drop
  <2>1. /\ kept \in Seq(vec \cup hits) /\ kept # <<>> /\ dropped \in Seq(vec \cup hits)
        /\ result \in Seq(vec \cup hits)
    BY <1>7 DEF Drop, Assembling, TypeInv, TypeOK
  <2>2. /\ pc = "assemble" /\ pc' = pc /\ req' = req /\ result' = result /\ ~Fits(kept)
        /\ kept' = Front(kept) /\ dropped' = Append(dropped, Last(kept))
    BY <1>7 DEF Drop, Assembling, ranking
  <2> SUFFICES ASSUME Reached' PROVE LongestThatFits'
    BY <1>2
  <2>3. /\ result = kept \o Reverse(dropped)
        /\ \A m \in Len(kept) + 1 .. Len(result) : ~Fits(SubSeq(result, 1, m))
    BY <2>2 DEF LongestThatFits
  <2>4. result' = kept' \o Reverse(dropped')
    BY <2>1, <2>2, <2>3, MoveLast
  <2>5. Len(kept) \in Nat \ {0} /\ Len(Front(kept)) = Len(kept) - 1 /\ Len(result) \in Nat
    BY <2>1, FrontLast, EmptySeq
  <2>6. SubSeq(result, 1, Len(kept)) = kept
    <3> DEFINE n == Len(kept)
               q == SubSeq(result, 1, n)
    <3>1. n \in Nat /\ Reverse(dropped) \in Seq(vec \cup hits) /\ Len(Reverse(dropped)) \in Nat
      BY <2>1, ReverseIs
    <3>2. n <= Len(result) /\ \A i \in 1..n : result[i] = kept[i]
      BY <2>1, <2>3, <3>1, ConcatProperties
    <3>3. q \in Seq(vec \cup hits) /\ Len(q) = n /\ \A i \in 1..n : q[i] = kept[i]
      BY <2>1, <3>1, <3>2, FirstOf
    <3> HIDE DEF q
    <3>4. q = kept
      BY <2>1, <3>3, SeqEqual
    <3> QED BY <3>4 DEF q
  <2>7. \A m \in Len(kept') + 1 .. Len(result') : ~Fits(SubSeq(result', 1, m))
    <3> SUFFICES ASSUME NEW m \in Len(kept) .. Len(result) PROVE ~Fits(SubSeq(result, 1, m))
      BY <2>2, <2>5
    <3>1. CASE m = Len(kept)
      BY <2>2, <2>6, <3>1
    <3>2. CASE m \in Len(kept) + 1 .. Len(result)
      BY <2>3, <3>2
    <3> QED BY <2>5, <3>1, <3>2
  <2>8. \A m \in Len(kept') + 1 .. Len(result') : (~Fits(SubSeq(result, 1, m)))'
    BY <2>2, <2>7, <1>1 DEF Fits, Estimated
  <2> QED BY <2>2, <2>4, <2>8 DEF LongestThatFits
<1>8. CASE NoInverse \/ Assembled \/ TooBig
  <2>1. /\ pc = "assemble" /\ UNCHANGED <<req, result, kept, dropped>>
        /\ pc' = "done" => Fits(kept)
        /\ pc' = "refused" => kept = <<>> /\ ~Fits(kept)
    BY <1>8 DEF Assembled, TooBig, Assembling, NoInverse, ranking, prompt
  <2> SUFFICES ASSUME Reached' PROVE LongestThatFits'
    BY <1>2
  <2>2. /\ result = kept \o Reverse(dropped)
        /\ \A m \in Len(kept) + 1 .. Len(result) : ~Fits(SubSeq(result, 1, m))
    BY <2>1 DEF LongestThatFits
  <2> QED BY <2>1, <2>2 DEF LongestThatFits, Fits, Estimated
<1> QED BY <1>4, <1>5, <1>6, <1>7, <1>8, Steps DEF Reading

\* LongestThatFits: the prompt carries the longest part of the ranking that the
\* budget allows, and is refused only when not even the empty part fits.
THEOREM PromptIsLongest == Spec => []LongestThatFits
<1>1. Init => LongestThatFits
  BY DEF Init, LongestThatFits
<1> QED BY <1>1, LongestStep, TypesInvariant, PTL DEF Spec
-----------------------------------------------------------------------------
(* What is within reach                                                     *)
(*                                                                          *)
(* Reach is a recursive function.  Walks say without recursion what it      *)
(* collects, and so that there is such a function.                          *)

Nodes(E, F) == F \cup Ends(E)
Hop(E, m, n) == n = m \/ n \in Ends(At(E, {m}))

Walks(E, F, i) ==
  {w \in [0..i -> Nodes(E, F)] : w[0] \in F /\ \A j \in 0..i - 1 : Hop(E, w[j], w[j + 1])}

Layer(E, F, i) == {w[i] : w \in Walks(E, F, i)}

\* Neighbours are neighbours of a node, and more edges and nodes have more.
LEMMA Neighbours ==
  ASSUME NEW E, NEW N
  PROVE  /\ \A n : n \in Ends(At(E, N)) <=> \E m \in N : n \in Ends(At(E, {m}))
         /\ Ends(At(E, N)) \subseteq Ends(E)
         /\ \A G, M : E \subseteq G /\ N \subseteq M => Ends(At(E, N)) \subseteq Ends(At(G, M))
  BY DEF Ends, At

\* One hop more.
LEMMA LayersGrow ==
  ASSUME NEW E, NEW F
  PROVE  /\ Layer(E, F, 0) = F
         /\ \A i \in Nat : Layer(E, F, i + 1) = Layer(E, F, i) \cup Ends(At(E, Layer(E, F, i)))
<1>1. ASSUME NEW x \in F PROVE x \in Layer(E, F, 0)
  <2> DEFINE w == [j \in 0..0 |-> x]
  <2>1. w \in Walks(E, F, 0) /\ w[0] = x
    BY DEF Walks, Nodes
  <2> QED
    BY <2>1 DEF Layer
<1>2. Layer(E, F, 0) = F
  BY <1>1 DEF Layer, Walks
<1>3. ASSUME NEW i \in Nat
      PROVE  Layer(E, F, i + 1) = Layer(E, F, i) \cup Ends(At(E, Layer(E, F, i)))
  <2>1. ASSUME NEW n \in Layer(E, F, i + 1)
        PROVE  n \in Layer(E, F, i) \cup Ends(At(E, Layer(E, F, i)))
    <3>1. PICK w \in Walks(E, F, i + 1) : n = w[i + 1]
      BY DEF Layer
    <3> DEFINE v == [j \in 0..i |-> w[j]]
    <3>2. v \in Walks(E, F, i) /\ v[i] = w[i]
      BY DEF Walks
    <3>3. w[i] \in Layer(E, F, i)
      BY <3>2 DEF Layer
    <3>4. Hop(E, w[i], n)
      BY <3>1 DEF Walks
    <3> QED
      BY <3>3, <3>4, Neighbours DEF Hop
  <2>2. ASSUME NEW n \in Layer(E, F, i) \cup Ends(At(E, Layer(E, F, i)))
        PROVE  n \in Layer(E, F, i + 1)
    <3> DEFINE M == Layer(E, F, i)
    <3> HIDE DEF M
    <3>1. PICK m \in M : Hop(E, m, n)
      <4>1. n \in M \/ n \in Ends(At(E, M))
        BY DEF M
      <4>2. n \in Ends(At(E, M)) => \E m \in M : n \in Ends(At(E, {m}))
        BY Neighbours
      <4> QED
        BY <4>1, <4>2 DEF Hop
    <3>2. PICK w \in Walks(E, F, i) : m = w[i]
      BY <3>1 DEF Layer, M
    <3>3. n \in Nodes(E, F)
      BY <3>1, <3>2, Neighbours DEF Hop, Walks, Nodes
    <3> DEFINE v == [j \in 0..i + 1 |-> IF j = i + 1 THEN n ELSE w[j]]
    <3>4. v \in [0..i + 1 -> Nodes(E, F)] /\ v[0] \in F
      BY <3>3 DEF Walks
    <3>5. ASSUME NEW j \in 0..i PROVE Hop(E, v[j], v[j + 1])
      <4>1. CASE j = i
        BY <3>1, <3>2, <4>1
      <4>2. CASE j \in 0..i - 1
        <5>1. v[j] = w[j] /\ v[j + 1] = w[j + 1]
          BY <4>2
        <5> QED
          BY <4>2, <5>1 DEF Walks
      <4> QED
        BY <4>1, <4>2
    <3>6. v \in Walks(E, F, i + 1) /\ v[i + 1] = n
      BY <3>4, <3>5 DEF Walks
    <3> QED
      BY <3>6 DEF Layer
  <2> QED
    BY <2>1, <2>2
<1> QED
  BY <1>2, <1>3

\* Reach is what its recursion says.
LEMMA ReachSteps ==
  ASSUME NEW E, NEW F
  PROVE  /\ Reach(E, F, 0) = F
         /\ \A i \in Nat : Reach(E, F, i + 1) = Reach(E, F, i) \cup Ends(At(E, Reach(E, F, i)))
<1> DEFINE Next1(g, i) == IF i = 0 THEN F ELSE g[i - 1] \cup Ends(At(E, g[i - 1]))
           Steps1(g) == g = [i \in Nat |-> Next1(g, i)]
           layers == [i \in Nat |-> Layer(E, F, i)]
           reached == CHOOSE g : Steps1(g)
<1>1. Steps1(layers)
  <2>1. ASSUME NEW i \in Nat PROVE layers[i] = Next1(layers, i)
    <3>1. CASE i = 0
      BY <3>1, LayersGrow
    <3>2. CASE i # 0
      <4>1. PICK j \in Nat : i = j + 1 /\ i - 1 = j
        BY <3>2, i - 1 \in Nat
      <4>2. \A k \in Nat : Layer(E, F, k + 1) = Layer(E, F, k) \cup Ends(At(E, Layer(E, F, k)))
        BY LayersGrow
      <4> QED
        BY <3>2, <4>1, <4>2
    <3> QED
      BY <3>1, <3>2
  <2> QED
    BY <2>1
<1>2. Steps1(reached)
  BY <1>1
<1>3. \A i \in Nat : Reach(E, F, i) = reached[i]
  BY DEF Reach
<1> HIDE DEF reached
<1>4. \A i \in Nat : reached[i] = Next1(reached, i)
  BY <1>2
<1>5. ASSUME NEW i \in Nat PROVE reached[i + 1] = reached[i] \cup Ends(At(E, reached[i]))
  <2>1. i + 1 \in Nat /\ i + 1 # 0 /\ (i + 1) - 1 = i
    OBVIOUS
  <2> QED
    BY <2>1, <1>4
<1>6. reached[0] = F
  BY <1>4
<1> QED
  BY <1>3, <1>5, <1>6

\* More edges and seeds reach more.
LEMMA ReachMore ==
  ASSUME NEW E, NEW F, NEW G, NEW H, E \subseteq G, F \subseteq H
  PROVE  \A i \in Nat : Reach(E, F, i) \subseteq Reach(G, H, i)
<1> SUFFICES ASSUME NEW T, T = {i \in Nat : ~ (Reach(E, F, i) \subseteq Reach(G, H, i))}, T # {}
    PROVE  FALSE
  OBVIOUS
<1>1. PICK i \in T : \A j \in T : i <= j
  BY LeastNat
<1>2. i # 0
  BY ReachSteps
<1>3. PICK j \in Nat : i = j + 1 /\ j \notin T
  BY <1>1, <1>2, i - 1 \in Nat
<1>4. Reach(E, F, j) \subseteq Reach(G, H, j)
  BY <1>3
<1>5. /\ Reach(E, F, j + 1) = Reach(E, F, j) \cup Ends(At(E, Reach(E, F, j)))
      /\ Reach(G, H, j + 1) = Reach(G, H, j) \cup Ends(At(G, Reach(G, H, j)))
  BY ReachSteps
<1>6. Ends(At(E, Reach(E, F, j))) \subseteq Ends(At(G, Reach(G, H, j)))
  BY <1>4, Neighbours
<1> QED
  BY <1>3, <1>4, <1>5, <1>6

\* More hops reach more.
LEMMA ReachFarther ==
  ASSUME NEW E, NEW F, NEW n \in Nat
  PROVE  \A i \in Nat : n <= i => Reach(E, F, n) \subseteq Reach(E, F, i)
<1> SUFFICES ASSUME NEW T, T = {i \in Nat : n <= i /\ ~ (Reach(E, F, n) \subseteq Reach(E, F, i))},
                    T # {}
    PROVE  FALSE
  OBVIOUS
<1>1. PICK i \in T : \A j \in T : i <= j
  BY LeastNat
<1>2. i # n
  OBVIOUS
<1>3. PICK j \in Nat : i = j + 1 /\ n <= j /\ j \notin T
  BY <1>1, <1>2, i - 1 \in Nat
<1>4. \A k \in Nat : Reach(E, F, k + 1) = Reach(E, F, k) \cup Ends(At(E, Reach(E, F, k)))
  BY ReachSteps
<1> QED
  BY <1>3, <1>4

\* Nothing leads out of a set with all its neighbours.
LEMMA ReachStays ==
  ASSUME NEW E, NEW F, NEW V, F \subseteq V, Ends(At(E, V)) \subseteq V
  PROVE  \A i \in Nat : Reach(E, F, i) \subseteq V
<1> SUFFICES ASSUME NEW T, T = {i \in Nat : ~ (Reach(E, F, i) \subseteq V)}, T # {}
    PROVE  FALSE
  OBVIOUS
<1>1. PICK i \in T : \A j \in T : i <= j
  BY LeastNat
<1>2. i # 0
  BY ReachSteps
<1>3. PICK j \in Nat : i = j + 1 /\ j \notin T
  BY <1>1, <1>2, i - 1 \in Nat
<1>4. \A k \in Nat : Reach(E, F, k + 1) = Reach(E, F, k) \cup Ends(At(E, Reach(E, F, k)))
  BY ReachSteps
<1>5. Ends(At(E, Reach(E, F, j))) \subseteq Ends(At(E, V))
  BY <1>3, Neighbours
<1> QED
  BY <1>3, <1>4, <1>5

\* Less than one hop is none.
LEMMA ReachGoal ==
  ASSUME NEW E, NEW F, NEW h \in Int
  PROVE  Reach(E, F, h) = Reach(E, F, IF h > 0 THEN h ELSE 0)
  BY DEF Reach
-----------------------------------------------------------------------------
(* The expansion, with others writing between its queries                   *)

\* The hops that count, and what the relations of a set reach from its seeds.
Goal == IF req.hops > 0 THEN req.hops ELSE 0
From(edges, d) == Reach(edges, Ends(Of(edges, vec)), d)

\* What is there now was there at some time, and what was always there still is.
Held ==
  /\ Searching => steady \subseteq relations /\ relations \subseteq ever
  /\ pc \in {"idle", "vec", "seeds"} => depth = 0

\* Nodes reached at this depth are apart from those found for the next.  The
\* former include all that lasting relations lead to within so many hops, and
\* are led to by relations there at some time; of those expanded, the lasting
\* neighbours have been seen, unless expansion has come to its last hop.
Expanding ==
  pc = "bfs" =>
    /\ depth <= Goal /\ (level # {} => depth < req.hops)
    /\ level \cap found = {}
    /\ From(steady, depth) \subseteq visited \ found
    /\ depth < req.hops =>
         \A m \in visited \ (level \cup found) : Ends(At(steady, {m})) \subseteq visited
    /\ visited \ found \subseteq From(ever, depth)
    /\ found \subseteq From(ever, depth + 1)

\* More relations reach more.
LEMMA FromMore ==
  ASSUME NEW E, NEW G, E \subseteq G
  PROVE  /\ \A i \in Nat : From(E, i) \subseteq From(G, i)
         /\ Ends(Of(E, vec)) \subseteq Ends(Of(G, vec))
<1>1. Ends(Of(E, vec)) \subseteq Ends(Of(G, vec))
  BY DEF Ends, Of
<1> QED
  BY <1>1, ReachMore DEF From

\* One hop more from the same seeds.
LEMMA FromSteps ==
  ASSUME NEW E
  PROVE  \A i \in Nat : From(E, i + 1) = From(E, i) \cup Ends(At(E, From(E, i)))
<1> DEFINE F == Ends(Of(E, vec))
<1>1. \A i \in Nat : Reach(E, F, i + 1) = Reach(E, F, i) \cup Ends(At(E, Reach(E, F, i)))
  BY ReachSteps
<1> QED
  BY <1>1 DEF From

LEMMA HeldStep == TypeInv /\ Held /\ [Next]_vars => Held'
<1> SUFFICES ASSUME TypeInv, Held, [Next]_vars PROVE Held'
  OBVIOUS
<1>1. CASE UNCHANGED vars
  BY <1>1 DEF Held, Searching, vars, pvars, search, history
<1>2. CASE Writing
  BY <1>2 DEF Held, Searching, Writing, Saved, Related, Forgotten, Watch, search
<1>3. CASE \E r \in Requests : Ask(r)
  BY <1>3 DEF Held, Searching, Ask, pvars, search
<1>4. CASE VecSearch \/ Seeds \/ \E n \in level : Visit(n)
  BY <1>4 DEF Held, Searching, VecSearch, Seeds, Visit, Expand, pvars, history
<1>5. CASE GraphSearch \/ TooManyVariables \/ Recalled \/ (\E s \in todo : Fetch(s))
           \/ NoInverse \/ Drop \/ Assembled \/ TooBig \/ Return
  <2>1. ~ Searching' /\ (pc' = "idle" => depth' = 0) /\ pc' \notin {"vec", "seeds"}
    BY <1>5 DEF Searching, GraphSearch, TooManyVariables, Recalled, Fetch, Drop, Assembled,
      TooBig, Assembling, NoInverse, Return
  <2> QED
    BY <2>1 DEF Held
<1> QED
  BY <1>1, <1>2, <1>3, <1>4, <1>5, Steps DEF Reading

\* A request's hops are a number.
LEMMA HopsNumber == TypeInv /\ pc # "idle" => req.hops \in Int /\ Goal \in Nat
  BY RecallAssumption DEF TypeInv, TypeOK, Goal

LEMMA SeedsExpand == TypeInv /\ Held /\ Seeds => Expanding'
<1> SUFFICES ASSUME TypeInv, Held, Seeds PROVE Expanding'
  OBVIOUS
<1>1. /\ depth' = 0 /\ found' = {} /\ req' = req /\ steady' = steady /\ ever' = ever /\ vec' = vec
      /\ visited' = Ends(Of(relations, vec))
      /\ level' = IF req.hops > 0 THEN visited' ELSE {}
      /\ steady \subseteq relations /\ relations \subseteq ever
  BY DEF Seeds, TypeInv, Fresh, Held, Searching, history
<1>2. req.hops \in Int /\ Goal \in Nat /\ Goal' = Goal
  BY <1>1, HopsNumber DEF Seeds, Goal
<1>3. From(steady, 0) \subseteq visited' /\ visited' \subseteq From(ever, 0)
  BY <1>1, FromMore, ReachSteps DEF From
<1>4. From(steady, depth)' = From(steady, 0) /\ From(ever, depth)' = From(ever, 0)
  BY <1>1 DEF From
<1>5. depth' < req'.hops => visited' \ (level' \cup found') = {}
  BY <1>1
<1> QED
  BY <1>1, <1>2, <1>3, <1>4, <1>5 DEF Expanding

LEMMA VisitExpands ==
  TypeInv /\ Held /\ Expanding /\ (\E n \in level : Visit(n)) => Expanding'
<1> SUFFICES ASSUME TypeInv, Held, Expanding, NEW n \in level, Visit(n) PROVE Expanding'
  OBVIOUS
<1> DEFINE U == Unseen(n)
           last == level = {n}
<1>1. /\ pc = "bfs" /\ req' = req /\ steady' = steady /\ ever' = ever /\ vec' = vec
      /\ visited' = visited \cup U
      /\ level' = IF ~last THEN level \ {n} ELSE IF depth + 1 < req.hops THEN found \cup U ELSE {}
      /\ found' = IF last THEN {} ELSE found \cup U
      /\ depth' = IF last THEN depth + 1 ELSE depth
  BY DEF Visit, Expand, WithinHops, history
<1>2. /\ steady \subseteq relations /\ relations \subseteq ever
      /\ level \subseteq visited /\ found \subseteq visited /\ depth \in Nat
  BY <1>1 DEF Held, Searching, TypeInv, TypeOK
<1>3. req.hops \in Int /\ Goal \in Nat /\ Goal' = Goal
  BY <1>1, HopsNumber DEF Goal
<1>4. /\ depth <= Goal /\ depth < req.hops
      /\ level \cap found = {}
      /\ From(steady, depth) \subseteq visited \ found
      /\ \A m \in visited \ (level \cup found) : Ends(At(steady, {m})) \subseteq visited
      /\ visited \ found \subseteq From(ever, depth)
      /\ found \subseteq From(ever, depth + 1)
  BY <1>1 DEF Expanding
<1>5. /\ U \cap visited = {}
      /\ Ends(At(relations, {n})) \subseteq visited \cup U
      /\ U \subseteq Ends(At(relations, {n}))
  BY DEF Unseen
<1>6. Ends(At(steady, {n})) \subseteq visited \cup U
  BY <1>2, <1>5, Neighbours
<1>7. U \subseteq From(ever, depth + 1)
  <2>1. {n} \subseteq From(ever, depth)
    BY <1>2, <1>4
  <2>2. Ends(At(relations, {n})) \subseteq Ends(At(ever, From(ever, depth)))
    BY <1>2, <2>1, Neighbours
  <2>3. From(ever, depth + 1) = From(ever, depth) \cup Ends(At(ever, From(ever, depth)))
    BY <1>2, FromSteps
  <2> QED
    BY <1>5, <2>2, <2>3
<1>8. \A E, d : Reach(E, Ends(Of(E, vec')), d) = From(E, d)
  BY <1>1 DEF From
<1> HIDE DEF U
<1>9. CASE ~last
  <2>1. /\ From(steady, depth)' = From(steady, depth)
        /\ From(ever, depth)' = From(ever, depth)
        /\ From(ever, depth + 1)' = From(ever, depth + 1)
    BY <1>1, <1>9 DEF From
  <2>2. visited' \ found' = visited \ found
    BY <1>1, <1>5, <1>9
  <2>3. \A m \in visited' \ (level' \cup found') : Ends(At(steady, {m})) \subseteq visited'
    BY <1>1, <1>4, <1>6, <1>9
  <2>4. level' \cap found' = {}
    BY <1>1, <1>2, <1>4, <1>5, <1>9
  <2>5. found' \subseteq From(ever, depth + 1)
    BY <1>1, <1>4, <1>7, <1>9
  <2> QED
    BY <1>1, <1>3, <1>4, <1>9, <2>1, <2>2, <2>3, <2>4, <2>5 DEF Expanding
<1>10. CASE last
  <2>1. depth' = depth + 1 /\ found' = {} /\ depth + 1 <= Goal
    BY <1>1, <1>2, <1>3, <1>4, <1>10 DEF Goal
  <2>2. /\ From(steady, depth)' = From(steady, depth + 1)
        /\ From(ever, depth)' = From(ever, depth + 1)
    BY <1>1, <2>1 DEF From
  <2>3. Ends(At(steady, visited \ found)) \subseteq visited'
    <3>1. \A m \in visited \ found : Ends(At(steady, {m})) \subseteq visited'
      BY <1>1, <1>4, <1>6, <1>10
    <3>2. \A x \in Ends(At(steady, visited \ found)) :
            \E m \in visited \ found : x \in Ends(At(steady, {m}))
      BY Neighbours
    <3> QED
      BY <3>1, <3>2
  <2>4. From(steady, depth + 1) \subseteq visited'
    <3>1. Ends(At(steady, From(steady, depth))) \subseteq Ends(At(steady, visited \ found))
      BY <1>4, Neighbours
    <3>2. From(steady, depth + 1) = From(steady, depth) \cup Ends(At(steady, From(steady, depth)))
      BY <1>2, FromSteps
    <3> QED
      BY <1>1, <1>4, <2>3, <3>1, <3>2
  <2>5. visited' \subseteq From(ever, depth + 1)
    <3>1. From(ever, depth) \subseteq From(ever, depth + 1)
      BY <1>2, ReachFarther DEF From
    <3> QED
      BY <1>1, <1>4, <1>7, <3>1
  <2>6. level' # {} => depth + 1 < req.hops
    BY <1>1, <1>10
  <2>7. depth + 1 < req.hops =>
          \A m \in visited' \ level' : Ends(At(steady, {m})) \subseteq visited'
    BY <1>1, <1>4, <1>6, <1>10
  <2> QED
    BY <1>1, <1>3, <2>1, <2>2, <2>4, <2>5, <2>6, <2>7 DEF Expanding
<1> QED
  BY <1>9, <1>10

\* Others only make lasting relations fewer, and those there at some time more.
LEMMA WritingExpands == TypeInv /\ Held /\ Expanding /\ Writing => Expanding'
<1> SUFFICES ASSUME TypeInv, Held, Expanding, Writing, pc' = "bfs" PROVE Expanding'
  BY DEF Expanding
<1>1. /\ pc = "bfs" /\ req' = req /\ vec' = vec /\ visited' = visited /\ level' = level
      /\ found' = found /\ depth' = depth
      /\ steady' \subseteq steady /\ ever \subseteq ever'
  BY DEF Writing, Saved, Related, Forgotten, Watch, Searching, search
<1>2. depth \in Nat
  BY DEF TypeInv, TypeOK
<1> DEFINE S == steady'
           T == ever'
<1> HIDE DEF S, T
<1>3. /\ From(S, depth) \subseteq From(steady, depth)
      /\ From(ever, depth) \subseteq From(T, depth)
      /\ From(ever, depth + 1) \subseteq From(T, depth + 1)
  <2>1. S \subseteq steady /\ ever \subseteq T
    BY <1>1 DEF S, T
  <2>2. \A i \in Nat : From(S, i) \subseteq From(steady, i)
    BY <2>1, FromMore
  <2>3. \A i \in Nat : From(ever, i) \subseteq From(T, i)
    BY <2>1, FromMore
  <2> QED
    BY <1>2, <2>2, <2>3
<1>4. /\ From(steady, depth)' = From(S, depth)
      /\ From(ever, depth)' = From(T, depth)
      /\ From(ever, depth + 1)' = From(T, depth + 1)
  BY <1>1 DEF From, S, T
<1>5. \A m : Ends(At(steady', {m})) \subseteq Ends(At(steady, {m}))
  <2>1. S \subseteq steady
    BY <1>1 DEF S
  <2>2. \A m : Ends(At(S, {m})) \subseteq Ends(At(steady, {m}))
    BY <2>1 DEF Ends, At
  <2> QED
    BY <2>2 DEF S
<1>6. Goal' = Goal
  BY <1>1 DEF Goal
<1> QED
  BY <1>1, <1>3, <1>4, <1>5, <1>6 DEF Expanding

LEMMA ExpandingStep == TypeInv /\ Held /\ Expanding /\ [Next]_vars => Expanding'
<1> SUFFICES ASSUME TypeInv, Held, Expanding, [Next]_vars PROVE Expanding'
  OBVIOUS
<1>1. CASE UNCHANGED vars
  BY <1>1 DEF Expanding, Goal, From, vars, search, history
<1>2. CASE (\E r \in Requests : Ask(r)) \/ VecSearch \/ GraphSearch \/ TooManyVariables \/ Recalled
           \/ (\E s \in todo : Fetch(s)) \/ NoInverse \/ Drop \/ Assembled \/ TooBig \/ Return
  <2>1. pc' # "bfs"
    BY <1>2 DEF Ask, VecSearch, GraphSearch, TooManyVariables, Recalled, Fetch, Drop, Assembled,
      TooBig, Assembling, NoInverse, Return
  <2> QED
    BY <2>1 DEF Expanding
<1> QED
  BY <1>1, <1>2, SeedsExpand, VisitExpands, WritingExpands, Steps DEF Reading

\* When the queue is empty, the nodes seen are at least those within the hops
\* asked for by lasting relations, and at most those by any.
LEMMA AllSeen ==
  TypeInv /\ Expanding /\ pc = "bfs" /\ level = {} =>
    From(steady, Goal) \subseteq visited /\ visited \subseteq From(ever, Goal)
<1> SUFFICES ASSUME TypeInv, Expanding, pc = "bfs", level = {}
    PROVE  From(steady, Goal) \subseteq visited /\ visited \subseteq From(ever, Goal)
  OBVIOUS
<1>1. req.hops \in Int /\ Goal \in Nat /\ depth \in Nat /\ found = {}
  BY HopsNumber DEF TypeInv, TypeOK, Fresh
<1>2. /\ depth <= Goal
      /\ From(steady, depth) \subseteq visited
      /\ depth < req.hops => \A m \in visited : Ends(At(steady, {m})) \subseteq visited
      /\ visited \subseteq From(ever, depth)
  BY <1>1 DEF Expanding
<1>3. visited \subseteq From(ever, Goal)
  BY <1>1, <1>2, ReachFarther DEF From
<1>4. From(steady, Goal) \subseteq visited
  <2>1. CASE depth < req.hops
    <3>1. Ends(At(steady, visited)) \subseteq visited
      <4>1. \A x \in Ends(At(steady, visited)) : \E m \in visited : x \in Ends(At(steady, {m}))
        BY Neighbours
      <4> QED
        BY <1>2, <2>1, <4>1
    <3>2. Ends(Of(steady, vec)) \subseteq visited
      <4>1. From(steady, 0) \subseteq From(steady, depth)
        BY <1>1, ReachFarther DEF From
      <4>2. From(steady, 0) = Ends(Of(steady, vec))
        BY ReachSteps DEF From
      <4> QED
        BY <1>2, <4>1, <4>2
    <3> QED
      BY <1>1, <3>1, <3>2, ReachStays DEF From
  <2>2. CASE ~ (depth < req.hops)
    <3>1. depth = Goal
      BY <1>1, <1>2, <2>2 DEF Goal
    <3> QED
      BY <1>2, <3>1
  <2> QED
    BY <2>1, <2>2
<1> QED
  BY <1>3, <1>4

LEMMA ReachesStep == TypeInv /\ Held /\ Expanding /\ ReachesWhatHeld /\ [Next]_vars => ReachesWhatHeld'
<1> SUFFICES ASSUME TypeInv, Held, Expanding, ReachesWhatHeld, [Next]_vars, pc' = "fetch"
    PROVE  ReachesWhatHeld'
  BY DEF ReachesWhatHeld
<1>1. ASSUME pc = "fetch", UNCHANGED <<req, vec, visited, hits, steady, ever>>
      PROVE  ReachesWhatHeld'
  BY <1>1 DEF ReachesWhatHeld, Around
<1>2. CASE UNCHANGED vars
  BY <1>1, <1>2 DEF vars, search, history
<1>3. CASE Writing
  BY <1>1, <1>3 DEF Writing, Saved, Related, Forgotten, Watch, Searching, search
<1>4. CASE \E s \in todo : Fetch(s)
  BY <1>1, <1>4 DEF Fetch, search, history
<1>5. CASE GraphSearch
  <2>1. /\ pc = "bfs" /\ level = {}
        /\ UNCHANGED <<req, vec, visited, steady, ever>>
        /\ hits' = {e.slice : e \in At(relations, visited)}
    BY <1>5 DEF GraphSearch, history
  <2>2. steady \subseteq relations /\ relations \subseteq ever
    BY <2>1 DEF Held, Searching
  <2>3. req.hops \in Int
    BY <2>1, HopsNumber
  <2>4. \A E : Reach(E, Ends(Of(E, vec)), req.hops) = From(E, Goal)
    BY <2>3, ReachGoal DEF From, Goal
  <2>5. From(steady, Goal) \subseteq visited /\ visited \subseteq From(ever, Goal)
    BY <2>1, AllSeen
  <2>6. At(steady, From(steady, Goal)) \subseteq At(relations, visited)
    BY <2>2, <2>5 DEF At
  <2>7. At(relations, visited) \subseteq At(ever, From(ever, Goal))
    BY <2>2, <2>5 DEF At
  <2>8. Around(steady) \subseteq hits' /\ hits' \subseteq Around(ever)
    BY <2>1, <2>4, <2>6, <2>7 DEF Around
  <2>9. Around(steady)' = Around(steady) /\ Around(ever)' = Around(ever)
    BY <2>1 DEF Around
  <2> QED
    BY <2>1, <2>4, <2>5, <2>8, <2>9 DEF ReachesWhatHeld
<1>6. CASE (\E r \in Requests : Ask(r)) \/ VecSearch \/ Seeds \/ TooManyVariables \/ Recalled
           \/ (\E n \in level : Visit(n)) \/ NoInverse \/ Drop \/ Assembled \/ TooBig \/ Return
  <2>1. pc' # "fetch"
    BY <1>6 DEF Ask, VecSearch, Seeds, TooManyVariables, Recalled, Visit, Expand, Drop, Assembled,
      TooBig, Assembling, NoInverse, Return
  <2> QED
    BY <2>1
<1> QED
  BY <1>2, <1>3, <1>4, <1>5, <1>6, Steps DEF Reading

LEMMA ExpansionInvariant == Spec => [](Held /\ Expanding /\ ReachesWhatHeld)
<1>1. Init => Held /\ Expanding /\ ReachesWhatHeld
  BY DEF Init, Held, Searching, Expanding, ReachesWhatHeld
<1> QED
  BY <1>1, HeldStep, ExpandingStep, ReachesStep, TypesInvariant, PTL DEF Spec

\* ReachesWhatHeld: whatever is saved and forgotten between its queries, the
\* expansion finds all that lasting relations lead to within the hops asked for,
\* and nothing that no relation, whenever it was there, leads to.
THEOREM ExpansionIsSound == Spec => []ReachesWhatHeld
  BY ExpansionInvariant, PTL
-----------------------------------------------------------------------------
(* A recall that nobody disturbs                                            *)

\* A vector and a relation are of a slice that is remembered.  While nobody
\* writes, the relations are those there were when the recall began, and what
\* the search found is still remembered.
Tidy ==
  /\ IsFiniteSet(memory) /\ index \subseteq memory
  /\ \A e \in relations : e.slice \in memory
  /\ pc \in {"idle", "vec", "seeds", "bfs"} => left = CharBudget
  /\ still /\ (Searching \/ pc = "fetch") =>
       /\ steady = relations /\ ever = relations
       /\ pc # "vec" => vec \subseteq memory

LEMMA TidyStep == TypeInv /\ Tidy /\ [Next]_vars => Tidy'
<1> SUFFICES ASSUME TypeInv, Tidy, [Next]_vars PROVE Tidy'
  OBVIOUS
<1> DEFINE Kept == IsFiniteSet(memory) /\ index \subseteq memory /\ \A e \in relations : e.slice \in memory
<1>1. CASE UNCHANGED vars
  BY <1>1 DEF Tidy, Searching, vars, pvars, search, ranking, history
<1>2. ASSUME NEW s \in SliceIds, Saved(s) \/ Related(s) \/ Forgotten(s) PROVE Tidy'
  <2>1. Kept'
    <3>1. CASE Saved(s)
      <4>1. IsFiniteSet(memory \cup {s})
        BY FS_AddElement DEF Tidy
      <4> QED
        BY <3>1, <4>1 DEF Tidy, Saved, Remember
    <3>2. CASE Related(s)
      <4>1. memory' = memory /\ index' = index
        BY <3>2 DEF Related, Relate
      <4>2. \A e \in relations' : e \in relations \/ e.slice \in memory
        BY <3>2 DEF Related, Relate
      <4> QED
        BY <4>1, <4>2 DEF Tidy
    <3>3. CASE Forgotten(s)
      <4>1. IsFiniteSet(memory \ {s})
        BY FS_RemoveElement DEF Tidy
      <4> QED
        BY <3>3, <4>1 DEF Tidy, Forgotten, Forget
    <3> QED
      BY <1>2, <3>1, <3>2, <3>3
  <2>2. ~ still' /\ pc' = pc /\ left' = left
    BY <1>2 DEF Saved, Related, Forgotten, Watch, ranking
  <2> QED
    BY <2>1, <2>2 DEF Tidy
<1>3. ASSUME Reading PROVE Tidy'
  <2>1. UNCHANGED <<memory, index, relations>>
    BY <1>3 DEF Reading, Ask, VecSearch, Seeds, GraphSearch, TooManyVariables, Recalled, Visit,
      Expand, Fetch, Drop, Assembled, TooBig, Assembling, NoInverse, Return, pvars
  <2>2. Kept'
    BY <2>1 DEF Tidy
  <2>3. CASE \E r \in Requests : Ask(r)
    BY <2>1, <2>2, <2>3 DEF Tidy, Searching, Ask, ranking
  <2>4. CASE VecSearch
    BY <2>1, <2>2, <2>4 DEF Tidy, Searching, VecSearch, ranking, history
  <2>5. CASE Seeds \/ (\E n \in level : Visit(n))
    BY <2>1, <2>2, <2>5 DEF Tidy, Searching, Seeds, Visit, Expand, ranking, history
  <2>6. CASE GraphSearch \/ \E s \in todo : Fetch(s)
    BY <2>1, <2>2, <2>6 DEF Tidy, Searching, GraphSearch, Fetch, search, history
  <2>7. CASE TooManyVariables \/ Recalled \/ NoInverse \/ Drop \/ Assembled \/ TooBig
    <3>1. pc' \notin {"idle", "vec", "seeds", "bfs", "fetch"}
      BY <2>7 DEF TooManyVariables, Recalled, Drop, Assembled, TooBig, Assembling, NoInverse
    <3> QED
      BY <2>2, <3>1 DEF Tidy, Searching
  <2>8. CASE Return
    BY <2>2, <2>8 DEF Tidy, Return
  <2> QED
    BY <1>3, <2>3, <2>4, <2>5, <2>6, <2>7, <2>8 DEF Reading
<1> QED
  BY <1>1, <1>2, <1>3, Steps DEF Writing

\* Scores and ids order the slices.
LEMMA Ordering ==
  ASSUME TypeInv, req # None
  PROVE  /\ \A x, y \in SliceIds : Before(x, y, hits) => ~ Before(y, x, hits)
         /\ \A x, y, z \in SliceIds : Before(x, y, hits) /\ Before(y, z, hits) => Before(x, z, hits)
<1>1. req.near \in [SliceIds -> Nat] /\ GraphWeight \in Nat /\ SliceIds \subseteq Nat
  <2>1. req \in Requests
    BY DEF TypeInv, TypeOK
  <2> QED
    BY <2>1, RecallAssumption
<1>2. \A x \in SliceIds : x \in Nat /\ Score(x, hits) \in Nat
  BY <1>1 DEF Score
<1> QED
  BY <1>2 DEF Before

\* What may be recalled; those of it up to a slice; and those that are affordable.
Candidates == (vec \cup hits) \ {own}
UpTo(s) == {o \in Candidates : o = s \/ Before(o, s, hits)}
Affordable ==
  {s \in Candidates : UpTo(s) = {s} \/ SumFunctionOnSet(Length, UpTo(s)) <= CharBudget}

\* Undisturbed, what is recalled so far is affordable, and either nothing else
\* is or all other candidates are still to come.
Exact ==
  pc = "fetch" /\ still =>
    \/ todo = {} /\ ToSet(result) = Affordable
    \/ /\ Candidates = (todo \ {own}) \cup ToSet(result)
       /\ left = CharBudget - SumFunctionOnSet(Length, ToSet(result))
       /\ ToSet(result) \subseteq Affordable

\* Undisturbed, what the expansion found is what it stands for, and remembered.
LEMMA FoundIsThere ==
  ASSUME TypeInv, Tidy, ReachesWhatHeld, pc = "fetch", still
  PROVE  /\ hits = Around(relations) /\ Expected = Affordable
         /\ Candidates \subseteq memory /\ Candidates \subseteq SliceIds
         /\ (vec \cup hits) \subseteq memory /\ IsFiniteSet(Candidates)
<1>1. steady = relations /\ ever = relations /\ vec \subseteq memory
  BY DEF Tidy, Searching
<1>2. hits = Around(relations)
  BY <1>1 DEF ReachesWhatHeld
<1>3. Around(relations) \subseteq memory
  BY DEF Around, At, Tidy
<1>4. (vec \cup hits) \subseteq memory /\ Candidates \subseteq memory /\ Candidates \subseteq SliceIds
  BY <1>1, <1>2, <1>3 DEF Candidates, TypeInv, TypeOK
<1>5. IsFiniteSet(Candidates)
  BY <1>4, FS_Subset DEF Tidy
<1>6. Expected = Affordable
  BY <1>2 DEF Expected, Affordable, UpTo, Candidates
<1> QED
  BY <1>2, <1>4, <1>5, <1>6

LEMMA AppendSet ==
  ASSUME NEW S, NEW q \in Seq(S), NEW x \in S
  PROVE  ToSet(Append(q, x)) = ToSet(q) \cup {x}
<1> DEFINE n == Len(q)
           a == Append(q, x)
<1>1. /\ n \in Nat /\ DOMAIN q = 1..n /\ DOMAIN a = 1..n + 1 /\ a[n + 1] = x
      /\ \A i \in 1..n : a[i] = q[i]
  OBVIOUS
<1> HIDE DEF n, a
<1>2. ASSUME NEW y PROVE (\E i \in DOMAIN a : y = a[i]) <=> (\E i \in DOMAIN q : y = q[i]) \/ y = x
  BY <1>1
<1> QED
  BY <1>2 DEF ToSet, a

LEMMA FetchExact ==
  ASSUME TypeInv, RankedRecall, Tidy, ReachesWhatHeld, Exact, pc = "fetch", still,
         NEW s \in todo, Fetch(s)
  PROVE  Exact'
<1> DEFINE R == ToSet(result)
<1>1. /\ Candidates \subseteq SliceIds /\ IsFiniteSet(Candidates)
      /\ (vec \cup hits) \subseteq memory /\ todo \subseteq vec \cup hits
      /\ vec \cup hits \subseteq SliceIds /\ req # None /\ left \in Int
      /\ result \in Seq(vec \cup hits)
  BY FoundIsThere DEF TypeInv, TypeOK
<1>2. /\ Candidates = (todo \ {own}) \cup R
      /\ left = CharBudget - SumFunctionOnSet(Length, R)
      /\ R \subseteq Affordable
  BY DEF Exact
<1>3. UNCHANGED <<pc, req, own, vec, hits, memory, still>>
  BY DEF Fetch, search, pvars, history
<1>4. Candidates' = Candidates /\ Affordable' = Affordable
  BY <1>3 DEF Candidates, Affordable, UpTo, Before, Score
<1>5. R = {result[i] : i \in 1..Len(result)}
  BY DEF ToSet
<1>6. \A r \in R, o \in todo : Before(r, o, hits) /\ r \in SliceIds /\ o \in SliceIds
  BY <1>1, <1>2, <1>5 DEF RankedRecall
<1>7. \A o \in todo \ {s} : Before(s, o, hits)
  BY DEF Fetch, First
<1>8. \A r \in R : r \notin todo
  BY <1>1, <1>6, Ordering
<1>9. \A x \in Candidates : IsFiniteSet(UpTo(x)) /\ \A y \in UpTo(x) : Length[y] \in Nat
  <2> TAKE x \in Candidates
  <2>1. UpTo(x) \subseteq Candidates
    BY DEF UpTo
  <2> QED
    BY <1>1, <2>1, FS_Subset, RecallAssumption
<1>10. ASSUME s # own
       PROVE  /\ UpTo(s) = R \cup {s} /\ s \in Candidates
              /\ SumFunctionOnSet(Length, UpTo(s)) = Length[s] + SumFunctionOnSet(Length, R)
              /\ SumFunctionOnSet(Length, R) \in Nat /\ Length[s] \in Nat
  <2>1. s \in Candidates /\ R \subseteq Candidates /\ s \in SliceIds
    BY <1>1, <1>2, <1>10
  <2>2. UpTo(s) = R \cup {s}
    <3>1. ASSUME NEW o \in Candidates, Before(o, s, hits) PROVE o \in R \cup {s}
      BY <1>1, <1>2, <1>7, <2>1, <3>1, Ordering
    <3> QED
      BY <1>6, <2>1, <3>1 DEF UpTo
  <2> DEFINE A == UpTo(s)
  <2>3. IsFiniteSet(A) /\ \A y \in A : Length[y] \in Nat
    BY <1>9, <2>1
  <2>4. s \in A /\ A \ {s} = R
    BY <1>8, <2>2
  <2> HIDE DEF A
  <2>5. SumFunctionOnSet(Length, A) = Length[s] + SumFunctionOnSet(Length, A \ {s})
    BY <2>3, <2>4, SumElement
  <2>6. IsFiniteSet(A \ {s}) /\ \A y \in A \ {s} : Length[y] \in Nat
    BY <2>3, FS_RemoveElement
  <2>7. SumFunctionOnSet(Length, A \ {s}) \in Nat
    BY <2>6, SumElement
  <2>8. Length[s] \in Nat
    BY <2>1, RecallAssumption
  <2> QED
    BY <2>1, <2>2, <2>4, <2>5, <2>7, <2>8 DEF A
<1> HIDE DEF R
<1>11. CASE Skipped(s) /\ todo' = todo \ {s} /\ UNCHANGED <<result, left>>
  <2>1. s = own
    BY <1>1, <1>11 DEF Skipped
  <2>2. todo' \ {own} = todo \ {own} /\ ToSet(result') = R
    BY <1>11, <2>1 DEF R
  <2>3. /\ Candidates' = (todo' \ {own'}) \cup ToSet(result')
        /\ left' = CharBudget - SumFunctionOnSet(Length, ToSet(result'))
        /\ ToSet(result') \subseteq Affordable'
    BY <1>2, <1>3, <1>4, <1>11, <2>2
  <2> QED
    BY <2>3 DEF Exact
<1>12. CASE ~Skipped(s) /\ Full(s) /\ todo' = {} /\ UNCHANGED <<result, left>>
  <2>1. s # own
    BY <1>12 DEF Skipped
  <2>2. SumFunctionOnSet(Length, UpTo(s)) > CharBudget
    <3> DEFINE x == SumFunctionOnSet(Length, UpTo(s))
               y == SumFunctionOnSet(Length, R)
    <3>1. x = Length[s] + y /\ y \in Nat /\ Length[s] \in Nat
      BY <1>10, <2>1
    <3>2. left = CharBudget - y /\ left - Length[s] < 0 /\ CharBudget \in Nat
      BY <1>2, <1>12, RecallAssumption DEF Full
    <3> HIDE DEF x, y
    <3>3. x > CharBudget
      BY <3>1, <3>2
    <3> QED
      BY <3>3 DEF x
  <2>3. PICK r \in R : TRUE
    <3>1. Len(result) \in Nat \ {0}
      BY <1>1, <1>12, EmptySeq DEF Full
    <3> QED
      BY <1>5, <3>1
  <2>4. ASSUME NEW x \in Affordable, x \notin R PROVE FALSE
    <3>1. x \in todo /\ x \in Candidates /\ R \subseteq Candidates
      BY <1>2, <2>4 DEF Affordable
    <3>2. r \in UpTo(x) /\ r # x
      BY <1>6, <2>4, <3>1 DEF UpTo
    <3>3. SumFunctionOnSet(Length, UpTo(x)) <= CharBudget
      BY <3>2 DEF Affordable
    <3>4. UpTo(s) \subseteq UpTo(x)
      BY <1>6, <1>7, <1>10, <2>1, <3>1 DEF UpTo
    <3> DEFINE A == UpTo(s)
               B == UpTo(x)
               a == SumFunctionOnSet(Length, A)
               b == SumFunctionOnSet(Length, B)
    <3>5. /\ IsFiniteSet(A) /\ IsFiniteSet(B) /\ A \in SUBSET B
          /\ \A y \in A : Length[y] \in Nat /\ Length[y] <= Length[y]
          /\ \A y \in B : Length[y] \in Nat
      BY <1>9, <1>10, <2>1, <3>1, <3>4
    <3> HIDE DEF A, B
    <3>6. a <= b /\ a \in Nat /\ b \in Nat
      BY <3>5, SumOfFewer, SumElement
    <3>7. a > CharBudget /\ b <= CharBudget /\ CharBudget \in Nat
      BY <2>2, <3>3, RecallAssumption DEF A, B
    <3> HIDE DEF a, b
    <3> QED
      BY <3>6, <3>7
  <2>5. R = Affordable
    BY <1>2, <2>4
  <2> QED
    BY <1>4, <1>12, <2>5 DEF Exact, R
<1>13. CASE /\ ~Skipped(s) /\ ~Full(s) /\ todo' = todo \ {s}
            /\ result' = Append(result, s) /\ left' = left - Length[s]
  <2>1. s # own
    BY <1>13 DEF Skipped
  <2>2. ToSet(result') = R \cup {s}
    <3>1. ToSet(Append(result, s)) = ToSet(result) \cup {s}
      BY <1>1, AppendSet
    <3> QED
      BY <1>13, <3>1 DEF R
  <2> DEFINE x == SumFunctionOnSet(Length, UpTo(s))
             y == SumFunctionOnSet(Length, R)
  <2>3. x = Length[s] + y /\ y \in Nat /\ Length[s] \in Nat /\ CharBudget \in Nat
        /\ left = CharBudget - y /\ left' = left - Length[s]
    BY <1>2, <1>10, <1>13, <2>1, RecallAssumption
  <2>4. left' = CharBudget - SumFunctionOnSet(Length, R \cup {s})
    <3>1. x = SumFunctionOnSet(Length, R \cup {s})
      BY <1>10, <2>1
    <3> HIDE DEF x, y
    <3>2. left' = CharBudget - x
      BY <2>3
    <3> QED
      BY <3>1, <3>2
  <2>5. s \in Affordable
    <3>1. CASE result = <<>>
      <4>1. R = {}
        BY <1>5, <3>1
      <4> QED
        BY <1>10, <2>1, <4>1 DEF Affordable
    <3>2. CASE left - Length[s] >= 0
      <4>1. x <= CharBudget
        <5> HIDE DEF x, y
        <5> QED
          BY <2>3, <3>2
      <4> QED
        BY <1>10, <2>1, <4>1 DEF Affordable
    <3> QED
      BY <1>13, <2>3, <3>1, <3>2, <1>1 DEF Full
  <2>6. Candidates = (todo' \ {own}) \cup (R \cup {s})
    BY <1>2, <1>13, <2>1
  <2>7. /\ Candidates' = (todo' \ {own'}) \cup ToSet(result')
        /\ left' = CharBudget - SumFunctionOnSet(Length, ToSet(result'))
        /\ ToSet(result') \subseteq Affordable'
    BY <1>2, <1>3, <1>4, <2>2, <2>4, <2>5, <2>6
  <2> QED
    BY <2>7 DEF Exact
<1> QED
  BY <1>11, <1>12, <1>13 DEF Fetch

LEMMA ExactStep ==
  TypeInv /\ RankedRecall /\ Tidy /\ ReachesWhatHeld /\ Exact /\ [Next]_vars => Exact'
<1> SUFFICES ASSUME TypeInv, RankedRecall, Tidy, ReachesWhatHeld, Exact, [Next]_vars,
                    pc' = "fetch", still'
    PROVE  Exact'
  BY DEF Exact
<1>1. CASE UNCHANGED vars
  BY <1>1 DEF Exact, Candidates, Affordable, UpTo, Before, Score, vars, pvars, search, ranking, history
<1>2. CASE Writing
  BY <1>2 DEF Writing, Saved, Related, Forgotten, Watch
<1>3. CASE \E s \in todo : Fetch(s)
  <2>1. pc = "fetch" /\ still
    BY <1>3 DEF Fetch, history
  <2> QED
    BY <1>3, <2>1, FetchExact
<1>4. CASE GraphSearch
  <2>1. result' = <<>> /\ left' = CharBudget /\ own' = own /\ Candidates' = todo' \ {own}
    BY <1>4 DEF GraphSearch, TypeInv, Fresh, Tidy, Candidates
  <2>2. ToSet(result') = {}
    BY <2>1 DEF ToSet
  <2>3. SumFunctionOnSet(Length, {}) = 0
    BY SumElement, FS_EmptySet
  <2>4. /\ Candidates' = (todo' \ {own'}) \cup ToSet(result')
        /\ left' = CharBudget - SumFunctionOnSet(Length, ToSet(result'))
        /\ ToSet(result') \subseteq Affordable'
    <3> DEFINE z == SumFunctionOnSet(Length, ToSet(result'))
    <3>1. z = 0
      BY <2>2, <2>3
    <3> HIDE DEF z
    <3>2. left' = CharBudget - z
      BY <2>1, <3>1, RecallAssumption
    <3> QED
      BY <2>1, <2>2, <3>2 DEF z
  <2> QED
    BY <2>4 DEF Exact
<1>5. CASE (\E r \in Requests : Ask(r)) \/ VecSearch \/ Seeds \/ TooManyVariables \/ Recalled
           \/ (\E n \in level : Visit(n)) \/ NoInverse \/ Drop \/ Assembled \/ TooBig \/ Return
  <2>1. pc' # "fetch"
    BY <1>5 DEF Ask, VecSearch, Seeds, TooManyVariables, Recalled, Visit, Expand, Drop, Assembled,
      TooBig, Assembling, NoInverse, Return
  <2> QED
    BY <2>1
<1> QED
  BY <1>1, <1>2, <1>3, <1>4, <1>5, Steps DEF Reading

LEMMA ExactIsExpected ==
  TypeInv /\ RankedRecall /\ Tidy /\ ReachesWhatHeld /\ Exact => RecallIsExact
<1> SUFFICES ASSUME TypeInv, RankedRecall, Tidy, ReachesWhatHeld, Exact,
                    pc = "fetch", todo = {}, still
    PROVE  /\ ToSet(result) = Expected
           /\ \A i, j \in 1..Len(result) :
                i < j => Before(result[i], result[j], Around(relations))
  BY DEF RecallIsExact
<1>1. hits = Around(relations) /\ Expected = Affordable
  BY FoundIsThere
<1>2. Affordable \subseteq Candidates
  BY DEF Affordable
<1>3. ToSet(result) = Affordable
  BY <1>2 DEF Exact
<1>4. \A i, j \in 1..Len(result) : i < j => Before(result[i], result[j], hits)
  BY DEF RankedRecall
<1> QED
  BY <1>1, <1>3, <1>4

\* RecallIsExact: when nobody wrote in the meantime, recall returns, each once and
\* in the order of score and id, the slices whose texts fit the character budget
\* with those of all before them, of the nearest and those around them.
THEOREM UndisturbedRecallIsExact == Spec => []RecallIsExact
<1>1. Init => RankedRecall /\ Tidy /\ Exact
  <2>1. IsFiniteSet({})
    BY FS_EmptySet
  <2> QED
    BY <2>1 DEF Init, PromiseInit, RankedRecall, Tidy, Searching, Exact
<1> QED
  BY <1>1, RankedStep, TidyStep, ExactStep, ExactIsExpected, ExpansionIsSound, TypesInvariant, PTL
  DEF Spec
=============================================================================
