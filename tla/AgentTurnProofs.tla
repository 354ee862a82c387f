--------------------------- MODULE AgentTurnProofs ---------------------------
(***************************************************************************)
(* What AgentTurn guarantees for any threads, turns, budget, iteration cap, *)
(* batch size and faults.                                                   *)
(***************************************************************************)
EXTENDS AgentTurn, FoldProofs, FiniteSetTheorems, TLAPS

Running(t) == pc[t] # "idle"
Opening == {"extract", "extracting", "open"}
Deciding == {"confirm", "run", "report"}

\* No two threads are in the same turn; nothing is known of a turn to come.
OwnTurn ==
  /\ \A t, u \in Threads : t # u /\ Running(t) /\ Running(u) => turn[t].id # turn[u].id
  /\ \A e \in Written : e.turn \in minted
  /\ \A c \in approved \cup ran : c[1] \in minted
  /\ remembered \subseteq minted
  /\ \A i \in TurnIds \ minted : chats[i] = 0 /\ billed[i] = 0

\* The audit of a turn under way: earlier calls are settled, the current one is
\* as far as the thread's step says.
Trail(t) ==
  LET i == turn[t].id
      n == turn[t].calls
  IN /\ \A e \in Written : e.turn = i /\ e.kind \in Audits => e.call <= n
     /\ \A c \in approved : c[1] = i => c[2] <= n
     /\ pc[t] = "confirm" =>
          /\ AuditLine(<<i, n>>, "pending") \in Written /\ <<i, n>> \notin approved
          /\ \A e \in Written : e.turn = i /\ e.kind \in Audits /\ e.kind # "pending" => e.call # n
     /\ pc[t] \in {"run", "report"} =>
          /\ <<i, n>> \in approved /\ AuditLine(<<i, n>>, "accepted") \in Written
          /\ AuditLine(<<i, n>>, "pending") \in Written
          /\ AuditLine(<<i, n>>, "result") \notin Written
     /\ pc[t] = "report" => <<i, n>> \in ran

\* The loop of a turn under way: how often the model was asked, and whether it
\* may be asked again.
Loop(t) ==
  /\ turn[t].iters = chats[turn[t].id]
  /\ turn[t].iters <= MaxIters
  /\ pc[t] \in Opening \cup {"call"} => turn[t].iters < MaxIters
  /\ pc[t] \in Opening \cup {"call", "calling", "usage"} => turn[t].rejects = 0
  /\ pc[t] = "tool" => turn[t].todo > 0

\* The counters of a turn under way are the numbers of its lines.
Counts(t) ==
  LET i == turn[t].id IN
  /\ \A kind \in Audits : IsFiniteSet(About(i, kind))
  /\ turn[t].calls = Cardinality(About(i, "pending"))
  /\ turn[t].rejects = Cardinality(About(i, "rejected"))
  /\ turn[t].calls = turn[t].rejects + Cardinality(About(i, "result"))
                     + (IF pc[t] \in Deciding THEN 1 ELSE 0)
  /\ pc[t] \notin Opening => About(i, "open") # {}
  /\ pc[t] = "close" => i \in remembered
  /\ About(i, "close") = {}

InTurn(t) == Running(t) => Trail(t) /\ Loop(t) /\ Counts(t)

TypeInv ==
  /\ TypeOK
  /\ \A t \in Threads : pc[t] = "tool" => turn[t].todo > 0

IInv ==
  /\ TypeInv /\ OwnTurn
  /\ \A t \in Threads : InTurn(t)
  /\ AuditTellsWhatRan /\ CloseIsTrue
-----------------------------------------------------------------------------
(* Types                                                                    *)

LEMMA InitTyped == Init => TypeInv
BY AgentAssumption DEF Init, TypeInv, TypeOK, NoTurn, Turns, Steps

\* A line that is written, or should have been, is among the lines.
LEMMA AppendTyped ==
  ASSUME NEW l \in Lines, TypeOK, Append1(l)
  PROVE  /\ log' \subseteq Lines /\ lost' \subseteq Lines
         /\ Written' = Written \cup {l}
BY DEF TypeOK, Append1, Written

\* The counters a turn changes keep it a turn, of the same id.
LEMMA TurnsTyped ==
  ASSUME NEW r \in Turns, NEW n \in Nat, NEW m \in Nat, NEW u \in Nat \cup {None}
  PROVE  /\ [r EXCEPT !.iters = n] \in Turns /\ [r EXCEPT !.iters = n].id = r.id
         /\ [r EXCEPT !.todo = n] \in Turns /\ [r EXCEPT !.todo = n].id = r.id
         /\ [r EXCEPT !.rejects = n] \in Turns /\ [r EXCEPT !.rejects = n].id = r.id
         /\ [r EXCEPT !.usage = u] \in Turns /\ [r EXCEPT !.usage = u].id = r.id
         /\ [r EXCEPT !.calls = m, !.todo = n] \in Turns
         /\ [r EXCEPT !.calls = m, !.todo = n].id = r.id
BY DEF Turns

LEMMA NextTyped == TypeInv /\ [Next]_vars => TypeInv'
<1> SUFFICES ASSUME TypeInv, [Next]_vars PROVE TypeInv'
  OBVIOUS
<1> USE DEF TypeInv, TypeOK, Go, Return, SetUsage, history
<1>1. CASE UNCHANGED vars
  BY <1>1 DEF vars
<1>2. ASSUME NEW t \in Threads, Begin(t) PROVE TypeInv'
  <2>1. PICK i \in TurnIds \ minted :
          /\ turn' = [turn EXCEPT ![t] = [NoTurn EXCEPT !.id = i]]
          /\ minted' = minted \cup {i}
    BY <1>2 DEF Begin
  <2>2. [NoTurn EXCEPT !.id = i] \in Turns /\ [NoTurn EXCEPT !.id = i].id = i
    BY DEF NoTurn, Turns
  <2> QED
    BY <1>2, <2>1, <2>2 DEF Begin, Steps
<1>3. ASSUME NEW t \in Threads, StartExtract(t) PROVE TypeInv'
  BY <1>3 DEF StartExtract, Steps
<1>4. ASSUME NEW t \in Threads, EndExtract(t) PROVE TypeInv'
  BY <1>4, AgentAssumption DEF EndExtract, Steps
<1>5. ASSUME NEW t \in Threads, Open(t) PROVE TypeInv'
  <2>1. turn[t].id \in TurnIds
    BY <1>5 DEF Open
  <2>2. OpenLine(turn[t].id) \in Lines
    BY <2>1 DEF OpenLine, Lines
  <2>3. log' \subseteq Lines /\ lost' \subseteq Lines
    BY <1>5, <2>2, AppendTyped DEF Open
  <2> QED
    BY <1>5, <2>3 DEF Open, Steps
<1>6. ASSUME NEW t \in Threads, StartCall(t) PROVE TypeInv'
  <2>1. turn[t].id \in TurnIds /\ turn[t] \in Turns /\ turn[t].iters + 1 \in Nat
    BY <1>6 DEF StartCall, Turns
  <2>2. [turn[t] EXCEPT !.iters = turn[t].iters + 1] \in Turns
        /\ [turn[t] EXCEPT !.iters = turn[t].iters + 1].id = turn[t].id
    BY <2>1, TurnsTyped
  <2>3. turn' \in [Threads -> Turns] /\ turn'[t].id = turn[t].id
        /\ \A u \in Threads \ {t} : turn'[u] = turn[u]
    BY <1>6, <2>2 DEF StartCall
  <2>4. chats' \in [TurnIds -> Nat]
    BY <1>6, <2>1 DEF StartCall
  <2>5. /\ pc' \in [Threads -> Steps] /\ pc'[t] = "calling" /\ pc[t] = "call"
        /\ \A u \in Threads \ {t} : pc'[u] = pc[u]
        /\ lastUsage' \in [Clients -> Nat \cup {None}]
        /\ UNCHANGED <<minted, log, lost, billed, mute, approved, ran, remembered>>
    BY <1>6 DEF StartCall, Steps
  <2> QED
    BY <2>1, <2>3, <2>4, <2>5
<1>7. ASSUME NEW t \in Threads, EndCall(t) PROVE TypeInv'
  <2>1. turn[t].id \in TurnIds /\ turn[t] \in Turns
    BY <1>7 DEF EndCall
  <2>2. PICK n \in Nat : turn' = [turn EXCEPT ![t] = [@ EXCEPT !.todo = n]]
    <3>1. (IF t \in Repls THEN 0..MaxBatch ELSE {0}) \subseteq Nat
      BY AgentAssumption
    <3> QED
      BY <1>7, <3>1 DEF EndCall
  <2>3. turn' \in [Threads -> Turns] /\ turn'[t].id = turn[t].id
        /\ \A u \in Threads \ {t} : turn'[u] = turn[u]
    BY <2>1, <2>2, TurnsTyped
  <2>4. lastUsage' \in [Clients -> Nat \cup {None}] /\ billed' \in [TurnIds -> Nat]
    BY <1>7, <2>1, AgentAssumption DEF EndCall
  <2>5. mute' \subseteq TurnIds
    BY <1>7, <2>1 DEF EndCall
  <2> QED
    BY <1>7, <2>3, <2>4, <2>5 DEF EndCall, Steps
<1>8. ASSUME NEW t \in Threads, ReadUsage(t) PROVE TypeInv'
  <2>1. turn[t].id \in TurnIds /\ turn[t] \in Turns
    BY <1>8 DEF ReadUsage
  <2>2. lastUsage[ClientOf(t)] \in Nat \cup {None} /\ turn[t].usage \in Nat \cup {None}
    BY <2>1 DEF Clients, Turns
  <2>3. Accumulate(turn[t].usage, lastUsage[ClientOf(t)]) \in Nat \cup {None}
    BY <2>2 DEF Accumulate
  <2>4. turn' = [turn EXCEPT ![t] = [turn[t] EXCEPT
                   !.usage = Accumulate(turn[t].usage, lastUsage[ClientOf(t)])]]
    BY <1>8 DEF ReadUsage
  <2>5. turn' \in [Threads -> Turns] /\ turn'[t].id = turn[t].id /\ turn'[t].todo = turn[t].todo
        /\ \A u \in Threads \ {t} : turn'[u] = turn[u]
    BY <2>1, <2>3, <2>4, TurnsTyped DEF Turns
  <2> QED
    BY <1>8, <2>1, <2>5 DEF ReadUsage, Steps, Turns
<1>9. ASSUME NEW t \in Threads, Announce(t) PROVE TypeInv'
  <2>1. /\ turn[t].id \in TurnIds /\ turn[t] \in Turns
        /\ turn[t].calls + 1 \in Nat /\ turn[t].todo - 1 \in Nat
    BY <1>9 DEF Announce, Turns
  <2>2. AuditLine(<<turn[t].id, turn[t].calls + 1>>, "pending") \in Lines
    BY <2>1 DEF AuditLine, Lines, Audits, Turns
  <2>3. log' \subseteq Lines /\ lost' \subseteq Lines
    BY <1>9, <2>2, AppendTyped DEF Announce
  <2> DEFINE r == [turn[t] EXCEPT !.calls = turn[t].calls + 1, !.todo = turn[t].todo - 1]
  <2>4. r \in Turns /\ r.id = turn[t].id
    BY <2>1, TurnsTyped
  <2>5. turn' \in [Threads -> Turns] /\ turn'[t].id = turn[t].id
        /\ \A u \in Threads \ {t} : turn'[u] = turn[u]
    BY <1>9, <2>4 DEF Announce
  <2> QED
    BY <1>9, <2>3, <2>5 DEF Announce, Steps
<1>10. ASSUME NEW t \in Threads, Accept(t) PROVE TypeInv'
  <2>1. turn[t].id \in TurnIds /\ turn[t] \in Turns
    BY <1>10 DEF Accept
  <2>2. AuditLine(ToolCall(t), "accepted") \in Lines /\ ToolCall(t) \in ToolCalls
    BY <2>1 DEF AuditLine, Lines, Audits, Turns, ToolCall, ToolCalls
  <2>3. log' \subseteq Lines /\ lost' \subseteq Lines
    BY <1>10, <2>2, AppendTyped DEF Accept
  <2> QED
    BY <1>10, <2>2, <2>3 DEF Accept, Steps
<1>11. ASSUME NEW t \in Threads, Reject(t) PROVE TypeInv'
  <2>1. turn[t].id \in TurnIds /\ turn[t] \in Turns
    BY <1>11 DEF Reject
  <2>2. AuditLine(ToolCall(t), "rejected") \in Lines
    BY <2>1 DEF AuditLine, Lines, Audits, Turns, ToolCall
  <2>3. log' \subseteq Lines /\ lost' \subseteq Lines
    BY <1>11, <2>2, AppendTyped DEF Reject
  <2>4. turn' = [turn EXCEPT ![t] = [turn[t] EXCEPT !.rejects = turn[t].rejects + 1]]
        /\ turn[t].rejects + 1 \in Nat
    BY <1>11, <2>1 DEF Reject, Turns
  <2>5. turn' \in [Threads -> Turns] /\ turn'[t].id = turn[t].id /\ turn'[t].todo = turn[t].todo
        /\ \A u \in Threads \ {t} : turn'[u] = turn[u]
    BY <2>1, <2>4, TurnsTyped DEF Turns
  <2>6. pc' \in [Threads -> Steps] /\ (pc'[t] = "tool" => turn[t].todo > 0)
        /\ \A u \in Threads \ {t} : pc'[u] = pc[u]
    BY <1>11, <2>1 DEF Reject, AfterCall, Steps
  <2> QED
    BY <1>11, <2>3, <2>5, <2>6 DEF Reject
<1>12. ASSUME NEW t \in Threads, Execute(t) PROVE TypeInv'
  <2>1. ToolCall(t) \in ToolCalls
    BY <1>12 DEF Execute, ToolCall, ToolCalls, Turns
  <2> QED
    BY <1>12, <2>1 DEF Execute, Steps
<1>13. ASSUME NEW t \in Threads, Report(t) PROVE TypeInv'
  <2>1. turn[t].id \in TurnIds /\ turn[t] \in Turns
    BY <1>13 DEF Report
  <2>2. AuditLine(ToolCall(t), "result") \in Lines
    BY <2>1 DEF AuditLine, Lines, Audits, Turns, ToolCall
  <2>3. log' \subseteq Lines /\ lost' \subseteq Lines
    BY <1>13, <2>2, AppendTyped DEF Report
  <2>4. pc' \in [Threads -> Steps] /\ (pc'[t] = "tool" => turn[t].todo > 0)
        /\ \A u \in Threads \ {t} : pc'[u] = pc[u]
    BY <1>13, <2>1 DEF Report, AfterCall, Steps
  <2> QED
    BY <1>13, <2>3, <2>4 DEF Report
<1>14. ASSUME NEW t \in Threads, SaveReply(t) PROVE TypeInv'
  BY <1>14 DEF SaveReply, Steps
<1>15. ASSUME NEW t \in Threads, Close(t) PROVE TypeInv'
  <2>1. turn[t].id \in TurnIds /\ turn[t] \in Turns
    BY <1>15 DEF Close
  <2>2. CloseLine(t) \in Lines
    BY <2>1 DEF CloseLine, Lines, Turns
  <2>3. log' \subseteq Lines /\ lost' \subseteq Lines
    BY <1>15, <2>2, AppendTyped DEF Close
  <2>4. NoTurn \in Turns
    BY DEF NoTurn, Turns
  <2> QED
    BY <1>15, <2>3, <2>4 DEF Close, Steps
<1>16. ASSUME NEW t \in Threads, Blocked(t) \/ Fail(t) PROVE TypeInv'
  <2>1. NoTurn \in Turns
    BY DEF NoTurn, Turns
  <2> QED
    BY <1>16, <2>1 DEF Blocked, Fail, Steps
<1>17. ASSUME NEW c \in Clients, Crash(c) PROVE TypeInv'
  <2>1. NoTurn \in Turns
    BY DEF NoTurn, Turns
  <2> QED
    BY <1>17, <2>1 DEF Crash, Steps
<1> QED
  BY <1>1, <1>2, <1>3, <1>4, <1>5, <1>6, <1>7, <1>8, <1>9, <1>10, <1>11, <1>12, <1>13, <1>14,
     <1>15, <1>16, <1>17 DEF Next, Proceed

\* The state of AgentTurn stays typed: no turn goes on without an id of its own.
THEOREM TurnTypes == Spec => []TypeOK
<1>1. TypeInv => TypeOK
  BY DEF TypeInv
<1> QED
  BY <1>1, InitTyped, NextTyped, PTL DEF Spec
-----------------------------------------------------------------------------
(* What a step of one turn leaves alone                                     *)

OnlyTouches(i) ==
  /\ \/ Written' = Written
     \/ \E l \in Lines : l.turn = i /\ Written' = Written \cup {l}
  /\ \A j \in TurnIds \ {i} :
       /\ chats'[j] = chats[j] /\ billed'[j] = billed[j]
       /\ j \in remembered' <=> j \in remembered
  /\ \A c \in ToolCalls : c[1] # i =>
       (c \in approved' <=> c \in approved) /\ (c \in ran' <=> c \in ran)

Stays(d) == pc'[d] = pc[d] /\ turn'[d] = turn[d]

\* What a close line says of its turn.
ClosedTrue(e) ==
  /\ e.turn \in remembered /\ About(e.turn, "open") # {}
  /\ e.iters = chats[e.turn]
  /\ e.calls = Cardinality(About(e.turn, "pending"))
  /\ e.rejects = Cardinality(About(e.turn, "rejected"))
  /\ e.calls = e.rejects + Cardinality(About(e.turn, "result"))

\* The lines of other turns stay as they are.
LEMMA SameLines ==
  ASSUME NEW i, OnlyTouches(i), NEW j, j # i
  PROVE  \A kind : About(j, kind)' = About(j, kind)
BY DEF OnlyTouches, About

\* A line adds to the lines of its turn and kind, and to no others.
LEMMA Grow ==
  ASSUME NEW l, Written' = Written \cup {l}
  PROVE  /\ About(l.turn, l.kind)' = About(l.turn, l.kind) \cup {l}
         /\ \A kind : kind # l.kind => About(l.turn, kind)' = About(l.turn, kind)
BY DEF About

\* The other threads do not notice.
LEMMA Aside ==
  ASSUME TypeInv, TypeInv', NEW i \in TurnIds, OnlyTouches(i),
         NEW d \in Threads, InTurn(d), Running(d) => turn[d].id # i, Stays(d)
  PROVE  InTurn(d)'
<1> SUFFICES ASSUME Running(d)' PROVE Trail(d)' /\ Loop(d)' /\ Counts(d)'
  BY DEF InTurn
<1> DEFINE j == turn[d].id
           n == turn[d].calls
<1>1. /\ Running(d) /\ j # i /\ j \in TurnIds /\ n \in Nat
      /\ Trail(d) /\ Loop(d) /\ Counts(d)
  BY DEF Running, Stays, InTurn, TypeInv, TypeOK, Turns
<1>2. \A kind : About(j, kind)' = About(j, kind)
  <2> SUFFICES ASSUME NEW kind PROVE About(j, kind)' = About(j, kind)
    OBVIOUS
  <2>1. \A e : e \in Written' /\ e.turn = j <=> e \in Written /\ e.turn = j
    BY <1>1 DEF OnlyTouches
  <2>2. j' = j
    BY DEF Stays
  <2> QED
    BY ONLY <2>1, <2>2 DEF About
<1>3. <<j, n>> \in ToolCalls
  BY <1>1 DEF ToolCalls
<1>4. \A e : e.turn = j => (e \in Written' <=> e \in Written)
  BY <1>1 DEF OnlyTouches
<1>5. \A kind : AuditLine(<<j, n>>, kind).turn = j
  BY DEF AuditLine
<1>6. \A c \in approved' : c[1] = j => c \in approved
  BY <1>1 DEF OnlyTouches, TypeInv, TypeOK
<1>7. Trail(d)'
  BY <1>1, <1>3, <1>4, <1>5, <1>6 DEF Trail, Stays, OnlyTouches
<1>8. Loop(d)'
  BY <1>1 DEF Loop, Stays, OnlyTouches
<1>9. Counts(d)'
  BY <1>1, <1>2 DEF Counts, Stays, OnlyTouches
<1> QED
  BY <1>7, <1>8, <1>9

\* A step of one turn keeps the invariant if it keeps that turn's part of it, the
\* audit's, and closes a trace only with the truth.
LEMMA OneTurn ==
  ASSUME IInv, TypeInv', NEW t \in Threads, Running(t), OnlyTouches(turn[t].id),
         UNCHANGED minted, \A d \in Threads \ {t} : Stays(d),
         Running(t)' => turn'[t].id = turn[t].id,
         InTurn(t)', AuditTellsWhatRan',
         \A e \in Written' \ Written : e.kind = "close" => ClosedTrue(e)'
  PROVE  IInv'
<1> DEFINE i == turn[t].id
<1>1. i \in TurnIds /\ i \in minted
  BY DEF IInv, TypeInv, TypeOK, Running
<1>2. \A d \in Threads \ {t} : InTurn(d)'
  <2> SUFFICES ASSUME NEW d \in Threads \ {t} PROVE InTurn(d)'
    OBVIOUS
  <2>1. InTurn(d) /\ (Running(d) => turn[d].id # i) /\ Stays(d)
    BY DEF IInv, OwnTurn
  <2> QED
    BY <1>1, <2>1, Aside DEF IInv
<1>3. OwnTurn'
  <2>1. \A d, u \in Threads : d # u /\ Running(d)' /\ Running(u)' => turn'[d].id # turn'[u].id
    BY DEF IInv, OwnTurn, Running, Stays
  <2>2. \A e \in Written' : e.turn \in minted'
    BY <1>1 DEF IInv, OwnTurn, OnlyTouches
  <2>3. \A c \in approved' \cup ran' : c[1] \in minted'
    BY <1>1 DEF IInv, OwnTurn, OnlyTouches, TypeInv, TypeOK
  <2>4. remembered' \subseteq minted'
    BY <1>1 DEF IInv, OwnTurn, OnlyTouches, TypeInv, TypeOK
  <2>5. \A j \in TurnIds \ minted' : chats'[j] = 0 /\ billed'[j] = 0
    BY <1>1 DEF IInv, OwnTurn, OnlyTouches
  <2> QED
    BY <2>1, <2>2, <2>3, <2>4, <2>5 DEF OwnTurn, Running
<1>4. \A e \in Written' : e.kind = "close" => ClosedTrue(e)'
  <2> SUFFICES ASSUME NEW e \in Written', e.kind = "close", e \in Written PROVE ClosedTrue(e)'
    OBVIOUS
  <2>1. e.turn # i
    BY DEF IInv, InTurn, Counts, About
  <2>2. \A kind : About(e.turn, kind)' = About(e.turn, kind)
    BY <2>1, SameLines
  <2>3. e.turn \in TurnIds
    BY DEF IInv, OwnTurn, TypeInv, TypeOK
  <2>4. ClosedTrue(e)
    BY DEF IInv, CloseIsTrue, ClosedTrue
  <2> QED
    BY <2>1, <2>2, <2>3, <2>4 DEF ClosedTrue, OnlyTouches
<1>5. CloseIsTrue'
  BY <1>4 DEF CloseIsTrue, ClosedTrue
<1>6. \A d \in Threads : InTurn(d)'
  BY <1>2
<1> QED
  BY <1>3, <1>5, <1>6 DEF IInv
-----------------------------------------------------------------------------
(* The turn that moves                                                      *)

\* The counters of a turn that writes no line, makes no tool call and is not
\* told of one.
LEMMA QuietCounts ==
  ASSUME NEW t \in Threads, Counts(t), Written' = Written,
         turn'[t].id = turn[t].id, turn'[t].calls = turn[t].calls,
         turn'[t].rejects = turn[t].rejects,
         pc[t] \in Deciding <=> pc'[t] \in Deciding, pc[t] \in Opening <=> pc'[t] \in Opening,
         pc'[t] = "close" => turn[t].id \in remembered'
  PROVE  Counts(t)'
<1>1. \A kind : About(turn[t].id, kind)' = About(turn[t].id, kind)
  BY DEF About
<1> QED
  BY <1>1 DEF Counts

\* Outside the handling of a tool call, earlier calls stay settled.
LEMMA QuietTrail ==
  ASSUME NEW t \in Threads, Trail(t), Written' = Written, approved' = approved,
         turn'[t].id = turn[t].id, turn'[t].calls = turn[t].calls, pc'[t] \notin Deciding
  PROVE  Trail(t)'
BY DEF Trail, Deciding

LEMMA QuietAudit ==
  ASSUME AuditTellsWhatRan, Written' = Written, approved' = approved, ran' = ran
  PROVE  AuditTellsWhatRan'
BY DEF AuditTellsWhatRan

\* Steps that write no line: the locals of the others, and most of this turn's,
\* stay as they are.
LEMMA QuietStep ==
  ASSUME IInv, TypeInv', NEW t \in Threads, Running(t), Written' = Written, UNCHANGED minted,
         UNCHANGED <<approved, ran>>, \A d \in Threads \ {t} : Stays(d),
         turn'[t].id = turn[t].id, turn'[t].calls = turn[t].calls,
         turn'[t].rejects = turn[t].rejects,
         pc[t] \notin Deciding, pc'[t] \notin Deciding, pc[t] \in Opening <=> pc'[t] \in Opening,
         pc'[t] = "close" => turn[t].id \in remembered',
         \A j \in TurnIds \ {turn[t].id} :
           /\ chats'[j] = chats[j] /\ billed'[j] = billed[j]
           /\ j \in remembered' <=> j \in remembered,
         Loop(t)'
  PROVE  IInv'
<1>1. Trail(t) /\ Loop(t) /\ Counts(t)
  BY DEF IInv, InTurn
<1>2. Trail(t)' /\ Counts(t)'
  BY <1>1, QuietTrail, QuietCounts
<1>3. AuditTellsWhatRan'
  BY QuietAudit DEF IInv
<1>4. OnlyTouches(turn[t].id)
  BY DEF OnlyTouches
<1> QED
  BY <1>2, <1>3, <1>4, OneTurn DEF InTurn

LEMMA StepExtract ==
  ASSUME IInv, TypeInv', NEW t \in Threads, StartExtract(t) \/ EndExtract(t)
  PROVE  IInv'
<1>1. /\ Running(t) /\ Written' = Written /\ \A d \in Threads \ {t} : Stays(d)
      /\ pc[t] \in Opening \ Deciding /\ pc'[t] \in Opening \ Deciding
      /\ UNCHANGED <<turn, minted, chats, billed, mute, approved, ran, remembered>>
  BY DEF StartExtract, EndExtract, Go, Running, Written, Stays, Opening, Deciding, history,
     IInv, TypeInv, TypeOK
<1>2. Loop(t)'
  BY <1>1 DEF Loop, IInv, InTurn, Opening
<1> QED
  BY <1>1, <1>2, QuietStep DEF Opening

LEMMA StepStartCall ==
  ASSUME IInv, TypeInv', NEW t \in Threads, StartCall(t)
  PROVE  IInv'
<1>1. /\ Running(t) /\ turn[t].id \in TurnIds /\ turn[t] \in Turns
      /\ Trail(t) /\ Loop(t) /\ Counts(t)
  BY DEF StartCall, Go, Running, IInv, InTurn, TypeInv, TypeOK
<1>2. /\ pc[t] = "call" /\ pc'[t] = "calling"
      /\ Written' = Written /\ \A d \in Threads \ {t} : Stays(d)
      /\ UNCHANGED <<minted, billed, approved, ran, remembered>>
  BY DEF StartCall, Go, Written, Stays, IInv, TypeInv, TypeOK
<1>3. turn'[t] = [turn[t] EXCEPT !.iters = turn[t].iters + 1]
  BY DEF StartCall, IInv, TypeInv, TypeOK
<1>4. /\ turn'[t].iters = turn[t].iters + 1 /\ turn'[t].id = turn[t].id
      /\ turn'[t].calls = turn[t].calls /\ turn'[t].rejects = turn[t].rejects
  BY <1>1, <1>3 DEF Turns
<1>5. chats' = [chats EXCEPT ![turn[t].id] = @ + 1] /\ chats \in [TurnIds -> Nat]
  BY DEF StartCall, IInv, TypeInv, TypeOK
<1>6. Loop(t)'
  BY <1>1, <1>2, <1>4, <1>5, AgentAssumption DEF Loop, Opening, Turns
<1> QED
  BY <1>1, <1>2, <1>4, <1>5, <1>6, QuietStep DEF Opening, Deciding

LEMMA StepEndCall ==
  ASSUME IInv, TypeInv', NEW t \in Threads, EndCall(t)
  PROVE  IInv'
<1>1. /\ Running(t) /\ turn[t].id \in TurnIds /\ turn[t] \in Turns
      /\ Trail(t) /\ Loop(t) /\ Counts(t)
  BY DEF EndCall, Go, Running, IInv, InTurn, TypeInv, TypeOK
<1>2. /\ pc[t] = "calling" /\ pc'[t] = "usage"
      /\ Written' = Written /\ \A d \in Threads \ {t} : pc'[d] = pc[d]
      /\ UNCHANGED <<minted, chats, approved, ran, remembered>>
  BY DEF EndCall, Go, Written, IInv, TypeInv, TypeOK
<1>3. PICK n : turn' = [turn EXCEPT ![t] = [@ EXCEPT !.todo = n]]
  BY DEF EndCall
<1>4. /\ turn'[t].iters = turn[t].iters /\ turn'[t].id = turn[t].id
      /\ turn'[t].calls = turn[t].calls /\ turn'[t].rejects = turn[t].rejects
      /\ \A d \in Threads \ {t} : Stays(d)
  BY <1>1, <1>2, <1>3 DEF Turns, Stays, IInv, TypeInv, TypeOK
<1>5. \A j \in TurnIds \ {turn[t].id} : billed'[j] = billed[j]
  BY DEF EndCall, IInv, TypeInv, TypeOK
<1>6. Loop(t)'
  BY <1>1, <1>2, <1>4 DEF Loop, Opening
<1> QED
  BY <1>1, <1>2, <1>4, <1>5, <1>6, QuietStep DEF Opening, Deciding

LEMMA StepReadUsage ==
  ASSUME IInv, TypeInv', NEW t \in Threads, ReadUsage(t)
  PROVE  IInv'
<1>1. /\ Running(t) /\ turn[t].id \in TurnIds /\ turn[t] \in Turns
      /\ Trail(t) /\ Loop(t) /\ Counts(t)
  BY DEF ReadUsage, Go, Running, IInv, InTurn, TypeInv, TypeOK
<1>2. /\ pc[t] = "usage" /\ pc'[t] \in {"save", "tool"}
      /\ pc'[t] = "tool" => turn[t].todo > 0
      /\ Written' = Written /\ \A d \in Threads \ {t} : pc'[d] = pc[d]
      /\ UNCHANGED <<minted, chats, billed, mute, approved, ran, remembered>>
  BY <1>1 DEF ReadUsage, Go, Written, IInv, TypeInv, TypeOK, history, Turns
<1>3. PICK u : turn' = [turn EXCEPT ![t] = [@ EXCEPT !.usage = u]]
  BY DEF ReadUsage
<1>4. /\ turn'[t].iters = turn[t].iters /\ turn'[t].id = turn[t].id
      /\ turn'[t].calls = turn[t].calls /\ turn'[t].rejects = turn[t].rejects
      /\ turn'[t].todo = turn[t].todo
      /\ \A d \in Threads \ {t} : Stays(d)
  BY <1>1, <1>2, <1>3 DEF Turns, Stays, IInv, TypeInv, TypeOK
<1>5. Loop(t)'
  BY <1>1, <1>2, <1>4 DEF Loop, Opening
<1> QED
  BY <1>1, <1>2, <1>4, <1>5, QuietStep DEF Opening, Deciding

LEMMA StepSaveReply ==
  ASSUME IInv, TypeInv', NEW t \in Threads, SaveReply(t)
  PROVE  IInv'
<1>1. /\ Running(t) /\ Written' = Written /\ \A d \in Threads \ {t} : Stays(d)
      /\ pc[t] = "save" /\ pc'[t] = "close"
      /\ remembered' = remembered \cup {turn[t].id}
      /\ UNCHANGED <<turn, minted, chats, billed, mute, approved, ran>>
  BY DEF SaveReply, Go, Running, Written, Stays, IInv, TypeInv, TypeOK
<1>2. Loop(t)'
  BY <1>1 DEF Loop, IInv, InTurn, Opening
<1> QED
  BY <1>1, <1>2, QuietStep DEF Opening, Deciding

\* What every step of a running turn starts from.
LEMMA InTurnFacts ==
  ASSUME IInv, NEW t \in Threads, Running(t)
  PROVE  /\ turn[t].id \in TurnIds /\ turn[t].id \in minted /\ turn[t] \in Turns
         /\ turn[t].calls \in Nat /\ turn[t].rejects \in Nat /\ turn[t].iters \in Nat
         /\ Trail(t) /\ Loop(t) /\ Counts(t)
BY DEF Running, IInv, InTurn, TypeInv, TypeOK, Turns

\* The call an audit line is about is a number.
LEMMA AuditLines ==
  ASSUME TypeInv, NEW e \in Written, e.kind \in Audits
  PROVE  e.call \in Nat /\ e.turn \in TurnIds
BY DEF TypeInv, TypeOK, Written, Lines, Audits

\* Appending a line about the thread's own turn touches that turn only.
LEMMA OwnLine ==
  ASSUME IInv, NEW t \in Threads, Running(t), NEW l \in Lines, l.turn = turn[t].id, Append1(l),
         \A c \in ToolCalls : c[1] # turn[t].id =>
           (c \in approved' <=> c \in approved) /\ (c \in ran' <=> c \in ran),
         UNCHANGED <<chats, billed, remembered>>
  PROVE  Written' = Written \cup {l} /\ OnlyTouches(turn[t].id)
BY DEF Append1, Written, OnlyTouches

LEMMA StepOpen ==
  ASSUME IInv, TypeInv', NEW t \in Threads, Open(t)
  PROVE  IInv'
<1> DEFINE i == turn[t].id
           l == OpenLine(i)
<1>1. /\ Running(t) /\ pc[t] = "open" /\ pc'[t] = "call" /\ Append1(l)
      /\ \A d \in Threads \ {t} : Stays(d)
      /\ UNCHANGED <<turn, minted, chats, billed, mute, approved, ran, remembered>>
  BY DEF Open, Go, Running, Stays, IInv, TypeInv, TypeOK
<1>2. /\ i \in TurnIds /\ Trail(t) /\ Loop(t) /\ Counts(t)
  BY <1>1, InTurnFacts
<1>3. l \in Lines /\ l.turn = i /\ l.kind = "open" /\ "open" \notin Audits
  BY <1>2 DEF OpenLine, Lines, Audits
<1>4. Written' = Written \cup {l} /\ OnlyTouches(i)
  BY <1>1, <1>3, OwnLine
<1>5. /\ \A kind : kind # "open" => About(i, kind)' = About(i, kind)
      /\ About(i, "open")' # {}
  BY <1>1, <1>3, <1>4 DEF About
<1>6. Trail(t)'
  BY <1>1, <1>2, <1>3, <1>4 DEF Trail
<1>7. Loop(t)'
  BY <1>1, <1>2 DEF Loop, Opening
<1>8. Counts(t)'
  <2>1. \A kind \in Audits : About(i, kind)' = About(i, kind)
    BY <1>3, <1>5
  <2> QED
    BY <1>1, <1>2, <1>5, <2>1 DEF Counts, Opening, Deciding, Audits
<1>9. AuditTellsWhatRan'
  BY <1>1, <1>3, <1>4 DEF IInv, AuditTellsWhatRan
<1>10. \A e \in Written' \ Written : e.kind # "close"
  BY <1>3, <1>4
<1> QED
  BY <1>1, <1>4, <1>6, <1>7, <1>8, <1>9, <1>10, OneTurn DEF InTurn

LEMMA StepAnnounce ==
  ASSUME IInv, TypeInv', NEW t \in Threads, Announce(t)
  PROVE  IInv'
<1> DEFINE i == turn[t].id
           n == turn[t].calls
           l == AuditLine(<<i, n + 1>>, "pending")
<1>1. /\ Running(t) /\ pc[t] = "tool" /\ pc'[t] = "confirm" /\ Append1(l)
      /\ \A d \in Threads \ {t} : Stays(d)
      /\ UNCHANGED <<minted, chats, billed, mute, approved, ran, remembered>>
  BY DEF Announce, Go, Running, Stays, IInv, TypeInv, TypeOK
<1>2. /\ i \in TurnIds /\ n \in Nat /\ turn[t] \in Turns /\ turn[t].rejects \in Nat
      /\ Trail(t) /\ Loop(t) /\ Counts(t)
  BY <1>1, InTurnFacts
<1>3. turn'[t] = [turn[t] EXCEPT !.calls = n + 1, !.todo = turn[t].todo - 1]
  BY DEF Announce, IInv, TypeInv, TypeOK
<1>4. /\ turn'[t].id = i /\ turn'[t].calls = n + 1
      /\ turn'[t].iters = turn[t].iters /\ turn'[t].rejects = turn[t].rejects
  BY <1>2, <1>3 DEF Turns
<1>5. l \in Lines /\ l.turn = i /\ l.kind = "pending" /\ l.call = n + 1
  BY <1>2 DEF AuditLine, Lines, Audits
<1>6. Written' = Written \cup {l} /\ OnlyTouches(i)
  BY <1>1, <1>5, OwnLine
<1>7. /\ \A kind : kind # "pending" => About(turn[t].id, kind)' = About(i, kind)
      /\ About(turn[t].id, "pending")' = About(i, "pending") \cup {l}
  BY <1>4, <1>5, <1>6 DEF About
<1>8. l \notin About(i, "pending")
  BY <1>2, <1>5 DEF Trail, About, Audits
<1>9. Trail(t)'
  <2>1. \A e \in Written' : e.turn = i /\ e.kind \in Audits => e.call <= n + 1
    <3>1. \A e \in Written : e.turn = i /\ e.kind \in Audits => e.call <= n /\ e.call \in Nat
      BY <1>2, AuditLines DEF Trail, IInv
    <3> QED
      BY <1>2, <1>5, <1>6, <3>1
  <2>2. \A c \in approved' : c[1] = i => c[2] <= n
    BY <1>1, <1>2 DEF Trail
  <2>3. \A c \in approved' : c[1] = i => c[2] <= n + 1 /\ c[2] # n + 1
    BY <1>2, <2>2 DEF IInv, TypeInv, TypeOK, ToolCalls
  <2>4. \A e \in Written' : e.turn = i /\ e.kind \in Audits /\ e.kind # "pending" => e.call # n + 1
    BY <1>2, <1>5, <1>6 DEF Trail, TypeInv, TypeOK, IInv
  <2>5. l \in Written' /\ <<i, n + 1>> \notin approved'
    BY <1>6, <2>3
  <2> QED
    BY <1>1, <1>4, <2>1, <2>3, <2>4, <2>5 DEF Trail
<1>10. Loop(t)'
  BY <1>1, <1>2, <1>4 DEF Loop, Opening
<1>11. Counts(t)'
  <2>1. /\ IsFiniteSet(About(i, "pending") \cup {l})
        /\ Cardinality(About(i, "pending") \cup {l}) = Cardinality(About(i, "pending")) + 1
    BY <1>2, <1>8, FS_AddElement DEF Counts, Audits
  <2>2. Cardinality(About(i, "result")) \in Nat /\ Cardinality(About(i, "pending")) \in Nat
    BY <1>2, FS_CardinalityType DEF Counts, Audits
  <2>3. /\ n = Cardinality(About(i, "pending"))
        /\ turn[t].rejects = Cardinality(About(i, "rejected"))
        /\ n = turn[t].rejects + Cardinality(About(i, "result"))
    BY <1>1, <1>2, <2>2 DEF Counts, Deciding
  <2>4. \A kind \in Audits : IsFiniteSet(About(turn[t].id, kind)')
    BY <1>2, <1>7, <2>1 DEF Counts
  <2>5. /\ turn'[t].calls = Cardinality(About(turn[t].id, "pending")')
        /\ turn'[t].rejects = Cardinality(About(turn[t].id, "rejected")')
        /\ turn'[t].calls = turn'[t].rejects + Cardinality(About(turn[t].id, "result")') + 1
    BY <1>2, <1>4, <1>7, <2>1, <2>2, <2>3
  <2>6. About(turn[t].id, "open")' # {} /\ About(turn[t].id, "close")' = {}
    BY <1>1, <1>2, <1>7 DEF Counts, Opening
  <2> QED
    BY <1>1, <2>4, <2>5, <2>6 DEF Counts, Opening, Deciding
<1>12. AuditTellsWhatRan'
  BY <1>1, <1>5, <1>6 DEF IInv, AuditTellsWhatRan, AuditLine
<1>13. \A e \in Written' \ Written : e.kind # "close"
  BY <1>5, <1>6
<1> QED
  BY <1>1, <1>4, <1>6, <1>9, <1>10, <1>11, <1>12, <1>13, OneTurn DEF InTurn

LEMMA StepAccept ==
  ASSUME IInv, TypeInv', NEW t \in Threads, Accept(t)
  PROVE  IInv'
<1> DEFINE i == turn[t].id
           n == turn[t].calls
           l == AuditLine(<<i, n>>, "accepted")
<1>1. /\ Running(t) /\ pc[t] = "confirm" /\ pc'[t] = "run" /\ Append1(l)
      /\ \A d \in Threads \ {t} : Stays(d)
      /\ approved' = approved \cup {<<i, n>>}
      /\ UNCHANGED <<turn, minted, chats, billed, ran, remembered>>
  BY DEF Accept, Go, Running, Stays, IInv, TypeInv, TypeOK, ToolCall
<1>2. /\ i \in TurnIds /\ n \in Nat /\ Trail(t) /\ Loop(t) /\ Counts(t)
  BY <1>1, InTurnFacts
<1>3. l \in Lines /\ l.turn = i /\ l.kind = "accepted" /\ l.call = n
  BY <1>2 DEF AuditLine, Lines, Audits
<1>4. Written' = Written \cup {l} /\ OnlyTouches(i)
  BY <1>1, <1>3, OwnLine
<1>5. \A kind : kind # "accepted" => About(i, kind)' = About(i, kind)
  BY <1>1, <1>3, <1>4 DEF About
<1>6. About(i, "accepted")' = About(i, "accepted") \cup {l}
  BY <1>1, <1>3, <1>4 DEF About
<1>7. Trail(t)'
  <2>1. \A e \in Written' : e.turn = i /\ e.kind \in Audits => e.call <= n
    BY <1>2, <1>3, <1>4 DEF Trail
  <2>2. \A c \in approved' : c[1] = i => c[2] <= n
    BY <1>1, <1>2 DEF Trail
  <2>3. AuditLine(<<i, n>>, "result") \notin Written'
    BY <1>1, <1>2, <1>3, <1>4 DEF Trail, AuditLine, Audits
  <2>4. /\ <<i, n>> \in approved' /\ l \in Written'
        /\ AuditLine(<<i, n>>, "pending") \in Written'
    BY <1>1, <1>2, <1>4 DEF Trail
  <2> QED
    BY <1>1, <2>1, <2>2, <2>3, <2>4 DEF Trail
<1>8. Loop(t)'
  BY <1>1, <1>2 DEF Loop, Opening
<1>9. Counts(t)'
  <2>1. IsFiniteSet(About(i, "accepted")')
    BY <1>2, <1>6, FS_AddElement DEF Counts, Audits
  <2>2. \A kind \in Audits : IsFiniteSet(About(i, kind)')
    BY <1>2, <1>5, <2>1 DEF Counts
  <2> QED
    BY <1>1, <1>2, <1>5, <2>2 DEF Counts, Opening, Deciding
<1>10. AuditTellsWhatRan'
  <2>1. \A e \in Written : e.turn = i /\ e.kind = "rejected" => e.call # n
    BY <1>1, <1>2 DEF Trail, Audits
  <2>2. \A call \in ran' : call \in approved' /\ AuditLine(call, "accepted") \in Written'
    BY <1>1, <1>4 DEF IInv, AuditTellsWhatRan
  <2>3. AuditLine(<<i, n>>, "pending") \in Written
    BY <1>1, <1>2 DEF Trail
  <2>4. \A e \in Written : e.kind \in Audits =>
          /\ AuditLine(<<e.turn, e.call>>, "pending") \in Written'
          /\ e.kind = "accepted" => <<e.turn, e.call>> \in approved'
          /\ e.kind = "rejected" => <<e.turn, e.call>> \notin approved'
          /\ e.kind = "result" => <<e.turn, e.call>> \in ran'
    BY <1>1, <1>4, <2>1 DEF IInv, AuditTellsWhatRan
  <2> QED
    BY <1>1, <1>3, <1>4, <2>2, <2>3, <2>4 DEF AuditTellsWhatRan
<1>11. \A e \in Written' \ Written : e.kind # "close"
  BY <1>3, <1>4
<1> QED
  BY <1>1, <1>4, <1>7, <1>8, <1>9, <1>10, <1>11, OneTurn DEF InTurn

LEMMA StepReject ==
  ASSUME IInv, TypeInv', NEW t \in Threads, Reject(t)
  PROVE  IInv'
<1> DEFINE i == turn[t].id
           n == turn[t].calls
           l == AuditLine(<<i, n>>, "rejected")
<1>1. /\ Running(t) /\ pc[t] = "confirm" /\ Append1(l)
      /\ \A d \in Threads \ {t} : Stays(d)
      /\ UNCHANGED <<minted, chats, billed, mute, approved, ran, remembered>>
  BY DEF Reject, Go, Running, Stays, IInv, TypeInv, TypeOK, ToolCall
<1>2. /\ i \in TurnIds /\ n \in Nat /\ turn[t] \in Turns /\ turn[t].rejects \in Nat
      /\ Trail(t) /\ Loop(t) /\ Counts(t)
  BY <1>1, InTurnFacts
<1>3. turn'[t] = [turn[t] EXCEPT !.rejects = turn[t].rejects + 1]
  BY DEF Reject, IInv, TypeInv, TypeOK
<1>4. /\ turn'[t].id = i /\ turn'[t].calls = n /\ turn'[t].iters = turn[t].iters
      /\ turn'[t].todo = turn[t].todo /\ turn'[t].rejects = turn[t].rejects + 1
  BY <1>2, <1>3 DEF Turns
<1>5. pc'[t] \in {"tool", "save"} /\ (pc'[t] = "tool" => turn[t].todo > 0)
  BY <1>2 DEF Reject, Go, AfterCall, LastBatch, IInv, TypeInv, TypeOK
<1>6. l \in Lines /\ l.turn = i /\ l.kind = "rejected" /\ l.call = n
  BY <1>2 DEF AuditLine, Lines, Audits
<1>7. Written' = Written \cup {l} /\ OnlyTouches(i)
  BY <1>1, <1>6, OwnLine
<1>8. /\ \A kind : kind # "rejected" => About(turn[t].id, kind)' = About(i, kind)
      /\ About(turn[t].id, "rejected")' = About(i, "rejected") \cup {l}
  BY <1>4, <1>6, <1>7 DEF About
<1>9. l \notin About(i, "rejected")
  BY <1>1, <1>2, <1>6 DEF Trail, About, Audits
<1>10. Trail(t)'
  <2>1. \A e \in Written' : e.turn = i /\ e.kind \in Audits => e.call <= n
    BY <1>2, <1>6, <1>7 DEF Trail
  <2>2. \A c \in approved' : c[1] = i => c[2] <= n
    BY <1>1, <1>2 DEF Trail
  <2> QED
    BY <1>4, <1>5, <2>1, <2>2 DEF Trail
<1>11. Loop(t)'
  BY <1>1, <1>2, <1>4, <1>5 DEF Loop, Opening
<1>12. Counts(t)'
  <2>1. /\ IsFiniteSet(About(i, "rejected") \cup {l})
        /\ Cardinality(About(i, "rejected") \cup {l}) = Cardinality(About(i, "rejected")) + 1
    BY <1>2, <1>9, FS_AddElement DEF Counts, Audits
  <2>2. Cardinality(About(i, "result")) \in Nat
    BY <1>2, FS_CardinalityType DEF Counts, Audits
  <2>3. /\ n = Cardinality(About(i, "pending"))
        /\ turn[t].rejects = Cardinality(About(i, "rejected"))
        /\ n = turn[t].rejects + Cardinality(About(i, "result")) + 1
    BY <1>1, <1>2, <2>2 DEF Counts, Deciding
  <2>4. \A kind \in Audits : IsFiniteSet(About(turn[t].id, kind)')
    BY <1>2, <1>8, <2>1 DEF Counts
  <2>5. /\ turn'[t].calls = Cardinality(About(turn[t].id, "pending")')
        /\ turn'[t].rejects = Cardinality(About(turn[t].id, "rejected")')
        /\ turn'[t].calls = turn'[t].rejects + Cardinality(About(turn[t].id, "result")')
    BY <1>2, <1>4, <1>8, <2>1, <2>2, <2>3
  <2>6. About(turn[t].id, "open")' # {} /\ About(turn[t].id, "close")' = {}
    BY <1>1, <1>2, <1>8 DEF Counts, Opening
  <2>7. Cardinality(About(turn[t].id, "result")') \in Nat
    BY <1>8, <2>2
  <2> QED
    BY <1>2, <1>4, <1>5, <2>4, <2>5, <2>6, <2>7 DEF Counts, Opening, Deciding
<1>13. AuditTellsWhatRan'
  <2>1. <<i, n>> \notin approved /\ AuditLine(<<i, n>>, "pending") \in Written
    BY <1>1, <1>2 DEF Trail
  <2> QED
    BY <1>1, <1>6, <1>7, <2>1 DEF IInv, AuditTellsWhatRan
<1>14. \A e \in Written' \ Written : e.kind # "close"
  BY <1>6, <1>7
<1> QED
  BY <1>1, <1>4, <1>7, <1>10, <1>11, <1>12, <1>13, <1>14, OneTurn DEF InTurn

LEMMA StepExecute ==
  ASSUME IInv, TypeInv', NEW t \in Threads, Execute(t)
  PROVE  IInv'
<1> DEFINE i == turn[t].id
           n == turn[t].calls
<1>1. /\ Running(t) /\ pc[t] = "run" /\ pc'[t] = "report" /\ Written' = Written
      /\ \A d \in Threads \ {t} : Stays(d)
      /\ ran' = ran \cup {<<i, n>>}
      /\ UNCHANGED <<turn, minted, chats, billed, mute, approved, remembered>>
  BY DEF Execute, Go, Running, Stays, IInv, TypeInv, TypeOK, ToolCall, Written
<1>2. /\ i \in TurnIds /\ n \in Nat /\ Trail(t) /\ Loop(t) /\ Counts(t)
  BY <1>1, InTurnFacts
<1>3. OnlyTouches(i)
  BY <1>1 DEF OnlyTouches
<1>4. Trail(t)'
  BY <1>1, <1>2 DEF Trail
<1>5. Loop(t)'
  BY <1>1, <1>2 DEF Loop, Opening
<1>6. Counts(t)'
  BY <1>1, <1>2, QuietCounts DEF Opening, Deciding
<1>7. AuditTellsWhatRan'
  BY <1>1, <1>2 DEF IInv, AuditTellsWhatRan, Trail
<1> QED
  BY <1>1, <1>3, <1>4, <1>5, <1>6, <1>7, OneTurn DEF InTurn

LEMMA StepReport ==
  ASSUME IInv, TypeInv', NEW t \in Threads, Report(t)
  PROVE  IInv'
<1> DEFINE i == turn[t].id
           n == turn[t].calls
           l == AuditLine(<<i, n>>, "result")
<1>1. /\ Running(t) /\ pc[t] = "report" /\ Append1(l)
      /\ \A d \in Threads \ {t} : Stays(d)
      /\ UNCHANGED <<turn, minted, chats, billed, mute, approved, ran, remembered>>
  BY DEF Report, Go, Running, Stays, IInv, TypeInv, TypeOK, ToolCall
<1>2. /\ i \in TurnIds /\ n \in Nat /\ turn[t] \in Turns /\ turn[t].rejects \in Nat
      /\ turn[t].iters \in Nat /\ Trail(t) /\ Loop(t) /\ Counts(t)
  BY <1>1, InTurnFacts
<1>3. /\ pc'[t] \in {"tool", "save", "call"} /\ (pc'[t] = "tool" => turn[t].todo > 0)
      /\ pc'[t] = "call" => turn[t].rejects = 0 /\ turn[t].iters < MaxIters
  BY <1>2, AgentAssumption DEF Report, Go, AfterCall, LastBatch, IInv, TypeInv, TypeOK
<1>4. l \in Lines /\ l.turn = i /\ l.kind = "result" /\ l.call = n
  BY <1>2 DEF AuditLine, Lines, Audits
<1>5. Written' = Written \cup {l} /\ OnlyTouches(i)
  BY <1>1, <1>4, OwnLine
<1>6. /\ \A kind : kind # "result" => About(i, kind)' = About(i, kind)
      /\ About(i, "result")' = About(i, "result") \cup {l}
      /\ About(i, "pending")' = About(i, "pending") /\ About(i, "rejected")' = About(i, "rejected")
  BY <1>1, <1>4, <1>5 DEF About
<1>7. l \notin About(i, "result")
  BY <1>1, <1>2 DEF Trail, About
<1>8. Trail(t)'
  <2>1. \A e \in Written' : e.turn = i /\ e.kind \in Audits => e.call <= n
    BY <1>2, <1>4, <1>5 DEF Trail
  <2>2. \A c \in approved' : c[1] = i => c[2] <= n
    BY <1>1, <1>2 DEF Trail
  <2> QED
    BY <1>1, <1>3, <2>1, <2>2 DEF Trail
<1>9. Loop(t)'
  BY <1>1, <1>2, <1>3 DEF Loop, Opening
<1>10. Counts(t)'
  <2>1. /\ IsFiniteSet(About(i, "result") \cup {l})
        /\ Cardinality(About(i, "result") \cup {l}) = Cardinality(About(i, "result")) + 1
    BY <1>2, <1>7, FS_AddElement DEF Counts, Audits
  <2>2. Cardinality(About(i, "result")) \in Nat
    BY <1>2, FS_CardinalityType DEF Counts, Audits
  <2>3. /\ n = Cardinality(About(i, "pending"))
        /\ turn[t].rejects = Cardinality(About(i, "rejected"))
        /\ n = turn[t].rejects + Cardinality(About(i, "result")) + 1
    BY <1>1, <1>2, <2>2 DEF Counts, Deciding
  <2>4. \A kind \in Audits : IsFiniteSet(About(i, kind)')
    BY <1>2, <1>6, <2>1 DEF Counts
  <2>5. /\ n = Cardinality(About(i, "pending")')
        /\ turn[t].rejects = Cardinality(About(i, "rejected")')
        /\ n = turn[t].rejects + Cardinality(About(i, "result")')
    <3>1. Cardinality(About(i, "result")') = Cardinality(About(i, "result")) + 1
      BY <1>6, <2>1
    <3>2. /\ Cardinality(About(i, "pending")') = Cardinality(About(i, "pending"))
          /\ Cardinality(About(i, "rejected")') = Cardinality(About(i, "rejected"))
      BY <1>6
    <3> QED
      BY ONLY <1>2, <2>2, <2>3, <3>1, <3>2
  <2>6. About(i, "open")' # {} /\ About(i, "close")' = {}
    BY <1>1, <1>2, <1>6 DEF Counts, Opening
  <2>7. Cardinality(About(i, "result")') \in Nat
    BY <1>6, <2>1, <2>2
  <2> QED
    BY <1>1, <1>2, <1>3, <2>4, <2>5, <2>6, <2>7 DEF Counts, Opening, Deciding
<1>11. AuditTellsWhatRan'
  <2>1. <<i, n>> \in ran /\ AuditLine(<<i, n>>, "pending") \in Written
    BY <1>1, <1>2 DEF Trail
  <2> QED
    BY <1>1, <1>4, <1>5, <2>1 DEF IInv, AuditTellsWhatRan
<1>12. \A e \in Written' \ Written : e.kind # "close"
  BY <1>4, <1>5
<1> QED
  BY <1>1, <1>5, <1>8, <1>9, <1>10, <1>11, <1>12, OneTurn DEF InTurn

LEMMA StepClose ==
  ASSUME IInv, TypeInv', NEW t \in Threads, Close(t)
  PROVE  IInv'
<1>0. PICK i, l : i = turn[t].id /\ l = CloseLine(t)
  OBVIOUS
<1>1. /\ Running(t) /\ pc[t] = "close" /\ pc'[t] = "idle" /\ Append1(l)
      /\ \A d \in Threads \ {t} : Stays(d)
      /\ UNCHANGED <<minted, chats, billed, mute, approved, ran, remembered>>
  BY <1>0 DEF Close, Return, Running, Stays, IInv, TypeInv, TypeOK
<1>2. /\ i \in TurnIds /\ turn[t] \in Turns /\ turn[t].rejects \in Nat
      /\ Trail(t) /\ Loop(t) /\ Counts(t)
  BY <1>0, <1>1, InTurnFacts
<1>3. /\ l \in Lines /\ l.turn = i /\ l.kind = "close" /\ "close" \notin Audits
      /\ l.iters = turn[t].iters /\ l.calls = turn[t].calls /\ l.rejects = turn[t].rejects
  BY <1>0, <1>2 DEF CloseLine, Lines, Turns, Audits
<1>4. Written' = Written \cup {l} /\ OnlyTouches(i)
  BY <1>0, <1>1, <1>3, OwnLine
<1>5. InTurn(t)'
  BY <1>1 DEF InTurn, Running
<1>6. \A kind : kind # "close" => About(l.turn, kind)' = About(i, kind)
  BY <1>3, <1>4 DEF About
<1>7. ClosedTrue(l)'
  <2>1. Cardinality(About(i, "result")) \in Nat
    BY <1>0, <1>2, FS_CardinalityType DEF Counts, Audits
  <2> QED
    BY <1>0, <1>1, <1>2, <1>3, <1>6, <2>1 DEF ClosedTrue, Counts, Loop, Opening, Deciding
<1>8. AuditTellsWhatRan'
  BY <1>1, <1>3, <1>4 DEF IInv, AuditTellsWhatRan
<1>9. \A e \in Written' \ Written : e = l
  BY <1>4
<1> QED
  BY <1>0, <1>1, <1>4, <1>5, <1>7, <1>8, <1>9, OneTurn DEF Running

\* A turn begins with an id nothing is known about.
LEMMA StepBegin ==
  ASSUME IInv, TypeInv', NEW t \in Threads, Begin(t)
  PROVE  IInv'
<1>1. PICK i \in TurnIds \ minted :
        turn' = [turn EXCEPT ![t] = [NoTurn EXCEPT !.id = i]] /\ minted' = minted \cup {i}
  BY DEF Begin
<1>2. /\ ~Running(t) /\ pc'[t] = "extract" /\ Written' = Written
      /\ \A d \in Threads \ {t} : Stays(d)
      /\ UNCHANGED <<chats, billed, approved, ran, remembered>>
  BY <1>1 DEF Begin, Go, Running, Stays, Written, history, IInv, TypeInv, TypeOK
<1>3. turn'[t] = [NoTurn EXCEPT !.id = i]
  BY <1>1 DEF IInv, TypeInv, TypeOK
<1>4. /\ turn'[t].id = i /\ turn'[t].calls = 0 /\ turn'[t].rejects = 0 /\ turn'[t].iters = 0
  BY <1>3 DEF NoTurn
<1>5. /\ \A e \in Written : e.turn # i
      /\ \A c \in approved \cup ran : c[1] # i
      /\ chats[i] = 0
  BY DEF IInv, OwnTurn
<1>6. OnlyTouches(i)
  BY <1>2 DEF OnlyTouches
<1>7. \A d \in Threads \ {t} : InTurn(d)' /\ (Running(d) => turn[d].id # i)
  <2> SUFFICES ASSUME NEW d \in Threads \ {t}
               PROVE  InTurn(d)' /\ (Running(d) => turn[d].id # i)
    OBVIOUS
  <2>1. Running(d) => turn[d].id # i
    BY DEF IInv, TypeInv, TypeOK, Running
  <2> QED
    BY <1>2, <1>6, <2>1, Aside DEF IInv
<1>8. \A kind : About(turn[t].id, kind)' = {}
  BY <1>2, <1>4, <1>5 DEF About
<1>9. InTurn(t)'
  <2>1. Trail(t)'
    BY <1>2, <1>4, <1>5 DEF Trail
  <2>2. Loop(t)'
    BY <1>2, <1>4, <1>5, AgentAssumption DEF Loop, Opening
  <2>3. Counts(t)'
    BY <1>2, <1>4, <1>8, FS_EmptySet DEF Counts, Opening, Deciding
  <2> QED
    BY <2>1, <2>2, <2>3 DEF InTurn
<1>10. \A d \in Threads : InTurn(d)'
  BY <1>7, <1>9
<1>11. OwnTurn'
  <2>1. \A d, u \in Threads : d # u /\ Running(d)' /\ Running(u)' => turn'[d].id # turn'[u].id
    BY <1>2, <1>4, <1>7 DEF IInv, OwnTurn, Running, Stays
  <2> QED
    BY <1>1, <1>2, <2>1 DEF IInv, OwnTurn, Running
<1>12. AuditTellsWhatRan'
  BY <1>2, QuietAudit DEF IInv
<1>13. CloseIsTrue'
  BY <1>2 DEF IInv, CloseIsTrue, About
<1> QED
  BY <1>10, <1>11, <1>12, <1>13 DEF IInv

\* Turns that end without a word, by an exception or with their process.
LEMMA StepEnds ==
  ASSUME IInv, TypeInv', UNCHANGED <<minted, log, history>>,
         \A t \in Threads : pc'[t] = "idle" \/ Stays(t)
  PROVE  IInv'
<1>1. Written' = Written /\ UNCHANGED <<chats, billed, approved, ran, remembered, minted>>
  BY DEF Written, history
<1>2. \A i, kind : About(i, kind)' = About(i, kind)
  BY <1>1 DEF About
<1>3. \A t \in Threads : InTurn(t)'
  <2> SUFFICES ASSUME NEW t \in Threads, Running(t)' PROVE Trail(t)' /\ Loop(t)' /\ Counts(t)'
    BY DEF InTurn
  <2>1. pc'[t] = pc[t] /\ turn'[t] = turn[t] /\ Trail(t) /\ Loop(t) /\ Counts(t)
    BY DEF Running, Stays, IInv, InTurn
  <2>2. Trail(t)'
    BY <1>1, <2>1 DEF Trail
  <2>3. Loop(t)'
    BY <1>1, <2>1 DEF Loop
  <2>4. \A kind : About(turn[t].id, kind)' = About(turn[t].id, kind)
    BY <1>1, <2>1 DEF About
  <2>5. Counts(t)'
    BY <1>1, <2>1, <2>4 DEF Counts
  <2> QED
    BY <2>2, <2>3, <2>5
<1>4. OwnTurn'
  BY <1>1 DEF IInv, OwnTurn, Running, Stays
<1>5. AuditTellsWhatRan' /\ CloseIsTrue'
  BY <1>1, <1>2, QuietAudit DEF IInv, CloseIsTrue, About
<1> QED
  BY <1>3, <1>4, <1>5 DEF IInv

LEMMA StepFail ==
  ASSUME IInv, TypeInv', NEW t \in Threads, Blocked(t) \/ Fail(t)
  PROVE  IInv'
<1>1. \A d \in Threads : pc'[d] = "idle" \/ Stays(d)
  BY DEF Blocked, Fail, Return, Stays, IInv, TypeInv, TypeOK
<1> QED
  BY <1>1, StepEnds DEF Blocked, Fail

LEMMA StepCrash ==
  ASSUME IInv, TypeInv', NEW c \in Clients, Crash(c)
  PROVE  IInv'
<1>1. \A d \in Threads : pc'[d] = "idle" \/ Stays(d)
  BY DEF Crash, Stays, IInv, TypeInv, TypeOK
<1> QED
  BY <1>1, StepEnds DEF Crash
-----------------------------------------------------------------------------
(* The invariant, and what follows from it                                  *)

LEMMA InitInvariant == Init => IInv
<1> SUFFICES ASSUME Init PROVE IInv
  OBVIOUS
<1>1. TypeInv
  BY InitTyped
<1>2. Written = {} /\ \A t \in Threads : ~Running(t)
  BY DEF Init, Written, Running
<1> QED
  BY <1>1, <1>2 DEF Init, IInv, OwnTurn, InTurn, AuditTellsWhatRan, CloseIsTrue

LEMMA InductiveInvariant == IInv /\ [Next]_vars => IInv'
<1> SUFFICES ASSUME IInv, [Next]_vars PROVE IInv'
  OBVIOUS
<1>1. TypeInv'
  BY NextTyped DEF IInv
<1>2. CASE UNCHANGED vars
  <2>1. \A t \in Threads : Stays(t)
    BY <1>2 DEF vars, Stays
  <2> QED
    BY <1>1, <1>2, <2>1, StepEnds DEF vars
<1>3. ASSUME NEW t \in Threads, Begin(t) PROVE IInv'
  BY <1>1, <1>3, StepBegin
<1>4. ASSUME NEW t \in Threads, Proceed(t) \/ Fail(t) PROVE IInv'
  BY <1>1, <1>4, StepExtract, StepOpen, StepStartCall, StepEndCall, StepReadUsage,
     StepAnnounce, StepAccept, StepReject, StepExecute, StepReport, StepSaveReply, StepClose,
     StepFail DEF Proceed
<1>5. ASSUME NEW c \in Clients, Crash(c) PROVE IInv'
  BY <1>1, <1>5, StepCrash
<1> QED
  BY <1>2, <1>3, <1>4, <1>5 DEF Next

LEMMA AlwaysIInv == Spec => []IInv
BY InitInvariant, InductiveInvariant, PTL DEF Spec

\* For any number of threads and whatever fails: a tool runs only after the user
\* said yes to that call and the audit line saying so was written.
THEOREM OnlyApprovedToolsRun == Spec => []AuditTellsWhatRan
<1>1. IInv => AuditTellsWhatRan
  BY DEF IInv
<1> QED
  BY <1>1, AlwaysIInv, PTL

\* For any number of threads and whatever fails: a closed trace counts the calls,
\* the tool calls and the rejections of its own turn, and its reply is saved.
THEOREM ClosedTracesAreTrue == Spec => []CloseIsTrue
<1>1. IInv => CloseIsTrue
  BY DEF IInv
<1> QED
  BY <1>1, AlwaysIInv, PTL

\* One step of a turn never asks the model beyond the cap, or after a rejection.
LEMMA CutStep ==
  ASSUME IInv, IInv', [Next]_vars, NEW i \in TurnIds, chats'[i] # chats[i]
  PROVE  chats'[i] <= MaxIters /\ About(i, "rejected") = {}
<1>1. PICK t \in Threads : StartCall(t)
  BY DEF Next, Proceed, vars, history, Begin, StartExtract, EndExtract, Open, EndCall, ReadUsage,
     Announce, Accept, Reject, Execute, Report, SaveReply, Close, Blocked, Fail, Crash
<1>2. /\ i = turn[t].id /\ chats'[i] = chats[i] + 1 /\ pc[t] = "call" /\ Running(t)
  BY <1>1 DEF StartCall, Go, Running, IInv, TypeInv, TypeOK
<1>3. Loop(t) /\ Counts(t)
  BY <1>2, InTurnFacts
<1>4. chats'[i] <= MaxIters
  BY <1>2, <1>3, AgentAssumption DEF Loop, Opening, IInv, TypeInv, TypeOK, Turns
<1>5. About(i, "rejected") = {}
  BY <1>2, <1>3, FS_EmptySet DEF Loop, Counts, Opening, Audits
<1> QED
  BY <1>4, <1>5

\* For any cap, batch size and answers: the model is asked at most MaxIters times
\* for a turn's answer, and never again once a tool call was rejected.
THEOREM LoopAlwaysCut == Spec => LoopIsCut
<1>1. IInv /\ IInv' /\ [Next]_vars =>
        [\A i \in TurnIds : chats'[i] # chats[i] =>
           /\ chats'[i] <= MaxIters
           /\ About(i, "rejected") = {}]_vars
  BY CutStep
<1> QED
  BY <1>1, AlwaysIInv, PTL DEF Spec, LoopIsCut

-----------------------------------------------------------------------------
(* Usage, where no two threads share a client                               *)

\* A usage that was not observed counts as nothing.
Count(u) == IF u = None THEN 0 ELSE u

\* What the provider counted for a turn under way, and told, is what its thread
\* has added up and, after an answer, what it is about to read from its client.
Usage(t) ==
  Running(t) =>
    /\ pc[t] = "calling" => lastUsage[ClientOf(t)] = None
    /\ turn[t].id \notin mute =>
         billed[turn[t].id] = Count(turn[t].usage)
         + (IF pc[t] = "usage" THEN Count(lastUsage[ClientOf(t)]) ELSE 0)

UsageInv == EachTurnCountsItsOwn /\ \A t \in Threads : Usage(t)

OneThreadEach == \A t, u \in Threads : ClientOf(t) = ClientOf(u) => t = u

\* The usage of a turn is left alone by a step that changes neither its locals
\* nor its count nor its client's last usage, and does not move it to another.
LEMMA UsageAside ==
  ASSUME NEW d \in Threads, Usage(d), Stays(d), Running(d) => billed'[turn[d].id] = billed[turn[d].id],
         lastUsage'[ClientOf(d)] = lastUsage[ClientOf(d)], mute \subseteq mute'
  PROVE  Usage(d)'
BY DEF Usage, Stays, Running

\* Closed traces keep their count: the turn that is charged is not closed.
LEMMA ClosedKeep ==
  ASSUME IInv, EachTurnCountsItsOwn, NEW t \in Threads, Running(t), mute \subseteq mute',
         \A j \in TurnIds \ {turn[t].id} : billed'[j] = billed[j],
         \A e \in Written' \ Written :
           e.kind = "close" /\ e.turn \notin mute' => Tokens(e) = billed'[e.turn]
  PROVE  EachTurnCountsItsOwn'
<1>1. \A e \in Written : e.kind = "close" => e.turn # turn[t].id /\ e.turn \in TurnIds
  BY DEF IInv, InTurn, Counts, About, OwnTurn, TypeInv, TypeOK
<1> QED
  BY <1>1 DEF EachTurnCountsItsOwn, Tokens

\* One step of a turn under way, given what it does to its own usage.
LEMMA UsageStep ==
  ASSUME OneThreadEach, IInv, UsageInv, NEW t \in Threads, Running(t),
         \A d \in Threads \ {t} : Stays(d),
         \A c \in Clients \ {ClientOf(t)} : lastUsage'[c] = lastUsage[c],
         \A j \in TurnIds \ {turn[t].id} : billed'[j] = billed[j], mute \subseteq mute',
         \A e \in Written' \ Written :
           e.kind = "close" /\ e.turn \notin mute' => Tokens(e) = billed'[e.turn],
         Usage(t)'
  PROVE  UsageInv'
<1>1. \A d \in Threads \ {t} : Usage(d)'
  <2> SUFFICES ASSUME NEW d \in Threads \ {t} PROVE Usage(d)'
    OBVIOUS
  <2>1. ClientOf(d) # ClientOf(t) /\ ClientOf(d) \in Clients
    BY DEF OneThreadEach, Clients
  <2>2. Running(d) => turn[d].id # turn[t].id /\ turn[d].id \in TurnIds
    BY DEF IInv, OwnTurn, TypeInv, TypeOK, Running
  <2> QED
    BY <2>1, <2>2, UsageAside DEF UsageInv
<1>2. EachTurnCountsItsOwn'
  BY ClosedKeep DEF UsageInv
<1>3. \A d \in Threads : Usage(d)'
  BY <1>1
<1> QED
  BY <1>2, <1>3 DEF UsageInv

\* Steps that read or charge no usage.
LEMMA UsageQuiet ==
  ASSUME OneThreadEach, IInv, UsageInv, NEW t \in Threads, Running(t),
         \A d \in Threads \ {t} : Stays(d),
         \A c \in Clients \ {ClientOf(t)} : lastUsage'[c] = lastUsage[c],
         UNCHANGED <<billed, mute>>, \A e \in Written' \ Written : e.kind # "close",
         turn'[t].id = turn[t].id, turn'[t].usage = turn[t].usage,
         pc[t] \notin {"calling", "usage"}, pc'[t] # "usage",
         pc'[t] = "calling" => lastUsage'[ClientOf(t)] = None
  PROVE  UsageInv'
<1>1. Usage(t)'
  BY DEF UsageInv, Usage, Running
<1> QED
  BY <1>1, UsageStep

LEMMA UsageNext ==
  ASSUME OneThreadEach, IInv, IInv', [Next]_vars, UsageInv
  PROVE  UsageInv'
<1> USE DEF Go, SetUsage, history
<1>1. /\ lastUsage \in [Clients -> Nat \cup {None}] /\ billed \in [TurnIds -> Nat]
      /\ pc \in [Threads -> Steps] /\ turn \in [Threads -> Turns]
      /\ \A t \in Threads : ClientOf(t) \in Clients
  BY DEF IInv, TypeInv, TypeOK, Clients
<1>2. CASE UNCHANGED vars
  BY <1>2 DEF vars, UsageInv, Usage, Running, EachTurnCountsItsOwn, Written, Tokens
<1>3. ASSUME NEW t \in Threads, Begin(t) PROVE UsageInv'
  <2>1. PICK i \in TurnIds \ minted : turn' = [turn EXCEPT ![t] = [NoTurn EXCEPT !.id = i]]
    BY <1>3 DEF Begin
  <2>2. turn'[t].id = i /\ turn'[t].usage = None /\ billed[i] = 0
    BY <1>1, <2>1 DEF NoTurn, IInv, OwnTurn
  <2>3. Usage(t)'
    BY <1>1, <1>3, <2>2 DEF Begin, Usage, Count
  <2>4. \A d \in Threads \ {t} : Usage(d)'
    BY <1>1, <1>3, UsageAside DEF Begin, Stays, UsageInv
  <2>5. EachTurnCountsItsOwn'
    BY <1>3 DEF Begin, UsageInv, EachTurnCountsItsOwn, Written, Tokens
  <2>6. \A d \in Threads : Usage(d)'
    BY <2>3, <2>4
  <2> QED
    BY <2>5, <2>6 DEF UsageInv
<1>4. ASSUME NEW t \in Threads, StartExtract(t) \/ EndExtract(t) PROVE UsageInv'
  BY <1>1, <1>4, UsageQuiet DEF StartExtract, EndExtract, Stays, Running, Written
<1>5. ASSUME NEW t \in Threads, Open(t) PROVE UsageInv'
  <2>1. \A e \in Written' \ Written : e.kind # "close"
    BY <1>5 DEF Open, Append1, Written, OpenLine
  <2> QED
    BY <1>1, <1>5, <2>1, UsageQuiet DEF Open, Stays, Running
<1>6. ASSUME NEW t \in Threads, StartCall(t) PROVE UsageInv'
  <2>1. turn'[t].id = turn[t].id /\ turn'[t].usage = turn[t].usage
    BY <1>1, <1>6 DEF StartCall, Turns
  <2> QED
    BY <1>1, <1>6, <2>1, UsageQuiet DEF StartCall, Stays, Running, Written
<1>7. ASSUME NEW t \in Threads, EndCall(t) PROVE UsageInv'
  <2>1. /\ turn'[t].id = turn[t].id /\ turn'[t].usage = turn[t].usage
        /\ turn[t].id \in TurnIds /\ turn[t].usage \in Nat \cup {None}
    BY <1>1, <1>7 DEF EndCall, Turns, IInv, TypeInv, TypeOK
  <2>2. turn[t].id \notin mute => billed[turn[t].id] = Count(turn[t].usage)
    <3>1. pc[t] = "calling" /\ Usage(t)
      BY <1>7 DEF EndCall, Go, UsageInv
    <3>2. Count(turn[t].usage) \in Nat
      BY <2>1, AgentAssumption DEF Count
    <3>3. turn[t].id \notin mute => billed[turn[t].id] = Count(turn[t].usage) + 0
      BY <3>1 DEF Usage, Running
    <3> QED
      BY <3>2, <3>3
  <2>3. turn[t].id \notin mute' =>
          /\ turn[t].id \notin mute
          /\ billed'[turn[t].id] = billed[turn[t].id] + Count(lastUsage'[ClientOf(t)])
    <3> SUFFICES ASSUME turn[t].id \notin mute'
                 PROVE  /\ turn[t].id \notin mute
                        /\ billed'[turn[t].id] = billed[turn[t].id] + Count(lastUsage'[ClientOf(t)])
      OBVIOUS
    <3>1. PICK u \in Spends : /\ billed' = [billed EXCEPT ![turn[t].id] = @ + u]
                              /\ lastUsage' = [lastUsage EXCEPT ![ClientOf(t)] = u]
                              /\ mute' = mute
      BY <1>7 DEF EndCall
    <3> QED
      BY <1>1, <2>1, <3>1, AgentAssumption DEF Count
  <2>4. pc'[t] = "usage" /\ Running(t)
    BY <1>1, <1>7 DEF EndCall, Running
  <2>5. Usage(t)'
    BY <2>1, <2>2, <2>3, <2>4 DEF Usage
  <2>6. /\ \A d \in Threads \ {t} : Stays(d)
        /\ \A c \in Clients \ {ClientOf(t)} : lastUsage'[c] = lastUsage[c]
        /\ \A j \in TurnIds \ {turn[t].id} : billed'[j] = billed[j]
        /\ Written' = Written /\ mute \subseteq mute'
    BY <1>1, <1>7 DEF EndCall, Stays, Written
  <2> QED
    BY <2>4, <2>5, <2>6, UsageStep
<1>8. ASSUME NEW t \in Threads, ReadUsage(t) PROVE UsageInv'
  <2> DEFINE u == Accumulate(turn[t].usage, lastUsage[ClientOf(t)])
  <2>1. /\ turn'[t].id = turn[t].id /\ turn'[t].usage = u
        /\ turn[t].usage \in Nat \cup {None} /\ lastUsage[ClientOf(t)] \in Nat \cup {None}
    BY <1>1, <1>8 DEF ReadUsage, Turns
  <2>2. turn[t].id \notin mute =>
          billed[turn[t].id] = Count(turn[t].usage) + Count(lastUsage[ClientOf(t)])
    BY <1>8 DEF ReadUsage, UsageInv, Usage, Running
  <2>3. Count(u) = Count(turn[t].usage) + Count(lastUsage[ClientOf(t)])
    BY <2>1, AgentAssumption DEF Accumulate, Count
  <2>4. pc'[t] \in {"save", "tool"} /\ Running(t) /\ UNCHANGED <<billed, mute>>
    BY <1>1, <1>8 DEF ReadUsage, Running
  <2>5. Count(u) \in Nat
    BY <2>1, AgentAssumption DEF Accumulate, Count
  <2>6. Usage(t)'
    BY <2>1, <2>2, <2>3, <2>4, <2>5 DEF Usage
  <2>7. /\ \A d \in Threads \ {t} : Stays(d)
        /\ UNCHANGED lastUsage /\ Written' = Written
    BY <1>1, <1>8 DEF ReadUsage, Stays, Written
  <2> QED
    BY <2>4, <2>6, <2>7, UsageStep
<1>9. ASSUME NEW t \in Threads, Announce(t) PROVE UsageInv'
  <2>1. \A e \in Written' \ Written : e.kind # "close"
    BY <1>9 DEF Announce, Append1, Written, AuditLine
  <2>2. turn'[t].id = turn[t].id /\ turn'[t].usage = turn[t].usage
    BY <1>1, <1>9 DEF Announce, Turns
  <2> QED
    BY <1>1, <1>9, <2>1, <2>2, UsageQuiet DEF Announce, Stays, Running
<1>10. ASSUME NEW t \in Threads, Accept(t) \/ Report(t) PROVE UsageInv'
  <2>1. \A e \in Written' \ Written : e.kind # "close"
    BY <1>10 DEF Accept, Report, Append1, Written, AuditLine
  <2> QED
    BY <1>1, <1>10, <2>1, UsageQuiet DEF Accept, Report, AfterCall, Stays, Running
<1>11. ASSUME NEW t \in Threads, Reject(t) PROVE UsageInv'
  <2>1. \A e \in Written' \ Written : e.kind # "close"
    BY <1>11 DEF Reject, Append1, Written, AuditLine
  <2>2. turn'[t].id = turn[t].id /\ turn'[t].usage = turn[t].usage
    BY <1>1, <1>11 DEF Reject, Turns
  <2> QED
    BY <1>1, <1>11, <2>1, <2>2, UsageQuiet DEF Reject, AfterCall, Stays, Running
<1>12. ASSUME NEW t \in Threads, Execute(t) \/ SaveReply(t) PROVE UsageInv'
  BY <1>1, <1>12, UsageQuiet DEF Execute, SaveReply, Stays, Running, Written
<1>13. ASSUME NEW t \in Threads, Close(t) PROVE UsageInv'
  <2>1. PICK l : l = CloseLine(t)
    OBVIOUS
  <2>2. /\ Written' \ Written \subseteq {l} /\ Tokens(l) = Count(turn[t].usage)
        /\ l.turn = turn[t].id
    BY <1>13, <2>1 DEF Close, Append1, Written, CloseLine, Tokens, Count
  <2>3. Running(t) /\ (turn[t].id \notin mute => Tokens(l) = billed[turn[t].id])
    <3>1. Count(turn[t].usage) \in Nat
      BY <1>1 DEF Turns, Count
    <3> QED
      BY <1>13, <2>2, <3>1 DEF Close, UsageInv, Usage, Running
  <2>4. /\ \A d \in Threads \ {t} : Stays(d)
        /\ UNCHANGED <<lastUsage, billed, mute>> /\ pc'[t] = "idle"
    BY <1>1, <1>13 DEF Close, Return, Stays
  <2>5. \A e \in Written' \ Written :
          e.kind = "close" /\ e.turn \notin mute' => Tokens(e) = billed'[e.turn]
    BY <2>2, <2>3, <2>4
  <2>6. Usage(t)'
    BY <2>4 DEF Usage, Running
  <2> QED
    BY <2>3, <2>4, <2>5, <2>6, UsageStep
<1>14. ASSUME NEW t \in Threads, Blocked(t) \/ Fail(t) PROVE UsageInv'
  <2>1. Running(t) /\ pc'[t] = "idle"
    BY <1>1, <1>14 DEF Blocked, Fail, Return, Running
  <2>2. Usage(t)'
    BY <2>1 DEF Usage, Running
  <2> QED
    BY <1>1, <1>14, <2>1, <2>2, UsageStep DEF Blocked, Fail, Return, Stays, Written
<1>15. ASSUME NEW c \in Clients, Crash(c) PROVE UsageInv'
  <2>1. \A t \in Threads : Usage(t)'
    <3> SUFFICES ASSUME NEW t \in Threads, Running(t)' PROVE Usage(t)'
      BY DEF Usage
    <3>1. ClientOf(t) # c /\ Stays(t) /\ lastUsage'[ClientOf(t)] = lastUsage[ClientOf(t)]
      BY <1>1, <1>15 DEF Crash, Stays, Running
    <3> QED
      BY <1>15, <3>1, UsageAside DEF Crash, UsageInv
  <2>2. EachTurnCountsItsOwn'
    BY <1>15 DEF Crash, UsageInv, EachTurnCountsItsOwn, Written, Tokens
  <2> QED
    BY <2>1, <2>2 DEF UsageInv
<1> QED
  BY <1>2, <1>3, <1>4, <1>5, <1>6, <1>7, <1>8, <1>9, <1>10, <1>11, <1>12, <1>13, <1>14, <1>15
     DEF Next, Proceed

\* Where no two threads share an LLM client (REPLs, or a server that answers one
\* request at a time), a closed trace reports exactly what the provider counted
\* for the calls of that turn, if it told, for any numbers, faults and
\* interleavings.
THEOREM UsageIsAttributed ==
  ASSUME OneThreadEach
  PROVE  Spec => []EachTurnCountsItsOwn
<1>1. Init => UsageInv
  BY DEF Init, UsageInv, Usage, EachTurnCountsItsOwn, Written, Running
<1>2. IInv /\ IInv' /\ [Next]_vars /\ UsageInv => UsageInv'
  BY UsageNext
<1>3. UsageInv => EachTurnCountsItsOwn
  BY DEF UsageInv
<1> QED
  BY <1>1, <1>2, <1>3, AlwaysIInv, PTL DEF Spec

-----------------------------------------------------------------------------
(* What the wall is worth                                                   *)

Cap(t) == (IF t \in Repls THEN MaxIters ELSE 1) * Largest
Caps == [t \in Threads |-> Cap(t)]

\* Threads that have passed the wall in their turn.
Flying == {t \in Threads : Running(t) /\ turn[t].iters > 0}

Beyond == {"calling", "usage", "tool", "save", "close"} \cup Deciding

\* The calls whose usage the turn has read.
Heard(t) == IF pc[t] \in {"calling", "usage"} THEN turn[t].iters - 1 ELSE turn[t].iters

\* A turn without tools asks the model once; the usage a turn has added up is
\* that of the calls it made.
Paced(t) ==
  /\ pc[t] \in Beyond => turn[t].iters > 0
  /\ t \notin Repls =>
       /\ turn[t].iters <= 1
       /\ pc[t] \in Opening \cup {"call"} => turn[t].iters = 0
       /\ pc[t] \notin {"tool"} \cup Deciding
       /\ pc[t] = "usage" => turn[t].todo = 0
  /\ Count(turn[t].usage) <= Heard(t) * Largest

\* A call costs no more than the largest answer, and is charged once.
Charged(i) == chats[i] <= MaxIters /\ billed[i] <= chats[i] * Largest
Pending(t) ==
  pc[t] = "calling" => LET i == turn[t].id IN
    chats[i] > 0 /\ billed[i] <= (chats[i] - 1) * Largest

\* While the budget lasts nothing is owed; afterwards what is in the log and what
\* the turns past the wall may still add stay below what they could at first.
WallStands ==
  Budget > 0 =>
    \/ Counted < Budget
    \/ Counted + SumFunctionOnSet(Caps, Flying) < Budget + SumFunctionOnSet(Caps, Threads)

SpendInv ==
  /\ \A c \in Clients : lastUsage[c] \in Spends \cup {0, None}
  /\ \A t \in Threads : Running(t) => Paced(t) /\ Pending(t)
  /\ \A i \in TurnIds : Charged(i)
  /\ IsFiniteSet(log)
  /\ WallStands

LEMMA LargestIs == Largest \in Nat /\ Largest \in Spends /\ \A u \in Spends : u <= Largest
BY AgentAssumption DEF Largest

LEMMA UsageCapped ==
  ASSUME IInv, [Next]_vars, \A c \in Clients : lastUsage[c] \in Spends \cup {0, None}
  PROVE  \A c \in Clients : lastUsage'[c] \in Spends \cup {0, None}
<1>1. lastUsage \in [Clients -> Nat \cup {None}]
  BY DEF IInv, TypeInv, TypeOK
<1>2. \/ UNCHANGED lastUsage
      \/ \E c \in Clients : lastUsage' = [lastUsage EXCEPT ![c] = None]
      \/ \E t \in Threads, u \in Spends \cup {0, None} : SetUsage(t, u)
  <2>1. ASSUME NEW c \in Clients, Crash(c) PROVE lastUsage' = [lastUsage EXCEPT ![c] = None]
    BY <2>1 DEF Crash
  <2>2. ASSUME NEW t \in Threads, StartExtract(t) \/ EndExtract(t) \/ StartCall(t) \/ EndCall(t)
        PROVE  UNCHANGED lastUsage \/ \E u \in Spends \cup {0, None} : SetUsage(t, u)
    BY <2>2 DEF StartExtract, EndExtract, StartCall, EndCall
  <2>3. ASSUME NEW t \in Threads,
               \/ Begin(t) \/ Open(t) \/ ReadUsage(t) \/ Announce(t) \/ Accept(t) \/ Reject(t)
               \/ Execute(t) \/ Report(t) \/ SaveReply(t) \/ Close(t) \/ Blocked(t) \/ Fail(t)
        PROVE  UNCHANGED lastUsage
    BY <2>3 DEF Begin, Open, ReadUsage, Announce, Accept, Reject, Execute, Report, SaveReply,
       Close, Blocked, Fail
  <2>4. CASE UNCHANGED vars
    BY <2>4 DEF vars
  <2> QED
    BY <2>1, <2>2, <2>3, <2>4 DEF Next, Proceed
<1> QED
  BY <1>1, <1>2 DEF SetUsage

\* The pace of a turn is not disturbed by the others.
LEMMA PaceAside ==
  ASSUME NEW d \in Threads, Paced(d), Stays(d)
  PROVE  Paced(d)'
BY DEF Paced, Stays, Heard

\* Nor by a step of its own that asks the model nothing, and does not come to it.
LEMMA PaceQuiet ==
  ASSUME NEW d \in Threads, Paced(d), turn'[d].iters = turn[d].iters,
         turn'[d].usage = turn[d].usage, pc[d] \notin {"calling", "usage"},
         \/ pc[d] \in Opening /\ pc'[d] \in Opening \cup {"call"}
         \/ pc[d] \in Beyond /\ d \in Repls /\ pc'[d] \in {"call", "tool", "save", "close"} \cup Deciding
         \/ pc[d] \in Beyond /\ pc'[d] \in {"save", "close"}
  PROVE  Paced(d)'
BY DEF Paced, Heard, Opening, Beyond, Deciding

LEMMA PaceNext ==
  ASSUME IInv, IInv', [Next]_vars, \A c \in Clients : lastUsage[c] \in Spends \cup {0, None},
         \A t \in Threads : Running(t) => Paced(t)
  PROVE  \A t \in Threads : Running(t)' => Paced(t)'
<1> USE DEF Go, SetUsage, history
<1>1. /\ pc \in [Threads -> Steps] /\ turn \in [Threads -> Turns]
      /\ \A t \in Threads : ClientOf(t) \in Clients
  BY DEF IInv, TypeInv, TypeOK, Clients
<1>2. ASSUME NEW t \in Threads, \A d \in Threads \ {t} : Stays(d), Running(t)' => Paced(t)'
      PROVE  \A d \in Threads : Running(d)' => Paced(d)'
  BY <1>2, PaceAside DEF Running, Stays
<1>3. CASE UNCHANGED vars
  BY <1>3, PaceAside DEF vars, Stays, Running
<1>4. ASSUME NEW t \in Threads, Begin(t) PROVE \A d \in Threads : Running(d)' => Paced(d)'
  <2>1. PICK i \in TurnIds \ minted : turn' = [turn EXCEPT ![t] = [NoTurn EXCEPT !.id = i]]
    BY <1>4 DEF Begin
  <2>2. turn'[t].iters = 0 /\ turn'[t].usage = None /\ pc'[t] = "extract"
    BY <1>1, <1>4, <2>1 DEF NoTurn, Begin
  <2>3. Paced(t)'
    BY <2>2, LargestIs DEF Paced, Count, Heard, Opening, Beyond, Deciding
  <2>4. \A d \in Threads \ {t} : Stays(d)
    BY <1>1, <1>4, <2>1 DEF Begin, Stays
  <2> QED
    BY <1>2, <2>3, <2>4
<1>5. ASSUME NEW t \in Threads, StartExtract(t) \/ EndExtract(t) \/ Open(t)
      PROVE  \A d \in Threads : Running(d)' => Paced(d)'
  <2>1. /\ pc[t] \in Opening /\ pc'[t] \in Opening \cup {"call"} /\ Running(t)
        /\ turn' = turn /\ \A d \in Threads \ {t} : Stays(d)
    BY <1>1, <1>5 DEF StartExtract, EndExtract, Open, Opening, Running, Stays
  <2>2. Paced(t)'
    BY <2>1, PaceQuiet DEF Opening
  <2> QED
    BY <1>2, <2>1, <2>2
<1>6. ASSUME NEW t \in Threads, StartCall(t) PROVE \A d \in Threads : Running(d)' => Paced(d)'
  <2>1. /\ pc[t] = "call" /\ pc'[t] = "calling" /\ Running(t)
        /\ turn'[t].iters = turn[t].iters + 1 /\ turn'[t].usage = turn[t].usage
        /\ turn[t].iters \in Nat /\ \A d \in Threads \ {t} : Stays(d)
    BY <1>1, <1>6 DEF StartCall, Running, Stays, Turns
  <2>2. Paced(t)
    BY <2>1
  <2>3. Paced(t)'
    BY <2>1, <2>2 DEF Paced, Heard, Opening, Beyond, Deciding
  <2> QED
    BY <1>2, <2>1, <2>3
<1>7. ASSUME NEW t \in Threads, EndCall(t) PROVE \A d \in Threads : Running(d)' => Paced(d)'
  <2>1. PICK n \in IF t \in Repls THEN 0..MaxBatch ELSE {0} :
          turn' = [turn EXCEPT ![t] = [@ EXCEPT !.todo = n]]
    BY <1>7 DEF EndCall
  <2>2. /\ pc[t] = "calling" /\ pc'[t] = "usage" /\ Running(t)
        /\ turn'[t].iters = turn[t].iters /\ turn'[t].usage = turn[t].usage
        /\ turn'[t].todo = n /\ \A d \in Threads \ {t} : Stays(d)
    BY <1>1, <1>7, <2>1 DEF EndCall, Running, Stays, Turns
  <2>3. Paced(t)
    BY <2>2
  <2>4. Paced(t)'
    BY <2>2, <2>3 DEF Paced, Heard, Opening, Beyond, Deciding
  <2> QED
    BY <1>2, <2>2, <2>4
<1>8. ASSUME NEW t \in Threads, ReadUsage(t) PROVE \A d \in Threads : Running(d)' => Paced(d)'
  <2> DEFINE last == lastUsage[ClientOf(t)]
             u == Accumulate(turn[t].usage, last)
  <2>1. /\ pc[t] = "usage" /\ pc'[t] = (IF turn[t].todo = 0 THEN "save" ELSE "tool") /\ Running(t)
        /\ turn'[t].iters = turn[t].iters /\ turn'[t].usage = u
        /\ turn[t].iters \in Nat /\ turn[t].usage \in Nat \cup {None}
        /\ \A d \in Threads \ {t} : Stays(d)
    BY <1>1, <1>8 DEF ReadUsage, Running, Stays, Turns
  <2>2. Paced(t) /\ last \in Spends \cup {0, None}
    BY <1>1, <2>1
  <2>3. /\ Count(last) <= Largest /\ Count(last) \in Nat /\ Count(turn[t].usage) \in Nat
        /\ Count(u) = Count(turn[t].usage) + Count(last)
    <3>1. None \notin Nat /\ Largest \in Nat
      BY AgentAssumption, LargestIs
    <3>2. last = None \/ (last \in Nat /\ last <= Largest)
      <4>1. CASE last \in Spends
        BY <4>1, LargestIs, AgentAssumption
      <4>2. CASE last = 0
        BY <4>2, <3>1
      <4> QED
        BY <2>2, <4>1, <4>2
    <3> HIDE DEF last
    <3> QED
      BY <2>1, <3>1, <3>2 DEF Count, Accumulate
  <2>4. turn[t].iters > 0 /\ Count(turn[t].usage) <= (turn[t].iters - 1) * Largest
    BY <2>1, <2>2 DEF Paced, Heard, Beyond
  <2>5. /\ (turn[t].iters - 1) * Largest \in Nat
        /\ turn[t].iters * Largest = (turn[t].iters - 1) * Largest + Largest
    BY <2>1, <2>4, LargestIs, Multiples
  <2> HIDE DEF u, last
  <2>6. Count(u) <= turn[t].iters * Largest
    BY <2>3, <2>4, <2>5, LargestIs
  <2>7. Paced(t)'
    BY <2>1, <2>2, <2>6 DEF Paced, Heard, Opening, Beyond, Deciding
  <2> QED
    BY <1>2, <2>1, <2>7
<1>9. ASSUME NEW t \in Threads,
             Announce(t) \/ Accept(t) \/ Reject(t) \/ Execute(t) \/ Report(t) \/ SaveReply(t)
      PROVE  \A d \in Threads : Running(d)' => Paced(d)'
  <2>1. /\ pc[t] \in {"tool", "save"} \cup Deciding /\ Running(t)
        /\ pc'[t] \in {"call", "tool", "save", "close"} \cup Deciding
        /\ pc[t] = "save" => pc'[t] = "close"
        /\ \A d \in Threads \ {t} : pc'[d] = pc[d]
    BY <1>1, <1>9 DEF Announce, Accept, Reject, Execute, Report, SaveReply, Deciding, AfterCall, Running
  <2>2. /\ turn'[t].iters = turn[t].iters /\ turn'[t].usage = turn[t].usage
        /\ \A d \in Threads \ {t} : turn'[d] = turn[d]
    BY <1>1, <1>9 DEF Announce, Accept, Reject, Execute, Report, SaveReply, Turns
  <2>3. Paced(t)
    BY <2>1
  <2>4. t \in Repls \/ pc[t] = "save"
    BY <2>1, <2>3 DEF Paced
  <2>5. pc[t] \in Beyond
    BY <2>1 DEF Beyond
  <2>6. Paced(t)'
    BY <2>1, <2>2, <2>3, <2>4, <2>5, PaceQuiet DEF Deciding
  <2> QED
    BY <1>2, <2>1, <2>2, <2>6 DEF Stays
<1>10. ASSUME NEW t \in Threads, Close(t) \/ Blocked(t) \/ Fail(t)
       PROVE  \A d \in Threads : Running(d)' => Paced(d)'
  BY <1>1, <1>2, <1>10 DEF Close, Blocked, Fail, Return, Stays, Running
<1>11. ASSUME NEW c \in Clients, Crash(c) PROVE \A d \in Threads : Running(d)' => Paced(d)'
  BY <1>11, PaceAside DEF Crash, Stays, Running
<1> QED
  BY <1>3, <1>4, <1>5, <1>6, <1>7, <1>8, <1>9, <1>10, <1>11 DEF Next, Proceed

LEMMA ChargeNext ==
  ASSUME IInv, IInv', [Next]_vars,
         \A i \in TurnIds : Charged(i), \A t \in Threads : Running(t) => Pending(t)
  PROVE  (\A i \in TurnIds : Charged(i)') /\ (\A t \in Threads : Running(t)' => Pending(t)')
<1> USE DEF Go, SetUsage, history
<1>1. /\ pc \in [Threads -> Steps] /\ turn \in [Threads -> Turns]
      /\ chats \in [TurnIds -> Nat] /\ billed \in [TurnIds -> Nat]
  BY DEF IInv, TypeInv, TypeOK
<1>2. \A t \in Threads : Running(t) => turn[t].id \in TurnIds
  BY InTurnFacts
<1>3. \A t, d \in Threads : t # d /\ Running(t) /\ Running(d) => turn[t].id # turn[d].id
  BY DEF IInv, OwnTurn
<1>4. ASSUME NEW t \in Threads, StartCall(t)
      PROVE  (\A i \in TurnIds : Charged(i)') /\ (\A d \in Threads : Running(d)' => Pending(d)')
  <2> DEFINE i == turn[t].id
  <2>1. /\ i \in TurnIds /\ chats' = [chats EXCEPT ![i] = chats[i] + 1] /\ billed' = billed
        /\ turn'[t].id = i /\ pc'[t] = "calling" /\ Running(t)
        /\ \A d \in Threads \ {t} : Stays(d)
    BY <1>1, <1>2, <1>4 DEF StartCall, Turns, Stays, Running
  <2> HIDE DEF i
  <2>2. chats[i] \in Nat /\ billed[i] \in Nat /\ billed[i] <= chats[i] * Largest
    BY <1>1, <2>1 DEF Charged
  <2>3. chats'[i] <= MaxIters /\ chats'[i] = chats[i] + 1
    BY <1>1, <2>1, <2>2, CutStep
  <2>4. /\ chats'[i] * Largest = chats[i] * Largest + Largest /\ chats[i] * Largest \in Nat
        /\ chats'[i] - 1 = chats[i]
    BY <2>2, <2>3, LargestIs, Multiples
  <2>5. billed'[i] <= chats'[i] * Largest
    BY <2>1, <2>2, <2>4, LargestIs
  <2>6. \A j \in TurnIds : Charged(j)'
    BY <1>1, <2>1, <2>3, <2>5 DEF Charged
  <2>7. Pending(t)'
    BY <2>1, <2>2, <2>3, <2>4 DEF Pending
  <2>8. ASSUME NEW d \in Threads \ {t}, Running(d)' PROVE Pending(d)'
    <3>1. Running(d) /\ Stays(d) /\ turn[d].id # i /\ turn[d].id \in TurnIds
      BY <1>2, <1>3, <2>1, <2>8 DEF Running, Stays, i
    <3> QED
      BY <1>1, <2>1, <3>1 DEF Pending, Stays
  <2> QED
    BY <2>6, <2>7, <2>8
<1>5. ASSUME NEW t \in Threads, EndCall(t)
      PROVE  (\A i \in TurnIds : Charged(i)') /\ (\A d \in Threads : Running(d)' => Pending(d)')
  <2> DEFINE i == turn[t].id
  <2>1. /\ i \in TurnIds /\ chats' = chats /\ pc[t] = "calling" /\ pc'[t] = "usage" /\ Running(t)
        /\ \A d \in Threads \ {t} : Stays(d)
    BY <1>1, <1>2, <1>5 DEF EndCall, Stays, Running
  <2>2. PICK u \in Spends : billed' = [billed EXCEPT ![i] = billed[i] + u]
    BY <1>5 DEF EndCall
  <2>3. u \in Nat /\ u <= Largest
    BY LargestIs, AgentAssumption
  <2>4. chats[i] > 0 /\ billed[i] <= (chats[i] - 1) * Largest
    BY <2>1 DEF Pending
  <2> HIDE DEF i
  <2>5. chats[i] * Largest = (chats[i] - 1) * Largest + Largest /\ (chats[i] - 1) * Largest \in Nat
    BY <1>1, <2>1, <2>4, LargestIs, Multiples
  <2>6. billed'[i] <= chats'[i] * Largest
    BY <1>1, <2>1, <2>2, <2>3, <2>4, <2>5, LargestIs
  <2>7. \A j \in TurnIds : Charged(j)'
    BY <1>1, <2>1, <2>2, <2>6 DEF Charged
  <2>8. ASSUME NEW d \in Threads \ {t}, Running(d)' PROVE Pending(d)'
    <3>1. Running(d) /\ Stays(d) /\ turn[d].id # i /\ turn[d].id \in TurnIds
      BY <1>2, <1>3, <2>1, <2>8 DEF Running, Stays, i
    <3> QED
      BY <1>1, <2>1, <2>2, <3>1 DEF Pending, Stays
  <2>9. Pending(t)'
    BY <2>1 DEF Pending
  <2> QED
    BY <2>7, <2>8, <2>9
<1>6. ASSUME UNCHANGED <<chats, billed>>,
             \A d \in Threads : pc'[d] = "calling" => pc[d] = "calling" /\ turn'[d].id = turn[d].id
      PROVE  (\A i \in TurnIds : Charged(i)') /\ (\A d \in Threads : Running(d)' => Pending(d)')
  BY <1>6 DEF Charged, Pending, Running
<1>7. ASSUME NEW t \in Threads,
             \/ Begin(t) \/ StartExtract(t) \/ EndExtract(t) \/ Open(t) \/ ReadUsage(t) \/ Announce(t)
             \/ Accept(t) \/ Reject(t) \/ Execute(t) \/ Report(t) \/ SaveReply(t) \/ Close(t)
             \/ Blocked(t) \/ Fail(t)
      PROVE  (\A i \in TurnIds : Charged(i)') /\ (\A d \in Threads : Running(d)' => Pending(d)')
  <2>1. UNCHANGED <<chats, billed>> /\ \A d \in Threads \ {t} : Stays(d)
    BY <1>1, <1>7 DEF Begin, StartExtract, EndExtract, Open, ReadUsage, Announce, Accept, Reject,
       Execute, Report, SaveReply, Close, Blocked, Fail, Return, Stays
  <2>2. pc'[t] # "calling"
    BY <1>1, <1>7 DEF Begin, StartExtract, EndExtract, Open, ReadUsage, Announce, Accept, Reject,
       Execute, Report, SaveReply, Close, Blocked, Fail, Return, AfterCall
  <2> QED
    BY <1>6, <2>1, <2>2 DEF Stays
<1>8. CASE UNCHANGED vars
  BY <1>6, <1>8 DEF vars
<1>9. ASSUME NEW c \in Clients, Crash(c)
      PROVE  (\A i \in TurnIds : Charged(i)') /\ (\A d \in Threads : Running(d)' => Pending(d)')
  BY <1>6, <1>9 DEF Crash
<1> QED
  BY <1>4, <1>5, <1>7, <1>8, <1>9 DEF Next, Proceed

\* The tokens of the close lines among L.
TokensIn(L) == SumFunction([e \in {l \in L : l.kind = "close"} |-> Tokens(e)])

LEMMA TokensAreNat ==
  ASSUME NEW L \in SUBSET Lines, IsFiniteSet(L)
  PROVE  /\ TokensIn(L) \in Nat /\ IsFiniteSet({l \in L : l.kind = "close"})
         /\ \A e \in {l \in L : l.kind = "close"} : Tokens(e) \in Nat
<1> DEFINE C == {l \in L : l.kind = "close"}
           f == [e \in C |-> Tokens(e)]
<1>1. IsFiniteSet(C)
  BY FS_Subset
<1>2. \A e \in C : Tokens(e) \in Nat
  BY DEF Lines, Tokens, Audits
<1>3. TokensIn(L) = SumFunctionOnSet(f, C)
  BY DEF TokensIn, SumFunction
<1>4. \A e \in C : f[e] \in Nat
  BY <1>2
<1> HIDE DEF f, C
<1>5. SumFunctionOnSet(f, C) \in Nat
  BY <1>1, <1>4, SumElement
<1> QED
  BY <1>1, <1>2, <1>3, <1>5 DEF C

\* A line counts for its tokens if it closes a trace, and for nothing otherwise.
LEMMA TokensGrow ==
  ASSUME NEW L \in SUBSET Lines, IsFiniteSet(L), NEW l \in Lines
  PROVE  /\ l.kind # "close" => TokensIn(L \cup {l}) = TokensIn(L)
         /\ l.kind = "close" /\ l \notin L => TokensIn(L \cup {l}) = TokensIn(L) + Tokens(l)
<1> DEFINE C == {e \in L : e.kind = "close"}
           D == {e \in L \cup {l} : e.kind = "close"}
           f == [e \in C |-> Tokens(e)]
           g == [e \in D |-> Tokens(e)]
<1>1. CASE l.kind # "close"
  <2>1. D = C
    BY <1>1
  <2> QED
    BY <1>1, <2>1 DEF TokensIn
<1>2. CASE l.kind = "close" /\ l \notin L
  <2>1. D = C \cup {l} /\ l \notin C /\ l \in D /\ D \ {l} = C
    BY <1>2
  <2>2. IsFiniteSet(L \cup {l}) /\ L \cup {l} \in SUBSET Lines
    BY FS_AddElement
  <2>3. IsFiniteSet(D) /\ \A e \in D : Tokens(e) \in Nat
    BY <2>2, TokensAreNat
  <2>4. \A e \in D : g[e] \in Nat
    BY <2>3
  <2>5. \A e \in C : g[e] \in Nat /\ g[e] = f[e]
    BY <2>1, <2>4
  <2>6. g[l] = Tokens(l)
    BY <2>1
  <2>7. TokensIn(L) = SumFunctionOnSet(f, C) /\ TokensIn(L \cup {l}) = SumFunctionOnSet(g, D)
    BY DEF TokensIn, SumFunction
  <2>8. IsFiniteSet(C)
    BY TokensAreNat
  <2> HIDE DEF C, D, f, g
  <2>9. SumFunctionOnSet(g, D) = g[l] + SumFunctionOnSet(g, D \ {l})
    BY <2>1, <2>3, <2>4, SumElement
  <2>10. SumFunctionOnSet(g, C) = SumFunctionOnSet(f, C)
    BY <2>5, <2>8, SumSame
  <2>11. TokensIn(L) \in Nat /\ Tokens(l) \in Nat
    BY <2>1, <2>3, TokensAreNat
  <2>12. TokensIn(L \cup {l}) = Tokens(l) + TokensIn(L)
    BY <2>1, <2>6, <2>7, <2>9, <2>10
  <2> QED
    BY <1>2, <2>11, <2>12
<1> QED
  BY <1>1, <1>2

LEMMA CapsAre ==
  /\ IsFiniteSet(Threads)
  /\ \A t \in Threads : Caps[t] \in Nat /\ Caps[t] = Cap(t)
  /\ \A S \in SUBSET Threads : IsFiniteSet(S) /\ SumFunctionOnSet(Caps, S) \in Nat
<1>1. IsFiniteSet(Threads)
  BY AgentAssumption
<1>2. \A t \in Threads : Cap(t) \in Nat
  BY LargestIs, AgentAssumption, Multiples DEF Cap
<1>3. \A t \in Threads : Caps[t] \in Nat /\ Caps[t] = Cap(t)
  BY <1>2 DEF Caps
<1>4. ASSUME NEW S \in SUBSET Threads
      PROVE  IsFiniteSet(S) /\ SumFunctionOnSet(Caps, S) \in Nat
  <2>1. IsFiniteSet(S)
    BY <1>1, FS_Subset
  <2>2. \A t \in S : Caps[t] \in Nat
    BY <1>3
  <2> QED
    BY <2>1, <2>2, SumElement
<1> QED
  BY <1>1, <1>3, <1>4

\* The caps of fewer threads are no more.
LEMMA CapsShrink ==
  ASSUME NEW S \in SUBSET Threads, NEW T \in SUBSET S
  PROVE  SumFunctionOnSet(Caps, T) <= SumFunctionOnSet(Caps, S)
<1> DEFINE h == [t \in T |-> t]
<1>1. h \in Injection(T, S)
  BY DEF Injection, IsInjective
<1>2. IsFiniteSet(S)
  BY CapsAre
<1>3. \A t \in T : Caps[t] \in Nat /\ Caps[t] <= Caps[h[t]]
  BY CapsAre
<1>4. \A t \in S : Caps[t] \in Nat
  BY CapsAre
<1> HIDE DEF h
<1> QED
  BY <1>1, <1>2, <1>3, <1>4, SumAtMost

\* A step that closes no trace and sends no further thread past the wall.
LEMMA WallQuiet ==
  ASSUME WallStands, Counted \in Nat, Counted' = Counted, Flying' \subseteq Flying
  PROVE  WallStands'
<1>1. Flying \in SUBSET Threads
  BY DEF Flying
<1>2. SumFunctionOnSet(Caps, Flying') <= SumFunctionOnSet(Caps, Flying)
  BY <1>1, CapsShrink
<1>3. SumFunctionOnSet(Caps, Flying') \in Nat /\ SumFunctionOnSet(Caps, Flying) \in Nat
      /\ SumFunctionOnSet(Caps, Threads) \in Nat /\ Budget \in Nat
  BY <1>1, CapsAre, AgentAssumption
<1>4. SumFunctionOnSet(Caps, Flying)' = SumFunctionOnSet(Caps, Flying')
  BY DEF Caps, Cap
<1>5. SumFunctionOnSet(Caps, Threads)' = SumFunctionOnSet(Caps, Threads)
  BY DEF Caps, Cap
<1> QED
  BY <1>2, <1>3, <1>4, <1>5 DEF WallStands

\* A thread that closes its trace adds no more than its cap, and is not past the
\* wall any more.
LEMMA WallClose ==
  ASSUME WallStands, Counted \in Nat, NEW t \in Flying, NEW n \in Nat, n <= Caps[t],
         Counted' = Counted + n, Flying' \subseteq Flying \ {t}
  PROVE  WallStands'
<1> DEFINE Rest == Flying \ {t}
           sf == SumFunctionOnSet(Caps, Flying)
           sr == SumFunctionOnSet(Caps, Rest)
           st == SumFunctionOnSet(Caps, Threads)
           sp == SumFunctionOnSet(Caps, Flying')
<1>1. Flying \in SUBSET Threads /\ Rest \in SUBSET Threads /\ Flying' \in SUBSET Rest /\ t \in Threads
  BY DEF Flying
<1>2. IsFiniteSet(Flying) /\ IsFiniteSet(Threads)
  BY <1>1, CapsAre
<1>3. sf = Caps[t] + sr
  <2>1. \A u \in Flying : Caps[u] \in Nat
    BY <1>1, CapsAre
  <2> QED
    BY <1>2, <2>1, SumElement
<1>4. sf <= st
  BY <1>1, CapsShrink
<1>5. sp <= sr
  BY <1>1, CapsShrink
<1>6. sf \in Nat /\ sr \in Nat /\ st \in Nat /\ sp \in Nat /\ Caps[t] \in Nat /\ Budget \in Nat
  BY <1>1, CapsAre, AgentAssumption
<1>7. Budget > 0 => Counted < Budget \/ Counted + sf < Budget + st
  BY DEF WallStands
<1> HIDE DEF Rest, sf, sr, st, sp
<1>8. Budget > 0 => Counted + n + sp < Budget + st
  BY <1>3, <1>4, <1>5, <1>6, <1>7
<1>9. SumFunctionOnSet(Caps, Flying)' = sp /\ SumFunctionOnSet(Caps, Threads)' = st
  BY DEF Caps, Cap, sp, st
<1> QED
  BY <1>8, <1>9 DEF WallStands

LEMMA WallNext ==
  ASSUME IInv, IInv', [Next]_vars, SpendInv
  PROVE  IsFiniteSet(log') /\ WallStands'
<1> USE DEF Go, SetUsage, history
<1>1. /\ pc \in [Threads -> Steps] /\ turn \in [Threads -> Turns] /\ log \in SUBSET Lines
      /\ IsFiniteSet(log) /\ WallStands
  BY DEF IInv, TypeInv, TypeOK, SpendInv
<1>2. Counted = TokensIn(log) /\ Counted' = TokensIn(log') /\ Counted \in Nat
  BY <1>1, TokensAreNat DEF Counted, TokensIn, Tokens
<1>3. ASSUME log' = log, Flying' \subseteq Flying
      PROVE  IsFiniteSet(log') /\ WallStands'
  BY <1>1, <1>2, <1>3, WallQuiet
<1>4. ASSUME NEW l \in Lines, l.kind # "close", Append1(l), Flying' \subseteq Flying
      PROVE  IsFiniteSet(log') /\ WallStands'
  <2>1. log' = log \cup {l} \/ log' = log
    BY <1>4 DEF Append1
  <2>2. Counted' = Counted
    BY <1>1, <1>2, <1>4, <2>1, TokensGrow
  <2>3. IsFiniteSet(log')
    BY <1>1, <2>1, FS_AddElement
  <2> QED
    BY <1>1, <1>2, <1>4, <2>2, <2>3, WallQuiet
<1>5. ASSUME NEW t \in Threads, \A d \in Threads \ {t} : Stays(d),
             t \in Flying' => t \in Flying
      PROVE  Flying' \subseteq Flying
  BY <1>5 DEF Flying, Stays, Running
<1>6. ASSUME NEW t \in Threads, StartCall(t) PROVE IsFiniteSet(log') /\ WallStands'
  <2>1. log' = log /\ Counted' = Counted /\ (Budget > 0 => Counted < Budget)
    BY <1>2, <1>6, AgentAssumption DEF StartCall, OverBudget
  <2> QED
    BY <1>1, <2>1 DEF WallStands
<1>7. ASSUME NEW t \in Threads,
             \/ Begin(t) \/ StartExtract(t) \/ EndExtract(t) \/ EndCall(t) \/ ReadUsage(t)
             \/ Execute(t) \/ SaveReply(t) \/ Blocked(t) \/ Fail(t)
      PROVE  IsFiniteSet(log') /\ WallStands'
  <2>1. log' = log /\ \A d \in Threads \ {t} : Stays(d)
    BY <1>1, <1>7 DEF Begin, StartExtract, EndExtract, EndCall, ReadUsage, Execute, SaveReply,
       Blocked, Fail, Return, Stays
  <2>2. CASE Begin(t)
    <3>1. turn'[t].iters = 0
      BY <1>1, <2>2 DEF Begin, NoTurn
    <3> QED
      BY <1>3, <1>5, <2>1, <3>1 DEF Flying
  <2>3. CASE StartExtract(t) \/ EndExtract(t) \/ EndCall(t) \/ ReadUsage(t) \/ Execute(t) \/ SaveReply(t)
    <3>1. turn'[t].iters = turn[t].iters /\ Running(t)
      BY <1>1, <2>3 DEF StartExtract, EndExtract, EndCall, ReadUsage, Execute, SaveReply, Turns, Running
    <3> QED
      BY <1>3, <1>5, <2>1, <3>1 DEF Flying
  <2>4. CASE Blocked(t) \/ Fail(t)
    <3>1. ~Running(t)'
      BY <1>1, <2>4 DEF Blocked, Fail, Return, Running
    <3> QED
      BY <1>3, <1>5, <2>1, <3>1 DEF Flying
  <2> QED
    BY <1>7, <2>2, <2>3, <2>4
<1>8. ASSUME NEW t \in Threads, Open(t) \/ Announce(t) \/ Accept(t) \/ Reject(t) \/ Report(t)
      PROVE  IsFiniteSet(log') /\ WallStands'
  <2>1. turn[t] \in Turns /\ turn[t].id \in TurnIds /\ Running(t)
    BY <1>1, <1>8, InTurnFacts DEF Open, Announce, Accept, Reject, Report, Running
  <2>2. PICK l \in Lines : l.kind # "close" /\ Append1(l)
    <3>1. CASE Open(t)
      BY <2>1, <3>1 DEF Open, OpenLine, Lines
    <3>2. CASE Announce(t) \/ Accept(t) \/ Reject(t) \/ Report(t)
      BY <2>1, <3>2 DEF Announce, Accept, Reject, Report, AuditLine, ToolCall, Lines, Audits, Turns
    <3> QED
      BY <1>8, <3>1, <3>2
  <2>3. turn'[t].iters = turn[t].iters /\ \A d \in Threads \ {t} : turn'[d] = turn[d]
    <3>1. CASE Announce(t)
      BY <1>1, <3>1 DEF Announce, Turns
    <3>2. CASE Reject(t)
      BY <1>1, <3>2 DEF Reject, Turns
    <3>3. CASE Open(t) \/ Accept(t) \/ Report(t)
      BY <3>3 DEF Open, Accept, Report
    <3> QED
      BY <1>8, <3>1, <3>2, <3>3
  <2>4. \A d \in Threads \ {t} : pc'[d] = pc[d]
    BY <1>1, <1>8 DEF Open, Announce, Accept, Reject, Report
  <2>5. Flying' \subseteq Flying
    BY <1>5, <2>1, <2>3, <2>4 DEF Flying, Stays
  <2> QED
    BY <1>4, <2>2, <2>5
<1>9. ASSUME NEW t \in Threads, Close(t) PROVE IsFiniteSet(log') /\ WallStands'
  <2> DEFINE l == CloseLine(t)
  <2>1. /\ Running(t) /\ pc[t] = "close" /\ turn[t] \in Turns /\ turn[t].id \in TurnIds
        /\ Paced(t) /\ Loop(t) /\ Counts(t) /\ turn[t].iters \in Nat
        /\ turn[t].usage \in Nat \cup {None}
    BY <1>1, <1>9, InTurnFacts DEF Close, Running, SpendInv, Turns
  <2>2. l \in Lines /\ l.kind = "close" /\ l.turn = turn[t].id /\ Tokens(l) = Count(turn[t].usage)
    BY <2>1 DEF CloseLine, Lines, Turns, Tokens, Count
  <2>3. l \notin log
    BY <2>1, <2>2 DEF Counts, About, Written
  <2>4. Tokens(l) <= Caps[t] /\ Tokens(l) \in Nat /\ Caps[t] \in Nat
    <3>1. turn[t].iters > 0 /\ Count(turn[t].usage) <= turn[t].iters * Largest
      BY <2>1 DEF Paced, Beyond, Heard
    <3>2. turn[t].iters <= IF t \in Repls THEN MaxIters ELSE 1
      BY <2>1 DEF Paced, Loop
    <3>3. turn[t].iters * Largest <= Cap(t) /\ turn[t].iters * Largest \in Nat /\ Cap(t) \in Nat
      BY <2>1, <3>2, LargestIs, AgentAssumption, Multiples DEF Cap
    <3>4. Count(turn[t].usage) \in Nat
      BY <2>1 DEF Count
    <3> QED
      BY <2>2, <3>1, <3>3, <3>4, CapsAre
  <2>5. t \in Flying /\ Flying' \subseteq Flying \ {t}
    <3>1. turn[t].iters > 0 /\ ~Running(t)' /\ \A d \in Threads \ {t} : Stays(d)
      BY <1>1, <1>9, <2>1 DEF Close, Return, Running, Stays, Paced, Beyond
    <3> QED
      BY <2>1, <3>1 DEF Flying, Stays, Running
  <2>6. Append1(l)
    BY <1>9 DEF Close
  <2> HIDE DEF l
  <2>7. CASE log' = log
    BY <1>3, <2>5, <2>7
  <2>8. CASE log' = log \cup {l}
    <3>1. Counted' = Counted + Tokens(l)
      BY <1>1, <1>2, <2>2, <2>3, <2>8, TokensGrow
    <3>2. IsFiniteSet(log')
      BY <1>1, <2>8, FS_AddElement
    <3> QED
      BY <1>1, <1>2, <2>4, <2>5, <3>1, <3>2, WallClose
  <2> QED
    BY <2>6, <2>7, <2>8 DEF Append1
<1>10. ASSUME NEW c \in Clients, Crash(c) PROVE IsFiniteSet(log') /\ WallStands'
  <2>1. log' = log /\ \A d \in Threads : ~Running(d)' \/ Stays(d)
    BY <1>1, <1>10 DEF Crash, Running, Stays
  <2>2. Flying' \subseteq Flying
    BY <2>1 DEF Flying, Stays, Running
  <2> QED
    BY <1>3, <2>1, <2>2
<1>11. CASE UNCHANGED vars
  BY <1>3, <1>11 DEF vars, Flying, Running
<1> QED
  BY <1>6, <1>7, <1>8, <1>9, <1>10, <1>11 DEF Next, Proceed

LEMMA SpendNext == IInv /\ IInv' /\ [Next]_vars /\ SpendInv => SpendInv'
<1> SUFFICES ASSUME IInv, IInv', [Next]_vars, SpendInv PROVE SpendInv'
  OBVIOUS
<1>1. \A c \in Clients : lastUsage'[c] \in Spends \cup {0, None}
  BY UsageCapped DEF SpendInv
<1>2. \A t \in Threads : Running(t)' => Paced(t)'
  BY PaceNext DEF SpendInv
<1>3. (\A i \in TurnIds : Charged(i)') /\ (\A t \in Threads : Running(t)' => Pending(t)')
  BY ChargeNext DEF SpendInv
<1>4. IsFiniteSet(log') /\ WallStands'
  BY WallNext
<1> QED
  BY <1>1, <1>2, <1>3, <1>4 DEF SpendInv

LEMMA InitSpend == Init => SpendInv
<1> SUFFICES ASSUME Init PROVE SpendInv
  OBVIOUS
<1>1. \A i \in TurnIds : Charged(i)
  BY LargestIs, AgentAssumption DEF Init, Charged
<1>2. Counted = 0 /\ IsFiniteSet(log)
  <2>1. log \in SUBSET Lines /\ log = {} /\ IsFiniteSet(log)
    BY FS_EmptySet DEF Init
  <2>2. Counted = SumFunctionOnSet([e \in {} |-> Tokens(e)], {})
    BY <2>1 DEF Counted, SumFunction
  <2>3. IsFiniteSet({}) /\ \A e \in {} : [d \in {} |-> Tokens(d)][e] \in Nat
    BY FS_EmptySet
  <2>4. SumFunctionOnSet([e \in {} |-> Tokens(e)], {}) = 0
    BY <2>3, SumElement
  <2> QED
    BY <2>1, <2>2, <2>4
<1>3. WallStands
  BY <1>2 DEF WallStands
<1> QED
  BY <1>1, <1>2, <1>3 DEF Init, SpendInv, Clients, Running

LEMMA SpendAlways == Spec => []SpendInv
BY InitSpend, SpendNext, AlwaysIInv, PTL DEF Spec

\* All the threads there are may add no more than this.
LEMMA InFlightBound ==
  /\ InFlight \in Nat /\ InFlight * Largest \in Nat
  /\ SumFunctionOnSet(Caps, Threads) <= InFlight * Largest
<1> DEFINE Others == Threads \ Repls
           Plain == Requests \cup Streams
           big == MaxIters * Largest
           r == Cardinality(Repls)
           o == Cardinality(Plain)
<1>1. /\ Repls \in SUBSET Threads /\ Others \in SUBSET Threads /\ Others \in SUBSET Plain
      /\ Plain \in SUBSET Threads /\ Repls \cap Others = {} /\ Repls \cup Others = Threads
  BY DEF Threads
<1>2. IsFiniteSet(Repls) /\ IsFiniteSet(Others) /\ IsFiniteSet(Plain)
  BY <1>1, CapsAre
<1>3. Cardinality(Others) \in Nat /\ Cardinality(Others) <= o /\ r \in Nat /\ o \in Nat
  BY <1>1, <1>2, FS_Subset, FS_CardinalityType
<1>4. Largest \in Nat /\ MaxIters \in Nat /\ big \in Nat
  BY LargestIs, AgentAssumption, Multiples
<1>5. /\ \A t \in Repls : Caps[t] \in 0..big
      /\ \A t \in Others : Caps[t] \in 0..Largest
      /\ \A t \in Repls \cup Others : Caps[t] \in Nat
  <2>1. \A t \in Repls : Caps[t] = big
    BY <1>1, CapsAre DEF Cap
  <2>2. \A t \in Others : Caps[t] = 1 * Largest
    BY <1>1, CapsAre DEF Cap
  <2> HIDE DEF big
  <2> QED
    BY <1>1, <1>4, <2>1, <2>2
<1> HIDE DEF Others, Plain, big, r, o
<1>6. SumFunctionOnSet(Caps, Repls) <= big * r
  BY <1>2, <1>4, <1>5, SumOfSmall DEF r
<1>7. SumFunctionOnSet(Caps, Others) <= Largest * Cardinality(Others)
  BY <1>2, <1>4, <1>5, SumOfSmall
<1>8. SumFunctionOnSet(Caps, Repls \cup Others) = SumFunctionOnSet(Caps, Repls) + SumFunctionOnSet(Caps, Others)
  BY <1>1, <1>2, <1>5, SumOfBoth
<1>9. SumFunctionOnSet(Caps, Repls) \in Nat /\ SumFunctionOnSet(Caps, Others) \in Nat
  BY <1>1, CapsAre
<1>10. Largest * Cardinality(Others) <= Largest * o /\ Largest * o \in Nat /\ big * r \in Nat
  BY <1>3, <1>4, Multiples
<1>11. InFlight = r * MaxIters + o /\ InFlight \in Nat
  <2>1. InFlight = r * MaxIters + o
    BY DEF InFlight, r, o, Plain
  <2>2. r * MaxIters \in Nat
    BY <1>3, <1>4, Multiples
  <2> QED
    BY <1>3, <2>1, <2>2
<1>12. InFlight * Largest = big * r + Largest * o
  <2>1. (r * MaxIters + o) * Largest = (r * MaxIters) * Largest + o * Largest
    BY <1>3, <1>4
  <2>2. (r * MaxIters) * Largest = (MaxIters * Largest) * r
    BY <1>3, <1>4
  <2> QED
    BY <1>3, <1>4, <1>11, <2>1, <2>2 DEF big
<1>13. SumFunctionOnSet(Caps, Threads) <= big * r + Largest * o
  <2>1. Largest * Cardinality(Others) \in Nat
    BY <1>3, <1>4, Multiples
  <2>2. SumFunctionOnSet(Caps, Threads) = SumFunctionOnSet(Caps, Repls) + SumFunctionOnSet(Caps, Others)
    BY <1>1, <1>8, Zenon
  <2> DEFINE x == SumFunctionOnSet(Caps, Repls)
             y == SumFunctionOnSet(Caps, Others)
             u == big * r
             v == Largest * o
             c == Largest * Cardinality(Others)
  <2>3. x \in Nat /\ y \in Nat /\ u \in Nat /\ v \in Nat /\ c \in Nat /\ x <= u /\ y <= c /\ c <= v
    BY <1>6, <1>7, <1>9, <1>10, <2>1
  <2> HIDE DEF x, y, u, v, c
  <2>4. x + y <= u + v
    BY <2>3
  <2> QED
    BY <2>2, <2>4, Zenon DEF x, y, u, v
<1> QED
  BY <1>10, <1>11, <1>12, <1>13

LEMMA WallWorth == IInv /\ SpendInv => WallHolds
<1> SUFFICES ASSUME IInv, SpendInv, Budget > 0 PROVE Counted < Budget + InFlight * Largest
  BY DEF WallHolds
<1>1. Flying \in SUBSET Threads /\ Threads \in SUBSET Threads
  BY DEF Flying
<1>2. SumFunctionOnSet(Caps, Flying) \in Nat /\ SumFunctionOnSet(Caps, Threads) \in Nat
  BY <1>1, CapsAre
<1>3. Counted \in Nat
  <2>1. log \in SUBSET Lines /\ IsFiniteSet(log)
    BY DEF IInv, TypeInv, TypeOK, SpendInv
  <2> QED
    BY <2>1, TokensAreNat DEF Counted, TokensIn
<1>4. Budget \in Nat
  BY AgentAssumption
<1>5. Counted < Budget \/ Counted + SumFunctionOnSet(Caps, Flying) < Budget + SumFunctionOnSet(Caps, Threads)
  BY DEF SpendInv, WallStands
<1> QED
  BY <1>2, <1>3, <1>4, <1>5, InFlightBound

\* What closed traces do not show is that of turns without one, and of those whose
\* provider did not tell.
LEMMA HiddenSpend == IInv /\ SpendInv /\ EachTurnCountsItsOwn => HidesNoMore
<1> SUFFICES ASSUME IInv, SpendInv, EachTurnCountsItsOwn PROVE HidesNoMore
  OBVIOUS
<1> DEFINE C == {l \in log : l.kind = "close"}
           f == [e \in C |-> Tokens(e)]
           Told == {i \in TurnIds \ mute : \E e \in C : e.turn = i}
           Hiding == Unclosed \cup mute
           Known == minted \cup mute
           Rest == TurnIds \ Known
           big == MaxIters * Largest
           h == [i \in Told |-> CHOOSE e \in C : e.turn = i]
<1>1. /\ log \in SUBSET Lines /\ IsFiniteSet(log) /\ billed \in [TurnIds -> Nat]
      /\ chats \in [TurnIds -> Nat] /\ minted \in SUBSET TurnIds /\ mute \in SUBSET TurnIds
      /\ log \subseteq Written
  BY DEF IInv, TypeInv, TypeOK, SpendInv, Written
<1>2. IsFiniteSet(C) /\ \A e \in C : Tokens(e) \in Nat
  BY <1>1, TokensAreNat
<1>3. Told \in SUBSET minted /\ Told = {e.turn : e \in C} \ mute
  BY <1>1 DEF IInv, OwnTurn
<1>4. Hiding = Known \ Told /\ Told \subseteq Known
  BY <1>3 DEF Unclosed
<1>5. \A i \in Told : h[i] \in C /\ h[i].turn = i /\ f[h[i]] = billed[i]
  <2> SUFFICES ASSUME NEW i \in Told PROVE h[i] \in C /\ h[i].turn = i /\ f[h[i]] = billed[i]
    OBVIOUS
  <2>1. h[i] \in C /\ h[i].turn = i
    OBVIOUS
  <2> HIDE DEF h
  <2>2. Tokens(h[i]) = billed[h[i].turn]
    BY <1>1, <2>1 DEF EachTurnCountsItsOwn
  <2> QED
    BY <2>1, <2>2
<1>6. h \in Injection(Told, C)
  <2>1. DOMAIN h = Told
    OBVIOUS
  <2> HIDE DEF h, C, f, Told
  <2>2. h = [i \in Told |-> h[i]]
    BY DEF h
  <2>3. h \in [Told -> C]
    BY <1>5, <2>2
  <2>4. \A i, j \in Told : h[i] = h[j] => i = j
    BY <1>5
  <2> QED
    BY <2>1, <2>3, <2>4 DEF Injection, IsInjective
<1>7. Counted = SumFunctionOnSet(f, C)
  BY DEF Counted, SumFunction
<1>8. \A i \in Told : billed[i] \in Nat /\ billed[i] <= f[h[i]]
  BY <1>1, <1>5
<1>9. \A e \in C : f[e] \in Nat
  BY <1>2
<1> HIDE DEF h, C, f
<1>10. SumFunctionOnSet(billed, Told) <= Counted
  BY <1>2, <1>6, <1>7, <1>8, <1>9, SumAtMost
<1>11. /\ IsFiniteSet(TurnIds) /\ IsFiniteSet(Told) /\ IsFiniteSet(Hiding) /\ IsFiniteSet(Rest)
       /\ IsFiniteSet(Known)
  BY <1>1, <1>3, <1>4, AgentAssumption, FS_Subset
<1>12. big \in Nat /\ Largest \in Nat /\ MaxIters \in Nat
  BY LargestIs, AgentAssumption, Multiples
<1>13. \A i \in Hiding : billed[i] \in 0..big
  <2> SUFFICES ASSUME NEW i \in TurnIds PROVE billed[i] \in 0..big
    BY <1>1, <1>4
  <2>1. chats[i] \in Nat /\ billed[i] \in Nat /\ chats[i] <= MaxIters /\ billed[i] <= chats[i] * Largest
    BY <1>1 DEF SpendInv, Charged
  <2>2. chats[i] * Largest <= MaxIters * Largest /\ chats[i] * Largest \in Nat
    BY <1>12, <2>1, Multiples
  <2> QED
    BY <1>12, <2>1, <2>2
<1>14. \A i \in Rest : billed[i] \in 0..0
  BY DEF IInv, OwnTurn
<1> HIDE DEF Told, Hiding, Known, Rest, big
<1>15. SumFunctionOnSet(billed, Hiding) <= big * Cardinality(Hiding)
  BY <1>11, <1>12, <1>13, SumOfSmall
<1>16. SumFunctionOnSet(billed, Rest) <= 0 * Cardinality(Rest)
  BY <1>11, <1>14, SumOfSmall
<1>17. \A i \in TurnIds : billed[i] \in Nat
  BY <1>1
<1>18. SumFunctionOnSet(billed, Known) = SumFunctionOnSet(billed, Told) + SumFunctionOnSet(billed, Hiding)
  <2>1. Known = Told \cup Hiding /\ Told \cap Hiding = {}
    BY <1>3, <1>4
  <2>2. \A i \in Told \cup Hiding : billed[i] \in Nat
    BY <1>1, <1>17, <2>1 DEF Known
  <2> QED
    BY <1>11, <2>1, <2>2, SumOfBoth
<1>19. SumFunctionOnSet(billed, TurnIds) = SumFunctionOnSet(billed, Known) + SumFunctionOnSet(billed, Rest)
  <2>1. TurnIds = Known \cup Rest /\ Known \cap Rest = {}
    BY <1>1 DEF Rest, Known
  <2>2. \A i \in Known \cup Rest : billed[i] \in Nat
    BY <1>17, <2>1
  <2> QED
    BY <1>11, <2>1, <2>2, SumOfBoth
<1>20. Spent = SumFunctionOnSet(billed, TurnIds)
  BY <1>1 DEF Spent, SumFunction
<1>21. /\ SumFunctionOnSet(billed, Told) \in Nat /\ SumFunctionOnSet(billed, Hiding) \in Nat
       /\ SumFunctionOnSet(billed, Rest) \in Nat /\ SumFunctionOnSet(f, C) \in Nat
  <2>1. \A S \in SUBSET TurnIds : \A i \in S : billed[i] \in Nat
    BY <1>17
  <2>2. Told \in SUBSET TurnIds /\ Hiding \in SUBSET TurnIds /\ Rest \in SUBSET TurnIds
    BY <1>1, <1>3, <1>4 DEF Rest, Known
  <2> QED
    BY <1>2, <1>9, <1>11, <2>1, <2>2, SumElement
<1>22. Cardinality(Hiding) \in Nat /\ Cardinality(Rest) \in Nat
  BY <1>11, FS_CardinalityType
<1>23. /\ big * Cardinality(Hiding) = Cardinality(Hiding) * big /\ big * Cardinality(Hiding) \in Nat
       /\ 0 * Cardinality(Rest) = 0
  BY <1>12, <1>22, Multiples
<1>24. Spent <= Counted + Cardinality(Hiding) * big
  BY <1>7, <1>10, <1>15, <1>16, <1>18, <1>19, <1>20, <1>21, <1>23
<1> QED
  BY <1>24 DEF HidesNoMore, Hiding, big

\* Whatever the threads share: once there is a budget, the closed traces of the log
\* exceed it by less than what the calls of one turn of each thread may cost.
THEOREM WallHoldsTurns == Spec => []WallHolds
BY WallWorth, AlwaysIInv, SpendAlways, PTL

\* Where no two threads share an LLM client, the model cannot have cost more either,
\* but for one turn's calls for each turn without a closed trace in the log, or
\* not told what a call cost (OvershootIsBounded).
THEOREM SpendIsBounded ==
  ASSUME OneThreadEach
  PROVE  Spec => []OvershootIsBounded
<1>1. WallHolds /\ HidesNoMore => OvershootIsBounded
  BY DEF OvershootIsBounded
<1>2. Spec => []EachTurnCountsItsOwn
  BY UsageIsAttributed
<1> QED
  BY <1>1, <1>2, WallWorth, HiddenSpend, AlwaysIInv, SpendAlways, PTL
-----------------------------------------------------------------------------
(* The length of a turn                                                     *)

\* What the rounds after the i-th may take.
Rounds(i) == (MaxIters - i) * (4 * MaxBatch + 3)

\* StepsLeft of a turn at p after i calls, with n tool calls to come.
Left(p, i, n) ==
  IF p = "idle" THEN 0
  ELSE Rounds(i)
       + (IF p \in {"usage", "tool", "confirm", "run", "report"} THEN 4 * n ELSE 0)
       + [extract |-> 5, extracting |-> 4, open |-> 3,
          call |-> 2, calling |-> 4 * MaxBatch + 4, usage |-> 3,
          tool |-> 2, confirm |-> 5, run |-> 4, report |-> 3, save |-> 2, close |-> 1][p]

LEMMA LeftIs ==
  ASSUME NEW i \in 0..MaxIters, NEW n \in Nat
  PROVE  /\ Rounds(i) \in Nat
         /\ Left("idle", i, n) = 0
         /\ Left("extract", i, n) = Rounds(i) + 5 /\ Left("extracting", i, n) = Rounds(i) + 4
         /\ Left("open", i, n) = Rounds(i) + 3 /\ Left("call", i, n) = Rounds(i) + 2
         /\ Left("calling", i, n) = Rounds(i) + 4 * MaxBatch + 4
         /\ Left("usage", i, n) = Rounds(i) + 4 * n + 3 /\ Left("tool", i, n) = Rounds(i) + 4 * n + 2
         /\ Left("confirm", i, n) = Rounds(i) + 4 * n + 5 /\ Left("run", i, n) = Rounds(i) + 4 * n + 4
         /\ Left("report", i, n) = Rounds(i) + 4 * n + 3
         /\ Left("save", i, n) = Rounds(i) + 2 /\ Left("close", i, n) = Rounds(i) + 1
<1> DEFINE r == Rounds(i)
<1>1. MaxIters - i \in Nat /\ 4 * MaxBatch + 3 \in Nat
  BY AgentAssumption
<1>2. r \in Nat
  BY <1>1, Multiples DEF Rounds
<1>3. 4 * MaxBatch + 4 \in Nat /\ 4 * n \in Nat
  BY AgentAssumption
<1>4. \A p : Left(p, i, n) =
        IF p = "idle" THEN 0
        ELSE r + (IF p \in {"usage", "tool", "confirm", "run", "report"} THEN 4 * n ELSE 0)
             + [extract |-> 5, extracting |-> 4, open |-> 3,
                call |-> 2, calling |-> 4 * MaxBatch + 4, usage |-> 3,
                tool |-> 2, confirm |-> 5, run |-> 4, report |-> 3, save |-> 2, close |-> 1][p]
  BY DEF Left
<1> HIDE DEF r
<1>5. /\ Left("idle", i, n) = 0
      /\ Left("extract", i, n) = r + 5 /\ Left("extracting", i, n) = r + 4
      /\ Left("open", i, n) = r + 3 /\ Left("call", i, n) = r + 2
      /\ Left("save", i, n) = r + 2 /\ Left("close", i, n) = r + 1
  BY <1>2, <1>3, <1>4
<1>6. Left("calling", i, n) = r + 4 * MaxBatch + 4
  <2> DEFINE c == 4 * MaxBatch + 4
  <2>1. Left("calling", i, n) = r + 0 + c
    <3>1. [extract |-> 5, extracting |-> 4, open |-> 3,
           call |-> 2, calling |-> c, usage |-> 3,
           tool |-> 2, confirm |-> 5, run |-> 4, report |-> 3, save |-> 2, close |-> 1]["calling"] = c
      OBVIOUS
    <3> HIDE DEF c
    <3> QED
      BY <1>4, <3>1 DEF c
  <2> QED
    BY <1>2, <1>3, <2>1, AgentAssumption
<1>7. /\ Left("usage", i, n) = r + 4 * n + 3 /\ Left("tool", i, n) = r + 4 * n + 2
      /\ Left("confirm", i, n) = r + 4 * n + 5 /\ Left("run", i, n) = r + 4 * n + 4
      /\ Left("report", i, n) = r + 4 * n + 3
  BY <1>2, <1>3, <1>4
<1> QED
  BY <1>2, <1>5, <1>6, <1>7 DEF r

LEMMA StepsLeftIs ==
  ASSUME NEW t
  PROVE  StepsLeft(t) = Left(pc[t], turn[t].iters, turn[t].todo)
BY DEF StepsLeft, Left, Rounds

\* One more call costs at least the steps of its round.
LEMMA RoundCosts ==
  ASSUME NEW i \in Nat, i < MaxIters
  PROVE  Rounds(i) = Rounds(i + 1) + (4 * MaxBatch + 3)
<1> DEFINE k == MaxIters - i
           m == 4 * MaxBatch + 3
<1>1. k \in Nat /\ k > 0 /\ m \in Nat /\ MaxIters - (i + 1) = k - 1
  BY AgentAssumption
<1> HIDE DEF k, m
<1>2. k * m = (k - 1) * m + m
  BY <1>1, Multiples
<1> QED
  BY <1>1, <1>2 DEF k, m, Rounds

\* A running turn has some steps left.
LEMMA SomeLeft ==
  ASSUME IInv, NEW t \in Threads, Running(t)
  PROVE  /\ StepsLeft(t) \in Nat /\ StepsLeft(t) > 0
         /\ turn[t].iters \in 0..MaxIters /\ turn[t].todo \in Nat /\ turn[t] \in Turns
<1>1. turn[t].iters \in 0..MaxIters /\ turn[t].todo \in Nat /\ turn[t] \in Turns /\ pc[t] \in Steps
  BY AgentAssumption, InTurnFacts DEF IInv, TypeInv, TypeOK, Turns, Loop
<1>2. pc[t] # "idle"
  BY DEF Running
<1> DEFINE i == turn[t].iters
           n == turn[t].todo
<1> HIDE DEF i, n
<1>3. StepsLeft(t) = Left(pc[t], i, n)
  BY StepsLeftIs DEF i, n
<1>4. i \in 0..MaxIters /\ n \in Nat
  BY <1>1 DEF i, n
<1>5. Left(pc[t], i, n) \in Nat /\ Left(pc[t], i, n) > 0
  <2> DEFINE r == Rounds(i)
  <2>1. /\ r \in Nat
        /\ Left("extract", i, n) = r + 5 /\ Left("extracting", i, n) = r + 4
        /\ Left("open", i, n) = r + 3 /\ Left("call", i, n) = r + 2
        /\ Left("calling", i, n) = r + 4 * MaxBatch + 4
        /\ Left("usage", i, n) = r + 4 * n + 3 /\ Left("tool", i, n) = r + 4 * n + 2
        /\ Left("confirm", i, n) = r + 4 * n + 5 /\ Left("run", i, n) = r + 4 * n + 4
        /\ Left("report", i, n) = r + 4 * n + 3
        /\ Left("save", i, n) = r + 2 /\ Left("close", i, n) = r + 1
    BY <1>4, LeftIs
  <2>2. MaxBatch \in Nat
    BY AgentAssumption
  <2> HIDE DEF r
  <2>3. \A p \in Steps \ {"idle"} : Left(p, i, n) \in Nat /\ Left(p, i, n) > 0
    BY <1>4, <2>1, <2>2 DEF Steps
  <2> QED
    BY <1>1, <1>2, <2>3
<1> QED
  BY <1>1, <1>3, <1>5

\* A step that leaves the rounds to come alone.
LEMMA WithinRound ==
  ASSUME IInv, NEW t \in Threads, Running(t), turn'[t].iters = turn[t].iters,
         NEW m \in Nat, turn'[t].todo = m,
         \/ pc[t] = "extract" /\ pc'[t] \in {"extracting", "open"}
         \/ pc[t] = "extracting" /\ pc'[t] = "open"
         \/ pc[t] = "open" /\ pc'[t] = "call"
         \/ pc[t] = "calling" /\ pc'[t] = "usage" /\ m <= MaxBatch
         \/ pc[t] = "usage" /\ pc'[t] \in {"tool", "save"} /\ m = turn[t].todo
         \/ pc[t] = "tool" /\ pc'[t] = "confirm" /\ m + 1 = turn[t].todo
         \/ pc[t] = "confirm" /\ pc'[t] \in {"run", "tool", "save", "call"} /\ m = turn[t].todo
         \/ pc[t] = "run" /\ pc'[t] = "report" /\ m = turn[t].todo
         \/ pc[t] = "report" /\ pc'[t] \in {"tool", "save", "call"} /\ m = turn[t].todo
         \/ pc[t] = "save" /\ pc'[t] = "close"
  PROVE  StepsLeft(t)' \in Nat /\ StepsLeft(t)' < StepsLeft(t)
<1> DEFINE i == turn[t].iters
           n == turn[t].todo
           p == pc[t]
           q == pc'[t]
<1>1. i \in 0..MaxIters /\ n \in Nat
  BY SomeLeft
<1>2. StepsLeft(t) = Left(p, i, n) /\ StepsLeft(t)' = Left(q, i, m)
  BY DEF StepsLeft, Left, Rounds
<1>3. \/ p = "extract" /\ q \in {"extracting", "open"}
      \/ p = "extracting" /\ q = "open"
      \/ p = "open" /\ q = "call"
      \/ p = "calling" /\ q = "usage" /\ m <= MaxBatch
      \/ p = "usage" /\ q \in {"tool", "save"} /\ m = n
      \/ p = "tool" /\ q = "confirm" /\ m + 1 = n
      \/ p = "confirm" /\ q \in {"run", "tool", "save", "call"} /\ m = n
      \/ p = "run" /\ q = "report" /\ m = n
      \/ p = "report" /\ q \in {"tool", "save", "call"} /\ m = n
      \/ p = "save" /\ q = "close"
  OBVIOUS
<1> HIDE DEF i, n, p, q
<1> DEFINE r == Rounds(i)
<1>4. /\ r \in Nat
      /\ Left("extract", i, n) = r + 5 /\ Left("extracting", i, n) = r + 4
      /\ Left("open", i, n) = r + 3 /\ Left("calling", i, n) = r + 4 * MaxBatch + 4
      /\ Left("usage", i, n) = r + 4 * n + 3 /\ Left("tool", i, n) = r + 4 * n + 2
      /\ Left("confirm", i, n) = r + 4 * n + 5 /\ Left("run", i, n) = r + 4 * n + 4
      /\ Left("report", i, n) = r + 4 * n + 3 /\ Left("save", i, n) = r + 2
  BY <1>1, LeftIs
<1>5. /\ Left("extracting", i, m) = r + 4 /\ Left("open", i, m) = r + 3
      /\ Left("call", i, m) = r + 2 /\ Left("usage", i, m) = r + 4 * m + 3
      /\ Left("tool", i, m) = r + 4 * m + 2 /\ Left("confirm", i, m) = r + 4 * m + 5
      /\ Left("run", i, m) = r + 4 * m + 4 /\ Left("report", i, m) = r + 4 * m + 3
      /\ Left("save", i, m) = r + 2 /\ Left("close", i, m) = r + 1
  BY <1>1, LeftIs
<1> HIDE DEF r
<1>6. MaxBatch \in Nat
  BY AgentAssumption
<1>7. Left(q, i, m) \in Nat /\ Left(q, i, m) < Left(p, i, n)
  BY <1>1, <1>3, <1>4, <1>5, <1>6
<1> QED
  BY <1>2, <1>7

\* Each step of a turn leaves it fewer.
LEMMA TurnShrinks ==
  ASSUME IInv, IInv', NEW t \in Threads, Proceed(t)
  PROVE  Running(t) /\ StepsLeft(t)' \in Nat /\ StepsLeft(t)' < StepsLeft(t)
<1>1. Running(t)
  BY DEF Proceed, StartExtract, EndExtract, Open, StartCall, EndCall, ReadUsage, Announce, Accept,
     Reject, Execute, Report, SaveReply, Close, Blocked, Go, Running
<1>2. turn[t] \in Turns /\ turn[t].iters \in 0..MaxIters /\ turn[t].todo \in Nat /\ Loop(t)
      /\ pc \in [Threads -> Steps] /\ turn \in [Threads -> Turns]
  BY <1>1, SomeLeft, InTurnFacts DEF IInv, TypeInv, TypeOK
<1>3. CASE StartExtract(t) \/ EndExtract(t) \/ Open(t) \/ Accept(t) \/ Execute(t) \/ SaveReply(t)
           \/ Report(t)
  <2>1. turn'[t].iters = turn[t].iters /\ turn'[t].todo = turn[t].todo
    BY <1>3 DEF StartExtract, EndExtract, Open, Accept, Execute, SaveReply, Report
  <2>2. \/ pc[t] = "extract" /\ pc'[t] \in {"extracting", "open"}
        \/ pc[t] = "extracting" /\ pc'[t] = "open"
        \/ pc[t] = "open" /\ pc'[t] = "call"
        \/ pc[t] = "confirm" /\ pc'[t] = "run"
        \/ pc[t] = "run" /\ pc'[t] = "report"
        \/ pc[t] = "report" /\ pc'[t] \in {"tool", "save", "call"}
        \/ pc[t] = "save" /\ pc'[t] = "close"
    BY <1>2, <1>3 DEF StartExtract, EndExtract, Open, Accept, Execute, SaveReply, Report, Go, AfterCall
  <2> QED
    BY <1>1, <1>2, <2>1, <2>2, WithinRound
<1>4. CASE EndCall(t)
  <2>0. 0 \in 0..MaxBatch
    BY AgentAssumption
  <2>1. PICK n \in 0..MaxBatch : turn' = [turn EXCEPT ![t] = [@ EXCEPT !.todo = n]]
    BY <1>4, <2>0 DEF EndCall
  <2>2. turn'[t].iters = turn[t].iters /\ turn'[t].todo = n /\ n \in Nat /\ n <= MaxBatch
    BY <1>2, <2>1, AgentAssumption DEF Turns
  <2>3. pc[t] = "calling" /\ pc'[t] = "usage"
    BY <1>2, <1>4 DEF EndCall, Go
  <2> QED
    BY <1>1, <2>2, <2>3, WithinRound
<1>5. CASE ReadUsage(t)
  <2>1. turn'[t].iters = turn[t].iters /\ turn'[t].todo = turn[t].todo
    BY <1>2, <1>5 DEF ReadUsage, Turns
  <2>2. pc[t] = "usage" /\ pc'[t] \in {"tool", "save"}
    BY <1>2, <1>5 DEF ReadUsage, Go
  <2> QED
    BY <1>1, <1>2, <2>1, <2>2, WithinRound
<1>6. CASE Announce(t)
  <2>1. pc[t] = "tool" /\ pc'[t] = "confirm" /\ turn[t].todo > 0
    BY <1>2, <1>6 DEF Announce, Go, Loop
  <2>2. turn'[t].iters = turn[t].iters /\ turn'[t].todo = turn[t].todo - 1
    BY <1>2, <1>6 DEF Announce, Turns
  <2>3. turn[t].todo - 1 \in Nat /\ (turn[t].todo - 1) + 1 = turn[t].todo
    BY <1>2, <2>1
  <2> QED
    BY <1>1, <2>1, <2>2, <2>3, WithinRound
<1>7. CASE Reject(t)
  <2>1. turn'[t].iters = turn[t].iters /\ turn'[t].todo = turn[t].todo
    BY <1>2, <1>7 DEF Reject, Turns
  <2>2. pc[t] = "confirm" /\ pc'[t] \in {"tool", "save", "call"}
    BY <1>2, <1>7 DEF Reject, Go, AfterCall
  <2> QED
    BY <1>1, <1>2, <2>1, <2>2, WithinRound
<1>8. CASE StartCall(t)
  <2> DEFINE i == turn[t].iters
             n == turn[t].todo
  <2>1. pc[t] = "call" /\ pc'[t] = "calling"
    BY <1>2, <1>8 DEF StartCall, Go
  <2>2. turn'[t].iters = i + 1 /\ turn'[t].todo = n
    BY <1>2, <1>8 DEF StartCall, Turns
  <2>3. StepsLeft(t) = Left("call", i, n) /\ StepsLeft(t)' = Left("calling", i + 1, n)
    BY <2>1, <2>2 DEF StepsLeft, Left, Rounds
  <2>4. i \in Nat /\ n \in Nat /\ i < MaxIters /\ i + 1 \in 0..MaxIters /\ i \in 0..MaxIters
    BY <1>2, <2>1, AgentAssumption DEF Loop
  <2> HIDE DEF i, n
  <2> DEFINE r == Rounds(i)
             s == Rounds(i + 1)
  <2>5. r \in Nat /\ Left("call", i, n) = r + 2
    BY <2>4, LeftIs
  <2>6. s \in Nat /\ Left("calling", i + 1, n) = s + 4 * MaxBatch + 4
    BY <2>4, LeftIs
  <2>7. r = s + (4 * MaxBatch + 3)
    BY <2>4, RoundCosts
  <2>8. MaxBatch \in Nat
    BY AgentAssumption
  <2> HIDE DEF r, s
  <2>9. Left("calling", i + 1, n) \in Nat /\ Left("calling", i + 1, n) < Left("call", i, n)
    BY <2>5, <2>6, <2>7, <2>8
  <2> QED
    BY <1>1, <2>3, <2>9
<1>9. CASE Close(t) \/ Blocked(t)
  <2>1. pc'[t] = "idle"
    BY <1>2, <1>9 DEF Close, Blocked, Return
  <2>2. StepsLeft(t)' = 0
    BY <2>1 DEF StepsLeft
  <2> QED
    BY <1>1, <2>2, SomeLeft
<1> QED
  BY <1>3, <1>4, <1>5, <1>6, <1>7, <1>8, <1>9 DEF Proceed

\* TurnsShrink: for any cap, batch size, answers and threads, no step gives a
\* running turn more steps to take, and each of its own leaves it with fewer.
THEOREM TurnsAreFinite == Spec => TurnsShrink
<1>1. ASSUME IInv, IInv', [Next]_vars, NEW t \in Threads, pc[t] # "idle"
      PROVE  StepsLeft(t)' \in 0..StepsLeft(t) /\ (Proceed(t) => StepsLeft(t)' # StepsLeft(t))
  <2>1. StepsLeft(t) \in Nat /\ Running(t) /\ pc \in [Threads -> Steps] /\ turn \in [Threads -> Turns]
    BY <1>1, SomeLeft DEF Running, IInv, TypeInv, TypeOK
  <2>2. CASE Proceed(t)
    BY <1>1, <2>1, <2>2, TurnShrinks
  <2>3. CASE Stays(t) /\ ~Proceed(t)
    <3>1. StepsLeft(t)' = StepsLeft(t)
      BY <2>3 DEF Stays, StepsLeft
    <3> QED
      BY <2>1, <2>3, <3>1
  <2>4. CASE pc'[t] = "idle" /\ ~Proceed(t)
    <3>1. StepsLeft(t)' = 0
      BY <2>4 DEF StepsLeft
    <3> QED
      BY <2>1, <2>4, <3>1
  <2>5. Proceed(t) \/ Stays(t) \/ pc'[t] = "idle"
    <3>1. CASE UNCHANGED vars
      BY <3>1 DEF vars, Stays
    <3>2. ASSUME NEW d \in Threads, d # t, Begin(d) \/ Proceed(d) \/ Fail(d) PROVE Stays(t)
      BY <2>1, <3>2 DEF Begin, Proceed, Fail, StartExtract, EndExtract, Open, StartCall, EndCall,
         ReadUsage, Announce, Accept, Reject, Execute, Report, SaveReply, Close, Blocked, Go,
         Return, Stays
    <3>3. CASE Begin(t) \/ Proceed(t) \/ Fail(t)
      BY <1>1, <2>1, <3>3 DEF Begin, Fail, Go, Return
    <3>4. CASE \E c \in Clients : Crash(c)
      BY <2>1, <3>4 DEF Crash, Stays
    <3> QED
      BY <1>1, <3>1, <3>2, <3>3, <3>4 DEF Next
  <2> QED
    BY <2>2, <2>3, <2>4, <2>5
<1>2. IInv /\ IInv' /\ [Next]_vars =>
        [\A t \in Threads : pc[t] # "idle" =>
           /\ StepsLeft(t)' \in 0..StepsLeft(t)
           /\ Proceed(t) => StepsLeft(t)' # StepsLeft(t)]_vars
  BY <1>1
<1> QED
  BY <1>2, AlwaysIInv, PTL DEF Spec, TurnsShrink
=============================================================================
