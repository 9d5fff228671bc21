--------------------------- MODULE PipelineProofs ---------------------------
(***************************************************************************)
(* What holds of scoring ticks for any number of ticks, definition files,  *)
(* markets, factors and models, and any bounds on the LLM calls.           *)
(***************************************************************************)
EXTENDS Pipeline, FiniteSetTheorems, TLAPS

\* What a tick knows fits where it is in the transaction.
Bound(t) ==
    /\ pc[t] \in Statements => yaml[t] \in Yamls
    /\ pc[t] \in {"load", "llm", "persist", "score"} => bind[t] \in [Factors -> Models]
    /\ pc[t] = "score" => \A p \in Wanted(t) : evalmap[t][p] \in Keys \ {None}

TypeBound == TypeOK /\ \A t \in Ticks : Bound(t)

LEMMA KeysAreKeys ==
    ASSUME NEW y \in Yamls, NEW p \in Pairs, NEW m \in Models \cup {Tier2}
    PROVE  <<y.version, p, m>> \in Keys
BY DEF Keys, Versions

LEMMA ForgetTypes ==
    ASSUME TypeBound, NEW t \in Ticks, Forget(t), NEW c \in Ended,
           pc' = [pc EXCEPT ![t] = c]
    PROVE  TicksOK' /\ \A u \in Ticks : Bound(u)'
<1>1. TicksOK'
  BY DEF TypeBound, TypeOK, TicksOK, Forget, NoBind, NoMap, NoTask, TaskState
<1>2. ASSUME NEW u \in Ticks PROVE Bound(u)'
  <2>1. CASE u = t
    BY <2>1 DEF TypeBound, TypeOK, TicksOK, Bound, Ended, Statements
  <2>2. CASE u # t
    <3>1. /\ pc'[u] = pc[u] /\ yaml'[u] = yaml[u] /\ bind'[u] = bind[u]
          /\ evalmap'[u] = evalmap[u] /\ sel'[u] = sel[u]
      BY <2>2 DEF TypeBound, TypeOK, TicksOK, Forget
    <3>2. Bound(u)
      BY DEF TypeBound
    <3> QED
      BY <3>1, <3>2 DEF Bound, Wanted
  <2> QED
    BY <2>1, <2>2
<1> QED
  BY <1>1, <1>2

LEMMA AbortTypes ==
    ASSUME TypeBound, NEW t \in Ticks, Abort(t)
    PROVE  TypeBound'
<1>1. RowsOK'
  BY DEF TypeBound, TypeOK, RowsOK, Abort, DropPending, database
<1>2. TicksOK' /\ \A u \in Ticks : Bound(u)'
  BY ForgetTypes DEF Abort, Ended
<1> QED
  BY <1>1, <1>2 DEF TypeBound, TypeOK

LEMMA CommitTypes ==
    ASSUME TypeBound, NEW t \in Ticks, Commit(t)
    PROVE  TypeBound'
<1> DEFINE v == yaml[t].version
           s == [by |-> t, version |-> v, sha |-> yaml[t].sha,
                 used |-> {evalmap[t][p] : p \in Wanted(t)}]
<1>t. RowsOK /\ TicksOK /\ Bound(t)
  BY DEF TypeBound, TypeOK
<1>1. pc[t] = "score" /\ yaml[t] \in Yamls /\ v \in Versions /\ yaml[t].sha \in Shas
  BY <1>t DEF Commit, Bound, Statements, Versions, Shas
<1>2. {evalmap[t][p] : p \in Wanted(t)} \in SUBSET Keys
  BY <1>t, <1>1 DEF Bound
<1>3. scores' \in SUBSET [by : Ticks, version : Versions, sha : Shas, used : SUBSET Keys]
  BY <1>t, <1>1, <1>2 DEF Commit, RowsOK
<1>4. defSha' \in [Versions -> Shas \cup {None}] /\ current' \in SUBSET Versions
  BY <1>t, <1>1 DEF Commit, RowsOK
<1>5. evals' \in [Keys -> Rows \cup {NoRow}] /\ pending' \in [Keys -> Rows \cup {NoRow}]
  BY <1>t DEF Commit, RowsOK, DropPending
<1>6. runs' \in [Ticks -> [written : Nat, calls : Nat] \cup {None}]
  BY <1>t DEF Commit, RowsOK, TicksOK
<1>7. RowsOK'
  BY <1>t, <1>3, <1>4, <1>5, <1>6 DEF Commit, RowsOK
<1>8. TicksOK' /\ \A u \in Ticks : Bound(u)'
  BY ForgetTypes DEF Commit, Ended
<1> QED
  BY <1>7, <1>8 DEF TypeBound, TypeOK

\* Steps that touch neither what Bound speaks of nor the rows.
LEMMA BoundKept ==
    ASSUME TypeBound, UNCHANGED <<pc, header, evalmap>>
    PROVE  \A u \in Ticks : Bound(u)'
BY DEF TypeBound, Bound, Wanted, header

LEMMA LLMTypes ==
    ASSUME TypeBound, NEW t \in Ticks, LLMStep(t)
    PROVE  TypeBound'
<1> PICK p \in Pairs : \/ SkipCall(t, p) \/ StartCall(t, p)
                       \/ CallAnswers(t, p) \/ CallEscalates(t, p)
                       \/ CallFails(t, p)
                       \/ EscalationAnswers(t, p) \/ EscalationFails(t, p)
  BY DEF LLMStep
<1>1. UNCHANGED InLLM
  BY DEF SkipCall, StartCall, CallAnswers, CallEscalates, CallFails,
         EscalationAnswers, EscalationFails
<1>2. PICK x \in TaskState : SetTask(t, p, x)
  BY DEF SkipCall, StartCall, CallAnswers, CallEscalates, CallFails,
         EscalationAnswers, EscalationFails, TaskState, InFlight, Answered
<1>3. UNCHANGED guard \/ RecordSuccess(t) \/ RecordFailure(t)
  BY DEF SkipCall, StartCall, CallAnswers, CallEscalates, CallFails,
         EscalationAnswers, EscalationFails
<1>4. task' \in [Ticks -> [Pairs -> TaskState]]
  BY <1>2 DEF SetTask, TypeBound, TypeOK, TicksOK
<1>5. /\ spent' \in [Ticks -> Nat] /\ fails' \in [Ticks -> Nat]
      /\ open' \in [Ticks -> {"closed", "budget_exceeded", "circuit_open"}]
  <2>t. /\ spent \in [Ticks -> Nat] /\ fails \in [Ticks -> Nat]
        /\ open \in [Ticks -> {"closed", "budget_exceeded", "circuit_open"}]
    BY DEF TypeBound, TypeOK, TicksOK
  <2>1. CASE UNCHANGED guard
    BY <2>1, <2>t DEF guard
  <2>2. CASE RecordSuccess(t)
    BY <2>2, <2>t DEF RecordSuccess
  <2>3. CASE RecordFailure(t)
    BY <2>3, <2>t DEF RecordFailure
  <2> QED
    BY <1>3, <2>1, <2>2, <2>3
<1>6. RowsOK'
  BY <1>1 DEF InLLM, database, TypeBound, TypeOK, RowsOK
<1>7. TicksOK'
  BY <1>1, <1>4, <1>5 DEF InLLM, header, counters, TypeBound, TypeOK, TicksOK
<1> QED
  BY <1>1, <1>6, <1>7, BoundKept DEF InLLM, TypeBound, TypeOK

LEMMA InsertTypes ==
    ASSUME TypeBound, NEW t \in Ticks, NEW p \in Pairs, NEW k \in Keys,
           NEW src \in {"stub", "real", "fallback"}, Insert(t, p, k, src),
           pc[t] = "persist"
    PROVE  TypeBound'
<1>1. [src |-> src, by |-> t] \in Rows
  BY PipelineAssumption DEF Rows
<1>2. RowsOK'
  BY <1>1 DEF Insert, database, TypeBound, TypeOK, RowsOK
<1>3. TicksOK'
  <2>t. TicksOK
    BY DEF TypeBound, TypeOK
  <2>1. evalmap' \in [Ticks -> [Pairs -> Keys \cup {None}]]
    BY <2>t DEF Insert, TicksOK
  <2>2. written' \in [Ticks -> Nat] /\ calls' \in [Ticks -> Nat]
    <3>t. written \in [Ticks -> Nat] /\ calls \in [Ticks -> Nat]
      BY <2>t DEF TicksOK
    <3>1. \/ UNCHANGED counters
          \/ /\ written' = [written EXCEPT ![t] = @ + 1]
             /\ calls' = [calls EXCEPT ![t] = IF src = "real" THEN @ + 1 ELSE @]
      BY DEF Insert
    <3> QED
      BY <3>t, <3>1 DEF counters
  <2> QED
    BY <2>t, <2>1, <2>2 DEF Insert, header, guard, TicksOK
<1>4. ASSUME NEW u \in Ticks PROVE Bound(u)'
  <2>1. Bound(u) /\ evalmap' = [evalmap EXCEPT ![t][p] = k]
    BY DEF Insert, TypeBound
  <2>2. pc' = pc /\ sel' = sel /\ bind' = bind /\ yaml' = yaml
    BY DEF Insert, header
  <2>3. pc[u] = "score" => evalmap'[u] = evalmap[u]
    BY <2>1 DEF TypeBound, TypeOK, TicksOK
  <2> QED
    BY <2>1, <2>2, <2>3 DEF Bound, Wanted
<1> QED
  BY <1>2, <1>3, <1>4 DEF TypeBound, TypeOK

LEMMA TypeBoundInductive == TypeBound /\ [Next]_vars => TypeBound'
<1> SUFFICES ASSUME TypeBound, [Next]_vars PROVE TypeBound'
  OBVIOUS
<1>t. RowsOK /\ TicksOK /\ \A t \in Ticks : Bound(t)
  BY DEF TypeBound, TypeOK
<1>1. ASSUME NEW t \in Ticks, NEW y \in Yamls, StartTick(t, y)
      PROVE  TypeBound'
  <2>1. RowsOK'
    BY <1>1, <1>t DEF StartTick, RowsOK, database
  <2>2. TicksOK'
    BY <1>1, <1>t DEF StartTick, TicksOK, Statements, guard, counters
  <2>3. \A u \in Ticks : Bound(u)'
    BY <1>1, <1>t DEF StartTick, TicksOK, Bound, Wanted, Statements
  <2> QED
    BY <2>1, <2>2, <2>3 DEF TypeBound, TypeOK
<1>2. ASSUME NEW t \in Ticks, ReadDefinition(t) PROVE TypeBound'
  <2>1. RowsOK'
    BY <1>2, <1>t DEF ReadDefinition, RowsOK, database
  <2>2. TicksOK'
    <3>1. /\ pc' \in [Ticks -> {"idle"} \cup Statements \cup Ended]
          /\ prev' \in [Ticks -> SUBSET Versions]
      BY <1>2, <1>t DEF ReadDefinition, RowsOK, TicksOK, Statements
    <3> QED
      BY <3>1, <1>2, <1>t DEF ReadDefinition, TicksOK, guard, counters
  <2>3. \A u \in Ticks : Bound(u)'
    BY <1>2, <1>t DEF ReadDefinition, TicksOK, Bound, Wanted, Statements
  <2> QED
    BY <2>1, <2>2, <2>3 DEF TypeBound, TypeOK
<1>3. ASSUME NEW t \in Ticks, Register(t) PROVE TypeBound'
  <2>1. RowsOK'
    BY <1>3, <1>t DEF Register, RowsOK, database
  <2>2. TicksOK'
    BY <1>3, <1>t DEF Register, TicksOK, Statements, guard, counters
  <2>3. \A u \in Ticks : Bound(u)'
    BY <1>3, <1>t DEF Register, TicksOK, Bound, Wanted, Statements
  <2> QED
    BY <2>1, <2>2, <2>3 DEF TypeBound, TypeOK
<1>4. ASSUME NEW t \in Ticks, Diverged(t) \/ RegisterConflicts(t) \/ Fail(t)
      PROVE  TypeBound'
  BY <1>4, AbortTypes DEF Diverged, RegisterConflicts, Fail
<1>5. ASSUME NEW t \in Ticks, NEW S \in Selections, SelectMarkets(t, S)
      PROVE  TypeBound'
  <2>1. RowsOK'
    BY <1>5, <1>t DEF SelectMarkets, RowsOK, database
  <2>2. TicksOK'
    BY <1>5, <1>t, PipelineAssumption
       DEF SelectMarkets, TicksOK, Statements, guard, counters
  <2>3. \A u \in Ticks : Bound(u)'
    BY <1>5, <1>t DEF SelectMarkets, TicksOK, Bound, Wanted, Statements
  <2> QED
    BY <2>1, <2>2, <2>3 DEF TypeBound, TypeOK
<1>6. ASSUME NEW t \in Ticks, NEW f \in Factors, ResolveModel(t, f)
      PROVE  TypeBound'
  <2>1. RowsOK'
    BY <1>6, <1>t DEF ResolveModel, RowsOK, database
  <2>2. active[f] \in Models /\ bind[t] \in [Factors -> Models \cup {None}]
    BY <1>t DEF RowsOK, TicksOK
  <2>3. TicksOK'
    BY <1>6, <1>t, <2>2 DEF ResolveModel, TicksOK, Statements, guard, counters
  <2>4. pc'[t] \in {"load", "llm", "persist", "score"}
        => bind'[t] \in [Factors -> Models]
    <3> SUFFICES ASSUME \A g \in Factors \ {f} : bind[t][g] # None
                 PROVE  bind'[t] \in [Factors -> Models]
      BY <1>6, <1>t DEF ResolveModel, TicksOK
    <3>1. bind'[t] = [bind[t] EXCEPT ![f] = active[f]]
      BY <1>6, <1>t DEF ResolveModel, TicksOK
    <3>2. \A g \in Factors \ {f} : bind[t][g] \in Models
      BY <2>2
    <3> QED
      BY <2>2, <3>1, <3>2
  <2>5. \A u \in Ticks : Bound(u)'
    <3> SUFFICES ASSUME NEW u \in Ticks PROVE Bound(u)'
      OBVIOUS
    <3>1. CASE u = t
      <4>1. pc[t] = "resolve" /\ pc'[t] \in {"load", "resolve"} /\ yaml' = yaml
        BY <1>6, <1>t DEF ResolveModel, TicksOK
      <4> QED
        BY <3>1, <4>1, <2>4, <1>t DEF Bound, Statements
    <3>2. CASE u # t
      <4>1. /\ pc'[u] = pc[u] /\ bind'[u] = bind[u]
            /\ yaml' = yaml /\ evalmap' = evalmap /\ sel' = sel
        BY <3>2, <1>6, <1>t DEF ResolveModel, TicksOK
      <4> QED
        BY <4>1, <1>t DEF Bound, Wanted
    <3> QED
      BY <3>1, <3>2
  <2> QED
    BY <2>1, <2>3, <2>5 DEF TypeBound, TypeOK
<1>7. ASSUME NEW t \in Ticks, NEW f \in Factors, NEW q \in {"tier2", "own"},
             LoadCache(t, f, q)
      PROVE  TypeBound'
  <2> DEFINE m == IF q = "tier2" THEN Tier2 ELSE bind[t][f]
             found == {p \in Todo(t) : p[2] = f /\ evals[KeyOf(t, p, m)] # NoRow}
  <2>1. pc[t] = "load" /\ yaml[t] \in Yamls /\ bind[t][f] \in Models
    BY <1>7, <1>t DEF LoadCache, Bound, Statements
  <2>2. \A p \in Pairs : KeyOf(t, p, m) \in Keys
    BY <2>1, KeysAreKeys DEF KeyOf
  <2>3. evalmap' = [evalmap EXCEPT ![t] =
                      [p \in Pairs |-> IF p \in found THEN KeyOf(t, p, m)
                                       ELSE evalmap[t][p]]]
    BY <1>7 DEF LoadCache
  <2> HIDE DEF m, found
  <2>4. evalmap' \in [Ticks -> [Pairs -> Keys \cup {None}]]
    BY <2>2, <2>3, <1>t DEF TicksOK
  <2>5. loaded' \in [Ticks -> SUBSET (Factors \X {"tier2", "own"})]
    BY <1>7, <1>t DEF LoadCache, TicksOK
  <2>6. RowsOK'
    BY <1>7, <1>t DEF LoadCache, RowsOK, database
  <2>7. TicksOK'
    BY <1>7, <1>t, <2>4, <2>5 DEF LoadCache, TicksOK, header, guard, counters
  <2>8. \A u \in Ticks : Bound(u)'
    <3>1. \A u \in Ticks : u # t => evalmap'[u] = evalmap[u]
      BY <2>3, <1>t DEF TicksOK
    <3> QED
      BY <1>7, <1>t, <2>1, <3>1 DEF LoadCache, header, Bound, Wanted
  <2> QED
    BY <2>6, <2>7, <2>8 DEF TypeBound, TypeOK
<1>8. ASSUME NEW t \in Ticks, PlanCalls(t) PROVE TypeBound'
  <2>1. RowsOK'
    BY <1>8, <1>t DEF PlanCalls, RowsOK, database
  <2>2. TicksOK'
    BY <1>8, <1>t DEF PlanCalls, TicksOK, Statements, TaskState, header, guard,
                      counters
  <2>3. \A u \in Ticks : Bound(u)'
    BY <1>8, <1>t DEF PlanCalls, TicksOK, Bound, Wanted, Statements, header
  <2> QED
    BY <2>1, <2>2, <2>3 DEF TypeBound, TypeOK
<1>9. ASSUME NEW t \in Ticks, LLMStep(t) PROVE TypeBound'
  BY <1>9, LLMTypes
<1>10. ASSUME NEW t \in Ticks, Gathered(t) PROVE TypeBound'
  <2>1. RowsOK'
    BY <1>10, <1>t DEF Gathered, RowsOK, database
  <2>2. TicksOK'
    BY <1>10, <1>t DEF Gathered, TicksOK, Statements, header, guard, counters
  <2>3. \A u \in Ticks : Bound(u)'
    BY <1>10, <1>t DEF Gathered, TicksOK, Bound, Wanted, Statements, header
  <2> QED
    BY <2>1, <2>2, <2>3 DEF TypeBound, TypeOK
<1>11. ASSUME NEW t \in Ticks, NEW p \in Pairs, Persist(t, p) PROVE TypeBound'
  <2>1. pc[t] = "persist" /\ p[2] \in Factors
    BY <1>11 DEF Persist, NextPair, Pairs
  <2>2. OwnKey(t, p) \in Keys
    BY <2>1, <1>t, KeysAreKeys DEF Bound, Statements, OwnKey, KeyOf
  <2> QED
    BY <1>11, <2>1, <2>2, InsertTypes DEF Persist, SourceOf
<1>12. ASSUME NEW t \in Ticks, NEW p \in Pairs, PersistEscalation(t, p)
       PROVE  TypeBound'
  <2>1. pc[t] = "persist"
    BY <1>12 DEF PersistEscalation
  <2>2. KeyOf(t, p, Tier2) \in Keys
    BY <2>1, <1>t, KeysAreKeys DEF Bound, Statements, KeyOf
  <2> QED
    BY <1>12, <2>1, <2>2, InsertTypes DEF PersistEscalation
<1>13. ASSUME NEW t \in Ticks, Persisted(t) PROVE TypeBound'
  <2>1. RowsOK'
    BY <1>13, <1>t DEF Persisted, RowsOK, database
  <2>2. TicksOK'
    BY <1>13, <1>t DEF Persisted, TicksOK, Statements, header, guard, counters
  <2>3. \A p \in Wanted(t) : evalmap[t][p] \in Keys \ {None}
    BY <1>13, <1>t DEF Persisted, Todo, Wanted, TicksOK, Pairs
  <2>4. \A u \in Ticks : Bound(u)'
    BY <1>13, <1>t, <2>3 DEF Persisted, TicksOK, Bound, Wanted, Statements, header
  <2> QED
    BY <2>1, <2>2, <2>4 DEF TypeBound, TypeOK
<1>14. ASSUME NEW t \in Ticks, Commit(t) PROVE TypeBound'
  BY <1>14, CommitTypes
<1>15. ASSUME NEW f \in Factors, NEW m \in Registry, Promote(f, m)
       PROVE  TypeBound'
  <2>1. RowsOK'
    BY <1>15, <1>t DEF Promote, RowsOK, Models
  <2>2. TicksOK'
    BY <1>15, <1>t DEF Promote, TicksOK, header, guard, counters
  <2> QED
    BY <1>15, <2>1, <2>2, BoundKept DEF Promote, TypeBound, TypeOK
<1>16. CASE UNCHANGED vars
  <2>1. RowsOK' /\ TicksOK'
    BY <1>16, <1>t DEF vars, RowsOK, TicksOK, database, header, guard, counters
  <2> QED
    BY <1>16, <2>1, BoundKept DEF vars, TypeBound, TypeOK
<1> QED
  BY <1>1, <1>2, <1>3, <1>4, <1>5, <1>6, <1>7, <1>8, <1>9, <1>10, <1>11, <1>12,
     <1>13, <1>14, <1>15, <1>16 DEF Next, TickStep

LEMMA TypeBoundInit == Init => TypeBound
<1> SUFFICES ASSUME Init PROVE TypeBound
  OBVIOUS
<1>1. RowsOK
  <2>1. defSha \in [Versions -> Shas \cup {None}] /\ current \in SUBSET Versions
    <3>1. CASE defSha = [v \in Versions |-> None] /\ current = {}
      BY <3>1
    <3>2. ASSUME NEW y \in Yamls,
                 defSha = [v \in Versions |-> IF v = y.version THEN y.sha ELSE None],
                 current = {y.version}
          PROVE  defSha \in [Versions -> Shas \cup {None}] /\ current \in SUBSET Versions
      <4>1. y.version \in Versions /\ y.sha \in Shas
        BY DEF Versions, Shas
      <4> QED
        BY <3>2, <4>1
    <3> QED
      BY <3>1, <3>2 DEF Init
  <2> QED
    BY <2>1 DEF Init, RowsOK, Models
<1>2. TicksOK
  BY DEF Init, TicksOK, NoBind, NoMap, NoTask, TaskState
<1>3. \A t \in Ticks : Bound(t)
  BY DEF Init, Bound, Statements
<1> QED
  BY <1>1, <1>2, <1>3 DEF TypeBound, TypeOK

\* Every row and every tick keeps its type: what a tick inserts and scores are
\* proper cache keys, whatever it loaded, resolved and was answered.
THEOREM TickTypes == Spec => []TypeOK
<1>1. TypeBound => TypeOK
  BY DEF TypeBound
<1> QED
  BY <1>1, TypeBoundInit, TypeBoundInductive, PTL DEF Spec
-----------------------------------------------------------------------------
(* The cache and the scores *)

\* An uncommitted row belongs to a running tick and meets no committed one.
Uncommitted(k) ==
    pending[k] # NoRow => /\ evals[k] = NoRow
                          /\ pending[k].by \in Ticks
                          /\ pc[pending[k].by] \in Statements

\* What a running tick has mapped is committed or its own, and lies under its
\* definition.
Mapped(t, p) ==
    evalmap[t][p] # None => /\ pc[t] \in Statements
                            /\ evalmap[t][p][1] = yaml[t].version
                            /\ \/ evals[evalmap[t][p]] # NoRow
                               \/ OwnRow(t, evalmap[t][p])

CacheInv ==
    /\ \A k \in Keys : Uncommitted(k)
    /\ \A t \in Ticks, p \in Pairs : Mapped(t, p)
    /\ ScoreLineage
    /\ AllOrNothing

cacheVars == <<evals, pending, scores, runs, evalmap>>

\* Steps that move a tick along and leave the cache alone.
LEMMA CacheKept ==
    ASSUME CacheInv, UNCHANGED cacheVars,
           \A t \in Ticks : pc[t] \in Statements
                           => pc'[t] \in Statements /\ yaml'[t] = yaml[t]
    PROVE  CacheInv'
<1>1. \A k \in Keys : Uncommitted(k)'
  BY DEF CacheInv, Uncommitted, cacheVars
<1>2. \A t \in Ticks, p \in Pairs : Mapped(t, p)'
  BY DEF CacheInv, Mapped, OwnRow, cacheVars
<1>3. ScoreLineage' /\ AllOrNothing'
  BY DEF CacheInv, cacheVars, ScoreLineage, AllOrNothing
<1> QED
  BY <1>1, <1>2, <1>3 DEF CacheInv

LEMMA AbortCache ==
    ASSUME TypeBound, CacheInv, NEW t \in Ticks, Abort(t)
    PROVE  CacheInv'
<1>t. /\ pending \in [Keys -> Rows \cup {NoRow}]
      /\ evalmap \in [Ticks -> [Pairs -> Keys \cup {None}]]
  BY DEF TypeBound, TypeOK, RowsOK, TicksOK
<1>1. UNCHANGED <<evals, scores, runs>>
  BY DEF Abort, database
<1>2. \A k \in Keys : pending'[k] = IF OwnRow(t, k) THEN NoRow ELSE pending[k]
  BY DEF Abort, DropPending
<1>3. \A u \in Ticks : u # t => /\ pc'[u] = pc[u] /\ yaml'[u] = yaml[u]
                                /\ evalmap'[u] = evalmap[u]
  BY DEF Abort, Forget, TypeBound, TypeOK, TicksOK
<1>4. \A p \in Pairs : evalmap'[t][p] = None
  BY <1>t DEF Abort, Forget, NoMap
<1>5. \A k \in Keys : Uncommitted(k)'
  BY <1>1, <1>2, <1>3 DEF CacheInv, OwnRow, Uncommitted
<1>6. ASSUME NEW u \in Ticks, NEW p \in Pairs, evalmap'[u][p] # None
      PROVE  Mapped(u, p)'
  <2>1. u # t /\ evalmap'[u][p] = evalmap[u][p] /\ evalmap[u][p] \in Keys
    BY <1>3, <1>4, <1>6, <1>t
  <2> QED
    BY <2>1, <1>1, <1>2, <1>3 DEF CacheInv, Mapped, OwnRow
<1>7. ScoreLineage' /\ AllOrNothing'
  BY <1>1 DEF CacheInv, ScoreLineage, AllOrNothing
<1> QED
  BY <1>5, <1>6, <1>7 DEF CacheInv, Mapped

LEMMA InsertCache ==
    ASSUME TypeBound, CacheInv, NEW t \in Ticks, NEW p \in Pairs, NEW k \in Keys,
           NEW src \in {"stub", "real", "fallback"}, Insert(t, p, k, src),
           pc[t] = "persist", k[1] = yaml[t].version
    PROVE  CacheInv'
<1>t. /\ pending \in [Keys -> Rows \cup {NoRow}]
      /\ evalmap \in [Ticks -> [Pairs -> Keys \cup {None}]]
  BY DEF TypeBound, TypeOK, RowsOK, TicksOK
<1>1. UNCHANGED <<evals, scores, runs, pc, yaml>>
  BY DEF Insert, database, header
<1>2. \/ pending' = pending /\ evals[k] # NoRow
      \/ /\ evals[k] = NoRow /\ pending[k] = NoRow
         /\ pending' = [pending EXCEPT ![k] = [src |-> src, by |-> t]]
  BY DEF Insert
<1>3. [src |-> src, by |-> t] # NoRow /\ pc[t] \in Statements
  BY PipelineAssumption DEF Statements
<1>4. \A c \in Keys : /\ pending'[c] # pending[c]
                        => /\ c = k /\ evals[k] = NoRow /\ pending[k] = NoRow
                           /\ pending'[c].by = t /\ pending'[c] # NoRow
  BY <1>2, <1>3, <1>t
<1>5. \A c \in Keys : Uncommitted(c)'
  BY <1>1, <1>3, <1>4 DEF CacheInv, Uncommitted
<1>6. \A u \in Ticks, q \in Pairs :
          \/ evalmap'[u][q] = evalmap[u][q]
          \/ u = t /\ q = p /\ evalmap'[u][q] = k
  BY <1>t DEF Insert
<1>7. evals[k] # NoRow \/ OwnRow(t, k)'
  BY <1>2, <1>3, <1>t DEF OwnRow
<1>8. ASSUME NEW u \in Ticks, NEW q \in Pairs, evalmap'[u][q] # None
      PROVE  Mapped(u, q)'
  <2>1. CASE u = t /\ q = p /\ evalmap'[u][q] = k
    BY <2>1, <1>1, <1>3, <1>7 DEF Mapped, OwnRow
  <2>2. CASE evalmap'[u][q] = evalmap[u][q]
    <3>1. evalmap[u][q] \in Keys
      BY <2>2, <1>8, <1>t
    <3>2. OwnRow(u, evalmap[u][q]) => OwnRow(u, evalmap[u][q])'
      BY <2>2, <3>1, <1>4 DEF OwnRow
    <3> QED
      BY <2>2, <3>2, <1>1, <1>8 DEF CacheInv, Mapped
  <2> QED
    BY <2>1, <2>2, <1>6
<1>9. ScoreLineage' /\ AllOrNothing'
  BY <1>1 DEF CacheInv, ScoreLineage, AllOrNothing
<1> QED
  BY <1>5, <1>8, <1>9 DEF CacheInv, Mapped

LEMMA CommitCache ==
    ASSUME TypeBound, CacheInv, NEW t \in Ticks, Commit(t)
    PROVE  CacheInv'
<1> DEFINE s == [by |-> t, version |-> yaml[t].version, sha |-> yaml[t].sha,
                 used |-> {evalmap[t][p] : p \in Wanted(t)}]
<1>t. /\ pending \in [Keys -> Rows \cup {NoRow}] /\ evals \in [Keys -> Rows \cup {NoRow}]
      /\ evalmap \in [Ticks -> [Pairs -> Keys \cup {None}]]
      /\ runs \in [Ticks -> [written : Nat, calls : Nat] \cup {None}]
      /\ scores \in SUBSET [by : Ticks, version : Versions, sha : Shas, used : SUBSET Keys]
  BY DEF TypeBound, TypeOK, RowsOK, TicksOK
<1>1. \A k \in Keys :
          /\ evals'[k] = IF OwnRow(t, k) THEN pending[k] ELSE evals[k]
          /\ pending'[k] = IF OwnRow(t, k) THEN NoRow ELSE pending[k]
  <2>1. evals' = [k \in Keys |-> IF OwnRow(t, k) THEN pending[k] ELSE evals[k]]
    BY DEF Commit
  <2>2. pending' = [k \in Keys |-> IF OwnRow(t, k) THEN NoRow ELSE pending[k]]
    BY DEF Commit, DropPending
  <2> QED
    BY <2>1, <2>2
<1>2. \A u \in Ticks : u # t => /\ pc'[u] = pc[u] /\ yaml'[u] = yaml[u]
                                /\ evalmap'[u] = evalmap[u] /\ runs'[u] = runs[u]
  BY <1>t DEF Commit, Forget, TypeBound, TypeOK, TicksOK
<1>3. \A p \in Pairs : evalmap'[t][p] = None
  BY <1>t DEF Commit, Forget, NoMap
<1>4. \A k \in Keys : evals[k] # NoRow => evals'[k] = evals[k]
  BY <1>1 DEF CacheInv, Uncommitted, OwnRow
<1>5. runs'[t] # None
  <2>1. runs'[t] = [written |-> written[t], calls |-> calls[t]]
    BY <1>t DEF Commit
  <2>2. written[t] \in Nat /\ calls[t] \in Nat
    BY DEF TypeBound, TypeOK, TicksOK
  <2> QED
    BY <2>1, <2>2, PipelineAssumption
<1>6. scores' = scores \cup {s}
  BY DEF Commit
<1>7. \A k \in Keys : Uncommitted(k)'
  BY <1>1, <1>2 DEF CacheInv, OwnRow, Uncommitted
<1>8. ASSUME NEW u \in Ticks, NEW p \in Pairs, evalmap'[u][p] # None
      PROVE  Mapped(u, p)'
  <2>1. u # t /\ evalmap'[u][p] = evalmap[u][p] /\ evalmap[u][p] \in Keys
    BY <1>2, <1>3, <1>8, <1>t
  <2> QED
    BY <2>1, <1>1, <1>2, <1>4 DEF CacheInv, Mapped, OwnRow
<1>9. ScoreLineage'
  <2>1. ASSUME NEW k \in s.used PROVE k[1] = s.version /\ evals'[k] # NoRow
    <3>1. PICK p \in Wanted(t) : k = evalmap[t][p]
      BY DEF s
    <3>2. pc[t] = "score" /\ p \in Pairs /\ k \in Keys
      BY <3>1 DEF Commit, TypeBound, TypeOK, TicksOK, Bound, Wanted, Pairs
    <3>3. k # None
      BY <3>1, <3>2 DEF TypeBound, Bound
    <3> QED
      BY <3>1, <3>2, <3>3, <1>1, <1>4 DEF CacheInv, Mapped, OwnRow
  <2>2. ASSUME NEW r \in scores, NEW k \in r.used
        PROVE  k[1] = r.version /\ evals'[k] # NoRow
    <3>1. k \in Keys
      BY <1>t
    <3> QED
      BY <3>1, <1>4 DEF CacheInv, ScoreLineage
  <2> HIDE DEF s
  <2> QED
    BY <2>1, <2>2, <1>6 DEF ScoreLineage
<1>10. AllOrNothing'
  <2>1. s.by = t
    OBVIOUS
  <2> HIDE DEF s
  <2>2. \A u \in Ticks : (runs'[u] # None) <=> (\E r \in scores' : r.by = u)
    BY <2>1, <1>2, <1>5, <1>6 DEF CacheInv, AllOrNothing
  <2>3. \A k \in Keys : evals'[k] # NoRow /\ evals'[k].by \in Ticks
                         => runs'[evals'[k].by] # None
    BY <1>1, <1>2, <1>5 DEF CacheInv, AllOrNothing, OwnRow, Uncommitted
  <2> QED
    BY <2>2, <2>3 DEF AllOrNothing
<1> QED
  BY <1>7, <1>8, <1>9, <1>10 DEF CacheInv, Mapped

LEMMA CacheInductive == TypeBound /\ CacheInv /\ [Next]_vars => CacheInv'
<1> SUFFICES ASSUME TypeBound, CacheInv, [Next]_vars PROVE CacheInv'
  OBVIOUS
<1>t. RowsOK /\ TicksOK /\ \A t \in Ticks : Bound(t)
  BY DEF TypeBound, TypeOK
<1>1. ASSUME NEW t \in Ticks, NEW y \in Yamls, StartTick(t, y) PROVE CacheInv'
  <2>1. \A u \in Ticks : pc[u] \in Statements
                       => pc'[u] \in Statements /\ yaml'[u] = yaml[u]
    BY <1>1, <1>t DEF StartTick, TicksOK, Statements
  <2> QED
    BY <1>1, <2>1, CacheKept DEF StartTick, cacheVars, database
<1>2. ASSUME NEW t \in Ticks,
             \/ ReadDefinition(t) \/ Register(t) \/ PlanCalls(t)
             \/ Gathered(t) \/ Persisted(t)
             \/ \E S \in Selections : SelectMarkets(t, S)
             \/ \E f \in Factors : ResolveModel(t, f)
      PROVE  CacheInv'
  <2>1. \A u \in Ticks : pc[u] \in Statements => pc'[u] \in Statements
    BY <1>2, <1>t DEF ReadDefinition, Register, PlanCalls, Gathered, Persisted,
       SelectMarkets, ResolveModel, TicksOK, Statements
  <2>2. UNCHANGED <<yaml, cacheVars>>
    BY <1>2 DEF ReadDefinition, Register, PlanCalls, Gathered, Persisted,
       SelectMarkets, ResolveModel, cacheVars, database, header
  <2> QED
    BY <2>1, <2>2, CacheKept
<1>3. ASSUME NEW t \in Ticks, LLMStep(t) PROVE CacheInv'
  <2>1. UNCHANGED InLLM
    BY <1>3 DEF LLMStep, SkipCall, StartCall, CallAnswers, CallEscalates,
       CallFails, EscalationAnswers, EscalationFails
  <2> QED
    BY <2>1, CacheKept DEF InLLM, cacheVars, database, header
<1>4. ASSUME NEW t \in Ticks, Diverged(t) \/ RegisterConflicts(t) \/ Fail(t)
      PROVE  CacheInv'
  BY <1>4, AbortCache DEF Diverged, RegisterConflicts, Fail
<1>5. ASSUME NEW t \in Ticks, NEW f \in Factors, NEW q \in {"tier2", "own"},
             LoadCache(t, f, q)
      PROVE  CacheInv'
  <2> DEFINE m == IF q = "tier2" THEN Tier2 ELSE bind[t][f]
  <2>1. /\ UNCHANGED <<evals, pending, scores, runs, pc, yaml>>
        /\ pc[t] \in Statements
    BY <1>5 DEF LoadCache, database, header, Statements
  <2>2. ASSUME NEW u \in Ticks, NEW p \in Pairs, evalmap'[u][p] # evalmap[u][p]
        PROVE  /\ u = t /\ evalmap'[u][p] = KeyOf(t, p, m)
               /\ evals[KeyOf(t, p, m)] # NoRow
    BY <2>2, <1>5, <1>t DEF LoadCache, TicksOK
  <2>3. \A p \in Pairs : KeyOf(t, p, m)[1] = yaml[t].version
    BY DEF KeyOf
  <2> HIDE DEF m
  <2>4. ASSUME NEW u \in Ticks, NEW p \in Pairs, evalmap'[u][p] # None
      PROVE  Mapped(u, p)'
    <3>1. CASE evalmap'[u][p] # evalmap[u][p]
      BY <3>1, <2>1, <2>2, <2>3 DEF Mapped
    <3>2. CASE evalmap'[u][p] = evalmap[u][p]
      BY <3>2, <2>1, <2>4 DEF CacheInv, Mapped, OwnRow
    <3> QED
      BY <3>1, <3>2
  <2> QED
    <3>1. \A k \in Keys : Uncommitted(k)'
      BY <2>1 DEF CacheInv, Uncommitted
    <3>2. ScoreLineage' /\ AllOrNothing'
      BY <2>1 DEF CacheInv, ScoreLineage, AllOrNothing
    <3> QED
      BY <2>4, <3>1, <3>2 DEF CacheInv, Mapped
<1>6. ASSUME NEW t \in Ticks, NEW p \in Pairs, Persist(t, p) PROVE CacheInv'
  <2>1. pc[t] = "persist" /\ p[2] \in Factors
    BY <1>6 DEF Persist, NextPair, Pairs
  <2>2. OwnKey(t, p) \in Keys /\ OwnKey(t, p)[1] = yaml[t].version
    BY <2>1, <1>t, KeysAreKeys DEF Bound, Statements, OwnKey, KeyOf
  <2> QED
    BY <1>6, <2>1, <2>2, InsertCache DEF Persist, SourceOf
<1>7. ASSUME NEW t \in Ticks, NEW p \in Pairs, PersistEscalation(t, p)
      PROVE  CacheInv'
  <2>1. pc[t] = "persist"
    BY <1>7 DEF PersistEscalation
  <2>2. KeyOf(t, p, Tier2) \in Keys /\ KeyOf(t, p, Tier2)[1] = yaml[t].version
    BY <2>1, <1>t, KeysAreKeys DEF Bound, Statements, KeyOf
  <2> QED
    BY <1>7, <2>1, <2>2, InsertCache DEF PersistEscalation
<1>8. ASSUME NEW t \in Ticks, Commit(t) PROVE CacheInv'
  BY <1>8, CommitCache
<1>9. ASSUME NEW f \in Factors, NEW m \in Registry, Promote(f, m)
      PROVE  CacheInv'
  BY <1>9, CacheKept DEF Promote, cacheVars, header
<1>10. CASE UNCHANGED vars
  BY <1>10, CacheKept DEF vars, cacheVars, database, header
<1> QED
  BY <1>1, <1>2, <1>3, <1>4, <1>5, <1>6, <1>7, <1>8, <1>9, <1>10
     DEF Next, TickStep

LEMMA CacheInit == Init => CacheInv
<1> SUFFICES ASSUME Init PROVE CacheInv
  OBVIOUS
<1>1. \A k \in Keys : Uncommitted(k) /\ evals[k] = NoRow
  BY DEF Init, Uncommitted
<1>2. \A t \in Ticks, p \in Pairs : Mapped(t, p)
  BY DEF Init, Mapped, NoMap
<1>3. ScoreLineage /\ AllOrNothing
  BY <1>1 DEF Init, ScoreLineage, AllOrNothing
<1> QED
  BY <1>1, <1>2, <1>3 DEF CacheInv

LEMMA CacheAlways == Spec => [](TypeBound /\ CacheInv)
BY TypeBoundInit, TypeBoundInductive, CacheInit, CacheInductive, PTL DEF Spec

\* The components of a score are committed evaluations of its own definition,
\* for any number of ticks that race for the same cache keys.
THEOREM ScoresHaveLineage == Spec => []ScoreLineage
<1>1. CacheInv => ScoreLineage
  BY DEF CacheInv
<1> QED
  BY <1>1, CacheAlways, PTL

\* A tick's run row, score and evaluations appear together: a tick that fails
\* at any statement leaves none of them.
THEOREM TicksAreAtomic == Spec => []AllOrNothing
<1>1. CacheInv => AllOrNothing
  BY DEF CacheInv
<1> QED
  BY <1>1, CacheAlways, PTL

\* No step of any tick changes a committed evaluation.
THEOREM CacheIsAppendOnly == Spec => EvalRowsImmutable
<1>1. ASSUME TypeBound, CacheInv, [Next]_vars
      PROVE  \A k \in Keys : evals[k] # NoRow => evals'[k] = evals[k]
  <2>1. CASE \E t \in Ticks : Commit(t)
    <3>1. PICK t \in Ticks : Commit(t)
      BY <2>1
    <3>2. evals' = [k \in Keys |-> IF OwnRow(t, k) THEN pending[k] ELSE evals[k]]
      BY <3>1 DEF Commit
    <3>3. \A k \in Keys : evals[k] # NoRow => ~OwnRow(t, k)
      BY <1>1 DEF CacheInv, Uncommitted, OwnRow
    <3> QED
      BY <3>2, <3>3
  <2>2. CASE ~\E t \in Ticks : Commit(t)
    <3>1. ASSUME NEW t \in Ticks, TickStep(t), ~Commit(t) PROVE evals' = evals
      <4>1. CASE LLMStep(t)
        BY <4>1 DEF LLMStep, SkipCall, StartCall, CallAnswers, CallEscalates,
           CallFails, EscalationAnswers, EscalationFails, InLLM, database
      <4>2. CASE \E p \in Pairs : Persist(t, p) \/ PersistEscalation(t, p)
        BY <4>2 DEF Persist, PersistEscalation, Insert, database
      <4>3. CASE Diverged(t) \/ RegisterConflicts(t)
        BY <4>3 DEF Diverged, RegisterConflicts, Abort, database
      <4> QED
        BY <3>1, <4>1, <4>2, <4>3 DEF TickStep, ReadDefinition, Register,
           SelectMarkets, ResolveModel, LoadCache, PlanCalls, Gathered,
           Persisted, database
    <3>2. ASSUME NEW t \in Ticks, Fail(t) PROVE evals' = evals
      BY <3>2 DEF Fail, Abort, database
    <3>3. ASSUME NEW t \in Ticks, NEW y \in Yamls, StartTick(t, y)
          PROVE  evals' = evals
      BY <3>3 DEF StartTick, database
    <3>4. evals' = evals
      BY <1>1, <2>2, <3>1, <3>2, <3>3 DEF Next, Promote, vars, database
    <3> QED
      BY <3>4
  <2> QED
    BY <2>1, <2>2
<1> QED
  BY <1>1, CacheAlways, PTL DEF Spec, EvalRowsImmutable

-----------------------------------------------------------------------------
(* The definitions *)

Working == {"select", "resolve", "load", "llm", "persist", "score"}

Registered == \E v \in Versions : defSha[v] # None

\* One registration at a time is uncommitted; its version is still unknown and
\* it retires whatever is current.
Registering(t) ==
    registers[t] => /\ pc[t] \in Working
                    /\ defSha[yaml[t].version] = None
                    /\ current \subseteq prev[t]

\* A tick past its registration works on the registered text.
OnRegisteredText(t) ==
    pc[t] \in Working
        => registers[t] \/ defSha[yaml[t].version] = yaml[t].sha

DefinitionInv ==
    /\ Registered => \E v \in Versions : current = {v}
    /\ ~Registered => current = {}
    /\ \A t \in Ticks : Registering(t) /\ OnRegisteredText(t)
    /\ \A t, u \in Ticks : registers[t] /\ registers[u] => t = u
    /\ ScoredTextIsRegistered

LEMMA ShasAreTexts == None \notin Shas
BY PipelineAssumption DEF Shas

\* Steps that leave definitions and registrations alone.
LEMMA DefinitionKept ==
    ASSUME TypeBound, DefinitionInv,
           UNCHANGED <<defSha, current, scores, registers>>,
           \A t \in Ticks :
              /\ pc[t] \in Working => /\ pc'[t] \in Working
                                      /\ yaml'[t] = yaml[t] /\ prev'[t] = prev[t]
              /\ OnRegisteredText(t)'
    PROVE  DefinitionInv'
<1>1. \A t \in Ticks : Registering(t)'
  BY DEF DefinitionInv, Registering
<1> QED
  BY <1>1 DEF DefinitionInv, Registered, ScoredTextIsRegistered

LEMMA AbortDefinition ==
    ASSUME TypeBound, DefinitionInv, NEW t \in Ticks, Abort(t)
    PROVE  DefinitionInv'
<1>1. UNCHANGED <<defSha, current, scores>>
  BY DEF Abort, database
<1>2. /\ registers'[t] = FALSE /\ pc'[t] = "failed"
      /\ \A u \in Ticks : u # t => /\ pc'[u] = pc[u] /\ yaml'[u] = yaml[u]
                                   /\ registers'[u] = registers[u]
                                   /\ prev'[u] = prev[u]
  BY DEF Abort, Forget, TypeBound, TypeOK, TicksOK
<1>3. ASSUME NEW u \in Ticks PROVE Registering(u)' /\ OnRegisteredText(u)'
  <2>1. Registering(u) /\ OnRegisteredText(u)
    BY DEF DefinitionInv
  <2> QED
    BY <2>1, <1>1, <1>2 DEF Registering, OnRegisteredText, Working
<1>4. \A u, w \in Ticks : registers'[u] /\ registers'[w] => u = w
  BY <1>2 DEF DefinitionInv
<1> QED
  BY <1>1, <1>3, <1>4 DEF DefinitionInv, Registered, ScoredTextIsRegistered

LEMMA CommitDefinition ==
    ASSUME TypeBound, DefinitionInv, NEW t \in Ticks, Commit(t)
    PROVE  DefinitionInv'
<1> DEFINE v == yaml[t].version
           s == [by |-> t, version |-> v, sha |-> yaml[t].sha,
                 used |-> {evalmap[t][p] : p \in Wanted(t)}]
<1>t. /\ defSha \in [Versions -> Shas \cup {None}]
      /\ scores \in SUBSET [by : Ticks, version : Versions, sha : Shas, used : SUBSET Keys]
      /\ registers \in [Ticks -> BOOLEAN]
  BY DEF TypeBound, TypeOK, RowsOK, TicksOK
<1>1. /\ pc[t] = "score" /\ v \in Versions /\ yaml[t].sha \in Shas /\ yaml[t].sha # None
  BY ShasAreTexts DEF Commit, TypeBound, Bound, Statements, Versions, Shas
<1>2. /\ registers'[t] = FALSE /\ pc'[t] = "done"
      /\ \A u \in Ticks : u # t => /\ pc'[u] = pc[u] /\ yaml'[u] = yaml[u]
                                   /\ registers'[u] = registers[u]
                                   /\ prev'[u] = prev[u]
  BY DEF Commit, Forget, TypeBound, TypeOK, TicksOK
<1>3. scores' = scores \cup {s}
  BY DEF Commit
<1>4. \A u, w \in Ticks : registers'[u] /\ registers'[w] => u = w
  BY <1>2 DEF DefinitionInv
<1>5. CASE registers[t]
  <2>1. /\ defSha' = [defSha EXCEPT ![v] = yaml[t].sha]
        /\ current' = (current \ prev[t]) \cup {v}
    BY <1>5 DEF Commit
  <2>2. defSha[v] = None /\ current' = {v}
    BY <1>5, <2>1 DEF DefinitionInv, Registering
  <2>3. /\ defSha'[v] = yaml[t].sha
        /\ \A w \in Versions : defSha[w] # None => defSha'[w] = defSha[w]
    BY <2>1, <2>2, <1>1, <1>t
  <2>4. Registered' /\ \E w \in Versions : current' = {w}
    BY <2>2, <2>3, <1>1 DEF Registered
  <2>5. ASSUME NEW u \in Ticks PROVE Registering(u)' /\ OnRegisteredText(u)'
    <3>1. CASE u = t
      BY <3>1, <1>2 DEF Registering, OnRegisteredText, Working
    <3>2. CASE u # t
      <4>1. ~registers'[u] /\ ~registers[u]
        BY <3>2, <1>2, <1>5, <1>t DEF DefinitionInv
      <4>2. pc[u] \in Statements
              => yaml[u].version \in Versions /\ yaml[u].sha \in Shas
        BY DEF TypeBound, Bound, Versions, Shas
      <4>3. OnRegisteredText(u)
        BY DEF DefinitionInv
      <4>4. pc[u] \in Working
              => defSha'[yaml[u].version] = yaml[u].sha
        BY <4>1, <4>2, <4>3, <2>3, ShasAreTexts DEF OnRegisteredText, Working, Statements
      <4> QED
        BY <3>2, <4>1, <4>4, <1>2 DEF Registering, OnRegisteredText, Working
    <3> QED
      BY <3>1, <3>2
  <2>6. ScoredTextIsRegistered'
    <3>1. \A r \in scores : defSha'[r.version] = r.sha
      BY <2>3, <1>t, ShasAreTexts DEF DefinitionInv, ScoredTextIsRegistered
    <3>2. s.version = v /\ s.sha = yaml[t].sha
      OBVIOUS
    <3> HIDE DEF s
    <3> QED
      BY <3>1, <3>2, <2>3, <1>3 DEF ScoredTextIsRegistered
  <2> QED
    BY <2>4, <2>5, <2>6, <1>4 DEF DefinitionInv
<1>6. CASE ~registers[t]
  <2>1. defSha' = defSha /\ current' = current
    BY <1>6 DEF Commit
  <2>2. defSha[v] = yaml[t].sha
    BY <1>6, <1>1 DEF DefinitionInv, OnRegisteredText, Working
  <2>3. ASSUME NEW u \in Ticks PROVE Registering(u)' /\ OnRegisteredText(u)'
    <3>1. Registering(u) /\ OnRegisteredText(u)
      BY DEF DefinitionInv
    <3> QED
      BY <3>1, <2>1, <1>2 DEF Registering, OnRegisteredText, Working
  <2>4. ScoredTextIsRegistered'
    <3>1. s.version = v /\ s.sha = yaml[t].sha
      OBVIOUS
    <3> HIDE DEF s
    <3> QED
      BY <3>1, <2>1, <2>2, <1>3 DEF DefinitionInv, ScoredTextIsRegistered
  <2> QED
    BY <2>1, <2>3, <2>4, <1>4 DEF DefinitionInv, Registered
<1> QED
  BY <1>5, <1>6

LEMMA DefinitionInductive == TypeBound /\ DefinitionInv /\ [Next]_vars => DefinitionInv'
<1> SUFFICES ASSUME TypeBound, DefinitionInv, [Next]_vars PROVE DefinitionInv'
  OBVIOUS
<1>t. TicksOK /\ \A t \in Ticks : Bound(t) /\ Registering(t) /\ OnRegisteredText(t)
  BY DEF TypeBound, TypeOK, DefinitionInv
<1>1. ASSUME NEW t \in Ticks, NEW y \in Yamls, StartTick(t, y) PROVE DefinitionInv'
  <2>1. UNCHANGED <<defSha, current, scores, registers, prev>>
    BY <1>1 DEF StartTick, database
  <2>2. /\ pc[t] = "idle" /\ pc'[t] = "define"
        /\ \A u \in Ticks : u # t => pc'[u] = pc[u] /\ yaml'[u] = yaml[u]
    BY <1>1, <1>t DEF StartTick, TicksOK
  <2> QED
    BY <2>1, <2>2, <1>t, DefinitionKept DEF OnRegisteredText, Working
<1>2. ASSUME NEW t \in Ticks, ReadDefinition(t) PROVE DefinitionInv'
  <2>1. UNCHANGED <<defSha, current, scores, registers, yaml>>
    BY <1>2 DEF ReadDefinition, database
  <2>2. /\ pc[t] = "define" /\ pc'[t] \in {"select", "register"}
        /\ pc'[t] = "select" => defSha[yaml[t].version] = yaml[t].sha
        /\ \A u \in Ticks : u # t => pc'[u] = pc[u] /\ prev'[u] = prev[u]
    BY <1>2, <1>t DEF ReadDefinition, TicksOK
  <2> QED
    BY <2>1, <2>2, <1>t, DefinitionKept DEF OnRegisteredText, Working
<1>3. ASSUME NEW t \in Ticks, Register(t) PROVE DefinitionInv'
  <2>1. UNCHANGED <<defSha, current, scores, yaml, prev>>
    BY <1>3 DEF Register, database
  <2>2. /\ pc'[t] = "select" /\ registers'[t] = TRUE
        /\ \A u \in Ticks : u # t => /\ pc'[u] = pc[u]
                                     /\ registers'[u] = registers[u]
    BY <1>3, <1>t DEF Register, TicksOK
  <2>3. /\ \A u \in Ticks : ~registers[u]
        /\ defSha[yaml[t].version] = None /\ current \subseteq prev[t]
    BY <1>3 DEF Register, Unregistered
  <2>4. ASSUME NEW u \in Ticks PROVE Registering(u)' /\ OnRegisteredText(u)'
    <3>1. CASE u = t
      BY <3>1, <2>1, <2>2, <2>3 DEF Registering, OnRegisteredText, Working
    <3>2. CASE u # t
      BY <3>2, <2>1, <2>2, <1>t DEF Registering, OnRegisteredText
    <3> QED
      BY <3>1, <3>2
  <2>5. \A u, w \in Ticks : registers'[u] /\ registers'[w] => u = w
    BY <2>2, <2>3
  <2> QED
    BY <2>1, <2>4, <2>5 DEF DefinitionInv, Registered, ScoredTextIsRegistered
<1>4. ASSUME NEW t \in Ticks, Diverged(t) \/ RegisterConflicts(t) \/ Fail(t)
      PROVE  DefinitionInv'
  BY <1>4, AbortDefinition DEF Diverged, RegisterConflicts, Fail
<1>5. ASSUME NEW t \in Ticks, Commit(t) PROVE DefinitionInv'
  BY <1>5, CommitDefinition
<1>6. ASSUME NEW t \in Ticks,
             \/ PlanCalls(t) \/ Gathered(t) \/ Persisted(t)
             \/ \E S \in Selections : SelectMarkets(t, S)
             \/ \E f \in Factors : ResolveModel(t, f)
      PROVE  DefinitionInv'
  <2>1. UNCHANGED <<defSha, current, scores, registers, yaml, prev>>
    BY <1>6 DEF PlanCalls, Gathered, Persisted, SelectMarkets, ResolveModel,
       database, header
  <2>2. /\ pc[t] \in Working /\ pc'[t] \in Working
        /\ \A u \in Ticks : u # t => pc'[u] = pc[u]
    BY <1>6, <1>t DEF PlanCalls, Gathered, Persisted, SelectMarkets,
       ResolveModel, TicksOK, Working
  <2> QED
    BY <2>1, <2>2, <1>t, DefinitionKept DEF OnRegisteredText
<1>7. ASSUME NEW t \in Ticks,
             \/ \E f \in Factors, q \in {"tier2", "own"} : LoadCache(t, f, q)
             \/ \E p \in Pairs : Persist(t, p) \/ PersistEscalation(t, p)
             \/ LLMStep(t)
      PROVE  DefinitionInv'
  <2>1. UNCHANGED <<defSha, current, scores, registers, yaml, prev, pc>>
    <3>1. CASE LLMStep(t)
      BY <3>1 DEF LLMStep, SkipCall, StartCall, CallAnswers, CallEscalates,
         CallFails, EscalationAnswers, EscalationFails, InLLM, database, header
    <3>2. CASE \E p \in Pairs : Persist(t, p) \/ PersistEscalation(t, p)
      BY <3>2 DEF Persist, PersistEscalation, Insert, database, header
    <3>3. CASE \E f \in Factors, q \in {"tier2", "own"} : LoadCache(t, f, q)
      BY <3>3 DEF LoadCache, database, header
    <3> QED
      BY <1>7, <3>1, <3>2, <3>3
  <2> QED
    BY <2>1, <1>t, DefinitionKept DEF OnRegisteredText
<1>8. ASSUME NEW f \in Factors, NEW m \in Registry, Promote(f, m)
      PROVE  DefinitionInv'
  BY <1>8, <1>t, DefinitionKept DEF Promote, header, OnRegisteredText
<1>9. CASE UNCHANGED vars
  BY <1>9, <1>t, DefinitionKept DEF vars, database, header, OnRegisteredText
<1> QED
  BY <1>1, <1>2, <1>3, <1>4, <1>5, <1>6, <1>7, <1>8, <1>9 DEF Next, TickStep

LEMMA DefinitionInit == Init => DefinitionInv
<1> SUFFICES ASSUME Init PROVE DefinitionInv
  OBVIOUS
<1>1. /\ Registered => \E v \in Versions : current = {v}
      /\ ~Registered => current = {}
  <2>1. CASE defSha = [v \in Versions |-> None] /\ current = {}
    BY <2>1 DEF Registered
  <2>2. ASSUME NEW y \in Yamls,
               defSha = [v \in Versions |-> IF v = y.version THEN y.sha ELSE None],
               current = {y.version}
        PROVE  Registered /\ \E v \in Versions : current = {v}
    <3>1. y.version \in Versions /\ y.sha # None
      BY ShasAreTexts DEF Versions, Shas
    <3> QED
      BY <3>1, <2>2 DEF Registered
  <2> QED
    BY <2>1, <2>2 DEF Init
<1>2. \A t \in Ticks : Registering(t) /\ OnRegisteredText(t)
  BY DEF Init, Registering, OnRegisteredText, Working
<1> QED
  BY <1>1, <1>2 DEF Init, DefinitionInv, ScoredTextIsRegistered

LEMMA DefinitionAlways == Spec => []DefinitionInv
BY TypeBoundInit, TypeBoundInductive, DefinitionInit, DefinitionInductive, PTL
   DEF Spec

\* Once the index has a definition exactly one of its versions is current,
\* however many ticks with different files register at once.
THEOREM OneDefinitionIsCurrent == Spec => []ExactlyOneCurrent
<1>1. DefinitionInv => ExactlyOneCurrent
  BY FS_Singleton DEF DefinitionInv, ExactlyOneCurrent, Registered
<1> QED
  BY <1>1, DefinitionAlways, PTL

\* No score is computed from a text that differs from the one registered for
\* its version.
THEOREM ScoresUseRegisteredText == Spec => []ScoredTextIsRegistered
<1>1. DefinitionInv => ScoredTextIsRegistered
  BY DEF DefinitionInv
<1> QED
  BY <1>1, DefinitionAlways, PTL
-----------------------------------------------------------------------------
(* What a tick counts.  A step is one tick's: it moves no other tick.        *)

Private(u) == <<pc[u], yaml[u], sel[u], bind[u], evalmap[u], task[u],
                spent[u], fails[u], open[u], written[u], calls[u]>>

\* What one tick does by itself, the step that starts it and the one that fails it.
Step(t) == (\E y \in Yamls : StartTick(t, y)) \/ TickStep(t) \/ Fail(t)

LEMMA ForgetOthers ==
    ASSUME TypeBound, NEW t \in Ticks, NEW u \in Ticks, u # t, Forget(t),
           NEW c \in Ended, pc' = [pc EXCEPT ![t] = c]
    PROVE  UNCHANGED Private(u)
BY DEF TypeBound, TypeOK, TicksOK, Forget, Private

LEMMA OthersKeep ==
    ASSUME TypeBound, NEW t \in Ticks, NEW u \in Ticks, u # t, Step(t)
    PROVE  UNCHANGED Private(u)
<1>t. TicksOK
  BY DEF TypeBound, TypeOK
<1>1. ASSUME NEW y \in Yamls, StartTick(t, y) PROVE UNCHANGED Private(u)
  BY <1>1, <1>t DEF StartTick, TicksOK, Private, guard, counters
<1>2. CASE ReadDefinition(t) \/ Register(t)
  BY <1>2, <1>t DEF ReadDefinition, Register, TicksOK, Private, guard, counters
<1>3. CASE Diverged(t) \/ RegisterConflicts(t) \/ Fail(t)
  BY <1>3, ForgetOthers DEF Diverged, RegisterConflicts, Fail, Abort, Ended
<1>4. CASE Commit(t)
  BY <1>4, ForgetOthers DEF Commit, Ended
<1>5. ASSUME NEW S \in Selections, SelectMarkets(t, S) PROVE UNCHANGED Private(u)
  BY <1>5, <1>t DEF SelectMarkets, TicksOK, Private, guard, counters
<1>6. ASSUME NEW f \in Factors, ResolveModel(t, f) PROVE UNCHANGED Private(u)
  BY <1>6, <1>t DEF ResolveModel, TicksOK, Private, guard, counters
<1>7. ASSUME NEW f \in Factors, NEW q \in {"tier2", "own"}, LoadCache(t, f, q)
      PROVE  UNCHANGED Private(u)
  BY <1>7, <1>t DEF LoadCache, TicksOK, Private, header, guard, counters
<1>8. CASE PlanCalls(t) \/ Gathered(t) \/ Persisted(t)
  BY <1>8, <1>t
     DEF PlanCalls, Gathered, Persisted, TicksOK, Private, header, guard, counters
<1>9. CASE LLMStep(t)
  <2> PICK p \in Pairs : \/ SkipCall(t, p) \/ StartCall(t, p)
                         \/ CallAnswers(t, p) \/ CallEscalates(t, p)
                         \/ CallFails(t, p)
                         \/ EscalationAnswers(t, p) \/ EscalationFails(t, p)
    BY <1>9 DEF LLMStep
  <2>1. UNCHANGED InLLM
    BY DEF SkipCall, StartCall, CallAnswers, CallEscalates, CallFails,
           EscalationAnswers, EscalationFails
  <2>2. \E x : SetTask(t, p, x)
    BY DEF SkipCall, StartCall, CallAnswers, CallEscalates, CallFails,
           EscalationAnswers, EscalationFails
  <2>3. UNCHANGED guard \/ RecordSuccess(t) \/ RecordFailure(t)
    BY DEF SkipCall, StartCall, CallAnswers, CallEscalates, CallFails,
           EscalationAnswers, EscalationFails
  <2>4. task'[u] = task[u]
    BY <2>2, <1>t DEF SetTask, TicksOK
  <2>5. spent'[u] = spent[u] /\ fails'[u] = fails[u] /\ open'[u] = open[u]
    BY <2>3, <1>t DEF RecordSuccess, RecordFailure, guard, TicksOK
  <2> QED
    BY <2>1, <2>4, <2>5 DEF InLLM, header, counters, Private
<1>10. ASSUME NEW p \in Pairs, NEW k, NEW src, Insert(t, p, k, src)
       PROVE  UNCHANGED Private(u)
  BY <1>10, <1>t DEF Insert, TicksOK, Private, header, guard, counters
<1>11. ASSUME NEW p \in Pairs, Persist(t, p) \/ PersistEscalation(t, p)
       PROVE  UNCHANGED Private(u)
  BY <1>10, <1>11 DEF Persist, PersistEscalation
<1> QED
  BY <1>1, <1>2, <1>3, <1>4, <1>5, <1>6, <1>7, <1>8, <1>9, <1>11
     DEF Step, TickStep

\* The calls of a tick that wait for the first model, and for the second.
At(t, s) == {p \in Pairs : task[t][p] = s}

\* While the guard is closed neither bound is reached, so each call in flight
\* can add at most two answers to spent, and one failure to fails.
Guarded(t) ==
    LET one == Cardinality(At(t, "tier1"))
        two == Cardinality(At(t, "tier2"))
    IN  /\ IsFiniteSet(At(t, "tier1")) /\ IsFiniteSet(At(t, "tier2"))
        /\ one + two <= LLMConc
        /\ open[t] = "closed" => /\ Budget > 0 => spent[t] < Budget
                                 /\ FailLimit > 0 => fails[t] < FailLimit
        /\ Budget > 0 => spent[t] + 2 * one + two <= Budget + 2 * LLMConc - 1
        /\ FailLimit > 0 => fails[t] + one + two <= FailLimit + LLMConc - 1

\* A call that changes its state leaves one set of calls and enters another.
LEMMA CallMoves ==
    ASSUME TypeBound, NEW t \in Ticks, NEW p \in Pairs, NEW from, NEW to, from # to,
           task[t][p] = from, SetTask(t, p, to)
    PROVE  /\ p \in At(t, from) /\ p \notin At(t, to)
           /\ At(t, from)' = At(t, from) \ {p}
           /\ At(t, to)' = At(t, to) \cup {p}
           /\ \A s : s \notin {from, to} => At(t, s)' = At(t, s)
<1>1. /\ task'[t][p] = to
      /\ \A q \in Pairs : q # p => task'[t][q] = task[t][q]
  BY DEF SetTask, TypeBound, TypeOK, TicksOK
<1> QED
  BY <1>1 DEF At

LEMMA GuardedLLM ==
    ASSUME TypeBound, NEW t \in Ticks, Guarded(t), LLMStep(t)
    PROVE  Guarded(t)'
<1> PICK p \in Pairs : \/ SkipCall(t, p) \/ StartCall(t, p)
                       \/ CallAnswers(t, p) \/ CallEscalates(t, p)
                       \/ CallFails(t, p)
                       \/ EscalationAnswers(t, p) \/ EscalationFails(t, p)
  BY DEF LLMStep
<1> DEFINE T1 == At(t, "tier1")
           T2 == At(t, "tier2")
<1>t. /\ spent \in [Ticks -> Nat] /\ fails \in [Ticks -> Nat]
      /\ open \in [Ticks -> {"closed", "budget_exceeded", "circuit_open"}]
      /\ task \in [Ticks -> [Pairs -> TaskState]]
      /\ LLMConc \in Nat \ {0} /\ Budget \in Nat /\ FailLimit \in Nat
  BY PipelineAssumption DEF TypeBound, TypeOK, TicksOK
<1>f. /\ IsFiniteSet(T1) /\ IsFiniteSet(T2)
      /\ Cardinality(T1) \in Nat /\ Cardinality(T2) \in Nat
  BY FS_CardinalityType DEF Guarded
<1>1. CASE SkipCall(t, p)
  <2>1. T1' = T1 /\ T2' = T2
    BY <1>1, CallMoves DEF SkipCall, Admitted
  <2> QED
    BY <1>1, <2>1 DEF SkipCall, Guarded, guard
<1>2. CASE StartCall(t, p)
  <2>1. p \notin T1 /\ T1' = T1 \cup {p} /\ T2' = T2
    BY <1>2, CallMoves DEF StartCall, Admitted
  <2>2. IsFiniteSet(T1') /\ Cardinality(T1') = Cardinality(T1) + 1
    BY <2>1, <1>f, FS_AddElement
  <2>3. Cardinality(T1) + Cardinality(T2) < LLMConc
    <3>1. {q \in Pairs : task[t][q] \in InFlight} = T1 \cup T2
      BY DEF InFlight, At
    <3>2. T1 \cap T2 = {}
      BY DEF At
    <3>3. Cardinality(T1 \cup T2) = Cardinality(T1) + Cardinality(T2)
      BY <3>2, <1>f, FS_Union, FS_EmptySet
    <3> QED
      BY <1>2, <3>1, <3>3 DEF StartCall, Admitted
  <2>4. UNCHANGED <<spent, fails, open>> /\ open[t] = "closed"
    BY <1>2 DEF StartCall, guard
  <2> HIDE DEF T1, T2
  <2> QED
    BY <2>1, <2>2, <2>3, <2>4, <1>t, <1>f DEF Guarded, T1, T2
<1>3. CASE CallAnswers(t, p) \/ CallFails(t, p)
  <2>1. p \in T1 /\ T1' = T1 \ {p} /\ T2' = T2
    BY <1>3, CallMoves DEF CallAnswers, CallFails
  <2>2. IsFiniteSet(T1') /\ Cardinality(T1') = Cardinality(T1) - 1
    BY <2>1, <1>f, FS_RemoveElement
  <2>3. RecordSuccess(t) \/ RecordFailure(t)
    BY <1>3 DEF CallAnswers, CallFails
  <2> HIDE DEF T1, T2
  <2> QED
    BY <2>1, <2>2, <2>3, <1>t, <1>f DEF Guarded, T1, T2, RecordSuccess, RecordFailure
<1>4. CASE CallEscalates(t, p)
  <2>1. p \in T1 /\ p \notin T2 /\ T1' = T1 \ {p} /\ T2' = T2 \cup {p}
    BY <1>4, CallMoves DEF CallEscalates
  <2>2. /\ IsFiniteSet(T1') /\ Cardinality(T1') = Cardinality(T1) - 1
        /\ IsFiniteSet(T2') /\ Cardinality(T2') = Cardinality(T2) + 1
    BY <2>1, <1>f, FS_RemoveElement, FS_AddElement
  <2>3. RecordSuccess(t)
    BY <1>4 DEF CallEscalates
  <2> HIDE DEF T1, T2
  <2> QED
    BY <2>2, <2>3, <1>t, <1>f DEF Guarded, T1, T2, RecordSuccess
<1>5. CASE EscalationAnswers(t, p) \/ EscalationFails(t, p)
  <2>1. p \in T2 /\ T2' = T2 \ {p} /\ T1' = T1
    BY <1>5, CallMoves DEF EscalationAnswers, EscalationFails
  <2>2. IsFiniteSet(T2') /\ Cardinality(T2') = Cardinality(T2) - 1
    BY <2>1, <1>f, FS_RemoveElement
  <2>3. RecordSuccess(t) \/ RecordFailure(t)
    BY <1>5 DEF EscalationAnswers, EscalationFails
  <2> HIDE DEF T1, T2
  <2> QED
    BY <2>1, <2>2, <2>3, <1>t, <1>f DEF Guarded, T1, T2, RecordSuccess, RecordFailure
<1> QED
  BY <1>1, <1>2, <1>3, <1>4, <1>5

LEMMA NoElements ==
    ASSUME NEW S, S = {}
    PROVE  IsFiniteSet(S) /\ Cardinality(S) = 0
BY FS_EmptySet

\* A tick none of whose calls is in flight.
LEMMA GuardedFresh ==
    ASSUME TypeBound, NEW t \in Ticks,
           \A p \in Pairs : task'[t][p] \notin InFlight,
           \/ UNCHANGED <<spent[t], fails[t], open[t]>> /\ Guarded(t)
           \/ spent'[t] = 0 /\ fails'[t] = 0
    PROVE  Guarded(t)'
<1>1. /\ IsFiniteSet(At(t, "tier1")') /\ Cardinality(At(t, "tier1")') = 0
      /\ IsFiniteSet(At(t, "tier2")') /\ Cardinality(At(t, "tier2")') = 0
  <2>1. At(t, "tier1")' = {} /\ At(t, "tier2")' = {}
    BY DEF At, InFlight
  <2> QED
    BY <2>1, NoElements
<1>2. LLMConc \in Nat \ {0} /\ Budget \in Nat /\ FailLimit \in Nat
  BY PipelineAssumption
<1>3. CASE spent'[t] = 0 /\ fails'[t] = 0
  BY <1>1, <1>2, <1>3 DEF Guarded
<1>4. CASE UNCHANGED <<spent[t], fails[t], open[t]>> /\ Guarded(t)
  <2>1. spent[t] \in Nat /\ fails[t] \in Nat
    BY DEF TypeBound, TypeOK, TicksOK
  <2>2. Cardinality(At(t, "tier1")) \in Nat /\ Cardinality(At(t, "tier2")) \in Nat
    BY <1>4, FS_CardinalityType DEF Guarded
  <2> QED
    BY <1>1, <1>2, <1>4, <2>1, <2>2 DEF Guarded
<1> QED
  BY <1>3, <1>4

GuardInv == \A t \in Ticks : Guarded(t)

LEMMA GuardInductive == TypeBound /\ GuardInv /\ [Next]_vars => GuardInv'
<1> SUFFICES ASSUME TypeBound, GuardInv, [Next]_vars PROVE GuardInv'
  OBVIOUS
<1>t. TicksOK
  BY DEF TypeBound, TypeOK
<1>k. ASSUME NEW u \in Ticks, UNCHANGED <<task[u], spent[u], fails[u], open[u]>>
      PROVE  Guarded(u)'
  BY <1>k DEF GuardInv, Guarded, At
<1>1. ASSUME NEW t \in Ticks, Step(t) PROVE Guarded(t)'
  <2>1. CASE LLMStep(t)
    BY <2>1, GuardedLLM DEF GuardInv
  <2>2. CASE Diverged(t) \/ RegisterConflicts(t) \/ Fail(t) \/ Commit(t)
    <3>1. Forget(t)
      BY <2>2 DEF Diverged, RegisterConflicts, Fail, Abort, Commit
    <3>2. task'[t] = NoTask /\ spent'[t] = 0 /\ fails'[t] = 0
      BY <3>1, <1>t DEF Forget, TicksOK
    <3> QED
      BY <3>2, GuardedFresh DEF NoTask, InFlight
  <2>3. CASE PlanCalls(t)
    <3>1. \A p \in Pairs : task'[t][p] \in {"queued", "none"}
      BY <2>3, <1>t DEF PlanCalls, TicksOK
    <3> QED
      BY <2>3, <3>1, GuardedFresh DEF PlanCalls, guard, GuardInv, InFlight
  <2>4. CASE \/ \E p \in Pairs : Persist(t, p) \/ PersistEscalation(t, p)
             \/ \E y \in Yamls : StartTick(t, y)
             \/ \E S \in Selections : SelectMarkets(t, S)
             \/ \E f \in Factors : ResolveModel(t, f)
             \/ \E f \in Factors, q \in {"tier2", "own"} : LoadCache(t, f, q)
             \/ ReadDefinition(t) \/ Register(t) \/ Gathered(t) \/ Persisted(t)
    BY <2>4, <1>k DEF Persist, PersistEscalation, Insert, StartTick, SelectMarkets,
       ResolveModel, LoadCache, ReadDefinition, Register, Gathered, Persisted, guard
  <2> QED
    BY <1>1, <2>1, <2>2, <2>3, <2>4 DEF Step, TickStep
<1>2. ASSUME NEW t \in Ticks, Step(t) PROVE GuardInv'
  BY <1>1, <1>2, <1>k, OthersKeep DEF GuardInv, Private
<1>3. ASSUME NEW f \in Factors, NEW m \in Registry, Promote(f, m) PROVE GuardInv'
  BY <1>3, <1>k DEF Promote, guard, GuardInv
<1>4. CASE UNCHANGED vars
  BY <1>4, <1>k DEF vars, guard, GuardInv
<1> QED
  BY <1>2, <1>3, <1>4 DEF Next, Step

\* The budget and the breaker bound what a tick pays and how often it fails in
\* a row, however the answers of its concurrent calls are interleaved.
THEOREM GuardBounded == Spec => []GuardBounds
<1>1. Init => GuardInv
  <2> SUFFICES ASSUME Init, NEW t \in Ticks PROVE Guarded(t)
    BY DEF GuardInv
  <2>1. At(t, "tier1") = {} /\ At(t, "tier2") = {}
    BY DEF Init, At, NoTask
  <2>2. /\ IsFiniteSet(At(t, "tier1")) /\ Cardinality(At(t, "tier1")) = 0
        /\ IsFiniteSet(At(t, "tier2")) /\ Cardinality(At(t, "tier2")) = 0
    BY <2>1, NoElements
  <2> QED
    BY <2>2, PipelineAssumption DEF Init, Guarded
<1>2. TypeBound /\ GuardInv => GuardBounds
  <2> SUFFICES ASSUME TypeBound, GuardInv, NEW t \in Ticks
               PROVE  /\ Budget > 0 => spent[t] <= Budget + 2 * LLMConc - 1
                      /\ FailLimit > 0 => fails[t] <= FailLimit + LLMConc - 1
    BY DEF GuardBounds
  <2>1. /\ Cardinality(At(t, "tier1")) \in Nat /\ Cardinality(At(t, "tier2")) \in Nat
        /\ spent[t] \in Nat /\ fails[t] \in Nat
    BY FS_CardinalityType DEF GuardInv, Guarded, TypeBound, TypeOK, TicksOK
  <2> QED
    BY <2>1, PipelineAssumption DEF GuardInv, Guarded
<1> QED
  BY <1>1, <1>2, TypeBoundInit, TypeBoundInductive, GuardInductive, PTL DEF Spec
-----------------------------------------------------------------------------
(* The accounts of a tick.                                                    *)

\* The rows it has inserted and not committed, and those a real model answered.
OwnRows(t)  == {k \in Keys : OwnRow(t, k)}
RealRows(t) == {k \in OwnRows(t) : pending[k].src = "real"}

\* The keys an answer was paid for.
PaidKeys(t) ==
    {OwnKey(t, p) : p \in At(t, "tier2") \cup At(t, "ok") \cup At(t, "escalated")}
        \cup {KeyOf(t, p, Tier2) : p \in At(t, "escalated")}

Calling == {"llm", "persist", "score"}

\* Each unit of spent is a key that was paid for, and only such keys are
\* inserted as real; both counters are the sizes of sets of rows.
Counted(t) ==
    /\ IsFiniteSet(OwnRows(t))
    /\ written[t] = Cardinality(OwnRows(t))
    /\ calls[t] = Cardinality(RealRows(t))
    /\ pc[t] \in Calling =>
          /\ IsFiniteSet(PaidKeys(t))
          /\ spent[t] = Cardinality(PaidKeys(t))
          /\ RealRows(t) \subseteq PaidKeys(t)
          /\ \A p \in Todo(t) : bind[t][p[2]] # Stub => task[t][p] # "none"
          /\ \A p \in Pairs :
                task[t][p] \in {"tier2", "escalated"} => bind[t][p[2]] # Tier2
    /\ pc[t] \in {"persist", "score"} =>
          \A p \in Pairs : task[t][p] \in Answered \cup {"none"}
    /\ pc[t] \notin Calling =>
          /\ spent[t] = 0 /\ OwnRows(t) = {}
          /\ \A p \in Pairs : task[t][p] = "none"
    /\ runs[t] # None => pc[t] = "done"

Mine(t)     == {k \in Keys : evals[k] # NoRow /\ evals[k].by = t}
MineReal(t) == {k \in Mine(t) : evals[k].src = "real"}

\* The committed totals are those of the committed rows.
Published(t) ==
    runs[t] # None =>
        /\ runs[t].written = Cardinality(Mine(t))
        /\ runs[t].calls = Cardinality(MineReal(t))

CountInv == \A t \in Ticks : Counted(t) /\ Published(t)

\* A step that is not this tick's, or does nothing to its accounts.
LEMMA CountedKept ==
    ASSUME NEW t \in Ticks, Counted(t), UNCHANGED Private(t),
           UNCHANGED <<runs[t], OwnRows(t), RealRows(t)>>
    PROVE  Counted(t)'
<1>1. UNCHANGED <<PaidKeys(t), Todo(t)>>
  BY DEF PaidKeys, OwnKey, KeyOf, At, Todo, Wanted, Private
<1> QED
  BY <1>1 DEF Counted, Private

LEMMA PublishedKept ==
    ASSUME NEW t \in Ticks, Published(t), UNCHANGED <<runs[t], evals>>
    PROVE  Published(t)'
BY DEF Published, Mine, MineReal

\* Before the calls are planned there is nothing to count.
LEMMA CountedEarly ==
    ASSUME NEW t \in Ticks, Counted(t), pc[t] \notin Calling \cup Ended,
           pc'[t] \notin Calling,
           UNCHANGED <<pending, runs, task, spent, counters>>
    PROVE  Counted(t)'
<1>1. UNCHANGED <<OwnRows(t), RealRows(t)>>
  BY DEF OwnRows, RealRows, OwnRow
<1> QED
  BY <1>1 DEF Counted, counters, Calling, Ended

\* A transaction that ends leaves no row uncommitted.
LEMMA Dropped ==
    ASSUME TypeBound, NEW t \in Ticks, DropPending(t)
    PROVE  /\ OwnRows(t)' = {} /\ RealRows(t)' = {}
           /\ \A u \in Ticks : u # t => UNCHANGED <<OwnRows(u), RealRows(u)>>
<1>1. \A k \in Keys : pending'[k] = IF OwnRow(t, k) THEN NoRow ELSE pending[k]
  BY DEF DropPending
<1> QED
  BY <1>1 DEF OwnRows, RealRows, OwnRow

LEMMA CountedEnded ==
    ASSUME TypeBound, NEW t \in Ticks, NEW c \in Ended, DropPending(t), Forget(t),
           pc' = [pc EXCEPT ![t] = c], runs'[t] # None => c = "done"
    PROVE  Counted(t)'
<1>1. /\ written'[t] = 0 /\ calls'[t] = 0 /\ spent'[t] = 0 /\ pc'[t] = c
      /\ c \notin Calling /\ \A p \in Pairs : task'[t][p] = "none"
  BY DEF Forget, NoTask, TypeBound, TypeOK, TicksOK, Ended, Calling
<1>2. OwnRows(t)' = {} /\ RealRows(t)' = {}
  BY Dropped
<1>3. /\ IsFiniteSet(OwnRows(t)') /\ Cardinality(OwnRows(t)') = 0
      /\ Cardinality(RealRows(t)') = 0
  BY <1>2, NoElements
<1> QED
  BY <1>1, <1>2, <1>3 DEF Counted, Calling

LEMMA CountedPlan ==
    ASSUME TypeBound, NEW t \in Ticks, Counted(t), PlanCalls(t)
    PROVE  Counted(t)'
<1>1. /\ pc[t] = "load" /\ pc'[t] = "llm"
      /\ UNCHANGED <<pending, runs, yaml, sel, bind, evalmap, spent, written, calls>>
  BY DEF PlanCalls, database, header, guard, counters, TypeBound, TypeOK, TicksOK
<1>2. \A p \in Pairs :
         task'[t][p] = IF p \in Todo(t) /\ bind[t][p[2]] # Stub THEN "queued"
                       ELSE "none"
  BY DEF PlanCalls, TypeBound, TypeOK, TicksOK
<1>3. UNCHANGED <<OwnRows(t), RealRows(t), Todo(t)>>
  BY <1>1 DEF OwnRows, RealRows, OwnRow, Todo, Wanted
<1>4. PaidKeys(t)' = {}
  BY <1>2 DEF PaidKeys, At
<1>5. IsFiniteSet(PaidKeys(t)') /\ Cardinality(PaidKeys(t)') = 0
  BY <1>4, NoElements
<1>6. OwnRows(t) = {} /\ RealRows(t) = {} /\ spent[t] = 0
  BY <1>1 DEF Counted, Calling, RealRows
<1>7. Todo(t) \in SUBSET Pairs
  BY DEF Todo, Wanted, Pairs, TypeBound, TypeOK, TicksOK
<1> QED
  BY <1>1, <1>2, <1>3, <1>5, <1>6, <1>7 DEF Counted, Calling

\* An answer pays for one more key, a failure for none.
LEMMA PaidLLM ==
    ASSUME TypeBound, NEW t \in Ticks, Counted(t), pc[t] \in Calling,
           NEW p \in Pairs, UNCHANGED InLLM,
           NEW to, SetTask(t, p, to),
           \/ task[t][p] = "queued" /\ to \in {"error", "tier1"} /\ UNCHANGED guard
           \/ task[t][p] = "tier1" /\ to = "error" /\ RecordFailure(t)
           \/ task[t][p] = "tier1" /\ to \in {"ok", "tier2"} /\ RecordSuccess(t)
           \/ task[t][p] = "tier2" /\ to = "ok" /\ RecordFailure(t)
           \/ task[t][p] = "tier2" /\ to = "escalated" /\ RecordSuccess(t)
    PROVE  /\ IsFiniteSet(PaidKeys(t)')
           /\ spent'[t] = Cardinality(PaidKeys(t)')
           /\ PaidKeys(t) \subseteq PaidKeys(t)'
<1> DEFINE Once(k, q)  == k = OwnKey(t, q)
           Again(k, q) == k = KeyOf(t, q, Tier2)
<1>1. /\ task'[t][p] = to
      /\ \A q \in Pairs : q # p => task'[t][q] = task[t][q]
  BY DEF SetTask, TypeBound, TypeOK, TicksOK
<1>2. /\ \A q \in Pairs : UNCHANGED <<OwnKey(t, q), KeyOf(t, q, Tier2)>>
      /\ \A q \in Pairs : OwnKey(t, q)[2] = q /\ KeyOf(t, q, Tier2)[2] = q
      /\ OwnKey(t, p)[3] = bind[t][p[2]] /\ KeyOf(t, p, Tier2)[3] = Tier2
  BY DEF InLLM, header, OwnKey, KeyOf
<1>3. \A k : k \in PaidKeys(t) <=> \E q \in Pairs :
             \/ task[t][q] \in {"tier2", "ok", "escalated"} /\ Once(k, q)
             \/ task[t][q] = "escalated" /\ Again(k, q)
  BY DEF PaidKeys, At
<1>4. \A k : k \in PaidKeys(t)' <=> \E q \in Pairs :
             \/ task'[t][q] \in {"tier2", "ok", "escalated"} /\ Once(k, q)
             \/ task'[t][q] = "escalated" /\ Again(k, q)
  BY <1>2 DEF PaidKeys, At
<1>5. /\ spent[t] \in Nat
      /\ IsFiniteSet(PaidKeys(t)) /\ spent[t] = Cardinality(PaidKeys(t))
      /\ task[t][p] = "tier2" => bind[t][p[2]] # Tier2
  BY DEF Counted, TypeBound, TypeOK, TicksOK
<1>s. /\ RecordSuccess(t) => spent'[t] = spent[t] + 1
      /\ RecordFailure(t) \/ UNCHANGED guard => spent'[t] = spent[t]
  BY DEF RecordSuccess, RecordFailure, guard, TypeBound, TypeOK, TicksOK
<1> HIDE DEF Once, Again
<1>6. CASE \/ task[t][p] = "queued" /\ to \in {"error", "tier1"} /\ UNCHANGED guard
           \/ task[t][p] = "tier1" /\ to = "error" /\ RecordFailure(t)
           \/ task[t][p] = "tier2" /\ to = "ok" /\ RecordFailure(t)
  <2>1. \A k : k \in PaidKeys(t)' <=> k \in PaidKeys(t)
    BY <1>6, <1>1, <1>3, <1>4
  <2>2. PaidKeys(t)' = PaidKeys(t)
    BY <2>1
  <2> QED
    BY <2>2, <1>6, <1>5, <1>s
<1>7. ASSUME task[t][p] = "tier1", to \in {"ok", "tier2"}, RecordSuccess(t)
      PROVE  /\ PaidKeys(t)' = PaidKeys(t) \cup {OwnKey(t, p)}
             /\ OwnKey(t, p) \notin PaidKeys(t)
  <2>1. \A k : k \in PaidKeys(t)' <=> k \in PaidKeys(t) \/ Once(k, p)
    BY <1>7, <1>1, <1>3, <1>4
  <2>2. OwnKey(t, p) \notin PaidKeys(t)
    BY <1>7, <1>2, <1>3 DEF Once, Again
  <2> QED
    BY <2>1, <2>2 DEF Once
<1>8. ASSUME task[t][p] = "tier2", to = "escalated", RecordSuccess(t)
      PROVE  /\ PaidKeys(t)' = PaidKeys(t) \cup {KeyOf(t, p, Tier2)}
             /\ KeyOf(t, p, Tier2) \notin PaidKeys(t)
  <2>1. \A k : k \in PaidKeys(t)' <=> k \in PaidKeys(t) \/ Again(k, p)
    BY <1>8, <1>1, <1>3, <1>4
  <2>2. KeyOf(t, p, Tier2) \notin PaidKeys(t)
    BY <1>8, <1>2, <1>3, <1>5 DEF Once, Again
  <2> QED
    BY <2>1, <2>2 DEF Again
<1>9. ASSUME NEW k, PaidKeys(t)' = PaidKeys(t) \cup {k}, k \notin PaidKeys(t),
             RecordSuccess(t)
      PROVE  /\ IsFiniteSet(PaidKeys(t)')
             /\ spent'[t] = Cardinality(PaidKeys(t)')
             /\ PaidKeys(t) \subseteq PaidKeys(t)'
  <2>1. /\ IsFiniteSet(PaidKeys(t) \cup {k})
        /\ Cardinality(PaidKeys(t) \cup {k}) = Cardinality(PaidKeys(t)) + 1
    BY <1>5, <1>9, FS_AddElement
  <2> QED
    BY <2>1, <1>5, <1>9, <1>s
<1> QED
  BY <1>6, <1>7, <1>8, <1>9

LEMMA CountedLLM ==
    ASSUME TypeBound, NEW t \in Ticks, Counted(t), LLMStep(t)
    PROVE  Counted(t)'
<1> PICK p \in Pairs : \/ SkipCall(t, p) \/ StartCall(t, p)
                       \/ CallAnswers(t, p) \/ CallEscalates(t, p)
                       \/ CallFails(t, p)
                       \/ EscalationAnswers(t, p) \/ EscalationFails(t, p)
  BY DEF LLMStep
<1> DEFINE Moves(to) ==
           /\ SetTask(t, p, to)
           /\ \/ task[t][p] = "queued" /\ to \in {"error", "tier1"} /\ UNCHANGED guard
              \/ task[t][p] = "tier1" /\ to = "error" /\ RecordFailure(t)
              \/ task[t][p] = "tier1" /\ to \in {"ok", "tier2"} /\ RecordSuccess(t)
              \/ task[t][p] = "tier2" /\ to = "ok" /\ RecordFailure(t)
              \/ task[t][p] = "tier2" /\ to = "escalated" /\ RecordSuccess(t)
           /\ to = "tier2" => bind[t][p[2]] # Tier2
<1>1. PICK to \in {"error", "tier1", "ok", "tier2", "escalated"} : Moves(to)
  BY DEF SkipCall, StartCall, Admitted, CallAnswers, CallEscalates, CallFails,
         EscalationAnswers, EscalationFails
<1>2. UNCHANGED InLLM
  BY DEF SkipCall, StartCall, CallAnswers, CallEscalates, CallFails,
         EscalationAnswers, EscalationFails
<1>3. pc[t] \in Calling /\ task[t][p] \notin Answered \cup {"none"}
  BY <1>1 DEF Counted, Answered
<1>4. /\ IsFiniteSet(PaidKeys(t)') /\ spent'[t] = Cardinality(PaidKeys(t)')
      /\ PaidKeys(t) \subseteq PaidKeys(t)'
  BY <1>1, <1>2, <1>3, PaidLLM
<1>5. UNCHANGED <<OwnRows(t), RealRows(t), Todo(t), bind, written, calls, runs, pc>>
  BY <1>2 DEF InLLM, database, header, counters, OwnRows, RealRows, OwnRow, Todo,
     Wanted
<1>6. /\ task'[t][p] = to
      /\ \A q \in Pairs : q # p => task'[t][q] = task[t][q]
  BY <1>1 DEF SetTask, TypeBound, TypeOK, TicksOK
<1>7. Todo(t) \in SUBSET Pairs
  BY DEF Todo, Wanted, Pairs, TypeBound, TypeOK, TicksOK
<1>8. \A q \in Pairs : task'[t][q] = "none" => task[t][q] = "none"
  BY <1>6
<1>9. \A q \in Pairs : task'[t][q] \in {"tier2", "escalated"} => bind[t][q[2]] # Tier2
  BY <1>1, <1>3, <1>6 DEF Counted
<1>10. pc[t] \notin {"persist", "score"}
  BY <1>3 DEF Counted
<1> QED
  BY <1>3, <1>4, <1>5, <1>7, <1>8, <1>9, <1>10 DEF Counted

LEMMA CountedInsert ==
    ASSUME TypeBound, NEW t \in Ticks, NEW p \in Pairs, NEW k \in Keys,
           NEW src \in {"stub", "real", "fallback"},
           Counted(t), Insert(t, p, k, src), pc[t] = "persist",
           src = "real" => k \in PaidKeys(t),
           p \in Todo(t) \/ task[t][p] # "none"
    PROVE  /\ Counted(t)'
           /\ \A u \in Ticks : u # t => UNCHANGED <<OwnRows(u), RealRows(u)>>
<1>t. /\ pending \in [Keys -> Rows \cup {NoRow}]
      /\ written \in [Ticks -> Nat] /\ calls \in [Ticks -> Nat]
      /\ evalmap \in [Ticks -> [Pairs -> Keys \cup {None}]]
  BY DEF TypeBound, TypeOK, RowsOK, TicksOK
<1>1. UNCHANGED <<runs, pc, yaml, sel, bind, task, spent>>
  BY DEF Insert, database, header, guard
<1>2. UNCHANGED PaidKeys(t)
  BY <1>1 DEF PaidKeys, OwnKey, KeyOf, At
<1>3. Todo(t)' \subseteq Todo(t) \cup {p}
  <2>1. \A q \in Pairs : evalmap'[t][q] = evalmap[t][q] \/ q = p
    BY <1>t DEF Insert
  <2>2. \A q \in Wanted(t) : q \in Pairs
    BY DEF Wanted, Pairs, TypeBound, TypeOK, TicksOK
  <2> QED
    BY <1>1, <2>1, <2>2 DEF Todo, Wanted
<1>4. CASE UNCHANGED <<pending, counters>>
  <2>1. \A u \in Ticks : UNCHANGED <<OwnRows(u), RealRows(u)>>
    BY <1>4 DEF OwnRows, RealRows, OwnRow
  <2> QED
    BY <1>1, <1>2, <1>3, <1>4, <2>1 DEF Counted, counters
<1>5. CASE /\ pending[k] = NoRow
           /\ pending' = [pending EXCEPT ![k] = [src |-> src, by |-> t]]
           /\ written' = [written EXCEPT ![t] = @ + 1]
           /\ calls' = [calls EXCEPT ![t] = IF src = "real" THEN @ + 1 ELSE @]
  <2>1. /\ pending'[k] = [src |-> src, by |-> t] /\ pending'[k] # NoRow
        /\ \A c \in Keys : c # k => pending'[c] = pending[c]
    BY <1>5, <1>t, PipelineAssumption
  <2>2. k \notin OwnRows(t) /\ k \notin RealRows(t)
    BY <1>5 DEF OwnRows, RealRows, OwnRow
  <2>3. OwnRows(t)' = OwnRows(t) \cup {k}
    BY <2>1 DEF OwnRows, OwnRow
  <2>4. RealRows(t)' = IF src = "real" THEN RealRows(t) \cup {k} ELSE RealRows(t)
    BY <2>1, <2>2 DEF OwnRows, RealRows, OwnRow
  <2>5. \A u \in Ticks : u # t => UNCHANGED <<OwnRows(u), RealRows(u)>>
    BY <2>1, <1>5 DEF OwnRows, RealRows, OwnRow
  <2>6. IsFiniteSet(RealRows(t))
    BY FS_Subset DEF Counted, RealRows
  <2>7. /\ IsFiniteSet(OwnRows(t)')
        /\ Cardinality(OwnRows(t)') = Cardinality(OwnRows(t)) + 1
    BY <2>2, <2>3, FS_AddElement DEF Counted
  <2>8. Cardinality(RealRows(t)') = IF src = "real" THEN Cardinality(RealRows(t)) + 1
                                    ELSE Cardinality(RealRows(t))
    BY <2>2, <2>4, <2>6, FS_AddElement
  <2>9. /\ written'[t] = written[t] + 1
        /\ calls'[t] = IF src = "real" THEN calls[t] + 1 ELSE calls[t]
    BY <1>5, <1>t
  <2>10. RealRows(t) \subseteq PaidKeys(t) => RealRows(t)' \subseteq PaidKeys(t)
    BY <2>4
  <2> QED
    BY <1>1, <1>2, <1>3, <2>5, <2>7, <2>8, <2>9, <2>10 DEF Counted, Calling
<1> QED
  BY <1>4, <1>5 DEF Insert

LEMMA CountedPersist ==
    ASSUME TypeBound, NEW t \in Ticks, NEW p \in Pairs, Counted(t),
           Persist(t, p) \/ PersistEscalation(t, p)
    PROVE  /\ Counted(t)'
           /\ \A u \in Ticks : u # t => UNCHANGED <<OwnRows(u), RealRows(u)>>
<1>t. pc[t] = "persist" /\ yaml[t] \in Yamls /\ bind[t] \in [Factors -> Models]
  BY DEF Persist, NextPair, PersistEscalation, TypeBound, Bound, Statements
<1>1. CASE Persist(t, p)
  <2>1. OwnKey(t, p) \in Keys
    BY <1>t, KeysAreKeys DEF OwnKey, KeyOf, Pairs
  <2>2. p \in Todo(t) /\ Insert(t, p, OwnKey(t, p), SourceOf(t, p))
    BY <1>1 DEF Persist, NextPair
  <2>3. SourceOf(t, p) = "real" => OwnKey(t, p) \in PaidKeys(t)
    <3> SUFFICES ASSUME SourceOf(t, p) = "real"
                 PROVE  p \in At(t, "ok") \cup At(t, "escalated")
      BY DEF PaidKeys
    <3>1. bind[t][p[2]] # Stub /\ task[t][p] # "error"
      BY DEF SourceOf
    <3>2. task[t][p] \in {"ok", "escalated"}
      BY <3>1, <2>2, <1>t DEF Counted, Calling, Answered
    <3> QED
      BY <3>2 DEF At
  <2>4. SourceOf(t, p) \in {"stub", "real", "fallback"}
    BY DEF SourceOf
  <2> QED
    BY <2>1, <2>2, <2>3, <2>4, <1>t, CountedInsert
<1>2. CASE PersistEscalation(t, p)
  <2>1. KeyOf(t, p, Tier2) \in Keys
    BY <1>t, KeysAreKeys DEF KeyOf
  <2>2. task[t][p] = "escalated" /\ Insert(t, p, KeyOf(t, p, Tier2), "real")
    BY <1>2 DEF PersistEscalation, EscalationDue
  <2>3. KeyOf(t, p, Tier2) \in PaidKeys(t)
    BY <2>2 DEF PaidKeys, At
  <2> QED
    BY <2>1, <2>2, <2>3, <1>t, CountedInsert
<1> QED
  BY <1>1, <1>2

\* The commit publishes the counters together with the rows they count.
LEMMA CountCommit ==
    ASSUME TypeBound, CacheInv, CountInv, NEW t \in Ticks, Commit(t)
    PROVE  CountInv'
<1>t. /\ pending \in [Keys -> Rows \cup {NoRow}] /\ evals \in [Keys -> Rows \cup {NoRow}]
      /\ runs \in [Ticks -> [written : Nat, calls : Nat] \cup {None}]
  BY DEF TypeBound, TypeOK, RowsOK
<1>1. \A k \in Keys : evals'[k] = IF OwnRow(t, k) THEN pending[k] ELSE evals[k]
  BY DEF Commit
<1>2. /\ runs'[t] = [written |-> written[t], calls |-> calls[t]]
      /\ \A u \in Ticks : u # t => runs'[u] = runs[u]
  BY <1>t DEF Commit
<1>3. Counted(t)'
  BY CountedEnded DEF Commit, Ended
<1>4. \A u \in Ticks : u # t => Counted(u)'
  <2> SUFFICES ASSUME NEW u \in Ticks, u # t PROVE Counted(u)'
    OBVIOUS
  <2>1. UNCHANGED Private(u)
    BY OthersKeep DEF Step, TickStep
  <2>2. UNCHANGED <<OwnRows(u), RealRows(u)>>
    BY Dropped DEF Commit
  <2> QED
    BY <2>1, <2>2, <1>2, CountedKept DEF CountInv
<1>5. Published(t)'
  <2>1. \A k \in Keys : ~(evals[k] # NoRow /\ evals[k].by = t)
    <3>1. runs[t] = None
      BY DEF Commit, CountInv, Counted
    <3> QED
      BY <3>1 DEF CacheInv, AllOrNothing
  <2>2. Mine(t)' = OwnRows(t)
    BY <1>1, <2>1 DEF Mine, OwnRows, OwnRow
  <2>3. MineReal(t)' = RealRows(t)
    BY <1>1, <2>2 DEF MineReal, RealRows, OwnRows
  <2> QED
    BY <1>2, <2>2, <2>3 DEF Published, CountInv, Counted
<1>6. ASSUME NEW u \in Ticks, u # t PROVE Published(u)'
  <2>1. \A k \in Keys : OwnRow(t, k) => evals[k] = NoRow /\ evals'[k].by = t
    BY <1>1 DEF CacheInv, Uncommitted, OwnRow
  <2>2. Mine(u)' = Mine(u)
    BY <1>1, <1>6, <2>1 DEF Mine
  <2>3. MineReal(u)' = MineReal(u)
    BY <1>1, <1>6, <2>1, <2>2 DEF Mine, MineReal
  <2> QED
    BY <1>2, <1>6, <2>2, <2>3 DEF Published, CountInv
<1> QED
  BY <1>3, <1>4, <1>5, <1>6 DEF CountInv

LEMMA CountInductive == TypeBound /\ CacheInv /\ CountInv /\ [Next]_vars => CountInv'
<1> SUFFICES ASSUME TypeBound, CacheInv, CountInv, [Next]_vars PROVE CountInv'
  OBVIOUS
<1>t. TicksOK
  BY DEF TypeBound, TypeOK
\* A step of one tick that commits nothing.
<1>o. ASSUME NEW t \in Ticks, Step(t), UNCHANGED <<runs, evals>>, Counted(t)',
             \A u \in Ticks : u # t => UNCHANGED <<OwnRows(u), RealRows(u)>>
      PROVE  CountInv'
  <2>1. ASSUME NEW u \in Ticks, u # t PROVE Counted(u)'
    BY <1>o, <2>1, OthersKeep, CountedKept DEF CountInv
  <2> QED
    BY <1>o, <2>1, PublishedKept DEF CountInv
<1>r. ASSUME UNCHANGED pending
      PROVE  \A u \in Ticks : UNCHANGED <<OwnRows(u), RealRows(u)>>
  BY <1>r DEF OwnRows, RealRows, OwnRow
<1>1. ASSUME NEW t \in Ticks,
             \/ \E y \in Yamls : StartTick(t, y)
             \/ ReadDefinition(t) \/ Register(t)
             \/ \E S \in Selections : SelectMarkets(t, S)
             \/ \E f \in Factors : ResolveModel(t, f)
             \/ \E f \in Factors, q \in {"tier2", "own"} : LoadCache(t, f, q)
      PROVE  CountInv'
  <2>1. UNCHANGED <<pending, runs, evals, task, spent, counters>>
    BY <1>1 DEF StartTick, ReadDefinition, Register, SelectMarkets, ResolveModel,
       LoadCache, database, guard
  <2>2. pc[t] \notin Calling \cup Ended /\ pc'[t] \notin Calling
    BY <1>1, <1>t DEF StartTick, ReadDefinition, Register, SelectMarkets,
       ResolveModel, LoadCache, TicksOK, Calling, Ended
  <2>3. Counted(t)'
    BY <2>1, <2>2, CountedEarly DEF CountInv
  <2> QED
    BY <1>1, <1>o, <1>r, <2>1, <2>3 DEF Step, TickStep
<1>2. ASSUME NEW t \in Ticks, PlanCalls(t) PROVE CountInv'
  <2>1. UNCHANGED <<pending, runs, evals>>
    BY <1>2 DEF PlanCalls, database
  <2> QED
    BY <1>2, <1>o, <1>r, <2>1, CountedPlan DEF CountInv, Step, TickStep
<1>3. ASSUME NEW t \in Ticks, LLMStep(t) PROVE CountInv'
  <2>1. UNCHANGED <<pending, runs, evals>>
    BY <1>3 DEF LLMStep, SkipCall, StartCall, CallAnswers, CallEscalates,
       CallFails, EscalationAnswers, EscalationFails, InLLM, database
  <2> QED
    BY <1>3, <1>o, <1>r, <2>1, CountedLLM DEF CountInv, Step, TickStep
<1>4. ASSUME NEW t \in Ticks, Gathered(t) \/ Persisted(t) PROVE CountInv'
  <2>1. UNCHANGED <<pending, runs, evals, yaml, sel, bind, evalmap, task, spent,
                    written, calls>>
    BY <1>4 DEF Gathered, Persisted, database, header, guard, counters
  <2>2. /\ pc[t] \in Calling /\ pc'[t] \in {"persist", "score"}
        /\ \A p \in Pairs : task[t][p] \in Answered \cup {"none"}
    BY <1>4, <1>t DEF Gathered, Persisted, TicksOK, Calling, CountInv, Counted
  <2>3. UNCHANGED <<OwnRows(t), RealRows(t), PaidKeys(t), Todo(t)>>
    BY <2>1 DEF OwnRows, RealRows, OwnRow, PaidKeys, OwnKey, KeyOf, At, Todo, Wanted
  <2>4. Counted(t)
    BY DEF CountInv
  <2>5. pc[t] # "done" /\ pc'[t] \in Calling
    BY <2>2 DEF Calling
  <2>6. Counted(t)'
    BY <2>1, <2>2, <2>3, <2>4, <2>5 DEF Counted
  <2> QED
    BY <1>4, <1>o, <1>r, <2>1, <2>6 DEF Step, TickStep
<1>5. ASSUME NEW t \in Ticks, NEW p \in Pairs,
             Persist(t, p) \/ PersistEscalation(t, p)
      PROVE  CountInv'
  <2>1. UNCHANGED <<runs, evals>>
    BY <1>5 DEF Persist, PersistEscalation, Insert, database
  <2> QED
    BY <1>5, <1>o, <2>1, CountedPersist DEF CountInv, Step, TickStep
<1>6. ASSUME NEW t \in Ticks, Diverged(t) \/ RegisterConflicts(t) \/ Fail(t)
      PROVE  CountInv'
  <2>1. Abort(t) /\ pc[t] # "done"
    BY <1>6 DEF Diverged, RegisterConflicts, Fail, Statements
  <2>2. runs'[t] = None /\ UNCHANGED <<runs, evals>>
    BY <2>1 DEF Abort, database, CountInv, Counted
  <2>3. Counted(t)'
    BY <2>1, <2>2, CountedEnded DEF Abort, Ended
  <2> QED
    BY <1>6, <1>o, <2>1, <2>2, <2>3, Dropped DEF Abort, Step, TickStep
<1>7. ASSUME NEW t \in Ticks, Commit(t) PROVE CountInv'
  BY <1>7, CountCommit
<1>8. ASSUME \/ \E f \in Factors, m \in Registry : Promote(f, m)
             \/ UNCHANGED vars
      PROVE  CountInv'
  <2>1. /\ UNCHANGED <<pending, runs, evals>>
        /\ \A u \in Ticks : UNCHANGED Private(u)
    BY <1>8 DEF Promote, vars, database, header, guard, counters, Private
  <2> QED
    BY <2>1, <1>r, CountedKept, PublishedKept DEF CountInv
<1> QED
  BY <1>1, <1>2, <1>3, <1>4, <1>5, <1>6, <1>7, <1>8 DEF Next, TickStep

LEMMA CountInit == Init => CountInv
<1> SUFFICES ASSUME Init, NEW t \in Ticks PROVE Counted(t) /\ Published(t)
  BY DEF CountInv
<1>1. OwnRows(t) = {} /\ RealRows(t) = {}
  BY DEF Init, OwnRows, RealRows, OwnRow
<1>2. /\ IsFiniteSet(OwnRows(t)) /\ Cardinality(OwnRows(t)) = 0
      /\ Cardinality(RealRows(t)) = 0
  BY <1>1, NoElements
<1> QED
  BY <1>1, <1>2 DEF Init, Counted, Published, Calling, NoTask

\* The totals a run publishes are the rows this run alone added, real ones
\* apart, and no more calls than were paid for: also when ticks lose inserts
\* to one another, escalate, or fail on the way.
THEOREM AccountingIsExact == Spec => []AccountingExact
<1>1. TypeBound /\ CountInv => AccountingExact
  <2> SUFFICES ASSUME TypeBound, CountInv PROVE AccountingExact
    OBVIOUS
  <2>1. ASSUME NEW t \in Ticks PROVE calls[t] <= spent[t]
    <3>1. calls[t] = Cardinality(RealRows(t)) /\ spent[t] \in Nat
      BY DEF CountInv, Counted, TypeBound, TypeOK, TicksOK
    <3>2. CASE pc[t] \in Calling
      BY <3>1, <3>2, FS_Subset DEF CountInv, Counted
    <3>3. CASE pc[t] \notin Calling
      <4>1. RealRows(t) = {}
        BY <3>3 DEF CountInv, Counted, RealRows
      <4> QED
        BY <3>1, <4>1, NoElements
    <3> QED
      BY <3>2, <3>3
  <2> QED
    BY <2>1 DEF CountInv, Counted, Published, Mine, MineReal, OwnRows, AccountingExact
<1> QED
  BY <1>1, CacheAlways, CountInit, CountInductive, PTL DEF Spec
-----------------------------------------------------------------------------
(* Who waits for whom.  A session that inserts a key another one holds        *)
(* uncommitted waits for it to end; so does one that registers a definition   *)
(* while another registration is uncommitted.                                 *)

\* The key of the insert a tick makes next.
Wants(t, k) ==
    /\ pc[t] = "persist"
    /\ \/ \E p \in Pairs : NextPair(t, p) /\ k = OwnKey(t, p)
       \/ \E p \in EscalationDue(t) : k = KeyOf(t, p, Tier2)

WaitsFor(t, u) ==
    \/ pc[t] = "register" /\ registers[u]
    \/ \E k \in Keys : Wants(t, k) /\ OwnRow(u, k)

\* No ticks wait for each other in a circle: among any of them, one waits for
\* none of the others.
NoCircularWait ==
    \A D \in SUBSET Ticks :
        D # {} /\ IsFiniteSet(D) => \E t \in D : \A u \in D : ~WaitsFor(t, u)

\* The order every tick inserts its keys in.
Lower(k, c) ==
    \/ Before(k[2], c[2])
    \/ k[2] = c[2] /\ k[3] # Tier2 /\ c[3] = Tier2

LEMMA BeforeOrder ==
    ASSUME NEW p \in Pairs, NEW q \in Pairs, NEW r \in Pairs
    PROVE  /\ ~Before(p, p)
           /\ Before(p, q) /\ Before(q, r) => Before(p, r)
           /\ p = q \/ Before(p, q) \/ Before(q, p)
<1>1. p = <<p[1], p[2]>> /\ q = <<q[1], q[2]>>
  BY DEF Pairs
<1>2. {p[1], p[2], q[1], q[2], r[1], r[2]} \subseteq Nat
  BY PipelineAssumption DEF Pairs
<1> QED
  BY <1>1, <1>2 DEF Before

LEMMA LowerOrder ==
    ASSUME NEW k \in Keys, NEW c \in Keys, NEW d \in Keys
    PROVE  /\ ~Lower(k, k)
           /\ Lower(k, c) /\ Lower(c, d) => Lower(k, d)
<1>1. k[2] \in Pairs /\ c[2] \in Pairs /\ d[2] \in Pairs
  BY DEF Keys
<1> QED
  BY <1>1, BeforeOrder DEF Lower

\* A strict order on a finite set has a maximal element.  (By way of a minimal
\* set without one.)
LEMMA Maximal ==
    ASSUME NEW D, IsFiniteSet(D), D # {}, NEW R,
           \A t \in D : <<t, t>> \notin R,
           \A t, u, w \in D : <<t, u>> \in R /\ <<u, w>> \in R => <<t, w>> \in R
    PROVE  \E t \in D : \A u \in D : <<t, u>> \notin R
<1> DEFINE Bad == {S \in FiniteSubsetsOf(D) :
                      S # {} /\ \A t \in S : \E u \in S : <<t, u>> \in R}
<1> SUFFICES ASSUME \A t \in D : \E u \in D : <<t, u>> \in R PROVE FALSE
  OBVIOUS
<1>1. D \in Bad
  BY DEF FiniteSubsetsOf
<1>2. Bad # {} /\ Bad \subseteq FiniteSubsetsOf(D)
  BY <1>1
<1>3. PICK S \in Bad : \A T \in Bad : ~(<<T, S>> \in StrictSubsetOrdering(D))
  <2> HIDE DEF Bad
  <2> QED
    BY <1>2, WFMin, FS_StrictSubsetOrderingWellFounded
<1>4. S \subseteq D /\ IsFiniteSet(S) /\ S # {} /\ \A t \in S : \E u \in S : <<t, u>> \in R
  BY DEF FiniteSubsetsOf
<1>5. PICK x \in S : TRUE
  BY <1>4
<1> DEFINE Above == {u \in S : <<x, u>> \in R}
<1>6. Above \subseteq S /\ x \notin Above
  BY <1>4, <1>5
<1>7. IsFiniteSet(Above)
  BY <1>4, <1>6, FS_Subset
<1>8. Above \in Bad
  BY <1>4, <1>5, <1>6, <1>7 DEF FiniteSubsetsOf
<1>9. <<Above, S>> \in StrictSubsetOrdering(D)
  BY <1>4, <1>5, <1>6 DEF StrictSubsetOrdering
<1> QED
  BY <1>3, <1>8, <1>9

\* What a tick holds comes before what it has still to insert.
Ordered(t) ==
    /\ pc[t] = "llm" =>
          /\ OwnRows(t) = {}
          /\ \A p \in Pairs : task[t][p] # "none" => evalmap[t][p] = None
    /\ pc[t] = "persist" =>
          /\ \A k \in OwnRows(t), q \in Todo(t) : Before(k[2], q)
          /\ \A p \in EscalationDue(t) :
                /\ \A q \in Todo(t) : Before(p, q)
                /\ \A k \in OwnRows(t) : Before(k[2], p) \/ k = OwnKey(t, p)
                /\ \A q \in EscalationDue(t) : q = p

OrderInv == \A t \in Ticks : Ordered(t)

LEMMA OrderedKept ==
    ASSUME NEW t \in Ticks, Ordered(t), UNCHANGED Private(t), UNCHANGED OwnRows(t)
    PROVE  Ordered(t)'
<1>1. UNCHANGED <<Todo(t), EscalationDue(t)>>
  BY DEF Todo, EscalationDue, Wanted, OwnKey, KeyOf, Private
<1>2. \A p : UNCHANGED OwnKey(t, p)
  BY DEF OwnKey, KeyOf, Private
<1> QED
  BY <1>1, <1>2 DEF Ordered, Private

LEMMA OrderedLLM ==
    ASSUME TypeBound, NEW t \in Ticks, Counted(t), Ordered(t), LLMStep(t)
    PROVE  Ordered(t)'
<1> PICK p \in Pairs : \/ SkipCall(t, p) \/ StartCall(t, p)
                       \/ CallAnswers(t, p) \/ CallEscalates(t, p)
                       \/ CallFails(t, p)
                       \/ EscalationAnswers(t, p) \/ EscalationFails(t, p)
  BY DEF LLMStep
<1>1. UNCHANGED InLLM /\ \E x : SetTask(t, p, x)
  BY DEF SkipCall, StartCall, CallAnswers, CallEscalates, CallFails,
         EscalationAnswers, EscalationFails
<1>2. task[t][p] \in {"queued", "tier1", "tier2"}
  BY DEF SkipCall, StartCall, Admitted, CallAnswers, CallEscalates, CallFails,
         EscalationAnswers, EscalationFails
<1>3. pc[t] = "llm" /\ UNCHANGED <<pc, pending, evalmap>>
  BY <1>1, <1>2 DEF Counted, Calling, Answered, InLLM
<1>4. \A q \in Pairs : task'[t][q] # "none" => task[t][q] # "none"
  BY <1>1, <1>2 DEF SetTask, TypeBound, TypeOK, TicksOK
<1> QED
  BY <1>3, <1>4 DEF Ordered, OwnRows, OwnRow

LEMMA OrderedGather ==
    ASSUME TypeBound, NEW t \in Ticks, Ordered(t), Gathered(t)
    PROVE  Ordered(t)'
<1>1. /\ pc[t] = "llm" /\ pc'[t] = "persist"
      /\ UNCHANGED <<pending, yaml, sel, bind, evalmap, task>>
  BY DEF Gathered, header, TypeBound, TypeOK, TicksOK
<1>2. OwnRows(t)' = {}
  BY <1>1 DEF Ordered, OwnRows, OwnRow
<1>3. EscalationDue(t)' = {}
  <2> SUFFICES ASSUME NEW p \in EscalationDue(t)' PROVE FALSE
    OBVIOUS
  <2>1. /\ p \in Pairs /\ task[t][p] = "escalated" /\ evalmap[t][p] = OwnKey(t, p)
    BY <1>1 DEF EscalationDue, Wanted, Pairs, OwnKey, KeyOf, TypeBound, TypeOK, TicksOK
  <2>2. OwnKey(t, p) \in Keys
    BY <1>1, <2>1, KeysAreKeys
       DEF OwnKey, KeyOf, Pairs, TypeBound, Bound, Statements
  <2> QED
    BY <1>1, <2>1, <2>2, KeyAssumption DEF Ordered
<1> QED
  BY <1>1, <1>2, <1>3 DEF Ordered

\* What an insert does to the rows a tick holds and the pairs it has left.
LEMMA InsertMoves ==
    ASSUME TypeBound, NEW t \in Ticks, NEW p \in Pairs, NEW k \in Keys, NEW src,
           Insert(t, p, k, src), pc[t] = "persist"
    PROVE  /\ pc'[t] = "persist"
           /\ OwnRows(t)' \subseteq OwnRows(t) \cup {k}
           /\ Todo(t)' \subseteq Todo(t) \ {p}
           /\ \A q \in EscalationDue(t)' :
                 q \in EscalationDue(t) \/ (q = p /\ k = OwnKey(t, p))
           /\ \A q : UNCHANGED OwnKey(t, q)
<1>t. /\ pending \in [Keys -> Rows \cup {NoRow}]
      /\ evalmap \in [Ticks -> [Pairs -> Keys \cup {None}]]
  BY DEF TypeBound, TypeOK, RowsOK, TicksOK
<1>1. UNCHANGED <<pc, yaml, sel, bind, task>>
  BY DEF Insert, header
<1>2. \A q : UNCHANGED OwnKey(t, q)
  BY <1>1 DEF OwnKey, KeyOf
<1>3. /\ evalmap'[t][p] = k /\ k # None
      /\ \A q \in Pairs : q # p => evalmap'[t][q] = evalmap[t][q]
  BY <1>t, KeyAssumption DEF Insert
<1>4. \A q \in Wanted(t) : q \in Pairs
  BY DEF Wanted, Pairs, TypeBound, TypeOK, TicksOK
<1>5. UNCHANGED Wanted(t)
  BY <1>1 DEF Wanted
<1>6. Todo(t)' \subseteq Todo(t) \ {p}
  BY <1>3, <1>4, <1>5 DEF Todo
<1>7. \A q \in EscalationDue(t)' :
          q \in EscalationDue(t) \/ (q = p /\ k = OwnKey(t, p))
  BY <1>1, <1>2, <1>3, <1>4, <1>5 DEF EscalationDue
<1>8. OwnRows(t)' \subseteq OwnRows(t) \cup {k}
  <2>1. \A c \in Keys : c # k => pending'[c] = pending[c]
    BY <1>t DEF Insert
  <2> QED
    BY <2>1 DEF OwnRows, OwnRow
<1> QED
  BY <1>1, <1>2, <1>6, <1>7, <1>8

LEMMA OrderedPersist ==
    ASSUME TypeBound, NEW t \in Ticks, NEW p \in Pairs, Counted(t), Ordered(t),
           Persist(t, p) \/ PersistEscalation(t, p)
    PROVE  Ordered(t)'
<1>t. pc[t] = "persist" /\ yaml[t] \in Yamls /\ bind[t] \in [Factors -> Models]
  BY DEF Persist, NextPair, PersistEscalation, TypeBound, Bound, Statements
<1>w. \A q \in Todo(t) : q \in Pairs
  BY DEF Todo, Wanted, Pairs, TypeBound, TypeOK, TicksOK
<1>1. CASE Persist(t, p)
  <2> DEFINE k == OwnKey(t, p)
  <2>1. k \in Keys /\ k[2] = p
    BY <1>t, KeysAreKeys DEF OwnKey, KeyOf, Pairs
  <2>2. /\ pc'[t] = "persist"
        /\ OwnRows(t)' \subseteq OwnRows(t) \cup {k}
        /\ Todo(t)' \subseteq Todo(t) \ {p}
        /\ \A q \in EscalationDue(t)' : q \in EscalationDue(t) \/ q = p
        /\ \A q : UNCHANGED OwnKey(t, q)
    BY <1>1, <1>t, <2>1, InsertMoves DEF Persist
  <2>3. p \in Todo(t) /\ EscalationDue(t) = {} /\ \A q \in Todo(t) : ~Before(q, p)
    BY <1>1 DEF Persist, NextPair
  <2>4. \A q \in Todo(t) : q # p => Before(p, q)
    BY <2>3, <1>w, BeforeOrder
  <2> HIDE DEF k
  <2>5. \A c \in OwnRows(t)', q \in Todo(t)' : Before(c[2], q)
    BY <2>1, <2>2, <2>4, <1>t DEF Ordered
  <2>6. \A q \in EscalationDue(t)' : q = p
    BY <2>2, <2>3
  <2>7. \A q \in Todo(t)' : Before(p, q)
    BY <2>2, <2>4
  <2>8. \A c \in OwnRows(t)' : Before(c[2], p) \/ c = OwnKey(t, p)'
    BY <2>2, <2>3, <1>t DEF Ordered, k
  <2> QED
    BY <2>2, <2>5, <2>6, <2>7, <2>8 DEF Ordered
<1>2. CASE PersistEscalation(t, p)
  <2> DEFINE k == KeyOf(t, p, Tier2)
  <2>1. k \in Keys /\ k[2] = p
    BY <1>t, KeysAreKeys DEF KeyOf
  <2>2. p \in EscalationDue(t) /\ k # OwnKey(t, p)
    <3>1. p \in EscalationDue(t) /\ task[t][p] = "escalated"
      BY <1>2 DEF PersistEscalation, EscalationDue
    <3>2. bind[t][p[2]] # Tier2
      BY <3>1, <1>t DEF Counted, Calling
    <3> QED
      BY <3>1, <3>2 DEF OwnKey, KeyOf
  <2>3. /\ pc'[t] = "persist"
        /\ OwnRows(t)' \subseteq OwnRows(t) \cup {k}
        /\ Todo(t)' \subseteq Todo(t)
        /\ \A q \in EscalationDue(t)' : q \in EscalationDue(t)
    BY <1>2, <1>t, <2>1, <2>2, InsertMoves DEF PersistEscalation
  <2>4. p \notin EscalationDue(t)'
    <3>1. evalmap'[t][p] = k /\ UNCHANGED <<yaml, bind>>
      BY <1>2 DEF PersistEscalation, Insert, header, TypeBound, TypeOK, TicksOK
    <3>2. OwnKey(t, p)' = OwnKey(t, p)
      BY <3>1 DEF OwnKey, KeyOf
    <3> QED
      BY <2>2, <3>1, <3>2 DEF EscalationDue
  <2> HIDE DEF k
  <2>5. EscalationDue(t)' = {}
    BY <2>2, <2>3, <2>4, <1>t DEF Ordered
  <2>6. \A c \in OwnRows(t)', q \in Todo(t)' : Before(c[2], q)
    BY <2>1, <2>2, <2>3, <1>t DEF Ordered
  <2> QED
    BY <2>3, <2>5, <2>6 DEF Ordered
<1> QED
  BY <1>1, <1>2

\* The rows a tick holds are moved by no step of another.
LEMMA OwnRowsKept ==
    ASSUME TypeBound, CountInv, NEW t \in Ticks, Step(t), NEW u \in Ticks, u # t
    PROVE  UNCHANGED OwnRows(u)
<1>1. CASE \E p \in Pairs : Persist(t, p) \/ PersistEscalation(t, p)
  BY <1>1, CountedPersist DEF CountInv
<1>2. CASE Diverged(t) \/ RegisterConflicts(t) \/ Fail(t) \/ Commit(t)
  BY <1>2, Dropped DEF Diverged, RegisterConflicts, Fail, Abort, Commit
<1>3. CASE LLMStep(t)
  BY <1>3 DEF LLMStep, SkipCall, StartCall, CallAnswers, CallEscalates,
     CallFails, EscalationAnswers, EscalationFails, InLLM, OwnRows, OwnRow
<1>4. CASE \/ \E y \in Yamls : StartTick(t, y)
           \/ \E S \in Selections : SelectMarkets(t, S)
           \/ \E f \in Factors : ResolveModel(t, f)
           \/ \E f \in Factors, q \in {"tier2", "own"} : LoadCache(t, f, q)
           \/ ReadDefinition(t) \/ Register(t) \/ Persisted(t)
           \/ PlanCalls(t) \/ Gathered(t)
  BY <1>4 DEF StartTick, SelectMarkets, ResolveModel, LoadCache,
     ReadDefinition, Register, Persisted, PlanCalls, Gathered, OwnRows, OwnRow
<1> QED
  BY <1>1, <1>2, <1>3, <1>4 DEF Step, TickStep

LEMMA OrderInductive ==
    TypeBound /\ CountInv /\ OrderInv /\ [Next]_vars => OrderInv'
<1> SUFFICES ASSUME TypeBound, CountInv, OrderInv, [Next]_vars PROVE OrderInv'
  OBVIOUS
<1>t. TicksOK
  BY DEF TypeBound, TypeOK
<1>1. ASSUME NEW t \in Ticks, Step(t) PROVE Ordered(t)'
  <2>1. CASE LLMStep(t)
    BY <2>1, OrderedLLM DEF CountInv, OrderInv
  <2>2. CASE Gathered(t)
    BY <2>2, OrderedGather DEF OrderInv
  <2>3. CASE \E p \in Pairs : Persist(t, p) \/ PersistEscalation(t, p)
    BY <2>3, OrderedPersist DEF CountInv, OrderInv
  <2>4. CASE PlanCalls(t)
    <3>1. /\ pc[t] = "load" /\ pc'[t] = "llm" /\ UNCHANGED <<pending, evalmap>>
          /\ \A p \in Pairs : task'[t][p] # "none" => p \in Todo(t)
      BY <2>4, <1>t DEF PlanCalls, TicksOK
    <3>2. OwnRows(t)' = {}
      <4>1. OwnRows(t) = {}
        BY <3>1 DEF CountInv, Counted, Calling
      <4> QED
        BY <3>1, <4>1 DEF OwnRows, OwnRow
    <3> QED
      BY <3>1, <3>2 DEF Ordered, Todo
  <2>5. CASE Diverged(t) \/ RegisterConflicts(t) \/ Fail(t) \/ Commit(t)
    <3>1. pc'[t] \in Ended
      BY <2>5, <1>t DEF Diverged, RegisterConflicts, Fail, Abort, Commit, TicksOK, Ended
    <3> QED
      BY <3>1 DEF Ordered, Ended
  <2>6. CASE \/ \E y \in Yamls : StartTick(t, y)
             \/ \E S \in Selections : SelectMarkets(t, S)
             \/ \E f \in Factors : ResolveModel(t, f)
             \/ \E f \in Factors, q \in {"tier2", "own"} : LoadCache(t, f, q)
             \/ ReadDefinition(t) \/ Register(t) \/ Persisted(t)
    <3>1. pc'[t] \notin {"llm", "persist"}
      BY <2>6, <1>t DEF StartTick, SelectMarkets, ResolveModel, LoadCache,
         ReadDefinition, Register, Persisted, TicksOK
    <3> QED
      BY <3>1 DEF Ordered
  <2> QED
    BY <1>1, <2>1, <2>2, <2>3, <2>4, <2>5, <2>6 DEF Step, TickStep
<1>3. ASSUME NEW t \in Ticks, Step(t) PROVE OrderInv'
  <2>1. ASSUME NEW u \in Ticks, u # t PROVE Ordered(u)'
    BY <1>3, <2>1, OthersKeep, OwnRowsKept, OrderedKept DEF OrderInv
  <2> QED
    BY <1>1, <1>3, <2>1 DEF OrderInv
<1>4. ASSUME \/ \E f \in Factors, m \in Registry : Promote(f, m)
             \/ UNCHANGED vars
      PROVE  OrderInv'
  <2>1. \A u \in Ticks : UNCHANGED Private(u) /\ UNCHANGED OwnRows(u)
    BY <1>4 DEF Promote, vars, header, guard, counters, Private, OwnRows, OwnRow
  <2> QED
    BY <2>1, OrderedKept DEF OrderInv
<1> QED
  BY <1>3, <1>4 DEF Next, Step

LEMMA OrderInit == Init => OrderInv
BY DEF Init, OrderInv, Ordered

LEMMA WantsOne ==
    ASSUME TypeBound, NEW t \in Ticks, Ordered(t), NEW k, NEW c,
           Wants(t, k), Wants(t, c)
    PROVE  k = c /\ k \in Keys
<1>1. pc[t] = "persist" /\ yaml[t] \in Yamls /\ bind[t] \in [Factors -> Models]
  BY DEF Wants, TypeBound, Bound, Statements
<1>2. k \in Keys
  <2>1. \A p \in EscalationDue(t) : p \in Pairs
    BY DEF EscalationDue, Wanted, Pairs, TypeBound, TypeOK, TicksOK
  <2> QED
    BY <1>1, <2>1, KeysAreKeys DEF Wants, OwnKey, KeyOf, Pairs
<1>3. ASSUME NEW p \in Pairs, NextPair(t, p), NEW q \in Pairs, NextPair(t, q)
      PROVE  p = q
  BY <1>3, BeforeOrder DEF NextPair
<1>4. (\E p \in Pairs : NextPair(t, p)) => EscalationDue(t) = {}
  BY DEF NextPair
<1> QED
  BY <1>1, <1>2, <1>3, <1>4 DEF Wants, Ordered

LEMMA HeldIsLower ==
    ASSUME TypeBound, NEW u \in Ticks, Counted(u), Ordered(u), NEW k \in Keys,
           OwnRow(u, k), NEW c, Wants(u, c)
    PROVE  Lower(k, c)
<1>1. pc[u] = "persist" /\ k \in OwnRows(u)
  BY DEF Wants, OwnRows
<1>2. CASE \E p \in Pairs : NextPair(u, p) /\ c = OwnKey(u, p)
  <2>1. PICK p \in Pairs : p \in Todo(u) /\ c = OwnKey(u, p)
    BY <1>2 DEF NextPair
  <2> QED
    BY <1>1, <2>1 DEF Ordered, Lower, OwnKey, KeyOf
<1>3. CASE \E p \in EscalationDue(u) : c = KeyOf(u, p, Tier2)
  <2>1. PICK p \in EscalationDue(u) : c = KeyOf(u, p, Tier2)
    BY <1>3
  <2>2. p \in Pairs /\ task[u][p] = "escalated"
    BY DEF EscalationDue, Wanted, Pairs, TypeBound, TypeOK, TicksOK
  <2>3. bind[u][p[2]] # Tier2
    BY <1>1, <2>2 DEF Counted, Calling
  <2>4. Before(k[2], p) \/ k = OwnKey(u, p)
    BY <1>1 DEF Ordered
  <2> QED
    BY <2>1, <2>3, <2>4 DEF Lower, OwnKey, KeyOf
<1> QED
  BY <1>2, <1>3 DEF Wants

\* Ticks that insert the same keys, or register definitions, never wait for
\* each other in a circle, however many they are: the order of the selection
\* and of the factors is an order of their locks.
THEOREM WaitsAreAcyclic == Spec => []NoCircularWait
<1>1. TypeBound /\ CountInv /\ OrderInv /\ DefinitionInv => NoCircularWait
  <2> SUFFICES ASSUME TypeBound, CountInv, OrderInv, DefinitionInv,
                      NEW D \in SUBSET Ticks, D # {}, IsFiniteSet(D),
                      \A t \in D : \E u \in D : WaitsFor(t, u)
               PROVE  FALSE
    BY DEF NoCircularWait
  <2> DEFINE E == {t \in D : pc[t] = "persist"}
             R == {e \in E \X E : \E k, c \in Keys :
                      Wants(e[1], k) /\ Wants(e[2], c) /\ Lower(k, c)}
  <2>1. \A t, u \in D : WaitsFor(t, u) => u \in E
    <3> SUFFICES ASSUME NEW t \in D, NEW u \in D, WaitsFor(t, u) PROVE u \in E
      OBVIOUS
    <3>1. pc[u] \in {"register", "persist"}
      BY DEF WaitsFor, Wants
    <3>2. registers[u] => pc[u] # "register"
      BY DEF DefinitionInv, Registering, Working
    <3>3. \A k \in Keys : OwnRow(u, k) => pc[u] # "register"
      BY DEF CountInv, Counted, Calling, OwnRows
    <3> QED
      BY <3>1, <3>2, <3>3 DEF WaitsFor
  <2>2. E # {} /\ E \subseteq D
    BY <2>1
  <2>3. IsFiniteSet(E)
    BY <2>2, FS_Subset
  <2>4. \A t \in E : \E u \in E : <<t, u>> \in R
    <3> SUFFICES ASSUME NEW t \in E PROVE \E u \in E : <<t, u>> \in R
      OBVIOUS
    <3>1. PICK u \in E : WaitsFor(t, u)
      BY <2>1
    <3>2. PICK k \in Keys : Wants(t, k) /\ OwnRow(u, k)
      BY <3>1 DEF WaitsFor
    <3>3. PICK c : Wants(u, c)
      BY DEF WaitsFor
    <3>4. c \in Keys /\ Lower(k, c)
      BY <3>2, <3>3, WantsOne, HeldIsLower DEF CountInv, OrderInv
    <3> QED
      BY <3>2, <3>3, <3>4
  <2>5. \A t, k, c : t \in E /\ Wants(t, k) /\ Wants(t, c) => k = c
    BY WantsOne DEF OrderInv
  <2>6. \A t \in E : <<t, t>> \notin R
    BY <2>5, LowerOrder
  <2>7. ASSUME NEW t \in E, NEW u \in E, NEW w \in E,
               <<t, u>> \in R, <<u, w>> \in R
        PROVE  <<t, w>> \in R
    <3>1. PICK k \in Keys, c \in Keys : Wants(t, k) /\ Wants(u, c) /\ Lower(k, c)
      BY <2>7
    <3>2. PICK b \in Keys, d \in Keys : Wants(u, b) /\ Wants(w, d) /\ Lower(b, d)
      BY <2>7
    <3>3. b = c
      BY <3>1, <3>2, <2>5
    <3>4. Lower(k, d)
      BY <3>1, <3>2, <3>3, LowerOrder
    <3> QED
      BY <3>1, <3>2, <3>4
  <2> HIDE DEF E, R
  <2>8. \A t, u, w \in E : <<t, u>> \in R /\ <<u, w>> \in R => <<t, w>> \in R
    BY <2>7
  <2>9. \E t \in E : \A u \in E : <<t, u>> \notin R
    BY <2>2, <2>3, <2>6, <2>8, Maximal
  <2> QED
    BY <2>4, <2>9
<1> QED
  BY <1>1, TypeBoundInit, TypeBoundInductive, CacheAlways, CountInit,
     CountInductive, OrderInit, OrderInductive, DefinitionAlways, PTL DEF Spec
-----------------------------------------------------------------------------
(* The outcome is that of ticks that run one at a time (module Publication). *)

\* A tick maps a pair to a row of the model it resolved for the factor, or of
\* Tier2, and inserts under its own version alone.
Keyed(t) ==
    /\ \A p \in Pairs :
          evalmap[t][p] # None
              => /\ pc[t] \in {"load", "llm", "persist", "score"}
                 /\ evalmap[t][p] \in {OwnKey(t, p), KeyOf(t, p, Tier2)}
    /\ \A k \in OwnRows(t) : k[1] = yaml[t].version

KeyInv == \A t \in Ticks : Keyed(t)

LEMMA KeyedKept ==
    ASSUME NEW t \in Ticks, Keyed(t), UNCHANGED Private(t), UNCHANGED OwnRows(t)
    PROVE  Keyed(t)'
<1>1. \A p : UNCHANGED OwnKey(t, p) /\ UNCHANGED KeyOf(t, p, Tier2)
  BY DEF OwnKey, KeyOf, Private
<1> QED
  BY <1>1 DEF Keyed, Private

\* A tick that has mapped nothing yet.
LEMMA KeyedEarly ==
    ASSUME NEW t \in Ticks, \A p \in Pairs : evalmap'[t][p] = None, OwnRows(t)' = {}
    PROVE  Keyed(t)'
BY DEF Keyed

LEMMA KeyedEnded ==
    ASSUME TypeBound, NEW t \in Ticks, DropPending(t), Forget(t)
    PROVE  Keyed(t)'
<1>1. \A p \in Pairs : evalmap'[t][p] = None
  BY DEF Forget, NoMap, TypeBound, TypeOK, TicksOK
<1>2. OwnRows(t)' = {}
  BY Dropped
<1> QED
  BY <1>1, <1>2, KeyedEarly

LEMMA KeyedLoad ==
    ASSUME TypeBound, NEW t \in Ticks, Keyed(t), NEW f \in Factors,
           NEW q \in {"tier2", "own"}, LoadCache(t, f, q)
    PROVE  Keyed(t)'
<1> DEFINE m == IF q = "tier2" THEN Tier2 ELSE bind[t][f]
<1>1. pc[t] = "load" /\ UNCHANGED <<pc, pending, yaml, bind>>
  BY DEF LoadCache, header
<1>2. \A p \in Pairs : \/ evalmap'[t][p] = evalmap[t][p]
                       \/ p[2] = f /\ evalmap'[t][p] = KeyOf(t, p, m)
  BY DEF LoadCache, TypeBound, TypeOK, TicksOK
<1>3. \A p \in Pairs : p[2] = f => KeyOf(t, p, m) \in {OwnKey(t, p), KeyOf(t, p, Tier2)}
  BY DEF OwnKey
<1> HIDE DEF m
<1>4. \A p : UNCHANGED OwnKey(t, p) /\ UNCHANGED KeyOf(t, p, Tier2)
  BY <1>1 DEF OwnKey, KeyOf
<1>5. OwnRows(t)' = OwnRows(t)
  BY <1>1 DEF OwnRows, OwnRow
<1> QED
  BY <1>1, <1>2, <1>3, <1>4, <1>5 DEF Keyed

LEMMA KeyedPersist ==
    ASSUME TypeBound, NEW t \in Ticks, Keyed(t), NEW p \in Pairs,
           Persist(t, p) \/ PersistEscalation(t, p)
    PROVE  Keyed(t)'
<1>1. PICK k \in {OwnKey(t, p), KeyOf(t, p, Tier2)} : \E src : Insert(t, p, k, src)
  BY DEF Persist, PersistEscalation
<1>2. pc[t] = "persist" /\ UNCHANGED <<pc, yaml, bind>>
  BY <1>1 DEF Persist, NextPair, PersistEscalation, Insert, header
<1>3. k \in Keys /\ k[1] = yaml[t].version
  BY <1>1, <1>2, KeysAreKeys
     DEF TypeBound, Bound, Statements, OwnKey, KeyOf, Pairs
<1>4. \A q \in Pairs : \/ evalmap'[t][q] = evalmap[t][q]
                       \/ q = p /\ evalmap'[t][q] = k
  BY <1>1 DEF Insert, TypeBound, TypeOK, TicksOK
<1>5. \A q : UNCHANGED OwnKey(t, q) /\ UNCHANGED KeyOf(t, q, Tier2)
  BY <1>2 DEF OwnKey, KeyOf
<1>6. OwnRows(t)' \subseteq OwnRows(t) \cup {k}
  <2>1. \A c \in Keys : c # k => pending'[c] = pending[c]
    BY <1>1 DEF Insert, TypeBound, TypeOK, RowsOK
  <2> QED
    BY <2>1 DEF OwnRows, OwnRow
<1> QED
  BY <1>1, <1>2, <1>3, <1>4, <1>5, <1>6 DEF Keyed

LEMMA KeyInductive == TypeBound /\ CountInv /\ KeyInv /\ [Next]_vars => KeyInv'
<1> SUFFICES ASSUME TypeBound, CountInv, KeyInv, [Next]_vars PROVE KeyInv'
  OBVIOUS
<1>t. TicksOK
  BY DEF TypeBound, TypeOK
<1>1. ASSUME NEW t \in Ticks, Step(t) PROVE Keyed(t)'
  <2>1. CASE \E p \in Pairs : Persist(t, p) \/ PersistEscalation(t, p)
    BY <2>1, KeyedPersist DEF KeyInv
  <2>2. CASE Diverged(t) \/ RegisterConflicts(t) \/ Fail(t) \/ Commit(t)
    BY <2>2, KeyedEnded DEF Diverged, RegisterConflicts, Fail, Abort, Commit
  <2>3. CASE \E f \in Factors, q \in {"tier2", "own"} : LoadCache(t, f, q)
    BY <2>3, KeyedLoad DEF KeyInv
  <2>4. CASE LLMStep(t) \/ PlanCalls(t) \/ Gathered(t) \/ Persisted(t)
    <3>1. UNCHANGED <<pending, yaml, bind, evalmap>>
      BY <2>4 DEF LLMStep, SkipCall, StartCall, CallAnswers, CallEscalates,
         CallFails, EscalationAnswers, EscalationFails, InLLM, PlanCalls,
         Gathered, Persisted, header
    <3>2. pc[t] \in {"load", "llm", "persist", "score"}
          => pc'[t] \in {"load", "llm", "persist", "score"}
      BY <2>4, <1>t DEF LLMStep, SkipCall, StartCall, CallAnswers, CallEscalates,
         CallFails, EscalationAnswers, EscalationFails, InLLM, PlanCalls,
         Gathered, Persisted, TicksOK
    <3>3. \A p : UNCHANGED OwnKey(t, p) /\ UNCHANGED KeyOf(t, p, Tier2)
      BY <3>1 DEF OwnKey, KeyOf
    <3>4. OwnRows(t)' = OwnRows(t)
      BY <3>1 DEF OwnRows, OwnRow
    <3> QED
      BY <3>1, <3>2, <3>3, <3>4 DEF KeyInv, Keyed
  <2>5. CASE \/ \E y \in Yamls : StartTick(t, y)
             \/ \E S \in Selections : SelectMarkets(t, S)
             \/ \E f \in Factors : ResolveModel(t, f)
             \/ ReadDefinition(t) \/ Register(t)
    <3>1. /\ pc[t] \notin {"load", "llm", "persist", "score"}
          /\ UNCHANGED <<pending, evalmap>>
      BY <2>5 DEF StartTick, SelectMarkets, ResolveModel, ReadDefinition, Register
    <3>2. OwnRows(t)' = {}
      <4>1. OwnRows(t) = {}
        BY <3>1 DEF CountInv, Counted, Calling
      <4> QED
        BY <3>1, <4>1 DEF OwnRows, OwnRow
    <3> QED
      BY <3>1, <3>2, KeyedEarly DEF KeyInv, Keyed
  <2> QED
    BY <1>1, <2>1, <2>2, <2>3, <2>4, <2>5 DEF Step, TickStep
<1>2. ASSUME NEW t \in Ticks, Step(t) PROVE KeyInv'
  <2>1. ASSUME NEW u \in Ticks, u # t PROVE Keyed(u)'
    BY <1>2, <2>1, OthersKeep, OwnRowsKept, KeyedKept DEF KeyInv
  <2> QED
    BY <1>1, <1>2, <2>1 DEF KeyInv
<1>3. ASSUME \/ \E f \in Factors, m \in Registry : Promote(f, m)
             \/ UNCHANGED vars
      PROVE  KeyInv'
  <2>1. \A u \in Ticks : UNCHANGED Private(u) /\ UNCHANGED OwnRows(u)
    BY <1>3 DEF Promote, vars, header, guard, counters, Private, OwnRows, OwnRow
  <2> QED
    BY <2>1, KeyedKept DEF KeyInv
<1> QED
  BY <1>2, <1>3 DEF Next, Step

LEMMA KeyInit == Init => KeyInv
BY DEF Init, KeyInv, Keyed, OwnRows, OwnRow, NoMap
\* The commit of a tick is one step of Publication.
LEMMA CommitDefines ==
    ASSUME TypeBound, DefinitionInv, NEW t \in Ticks, Commit(t)
    PROVE  yaml[t] \in Yamls /\ Serial!Defines(yaml[t])
<1>1. pc[t] = "score" /\ yaml[t] \in Yamls
  BY DEF Commit, TypeBound, Bound, Statements
<1>2. Registering(t) /\ OnRegisteredText(t)
  BY DEF DefinitionInv
<1>3. CASE registers[t]
  <2>1. defSha[yaml[t].version] = None /\ current \subseteq prev[t]
    BY <1>2, <1>3 DEF Registering
  <2>2. /\ defSha' = [defSha EXCEPT ![yaml[t].version] = yaml[t].sha]
        /\ current' = {yaml[t].version}
    BY <1>3, <2>1 DEF Commit
  <2> QED
    BY <1>1, <2>1, <2>2 DEF Serial!Defines
<1>4. CASE ~registers[t]
  <2>1. defSha[yaml[t].version] = yaml[t].sha
    BY <1>1, <1>2, <1>4 DEF OnRegisteredText, Working
  <2> QED
    BY <1>1, <1>4, <2>1 DEF Commit, Serial!Defines
<1> QED
  BY <1>3, <1>4

\* The rows it adds are those it held.
LEMMA CommitAdds ==
    ASSUME TypeBound, CacheInv, NEW t \in Ticks, Commit(t)
    PROVE  /\ Serial!Added = OwnRows(t)
           /\ \A k \in OwnRows(t) : evals[k] = NoRow /\ evals'[k] = pending[k]
<1>1. \A k \in Keys : evals'[k] = IF OwnRow(t, k) THEN pending[k] ELSE evals[k]
  BY DEF Commit
<1>2. \A k \in OwnRows(t) : evals[k] = NoRow /\ pending[k] # NoRow
  BY DEF OwnRows, OwnRow, CacheInv, Uncommitted
<1> QED
  BY <1>1, <1>2 DEF OwnRows, Serial!Added

LEMMA CommitEvaluates ==
    ASSUME TypeBound, CacheInv, CountInv, KeyInv, NEW t \in Ticks, Commit(t)
    PROVE  Serial!Evaluates(t, yaml[t])
<1>1. evals' \in [Keys -> Rows \cup {NoRow}]
  BY DEF Commit, TypeBound, TypeOK, RowsOK
<1>2. IsFiniteSet(Serial!Added)
  BY CommitAdds DEF CountInv, Counted
<1>3. ASSUME NEW k \in Serial!Added
      PROVE  evals[k] = NoRow /\ evals'[k] # NoRow /\ evals'[k].by = t
             /\ k[1] = yaml[t].version
  <2>1. k \in OwnRows(t)
    BY CommitAdds
  <2> QED
    BY <2>1, CommitAdds DEF OwnRows, OwnRow, KeyInv, Keyed
<1> QED
  BY <1>1, <1>2, <1>3 DEF Serial!Evaluates, Serial!IsFiniteSet, IsFiniteSet

\* What it scored is one row per pair, of the models it had resolved.
LEMMA CommitExplains ==
    ASSUME TypeBound, CacheInv, KeyInv, NEW t \in Ticks, Commit(t),
           sel[t] \in Selections
    PROVE  Serial!Explains({evalmap[t][p] : p \in Wanted(t)}, yaml[t])
<1> DEFINE used == {evalmap[t][p] : p \in Wanted(t)}
<1>1. pc[t] = "score" /\ \A p \in Wanted(t) : p \in Pairs
  BY DEF Commit, Wanted, Pairs, TypeBound, TypeOK, TicksOK
<1>2. \A p \in Wanted(t) :
          /\ evalmap[t][p] \in Keys /\ evalmap[t][p] # None
          /\ evalmap[t][p] \in {OwnKey(t, p), KeyOf(t, p, Tier2)}
  BY <1>1 DEF TypeBound, Bound, KeyInv, Keyed
<1>3. \A p \in Wanted(t) : evalmap[t][p][2] = p
  BY <1>2 DEF OwnKey, KeyOf
<1>4. \A k \in used : k \in Keys /\ k[1] = yaml[t].version /\ evals'[k] # NoRow
  <2> SUFFICES ASSUME NEW p \in Wanted(t)
               PROVE  /\ evalmap[t][p] \in Keys
                      /\ evalmap[t][p][1] = yaml[t].version
                      /\ evals'[evalmap[t][p]] # NoRow
    OBVIOUS
  <2>1. Mapped(t, p)
    BY <1>1 DEF CacheInv
  <2>2. evals'[evalmap[t][p]] = IF OwnRow(t, evalmap[t][p])
                                THEN pending[evalmap[t][p]] ELSE evals[evalmap[t][p]]
    BY <1>2 DEF Commit
  <2> QED
    BY <1>2, <2>1, <2>2 DEF Mapped, OwnRow
<1>5. {k[2] : k \in used} = sel[t] \X Factors
  <2>1. Wanted(t) = sel[t] \X Factors
    BY DEF Wanted
  <2>2. \A k \in used : k[2] \in Wanted(t)
    BY <1>3
  <2>3. \A p \in Wanted(t) : evalmap[t][p] \in used /\ evalmap[t][p][2] = p
    BY <1>3
  <2> HIDE DEF used
  <2> QED
    BY <2>1, <2>2, <2>3
<1>6. ASSUME NEW k \in used, NEW c \in used
      PROVE  /\ k[2] = c[2] => k = c
             /\ k[2][2] = c[2][2] /\ k[3] # Tier2 /\ c[3] # Tier2 => k[3] = c[3]
  <2>1. PICK p \in Wanted(t) : k = evalmap[t][p]
    OBVIOUS
  <2>2. PICK q \in Wanted(t) : c = evalmap[t][q]
    OBVIOUS
  <2>3. k[2] = p /\ c[2] = q
    BY <1>3, <2>1, <2>2
  <2>4. /\ k[3] # Tier2 => k[3] = bind[t][p[2]]
        /\ c[3] # Tier2 => c[3] = bind[t][q[2]]
    BY <1>2, <2>1, <2>2 DEF OwnKey, KeyOf
  <2> QED
    BY <2>1, <2>2, <2>3, <2>4
<1> HIDE DEF used
<1> QED
  BY <1>4, <1>5, <1>6 DEF Serial!Explains, used

\* A tick past its selection works on a set the selection may return.
Selected(t) ==
    pc[t] \in Working \ {"select"} => sel[t] \in Selections

LEMMA SelectedInductive ==
    TypeBound /\ (\A t \in Ticks : Selected(t)) /\ [Next]_vars
        => (\A t \in Ticks : Selected(t))'
<1> SUFFICES ASSUME TypeBound, \A t \in Ticks : Selected(t), [Next]_vars
             PROVE  \A t \in Ticks : Selected(t)'
  OBVIOUS
<1>t. TicksOK
  BY DEF TypeBound, TypeOK
<1>1. ASSUME NEW t \in Ticks, Step(t) PROVE Selected(t)'
  <2>1. CASE \E S \in Selections : SelectMarkets(t, S)
    BY <2>1, <1>t DEF SelectMarkets, TicksOK, Selected
  <2>2. CASE \/ LLMStep(t) \/ PlanCalls(t) \/ Gathered(t) \/ Persisted(t)
             \/ \E f \in Factors : ResolveModel(t, f)
             \/ \E f \in Factors, q \in {"tier2", "own"} : LoadCache(t, f, q)
             \/ \E p \in Pairs : Persist(t, p) \/ PersistEscalation(t, p)
    <3>1. sel' = sel
      BY <2>2 DEF LLMStep, SkipCall, StartCall, CallAnswers, CallEscalates,
         CallFails, EscalationAnswers, EscalationFails, InLLM, PlanCalls,
         Gathered, Persisted, ResolveModel, LoadCache, Persist,
         PersistEscalation, Insert, header
    <3>2. pc'[t] \in Working \ {"select"} => pc[t] \in Working \ {"select"}
      BY <2>2, <1>t DEF LLMStep, SkipCall, StartCall, CallAnswers, CallEscalates,
         CallFails, EscalationAnswers, EscalationFails, InLLM, PlanCalls,
         Gathered, Persisted, ResolveModel, LoadCache, Persist,
         PersistEscalation, NextPair, Insert, TicksOK, Working
    <3> QED
      BY <3>1, <3>2 DEF Selected
  <2>3. CASE \/ \E y \in Yamls : StartTick(t, y)
             \/ ReadDefinition(t) \/ Register(t)
             \/ Diverged(t) \/ RegisterConflicts(t) \/ Fail(t) \/ Commit(t)
    BY <2>3, <1>t DEF StartTick, ReadDefinition, Register, Diverged,
       RegisterConflicts, Fail, Abort, Commit, TicksOK, Selected, Working
  <2> QED
    BY <1>1, <2>1, <2>2, <2>3 DEF Step, TickStep
<1>2. ASSUME NEW t \in Ticks, Step(t), NEW u \in Ticks PROVE Selected(u)'
  <2>1. CASE u # t
    BY <1>2, <2>1, OthersKeep DEF Private, Selected
  <2> QED
    BY <1>1, <1>2, <2>1
<1>3. ASSUME \/ \E f \in Factors, m \in Registry : Promote(f, m)
             \/ UNCHANGED vars
      PROVE  \A u \in Ticks : Selected(u)'
  BY <1>3 DEF Promote, vars, header, Selected
<1> QED
  BY <1>2, <1>3 DEF Next, Step

LEMMA CommitPublishes ==
    ASSUME TypeBound, CacheInv, DefinitionInv, CountInv, KeyInv,
           \A u \in Ticks : Selected(u), NEW t \in Ticks, Commit(t)
    PROVE  Serial!Publish(t)
<1> DEFINE s == [by |-> t, version |-> yaml[t].version, sha |-> yaml[t].sha,
                 used |-> {evalmap[t][p] : p \in Wanted(t)}]
<1>1. pc[t] = "score" /\ runs[t] = None
  BY DEF Commit, CountInv, Counted
<1>2. yaml[t] \in Yamls /\ Serial!Defines(yaml[t]) /\ Serial!Evaluates(t, yaml[t])
  BY CommitDefines, CommitEvaluates
<1>3. Serial!Explains(s.used, yaml[t])
  <2>1. sel[t] \in Selections
    BY <1>1 DEF Selected, Working
  <2> QED
    BY <2>1, CommitExplains
<1>4. s.by = t /\ s.version = yaml[t].version /\ s.sha = yaml[t].sha
  OBVIOUS
<1>5. scores' = scores \cup {s}
  BY DEF Commit
<1> HIDE DEF s
<1>6. s \notin scores
  BY <1>1, <1>4 DEF CacheInv, AllOrNothing
<1>7. Serial!Scores(t, yaml[t])
  BY <1>3, <1>4, <1>5, <1>6 DEF Serial!Scores
<1>8. runs' = [runs EXCEPT ![t] =
                  [written |-> Cardinality(Serial!Added),
                   calls |-> Cardinality({k \in Serial!Added : evals'[k].src = "real"})]]
  <2>1. {k \in Serial!Added : evals'[k].src = "real"} = RealRows(t)
    BY CommitAdds DEF RealRows
  <2>2. written[t] = Cardinality(Serial!Added) /\ calls[t] = Cardinality(RealRows(t))
    BY CommitAdds DEF CountInv, Counted
  <2> QED
    BY <2>1, <2>2 DEF Commit
<1> QED
  BY <1>1, <1>2, <1>7, <1>8 DEF Serial!Publish, Serial!Cardinality, Cardinality

\* No other step of a tick shows in the tables.
LEMMA OnlyCommitsShow ==
    ASSUME NEW t \in Ticks, Step(t), ~Commit(t)
    PROVE  UNCHANGED Serial!tables
<1>1. CASE LLMStep(t)
  BY <1>1 DEF LLMStep, SkipCall, StartCall, CallAnswers, CallEscalates, CallFails,
     EscalationAnswers, EscalationFails, InLLM, database, Serial!tables
<1>2. CASE \E p \in Pairs : Persist(t, p) \/ PersistEscalation(t, p)
  BY <1>2 DEF Persist, PersistEscalation, Insert, database, Serial!tables
<1>3. CASE Diverged(t) \/ RegisterConflicts(t) \/ Fail(t)
  BY <1>3 DEF Diverged, RegisterConflicts, Fail, Abort, database, Serial!tables
<1>4. CASE \/ \E y \in Yamls : StartTick(t, y)
           \/ \E S \in Selections : SelectMarkets(t, S)
           \/ \E f \in Factors : ResolveModel(t, f)
           \/ \E f \in Factors, q \in {"tier2", "own"} : LoadCache(t, f, q)
           \/ ReadDefinition(t) \/ Register(t) \/ Persisted(t)
           \/ PlanCalls(t) \/ Gathered(t)
  BY <1>4 DEF StartTick, SelectMarkets, ResolveModel, LoadCache, ReadDefinition,
     Register, Persisted, PlanCalls, Gathered, database, Serial!tables
<1> QED
  BY <1>1, <1>2, <1>3, <1>4 DEF Step, TickStep

LEMMA SerialInit == Init => Serial!Init
<1> SUFFICES ASSUME Init PROVE Serial!Init
  OBVIOUS
<1>1. \/ /\ \A v \in DOMAIN defSha : defSha[v] = None
         /\ current = {}
      \/ \E y \in Yamls :
            /\ \A v \in DOMAIN defSha :
                  defSha[v] = IF v = y.version THEN y.sha ELSE None
            /\ current = {y.version}
  BY DEF Init
<1> QED
  BY <1>1 DEF Init, Serial!Init

\* Scoring ticks are serializable and atomic as far as their tables show: for
\* any number of ticks, files, markets, factors and models, whatever they
\* interleave, lose or repeat, the tables are those of ticks that ran one at a
\* time, each to its end.
THEOREM TicksPublishSerially == Spec => PublishesSerially
<1>1. ASSUME TypeBound, CacheInv, DefinitionInv, CountInv, KeyInv,
             \A t \in Ticks : Selected(t), [Next]_vars
      PROVE  [Serial!Next]_Serial!tables
  <2>1. ASSUME NEW t \in Ticks, Step(t) PROVE [Serial!Next]_Serial!tables
    <3>1. CASE Commit(t)
      BY <1>1, <3>1, CommitPublishes DEF Serial!Next
    <3>2. CASE ~Commit(t)
      BY <2>1, <3>2, OnlyCommitsShow
    <3> QED
      BY <3>1, <3>2
  <2>2. ASSUME \/ \E f \in Factors, m \in Registry : Promote(f, m)
               \/ UNCHANGED vars
        PROVE  UNCHANGED Serial!tables
    BY <2>2 DEF Promote, vars, database, Serial!tables
  <2> QED
    BY <1>1, <2>1, <2>2 DEF Next, Step
<1>2. Init => \A t \in Ticks : Selected(t)
  BY DEF Init, Selected, Working
<1> QED
  BY <1>1, <1>2, SerialInit, TypeBoundInit, TypeBoundInductive, CacheAlways,
     DefinitionAlways, CountInit, CountInductive, KeyInit, KeyInductive,
     SelectedInductive, PTL DEF Spec, PublishesSerially, Serial!Spec
=============================================================================
