------------------------------ MODULE Pipeline ------------------------------
(***************************************************************************)
(* Scoring ticks of one index (pmi_core.engine.pipeline.run_pipeline) and  *)
(* the evaluation cache they share (pmi_core.engine.factor_evaluator).     *)
(*                                                                         *)
(* A tick is one database transaction: register the index definition,      *)
(* select markets, resolve each factor's model, read the cache, call the   *)
(* LLM for the misses, insert what came back, write the score, commit.     *)
(* Several ticks run at once (the score-all schedule, the re-evaluation    *)
(* jobs, the CLI), each on its own transaction at READ COMMITTED: a        *)
(* statement sees what had committed when it started, plus the             *)
(* transaction's own writes; an insert whose unique key another            *)
(* transaction holds uncommitted waits for that transaction's end.         *)
(*                                                                         *)
(* Kept out: prices, depths and the arithmetic of the score, the MLflow    *)
(* mirror (best effort, no control depends on it), prompt rows             *)
(* (prompt_sha256 takes part in the cache key as model_id does, so one     *)
(* model value stands for a prompt and an LLM).                            *)
(***************************************************************************)
EXTENDS Naturals, FiniteSets

CONSTANTS
    Ticks,      \* the runs of run_pipeline, each used once
    Writers,    \* every transaction that may insert into the cache
    Yamls,      \* definition files a process may hold: [version, sha]
    Markets,    \* ids of the markets
    Selections, \* the sets of them that a selection may return
    Factors,    \* the factors of the index, numbered in definition order
    Registry,   \* models that `models promote` may activate
    Stub,       \* stub-deterministic-v1
    Tier2,      \* settings.tier2_model_id, or None
    LLMConc,    \* settings.llm_concurrency
    Budget,     \* settings.llm_budget_usd_per_tick, in calls; 0 is off
    FailLimit,  \* settings.llm_circuit_breaker_failures; 0 is off
    NoRow,
    None

ASSUME PipelineAssumption ==
    /\ Ticks \subseteq Writers
    /\ Markets \subseteq Nat
    /\ Selections \subseteq SUBSET Markets
    /\ Factors \subseteq Nat
    /\ LLMConc \in Nat \ {0}
    /\ Budget \in Nat
    /\ FailLimit \in Nat
    /\ NoRow \notin [src : {"stub", "real", "fallback"}, by : Writers]
    /\ None \notin Yamls
    /\ None \notin {y.sha : y \in Yamls}
    /\ None \notin [written : Nat, calls : Nat]
    /\ Stub # Tier2
    /\ Stub # None

-----------------------------------------------------------------------------
Versions == {y.version : y \in Yamls}
Shas     == {y.sha : y \in Yamls}
Models   == Registry \cup {Stub}
Pairs    == Markets \X Factors

\* uq_audit_evaluations__cache_key
Keys == Versions \X Pairs \X (Models \cup {Tier2})
Rows == [src : {"stub", "real", "fallback"}, by : Writers]

ASSUME KeyAssumption == None \notin Keys

\* select_markets orders by id descending; ir.factors is a list.
Before(p, q) == p[1] > q[1] \/ (p[1] = q[1] /\ p[2] < q[2])

VARIABLES
    defSha,     \* core_index_definitions: version -> yaml_sha256, or None
    current,    \* the versions with is_current
    active,     \* core_factor_models: factor -> the active model, or Stub
    evals,      \* audit_evaluations, committed
    pending,    \* inserted into audit_evaluations and not yet committed
    scores,     \* ts_index_scores
    runs,       \* audit_pipeline_runs: tick -> its committed row, or None
    pc,         \* where each tick is
    yaml,       \* the definition file the tick loaded
    prev,       \* the current versions it read and will retire
    registers,  \* it holds an uncommitted definition row
    sel,        \* its markets
    bind,       \* factor -> the model resolved for it
    loaded,     \* the cache queries it has made
    evalmap,    \* pair -> key of the row the tick will aggregate
    task,       \* pair -> state of its LLM call
    spent,      \* _LLMGuard.spent_usd
    fails,      \* _LLMGuard.consecutive_failures
    open,       \* _LLMGuard.open_reason
    written,    \* evaluations_written
    calls       \* llm_calls

database == <<defSha, current, active, evals, scores, runs>>
header   == <<yaml, prev, registers, sel, bind>>
guard    == <<spent, fails, open>>
counters == <<written, calls>>
vars == <<database, pending, pc, header, loaded, evalmap, task, guard, counters>>

-----------------------------------------------------------------------------
(* States of a tick and of the LLM call of a pair *)

Statements == {"define", "register", "select", "resolve", "load", "llm",
               "persist", "score"}
Ended == {"done", "failed"}

InFlight == {"tier1", "tier2"}
Answered == {"ok", "escalated", "error"}
TaskState == {"none", "queued"} \cup InFlight \cup Answered

NoMap  == [p \in Pairs |-> None]
NoTask == [p \in Pairs |-> "none"]
NoBind == [f \in Factors |-> None]

RowsOK ==
    /\ defSha \in [Versions -> Shas \cup {None}]
    /\ current \in SUBSET Versions
    /\ active \in [Factors -> Models]
    /\ evals \in [Keys -> Rows \cup {NoRow}]
    /\ pending \in [Keys -> Rows \cup {NoRow}]
    /\ scores \in SUBSET [by : Ticks, version : Versions, sha : Shas,
                          used : SUBSET Keys]
    /\ runs \in [Ticks -> [written : Nat, calls : Nat] \cup {None}]

TicksOK ==
    /\ pc \in [Ticks -> {"idle"} \cup Statements \cup Ended]
    /\ yaml \in [Ticks -> Yamls \cup {None}]
    /\ prev \in [Ticks -> SUBSET Versions]
    /\ registers \in [Ticks -> BOOLEAN]
    /\ sel \in [Ticks -> SUBSET Markets]
    /\ bind \in [Ticks -> [Factors -> Models \cup {None}]]
    /\ loaded \in [Ticks -> SUBSET (Factors \X {"tier2", "own"})]
    /\ evalmap \in [Ticks -> [Pairs -> Keys \cup {None}]]
    /\ task \in [Ticks -> [Pairs -> TaskState]]
    /\ spent \in [Ticks -> Nat]
    /\ fails \in [Ticks -> Nat]
    /\ open \in [Ticks -> {"closed", "budget_exceeded", "circuit_open"}]
    /\ written \in [Ticks -> Nat]
    /\ calls \in [Ticks -> Nat]

TypeOK == RowsOK /\ TicksOK

\* The index is new, or an earlier tick has registered one definition of it.
Init ==
    /\ \/ defSha = [v \in Versions |-> None] /\ current = {}
       \/ \E y \in Yamls :
             /\ defSha = [v \in Versions |-> IF v = y.version THEN y.sha ELSE None]
             /\ current = {y.version}
    /\ active = [f \in Factors |-> Stub]
    /\ evals = [k \in Keys |-> NoRow]
    /\ pending = [k \in Keys |-> NoRow]
    /\ scores = {}
    /\ runs = [t \in Ticks |-> None]
    /\ pc = [t \in Ticks |-> "idle"]
    /\ yaml = [t \in Ticks |-> None]
    /\ prev = [t \in Ticks |-> {}]
    /\ registers = [t \in Ticks |-> FALSE]
    /\ sel = [t \in Ticks |-> {}]
    /\ bind = [t \in Ticks |-> NoBind]
    /\ loaded = [t \in Ticks |-> {}]
    /\ evalmap = [t \in Ticks |-> NoMap]
    /\ task = [t \in Ticks |-> NoTask]
    /\ spent = [t \in Ticks |-> 0]
    /\ fails = [t \in Ticks |-> 0]
    /\ open = [t \in Ticks |-> "closed"]
    /\ written = [t \in Ticks |-> 0]
    /\ calls = [t \in Ticks |-> 0]

-----------------------------------------------------------------------------
(* The end of a transaction *)

\* The tick's own state is garbage once its transaction is over.
Forget(t) ==
    /\ yaml' = [yaml EXCEPT ![t] = None]
    /\ prev' = [prev EXCEPT ![t] = {}]
    /\ registers' = [registers EXCEPT ![t] = FALSE]
    /\ sel' = [sel EXCEPT ![t] = {}]
    /\ bind' = [bind EXCEPT ![t] = NoBind]
    /\ loaded' = [loaded EXCEPT ![t] = {}]
    /\ evalmap' = [evalmap EXCEPT ![t] = NoMap]
    /\ task' = [task EXCEPT ![t] = NoTask]
    /\ spent' = [spent EXCEPT ![t] = 0]
    /\ fails' = [fails EXCEPT ![t] = 0]
    /\ open' = [open EXCEPT ![t] = "closed"]
    /\ written' = [written EXCEPT ![t] = 0]
    /\ calls' = [calls EXCEPT ![t] = 0]

OwnRow(t, k) == pending[k] # NoRow /\ pending[k].by = t

DropPending(t) ==
    pending' = [k \in Keys |-> IF OwnRow(t, k) THEN NoRow ELSE pending[k]]

\* MUTANT: the failure handler commits what the transaction had inserted.
AbortCommits(t) ==
    /\ evals' = [k \in Keys |-> IF OwnRow(t, k) THEN pending[k] ELSE evals[k]]
    /\ DropPending(t)
    /\ pc' = [pc EXCEPT ![t] = "failed"]
    /\ Forget(t)
    /\ UNCHANGED <<defSha, current, active, scores, runs>>

\* What session_scope does on an exception: everything the transaction wrote,
\* the run row included, is rolled back.
Abort(t) ==
    /\ DropPending(t)
    /\ pc' = [pc EXCEPT ![t] = "failed"]
    /\ Forget(t)
    /\ UNCHANGED database

-----------------------------------------------------------------------------
(* Registering the definition *)

\* The process reads its own copy of the definition file, opens the
\* transaction and inserts the run row, which only a commit publishes.
StartTick(t, y) ==
    /\ pc[t] = "idle"
    /\ yaml' = [yaml EXCEPT ![t] = y]
    /\ pc' = [pc EXCEPT ![t] = "define"]
    /\ UNCHANGED <<database, pending, prev, registers, sel, bind, loaded,
                   evalmap, task, guard, counters>>

\* The version is known with the same text, or is new and will retire prev.
ReadDefinition(t) ==
    /\ pc[t] = "define"
    /\ \/ /\ defSha[yaml[t].version] = yaml[t].sha
          /\ pc' = [pc EXCEPT ![t] = "select"]
          /\ prev' = prev
       \/ /\ defSha[yaml[t].version] = None
          /\ pc' = [pc EXCEPT ![t] = "register"]
          /\ prev' = [prev EXCEPT ![t] = current]
    /\ UNCHANGED <<database, pending, yaml, registers, sel, bind, loaded,
                   evalmap, task, guard, counters>>

\* The version is known with another text: raise.
Diverged(t) ==
    /\ pc[t] = "define"
    /\ defSha[yaml[t].version] \notin {None, yaml[t].sha}
    /\ Abort(t)

\* MUTANT: no partial unique index on is_current.
UnregisteredVersion(t) == defSha[yaml[t].version] = None

\* The flush that retires prev and inserts the new current row. It waits for
\* any other uncommitted registration, then meets the unique indexes on the
\* version and on the current row.
Unregistered(t) == defSha[yaml[t].version] = None /\ current \subseteq prev[t]

Register(t) ==
    /\ pc[t] = "register"
    /\ \A u \in Ticks : ~registers[u]
    /\ Unregistered(t)
    /\ registers' = [registers EXCEPT ![t] = TRUE]
    /\ pc' = [pc EXCEPT ![t] = "select"]
    /\ UNCHANGED <<database, pending, yaml, prev, sel, bind, loaded, evalmap,
                   task, guard, counters>>

RegisterConflicts(t) ==
    /\ pc[t] = "register"
    /\ \A u \in Ticks : ~registers[u]
    /\ ~Unregistered(t)
    /\ Abort(t)

-----------------------------------------------------------------------------
(* What to evaluate, and what is known already *)

\* select_markets and the Tier 0 filter: some set of unresolved markets.
SelectMarkets(t, S) ==
    /\ pc[t] = "select"
    /\ sel' = [sel EXCEPT ![t] = S]
    /\ pc' = [pc EXCEPT ![t] = "resolve"]
    /\ UNCHANGED <<database, pending, yaml, prev, registers, bind, loaded,
                   evalmap, task, guard, counters>>

\* One query per factor: models may be promoted between two of them.
ResolveModel(t, f) ==
    /\ pc[t] = "resolve"
    /\ bind[t][f] = None
    /\ bind' = [bind EXCEPT ![t][f] = active[f]]
    /\ pc' = [pc EXCEPT ![t] =
                 IF \A g \in Factors \ {f} : bind[t][g] # None
                 THEN "load" ELSE "resolve"]
    /\ UNCHANGED <<database, pending, yaml, prev, registers, sel, loaded,
                   evalmap, task, guard, counters>>

Wanted(t) == sel[t] \X Factors
Todo(t)   == {p \in Wanted(t) : evalmap[t][p] = None}
Queries   == Factors \X (IF Tier2 = None THEN {"own"} ELSE {"tier2", "own"})

KeyOf(t, p, m) == <<yaml[t].version, p, m>>
OwnKey(t, p)   == KeyOf(t, p, bind[t][p[2]])

\* One query of _batch_load_evaluations; an escalated row is looked up first
\* and setdefault keeps it.
LoadCache(t, f, q) ==
    LET m == IF q = "tier2" THEN Tier2 ELSE bind[t][f]
        found == {p \in Todo(t) : p[2] = f /\ evals[KeyOf(t, p, m)] # NoRow}
    IN  /\ pc[t] = "load"
        /\ <<f, q>> \in Queries \ loaded[t]
        /\ q = "tier2" \/ <<f, "tier2">> \notin Queries \ loaded[t]
        /\ loaded' = [loaded EXCEPT ![t] = @ \cup {<<f, q>>}]
        /\ evalmap' = [evalmap EXCEPT ![t] =
                          [p \in Pairs |-> IF p \in found THEN KeyOf(t, p, m)
                                           ELSE evalmap[t][p]]]
        /\ UNCHANGED <<database, pending, pc, header, task, guard, counters>>

\* Stage 2: misses bound to a real model get an LLM call each.
PlanCalls(t) ==
    LET real == {p \in Todo(t) : bind[t][p[2]] # Stub}
    IN  /\ pc[t] = "load"
        /\ loaded[t] = Queries
        /\ task' = [task EXCEPT ![t] =
                       [p \in Pairs |-> IF p \in real THEN "queued" ELSE "none"]]
        /\ pc' = [pc EXCEPT ![t] = "llm"]
        /\ UNCHANGED <<database, pending, header, loaded, evalmap, guard, counters>>

-----------------------------------------------------------------------------
(* The LLM calls: asyncio tasks under a semaphore, sharing one guard *)

\* The semaphore wakes its waiters in the order gather created them.
Admitted(t, p) ==
    /\ pc[t] = "llm"
    /\ task[t][p] = "queued"
    /\ \A q \in Pairs : task[t][q] = "queued" => ~Before(q, p)
    /\ Cardinality({q \in Pairs : task[t][q] \in InFlight}) < LLMConc

SetTask(t, p, s) == task' = [task EXCEPT ![t][p] = s]

RecordSuccess(t) ==
    /\ spent' = [spent EXCEPT ![t] = @ + 1]
    /\ fails' = [fails EXCEPT ![t] = 0]
    /\ open' = [open EXCEPT ![t] =
                   IF Budget > 0 /\ spent[t] + 1 >= Budget /\ @ = "closed"
                   THEN "budget_exceeded" ELSE @]

RecordFailure(t) ==
    /\ fails' = [fails EXCEPT ![t] = @ + 1]
    /\ open' = [open EXCEPT ![t] =
                   IF FailLimit > 0 /\ fails[t] + 1 >= FailLimit /\ @ = "closed"
                   THEN "circuit_open" ELSE @]
    /\ spent' = spent

InLLM == <<database, pending, pc, header, loaded, evalmap, counters>>

SkipCall(t, p) ==
    /\ Admitted(t, p)
    /\ open[t] # "closed"
    /\ SetTask(t, p, "error")
    /\ UNCHANGED <<InLLM, guard>>

\* MUTANT: the guard is not consulted.
StartCallUnguarded(t, p) ==
    /\ Admitted(t, p)
    /\ SetTask(t, p, "tier1")
    /\ UNCHANGED <<InLLM, guard>>

StartCall(t, p) ==
    /\ Admitted(t, p)
    /\ open[t] = "closed"
    /\ SetTask(t, p, "tier1")
    /\ UNCHANGED <<InLLM, guard>>

\* A confident answer, or one no Tier 2 model is configured for, is final.
CallAnswers(t, p) ==
    /\ task[t][p] = "tier1"
    /\ RecordSuccess(t)
    /\ SetTask(t, p, "ok")
    /\ UNCHANGED InLLM

\* A hesitant answer goes to the Tier 2 model at once, guard or no guard.
CallEscalates(t, p) ==
    /\ task[t][p] = "tier1"
    /\ Tier2 \notin {None, bind[t][p[2]]}
    /\ RecordSuccess(t)
    /\ SetTask(t, p, "tier2")
    /\ UNCHANGED InLLM

CallFails(t, p) ==
    /\ task[t][p] = "tier1"
    /\ RecordFailure(t)
    /\ SetTask(t, p, "error")
    /\ UNCHANGED InLLM

EscalationAnswers(t, p) ==
    /\ task[t][p] = "tier2"
    /\ RecordSuccess(t)
    /\ SetTask(t, p, "escalated")
    /\ UNCHANGED InLLM

\* Best effort: the Tier 1 answer stands.
EscalationFails(t, p) ==
    /\ task[t][p] = "tier2"
    /\ RecordFailure(t)
    /\ SetTask(t, p, "ok")
    /\ UNCHANGED InLLM

Gathered(t) ==
    /\ pc[t] = "llm"
    /\ \A p \in Pairs : task[t][p] \in Answered \cup {"none"}
    /\ pc' = [pc EXCEPT ![t] = "persist"]
    /\ UNCHANGED <<database, pending, header, loaded, evalmap, task, guard, counters>>

-----------------------------------------------------------------------------
(* Persisting: INSERT ... ON CONFLICT DO NOTHING, pair by pair *)

\* An escalated answer is inserted twice: under the factor's own model and,
\* as long as evalmap still points there, once more under Tier2.
EscalationDue(t) ==
    {p \in Wanted(t) : task[t][p] = "escalated" /\ evalmap[t][p] = OwnKey(t, p)}

\* MUTANT: the selection has no ORDER BY.
NextPairUnordered(t, p) ==
    /\ pc[t] = "persist"
    /\ EscalationDue(t) = {}
    /\ p \in Todo(t)

NextPair(t, p) ==
    /\ pc[t] = "persist"
    /\ EscalationDue(t) = {}
    /\ p \in Todo(t)
    /\ \A q \in Todo(t) : ~Before(q, p)

SourceOf(t, p) ==
    IF bind[t][p[2]] = Stub THEN "stub"
    ELSE IF task[t][p] = "error" THEN "fallback"
    ELSE "real"

\* MUTANT: a row another session has only flushed is taken as a hit.
InsertReadsDirty(t, p, k, src) ==
    /\ \/ /\ evals[k] # NoRow \/ pending[k] # NoRow
          /\ UNCHANGED <<pending, counters>>
       \/ /\ evals[k] = NoRow
          /\ pending[k] = NoRow
          /\ pending' = [pending EXCEPT ![k] = [src |-> src, by |-> t]]
          /\ written' = [written EXCEPT ![t] = @ + 1]
          /\ calls' = [calls EXCEPT ![t] = IF src = "real" THEN @ + 1 ELSE @]
    /\ evalmap' = [evalmap EXCEPT ![t][p] = k]
    /\ UNCHANGED <<database, pc, header, loaded, task, guard>>

\* MUTANT: conflict_hit is ignored by the totals.
InsertCountsHits(t, p, k, src) ==
    /\ \/ evals[k] # NoRow /\ pending' = pending
       \/ /\ evals[k] = NoRow
          /\ pending[k] = NoRow
          /\ pending' = [pending EXCEPT ![k] = [src |-> src, by |-> t]]
    /\ written' = [written EXCEPT ![t] = @ + 1]
    /\ calls' = [calls EXCEPT ![t] = IF src = "real" THEN @ + 1 ELSE @]
    /\ evalmap' = [evalmap EXCEPT ![t][p] = k]
    /\ UNCHANGED <<database, pc, header, loaded, task, guard>>

\* persist_evaluation under key k: a committed row is a hit and is re-read; a
\* row another transaction holds uncommitted blocks the insert.
Insert(t, p, k, src) ==
    /\ \/ /\ evals[k] # NoRow
          /\ UNCHANGED <<pending, counters>>
       \/ /\ evals[k] = NoRow
          /\ pending[k] = NoRow
          /\ pending' = [pending EXCEPT ![k] = [src |-> src, by |-> t]]
          /\ written' = [written EXCEPT ![t] = @ + 1]
          /\ calls' = [calls EXCEPT ![t] = IF src = "real" THEN @ + 1 ELSE @]
    /\ evalmap' = [evalmap EXCEPT ![t][p] = k]
    /\ UNCHANGED <<database, pc, header, loaded, task, guard>>

Persist(t, p) ==
    /\ NextPair(t, p)
    /\ Insert(t, p, OwnKey(t, p), SourceOf(t, p))

PersistEscalation(t, p) ==
    /\ pc[t] = "persist"
    /\ p \in EscalationDue(t)
    /\ Insert(t, p, KeyOf(t, p, Tier2), "real")

Persisted(t) ==
    /\ pc[t] = "persist"
    /\ Todo(t) = {}
    /\ EscalationDue(t) = {}
    /\ pc' = [pc EXCEPT ![t] = "score"]
    /\ UNCHANGED <<database, pending, header, loaded, evalmap, task, guard, counters>>

-----------------------------------------------------------------------------
(* Scoring *)

\* aggregate, the score row, the run row's totals and the commit that
\* publishes them with everything inserted before.
Commit(t) ==
    LET v == yaml[t].version
    IN  /\ pc[t] = "score"
        /\ evals' = [k \in Keys |-> IF OwnRow(t, k) THEN pending[k] ELSE evals[k]]
        /\ DropPending(t)
        /\ defSha' = IF registers[t] THEN [defSha EXCEPT ![v] = yaml[t].sha] ELSE defSha
        /\ current' = IF registers[t] THEN (current \ prev[t]) \cup {v} ELSE current
        /\ scores' = scores \cup
               {[by |-> t, version |-> v, sha |-> yaml[t].sha,
                 used |-> {evalmap[t][p] : p \in Wanted(t)}]}
        /\ runs' = [runs EXCEPT ![t] = [written |-> written[t], calls |-> calls[t]]]
        /\ pc' = [pc EXCEPT ![t] = "done"]
        /\ Forget(t)
        /\ active' = active

\* An exception at any statement, or the end of the process: run.status is
\* set to failed in the transaction that is about to be rolled back.
Fail(t) ==
    /\ pc[t] \in Statements
    /\ Abort(t)

\* `models promote`: one active model per factor and stage.
Promote(f, m) ==
    /\ active[f] # m
    /\ active' = [active EXCEPT ![f] = m]
    /\ UNCHANGED <<defSha, current, evals, scores, runs, pending, pc, header,
                   loaded, evalmap, task, guard, counters>>

-----------------------------------------------------------------------------
LLMStep(t) ==
    \E p \in Pairs :
        \/ SkipCall(t, p)
        \/ StartCall(t, p)
        \/ CallAnswers(t, p)
        \/ CallEscalates(t, p)
        \/ CallFails(t, p)
        \/ EscalationAnswers(t, p)
        \/ EscalationFails(t, p)

\* What a tick does by itself, the provider's answers included.
TickStep(t) ==
    \/ ReadDefinition(t)
    \/ Diverged(t)
    \/ Register(t)
    \/ RegisterConflicts(t)
    \/ \E S \in Selections : SelectMarkets(t, S)
    \/ \E f \in Factors : ResolveModel(t, f)
    \/ \E f \in Factors, q \in {"tier2", "own"} : LoadCache(t, f, q)
    \/ PlanCalls(t)
    \/ LLMStep(t)
    \/ Gathered(t)
    \/ \E p \in Pairs : Persist(t, p) \/ PersistEscalation(t, p)
    \/ Persisted(t)
    \/ Commit(t)

Next ==
    \/ \E t \in Ticks, y \in Yamls : StartTick(t, y)
    \/ \E t \in Ticks : TickStep(t) \/ Fail(t)
    \/ \E f \in Factors, m \in Registry : Promote(f, m)

Spec == Init /\ [][Next]_vars

\* A tick runs on: its statements return, and the provider's client answers or
\* times out. Raising is never forced.
FairSpec == Spec /\ \A t \in Ticks : WF_vars(TickStep(t))

-----------------------------------------------------------------------------
(* Properties *)

\* "Idempotent UPSERT-by-version": once a version is registered exactly one is
\* current, however registrations by ticks that hold different files interleave.
ExactlyOneCurrent ==
    (\E v \in Versions : defSha[v] # None) => Cardinality(current) = 1

\* "APPEND-ONLY. Update = bug": a committed evaluation is never replaced or
\* removed, although concurrent ticks insert under the same cache key.
EvalRowsImmutable ==
    [][\A k \in Keys : evals[k] # NoRow => evals'[k] = evals[k]]_vars

\* Every row a score names as a component is committed and belongs to the
\* definition the score is for, also when another tick wrote the row.
ScoreLineage ==
    \A s \in scores : \A k \in s.used : k[1] = s.version /\ evals[k] # NoRow

\* The text a score was computed from is the text registered for its version:
\* a file edited in place never yields a score.
ScoredTextIsRegistered ==
    \A s \in scores : defSha[s.version] = s.sha

\* A tick publishes its run row, its score and its evaluations together or
\* not at all.
AllOrNothing ==
    /\ \A t \in Ticks : (runs[t] # None) <=> (\E s \in scores : s.by = t)
    /\ \A k \in Keys : evals[k] # NoRow /\ evals[k].by \in Ticks
                         => runs[evals[k].by] # None

\* The totals of a run count the rows this tick added to the cache and those
\* of them a real model answered: a row that was hit, also on conflict, is
\* counted by its writer alone. No call is counted that was not paid.
AccountingExact ==
    /\ \A t \in Ticks :
          /\ written[t] = Cardinality({k \in Keys : OwnRow(t, k)})
          /\ calls[t] <= spent[t]
    /\ \A t \in {u \in Ticks : runs[u] # None} :
          LET mine == {k \in Keys : evals[k] # NoRow /\ evals[k].by = t}
          IN  /\ runs[t].written = Cardinality(mine)
              /\ runs[t].calls = Cardinality({k \in mine : evals[k].src = "real"})

\* The budget cap and the breaker of _LLMGuard hold up to the calls in flight
\* when they trip and the escalation each of these may still add.
GuardBounds ==
    \A t \in Ticks :
        /\ Budget > 0 => spent[t] <= Budget + 2 * LLMConc - 1
        /\ FailLimit > 0 => fails[t] <= FailLimit + LLMConc - 1

\* Every tick that starts ends, whatever it has to wait for: from some time on
\* none is under way (and none becomes idle again).
TickEnds == <>[](\A t \in Ticks : pc[t] \in {"idle"} \cup Ended)

\* Ticks that overlap in any way leave the tables as ticks that run one at a
\* time would, each publishing everything in one step (module Publication): the
\* tick's text is the registered one, its rows go to free keys, its score rests
\* on one row per pair and its totals are those of what it added.
Serial == INSTANCE Publication
PublishesSerially == Serial!Spec

=============================================================================
