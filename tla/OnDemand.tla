------------------------------ MODULE OnDemand ------------------------------
(***************************************************************************)
(* Scoring outside the hourly schedule.  Three actors ask for ticks of the *)
(* same indexes:                                                           *)
(*                                                                         *)
(*   - `reeval-market` jobs, enqueued when a component market trades       *)
(*     (pmi_workers/jobs/reeval_market.py),                                *)
(*   - API callers who find the stored score too old                       *)
(*     (pmi_api/routes/indexes.py, get_score and refresh_score),           *)
(*   - the scheduled jobs `score-all` (also as `hourly` and `daily`) and   *)
(*     `reeval-drifted`, which call run_pipeline themselves and take no    *)
(*     part in the dedupe of `score:<i>` rows.                             *)
(*                                                                         *)
(* The queue is reduced to what JobQueue shows of it: at most one pending  *)
(* row per dedupe key.  A tick is reduced to what Pipeline shows of it: it *)
(* commits one score whose as_of is the moment it started, or nothing.     *)
(* Time is the age of things in units of the re-evaluation floor's         *)
(* granularity; ages stop growing at Old, the floor itself.                *)
(***************************************************************************)
EXTENDS Integers, FiniteSets

CONSTANTS Markets, Indexes,
          Portfolios,     \* component sets a tick may select
          Old,            \* PMI_WS_REEVAL_MIN_INTERVAL_SEC
          Concurrency,    \* worker slots
          NoIndex

ASSUME OnDemandAssumption ==
    /\ IsFiniteSet(Markets) /\ IsFiniteSet(Indexes)
    /\ Portfolios \subseteq SUBSET Markets
    /\ Old \in Nat \ {0} /\ Concurrency \in Nat \ {0}
    /\ NoIndex \notin Indexes

VARIABLES age,        \* as_of of the latest score, as an age
          comps,      \* its component markets
          reeval,     \* the pending `reeval-market:<m>` row
          affected,   \* the stale indexes a running reeval-market job has read
          score,      \* the pending `score:<i>` row
          tick,       \* as_of of the tick that row runs
          cron,       \* the scheduled job: indexes left, the one it scores
          ask,        \* an API caller who waits for a recompute
          wasted,     \* history: score rows that re-evaluations inserted since
                      \* the latest score was last stale
          left        \* how often each bounded thing may still happen

demand == <<age, comps, reeval, affected, score, tick, cron, ask, wasted, left>>

Age    == 0 .. Old
NoCron == [todo |-> {}, at |-> NoIndex, age |-> Old]
NoAsk  == [at |-> "idle", index |-> NoIndex, age |-> Old, joined |-> FALSE]

DemandTypeOK ==
    /\ age \in [Indexes -> Age] /\ tick \in [Indexes -> Age]
    /\ comps \in [Indexes -> {{}} \cup Portfolios]
    /\ reeval \in [Markets -> {"none", "queued", "running"}]
    /\ affected \in [Markets -> SUBSET Indexes]
    /\ score \in [Indexes -> {"none", "queued", "running", "scored"}]
    /\ cron \in [todo : SUBSET Indexes, at : Indexes \cup {NoIndex}, age : Age]
    /\ ask \in [at : {"idle", "wait", "succeeded", "failed"},
                index : Indexes \cup {NoIndex}, age : Age, joined : BOOLEAN]
    /\ wasted \in [Indexes -> Nat]

DemandInit ==
    /\ age = [i \in Indexes |-> Old]
    /\ comps \in [Indexes -> {{}} \cup Portfolios]
    /\ reeval = [m \in Markets |-> "none"]
    /\ affected = [m \in Markets |-> {}]
    /\ score = [i \in Indexes |-> "none"]
    /\ tick = [i \in Indexes |-> Old]
    /\ cron = NoCron
    /\ ask = NoAsk
    /\ wasted = [i \in Indexes |-> 0]

Spend(what) == left[what] > 0 /\ left' = [left EXCEPT ![what] = @ - 1]

-----------------------------------------------------------------------------
(* Time.                                                                   *)

Older(g) == IF g < Old THEN g + 1 ELSE Old

Elapse ==
    /\ age' = [i \in Indexes |-> Older(age[i])]
    /\ tick' = [i \in Indexes |-> Older(tick[i])]
    /\ cron' = [cron EXCEPT !.age = Older(@)]
    /\ ask' = [ask EXCEPT !.age = Older(@)]
    /\ wasted' = [i \in Indexes |-> IF age'[i] = Old THEN 0 ELSE wasted[i]]
    /\ UNCHANGED <<comps, reeval, affected, score, left>>

-----------------------------------------------------------------------------
(* The queue rows.                                                         *)

\* Jobs that occupy a worker slot.
Running == {m \in Markets : reeval[m] = "running"}
Scoring == {i \in Indexes : score[i] \in {"running", "scored"}}
SlotFree ==
    Cardinality(Running) + Cardinality(Scoring) + (IF cron = NoCron THEN 0 ELSE 1)
        < Concurrency

\* enqueue(..., dedupe_key="score:<slug>") for every index of S.
EnqueuedScores(S) ==
    [i \in Indexes |-> IF i \in S /\ score[i] = "none" THEN "queued" ELSE score[i]]

-----------------------------------------------------------------------------
(* reeval-market: one transaction that reads, then enqueues.               *)

Stale(m) == {i \in Indexes : m \in comps[i] /\ age[i] >= Old}

\* Mutation of Affected: no freshness floor.
StaleOrNot(m) == {i \in Indexes : m \in comps[i]}
Affected(m) == Stale(m)

ReevalReads(m) ==
    /\ reeval[m] = "queued" /\ SlotFree
    /\ reeval' = [reeval EXCEPT ![m] = "running"]
    /\ affected' = [affected EXCEPT ![m] = Affected(m)]
    /\ UNCHANGED <<age, comps, score, tick, cron, ask, wasted, left>>

ReevalEnqueues(m) ==
    /\ reeval[m] = "running"
    /\ score' = EnqueuedScores(affected[m])
    /\ wasted' = [i \in Indexes |->
                     IF score[i] = "none" /\ i \in affected[m] /\ age[i] < Old
                     THEN wasted[i] + 1 ELSE wasted[i]]
    /\ reeval' = [reeval EXCEPT ![m] = "none"]
    /\ affected' = [affected EXCEPT ![m] = {}]
    /\ UNCHANGED <<age, comps, tick, cron, ask, left>>

\* The transaction fails and the queue takes the row back.
ReevalFails(m) ==
    /\ reeval[m] = "running" /\ Spend("fails")
    /\ reeval' = [reeval EXCEPT ![m] = "queued"]
    /\ affected' = [affected EXCEPT ![m] = {}]
    /\ UNCHANGED <<age, comps, score, tick, cron, ask, wasted>>

-----------------------------------------------------------------------------
(* The `score` job: one tick.                                              *)

\* The score a tick of age g leaves as the latest one of index i: readers
\* take the row with the greatest as_of.
StoresScore(i, g, C) ==
    /\ age' = [age EXCEPT ![i] = IF g < @ THEN g ELSE @]
    /\ comps' = [comps EXCEPT ![i] = IF g <= age[i] THEN C ELSE @]

TickStarts(i) ==
    /\ score[i] = "queued" /\ SlotFree
    /\ score' = [score EXCEPT ![i] = "running"]
    /\ tick' = [tick EXCEPT ![i] = 0]
    /\ UNCHANGED <<age, comps, reeval, affected, cron, ask, wasted, left>>

TickCommits(i, C) ==
    /\ score[i] = "running"
    /\ StoresScore(i, tick[i], C)
    /\ score' = [score EXCEPT ![i] = "scored"]
    /\ tick' = [tick EXCEPT ![i] = Old]
    /\ UNCHANGED <<reeval, affected, cron, ask, wasted, left>>

\* The caller who waits for the row of index i sees it end.
SeesEnd(i, how) ==
    ask' = IF ask.at = "wait" /\ ask.index = i THEN [ask EXCEPT !.at = how] ELSE ask

TickCompletes(i) ==
    /\ score[i] = "scored"
    /\ score' = [score EXCEPT ![i] = "none"]
    /\ SeesEnd(i, "succeeded")
    /\ UNCHANGED <<age, comps, reeval, affected, tick, cron, wasted, left>>

\* A tick that raises leaves no score; its row is queued again, or failed.
TickFails(i) ==
    /\ score[i] = "running" /\ Spend("fails")
    /\ tick' = [tick EXCEPT ![i] = Old]
    /\ \/ score' = [score EXCEPT ![i] = "queued"] /\ UNCHANGED ask
       \/ score' = [score EXCEPT ![i] = "none"] /\ SeesEnd(i, "failed")
    /\ UNCHANGED <<age, comps, reeval, affected, cron, wasted>>

-----------------------------------------------------------------------------
(* score-all and reeval-drifted: the indexes are read once, then scored    *)
(* one after the other; one that fails does not stop the rest (the queue   *)
(* then repeats score-all: another start).                                 *)

ScoreAllStarts ==
    /\ cron = NoCron /\ SlotFree /\ Spend("crons")
    /\ cron' = [cron EXCEPT !.todo = Indexes]
    /\ UNCHANGED <<age, comps, reeval, affected, score, tick, ask, wasted>>

\* Which component prices drifted is left open.
ReevalDriftedStarts(S) ==
    /\ cron = NoCron /\ SlotFree /\ Spend("crons")
    /\ S \subseteq {i \in Indexes : comps[i] # {}}
    /\ cron' = [cron EXCEPT !.todo = S]
    /\ UNCHANGED <<age, comps, reeval, affected, score, tick, ask, wasted>>

CronTick(i) ==
    /\ i \in cron.todo /\ cron.at = NoIndex
    /\ cron' = [todo |-> cron.todo \ {i}, at |-> i, age |-> 0]
    /\ UNCHANGED <<age, comps, reeval, affected, score, tick, ask, wasted, left>>

CronCommits(C) ==
    /\ cron.at # NoIndex
    /\ StoresScore(cron.at, cron.age, C)
    /\ cron' = [cron EXCEPT !.at = NoIndex, !.age = Old]
    /\ UNCHANGED <<reeval, affected, score, tick, ask, wasted, left>>

CronFails ==
    /\ cron.at # NoIndex /\ Spend("fails")
    /\ cron' = [cron EXCEPT !.at = NoIndex, !.age = Old]
    /\ UNCHANGED <<age, comps, reeval, affected, score, tick, ask, wasted>>

-----------------------------------------------------------------------------
(* The API.                                                                *)

\* POST /score/refresh, and GET /score?max_age_s=.. without wait_s.
RefreshScore(i) ==
    /\ Spend("asks")
    /\ score' = EnqueuedScores({i})
    /\ UNCHANGED <<age, comps, reeval, affected, tick, cron, ask, wasted>>

\* GET /score?max_age_s=..&wait_s=..: the latest score is older than limit.
AskAndWait(i, limit) ==
    /\ ask.at = "idle" /\ age[i] > limit
    /\ Spend("asks")
    /\ score' = EnqueuedScores({i})
    /\ ask' = [at |-> "wait", index |-> i, age |-> 0,
               joined |-> score[i] \in {"running", "scored"}]
    /\ UNCHANGED <<age, comps, reeval, affected, tick, cron, wasted>>

\* Mutation of Ended: a row that failed has ended, too.
EndedAnyhow == {"succeeded", "failed"}

\* The caller polls the row it got.
Ended == {"succeeded"}

\* The latest score is served.
Answer ==
    /\ ask.at \in Ended
    /\ ask' = NoAsk
    /\ UNCHANGED <<age, comps, reeval, affected, score, tick, cron, wasted, left>>

\* 503 for a failed row, 202 when the deadline passes first.
NoAnswer ==
    /\ ask.at \in {"failed", "wait"}
    /\ ask' = NoAsk
    /\ UNCHANGED <<age, comps, reeval, affected, score, tick, cron, wasted, left>>

-----------------------------------------------------------------------------
DemandStep ==
    \/ \E m \in Markets : ReevalReads(m) \/ ReevalEnqueues(m) \/ ReevalFails(m)
    \/ \E i \in Indexes :
          \/ TickStarts(i) \/ TickCompletes(i) \/ TickFails(i)
          \/ CronTick(i) \/ RefreshScore(i)
          \/ \E C \in Portfolios : TickCommits(i, C)
          \/ \E limit \in 0 .. Old - 1 : AskAndWait(i, limit)
    \/ ScoreAllStarts \/ CronFails \/ Answer \/ NoAnswer
    \/ \E S \in SUBSET Indexes \ {{}} : ReevalDriftedStarts(S)
    \/ \E C \in Portfolios : CronCommits(C)

-----------------------------------------------------------------------------
(* Properties.                                                             *)

\* Storm control: while the latest score is fresh, re-evaluations insert fewer
\* rows than there are worker slots, however many component markets trade.
\* (By reeval_market.py:8-9 they insert none; but a job that has read the
\* scores before a tick commits may enqueue after that tick's row has ended.)
StormBounded == \A i \in Indexes : wasted[i] < Concurrency

\* Who waited for a recompute is served a score computed from data of after
\* the request, unless the request joined a tick that was already running.
WaitedAnswerIsNewer ==
    [][Answer => ask.joined \/ age[ask.index] <= ask.age]_demand
=============================================================================
