# Verification of the PMI data platform

TLA+ models of the platform's stateful parts and of the arithmetic behind its
scores, TLC runs on small instances, and TLAPS proofs for every value of the
constants. The code is read at one
commit; a path such as `pmi_core/queue.py` is meant inside its package
(`src/pmi-core/`, `src/pmi-workers/`, `src/pmi-ingest/`, `src/pmi-api/`).

## 1. The system

The platform ingests prediction markets, lets a language model judge how each
market bears on an index, aggregates the judgements into a score per tick, and
serves the scores. Postgres is the only stateful infrastructure: it is the
database, the job queue, the workflow log and the notification bus at once.
Everything that runs concurrently runs in asyncio processes (API, ingest
streams, one or more worker containers, cron) that meet in its tables.

| Part | State it keeps | Operations | Talks to |
|---|---|---|---|
| Job queue (`pmi_core/queue.py`, `core_jobs`) | one row per job: status, attempts, run_at, heartbeat, dedupe key | enqueue, claim_next, complete, fail, heartbeat, requeue_stale, notify | producers (API, cron, streams), workers |
| Worker loop (`pmi_workers/worker.py`) | tasks in flight, wake and stop events, time of the last sweep, LISTEN connection | claim, execute, sweep, sleep, drain | queue, Postgres NOTIFY, signals |
| Durable workflows (`pmi_core/workflow.py`, `engine/backtest.py`) | run row, step rows | create_run, execute_run, step, set_steps_total | queue (job `workflow`), API |
| Scoring tick (`engine/pipeline.py`) | index definitions, prompts, pipeline runs, scores | register definition and prompts, prefilter, evaluate, aggregate, persist | evaluation cache, LLM clients, prices |
| Evaluation cache (`engine/factor_evaluator.py`, `audit_evaluations`) | append-only rows per market, factor, prompt, model | look up, call the model, persist, fall back to a stub | LLM clients |
| LLM batch lane (`jobs/llm_batch.py`) | batch rows with their request list | submit, poll | provider, evaluation cache |
| Scheduled jobs (`pmi_workers/jobs`, `cron/`) | none of their own | score, score_all, reeval_market, reeval_drifted, embed_markets | queue, pipeline |
| Aggregation (`engine/aggregator.py`, `engine/bucket_collapser.py`, `utils/date_analyzer.py`) | none | title dates, bucket collapse, weights, weighted average | pipeline, backtest |
| Races (`engine/seat_*.py`, `state_*.py`, `routes/maga.py`) | none | seats, chamber distribution, state heat, pages | pipeline, API, snapshots |
| Selection (`engine/selector.py`, `engine/dry_run.py`) | none | choose markets, try a definition on fixtures | pipeline, CLI |
| Polygon indexer (`chain/polygon_indexer.py`) | chain events, traders, token cache; the cursor is the largest block indexed | run_once, event handlers | RPC node, trades |
| UMA resolver, cohorts (`chain/uma_resolver.py`, `chain/cohort.py`) | resolution fields of markets, trader classes | settle, classify | chain events |
| WebSocket consumers (`streams/`) | subscriptions, debounce clocks, trades | connect, refresh tokens, persist a trade, enqueue re-evaluation | queue, trades |
| REST pollers and source health (`pollers/`, `health.py`) | markets, snapshots, per-source health | paginate, upsert, record_poll | external APIs |
| HTTP API (`pmi_api/routes`) | none of its own | scores, on-demand scoring, backtests, prompt admin | queue, workflows |

Web front ends, LLM clients, vector stores, scrapers, migrations and the MLflow
bridge complete the repository; `PROJECT.json` says of each why it is not
modelled.

### What is hard

* **Concurrency.** Statements of several transactions interleave at READ
  COMMITTED. Two executions of one job can be alive at once, because a stale
  heartbeat is not a dead worker and no write of an execution is fenced.
* **Failure.** Workers crash between any two awaits; every transaction may
  fail; the write that records a success may fail after the effects are done.
* **Ordering.** Notifications are lost, merged or arrive between a look and a
  sleep; late results are written after newer ones.
* **Time.** Heartbeats, sweeps, back-off, polling; keys derived from the clock.
* **Derived state.** Counters and cursors that must agree with the rows they
  summarise (`steps_done`, attempts, the indexer's block cursor, trade counts).

### What makes each part correct

* Queue: one pending row per key, one execution per claim, no request lost,
  bounded attempts, every row finishes. Worker loop: keeps claiming, sweeps even
  under load, stops gracefully.
* Workflows: result and progress agree with the checkpoints, a written result is
  final, checkpoints are not recomputed, runs end.
* Pipeline: one current definition per index, every score names committed cache
  rows, a failed tick leaves nothing half written, ticks do not block each
  other for ever.
* Batch lane: what counts as ingested is cached, every recorded batch is settled.
* Indexer: every block is covered, trades and counters follow from the events.
* Streams and on-demand scoring: a market that keeps trading is rescored in the
  end, an open one is followed, who waited is served newer data, and a burst of
  trades does not become a burst of ticks.
* REST pollers: a clean walk misses no market, tables catch up after failures,
  the health row says what the poll log says, sweeps reach every open market.
* Engine: one component per event at a price its members allow, scores that do not
  depend on order or units, one summary of a book at either venue,
  seat arithmetic that agrees with its definition, pages and dry runs that show
  the score they stand for.

## 2. Modules

| Module | Models | Proofs | TLC instance |
|---|---|---|---|
| `JobQueue` | queue.py, `_execute`, worker processes | `JobQueueProofs` | `MCJobQueue` |
| `QueueRow` | what one row of core_jobs does, for its executions (abstract) | `JobQueueProofs`, `WorkflowProofs` | through `JobQueue` |
| `WorkerLoop` | run_worker, `_listen_for_jobs` | `WorkerLoopProofs` | `MCWorkerLoop` |
| `Workflow` | workflow.py with backtest as the workflow | `WorkflowProofs` | `MCWorkflow` |
| `DurableRun` | what a durable run promises its caller (abstract) | `WorkflowProofs` | through `Workflow` |
| `Pipeline` | run_pipeline, the cache of factor_evaluator.py, models promote | `PipelineProofs` | `MCPipeline` |
| `Publication` | the ticks' tables as if ticks ran one at a time (abstract) | `PipelineProofs` | through `Pipeline` |
| `ChainIndexer` | polygon_indexer.py | `ChainIndexerProofs` | `MCChainIndexer` |
| `ChainTrail` | what audit_chain_events promises (abstract) | | through `ChainIndexer` |
| `OnDemand` | reeval_market, score, score-all, reeval-drifted, on-demand scores of the API | `TradeStreamProofs` | through `TradeStream` |
| `TradeStream` | polymarket_ws.py, kalshi_ws.py; EXTENDS `OnDemand` | `TradeStreamProofs` | `MCTradeStream` |
| `BatchLane` | llm_batch.py | `BatchLaneProofs` | `MCBatchLane` |
| `RestPoller` | the REST pollers and record_poll | `MarketSweepProofs` | through `MarketSweep` |
| `MarketSweep` | polymarket_clob, kalshi_clob, polymarket_history; EXTENDS `RestPoller` | `MarketSweepProofs` | `MCMarketSweep` |
| `Engine` | the requests below, one at a time | | `MCEngine` |
| `Ratio`, `Titles` | rational numbers; dates at the end of titles | | through `Engine` |
| `Scoring` | bucket collapse, weights, weighted average | | through `Engine` |
| `Selection` | selector.py, dry_run.py | | through `Engine` |
| `Races` | seats, chambers, states, MAGA pages | | through `Engine` |
| `OrderBook` | summaries of order books | | through `Engine` |

### JobQueue and QueueRow

`job` is the table. `ripe` and `stale` replace the timestamps: `run_at <= now`
and `heartbeat_at < cutoff`; time moves by `Ripen` and `GoStale`. An execution
in `exec` carries the attempt number it was claimed with, because the code hands
`fail()` the claimed object and never reads it again. `claiming` is the row that
a worker's uncommitted claim has locked: `ClaimNext` is the statement,
`CommitClaim` its commit, and only candidates that nobody has locked are seen
(`SKIP LOCKED`). Writes by id to a locked row wait for it. `Enqueue`,
`FindExisting` and `RetryInsert` are the three statements of `enqueue`; other
transactions commit in between. `RequeueStale` is both UPDATEs, one transaction.
`Stop`, `Exit`, `Crash` and `Restart` are the life of a container. Left out:
`queue` names (a filter on the candidates), results, error texts, and `get_job`,
which only reads.

`QueueRow` is what is left of the queue for the executions of one job: its
status, the number of claims, and the numbers of the claims whose executions are
under way. `RowsKeepLifecycle` says that every row of `JobQueue` is such a row,
with `live <- {e.attempt : e \in Executions(j)}`: an absent row is enqueued, only a
queued one is claimed, under a number no execution has, and only the sweep or
an execution under way puts it back or ends it, at most once each.

### WorkerLoop

One process, at the granularity of its awaits: `pc` names the await, callbacks
(`TaskDone`, `Notified`) and signals interleave there. The table shrinks to two
counts, rows this worker could claim and stale rows only a sweep brings back;
other workers and producers change them freely. `late` is a history variable: rows
claimed since the stop event. `StopsInTheEnd` asks that the process ends with at
most one such row, and with no task left behind. Sleep in `_heartbeat_loop` and
the body of `_execute` are in JobQueue.

### Workflow and DurableRun

One run and its queue job. Every transaction of `execute_run` and
`WorkflowContext.step` is an action; reading the run's status and setting it to
running are two, because the SELECT takes no row lock. The queue appears as the
interface JobQueue describes: a row that a late failure or a sweep puts back, so
that executions overlap, and is a row of `QueueRow` too (`JobKeepsLifecycle`).
`KeysFixed` says whether step keys follow from the args
(backtest with `end`, or any workflow that keeps the replay contract) or from
the time the execution began (backtest as API and CLI start it). A step's value
is any member of `Values`, since definitions and evaluations change between
attempts. The status `cancelled` is read by the code and set by nothing; it is
left out.

`DurableRun` is the same run for who started it: two actions, saving the next step
of an anchor, and publishing a result that is all saved steps of one anchor.
`RunIsDurable` maps `saved <- steps`, `done <- run.done` and `result` to the
anchor and points of the run; claims, crashes, overlaps, lost races for a
checkpoint and executions that find their steps saved are stutters.

### Pipeline and Publication

Ticks of one index, each one transaction at READ COMMITTED. `evals`, `defSha`,
`current`, `scores` and `runs` are what has committed; `pending` holds the cache
rows that a transaction has inserted and not committed, which other sessions do
not see but have to wait for. `pc` follows `run_pipeline`: definition,
selection, model resolution (a query per factor), cache load (a query per factor
and model), LLM calls, inserts pair by pair, score, commit. The calls are
asyncio tasks of their own: a semaphore admits them in the order `gather`
created them, and `_LLMGuard` is checked once, on admission; the second call of
an escalated pair is made without a check, as in the code. `Insert` is
`persist_evaluation`: a new row, or a hit on a committed one; with another
transaction's uncommitted row in the way it is not enabled until that
transaction ends. An escalated pair is inserted under its own model and then
under Tier 2. `Abort` is `session_scope` on an exception. `Fail` may strike at
any statement and stands for an exception and for the death of the process,
whose transaction Postgres rolls back. The other writer of the cache is `BatchLane`.
Left out: prompt rows (the prompt's hash is part of the key in the way the model
is), prices and depths, the score's value, MLflow.

`Publication` knows only the five shared tables, by the names they have in
`Pipeline`, and one action: a tick publishes its run row, its score, its
definition if that is new, and its own new cache rows, in one step. The score
explains itself by one row for each pair of a selected market and a factor, and
the totals are those of the rows that this step adds. `PublishesSerially` is the
refinement, by the identity on the tables: `Commit` is `Publish`, everything else
is a stutter.

### ChainIndexer and ChainTrail

`ChainTrail` is the promise of `audit_chain_events` in three lines: a set of logs
that only grows and that holds a log whenever it holds one of the same or a later
block. `ChainIndexer` implements it with `trail <- events`.

The chain is the constant set `Logs`; `head` says how much of it has been mined.
`StartCycle` asks for the head, `ReadCursor` derives the first block from the
largest block that has a row and ends the cycle at once when it is past the head
lag, `FetchLogs` gets the logs of a chunk or passes over an empty one. The
transaction of a chunk goes log by log (`First`) and, within a fill, statement by
statement (`stmt`): event, trade, maker's counter, taker's counter. What it has
written is in `newEvents`, `newTrades` and `bumps` until `CommitChunk`. Two
transactions meet in Postgres: an insert waits for an uncommitted row with its
key, a counter update for the lock of the row, and a circle of waiting
transactions loses one member (`Deadlocked`). `Fail` is any other exception and
the death of the process; both end the cycle, and the next one derives its cursor
anew. Several indexers are what the command line allows: the loop of
`pmi-ingest chain` and `chain --once` next to it. The token cache lives for one
cycle and keeps misses. Left out: `record_poll`, amounts, payloads,
reorganisations below the head lag.

### OnDemand and TradeStream

`OnDemand` is scoring outside the hourly schedule. The queue is reduced to one
pending row per key (what `JobQueueProofs` shows of it) and a tick to the one
score it commits, with the moment it started as its `as_of` (what `PipelineProofs`
shows). Time is an `age` that stops at `Old`, the freshness floor. A
`reeval-market` job is two steps, reading which indexes are stale (`affected`) and
enqueuing them, since ticks commit in between. A tick starts, commits and only
then does the queue end its row (`score = "scored"`). `ScoreAllStarts` and
`ReevalDriftedStarts` tick without the `score:<index>` key. An API caller (`ask`)
finds the score too old, joins or inserts the row, polls it and answers or gives
up. `wasted` counts the rows that re-evaluations insert while the score is fresh.
Which prices drifted is left open, and how the row of a failed tick is retried is
the queue's affair.

`TradeStream` puts the websocket consumer on top. `pc` is where `run_forever` is;
`tokens`, `components` and `clock` are its memory and die with the process;
`subscribed` is what the server sends on this connection, so a message for a
market outside it never comes. A message is one transaction: `MessageLost` is
a statement that fails, after which the clocks that had been set stay set
although the jobs are gone. Nothing but a message makes the consumer look at
its timers. With the database down, messages are skipped one by one; a
heartbeat, a refresh or the report of a failure raises, and the last of these
leaves `run_forever`, hence `Exit` and `Restart`. Kalshi's consumer has no
components and idles without a key.

### BatchLane

Pairs of market and factor, numbered in the order ticks insert them. A submit
goes index by index (cache misses, also those a pending batch asks for already)
and commits all rows at the end; `SubmitFails` leaves batches that run without a
row. The provider completes a batch with any subset of its requests, in rising or
falling order, or ends it without. A poll is one transaction over all pending
batches: it reads the rows, retrieves, inserts line by line (`Insert`, which waits
for an uncommitted row with the key), marks and commits. Ticks insert into the
same cache in their order, and a circle of waiting transactions loses one
member. `Stray` polls are queue rows recovered from a slow worker. Requests,
prices and `--dry-run` are left out.

### RestPoller and MarketSweep

One source and the processes that poll it. `venue` selects how the listing is
walked: opaque cursor, last id, offset, page number, or one request. The listing
grows, markets settle or move up in it between two pages. Each page is an upsert
transaction; a market's `kind` says what the database makes of it (no name, no
price, refused, a number that overflows). `record_poll` is a transaction of its
own, read and write apart, so overlapping polls are seen; `raced` remembers that
they did. `log` is truncated at `Recent`, at which the streak saturates.
`MarketSweep` adds the three pollers that go through the stored markets with a
cap, in the order the query happens to return. Left out: latencies, 24 h totals,
fields other than settlement and category.

### Engine and its algorithms

Numbers are exact rationals (`Ratio`), so what is checked is the formulas and not
the rounding (4 digits in the code). `Titles` reads a title as a question with a
suffix; which literals the two date expressions find is part of the model,
character by character text is not. `Scoring` follows bucket_collapser.py and
aggregator.py statement by statement: groups, splits at a date gap, the two ways
to combine prices, relevancy with missing factors, quantile weights, and the
lineage. `Selection` has the live selector and the dry run's own second
implementation of it, `Races` the seats from titles, the seat distribution by
convolution, bands, state heat and its trends. `OrderBook` is both venues' polls of
a book, from the response to the summary: Kalshi serves cents to a signed request
and dollars to an anonymous one (`Served`), levels are divided by what the poller
passes (`Normalized`), which is 1, and summarized.

`Engine` takes one request and keeps the result; its invariants compare results
with reference definitions or with each other. `Events` is such a definition: it
says which rows are about one event by the gaps between their dates, where the
code sorts and walks them. `OneComponentPerEvent` then asks for one row per event,
whose price is at least each member's and at most their sum when all its dates lie
within the window, and between the extremes of the members otherwise.
`LineageRebuildsScore` holds a board that is rebuilt from a score's lineage against
the score, with snapshots in any order, and allows for the markets it names as
`Stale`.

## 3. Runs

| Run | Question | Bounds |
|---|---|---|
| `queue_safety` | Is the table consistent under crashes, stalls and late executions, is every deduplicated request kept, and each row's lifecycle? | 2 rows, 1 key, 2 producers, 2 workers, 2 attempts, 1 slot |
| `queue_settles` | Does every row finish? | 2 rows of priorities 50 and 100, 1 worker, 2 slots, 2 attempts |
| `queue_double_execution` | queue.py:6-8, no double execution: violated | 1 row, 2 workers |
| `worker_loop` | Does the loop claim, sweep and stop as it should? | 2 slots, 3 rows |
| `workflow` | Is the run durable (`DurableRun`), is a written result final, does the run end? | 2 slots, 2 steps, 2 results, 2 attempts |
| `backtest_resumes` | core_workflow.py:10, a backtest resumes at its checkpoint: violated | as above, moving keys |
| `pipeline` | Do ticks that race, escalate, fail and abort leave the tables of ticks that ran one at a time (`Publication`), does every tick end, and how far do calls overshoot the guard? | 2 ticks with up to 2 markets and 1 call at a time each, or 1 tick with up to 3 markets and 2 calls at a time; 3 definition files of 2 versions, 1 factor, 1 real model and Tier 2, budget of 2 calls, breaker at 1 |
| `chain_indexer` | Is the trail gapless, are trades and counters explained by it, is everything indexed in the end? | 2 indexers, 5 blocks, 5 logs (3 fills, 1 other event, 1 not handled), 2 wallets, 1 token, chunks of 1 block, 2 per cycle, lag 1, 1 failure, any number of deadlocks |
| `rest_feed` | Does a clean walk miss nothing, does the health row follow the log, do tables and sweeps catch up? | every venue; 2 or 3 markets, pages of 1, at most 3 pages, 1 fault or reordering, loop and manual poll, 4 log rows |
| `engine` | Do the formulas agree with their definitions, and pages, boards and dry runs with the score? | some thousand inputs: ticks of 2 to 5 rows, fixtures of 3 markets, 2 states with up to 4 markets, chambers of 3 and 4 seats, books of up to 2 levels a side, in dollars and in cents |
| `streams` | Are hot markets rescored, open ones followed, waiting callers served newer data, storms bounded? | 1 index, 3 markets, floor and debounce of 2, 2 slots, 2 subscriptions, 9 setups with up to one of each fault |
| `batch` | Is what counts as ingested cached, is every batch settled? | 2 pairs of an index, 2 batches and a tick, or 1 batch, 2 ticks and a fault; a stray poll |

Why the bounds suffice to be interesting: two rows let a revived row meet its
newer twin; two producers let one insert between the look and the retry of
another; two workers (or slots) let a superseded execution outlive the claim after
it; two attempts give one retry and one exhausted row, and the bound
2*MaxAttempts-1 = 3 is reached. Two steps give a resumed step and a new one, two
results a difference between the loser of a race and the checkpoint. Two ticks
race for a cache row and for a registration; two files of one version differ in
their text and the third has another version; two markets make an order of
insertion. The tick that `MCPipeline` runs alone has two calls admitted before
either is charged, and a third that finds the guard tripped; both limits of
`GuardBounds` are reached, so that a bound lower by one is violated. Two fills
with maker and taker exchanged let two transactions lock the wallets in opposite
orders, a block without logs and one with nothing to handle make empty chunks, and
a window of two chunks puts a commit between two chunks of a cycle. Pages of one
market make every listing of two or three a walk, one reordering moves a market
across the page being fetched, and four log rows pass the streak of three that
means `down`. Two slots are the least with which a re-evaluation can read a score
that another job's tick is about to replace, and the wasted rows reach the one
that the bound allows; more open markets than subscriptions make the cap bite. All
kinds of faults at once exceed what can be explored, so each setup combines a few,
at most one of a kind. Two pairs in opposite orders deadlock a poll with a tick.
Buckets 19 and 20 days apart with a window of 20 make a chain that is longer than
the window, one more day before them and one year after them other events. What
the bounds leave open is what the proofs are for.

The runs of the worker, the workflow, the pipeline, the REST sources, the engine,
the streams and the batch lane switch the deadlock check off: the process exits,
or what may still happen is bounded by a budget that is used up, and then
nothing is left to do. That ticks do not block one another is `TickEnds`, that
polls and ticks do not is `BatchSettles`. For the queue and the indexers the check is on.

### Fairness

* Queue: time passes; a job function returns or raises; the execution writes
  how it ended or gives up; containers are restarted (`restart: unless-stopped`
  in the compose file). Claims and sweeps are strongly fair: crashes and
  database errors may come for ever but do not hit every claim. Heartbeats of a
  row go stale *fairly* only when no execution is left, and may go stale at any
  time.
* Worker loop: the event loop runs what is runnable, `asyncio.wait` times out,
  timers fire, tasks end. Nothing is assumed of notifications and connections.
* Workflow: an execution goes on or dies, the queue claims a queued row and
  sweeps a row that nobody executes.
* Pipeline: a tick takes its next step when it can, its LLM calls answer or time
  out. No tick has to start, to fail or to be killed, and no model to be
  promoted. `MCPipeline` bounds calls and markets in its next-state relation and
  keeps this fairness, so its behaviours are behaviours of `FairSpec`; a tick
  that the bound keeps from one step always has another.
* Indexers: blocks are mined up to the bound, and each indexer goes on, which is
  the loop of `pmi-ingest chain` (cli.py:310) with Postgres' deadlock detection.
  `AllIndexed` speaks of chains on which no stretch as long as a cycle's window
  is without handled logs (`Dense`). Without that condition it is false: such a
  stretch leaves no row, so the cursor never gets past it.

* REST sources: all pollers loop (cli.py) and a sweep that has begun goes on.
  `CatchesUp` speaks of runs in which requests, commits and the listing's order
  are disturbed finitely often, which the budget makes all of them, and of
  sources without a market the database refuses (`Clean`): such a market fails
  its page in every cycle.
* Streams: the consumer's task runs, the database comes back, time passes and
  the refresh interval runs out; slots are claimed strongly fairly, jobs that
  have begun end. No caller and no cron has to come. `HotMarketRescored` has its
  condition in the formula: the market trades for ever and its token is known.
  `OpenMarketFollowed` assumes that messages keep coming, because the timers are
  only looked at after one: a consumer whose markets fall silent learns of no
  others.
* Batch lane: the poll is scheduled every half hour and run by the queue, the
  provider ends a batch within its window of 24 hours, a released row goes to
  who waits for it, the database breaks deadlocks. `BatchSettles` assumes that
  no recorded batch is unreadable: one such batch fails the transaction of all,
  at every poll.
* Engine: safety only.

### Disagreements with the documentation

Two are runs that TLC finds violated, and entries under `findings`.

1. *No double execution* (queue.py:6-8) fails: `SKIP LOCKED` separates claims, not
   executions. A worker whose heartbeats fail for 300 s keeps running while the
   sweep gives its row to another.
2. *Resumes at day 61* (core_workflow.py:10) fails for a backtest started through
   the API or the CLI: neither passes `end`, so every attempt has other keys,
   recomputes every point and counts it again; `steps_done` passes `steps_total`.

The models show these as well, without a run of their own; where the code keeps a
weaker promise, that promise is the property.

* *Calendar buckets* (bucket_collapser.py:17-25), "2 or more parseable dates within
  max_spread_days", are to be combined by noisy-OR. The code splits where
  neighbours are too far apart but asks the first and the last date of the event
  to lie within the window: 3/1, 3/20 and 4/9 with a window of 20 are one
  event and get the mean. `OneComponentPerEvent` says what the code does: noisy-OR
  only if all dates lie within the window.
* *The matching price divisor* (kalshi_clob.py:183-184): with a key configured the
  requests are signed, the response has cents, and `_poll_one` divides by 1. The
  ask, 1 minus a number of cents, is negative, middle and spread follow, the
  bands are empty. A comment there (243-245) takes the signed path for future
  work, but `run_once` (293-321) takes it already. `BooksAgree` says that dollars
  make the two venues equal, and what still holds of cents: the sides and their
  totals, and best bids that are 100 times the book's.
* *Top line and board never diverge* (aggregator.py:200-201): the board takes the last
  snapshot up to the score's `as_of` of the lineage's markets and drops those
  without a price, the score goes back to the last snapshot with one. They agree
  when no market's last snapshot lacks a price or is younger than the score, and
  differ by at most a seat for each market of which that is true
  (`LineageRebuildsScore`).
* *Retry until max_attempts* (queue.py:14): `fail()` compares the attempts of a
  stale object and writes by id. Proved: at most 2*MaxAttempts-1 (`AttemptsBound`).
* *One row per pipeline tick* (audit_pipeline_run.py:1): the `except` branch writes
  `failed` onto a row that the enclosing `session_scope` rolls back (`AllOrNothing`,
  part of `PublishesSerially`, is what holds).
* *Concurrent indexers stay consistent*, *fully idempotent* (polygon_indexer.py:126):
  `trade_count` is raised although the trade was there already, never below the
  number of trades and at most once per indexer (`CountsBounded`).
* *One tick per index per interval* (reeval_market.py:8-9): a job that has read the
  scores before a tick commits enqueues after it. Fewer than one extra row per
  slot (`StormsBounded`).
* *The cap is revisited by later runs* (polymarket_history.py:29-31,
  polymarket_clob.py:232-233): the query has no order that would bring others to
  the front. `SweptIfTheyFit` is about markets that fit, and the run has a cap
  that they fit.
* `run_forever` is meant to survive outages (polymarket_ws.py:434-459); the report of
  the failure needs the database and raises. A restart heals it
  (`OpenMarketFollowed`). Its back-off is never reset by a good connection.

Behaviour nothing in the repository promises otherwise, and worth knowing:

* The LLM guard is approximate: `Budget + 2*LLMConc - 1` calls (a call in flight
  when it trips may still escalate) and `FailLimit + LLMConc - 1` failures in a row
  (`GuardBounds`). A stub written because a call failed or the guard was open
  takes the cache key of the real model and is never replaced.
* Submits do not look at pending batches, so a pair can be paid for twice; a
  crash after the provider accepted a batch loses it.
* One unreadable line, or a batch of which every request failed, keeps all
  batches from being settled. Overlapping polls may write `in_progress` over
  `ingested`; the next poll repairs it (`BatchSettles`).
* A market that a REST source's database refuses fails its page in every cycle.
* An indexer window without handled logs leaves no row and is never passed.
* cohort.py groups by `COALESCE(maker, taker)` and thus counts makers only;
  uma_resolver.py's propose, dispute and settle events carry an identifier that
  its join never matches, so a market's settlement label comes from Gamma or from the
  adapter's resolution. Both were read, not modelled.

## 4. Proofs

All are TLAPS proofs for arbitrary constants under the assumptions of the
modules: null values outside the sets they extend, `MaxAttempts`, `Concurrency`,
`Length`, the stream's cap and its debounce positive, priorities natural numbers,
finitely many indexers, markets of the streams and indexes scored on demand.

* `JobQueueProofs`. `TypeCorrect` is inductive. The claim invariant says that
  the open claims lock different queued rows and that an execution's attempt
  number is unique and at most its row's `attempts`; it yields `ClaimsExclusive` and
  `HeldRowsQueued`. A queued row may be locked while a late execution writes by
  id, so the invariant rests on those writes waiting for the lock. `OnePending`
  says that the rows pending at a key are one at most; the step that needs work
  is the late failure, which re-enters the partial index. `AttemptsBound` uses a
  potential: an attempt below the limit can put its row back by its own failure,
  which uses the execution up, or by the sweep, which uses the row's standing
  attempt up. The invariant bounds attempts plus what is still owed by
  2*MaxAttempts-1. `RequestsKept` and `SettledRows` are action properties.

  `RowsLive` is the refinement of `QueueRow`, for every row at once and any queue
  around it. It needs of the claim invariant that an open claim's row is queued and
  that attempt numbers are unique: then a commit is a `Claim` under a fresh
  number, and what a late execution does is the end of one execution under way,
  with the number it was claimed under and not with what the row says now. The
  corollary `RowRefines` states it for one row.
* `WorkerLoopProofs`. The invariant says where the loop can be after the stop
  event and how many rows it has claimed since: one while an iteration is under
  way, and none after it has left.
* `WorkflowProofs`. `RunTypes` needs to know what an execution holds at each
  location (no points before the first step, fewer than all before another one,
  a value before a save). `DoneCounts` and `ResultCheckpointed` rest on one
  lemma, that a step adds one row for a key that had none or leaves the rows and
  the counter alone. The latter carries the invariant that the points any
  execution has gathered are the checkpoints of its own keys. `SuccessStays`
  is an action property: the queue may come back to a run that succeeded, and
  nothing of it changes unless an execution had read it before.
  `CheckpointsResume` has the hypothesis that the args fix the step keys, as `end=`
  does: all executions then count their points from one anchor (`AnchoredKeys`),
  so a checkpoint any of them saved is found by all. Without it the property is
  false, which the run `backtest_resumes` shows.

  `RunsAreDurable` is the refinement of `DurableRun`, with moving keys as well as
  fixed ones. A save is the next step of its anchor because the points an
  execution has gathered are checkpoints (`CheckpointInv`), one for each number
  below; a finish publishes all of them because an execution that is about to finish has
  `Length` points. `ResultCheckpointed` is part of it. `ResultsAreFinal` adds that
  with fixed keys a result never changes (`ResultIsFinal`), although an execution
  that read the run before marks it as running, and may finish it again: all
  points are checkpoints of the one anchor, and those stay.
  `JobLives` shows that the job this module assumes is a row of `QueueRow`, as
  `RowsLive` shows of the rows `JobQueue` has. The two modules thus speak of one
  interface; that every behaviour of that interface can be met in the queue is
  not claimed.

* `PipelineProofs`. `TypeBound` is the type invariant with what the later proofs
  need of a tick's location. `CacheInv` adds that no key is both pending and
  committed, that the rows in a tick's `evalmap` are committed or its own
  pending ones and of its own version, and the two facts it is for
  (`ScoresHaveLineage`, `TicksAreAtomic`): a commit publishes the pending rows,
  so a score names committed rows only because nothing else was in its map.
  `DefinitionInv` says that at most one tick holds an uncommitted registration,
  that it has read as current whatever is current, and that a tick past its
  registration holds the registered text or registers it; from it follow
  `OneDefinitionIsCurrent` and `ScoresUseRegisteredText`.

  `GuardBounded` needs the calls in flight: a guard that trips keeps new calls out
  and stops none that has begun, so the invariant `GuardInv` bounds what has been
  spent plus what the calls at either tier may still add (two answers before an
  escalation, one after it), and says that a closed guard has met neither limit.

  `AccountingIsExact` shows that two pairs of counters are sizes of sets
  (`CountInv`): a tick's own pending rows and the real ones among them while it
  runs, the committed rows it wrote once it has committed. Each answer is one paid
  key, only paid keys become real rows, and a row is inserted at most once
  because an insert that conflicts takes the other tick's row without counting it.

  `WaitsAreAcyclic` (`NoCircularWait`: ticks that insert the same keys never wait
  for each other in a circle, for any number of them) follows from the order of the
  inserts. By `OrderInv` all that a tick holds comes before what it has still to
  insert, so whoever holds the key that a tick waits for wants a greater one, and
  the keys would rise all the way round a circle; one of finitely many ticks wants
  a greatest key (`Maximal`). An escalated pair has its second row inserted with its first,
  which is the case that needs a part of its own.

  `TicksPublishSerially` is the refinement of `Publication`: whatever ticks do to
  each other, what the tables show is ticks that ran one at a time or not at all.
  Its step rests on the invariants of cache, definitions and counters. Pending
  keys are free (`CacheInv`), so a commit adds exactly its pending rows and
  `AccountingIsExact`'s counters are the sizes of what it adds; a tick past its
  registration holds the registered text or is the one that registers
  (`DefinitionInv`). Two more are needed: `Selected`, that the tick works on a set
  that selection returned, and `KeyInv`, that a pair is mapped to the key of the
  model its factor was bound to, or of Tier 2 after an escalation. So a score has
  one row for each pair, and one model per factor although models are promoted
  meanwhile. `ScoresUseRegisteredText` and `TicksAreAtomic` are parts of it that
  are theorems of their own.

* `ChainIndexerProofs`. `TypeInv` adds to the types what is known of the log an
  indexer is in the middle of: it is a fill, its event is written, and after the
  second statement its trade is too. `Gapless` is what makes a cursor derived
  from rows sound: the events have no hole, and every indexer knows that what
  lies between the start block and its position is there (up to the end of its
  cycle), and that the chunk it writes is in what it has still to do, has written
  or found. This stays true when others add events, so overlapping cycles need no
  coordination, and a commit of a whole chunk extends the trail without a hole.
  `IndexersFollowChain` is the refinement of `ChainTrail`. `Explained` carries
  `TrailExplains` through the open transactions.

  `CountersBounded` puts a wallet's counter between two sets: at least one for each
  stored trade it is a side of, at most one for each indexer that has come past
  each such side. Counters are added up in memory and written with the chunk, so
  `CountInv` bounds the open bumps of an indexer as well, between the sides it has
  stored itself (`Paid`) and those it has come across in its chunk (`Seen`); and
  an indexer that gives up its chunk forgets its bumps together with its trades.
  `Past` is what makes the upper bound stand when cycles overlap: an indexer does not
  come back to a log before its next cycle, which begins after it.

* `BatchLaneProofs`. `LaneTypes`, and for `IngestedCached` the invariant
  `CacheInv`: what a poll has read of a file is in the cache or among its own open
  rows (`FileCached`), so is the whole output of a batch it has marked
  (`MarksCached`) and of one whose row says so (`RowsCached`). It is inductive
  because a rollback takes the marks with the rows and because an insert that
  finds the key waits until the other transaction has ended: a hit is always a
  hit on a committed row.
* `TradeStreamProofs`. The first three theorems are about `OnDemand` as
  `TradeStream`'s specification drives it. `DemandTypes` is inductive. For
  `StormsBounded` the running jobs are counted: they fit into the slots (`Slots`),
  and what has been wasted on an index plus the running jobs that still hold it as
  stale stays below `Concurrency` while its score is fresh (`Storms`); one slot is
  needed by the very tick that made it fresh. `WaitersServedNewer` carries that an
  ended row which the caller did not join has left a score no older than the
  request. `StreamTypes` is about the consumer itself: its types, and that while
  it reads it has subscribed to every market it would keep trades of (`Follows`).
  A refresh replaces its list of markets and only adds to the subscription, a lost
  connection and an exit drop the one before the other is loaded anew; none of
  them comes between.
* `MarketSweepProofs`. `HealthFollows`, with `HealthInv`: record types, and as
  long as no two polls overlapped, the row agrees with the log (a first failure is
  recorded as `down` at once, later ones as `degraded` up to the third). The lemma
  `Remembered` says what appending to the truncated log does to its trailing run
  of failures. `SweepTypes` needs to know what a poll has in its buffer at each
  location. `WalksAreComplete` rests on `WalkInv`: the listing descends, and a
  storable market that was listed all through a walk, which has neither failed nor
  been cut short, has a row or is still ahead of the walk: on the page at hand or
  beyond the position. New listings appear before every position and the order
  never changes, so a page and what is beyond it are all that was ahead of it
  (`PageOrBeyond`). The case that is not obvious is a cursor that the server
  echoes, which is noticed only once its page is written (`WalkEcho`).

Besides the properties of the runs, these are proved: the type invariants
(`TypeCorrect`, `LoopTypes`, `RunTypes`, `TickTypes`, `IndexerTypes`, `LaneTypes`,
`DemandTypes`, `SweepTypes`, `StreamTypes`), `HeldRowsQueued`, `SettledRows`,
`OneLateClaim`, `GracefulExit`, `DoneCounts`, `ResultCheckpointed`,
`SuccessStays`, `JobLives`, `CacheIsAppendOnly`, `ScoresUseRegisteredText`,
`TicksAreAtomic` and `WaitsAreAcyclic`.

Only model-checked: the liveness properties, which are out of reach of the
prover (fairness, ENABLED), and the properties of `Engine`. These compare sums and
products over rows, markets and levels of a book, which are folds, of rational
numbers that `Ratio` brings to lowest terms with a recursive function; that a
fold does not depend on the order of its terms, or that reducing a fraction twice
changes nothing, takes an induction over data for which the prover has no means.
Every other safety property of a passing run is a theorem. Every run evaluates
the ASSUMEs of its module.

## 5. Not modelled

* LLM clients, the MLflow bridge and page scrapers are wrappers around external
  services: what they do to the platform's state is an answer, a failure or
  nothing, and the models of their callers have these outcomes.
* Embeddings, vector stores and `embed-markets`: batch upserts into an external
  index. Selection has what a search can do to it (results, or none).
* UMA resolver and cohorts: two projections and an aggregate, each one
  idempotent transaction started by hand or from cron. Nothing interleaves with
  them that would make a state machine of them.
* Prompt versions (`routes/admin.py`, prompt rows of a tick) and `routes/jobs.py`: the
  prompt's hash enters the cache key as the model does, and jobs.py only reads.
* Migrations: one-shot DDL; the constraints they create are in the models.
* Web front ends: no protocol state. The MCP server is a stub. The command line
  wraps operations that are modelled.

Within modelled parts the sections above name what is left out: rounding,
reorganisations of the chain below the head lag, amounts, payloads, latencies.

Modules are not all composed. `JobQueue` meets `Workflow` through `QueueRow`, which
both implement, and `OnDemand` and `WorkerLoop` through the facts proved about it
(one pending row per key, rows that come back after a late failure or a sweep).
`Pipeline` meets `OnDemand` and `BatchLane` through the commit of a tick as one
step, which is what `Publication` shows of it. Composing them outright
multiplies state spaces of 10^5 states each without an interaction that these
interfaces do not have.
