------------------------------ MODULE BatchLane ------------------------------
(***************************************************************************)
(* The half-price lane of pmi_workers/jobs/llm_batch.py.                   *)
(*                                                                         *)
(* llm-batch-submit asks a provider, index by index, for the evaluations   *)
(* that the cache misses, and records the batches it was given in one      *)
(* transaction (core_llm_batches).  llm-batch-poll looks at all recorded   *)
(* batches that have not ended, inserts the answers of completed ones into *)
(* the cache (audit_evaluations) and commits them together with the new    *)
(* statuses.  Live ticks fill the same cache meanwhile.                    *)
(*                                                                         *)
(* A (market, factor) pair of an index stands for its cache key.  Pairs    *)
(* are numbered in the order in which ticks insert them (Pipeline's        *)
(* NextPair).  An INSERT .. ON CONFLICT DO NOTHING waits while another     *)
(* transaction has inserted the key and not committed; when transactions   *)
(* wait in a circle the database aborts one of them.                       *)
(***************************************************************************)
EXTENDS Naturals, FiniteSets

CONSTANTS
    LastPair,
    IndexOf,     \* the index of each pair
    LastBatch,   \* batches are 1 .. LastBatch, in the order of their submission
    Stray,       \* polls that may run next to the scheduled one: queue rows
                 \* recovered from a worker that was slow, not dead
    Budgets,     \* how many batches are submitted, ticks run, and requests,
                 \* commits or processes fail (or a stray poll runs)
    NoRow,
    None

Pairs   == 1 .. LastPair
Batches == 1 .. LastBatch
Indexes == {IndexOf[k] : k \in Pairs}
Polls   == {"cron"} \cup Stray
Actors  == Polls \cup {"tick"}

Status == {"submitted", "in_progress", "completed", "expired", "ingested"}

ASSUME BatchLaneAssumption ==
    /\ LastPair \in Nat /\ LastBatch \in Nat
    /\ DOMAIN IndexOf = Pairs
    /\ Budgets \subseteq [batches : 0 .. LastBatch, ticks : Nat, faults : Nat]
    /\ "tick" \notin Stray
    /\ NoRow \notin Status /\ None \notin Nat

VARIABLES
    evals,    \* committed rows of audit_evaluations
    rows,     \* status of the batch's row of core_llm_batches
    job,      \* the batch at the provider
    left,     \* submit: the indexes it has not come to; None when none runs
    added,    \* submit: the batches whose rows it will commit
    busy,     \* which polls and ticks run
    read,     \* poll: the pending batches as it read them, those it has done
              \* with taken away
    file,     \* poll: the batch whose output it inserts
    lines,    \* the pairs an actor still has to insert
    want,     \* the pair of the INSERT it has sent
    held,     \* the rows it has inserted and not committed
    marks,    \* poll: the statuses it will commit
    budget    \* what is left of the one chosen

provider  == <<job>>
submitter == <<left, added>>
work      == <<busy, read, file, lines, want, held, marks>>
vars == <<evals, rows, provider, submitter, work, budget>>

TypeOK ==
    /\ evals \in SUBSET Pairs
    /\ rows \in [Batches -> Status \cup {NoRow}]
    /\ job \in [Batches -> [status : {"unused", "running", "completed", "expired"},
                            asked : SUBSET Pairs, output : SUBSET Pairs,
                            upwards : BOOLEAN, unreadable : BOOLEAN]]
    /\ left \in (SUBSET Indexes) \cup {None} /\ added \in SUBSET Batches
    /\ busy \in SUBSET Actors
    /\ read \in [Polls -> [Batches -> Status \cup {NoRow}]]
    /\ file \in [Polls -> Batches \cup {None}]
    /\ lines \in [Actors -> SUBSET Pairs]
    /\ want \in [Actors -> Pairs \cup {None}]
    /\ held \in [Actors -> SUBSET Pairs]
    /\ marks \in [Polls -> [Batches -> Status \cup {NoRow}]]
    /\ budget \in [batches : Nat, ticks : Nat, faults : Nat]

NoRows == [b \in Batches |-> NoRow]

Init ==
    /\ evals = {} /\ rows = NoRows
    /\ job = [b \in Batches |-> [status |-> "unused", asked |-> {}, output |-> {},
                                 upwards |-> TRUE, unreadable |-> FALSE]]
    /\ left = None /\ added = {}
    /\ busy = {}
    /\ read = [p \in Polls |-> NoRows] /\ file = [p \in Polls |-> None]
    /\ lines = [x \in Actors |-> {}] /\ want = [x \in Actors |-> None]
    /\ held = [x \in Actors |-> {}] /\ marks = [p \in Polls |-> NoRows]
    /\ budget \in Budgets

Spend(what) == budget[what] > 0 /\ budget' = [budget EXCEPT ![what] = @ - 1]

-----------------------------------------------------------------------------
(* llm-batch-submit *)

Unused == {b \in Batches : job[b].status = "unused"}
Misses(i) == {k \in Pairs : IndexOf[k] = i} \ evals

SubmitStarts ==
    /\ left = None
    /\ budget.batches >= Cardinality(Indexes)
    /\ left' = Indexes /\ added' = {}
    /\ UNCHANGED <<evals, rows, provider, work, budget>>

\* Pairs that a pending batch already asks for are misses like any other.
SubmitIndex(i, b) ==
    /\ left # None /\ i \in left
    /\ Misses(i) # {}
    /\ b \in Unused /\ \A c \in Unused : b =< c
    /\ Spend("batches")
    /\ job' = [job EXCEPT ![b].status = "running", ![b].asked = Misses(i)]
    /\ added' = added \cup {b}
    /\ left' = left \ {i}
    /\ UNCHANGED <<evals, rows, work>>

NothingToDo(i) ==
    /\ left # None /\ i \in left
    /\ Misses(i) = {}
    /\ left' = left \ {i}
    /\ UNCHANGED <<evals, rows, provider, added, work, budget>>

SubmitCommits ==
    /\ left = {}
    /\ rows' = [b \in Batches |-> IF b \in added THEN "submitted" ELSE rows[b]]
    /\ left' = None /\ added' = {}
    /\ UNCHANGED <<evals, provider, work, budget>>

\* An exception at one index, or a crash: the batches that the provider has
\* accepted run on without a row.
SubmitFails ==
    /\ left # None
    /\ Spend("faults")
    /\ left' = None /\ added' = {}
    /\ UNCHANGED <<evals, rows, provider, work>>

-----------------------------------------------------------------------------
(* The provider *)

\* The output has a line for each request that did not fail, in an order of
\* the provider's.  It cannot be read if a line is not what json.loads or
\* parse_factor_response expects, or if all requests failed: then there is no
\* file.
Completes(b) ==
    /\ job[b].status = "running"
    /\ \E output \in SUBSET job[b].asked, upwards, unreadable \in BOOLEAN :
          /\ output = {} => unreadable
          /\ Cardinality(output) < 2 => upwards
          /\ job' = [job EXCEPT ![b].status = "completed", ![b].output = output,
                                ![b].upwards = upwards, ![b].unreadable = unreadable]
    /\ UNCHANGED <<evals, rows, submitter, work, budget>>

\* Also: failed, cancelled.
Expires(b) ==
    /\ job[b].status = "running"
    /\ job' = [job EXCEPT ![b].status = "expired"]
    /\ UNCHANGED <<evals, rows, submitter, work, budget>>

-----------------------------------------------------------------------------
(* Inserting *)

Holds(x, k) == k \in held[x]

\* Mutation of Inserted: a key that another transaction holds counts as cached.
InsertedUnlessLocked(x, k) ==
    held' = [held EXCEPT ![x] = IF k \in evals \/ \E y \in Actors : Holds(y, k)
                                THEN @ ELSE @ \cup {k}]

\* ON CONFLICT DO NOTHING.
Inserted(x, k) ==
    /\ ~\E y \in Actors \ {x} : Holds(y, k)
    /\ held' = [held EXCEPT ![x] = IF k \in evals THEN @ ELSE @ \cup {k}]

Insert(x) ==
    /\ want[x] # None
    /\ Inserted(x, want[x])
    /\ lines' = [lines EXCEPT ![x] = @ \ {want[x]}]
    /\ want' = [want EXCEPT ![x] = None]
    /\ UNCHANGED <<evals, rows, provider, submitter, busy, read, file, marks,
                   budget>>

\* Which pair comes next.
NextLine(x, k) ==
    /\ want[x] = None /\ k \in lines[x]
    /\ IF x = "tick" \/ job[file[x]].upwards
       THEN \A l \in lines[x] : k =< l
       ELSE \A l \in lines[x] : k >= l

SendInsert(x) ==
    /\ \E k \in Pairs : NextLine(x, k) /\ want' = [want EXCEPT ![x] = k]
    /\ UNCHANGED <<evals, rows, provider, submitter, busy, read, file, lines,
                   held, marks, budget>>

\* The end of a transaction, either way.
Done(x) ==
    /\ busy' = busy \ {x}
    /\ lines' = [lines EXCEPT ![x] = {}]
    /\ want' = [want EXCEPT ![x] = None]
    /\ held' = [held EXCEPT ![x] = {}]
    /\ IF x \in Polls
       THEN /\ read' = [read EXCEPT ![x] = NoRows]
            /\ file' = [file EXCEPT ![x] = None]
            /\ marks' = [marks EXCEPT ![x] = NoRows]
       ELSE UNCHANGED <<read, file, marks>>

Rollback(x) ==
    /\ x \in busy
    /\ Done(x)
    /\ UNCHANGED <<evals, rows, provider, submitter>>

Fails(x) == Spend("faults") /\ Rollback(x)

\* x belongs to a circle of transactions, each waiting for the next.
Deadlocked(x) ==
    \E C \in SUBSET Actors :
        /\ x \in C
        /\ \A y \in C : \E z \in C \ {y} : Holds(z, want[y])
        /\ \A z \in C : \E y \in C \ {z} : Holds(z, want[y])

DeadlockDetected(x) == Deadlocked(x) /\ Rollback(x) /\ UNCHANGED budget

-----------------------------------------------------------------------------
(* A live tick, as far as the cache sees it *)

TickStarts(i) ==
    /\ "tick" \notin busy /\ Misses(i) # {}
    /\ Spend("ticks")
    /\ busy' = busy \cup {"tick"}
    /\ lines' = [lines EXCEPT !["tick"] = Misses(i)]
    /\ UNCHANGED <<evals, rows, provider, submitter, read, file, want, held,
                   marks>>

TickCommits ==
    /\ "tick" \in busy /\ lines["tick"] = {}
    /\ evals' = evals \cup held["tick"]
    /\ Done("tick")
    /\ UNCHANGED <<rows, provider, submitter, budget>>

-----------------------------------------------------------------------------
(* llm-batch-poll *)

\* Mutation of Pending: a batch once seen running is not looked at again.
PendingSubmitted == {b \in Batches : rows[b] \in {"submitted", "completed"}}

Pending == {b \in Batches : rows[b] \in {"submitted", "in_progress", "completed"}}

PollStarts(p) ==
    /\ p \notin busy /\ Pending # {}
    /\ IF p = "cron" THEN UNCHANGED budget ELSE Spend("faults")
    /\ busy' = busy \cup {p}
    /\ read' = [read EXCEPT ![p] = [b \in Batches |->
                                      IF b \in Pending THEN rows[b] ELSE NoRow]]
    /\ UNCHANGED <<evals, rows, provider, submitter, file, lines, want, held,
                   marks>>

\* The session writes a status only if it differs from the one it read.
Mark(p, b, status) ==
    /\ marks' = [marks EXCEPT ![p][b] = IF status = read[p][b] THEN NoRow ELSE status]
    /\ read' = [read EXCEPT ![p][b] = NoRow]

LooksAt(p, b) == p \in busy /\ file[p] = None /\ read[p][b] # NoRow

RetrieveUnended(p, b) ==
    /\ LooksAt(p, b)
    /\ job[b].status \in {"running", "expired"}
    /\ Mark(p, b, IF job[b].status = "running" THEN "in_progress" ELSE "expired")
    /\ UNCHANGED <<evals, rows, provider, submitter, busy, file, lines, want, held,
                   budget>>

RetrieveCompleted(p, b) ==
    /\ LooksAt(p, b)
    /\ job[b].status = "completed"
    /\ file' = [file EXCEPT ![p] = b]
    /\ lines' = [lines EXCEPT ![p] = job[b].output]
    /\ UNCHANGED <<evals, rows, provider, submitter, busy, read, want, held, marks,
                   budget>>

\* An exception: the poll is over.
UnreadableLine(p) ==
    /\ file[p] # None /\ job[file[p]].unreadable /\ want[p] = None
    /\ Rollback(p)
    /\ UNCHANGED budget

FileEnds(p) ==
    /\ file[p] # None /\ lines[p] = {} /\ ~job[file[p]].unreadable
    /\ Mark(p, file[p], "ingested")
    /\ file' = [file EXCEPT ![p] = None]
    /\ UNCHANGED <<evals, rows, provider, submitter, busy, lines, want, held, budget>>

PollCommits(p) ==
    /\ p \in busy /\ file[p] = None /\ read[p] = NoRows
    /\ evals' = evals \cup held[p]
    /\ rows' = [b \in Batches |-> IF marks[p][b] = NoRow THEN rows[b] ELSE marks[p][b]]
    /\ Done(p)
    /\ UNCHANGED <<provider, submitter, budget>>

-----------------------------------------------------------------------------
Submit ==
    \/ SubmitStarts \/ SubmitCommits
    \/ \E i \in Indexes : NothingToDo(i) \/ \E b \in Batches : SubmitIndex(i, b)

Provider == \E b \in Batches : Completes(b) \/ Expires(b)

Statement(x) == Insert(x) \/ SendInsert(x)

PollStep(p) ==
    \/ UnreadableLine(p) \/ FileEnds(p) \/ PollCommits(p) \/ Statement(p)
    \/ \E b \in Batches : RetrieveUnended(p, b) \/ RetrieveCompleted(p, b)

TickStep == TickCommits \/ Statement("tick")

Next ==
    \/ Submit \/ SubmitFails \/ Provider
    \/ \E p \in Polls : PollStarts(p) \/ PollStep(p)
    \/ TickStep \/ \E i \in Indexes : TickStarts(i)
    \/ \E x \in Actors : DeadlockDetected(x) \/ Fails(x)

Spec == Init /\ [][Next]_vars

\* The poll is scheduled every half hour and the queue runs it; the provider
\* ends a batch within its window of 24 hours; what has begun goes on, the
\* database resolves deadlocks, and who waits for a row gets it when it is
\* released.
FairSpec ==
    /\ Spec
    /\ WF_vars(PollStarts("cron"))
    /\ \A p \in Polls : WF_vars(PollStep(p))
    /\ WF_vars(TickStep)
    /\ \A x \in Actors : SF_vars(Insert(x))
    /\ WF_vars(\E x \in Actors : DeadlockDetected(x))
    /\ \A b \in Batches : WF_vars(Completes(b) \/ Expires(b))

-----------------------------------------------------------------------------
\* A batch that is recorded as ingested has all its answers in the cache, its
\* own or those of a live tick that came first: also when the tick it met had
\* not committed yet, or was rolled back.
IngestedIsCached ==
    \A b \in Batches : rows[b] = "ingested" => job[b].output \subseteq evals

Settled(b) == rows[b] \in {"ingested", "expired"}

Poisonous(b) == rows[b] # NoRow /\ job[b].unreadable

\* Every recorded batch is settled in the end, through deadlocks with live
\* ticks, failing polls and polls that overlap: unless one of the recorded
\* batches has a line that cannot be read.  That one keeps all others from
\* being settled (llm_batch.py:229-251, one transaction for all).
BatchSettles ==
    [](\A b \in Batches : ~Poisonous(b)) =>
        <>[](\A b \in Batches : rows[b] # NoRow => Settled(b))
=============================================================================
