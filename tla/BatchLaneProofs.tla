---------------------------- MODULE BatchLaneProofs ----------------------------
(***************************************************************************)
(* What holds of the batch lane for any number of pairs, indexes, batches  *)
(* and overlapping polls: its types, and that an ingested batch has all    *)
(* its answers in the cache.                                               *)
(***************************************************************************)
EXTENDS BatchLane, TLAPS

LEMMA WhoActs == Polls \subseteq Actors /\ "tick" \in Actors
BY DEF Actors

Entries == [status : {"unused", "running", "completed", "expired"},
            asked : SUBSET Pairs, output : SUBSET Pairs,
            upwards : BOOLEAN, unreadable : BOOLEAN]

Written == [Batches -> Status \cup {NoRow}]

Credit == [batches : Nat, ticks : Nat, faults : Nat]

\* One batch changes at the provider, to what is still an entry.
LEMMA Entered ==
    ASSUME TypeOK, NEW b \in Batches, NEW e \in Entries, job' = [job EXCEPT ![b] = e]
    PROVE  job' \in [Batches -> Entries]
BY DEF TypeOK, Entries

LEMMA DoneTypes ==
    ASSUME TypeOK, NEW x \in Actors, Done(x)
    PROVE  /\ busy' \in SUBSET Actors
           /\ read' \in [Polls -> Written]
           /\ file' \in [Polls -> Batches \cup {None}]
           /\ lines' \in [Actors -> SUBSET Pairs]
           /\ want' \in [Actors -> Pairs \cup {None}]
           /\ held' \in [Actors -> SUBSET Pairs]
           /\ marks' \in [Polls -> Written]
<1>1. NoRows \in Written
  BY DEF NoRows, Written
<1>2. /\ busy' \in SUBSET Actors
      /\ lines' \in [Actors -> SUBSET Pairs]
      /\ want' \in [Actors -> Pairs \cup {None}]
      /\ held' \in [Actors -> SUBSET Pairs]
  BY DEF TypeOK, Done
<1>3. CASE x \in Polls
  <2>1. read' \in [Polls -> Written]
    BY <1>1, <1>3 DEF TypeOK, Done, Written
  <2>2. marks' \in [Polls -> Written]
    BY <1>1, <1>3 DEF TypeOK, Done, Written
  <2>3. file' \in [Polls -> Batches \cup {None}]
    BY <1>3 DEF TypeOK, Done
  <2> QED
    BY <1>2, <2>1, <2>2, <2>3
<1>4. CASE x \notin Polls
  BY <1>2, <1>4 DEF TypeOK, Done, Written
<1> QED
  BY <1>3, <1>4

LEMMA MarkTypes ==
    ASSUME TypeOK, NEW p \in Polls, NEW b \in Batches, NEW s \in Status, Mark(p, b, s)
    PROVE  /\ read' \in [Polls -> Written]
           /\ marks' \in [Polls -> Written]
BY DEF TypeOK, Mark, Written

LEMMA SpendTypes ==
    ASSUME TypeOK, NEW what \in {"batches", "ticks", "faults"}, Spend(what)
    PROVE  budget' \in Credit
BY DEF TypeOK, Spend, Credit

LEMMA TypeStep == TypeOK /\ [Next]_vars => TypeOK'
<1> SUFFICES ASSUME TypeOK, [Next]_vars PROVE TypeOK'
  OBVIOUS
<1> USE WhoActs DEF Entries, Written, Credit
<1>1. CASE Submit \/ SubmitFails
  <2>1. CASE SubmitStarts
    BY <2>1 DEF SubmitStarts, TypeOK, provider, work
  <2>2. ASSUME NEW i \in Indexes, NEW b \in Batches, SubmitIndex(i, b) PROVE TypeOK'
    <3>1. Misses(i) \in SUBSET Pairs
      BY DEF Misses
    <3>2. budget' \in Credit
      BY <2>2, SpendTypes DEF SubmitIndex
    <3>3. job' \in [Batches -> Entries]
      <4>1. [job[b] EXCEPT !.status = "running", !.asked = Misses(i)] \in Entries
        <5>1. job[b] \in Entries
          BY DEF TypeOK
        <5> QED
          BY <3>1, <5>1
      <4>2. job' = [job EXCEPT ![b] = [job[b] EXCEPT !.status = "running", !.asked = Misses(i)]]
        BY <2>2 DEF SubmitIndex, TypeOK
      <4> QED
        BY <4>1, <4>2, Entered
    <3>4. left' \in (SUBSET Indexes) \cup {None} /\ added' \in SUBSET Batches
      BY <2>2 DEF SubmitIndex, TypeOK
    <3> QED
      BY <2>2, <3>2, <3>3, <3>4 DEF SubmitIndex, TypeOK, work
  <2>3. ASSUME NEW i \in Indexes, NothingToDo(i) PROVE TypeOK'
    BY <2>3 DEF NothingToDo, TypeOK, provider, work
  <2>4. CASE SubmitCommits
    <3>1. rows' \in Written
      BY <2>4 DEF SubmitCommits, TypeOK, Status
    <3>2. left' \in (SUBSET Indexes) \cup {None} /\ added' \in SUBSET Batches
      BY <2>4 DEF SubmitCommits
    <3>3. UNCHANGED <<evals, job, busy, read, file, lines, want, held, marks, budget>>
      BY <2>4 DEF SubmitCommits, provider, work
    <3> QED
      BY <3>1, <3>2, <3>3 DEF TypeOK
  <2>5. CASE SubmitFails
    <3>1. budget' \in Credit
      BY <2>5, SpendTypes DEF SubmitFails
    <3>2. left' \in (SUBSET Indexes) \cup {None} /\ added' \in SUBSET Batches
      BY <2>5 DEF SubmitFails
    <3>3. UNCHANGED <<evals, rows, job, busy, read, file, lines, want, held, marks>>
      BY <2>5 DEF SubmitFails, provider, work
    <3> QED
      BY <3>1, <3>2, <3>3 DEF TypeOK
  <2> QED
    BY <1>1, <2>1, <2>2, <2>3, <2>4, <2>5 DEF Submit
<1>2. CASE Provider
  <2>1. ASSUME NEW b \in Batches, Completes(b) PROVE TypeOK'
    <3>1. job' \in [Batches -> Entries]
      <4>1. PICK output \in SUBSET job[b].asked, upwards \in BOOLEAN, unreadable \in BOOLEAN :
              job' = [job EXCEPT ![b].status = "completed", ![b].output = output,
                                 ![b].upwards = upwards, ![b].unreadable = unreadable]
        BY <2>1, Zenon DEF Completes
      <4>2. job[b] \in Entries
        BY DEF TypeOK
      <4>3. [job[b] EXCEPT !.status = "completed", !.output = output,
                           !.upwards = upwards, !.unreadable = unreadable] \in Entries
        BY <4>2
      <4>4. job' = [job EXCEPT ![b] = [job[b] EXCEPT !.status = "completed", !.output = output,
                                         !.upwards = upwards, !.unreadable = unreadable]]
        BY <4>1 DEF TypeOK
      <4> QED
        BY <4>3, <4>4, Entered
    <3> QED
      BY <2>1, <3>1 DEF Completes, TypeOK, submitter, work
  <2>2. ASSUME NEW b \in Batches, Expires(b) PROVE TypeOK'
    <3>1. job' \in [Batches -> Entries]
      <4>1. job[b] \in Entries
        BY DEF TypeOK
      <4>2. [job[b] EXCEPT !.status = "expired"] \in Entries
        BY <4>1
      <4>3. job' = [job EXCEPT ![b] = [job[b] EXCEPT !.status = "expired"]]
        BY <2>2 DEF Expires, TypeOK
      <4> QED
        BY <4>2, <4>3, Entered
    <3> QED
      BY <2>2, <3>1 DEF Expires, TypeOK, submitter, work
  <2> QED
    BY <1>2, <2>1, <2>2 DEF Provider
<1>3. ASSUME NEW x \in Actors, Statement(x) PROVE TypeOK'
  <2>1. CASE Insert(x)
    <3>1. held' \in [Actors -> SUBSET Pairs] /\ lines' \in [Actors -> SUBSET Pairs]
          /\ want' \in [Actors -> Pairs \cup {None}]
      BY <2>1 DEF Insert, Inserted, TypeOK
    <3> QED
      BY <2>1, <3>1 DEF Insert, TypeOK, provider, submitter
  <2>2. CASE SendInsert(x)
    BY <2>2 DEF SendInsert, TypeOK, provider, submitter
  <2> QED
    BY <1>3, <2>1, <2>2 DEF Statement
<1>4. ASSUME NEW p \in Polls, PollStarts(p) PROVE TypeOK'
  <2>1. budget' \in Credit
    BY <1>4, SpendTypes DEF PollStarts, TypeOK
  <2>2. read' \in [Polls -> Written]
    BY <1>4 DEF PollStarts, TypeOK
  <2> QED
    BY <1>4, <2>1, <2>2 DEF PollStarts, TypeOK, provider, submitter
<1>5. ASSUME NEW p \in Polls, NEW b \in Batches, RetrieveUnended(p, b) \/ RetrieveCompleted(p, b)
      PROVE  TypeOK'
  <2>1. CASE RetrieveUnended(p, b)
    <3>1. /\ read' \in [Polls -> Written]
          /\ marks' \in [Polls -> Written]
      BY <2>1, MarkTypes DEF RetrieveUnended, Status
    <3> QED
      BY <2>1, <3>1 DEF RetrieveUnended, TypeOK, provider, submitter
  <2>2. CASE RetrieveCompleted(p, b)
    BY <2>2 DEF RetrieveCompleted, TypeOK, provider, submitter
  <2> QED
    BY <1>5, <2>1, <2>2
<1>6. ASSUME NEW p \in Polls, FileEnds(p) PROVE TypeOK'
  <2>1. file[p] \in Batches
    BY <1>6 DEF FileEnds, TypeOK
  <2>2. /\ read' \in [Polls -> Written]
        /\ marks' \in [Polls -> Written]
    BY <1>6, <2>1, MarkTypes DEF FileEnds, Status
  <2> QED
    BY <1>6, <2>2 DEF FileEnds, TypeOK, provider, submitter
<1>7. ASSUME NEW p \in Polls, PollCommits(p) PROVE TypeOK'
  <2>1. evals' \in SUBSET Pairs /\ rows' \in Written
    BY <1>7 DEF PollCommits, TypeOK
  <2> QED
    BY <1>7, <2>1, DoneTypes DEF PollCommits, TypeOK, provider, submitter
<1>8. CASE TickCommits
  <2>1. evals' \in SUBSET Pairs
    BY <1>8 DEF TickCommits, TypeOK
  <2> QED
    BY <1>8, <2>1, DoneTypes DEF TickCommits, TypeOK, provider, submitter
<1>9. ASSUME NEW i \in Indexes, TickStarts(i) PROVE TypeOK'
  <2>1. budget' \in Credit
    BY <1>9, SpendTypes DEF TickStarts
  <2>2. Misses(i) \in SUBSET Pairs
    BY DEF Misses
  <2>3. lines' \in [Actors -> SUBSET Pairs] /\ busy' \in SUBSET Actors
    BY <1>9, <2>2 DEF TickStarts, TypeOK
  <2> QED
    BY <1>9, <2>1, <2>3 DEF TickStarts, TypeOK, provider, submitter
<1>10. ASSUME NEW x \in Actors, Rollback(x), budget' \in Credit
       PROVE  TypeOK'
  BY <1>10, DoneTypes DEF Rollback, TypeOK, provider, submitter
<1>11. ASSUME NEW x \in Actors, DeadlockDetected(x) \/ Fails(x) PROVE TypeOK'
  <2>1. Rollback(x) /\ budget' \in Credit
    BY <1>11, SpendTypes DEF DeadlockDetected, Fails, TypeOK
  <2> QED
    BY <2>1, <1>10
<1>12. ASSUME NEW p \in Polls, UnreadableLine(p) PROVE TypeOK'
  <2>1. Rollback(p) /\ budget' \in Credit
    BY <1>12 DEF UnreadableLine, TypeOK
  <2> QED
    BY <2>1, <1>10
<1>13. CASE UNCHANGED vars
  BY <1>13 DEF vars, provider, submitter, work, TypeOK
<1> QED
  BY <1>1, <1>2, <1>3, <1>4, <1>5, <1>6, <1>7, <1>8, <1>9, <1>11, <1>12, <1>13
     DEF Next, PollStep, TickStep

LEMMA InitTypes == Init => TypeOK
<1> SUFFICES ASSUME Init PROVE TypeOK
  OBVIOUS
<1>1. rows \in Written
      /\ read \in [Polls -> Written]
      /\ marks \in [Polls -> Written]
  BY DEF Init, NoRows, Written
<1>2. job \in [Batches -> Entries]
  BY DEF Init, Entries
<1>3. budget \in Credit
  BY BatchLaneAssumption DEF Init, Credit
<1>4. left \in (SUBSET Indexes) \cup {None} /\ added \in SUBSET Batches /\ evals \in SUBSET Pairs
  BY DEF Init
<1> QED
  BY <1>1, <1>2, <1>3, <1>4 DEF Init, TypeOK, Entries, Written, Credit

-----------------------------------------------------------------------------
(* The inductive invariant.  What a poll has read of a file is in the cache or *)
(* among its own open rows: ON CONFLICT DO NOTHING skips only rows that are    *)
(* committed.  It stays so because commits add to the cache, and a rollback    *)
(* takes the marks away together with the rows.                                *)

Cached(p, K) == K \subseteq evals \cup held[p]

FileCached ==
    \A p \in Polls : file[p] # None =>
        /\ job[file[p]].status = "completed"
        /\ Cached(p, job[file[p]].output \ lines[p])

MarksCached ==
    \A p \in Polls, b \in Batches : marks[p][b] = "ingested" =>
        /\ job[b].status = "completed"
        /\ Cached(p, job[b].output)

RowsCached ==
    \A b \in Batches : rows[b] = "ingested" =>
        /\ job[b].status = "completed"
        /\ job[b].output \subseteq evals

\* A poll reads and marks only while it runs.
CacheInv == FileCached /\ MarksCached /\ RowsCached

\* A step that changes no completed entry, marks nothing, opens no file and
\* takes nothing out of the cache or out of a poll's open rows.
LEMMA Harmless ==
    ASSUME TypeOK, CacheInv,
           \A b \in Batches : job[b].status = "completed" => job'[b] = job[b],
           \A b \in Batches : rows'[b] = "ingested" => rows[b] = "ingested",
           \A p \in Polls : file'[p] # None => file'[p] = file[p] /\ lines[p] \subseteq lines'[p],
           \A p \in Polls, b \in Batches :
               marks'[p][b] = "ingested" => marks[p][b] = "ingested",
           \A p \in Polls :
               (file'[p] # None \/ \E b \in Batches : marks'[p][b] = "ingested")
                   => held[p] \subseteq evals' \cup held'[p],
           evals \subseteq evals'
    PROVE  CacheInv'
<1>1. FileCached'
  <2> SUFFICES ASSUME NEW p \in Polls, file'[p] # None
               PROVE  /\ job'[file'[p]].status = "completed"
                      /\ Cached(p, job[file[p]].output \ lines[p])'
    BY DEF FileCached
  <2>1. file'[p] = file[p] /\ file[p] \in Batches
    BY DEF TypeOK
  <2>2. job'[file[p]] = job[file[p]] /\ job[file[p]].status = "completed"
    BY <2>1 DEF CacheInv, FileCached
  <2> QED
    BY <2>1, <2>2 DEF CacheInv, FileCached, Cached
<1>2. MarksCached'
  BY DEF CacheInv, MarksCached, Cached
<1>3. RowsCached'
  BY DEF CacheInv, RowsCached
<1> QED
  BY <1>1, <1>2, <1>3 DEF CacheInv

LEMMA TickIsNoPoll == "tick" \notin Polls
BY BatchLaneAssumption DEF Polls

LEMMA NothingWritten ==
    /\ NoRow # "ingested"
    /\ \A b \in Batches : NoRows[b] # "ingested"
BY BatchLaneAssumption DEF NoRows, Status

\* A transaction that is rolled back, or a tick that commits, leaves a poll
\* either as it was or without file, marks and rows.
LEMMA DoneHarmless ==
    ASSUME TypeOK, CacheInv, NEW x \in Actors, Done(x), UNCHANGED <<rows, job>>,
           evals \subseteq evals'
    PROVE  CacheInv'
<1>1. \A p \in Polls : file'[p] # None => p # x /\ file'[p] = file[p] /\ lines'[p] = lines[p]
  BY WhoActs DEF Done, TypeOK
<1>2. ASSUME NEW p \in Polls, NEW b \in Batches, marks'[p][b] = "ingested"
      PROVE  p # x /\ marks[p][b] = "ingested"
  BY <1>2, NothingWritten DEF Done, TypeOK
<1>3. \A p \in Polls : p # x => held'[p] = held[p]
  BY WhoActs DEF Done, TypeOK
<1> QED
  BY <1>1, <1>2, <1>3, Harmless

\* Of an insert the cache knows at once or at the commit.
LEMMA InsertKeeps ==
    ASSUME TypeOK, CacheInv, NEW x \in Actors, Insert(x)
    PROVE  CacheInv'
<1>1. want[x] \in Pairs /\ want[x] # None
  BY DEF TypeOK, Insert
<1>2. want[x] \in evals \cup held'[x] /\ \A p \in Actors : held[p] \subseteq held'[p]
  BY <1>1 DEF Insert, Inserted, TypeOK
<1>3. lines'[x] = lines[x] \ {want[x]} /\ \A p \in Actors \ {x} : lines'[p] = lines[p]
  BY DEF Insert, TypeOK
<1>4. UNCHANGED <<evals, rows, job, file, marks>>
  BY DEF Insert, provider
<1>5. FileCached'
  <2> SUFFICES ASSUME NEW p \in Polls, file[p] # None
               PROVE  /\ job[file[p]].status = "completed"
                      /\ job[file[p]].output \ lines'[p] \subseteq evals \cup held'[p]
    BY <1>4 DEF FileCached, Cached
  <2>1. job[file[p]].status = "completed" /\ job[file[p]].output \ lines[p] \subseteq evals \cup held[p]
    BY DEF CacheInv, FileCached, Cached
  <2>2. held[p] \subseteq held'[p]
    BY <1>2, WhoActs
  <2>3. CASE p = x
    BY <1>2, <1>3, <2>1, <2>2, <2>3
  <2>4. CASE p # x
    BY <1>3, <2>1, <2>2, <2>4, WhoActs
  <2> QED
    BY <2>3, <2>4
<1>6. MarksCached'
  BY <1>2, <1>4, WhoActs DEF CacheInv, MarksCached, Cached
<1>7. RowsCached'
  BY <1>4 DEF CacheInv, RowsCached
<1> QED
  BY <1>5, <1>6, <1>7 DEF CacheInv

LEMMA RetrieveKeeps ==
    ASSUME TypeOK, CacheInv, NEW p \in Polls, NEW b \in Batches, RetrieveCompleted(p, b)
    PROVE  CacheInv'
<1>1. file'[p] = b /\ lines'[p] = job[b].output /\ job[b].status = "completed"
  BY WhoActs DEF RetrieveCompleted, TypeOK
<1>2. \A q \in Polls \ {p} : file'[q] = file[q] /\ lines'[q] = lines[q]
  BY WhoActs DEF RetrieveCompleted, TypeOK
<1>3. UNCHANGED <<evals, rows, job, held, marks>>
  BY DEF RetrieveCompleted, provider
<1>4. FileCached'
  <2> SUFFICES ASSUME NEW q \in Polls, file'[q] # None
               PROVE  /\ job[file'[q]].status = "completed"
                      /\ job[file'[q]].output \ lines'[q] \subseteq evals \cup held[q]
    BY <1>3 DEF FileCached, Cached
  <2>1. CASE q = p
    BY <1>1, <2>1
  <2>2. CASE q # p
    BY <1>2, <2>2 DEF CacheInv, FileCached, Cached
  <2> QED
    BY <2>1, <2>2
<1> QED
  BY <1>3, <1>4 DEF CacheInv, MarksCached, RowsCached, Cached

\* The file a poll comes to the end of is cached, so its batch may be marked.
LEMMA FileEndKeeps ==
    ASSUME TypeOK, CacheInv, NEW p \in Polls, FileEnds(p)
    PROVE  CacheInv'
<1>1. file[p] \in Batches /\ file[p] # None /\ lines[p] = {}
  BY DEF FileEnds, TypeOK
<1>2. job[file[p]].status = "completed" /\ Cached(p, job[file[p]].output)
  BY <1>1 DEF CacheInv, FileCached, Cached
<1>3. \A q \in Polls, b \in Batches :
        marks'[q][b] = "ingested" => (marks[q][b] = "ingested" \/ (q = p /\ b = file[p]))
  BY DEF FileEnds, Mark, TypeOK
<1>4. \A q \in Polls : file'[q] # None => file'[q] = file[q]
  BY DEF FileEnds, TypeOK
<1>5. UNCHANGED <<evals, rows, job, held, lines>>
  BY DEF FileEnds, provider
<1>6. FileCached'
  BY <1>4, <1>5 DEF CacheInv, FileCached, Cached
<1>7. MarksCached'
  BY <1>2, <1>3, <1>5 DEF CacheInv, MarksCached, Cached
<1>8. RowsCached'
  BY <1>5 DEF CacheInv, RowsCached
<1> QED
  BY <1>6, <1>7, <1>8 DEF CacheInv

\* What a poll has marked is in the cache once its rows are.
LEMMA PollCommitKeeps ==
    ASSUME TypeOK, CacheInv, NEW p \in Polls, PollCommits(p)
    PROVE  CacheInv'
<1>1. evals' = evals \cup held[p] /\ job' = job
  BY DEF PollCommits, provider
<1>2. \A b \in Batches : rows'[b] = "ingested" =>
          rows[b] = "ingested" \/ marks[p][b] = "ingested"
  BY DEF PollCommits
<1>3. \A q \in Polls : file'[q] # None => q # p /\ file'[q] = file[q] /\ lines'[q] = lines[q]
  BY WhoActs DEF PollCommits, Done, TypeOK
<1>4. ASSUME NEW q \in Polls, NEW b \in Batches, marks'[q][b] = "ingested"
      PROVE  q # p /\ marks[q][b] = "ingested"
  BY <1>4, NothingWritten DEF PollCommits, Done, TypeOK
<1>5. \A q \in Polls : q # p => held'[q] = held[q]
  BY WhoActs DEF PollCommits, Done, TypeOK
<1>6. FileCached'
  BY <1>1, <1>3, <1>5 DEF CacheInv, FileCached, Cached
<1>7. MarksCached'
  BY <1>1, <1>4, <1>5 DEF CacheInv, MarksCached, Cached
<1>8. RowsCached'
  BY <1>1, <1>2 DEF CacheInv, RowsCached, MarksCached, Cached
<1> QED
  BY <1>6, <1>7, <1>8 DEF CacheInv

LEMMA CacheStep == TypeOK /\ CacheInv /\ [Next]_vars => CacheInv'
<1> SUFFICES ASSUME TypeOK, CacheInv, [Next]_vars PROVE CacheInv'
  OBVIOUS
<1>1. CASE Submit \/ SubmitFails
  <2>1. UNCHANGED <<evals, work>>
    BY <1>1 DEF Submit, SubmitFails, SubmitStarts, SubmitIndex, NothingToDo, SubmitCommits
  <2>2. \A b \in Batches : rows'[b] = "ingested" => rows[b] = "ingested"
    BY <1>1 DEF Submit, SubmitFails, SubmitStarts, SubmitIndex, NothingToDo, SubmitCommits
  <2>3. \A b \in Batches : job[b].status = "completed" => job'[b] = job[b]
    <3>1. ASSUME NEW i \in Indexes, NEW c \in Batches, SubmitIndex(i, c),
                 NEW b \in Batches, job[b].status = "completed"
          PROVE  job'[b] = job[b]
      <4>1. b # c
        BY <3>1 DEF SubmitIndex, Unused
      <4> QED
        BY <3>1, <4>1 DEF SubmitIndex, TypeOK
    <3> QED
      BY <1>1, <3>1 DEF Submit, SubmitFails, SubmitStarts, NothingToDo, SubmitCommits, provider
  <2> QED
    BY <2>1, <2>2, <2>3, Harmless DEF work
<1>2. CASE Provider
  <2>1. \A b \in Batches : job[b].status = "completed" => job'[b] = job[b]
    <3>1. ASSUME NEW c \in Batches, Completes(c) \/ Expires(c),
                 NEW b \in Batches, job[b].status = "completed"
          PROVE  job'[b] = job[b]
      <4>1. b # c
        BY <3>1 DEF Completes, Expires
      <4> QED
        BY <3>1, <4>1 DEF Completes, Expires, TypeOK
    <3> QED
      BY <1>2, <3>1 DEF Provider
  <2>2. UNCHANGED <<evals, rows, work>>
    BY <1>2 DEF Provider, Completes, Expires
  <2> QED
    BY <2>1, <2>2, Harmless DEF work
<1>3. ASSUME NEW x \in Actors, SendInsert(x) PROVE CacheInv'
  <2>1. UNCHANGED <<evals, rows, job, file, lines, held, marks>>
    BY <1>3 DEF SendInsert, provider
  <2> QED
    BY <2>1, Harmless
<1>4. ASSUME NEW p \in Polls, PollStarts(p) PROVE CacheInv'
  <2>1. UNCHANGED <<evals, rows, job, file, lines, held, marks>>
    BY <1>4 DEF PollStarts, provider
  <2> QED
    BY <2>1, Harmless
<1>5. ASSUME NEW p \in Polls, NEW b \in Batches, RetrieveUnended(p, b) PROVE CacheInv'
  <2>1. UNCHANGED <<evals, rows, job, file, lines, held>>
    BY <1>5 DEF RetrieveUnended, provider
  <2>2. \A q \in Polls, c \in Batches : marks'[q][c] = "ingested" => marks[q][c] = "ingested"
    BY <1>5, NothingWritten DEF RetrieveUnended, Mark, TypeOK
  <2> QED
    BY <2>1, <2>2, Harmless
<1>6. ASSUME NEW i \in Indexes, TickStarts(i) PROVE CacheInv'
  <2>1. UNCHANGED <<evals, rows, job, file, held, marks>>
    BY <1>6 DEF TickStarts, provider
  <2>2. \A p \in Polls : lines'[p] = lines[p]
    BY <1>6, WhoActs, TickIsNoPoll DEF TickStarts, TypeOK
  <2> QED
    BY <2>1, <2>2, Harmless
<1>7. CASE TickCommits
  BY <1>7, DoneHarmless, WhoActs DEF TickCommits, provider
<1>8. ASSUME NEW x \in Actors, Rollback(x) PROVE CacheInv'
  BY <1>8, DoneHarmless DEF Rollback, provider
<1>9. CASE UNCHANGED vars
  BY <1>9, Harmless DEF vars, work, provider
<1> QED
  BY <1>1, <1>2, <1>3, <1>4, <1>5, <1>6, <1>7, <1>8, <1>9, WhoActs,
     InsertKeeps, RetrieveKeeps, FileEndKeeps, PollCommitKeeps
     DEF Next, PollStep, TickStep, Statement, UnreadableLine, DeadlockDetected, Fails

LEMMA InitCache == Init => CacheInv
<1> SUFFICES ASSUME Init PROVE CacheInv
  OBVIOUS
<1>1. FileCached
  BY DEF Init, FileCached
<1>2. MarksCached /\ RowsCached
  BY NothingWritten DEF Init, MarksCached, RowsCached
<1> QED
  BY <1>1, <1>2 DEF CacheInv

LEMMA LaneInvariant == Spec => [](TypeOK /\ CacheInv)
BY InitTypes, InitCache, TypeStep, CacheStep, PTL DEF Spec

\* The lane's variables keep their types, for any number of pairs, indexes,
\* batches and overlapping polls.
THEOREM LaneTypes == Spec => []TypeOK
BY LaneInvariant, PTL

\* An ingested batch has all its answers in the cache, however its polls fail,
\* overlap each other or meet live ticks.
THEOREM IngestedCached == Spec => []IngestedIsCached
<1>1. CacheInv => IngestedIsCached
  BY DEF CacheInv, RowsCached, IngestedIsCached
<1> QED
  BY <1>1, LaneInvariant, PTL
=============================================================================
