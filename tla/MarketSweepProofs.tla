--------------------------- MODULE MarketSweepProofs ---------------------------
(***************************************************************************)
(* What holds of a source for any venue, listing, page size and number of  *)
(* processes, next to any sweeps: type correctness, that its health row    *)
(* says what the poll log says as long as no two record_poll overlap, and  *)
(* that a walk whose position is a market misses nothing.                  *)
(***************************************************************************)
EXTENDS MarketSweep, SequenceTheorems, TLAPS

RecordTypes ==
    /\ log \in Seq(BOOLEAN) /\ Len(log) =< Recent
    /\ health \in Health \cup {NoRow}
    /\ ok \in [Procs -> BOOLEAN]
    /\ seen \in [Procs -> Health \cup {NoRow}]
    /\ raced \in BOOLEAN
    /\ \A p \in Procs : seen[p] # NoRow => health # NoRow

LEMMA NoRowIsNoHealth == NoRow \notin Health
BY RestPollerAssumption DEF Health, Status

-----------------------------------------------------------------------------
(* Reading the end of a log. *)

FailingIn(l, n) == n =< Len(l) /\ \A i \in Len(l) - n + 1 .. Len(l) : ~l[i]

\* The log after one more poll, the oldest row forgotten or not.
LEMMA Remembered ==
    ASSUME RecordTypes, NEW s \in BOOLEAN, Remember(s)
    PROVE  /\ log' \in Seq(BOOLEAN) /\ Len(log') =< Recent
           /\ Len(log') > 0 /\ log'[Len(log')] = s
           /\ \A n \in 1 .. Recent :
                FailingIn(log', n) <=> ~s /\ FailingIn(log, n - 1)
<1>0. Recent \in Nat /\ Recent > 3 /\ log \in Seq(BOOLEAN) /\ Len(log) \in Nat /\ Len(log) =< Recent
  BY RestPollerAssumption, LenProperties DEF RecordTypes
<1>1. CASE Len(log) < Recent
  <2>1. log' = Append(log, s)
    BY <1>1 DEF Remember
  <2>2. /\ log' \in Seq(BOOLEAN) /\ Len(log') = Len(log) + 1
        /\ \A i \in 1 .. Len(log) : log'[i] = log[i]
        /\ log'[Len(log) + 1] = s
    BY <1>0, <2>1, AppendProperties
  <2>3. ASSUME NEW n \in 1 .. Recent
        PROVE  FailingIn(log', n) <=> ~s /\ FailingIn(log, n - 1)
    BY <1>0, <2>2 DEF FailingIn
  <2> QED
    BY <1>0, <1>1, <2>2, <2>3
<1>2. CASE Len(log) >= Recent
  <2>0. Len(log) = Recent /\ log # << >>
    BY <1>0, <1>2, EmptySeq
  <2>1. log' = Append(Tail(log), s)
    BY <1>0, <1>2 DEF Remember
  <2>2. /\ Tail(log) \in Seq(BOOLEAN) /\ Len(Tail(log)) = Recent - 1
        /\ \A i \in 1 .. Recent - 1 : Tail(log)[i] = log[i + 1]
    BY <1>0, <2>0, HeadTailProperties
  <2>3. /\ log' \in Seq(BOOLEAN) /\ Len(log') = Recent
        /\ \A i \in 1 .. Recent - 1 : log'[i] = log[i + 1]
        /\ log'[Recent] = s
    BY <1>0, <2>1, <2>2, AppendProperties
  <2>4. ASSUME NEW n \in 1 .. Recent
        PROVE  FailingIn(log', n) <=> ~s /\ FailingIn(log, n - 1)
    <3>1. ASSUME FailingIn(log', n) PROVE ~s /\ FailingIn(log, n - 1)
      <4>1. \A i \in Recent - n + 1 .. Recent : ~log'[i]
        BY <2>3, <3>1 DEF FailingIn
      <4>2. ~s
        BY <1>0, <2>3, <4>1
      <4>3. ASSUME NEW i \in Recent - (n - 1) + 1 .. Recent PROVE ~log[i]
        <5>1. i - 1 \in Recent - n + 1 .. Recent /\ i - 1 \in 1 .. Recent - 1
          BY <1>0
        <5>2. log'[i - 1] = log[i - 1 + 1] /\ i - 1 + 1 = i
          BY <1>0, <2>3, <5>1
        <5> QED
          BY <4>1, <5>1, <5>2
      <4> QED
        BY <1>0, <2>0, <4>2, <4>3 DEF FailingIn
    <3>2. ASSUME ~s, FailingIn(log, n - 1) PROVE FailingIn(log', n)
      <4>1. \A i \in Recent - (n - 1) + 1 .. Recent : ~log[i]
        BY <2>0, <3>2 DEF FailingIn
      <4>2. ASSUME NEW i \in Recent - n + 1 .. Recent PROVE ~log'[i]
        <5>1. CASE i = Recent
          BY <2>3, <3>2, <5>1
        <5>2. CASE i # Recent
          <6>1. i + 1 \in Recent - (n - 1) + 1 .. Recent /\ i \in 1 .. Recent - 1
            BY <1>0, <5>2
          <6> QED
            BY <2>3, <4>1, <6>1
        <5> QED
          BY <5>1, <5>2
      <4> QED
        BY <1>0, <2>3, <4>2 DEF FailingIn
    <3> QED
      BY <3>1, <3>2
  <2> QED
    BY <1>0, <2>3, <2>4
<1> QED
  BY <1>0, <1>1, <1>2

-----------------------------------------------------------------------------
(* The inductive invariant: the health row against the log. *)

Agrees ==
    IF log = << >> THEN health = NoRow
    ELSE /\ health \in Health
         /\ health.status = "healthy" <=> log[Len(log)]
         /\ \A n \in 1 .. Recent : n =< health.fails <=> FailingIn(log, n)
         /\ FailingIn(log, 3) => health.status = "down"

HealthInv == RecordTypes /\ (~raced => Agrees)

\* What most steps leave alone, and what they may do to the rest.
Elsewhere ==
    /\ UNCHANGED <<log, health, raced>>
    /\ ok' \in [Procs -> BOOLEAN]
    /\ seen' \in [Procs -> Health \cup {NoRow}]
    /\ \A p \in Procs : seen'[p] # NoRow => health # NoRow

LEMMA ElsewhereKeeps ==
    ASSUME HealthInv, Elsewhere
    PROVE  HealthInv'
BY DEF HealthInv, RecordTypes, Elsewhere, Agrees, FailingIn

LEMMA EndCycleTypes ==
    ASSUME RecordTypes, NEW p \in Procs, EndCycle(p)
    PROVE  /\ ok' \in [Procs -> BOOLEAN] /\ seen' \in [Procs -> Health \cup {NoRow}]
           /\ \A q \in Procs : seen'[q] # NoRow => seen[q] # NoRow
BY DEF RecordTypes, EndCycle

LEMMA GiveUpElsewhere ==
    ASSUME RecordTypes, NEW p \in Procs, GiveUp(p)
    PROVE  Elsewhere
BY DEF RecordTypes, GiveUp, Elsewhere, record

LEMMA WritePageElsewhere ==
    ASSUME RecordTypes, NEW p \in Procs, NEW items, NEW quoted, NEW row, NEW goesOn,
           WritePage(p, items, quoted, row, goesOn)
    PROVE  Elsewhere
<1>1. UNCHANGED record /\ ok' \in [Procs -> BOOLEAN]
  BY DEF RecordTypes, WritePage
<1> QED
  BY <1>1 DEF record, Elsewhere, RecordTypes

LEMMA FetchElsewhere ==
    ASSUME RecordTypes, NEW p \in Procs, NEW rest, NEW answer, Fetch(p, rest, answer)
    PROVE  Elsewhere
BY DEF RecordTypes, Fetch, Elsewhere, record

\* The row written over the one that was read, when nobody came in between.
LEMMA Counted ==
    ASSUME RecordTypes, Agrees, health \in Health, NEW s \in BOOLEAN, Remember(s),
           health' = Merged(health, NextFails(health, s))
    PROVE  health' \in Health /\ Agrees'
<1> DEFINE fails == NextFails(health, s)
<1>0. Recent \in Nat /\ Recent > 3 /\ health.fails \in Nat
  BY RestPollerAssumption DEF Health
<1>1. fails \in Nat /\ fails = (IF s THEN 0 ELSE IF health.fails + 1 < Recent
                                             THEN health.fails + 1 ELSE Recent)
  BY <1>0 DEF NextFails, Smaller
<1>2. health' = [fails |-> fails, status |-> StatusAfter(fails)]
  <2>1. /\ (IF fails # health.fails THEN fails ELSE health.fails) = fails
        /\ (IF StatusAfter(fails) # health.status THEN StatusAfter(fails) ELSE health.status)
             = StatusAfter(fails)
    OBVIOUS
  <2> QED
    BY <2>1 DEF Merged
<1>3. StatusAfter(fails) \in Status
  BY DEF StatusAfter, Status
<1>4. health' \in Health /\ health'.fails = fails /\ health'.status = StatusAfter(fails)
  BY <1>1, <1>2, <1>3 DEF Health
<1>5. log' # << >> /\ log'[Len(log')] = s
      /\ \A n \in 1 .. Recent : FailingIn(log', n) <=> ~s /\ FailingIn(log, n - 1)
  BY Remembered, EmptySeq
<1>6. log # << >>
  BY NoRowIsNoHealth DEF Agrees
<1>7. health'.status = "healthy" <=> s
  BY <1>0, <1>1, <1>4 DEF StatusAfter
<1>8. ASSUME NEW n \in 1 .. Recent PROVE n =< fails <=> FailingIn(log', n)
  <2>1. FailingIn(log, n - 1) <=> n - 1 =< health.fails
    <3>1. CASE n = 1
      <4>1. Len(log) \in Nat
        BY LenProperties DEF RecordTypes
      <4> QED
        BY <1>0, <3>1, <4>1 DEF FailingIn
    <3>2. CASE n # 1
      <4>1. n - 1 \in 1 .. Recent
        BY <1>0, <3>2
      <4> QED
        BY <1>6, <4>1 DEF Agrees
    <3> QED
      BY <3>1, <3>2
  <2>2. n =< fails <=> (~s /\ n - 1 =< health.fails)
    BY <1>0, <1>1
  <2> QED
    BY <1>5, <2>1, <2>2
<1>9. FailingIn(log', 3) => health'.status = "down"
  <2>1. 3 \in 1 .. Recent
    BY <1>0
  <2>2. 3 =< fails => StatusAfter(fails) = "down"
    BY <1>1 DEF StatusAfter
  <2> QED
    BY <1>4, <1>8, <2>1, <2>2
<1> QED
  BY <1>4, <1>5, <1>7, <1>8, <1>9 DEF Agrees

\* The first row of a source.
LEMMA CountedFirst ==
    ASSUME RecordTypes, Agrees, health = NoRow, NEW s \in BOOLEAN, Remember(s),
           health' = FirstRow(s)
    PROVE  health' \in Health /\ Agrees'
<1>0. Recent \in Nat /\ Recent > 3
  BY RestPollerAssumption
<1>1. log = << >>
  BY NoRowIsNoHealth DEF Agrees
<1>2. health' \in Health /\ health'.fails = (IF s THEN 0 ELSE 1)
      /\ health'.status = (IF s THEN "healthy" ELSE "down")
  BY DEF FirstRow, Health, Status
<1>3. log' # << >> /\ log'[Len(log')] = s
      /\ \A n \in 1 .. Recent : FailingIn(log', n) <=> ~s /\ FailingIn(log, n - 1)
  BY Remembered, EmptySeq
<1>4. ASSUME NEW n \in 1 .. Recent PROVE FailingIn(log, n - 1) <=> n = 1
  BY <1>0, <1>1, EmptySeq DEF FailingIn
<1>5. 3 \in 1 .. Recent /\ ~FailingIn(log', 3)
  BY <1>0, <1>3, <1>4
<1>6. \A n \in 1 .. Recent : n =< health'.fails <=> FailingIn(log', n)
  BY <1>0, <1>2, <1>3, <1>4
<1> QED
  BY <1>2, <1>3, <1>5, <1>6 DEF Agrees

LEMMA CommitKeeps ==
    ASSUME HealthInv, NEW p \in Procs, CommitHealth(p)
    PROVE  HealthInv'
<1> USE DEF HealthInv
<1>0. ok[p] \in BOOLEAN /\ seen[p] \in Health \cup {NoRow}
  BY DEF RecordTypes
<1>1. /\ ok' \in [Procs -> BOOLEAN] /\ seen' \in [Procs -> Health \cup {NoRow}]
      /\ \A q \in Procs : seen'[q] # NoRow => health # NoRow
  BY EndCycleTypes DEF CommitHealth, RecordTypes
<1>2. raced' \in BOOLEAN /\ (~raced' => ~raced /\ health = seen[p])
  BY DEF CommitHealth, RecordTypes
<1>3. CASE seen[p] = NoRow /\ health # NoRow
  <2>1. UNCHANGED <<health, log>> /\ raced'
    BY <1>3 DEF CommitHealth
  <2> QED
    BY <1>1, <1>2, <2>1 DEF RecordTypes
<1>4. CASE seen[p] = NoRow /\ health = NoRow
  <2>1. health' = FirstRow(ok[p]) /\ Remember(ok[p])
    BY <1>4 DEF CommitHealth
  <2>2. health' \in Health
    BY <1>0, <2>1 DEF FirstRow, Health, Status
  <2>3. log' \in Seq(BOOLEAN) /\ Len(log') =< Recent
    BY <1>0, <2>1, Remembered
  <2>4. RecordTypes'
    BY <1>1, <1>2, <2>2, <2>3, NoRowIsNoHealth DEF RecordTypes
  <2> QED
    BY <1>0, <1>2, <1>4, <2>1, <2>4, CountedFirst
<1>5. CASE seen[p] # NoRow
  <2>1. health' = Merged(seen[p], NextFails(seen[p], ok[p])) /\ Remember(ok[p]) /\ seen[p] \in Health
    BY <1>0, <1>5 DEF CommitHealth
  <2>2. log' \in Seq(BOOLEAN) /\ Len(log') =< Recent
    BY <1>0, <2>1, Remembered
  <2>3. CASE raced'
    <3>1. health' \in Health
      <4>1. health \in Health
        BY <1>5 DEF RecordTypes
      <4>2. NextFails(seen[p], ok[p]) \in Nat
        BY <2>1, RestPollerAssumption DEF NextFails, Smaller, Health
      <4>3. \A n \in Nat : StatusAfter(n) \in Status
        BY DEF StatusAfter, Status
      <4> QED
        BY <2>1, <4>1, <4>2, <4>3 DEF Merged, Health, Status
    <3>2. RecordTypes'
      BY <1>1, <1>2, <2>2, <3>1, NoRowIsNoHealth DEF RecordTypes
    <3> QED
      BY <2>3, <3>2
  <2>4. CASE ~raced'
    <3>1. health' \in Health /\ Agrees'
      BY <1>0, <1>2, <2>1, <2>4, Counted
    <3>2. RecordTypes'
      BY <1>1, <1>2, <2>2, <3>1, NoRowIsNoHealth DEF RecordTypes
    <3> QED
      BY <3>1, <3>2
  <2> QED
    BY <1>2, <2>3, <2>4
<1> QED
  BY <1>3, <1>4, <1>5

-----------------------------------------------------------------------------
LEMMA PollerStep == HealthInv /\ [Next]_vars => HealthInv'
<1> SUFFICES ASSUME HealthInv, [Next]_vars PROVE HealthInv'
  OBVIOUS
<1>0. RecordTypes
  BY DEF HealthInv
<1>1. CASE Venue
  <2>1. UNCHANGED <<record, ok>>
    BY <1>1 DEF Venue, Arrive, Settle, Overtake, walk
  <2> QED
    BY <1>0, <2>1, ElsewhereKeeps DEF record, Elsewhere, RecordTypes
<1>2. ASSUME NEW p \in Procs, FetchPage(p) PROVE HealthInv'
  <2>1. \E rest, answer : Fetch(p, rest, answer)
    BY <1>2 DEF FetchPage, PolymarketFetch, KalshiFetch, ManifoldFetch, MetaculusFetch,
                ForecastExFetch, SingleFetch
  <2> QED
    BY <1>0, <2>1, FetchElsewhere, ElsewhereKeeps
<1>3. ASSUME NEW p \in Procs, Write(p) \/ ManifoldDetailFails(p) PROVE HealthInv'
  <2>1. \E items, quoted, row, goesOn : WritePage(p, items, quoted, row, goesOn)
    BY <1>3 DEF Write, ManifoldDetailFails, PolymarketPage, KalshiPage, ManifoldPage,
                MetaculusPage, ForecastExPage, GeminiPage, PredictItPage, MockPage
  <2> QED
    BY <1>0, <2>1, WritePageElsewhere, ElsewhereKeeps
<1>4. ASSUME NEW p \in Procs, GiveUp(p) PROVE HealthInv'
  BY <1>0, <1>4, GiveUpElsewhere, ElsewhereKeeps
<1>5. ASSUME NEW p \in Procs,
             Start(p) \/ Enrich(p) \/ Ceiling(p) \/ PolymarketEnrichFails(p) \/ FetchEcho(p)
      PROVE  HealthInv'
  <2>1. UNCHANGED <<record, ok>>
    BY <1>5 DEF Start, Enrich, Ceiling, PolymarketEnrichFails, FetchEcho
  <2> QED
    BY <1>0, <2>1, ElsewhereKeeps DEF record, Elsewhere, RecordTypes
<1>6. ASSUME NEW p \in Procs, ReadHealth(p) PROVE HealthInv'
  <2>1. UNCHANGED <<log, health, raced, ok>> /\ seen' = [seen EXCEPT ![p] = health]
    BY <1>6 DEF ReadHealth, walk
  <2> QED
    BY <1>0, <2>1, ElsewhereKeeps DEF Elsewhere, RecordTypes
<1>7. ASSUME NEW p \in Procs, RecordFails(p) \/ Crash(p) PROVE HealthInv'
  <2>1. UNCHANGED <<log, health, raced>> /\ EndCycle(p)
    BY <1>7 DEF RecordFails, Crash
  <2> QED
    BY <1>0, <2>1, EndCycleTypes, ElsewhereKeeps DEF Elsewhere, RecordTypes
<1>8. CASE UNCHANGED vars
  BY <1>0, <1>8, ElsewhereKeeps DEF vars, walk, record, Elsewhere, RecordTypes
<1> QED
  BY <1>1, <1>2, <1>3, <1>4, <1>5, <1>6, <1>7, <1>8, CommitKeeps
     DEF Next, Cycle, Failure, KalshiEnrichFails, FetchFails, WriteFails

\* A sweep writes rows of its own.
LEMMA SweepStep == HealthInv /\ [SweepNext]_allvars => HealthInv'
<1> SUFFICES ASSUME HealthInv, [SweepNext]_allvars PROVE HealthInv'
  OBVIOUS
<1>0. RecordTypes
  BY DEF HealthInv
<1>1. CASE Next
  BY <1>1, PollerStep
<1>2. CASE UNCHANGED <<record, walk>>
  BY <1>0, <1>2, ElsewhereKeeps DEF record, walk, Elsewhere, RecordTypes
<1>3. ASSUME NEW s \in Sweepers, Select(s) \/ SweepCycle(s) \/ GatherSome(s) \/ WriteRowsFails(s)
      PROVE  UNCHANGED <<record, walk>>
  BY <1>3 DEF Select, SweepCycle, GatherAll, WriteRows, GatherSome, WriteRowsFails, vars
<1>4. ASSUME SelectPolymarketBooks \/ SelectKalshiBooks \/ SelectHistories
      PROVE  UNCHANGED <<record, walk>>
  BY <1>4 DEF SelectPolymarketBooks, SelectKalshiBooks, SelectHistories, Select, vars
<1>5. ASSUME UNCHANGED allvars PROVE UNCHANGED <<record, walk>>
  BY <1>5 DEF allvars, vars
<1> QED
  BY <1>1, <1>2, <1>3, <1>4, <1>5 DEF SweepNext

LEMMA InitHealth == SweepInit => HealthInv
<1> SUFFICES ASSUME Init PROVE HealthInv
  BY DEF SweepInit
<1>1. << >> \in Seq(BOOLEAN) /\ Len(<< >>) = 0 /\ 0 =< Recent
  BY EmptySeq, RestPollerAssumption
<1> QED
  BY <1>1 DEF Init, HealthInv, RecordTypes, Agrees

LEMMA HealthInvariant == SweepSpec => []HealthInv
BY InitHealth, SweepStep, PTL DEF SweepSpec

\* audit_source_health says what audit_source_poll_log says, for every venue,
\* listing and number of processes, next to any sweeps, as long as no two
\* record_poll overlap.
THEOREM HealthFollows == SweepSpec => []HealthFollowsLog
<1>1. HealthInv => HealthFollowsLog
  <2> SUFFICES ASSUME RecordTypes, Agrees PROVE HealthFollowsLog
    BY DEF HealthInv, HealthFollowsLog
  <2>1. \A n \in Nat : FailingIn(log, n) <=> Failing(n)
    BY DEF FailingIn, Failing
  <2>2. Recent \in Nat /\ 1 .. Recent \subseteq Nat
    BY RestPollerAssumption
  <2> QED
    BY <2>1, <2>2 DEF Agrees, HealthFollowsLog
<1> QED
  BY <1>1, HealthInvariant, PTL
-----------------------------------------------------------------------------
(* Types *)

LEMMA SetupTypes ==
    ASSUME setup \in Setups
    PROVE  /\ setup.venue \in Venues
           /\ setup.size \in FirstListed .. LastMarket
           /\ kind \in [Markets -> Kind]
           /\ setup.procs \subseteq Procs
BY RestPollerAssumption DEF kind

LEMMA ElemsOfSeq ==
    ASSUME NEW S, NEW s \in Seq(S)
    PROVE  /\ Len(s) \in Nat
           /\ DOMAIN s = 1 .. Len(s)
           /\ \A i \in 1 .. Len(s) : s[i] \in S
           /\ Elems(s) \subseteq S
           /\ s = <<>> <=> Len(s) = 0
BY LenProperties, EmptySeq, ElementOfSeq DEF Elems

\* A sequence without its i-th element.
LEMMA WithoutTypes ==
    ASSUME NEW S, NEW s \in Seq(S), NEW i \in DOMAIN s
    PROVE  /\ Without(s, i) \in Seq(S)
           /\ Len(Without(s, i)) = Len(s) - 1
           /\ \A j \in 1 .. Len(s) - 1 :
                Without(s, i)[j] = IF j < i THEN s[j] ELSE s[j + 1]
           /\ \A x \in Elems(s) : x # s[i] => x \in Elems(Without(s, i))
<1>1. /\ Len(s) \in Nat /\ DOMAIN s = 1 .. Len(s) /\ i \in 1 .. Len(s)
      /\ \A j \in 1 .. Len(s) : s[j] \in S
  BY ElemsOfSeq
<1>2. /\ Len(s) - 1 \in Nat
      /\ \A j \in 1 .. Len(s) - 1 : j \in 1 .. Len(s) /\ j + 1 \in 1 .. Len(s)
  BY <1>1
<1>3. Without(s, i) \in [1 .. Len(s) - 1 -> S]
  BY <1>1, <1>2 DEF Without
<1>4. Without(s, i) \in Seq(S)
  BY <1>2, <1>3, SeqDef
<1>5. Len(Without(s, i)) = Len(s) - 1
  <2>1. DOMAIN Without(s, i) = 1 .. Len(Without(s, i)) /\ Len(Without(s, i)) \in Nat
    BY <1>4, ElemsOfSeq
  <2>2. DOMAIN Without(s, i) = 1 .. Len(s) - 1
    BY <1>3
  <2> QED
    BY <1>2, <2>1, <2>2
<1>6. \A j \in 1 .. Len(s) - 1 :
         Without(s, i)[j] = IF j < i THEN s[j] ELSE s[j + 1]
  BY DEF Without
<1>7. ASSUME NEW x \in Elems(s), x # s[i] PROVE x \in Elems(Without(s, i))
  <2>1. PICK j \in 1 .. Len(s) : x = s[j]
    BY <1>1, <1>7 DEF Elems
  <2>2. DOMAIN Without(s, i) = 1 .. Len(s) - 1
    BY <1>3
  <2>3. CASE j < i
    <3>1. j \in 1 .. Len(s) - 1 /\ Without(s, i)[j] = x
      BY <1>1, <1>6, <2>1, <2>3
    <3> QED
      BY <2>2, <3>1 DEF Elems
  <2>4. CASE j > i
    <3>1. j - 1 \in 1 .. Len(s) - 1 /\ ~(j - 1 < i) /\ j - 1 + 1 = j
      BY <1>1, <2>1, <2>4
    <3>2. Without(s, i)[j - 1] = x
      BY <1>6, <2>1, <3>1
    <3> QED
      BY <2>2, <3>1, <3>2 DEF Elems
  <2>5. j # i
    BY <1>7, <2>1
  <2> QED
    BY <1>1, <2>1, <2>3, <2>4, <2>5
<1> QED
  BY <1>4, <1>5, <1>6, <1>7

\* A listing with one more market at its head.
LEMMA NewestFirst ==
    ASSUME NEW S, NEW s \in Seq(S), NEW x \in S
    PROVE  /\ <<x>> \o s \in Seq(S)
           /\ Len(<<x>> \o s) = Len(s) + 1
           /\ (<<x>> \o s)[1] = x
           /\ \A i \in 2 .. Len(s) + 1 : (<<x>> \o s)[i] = s[i - 1]
           /\ Elems(s) \subseteq Elems(<<x>> \o s)
<1>1. <<x>> \in Seq(S) /\ Len(<<x>>) = 1 /\ <<x>>[1] = x
  OBVIOUS
<1>2. Len(s) \in Nat
  BY ElemsOfSeq
<1>3. /\ <<x>> \o s \in Seq(S)
      /\ Len(<<x>> \o s) = Len(<<x>>) + Len(s)
      /\ \A i \in 1 .. Len(<<x>>) + Len(s) : (<<x>> \o s)[i] =
            IF i <= Len(<<x>>) THEN <<x>>[i] ELSE s[i - Len(<<x>>)]
  BY <1>1, ConcatProperties
<1>4. /\ Len(<<x>> \o s) = Len(s) + 1
      /\ (<<x>> \o s)[1] = x
      /\ \A i \in 2 .. Len(s) + 1 : (<<x>> \o s)[i] = s[i - 1]
  BY <1>1, <1>2, <1>3
<1>5. ASSUME NEW y \in Elems(s) PROVE y \in Elems(<<x>> \o s)
  <2>1. PICK j \in 1 .. Len(s) : y = s[j]
    BY ElemsOfSeq DEF Elems
  <2>2. j + 1 \in 2 .. Len(s) + 1 /\ j + 1 - 1 = j
    BY <1>2
  <2>3. (<<x>> \o s)[j + 1] = y
    BY <1>4, <2>1, <2>2
  <2>4. j + 1 \in DOMAIN (<<x>> \o s)
    BY <1>2, <1>3, <1>4, <2>2, ElemsOfSeq
  <2> QED
    BY <2>3, <2>4 DEF Elems
<1> QED
  BY <1>3, <1>4, <1>5

\* The first page of what is left of a listing.
LEMMA PageTypes ==
    ASSUME NEW S, NEW rest \in Seq(S)
    PROVE  /\ Page(rest) \in Seq(S)
           /\ Len(Page(rest)) = Smaller(PageSize, Len(rest))
           /\ \A i \in 1 .. Len(Page(rest)) : Page(rest)[i] = rest[i]
           /\ rest # <<>> => Len(Page(rest)) \in Nat \ {0} /\ Len(Page(rest)) <= Len(rest)
<1> DEFINE n == Smaller(PageSize, Len(rest))
<1>1. PageSize \in Nat \ {0} /\ Len(rest) \in Nat
  BY ElemsOfSeq, RestPollerAssumption
<1>2. /\ n \in Nat /\ n <= Len(rest) /\ n <= PageSize
      /\ \A i \in 1 .. n : i \in 1 .. Len(rest) /\ rest[i] \in S
      /\ rest # <<>> => n # 0
  BY <1>1, ElemsOfSeq DEF Smaller
<1> HIDE DEF n
<1>3. /\ SubSeq(rest, 1, n) \in Seq(S)
      /\ Len(SubSeq(rest, 1, n)) = IF 1 <= n THEN n - 1 + 1 ELSE 0
      /\ \A i \in 1 .. n - 1 + 1 : SubSeq(rest, 1, n)[i] = rest[1 + i - 1]
  BY <1>2, SubSeqProperties
<1>4. Page(rest) = SubSeq(rest, 1, n)
  BY DEF Page, n
<1> QED
  BY <1>1, <1>2, <1>3, <1>4 DEF n

\* What is left of a listing from its m-th market on.
LEMMA RestTypes ==
    ASSUME NEW S, NEW s \in Seq(S), NEW k \in Nat
    PROVE  /\ SubSeq(s, k + 1, Len(s)) \in Seq(S)
           /\ k <= Len(s) => Len(SubSeq(s, k + 1, Len(s))) = Len(s) - k
           /\ \A i \in 1 .. Len(s) - k : SubSeq(s, k + 1, Len(s))[i] = s[k + i]
<1>1. Len(s) \in Nat /\ \A i \in k + 1 .. Len(s) : s[i] \in S
  BY ElemsOfSeq
<1>2. /\ SubSeq(s, k + 1, Len(s)) \in Seq(S)
      /\ Len(SubSeq(s, k + 1, Len(s))) = IF k + 1 <= Len(s) THEN Len(s) - (k + 1) + 1 ELSE 0
      /\ \A i \in 1 .. Len(s) - (k + 1) + 1 :
            SubSeq(s, k + 1, Len(s))[i] = s[k + 1 + i - 1]
  BY <1>1, SubSeqProperties
<1>3. ASSUME NEW i \in 1 .. Len(s) - k
      PROVE  SubSeq(s, k + 1, Len(s))[i] = s[k + i]
  <2>1. i \in 1 .. Len(s) - (k + 1) + 1 /\ k + 1 + i - 1 = k + i
    BY <1>1
  <2> QED
    BY <1>2, <2>1
<1>4. k <= Len(s) => Len(SubSeq(s, k + 1, Len(s))) = Len(s) - k
  BY <1>1, <1>2
<1> QED
  BY <1>2, <1>3, <1>4
Pages == [items : Seq(Markets), more : BOOLEAN, next : Markets \cup {None}]

ListTypes ==
    /\ setup \in Setups
    /\ born \in 0 .. LastMarket
    /\ listing \in Seq(1 .. born)
    /\ settled \in SUBSET (1 .. born)

TableTypes ==
    /\ rows \in [Markets -> Rows \cup {NoRow}]
    /\ snapped \in SUBSET {m \in Markets : rows[m] # NoRow}

WalkTypes ==
    /\ pc \in [Procs -> {"idle", "enrich", "fetch", "write", "record", "commit"}]
    /\ cats \in [Procs -> SUBSET Markets]
    /\ at \in [Procs -> Markets \cup {None}]
    /\ page \in [Procs -> 0 .. MaxPages]
    /\ buf \in [Procs -> Pages]
    /\ ok \in [Procs -> BOOLEAN]
    /\ through \in [Procs -> SUBSET Markets]
    /\ cut \in [Procs -> BOOLEAN]
    /\ \A p \in Procs : pc[p] = "write" => page[p] < MaxPages

PollTypes == ListTypes /\ TableTypes /\ WalkTypes /\ faults \in 0 .. MaxFaults

LEMMA Sizes ==
    /\ LastMarket \in Nat /\ FirstListed \in 0 .. LastMarket
    /\ MaxPages \in Nat /\ PageSize \in Nat \ {0} /\ MaxFaults \in Nat
    /\ None \notin Nat /\ NoRow \notin Rows
BY RestPollerAssumption DEF Rows

LEMMA NoPageTypes == NoPage \in Pages
<1>1. <<>> \in Seq(Markets)
  BY EmptySeq
<1> QED
  BY <1>1 DEF NoPage, Pages

LEMMA ListedAreMarkets ==
    ASSUME ListTypes
    PROVE  /\ listing \in Seq(Markets)
           /\ Elems(listing) \subseteq 1 .. born
           /\ 1 .. born \subseteq Markets
<1>1. 1 .. born \subseteq Markets
  BY Sizes DEF ListTypes, Markets
<1>2. Seq(1 .. born) \subseteq Seq(Markets)
  BY <1>1, SeqMonotonic
<1> QED
  BY <1>1, <1>2, ElemsOfSeq DEF ListTypes

LEMMA AnswerTypes ==
    ASSUME NEW rest \in Seq(Markets), rest # <<>>
    PROVE  {Keyset(rest), Before(rest), Numbered(rest), Whole(rest)} \subseteq Pages
<1>1. /\ Page(rest) \in Seq(Markets)
      /\ Len(Page(rest)) \in Nat \ {0}
      /\ \A i \in 1 .. Len(Page(rest)) : Page(rest)[i] \in Markets
  BY PageTypes, ElemsOfSeq
<1>2. Len(rest) > PageSize => rest[PageSize] \in Markets
  <2>1. Len(rest) \in Nat /\ \A i \in 1 .. Len(rest) : rest[i] \in Markets
    BY ElemsOfSeq
  <2> QED
    BY <2>1, Sizes
<1>3. Page(rest)[Len(Page(rest))] \in Markets
  BY <1>1
<1>4. Keyset(rest) \in Pages
  BY <1>1, <1>2 DEF Keyset, Pages
<1>5. Before(rest) \in Pages
  BY <1>1, <1>3 DEF Before, Pages
<1>6. Numbered(rest) \in Pages
  BY <1>1 DEF Numbered, Pages
<1>7. Whole(rest) \in Pages
  BY DEF Whole, Pages
<1> QED
  BY <1>4, <1>5, <1>6, <1>7

LEMMA RestsAreSeqs ==
    ASSUME ListTypes, WalkTypes, NEW p \in Procs
    PROVE  /\ AfterCursor(p) \subseteq Seq(Markets)
           /\ FromOffset(p) \in Seq(Markets)
<1>1. ASSUME NEW k \in Nat PROVE SubSeq(listing, k + 1, Len(listing)) \in Seq(Markets)
  BY ListedAreMarkets, RestTypes
<1>2. PageSize * page[p] \in Nat
  <2>1. page[p] \in Nat
    BY Sizes DEF WalkTypes
  <2> QED
    BY <2>1, Sizes
<1>3. FromOffset(p) \in Seq(Markets)
  BY <1>1, <1>2 DEF FromOffset
<1>4. Len(listing) \in Nat
  BY ListedAreMarkets, ElemsOfSeq
<1>5. ASSUME NEW rest \in AfterCursor(p) PROVE rest \in Seq(Markets)
  <2>1. PICK k \in 0 .. Len(listing) : rest = SubSeq(listing, k + 1, Len(listing))
    BY DEF AfterCursor
  <2> QED
    BY <1>1, <1>4, <2>1
<1> QED
  BY <1>3, <1>5

\* What a fetch finds left of the listing and makes of it.
LEMMA FetchAnswers ==
    ASSUME ListTypes, WalkTypes, NEW p \in Procs, FetchPage(p)
    PROVE  \E rest \in Seq(Markets) : \E answer :
              (rest # <<>> => answer \in Pages) /\ Fetch(p, rest, answer)
<1>1. ASSUME NEW rest \in Seq(Markets),
             NEW answer \in {Keyset(rest), Before(rest), Numbered(rest), Whole(rest)},
             Fetch(p, rest, answer)
      PROVE  \E r \in Seq(Markets) : \E a : (r # <<>> => a \in Pages) /\ Fetch(p, r, a)
  <2>1. rest # <<>> => answer \in Pages
    BY AnswerTypes
  <2> QED
    BY <1>1, <2>1
<1> QED
  BY <1>1, RestsAreSeqs, ListedAreMarkets DEF FetchPage, PolymarketFetch, KalshiFetch,
     ManifoldFetch, MetaculusFetch, ForecastExFetch, SingleFetch

-----------------------------------------------------------------------------
LEMMA InitTypes == Init => PollTypes
<1> SUFFICES ASSUME Init PROVE PollTypes
  OBVIOUS
<1>1. born \in 0 .. LastMarket /\ born = FirstListed
  BY Sizes DEF Init
<1>2. listing \in Seq(1 .. born)
  <2>1. Newest(born) \in [1 .. born -> 1 .. born]
    BY <1>1 DEF Newest
  <2>2. born \in Nat
    BY <1>1, Sizes
  <2> QED
    BY <2>1, <2>2, SeqDef DEF Init
<1>3. ListTypes
  BY <1>1, <1>2 DEF Init, ListTypes
<1>4. TableTypes
  BY DEF Init, TableTypes
<1>5. WalkTypes
  <2>1. 0 \in 0 .. MaxPages
    BY Sizes
  <2> QED
    BY <2>1, NoPageTypes DEF Init, WalkTypes
<1> QED
  BY <1>3, <1>4, <1>5, Sizes DEF Init, PollTypes

LEMMA FaultTypes ==
    ASSUME faults \in 0 .. MaxFaults, Fault \/ UNCHANGED faults
    PROVE  faults' \in 0 .. MaxFaults
BY Sizes DEF Fault

LEMMA VenueStepTypes ==
    ASSUME PollTypes, Venue
    PROVE  PollTypes'
<1>0. ListTypes /\ TableTypes /\ WalkTypes /\ faults \in 0 .. MaxFaults
  BY DEF PollTypes
<1>1. CASE Arrive
  <2>1. born \in Nat /\ born < LastMarket
    BY <1>0, <1>1, SetupTypes, Sizes DEF Arrive, ListTypes
  <2>2. 1 .. born \subseteq 1 .. born + 1 /\ born + 1 \in 1 .. born + 1
    BY <2>1
  <2>3. listing \in Seq(1 .. born + 1)
    BY <1>0, <2>2, SeqMonotonic DEF ListTypes
  <2>4. <<born + 1>> \o listing \in Seq(1 .. born + 1)
    BY <2>2, <2>3, NewestFirst
  <2>5. ListTypes'
    BY <1>0, <1>1, <2>1, <2>2, <2>4, Sizes DEF Arrive, ListTypes
  <2> QED
    BY <1>0, <1>1, <2>5 DEF Arrive, PollTypes, TableTypes, WalkTypes, tables, walk
<1>2. ASSUME NEW m \in Markets, Settle(m) PROVE PollTypes'
  <2>1. listing' \in Seq(1 .. born)
    BY <1>0, <1>2, WithoutTypes DEF Settle, ListTypes
  <2>2. through' \in [Procs -> SUBSET Markets]
    BY <1>0, <1>2 DEF Settle, WalkTypes
  <2>3. settled' \in SUBSET (1 .. born)
    BY <1>0, <1>2 DEF Settle, ListTypes
  <2> QED
    BY <1>0, <1>2, <2>1, <2>2, <2>3
       DEF Settle, PollTypes, ListTypes, TableTypes, WalkTypes, tables
<1>3. ASSUME NEW i, Overtake(i) PROVE PollTypes'
  <2>1. i \in 1 .. Len(listing) - 1
    BY <1>3 DEF Overtake
  <2>2. Len(listing) \in Nat /\ \A j \in 1 .. Len(listing) : listing[j] \in 1 .. born
    BY <1>0, ElemsOfSeq DEF ListTypes
  <2>3. i \in 1 .. Len(listing) /\ i + 1 \in 1 .. Len(listing)
    BY <2>1, <2>2
  <2>4. /\ [listing EXCEPT ![i] = listing[i + 1]] \in Seq(1 .. born)
        /\ Len([listing EXCEPT ![i] = listing[i + 1]]) = Len(listing)
    BY <1>0, <2>2, <2>3, ExceptSeq DEF ListTypes
  <2>5. listing' = [[listing EXCEPT ![i] = listing[i + 1]] EXCEPT ![i + 1] = listing[i]]
    BY <1>3 DEF Overtake
  <2>6. listing' \in Seq(1 .. born)
    BY <2>2, <2>3, <2>4, <2>5, ExceptSeq
  <2>7. faults' \in 0 .. MaxFaults
    BY <1>0, <1>3, FaultTypes DEF Overtake
  <2> QED
    BY <1>0, <1>3, <2>6, <2>7
       DEF Overtake, PollTypes, ListTypes, TableTypes, WalkTypes, tables, walk
<1> QED
  BY <1>1, <1>2, <1>3 DEF Venue
LEMMA EndCycleWalk ==
    ASSUME WalkTypes, NEW p \in Procs, EndCycle(p)
    PROVE  WalkTypes'
<1>1. 0 \in 0 .. MaxPages
  BY Sizes
<1> QED
  BY <1>1, NoPageTypes DEF EndCycle, WalkTypes

LEMMA GiveUpWalk ==
    ASSUME WalkTypes, NEW p \in Procs, GiveUp(p)
    PROVE  WalkTypes'
BY NoPageTypes DEF GiveUp, WalkTypes

LEMMA FetchWalk ==
    ASSUME WalkTypes, NEW p \in Procs, NEW rest, NEW answer,
           rest # <<>> => answer \in Pages, Fetch(p, rest, answer)
    PROVE  WalkTypes'
<1>1. pc[p] = "fetch" /\ page[p] < MaxPages /\ UNCHANGED <<cats, at, page, ok, through, cut>>
  BY DEF Fetch
<1>2. buf' \in [Procs -> Pages]
  BY DEF Fetch, WalkTypes
<1>3. pc' \in [Procs -> {"idle", "enrich", "fetch", "write", "record", "commit"}]
      /\ \A q \in Procs : pc'[q] = "write" => q = p \/ pc[q] = "write"
  BY DEF Fetch, WalkTypes
<1> QED
  BY <1>1, <1>2, <1>3 DEF WalkTypes

LEMMA ReachedMarkets ==
    ASSUME NEW items \in Seq(Markets)
    PROVE  Reached(items) \subseteq Elems(items) /\ Elems(items) \subseteq Markets
BY ElemsOfSeq DEF Reached, Elems

LEMMA WriteTypes ==
    ASSUME TableTypes, WalkTypes, NEW p \in Procs, NEW items \in Seq(Markets),
           NEW quoted, NEW row \in [Markets -> Rows], NEW goesOn \in BOOLEAN,
           WritePage(p, items, quoted, row, goesOn)
    PROVE  TableTypes' /\ WalkTypes'
<1>1. TableTypes'
  <2>1. Reached(items) \subseteq Markets
    BY ReachedMarkets
  <2>2. CASE Upsert(items, quoted, row)
    <3>1. rows' \in [Markets -> Rows \cup {NoRow}]
      BY <2>2 DEF Upsert, TableTypes
    <3>2. \A m \in Markets : rows[m] # NoRow => rows'[m] # NoRow
      BY <2>2, Sizes DEF Upsert, TableTypes
    <3>3. \A m \in Reached(items) : rows'[m] # NoRow
      BY <2>1, <2>2, Sizes DEF Upsert, TableTypes
    <3> QED
      BY <2>1, <2>2, <3>1, <3>2, <3>3 DEF Upsert, TableTypes
  <2>3. CASE UNCHANGED tables
    BY <2>3 DEF tables, TableTypes
  <2> QED
    BY <2>2, <2>3 DEF WritePage
<1>2. pc[p] = "write" /\ page[p] < MaxPages
  BY DEF WritePage, WalkTypes
<1>3. page[p] \in 0 .. MaxPages /\ page[p] + 1 \in 0 .. MaxPages
  BY <1>2, Sizes DEF WalkTypes
<1>4. /\ ok' \in [Procs -> BOOLEAN]
      /\ pc' \in [Procs -> {"idle", "enrich", "fetch", "write", "record", "commit"}]
      /\ \A q \in Procs : pc'[q] = "write" => q # p /\ pc[q] = "write"
  BY DEF WritePage, WalkTypes
<1>5. at' \in [Procs -> Markets \cup {None}]
  <2>1. buf[p].next \in Markets \cup {None}
    BY DEF WalkTypes, Pages
  <2> QED
    BY <2>1 DEF WritePage, WalkTypes
<1>6. /\ page' \in [Procs -> 0 .. MaxPages]
      /\ \A q \in Procs : q # p => page'[q] = page[q]
  BY <1>3 DEF WritePage, WalkTypes
<1>7. cut' \in [Procs -> BOOLEAN]
  <2>1. \A x \in BOOLEAN : [cut EXCEPT ![p] = x] \in [Procs -> BOOLEAN]
    BY DEF WalkTypes
  <2>2. \/ UNCHANGED cut
        \/ \E x \in BOOLEAN : cut' = [cut EXCEPT ![p] = x]
    BY DEF WritePage, WalkTypes
  <2> QED
    BY <2>1, <2>2 DEF WalkTypes
<1>8. buf' \in [Procs -> Pages] /\ UNCHANGED <<cats, through>>
  BY NoPageTypes DEF WritePage, WalkTypes
<1> QED
  BY <1>1, <1>4, <1>5, <1>6, <1>7, <1>8 DEF WalkTypes

LEMMA WriteIsPage ==
    ASSUME PollTypes, NEW p \in Procs, Write(p) \/ ManifoldDetailFails(p)
    PROVE  \E items \in Seq(Markets) : \E quoted : \E row \in [Markets -> Rows] :
              \E goesOn \in BOOLEAN : WritePage(p, items, quoted, row, goesOn)
<1>1. buf[p].items \in Seq(Markets) /\ buf[p].more \in BOOLEAN
  BY DEF PollTypes, WalkTypes, Pages
<1>2. {PolymarketRow(p), KalshiRow(p), AsListed, ForecastExRow} \subseteq [Markets -> Rows]
  BY DEF PolymarketRow, KalshiRow, AsListed, ForecastExRow, Rows
<1>3. Advances(p) \in BOOLEAN
  BY DEF Advances
<1>4. \A i \in DOMAIN buf[p].items : ManifoldRows(p, i) \in Seq(Markets)
  BY <1>1, WithoutTypes DEF ManifoldRows
<1> QED
  BY <1>1, <1>2, <1>3, <1>4 DEF Write, ManifoldDetailFails, PolymarketPage, KalshiPage,
     ManifoldPage, MetaculusPage, ForecastExPage, GeminiPage, PredictItPage, MockPage

LEMMA PollStepTypes == PollTypes /\ [Next]_vars => PollTypes'
<1> SUFFICES ASSUME PollTypes, [Next]_vars PROVE PollTypes'
  OBVIOUS
<1>0. ListTypes /\ TableTypes /\ WalkTypes /\ faults \in 0 .. MaxFaults
  BY DEF PollTypes
<1>1. ASSUME UNCHANGED venue PROVE ListTypes'
  BY <1>0, <1>1 DEF venue, ListTypes
<1>2. ASSUME UNCHANGED tables PROVE TableTypes'
  BY <1>0, <1>2 DEF tables, TableTypes
<1>3. ASSUME NEW p \in Procs, Start(p) \/ Enrich(p) \/ PolymarketEnrichFails(p) \/ Ceiling(p)
      PROVE  PollTypes'
  <2>1. Elems(listing) \subseteq Markets
    BY <1>0, ListedAreMarkets
  <2>2. WalkTypes'
    <3>1. CASE Start(p)
      BY <1>0, <2>1, <3>1 DEF Start, WalkTypes
    <3>2. CASE Enrich(p)
      BY <1>0, <2>1, <3>2 DEF Enrich, WalkTypes
    <3>3. CASE PolymarketEnrichFails(p)
      BY <1>0, <2>1, <3>3 DEF PolymarketEnrichFails, WalkTypes
    <3>4. CASE Ceiling(p)
      BY <1>0, <3>4 DEF Ceiling, WalkTypes
    <3> QED
      BY <1>3, <3>1, <3>2, <3>3, <3>4
  <2>3. UNCHANGED <<venue, tables>>
    BY <1>3 DEF Start, Enrich, PolymarketEnrichFails, Ceiling
  <2>4. faults' \in 0 .. MaxFaults
    BY <1>0, <1>3, FaultTypes DEF Start, Enrich, PolymarketEnrichFails, Ceiling
  <2> QED
    BY <1>1, <1>2, <2>2, <2>3, <2>4 DEF PollTypes
<1>4. ASSUME NEW p \in Procs, FetchPage(p) PROVE PollTypes'
  <2>1. PICK rest \in Seq(Markets) : \E answer :
           (rest # <<>> => answer \in Pages) /\ Fetch(p, rest, answer)
    BY <1>0, <1>4, FetchAnswers
  <2>2. PICK answer : (rest # <<>> => answer \in Pages) /\ Fetch(p, rest, answer)
    BY <2>1
  <2>3. WalkTypes'
    BY <1>0, <2>2, FetchWalk
  <2>4. UNCHANGED <<venue, tables, faults>>
    BY <2>2 DEF Fetch
  <2> QED
    BY <1>0, <1>1, <1>2, <2>3, <2>4 DEF PollTypes
<1>5. ASSUME NEW p \in Procs, FetchEcho(p) PROVE PollTypes'
  <2>1. PICK rest \in AfterCursor(p) \ {<<>>} :
           buf' = [buf EXCEPT ![p] = [Keyset(rest) EXCEPT !.next = at[p]]]
    BY <1>5 DEF FetchEcho
  <2>2. Keyset(rest) \in Pages /\ at[p] \in Markets \cup {None}
    BY <1>0, <2>1, RestsAreSeqs, AnswerTypes DEF WalkTypes
  <2>3. [Keyset(rest) EXCEPT !.next = at[p]] \in Pages
    BY <2>2 DEF Pages
  <2>4. WalkTypes'
    BY <1>0, <1>5, <2>1, <2>3 DEF FetchEcho, WalkTypes
  <2>5. UNCHANGED <<venue, tables>> /\ faults' \in 0 .. MaxFaults
    BY <1>0, <1>5, FaultTypes DEF FetchEcho
  <2> QED
    BY <1>1, <1>2, <2>4, <2>5 DEF PollTypes
<1>6. ASSUME NEW p \in Procs, Write(p) \/ ManifoldDetailFails(p) PROVE PollTypes'
  <2>1. TableTypes' /\ WalkTypes' /\ UNCHANGED venue
    <3>1. PICK items \in Seq(Markets) : \E quoted : \E row \in [Markets -> Rows] :
             \E goesOn \in BOOLEAN : WritePage(p, items, quoted, row, goesOn)
      BY <1>6, WriteIsPage
    <3>2. PICK quoted : \E row \in [Markets -> Rows] :
             \E goesOn \in BOOLEAN : WritePage(p, items, quoted, row, goesOn)
      BY <3>1
    <3>3. PICK row \in [Markets -> Rows] :
             \E goesOn \in BOOLEAN : WritePage(p, items, quoted, row, goesOn)
      BY <3>2
    <3>4. PICK goesOn \in BOOLEAN : WritePage(p, items, quoted, row, goesOn)
      BY <3>3
    <3>5. UNCHANGED venue
      BY <3>4 DEF WritePage
    <3> QED
      BY <1>0, <3>4, <3>5, WriteTypes
  <2>2. faults' \in 0 .. MaxFaults
    BY <1>0, <1>6, FaultTypes DEF Write, ManifoldDetailFails, PolymarketPage, KalshiPage,
       ManifoldPage, MetaculusPage, ForecastExPage, GeminiPage, PredictItPage, MockPage
  <2> QED
    BY <1>1, <2>1, <2>2 DEF PollTypes
<1>7. ASSUME NEW p \in Procs, KalshiEnrichFails(p) \/ FetchFails(p) \/ WriteFails(p)
      PROVE  PollTypes'
  <2>1. GiveUp(p) /\ faults' \in 0 .. MaxFaults
    BY <1>0, <1>7, FaultTypes DEF KalshiEnrichFails, FetchFails, WriteFails
  <2> QED
    BY <1>0, <1>1, <1>2, <2>1, GiveUpWalk DEF GiveUp, PollTypes
<1>8. ASSUME NEW p \in Procs, ReadHealth(p) PROVE PollTypes'
  BY <1>0, <1>1, <1>2, <1>8 DEF ReadHealth, walk, WalkTypes, PollTypes
<1>9. ASSUME NEW p \in Procs, CommitHealth(p) \/ RecordFails(p) \/ Crash(p) PROVE PollTypes'
  <2>1. EndCycle(p) /\ UNCHANGED <<venue, tables>> /\ faults' \in 0 .. MaxFaults
    BY <1>0, <1>9, FaultTypes DEF CommitHealth, RecordFails, Crash
  <2> QED
    BY <1>0, <1>1, <1>2, <2>1, EndCycleWalk DEF PollTypes
<1>10. CASE UNCHANGED vars
  BY <1>0, <1>10 DEF vars, venue, tables, walk, PollTypes, ListTypes, TableTypes, WalkTypes
<1> QED
  BY <1>3, <1>4, <1>5, <1>6, <1>7, <1>8, <1>9, <1>10, VenueStepTypes
     DEF Next, Cycle, Failure
\* A stored market stays stored.
LEMMA RowsStay ==
    ASSUME PollTypes, [Next]_vars, NEW m \in Markets, rows[m] # NoRow
    PROVE  rows'[m] # NoRow
<1>1. ASSUME NEW p \in Procs, Write(p) \/ ManifoldDetailFails(p) PROVE rows'[m] # NoRow
  <2>1. PICK items \in Seq(Markets) : \E quoted : \E row \in [Markets -> Rows] :
           \E goesOn \in BOOLEAN : WritePage(p, items, quoted, row, goesOn)
    BY <1>1, WriteIsPage
  <2>2. PICK quoted : \E row \in [Markets -> Rows] :
           \E goesOn \in BOOLEAN : WritePage(p, items, quoted, row, goesOn)
    BY <2>1
  <2>3. PICK row \in [Markets -> Rows] :
           \E goesOn \in BOOLEAN : WritePage(p, items, quoted, row, goesOn)
    BY <2>2
  <2>4. Upsert(items, quoted, row) \/ UNCHANGED tables
    BY <2>3 DEF WritePage
  <2> QED
    BY <2>4, Sizes DEF Upsert, tables
<1>2. CASE \/ UNCHANGED vars \/ Venue
           \/ \E p \in Procs :
                 \/ Start(p) \/ Enrich(p) \/ FetchPage(p) \/ Ceiling(p)
                 \/ ReadHealth(p) \/ CommitHealth(p)
                 \/ PolymarketEnrichFails(p) \/ KalshiEnrichFails(p) \/ FetchEcho(p)
                 \/ FetchFails(p) \/ WriteFails(p) \/ RecordFails(p) \/ Crash(p)
  <2>1. UNCHANGED tables
    BY <1>2 DEF vars, Venue, Arrive, Settle, Overtake, Start, Enrich, FetchPage, Fetch,
       PolymarketFetch, KalshiFetch, ManifoldFetch, MetaculusFetch, ForecastExFetch,
       SingleFetch, Ceiling, ReadHealth, CommitHealth, PolymarketEnrichFails,
       KalshiEnrichFails, FetchEcho, FetchFails, WriteFails, RecordFails, Crash, GiveUp
  <2> QED
    BY <2>1 DEF tables
<1> QED
  BY <1>1, <1>2 DEF Next, Cycle, Failure

-----------------------------------------------------------------------------
(* The sweeps *)

Stored == {m \in Markets : rows[m] # NoRow}

SweepTypeInv ==
    /\ step \in [Sweepers -> {"idle", "gather", "write"}]
    /\ chosen \in [Sweepers -> SUBSET Markets]
    /\ got \in [Sweepers -> SUBSET Markets]
    /\ \A s \in Sweepers :
          /\ chosen[s] \subseteq Stored
          /\ got[s] \subseteq chosen[s]
          /\ step[s] # "write" => got[s] = {}
    /\ marks \subseteq Sweepers \X Stored

LEMMA InitSweepTypes == SweepInit => PollTypes /\ SweepTypeInv
BY InitTypes DEF SweepInit, SweepTypeInv

LEMMA SweepStepTypes ==
    PollTypes /\ SweepTypeInv /\ [SweepNext]_allvars => PollTypes' /\ SweepTypeInv'
<1> SUFFICES ASSUME PollTypes, SweepTypeInv, [SweepNext]_allvars
             PROVE  PollTypes' /\ SweepTypeInv'
  OBVIOUS
<1>1. CASE [Next]_vars /\ UNCHANGED sweep
  <2>1. Stored \subseteq Stored'
    BY <1>1, RowsStay DEF Stored
  <2>2. SweepTypeInv'
    BY <1>1, <2>1 DEF sweep, SweepTypeInv
  <2> QED
    BY <1>1, <2>2, PollStepTypes
<1>2. ASSUME NEW s \in Sweepers, Select(s) PROVE PollTypes' /\ SweepTypeInv'
  <2>1. UNCHANGED vars
    BY <1>2 DEF Select
  <2>2. Stored' = Stored
    BY <2>1 DEF vars, tables, Stored
  <2>3. PICK S \in Slices : chosen' = [chosen EXCEPT ![s] = S]
    BY <1>2 DEF Select
  <2>4. S \subseteq Stored /\ Stored \subseteq Markets
    BY DEF Slices, Active, Stored
  <2>5. got[s] = {}
    BY <1>2 DEF Select, SweepTypeInv
  <2>6. SweepTypeInv'
    BY <1>2, <2>2, <2>3, <2>4, <2>5 DEF Select, SweepTypeInv
  <2> QED
    BY <2>1, <2>6, PollStepTypes
<1>3. ASSUME NEW s \in Sweepers, NEW lost, Gather(s, lost), Fault \/ UNCHANGED faults,
             UNCHANGED <<venue, tables, record, walk, pc>>
      PROVE  PollTypes' /\ SweepTypeInv'
  <2>1. PollTypes'
    <3>1. faults' \in 0 .. MaxFaults
      BY <1>3, FaultTypes DEF PollTypes
    <3> QED
      BY <1>3, <3>1 DEF PollTypes, ListTypes, TableTypes, WalkTypes, venue, tables, walk
  <2>2. Stored' = Stored
    BY <1>3 DEF tables, Stored
  <2>3. /\ got' = [got EXCEPT ![s] = chosen[s] \ (settled \cup lost)]
        /\ step' = [step EXCEPT ![s] = "write"]
        /\ UNCHANGED <<chosen, marks>>
    BY <1>3 DEF Gather
  <2>4. chosen[s] \ (settled \cup lost) \in SUBSET Markets
    BY DEF SweepTypeInv
  <2>5. SweepTypeInv'
    BY <2>2, <2>3, <2>4 DEF SweepTypeInv
  <2> QED
    BY <2>1, <2>5
<1>4. ASSUME NEW s \in Sweepers, Close(s), Fault \/ UNCHANGED faults,
             marks' \subseteq marks \cup ({s} \X got[s]),
             UNCHANGED <<venue, tables, record, walk, pc>>
      PROVE  PollTypes' /\ SweepTypeInv'
  <2>1. PollTypes'
    <3>1. faults' \in 0 .. MaxFaults
      BY <1>4, FaultTypes DEF PollTypes
    <3> QED
      BY <1>4, <3>1 DEF PollTypes, ListTypes, TableTypes, WalkTypes, venue, tables, walk
  <2>2. Stored' = Stored
    BY <1>4 DEF tables, Stored
  <2>3. got[s] \subseteq Stored
    BY DEF SweepTypeInv
  <2>4. SweepTypeInv'
    BY <1>4, <2>2, <2>3 DEF Close, SweepTypeInv
  <2> QED
    BY <2>1, <2>4
<1>5. ASSUME NEW s \in Sweepers, SweepCycle(s) \/ GatherSome(s) \/ WriteRowsFails(s)
      PROVE  PollTypes' /\ SweepTypeInv'
  <2>1. CASE GatherAll(s)
    BY <1>3, <2>1 DEF GatherAll, vars
  <2>2. CASE GatherSome(s)
    BY <1>3, <2>2 DEF GatherSome
  <2>3. CASE WriteRows(s)
    BY <1>4, <2>3 DEF WriteRows, vars
  <2>4. CASE WriteRowsFails(s)
    BY <1>4, <2>4 DEF WriteRowsFails
  <2> QED
    BY <1>5, <2>1, <2>2, <2>3, <2>4 DEF SweepCycle
<1>6. CASE SelectPolymarketBooks \/ SelectKalshiBooks \/ SelectHistories
  BY <1>2, <1>6 DEF SelectPolymarketBooks, SelectKalshiBooks, SelectHistories, Sweepers
<1>7. CASE UNCHANGED allvars
  BY <1>1, <1>7 DEF allvars
<1> QED
  BY <1>1, <1>5, <1>6, <1>7 DEF SweepNext

\* Type correctness of a source, its processes and its sweeps: no walk goes
\* past its ceiling of pages, and no snapshot and no swept row is without the
\* market it is of.
THEOREM SweepTypes == SweepSpec => [](TypeOK /\ SweepTypeOK)
<1>1. HealthInv /\ PollTypes => TypeOK
  BY DEF HealthInv, RecordTypes, PollTypes, ListTypes, TableTypes, WalkTypes, Pages, TypeOK
<1>2. SweepTypeInv => SweepTypeOK
  BY DEF SweepTypeInv, SweepTypeOK, Stored
<1> QED
  BY <1>1, <1>2, HealthInvariant, InitSweepTypes, SweepStepTypes, PTL DEF SweepSpec
-----------------------------------------------------------------------------
(* Walks whose position is a market *)

Keyed == setup.venue \notin {"metaculus", "forecastex"}

Descends == \A i, j \in DOMAIN listing : i < j => listing[j] < listing[i]

\* p's walk will still come to market m, unless it is cut short: m is on the
\* page at hand or beyond the position.  An echoed cursor is noticed only when
\* its page is written.
Ahead(p, m) ==
    \/ pc[p] \in {"idle", "enrich"}
    \/ pc[p] = "fetch" /\ (at[p] = None \/ m < at[p])
    \/ pc[p] = "write" /\ \/ m \in Elems(buf[p].items)
                          \/ /\ setup.venue \notin Single
                             /\ buf[p].next # None
                             /\ m < buf[p].next \/ buf[p].next = at[p]

Walks(p) ==
    /\ pc[p] \in {"idle", "enrich"} => at[p] = None
    /\ pc[p] = "idle" => through[p] = {}
    /\ through[p] \subseteq Elems(listing)
    /\ ok[p] /\ ~cut[p] => \A m \in through[p] \cap Storable : rows[m] # NoRow \/ Ahead(p, m)

WalkInv == Keyed => Descends /\ \A p \in Procs : Walks(p)

LEMMA StorableTypes ==
    ASSUME ListTypes, NEW m \in Storable
    PROVE  m \in Markets /\ m \in Nat /\ kind[m] \in {"priced", "bare"}
BY Sizes DEF Storable, Markets

LEMMA InitWalks == Init => WalkInv
<1> SUFFICES ASSUME Init PROVE WalkInv
  OBVIOUS
<1>1. Descends
  <2>1. born \in Nat /\ listing = [i \in 1 .. born |-> born + 1 - i]
    BY Sizes DEF Init, Newest
  <2> QED
    BY <2>1 DEF Descends
<1>2. \A p \in Procs : Walks(p)
  BY DEF Init, Walks, Ahead
<1> QED
  BY <1>1, <1>2 DEF WalkInv

\* The walks that a step leaves alone.
LEMMA WalksOfOthers ==
    ASSUME NEW q \in Procs, Walks(q), setup' = setup,
           Elems(listing) \subseteq Elems(listing)',
           \A m \in Markets : rows[m] # NoRow => rows'[m] # NoRow,
           pc'[q] = pc[q], at'[q] = at[q], buf'[q] = buf[q], ok'[q] = ok[q],
           cut'[q] = cut[q], through'[q] = through[q]
    PROVE  Walks(q)'
<1>1. Storable' = Storable /\ Storable \subseteq Markets
  BY DEF Storable, kind
<1>2. \A m : Ahead(q, m)' <=> Ahead(q, m)
  BY DEF Ahead, Elems
<1> QED
  BY <1>1, <1>2 DEF Walks

LEMMA WalkVenue ==
    ASSUME PollTypes, WalkInv, Venue
    PROVE  WalkInv'
<1> SUFFICES ASSUME Keyed, Descends, \A p \in Procs : Walks(p)
             PROVE  Descends' /\ \A p \in Procs : Walks(p)'
  BY DEF Venue, Arrive, Settle, Overtake, WalkInv, Keyed
<1>0. ListTypes /\ WalkTypes
  BY DEF PollTypes
<1>1. /\ Len(listing) \in Nat /\ DOMAIN listing = 1 .. Len(listing)
      /\ \A i \in 1 .. Len(listing) : listing[i] \in 1 .. born
      /\ listing \in Seq(1 .. born) /\ born \in Nat
  BY <1>0, ElemsOfSeq, Sizes DEF ListTypes
<1>2. CASE Arrive
  <2>1. 1 .. born \subseteq 1 .. born + 1 /\ born + 1 \in 1 .. born + 1
    BY <1>1
  <2>2. listing \in Seq(1 .. born + 1)
    BY <1>1, <2>1, SeqMonotonic
  <2>3. /\ listing' \in Seq(1 .. born + 1)
        /\ Len(listing') = Len(listing) + 1
        /\ listing'[1] = born + 1
        /\ \A i \in 2 .. Len(listing) + 1 : listing'[i] = listing[i - 1]
        /\ Elems(listing) \subseteq Elems(listing')
    BY <1>2, <2>1, <2>2, NewestFirst DEF Arrive
  <2>4. DOMAIN listing' = 1 .. Len(listing) + 1
    BY <2>3, ElemsOfSeq
  <2>5. Descends'
    <3> SUFFICES ASSUME NEW i \in 1 .. Len(listing) + 1, NEW j \in 1 .. Len(listing) + 1, i < j
                 PROVE  listing'[j] < listing'[i]
      BY <2>4 DEF Descends
    <3>1. j \in 2 .. Len(listing) + 1 /\ j - 1 \in 1 .. Len(listing)
      BY <1>1
    <3>2. CASE i = 1
      BY <1>1, <2>3, <3>1, <3>2
    <3>3. CASE i # 1
      <4>1. i \in 2 .. Len(listing) + 1 /\ i - 1 \in 1 .. Len(listing) /\ i - 1 < j - 1
        BY <1>1, <3>3
      <4>2. listing[j - 1] < listing[i - 1]
        BY <1>1, <3>1, <4>1 DEF Descends
      <4> QED
        BY <2>3, <3>1, <4>1, <4>2
    <3> QED
      BY <3>2, <3>3
  <2>6. UNCHANGED <<setup, rows, pc, at, buf, ok, cut, through>>
    BY <1>2 DEF Arrive, tables, walk
  <2>7. Elems(listing) \subseteq Elems(listing)'
    BY <2>3 DEF Elems
  <2> QED
    BY <2>5, <2>6, <2>7, WalksOfOthers
<1>3. ASSUME NEW m \in Markets, Settle(m) PROVE Descends' /\ \A p \in Procs : Walks(p)'
  <2>1. UNCHANGED <<setup, rows, pc, at, buf, ok, cut>>
    BY <1>3 DEF Settle, tables
  <2>2. CASE ~OpenOnly
    <3>1. UNCHANGED <<listing, through>>
      BY <1>3, <2>2 DEF Settle
    <3> QED
      BY <2>1, <3>1, WalksOfOthers DEF Descends, Elems
  <2>3. CASE OpenOnly
    <3>1. PICK i \in DOMAIN listing : listing[i] = m /\ listing' = Without(listing, i)
      BY <1>3, <2>3 DEF Settle
    <3>2. /\ listing' \in Seq(1 .. born)
          /\ Len(listing') = Len(listing) - 1
          /\ \A j \in 1 .. Len(listing) - 1 :
                listing'[j] = IF j < i THEN listing[j] ELSE listing[j + 1]
          /\ \A x \in Elems(listing) : x # m => x \in Elems(listing')
      <4>1. /\ Without(listing, i) \in Seq(1 .. born)
            /\ Len(Without(listing, i)) = Len(listing) - 1
            /\ \A j \in 1 .. Len(listing) - 1 :
                 Without(listing, i)[j] = IF j < i THEN listing[j] ELSE listing[j + 1]
            /\ \A x \in Elems(listing) : x # listing[i] => x \in Elems(Without(listing, i))
        BY <1>1, WithoutTypes
      <4> QED
        BY <3>1, <4>1
    <3>3. DOMAIN listing' = 1 .. Len(listing) - 1
      BY <3>2, ElemsOfSeq
    <3>4. Descends'
      <4> SUFFICES ASSUME NEW j \in 1 .. Len(listing) - 1, NEW k \in 1 .. Len(listing) - 1,
                          j < k
                   PROVE  listing'[k] < listing'[j]
        BY <3>3 DEF Descends
      <4>1. /\ {j, j + 1, k, k + 1} \subseteq DOMAIN listing
            /\ j < k /\ j + 1 < k + 1 /\ j < k + 1 /\ i \in Nat
        BY <1>1
      <4>2. listing[k] < listing[j] /\ listing[k + 1] < listing[j + 1] /\ listing[k + 1] < listing[j]
        BY <4>1 DEF Descends
      <4> QED
        BY <3>2, <4>1, <4>2
    <3>5. ASSUME NEW p \in Procs PROVE Walks(p)'
      <4>1. through'[p] = through[p] \ {m}
        BY <1>3, <2>3, <3>5 DEF Settle
      <4>2. through'[p] \subseteq Elems(listing)'
        BY <3>2, <4>1 DEF Walks, Elems
      <4>3. \A x : Ahead(p, x)' <=> Ahead(p, x)
        BY <2>1 DEF Ahead, Elems
      <4>4. Storable' = Storable
        BY <2>1 DEF Storable, kind
      <4> QED
        BY <2>1, <4>1, <4>2, <4>3, <4>4 DEF Walks
    <3> QED
      BY <3>4, <3>5
  <2> QED
    BY <2>2, <2>3
<1>4. ASSUME NEW i, Overtake(i) PROVE FALSE
  BY <1>4 DEF Overtake, Keyed
<1> QED
  BY <1>2, <1>3, <1>4 DEF Venue
\* A market beyond the cursor is in what is left of the listing.
LEMMA BeyondCursor ==
    ASSUME ListTypes, Descends, NEW p \in Procs, NEW rest \in AfterCursor(p),
           NEW m \in Elems(listing), at[p] = None \/ m < at[p]
    PROVE  /\ rest \in Seq(Markets)
           /\ \E i \in 1 .. Len(rest) : m = rest[i]
           /\ \A i, j \in 1 .. Len(rest) : i < j => rest[j] < rest[i]
<1>1. PICK k \in 0 .. Len(listing) :
         /\ rest = SubSeq(listing, k + 1, Len(listing))
         /\ \A i \in DOMAIN listing : i > k <=> at[p] = None \/ listing[i] < at[p]
  BY DEF AfterCursor
<1>2. listing \in Seq(Markets) /\ Len(listing) \in Nat /\ DOMAIN listing = 1 .. Len(listing)
  BY ListedAreMarkets, ElemsOfSeq
<1>3. k \in Nat /\ k <= Len(listing)
  BY <1>1, <1>2
<1>4. /\ SubSeq(listing, k + 1, Len(listing)) \in Seq(Markets)
      /\ Len(SubSeq(listing, k + 1, Len(listing))) = Len(listing) - k
      /\ \A i \in 1 .. Len(listing) - k :
            SubSeq(listing, k + 1, Len(listing))[i] = listing[k + i]
  BY <1>2, <1>3, RestTypes
<1>5. /\ rest \in Seq(Markets)
      /\ Len(rest) = Len(listing) - k
      /\ \A i \in 1 .. Len(listing) - k : rest[i] = listing[k + i]
  BY <1>1, <1>4
<1>6. \E i \in 1 .. Len(rest) : m = rest[i]
  <2>1. PICK n \in 1 .. Len(listing) : m = listing[n]
    BY <1>2 DEF Elems
  <2>2. n > k
    BY <1>1, <1>2, <2>1
  <2>3. n - k \in 1 .. Len(listing) - k /\ k + (n - k) = n
    BY <1>2, <1>3, <2>2
  <2>4. m = rest[n - k]
    BY <1>5, <2>1, <2>3
  <2> QED
    BY <1>5, <2>3, <2>4
<1>7. ASSUME NEW i \in 1 .. Len(rest), NEW j \in 1 .. Len(rest), i < j
      PROVE  rest[j] < rest[i]
  <2>1. k + i \in DOMAIN listing /\ k + j \in DOMAIN listing /\ k + i < k + j
    BY <1>2, <1>3, <1>5, <1>7
  <2>2. listing[k + j] < listing[k + i]
    BY <2>1, <1>7 DEF Descends
  <2> QED
    BY <1>5, <2>2
<1> QED
  BY <1>5, <1>6, <1>7

\* What is left is on the page or beyond the cursor that comes with it.
LEMMA PageOrBeyond ==
    ASSUME NEW rest \in Seq(Markets), NEW i \in 1 .. Len(rest),
           \A j, k \in 1 .. Len(rest) : j < k => rest[k] < rest[j]
    PROVE  /\ rest # <<>>
           /\ \/ rest[i] \in Elems(Page(rest))
              \/ /\ Keyset(rest).next # None /\ rest[i] < Keyset(rest).next
                 /\ Before(rest).next # None /\ rest[i] < Before(rest).next
<1>1. Len(rest) \in Nat /\ \A j \in 1 .. Len(rest) : rest[j] \in Markets
  BY ElemsOfSeq
<1>2. rest # <<>>
  BY <1>1, EmptySeq
<1> DEFINE n == Len(Page(rest))
<1>3. /\ n \in Nat \ {0} /\ n <= Len(rest)
      /\ n = Smaller(PageSize, Len(rest))
      /\ \A j \in 1 .. n : Page(rest)[j] = rest[j]
      /\ DOMAIN Page(rest) = 1 .. n
  BY <1>2, PageTypes, ElemsOfSeq
<1> HIDE DEF n
<1>4. CASE i <= n
  <2>1. i \in 1 .. n
    BY <1>1, <1>3, <1>4
  <2>2. rest[i] \in Elems(Page(rest))
    BY <1>3, <2>1 DEF Elems
  <2> QED
    BY <1>2, <2>2
<1>5. CASE ~(i <= n)
  <2>1. n \in 1 .. Len(rest) /\ n < i /\ n = PageSize /\ Len(rest) > PageSize
    BY <1>1, <1>3, <1>5, Sizes DEF Smaller
  <2>2. rest[i] < rest[n] /\ rest[n] # None
    <3>1. rest[n] \in Nat
      BY <1>1, <2>1, Sizes DEF Markets
    <3> QED
      BY <2>1, <3>1, Sizes
  <2>3. Keyset(rest).next = rest[n]
    BY <2>1 DEF Keyset
  <2>4. Before(rest).next = rest[n]
    <3>1. Before(rest).next = Page(rest)[n]
      BY DEF Before, n
    <3>2. n \in 1 .. n
      BY <1>3
    <3> QED
      BY <1>3, <3>1, <3>2
  <2> QED
    BY <1>2, <2>2, <2>3, <2>4
<1> QED
  BY <1>4, <1>5

\* An answer to what is left after the cursor leaves no market behind.
LEMMA WalkFetch ==
    ASSUME PollTypes, Keyed, Descends, NEW p \in Procs, Walks(p), FetchPage(p)
    PROVE  Walks(p)'
<1>0. ListTypes /\ WalkTypes
  BY DEF PollTypes
<1>1. /\ pc[p] = "fetch"
      /\ UNCHANGED <<venue, tables, at, ok, cut, through>>
      /\ pc'[p] \in {"record", "write"}
  <2>1. \E rest, answer : Fetch(p, rest, answer)
    BY DEF FetchPage, PolymarketFetch, KalshiFetch, ManifoldFetch, MetaculusFetch,
       ForecastExFetch, SingleFetch
  <2> QED
    BY <1>0, <2>1 DEF Fetch, WalkTypes
<1> SUFFICES ASSUME ok[p], ~cut[p], NEW m \in through[p] \cap Storable, rows[m] = NoRow
             PROVE  Ahead(p, m)'
  BY <1>1 DEF Walks, venue, tables, Elems, Storable, kind
<1>2. m \in Elems(listing) /\ (at[p] = None \/ m < at[p])
  BY <1>1 DEF Walks, Ahead
<1>3. ASSUME NEW rest \in AfterCursor(p), NEW answer \in {Keyset(rest), Before(rest)},
             Fetch(p, rest, answer), setup.venue \notin Single
      PROVE  Ahead(p, m)'
  <2>1. /\ rest \in Seq(Markets)
        /\ \A i, j \in 1 .. Len(rest) : i < j => rest[j] < rest[i]
    BY <1>0, <1>2, BeyondCursor
  <2>2. PICK i \in 1 .. Len(rest) : m = rest[i]
    BY <1>0, <1>2, BeyondCursor
  <2>3. /\ rest # <<>>
        /\ \/ m \in Elems(Page(rest))
           \/ /\ Keyset(rest).next # None /\ m < Keyset(rest).next
              /\ Before(rest).next # None /\ m < Before(rest).next
    BY <2>1, <2>2, PageOrBeyond
  <2>4. pc'[p] = "write" /\ buf'[p] = answer
    BY <1>0, <1>3, <2>3 DEF Fetch, WalkTypes
  <2>5. answer.items = Page(rest)
    BY <1>3 DEF Keyset, Before
  <2>6. setup' = setup
    BY <1>1 DEF venue
  <2>7. m \in Elems(answer.items) \/ (answer.next # None /\ m < answer.next)
    BY <2>3, <2>5
  <2>8. m \in Elems(buf'[p].items) \/ (buf'[p].next # None /\ m < buf'[p].next)
    BY <2>4, <2>7
  <2> QED
    BY <1>3, <2>4, <2>6, <2>8 DEF Ahead, Elems
<1>4. ASSUME setup.venue \in Single, Fetch(p, listing, Whole(listing))
      PROVE  Ahead(p, m)'
  <2>1. listing # <<>>
    BY <1>0, <1>2, ElemsOfSeq DEF Elems, ListTypes
  <2>2. pc'[p] = "write" /\ buf'[p] = Whole(listing)
    BY <1>0, <1>4, <2>1 DEF Fetch, WalkTypes
  <2> QED
    BY <1>2, <2>2 DEF Whole, Ahead, Elems
<1>5. CASE SingleFetch(p)
  BY <1>4, <1>5 DEF SingleFetch
<1>6. CASE PolymarketFetch(p) \/ KalshiFetch(p) \/ ManifoldFetch(p)
  BY <1>3, <1>6 DEF PolymarketFetch, KalshiFetch, ManifoldFetch, Single
<1>7. CASE MetaculusFetch(p) \/ ForecastExFetch(p)
  BY <1>7 DEF MetaculusFetch, ForecastExFetch, Keyed
<1> QED
  BY <1>5, <1>6, <1>7 DEF FetchPage

LEMMA WalkEcho ==
    ASSUME PollTypes, Keyed, Descends, NEW p \in Procs, Walks(p), FetchEcho(p)
    PROVE  Walks(p)'
<1>0. ListTypes /\ WalkTypes
  BY DEF PollTypes
<1>1. /\ pc[p] = "fetch" /\ pc'[p] = "write" /\ at[p] # None /\ setup.venue \in Cursor
      /\ UNCHANGED <<venue, tables, at, ok, cut, through>>
  BY <1>0 DEF FetchEcho, WalkTypes
<1>2. buf'[p].next = at[p]
  BY <1>0 DEF FetchEcho, Keyset, WalkTypes
<1>3. \A m : Ahead(p, m)'
  BY <1>1, <1>2 DEF Ahead, Cursor, Single, venue
<1> QED
  BY <1>1, <1>3 DEF Walks, venue, tables, Elems

\* A page that is written takes its markets along; a page that is not, or not
\* as a whole, ends the walk or marks it.
LEMMA WalkWrite ==
    ASSUME PollTypes, NEW p \in Procs, Walks(p),
           NEW items \in Seq(Markets), NEW quoted, NEW row \in [Markets -> Rows],
           NEW goesOn \in BOOLEAN, WritePage(p, items, quoted, row, goesOn),
           setup.venue \notin Single /\ ~goesOn => buf[p].next \in {None, at[p]}
    PROVE  Walks(p)'
<1>0. ListTypes /\ WalkTypes /\ TableTypes
  BY DEF PollTypes
<1> DEFINE outcome == Outcome(items, quoted)
<1>1. /\ pc[p] = "write" /\ pc'[p] \in {"fetch", "record"}
      /\ UNCHANGED <<venue, through>>
  BY <1>0 DEF WritePage, WalkTypes
<1> SUFFICES ASSUME ok'[p], ~cut'[p], NEW m \in through[p] \cap Storable, rows'[m] = NoRow
             PROVE  Ahead(p, m)'
  BY <1>1 DEF Walks, venue, Elems, Storable, kind
<1>2. outcome # "failed"
  BY <1>0 DEF WritePage, WalkTypes
<1>3. /\ pc'[p] = IF goesOn THEN "fetch" ELSE "record"
      /\ at'[p] = buf[p].next
      /\ cut'[p] = \/ cut[p]
                   \/ outcome = "dropped"
                   \/ items # buf[p].items
                   \/ at[p] # None /\ buf[p].next = at[p]
      /\ ok' = ok
  BY <1>0, <1>2 DEF WritePage, WalkTypes
<1>4. /\ ok[p] /\ ~cut[p] /\ outcome # "dropped" /\ items = buf[p].items
      /\ ~(at[p] # None /\ buf[p].next = at[p])
  BY <1>3
<1>5. outcome = "stored" /\ ~Refuses(items)
  BY <1>2, <1>4 DEF Outcome
<1>6. Upsert(items, quoted, row)
  BY <1>5 DEF WritePage
<1>7. m \in Markets /\ kind[m] \in {"priced", "bare"}
  BY <1>0, StorableTypes
<1>8. m \notin Elems(items)
  <2> SUFFICES ASSUME m \in Elems(items) PROVE FALSE
    OBVIOUS
  <2>1. PICK i \in DOMAIN items : m = items[i]
    BY DEF Elems
  <2>2. DOMAIN items = 1 .. Len(items) /\ Len(items) \in Nat
    BY ElemsOfSeq
  <2>3. \A k \in 1 .. i : kind[items[k]] # "refused"
    BY <1>5, <2>1, <2>2 DEF Refuses, Elems
  <2>4. m \in Reached(items)
    BY <1>7, <2>1, <2>3 DEF Reached
  <2>5. rows'[m] = row[m]
    BY <1>6, <1>7, <2>4 DEF Upsert
  <2> QED
    BY <1>7, <2>5, Sizes
<1>9. rows[m] = NoRow
  BY <1>6, <1>7, <1>0, Sizes DEF Upsert
<1>10. /\ setup.venue \notin Single
       /\ buf[p].next # None
       /\ m < buf[p].next \/ buf[p].next = at[p]
  BY <1>1, <1>4, <1>8, <1>9 DEF Walks, Ahead
<1>11. m < buf[p].next /\ goesOn
  BY <1>4, <1>10
<1> QED
  BY <1>3, <1>11 DEF Ahead
\* The beginning of a walk and its end.
LEMMA WalkEnds ==
    ASSUME PollTypes, NEW p \in Procs, Walks(p),
           \/ Start(p) \/ Enrich(p) \/ PolymarketEnrichFails(p) \/ Ceiling(p)
           \/ ReadHealth(p) \/ GiveUp(p)
           \/ EndCycle(p) /\ UNCHANGED <<venue, tables>>
    PROVE  Walks(p)'
<1>0. WalkTypes
  BY DEF PollTypes
<1>1. CASE Start(p)
  <2>1. pc'[p] \in {"enrich", "fetch"} /\ at'[p] = None /\ through'[p] = Elems(listing)'
    BY <1>0, <1>1 DEF Start, Walks, WalkTypes, venue, Elems
  <2>2. \A m : Ahead(p, m)'
    BY <2>1 DEF Ahead
  <2> QED
    BY <2>1, <2>2 DEF Walks
<1>2. CASE Enrich(p) \/ PolymarketEnrichFails(p)
  <2>1. /\ pc'[p] = "fetch" /\ at'[p] = None
        /\ UNCHANGED <<venue, tables, through>>
    BY <1>0, <1>2 DEF Enrich, PolymarketEnrichFails, Walks, WalkTypes
  <2>2. \A m : Ahead(p, m)'
    BY <2>1 DEF Ahead
  <2> QED
    BY <2>1, <2>2 DEF Walks, venue, Elems
<1>3. CASE Ceiling(p)
  <2>1. pc'[p] = "record" /\ cut'[p] /\ UNCHANGED <<venue, through>>
    BY <1>0, <1>3 DEF Ceiling, WalkTypes
  <2> QED
    BY <2>1 DEF Walks, venue, Elems
<1>4. CASE ReadHealth(p)
  <2>1. /\ pc[p] = "record" /\ pc'[p] = "commit"
        /\ UNCHANGED <<venue, tables, walk>>
    BY <1>0, <1>4 DEF ReadHealth, WalkTypes
  <2>2. \A m : ~Ahead(p, m)
    BY <2>1 DEF Ahead
  <2> QED
    BY <2>1, <2>2 DEF Walks, venue, tables, walk, Elems, Storable, kind
<1>5. CASE GiveUp(p)
  <2>1. pc'[p] = "record" /\ ~ok'[p] /\ UNCHANGED <<venue, through>>
    BY <1>0, <1>5 DEF GiveUp, WalkTypes
  <2> QED
    BY <2>1 DEF Walks, venue, Elems
<1>6. CASE EndCycle(p)
  <2>1. pc'[p] = "idle" /\ at'[p] = None /\ through'[p] = {}
    BY <1>0, <1>6 DEF EndCycle, WalkTypes
  <2> QED
    BY <2>1 DEF Walks
<1> QED
  BY <1>1, <1>2, <1>3, <1>4, <1>5, <1>6

LEMMA WalkWrites ==
    ASSUME PollTypes, Keyed, NEW p \in Procs, Walks(p), Write(p) \/ ManifoldDetailFails(p)
    PROVE  Walks(p)'
<1>1. buf[p].items \in Seq(Markets) /\ buf[p].more \in BOOLEAN
  BY DEF PollTypes, WalkTypes, Pages
<1>2. {PolymarketRow(p), KalshiRow(p), AsListed} \subseteq [Markets -> Rows]
  BY DEF PolymarketRow, KalshiRow, AsListed, Rows
<1>3. CASE PolymarketPage(p) \/ KalshiPage(p)
  <2>1. Advances(p) \in BOOLEAN /\ (~Advances(p) => buf[p].next \in {None, at[p]})
    BY DEF Advances
  <2>2. \/ WritePage(p, buf[p].items, Quoted, PolymarketRow(p), Advances(p))
        \/ WritePage(p, buf[p].items, Quoted, KalshiRow(p), Advances(p))
    BY <1>3 DEF PolymarketPage, KalshiPage
  <2> QED
    BY <1>1, <1>2, <2>1, <2>2, WalkWrite
<1>4. CASE ManifoldPage(p) \/ ManifoldDetailFails(p)
  <2>1. \E items \in Seq(Markets) : WritePage(p, items, Quoted, AsListed, TRUE)
    BY <1>1, <1>4, WithoutTypes DEF ManifoldPage, ManifoldDetailFails, ManifoldRows
  <2> QED
    BY <1>2, <2>1, WalkWrite
<1>5. CASE GeminiPage(p) \/ PredictItPage(p) \/ MockPage(p)
  <2>1. setup.venue \in Single /\ WritePage(p, buf[p].items, Quoted, AsListed, FALSE)
    BY <1>5 DEF GeminiPage, PredictItPage, MockPage, Single
  <2> QED
    BY <1>1, <1>2, <2>1, WalkWrite
<1>6. CASE MetaculusPage(p) \/ ForecastExPage(p)
  BY <1>6 DEF MetaculusPage, ForecastExPage, Keyed
<1> QED
  BY <1>3, <1>4, <1>5, <1>6 DEF Write

\* What a step of p's cycle leaves alone.
LEMMA WalkAlone ==
    ASSUME WalkTypes, NEW p \in Procs, Cycle(p) \/ Failure(p)
    PROVE  /\ UNCHANGED venue
           /\ \A q \in Procs \ {p} :
                 /\ pc'[q] = pc[q] /\ at'[q] = at[q] /\ buf'[q] = buf[q]
                 /\ ok'[q] = ok[q] /\ cut'[q] = cut[q] /\ through'[q] = through[q]
<1> DEFINE Alone == UNCHANGED venue /\ \A q \in Procs \ {p} :
                 /\ pc'[q] = pc[q] /\ at'[q] = at[q] /\ buf'[q] = buf[q]
                 /\ ok'[q] = ok[q] /\ cut'[q] = cut[q] /\ through'[q] = through[q]
<1>1. ASSUME GiveUp(p) PROVE Alone
  BY <1>1 DEF GiveUp, WalkTypes
<1>2. ASSUME EndCycle(p), UNCHANGED venue PROVE Alone
  BY <1>2 DEF EndCycle, WalkTypes
<1>3. ASSUME NEW rest, NEW answer, Fetch(p, rest, answer) PROVE Alone
  BY <1>3 DEF Fetch, WalkTypes
<1>4. ASSUME NEW items, NEW quoted, NEW row, NEW goesOn,
             WritePage(p, items, quoted, row, goesOn)
      PROVE  Alone
  BY <1>4 DEF WritePage, WalkTypes
<1>5. CASE Start(p) \/ Enrich(p) \/ PolymarketEnrichFails(p) \/ Ceiling(p)
  BY <1>5 DEF Start, Enrich, PolymarketEnrichFails, Ceiling, WalkTypes
<1>6. CASE FetchPage(p)
  BY <1>3, <1>6 DEF FetchPage, PolymarketFetch, KalshiFetch, ManifoldFetch, MetaculusFetch,
     ForecastExFetch, SingleFetch
<1>7. CASE FetchEcho(p)
  BY <1>7 DEF FetchEcho, WalkTypes
<1>8. CASE Write(p) \/ ManifoldDetailFails(p)
  BY <1>4, <1>8 DEF Write, ManifoldDetailFails, PolymarketPage, KalshiPage,
     ManifoldPage, MetaculusPage, ForecastExPage, GeminiPage, PredictItPage, MockPage
<1>9. CASE ReadHealth(p)
  BY <1>9 DEF ReadHealth, walk, WalkTypes
<1>10. CASE CommitHealth(p) \/ RecordFails(p) \/ Crash(p)
  BY <1>2, <1>10 DEF CommitHealth, RecordFails, Crash
<1>11. CASE KalshiEnrichFails(p) \/ FetchFails(p) \/ WriteFails(p)
  BY <1>1, <1>11 DEF KalshiEnrichFails, FetchFails, WriteFails
<1> QED
  BY <1>5, <1>6, <1>7, <1>8, <1>9, <1>10, <1>11 DEF Cycle, Failure

LEMMA WalkStep == PollTypes /\ WalkInv /\ [Next]_vars => WalkInv'
<1> SUFFICES ASSUME PollTypes, WalkInv, [Next]_vars PROVE WalkInv'
  OBVIOUS
<1>0. WalkTypes
  BY DEF PollTypes
<1>1. CASE UNCHANGED vars
  <2>1. UNCHANGED <<venue, rows, pc, at, buf, ok, cut, through>>
    BY <1>1 DEF vars, tables, walk
  <2> QED
    BY <2>1, WalksOfOthers DEF WalkInv, Keyed, Descends, venue, Elems
<1>2. ASSUME NEW p \in Procs, Cycle(p) \/ Failure(p) PROVE WalkInv'
  <2>1. /\ UNCHANGED venue
        /\ \A q \in Procs \ {p} :
              /\ pc'[q] = pc[q] /\ at'[q] = at[q] /\ buf'[q] = buf[q]
              /\ ok'[q] = ok[q] /\ cut'[q] = cut[q] /\ through'[q] = through[q]
    BY <1>0, <1>2, WalkAlone
  <2>2. setup' = setup /\ listing' = listing
    BY <2>1 DEF venue
  <2> SUFFICES ASSUME Keyed, Descends, \A q \in Procs : Walks(q)
               PROVE  \A q \in Procs : Walks(q)'
    BY <2>2 DEF WalkInv, Keyed, Descends
  <2>3. ASSUME FetchPage(p) PROVE Walks(p)'
    BY <2>3, WalkFetch
  <2>4. ASSUME FetchEcho(p) PROVE Walks(p)'
    BY <2>4, WalkEcho
  <2>5. ASSUME Write(p) \/ ManifoldDetailFails(p) PROVE Walks(p)'
    BY <2>5, WalkWrites
  <2>6. ASSUME ~(FetchPage(p) \/ FetchEcho(p) \/ Write(p) \/ ManifoldDetailFails(p)) PROVE Walks(p)'
    <3>1. \/ Start(p) \/ Enrich(p) \/ PolymarketEnrichFails(p) \/ Ceiling(p)
          \/ ReadHealth(p) \/ GiveUp(p)
          \/ EndCycle(p) /\ UNCHANGED <<venue, tables>>
      BY <1>2, <2>6 DEF Cycle, Failure, CommitHealth, RecordFails, Crash,
         KalshiEnrichFails, FetchFails, WriteFails
    <3> QED
      BY <3>1, WalkEnds
  <2>7. Walks(p)'
    BY <2>3, <2>4, <2>5, <2>6
  <2>8. ASSUME NEW q \in Procs, q # p PROVE Walks(q)'
    <3>1. Elems(listing) \subseteq Elems(listing)'
      BY <2>2 DEF Elems
    <3>2. \A m \in Markets : rows[m] # NoRow => rows'[m] # NoRow
      BY RowsStay
    <3> QED
      BY <2>1, <2>2, <2>8, <3>1, <3>2, WalksOfOthers
  <2> QED
    BY <2>7, <2>8
<1> QED
  BY <1>1, <1>2, WalkVenue DEF Next

\* A cycle about to be recorded as a success, not cut short, has stored every
\* storable market listed from its beginning to its end: for any venue whose
\* position is a market, page size, number of processes and of markets, and
\* whatever is listed, delisted or settled between two requests.
THEOREM WalksAreComplete == SweepSpec => []WalkIsComplete
<1>1. WalkInv => WalkIsComplete
  BY DEF WalkInv, Keyed, Walks, Ahead, WalkIsComplete
<1>2. PollTypes /\ WalkInv /\ [SweepNext]_allvars => WalkInv'
  <2> SUFFICES ASSUME PollTypes, WalkInv, [SweepNext]_allvars PROVE WalkInv'
    OBVIOUS
  <2>1. CASE [Next]_vars
    BY <2>1, WalkStep
  <2>2. CASE UNCHANGED <<venue, tables, walk, pc>>
    <3>1. UNCHANGED <<rows, at, buf, ok, cut, through>>
      BY <2>2 DEF tables, walk
    <3> QED
      BY <2>2, <3>1, WalksOfOthers DEF WalkInv, Keyed, Descends, venue, Elems
  <2>3. ASSUME NEW s \in Sweepers,
               Select(s) \/ SweepCycle(s) \/ GatherSome(s) \/ WriteRowsFails(s)
        PROVE  UNCHANGED <<venue, tables, walk, pc>>
    BY <2>3 DEF Select, SweepCycle, GatherAll, WriteRows, GatherSome, WriteRowsFails, vars
  <2>4. ASSUME SelectPolymarketBooks \/ SelectKalshiBooks \/ SelectHistories
        PROVE  UNCHANGED <<venue, tables, walk, pc>>
    BY <2>4 DEF SelectPolymarketBooks, SelectKalshiBooks, SelectHistories, Select, vars
  <2> QED
    BY <2>1, <2>2, <2>3, <2>4 DEF SweepNext, allvars
<1>3. SweepInit => WalkInv
  BY InitWalks DEF SweepInit
<1> QED
  BY <1>1, <1>2, <1>3, InitSweepTypes, SweepStepTypes, PTL DEF SweepSpec
=============================================================================
