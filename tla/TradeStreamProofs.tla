--------------------------- MODULE TradeStreamProofs ---------------------------
(***************************************************************************)
(* What holds of on-demand scoring among the consumers, for any number of  *)
(* markets, indexes and worker slots: its types, that storms are bounded,  *)
(* and that a caller who waited is served a score of after the request;    *)
(* and of the consumers: that they have subscribed to what they know.      *)
(***************************************************************************)
EXTENDS TradeStream, FiniteSetTheorems, TLAPS

\* What a step of the consumer, or of its surroundings, does to scoring: it
\* may queue re-evaluations.
Outside ==
    /\ \A m \in Markets : reeval'[m] = reeval[m] \/ (reeval[m] = "none" /\ reeval'[m] = "queued")
    /\ reeval' \in [Markets -> {"none", "queued", "running"}]
    /\ UNCHANGED <<age, comps, affected, score, tick, cron, ask, wasted>>

LEMMA Sorted ==
    ASSUME DemandTypeOK, [Next]_vars
    PROVE  Outside \/ Elapse \/ DemandStep
<1>1. CASE ConsumerStep
  <2>1. UNCHANGED <<age, comps, reeval, affected, score, tick, cron, ask, wasted>>
    <3>1. ASSUME NEW T \in SUBSET Markets, Connect(T)
          PROVE  UNCHANGED <<age, comps, reeval, affected, score, tick, cron, ask, wasted>>
      BY <3>1 DEF Connect, demand
    <3> QED
      BY <1>1, <3>1 DEF ConsumerStep, NoKey, ConnectFails, StopIdling, Report, ReportFails,
                  BackedOff, Restart, demand
  <2> QED
    BY <2>1 DEF Outside, DemandTypeOK
<1>2. CASE Environment
  <2>1. ASSUME NEW E \in SUBSET Markets, Message(E) PROVE Outside
    BY <2>1 DEF Message, Outside, DemandTypeOK
  <2>2. ASSUME NEW E \in SUBSET Markets, MessageLost(E) PROVE Outside
    BY <2>2 DEF MessageLost, Outside, DemandTypeOK
  <2>3. ASSUME NEW m \in Markets, MarketOpens(m) \/ MarketCloses(m) PROVE Outside
    BY <2>3 DEF MarketOpens, MarketCloses, Outside, DemandTypeOK
  <2>4. CASE RefreshDue \/ MessageInOutage \/ DatabaseFails \/ DatabaseReturns \/ Drop \/ Crash
    BY <2>4 DEF RefreshDue, MessageInOutage, DatabaseFails, DatabaseReturns, Drop, Crash,
                Outside, DemandTypeOK, demand
  <2> QED
    BY <1>2, <2>1, <2>2, <2>3, <2>4 DEF Environment
<1>3. CASE UNCHANGED vars
  BY <1>3 DEF vars, demand, Outside, DemandTypeOK
<1> QED
  BY <1>1, <1>2, <1>3 DEF Next, TimePasses

-----------------------------------------------------------------------------
LEMMA Ages ==
    /\ 0 \in Age /\ Old \in Age
    /\ \A g \in Age : Older(g) \in Age /\ g =< Older(g) /\ g =< Old
    /\ \A g, h \in Age : g =< h => Older(g) =< Older(h)
BY OnDemandAssumption DEF Age, Older

Crons == [todo : SUBSET Indexes, at : Indexes \cup {NoIndex}, age : Age]

Asks == [at : {"idle", "wait", "succeeded", "failed"},
         index : Indexes \cup {NoIndex}, age : Age, joined : BOOLEAN]

ScoreStates == {"none", "queued", "running", "scored"}

LEMMA Blank == NoCron \in Crons /\ NoAsk \in Asks
BY Ages DEF NoCron, NoAsk, Crons, Asks

LEMMA StoresTypes ==
    ASSUME DemandTypeOK, NEW i \in Indexes, NEW g \in Age, NEW C \in Portfolios,
           StoresScore(i, g, C)
    PROVE  /\ age' \in [Indexes -> Age]
           /\ comps' \in [Indexes -> {{}} \cup Portfolios]
           /\ age'[i] = IF g < age[i] THEN g ELSE age[i]
           /\ \A j \in Indexes \ {i} : age'[j] = age[j]
BY DEF StoresScore, DemandTypeOK

LEMMA EnqueuedTypes ==
    ASSUME DemandTypeOK, NEW S
    PROVE  EnqueuedScores(S) \in [Indexes -> ScoreStates]
BY DEF EnqueuedScores, DemandTypeOK, ScoreStates

LEMMA SeesEndTypes ==
    ASSUME DemandTypeOK, NEW i \in Indexes, NEW how \in {"succeeded", "failed"}, SeesEnd(i, how)
    PROVE  ask' \in Asks
BY DEF SeesEnd, DemandTypeOK, Asks

LEMMA DemandTypeStep == DemandTypeOK /\ [Next]_vars => DemandTypeOK'
<1> SUFFICES ASSUME DemandTypeOK, [Next]_vars PROVE DemandTypeOK'
  OBVIOUS
<1> USE Ages, Blank DEF Crons, Asks, ScoreStates
<1>1. CASE Outside
  BY <1>1 DEF Outside, DemandTypeOK
<1>2. CASE Elapse
  <2>1. age' \in [Indexes -> Age] /\ tick' \in [Indexes -> Age]
    BY <1>2 DEF Elapse, DemandTypeOK
  <2>2. cron' \in Crons /\ ask' \in Asks
    BY <1>2 DEF Elapse, DemandTypeOK
  <2>3. wasted' \in [Indexes -> Nat]
    BY <1>2 DEF Elapse, DemandTypeOK
  <2> QED
    BY <1>2, <2>1, <2>2, <2>3 DEF Elapse, DemandTypeOK
<1>3. ASSUME NEW m \in Markets, ReevalReads(m) PROVE DemandTypeOK'
  <2>1. Affected(m) \in SUBSET Indexes
    BY DEF Affected, Stale
  <2> QED
    BY <1>3, <2>1 DEF ReevalReads, DemandTypeOK
<1>4. ASSUME NEW m \in Markets, ReevalEnqueues(m) PROVE DemandTypeOK'
  <2>1. wasted' \in [Indexes -> Nat]
    BY <1>4 DEF ReevalEnqueues, DemandTypeOK
  <2> QED
    BY <1>4, <2>1, EnqueuedTypes DEF ReevalEnqueues, DemandTypeOK
<1>5. ASSUME NEW m \in Markets, ReevalFails(m) PROVE DemandTypeOK'
  BY <1>5 DEF ReevalFails, DemandTypeOK
<1>6. ASSUME NEW i \in Indexes, TickStarts(i) PROVE DemandTypeOK'
  BY <1>6 DEF TickStarts, DemandTypeOK
<1>7. ASSUME NEW i \in Indexes, NEW C \in Portfolios, TickCommits(i, C) PROVE DemandTypeOK'
  <2>1. tick[i] \in Age
    BY DEF DemandTypeOK
  <2>2. age' \in [Indexes -> Age] /\ comps' \in [Indexes -> {{}} \cup Portfolios]
    BY <1>7, <2>1, StoresTypes DEF TickCommits
  <2> QED
    BY <1>7, <2>2 DEF TickCommits, DemandTypeOK
<1>8. ASSUME NEW i \in Indexes, TickCompletes(i) PROVE DemandTypeOK'
  BY <1>8, SeesEndTypes DEF TickCompletes, DemandTypeOK
<1>9. ASSUME NEW i \in Indexes, TickFails(i) PROVE DemandTypeOK'
  <2>1. ask' \in Asks
    BY <1>9, SeesEndTypes DEF TickFails, DemandTypeOK
  <2>2. score' \in [Indexes -> ScoreStates] /\ tick' \in [Indexes -> Age]
    BY <1>9 DEF TickFails, DemandTypeOK
  <2> QED
    BY <1>9, <2>1, <2>2 DEF TickFails, DemandTypeOK
<1>10. CASE ScoreAllStarts \/ \E S \in SUBSET Indexes \ {{}} : ReevalDriftedStarts(S)
  <2>1. cron' \in Crons
    BY <1>10 DEF ScoreAllStarts, ReevalDriftedStarts, DemandTypeOK
  <2> QED
    BY <1>10, <2>1 DEF ScoreAllStarts, ReevalDriftedStarts, DemandTypeOK
<1>11. ASSUME NEW i \in Indexes, CronTick(i) PROVE DemandTypeOK'
  BY <1>11 DEF CronTick, DemandTypeOK
<1>12. ASSUME NEW C \in Portfolios, CronCommits(C) PROVE DemandTypeOK'
  <2>1. cron.at \in Indexes /\ cron.age \in Age
    BY <1>12 DEF CronCommits, DemandTypeOK
  <2>2. age' \in [Indexes -> Age] /\ comps' \in [Indexes -> {{}} \cup Portfolios]
    BY <1>12, <2>1, StoresTypes DEF CronCommits
  <2>3. cron' \in Crons
    BY <1>12 DEF CronCommits, DemandTypeOK
  <2> QED
    BY <1>12, <2>2, <2>3 DEF CronCommits, DemandTypeOK
<1>13. CASE CronFails
  BY <1>13 DEF CronFails, DemandTypeOK
<1>14. ASSUME NEW i \in Indexes, RefreshScore(i) PROVE DemandTypeOK'
  BY <1>14, EnqueuedTypes DEF RefreshScore, DemandTypeOK
<1>15. ASSUME NEW i \in Indexes, NEW limit \in 0 .. Old - 1, AskAndWait(i, limit)
       PROVE  DemandTypeOK'
  <2>1. ask' \in Asks
    BY <1>15 DEF AskAndWait
  <2> QED
    BY <1>15, <2>1, EnqueuedTypes DEF AskAndWait, DemandTypeOK
<1>16. CASE Answer \/ NoAnswer
  BY <1>16 DEF Answer, NoAnswer, DemandTypeOK
<1> QED
  BY <1>1, <1>2, <1>3, <1>4, <1>5, <1>6, <1>7, <1>8, <1>9, <1>10, <1>11, <1>12, <1>13,
     <1>14, <1>15, <1>16, Sorted DEF DemandStep

LEMMA InitDemandTypes == Init => DemandTypeOK
<1> SUFFICES ASSUME Init PROVE DemandTypeOK
  OBVIOUS
<1> QED
  BY Ages, Blank DEF Init, DemandInit, DemandTypeOK, Crons, Asks

LEMMA DemandTypesInvariant == Spec => []DemandTypeOK
BY InitDemandTypes, DemandTypeStep, PTL DEF Spec

-----------------------------------------------------------------------------
(* Storms.  A job that will enqueue a row for a fresh score has read the       *)
(* scores before the tick that made it fresh committed.  That tick had a       *)
(* worker slot, so there are fewer such jobs than slots; each is used up by    *)
(* the row it inserts, and no job that reads later joins them.                 *)

CronSlot == IF cron = NoCron THEN 0 ELSE 1

Slots == Cardinality(Running) + Cardinality(Scoring) + CronSlot =< Concurrency

Holding(i) == {m \in Running : i \in affected[m]}

Storms ==
    \A i \in Indexes :
        /\ age[i] = Old => wasted[i] = 0
        /\ age[i] < Old => wasted[i] + Cardinality(Holding(i)) < Concurrency

Finite ==
    /\ IsFiniteSet(Running) /\ Cardinality(Running) \in Nat
    /\ IsFiniteSet(Scoring) /\ Cardinality(Scoring) \in Nat
    /\ \A i \in Indexes :
          /\ IsFiniteSet(Holding(i)) /\ Cardinality(Holding(i)) \in Nat
          /\ Cardinality(Holding(i)) =< Cardinality(Running)

LEMMA Sizes == Finite
<1>1. Running \in SUBSET Markets /\ Scoring \in SUBSET Indexes
  BY DEF Running, Scoring
<1>2. IsFiniteSet(Running) /\ IsFiniteSet(Scoring)
  BY <1>1, FS_Subset, OnDemandAssumption
<1>3. \A i \in Indexes : Holding(i) \in SUBSET Running
  BY DEF Holding
<1> QED
  BY <1>2, <1>3, FS_Subset, FS_CardinalityType DEF Finite

LEMMA NextSizes == Finite'
BY Sizes, PTL

\* A step that starts nothing and makes no score fresh.
LEMMA Calm ==
    ASSUME DemandTypeOK, Slots, Storms, Running' \subseteq Running, Scoring' \subseteq Scoring,
           CronSlot' =< CronSlot,
           \A i \in Indexes : age[i] = Old <=> age'[i] = Old,
           \A i \in Indexes : wasted'[i] = wasted[i],
           age' \in [Indexes -> Age],
           \A m \in Running' : affected'[m] = affected[m]
    PROVE  Slots' /\ Storms'
<1>1. Cardinality(Running') =< Cardinality(Running) /\ Cardinality(Scoring') =< Cardinality(Scoring)
  BY Sizes, FS_Subset DEF Finite
<1>2. CronSlot \in {0, 1} /\ CronSlot' \in {0, 1}
  BY DEF CronSlot
<1>3. Slots'
  BY <1>1, <1>2, Sizes, NextSizes, OnDemandAssumption DEF Slots, Finite
<1>4. Storms'
  <2> SUFFICES ASSUME NEW i \in Indexes
               PROVE  /\ age'[i] = Old => wasted'[i] = 0
                      /\ age'[i] < Old => wasted'[i] + Cardinality(Holding(i)') < Concurrency
    BY DEF Storms, Holding
  <2>1. Holding(i)' \in SUBSET Holding(i)
    BY DEF Holding
  <2>2. Cardinality(Holding(i)') =< Cardinality(Holding(i))
    BY <2>1, Sizes, FS_Subset DEF Finite
  <2>3. age[i] \in Age /\ age'[i] \in Age /\ wasted[i] \in Nat
    BY DEF DemandTypeOK
  <2>4. age'[i] < Old => age[i] < Old
    BY <2>3, OnDemandAssumption DEF Age
  <2> QED
    BY <2>2, <2>3, <2>4, Sizes, NextSizes, OnDemandAssumption DEF Storms, Finite
<1> QED
  BY <1>3, <1>4

\* Rows that are queued occupy no slot.
LEMMA EnqueuedOccupyNone ==
    ASSUME DemandTypeOK, NEW S, score' = EnqueuedScores(S)
    PROVE  Scoring' = Scoring
BY DEF EnqueuedScores, Scoring, DemandTypeOK

\* Holding is a matter of two variables.
LEMMA SameHolders ==
    ASSUME UNCHANGED <<reeval, affected>>
    PROVE  Running' = Running /\ \A i \in Indexes : Holding(i)' = Holding(i)
BY DEF Running, Holding

LEMMA StoreKeeps ==
    ASSUME DemandTypeOK, Storms, NEW i \in Indexes, NEW g \in Age, NEW C \in Portfolios,
           StoresScore(i, g, C), UNCHANGED <<reeval, affected, wasted>>,
           Cardinality(Running) < Concurrency
    PROVE  Storms'
<1> SUFFICES ASSUME NEW j \in Indexes
             PROVE  /\ age'[j] = Old => wasted'[j] = 0
                    /\ age'[j] < Old => wasted'[j] + Cardinality(Holding(j)') < Concurrency
  BY DEF Storms, Holding
<1>1. age[j] \in Age /\ age'[j] \in Age /\ wasted[j] \in Nat /\ wasted'[j] = wasted[j]
  BY StoresTypes DEF DemandTypeOK
<1>2. Holding(j)' = Holding(j)
  BY SameHolders
<1>3. age'[j] =< age[j]
  BY <1>1, StoresTypes DEF Age
<1>4. CASE age[j] = Old
  <2>1. wasted[j] = 0 /\ Cardinality(Holding(j)) < Concurrency
    BY <1>4, Sizes, OnDemandAssumption DEF Storms, Finite
  <2> QED
    BY <1>1, <1>2, <2>1, Sizes, OnDemandAssumption DEF Finite
<1>5. CASE age[j] # Old
  <2>1. age[j] < Old /\ age'[j] < Old
    BY <1>1, <1>3, <1>5, OnDemandAssumption DEF Age
  <2>2. age'[j] # Old
    BY <1>1, <2>1 DEF Age
  <2> QED
    BY <1>1, <1>2, <2>1, <2>2 DEF Storms
<1> QED
  BY <1>4, <1>5

LEMMA ElapseKeeps ==
    ASSUME DemandTypeOK, Slots, Storms, Elapse
    PROVE  Slots' /\ Storms'
<1>1. UNCHANGED <<reeval, affected, score>>
  BY DEF Elapse
<1>2. Running' = Running /\ Scoring' = Scoring /\ \A i \in Indexes : Holding(i)' = Holding(i)
  BY <1>1, SameHolders DEF Scoring
<1>3. cron = NoCron => cron' = NoCron
  <2> SUFFICES ASSUME cron = NoCron PROVE cron' = NoCron
    OBVIOUS
  <2>1. Older(Old) = Old
    BY OnDemandAssumption DEF Older
  <2>2. cron' = [cron EXCEPT !.age = Older(cron.age)]
    BY DEF Elapse
  <2> QED
    BY <2>1, <2>2 DEF NoCron
<1>4. Slots'
  BY <1>2, <1>3, Sizes, OnDemandAssumption DEF Slots, CronSlot, Finite
<1>5. Storms'
  <2> SUFFICES ASSUME NEW i \in Indexes
               PROVE  /\ age'[i] = Old => wasted'[i] = 0
                      /\ age'[i] < Old => wasted'[i] + Cardinality(Holding(i)') < Concurrency
    BY DEF Storms, Holding
  <2>1. age'[i] = Older(age[i]) /\ age[i] \in Age
    BY DEF Elapse, DemandTypeOK
  <2>2. wasted'[i] = IF age'[i] = Old THEN 0 ELSE wasted[i]
    BY DEF Elapse
  <2>3. age'[i] < Old => age[i] < Old
    BY <2>1, Ages, OnDemandAssumption DEF Age
  <2>4. CASE age'[i] = Old
    BY <2>2, <2>4, OnDemandAssumption
  <2>5. CASE age'[i] # Old
    BY <1>2, <2>2, <2>3, <2>5 DEF Storms
  <2> QED
    BY <2>4, <2>5
<1> QED
  BY <1>4, <1>5

\* A job that reads now holds no index whose score is fresh.
LEMMA ReadKeeps ==
    ASSUME DemandTypeOK, Slots, Storms, NEW m \in Markets, ReevalReads(m)
    PROVE  Slots' /\ Storms'
<1>1. Running' = Running \cup {m} /\ m \notin Running
  BY DEF ReevalReads, Running, DemandTypeOK
<1>2. Cardinality(Running') = Cardinality(Running) + 1
  BY <1>1, Sizes, FS_AddElement DEF Finite
<1>3. UNCHANGED <<age, score, cron, wasted>>
  BY DEF ReevalReads
<1>4. Slots'
  BY <1>2, <1>3, Sizes, OnDemandAssumption DEF ReevalReads, SlotFree, Slots, CronSlot, Scoring, Finite
<1>5. ASSUME NEW i \in Indexes, age[i] < Old PROVE Holding(i)' = Holding(i)
  <2>1. i \notin affected'[m]
    BY <1>5, OnDemandAssumption DEF ReevalReads, Affected, Stale, DemandTypeOK, Age
  <2>2. \A n \in Running : affected'[n] = affected[n]
    BY <1>1 DEF ReevalReads, DemandTypeOK, Running
  <2> QED
    BY <1>1, <2>1, <2>2 DEF Holding
<1>6. Storms'
  BY <1>3, <1>5 DEF Storms, Holding
<1> QED
  BY <1>4, <1>6

\* A job that enqueues holds nothing any more: one row more, one holder less.
LEMMA EnqueueKeeps ==
    ASSUME DemandTypeOK, Slots, Storms, NEW m \in Markets, ReevalEnqueues(m)
    PROVE  Slots' /\ Storms'
<1>1. Running' = Running \ {m} /\ m \in Running
  BY DEF ReevalEnqueues, Running, DemandTypeOK
<1>2. Cardinality(Running') = Cardinality(Running) - 1
  BY <1>1, Sizes, FS_RemoveElement DEF Finite
<1>3. UNCHANGED <<age, cron>> /\ Scoring' = Scoring
  BY EnqueuedOccupyNone DEF ReevalEnqueues
<1>4. Slots'
  BY <1>2, <1>3, Sizes, OnDemandAssumption DEF Slots, CronSlot, Finite
<1>5. Storms'
  <2> SUFFICES ASSUME NEW i \in Indexes
               PROVE  /\ age'[i] = Old => wasted'[i] = 0
                      /\ age'[i] < Old => wasted'[i] + Cardinality(Holding(i)') < Concurrency
    BY DEF Storms, Holding
  <2>1. age'[i] = age[i] /\ age[i] \in Age /\ wasted[i] \in Nat
    BY <1>3 DEF DemandTypeOK
  <2>2. wasted'[i] = IF score[i] = "none" /\ i \in affected[m] /\ age[i] < Old
                     THEN wasted[i] + 1 ELSE wasted[i]
    BY DEF ReevalEnqueues
  <2>3. Holding(i)' = Holding(i) \ {m}
    BY <1>1 DEF ReevalEnqueues, Holding, DemandTypeOK, Running
  <2>4. Cardinality(Holding(i)') = IF m \in Holding(i) THEN Cardinality(Holding(i)) - 1
                                   ELSE Cardinality(Holding(i))
    BY <2>3, Sizes, FS_RemoveElement DEF Finite
  <2>5. i \in affected[m] => m \in Holding(i)
    BY <1>1 DEF Holding
  <2> QED
    BY <2>1, <2>2, <2>4, <2>5, Sizes, OnDemandAssumption DEF Storms, Finite, Age
<1> QED
  BY <1>4, <1>5

LEMMA TickStartKeeps ==
    ASSUME DemandTypeOK, Slots, Storms, NEW i \in Indexes, TickStarts(i)
    PROVE  Slots' /\ Storms'
<1>1. Scoring' = Scoring \cup {i} /\ i \notin Scoring
  BY DEF TickStarts, Scoring, DemandTypeOK
<1>2. Cardinality(Scoring') = Cardinality(Scoring) + 1
  BY <1>1, Sizes, FS_AddElement DEF Finite
<1>3. UNCHANGED <<age, reeval, affected, cron, wasted>>
  BY DEF TickStarts
<1>4. Running' = Running /\ \A j \in Indexes : Holding(j)' = Holding(j)
  BY <1>3, SameHolders
<1>5. Slots'
  BY <1>2, <1>3, <1>4, Sizes, OnDemandAssumption DEF TickStarts, SlotFree, Slots, CronSlot, Finite
<1>6. Storms'
  BY <1>3, <1>4 DEF Storms, Holding
<1> QED
  BY <1>5, <1>6

\* Whoever commits a score has a slot.
LEMMA CommitKeeps ==
    ASSUME DemandTypeOK, Slots, Storms, NEW C \in Portfolios,
           CronCommits(C) \/ \E i \in Indexes : TickCommits(i, C)
    PROVE  Slots' /\ Storms'
<1>1. CASE CronCommits(C)
  <2>1. cron.at \in Indexes /\ cron.age \in Age /\ cron # NoCron
    BY <1>1 DEF CronCommits, DemandTypeOK, NoCron
  <2>2. Cardinality(Running) < Concurrency
    BY <2>1, Sizes, OnDemandAssumption DEF Slots, CronSlot, Finite
  <2>3. UNCHANGED <<reeval, affected, wasted, score>> /\ StoresScore(cron.at, cron.age, C)
    BY <1>1 DEF CronCommits
  <2>4. Storms'
    BY <2>1, <2>2, <2>3, StoreKeeps
  <2>5. Running' = Running /\ Scoring' = Scoring /\ CronSlot' =< 1 /\ CronSlot = 1
    BY <2>1, <2>3, SameHolders DEF Scoring, CronSlot
  <2>6. CronSlot' \in {0, 1}
    BY DEF CronSlot
  <2>7. Slots'
    BY <2>5, <2>6, Sizes, OnDemandAssumption DEF Slots, Finite
  <2> QED
    BY <2>4, <2>7
<1>2. ASSUME NEW i \in Indexes, TickCommits(i, C) PROVE Slots' /\ Storms'
  <2>1. tick[i] \in Age /\ i \in Scoring
    BY <1>2 DEF TickCommits, DemandTypeOK, Scoring
  <2>2. Cardinality(Scoring) # 0
    BY <2>1, Sizes, FS_EmptySet DEF Finite
  <2>3. Cardinality(Running) < Concurrency
    BY <2>2, Sizes, OnDemandAssumption DEF Slots, CronSlot, Finite
  <2>4. UNCHANGED <<reeval, affected, wasted, cron>> /\ StoresScore(i, tick[i], C)
    BY <1>2 DEF TickCommits
  <2>5. Storms'
    BY <2>1, <2>3, <2>4, StoreKeeps
  <2>6. Running' = Running /\ Scoring' = Scoring /\ CronSlot' = CronSlot
    BY <1>2, <2>4, SameHolders DEF TickCommits, Scoring, CronSlot, DemandTypeOK
  <2>7. Slots'
    BY <2>6 DEF Slots
  <2> QED
    BY <2>5, <2>7
<1> QED
  BY <1>1, <1>2

\* The schedule takes a slot when it starts.
LEMMA CronStartKeeps ==
    ASSUME DemandTypeOK, Slots, Storms,
           ScoreAllStarts \/ \E S \in SUBSET Indexes \ {{}} : ReevalDriftedStarts(S)
    PROVE  Slots' /\ Storms'
<1>1. UNCHANGED <<age, reeval, affected, score, wasted>> /\ SlotFree /\ cron = NoCron
  BY DEF ScoreAllStarts, ReevalDriftedStarts
<1>2. Running' = Running /\ Scoring' = Scoring /\ \A i \in Indexes : Holding(i)' = Holding(i)
  BY <1>1, SameHolders DEF Scoring
<1>3. CronSlot' \in {0, 1}
  BY DEF CronSlot
<1>4. Slots'
  BY <1>1, <1>2, <1>3, Sizes, OnDemandAssumption DEF Slots, SlotFree, Finite
<1>5. Storms'
  BY <1>1, <1>2 DEF Storms, Holding
<1> QED
  BY <1>4, <1>5

LEMMA StormStep == DemandTypeOK /\ Slots /\ Storms /\ [Next]_vars => Slots' /\ Storms'
<1> SUFFICES ASSUME DemandTypeOK, Slots, Storms, [Next]_vars PROVE Slots' /\ Storms'
  OBVIOUS
<1>0. age' \in [Indexes -> Age] /\ CronSlot \in {0, 1} /\ CronSlot' \in {0, 1}
  BY DemandTypeStep DEF DemandTypeOK, CronSlot
<1>1. CASE Outside
  <2>1. Running' = Running
    BY <1>1 DEF Outside, Running
  <2>2. UNCHANGED <<age, affected, score, cron, wasted>>
    BY <1>1 DEF Outside
  <2> QED
    BY <1>0, <2>1, <2>2, Calm DEF Scoring, CronSlot
<1>2. ASSUME NEW m \in Markets, ReevalFails(m) PROVE Slots' /\ Storms'
  <2>1. Running' \subseteq Running /\ \A n \in Running' : affected'[n] = affected[n]
    BY <1>2 DEF ReevalFails, Running, DemandTypeOK
  <2>2. UNCHANGED <<age, score, cron, wasted>>
    BY <1>2 DEF ReevalFails
  <2> QED
    BY <1>0, <2>1, <2>2, Calm DEF Scoring, CronSlot
<1>3. ASSUME NEW i \in Indexes, TickCompletes(i) \/ TickFails(i) PROVE Slots' /\ Storms'
  <2>1. Scoring' \subseteq Scoring
    BY <1>3 DEF TickCompletes, TickFails, Scoring, DemandTypeOK
  <2>2. UNCHANGED <<age, reeval, affected, cron, wasted>>
    BY <1>3 DEF TickCompletes, TickFails
  <2> QED
    BY <1>0, <2>1, <2>2, Calm DEF Running, CronSlot
<1>4. CASE CronFails \/ \E i \in Indexes : CronTick(i)
  <2>1. cron # NoCron
    BY <1>4 DEF CronFails, CronTick, NoCron
  <2>2. CronSlot' =< CronSlot
    BY <1>0, <2>1 DEF CronSlot
  <2>3. UNCHANGED <<age, reeval, affected, score, wasted>>
    BY <1>4 DEF CronFails, CronTick
  <2> QED
    BY <1>0, <2>2, <2>3, Calm DEF Running, Scoring
<1>5. ASSUME NEW i \in Indexes, RefreshScore(i) \/ \E limit \in 0 .. Old - 1 : AskAndWait(i, limit)
      PROVE  Slots' /\ Storms'
  <2>1. Scoring' = Scoring
    BY <1>5, EnqueuedOccupyNone DEF RefreshScore, AskAndWait
  <2>2. UNCHANGED <<age, reeval, affected, cron, wasted>>
    BY <1>5 DEF RefreshScore, AskAndWait
  <2> QED
    BY <1>0, <2>1, <2>2, Calm DEF Running, CronSlot
<1>6. CASE Answer \/ NoAnswer
  <2>1. UNCHANGED <<age, reeval, affected, score, cron, wasted>>
    BY <1>6 DEF Answer, NoAnswer
  <2> QED
    BY <1>0, <2>1, Calm DEF Running, Scoring, CronSlot
<1> QED
  BY <1>1, <1>2, <1>3, <1>4, <1>5, <1>6, Sorted, ElapseKeeps, ReadKeeps, EnqueueKeeps,
     TickStartKeeps, CommitKeeps, CronStartKeeps DEF DemandStep

LEMMA InitStorms == Init => Slots /\ Storms
<1> SUFFICES ASSUME Init PROVE Slots /\ Storms
  OBVIOUS
<1>1. Running = {} /\ Scoring = {} /\ CronSlot = 0
  BY DEF Init, DemandInit, Running, Scoring, CronSlot
<1>2. Slots
  BY <1>1, FS_EmptySet, OnDemandAssumption DEF Slots
<1>3. Storms
  BY OnDemandAssumption DEF Init, DemandInit, Storms
<1> QED
  BY <1>2, <1>3

LEMMA StormInvariant == Spec => [](DemandTypeOK /\ Slots /\ Storms)
BY InitDemandTypes, InitStorms, DemandTypeStep, StormStep, PTL DEF Spec

\* Scores, queue rows, the schedule and callers keep their types.
THEOREM DemandTypes == Spec => []DemandTypeOK
BY DemandTypesInvariant, PTL

\* While a score is fresh, re-evaluations insert fewer rows for its index than
\* there are worker slots, whatever trades, fails, restarts or is scheduled.
THEOREM StormsBounded == Spec => []StormBounded
<1>1. DemandTypeOK /\ Storms => StormBounded
  <2> SUFFICES ASSUME DemandTypeOK, Storms, NEW i \in Indexes PROVE wasted[i] < Concurrency
    BY DEF StormBounded
  <2>1. age[i] \in Age /\ wasted[i] \in Nat
    BY DEF DemandTypeOK
  <2> QED
    BY <2>1, Sizes, OnDemandAssumption DEF Storms, Finite, Age
<1> QED
  BY <1>1, StormInvariant, PTL

-----------------------------------------------------------------------------
(* Waiting callers.  The row a caller waits for cannot go away without being   *)
(* seen to end.  If it was not yet running when the caller came, its tick      *)
(* starts, and its score dates, after the request.                             *)

Served ==
    /\ ask.at # "idle" => ask.index \in Indexes
    /\ ask.at = "wait" => score[ask.index] # "none"
    /\ ~ask.joined /\ ask.at = "wait" =>
          /\ score[ask.index] = "running" => tick[ask.index] =< ask.age
          /\ score[ask.index] = "scored" => age[ask.index] =< ask.age
    /\ ~ask.joined /\ ask.at = "succeeded" => age[ask.index] =< ask.age

\* A step that leaves the caller and the rows alone, and makes scores no older.
LEMMA Undisturbed ==
    ASSUME DemandTypeOK, Served, UNCHANGED <<ask, score, tick>>,
           \A i \in Indexes : age'[i] =< age[i],
           age' \in [Indexes -> Age]
    PROVE  Served'
<1> SUFFICES ASSUME ask.at # "idle" PROVE Served'
  BY DEF Served
<1>1. ask.index \in Indexes
  BY DEF Served
<1>2. age'[ask.index] =< age[ask.index] /\ age[ask.index] \in Nat /\ age'[ask.index] \in Nat
      /\ ask.age \in Nat
  BY <1>1 DEF DemandTypeOK, Age
<1>3. age[ask.index] =< ask.age => age'[ask.index] =< ask.age
  BY <1>2
<1> QED
  BY <1>1, <1>3 DEF Served

\* Enqueueing disturbs nobody: a row that is there stays as it is.
LEMMA EnqueueServes ==
    ASSUME DemandTypeOK, Served, NEW S, score' = EnqueuedScores(S), UNCHANGED <<ask, tick, age>>
    PROVE  Served'
<1>1. \A i \in Indexes : score[i] # "none" => score'[i] = score[i]
  BY DEF EnqueuedScores
<1>2. ask.at # "idle" => ask.index \in Indexes
  BY DEF Served
<1> QED
  BY <1>1, <1>2 DEF Served

LEMMA ServedStep == DemandTypeOK /\ Served /\ [Next]_vars => Served'
<1> SUFFICES ASSUME DemandTypeOK, Served, [Next]_vars PROVE Served'
  OBVIOUS
<1>0. /\ DemandTypeOK'
      /\ \A i \in Indexes : age[i] \in Age /\ tick[i] \in Age
      /\ ask \in Asks
      /\ \A g \in Age : g =< g
  BY DemandTypeStep DEF DemandTypeOK, Asks, Age
<1>1. CASE Outside
  BY <1>0, <1>1, Undisturbed DEF Outside, DemandTypeOK
<1>2. CASE Elapse
  <2>1. ask' = [ask EXCEPT !.age = Older(ask.age)] /\ ask.age \in Age
    BY <1>0, <1>2 DEF Elapse, Asks
  <2>2. /\ ask'.at = ask.at /\ ask'.index = ask.index /\ ask'.joined = ask.joined
        /\ ask'.age = Older(ask.age)
    BY <1>0, <2>1 DEF Asks
  <2>3. \A i \in Indexes : age'[i] = Older(age[i]) /\ tick'[i] = Older(tick[i])
    BY <1>2 DEF Elapse
  <2>4. \A i \in Indexes :
          /\ age[i] =< ask.age => age'[i] =< ask'.age
          /\ tick[i] =< ask.age => tick'[i] =< ask'.age
    BY <1>0, <2>1, <2>2, <2>3, Ages
  <2>5. score' = score
    BY <1>2 DEF Elapse
  <2>6. CASE ask.at = "idle"
    BY <2>2, <2>6 DEF Served
  <2>7. CASE ask.at # "idle"
    <3>1. ask'.index = ask.index /\ ask.index \in Indexes
      BY <2>2, <2>7 DEF Served
    <3>2. /\ age[ask.index] =< ask.age => age'[ask.index] =< ask'.age
          /\ tick[ask.index] =< ask.age => tick'[ask.index] =< ask'.age
      BY <2>4, <3>1
    <3> QED
      BY <2>2, <2>5, <3>1, <3>2 DEF Served
  <2> QED
    BY <2>6, <2>7
<1>3. ASSUME NEW m \in Markets, ReevalReads(m) \/ ReevalFails(m) PROVE Served'
  BY <1>0, <1>3, Undisturbed DEF ReevalReads, ReevalFails, DemandTypeOK
<1>4. ASSUME NEW m \in Markets, ReevalEnqueues(m) PROVE Served'
  BY <1>4, EnqueueServes DEF ReevalEnqueues
<1>5. ASSUME NEW i \in Indexes, TickStarts(i) PROVE Served'
  <2>1. /\ score[i] = "queued" /\ score'[i] = "running" /\ tick'[i] = 0
        /\ \A j \in Indexes \ {i} : score'[j] = score[j] /\ tick'[j] = tick[j]
        /\ UNCHANGED <<ask, age>>
    BY <1>5 DEF TickStarts, DemandTypeOK
  <2>2. 0 =< ask.age
    BY <1>0 DEF Asks, Age
  <2> QED
    BY <2>1, <2>2 DEF Served
<1>6. ASSUME NEW i \in Indexes, NEW C \in Portfolios, TickCommits(i, C) PROVE Served'
  <2>1. /\ score[i] = "running" /\ score'[i] = "scored"
        /\ \A j \in Indexes \ {i} : score'[j] = score[j] /\ tick'[j] = tick[j]
        /\ ask' = ask
    BY <1>6 DEF TickCommits, DemandTypeOK
  <2>2. /\ age'[i] = IF tick[i] < age[i] THEN tick[i] ELSE age[i]
        /\ \A j \in Indexes \ {i} : age'[j] = age[j]
    BY <1>0, <1>6, StoresTypes DEF TickCommits
  <2>3. tick[i] =< ask.age => age'[i] =< ask.age
    BY <1>0, <2>2 DEF Age, Asks
  <2>4. age[i] =< ask.age => age'[i] =< ask.age
    BY <1>0, <2>2 DEF Age, Asks
  <2> QED
    BY <2>1, <2>2, <2>3, <2>4 DEF Served
<1>7. ASSUME NEW i \in Indexes, TickCompletes(i) \/ TickFails(i) PROVE Served'
  <2>1. /\ \A j \in Indexes \ {i} : score'[j] = score[j] /\ tick'[j] = tick[j]
        /\ age' = age
    BY <1>7 DEF TickCompletes, TickFails, DemandTypeOK
  <2>2. CASE TickFails(i) /\ UNCHANGED ask /\ score' = [score EXCEPT ![i] = "queued"]
    <3>1. score'[i] = "queued"
      BY <2>2 DEF DemandTypeOK
    <3> QED
      BY <2>1, <2>2, <3>1 DEF Served
  <2>3. CASE \E how \in {"succeeded", "failed"} :
                /\ SeesEnd(i, how)
                /\ how = "succeeded" => score[i] = "scored"
    <3>1. CASE ask.at = "wait" /\ ask.index = i
      <4>1. /\ ask'.index = ask.index /\ ask'.joined = ask.joined /\ ask'.age = ask.age
            /\ ask'.at = "failed" \/ (ask'.at = "succeeded" /\ score[i] = "scored")
        BY <1>0, <2>3, <3>1 DEF SeesEnd, Asks
      <4> QED
        BY <2>1, <3>1, <4>1 DEF Served
    <3>2. CASE ~(ask.at = "wait" /\ ask.index = i)
      <4>1. ask' = ask
        BY <2>3, <3>2 DEF SeesEnd
      <4> QED
        BY <2>1, <3>2, <4>1 DEF Served
    <3> QED
      BY <3>1, <3>2
  <2> QED
    BY <1>7, <2>2, <2>3 DEF TickCompletes, TickFails
<1>8. CASE \/ ScoreAllStarts \/ CronFails \/ \E S \in SUBSET Indexes \ {{}} : ReevalDriftedStarts(S)
           \/ \E i \in Indexes : CronTick(i)
  <2>1. UNCHANGED <<ask, score, tick, age>>
    BY <1>8 DEF ScoreAllStarts, CronFails, ReevalDriftedStarts, CronTick
  <2> QED
    BY <1>0, <2>1, Undisturbed DEF DemandTypeOK
<1>9. ASSUME NEW C \in Portfolios, CronCommits(C) PROVE Served'
  <2>1. cron.at \in Indexes /\ cron.age \in Age
    BY <1>9 DEF CronCommits, DemandTypeOK
  <2>2. \A i \in Indexes : age'[i] =< age[i]
    BY <1>0, <1>9, <2>1, StoresTypes DEF CronCommits, Age
  <2> QED
    BY <1>0, <1>9, <2>2, Undisturbed DEF CronCommits, DemandTypeOK
<1>10. ASSUME NEW i \in Indexes, RefreshScore(i) PROVE Served'
  BY <1>10, EnqueueServes DEF RefreshScore
<1>11. ASSUME NEW i \in Indexes, NEW limit \in 0 .. Old - 1, AskAndWait(i, limit) PROVE Served'
  <2>1. score'[i] = (IF score[i] = "none" THEN "queued" ELSE score[i])
    BY <1>11 DEF AskAndWait, EnqueuedScores
  <2>2. /\ ask'.at = "wait" /\ ask'.index = i
        /\ ask'.joined = (score[i] \in {"running", "scored"})
    BY <1>11 DEF AskAndWait
  <2> QED
    BY <2>1, <2>2 DEF Served
<1>12. CASE Answer \/ NoAnswer
  <2>1. ask'.at = "idle"
    BY <1>12 DEF Answer, NoAnswer, NoAsk
  <2> QED
    BY <2>1 DEF Served
<1> QED
  BY <1>1, <1>2, <1>3, <1>4, <1>5, <1>6, <1>7, <1>8, <1>9, <1>10, <1>11, <1>12, Sorted
     DEF DemandStep

LEMMA InitServed == Init => Served
BY DEF Init, DemandInit, NoAsk, Served

LEMMA ServedInvariant == Spec => [](DemandTypeOK /\ Served)
BY InitDemandTypes, InitServed, DemandTypeStep, ServedStep, PTL DEF Spec

\* Who waited for a recompute is served a score computed from data of after the
\* request, unless the request joined a tick that was already running.
THEOREM WaitersServedNewer == Spec => WaitedAnswerIsNewer
<1>1. Served => (Answer => ask.joined \/ age[ask.index] =< ask.age)
  BY DEF Served, Answer, Ended
<1>2. Served /\ [Next]_vars => [Answer => ask.joined \/ age[ask.index] =< ask.age]_demand
  BY <1>1
<1> QED
  BY <1>2, ServedInvariant, PTL DEF Spec, WaitedAnswerIsNewer
-----------------------------------------------------------------------------
(* The consumer.  Trades of tokens that it does not know are dropped, and  *)
(* those of tokens that it knows but has not subscribed to never come:     *)
(* what it knows has to be among what it subscribed to, although a refresh *)
(* replaces the one and only adds to the other.                            *)

Follows ==
    /\ pc = "reading" => tokens \subseteq subscribed
    /\ pc # "reading" => subscribed = {}
    /\ Cardinality(tokens) =< Cap

StreamInv == StreamTypeOK /\ Follows

LEMMA TokensLoaded ==
    ASSUME StreamTypeOK, NEW T \in ActiveTokens
    PROVE  T \subseteq Markets /\ Cardinality(T) =< Cap
<1>1. T \subseteq open /\ open \subseteq Markets
  BY DEF ActiveTokens, StreamTypeOK
<1>2. Cardinality(T) \in Nat
  BY <1>1, FS_Subset, FS_CardinalityType, OnDemandAssumption
<1> QED
  BY <1>1, <1>2, StreamAssumption DEF ActiveTokens

LEMMA ComponentsLoaded ==
    ASSUME DemandTypeOK
    PROVE  ComponentMarkets \subseteq Markets
<1>1. \A i \in Indexes : comps[i] \subseteq Markets
  BY OnDemandAssumption DEF DemandTypeOK
<1> QED
  BY <1>1 DEF ComponentMarkets

LEMMA NothingLoaded == Cardinality({}) =< Cap /\ Cool \in [Markets -> 0 .. Debounce]
BY FS_EmptySet, StreamAssumption DEF Cool

LEMMA InitStream == Init => StreamInv
<1> SUFFICES ASSUME Init PROVE StreamInv
  OBVIOUS
<1>1. PICK s \in Setups : venue = s.venue /\ open = s.open
  BY DEF Init
<1> QED
  BY <1>1, InitDemandTypes, NothingLoaded, StreamAssumption
     DEF Init, StreamInv, StreamTypeOK, Follows

\* What the refresh after a message leaves.
LEMMA TimersChecked ==
    ASSUME StreamInv, pc = "reading", CheckTimers
    PROVE  /\ tokens' \subseteq subscribed' /\ subscribed' \subseteq Markets
           /\ tokens' \subseteq Markets /\ components' \subseteq Markets
           /\ Cardinality(tokens') =< Cap /\ due' \in BOOLEAN
<1> USE DEF StreamInv, Follows, StreamTypeOK
<1>1. CASE due
  <2>1. PICK T \in ActiveTokens :
           /\ tokens' = T /\ components' = ComponentMarkets
           /\ subscribed' = Resubscribed(T) /\ due' = FALSE
    BY <1>1 DEF CheckTimers
  <2>2. T \subseteq Markets /\ Cardinality(T) =< Cap
    BY TokensLoaded
  <2>3. T \subseteq Resubscribed(T) /\ Resubscribed(T) \subseteq Markets
    BY <2>2 DEF Resubscribed
  <2> QED
    BY <2>1, <2>2, <2>3, ComponentsLoaded
<1>2. CASE ~due
  BY <1>2 DEF CheckTimers
<1> QED
  BY <1>1, <1>2

LEMMA StreamStep == StreamInv /\ [Next]_vars => StreamInv'
<1> SUFFICES ASSUME StreamInv, [Next]_vars PROVE StreamInv'
  OBVIOUS
<1>1. DemandTypeOK /\ DemandTypeOK'
  BY DemandTypeStep DEF StreamInv, StreamTypeOK
<1> HIDE DEF DemandTypeOK
<1> USE <1>1 DEF StreamInv, Follows, StreamTypeOK
<1>2. ASSUME UNCHANGED stream PROVE StreamInv'
  BY <1>2 DEF stream, memory
<1>3. CASE NoKey \/ StopIdling \/ Report \/ BackedOff \/ Restart \/ ConnectFails
  BY <1>3 DEF NoKey, StopIdling, Report, BackedOff, Restart, ConnectFails, memory
<1>4. ASSUME NEW T \in SUBSET Markets, Connect(T) PROVE StreamInv'
  <2>1. T \in ActiveTokens
    BY <1>4 DEF Connect
  <2>2. Cardinality(T) =< Cap
    BY <2>1, TokensLoaded
  <2>3. T = {} => pc' = "idle" /\ subscribed' = {}
    BY <1>4 DEF Connect
  <2> QED
    BY <1>4, <2>2, <2>3, ComponentsLoaded DEF Connect
<1>5. CASE ReportFails \/ Crash
  BY <1>5, NothingLoaded DEF ReportFails, Crash, Exit
<1>6. ASSUME NEW m \in Markets, MarketOpens(m) \/ MarketCloses(m) PROVE StreamInv'
  BY <1>6 DEF MarketOpens, MarketCloses, memory
<1>7. CASE RefreshDue \/ MessageInOutage \/ DatabaseFails \/ DatabaseReturns \/ Drop
  BY <1>7 DEF RefreshDue, MessageInOutage, DatabaseFails, DatabaseReturns, Drop, memory
<1>8. ASSUME NEW E \in SUBSET Markets, Message(E) \/ MessageLost(E) PROVE StreamInv'
  <2>1. PICK S : SetClock(S)
    BY <1>8 DEF Message, MessageLost
  <2>2. clock' \in [Markets -> 0 .. Debounce]
    BY <2>1, StreamAssumption DEF SetClock
  <2>3. pc = "reading" /\ CheckTimers /\ UNCHANGED <<venue, open, db, pc>>
    BY <1>8 DEF Message, MessageLost
  <2> QED
    BY <2>2, <2>3, TimersChecked
<1>9. CASE TimePasses
  <2>1. clock' \in [Markets -> 0 .. Debounce]
    BY <1>9, StreamAssumption DEF TimePasses
  <2> QED
    BY <1>9, <2>1 DEF TimePasses
<1>10. CASE UNCHANGED vars
  BY <1>2, <1>10 DEF vars
<1>11. CASE ConsumerStep
  BY <1>3, <1>4, <1>5, <1>11 DEF ConsumerStep
<1>12. CASE Environment
  BY <1>5, <1>6, <1>7, <1>8, <1>12 DEF Environment
<1> QED
  BY <1>2, <1>9, <1>10, <1>11, <1>12 DEF Next

\* A consumer that reads has subscribed to every market whose trades it would
\* keep, knows no more markets than its cap, and is sent nothing when it does
\* not read: a refresh that changes its list, a lost connection and a restart
\* leave no market that it believes to follow and does not.
THEOREM StreamTypes == Spec => [](StreamTypeOK /\ Follows)
<1>1. Spec => []StreamInv
  BY InitStream, StreamStep, PTL DEF Spec
<1> QED
  BY <1>1, PTL DEF StreamInv
=============================================================================
