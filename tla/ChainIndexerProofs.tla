------------------------- MODULE ChainIndexerProofs -------------------------
(***************************************************************************)
(* Proofs about ChainIndexer for any number of indexers and any chain:     *)
(* type correctness, the events as a gapless trail (an implementation of   *)
(* ChainTrail), that trades and counters are explained by it, and how far  *)
(* the counters can be off.                                                *)
(***************************************************************************)
EXTENDS ChainIndexer, FiniteSetTheorems, TLAPS

LEMMA LogTypes ==
    ASSUME NEW l \in Logs
    PROVE  /\ l.block \in Nat
           /\ l.idx \in Nat
           /\ l.maker \in Wallets \cup {NoWallet}
           /\ l.taker \in Wallets \cup {NoWallet}
BY ChainAssumption

\* At most one log is first: block number and log index identify a log.
LEMMA FirstIsUnique ==
    ASSUME NEW i \in Indexers, todo[i] \subseteq Logs,
           NEW k, NEW l, First(i, k), First(i, l)
    PROVE  k = l
<1>1. k \in Logs /\ l \in Logs /\ ~Before(k, l) /\ ~Before(l, k)
  BY DEF First
<1>2. k.block = l.block /\ k.idx = l.idx
  BY <1>1, LogTypes DEF Before
<1> QED
  BY <1>1, <1>2, ChainAssumption

-----------------------------------------------------------------------------
(* Types, and what is known of the log an indexer is in the middle of *)

Current(i) ==
    stmt[i] # "event" =>
        /\ pc[i] = "write"
        /\ \E l \in todo[i] :
              /\ First(i, l)
              /\ l \in Fills
              /\ l.token # NoToken
              /\ l \in events \cup newEvents[i]
              /\ stmt[i] # "trade" => l \in trades \cup newTrades[i]

TypeInv == TypeOK /\ \A i \in Indexers : Current(i)

\* The statement at hand is about the current log.
LEMMA CurrentLog ==
    ASSUME TypeInv, NEW i \in Indexers, NEW l \in Logs, NEW s, At(i, l, s),
           s # "event"
    PROVE  /\ l \in Fills
           /\ l.token # NoToken
           /\ l \in events \cup newEvents[i]
           /\ s # "trade" => l \in trades \cup newTrades[i]
<1>1. PICK k \in todo[i] : /\ First(i, k)
                           /\ k \in Fills
                           /\ k.token # NoToken
                           /\ k \in events \cup newEvents[i]
                           /\ stmt[i] # "trade" => k \in trades \cup newTrades[i]
  BY DEF TypeInv, Current, At
<1>2. k = l
  BY <1>1, FirstIsUnique DEF TypeInv, TypeOK, At
<1> QED
  BY <1>1, <1>2 DEF At

LEMMA TypeStart == Init => TypeInv
<1> SUFFICES ASSUME Init PROVE TypeInv
  OBVIOUS
<1>1. TypeOK
  BY DEF Init, TypeOK, NoBumps, Cold
<1>2. \A i \in Indexers : Current(i)
  BY DEF Init, Current
<1> QED
  BY <1>1, <1>2 DEF TypeInv

\* Current of the indexers that a step leaves alone.
LEMMA CurrentOfOthers ==
    ASSUME NEW j \in Indexers, Current(j),
           pc'[j] = pc[j], stmt'[j] = stmt[j], todo'[j] = todo[j],
           newEvents'[j] = newEvents[j], newTrades'[j] = newTrades[j],
           events \subseteq events', trades \subseteq trades'
    PROVE  Current(j)'
<1> SUFFICES ASSUME stmt[j] # "event" PROVE Current(j)'
  BY DEF Current
<1>1. PICK l \in todo[j] : /\ First(j, l)
                           /\ l \in Fills
                           /\ l.token # NoToken
                           /\ l \in events \cup newEvents[j]
                           /\ stmt[j] # "trade" => l \in trades \cup newTrades[j]
  BY DEF Current
<1>2. First(j, l)'
  BY <1>1 DEF First
<1>3. pc'[j] = "write"
  BY DEF Current
<1> QED
  BY <1>1, <1>2, <1>3 DEF Current

LEMMA TypeStep == TypeInv /\ [Next]_vars => TypeInv'
<1> SUFFICES ASSUME TypeInv, [Next]_vars PROVE TypeInv'
  OBVIOUS
<1> USE DEF TypeInv
<1>1. CASE UNCHANGED vars
  BY <1>1 DEF TypeOK, Current, First, vars, chain, tables, cycle, txn
<1>2. CASE NewBlock
  BY <1>2 DEF NewBlock, TypeOK, Current, First, chain, tables, cycle, txn
<1>3. ASSUME NEW t \in Tokens, MarketListed(t) PROVE TypeInv'
  BY <1>3 DEF MarketListed, TypeOK, Current, First, chain, tables, cycle, txn
<1>4. ASSUME NEW i \in Indexers, StartCycle(i) PROVE TypeInv'
  <2>1. TypeOK'
    BY <1>4, ChainAssumption DEF StartCycle, TypeOK, Cold, chain, tables, cycle, txn
  <2>2. ASSUME NEW j \in Indexers PROVE Current(j)'
    <3>1. CASE j = i
      BY <1>4, <3>1 DEF StartCycle, TypeOK, Current
    <3>2. CASE j # i
      BY <1>4, <3>2, CurrentOfOthers DEF StartCycle, TypeOK, tables, txn
    <3> QED
      BY <3>1, <3>2
  <2> QED
    BY <2>1, <2>2
<1>5. ASSUME NEW i \in Indexers, ReadCursor(i) PROVE TypeInv'
  <2> PICK b \in {StartBlock} \cup 0 .. MaxBlock + 1 :
        /\ pc[i] = "cursor"
        /\ IF Least(scan[i], b + Chunk * Chunks - 1) < b
           THEN pc' = [pc EXCEPT ![i] = "idle"] /\ UNCHANGED <<pos, last>>
           ELSE /\ pc' = [pc EXCEPT ![i] = "fetch"]
                /\ pos' = [pos EXCEPT ![i] = b]
                /\ last' = [last EXCEPT ![i] = Least(scan[i], b + Chunk * Chunks - 1)]
        /\ scan' = [scan EXCEPT ![i] = 0]
        /\ UNCHANGED <<chain, tables, todo, stmt, cache, txn, faults>>
    BY <1>5 DEF ReadCursor
  <2>1. b \in Nat /\ Chunk * Chunks \in Nat /\ Chunk * Chunks >= 1
    BY ChainAssumption
  <2>2. Least(scan[i], b + Chunk * Chunks - 1) \in Nat
    BY <2>1 DEF Least, TypeOK
  <2>3. TypeOK'
    <3>1. CASE Least(scan[i], b + Chunk * Chunks - 1) < b
      BY <3>1 DEF TypeOK, chain, tables, txn
    <3>2. CASE ~(Least(scan[i], b + Chunk * Chunks - 1) < b)
      BY <3>2, <2>1, <2>2 DEF TypeOK, chain, tables, txn
    <3> QED
      BY <3>1, <3>2
  <2>4. ASSUME NEW j \in Indexers PROVE Current(j)'
    <3>1. CASE j = i
      BY <3>1 DEF TypeOK, Current
    <3>2. CASE j # i
      BY <3>2, CurrentOfOthers DEF TypeOK, tables, txn
    <3> QED
      BY <3>1, <3>2
  <2> QED
    BY <2>3, <2>4
<1>6. ASSUME NEW i \in Indexers, FetchLogs(i) PROVE TypeInv'
  <2>1. TypeOK'
    <3> DEFINE logs == {l \in Logs : InChunk(i, l)}
    <3>1. logs \in SUBSET Logs
      OBVIOUS
    <3>2. CASE pos' = [pos EXCEPT ![i] = @ + Chunk] /\ UNCHANGED <<pc, todo>>
      <4>1. pos' \in [Indexers -> Nat]
        BY <3>2, ChainAssumption DEF TypeOK
      <4> QED
        BY <1>6, <3>2, <4>1 DEF FetchLogs, TypeOK, chain, tables, txn
    <3>3. CASE todo' = [todo EXCEPT ![i] = logs]
               /\ pc' = [pc EXCEPT ![i] = "write"] /\ pos' = pos
      <4>1. todo' \in [Indexers -> SUBSET Logs]
        BY <3>1, <3>3 DEF TypeOK
      <4>2. pc' \in [Indexers -> {"idle", "cursor", "fetch", "write"}]
        BY <3>3 DEF TypeOK
      <4> QED
        BY <1>6, <3>3, <4>1, <4>2 DEF FetchLogs, TypeOK, chain, tables, txn
    <3> QED
      BY <1>6, <3>2, <3>3 DEF FetchLogs
  <2>2. ASSUME NEW j \in Indexers PROVE Current(j)'
    <3>1. CASE j = i
      BY <1>6, <3>1 DEF FetchLogs, TypeOK, Current
    <3>2. CASE j # i
      BY <1>6, <3>2, CurrentOfOthers DEF FetchLogs, TypeOK, tables, txn
    <3> QED
      BY <3>1, <3>2
  <2> QED
    BY <2>1, <2>2
<1>7. ASSUME NEW i \in Indexers, EndCycle(i) PROVE TypeInv'
  <2>1. TypeOK'
    BY <1>7 DEF EndCycle, TypeOK, chain, tables, txn
  <2>2. ASSUME NEW j \in Indexers PROVE Current(j)'
    <3>1. CASE j = i
      BY <1>7, <3>1 DEF EndCycle, TypeOK, Current
    <3>2. CASE j # i
      BY <1>7, <3>2, CurrentOfOthers DEF EndCycle, TypeOK, tables, txn
    <3> QED
      BY <3>1, <3>2
  <2> QED
    BY <2>1, <2>2
<1>8. ASSUME NEW i \in Indexers, NEW l \in Logs, HandleLog(i, l) PROVE TypeInv'
  <2>a. ASSUME NEW w \in Wallets \cup {NoWallet}, Upsert(i, w)
         PROVE  bumps' \in [Indexers -> [Wallets -> Nat]]
    <3>1. CASE w = NoWallet /\ bumps' = bumps
      BY <3>1 DEF TypeOK
    <3>2. CASE w # NoWallet /\ bumps' = [bumps EXCEPT ![i][w] = @ + 1]
      <4>1. bumps[i] \in [Wallets -> Nat] /\ w \in Wallets
        BY <3>2 DEF TypeOK
      <4>2. bumps' = [bumps EXCEPT ![i] = [bumps[i] EXCEPT ![w] = bumps[i][w] + 1]]
        BY <3>2
      <4>3. [bumps[i] EXCEPT ![w] = bumps[i][w] + 1] \in [Wallets -> Nat]
        BY <4>1
      <4> QED
        BY <4>2, <4>3 DEF TypeOK
    <3> QED
      BY <2>a, <3>1, <3>2 DEF Upsert
  <2>0. /\ TypeOK'
        /\ Current(i)'
    <3>a. ASSUME NextLog(i, l)
          PROVE  /\ stmt' \in [Indexers -> {"event", "trade", "maker", "taker"}]
                 /\ todo' \in [Indexers -> SUBSET Logs]
                 /\ Current(i)'
      BY <3>a DEF NextLog, TypeOK, Current
    <3>b. ASSUME NEW s \in {"trade", "maker", "taker"}, GoOn(i, s)
           PROVE  /\ stmt' \in [Indexers -> {"event", "trade", "maker", "taker"}]
                  /\ todo' \in [Indexers -> SUBSET Logs]
      BY <3>b DEF GoOn, TypeOK
    <3>1. CASE Skip(i, l)
      BY <3>a, <3>1 DEF Skip, TypeOK, chain, tables, cycle, txn
    <3>2. CASE InsertEvent(i, l)
      <4>0. newEvents' \in [Indexers -> SUBSET Handled]
        BY <3>2 DEF InsertEvent, TypeOK
      <4>1. TypeOK'
        BY <3>a, <3>b, <3>2, <4>0 DEF InsertEvent, TypeOK, chain, tables, cycle
      <4>2. CASE l.kind = "fill" /\ l.token # NoToken
        <5>1. First(i, l) /\ todo'[i] = todo[i] /\ pc'[i] = "write" /\ stmt'[i] = "trade"
          BY <3>2, <4>2 DEF InsertEvent, GoOn, At, TypeOK
        <5>2. First(i, l)' /\ l \in todo'[i]
          BY <5>1 DEF First
        <5>3. l \in (events \cup newEvents[i])'
          BY <3>2 DEF InsertEvent, TypeOK, tables
        <5>4. l \in Fills
          BY <4>2 DEF Fills
        <5>5. Current(i)'
          BY <4>2, <5>1, <5>2, <5>3, <5>4 DEF Current
        <5> QED
          BY <4>1, <5>5
      <4>3. CASE ~(l.kind = "fill" /\ l.token # NoToken)
        BY <3>a, <3>2, <4>1, <4>3 DEF InsertEvent
      <4> QED
        BY <4>1, <4>2, <4>3
    <3>3. CASE MarketUnknown(i, l)
      <4>1. cache' \in [Indexers -> [Tokens -> {"cold", "none", "market"}]]
        BY <3>3 DEF MarketUnknown, LookUp, TypeOK
      <4> QED
        BY <3>a, <3>3, <4>1 DEF MarketUnknown, TypeOK, chain, tables, cycle, txn
    <3>4. CASE InsertTrade(i, l)
      <4>1. l \in Fills /\ l.token # NoToken /\ l \in events \cup newEvents[i]
        BY <3>4, CurrentLog DEF InsertTrade
      <4>0. /\ cache' \in [Indexers -> [Tokens -> {"cold", "none", "market"}]]
            /\ newTrades' \in [Indexers -> SUBSET Fills]
        BY <3>4, <4>1 DEF InsertTrade, LookUp, TypeOK
      <4>2. TypeOK'
        BY <3>b, <3>4, <4>0 DEF InsertTrade, TypeOK, chain, tables, cycle
      <4>3. First(i, l) /\ todo'[i] = todo[i] /\ pc'[i] = "write" /\ stmt'[i] = "maker"
        BY <3>4 DEF InsertTrade, GoOn, At, TypeOK
      <4>4. First(i, l)' /\ l \in todo'[i]
        BY <4>3 DEF First
      <4>5. l \in (events \cup newEvents[i])' /\ l \in (trades \cup newTrades[i])'
        BY <3>4, <4>1 DEF InsertTrade, TypeOK, tables
      <4> QED
        BY <4>1, <4>2, <4>3, <4>4, <4>5 DEF Current
    <3>5. CASE UpsertMaker(i, l)
      <4>1. /\ l \in Fills
            /\ l.token # NoToken
            /\ l \in events \cup newEvents[i]
            /\ l \in trades \cup newTrades[i]
        BY <3>5, CurrentLog DEF UpsertMaker
      <4>0. bumps' \in [Indexers -> [Wallets -> Nat]]
        BY <2>a, <3>5, LogTypes DEF UpsertMaker
      <4>2. TypeOK'
        BY <3>b, <3>5, <4>0 DEF UpsertMaker, TypeOK, chain, tables, cycle
      <4>3. First(i, l) /\ todo'[i] = todo[i] /\ pc'[i] = "write" /\ stmt'[i] = "taker"
        BY <3>5 DEF UpsertMaker, GoOn, At, TypeOK
      <4>4. First(i, l)' /\ l \in todo'[i]
        BY <4>3 DEF First
      <4>5. l \in (events \cup newEvents[i])' /\ l \in (trades \cup newTrades[i])'
        BY <3>5, <4>1 DEF UpsertMaker, tables
      <4> QED
        BY <4>1, <4>2, <4>3, <4>4, <4>5 DEF Current
    <3>6. CASE UpsertTaker(i, l)
      <4>1. bumps' \in [Indexers -> [Wallets -> Nat]]
        BY <2>a, <3>6, LogTypes DEF UpsertTaker
      <4> QED
        BY <3>a, <3>6, <4>1 DEF UpsertTaker, TypeOK, chain, tables, cycle
    <3> QED
      BY <1>8, <3>1, <3>2, <3>3, <3>4, <3>5, <3>6 DEF HandleLog
  <2>1. ASSUME NEW j \in Indexers, j # i PROVE Current(j)'
    <3>1. /\ pc'[j] = pc[j] /\ stmt'[j] = stmt[j] /\ todo'[j] = todo[j]
          /\ newEvents'[j] = newEvents[j] /\ newTrades'[j] = newTrades[j]
          /\ events' = events /\ trades' = trades
      BY <1>8, <2>1 DEF HandleLog, Skip, InsertEvent, MarketUnknown, InsertTrade,
           UpsertMaker, UpsertTaker, GoOn, NextLog, TypeOK, tables, txn
    <3> QED
      BY <3>1, CurrentOfOthers
  <2> QED
    BY <2>0, <2>1
<1>9. ASSUME NEW i \in Indexers, CommitChunk(i) PROVE TypeInv'
  <2>1. TypeOK'
    BY <1>9, ChainAssumption DEF CommitChunk, CloseTxn, TypeOK, NoBumps, chain
  <2>2. ASSUME NEW j \in Indexers PROVE Current(j)'
    <3>1. CASE j = i
      BY <1>9, <3>1 DEF CommitChunk, TypeOK, Current
    <3>2. CASE j # i
      <4>1. /\ pc'[j] = pc[j] /\ stmt'[j] = stmt[j] /\ todo'[j] = todo[j]
            /\ newEvents'[j] = newEvents[j] /\ newTrades'[j] = newTrades[j]
            /\ events \subseteq events' /\ trades \subseteq trades'
        BY <1>9, <3>2 DEF CommitChunk, CloseTxn, TypeOK
      <4> QED
        BY <4>1, CurrentOfOthers
    <3> QED
      BY <3>1, <3>2
  <2> QED
    BY <2>1, <2>2
<1>10. ASSUME NEW i \in Indexers, GiveUp(i), faults' \in {faults, faults + 1},
             UNCHANGED <<chain, tables, cache>>
       PROVE TypeInv'
  <2>1. TypeOK'
    BY <1>10 DEF GiveUp, CloseTxn, TypeOK, NoBumps, chain, tables
  <2>2. ASSUME NEW j \in Indexers PROVE Current(j)'
    <3>1. CASE j = i
      BY <1>10, <3>1 DEF GiveUp, TypeOK, Current
    <3>2. CASE j # i
      <4>1. /\ pc'[j] = pc[j] /\ stmt'[j] = stmt[j] /\ todo'[j] = todo[j]
            /\ newEvents'[j] = newEvents[j] /\ newTrades'[j] = newTrades[j]
            /\ events' = events /\ trades' = trades
        BY <1>10, <3>2 DEF GiveUp, CloseTxn, TypeOK, tables
      <4> QED
        BY <4>1, CurrentOfOthers
    <3> QED
      BY <3>1, <3>2
  <2> QED
    BY <2>1, <2>2
<1>11. ASSUME NEW i \in Indexers, Fail(i) \/ Deadlocked(i) PROVE TypeInv'
  BY <1>10, <1>11 DEF Fail, Deadlocked
<1> QED
  BY <1>1, <1>2, <1>3, <1>4, <1>5, <1>6, <1>7, <1>8, <1>9, <1>11 DEF Next, Step

\* Type correctness of any number of overlapping indexers on any chain.
THEOREM IndexerTypes == Spec => []TypeOK
<1>1. TypeInv => TypeOK
  BY DEF TypeInv
<1> QED
  BY <1>1, TypeStart, TypeStep, PTL DEF Spec

-----------------------------------------------------------------------------
(* The events have no holes *)

\* What indexer i knows of the chain between its cursor and its position, and
\* of the chunk it is writing.
Progress(i) ==
    /\ pc[i] # "write" => newEvents[i] = {}
    /\ pc[i] \in {"fetch", "write"} =>
          /\ pos[i] >= StartBlock
          /\ \A l \in Handled :
                StartBlock <= l.block /\ l.block < pos[i] /\ l.block <= last[i]
                    => l \in events
    /\ pc[i] = "write" =>
          /\ pos[i] <= last[i]
          /\ \A l \in todo[i] \cup newEvents[i] : InChunk(i, l)
          /\ \A l \in Handled : InChunk(i, l) => l \in todo[i] \cup newEvents[i] \cup events

Gapless ==
    /\ \A l \in events : StartBlock <= l.block
    /\ Trail!NoHoles(events)
    /\ \A i \in Indexers : Progress(i)

LEMMA GaplessStart == Init => Gapless
BY DEF Init, Gapless, Progress, Trail!NoHoles

LEMMA ChunkTypes ==
    ASSUME TypeOK, NEW i \in Indexers
    PROVE  /\ pos[i] \in Nat
           /\ last[i] \in Nat
           /\ scan[i] \in Nat
           /\ Chunk \in Nat \ {0}
           /\ StartBlock \in Nat
           /\ events \subseteq Handled
           /\ newEvents[i] \subseteq Handled
           /\ todo[i] \subseteq Logs
           /\ \A l \in Logs : l.block \in Nat
BY LogTypes, ChainAssumption DEF TypeOK

\* What an indexer knows stays true while others add events.
LEMMA ProgressOfOthers ==
    ASSUME NEW j \in Indexers, Progress(j),
           pc'[j] = pc[j], pos'[j] = pos[j], last'[j] = last[j],
           todo'[j] = todo[j], newEvents'[j] = newEvents[j],
           events \subseteq events'
    PROVE  Progress(j)'
BY DEF Progress, InChunk

\* A step of i that writes no event needs to be looked at for i only.
LEMMA GaplessByOne ==
    ASSUME Gapless, events' = events, NEW i \in Indexers, Progress(i)',
           \A j \in Indexers \ {i} :
              /\ pc'[j] = pc[j] /\ pos'[j] = pos[j] /\ last'[j] = last[j]
              /\ todo'[j] = todo[j] /\ newEvents'[j] = newEvents[j]
    PROVE  Gapless'
<1>1. ASSUME NEW j \in Indexers PROVE Progress(j)'
  <2>1. CASE j = i
    BY <2>1
  <2>2. CASE j # i
    BY <2>2, ProgressOfOthers DEF Gapless
  <2> QED
    BY <2>1, <2>2
<1> QED
  BY <1>1 DEF Gapless, Trail!NoHoles

\* The cursor: every log before the block it names has its row.
LEMMA CursorIsSound ==
    ASSUME TypeOK, Gapless, NEW b, FirstBlock(b)
    PROVE  /\ b \in Nat
           /\ b >= StartBlock
           /\ \A l \in Handled : StartBlock <= l.block /\ l.block < b => l \in events
<1>1. CASE events = {} /\ b = StartBlock
  BY <1>1, LogTypes, ChainAssumption DEF Handled
<1>2. CASE \E m \in events : b = m.block + 1
  <2>1. PICK m \in events : b = m.block + 1
    BY <1>2
  <2>2. m \in Handled /\ m.block \in Nat /\ m.block >= StartBlock
    BY LogTypes DEF TypeOK, Gapless, Handled
  <2>3. ASSUME NEW l \in Handled, StartBlock <= l.block, l.block < b
        PROVE  l \in events
    <3>1. l.block <= m.block
      BY <2>1, <2>2, <2>3, LogTypes DEF Handled
    <3> QED
      BY <2>3, <3>1 DEF Gapless, Trail!NoHoles
  <2> QED
    BY <2>1, <2>2, <2>3, ChainAssumption
<1> QED
  BY <1>1, <1>2 DEF FirstBlock

LEMMA GaplessRead ==
    ASSUME TypeOK, Gapless, NEW i \in Indexers, ReadCursor(i)
    PROVE  Gapless'
<1>1. PICK b \in {StartBlock} \cup 0 .. MaxBlock + 1 :
        /\ pc[i] = "cursor"
        /\ FirstBlock(b)
        /\ \/ pc' = [pc EXCEPT ![i] = "idle"] /\ UNCHANGED <<pos, last>>
           \/ /\ pc' = [pc EXCEPT ![i] = "fetch"]
              /\ pos' = [pos EXCEPT ![i] = b]
              /\ \E e : last' = [last EXCEPT ![i] = e]
        /\ UNCHANGED <<tables, todo, txn>>
  BY DEF ReadCursor
<1>2. newEvents[i] = {}
  BY <1>1 DEF Gapless, Progress
<1>3. Progress(i)'
  BY <1>1, <1>2, CursorIsSound DEF Progress, TypeOK, tables, txn
<1> QED
  BY <1>1, <1>3, GaplessByOne DEF TypeOK, tables, txn

LEMMA GaplessFetch ==
    ASSUME TypeOK, Gapless, NEW i \in Indexers, FetchLogs(i)
    PROVE  Gapless'
<1> DEFINE logs == {l \in Logs : InChunk(i, l)}
<1>1. /\ pc[i] = "fetch"
      /\ pos[i] <= last[i]
      /\ UNCHANGED <<tables, last, txn>>
  BY DEF FetchLogs
<1>2. /\ newEvents[i] = {}
      /\ pos[i] >= StartBlock
      /\ \A l \in Handled :
            StartBlock <= l.block /\ l.block < pos[i] /\ l.block <= last[i]
                => l \in events
  BY <1>1 DEF Gapless, Progress
<1>3. CASE /\ logs = {}
           /\ pos' = [pos EXCEPT ![i] = @ + Chunk]
           /\ UNCHANGED <<pc, todo>>
  <2>1. pos'[i] = pos[i] + Chunk /\ pc'[i] = "fetch" /\ last'[i] = last[i]
    BY <1>1, <1>3 DEF TypeOK
  <2>2. pos'[i] >= StartBlock
    BY <1>2, <2>1, ChunkTypes
  <2>3. ASSUME NEW l \in Handled, StartBlock <= l.block, l.block < pos'[i], l.block <= last[i]
        PROVE  l \in events
    <3>1. ~(pos[i] <= l.block)
      BY <1>3, <2>1, <2>3, ChunkTypes DEF InChunk, Least, Handled
    <3> QED
      BY <1>2, <2>3, <3>1, ChunkTypes DEF Handled
  <2>4. Progress(i)'
    BY <1>1, <1>2, <2>1, <2>2, <2>3 DEF Progress, tables, txn
  <2> QED
    BY <1>1, <1>3, <2>4, GaplessByOne DEF TypeOK, tables, txn
<1>4. CASE /\ todo' = [todo EXCEPT ![i] = logs]
           /\ pc' = [pc EXCEPT ![i] = "write"]
           /\ pos' = pos
  <2>1. pos'[i] = pos[i] /\ pc'[i] = "write" /\ last'[i] = last[i] /\ todo'[i] = logs
    BY <1>1, <1>4 DEF TypeOK
  <2>2. \A l : InChunk(i, l)' <=> InChunk(i, l)
    BY <2>1 DEF InChunk
  <2>3. Progress(i)'
    BY <1>1, <1>2, <2>1, <2>2 DEF Progress, tables, txn, Handled
  <2> QED
    BY <1>1, <1>4, <2>3, GaplessByOne DEF TypeOK, tables, txn
<1> QED
  BY <1>3, <1>4 DEF FetchLogs

\* A log leaves todo when its event is there, or when it is not handled.
LEMMA GaplessHandle ==
    ASSUME TypeInv, Gapless, NEW i \in Indexers, NEW l \in Logs, HandleLog(i, l)
    PROVE  Gapless'
<1>1. /\ pc[i] = "write" /\ pc' = pc /\ pos' = pos /\ last' = last
      /\ l \in todo[i] /\ events' = events
  BY DEF HandleLog, Skip, InsertEvent, MarketUnknown, InsertTrade, UpsertMaker,
     UpsertTaker, At, First, cycle, tables
<1>2. \A k : InChunk(i, k)' <=> InChunk(i, k)
  BY <1>1 DEF InChunk
<1>3. /\ todo[i] \ {l} \subseteq todo'[i]
      /\ todo'[i] \subseteq todo[i]
      /\ newEvents[i] \subseteq newEvents'[i]
      /\ newEvents'[i] \subseteq newEvents[i] \cup {l}
      /\ l \in Handled => l \in todo'[i] \cup newEvents'[i] \cup events
      /\ \A j \in Indexers \ {i} : todo'[j] = todo[j] /\ newEvents'[j] = newEvents[j]
  <2>1. CASE Skip(i, l)
    BY <2>1 DEF Skip, NextLog, TypeInv, TypeOK, txn
  <2>2. CASE InsertEvent(i, l)
    <3>1. /\ newEvents'[i] = newEvents[i] \cup ({l} \ events)
          /\ \A j \in Indexers \ {i} : newEvents'[j] = newEvents[j]
      BY <2>2 DEF InsertEvent, TypeInv, TypeOK
    <3>2. todo' = todo \/ todo' = [todo EXCEPT ![i] = @ \ {l}]
      BY <2>2 DEF InsertEvent, GoOn, NextLog
    <3> QED
      BY <3>1, <3>2 DEF TypeInv, TypeOK
  <2>3. CASE InsertTrade(i, l) \/ UpsertMaker(i, l)
    BY <1>1, <2>3 DEF InsertTrade, UpsertMaker, GoOn
  <2>4. CASE MarketUnknown(i, l) \/ UpsertTaker(i, l)
    <3>1. l \in events \cup newEvents[i]
      BY <2>4, CurrentLog DEF MarketUnknown, UpsertTaker
    <3>2. newEvents' = newEvents /\ todo' = [todo EXCEPT ![i] = @ \ {l}]
      BY <2>4 DEF MarketUnknown, UpsertTaker, NextLog, txn
    <3> QED
      BY <3>1, <3>2 DEF TypeInv, TypeOK
  <2> QED
    BY <2>1, <2>2, <2>3, <2>4 DEF HandleLog
<1>4. Progress(i)
  BY DEF Gapless
<1>5. Progress(i)'
  <2>1. \A k \in (todo[i] \cup newEvents[i])' : InChunk(i, k)'
    BY <1>1, <1>2, <1>3, <1>4 DEF Progress
  <2>2. ASSUME NEW k \in Handled, InChunk(i, k)
        PROVE  k \in todo'[i] \cup newEvents'[i] \cup events
    BY <1>1, <1>3, <1>4, <2>2 DEF Progress
  <2> QED
    BY <1>1, <1>2, <1>4, <2>1, <2>2 DEF Progress
<1> QED
  BY <1>1, <1>3, <1>5, GaplessByOne

\* A chunk is committed whole, and everything before it is there.
LEMMA GaplessCommit ==
    ASSUME TypeOK, Gapless, NEW i \in Indexers, CommitChunk(i)
    PROVE  Gapless'
<1>1. /\ pc[i] = "write" /\ todo[i] = {} /\ events' = events \cup newEvents[i]
      /\ pos' = [pos EXCEPT ![i] = @ + Chunk] /\ pc' = [pc EXCEPT ![i] = "fetch"]
      /\ newEvents' = [newEvents EXCEPT ![i] = {}]
      /\ UNCHANGED <<last, todo>>
  BY DEF CommitChunk, CloseTxn
<1>2. /\ pos[i] >= StartBlock
      /\ pos[i] <= last[i]
      /\ \A l \in Handled :
            StartBlock <= l.block /\ l.block < pos[i] /\ l.block <= last[i]
                => l \in events
      /\ \A l \in newEvents[i] : InChunk(i, l)
      /\ \A l \in Handled : InChunk(i, l) => l \in newEvents[i] \cup events
  BY <1>1 DEF Gapless, Progress
<1>3. \A l \in events' : StartBlock <= l.block
  <2>1. \A l \in newEvents[i] : StartBlock <= l.block
    BY <1>2, ChunkTypes DEF InChunk, Handled
  <2> QED
    BY <1>1, <2>1 DEF Gapless
\* Up to the end of the chunk nothing is missing.
<1>4. ASSUME NEW l \in Handled, StartBlock <= l.block, l.block <= last[i],
             l.block <= pos[i] + Chunk - 1
      PROVE  l \in events'
  <2>1. CASE l.block < pos[i]
    BY <1>1, <1>2, <1>4, <2>1
  <2>2. CASE ~(l.block < pos[i])
    <3>1. InChunk(i, l)
      BY <1>4, <2>2, ChunkTypes DEF InChunk, Least, Handled
    <3> QED
      BY <1>1, <1>2, <3>1
  <2> QED
    BY <2>1, <2>2
<1>5. Trail!NoHoles(events)'
  <2> SUFFICES ASSUME NEW l \in Handled, NEW m \in events',
                      StartBlock <= l.block, l.block <= m.block
               PROVE  l \in events'
    BY DEF Trail!NoHoles
  <2>1. CASE m \in events
    BY <1>1, <2>1 DEF Gapless, Trail!NoHoles
  <2>2. CASE m \in newEvents[i]
    <3>1. m.block <= last[i] /\ m.block <= pos[i] + Chunk - 1
      BY <1>2, <2>2, ChunkTypes DEF InChunk, Least, Handled
    <3>2. l.block <= last[i] /\ l.block <= pos[i] + Chunk - 1
      BY <2>2, <3>1, ChunkTypes DEF Handled
    <3> QED
      BY <1>4, <3>2
  <2> QED
    BY <1>1, <2>1, <2>2
<1>6. ASSUME NEW j \in Indexers PROVE Progress(j)'
  <2>1. CASE j = i
    <3>1. /\ pc'[i] = "fetch" /\ pos'[i] = pos[i] + Chunk /\ newEvents'[i] = {}
          /\ last'[i] = last[i]
      BY <1>1 DEF TypeOK
    <3>2. pos'[i] >= StartBlock
      BY <1>2, <3>1, ChunkTypes
    <3>3. ASSUME NEW l \in Handled, StartBlock <= l.block, l.block < pos'[i],
                 l.block <= last[i]
          PROVE  l \in events'
      <4>1. l.block <= pos[i] + Chunk - 1
        BY <3>1, <3>3, ChunkTypes DEF Handled
      <4> QED
        BY <1>4, <3>3, <4>1
    <3> QED
      BY <2>1, <3>1, <3>2, <3>3 DEF Progress
  <2>2. CASE j # i
    BY <1>1, <2>2, ProgressOfOthers DEF Gapless, TypeOK
  <2> QED
    BY <2>1, <2>2
<1> QED
  BY <1>3, <1>5, <1>6 DEF Gapless

LEMMA GaplessStep == TypeInv /\ Gapless /\ [Next]_vars => Gapless'
<1> SUFFICES ASSUME TypeInv, Gapless, [Next]_vars PROVE Gapless'
  OBVIOUS
<1>0. TypeOK
  BY DEF TypeInv
<1>1. CASE UNCHANGED vars \/ NewBlock \/ \E t \in Tokens : MarketListed(t)
  <2>1. UNCHANGED <<pc, pos, last, todo, newEvents, events>>
    BY <1>1 DEF vars, NewBlock, MarketListed, tables, cycle, txn
  <2> QED
    BY <2>1, ProgressOfOthers DEF Gapless, Trail!NoHoles
<1>2. ASSUME NEW i \in Indexers, StartCycle(i) PROVE Gapless'
  <2>1. /\ pc[i] = "idle" /\ pc' = [pc EXCEPT ![i] = "cursor"]
        /\ UNCHANGED <<pos, last, todo, newEvents, events>>
    BY <1>2 DEF StartCycle, tables, txn
  <2>2. Progress(i)'
    BY <1>0, <2>1 DEF Gapless, Progress, TypeOK
  <2> QED
    BY <1>0, <2>1, <2>2, GaplessByOne DEF TypeOK
<1>3. ASSUME NEW i \in Indexers, EndCycle(i) \/ GiveUp(i), events' = events,
             EndCycle(i) => newEvents' = newEvents /\ todo' = todo
      PROVE  Gapless'
  <2>1. /\ pc' = [pc EXCEPT ![i] = "idle"]
        /\ pos' = [pos EXCEPT ![i] = 0] /\ last' = [last EXCEPT ![i] = 0]
        /\ \A j \in Indexers \ {i} : newEvents'[j] = newEvents[j] /\ todo'[j] = todo[j]
    BY <1>0, <1>3 DEF EndCycle, GiveUp, CloseTxn, TypeOK
  <2>2. newEvents'[i] = {}
    BY <1>0, <1>3 DEF EndCycle, GiveUp, CloseTxn, TypeOK, Gapless, Progress
  <2>3. Progress(i)'
    BY <1>0, <2>1, <2>2 DEF Progress, TypeOK
  <2> QED
    BY <1>0, <1>3, <2>1, <2>3, GaplessByOne DEF TypeOK
<1>4. ASSUME NEW i \in Indexers, Step(i) \/ Fail(i) PROVE Gapless'
  <2>1. CASE EndCycle(i)
    BY <1>3, <2>1 DEF EndCycle, tables, txn
  <2>2. CASE Fail(i) \/ Deadlocked(i)
    <3>1. GiveUp(i) /\ events' = events
      BY <2>2 DEF Fail, Deadlocked, tables
    <3>2. CASE ~EndCycle(i)
      BY <1>3, <3>1, <3>2
    <3> QED
      BY <2>1, <3>2
  <2> QED
    BY <1>0, <1>2, <1>4, <2>1, <2>2, GaplessRead, GaplessFetch, GaplessHandle,
       GaplessCommit DEF Step
<1> QED
  BY <1>1, <1>4 DEF Next

\* Every step either leaves the events alone or extends the trail.
LEMMA TrailStep == TypeInv /\ TypeInv' /\ Gapless' /\ [Next]_vars => [Trail!Extend]_events
<1> SUFFICES ASSUME TypeInv, TypeInv', Gapless', [Next]_vars
             PROVE  [Trail!Extend]_events
  OBVIOUS
<1>1. events \subseteq events'
  BY DEF Next, Step, HandleLog, NewBlock, MarketListed, StartCycle, ReadCursor, FetchLogs,
     EndCycle, Skip, InsertEvent, MarketUnknown, InsertTrade, UpsertMaker, UpsertTaker,
     CommitChunk, Fail, Deadlocked, vars, tables
<1> QED
  BY <1>1 DEF Trail!Extend, Gapless, TypeInv, TypeOK

\* The indexers implement the gapless trail: whichever of them overlap, fail,
\* deadlock or start anew, no log is ever behind the cursor without its event.
THEOREM IndexersFollowChain == Spec => FollowsChain
<1>1. Init => Trail!Init
  BY DEF Init, Trail!Init
<1> QED
  BY <1>1, TypeStart, TypeStep, GaplessStart, GaplessStep, TrailStep, PTL
     DEF Spec, FollowsChain, Trail!Spec

-----------------------------------------------------------------------------
(* What is derived from the trail is explained by it *)

Side(l, w) == w \in {l.maker, l.taker}

Explained ==
    /\ TrailExplains
    /\ \A i \in Indexers :
          /\ newTrades[i] \subseteq events \cup newEvents[i]
          /\ \A w \in Wallets :
                bumps[i][w] > 0 => \E l \in trades \cup newTrades[i] : Side(l, w)

LEMMA ExplainedStart == Init => Explained
BY DEF Init, Explained, TrailExplains, NoBumps

\* Steps that write nothing, or let go of what a transaction wrote.
LEMMA ExplainedQuiet ==
    ASSUME TypeOK, Explained, UNCHANGED tables,
           \A i \in Indexers :
              \/ newTrades'[i] = newTrades[i] /\ newEvents[i] \subseteq newEvents'[i]
                 /\ bumps'[i] = bumps[i]
              \/ newTrades'[i] = {} /\ bumps'[i] = NoBumps
    PROVE  Explained'
<1>1. TrailExplains'
  BY DEF Explained, TrailExplains, tables
<1>2. ASSUME NEW i \in Indexers
      PROVE  /\ newTrades'[i] \subseteq (events \cup newEvents[i])'
             /\ \A w \in Wallets :
                   bumps'[i][w] > 0 => \E l \in (trades \cup newTrades[i])' : Side(l, w)
  <2>1. CASE newTrades'[i] = {} /\ bumps'[i] = NoBumps
    BY <2>1 DEF NoBumps
  <2>2. CASE /\ newTrades'[i] = newTrades[i] /\ newEvents[i] \subseteq newEvents'[i]
             /\ bumps'[i] = bumps[i]
    BY <2>2 DEF Explained, tables
  <2> QED
    BY <2>1, <2>2
<1> QED
  BY <1>1, <1>2 DEF Explained, Side

LEMMA ExplainedTrade ==
    ASSUME TypeInv, Explained, NEW i \in Indexers, NEW l \in Logs, InsertTrade(i, l)
    PROVE  Explained'
<1>1. l \in events \cup newEvents[i]
  BY CurrentLog DEF InsertTrade
<1>2. /\ newTrades' = [newTrades EXCEPT ![i] = @ \cup ({l} \ trades)]
      /\ UNCHANGED <<tables, newEvents, bumps>>
  BY DEF InsertTrade
<1>3. \A j \in Indexers : newTrades[j] \subseteq newTrades'[j]
  BY <1>2 DEF TypeInv, TypeOK
<1>4. \A j \in Indexers : newTrades'[j] \subseteq events \cup newEvents[j]
  BY <1>1, <1>2 DEF TypeInv, TypeOK, Explained
<1>5. TrailExplains'
  BY <1>2 DEF Explained, TrailExplains, tables
<1> QED
  BY <1>2, <1>3, <1>4, <1>5 DEF Explained, tables, Side

\* A counter is raised for a side of the trade that was written just before.
LEMMA ExplainedUpsert ==
    ASSUME TypeInv, Explained, NEW i \in Indexers, NEW l \in trades \cup newTrades[i],
           NEW w \in {l.maker, l.taker}, w \in Wallets \cup {NoWallet}, Upsert(i, w),
           UNCHANGED <<tables, newEvents, newTrades>>
    PROVE  Explained'
<1>1. CASE bumps' = bumps
  BY <1>1, ExplainedQuiet DEF TypeInv
<1>2. CASE w \in Wallets /\ bumps' = [bumps EXCEPT ![i][w] = @ + 1]
  <2>1. ASSUME NEW j \in Indexers, NEW v \in Wallets, ~(j = i /\ v = w)
        PROVE  bumps'[j][v] = bumps[j][v]
    BY <1>2, <2>1 DEF TypeInv, TypeOK
  <2>2. ASSUME NEW j \in Indexers, NEW v \in Wallets, bumps'[j][v] > 0
        PROVE  \E k \in trades \cup newTrades[j] : Side(k, v)
    <3>1. CASE j = i /\ v = w
      BY <3>1 DEF Side
    <3>2. CASE ~(j = i /\ v = w)
      BY <2>1, <2>2, <3>2 DEF Explained
    <3> QED
      BY <3>1, <3>2
  <2>3. TrailExplains'
    BY DEF Explained, TrailExplains, tables
  <2> QED
    BY <2>2, <2>3 DEF Explained, tables, Side
<1> QED
  BY <1>1, <1>2 DEF Upsert

LEMMA ExplainedHandle ==
    ASSUME TypeInv, Explained, NEW i \in Indexers, NEW l \in Logs, HandleLog(i, l)
    PROVE  Explained'
<1>0. TypeOK
  BY DEF TypeInv
<1>1. CASE Skip(i, l) \/ InsertEvent(i, l) \/ MarketUnknown(i, l)
  <2>1. UNCHANGED <<tables, newTrades, bumps>>
    BY <1>1 DEF Skip, InsertEvent, MarketUnknown, txn
  <2>2. \A j \in Indexers : newEvents[j] \subseteq newEvents'[j]
    BY <1>0, <1>1 DEF Skip, InsertEvent, MarketUnknown, txn, TypeOK
  <2> QED
    BY <1>0, <2>1, <2>2, ExplainedQuiet
<1>2. CASE UpsertMaker(i, l)
  <2>1. l \in trades \cup newTrades[i]
    BY <1>2, CurrentLog DEF UpsertMaker
  <2> QED
    BY <1>2, <2>1, ExplainedUpsert, LogTypes DEF UpsertMaker
<1>3. CASE UpsertTaker(i, l)
  <2>1. l \in trades \cup newTrades[i]
    BY <1>3, CurrentLog DEF UpsertTaker
  <2> QED
    BY <1>3, <2>1, ExplainedUpsert, LogTypes DEF UpsertTaker
<1> QED
  BY <1>1, <1>2, <1>3, ExplainedTrade DEF HandleLog

LEMMA ExplainedCommit ==
    ASSUME TypeOK, Explained, NEW i \in Indexers, CommitChunk(i)
    PROVE  Explained'
<1>1. /\ events' = events \cup newEvents[i]
      /\ trades' = trades \cup newTrades[i]
      /\ tradeCount' = [w \in Wallets |-> tradeCount[w] + bumps[i][w]]
      /\ newEvents' = [newEvents EXCEPT ![i] = {}]
      /\ newTrades' = [newTrades EXCEPT ![i] = {}]
      /\ bumps' = [bumps EXCEPT ![i] = NoBumps]
  BY DEF CommitChunk, CloseTxn
<1>2. trades' \subseteq events'
  BY <1>1 DEF Explained, TrailExplains
<1>3. ASSUME NEW w \in Wallets, tradeCount'[w] > 0
      PROVE  \E l \in trades' : Side(l, w)
  <2>1. tradeCount[w] \in Nat /\ bumps[i][w] \in Nat /\ tradeCount[w] + bumps[i][w] > 0
    BY <1>1, <1>3 DEF TypeOK
  <2>2. tradeCount[w] > 0 \/ bumps[i][w] > 0
    BY <2>1
  <2> QED
    BY <1>1, <2>2 DEF Explained, TrailExplains, Side
<1>4. ASSUME NEW j \in Indexers
      PROVE  /\ newTrades'[j] \subseteq (events \cup newEvents[j])'
             /\ \A w \in Wallets :
                   bumps'[j][w] > 0 => \E l \in (trades \cup newTrades[j])' : Side(l, w)
  <2>1. CASE j = i
    <3>1. newTrades'[j] = {} /\ bumps'[j] = NoBumps
      BY <1>1, <2>1 DEF TypeOK
    <3> QED
      BY <3>1 DEF NoBumps
  <2>2. CASE j # i
    <3>1. /\ newTrades'[j] = newTrades[j] /\ newEvents'[j] = newEvents[j]
          /\ bumps'[j] = bumps[j]
      BY <1>1, <2>2 DEF TypeOK
    <3>2. events \subseteq events' /\ trades \subseteq trades'
      BY <1>1
    <3> QED
      BY <3>1, <3>2 DEF Explained
  <2> QED
    BY <2>1, <2>2
<1> QED
  BY <1>2, <1>3, <1>4 DEF Explained, TrailExplains, Side

LEMMA ExplainedStep == TypeInv /\ Explained /\ [Next]_vars => Explained'
<1> SUFFICES ASSUME TypeInv, Explained, [Next]_vars PROVE Explained'
  OBVIOUS
<1>0. TypeOK
  BY DEF TypeInv
<1>1. CASE \/ UNCHANGED vars \/ NewBlock
           \/ \E t \in Tokens : MarketListed(t)
           \/ \E i \in Indexers : StartCycle(i) \/ ReadCursor(i) \/ FetchLogs(i) \/ EndCycle(i)
  <2>1. UNCHANGED <<tables, txn>>
    BY <1>1 DEF vars, NewBlock, MarketListed, StartCycle, ReadCursor, FetchLogs, EndCycle
  <2> QED
    BY <1>0, <2>1, ExplainedQuiet DEF txn
<1>2. ASSUME NEW i \in Indexers, Fail(i) \/ Deadlocked(i) PROVE Explained'
  <2>1. UNCHANGED tables /\ CloseTxn(i)
    BY <1>2 DEF Fail, Deadlocked, GiveUp
  <2>2. ASSUME NEW j \in Indexers
        PROVE  \/ newTrades'[j] = newTrades[j] /\ newEvents[j] \subseteq newEvents'[j]
                  /\ bumps'[j] = bumps[j]
               \/ newTrades'[j] = {} /\ bumps'[j] = NoBumps
    BY <1>0, <2>1 DEF CloseTxn, TypeOK
  <2> QED
    BY <1>0, <2>1, <2>2, ExplainedQuiet
<1> QED
  BY <1>0, <1>1, <1>2, ExplainedHandle, ExplainedCommit DEF Next, Step

\* "The authoritative trail of WHY any ts_trades / core_traders row exists":
\* no trade without its event, no counted wallet without one of its trades.
THEOREM TrailExplainsRows == Spec => []TrailExplains
<1>1. Explained => TrailExplains
  BY DEF Explained
<1> QED
  BY <1>1, TypeStart, TypeStep, ExplainedStart, ExplainedStep, PTL DEF Spec
-----------------------------------------------------------------------------
(* The counters, to the side of a trade *)

Roles == {"maker", "taker"}

\* Side s of a log, <<log, role>>, is behind indexer i in its chunk.
Done(i, s) ==
    \/ s[1] \notin todo[i]
    \/ First(i, s[1]) /\ stmt[i] = "taker" /\ s[2] = "maker"

\* The sides of w among the trades that i's transaction inserts.
Paid(i, w) == {s \in newTrades[i] \X Roles : s[1][s[2]] = w /\ Done(i, s)}

\* The sides of w that i may have counted in its transaction, marked with i:
\* they are of its chunk, and of trades that i sees.
Seen(i, w) ==
    {m \in {i} \X ((trades \cup newTrades[i]) \X Roles) :
        /\ m[2][1][m[2][2]] = w
        /\ InChunk(i, m[2][1])
        /\ Done(i, m[2])}

\* i will not come back to log l before its next cycle, which starts after it.
Past(i, l) == pc[i] \in {"idle", "cursor"} \/ l.block < pos[i]

\* The sides of stored trades that each indexer is past.
Passed(w) == {m \in Indexers \X Sides(w) : Past(m[1], m[2][1])}

Counting(i) ==
    /\ IsFiniteSet(newTrades[i])
    /\ pc[i] # "write" => newTrades[i] = {} /\ bumps[i] = NoBumps
    /\ \A l \in newTrades[i] \cap todo[i] : First(i, l) /\ stmt[i] \in Roles
    /\ \A w \in Wallets :
          /\ Cardinality(Paid(i, w)) <= bumps[i][w]
          /\ bumps[i][w] <= Cardinality(Seen(i, w))

Counted(w) ==
    /\ Cardinality(Sides(w)) <= tradeCount[w]
    /\ tradeCount[w] <= Cardinality(Passed(w))

CountInv ==
    /\ IsFiniteSet(trades)
    /\ \A w \in Wallets : Counted(w)
    /\ \A i \in Indexers : Counting(i)

LEMMA Bigger ==
    ASSUME NEW T, IsFiniteSet(T), NEW S, S \subseteq T
    PROVE  /\ IsFiniteSet(S)
           /\ Cardinality(S) \in Nat
           /\ Cardinality(T) \in Nat
           /\ Cardinality(S) <= Cardinality(T)
BY FS_Subset, FS_CardinalityType

LEMMA OneMore ==
    ASSUME NEW T, IsFiniteSet(T), NEW S, S \subseteq T, NEW x \in T, x \notin S
    PROVE  Cardinality(S) + 1 <= Cardinality(T)
<1>1. IsFiniteSet(S) /\ S \cup {x} \subseteq T
  BY Bigger
<1>2. Cardinality(S \cup {x}) = Cardinality(S) + 1
  BY <1>1, FS_AddElement
<1> QED
  BY <1>1, <1>2, Bigger

LEMMA AtMostOneMore ==
    ASSUME NEW S, IsFiniteSet(S), NEW x, NEW T, T \subseteq S \cup {x}
    PROVE  Cardinality(T) <= Cardinality(S) + 1
<1>1. /\ IsFiniteSet(S \cup {x})
      /\ Cardinality(S \cup {x}) <= Cardinality(S) + 1
  <2>1. Cardinality(S) \in Nat
    BY FS_CardinalityType
  <2> QED
    BY <2>1, FS_AddElement
<1>2. Cardinality(T) <= Cardinality(S \cup {x})
  BY <1>1, Bigger
<1> QED
  BY <1>1, <1>2, Bigger, FS_CardinalityType

LEMMA AtMostBoth ==
    ASSUME NEW S, IsFiniteSet(S), NEW T, IsFiniteSet(T), NEW R, R \subseteq S \cup T
    PROVE  Cardinality(R) <= Cardinality(S) + Cardinality(T)
<1>1. /\ IsFiniteSet(S \cup T)
      /\ Cardinality(S \cup T) =
            Cardinality(S) + Cardinality(T) - Cardinality(S \cap T)
  BY FS_Union
<1>2. Cardinality(R) <= Cardinality(S \cup T) /\ Cardinality(R) \in Nat
  BY <1>1, Bigger
<1>3. Cardinality(S) \in Nat /\ Cardinality(T) \in Nat /\ Cardinality(S \cap T) \in Nat
  BY Bigger
<1> QED
  BY <1>1, <1>2, <1>3

LEMMA AtLeastBoth ==
    ASSUME NEW R, IsFiniteSet(R), NEW S, S \subseteq R, NEW T, T \subseteq R,
           \A x \in S : x \notin T
    PROVE  Cardinality(S) + Cardinality(T) <= Cardinality(R)
<1>1. IsFiniteSet(S) /\ IsFiniteSet(T)
  BY Bigger
<1>2. Cardinality(S \cup T) = Cardinality(S) + Cardinality(T) - Cardinality(S \cap T)
  BY <1>1, FS_Union
<1>3. Cardinality(S \cap T) = 0
  <2> DEFINE both == S \cap T
  <2>1. IsFiniteSet(both) /\ \A x : x \notin both
    BY <1>1, Bigger
  <2> HIDE DEF both
  <2>2. Cardinality(both) = 0
    BY <2>1, FS_EmptySet
  <2> QED
    BY <2>2 DEF both
<1>4. Cardinality(S \cup T) <= Cardinality(R)
  BY Bigger
<1>5. Cardinality(S) \in Nat /\ Cardinality(T) \in Nat
  BY <1>1, FS_CardinalityType
<1> QED
  BY <1>2, <1>3, <1>4, <1>5

LEMMA TwoRoles == IsFiniteSet(Roles)
<1>1. Roles = {"maker"} \cup {"taker"}
  BY DEF Roles
<1> QED
  BY <1>1, FS_Singleton, FS_Union

LEMMA MarksAreFinite ==
    ASSUME NEW T, IsFiniteSet(T), NEW i
    PROVE  /\ IsFiniteSet(T \X Roles)
           /\ IsFiniteSet({i} \X (T \X Roles))
           /\ IsFiniteSet(Indexers \X (T \X Roles))
<1>1. IsFiniteSet(T \X Roles)
  BY TwoRoles, FS_Product
<1> QED
  BY <1>1, FS_Singleton, FS_Product, ChainAssumption

\* Where each of these sets is from.
MarksWithin(i, w) ==
    /\ Sides(w) \subseteq trades \X Roles
    /\ Passed(w) \subseteq Indexers \X (trades \X Roles)
    /\ Paid(i, w) \subseteq newTrades[i] \X Roles
    /\ Seen(i, w) \subseteq {i} \X ((trades \cup newTrades[i]) \X Roles)

LEMMA MarksFrom == \A i, w : MarksWithin(i, w)
BY DEF MarksWithin, Sides, Passed, Paid, Seen, Roles

MarksFinite(i, w) ==
    IsFiniteSet(trades) /\ IsFiniteSet(newTrades[i]) =>
        /\ IsFiniteSet(Sides(w))
        /\ IsFiniteSet(Passed(w))
        /\ IsFiniteSet(Paid(i, w))
        /\ IsFiniteSet(Seen(i, w))

LEMMA MarksStayFinite == \A i, w : MarksFinite(i, w)
<1> SUFFICES ASSUME NEW i, NEW w, IsFiniteSet(trades), IsFiniteSet(newTrades[i])
             PROVE  /\ IsFiniteSet(Sides(w))
                    /\ IsFiniteSet(Passed(w))
                    /\ IsFiniteSet(Paid(i, w))
                    /\ IsFiniteSet(Seen(i, w))
  BY DEF MarksFinite
<1>1. /\ Sides(w) \subseteq trades \X Roles
      /\ Passed(w) \subseteq Indexers \X (trades \X Roles)
      /\ Paid(i, w) \subseteq newTrades[i] \X Roles
      /\ Seen(i, w) \subseteq {i} \X ((trades \cup newTrades[i]) \X Roles)
  BY MarksFrom DEF MarksWithin
<1>2. IsFiniteSet(trades \cup newTrades[i])
  BY FS_Union
<1>3. IsFiniteSet(Sides(w))
  BY <1>1, MarksAreFinite, Bigger
<1>4. IsFiniteSet(Passed(w))
  BY <1>1, MarksAreFinite, Bigger
<1>5. IsFiniteSet(Paid(i, w))
  BY <1>1, MarksAreFinite, Bigger
<1>6. IsFiniteSet(Seen(i, w))
  BY <1>1, <1>2, MarksAreFinite, Bigger
<1> QED
  BY <1>3, <1>4, <1>5, <1>6

LEMMA MarksFiniteNext == (\A i, w : MarksFinite(i, w))'
BY MarksStayFinite, PTL

LEMMA CountStart == Init => CountInv
<1> SUFFICES ASSUME Init PROVE CountInv
  OBVIOUS
<1>1. trades = {} /\ \A i \in Indexers : newTrades[i] = {} /\ bumps[i] = NoBumps
  BY DEF Init
<1>2. IsFiniteSet(trades)
  BY <1>1, FS_EmptySet
<1>3. ASSUME NEW w \in Wallets PROVE Counted(w)
  <2>1. Cardinality(Sides(w)) = 0
    BY <1>1, FS_EmptySet DEF Sides
  <2>2. Cardinality(Passed(w)) = 0
    BY <1>1, FS_EmptySet DEF Sides, Passed
  <2> QED
    BY <2>1, <2>2 DEF Counted, Init, NoBumps
<1>4. ASSUME NEW i \in Indexers PROVE Counting(i)
  <2>1. IsFiniteSet(newTrades[i])
    BY <1>1, FS_EmptySet
  <2>2. ASSUME NEW w \in Wallets
        PROVE  Cardinality(Paid(i, w)) <= 0 /\ 0 <= Cardinality(Seen(i, w))
    <3>1. Cardinality(Paid(i, w)) = 0
      BY <1>1, FS_EmptySet DEF Paid
    <3>2. Cardinality(Seen(i, w)) \in Nat
      BY <1>2, <2>1, MarksStayFinite, FS_CardinalityType DEF MarksFinite
    <3> QED
      BY <3>1, <3>2
  <2> QED
    BY <1>1, <2>1, <2>2 DEF Counting, NoBumps
<1> QED
  BY <1>2, <1>3, <1>4 DEF CountInv

\* What an indexer counted stays true while others add trades.
LEMMA CountingOfOthers ==
    ASSUME NEW j \in Indexers, Counting(j), TypeOK, IsFiniteSet(trades'),
           pc'[j] = pc[j], pos'[j] = pos[j], last'[j] = last[j],
           todo'[j] = todo[j], stmt'[j] = stmt[j],
           newTrades'[j] = newTrades[j], bumps'[j] = bumps[j],
           trades \subseteq trades'
    PROVE  Counting(j)'
<1>1. \A s : Done(j, s)' <=> Done(j, s)
  BY DEF Done, First
<1>2. \A l : InChunk(j, l)' <=> InChunk(j, l)
  BY DEF InChunk
<1>3. IsFiniteSet(newTrades'[j])
  BY DEF Counting
<1>4. ASSUME NEW w \in Wallets
      PROVE  /\ Cardinality(Paid(j, w)') <= bumps[j][w]
             /\ bumps[j][w] <= Cardinality(Seen(j, w)')
  <2>1. Paid(j, w)' = Paid(j, w)
    BY <1>1 DEF Paid
  <2>2. Seen(j, w) \subseteq Seen(j, w)'
    BY <1>1, <1>2 DEF Seen
  <2>3. IsFiniteSet(Seen(j, w)')
    BY <1>3, MarksFiniteNext DEF MarksFinite
  <2>4. Cardinality(Seen(j, w)) <= Cardinality(Seen(j, w)')
    BY <2>2, <2>3, Bigger
  <2>5. Cardinality(Seen(j, w)) \in Nat /\ Cardinality(Seen(j, w)') \in Nat
    BY <2>2, <2>3, Bigger
  <2>6. bumps[j][w] \in Nat
    BY DEF TypeOK
  <2> QED
    BY <2>1, <2>4, <2>5, <2>6 DEF Counting
<1>5. \A l \in newTrades'[j] \cap todo'[j] : First(j, l)' /\ stmt'[j] \in Roles
  BY DEF Counting, First
<1> QED
  BY <1>3, <1>4, <1>5 DEF Counting
\* A transaction that has just begun, or has let go of its rows.
LEMMA CountingAnew ==
    ASSUME NEW i \in Indexers, newTrades'[i] = {}, bumps'[i] = NoBumps,
           IsFiniteSet(trades')
    PROVE  Counting(i)'
<1>1. IsFiniteSet(newTrades'[i])
  BY FS_EmptySet
<1>2. ASSUME NEW w \in Wallets
      PROVE  /\ Cardinality(Paid(i, w)') = 0
             /\ Cardinality(Seen(i, w)') \in Nat
  <2>1. Cardinality(Paid(i, w)') = 0
    BY FS_EmptySet DEF Paid
  <2>2. IsFiniteSet(Seen(i, w)')
    BY <1>1, MarksFiniteNext DEF MarksFinite
  <2> QED
    BY <2>1, <2>2, FS_CardinalityType
<1>3. ASSUME NEW w \in Wallets
      PROVE  /\ Cardinality(Paid(i, w)') <= bumps'[i][w]
             /\ bumps'[i][w] <= Cardinality(Seen(i, w)')
  <2>1. bumps'[i][w] = 0
    BY DEF NoBumps
  <2> QED
    BY <1>2, <2>1
<1> QED
  BY <1>1, <1>3 DEF Counting

\* The stored trades that the indexers are past only grow in number.
LEMMA PassedGrows ==
    ASSUME trades \subseteq trades', IsFiniteSet(trades'),
           \A i \in Indexers : IsFiniteSet(newTrades'[i]),
           \A i \in Indexers : \A l \in trades : Past(i, l) => Past(i, l)',
           NEW w
    PROVE  /\ Passed(w) \subseteq Passed(w)'
           /\ Cardinality(Passed(w)) \in Nat
           /\ Cardinality(Passed(w)') \in Nat
           /\ Cardinality(Passed(w)) <= Cardinality(Passed(w)')
<1>1. Sides(w) \subseteq Sides(w)'
  BY DEF Sides
<1>2. \A s \in Sides(w) : s[1] \in trades
  BY DEF Sides
<1>3. Passed(w) \subseteq Passed(w)'
  BY <1>1, <1>2 DEF Passed
<1>4. IsFiniteSet(Passed(w)')
  <2>1. Passed(w)' \subseteq Indexers \X (trades' \X Roles)
    BY DEF Passed, Sides, Roles
  <2> QED
    BY <2>1, MarksAreFinite, Bigger
<1> QED
  BY <1>3, <1>4, Bigger

\* A step of i that commits nothing needs to be looked at for i only.
LEMMA CountByOne ==
    ASSUME TypeOK, TypeOK', CountInv, NEW i \in Indexers, Counting(i)',
           trades' = trades, tradeCount' = tradeCount,
           \A l \in trades : Past(i, l) => Past(i, l)',
           \A j \in Indexers \ {i} :
              /\ pc'[j] = pc[j] /\ pos'[j] = pos[j] /\ last'[j] = last[j]
              /\ todo'[j] = todo[j] /\ stmt'[j] = stmt[j]
              /\ newTrades'[j] = newTrades[j] /\ bumps'[j] = bumps[j]
    PROVE  CountInv'
<1>1. ASSUME NEW j \in Indexers PROVE Counting(j)'
  <2>1. CASE j # i
    BY <2>1, CountingOfOthers DEF CountInv
  <2> QED
    BY <2>1
<1>2. \A j \in Indexers : \A l \in trades : Past(j, l) => Past(j, l)'
  BY DEF Past
<1>3. ASSUME NEW w \in Wallets PROVE Counted(w)'
  <2>1. Sides(w)' = Sides(w)
    BY DEF Sides
  <2>2. \A j \in Indexers : IsFiniteSet(newTrades'[j])
    BY <1>1 DEF Counting
  <2>3. /\ Cardinality(Passed(w)) \in Nat
        /\ Cardinality(Passed(w)') \in Nat
        /\ Cardinality(Passed(w)) <= Cardinality(Passed(w)')
    BY <1>2, <2>2, PassedGrows DEF CountInv
  <2>4. Counted(w) /\ tradeCount[w] \in Nat
    BY DEF CountInv, TypeOK
  <2> QED
    BY <2>1, <2>3, <2>4 DEF Counted
<1> QED
  BY <1>1, <1>3 DEF CountInv

\* Between transactions: the next cycle starts after every stored trade.
LEMMA CountBetween ==
    ASSUME TypeOK, TypeOK', Explained, CountInv, NEW i \in Indexers,
           StartCycle(i) \/ ReadCursor(i) \/ FetchLogs(i) \/ EndCycle(i)
    PROVE  CountInv'
<1>1. /\ pc[i] # "write"
      /\ UNCHANGED <<tables, stmt, txn>>
      /\ \A j \in Indexers \ {i} :
            /\ pc'[j] = pc[j] /\ pos'[j] = pos[j] /\ last'[j] = last[j]
            /\ todo'[j] = todo[j]
  BY DEF StartCycle, ReadCursor, FetchLogs, EndCycle, TypeOK
<1>2. newTrades[i] = {} /\ bumps[i] = NoBumps
  BY <1>1 DEF CountInv, Counting
<1>3. Counting(i)'
  BY <1>1, <1>2, CountingAnew DEF CountInv, tables, txn
<1>4. ASSUME NEW l \in trades, Past(i, l) PROVE Past(i, l)'
  <2>1. CASE StartCycle(i)
    BY <2>1 DEF StartCycle, TypeOK, Past
  <2>2. CASE ReadCursor(i)
    <3>1. PICK b : /\ FirstBlock(b)
                   /\ \/ pc' = [pc EXCEPT ![i] = "idle"]
                      \/ pos' = [pos EXCEPT ![i] = b]
      BY <2>2 DEF ReadCursor
    <3>2. l \in events
      BY DEF Explained, TrailExplains
    <3>3. l.block < b
      BY <3>1, <3>2 DEF FirstBlock
    <3> QED
      BY <3>1, <3>3 DEF Past, TypeOK
  <2>3. CASE FetchLogs(i)
    <3>1. l.block \in Nat /\ pos[i] \in Nat /\ Chunk \in Nat
      BY ChainAssumption DEF TypeOK, Fills
    <3>2. l.block < pos[i]
      BY <2>3, <1>4 DEF FetchLogs, Past
    <3>3. pos'[i] \in {pos[i], pos[i] + Chunk}
      BY <2>3 DEF FetchLogs, TypeOK
    <3> QED
      BY <3>1, <3>2, <3>3 DEF Past
  <2>4. CASE EndCycle(i)
    BY <2>4 DEF EndCycle, TypeOK, Past
  <2> QED
    BY <2>1, <2>2, <2>3, <2>4
<1> QED
  BY <1>1, <1>3, <1>4, CountByOne DEF tables, txn

LEMMA CountGiveUp ==
    ASSUME TypeOK, TypeOK', CountInv, NEW i \in Indexers, GiveUp(i), UNCHANGED tables
    PROVE  CountInv'
<1>1. /\ newTrades'[i] = {} /\ bumps'[i] = NoBumps /\ pc'[i] = "idle"
      /\ \A j \in Indexers \ {i} :
            /\ pc'[j] = pc[j] /\ pos'[j] = pos[j] /\ last'[j] = last[j]
            /\ todo'[j] = todo[j] /\ stmt'[j] = stmt[j]
            /\ newTrades'[j] = newTrades[j] /\ bumps'[j] = bumps[j]
  BY DEF GiveUp, CloseTxn, TypeOK
<1>2. Counting(i)'
  BY <1>1, CountingAnew DEF CountInv, tables
<1>3. \A l \in trades : Past(i, l)'
  BY <1>1 DEF Past
<1> QED
  BY <1>1, <1>2, <1>3, CountByOne DEF tables
\* The trades of the current log's successors are not written yet, and that of
\* the current log only when its sides are at hand.
LEMMA CountQuietLog ==
    ASSUME TypeInv, TypeOK', CountInv, NEW i \in Indexers, NEW l \in Logs,
           Skip(i, l) \/ InsertEvent(i, l) \/ MarketUnknown(i, l) \/ InsertTrade(i, l)
    PROVE  Counting(i)'
<1>1. /\ stmt[i] \in {"event", "trade"}
      /\ l \in todo[i]
      /\ pc' = pc /\ pos' = pos /\ last' = last /\ bumps' = bumps /\ trades' = trades
      /\ todo'[i] \subseteq todo[i]
      /\ pc[i] = "write"
  BY DEF Skip, InsertEvent, MarketUnknown, InsertTrade, At, First, GoOn, NextLog,
     TypeInv, TypeOK, cycle, tables, txn
<1>2. /\ newTrades[i] \subseteq newTrades'[i]
      /\ newTrades'[i] \subseteq newTrades[i] \cup {l}
      /\ \/ newTrades'[i] = newTrades[i] /\ stmt'[i] # "taker"
         \/ First(i, l)' /\ todo'[i] = todo[i] /\ stmt'[i] = "maker"
  <2>1. CASE Skip(i, l) \/ InsertEvent(i, l) \/ MarketUnknown(i, l)
    BY <2>1 DEF Skip, InsertEvent, MarketUnknown, At, First, GoOn, NextLog,
       TypeInv, TypeOK, txn
  <2>2. CASE InsertTrade(i, l)
    BY <2>2 DEF InsertTrade, At, First, GoOn, TypeInv, TypeOK
  <2> QED
    BY <2>1, <2>2
<1>3. Counting(i) /\ IsFiniteSet(trades)
  BY DEF CountInv
<1>4. \A k \in newTrades[i] : k \notin todo[i]
  BY <1>1, <1>3 DEF Counting, Roles
<1>5. IsFiniteSet(newTrades'[i])
  <2>1. IsFiniteSet(newTrades[i] \cup {l})
    BY <1>3, FS_AddElement DEF Counting
  <2> QED
    BY <1>2, <2>1, Bigger
<1>6. \A k \in newTrades'[i] \cap todo'[i] : First(i, k)' /\ stmt'[i] \in Roles
  BY <1>1, <1>2, <1>4 DEF Roles
<1>7. \A s : Done(i, s) => Done(i, s)'
  BY <1>1 DEF Done
<1>8. \A s : s[1] \in newTrades'[i] /\ Done(i, s)' => s[1] \in newTrades[i] /\ Done(i, s)
  BY <1>1, <1>2, <1>4 DEF Done
<1>9. \A k : InChunk(i, k)' <=> InChunk(i, k)
  BY <1>1 DEF InChunk
<1>10. ASSUME NEW w \in Wallets
       PROVE  /\ Cardinality(Paid(i, w)') <= bumps'[i][w]
              /\ bumps'[i][w] <= Cardinality(Seen(i, w)')
  <2>1. Paid(i, w)' \subseteq Paid(i, w)
    BY <1>8 DEF Paid
  <2>2. Seen(i, w) \subseteq Seen(i, w)'
    BY <1>1, <1>2, <1>7, <1>9 DEF Seen
  <2>3. IsFiniteSet(Paid(i, w))
    BY <1>3, MarksStayFinite DEF MarksFinite, Counting
  <2>4. IsFiniteSet(Seen(i, w)')
    BY <1>1, <1>3, <1>5, MarksFiniteNext DEF MarksFinite
  <2>5. /\ Cardinality(Paid(i, w)') \in Nat
        /\ Cardinality(Paid(i, w)) \in Nat
        /\ Cardinality(Paid(i, w)') <= Cardinality(Paid(i, w))
    BY <2>1, <2>3, Bigger
  <2>6. /\ Cardinality(Seen(i, w)') \in Nat
        /\ Cardinality(Seen(i, w)) \in Nat
        /\ Cardinality(Seen(i, w)) <= Cardinality(Seen(i, w)')
    BY <2>2, <2>4, Bigger
  <2>7. bumps'[i][w] = bumps[i][w] /\ bumps[i][w] \in Nat
    BY <1>1 DEF TypeInv, TypeOK
  <2>8. /\ Cardinality(Paid(i, w)) <= bumps[i][w]
        /\ bumps[i][w] <= Cardinality(Seen(i, w))
    BY <1>3 DEF Counting
  <2> QED
    BY <2>5, <2>6, <2>7, <2>8
<1> QED
  BY <1>1, <1>5, <1>6, <1>10 DEF Counting

\* A side is dealt with: it was not done before, and nothing else is by it.
SideDone(i, l, r) ==
    /\ ~Done(i, <<l, r>>)
    /\ Done(i, <<l, r>>)'
    /\ \A k \in Logs, q \in Roles :
          Done(i, <<k, q>>)' <=> Done(i, <<k, q>>) \/ (k = l /\ q = r)

LEMMA UpsertSides ==
    ASSUME TypeInv, NEW i \in Indexers, NEW l \in Logs,
           UpsertMaker(i, l) \/ UpsertTaker(i, l)
    PROVE  \E r \in Roles : r = stmt[i] /\ SideDone(i, l, r)
<1>1. todo[i] \subseteq Logs /\ First(i, l) /\ l \in todo[i]
  BY DEF UpsertMaker, UpsertTaker, At, First, TypeInv, TypeOK
<1>2. \A k : First(i, k) => k = l
  BY <1>1, FirstIsUnique
<1>3. CASE UpsertMaker(i, l)
  <2>1. stmt[i] = "maker" /\ stmt'[i] = "taker" /\ todo' = todo
    BY <1>3 DEF UpsertMaker, At, GoOn, TypeInv, TypeOK
  <2>2. \A k : First(i, k)' <=> First(i, k)
    BY <2>1 DEF First
  <2>3. /\ ~Done(i, <<l, "maker">>)
        /\ Done(i, <<l, "maker">>)'
    BY <1>1, <2>1, <2>2 DEF Done
  <2>4. ASSUME NEW k \in Logs, NEW q \in Roles
        PROVE  Done(i, <<k, q>>)' <=> Done(i, <<k, q>>) \/ (k = l /\ q = "maker")
    BY <1>1, <1>2, <2>1, <2>2 DEF Done
  <2> QED
    BY <2>1, <2>3, <2>4 DEF SideDone, Roles
<1>4. CASE UpsertTaker(i, l)
  <2>1. stmt[i] = "taker" /\ stmt'[i] = "event" /\ todo'[i] = todo[i] \ {l}
    BY <1>4 DEF UpsertTaker, At, NextLog, TypeInv, TypeOK
  <2>2. /\ ~Done(i, <<l, "taker">>)
        /\ Done(i, <<l, "taker">>)'
    BY <1>1, <2>1 DEF Done
  <2>3. ASSUME NEW k \in Logs, NEW q \in Roles
        PROVE  Done(i, <<k, q>>)' <=> Done(i, <<k, q>>) \/ (k = l /\ q = "taker")
    BY <1>1, <1>2, <2>1 DEF Done, Roles
  <2> QED
    BY <2>1, <2>2, <2>3 DEF SideDone, Roles
<1> QED
  BY <1>3, <1>4

\* A counter goes up by one for a side that was not done, of a trade that the
\* transaction sees; every done side of its own trades was counted.
LEMMA CountUpsert ==
    ASSUME TypeInv, TypeOK', Gapless, CountInv, NEW i \in Indexers, NEW l \in Logs,
           UpsertMaker(i, l) \/ UpsertTaker(i, l)
    PROVE  Counting(i)'
<1>0. PICK r \in Roles : r = stmt[i] /\ SideDone(i, l, r)
  BY UpsertSides
<1> DEFINE v == l[r]
<1>1. /\ pc[i] = "write"
      /\ l \in todo[i]
      /\ First(i, l)
      /\ UNCHANGED <<tables, pc, cycle, newTrades>>
      /\ v \in Wallets \cup {NoWallet}
      /\ Upsert(i, v)
  BY <1>0, LogTypes DEF UpsertMaker, UpsertTaker, At, First, Roles
<1>2. l \in trades \cup newTrades[i]
  BY CurrentLog DEF UpsertMaker, UpsertTaker
<1>4. InChunk(i, l)
  BY <1>1 DEF Gapless, Progress
<1>5. Counting(i) /\ IsFiniteSet(trades) /\ trades \subseteq Logs /\ newTrades[i] \subseteq Logs
  BY DEF CountInv, TypeInv, TypeOK, Fills
<1>6. \A k \in newTrades'[i] \cap todo'[i] : First(i, k)' /\ stmt'[i] \in Roles
  <2>1. \A k \in newTrades[i] \cap todo[i] : k = l
    BY <1>1, <1>5, FirstIsUnique DEF Counting, TypeInv, TypeOK
  <2>2. CASE UpsertMaker(i, l)
    <3>1. First(i, l)' /\ stmt'[i] = "taker" /\ todo' = todo
      BY <2>2, <1>1 DEF UpsertMaker, GoOn, First, TypeInv, TypeOK
    <3> QED
      BY <1>1, <2>1, <3>1 DEF Roles
  <2>3. CASE UpsertTaker(i, l)
    <3>1. todo'[i] = todo[i] \ {l}
      BY <2>3 DEF UpsertTaker, NextLog, TypeInv, TypeOK
    <3> QED
      BY <1>1, <2>1, <3>1
  <2> QED
    BY <2>2, <2>3
<1>7. \A k : InChunk(i, k)' <=> InChunk(i, k)
  BY <1>1 DEF InChunk, cycle
<1>8. ASSUME NEW w \in Wallets
      PROVE  /\ Cardinality(Paid(i, w)') <= bumps'[i][w]
             /\ bumps'[i][w] <= Cardinality(Seen(i, w)')
  <2>1. Paid(i, w)' \subseteq Paid(i, w) \cup {<<l, r>>}
    BY <1>1, <1>0, <1>5 DEF Paid, SideDone
  <2>2. Seen(i, w) \subseteq Seen(i, w)'
    BY <1>1, <1>0, <1>5, <1>7 DEF Seen, SideDone, tables
  <2>3. IsFiniteSet(Paid(i, w))
    BY <1>5, MarksStayFinite DEF MarksFinite, Counting
  <2>4. IsFiniteSet(Seen(i, w)')
    BY <1>1, <1>5, MarksFiniteNext DEF MarksFinite, Counting, tables
  <2>5. bumps[i][w] \in Nat /\ Cardinality(Paid(i, w)) \in Nat /\ Cardinality(Seen(i, w)) \in Nat
        /\ Cardinality(Seen(i, w)') \in Nat
        /\ Cardinality(Seen(i, w)) <= Cardinality(Seen(i, w)')
    BY <2>2, <2>3, <2>4, Bigger, FS_CardinalityType DEF TypeInv, TypeOK
  <2>6. /\ Cardinality(Paid(i, w)) <= bumps[i][w]
        /\ bumps[i][w] <= Cardinality(Seen(i, w))
    BY <1>5 DEF Counting
  <2>7. CASE w = v
    <3>1. bumps'[i][w] = bumps[i][w] + 1
      <4>1. w # NoWallet
        BY ChainAssumption
      <4>2. bumps' = [bumps EXCEPT ![i][w] = @ + 1]
        BY <1>1, <2>7, <4>1 DEF Upsert
      <4> QED
        BY <4>2 DEF TypeInv, TypeOK
    <3>2. Cardinality(Paid(i, w)') <= Cardinality(Paid(i, w)) + 1
      BY <2>1, <2>3, AtMostOneMore
    <3>3. <<i, <<l, r>>>> \in Seen(i, w)'
      BY <1>1, <1>2, <1>0, <1>4, <1>7, <2>7 DEF Seen, SideDone, tables
    <3>4. <<i, <<l, r>>>> \notin Seen(i, w)
      BY <1>0 DEF Seen, SideDone
    <3>5. Cardinality(Seen(i, w)) + 1 <= Cardinality(Seen(i, w)')
      BY <2>2, <2>4, <3>3, <3>4, OneMore
    <3>6. Cardinality(Paid(i, w)') \in Nat
      BY <2>1, <2>3, FS_AddElement, FS_CardinalityType, Bigger
    <3> QED
      BY <2>5, <2>6, <3>1, <3>2, <3>5, <3>6
  <2>8. CASE w # v
    <3>1. bumps'[i][w] = bumps[i][w]
      BY <1>1, <2>8 DEF Upsert, TypeInv, TypeOK
    <3>2. Paid(i, w)' \subseteq Paid(i, w)
      BY <2>1, <2>8 DEF Paid
    <3>3. /\ Cardinality(Paid(i, w)') \in Nat
          /\ Cardinality(Paid(i, w)') <= Cardinality(Paid(i, w))
      BY <2>3, <3>2, Bigger
    <3> QED
      BY <2>5, <2>6, <3>1, <3>3
  <2> QED
    BY <2>7, <2>8
<1> QED
  BY <1>1, <1>5, <1>6, <1>8 DEF Counting
LEMMA CountHandle ==
    ASSUME TypeInv, TypeOK', Gapless, CountInv, NEW i \in Indexers, NEW l \in Logs,
           HandleLog(i, l)
    PROVE  CountInv'
<1>1. Counting(i)'
  BY CountQuietLog, CountUpsert DEF HandleLog
<1>2. /\ UNCHANGED <<tables, pc, cycle>>
      /\ \A j \in Indexers \ {i} :
            /\ todo'[j] = todo[j] /\ stmt'[j] = stmt[j]
            /\ newTrades'[j] = newTrades[j] /\ bumps'[j] = bumps[j]
  <2>1. CASE Skip(i, l) \/ InsertEvent(i, l) \/ MarketUnknown(i, l) \/ InsertTrade(i, l)
    BY <2>1 DEF Skip, InsertEvent, MarketUnknown, InsertTrade, GoOn, NextLog, txn,
       TypeInv, TypeOK
  <2>2. CASE UpsertMaker(i, l) \/ UpsertTaker(i, l)
    BY <2>2 DEF UpsertMaker, UpsertTaker, Upsert, GoOn, NextLog, TypeInv, TypeOK
  <2> QED
    BY <2>1, <2>2 DEF HandleLog
<1>3. \A k \in trades : Past(i, k) => Past(i, k)'
  BY <1>2 DEF Past, cycle
<1> QED
  BY <1>1, <1>2, <1>3, CountByOne DEF TypeInv, tables, cycle

\* A chunk is committed with the counts of its sides: no less than what its
\* trades add, and for sides that i was not past before.
LEMMA CountCommit ==
    ASSUME TypeOK, TypeOK', CountInv, NEW i \in Indexers, CommitChunk(i)
    PROVE  CountInv'
<1>1. /\ pc[i] = "write" /\ todo[i] = {}
      /\ trades' = trades \cup newTrades[i]
      /\ \A w \in Wallets : tradeCount'[w] = tradeCount[w] + bumps[i][w]
      /\ newTrades'[i] = {} /\ bumps'[i] = NoBumps
      /\ pc'[i] = "fetch" /\ pos'[i] = pos[i] + Chunk
      /\ UNCHANGED <<last, todo, stmt>>
      /\ \A j \in Indexers \ {i} :
            /\ pc'[j] = pc[j] /\ pos'[j] = pos[j]
            /\ newTrades'[j] = newTrades[j] /\ bumps'[j] = bumps[j]
  BY DEF CommitChunk, CloseTxn, TypeOK
<1>2. Counting(i) /\ IsFiniteSet(trades) /\ IsFiniteSet(newTrades[i])
  BY DEF CountInv, Counting
<1>3. IsFiniteSet(trades')
  BY <1>1, <1>2, FS_Union
<1>4. ASSUME NEW j \in Indexers PROVE Counting(j)'
  <2>1. CASE j = i
    BY <1>1, <1>3, <2>1, CountingAnew
  <2>2. CASE j # i
    BY <1>1, <1>3, <2>2, CountingOfOthers DEF CountInv
  <2> QED
    BY <2>1, <2>2
<1>5. \A l \in Logs : l.block \in Nat
  BY LogTypes
<1>6. trades \subseteq Logs /\ newTrades[i] \subseteq Logs
  BY DEF TypeOK, Fills
<1>7. pos[i] \in Nat /\ last[i] \in Nat /\ Chunk \in Nat \ {0}
  BY ChainAssumption DEF TypeOK
<1>8. ASSUME NEW j \in Indexers, NEW l \in trades, Past(j, l) PROVE Past(j, l)'
  BY <1>1, <1>5, <1>6, <1>7, <1>8 DEF Past
<1>9. ASSUME NEW w \in Wallets PROVE Counted(w)'
  <2>1. /\ IsFiniteSet(Sides(w)) /\ IsFiniteSet(Paid(i, w)) /\ IsFiniteSet(Seen(i, w))
        /\ IsFiniteSet(Passed(w))
    BY <1>2, MarksStayFinite DEF MarksFinite
  <2>2. IsFiniteSet(newTrades'[i])
    BY <1>4 DEF Counting
  <2>3. IsFiniteSet(Sides(w)') /\ IsFiniteSet(Passed(w)')
    BY <1>3, <2>2, MarksFiniteNext DEF MarksFinite
  <2>4. Cardinality(Sides(w)') <= Cardinality(Sides(w)) + Cardinality(Paid(i, w))
    <3>1. Sides(w)' \subseteq Sides(w) \cup Paid(i, w)
      BY <1>1 DEF Sides, Paid, Done, Roles
    <3> QED
      BY <2>1, <3>1, AtMostBoth
  <2>5. Cardinality(Passed(w)) + Cardinality(Seen(i, w)) <= Cardinality(Passed(w)')
    <3>1. Passed(w) \subseteq Passed(w)'
      <4>1. trades \subseteq trades' /\ \A j \in Indexers : IsFiniteSet(newTrades'[j])
        BY <1>1, <1>4 DEF Counting
      <4> QED
        BY <1>3, <1>8, <4>1, PassedGrows
    <3>2. Seen(i, w) \subseteq Passed(w)'
      <4>1. \A l \in Logs : InChunk(i, l) => Past(i, l)'
        BY <1>1, <1>5, <1>7 DEF InChunk, Least, Past
      <4> QED
        BY <1>1, <1>6, <4>1 DEF Seen, Passed, Sides, Roles
    <3>3. \A m \in Passed(w) : m \notin Seen(i, w)
      <4>1. \A l \in Logs : InChunk(i, l) => ~Past(i, l)
        BY <1>1, <1>5, <1>7 DEF InChunk, Past
      <4> QED
        BY <1>6, <4>1 DEF Seen, Passed
    <3> QED
      BY <2>3, <3>1, <3>2, <3>3, AtLeastBoth
  <2>6. /\ Cardinality(Paid(i, w)) <= bumps[i][w]
        /\ bumps[i][w] <= Cardinality(Seen(i, w))
    BY <1>2 DEF Counting
  <2>7. /\ Cardinality(Sides(w)) <= tradeCount[w]
        /\ tradeCount[w] <= Cardinality(Passed(w))
    BY DEF CountInv, Counted
  <2>8. /\ Cardinality(Sides(w)) \in Nat /\ Cardinality(Sides(w)') \in Nat
        /\ Cardinality(Paid(i, w)) \in Nat /\ Cardinality(Seen(i, w)) \in Nat
        /\ Cardinality(Passed(w)) \in Nat /\ Cardinality(Passed(w)') \in Nat
    BY <2>1, <2>3, FS_CardinalityType
  <2>9. tradeCount[w] \in Nat /\ bumps[i][w] \in Nat
    BY DEF TypeOK
  <2>10. tradeCount'[w] = tradeCount[w] + bumps[i][w]
    BY <1>1
  <2> QED
    BY <2>4, <2>5, <2>6, <2>7, <2>8, <2>9, <2>10 DEF Counted
<1> QED
  BY <1>3, <1>4, <1>9 DEF CountInv

LEMMA CountStep ==
    TypeInv /\ TypeInv' /\ Gapless /\ Explained /\ CountInv /\ [Next]_vars => CountInv'
<1> SUFFICES ASSUME TypeInv, TypeInv', Gapless, Explained, CountInv, [Next]_vars
             PROVE  CountInv'
  OBVIOUS
<1>0. TypeOK /\ TypeOK'
  BY DEF TypeInv
<1>1. CASE UNCHANGED vars \/ NewBlock \/ \E t \in Tokens : MarketListed(t)
  <2>1. UNCHANGED <<tables, pc, cycle, todo, stmt, txn>>
    BY <1>1 DEF vars, NewBlock, MarketListed
  <2>2. ASSUME NEW j \in Indexers PROVE Counting(j)'
    BY <1>0, <2>1, CountingOfOthers DEF CountInv, tables, cycle, txn
  <2>3. ASSUME NEW w \in Wallets PROVE Counted(w)'
    BY <2>1 DEF CountInv, Counted, Sides, Passed, Past, tables, cycle
  <2> QED
    BY <2>1, <2>2, <2>3 DEF CountInv, tables
<1>2. ASSUME NEW i \in Indexers, Fail(i) \/ Deadlocked(i) PROVE CountInv'
  BY <1>0, <1>2, CountGiveUp DEF Fail, Deadlocked
<1> QED
  BY <1>0, <1>1, <1>2, CountBetween, CountHandle, CountCommit DEF Next, Step

\* "trade_count": a counter has every stored trade that its wallet was a side
\* of, and counts each one at most once per indexer, whatever overlaps, fails
\* or is scanned again.
THEOREM CountersBounded == Spec => []CountsBounded
<1>1. CountInv /\ TypeOK => CountsBounded
  <2> SUFFICES ASSUME CountInv, TypeOK, NEW w \in Wallets
               PROVE  /\ tradeCount[w] >= Cardinality(Sides(w))
                      /\ tradeCount[w] <= Cardinality(Indexers) * Cardinality(Sides(w))
    BY DEF CountsBounded
  <2>1. IsFiniteSet(Sides(w))
    <3>1. Sides(w) \subseteq trades \X Roles
      BY MarksFrom DEF MarksWithin
    <3> QED
      BY <3>1, MarksAreFinite, Bigger DEF CountInv
  <2>2. /\ IsFiniteSet(Indexers \X Sides(w))
        /\ Cardinality(Indexers \X Sides(w)) = Cardinality(Indexers) * Cardinality(Sides(w))
    BY <2>1, FS_Product, ChainAssumption
  <2>3. Passed(w) \subseteq Indexers \X Sides(w)
    BY DEF Passed
  <2>4. /\ Cardinality(Passed(w)) <= Cardinality(Indexers \X Sides(w))
        /\ Cardinality(Passed(w)) \in Nat
        /\ Cardinality(Indexers \X Sides(w)) \in Nat
    BY <2>2, <2>3, Bigger
  <2>5. Counted(w) /\ tradeCount[w] \in Nat
    BY DEF CountInv, TypeOK
  <2>6. Cardinality(Sides(w)) \in Nat
    BY <2>1, FS_CardinalityType
  <2> QED
    BY <2>2, <2>4, <2>5, <2>6 DEF Counted
<1>2. TypeInv => TypeOK
  BY DEF TypeInv
<1> QED
  BY <1>1, <1>2, TypeStart, TypeStep, GaplessStart, GaplessStep, ExplainedStart,
     ExplainedStep, CountStart, CountStep, PTL DEF Spec
=============================================================================
