---------------------------- MODULE ChainIndexer ----------------------------
(***************************************************************************)
(* The Polygon log indexer (pmi_ingest.chain.polygon_indexer): processes   *)
(* that call run_once again and again, each on its own or next to another  *)
(* (the loop of `pmi-ingest chain` and a `chain --once` beside it).        *)
(*                                                                         *)
(* A cycle takes the block to start from out of audit_chain_events, then   *)
(* writes chunk by chunk, one transaction per chunk: the event rows, the   *)
(* trades of fills whose market is known, and a counter per wallet.        *)
(* Transactions are at READ COMMITTED; an INSERT ... ON CONFLICT waits     *)
(* for an uncommitted row with its key, an update for the row's lock.      *)
(*                                                                         *)
(* The chain is final below the head lag: shallower reorganisations are    *)
(* what polygon_indexer_head_lag_blocks is for.  record_poll, whose rows   *)
(* the indexer never reads, amounts columns and the raw payloads are left  *)
(* out; a log that get_event_data cannot decode is of kind "other".        *)
(***************************************************************************)
EXTENDS Naturals, FiniteSets

CONSTANTS
    Indexers,
    Logs,       \* [block, idx, kind, token, maker, taker]
    Wallets,
    Tokens,
    NoWallet,   \* the zero address
    NoToken,    \* asset id 0
    StartBlock, \* polygon_indexer_start_block
    Chunk,      \* polygon_indexer_chunk_blocks
    Chunks,     \* polygon_indexer_chunks_per_cycle
    Lag,        \* polygon_indexer_head_lag_blocks
    MaxBlock,   \* bound: the last block that is mined
    MaxFaults   \* bound: cycles that raise or are killed

ASSUME ChainAssumption ==
    /\ IsFiniteSet(Indexers)
    /\ Logs \subseteq [block : Nat, idx : Nat, kind : {"fill", "audit", "other"},
                       token : Tokens \cup {NoToken},
                       maker : Wallets \cup {NoWallet},
                       taker : Wallets \cup {NoWallet}]
    /\ \A k, l \in Logs : k.block = l.block /\ k.idx = l.idx => k = l
    /\ NoWallet \notin Wallets
    /\ NoToken \notin Tokens
    /\ StartBlock \in Nat
    /\ Chunk \in Nat \ {0}
    /\ Chunks \in Nat \ {0}
    /\ Lag \in Nat
    /\ MaxBlock \in Nat
    /\ MaxFaults \in Nat

VARIABLES
    head,       \* the block number of the chain's head
    known,      \* tokens of the rows of core_markets
    events,     \* audit_chain_events
    trades,     \* ts_trades with source 'chain'
    tradeCount, \* core_traders.trade_count
    pc,         \* where each indexer is
    scan,       \* head_to_scan
    pos,        \* chunk_start
    last,       \* end_for_cycle
    todo,       \* logs of the chunk still to handle
    stmt,       \* the statement of the first of them that comes next
    cache,      \* _TokenMarketCache
    newEvents,  \* rows of the open transaction
    newTrades,
    bumps,      \* its updates of core_traders
    faults

chain  == <<head, known>>
tables == <<events, trades, tradeCount>>
cycle  == <<scan, pos, last>>
txn    == <<newEvents, newTrades, bumps>>
vars == <<chain, tables, pc, cycle, todo, stmt, cache, txn, faults>>

-----------------------------------------------------------------------------
Handled == {l \in Logs : l.kind # "other"}
Fills   == {l \in Logs : l.kind = "fill"}

\* The order in which eth_getLogs returns logs and the loop takes them.
Before(k, l) == k.block < l.block \/ (k.block = l.block /\ k.idx < l.idx)

Least(a, b) == IF a <= b THEN a ELSE b

NoBumps == [w \in Wallets |-> 0]
Cold    == [t \in Tokens |-> "cold"]

TypeOK ==
    /\ head \in Nat
    /\ known \in SUBSET Tokens
    /\ events \in SUBSET Handled
    /\ trades \in SUBSET Fills
    /\ tradeCount \in [Wallets -> Nat]
    /\ pc \in [Indexers -> {"idle", "cursor", "fetch", "write"}]
    /\ scan \in [Indexers -> Nat]
    /\ pos \in [Indexers -> Nat]
    /\ last \in [Indexers -> Nat]
    /\ todo \in [Indexers -> SUBSET Logs]
    /\ stmt \in [Indexers -> {"event", "trade", "maker", "taker"}]
    /\ cache \in [Indexers -> [Tokens -> {"cold", "none", "market"}]]
    /\ newEvents \in [Indexers -> SUBSET Handled]
    /\ newTrades \in [Indexers -> SUBSET Fills]
    /\ bumps \in [Indexers -> [Wallets -> Nat]]
    /\ faults \in Nat

Init ==
    /\ head = 0
    /\ known = {}
    /\ events = {}
    /\ trades = {}
    /\ tradeCount = NoBumps
    /\ pc = [i \in Indexers |-> "idle"]
    /\ scan = [i \in Indexers |-> 0]
    /\ pos = [i \in Indexers |-> 0]
    /\ last = [i \in Indexers |-> 0]
    /\ todo = [i \in Indexers |-> {}]
    /\ stmt = [i \in Indexers |-> "event"]
    /\ cache = [i \in Indexers |-> Cold]
    /\ newEvents = [i \in Indexers |-> {}]
    /\ newTrades = [i \in Indexers |-> {}]
    /\ bumps = [i \in Indexers |-> NoBumps]
    /\ faults = 0

-----------------------------------------------------------------------------
(* Outside the indexer *)

NewBlock ==
    /\ head < MaxBlock
    /\ head' = head + 1
    /\ UNCHANGED <<known, tables, pc, cycle, todo, stmt, cache, txn, faults>>

\* The REST poller writes the market that a token belongs to.
MarketListed(t) ==
    /\ known' = known \cup {t}
    /\ known' # known
    /\ UNCHANGED <<head, tables, pc, cycle, todo, stmt, cache, txn, faults>>

-----------------------------------------------------------------------------
(* A cycle *)

StartCycle(i) ==
    /\ pc[i] = "idle"
    /\ scan' = [scan EXCEPT ![i] = IF head >= Lag THEN head - Lag ELSE 0]
    /\ cache' = [cache EXCEPT ![i] = Cold]
    /\ pc' = [pc EXCEPT ![i] = "cursor"]
    /\ UNCHANGED <<chain, tables, pos, last, todo, stmt, txn, faults>>

\* MUTANT: the cursor's own block is scanned again.
FirstBlockAgain(b) ==
    \/ events = {} /\ b = StartBlock
    \/ /\ \E l \in events : b = l.block
       /\ \A l \in events : l.block <= b

\* b is where a cycle starts: after the largest block that has a row.
FirstBlock(b) ==
    \/ events = {} /\ b = StartBlock
    \/ /\ \E l \in events : b = l.block + 1
       /\ \A l \in events : l.block < b

ReadCursor(i) ==
    \E b \in {StartBlock} \cup 0 .. MaxBlock + 1 :
        LET end == Least(scan[i], b + Chunk * Chunks - 1)
        IN  /\ pc[i] = "cursor"
            /\ FirstBlock(b)
            /\ IF end < b
               THEN pc' = [pc EXCEPT ![i] = "idle"] /\ UNCHANGED <<pos, last>>
               ELSE /\ pc' = [pc EXCEPT ![i] = "fetch"]
                    /\ pos' = [pos EXCEPT ![i] = b]
                    /\ last' = [last EXCEPT ![i] = end]
            /\ scan' = [scan EXCEPT ![i] = 0]
            /\ UNCHANGED <<chain, tables, todo, stmt, cache, txn, faults>>

InChunk(i, l) ==
    /\ pos[i] <= l.block
    /\ l.block <= Least(pos[i] + Chunk - 1, last[i])

\* MUTANT: an empty chunk ends the cycle.
FetchLogsStops(i) ==
    LET logs == {l \in Logs : InChunk(i, l)}
    IN  /\ pc[i] = "fetch"
        /\ pos[i] <= last[i]
        /\ todo' = [todo EXCEPT ![i] = logs]
        /\ pc' = [pc EXCEPT ![i] = IF logs = {} THEN "idle" ELSE "write"]
        /\ UNCHANGED <<chain, tables, cycle, stmt, cache, txn, faults>>

FetchLogs(i) ==
    LET logs == {l \in Logs : InChunk(i, l)}
    IN  /\ pc[i] = "fetch"
        /\ pos[i] <= last[i]
        /\ \/ /\ logs = {}
              /\ pos' = [pos EXCEPT ![i] = @ + Chunk]
              /\ UNCHANGED <<pc, todo>>
           \/ /\ logs # {}
              /\ todo' = [todo EXCEPT ![i] = logs]
              /\ pc' = [pc EXCEPT ![i] = "write"]
              /\ pos' = pos
        /\ UNCHANGED <<chain, tables, scan, last, stmt, cache, txn, faults>>

EndCycle(i) ==
    /\ pc[i] = "fetch"
    /\ pos[i] > last[i]
    /\ pc' = [pc EXCEPT ![i] = "idle"]
    /\ pos' = [pos EXCEPT ![i] = 0]
    /\ last' = [last EXCEPT ![i] = 0]
    /\ UNCHANGED <<chain, tables, scan, todo, stmt, cache, txn, faults>>

-----------------------------------------------------------------------------
(* The transaction of a chunk, statement by statement *)

First(i, l) == l \in todo[i] /\ \A k \in todo[i] : ~Before(k, l)

At(i, l, s) == pc[i] = "write" /\ stmt[i] = s /\ First(i, l)

GoOn(i, s) == stmt' = [stmt EXCEPT ![i] = s] /\ todo' = todo
NextLog(i, l) ==
    /\ stmt' = [stmt EXCEPT ![i] = "event"]
    /\ todo' = [todo EXCEPT ![i] = @ \ {l}]

Skip(i, l) ==
    /\ At(i, l, "event")
    /\ l \notin Handled
    /\ NextLog(i, l)
    /\ UNCHANGED <<chain, tables, pc, cycle, cache, txn, faults>>

EventFree(i, l) == l \in events \/ \A j \in Indexers \ {i} : l \notin newEvents[j]
TradeFree(i, l) == l \in trades \/ \A j \in Indexers \ {i} : l \notin newTrades[j]
RowFree(i, w)   == \A j \in Indexers \ {i} : bumps[j][w] = 0

InsertEvent(i, l) ==
    /\ At(i, l, "event")
    /\ l \in Handled
    /\ EventFree(i, l)
    /\ newEvents' = [newEvents EXCEPT ![i] = @ \cup ({l} \ events)]
    /\ IF l.kind = "fill" /\ l.token # NoToken THEN GoOn(i, "trade") ELSE NextLog(i, l)
    /\ UNCHANGED <<chain, tables, pc, cycle, cache, newTrades, bumps, faults>>

\* _TokenMarketCache.get keeps what it found, a miss included.
Found(i, t) == IF cache[i][t] = "cold" THEN t \in known ELSE cache[i][t] = "market"

LookUp(i, t) ==
    cache' = [cache EXCEPT ![i][t] = IF Found(i, t) THEN "market" ELSE "none"]

MarketUnknown(i, l) ==
    /\ At(i, l, "trade")
    /\ ~Found(i, l.token)
    /\ LookUp(i, l.token)
    /\ NextLog(i, l)
    /\ UNCHANGED <<chain, tables, pc, cycle, txn, faults>>

\* MUTANT: the trade is written in a session of its own.
InsertTradeAtOnce(i, l) ==
    /\ At(i, l, "trade")
    /\ Found(i, l.token)
    /\ LookUp(i, l.token)
    /\ trades' = trades \cup {l}
    /\ GoOn(i, "maker")
    /\ UNCHANGED <<chain, events, tradeCount, pc, cycle, txn, faults>>

InsertTrade(i, l) ==
    /\ At(i, l, "trade")
    /\ Found(i, l.token)
    /\ LookUp(i, l.token)
    /\ TradeFree(i, l)
    /\ newTrades' = [newTrades EXCEPT ![i] = @ \cup ({l} \ trades)]
    /\ GoOn(i, "maker")
    /\ UNCHANGED <<chain, tables, pc, cycle, newEvents, bumps, faults>>

\* _upsert_trader: done for a trade that was already there as well.
Upsert(i, w) ==
    \/ w = NoWallet /\ bumps' = bumps
    \/ w # NoWallet /\ RowFree(i, w) /\ bumps' = [bumps EXCEPT ![i][w] = @ + 1]

UpsertMaker(i, l) ==
    /\ At(i, l, "maker")
    /\ Upsert(i, l.maker)
    /\ GoOn(i, "taker")
    /\ UNCHANGED <<chain, tables, pc, cycle, cache, newEvents, newTrades, faults>>

UpsertTaker(i, l) ==
    /\ At(i, l, "taker")
    /\ Upsert(i, l.taker)
    /\ NextLog(i, l)
    /\ UNCHANGED <<chain, tables, pc, cycle, cache, newEvents, newTrades, faults>>

CloseTxn(i) ==
    /\ newEvents' = [newEvents EXCEPT ![i] = {}]
    /\ newTrades' = [newTrades EXCEPT ![i] = {}]
    /\ bumps' = [bumps EXCEPT ![i] = NoBumps]

CommitChunk(i) ==
    /\ pc[i] = "write"
    /\ todo[i] = {}
    /\ events' = events \cup newEvents[i]
    /\ trades' = trades \cup newTrades[i]
    /\ tradeCount' = [w \in Wallets |-> tradeCount[w] + bumps[i][w]]
    /\ CloseTxn(i)
    /\ pos' = [pos EXCEPT ![i] = @ + Chunk]
    /\ pc' = [pc EXCEPT ![i] = "fetch"]
    /\ UNCHANGED <<chain, scan, last, todo, stmt, cache, faults>>

-----------------------------------------------------------------------------
(* Failure *)

\* run_once lets go of the transaction and the cycle.
GiveUp(i) ==
    /\ CloseTxn(i)
    /\ pc' = [pc EXCEPT ![i] = "idle"]
    /\ scan' = [scan EXCEPT ![i] = 0]
    /\ pos' = [pos EXCEPT ![i] = 0]
    /\ last' = [last EXCEPT ![i] = 0]
    /\ todo' = [todo EXCEPT ![i] = {}]
    /\ stmt' = [stmt EXCEPT ![i] = "event"]

\* MUTANT: the exception is caught inside the loop over the chunks.
FailChunk(i) ==
    /\ pc[i] = "write"
    /\ faults < MaxFaults
    /\ faults' = faults + 1
    /\ CloseTxn(i)
    /\ pc' = [pc EXCEPT ![i] = "fetch"]
    /\ pos' = [pos EXCEPT ![i] = @ + Chunk]
    /\ todo' = [todo EXCEPT ![i] = {}]
    /\ stmt' = [stmt EXCEPT ![i] = "event"]
    /\ UNCHANGED <<chain, tables, scan, last, cache>>

\* An exception of the RPC node or the database, or the end of the process.
Fail(i) ==
    /\ pc[i] # "idle"
    /\ faults < MaxFaults
    /\ faults' = faults + 1
    /\ GiveUp(i)
    /\ UNCHANGED <<chain, tables, cache>>

\* i waits for a row that j has written and not committed.
WaitsFor(i, j) ==
    /\ i # j
    /\ \E l \in todo[i] :
          \/ At(i, l, "event") /\ l \notin events /\ l \in newEvents[j]
          \/ At(i, l, "trade") /\ Found(i, l.token) /\ l \notin trades /\ l \in newTrades[j]
          \/ At(i, l, "maker") /\ l.maker # NoWallet /\ bumps[j][l.maker] > 0
          \/ At(i, l, "taker") /\ l.taker # NoWallet /\ bumps[j][l.taker] > 0

\* Postgres breaks a circle of waiting transactions by aborting one.
Deadlocked(i) ==
    /\ \E S \in SUBSET Indexers : i \in S /\ \A j \in S : \E k \in S : WaitsFor(j, k)
    /\ GiveUp(i)
    /\ UNCHANGED <<chain, tables, cache, faults>>

-----------------------------------------------------------------------------
HandleLog(i, l) ==
    \/ Skip(i, l)
    \/ InsertEvent(i, l)
    \/ MarketUnknown(i, l)
    \/ InsertTrade(i, l)
    \/ UpsertMaker(i, l)
    \/ UpsertTaker(i, l)

Step(i) ==
    \/ StartCycle(i)
    \/ ReadCursor(i)
    \/ FetchLogs(i)
    \/ EndCycle(i)
    \/ \E l \in Logs : HandleLog(i, l)
    \/ CommitChunk(i)
    \/ Deadlocked(i)

Next ==
    \/ NewBlock
    \/ \E t \in Tokens : MarketListed(t)
    \/ \E i \in Indexers : Step(i) \/ Fail(i)

Spec == Init /\ [][Next]_vars

\* Blocks keep coming and each indexer runs on: the loop of `pmi-ingest chain`
\* starts the next cycle whatever became of the last one.
FairSpec == Spec /\ WF_vars(NewBlock) /\ \A i \in Indexers : WF_vars(Step(i))

-----------------------------------------------------------------------------
(* Properties *)

\* The cursor derived from the rows themselves never passes a log: whichever
\* indexers overlap, fail or start anew, the events are a gapless, growing
\* trail of the chain.
Trail == INSTANCE ChainTrail WITH Logs <- Handled, trail <- events
FollowsChain == Trail!Spec

\* "The authoritative trail of WHY any ts_trades / core_traders row exists":
\* every trade has its event and every counted wallet one of the trades.
TrailExplains ==
    /\ trades \subseteq events
    /\ \A w \in Wallets :
          tradeCount[w] > 0 => \E l \in trades : w \in {l.maker, l.taker}

\* The sides of stored trades that a wallet was on.
Sides(w) == {p \in trades \X {"maker", "taker"} : p[1][p[2]] = w}

\* Counters never miss a stored trade, and count one at most once per indexer.
CountsBounded ==
    \A w \in Wallets :
        /\ tradeCount[w] >= Cardinality(Sides(w))
        /\ tradeCount[w] <= Cardinality(Indexers) * Cardinality(Sides(w))

\* No stretch of the chain as long as a cycle's window is without handled logs.
Dense ==
    \A b \in StartBlock .. MaxBlock :
        b + Chunk * Chunks - 1 <= MaxBlock - Lag
            => \E l \in Handled : l.block \in b .. b + Chunk * Chunks - 1

\* On such a chain every log below the head lag is indexed in the end, also
\* when indexers wait for each other in a circle.
AllIndexed ==
    Dense => \A l \in Handled :
                 l.block \in StartBlock .. MaxBlock - Lag => <>(l \in events)
=============================================================================
