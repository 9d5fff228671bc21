---------------------------- MODULE MarketSweep ----------------------------
(***************************************************************************)
(* The pollers that go through the markets already stored, next to the one *)
(* that stores them: order book depth (pollers.polymarket_clob and         *)
(* kalshi_clob) and the price history backfill (polymarket_history).       *)
(*                                                                         *)
(* A sweep selects the open markets, takes at most MaxPerCycle of them in  *)
(* whatever order the query returned them, fetches them concurrently, and  *)
(* writes everything it got in one transaction.  The levels of a book and  *)
(* the points of a history are left out (OrderBook has the arithmetic of   *)
(* the former); that the points a history returns twice are inserted once  *)
(* is the set union below.  Its record_poll concerns a health row of its   *)
(* own and is that of RestPoller.                                          *)
(***************************************************************************)
EXTENDS RestPoller

CONSTANTS
    MaxPerCycle,  \* polymarket_history_max_per_cycle and its likes
    Swept         \* the setups whose markets are swept

Sweepers == {"polymarket-clob", "kalshi-clob", "polymarket-history"}

ASSUME MarketSweepAssumption ==
    /\ MaxPerCycle \in Nat \ {0}
    /\ Swept \subseteq Setups \X Sweepers

VARIABLES
    step,    \* where each sweep is
    chosen,  \* the markets it goes through
    got,     \* those whose answer it has
    marks    \* which sweeper has written rows for which market

sweep == <<step, chosen, got, marks>>
allvars == <<vars, sweep>>

SweepTypeOK ==
    /\ step \in [Sweepers -> {"idle", "gather", "write"}]
    /\ chosen \in [Sweepers -> SUBSET Markets]
    /\ got \in [Sweepers -> SUBSET Markets]
    /\ \A s \in Sweepers : got[s] \subseteq chosen[s]
    /\ marks \subseteq Sweepers \X {m \in Markets : rows[m] # NoRow}

SweepInit ==
    /\ Init
    /\ step = [s \in Sweepers |-> "idle"]
    /\ chosen = [s \in Sweepers |-> {}]
    /\ got = [s \in Sweepers |-> {}]
    /\ marks = {}

-----------------------------------------------------------------------------
\* resolution IS NULL and closes_at not past.
Active == {m \in Markets : rows[m] # NoRow /\ ~rows[m].settled}

\* No ORDER BY: the slice keeps any MaxPerCycle of them.
Slices ==
    {S \in SUBSET Active : Cardinality(S) = Smaller(MaxPerCycle, Cardinality(Active))}

Select(s) ==
    /\ <<setup, s>> \in Swept
    /\ step[s] = "idle"
    /\ Active # {}
    /\ \E S \in Slices : chosen' = [chosen EXCEPT ![s] = S]
    /\ step' = [step EXCEPT ![s] = "gather"]
    /\ UNCHANGED <<vars, got, marks>>

SelectPolymarketBooks    == Select("polymarket-clob")
SelectKalshiBooks        == Select("kalshi-clob")
SelectHistories          == Select("polymarket-history")

\* Mutation of Gather: an empty answer is an error of the whole sweep.
GatherOrRaise(s, lost) ==
    /\ step[s] = "gather"
    /\ got' = [got EXCEPT ![s] = IF chosen[s] \cap settled = {} THEN chosen[s] \ lost ELSE {}]
    /\ step' = [step EXCEPT ![s] = "write"]
    /\ UNCHANGED <<chosen, marks>>

\* An answer without levels or points, as the venue gives for a market that
\* has settled, leaves no row.
Gather(s, lost) ==
    /\ step[s] = "gather"
    /\ got' = [got EXCEPT ![s] = chosen[s] \ (settled \cup lost)]
    /\ step' = [step EXCEPT ![s] = "write"]
    /\ UNCHANGED <<chosen, marks>>

\* _poll_one and _backfill_one give nothing for a market whose fetch fails.
GatherAll(s)  == Gather(s, {}) /\ UNCHANGED vars

GatherSome(s) ==
    /\ \E lost \in SUBSET chosen[s] : lost # {} /\ Gather(s, lost)
    /\ Fault
    /\ UNCHANGED <<venue, tables, record, walk, pc>>

Close(s) ==
    /\ step' = [step EXCEPT ![s] = "idle"]
    /\ chosen' = [chosen EXCEPT ![s] = {}]
    /\ got' = [got EXCEPT ![s] = {}]

WriteRows(s) ==
    /\ step[s] = "write"
    /\ marks' = marks \cup ({s} \X got[s])
    /\ Close(s)
    /\ UNCHANGED vars

\* One row that the database refuses, or a lost connection: none is stored.
WriteRowsFails(s) ==
    /\ step[s] = "write"
    /\ Fault
    /\ Close(s)
    /\ UNCHANGED <<venue, tables, record, walk, pc, marks>>

SweepCycle(s) == GatherAll(s) \/ WriteRows(s)

SweepNext ==
    \/ Next /\ UNCHANGED sweep
    \/ SelectPolymarketBooks \/ SelectKalshiBooks \/ SelectHistories
    \/ \E s \in Sweepers : SweepCycle(s) \/ GatherSome(s) \/ WriteRowsFails(s)

SweepSpec == SweepInit /\ [][SweepNext]_allvars

\* All pollers loop for ever (cli.py; the backfill is a daily cron).
FairSweepSpec ==
    /\ SweepSpec
    /\ \A p \in Procs : WF_allvars(Cycle(p) /\ UNCHANGED sweep)
    /\ \A s \in Sweepers : WF_allvars(Select(s) \/ SweepCycle(s))

-----------------------------------------------------------------------------
OpenStored == {m \in Markets : rows[m] # NoRow} \ settled

\* If the active markets fit into one cycle, every stored market that stays
\* open is swept: the failures and settlements of others do not keep it from
\* it.
SweptIfTheyFit ==
    MaxPerCycle >= LastMarket =>
        <>[](\A x \in Swept : setup = x[1] => {x[2]} \X OpenStored \subseteq marks)
=============================================================================
