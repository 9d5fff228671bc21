----------------------------- MODULE RestPoller -----------------------------
(***************************************************************************)
(* One REST source of pmi_ingest.pollers and the processes that poll it.   *)
(*                                                                         *)
(* A cycle (run_once) asks the venue for its markets page by page, writes  *)
(* each page in a transaction of its own (upsert of core_markets, snapshot *)
(* of the price) and ends by recording itself in audit_source_poll_log and *)
(* audit_source_health (pmi_ingest.health.record_poll).  The venue changes *)
(* meanwhile: markets are listed, settle, and move in the listing.         *)
(*                                                                         *)
(* The sources differ in how they walk the listing and in what they store: *)
(*   polymarket  opaque cursor; categories looked up first, without them   *)
(*               when that fails; open markets only                        *)
(*   kalshi      the same, but a failed look-up ends the cycle             *)
(*   manifold    the last id of a page asks for the next one               *)
(*   metaculus   a growing offset while `next` is there                    *)
(*   forecastex  page numbers up to total_pages                            *)
(*   gemini, predictit, mock   one request                                 *)
(*                                                                         *)
(* A market is a number, larger when it was created later.  Titles, prices *)
(* and times are left out; what the database makes of a market is its      *)
(* `kind`.                                                                 *)
(***************************************************************************)
EXTENDS Naturals, Sequences, FiniteSets

CONSTANTS
    LastMarket,  \* the markets are 1 .. LastMarket
    FirstListed, \* the first of them are listed from the start
    Procs,       \* processes polling the source: the loop, a manual --once
    Setups,      \* the sources considered: the venue, how many markets it
                 \* comes to list, what the database makes of them, who
                 \* polls it
    PageSize,
    MaxPages,
    MaxFaults,   \* bound on failing requests, commits and processes and on
                 \* changes of the listing's order
    Recent,      \* how many poll-log rows are remembered; also where
                 \* consecutive_failures saturates
    NoRow,
    None

Markets == 1 .. LastMarket

\* priced   stored with a snapshot
\* bare     stored, no price field: no snapshot
\* nameless raises ValueError before any statement
\* refused  its upsert is an error to the database (a value too long)
\* overflow upserted, but the database refuses its snapshot
Kind == {"priced", "bare", "nameless", "refused", "overflow"}

Cursor == {"polymarket", "kalshi"}
Single == {"gemini", "predictit", "mock"}
Venues == Cursor \cup Single \cup {"manifold", "metaculus", "forecastex"}

ASSUME RestPollerAssumption ==
    /\ LastMarket \in Nat
    /\ FirstListed \in 0 .. LastMarket
    /\ Setups \subseteq [venue : Venues, size : FirstListed .. LastMarket,
                       kind : [Markets -> Kind], procs : SUBSET Procs]
    /\ PageSize \in Nat \ {0}
    /\ MaxPages \in Nat
    /\ MaxFaults \in Nat
    /\ Recent \in Nat /\ Recent > 3
    /\ None \notin Nat
    /\ NoRow \notin [settled : BOOLEAN, category : BOOLEAN]
    /\ NoRow \notin [fails : Nat, status : {"healthy", "degraded", "down"}]

VARIABLES
    setup,      \* the source, as above
    born,       \* markets 1 .. born have been listed
    listing,    \* the venue's answer if it did not page
    settled,    \* markets whose outcome the venue has decided
    rows,       \* core_markets of the venue
    snapped,    \* markets with a row in ts_price_snapshots
    log,        \* success flags of the last Recent rows of audit_source_poll_log
    health,     \* the source's row of audit_source_health
    pc,         \* where each process is in its cycle
    cats,       \* markets whose category it looked up
    at,         \* the cursor it sends with its next request
    page,       \* pages it has walked
    buf,        \* the page it is about to write
    ok,         \* `success`
    seen,       \* the health row record_poll has read
    faults,
    through,    \* history: markets listed since the cycle began
    cut,        \* history: the walk ended before the listing did, or a page
                \* of it was dropped
    raced       \* history: some record_poll wrote from a row it had read
                \* before another one committed

venue  == <<setup, born, listing, settled>>
tables == <<rows, snapped>>
record == <<log, health, seen, raced>>
walk   == <<cats, at, page, buf, ok, through, cut>>
vars == <<venue, tables, record, walk, pc, faults>>

Status == {"healthy", "degraded", "down"}
Rows   == [settled : BOOLEAN, category : BOOLEAN]
Health == [fails : Nat, status : Status]

kind == setup.kind

Elems(s) == {s[i] : i \in DOMAIN s}
Without(s, i) == [j \in 1 .. Len(s) - 1 |-> IF j < i THEN s[j] ELSE s[j + 1]]
Smaller(a, b) == IF a < b THEN a ELSE b

TypeOK ==
    /\ setup \in Setups
    /\ born \in 0 .. LastMarket
    /\ listing \in Seq(1 .. born)
    /\ settled \in SUBSET (1 .. born)
    /\ rows \in [Markets -> Rows \cup {NoRow}]
    /\ snapped \in SUBSET {m \in Markets : rows[m] # NoRow}
    /\ log \in Seq(BOOLEAN) /\ Len(log) =< Recent
    /\ health \in Health \cup {NoRow}
    /\ pc \in [Procs -> {"idle", "enrich", "fetch", "write", "record", "commit"}]
    /\ cats \in [Procs -> SUBSET Markets]
    /\ at \in [Procs -> Markets \cup {None}]
    /\ page \in [Procs -> 0 .. MaxPages]
    /\ buf \in [Procs -> [items : Seq(Markets), more : BOOLEAN, next : Markets \cup {None}]]
    /\ ok \in [Procs -> BOOLEAN]
    /\ seen \in [Procs -> Health \cup {NoRow}]
    /\ faults \in 0 .. MaxFaults
    /\ through \in [Procs -> SUBSET Markets]
    /\ cut \in [Procs -> BOOLEAN]
    /\ raced \in BOOLEAN

NoPage == [items |-> <<>>, more |-> FALSE, next |-> None]
Newest(n) == [i \in 1 .. n |-> n + 1 - i]

Init ==
    /\ setup \in Setups
    /\ born = FirstListed
    /\ listing = Newest(born)
    /\ settled = {}
    /\ rows = [m \in Markets |-> NoRow]
    /\ snapped = {}
    /\ log = <<>>
    /\ health = NoRow
    /\ pc = [p \in Procs |-> "idle"]
    /\ cats = [p \in Procs |-> {}]
    /\ at = [p \in Procs |-> None]
    /\ page = [p \in Procs |-> 0]
    /\ buf = [p \in Procs |-> NoPage]
    /\ ok = [p \in Procs |-> TRUE]
    /\ seen = [p \in Procs |-> NoRow]
    /\ faults = 0
    /\ through = [p \in Procs |-> {}]
    /\ cut = [p \in Procs |-> FALSE]
    /\ raced = FALSE

-----------------------------------------------------------------------------
(* The venue *)

\* The request asks for open markets only, or the venue delists at settlement.
OpenOnly == setup.venue \in Cursor \cup {"forecastex"}

Arrive ==
    /\ born < setup.size
    /\ born' = born + 1
    /\ listing' = <<born + 1>> \o listing
    /\ UNCHANGED <<setup, settled, tables, record, walk, pc, faults>>

Settle(m) ==
    /\ m \in 1 .. born \ settled
    /\ settled' = settled \cup {m}
    /\ IF OpenOnly
       THEN /\ \E i \in DOMAIN listing :
                  listing[i] = m /\ listing' = Without(listing, i)
            /\ through' = [p \in Procs |-> through[p] \ {m}]
       ELSE UNCHANGED <<listing, through>>
    /\ UNCHANGED <<setup, born, tables, record, cats, at, page, buf, ok,
                   cut, pc, faults>>

Fault == faults < MaxFaults /\ faults' = faults + 1

\* ForecastEx sorts by open interest, which trading changes; counted with the
\* failures.
Overtake(i) ==
    /\ setup.venue = "forecastex"
    /\ i \in 1 .. Len(listing) - 1
    /\ Fault
    /\ listing' = [listing EXCEPT ![i] = listing[i + 1], ![i + 1] = listing[i]]
    /\ UNCHANGED <<setup, born, settled, tables, record, walk, pc>>

Venue ==
    \/ Arrive
    \/ \E m \in Markets : Settle(m)
    \/ \E i \in 1 .. LastMarket : Overtake(i)

-----------------------------------------------------------------------------
(* The walk *)

\* The local variables of run_once start afresh in every cycle; they are
\* cleared at its end.
EndCycle(p) ==
    /\ pc' = [pc EXCEPT ![p] = "idle"]
    /\ cats' = [cats EXCEPT ![p] = {}]
    /\ at' = [at EXCEPT ![p] = None]
    /\ page' = [page EXCEPT ![p] = 0]
    /\ buf' = [buf EXCEPT ![p] = NoPage]
    /\ ok' = [ok EXCEPT ![p] = TRUE]
    /\ seen' = [seen EXCEPT ![p] = NoRow]
    /\ through' = [through EXCEPT ![p] = {}]
    /\ cut' = [cut EXCEPT ![p] = FALSE]

Start(p) ==
    /\ p \in setup.procs
    /\ pc[p] = "idle"
    /\ pc' = [pc EXCEPT ![p] = IF setup.venue \in Cursor THEN "enrich" ELSE "fetch"]
    /\ through' = [through EXCEPT ![p] = Elems(listing)]
    /\ UNCHANGED <<venue, tables, record, cats, at, page, buf, ok, cut, faults>>

Enrich(p) ==
    /\ pc[p] = "enrich"
    /\ cats' = [cats EXCEPT ![p] = Elems(listing)]
    /\ pc' = [pc EXCEPT ![p] = "fetch"]
    /\ UNCHANGED <<venue, tables, record, at, page, buf, ok, through, cut, faults>>

\* Polymarket goes on with the categories it has collected by then.
PolymarketEnrichFails(p) ==
    /\ setup.venue = "polymarket"
    /\ pc[p] = "enrich"
    /\ Fault
    /\ \E some \in SUBSET Elems(listing) : cats' = [cats EXCEPT ![p] = some]
    /\ pc' = [pc EXCEPT ![p] = "fetch"]
    /\ UNCHANGED <<venue, tables, record, at, page, buf, ok, through, cut>>

GiveUp(p) ==
    /\ ok' = [ok EXCEPT ![p] = FALSE]
    /\ pc' = [pc EXCEPT ![p] = "record"]
    /\ buf' = [buf EXCEPT ![p] = NoPage]
    /\ UNCHANGED <<venue, tables, record, cats, at, page, through, cut>>

KalshiEnrichFails(p) ==
    /\ setup.venue = "kalshi"
    /\ pc[p] = "enrich"
    /\ Fault
    /\ GiveUp(p)

\* What the venue returns, a page of `rest` or all of it, with the cursor for
\* the rest.
Page(rest) == SubSeq(rest, 1, Smaller(PageSize, Len(rest)))

AfterCursor(p) ==
    {SubSeq(listing, k + 1, Len(listing)) :
        k \in {n \in 0 .. Len(listing) :
                 \A i \in DOMAIN listing :
                    i > n <=> at[p] = None \/ listing[i] < at[p]}}
FromOffset(p)  == SubSeq(listing, PageSize * page[p] + 1, Len(listing))

Keyset(rest) ==
    [items |-> Page(rest), more |-> Len(rest) > PageSize,
     next  |-> IF Len(rest) > PageSize THEN rest[PageSize] ELSE None]

\* Manifold is asked for what comes before the last market of the page.
Before(rest) ==
    [items |-> Page(rest), more |-> TRUE, next |-> Page(rest)[Len(Page(rest))]]

Numbered(rest) == [items |-> Page(rest), more |-> Len(rest) > PageSize, next |-> None]

Whole(rest) == [items |-> rest, more |-> FALSE, next |-> None]

Fetch(p, rest, answer) ==
    /\ pc[p] = "fetch"
    /\ page[p] < MaxPages
    /\ IF rest = <<>>
       THEN /\ pc' = [pc EXCEPT ![p] = "record"]
            /\ UNCHANGED buf
       ELSE /\ buf' = [buf EXCEPT ![p] = answer]
            /\ pc' = [pc EXCEPT ![p] = "write"]
    /\ UNCHANGED <<venue, tables, record, cats, at, page, ok, through, cut, faults>>

PolymarketFetchByOffset(p) ==
    setup.venue = "polymarket" /\ Fetch(p, FromOffset(p), Keyset(FromOffset(p)))

PolymarketFetch(p) ==
    /\ setup.venue = "polymarket"
    /\ \E rest \in AfterCursor(p) : Fetch(p, rest, Keyset(rest))

KalshiFetch(p) ==
    /\ setup.venue = "kalshi"
    /\ \E rest \in AfterCursor(p) : Fetch(p, rest, Keyset(rest))

ManifoldFetch(p) ==
    /\ setup.venue = "manifold"
    /\ \E rest \in AfterCursor(p) : Fetch(p, rest, Before(rest))

MetaculusFetch(p) ==
    setup.venue = "metaculus" /\ Fetch(p, FromOffset(p), Numbered(FromOffset(p)))

ForecastExFetch(p) ==
    setup.venue = "forecastex" /\ Fetch(p, FromOffset(p), Numbered(FromOffset(p)))

SingleFetch(p) ==
    setup.venue \in Single /\ Fetch(p, listing, Whole(listing))

\* The API stops advancing and echoes the cursor it was sent.
FetchEcho(p) ==
    /\ setup.venue \in Cursor
    /\ pc[p] = "fetch"
    /\ page[p] < MaxPages
    /\ at[p] # None
    /\ Fault
    /\ \E rest \in AfterCursor(p) \ {<<>>} :
          buf' = [buf EXCEPT ![p] = [Keyset(rest) EXCEPT !.next = at[p]]]
    /\ pc' = [pc EXCEPT ![p] = "write"]
    /\ UNCHANGED <<venue, tables, record, cats, at, page, ok, through, cut>>

\* The retries of a request are used up, or its answer cannot be read.
FetchFails(p) ==
    /\ pc[p] = "fetch"
    /\ page[p] < MaxPages
    /\ Fault
    /\ GiveUp(p)

\* polymarket_max_pages and its likes: logged, not an error.
Ceiling(p) ==
    /\ pc[p] = "fetch"
    /\ page[p] >= MaxPages
    /\ pc' = [pc EXCEPT ![p] = "record"]
    /\ cut' = [cut EXCEPT ![p] = TRUE]
    /\ UNCHANGED <<venue, tables, record, cats, at, page, buf, ok, through, faults>>

-----------------------------------------------------------------------------
(* One page is one transaction *)

\* The try around each market catches what its upsert raises, but after an
\* error the transaction refuses every further statement.
Reached(items) ==
    {items[i] : i \in {j \in DOMAIN items :
                         /\ kind[items[j]] # "nameless"
                         /\ \A k \in 1 .. j : kind[items[k]] # "refused"}}

Refuses(items) == \E m \in Elems(items) : kind[m] = "refused"

\* Flushing a snapshot into an aborted transaction raises; with nothing to
\* flush, the COMMIT of an aborted transaction is a silent ROLLBACK.
Outcome(items, quoted) ==
    IF Refuses(items)
    THEN IF Reached(items) \cap quoted = {} THEN "dropped" ELSE "failed"
    ELSE IF \E m \in Reached(items) \cap quoted : kind[m] = "overflow"
         THEN "failed" ELSE "stored"

InsertOnly(items, quoted, row) ==
    /\ rows' = [m \in Markets |->
                  IF m \in Reached(items) /\ rows[m] = NoRow THEN row[m] ELSE rows[m]]
    /\ snapped' = snapped \cup (Reached(items) \cap quoted)

\* INSERT ... ON CONFLICT (venue, external_id) DO UPDATE of each market that
\* is reached; the snapshots, added to the session, are flushed by the commit
\* (autoflush is off).
Upsert(items, quoted, row) ==
    /\ rows' = [m \in Markets |-> IF m \in Reached(items) THEN row[m] ELSE rows[m]]
    /\ snapped' = snapped \cup (Reached(items) \cap quoted)

\* items: the markets of the page the loop gets to; quoted: those with a
\* price; row: what an upsert stores; goesOn: whether the walk continues.
WritePage(p, items, quoted, row, goesOn) ==
    LET outcome == Outcome(items, quoted)
    IN  /\ pc[p] = "write"
        /\ IF outcome = "stored" THEN Upsert(items, quoted, row) ELSE UNCHANGED tables
        /\ IF outcome = "failed"
           THEN /\ ok' = [ok EXCEPT ![p] = FALSE]
                /\ pc' = [pc EXCEPT ![p] = "record"]
                /\ UNCHANGED <<at, page, cut>>
           ELSE /\ pc' = [pc EXCEPT ![p] = IF goesOn THEN "fetch" ELSE "record"]
                /\ at' = [at EXCEPT ![p] = buf[p].next]
                /\ page' = [page EXCEPT ![p] = IF goesOn THEN @ + 1 ELSE @]
                /\ cut' = [cut EXCEPT ![p] =
                             \/ @
                             \/ outcome = "dropped"
                             \/ items # buf[p].items
                             \/ at[p] # None /\ buf[p].next = at[p]]
                /\ UNCHANGED ok
        /\ buf' = [buf EXCEPT ![p] = NoPage]
        /\ UNCHANGED <<venue, record, cats, through>>

Quoted == {m \in Markets : kind[m] \in {"priced", "overflow"}}

\* A keyset walk goes on while the cursor moves.
Advances(p) == buf[p].next \notin {None, at[p]}

\* The stored category is the looked-up one or none; the markets asked for
\* are open.
PolymarketRow(p) ==
    [m \in Markets |-> [settled |-> FALSE, category |-> m \in cats[p]]]

PolymarketPage(p) ==
    /\ setup.venue = "polymarket"
    /\ WritePage(p, buf[p].items, Quoted, PolymarketRow(p), Advances(p))
    /\ UNCHANGED faults

KalshiRow(p) ==
    [m \in Markets |-> [settled |-> FALSE, category |-> m \in cats[p]]]

KalshiPage(p) ==
    /\ setup.venue = "kalshi"
    /\ WritePage(p, buf[p].items, Quoted, KalshiRow(p), Advances(p))
    /\ UNCHANGED faults

\* The others store what the listing says of a market, settled or not.
AsListed == [m \in Markets |-> [settled |-> m \in settled, category |-> TRUE]]

\* The answers of a multiple-choice market are fetched inside the page's
\* transaction; a market whose fetch fails, the i-th, is skipped.
ManifoldRows(p, i) == Without(buf[p].items, i)

ManifoldPage(p) ==
    /\ setup.venue = "manifold"
    /\ WritePage(p, buf[p].items, Quoted, AsListed, TRUE)
    /\ UNCHANGED faults

ManifoldDetailFails(p) ==
    /\ setup.venue = "manifold"
    /\ Fault
    /\ \E i \in DOMAIN buf[p].items :
          WritePage(p, ManifoldRows(p, i), Quoted, AsListed, TRUE)

\* Every probability is fetched from a page of its own; without it the
\* question is stored and no snapshot written.
MetaculusPage(p) ==
    /\ setup.venue = "metaculus"
    /\ \E quoted \in SUBSET (Quoted \cap Elems(buf[p].items)) :
          /\ WritePage(p, buf[p].items, quoted, AsListed, buf[p].more)
          /\ IF quoted = Quoted \cap Elems(buf[p].items) THEN UNCHANGED faults ELSE Fault

\* ForecastEx never says that a contract is settled.
ForecastExRow == [m \in Markets |-> [settled |-> FALSE, category |-> TRUE]]

ForecastExPage(p) ==
    /\ setup.venue = "forecastex"
    /\ WritePage(p, buf[p].items, Quoted, ForecastExRow, buf[p].more)
    /\ UNCHANGED faults

GeminiPage(p) ==
    /\ setup.venue = "gemini"
    /\ WritePage(p, buf[p].items, Quoted, AsListed, FALSE)
    /\ UNCHANGED faults

PredictItPage(p) ==
    /\ setup.venue = "predictit"
    /\ WritePage(p, buf[p].items, Quoted, AsListed, FALSE)
    /\ UNCHANGED faults

\* The fixture instead of the API, under the name of the Polymarket source.
MockPage(p) ==
    /\ setup.venue = "mock"
    /\ WritePage(p, buf[p].items, Quoted, AsListed, FALSE)
    /\ UNCHANGED faults

Write(p) ==
    \/ PolymarketPage(p) \/ KalshiPage(p) \/ ManifoldPage(p) \/ MetaculusPage(p)
    \/ ForecastExPage(p) \/ GeminiPage(p) \/ PredictItPage(p) \/ MockPage(p)

FetchPage(p) ==
    \/ PolymarketFetch(p) \/ KalshiFetch(p) \/ ManifoldFetch(p)
    \/ MetaculusFetch(p) \/ ForecastExFetch(p) \/ SingleFetch(p)

\* The database fails the page's transaction.
WriteFails(p) ==
    /\ pc[p] = "write"
    /\ Fault
    /\ GiveUp(p)

-----------------------------------------------------------------------------
(* record_poll *)

StatusAfter(fails) ==
    IF fails = 0 THEN "healthy" ELSE IF fails < 3 THEN "degraded" ELSE "down"

\* The first failure of a source nobody has recorded yet counts as down.
FirstRow(success) ==
    [fails |-> IF success THEN 0 ELSE 1, status |-> IF success THEN "healthy" ELSE "down"]

NextFailsWithoutReset(old, success) == IF success THEN old.fails ELSE Smaller(old.fails + 1, Recent)

NextFails(old, success) == IF success THEN 0 ELSE Smaller(old.fails + 1, Recent)

ReadHealth(p) ==
    /\ pc[p] = "record"
    /\ seen' = [seen EXCEPT ![p] = health]
    /\ pc' = [pc EXCEPT ![p] = "commit"]
    /\ UNCHANGED <<venue, tables, log, health, raced, walk, faults>>

Remember(success) ==
    log' = IF Len(log) < Recent THEN Append(log, success)
           ELSE Append(Tail(log), success)

\* The ORM writes the columns it has changed, whatever the row holds by then.
Merged(old, fails) ==
    [fails  |-> IF fails # old.fails THEN fails ELSE health.fails,
     status |-> IF StatusAfter(fails) # old.status THEN StatusAfter(fails) ELSE health.status]

CommitHealth(p) ==
    LET old == seen[p]
    IN  /\ pc[p] = "commit"
        /\ IF old = NoRow
           THEN IF health = NoRow
                THEN health' = FirstRow(ok[p]) /\ Remember(ok[p])
                ELSE UNCHANGED <<health, log>>   \* duplicate key: both rows are lost
           ELSE /\ health' = Merged(old, NextFails(old, ok[p]))
                /\ Remember(ok[p])
        /\ raced' = (raced \/ health # old)
        /\ EndCycle(p)
        /\ UNCHANGED <<venue, tables, faults>>

\* record_poll's own transaction fails; the loop prints the error.
RecordFails(p) ==
    /\ pc[p] \in {"record", "commit"}
    /\ Fault
    /\ EndCycle(p)
    /\ UNCHANGED <<venue, tables, log, health, raced>>

\* The container is killed: the open transaction and the cycle are gone.
Crash(p) ==
    /\ pc[p] # "idle"
    /\ Fault
    /\ EndCycle(p)
    /\ UNCHANGED <<venue, tables, log, health, raced>>

-----------------------------------------------------------------------------
Cycle(p) ==
    \/ Start(p) \/ Enrich(p) \/ FetchPage(p) \/ Ceiling(p) \/ Write(p)
    \/ ReadHealth(p) \/ CommitHealth(p)

Failure(p) ==
    \/ PolymarketEnrichFails(p) \/ KalshiEnrichFails(p) \/ FetchEcho(p)
    \/ FetchFails(p) \/ ManifoldDetailFails(p) \/ WriteFails(p)
    \/ RecordFails(p) \/ Crash(p)

Next == Venue \/ \E p \in Procs : Cycle(p) \/ Failure(p)

Spec == Init /\ [][Next]_vars

\* `pmi-ingest run` polls for ever; the venue and the failures owe nothing.
FairSpec == Spec /\ \A p \in Procs : WF_vars(Cycle(p))

-----------------------------------------------------------------------------
Storable == {m \in Markets : kind[m] \in {"priced", "bare"}}
Clean == \A m \in Markets : kind[m] \notin {"refused", "overflow"}

\* A cycle that is about to be recorded as a success, ended at the end of the
\* listing and had no page dropped has stored every storable market that was
\* listed from its beginning to its end, whatever was listed, delisted or
\* settled between two of its requests.  True of the walks whose position is
\* a market (polymarket_rest.py:17-20), not of those whose position is a
\* number.
WalkIsComplete ==
    \A p \in Procs :
        /\ pc[p] \in {"record", "commit"} /\ ok[p] /\ ~cut[p]
        /\ setup.venue \notin {"metaculus", "forecastex"}
        => \A m \in through[p] \cap Storable : rows[m] # NoRow

Failing(n) == n =< Len(log) /\ \A i \in Len(log) - n + 1 .. Len(log) : ~log[i]

\* As long as no record_poll overlapped another, audit_source_health says
\* what audit_source_poll_log says: healthy exactly after a success,
\* consecutive_failures the length of the last run of failures, down from the
\* third on.
HealthFollowsLog ==
    ~raced =>
        IF log = <<>> THEN health = NoRow
        ELSE /\ health.status = "healthy" <=> log[Len(log)]
             /\ \A n \in 1 .. Recent : n =< health.fails <=> Failing(n)
             /\ Failing(3) => health.status = "down"

\* Once the venue is quiet and the failures are over, the table catches up
\* with the listing: every listed market is stored, with its settlement and
\* its category, also one that a walk missed or whose category a failed
\* look-up erased.  (Sources with a market that the database refuses never
\* catch up: see the README.)
CatchesUp ==
    Clean => <>[](\A m \in Elems(listing) \cap Storable :
                     rows[m] # NoRow => /\ rows[m].category
                                        /\ rows[m].settled = (m \in settled))
             /\ <>[](\A m \in Elems(listing) \cap Storable : rows[m] # NoRow)
=============================================================================
