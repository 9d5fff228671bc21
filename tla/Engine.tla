------------------------------- MODULE Engine -------------------------------
(***************************************************************************)
(* The pure part of the engine at work: one request is taken, its result   *)
(* is kept.  The requests stand for a tick over evaluated markets          *)
(* (Scoring), a dry run (Selection), the MAGA pages (Races), a seat index  *)
(* with its board (Races and pmi_api.routes.indexes) and one order book    *)
(* polled at either venue (OrderBook).                                     *)
(***************************************************************************)
EXTENDS Selection, Races, OrderBook
LOCAL INSTANCE Integers
LOCAL INSTANCE Sequences
LOCAL INSTANCE FiniteSets
LOCAL INSTANCE SequencesExt

CONSTANTS
    Ticks,     \* [rows, ir]
    Fixtures,  \* [markets, ir, down]
    Maps,      \* [titles, snapshots, days, asOf]
    Chambers,  \* [markets, snapshots, asOf, chamber, minComponents]
    Books      \* [bids, asks, signed]: signed as Kalshi's poller was with its key

ASSUME EngineAssumption ==
    /\ \A x \in Fixtures : ValidIndex(x.ir)
    /\ \A x \in Chambers : ValidChamber(x.chamber)

VARIABLES
    kind,     \* what is asked for
    request,
    result
vars == <<kind, request, result>>

Init ==
    /\ \/ kind = "tick"    /\ request \in Ticks
       \/ kind = "dry run" /\ request \in Fixtures
       \/ kind = "map"     /\ request \in Maps
       \/ kind = "chamber" /\ request \in Chambers
       \/ kind = "book"    /\ request \in Books
    /\ result = None

Answer(r) ==
    /\ result = None
    /\ result' = r
    /\ UNCHANGED <<kind, request>>

Tick ==
    /\ kind = "tick"
    /\ Answer([collapsed |-> CollapseForScoring(request.rows, request.ir),
               score |-> WeightedAverage(request.rows, request.ir)])

RunFixture ==
    /\ kind = "dry run"
    /\ Answer([dry  |-> DryRun(request.markets, request.ir),
               live |-> LiveRun(request.markets, request.ir, request.down)])

ShowMaps ==
    LET t == request.titles
        x == request.snapshots
        n == request.asOf
    IN  /\ kind = "map"
        /\ Answer([states   |-> ByState(t, x, n), pages |-> StatePage(t, x, n),
                   national |-> NationalHeat(t, x, n),
                   trend    |-> NationalTrends(t, x, request.days, n),
                   trends   |-> [s \in States |-> StateTrends(t, x, s, request.days, n)]])

\* pipeline._latest_prices: the last snapshot with a price, whenever taken.
LatestPrice(snapshots, m) ==
    LET x == LatestOf({y \in snapshots : y.price # None}, m,
                      CHOOSE t \in {y.at : y \in snapshots} : \A y \in snapshots : y.at =< t)
    IN  IF x = None THEN None ELSE x.price

SeatTick(r) ==
    SeatProjection(
        [i \in DOMAIN r.markets |->
            [id |-> r.markets[i].id, title |-> r.markets[i].title, evals |-> {"relevancy"},
             price |-> LatestPrice(r.snapshots, r.markets[i].id)]],
        r.chamber, r.minComponents)

\* senate_board: the markets behind the lineage, in whatever order, at their
\* last snapshot up to the score's as_of; those without a price there drop out.
SenateBoard(r, order) ==
    LET at(m)  == LatestOf(r.snapshots, m, r.asOf)
        priced == SelectSeq(order, LAMBDA m : at(m) # None /\ at(m).price # None)
        title(m) == r.markets[CHOOSE i \in DOMAIN r.markets : r.markets[i].id = m].title
        seats  == ContestedSeats([i \in DOMAIN priced |->
                    [id |-> priced[i], title |-> title(priced[i]), price |-> at(priced[i]).price]])
        probs  == [s \in DOMAIN seats |-> seats[s].prob]
    IN  [probs |-> probs, distribution |-> SeatDistribution(probs, r.chamber),
         counts |-> BandCounts(probs, r.chamber)]

ShowBoard ==
    /\ kind = "chamber"
    /\ LET tick == SeatTick(request)
           markets == {e[1] : e \in tick.lineage}
       IN  \E order \in SetToSeqs(markets) :
              Answer([score |-> tick.score, markets |-> markets,
                      board |-> SenateBoard(request, order)])

\* A price of YES as one of NO.
Complement(x) == IF x = None THEN None ELSE Minus(One, x)

\* The book of a market at both venues; Kalshi's has the asks as bids for NO.
SummarizeBook ==
    LET no == [i \in DOMAIN request.asks |-> <<Complement(request.asks[i][1]), request.asks[i][2]>>]
    IN  /\ kind = "book"
        /\ Answer([polymarket |-> PolymarketPoll(request.bids, request.asks),
                   kalshi     |-> KalshiPoll(Served(request.bids, request.signed),
                                             Served(no, request.signed))])

Next == Tick \/ RunFixture \/ ShowMaps \/ ShowBoard \/ SummarizeBook

Spec == Init /\ [][Next]_vars

-----------------------------------------------------------------------------
Answered(k) == kind = k /\ result # None

\* A dated bucket is <<row, date>>.  Two of them are linked when no stretch of
\* more than spread days without a bucket lies between them.
Linked(buckets, spread, x, y) ==
    \A z \in buckets :
        z[2] \in x[2] .. y[2] - 1 \cup y[2] .. x[2] - 1
            => \E w \in buckets : w[2] - z[2] \in 1 .. spread

\* The first bucket of S is not later than that of T.
Earlier(S, T) == \E x \in S : \A y \in T : x[2] =< y[2]

\* The events among the rows B, open buckets of one question: the linked ones
\* belong together, and the undated to the largest event, of equals the
\* earliest.  With less than two dates the question is one event.
EventsOfQuestion(rows, B, spread) ==
    LET dated   == {<<i, DateOf(rows, i)>> : i \in B} \ {<<i, None>> : i \in B}
        chains  == {{y \in dated : Linked(dated, spread, x, y)} : x \in dated}
        largest == CHOOSE S \in chains : \A T \in chains :
                      \/ Cardinality(S) > Cardinality(T)
                      \/ Cardinality(S) = Cardinality(T) /\ Earlier(S, T)
        undated == B \ {x[1] : x \in dated}
    IN  IF Cardinality(dated) < 2 THEN {B}
        ELSE {{x[1] : x \in S} \cup (IF S = largest THEN undated ELSE {}) : S \in chains}

\* The rows by the event they are about; a row that is no open bucket is alone.
Events(rows, ir) ==
    LET open      == {i \in DOMAIN rows : /\ ir.collapse /\ HasSuffix(rows[i].title)
                                         /\ IsActiveBucket(rows[i].title)}
        questions == {{j \in open : BaseQuestion(rows[j].title) = BaseQuestion(rows[i].title)} :
                         i \in open}
    IN  {{i} : i \in DOMAIN rows \ open}
           \cup UNION {EventsOfQuestion(rows, B, ir.spread) : B \in questions}

\* The dated members of an event, and the rows a collapse has left of it.
DatedOf(rows, E) == {i \in E : DateOf(rows, i) # None}
Left(rows, after, E) == {k \in DOMAIN after : \E i \in E : after[k].id = rows[i].id}

\* At least two dates, and all of them within the window.
OnCalendar(rows, ir, E) ==
    LET D == {<<i, DateOf(rows, i)>> : i \in DatedOf(rows, E)}
    IN  Cardinality(D) >= 2 /\ \A x, y \in D : x[2] - y[2] =< ir.spread

\* One event, one component (bucket_collapser.py:12-15).  Of each event one row
\* is left, as it was but for the price, and alone it keeps that too.  The price
\* of buckets that all lie within the window is at least each member's and at
\* most their sum; that of any others lies between their extremes, also when two
\* of their dates lie within it (bucket_collapser.py:17-25 says otherwise).
OneComponentPerEvent ==
    Answered("tick") =>
        LET rows  == request.rows
            after == result.collapsed
            p(i)  == MarketPrice(rows[i])
        IN  \A E \in Events(rows, request.ir) :
              /\ Cardinality(Left(rows, after, E)) = 1
              /\ \A k \in Left(rows, after, E) :
                    LET price == after[k].price
                    IN  /\ \E i \in E : after[k] = [rows[i] EXCEPT !.price = price]
                        /\ IF Cardinality(E) = 1
                           THEN \E i \in E : after[k] = rows[i]
                           ELSE IF OnCalendar(rows, request.ir, E)
                           THEN /\ \A i \in E : Leq(p(i), price)
                                /\ Leq(price, Total(p, E))
                           ELSE /\ \E i \in E : Leq(p(i), price)
                                /\ \E i \in E : Leq(price, p(i))

\* The same evidence seen another way.  With every direction reversed the
\* score is reflected at 50; with every book measured in another unit it
\* stays; in another order of the rows it stays, unless two buckets of equal
\* price compete to represent an event.
Reversed(rows) ==
    [i \in DOMAIN rows |->
        [rows[i] EXCEPT !.evals =
            [f \in DOMAIN @ |-> IF f = "direction" /\ @[f] # None THEN Minus(Zero, @[f]) ELSE @[f]]]]

Doubled(rows) ==
    [i \in DOMAIN rows |->
        [rows[i] EXCEPT !.liquidity = IF @ = None THEN None ELSE Times(@, Integer(2))]]

Directed(rows) == \A i \in DOMAIN rows : Value(rows[i], "direction") # None

Untied(rows, ir) ==
    \A g \in DetectBucketGroups(rows, ir) : \A i, j \in ToSet(g) :
        i # j => /\ MarketPrice(rows[i]) # MarketPrice(rows[j])
                 /\ rows[i].closes # rows[j].closes

ScoreIsInvariant ==
    Answered("tick") =>
        LET rows == request.rows
            ir   == request.ir
            s    == result.score.score
        IN  /\ Directed(rows) =>
                 WeightedAverage(Reversed(rows), ir).score =
                     (IF s = None THEN None ELSE Minus(Integer(100), s))
            /\ WeightedAverage(Doubled(rows), ir) = result.score
            /\ Untied(rows, ir) => WeightedAverage(Reverse(rows), ir) = result.score

\* The chamber.  The masses are those of independent races, enumerated; the
\* expectation is theirs; no more than one party has the majority and what is
\* left is a tie; every seat is in one band, and the bands of the reflected
\* races are the reflected bands.
Outcomes(probs, S) ==
    Times(Product(LAMBDA s : probs[s], S),
          Product(LAMBDA s : Minus(One, probs[s]), DOMAIN probs \ S))

Reflected(b) == Bands[8 - (CHOOSE i \in 1 .. 7 : Bands[i] = b)]

ChamberIsExact ==
    Answered("chamber") =>
        LET g == request.chamber
            p == result.board.probs
            d == result.board.distribution
            n == Cardinality(DOMAIN p)
            mass(S) == Outcomes(p, S)
            won(k) == {S \in SUBSET DOMAIN p : Cardinality(S) = k}
            ties == {S \in SUBSET DOMAIN p :
                       LET r == Cardinality(S) + g.holdoverR
                       IN  r < g.threshold /\ g.total - r < g.threshold}
            mirror == BandCounts([s \in DOMAIN p |-> Minus(One, p[s])],
                        [g EXCEPT !.holdoverR = g.holdoverD, !.holdoverD = g.holdoverR])
        IN  /\ \A k \in 0 .. n : d.pmf[k] = Total(mass, won(k))
            /\ d.expected = Total(LAMBDA k : Times(Integer(k + g.holdoverR), d.pmf[k]), 0 .. n)
            /\ 2 * g.threshold > g.total =>
                  Plus(Plus(d.majorityR, d.majorityD), Total(mass, ties)) = One
            /\ Total(LAMBDA b : Integer(result.board.counts[b]), ToSet(Bands)) =
                  Integer(n + g.holdoverR + g.holdoverD)
            /\ \A b \in ToSet(Bands) : mirror[Reflected(b)] = result.board.counts[b]

\* The snapshots of m are not in order: the last one up to the score's as_of has
\* no price, or there is a younger one.
Stale(r, m) ==
    \/ \E x \in r.snapshots : x.market = m /\ x.at > r.asOf
    \/ LatestOf(r.snapshots, m, r.asOf).price = None

\* The board, recomputed from the markets of the lineage alone, finds the score
\* that was stored with it: nothing but a stale market makes a difference, and
\* each of them not more than its seat.  (That they "never diverge",
\* aggregator.py:200-201, is not so.)
LineageRebuildsScore ==
    Answered("chamber") /\ result.score # None =>
        LET gap   == Minus(result.board.distribution.expected, result.score)
            seats == Cardinality({m \in result.markets : Stale(request, m)})
        IN  Leq(Integer(-seats), gap) /\ Leq(gap, Integer(seats))

\* The map, the state pages and the trends show one lean.  A state's page has
\* the map's heat when any of its races is traded; both trends end in the
\* map's numbers when every market's last snapshot is priced and young enough.
PagesAgree ==
    Answered("map") =>
        LET fresh == \A m \in DOMAIN request.titles :
                       LET x == LatestOf(request.snapshots, m, request.asOf)
                       IN  x # None => /\ x.price # None
                                       /\ x.at >= request.asOf - request.days - 1
        IN  /\ DOMAIN result.states = DOMAIN result.pages
            /\ \A s \in DOMAIN result.states :
                  Less(Zero, result.states[s].volume) =>
                     result.pages[s].heat = result.states[s].heat
            /\ fresh =>
                  /\ \A s \in States :
                        IF s \in DOMAIN result.states
                        THEN /\ request.asOf \in DOMAIN result.trends[s]
                             /\ result.trends[s][request.asOf] = result.states[s].heat
                        ELSE request.asOf \notin DOMAIN result.trends[s]
                  /\ result.national # None =>
                        /\ request.asOf \in DOMAIN result.trend
                        /\ result.trend[request.asOf] = result.national

Cents(x) == IF x = None THEN None ELSE Times(x, Integer(100))

\* One book, two venues, "the same shape" (kalshi_clob.py:4-6): the stored
\* summary is the same when both serve dollars.  The cents that a signed request
\* is answered with are taken for dollars ("the matching price_divisor",
\* kalshi_clob.py:183-184, is not passed): of such a summary the sides and their
\* totals are right, and the best bids for YES and NO are 100 times the book's.
BooksAgree ==
    Answered("book") =>
        LET k == result.kalshi
            p == result.polymarket
        IN  IF request.signed /\ p # None
            THEN /\ k.bidTotal = p.bidTotal /\ k.askTotal = p.askTotal
                 /\ k.bestBid = Cents(p.bestBid)
                 /\ Complement(k.bestAsk) = Cents(Complement(p.bestAsk))
            ELSE k = p

\* A dry run shows the score of a tick (dry_run.py:3-7) when the fixture holds
\* what the tick would see: open markets of the index's venues, found by whole
\* words or by category, no more than the cap, no two buckets tied.
DryRunShowsScore ==
    Answered("dry run") =>
        LET ir == request.ir
            found == {m \in ToSet(request.markets) : Matches(m, ir)}
        IN  /\ \A m \in found : m.venue \in ir.venues /\ ~m.resolved
            /\ \A m \in ToSet(request.markets) :
                  (m.text \ m.words) \cap ir.terms = {} /\ m.near \cap ir.anchors = {}
            /\ Cardinality(found) =< ir.maxMarkets
            /\ Untied(SelectSeq(request.markets, LAMBDA m : Matches(m, ir)), ir)
            => result.dry = result.live
=============================================================================
