----------------------------- MODULE OrderBook -----------------------------
(***************************************************************************)
(* The summary that pollers.polymarket_clob and kalshi_clob store of an    *)
(* order book.  A Polymarket book has bids and asks for YES; a Kalshi book *)
(* has bids for YES and bids for NO, a bid for NO at q being an offer of   *)
(* YES at 1 - q.  A level is <<price, size>>, either None when it cannot   *)
(* be read.  Kalshi serves prices in one of two units.                     *)
(***************************************************************************)
EXTENDS Ratio
LOCAL INSTANCE Integers
LOCAL INSTANCE Sequences
LOCAL INSTANCE SequencesExt

\* The response to a signed request has whole cents (under "orderbook"), that
\* to an anonymous one dollars (under "orderbook_fp").
Served(levels, signed) ==
    [i \in DOMAIN levels |->
        IF signed /\ levels[i][1] # None
        THEN <<Times(levels[i][1], Integer(100)), levels[i][2]>> ELSE levels[i]]

\* _normalize_levels, without the sorting: a side is used by its best price
\* and by sums.
Normalized(raw, divisor) ==
    LET usable == SelectSeq(raw, LAMBDA l : /\ l[1] # None /\ l[2] # None
                                            /\ Less(Zero, l[2]))
    IN  [i \in DOMAIN usable |-> <<Over(usable[i][1], Integer(divisor)), usable[i][2]>>]

Prices(side) == {l[1] : l \in ToSet(side)}
Highest(P) == IF P = {} THEN None ELSE CHOOSE p \in P : \A q \in P : Leq(q, p)
Lowest(P)  == IF P = {} THEN None ELSE CHOOSE p \in P : \A q \in P : Leq(p, q)

SizeOf(side) == IF side = <<>> THEN None ELSE Total(LAMBDA i : side[i][2], DOMAIN side)

\* None for an empty side.
DepthWithin(side, lo, hi) ==
    IF side = <<>> THEN None
    ELSE Total(LAMBDA i : side[i][2],
               {i \in DOMAIN side : Leq(lo, side[i][1]) /\ Leq(side[i][1], hi)})

Mid(bid, ask) ==
    IF bid # None /\ ask # None THEN Over(Plus(bid, ask), Integer(2))
    ELSE IF bid # None THEN bid ELSE ask

Spread(bid, ask) == IF bid # None /\ ask # None THEN Minus(ask, bid) ELSE None

Percent(n) == Ratio(n, 100)

PolymarketSummary(bids, asks) ==
    LET bid == Highest(Prices(bids))
        ask == Lowest(Prices(asks))
        mid == Mid(bid, ask)
        below(n) == IF mid = None THEN None ELSE DepthWithin(bids, Times(mid, Percent(100 - n)), mid)
        above(n) == IF mid = None THEN None ELSE DepthWithin(asks, mid, Times(mid, Percent(100 + n)))
    IN  [mid |-> mid, spread |-> Spread(bid, ask), bestBid |-> bid, bestAsk |-> ask,
         bidTotal |-> SizeOf(bids), askTotal |-> SizeOf(asks),
         bid1 |-> below(1), bid5 |-> below(5), ask1 |-> above(1), ask5 |-> above(5)]

\* Mutation of NoBand: the band is n percent of the NO price.
NoBandOfItself(no, mid, n) ==
    DepthWithin(no, Times(Minus(One, mid), Percent(100 - n)), Minus(One, mid))

\* Offers of YES up to n percent above the middle, as bids for NO.
NoBand(no, mid, n) ==
    DepthWithin(no, Larger(Zero, Minus(One, Times(mid, Percent(100 + n)))), Minus(One, mid))

KalshiSummary(yes, no) ==
    LET bid   == Highest(Prices(yes))
        noBid == Highest(Prices(no))
        ask   == IF noBid = None THEN None ELSE Minus(One, noBid)
        mid   == Mid(bid, ask)
        below(n) == IF mid = None THEN None ELSE DepthWithin(yes, Times(mid, Percent(100 - n)), mid)
        above(n) == IF mid = None THEN None ELSE NoBand(no, mid, n)
    IN  [mid |-> mid, spread |-> Spread(bid, ask), bestBid |-> bid, bestAsk |-> ask,
         bidTotal |-> SizeOf(yes), askTotal |-> SizeOf(no),
         bid1 |-> below(1), bid5 |-> below(5), ask1 |-> above(1), ask5 |-> above(5)]

\* _poll_one at either venue: no snapshot of a book without a usable level.
PolymarketPoll(bids, asks) ==
    LET b == Normalized(bids, 1)
        a == Normalized(asks, 1)
    IN  IF b = <<>> /\ a = <<>> THEN None ELSE PolymarketSummary(b, a)

\* The divisor is 1 whatever the response was.
KalshiPoll(yes, no) ==
    LET y == Normalized(yes, 1)
        n == Normalized(no, 1)
    IN  IF y = <<>> /\ n = <<>> THEN None ELSE KalshiSummary(y, n)
=============================================================================
