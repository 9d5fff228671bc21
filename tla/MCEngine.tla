----------------------------- MODULE MCEngine -----------------------------
(* Bounded requests for Engine.                                            *)
EXTENDS Engine, Integers, Sequences, FiniteSets, TLC

MCToday == [year |-> 2026, month |-> 2, day |-> 15]

Half == Ratio(1, 2)
Quarter == Ratio(1, 4)

Titled(q, suffix) == [question |-> q, suffix |-> suffix]
Plain(i) == Titled(i, NoSuffix)

\* Buckets of one question: 19 and 20 days apart, one over, one without a
\* day.
Buckets ==
    {Titled(0, s) : s \in {Suffix("bucket", "mdy", 3, 1, 2026), Suffix("bucket", "dmy", 3, 20, 26),
                           Suffix("bucket", "mdy", 4, 9, None), Suffix("bucket", "mdy", 1, 31, 2026),
                           Suffix("in", "year", 1, 1, 2030)}}

Eval(relevancy, direction) ==
    [f \in {"relevancy"} \cup (IF direction = "missing" THEN {} ELSE {"direction"}) |->
        IF f = "relevancy" THEN relevancy ELSE direction]

Evals == <<Eval(One, One), Eval(Half, Integer(-1)), Eval(One, Integer(-1)), Eval(Quarter, One)>>

PlainRow(i, title, price, liquidity, evals) ==
    [id |-> i, title |-> title, price |-> price, closes |-> (7 * i) % 5, liquidity |-> liquidity,
     evals |-> evals]

IR(spread, representative, liquidity) ==
    [weight |-> [f \in {"relevancy", "direction"} |-> IF f = "relevancy" THEN 2 ELSE None],
     collapse |-> TRUE, spread |-> spread, representative |-> representative,
     liquidity |-> liquidity, minComponents |-> 1]

CollapseTicks ==
    {[rows |-> [i \in 1 .. 4 |-> PlainRow(i, t[i], p[i], None, Evals[i])],
      ir |-> IR(20, mode, "quantile")] :
        t \in [1 .. 4 -> Buckets], mode \in {"max_probability", "newest"},
        p \in {<<Half, Quarter, None, One>>, <<Quarter, Half, Half, Zero>>}} \cup
    {[rows |-> [i \in 1 .. 3 |-> PlainRow(i, t[i], p[i], None, Evals[i])],
      ir |-> IR(20, "newest", "quantile")] :
        t \in [1 .. 3 -> Buckets], p \in {<<Half, Quarter, None>>, <<Half, Half, One>>}}

LiquidityTicks ==
    {[rows |-> [i \in 1 .. 5 |-> PlainRow(i, Plain(i), Ratio(i, 8), IF i = 5 THEN Integer(3) ELSE d[i],
                                     Evals[(i % 4) + 1])],
      ir |-> IR(20, "max_probability", method)] :
        d \in [1 .. 4 -> {None, Integer(1), Integer(2), Integer(6)}],
        method \in {"quantile", "linear", "none"}}

EvalTicks ==
    {[rows |-> [i \in 1 .. 2 |-> PlainRow(i, Plain(i), p[i], None, Eval(r[i], d[i]))],
      ir |-> [IR(20, "max_probability", "none") EXCEPT !.minComponents = n]] :
        p \in {<<None, Quarter>>, <<Quarter, Half>>}, r \in [1 .. 2 -> {None, Zero, One}],
        d \in [1 .. 2 -> {None, "missing", One, Integer(-1)}], n \in {1, 3}}

MCTicks == CollapseTicks \cup LiquidityTicks \cup EvalTicks

\* Three markets, each found by a word, inside a word, by its category, by its
\* embedding or not at all.
FixtureMarket(i, how, venue, resolved) ==
    [id |-> i, venue |-> venue, resolved |-> resolved,
     words |-> IF how = "word" THEN {"war"} ELSE {}, text |-> IF how \in {"word", "part"} THEN {"war"} ELSE {},
     category |-> IF how = "category" THEN "tag" ELSE "other",
     near |-> IF how = "near" THEN {"anchor"} ELSE {},
     title |-> Titled(0, IF i = 3 THEN NoSuffix ELSE Suffix("bucket", "mdy", 3, i, 2026)),
     closes |-> i, price |-> Ratio(i, 4), volume |-> Integer(i), evals |-> Evals[i]]

MCFixtures ==
    {[markets |-> [i \in 1 .. 3 |->
          FixtureMarket(i, how[i], IF i = x.odd THEN "kalshi" ELSE "polymarket", i = x.closed)],
      ir |-> [terms |-> {"war"}, tags |-> {"tag"}, anchors |-> {"anchor"}, maxMarkets |-> x.cap,
              venues |-> {"polymarket"}] @@ IR(20, "max_probability", "quantile"),
      down |-> x.down] :
        how \in [1 .. 3 -> {"word", "part", "category", "near", "none"}],
        x \in {[odd |-> 0, closed |-> 0, cap |-> 3, down |-> {}],
               [odd |-> 1, closed |-> 0, cap |-> 3, down |-> {}],
               [odd |-> 0, closed |-> 2, cap |-> 3, down |-> {}],
               [odd |-> 0, closed |-> 0, cap |-> 2, down |-> {"anchor"}]}}

Race(party, wording, office, state) ==
    [party |-> party, wording |-> wording, office |-> office, state |-> state, cycle |-> TRUE]

MCStates == {"OH", "TX"}

\* Four races in two states and two chambers, snapshots on three days.
RaceTitles ==
    <<Race("R", "direct", "senate", "OH"), Race("D", "direct", "governor", "OH"),
      Race("D", "direct", "senate", "TX")>>

Snapshot(m, at, price, volume) == [market |-> m, at |-> at, price |-> price, volume |-> volume]

MCMaps ==
    {[titles |-> RaceTitles, days |-> 1, asOf |-> 10,
      snapshots |-> UNION {{Snapshot(m, x[1], x[2], x[3]) : x \in s[m]} : m \in 1 .. 3}] :
        s \in [1 .. 3 -> {{}, {<<8, Quarter, 2>>}, {<<7, One, 1>>, <<10, Half, None>>},
                          {<<9, Ratio(3, 4), 1>>, <<10, None, 2>>}, {<<8, Half, 0>>, <<9, One, 4>>}}]}

\* Two states with one market a side, a second Republican market of one of
\* them, and one abroad.
SeatMarkets ==
    <<[id |-> 1, title |-> Race("R", "direct", "senate", "OH")],
      [id |-> 2, title |-> Race("D", "direct", "senate", "OH")],
      [id |-> 3, title |-> Race("D", "direct", "senate", "TX")],
      [id |-> 4, title |-> Race("R", "direct", "senate", "OH")]>>

Chamber(holdoverR, holdoverD, total, threshold) ==
    [holdoverR |-> holdoverR, holdoverD |-> holdoverD, total |-> total, threshold |-> threshold]

MCChambers ==
    {[markets |-> SeatMarkets, asOf |-> 10, minComponents |-> n, chamber |-> g,
      snapshots |-> UNION {{Snapshot(m, x[1], x[2], 1) : x \in s[m]} : m \in 1 .. 4}] :
        n \in {1, 2}, g \in {Chamber(1, 1, 4, 3), Chamber(0, 1, 3, 2)},
        s \in [1 .. 4 -> {{}, {<<9, Ratio(9, 10)>>, <<10, Ratio(2, 5)>>},
                          {<<9, Half>>, <<10, None>>}, {<<10, Half>>, <<11, One>>}}]}

\* Two levels a side.
Level == {<<None, One>>, <<Half, Zero>>} \cup ({Ratio(47, 100), Half, Ratio(99, 200)} \X {Integer(2)})
Offer == {<<Ratio(1, 2), None>>} \cup ({Ratio(51, 100), Ratio(101, 200), Ratio(13, 25), One} \X {Integer(3)})

BooksOf(levels, offers, signed) ==
    [bids : UNION {[1 .. n -> levels] : n \in 0 .. 2}, asks : UNION {[1 .. n -> offers] : n \in 0 .. 2},
     signed : {signed}]

InCents(levels) == {l \in levels : l[1] = None \/ 100 % l[1][2] = 0}

MCBooks == BooksOf(Level, Offer, FALSE) \cup BooksOf(InCents(Level), InCents(Offer), TRUE)
=============================================================================
