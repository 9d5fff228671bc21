------------------------------ MODULE Scoring ------------------------------
(***************************************************************************)
(* pmi_core.engine.bucket_collapser and aggregator, for the formula        *)
(* weighted_average_x_100: from the evaluated markets of a tick to the     *)
(* score and the evaluations it is said to come from.                      *)
(*                                                                         *)
(* A row is [id, title, price, closes, liquidity, evals]: price and        *)
(* liquidity are rationals or None, closes a number, evals maps the        *)
(* factors that have been evaluated to a rational or None.  ir is          *)
(* [weight, collapse, spread, representative, liquidity, minComponents],   *)
(* weight mapping each factor to an integer or None.  Rounding to four     *)
(* digits is left out.                                                     *)
(***************************************************************************)
EXTENDS Titles
LOCAL INSTANCE Integers
LOCAL INSTANCE FiniteSets
LOCAL INSTANCE SequencesExt

Mention(s) == ToSet(s)

-----------------------------------------------------------------------------
(* bucket_collapser *)

MarketPrice(row) == IF row.price = None THEN Zero ELSE row.price

DateOf(rows, i) == ParseBucketDate(rows[i].title)

Dated(group, rows) == SelectSeq(group, LAMBDA i : DateOf(rows, i) # None)

\* The dated members in the order of their dates (a stable sort).
ByDate(group, rows) ==
    SetToSortSeq(Mention(Dated(group, rows)),
                 LAMBDA i, j : \/ DateOf(rows, i) < DateOf(rows, j)
                               \/ (DateOf(rows, i) = DateOf(rows, j) /\ i < j))

\* Mutation of SplitByDateGap: the distance is taken from the first date.
SplitByFirstDate(dated, undated, rows, spread) ==
    LET part(i) == (DateOf(rows, i) - DateOf(rows, dated[1])) \div (spread + 1)
        parts   == {SelectSeq(dated, LAMBDA i : part(i) = part(j)) : j \in Mention(dated)}
        largest == CHOOSE g \in parts : \A h \in parts : Len(h) =< Len(g)
    IN  (parts \ {largest}) \cup {largest \o undated}

\* Neighbours more than `spread` days apart end a sub-group; the undated join
\* the largest, of equals the earliest.
SplitByDateGap(dated, undated, rows, spread) ==
    LET n       == Len(dated)
        starts  == {k \in 1 .. n :
                      k = 1 \/ DateOf(rows, dated[k]) - DateOf(rows, dated[k - 1]) > spread}
        end(k)  == CHOOSE e \in k .. n : /\ e = n \/ e + 1 \in starts
                                         /\ \A x \in k + 1 .. e : x \notin starts
        size(k) == end(k) - k + 1
        largest == CHOOSE k \in starts : \A x \in starts :
                      size(x) < size(k) \/ (size(x) = size(k) /\ k =< x)
    IN  {SubSeq(dated, k, end(k)) \o (IF k = largest THEN undated ELSE <<>>) : k \in starts}

\* The sub-groups of the active rows of one question.
Subgroups(active, dated, rows, spread) ==
    IF Len(active) < 2 THEN {}
    ELSE IF Len(dated) < 2 THEN {active}
    ELSE SplitByDateGap(dated, SelectSeq(active, LAMBDA i : DateOf(rows, i) = None), rows, spread)

\* max(): the first of the largest.
FirstMax(group, key(_)) ==
    group[CHOOSE k \in DOMAIN group :
             /\ \A x \in DOMAIN group : Leq(key(group[x]), key(group[k]))
             /\ \A x \in 1 .. k - 1 : Less(key(group[x]), key(group[k]))]

PickRepresentative(group, rows, mode) ==
    IF mode = "newest" THEN FirstMax(group, LAMBDA i : Integer(rows[i].closes))
                       ELSE FirstMax(group, LAMBDA i : MarketPrice(rows[i]))

\* Mutation of Mode: the window is not looked at.
ModeOfAnyDates(group, rows, spread) ==
    IF Len(Dated(group, rows)) >= 2 THEN "noisy_or" ELSE "mean"

\* At least two dates, all within the spread: independent chances.  Else the
\* mean.
Mode(group, rows, spread) ==
    LET dates == {DateOf(rows, i) : i \in Mention(Dated(group, rows))}
    IN  IF /\ Len(Dated(group, rows)) >= 2
           /\ \A d, e \in dates : d - e =< spread
        THEN "noisy_or" ELSE "mean"

SubgroupProbability(group, rows, spread) ==
    LET p(i) == Clamp(MarketPrice(rows[i]))
    IN  IF Mode(group, rows, spread) = "noisy_or"
        THEN Lesser(One, Minus(One, Product(LAMBDA i : Minus(One, p(i)), Mention(group))))
        ELSE Over(Total(p, Mention(group)), Integer(Len(group)))

\* Groups of two or more active rows with one base question.
DetectBucketGroups(rows, ir) ==
    LET bucket == {i \in DOMAIN rows : HasSuffix(rows[i].title)}
        base(i) == BaseQuestion(rows[i].title)
        active(b) == SelectSeq([i \in DOMAIN rows |-> i],
                        LAMBDA i : i \in bucket /\ base(i) = b /\ IsActiveBucket(rows[i].title))
        split(group) == Subgroups(group, ByDate(group, rows), rows, ir.spread)
    IN  IF ~ir.collapse THEN {}
        ELSE {g \in UNION {split(active(base(i))) : i \in bucket} : Len(g) >= 2}

\* Each group is replaced by its representative at the group's price.
Collapse(rows, ir, groups) ==
    LET rep(g)   == PickRepresentative(g, rows, ir.representative)
        consumed == UNION {Mention(g) : g \in groups}
        row(i)   == IF \E g \in groups : rep(g) = i
                    THEN [rows[i] EXCEPT !.price =
                            SubgroupProbability(CHOOSE g \in groups : rep(g) = i, rows, ir.spread)]
                    ELSE rows[i]
        kept     == SelectSeq([i \in DOMAIN rows |-> i],
                        LAMBDA i : i \notin consumed \/ \E g \in groups : rep(g) = i)
    IN  [k \in DOMAIN kept |-> row(kept[k])]

CollapseForScoring(rows, ir) == Collapse(rows, ir, DetectBucketGroups(rows, ir))

-----------------------------------------------------------------------------
(* aggregator *)

Value(row, f) == IF f \in DOMAIN row.evals THEN row.evals[f] ELSE None

Direction(row) == IF Value(row, "direction") = None THEN One ELSE Value(row, "direction")

Relevancy(row, ir) ==
    LET F == {f \in DOMAIN ir.weight : ir.weight[f] # None /\ Value(row, f) # None}
        weight == Total(LAMBDA f : Integer(ir.weight[f]), F)
    IN  IF weight = Zero THEN Zero
        ELSE Over(Total(LAMBDA f : Times(Value(row, f), Integer(ir.weight[f])), F), weight)

\* Linear interpolation between the two nearest values.
Percentile(sorted, p) ==
    LET k == Times(Integer(Len(sorted) - 1), p)
        f == k[1] \div k[2]
    IN  IF f + 1 < Len(sorted)
        THEN Plus(sorted[f + 1], Times(Minus(k, Integer(f)), Minus(sorted[f + 2], sorted[f + 1])))
        ELSE sorted[f + 1]

MinSample == 4

\* The multiplier of a depth between the 20th, 50th and 80th percentiles.
QuantileWeight(d, p20, p50, p80) ==
    CASE Less(d, p20) -> Ratio(9, 10)
      [] Leq(p20, d) /\ Less(d, p50) -> One
      [] Leq(p50, d) /\ Less(d, p80) -> Ratio(6, 5)
      [] OTHER -> Ratio(3, 2)

LinearWeight(d, deepest) ==
    Larger(Ratio(1, 2), Lesser(Ratio(3, 2), Plus(Ratio(1, 2), Over(d, deepest))))

\* The depths of the samples, in order.
SortedDepths(rows, samples) ==
    LET depth(i) == rows[i].liquidity
        order == SetToSortSeq(samples, LAMBDA i, j : \/ Less(depth(i), depth(j))
                                                     \/ (depth(i) = depth(j) /\ i < j))
    IN  [k \in DOMAIN order |-> depth(order[k])]

WeightsOf(rows, method, samples, sorted) ==
    IF method = "none" \/ Len(sorted) < MinSample \/ sorted[1] = sorted[Len(sorted)]
    THEN [i \in DOMAIN rows |-> One]
    ELSE [i \in DOMAIN rows |->
            CASE i \notin samples -> One
              [] i \in samples /\ method = "quantile" ->
                    QuantileWeight(rows[i].liquidity, Percentile(sorted, Ratio(1, 5)),
                                   Percentile(sorted, Ratio(1, 2)), Percentile(sorted, Ratio(4, 5)))
              [] OTHER -> LinearWeight(rows[i].liquidity, sorted[Len(sorted)])]

LiquidityWeights(rows, ir) ==
    LET samples == {i \in DOMAIN rows : rows[i].liquidity # None /\ Less(Zero, rows[i].liquidity)}
    IN  WeightsOf(rows, ir.liquidity, samples, SortedDepths(rows, samples))

\* A lineage: the evaluations behind the score, by market and factor.
Evaluations(rows, S) == {<<rows[i].id, f>> : i \in S, f \in {"direction", "relevancy"}}
                           \cap UNION {{rows[i].id} \X DOMAIN rows[i].evals : i \in S}

NoScore(n, lineage) == [score |-> None, components |-> n, lineage |-> lineage]

\* An unpriced market counts as even.
Contribution(row, ir, liq) ==
    Times(Times(Relevancy(row, ir), Direction(row)),
          Times(IF row.price = None THEN Ratio(1, 2) ELSE row.price, liq))

\* Mutation of Weight: the weight has a sign.
WeightOfDirection(row, ir, liq) == Times(Times(Relevancy(row, ir), Direction(row)), liq)

Weight(row, ir, liq) == Times(Relevancy(row, ir), liq)

\* (x / y), a number of -1 .. 1, on the scale of 0 .. 100.
Scaled(x, y) == Times(Integer(100), Clamp(Plus(Ratio(1, 2), Over(Over(x, y), Integer(2)))))

Average(numerator, denominator, n, lineage) ==
    IF denominator = Zero THEN NoScore(n, lineage)
    ELSE [score |-> Scaled(numerator, denominator), components |-> n, lineage |-> lineage]

ScoreRows(rows, ir, liq, S) ==
    Average(Total(LAMBDA i : Contribution(rows[i], ir, liq[i]), S),
            Total(LAMBDA i : Weight(rows[i], ir, liq[i]), S),
            Len(rows), Evaluations(rows, S))

ScoreCollapsed(rows, ir) ==
    IF Len(rows) < ir.minComponents THEN NoScore(0, {})
    ELSE ScoreRows(rows, ir, LiquidityWeights(rows, ir),
                   {i \in DOMAIN rows : Less(Zero, Relevancy(rows[i], ir))})

WeightedAverage(rows, ir) == ScoreCollapsed(CollapseForScoring(rows, ir), ir)
=============================================================================
