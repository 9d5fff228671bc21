------------------------------- MODULE Races -------------------------------
(***************************************************************************)
(* The partisan races: pmi_core.engine seat_mapping, seat_distribution,    *)
(* state_lean and state_detail, the formula seat_projection_sum of         *)
(* aggregator, and the pages of pmi_api.routes.maga made of them.          *)
(*                                                                         *)
(* A market is [id, title, price, volume]; its title is                    *)
(* [party, wording, office, state, cycle]: which party it names ("both" if *)
(* it names two), whether it is worded "Will the <party> win the <state>   *)
(* <office> race", "loose"ly with one of the verbs of control, or without  *)
(* one ("other"), and whether it is about 2026.  Prices are rationals,     *)
(* volumes integers or None.  Rounding is left out.                        *)
(***************************************************************************)
EXTENDS Ratio
LOCAL INSTANCE Integers
LOCAL INSTANCE FiniteSets
LOCAL INSTANCE SequencesExt

CONSTANT States  \* the recognised states; any other name is of a place abroad

Parties == {"R", "D"}
Offices == {"senate", "governor", "house"}

-----------------------------------------------------------------------------
(* seat_mapping *)

\* parse_seat_race: <<party, state>>, of whatever state, or None.
ParseSeatRace(t) ==
    IF /\ t.party \in Parties /\ t.wording = "direct" /\ t.office = "senate"
       /\ t.state # None /\ t.cycle
    THEN <<t.party, t.state>> ELSE None

\* The last market of a side wins.
Side(markets, party, state) ==
    LET of == {i \in DOMAIN markets : ParseSeatRace(markets[i].title) = <<party, state>>}
    IN  IF of = {} THEN None ELSE markets[CHOOSE i \in of : \A j \in of : j =< i]

\* One seat per state: the Republican market's price, else what the
\* Democratic one leaves.
ContestedSeats(markets) ==
    LET parsed == {ParseSeatRace(markets[i].title) : i \in DOMAIN markets} \ {None}
        seat(s) == LET r == Side(markets, "R", s)
                       d == Side(markets, "D", s)
                   IN  IF r # None THEN [prob |-> Clamp(r.price), market |-> r.id]
                       ELSE [prob |-> Clamp(Minus(One, d.price)), market |-> d.id]
    IN  [s \in {x[2] : x \in parsed} |-> seat(s)]

-----------------------------------------------------------------------------
(* seat_distribution *)

Bands == <<"safe-d", "likely-d", "lean-d", "tossup", "lean-r", "likely-r", "safe-r">>

\* Closed above up to the toss-ups, open above from there.
ClassifyBand(prob) ==
    LET p == Clamp(prob)
    IN  CASE Leq(p, Ratio(1, 10)) -> "safe-d"
          [] Less(Ratio(1, 10), p) /\ Leq(p, Ratio(1, 4)) -> "likely-d"
          [] Less(Ratio(1, 4), p) /\ Leq(p, Ratio(2, 5)) -> "lean-d"
          [] Less(Ratio(2, 5), p) /\ Less(p, Ratio(3, 5)) -> "tossup"
          [] Leq(Ratio(3, 5), p) /\ Less(p, Ratio(3, 4)) -> "lean-r"
          [] Leq(Ratio(3, 4), p) /\ Less(p, Ratio(9, 10)) -> "likely-r"
          [] OTHER -> "safe-r"

\* probs maps the contested seats to chances; g is the chamber:
\* [holdoverR, holdoverD, total, threshold].
BandCounts(probs, g) ==
    [b \in ToSet(Bands) |->
        Cardinality({s \in DOMAIN probs : ClassifyBand(probs[s]) = b})
        + (IF b = "safe-d" THEN g.holdoverD ELSE IF b = "safe-r" THEN g.holdoverR ELSE 0)]

\* One more race: np.convolve with <<1 - p, p>>.
Convolve(pmf, p) ==
    LET n == Cardinality(DOMAIN pmf)
        mass(k) == IF k \in DOMAIN pmf THEN pmf[k] ELSE Zero
    IN  [k \in 0 .. n |-> Plus(Times(mass(k), Minus(One, p)), Times(mass(k - 1), p))]

PoissonBinomial(probs) ==
    FoldLeft(LAMBDA pmf, s : Convolve(pmf, Clamp(probs[s])), [k \in 0 .. 0 |-> One],
             SetToSeq(DOMAIN probs))

\* Mutation of MajorityD: what is not a Republican majority.
MajorityDAsRest(pmf, g) ==
    Total(LAMBDA k : pmf[k], {k \in DOMAIN pmf : k + g.holdoverR < g.threshold})

MajorityR(pmf, g) ==
    Total(LAMBDA k : pmf[k], {k \in DOMAIN pmf : k + g.holdoverR >= g.threshold})

MajorityD(pmf, g) ==
    Total(LAMBDA k : pmf[k],
          {k \in DOMAIN pmf : g.total - (k + g.holdoverR) >= g.threshold})

SeatDistribution(probs, g) ==
    LET pmf == PoissonBinomial(probs)
        p(s) == Clamp(probs[s])
    IN  [expected  |-> Plus(Integer(g.holdoverR), Total(p, DOMAIN probs)),
         variance  |-> Total(LAMBDA s : Times(p(s), Minus(One, p(s))), DOMAIN probs),
         majorityR |-> MajorityR(pmf, g),
         majorityD |-> MajorityD(pmf, g),
         pmf       |-> pmf]

\* _check_seat_arithmetic
ValidChamber(g) ==
    /\ g.total >= 1 /\ g.threshold >= 1 /\ g.holdoverR >= 0 /\ g.holdoverD >= 0
    /\ g.holdoverR + g.holdoverD =< g.total
    /\ g.threshold =< g.total

\* Mutation of SeatLineage: only Republican markets are remembered.
LineageOfOneSide(rows, seats) ==
    {i \in DOMAIN rows : /\ rows[i].title.party = "R"
                         /\ \E s \in DOMAIN seats : seats[s].market = rows[i].id}

SeatLineage(rows, seats) ==
    {i \in DOMAIN rows : \E s \in DOMAIN seats : seats[s].market = rows[i].id}

\* seat_projection_sum; a row has `evals`, the factors evaluated for it.
SeatProjection(rows, g, minComponents) ==
    LET priced == SelectSeq(rows, LAMBDA r : r.price # None)
        seats  == ContestedSeats(priced)
        probs  == [s \in DOMAIN seats |-> seats[s].prob]
    IN  IF Cardinality(DOMAIN seats) < minComponents
        THEN [score |-> None, components |-> Cardinality(DOMAIN seats), lineage |-> {}]
        ELSE [score      |-> SeatDistribution(probs, g).expected,
              components |-> Cardinality(DOMAIN seats),
              lineage    |-> UNION {{rows[i].id} \X rows[i].evals : i \in SeatLineage(rows, seats)}]

-----------------------------------------------------------------------------
(* state_lean *)

\* parse_state_race: <<party, state, office>> or None.
ParseStateRace(t) ==
    IF /\ t.party \in Parties /\ t.wording \in {"direct", "loose"}
       /\ t.office \in Offices /\ t.state \in States /\ t.cycle
    THEN <<t.party, t.state, t.office>> ELSE None

Recognised(markets) == {m \in markets : ParseStateRace(m.title) # None}
InState(markets, s) == {m \in Recognised(markets) : m.title.state = s}

ProbR(m) == Clamp(IF m.title.party = "R" THEN m.price ELSE Minus(One, m.price))
Volume(m) == IF m.volume = None THEN 0 ELSE m.volume
VolumeOf(S) == Total(LAMBDA m : Integer(Volume(m)), S)

\* Weighted by volume; the simple mean when there is none.
MeanProbR(S) ==
    IF Less(Zero, VolumeOf(S))
    THEN Over(Total(LAMBDA m : Times(ProbR(m), Integer(Volume(m))), S), VolumeOf(S))
    ELSE Over(Total(ProbR, S), Integer(Cardinality(S)))

\* markets: a set, each market with its latest price.
StateLean(markets) ==
    [s \in {m.title.state : m \in Recognised(markets)} |->
        LET S == InState(markets, s)
        IN  [heat    |-> Times(Integer(100), MeanProbR(S)),
             markets |-> Cardinality(S),
             offices |-> {m.title.office : m \in S},
             volume  |-> VolumeOf(S)]]

-----------------------------------------------------------------------------
(* state_detail *)

Groups(markets, s) ==
    LET cell(o) == {m \in InState(markets, s) : m.title.office = o}
    IN  [o \in {m.title.office : m \in InState(markets, s)} |->
            [heat    |-> Times(Integer(100), MeanProbR(cell(o))),
             markets |-> Cardinality(cell(o)),
             volume  |-> VolumeOf(cell(o))]]

\* Mutation of FoldGroups: the chambers weigh the same.
FoldGroupsEvenly(groups) ==
    Over(Total(LAMBDA o : groups[o].heat, DOMAIN groups), Integer(Cardinality(DOMAIN groups)))

FoldGroups(groups) ==
    LET volume == Total(LAMBDA o : groups[o].volume, DOMAIN groups)
    IN  IF Less(Zero, volume)
        THEN Over(Total(LAMBDA o : Times(groups[o].heat, groups[o].volume), DOMAIN groups), volume)
        ELSE Over(Total(LAMBDA o : groups[o].heat, DOMAIN groups), Integer(Cardinality(DOMAIN groups)))

StateDetail(markets) ==
    [s \in {m.title.state : m \in Recognised(markets)} |->
        LET groups == Groups(markets, s)
        IN  [heat    |-> FoldGroups(groups),
             markets |-> Cardinality(InState(markets, s)),
             groups  |-> groups]]

\* A price snapshot is [market, at, price, volume]; titles maps the markets
\* that are considered to their titles.
LatestOf(snapshots, m, t) ==
    LET past == {x \in snapshots : x.market = m /\ x.at =< t}
    IN  IF past = {} THEN None ELSE CHOOSE x \in past : \A y \in past : y.at =< x.at

Row(titles, x) == [id |-> x.market, title |-> titles[x.market], price |-> x.price, volume |-> x.volume]

\* Per day boundary, every market's last priced snapshot.
DailyMarketRows(titles, snapshots, boundary) ==
    LET priced == {x \in snapshots : x.price # None}
    IN  {Row(titles, LatestOf(priced, m, boundary)) :
            m \in {n \in DOMAIN titles : LatestOf(priced, n, boundary) # None}}

\* Days without a value are skipped.
StateLeanSeries(titles, snapshots, s, days, asOf) ==
    LET lean(t) == StateLean(DailyMarketRows(titles, snapshots, t))
    IN  [t \in {u \in asOf - days .. asOf : s \in DOMAIN lean(u)} |-> lean(t)[s].heat]

National(leans) ==
    LET volume == Total(LAMBDA s : leans[s].volume, DOMAIN leans)
    IN  IF DOMAIN leans = {} THEN None
        ELSE IF Less(Zero, volume)
             THEN Over(Total(LAMBDA s : Times(leans[s].heat, leans[s].volume), DOMAIN leans), volume)
             ELSE Over(Total(LAMBDA s : leans[s].heat, DOMAIN leans), Integer(Cardinality(DOMAIN leans)))

NationalLeanSeries(titles, snapshots, days, asOf) ==
    LET lean(t) == StateLean(DailyMarketRows(titles, snapshots, t))
    IN  [t \in {u \in asOf - days .. asOf : DOMAIN lean(u) # {}} |-> National(lean(t))]

-----------------------------------------------------------------------------
(* pmi_api.routes.maga *)

\* The ILIKE filter of the routes.
Prefiltered(titles) ==
    [m \in {n \in DOMAIN titles : titles[n].wording = "direct" /\ titles[n].cycle
                                  /\ titles[n].party \in Parties} |-> titles[m]]

\* The last snapshot of each market, priced or not; one without a price drops
\* its market.
LoadRaceRows(titles, snapshots, cutoff) ==
    {Row(titles, x) :
        x \in {y \in snapshots : /\ y.market \in DOMAIN Prefiltered(titles)
                                  /\ y = LatestOf(snapshots, y.market, cutoff)
                                  /\ y.price # None}}

ByState(titles, snapshots, cutoff) == StateLean(LoadRaceRows(titles, snapshots, cutoff))

NationalHeat(titles, snapshots, cutoff) == National(ByState(titles, snapshots, cutoff))

StatePage(titles, snapshots, cutoff) == StateDetail(LoadRaceRows(titles, snapshots, cutoff))

\* Snapshots from one day before the first boundary.
Window(snapshots, days, cutoff) == {x \in snapshots : x.at \in cutoff - days - 1 .. cutoff}

StateTrends(titles, snapshots, s, days, cutoff) ==
    StateLeanSeries(Prefiltered(titles), Window(snapshots, days, cutoff), s, days, cutoff)

NationalTrends(titles, snapshots, days, cutoff) ==
    NationalLeanSeries(Prefiltered(titles), Window(snapshots, days, cutoff), days, cutoff)
=============================================================================
