----------------------------- MODULE Selection -----------------------------
(***************************************************************************)
(* pmi_core.engine.selector and dry_run: which markets an index scores,    *)
(* live and in a dry run over a fixture, and the score of the latter.      *)
(*                                                                         *)
(* A market is [id, venue, resolved, words, text, category, near, title,   *)
(* closes, price, volume, evals]: words are the keywords its title         *)
(* contains as words, text those it contains as strings of characters,     *)
(* near the anchors its embedding is close to, evals what the stub says of *)
(* it.  An index adds to the ir of Scoring: terms, tags, anchors, venues   *)
(* and maxMarkets.                                                         *)
(***************************************************************************)
EXTENDS Scoring
LOCAL INSTANCE Integers
LOCAL INSTANCE FiniteSets
LOCAL INSTANCE SequencesExt

\* _check_relevancy_weights and the bounds of IndexDef
ValidIndex(ir) ==
    LET weighted == {f \in DOMAIN ir.weight : ir.weight[f] # None}
    IN  /\ weighted # {}
        /\ Less(Zero, Total(LAMBDA f : Integer(ir.weight[f]), weighted))
        /\ ir.venues # {} /\ ir.terms \cup ir.tags \cup ir.anchors # {}
        /\ ir.maxMarkets >= 1

\* An anchor whose search fails contributes nothing.
SemanticIds(markets, ir, down) ==
    {markets[i].id : i \in {j \in DOMAIN markets : markets[j].near \cap (ir.anchors \ down) # {}}}

Newest(S, limit) ==
    {x \in S : Cardinality({y \in S : y.id > x.id}) < limit}

SelectMarkets(markets, ir, down) ==
    LET found == {m \in ToSet(markets) :
                    /\ m.venue \in ir.venues /\ ~m.resolved
                    /\ \/ m.words \cap ir.terms # {}
                       \/ m.category \in ir.tags
                       \/ m.id \in SemanticIds(markets, ir, down)}
    IN  SetToSortSeq(Newest(found, ir.maxMarkets), LAMBDA x, y : x.id > y.id)

\* Mutation of Matches: categories are forgotten.
MatchesByText(m, ir) == m.text \cap ir.terms # {}

\* Neither the venue nor the resolution nor the cap is looked at, and no
\* semantic selector.
Matches(m, ir) == m.text \cap ir.terms # {} \/ m.category \in ir.tags

Evaluated(m) ==
    [id |-> m.id, title |-> m.title, price |-> m.price, closes |-> m.closes,
     liquidity |-> IF m.volume # None /\ Less(Zero, m.volume) THEN m.volume ELSE None,
     evals |-> m.evals]

ScoreOf(markets, ir) ==
    WeightedAverage([i \in DOMAIN markets |-> Evaluated(markets[i])], ir)

DryRun(markets, ir) == ScoreOf(SelectSeq(markets, LAMBDA m : Matches(m, ir)), ir)

\* A tick over the same markets, evaluated by the same stub, no order books
\* and no earlier prices.
LiveRun(markets, ir, down) == ScoreOf(SelectMarkets(markets, ir, down), ir)
=============================================================================
