---------------------------- MODULE MCTradeStream ----------------------------
EXTENDS TradeStream

CONSTANTS a, b, c, war

Budget(listings, outages, drops, fails, crons, asks) ==
    [listings |-> listings, outages |-> outages, drops |-> drops, fails |-> fails,
     crons |-> crons, asks |-> asks]

Setup(v, S, budget) == [venue |-> v, open |-> S, left |-> budget]

\* Consumers of both venues among faults, and the scorers among each
\* other.
MCSetups ==
    {Setup("polymarket", {b}, Budget(1, 0, 0, 0, 0, 0)),
     Setup("polymarket", {a}, Budget(0, 1, 1, 0, 0, 0)),
     Setup("polymarket", {c}, Budget(1, 0, 0, 0, 0, 0)),
     Setup("polymarket", {a, b}, Budget(0, 0, 0, 1, 0, 0)),
     Setup("polymarket", {a}, Budget(0, 0, 0, 1, 1, 0)),
     Setup("kalshi", {a, b}, Budget(1, 1, 1, 0, 0, 0)),
     Setup("kalshi without key", {a}, Budget(0, 0, 0, 0, 0, 0)),
     Setup("polymarket", {a}, Budget(0, 0, 0, 1, 0, 1)),
     Setup("polymarket", {}, Budget(0, 0, 0, 1, 1, 1))}

MCPortfolios == {{a}, {a, b}}
=============================================================================
