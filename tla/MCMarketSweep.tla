--------------------------- MODULE MCMarketSweep ---------------------------
EXTENDS MarketSweep

Feed(v, kinds) == [venue |-> v, size |-> LastMarket, kind |-> kinds, procs |-> {"loop"}]

\* Every venue with a market that has no name; one page source of each way to
\* page with a market that the database refuses; one polled by the loop and by
\* hand.
Polled ==
    {Feed(v, <<"bare", "nameless", "priced">>) : v \in Venues \ {"mock"}} \cup
    {Feed(v, <<"priced", "refused", "bare">>) : v \in {"manifold", "metaculus"}} \cup
    {Feed(v, <<"priced", "overflow", "bare">>) : v \in {"forecastex", "gemini"}} \cup
    {[venue |-> "predictit", size |-> 2, kind |-> <<"nameless", "nameless", "nameless">>,
      procs |-> Procs]}

\* One feed of two markets for each sweeper.
Short(v, kinds) == [Feed(v, kinds) EXCEPT !.size = 2]

MCSwept == {<<Short("mock", <<"bare", "bare", "nameless">>), "polymarket-clob">>,
            <<Short("mock", <<"nameless", "bare", "nameless">>), "polymarket-history">>,
            <<Short("kalshi", <<"bare", "bare", "nameless">>), "kalshi-clob">>}

MCSetups == Polled \cup {x[1] : x \in MCSwept}
=============================================================================
