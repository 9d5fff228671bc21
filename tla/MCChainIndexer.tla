--------------------------- MODULE MCChainIndexer ---------------------------
EXTENDS ChainIndexer
CONSTANTS a, b, c1, c2, tok

Log(n, i, k, t, m, r) ==
    [block |-> n, idx |-> i, kind |-> k, token |-> t, maker |-> m, taker |-> r]

MCLogs == {Log(1, 0, "fill", tok, a, b),
           Log(2, 0, "fill", tok, b, a),
           Log(2, 1, "other", NoToken, NoWallet, NoWallet),
           Log(4, 0, "audit", NoToken, NoWallet, NoWallet),
           Log(4, 1, "fill", tok, a, NoWallet)}
=============================================================================
