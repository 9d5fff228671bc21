SPECIFICATION FairSpec
CONSTANTS
    a = a
    b = b
    c1 = c1
    c2 = c2
    tok = tok
    Indexers = {c1, c2}
    Logs <- MCLogs
    Wallets = {a, b}
    Tokens = {tok}
    NoWallet = NoWallet
    NoToken = NoToken
    StartBlock = 1
    Chunk = 1
    Chunks = 2
    Lag = 1
    MaxBlock = 5
    MaxFaults = 1
INVARIANTS TrailExplains CountsBounded
PROPERTIES FollowsChain AllIndexed
