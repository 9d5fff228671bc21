SPECIFICATION FairSpec
CONSTANTS
    a = a  b = b  c = c  war = war
    Markets = {a, b, c}
    Indexes = {war}
    NoIndex = NoIndex
    Portfolios <- MCPortfolios
    Old = 2
    Concurrency = 2
    Cap = 2
    Debounce = 2
    Setups <- MCSetups
INVARIANT StormBounded
PROPERTIES
    WaitedAnswerIsNewer
    HotMarketRescored
    OpenMarketFollowed
CHECK_DEADLOCK FALSE
