SPECIFICATION FairSpec
CONSTANTS
    LastPair = 2
    IndexOf <- MCIndexOf
    LastBatch = 2
    Stray = {"stray"}
    Budgets <- MCBudgets
    NoRow = NoRow
    None = None
INVARIANT IngestedIsCached
PROPERTY BatchSettles
CHECK_DEADLOCK FALSE
