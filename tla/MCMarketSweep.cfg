SPECIFICATION FairSweepSpec
CONSTANTS
    LastMarket = 3
    FirstListed = 2
    Procs = {"loop", "once"}
    Setups <- MCSetups
    PageSize = 1
    MaxPages = 3
    MaxFaults = 1
    Recent = 4
    MaxPerCycle = 3
    Swept <- MCSwept
    NoRow = NoRow
    None = None
INVARIANTS
    WalkIsComplete
    HealthFollowsLog
PROPERTIES
    CatchesUp
    SweptIfTheyFit
CHECK_DEADLOCK FALSE
