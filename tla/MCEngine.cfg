SPECIFICATION Spec
CONSTANTS
    None = None
    Today <- MCToday
    States <- MCStates
    Ticks <- MCTicks
    Fixtures <- MCFixtures
    Maps <- MCMaps
    Chambers <- MCChambers
    Books <- MCBooks
INVARIANTS
    OneComponentPerEvent
    ScoreIsInvariant
    ChamberIsExact
    LineageRebuildsScore
    PagesAgree
    BooksAgree
    DryRunShowsScore
CHECK_DEADLOCK FALSE
