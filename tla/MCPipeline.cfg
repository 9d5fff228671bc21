SPECIFICATION MCSpec
CONSTANTS
    t1 = t1
    t2 = t2
    gpt = gpt
    tier2 = tier2
    Ticks = {t1, t2}
    Writers = {t1, t2}
    Yamls <- MCYamls
    Markets = {1, 2, 3}
    Selections = {{}, {1}, {1, 2}, {1, 2, 3}}
    Factors = {1}
    Registry = {gpt}
    Stub = Stub
    Tier2 = tier2
    LLMConc = 2
    Budget = 2
    FailLimit = 1
    NoRow = NoRow
    None = None
INVARIANTS ExactlyOneCurrent ScoreLineage AccountingExact GuardBounds
PROPERTIES PublishesSerially TickEnds
CHECK_DEADLOCK FALSE
