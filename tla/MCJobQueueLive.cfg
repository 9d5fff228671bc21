SPECIFICATION FairSpec
CONSTANTS
    j1 = j1  j2 = j2  k1 = k1  p1 = p1  p2 = p2  w1 = w1  w2 = w2
    NoKey = NoKey
    NoJob = NoJob
    Jobs <- MCJobs2
    Keys <- MCNoKeys
    Producers <- MCProducers1
    Workers <- MCWorkers1
    Priorities = {50, 100}
    MaxAttempts = 2
    Concurrency = 2
PROPERTIES EveryJobSettles
