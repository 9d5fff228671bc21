SPECIFICATION Spec
CONSTANTS
    j1 = j1  j2 = j2  k1 = k1  p1 = p1  p2 = p2  w1 = w1  w2 = w2
    NoKey = NoKey
    NoJob = NoJob
    Jobs <- MCJobs1
    Keys <- MCKeys
    Producers <- MCProducers1
    Workers <- MCWorkers2
    Priorities = {50}
    MaxAttempts = 2
    Concurrency = 1
INVARIANTS NoDoubleExecution
