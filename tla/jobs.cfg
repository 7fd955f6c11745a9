CONSTANTS
    c1 = c1  j1 = j1  j2 = j2  w1 = w1  w2 = w2  a1 = a1
    None = None
    Corpora <- MCCorpora
    Jobs <- MCJobs
    Workers <- MCWorkers
    Callers <- MCCallers
    MaxSources = 1
    MaxFaults = 1
SPECIFICATION FairSpec
CHECK_DEADLOCK FALSE
INVARIANTS ExclusiveRun CompletedIsTrue RunningIsServed JobsHaveCorpus
PROPERTIES CancelHolds ImplementsLifecycle JobsSettle WorkerReturns
