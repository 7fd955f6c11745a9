CONSTANTS
    s1 = s1  s2 = s2  j1 = j1  j2 = j2  c1 = c1  c2 = c2  w1 = w1
    None = None  All = All
    Sources <- OneSource
    Jobs <- TwoJobs
    Callers <- TwoCallers
    Workers <- OneAtATime
    Scopes <- AllOnly
    MaxTime = 1
    MaxChanges = 2
    MaxFaults = 0
SPECIFICATION Spec
SYMMETRY MCSymmetry
INVARIANTS NeverOlderThanAsked
