CONSTANTS
    s1 = s1  s2 = s2  j1 = j1  j2 = j2  c1 = c1  c2 = c2  w1 = w1
    None = None  All = All
    Sources <- TwoSources
    Jobs <- OneJob
    Callers <- OneCaller
    Workers <- OneAtATime
    Scopes <- AnyScope
    MaxTime = 2
    MaxChanges = 1
    MaxFaults = 1
SPECIFICATION Spec
SYMMETRY MCSymmetry
INVARIANTS CompletedMakesReady
PROPERTIES OnlyCompletionMakesReady
