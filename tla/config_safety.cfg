CONSTANTS
    c1 = c1  c2 = c2  s1 = s1  i1 = i1
    Loop = Loop  Empty = Empty  Bad = Bad
    N = 2
    Required <- First
    Bootstrapped <- First
    Restorable <- Second
    Seeded <- Second
    Reread <- Second
    Calls <- TwoCalls
    Starts <- OneStart
    Imports <- OneImport
    MaxEvents = 1
SPECIFICATION Spec
INVARIANTS SnapshotsFollow ConfirmedIsLoaded 
 
SYMMETRY AnyCall
CHECK_DEADLOCK FALSE
