SPECIFICATION McpFairSpec
CONSTANTS
    Boot = Boot
    Callers = {c1, c2}
    MaxIds = 6
    MaxSessions = 3
    MaxEvictions = 1
INVARIANTS NoOrphans OwnAnswerOnce RenewalWorks
PROPERTIES RequestsEnd
CHECK_DEADLOCK FALSE
