SPECIFICATION ChunkingSpec
CONSTANTS
    Sources <- MCSources
    Answers <- MCAnswers
    Target = 3
    WindowChars = 6
    OverlapChars = 2
    MaxMove = 2
    CacheMax = 1
    BatchSize = 3
    Limits = {0, 1, 2, 3}
INVARIANTS PlanHolds ChunksHold VectorsInOrder
CHECK_DEADLOCK FALSE
