CONSTANTS
    query = query  tool = tool  emit = emit
    None = None
    Query <- query
    McpTools <- OneTool
    Emit <- emit
    Requests <- MCRequests
    MaxToolRounds = 3
    MaxRetries = 1
    MaxCalls = 2
SPECIFICATION FairSpec
INVARIANTS AnsweredBeforeAsked PostsBounded AnswerIsFit
PROPERTIES WithdrawnForCause CompletionEnds
CHECK_DEADLOCK FALSE
