SPECIFICATION Spec
CONSTANTS
  d1 = d1
  d2 = d2
  Docs = {d1, d2}
  Versions <- MCVersions
  None = None
  Mixed = Mixed
  MaxRuns = 2
  Requests <- MCRequests
  Corpora <- MCCorpora
  VectorScore <- MCVectorScore
  TextScore <- MCTextScore
  FieldScore <- MCFieldScore
  RerankScore <- MCRerankScore
  QueryAliases <- MCQueryAliases
  PrefersExact <- MCPrefersExact
  Precedes <- MCPrecedes
  EdgePrecedes <- MCEdgePrecedes
  ListFields = {"topics"}
  RowFields = {"source_id"}
  ExactK = 2
  GraphK = 2
  EdgeK = 3
  RerankK = 3
  MaxRerank = 2
  MaxOverlap = 2
INVARIANTS
  HangsTogether
  OnlyReferencesLost
  AnswerFiltered
  BetterHitFirst
