SPECIFICATION Spec
CONSTANTS
  Configs <- MCConfigs
  Asks <- MCAsks
  Words <- MCWords
  Lower <- MCLower
  Dated <- MCDated
  LegacyKey = "old"
  Types = {"openai_compat", "anthropic", "ollama"}
  Window = 8
  None = None
INVARIANTS WithinLimits ListedServed AnswerStays
