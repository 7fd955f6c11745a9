SPECIFICATION AccountsSpec
CONSTANTS
  c1 = c1
  c2 = c2
  Clients = {c1, c2}
  Names <- MCNames
  Lists <- MCLists
  MaxIds = 4
  MaxTokens = 1
  MaxKeys = 1
  Bootstrap = TRUE
  None = None
SYMMETRY ClientSymmetry
INVARIANT OwnAccount
PROPERTY ReplaceTakesHold
CHECK_DEADLOCK FALSE
