\* A row grows and leaves the screen in one read.
\* A session ends, and the model with it: no deadlock check.
SPECIFICATION Spec
CONSTANTS
  Markers = "PromptAndCommandLine"
  Rows = {1, 2}
  Tokens = {"$", "d", "o", "s"}
  Punctuation = {"$"}
  Setup <- NoSetup
  Lines <- OneLine
  Items <- Growing
  Capacity = 1
  BatchSize = 1
  RowWidth = 2
  MaxItems = 3
  MaxIds = 1
  MaxPresses = 0
PROPERTY LastWordReachesTheBuffer
CHECK_DEADLOCK FALSE
