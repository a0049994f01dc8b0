\* An interrupt that arrives when its command has ended.
\* A session ends, and the model with it: no deadlock check.
SPECIFICATION Spec
CONSTANTS
  Markers = "PromptAndCommandLine"
  Rows = {1, 2}
  Tokens = {"$", "d", "o", "s"}
  Punctuation = {"$"}
  Setup <- NoSetup
  Lines <- OneLine
  Items <- ShellItems
  Capacity = 2
  BatchSize = 1
  RowWidth = 2
  MaxItems = 6
  MaxIds = 2
  MaxPresses = 1
PROPERTY InterruptDiesWithItsCommand
CHECK_DEADLOCK FALSE
