\* The far end goes away while text is held back as a possible echo.
\* A session ends, and the model with it: no deadlock check.
SPECIFICATION Spec
CONSTANTS
  Markers = "PromptAndCommandLine"
  Rows = {1, 2}
  Tokens = {"$", "d", "o", "s"}
  Punctuation = {"$"}
  Setup <- NoSetup
  Lines <- OneLine
  Items <- Screen
  Capacity = 2
  BatchSize = 1
  RowWidth = 2
  MaxItems = 4
  MaxIds = 2
  MaxPresses = 1
PROPERTY HeldTextOutlivesTheSession
CHECK_DEADLOCK FALSE
