\* A setup line sent after the grace period, whose echo nobody saw.
\* A session ends, and the model with it: no deadlock check.
SPECIFICATION Spec
CONSTANTS
  Markers = "PromptCommandLineAndExitCode"
  Rows = {1, 2}
  Tokens = {"$", "d", "o", "s"}
  Punctuation = {"$"}
  Setup <- SetupIs
  Lines <- OneLine
  Items <- Screen
  Capacity = 2
  BatchSize = 1
  RowWidth = 2
  MaxItems = 3
  MaxIds = 2
  MaxPresses = 0
INVARIANT SpeechCanComeBack
CHECK_DEADLOCK FALSE
