\* A shell that marks its prompt, set up by Acter.
\* A session ends, and the model with it: no deadlock check.
SPECIFICATION Spec
CONSTANTS
  Markers = "PromptCommandLineAndExitCode"
  Rows = {1, 2}
  Tokens = {"$", "d", "o", "s"}
  Punctuation = {"$"}
  Setup <- SetupIs
  Lines <- OneLine
  Items <- ShellItems
  Capacity = 1
  BatchSize = 1
  RowWidth = 2
  MaxItems = 5
  MaxIds = 2
  MaxPresses = 0
INVARIANTS ActorFollowsThePump SetupEndsInSilence
CHECK_DEADLOCK FALSE
