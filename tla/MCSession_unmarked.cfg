\* A shell that marks nothing, set up by Acter: echoes are all there is, and keys are pressed.
\* A session ends, and the model with it: no deadlock check.
SPECIFICATION Spec
CONSTANTS
  Markers = "PromptAndCommandLine"
  Rows = {1, 2}
  Tokens = {"$", "d", "o", "s"}
  Punctuation = {"$"}
  Setup <- SetupEchoes
  Lines <- WithABlank
  Items <- Screen
  Capacity = 1
  BatchSize = 1
  RowWidth = 2
  MaxItems = 4
  MaxIds = 2
  MaxPresses = 1
INVARIANTS CommandsStartInOrder NoLineVanishes RunningCommandCanBeStopped
PROPERTY HeldTextIsNotLost
CHECK_DEADLOCK FALSE
