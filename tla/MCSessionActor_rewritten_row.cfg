\* A row rewritten before the tick leaves its place in the buffer.
\* A session ends, and the model with it: no deadlock check.
SPECIFICATION Spec
CONSTANTS
  Quiescence = 2
  Patience = 3
  MaxLines = 1
  MaxChars = 2
  BabbleLimit = 1
  RenderTick = 1
  Lines = {1, 2}
  Chunks <- RevisedChunks
  Signals = {}
  ExitCodes = {0}
  FollowModes = {}
  SelfTalks = {}
  Screens = {}
  MaxNow = 6
  MaxCommands = 1
  MaxChunks = 3
INVARIANT RowsKeepTheirPlace
CHECK_DEADLOCK FALSE
