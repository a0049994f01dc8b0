\* A setup that fails is announced.
\* A session ends, and the model with it: no deadlock check.
SPECIFICATION Spec
CONSTANTS
  Quiescence = 2
  Patience = 3
  MaxLines = 1
  MaxChars = 2
  BabbleLimit = 1
  RenderTick = 1
  Lines = {1, 2}
  Chunks <- OneLineChunks
  Signals = {}
  ExitCodes = {0, 1}
  FollowModes = {}
  SelfTalks = {TRUE}
  Screens = {}
  MaxNow = 6
  MaxCommands = 1
  MaxChunks = 3
PROPERTY SelfTalkIsNeverAnnounced
CHECK_DEADLOCK FALSE
