\* Rendering: every revision of two lines, coalesced between ticks.
\* A session ends, and the model with it: no deadlock check.
SPECIFICATION FairSpec
CONSTANTS
  Quiescence = 1
  Patience = 2
  MaxLines = 2
  MaxChars = 3
  BabbleLimit = 1
  RenderTick = 1
  Lines = {1, 2}
  Chunks <- HeldChunks
  Signals = {"FarEndLine"}
  ExitCodes = {0}
  FollowModes = {}
  SelfTalks = {}
  Screens = {}
  MaxNow = 3
  MaxCommands = 1
  MaxChunks = 3
INVARIANTS BufferIsCurrent LastWordBeforeTheEnd
PROPERTIES BufferBeforeSpeech RowsReachTheBuffer SpeechIsDecided
CHECK_DEADLOCK FALSE
