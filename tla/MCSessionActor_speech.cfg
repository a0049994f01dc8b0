\* Speech: the policy, its timers and self-talk, on one command that succeeds.
\* A session ends, and the model with it: no deadlock check.
SPECIFICATION Spec
CONSTANTS
  Quiescence = 2
  Patience = 3
  MaxLines = 1
  MaxChars = 2
  BabbleLimit = 1
  RenderTick = 1
  Lines = {1, 2}
  Chunks <- SpokenChunks
  Signals = {"GracePeriodExpired"}
  ExitCodes = {0}
  FollowModes = {}
  SelfTalks = {}
  Screens = {}
  MaxNow = 7
  MaxCommands = 1
  MaxChunks = 4
INVARIANTS PacingInvariants SpeechIsNotPostponed NothingSpokenIsLost ReadOnceInOrder
           BabbleIsSilenced
CHECK_DEADLOCK FALSE
