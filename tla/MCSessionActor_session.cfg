\* Sessions: two commands, self-talk, failures, interrupts and the signals.
\* A session ends, and the model with it: no deadlock check.
SPECIFICATION Spec
CONSTANTS
  Quiescence = 1
  Patience = 2
  MaxLines = 1
  MaxChars = 2
  BabbleLimit = 1
  RenderTick = 1
  Lines = {1, 2}
  Chunks <- SpokenChunks
  Signals = {"ConnectionChanged", "MarkersObserved", "GracePeriodExpired",
             "CommandInterrupted"}
  ExitCodes = {0, 1}
  FollowModes = {TRUE, FALSE}
  SelfTalks = {TRUE, FALSE}
  Screens = {"Alternate"}
  MaxNow = 3
  MaxCommands = 2
  MaxChunks = 2
INVARIANT TimersServeTheCommand
PROPERTIES SelfTalkIsQuiet FollowReadsWhatFits
CHECK_DEADLOCK FALSE
