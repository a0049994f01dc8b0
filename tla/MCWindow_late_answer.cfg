\* A command ends before the answer to its submission is taken.
\* The bounds end a run, so it may stop: no deadlock check.
SPECIFICATION Spec
CONSTANTS
  MaxSessions = 1
  MaxEvents = 5
  MaxCalls = 1
  BACKLOG = 2
  REQUESTS = 3
PROPERTY ShellHeadingStands
CHECK_DEADLOCK FALSE
