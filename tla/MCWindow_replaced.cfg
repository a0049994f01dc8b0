\* A session replaces another while the window takes their events.
\* The bounds end a run, so it may stop: no deadlock check.
SPECIFICATION Spec
CONSTANTS
  MaxSessions = 2
  MaxEvents = 2
  MaxCalls = 0
  BACKLOG = 2
  REQUESTS = 3
INVARIANT OneSessionPerBlock
CHECK_DEADLOCK FALSE
