\* The inbox of a session is full when the owner of the line changes.
\* The bounds end a run, so it may stop: no deadlock check.
SPECIFICATION Spec
CONSTANTS
  MaxSessions = 1
  MaxEvents = 5
  MaxCalls = 2
  BACKLOG = 2
  REQUESTS = 1
INVARIANT OwnerCopiesAgree
CHECK_DEADLOCK FALSE
