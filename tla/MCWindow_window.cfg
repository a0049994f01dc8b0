\* One session, attached while it talks, typed at and switched.
\* The bounds end a run, so it may stop: no deadlock check.
SPECIFICATION Spec
CONSTANTS
  MaxSessions = 1
  MaxEvents = 5
  MaxCalls = 2
  BACKLOG = 2
  REQUESTS = 3
INVARIANTS NothingIsOvertaken OwnersAgree
PROPERTY EchoKeepsTheHeading
CHECK_DEADLOCK FALSE
