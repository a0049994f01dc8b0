\* Announcements, dialogs and the offer to save, one after another and at once.
\* The bounds end a run, so it may stop: no deadlock check.
SPECIFICATION Spec
CONSTANTS
  SPACING = 2
  CLEAR_AFTER = 3
  STARTUP_HOLD = 1
  MaxNow = 8
  MaxSaid = 6
  MaxDialogs = 2
INVARIANTS AnnouncementsAreApart TextStands NothingSpillsIntoTheOffer ConnectedIsHeard
CHECK_DEADLOCK FALSE
