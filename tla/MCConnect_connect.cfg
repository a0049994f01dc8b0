\* Saving, renaming and forgetting while attempts run and writes fail.
SPECIFICATION FairSpec
CONSTANTS
  Names = {"home", "Home"}
  Sound <- Spellings
  Profiles = {"server", "default_wsl"}
  OverSsh = {"server"}
  Savable = {"server"}
  LineOwners = {"FarEnd"}
  Hosts = {"key"}
  Places = {"dialog", "new"}
  MaxAttempts = 2
  MaxLeft = 1
  MaxTries = 1
INVARIANTS RestartReadsTheDocument NamesAreUnique OriginIsSaved
PROPERTIES EveryAttemptEnds
CHECK_DEADLOCK FALSE
