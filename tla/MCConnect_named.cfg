\* A session that replaces the one being saved is given its name.
SPECIFICATION FairSpec
CONSTANTS
  Names = {"home", "Home"}
  Sound <- Spellings
  Profiles = {"server"}
  OverSsh = {"server"}
  Savable = {"server"}
  LineOwners = {"FarEnd"}
  Hosts = {"key"}
  Places = {"dialog", "new"}
  MaxAttempts = 2
  MaxLeft = 1
  MaxTries = 1
PROPERTY NamedAsSaved
CHECK_DEADLOCK FALSE
