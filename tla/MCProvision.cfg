SPECIFICATION FairSetupSpec
CONSTANTS
  Names = {"named", "default"}
  NFiles = 1
  Events = {"Stop"}
  MaxVersion = 2
  MaxFailures = 1
  MaxEdits = 1
  Scripts = {s1, s2}
  Distros <- AllDistros
ACTION_CONSTRAINTS
  InTurn
  Scenes
INVARIANTS
  OneSetupPerLaunch
  MarkerMeansInstalled
PROPERTIES
  UserContentKept
  RetriedUntilInstalled
CHECK_DEADLOCK FALSE
