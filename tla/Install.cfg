\* Two manifests, one persisted file, one fault; every kind of source of manifests.
SPECIFICATION FairSpec
CONSTANTS
  Manifests = {1, 2}
  Holds <- MCHolds
  Default = "main"
  Exe = "exe"
  Versions <- MCVersions
  Envs <- MCEnvs
  Support = TRUE
  ModNames = {"exe"}
  Persist = {"list"}
  Config = "cfg"
  MaxFaults = 1
INVARIANTS
  MarkerMeansPlayable
  ComposedTree
PROPERTIES
  PersistKept
  StartsAgain
CHECK_DEADLOCK FALSE
