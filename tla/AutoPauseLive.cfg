\* Liveness, with suspensions, rollbacks and the paused marker that fail.
CONSTANTS
  Workers = {}
  Blocking = {}
  Requests = {"reset"}
  Faults = {"suspend", "rollback", "files"}
SPECIFICATION FairSpec
PROPERTIES
  WakeResumes
  ShutdownEnds
  WindowEnds
  DisableResumes
