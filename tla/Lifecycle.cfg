\* Two starts of a container with all kinds of exit backups and three faults; the
\* two threads that skip a quiet window and the one that blocks.
CONSTANTS
  Workers = {scheduler, reporter, poller}
  Blocking = {poller}
  AutoPause = TRUE
  Cold = TRUE
  Emergency = TRUE
  MaxFaults = 3
  MaxLives = 2
SPECIFICATION FairLifecycleSpec
INVARIANTS
  PidFileTells
PROPERTIES
  FirstRequestStands
  ExitBackup
  ExitEnds
  BackgroundEnds
CHECK_DEADLOCK FALSE
