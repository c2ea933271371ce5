\* The game, up to two services that come and go, three scans at most and two polls.
SPECIFICATION Spec
CONSTANTS
  Game = game
  Services = {s1, s2}
  ScanAttempts = 3
  PollAttempts = 2
SYMMETRY Symmetry
INVARIANTS
  SuspendedIsStopped
  AskedToRun
  NobodyLeftStopped
  GameFirst
