\* The suspension, the resume, the controller, the stream, the roster and the game
\* may fail; one thread goes through the gate.
CONSTANTS
  Workers = {scheduler}
  Blocking = {}
  Requests = {"pause-force", "resume"}
  Faults = {"suspend", "resume", "controller", "stream", "cap", "crash"}
SPECIFICATION Spec
INVARIANTS
  IInv
  AwakeAtSigint
  FrozenHasNoWork
  NoLeakedWindow
  PauseIsConsistent
PROPERTY
  ImplementsQuietWindow
VIEW Compared
