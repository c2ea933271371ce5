\* The game saves between the last stat and SIGSTOP.
CONSTANTS
  Workers = {}
  Blocking = {}
  Requests = {}
  Faults = {}
SPECIFICATION Spec
INVARIANT
  PausedOnQuiescentSave
