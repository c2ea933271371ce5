\* Three commands, and requests that live for two ticks.
CONSTANTS
  Clients = {c1, c2, c3}
  None = None
  Actions = {"pause", "disable"}
  REQUEST_TTL = 2
  REQUEST_TIMEOUT = 2
SPECIFICATION Spec
SYMMETRY Symmetry
INVARIANTS
  ReportIsTrue
  AtMostOnce
PROPERTY
  GivenUpIsNotTaken
