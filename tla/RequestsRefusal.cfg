\* One pause that is refused.
CONSTANTS
  Clients = {c1}
  None = None
  Actions = {"pause"}
  REQUEST_TTL = 1
  REQUEST_TIMEOUT = 1
SPECIFICATION Spec
INVARIANT RefusalIsReported
