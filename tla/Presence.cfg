\* The games of MCPresence, with ages of up to two ticks.
CONSTANTS
  h1 = h1
  h2 = h2
  h3 = h3
  Handles <- MCHandles
  None = None
  MAX_SESSION_MACHINES = 2
  Machines = {0, 1, 2}
  Grace = 2
  JoinWindow = 1
  BlockTimeout = 1
  Games <- MCGames
SPECIFICATION FairSpec
INVARIANTS
  PairingSound
  NamesFollowLogins
  SessionHidesNobody
PROPERTIES
  NamedStay
  UnnamedLeaves
  ImplementsEvidence
