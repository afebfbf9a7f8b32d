SPECIFICATION Spec
CONSTANTS
  MaxContext = 3
  MaxParticipant = 3
  Ranges = {r1, r2}
  ZeroRange = zero
  Hosts = {0, 1, 2}
  MaxRequests = 5
INVARIANTS TypeOK DomainsUnique KeysDistinct
PROPERTY ImplementsAccessControl
CHECK_DEADLOCK FALSE
