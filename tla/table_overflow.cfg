SPECIFICATION Spec
CONSTANTS
  MaxContext = 2
  MaxParticipant = 3
  Ranges = {r1, r2}
  ZeroRange = zero
  Hosts = {0, 1}
  MaxRequests = 4
PROPERTY FullDomainTakesNoMore
CHECK_DEADLOCK FALSE
