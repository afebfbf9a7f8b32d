SPECIFICATION Spec
CONSTANTS
  MAX_PARTICIPANT_COUNT = 1024
  MAX_CONTEXT = 16384
  MAX_PROCESSES = 8
  Hosts = {"h0", "h1", "h2"}
  Fam = "fam"
  IdOf <- MCIdOf
  SizeOf <- MCSizeOf
  DaxSize = 1073741824
  Cells = {"is_locked", "who_locked", "participant_host_ids", "proposed_update", "table", "data"}
INVARIANTS TypeOK SharedIsBacked ResetIsComplete OnlyOwnStores
PROPERTY SharedIsKept
CHECK_DEADLOCK FALSE
