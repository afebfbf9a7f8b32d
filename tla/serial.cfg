SPECIFICATION SpecFresh
CONSTANTS
  Procs = {"h0", "h1", "h2", "fam"}
  Creators = {"h0", "h1", "h2"}
  IdOf <- MCIdOf
  Fam = "fam"
  Late = {}
  Mortal = {"h0", "h2"}
  Serial = TRUE
  Script <- ManageScript
  Asks <- FirstMixedAsks
  Founder <- FounderZero
  JunkFlag = {FALSE}
  JunkWord = {0}
  MaxRestarts = 1
  MaxContext = 8
  MaxParticipant = 3
  r1 = r1
  r2 = r2
  Ranges = {r1, r2}
  ZeroRange = zero
INVARIANTS TypeOK CalmIsComplete CalmIsClean AdmittedWasAsked FamNeverFails CountersAgree LockNamesItsOwner TwoContextsAtMost
PROPERTY ServesAccessControl
CHECK_DEADLOCK FALSE
