SPECIFICATION SpecFounded
CONSTANTS
  Procs = {"h1", "h2", "fam"}
  Creators = {"h1", "h2"}
  IdOf <- MCIdOf
  Fam = "fam"
  Late = {}
  Mortal = {}
  Serial = FALSE
  Script <- NoScript
  Asks <- MixedAsks
  Founder <- FounderZero
  JunkFlag = {FALSE}
  JunkWord = {0}
  MaxRestarts = 0
  MaxContext = 6
  MaxParticipant = 3
  r1 = r1
  r2 = r2
  Ranges = {r1, r2}
  ZeroRange = zero
INVARIANT AdmittedWasAsked
CHECK_DEADLOCK FALSE
