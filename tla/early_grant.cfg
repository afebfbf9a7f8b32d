SPECIFICATION SpecFounded
CONSTANTS
  Procs = {"h1", "fam"}
  Creators = {"h1"}
  IdOf <- MCIdOf
  Fam = "fam"
  Late = {}
  Mortal = {}
  Serial = FALSE
  Script <- NoScript
  Asks <- MCAsks
  Founder <- FounderZero
  JunkFlag = {FALSE}
  JunkWord = {0}
  MaxRestarts = 0
  MaxContext = 8
  MaxParticipant = 3
  r1 = r1
  r2 = r2
  Ranges = {r1, r2}
  ZeroRange = zero
INVARIANT GrantedIsRecorded
CHECK_DEADLOCK FALSE
