SPECIFICATION LockSpec
CONSTANTS
  Procs = {"h0", "h1", "fam"}
  Creators = {"h0", "h1"}
  IdOf <- MCIdOf
INVARIANTS LockTypeOK OwnerPresent AbandonedIsOverridable
