SPECIFICATION ProvisionSpec
CONSTANTS
  MaxNode = 2
  MaxKey = 3
  Calls = 1
  Crashes = 1
  Faults <- Rename
CONSTRAINT KeysAlone
INVARIANTS IdentityStays ReadyMeansServed
PROPERTIES KeyKept NothingLost
CHECK_DEADLOCK FALSE
