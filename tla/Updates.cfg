SPECIFICATION UpdatesSpec
CONSTANTS
  MaxVersion = 3
  Broken <- Two
  Programs <- Either
  Systems <- Both
  Faults <- Disk
  Crashes = 1
INVARIANTS Bootable OnlyVerified RollbackDeserved
CHECK_DEADLOCK FALSE
