SPECIFICATION Spec
CONSTANTS
  Codes = {"A", "B", "F"}
  Foreign = {"F"}
  Plans <- All
  FreeSeconds = 2
  FreeTransfers = 2
  Full = 3
INVARIANTS LeaseHonoured NeverOvercharged
PROPERTY WipeDeserved
CHECK_DEADLOCK FALSE
