SPECIFICATION Spec
CONSTANTS
  Setups <- All
  MaxTasks = 3
  MaxHistory = 2
INVARIANTS OwnControls OneRecord StreamWakes
PROPERTY GivesWay
CHECK_DEADLOCK FALSE
