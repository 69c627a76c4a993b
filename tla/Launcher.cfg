SPECIFICATION LauncherSpec
CONSTANTS
  l1 = l1
  a1 = a1
  a2 = a2
  a3 = a3
  Launchers <- One
  Agents <- Three
  Tried = 2
  Taken <- Foreign
  Mishaps <- Usual
  Deaths = 1
SYMMETRY Alike
INVARIANTS AnswerTrue NoSecond
CHECK_DEADLOCK FALSE
