SPECIFICATION Spec
CONSTANTS
  MAX_TASKS = 6
  NUM_DISPLAYS = 1
  EXIT_CODES = {2}
  INT_TTYS = {1}
  SHELL_MAY_FAIL = TRUE
  NULL = NULL
INVARIANTS
  SchedInvariant
  NoLostRepaint
  AssertionsHold
PROPERTIES
  OwnStateOnly
