SPECIFICATION FairSpec
CONSTANTS
  MAX_TASKS = 5
  NUM_DISPLAYS = 0
  EXIT_CODES = {2}
  INT_TTYS = {}
  SHELL_MAY_FAIL = FALSE
  NULL = NULL
INVARIANTS
  NoDanglingTask
  AwaitedChildIsAlive
  NoLostLine
PROPERTIES
  WaitEndsWithChild
  NobodyStarves
  ImplementsLifecycle
