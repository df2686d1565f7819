SPECIFICATION Spec
CONSTANTS
  MAX_TASKS = 5
  NUM_DISPLAYS = 0
  EXIT_CODES = {2}
  INT_TTYS = {0}
  SHELL_MAY_FAIL = FALSE
  NULL = NULL
INVARIANTS
  KernelTasksNeverExit
