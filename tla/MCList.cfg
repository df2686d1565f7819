SPECIFICATION Spec
CONSTANTS
  MAX_TASKS = 5
  HEAD = HEAD
  NULL = NULL
INVARIANTS
  WalkStaysOnRing
PROPERTIES
  ImplementsTaskOrder
  SchedulerTakesNext
