SPECIFICATION Spec
CONSTANTS
  KHEAP_NUM_SMALL_PAGES = 28
  NUM_PT_ENTRIES = 2
  KERN_L4 = {1}
  MAX_TASKS = 2
  MAX_TEXT = 2
  NULL = NULL
  SMALL_PAGE_SIZE = 8
  TASK_ARG_LEN = 4
  ARG_ALIGN = 2
  MAX_ARGS = 4
  RANGE_LENS = {0, 2, 9, 34}
  BUF_OFFSETS = {0, 3}
  MAX_LINE = 5
INVARIANTS
  PagesHaveOneOwner
  NoPageLeaks
  OnlyOutOfMemoryPanics
  TranslationIsStable
  AccessOkIsExact
  ArgsArePassed
