SPECIFICATION Spec
CONSTANTS
  NUM_DISPLAYS = 2
  textwidth = 2
  textheight = 3
  PRINTING = {"a"}
  PANIC_MESSAGES <- Messages
  MAX_POS <- OneFull
INVARIANTS
  TextIsTail
  RepaintShowsText
  PanicIsShown
