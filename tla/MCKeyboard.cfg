SPECIFICATION Spec
CONSTANTS
  NUM_DISPLAYS = 2
  KEYS <- Chords
  MAX_PRESSES = 4
  MAX_WIRE = 4
  PS2_TIMEOUT = 4
  DELAY = 3
  LEFTOVERS <- Leftovers
CHECK_DEADLOCK FALSE
INVARIANTS
  KeysAreReceivedAsMeant
  ModifiersMatchKeys
  StartsDrained
