SPECIFICATION Spec
CONSTANTS
  NUM_FILES = 3
  TASK_NUM_FILES = 5
  MAX_TASKS = 3
  DEVICES <- SerialOnly
  DISK <- SmallDisk
  TAR_BLOCKSIZE = 2
  READ_LENS = {1, 2}
  NULL = NULL
INVARIANTS
  DescriptorsAreSound
  OnlyRefusedProgramsLeak
  ConsolesAreKept
  ReadsAreSequential
  ListingIsComplete
