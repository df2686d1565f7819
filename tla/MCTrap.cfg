SPECIFICATION Spec
CONSTANTS
  ARCHS = {"riscv64", "x86_64", "aarch64"}
  User = {u1, u2, u3}
  Kernel = {root, idle}
  idle = idle
SYMMETRY ThreadSymmetry
INVARIANTS
  FramesAreKept
  EntryStackIsOwn
  InterruptsAsAssumed
  AssertionsHold
