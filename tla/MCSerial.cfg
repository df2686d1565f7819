SPECIFICATION FairSpec
CONSTANTS
  TTY_BUFIO_LEN = 3
  PRINTING = {"a"}
  READ_LENS = {1, 5}
  MAX_LINE = 4
  CONTROLLERS = {"apic", "gic", "plic"}
  SENT = {"a", "CR", "DELETE", "EOT"}
INVARIANTS
  EchoMatchesLine
  TimeoutsAreSpurious
PROPERTIES
  LineIsDelivered
  WaitedLineIsRead
  ByteIsRead
