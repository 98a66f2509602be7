SPECIFICATION MCSpec
CONSTANTS
  Base = 2
  Speed = 2
  Z80Ports = {FALSE, TRUE}
  ReadsBack = TRUE
  Wr0 <- IoWr0
  Wr1 <- IoWr1
  Wr2 <- IoWr2
  Wr3 = {}
  Wr4 <- IoWr4
  Wr5 = {TRUE}
  Commands = {"LOAD", "ENABLE", "DISABLE", "READ_MASK"}
  Parameters <- IoParameters
INVARIANTS
  TypeOK
  HeldOnlyByTransfer
  PointersFollowCounter
PROPERTIES
  BlocksAreWhole
  CpuResumes
