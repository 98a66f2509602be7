SPECIFICATION MCSpec
CONSTANTS
  Base = 2
  Speed = 1
  Z80Ports = {FALSE}
  ReadsBack = FALSE
  Wr0 <- MemoryWr0
  Wr1 <- MemoryWr1
  Wr2 <- MemoryWr2
  Wr3 = {}
  Wr4 <- MemoryWr4
  Wr5 = {TRUE}
  Commands <- MemoryCommands
  Parameters <- PacedParameters
INVARIANTS
  BurstSharesBus
