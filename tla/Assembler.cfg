SPECIFICATION SpecAssembler
CONSTANTS
  Projects <- AllProjects
  ProgramCounters = {5}
  RamStart = 4
  MemoryTop = 24
  IntMax = 127
  FieldRange <- Ranges
  MaxLabels = 4
  MaxDepth = 3
  ChunkSize = 2
  LineBytes = 8
INVARIANTS AssemblerTypeOK LandsInPlace IncludesInPlace
PROPERTIES RefusedWritesNothing
