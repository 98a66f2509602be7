SPECIFICATION Spec
CONSTANTS
  Software <- AllSoftware
  ReadOnly = {FALSE, TRUE}
  HostBytes = {7}
  MinSize = 2
  BufferSize = 4
  ByteTicks = 1
  HalfRange = 2
INVARIANTS
  TypeOK
  MatchedSector
  WritesKept
PROPERTIES
  SectorsInTurn
