SPECIFICATION Spec
CONSTANTS
  FrameTstates = 12
  LineTstates = 4
  PulseTstates = 3
  Multipliers = {1, 2, 8}
  LineTargets = {0, 1, 2, 3}
  LastLine = 2
  Uses <- AllUses
  MaxWrites = 2
INVARIANTS
  TypeOK
  TimeKept
  OncePerFrame
