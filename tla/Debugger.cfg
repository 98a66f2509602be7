SPECIFICATION SpecDebugger
CONSTANTS
  Program <- Loop
  AddressTop = 4
  PageTop = 2
  ValueTop = 4
  FrameLength = 3
  PointInputs <- Inputs
  MaxPoints = 1
  AddressInputs = {1}
  RegisterInputs <- Sets
INVARIANTS DebuggerTypeOK RunToEnds
PROPERTIES BreakpointsStop StepsOneInstruction
