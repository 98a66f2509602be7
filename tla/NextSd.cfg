SPECIFICATION Spec
CONSTANTS
  Blocks = 2
  BlockSize = 2
  RegisterSize = 1
  Capacity = 17
  CommandSize = 3
  Hosts <- AllHosts
  Fills = {"a", "b"}
  Writable = {FALSE, TRUE}
  IoFails = TRUE
  MaxPastEnd = 1
INVARIANTS
  TypeOK
PROPERTIES
  ResponsesArrive
  KeepsVolume
