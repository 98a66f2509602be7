SPECIFICATION Spec
CONSTANTS
  Types = {"48K", "128", "PLUS3"}
  Banks = {0, 7}
  Byte1FFD <- Plus3Bytes
  SnapshotBytes <- MCSnapshotBytes
  Interface1Rom = TRUE
  MultifaceRom = TRUE
INVARIANTS
  TypeOK
  NoStaleOverlay
  NmiEntersMultiface
  SnapshotSeesOwnRom
PROPERTIES
  LocksHold
