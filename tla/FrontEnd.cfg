SPECIFICATION Spec
CONSTANTS
  Hz48 = 20
  Hz128 = 21
  Models = {"48K", "128K", "plus3"}
  HostKeys = {k1}
  FrameTicks = 10
  TickModulus = 40
  HoldFrames = 1
  CooldownFrames = 1
  BootFrames = 1
  IdleFrames = 2
  CaptureFrames = 2
  Slots = 2
  Uses <- AllUses
INVARIANTS TypeOK PulsesKept NothingWaits
PROPERTIES KeepsTapeAndKeys
