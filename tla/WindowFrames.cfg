SPECIFICATION Spec
CONSTANTS
  Surfaces <- MCSurfaces
  Frames = 4
INVARIANTS
  TypeOK
  FenceWillSignal
  ShowsDrawn
  NotWhileRead
  NothingInUseDestroyed
PROPERTIES
  CommandBufferIdle
  ProgramEnds
  PresentsArrive
CHECK_DEADLOCK FALSE
