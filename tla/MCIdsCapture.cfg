SPECIFICATION Spec
CONSTANTS
  Handlers = {t1, t2}
  MaxFrame = 3
  MaxClock = 3
INVARIANTS
  TypeOK
  UnhurriedKeepsAll
  UnhurriedSavesOnce
  SessionIsServed
PROPERTIES
  IdleFallsStill
  PruHaltsWithoutCamera
