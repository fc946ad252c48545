SPECIFICATION SystemSpec
CONSTANTS
  WordSize = 64
  InsPerUs = 4
  InsPerLoop = 2
  UsPerMs = 5
  Bodies = {}
  InitialSettings <- MCInitialSettings
  InitialCameras <- MCInitialCameras
  Names = {c1}
  NoName = NoName
  Torn = Torn
  Notifiers = {k1, k2}
  NoThread = NoThread
  Senders = {s1}

INVARIANTS
  LabelTellsSession
