SPECIFICATION MCLivenessSpec
CONSTANTS
  WordSize = 64
  InsPerUs = 4
  InsPerLoop = 2
  UsPerMs = 5
  Bodies = {}
  InitialSettings <- MCInitialSettings
  InitialCameras <- MCInitialCameras
  Names = {c1, c2}
  NoName = NoName
  Torn = Torn
  Notifiers = {k1}
  NoThread = NoThread
  Senders = {s1, s2}

PROPERTIES
  EveryCaptureIsAnnounced
