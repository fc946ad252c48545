SPECIFICATION Spec
CONSTANTS
  WordSize = 64
  InsPerUs = 4
  InsPerLoop = 2
  UsPerMs = 5
  Bodies <- MCBodies
  InitialSettings <- MCInitialSettings
  InitialCameras <- MCInitialCameras
  Names = {n1, n2}
  NoName = NoName
  Torn = Torn
  Notifiers = {k1}
  Senders = {s1}
INVARIANTS
  TypeOK
  CapturingIffInSession
  CameraFollowsSettings
PROPERTIES
  RunSnapshotsAreLabelled
  RunFreezesSettings
  AcceptedMeansApplied
  ImplementsCaptureSession
