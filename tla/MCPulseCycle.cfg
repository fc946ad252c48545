SPECIFICATION Spec
CONSTANTS
  WordSize = 64
  InsPerUs = 4
  InsPerLoop = 2
  UsPerMs = 5
  SettingsChoices <- MCChoices
  InitialSettings <- MCInitialSettings
  Defaults <- MCDefaults
INVARIANTS
  TypeOK
  SessionKeepsCycling
  CyclesFollowSettings
  CyclesLastTheirPeriod
  RunsAreUndisturbed
  DelaysAreComputed
PROPERTIES
  IdlePruWindsDown
  IdlePruHalts
  ImplementsTriggerLoop
  ImplementsCaptureSession
