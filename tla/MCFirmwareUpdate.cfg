SPECIFICATION MCSpec
CONSTANTS
  Updates = {v1, v2}
  Valid = {v1}
  None = None
INVARIANTS
  TypeOK
  IdleIsClean
  SerialUpdatesAreSound
  UncutCompletedWasApplied
PROPERTIES
  ImplementsUpdateProtocol
  OutcomesAreSent
