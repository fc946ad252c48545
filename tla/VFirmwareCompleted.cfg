SPECIFICATION Spec
CONSTANTS
  Updates = {v1}
  Valid = {v1}
  None = None
PROPERTIES
  SerialCompletedWasApplied
