SPECIFICATION Spec
CONSTANTS
  Handlers = {t1, t2}
  MaxFrame = 2
  MaxClock = 1
PROPERTIES
  FilesAreDeleted
