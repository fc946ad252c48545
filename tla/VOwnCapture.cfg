SPECIFICATION Spec
CONSTANTS
  Captures = {f1, f2}
  NoName = NoName
  Torn = Torn
  Threads = {t1, t2}
  NoThread = NoThread
INVARIANTS
  OwnCapture
