SPECIFICATION Spec
CONSTANTS
  Captures = {c1, c2}
  Torn = Torn
  NoName = NoName
  Threads = {t1, t2}
  NoThread = NoThread
INVARIANTS
  TypeOK
  StartIsNotLost
  ToldOnlyUploads
PROPERTIES
  StopQuiesces
  SequentialDeliversOwn
