CONSTANTS
  Thread = {m, t, c}
  Main = m
  Foreign = {c}
  MayExit = {t, c}
  Forkers = {m}
  NULL = NULL
  m = m
  t = t
  c = c
SPECIFICATION ThreadFairSpec
INVARIANTS WaitersExact NoLostWakeup ThreadsSound
PROPERTIES ImplementsLock RuntimeAvailable
CHECK_DEADLOCK FALSE
