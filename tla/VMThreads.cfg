SPECIFICATION VMFairSpec
CONSTANTS
  Thread = {m, a, b}
  Main = m
  Lockers = {m, a}
  Blockers = {a, b}
  FD = {1}
  NULL = NULL
  m = m
  a = a
  b = b
INVARIANTS SleepersKnown
PROPERTY Resumes
