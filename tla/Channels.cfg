SPECIFICATION ChannelFairSpec
CONSTANTS
  Threads = {t1, t2}
  OutChans = {out}
  InChans = {in}
  IO_BUFFER_SIZE = 2
  FileSize = 3
  MaxLen = 2
  Newlines = {3}
  MaxSignals = 1
  Opens = 1
  none = none
INVARIANTS LocksReleased BuffersExact
PROPERTY OperationsEnd
CHECK_DEADLOCK FALSE
