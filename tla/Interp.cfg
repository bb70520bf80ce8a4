SPECIFICATION MachineSpec
CONSTANTS
  Code <- MCCode
  Debugged <- MCDebugged
  W = 8
  Sigs = {1, 2}
  MaxSignals <- MCMaxSignals
  MaxRequests = 2
  Stack_size = 48
  Stack_threshold = 24
  caml_max_stack_size = 96
VIEW MCView
CHECK_DEADLOCK FALSE
INVARIANTS CodeAgrees MachineSound
