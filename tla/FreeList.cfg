SPECIFICATION HeapSpec
CONSTANTS
  Chunks <- MCChunks
  FirstChunks = {1, 2}
  Max_wosize = 7
  Page_size = 2
  FLP_MAX = 2
  Requests = {2, 3}
  caml_percent_free = 4
VIEW MCView
INVARIANTS HeapSound AllocationFindsFit Coalesced

CHECK_DEADLOCK FALSE
