CONSTANTS
  NY = 2
  NO = 2
  LocalRoots = {x}
  GenRoots = {g}
  Tags = {"Block", "Forward", "Double"}
  TblSize = 1
  TblReserve = 1
  MaxTable = 2
  x = x
  g = g
SPECIFICATION Spec
INVARIANTS YoungPointersKnown PromotionKeepsGraph NoDangling
