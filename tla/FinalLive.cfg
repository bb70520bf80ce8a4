CONSTANTS
  N = 2
  F = 1
  Tags = {"Block"}
  GrayInit = 2
  GrayLimit = 3
  MaxWeak = 0
  MaxFinal = 1
SPECIFICATION FairSpecF
INVARIANTS NoStrongFree
PROPERTIES FinaliseOnlyDead Finalised
