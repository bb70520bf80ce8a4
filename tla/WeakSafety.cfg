CONSTANTS
  N = 3
  F = 1
  Tags = {"Block"}
  GrayInit = 2
  GrayLimit = 2
  MaxWeak = 2
  MaxFinal = 0
SPECIFICATION SpecF
INVARIANTS WeakSound
PROPERTY EraseOnlyDead
