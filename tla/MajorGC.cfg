CONSTANTS
  N = 3
  F = 1
  Tags = {"Block", "Lazy"}
  GrayInit = 2
  GrayLimit = 2
SPECIFICATION Spec
INVARIANTS TypeOK NoReachableFree SnapshotMarking SweepColors
PROPERTY CollectorKeepsGraph
