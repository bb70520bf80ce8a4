CONSTANTS
  MaxEntries = 4
  PolymorphicTags = {"'a"}
  Sources <- MCSources
  FaultySources = {3}
  MaxTokens = 6
  InitStack = 2
  MaxRaises = 1
  RaiseAnywhere = FALSE
SPECIFICATION Spec
INVARIANTS LookaheadsExact FilesExact ParsesExact
