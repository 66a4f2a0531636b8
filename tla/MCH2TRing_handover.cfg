\* A client leaves while its packet waits for room.
CONSTANTS
  Span = 6
  Align = 2
  Depth = 2
  ChainLen = 2
  ShortMod = 6
  Sizes <- MCSizes
  MaxPkts = 4
SPECIFICATION Spec
INVARIANTS HeaderOfThisClient
