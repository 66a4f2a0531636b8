\* The connection is lost while a payload is received.
CONSTANTS
  Span = 6
  Align = 2
  Depth = 2
  ChainLen = 2
  ShortMod = 6
  Sizes <- MCSizes
  MaxPkts = 4
SPECIFICATION Spec
INVARIANTS PushedWhole
