\* A memory size that is not a whole number of words.
CONSTANTS
  Span = 7
  Align = 2
  Depth = 2
  ChainLen = 2
  ShortMod = 6
  Sizes <- MCSizes
  MaxPkts = 4
SPECIFICATION Spec
INVARIANTS AddressesAligned
