\* A packet that fits is served, whatever else waits or never fits.
CONSTANTS
  Span = 6
  Align = 2
  Depth = 2
  ChainLen = 2
  ShortMod = 10
  Sizes <- MCSizesLive
  MaxPkts = 4
SPECIFICATION FairSpec
PROPERTIES WaiterServed
