\* All safety properties of the ring and its refinement of PacketFifo.
CONSTANTS
  Span = 6
  Align = 2
  Depth = 2
  ChainLen = 2
  ShortMod = 6
  Sizes <- MCSizes
  MaxPkts = 7
SPECIFICATION Spec
INVARIANTS TypeOK SlotAccounting SpaceAccounting RefusedForUnread PendingIntact AddressesAligned
PROPERTIES ImplementsFifo
