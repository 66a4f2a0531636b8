\* Mixes of control, MGMT, H2T and T2H traffic of clients that come and go.
CONSTANTS
  Span = 2
  Lens = {1, 2}
  Depth = 2
  SockRoom = 2
  MaxSegs = 2
  PacketLens = {0, 1}
  FifoDepth = 2
  Budgets <- MCBudgets
SPECIFICATION FairSpec
INVARIANTS TypeOK SegmentKept StartMarked InStep
PROPERTIES DeliversStream CommandAnswered SegmentsForwarded WaitingPacketTaken LeavingNoticed
