\* Every call may fail; the application may stop calling.
CONSTANTS
  MaxInits = 3
  Failures <- MCAllFail
SPECIFICATION FairSpec
INVARIANTS TypeOK EntryOutlivesThread NoLostWakeup JoinedAwake
PROPERTIES CleanupReturns InterruptServed JoinedNearsEnd
CHECK_DEADLOCK FALSE
