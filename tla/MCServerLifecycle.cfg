\* Two SIGINTs anywhere, every call may fail; the process ends.
CONSTANTS
  MaxSigs = 2
  Failures <- MCAllFail
SPECIFICATION FairSpec
INVARIANTS TypeOK ServingSigintIsSafe ServingSigintReleases OneHandlerDeletes NoCircularWait EntryOutlivesThread
PROPERTIES SigintEnds
CHECK_DEADLOCK FALSE
