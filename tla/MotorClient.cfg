SPECIFICATION FairSpec
CONSTANTS
  Half = 2
  Infos = {0, 2}
  MaxFaults = 3
INVARIANTS TypeOK FeedbackIsCurrent
PROPERTIES LongSwingsUnwind LoopRecovers
CHECK_DEADLOCK FALSE
