SPECIFICATION FairSpec
INVARIANT RefusedWithReason
PROPERTY EveryFrameLeaves
CHECK_DEADLOCK FALSE
