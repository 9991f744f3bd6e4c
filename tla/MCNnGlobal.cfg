CONSTANTS
  t1 = t1
  t2 = t2
  NoThread = NoThread
  Thread = {t1, t2}
  May <- MayCall
  OptionSlots = {1}
  MaxSockets = 2
  MaxEndpoints = 2
  RcvBuf = 1
  MaxSlots = 2
  MaxMessages = 2
  MaxRounds = 5
SPECIFICATION FairSpec
INVARIANTS NnGlobalTypeOK SlotsConsistent ReadyIsSignalled StreamKept FreedLeavesNothing SequentialUseIsSafe
PROPERTIES CallsReturn TermUnblocks
CHECK_DEADLOCK FALSE
