SPECIFICATION FairSpec
CONSTANTS
  size_ = 2
  Threads = {t1, t2, t3, t4}
  MaxHold = 1
CHECK_DEADLOCK FALSE
INVARIANTS TypeOK Exclusive Conserved AllDeleted SleepersOnlyWhenEmpty
PROPERTIES SleepersWoken PoolImplementsAllocator
