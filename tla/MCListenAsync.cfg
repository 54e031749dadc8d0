SPECIFICATION FairSpec
CONSTANTS
  Nobody = Nobody
  l1 = l1
  l2 = l2
  t1 = t1
  t2 = t2
  lp = lp
  w = w
  Listeners = {l1}
  Threads = {t1, lp, w}
  Caller <- OneThread
  LoopThread = lp
  Committers = {lp, w}
  Chain <- DataAndError
  Keys = 1
  Messages = {m1, m2}
  Failures <- AnyFailure
  RunFirst = FALSE
CHECK_DEADLOCK FALSE
INVARIANTS TypeOK DroppedAfterError
PROPERTIES LossReported 
