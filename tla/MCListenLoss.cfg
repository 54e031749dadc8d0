SPECIFICATION FairSpec
CONSTANTS
  Nobody = Nobody
  l1 = l1
  l2 = l2
  t1 = t1
  t2 = t2
  lp = lp
  w = w
  Listeners = {l1}
  Threads = {lp}
  Caller <- AloneInLoop
  LoopThread = lp
  Committers = {lp}
  Chain <- DataAndError
  Keys = 1
  Messages = {m1}
  Failures = {"connection"}
  RunFirst = FALSE
CHECK_DEADLOCK FALSE
PROPERTY LossReported
