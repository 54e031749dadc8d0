SPECIFICATION Spec
CONSTANTS
  Nobody = Nobody
  l1 = l1
  l2 = l2
  t1 = t1
  t2 = t2
  lp = lp
  w = w
  Listeners = {l1, l2}
  Threads = {t1, lp, w}
  Caller <- SameThread
  LoopThread = lp
  Committers = {lp, w}
  Chain <- DataAndError
  Keys = 1
  Messages = {m1}
  Failures <- AnyFailure
  RunFirst = TRUE
CHECK_DEADLOCK FALSE
INVARIANT EstablishedKept
PROPERTY ReferenceKept
