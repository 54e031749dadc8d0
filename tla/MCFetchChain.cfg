SPECIFICATION Spec
CONSTANTS
  Nobody = Nobody
  r1 = r1
  r2 = r2
  t1 = t1
  t2 = t2
  Requests = {r1, r2}
  Threads = {t1}
  Caller <- OneCaller
  Chain <- DataAndError
  MaxReplies = 1
  Failures <- AnyFailure
  RunFirst = TRUE
CHECK_DEADLOCK FALSE
INVARIANT NoUseAfterFree
