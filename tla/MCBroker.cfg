SPECIFICATION FairSpec
CONSTANTS
  p1 = p1
  p2 = p2
  p3 = p3
  main = main
  worker = worker
  callback = callback
  Publishes = {p1, p2, p3}
  Caller <- MCCaller
  Main = main
  Looper = looper
  Workers = {worker}
  Callback = callback
  Bind = bind
  Texts = {"text"}
  Failures = {"channel", "connection"}
INVARIANTS TypeOK OkCommitted PromiseSound ErrorMeansUndelivered
PROPERTIES PublishReturns ExchangeSettled
CHECK_DEADLOCK FALSE
