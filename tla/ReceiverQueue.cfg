SPECIFICATION FairSpec
CONSTANTS
  s1 = s1  s2 = s2  s3 = s3  h1 = h1  h2 = h2
  Sessions = {s1, s2, s3}
  Receivers = {h1, h2}
  Faults = {"token"}
INVARIANTS OneLoopPerCaller InArrivalOrder OneReceiver
PROPERTY WaitingIsTold
CHECK_DEADLOCK FALSE
