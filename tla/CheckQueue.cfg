SPECIFICATION FairSpec
CONSTANTS
  w1 = w1
  w2 = w2
  m1 = m1
  m2 = m2
  None = None
  Worker = {w1, w2}
  Master = {m1, m2}
  Check = {1, 2, 3, 4}
  Bad = {4}
  nBatchSize = 2
INVARIANTS CountersAgree ResultExact CleanHandover
PROPERTIES WaitReturns StopReturns
