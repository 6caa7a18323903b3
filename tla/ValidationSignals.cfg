SPECIFICATION FairSpec
CONSTANTS
  t1 = t1
  t2 = t2
  p1 = p1
  s1 = s1
  s2 = s2
  Main = Main
  Nobody = Nobody
  Service = {t1, t2}
  Producer = {p1}
  Importer = {}
  Subscriber = {s1, s2}
  Limit = 0
  MaxCallback = 2
  MaxEntry = 2
  MaxRepeat = 1
INVARIANTS InOrder WorkScheduled SubscribersServed
PROPERTIES SyncReturns ShutdownCompletes
CHECK_DEADLOCK FALSE
