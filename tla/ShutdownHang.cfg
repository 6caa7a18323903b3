SPECIFICATION FairSpec
CONSTANTS
  t1 = t1
  t2 = t2
  p1 = p1
  s1 = s1
  s2 = s2
  Main = Main
  Nobody = Nobody
  Service = {t1}
  Producer = {p1}
  Importer = {p1}
  Subscriber = {s1}
  Limit = 1
  MaxCallback = 3
  MaxEntry = 1
  MaxRepeat = 0
PROPERTY ShutdownCompletes
CHECK_DEADLOCK FALSE
