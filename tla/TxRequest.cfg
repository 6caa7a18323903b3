SPECIFICATION Spec
CONSTANTS
  p1 = p1
  p2 = p2
  p3 = p3
  t1 = t1
  t2 = t2
  Peer = {p1, p2, p3}
  TxHash = {t1, t2}
  Announces <- Few
  Hash <- Salted
  Time = {0, 1}
INVARIANTS SanityCheck
PROPERTY KeepsPromise
