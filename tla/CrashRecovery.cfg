SPECIFICATION Spec
CONSTANTS
  g = g
  a1 = a1
  a2 = a2
  b2 = b2
  b3 = b3
  o1 = o1
  p1 = p1
  q1 = q1
  None = None
  Genesis = g
  Block = {g, a1, a2, b2, b3}
  Prev <- ForkPrev
  Outpoint = {o1, p1, q1}
  vtx <- ForkTxs
  MinBlocksToKeep = 2
  MaxFile = 1
  MaxLag = 3
  MaxUndurable = 1
  Early = {b3}
INVARIANTS TypeOK CoinsRecoverable  FilesMatchIndex
