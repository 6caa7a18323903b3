SPECIFICATION FairSpec
CONSTANTS
  g = g
  a1 = a1
  a2 = a2
  d1 = d1
  d2 = d2
  None = None
  Genesis = g
  Block = {g, a1, a2, d1, d2}
  Prev <- ForkPrev
  Kinds = {"coinstats", "blockfilter"}
  FirstTips = {None, a2}
  MaxMoves = 4
  MaxStops = 1
  MaxQueue = 3
INVARIANTS QueriesAnswered CommittedSound IndexingFits
PROPERTY CatchesUp
CHECK_DEADLOCK FALSE
