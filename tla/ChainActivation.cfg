SPECIFICATION FairSpec
CONSTANTS
  g = g
  a = a
  b = b
  c = c
  d = d
  e = e
  f = f
  None = None
  Genesis = g
  Block = {g, a, b, c, f, d, e}
  Prev <- LongForkPrev
  Proof <- Unit
  Addr <- LongForkAddr
  BadBody = {e}
  BadScripts = {b}
  Thread = {t1, t2}
  MinBlocksToKeep = 1
  Rpcs = {"restart", "prune", "invalidate"}
  RpcTarget = {d}
  MaxRpc = 1
INVARIANTS ActiveChainValid CandidatesExact LinksExact ReorgKeepsData
PROPERTY BestChainAdopted
