SPECIFICATION Spec
CONSTANTS
  g = g
  a = a
  b = b
  c = c
  d = d
  e = e
  f = f
  None = None
  Genesis = g
  Block = {g, a, b, d, e}
  Prev <- SmallForkPrev
  Proof <- Unit
  Addr <- SmallForkAddr
  BadBody = {}
  BadScripts = {e}
  Thread = {t1, t2}
  MinBlocksToKeep = 2
  Rpcs = {"invalidate", "reconsider", "precious"}
  RpcTarget = {a, d}
  MaxRpc = 3
SYMMETRY Symmetric
INVARIANTS CandidatesComplete QuiescentBest FailuresHaveCause 
PROPERTY SortKeysStable
CHECK_DEADLOCK FALSE
