SPECIFICATION FairSpec
CONSTANTS
  g = g
  a1 = a1
  a2 = a2
  x1 = x1
  prompt = prompt
  slow = slow
  inbound = inbound
  None = None
  Genesis = g
  Block = {g, a1, a2, x1}
  Prev <- ForkPrev
  Bad = {x1}
  Peer = {prompt, slow, inbound}
  PeerTip <- Tips
  Preferred = {prompt, slow}
  Prompt = {prompt}
  MaxInTransit = 1
  Window = 1
  TooFarAhead = 2
  RecentHeight = 2
  Announced = {a2, x1}
  Unasked = {a2}
  Fetched = {x1}
INVARIANTS InFlightExact LastCommonLinked
CHECK_DEADLOCK FALSE
PROPERTY SyncCompletes
