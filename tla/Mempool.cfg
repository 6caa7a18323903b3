SPECIFICATION Spec
CONSTANTS
  tp = tp
  tq = tq
  tr = tr
  ts = ts
  tu = tu
  td = td
  tv = tv
  tw = tw
  c0 = c0
  c1 = c1
  p0 = p0
  p1 = p1
  q0 = q0
  u0 = u0
  None = None
  Tx = {tp, tq, tr, ts, tu, td, tv, tw}
  Coin = {c0, c1, p0, p1, q0, u0}
  Inputs <- MCInputs
  Creator <- MCCreator
  BaseFee <- MCFee
  NotBefore <- MCNotBefore
  Lock <- MCLock
  Signals = {tq, tr}
  AncestorLimit = 3
  DescendantLimit = 2
  MaxReplacement = 3
  MinRelayFee = 1
  IncrementalFee = 1
  MaxPool = 4
  MaxDisconnected = 3
  Deltas <- MCDeltas
  Bodies <- MCBodies
  MaxHeight = 3
INVARIANTS TotalsFollowLinks Mineable LimitsHold
PROPERTY EvictedStayOut
