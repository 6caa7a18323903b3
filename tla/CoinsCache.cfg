CONSTANTS
  o1 = o1
  o2 = o2
  c1 = c1
  c2 = c2
  b1 = b1
  b2 = b2
  Outpoint <- MCOutpoint
  Coin <- MCCoin
  Block <- MCBlock
  Spent = Spent
  NoBlock = NoBlock
  Absent = Absent
SPECIFICATION Spec
INVARIANTS Coherent ChecksPass
PROPERTY CachesTransparent
