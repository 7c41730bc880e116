SPECIFICATION FairSpec
CONSTANTS
  t1 = t1
  t2 = t2
  b1 = b1
  b2 = b2
  k1 = k1
  k2 = k2
  d1 = d1
  d2 = d2
  NoBlock = NoBlock
  NoThread = NoThread
  NoBuf = NoBuf
  Threads = {t1, t2}
  Buffers = {b1, b2}
  Blocks = {k1, k2}
  Data = {d1, d2}
  Sizes = {5, 6}
INVARIANTS DescOwned HeldIsLatest
PROPERTY RequestReturns
