SPECIFICATION FairSpec
CONSTANTS
  Threads = {t1, t2}
  Blocks = {b1, b2}
  Data = {d1, d2}
  Torn = Torn
  NotCached = NotCached
  LOGSIZE = 4
  nlog = 5
  MAXOPBLOCKS = 2
  OpBlocks = 2
  NBUF = 3
INVARIANTS Quiescent ReservationsFit
PROPERTIES AtomicCommits WriteAhead SleepersWake
