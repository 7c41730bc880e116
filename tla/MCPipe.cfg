SPECIFICATION FairSpec
CONSTANTS
  Readers = {r1, r2}
  Writers = {w1}
  Killable = {r1, w1}
  Bytes = {c1, c2}
  PIPESIZE = 2
  UINT = 4
  MaxCount = 3
CHECK_DEADLOCK FALSE
INVARIANT SleepersAwaited
PROPERTIES IsFifo  HangupNoticed
