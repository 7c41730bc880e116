SPECIFICATION Spec
CONSTANTS
  NPROC = 2
  CPUs = {c0, c1}
  CPU0 = c0
  Calls <- NoSleep
  MaxSleep = 1
  UINT = 2
  tickslock = tickslock
  wait_lock = wait_lock
  TicksChan = TicksChan
  None = None
CHECK_DEADLOCK FALSE
INVARIANT NoCircularWait
