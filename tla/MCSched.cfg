SPECIFICATION FairSpec
CONSTANTS
  NPROC = 3
  CPUs = {c0}
  CPU0 = c0
  Calls <- Parents
  MaxSleep = 1
  UINT = 2
  tickslock = tickslock
  wait_lock = wait_lock
  TicksChan = TicksChan
  None = None
 
PROPERTY RunnableRuns
