CONSTANTS
  NPROC = 3
  NUMNS = 3
  MAXDEPTH = 2
  MaxPid = 4
  Calls <- EveryCall
SPECIFICATION Spec
INVARIANTS PidChain PidsUnique ListedHavePid NoLostWakeup
