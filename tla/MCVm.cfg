SPECIFICATION Spec
CONSTANTS
  a = a
  b = b
  Procs = {a, b}
  initproc = a
  NPAGES = 17
  LEVELS = 3
  FANOUT = 3
  PGSIZE = 2
  UINT64 = 128
  Args = {0, 1}
  Increments <- MCIncrements
  Programs <- MCPrograms
INVARIANTS PagesOwned UserView FailedCallKeepsImage CopyExact
