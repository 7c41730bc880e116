SPECIFICATION Spec
CONSTANTS
  Procs = {p1, p2}
  initproc = p1
  NoFile = NoFile
  NFILE = 3
  NOFILE = 2
  Pipes = {1}
  Inums = {1}
INVARIANTS TypeOK EndsOpen InodeRefs
