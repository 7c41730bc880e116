SPECIFICATION Spec
CONSTANTS
  Procs = {p1, p2}
  NoProc = NoProc
  Inums = {1, 2}
  Files = {1, 2}
  Ino <- MCIno
  NBLOCKS = 5
  NDIRECT = 1
  NINDIRECT = 3
  BSIZE = 2
  MAXOPBLOCKS = 6
  ReadSizes = {5}
  WriteSizes = {7}
SYMMETRY Symm
INVARIANTS BlocksOwned Mapped TxFits
PROPERTY WritesAppend
