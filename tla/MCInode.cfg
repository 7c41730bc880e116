SPECIFICATION Spec
CONSTANTS
  t1 = t1
  t2 = t2
  Threads = {t1, t2}
  NoThread = NoThread
  Inums = {1, 2, 3}
  Names = {"a", "b"}
  Calls = {"create", "mkdir", "unlink", "link", "open", "chdir"}
  Paths <- MCPaths
SYMMETRY Symm
INVARIANTS TypeOK NlinkCovers InUse CopiesAgree
