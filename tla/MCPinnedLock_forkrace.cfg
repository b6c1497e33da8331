SPECIFICATION Spec
CONSTANTS
  main = main
  worker = worker
  other = other
  p1 = p1
  p2 = p2
  d2 = d2
  i1 = i1
  Threads = {main, worker, other}
  Processes = {p1, p2}
  ProcessOf <- ThreadedChild
  Forkable = {p2}
  MainThreads = {main}
  Dirs = {d1}
  Inodes = {i1, i2}
  Domain = domain
  None = None
  MaxDepth = 2
  MaxInterrupts = 0
INVARIANTS
  MutualExclusion
