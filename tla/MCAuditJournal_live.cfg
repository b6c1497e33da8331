SPECIFICATION FairSpec
CONSTANTS
  th1 = th1
  th2 = th2
  p1 = p1
  p2 = p2
  Threads = {th1, th2}
  Processes = {p1, p2}
  ProcessOf <- TwoProcesses
  Files = {f1, f2}
  Contents = {c1}
  Missing = Missing
  NoThread = NoThread
  MaxTx = 1
  MaxForeign = 0
PROPERTIES
  EventuallyDecided
  EventuallyExported
