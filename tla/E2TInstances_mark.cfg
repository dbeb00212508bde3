SPECIFICATION Spec
CONSTANTS
  e1 = e1
  e2 = e2
  r1 = r1
  r2 = r2
  h1 = h1
  h2 = h2
  w = w
  E2T = {e1}
  Ran = {r1}
  Proc = {h1, h2, w}
  Worker = w
  NoProc = NoProc
  NoInst = NoInst
  NoAddrs = NoAddrs
  Kinds <- ProductionOps
  KeepAliveTimeout = 0
  DeletionTimeout = 0
  MaxClock = 1
  MaxCalls = 4
  MaxFaults = 0
  MaxCrashes = 0
PROPERTY KeepAliveRespectsMark
