SPECIFICATION Spec
CONSTANTS
  e1 = e1
  e2 = e2
  r1 = r1
  r2 = r2
  h1 = h1
  h2 = h2
  w = w
  E2T = {e1, e2}
  Ran = {r1, r2}
  Proc = {h1, h2, w}
  Worker = w
  NoProc = NoProc
  NoInst = NoInst
  NoAddrs = NoAddrs
  Kinds <- LockedOps
  KeepAliveTimeout = 0
  DeletionTimeout = 0
  MaxClock = 1
  MaxCalls = 4
  MaxFaults = 1
  MaxCrashes = 1
SYMMETRY Symmetric
PROPERTY ImplementsRegistry
