SPECIFICATION FairSpec
CONSTANTS
  e1 = e1
  e2 = e2
  r1 = r1
  r2 = r2
  h1 = h1
  h2 = h2
  w = w
  E2T = {e1}
  Ran = {r1}
  Proc = {h1, h2, w}
  Worker = w
  NoProc = NoProc
  NoInst = NoInst
  NoAddrs = NoAddrs
  Kinds <- ProductionOps
  KeepAliveTimeout = 0
  DeletionTimeout = 1
  MaxClock = 2
  MaxCalls = 3
  MaxFaults = 1
  MaxCrashes = 1
INVARIANT TypeOK
INVARIANT FreshOrMarked
INVARIANT TornEntriesBounded
INVARIANT TimeInv
PROPERTY HeartbeatNotLost
PROPERTY NoResurrection
PROPERTY EveryCallReturns
