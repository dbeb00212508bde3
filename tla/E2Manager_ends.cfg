SPECIFICATION FairSpec
CONSTANTS
  e1 = e1
  e2 = e2
  r1 = r1
  r2 = r2
  h1 = h1
  h2 = h2
  w = w
  E2T = {e1}
  Ran = {r1}
  Proc = {h1, h2, w}
  Worker = w
  NoInst = NoInst
  NoAddrs = NoAddrs
  NoNodeb = NoNodeb
  NoE2T = NoE2T
  NoRan = NoRan
  Kinds = {"Setup", "Lost", "NewE2T", "TermInit", "RedButton", "UpdateGnb", "Shutdown"}
  MaxCalls <- FourInAll
  MaxFaults = 1
  MaxCut = 1
PROPERTY EveryRequestEnds
PROPERTY ShuttingDownEnds
