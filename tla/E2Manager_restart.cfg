SPECIFICATION Spec
CONSTANTS
  e1 = e1
  e2 = e2
  r1 = r1
  r2 = r2
  h1 = h1
  h2 = h2
  w = w
  E2T = {e1}
  Ran = {r1, r2}
  Proc = {h1, h2, w}
  Worker = w
  NoInst = NoInst
  NoAddrs = NoAddrs
  NoNodeb = NoNodeb
  NoE2T = NoE2T
  NoRan = NoRan
  Kinds = {"Setup", "NewE2T", "TermInit"}
  MaxCalls <- OneAtATime
  MaxFaults = 0
  MaxCut = 0
SYMMETRY Symmetric
PROPERTY TermInitReachesAll
