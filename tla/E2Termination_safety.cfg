SPECIFICATION Spec
CONSTANTS
  c1 = c1
  c2 = c2
  n1 = n1
  n2 = n2
  listenFD = listenFD
  rmrListenFd = rmrListenFd
  NoConn = NoConn
  NoRan = NoRan
  Listen = listenFD
  Rmr = rmrListenFd
  Conn = {c1, c2}
  Ran = {n1, n2}
  Contents = {"Setup", "BadFunctions", "BadName"}
  Requests = {"Encode", "ClearAll"}
  MaxBacklog = 1
  MaxSends = 2
  MaxInbox = 1
  MaxRmr = 1
  MaxDrops = 1
  MaxCrashes = 1
SYMMETRY Symmetric
CONSTRAINT OneFault
INVARIANT TypeOK
INVARIANT RouteIsOpen
INVARIANT ReportedHasRoute
INVARIANT RouteIsReported
INVARIANT ReachableUnlessTakenOver
INVARIANT NoReleasedRecordUsed
CHECK_DEADLOCK FALSE
