SPECIFICATION FairSpec
CONSTANTS
  c1 = c1
  c2 = c2
  n1 = n1
  n2 = n2
  listenFD = listenFD
  rmrListenFd = rmrListenFd
  NoConn = NoConn
  NoRan = NoRan
  Listen = listenFD
  Rmr = rmrListenFd
  Conn = {c1, c2}
  Ran = {n1}
  Contents = {"Relay", "Garbage"}
  Requests = {"KeepAlive"}
  MaxBacklog = 2
  MaxSends = 2
  MaxInbox = 2
  MaxRmr = 1
  MaxDrops = 0
  MaxCrashes = 0
INVARIANT NothingForgotten
PROPERTY InputIsRead
PROPERTY HangUpIsNoticed
PROPERTY ConnectionAccepted
CHECK_DEADLOCK FALSE
