SPECIFICATION FairSpec
CONSTANTS
  g1 = g1
  g2 = g2
  p1 = p1
  p2 = p2
  meid = meid
  NoGnb = NoGnb
  Gnb = {g1, g2}
  Ptr = {p1, p2}
  Buf = meid
  Agents = 2
  MaxList = 2
  MaxAgents <- TwoAgents
  MaxAnswers <- OneAnswerer
INVARIANT TypeOK
INVARIANT RefusalHasCause
INVARIANT SuccessIsAnsweredOrTimedOut
INVARIANT OwnHeader
INVARIANT OneAgentPerGnb
INVARIANT ReporterIsControlled
INVARIANT TerminationReachesAll
PROPERTY StartupEnds
CHECK_DEADLOCK FALSE
