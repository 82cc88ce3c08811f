CONSTANTS
  EvtMng = EvtMng
  DatMng = DatMng
  Agent1 = Agent1
  Agent2 = Agent2
  Master = Master
  Processing = Processing
  Nodes <- SmallNodes
  Hosts = {Master, Processing}
  HostOf <- SmallHostOf
  PingPeriod = 2
  InitIteration = 3
  MaxFaults = 0
SPECIFICATION FairSpec
CHECK_DEADLOCK FALSE
PROPERTIES
  QuitReachesAllComponents
