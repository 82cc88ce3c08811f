CONSTANTS
  EvtMng = EvtMng
  DatMng = DatMng
  Agent1 = Agent1
  Agent2 = Agent2
  Master = Master
  Processing = Processing
  Nodes <- MCNodes
  Hosts = {Master, Processing}
  HostOf <- MCHostOf
  PingPeriod = 2
  InitIteration = 1
  MaxFaults = 2
SPECIFICATION FairSpec
CHECK_DEADLOCK FALSE
INVARIANTS
  TypeOK
  EndsOnlyWhenAsked
  ExitAfterStop
  ViewErrsOnKilledOnly
PROPERTIES
  StartReachesAll
  MasterEnds
  QuitEndsHost
