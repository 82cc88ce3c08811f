CONSTANTS
  Agents = {a1}
  Tasks = {t1, t2}
  NoTask = NoTask
  idleCyclesBeforeRequest = 0
  maxWaitingCycles = 1
  MaxUp = 2
  MaxDrops = 1
SPECIFICATION FairSpec
INVARIANTS
  ReportsAreRegistered
PROPERTIES
  ImplementsTaskLife
  PoolDrains
  WaitingEnds
  ProcessingEnds
