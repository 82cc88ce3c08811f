CONSTANTS
  Agents = {a1}
  Tasks = {t1}
  NoTask = NoTask
  idleCyclesBeforeRequest = 1
  maxWaitingCycles = 1
  MaxUp = 2
  MaxDrops = 1
  MaxReports = 2
  MaxFailures = 1
SPECIFICATION PipelineSpec
CHECK_DEADLOCK FALSE
INVARIANTS
  TablesAreTrue
PROPERTIES
  ImplementsTaskStore
