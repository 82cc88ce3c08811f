CONSTANTS
  Agents = {a1}
  Tasks = {t1, t2}
  NoAgent = NoAgent
  Live = {"RUNNING"}
  Final = {"FINISHED", "FAILED", "STOPPED"}
  StatusRows = {"SCHEDULED", "RUNNING", "FINISHED", "FAILED"}
  MaxReports = 2
  MaxFailures = 1
SPECIFICATION FairSpec
CHECK_DEADLOCK FALSE
INVARIANTS
  TypeOK
  RowIsCurrent
  RowIsNotAhead
  RegisteredAfterMove
PROPERTIES
  EndsStay
  OutputsRegistered
