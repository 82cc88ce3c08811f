CONSTANTS
  Names <- MCNames
  IntIndefinite <- MCIntIndefinite
  Rules <- MCRules
  Line <- MCLine
  Reading <- MCReading
  Checks <- MCChecks
  MaxMalformed = 3
SPECIFICATION FairSpec
CHECK_DEADLOCK FALSE
INVARIANTS
  TypeOK
  RightValue
PROPERTIES
  EvaluationEnds
