\* A rule with two outputs; three files in out/ and two in log/, of which one
\* has a name that does not parse, and two have names that differ in the
\* extension only; a repeated report and one failed INSERT.
SPECIFICATION Spec
CONSTANTS
  OutFiles = {"image.json", "report.json", "core"}
  LogFiles = {"image.log", "chain.log"}
  Parses = {"image.json", "report.json", "image.log", "chain.log"}
  ProductId <- MCProductId
  Declared = 2
  MaxReports = 2
  MaxFailures = 1
INVARIANTS TypeOK AbortsOnlyOnGap RowsAfterMoves AllRegistered
CHECK_DEADLOCK FALSE
