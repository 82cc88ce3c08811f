--------------------------- MODULE MCTaskOutputs ---------------------------
EXTENDS TaskOutputs

\* The processor writes a log under the name of its first output.
MCProductId ==
  [f \in Files \cup {"declared", "null"} |->
     IF f \in {"image.json", "image.log"} THEN "image" ELSE f]
=============================================================================
