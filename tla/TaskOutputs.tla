---------------------------- MODULE TaskOutputs ----------------------------
(***************************************************************************)
(* The outputs of one finished task, file by file: the agent               *)
(* (fmk/tskage.cpp, retrieveOutputProducts) lists the files its container  *)
(* left, puts those whose name parses in the array "outputs" of the task's *)
(* JSON object and copies them to the gateway (fmk/urlhdl.cpp); the Data   *)
(* Manager (fmk/datamng.cpp) gets that object with the final report, moves *)
(* the files to the local archive and registers them (dbhdlpostgre.cpp).   *)
(*                                                                         *)
(* The array is not empty when the agent fills it: TskOrc put a product    *)
(* there, with a type and nothing else, for each output of the rule.       *)
(***************************************************************************)
EXTENDS Naturals, Sequences, SequencesExt

CONSTANTS
  OutFiles,     \* the files a processor may leave in out/
  LogFiles,     \* and in log/
  Parses,       \* those whose name is a product's
  ProductId,    \* the product_id of a file, its name without the extension,
                \* and of an element of the array that is no file
  Declared,     \* the number of outputs of the rule
  MaxReports,   \* bound: how often the final report is delivered
  MaxFailures   \* bound: INSERTs that fail

Files == OutFiles \cup LogFiles

ASSUME TaskOutputsAssumption ==
  /\ IsFiniteSet(OutFiles) /\ IsFiniteSet(LogFiles)
  /\ OutFiles \cap LogFiles = {}
  /\ Parses \subseteq Files
  /\ DOMAIN ProductId = Files \cup {"declared", "null"}
  /\ {"declared", "null"} \cap Files = {}
  /\ Declared \in Nat
  /\ MaxReports \in Nat
  /\ MaxFailures \in Nat

VARIABLES
  listed,    \* outFiles: the files found, in the order of the directory
  outputs,   \* the array: "declared", "null", or the product of a file
  gateway, archive,
  unmoved,   \* the files whose last move to the archive failed
  rows,      \* the product_ids registered in products_info
  place,     \* where the Data Manager is with the report
  next,      \* the product it is at
  reports,   \* final reports delivered
  failures

vars == <<listed, outputs, gateway, archive, unmoved, rows, place, next,
          reports, failures>>

Places == {"running", "reported", "archiving", "storing", "done", "failed",
           "aborted", "exited"}

Init ==
  /\ listed = <<>>
  /\ outputs = [i \in 1 .. Declared |-> "declared"]   \* TskOrc::sendTaskSchedMsg
  /\ gateway = {}
  /\ archive = {}
  /\ unmoved = {}
  /\ rows = {}
  /\ place = "running"
  /\ next = 0
  /\ reports = 0
  /\ failures = 0

-----------------------------------------------------------------------------
(* The agent.                                                              *)

\* Mutant: the products are numbered from one.
FilledMutant(fs) ==
  [i \in 1 .. Len(fs) + 1 |->
     IF i > 1 /\ fs[i - 1] \in Parses THEN fs[i - 1]
     ELSE IF i <= Declared THEN "declared" ELSE "null"]

\* The array when the files fs are listed: a name that does not parse leaves
\* its element as it was, or null if a later one extends the array.
Filled(fs) ==
  LET parsed == {i \in DOMAIN fs : fs[i] \in Parses}
      last == Max(parsed \cup {Declared})
  IN  [i \in 1 .. last |-> IF i \in parsed THEN fs[i]
                           ELSE IF i <= Declared THEN "declared" ELSE "null"]

\* retrieveOutputProducts, before the report of FINISHED is sent.  The copies
\* may fail, which nobody asks; the path of a file in log/ is not changed, so
\* none of them gets to the gateway.
RetrieveOutputProducts ==
  /\ place = "running"
  /\ place' = "reported"
  /\ \E S \in SUBSET OutFiles, L \in SUBSET LogFiles :
       /\ \E s \in SetToSeqs(S), l \in SetToSeqs(L) : listed' = s \o l
       /\ gateway' \in SUBSET (S \cap Parses)
  /\ outputs' = Filled(listed')
  /\ UNCHANGED <<archive, unmoved, rows, next, reports, failures>>

-----------------------------------------------------------------------------
(* The Data Manager, saveTaskToDB with a finished task.                    *)

\* The report comes, for the first time or again, and the row of the task is
\* updated (if it is not, nothing follows: see TaskStore).  The check of the versions
\* (sanitizeProductVersions) changes nothing: its query is not valid.
Receive ==
  /\ place \in {"reported", "done", "failed"}
  /\ reports < MaxReports
  /\ reports' = reports + 1
  /\ place' = "archiving"
  /\ next' = 1
  /\ UNCHANGED <<listed, outputs, gateway, archive, unmoved, rows, failures>>

\* Mutants: an off-by-one at the end of either loop.
AllMovedMutant == next >= Len(outputs)
AllMoved == next > Len(outputs)
AllStoredMutant == next >= Len(outputs)
AllStored == next > Len(outputs)

\* Mutant: the assertion is not there.
IsInGatewayMutant(p) == TRUE
\* The assertion of fromGateway2LocalArch: the product has a URL, and the
\* agent has said that it is in the gateway.
IsInGateway(p) == p \in Files

\* The rename of a file fails if it is not in the gateway, and may fail if it
\* is.  relocate prints that, and its result is dropped.
ArchiveProduct ==
  LET p == outputs[next] IN
  /\ place = "archiving"
  /\ ~AllMoved
  /\ IsInGateway(p)
  /\ \/ /\ p \in gateway
        /\ archive' = archive \cup {p}
        /\ gateway' = gateway \ {p}
        /\ unmoved' = unmoved \ {p}
     \/ /\ unmoved' = unmoved \cup {p}
        /\ UNCHANGED <<gateway, archive>>
  /\ next' = next + 1
  /\ UNCHANGED <<listed, outputs, rows, place, reports, failures>>

Abort ==
  /\ place = "archiving"
  /\ ~AllMoved
  /\ ~IsInGateway(outputs[next])
  /\ place' = "aborted"
  /\ UNCHANGED <<listed, outputs, gateway, archive, unmoved, rows, next, reports,
                 failures>>

StartStoring ==
  /\ place = "archiving"
  /\ AllMoved
  /\ place' = "storing"
  /\ next' = 1
  /\ UNCHANGED <<listed, outputs, gateway, archive, unmoved, rows, reports,
                 failures>>

\* storeProducts, one INSERT: the key of products_info is the product_id
StoreProduct ==
  /\ place = "storing"
  /\ ~AllStored
  /\ ProductId[outputs[next]] \notin rows
  /\ rows' = rows \cup {ProductId[outputs[next]]}
  /\ next' = next + 1
  /\ UNCHANGED <<listed, outputs, gateway, archive, unmoved, place, reports,
                 failures>>

\* One that fails, or whose product_id is there already, from an earlier report
\* or a file of the same name with another extension, ends the loop.
StoreFails ==
  /\ place = "storing"
  /\ ~AllStored
  /\ \/ ProductId[outputs[next]] \in rows /\ UNCHANGED failures
     \/ failures < MaxFailures /\ failures' = failures + 1
  /\ place' = "failed"
  /\ UNCHANGED <<listed, outputs, gateway, archive, unmoved, rows, next, reports>>

FinishStoring ==
  /\ place = "storing"
  /\ AllStored
  /\ place' = "done"
  /\ UNCHANGED <<listed, outputs, gateway, archive, unmoved, rows, next, reports,
                 failures>>

\* Another component of the master ends the process.
Exit ==
  /\ place \in {"archiving", "storing"}
  /\ place' = "exited"
  /\ UNCHANGED <<listed, outputs, gateway, archive, unmoved, rows, next, reports,
                 failures>>

-----------------------------------------------------------------------------
Next ==
  \/ RetrieveOutputProducts
  \/ Receive
  \/ ArchiveProduct
  \/ Abort
  \/ StartStoring
  \/ StoreProduct
  \/ StoreFails
  \/ FinishStoring
  \/ Exit

Spec == Init /\ [][Next]_vars

-----------------------------------------------------------------------------
(* Correctness.                                                            *)

TypeOK ==
  /\ listed \in Seq(Files)
  /\ outputs \in Seq(Files \cup {"declared", "null"})
  /\ gateway \subseteq OutFiles
  /\ archive \subseteq OutFiles
  /\ unmoved \subseteq Files
  /\ rows \subseteq {ProductId[f] : f \in Files}
  /\ place \in Places
  /\ next \in Nat
  /\ reports \in 0 .. MaxReports
  /\ failures \in 0 .. MaxFailures

Reported == {outputs[i] : i \in DOMAIN outputs} \cap Files

\* The Data Manager only dies of a task that left fewer files than its rule
\* has outputs, or one whose name does not parse.
AbortsOnlyOnGap ==
  place = "aborted" =>
    Len(listed) < Declared \/ \E i \in DOMAIN listed : listed[i] \notin Parses

\* Nothing is registered before the move of everything that reached the gateway
\* was tried, whatever fails, however often the report comes and wherever the
\* process ends: what is in the gateway then is what could not be moved.
RowsAfterMoves == rows # {} => gateway \subseteq unmoved

\* The product_ids of the first n products are all different.
Distinct(n) ==
  \A i, j \in 1 .. n : ProductId[outputs[i]] = ProductId[outputs[j]] => i = j

\* The product_ids before the first that repeats an earlier one.
Registrable ==
  {ProductId[outputs[i]] : i \in {n \in DOMAIN outputs : Distinct(n)}}

\* When the Data Manager is through with a report without a failed command, all
\* files whose names parse were in it, and those are registered that come
\* before the first with the product_id of an earlier one: all, if the names
\* differ in more than the extension, and although the report may have come
\* before.
AllRegistered ==
  place \in {"done", "failed"} /\ failures = 0 =>
    rows = Registrable /\ Reported = {listed[i] : i \in DOMAIN listed} \cap Parses

\* What fromGateway2LocalArch asserts (urlhdl.cpp:343 and 344) of each product
\* it is given: the agent put the file in the gateway.
OutputsAreInGateway ==
  place = "archiving" =>
    \A i \in DOMAIN outputs : i >= next => IsInGateway(outputs[i])
=============================================================================
