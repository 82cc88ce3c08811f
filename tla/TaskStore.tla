----------------------------- MODULE TaskStore -----------------------------
(***************************************************************************)
(* What the Data Manager (fmk/datamng.cpp) keeps of the tasks: their rows  *)
(* in the table tasks_info (fmk/dbhdlpostgre.cpp), and the outputs of the  *)
(* finished ones, moved from the gateway to the local archive              *)
(* (fmk/urlhdl.cpp) and registered in products_info.                       *)
(*                                                                         *)
(* It hears of a task on two channels that are not ordered one after the   *)
(* other: TSKSCHED from TskOrc, and TSKREPDIST with the reports TskMng      *)
(* passes on.  Where these come from is TaskLife, which the dispatch       *)
(* implements.  Its process may end at any time: it is killed, its main    *)
(* thread returns while the handler runs, an assertion fails, or a command *)
(* does not return.  Nothing is read then any more; a restart is not in    *)
(* this module.                                                            *)
(***************************************************************************)
EXTENDS Naturals, Sequences

CONSTANTS
  Agents, Tasks, NoAgent, Live, Final,   \* as in TaskLife
  StatusRows,    \* the statuses in the table task_status
  MaxReports,    \* bound: reports the Data Manager has not read
  MaxFailures    \* bound: database commands that fail

ASSUME TaskStoreAssumption ==
  /\ "FINISHED" \in Final
  /\ {"none", "SCHEDULED"} \cap (Live \cup Final) = {}
  /\ {"SCHEDULED", "FINISHED"} \subseteq StatusRows
  /\ MaxReports \in Nat \ {0}
  /\ MaxFailures \in Nat

VARIABLES
  known, pool, owner, published,   \* the life of the tasks
  schedules,   \* TSKSCHED messages the Data Manager has not read
  reports,     \* TSKREPDIST messages it has not read
  rowKey,      \* what task_id is in the task's row: its name, or its container
  rowStatus,   \* task_status_id
  outputs,     \* where the files of the task's outputs are
  registered,  \* the tasks with outputs in products_info
  failures,    \* database commands that failed so far
  runs         \* the Data Manager's loop goes on

lifeVars  == <<known, pool, owner, published>>
storeVars == <<rowKey, rowStatus, outputs, registered, failures, runs>>
vars      == <<lifeVars, schedules, reports, storeVars>>

Life == INSTANCE TaskLife

\* The outputs of a task, taken together: in the gateway, in the archive, lost
\* on the way to the gateway; with an element in their array that has no URL
\* (gap); or left in the gateway by a move that failed (stranded).
Delivered == {"gateway", "lost", "gap"}
OutputPlaces == Delivered \cup {"none", "archive", "stranded"}

Init ==
  /\ Life!Init
  /\ schedules = <<>>
  /\ reports = <<>>
  /\ rowKey = [t \in Tasks |-> "none"]
  /\ rowStatus = [t \in Tasks |-> "none"]
  /\ outputs = [t \in Tasks |-> "none"]
  /\ registered = {}
  /\ failures = 0
  /\ runs = TRUE

-----------------------------------------------------------------------------
(* The senders.                                                            *)

\* TskOrc publishes TSKSCHED to TskMng and to the Data Manager.
Schedule(t) ==
  /\ Life!Schedule(t)
  /\ schedules' = Append(schedules, t)
  /\ UNCHANGED <<reports, storeVars>>

Issue(a) ==
  /\ Life!Issue(a)
  /\ UNCHANGED <<schedules, reports, storeVars>>

\* TskMng passes a report on.  The agent of a finished task copied its outputs
\* to the gateway before it reported; whether the copy worked (scp), and
\* whether all elements of the array of outputs are filled, it does not ask.
Publish(t, s) ==
  /\ Len(reports) < MaxReports
  /\ Life!Publish(t, s)
  /\ reports' = Append(reports, [task |-> t, status |-> s])
  /\ IF s = "FINISHED"
     THEN \E o \in Delivered : outputs' = [outputs EXCEPT ![t] = o]
     ELSE UNCHANGED outputs
  /\ UNCHANGED <<schedules, rowKey, rowStatus, registered, failures, runs>>

\* It passes on a report that repeats the last status, too: the agent reports
\* in every iteration, and its socket may send a report twice.
Repeat(t) ==
  /\ published[t] # "none"
  /\ Len(reports) < MaxReports
  /\ reports' = Append(reports, [task |-> t, status |-> published[t]])
  /\ UNCHANGED <<lifeVars, schedules, storeVars>>

-----------------------------------------------------------------------------
(* The Data Manager.                                                       *)

\* How a step of the handler ends: its command works; it fails and throws, and
\* the handler logs the error and returns; or it is the last one, for the
\* process ends or the command does not return.
Works == UNCHANGED <<failures, runs>>
Fails == failures < MaxFailures /\ failures' = failures + 1 /\ UNCHANGED runs
Halts == runs' = FALSE /\ UNCHANGED failures

\* The end between two messages, or before anything came of one.
Halt ==
  /\ runs /\ Halts
  /\ UNCHANGED <<lifeVars, schedules, reports, rowKey, rowStatus, outputs,
                 registered>>

\* storeTask: INSERT, with the name of the task as task_id
ProcessTskSchedMsg ==
  LET t == Head(schedules) IN
  /\ runs /\ schedules # <<>>
  /\ schedules' = Tail(schedules)
  /\ \/ /\ Works
        /\ rowKey' = [rowKey EXCEPT ![t] = "name"]
        /\ rowStatus' = [rowStatus EXCEPT ![t] = "SCHEDULED"]
     \/ /\ Fails
        /\ UNCHANGED <<rowKey, rowStatus>>
  /\ UNCHANGED <<lifeVars, reports, outputs, registered>>

\* updateTask, first UPDATE: a row under the task's name gets the identifier
\* of the container.  Mutant: there is a row afterwards in any case.
RekeyMutant(t) == rowKey' = [rowKey EXCEPT ![t] = "container"]
Rekey(t) ==
  rowKey' = IF rowKey[t] = "name" THEN [rowKey EXCEPT ![t] = "container"]
                                  ELSE rowKey

\* updateTask, second UPDATE: the row under that identifier, if there is one,
\* gets the status.  Mutants: the first report of a task does not get there;
\* the condition of the UPDATE is missing.
UpdateStatusMutant(t, s) ==
  rowStatus' = IF rowKey[t] = "container" THEN [rowStatus EXCEPT ![t] = s]
                                          ELSE rowStatus
UpdateAllMutant(t, s) ==
  rowStatus' = [u \in Tasks |-> IF rowKey'[u] = "container" THEN s
                                                            ELSE rowStatus[u]]
UpdateStatus(t, s) ==
  rowStatus' = IF rowKey'[t] = "container" THEN [rowStatus EXCEPT ![t] = s]
                                           ELSE rowStatus

\* The second UPDATE violates the foreign key of tasks_info if it finds the
\* row and the status is not one of task_status.
Storable(t, s) == rowKey'[t] = "container" => s \in StatusRows

\* A report that changes nothing: the command before the first UPDATE failed.
ReportLost ==
  /\ runs /\ reports # <<>>
  /\ Fails
  /\ reports' = Tail(reports)
  /\ UNCHANGED <<lifeVars, schedules, rowKey, rowStatus, outputs, registered>>

\* One whose second UPDATE failed, or could not succeed, or was not reached.
ReportHalfStored ==
  /\ runs /\ reports # <<>>
  /\ reports' = Tail(reports)
  /\ Rekey(Head(reports).task)
  /\ \/ Fails \/ Halts
     \/ Works /\ ~Storable(Head(reports).task, Head(reports).status)
  /\ UNCHANGED <<lifeVars, schedules, rowStatus, outputs, registered>>

\* One whose row was updated, or that has none.
ReportStored ==
  /\ runs /\ reports # <<>>
  /\ reports' = Tail(reports)
  /\ Rekey(Head(reports).task)
  /\ Storable(Head(reports).task, Head(reports).status)
  /\ UpdateStatus(Head(reports).task, Head(reports).status)
  /\ UNCHANGED <<lifeVars, schedules>>

ProcessTskRepDistMsg ==
  /\ ReportStored
  /\ Works
  /\ Head(reports).status # "FINISHED"
  /\ UNCHANGED <<outputs, registered>>

\* Mutants: the outputs are registered where they are; they go to another
\* section of the archive.
ArchiveMutant(t) == UNCHANGED outputs
ArchiveSectionMutant(t) == outputs' = [outputs EXCEPT ![t] = "archive/in"]
\* fromGateway2LocalArch moves the outputs, those of an earlier report that are
\* still in the gateway among them.  That a move fails, or that there is
\* nothing to move, is printed, and ignored.
Archive(t) ==
  IF outputs[t] \in {"gateway", "stranded"}
  THEN \E o \in {"archive", "stranded"} : outputs' = [outputs EXCEPT ![t] = o]
  ELSE UNCHANGED outputs

\* Mutant: only a task with a row has its outputs registered.
RegisterMutant(t) ==
  registered' = IF rowKey[t] = "none" THEN registered ELSE registered \cup {t}
Register(t) == registered' = registered \cup {t}

\* With FINISHED, the outputs are archived and then registered.  The INSERT may
\* fail; it does so without effect if they are registered (products_info_pkey).
\* sanitizeProductVersions, called before, changes nothing: its query is not
\* valid SQL (one parenthesis too many), and the error is caught.  The process
\* may end before the moves or after them, and it does if one of the outputs
\* has no URL: that is asserted.  (The outputs one by one: TaskOutputs.)
ProcessFinishedTask ==
  LET t == Head(reports).task IN
  /\ ReportStored
  /\ Head(reports).status = "FINISHED"
  /\ \/ /\ outputs[t] # "gap"
        /\ Archive(t)
        /\ \/ Works /\ Register(t)
           \/ (Fails \/ Halts) /\ UNCHANGED registered
     \/ Halts /\ UNCHANGED <<outputs, registered>>

-----------------------------------------------------------------------------
DataMngStep ==
  \/ ProcessTskSchedMsg
  \/ ProcessTskRepDistMsg
  \/ ProcessFinishedTask
  \/ ReportLost
  \/ ReportHalfStored
  \/ Halt

Next ==
  \/ DataMngStep
  \/ \E t \in Tasks : Schedule(t) \/ Repeat(t)
  \/ \E a \in Agents : Issue(a)
  \/ \E t \in Tasks, s \in Live \cup Final : Publish(t, s)

Spec == Init /\ [][Next]_vars

\* As long as the Data Manager's loop runs, a message on a channel is not passed
\* over for ever, since each iteration reads one of each channel.  Nothing
\* makes the loop run: Halt, or a step that halts, is possible at any time.
Fairness ==
  /\ WF_vars(ProcessTskSchedMsg)
  /\ WF_vars(ProcessTskRepDistMsg \/ ProcessFinishedTask \/ ReportLost
               \/ ReportHalfStored)

FairSpec == Spec /\ Fairness

-----------------------------------------------------------------------------
(* Correctness.                                                            *)

TypeOK ==
  /\ known \subseteq Tasks
  /\ published \in [Tasks -> Live \cup Final \cup {"none"}]
  /\ schedules \in Seq(Tasks)
  /\ reports \in Seq([task : Tasks, status : Live \cup Final])
  /\ rowKey \in [Tasks -> {"none", "name", "container"}]
  /\ rowStatus \in [Tasks -> Live \cup Final \cup {"none", "SCHEDULED"}]
  /\ outputs \in [Tasks -> OutputPlaces]
  /\ registered \subseteq Tasks
  /\ failures \in 0 .. MaxFailures
  /\ runs \in BOOLEAN

ReportPending(t) == \E i \in 1 .. Len(reports) : reports[i].task = t

\* A row that was found by a report shows the last status of its task once no
\* report is pending, as long as no command failed, the process runs, and
\* the status is one the database knows.  (A row that no report found, for all
\* of them overtook the TSKSCHED message, is left SCHEDULED.)
RowIsCurrent ==
  failures = 0 /\ runs =>
    \A t \in Tasks :
      /\ rowKey[t] = "container" /\ ~ReportPending(t) =>
           rowStatus[t] = published[t] \/ published[t] \notin StatusRows
      /\ rowKey[t] = "name" => rowStatus[t] = "SCHEDULED"

\* The status of a row is never ahead of the task's, and an end that is in the
\* row is the task's end: failures and repeated reports notwithstanding.
RowIsNotAhead ==
  \A t \in Tasks :
    /\ rowStatus[t] \in Live => published[t] # "none"
    /\ rowStatus[t] \in Final => rowStatus[t] = published[t]

\* The end that a row shows is for good: no report that comes late, or again,
\* takes the row back to a status the task had before.
EndStays(t) == rowStatus[t] \in Final => rowStatus'[t] = rowStatus[t]
EndsStay == [][\A t \in Tasks : EndStays(t)]_vars

\* No update invents a row: a row is only there if the task was scheduled and
\* its TSKSCHED message was read.
RowsAreOfKnownTasks ==
  \A t \in Tasks :
    rowKey[t] # "none" =>
      t \in known /\ ~\E i \in 1 .. Len(schedules) : schedules[i] = t

\* products_info says of no output that it is archived before its move was
\* tried, whichever report came again, whatever failed and wherever the process
\* ended: it is in the archive but if it was lost on the way to the gateway or
\* its move failed.  None has a row if one of its task has no URL.
RegisteredAfterMove ==
  \A t \in registered :
    /\ published[t] = "FINISHED"
    /\ outputs[t] \in {"archive", "stranded", "lost"}

\* The outputs of a finished task are registered in the end, whether or not the
\* task has a row, unless a command failed or the process ended, as it must if
\* one of the outputs has no URL.
OutputsRegistered ==
  \A t \in Tasks :
    published[t] = "FINISHED" ~> t \in registered \/ failures > 0 \/ ~runs
=============================================================================
