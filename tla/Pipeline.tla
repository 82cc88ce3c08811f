------------------------------ MODULE Pipeline ------------------------------
(***************************************************************************)
(* The dispatch and the Data Manager together: TskOrc publishes each task  *)
(* to the Task Manager and to the Data Manager, the Task Manager passes    *)
(* each report of an agent on to the Data Manager (fmk/tskmng.cpp), whose  *)
(* tables are those of TaskStore.  In the place of TaskLife, which is what *)
(* TaskStore knows of the dispatch, is the dispatch itself.                *)
(***************************************************************************)
EXTENDS TskDispatch

CONSTANTS
  MaxReports,    \* bound: reports the Data Manager has not read
  MaxFailures    \* bound: database commands that fail

ASSUME PipelineAssumption ==
  /\ MaxReports \in Nat \ {0}
  /\ MaxFailures \in Nat

VARIABLES
  schedules, reports,                             \* as in TaskStore
  rowKey, rowStatus, outputs, registered, failures, runs

channelVars  == <<schedules, reports>>
tableVars    == <<rowKey, rowStatus, outputs, registered, failures, runs>>
pipelineVars == <<vars, channelVars, tableVars>>

\* The statuses that task_status knows: STOPPED and UNKNOWN_STATE are not
\* there; PAUSED has the number of the row WAITING.
StatusRows == {"SCHEDULED", "RUNNING", "PAUSED", "FINISHED", "FAILED"}

Store == INSTANCE TaskStore WITH
  NoAgent   <- NoTask,
  Live      <- {"RUNNING", "PAUSED"},
  Final     <- Terminal,
  known     <- scheduled,
  pool      <- containerTasks,
  owner     <- [t \in Tasks |-> Owner(t)],
  published <- [t \in Tasks |-> Published(t)]

PipelineInit ==
  /\ Init
  /\ schedules = <<>>
  /\ reports = <<>>
  /\ rowKey = [t \in Tasks |-> "none"]
  /\ rowStatus = [t \in Tasks |-> "none"]
  /\ outputs = [t \in Tasks |-> "none"]
  /\ registered = {}
  /\ failures = 0
  /\ runs = TRUE

-----------------------------------------------------------------------------
\* TskOrc's message on a new task goes to both.
PublishTask(t) ==
  /\ ProcessTskSchedMsg(t)
  /\ schedules' = Append(schedules, t)
  /\ UNCHANGED <<reports, tableVars>>

\* Mutant: the report is passed on with the status that the registry had.
DistributedMutant(a, m) ==
  [task |-> m.task, status |-> OldStatus(<<a, m.task>>)]

\* sendTskRepDistMsg: the agent's message, as it came.
Distributed(a, m) == [task |-> m.task, status |-> m.status]

\* A finished task has left its outputs in the gateway, lost them, or left fewer
\* than its rule has, before its agent says so for the first time.
LeaveOutputs(k, s) ==
  IF s = "FINISHED" /\ taskRegistry[k] # "FINISHED"
  THEN \E o \in Store!Delivered : outputs' = [outputs EXCEPT ![k[2]] = o]
  ELSE UNCHANGED outputs

\* The Task Manager passes on each report, whatever it makes of it.
DistributeReport(a) ==
  LET m == Head(up[a]) IN
  /\ ProcessTskRepMsg(a)
  /\ Len(reports) < MaxReports
  /\ reports' = Append(reports, Distributed(a, m))
  /\ LeaveOutputs(<<a, m.task>>, m.status)
  /\ UNCHANGED <<schedules, rowKey, rowStatus, registered, failures, runs>>

\* What the Data Manager does not hear of.
Unheard ==
  /\ \/ \E t \in Tasks : ContainerChanges(t) \/ ContainerEnds(t)
     \/ \E a \in Agents : \/ ProcessTskRqstNoTask(a)
                          \/ ProcessTskRqstMsg(a)
                          \/ ProcessHostMonMsg(a)
                          \/ AgentStep(a)
                          \/ SendHostInfoUpdate(a)
                          \/ Disconnect(a)
                          \/ Reconnect(a)
  /\ UNCHANGED <<channelVars, tableVars>>

\* The Data Manager reads a message, or ends.
DataMngStep ==
  /\ UNCHANGED vars
  /\ Store!DataMngStep

PipelineNext ==
  \/ \E t \in Tasks : PublishTask(t)
  \/ \E a \in Agents : DistributeReport(a)
  \/ Unheard
  \/ DataMngStep

PipelineSpec == PipelineInit /\ [][PipelineNext]_pipelineVars

-----------------------------------------------------------------------------
(* Correctness.                                                            *)

\* Whatever the Data Manager hears of the dispatch is what TaskStore expects
\* of TaskLife: all that is said there of rows and outputs holds with the
\* agents, the sockets and the containers in its place.
ImplementsTaskStore == Store!Spec

\* What the tables say of an end is true of the container: a row is FINISHED or
\* FAILED only if the container exited so, and products are registered only for
\* a task whose container exited with 0, however many reports were lost,
\* repeated or overtaken on the way and whichever commands failed.
TablesAreTrue ==
  \A t \in Tasks :
    /\ rowStatus[t] = "FINISHED" => container[t] = "exited0"
    /\ rowStatus[t] = "FAILED"   => container[t] = "exited1"
    /\ t \in registered          => container[t] = "exited0"

\* Nothing on the task is on its way, in the agent's socket or to the tables.
Settled(a, t) ==
  /\ ~ReportOnItsWay(a, t)
  /\ ~\E i \in 1 .. Len(reports) : reports[i].task = t

\* If no connection broke, no command failed and the Data Manager runs, a row
\* that a report found is as far as the agent that runs its task, once nothing
\* on it is on its way, unless the database does not know the status.
TablesCatchUp ==
  drops = 0 /\ failures = 0 /\ runs =>
    \A a \in Agents :
      LET t == runningTask[a] IN
      /\ pStatus[a] \in {"PROCESSING", "FINISHING"}
      /\ Settled(a, t)
      /\ rowKey[t] = "container"
      => \/ Published(t) \notin StatusRows
         \/ rowStatus[t] \in
              (IF pStatus[a] = "PROCESSING" THEN {"RUNNING", "PAUSED"} ELSE Terminal)
=============================================================================
