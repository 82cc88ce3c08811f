---------------------------- MODULE TskDispatch ----------------------------
(***************************************************************************)
(* Dispatch of container tasks: the Task Manager (fmk/tskmng.cpp), the     *)
(* agents in CONTAINER mode (fmk/tskage.cpp) and the nanomsg REQ/REP       *)
(* socket that joins each agent to the Task Manager.                       *)
(*                                                                         *)
(* An agent is two threads on one REQ socket: the component loop, which    *)
(* asks for tasks and reports on the running one, and the timer thread     *)
(* that sends the host information.  A REQ socket has at most one request  *)
(* outstanding: whatever is sent next cancels it, and the answer to a      *)
(* cancelled request is dropped.                                           *)
(*                                                                         *)
(* TskOrc schedules tasks of the set "CONTAINER" only (tskorc.cpp:345) and *)
(* the swarm agents never ask for a task, so the pool of service tasks is  *)
(* left out.                                                               *)
(***************************************************************************)
EXTENDS Integers, Sequences, FiniteSets

CONSTANTS
  Agents,                   \* the agents in CONTAINER mode
  Tasks,                    \* the tasks TskOrc may schedule, by unique name
  NoTask,                   \* no task: the null pointer, the empty reply
  idleCyclesBeforeRequest,  \* 30 in the code
  maxWaitingCycles,         \* 20 in the code
  MaxUp,                    \* bound: messages on their way to TskMng, per agent
  MaxDrops                  \* bound: how often connections may break

ASSUME DispatchAssumption ==
  /\ IsFiniteSet(Agents)
  /\ IsFiniteSet(Tasks)
  /\ NoTask \notin Tasks \cup Agents
  /\ idleCyclesBeforeRequest \in Nat
  /\ maxWaitingCycles \in Nat
  /\ MaxUp \in Nat \ {0, 1}
  /\ MaxDrops \in Nat

VARIABLES
  \* The Task Manager
  containerTasks,              \* the pool: tasks nobody has asked for yet
  taskRegistry,                \* (agent, task) -> last known status
  containerTaskStatus,         \* status -> number of tasks
  containerTaskStatusPerAgent, \* agent -> status -> number of tasks
  spectra,                     \* the counts shown for each agent (procFmkInfo)
  \* The agents
  loop,                        \* "poll", or "recv": the socket was seen readable
  pStatus,
  idleCycles,
  waitingCycles,
  runningTask,
  \* The REQ/REP sockets
  linked,                      \* is the agent connected to TskMng?
  up,                          \* messages on their way to TskMng
  outstanding,                 \* the request that has no answer yet
  reply,                       \* the task in the answer the agent has not read
  drops,                       \* connections broken so far
  \* The containers and the tasks scheduled so far
  container,
  scheduled

mngVars  == <<containerTasks, taskRegistry, containerTaskStatus,
              containerTaskStatusPerAgent, spectra>>
agnVars  == <<loop, pStatus, idleCycles, waitingCycles, runningTask>>
sockVars == <<linked, up, outstanding, reply, drops>>
vars     == <<mngVars, agnVars, sockVars, container, scheduled>>

-----------------------------------------------------------------------------
(* Statuses, messages, containers                                          *)

\* The statuses the counters are initialised for.  FINISHED is the value 0 of
\* the enumeration: what the registry's operator[] yields for an unknown name.
TaskStatus == {"SCHEDULED", "FAILED", "FINISHED", "RUNNING", "PAUSED",
               "STOPPED", "UNKNOWN_STATE"}
DefaultStatus == "FINISHED"
TerminalMutant == {"STOPPED", "FINISHED", "UNKNOWN_STATE"}  \* FAILED forgotten
Terminal == {"STOPPED", "FAILED", "FINISHED", "UNKNOWN_STATE"}
Shown == TaskStatus \ {"UNKNOWN_STATE"}

\* The agent's own status; the registry's keys are names "<agent>_<task>"
ProcStatus == {"IDLE", "WAITING", "PROCESSING", "FINISHING"}
Keys == Agents \X Tasks

TskRqst == [type |-> "TSKRQST", task |-> NoTask, status |-> "none"]
HostMon == [type |-> "HOSTMON", task |-> NoTask, status |-> "none"]
NoMsg   == [type |-> "none",    task |-> NoTask, status |-> "none"]
TskRep(t, s) == [type |-> "TSKREP", task |-> t, status |-> s]
Reports  == [type : {"TSKREP"}, task : Tasks, status : TaskStatus]
Messages == {TskRqst, HostMon} \cup Reports

\* What "docker inspect" says of a container, and how it may change
DockerAlive == {"created", "running", "paused", "restarting"}
DockerEnded == {"exited0", "exited1", "dead"}
DockerState == DockerAlive \cup DockerEnded

DockerNext == [created    |-> {"running"},
               running    |-> {"paused", "restarting"},
               paused     |-> {"running"},
               restarting |-> {"running"}]

\* Mutant: the exit code is not looked at.
StatusOfMutant ==
  [d \in DockerState |-> IF d \in DockerEnded THEN "FINISHED" ELSE "RUNNING"]

\* TskAge::sendTaskReport, the status an inspected state stands for; any
\* state but these is "UNKNOWN_STATE".
StatusOf == [created    |-> "STOPPED",
             running    |-> "RUNNING",
             paused     |-> "PAUSED",
             restarting |-> "UNKNOWN_STATE",
             exited0    |-> "FINISHED",
             exited1    |-> "FAILED",
             dead       |-> "STOPPED"]

-----------------------------------------------------------------------------
Init ==
  /\ containerTasks = <<>>
  /\ taskRegistry = [k \in Keys |-> "none"]
  /\ containerTaskStatus = [s \in TaskStatus |-> 0]
  /\ containerTaskStatusPerAgent = [a \in Agents |-> [s \in TaskStatus |-> 0]]
  /\ spectra = [a \in Agents |-> [s \in Shown |-> 0]]
  /\ loop = [a \in Agents |-> "poll"]
  /\ pStatus = [a \in Agents |-> "IDLE"]
  /\ idleCycles = [a \in Agents |-> 0]
  /\ waitingCycles = [a \in Agents |-> 0]
  /\ runningTask = [a \in Agents |-> NoTask]
  /\ linked = [a \in Agents |-> TRUE]
  /\ up = [a \in Agents |-> <<>>]
  /\ outstanding = [a \in Agents |-> NoMsg]
  /\ reply = [a \in Agents |-> NoTask]
  /\ drops = 0
  /\ container = [t \in Tasks |-> "none"]
  /\ scheduled = {}

-----------------------------------------------------------------------------
(* The REQ socket (nanomsg).                                               *)

\* nn_send on the REQ socket: cancels the outstanding request and an answer
\* that has not been read; while the agent is not connected only the last
\* request is kept, to be sent when the connection is back.
Send(a, m) ==
  /\ outstanding' = [outstanding EXCEPT ![a] = m]
  /\ reply' = [reply EXCEPT ![a] = NoTask]
  /\ up' = IF linked[a] THEN [up EXCEPT ![a] = Append(@, m)] ELSE up
  /\ UNCHANGED <<linked, drops>>

\* The connection breaks.  What is on its way to TskMng is lost.  An answer
\* has either reached the agent's socket or is lost too.
Disconnect(a) ==
  /\ linked[a]
  /\ drops < MaxDrops
  /\ drops' = drops + 1
  /\ linked' = [linked EXCEPT ![a] = FALSE]
  /\ up' = [up EXCEPT ![a] = <<>>]
  /\ \/ /\ reply[a] # NoTask
        /\ outstanding' = [outstanding EXCEPT ![a] = NoMsg]
        /\ UNCHANGED reply
     \/ /\ loop[a] = "poll"
        /\ reply' = [reply EXCEPT ![a] = NoTask]
        /\ UNCHANGED outstanding
  /\ UNCHANGED <<mngVars, agnVars, container, scheduled>>

\* The connection is back: the outstanding request is sent (again).
Reconnect(a) ==
  /\ ~linked[a]
  /\ linked' = [linked EXCEPT ![a] = TRUE]
  /\ up' = [up EXCEPT ![a] = IF outstanding[a] = NoMsg THEN <<>>
                                                       ELSE <<outstanding[a]>>]
  /\ UNCHANGED <<mngVars, agnVars, outstanding, reply, drops, container,
                 scheduled>>

-----------------------------------------------------------------------------
(* The Task Manager.  Each iteration reads at most one message per agent.  *)

\* A TSKSCHED message from TskOrc: the task goes to the back of the pool.
ProcessTskSchedMsg(t) ==
  /\ t \notin scheduled
  /\ scheduled' = scheduled \cup {t}
  /\ containerTasks' = Append(containerTasks, t)
  /\ UNCHANGED <<taskRegistry, containerTaskStatus,
                 containerTaskStatusPerAgent, spectra, agnVars, sockVars,
                 container>>

\* TskMng takes the next message of the agent's connection.
Receive(a, type) ==
  /\ up[a] # <<>>
  /\ Head(up[a]).type = type
  /\ up' = [up EXCEPT ![a] = Tail(@)]

\* A TSKRQST with nothing in the pool is not answered.
ProcessTskRqstNoTask(a) ==
  /\ Receive(a, "TSKRQST")
  /\ containerTasks = <<>>
  /\ UNCHANGED <<mngVars, agnVars, linked, outstanding, reply, drops,
                 container, scheduled>>

\* Mutants: the first task is read and not popped; the task is sent and not
\* registered.
PopTaskMutant == UNCHANGED containerTasks
RegisterMutant(a, t) ==
  UNCHANGED <<taskRegistry, containerTaskStatus, containerTaskStatusPerAgent>>

PopTask == containerTasks' = Tail(containerTasks)

\* The task given to an agent is registered and counted as scheduled.
Register(a, t) ==
  /\ taskRegistry' = [taskRegistry EXCEPT ![<<a, t>>] = "SCHEDULED"]
  /\ containerTaskStatus' = [containerTaskStatus EXCEPT !["SCHEDULED"] = @ + 1]
  /\ containerTaskStatusPerAgent' =
       [containerTaskStatusPerAgent EXCEPT ![a]["SCHEDULED"] = @ + 1]

\* A TSKRQST takes the first task of the pool, which is sent and registered.
\* The answer counts for the agent only if it sent nothing after the request.
ProcessTskRqstMsg(a) ==
  LET t == Head(containerTasks) IN
  /\ Receive(a, "TSKRQST")
  /\ containerTasks # <<>>
  /\ PopTask
  /\ reply' = IF Len(up[a]) = 1 THEN [reply EXCEPT ![a] = t] ELSE reply
  /\ Register(a, t)
  /\ UNCHANGED <<spectra, agnVars, linked, outstanding, drops, container,
                 scheduled>>

\* Mutants: the old status keeps its count; one status shown in the place of
\* another; every count shown, that of UNKNOWN_STATE too.
RecountMutant(count, old, new) == [count EXCEPT ![new] = @ + 1]
SpectrumMutant(count) ==
  [s \in Shown |-> IF s = "FINISHED" THEN count["FAILED"] ELSE count[s]]
SpectrumOfAllMutant(count) == count

\* One task of a counter map goes from one status to another.
Recount(count, old, new) ==
  [count EXCEPT ![old] = @ - 1, ![new] = @ + 1]

\* convertTaskStatusToSpectra
Spectrum(count) == [s \in Shown |-> count[s]]

OldStatus(k) ==
  IF taskRegistry[k] = "none" THEN DefaultStatus ELSE taskRegistry[k]

\* A TSKREP: registry, counters and the agent's spectrum follow a new status.
ProcessTskRepMsg(a) ==
  LET m   == Head(up[a])
      key == <<a, m.task>>
      old == OldStatus(key)
  IN
  /\ Receive(a, "TSKREP")
  /\ taskRegistry' = [taskRegistry EXCEPT ![key] = m.status]
  /\ IF old # m.status
     THEN /\ containerTaskStatus' =
               Recount(containerTaskStatus, old, m.status)
          /\ containerTaskStatusPerAgent' =
               [containerTaskStatusPerAgent EXCEPT
                  ![a] = Recount(@, old, m.status)]
          /\ spectra' =
               [spectra EXCEPT ![a] = Spectrum(containerTaskStatusPerAgent'[a])]
     ELSE UNCHANGED <<containerTaskStatus, containerTaskStatusPerAgent,
                      spectra>>
  /\ UNCHANGED <<containerTasks, agnVars, linked, outstanding, reply, drops,
                 container, scheduled>>

\* A HOSTMON only refreshes the host information; it is never answered.
ProcessHostMonMsg(a) ==
  /\ Receive(a, "HOSTMON")
  /\ UNCHANGED <<mngVars, agnVars, linked, outstanding, reply, drops,
                 container, scheduled>>

-----------------------------------------------------------------------------
(* The agent's timer thread.                                               *)

SendHostInfoUpdate(a) ==
  /\ Len(up[a]) < MaxUp
  /\ \A i \in 1 .. Len(up[a]) : up[a][i] # HostMon   \* bound: one on its way
  /\ Send(a, HostMon)
  /\ UNCHANGED <<mngVars, agnVars, container, scheduled>>

-----------------------------------------------------------------------------
(* The agent's component loop.                                             *)

\* getevents says that there is an answer to read ...
SeeReply(a) ==
  /\ loop[a] = "poll"
  /\ reply[a] # NoTask
  /\ loop' = [loop EXCEPT ![a] = "recv"]
  /\ UNCHANGED <<mngVars, pStatus, idleCycles, waitingCycles, runningTask,
                 sockVars, container, scheduled>>

\* ... and the blocking recv that follows takes it, if it is still there.
TakeReply(a) ==
  /\ loop[a] = "recv"
  /\ reply[a] # NoTask
  /\ loop' = [loop EXCEPT ![a] = "poll"]

\* processTskProcMsg when the agent no longer waits: the task is ignored.
IgnoreTask(a) ==
  /\ TakeReply(a)
  /\ pStatus[a] # "WAITING"
  /\ outstanding' = [outstanding EXCEPT ![a] = NoMsg]
  /\ reply' = [reply EXCEPT ![a] = NoTask]
  /\ UNCHANGED <<mngVars, pStatus, idleCycles, waitingCycles, runningTask,
                 linked, up, drops, container, scheduled>>

\* Mutants: a paused container has ended; only a container that exited has.
ReportPausedMutant(a, t, d) ==
  /\ pStatus' = [pStatus EXCEPT
       ![a] = IF StatusOf[d] # "RUNNING" THEN "FINISHING" ELSE "PROCESSING"]
  /\ Len(up[a]) < MaxUp
  /\ Send(a, TskRep(t, StatusOf[d]))
ReportStoppedMutant(a, t, d) ==
  /\ pStatus' = [pStatus EXCEPT
       ![a] = IF d \in {"exited0", "exited1"} THEN "FINISHING"
                                             ELSE "PROCESSING"]
  /\ Len(up[a]) < MaxUp
  /\ Send(a, TskRep(t, StatusOf[d]))

\* sendTaskReport: what the inspected state d means for the agent's status,
\* and the report sent to TskMng.
Report(a, t, d) ==
  /\ pStatus' = [pStatus EXCEPT
       ![a] = IF StatusOf[d] \in Terminal THEN "FINISHING" ELSE "PROCESSING"]
  /\ Len(up[a]) < MaxUp
  /\ Send(a, TskRep(t, StatusOf[d]))

\* processTskProcMsg: the container is created, and reported on a second
\* later, whatever it has come to by then.
StartTask(a) ==
  /\ TakeReply(a)
  /\ pStatus[a] = "WAITING"
  /\ runningTask' = [runningTask EXCEPT ![a] = reply[a]]
  /\ \E d \in DockerState :
       /\ container' = [container EXCEPT ![reply[a]] = d]
       /\ Report(a, reply[a], d)
  /\ UNCHANGED <<mngVars, idleCycles, waitingCycles, scheduled>>

\* processTskProcMsg when createContainer fails: a warning, and no more.
FailToStartTask(a) ==
  /\ TakeReply(a)
  /\ pStatus[a] = "WAITING"
  /\ runningTask' = [runningTask EXCEPT ![a] = reply[a]]
  /\ outstanding' = [outstanding EXCEPT ![a] = NoMsg]
  /\ reply' = [reply EXCEPT ![a] = NoTask]
  /\ UNCHANGED <<mngVars, pStatus, idleCycles, waitingCycles, linked, up,
                 drops, container, scheduled>>

\* runEachIterationForContainers runs in an iteration whose poll found nothing.
Iterating(a, status) ==
  /\ loop[a] = "poll"
  /\ reply[a] = NoTask
  /\ pStatus[a] = status

StayIdle(a) ==
  /\ Iterating(a, "IDLE")
  /\ idleCycles[a] < idleCyclesBeforeRequest
  /\ idleCycles' = [idleCycles EXCEPT ![a] = @ + 1]
  /\ UNCHANGED <<mngVars, loop, pStatus, waitingCycles, runningTask, sockVars,
                 container, scheduled>>

RequestTask(a) ==
  /\ Iterating(a, "IDLE")
  /\ idleCycles[a] >= idleCyclesBeforeRequest
  /\ idleCycles' = [idleCycles EXCEPT ![a] = @ + 1]
  /\ pStatus' = [pStatus EXCEPT ![a] = "WAITING"]
  /\ waitingCycles' = [waitingCycles EXCEPT ![a] = 0]
  /\ Len(up[a]) < MaxUp
  /\ Send(a, TskRqst)
  /\ UNCHANGED <<mngVars, loop, runningTask, container, scheduled>>

KeepWaiting(a) ==
  /\ Iterating(a, "WAITING")
  /\ waitingCycles[a] < maxWaitingCycles
  /\ waitingCycles' = [waitingCycles EXCEPT ![a] = @ + 1]
  /\ UNCHANGED <<mngVars, loop, pStatus, idleCycles, runningTask, sockVars,
                 container, scheduled>>

PatienceOverMutant(a) == FALSE  \* nobody looks at waitingCycles

PatienceOver(a) == waitingCycles[a] >= maxWaitingCycles

StopWaiting(a) ==
  /\ Iterating(a, "WAITING")
  /\ PatienceOver(a)
  /\ waitingCycles' = [waitingCycles EXCEPT ![a] = @ + 1]
  /\ pStatus' = [pStatus EXCEPT ![a] = "IDLE"]
  /\ idleCycles' = [idleCycles EXCEPT ![a] = 0]
  /\ UNCHANGED <<mngVars, loop, runningTask, sockVars, container, scheduled>>

ReportTask(a) ==
  /\ Iterating(a, "PROCESSING")
  /\ Report(a, runningTask[a], container[runningTask[a]])
  /\ UNCHANGED <<mngVars, loop, idleCycles, waitingCycles, runningTask,
                 container, scheduled>>

FinishTask(a) ==
  /\ Iterating(a, "FINISHING")
  /\ runningTask' = [runningTask EXCEPT ![a] = NoTask]
  /\ pStatus' = [pStatus EXCEPT ![a] = "IDLE"]
  /\ idleCycles' = [idleCycles EXCEPT ![a] = 0]
  /\ UNCHANGED <<mngVars, loop, waitingCycles, sockVars, container, scheduled>>

-----------------------------------------------------------------------------
(* The containers (Docker).                                                *)

ContainerChanges(t) ==
  /\ container[t] \in DockerAlive
  /\ \E d \in DockerNext[container[t]] :
       container' = [container EXCEPT ![t] = d]
  /\ UNCHANGED <<mngVars, agnVars, sockVars, scheduled>>

ContainerEnds(t) ==
  /\ container[t] \in DockerAlive
  /\ \E d \in DockerEnded : container' = [container EXCEPT ![t] = d]
  /\ UNCHANGED <<mngVars, agnVars, sockVars, scheduled>>

-----------------------------------------------------------------------------
MngStep(a) ==
  \/ ProcessTskRqstNoTask(a)
  \/ ProcessTskRqstMsg(a)
  \/ ProcessTskRepMsg(a)
  \/ ProcessHostMonMsg(a)

AgentStep(a) ==
  \/ SeeReply(a)
  \/ IgnoreTask(a)
  \/ StartTask(a)
  \/ FailToStartTask(a)
  \/ StayIdle(a)
  \/ RequestTask(a)
  \/ KeepWaiting(a)
  \/ StopWaiting(a)
  \/ ReportTask(a)
  \/ FinishTask(a)

Next ==
  \/ \E t \in Tasks : \/ ProcessTskSchedMsg(t)
                      \/ ContainerChanges(t)
                      \/ ContainerEnds(t)
  \/ \E a \in Agents : \/ MngStep(a)
                       \/ AgentStep(a)
                       \/ SendHostInfoUpdate(a)
                       \/ Disconnect(a)
                       \/ Reconnect(a)

Spec == Init /\ [][Next]_vars

\* Both loops run for ever, connections come back (nanomsg reconnects by
\* itself) and a processor that runs in a container ends.
Fairness ==
  /\ \A a \in Agents : /\ WF_vars(MngStep(a))
                       /\ WF_vars(AgentStep(a))
                       /\ WF_vars(Reconnect(a))
  /\ \A t \in Tasks : WF_vars(ContainerEnds(t))

FairSpec == Spec /\ Fairness

-----------------------------------------------------------------------------
(* Correctness.                                                            *)

TypeOK ==
  /\ containerTasks \in Seq(Tasks)
  /\ taskRegistry \in [Keys -> TaskStatus \cup {"none"}]
  /\ containerTaskStatus \in [TaskStatus -> Int]
  /\ containerTaskStatusPerAgent \in [Agents -> [TaskStatus -> Int]]
  /\ spectra \in [Agents -> [Shown -> Int]]
  /\ loop \in [Agents -> {"poll", "recv"}]
  /\ pStatus \in [Agents -> ProcStatus]
  /\ idleCycles \in [Agents -> Nat]
  /\ waitingCycles \in [Agents -> Nat]
  /\ runningTask \in [Agents -> Tasks \cup {NoTask}]
  /\ linked \in [Agents -> BOOLEAN]
  /\ up \in [Agents -> Seq(Messages)]
  /\ outstanding \in [Agents -> Messages \cup {NoMsg}]
  /\ reply \in [Agents -> Tasks \cup {NoTask}]
  /\ drops \in Nat
  /\ container \in [Tasks -> DockerState \cup {"none"}]
  /\ scheduled \in SUBSET Tasks

Registered(k) == taskRegistry[k] # "none"
InPool(t) == \E i \in 1 .. Len(containerTasks) : containerTasks[i] = t
WithStatus(s) == {k \in Keys : taskRegistry[k] = s}

\* The counters that tskmng.cpp increments and decrements by hand in two
\* handlers are at all times the numbers of registered tasks by status, in
\* total and for each agent; they never go negative.
CountersMatchRegistry ==
  /\ \A s \in TaskStatus : containerTaskStatus[s] = Cardinality(WithStatus(s))
  /\ \A a \in Agents, s \in TaskStatus :
       containerTaskStatusPerAgent[a][s] =
         Cardinality({k \in WithStatus(s) : k[1] = a})

\* A task is given to one agent at most, is never back in the pool once it
\* was given away, and no container runs it before that: no interleaving of
\* requests, timeouts and broken connections makes two agents run it.
SingleOwner ==
  /\ \A i, j \in 1 .. Len(containerTasks) :
       containerTasks[i] = containerTasks[j] => i = j
  /\ \A t \in Tasks :
       /\ \A a, b \in Agents :
            Registered(<<a, t>>) /\ Registered(<<b, t>>) => a = b
       /\ InPool(t) => ~\E a \in Agents : Registered(<<a, t>>)
       /\ container[t] # "none" => \E a \in Agents : Registered(<<a, t>>)

\* Whatever an agent runs, and whatever report is on its way or may be sent
\* again, concerns a task that TskMng registered for that agent: a report
\* never makes the registry invent an entry (taskRegistry[taskName] would).
ReportsAreRegistered ==
  \A a \in Agents :
    /\ pStatus[a] \in {"PROCESSING", "FINISHING"} =>
         runningTask[a] \in Tasks /\ Registered(<<a, runningTask[a]>>)
    /\ outstanding[a].type = "TSKREP" =>
         Registered(<<a, outstanding[a].task>>)
    /\ \A i \in 1 .. Len(up[a]) :
         up[a][i].type = "TSKREP" => Registered(<<a, up[a][i].task>>)

\* A terminal status in the registry is the truth about the container.
OutcomeIsTrue ==
  \A k \in Keys :
    /\ taskRegistry[k] = "FINISHED" => container[k[2]] = "exited0"
    /\ taskRegistry[k] = "FAILED"   => container[k[2]] = "exited1"

ReportOnItsWay(a, t) ==
  \E i \in 1 .. Len(up[a]) : up[a][i].type = "TSKREP" /\ up[a][i].task = t

\* While no connection broke, the host-information messages that cancel the
\* reports on the same socket do not lose them: with no report on its way the
\* registry knows how far the agent's task is.
RegistryCatchesUp ==
  drops = 0 =>
    \A a \in Agents :
      LET t == runningTask[a] IN
      pStatus[a] \in {"PROCESSING", "FINISHING"} /\ ~ReportOnItsWay(a, t) =>
        taskRegistry[<<a, t>>] \in
          (IF pStatus[a] = "PROCESSING" THEN {"RUNNING", "PAUSED"} ELSE Terminal)

\* The counts shown for an agent lag behind its counters only in the number
\* of scheduled tasks, which the request handler changes without showing it.
SpectraLag ==
  \A a \in Agents, s \in Shown :
    LET lag == containerTaskStatusPerAgent[a][s] - spectra[a][s] IN
    IF s = "SCHEDULED" THEN lag >= 0 ELSE lag = 0

\* The dispatch implements TaskLife.
Owner(t) ==
  IF \E a \in Agents : Registered(<<a, t>>)
  THEN CHOOSE a \in Agents : Registered(<<a, t>>)
  ELSE NoTask

Published(t) ==
  IF Owner(t) = NoTask THEN "none"
  ELSE IF taskRegistry[<<Owner(t), t>>] = "SCHEDULED" THEN "none"
  ELSE taskRegistry[<<Owner(t), t>>]

Life == INSTANCE TaskLife WITH
  NoAgent   <- NoTask,
  Live      <- {"RUNNING", "PAUSED"},
  Final     <- Terminal,
  known     <- scheduled,
  pool      <- containerTasks,
  owner     <- [t \in Tasks |-> Owner(t)],
  published <- [t \in Tasks |-> Published(t)]

\* Every behaviour of the dispatch is one of TaskLife: the pool is first come,
\* first served, a task never changes hands, and a task whose end is known
\* never gets another status, although late and repeated reports are not
\* recognised as such by the handler.
ImplementsTaskLife == Life!Spec

\* The agent's loop hangs in recv: the answer that the poll saw was cancelled
\* by the timer thread before it was read, and none will come.
Stuck(a) == loop[a] = "recv" /\ reply[a] = NoTask

\* The scheduled tasks all leave the pool in the end, unless every agent's loop
\* hangs.
PoolDrains ==
  containerTasks # <<>> ~> containerTasks = <<>> \/ \A a \in Agents : Stuck(a)

\* An agent that waits for a task gets one or gives up, unless its loop hangs.
WaitingEnds ==
  \A a \in Agents :
    pStatus[a] = "WAITING" ~> pStatus[a] \in {"IDLE", "PROCESSING"} \/ Stuck(a)

\* An agent that runs a task is free again in the end, whatever happens to
\* its connection.
ProcessingEnds ==
  \A a \in Agents : pStatus[a] = "PROCESSING" ~> pStatus[a] = "IDLE"
=============================================================================
