# QPF: a verification project

QPF (the QLA Processing Framework) watches an inbox for data products, moves
them to an archive, fires the rules of an orchestration when the inputs of a
rule are there, and runs the resulting tasks in Docker containers on processing
hosts. This directory holds TLA+ models of its core, the TLC configurations
that check them, and proofs that the TLA+ proof system checks.

All paths below are relative to `src/`.

## 1. The system

### Processes, threads, channels

The *master* host runs one process with the components `EvtMng`, `DatMng`,
`LogMng`, `TskOrc`, `TskMng` (and an HTTP server). Each *processing* host runs
one process with its agents (`TskAge`). Every component is a thread that loops:
read at most one message per channel, in the order of the channels' names;
process the messages; do its own work for the iteration; sleep
(`fmk/component.cpp`). Agents and the Task Manager have timer threads besides,
and the Event Manager has the thread of its directory watcher.

| channel | kind | from | to |
|---|---|---|---|
| CMD | publish/subscribe | EvtMng | all others: INIT, QUIT |
| EVTMNG | survey | EvtMng | all others answer with their state |
| HMICMD | request/reply | HMI | EvtMng |
| INDATA | publish/subscribe, in the process | EvtMng | DatMng, TskOrc |
| TSKSCHED | publish/subscribe, in the process | TskOrc | DatMng, TskMng |
| TSKPROC_<agent> | request/reply | the agent | TskMng |
| TSKREPDIST | publish/subscribe | TskMng | DatMng, EvtMng, HMI |

### Components: state, operations, what makes them correct

| component | state | operations | correct if |
|---|---|---|---|
| Task Manager (`fmk/tskmng.cpp`) | pool of tasks, registry of statuses, counts by status, spectra shown | TSKSCHED, TSKRQST, TSKREP, HOSTMON | each task goes to one agent at most; the books balance; what is published of a task is a life: not begun, running, ended |
| Task Agent (`fmk/tskage.cpp`) | `pStatus`, two cycle counters, the running task | iteration by `pStatus`, TSKPROC, reports, the timer's HOSTMON | waiting ends, processing ends, reports are true |
| Component, Synchronizer, Deployer (`fmk/component.cpp`, `fmk/sync.h`, `qpf/deployer.cpp`) | state machine, place of each thread | start, loop, QUIT, end | the start reaches all, nothing ends unasked, the end reaches all |
| Event Manager (`fmk/evtmng.cpp`) | iteration, `requestQuit`, states of the others | survey, INIT, QUIT, announcing files | its view is true of the processes that run; QUIT reaches the others |
| Directory watcher (`tools/dwatcher.cpp`) | last name seen, queue of events | one event | no first arrival is missed |
| Data Manager (`fmk/datamng.cpp`, `fmk/dbhdlpostgre.cpp`, `fmk/urlhdl.cpp`) | tables `tasks_info`, `products_info`, the files of the archive | INDATA, TSKSCHED, TSKREPDIST | rows are current; what is registered was moved to the archive; what a finished task left is registered |
| Task Orchestrator (`fmk/tskorc.cpp`) | rules, catalogue | INDATA: rules, waiting for the inputs, TSKSCHED | a rule fires if and only if its inputs are complete, with inputs that are in the archive |
| Rule conditions (`infix/infixeval.tcc`) | stacks of operators, values and names, the values of the names | one token of an expression; one line per rule | a condition has the value it means, whatever texts came before; each text ends |
| Configuration and Deployer: network (`fmk/config.cpp`, `qpf/deployer.cpp`) | names, ports, agents, connections | start of a process | the Task Manager hears the agents it should |
| Session (`fmk/config.cpp`, `fmk/component.cpp`, `fmk/tskage.cpp`) | `PATHSession`, the session's directory, each agent's work directory | INIT, TSKPROC, exchange area | the exchange area of a task is where agent and container look for it |
| the rest | | log, HMI, HTTP server, host information, file formats, alerts | not modelled, see section 7 |

### What is hard here

* two threads of an agent share one REQ socket, where each request cancels the
  one before, answered or not;
* a poll that says "readable" is followed by a recv that blocks;
* two components read the same announcement at their own pace, and one waits for
  what the other does to the file system;
* reports may overtake the message about the task they are reports on;
* a condition variable without a condition starts and ends the processes;
* the process ends when the first component ends, wherever the others are;
* database commands, copies, moves and links fail one at a time, mostly
  unnoticed;
* a host may be killed, and a handler may never return: nobody notices either;
* the agents of a host are threads that rename one directory and assign one
  string that they share, without a lock;
* one evaluator serves all the rules of a product, and nothing clears its stacks
  after a malformed condition.

`PROJECT.json` lists the hazards line by line, with the properties for them.

## 2. The modules

Each action is one handler, or one of its outcomes; TLA+ names are those of the
source where it has one. `PROJECT.json` maps each definition to its lines.
Operators whose name ends in `Mutant` are plausible bugs: replacing the
definition below them by its mutant makes TLC find the property violated that
`PROJECT.json` names with it.

**TskDispatch** composes the Task Manager, the agents, their sockets and the
containers. `containerTasks`, `taskRegistry`, `containerTaskStatus`,
`containerTaskStatusPerAgent` are the members of `TskMng`; `spectra` is what it
writes to `procFmkInfo`. `pStatus`, `idleCycles`, `waitingCycles`,
`runningTask` are members of `TskAge`; `loop` says whether its thread is between
the poll and the recv. `up`, `outstanding`, `reply`, `linked` are the socket: the
messages on their way, the request without an answer, the answer not read, the
connection. `ProcessTskRqstMsg`, `ProcessTskRepMsg`, `StartTask` and so on are
the handlers; `SendHostInfoUpdate` is the timer's thread; `Disconnect` and
`Reconnect` are nanomsg's. A registry key is the pair of agent and task that the
code glues into one name.

**TaskLife** is the abstract specification of the dispatch: a pool in order of
arrival, one owner per task, published statuses that end with a final one.
`TskDispatch!ImplementsTaskLife` is the refinement, and **TaskStore** takes
TaskLife as the environment of the Data Manager.

**Pipeline** puts the dispatch in the place of TaskLife: TskOrc's message on a
task goes to the Task Manager and to the Data Manager, and each report that the
Task Manager reads it passes on (`DistributeReport`). The Data Manager is
TaskStore's, as an instance of it. `ImplementsTaskStore` says that this is an
implementation of TaskStore, and `TablesAreTrue` what follows for the whole way
from a container to the tables.

**Lifecycle** has the threads of the components (`pc`), the main thread of each
host (`main`), the state machines, and the Event Manager with its iterations
kept modulo the period of the surveys. The wait and the notification are those
of `fmk/sync.h`: who is not in the wait is not woken. A missed wake-up is
possible at the start (`EnterWait` after `NotifyStart`) and at the end
(`NotifyEnd` before `WaitForEnd`). There are two kinds of faults, at any time,
up to `MaxFaults` together: `Kill`, the end of a host's process, which only
QUIT or a kill can bring about, and `Stall`, a handler that never returns (the
recv after the poll, `getInfo` on a container that is not there, the wait in
`relocate`). A killed host is not started again here: restarts are in Sessions.

**TaskStore** has the row of each task as the two UPDATEs of `updateTask` leave
it: `rowKey` tells whether `task_id` is the name or already the container, and
`rowStatus` the status. An UPDATE to a status that is not in `task_status`
(`StatusRows`) violates a foreign key, and has no effect. `outputs` follows the
files of a finished task as one thing: on their way, lost before the gateway,
archived, or stranded in the gateway by a move that failed, which the code
ignores; or with a gap, an element of the array without a URL. `runs` is false
once the process has ended (`Halt`, or `Halts` within a handler), which it may
at any time, also in a command that does not return, and must at the assertion
on a gap. **TaskOutputs** follows the files one by one for one task, with the
array `outputs` of the task's JSON object, in which TskOrc's placeholders, the
products found and the gaps between them meet. `unmoved` are the files whose
last move failed. `ProductId` is the key of `products_info`: a name without its
extension, which two files may share.

**Intake** follows a file name from the inotify event through the watcher's
queue, the announcement, the archive and the catalogue to a scheduled task.
A file stands for its name; it may come again. A rule's condition is the set of
inputs it refuses.

**Expressions** has the tokens of the conditions, what an operator does to two
values, and the language: how the parts of an expression are put together
(`IsReading`), and what an expression means. `Level` is what the comments of the
table of precedences say. The rows do not stand where the comments say, and the
code reads some expressions otherwise (section 3): `IsClearOnRight` asks for
parentheses where the two differ, so that a reading is the one of both.
**Conditions** is the evaluator as the Orchestrator uses it: one line per rule,
with the definitions of the fields of its inputs and then the condition.
`ProcessToken` and the actions below it are the cases of the parser; `opStack`,
`postFixStack`, `symbolStack` are its stacks, and are never cleared;
`TopOfStack` and `InputSymbol` are the two columns of `PREC_TABLE` as the index of the
code reads it. A text is a sequence of tokens: splitting it is left out. A power
of 0 with a negative exponent is infinite, and the conversion to int undefined:
`IntIndefinite` is what the build makes of it, the least int on x86-64. A rule's
line comes with a reading of it, or with none if it is malformed (`Reading`);
`RightValue` compares what the evaluator gives with what the reading means.

**Deployment** computes, as every process does from the configuration, the names
and the ports of the agents, the agents that a host creates and the connections
that the Task Manager makes. A unit is a host with its agents, or a swarm.
**Sessions** extends it by what the agents of one host do to the session: the
directory `run/<session>` and the string `PATHSession`, which they share; the
work directory, of which each has its own; the exchange area of a task. The
processes start and crash in any order.

**MCTskDispatch**, **MCLifecycle**, **MCIntake**, **MCTaskOutputs**,
**MCConditions** and **MCSessions** give the constants that a configuration file cannot express
(symmetry, functions, product_ids, the list of the conditions, the networks).
**TskDispatchProofs**, **TaskLifeProofs**, **LifecycleProofs**,
**TaskStoreProofs**, **TaskOutputsProofs**, **IntakeProofs**,
**ConditionsProofs** and **SessionsProofs** hold the theorems.

## 3. What is checked

| run | what it shows | bounds |
|---|---|---|
| Dispatch | the books balance, single owner, cancelled reports are made up for | 2 agents, 2 tasks, 2 messages per socket, 1 idle cycle before a request, no patience, no broken connection; symmetric |
| DispatchLinks | reports are registered, refinement of TaskLife; the pool drains, waiting and processing end | 1 agent, 2 tasks, 2 messages per socket, 1 broken connection, a patience of 1 cycle |
| Pipeline | refinement of TaskStore; ends and products in the tables are true of the container | 1 agent, 1 task, 1 broken connection, 1 idle cycle, a patience of 1, 2 unread reports, 1 failure, the end of the Data Manager |
| Lifecycle | nothing ends unasked, a process only ends after one of its components, the view of the Event Manager errs on killed hosts only; the start and the end reach those they can reach | 3 components, 2 of them on the master, survey every 2 iterations, INIT in the first, 2 faults |
| LifecycleQuit | *violated*: QUIT does not reach all | 3 components, 2 of them on the processing host, INIT in the third iteration, no fault |
| TaskStore | rows current, never ahead, never taken back from an end; outputs registered only after their move, and in the end | 2 tasks, 2 unread reports, 1 failure, any moves that fail, 1 status the database does not know, the end of the process |
| Intake | inputs archived before the task; the watcher dies of repeated names only; no task too many; first arrivals archived; rules fire | 4 names, 3 events, 2 rules, 1 failure |
| IntakeWait | *violated*: the wait for a file ends | 2 names, 2 events, no failure |
| TaskOutputs | the assertion only fails on a gap; nothing registered before all moves were tried; which products are registered | 2 declared outputs, up to 4 files, 2 of them with one product_id, 2 deliveries, any moves that fail, 1 failure |
| TaskOutputsAssert | *violated*: the assertions of `fromGateway2LocalArch` | the same |
| Conditions | conditions have the value they mean, alone or after a malformed one; every text ends | up to 3 operators of 6, with all parentheses or the fewest that leave no doubt; all texts of up to 3 tokens of 9 kinds, alone and before a well-formed rule |
| Sessions | which agents are heard and when the master cannot start; exchange areas are in place in the master's first session | 34 networks of up to 3 hosts and 3 swarms, one port per host, 2 starts of the master and of the host that is followed |

Why the bounds are enough. Two agents and two tasks are what it takes for a task
to have a wrong owner, and for a task to be overtaken in the pool. Two messages
per socket let a request be behind another message and in front of one. One task
is enough for Pipeline, where each step concerns one: how several tasks mix is
in Dispatch and TaskStore, between which it is the link. The patience of 20 cycles and the 30 idle cycles become 0 or 1, which allows every
order of the timeouts and the answers; they only count. The two differ between
Dispatch and DispatchLinks, and Pipeline has both at 1, so that idling and
waiting happen as well as their ends. In Lifecycle the real
period (20) and iteration (99) become 2 and 1 (in LifecycleQuit 2 and 3): what
matters is that an iteration may send a survey, INIT, or neither, and that it
does not do both. Two components on one host are what it takes for one to end
the process under the other; with two faults one may be stuck and the other
killed, or both hosts killed. (A fourth component, with the faults, is some
millions of states more and nothing new: components of one host only meet in
the Synchronizer.) LifecycleQuit needs no fault. Three events are the least for the pattern A, B, A, which the
watcher does not recognise as a repetition. One failure shows each place where
an error path leaves a handler; properties that a second failure would change
say `failures = 0`. Three operators are the least in which one is between two
others; the six are one or two of each level and association, and the texts of
three tokens contain each pair that leaves something on a stack. The ten
ports of a host become one, so that two agents on a host are already too many;
three hosts are the least with one between two others. Processes share nothing,
so one host is followed; with two of its agents every interleaving of two
renames and two assignments occurs.

Deadlock is checked in the dispatch, where the timers never stop. The other
systems may stop: processes end, inputs and bounds run out. Pipeline may, too:
when the process of the Data Manager has ended, nobody reads its messages, and
the bound on them stops the rest.

Fairness. Threads run: weak fairness of each component's iteration, of the
watcher's thread, of the evaluator, of the main threads (their delays pass).
Connections come back, which nanomsg does by itself. A container ends, which is
assumed of the processors. Nothing is assumed of arrivals, of the HMI's request
to quit, of timers, of failures, of crashes or of connections breaking. In
Lifecycle, reading a command is fair as long as the component is in its loop,
which polls each of its channels in each iteration: a component that is stuck in
a handler never reads QUIT, and `QuitEndsHost` excepts a host with nobody else
left (`Hung`). In TaskStore, reading a message is fair as long as the Data
Manager runs, which nothing makes it do.

The three violations are disagreements of the code with what it says of itself,
the first of the `findings`: a survey (or INIT) sent in the place of QUIT; the
wait of `URLHandler::relocate`, whose timeout prevents it from ever ending; the
assertion on the outputs of a task that left too few files. Each is the only
property of its run.

Three findings have no run of their own, since the property of a passing run has
been stated so that it says what the code does instead:

* `RightValue` holds of the conditions whose parentheses leave no doubt. With
  `MayBeRight` in the place of `IsClearOnRight`, that is with the levels of the
  comments alone, TLC finds it violated, by conditions such as `a < a - a`.
* `AllRegistered` says that the products before the first one with the
  product_id of an earlier one are registered: the .json and the .log that the
  shipped processor writes always collide, and what follows is never registered.
* `RowIsCurrent` excepts the statuses that `task_status` does not have: a row
  can never say STOPPED.

Properties are stated with their exceptions where the code has them: `Stuck`
(an agent in a recv that no answer will end), `Hung` (a process whose last
notification was lost, or whose components are stuck), `late` (the wait beyond
the timeout), `failures`, `runs` (the Data Manager's process), `unmoved` and
"stranded" (a move that failed), "killed" (a host that the Event Manager goes on
to call OPERATIONAL), and in Sessions the master's first session. The exceptions
are states of the models that the runs reach.

What the models say of the code beyond the findings:

* `HeardIff`: the Task Manager hears the agents of the first host that has any,
  and never those of another one, which are created with the names of the first
  host's and look for channels they do not have.
* After a second start of the master, an exchange area may not be made: the
  agent's `workDir` is only rewritten from the session of its own process's
  start, and names a directory that was renamed. `mkdir` fails without notice.
* A thread that is delayed between the rename and the assignment of
  `PATHSession` may leave it naming a directory that is gone, for ever; each
  later rename then fails, and agents use the directory of the old session.
* `ViewErrsOnKilledOnly`: what the Event Manager tells of a component that has
  answered once is OPERATIONAL for ever, also when its host has been killed; a
  component that is stuck in a handler cannot be told from one that works.
* `OutputsRegistered`: a finished task whose outputs have a gap is never
  registered, for its report ends the master.

## 4. What is proved

Every safety property that a run checks, invariants, action property and the two
refinements, is a theorem of its module's specification, for all values of the
constants. All proofs rest on the `ASSUME` of the module
alone, which TLC evaluates in the runs: sets of names, agents, tasks and files
are finite, marks such as "none" are no names, bounds are numbers. Each proof
has an inductive invariant, one lemma per action or group of actions, and takes
the property from the invariant.

**TskDispatchProofs** (`TypeCorrect`, `OneOwner`, `CountersCorrect`). Three
layers, each inductive relative to the ones before.

1. `HoldInv`: the types; the tasks that messages, outstanding requests, unread
   answers and agents hold are registered for that agent; a started task has a
   container. None of these is inductive alone: a report is registered because
   the agent's running task was, that because the answer it took was, and that
   because TskMng registers what it sends. Types need it as well, since a report
   on no task would have no key.
2. `OwnerInv`: `SingleOwner`, and that what is in the pool or registered was
   scheduled, which is why scheduling a task cannot put it in the pool twice.
3. `CountersMatchRegistry`. Only two handlers touch the counters
   (`CountersFrame`); for these, one lemma (`CountersFollow`) says that if the
   registry changes at one key and the counters by `Change(key, s)`, they still
   count. It rests on what one element more or less does to a cardinality. That
   the registry's old status is never the default of `operator[]` is layer 1;
   that a given task is not registered yet is layer 2.

**TaskLifeProofs** builds on these (`ReportsRegistered`,
`DispatchImplementsTaskLife`, `OutcomesAreTrue`, `NoReportLost`,
`OnlyScheduledLags`). The refinement needs a fourth layer, `Story`: once an
agent has reported the end of a task, all that is in its socket about this task,
in whichever order, and what the registry says, is the same end; an agent that
is still processing has reported no end. TaskLife's step from an end to anything
else is thereby impossible, and each handler maps to a step or a stutter.
`Outcomes` says that each report on an end is true of the container, wherever it
is; `CatchesUp`, without broken connections, that the last report on the running
task is on its way or in the registry, since the message that cancels an
outstanding report was sent behind it.

The same module proves what comes out at the other end
(`PipelineImplementsTaskStore`, `TablesTellTheTruth`, `TablesKeepUp`). A step of
Pipeline is a step of the dispatch, so that all the above holds; a report that
is passed on is TaskStore's `Publish` or, if its end was known, `Repeat`
(`ReportPublishes`: the handler does not tell the two apart, `Story` does).
Hence Pipeline implements TaskStore, and the theorems of TaskStoreProofs are
used of it as an instance, with their assumption on the constants discharged. A
row's end is then the end in the registry, which is true of the container; and
if nothing broke or failed, a row is as far as the agent once nothing is on its
way.

**LifecycleProofs** (`LifecycleTypes`, `EndsAsked`, `ExitsAfterStop`,
`ViewErrs`). The place of a thread determines the state of its component; the
Event Manager has left its loop if and only if the HMI asked it to; so QUIT, and
whatever follows from it, comes after the request; until then no component
leaves its loop, and the state it answered remains true, unless its process is
killed; a kill ends no other process, and a thread that is stuck keeps its
state. A main thread is in its
wait only after the notification that starts the threads, which therefore
cannot end the process.

**TaskStoreProofs** (`TypesOfStore`, `RowsCatchUp`, `RowsAreNotAhead`,
`NoRowInvented`, `RegisteredWereMoved`, `RowEndsStay`). What is on its way to the Data Manager
is true of the task and stays so: an end on its way is the task's end, the last
report on a task says what was published last, a TSKSCHED on its way is the only
one of its task and finds no row. Behind an end in the queue there is nothing
but the same end (`EndsAreLast`), so that a row keeps it. Without failures, while
the process runs, a row only lags where the database does not know the status.

**TaskOutputsProofs** (`OutputTypes`, `DiesOfGaps`, `MovesFirst`,
`ProductsRegistered`). The array of outputs is made once, from a listing without
repetitions; whatever is in the gateway is in the array, so that when the first
loop has gone through, only what could not be moved is left there (`Passed`).
The rows are the product_ids of the elements that the second loop has passed,
which are all different (`Distinct`); it ends at the first that repeats one, or,
when a report comes again, at its first INSERT (`Stored`).

**IntakeProofs** (`TypesOfIntake`, `InputsAreArchived`, `DeathNeedsRepeats`,
`TasksArePaid`). A file leaves the inbox only after an event with its name was
read (`Traced`), so a stat fails only at a repetition that the watcher did not
skip. Tasks are paid for with events (`Balance`): what is in the catalogue pays
for the first task with these inputs, each repetition for one more, and the
events on their way to the Orchestrator are still to spend.

**ConditionsProofs** (`StackHasBottom`, `ConditionsRight`). There is an EOL at the
bottom of the stack of operators from the start of a rule, and no reduction
takes it: the evaluator never looks at the top of an empty stack, whatever texts
came before. That a well-formed condition, whose parentheses leave no doubt, gets
the value it means is shown in three steps.

1. While the evaluator reads an expression it has no choice: its state, as a
   record, has one successor (`After`). `LeadTo(f, U)` is the least set of
   states that contains U and whatever f takes into it.
2. For each part of a reading, by well-founded induction on its index in the
   list of parts: from any stacks on which the part may stand (under an operator
   of a lower level, or after a parenthesis), the evaluator arrives at the same
   stacks with the part's value on top. A part that is an atom, in parentheses,
   or an operation has a lemma each; the one on operations is where the levels
   and the sides on which operators associate are used, and where the rows that
   the code reads are compared with them (`Waits`, `IsApplied`).
3. The invariant of the machine: while a line with a reading is evaluated, its
   state is on the way to the one with the right value. What lies deeper in the
   stacks, left there by malformed texts, is never looked at. The proof leaves
   open what these leftovers are: of the powers among them the provers could
   not even show that they are integers.

**SessionsProofs** (`TypesOfSessions`, `ExchangeAreasInPlace`, `HeardAgents`).
Once the host's directory bears the master's session it keeps it; whoever leaves
`synchronizeSessionId`, by success or failure of the rename, has made it so or
finds it so; and only then is the exchange area made. For the network: the index
of an agent counts the agents before it, so that two agents of different
units never have one index; the names of hosts' agents count from each host's
first, and only those of the first host that has any are the ones the master
connects to; a later swarm on the same address takes the connection over.

## 5. What is only model-checked

* Liveness, in all modules (`PoolDrains`, `WaitingEnds`, `ProcessingEnds`,
  `StartReachesAll`, `MasterEnds`, `QuitEndsHost`, `OutputsRegistered`,
  `FirstArrivalArchived`, `RuleFires`, `EvaluationEnds`): temporal reasoning with
  fairness and `ENABLED` is out of reach of the installed provers.

No safety property is left to TLC alone. What the theorems of TaskLife and
TaskStore say of several tasks, the runs show for two.

## 6. Abstractions

* Messages are records with what a handler looks at; JSON, headers, SQL and
  names put together from parts are left out.
* A message of an agent reaches TskMng in order; nanomsg's buffers are bounded by
  `MaxUp` in the guards of the senders. A blocked send is not a separate state.
* The agent's report a second after the start of a container is one action with
  the start; the container may be in any state by then.
* Data races on plain memory (the watcher's queue, `procFmkInfo`, the log) are
  not modelled: they are listed as hazards, with that note. The exception is the
  assignment of `PATHSession`, which takes two steps in Sessions: in between it
  names nothing.
* Spurious wake-ups are left out.
* Sessions: two starts never have the same time tag; a task that the master sent
  before it crashed is not received after it; the agents of swarms only get INIT;
  of an exchange area, only the session it was made in and whether it was made.
* Conditions: the text of a token is its kind and value; integers do not
  overflow, but for the infinite power.
* Lifecycle: the Event Manager itself does not get stuck, and a killed host is
  not started again; in TaskStore the Data Manager is not. What a restart changes
  is in Sessions.
* TaskStore and Pipeline: the outputs of a task have one place together. Which
  of them are moved and registered is in TaskOutputs.
* Pipeline: TskOrc's message on a task is read by the Task Manager as soon as it
  is sent; the Data Manager may read it later. Whether the outputs of a finished
  task reach the gateway is decided when its end is first passed on.
* `sanitizeProductVersions` changes nothing in the models, because its query is
  not valid SQL.

## 7. Not modelled, and why

Log, alerts, host information, FITS and JSON readers, identifiers, strings: I/O
and helpers. Of the configuration, all but names, ports and session: a tree of
values read once. `json`, `mongoose`, `nn.hpp`: third-party. The HTTP server: a
demonstration. The Qt application: it shows what the database and the messages
say; its request to quit is an input of Lifecycle. Archiving at DSS/EAS: calls an
external program per product and reports alerts. Swarm agents create services
and are never asked to do anything else.

More than half of the lines under `src/` are of these parts (`json/`,
`mongoose/` and `qpfhmi/` above all); the models cover the framework (`fmk/`,
`nncomm/`, `qpf/`, `infix/`, `tools/dwatcher.cpp`, `tools/sm.cpp`), where the
state and the concurrency are.

## 8. Plan

Done: TskDispatch and TaskLife; Lifecycle; TaskStore and TaskOutputs; Pipeline;
Intake; Deployment and Sessions; Expressions and Conditions; the theorems of
section 4.

Next, models:

1. *Product versions*: `sanitizeProductVersions` and `incrMinorVersion`, as they
   would be with a valid query, and what they do to two outputs of one signature.
2. The copy of a task's inputs from the gateway to the exchange area
   (`fmk/tskage.cpp:298`), failing at any file.
3. The periodic framework information, and the log's buffers.

Next, proofs: that TaskOutputs, file by file, implements what TaskStore says of
the outputs of one task; that Intake's use of a rule's condition agrees with
what Conditions evaluates.
