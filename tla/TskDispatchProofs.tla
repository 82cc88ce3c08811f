------------------------- MODULE TskDispatchProofs -------------------------
(***************************************************************************)
(* Theorems about TskDispatch, for every set of agents and of tasks and    *)
(* every value of the bounds.                                              *)
(***************************************************************************)
EXTENDS TskDispatch, FiniteSetTheorems, TLAPS

-----------------------------------------------------------------------------
(* First layer: types, and which tasks messages and agents may hold.       *)

\* An answer on its way concerns a task registered for the agent.
RepliesAreRegistered ==
  \A a \in Agents : reply[a] # NoTask => Registered(<<a, reply[a]>>)

\* A task that an agent has started has a container.
StartedTasksHaveContainers ==
  \A a \in Agents :
    pStatus[a] \in {"PROCESSING", "FINISHING"} =>
      container[runningTask[a]] # "none"

HoldInv ==
  /\ TypeOK
  /\ ReportsAreRegistered
  /\ RepliesAreRegistered
  /\ StartedTasksHaveContainers

\* Every inspected state of a container stands for a status of the registry.
LEMMA StatusOfType ==
  \A d \in DockerState : StatusOf[d] \in TaskStatus
BY DEF StatusOf, TaskStatus, DockerState, DockerAlive, DockerEnded

\* Sending keeps the types of the socket's variables.
LEMMA SendType ==
  ASSUME TypeOK, NEW a \in Agents, NEW m \in Messages, Send(a, m)
  PROVE  /\ linked' \in [Agents -> BOOLEAN]
         /\ up' \in [Agents -> Seq(Messages)]
         /\ outstanding' \in [Agents -> Messages \cup {NoMsg}]
         /\ reply' \in [Agents -> Tasks \cup {NoTask}]
         /\ drops' \in Nat
BY DEF TypeOK, Send

\* The three kinds of message are told apart by their type.
LEMMA MessageKinds ==
  ASSUME NEW m \in Messages
  PROVE  /\ m.type = "TSKREP" => m \in Reports
         /\ m \in Reports => m.task \in Tasks /\ m.status \in TaskStatus
BY DEF Messages, Reports, TskRqst, HostMon

\* The absence of a message is no report.
LEMMA NoMsgKind ==
  NoMsg.type # "TSKREP"
BY DEF NoMsg

\* An outstanding report is about a task.
LEMMA OutstandingKind ==
  ASSUME TypeOK, NEW b \in Agents, outstanding[b].type = "TSKREP"
  PROVE  outstanding[b].task \in Tasks
<1>1. outstanding[b] \in Messages \cup {NoMsg}
  BY DEF TypeOK
<1>2. NoMsg.type = "none"
  BY DEF NoMsg
<1>3. outstanding[b] \in Messages
  BY <1>1, <1>2
<1>. QED
  BY <1>3, MessageKinds

\* A request, a host information and a report are messages.
LEMMA MessagesType ==
  /\ TskRqst \in Messages
  /\ HostMon \in Messages
  /\ \A t \in Tasks, s \in TaskStatus : TskRep(t, s) \in Messages
BY DEF Messages, Reports, TskRep

\* Receiving takes a message of the given type and leaves the rest.
LEMMA ReceiveType ==
  ASSUME TypeOK, NEW a \in Agents, NEW type, Receive(a, type)
  PROVE  /\ up' \in [Agents -> Seq(Messages)]
         /\ Head(up[a]) \in Messages
         /\ Head(up[a]).type = type
         /\ Len(up[a]) \in Nat /\ Len(up[a]) > 0
         /\ \A b \in Agents : b # a => up'[b] = up[b]
         /\ Len(up'[a]) = Len(up[a]) - 1
         /\ \A i \in 1 .. Len(up'[a]) : up'[a][i] = up[a][i + 1]
<1>1. up \in [Agents -> Seq(Messages)] /\ up[a] # <<>> /\ up' = [up EXCEPT ![a] = Tail(up[a])]
  BY DEF TypeOK, Receive
<1>2. Tail(up[a]) \in Seq(Messages) /\ Head(up[a]) \in Messages /\ Len(up[a]) \in Nat /\ Len(up[a]) > 0
      /\ Len(Tail(up[a])) = Len(up[a]) - 1
      /\ \A i \in 1 .. Len(Tail(up[a])) : Tail(up[a])[i] = up[a][i + 1]
  BY <1>1
<1>. QED
  BY <1>1, <1>2 DEF Receive

\* The initial state satisfies the first layer.
LEMMA HoldInit ==
  Init => HoldInv
<1>1. ASSUME Init PROVE TypeOK
  <2>1. "SCHEDULED" \in TaskStatus /\ \A s \in Shown : s \in TaskStatus
    BY DEF TaskStatus, Shown
  <2>. QED
    BY <1>1, <2>1 DEF Init, TypeOK, ProcStatus, Keys
<1>2. ASSUME Init
      PROVE  ReportsAreRegistered /\ RepliesAreRegistered /\ StartedTasksHaveContainers
  BY <1>2 DEF Init, ReportsAreRegistered, RepliesAreRegistered, StartedTasksHaveContainers, NoMsg
<1>. QED
  BY <1>1, <1>2 DEF HoldInv

\* Sending a message that is no report, or a report on a registered task,
\* keeps the reports registered.
LEMMA SendHolds ==
  ASSUME HoldInv, NEW a \in Agents, NEW m \in Messages, Send(a, m),
         m.type = "TSKREP" => Registered(<<a, m.task>>),
         UNCHANGED taskRegistry
  PROVE  /\ \A b \in Agents :
              /\ outstanding'[b].type = "TSKREP" =>
                   taskRegistry'[<<b, outstanding'[b].task>>] # "none"
              /\ \A i \in 1 .. Len(up'[b]) :
                   up'[b][i].type = "TSKREP" => taskRegistry'[<<b, up'[b][i].task>>] # "none"
         /\ RepliesAreRegistered'
<1>1. /\ up \in [Agents -> Seq(Messages)]
      /\ outstanding \in [Agents -> Messages \cup {NoMsg}]
      /\ reply \in [Agents -> Tasks \cup {NoTask}]
  BY DEF HoldInv, TypeOK
<1>2. \A b \in Agents : outstanding'[b] = IF b = a THEN m ELSE outstanding[b]
  BY <1>1 DEF Send
<1>3. \A b \in Agents : reply'[b] = IF b = a THEN NoTask ELSE reply[b]
  BY <1>1 DEF Send
<1>4. \A b \in Agents : up'[b] = up[b] \/ (b = a /\ up'[b] = Append(up[b], m))
  BY <1>1 DEF Send
<1>5. ASSUME NEW b \in Agents, NEW i \in 1 .. Len(up'[b]), up'[b][i].type = "TSKREP"
      PROVE  taskRegistry'[<<b, up'[b][i].task>>] # "none"
  <2>1. CASE up'[b] = up[b]
    BY <1>5, <2>1 DEF HoldInv, ReportsAreRegistered, Registered
  <2>2. CASE b = a /\ up'[b] = Append(up[b], m)
    <3>1. up[b] \in Seq(Messages) /\ Len(up[b]) \in Nat
      BY <1>1
    <3>4. Len(up'[b]) = Len(up[b]) + 1
      BY <2>2, <3>1
    <3>2. CASE i \in 1 .. Len(up[b])
      <4>1. up'[b][i] = up[b][i]
        BY <2>2, <3>1, <3>2
      <4>. QED
        BY <1>5, <3>2, <4>1 DEF HoldInv, ReportsAreRegistered, Registered
    <3>3. CASE i = Len(up[b]) + 1
      <4>1. up'[b][i] = m
        BY <2>2, <3>1, <3>3
      <4>. QED
        BY <1>5, <2>2, <4>1 DEF Registered
    <3>. QED
      BY <3>1, <3>2, <3>3, <3>4
  <2>. QED
    BY <1>4, <2>1, <2>2
<1>6. ASSUME NEW b \in Agents, outstanding'[b].type = "TSKREP"
      PROVE  taskRegistry'[<<b, outstanding'[b].task>>] # "none"
  BY <1>2, <1>6 DEF HoldInv, ReportsAreRegistered, Registered
<1>7. RepliesAreRegistered'
  BY <1>3 DEF HoldInv, RepliesAreRegistered, Registered
<1>. QED
  BY <1>5, <1>6, <1>7

\* What TskMng leaves in the connection after it received from it is what
\* was there: reports on registered tasks stay so while the registry grows.
LEMMA ReceiveHolds ==
  ASSUME HoldInv, NEW a \in Agents, NEW type, Receive(a, type),
         \A k \in Keys : Registered(k) => taskRegistry'[k] # "none"
  PROVE  \A b \in Agents : \A i \in 1 .. Len(up'[b]) :
           up'[b][i].type = "TSKREP" => taskRegistry'[<<b, up'[b][i].task>>] # "none"
<1>. SUFFICES ASSUME NEW b \in Agents, NEW i \in 1 .. Len(up'[b]),
                     up'[b][i].type = "TSKREP"
              PROVE  taskRegistry'[<<b, up'[b][i].task>>] # "none"
  OBVIOUS
<1>1. up \in [Agents -> Seq(Messages)] /\ up' \in [Agents -> Seq(Messages)]
  BY ReceiveType DEF HoldInv, TypeOK
<1>2. \E j \in 1 .. Len(up[b]) : up'[b][i] = up[b][j]
  <2>1. CASE b = a
    <3>1. i + 1 \in 1 .. Len(up[a]) /\ up'[a][i] = up[a][i + 1]
      BY <1>1, <2>1, ReceiveType DEF HoldInv
    <3>. QED
      BY <2>1, <3>1
  <2>2. CASE b # a
    BY <2>2, ReceiveType DEF HoldInv
  <2>. QED
    BY <2>1, <2>2
<1>3. PICK j \in 1 .. Len(up[b]) : up'[b][i] = up[b][j]
  BY <1>2
<1>4. Registered(<<b, up[b][j].task>>)
  BY <1>3 DEF HoldInv, ReportsAreRegistered
<1>5. up[b][j] \in Messages
  BY <1>1
<1>6. <<b, up[b][j].task>> \in Keys
  BY <1>3, <1>5, MessageKinds DEF Keys
<1>. QED
  BY <1>3, <1>4, <1>6

\* The Task Manager's steps preserve the first layer.
LEMMA HoldMngStep ==
  ASSUME HoldInv, NEW a \in Agents, MngStep(a)
  PROVE  HoldInv'
<1>. USE DEF HoldInv
<1>1. CASE ProcessTskRqstNoTask(a) \/ ProcessHostMonMsg(a)
  <2>1. PICK type \in {"TSKRQST", "HOSTMON"} : Receive(a, type)
    BY <1>1 DEF ProcessTskRqstNoTask, ProcessHostMonMsg
  <2>2. UNCHANGED <<mngVars, agnVars, linked, outstanding, reply, drops, container, scheduled>>
    BY <1>1 DEF ProcessTskRqstNoTask, ProcessHostMonMsg
  <2>3. TypeOK'
    BY <2>1, <2>2, ReceiveType DEF TypeOK, mngVars, agnVars
  <2>4. \A b \in Agents : \A i \in 1 .. Len(up'[b]) :
           up'[b][i].type = "TSKREP" => taskRegistry'[<<b, up'[b][i].task>>] # "none"
    BY <2>1, <2>2, ReceiveHolds DEF mngVars, Registered
  <2>5. ReportsAreRegistered' /\ RepliesAreRegistered' /\ StartedTasksHaveContainers'
    BY <2>2, <2>4 DEF ReportsAreRegistered, RepliesAreRegistered, StartedTasksHaveContainers,
                      Registered, mngVars, agnVars
  <2>. QED
    BY <2>3, <2>5
<1>2. CASE ProcessTskRqstMsg(a)
  <2>. DEFINE t == Head(containerTasks)
  <2>1. /\ Receive(a, "TSKRQST")
        /\ t \in Tasks /\ Tail(containerTasks) \in Seq(Tasks)
        /\ "SCHEDULED" \in TaskStatus
        /\ <<a, t>> \in Keys
    <3>1. Receive(a, "TSKRQST") /\ containerTasks # <<>> /\ containerTasks \in Seq(Tasks)
      BY <1>2 DEF ProcessTskRqstMsg, PopTask, Register, TypeOK
    <3>2. t \in Tasks /\ Tail(containerTasks) \in Seq(Tasks)
      BY <3>1
    <3>. QED
      BY <3>1, <3>2 DEF TaskStatus, Keys
  <2>2. taskRegistry' = [taskRegistry EXCEPT ![<<a, t>>] = "SCHEDULED"]
    BY <1>2 DEF ProcessTskRqstMsg, PopTask, Register
  <2>3. \A k \in Keys : taskRegistry'[k] = IF k = <<a, t>> THEN "SCHEDULED" ELSE taskRegistry[k]
    BY <2>2 DEF TypeOK
  <2>4. TypeOK'
    <3>1. /\ up' \in [Agents -> Seq(Messages)]
          /\ taskRegistry' \in [Keys -> TaskStatus \cup {"none"}]
          /\ containerTasks' \in Seq(Tasks)
      BY <1>2, <2>1, <2>2, ReceiveType DEF ProcessTskRqstMsg, PopTask, Register, TypeOK
    <3>2. /\ containerTaskStatus' \in [TaskStatus -> Int]
          /\ containerTaskStatusPerAgent' \in [Agents -> [TaskStatus -> Int]]
      BY <1>2, <2>1 DEF ProcessTskRqstMsg, PopTask, Register, TypeOK
    <3>3. reply' \in [Agents -> Tasks \cup {NoTask}]
      BY <1>2, <2>1 DEF ProcessTskRqstMsg, PopTask, Register, TypeOK
    <3>. QED
      BY <1>2, <3>1, <3>2, <3>3 DEF ProcessTskRqstMsg, PopTask, Register, TypeOK, agnVars
  <2>5. \A b \in Agents : \A i \in 1 .. Len(up'[b]) :
           up'[b][i].type = "TSKREP" => taskRegistry'[<<b, up'[b][i].task>>] # "none"
    BY <2>1, <2>3, ReceiveHolds DEF Registered
  <2>6. ASSUME NEW b \in Agents
        PROVE  /\ pStatus'[b] \in {"PROCESSING", "FINISHING"} =>
                    runningTask'[b] \in Tasks /\ taskRegistry'[<<b, runningTask'[b]>>] # "none"
               /\ outstanding'[b].type = "TSKREP" =>
                    taskRegistry'[<<b, outstanding'[b].task>>] # "none"
    <3>1. outstanding[b].type = "TSKREP" => outstanding[b].task \in Tasks
      BY OutstandingKind
    <3>. QED
      BY <1>2, <2>3, <3>1 DEF ProcessTskRqstMsg, PopTask, Register, agnVars, ReportsAreRegistered, Registered, Keys
  <2>7. RepliesAreRegistered'
    BY <1>2, <2>1, <2>3 DEF ProcessTskRqstMsg, PopTask, Register, RepliesAreRegistered, Registered, Keys, TypeOK
  <2>8. StartedTasksHaveContainers'
    BY <1>2 DEF ProcessTskRqstMsg, PopTask, Register, StartedTasksHaveContainers, agnVars
  <2>. QED
    BY <2>4, <2>5, <2>6, <2>7, <2>8 DEF ReportsAreRegistered, Registered
<1>3. CASE ProcessTskRepMsg(a)
  <2>. DEFINE m   == Head(up[a])
              key == <<a, m.task>>
              old == OldStatus(key)
  <2>1. /\ Receive(a, "TSKREP")
        /\ m.task \in Tasks /\ m.status \in TaskStatus
        /\ key \in Keys
    BY <1>3, ReceiveType, MessageKinds DEF ProcessTskRepMsg, Keys
  <2>2. old \in TaskStatus
    BY <2>1 DEF OldStatus, TypeOK, TaskStatus, DefaultStatus
  <2>3. taskRegistry' = [taskRegistry EXCEPT ![key] = m.status]
    BY <1>3 DEF ProcessTskRepMsg
  <2>4. \A k \in Keys : taskRegistry'[k] = IF k = key THEN m.status ELSE taskRegistry[k]
    BY <2>1, <2>3 DEF TypeOK
  <2>5. m.status # "none"
    BY <2>1 DEF TaskStatus
  <2>6. TypeOK'
    <3>1. /\ up' \in [Agents -> Seq(Messages)]
          /\ taskRegistry' \in [Keys -> TaskStatus \cup {"none"}]
      BY <2>1, <2>3, ReceiveType DEF TypeOK
    <3>2. \A c \in [TaskStatus -> Int] : Recount(c, old, m.status) \in [TaskStatus -> Int]
      BY <2>1, <2>2 DEF Recount
    <3>3. containerTaskStatus' \in [TaskStatus -> Int]
      <4>1. \/ containerTaskStatus' = Recount(containerTaskStatus, old, m.status)
            \/ containerTaskStatus' = containerTaskStatus
        BY <1>3 DEF ProcessTskRepMsg
      <4>. QED
        BY <3>2, <4>1 DEF TypeOK
    <3>4. containerTaskStatusPerAgent' \in [Agents -> [TaskStatus -> Int]]
      <4>1. \/ containerTaskStatusPerAgent' =
                 [containerTaskStatusPerAgent EXCEPT
                    ![a] = Recount(containerTaskStatusPerAgent[a], old, m.status)]
            \/ containerTaskStatusPerAgent' = containerTaskStatusPerAgent
        BY <1>3 DEF ProcessTskRepMsg
      <4>2. Recount(containerTaskStatusPerAgent[a], old, m.status) \in [TaskStatus -> Int]
        BY <3>2 DEF TypeOK
      <4>. QED
        BY <4>1, <4>2 DEF TypeOK
    <3>5. spectra' \in [Agents -> [Shown -> Int]]
      <4>1. \/ spectra' = [spectra EXCEPT
                             ![a] = Spectrum(containerTaskStatusPerAgent'[a])]
            \/ spectra' = spectra
        BY <1>3 DEF ProcessTskRepMsg
      <4>2. Spectrum(containerTaskStatusPerAgent'[a]) \in [Shown -> Int]
        BY <3>4 DEF Shown, Spectrum
      <4>. QED
        BY <4>1, <4>2 DEF TypeOK
    <3>. QED
      BY <1>3, <3>1, <3>3, <3>4, <3>5 DEF ProcessTskRepMsg, TypeOK, agnVars
  <2>7. \A b \in Agents : \A i \in 1 .. Len(up'[b]) :
           up'[b][i].type = "TSKREP" => taskRegistry'[<<b, up'[b][i].task>>] # "none"
    BY <2>1, <2>4, <2>5, ReceiveHolds DEF Registered
  <2>8. ASSUME NEW b \in Agents
        PROVE  /\ pStatus'[b] \in {"PROCESSING", "FINISHING"} =>
                    runningTask'[b] \in Tasks /\ taskRegistry'[<<b, runningTask'[b]>>] # "none"
               /\ outstanding'[b].type = "TSKREP" =>
                    taskRegistry'[<<b, outstanding'[b].task>>] # "none"
    <3>1. outstanding[b].type = "TSKREP" => outstanding[b].task \in Tasks
      BY OutstandingKind
    <3>. QED
      BY <1>3, <2>4, <2>5, <3>1
      DEF ProcessTskRepMsg, agnVars, ReportsAreRegistered, Registered, Keys
  <2>9. RepliesAreRegistered' /\ StartedTasksHaveContainers'
    BY <1>3, <2>4, <2>5
    DEF ProcessTskRepMsg, RepliesAreRegistered, StartedTasksHaveContainers, agnVars, Registered,
        Keys, TypeOK
  <2>. QED
    BY <2>6, <2>7, <2>8, <2>9 DEF ReportsAreRegistered, Registered
<1>. QED
  BY <1>1, <1>2, <1>3 DEF MngStep

\* A report that the agent's loop sends is on a task registered for it.
LEMMA HoldReport ==
  ASSUME HoldInv, NEW a \in Agents, NEW t \in Tasks, NEW d \in DockerState,
         Report(a, t, d), Registered(<<a, t>>), UNCHANGED taskRegistry
  PROVE  /\ Send(a, TskRep(t, StatusOf[d])) /\ TskRep(t, StatusOf[d]) \in Messages
         /\ pStatus' \in [Agents -> ProcStatus]
         /\ \A b \in Agents \ {a} : pStatus'[b] = pStatus[b]
         /\ \A b \in Agents :
              /\ outstanding'[b].type = "TSKREP" =>
                   taskRegistry'[<<b, outstanding'[b].task>>] # "none"
              /\ \A i \in 1 .. Len(up'[b]) :
                   up'[b][i].type = "TSKREP" => taskRegistry'[<<b, up'[b][i].task>>] # "none"
         /\ RepliesAreRegistered'
<1>. DEFINE m == TskRep(t, StatusOf[d])
<1>1. m \in Messages /\ m.task = t
  BY StatusOfType, MessagesType DEF TskRep
<1>2. Send(a, m)
  BY DEF Report
<1>3. pStatus' \in [Agents -> ProcStatus] /\ \A b \in Agents \ {a} : pStatus'[b] = pStatus[b]
  BY DEF Report, HoldInv, TypeOK, ProcStatus
<1>. HIDE DEF m
<1>4. m.type = "TSKREP" => Registered(<<a, m.task>>)
  BY <1>1
<1>5. /\ \A b \in Agents :
           /\ outstanding'[b].type = "TSKREP" =>
                taskRegistry'[<<b, outstanding'[b].task>>] # "none"
           /\ \A i \in 1 .. Len(up'[b]) :
                up'[b][i].type = "TSKREP" => taskRegistry'[<<b, up'[b][i].task>>] # "none"
      /\ RepliesAreRegistered'
  BY <1>1, <1>2, <1>4, SendHolds
<1>. QED
  BY <1>1, <1>2, <1>3, <1>5 DEF m

\* The steps of an agent's loop preserve the first layer.
LEMMA HoldAgentStep ==
  ASSUME HoldInv, NEW a \in Agents, AgentStep(a)
  PROVE  HoldInv'
<1>. USE DEF HoldInv
<1>1. CASE SeeReply(a)
  BY <1>1 DEF SeeReply, TypeOK, ReportsAreRegistered, RepliesAreRegistered,
              StartedTasksHaveContainers, Registered, mngVars, sockVars
<1>2. CASE IgnoreTask(a)
  <2>1. TypeOK'
    BY <1>2 DEF IgnoreTask, TakeReply, TypeOK, mngVars
  <2>2. \A b \in Agents : outstanding'[b] = IF b = a THEN NoMsg ELSE outstanding[b]
    BY <1>2 DEF IgnoreTask, TypeOK
  <2>3. ReportsAreRegistered'
    <3>1. UNCHANGED <<taskRegistry, pStatus, runningTask, up>>
      BY <1>2 DEF IgnoreTask, mngVars
    <3>. QED
      BY <2>2, <3>1, NoMsgKind DEF ReportsAreRegistered, Registered
  <2>4. RepliesAreRegistered' /\ StartedTasksHaveContainers'
    BY <1>2 DEF IgnoreTask, TypeOK, RepliesAreRegistered, StartedTasksHaveContainers, Registered,
                mngVars
  <2>. QED
    BY <2>1, <2>3, <2>4
<1>3. CASE StartTask(a)
  <2>1. reply[a] \in Tasks /\ Registered(<<a, reply[a]>>)
    BY <1>3 DEF StartTask, TakeReply, TypeOK, RepliesAreRegistered
  <2>2. PICK d \in DockerState :
          container' = [container EXCEPT ![reply[a]] = d] /\ Report(a, reply[a], d)
    BY <1>3 DEF StartTask
  <2>3. UNCHANGED taskRegistry
    BY <1>3 DEF StartTask, mngVars
  <2>4. TypeOK'
    <3>1. container' \in [Tasks -> DockerState \cup {"none"}]
      BY <2>1, <2>2 DEF TypeOK
    <3>2. runningTask' \in [Agents -> Tasks \cup {NoTask}] /\ loop' \in [Agents -> {"poll", "recv"}]
      BY <1>3, <2>1 DEF StartTask, TakeReply, TypeOK
    <3>3. /\ linked' \in [Agents -> BOOLEAN]
          /\ up' \in [Agents -> Seq(Messages)]
          /\ outstanding' \in [Agents -> Messages \cup {NoMsg}]
          /\ reply' \in [Agents -> Tasks \cup {NoTask}]
          /\ drops' \in Nat
          /\ pStatus' \in [Agents -> ProcStatus]
      BY <2>1, <2>2, <2>3, HoldReport, SendType
    <3>. QED
      BY <1>3, <3>1, <3>2, <3>3 DEF StartTask, TypeOK, mngVars
  <2>5. \A b \in Agents : runningTask'[b] = IF b = a THEN reply[a] ELSE runningTask[b]
    BY <1>3 DEF StartTask, TypeOK
  <2>6. \A t \in Tasks : container[t] # "none" => container'[t] # "none"
    BY <2>1, <2>2 DEF TypeOK, DockerState, DockerAlive, DockerEnded
  <2>7. container'[reply[a]] # "none"
    BY <2>1, <2>2 DEF TypeOK, DockerState, DockerAlive, DockerEnded
  <2>8. \A b \in Agents : pStatus'[b] \in {"PROCESSING", "FINISHING"} =>
          /\ runningTask'[b] \in Tasks
          /\ taskRegistry'[<<b, runningTask'[b]>>] # "none"
          /\ container'[runningTask'[b]] # "none"
    <3>1. \A b \in Agents \ {a} : pStatus'[b] = pStatus[b]
      BY <2>1, <2>2, <2>3, HoldReport
    <3>. QED
      BY <2>1, <2>3, <2>5, <2>6, <2>7, <3>1
      DEF ReportsAreRegistered, StartedTasksHaveContainers, Registered
  <2>9. ReportsAreRegistered' /\ RepliesAreRegistered'
    BY <2>1, <2>2, <2>3, <2>8, HoldReport DEF ReportsAreRegistered, Registered
  <2>. QED
    BY <2>4, <2>8, <2>9 DEF StartedTasksHaveContainers
<1>4. CASE FailToStartTask(a)
  <2>1. reply[a] \in Tasks
    BY <1>4 DEF FailToStartTask, TakeReply, TypeOK
  <2>2. TypeOK'
    BY <1>4, <2>1 DEF FailToStartTask, TakeReply, TypeOK, mngVars
  <2>3. \A b \in Agents : outstanding'[b] = IF b = a THEN NoMsg ELSE outstanding[b]
    BY <1>4 DEF FailToStartTask, TypeOK
  <2>4. \A b \in Agents : pStatus[b] \in {"PROCESSING", "FINISHING"} =>
                            b # a /\ runningTask'[b] = runningTask[b]
    BY <1>4 DEF FailToStartTask, TypeOK
  <2>5. ReportsAreRegistered'
    <3>1. UNCHANGED <<taskRegistry, pStatus, up>>
      BY <1>4 DEF FailToStartTask, mngVars
    <3>. QED
      BY <2>3, <2>4, <3>1, NoMsgKind DEF ReportsAreRegistered, Registered
  <2>6. RepliesAreRegistered' /\ StartedTasksHaveContainers'
    BY <1>4, <2>4 DEF FailToStartTask, TypeOK, RepliesAreRegistered, StartedTasksHaveContainers,
                      Registered, mngVars
  <2>. QED
    BY <2>2, <2>5, <2>6
<1>5. CASE StayIdle(a) \/ KeepWaiting(a) \/ StopWaiting(a)
  <2>1. TypeOK'
    <3>1. /\ idleCycles' \in [Agents -> Nat]
          /\ waitingCycles' \in [Agents -> Nat]
          /\ pStatus' \in [Agents -> ProcStatus]
      <4>1. CASE StayIdle(a)
        BY <4>1 DEF StayIdle, TypeOK
      <4>2. CASE KeepWaiting(a)
        BY <4>2 DEF KeepWaiting, TypeOK
      <4>3. CASE StopWaiting(a)
        BY <4>3 DEF StopWaiting, TypeOK, ProcStatus
      <4>. QED
        BY <1>5, <4>1, <4>2, <4>3
    <3>. QED
      BY <1>5, <3>1 DEF StayIdle, KeepWaiting, StopWaiting, TypeOK, mngVars, sockVars
  <2>2. \A b \in Agents : pStatus'[b] \in {"PROCESSING", "FINISHING"} => pStatus'[b] = pStatus[b]
    BY <1>5 DEF StayIdle, KeepWaiting, StopWaiting, TypeOK
  <2>. QED
    BY <1>5, <2>1, <2>2
    DEF StayIdle, KeepWaiting, StopWaiting, ReportsAreRegistered, RepliesAreRegistered,
        StartedTasksHaveContainers, Registered, mngVars, sockVars
<1>6. CASE RequestTask(a)
  <2>1. Send(a, TskRqst) /\ TskRqst \in Messages /\ TskRqst.type # "TSKREP"
    BY <1>6, MessagesType DEF RequestTask, TskRqst
  <2>2. TypeOK'
    <3>1. /\ linked' \in [Agents -> BOOLEAN]
          /\ up' \in [Agents -> Seq(Messages)]
          /\ outstanding' \in [Agents -> Messages \cup {NoMsg}]
          /\ reply' \in [Agents -> Tasks \cup {NoTask}]
          /\ drops' \in Nat
      BY <2>1, SendType
    <3>2. /\ idleCycles' \in [Agents -> Nat]
          /\ waitingCycles' \in [Agents -> Nat]
          /\ pStatus' \in [Agents -> ProcStatus]
      BY <1>6 DEF RequestTask, TypeOK, ProcStatus
    <3>. QED
      BY <1>6, <3>1, <3>2 DEF RequestTask, TypeOK, mngVars
  <2>3. /\ \A b \in Agents :
             /\ outstanding'[b].type = "TSKREP" =>
                  taskRegistry'[<<b, outstanding'[b].task>>] # "none"
             /\ \A i \in 1 .. Len(up'[b]) :
                  up'[b][i].type = "TSKREP" => taskRegistry'[<<b, up'[b][i].task>>] # "none"
        /\ RepliesAreRegistered'
    <3>1. UNCHANGED taskRegistry
      BY <1>6 DEF RequestTask, mngVars
    <3>. QED
      BY <2>1, <3>1, SendHolds
  <2>4. \A b \in Agents : pStatus'[b] \in {"PROCESSING", "FINISHING"} => pStatus'[b] = pStatus[b]
    BY <1>6 DEF RequestTask, TypeOK
  <2>. QED
    BY <1>6, <2>2, <2>3, <2>4
    DEF RequestTask, ReportsAreRegistered, StartedTasksHaveContainers, Registered, mngVars
<1>7. CASE ReportTask(a)
  <2>. DEFINE t == runningTask[a]
  <2>1. t \in Tasks /\ Registered(<<a, t>>) /\ container[t] \in DockerState
    BY <1>7 DEF ReportTask, Iterating, TypeOK, ReportsAreRegistered, StartedTasksHaveContainers
  <2>2. Report(a, t, container[t]) /\ UNCHANGED taskRegistry
    BY <1>7 DEF ReportTask, mngVars
  <2>3. TypeOK'
    <3>1. /\ linked' \in [Agents -> BOOLEAN]
          /\ up' \in [Agents -> Seq(Messages)]
          /\ outstanding' \in [Agents -> Messages \cup {NoMsg}]
          /\ reply' \in [Agents -> Tasks \cup {NoTask}]
          /\ drops' \in Nat
          /\ pStatus' \in [Agents -> ProcStatus]
      BY <2>1, <2>2, HoldReport, SendType
    <3>. QED
      BY <1>7, <3>1 DEF ReportTask, TypeOK, mngVars
  <2>4. \A b \in Agents : pStatus'[b] \in {"PROCESSING", "FINISHING"} =>
                            pStatus[b] \in {"PROCESSING", "FINISHING"}
    <3>1. pStatus[a] = "PROCESSING" /\ \A b \in Agents \ {a} : pStatus'[b] = pStatus[b]
      BY <1>7, <2>1, <2>2, HoldReport DEF ReportTask, Iterating
    <3>. QED
      BY <3>1
  <2>5. /\ \A b \in Agents :
             /\ outstanding'[b].type = "TSKREP" =>
                  taskRegistry'[<<b, outstanding'[b].task>>] # "none"
             /\ \A i \in 1 .. Len(up'[b]) :
                  up'[b][i].type = "TSKREP" => taskRegistry'[<<b, up'[b][i].task>>] # "none"
        /\ RepliesAreRegistered'
    BY <2>1, <2>2, HoldReport
  <2>. QED
    BY <1>7, <2>2, <2>3, <2>4, <2>5
    DEF ReportTask, ReportsAreRegistered, StartedTasksHaveContainers, Registered
<1>8. CASE FinishTask(a)
  <2>1. TypeOK'
    BY <1>8 DEF FinishTask, TypeOK, ProcStatus, mngVars, sockVars
  <2>2. \A b \in Agents : pStatus'[b] \in {"PROCESSING", "FINISHING"} =>
                            pStatus'[b] = pStatus[b] /\ runningTask'[b] = runningTask[b]
    BY <1>8 DEF FinishTask, TypeOK
  <2>. QED
    BY <1>8, <2>1, <2>2
    DEF FinishTask, ReportsAreRegistered, RepliesAreRegistered, StartedTasksHaveContainers,
        Registered, mngVars, sockVars
<1>. QED
  BY <1>1, <1>2, <1>3, <1>4, <1>5, <1>6, <1>7, <1>8 DEF AgentStep

\* Scheduling and the containers' own steps preserve the first layer.
LEMMA HoldTaskStep ==
  ASSUME HoldInv, NEW t \in Tasks,
         ProcessTskSchedMsg(t) \/ ContainerChanges(t) \/ ContainerEnds(t)
  PROVE  HoldInv'
<1>. USE DEF HoldInv
<1>1. CASE ProcessTskSchedMsg(t)
  BY <1>1 DEF ProcessTskSchedMsg, TypeOK, ReportsAreRegistered, RepliesAreRegistered,
              StartedTasksHaveContainers, Registered, agnVars, sockVars
<1>2. CASE ContainerChanges(t) \/ ContainerEnds(t)
  <2>1. PICK d \in DockerState : container' = [container EXCEPT ![t] = d]
    BY <1>2 DEF ContainerChanges, ContainerEnds, DockerState, DockerAlive, DockerEnded, DockerNext
  <2>2. UNCHANGED <<mngVars, agnVars, sockVars, scheduled>>
    BY <1>2 DEF ContainerChanges, ContainerEnds
  <2>3. d # "none"
    BY DEF DockerState, DockerAlive, DockerEnded
  <2>. QED
    BY <2>1, <2>2, <2>3
    DEF TypeOK, ReportsAreRegistered, RepliesAreRegistered, StartedTasksHaveContainers,
        Registered, mngVars, agnVars, sockVars
<1>. QED
  BY <1>1, <1>2

\* The timer thread and the connection of an agent preserve the first layer.
LEMMA HoldLinkStep ==
  ASSUME HoldInv, NEW a \in Agents,
         SendHostInfoUpdate(a) \/ Disconnect(a) \/ Reconnect(a)
  PROVE  HoldInv'
<1>. USE DEF HoldInv
<1>1. CASE SendHostInfoUpdate(a)
  <2>1. Send(a, HostMon) /\ HostMon \in Messages /\ HostMon.type # "TSKREP"
    BY <1>1, MessagesType DEF SendHostInfoUpdate, HostMon
  <2>2. TypeOK'
    <3>1. /\ linked' \in [Agents -> BOOLEAN]
          /\ up' \in [Agents -> Seq(Messages)]
          /\ outstanding' \in [Agents -> Messages \cup {NoMsg}]
          /\ reply' \in [Agents -> Tasks \cup {NoTask}]
          /\ drops' \in Nat
      BY <2>1, SendType
    <3>. QED
      BY <1>1, <3>1 DEF SendHostInfoUpdate, TypeOK, mngVars, agnVars
  <2>3. /\ \A b \in Agents :
             /\ outstanding'[b].type = "TSKREP" =>
                  taskRegistry'[<<b, outstanding'[b].task>>] # "none"
             /\ \A i \in 1 .. Len(up'[b]) :
                  up'[b][i].type = "TSKREP" => taskRegistry'[<<b, up'[b][i].task>>] # "none"
        /\ RepliesAreRegistered'
    <3>1. UNCHANGED taskRegistry
      BY <1>1 DEF SendHostInfoUpdate, mngVars
    <3>. QED
      BY <2>1, <3>1, SendHolds
  <2>. QED
    BY <1>1, <2>2, <2>3
    DEF SendHostInfoUpdate, ReportsAreRegistered, StartedTasksHaveContainers, Registered,
        mngVars, agnVars
<1>2. CASE Disconnect(a)
  <2>1. TypeOK'
    <3>1. /\ linked' \in [Agents -> BOOLEAN]
          /\ up' \in [Agents -> Seq(Messages)]
          /\ drops' \in Nat
      BY <1>2 DEF Disconnect, TypeOK
    <3>2. /\ outstanding' \in [Agents -> Messages \cup {NoMsg}]
          /\ reply' \in [Agents -> Tasks \cup {NoTask}]
      BY <1>2 DEF Disconnect, TypeOK
    <3>. QED
      BY <1>2, <3>1, <3>2 DEF Disconnect, TypeOK, mngVars, agnVars
  <2>2. /\ \A b \in Agents : up'[b] = IF b = a THEN <<>> ELSE up[b]
        /\ \A b \in Agents : outstanding'[b] \in {NoMsg, outstanding[b]}
        /\ \A b \in Agents : reply'[b] \in {NoTask, reply[b]}
    BY <1>2 DEF Disconnect, TypeOK
  <2>3. UNCHANGED <<taskRegistry, pStatus, runningTask, container>>
    BY <1>2 DEF Disconnect, mngVars, agnVars
  <2>4. ReportsAreRegistered'
    <3>1. \A b \in Agents : \A i \in 1 .. Len(up'[b]) : up'[b] = up[b]
      BY <2>2
    <3>2. \A b \in Agents : outstanding'[b].type = "TSKREP" => outstanding'[b] = outstanding[b]
      BY <2>2, NoMsgKind
    <3>3. ASSUME NEW b \in Agents, NEW i \in 1 .. Len(up'[b]), up'[b][i].type = "TSKREP"
          PROVE  taskRegistry'[<<b, up'[b][i].task>>] # "none"
      <4>1. up'[b] = up[b]
        BY <3>1, <3>3
      <4>2. i \in 1 .. Len(up[b]) /\ up[b][i].type = "TSKREP"
        BY <3>3, <4>1
      <4>. QED
        BY <2>3, <4>1, <4>2 DEF ReportsAreRegistered, Registered
    <3>4. \A b \in Agents :
            /\ outstanding'[b].type = "TSKREP" =>
                 taskRegistry'[<<b, outstanding'[b].task>>] # "none"
            /\ pStatus'[b] \in {"PROCESSING", "FINISHING"} =>
                 runningTask'[b] \in Tasks /\ taskRegistry'[<<b, runningTask'[b]>>] # "none"
      BY <2>3, <3>2 DEF ReportsAreRegistered, Registered
    <3>. QED
      BY <3>3, <3>4 DEF ReportsAreRegistered, Registered
  <2>. QED
    BY <2>1, <2>2, <2>3, <2>4 DEF RepliesAreRegistered, StartedTasksHaveContainers, Registered
<1>3. CASE Reconnect(a)
  <2>1. outstanding[a] # NoMsg => <<outstanding[a]>> \in Seq(Messages)
    BY DEF TypeOK
  <2>2. TypeOK'
    BY <1>3, <2>1 DEF Reconnect, TypeOK, mngVars, agnVars
  <2>3. \A b \in Agents : up'[b] \in {<<>>, <<outstanding[b]>>, up[b]}
    BY <1>3 DEF Reconnect, TypeOK
  <2>4. ASSUME NEW b \in Agents, NEW i \in 1 .. Len(up'[b]), up'[b][i].type = "TSKREP"
        PROVE  Registered(<<b, up'[b][i].task>>)
    <3>1. CASE up'[b] = <<outstanding[b]>>
      <4>1. up'[b][i] = outstanding[b]
        BY <3>1
      <4>. QED
        BY <2>4, <4>1 DEF ReportsAreRegistered
    <3>2. CASE up'[b] = up[b]
      BY <2>4, <3>2 DEF ReportsAreRegistered
    <3>3. CASE up'[b] = <<>>
      BY <3>3
    <3>. QED
      BY <2>3, <3>1, <3>2, <3>3
  <2>. QED
    BY <1>3, <2>2, <2>4
    DEF Reconnect, ReportsAreRegistered, RepliesAreRegistered, StartedTasksHaveContainers,
        Registered, mngVars, agnVars
<1>. QED
  BY <1>1, <1>2, <1>3

\* Every step preserves the first layer.
LEMMA HoldNext ==
  HoldInv /\ [Next]_vars => HoldInv'
<1>. SUFFICES ASSUME HoldInv, [Next]_vars
              PROVE  HoldInv'
  OBVIOUS
<1>1. ASSUME NEW t \in Tasks, ProcessTskSchedMsg(t) \/ ContainerChanges(t) \/ ContainerEnds(t)
      PROVE  HoldInv'
  BY <1>1, HoldTaskStep
<1>2. ASSUME NEW a \in Agents, SendHostInfoUpdate(a) \/ Disconnect(a) \/ Reconnect(a)
      PROVE  HoldInv'
  BY <1>2, HoldLinkStep
<1>3. CASE UNCHANGED vars
  BY <1>3 DEF HoldInv, TypeOK, ReportsAreRegistered, RepliesAreRegistered,
              StartedTasksHaveContainers, Registered, vars, mngVars, agnVars, sockVars
<1>. QED
  BY <1>1, <1>2, <1>3, HoldMngStep, HoldAgentStep DEF Next

\* The types, and what messages and agents hold, are invariants.
THEOREM TypeCorrect ==
  Spec => [](TypeOK /\ ReportsAreRegistered)
<1>1. HoldInv => TypeOK /\ ReportsAreRegistered
  BY DEF HoldInv
<1>. QED
  BY HoldInit, HoldNext, <1>1, PTL DEF Spec

-----------------------------------------------------------------------------
(* Second layer: one owner per task.                                       *)

\* The pool and the registry hold scheduled tasks only.
KnownTasks ==
  /\ \A t \in Tasks : InPool(t) => t \in scheduled
  /\ \A k \in Keys : Registered(k) => k[2] \in scheduled

OwnerInv == SingleOwner /\ KnownTasks

\* The second layer holds initially.
LEMMA OwnerInit ==
  Init => OwnerInv
BY DEF Init, OwnerInv, SingleOwner, KnownTasks, InPool, Registered, Keys

\* A step that leaves the pool, the scheduled tasks, the containers and the set
\* of registered names as they are keeps the second layer.
LEMMA OwnerFrame ==
  ASSUME NEW a \in Agents,
         \/ ProcessTskRqstNoTask(a) \/ ProcessHostMonMsg(a)
         \/ AgentStep(a) /\ ~StartTask(a)
         \/ SendHostInfoUpdate(a) \/ Disconnect(a) \/ Reconnect(a)
  PROVE  UNCHANGED <<containerTasks, taskRegistry, container, scheduled>>
BY DEF ProcessTskRqstNoTask, ProcessHostMonMsg, AgentStep, SeeReply, IgnoreTask, FailToStartTask,
       StayIdle, RequestTask, KeepWaiting, StopWaiting, ReportTask, FinishTask,
       SendHostInfoUpdate, Disconnect, Reconnect, mngVars

\* Scheduling keeps the second layer.
LEMMA OwnerSched ==
  ASSUME HoldInv, OwnerInv, NEW t \in Tasks, ProcessTskSchedMsg(t)
  PROVE  OwnerInv'
<1>. USE DEF OwnerInv
<1>1. /\ containerTasks \in Seq(Tasks) /\ Len(containerTasks) \in Nat
      /\ containerTasks' = Append(containerTasks, t)
      /\ UNCHANGED <<taskRegistry, container>>
      /\ scheduled' = scheduled \cup {t}
      /\ t \notin scheduled
  BY DEF ProcessTskSchedMsg, HoldInv, TypeOK
<1>2. /\ Len(containerTasks') = Len(containerTasks) + 1
      /\ \A i \in 1 .. Len(containerTasks) : containerTasks'[i] = containerTasks[i]
      /\ containerTasks'[Len(containerTasks) + 1] = t
  BY <1>1
<1>3. ~InPool(t) /\ ~\E b \in Agents : Registered(<<b, t>>)
  <2>1. \A b \in Agents : <<b, t>> \in Keys /\ <<b, t>>[2] = t
    BY DEF Keys
  <2>. QED
    BY <1>1, <2>1 DEF KnownTasks
<1>4. \A u \in Tasks : InPool(u)' <=> InPool(u) \/ u = t
  BY <1>2, <1>1 DEF InPool
<1>5. ASSUME NEW i \in 1 .. Len(containerTasks'), NEW j \in 1 .. Len(containerTasks'),
             containerTasks'[i] = containerTasks'[j]
      PROVE  i = j
  <2>1. CASE i \in 1 .. Len(containerTasks) /\ j \in 1 .. Len(containerTasks)
    BY <1>2, <1>5, <2>1 DEF SingleOwner
  <2>2. CASE i = Len(containerTasks) + 1 /\ j \in 1 .. Len(containerTasks)
    BY <1>2, <1>3, <1>5, <2>2 DEF InPool
  <2>3. CASE j = Len(containerTasks) + 1 /\ i \in 1 .. Len(containerTasks)
    BY <1>2, <1>3, <1>5, <2>3 DEF InPool
  <2>. QED
    BY <1>1, <1>2, <2>1, <2>2, <2>3
<1>6. SingleOwner'
  BY <1>1, <1>3, <1>4, <1>5 DEF SingleOwner, Registered
<1>7. KnownTasks'
  BY <1>1, <1>4 DEF KnownTasks, Registered
<1>. QED
  BY <1>6, <1>7

\* So does giving the first task of the pool away.
LEMMA OwnerRqst ==
  ASSUME HoldInv, OwnerInv, NEW a \in Agents, ProcessTskRqstMsg(a)
  PROVE  /\ OwnerInv'
         /\ Head(containerTasks) \in Tasks
         /\ ~Registered(<<a, Head(containerTasks)>>)
<1>. USE DEF OwnerInv
<1>. DEFINE t == Head(containerTasks)
<1>1. /\ containerTasks \in Seq(Tasks) /\ Len(containerTasks) \in Nat
      /\ containerTasks # <<>>
      /\ containerTasks' = Tail(containerTasks)
      /\ UNCHANGED <<scheduled, container>>
  BY DEF ProcessTskRqstMsg, PopTask, Register, HoldInv, TypeOK
<1>2. /\ Len(containerTasks) > 0
      /\ t = containerTasks[1] /\ t \in Tasks
      /\ Len(containerTasks') = Len(containerTasks) - 1
      /\ \A i \in 1 .. Len(containerTasks') : containerTasks'[i] = containerTasks[i + 1]
  BY <1>1
<1>3. InPool(t)
  BY <1>2, <1>1 DEF InPool
<1>4. \A u \in Tasks : InPool(u)' => InPool(u) /\ u # t
  <2>. SUFFICES ASSUME NEW u \in Tasks, NEW i \in 1 .. Len(containerTasks'), containerTasks'[i] = u
                PROVE  InPool(u) /\ u # t
    BY DEF InPool
  <2>1. i + 1 \in 1 .. Len(containerTasks) /\ containerTasks[i + 1] = u
    BY <1>1, <1>2
  <2>2. i + 1 # 1 /\ 1 \in 1 .. Len(containerTasks)
    BY <1>1, <1>2
  <2>. QED
    BY <1>2, <2>1, <2>2 DEF SingleOwner, InPool
<1>5. \A b \in Agents : ~Registered(<<b, t>>)
  BY <1>2, <1>3 DEF SingleOwner
<1>6. \A k \in Keys : Registered(k)' <=> Registered(k) \/ k = <<a, t>>
  BY <1>2 DEF ProcessTskRqstMsg, PopTask, Register, HoldInv, TypeOK, Registered, Keys
<1>7. \A i, j \in 1 .. Len(containerTasks') : containerTasks'[i] = containerTasks'[j] => i = j
  <2>. SUFFICES ASSUME NEW i \in 1 .. Len(containerTasks'), NEW j \in 1 .. Len(containerTasks'),
                       containerTasks'[i] = containerTasks'[j]
                PROVE  i = j
    OBVIOUS
  <2>1. i + 1 \in 1 .. Len(containerTasks) /\ j + 1 \in 1 .. Len(containerTasks)
        /\ containerTasks[i + 1] = containerTasks[j + 1]
    BY <1>1, <1>2
  <2>2. i + 1 = j + 1
    BY <2>1 DEF SingleOwner
  <2>. QED
    BY <2>2
<1>8. SingleOwner'
  <2>1. \A u \in Tasks, b \in Agents :
          Registered(<<b, u>>)' <=> Registered(<<b, u>>) \/ (b = a /\ u = t)
    BY <1>6 DEF Keys
  <2>2. \A u \in Tasks : \A b, c \in Agents :
          Registered(<<b, u>>)' /\ Registered(<<c, u>>)' => b = c
    BY <1>5, <2>1 DEF SingleOwner
  <2>3. \A u \in Tasks : InPool(u)' => ~\E b \in Agents : Registered(<<b, u>>)'
    BY <1>4, <2>1 DEF SingleOwner
  <2>4. \A u \in Tasks : container'[u] # "none" => \E b \in Agents : Registered(<<b, u>>)'
    BY <1>1, <2>1 DEF SingleOwner
  <2>. QED
    BY <1>7, <2>2, <2>3, <2>4 DEF SingleOwner
<1>9. KnownTasks'
  BY <1>1, <1>2, <1>3, <1>4, <1>6 DEF KnownTasks, Keys
<1>. QED
  BY <1>2, <1>5, <1>8, <1>9

\* A report does not change which tasks are registered.
LEMMA RepRegistered ==
  ASSUME HoldInv, NEW a \in Agents, ProcessTskRepMsg(a)
  PROVE  /\ Head(up[a]) \in Reports
         /\ <<a, Head(up[a]).task>> \in Keys
         /\ Registered(<<a, Head(up[a]).task>>)
         /\ OldStatus(<<a, Head(up[a]).task>>) = taskRegistry[<<a, Head(up[a]).task>>]
         /\ \A k \in Keys : taskRegistry'[k] =
              IF k = <<a, Head(up[a]).task>> THEN Head(up[a]).status ELSE taskRegistry[k]
         /\ \A k \in Keys : Registered(k)' <=> Registered(k)
<1>. DEFINE m == Head(up[a])
<1>1. Receive(a, "TSKREP")
  BY DEF ProcessTskRepMsg
<1>2. m \in Reports /\ m.task \in Tasks /\ m.status \in TaskStatus /\ <<a, m.task>> \in Keys
  BY <1>1, ReceiveType, MessageKinds DEF HoldInv, Keys
<1>3. Registered(<<a, m.task>>)
  <2>1. up[a] \in Seq(Messages) /\ 1 \in 1 .. Len(up[a]) /\ m = up[a][1] /\ m.type = "TSKREP"
    BY <1>1, ReceiveType DEF HoldInv, TypeOK
  <2>. QED
    BY <2>1 DEF HoldInv, ReportsAreRegistered
<1>4. \A k \in Keys : taskRegistry'[k] = IF k = <<a, m.task>> THEN m.status ELSE taskRegistry[k]
  BY <1>2 DEF ProcessTskRepMsg, HoldInv, TypeOK
<1>5. m.status # "none"
  BY <1>2 DEF TaskStatus
<1>6. \A k \in Keys : Registered(k)' <=> Registered(k)
  BY <1>3, <1>4, <1>5 DEF Registered
<1>. QED
  BY <1>2, <1>3, <1>4, <1>6 DEF OldStatus, Registered

\* Every step preserves the second layer.
LEMMA OwnerNext ==
  HoldInv /\ OwnerInv /\ [Next]_vars => OwnerInv'
<1>. SUFFICES ASSUME HoldInv, OwnerInv, [Next]_vars
              PROVE  OwnerInv'
  OBVIOUS
<1>1. ASSUME UNCHANGED <<containerTasks, taskRegistry, container, scheduled>>
      PROVE  OwnerInv'
  BY <1>1 DEF OwnerInv, SingleOwner, KnownTasks, InPool, Registered
<1>2. ASSUME NEW t \in Tasks, ContainerChanges(t) \/ ContainerEnds(t)
      PROVE  OwnerInv'
  <2>1. UNCHANGED <<containerTasks, taskRegistry, scheduled>> /\ container[t] # "none"
    BY <1>2 DEF ContainerChanges, ContainerEnds, DockerAlive, mngVars
  <2>2. \A u \in Tasks : container'[u] # "none" => container[u] # "none"
    BY <1>2, <2>1 DEF ContainerChanges, ContainerEnds, HoldInv, TypeOK
  <2>. QED
    BY <2>1, <2>2 DEF OwnerInv, SingleOwner, KnownTasks, InPool, Registered
<1>3. ASSUME NEW a \in Agents, ProcessTskRepMsg(a)
      PROVE  OwnerInv'
  <2>1. UNCHANGED <<containerTasks, container, scheduled>>
    BY <1>3 DEF ProcessTskRepMsg
  <2>2. \A k \in Keys : Registered(k)' <=> Registered(k)
    BY <1>3, RepRegistered
  <2>3. \A t \in Tasks, b \in Agents : Registered(<<b, t>>)' <=> Registered(<<b, t>>)
    BY <2>2 DEF Keys
  <2>. QED
    BY <2>1, <2>2, <2>3 DEF OwnerInv, SingleOwner, KnownTasks, InPool
<1>4. ASSUME NEW a \in Agents, StartTask(a)
      PROVE  OwnerInv'
  <2>1. reply[a] \in Tasks /\ Registered(<<a, reply[a]>>)
    BY <1>4 DEF StartTask, TakeReply, HoldInv, TypeOK, RepliesAreRegistered
  <2>2. UNCHANGED <<containerTasks, taskRegistry, scheduled>>
    BY <1>4 DEF StartTask, mngVars
  <2>3. \A u \in Tasks : container'[u] # "none" => container[u] # "none" \/ u = reply[a]
    BY <1>4, <2>1 DEF StartTask, HoldInv, TypeOK
  <2>. QED
    BY <2>1, <2>2, <2>3 DEF OwnerInv, SingleOwner, KnownTasks, InPool, Registered
<1>5. CASE UNCHANGED vars
  BY <1>1, <1>5 DEF vars, mngVars
<1>. QED
  BY <1>1, <1>2, <1>3, <1>4, <1>5, OwnerFrame, OwnerSched, OwnerRqst DEF Next, MngStep

\* No task has two owners, is in the pool twice, or runs before it was given
\* to an agent.
THEOREM OneOwner ==
  Spec => []SingleOwner
<1>1. Init => HoldInv /\ OwnerInv
  BY HoldInit, OwnerInit
<1>2. (HoldInv /\ OwnerInv) /\ [Next]_vars => (HoldInv /\ OwnerInv)'
  BY HoldNext, OwnerNext
<1>3. HoldInv /\ OwnerInv => SingleOwner
  BY DEF OwnerInv
<1>. QED
  BY <1>1, <1>2, <1>3, PTL DEF Spec

-----------------------------------------------------------------------------
(* Third layer: the counters count the registry.                           *)

\* What gaining, losing or keeping one element does to a set's cardinality.
LEMMA OneElementMoved ==
  ASSUME NEW F, NEW G, NEW e, NEW d, IsFiniteSet(F), IsFiniteSet(G),
         \/ d = 1  /\ G = F \cup {e} /\ e \notin F
         \/ d = -1 /\ F = G \cup {e} /\ e \notin G
         \/ d = 0  /\ F = G
  PROVE  Cardinality(G) = Cardinality(F) + d
<1>1. Cardinality(F) \in Nat /\ Cardinality(G) \in Nat
  BY FS_CardinalityType
<1>2. CASE d = 1 /\ G = F \cup {e} /\ e \notin F
  BY <1>1, <1>2, FS_AddElement
<1>3. CASE d = -1 /\ F = G \cup {e} /\ e \notin G
  <2>1. Cardinality(F) = Cardinality(G) + 1
    BY <1>3, FS_AddElement
  <2>. QED
    BY <1>1, <1>3, <2>1
<1>4. CASE d = 0 /\ F = G
  BY <1>1, <1>4
<1>. QED
  BY <1>2, <1>3, <1>4

\* The keys of the registry are finitely many.
LEMMA KeysFinite ==
  IsFiniteSet(Keys)
BY DispatchAssumption, FS_Product DEF Keys

\* The counters of a registry of which nothing is registered are zero.
LEMMA CountersInit ==
  Init => CountersMatchRegistry
<1>. SUFFICES ASSUME Init PROVE CountersMatchRegistry
  OBVIOUS
<1>1. \A s \in TaskStatus : WithStatus(s) = {}
  BY DEF Init, WithStatus, TaskStatus
<1>2. \A a \in Agents, s \in TaskStatus : {k \in WithStatus(s) : k[1] = a} = {}
  BY <1>1
<1>. QED
  BY <1>1, <1>2, FS_EmptySet DEF Init, CountersMatchRegistry

\* How the number of keys with status s changes when the registry changes at
\* one key.
Change(key, s) ==
  IF s = taskRegistry'[key] THEN 1 ELSE IF s = taskRegistry[key] THEN -1 ELSE 0

\* If the registry changes at one key of agent a, and the counters change by
\* one where that says, they still count the registry.
LEMMA CountersFollow ==
  ASSUME CountersMatchRegistry, NEW a \in Agents, NEW key \in Keys, key[1] = a,
         taskRegistry[key] # taskRegistry'[key],
         \A k \in Keys : k # key => taskRegistry'[k] = taskRegistry[k],
         \A s \in TaskStatus :
           /\ containerTaskStatus'[s] = containerTaskStatus[s] + Change(key, s)
           /\ containerTaskStatusPerAgent'[a][s] =
                containerTaskStatusPerAgent[a][s] + Change(key, s),
         \A b \in Agents \ {a} : containerTaskStatusPerAgent'[b] = containerTaskStatusPerAgent[b]
  PROVE  CountersMatchRegistry'
<1>. DEFINE Of(S, b) == {k \in S : k[1] = b}
<1>1. ASSUME NEW s \in TaskStatus
      PROVE  /\ containerTaskStatus'[s] = Cardinality(WithStatus(s)')
             /\ containerTaskStatusPerAgent'[a][s] = Cardinality(Of(WithStatus(s)', a))
  <2>. DEFINE F == WithStatus(s)
              G == WithStatus(s)'
              d == Change(key, s)
  <2>1. \/ d = 1  /\ G = F \cup {key} /\ key \notin F
        \/ d = -1 /\ F = G \cup {key} /\ key \notin G
        \/ d = 0  /\ F = G
    BY DEF WithStatus, Change
  <2>2. \/ d = 1  /\ Of(G, a) = Of(F, a) \cup {key} /\ key \notin Of(F, a)
        \/ d = -1 /\ Of(F, a) = Of(G, a) \cup {key} /\ key \notin Of(G, a)
        \/ d = 0  /\ Of(F, a) = Of(G, a)
    BY <2>1
  <2>3. IsFiniteSet(F) /\ IsFiniteSet(G) /\ IsFiniteSet(Of(F, a)) /\ IsFiniteSet(Of(G, a))
    <3>1. F \subseteq Keys /\ G \subseteq Keys /\ Of(F, a) \subseteq Keys /\ Of(G, a) \subseteq Keys
      BY DEF WithStatus
    <3>. QED
      BY <3>1, KeysFinite, FS_Subset
  <2>4. /\ containerTaskStatus[s] = Cardinality(F)
        /\ containerTaskStatusPerAgent[a][s] = Cardinality(Of(F, a))
    BY DEF CountersMatchRegistry
  <2>5. /\ containerTaskStatus'[s] = Cardinality(F) + d
        /\ containerTaskStatusPerAgent'[a][s] = Cardinality(Of(F, a)) + d
    BY <2>4
  <2>. HIDE DEF F, G, d, Of
  <2>6. Cardinality(G) = Cardinality(F) + d
    BY <2>1, <2>3, OneElementMoved
  <2>7. Cardinality(Of(G, a)) = Cardinality(Of(F, a)) + d
    BY <2>2, <2>3, OneElementMoved
  <2>. QED
    BY <2>5, <2>6, <2>7 DEF G
<1>2. ASSUME NEW b \in Agents \ {a}, NEW s \in TaskStatus
      PROVE  containerTaskStatusPerAgent'[b][s] = Cardinality(Of(WithStatus(s)', b))
  <2>1. Of(WithStatus(s)', b) = Of(WithStatus(s), b)
    BY DEF WithStatus
  <2>. QED
    BY <2>1 DEF CountersMatchRegistry
<1>3. \A b \in Agents, s \in TaskStatus :
        containerTaskStatusPerAgent'[b][s] = Cardinality(Of(WithStatus(s)', b))
  <2>. HIDE DEF Of
  <2>. QED
    BY <1>1, <1>2
<1>. QED
  BY <1>1, <1>3 DEF CountersMatchRegistry

\* Giving a task to an agent keeps the counters.
LEMMA CountersRqst ==
  ASSUME HoldInv, OwnerInv, CountersMatchRegistry, NEW a \in Agents, ProcessTskRqstMsg(a)
  PROVE  CountersMatchRegistry'
<1>. DEFINE t   == Head(containerTasks)
            key == <<a, t>>
<1>1. t \in Tasks /\ ~Registered(key)
  BY OwnerRqst
<1>2. key \in Keys /\ key[1] = a
  BY <1>1 DEF Keys
<1>3. /\ taskRegistry' = [taskRegistry EXCEPT ![key] = "SCHEDULED"]
      /\ containerTaskStatus' =
           [containerTaskStatus EXCEPT !["SCHEDULED"] = containerTaskStatus["SCHEDULED"] + 1]
      /\ containerTaskStatusPerAgent' =
           [containerTaskStatusPerAgent EXCEPT
              ![a]["SCHEDULED"] = containerTaskStatusPerAgent[a]["SCHEDULED"] + 1]
  BY DEF ProcessTskRqstMsg, PopTask, Register
<1>4. /\ taskRegistry \in [Keys -> TaskStatus \cup {"none"}]
      /\ containerTaskStatus \in [TaskStatus -> Int]
      /\ containerTaskStatusPerAgent \in [Agents -> [TaskStatus -> Int]]
  BY DEF HoldInv, TypeOK
<1>5. taskRegistry[key] = "none" /\ "none" \notin TaskStatus
  BY <1>1 DEF Registered, TaskStatus
<1>. HIDE DEF key
<1>6. /\ taskRegistry'[key] = "SCHEDULED"
      /\ \A k \in Keys : k # key => taskRegistry'[k] = taskRegistry[k]
  BY <1>2, <1>3, <1>4
<1>7. \A s \in TaskStatus :
        /\ containerTaskStatus'[s] = containerTaskStatus[s] +
             Change(key, s)
        /\ containerTaskStatusPerAgent'[a][s] = containerTaskStatusPerAgent[a][s] +
             Change(key, s)
  BY <1>3, <1>4, <1>5, <1>6 DEF Change
<1>8. \A b \in Agents \ {a} : containerTaskStatusPerAgent'[b] = containerTaskStatusPerAgent[b]
  BY <1>3, <1>4
<1>9. taskRegistry[key] # taskRegistry'[key]
  BY <1>5, <1>6
<1>. QED
  BY <1>2, <1>6, <1>7, <1>8, <1>9, CountersFollow

\* So does a report, with a new status or with the old one.
LEMMA CountersRep ==
  ASSUME HoldInv, CountersMatchRegistry, NEW a \in Agents, ProcessTskRepMsg(a)
  PROVE  CountersMatchRegistry'
<1>. DEFINE m   == Head(up[a])
            key == <<a, m.task>>
            old == OldStatus(key)
<1>1. /\ m \in Reports /\ key \in Keys
      /\ old = taskRegistry[key]
      /\ \A k \in Keys : taskRegistry'[k] = IF k = key THEN m.status ELSE taskRegistry[k]
  BY RepRegistered
<1>2. key[1] = a
  OBVIOUS
<1>3. /\ taskRegistry \in [Keys -> TaskStatus \cup {"none"}]
      /\ containerTaskStatus \in [TaskStatus -> Int]
      /\ containerTaskStatusPerAgent \in [Agents -> [TaskStatus -> Int]]
  BY DEF HoldInv, TypeOK
<1>4. CASE old # m.status
  <2>1. /\ containerTaskStatus' = Recount(containerTaskStatus, old, m.status)
        /\ containerTaskStatusPerAgent' =
             [containerTaskStatusPerAgent EXCEPT
                ![a] = Recount(containerTaskStatusPerAgent[a], old, m.status)]
    BY <1>4 DEF ProcessTskRepMsg
  <2>. HIDE DEF m, key, old
  <2>2. \A c \in [TaskStatus -> Int], s \in TaskStatus :
          Recount(c, old, m.status)[s] =
            c[s] + (IF s = m.status THEN 1 ELSE IF s = old THEN -1 ELSE 0)
    BY <1>4 DEF Recount
  <2>3. taskRegistry'[key] = m.status /\ taskRegistry[key] = old
    BY <1>1
  <2>4. \A s \in TaskStatus :
          /\ containerTaskStatus'[s] = containerTaskStatus[s] +
               Change(key, s)
          /\ containerTaskStatusPerAgent'[a][s] = containerTaskStatusPerAgent[a][s] +
               Change(key, s)
    <3>1. \A s \in TaskStatus : containerTaskStatus'[s] =
            containerTaskStatus[s] + (IF s = m.status THEN 1 ELSE IF s = old THEN -1 ELSE 0)
      BY <1>3, <2>1, <2>2
    <3>2. containerTaskStatusPerAgent'[a] = Recount(containerTaskStatusPerAgent[a], old, m.status)
      BY <1>3, <2>1
    <3>3. \A s \in TaskStatus : containerTaskStatusPerAgent'[a][s] =
            containerTaskStatusPerAgent[a][s] +
              (IF s = m.status THEN 1 ELSE IF s = old THEN -1 ELSE 0)
      BY <1>3, <2>2, <3>2
    <3>. QED
      BY <2>3, <3>1, <3>3 DEF Change
  <2>5. \A b \in Agents \ {a} : containerTaskStatusPerAgent'[b] = containerTaskStatusPerAgent[b]
    BY <1>3, <2>1
  <2>6. taskRegistry[key] # taskRegistry'[key]
    BY <1>4, <2>3
  <2>. QED
    BY <1>1, <1>2, <2>4, <2>5, <2>6, CountersFollow
<1>5. CASE old = m.status
  <2>1. UNCHANGED <<containerTaskStatus, containerTaskStatusPerAgent>>
    BY <1>5 DEF ProcessTskRepMsg
  <2>2. \A k \in Keys : taskRegistry'[k] = taskRegistry[k]
    BY <1>1, <1>5
  <2>3. \A s : WithStatus(s)' = WithStatus(s)
    BY <2>2 DEF WithStatus
  <2>. QED
    BY <2>1, <2>3 DEF CountersMatchRegistry
<1>. QED
  BY <1>4, <1>5

\* No other step touches the registry or a counter.
LEMMA CountersFrame ==
  ASSUME [Next]_vars,
         ~\E a \in Agents : ProcessTskRqstMsg(a) \/ ProcessTskRepMsg(a)
  PROVE  UNCHANGED <<taskRegistry, containerTaskStatus, containerTaskStatusPerAgent>>
<1>1. ASSUME NEW t \in Tasks,
             ProcessTskSchedMsg(t) \/ ContainerChanges(t) \/ ContainerEnds(t)
      PROVE  UNCHANGED <<taskRegistry, containerTaskStatus, containerTaskStatusPerAgent>>
  BY <1>1 DEF ProcessTskSchedMsg, ContainerChanges, ContainerEnds, mngVars
<1>2. ASSUME NEW a \in Agents,
             \/ ProcessTskRqstNoTask(a) \/ ProcessHostMonMsg(a) \/ AgentStep(a)
             \/ SendHostInfoUpdate(a) \/ Disconnect(a) \/ Reconnect(a)
      PROVE  UNCHANGED <<taskRegistry, containerTaskStatus, containerTaskStatusPerAgent>>
  BY <1>2
  DEF ProcessTskRqstNoTask, ProcessHostMonMsg, AgentStep, SeeReply, IgnoreTask, StartTask,
      FailToStartTask, StayIdle, RequestTask, KeepWaiting, StopWaiting, ReportTask, FinishTask,
      SendHostInfoUpdate, Disconnect, Reconnect, mngVars
<1>3. CASE UNCHANGED vars
  BY <1>3 DEF vars, mngVars
<1>. QED
  BY <1>1, <1>2, <1>3 DEF Next, MngStep

\* The counters of the Task Manager are the cardinalities they stand for,
\* however many agents and tasks there are.
THEOREM CountersCorrect ==
  Spec => []CountersMatchRegistry
<1>. DEFINE Inv == HoldInv /\ OwnerInv /\ CountersMatchRegistry
<1>1. Init => Inv
  BY HoldInit, OwnerInit, CountersInit
<1>2. Inv /\ [Next]_vars => Inv'
  <2>. SUFFICES ASSUME Inv, [Next]_vars PROVE CountersMatchRegistry'
    BY HoldNext, OwnerNext
  <2>1. CASE \E a \in Agents : ProcessTskRqstMsg(a) \/ ProcessTskRepMsg(a)
    BY <2>1, CountersRqst, CountersRep
  <2>2. CASE ~\E a \in Agents : ProcessTskRqstMsg(a) \/ ProcessTskRepMsg(a)
    <3>1. UNCHANGED <<taskRegistry, containerTaskStatus, containerTaskStatusPerAgent>>
      BY <2>2, CountersFrame
    <3>. QED
      BY <3>1 DEF CountersMatchRegistry, WithStatus
  <2>. QED
    BY <2>1, <2>2
<1>. QED
  BY <1>1, <1>2, PTL DEF Spec
=============================================================================
