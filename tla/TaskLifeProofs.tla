--------------------------- MODULE TaskLifeProofs ---------------------------
(***************************************************************************)
(* The dispatch implements TaskLife, for every set of agents and of tasks  *)
(* and every value of the bounds; what it says of the containers is true,  *)
(* and what it shows lags behind in one count only.                        *)
(*                                                                         *)
(* The argument, on top of the two layers of TskDispatchProofs: an agent   *)
(* that has reported the end of a task never reports another status of it. *)
(* The end may be in the registry, on its way behind other reports, or in  *)
(* the request that is sent again at a reconnection; all three agree.      *)
(*                                                                         *)
(* Behind the Task Manager, Pipeline: what it publishes is what an agent   *)
(* reports of a registered task, so that the dispatch and the Data Manager *)
(* implement TaskStore, and a row that is at an end tells the container's. *)
(***************************************************************************)
EXTENDS TskDispatchProofs, Pipeline

Reported == {"STOPPED", "RUNNING", "PAUSED", "UNKNOWN_STATE", "FINISHED", "FAILED"}

\* A report on the task.
On(m, t) == m.type = "TSKREP" /\ m.task = t

\* The agent has reported the end of the task.
EndKnown(a, t) ==
  \/ taskRegistry[<<a, t>>] \in Terminal
  \/ \E i \in 1 .. Len(up[a]) : On(up[a][i], t) /\ up[a][i].status \in Terminal
  \/ On(outstanding[a], t) /\ outstanding[a].status \in Terminal

\* It has reported nothing of the task.
Silent(a, t) ==
  /\ taskRegistry[<<a, t>>] \in {"none", "SCHEDULED"}
  /\ \A i \in 1 .. Len(up[a]) : ~On(up[a][i], t)
  /\ ~On(outstanding[a], t)

StatusesReported(a) ==
  /\ \A t \in Tasks : taskRegistry[<<a, t>>] \in Reported \cup {"none", "SCHEDULED"}
  /\ \A i \in 1 .. Len(up[a]) :
       up[a][i].type = "TSKREP" => up[a][i].status \in Reported
  /\ outstanding[a].type = "TSKREP" => outstanding[a].status \in Reported

\* Nothing but the same end comes after an end.
EndsAgree(a) ==
  \A t \in Tasks :
    /\ taskRegistry[<<a, t>>] \in Terminal =>
         /\ \A i \in 1 .. Len(up[a]) :
              On(up[a][i], t) => up[a][i].status = taskRegistry[<<a, t>>]
         /\ On(outstanding[a], t) =>
              outstanding[a].status = taskRegistry[<<a, t>>]
    /\ \A i \in 1 .. Len(up[a]) :
         On(up[a][i], t) /\ up[a][i].status \in Terminal =>
           /\ \A j \in 1 .. Len(up[a]) :
                j > i /\ On(up[a][j], t) => up[a][j].status = up[a][i].status
           /\ On(outstanding[a], t) =>
                outstanding[a].status = up[a][i].status

\* An agent works on tasks whose end it has not reported, and is given tasks
\* it has not reported on.
WorkIsOpen(a) ==
  /\ pStatus[a] = "PROCESSING" => ~EndKnown(a, runningTask[a])
  /\ reply[a] # NoTask => Silent(a, reply[a])

Story(a) == StatusesReported(a) /\ EndsAgree(a) /\ WorkIsOpen(a)

-----------------------------------------------------------------------------
LEMMA ReportedStatuses ==
  /\ \A d \in DockerState : StatusOf[d] \in Reported
  /\ Terminal \subseteq Reported
  /\ Reported \subseteq TaskStatus
  /\ Reported \ Terminal = {"RUNNING", "PAUSED"}
  /\ "none" \notin Reported /\ "SCHEDULED" \notin Reported
BY DEF StatusOf, DockerState, DockerAlive, DockerEnded, Reported, Terminal, TaskStatus

\* EndsAgree for two reports on their way.
LEMMA LaterAgrees ==
  ASSUME NEW a \in Agents, Story(a), NEW t \in Tasks,
         NEW x \in 1 .. Len(up[a]), On(up[a][x], t), up[a][x].status \in Terminal,
         NEW y \in 1 .. Len(up[a]), On(up[a][y], t), y > x
  PROVE  up[a][y].status = up[a][x].status
BY DEF Story, EndsAgree

LEMMA StoryInit ==
  ASSUME Init, NEW a \in Agents
  PROVE  Story(a)
BY ReportedStatuses
DEF Init, Story, StatusesReported, EndsAgree, WorkIsOpen, EndKnown, Silent, On, NoMsg, Keys

\* What is lost, or sent again, tells nothing new; nor does what leaves the
\* agent alone.
LEMMA StoryKept ==
  ASSUME TypeOK, ReportsAreRegistered, NEW a \in Agents, Story(a),
         up'[a] \in {up[a], <<>>, <<outstanding[a]>>},
         outstanding'[a] \in {NoMsg, outstanding[a]},
         reply'[a] \in {NoTask, reply[a]},
         pStatus'[a] = "PROCESSING" =>
           pStatus[a] = "PROCESSING" /\ runningTask'[a] = runningTask[a],
         \A t \in Tasks : taskRegistry'[<<a, t>>] = taskRegistry[<<a, t>>]
  PROVE  Story(a)'
<1>1. /\ ~(NoMsg.type = "TSKREP")
      /\ \A t : ~On(NoMsg, t)
  BY NoMsgKind DEF On
<1>2. /\ \A t : On(outstanding'[a], t) => outstanding'[a] = outstanding[a]
      /\ outstanding'[a].type = "TSKREP" => outstanding'[a] = outstanding[a]
  BY <1>1
<1>3. \A i \in 1 .. Len(up'[a]) :
        \/ i \in 1 .. Len(up[a]) /\ up'[a] = up[a]
        \/ i = 1 /\ Len(up'[a]) = 1 /\ up'[a][i] = outstanding[a]
  <2>1. CASE up'[a] = up[a]
    BY <2>1
  <2>2. CASE up'[a] = <<>>
    BY <2>2
  <2>3. CASE up'[a] = <<outstanding[a]>>
    BY <2>3
  <2> QED
    BY <2>1, <2>2, <2>3
<1>4. StatusesReported(a)'
  BY <1>2, <1>3 DEF Story, StatusesReported
<1>5. EndsAgree(a)'
  <2> SUFFICES ASSUME NEW t \in Tasks
               PROVE  /\ taskRegistry[<<a, t>>] \in Terminal =>
                           /\ \A i \in 1 .. Len(up'[a]) :
                                On(up'[a][i], t) => up'[a][i].status = taskRegistry[<<a, t>>]
                           /\ On(outstanding'[a], t) =>
                                outstanding'[a].status = taskRegistry[<<a, t>>]
                      /\ \A i \in 1 .. Len(up'[a]) :
                           On(up'[a][i], t) /\ up'[a][i].status \in Terminal =>
                             /\ \A j \in 1 .. Len(up'[a]) :
                                  j > i /\ On(up'[a][j], t) =>
                                    up'[a][j].status = up'[a][i].status
                             /\ On(outstanding'[a], t) =>
                                  outstanding'[a].status = up'[a][i].status
    BY DEF EndsAgree, On
  <2>1. ASSUME taskRegistry[<<a, t>>] \in Terminal
        PROVE  /\ \A i \in 1 .. Len(up'[a]) :
                    On(up'[a][i], t) => up'[a][i].status = taskRegistry[<<a, t>>]
               /\ On(outstanding'[a], t) =>
                    outstanding'[a].status = taskRegistry[<<a, t>>]
    BY <1>2, <1>3, <2>1 DEF Story, EndsAgree
  <2>2. ASSUME NEW i \in 1 .. Len(up'[a]),
               On(up'[a][i], t), up'[a][i].status \in Terminal
        PROVE  /\ \A j \in 1 .. Len(up'[a]) :
                    j > i /\ On(up'[a][j], t) => up'[a][j].status = up'[a][i].status
               /\ On(outstanding'[a], t) =>
                    outstanding'[a].status = up'[a][i].status
    <3>1. CASE i \in 1 .. Len(up[a]) /\ up'[a] = up[a]
      <4>1. ASSUME NEW j \in 1 .. Len(up'[a]), j > i, On(up'[a][j], t)
            PROVE  up'[a][j].status = up'[a][i].status
        BY <2>2, <3>1, <4>1, LaterAgrees
      <4>2. On(outstanding'[a], t) => outstanding'[a].status = up'[a][i].status
        BY <1>2, <2>2, <3>1 DEF Story, EndsAgree
      <4> QED
        BY <4>1, <4>2
    <3>2. CASE i = 1 /\ Len(up'[a]) = 1 /\ up'[a][i] = outstanding[a]
      BY <1>2, <3>2
    <3> QED
      BY <1>3, <3>1, <3>2
  <2> QED
    BY <2>1, <2>2
<1>6. \A t \in Tasks :
        /\ ~EndKnown(a, t) => ~EndKnown(a, t)'
        /\ Silent(a, t) => Silent(a, t)'
  <2> SUFFICES ASSUME NEW t \in Tasks
               PROVE  /\ ~EndKnown(a, t) => ~EndKnown(a, t)'
                      /\ Silent(a, t) => Silent(a, t)'
    OBVIOUS
  <2>1. ~EndKnown(a, t) => ~EndKnown(a, t)'
    BY <1>2, <1>3 DEF EndKnown, On
  <2>2. Silent(a, t) => Silent(a, t)'
    BY <1>2, <1>3 DEF Silent, On
  <2> QED
    BY <2>1, <2>2
<1>7. ASSUME pStatus'[a] = "PROCESSING"
      PROVE  ~EndKnown(a, runningTask[a])'
  <2>1. PICK t \in Tasks : t = runningTask[a] /\ runningTask'[a] = t /\ ~EndKnown(a, t)
    BY <1>7 DEF ReportsAreRegistered, Story, WorkIsOpen
  <2>2. ~EndKnown(a, t)'
    BY <1>6, <2>1
  <2> QED
    BY <2>1, <2>2 DEF EndKnown
<1>8. ASSUME reply'[a] # NoTask
      PROVE  Silent(a, reply[a])'
  <2>1. PICK t \in Tasks : t = reply[a] /\ reply'[a] = t /\ Silent(a, t)
    BY <1>8 DEF TypeOK, Story, WorkIsOpen
  <2>2. Silent(a, t)'
    BY <1>6, <2>1
  <2> QED
    BY <2>1, <2>2 DEF Silent
<1> QED
  BY <1>4, <1>5, <1>7, <1>8 DEF Story, WorkIsOpen

\* Sending tells nothing new of a task that has ended.
LEMMA StorySend ==
  ASSUME TypeOK, ReportsAreRegistered,
         NEW a \in Agents, NEW m \in Messages, Story(a), Send(a, m),
         m.type = "TSKREP" => m.status \in Reported /\ ~EndKnown(a, m.task),
         UNCHANGED taskRegistry,
         pStatus'[a] = "PROCESSING" =>
           /\ runningTask'[a] \in Tasks
           /\ ~EndKnown(a, runningTask'[a])
           /\ m.type = "TSKREP" => m.status \notin Terminal
  PROVE  Story(a)'
<1>1. /\ outstanding'[a] = m /\ reply'[a] = NoTask
      /\ up[a] \in Seq(Messages) /\ Len(up[a]) \in Nat
      /\ \/ up'[a] = up[a]
         \/ up'[a] = Append(up[a], m)
  BY DEF Send, TypeOK
<1>2. \/ Len(up'[a]) = Len(up[a])
      \/ Len(up'[a]) = Len(up[a]) + 1 /\ up'[a][Len(up[a]) + 1] = m
  BY <1>1
<1>3. \A i \in 1 .. Len(up[a]) : i \in 1 .. Len(up'[a]) /\ up'[a][i] = up[a][i]
  BY <1>1
<1>4. ASSUME NEW i \in 1 .. Len(up'[a])
      PROVE  \/ i \in 1 .. Len(up[a]) /\ up'[a][i] = up[a][i]
             \/ i > Len(up[a]) /\ up'[a][i] = m
  BY <1>1, <1>2, <1>3
<1>5. StatusesReported(a)'
  BY <1>1, <1>4 DEF Story, StatusesReported
<1>6. EndsAgree(a)'
  <2> SUFFICES ASSUME NEW t \in Tasks
               PROVE  /\ taskRegistry[<<a, t>>] \in Terminal =>
                           /\ \A i \in 1 .. Len(up'[a]) :
                                On(up'[a][i], t) => up'[a][i].status = taskRegistry[<<a, t>>]
                           /\ On(m, t) => m.status = taskRegistry[<<a, t>>]
                      /\ \A i \in 1 .. Len(up'[a]) :
                           On(up'[a][i], t) /\ up'[a][i].status \in Terminal =>
                             /\ \A j \in 1 .. Len(up'[a]) :
                                  j > i /\ On(up'[a][j], t) =>
                                    up'[a][j].status = up'[a][i].status
                             /\ On(m, t) => m.status = up'[a][i].status
    BY <1>1 DEF EndsAgree, On
  <2>1. On(m, t) => ~EndKnown(a, t)
    BY DEF On
  <2>2. ASSUME taskRegistry[<<a, t>>] \in Terminal
        PROVE  /\ \A i \in 1 .. Len(up'[a]) :
                    On(up'[a][i], t) => up'[a][i].status = taskRegistry[<<a, t>>]
               /\ On(m, t) => m.status = taskRegistry[<<a, t>>]
    <3>1. ~On(m, t)
      BY <2>1, <2>2 DEF EndKnown
    <3> QED
      BY <1>4, <2>2, <3>1 DEF Story, EndsAgree
  <2>3. ASSUME NEW i \in 1 .. Len(up'[a]),
               On(up'[a][i], t), up'[a][i].status \in Terminal
        PROVE  /\ \A j \in 1 .. Len(up'[a]) :
                    j > i /\ On(up'[a][j], t) => up'[a][j].status = up'[a][i].status
               /\ On(m, t) => m.status = up'[a][i].status
    <3>1. CASE i \in 1 .. Len(up[a]) /\ up'[a][i] = up[a][i]
      <4>1. ~On(m, t)
        BY <2>1, <2>3, <3>1 DEF EndKnown
      <4>2. ASSUME NEW j \in 1 .. Len(up'[a]), j > i, On(up'[a][j], t)
            PROVE  up'[a][j].status = up'[a][i].status
        <5>1. j \in 1 .. Len(up[a]) /\ up'[a][j] = up[a][j]
          BY <1>4, <4>1, <4>2
        <5>2. /\ On(up[a][i], t) /\ up[a][i].status \in Terminal
              /\ On(up[a][j], t)
          BY <2>3, <3>1, <4>2, <5>1
        <5>3. up[a][j].status = up[a][i].status
          BY <3>1, <4>2, <5>1, <5>2, LaterAgrees
        <5> QED
          BY <3>1, <5>1, <5>3
      <4> QED
        BY <4>1, <4>2
    <3>2. CASE i > Len(up[a]) /\ up'[a][i] = m
      BY <1>1, <1>2, <3>2
    <3> QED
      BY <1>4, <3>1, <3>2
  <2> QED
    BY <2>2, <2>3
<1>7. ASSUME pStatus'[a] = "PROCESSING"
      PROVE  ~EndKnown(a, runningTask[a])'
  <2>1. PICK t \in Tasks :
          /\ t = runningTask'[a] /\ ~EndKnown(a, t)
          /\ m.type = "TSKREP" => m.status \notin Terminal
    BY <1>7
  <2>2. taskRegistry'[<<a, t>>] \notin Terminal
    BY <2>1 DEF EndKnown
  <2>3. ~(On(m, t) /\ m.status \in Terminal)
    BY <2>1 DEF On
  <2>4. \A i \in 1 .. Len(up'[a]) : ~(On(up'[a][i], t) /\ up'[a][i].status \in Terminal)
    BY <1>4, <2>1, <2>3 DEF EndKnown
  <2> QED
    BY <1>1, <2>1, <2>2, <2>3, <2>4 DEF EndKnown
<1> QED
  BY <1>1, <1>5, <1>6, <1>7 DEF Story, WorkIsOpen

\* So does what is received and changes no status; the registry may get the
\* entry of a task that the agent has not heard of.
LEMMA StoryReceive ==
  ASSUME TypeOK, ReportsAreRegistered, NEW a \in Agents, NEW type, Story(a),
         Receive(a, type), outstanding' = outstanding,
         \A t \in Tasks : \/ taskRegistry'[<<a, t>>] = taskRegistry[<<a, t>>]
                          \/ /\ ~Registered(<<a, t>>)
                             /\ taskRegistry'[<<a, t>>] = "SCHEDULED",
         UNCHANGED <<pStatus, runningTask>>,
         reply'[a] # NoTask =>
           \/ reply'[a] = reply[a]
           \/ /\ reply'[a] \in Tasks
              /\ taskRegistry'[<<a, reply'[a]>>] = "SCHEDULED"
              /\ ~Registered(<<a, reply'[a]>>)
  PROVE  Story(a)'
<1>1. /\ Len(up'[a]) = Len(up[a]) - 1 /\ Len(up[a]) \in Nat
      /\ \A i \in 1 .. Len(up'[a]) :
           i + 1 \in 1 .. Len(up[a]) /\ up'[a][i] = up[a][i + 1]
  BY ReceiveType
<1>2. "SCHEDULED" \notin Terminal
  BY ReportedStatuses
<1>3. StatusesReported(a)'
  BY <1>1 DEF Story, StatusesReported
<1>4. EndsAgree(a)'
  <2> SUFFICES ASSUME NEW t \in Tasks
               PROVE  /\ taskRegistry'[<<a, t>>] \in Terminal =>
                           /\ \A i \in 1 .. Len(up'[a]) :
                                On(up'[a][i], t) => up'[a][i].status = taskRegistry'[<<a, t>>]
                           /\ On(outstanding[a], t) =>
                                outstanding[a].status = taskRegistry'[<<a, t>>]
                      /\ \A i \in 1 .. Len(up'[a]) :
                           On(up'[a][i], t) /\ up'[a][i].status \in Terminal =>
                             /\ \A j \in 1 .. Len(up'[a]) :
                                  j > i /\ On(up'[a][j], t) =>
                                    up'[a][j].status = up'[a][i].status
                             /\ On(outstanding[a], t) =>
                                  outstanding[a].status = up'[a][i].status
    BY DEF EndsAgree, On
  <2>1. taskRegistry'[<<a, t>>] \in Terminal =>
          taskRegistry'[<<a, t>>] = taskRegistry[<<a, t>>]
    BY <1>2
  <2>2. ASSUME taskRegistry'[<<a, t>>] \in Terminal
        PROVE  /\ \A i \in 1 .. Len(up'[a]) :
                    On(up'[a][i], t) => up'[a][i].status = taskRegistry'[<<a, t>>]
               /\ On(outstanding[a], t) =>
                    outstanding[a].status = taskRegistry'[<<a, t>>]
    BY <1>1, <2>1, <2>2 DEF Story, EndsAgree
  <2>3. ASSUME NEW i \in 1 .. Len(up'[a]),
               On(up'[a][i], t), up'[a][i].status \in Terminal
        PROVE  /\ \A j \in 1 .. Len(up'[a]) :
                    j > i /\ On(up'[a][j], t) => up'[a][j].status = up'[a][i].status
               /\ On(outstanding[a], t) =>
                    outstanding[a].status = up'[a][i].status
    <3>1. i + 1 \in 1 .. Len(up[a]) /\ up'[a][i] = up[a][i + 1]
      BY <1>1
    <3>2. ASSUME NEW j \in 1 .. Len(up'[a]), j > i, On(up'[a][j], t)
          PROVE  up'[a][j].status = up'[a][i].status
      <4>1. /\ j + 1 \in 1 .. Len(up[a]) /\ up'[a][j] = up[a][j + 1]
            /\ j + 1 > i + 1
        BY <1>1, <3>2
      <4>2. /\ On(up[a][i + 1], t) /\ up[a][i + 1].status \in Terminal
            /\ On(up[a][j + 1], t)
        BY <2>3, <3>1, <3>2, <4>1
      <4>3. up[a][j + 1].status = up[a][i + 1].status
        BY <3>1, <4>1, <4>2, LaterAgrees
      <4> QED
        BY <3>1, <4>1, <4>3
    <3>3. On(outstanding[a], t) => outstanding[a].status = up'[a][i].status
      BY <2>3, <3>1 DEF Story, EndsAgree
    <3> QED
      BY <3>2, <3>3
  <2> QED
    BY <2>2, <2>3
<1>5. ASSUME pStatus[a] = "PROCESSING"
      PROVE  ~EndKnown(a, runningTask[a])'
  <2>1. runningTask[a] \in Tasks /\ ~EndKnown(a, runningTask[a])
    BY <1>5 DEF ReportsAreRegistered, Story, WorkIsOpen
  <2> QED
    BY <1>1, <1>2, <2>1 DEF EndKnown
<1>6. ASSUME reply'[a] # NoTask
      PROVE  Silent(a, reply[a])'
  <2>1. CASE reply'[a] = reply[a]
    <3>1. reply[a] \in Tasks /\ Silent(a, reply[a])
      BY <1>6, <2>1 DEF Story, WorkIsOpen, TypeOK
    <3> QED
      BY <1>1, <2>1, <3>1 DEF Silent
  <2>2. CASE /\ reply'[a] \in Tasks
             /\ taskRegistry'[<<a, reply'[a]>>] = "SCHEDULED"
             /\ ~Registered(<<a, reply'[a]>>)
    <3>1. ~On(outstanding[a], reply'[a])
      BY <2>2 DEF On, ReportsAreRegistered
    <3>2. \A i \in 1 .. Len(up[a]) : ~On(up[a][i], reply'[a])
      BY <2>2 DEF On, ReportsAreRegistered
    <3> QED
      BY <1>1, <2>2, <3>1, <3>2 DEF Silent
  <2> QED
    BY <1>6, <2>1, <2>2
<1> QED
  BY <1>3, <1>4, <1>5, <1>6 DEF Story, WorkIsOpen

\* A report that is received: what follows agrees with it if it is an end.
LEMMA StoryReport ==
  ASSUME HoldInv, NEW a \in Agents, Story(a), ProcessTskRepMsg(a)
  PROVE  Story(a)'
<1> DEFINE m == Head(up[a])
<1>1. /\ Len(up'[a]) = Len(up[a]) - 1 /\ Len(up[a]) \in Nat /\ Len(up[a]) > 0
      /\ \A i \in 1 .. Len(up'[a]) :
           i + 1 \in 1 .. Len(up[a]) /\ up'[a][i] = up[a][i + 1]
      /\ m = up[a][1] /\ 1 \in 1 .. Len(up[a])
  BY ReceiveType DEF ProcessTskRepMsg, HoldInv, TypeOK
<1>2. PICK u \in Tasks, s \in Reported :
        /\ On(up[a][1], u) /\ up[a][1].status = s
        /\ \A t \in Tasks : taskRegistry'[<<a, t>>] =
                              IF t = u THEN s ELSE taskRegistry[<<a, t>>]
  <2>1. m \in Reports /\ m.task \in Tasks /\ m.type = "TSKREP"
    BY RepRegistered DEF Reports
  <2>2. m.status \in Reported
    BY <1>1, <2>1 DEF Story, StatusesReported
  <2>3. \A t \in Tasks : <<a, t>> \in Keys /\ (<<a, t>> = <<a, m.task>> <=> t = m.task)
    BY DEF Keys
  <2>4. \A t \in Tasks : taskRegistry'[<<a, t>>] =
                              IF t = m.task THEN m.status ELSE taskRegistry[<<a, t>>]
    BY <2>3, RepRegistered
  <2> QED
    BY <1>1, <2>1, <2>2, <2>4 DEF On
<1>3. UNCHANGED <<outstanding, reply, pStatus, runningTask>>
  BY DEF ProcessTskRepMsg, agnVars
<1> HIDE DEF m
<1>4. StatusesReported(a)'
  BY <1>1, <1>2, <1>3 DEF Story, StatusesReported
<1>5. EndsAgree(a)'
  <2> SUFFICES ASSUME NEW t \in Tasks
               PROVE  /\ taskRegistry'[<<a, t>>] \in Terminal =>
                           /\ \A i \in 1 .. Len(up'[a]) :
                                On(up'[a][i], t) => up'[a][i].status = taskRegistry'[<<a, t>>]
                           /\ On(outstanding[a], t) =>
                                outstanding[a].status = taskRegistry'[<<a, t>>]
                      /\ \A i \in 1 .. Len(up'[a]) :
                           On(up'[a][i], t) /\ up'[a][i].status \in Terminal =>
                             /\ \A j \in 1 .. Len(up'[a]) :
                                  j > i /\ On(up'[a][j], t) =>
                                    up'[a][j].status = up'[a][i].status
                             /\ On(outstanding[a], t) =>
                                  outstanding[a].status = up'[a][i].status
    BY <1>3 DEF EndsAgree, On
  <2>2. ASSUME taskRegistry'[<<a, t>>] \in Terminal
        PROVE  /\ \A i \in 1 .. Len(up'[a]) :
                    On(up'[a][i], t) => up'[a][i].status = taskRegistry'[<<a, t>>]
               /\ On(outstanding[a], t) =>
                    outstanding[a].status = taskRegistry'[<<a, t>>]
    <3>1. CASE t = u
      <4>1. s \in Terminal /\ taskRegistry'[<<a, t>>] = s
        BY <1>2, <2>2, <3>1
      <4>2. /\ \A j \in 1 .. Len(up[a]) : j > 1 /\ On(up[a][j], t) => up[a][j].status = s
            /\ On(outstanding[a], t) => outstanding[a].status = s
        BY <1>1, <1>2, <3>1, <4>1 DEF Story, EndsAgree
      <4> QED
        BY <1>1, <4>1, <4>2
    <3>2. CASE t # u
      BY <1>1, <1>2, <2>2, <3>2 DEF Story, EndsAgree
    <3> QED
      BY <3>1, <3>2
  <2>3. ASSUME NEW i \in 1 .. Len(up'[a]),
               On(up'[a][i], t), up'[a][i].status \in Terminal
        PROVE  /\ \A j \in 1 .. Len(up'[a]) :
                    j > i /\ On(up'[a][j], t) => up'[a][j].status = up'[a][i].status
               /\ On(outstanding[a], t) =>
                    outstanding[a].status = up'[a][i].status
    <3>1. i + 1 \in 1 .. Len(up[a]) /\ up'[a][i] = up[a][i + 1]
      BY <1>1
    <3>2. ASSUME NEW j \in 1 .. Len(up'[a]), j > i, On(up'[a][j], t)
          PROVE  up'[a][j].status = up'[a][i].status
      <4>1. /\ j + 1 \in 1 .. Len(up[a]) /\ up'[a][j] = up[a][j + 1]
            /\ j + 1 > i + 1
        BY <1>1, <3>2
      <4>2. /\ On(up[a][i + 1], t) /\ up[a][i + 1].status \in Terminal
            /\ On(up[a][j + 1], t)
        BY <2>3, <3>1, <3>2, <4>1
      <4>3. up[a][j + 1].status = up[a][i + 1].status
        BY <3>1, <4>1, <4>2, LaterAgrees
      <4> QED
        BY <3>1, <4>1, <4>3
    <3>3. On(outstanding[a], t) => outstanding[a].status = up'[a][i].status
      BY <2>3, <3>1 DEF Story, EndsAgree
    <3> QED
      BY <3>2, <3>3
  <2> QED
    BY <2>2, <2>3
<1>6. ASSUME pStatus[a] = "PROCESSING"
      PROVE  ~EndKnown(a, runningTask[a])'
  <2>1. runningTask[a] \in Tasks /\ ~EndKnown(a, runningTask[a])
    BY <1>6 DEF HoldInv, ReportsAreRegistered, Story, WorkIsOpen
  <2>2. taskRegistry'[<<a, runningTask[a]>>] \notin Terminal
    BY <1>1, <1>2, <2>1 DEF EndKnown
  <2> QED
    BY <1>1, <1>3, <2>1, <2>2 DEF EndKnown
<1>7. ASSUME reply[a] # NoTask
      PROVE  Silent(a, reply[a])'
  <2>1. reply[a] \in Tasks /\ Silent(a, reply[a])
    BY <1>7 DEF Story, WorkIsOpen, HoldInv, TypeOK
  <2>2. reply[a] # u
    BY <1>1, <1>2, <2>1 DEF Silent
  <2> QED
    BY <1>1, <1>2, <1>3, <2>1, <2>2 DEF Silent
<1> QED
  BY <1>3, <1>4, <1>5, <1>6, <1>7 DEF Story, WorkIsOpen

\* The container's tasks are not in an agent's story.
LEMMA StoryIdle ==
  ASSUME HoldInv, NEW a \in Agents, Story(a),
         UNCHANGED <<taskRegistry, up, outstanding, reply, pStatus, runningTask>>
  PROVE  Story(a)'
BY StoryKept DEF HoldInv

\* What one agent does, or TskMng for it, leaves the others alone.
LEMMA OthersLeftAlone ==
  ASSUME HoldInv, NEW a \in Agents, NEW b \in Agents \ {a},
         \/ MngStep(a) \/ AgentStep(a) \/ SendHostInfoUpdate(a)
         \/ Disconnect(a) \/ Reconnect(a)
  PROVE  /\ up'[b] = up[b] /\ outstanding'[b] = outstanding[b] /\ reply'[b] = reply[b]
         /\ pStatus'[b] = pStatus[b] /\ runningTask'[b] = runningTask[b]
<1>1. CASE MngStep(a)
  BY <1>1 DEF MngStep, ProcessTskRqstNoTask, ProcessTskRqstMsg, ProcessTskRepMsg,
              ProcessHostMonMsg, Receive, agnVars, HoldInv, TypeOK
<1>2. CASE AgentStep(a)
  <2>1. CASE SeeReply(a) \/ IgnoreTask(a) \/ FailToStartTask(a)
    BY <2>1 DEF SeeReply, IgnoreTask, FailToStartTask, TakeReply, sockVars, HoldInv, TypeOK
  <2>2. CASE StayIdle(a) \/ KeepWaiting(a) \/ StopWaiting(a) \/ FinishTask(a)
    BY <2>2 DEF StayIdle, KeepWaiting, StopWaiting, FinishTask, sockVars, HoldInv, TypeOK
  <2>3. CASE RequestTask(a)
    BY <2>3 DEF RequestTask, Send, HoldInv, TypeOK
  <2>4. CASE StartTask(a) \/ ReportTask(a)
    <3>1. PICK t, d : Report(a, t, d)
      BY <2>4 DEF StartTask, ReportTask
    <3>2. /\ up'[b] = up[b] /\ outstanding'[b] = outstanding[b] /\ reply'[b] = reply[b]
          /\ pStatus'[b] = pStatus[b]
      BY <3>1 DEF Report, Send, HoldInv, TypeOK
    <3>3. runningTask'[b] = runningTask[b]
      BY <2>4 DEF StartTask, ReportTask, HoldInv, TypeOK
    <3> QED
      BY <3>2, <3>3
  <2> QED
    BY <1>2, <2>1, <2>2, <2>3, <2>4 DEF AgentStep
<1>3. CASE SendHostInfoUpdate(a)
  BY <1>3 DEF SendHostInfoUpdate, Send, agnVars, HoldInv, TypeOK
<1>4. CASE Disconnect(a) \/ Reconnect(a)
  BY <1>4 DEF Disconnect, Reconnect, agnVars, HoldInv, TypeOK
<1> QED
  BY <1>1, <1>2, <1>3, <1>4

\* Nor does TskMng change the others' entries in the registry.
LEMMA OthersEntries ==
  ASSUME HoldInv, NEW a \in Agents, NEW b \in Agents \ {a},
         \/ MngStep(a) \/ AgentStep(a) \/ SendHostInfoUpdate(a)
         \/ Disconnect(a) \/ Reconnect(a)
  PROVE  \A t \in Tasks : taskRegistry'[<<b, t>>] = taskRegistry[<<b, t>>]
<1>1. CASE ProcessTskRqstMsg(a)
  BY <1>1 DEF ProcessTskRqstMsg, Register, HoldInv, TypeOK, Keys
<1>2. CASE ProcessTskRepMsg(a)
  BY <1>2, RepRegistered DEF Keys
<1>3. CASE ~(ProcessTskRqstMsg(a) \/ ProcessTskRepMsg(a))
  <2>1. UNCHANGED taskRegistry
    BY <1>3
    DEF MngStep, ProcessTskRqstNoTask, ProcessHostMonMsg, AgentStep, SeeReply, IgnoreTask,
        StartTask, FailToStartTask, StayIdle, RequestTask, KeepWaiting, StopWaiting,
        ReportTask, FinishTask, SendHostInfoUpdate, Disconnect, Reconnect, mngVars
  <2> QED
    BY <2>1
<1> QED
  BY <1>1, <1>2, <1>3

\* What one agent does, or TskMng for it, is not in the others' stories.
LEMMA StoryOfOthers ==
  ASSUME HoldInv, NEW a \in Agents, NEW b \in Agents \ {a}, Story(b),
         \/ MngStep(a) \/ AgentStep(a) \/ SendHostInfoUpdate(a)
         \/ Disconnect(a) \/ Reconnect(a)
  PROVE  Story(b)'
<1>1. /\ up'[b] = up[b] /\ outstanding'[b] = outstanding[b] /\ reply'[b] = reply[b]
      /\ pStatus'[b] = pStatus[b] /\ runningTask'[b] = runningTask[b]
  BY OthersLeftAlone
<1>2. \A t \in Tasks : taskRegistry'[<<b, t>>] = taskRegistry[<<b, t>>]
  BY OthersEntries
<1> QED
  BY <1>1, <1>2, StoryKept DEF HoldInv

\* What TskMng does for the agent.
LEMMA StoryOfMng ==
  ASSUME HoldInv, OwnerInv, NEW a \in Agents, Story(a), MngStep(a)
  PROVE  Story(a)'
<1>1. CASE ProcessTskRqstNoTask(a) \/ ProcessHostMonMsg(a)
  <2>1. PICK type \in {"TSKRQST", "HOSTMON"} : Receive(a, type)
    BY <1>1 DEF ProcessTskRqstNoTask, ProcessHostMonMsg
  <2>2. UNCHANGED <<taskRegistry, pStatus, runningTask, outstanding, reply>>
    BY <1>1 DEF ProcessTskRqstNoTask, ProcessHostMonMsg, mngVars, agnVars
  <2> QED
    BY <2>1, <2>2, StoryReceive DEF HoldInv
<1>2. CASE ProcessTskRqstMsg(a)
  <2> DEFINE t == Head(containerTasks)
  <2>1. t \in Tasks /\ ~Registered(<<a, t>>)
    BY <1>2, OwnerRqst
  <2>2. /\ Receive(a, "TSKRQST")
        /\ UNCHANGED <<pStatus, runningTask, outstanding>>
        /\ reply'[a] \in {reply[a], t}
    BY <1>2 DEF ProcessTskRqstMsg, agnVars, HoldInv, TypeOK
  <2>3. \A u \in Tasks : taskRegistry'[<<a, u>>] =
                           IF u = t THEN "SCHEDULED" ELSE taskRegistry[<<a, u>>]
    BY <1>2, <2>1 DEF ProcessTskRqstMsg, Register, HoldInv, TypeOK, Keys
  <2> HIDE DEF t
  <2>4. \A u \in Tasks : \/ taskRegistry'[<<a, u>>] = taskRegistry[<<a, u>>]
                         \/ /\ ~Registered(<<a, u>>)
                            /\ taskRegistry'[<<a, u>>] = "SCHEDULED"
    BY <2>1, <2>3
  <2>5. reply'[a] # NoTask =>
          \/ reply'[a] = reply[a]
          \/ /\ reply'[a] \in Tasks
             /\ taskRegistry'[<<a, reply'[a]>>] = "SCHEDULED"
             /\ ~Registered(<<a, reply'[a]>>)
    BY <2>1, <2>2, <2>3
  <2> QED
    BY <2>2, <2>4, <2>5, StoryReceive DEF HoldInv
<1>3. CASE ProcessTskRepMsg(a)
  BY <1>3, StoryReport
<1> QED
  BY <1>1, <1>2, <1>3 DEF MngStep

\* What the agent reports.
LEMMA StoryOfReport ==
  ASSUME HoldInv, NEW a \in Agents, Story(a), NEW t \in Tasks, NEW d \in DockerState,
         Report(a, t, d), ~EndKnown(a, t), runningTask'[a] = t, UNCHANGED taskRegistry
  PROVE  Story(a)'
<1>1. PICK m \in Messages :
        /\ Send(a, m)
        /\ m.task = t /\ m.status = StatusOf[d] /\ m.status \in Reported
  <2>1. TskRep(t, StatusOf[d]) \in Messages /\ StatusOf[d] \in Reported
    BY ReportedStatuses, StatusOfType, MessagesType
  <2>2. TskRep(t, StatusOf[d]).task = t /\ TskRep(t, StatusOf[d]).status = StatusOf[d]
    BY DEF TskRep
  <2>3. Send(a, TskRep(t, StatusOf[d]))
    BY DEF Report
  <2> QED
    BY <2>1, <2>2, <2>3
<1>2. pStatus'[a] = "PROCESSING" => StatusOf[d] \notin Terminal
  BY DEF Report, HoldInv, TypeOK
<1> QED
  BY <1>1, <1>2, StorySend DEF HoldInv

\* What the agent does.
LEMMA StoryOfAgent ==
  ASSUME HoldInv, NEW a \in Agents, Story(a), AgentStep(a) \/ SendHostInfoUpdate(a)
  PROVE  Story(a)'
<1>1. CASE SeeReply(a) \/ StayIdle(a) \/ KeepWaiting(a) \/ StopWaiting(a) \/ FinishTask(a)
  <2>1. /\ UNCHANGED <<taskRegistry, up, outstanding, reply>>
        /\ pStatus'[a] = "PROCESSING" => pStatus[a] = "PROCESSING" /\ runningTask'[a] = runningTask[a]
    BY <1>1 DEF SeeReply, StayIdle, KeepWaiting, StopWaiting, FinishTask, mngVars, sockVars,
                HoldInv, TypeOK
  <2> QED
    BY <2>1, StoryKept DEF HoldInv
<1>2. CASE IgnoreTask(a) \/ FailToStartTask(a)
  <2>1. /\ UNCHANGED <<taskRegistry, up>>
        /\ outstanding'[a] = NoMsg /\ reply'[a] = NoTask
        /\ pStatus'[a] = "PROCESSING" => pStatus[a] = "PROCESSING" /\ runningTask'[a] = runningTask[a]
    BY <1>2 DEF IgnoreTask, FailToStartTask, mngVars, HoldInv, TypeOK
  <2> QED
    BY <2>1, StoryKept DEF HoldInv
<1>3. CASE RequestTask(a)
  <2>1. /\ Send(a, TskRqst) /\ TskRqst \in Messages /\ TskRqst.type # "TSKREP"
        /\ UNCHANGED taskRegistry
        /\ pStatus'[a] # "PROCESSING"
    BY <1>3, MessagesType DEF RequestTask, TskRqst, mngVars, HoldInv, TypeOK
  <2> QED
    BY <2>1, StorySend DEF HoldInv
<1>4. CASE SendHostInfoUpdate(a)
  <2>1. /\ Send(a, HostMon) /\ HostMon \in Messages /\ HostMon.type # "TSKREP"
        /\ UNCHANGED <<taskRegistry, pStatus, runningTask>>
    BY <1>4, MessagesType DEF SendHostInfoUpdate, HostMon, mngVars, agnVars
  <2>2. pStatus[a] = "PROCESSING" => runningTask[a] \in Tasks /\ ~EndKnown(a, runningTask[a])
    BY DEF Story, WorkIsOpen, HoldInv, ReportsAreRegistered
  <2> QED
    BY <2>1, <2>2, StorySend DEF HoldInv
<1>5. CASE ReportTask(a)
  <2>1. PICK t \in Tasks : t = runningTask[a] /\ ~EndKnown(a, t) /\ container[t] \in DockerState
    BY <1>5 DEF ReportTask, Iterating, Story, WorkIsOpen, HoldInv, ReportsAreRegistered,
                StartedTasksHaveContainers, TypeOK
  <2>2. Report(a, t, container[t]) /\ runningTask'[a] = t /\ UNCHANGED taskRegistry
    BY <1>5, <2>1 DEF ReportTask, mngVars
  <2> QED
    BY <2>1, <2>2, StoryOfReport
<1>6. CASE StartTask(a)
  <2>1. PICK t \in Tasks : t = reply[a] /\ Silent(a, t)
    BY <1>6 DEF StartTask, TakeReply, Story, WorkIsOpen, HoldInv, TypeOK
  <2>2. ~EndKnown(a, t)
    BY <2>1, ReportedStatuses DEF Silent, EndKnown, Terminal
  <2>3. PICK d \in DockerState : Report(a, t, d)
    BY <1>6, <2>1 DEF StartTask
  <2>4. runningTask'[a] = t /\ UNCHANGED taskRegistry
    BY <1>6, <2>1 DEF StartTask, mngVars, HoldInv, TypeOK
  <2> QED
    BY <2>2, <2>3, <2>4, StoryOfReport
<1> QED
  BY <1>1, <1>2, <1>3, <1>4, <1>5, <1>6 DEF AgentStep

\* What the connection does.
LEMMA StoryOfLink ==
  ASSUME HoldInv, NEW a \in Agents, Story(a), Disconnect(a) \/ Reconnect(a)
  PROVE  Story(a)'
<1>1. /\ up'[a] \in {<<>>, <<outstanding[a]>>}
      /\ outstanding'[a] \in {NoMsg, outstanding[a]}
      /\ reply'[a] \in {NoTask, reply[a]}
      /\ UNCHANGED <<taskRegistry, pStatus, runningTask>>
  BY DEF Disconnect, Reconnect, mngVars, agnVars, HoldInv, TypeOK
<1> QED
  BY <1>1, StoryKept DEF HoldInv

\* Every step preserves every agent's story.
LEMMA StoryNext ==
  ASSUME HoldInv, OwnerInv, NEW b \in Agents, Story(b), [Next]_vars
  PROVE  Story(b)'
<1>1. CASE UNCHANGED vars
  BY <1>1, StoryIdle DEF vars, mngVars, agnVars, sockVars
<1>2. ASSUME NEW t \in Tasks, ProcessTskSchedMsg(t) \/ ContainerChanges(t) \/ ContainerEnds(t)
      PROVE  Story(b)'
  BY <1>2, StoryIdle
  DEF ProcessTskSchedMsg, ContainerChanges, ContainerEnds, mngVars, agnVars, sockVars
<1>3. ASSUME NEW a \in Agents,
             \/ MngStep(a) \/ AgentStep(a) \/ SendHostInfoUpdate(a)
             \/ Disconnect(a) \/ Reconnect(a)
      PROVE  Story(b)'
  <2>1. CASE a = b
    BY <1>3, <2>1, StoryOfMng, StoryOfAgent, StoryOfLink
  <2>2. CASE a # b
    BY <1>3, <2>2, StoryOfOthers
  <2> QED
    BY <2>1, <2>2
<1> QED
  BY <1>1, <1>2, <1>3 DEF Next

\* What the theorems below rest on.
StoryInv ==
  /\ HoldInv
  /\ OwnerInv
  /\ \A a \in Agents : Story(a)

LEMMA StoryInvInit ==
  Init => StoryInv
BY HoldInit, OwnerInit, StoryInit DEF StoryInv

LEMMA StoryInvNext ==
  StoryInv /\ [Next]_vars => StoryInv'
<1> SUFFICES ASSUME StoryInv, [Next]_vars
             PROVE  StoryInv'
  OBVIOUS
<1>1. HoldInv' /\ OwnerInv'
  BY HoldNext, OwnerNext DEF StoryInv
<1>2. ASSUME NEW a \in Agents
      PROVE  Story(a)'
  BY StoryNext DEF StoryInv
<1> QED
  BY <1>1, <1>2 DEF StoryInv

\* A report never makes the registry invent an entry: agents hold, and
\* connections carry, reports on registered tasks only.
THEOREM ReportsRegistered ==
  Spec => []ReportsAreRegistered
<1>1. HoldInv => ReportsAreRegistered
  BY DEF HoldInv
<1> QED
  BY HoldInit, HoldNext, <1>1, PTL DEF Spec
-----------------------------------------------------------------------------
(* The dispatch implements TaskLife.                                       *)

\* A registered task is owned, and published under its status.
LEMMA OwnerFound ==
  ASSUME SingleOwner, NEW a \in Agents, NEW t \in Tasks, Registered(<<a, t>>)
  PROVE  /\ Owner(t) = a
         /\ Published(t) = IF taskRegistry[<<a, t>>] = "SCHEDULED" THEN "none"
                           ELSE taskRegistry[<<a, t>>]
<1>1. Owner(t) = a
  BY DEF SingleOwner, Owner
<1>2. a # NoTask
  BY DispatchAssumption
<1> QED
  BY <1>1, <1>2 DEF Published

\* A task that is not registered has no owner.
LEMMA OwnerMissing ==
  ASSUME NEW t \in Tasks, ~\E a \in Agents : Registered(<<a, t>>)
  PROVE  Owner(t) = NoTask /\ Published(t) = "none"
BY DEF Owner, Published

\* Owner and status of a task are those of its entries.
LEMMA OwnerFrameOf ==
  ASSUME SingleOwner, SingleOwner', NEW t \in Tasks,
         \A a \in Agents : taskRegistry'[<<a, t>>] = taskRegistry[<<a, t>>]
  PROVE  Owner(t)' = Owner(t) /\ Published(t)' = Published(t)
<1>1. CASE \E a \in Agents : Registered(<<a, t>>)
  <2>1. PICK a \in Agents : Registered(<<a, t>>)
    BY <1>1
  <2>2. Owner(t) = a /\ a # NoTask
    BY <2>1, OwnerFound, DispatchAssumption
  <2>3. Registered(<<a, t>>)'
    BY <2>1 DEF Registered
  <2>4. Owner(t)' = a
    BY <2>3 DEF SingleOwner, Owner
  <2> QED
    BY <2>2, <2>4 DEF Published
<1>2. CASE ~\E a \in Agents : Registered(<<a, t>>)
  <2>1. ~\E a \in Agents : Registered(<<a, t>>)'
    BY <1>2 DEF Registered
  <2>2. Owner(t)' = NoTask /\ Owner(t) = NoTask
    BY <1>2, <2>1 DEF Owner
  <2> QED
    BY <2>2 DEF Published
<1> QED
  BY <1>1, <1>2

\* Nothing has happened to any task at first.
LEMMA LifeInit ==
  Init => Life!Init
<1> SUFFICES ASSUME Init
             PROVE  Life!Init
  OBVIOUS
<1>1. \A t \in Tasks : ~\E a \in Agents : Registered(<<a, t>>)
  BY DEF Init, Registered, Keys
<1>2. \A t \in Tasks : Owner(t) = NoTask /\ Published(t) = "none"
  BY <1>1, OwnerMissing
<1> QED
  BY <1>2 DEF Init, Life!Init

\* The first task of the pool is given to the agent that asked.
LEMMA LifeIssue ==
  ASSUME StoryInv, StoryInv', NEW a \in Agents, ProcessTskRqstMsg(a)
  PROVE  Life!Issue(a)
<1>1. PICK h \in Tasks :
        /\ h = Head(containerTasks) /\ containerTasks # <<>>
        /\ \A b \in Agents : ~Registered(<<b, h>>)
  <2>1. /\ Head(containerTasks) \in Tasks /\ containerTasks # <<>>
        /\ InPool(Head(containerTasks))
    BY DEF ProcessTskRqstMsg, InPool, StoryInv, HoldInv, TypeOK
  <2> QED
    BY <2>1 DEF StoryInv, OwnerInv, SingleOwner
<1>2. \A b \in Agents, u \in Tasks : taskRegistry'[<<b, u>>] =
        IF b = a /\ u = h THEN "SCHEDULED" ELSE taskRegistry[<<b, u>>]
  BY <1>1 DEF ProcessTskRqstMsg, Register, StoryInv, HoldInv, TypeOK, Keys
<1>3. Owner(h) = NoTask /\ Published(h) = "none"
  BY <1>1, OwnerMissing
<1>4. Owner(h)' = a /\ Published(h)' = "none"
  <2>1. Registered(<<a, h>>)' /\ taskRegistry'[<<a, h>>] = "SCHEDULED"
    BY <1>2 DEF Registered
  <2>2. Owner(h)' = a
    BY <2>1 DEF StoryInv, OwnerInv, SingleOwner, Owner
  <2> QED
    BY <2>1, <2>2, DispatchAssumption DEF Published
<1>5. \A u \in Tasks : u # h => Owner(u)' = Owner(u) /\ Published(u)' = Published(u)
  BY <1>2, OwnerFrameOf DEF StoryInv, OwnerInv
<1>6. [t \in Tasks |-> Owner(t)]' = [[t \in Tasks |-> Owner(t)] EXCEPT ![h] = a]
  BY <1>4, <1>5
<1>7. [t \in Tasks |-> Published(t)]' = [t \in Tasks |-> Published(t)]
  BY <1>3, <1>4, <1>5
<1>8. containerTasks' = Tail(containerTasks) /\ UNCHANGED scheduled
  BY DEF ProcessTskRqstMsg, PopTask
<1> QED
  BY <1>1, <1>3, <1>6, <1>7, <1>8 DEF Life!Issue

\* A report repeats the end that is known, or publishes a status.
LEMMA ReportPublishes ==
  ASSUME StoryInv, StoryInv', NEW a \in Agents, ProcessTskRepMsg(a)
  PROVE  \E t \in Tasks, s \in {"RUNNING", "PAUSED"} \cup Terminal :
           /\ Head(up[a]).task = t /\ Head(up[a]).status = s
           /\ \/ /\ UNCHANGED Life!vars
                 /\ taskRegistry[<<a, t>>] = s /\ Published(t) = s
              \/ /\ Life!Publish(t, s)
                 /\ taskRegistry[<<a, t>>] \notin Terminal
<1>1. PICK u \in Tasks, s \in Reported :
        /\ On(up[a][1], u) /\ up[a][1].status = s /\ 1 \in 1 .. Len(up[a])
        /\ Head(up[a]) = up[a][1]
        /\ Registered(<<a, u>>)
        /\ \A b \in Agents, t \in Tasks : taskRegistry'[<<b, t>>] =
             IF b = a /\ t = u THEN s ELSE taskRegistry[<<b, t>>]
  <2> DEFINE m == Head(up[a])
  <2>1. m \in Reports /\ m.task \in Tasks /\ m.type = "TSKREP" /\ Registered(<<a, m.task>>)
    BY RepRegistered DEF Reports, StoryInv
  <2>2. m = up[a][1] /\ 1 \in 1 .. Len(up[a])
    BY DEF ProcessTskRepMsg, Receive, StoryInv, HoldInv, TypeOK
  <2>3. m.status \in Reported
    BY <2>1, <2>2 DEF StoryInv, Story, StatusesReported
  <2>4. \A b \in Agents, t \in Tasks :
          <<b, t>> \in Keys /\ (<<b, t>> = <<a, m.task>> <=> b = a /\ t = m.task)
    BY DEF Keys
  <2>5. \A b \in Agents, t \in Tasks : taskRegistry'[<<b, t>>] =
          IF b = a /\ t = m.task THEN m.status ELSE taskRegistry[<<b, t>>]
    BY <2>4, RepRegistered DEF StoryInv
  <2> QED
    BY <2>1, <2>2, <2>3, <2>5 DEF On
<1>2. UNCHANGED <<containerTasks, scheduled>>
  BY DEF ProcessTskRepMsg
<1>3. \A t \in Tasks : t # u => Owner(t)' = Owner(t) /\ Published(t)' = Published(t)
  BY <1>1, OwnerFrameOf DEF StoryInv, OwnerInv
<1>4. /\ Head(up[a]).task = u /\ Head(up[a]).status = s
      /\ s \in {"RUNNING", "PAUSED"} \cup Terminal
  BY <1>1 DEF On, Reported, Terminal
<1>5. CASE taskRegistry[<<a, u>>] \in Terminal
  <2>1. s = taskRegistry[<<a, u>>]
    BY <1>1, <1>5 DEF StoryInv, Story, EndsAgree
  <2>2. Owner(u)' = Owner(u) /\ Published(u)' = Published(u)
    BY <1>1, <2>1, OwnerFrameOf DEF StoryInv, OwnerInv
  <2>3. /\ [t \in Tasks |-> Owner(t)]' = [t \in Tasks |-> Owner(t)]
        /\ [t \in Tasks |-> Published(t)]' = [t \in Tasks |-> Published(t)]
    BY <1>3, <2>2
  <2>4. UNCHANGED Life!vars
    BY <1>2, <2>3 DEF Life!vars
  <2>5. Published(u) = s
    BY <1>1, <2>1, OwnerFound, ReportedStatuses DEF StoryInv, OwnerInv
  <2> QED
    BY <1>4, <2>1, <2>4, <2>5
<1>6. CASE taskRegistry[<<a, u>>] \notin Terminal
  <2>1. Owner(u) = a /\ Published(u) \notin Terminal /\ a # NoTask
    <3>1. "none" \notin Terminal
      BY DEF Terminal
    <3> QED
      BY <1>1, <1>6, <3>1, OwnerFound, DispatchAssumption DEF StoryInv, OwnerInv
  <2>2. Owner(u)' = a /\ Published(u)' = s
    <3>1. taskRegistry'[<<a, u>>] = s /\ s # "none" /\ s # "SCHEDULED"
      BY <1>1, ReportedStatuses
    <3>2. Owner(u)' = a
      BY <3>1 DEF StoryInv, OwnerInv, SingleOwner, Owner, Registered
    <3> QED
      BY <2>1, <3>1, <3>2 DEF Published
  <2>3. [t \in Tasks |-> Owner(t)]' = [t \in Tasks |-> Owner(t)]
    BY <1>3, <2>1, <2>2
  <2>4. [t \in Tasks |-> Published(t)]' = [[t \in Tasks |-> Published(t)] EXCEPT ![u] = s]
    BY <1>3, <2>2
  <2>5. Life!Publish(u, s)
    BY <1>2, <2>1, <2>3, <2>4 DEF Life!Publish
  <2> QED
    BY <1>4, <1>6, <2>5
<1> QED
  BY <1>5, <1>6

LEMMA LifeReport ==
  ASSUME StoryInv, StoryInv', NEW a \in Agents, ProcessTskRepMsg(a)
  PROVE  [Life!Next]_(Life!vars)
BY ReportPublishes DEF Life!Next

\* TaskLife looks at the pool, the registry and the tasks scheduled.
LEMMA LifeKept ==
  ASSUME StoryInv, StoryInv', UNCHANGED <<containerTasks, taskRegistry, scheduled>>
  PROVE  UNCHANGED Life!vars
<1>1. \A t \in Tasks : Owner(t)' = Owner(t) /\ Published(t)' = Published(t)
  BY OwnerFrameOf DEF StoryInv, OwnerInv
<1> QED
  BY <1>1 DEF Life!vars

LEMMA LifeSchedule ==
  ASSUME StoryInv, StoryInv', NEW t \in Tasks, ProcessTskSchedMsg(t)
  PROVE  Life!Schedule(t)
<1>1. \A u \in Tasks : Owner(u)' = Owner(u) /\ Published(u)' = Published(u)
  BY OwnerFrameOf DEF StoryInv, OwnerInv, ProcessTskSchedMsg
<1> QED
  BY <1>1 DEF ProcessTskSchedMsg, Life!Schedule

\* What TaskLife does not tell from no step.
LEMMA LifeQuiet ==
  ASSUME StoryInv, StoryInv',
         \/ UNCHANGED vars
         \/ \E t \in Tasks : ContainerChanges(t) \/ ContainerEnds(t)
         \/ \E a \in Agents :
              \/ ProcessTskRqstNoTask(a) \/ ProcessHostMonMsg(a) \/ AgentStep(a)
              \/ SendHostInfoUpdate(a) \/ Disconnect(a) \/ Reconnect(a)
  PROVE  UNCHANGED Life!vars
<1>1. ASSUME NEW t \in Tasks, ContainerChanges(t) \/ ContainerEnds(t)
      PROVE  UNCHANGED <<containerTasks, taskRegistry, scheduled>>
  BY <1>1 DEF ContainerChanges, ContainerEnds, mngVars
<1>2. ASSUME NEW a \in Agents,
             \/ ProcessTskRqstNoTask(a) \/ ProcessHostMonMsg(a) \/ AgentStep(a)
             \/ SendHostInfoUpdate(a) \/ Disconnect(a) \/ Reconnect(a)
      PROVE  UNCHANGED <<containerTasks, taskRegistry, scheduled>>
  BY <1>2
  DEF ProcessTskRqstNoTask, ProcessHostMonMsg, AgentStep, SeeReply, IgnoreTask, StartTask,
      FailToStartTask, StayIdle, RequestTask, KeepWaiting, StopWaiting, ReportTask, FinishTask,
      SendHostInfoUpdate, Disconnect, Reconnect, mngVars
<1>3. CASE UNCHANGED vars
  BY <1>3, LifeKept DEF vars, mngVars
<1> QED
  BY <1>1, <1>2, <1>3, LifeKept

\* Every step is one of TaskLife, or none.
LEMMA LifeNext ==
  StoryInv /\ [Next]_vars => [Life!Next]_(Life!vars)
<1> SUFFICES ASSUME StoryInv, [Next]_vars
             PROVE  [Life!Next]_(Life!vars)
  OBVIOUS
<1>1. StoryInv'
  BY StoryInvNext
<1>2. ASSUME NEW t \in Tasks, ProcessTskSchedMsg(t)
      PROVE  Life!Next
  BY <1>1, <1>2, LifeSchedule DEF Life!Next
<1>3. ASSUME NEW a \in Agents, ProcessTskRqstMsg(a)
      PROVE  Life!Next
  BY <1>1, <1>3, LifeIssue DEF Life!Next
<1>4. ASSUME NEW a \in Agents, ProcessTskRepMsg(a)
      PROVE  [Life!Next]_(Life!vars)
  BY <1>1, <1>4, LifeReport
<1> QED
  BY <1>1, <1>2, <1>3, <1>4, LifeQuiet DEF Next, MngStep

\* The dispatch is an implementation of TaskLife: first come, first served, one
\* owner for good, and nothing but the same end after the end of a task.
THEOREM DispatchImplementsTaskLife ==
  Spec => ImplementsTaskLife
<1> QED
  BY StoryInvInit, StoryInvNext, LifeInit, LifeNext, PTL DEF Spec, ImplementsTaskLife, Life!Spec
-----------------------------------------------------------------------------
(* The outcomes are true.                                                  *)

\* The agent holds the message, to be delivered or to be sent again.
Holds(a, m) ==
  \/ m = outstanding[a]
  \/ \E i \in 1 .. Len(up[a]) : up[a][i] = m

\* The state of the task's container agrees with the status.
TrueStatus(t, s) ==
  /\ s = "FINISHED" => container[t] = "exited0"
  /\ s = "FAILED"   => container[t] = "exited1"

\* The registry's status of the task and those in the agent's reports.
Says(a, t, s) ==
  \/ taskRegistry[<<a, t>>] = s
  \/ \E m \in Reports : Holds(a, m) /\ m.task = t /\ m.status = s

Outcomes ==
  \A a \in Agents, t \in Tasks, s \in TaskStatus :
    Says(a, t, s) => TrueStatus(t, s)

\* The agent sends a report on a container in this state.
Reporting(a, t, d) ==
  /\ Report(a, t, d)
  /\ container'[t] = d

LEMMA OutcomesInit ==
  Init => Outcomes
<1> SUFFICES ASSUME Init, NEW a \in Agents, NEW t \in Tasks, NEW s \in TaskStatus,
                    Says(a, t, s)
             PROVE  FALSE
  BY DEF Outcomes
<1>1. taskRegistry[<<a, t>>] = "none" /\ outstanding[a] = NoMsg /\ Len(up[a]) = 0
  BY DEF Init, Keys
<1>2. s # "none"
  BY DEF TaskStatus
<1>3. \A m \in Reports : m # NoMsg
  BY DEF Reports, NoMsg
<1> QED
  BY <1>1, <1>2, <1>3 DEF Says, Holds

\* What an agent holds was held before, or is a report that is sent now, or
\* is no report.
LEMMA HoldsNext ==
  ASSUME StoryInv, [Next]_vars, NEW a \in Agents, NEW m \in Reports, Holds(a, m)'
  PROVE  \/ Holds(a, m)
         \/ \E d \in DockerState : Reporting(a, m.task, d) /\ m.status = StatusOf[d]
<1>1. ASSUME up'[a] = up[a], outstanding'[a] = outstanding[a]
      PROVE  Holds(a, m)
  BY <1>1 DEF Holds
<1>2. ASSUME NEW n \in Messages, Send(a, n), m # n
      PROVE  Holds(a, m)
  <2>1. /\ outstanding'[a] = n
        /\ up[a] \in Seq(Messages)
        /\ up'[a] = up[a] \/ up'[a] = Append(up[a], n)
    BY <1>2 DEF Send, StoryInv, HoldInv, TypeOK
  <2>2. \A i \in 1 .. Len(up'[a]) : up'[a][i] = n \/ \E j \in 1 .. Len(up[a]) : up'[a][i] = up[a][j]
    BY <2>1
  <2> QED
    BY <1>2, <2>1, <2>2 DEF Holds
<1>3. ASSUME NEW t \in Tasks, NEW d \in DockerState, Reporting(a, t, d)
      PROVE  \/ Holds(a, m)
             \/ Reporting(a, m.task, d) /\ m.status = StatusOf[d]
  <2>1. PICK n \in Messages : Send(a, n) /\ n.task = t /\ n.status = StatusOf[d]
    <3>1. TskRep(t, StatusOf[d]) \in Messages
      BY StatusOfType, MessagesType
    <3>2. TskRep(t, StatusOf[d]).task = t /\ TskRep(t, StatusOf[d]).status = StatusOf[d]
      BY DEF TskRep
    <3> QED
      BY <1>3, <3>1, <3>2 DEF Reporting, Report
  <2> QED
    BY <1>2, <1>3, <2>1
<1>4. CASE UNCHANGED vars
  BY <1>1, <1>4 DEF vars, sockVars
<1>5. ASSUME NEW t \in Tasks, ProcessTskSchedMsg(t) \/ ContainerChanges(t) \/ ContainerEnds(t)
      PROVE  Holds(a, m)
  BY <1>1, <1>5 DEF ProcessTskSchedMsg, ContainerChanges, ContainerEnds, sockVars
<1>6. CASE MngStep(a)
  <2>1. PICK type : Receive(a, type) /\ outstanding' = outstanding
    BY <1>6 DEF MngStep, ProcessTskRqstNoTask, ProcessTskRqstMsg, ProcessTskRepMsg, ProcessHostMonMsg
  <2>2. /\ Len(up'[a]) = Len(up[a]) - 1 /\ Len(up[a]) \in Nat
        /\ \A i \in 1 .. Len(up'[a]) : up'[a][i] = up[a][i + 1]
    BY <2>1, ReceiveType DEF StoryInv, HoldInv
  <2> QED
    BY <2>1, <2>2 DEF Holds
<1>7. CASE Disconnect(a) \/ Reconnect(a)
  <2>1. /\ up'[a] \in {<<>>, <<outstanding[a]>>}
        /\ outstanding'[a] \in {NoMsg, outstanding[a]}
    BY <1>7 DEF Disconnect, Reconnect, StoryInv, HoldInv, TypeOK
  <2>2. \A i \in 1 .. Len(up'[a]) : up'[a][i] = outstanding[a]
    BY <2>1
  <2>3. m # NoMsg
    BY DEF Reports, NoMsg
  <2> QED
    BY <2>1, <2>2, <2>3 DEF Holds
<1>8. CASE SendHostInfoUpdate(a) \/ RequestTask(a)
  <2>1. PICK n \in {HostMon, TskRqst} : Send(a, n)
    BY <1>8 DEF SendHostInfoUpdate, RequestTask
  <2>2. n \in Messages /\ m # n
    BY MessagesType DEF HostMon, TskRqst, Reports
  <2> QED
    BY <1>2, <2>1, <2>2
<1>9. CASE SeeReply(a) \/ StayIdle(a) \/ KeepWaiting(a) \/ StopWaiting(a) \/ FinishTask(a)
  BY <1>1, <1>9 DEF SeeReply, StayIdle, KeepWaiting, StopWaiting, FinishTask, sockVars
<1>10. CASE IgnoreTask(a) \/ FailToStartTask(a)
  <2>1. up'[a] = up[a] /\ outstanding'[a] = NoMsg
    BY <1>10 DEF IgnoreTask, FailToStartTask, StoryInv, HoldInv, TypeOK
  <2>2. m # NoMsg
    BY DEF Reports, NoMsg
  <2> QED
    BY <2>1, <2>2 DEF Holds
<1>11. CASE ReportTask(a)
  <2>1. PICK t \in Tasks : t = runningTask[a] /\ container[t] \in DockerState
    BY <1>11 DEF ReportTask, Iterating, StoryInv, HoldInv, ReportsAreRegistered,
                 StartedTasksHaveContainers, TypeOK
  <2>2. Reporting(a, t, container[t])
    BY <1>11, <2>1 DEF ReportTask, Reporting
  <2> QED
    BY <1>3, <2>1, <2>2
<1>12. CASE StartTask(a)
  <2>1. PICK t \in Tasks : t = reply[a]
    BY <1>12 DEF StartTask, TakeReply, StoryInv, HoldInv, TypeOK
  <2>2. PICK d \in DockerState : Reporting(a, t, d)
    BY <1>12, <2>1 DEF StartTask, Reporting, StoryInv, HoldInv, TypeOK
  <2> QED
    BY <1>3, <2>2
<1>13. ASSUME NEW b \in Agents \ {a},
              \/ MngStep(b) \/ AgentStep(b) \/ SendHostInfoUpdate(b)
              \/ Disconnect(b) \/ Reconnect(b)
       PROVE  Holds(a, m)
  BY <1>1, <1>13, OthersLeftAlone DEF StoryInv
<1> QED
  BY <1>4, <1>5, <1>6, <1>7, <1>8, <1>9, <1>10, <1>11, <1>12, <1>13 DEF Next, AgentStep

\* What the registry says was there, or is "SCHEDULED", or was reported.
LEMMA SaysNext ==
  ASSUME StoryInv, [Next]_vars, NEW a \in Agents, NEW t \in Tasks, NEW s \in TaskStatus,
         s # "SCHEDULED", Says(a, t, s)'
  PROVE  \/ Says(a, t, s)
         \/ \E d \in DockerState : Reporting(a, t, d) /\ s = StatusOf[d]
<1>1. CASE \E m \in Reports : Holds(a, m)' /\ m.task = t /\ m.status = s
  BY <1>1, HoldsNext DEF Says
<1>2. CASE taskRegistry'[<<a, t>>] = s
  <2>1. CASE taskRegistry'[<<a, t>>] = taskRegistry[<<a, t>>]
    BY <1>2, <2>1 DEF Says
  <2>2. ASSUME NEW b \in Agents, ProcessTskRqstMsg(b)
        PROVE  taskRegistry'[<<a, t>>] \in {taskRegistry[<<a, t>>], "SCHEDULED"}
    BY <2>2 DEF ProcessTskRqstMsg, Register, StoryInv, HoldInv, TypeOK, Keys
  <2>3. ASSUME NEW b \in Agents, ProcessTskRepMsg(b),
               taskRegistry'[<<a, t>>] # taskRegistry[<<a, t>>]
        PROVE  Says(a, t, s)
    <3>1. PICK m \in Reports : m = Head(up[b]) /\ b = a /\ m.task = t /\ m.status = s
      BY <1>2, <2>3, RepRegistered DEF StoryInv, Keys
    <3>2. Head(up[b]) = up[b][1] /\ 1 \in 1 .. Len(up[b])
      BY <2>3 DEF ProcessTskRepMsg, Receive, StoryInv, HoldInv, TypeOK
    <3> QED
      BY <3>1, <3>2 DEF Says, Holds
  <2>4. CASE ~\E b \in Agents : ProcessTskRqstMsg(b) \/ ProcessTskRepMsg(b)
    BY <1>2, <2>4, CountersFrame DEF Says
  <2> QED
    BY <1>2, <2>1, <2>2, <2>3, <2>4
<1> QED
  BY <1>1, <1>2 DEF Says

\* The container of a task whose outcome was said does not change any more.
LEMMA OutcomeStays ==
  ASSUME StoryInv, Outcomes, [Next]_vars, NEW a \in Agents, NEW t \in Tasks,
         NEW s \in {"FINISHED", "FAILED"}, Says(a, t, s)
  PROVE  container'[t] = container[t]
<1>1. container[t] \in {"exited0", "exited1"}
  BY DEF Outcomes, TrueStatus, TaskStatus
<1>2. Registered(<<a, t>>) /\ ~Silent(a, t)
  <2>1. CASE taskRegistry[<<a, t>>] = s
    BY <2>1 DEF Registered, Silent
  <2>2. CASE \E m \in Reports : Holds(a, m) /\ m.task = t /\ m.status = s
    BY <2>2 DEF Holds, Reports, StoryInv, HoldInv, ReportsAreRegistered, Silent, On
  <2> QED
    BY <2>1, <2>2 DEF Says
<1>3. ASSUME NEW u \in Tasks, ContainerChanges(u) \/ ContainerEnds(u)
      PROVE  container'[t] = container[t]
  BY <1>1, <1>3 DEF ContainerChanges, ContainerEnds, DockerAlive, StoryInv, HoldInv, TypeOK
<1>4. ASSUME NEW b \in Agents, StartTask(b)
      PROVE  container'[t] = container[t]
  <2>1. PICK u \in Tasks : u = reply[b] /\ Registered(<<b, u>>) /\ Silent(b, u)
    BY <1>4 DEF StartTask, TakeReply, StoryInv, HoldInv, TypeOK, RepliesAreRegistered, Story,
                WorkIsOpen
  <2>2. u # t
    BY <1>2, <2>1 DEF StoryInv, OwnerInv, SingleOwner
  <2> QED
    BY <1>4, <2>1, <2>2 DEF StartTask, StoryInv, HoldInv, TypeOK
<1>5. ASSUME NEW b \in Agents,
             \/ MngStep(b) \/ (AgentStep(b) /\ ~StartTask(b)) \/ SendHostInfoUpdate(b)
             \/ Disconnect(b) \/ Reconnect(b)
      PROVE  container' = container
  BY <1>5
  DEF MngStep, ProcessTskRqstNoTask, ProcessTskRqstMsg, ProcessTskRepMsg, ProcessHostMonMsg,
      AgentStep, SeeReply, IgnoreTask, FailToStartTask, StayIdle, RequestTask, KeepWaiting,
      StopWaiting, ReportTask, FinishTask, SendHostInfoUpdate, Disconnect, Reconnect
<1>6. ASSUME NEW u \in Tasks, ProcessTskSchedMsg(u)
      PROVE  container' = container
  BY <1>6 DEF ProcessTskSchedMsg
<1>7. CASE UNCHANGED vars
  BY <1>7 DEF vars
<1> QED
  BY <1>3, <1>4, <1>5, <1>6, <1>7 DEF Next

LEMMA OutcomesNext ==
  StoryInv /\ Outcomes /\ [Next]_vars => Outcomes'
<1> SUFFICES ASSUME StoryInv, Outcomes, [Next]_vars,
                    NEW a \in Agents, NEW t \in Tasks, NEW s \in TaskStatus, Says(a, t, s)'
             PROVE  TrueStatus(t, s)'
  BY DEF Outcomes
<1>1. CASE s \notin {"FINISHED", "FAILED"}
  BY <1>1 DEF TrueStatus
<1>2. CASE s \in {"FINISHED", "FAILED"} /\ Says(a, t, s)
  BY <1>2, OutcomeStays DEF Outcomes, TrueStatus
<1>3. ASSUME s \in {"FINISHED", "FAILED"},
             NEW d \in DockerState, Reporting(a, t, d), s = StatusOf[d]
      PROVE  TrueStatus(t, s)'
  BY <1>3 DEF TrueStatus, Reporting, StatusOf, DockerState, DockerAlive, DockerEnded
<1> QED
  BY <1>1, <1>2, <1>3, SaysNext

\* A terminal status in the registry is the truth about the container,
\* whichever reports were lost, late or repeated.
THEOREM OutcomesAreTrue ==
  Spec => []OutcomeIsTrue
<1>1. StoryInv /\ Outcomes => OutcomeIsTrue
  BY DEF Outcomes, Says, TrueStatus, OutcomeIsTrue, Keys, TaskStatus
<1> QED
  BY StoryInvInit, StoryInvNext, OutcomesInit, OutcomesNext, <1>1, PTL DEF Spec
-----------------------------------------------------------------------------
(* The registry catches up with the agents.                                *)

\* A report on the end of the task is on its way.
EndOnItsWay(a, t) ==
  \E i \in 1 .. Len(up[a]) : On(up[a][i], t) /\ up[a][i].status \in Terminal

\* How far the agent is with its task is on its way, or known.
Caught(a) ==
  /\ pStatus[a] \in {"PROCESSING", "FINISHING"} =>
       \/ ReportOnItsWay(a, runningTask[a])
       \/ taskRegistry[<<a, runningTask[a]>>] \in Reported
  /\ pStatus[a] = "FINISHING" =>
       \/ EndOnItsWay(a, runningTask[a])
       \/ taskRegistry[<<a, runningTask[a]>>] \in Terminal

CatchesUp == drops = 0 => \A a \in Agents : linked[a] /\ Caught(a)

\* Nothing on its way is lost while no connection breaks: what is ahead of
\* nothing stays, whatever is appended.
LEMMA CaughtKept ==
  ASSUME HoldInv, NEW a \in Agents, Caught(a),
         pStatus'[a] \in {"PROCESSING", "FINISHING"} =>
           pStatus'[a] = pStatus[a] /\ runningTask'[a] = runningTask[a],
         \A t \in Tasks : taskRegistry'[<<a, t>>] = taskRegistry[<<a, t>>],
         \A i \in 1 .. Len(up[a]) : up[a][i].type = "TSKREP" =>
           \E j \in 1 .. Len(up'[a]) : up'[a][j] = up[a][i]
  PROVE  Caught(a)'
<1> SUFFICES ASSUME pStatus'[a] \in {"PROCESSING", "FINISHING"}
             PROVE  Caught(a)'
  BY DEF Caught
<1>1. PICK t \in Tasks : t = runningTask[a] /\ t = runningTask'[a] /\ pStatus'[a] = pStatus[a]
  BY DEF HoldInv, ReportsAreRegistered
<1>2. ReportOnItsWay(a, t) => ReportOnItsWay(a, t)'
  BY DEF ReportOnItsWay
<1>3. EndOnItsWay(a, t) => EndOnItsWay(a, t)'
  BY DEF EndOnItsWay, On
<1>4. /\ ReportOnItsWay(a, t)' \/ taskRegistry'[<<a, t>>] \in Reported
      /\ pStatus'[a] = "FINISHING" => EndOnItsWay(a, t)' \/ taskRegistry'[<<a, t>>] \in Terminal
  BY <1>1, <1>2, <1>3 DEF Caught
<1> QED
  BY <1>1, <1>4 DEF Caught, ReportOnItsWay, EndOnItsWay

\* A report that is sent says how far the agent is.
LEMMA CaughtByReport ==
  ASSUME HoldInv, NEW a \in Agents, linked[a], NEW t \in Tasks, NEW d \in DockerState,
         Report(a, t, d), runningTask'[a] = t
  PROVE  Caught(a)'
<1>1. PICK n \in 1 .. Len(up'[a]) : up'[a][n] = TskRep(t, StatusOf[d])
  <2>1. TskRep(t, StatusOf[d]) \in Messages
    BY StatusOfType, MessagesType
  <2>2. up[a] \in Seq(Messages) /\ up'[a] = Append(up[a], TskRep(t, StatusOf[d]))
    BY DEF Report, Send, HoldInv, TypeOK
  <2>3. /\ Len(up'[a]) = Len(up[a]) + 1 /\ Len(up[a]) \in Nat
        /\ up'[a][Len(up[a]) + 1] = TskRep(t, StatusOf[d])
    BY <2>1, <2>2
  <2>4. Len(up[a]) + 1 \in 1 .. Len(up'[a])
    BY <2>3
  <2> QED
    BY <2>3, <2>4
<1>2. /\ up'[a][n].type = "TSKREP" /\ up'[a][n].task = t
      /\ up'[a][n].status = StatusOf[d]
  BY <1>1 DEF TskRep
<1>3. pStatus'[a] = "FINISHING" => StatusOf[d] \in Terminal
  BY DEF Report, HoldInv, TypeOK
<1> QED
  BY <1>2, <1>3 DEF Caught, ReportOnItsWay, EndOnItsWay, On

\* What an agent does keeps it caught.
LEMMA CaughtAgent ==
  ASSUME HoldInv, NEW a \in Agents, linked[a], Caught(a),
         AgentStep(a) \/ SendHostInfoUpdate(a)
  PROVE  Caught(a)'
<1>1. ASSUME UNCHANGED <<taskRegistry, up>>,
             pStatus'[a] \in {"PROCESSING", "FINISHING"} =>
               pStatus'[a] = pStatus[a] /\ runningTask'[a] = runningTask[a]
      PROVE  Caught(a)'
  BY <1>1, CaughtKept
<1>2. CASE SeeReply(a) \/ StayIdle(a) \/ KeepWaiting(a) \/ StopWaiting(a) \/ FinishTask(a)
  <2>1. UNCHANGED <<taskRegistry, up>>
    BY <1>2 DEF SeeReply, StayIdle, KeepWaiting, StopWaiting, FinishTask, mngVars, sockVars
  <2>2. pStatus'[a] \in {"PROCESSING", "FINISHING"} =>
          pStatus'[a] = pStatus[a] /\ runningTask'[a] = runningTask[a]
    BY <1>2 DEF SeeReply, StayIdle, KeepWaiting, StopWaiting, FinishTask, HoldInv, TypeOK
  <2> QED
    BY <1>1, <2>1, <2>2
<1>3. CASE IgnoreTask(a) \/ FailToStartTask(a)
  <2>1. UNCHANGED <<taskRegistry, up>>
    BY <1>3 DEF IgnoreTask, FailToStartTask, mngVars
  <2>2. pStatus'[a] \in {"PROCESSING", "FINISHING"} =>
          pStatus'[a] = pStatus[a] /\ runningTask'[a] = runningTask[a]
    BY <1>3 DEF IgnoreTask, FailToStartTask, HoldInv, TypeOK
  <2> QED
    BY <1>1, <2>1, <2>2
<1>4. CASE RequestTask(a) \/ SendHostInfoUpdate(a)
  <2>1. PICK n \in {HostMon, TskRqst} : Send(a, n)
    BY <1>4 DEF SendHostInfoUpdate, RequestTask
  <2>2. \A i \in 1 .. Len(up[a]) : i \in 1 .. Len(up'[a]) /\ up'[a][i] = up[a][i]
    <3>1. n \in Messages
      BY MessagesType
    <3> QED
      BY <2>1, <3>1 DEF Send, HoldInv, TypeOK
  <2>3. /\ UNCHANGED taskRegistry
        /\ pStatus'[a] \in {"PROCESSING", "FINISHING"} =>
             pStatus'[a] = pStatus[a] /\ runningTask'[a] = runningTask[a]
    BY <1>4 DEF SendHostInfoUpdate, RequestTask, mngVars, agnVars, HoldInv, TypeOK
  <2> QED
    BY <2>2, <2>3, CaughtKept
<1>5. CASE ReportTask(a)
  <2>1. PICK t \in Tasks : t = runningTask[a] /\ container[t] \in DockerState
    BY <1>5 DEF ReportTask, Iterating, HoldInv, ReportsAreRegistered,
                StartedTasksHaveContainers, TypeOK
  <2>2. Report(a, t, container[t]) /\ runningTask'[a] = t
    BY <1>5, <2>1 DEF ReportTask
  <2> QED
    BY <2>1, <2>2, CaughtByReport
<1>6. CASE StartTask(a)
  <2>1. PICK t \in Tasks : t = reply[a]
    BY <1>6 DEF StartTask, TakeReply, HoldInv, TypeOK
  <2>2. PICK d \in DockerState : Report(a, t, d)
    BY <1>6, <2>1 DEF StartTask
  <2>3. runningTask'[a] = t
    BY <1>6, <2>1 DEF StartTask, HoldInv, TypeOK
  <2> QED
    BY <2>2, <2>3, CaughtByReport
<1> QED
  BY <1>2, <1>3, <1>4, <1>5, <1>6 DEF AgentStep

\* What TskMng does for an agent keeps it caught.
LEMMA CaughtMng ==
  ASSUME StoryInv, NEW a \in Agents, Caught(a), MngStep(a)
  PROVE  Caught(a)'
<1>1. PICK type : Receive(a, type) /\ Head(up[a]).type = type
  BY DEF MngStep, ProcessTskRqstNoTask, ProcessTskRqstMsg, ProcessTskRepMsg, ProcessHostMonMsg,
         Receive
<1>2. /\ Len(up'[a]) = Len(up[a]) - 1 /\ Len(up[a]) \in Nat
      /\ \A i \in 1 .. Len(up'[a]) : up'[a][i] = up[a][i + 1]
      /\ Head(up[a]) = up[a][1] /\ 1 \in 1 .. Len(up[a])
  BY <1>1, ReceiveType DEF Receive, StoryInv, HoldInv, TypeOK
<1>3. \A i \in 1 .. Len(up[a]) : i # 1 => \E j \in 1 .. Len(up'[a]) : up'[a][j] = up[a][i]
  <2> SUFFICES ASSUME NEW i \in 1 .. Len(up[a]), i # 1
               PROVE  \E j \in 1 .. Len(up'[a]) : up'[a][j] = up[a][i]
    OBVIOUS
  <2>1. i - 1 \in 1 .. Len(up'[a]) /\ (i - 1) + 1 = i
    BY <1>2
  <2> QED
    BY <1>2, <2>1
<1>4. UNCHANGED <<pStatus, runningTask>>
  BY DEF MngStep, ProcessTskRqstNoTask, ProcessTskRqstMsg, ProcessTskRepMsg, ProcessHostMonMsg,
         agnVars
<1>5. CASE ProcessTskRqstNoTask(a) \/ ProcessHostMonMsg(a)
  <2>1. UNCHANGED taskRegistry /\ Head(up[a]).type # "TSKREP"
    BY <1>5 DEF ProcessTskRqstNoTask, ProcessHostMonMsg, Receive, mngVars
  <2> QED
    BY <1>2, <1>3, <1>4, <2>1, CaughtKept DEF StoryInv
<1>6. ASSUME pStatus[a] \in {"PROCESSING", "FINISHING"}, ~ProcessTskRqstNoTask(a),
             ~ProcessHostMonMsg(a)
      PROVE  Caught(a)'
  <2>1. PICK t \in Tasks :
          t = runningTask[a] /\ t = runningTask'[a] /\ Registered(<<a, t>>)
    BY <1>4, <1>6 DEF StoryInv, HoldInv, ReportsAreRegistered
  <2>2. CASE ProcessTskRqstMsg(a)
    <3>1. taskRegistry'[<<a, t>>] = taskRegistry[<<a, t>>]
      <4>1. t # Head(containerTasks)
        BY <2>1, <2>2, OwnerRqst DEF StoryInv
      <4> QED
        BY <2>2, <4>1 DEF ProcessTskRqstMsg, Register, StoryInv, HoldInv, TypeOK, Keys
    <3>2. Head(up[a]).type # "TSKREP"
      BY <2>2 DEF ProcessTskRqstMsg, Receive
    <3>3. ReportOnItsWay(a, t) => ReportOnItsWay(a, t)'
      BY <1>2, <1>3, <3>2 DEF ReportOnItsWay
    <3>4. EndOnItsWay(a, t) => EndOnItsWay(a, t)'
      BY <1>2, <1>3, <3>2 DEF EndOnItsWay, On
    <3>5. /\ ReportOnItsWay(a, t)' \/ taskRegistry'[<<a, t>>] \in Reported
          /\ pStatus'[a] = "FINISHING" =>
               EndOnItsWay(a, t)' \/ taskRegistry'[<<a, t>>] \in Terminal
      BY <1>4, <1>6, <2>1, <3>1, <3>3, <3>4 DEF Caught
    <3> QED
      BY <2>1, <3>5 DEF Caught, ReportOnItsWay, EndOnItsWay
  <2>3. CASE ProcessTskRepMsg(a)
    <3>1. PICK u \in Tasks, s \in Reported :
            /\ On(up[a][1], u) /\ up[a][1].status = s
            /\ taskRegistry'[<<a, t>>] = IF t = u THEN s ELSE taskRegistry[<<a, t>>]
      <4>1. /\ Head(up[a]) \in Reports /\ Head(up[a]).task \in Tasks
            /\ Head(up[a]).type = "TSKREP"
        BY <2>3, RepRegistered DEF Reports, StoryInv
      <4>2. Head(up[a]).status \in Reported
        BY <1>2, <4>1 DEF StoryInv, Story, StatusesReported
      <4>3. <<a, t>> \in Keys /\ (<<a, t>> = <<a, Head(up[a]).task>> <=> t = Head(up[a]).task)
        BY DEF Keys
      <4>4. taskRegistry'[<<a, t>>] = IF t = Head(up[a]).task THEN Head(up[a]).status
                                      ELSE taskRegistry[<<a, t>>]
        BY <2>3, <4>3, RepRegistered DEF StoryInv
      <4> QED
        BY <1>2, <4>1, <4>2, <4>4 DEF On
    <3>2. CASE t = u
      <4>1. taskRegistry'[<<a, t>>] = s
        BY <3>1, <3>2
      <4>2. pStatus[a] = "FINISHING" => EndOnItsWay(a, t)' \/ s \in Terminal
        <5>1. CASE taskRegistry[<<a, t>>] \in Terminal
          BY <1>2, <3>1, <3>2, <5>1 DEF StoryInv, Story, EndsAgree
        <5>2. ASSUME NEW i \in 1 .. Len(up[a]), On(up[a][i], t), up[a][i].status \in Terminal
              PROVE  EndOnItsWay(a, t)' \/ s \in Terminal
          <6>1. CASE i = 1
            BY <3>1, <5>2, <6>1
          <6>2. CASE i # 1
            BY <1>3, <5>2, <6>2 DEF EndOnItsWay, On
          <6> QED
            BY <6>1, <6>2
        <5> QED
          BY <2>1, <5>1, <5>2 DEF Caught, EndOnItsWay
      <4> QED
        BY <1>4, <2>1, <4>1, <4>2 DEF Caught, EndOnItsWay, ReportOnItsWay
    <3>3. CASE t # u
      <4>1. taskRegistry'[<<a, t>>] = taskRegistry[<<a, t>>]
        BY <3>1, <3>3
      <4>2. ~On(up[a][1], t)
        BY <3>1, <3>3 DEF On
      <4>3. ReportOnItsWay(a, t) => ReportOnItsWay(a, t)'
        BY <1>3, <4>2 DEF ReportOnItsWay, On
      <4>4. EndOnItsWay(a, t) => EndOnItsWay(a, t)'
        BY <1>3, <4>2 DEF EndOnItsWay, On
      <4>5. /\ ReportOnItsWay(a, t)' \/ taskRegistry'[<<a, t>>] \in Reported
            /\ pStatus'[a] = "FINISHING" =>
                 EndOnItsWay(a, t)' \/ taskRegistry'[<<a, t>>] \in Terminal
        BY <1>4, <1>6, <2>1, <4>1, <4>3, <4>4 DEF Caught
      <4> QED
        BY <2>1, <4>5 DEF Caught, ReportOnItsWay, EndOnItsWay
    <3> QED
      BY <3>2, <3>3
  <2> QED
    BY <1>6, <2>2, <2>3 DEF MngStep
<1>7. CASE pStatus[a] \notin {"PROCESSING", "FINISHING"}
  BY <1>4, <1>7 DEF Caught
<1> QED
  BY <1>5, <1>6, <1>7

LEMMA CatchesUpInit ==
  Init => CatchesUp
BY DEF Init, CatchesUp, Caught

LEMMA CatchesUpNext ==
  StoryInv /\ CatchesUp /\ [Next]_vars => CatchesUp'
<1> SUFFICES ASSUME StoryInv, CatchesUp, [Next]_vars, drops' = 0, NEW b \in Agents
             PROVE  linked'[b] /\ Caught(b)'
  BY DEF CatchesUp
<1>1. ASSUME UNCHANGED <<linked, drops, pStatus, runningTask, taskRegistry, up>>
      PROVE  linked'[b] /\ Caught(b)'
  BY <1>1, CaughtKept DEF CatchesUp, StoryInv
<1>2. CASE UNCHANGED vars
  BY <1>1, <1>2 DEF vars, mngVars, agnVars, sockVars
<1>3. ASSUME NEW t \in Tasks, ProcessTskSchedMsg(t) \/ ContainerChanges(t) \/ ContainerEnds(t)
      PROVE  linked'[b] /\ Caught(b)'
  BY <1>1, <1>3
  DEF ProcessTskSchedMsg, ContainerChanges, ContainerEnds, mngVars, agnVars, sockVars
<1>4. ASSUME NEW a \in Agents, Disconnect(a)
      PROVE  FALSE
  BY <1>4 DEF Disconnect, StoryInv, HoldInv, TypeOK
<1>5. ASSUME NEW a \in Agents, Reconnect(a)
      PROVE  FALSE
  BY <1>5 DEF Reconnect, CatchesUp
<1>6. ASSUME NEW a \in Agents, MngStep(a) \/ AgentStep(a) \/ SendHostInfoUpdate(a)
      PROVE  linked'[b] /\ Caught(b)'
  <2>1. UNCHANGED <<linked, drops>>
    BY <1>6
    DEF MngStep, ProcessTskRqstNoTask, ProcessTskRqstMsg, ProcessTskRepMsg, ProcessHostMonMsg,
        AgentStep, SeeReply, IgnoreTask, StartTask, FailToStartTask, StayIdle, RequestTask,
        KeepWaiting, StopWaiting, ReportTask, FinishTask, SendHostInfoUpdate, Report, Send,
        sockVars
  <2>2. \A c \in Agents : linked[c] /\ Caught(c)
    BY <2>1 DEF CatchesUp
  <2>3. CASE a = b
    BY <1>6, <2>1, <2>2, <2>3, CaughtAgent, CaughtMng DEF StoryInv
  <2>4. CASE a # b
    <3>1. up'[b] = up[b] /\ pStatus'[b] = pStatus[b] /\ runningTask'[b] = runningTask[b]
      BY <1>6, <2>4, OthersLeftAlone DEF StoryInv
    <3>2. \A t \in Tasks : taskRegistry'[<<b, t>>] = taskRegistry[<<b, t>>]
      BY <1>6, <2>4, OthersEntries DEF StoryInv
    <3> QED
      BY <2>1, <2>2, <3>1, <3>2, CaughtKept DEF StoryInv
  <2> QED
    BY <2>3, <2>4
<1> QED
  BY <1>2, <1>3, <1>4, <1>5, <1>6 DEF Next

\* While no connection broke, the host informations that cancel the reports on
\* the same socket lose none of them.
THEOREM NoReportLost ==
  Spec => []RegistryCatchesUp
<1>1. StoryInv /\ CatchesUp => RegistryCatchesUp
  <2> SUFFICES ASSUME StoryInv, CatchesUp, drops = 0, NEW a \in Agents,
                      pStatus[a] \in {"PROCESSING", "FINISHING"},
                      ~ReportOnItsWay(a, runningTask[a])
               PROVE  taskRegistry[<<a, runningTask[a]>>] \in
                        (IF pStatus[a] = "PROCESSING" THEN {"RUNNING", "PAUSED"} ELSE Terminal)
    BY DEF RegistryCatchesUp
  <2>1. Caught(a)
    BY DEF CatchesUp
  <2>2. CASE pStatus[a] = "PROCESSING"
    <3>1. taskRegistry[<<a, runningTask[a]>>] \in Reported \ Terminal
      BY <2>1, <2>2 DEF Caught, StoryInv, Story, WorkIsOpen, EndKnown
    <3> QED
      BY <2>2, <3>1, ReportedStatuses
  <2>3. CASE pStatus[a] = "FINISHING"
    <3>1. ~EndOnItsWay(a, runningTask[a])
      BY DEF EndOnItsWay, ReportOnItsWay, On
    <3> QED
      BY <2>1, <2>3, <3>1 DEF Caught
  <2> QED
    BY <2>2, <2>3
<1> QED
  BY StoryInvInit, StoryInvNext, CatchesUpInit, CatchesUpNext, <1>1, PTL DEF Spec

-----------------------------------------------------------------------------
(* What is shown of an agent.                                              *)

LEMMA LagNext ==
  HoldInv /\ SpectraLag /\ [Next]_vars => SpectraLag'
<1> SUFFICES ASSUME HoldInv, SpectraLag, [Next]_vars
             PROVE  SpectraLag'
  OBVIOUS
<1>1. /\ containerTaskStatusPerAgent \in [Agents -> [TaskStatus -> Int]]
      /\ containerTaskStatusPerAgent' \in [Agents -> [TaskStatus -> Int]]
      /\ spectra \in [Agents -> [Shown -> Int]]
      /\ Shown \subseteq TaskStatus
  BY HoldNext DEF HoldInv, TypeOK, Shown
<1>2. ASSUME NEW a \in Agents, ProcessTskRqstMsg(a)
      PROVE  SpectraLag'
  <2>1. \A b \in Agents, s \in Shown :
          containerTaskStatusPerAgent'[b][s] =
            IF b = a /\ s = "SCHEDULED" THEN containerTaskStatusPerAgent[b][s] + 1
            ELSE containerTaskStatusPerAgent[b][s]
    BY <1>1, <1>2 DEF ProcessTskRqstMsg, Register
  <2>2. UNCHANGED spectra
    BY <1>2 DEF ProcessTskRqstMsg
  <2> QED
    BY <1>1, <2>1, <2>2 DEF SpectraLag
<1>3. ASSUME NEW a \in Agents, ProcessTskRepMsg(a)
      PROVE  SpectraLag'
  <2>1. CASE UNCHANGED <<containerTaskStatusPerAgent, spectra>>
    BY <2>1 DEF SpectraLag
  <2>2. CASE /\ spectra' = [spectra EXCEPT ![a] = Spectrum(containerTaskStatusPerAgent'[a])]
             /\ \A b \in Agents \ {a} :
                  containerTaskStatusPerAgent'[b] = containerTaskStatusPerAgent[b]
    <3>1. \A s \in Shown : spectra'[a][s] = containerTaskStatusPerAgent'[a][s]
      BY <1>1, <2>2 DEF Spectrum
    <3>2. \A b \in Agents \ {a} : spectra'[b] = spectra[b]
      BY <1>1, <2>2
    <3> QED
      BY <1>1, <2>2, <3>1, <3>2 DEF SpectraLag
  <2>3. \/ UNCHANGED <<containerTaskStatusPerAgent, spectra>>
        \/ /\ spectra' = [spectra EXCEPT ![a] = Spectrum(containerTaskStatusPerAgent'[a])]
           /\ \A b \in Agents \ {a} :
                containerTaskStatusPerAgent'[b] = containerTaskStatusPerAgent[b]
    <3>1. CASE OldStatus(<<a, Head(up[a]).task>>) # Head(up[a]).status
      <4>1. PICK f : containerTaskStatusPerAgent' = [containerTaskStatusPerAgent EXCEPT ![a] = f]
        BY <1>3, <3>1 DEF ProcessTskRepMsg
      <4>2. \A b \in Agents \ {a} :
              containerTaskStatusPerAgent'[b] = containerTaskStatusPerAgent[b]
        BY <1>1, <4>1
      <4>3. spectra' = [spectra EXCEPT ![a] = Spectrum(containerTaskStatusPerAgent'[a])]
        BY <1>3, <3>1 DEF ProcessTskRepMsg
      <4> QED
        BY <4>2, <4>3
    <3>2. CASE OldStatus(<<a, Head(up[a]).task>>) = Head(up[a]).status
      BY <1>3, <3>2 DEF ProcessTskRepMsg
    <3> QED
      BY <3>1, <3>2
  <2> QED
    BY <2>1, <2>2, <2>3
<1>4. CASE ~\E a \in Agents : ProcessTskRqstMsg(a) \/ ProcessTskRepMsg(a)
  <2>1. UNCHANGED containerTaskStatusPerAgent
    BY <1>4, CountersFrame
  <2>2. UNCHANGED spectra
    <3>1. ASSUME NEW t \in Tasks,
                 ProcessTskSchedMsg(t) \/ ContainerChanges(t) \/ ContainerEnds(t)
          PROVE  UNCHANGED spectra
      BY <3>1 DEF ProcessTskSchedMsg, ContainerChanges, ContainerEnds, mngVars
    <3>2. ASSUME NEW a \in Agents,
                 \/ ProcessTskRqstNoTask(a) \/ ProcessHostMonMsg(a) \/ AgentStep(a)
                 \/ SendHostInfoUpdate(a) \/ Disconnect(a) \/ Reconnect(a)
          PROVE  UNCHANGED spectra
      BY <3>2
      DEF ProcessTskRqstNoTask, ProcessHostMonMsg, AgentStep, SeeReply, IgnoreTask, StartTask,
          FailToStartTask, StayIdle, RequestTask, KeepWaiting, StopWaiting, ReportTask,
          FinishTask, SendHostInfoUpdate, Disconnect, Reconnect, mngVars
    <3>3. CASE UNCHANGED vars
      BY <3>3 DEF vars, mngVars
    <3> QED
      BY <1>4, <3>1, <3>2, <3>3 DEF Next, MngStep
  <2> QED
    BY <2>1, <2>2 DEF SpectraLag
<1> QED
  BY <1>2, <1>3, <1>4

\* The counts shown for an agent lag behind its counters in the number of
\* scheduled tasks only.
THEOREM OnlyScheduledLags ==
  Spec => []SpectraLag
<1>1. Init => SpectraLag
  BY DEF Init, SpectraLag, Shown, TaskStatus
<1> QED
  BY HoldInit, HoldNext, LagNext, <1>1, PTL DEF Spec
-----------------------------------------------------------------------------
(* The dispatch and the Data Manager together.                             *)

StoreProofs == INSTANCE TaskStoreProofs WITH
  NoAgent   <- NoTask,
  Live      <- {"RUNNING", "PAUSED"},
  Final     <- Terminal,
  known     <- scheduled,
  pool      <- containerTasks,
  owner     <- [t \in Tasks |-> Owner(t)],
  published <- [t \in Tasks |-> Published(t)]

\* The pipeline is a dispatch to which something is added.
LEMMA PipelineDispatches ==
  /\ PipelineInit => Init
  /\ [PipelineNext]_pipelineVars => [Next]_vars
BY DEF PipelineInit, PipelineNext, pipelineVars, PublishTask, DistributeReport, Unheard,
       DataMngStep, Next, MngStep

\* A report that is passed on is published for the first time, or again.
LEMMA StoreReport ==
  ASSUME StoryInv, StoryInv', NEW a \in Agents, DistributeReport(a)
  PROVE  Store!Next
<1>1. PICK t \in Tasks, s \in {"RUNNING", "PAUSED"} \cup Terminal :
        /\ Head(up[a]).task = t /\ Head(up[a]).status = s
        /\ \/ /\ UNCHANGED Life!vars
              /\ taskRegistry[<<a, t>>] = s /\ Published(t) = s
           \/ /\ Life!Publish(t, s)
              /\ taskRegistry[<<a, t>>] \notin Terminal
  BY ReportPublishes DEF DistributeReport
<1>2. /\ Len(reports) < MaxReports
      /\ reports' = Append(reports, [task |-> t, status |-> s])
      /\ LeaveOutputs(<<a, t>>, s)
      /\ UNCHANGED <<schedules, rowKey, rowStatus, registered, failures, runs>>
  BY <1>1 DEF DistributeReport, Distributed
<1>3. CASE /\ UNCHANGED Life!vars
           /\ taskRegistry[<<a, t>>] = s /\ Published(t) = s
  <2>1. Published(t) # "none"
    BY <1>3 DEF Terminal
  <2>2. UNCHANGED outputs
    BY <1>2, <1>3 DEF LeaveOutputs
  <2>3. UNCHANGED <<scheduled, containerTasks, [u \in Tasks |-> Owner(u)],
                    [u \in Tasks |-> Published(u)]>>
    BY <1>3 DEF Life!vars
  <2>4. [u \in Tasks |-> Published(u)][t] = s
    BY <1>3
  <2>5. Store!Repeat(t)
    BY <1>2, <1>3, <2>1, <2>2, <2>3, <2>4 DEF Store!Repeat, Store!lifeVars, Store!storeVars
  <2> QED
    BY <2>5 DEF Store!Next
<1>4. CASE Life!Publish(t, s) /\ taskRegistry[<<a, t>>] \notin Terminal
  <2>1. Store!Life!Publish(t, s)
    BY <1>4 DEF Life!Publish, Store!Life!Publish
  <2>2. IF s = "FINISHED"
        THEN \E o \in Store!Delivered : outputs' = [outputs EXCEPT ![t] = o]
        ELSE UNCHANGED outputs
    BY <1>2, <1>4 DEF LeaveOutputs, Terminal
  <2>3. Store!Publish(t, s)
    BY <1>2, <2>1, <2>2 DEF Store!Publish
  <2> QED
    BY <2>3 DEF Store!Next
<1> QED
  BY <1>1, <1>3, <1>4

\* Every step of the pipeline is one of TaskStore, or none.
LEMMA StoreNext ==
  StoryInv /\ StoryInv' /\ [PipelineNext]_pipelineVars => [Store!Next]_(Store!vars)
<1> SUFFICES ASSUME StoryInv, StoryInv', [PipelineNext]_pipelineVars
             PROVE  [Store!Next]_(Store!vars)
  OBVIOUS
<1>1. ASSUME NEW t \in Tasks, PublishTask(t)
      PROVE  Store!Next
  <2>1. Life!Schedule(t)
    BY <1>1, LifeSchedule DEF PublishTask
  <2>2. Store!Schedule(t)
    BY <1>1, <2>1
    DEF PublishTask, tableVars, Life!Schedule, Store!Life!Schedule, Store!Schedule,
        Store!storeVars
  <2> QED
    BY <2>2 DEF Store!Next
<1>2. ASSUME NEW a \in Agents, DistributeReport(a)
      PROVE  Store!Next
  BY <1>2, StoreReport
<1>3. ASSUME UNCHANGED Life!vars, UNCHANGED <<channelVars, tableVars>>
      PROVE  UNCHANGED Store!vars
  BY <1>3
  DEF Life!vars, channelVars, tableVars, Store!vars, Store!lifeVars, Store!storeVars
<1>4. CASE Unheard
  <2>1. ASSUME NEW a \in Agents, ProcessTskRqstMsg(a)
        PROVE  Store!Next
    <3>1. Life!Issue(a)
      BY <2>1, LifeIssue
    <3>2. Store!Issue(a)
      BY <1>4, <3>1
      DEF Unheard, channelVars, tableVars, Life!Issue, Store!Life!Issue, Store!Issue,
          Store!storeVars
    <3> QED
      BY <3>2 DEF Store!Next
  <2>2. CASE ~\E a \in Agents : ProcessTskRqstMsg(a)
    BY <1>3, <1>4, <2>2, LifeQuiet DEF Unheard
  <2> QED
    BY <2>1, <2>2
<1>5. CASE DataMngStep
  BY <1>5 DEF DataMngStep, Store!Next
<1>6. CASE UNCHANGED pipelineVars
  BY <1>3, <1>6, LifeQuiet DEF pipelineVars
<1> QED
  BY <1>1, <1>2, <1>4, <1>5, <1>6 DEF PipelineNext

\* The agents, their sockets and the Task Manager are to the Data Manager what
\* TaskLife is in TaskStore.
THEOREM PipelineImplementsTaskStore ==
  PipelineSpec => ImplementsTaskStore
<1>1. PipelineInit => Store!Init
  BY LifeInit DEF PipelineInit, Life!Init, Store!Life!Init, Store!Init
<1> QED
  BY StoryInvInit, StoryInvNext, PipelineDispatches, StoreNext, <1>1, PTL
  DEF PipelineSpec, ImplementsTaskStore, Store!Spec

\* The constants of TaskStore, as the pipeline gives them, are as it assumes.
LEMMA StoreConstants ==
  /\ "FINISHED" \in Terminal
  /\ {"none", "SCHEDULED"} \cap ({"RUNNING", "PAUSED"} \cup Terminal) = {}
  /\ {"SCHEDULED", "FINISHED"} \subseteq StatusRows
  /\ MaxReports \in Nat \ {0}
  /\ MaxFailures \in Nat
BY PipelineAssumption DEF Terminal, StatusRows

\* What is proved of the rows and the registered products of TaskStore.
StoreInv == Store!RowIsNotAhead /\ Store!RegisteredAfterMove /\ Store!RowIsCurrent

LEMMA StoreInvHolds ==
  PipelineSpec => []StoreInv
<1>1. Store!Spec => StoreProofs!Spec
  <2>1. Store!Init => StoreProofs!Init
    BY DEF Store!Init, Store!Life!Init, StoreProofs!Init, StoreProofs!Life!Init
  <2>2. Store!Next => StoreProofs!Next
    BY DEF Store!Next, Store!Schedule, Store!Issue, Store!Publish, Store!Repeat,
           Store!Life!Schedule, Store!Life!Issue, Store!Life!Publish,
           Store!DataMngStep, Store!ProcessTskSchedMsg, Store!ProcessTskRepDistMsg,
           Store!ProcessFinishedTask, Store!ReportLost, Store!ReportHalfStored,
           Store!ReportStored, Store!Rekey, Store!UpdateStatus, Store!Archive,
           Store!Register, Store!Works, Store!Fails, Store!Halts, Store!Halt,
           Store!Storable, Store!Delivered, Store!lifeVars, Store!storeVars,
           StoreProofs!Next, StoreProofs!Schedule, StoreProofs!Issue,
           StoreProofs!Publish, StoreProofs!Repeat, StoreProofs!Life!Schedule,
           StoreProofs!Life!Issue, StoreProofs!Life!Publish, StoreProofs!DataMngStep,
           StoreProofs!ProcessTskSchedMsg, StoreProofs!ProcessTskRepDistMsg,
           StoreProofs!ProcessFinishedTask, StoreProofs!ReportLost,
           StoreProofs!ReportHalfStored, StoreProofs!ReportStored, StoreProofs!Rekey,
           StoreProofs!UpdateStatus, StoreProofs!Archive, StoreProofs!Register,
           StoreProofs!Works, StoreProofs!Fails, StoreProofs!Halts, StoreProofs!Halt,
           StoreProofs!Storable, StoreProofs!Delivered, StoreProofs!lifeVars,
           StoreProofs!storeVars
  <2>3. [Store!Next]_(Store!vars) => [StoreProofs!Next]_(StoreProofs!vars)
    BY <2>2 DEF Store!vars, Store!lifeVars, Store!storeVars,
                StoreProofs!vars, StoreProofs!lifeVars, StoreProofs!storeVars
  <2> QED
    BY <2>1, <2>3, PTL DEF Store!Spec, StoreProofs!Spec
<1>2. StoreProofs!Spec => []StoreProofs!RowIsNotAhead
  BY StoreProofs!RowsAreNotAhead, StoreConstants
<1>3. StoreProofs!Spec => []StoreProofs!RegisteredAfterMove
  BY StoreProofs!RegisteredWereMoved, StoreConstants
<1>4. StoreProofs!Spec => []StoreProofs!RowIsCurrent
  BY StoreProofs!RowsCatchUp, StoreConstants
<1>5. StoreProofs!RowIsNotAhead /\ StoreProofs!RegisteredAfterMove
        /\ StoreProofs!RowIsCurrent => StoreInv
  BY DEF StoreInv, Store!RowIsNotAhead, StoreProofs!RowIsNotAhead,
         Store!RegisteredAfterMove, StoreProofs!RegisteredAfterMove,
         Store!RowIsCurrent, StoreProofs!RowIsCurrent,
         Store!ReportPending, StoreProofs!ReportPending
<1> QED
  BY <1>1, <1>2, <1>3, <1>4, <1>5, PipelineImplementsTaskStore, PTL DEF ImplementsTaskStore

\* An end that was published is in the registry.
LEMMA PublishedIsRegistered ==
  ASSUME NEW t \in Tasks, NEW s \in Terminal, Published(t) = s
  PROVE  \E a \in Agents : taskRegistry[<<a, t>>] = s
<1>1. Owner(t) # NoTask /\ taskRegistry[<<Owner(t), t>>] = s
  BY DEF Published, Terminal
<1>2. Owner(t) \in Agents
  BY <1>1 DEF Owner
<1> QED
  BY <1>1, <1>2

\* The rows' ends and the registered products are true of the containers, from
\* the agent's inspection (tskage.cpp) to the tables (dbhdlpostgre.cpp).
THEOREM TablesTellTheTruth ==
  PipelineSpec => []TablesAreTrue
<1>1. StoreInv /\ OutcomeIsTrue => TablesAreTrue
  <2> SUFFICES ASSUME StoreInv, OutcomeIsTrue, NEW t \in Tasks
               PROVE  /\ rowStatus[t] = "FINISHED" => container[t] = "exited0"
                      /\ rowStatus[t] = "FAILED"   => container[t] = "exited1"
                      /\ t \in registered          => container[t] = "exited0"
    BY DEF TablesAreTrue
  <2>1. /\ rowStatus[t] \in Terminal => rowStatus[t] = Published(t)
        /\ t \in registered => Published(t) = "FINISHED"
    BY DEF StoreInv, Store!RowIsNotAhead, Store!RegisteredAfterMove
  <2>2. \A a \in Agents :
          /\ taskRegistry[<<a, t>>] = "FINISHED" => container[t] = "exited0"
          /\ taskRegistry[<<a, t>>] = "FAILED"   => container[t] = "exited1"
    BY DEF OutcomeIsTrue, Keys
  <2>3. /\ Published(t) = "FINISHED" => container[t] = "exited0"
        /\ Published(t) = "FAILED"   => container[t] = "exited1"
    BY <2>2, PublishedIsRegistered DEF Terminal
  <2> QED
    BY <2>1, <2>2, <2>3 DEF Terminal
<1>2. Spec => []OutcomeIsTrue
  BY OutcomesAreTrue
<1>3. PipelineSpec => Spec
  BY PipelineDispatches, PTL DEF PipelineSpec, Spec
<1> QED
  BY <1>1, <1>2, <1>3, StoreInvHolds, PTL

\* If nothing broke or failed and nothing is on its way, the tables are as far
\* as the agents: what the socket cancels was sent again behind it, and what the
\* Task Manager knows it has passed on.
THEOREM TablesKeepUp ==
  PipelineSpec => []TablesCatchUp
<1>1. StoreInv /\ RegistryCatchesUp /\ StoryInv => TablesCatchUp
  <2> SUFFICES ASSUME StoreInv, RegistryCatchesUp, StoryInv,
                      drops = 0, failures = 0, runs, NEW a \in Agents,
                      pStatus[a] \in {"PROCESSING", "FINISHING"},
                      Settled(a, runningTask[a]), rowKey[runningTask[a]] = "container"
               PROVE  \/ Published(runningTask[a]) \notin StatusRows
                      \/ rowStatus[runningTask[a]] \in
                           (IF pStatus[a] = "PROCESSING" THEN {"RUNNING", "PAUSED"}
                                                         ELSE Terminal)
    BY DEF TablesCatchUp
  <2> DEFINE t == runningTask[a]
  <2>1. t \in Tasks /\ Registered(<<a, t>>)
    BY DEF StoryInv, HoldInv, ReportsAreRegistered
  <2>2. taskRegistry[<<a, t>>] \in
          (IF pStatus[a] = "PROCESSING" THEN {"RUNNING", "PAUSED"} ELSE Terminal)
    BY DEF RegistryCatchesUp, Settled
  <2>3. Published(t) = taskRegistry[<<a, t>>]
    BY <2>1, <2>2, OwnerFound DEF StoryInv, OwnerInv, Terminal
  <2>4. rowStatus[t] = Published(t) \/ Published(t) \notin StatusRows
    BY <2>1 DEF StoreInv, Store!RowIsCurrent, Store!ReportPending, Settled
  <2> QED
    BY <2>2, <2>3, <2>4
<1>2. Spec => []RegistryCatchesUp
  BY NoReportLost
<1>3. PipelineSpec => Spec
  BY PipelineDispatches, PTL DEF PipelineSpec, Spec
<1>4. Spec => []StoryInv
  BY StoryInvInit, StoryInvNext, PTL DEF Spec
<1> QED
  BY <1>1, <1>2, <1>3, <1>4, StoreInvHolds, PTL
=============================================================================
