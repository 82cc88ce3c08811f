------------------------------ MODULE Sessions ------------------------------
(***************************************************************************)
(* The session of a processing host: the directory run/<session> that its  *)
(* process makes at its start (Deployer, qpf/deployer.cpp) and renames to  *)
(* the master's session when an INIT or a task tells it                    *)
(* (Config::synchronizeSessionId, fmk/config.cpp; Component::processCmdMsg,*)
(* fmk/component.cpp; TskAge::processTskProcMsg, fmk/tskage.cpp), and the  *)
(* exchange areas of tasks below it.                                       *)
(*                                                                         *)
(* The agents of a process are threads that share the static PATHSession   *)
(* and the file system; nothing protects them.  Processes share nothing:   *)
(* the agents of one host are followed.                                    *)
(*                                                                         *)
(* A session is named for the time of a process's start.  Here the master's*)
(* n-th start has session n and the host's n-th one has session -n.        *)
(***************************************************************************)
EXTENDS Deployment

CONSTANTS
  Observed,      \* the host that is followed
  MaxSessions,   \* bound on the starts of the master
  MaxStarts      \* bound on the starts of the host

ASSUME SessionsAssumption ==
  /\ Observed \in Addresses \ {Master}
  /\ MaxSessions \in Nat
  /\ MaxStarts \in Nat

VARIABLES
  session,      \* the master's, 0 before its first start
  announced,    \* the Event Manager has sent INIT in this session
  starts,       \* of the host
  PATHSession,  \* the session it names
  directories,  \* the sessions that have one below run/ at the host
  commands,     \* INITs that an agent has not read: their sessions
  pc,           \* where the thread of an agent is
  message,      \* what it processes: the session, INIT or task
  seen,         \* what it read in PATHSession
  workDir,      \* the session that its work directory names
  area          \* the exchange area of its task, or none

agentVars == <<commands, pc, message, seen, workDir, area>>
vars == <<network, process, connections, session, announced, starts,
          PATHSession, directories, commands, pc, message, seen, workDir, area>>

-----------------------------------------------------------------------------
\* Mutant: the directory is made before the time tag is known.
OwnSessionMutant(n) == 1 - n
OwnSession(n) == -n
Torn == 0       \* some bytes of the old session and some of the new one
NoArea == <<>>
NoMessage == <<>>
SessionIds == -MaxStarts .. MaxSessions
Mine == {a \in Agents : AddressOf(a[1]) = Observed}

\* idle: in the component's loop; reading, renaming, assigning, copying: in
\* synchronizeSessionId; making: before the mkdir of the exchange area
Places == {"idle", "reading", "renaming", "assigning", "copying", "making"}
Kinds == {"INIT", "task"}

Init ==
  /\ DeploymentInit
  /\ session = 0
  /\ announced = FALSE
  /\ starts = 0
  /\ PATHSession = Torn
  /\ directories = {}
  /\ commands = [a \in Mine |-> <<>>]
  /\ pc = [a \in Mine |-> "idle"]
  /\ message = [a \in Mine |-> NoMessage]
  /\ seen = [a \in Mine |-> Torn]
  /\ workDir = [a \in Mine |-> Torn]
  /\ area = [a \in Mine |-> NoArea]

-----------------------------------------------------------------------------
(* Processes                                                               *)

MasterStarts ==
  /\ session < MaxSessions
  /\ StartMaster
  /\ session' = session + 1
  /\ announced' = FALSE
  /\ UNCHANGED <<starts, PATHSession, directories, agentVars>>

\* A crash: nobody is told, and the agents go on.
MasterCrashes ==
  /\ session < MaxSessions
  /\ StopMaster
  /\ UNCHANGED <<session, announced, starts, PATHSession, directories,
                 agentVars>>

\* The Deployer makes the directories of the session; the agents have their
\* work directory there, but for a swarm's, which is not given any.
HostStarts ==
  LET own == OwnSession(starts + 1)
  IN  /\ starts < MaxStarts
      /\ StartHost(Observed)
      /\ starts' = starts + 1
      /\ PATHSession' = own
      /\ directories' = directories \cup {own}
      /\ workDir' = [a \in Mine |-> IF IsSwarm(a[1]) THEN Torn ELSE own]
      /\ UNCHANGED <<session, announced, commands, pc, message, seen, area>>

HostCrashes ==
  /\ starts < MaxStarts
  /\ StopHost(Observed)
  /\ commands' = [a \in Mine |-> <<>>]
  /\ pc' = [a \in Mine |-> "idle"]
  /\ message' = [a \in Mine |-> NoMessage]
  /\ seen' = [a \in Mine |-> Torn]
  /\ workDir' = [a \in Mine |-> Torn]
  /\ area' = [a \in Mine |-> NoArea]
  /\ UNCHANGED <<session, announced, starts, PATHSession, directories>>

OtherStarts(h) ==
  /\ h # Observed
  /\ StartHost(h)
  /\ UNCHANGED <<session, announced, starts, PATHSession, directories,
                 agentVars>>

\* INIT reaches the agents that exist; it is not repeated for the others.
Announce ==
  /\ process[Master] = "running"
  /\ ~ announced
  /\ announced' = TRUE
  /\ commands' = IF process[Observed] = "running"
                 THEN [a \in Mine |-> Append(commands[a], session)]
                 ELSE commands
  /\ UNCHANGED <<network, process, connections, session, starts, PATHSession,
                 directories, pc, message, seen, workDir, area>>

-----------------------------------------------------------------------------
(* An agent.  cfg.sessionId is the session of the process's start for ever,*)
(* so that each message of the master asks for a change.                   *)

Idle(a) == process[Observed] = "running" /\ pc[a] = "idle"

ReceiveInit(a) ==
  /\ Idle(a)
  /\ commands[a] # <<>>
  /\ commands' = [commands EXCEPT ![a] = Tail(@)]
  /\ message' = [message EXCEPT ![a] = [id |-> Head(commands[a]), of |-> "INIT"]]
  /\ pc' = [pc EXCEPT ![a] = "reading"]
  /\ UNCHANGED <<network, process, connections, session, announced, starts,
                 PATHSession, directories, seen, workDir, area>>

\* replaceAll(workDir, cfg.sessionId, sessId): does nothing the second time.
\* Mutant: the work directory is that of PATHSession, which another agent may
\* not have assigned yet.
NewWorkDirMutant(a, s) == PATHSession
NewWorkDir(a, s) == IF workDir[a] = OwnSession(starts) THEN s ELSE workDir[a]

\* Only an agent in mode CONTAINER without a task, and that is heard, gets one.
ReceiveTask(a) ==
  /\ Idle(a)
  /\ ~ IsSwarm(a[1])
  /\ Heard(a)
  /\ area[a] = NoArea
  /\ message' = [message EXCEPT ![a] = [id |-> session, of |-> "task"]]
  /\ workDir' = [workDir EXCEPT ![a] = NewWorkDir(a, session)]
  /\ pc' = [pc EXCEPT ![a] = "reading"]
  /\ UNCHANGED <<network, process, connections, session, announced, starts,
                 PATHSession, directories, commands, seen, area>>

ReadPath(a) ==
  /\ pc[a] = "reading"
  /\ seen' = [seen EXCEPT ![a] = PATHSession]
  /\ pc' = [pc EXCEPT ![a] = "renaming"]
  /\ UNCHANGED <<network, process, connections, session, announced, starts,
                 PATHSession, directories, commands, message, workDir, area>>

\* The end of synchronizeSessionId, and of the message unless it is a task.
Return(a) ==
  LET task == message[a].of = "task"
  IN  /\ pc' = [pc EXCEPT ![a] = IF task THEN "making" ELSE "idle"]
      /\ message' = [message EXCEPT ![a] = IF task THEN @ ELSE NoMessage]
      /\ seen' = [seen EXCEPT ![a] = Torn]

\* rename fails if there is no such directory or the new name is that of
\* another, which is not empty.  It succeeds if both are the same.
MayRename(a) == /\ seen[a] \in directories
                /\ message[a].id \in directories => message[a].id = seen[a]
Rename(a) ==
  /\ pc[a] = "renaming"
  /\ IF MayRename(a)
     THEN /\ directories' = (directories \ {seen[a]}) \cup {message[a].id}
          /\ pc' = [pc EXCEPT ![a] = "assigning"]
          /\ UNCHANGED <<message, seen>>
     ELSE /\ Return(a)
          /\ UNCHANGED directories
  /\ UNCHANGED <<network, process, connections, session, announced, starts,
                 PATHSession, commands, workDir, area>>

\* The assignment of a string of the same length copies its bytes; who reads it
\* in between reads neither.
BeginAssign(a) ==
  /\ pc[a] = "assigning"
  /\ PATHSession' = IF PATHSession = message[a].id THEN PATHSession ELSE Torn
  /\ pc' = [pc EXCEPT ![a] = "copying"]
  /\ UNCHANGED <<network, process, connections, session, announced, starts,
                 directories, commands, message, seen, workDir, area>>

EndAssign(a) ==
  /\ pc[a] = "copying"
  /\ PATHSession' = message[a].id
  /\ Return(a)
  /\ UNCHANGED <<network, process, connections, session, announced, starts,
                 directories, commands, workDir, area>>

\* The results of the calls to mkdir are not looked at.
MakeArea(a) ==
  /\ pc[a] = "making"
  /\ area' = [area EXCEPT ![a] = [in |-> workDir[a],
                                  made |-> workDir[a] \in directories]]
  /\ pc' = [pc EXCEPT ![a] = "idle"]
  /\ message' = [message EXCEPT ![a] = NoMessage]
  /\ UNCHANGED <<network, process, connections, session, announced, starts,
                 PATHSession, directories, commands, seen, workDir>>

TaskEnds(a) ==
  /\ Idle(a)
  /\ area[a] # NoArea
  /\ area' = [area EXCEPT ![a] = NoArea]
  /\ UNCHANGED <<network, process, connections, session, announced, starts,
                 PATHSession, directories, commands, pc, message, seen, workDir>>

-----------------------------------------------------------------------------
Agent(a) == \/ ReceiveInit(a) \/ ReceiveTask(a) \/ ReadPath(a) \/ Rename(a)
            \/ BeginAssign(a) \/ EndAssign(a) \/ MakeArea(a) \/ TaskEnds(a)

Next ==
  \/ MasterStarts \/ MasterCrashes \/ HostStarts \/ HostCrashes \/ Announce
  \/ \E h \in Addresses : OtherStarts(h)
  \/ \E a \in Mine : Agent(a)

Spec == Init /\ [][Next]_vars

-----------------------------------------------------------------------------
(* Properties                                                              *)

\* Types; and once the process has started, its work directories name a session
\* (only PATHSession may be torn, while an agent assigns it: config.cpp:157).
TypeOK ==
  /\ network \in Networks
  /\ process \in [Addresses -> {"absent", "running", "failed"}]
  /\ session \in 0 .. MaxSessions
  /\ announced \in BOOLEAN
  /\ starts \in 0 .. MaxStarts
  /\ PATHSession \in SessionIds
  /\ directories \subseteq SessionIds \ {Torn}
  /\ commands \in [Mine -> Seq(1 .. session)]
  /\ pc \in [Mine -> Places]
  /\ message \in [Mine -> {NoMessage} \cup [id : 1 .. session, of : Kinds]]
  /\ seen \in [Mine -> SessionIds]
  /\ workDir \in [Mine -> SessionIds]
  /\ area \in [Mine -> {NoArea} \cup [in : SessionIds, made : BOOLEAN]]
  /\ process[Observed] = "running" =>
       \A a \in Mine : ~ IsSwarm(a[1]) => workDir[a] # Torn

\* As long as the master has started only once, the exchange area of every
\* task was made, and is where the agent and the container look for it, in
\* whatever order the threads of the agents rename the directory and assign
\* PATHSession, and however often the host starts again (config.cpp:148,
\* tskage.cpp:269).
AreaInPlace(a) == area[a] # NoArea => area[a].made /\ area[a].in \in directories
ExchangeAreaInPlace == session <= 1 => \A a \in Mine : AreaInPlace(a)
=============================================================================
