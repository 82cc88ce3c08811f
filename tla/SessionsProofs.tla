--------------------------- MODULE SessionsProofs ---------------------------
(***************************************************************************)
(* For any network, any number of agents on the host, and any number of    *)
(* its starts: as long as the master has started once, every exchange area *)
(* is in place.  The argument: once the directory bears the master's       *)
(* session it keeps it, and whoever leaves synchronizeSessionId, by success*)
(* or by failure, has seen to it or finds it so.                           *)
(*                                                                         *)
(* At the end, the agents the Task Manager hears.  The index of an agent   *)
(* is one more than the number of agents before it in the session; that    *)
(* every index up to the last is taken, and by one agent, rests on least   *)
(* elements (WFMin) in the place of an induction.                          *)
(***************************************************************************)
EXTENDS Sessions, FiniteSetTheorems, WellFoundedInduction, TLAPS

Renamed == 1 \in directories
Own == -starts

\* Where the threads are.
Control ==
  /\ process[Master] = "running" => session > 0
  /\ process[Observed] = "running" => starts > 0
  /\ \A a \in Mine :
       /\ pc[a] # "idle" => message[a] \in [id : 1 .. session, of : Kinds]
       /\ pc[a] # "idle" \/ area[a] # NoArea => process[Observed] = "running"
       /\ pc[a] = "making" => message[a].of = "task"

\* What the agents of the host rely on in the first session of the master.
Synchronized(a) ==
  /\ workDir[a] \in {Own, 1} \/ IsSwarm(a[1])
  /\ pc[a] # "idle" /\ message[a].of = "task" => workDir[a] = 1
  /\ pc[a] = "renaming" => seen[a] = Own \/ Renamed
  /\ pc[a] \in {"assigning", "copying", "making"} => Renamed
  /\ area[a] # NoArea => area[a].made /\ area[a].in = 1 /\ Renamed

OneDirectory ==
  /\ process[Observed] = "running" =>
       /\ Own \in directories \/ Renamed
       /\ PATHSession = Own \/ Renamed
       /\ \A a \in Mine : Synchronized(a)

IInv == TypeOK /\ Control /\ (session <= 1 => OneDirectory)

-----------------------------------------------------------------------------
\* The network does not change: neither do the agents of the host.
LEMMA SameAgents ==
  ASSUME network' = network
  PROVE  Mine' = Mine /\ \A u : IsSwarm(u)' <=> IsSwarm(u)
BY DEF Mine, Agents, Units, AgentsIn, AddressOf, IsSwarm, Hosts

LEMMA Constants ==
  /\ Master \in Addresses /\ Observed \in Addresses /\ Observed # Master
  /\ MaxSessions \in Nat /\ MaxStarts \in Nat
BY DeploymentAssumption, SessionsAssumption

\* Sessions of the past remain sessions.
LEMMA MoreSessions ==
  ASSUME NEW n \in Nat, NEW m \in Nat, n <= m
  PROVE  Seq(1 .. n) \subseteq Seq(1 .. m) /\ 1 .. n \subseteq 1 .. m
<1>1. 1 .. n \subseteq 1 .. m
  OBVIOUS
<1>2. ASSUME NEW q \in Seq(1 .. n)
      PROVE  q \in Seq(1 .. m)
  BY <1>1
<1> QED
  BY <1>1, <1>2

LEMMA InitIInv == Init => IInv
<1> SUFFICES ASSUME Init PROVE IInv
  OBVIOUS
<1> USE Constants
<1>1. TypeOK
  <2>1. Torn \in SessionIds /\ 0 \in 0 .. MaxSessions /\ 0 \in 0 .. MaxStarts
    BY DEF SessionIds, Torn
  <2>2. process \in [Addresses -> {"absent", "running", "failed"}]
    BY DEF Init, DeploymentInit
  <2>3. /\ commands \in [Mine -> Seq(1 .. session)]
        /\ pc \in [Mine -> Places]
        /\ message \in [Mine -> {NoMessage}]
        /\ seen \in [Mine -> SessionIds]
        /\ workDir \in [Mine -> SessionIds]
        /\ area \in [Mine -> {NoArea}]
    BY <2>1 DEF Init, Places
  <2>4. process[Observed] # "running"
    BY DEF Init, DeploymentInit
  <2> QED
    BY <2>1, <2>2, <2>3, <2>4 DEF Init, DeploymentInit, TypeOK
<1>2. Control
  BY DEF Init, DeploymentInit, Control
<1>3. OneDirectory
  BY DEF Init, DeploymentInit, OneDirectory
<1> QED
  BY <1>1, <1>2, <1>3 DEF IInv

\* Types, and the places of the threads.
LEMMA TypeStep ==
  TypeOK /\ Control /\ [Next]_vars => TypeOK' /\ Control'
<1> SUFFICES ASSUME TypeOK, Control, [Next]_vars
             PROVE  TypeOK' /\ Control'
  OBVIOUS
<1> USE Constants
<1>0. network' = network
  BY DEF Next, vars, MasterStarts, StartMaster, MasterCrashes, StopMaster,
         HostStarts, StartHost, HostCrashes, StopHost, OtherStarts, Announce,
         Agent, ReceiveInit, ReceiveTask, ReadPath, Rename, BeginAssign,
         EndAssign, MakeArea, TaskEnds
<1>a. Mine' = Mine /\ \A u : IsSwarm(u)' <=> IsSwarm(u)
  BY <1>0, SameAgents
<1>1. CASE UNCHANGED vars
  BY <1>1, <1>a DEF vars, TypeOK, Control
<1>2. CASE MasterStarts
  <2>1. session' = session + 1 /\ session' \in 0 .. MaxSessions
    BY <1>2 DEF MasterStarts, TypeOK
  <2>2. Seq(1 .. session) \subseteq Seq(1 .. session')
        /\ 1 .. session \subseteq 1 .. session'
    BY <2>1, MoreSessions DEF TypeOK
  <2>3. TypeOK'
    BY <1>2, <1>a, <2>1, <2>2 DEF MasterStarts, StartMaster, agentVars, TypeOK
  <2>4. Control'
    BY <1>2, <1>a, <2>1, <2>2
    DEF MasterStarts, StartMaster, agentVars, TypeOK, Control
  <2> QED
    BY <2>3, <2>4
<1>3. CASE MasterCrashes
  BY <1>3, <1>a DEF MasterCrashes, StopMaster, agentVars, TypeOK, Control
<1>4. CASE HostStarts
  <2>1. /\ starts' = starts + 1 /\ starts' \in 0 .. MaxStarts
        /\ OwnSession(starts + 1) \in SessionIds \ {Torn}
    BY <1>4 DEF HostStarts, TypeOK, OwnSession, SessionIds, Torn
  <2>2. /\ workDir' \in [Mine -> SessionIds]
        /\ \A a \in Mine : ~ IsSwarm(a[1]) => workDir'[a] # Torn
    <3>1. Torn \in SessionIds
      BY DEF Torn, SessionIds
    <3> QED
      BY <1>4, <2>1, <3>1 DEF HostStarts
  <2>3. TypeOK'
    BY <1>4, <1>a, <2>1, <2>2 DEF HostStarts, StartHost, TypeOK
  <2>4. Control'
    BY <1>4, <1>a, <2>1 DEF HostStarts, StartHost, TypeOK, Control
  <2> QED
    BY <2>3, <2>4
<1>5. CASE HostCrashes
  BY <1>5, <1>a
  DEF HostCrashes, StopHost, TypeOK, Control, Torn, SessionIds, Places
<1>6. ASSUME NEW h \in Addresses, OtherStarts(h)
      PROVE  TypeOK' /\ Control'
  BY <1>6, <1>a DEF OtherStarts, StartHost, agentVars, TypeOK, Control
<1>7. CASE Announce
  <2>1. session \in 1 .. session
    BY <1>7 DEF Announce, Control, TypeOK
  <2>2. commands' \in [Mine -> Seq(1 .. session)]
    BY <1>7, <2>1 DEF Announce, TypeOK
  <2> QED
    BY <1>7, <1>a, <2>2 DEF Announce, TypeOK, Control
<1>8. ASSUME NEW a \in Mine, Agent(a)
      PROVE  TypeOK' /\ Control'
  <2>1. CASE ReceiveInit(a)
    <3>1. /\ Head(commands[a]) \in 1 .. session
          /\ Tail(commands[a]) \in Seq(1 .. session)
      BY <2>1 DEF ReceiveInit, TypeOK
    <3> QED
      BY <2>1, <1>a, <3>1
      DEF ReceiveInit, Idle, TypeOK, Control, Places, Kinds
  <2>2. CASE ReceiveTask(a)
    <3>1. session \in 1 .. session
      BY <2>2 DEF ReceiveTask, Heard, Control, TypeOK
    <3>2. NewWorkDir(a, session) \in SessionIds
      BY DEF NewWorkDir, TypeOK, SessionIds
    <3>3. ~ IsSwarm(a[1]) => NewWorkDir(a, session) # Torn
      BY <2>2, <3>1 DEF ReceiveTask, Idle, NewWorkDir, TypeOK, Torn
    <3> QED
      BY <2>2, <1>a, <3>1, <3>2, <3>3
      DEF ReceiveTask, Idle, TypeOK, Control, Places, Kinds
  <2>3. CASE ReadPath(a)
    BY <2>3, <1>a DEF ReadPath, TypeOK, Control, Places
  <2>4. CASE Rename(a)
    <3>1. /\ message[a].id \in 1 .. session
          /\ message[a].id \in SessionIds \ {Torn}
      BY <2>4 DEF Rename, Control, TypeOK, SessionIds, Torn
    <3>2. CASE MayRename(a)
      <4>1. /\ pc' = [pc EXCEPT ![a] = "assigning"]
            /\ directories' = (directories \ {seen[a]}) \cup {message[a].id}
            /\ UNCHANGED <<network, process, connections, session, announced,
                           starts, PATHSession, commands, workDir, area,
                           message, seen>>
        BY <2>4, <3>2 DEF Rename
      <4>2. TypeOK'
        BY <1>a, <3>1, <4>1 DEF TypeOK, Places
      <4>3. Control'
        BY <1>a, <2>4, <4>1 DEF Rename, TypeOK, Control
      <4> QED
        BY <4>2, <4>3
    <3>3. CASE ~ MayRename(a)
      <4>1. /\ pc' = [pc EXCEPT ![a] = IF message[a].of = "task" THEN "making"
                                                                 ELSE "idle"]
            /\ message' = [message EXCEPT ![a] =
                             IF message[a].of = "task" THEN @ ELSE NoMessage]
            /\ seen' = [seen EXCEPT ![a] = Torn]
            /\ UNCHANGED <<network, process, connections, session, announced,
                           starts, PATHSession, directories, commands, workDir,
                           area>>
        BY <2>4, <3>3 DEF Rename, Return
      <4>2. TypeOK'
        <5>1. Torn \in SessionIds
          BY DEF Torn, SessionIds
        <5> QED
          BY <1>a, <4>1, <5>1 DEF TypeOK, Places
      <4>3. Control'
        BY <1>a, <2>4, <4>1 DEF Rename, TypeOK, Control
      <4> QED
        BY <4>2, <4>3
    <3> QED
      BY <3>2, <3>3
  <2>5. CASE BeginAssign(a)
    BY <2>5, <1>a
    DEF BeginAssign, TypeOK, Control, Places, SessionIds, Torn
  <2>6. CASE EndAssign(a)
    <3>1. message[a].id \in SessionIds
      BY <2>6 DEF EndAssign, Control, TypeOK, SessionIds
    <3> QED
      BY <2>6, <1>a, <3>1
      DEF EndAssign, Return, TypeOK, Control, Places, SessionIds, Torn
  <2>7. CASE MakeArea(a)
    BY <2>7, <1>a DEF MakeArea, TypeOK, Control, Places
  <2>8. CASE TaskEnds(a)
    BY <2>8, <1>a DEF TaskEnds, Idle, TypeOK, Control
  <2> QED
    BY <1>8, <2>1, <2>2, <2>3, <2>4, <2>5, <2>6, <2>7, <2>8 DEF Agent
<1> QED
  BY <1>1, <1>2, <1>3, <1>4, <1>5, <1>6, <1>7, <1>8 DEF Next

\* The directory of the first session: a step never takes the master's session
\* from it, and the thread that steps finds or makes it so.
LEMMA OneDirectoryStep ==
  TypeOK /\ Control /\ OneDirectory /\ session' <= 1 /\ session <= 1
    /\ [Next]_vars => OneDirectory'
<1> SUFFICES ASSUME TypeOK, Control, OneDirectory, session' <= 1, session <= 1,
                    [Next]_vars
             PROVE  OneDirectory'
  OBVIOUS
<1> USE Constants
<1>0. network' = network
  BY DEF Next, vars, MasterStarts, StartMaster, MasterCrashes, StopMaster,
         HostStarts, StartHost, HostCrashes, StopHost, OtherStarts, Announce,
         Agent, ReceiveInit, ReceiveTask, ReadPath, Rename, BeginAssign,
         EndAssign, MakeArea, TaskEnds
<1>a. Mine' = Mine /\ \A u : IsSwarm(u)' <=> IsSwarm(u)
  BY <1>0, SameAgents
<1>1. CASE UNCHANGED vars
  BY <1>1, <1>a DEF vars, OneDirectory, Synchronized, Own, Renamed
<1>2. CASE MasterStarts
  BY <1>2, <1>a DEF MasterStarts, StartMaster, agentVars, TypeOK, OneDirectory,
                    Synchronized, Own, Renamed
<1>3. CASE MasterCrashes
  BY <1>3, <1>a DEF MasterCrashes, StopMaster, agentVars, TypeOK, OneDirectory,
                    Synchronized, Own, Renamed
<1>4. CASE HostStarts
  <2>1. /\ starts' = starts + 1
        /\ PATHSession' = Own'
        /\ Own' \in directories'
        /\ UNCHANGED <<pc, message, seen, area>>
    BY <1>4 DEF HostStarts, Own, OwnSession
  <2>2. \A a \in Mine : pc[a] = "idle" /\ area[a] = NoArea
    BY <1>4 DEF HostStarts, StartHost, Control
  <2>3. \A a \in Mine : workDir'[a] = Own' \/ IsSwarm(a[1])
    BY <1>4 DEF HostStarts, Own, OwnSession
  <2>4. \A a \in Mine : Synchronized(a)'
    BY <1>a, <2>1, <2>2, <2>3 DEF Synchronized
  <2> QED
    BY <1>a, <2>1, <2>4 DEF OneDirectory
<1>5. CASE HostCrashes
  BY <1>5 DEF HostCrashes, StopHost, TypeOK, OneDirectory
<1>6. ASSUME NEW h \in Addresses, OtherStarts(h)
      PROVE  OneDirectory'
  BY <1>6, <1>a DEF OtherStarts, StartHost, agentVars, TypeOK, OneDirectory,
                    Synchronized, Own, Renamed
<1>7. CASE Announce
  BY <1>7, <1>a DEF Announce, OneDirectory, Synchronized, Own, Renamed
<1>8. ASSUME NEW a \in Mine, Agent(a)
      PROVE  OneDirectory'
  <2>1. process[Observed] = "running" /\ process' = process /\ starts' = starts
    BY <1>8 DEF Agent, ReceiveInit, ReceiveTask, ReadPath, Rename, BeginAssign,
                EndAssign, MakeArea, TaskEnds, Idle, Control
  <2>2. /\ Own \in directories \/ Renamed
        /\ PATHSession = Own \/ Renamed
        /\ \A b \in Mine : Synchronized(b)
        /\ Own' = Own
    BY <2>1 DEF OneDirectory, Own
  <2>3. pc[a] # "idle" => message[a].id = 1
    BY DEF Control, TypeOK
  <2>4. \A b \in Mine \ {a} :
          /\ pc'[b] = pc[b] /\ message'[b] = message[b] /\ seen'[b] = seen[b]
          /\ workDir'[b] = workDir[b] /\ area'[b] = area[b]
    BY <1>8 DEF Agent, ReceiveInit, ReceiveTask, ReadPath, Rename, Return,
                BeginAssign, EndAssign, MakeArea, TaskEnds, TypeOK
  <2>5. (Renamed => Renamed') /\ (Own \in directories' \/ Renamed')
    <3>1. CASE Rename(a) /\ MayRename(a)
      BY <2>2, <2>3, <3>1 DEF Rename, Renamed
    <3>2. CASE ~ (Rename(a) /\ MayRename(a))
      <4>1. directories' = directories
        BY <1>8, <3>2
        DEF Agent, ReceiveInit, ReceiveTask, ReadPath, Rename, BeginAssign,
            EndAssign, MakeArea, TaskEnds
      <4> QED
        BY <2>2, <4>1 DEF Renamed
    <3> QED
      BY <3>1, <3>2
  <2>6. PATHSession' = Own \/ Renamed'
    <3>1. CASE BeginAssign(a) \/ EndAssign(a)
      BY <2>2, <2>5, <3>1 DEF BeginAssign, EndAssign, Synchronized
    <3>2. CASE ~ (BeginAssign(a) \/ EndAssign(a))
      <4>1. PATHSession' = PATHSession
        BY <1>8, <3>2
        DEF Agent, ReceiveInit, ReceiveTask, ReadPath, Rename, MakeArea,
            TaskEnds
      <4> QED
        BY <2>2, <2>5, <4>1
    <3> QED
      BY <3>1, <3>2
  <2>7. Synchronized(a)'
    <3>1. CASE ReceiveInit(a)
      <4>1. message'[a].of = "INIT" /\ pc'[a] = "reading"
        BY <3>1 DEF ReceiveInit, TypeOK
      <4>2. workDir' = workDir /\ area' = area
        BY <3>1 DEF ReceiveInit
      <4> QED
        BY <1>a, <2>2, <2>5, <4>1, <4>2 DEF Synchronized
    <3>2. CASE ReceiveTask(a)
      <4>1. session = 1
        BY <3>2 DEF ReceiveTask, Heard, Control, TypeOK
      <4>2. NewWorkDir(a, session) = 1
        BY <2>2, <3>2, <4>1
        DEF ReceiveTask, NewWorkDir, Synchronized, Own, OwnSession
      <4>3. workDir'[a] = 1 /\ pc'[a] = "reading" /\ area' = area
        BY <3>2, <4>2 DEF ReceiveTask, TypeOK
      <4> QED
        BY <2>2, <2>5, <4>3 DEF Synchronized
    <3>3. CASE ReadPath(a)
      <4>1. seen'[a] = PATHSession /\ pc'[a] = "renaming" /\ pc[a] = "reading"
        BY <3>3 DEF ReadPath, TypeOK
      <4>2. UNCHANGED <<directories, message, workDir, area>>
        BY <3>3 DEF ReadPath
      <4> QED
        BY <1>a, <2>2, <2>5, <4>1, <4>2 DEF Synchronized, Renamed
    <3>4. CASE Rename(a)
      <4>1. pc[a] = "renaming" /\ message[a].id = 1
        BY <2>3, <3>4 DEF Rename
      <4>2. UNCHANGED <<workDir, area>>
        BY <3>4 DEF Rename
      <4>3. CASE MayRename(a)
        <5>1. Renamed' /\ pc'[a] = "assigning" /\ message' = message
          BY <3>4, <4>1, <4>3 DEF Rename, Renamed, TypeOK
        <5> QED
          BY <1>a, <2>2, <4>1, <4>2, <5>1 DEF Synchronized
      <4>4. CASE ~ MayRename(a)
        <5>1. Renamed
          BY <2>2, <4>1, <4>4 DEF MayRename, Synchronized, Renamed
        <5>2. /\ pc'[a] = IF message[a].of = "task" THEN "making" ELSE "idle"
              /\ message[a].of = "task" => message'[a] = message[a]
          BY <3>4, <4>4 DEF Rename, Return, TypeOK
        <5> QED
          BY <1>a, <2>2, <2>5, <4>1, <4>2, <5>1, <5>2 DEF Synchronized
      <4> QED
        BY <4>3, <4>4
    <3>5. CASE BeginAssign(a)
      <4>1. pc'[a] = "copying" /\ pc[a] = "assigning"
        BY <3>5 DEF BeginAssign, TypeOK
      <4>2. UNCHANGED <<message, workDir, area>>
        BY <3>5 DEF BeginAssign
      <4> QED
        BY <1>a, <2>2, <2>5, <4>1, <4>2 DEF Synchronized
    <3>6. CASE EndAssign(a)
      <4>1. /\ pc[a] = "copying"
            /\ pc'[a] = IF message[a].of = "task" THEN "making" ELSE "idle"
            /\ message[a].of = "task" => message'[a] = message[a]
        BY <3>6 DEF EndAssign, Return, TypeOK
      <4>2. UNCHANGED <<workDir, area>>
        BY <3>6 DEF EndAssign
      <4> QED
        BY <1>a, <2>2, <2>5, <4>1, <4>2 DEF Synchronized
    <3>7. CASE MakeArea(a)
      <4>1. /\ pc[a] = "making" /\ pc'[a] = "idle"
            /\ area'[a] = [in |-> workDir[a], made |-> workDir[a] \in directories]
            /\ workDir' = workDir
        BY <3>7 DEF MakeArea, TypeOK
      <4>2. workDir[a] = 1 /\ Renamed
        BY <2>2, <4>1 DEF Synchronized, Control
      <4>3. (workDir[a] \in directories) = TRUE
        BY <4>2 DEF Renamed
      <4>4. area'[a] = [in |-> 1, made |-> TRUE]
        BY <4>1, <4>2, <4>3, Zenon
      <4> QED
        BY <1>a, <2>2, <2>5, <4>1, <4>2, <4>4 DEF Synchronized
    <3>8. CASE TaskEnds(a)
      <4>1. pc[a] = "idle" /\ area'[a] = NoArea
        BY <3>8 DEF TaskEnds, Idle, TypeOK
      <4>2. UNCHANGED <<pc, message, seen, workDir>>
        BY <3>8 DEF TaskEnds
      <4> QED
        BY <1>a, <2>2, <4>1, <4>2 DEF Synchronized
    <3> QED
      BY <1>8, <3>1, <3>2, <3>3, <3>4, <3>5, <3>6, <3>7, <3>8 DEF Agent
  <2>8. \A b \in Mine \ {a} : Synchronized(b)'
    BY <1>a, <2>2, <2>4, <2>5 DEF Synchronized
  <2> QED
    BY <1>a, <2>1, <2>2, <2>5, <2>6, <2>7, <2>8 DEF OneDirectory
<1> QED
  BY <1>1, <1>2, <1>3, <1>4, <1>5, <1>6, <1>7, <1>8 DEF Next

LEMMA Inductive == IInv /\ [Next]_vars => IInv'
<1> SUFFICES ASSUME IInv, [Next]_vars PROVE IInv'
  OBVIOUS
<1>1. TypeOK' /\ Control'
  BY TypeStep DEF IInv
<1>2. session <= session'
  BY Constants
  DEF IInv, TypeOK, Next, vars, MasterStarts, MasterCrashes, HostStarts,
      HostCrashes, OtherStarts, Announce, Agent, ReceiveInit, ReceiveTask,
      ReadPath, Rename, BeginAssign, EndAssign, MakeArea, TaskEnds
<1>3. ASSUME session' <= 1
      PROVE  OneDirectory'
  <2>1. session <= 1
    BY <1>1, <1>2, <1>3 DEF IInv, TypeOK
  <2> QED
    BY <1>3, <2>1, OneDirectoryStep DEF IInv
<1> QED
  BY <1>1, <1>3 DEF IInv

\* The types, and that a work directory names a session from the start of the
\* process to its end.
THEOREM TypesOfSessions == Spec => []TypeOK
<1>1. IInv => TypeOK
  BY DEF IInv
<1> QED
  BY <1>1, InitIInv, Inductive, PTL DEF Spec

\* In the master's first session every exchange area was made and stays where
\* the agent looks for it (tskage.cpp:265-286, config.cpp:144-164).
THEOREM ExchangeAreasInPlace == Spec => []ExchangeAreaInPlace
<1>1. IInv => ExchangeAreaInPlace
  <2> SUFFICES ASSUME IInv, session <= 1, NEW a \in Mine, area[a] # NoArea
               PROVE  area[a].made /\ area[a].in \in directories
    BY DEF ExchangeAreaInPlace, AreaInPlace
  <2>1. process[Observed] = "running"
    BY DEF IInv, Control
  <2>2. Synchronized(a)
    BY <2>1 DEF IInv, OneDirectory
  <2> QED
    BY <2>2 DEF Synchronized, Renamed
<1> QED
  BY <1>1, InitIInv, Inductive, PTL DEF Spec
-----------------------------------------------------------------------------
(* The network: whom the Task Manager hears.  The index of an agent numbers*)
(* all agents in the order of the units, one by one; agents are named by   *)
(* the first indices, so that only those of the first unit that has any    *)
(* bear their own name.                                                    *)

Before(u) == {a \in Agents : a[1] < u}

LEMMA Element ==
  ASSUME NEW S, NEW s \in Seq(S), NEW i \in 1 .. Len(s)
  PROVE  s[i] \in S
OBVIOUS

LEMMA Shape ==
  ASSUME network \in Networks
  PROVE  /\ Hosts \in Nat
         /\ Len(network.swarms) \in Nat
         /\ Units \subseteq Nat \ {0}
         /\ \A u \in Units : \A v \in Nat \ {0} : v < u => v \in Units
         /\ \A u \in Units : AgentsIn(u) \in Nat /\ AddressOf(u) \in Addresses
         /\ \A u \in Units : IsSwarm(u) => AgentsIn(u) = 1
<1>1. /\ network.nodes \in Seq([address : Addresses, agents : Nat])
      /\ network.swarms \in Seq(Addresses)
  BY DeploymentAssumption
<1>2. Hosts \in Nat /\ Len(network.swarms) \in Nat
  BY <1>1 DEF Hosts
<1>3. ASSUME NEW u \in Units
      PROVE  /\ AgentsIn(u) \in Nat /\ AddressOf(u) \in Addresses
             /\ IsSwarm(u) => AgentsIn(u) = 1
  <2>1. CASE IsSwarm(u)
    <3>1. u - Hosts \in 1 .. Len(network.swarms)
      BY <1>2, <2>1 DEF Units, IsSwarm
    <3> QED
      BY <1>1, <2>1, <3>1 DEF AgentsIn, AddressOf
  <2>2. CASE ~ IsSwarm(u)
    <3>1. u \in 1 .. Len(network.nodes)
      BY <1>2, <2>2 DEF Units, IsSwarm, Hosts
    <3>2. network.nodes[u] \in [address : Addresses, agents : Nat]
      BY <1>1, <3>1, Element
    <3> QED
      BY <2>2, <3>2 DEF AgentsIn, AddressOf
  <2> QED
    BY <2>1, <2>2
<1> QED
  BY <1>2, <1>3 DEF Units

LEMMA AgentIs ==
  /\ \A a \in Agents : /\ a = <<a[1], a[2]>>
                       /\ a[1] \in Units /\ a[2] \in 1 .. AgentsIn(a[1])
  /\ \A u \in Units : \A i \in 1 .. AgentsIn(u) :
       /\ <<u, i>> \in Agents
       /\ <<u, i>>[1] = u /\ <<u, i>>[2] = i
<1>1. ASSUME NEW a \in Agents
      PROVE  /\ a = <<a[1], a[2]>>
             /\ a[1] \in Units /\ a[2] \in 1 .. AgentsIn(a[1])
  <2>1. PICK u \in Units : a \in {u} \X (1 .. AgentsIn(u))
    BY DEF Agents
  <2> QED
    BY <2>1
<1>2. ASSUME NEW u \in Units, NEW i \in 1 .. AgentsIn(u)
      PROVE  <<u, i>> \in Agents
  <2>1. <<u, i>> \in {u} \X (1 .. AgentsIn(u))
    OBVIOUS
  <2> QED
    BY <2>1 DEF Agents
<1> QED
  BY <1>1, <1>2

LEMMA AgentsAreFinite ==
  ASSUME network \in Networks
  PROVE  IsFiniteSet(Agents)
<1> DEFINE f == [u \in Units |-> {u} \X (1 .. AgentsIn(u))]
           T == {{u} \X (1 .. AgentsIn(u)) : u \in Units}
<1>1. IsFiniteSet(Units)
  <2>1. 1 \in Int /\ Hosts + Len(network.swarms) \in Int
    BY Shape
  <2> QED
    BY <2>1, FS_Interval DEF Units
<1>2. f \in Surjection(Units, T)
  BY DEF Surjection
<1>3. IsFiniteSet(T)
  BY <1>1, <1>2, FS_Surjection
<1>4. ASSUME NEW u \in Units PROVE IsFiniteSet({u} \X (1 .. AgentsIn(u)))
  <2>1. IsFiniteSet({u})
    BY FS_Singleton
  <2>2. 1 \in Int /\ AgentsIn(u) \in Int
    BY Shape
  <2>3. IsFiniteSet(1 .. AgentsIn(u))
    BY <2>2, FS_Interval
  <2> QED
    BY <2>1, <2>3, FS_Product
<1> QED
  BY <1>3, <1>4, FS_UNION DEF Agents

LEMMA EarlierIs ==
  ASSUME network \in Networks
  PROVE  /\ Earlier(1) = 0
         /\ \A u \in Units :
              /\ Earlier(u) \in Nat
              /\ Earlier(u + 1) = Earlier(u) + AgentsIn(u)
              /\ \A v \in Units : v < u => Earlier(v + 1) <= Earlier(u)
<1>1. \A u \in Int : /\ IsFiniteSet(Before(u))
                     /\ Cardinality(Before(u)) = Earlier(u)
                     /\ Earlier(u) \in Nat
  <2>1. \A u : Before(u) \in SUBSET Agents
    BY DEF Before
  <2> QED
    BY <2>1, AgentsAreFinite, FS_Subset, FS_CardinalityType DEF Earlier, Before
<1>2. Before(1) = {}
  BY Shape, AgentIs DEF Before
<1>3. ASSUME NEW u \in Units
      PROVE  Earlier(u + 1) = Earlier(u) + AgentsIn(u)
  <2> DEFINE mine == {u} \X (1 .. AgentsIn(u))
  <2>0. u \in Int /\ u + 1 \in Int /\ AgentsIn(u) \in Nat
    BY Shape
  <2>1. Before(u + 1) = Before(u) \cup mine
    <3>1. \A a \in Agents : a[1] < u + 1 <=> a[1] < u \/ a[1] = u
      BY Shape, AgentIs
    <3>2. \A a \in Agents : a[1] = u <=> a \in mine
      BY AgentIs
    <3>3. mine \subseteq Agents
      BY DEF Agents
    <3> QED
      BY <3>1, <3>2, <3>3 DEF Before
  <2>2. Before(u) \cap mine = {}
    BY <2>0 DEF Before
  <2>3. IsFiniteSet(mine) /\ Cardinality(mine) = AgentsIn(u)
    <3>1. IsFiniteSet({u}) /\ Cardinality({u}) = 1
      BY FS_Singleton
    <3>2. IsFiniteSet(1 .. AgentsIn(u)) /\ Cardinality(1 .. AgentsIn(u)) = AgentsIn(u)
      BY <2>0, FS_Interval
    <3>3. /\ IsFiniteSet(mine)
          /\ Cardinality(mine) = Cardinality({u}) * Cardinality(1 .. AgentsIn(u))
      BY <3>1, <3>2, FS_Product
    <3>4. 1 * AgentsIn(u) = AgentsIn(u)
      BY <2>0
    <3> QED
      BY <3>1, <3>2, <3>3, <3>4
  <2> HIDE DEF mine
  <2>4. Cardinality(Before(u + 1)) = Earlier(u) + AgentsIn(u) - Cardinality({})
    BY <1>1, <2>0, <2>1, <2>2, <2>3, FS_Union
  <2> QED
    BY <1>1, <2>0, <2>4, FS_EmptySet
<1>4. ASSUME NEW u \in Units, NEW v \in Units, v < u
      PROVE  Earlier(v + 1) <= Earlier(u)
  <2>1. u \in Int /\ v + 1 \in Int /\ v + 1 <= u
    BY <1>4, Shape
  <2>2. Before(v + 1) \in SUBSET Before(u)
    BY <2>1, Shape, AgentIs DEF Before
  <2> QED
    BY <1>1, <2>1, <2>2, FS_Subset
<1>5. Units \subseteq Int
  BY Shape
<1>6. Earlier(1) = 0
  BY <1>1, <1>2, FS_EmptySet
<1> QED
  BY <1>1, <1>3, <1>4, <1>5, <1>6

\* The index tells an agent, and takes every value up to the last.
LEMMA IndexTells ==
  ASSUME network \in Networks, NEW a \in Agents, NEW b \in Agents,
         Index(a) = Index(b)
  PROVE  a = b
<1>1. ASSUME NEW c \in Agents, NEW d \in Agents, c[1] < d[1]
      PROVE  Index(c) < Index(d)
  <2>1. c[1] \in Units /\ d[1] \in Units
    BY AgentIs
  <2>2. /\ Earlier(c[1]) \in Nat /\ Earlier(d[1]) \in Nat
        /\ AgentsIn(c[1]) \in Nat /\ AgentsIn(d[1]) \in Nat
        /\ Earlier(c[1]) + AgentsIn(c[1]) <= Earlier(d[1])
    BY <1>1, <2>1, EarlierIs, Shape
  <2>3. /\ c[2] \in Int /\ d[2] \in Int
        /\ c[2] <= AgentsIn(c[1]) /\ d[2] >= 1
    BY <2>2, AgentIs
  <2> QED
    BY <2>2, <2>3 DEF Index
<1>2. a[1] \in Nat /\ b[1] \in Nat
  BY AgentIs, Shape
<1>3. /\ a[2] \in Int /\ b[2] \in Int
      /\ Earlier(a[1]) \in Nat /\ Earlier(b[1]) \in Nat
      /\ Index(a) \in Int /\ Index(b) \in Int
  BY AgentIs, Shape, EarlierIs DEF Index
<1>4. a[1] = b[1]
  BY <1>1, <1>2, <1>3
<1>5. a[2] = b[2]
  BY <1>3, <1>4 DEF Index
<1> QED
  BY <1>4, <1>5, AgentIs

LEMMA IndexTaken ==
  ASSUME network \in Networks, NEW u \in Units, NEW i \in 1 .. AgentsIn(u)
  PROVE  \E b \in Agents : Index(b) = i
<1> DEFINE S == {v \in Units : Earlier(v) + AgentsIn(v) >= i}
<1>0. i \in Nat /\ i >= 1
  BY Shape
<1>1. u \in S
  <2>1. Earlier(u) \in Nat /\ AgentsIn(u) \in Nat /\ i <= AgentsIn(u)
    BY Shape, EarlierIs
  <2> QED
    BY <1>0, <2>1
<1>2. S \subseteq Nat
  BY Shape
<1>3. PICK v \in S : \A w \in S : ~ (<<w, v>> \in OpToRel(<, Nat))
  BY <1>1, <1>2, NatLessThanWellFounded, WFMin
<1>4. \A w \in S : ~ (w < v)
  BY <1>2, <1>3 DEF OpToRel
<1>5. /\ v \in Units /\ v \in Nat /\ v >= 1
      /\ Earlier(v) \in Nat /\ AgentsIn(v) \in Nat
      /\ Earlier(v) + AgentsIn(v) >= i
  BY Shape, EarlierIs
<1>6. Earlier(v) < i
  <2>1. CASE v = 1
    BY <1>0, <2>1, EarlierIs
  <2>2. CASE v # 1
    <3>1. /\ v - 1 \in Nat \ {0} /\ v - 1 < v /\ (v - 1) + 1 = v
      BY <1>5, <2>2
    <3>2. v - 1 \in Units
      BY <1>5, <3>1, Shape
    <3>3. v - 1 \notin S
      BY <1>4, <3>1
    <3>4. /\ Earlier(v) = Earlier(v - 1) + AgentsIn(v - 1)
          /\ Earlier(v - 1) \in Nat /\ AgentsIn(v - 1) \in Nat
      BY <3>1, <3>2, EarlierIs, Shape
    <3> QED
      BY <1>0, <3>2, <3>3, <3>4
  <2> QED
    BY <2>1, <2>2
<1> DEFINE k == i - Earlier(v)
<1>7. k \in 1 .. AgentsIn(v) /\ Earlier(v) + k = i
  BY <1>0, <1>5, <1>6
<1> HIDE DEF k
<1>8. <<v, k>> \in Agents /\ <<v, k>>[1] = v /\ <<v, k>>[2] = k
  BY <1>5, <1>7, AgentIs
<1> QED
  BY <1>7, <1>8 DEF Index

\* The number of ports between two units.
LEMMA PortOf ==
  ASSUME network \in Networks, NEW a \in Agents, NEW b \in Agents
  PROVE  /\ a[1] \in Nat /\ b[1] \in Nat /\ a[2] \in Nat /\ b[2] \in Nat
         /\ PortsPerHost * (b[1] - a[1]) \in Int
         /\ Port(a) = Port(b) <=> a[2] = PortsPerHost * (b[1] - a[1]) + b[2]
<1>1. /\ a[1] \in Nat /\ b[1] \in Nat /\ a[2] \in Nat /\ b[2] \in Nat
      /\ PortsPerHost \in Nat
  BY AgentIs, Shape, DeploymentAssumption
<1>2. \A p, x, y \in Int : /\ p * (y - 1) = p * (x - 1) + p * (y - x)
                           /\ p * (y - x) \in Int
                           /\ p * (x - 1) \in Int
  OBVIOUS
<1> DEFINE p == PortsPerHost * (a[1] - 1)
           q == PortsPerHost * (b[1] - 1)
           d == PortsPerHost * (b[1] - a[1])
<1>3. p \in Int /\ q \in Int /\ d \in Int /\ q = p + d
  BY <1>1, <1>2
<1>4. Port(a) = p + a[2] - 1 /\ Port(b) = q + b[2] - 1
  BY DEF Port
<1> HIDE DEF p, q, d
<1>5. Port(a) = Port(b) <=> a[2] = d + b[2]
  BY <1>1, <1>3, <1>4
<1> QED
  BY <1>1, <1>3, <1>5 DEF d

\* Two agents have one port if and only if a unit has too many of them.
LEMMA Clash ==
  ASSUME network \in Networks
  PROVE  PortsClash <=> \E u \in Units : TooMany(u)
<1>1. ASSUME NEW a \in Agents, NEW b \in Agents, Port(a) = Port(b), a[1] < b[1]
      PROVE  TooMany(a[1])
  <2>1. /\ a[1] \in Units /\ b[1] \in Units
        /\ a[2] <= AgentsIn(a[1]) /\ 1 <= b[2] /\ b[2] <= AgentsIn(b[1])
        /\ AgentsIn(a[1]) \in Nat /\ AgentsIn(b[1]) \in Nat
    BY AgentIs, Shape
  <2>2. AgentsIn(a[1]) > PortsPerHost * (b[1] - a[1]) /\ AgentsIn(b[1]) > 0
    BY <1>1, <2>1, PortOf
  <2> QED
    BY <1>1, <2>1, <2>2 DEF TooMany
<1>2. ASSUME NEW a \in Agents, NEW b \in Agents, Port(a) = Port(b), a[1] = b[1]
      PROVE  a = b
  <2>1. a[1] \in Nat /\ a[2] \in Nat /\ b[2] \in Nat /\ PortsPerHost \in Nat
    BY PortOf, DeploymentAssumption
  <2>2. PortsPerHost * (b[1] - a[1]) = 0
    BY <1>2, <2>1
  <2>3. a[2] = b[2]
    BY <1>2, <2>1, <2>2, PortOf
  <2> QED
    BY <1>2, <2>3, AgentIs
<1>3. ASSUME PortsClash
      PROVE  \E u \in Units : TooMany(u)
  <2>1. PICK a \in Agents, b \in Agents : a # b /\ Port(a) = Port(b)
    BY <1>3 DEF PortsClash
  <2>2. a[1] \in Nat /\ b[1] \in Nat /\ a[1] \in Units /\ b[1] \in Units
    BY PortOf, AgentIs
  <2> QED
    BY <1>1, <1>2, <2>1, <2>2
<1>4. ASSUME NEW u \in Units, TooMany(u)
      PROVE  PortsClash
  <2>1. PICK v \in Units : /\ u < v /\ AgentsIn(v) > 0
                           /\ AgentsIn(u) > PortsPerHost * (v - u)
    BY <1>4 DEF TooMany
  <2> DEFINE i == PortsPerHost * (v - u) + 1
  <2>2. /\ u \in Nat /\ v \in Nat /\ AgentsIn(u) \in Nat /\ AgentsIn(v) \in Nat
        /\ PortsPerHost \in Nat
    BY Shape, DeploymentAssumption
  <2>3. PortsPerHost * (v - u) \in Nat
    BY <2>1, <2>2
  <2>4. i \in 1 .. AgentsIn(u) /\ 1 \in 1 .. AgentsIn(v)
    BY <2>1, <2>2, <2>3
  <2> HIDE DEF i
  <2> DEFINE a == <<u, i>>
             b == <<v, 1>>
  <2>5. /\ a \in Agents /\ a[1] = u /\ a[2] = i
        /\ b \in Agents /\ b[1] = v /\ b[2] = 1
    BY <2>4, AgentIs
  <2> HIDE DEF a, b
  <2>6. Port(a) = Port(b)
    BY <2>5, PortOf DEF i
  <2>7. a # b
    BY <2>1, <2>2, <2>5
  <2> QED
    BY <2>5, <2>6, <2>7 DEF PortsClash
<1> QED
  BY <1>3, <1>4

\* The name of a swarm is not that of an agent.
LEMMA NamesDiffer ==
  ASSUME NEW a, NEW b, Name(a) = Name(b)
  PROVE  IsSwarm(a[1]) <=> IsSwarm(b[1])
<1>1. \A x, y, z : <<"Swarm", x>> # <<"TskAgent", y, z>>
  <2>1. \A x, y, z : Len(<<"Swarm", x>>) = 2 /\ Len(<<"TskAgent", y, z>>) = 3
    OBVIOUS
  <2> QED
    BY <2>1
<1> QED
  BY <1>1 DEF Name

\* An agent of a host is created with its own name if and only if its host is
\* the first that has any.
LEMMA OwnName ==
  ASSUME network \in Networks, NEW a \in Agents, ~ IsSwarm(a[1])
  PROVE  CompName(a) = Name(a) <=> FirstHost(a[1])
<1> DEFINE u == a[1]
           b == CHOOSE c \in Agents : Index(c) = a[2]
<1>1. /\ u \in Units /\ u \in Nat /\ a[2] \in 1 .. AgentsIn(u)
      /\ Earlier(u) \in Nat /\ a[2] \in Nat
  BY AgentIs, Shape, EarlierIs
<1>2. b \in Agents /\ Index(b) = a[2]
  <2>1. \E c \in Agents : Index(c) = a[2]
    BY <1>1, IndexTaken
  <2> QED
    BY <2>1
<1>3. CompName(a) = Name(b)
  BY DEF CompName
<1> HIDE DEF b
<1>4. Name(a) = <<"TskAgent", u, a[2]>>
  BY DEF Name
<1>5. ASSUME Name(b) = Name(a) PROVE b = a
  <2>1. ~ IsSwarm(b[1])
    BY <1>5, NamesDiffer
  <2>2. Name(b) = <<"TskAgent", b[1], b[2]>>
    BY <2>1 DEF Name
  <2>3. b[1] = u /\ b[2] = a[2]
    BY <1>4, <1>5, <2>2
  <2> QED
    BY <1>2, <2>3, AgentIs
<1>6. CompName(a) = Name(a) <=> Earlier(u) = 0
  <2>1. Index(a) = Earlier(u) + a[2]
    BY DEF Index
  <2>2. b = a <=> Index(a) = a[2]
    BY <1>2, IndexTells
  <2>3. CompName(a) = Name(a) <=> b = a
    BY <1>3, <1>5
  <2> QED
    BY <1>1, <2>1, <2>2, <2>3
<1>7. ASSUME FirstHost(u), Earlier(u) # 0 PROVE FALSE
  <2>1. u # 1
    BY <1>7, EarlierIs
  <2>2. Before(u) = {}
    <3>1. ASSUME NEW c \in Before(u) PROVE FALSE
      <4>1. c \in Agents /\ c[1] < u /\ c[1] \in Units /\ c[2] \in 1 .. AgentsIn(c[1])
        BY AgentIs DEF Before
      <4>2. c[1] \in Nat \ {0} /\ AgentsIn(c[1]) \in Nat
        BY <4>1, Shape
      <4>3. c[1] \in 1 .. u - 1
        BY <1>1, <4>1, <4>2
      <4>4. AgentsIn(c[1]) = 0
        BY <1>7, <4>3 DEF FirstHost
      <4> QED
        BY <4>1, <4>4
    <3> QED
      BY <3>1
  <2> QED
    BY <1>7, <2>2, FS_EmptySet DEF Earlier, Before
<1>8. ASSUME ~ FirstHost(u), Earlier(u) = 0 PROVE FALSE
  <2>1. PICK v \in 1 .. u - 1 : AgentsIn(v) # 0
    BY <1>8 DEF FirstHost
  <2>2. v \in Nat \ {0} /\ v < u /\ v \in Units
    BY <1>1, <2>1, Shape
  <2>3. /\ Earlier(v) \in Nat /\ AgentsIn(v) \in Nat
        /\ Earlier(v) + AgentsIn(v) <= Earlier(u)
    BY <1>1, <2>2, EarlierIs, Shape
  <2> QED
    BY <1>8, <2>1, <2>3
<1> QED
  BY <1>6, <1>7, <1>8

\* Of the agents of one name there is a last one.
LEMMA LastIs ==
  ASSUME network \in Networks, NEW a \in Agents
  PROVE  /\ LastOf(Name(a)) \in Agents
         /\ Name(LastOf(Name(a))) = Name(a)
         /\ \A b \in Agents : Name(b) = Name(a) => Index(b) <= Index(LastOf(Name(a)))
<1> DEFINE N == Hosts + Len(network.swarms)
           n == Earlier(N) + AgentsIn(N)
           S == {b \in Agents : Name(b) = Name(a)}
           T == {n - Index(b) : b \in S}
<1>1. N \in Units /\ \A u \in Units : u \in Nat /\ u <= N
  <2>1. a[1] \in Units
    BY AgentIs
  <2> QED
    BY <2>1, Shape DEF Units
<1>2. n \in Nat
  BY <1>1, EarlierIs, Shape
<1>3. ASSUME NEW b \in Agents
      PROVE  Index(b) \in Nat /\ Index(b) <= n
  <2>1. /\ b[1] \in Units /\ b[2] \in 1 .. AgentsIn(b[1])
        /\ Earlier(b[1]) \in Nat /\ AgentsIn(b[1]) \in Nat
    BY AgentIs, Shape, EarlierIs
  <2>2. Earlier(b[1]) + AgentsIn(b[1]) <= n
    <3>1. CASE b[1] = N
      BY <1>2, <2>1, <3>1
    <3>2. CASE b[1] < N
      <4>1. /\ Earlier(b[1]) + AgentsIn(b[1]) <= Earlier(N)
            /\ Earlier(N) \in Nat /\ AgentsIn(N) \in Nat
        BY <1>1, <2>1, <3>2, EarlierIs, Shape
      <4> QED
        BY <2>1, <4>1
    <3> QED
      BY <1>1, <2>1, <3>1, <3>2
  <2> QED
    BY <1>2, <2>1, <2>2 DEF Index
<1> HIDE DEF n
<1>4. T \subseteq Nat /\ T # {}
  <2>1. \A b \in S : n - Index(b) \in Nat
    BY <1>2, <1>3
  <2>2. a \in S
    OBVIOUS
  <2> QED
    BY <2>1, <2>2
<1>5. \E y \in T : \A z \in T : ~ (<<z, y>> \in OpToRel(<, Nat))
  <2> HIDE DEF T
  <2> QED
    BY <1>4, NatLessThanWellFounded, WFMin
<1>6. PICK y \in T : \A z \in T : ~ (z < y)
  BY <1>4, <1>5 DEF OpToRel
<1>7. PICK c \in S : y = n - Index(c)
  BY <1>6
<1>8. \A b \in S : Index(b) <= Index(c)
  <2> TAKE b \in S
  <2>1. ~ (n - Index(b) < n - Index(c))
    BY <1>6, <1>7
  <2> QED
    BY <1>2, <1>3, <2>1
<1>9. \E d \in Agents : /\ Name(d) = Name(a)
                        /\ \A b \in Agents : Name(b) = Name(a) => Index(b) <= Index(d)
  BY <1>8
<1> QED
  BY <1>9 DEF LastOf

\* While the master runs, it has sockets for exactly the last agents of each
\* name.
Network ==
  /\ network \in Networks
  /\ process[Master] = "failed" => PortsClash
  /\ process[Master] = "running" =>
       /\ ~ PortsClash
       /\ connections = [n \in {Name(a) : a \in Agents} |-> Port(LastOf(n))]

LEMMA Listens ==
  ASSUME Network, process[Master] = "running", NEW a \in Agents
  PROVE  Port(a) \in Range(connections) <=> a = LastOf(Name(a))
<1>1. Range(connections) = {Port(LastOf(Name(b))) : b \in Agents}
  BY DEF Network, Range
<1>2. ASSUME NEW b \in Agents, Port(a) = Port(LastOf(Name(b)))
      PROVE  a = LastOf(Name(a))
  <2>1. LastOf(Name(b)) \in Agents /\ Name(LastOf(Name(b))) = Name(b)
    BY LastIs DEF Network
  <2>2. a = LastOf(Name(b))
    BY <1>2, <2>1 DEF Network, PortsClash
  <2> QED
    BY <2>1, <2>2
<1> QED
  BY <1>1, <1>2

\* An agent is the last of its name, unless a later swarm has its first node.
LEMMA IsLast ==
  ASSUME network \in Networks, NEW a \in Agents
  PROVE  a = LastOf(Name(a)) <=> ~ (IsSwarm(a[1]) /\ Replaced(a[1]))
<1> DEFINE l == LastOf(Name(a))
<1>1. l \in Agents /\ Name(l) = Name(a)
  BY LastIs
<1>2. \A b \in Agents : Name(b) = Name(a) => Index(b) <= Index(l)
  BY LastIs
<1> HIDE DEF l
<1>3. /\ a[1] \in Units /\ l[1] \in Units /\ a[1] \in Nat /\ l[1] \in Nat
      /\ a = <<a[1], a[2]>> /\ l = <<l[1], l[2]>>
      /\ a[2] \in 1 .. AgentsIn(a[1]) /\ l[2] \in 1 .. AgentsIn(l[1])
  BY <1>1, AgentIs, Shape
<1>4. IsSwarm(a[1]) <=> IsSwarm(l[1])
  BY <1>1, NamesDiffer
<1>5. CASE ~ IsSwarm(a[1])
  <2>1. /\ Name(a) = <<"TskAgent", a[1], a[2]>>
        /\ Name(l) = <<"TskAgent", l[1], l[2]>>
    BY <1>4, <1>5 DEF Name
  <2>2. a[1] = l[1] /\ a[2] = l[2]
    BY <1>1, <2>1
  <2> QED
    BY <1>3, <1>5, <2>2 DEF l
<1>6. CASE IsSwarm(a[1])
  <2>1. /\ Name(a) = <<"Swarm", AddressOf(a[1])>>
        /\ Name(l) = <<"Swarm", AddressOf(l[1])>>
    BY <1>4, <1>6 DEF Name
  <2>2. AddressOf(l[1]) = AddressOf(a[1])
    BY <1>1, <2>1
  <2>3. a[2] = 1 /\ l[2] = 1
    BY <1>3, <1>4, <1>6, Shape
  <2>4. ASSUME Replaced(a[1]) PROVE a # l
    <3>1. PICK v \in Units : a[1] < v /\ AddressOf(v) = AddressOf(a[1])
      BY <2>4 DEF Replaced
    <3> DEFINE b == <<v, 1>>
    <3>2. IsSwarm(v) /\ v \in Nat
      BY <1>3, <1>6, <3>1, Shape DEF IsSwarm
    <3>3. b \in Agents /\ b[1] = v /\ b[2] = 1
      BY <3>2, AgentIs, Shape
    <3> HIDE DEF b
    <3>4. Name(b) = Name(a)
      BY <2>1, <3>1, <3>2, <3>3 DEF Name
    <3>5. Index(b) <= Index(l)
      BY <1>2, <3>3, <3>4
    <3>6. /\ Earlier(a[1]) \in Nat /\ Earlier(v) \in Nat
          /\ Earlier(a[1]) + 1 <= Earlier(v)
      BY <1>3, <1>6, <3>1, EarlierIs, Shape
    <3>7. Index(a) = Earlier(a[1]) + 1 /\ Index(b) = Earlier(v) + 1
      BY <2>3, <3>3 DEF Index
    <3> QED
      BY <3>5, <3>6, <3>7
  <2>5. ASSUME a # l PROVE Replaced(a[1])
    <3>1. a[1] # l[1]
      BY <1>3, <2>3, <2>5
    <3>2. Index(a) <= Index(l)
      BY <1>2
    <3>3. /\ Earlier(a[1]) \in Nat /\ Earlier(l[1]) \in Nat
          /\ l[1] < a[1] => Earlier(l[1]) + 1 <= Earlier(a[1])
      BY <1>3, <1>4, <1>6, EarlierIs, Shape
    <3>4. Index(a) = Earlier(a[1]) + 1 /\ Index(l) = Earlier(l[1]) + 1
      BY <2>3 DEF Index
    <3>5. a[1] < l[1]
      BY <1>3, <3>1, <3>2, <3>3, <3>4
    <3> QED
      BY <1>3, <2>2, <3>5 DEF Replaced
  <2> QED
    BY <1>6, <2>4, <2>5 DEF l
<1> QED
  BY <1>5, <1>6

LEMMA NetworkInit == Init => Network
BY DeploymentAssumption DEF Init, DeploymentInit, Network

LEMMA NetworkNext == TypeOK /\ Network /\ [Next]_vars => Network'
<1> SUFFICES ASSUME TypeOK, Network, [Next]_vars PROVE Network'
  OBVIOUS
<1>1. network' = network
  BY DEF Next, MasterStarts, StartMaster, MasterCrashes, StopMaster, HostStarts, HostCrashes,
         StartHost, StopHost, OtherStarts, Announce, Agent, ReceiveInit, ReceiveTask, ReadPath,
         Rename, BeginAssign, EndAssign, MakeArea, TaskEnds, vars
<1>2. PortsClash' <=> PortsClash
  BY <1>1 DEF PortsClash, Agents, Units, AgentsIn, Port, IsSwarm, Hosts
<1>3. /\ Agents' = Agents
      /\ \A n : LastOf(n)' = LastOf(n)
      /\ \A a : Name(a)' = Name(a) /\ Port(a)' = Port(a)
  BY <1>1 DEF LastOf, Agents, Units, AgentsIn, Name, Index, Earlier, IsSwarm, AddressOf, Hosts,
             Port
<1>t. process \in [Addresses -> {"absent", "running", "failed"}]
  BY DEF TypeOK
<1>4. \/ UNCHANGED <<process, connections>>
      \/ StartMaster
      \/ (process'[Master] = process[Master] /\ connections' = connections)
      \/ process'[Master] = "absent"
  BY <1>t, Constants DEF Next, MasterStarts, MasterCrashes, StopMaster, HostStarts, HostCrashes,
                   StartHost, StopHost, OtherStarts, Announce, Agent, ReceiveInit, ReceiveTask,
                   ReadPath, Rename, BeginAssign, EndAssign, MakeArea, TaskEnds, vars
<1>5. CASE StartMaster
  <2>1. process'[Master] \in {"failed", "running", process[Master]}
    BY <1>t, <1>5, Constants DEF StartMaster
  <2>2. process'[Master] = "failed" => PortsClash
    BY <1>t, <1>5, Constants DEF StartMaster, Network
  <2> QED
    BY <1>t, <1>1, <1>2, <1>3, <1>5, <2>1, <2>2, Constants DEF StartMaster, Network
<1>6. CASE \/ UNCHANGED <<process, connections>>
          \/ (process'[Master] = process[Master] /\ connections' = connections)
          \/ process'[Master] = "absent"
  BY <1>1, <1>2, <1>3, <1>6 DEF Network
<1> QED
  BY <1>4, <1>5, <1>6

\* Whom the Task Manager hears, for every network (deployer.cpp, config.cpp).
THEOREM HeardAgents == Spec => []HeardIff
<1>1. Network => HeardIff
  <2> SUFFICES ASSUME Network PROVE HeardIff
    OBVIOUS
  <2>1. PortsClash <=> \E u \in Units : TooMany(u)
    BY Clash DEF Network
  <2>2. ASSUME process[Master] = "running", NEW a \in Created
        PROVE  Heard(a) <=> IF IsSwarm(a[1]) THEN ~ Replaced(a[1]) ELSE FirstHost(a[1])
    <3>1. a \in Agents
      BY DEF Created
    <3>2. Port(a) \in Range(connections) <=> ~ (IsSwarm(a[1]) /\ Replaced(a[1]))
      BY <2>2, <3>1, Listens, IsLast DEF Network
    <3>3. CompName(a) = Name(a) <=> IsSwarm(a[1]) \/ FirstHost(a[1])
      BY <3>1, OwnName DEF Network, CompName
    <3> QED
      BY <2>2, <3>2, <3>3 DEF Heard
  <2> QED
    BY <2>1, <2>2 DEF HeardIff, Network
<1> QED
  BY <1>1, NetworkInit, NetworkNext, TypesOfSessions, PTL DEF Spec
=============================================================================
