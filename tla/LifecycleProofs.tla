-------------------------- MODULE LifecycleProofs --------------------------
(***************************************************************************)
(* For any components on any hosts, any number of which are killed or      *)
(* stuck: nothing ends unasked, a process ends after one of its            *)
(* components, the Event Manager's view errs on killed hosts only.         *)
(*                                                                         *)
(* The argument: the place of a thread determines the state of its         *)
(* component (Life); the Event Manager was asked to quit if it has left    *)
(* its loop, and leaves it, or is killed, when asked (Obeys), so that      *)
(* QUIT, and all that follows from it, comes after the request (Asked);    *)
(* until then no component leaves its loop unless its host is killed, and  *)
(* what it answered remains true but for that (Told).                      *)
(***************************************************************************)
EXTENDS Lifecycle, TLAPS

Ending == {"leaving", "stopped", "done"}

Life(n) ==
  /\ pc[n] = "absent" => state[n] = "OFF"
  /\ pc[n] \in {"created", "waiting", "woken"} => state[n] = "INITIALISED"
  /\ pc[n] \in {"looping", "stuck"} => state[n] = "OPERATIONAL"
  /\ pc[n] = "leaving" => state[n] = "RUNNING"
  /\ pc[n] \in {"stopped", "done", "gone"} => state[n] = "OFF"
  /\ pc[n] = "gone" => main[HostOf[n]] = "killed"

Obeys ==
  /\ pc[EvtMng] \in Ending => requestQuit
  /\ requestQuit => pc[EvtMng] \in Ending \cup {"gone"}

Asked(n) ==
  /\ pc[n] \in Ending => requestQuit
  /\ \A i \in 1 .. Len(commands[n]) : commands[n][i] = "QUIT" => requestQuit

Says(n, s) ==
  s = "none" \/ (s = "OPERATIONAL" /\ pc[n] \in {"looping", "stuck", "gone"})
Told(n) == ~ requestQuit => Says(n, answers[n]) /\ Says(n, nodeStates[n])

Process(h) ==
  /\ main[h] = "absent" => \A n \in OnHost(h) : pc[n] = "absent"
  /\ main[h] \in {"returning", "exited"} => \E n \in OnHost(h) : pc[n] = "done"

Inv == /\ \A n \in Nodes : Life(n) /\ Asked(n)
       /\ Obeys
       /\ \A n \in Others : Told(n)
       /\ \A h \in Hosts : Process(h)

-----------------------------------------------------------------------------
\* The transitions that the code makes.
LEMMA Transitions ==
  /\ After("OFF", "INITIALISED") = "INITIALISED"
  /\ After(After("INITIALISED", "RUNNING"), "OPERATIONAL") = "OPERATIONAL"
  /\ After("OPERATIONAL", "RUNNING") = "RUNNING"
  /\ After("RUNNING", "OFF") = "OFF"
BY DEF After, ValidTransitions

LEMMA AfterType ==
  ASSUME NEW s \in States, NEW new \in States
  PROVE  After(s, new) \in States
BY DEF After

\* What a wake-up does to the places: it concerns who is in the wait only.
LEMMA WakeUp ==
  ASSUME TypeOK, NEW h \in Hosts
  PROVE  /\ WakeNodes(h) \in [Nodes -> ThreadPlaces]
         /\ \A n \in Nodes :
              \/ WakeNodes(h)[n] = pc[n]
              \/ pc[n] = "waiting" /\ WakeNodes(h)[n] = "woken"
<1>1. Woken(h) \subseteq Nodes /\ \A m \in Woken(h) : pc[m] = "waiting"
  BY DEF Woken, OnHost
<1>2. "woken" \in ThreadPlaces
  BY DEF ThreadPlaces
<1> QED
  BY <1>1, <1>2 DEF WakeNodes, TypeOK

LEMMA InitInv == Init => TypeOK /\ Inv
<1> SUFFICES ASSUME Init PROVE TypeOK /\ Inv
  OBVIOUS
<1>1. TypeOK
  <2>1. "absent" \in MainPlaces /\ "absent" \in ThreadPlaces /\ "OFF" \in States
    BY DEF MainPlaces, ThreadPlaces, States
  <2>2. 0 \in 0 .. InitIteration + PingPeriod
    BY LifecycleAssumption
  <2>3. <<>> \in Seq({"INIT", "QUIT"})
    OBVIOUS
  <2> QED
    BY <2>1, <2>2, <2>3 DEF Init, TypeOK
<1>2. \A n \in Nodes : Life(n) /\ Asked(n)
  BY DEF Init, Life, Asked, Ending
<1>3. Obeys
  BY LifecycleAssumption DEF Init, Obeys, Ending
<1>4. \A n \in Others : Told(n)
  BY DEF Init, Told, Says, Others
<1>5. \A h \in Hosts : Process(h)
  BY DEF Init, Process, OnHost
<1> QED
  BY <1>1, <1>2, <1>3, <1>4, <1>5 DEF Inv

-----------------------------------------------------------------------------
(* The main thread of a host                                               *)

LEMMA DeployStep ==
  ASSUME TypeOK, Inv, NEW h \in Hosts, Deploy(h)
  PROVE  TypeOK' /\ Inv'
<1>1. \A n \in OnHost(h) : pc[n] = "absent" /\ state[n] = "OFF" /\ n \in Nodes
  BY DEF Deploy, Inv, Process, Life, OnHost
<1>2. /\ \A n \in OnHost(h) : pc'[n] = "created" /\ state'[n] = "INITIALISED"
      /\ \A n \in Nodes \ OnHost(h) : pc'[n] = pc[n] /\ state'[n] = state[n]
  BY <1>1, Transitions DEF Deploy
<1>3. TypeOK'
  <2>1. "created" \in ThreadPlaces /\ "creating" \in MainPlaces
    BY DEF ThreadPlaces, MainPlaces
  <2>2. state' \in [Nodes -> States] /\ pc' \in [Nodes -> ThreadPlaces]
    <3>1. "INITIALISED" \in States
      BY DEF States
    <3> QED
      BY <2>1, <3>1, AfterType DEF Deploy, TypeOK
  <2> QED
    BY <2>1, <2>2 DEF Deploy, TypeOK
<1>4. \A n \in Nodes : Life(n)' /\ Asked(n)'
  <2> TAKE n \in Nodes
  <2>1. Life(n) /\ Asked(n) /\ UNCHANGED <<commands, requestQuit>>
    BY DEF Deploy, Inv
  <2>2. CASE n \in OnHost(h)
    BY <1>2, <2>1, <2>2 DEF Life, Asked, Ending
  <2>3. CASE n \notin OnHost(h)
    <3>1. HostOf[n] # h /\ HostOf[n] \in Hosts
      BY <2>3, LifecycleAssumption DEF OnHost
    <3>2. main'[HostOf[n]] = main[HostOf[n]]
      BY <3>1 DEF Deploy, TypeOK
    <3> QED
      BY <1>2, <2>1, <2>3, <3>2 DEF Life, Asked, Ending
  <2> QED
    BY <2>2, <2>3
<1>5. Obeys'
  BY <1>1, <1>2, LifecycleAssumption DEF Deploy, Inv, Obeys, Ending
<1>6. \A n \in Others : Told(n)'
  BY <1>1, <1>2 DEF Deploy, Inv, Told, Says, Others
<1>7. \A g \in Hosts : Process(g)'
  <2> TAKE g \in Hosts
  <2>1. CASE g = h
    BY <2>1 DEF Deploy, TypeOK, Process
  <2>2. CASE g # h
    <3>1. \A n \in OnHost(g) : n \in Nodes \ OnHost(h)
      BY <2>2 DEF OnHost
    <3>2. main'[g] = main[g]
      BY <2>2 DEF Deploy, TypeOK
    <3>3. OnHost(g)' = OnHost(g)
      BY DEF OnHost
    <3> QED
      BY <1>2, <3>1, <3>2, <3>3 DEF Inv, Process
  <2> QED
    BY <2>1, <2>2
<1> QED
  BY <1>3, <1>4, <1>5, <1>6, <1>7 DEF Inv

LEMMA MainStepStep ==
  ASSUME TypeOK, Inv, NEW h \in Hosts, MainStep(h)
  PROVE  TypeOK' /\ Inv'
<1>1. CASE NotifyStart(h)
  <2>1. /\ pc' \in [Nodes -> ThreadPlaces]
        /\ \A n \in Nodes : pc'[n] = pc[n]
                            \/ (pc[n] = "waiting" /\ pc'[n] = "woken")
    <3>1. pc' = WakeNodes(h)
      BY <1>1 DEF NotifyStart
    <3> QED
      BY <3>1, WakeUp
  <2>2. TypeOK'
    BY <1>1, <2>1 DEF NotifyStart, TypeOK, MainPlaces
  <2>3. \A n \in Nodes : Life(n)' /\ Asked(n)'
    BY <1>1, <2>1 DEF NotifyStart, Inv, Life, Asked, Ending
  <2>4. Obeys'
    BY <1>1, <2>1, LifecycleAssumption DEF NotifyStart, Inv, Obeys, Ending
  <2>5. \A n \in Others : Told(n)'
    BY <1>1, <2>1 DEF NotifyStart, Inv, Told, Says, Others
  <2>6. \A g \in Hosts : Process(g)'
    BY <1>1, <2>1 DEF NotifyStart, Inv, Process, OnHost, TypeOK
  <2> QED
    BY <2>2, <2>3, <2>4, <2>5, <2>6 DEF Inv
<1>2. CASE WaitForEnd(h) \/ Exit(h)
  <2>1. /\ main' \in [Hosts -> MainPlaces]
        /\ \A g \in Hosts : /\ main'[g] = "absent" => main[g] = "absent"
                            /\ main'[g] \in {"returning", "exited"} =>
                                 main[g] \in {"returning", "exited"}
                            /\ main[g] = "killed" => main'[g] = "killed"
        /\ UNCHANGED <<pc, state, iteration, requestQuit, commands, asked,
                       answers, nodeStates>>
    BY <1>2 DEF WaitForEnd, Exit, TypeOK, MainPlaces
  <2>2. TypeOK'
    BY <2>1 DEF TypeOK
  <2>3. Inv'
    BY <2>1, LifecycleAssumption
    DEF Inv, Life, Asked, Obeys, Told, Says, Process, OnHost
  <2> QED
    BY <2>2, <2>3
<1> QED
  BY <1>1, <1>2 DEF MainStep

-----------------------------------------------------------------------------
(* The thread of a component                                               *)

LEMMA ThreadStepStep ==
  ASSUME TypeOK, Inv, NEW n \in Nodes, ThreadStep(n)
  PROVE  TypeOK' /\ Inv'
<1> USE LifecycleAssumption
<1>1. CASE EnterWait(n)
  <2>1. TypeOK'
    BY <1>1 DEF EnterWait, TypeOK, ThreadPlaces
  <2>2. Inv'
    BY <1>1 DEF EnterWait, TypeOK, Inv, Life, Asked, Obeys, Told, Says, Process,
                OnHost, Others, Ending
  <2> QED
    BY <2>1, <2>2
<1>2. CASE Start(n)
  <2>1. state[n] = "INITIALISED" /\ state'[n] = "OPERATIONAL"
    BY <1>2, Transitions DEF Start, TypeOK, Inv, Life
  <2>2. requestQuit' = requestQuit
    BY <1>2 DEF Start, TypeOK, Inv, Obeys, Ending
  <2>3. TypeOK'
    <3>1. "OPERATIONAL" \in States /\ "looping" \in ThreadPlaces
      BY DEF States, ThreadPlaces
    <3>2. state' = [state EXCEPT ![n] = "OPERATIONAL"]
      BY <1>2, <2>1 DEF Start, TypeOK
    <3> QED
      BY <1>2, <2>2, <3>1, <3>2 DEF Start, TypeOK
  <2>4. Inv'
    BY <1>2, <2>1, <2>2
    DEF Start, TypeOK, Inv, Life, Asked, Obeys, Told, Says, Process, OnHost,
        Others, Ending
  <2> QED
    BY <2>3, <2>4
<1>3. CASE Stop(n)
  <2>1. state[n] = "RUNNING" /\ state'[n] = "OFF"
    BY <1>3, Transitions DEF Stop, TypeOK, Inv, Life
  <2>2. TypeOK'
    <3>1. "OFF" \in States /\ "stopped" \in ThreadPlaces
      BY DEF States, ThreadPlaces
    <3>2. state' = [state EXCEPT ![n] = "OFF"]
      BY <1>3, <2>1 DEF Stop, TypeOK
    <3> QED
      BY <1>3, <3>1, <3>2 DEF Stop, TypeOK
  <2>3. Inv'
    BY <1>3, <2>1
    DEF Stop, TypeOK, Inv, Life, Asked, Obeys, Told, Says, Process, OnHost,
        Others, Ending
  <2> QED
    BY <2>2, <2>3
<1>4. CASE NotifyEnd(n)
  <2>1. HostOf[n] \in Hosts /\ pc[n] = "stopped"
    BY <1>4 DEF NotifyEnd, MayNotify
  <2>2. /\ pc' \in [Nodes -> ThreadPlaces]
        /\ pc'[n] = "done"
        /\ \A m \in Nodes \ {n} : pc'[m] = pc[m]
                                  \/ (pc[m] = "waiting" /\ pc'[m] = "woken")
    <3>1. "done" \in ThreadPlaces
      BY DEF ThreadPlaces
    <3> QED
      BY <1>4, <2>1, <3>1, WakeUp DEF NotifyEnd
  <2>3. TypeOK'
    <3>1. main' \in [Hosts -> MainPlaces]
      BY <1>4 DEF NotifyEnd, WakeMain, TypeOK, MainPlaces
    <3> QED
      BY <1>4, <2>2, <3>1 DEF NotifyEnd, TypeOK
  <2>4. \A m \in Nodes : Life(m)' /\ Asked(m)'
    <3>1. \A h \in Hosts : main[h] = "killed" => main'[h] = "killed"
      BY <1>4, <2>1 DEF NotifyEnd, WakeMain, TypeOK
    <3> QED
      BY <1>4, <2>1, <2>2, <3>1 DEF NotifyEnd, Inv, Life, Asked, Ending
  <2>5. Obeys'
    BY <1>4, <2>1, <2>2 DEF NotifyEnd, Inv, Obeys, Ending
  <2>6. \A m \in Others : Told(m)'
    BY <1>4, <2>1, <2>2 DEF NotifyEnd, Inv, Told, Says, Others
  <2>7. \A h \in Hosts : Process(h)'
    BY <1>4, <2>1, <2>2 DEF NotifyEnd, WakeMain, TypeOK, Inv, Process, OnHost
  <2> QED
    BY <2>3, <2>4, <2>5, <2>6, <2>7 DEF Inv
<1> QED
  BY <1>1, <1>2, <1>3, <1>4 DEF ThreadStep

\* The commands that remain, or are there with one more, are those that were.
LEMMA Commands ==
  ASSUME NEW q \in Seq({"INIT", "QUIT"})
  PROVE  /\ \A c \in {"INIT", "QUIT"} :
              /\ Append(q, c) \in Seq({"INIT", "QUIT"})
              /\ \A i \in 1 .. Len(Append(q, c)) :
                   Append(q, c)[i] = c
                   \/ (i \in 1 .. Len(q) /\ Append(q, c)[i] = q[i])
         /\ q # <<>> => /\ Head(q) = q[1] /\ 1 \in 1 .. Len(q)
                        /\ Tail(q) \in Seq({"INIT", "QUIT"})
                        /\ \A i \in 1 .. Len(Tail(q)) :
                             i + 1 \in 1 .. Len(q) /\ Tail(q)[i] = q[i + 1]
OBVIOUS

LEMMA NodeStep ==
  ASSUME TypeOK, Inv, NEW n \in Nodes, NEW found, NodeIterates(n, found)
  PROVE  TypeOK' /\ Inv'
<1> USE LifecycleAssumption
<1> DEFINE quits == "CMD" \in found /\ Head(commands[n]) = "QUIT"
<1>1. n \in Others /\ n # EvtMng /\ pc[n] = "looping"
  BY DEF NodeIterates, Others
<1>2. state[n] = "OPERATIONAL" /\ commands[n] \in Seq({"INIT", "QUIT"})
  BY <1>1 DEF Inv, Life, TypeOK
<1>3. quits => requestQuit
  <2> SUFFICES ASSUME quits PROVE requestQuit
    OBVIOUS
  <2>1. commands[n] # <<>>
    BY DEF NodeIterates
  <2> QED
    BY <1>2, <2>1, Commands DEF Inv, Asked
<1>4. /\ state' = [state EXCEPT ![n] = IF quits THEN "RUNNING" ELSE "OPERATIONAL"]
      /\ pc' = [pc EXCEPT ![n] = IF quits THEN "leaving" ELSE "looping"]
  <2>1. state' = [state EXCEPT ![n] = IF quits THEN "RUNNING" ELSE "OPERATIONAL"]
    BY <1>2, Transitions DEF NodeIterates, ProcessCmdMsg, TypeOK
  <2>2. state'[n] = IF quits THEN "RUNNING" ELSE "OPERATIONAL"
    BY <2>1 DEF TypeOK
  <2>3. pc' = [pc EXCEPT ![n] = IF state'[n] = "OPERATIONAL" THEN "looping"
                                                             ELSE "leaving"]
    BY DEF NodeIterates, LoopOrLeave
  <2> HIDE DEF quits
  <2>4. CASE quits
    BY <2>1, <2>2, <2>3, <2>4
  <2>5. CASE ~ quits
    BY <2>1, <2>2, <2>3, <2>5
  <2> QED
    BY <2>4, <2>5
<1>5. /\ commands' \in [Nodes -> Seq({"INIT", "QUIT"})]
      /\ \A m \in Nodes : \A i \in 1 .. Len(commands'[m]) :
           \E j \in 1 .. Len(commands[m]) : commands'[m][i] = commands[m][j]
  <2>1. CASE "CMD" \in found
    <3>1. commands[n] # <<>> /\ commands' = [commands EXCEPT ![n] = Tail(@)]
      BY <2>1 DEF NodeIterates
    <3>2. /\ Tail(commands[n]) \in Seq({"INIT", "QUIT"})
          /\ \A i \in 1 .. Len(Tail(commands[n])) :
               i + 1 \in 1 .. Len(commands[n])
               /\ Tail(commands[n])[i] = commands[n][i + 1]
      BY <1>2, <3>1, Commands
    <3>3. commands' \in [Nodes -> Seq({"INIT", "QUIT"})]
      BY <3>1, <3>2 DEF TypeOK
    <3>4. commands'[n] = Tail(commands[n])
          /\ \A m \in Nodes \ {n} : commands'[m] = commands[m]
      BY <3>1 DEF TypeOK
    <3> QED
      BY <3>2, <3>3, <3>4
  <2>2. CASE "CMD" \notin found
    <3>1. commands' = commands
      BY <2>2 DEF NodeIterates
    <3> QED
      BY <3>1 DEF TypeOK
  <2> QED
    BY <2>1, <2>2
<1>6. /\ asked' \subseteq Others
      /\ answers' \in [Nodes -> States \cup {"none"}]
      /\ \A m \in Nodes \ {n} : answers'[m] = answers[m]
      /\ answers'[n] \in {answers[n], state'[n]}
  <2>1. state'[n] \in States
    BY <1>4 DEF TypeOK, States
  <2>2. CASE "EVTMNG" \in found
    BY <2>1, <2>2 DEF NodeIterates, TypeOK
  <2>3. CASE "EVTMNG" \notin found
    BY <2>3 DEF NodeIterates, TypeOK
  <2> QED
    BY <2>2, <2>3
<1>7. UNCHANGED <<main, iteration, requestQuit, nodeStates>>
  BY DEF NodeIterates
<1> HIDE DEF quits
<1>8. TypeOK'
  <2>1. {"RUNNING", "OPERATIONAL"} \subseteq States
        /\ {"leaving", "looping"} \subseteq ThreadPlaces
    BY DEF States, ThreadPlaces
  <2>2. state' \in [Nodes -> States] /\ pc' \in [Nodes -> ThreadPlaces]
    BY <1>4, <2>1 DEF TypeOK
  <2> QED
    BY <1>5, <1>6, <1>7, <2>2 DEF TypeOK
<1>9. \A m \in Nodes : Life(m)' /\ Asked(m)'
  <2> TAKE m \in Nodes
  <2>1. Life(m)'
    BY <1>1, <1>4, <1>7 DEF Inv, Life, TypeOK
  <2>2. pc'[m] \in Ending => requestQuit'
    BY <1>3, <1>4, <1>7 DEF Inv, Asked, Ending, TypeOK
  <2>3. \A i \in 1 .. Len(commands'[m]) : commands'[m][i] = "QUIT" => requestQuit'
    <3>1. TAKE i \in 1 .. Len(commands'[m])
    <3>2. PICK j \in 1 .. Len(commands[m]) : commands'[m][i] = commands[m][j]
      BY <1>5
    <3>3. Asked(m)
      BY DEF Inv
    <3> QED
      BY <1>7, <3>2, <3>3 DEF Asked
  <2> QED
    BY <2>1, <2>2, <2>3 DEF Asked
<1>10. Obeys'
  BY <1>1, <1>4, <1>7 DEF Inv, Obeys, TypeOK
<1>11. \A m \in Others : Told(m)'
  <2> TAKE m \in Others
  <2>1. m \in Nodes
    BY DEF Others
  <2>2. CASE m # n
    BY <1>4, <1>6, <1>7, <2>1, <2>2 DEF Inv, Told, Says, TypeOK
  <2>3. CASE m = n
    <3>1. ~ requestQuit => ~ quits
      BY <1>3
    <3> QED
      BY <1>1, <1>4, <1>6, <1>7, <2>3, <3>1 DEF Inv, Told, Says, TypeOK
  <2> QED
    BY <2>2, <2>3
<1>12. \A h \in Hosts : Process(h)'
  BY <1>1, <1>4, <1>7 DEF Inv, Process, OnHost, TypeOK
<1> QED
  BY <1>8, <1>9, <1>10, <1>11, <1>12 DEF Inv

-----------------------------------------------------------------------------
(* The Event Manager                                                       *)

LEMMA EvtMngStepStep ==
  ASSUME TypeOK, Inv, NEW quit \in BOOLEAN, EvtMngIterates(quit)
  PROVE  TypeOK' /\ Inv'
<1> USE LifecycleAssumption
<1>1. pc[EvtMng] = "looping" /\ state[EvtMng] = "OPERATIONAL" /\ ~ requestQuit
  BY DEF EvtMngIterates, Inv, Life, Obeys, Ending
<1>2. requestQuit' = quit /\ main' = main
  BY <1>1 DEF EvtMngIterates
<1>3. /\ state' = [state EXCEPT ![EvtMng] = IF quit THEN "RUNNING"
                                                    ELSE "OPERATIONAL"]
      /\ pc' = [pc EXCEPT ![EvtMng] = IF quit THEN "leaving" ELSE "looping"]
  <2>1. state' = [state EXCEPT ![EvtMng] = IF quit THEN "RUNNING"
                                                   ELSE "OPERATIONAL"]
    BY <1>1, <1>2, Transitions DEF EvtMngIterates, SendQuit, Leave, TypeOK
  <2>2. state'[EvtMng] = IF quit THEN "RUNNING" ELSE "OPERATIONAL"
    BY <2>1 DEF TypeOK
  <2>3. pc' = [pc EXCEPT ![EvtMng] =
                 IF state'[EvtMng] = "OPERATIONAL" THEN "looping" ELSE "leaving"]
    BY DEF EvtMngIterates, LoopOrLeave
  <2>4. CASE quit
    BY <2>1, <2>2, <2>3, <2>4
  <2>5. CASE ~ quit
    BY <2>1, <2>2, <2>3, <2>5
  <2> QED
    BY <2>4, <2>5
<1>4. /\ commands' \in [Nodes -> Seq({"INIT", "QUIT"})]
      /\ \A m \in Nodes : \A i \in 1 .. Len(commands'[m]) :
           \/ commands'[m][i] = "QUIT" => quit
           \/ \E j \in 1 .. Len(commands[m]) : commands'[m][i] = commands[m][j]
  <2>1. \/ commands' = commands
        \/ Publish("INIT")
        \/ quit /\ Publish("QUIT")
    BY <1>2 DEF EvtMngIterates, SendQuit
  <2>2. CASE commands' = commands
    BY <2>2 DEF TypeOK
  <2>3. ASSUME NEW c \in {"INIT", "QUIT"}, Publish(c), c = "QUIT" => quit
        PROVE  <1>4!1 /\ <1>4!2
    <3>1. \A m \in Nodes : commands'[m] \in {commands[m], Append(commands[m], c)}
      BY <2>3 DEF Publish
    <3>2. \A m \in Nodes :
            /\ commands[m] \in Seq({"INIT", "QUIT"})
            /\ Append(commands[m], c) \in Seq({"INIT", "QUIT"})
            /\ \A i \in 1 .. Len(Append(commands[m], c)) :
                 Append(commands[m], c)[i] = c
                 \/ (/\ i \in 1 .. Len(commands[m])
                     /\ Append(commands[m], c)[i] = commands[m][i])
      BY Commands DEF TypeOK
    <3>3. commands' \in [Nodes -> Seq({"INIT", "QUIT"})]
      BY <2>3, <3>2 DEF Publish
    <3>4. ASSUME NEW m \in Nodes, NEW i \in 1 .. Len(commands'[m])
          PROVE  \/ commands'[m][i] = "QUIT" => quit
                 \/ \E j \in 1 .. Len(commands[m]) :
                      commands'[m][i] = commands[m][j]
      <4>1. CASE commands'[m] = commands[m]
        BY <4>1
      <4>2. CASE commands'[m] = Append(commands[m], c)
        BY <2>3, <3>2, <4>2
      <4> QED
        BY <3>1, <4>1, <4>2
    <3> QED
      BY <3>3, <3>4
  <2> QED
    BY <2>1, <2>2, <2>3
<1>5. /\ nodeStates' = [n \in Nodes |-> IF answers[n] = "none" THEN nodeStates[n]
                                                              ELSE answers[n]]
      /\ answers' = [n \in Nodes |-> "none"]
  BY DEF EvtMngIterates
<1>6. TypeOK'
  <2>1. {"RUNNING", "OPERATIONAL"} \subseteq States
        /\ {"leaving", "looping"} \subseteq ThreadPlaces
    BY DEF States, ThreadPlaces
  <2>2. state' \in [Nodes -> States] /\ pc' \in [Nodes -> ThreadPlaces]
    BY <1>3, <2>1 DEF TypeOK
  <2>3. iteration' \in 0 .. InitIteration + PingPeriod
    BY DEF EvtMngIterates, Tick, TypeOK
  <2>4. asked' \subseteq Others
    BY DEF EvtMngIterates, Subscribed
  <2>5. nodeStates' \in [Nodes -> States \cup {"none"}]
        /\ answers' \in [Nodes -> States \cup {"none"}]
    BY <1>5 DEF TypeOK
  <2> QED
    BY <1>2, <1>4, <2>2, <2>3, <2>4, <2>5 DEF TypeOK
<1>7. \A n \in Nodes : Life(n)' /\ Asked(n)'
  <2> TAKE n \in Nodes
  <2>1. Life(n)'
    BY <1>1, <1>2, <1>3 DEF Inv, Life, TypeOK
  <2>2. pc'[n] \in Ending => requestQuit'
    BY <1>1, <1>2, <1>3 DEF Inv, Asked, Ending, TypeOK
  <2>3. \A i \in 1 .. Len(commands'[n]) : commands'[n][i] = "QUIT" => requestQuit'
    BY <1>1, <1>2, <1>4 DEF Inv, Asked
  <2> QED
    BY <2>1, <2>2, <2>3 DEF Asked
<1>8. Obeys'
  BY <1>2, <1>3 DEF Obeys, Ending, TypeOK
<1>9. \A n \in Others : Told(n)'
  <2> TAKE n \in Others
  <2>1. n \in Nodes /\ n # EvtMng /\ pc'[n] = pc[n]
    BY <1>3 DEF Others, TypeOK
  <2>2. Says(n, answers[n]) /\ Says(n, nodeStates[n])
    BY <1>1 DEF Inv, Told
  <2>3. answers'[n] = "none" /\ nodeStates'[n] \in {answers[n], nodeStates[n]}
    BY <1>5, <2>1
  <2> QED
    BY <2>1, <2>2, <2>3 DEF Told, Says
<1>10. \A h \in Hosts : Process(h)'
  BY <1>1, <1>2, <1>3 DEF Inv, Process, OnHost, TypeOK
<1> QED
  BY <1>6, <1>7, <1>8, <1>9, <1>10 DEF Inv

-----------------------------------------------------------------------------
(* Faults                                                                  *)

LEMMA KillStep ==
  ASSUME TypeOK, Inv, NEW h \in Hosts, Kill(h)
  PROVE  TypeOK' /\ Inv'
<1> USE LifecycleAssumption
<1>1. /\ \A n \in OnHost(h) : /\ pc'[n] = "gone" /\ state'[n] = "OFF"
                              /\ commands'[n] = <<>> /\ n \in Nodes
      /\ \A n \in Nodes \ OnHost(h) :
           /\ pc'[n] = pc[n] /\ state'[n] = state[n]
           /\ commands'[n] = commands[n]
      /\ main' \in [Hosts -> MainPlaces] /\ main'[h] = "killed"
      /\ \A g \in Hosts \ {h} : main'[g] = main[g]
      /\ UNCHANGED <<requestQuit, answers, nodeStates>>
  BY DEF Kill, OnHost, TypeOK, MainPlaces
<1>2. TypeOK'
  <2>1. "gone" \in ThreadPlaces /\ "OFF" \in States
    BY DEF ThreadPlaces, States
  <2>2. <<>> \in Seq({"INIT", "QUIT"})
    OBVIOUS
  <2>3. /\ pc' \in [Nodes -> ThreadPlaces] /\ state' \in [Nodes -> States]
        /\ commands' \in [Nodes -> Seq({"INIT", "QUIT"})]
    BY <2>1, <2>2 DEF Kill, TypeOK
  <2> QED
    BY <1>1, <2>3 DEF Kill, TypeOK
<1>3. \A n \in Nodes : Life(n)' /\ Asked(n)'
  <2> TAKE n \in Nodes
  <2>1. Life(n) /\ Asked(n)
    BY DEF Inv
  <2>2. CASE n \in OnHost(h)
    BY <1>1, <2>1, <2>2 DEF Life, Asked, Ending, OnHost
  <2>3. CASE n \notin OnHost(h)
    BY <1>1, <2>1, <2>3 DEF Life, Asked, Ending, OnHost
  <2> QED
    BY <2>2, <2>3
<1>4. Obeys'
  BY <1>1 DEF Inv, Obeys, Ending
<1>5. \A n \in Others : Told(n)'
  BY <1>1 DEF Inv, Told, Says, Others
<1>6. \A g \in Hosts : Process(g)'
  <2> TAKE g \in Hosts
  <2>1. CASE g = h
    BY <1>1, <2>1 DEF Process
  <2>2. CASE g # h
    <3>1. OnHost(g)' = OnHost(g) /\ \A n \in OnHost(g) : n \in Nodes \ OnHost(h)
      BY <2>2 DEF OnHost
    <3> QED
      BY <1>1, <2>2, <3>1 DEF Inv, Process
  <2> QED
    BY <2>1, <2>2
<1> QED
  BY <1>2, <1>3, <1>4, <1>5, <1>6 DEF Inv

LEMMA StallStep ==
  ASSUME TypeOK, Inv, NEW n \in Nodes, Stall(n)
  PROVE  TypeOK' /\ Inv'
<1>1. n # EvtMng /\ pc[n] = "looping"
  BY DEF Stall, Others
<1>2. TypeOK'
  BY DEF Stall, TypeOK, ThreadPlaces
<1>3. Inv'
  BY <1>1, LifecycleAssumption
  DEF Stall, TypeOK, Inv, Life, Asked, Obeys, Told, Says, Process, OnHost,
      Others, Ending
<1> QED
  BY <1>2, <1>3

-----------------------------------------------------------------------------
LEMMA Inductive == TypeOK /\ Inv /\ [Next]_vars => TypeOK' /\ Inv'
<1> SUFFICES ASSUME TypeOK, Inv, [Next]_vars PROVE TypeOK' /\ Inv'
  OBVIOUS
<1>1. CASE EvtMngStep
  BY <1>1, EvtMngStepStep DEF EvtMngStep
<1>2. ASSUME NEW h \in Hosts, Deploy(h) \/ MainStep(h)
      PROVE  TypeOK' /\ Inv'
  BY <1>2, DeployStep, MainStepStep
<1>3. ASSUME NEW n \in Nodes, ThreadStep(n)
      PROVE  TypeOK' /\ Inv'
  BY <1>3, ThreadStepStep
<1>4. ASSUME NEW n \in Nodes, NodeReadsCommand(n) \/ NodeAnswers(n)
      PROVE  TypeOK' /\ Inv'
  BY <1>4, NodeStep DEF NodeReadsCommand, NodeAnswers
<1>5. ASSUME NEW h \in Hosts, Kill(h)
      PROVE  TypeOK' /\ Inv'
  BY <1>5, KillStep
<1>6. ASSUME NEW n \in Nodes, Stall(n)
      PROVE  TypeOK' /\ Inv'
  BY <1>6, StallStep
<1>7. CASE UNCHANGED vars
  BY <1>7 DEF vars, TypeOK, Inv, Life, Asked, Obeys, Told, Says, Process, OnHost
<1> QED
  BY <1>1, <1>2, <1>3, <1>4, <1>5, <1>6, <1>7 DEF Next

\* The types: the state machine of a component never takes a transition that
\* leaves it in no state (tools/sm.cpp).
THEOREM LifecycleTypes == Spec => []TypeOK
BY InitInv, Inductive, PTL DEF Spec

\* No loop is left and no process ends before the request to quit
\* (component.cpp, deployer.cpp:136).
THEOREM EndsAsked == Spec => []EndsOnlyWhenAsked
<1>1. TypeOK /\ Inv => EndsOnlyWhenAsked
  BY DEF Inv, Asked, Process, OnHost, EndsOnlyWhenAsked, Ending
<1> QED
  BY <1>1, InitInv, Inductive, PTL DEF Spec

\* The notification that starts the threads never ends the process
\* (deployer.cpp:120-140, sync.h).
THEOREM ExitsAfterStop == Spec => []ExitAfterStop
<1>1. TypeOK /\ Inv => ExitAfterStop
  BY DEF Inv, Life, Process, OnHost, ExitAfterStop
<1> QED
  BY <1>1, InitInv, Inductive, PTL DEF Spec

\* What the Event Manager tells of the others is true but for the components
\* of killed hosts, of which it tells the same for ever (component.cpp:445).
THEOREM ViewErrs == Spec => []ViewErrsOnKilledOnly
<1>1. TypeOK /\ Inv => ViewErrsOnKilledOnly
  BY LifecycleAssumption
  DEF Inv, Life, Obeys, Told, Says, Others, Ending, ViewErrsOnKilledOnly
<1> QED
  BY <1>1, InitInv, Inductive, PTL DEF Spec
=============================================================================
