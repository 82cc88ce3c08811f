----------------------------- MODULE Lifecycle -----------------------------
(***************************************************************************)
(* Start, supervision and end of the components: the component loop        *)
(* (fmk/component.cpp), its state machine (tools/sm.cpp), the Synchronizer *)
(* that starts the threads of a process (fmk/sync.h), the Deployer's main  *)
(* thread (qpf/deployer.cpp) and the Event Manager (fmk/evtmng.cpp), which *)
(* sends INIT and QUIT on the CMD channel (PUB/SUB) and asks for the       *)
(* states of the others on the EVTMNG channel (a survey).                  *)
(*                                                                         *)
(* A host runs one process.  The process ends when its main thread returns *)
(* from the second wait, whatever its component threads are doing, or when *)
(* it is killed, which nobody is told of.  A component other than the      *)
(* Event Manager may stay in a handler for ever, its loop never reached    *)
(* again.                                                                  *)
(***************************************************************************)
EXTENDS Integers, Sequences, FiniteSets

CONSTANTS
  Nodes,          \* the components of all hosts
  EvtMng,         \* the Event Manager, one of them
  Hosts,          \* the hosts
  HostOf,         \* the host of each component
  PingPeriod,     \* iterations between two surveys: 20 in the code
  InitIteration,  \* the iteration that sends INIT: 99 in the code
  MaxFaults       \* bound: hosts killed and components stuck

ASSUME LifecycleAssumption ==
  /\ EvtMng \in Nodes
  /\ HostOf \in [Nodes -> Hosts]
  /\ PingPeriod \in Nat \ {0}
  /\ InitIteration \in Nat
  /\ MaxFaults \in Nat
  /\ InitIteration % PingPeriod # 0   \* as with 99 and 20

VARIABLES
  main,        \* the main thread of each host
  pc,          \* where the thread of each component is
  state,       \* the component's state machine
  iteration,   \* of the Event Manager (see Tick)
  requestQuit, \* the Event Manager was asked to end the system
  commands,    \* CMD messages a component has not read
  asked,       \* components that have not read the current survey
  answers,     \* answers to the current survey
  nodeStates   \* the states the Event Manager knows of

vars == <<main, pc, state, iteration, requestQuit, commands, asked, answers,
          nodeStates>>

-----------------------------------------------------------------------------
States == {"ERROR", "OFF", "INITIALISED", "RUNNING", "OPERATIONAL"}
ValidTransitions ==
  {<<"ERROR", "OFF">>, <<"OFF", "INITIALISED">>, <<"INITIALISED", "RUNNING">>,
   <<"INITIALISED", "OFF">>, <<"INITIALISED", "ERROR">>,
   <<"RUNNING", "OPERATIONAL">>, <<"RUNNING", "OFF">>, <<"RUNNING", "ERROR">>,
   <<"OPERATIONAL", "RUNNING">>, <<"OPERATIONAL", "OFF">>,
   <<"OPERATIONAL", "ERROR">>}

\* transitTo ignores a transition that is not valid.
After(s, new) == IF <<s, new>> \in ValidTransitions THEN new ELSE s

\* absent: not created; created: before its wait; waiting: in it; woken;
\* looping; stuck: in a handler, for ever; leaving: the loop has ended;
\* stopped: OFF, about to notify; done; gone: the process was killed
ThreadPlaces == {"absent", "created", "waiting", "woken", "looping", "stuck",
                 "leaving", "stopped", "done", "gone"}
\* absent: no process; creating: before notify; settling: the delay before
\* the wait; waiting: in it; returning; exited; killed
MainPlaces == {"absent", "creating", "settling", "waiting", "returning",
               "exited", "killed"}

OnHost(h) == {n \in Nodes : HostOf[n] = h}
Others == Nodes \ {EvtMng}
Running(n) == main[HostOf[n]] \notin {"exited", "killed"}
\* Mutant: the Event Manager answers its own surveys.
SubscribedMutant == {n \in Nodes : pc[n] # "absent" /\ Running(n)}
Subscribed == {n \in Others : pc[n] # "absent" /\ Running(n)}

Init ==
  /\ main = [h \in Hosts |-> "absent"]
  /\ pc = [n \in Nodes |-> "absent"]
  /\ state = [n \in Nodes |-> "OFF"]
  /\ iteration = 0
  /\ requestQuit = FALSE
  /\ commands = [n \in Nodes |-> <<>>]
  /\ asked = {}
  /\ answers = [n \in Nodes |-> "none"]
  /\ nodeStates = [n \in Nodes |-> "none"]

-----------------------------------------------------------------------------
(* The Synchronizer: a condition variable without a condition.  Whoever is *)
(* in the wait is woken; a thread that has not reached it yet is not.      *)

\* Mutant: notify_one for notify_all.
WokenMutant(h) ==
  LET W == {n \in OnHost(h) : pc[n] = "waiting"}
  IN  IF W = {} THEN {} ELSE {CHOOSE n \in W : TRUE}

Woken(h) == {n \in OnHost(h) : pc[n] = "waiting"}

WakeNodes(h) == [n \in Nodes |-> IF n \in Woken(h) THEN "woken" ELSE pc[n]]

-----------------------------------------------------------------------------
(* The main thread of a host (Deployer::run)                               *)

\* createElementsNetwork: every component of the host is INITIALISED, its
\* thread is started and its connections are made.
Deploy(h) ==
  /\ main[h] = "absent"
  /\ main' = [main EXCEPT ![h] = "creating"]
  /\ pc' = [n \in Nodes |-> IF n \in OnHost(h) THEN "created" ELSE pc[n]]
  /\ state' = [n \in Nodes |-> IF n \in OnHost(h)
                               THEN After(state[n], "INITIALISED")
                               ELSE state[n]]
  /\ UNCHANGED <<iteration, requestQuit, commands, asked, answers, nodeStates>>

\* The first notify, half a second later, whoever is waiting by then.
NotifyStart(h) ==
  /\ main[h] = "creating"
  /\ main' = [main EXCEPT ![h] = "settling"]
  /\ pc' = WakeNodes(h)
  /\ UNCHANGED <<state, iteration, requestQuit, commands, asked, answers,
                 nodeStates>>

WaitForEnd(h) ==
  /\ main[h] = "settling"
  /\ main' = [main EXCEPT ![h] = "waiting"]
  /\ UNCHANGED <<pc, state, iteration, requestQuit, commands, asked, answers,
                 nodeStates>>

Exit(h) ==
  /\ main[h] = "returning"
  /\ main' = [main EXCEPT ![h] = "exited"]
  /\ UNCHANGED <<pc, state, iteration, requestQuit, commands, asked, answers,
                 nodeStates>>

-----------------------------------------------------------------------------
(* The thread of a component (Component::run)                              *)

EnterWait(n) ==
  /\ pc[n] = "created" /\ Running(n)
  /\ pc' = [pc EXCEPT ![n] = "waiting"]
  /\ UNCHANGED <<main, state, iteration, requestQuit, commands, asked, answers,
                 nodeStates>>

\* fromInitialisedToRunning, fromRunningToOperational
Start(n) ==
  /\ pc[n] = "woken" /\ Running(n)
  /\ pc' = [pc EXCEPT ![n] = "looping"]
  /\ state' = [state EXCEPT ![n] = After(After(@, "RUNNING"), "OPERATIONAL")]
  /\ requestQuit' = IF n = EvtMng THEN FALSE ELSE requestQuit
  /\ UNCHANGED <<main, iteration, commands, asked, answers, nodeStates>>

\* The loop goes on while the component is OPERATIONAL.
LoopOrLeave(n) ==
  pc' = [pc EXCEPT ![n] =
           IF state'[n] = "OPERATIONAL" THEN "looping" ELSE "leaving"]

\* Mutant: QUIT is an unknown command.
ProcessCmdMsgMutant(s, cmd) == s
\* QUIT ends the loop; INIT synchronises the session, and leaves what is
\* modelled here alone.
ProcessCmdMsg(s, cmd) == IF cmd = "QUIT" THEN After(s, "RUNNING") ELSE s

\* An iteration that finds messages on the channels in found, CMD read before
\* EVTMNG: a survey is answered with the state by then.
NodeIterates(n, found) ==
  /\ n \in Others
  /\ pc[n] = "looping" /\ Running(n)
  /\ "CMD" \in found => commands[n] # <<>>
  /\ "EVTMNG" \in found => n \in asked
  /\ IF "CMD" \in found
     THEN /\ commands' = [commands EXCEPT ![n] = Tail(@)]
          /\ state' = [state EXCEPT ![n] = ProcessCmdMsg(@, Head(commands[n]))]
     ELSE UNCHANGED <<commands, state>>
  /\ IF "EVTMNG" \in found
     THEN /\ asked' = asked \ {n}
          /\ answers' = [answers EXCEPT ![n] = state'[n]]
     ELSE UNCHANGED <<asked, answers>>
  /\ LoopOrLeave(n)
  /\ UNCHANGED <<main, iteration, requestQuit, nodeStates>>

\* fromOperationalToRunning
Stop(n) ==
  /\ pc[n] = "leaving" /\ Running(n)
  /\ pc' = [pc EXCEPT ![n] = "stopped"]
  /\ state' = [state EXCEPT ![n] = After(@, "OFF")]
  /\ UNCHANGED <<main, iteration, requestQuit, commands, asked, answers,
                 nodeStates>>

\* Mutant: the notification comes before the state machine is OFF.
MayNotifyMutant(n) == pc[n] \in {"leaving", "stopped"}

MayNotify(n) == pc[n] = "stopped"

\* Mutant: the notification is forgotten.
WakeMainMutant(h) == UNCHANGED main
WakeMain(h) == main' = IF main[h] = "waiting"
                       THEN [main EXCEPT ![h] = "returning"] ELSE main

\* fromRunningToOff: the notification wakes the main thread, and components
\* that missed the first one.
NotifyEnd(n) ==
  /\ MayNotify(n) /\ Running(n)
  /\ pc' = [WakeNodes(HostOf[n]) EXCEPT ![n] = "done"]
  /\ WakeMain(HostOf[n])
  /\ UNCHANGED <<state, iteration, requestQuit, commands, asked, answers,
                 nodeStates>>

-----------------------------------------------------------------------------
(* The Event Manager's loop                                                *)

\* iteration + 1.  The code asks for iteration % 20 and for iteration + 1 =
\* 100 only: beyond that the count is kept modulo the period.
Tick(i) == IF i = InitIteration + PingPeriod THEN InitIteration + 1 ELSE i + 1

Publish(cmd) ==
  commands' = [n \in Nodes |-> IF n \in Subscribed THEN Append(commands[n], cmd)
                                                   ELSE commands[n]]

\* Mutants: the Event Manager ends after a number of iterations, as a comment
\* in the code would have it; it sends QUIT and stays.
SendQuitMutant == requestQuit' \/ iteration' > InitIteration
LeaveMutant == UNCHANGED state

SendQuit == requestQuit'
Leave == state' = [state EXCEPT ![EvtMng] = After(@, "RUNNING")]

\* One iteration.  If a survey is open, reading its channel blocks until the
\* deadline: all answers are in nodeStates then, and later ones are dropped.
\* The HMI may ask to quit.  One message is sent at most: with a survey, or
\* with INIT, to send, it is not QUIT, but the Event Manager leaves its loop.
EvtMngIterates(quit) ==
  LET i == Tick(iteration)
      sendInit == i = InitIteration
      sendPing == i % PingPeriod = 0
  IN
  /\ pc[EvtMng] = "looping" /\ Running(EvtMng)
  /\ iteration' = i
  /\ nodeStates' = [n \in Nodes |-> IF answers[n] = "none" THEN nodeStates[n]
                                                           ELSE answers[n]]
  /\ answers' = [n \in Nodes |-> "none"]
  /\ requestQuit' = (requestQuit \/ quit)
  /\ asked' = IF sendPing THEN Subscribed ELSE {}
  /\ IF sendPing \/ ~(sendInit \/ SendQuit) THEN UNCHANGED commands
     ELSE Publish(IF sendInit THEN "INIT" ELSE "QUIT")
  /\ IF SendQuit THEN Leave ELSE UNCHANGED state
  /\ LoopOrLeave(EvtMng)
  /\ UNCHANGED main

-----------------------------------------------------------------------------
(* Faults                                                                  *)

Faults == Cardinality({h \in Hosts : main[h] = "killed"})
            + Cardinality({n \in Nodes : pc[n] = "stuck"})

\* The process of a host is killed, at any time: the handler of SIGINT does
\* nothing, so that there is no other way to end it by hand.  What it has
\* answered is still read.
Kill(h) ==
  /\ main[h] \notin {"absent", "exited", "killed"}
  /\ Faults < MaxFaults
  /\ main' = [main EXCEPT ![h] = "killed"]
  /\ pc' = [n \in Nodes |-> IF n \in OnHost(h) THEN "gone" ELSE pc[n]]
  /\ state' = [n \in Nodes |-> IF n \in OnHost(h) THEN "OFF" ELSE state[n]]
  /\ commands' = [n \in Nodes |-> IF n \in OnHost(h) THEN <<>>
                                                     ELSE commands[n]]
  /\ asked' = asked \ OnHost(h)
  /\ UNCHANGED <<iteration, requestQuit, answers, nodeStates>>

\* A handler of the loop that does not return: an agent in the recv that
\* follows its poll, or asking for a container that is not there; the Task
\* Orchestrator waiting for a file.
Stall(n) ==
  /\ n \in Others
  /\ pc[n] = "looping" /\ Running(n)
  /\ Faults < MaxFaults
  /\ pc' = [pc EXCEPT ![n] = "stuck"]
  /\ UNCHANGED <<main, state, iteration, requestQuit, commands, asked, answers,
                 nodeStates>>

-----------------------------------------------------------------------------
NodeReadsCommand(n) == NodeIterates(n, {"CMD"}) \/ NodeIterates(n, {"CMD", "EVTMNG"})
NodeAnswers(n) == NodeIterates(n, {"EVTMNG"})
EvtMngStep == \E quit \in BOOLEAN : EvtMngIterates(quit)
MainStep(h) == NotifyStart(h) \/ WaitForEnd(h) \/ Exit(h)
ThreadStep(n) == EnterWait(n) \/ Start(n) \/ Stop(n) \/ NotifyEnd(n)

Next ==
  \/ EvtMngStep
  \/ \E h \in Hosts : Deploy(h) \/ MainStep(h)
  \/ \E n \in Nodes : ThreadStep(n) \/ NodeReadsCommand(n) \/ NodeAnswers(n)
  \/ (\E h \in Hosts : Kill(h)) \/ (\E n \in Nodes : Stall(n))

Spec == Init /\ [][Next]_vars

\* Threads run, delays pass, and a component that is in its loop comes to read
\* its channels; one that is stuck never does.  Nobody has to deploy a host or
\* to ask to quit.
Fairness ==
  /\ WF_vars(EvtMngStep)
  /\ \A h \in Hosts : WF_vars(MainStep(h))
  /\ \A n \in Nodes : WF_vars(ThreadStep(n)) /\ WF_vars(NodeReadsCommand(n))

FairSpec == Spec /\ Fairness

-----------------------------------------------------------------------------
(* Correctness.                                                            *)

TypeOK ==
  /\ main \in [Hosts -> MainPlaces]
  /\ pc \in [Nodes -> ThreadPlaces]
  /\ state \in [Nodes -> States]
  /\ iteration \in 0 .. InitIteration + PingPeriod
  /\ requestQuit \in BOOLEAN
  /\ commands \in [Nodes -> Seq({"INIT", "QUIT"})]
  /\ asked \subseteq Others
  /\ answers \in [Nodes -> States \cup {"none"}]
  /\ nodeStates \in [Nodes -> States \cup {"none"}]

\* No component leaves its loop and no process ends before the HMI asked the
\* Event Manager to quit, whatever wake-ups are lost or come late.
EndsOnlyWhenAsked ==
  /\ \A n \in Nodes : pc[n] \in {"leaving", "stopped", "done"} => requestQuit
  /\ \A h \in Hosts : main[h] \in {"returning", "exited"} => requestQuit

\* A process ends only after one of its components went through its whole
\* life: the notification that starts the threads never ends the process, for
\* the main thread is not waiting then.
ExitAfterStop ==
  \A h \in Hosts : main[h] \in {"returning", "exited"} =>
    \E n \in OnHost(h) : pc[n] = "done" /\ state[n] = "OFF"

\* Once a component has answered, the Event Manager tells the HMI for ever
\* that it is OPERATIONAL.  That is wrong of the components of killed hosts
\* only: answers of an earlier survey do not bring back an old state, one that
\* is stuck has not left its state, and nobody stops while the Event Manager
\* runs.
ViewErrsOnKilledOnly ==
  pc[EvtMng] = "looping" =>
    \A n \in Others : nodeStates[n] # "none" =>
      /\ nodeStates[n] = "OPERATIONAL"
      /\ state[n] = "OPERATIONAL" \/ main[HostOf[n]] = "killed"

\* A component that waits when the start is given becomes operational.
StartReachesAll ==
  \A n \in Nodes :
    pc[n] = "waiting" /\ main[HostOf[n]] = "creating"
      ~> state[n] = "OPERATIONAL" \/ ~Running(n)

\* The notifications of the components came before the main thread waited for
\* them, a component missed the start, or is stuck: nobody is left to wake the
\* others.
Hung(h) ==
  main[h] = "waiting"
  /\ \A n \in OnHost(h) : pc[n] \in {"waiting", "stuck", "done"}

\* When the Event Manager leaves its loop the master's process ends, if its
\* main thread is in its wait by then: whatever message was or was not sent,
\* and whatever the others of the master are stuck in.
MasterEnds ==
  pc[EvtMng] = "leaving" /\ main[HostOf[EvtMng]] = "waiting"
    ~> main[HostOf[EvtMng]] \in {"exited", "killed"}

\* A host one of whose components was sent QUIT ends, by the first of them that
\* reads it: only if all that are left missed the start or are stuck, or the
\* notification came too early, does the process stay.
QuitEndsHost ==
  \A n \in Others :
    "QUIT" \in {commands[n][i] : i \in 1 .. Len(commands[n])}
      ~> main[HostOf[n]] \in {"exited", "killed"} \/ Hung(HostOf[n])

\* What HMIProxy::quit says it requests, the QUIT for all components: once a
\* component and the Event Manager run, a request to quit ends the component
\* (fmk/evtmng.cpp sends a survey in the place of QUIT, and leaves, if the
\* iteration is one of those that send one).
QuitReachesAllComponents ==
  \A n \in Others :
    [](pc[EvtMng] = "looping" /\ pc[n] = "looping" =>
         (requestQuit ~> state[n] = "OFF" \/ ~Running(n)))
=============================================================================
