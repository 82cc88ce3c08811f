----------------------------- MODULE Deployment -----------------------------
(***************************************************************************)
(* The network of agents: their names and ports, computed by every process *)
(* from the configuration (Config::generateProcFmkInfoStructure,           *)
(* fmk/config.cpp), and the agents and connections that the Deployer makes *)
(* of them (Deployer::createElementsNetwork, qpf/deployer.cpp).            *)
(*                                                                         *)
(* A unit is an entry of the configuration: a processing host with its     *)
(* agents or, after them all, a swarm with its only one.  Agent <<u, i>>   *)
(* is the i-th agent of the u-th unit.                                     *)
(***************************************************************************)
EXTENDS Integers, Sequences, FiniteSets, Functions

CONSTANTS
  Addresses,      \* of hosts
  Master,
  PortsPerHost,   \* between the first ports of two units: 10 in the code
  Networks        \* configurations: [nodes : entries in the order of keys,
                  \* swarms : the first service node of each]

ASSUME DeploymentAssumption ==
  /\ Master \in Addresses
  /\ PortsPerHost \in Nat
  /\ Networks \subseteq [nodes : Seq([address : Addresses, agents : Nat]),
                         swarms : Seq(Addresses)]

VARIABLES
  network,       \* the configuration, the same for all the processes
  process,       \* of each host: absent, running, or failed for ever
  connections    \* of the Task Manager to the agents: the port of a channel

-----------------------------------------------------------------------------
(* Names and ports                                                         *)

Hosts == Len(network.nodes)
Units == 1 .. Hosts + Len(network.swarms)
IsSwarm(u) == u > Hosts
AddressOf(u) == IF IsSwarm(u) THEN network.swarms[u - Hosts]
                              ELSE network.nodes[u].address
AgentsIn(u) == IF IsSwarm(u) THEN 1 ELSE network.nodes[u].agents
Agents == UNION {{u} \X (1 .. AgentsIn(u)) : u \in Units}

\* The number of agents on the hosts before u, and an agent's index in
\* cfg.agentNames.
Earlier(u) == Cardinality({a \in Agents : a[1] < u})
Index(a) == Earlier(a[1]) + a[2]

\* cfg.agentNames: an agent and its channel in the network.
Name(a) == IF IsSwarm(a[1]) THEN <<"Swarm", AddressOf(a[1])>>
                            ELSE <<"TskAgent", a[1], a[2]>>

Port(a) == PortsPerHost * (a[1] - 1) + a[2] - 1

\* The name that an agent is created with: agName.at(i), with i counted within
\* the host.
\* Mutant: i is counted over all the hosts.
CompNameMutant(a) == Name(CHOOSE b \in Agents : Index(b) = Index(a))

CompName(a) ==
  IF IsSwarm(a[1]) THEN Name(a)
                   ELSE Name(CHOOSE b \in Agents : Index(b) = a[2])

-----------------------------------------------------------------------------
(* Processes                                                               *)

DeploymentInit ==
  /\ network \in Networks
  /\ process = [h \in Addresses |-> "absent"]
  /\ connections = <<>>

\* The Task Manager binds a socket for each agent; the second bind of a port
\* throws, and nobody catches it.  addConnection replaces the connection of a
\* channel that has one.
PortsClash == \E a, b \in Agents : a # b /\ Port(a) = Port(b)
LastOf(n) == CHOOSE a \in Agents : /\ Name(a) = n
                                   /\ \A b \in Agents : Name(b) = n =>
                                                        Index(b) <= Index(a)
StartMaster ==
  /\ process[Master] = "absent"
  /\ process' = [process EXCEPT ![Master] = IF PortsClash THEN "failed"
                                                          ELSE "running"]
  /\ connections' = IF PortsClash THEN <<>>
                    ELSE [n \in {Name(a) : a \in Agents} |-> Port(LastOf(n))]
  /\ UNCHANGED network

StopMaster ==
  /\ process[Master] = "running"
  /\ process' = [process EXCEPT ![Master] = "absent"]
  /\ connections' = <<>>
  /\ UNCHANGED network

StartHost(h) ==
  /\ h # Master
  /\ process[h] = "absent"
  /\ process' = [process EXCEPT ![h] = "running"]
  /\ UNCHANGED <<network, connections>>

StopHost(h) ==
  /\ h # Master
  /\ process[h] = "running"
  /\ process' = [process EXCEPT ![h] = "absent"]
  /\ UNCHANGED <<network, connections>>

\* The agents that exist: none on the master host.
Created == {a \in Agents : /\ AddressOf(a[1]) # Master
                           /\ process[AddressOf(a[1])] = "running"}

\* An agent's requests reach the Task Manager: it has the channel it sends
\* them on, which is named for it, and the Task Manager listens to its port.
Heard(a) == /\ process[Master] = "running"
            /\ CompName(a) = Name(a)
            /\ Port(a) \in Range(connections)

-----------------------------------------------------------------------------
(* Properties                                                              *)

\* The master starts unless a unit has more agents than there are ports up to
\* the next one that has any (deployer.cpp:648, config.cpp:441).  Then the Task
\* Manager hears the agents of the first host that has any, and of those swarms
\* whose first node no later one has; it never hears the agents of the other
\* hosts, which bear the names of the first one's (deployer.cpp:477).
TooMany(u) == \E v \in Units :
                u < v /\ AgentsIn(v) > 0 /\ AgentsIn(u) > PortsPerHost * (v - u)
FirstHost(u) == \A v \in 1 .. u - 1 : AgentsIn(v) = 0
Replaced(u) == \E v \in Units : u < v /\ AddressOf(v) = AddressOf(u)
HeardIff ==
  /\ process[Master] = "failed" => \E u \in Units : TooMany(u)
  /\ process[Master] = "running" =>
       /\ ~ \E u \in Units : TooMany(u)
       /\ \A a \in Created : Heard(a) <=> IF IsSwarm(a[1])
                                          THEN ~ Replaced(a[1])
                                          ELSE FirstHost(a[1])
=============================================================================
