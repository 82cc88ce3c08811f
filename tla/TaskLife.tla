------------------------------ MODULE TaskLife ------------------------------
(***************************************************************************)
(* What the dispatch of tasks promises, with no agents' loops, sockets or  *)
(* counters: scheduled tasks leave the pool in the order they came, each   *)
(* is given to one agent for good, the statuses published for it are those *)
(* of a run that ends once, and nothing but the terminal status follows.   *)
(* It does not promise that a task that was given to an agent is ever run. *)
(***************************************************************************)
EXTENDS Sequences

CONSTANTS Agents, Tasks, NoAgent, Live, Final

VARIABLES
  known,      \* the tasks scheduled so far
  pool,       \* those not given to an agent yet
  owner,      \* task -> the agent it was given to
  published   \* task -> the last status published, "none" before the first

vars == <<known, pool, owner, published>>

Init ==
  /\ known = {}
  /\ pool = <<>>
  /\ owner = [t \in Tasks |-> NoAgent]
  /\ published = [t \in Tasks |-> "none"]

Schedule(t) ==
  /\ t \notin known
  /\ known' = known \cup {t}
  /\ pool' = Append(pool, t)
  /\ UNCHANGED <<owner, published>>

Issue(a) ==
  /\ pool # <<>>
  /\ owner[Head(pool)] = NoAgent
  /\ owner' = [owner EXCEPT ![Head(pool)] = a]
  /\ pool' = Tail(pool)
  /\ UNCHANGED <<known, published>>

Publish(t, s) ==
  /\ owner[t] # NoAgent
  /\ published[t] \notin Final
  /\ published' = [published EXCEPT ![t] = s]
  /\ UNCHANGED <<known, pool, owner>>

Next ==
  \/ \E t \in Tasks : Schedule(t)
  \/ \E a \in Agents : Issue(a)
  \/ \E t \in Tasks, s \in Live \cup Final : Publish(t, s)

Spec == Init /\ [][Next]_vars
=============================================================================
