------------------------------- MODULE Intake -------------------------------
(***************************************************************************)
(* From a file in the inbox to a scheduled task: the DirWatcher            *)
(* (tools/dwatcher.cpp), which turns inotify events into a queue, the      *)
(* Event Manager (fmk/evtmng.cpp), which announces files on the INDATA     *)
(* channel, the Data Manager (fmk/datamng.cpp), which moves them to the    *)
(* local archive, and the Task Orchestrator (fmk/tskorc.cpp), which fires  *)
(* the rules.  The last two read the same announcement at their own pace,  *)
(* and the Orchestrator waits for the file to appear in the archive.       *)
(*                                                                         *)
(* A file stands for its name.  Directories in the inbox are left out.     *)
(***************************************************************************)
EXTENDS Naturals, Sequences, FiniteSets

CONSTANTS
  Files,        \* the names of files that come to the inbox
  TypeOf,       \* name -> product type, NoType if the name does not parse
  NoType, NoFile,
  Rules,        \* the rules of the orchestration
  Inputs,       \* rule -> the product types it needs
  Refused,      \* <<rule, inputs>> whose condition does not hold
  MaxEvents,    \* bound: inotify events
  MaxFailures   \* bound: renames and database commands that fail

Types == {TypeOf[f] : f \in Files} \ {NoType}

ASSUME IntakeAssumption ==
  /\ \A r \in Rules : Inputs[r] # {} /\ Inputs[r] \subseteq Types
  /\ NoFile \notin Files
  /\ IsFiniteSet(Files)   \* names of a file system
  /\ MaxEvents \in Nat
  /\ MaxFailures \in Nat

VARIABLES
  inbox,        \* the files in the inbox
  writing,      \* those that are still open
  raised,       \* all inotify events, by file name
  read,         \* how many of them the DirWatcher has read
  events,       \* the DirWatcher's queue
  alive,        \* the process of the master runs
  toDataMng, toTskOrc,  \* INDATA messages not read yet
  archive,      \* the files in the local archive
  stored,       \* those with a row in products_info
  failures,
  catalogue,    \* the Orchestrator's: type -> the file that came last
  firing,       \* the rules fired by the product it is at, not scheduled yet
  late,         \* its wait for a file is beyond the timeout
  scheduled     \* the tasks it has scheduled

envVars == <<inbox, writing, raised>>
dwVars  == <<read, events, alive>>
dmVars  == <<archive, stored, failures>>
orcVars == <<catalogue, firing, late, scheduled>>
vars    == <<envVars, dwVars, toDataMng, toTskOrc, dmVars, orcVars>>

Init ==
  /\ inbox \in SUBSET Files   \* left from an earlier run
  /\ writing = {}
  /\ raised = <<>>
  /\ read = 0
  /\ events = <<>>
  /\ alive = TRUE
  /\ toDataMng = <<>>
  /\ toTskOrc = <<>>
  /\ archive = {}
  /\ stored = {}
  /\ failures = 0
  /\ catalogue = [p \in Types |-> NoFile]
  /\ firing = {}
  /\ late = FALSE
  /\ scheduled = <<>>

-----------------------------------------------------------------------------
(* The inbox.  A file is moved there (IN_MOVED_TO), linked (IN_CREATE) or  *)
(* written in place (IN_CREATE, then IN_CLOSE_WRITE); it may come again.   *)

Raise(f) == Len(raised) < MaxEvents /\ raised' = Append(raised, f)

Arrive(f) ==
  /\ f \notin writing
  /\ inbox' = inbox \cup {f}
  /\ Raise(f)
  /\ UNCHANGED <<writing, dwVars, toDataMng, toTskOrc, dmVars, orcVars>>

OpenFile(f) ==
  /\ f \notin inbox \cup writing
  /\ inbox' = inbox \cup {f}
  /\ writing' = writing \cup {f}
  /\ Raise(f)
  /\ UNCHANGED <<dwVars, toDataMng, toTskOrc, dmVars, orcVars>>

\* A file that was moved away while it was open is closed elsewhere.
CloseFile(f) ==
  /\ f \in writing
  /\ writing' = writing \ {f}
  /\ IF f \in inbox THEN Raise(f) ELSE UNCHANGED raised
  /\ UNCHANGED <<inbox, dwVars, toDataMng, toTskOrc, dmVars, orcVars>>

-----------------------------------------------------------------------------
(* The DirWatcher's thread.                                                *)

\* Mutants: no event is skipped; only the first one of the buffer is read.
SkipsMutant(i) == FALSE
SkipsRestMutant(i) == i > 1
\* An event is skipped if the one before it was about the same name.
Skips(i) == i > 1 /\ raised[i] = raised[i - 1]

\* The next event.  The file's size is asked for (and not used): a file that
\* is not there any more ends the process.
Watch ==
  LET f == raised[read + 1] IN
  /\ read < Len(raised)
  /\ read' = read + 1
  /\ events' = IF Skips(read + 1) \/ f \notin inbox THEN events
                                                    ELSE Append(events, f)
  /\ alive' = (Skips(read + 1) \/ f \in inbox)
  /\ UNCHANGED <<envVars, toDataMng, toTskOrc, dmVars, orcVars>>

-----------------------------------------------------------------------------
(* The Event Manager.                                                      *)

Announces(f) == TypeOf[f] # NoType

\* runEachIteration, for one event of the queue.
Announce ==
  LET f == Head(events) IN
  /\ events # <<>>
  /\ events' = Tail(events)
  /\ IF Announces(f)
     THEN /\ toDataMng' = Append(toDataMng, f)
          /\ toTskOrc' = Append(toTskOrc, f)
     ELSE UNCHANGED <<toDataMng, toTskOrc>>
  /\ UNCHANGED <<envVars, read, alive, dmVars, orcVars>>

-----------------------------------------------------------------------------
(* The Data Manager, processInDataMsg: the file is moved to the local      *)
(* archive and, whether or not that worked, registered.                    *)

Fails == failures < MaxFailures /\ failures' = failures + 1

\* rename: without effect if the file is gone.
Relocate(f) ==
  /\ archive' = IF f \in inbox THEN archive \cup {f} ELSE archive
  /\ inbox' = inbox \ {f}

\* Both work; a second row for the product is refused.
ProcessInDataMsg ==
  LET f == Head(toDataMng) IN
  /\ toDataMng # <<>>
  /\ toDataMng' = Tail(toDataMng)
  /\ \/ Relocate(f) /\ UNCHANGED failures /\ stored' = stored \cup {f}
     \/ Relocate(f) /\ Fails /\ UNCHANGED stored
     \/ Fails /\ UNCHANGED <<inbox, archive>> /\ stored' = stored \cup {f}
  /\ UNCHANGED <<writing, raised, dwVars, toTskOrc, orcVars>>

-----------------------------------------------------------------------------
(* The Task Orchestrator.                                                  *)

\* Mutants: every rule is looked at, whatever product came; a rule is known
\* under one of its inputs only.
CandidatesMutant(p) == Rules
CandidatesOneMutant(p) == {r \in Rules : p = CHOOSE q \in Inputs[r] : TRUE}
\* orcMaps.prodAsInput
Candidates(p) == {r \in Rules : p \in Inputs[r]}

\* The products a rule is fired with: the last of each type it needs.
Latest(cat, r) == {cat[p] : p \in Inputs[r]}

\* Mutant: inputs that are not available are not noticed.
FiredMutant(cat, p) ==
  {[rule |-> r, inputs |-> Latest(cat, r)] :
     r \in {q \in Candidates(p) : <<q, Latest(cat, q)>> \notin Refused}}

\* checkRulesForProductType
Fired(cat, p) ==
  {[rule |-> r, inputs |-> Latest(cat, r)] :
     r \in {q \in Candidates(p) : /\ NoFile \notin Latest(cat, q)
                                  /\ <<q, Latest(cat, q)>> \notin Refused}}

\* processInDataMsg up to the rules: the product replaces the one of its type.
Catalogue ==
  LET f == Head(toTskOrc) IN
  /\ toTskOrc # <<>>
  /\ firing = {}
  /\ toTskOrc' = Tail(toTskOrc)
  /\ catalogue' = [catalogue EXCEPT ![TypeOf[f]] = f]
  /\ firing' = Fired(catalogue', TypeOf[f])
  /\ UNCHANGED <<envVars, dwVars, toDataMng, dmVars, late, scheduled>>

\* Mutant: no wait.
InPlaceMutant(k) == TRUE
InPlace(k) == k.inputs \subseteq archive

\* sendTaskSchedMsg: each input is linked to the gateway, as soon as it is in
\* the archive, and the task is sent.  (The rules come in the order of their
\* addresses, which is any order.)
SendTaskSchedMsg ==
  \E k \in firing :
    /\ InPlace(k)
    /\ ~late
    /\ firing' = firing \ {k}
    /\ scheduled' = Append(scheduled, k)
    /\ UNCHANGED <<envVars, dwVars, toDataMng, toTskOrc, dmVars, catalogue,
                   late>>

\* relocate: the minute is over.  The loop goes on, even if the file comes:
\* it ends when the file is there and the timeout has not been seen to pass.
TimeOut ==
  /\ \E k \in firing : ~InPlace(k)
  /\ ~late
  /\ late' = TRUE
  /\ UNCHANGED <<envVars, dwVars, toDataMng, toTskOrc, dmVars, catalogue,
                 firing, scheduled>>

-----------------------------------------------------------------------------
TskOrcStep == Catalogue \/ SendTaskSchedMsg \/ TimeOut

Next ==
  /\ alive
  /\ \/ \E f \in Files : Arrive(f) \/ OpenFile(f) \/ CloseFile(f)
     \/ Watch
     \/ Announce
     \/ ProcessInDataMsg
     \/ TskOrcStep

Spec == Init /\ [][Next]_vars

\* The threads of the master run as long as its process does.
Fairness ==
  /\ WF_vars(alive /\ Watch)
  /\ WF_vars(alive /\ Announce)
  /\ WF_vars(alive /\ ProcessInDataMsg)
  /\ WF_vars(alive /\ TskOrcStep)

FairSpec == Spec /\ Fairness

-----------------------------------------------------------------------------
(* Correctness.                                                            *)

Task == [rule : Rules, inputs : SUBSET Files]

TypeOK ==
  /\ inbox \subseteq Files
  /\ writing \subseteq Files
  /\ raised \in Seq(Files)
  /\ read \in 0 .. Len(raised)
  /\ events \in Seq(Files)
  /\ alive \in BOOLEAN
  /\ toDataMng \in Seq(Files)
  /\ toTskOrc \in Seq(Files)
  /\ archive \subseteq Files
  /\ stored \subseteq Files
  /\ failures \in 0 .. MaxFailures
  /\ catalogue \in [Types -> Files \cup {NoFile}]
  /\ firing \subseteq Task
  /\ late \in BOOLEAN
  /\ scheduled \in Seq(Task)

\* The inputs of a scheduled task are in the local archive, although the
\* Orchestrator may hear of a file long before the Data Manager moves it.
InputsArchived ==
  \A i \in 1 .. Len(scheduled) : scheduled[i].inputs \subseteq archive

\* The master only dies of a file that was moved away if two events with the
\* file's name came with another's in between: it does not as long as each
\* file's events come together, and the file does not come again.
DiesOfRepeatsOnly ==
  ~alive =>
    \E i, j, k \in 1 .. Len(raised) :
      i < j /\ j < k /\ raised[i] = raised[k] /\ raised[i] # raised[j]

\* The events about files of S that were put in the queue
Sightings(S) == {i \in 1 .. read : raised[i] \in S /\ ~Skips(i)}

Times(k) == Cardinality({i \in 1 .. Len(scheduled) : scheduled[i] = k})

\* A rule is scheduled once when its inputs are complete, and once more for
\* the same inputs only if one of them is seen once more.
NoTaskTooMany ==
  \A i \in 1 .. Len(scheduled) :
    LET k == scheduled[i] IN
    Times(k) + Cardinality(k.inputs) <= 1 + Cardinality(Sightings(k.inputs))

FirstArrival(f) ==
  /\ TypeOf[f] # NoType
  /\ f \notin archive
  /\ \E i \in 1 .. Len(raised) : raised[i] = f

\* A file that comes for the first time is moved to the archive, unless the
\* process dies or a rename fails.
FirstArrivalArchived ==
  \A f \in Files :
    FirstArrival(f) ~> f \in archive \/ ~alive \/ failures > 0

Complete(r) == \A p \in Inputs[r] : \E f \in archive : TypeOf[f] = p
Unconditional(r) == \A q \in Refused : q[1] # r
Scheduled(r) == \E i \in 1 .. Len(scheduled) : scheduled[i].rule = r

\* Once there is a product of each type it needs, a rule without a condition
\* is scheduled, unless the Orchestrator's wait goes beyond the timeout.
RuleFires ==
  \A r \in Rules :
    Complete(r) /\ Unconditional(r) ~> Scheduled(r) \/ late \/ ~alive

\* What the comments in URLHandler::relocate say: it waits until the timeout is
\* completed, or for ever until the file is there.  By either reading the wait
\* is over once the files are in the archive.
WaitEnds ==
  firing # {} /\ (\A k \in firing : InPlace(k)) ~> firing = {} \/ ~alive
=============================================================================
