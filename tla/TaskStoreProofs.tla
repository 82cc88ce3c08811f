-------------------------- MODULE TaskStoreProofs --------------------------
(***************************************************************************)
(* For any agents, tasks and statuses, any number of unread reports and of *)
(* failed commands: the rows are of scheduled tasks and never ahead of     *)
(* them, they catch up if no command fails, and nothing is registered      *)
(* before its move was tried.  The argument: what is on its way to the Data Manager is   *)
(* true of the task and stays so.  An end on its way is the task's end;    *)
(* the last report on a task is the last status published; a TSKSCHED on   *)
(* its way is the only one of its task, which has no row yet.  Behind an   *)
(* end there is nothing but the same end, so that a row keeps it.          *)
(***************************************************************************)
EXTENDS TaskStore, TLAPS

\* A report on its way is on a task with a status, and an end is its end.
ReportsAreTrue ==
  \A i \in 1 .. Len(reports) :
    /\ published[reports[i].task] # "none"
    /\ reports[i].status \in Final =>
         published[reports[i].task] = reports[i].status

\* The last of the reports on a task says what was published last.
LastIsLatest ==
  \A t \in Tasks :
    ReportPending(t) =>
      \E i \in 1 .. Len(reports) :
        /\ reports[i] = [task |-> t, status |-> published[t]]
        /\ \A j \in 1 .. Len(reports) : j > i => reports[j].task # t

\* A TSKSCHED message on its way is the only one of its task, and first of all.
SchedulesAreNew ==
  /\ \A i \in 1 .. Len(schedules) :
       schedules[i] \in known /\ rowKey[schedules[i]] = "none"
  /\ \A i, j \in 1 .. Len(schedules) : schedules[i] = schedules[j] => i = j
  /\ \A t \in Tasks : rowKey[t] # "none" => t \in known

\* A finished task has left its outputs, or lost them, before it says so.
OutputsDelivered ==
  \A t \in Tasks :
    published[t] = "FINISHED" => outputs[t] \in OutputPlaces \ {"none"}

Way == ReportsAreTrue /\ LastIsLatest /\ SchedulesAreNew /\ OutputsDelivered
Store == RowIsCurrent /\ RowIsNotAhead /\ RegisteredAfterMove

-----------------------------------------------------------------------------
LEMMA Statuses ==
  /\ "FINISHED" \in Final
  /\ "none" \notin Live /\ "none" \notin Final
  /\ "SCHEDULED" \notin Live /\ "SCHEDULED" \notin Final
  /\ MaxFailures \in Nat
BY TaskStoreAssumption

LEMMA AppendIsLonger ==
  ASSUME NEW S, NEW q \in Seq(S), NEW e \in S
  PROVE  /\ Append(q, e) \in Seq(S)
         /\ Len(Append(q, e)) = Len(q) + 1
         /\ \A i \in 1 .. Len(q) : Append(q, e)[i] = q[i]
         /\ Append(q, e)[Len(q) + 1] = e
OBVIOUS

LEMMA TailIsShorter ==
  ASSUME NEW S, NEW q \in Seq(S), q # <<>>
  PROVE  /\ Tail(q) \in Seq(S) /\ Head(q) = q[1] /\ Head(q) \in S
         /\ Len(q) >= 1 /\ Len(Tail(q)) = Len(q) - 1
         /\ \A i \in 1 .. Len(q) - 1 : Tail(q)[i] = q[i + 1]
OBVIOUS

LEMMA Element ==
  ASSUME NEW S, NEW q \in Seq(S), NEW i \in 1 .. Len(q)
  PROVE  q[i] \in S
OBVIOUS

LEMMA ReportsAreOnTasks ==
  ASSUME TypeOK, NEW i \in 1 .. Len(reports)
  PROVE  reports[i].task \in Tasks /\ reports[i].status \in Live \cup Final
<1>1. reports[i] \in [task : Tasks, status : Live \cup Final]
  BY Element DEF TypeOK
<1> QED
  BY <1>1

\* The four ways to be through with a report have this in common.
ReadReport ==
  /\ reports # <<>>
  /\ reports' = Tail(reports)
  /\ UNCHANGED <<lifeVars, schedules>>

LEMMA ReportsAreRead ==
  ProcessTskRepDistMsg \/ ProcessFinishedTask \/ ReportLost \/ ReportHalfStored
    => ReadReport
BY DEF ProcessTskRepDistMsg, ProcessFinishedTask, ReportLost,
       ReportHalfStored, ReportStored, ReadReport

-----------------------------------------------------------------------------
(* Types.                                                                  *)

LEMMA TypeInit == Init => TypeOK
BY Statuses DEF Init, Life!Init, TypeOK, OutputPlaces

LEMMA TypeStep == TypeOK /\ [Next]_vars => TypeOK'
<1> SUFFICES ASSUME TypeOK, [Next]_vars PROVE TypeOK'
  OBVIOUS
<1> USE Statuses DEF TypeOK
<1>1. ASSUME NEW t \in Tasks, Schedule(t) PROVE TypeOK'
  BY <1>1 DEF Schedule, Life!Schedule, storeVars
<1>2. ASSUME NEW t \in Tasks, Repeat(t) PROVE TypeOK'
  <2>1. [task |-> t, status |-> published[t]]
          \in [task : Tasks, status : Live \cup Final]
    BY <1>2 DEF Repeat
  <2> QED
    BY <1>2, <2>1, AppendIsLonger DEF Repeat, lifeVars, storeVars
<1>3. ASSUME NEW a \in Agents, Issue(a) PROVE TypeOK'
  BY <1>3 DEF Issue, Life!Issue, storeVars
<1>4. ASSUME NEW t \in Tasks, NEW s \in Live \cup Final, Publish(t, s)
      PROVE  TypeOK'
  <2>1. published' \in [Tasks -> Live \cup Final \cup {"none"}]
    BY <1>4 DEF Publish, Life!Publish
  <2>2. reports' \in Seq([task : Tasks, status : Live \cup Final])
    BY <1>4, AppendIsLonger DEF Publish
  <2>3. outputs' \in [Tasks -> OutputPlaces]
    BY <1>4 DEF Publish, OutputPlaces
  <2> QED
    BY <1>4, <2>1, <2>2, <2>3 DEF Publish, Life!Publish
<1>5. CASE ProcessTskSchedMsg
  <2>1. schedules' \in Seq(Tasks) /\ Head(schedules) \in Tasks
    BY <1>5, TailIsShorter DEF ProcessTskSchedMsg
  <2>2. rowKey' \in [Tasks -> {"none", "name", "container"}]
    BY <1>5, <2>1 DEF ProcessTskSchedMsg
  <2>3. rowStatus' \in [Tasks -> Live \cup Final \cup {"none", "SCHEDULED"}]
    BY <1>5, <2>1 DEF ProcessTskSchedMsg
  <2>4. failures' \in 0 .. MaxFailures
    <3>1. \/ failures' = failures
          \/ failures < MaxFailures /\ failures' = failures + 1
      BY <1>5, Zenon DEF ProcessTskSchedMsg, Works, Fails
    <3> QED
      BY <3>1
  <2>5. runs' = runs
    BY <1>5, Zenon DEF ProcessTskSchedMsg, Works, Fails
  <2> QED
    BY <1>5, <2>1, <2>2, <2>3, <2>4, <2>5 DEF ProcessTskSchedMsg, lifeVars
<1>6. CASE ProcessTskRepDistMsg \/ ProcessFinishedTask \/ ReportLost
             \/ ReportHalfStored
  <2>1. ReadReport
    BY <1>6, ReportsAreRead
  <2>2. reports' \in Seq([task : Tasks, status : Live \cup Final])
        /\ Head(reports) \in [task : Tasks, status : Live \cup Final]
    BY <2>1, TailIsShorter DEF ReadReport
  <2>3. rowKey' \in [Tasks -> {"none", "name", "container"}]
    BY <1>6 DEF ProcessTskRepDistMsg, ProcessFinishedTask, ReportLost,
                ReportHalfStored, ReportStored, Rekey
  <2>4. rowStatus' \in [Tasks -> Live \cup Final \cup {"none", "SCHEDULED"}]
    BY <1>6, <2>2 DEF ProcessTskRepDistMsg, ProcessFinishedTask, ReportLost,
                ReportHalfStored, ReportStored, UpdateStatus
  <2>5. outputs' \in [Tasks -> OutputPlaces]
    BY <1>6 DEF ProcessTskRepDistMsg, ProcessFinishedTask, ReportLost,
                ReportHalfStored, Archive, OutputPlaces
  <2>6. registered' \subseteq Tasks
    BY <1>6, <2>2 DEF ProcessTskRepDistMsg, ProcessFinishedTask, ReportLost,
                ReportHalfStored, Register
  <2>7. failures' \in 0 .. MaxFailures
    BY <1>6 DEF ProcessTskRepDistMsg, ProcessFinishedTask, ReportLost,
                ReportHalfStored, Works, Fails, Halts
  <2>8. runs' = runs \/ runs' = FALSE
    BY <1>6, Zenon
    DEF ProcessTskRepDistMsg, ProcessFinishedTask, ReportLost,
        ReportHalfStored, Works, Fails, Halts
  <2> QED
    BY <2>1, <2>2, <2>3, <2>4, <2>5, <2>6, <2>7, <2>8 DEF ReadReport, lifeVars
<1>7. CASE Halt
  BY <1>7 DEF Halt, Halts, lifeVars
<1>8. CASE UNCHANGED vars
  BY <1>8 DEF vars, lifeVars, storeVars
<1> QED
  BY <1>1, <1>2, <1>3, <1>4, <1>5, <1>6, <1>7, <1>8 DEF Next, DataMngStep

\* The types, whichever of the commands fail and wherever the process ends
\* (datamng.cpp, dbhdlpostgre.cpp).
THEOREM TypesOfStore == Spec => []TypeOK
BY TypeInit, TypeStep, PTL DEF Spec

-----------------------------------------------------------------------------
(* What is on its way.                                                     *)

LEMMA ReportsAreTrueStep ==
  TypeOK /\ ReportsAreTrue /\ [Next]_vars => ReportsAreTrue'
<1> SUFFICES ASSUME TypeOK, ReportsAreTrue, [Next]_vars PROVE ReportsAreTrue'
  OBVIOUS
<1> USE Statuses DEF TypeOK, ReportsAreTrue
<1>1. ASSUME NEW t \in Tasks, Schedule(t) PROVE ReportsAreTrue'
  BY <1>1 DEF Schedule, Life!Schedule
<1>2. ASSUME NEW t \in Tasks, Repeat(t) PROVE ReportsAreTrue'
  <2> DEFINE r == [task |-> t, status |-> published[t]]
  <2>1. r \in [task : Tasks, status : Live \cup Final]
    BY <1>2 DEF Repeat
  <2>2. ASSUME NEW i \in 1 .. Len(reports')
        PROVE  \/ i \in 1 .. Len(reports) /\ reports'[i] = reports[i]
               \/ reports'[i] = r
    BY <1>2, <2>1, AppendIsLonger DEF Repeat
  <2> QED
    BY <1>2, <2>2 DEF Repeat, lifeVars
<1>3. ASSUME NEW a \in Agents, Issue(a) PROVE ReportsAreTrue'
  BY <1>3 DEF Issue, Life!Issue
<1>4. ASSUME NEW t \in Tasks, NEW s \in Live \cup Final, Publish(t, s)
      PROVE  ReportsAreTrue'
  <2> DEFINE r == [task |-> t, status |-> s]
  <2>1. ASSUME NEW i \in 1 .. Len(reports')
        PROVE  \/ i \in 1 .. Len(reports) /\ reports'[i] = reports[i]
               \/ reports'[i] = r
    BY <1>4, AppendIsLonger DEF Publish
  <2>2. /\ published[t] \notin Final
        /\ published' = [published EXCEPT ![t] = s]
    BY <1>4 DEF Publish, Life!Publish
  <2>3. ASSUME NEW i \in 1 .. Len(reports)
        PROVE  /\ published'[reports[i].task] # "none"
               /\ reports[i].status \in Final =>
                    published'[reports[i].task] = reports[i].status
    <3>1. reports[i].task \in Tasks
      BY ReportsAreOnTasks
    <3> QED
      BY <2>2, <3>1
  <2>4. published'[r.task] = s /\ r.status = s /\ s # "none"
    BY <2>2
  <2> HIDE DEF r
  <2> QED
    BY <2>1, <2>3, <2>4
<1>5. CASE ProcessTskSchedMsg \/ Halt
  BY <1>5 DEF ProcessTskSchedMsg, Halt, lifeVars
<1>6. CASE ReadReport
  <2>1. ASSUME NEW i \in 1 .. Len(reports')
        PROVE  i + 1 \in 1 .. Len(reports) /\ reports'[i] = reports[i + 1]
    BY <1>6, TailIsShorter DEF ReadReport
  <2> QED
    BY <1>6, <2>1 DEF ReadReport, lifeVars
<1>7. CASE UNCHANGED vars
  BY <1>7 DEF vars, lifeVars
<1> QED
  BY <1>1, <1>2, <1>3, <1>4, <1>5, <1>6, <1>7, ReportsAreRead
  DEF Next, DataMngStep

\* A report more, on the status just published, is the last one of its task.
LEMMA OneMoreReport ==
  ASSUME TypeOK, TypeOK', LastIsLatest,
         NEW t \in Tasks,
         reports' = Append(reports, [task |-> t, status |-> published'[t]]),
         [task |-> t, status |-> published'[t]]
           \in [task : Tasks, status : Live \cup Final],
         \A u \in Tasks \ {t} : published'[u] = published[u]
  PROVE  LastIsLatest'
<1> DEFINE r == [task |-> t, status |-> published'[t]]
<1>1. /\ Len(reports') = Len(reports) + 1 /\ Len(reports) \in Nat
      /\ reports'[Len(reports')] = r
      /\ \A i \in 1 .. Len(reports) : reports'[i] = reports[i]
  BY AppendIsLonger DEF TypeOK
<1>2. ASSUME NEW u \in Tasks, ReportPending(u)'
      PROVE  \E i \in 1 .. Len(reports') :
               /\ reports'[i] = [task |-> u, status |-> published'[u]]
               /\ \A j \in 1 .. Len(reports') : j > i => reports'[j].task # u
  <2>1. CASE u = t
    <3>1. Len(reports') \in 1 .. Len(reports')
      BY <1>1
    <3> QED
      BY <1>1, <2>1, <3>1
  <2>2. CASE u # t
    <3>1. ReportPending(u)
      BY <1>1, <1>2, <2>2 DEF ReportPending
    <3>2. PICK i \in 1 .. Len(reports) :
            /\ reports[i] = [task |-> u, status |-> published[u]]
            /\ \A j \in 1 .. Len(reports) : j > i => reports[j].task # u
      BY <3>1 DEF LastIsLatest
    <3>3. ASSUME NEW j \in 1 .. Len(reports'), j > i
          PROVE  reports'[j].task # u
      <4>1. CASE j \in 1 .. Len(reports)
        BY <1>1, <3>2, <3>3, <4>1
      <4>2. CASE j = Len(reports')
        <5>1. r.task = t
          OBVIOUS
        <5> QED
          BY <1>1, <2>2, <4>2, <5>1
      <4> QED
        BY <1>1, <4>1, <4>2
    <3>4. i \in 1 .. Len(reports') /\ reports'[i] = reports[i]
      BY <1>1
    <3>5. reports'[i] = [task |-> u, status |-> published'[u]]
      BY <2>2, <3>2, <3>4
    <3> QED
      BY <3>3, <3>4, <3>5
  <2> QED
    BY <2>1, <2>2
<1> QED
  BY <1>2 DEF LastIsLatest

LEMMA LastIsLatestStep ==
  TypeOK /\ TypeOK' /\ LastIsLatest /\ [Next]_vars => LastIsLatest'
<1> SUFFICES ASSUME TypeOK, TypeOK', LastIsLatest, [Next]_vars
             PROVE  LastIsLatest'
  OBVIOUS
<1>1. CASE UNCHANGED <<reports, published>>
  BY <1>1 DEF LastIsLatest, ReportPending
<1>2. ASSUME NEW t \in Tasks, Schedule(t) PROVE LastIsLatest'
  BY <1>1, <1>2 DEF Schedule, Life!Schedule
<1>3. ASSUME NEW a \in Agents, Issue(a) PROVE LastIsLatest'
  BY <1>1, <1>3 DEF Issue, Life!Issue
<1>4. ASSUME NEW t \in Tasks, Repeat(t) PROVE LastIsLatest'
  BY <1>4, OneMoreReport, Statuses DEF Repeat, lifeVars, TypeOK
<1>5. ASSUME NEW t \in Tasks, NEW s \in Live \cup Final, Publish(t, s)
      PROVE  LastIsLatest'
  <2>1. published' = [published EXCEPT ![t] = s]
        /\ reports' = Append(reports, [task |-> t, status |-> s])
    BY <1>5 DEF Publish, Life!Publish
  <2>2. published'[t] = s /\ \A u \in Tasks \ {t} : published'[u] = published[u]
    BY <2>1 DEF TypeOK
  <2> QED
    BY <2>1, <2>2, OneMoreReport
<1>6. CASE ReadReport
  <2>1. /\ Len(reports') = Len(reports) - 1 /\ Len(reports) \in Nat
        /\ \A i \in 1 .. Len(reports') : reports'[i] = reports[i + 1]
        /\ published' = published
    BY <1>6, TailIsShorter DEF ReadReport, TypeOK, lifeVars
  <2>2. ASSUME NEW t \in Tasks, ReportPending(t)'
        PROVE  \E i \in 1 .. Len(reports') :
                 /\ reports'[i] = [task |-> t, status |-> published'[t]]
                 /\ \A j \in 1 .. Len(reports') : j > i => reports'[j].task # t
    <3>1. PICK k \in 1 .. Len(reports') : reports'[k].task = t
      BY <2>2 DEF ReportPending
    <3>2. k + 1 \in 1 .. Len(reports) /\ reports[k + 1].task = t
      BY <2>1, <3>1
    <3>3. ReportPending(t)
      BY <3>2 DEF ReportPending
    <3>4. PICK i \in 1 .. Len(reports) :
            /\ reports[i] = [task |-> t, status |-> published[t]]
            /\ \A j \in 1 .. Len(reports) : j > i => reports[j].task # t
      BY <3>3 DEF LastIsLatest
    <3>5. i - 1 \in 1 .. Len(reports') /\ reports'[i - 1] = reports[i]
      BY <2>1, <3>1, <3>2, <3>4
    <3>6. ASSUME NEW j \in 1 .. Len(reports'), j > i - 1
          PROVE  reports'[j].task # t
      <4>1. j + 1 \in 1 .. Len(reports) /\ j + 1 > i
        BY <2>1, <3>6
      <4> QED
        BY <2>1, <3>4, <4>1
    <3> QED
      BY <2>1, <3>4, <3>5, <3>6
  <2> QED
    BY <2>2 DEF LastIsLatest
<1>7. CASE ProcessTskSchedMsg \/ Halt
  BY <1>1, <1>7 DEF ProcessTskSchedMsg, Halt, lifeVars
<1>8. CASE UNCHANGED vars
  BY <1>1, <1>8 DEF vars, lifeVars
<1> QED
  BY <1>2, <1>3, <1>4, <1>5, <1>6, <1>7, <1>8, ReportsAreRead
  DEF Next, DataMngStep

LEMMA SchedulesAreNewStep ==
  TypeOK /\ SchedulesAreNew /\ [Next]_vars => SchedulesAreNew'
<1> SUFFICES ASSUME TypeOK, SchedulesAreNew, [Next]_vars PROVE SchedulesAreNew'
  OBVIOUS
<1> USE DEF TypeOK, SchedulesAreNew
<1>0. CASE UNCHANGED <<schedules, known, rowKey>>
  BY <1>0
<1>1. ASSUME NEW t \in Tasks, Schedule(t) PROVE SchedulesAreNew'
  <2>1. /\ t \notin known /\ known' = known \cup {t}
        /\ rowKey' = rowKey /\ rowKey[t] = "none"
    BY <1>1 DEF Schedule, Life!Schedule, storeVars
  <2>2. /\ Len(schedules') = Len(schedules) + 1 /\ Len(schedules) \in Nat
        /\ schedules'[Len(schedules')] = t
        /\ \A i \in 1 .. Len(schedules) : schedules'[i] = schedules[i]
    BY <1>1, AppendIsLonger DEF Schedule
  <2>3. \A i \in 1 .. Len(schedules') :
          i \in 1 .. Len(schedules) \/ i = Len(schedules')
    BY <2>2
  <2>4. \A i \in 1 .. Len(schedules') :
          schedules'[i] \in known' /\ rowKey'[schedules'[i]] = "none"
    BY <2>1, <2>2, <2>3
  <2>5. ASSUME NEW i \in 1 .. Len(schedules'), NEW j \in 1 .. Len(schedules'),
               schedules'[i] = schedules'[j]
        PROVE  i = j
    BY <2>1, <2>2, <2>3, <2>5
  <2> QED
    BY <2>1, <2>4, <2>5
<1>2. ASSUME NEW t \in Tasks, Repeat(t) PROVE SchedulesAreNew'
  BY <1>0, <1>2 DEF Repeat, lifeVars, storeVars
<1>3. ASSUME NEW a \in Agents, Issue(a) PROVE SchedulesAreNew'
  BY <1>0, <1>3 DEF Issue, Life!Issue, storeVars
<1>4. ASSUME NEW t \in Tasks, NEW s \in Live \cup Final, Publish(t, s)
      PROVE  SchedulesAreNew'
  BY <1>0, <1>4 DEF Publish, Life!Publish
<1>5. CASE ProcessTskSchedMsg
  <2>1. /\ schedules # <<>> /\ Len(schedules) \in Nat
        /\ Head(schedules) = schedules[1] /\ 1 \in 1 .. Len(schedules)
        /\ Len(schedules') = Len(schedules) - 1
        /\ \A i \in 1 .. Len(schedules') : schedules'[i] = schedules[i + 1]
        /\ \A i \in 1 .. Len(schedules') : i + 1 \in 1 .. Len(schedules)
        /\ known' = known
    BY <1>5, TailIsShorter DEF ProcessTskSchedMsg, lifeVars
  <2>2. \A t \in Tasks : t # schedules[1] => rowKey'[t] = rowKey[t]
    BY <1>5, <2>1 DEF ProcessTskSchedMsg
  <2>3. ASSUME NEW i \in 1 .. Len(schedules')
        PROVE  schedules'[i] # schedules[1] /\ schedules'[i] \in Tasks
    BY <2>1
  <2>4. \A i \in 1 .. Len(schedules') :
          schedules'[i] \in known' /\ rowKey'[schedules'[i]] = "none"
    <3> SUFFICES ASSUME NEW i \in 1 .. Len(schedules')
                 PROVE  /\ schedules'[i] \in known'
                        /\ rowKey'[schedules'[i]] = "none"
      OBVIOUS
    <3>1. /\ i + 1 \in 1 .. Len(schedules)
          /\ schedules'[i] = schedules[i + 1]
      BY <2>1
    <3>2. schedules[i + 1] \in known /\ rowKey[schedules[i + 1]] = "none"
      BY <3>1
    <3>3. rowKey'[schedules'[i]] = rowKey[schedules'[i]]
      BY <2>2, <2>3
    <3> QED
      BY <2>1, <3>1, <3>2, <3>3
  <2>5. ASSUME NEW i \in 1 .. Len(schedules'), NEW j \in 1 .. Len(schedules'),
               schedules'[i] = schedules'[j]
        PROVE  i = j
    BY <2>1, <2>5
  <2>6. schedules[1] \in known
    BY <2>1
  <2> QED
    BY <2>1, <2>2, <2>4, <2>5, <2>6
<1>6. CASE ProcessTskRepDistMsg \/ ProcessFinishedTask \/ ReportLost
             \/ ReportHalfStored
  <2>1. ReadReport
    BY <1>6, ReportsAreRead
  <2>2. Head(reports).task \in Tasks
    <3>1. 1 \in 1 .. Len(reports) /\ Head(reports) = reports[1]
      BY <2>1, TailIsShorter DEF ReadReport
    <3> QED
      BY <3>1, ReportsAreOnTasks
  <2>3. rowKey' = rowKey \/ Rekey(Head(reports).task)
    BY <1>6 DEF ProcessTskRepDistMsg, ProcessFinishedTask, ReportLost,
                ReportHalfStored, ReportStored
  <2>4. \A t \in Tasks : rowKey'[t] = "none" <=> rowKey[t] = "none"
    BY <2>2, <2>3 DEF Rekey
  <2> QED
    BY <2>1, <2>4 DEF ReadReport, lifeVars
<1>7. CASE Halt \/ UNCHANGED vars
  BY <1>0, <1>7 DEF Halt, vars, lifeVars, storeVars
<1> QED
  BY <1>1, <1>2, <1>3, <1>4, <1>5, <1>6, <1>7 DEF Next, DataMngStep

LEMMA OutputsDeliveredStep ==
  TypeOK /\ OutputsDelivered /\ [Next]_vars => OutputsDelivered'
<1> SUFFICES ASSUME TypeOK, OutputsDelivered, [Next]_vars
             PROVE  OutputsDelivered'
  OBVIOUS
<1> USE DEF TypeOK, OutputsDelivered, OutputPlaces, Delivered
<1>0. CASE UNCHANGED <<published, outputs>>
  BY <1>0
<1>1. ASSUME NEW t \in Tasks, Schedule(t) \/ Repeat(t) PROVE OutputsDelivered'
  BY <1>0, <1>1 DEF Schedule, Life!Schedule, Repeat, lifeVars, storeVars
<1>2. ASSUME NEW a \in Agents, Issue(a) PROVE OutputsDelivered'
  BY <1>0, <1>2 DEF Issue, Life!Issue, storeVars
<1>3. ASSUME NEW t \in Tasks, NEW s \in Live \cup Final, Publish(t, s)
      PROVE  OutputsDelivered'
  BY <1>3 DEF Publish, Life!Publish
<1>4. CASE ProcessFinishedTask
  BY <1>4 DEF ProcessFinishedTask, ReportStored, Archive, lifeVars
<1>5. CASE ProcessTskSchedMsg \/ ProcessTskRepDistMsg \/ ReportLost
             \/ ReportHalfStored
  BY <1>0, <1>5 DEF ProcessTskSchedMsg, ProcessTskRepDistMsg, ReportStored,
                    ReportLost, ReportHalfStored, lifeVars
<1>6. CASE Halt \/ UNCHANGED vars
  BY <1>0, <1>6 DEF Halt, vars, lifeVars, storeVars
<1> QED
  BY <1>1, <1>2, <1>3, <1>4, <1>5, <1>6 DEF Next, DataMngStep

LEMMA WayInit == Init => Way
BY DEF Init, Life!Init, Way, ReportsAreTrue, LastIsLatest, ReportPending,
       SchedulesAreNew, OutputsDelivered

LEMMA WayStep == TypeOK /\ Way /\ [Next]_vars => Way'
BY TypeStep, ReportsAreTrueStep, LastIsLatestStep, SchedulesAreNewStep,
   OutputsDeliveredStep DEF Way

-----------------------------------------------------------------------------
(* The rows and the archive.                                               *)

\* What a report that is read says.
LEMMA HeadIsTrue ==
  ASSUME TypeOK, ReportsAreTrue, ReadReport
  PROVE  /\ Head(reports).task \in Tasks
         /\ Head(reports).status \in Live \cup Final
         /\ published[Head(reports).task] # "none"
         /\ Head(reports).status \in Final =>
              published[Head(reports).task] = Head(reports).status
<1>1. 1 \in 1 .. Len(reports) /\ Head(reports) = reports[1]
  BY TailIsShorter DEF ReadReport, TypeOK
<1> QED
  BY <1>1, ReportsAreOnTasks DEF ReportsAreTrue

LEMMA RowIsNotAheadStep ==
  TypeOK /\ ReportsAreTrue /\ RowIsNotAhead /\ [Next]_vars => RowIsNotAhead'
<1> SUFFICES ASSUME TypeOK, ReportsAreTrue, RowIsNotAhead, [Next]_vars
             PROVE  RowIsNotAhead'
  OBVIOUS
<1> USE Statuses DEF TypeOK, RowIsNotAhead
<1>0. CASE UNCHANGED <<published, rowStatus>>
  BY <1>0
<1>1. ASSUME NEW t \in Tasks, Schedule(t) \/ Repeat(t) PROVE RowIsNotAhead'
  BY <1>0, <1>1 DEF Schedule, Life!Schedule, Repeat, lifeVars, storeVars
<1>2. ASSUME NEW a \in Agents, Issue(a) PROVE RowIsNotAhead'
  BY <1>0, <1>2 DEF Issue, Life!Issue, storeVars
<1>3. ASSUME NEW t \in Tasks, NEW s \in Live \cup Final, Publish(t, s)
      PROVE  RowIsNotAhead'
  BY <1>3 DEF Publish, Life!Publish
<1>4. CASE ProcessTskSchedMsg
  <2>1. Head(schedules) \in Tasks
    BY <1>4, TailIsShorter DEF ProcessTskSchedMsg
  <2> QED
    BY <1>4, <2>1 DEF ProcessTskSchedMsg, lifeVars
<1>5. CASE ReadReport /\ UNCHANGED rowStatus
  BY <1>0, <1>5 DEF ReadReport, lifeVars
<1>6. CASE ReadReport /\ UpdateStatus(Head(reports).task, Head(reports).status)
  BY <1>6, HeadIsTrue DEF ReadReport, UpdateStatus, lifeVars
<1>7. CASE Halt \/ UNCHANGED vars
  BY <1>0, <1>7 DEF Halt, vars, lifeVars, storeVars
<1>8. ProcessTskRepDistMsg \/ ProcessFinishedTask \/ ReportLost
        \/ ReportHalfStored
      => \/ ReadReport /\ UNCHANGED rowStatus
         \/ ReadReport
              /\ UpdateStatus(Head(reports).task, Head(reports).status)
  BY ReportsAreRead
  DEF ProcessTskRepDistMsg, ProcessFinishedTask, ReportStored, ReportLost,
      ReportHalfStored
<1> QED
  BY <1>1, <1>2, <1>3, <1>4, <1>5, <1>6, <1>7, <1>8 DEF Next, DataMngStep

LEMMA RegisteredAfterMoveStep ==
  TypeOK /\ ReportsAreTrue /\ OutputsDelivered /\ RegisteredAfterMove
    /\ [Next]_vars => RegisteredAfterMove'
<1> SUFFICES ASSUME TypeOK, ReportsAreTrue, OutputsDelivered,
                    RegisteredAfterMove, [Next]_vars
             PROVE  RegisteredAfterMove'
  OBVIOUS
<1> USE Statuses DEF TypeOK, RegisteredAfterMove
<1>0. CASE UNCHANGED <<published, outputs, registered>>
  BY <1>0
<1>1. ASSUME NEW t \in Tasks, Schedule(t) \/ Repeat(t)
      PROVE  RegisteredAfterMove'
  BY <1>0, <1>1 DEF Schedule, Life!Schedule, Repeat, lifeVars, storeVars
<1>2. ASSUME NEW a \in Agents, Issue(a) PROVE RegisteredAfterMove'
  BY <1>0, <1>2 DEF Issue, Life!Issue, storeVars
<1>3. ASSUME NEW t \in Tasks, NEW s \in Live \cup Final, Publish(t, s)
      PROVE  RegisteredAfterMove'
  <2>1. t \notin registered
    BY <1>3 DEF Publish, Life!Publish
  <2> QED
    BY <1>3, <2>1 DEF Publish, Life!Publish
<1>4. CASE ProcessFinishedTask
  <2> DEFINE t == Head(reports).task
  <2>1. t \in Tasks /\ published[t] = "FINISHED"
    BY <1>4, HeadIsTrue, ReportsAreRead DEF ProcessFinishedTask
  <2>2. outputs[t] \in {"gateway", "archive", "lost", "gap", "stranded"}
    BY <2>1 DEF OutputsDelivered, OutputPlaces, Delivered
  <2>3. /\ \A u \in Tasks \ {t} : outputs'[u] = outputs[u]
        /\ outputs'[t] = outputs[t] \/ outputs'[t] \in {"archive", "stranded"}
    BY <1>4 DEF ProcessFinishedTask, Archive
  <2>4. \/ registered' = registered
        \/ /\ registered' = registered \cup {t}
           /\ outputs'[t] \in {"archive", "stranded", "lost"}
    BY <1>4, <2>1, <2>2 DEF ProcessFinishedTask, Register, Archive
  <2>5. published' = published
    BY <1>4 DEF ProcessFinishedTask, ReportStored, lifeVars
  <2> HIDE DEF t
  <2> QED
    BY <2>1, <2>2, <2>3, <2>4, <2>5
<1>5. CASE ProcessTskSchedMsg \/ ProcessTskRepDistMsg \/ ReportLost
             \/ ReportHalfStored
  BY <1>0, <1>5 DEF ProcessTskSchedMsg, ProcessTskRepDistMsg, ReportStored,
                    ReportLost, ReportHalfStored, lifeVars
<1>6. CASE Halt \/ UNCHANGED vars
  BY <1>0, <1>6 DEF Halt, vars, lifeVars, storeVars
<1> QED
  BY <1>1, <1>2, <1>3, <1>4, <1>5, <1>6 DEF Next, DataMngStep

\* A report that is read, and stored if the database knows its status: if it
\* was the last one pending of its task, it says what was published last.
LEMMA ReadIsCurrent ==
  ASSUME TypeOK, TypeOK', ReportsAreTrue, LastIsLatest, RowIsCurrent,
         ReadReport, Rekey(Head(reports).task),
         \/ UpdateStatus(Head(reports).task, Head(reports).status)
         \/ UNCHANGED rowStatus /\ Head(reports).status \notin StatusRows,
         failures' = 0 /\ runs' => failures = 0 /\ runs
  PROVE  RowIsCurrent'
<1>0. PICK t \in Tasks, s \in Live \cup Final :
        t = Head(reports).task /\ s = Head(reports).status
  BY HeadIsTrue
<1>1. /\ reports # <<>> /\ Len(reports) \in Nat /\ Head(reports) = reports[1]
      /\ Len(reports') = Len(reports) - 1 /\ 1 \in 1 .. Len(reports)
      /\ \A i \in 1 .. Len(reports') : reports'[i] = reports[i + 1]
      /\ published' = published
  BY TailIsShorter DEF ReadReport, TypeOK, lifeVars
<1>2. reports[1].task = t /\ reports[1].status = s
  BY <1>0, <1>1
<1>3. /\ Rekey(t)
      /\ UpdateStatus(t, s) \/ (UNCHANGED rowStatus /\ s \notin StatusRows)
  BY <1>0
<1>4. failures' = 0 /\ runs' => failures = 0 /\ runs
  OBVIOUS
<1>5. ASSUME NEW u \in Tasks, u # t
      PROVE  /\ rowKey'[u] = rowKey[u] /\ rowStatus'[u] = rowStatus[u]
             /\ ReportPending(u) => ReportPending(u)'
  <2>1. rowKey'[u] = rowKey[u] /\ rowStatus'[u] = rowStatus[u]
    BY <1>2, <1>3, <1>5 DEF Rekey, UpdateStatus, TypeOK
  <2>2. ASSUME NEW i \in 1 .. Len(reports), reports[i].task = u
        PROVE  i - 1 \in 1 .. Len(reports') /\ reports'[i - 1].task = u
    BY <1>1, <1>2, <1>5, <2>2
  <2> QED
    BY <2>1, <2>2 DEF ReportPending
<1>6. ~ReportPending(t)' => s = published[t]
  <2> SUFFICES ASSUME ~ReportPending(t)' PROVE s = published[t]
    OBVIOUS
  <2>1. ReportPending(t)
    BY <1>1, <1>2 DEF ReportPending
  <2>2. PICK i \in 1 .. Len(reports) :
          reports[i] = [task |-> t, status |-> published[t]]
    BY <1>2, <2>1 DEF LastIsLatest
  <2>3. i = 1
    <3>1. CASE i # 1
      <4>1. i - 1 \in 1 .. Len(reports') /\ reports'[i - 1] = reports[i]
        BY <1>1, <3>1
      <4> QED
        BY <2>2, <4>1 DEF ReportPending
    <3> QED
      BY <3>1
  <2> QED
    BY <1>2, <2>2, <2>3
<1>7. /\ rowKey'[t] = "container" => rowStatus'[t] = s \/ s \notin StatusRows
      /\ rowKey'[t] # "name"
  BY <1>2, <1>3 DEF Rekey, UpdateStatus, TypeOK
<1>8. ASSUME failures' = 0, runs', NEW u \in Tasks
      PROVE  /\ rowKey'[u] = "container" /\ ~ReportPending(u)' =>
                  \/ rowStatus'[u] = published'[u]
                  \/ published'[u] \notin StatusRows
             /\ rowKey'[u] = "name" => rowStatus'[u] = "SCHEDULED"
  <2>1. CASE u = t
    BY <1>1, <1>6, <1>7, <2>1
  <2>2. CASE u # t
    BY <1>1, <1>4, <1>5, <1>8, <2>2 DEF RowIsCurrent
  <2> QED
    BY <2>1, <2>2
<1> QED
  BY <1>8 DEF RowIsCurrent

LEMMA RowIsCurrentStep ==
  TypeOK /\ TypeOK' /\ ReportsAreTrue /\ LastIsLatest /\ SchedulesAreNew
    /\ RowIsCurrent /\ [Next]_vars => RowIsCurrent'
<1> SUFFICES ASSUME TypeOK, TypeOK', ReportsAreTrue, LastIsLatest,
                    SchedulesAreNew, RowIsCurrent, [Next]_vars
             PROVE  RowIsCurrent'
  OBVIOUS
<1>0. CASE UNCHANGED <<reports, published, rowKey, rowStatus, failures, runs>>
  BY <1>0 DEF RowIsCurrent, ReportPending
<1>1. ASSUME NEW t \in Tasks, Schedule(t) PROVE RowIsCurrent'
  BY <1>0, <1>1 DEF Schedule, Life!Schedule, storeVars
<1>2. ASSUME NEW a \in Agents, Issue(a) PROVE RowIsCurrent'
  BY <1>0, <1>2 DEF Issue, Life!Issue, storeVars
\* A report more on t: t has one pending, the others have theirs.
<1>3. ASSUME NEW t \in Tasks, Repeat(t) \/ \E s \in Live \cup Final : Publish(t, s)
      PROVE  RowIsCurrent'
  <2>1. PICK s \in Live \cup Final :
          /\ reports' = Append(reports, [task |-> t, status |-> s])
          /\ published' = [published EXCEPT ![t] = s]
    <3>1. CASE Repeat(t)
      BY <3>1 DEF Repeat, lifeVars, TypeOK
    <3>2. CASE \E s \in Live \cup Final : Publish(t, s)
      BY <3>2 DEF Publish, Life!Publish
    <3> QED
      BY <1>3, <3>1, <3>2
  <2>2. UNCHANGED <<rowKey, rowStatus, failures, runs>>
    BY <1>3 DEF Repeat, Publish, storeVars
  <2>3. /\ Len(reports') = Len(reports) + 1 /\ Len(reports) \in Nat
        /\ reports'[Len(reports')] = [task |-> t, status |-> s]
        /\ \A i \in 1 .. Len(reports) : reports'[i] = reports[i]
    BY <2>1, AppendIsLonger DEF TypeOK
  <2>4. ReportPending(t)'
    <3>1. Len(reports') \in 1 .. Len(reports')
      BY <2>3
    <3> QED
      BY <2>3, <3>1 DEF ReportPending
  <2>5. \A u \in Tasks : ReportPending(u) => ReportPending(u)'
    BY <2>3 DEF ReportPending
  <2>6. \A u \in Tasks : u # t => published'[u] = published[u]
    BY <2>1 DEF TypeOK
  <2> QED
    BY <2>2, <2>4, <2>5, <2>6 DEF RowIsCurrent
<1>4. CASE ProcessTskSchedMsg
  <2>1. Head(schedules) \in Tasks
    BY <1>4, TailIsShorter DEF ProcessTskSchedMsg, TypeOK
  <2>2. UNCHANGED <<reports, published>>
    BY <1>4 DEF ProcessTskSchedMsg, lifeVars
  <2>3. CASE Fails
    BY <2>3 DEF Fails, RowIsCurrent, TypeOK
  <2>4. CASE ~Fails
    BY <1>4, <2>1, <2>2, <2>4
    DEF ProcessTskSchedMsg, Works, RowIsCurrent, ReportPending, TypeOK
  <2> QED
    BY <2>3, <2>4
<1>5. CASE ReportLost \/ Halt
  <2>1. failures' # 0 \/ ~runs'
    BY <1>5 DEF ReportLost, Halt, Fails, Halts, TypeOK
  <2> QED
    BY <2>1 DEF RowIsCurrent
\* The status that the row does not get, if nothing failed, is not one it can
\* have.
<1>6. CASE ReportHalfStored
  <2>1. Rekey(Head(reports).task) /\ UNCHANGED rowStatus /\ ReadReport
    BY <1>6, ReportsAreRead DEF ReportHalfStored
  <2>2. CASE Fails \/ Halts
    <3>1. failures' # 0 \/ ~runs'
      BY <2>2 DEF Fails, Halts, TypeOK
    <3> QED
      BY <3>1 DEF RowIsCurrent
  <2>3. CASE Works /\ ~Storable(Head(reports).task, Head(reports).status)
    <3>1. Head(reports).status \notin StatusRows
      BY <2>3 DEF Storable
    <3>2. failures' = 0 /\ runs' => failures = 0 /\ runs
      BY <2>3 DEF Works
    <3> QED
      BY <2>1, <3>1, <3>2, ReadIsCurrent
  <2> QED
    BY <1>6, <2>2, <2>3 DEF ReportHalfStored
<1>7. CASE ProcessTskRepDistMsg \/ ProcessFinishedTask
  <2>1. ReportStored /\ (failures' = 0 /\ runs' => failures = 0 /\ runs)
    BY <1>7 DEF ProcessTskRepDistMsg, ProcessFinishedTask, Works, Fails, Halts,
                ReportStored, TypeOK
  <2> QED
    BY <1>7, <2>1, ReadIsCurrent, ReportsAreRead DEF ReportStored
<1>8. CASE UNCHANGED vars
  BY <1>0, <1>8 DEF vars, lifeVars, storeVars
<1> QED
  BY <1>1, <1>2, <1>3, <1>4, <1>5, <1>6, <1>7, <1>8 DEF Next, DataMngStep

-----------------------------------------------------------------------------
IInv == TypeOK /\ Way /\ Store

LEMMA IInvHolds == Spec => []IInv
<1>1. Init => IInv
  <2>1. Init => Store
    BY Statuses DEF Init, Life!Init, Store, RowIsCurrent, RowIsNotAhead,
                    RegisteredAfterMove
  <2> QED
    BY <2>1, TypeInit, WayInit DEF IInv
<1>2. IInv /\ [Next]_vars => IInv'
  BY TypeStep, WayStep, RowIsNotAheadStep, RegisteredAfterMoveStep,
     RowIsCurrentStep
  DEF IInv, Way, Store
<1> QED
  BY <1>1, <1>2, PTL DEF Spec

\* A row that a report found shows its task's last status as soon as none is
\* pending, if no command failed, the process runs and the database knows the
\* status (dbhdlpostgre.cpp, updateTask; task_status in qpfdb.sql).
THEOREM RowsCatchUp == Spec => []RowIsCurrent
<1>1. IInv => RowIsCurrent
  BY DEF IInv, Store
<1> QED
  BY <1>1, IInvHolds, PTL

\* A row never shows more than its task has reached, whatever failed.
THEOREM RowsAreNotAhead == Spec => []RowIsNotAhead
<1>1. IInv => RowIsNotAhead
  BY DEF IInv, Store
<1> QED
  BY <1>1, IInvHolds, PTL

\* A report that comes before the task's TSKSCHED message makes no row.
THEOREM NoRowInvented == Spec => []RowsAreOfKnownTasks
<1>1. IInv => RowsAreOfKnownTasks
  BY DEF IInv, Way, SchedulesAreNew, RowsAreOfKnownTasks
<1> QED
  BY <1>1, IInvHolds, PTL

\* Nothing is registered before its move to the archive was tried, and nothing
\* of a task one of whose outputs has no URL (datamng.cpp, saveTaskToDB).
THEOREM RegisteredWereMoved == Spec => []RegisteredAfterMove
<1>1. IInv => RegisteredAfterMove
  BY DEF IInv, Store
<1> QED
  BY <1>1, IInvHolds, PTL
-----------------------------------------------------------------------------
(* Ends stay.                                                              *)

\* After a report on an end, and once a row shows it, no other status of the
\* task is on its way; only a task with a row has a status in it.
EndsAreLast ==
  /\ \A i, j \in 1 .. Len(reports) :
       i < j /\ reports[i].task = reports[j].task /\ reports[i].status \in Final
         => reports[j].status = reports[i].status
  /\ \A t \in Tasks, i \in 1 .. Len(reports) :
       rowStatus[t] \in Final /\ reports[i].task = t
         => reports[i].status = rowStatus[t]
  /\ \A t \in Tasks : rowKey[t] = "none" => rowStatus[t] = "none"

\* What reading a report does to a row.
LEMMA RowOfReport ==
  ASSUME TypeOK, ReadReport,
         \/ UNCHANGED rowStatus
         \/ UpdateStatus(Head(reports).task, Head(reports).status),
         NEW t \in Tasks
  PROVE  \/ rowStatus'[t] = rowStatus[t]
         \/ t = reports[1].task /\ rowStatus'[t] = reports[1].status
BY TailIsShorter DEF ReadReport, UpdateStatus, TypeOK

\* A report that is added says what the task has come to.
LEMMA EndsAreLastAdd ==
  ASSUME TypeOK, ReportsAreTrue, RowIsNotAhead, EndsAreLast, NEW t \in Tasks,
         NEW s \in Live \cup Final,
         reports' = Append(reports, [task |-> t, status |-> s]),
         published[t] \in Final => s = published[t],
         UNCHANGED <<rowKey, rowStatus>>
  PROVE  EndsAreLast'
<1> DEFINE n == Len(reports')
<1>1. /\ n = Len(reports) + 1 /\ Len(reports) \in Nat
      /\ \A i \in 1 .. n : i \in 1 .. Len(reports) \/ i = n
      /\ \A i \in 1 .. Len(reports) : reports'[i] = reports[i]
      /\ reports'[n].task = t /\ reports'[n].status = s
  BY AppendIsLonger DEF TypeOK
<1> HIDE DEF n
<1>2. ASSUME NEW i \in 1 .. Len(reports), reports[i].task = t,
             reports[i].status \in Final
      PROVE  reports[i].status = s
  BY <1>2 DEF ReportsAreTrue
<1>3. rowStatus[t] \in Final => rowStatus[t] = s
  BY DEF RowIsNotAhead
<1>4. ASSUME NEW i \in 1 .. n, NEW j \in 1 .. n, i < j,
             reports'[i].task = reports'[j].task, reports'[i].status \in Final
      PROVE  reports'[j].status = reports'[i].status
  <2>1. i \in 1 .. Len(reports)
    BY <1>1, <1>4
  <2> QED
    BY <1>1, <1>2, <1>4, <2>1 DEF EndsAreLast
<1>5. ASSUME NEW u \in Tasks, NEW i \in 1 .. n,
             rowStatus[u] \in Final, reports'[i].task = u
      PROVE  reports'[i].status = rowStatus[u]
  BY <1>1, <1>3, <1>5 DEF EndsAreLast
<1> QED
  BY <1>4, <1>5 DEF EndsAreLast, n

LEMMA EndsAreLastStep ==
  IInv /\ EndsAreLast /\ [Next]_vars
    => EndsAreLast' /\ \A t \in Tasks : EndStays(t)
<1> SUFFICES ASSUME IInv, EndsAreLast, [Next]_vars
             PROVE  EndsAreLast' /\ \A t \in Tasks : EndStays(t)
  OBVIOUS
<1>0. /\ TypeOK /\ ReportsAreTrue /\ SchedulesAreNew /\ RowIsNotAhead
      /\ \A t \in Tasks : rowStatus[t] \in Live \cup Final \cup {"none", "SCHEDULED"}
  BY DEF IInv, Way, Store, TypeOK
<1>1. CASE UNCHANGED <<reports, rowKey, rowStatus>>
  BY <1>1 DEF EndsAreLast, EndStays
<1>2. ASSUME NEW t \in Tasks, Schedule(t)
      PROVE  UNCHANGED <<reports, rowKey, rowStatus>>
  BY <1>2 DEF Schedule, storeVars
<1>3. ASSUME NEW a \in Agents, Issue(a)
      PROVE  UNCHANGED <<reports, rowKey, rowStatus>>
  BY <1>3 DEF Issue, storeVars
<1>4. ASSUME NEW t \in Tasks, NEW s \in Live \cup Final, Publish(t, s)
      PROVE  EndsAreLast' /\ UNCHANGED rowStatus
  BY <1>0, <1>4, EndsAreLastAdd DEF Publish, Life!Publish
<1>5. ASSUME NEW t \in Tasks, Repeat(t)
      PROVE  EndsAreLast' /\ UNCHANGED rowStatus
  BY <1>0, <1>5, EndsAreLastAdd DEF Repeat, storeVars, TypeOK
\* The row that is inserted is its task's first.
<1>6. CASE ProcessTskSchedMsg
  <2>1. /\ Head(schedules) \in Tasks /\ rowStatus[Head(schedules)] = "none"
    BY <1>0, <1>6, TailIsShorter DEF ProcessTskSchedMsg, TypeOK, SchedulesAreNew, EndsAreLast
  <2>2. \/ UNCHANGED <<rowKey, rowStatus>>
        \/ /\ rowKey' = [rowKey EXCEPT ![Head(schedules)] = "name"]
           /\ rowStatus' = [rowStatus EXCEPT ![Head(schedules)] = "SCHEDULED"]
    BY <1>6 DEF ProcessTskSchedMsg
  <2>3. reports' = reports
    BY <1>6 DEF ProcessTskSchedMsg
  <2>4. CASE UNCHANGED <<rowKey, rowStatus>>
    BY <1>1, <2>3, <2>4
  <2>5. CASE /\ rowKey' = [rowKey EXCEPT ![Head(schedules)] = "name"]
             /\ rowStatus' = [rowStatus EXCEPT ![Head(schedules)] = "SCHEDULED"]
    <3>1. ASSUME NEW t \in Tasks
          PROVE  /\ \/ rowStatus'[t] = rowStatus[t] /\ rowKey'[t] = rowKey[t]
                    \/ /\ rowStatus[t] = "none"
                       /\ rowStatus'[t] = "SCHEDULED" /\ rowKey'[t] = "name"
      BY <1>0, <2>1, <2>5 DEF TypeOK
    <3>2. "none" \notin Final /\ "SCHEDULED" \notin Final
      BY Statuses
    <3>3. \A t \in Tasks : EndStays(t)
      BY <3>1, <3>2 DEF EndStays
    <3>4. \A t \in Tasks : rowStatus'[t] \in Final => rowStatus'[t] = rowStatus[t]
      BY <3>1, <3>2
    <3>5. \A t \in Tasks : rowKey'[t] = "none" => rowStatus'[t] = "none"
      BY <3>1 DEF EndsAreLast
    <3> QED
      BY <2>3, <3>3, <3>4, <3>5 DEF EndsAreLast
  <2> QED
    BY <2>2, <2>4, <2>5
<1>7. CASE ProcessTskRepDistMsg \/ ProcessFinishedTask \/ ReportLost
             \/ ReportHalfStored
  <2>1. ReadReport
    BY <1>7, ReportsAreRead
  <2>2. \/ UNCHANGED rowStatus
        \/ UpdateStatus(Head(reports).task, Head(reports).status)
    BY <1>7 DEF ProcessTskRepDistMsg, ProcessFinishedTask, ReportLost,
                ReportHalfStored, ReportStored
  <2>3. /\ Len(reports) \in Nat /\ 1 \in 1 .. Len(reports)
        /\ Head(reports) = reports[1]
        /\ Len(reports') = Len(reports) - 1
        /\ \A i \in 1 .. Len(reports') :
             i + 1 \in 1 .. Len(reports) /\ reports'[i] = reports[i + 1]
    BY <1>0, <2>1, TailIsShorter DEF ReadReport, TypeOK
  <2>4. \A t \in Tasks : EndStays(t)
    BY <1>0, <2>1, <2>2, <2>3, RowOfReport DEF EndsAreLast, EndStays
  <2>5. ASSUME NEW i \in 1 .. Len(reports'), NEW j \in 1 .. Len(reports'), i < j,
               reports'[i].task = reports'[j].task, reports'[i].status \in Final
        PROVE  reports'[j].status = reports'[i].status
    <3>1. /\ i + 1 \in 1 .. Len(reports) /\ reports'[i] = reports[i + 1]
          /\ j + 1 \in 1 .. Len(reports) /\ reports'[j] = reports[j + 1]
          /\ i + 1 < j + 1
      BY <2>3, <2>5
    <3>2. /\ reports[i + 1].task = reports[j + 1].task
          /\ reports[i + 1].status \in Final
      BY <2>5, <3>1
    <3>3. reports[j + 1].status = reports[i + 1].status
      BY <3>1, <3>2 DEF EndsAreLast
    <3> QED
      BY <3>1, <3>3
  <2>6. ASSUME NEW t \in Tasks, NEW i \in 1 .. Len(reports'),
               rowStatus'[t] \in Final, reports'[i].task = t
        PROVE  reports'[i].status = rowStatus'[t]
    <3>1. CASE rowStatus'[t] = rowStatus[t]
      BY <2>3, <2>6, <3>1 DEF EndsAreLast
    <3>2. CASE t = reports[1].task /\ rowStatus'[t] = reports[1].status
      <4>1. 1 < i + 1
        BY <2>3
      <4> QED
        BY <2>3, <2>6, <3>2, <4>1 DEF EndsAreLast
    <3> QED
      BY <1>0, <2>1, <2>2, <3>1, <3>2, RowOfReport
  <2>7. ASSUME NEW t \in Tasks, rowKey'[t] = "none"
        PROVE  rowStatus'[t] = "none"
    <3>1. rowKey[t] = "none"
      BY <1>0, <1>7, <2>7
      DEF ProcessTskRepDistMsg, ProcessFinishedTask, ReportLost, ReportHalfStored,
          ReportStored, Rekey, TypeOK
    <3>2. rowStatus'[t] = rowStatus[t]
      BY <1>0, <1>7, <2>7
      DEF ProcessTskRepDistMsg, ProcessFinishedTask, ReportLost, ReportHalfStored,
          ReportStored, UpdateStatus, TypeOK
    <3> QED
      BY <3>1, <3>2 DEF EndsAreLast
  <2> QED
    BY <2>4, <2>5, <2>6, <2>7 DEF EndsAreLast
<1>8. CASE Halt \/ UNCHANGED vars
  BY <1>1, <1>8 DEF Halt, vars, storeVars
<1> QED
  BY <1>1, <1>2, <1>3, <1>4, <1>5, <1>6, <1>7, <1>8 DEF Next, DataMngStep, EndStays

\* The end that a row shows is for good: no report that comes late or again
\* takes it back (datamng.cpp, processTskRepDistMsg).
THEOREM RowEndsStay == Spec => EndsStay
<1>1. Init => EndsAreLast
  BY Statuses DEF Init, EndsAreLast
<1> QED
  BY <1>1, IInvHolds, EndsAreLastStep, PTL DEF Spec, EndsStay
=============================================================================
