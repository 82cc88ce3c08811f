---------------------------- MODULE IntakeProofs ----------------------------
(***************************************************************************)
(* For any names, rules and conditions, and any number of events: inputs   *)
(* of a task are archived, the master only dies of repeated names, and no  *)
(* task is scheduled too often.  The arguments: a file leaves the inbox    *)
(* only after an event with its name was read, and a task is paid for with *)
(* the events that were not skipped: those on their way to the             *)
(* Orchestrator are still to spend, and what is in the catalogue pays for  *)
(* the first task with these inputs, each repetition for one more.         *)
(***************************************************************************)
EXTENDS Intake, FiniteSetTheorems, TLAPS

LEMMA AppendIsLonger ==
  ASSUME NEW T, NEW q \in Seq(T), NEW e \in T
  PROVE  /\ Append(q, e) \in Seq(T)
         /\ Len(q) \in Nat /\ Len(Append(q, e)) = Len(q) + 1
         /\ \A i \in 1 .. Len(q) : Append(q, e)[i] = q[i]
         /\ Append(q, e)[Len(q) + 1] = e
OBVIOUS

LEMMA TailIsShorter ==
  ASSUME NEW T, NEW q \in Seq(T), q # <<>>
  PROVE  /\ Tail(q) \in Seq(T) /\ Head(q) = q[1] /\ Head(q) \in T
         /\ Len(q) \in Nat /\ Len(q) >= 1 /\ Len(Tail(q)) = Len(q) - 1
         /\ \A i \in 1 .. Len(q) - 1 : Tail(q)[i] = q[i + 1]
OBVIOUS

LEMMA Element ==
  ASSUME NEW T, NEW q \in Seq(T), NEW i \in 1 .. Len(q)
  PROVE  q[i] \in T
OBVIOUS

-----------------------------------------------------------------------------
(* Types, and the files in the archive.                                    *)

LEMMA RaiseType ==
  ASSUME TypeOK, NEW f \in Files, Raise(f)
  PROVE  raised' \in Seq(Files) /\ Len(raised') = Len(raised) + 1
         /\ Len(raised) \in Nat /\ raised'[Len(raised')] = f
         /\ \A i \in 1 .. Len(raised) : raised'[i] = raised[i]
BY AppendIsLonger DEF Raise, TypeOK

\* The rules that fire do so with files of their types.
LEMMA FiredType ==
  ASSUME NEW cat \in [Types -> Files \cup {NoFile}], NEW p
  PROVE  Fired(cat, p) \subseteq Task
<1> SUFFICES ASSUME NEW r \in Candidates(p), NoFile \notin Latest(cat, r)
             PROVE  [rule |-> r, inputs |-> Latest(cat, r)] \in Task
  BY DEF Fired
<1>1. r \in Rules /\ Inputs[r] \subseteq Types
  BY IntakeAssumption DEF Candidates
<1>2. Latest(cat, r) \subseteq Files
  BY <1>1 DEF Latest
<1> QED
  BY <1>1, <1>2 DEF Task

\* The product that is catalogued.
LEMMA CatalogueType ==
  ASSUME TypeOK, Catalogue,
         \A i \in 1 .. Len(toTskOrc) : Announces(toTskOrc[i])
  PROVE  /\ Head(toTskOrc) \in Files /\ TypeOf[Head(toTskOrc)] \in Types
         /\ catalogue' \in [Types -> Files \cup {NoFile}]
         /\ catalogue'[TypeOf[Head(toTskOrc)]] = Head(toTskOrc)
<1>1. /\ Head(toTskOrc) = toTskOrc[1] /\ Head(toTskOrc) \in Files
      /\ 1 \in 1 .. Len(toTskOrc)
  BY TailIsShorter DEF Catalogue, TypeOK
<1>2. TypeOf[Head(toTskOrc)] \in Types
  BY <1>1 DEF Announces, Types
<1> QED
  BY <1>1, <1>2 DEF Catalogue, TypeOK

\* Only names that parse are announced.
Announced == \A i \in 1 .. Len(toTskOrc) : Announces(toTskOrc[i])

LEMMA TypeStep == TypeOK /\ Announced /\ [Next]_vars => TypeOK' /\ Announced'
<1> SUFFICES ASSUME TypeOK, Announced, [Next]_vars PROVE TypeOK' /\ Announced'
  OBVIOUS
<1> USE IntakeAssumption DEF dwVars, dmVars, orcVars, envVars
<1>1. ASSUME NEW f \in Files, Arrive(f) \/ OpenFile(f) PROVE TypeOK' /\ Announced'
  <2>1. Raise(f)
    BY <1>1 DEF Arrive, OpenFile
  <2>2. read' \in 0 .. Len(raised')
    BY <1>1, <2>1, RaiseType DEF Arrive, OpenFile, TypeOK
  <2> QED
    BY <1>1, <2>1, <2>2, RaiseType DEF Arrive, OpenFile, TypeOK, Announced
<1>2. ASSUME NEW f \in Files, CloseFile(f) PROVE TypeOK' /\ Announced'
  <2>1. raised' \in Seq(Files) /\ read' \in 0 .. Len(raised')
    BY <1>2, RaiseType DEF CloseFile, TypeOK
  <2> QED
    BY <1>2, <2>1 DEF CloseFile, TypeOK, Announced
<1>3. CASE Watch
  <2>1. read + 1 \in 1 .. Len(raised) /\ raised[read + 1] \in Files
    BY <1>3, Element DEF Watch, TypeOK
  <2>2. events' \in Seq(Files)
    BY <1>3, <2>1, AppendIsLonger DEF Watch, TypeOK
  <2>3. alive' \in BOOLEAN
    BY <1>3 DEF Watch
  <2> QED
    BY <1>3, <2>1, <2>2, <2>3 DEF Watch, TypeOK, Announced
<1>4. CASE Announce
  <2>1. events' \in Seq(Files) /\ Head(events) \in Files
    BY <1>4, TailIsShorter DEF Announce, TypeOK
  <2>2. /\ toDataMng' \in Seq(Files) /\ toTskOrc' \in Seq(Files)
        /\ Announced'
    <3>1. CASE Announces(Head(events))
      <4>1. /\ toDataMng' = Append(toDataMng, Head(events))
            /\ toTskOrc' = Append(toTskOrc, Head(events))
        BY <1>4, <3>1 DEF Announce
      <4>2. toDataMng' \in Seq(Files) /\ toTskOrc' \in Seq(Files)
        BY <2>1, <4>1, AppendIsLonger DEF TypeOK
      <4>3. ASSUME NEW i \in 1 .. Len(toTskOrc')
            PROVE  \/ i \in 1 .. Len(toTskOrc) /\ toTskOrc'[i] = toTskOrc[i]
                   \/ toTskOrc'[i] = Head(events)
        BY <2>1, <4>1, AppendIsLonger DEF TypeOK
      <4> QED
        BY <3>1, <4>2, <4>3 DEF Announced, Announces
    <3>2. CASE ~Announces(Head(events))
      BY <1>4, <3>2 DEF Announce, TypeOK, Announced
    <3> QED
      BY <3>1, <3>2
  <2> QED
    BY <1>4, <2>1, <2>2 DEF Announce, TypeOK
<1>5. CASE ProcessInDataMsg
  <2>1. toDataMng' \in Seq(Files) /\ Head(toDataMng) \in Files
    BY <1>5, TailIsShorter DEF ProcessInDataMsg, TypeOK
  <2>2. inbox' \subseteq Files /\ archive' \subseteq Files /\ stored' \subseteq Files
    BY <1>5, <2>1 DEF ProcessInDataMsg, Relocate, TypeOK
  <2>3. failures' \in 0 .. MaxFailures
    BY <1>5 DEF ProcessInDataMsg, Fails, TypeOK
  <2> QED
    BY <1>5, <2>1, <2>2, <2>3 DEF ProcessInDataMsg, TypeOK, Announced
<1>6. CASE Catalogue
  <2>1. catalogue' \in [Types -> Files \cup {NoFile}]
    BY <1>6, CatalogueType DEF Announced
  <2>2. firing' \subseteq Task
    BY <1>6, <2>1, FiredType DEF Catalogue
  <2>3. toTskOrc' \in Seq(Files) /\ Announced'
    <3>1. /\ Len(toTskOrc') = Len(toTskOrc) - 1 /\ Len(toTskOrc) \in Nat
          /\ \A i \in 1 .. Len(toTskOrc) - 1 : toTskOrc'[i] = toTskOrc[i + 1]
          /\ toTskOrc' \in Seq(Files)
      BY <1>6, TailIsShorter DEF Catalogue, TypeOK
    <3> QED
      BY <3>1 DEF Announced
  <2> QED
    BY <1>6, <2>1, <2>2, <2>3 DEF Catalogue, TypeOK
<1>7. CASE SendTaskSchedMsg
  <2>1. PICK k \in firing : scheduled' = Append(scheduled, k)
                            /\ firing' = firing \ {k}
    BY <1>7 DEF SendTaskSchedMsg
  <2>2. k \in Task
    BY <2>1 DEF TypeOK
  <2> QED
    BY <1>7, <2>1, <2>2, AppendIsLonger DEF SendTaskSchedMsg, TypeOK, Announced
<1>8. CASE TimeOut
  BY <1>8 DEF TimeOut, TypeOK, Announced
<1>9. CASE UNCHANGED vars
  BY <1>9 DEF vars, TypeOK, Announced
<1> QED
  BY <1>1, <1>2, <1>3, <1>4, <1>5, <1>6, <1>7, <1>8, <1>9 DEF Next, TskOrcStep

\* What is in the archive stays there, and a task waits for its inputs.
LEMMA ArchivedStep == TypeOK /\ InputsArchived /\ [Next]_vars => InputsArchived'
<1> SUFFICES ASSUME TypeOK, InputsArchived, [Next]_vars PROVE InputsArchived'
  OBVIOUS
<1>1. archive \subseteq archive'
  BY DEF Next, vars, TskOrcStep, Arrive, OpenFile, CloseFile, Watch, Announce,
         ProcessInDataMsg, Relocate, Catalogue, SendTaskSchedMsg, TimeOut,
         dwVars, dmVars, orcVars, envVars
<1>2. CASE SendTaskSchedMsg
  <2>1. PICK k \in firing : InPlace(k) /\ scheduled' = Append(scheduled, k)
    BY <1>2 DEF SendTaskSchedMsg
  <2>2. k \in Task
    BY <2>1 DEF TypeOK
  <2>3. ASSUME NEW i \in 1 .. Len(scheduled')
        PROVE  \/ i \in 1 .. Len(scheduled) /\ scheduled'[i] = scheduled[i]
               \/ scheduled'[i] = k
    BY <2>1, <2>2, AppendIsLonger DEF TypeOK
  <2> QED
    BY <1>1, <2>1, <2>3 DEF InputsArchived, InPlace
<1>3. CASE UNCHANGED scheduled
  BY <1>1, <1>3 DEF InputsArchived
<1>4. SendTaskSchedMsg \/ UNCHANGED scheduled
  BY DEF Next, vars, TskOrcStep, Arrive, OpenFile, CloseFile, Watch, Announce,
         ProcessInDataMsg, Catalogue, TimeOut, dwVars, dmVars, orcVars, envVars
<1> QED
  BY <1>2, <1>3, <1>4

-----------------------------------------------------------------------------
(* The death of the master.                                                *)

\* An event with this name was read.
Seen(f) == \E i \in 1 .. read : raised[i] = f

\* Whatever is behind the watcher was seen; what it is yet to read is in the
\* inbox or was seen.
Traced ==
  /\ \A i \in 1 .. Len(events) : Seen(events[i])
  /\ \A i \in 1 .. Len(toDataMng) : Seen(toDataMng[i])
  /\ \A i \in 1 .. Len(raised) : raised[i] \in inbox \/ Seen(raised[i])

LEMMA TracedStep ==
  TypeOK /\ TypeOK' /\ Traced /\ [Next]_vars => Traced'
<1> SUFFICES ASSUME TypeOK, TypeOK', Traced, [Next]_vars PROVE Traced'
  OBVIOUS
<1> USE DEF dwVars, dmVars, orcVars, envVars
\* What was seen remains so: events are only added, and read in their order.
<1>1. /\ \A i \in 1 .. Len(raised) : i \in 1 .. Len(raised') /\ raised'[i] = raised[i]
      /\ Len(raised) \in Nat /\ Len(raised') \in Nat
      /\ 1 .. read \subseteq 1 .. read' /\ 1 .. read \subseteq 1 .. Len(raised)
  <2>1. read' >= read /\ read \in Nat /\ read' \in Nat /\ Len(raised) \in Nat
        /\ read <= Len(raised) /\ Len(raised') \in Nat
    BY DEF TypeOK, Next, vars, TskOrcStep, Arrive, OpenFile, CloseFile, Watch,
           Announce, ProcessInDataMsg, Catalogue, SendTaskSchedMsg, TimeOut
  <2>2. (\E f \in Files : Raise(f)) \/ UNCHANGED raised
    BY DEF Next, vars, TskOrcStep, Arrive, OpenFile, CloseFile, Watch,
           Announce, ProcessInDataMsg, Catalogue, SendTaskSchedMsg, TimeOut
  <2>3. \A i \in 1 .. Len(raised) : i \in 1 .. Len(raised') /\ raised'[i] = raised[i]
    BY <2>2, RaiseType
  <2> QED
    BY <2>1, <2>3
<1>2. \A f : Seen(f) => Seen(f)'
  BY <1>1 DEF Seen
<1>3. ASSUME NEW f \in Files, Raise(f), f \in inbox', inbox \subseteq inbox',
             UNCHANGED <<events, toDataMng>>
      PROVE  Traced'
  <2>1. ASSUME NEW i \in 1 .. Len(raised')
        PROVE  i \in 1 .. Len(raised) \/ raised'[i] = f
    BY <1>3, RaiseType
  <2> QED
    BY <1>1, <1>2, <1>3, <2>1 DEF Traced
<1>4. CASE UNCHANGED <<raised, inbox, events, toDataMng>>
  BY <1>2, <1>4 DEF Traced
<1>5. ASSUME NEW f \in Files, Arrive(f) \/ OpenFile(f) \/ CloseFile(f) PROVE Traced'
  <2>1. CASE Arrive(f) \/ OpenFile(f)
    BY <1>3, <2>1 DEF Arrive, OpenFile
  <2>2. CASE CloseFile(f)
    BY <1>3, <1>4, <2>2 DEF CloseFile
  <2> QED
    BY <1>5, <2>1, <2>2
<1>6. CASE Watch
  <2> DEFINE f == raised[read + 1]
  <2>1. read' = read + 1 /\ UNCHANGED <<raised, inbox, toDataMng>>
        /\ read + 1 \in 1 .. read' /\ f \in Files
    BY <1>6, Element DEF Watch, TypeOK
  <2>2. \E i \in 1 .. read' : raised'[i] = f
    BY <2>1
  <2>3. events' = events \/ events' = Append(events, f)
    BY <1>6 DEF Watch
  <2>4. ASSUME NEW i \in 1 .. Len(events')
        PROVE  \E j \in 1 .. read' : raised'[j] = events'[i]
    <3>1. \/ i \in 1 .. Len(events) /\ events'[i] = events[i]
          \/ events'[i] = f
      <4>1. events \in Seq(Files) /\ f \in Files
        BY <2>1 DEF TypeOK
      <4> HIDE DEF f
      <4>2. CASE events' = events
        BY <4>2
      <4>3. CASE events' = Append(events, f)
        BY <4>1, <4>3, AppendIsLonger
      <4> QED
        BY <2>3, <4>2, <4>3
    <3>2. CASE i \in 1 .. Len(events) /\ events'[i] = events[i]
      BY <1>2, <3>2 DEF Traced, Seen
    <3>3. CASE events'[i] = f
      BY <2>2, <3>3
    <3> QED
      BY <3>1, <3>2, <3>3
  <2> QED
    BY <1>2, <2>1, <2>4 DEF Traced, Seen
<1>7. CASE Announce
  <2>1. /\ Head(events) = events[1] /\ Head(events) \in Files
        /\ 1 \in 1 .. Len(events)
        /\ \A i \in 1 .. Len(events') :
             i + 1 \in 1 .. Len(events) /\ events'[i] = events[i + 1]
    BY <1>7, TailIsShorter DEF Announce, TypeOK
  <2>2. \/ toDataMng' = toDataMng
        \/ toDataMng' = Append(toDataMng, Head(events))
    BY <1>7 DEF Announce
  <2>3. ASSUME NEW i \in 1 .. Len(toDataMng')
        PROVE  \/ i \in 1 .. Len(toDataMng) /\ toDataMng'[i] = toDataMng[i]
               \/ toDataMng'[i] = events[1]
    <3>1. toDataMng \in Seq(Files) /\ events[1] \in Files
      BY <2>1 DEF TypeOK
    <3>2. CASE toDataMng' = toDataMng
      BY <3>2
    <3>3. CASE toDataMng' = Append(toDataMng, events[1])
      BY <3>1, <3>3, AppendIsLonger
    <3> QED
      BY <2>1, <2>2, <3>2, <3>3
  <2>4. \A i \in 1 .. Len(toDataMng') : Seen(toDataMng'[i])
    BY <2>1, <2>3 DEF Traced
  <2>5. \A i \in 1 .. Len(events') : Seen(events'[i])
    BY <2>1 DEF Traced
  <2>6. UNCHANGED <<raised, inbox, read>>
    BY <1>7 DEF Announce
  <2> QED
    BY <2>4, <2>5, <2>6 DEF Traced, Seen
<1>8. CASE ProcessInDataMsg
  <2>1. /\ Head(toDataMng) = toDataMng[1]
        /\ 1 \in 1 .. Len(toDataMng)
        /\ \A i \in 1 .. Len(toDataMng') :
             i + 1 \in 1 .. Len(toDataMng) /\ toDataMng'[i] = toDataMng[i + 1]
    BY <1>8, TailIsShorter DEF ProcessInDataMsg, TypeOK
  <2>2. inbox \ {toDataMng[1]} \subseteq inbox'
        /\ UNCHANGED <<raised, read, events>>
    BY <1>8, <2>1 DEF ProcessInDataMsg, Relocate
  <2>3. Seen(toDataMng[1])
    BY <2>1 DEF Traced
  <2>4. \A i \in 1 .. Len(toDataMng') : Seen(toDataMng'[i])
    BY <2>1 DEF Traced
  <2> QED
    BY <2>2, <2>3, <2>4 DEF Traced, Seen
<1>9. CASE TskOrcStep \/ UNCHANGED vars
  BY <1>4, <1>9 DEF TskOrcStep, Catalogue, SendTaskSchedMsg, TimeOut, vars
<1> QED
  BY <1>5, <1>6, <1>7, <1>8, <1>9 DEF Next

LEMMA DiesStep ==
  TypeOK /\ Traced /\ DiesOfRepeatsOnly /\ [Next]_vars => DiesOfRepeatsOnly'
<1> SUFFICES ASSUME TypeOK, Traced, DiesOfRepeatsOnly, [Next]_vars, ~alive'
             PROVE  DiesOfRepeatsOnly'
  BY DEF DiesOfRepeatsOnly
<1>1. CASE Watch
  <2> DEFINE f == raised[read + 1]
  <2>1. /\ read \in Nat /\ read + 1 \in 1 .. Len(raised) /\ raised' = raised
        /\ f \notin inbox /\ ~Skips(read + 1)
    <3>1. read \in Nat /\ read + 1 \in 1 .. Len(raised) /\ raised' = raised
      BY <1>1 DEF Watch, TypeOK, envVars
    <3>2. alive' = (Skips(read + 1) \/ f \in inbox)
      BY <1>1 DEF Watch
    <3>3. ~(Skips(read + 1) \/ f \in inbox)
      BY <3>2, Zenon
    <3> QED
      BY <3>1, <3>3
  <2>2. Seen(f)
    BY <2>1 DEF Traced
  <2>3. PICK i \in 1 .. read : raised[i] = f
    BY <2>2 DEF Seen
  <2>4. raised[read] # f /\ read > 0 /\ i < read
    <3>1. (read + 1) - 1 = read /\ i \in Nat /\ read + 1 > 1 /\ i <= read
      BY <2>1, <2>3
    <3>2. raised[read] # f
      BY <2>1, <3>1 DEF Skips
    <3> QED
      BY <2>1, <2>3, <3>1, <3>2
  <2>5. i \in 1 .. Len(raised) /\ read \in 1 .. Len(raised)
    BY <2>1, <2>3, <2>4
  <2>6. i < read /\ read < read + 1 /\ raised[i] = raised[read + 1]
        /\ raised[i] # raised[read]
    BY <2>1, <2>3, <2>4
  <2>7. \E a, b, c \in 1 .. Len(raised) :
          a < b /\ b < c /\ raised[a] = raised[c] /\ raised[a] # raised[b]
    <3> HIDE DEF f
    <3> QED
      BY <2>1, <2>5, <2>6
  <2> QED
    BY <2>1, <2>7 DEF DiesOfRepeatsOnly
<1>2. CASE UNCHANGED vars
  BY <1>2 DEF vars, envVars, dwVars, DiesOfRepeatsOnly
\* The dead do nothing, and no one else kills.
<1>3. Watch \/ UNCHANGED vars
  BY DEF Next, TskOrcStep, Arrive, OpenFile, CloseFile, Announce,
         ProcessInDataMsg, Catalogue, SendTaskSchedMsg, TimeOut, dwVars
<1> QED
  BY <1>1, <1>2, <1>3

-----------------------------------------------------------------------------
(* The number of tasks.                                                    *)

\* How many elements of q are in S.
Places(q, S) == {i \in 1 .. Len(q) : q[i] \in S}
Count(q, S) == Cardinality(Places(q, S))

LEMMA CountType ==
  ASSUME NEW T, NEW q \in Seq(T), NEW S
  PROVE  IsFiniteSet(Places(q, S)) /\ Count(q, S) \in Nat
<1>1. IsFiniteSet(1 .. Len(q))
  BY FS_Interval
<1>2. IsFiniteSet(Places(q, S))
  BY <1>1, FS_Subset DEF Places
<1> QED
  BY <1>2, FS_CardinalityType DEF Count

LEMMA CountAppend ==
  ASSUME NEW T, NEW q \in Seq(T), NEW e \in T, NEW S
  PROVE  Count(Append(q, e), S) = Count(q, S) + (IF e \in S THEN 1 ELSE 0)
<1>1. Len(q) + 1 \notin Places(q, S) /\ Len(q) \in Nat
  BY DEF Places
<1>2. CASE e \in S
  <2>1. Places(Append(q, e), S) = Places(q, S) \cup {Len(q) + 1}
    BY <1>2, AppendIsLonger DEF Places
  <2> QED
    BY <1>1, <1>2, <2>1, CountType, FS_AddElement DEF Count
<1>3. CASE e \notin S
  <2>1. Places(Append(q, e), S) = Places(q, S)
    BY <1>3, AppendIsLonger DEF Places
  <2> QED
    BY <1>3, <2>1, CountType DEF Count
<1> QED
  BY <1>2, <1>3

LEMMA CountTail ==
  ASSUME NEW T, NEW q \in Seq(T), q # <<>>, NEW S
  PROVE  Count(Tail(q), S) + (IF Head(q) \in S THEN 1 ELSE 0) <= Count(q, S)
<1> DEFINE X == Places(q, S)
           Y == Places(Tail(q), S)
           f == [i \in Y |-> i + 1]
<1>1. IsFiniteSet(X) /\ Cardinality(X) \in Nat /\ IsFiniteSet(X \ {1})
      /\ Cardinality(X \ {1}) = IF 1 \in X THEN Cardinality(X) - 1
                                           ELSE Cardinality(X)
  BY CountType, FS_RemoveElement DEF Count
<1>2. 1 \in X <=> Head(q) \in S
  BY TailIsShorter DEF Places
<1>3. \A i \in Y : i \in Nat /\ i + 1 \in X \ {1}
  BY TailIsShorter DEF Places
<1>4. f \in Injection(Y, X \ {1})
  <2>1. f \in [Y -> X \ {1}]
    BY <1>3
  <2>2. ASSUME NEW i \in Y, NEW j \in Y, f[i] = f[j] PROVE i = j
    BY <1>3, <2>2
  <2> HIDE DEF f, X, Y
  <2> QED
    BY <2>1, <2>2 DEF Injection, IsInjective
<1>5. Cardinality(Y) <= Cardinality(X \ {1}) /\ Cardinality(Y) \in Nat
  <2> HIDE DEF f, X, Y
  <2> QED
    BY <1>1, <1>4, FS_Injection, FS_CardinalityType
<1> QED
  BY <1>1, <1>2, <1>5 DEF Count

\* What is on its way to the Orchestrator.
Load(S) == Count(events, S) + Count(toTskOrc, S)

InCatalogue == {catalogue[p] : p \in Types}

\* Tasks k that are fired or scheduled.
Fires(k) == IF k \in firing THEN 1 ELSE 0
Paid(k) == Times(k) + Fires(k)

\* The events not skipped pay for what is on its way, for what is in the
\* catalogue, and for the tasks.
Balance ==
  /\ \A S \in SUBSET Files :
       Cardinality(S \cap InCatalogue) + Load(S) <= Cardinality(Sightings(S))
  /\ \A k \in Task : Paid(k) > 0 =>
       Paid(k) + Cardinality(k.inputs) + Load(k.inputs)
         <= 1 + Cardinality(Sightings(k.inputs))

LEMMA Numbers ==
  ASSUME TypeOK, NEW S \in SUBSET Files
  PROVE  /\ IsFiniteSet(S) /\ Cardinality(S) \in Nat
         /\ IsFiniteSet(S \cap InCatalogue)
         /\ Cardinality(S \cap InCatalogue) \in Nat
         /\ IsFiniteSet(Sightings(S)) /\ Cardinality(Sightings(S)) \in Nat
         /\ Count(events, S) \in Nat /\ Count(toTskOrc, S) \in Nat
         /\ Load(S) \in Nat
<1>1. IsFiniteSet(S) /\ IsFiniteSet(S \cap InCatalogue)
  BY IntakeAssumption, FS_Subset
<1>2. IsFiniteSet(Sightings(S))
  <2>1. IsFiniteSet(1 .. read)
    BY FS_Interval DEF TypeOK
  <2> QED
    BY <2>1, FS_Subset DEF Sightings
<1>3. Count(events, S) \in Nat /\ Count(toTskOrc, S) \in Nat
  BY CountType DEF TypeOK
<1> QED
  BY <1>1, <1>2, <1>3, FS_CardinalityType DEF Load

LEMMA PaidType ==
  ASSUME TypeOK, NEW k
  PROVE  Times(k) \in Nat /\ Fires(k) \in {0, 1} /\ Paid(k) \in Nat
         /\ Times(k) = Count(scheduled, {k})
<1>1. Times(k) = Count(scheduled, {k})
  <2>1. {i \in 1 .. Len(scheduled) : scheduled[i] = k} = Places(scheduled, {k})
    BY DEF Places
  <2> QED
    BY <2>1 DEF Times, Count
<1> QED
  BY <1>1, CountType DEF TypeOK, Fires, Paid

\* The balance keeps if the load falls, and the sightings rise by as much as
\* the load does.
LEMMA BalanceKeeps ==
  ASSUME TypeOK, TypeOK', Balance, UNCHANGED <<catalogue, firing, scheduled>>,
         \A S \in SUBSET Files :
           Load(S)' - Load(S)
             <= Cardinality(Sightings(S))' - Cardinality(Sightings(S))
  PROVE  Balance'
<1>1. ASSUME NEW S \in SUBSET Files
      PROVE  /\ Load(S) \in Nat /\ Load(S)' \in Nat
             /\ Cardinality(Sightings(S)) \in Nat
             /\ Cardinality(Sightings(S))' \in Nat
             /\ Cardinality(S) \in Nat /\ Cardinality(S \cap InCatalogue) \in Nat
             /\ Load(S)' - Load(S)
                  <= Cardinality(Sightings(S))' - Cardinality(Sightings(S))
  <2>1. Load(S)' \in Nat
    <3>1. Load(S)' = Count(events', S) + Count(toTskOrc', S)
      BY DEF Load, Count, Places
    <3>2. Count(events', S) \in Nat /\ Count(toTskOrc', S) \in Nat
      BY CountType DEF TypeOK
    <3> QED
      BY <3>1, <3>2
  <2>2. Cardinality(Sightings(S))' \in Nat
    <3>1. Sightings(S)' \in SUBSET (1 .. read') /\ read' \in Int
      BY DEF Sightings, TypeOK
    <3>2. IsFiniteSet(1 .. read')
      BY <3>1, FS_Interval
    <3>3. ASSUME NEW X \in SUBSET (1 .. read') PROVE Cardinality(X) \in Nat
      BY <3>2, FS_Subset, FS_CardinalityType
    <3> QED
      BY <3>1, <3>3
  <2>3. Load(S)' - Load(S)
          <= Cardinality(Sightings(S))' - Cardinality(Sightings(S))
    OBVIOUS
  <2> QED
    BY <2>1, <2>2, <2>3, Numbers
<1>2. InCatalogue' = InCatalogue
  BY DEF InCatalogue
<1>3. ASSUME NEW S \in SUBSET Files
      PROVE  Cardinality(S \cap InCatalogue') + Load(S)' <= Cardinality(Sightings(S))'
  <2>1. Cardinality(S \cap InCatalogue) + Load(S) <= Cardinality(Sightings(S))
    BY DEF Balance
  <2> QED
    BY <1>1, <1>2, <2>1
<1>4. ASSUME NEW k \in Task, Paid(k)' > 0
      PROVE  Paid(k)' + Cardinality(k.inputs) + Load(k.inputs)'
               <= 1 + Cardinality(Sightings(k.inputs))'
  <2>1. k.inputs \in SUBSET Files
    BY DEF Task
  <2>2. Paid(k)' = Paid(k) /\ Paid(k) \in Nat
    BY PaidType DEF Paid, Times, Fires
  <2>3. Paid(k) + Cardinality(k.inputs) + Load(k.inputs)
          <= 1 + Cardinality(Sightings(k.inputs))
    BY <1>4, <2>2 DEF Balance
  <2> DEFINE S == k.inputs
             n == Paid(k)
             c == Cardinality(S)
             l == Load(S)
             m == Load(S)'
             s == Cardinality(Sightings(S))
             u == Cardinality(Sightings(S))'
  <2>4. l \in Nat /\ m \in Nat /\ s \in Nat /\ u \in Nat /\ c \in Nat
        /\ m - l <= u - s
    BY <1>1, <2>1
  <2>5. n \in Nat /\ n + c + l <= 1 + s
    BY <2>2, <2>3
  <2>6. n + c + m <= 1 + u
    <3> HIDE DEF n, c, l, m, s, u
    <3> QED
      BY <2>4, <2>5
  <2> QED
    BY <2>2, <2>6
<1> QED
  BY <1>3, <1>4 DEF Balance

\* Events that are raised, or read and skipped, are not sighted.
LEMMA SightingsKeep ==
  ASSUME TypeOK, read' = read, NEW S,
         \A i \in 1 .. Len(raised) : raised'[i] = raised[i]
  PROVE  Sightings(S)' = Sightings(S)
<1>1. \A i \in 1 .. read : i \in 1 .. Len(raised) /\ i \in Nat
                           /\ (i > 1 => i - 1 \in 1 .. Len(raised))
  BY DEF TypeOK
<1>2. \A i \in 1 .. read : raised'[i] = raised[i] /\ (Skips(i)' <=> Skips(i))
  BY <1>1 DEF Skips
<1> QED
  BY <1>2 DEF Sightings

LEMMA BalanceWatch ==
  ASSUME TypeOK, TypeOK', Balance, Watch
  PROVE  Balance'
<1> DEFINE f == raised[read + 1]
<1>1. /\ read \in Nat /\ read' = read + 1 /\ raised' = raised
      /\ f \in Files /\ events \in Seq(Files)
      /\ events' = (IF Skips(read + 1) \/ f \notin inbox THEN events
                                                      ELSE Append(events, f))
      /\ UNCHANGED <<toTskOrc, catalogue, firing, scheduled>>
  BY Element DEF Watch, TypeOK, envVars, orcVars
<1>2. ASSUME NEW S \in SUBSET Files
      PROVE  Load(S)' - Load(S)
               <= Cardinality(Sightings(S))' - Cardinality(Sightings(S))
  <2> DEFINE new == f \in S /\ ~Skips(read + 1)
  <2>1. Sightings(S)' = IF new THEN Sightings(S) \cup {read + 1} ELSE Sightings(S)
    <3>1. \A i \in 1 .. read' : i \in 1 .. read \/ i = read + 1
      BY <1>1
    <3>2. 1 .. read \subseteq 1 .. read' /\ read + 1 \in 1 .. read'
      BY <1>1
    <3>3. \A i : Skips(i)' <=> Skips(i)
      BY <1>1 DEF Skips
    <3> QED
      BY <1>1, <3>1, <3>2, <3>3 DEF Sightings
  <2>2. read + 1 \notin Sightings(S)
    BY <1>1 DEF Sightings
  <2>3. Cardinality(Sightings(S))'
          = Cardinality(Sightings(S)) + (IF new THEN 1 ELSE 0)
    <3>1. IsFiniteSet(Sightings(S)) /\ Cardinality(Sightings(S)) \in Nat
      BY Numbers
    <3>2. Cardinality(Sightings(S) \cup {read + 1}) = Cardinality(Sightings(S)) + 1
      BY <2>2, <3>1, FS_AddElement
    <3>3. CASE new
      BY <2>1, <3>2, <3>3
    <3>4. CASE ~new
      BY <2>1, <3>1, <3>4
    <3> HIDE DEF new
    <3> QED
      BY <3>3, <3>4
  <2>4. /\ Count(events, S)' \in Nat /\ Count(events, S) \in Nat
        /\ Count(events, S)' <= Count(events, S) + (IF new THEN 1 ELSE 0)
    <3>1. \/ Count(events', S) = Count(events, S)
          \/ /\ ~Skips(read + 1)
             /\ Count(events', S)
                  = Count(events, S) + (IF f \in S THEN 1 ELSE 0)
      <4>1. CASE events' = events
        BY <4>1
      <4>2. CASE ~Skips(read + 1) /\ events' = Append(events, f)
        <5> HIDE DEF f
        <5> QED
          BY <1>1, <4>2, CountAppend
      <4>3. CASE Skips(read + 1) \/ f \notin inbox
        BY <1>1, <4>1, <4>3
      <4>4. CASE ~Skips(read + 1) /\ f \in inbox
        BY <1>1, <4>2, <4>4
      <4> QED
        BY <4>3, <4>4
    <3>2. Count(events', S) = Count(events, S)'
      BY DEF Count, Places
    <3>3. Count(events, S) \in Nat
      BY Numbers
    <3> QED
      BY <3>1, <3>2, <3>3
  <2>5. Count(toTskOrc, S)' = Count(toTskOrc, S) /\ Count(toTskOrc, S) \in Nat
    BY <1>1, Numbers DEF Count, Places
  <2>6. Cardinality(Sightings(S)) \in Nat
    BY Numbers
  <2> HIDE DEF new
  <2> QED
    BY <2>3, <2>4, <2>5, <2>6 DEF Load
<1> QED
  BY <1>1, <1>2, BalanceKeeps

LEMMA BalanceAnnounce ==
  ASSUME TypeOK, TypeOK', Balance, Announce
  PROVE  Balance'
<1> DEFINE f == Head(events)
<1>1. /\ events # <<>> /\ events' = Tail(events) /\ f \in Files
      /\ toTskOrc' = toTskOrc \/ toTskOrc' = Append(toTskOrc, f)
      /\ events \in Seq(Files) /\ toTskOrc \in Seq(Files)
      /\ UNCHANGED <<raised, read, catalogue, firing, scheduled>>
  BY TailIsShorter DEF Announce, TypeOK, envVars, orcVars
<1>2. ASSUME NEW S \in SUBSET Files
      PROVE  Load(S)' - Load(S)
               <= Cardinality(Sightings(S))' - Cardinality(Sightings(S))
  <2>1. Sightings(S)' = Sightings(S) /\ Cardinality(Sightings(S)) \in Nat
    BY <1>1, SightingsKeep, Numbers
  <2>2. /\ Count(events', S) + (IF f \in S THEN 1 ELSE 0) <= Count(events, S)
        /\ Count(events', S) \in Nat /\ Count(events, S) \in Nat
    BY <1>1, CountTail, CountType DEF TypeOK
  <2>3. /\ Count(toTskOrc', S) <= Count(toTskOrc, S) + (IF f \in S THEN 1 ELSE 0)
        /\ Count(toTskOrc', S) \in Nat /\ Count(toTskOrc, S) \in Nat
    <3>1. Count(toTskOrc', S) \in Nat /\ Count(toTskOrc, S) \in Nat
      BY CountType DEF TypeOK
    <3>2. CASE toTskOrc' = toTskOrc
      BY <3>1, <3>2
    <3>3. CASE toTskOrc' = Append(toTskOrc, f)
      <4> HIDE DEF f
      <4> QED
        BY <1>1, <3>1, <3>3, CountAppend
    <3> QED
      BY <1>1, <3>2, <3>3
  <2>4. Load(S)' = Count(events', S) + Count(toTskOrc', S)
    BY DEF Load, Count, Places
  <2> HIDE DEF f
  <2> QED
    BY <2>1, <2>2, <2>3, <2>4 DEF Load
<1> QED
  BY <1>1, <1>2, BalanceKeeps

\* The product catalogued is paid with its own event; each rule fired by it
\* has it among its inputs.
LEMMA BalanceCatalogue ==
  ASSUME TypeOK, TypeOK', Announced, Balance, Catalogue
  PROVE  Balance'
<1> DEFINE f == Head(toTskOrc)
           one(S) == IF f \in S THEN 1 ELSE 0
<1>1. /\ toTskOrc # <<>> /\ toTskOrc' = Tail(toTskOrc)
      /\ toTskOrc \in Seq(Files) /\ firing = {}
      /\ UNCHANGED <<raised, read, events, scheduled>>
  BY DEF Catalogue, TypeOK, envVars, dwVars
<1>2. f \in Files /\ TypeOf[f] \in Types /\ catalogue'[TypeOf[f]] = f
      /\ catalogue' = [catalogue EXCEPT ![TypeOf[f]] = f]
      /\ catalogue' \in [Types -> Files \cup {NoFile}]
  BY CatalogueType DEF Announced, Catalogue
<1>3. ASSUME NEW S \in SUBSET Files
      PROVE  /\ Load(S) \in Nat /\ Load(S)' \in Nat
             /\ Load(S)' + one(S) <= Load(S)
             /\ Sightings(S)' = Sightings(S)
             /\ Cardinality(Sightings(S)) \in Nat
             /\ Cardinality(S) \in Nat
  <2>1. Sightings(S)' = Sightings(S)
    BY <1>1, SightingsKeep
  <2>2. /\ Count(toTskOrc', S) + one(S) <= Count(toTskOrc, S)
        /\ Count(toTskOrc', S) \in Nat /\ Count(toTskOrc, S) \in Nat
        /\ Count(events, S) \in Nat
    BY <1>1, CountTail, CountType DEF TypeOK
  <2>3. Load(S)' = Count(events, S) + Count(toTskOrc', S)
    BY <1>1 DEF Load, Count, Places
  <2>4. one(S) \in {0, 1}
    OBVIOUS
  <2>5. Cardinality(Sightings(S)) \in Nat /\ Cardinality(S) \in Nat
    BY Numbers
  <2> HIDE DEF one
  <2> QED
    BY <2>1, <2>2, <2>3, <2>4, <2>5 DEF Load
<1>4. InCatalogue' \subseteq InCatalogue \cup {f}
  BY <1>2 DEF InCatalogue, TypeOK
<1>5. ASSUME NEW S \in SUBSET Files
      PROVE  /\ Cardinality(S \cap InCatalogue') \in Nat
             /\ Cardinality(S \cap InCatalogue') + Load(S)' <= Cardinality(Sightings(S))
  <2> DEFINE old == S \cap InCatalogue
             new == S \cap InCatalogue'
  <2>1. IsFiniteSet(S) /\ IsFiniteSet(old) /\ Cardinality(old) \in Nat
    BY Numbers
  <2>2. IsFiniteSet(new) /\ Cardinality(new) \in Nat
    <3>1. new \in SUBSET S
      OBVIOUS
    <3> HIDE DEF new
    <3> QED
      BY <2>1, <3>1, FS_Subset, FS_CardinalityType
  <2>3. Cardinality(new) <= Cardinality(old) + one(S)
    <3>1. CASE f \in S
      <4>1. new \in SUBSET (old \cup {f})
        BY <1>4
      <4>2. IsFiniteSet(old \cup {f})
            /\ Cardinality(old \cup {f}) <= Cardinality(old) + 1
        <5> HIDE DEF old, f
        <5> QED
          BY <2>1, FS_AddElement
      <4>3. Cardinality(new) <= Cardinality(old \cup {f})
        <5> HIDE DEF old, new
        <5> QED
          BY <4>1, <4>2, FS_Subset
      <4>4. Cardinality(old \cup {f}) \in Nat
        <5> HIDE DEF old
        <5> QED
          BY <4>2, FS_CardinalityType
      <4>5. one(S) = 1
        BY <3>1
      <4> HIDE DEF old, new, one
      <4> QED
        BY <2>1, <2>2, <4>2, <4>3, <4>4, <4>5
    <3>2. CASE f \notin S
      <4>1. new \in SUBSET old
        BY <1>4, <3>2
      <4>2. Cardinality(new) <= Cardinality(old)
        <5> HIDE DEF old, new
        <5> QED
          BY <2>1, <4>1, FS_Subset
      <4>3. one(S) = 0
        BY <3>2
      <4> HIDE DEF old, new, one
      <4> QED
        BY <2>1, <2>2, <4>2, <4>3
    <3> QED
      BY <3>1, <3>2
  <2>4. Cardinality(old) + Load(S) <= Cardinality(Sightings(S))
    BY DEF Balance
  <2>5. one(S) \in Nat
    OBVIOUS
  <2>6. Cardinality(new) + Load(S)' <= Cardinality(Sightings(S))
    <3> DEFINE l == Load(S)
               m == Load(S)'
    <3>1. l \in Nat /\ m \in Nat /\ m + one(S) <= l
          /\ Cardinality(Sightings(S)) \in Nat
      BY <1>3
    <3>2. Cardinality(old) + l <= Cardinality(Sightings(S))
      BY <2>4
    <3> HIDE DEF old, new, one, l, m
    <3>3. Cardinality(new) + m <= Cardinality(Sightings(S))
      BY <2>1, <2>2, <2>3, <2>5, <3>1, <3>2
    <3> QED
      BY <3>3 DEF m
  <2> QED
    BY <2>2, <2>6
<1>6. ASSUME NEW k \in Task, Paid(k)' > 0
      PROVE  Paid(k)' + Cardinality(k.inputs) + Load(k.inputs)'
               <= 1 + Cardinality(Sightings(k.inputs))
  <2> DEFINE S == k.inputs
             n == Times(k)
             c == Cardinality(S)
             l == Load(S)
             m == Load(S)'
             s == Cardinality(Sightings(S))
  <2>1. S \in SUBSET Files
    BY DEF Task
  <2>2. /\ l \in Nat /\ m \in Nat /\ m + one(S) <= l /\ s \in Nat /\ c \in Nat
    BY <1>3, <2>1
  <2>3. n \in Nat /\ Times(k)' = n
    BY <1>1, PaidType DEF Times
  <2>4. n > 0 => n + c + l <= 1 + s
    <3>1. Paid(k) = n
      BY <1>1, <2>3 DEF Paid, Fires
    <3> QED
      BY <3>1 DEF Balance
  <2>5. CASE k \in firing'
    <3>1. Paid(k)' = n + 1
      BY <2>3, <2>5 DEF Paid, Fires
    <3>2. PICK r \in Candidates(TypeOf[f]) : k.inputs = Latest(catalogue', r)
      <4>1. k \in Fired(catalogue', TypeOf[f])
        BY <2>5 DEF Catalogue
      <4>2. PICK r \in Candidates(TypeOf[f]) :
              k = [rule |-> r, inputs |-> Latest(catalogue', r)]
        <5> HIDE DEF f
        <5> QED
          BY <4>1 DEF Fired
      <4> QED
        BY <4>2
    <3>3. TypeOf[f] \in Inputs[r] /\ Inputs[r] \subseteq Types
      BY <3>2, IntakeAssumption DEF Candidates
    <3>4. f \in S /\ S \subseteq InCatalogue'
      BY <1>2, <3>2, <3>3 DEF Latest, InCatalogue
    <3>5. c + m <= s
      <4>1. S \cap InCatalogue' = S
        BY <3>4
      <4> QED
        BY <1>5, <2>1, <4>1
    <3>6. one(S) = 1
      BY <3>4
    <3>7. n + 1 + c + m <= 1 + s
      <4> HIDE DEF S, n, c, l, m, s, one
      <4>1. CASE n > 0
        BY <2>2, <2>3, <2>4, <3>6, <4>1
      <4>2. CASE n = 0
        BY <2>2, <3>5, <4>2
      <4> QED
        BY <2>3, <4>1, <4>2
    <3> QED
      BY <3>1, <3>7
  <2>6. CASE k \notin firing'
    <3>1. Paid(k)' = n
      BY <2>3, <2>6 DEF Paid, Fires
    <3>2. n + c + m <= 1 + s
      <4>1. n > 0 /\ one(S) \in Nat
        BY <1>6, <3>1
      <4> HIDE DEF S, n, c, l, m, s, one
      <4> QED
        BY <2>2, <2>3, <2>4, <4>1
    <3> QED
      BY <3>1, <3>2
  <2> QED
    BY <2>5, <2>6
<1>7. \A S \in SUBSET Files : Sightings(S)' = Sightings(S)
  BY <1>3
<1>8. \A k \in Task : k.inputs \in SUBSET Files
  BY DEF Task
<1> HIDE DEF f, one
<1> QED
  BY <1>5, <1>6, <1>7, <1>8 DEF Balance

\* A task that is sent was fired.
LEMMA BalanceSend ==
  ASSUME TypeOK, TypeOK', Balance, SendTaskSchedMsg
  PROVE  Balance'
<1>1. PICK d \in firing : firing' = firing \ {d}
                          /\ scheduled' = Append(scheduled, d)
                          /\ UNCHANGED <<raised, read, events, toTskOrc, catalogue>>
  BY DEF SendTaskSchedMsg, envVars, dwVars
<1>2. d \in Task /\ scheduled \in Seq(Task)
  BY <1>1 DEF TypeOK
<1>3. ASSUME NEW k \in Task
      PROVE  Paid(k)' = Paid(k)
  <2>1. Times(k) = Count(scheduled, {k}) /\ Times(k) \in Nat
    BY PaidType
  <2>2. Times(k)' = Count(scheduled', {k})
    <3>1. {i \in 1 .. Len(scheduled') : scheduled'[i] = k} = Places(scheduled', {k})
      BY DEF Places
    <3> QED
      BY <3>1 DEF Times, Count
  <2>3. Count(scheduled', {k}) = Count(scheduled, {k}) + (IF d \in {k} THEN 1 ELSE 0)
    BY <1>1, <1>2, CountAppend
  <2>4. CASE d = k
    BY <1>1, <2>1, <2>2, <2>3, <2>4 DEF Paid, Fires
  <2>5. CASE d # k
    BY <1>1, <2>1, <2>2, <2>3, <2>5 DEF Paid, Fires
  <2> QED
    BY <2>4, <2>5
<1>4. InCatalogue' = InCatalogue
  BY <1>1 DEF InCatalogue
<1>5. ASSUME NEW S \in SUBSET Files
      PROVE  Load(S)' = Load(S) /\ Sightings(S)' = Sightings(S)
  BY <1>1, SightingsKeep DEF Load, Count, Places
<1>6. \A k \in Task : k.inputs \in SUBSET Files
  BY DEF Task
<1> QED
  BY <1>3, <1>4, <1>5, <1>6 DEF Balance

LEMMA BalanceStep ==
  TypeOK /\ TypeOK' /\ Announced /\ Balance /\ [Next]_vars => Balance'
<1> SUFFICES ASSUME TypeOK, TypeOK', Announced, Balance, [Next]_vars
             PROVE  Balance'
  OBVIOUS
\* Arrivals, the Data Manager and the time-out touch none of it.
<1>1. CASE /\ (\E f \in Files : Raise(f)) \/ UNCHANGED raised
           /\ UNCHANGED <<read, events, toTskOrc, catalogue, firing, scheduled>>
  <2>1. \A i \in 1 .. Len(raised) : raised'[i] = raised[i]
    BY <1>1, RaiseType
  <2>2. ASSUME NEW S \in SUBSET Files
        PROVE  Load(S)' - Load(S)
                 <= Cardinality(Sightings(S))' - Cardinality(Sightings(S))
    <3>1. Sightings(S)' = Sightings(S)
      BY <1>1, <2>1, SightingsKeep
    <3>2. Load(S)' = Load(S)
      BY <1>1 DEF Load, Count, Places
    <3>3. Load(S) \in Nat /\ Cardinality(Sightings(S)) \in Nat
      BY Numbers
    <3> QED
      BY <3>1, <3>2, <3>3
  <2> QED
    BY <1>1, <2>2, BalanceKeeps
<1>2. ASSUME NEW f \in Files, Arrive(f) \/ OpenFile(f) \/ CloseFile(f)
      PROVE  Balance'
  BY <1>1, <1>2 DEF Arrive, OpenFile, CloseFile, dwVars, orcVars
<1>3. CASE ProcessInDataMsg \/ TimeOut \/ UNCHANGED vars
  BY <1>1, <1>3 DEF ProcessInDataMsg, TimeOut, vars, envVars, dwVars, orcVars
<1> QED
  BY <1>2, <1>3, BalanceWatch, BalanceAnnounce, BalanceCatalogue, BalanceSend
  DEF Next, TskOrcStep

-----------------------------------------------------------------------------
IInv ==
  /\ TypeOK /\ Announced
  /\ InputsArchived
  /\ Traced /\ DiesOfRepeatsOnly
  /\ Balance

LEMMA InitIInv == Init => IInv
<1> SUFFICES ASSUME Init PROVE IInv
  OBVIOUS
<1>1. TypeOK /\ Announced
  <2>1. /\ inbox \subseteq Files /\ writing \subseteq Files
        /\ raised \in Seq(Files) /\ read \in 0 .. Len(raised)
        /\ events \in Seq(Files) /\ alive \in BOOLEAN
        /\ toDataMng \in Seq(Files) /\ toTskOrc \in Seq(Files) /\ Announced
    BY DEF Init, Announced
  <2>2. /\ archive \subseteq Files /\ stored \subseteq Files
        /\ firing \subseteq Task /\ late \in BOOLEAN
    BY DEF Init
  <2>4. failures \in 0 .. MaxFailures
    BY IntakeAssumption DEF Init
  <2>3. catalogue \in [Types -> Files \cup {NoFile}]
    BY DEF Init
  <2>5. scheduled \in Seq(Task)
    BY DEF Init
  <2> QED
    BY <2>1, <2>2, <2>3, <2>4, <2>5 DEF TypeOK
<1>2. InputsArchived /\ Traced /\ DiesOfRepeatsOnly
  BY DEF Init, InputsArchived, Traced, DiesOfRepeatsOnly
<1>3. Balance
  <2>1. ASSUME NEW S
        PROVE  Count(events, S) = 0 /\ Count(toTskOrc, S) = 0
               /\ Sightings(S) = {}
    <3>1. Places(events, S) = {} /\ Places(toTskOrc, S) = {}
      BY DEF Init, Places
    <3> QED
      BY <3>1, FS_EmptySet DEF Init, Count, Sightings
  <2>2. ASSUME NEW S \in SUBSET Files
        PROVE  Cardinality(S \cap InCatalogue) + Load(S) <= Cardinality(Sightings(S))
    <3>1. S \cap InCatalogue = {}
      BY IntakeAssumption DEF Init, InCatalogue
    <3> QED
      BY <2>1, <3>1, FS_EmptySet DEF Load
  <2>3. ASSUME NEW k \in Task PROVE Paid(k) = 0
    <3>1. {i \in 1 .. Len(scheduled) : scheduled[i] = k} = {}
      BY DEF Init
    <3> QED
      BY <3>1, FS_EmptySet DEF Init, Paid, Times, Fires
  <2> QED
    BY <2>2, <2>3 DEF Balance
<1> QED
  BY <1>1, <1>2, <1>3 DEF IInv

LEMMA IInvHolds == Spec => []IInv
<1>1. IInv /\ [Next]_vars => IInv'
  BY TypeStep, ArchivedStep, TracedStep, DiesStep, BalanceStep DEF IInv
<1> QED
  BY <1>1, InitIInv, PTL DEF Spec

\* The types; in the catalogue, each product is under its type (tskorc.cpp).
THEOREM TypesOfIntake == Spec => []TypeOK
<1>1. IInv => TypeOK
  BY DEF IInv
<1> QED
  BY <1>1, IInvHolds, PTL

\* A task's inputs are in the archive when it is sent, although the Data
\* Manager moves them on its own (tskorc.cpp, urlhdl.cpp).
THEOREM InputsAreArchived == Spec => []InputsArchived
<1>1. IInv => InputsArchived
  BY DEF IInv
<1> QED
  BY <1>1, IInvHolds, PTL

\* The stat of the watcher only kills the master if a name came twice with
\* another in between (dwatcher.cpp).
THEOREM DeathNeedsRepeats == Spec => []DiesOfRepeatsOnly
<1>1. IInv => DiesOfRepeatsOnly
  BY DEF IInv
<1> QED
  BY <1>1, IInvHolds, PTL

\* No interleaving of the threads makes a rule fire more often than its inputs
\* were seen (tskorc.cpp, checkRulesForProductType).
THEOREM TasksArePaid == Spec => []NoTaskTooMany
<1>1. IInv => NoTaskTooMany
  <2> SUFFICES ASSUME IInv, NEW i \in 1 .. Len(scheduled)
               PROVE  Times(scheduled[i]) + Cardinality(scheduled[i].inputs)
                        <= 1 + Cardinality(Sightings(scheduled[i].inputs))
    BY DEF NoTaskTooMany
  <2>0. TypeOK /\ Balance
    BY DEF IInv
  <2>1. PICK k \in Task : k = scheduled[i]
    BY <2>0, Element DEF TypeOK
  <2>2. Times(k) \in Nat /\ Times(k) # 0 /\ Fires(k) \in Nat /\ Paid(k) \in Nat
    <3>1. Places(scheduled, {k}) # {}
      BY <2>1 DEF Places
    <3>2. IsFiniteSet(Places(scheduled, {k}))
      BY <2>0, CountType DEF TypeOK
    <3>3. Count(scheduled, {k}) # 0
      BY <3>1, <3>2, FS_EmptySet DEF Count
    <3> QED
      BY <2>0, <3>3, PaidType
  <2>3. k.inputs \in SUBSET Files
    BY DEF Task
  <2>4. Paid(k) > 0 /\ Paid(k) >= Times(k)
    BY <2>2 DEF Paid
  <2>5. Paid(k) + Cardinality(k.inputs) + Load(k.inputs)
          <= 1 + Cardinality(Sightings(k.inputs))
    BY <2>0, <2>4 DEF Balance
  <2>6. /\ Cardinality(k.inputs) \in Nat /\ Load(k.inputs) \in Nat
        /\ Cardinality(Sightings(k.inputs)) \in Nat
    BY <2>0, <2>3, Numbers
  <2>7. Times(k) + Cardinality(k.inputs) <= 1 + Cardinality(Sightings(k.inputs))
    BY <2>2, <2>4, <2>5, <2>6
  <2> QED
    BY <2>1, <2>7
<1> QED
  BY <1>1, IInvHolds, PTL
=============================================================================
