-------------------------- MODULE TaskOutputsProofs --------------------------
(***************************************************************************)
(* For any files, any number of outputs of the rule, of reports and of     *)
(* failed commands: when the Data Manager dies of a task, what was moved   *)
(* when a product is registered, and which products are registered.        *)
(*                                                                         *)
(* The argument: the array of outputs is made once, from a listing with no *)
(* repetitions; whatever is in the gateway is in the array, so that when   *)
(* the first loop has gone through it the gateway only has what could not  *)
(* be moved; and the rows are the product_ids of the elements the second   *)
(* loop has passed, all different, or, when a report comes again, those it *)
(* got to before, so that it ends at the first.                            *)
(***************************************************************************)
EXTENDS TaskOutputs, WellFoundedInduction, FiniteSetTheorems, TLAPS

\* A bounded set of numbers that is not empty has a maximum.
LEMMA MaxIsThere ==
  ASSUME NEW S, NEW n \in Nat, S \subseteq 0 .. n, S # {}
  PROVE  Max(S) \in S /\ \A x \in S : Max(S) >= x
<1> DEFINE T == {n - x : x \in S}
<1>1. T \subseteq Nat /\ T # {}
  <2>1. \A x \in S : n - x \in Nat
    OBVIOUS
  <2> QED
    BY <2>1
<1>2. \E y \in T : \A z \in T : ~(<<z, y>> \in OpToRel(<, Nat))
  <2> HIDE DEF T
  <2> QED
    BY <1>1, NatLessThanWellFounded, WFMin
<1>3. PICK y \in T : \A z \in T : ~(z < y)
  BY <1>1, <1>2 DEF OpToRel
<1>4. PICK x \in S : y = n - x
  BY <1>3
<1>5. \A z \in S : x >= z
  <2> TAKE z \in S
  <2>1. ~(n - z < n - x)
    BY <1>3, <1>4
  <2>2. n \in Int /\ x \in Int /\ z \in Int
    OBVIOUS
  <2> QED
    BY <2>1, <2>2
<1> QED
  BY <1>5 DEF Max

\* The files listed are those of the directory, each once.
LEMMA ListingOf ==
  ASSUME NEW S, IsFiniteSet(S), NEW s \in SetToSeqs(S)
  PROVE  /\ s \in Seq(S) /\ Len(s) \in Nat
         /\ \A i, j \in 1 .. Len(s) : s[i] = s[j] => i = j
         /\ \A x \in S : \E i \in 1 .. Len(s) : s[i] = x
<1>1. PICK n \in Nat : n = Cardinality(S)
  BY FS_CardinalityType
<1>2. s \in [1 .. n -> S] /\ \A i, j \in 1 .. n : i # j => s[i] # s[j]
  BY <1>1 DEF SetToSeqs
<1>3. s \in Seq(S) /\ Len(s) = n
  BY <1>2
<1>4. s \in Injection(1 .. n, S)
  BY <1>2 DEF Injection, IsInjective
<1>5. IsFiniteSet(1 .. n) /\ Cardinality(1 .. n) = n
  BY FS_Interval
<1>6. s \in Surjection(1 .. n, S)
  BY <1>1, <1>4, <1>5, FS_Injection
<1> QED
  BY <1>2, <1>3, <1>6 DEF Surjection

\* What the agent makes of a listing.
LEMMA FilledArray ==
  ASSUME NEW fs \in Seq(Files)
  PROVE  /\ Filled(fs) \in Seq(Files \cup {"declared", "null"})
         /\ \A i \in 1 .. Len(fs) : fs[i] \in Parses =>
              i \in 1 .. Len(Filled(fs)) /\ Filled(fs)[i] = fs[i]
         /\ \A i \in 1 .. Len(Filled(fs)) :
              \/ i \in 1 .. Len(fs) /\ fs[i] \in Parses /\ Filled(fs)[i] = fs[i]
              \/ /\ Filled(fs)[i] \notin Files
                 /\ Len(fs) < Declared \/ \E j \in 1 .. Len(fs) : fs[j] \notin Parses
<1> DEFINE parsed == {i \in DOMAIN fs : fs[i] \in Parses}
           last == Max(parsed \cup {Declared})
           array(n) == [i \in 1 .. n |-> IF i \in parsed THEN fs[i]
                                         ELSE IF i <= Declared THEN "declared" ELSE "null"]
<1>1. Len(fs) \in Nat /\ DOMAIN fs = 1 .. Len(fs) /\ Declared \in Nat
  BY TaskOutputsAssumption
<1>2. last \in parsed \cup {Declared} /\ \A x \in parsed \cup {Declared} : last >= x
  <2>1. parsed \cup {Declared} \subseteq 0 .. (Len(fs) + Declared)
    BY <1>1
  <2>2. Len(fs) + Declared \in Nat /\ parsed \cup {Declared} # {}
    BY <1>1
  <2> HIDE DEF parsed
  <2> QED
    BY <2>1, <2>2, MaxIsThere
<1>3. PICK n \in Nat :
        /\ n = last /\ n >= Declared /\ \A x \in parsed : n >= x
        /\ n = Declared \/ n \in 1 .. Len(fs)
  <2> HIDE DEF last
  <2>1. \A x \in parsed : x \in 1 .. Len(fs)
    BY <1>1
  <2>2. last = Declared \/ last \in 1 .. Len(fs)
    BY <1>2, <2>1
  <2>3. last \in Nat
    BY <1>1, <2>2
  <2> HIDE DEF parsed
  <2> QED
    BY <1>2, <2>2, <2>3
<1>4. Filled(fs) = array(n)
  BY <1>3 DEF Filled
<1> HIDE DEF last
<1>5. \A i \in 1 .. n : array(n)[i] \in Files \cup {"declared", "null"}
  BY <1>1
<1>6. Filled(fs) \in Seq(Files \cup {"declared", "null"}) /\ Len(Filled(fs)) = n
  BY <1>4, <1>5
<1>7. \A i \in 1 .. Len(fs) : fs[i] \in Parses => i \in 1 .. n /\ Filled(fs)[i] = fs[i]
  BY <1>1, <1>3, <1>4
<1>8. ASSUME NEW i \in 1 .. n
      PROVE  \/ i \in 1 .. Len(fs) /\ fs[i] \in Parses /\ Filled(fs)[i] = fs[i]
             \/ /\ Filled(fs)[i] \notin Files
                /\ Len(fs) < Declared \/ \E j \in 1 .. Len(fs) : fs[j] \notin Parses
  <2>1. CASE i \in parsed
    BY <1>1, <1>4, <2>1
  <2>2. CASE i \notin parsed
    <3>1. Filled(fs)[i] \notin Files
      BY <1>4, <2>2, TaskOutputsAssumption
    <3>2. ASSUME Len(fs) >= Declared
          PROVE  \E j \in 1 .. Len(fs) : fs[j] \notin Parses
      <4>1. i \in 1 .. Len(fs)
        BY <1>1, <1>3, <3>2
      <4> QED
        BY <1>1, <2>2, <4>1
    <3> QED
      BY <1>1, <3>1, <3>2
  <2> QED
    BY <2>1, <2>2
<1> QED
  BY <1>6, <1>7, <1>8

-----------------------------------------------------------------------------
\* The array is that of a listing without repetitions.
Made ==
  /\ \A i, j \in 1 .. Len(listed) : listed[i] = listed[j] => i = j
  /\ place = "running" => gateway = {} /\ rows = {}
  /\ place # "running" => outputs = Filled(listed) /\ gateway \subseteq Reported

\* A file that is not in the gateway, or whose last move failed.
Tried(f) == f \in gateway => f \in unmoved

\* Where the two loops are.
Passed ==
  /\ place \in {"archiving", "storing"} => next >= 1
  /\ place = "archiving" =>
       \A i \in 1 .. Len(outputs) :
         i < next => outputs[i] \in Files /\ Tried(outputs[i])
  /\ place \in {"storing", "done", "failed"} =>
       /\ gateway \subseteq unmoved
       /\ \A i \in 1 .. Len(outputs) : outputs[i] \in Files
  /\ place = "storing" => next <= Len(outputs) + 1
  /\ rows # {} => gateway \subseteq unmoved
  /\ place = "aborted" => \E i \in 1 .. Len(outputs) : outputs[i] \notin Files

Elements(n) == {ProductId[outputs[i]] : i \in {j \in 1 .. Len(outputs) : j < n}}

\* What is registered while no command failed.
Stored ==
  failures = 0 =>
    /\ place \in {"running", "reported"} => rows = {}
    /\ place = "archiving" => rows \in {{}, Registrable}
    /\ place = "storing" => \/ rows = Elements(next) /\ Distinct(next - 1)
                            \/ rows = Registrable /\ next = 1
    /\ place \in {"done", "failed"} => rows = Registrable

OutInv == TypeOK /\ Made /\ Passed /\ Stored

LEMMA OutInit ==
  Init => OutInv
<1> SUFFICES ASSUME Init
             PROVE  OutInv
  OBVIOUS
<1>1. TypeOK
  <2>1. outputs \in Seq(Files \cup {"declared", "null"})
    BY TaskOutputsAssumption DEF Init
  <2> QED
    BY <2>1, TaskOutputsAssumption DEF Init, TypeOK, Places
<1>2. Made /\ Passed /\ Stored
  BY DEF Init, Made, Passed, Stored
<1> QED
  BY <1>1, <1>2 DEF OutInv

\* The elements of the array: files that parse, each once.
LEMMA ElementsOnce ==
  ASSUME OutInv, place # "running"
  PROVE  /\ Len(outputs) \in Nat
         /\ \A i \in 1 .. Len(outputs) : outputs[i] \in Files =>
              outputs[i] \in Reported /\ \E j \in 1 .. Len(listed) : outputs[i] = listed[j]
         /\ \A i, j \in 1 .. Len(outputs) :
              outputs[i] \in Files /\ outputs[i] = outputs[j] => i = j
         /\ Reported = {listed[i] : i \in DOMAIN listed} \cap Parses
         /\ DOMAIN outputs = 1 .. Len(outputs) /\ DOMAIN listed = 1 .. Len(listed)
<1>1. /\ listed \in Seq(Files) /\ outputs \in Seq(Files \cup {"declared", "null"})
      /\ outputs = Filled(listed)
  BY DEF OutInv, TypeOK, Made
<1>2. /\ Len(outputs) \in Nat
      /\ DOMAIN outputs = 1 .. Len(outputs) /\ DOMAIN listed = 1 .. Len(listed)
  BY <1>1
<1>3. \A i \in 1 .. Len(listed) : listed[i] \in Parses =>
        i \in 1 .. Len(outputs) /\ outputs[i] = listed[i]
  BY <1>1, FilledArray
<1>4. \A i \in 1 .. Len(outputs) : outputs[i] \in Files =>
        i \in 1 .. Len(listed) /\ listed[i] \in Parses /\ outputs[i] = listed[i]
  BY <1>1, FilledArray
<1>5. Parses \subseteq Files
  BY TaskOutputsAssumption
<1>6. Reported = {listed[i] : i \in DOMAIN listed} \cap Parses
  BY <1>2, <1>3, <1>4, <1>5 DEF Reported
<1>7. \A i, j \in 1 .. Len(outputs) :
        outputs[i] \in Files /\ outputs[i] = outputs[j] => i = j
  BY <1>4 DEF OutInv, Made
<1>8. \A i \in 1 .. Len(outputs) : outputs[i] \in Files => outputs[i] \in Reported
  BY <1>2 DEF Reported
<1> QED
  BY <1>2, <1>4, <1>6, <1>7, <1>8

\* The agent's step.
LEMMA OutRetrieve ==
  ASSUME OutInv, RetrieveOutputProducts
  PROVE  OutInv'
<1>1. PICK S \in SUBSET OutFiles, L \in SUBSET LogFiles :
        /\ \E s \in SetToSeqs(S), l \in SetToSeqs(L) : listed' = s \o l
        /\ gateway' \in SUBSET (S \cap Parses)
  BY DEF RetrieveOutputProducts
<1>2. PICK s \in SetToSeqs(S), l \in SetToSeqs(L) : listed' = s \o l
  BY <1>1
<1>3. IsFiniteSet(S) /\ IsFiniteSet(L) /\ S \cap L = {}
  BY FS_Subset, TaskOutputsAssumption
<1>4. /\ s \in Seq(S) /\ Len(s) \in Nat
      /\ \A i, j \in 1 .. Len(s) : s[i] = s[j] => i = j
      /\ \A x \in S : \E i \in 1 .. Len(s) : s[i] = x
  BY <1>3, ListingOf
<1>5. /\ l \in Seq(L) /\ Len(l) \in Nat
      /\ \A i, j \in 1 .. Len(l) : l[i] = l[j] => i = j
  BY <1>3, ListingOf
<1>6. /\ listed' \in Seq(Files)
      /\ Len(listed') = Len(s) + Len(l)
      /\ \A i \in 1 .. Len(listed') :
           \/ i \in 1 .. Len(s) /\ listed'[i] = s[i]
           \/ i > Len(s) /\ i - Len(s) \in 1 .. Len(l) /\ listed'[i] = l[i - Len(s)]
      /\ \A i \in 1 .. Len(s) : i \in 1 .. Len(listed') /\ listed'[i] = s[i]
  <2>1. s \in Seq(Files) /\ l \in Seq(Files)
    <3>1. S \subseteq Files /\ L \subseteq Files
      BY DEF Files
    <3> QED
      BY <1>4, <1>5, <3>1
  <2> QED
    BY <1>2, <2>1
<1>7. ASSUME NEW i \in 1 .. Len(listed'), NEW j \in 1 .. Len(listed'), listed'[i] = listed'[j]
      PROVE  i = j
  <2>1. \A x \in 1 .. Len(s), y \in 1 .. Len(l) : s[x] # l[y]
    BY <1>3, <1>4, <1>5
  <2>2. CASE i \in 1 .. Len(s) /\ listed'[i] = s[i]
    <3>1. j \in 1 .. Len(s) /\ listed'[j] = s[j]
      BY <1>6, <1>7, <2>1, <2>2
    <3> QED
      BY <1>4, <1>7, <2>2, <3>1
  <2>3. CASE i > Len(s) /\ i - Len(s) \in 1 .. Len(l) /\ listed'[i] = l[i - Len(s)]
    <3>1. j > Len(s) /\ j - Len(s) \in 1 .. Len(l) /\ listed'[j] = l[j - Len(s)]
      BY <1>6, <1>7, <2>1, <2>3
    <3>2. i - Len(s) = j - Len(s)
      BY <1>5, <1>7, <2>3, <3>1
    <3> QED
      BY <1>4, <3>2
  <2> QED
    BY <1>6, <2>2, <2>3
<1>8. /\ outputs' = Filled(listed') /\ place' = "reported" /\ place = "running"
      /\ UNCHANGED <<archive, unmoved, rows, next, reports, failures>>
  BY DEF RetrieveOutputProducts
<1>9. outputs' \in Seq(Files \cup {"declared", "null"})
  BY <1>6, <1>8, FilledArray
<1>10. gateway' \subseteq Reported'
  <2> SUFFICES ASSUME NEW f \in gateway'
               PROVE  f \in Reported'
    OBVIOUS
  <2>1. PICK i \in 1 .. Len(listed') : listed'[i] = f /\ f \in Parses
    BY <1>1, <1>4, <1>6
  <2>2. i \in 1 .. Len(outputs') /\ outputs'[i] = f
    BY <1>6, <1>8, <2>1, FilledArray
  <2>3. f \in Files
    BY <2>1, TaskOutputsAssumption
  <2> QED
    BY <1>9, <2>2, <2>3 DEF Reported
<1>11. TypeOK'
  BY <1>1, <1>6, <1>8, <1>9 DEF OutInv, TypeOK, Places
<1>12. Made'
  BY <1>7, <1>8, <1>10 DEF OutInv, Made
<1>13. Passed' /\ Stored'
  BY <1>8 DEF OutInv, Made, Passed, Stored
<1> QED
  BY <1>11, <1>12, <1>13 DEF OutInv

\* The steps of the Data Manager that archive.
LEMMA OutArchive ==
  ASSUME OutInv, Receive \/ ArchiveProduct \/ Abort \/ StartStoring
  PROVE  OutInv'
<1>1. /\ UNCHANGED <<listed, outputs, rows, failures>>
      /\ place # "running" /\ place' # "running"
      /\ gateway' \subseteq gateway
  BY DEF Receive, ArchiveProduct, Abort, StartStoring
<1>2. /\ next \in Nat /\ Len(outputs) \in Nat /\ gateway \subseteq Reported
      /\ Reported' = Reported /\ Registrable' = Registrable
      /\ DOMAIN outputs = 1 .. Len(outputs)
  BY <1>1, ElementsOnce DEF OutInv, TypeOK, Made, Reported, Registrable, Distinct
<1>3. TypeOK'
  <2>1. CASE Receive
    BY <2>1, TaskOutputsAssumption DEF Receive, OutInv, TypeOK, Places
  <2>2. CASE ArchiveProduct
    <3>1. outputs[next] \in Files
      BY <2>2 DEF ArchiveProduct, IsInGateway
    <3> QED
      BY <2>2, <3>1 DEF ArchiveProduct, OutInv, TypeOK, Places
  <2>3. CASE Abort \/ StartStoring
    BY <2>3 DEF Abort, StartStoring, OutInv, TypeOK, Places
  <2> QED
    BY <2>1, <2>2, <2>3
<1>4. Made'
  BY <1>1, <1>2 DEF OutInv, Made
<1>5. Passed'
  <2>1. CASE Receive
    BY <1>1, <2>1 DEF Receive, OutInv, Passed, Tried
  <2>2. CASE ArchiveProduct
    <3>1. next \in 1 .. Len(outputs) /\ outputs[next] \in Files
      BY <1>2, <2>2 DEF ArchiveProduct, AllMoved, IsInGateway, OutInv, Passed
    <3>2. /\ place' = "archiving" /\ next' = next + 1 /\ place = "archiving"
      BY <2>2 DEF ArchiveProduct
    <3>3. /\ outputs[next] \in gateway' => outputs[next] \in unmoved'
          /\ \A f \in Files : Tried(f) => (f \in gateway' => f \in unmoved')
      BY <2>2 DEF ArchiveProduct, Tried
    <3>4. ASSUME NEW i \in 1 .. Len(outputs), i < next + 1
          PROVE  outputs[i] \in Files /\ (outputs[i] \in gateway' => outputs[i] \in unmoved')
      <4>1. CASE i = next
        BY <3>1, <3>3, <4>1
      <4>2. CASE i < next
        <5>1. outputs[i] \in Files /\ Tried(outputs[i])
          BY <3>2, <4>2 DEF OutInv, Passed
        <5> QED
          BY <3>3, <5>1
      <4> QED
        BY <1>2, <3>4, <4>1, <4>2
    <3>5. rows' # {} => gateway' \subseteq unmoved'
      BY <1>1, <2>2 DEF ArchiveProduct, OutInv, Passed
    <3> QED
      BY <1>1, <1>2, <3>1, <3>2, <3>4, <3>5 DEF OutInv, Passed, Tried
  <2>3. CASE Abort
    <3>1. next \in 1 .. Len(outputs) /\ outputs[next] \notin Files
      BY <1>2, <2>3 DEF Abort, AllMoved, IsInGateway, OutInv, Passed
    <3> QED
      BY <1>1, <2>3, <3>1 DEF Abort, OutInv, Passed
  <2>4. CASE StartStoring
    <3>1. \A i \in 1 .. Len(outputs) : outputs[i] \in Files /\ Tried(outputs[i])
      BY <1>2, <2>4 DEF StartStoring, AllMoved, OutInv, Passed
    <3>2. gateway \subseteq unmoved
      BY <1>2, <3>1 DEF Reported, Tried
    <3> QED
      BY <1>1, <2>4, <3>1, <3>2 DEF StartStoring, OutInv, Passed
  <2> QED
    BY <2>1, <2>2, <2>3, <2>4
<1>6. Stored'
  <2>1. CASE Receive
    BY <1>1, <1>2, <2>1 DEF Receive, OutInv, Stored
  <2>2. CASE ArchiveProduct \/ Abort
    BY <1>1, <1>2, <2>2 DEF ArchiveProduct, Abort, OutInv, Stored
  <2>3. CASE StartStoring
    <3>1. place = "archiving" /\ place' = "storing" /\ next' = 1
      BY <2>3 DEF StartStoring
    <3>2. Elements(1)' = {} /\ Distinct(0)'
      BY DEF Elements, Distinct
    <3>3. failures = 0 => rows \in {{}, Registrable}
      BY <3>1 DEF OutInv, Stored
    <3>4. rows = {} => rows' = Elements(next)' /\ Distinct(next - 1)'
      <4>1. next' - 1 = 0
        BY <3>1
      <4> QED
        BY <1>1, <3>1, <3>2, <4>1 DEF Elements, Distinct
    <3> QED
      BY <1>1, <1>2, <3>1, <3>3, <3>4 DEF Stored
  <2> QED
    BY <2>1, <2>2, <2>3
<1> QED
  BY <1>3, <1>4, <1>5, <1>6 DEF OutInv

\* A set of numbers that has those below each of its own, up to its first gap.
LEMMA UpToTheGap ==
  ASSUME NEW D, NEW len \in Nat, NEW n \in Nat, n <= len, n \in D,
         n = len \/ n + 1 \notin D,
         \A k \in Nat, m \in Nat : k \in D /\ m <= k => m \in D
  PROVE  {k \in 1 .. len : k \in D} = {j \in 1 .. len : j < n + 1}
<1>1. ASSUME NEW i \in 1 .. len, i <= n
      PROVE  i \in D
  BY <1>1
<1>2. ASSUME NEW i \in 1 .. len, i > n
      PROVE  i \notin D
  <2>1. n + 1 <= i /\ n # len /\ n + 1 \in Nat /\ i \in Nat
    BY <1>2
  <2> QED
    BY <2>1
<1> QED
  BY <1>1, <1>2

LEMMA DistinctBelow ==
  ASSUME NEW k \in Nat, NEW m \in Nat, m <= k
  PROVE  Distinct(k) => Distinct(m)
<1>1. \A i \in 1 .. m : i \in 1 .. k
  OBVIOUS
<1> QED
  BY <1>1 DEF Distinct

\* All before the first repeated product_id is what there is to register.
LEMMA RegistrableUpTo ==
  ASSUME OutInv, NEW n \in Nat, n <= Len(outputs), Distinct(n),
         n = Len(outputs) \/ ~Distinct(n + 1)
  PROVE  Registrable = Elements(n + 1)
<1> DEFINE D == {k \in Nat : Distinct(k)}
<1>1. PICK len \in Nat : len = Len(outputs) /\ DOMAIN outputs = 1 .. len
  BY DEF OutInv, TypeOK
<1>2. n \in D /\ (n = len \/ n + 1 \notin D) /\ n <= len
  BY <1>1
<1>3. \A k \in Nat, m \in Nat : k \in D /\ m <= k => m \in D
  BY DistinctBelow
<1>4. {k \in DOMAIN outputs : Distinct(k)} = {k \in 1 .. len : k \in D}
  BY <1>1
<1> HIDE DEF D
<1>5. {k \in 1 .. len : k \in D} = {j \in 1 .. len : j < n + 1}
  BY <1>2, <1>3, UpToTheGap
<1> QED
  BY <1>1, <1>4, <1>5 DEF Registrable, Elements

\* The steps that register, and the end of the process.
LEMMA OutStore ==
  ASSUME OutInv, StoreProduct \/ StoreFails \/ FinishStoring \/ Exit
  PROVE  OutInv'
<1>1. /\ UNCHANGED <<listed, outputs, gateway, archive, unmoved, reports>>
      /\ place # "running" /\ place' # "running"
  BY DEF StoreProduct, StoreFails, FinishStoring, Exit
<1>2. /\ next \in Nat /\ Len(outputs) \in Nat
      /\ Reported' = Reported /\ Registrable' = Registrable
      /\ DOMAIN outputs = 1 .. Len(outputs)
  BY <1>1, ElementsOnce DEF OutInv, TypeOK, Reported, Registrable, Distinct
<1>3. place = "storing" =>
        /\ gateway \subseteq unmoved /\ next >= 1 /\ next <= Len(outputs) + 1
        /\ \A i \in 1 .. Len(outputs) : outputs[i] \in Files
  BY <1>1, ElementsOnce DEF OutInv, Passed
<1>4. TypeOK'
  <2>1. CASE StoreProduct
    <3>1. next \in 1 .. Len(outputs) /\ place = "storing"
      BY <1>2, <1>3, <2>1 DEF StoreProduct, AllStored
    <3>2. rows' \subseteq {ProductId[f] : f \in Files}
      BY <1>3, <2>1, <3>1 DEF StoreProduct, OutInv, TypeOK
    <3> QED
      BY <1>1, <2>1, <3>2 DEF StoreProduct, OutInv, TypeOK
  <2>2. CASE StoreFails
    BY <2>2, TaskOutputsAssumption DEF StoreFails, OutInv, TypeOK, Places
  <2>3. CASE FinishStoring \/ Exit
    BY <2>3 DEF FinishStoring, Exit, OutInv, TypeOK, Places
  <2> QED
    BY <2>1, <2>2, <2>3
<1>5. Made'
  BY <1>1, <1>2 DEF OutInv, Made
<1>6. Passed'
  <2>1. CASE StoreProduct
    <3>1. next' = next + 1 /\ next <= Len(outputs)
      BY <1>2, <2>1 DEF StoreProduct, AllStored
    <3> QED
      BY <1>1, <1>2, <1>3, <2>1, <3>1 DEF StoreProduct, OutInv, Passed
  <2>2. CASE StoreFails
    BY <1>1, <1>3, <2>2 DEF StoreFails, OutInv, Passed
  <2>3. CASE FinishStoring
    BY <1>1, <1>3, <2>3 DEF FinishStoring, OutInv, Passed
  <2>4. CASE Exit
    BY <1>1, <2>4 DEF Exit, OutInv, Passed
  <2> QED
    BY <2>1, <2>2, <2>3, <2>4
<1>7. Stored'
  <2> SUFFICES ASSUME failures' = 0
               PROVE  Stored'
    BY DEF Stored
  <2>1. CASE StoreProduct
    <3>1. /\ next \in 1 .. Len(outputs) /\ place = "storing" /\ place' = "storing"
          /\ ProductId[outputs[next]] \notin rows
          /\ rows' = rows \cup {ProductId[outputs[next]]}
          /\ next' = next + 1 /\ failures = 0
      BY <1>2, <1>3, <2>1 DEF StoreProduct, AllStored
    <3>2. rows = Elements(next) /\ Distinct(next - 1)
      <4>1. CASE rows = Registrable /\ next = 1
        <5>1. 1 \in DOMAIN outputs /\ Distinct(1)
          BY <1>2, <3>1, <4>1 DEF Distinct
        <5>2. ProductId[outputs[1]] \in Registrable
          BY <5>1 DEF Registrable
        <5> QED
          BY <3>1, <4>1, <5>2
      <4> QED
        BY <3>1, <4>1 DEF OutInv, Stored
    <3>3. rows' = Elements(next + 1)
      BY <1>2, <3>1, <3>2 DEF Elements
    <3>4. Distinct(next)
      <4>1. \A i \in 1 .. next - 1 : ProductId[outputs[i]] # ProductId[outputs[next]]
        BY <1>2, <3>1, <3>2 DEF Elements
      <4> QED
        BY <1>2, <3>1, <3>2, <4>1 DEF Distinct
    <3>5. next' - 1 = next
      BY <1>2, <3>1
    <3>6. rows' = Elements(next)' /\ Distinct(next - 1)'
      BY <1>1, <3>1, <3>3, <3>4, <3>5 DEF Elements, Distinct
    <3> QED
      BY <3>1, <3>6 DEF Stored
  <2>2. CASE StoreFails
    <3>1. /\ place = "storing" /\ next \in 1 .. Len(outputs) /\ place' = "failed"
          /\ rows' = rows
      BY <1>2, <1>3, <2>2 DEF StoreFails, AllStored
    <3>2. failures = 0 /\ ProductId[outputs[next]] \in rows
      BY <2>2 DEF StoreFails, OutInv, TypeOK
    <3>3. rows = Registrable
      <4>1. CASE rows = Elements(next) /\ Distinct(next - 1)
        <5>1. PICK i \in 1 .. Len(outputs) :
                i < next /\ ProductId[outputs[i]] = ProductId[outputs[next]]
          BY <3>2, <4>1 DEF Elements
        <5>2. ~Distinct(next)
          BY <1>2, <3>1, <5>1 DEF Distinct
        <5>3. next - 1 \in Nat /\ next - 1 <= Len(outputs) /\ (next - 1) + 1 = next
          BY <1>2, <3>1
        <5> QED
          BY <4>1, <5>2, <5>3, RegistrableUpTo
      <4> QED
        BY <3>1, <3>2, <4>1 DEF OutInv, Stored
    <3> QED
      BY <1>2, <3>1, <3>3 DEF Stored
  <2>3. CASE FinishStoring
    <3>1. /\ place = "storing" /\ place' = "done" /\ rows' = rows /\ failures = 0
          /\ next = Len(outputs) + 1
      BY <1>2, <1>3, <2>3 DEF FinishStoring, AllStored
    <3>2. rows = Registrable
      <4>1. CASE rows = Elements(next) /\ Distinct(next - 1)
        <5>1. next - 1 \in Nat /\ next - 1 = Len(outputs) /\ (next - 1) + 1 = next
          BY <1>2, <3>1
        <5>2. next - 1 <= Len(outputs)
          BY <1>2, <5>1
        <5> QED
          BY <4>1, <5>1, <5>2, RegistrableUpTo
      <4> QED
        BY <3>1, <4>1 DEF OutInv, Stored
    <3> QED
      BY <1>2, <3>1, <3>2 DEF Stored
  <2>4. CASE Exit
    BY <1>1, <2>4 DEF Exit, Stored
  <2> QED
    BY <2>1, <2>2, <2>3, <2>4
<1> QED
  BY <1>4, <1>5, <1>6, <1>7 DEF OutInv

LEMMA OutNext ==
  OutInv /\ [Next]_vars => OutInv'
<1> SUFFICES ASSUME OutInv, UNCHANGED vars
             PROVE  OutInv'
  BY OutRetrieve, OutArchive, OutStore DEF Next
<1> QED
  BY DEF vars, OutInv, TypeOK, Made, Passed, Tried, Stored, Elements, Reported,
         Registrable, Distinct

\* The variables keep their types: the array is a sequence, whatever files are
\* listed, and only files are registered.
THEOREM OutputTypes ==
  Spec => []TypeOK
<1>1. OutInv => TypeOK
  BY DEF OutInv
<1> QED
  BY OutInit, OutNext, <1>1, PTL DEF Spec

\* The Data Manager only dies of a task that left fewer files than its rule
\* has outputs, or one whose name does not parse.
THEOREM DiesOfGaps ==
  Spec => []AbortsOnlyOnGap
<1>1. OutInv => AbortsOnlyOnGap
  <2> SUFFICES ASSUME OutInv, place = "aborted"
               PROVE  Len(listed) < Declared \/ \E i \in DOMAIN listed : listed[i] \notin Parses
    BY DEF AbortsOnlyOnGap
  <2>1. listed \in Seq(Files) /\ outputs = Filled(listed) /\ DOMAIN listed = 1 .. Len(listed)
    BY DEF OutInv, TypeOK, Made
  <2>2. PICK i \in 1 .. Len(outputs) : outputs[i] \notin Files
    BY DEF OutInv, Passed
  <2>3. Parses \subseteq Files
    BY TaskOutputsAssumption
  <2> QED
    BY <2>1, <2>2, <2>3, FilledArray
<1> QED
  BY OutInit, OutNext, <1>1, PTL DEF Spec

\* Nothing is registered before the move of everything that reached the gateway
\* was tried (datamng.cpp, saveTaskToDB).
THEOREM MovesFirst ==
  Spec => []RowsAfterMoves
<1>1. OutInv => RowsAfterMoves
  BY DEF OutInv, Passed, RowsAfterMoves
<1> QED
  BY OutInit, OutNext, <1>1, PTL DEF Spec

\* While no command failed, a report that was dealt with, the first or another,
\* leaves the products registered that come before the first with the
\* product_id of an earlier one (dbhdlpostgre.cpp, storeProducts).
THEOREM ProductsRegistered ==
  Spec => []AllRegistered
<1>1. OutInv => AllRegistered
  BY ElementsOnce DEF OutInv, Stored, AllRegistered
<1> QED
  BY OutInit, OutNext, <1>1, PTL DEF Spec
=============================================================================
