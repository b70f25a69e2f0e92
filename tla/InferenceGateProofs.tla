------------------------ MODULE InferenceGateProofs ------------------------
(***************************************************************************)
(* The reader/writer contract of InferenceGate for every K and any tasks.  *)
(***************************************************************************)
EXTENDS InferenceGate, FiniteSetTheorems, TLAPS

\* The permits a writer at the front of the queue has collected so far.
Drained ==
    IF queue # <<>> /\ Head(queue) \in Writers THEN held[Head(queue)] ELSE 0

\* Every permit is free, with a reader inside or with the writer in front.
PermitsAddUp == slots + Cardinality(Reading) + Drained = K

\* A writer inside holds the lock and all K permits; one without the lock
\* holds none.
WritersHold ==
    \A w \in Writers :
        /\ place[w] = "in" => HasLock(w) /\ held[w] = K
        /\ ~HasLock(w) => held[w] = 0
        /\ place[w] # "in" => held[w] < K

GateInv == GateTypeOK /\ PermitsAddUp /\ WritersHold

-----------------------------------------------------------------------------

\* The readers inside can be counted.
LEMMA ReadingFinite == IsFiniteSet(Reading) /\ Cardinality(Reading) \in Nat
  BY FiniteTasks, FS_Subset, FS_CardinalityType DEF Reading

\* A new gate satisfies the invariant.
LEMMA GateInitInv == GateInit => GateInv
  <1> SUFFICES ASSUME GateInit PROVE GateInv
    OBVIOUS
  <1>1. Reading = {}
    BY DEF GateInit, Reading, Tasks
  <1>2. Cardinality(Reading) = 0
    BY <1>1, FS_EmptySet
  <1>3. GateTypeOK
    BY KIsPositive DEF GateInit, GateTypeOK
  <1>4. PermitsAddUp
    BY <1>2, KIsPositive DEF GateInit, PermitsAddUp, Drained
  <1>5. WritersHold
    BY KIsPositive DEF GateInit, WritersHold, Tasks
  <1> QED
    BY <1>3, <1>4, <1>5 DEF GateInv

\* Asking moves nobody who is already queued and gives nobody a permit.
LEMMA AskStep ==
    ASSUME GateInv, NEW t \in Tasks, Ask(t)
    PROVE  GateInv'
  <1> USE DEF GateInv, GateTypeOK, Tasks
  <1>1. GateTypeOK'
    BY DEF Ask
  <1>2. Reading' = Reading
    BY DEF Ask, Reading
  <1>3. CASE queue = <<>>
    <2>1. queue' # <<>> /\ Head(queue') = t
      BY <1>3 DEF Ask
    <2>2. \A w \in Writers : held[w] = 0
      BY <1>3 DEF WritersHold, HasLock
    <2>3. PermitsAddUp'
      BY <1>2, <1>3, <2>1, <2>2 DEF Ask, PermitsAddUp, Drained
    <2>4. WritersHold'
      BY <1>3, <2>2, KIsPositive DEF Ask, WritersHold, HasLock
    <2> QED
      BY <1>1, <2>3, <2>4
  <1>4. CASE queue # <<>>
    <2>1. queue' # <<>> /\ Head(queue') = Head(queue)
      BY <1>4 DEF Ask
    <2>2. PermitsAddUp'
      BY <1>2, <1>4, <2>1 DEF Ask, PermitsAddUp, Drained
    <2>3. WritersHold'
      <3> SUFFICES ASSUME NEW w \in Writers
                   PROVE  /\ place'[w] = "in" => HasLock(w)' /\ held'[w] = K
                          /\ ~HasLock(w)' => held'[w] = 0
                          /\ place'[w] # "in" => held'[w] < K
        BY DEF WritersHold
      <3>1. HasLock(w)' <=> HasLock(w)
        BY <1>4, <2>1 DEF HasLock
      <3>2. held' = held /\ (place'[w] = place[w] \/ (place[w] = "out" /\ place'[w] = "asking"))
        BY DEF Ask
      <3> QED
        BY <3>1, <3>2 DEF WritersHold
    <2> QED
      BY <1>1, <2>2, <2>3
  <1> QED
    BY <1>3, <1>4

\* A writer inside means that no reader is: its K permits are all there are.
LEMMA WriterExcludes ==
    ASSUME GateInv
    PROVE  WriterIsExclusive
  <1> SUFFICES ASSUME NEW w \in Writing PROVE Reading = {} /\ Writing = {w}
    BY DEF WriterIsExclusive
  <1>1. w \in Writers /\ HasLock(w) /\ held[w] = K
    BY DEF GateInv, WritersHold, Writing
  <1>2. Drained = K
    BY <1>1 DEF Drained, HasLock
  <1>3. Cardinality(Reading) = 0
    BY <1>2, ReadingFinite, KIsPositive DEF GateInv, PermitsAddUp, GateTypeOK
  <1>4. Reading = {}
    BY <1>3, ReadingFinite, FS_EmptySet
  <1>5. Writing = {w}
    BY <1>1 DEF GateInv, WritersHold, Writing, HasLock
  <1> QED
    BY <1>4, <1>5

\* No more readers are inside than there are permits.
LEMMA ReadersBounded ==
    ASSUME GateInv
    PROVE  AtMostKReaders
  BY ReadingFinite, KIsPositive
     DEF GateInv, PermitsAddUp, Drained, GateTypeOK, AtMostKReaders, Tasks

\* A reader that enters takes one free permit.
LEMMA ReaderEntersStep ==
    ASSUME GateInv, NEW r \in Readers, ReaderTakesSlot(r)
    PROVE  /\ GateInv'
           /\ r \notin Reading /\ Reading' = Reading \cup {r}
           /\ Writing = {} /\ Writing' = {}
           /\ Cardinality(Reading) < K
  <1> USE DEF GateTypeOK, Tasks
  <1>1. GateTypeOK /\ WritersHold /\ PermitsAddUp /\ r \notin Writers
    BY SidesAreDisjoint DEF GateInv
  <1>2. r \notin Reading /\ Reading' = Reading \cup {r}
    BY <1>1 DEF ReaderTakesSlot, Reading
  <1>3. Cardinality(Reading') = Cardinality(Reading) + 1
    BY <1>2, ReadingFinite, FS_AddElement
  <1>4. \A w \in Writers : ~HasLock(w) /\ held[w] = 0 /\ place[w] # "in"
    BY <1>1 DEF ReaderTakesSlot, HasLock, WritersHold
  <1>5. \A w \in Writers : held'[w] = 0 /\ place'[w] # "in"
    BY <1>1, <1>4 DEF ReaderTakesSlot
  <1>6. Drained = 0
    BY <1>1 DEF ReaderTakesSlot, HasLock, Drained
  <1>7. Drained' = 0
    BY <1>5 DEF Drained
  <1>8. slots > 0 /\ slots' = slots - 1 /\ slots \in Nat
    BY <1>1, KIsPositive DEF ReaderTakesSlot
  <1>9. PermitsAddUp'
    BY <1>1, <1>3, <1>6, <1>7, <1>8, ReadingFinite DEF PermitsAddUp
  <1>10. GateTypeOK'
    <2>1. queue' \in Seq(Readers \cup Writers)
      BY <1>1 DEF ReaderTakesSlot, HasLock
    <2>2. held' \in [Readers \cup Writers -> 0..K]
      BY <1>1, KIsPositive DEF ReaderTakesSlot
    <2>3. slots' \in 0..K
      BY <1>1, <1>8, KIsPositive
    <2> QED
      BY <1>1, <2>1, <2>2, <2>3 DEF ReaderTakesSlot
  <1>11. WritersHold'
    BY <1>5, KIsPositive DEF WritersHold
  <1>12. Cardinality(Reading) < K
    BY <1>1, <1>6, <1>8, ReadingFinite, KIsPositive DEF PermitsAddUp
  <1> QED
    BY <1>2, <1>4, <1>5, <1>9, <1>10, <1>11, <1>12 DEF GateInv, Writing

\* A reader that leaves gives its permit back.
LEMMA ReaderLeavesStep ==
    ASSUME GateInv, NEW r \in Readers, ReaderGivesBack(r)
    PROVE  /\ GateInv'
           /\ r \in Reading /\ Reading' = Reading \ {r}
           /\ Writing' = Writing
  <1> USE DEF GateTypeOK, Tasks
  <1>1. GateTypeOK /\ WritersHold /\ PermitsAddUp /\ r \notin Writers
    BY SidesAreDisjoint DEF GateInv
  <1>2. r \in Reading /\ Reading' = Reading \ {r}
    BY <1>1 DEF ReaderGivesBack, Reading
  <1>3. Cardinality(Reading') = Cardinality(Reading) - 1
    BY <1>2, ReadingFinite, FS_RemoveElement
  <1>4. \A w \in Writers : held'[w] = held[w] /\ place'[w] = place[w]
    BY <1>1 DEF ReaderGivesBack
  <1>5. Drained' = Drained
    BY <1>4 DEF ReaderGivesBack, Drained
  <1>6. Drained \in Nat /\ slots \in Nat
    BY <1>1, KIsPositive DEF Drained
  <1>7. Cardinality(Reading) > 0
    BY <1>2, ReadingFinite, FS_EmptySet
  <1>8. PermitsAddUp' /\ slots' \in 0..K
    BY <1>1, <1>3, <1>5, <1>6, <1>7, ReadingFinite, KIsPositive
       DEF PermitsAddUp, ReaderGivesBack
  <1>9. GateTypeOK'
    BY <1>1, <1>8, KIsPositive DEF ReaderGivesBack
  <1>10. WritersHold'
    BY <1>1, <1>4 DEF WritersHold, HasLock, ReaderGivesBack
  <1> QED
    BY <1>2, <1>4, <1>8, <1>9, <1>10 DEF GateInv, Writing

\* A writer at the front collects a permit.
LEMMA WriterTakesStep ==
    ASSUME GateInv, NEW w \in Writers, WriterTakesSlot(w)
    PROVE  /\ GateInv'
           /\ Reading' = Reading
           /\ Writing = {}
           /\ \/ Writing' = {}
              \/ Writing' = {w} /\ Reading = {}
  <1> USE DEF GateTypeOK, Tasks
  <1>1. GateTypeOK /\ WritersHold /\ PermitsAddUp /\ w \notin Readers
    BY SidesAreDisjoint DEF GateInv
  <1>2. /\ queue # <<>> /\ Head(queue) = w /\ queue' = queue
        /\ slots \in Nat /\ slots > 0 /\ slots' = slots - 1
        /\ held[w] \in Nat /\ held[w] < K /\ held'[w] = held[w] + 1
        /\ place[w] = "asking"
    BY <1>1, KIsPositive DEF WriterTakesSlot, HasLock, WritersHold
  <1>3. \A v \in Writers : v # w => held'[v] = held[v] /\ place'[v] = place[v]
    BY <1>1 DEF WriterTakesSlot
  <1>4. place'[w] = IF held'[w] = K THEN "in" ELSE "asking"
    BY <1>1, <1>2 DEF WriterTakesSlot
  <1>5. Reading' = Reading
    BY <1>1 DEF WriterTakesSlot, Reading
  <1>6. Drained' = Drained + 1 /\ Drained \in Nat
    BY <1>2 DEF Drained
  <1>7. PermitsAddUp'
    BY <1>1, <1>2, <1>5, <1>6, ReadingFinite, KIsPositive DEF PermitsAddUp
  <1>8. GateTypeOK'
    <2>1. held' \in [Readers \cup Writers -> 0..K]
      BY <1>1, <1>2, KIsPositive DEF WriterTakesSlot
    <2>2. place' \in [Readers \cup Writers -> {"out", "asking", "in"}]
      BY <1>1 DEF WriterTakesSlot
    <2> QED
      BY <1>1, <1>2, <2>1, <2>2, KIsPositive
  <1>9. WritersHold'
    <2> SUFFICES ASSUME NEW v \in Writers
                 PROVE  /\ place'[v] = "in" => HasLock(v)' /\ held'[v] = K
                        /\ ~HasLock(v)' => held'[v] = 0
                        /\ place'[v] # "in" => held'[v] < K
      BY DEF WritersHold
    <2>1. HasLock(v)' <=> v = w
      BY <1>2 DEF HasLock
    <2>2. HasLock(v) <=> v = w
      BY <1>2 DEF HasLock
    <2>3. CASE v = w
      BY <1>2, <1>4, <2>1, <2>3, KIsPositive
    <2>4. CASE v # w
      BY <1>1, <1>3, <2>1, <2>2, <2>4 DEF WritersHold
    <2> QED
      BY <2>3, <2>4
  <1>10. GateInv'
    BY <1>7, <1>8, <1>9 DEF GateInv
  <1>11. Writing = {}
    BY <1>1, <1>2 DEF Writing, WritersHold, HasLock
  <1>12. Writing' \subseteq {w}
    BY <1>3, <1>11 DEF Writing
  <1>13. Writing' # {} => Reading = {}
    <2>1. WriterIsExclusive'
      BY <1>10, WriterExcludes, PTL
    <2> QED
      BY <1>5, <2>1 DEF WriterIsExclusive
  <1> QED
    BY <1>5, <1>10, <1>11, <1>12, <1>13

\* Nobody else is inside when a writer leaves, and whoever heads the queue
\* next holds nothing yet.
LEMMA WriterLeavesStep ==
    ASSUME GateInv, NEW w \in Writers, WriterLeaves(w)
    PROVE  /\ GateInv'
           /\ Reading' = Reading
           /\ Writing = {w} /\ Writing' = {}
  <1> USE DEF GateTypeOK, Tasks
  <1>1. GateTypeOK /\ WritersHold /\ PermitsAddUp /\ w \notin Readers
    BY SidesAreDisjoint DEF GateInv
  <1>2. /\ queue # <<>> /\ Head(queue) = w /\ queue' = Tail(queue)
        /\ held[w] = K /\ slots' = slots + K /\ place[w] = "in"
    BY <1>1 DEF WriterLeaves, WritersHold, HasLock
  <1>3. Reading = {} /\ Writing = {w}
    BY <1>2, WriterExcludes DEF WriterIsExclusive, Writing
  <1>4. Reading' = Reading
    BY <1>1 DEF WriterLeaves, Reading
  <1>5. Cardinality(Reading) = 0
    BY <1>3, FS_EmptySet
  <1>6. slots = 0
    BY <1>1, <1>2, <1>5, KIsPositive DEF PermitsAddUp, Drained
  <1>7. \A v \in Writers : held'[v] = 0 /\ place'[v] # "in"
    <2> SUFFICES ASSUME NEW v \in Writers PROVE held'[v] = 0 /\ place'[v] # "in"
      OBVIOUS
    <2>1. CASE v = w
      BY <1>1, <2>1 DEF WriterLeaves
    <2>2. CASE v # w
      <3>1. ~HasLock(v) /\ place[v] # "in"
        BY <1>2, <1>3, <2>2 DEF HasLock, Writing
      <3> QED
        BY <1>1, <2>2, <3>1 DEF WriterLeaves, WritersHold
    <2> QED
      BY <2>1, <2>2
  <1>8. Drained' = 0
    BY <1>7 DEF Drained
  <1>9. PermitsAddUp'
    BY <1>2, <1>4, <1>5, <1>6, <1>8, KIsPositive DEF PermitsAddUp
  <1>10. GateTypeOK'
    <2>1. queue' \in Seq(Readers \cup Writers)
      BY <1>1, <1>2
    <2>2. held' \in [Readers \cup Writers -> 0..K]
      BY <1>1, KIsPositive DEF WriterLeaves
    <2>3. slots' \in 0..K
      BY <1>2, <1>6, KIsPositive
    <2> QED
      BY <1>1, <2>1, <2>2, <2>3 DEF WriterLeaves
  <1>11. WritersHold'
    BY <1>7, KIsPositive DEF WritersHold
  <1> QED
    BY <1>3, <1>4, <1>7, <1>9, <1>10, <1>11 DEF GateInv, Writing

-----------------------------------------------------------------------------

\* Every step keeps the inductive invariant.
LEMMA GateStep ==
    ASSUME GateInv, [GateNext]_gateVars
    PROVE  GateInv'
  <1>1. ASSUME NEW t \in Tasks, Ask(t) PROVE GateInv'
    BY <1>1, AskStep
  <1>2. ASSUME NEW r \in Readers, ReaderSteps(r) PROVE GateInv'
    BY <1>2, ReaderEntersStep, ReaderLeavesStep DEF ReaderSteps
  <1>3. ASSUME NEW w \in Writers, WriterSteps(w) PROVE GateInv'
    BY <1>3, WriterTakesStep, WriterLeavesStep DEF WriterSteps
  <1>4. CASE UNCHANGED gateVars
    BY <1>4 DEF gateVars, GateInv, GateTypeOK, PermitsAddUp, Drained,
                WritersHold, HasLock, Reading
  <1> QED
    BY <1>1, <1>2, <1>3, <1>4 DEF GateNext

\* Every step of the gate is a step of the contract, or none at all.
LEMMA GateStepRefines ==
    ASSUME GateInv, [GateNext]_gateVars
    PROVE  [RW!RWNext]_(RW!rwVars)
  <1> USE DEF RW!RWNext, RW!rwVars
  <1>1. ASSUME NEW t \in Tasks, Ask(t)
        PROVE  Reading' = Reading /\ Writing' = Writing
    BY <1>1 DEF Ask, GateInv, GateTypeOK, Reading, Writing, Tasks
  <1>2. ASSUME NEW r \in Readers, ReaderTakesSlot(r) PROVE RW!EnterRead(r)
    <2>1. /\ r \notin Reading /\ Reading' = Reading \cup {r}
          /\ Writing = {} /\ Writing' = Writing
          /\ Cardinality(Reading) < K
      BY <1>2, ReaderEntersStep
    <2> QED
      BY <2>1 DEF RW!EnterRead, RW!Cardinality, Cardinality
  <1>3. ASSUME NEW r \in Readers, ReaderGivesBack(r) PROVE RW!LeaveRead(r)
    BY <1>3, ReaderLeavesStep DEF RW!LeaveRead
  <1>4. ASSUME NEW w \in Writers, WriterTakesSlot(w)
        PROVE  RW!EnterWrite(w) \/ (Reading' = Reading /\ Writing' = Writing)
    BY <1>4, WriterTakesStep DEF RW!EnterWrite
  <1>5. ASSUME NEW w \in Writers, WriterLeaves(w) PROVE RW!LeaveWrite(w)
    BY <1>5, WriterLeavesStep DEF RW!LeaveWrite
  <1>6. CASE UNCHANGED gateVars
    BY <1>6 DEF gateVars, Reading, Writing
  <1> QED
    BY <1>1, <1>2, <1>3, <1>4, <1>5, <1>6
       DEF GateNext, ReaderSteps, WriterSteps

\* The inductive invariant holds in every reachable state of app/state.py's
\* gate.
THEOREM GateInvariant == GateSpec => []GateInv
  <1>1. GateInit => GateInv
    BY GateInitInv
  <1>2. GateInv /\ [GateNext]_gateVars => GateInv'
    BY GateStep
  <1> QED
    BY <1>1, <1>2, PTL DEF GateSpec

\* The gate's lock queue, permits and tasks keep their types: no permit is
\* given back twice and none is lost.
THEOREM GateTypes == GateSpec => []GateTypeOK
  <1>1. GateInv => GateTypeOK
    BY DEF GateInv
  <1> QED
    BY <1>1, GateInvariant, PTL

\* A task inside gate.writer() is alone: "exclusivity against every in-flight
\* reader".
THEOREM WriterExclusion == GateSpec => []WriterIsExclusive
  <1>1. GateInv => WriterIsExclusive
    BY WriterExcludes
  <1> QED
    BY <1>1, GateInvariant, PTL

\* "Up to K readers run at once": never more are inside gate.reader().
THEOREM ReaderBound == GateSpec => []AtMostKReaders
  <1>1. GateInv => AtMostKReaders
    BY ReadersBounded
  <1> QED
    BY <1>1, GateInvariant, PTL

\* The semaphore and the lock of InferenceGate implement the reader/writer
\* contract of its docstring.
THEOREM GateRefines == GateSpec => ImplementsReaderWriter
  <1>1. GateInit => RW!RWInit
    BY DEF GateInit, RW!RWInit, Reading, Writing, Tasks
  <1>2. GateInv /\ [GateNext]_gateVars => [RW!RWNext]_(RW!rwVars)
    BY GateStepRefines
  <1> QED
    BY <1>1, <1>2, GateInvariant, PTL
       DEF GateSpec, ImplementsReaderWriter, RW!RWSpec
=============================================================================
