-------------------------- MODULE EnginePoolProofs ---------------------------
(***************************************************************************)
(* What EnginePool guarantees for any number of threads, engines, worker   *)
(* deaths and calls, and what its pools keep under the idle sweep of       *)
(* IdleUnload, whose steps are steps of the pool.                          *)
(***************************************************************************)
EXTENDS IdleUnload, FiniteSetTheorems, TLAPS

\* Two executors have died.
TwoDeaths == \E d, e \in broken : d # e

\* Some executor other than r's own has died.
AnotherDied(r) == \E d \in broken : d # rex[r]

\* An executor is current exactly when its key is known.
KeyedWhenLive == (ex = None) <=> (key = None)

\* What a registered run knows of its executor at each of its steps.
RunLocals(r) ==
    /\ rkey[r] \in Keys
    /\ ex # None => key = rkey[r]
    /\ rex[r] # None /\ ex # None => ex >= rex[r]
    /\ ex = None => TwoDeaths
    /\ pc[r] = "map" => rex[r] # None /\ rex[r] \in live \cup broken
    /\ pc[r] = "rebuild" => rex[r] # None /\ rex[r] \in broken
    /\ pc[r] = "retry" /\ rex[r] = None => TwoDeaths
    /\ pc[r] = "retry" /\ rex[r] # None =>
         rex[r] \in live \cup broken /\ AnotherDied(r)
    /\ pc[r] = "drop" => rex[r] # None /\ rex[r] \in broken /\ AnotherDied(r)
    /\ pc[r] = "exit" /\ outcome[r] = "broken" => 
         rex[r] # None /\ (ex = None \/ ex > rex[r])

\* A drained ensure knows what to build.
DrainersWant == \A r \in Runners : pc[r] = "drain" => want[r] \in Keys

RunsInv == \A r \in Registered : RunLocals(r)

\* The counter and the types together: each step of one needs the other.
CountInv == TypeOK /\ InflightExact

IInv ==
    /\ CountInv
    /\ NoLostWakeup
    /\ OneExecutor
    /\ KeyedWhenLive
    /\ DrainersWant
    /\ RunsInv
    /\ OneDeathIsSurvived

-----------------------------------------------------------------------------
(* The in-flight counter as a cardinality.                                 *)

\* Runners are finitely many, so the registered ones can be counted.
LEMMA RegisteredFinite == IsFiniteSet(Registered)
  BY FiniteThreads, FS_Subset DEF Registered

\* A drained pool has no registered run.
LEMMA DrainedMeansNobody ==
    ASSUME InflightExact, inflight = 0
    PROVE  Registered = {}
  BY RegisteredFinite, FS_EmptySet DEF InflightExact

\* A registered run is counted.
LEMMA RegisteredIsCounted ==
    ASSUME InflightExact, NEW r \in Registered
    PROVE  inflight \in Nat /\ inflight > 0
  BY RegisteredFinite, FS_EmptySet, FS_CardinalityType DEF InflightExact

\* Moving a thread among program points on one side of the registration
\* leaves the set alone.
LEMMA SameRegistered ==
    ASSUME TypeOK, NEW t \in Threads, NEW p \in PCs,
           pc' = [pc EXCEPT ![t] = p],
           t \in Admins \/ (pc[t] \in InRun <=> p \in InRun)
    PROVE  Registered' = Registered
  BY DisjointThreads DEF Registered, TypeOK, Threads, InRun, PCs

-----------------------------------------------------------------------------
(* Types and counter.                                                      *)

\* Nothing is built and nobody has called when the module is loaded.
LEMMA CountInit == Init => CountInv
  <1> SUFFICES ASSUME Init PROVE CountInv
    OBVIOUS
  <1>1. TypeOK
    BY DEF Init, TypeOK, PCs, Outcomes
  <1>2. Registered = {}
    BY DEF Init, Registered, InRun, Threads
  <1>3. InflightExact
    BY <1>2, FS_EmptySet DEF Init, InflightExact
  <1> QED
    BY <1>1, <1>3 DEF CountInv

\* A new executor has the next id: everything typed before stays typed.
LEMMA ReplaceTypes ==
    ASSUME TypeOK, NEW k \in Keys, ReplaceEx(k)
    PROVE  /\ built' \in Nat /\ built' = built + 1
           /\ ex' \in 1..built' /\ ex' \notin 1..built
           /\ key' = k /\ key' \in Keys
           /\ lastUsed' \in Nat
           /\ live' \subseteq 1..built'
           /\ broken' = broken /\ broken' \subseteq 1..built'
           /\ 1..built \subseteq 1..built'
  BY DEF TypeOK, ReplaceEx

\* So does going to sleep in the drain ...
LEMMA SleepTypes ==
    ASSUME TypeOK, NEW t \in Threads, SleepUntilDrained(t)
    PROVE  /\ waiting' \subseteq Threads /\ pc' \in [Threads -> PCs]
           /\ UNCHANGED <<built, ex, key, inflight, lastUsed, live, broken>>
  BY DEF TypeOK, SleepUntilDrained, exVars, PCs

\* ... building the executor asked for ...
LEMMA BuildTypes ==
    ASSUME TypeOK, NEW r \in Runners, NEW k \in Keys, BuildWanted(r, k)
    PROVE  /\ waiting' \subseteq Threads /\ inflight' \in Nat
           /\ pc' \in [Threads -> PCs]
           /\ ReplaceEx(k)
           /\ rex \in [Runners -> 1..built' \cup {None}]
  <1>1. ReplaceEx(k)
    BY DEF BuildWanted
  <1>2. rex \in [Runners -> 1..built' \cup {None}]
    <2>1. 1..built \subseteq 1..built'
      BY <1>1, ReplaceTypes
    <2>2. rex \in [Runners -> 1..built \cup {None}]
      BY DEF TypeOK
    <2> HIDE DEF ReplaceEx
    <2> QED
      BY <2>1, <2>2
  <1>3. waiting' \subseteq Threads /\ inflight' \in Nat /\ pc' \in [Threads -> PCs]
    BY DEF TypeOK, BuildWanted, PCs, Threads
  <1> QED
    BY <1>1, <1>2, <1>3

\* ... and tearing the current one down.
LEMMA TeardownTypes ==
    ASSUME TypeOK, NEW a \in Admins, Teardown(a)
    PROVE  /\ waiting' \subseteq Threads /\ inflight' \in Nat
           /\ pc' \in [Threads -> PCs]
           /\ built' = built /\ broken' = broken /\ live' \subseteq 1..built
           /\ ex' \in 1..built \cup {None} /\ key' \in Keys \cup {None}
           /\ lastUsed' \in Nat \cup {None}
  <1>1. a \in Threads
    BY DEF Threads
  <1>2. CASE SleepUntilDrained(a)
    BY <1>1, <1>2, SleepTypes DEF TypeOK
  <1>3. CASE inflight = 0 /\ ShutdownEx /\ pc' = [pc EXCEPT ![a] = "idle"]
               /\ UNCHANGED <<inflight, waiting>>
    BY <1>1, <1>3 DEF TypeOK, ShutdownEx, PCs
  <1> QED
    BY <1>2, <1>3 DEF Teardown

\* Ensure and EnsureWakes change the pool in one of these ways only.
LEMMA EnsureTypes ==
    ASSUME TypeOK, NEW r \in Runners, NEW k \in Keys,
           SleepUntilDrained(r) \/ BuildWanted(r, k)
    PROVE  /\ built' \in Nat
           /\ ex' \in 1..built' \cup {None}
           /\ key' \in Keys \cup {None}
           /\ inflight' \in Nat
           /\ lastUsed' \in Nat \cup {None}
           /\ waiting' \subseteq Threads
           /\ live' \subseteq 1..built'
           /\ broken' \subseteq 1..built'
           /\ pc' \in [Threads -> PCs]
           /\ rex \in [Runners -> 1..built' \cup {None}]
  <1>1. r \in Threads
    BY DEF Threads
  <1>2. CASE SleepUntilDrained(r)
    BY <1>1, <1>2, SleepTypes DEF TypeOK
  <1>3. CASE BuildWanted(r, k)
    BY <1>3, BuildTypes, ReplaceTypes
  <1> QED
    BY <1>2, <1>3

\* Every step keeps the types.
LEMMA TypeStep == IInv /\ [Next]_vars => TypeOK'
  <1> SUFFICES ASSUME IInv, [Next]_vars PROVE TypeOK'
    OBVIOUS
  <1> USE DEF Threads, PCs, InRun, Outcomes
  <1>0. TypeOK /\ InflightExact
    BY DEF IInv, CountInv
  <1>1. ASSUME NEW r \in Runners, NEW k \in Keys, Ensure(r, k) PROVE TypeOK'
    <2>1. /\ want' \in [Runners -> Keys \cup {None}]
          /\ calls' \in [Threads -> Nat]
          /\ rex' = rex /\ rkey' \in [Runners -> Keys \cup {None}]
          /\ outcome' \in [Runners -> Outcomes] /\ clock' \in Nat
      BY <1>0, <1>1 DEF Ensure, TypeOK, runVars
    <2>2. CASE pc' = [pc EXCEPT ![r] = "run"] /\ UNCHANGED <<poolVars, exVars>>
      BY <1>0, <2>1, <2>2 DEF TypeOK, poolVars, exVars
    <2>3. CASE SleepUntilDrained(r) \/ BuildWanted(r, k)
      <3> HIDE DEF PCs, Threads, Outcomes
      <3>1. rex \in [Runners -> 1..built' \cup {None}] 
        BY <1>0, <2>3, EnsureTypes
      <3> QED
        BY <1>0, <2>1, <2>3, <3>1, EnsureTypes DEF TypeOK
    <2> QED
      BY <1>1, <2>2, <2>3 DEF Ensure
  <1>2. ASSUME NEW r \in Runners, EnsureWakes(r) PROVE TypeOK'
    <2> HIDE DEF PCs, Threads, Outcomes
    <2>1. want[r] \in Keys
      BY <1>2 DEF EnsureWakes, IInv, DrainersWant
    <2>2. SleepUntilDrained(r) \/ BuildWanted(r, want[r])
      BY <1>2 DEF EnsureWakes
    <2>3. UNCHANGED <<want, runVars, outcome, calls, clock>>
      BY <1>2 DEF EnsureWakes
    <2> QED
      BY <1>0, <2>1, <2>2, <2>3, EnsureTypes DEF TypeOK, runVars
  <1>3. ASSUME NEW r \in Runners, RunStarts(r) PROVE TypeOK'
    BY <1>0, <1>3 DEF TypeOK, RunStarts, exVars
  <1>4. ASSUME NEW r \in Runners, RunFindsNoPool(r) PROVE TypeOK'
    BY <1>0, <1>4 DEF TypeOK, RunFindsNoPool, poolVars, exVars, runVars
  <1>5. ASSUME NEW r \in Runners, MapReturns(r) PROVE TypeOK'
    BY <1>0, <1>5 DEF TypeOK, MapReturns, poolVars, exVars, runVars
  <1>6. ASSUME NEW r \in Runners, MapBreaks(r) PROVE TypeOK'
    BY <1>0, <1>6 DEF TypeOK, MapBreaks, poolVars, exVars, runVars
  <1>7. ASSUME NEW r \in Runners, RebuildBroken(r) PROVE TypeOK'
    <2>1. CASE ex = rex[r] /\ ReplaceEx(rkey[r])
      <3> HIDE DEF PCs, Threads, Outcomes
      <3>1. rkey[r] \in Keys
        BY <1>7 DEF RebuildBroken, IInv, RunsInv, RunLocals, Registered
      <3>2. rex' \in [Runners -> 1..built' \cup {None}]
        <4>1. 1..built \subseteq 1..built' /\ ex' \in 1..built'
          BY <1>0, <2>1, <3>1, ReplaceTypes
        <4>2. rex' = [rex EXCEPT ![r] = ex'] /\ rex \in [Runners -> 1..built \cup {None}]
          BY <1>0, <1>7 DEF RebuildBroken, TypeOK
        <4> QED
          BY <4>1, <4>2
      <3> QED
        <4>1. /\ inflight' = inflight /\ waiting' = waiting /\ want' = want
              /\ rkey' = rkey /\ outcome' = outcome /\ calls' = calls /\ clock' = clock
              /\ pc' \in [Threads -> PCs]
          BY <1>0, <1>7 DEF RebuildBroken, TypeOK, PCs
        <4> QED
          BY <1>0, <4>1, <2>1, <3>1, <3>2, ReplaceTypes DEF TypeOK
    <2>2. CASE UNCHANGED <<ex, key, lastUsed, exVars>>
      BY <1>0, <1>7, <2>2 DEF TypeOK, RebuildBroken, exVars
    <2> QED
      BY <1>7, <2>1, <2>2 DEF RebuildBroken
  <1>8. ASSUME NEW r \in Runners, RetryFindsNoPool(r) PROVE TypeOK'
    BY <1>0, <1>8 DEF TypeOK, RetryFindsNoPool, poolVars, exVars, runVars
  <1>9. ASSUME NEW r \in Runners, DropIfCurrent(r) PROVE TypeOK'
    BY <1>0, <1>9 DEF TypeOK, DropIfCurrent, ShutdownEx, exVars, runVars
  <1>10. ASSUME NEW r \in Runners, RunExits(r) PROVE TypeOK'
    <2>1. r \in Registered
      BY <1>10 DEF RunExits, Registered
    <2>2. inflight' \in Nat
      BY <2>1, <1>0, <1>10, RegisteredIsCounted DEF RunExits
    <2> QED
      BY <2>2, <1>0, <1>10 DEF TypeOK, RunExits, exVars, runVars
  <1>11. ASSUME NEW a \in Admins, AdminCalls(a) PROVE TypeOK'
    <2>1. CASE Teardown(a)
      <3>1. UNCHANGED <<want, runVars, outcome, clock>> /\ calls' \in [Threads -> Nat]
        BY <1>0, <1>11 DEF AdminCalls, Invalidate, Shutdown, TypeOK
      <3> HIDE DEF PCs, Threads, Outcomes
      <3> QED
        BY <1>0, <2>1, <3>1, TeardownTypes DEF TypeOK, runVars
    <2>2. CASE UNCHANGED <<pc, poolVars, exVars>>
      BY <1>0, <1>11, <2>2 DEF TypeOK, AdminCalls, Invalidate, Shutdown, poolVars, exVars, runVars
    <2> QED
      BY <1>11, <2>1, <2>2 DEF AdminCalls, Invalidate, Shutdown
  <1>12. ASSUME NEW a \in Admins, TeardownWakes(a) PROVE TypeOK'
    <2>1. Teardown(a) /\ UNCHANGED <<want, runVars, outcome, calls, clock>>
      BY <1>12 DEF TeardownWakes
    <2> HIDE DEF PCs, Threads, Outcomes
    <2> QED
      BY <1>0, <2>1, TeardownTypes DEF TypeOK, runVars
  <1>13. ASSUME NEW e \in live, WorkerDies(e) PROVE TypeOK'
    BY <1>0, <1>13 DEF TypeOK, WorkerDies, poolVars, runVars
  <1>14. CASE Tick
    BY <1>0, <1>14 DEF TypeOK, Tick, poolVars, exVars, runVars
  <1>15. CASE UNCHANGED vars
    BY <1>0, <1>15 DEF TypeOK, vars
  <1> QED
    BY <1>1, <1>2, <1>3, <1>4, <1>5, <1>6, <1>7, <1>8, <1>9, <1>10, <1>11, <1>12,
       <1>13, <1>14, <1>15 DEF Next, RunnerContinues, Finished

\* Nobody registers or leaves, and the counter stands.
LEMMA CountKept ==
    ASSUME InflightExact, inflight' = inflight, Registered' = Registered
    PROVE  InflightExact'
  BY DEF InflightExact

\* Every step keeps the counter equal to the number of registered runs.
LEMMA CountStep == IInv /\ [Next]_vars => InflightExact'
  <1> SUFFICES ASSUME IInv, [Next]_vars PROVE InflightExact'
    OBVIOUS
  <1>0. TypeOK /\ InflightExact
    BY DEF IInv, CountInv
  <1> USE DEF PCs, InRun
  <1>1. ASSUME NEW r \in Runners, NEW k \in Keys, Ensure(r, k) PROVE InflightExact'
    <2>1. inflight' = inflight
      BY <1>1 DEF Ensure, SleepUntilDrained, BuildWanted, poolVars
    <2>2. Registered' = Registered
      BY <1>0, <1>1, SameRegistered
         DEF Ensure, SleepUntilDrained, BuildWanted, Threads
    <2> QED
      BY <1>0, <2>1, <2>2, CountKept
  <1>2. ASSUME NEW r \in Runners, EnsureWakes(r) PROVE InflightExact'
    <2>1. inflight' = inflight
      BY <1>2 DEF EnsureWakes, SleepUntilDrained, BuildWanted
    <2>2. Registered' = Registered
      BY <1>0, <1>2, SameRegistered
         DEF EnsureWakes, SleepUntilDrained, BuildWanted, Threads
    <2> QED
      BY <1>0, <2>1, <2>2, CountKept
  <1>3. ASSUME NEW r \in Runners, RunStarts(r) PROVE InflightExact'
    <2>1. r \notin Registered /\ Registered' = Registered \cup {r}
      BY <1>0, <1>3 DEF RunStarts, Registered, TypeOK, Threads
    <2>2. Cardinality(Registered') = Cardinality(Registered) + 1
      BY <2>1, RegisteredFinite, FS_AddElement
    <2> QED
      BY <1>0, <1>3, <2>2 DEF RunStarts, InflightExact
  <1>4. ASSUME NEW r \in Runners,
               \/ RunFindsNoPool(r) \/ MapReturns(r) \/ MapBreaks(r)
               \/ RebuildBroken(r) \/ RetryFindsNoPool(r) \/ DropIfCurrent(r)
        PROVE  InflightExact'
    <2>1. inflight' = inflight
      BY <1>4 DEF RunFindsNoPool, MapReturns, MapBreaks, RebuildBroken,
                  RetryFindsNoPool, DropIfCurrent, poolVars
    <2>2. Registered' = Registered
      BY <1>0, <1>4, SameRegistered
         DEF RunFindsNoPool, MapReturns, MapBreaks, RebuildBroken, RetryFindsNoPool,
             DropIfCurrent, Threads
    <2> QED
      BY <1>0, <2>1, <2>2, CountKept
  <1>5. ASSUME NEW r \in Runners, RunExits(r) PROVE InflightExact'
    <2>1. r \in Registered /\ Registered' = Registered \ {r}
      BY <1>0, <1>5 DEF RunExits, Registered, TypeOK, Threads
    <2>2. Cardinality(Registered') = Cardinality(Registered) - 1
      BY <2>1, RegisteredFinite, FS_RemoveElement
    <2> QED
      BY <1>0, <1>5, <2>2 DEF RunExits, InflightExact
  <1>6. ASSUME NEW a \in Admins, AdminCalls(a) \/ TeardownWakes(a)
        PROVE  InflightExact'
    <2>1. inflight' = inflight
      BY <1>6 DEF AdminCalls, Invalidate, Shutdown, TeardownWakes, Teardown,
                  SleepUntilDrained, poolVars
    <2>2. Registered' = Registered
      BY <1>0, <1>6, SameRegistered
         DEF AdminCalls, Invalidate, Shutdown, TeardownWakes, Teardown,
             SleepUntilDrained, Threads, Registered
    <2> QED
      BY <1>0, <2>1, <2>2, CountKept
  <1>7. CASE (\E e \in live : WorkerDies(e)) \/ Tick \/ UNCHANGED vars
    BY <1>0, <1>7, CountKept DEF WorkerDies, Tick, vars, poolVars, Registered
  <1> QED
    BY <1>1, <1>2, <1>3, <1>4, <1>5, <1>6, <1>7 DEF Next, RunnerContinues, Finished

-----------------------------------------------------------------------------
(* Wakeups, executors and keys.                                            *)

\* Nobody is left asleep by a step that empties the counter.
LEMMA WakeupStep == IInv /\ [Next]_vars => NoLostWakeup'
  <1> SUFFICES ASSUME IInv, [Next]_vars PROVE NoLostWakeup'
    OBVIOUS
  <1>0. inflight \in Nat /\ NoLostWakeup
    BY DEF IInv, CountInv, TypeOK
  <1> USE DEF NoLostWakeup, poolVars
  <1>1. ASSUME NEW r \in Runners, NEW k \in Keys, Ensure(r, k) PROVE NoLostWakeup'
    BY <1>0, <1>1 DEF Ensure, SleepUntilDrained, BuildWanted
  <1>2. ASSUME NEW r \in Runners, RunnerContinues(r) PROVE NoLostWakeup'
    BY <1>0, <1>2 DEF RunnerContinues, EnsureWakes, SleepUntilDrained, BuildWanted,
         RunStarts, RunFindsNoPool, MapReturns, MapBreaks, RebuildBroken,
         RetryFindsNoPool, DropIfCurrent, RunExits
  <1>3. ASSUME NEW a \in Admins, AdminCalls(a) \/ TeardownWakes(a) PROVE NoLostWakeup'
    BY <1>0, <1>3 DEF AdminCalls, Invalidate, Shutdown, TeardownWakes, Teardown,
                      SleepUntilDrained
  <1>4. CASE (\E e \in live : WorkerDies(e)) \/ Tick \/ UNCHANGED vars
    BY <1>0, <1>4 DEF WorkerDies, Tick, vars
  <1> QED
    BY <1>1, <1>2, <1>3, <1>4 DEF Next, Finished

\* Executors and keys that match stay matched when one is replaced ...
LEMMA ReplaceKeepsOne ==
    ASSUME TypeOK, OneExecutor, NEW k \in Keys, ReplaceEx(k)
    PROVE  OneExecutor' /\ KeyedWhenLive'
  BY NoneIsNoValue DEF TypeOK, OneExecutor, KeyedWhenLive, ReplaceEx

\* ... and when one is shut down.
LEMMA ShutdownKeepsOne ==
    ASSUME OneExecutor, KeyedWhenLive, ShutdownEx
    PROVE  OneExecutor' /\ KeyedWhenLive'
  BY DEF OneExecutor, KeyedWhenLive, ShutdownEx

\* Every step keeps the current executor the only live one.
LEMMA ExecutorStep == IInv /\ [Next]_vars => OneExecutor' /\ KeyedWhenLive'
  <1> SUFFICES ASSUME IInv, [Next]_vars PROVE OneExecutor' /\ KeyedWhenLive'
    OBVIOUS
  <1>0. TypeOK /\ OneExecutor /\ KeyedWhenLive
    BY DEF IInv, CountInv
  <1>1. CASE UNCHANGED <<ex, key, live>>
    BY <1>0, <1>1 DEF OneExecutor, KeyedWhenLive
  <1>2. ASSUME NEW r \in Runners, NEW k \in Keys, Ensure(r, k)
        PROVE  OneExecutor' /\ KeyedWhenLive'
    BY <1>0, <1>1, <1>2, ReplaceKeepsOne
       DEF Ensure, SleepUntilDrained, BuildWanted, poolVars, exVars
  <1>3. ASSUME NEW r \in Runners, EnsureWakes(r)
        PROVE  OneExecutor' /\ KeyedWhenLive'
    <2>1. want[r] \in Keys
      BY <1>3 DEF IInv, DrainersWant, EnsureWakes
    <2> QED
      BY <1>0, <1>1, <1>3, <2>1, ReplaceKeepsOne
         DEF EnsureWakes, SleepUntilDrained, BuildWanted, exVars
  <1>4. ASSUME NEW r \in Runners, RebuildBroken(r)
        PROVE  OneExecutor' /\ KeyedWhenLive'
    <2>1. rkey[r] \in Keys
      BY <1>4 DEF RebuildBroken, IInv, RunsInv, RunLocals, Registered, InRun
    <2> QED
      BY <1>0, <1>1, <1>4, <2>1, ReplaceKeepsOne DEF RebuildBroken, exVars
  <1>5. ASSUME NEW r \in Runners, DropIfCurrent(r)
        PROVE  OneExecutor' /\ KeyedWhenLive'
    BY <1>0, <1>1, <1>5, ShutdownKeepsOne DEF DropIfCurrent, exVars
  <1>6. ASSUME NEW a \in Admins, AdminCalls(a) \/ TeardownWakes(a)
        PROVE  OneExecutor' /\ KeyedWhenLive'
    BY <1>0, <1>1, <1>6, ShutdownKeepsOne
       DEF AdminCalls, Invalidate, Shutdown, TeardownWakes, Teardown,
           SleepUntilDrained, poolVars, exVars
  <1>7. ASSUME NEW r \in Runners,
               \/ RunStarts(r) \/ RunFindsNoPool(r) \/ MapReturns(r)
               \/ MapBreaks(r) \/ RetryFindsNoPool(r) \/ RunExits(r)
        PROVE  OneExecutor' /\ KeyedWhenLive'
    BY <1>1, <1>7 DEF RunStarts, RunFindsNoPool, MapReturns, MapBreaks,
                      RetryFindsNoPool, RunExits, poolVars, exVars
  <1>8. CASE (\E e \in live : WorkerDies(e)) \/ Tick \/ UNCHANGED vars
    BY <1>1, <1>8 DEF WorkerDies, Tick, vars, poolVars, exVars
  <1> QED
    BY <1>2, <1>3, <1>4, <1>5, <1>6, <1>7, <1>8 DEF Next, RunnerContinues, Finished

-----------------------------------------------------------------------------
(* What registered runs rely on.                                           *)

\* A thread asleep inside ensure keeps the key it was called with.
LEMMA WantStep == IInv /\ [Next]_vars => DrainersWant'
  <1> SUFFICES ASSUME IInv, [Next]_vars PROVE DrainersWant'
    OBVIOUS
  <1>0. TypeOK /\ DrainersWant
    BY DEF IInv, CountInv
  <1> USE DEF DrainersWant, TypeOK, Threads
  <1>1. ASSUME NEW r \in Runners, NEW k \in Keys, Ensure(r, k) PROVE DrainersWant'
    BY <1>0, <1>1 DEF Ensure, SleepUntilDrained, BuildWanted
  <1>2. ASSUME NEW r \in Runners, RunnerContinues(r) PROVE DrainersWant'
    BY <1>0, <1>2 DEF RunnerContinues, EnsureWakes, SleepUntilDrained, BuildWanted,
         RunStarts, RunFindsNoPool, MapReturns, MapBreaks, RebuildBroken,
         RetryFindsNoPool, DropIfCurrent, RunExits
  <1>3. ASSUME NEW a \in Admins, AdminCalls(a) \/ TeardownWakes(a) PROVE DrainersWant'
    BY <1>0, <1>3, DisjointThreads
       DEF AdminCalls, Invalidate, Shutdown, TeardownWakes, Teardown, SleepUntilDrained
  <1>4. CASE (\E e \in live : WorkerDies(e)) \/ Tick \/ UNCHANGED vars
    BY <1>0, <1>4 DEF WorkerDies, Tick, vars
  <1> QED
    BY <1>1, <1>2, <1>3, <1>4 DEF Next, Finished

\* RunLocals looks at the pool and at one runner's locals only.
LEMMA LocalsKept ==
    ASSUME NEW s \in Runners, RunLocals(s),
           UNCHANGED <<ex, key, live, broken>>,
           pc'[s] = pc[s], rex'[s] = rex[s], rkey'[s] = rkey[s],
           outcome'[s] = outcome[s]
    PROVE  RunLocals(s)'
  BY DEF RunLocals, TwoDeaths, AnotherDied

\* Another run's rebuild: s had the executor that broke, or an older one.
LEMMA LocalsOverRebuild ==
    ASSUME IInv, NEW r \in Registered, NEW s \in Registered, RunLocals(s),
           pc[r] = "rebuild", ex = rex[r], ReplaceEx(rkey[r]),
           pc'[s] = pc[s], rex'[s] = rex[s], rkey'[s] = rkey[s],
           outcome'[s] = outcome[s]
    PROVE  RunLocals(s)'
  <1>1. /\ RunLocals(r) /\ rkey[r] = key /\ ex \in broken /\ ex # None /\ ex \in 1..built
        /\ rkey[s] = key
    BY DEF IInv, CountInv, RunsInv, RunLocals, Registered, TypeOK
  <1>2. /\ ex' = built + 1 /\ ex' # None /\ key' = key /\ broken' = broken
        /\ live' = {ex'}
    BY <1>1, NoneIsNoValue DEF ReplaceEx, IInv, OneExecutor, CountInv, TypeOK
  <1>3. rex[s] # None => rex[s] \in 1..built
    BY DEF IInv, CountInv, TypeOK, Registered
  <1>4. rex[s] \in live => rex[s] \in broken
    BY <1>1 DEF IInv, OneExecutor
  <1>5. built \in Nat
    BY DEF IInv, CountInv, TypeOK
  <1>6. (rex[s] # None /\ ex' # None => ex' > rex[s])
    BY <1>2, <1>3, <1>5
  <1> QED
    BY <1>1, <1>2, <1>3, <1>4, <1>5, <1>6 DEF RunLocals, TwoDeaths, AnotherDied

\* Another run's drop: two executors have died by then.
LEMMA LocalsOverDrop ==
    ASSUME IInv, NEW r \in Registered, NEW s \in Registered, RunLocals(s),
           pc[r] = "drop", ex = rex[r], ShutdownEx,
           pc'[s] = pc[s], rex'[s] = rex[s], rkey'[s] = rkey[s],
           outcome'[s] = outcome[s]
    PROVE  RunLocals(s)'
  <1>1. ex \in broken /\ ex # None /\ TwoDeaths
    BY DEF IInv, RunsInv, RunLocals, AnotherDied, TwoDeaths
  <1>2. ex' = None /\ live' = {} /\ broken' = broken
    BY <1>1 DEF ShutdownEx, IInv, OneExecutor
  <1>3. rex[s] \in live => rex[s] \in broken
    BY <1>1 DEF IInv, OneExecutor
  <1> QED
    BY <1>1, <1>2, <1>3 DEF RunLocals, TwoDeaths, AnotherDied

\* A pool that changes while nobody is registered changes under no run.
LEMMA LocalsOverDrained ==
    ASSUME IInv, inflight = 0, Registered' = Registered
    PROVE  RunsInv'
  <1>1. Registered = {}
    BY DrainedMeansNobody DEF IInv, CountInv
  <1> QED
    BY <1>1 DEF RunsInv

\* A step of a thread that is not registered and leaves the pool alone.
LEMMA LocalsOfOthers ==
    ASSUME IInv, UNCHANGED <<ex, key, live, broken, rex, rkey, outcome>>,
           \A s \in Runners : s \in Registered' => s \in Registered /\ pc'[s] = pc[s]
    PROVE  RunsInv'
  <1> SUFFICES ASSUME NEW s \in Registered' PROVE RunLocals(s)'
    BY DEF RunsInv
  <1>1. s \in Registered /\ s \in Runners /\ pc'[s] = pc[s] /\ RunLocals(s)
    BY DEF Registered, IInv, RunsInv
  <1> QED
    BY <1>1, LocalsKept

\* Every step keeps what the registered runs know about the pool.
LEMMA RunsStep == IInv /\ [Next]_vars => RunsInv'
  <1> SUFFICES ASSUME IInv, [Next]_vars PROVE RunsInv'
    OBVIOUS
  <1>0. TypeOK /\ RunsInv /\ KeyedWhenLive
    BY DEF IInv, CountInv
  <1>t. /\ pc \in [Threads -> PCs] /\ rex \in [Runners -> 1..built \cup {None}]
        /\ rkey \in [Runners -> Keys \cup {None}] /\ outcome \in [Runners -> Outcomes]
        /\ Runners \subseteq Threads
        /\ built \in Nat /\ ex \in 1..built \cup {None} /\ key \in Keys \cup {None}
        /\ broken \subseteq 1..built
    BY <1>0 DEF TypeOK, Threads
  <1>1. ASSUME NEW r \in Runners, NEW k \in Keys, Ensure(r, k) PROVE RunsInv'
    <2>1. Registered' = Registered /\ r \notin Registered /\ r \notin Registered'
      BY <1>t, <1>1 DEF Ensure, SleepUntilDrained, BuildWanted, Registered, InRun
    <2>2. CASE BuildWanted(r, k)
      BY <2>1, <2>2, LocalsOverDrained DEF BuildWanted
    <2>3. CASE UNCHANGED <<ex, key, live, broken>>
      <3>1. UNCHANGED <<rex, rkey, outcome>>
        BY <1>1 DEF Ensure, runVars
      <3>2. \A s \in Runners : s # r => pc'[s] = pc[s]
        BY <1>t, <1>1 DEF Ensure, SleepUntilDrained, BuildWanted
      <3> QED
        BY <2>1, <2>3, <3>1, <3>2, LocalsOfOthers
    <2> QED
      BY <1>1, <2>2, <2>3 DEF Ensure, SleepUntilDrained, poolVars, exVars
  <1>2. ASSUME NEW r \in Runners, EnsureWakes(r) PROVE RunsInv'
    <2>1. Registered' = Registered /\ r \notin Registered /\ r \notin Registered'
      BY <1>t, <1>2 DEF EnsureWakes, SleepUntilDrained, BuildWanted, Registered, InRun
    <2>2. CASE BuildWanted(r, want[r])
      BY <2>1, <2>2, LocalsOverDrained DEF BuildWanted
    <2>3. CASE SleepUntilDrained(r)
      <3>1. UNCHANGED <<ex, key, live, broken, rex, rkey, outcome>>
        BY <1>2, <2>3 DEF EnsureWakes, SleepUntilDrained, runVars, exVars
      <3>2. \A s \in Runners : s # r => pc'[s] = pc[s]
        BY <1>t, <2>3 DEF SleepUntilDrained
      <3> QED
        BY <2>1, <3>1, <3>2, LocalsOfOthers
    <2> QED
      BY <1>2, <2>2, <2>3 DEF EnsureWakes
  <1>3. ASSUME NEW r \in Runners, RunStarts(r) PROVE RunsInv'
    <2> SUFFICES ASSUME NEW s \in Registered' PROVE RunLocals(s)'
      BY DEF RunsInv
    <2>1. CASE s = r
      <3>1. /\ ex # None /\ key \in Keys /\ ex \in live /\ ex \in 1..built
            /\ UNCHANGED <<ex, key, live, broken>>
            /\ pc'[r] = "map" /\ rex'[r] = ex /\ rkey'[r] = key
        BY <1>t, <1>0, <1>3 DEF RunStarts, exVars, IInv, OneExecutor, KeyedWhenLive
      <3> QED
        BY <2>1, <3>1 DEF RunLocals
    <2>2. CASE s # r
      <3>1. s \in Registered /\ s \in Runners
        BY <1>t, <1>3, <2>2 DEF RunStarts, Registered
      <3>2. /\ UNCHANGED <<ex, key, live, broken>>
            /\ pc'[s] = pc[s] /\ rex'[s] = rex[s] /\ rkey'[s] = rkey[s]
            /\ outcome'[s] = outcome[s]
        BY <1>t, <1>3, <2>2, <3>1 DEF RunStarts, exVars
      <3> QED
        BY <1>0, <3>1, <3>2, LocalsKept DEF RunsInv
    <2> QED
      BY <2>1, <2>2
  <1>4. ASSUME NEW r \in Runners, RunFindsNoPool(r) PROVE RunsInv'
    <2>1. UNCHANGED <<ex, key, live, broken, rex, rkey>>
      BY <1>4 DEF RunFindsNoPool, poolVars, exVars, runVars
    <2> SUFFICES ASSUME NEW s \in Registered' PROVE RunLocals(s)'
      BY DEF RunsInv
    <2>2. s \in Registered /\ s \in Runners /\ s # r
      BY <1>t, <1>4 DEF RunFindsNoPool, Registered, InRun
    <2>3. pc'[s] = pc[s] /\ outcome'[s] = outcome[s]
      BY <1>t, <1>4, <2>2 DEF RunFindsNoPool
    <2> QED
      BY <1>0, <2>1, <2>2, <2>3, LocalsKept DEF RunsInv
  <1>5. ASSUME NEW r \in Runners,
               MapReturns(r) \/ MapBreaks(r) \/ RetryFindsNoPool(r)
        PROVE  RunsInv'
    <2>1. UNCHANGED <<ex, key, live, broken, rex, rkey>>
      BY <1>5 DEF MapReturns, MapBreaks, RetryFindsNoPool, poolVars, exVars, runVars
    <2>2. r \in Registered
      BY <1>5 DEF MapReturns, MapBreaks, RetryFindsNoPool, Registered, InRun
    <2> SUFFICES ASSUME NEW s \in Registered' PROVE RunLocals(s)'
      BY DEF RunsInv
    <2>3. s \in Registered /\ s \in Runners /\ RunLocals(s)
      BY <1>0, <1>t, <1>5, <2>2
         DEF MapReturns, MapBreaks, RetryFindsNoPool, Registered, RunsInv
    <2>4. CASE s = r
      <3>1. CASE MapReturns(r)
        <4>1. pc'[r] = "exit" /\ outcome'[r] # "broken"
          BY <1>t, <3>1 DEF MapReturns
        <4> QED
          BY <2>1, <2>3, <2>4, <4>1 DEF RunLocals, TwoDeaths, AnotherDied
      <3>2. CASE MapBreaks(r)
        <4>1. rex[r] \in broken /\ rex[r] # None
          <5>1. rex[r] \in broken
            BY <3>2 DEF MapBreaks
          <5>2. rex[r] \in Nat
            <6>1. \A i \in broken : i \in 1..built
              BY <1>t
            <6>2. \A i \in 1..built : i \in Nat
              OBVIOUS
            <6> QED
              BY <5>1, <6>1, <6>2
          <5> QED
            BY <5>1, <5>2, NoneIsNoValue
        <4>2. \/ pc[r] = "map" /\ pc'[r] = "rebuild"
              \/ pc[r] = "retry" /\ pc'[r] = "drop"
          BY <1>t, <3>2 DEF MapBreaks
        <4> QED
          BY <2>1, <2>3, <2>4, <4>1, <4>2 DEF RunLocals, TwoDeaths, AnotherDied
      <3>3. CASE RetryFindsNoPool(r)
        <4>1. pc'[r] = "exit" /\ outcome'[r] # "broken"
          BY <1>t, <3>3 DEF RetryFindsNoPool
        <4> QED
          BY <2>1, <2>3, <2>4, <4>1 DEF RunLocals, TwoDeaths, AnotherDied
      <3> QED
        BY <1>5, <3>1, <3>2, <3>3
    <2>5. CASE s # r
      <3>1. pc'[s] = pc[s] /\ outcome'[s] = outcome[s]
        BY <1>t, <1>5, <2>3, <2>5 DEF MapReturns, MapBreaks, RetryFindsNoPool
      <3> QED
        BY <2>1, <2>3, <3>1, LocalsKept
    <2> QED
      BY <2>4, <2>5
  <1>6. ASSUME NEW r \in Runners, RebuildBroken(r) PROVE RunsInv'
    <2>1. r \in Registered /\ pc[r] = "rebuild" /\ pc'[r] = "retry"
          /\ rkey' = rkey /\ outcome' = outcome /\ rex'[r] = ex'
      BY <1>t, <1>6 DEF RebuildBroken, Registered, InRun
    <2> SUFFICES ASSUME NEW s \in Registered' PROVE RunLocals(s)'
      BY DEF RunsInv
    <2>2. s \in Registered /\ s \in Runners /\ RunLocals(s) /\ RunLocals(r)
      BY <1>0, <1>t, <1>6, <2>1 DEF RebuildBroken, Registered, RunsInv
    <2>3. s # r => pc'[s] = pc[s] /\ rex'[s] = rex[s]
      BY <1>t, <1>6, <2>2 DEF RebuildBroken
    <2>4. CASE ex = rex[r] /\ ReplaceEx(rkey[r])
      <3>1. CASE s = r
        <4>1. /\ ex \in broken /\ ex # None /\ ex \in 1..built /\ rkey[r] \in Keys
          BY <2>1, <2>2, <2>4, <1>t DEF RunLocals
        <4>2. /\ ex' = built + 1 /\ ex' # None /\ key' = rkey[r] /\ broken' = broken
              /\ ex' \in live' /\ ex # ex'
          BY <1>t, <2>4, <4>1, NoneIsNoValue DEF ReplaceEx
        <4> QED
          BY <1>t, <2>1, <3>1, <4>1, <4>2 DEF RunLocals, TwoDeaths, AnotherDied
      <3>2. CASE s # r
        BY <2>1, <2>2, <2>3, <2>4, <3>2, LocalsOverRebuild
      <3> QED
        BY <3>1, <3>2
    <2>5. CASE ex # rex[r] /\ UNCHANGED <<ex, key, lastUsed, exVars>>
      <3>1. UNCHANGED <<ex, key, live, broken>>
        BY <2>5 DEF exVars
      <3>2. CASE s = r
        <4>1. ex # None => ex \in live
          BY DEF IInv, OneExecutor
        <4>2. rex[r] \in broken /\ rex[r] # ex
          BY <2>1, <2>2, <2>5 DEF RunLocals
        <4> QED
          BY <1>t, <2>1, <2>2, <3>1, <3>2, <4>1, <4>2
             DEF RunLocals, TwoDeaths, AnotherDied
      <3>3. CASE s # r
        BY <2>1, <2>2, <2>3, <3>1, <3>3, LocalsKept
      <3> QED
        BY <3>2, <3>3
    <2> QED
      BY <1>6, <2>4, <2>5 DEF RebuildBroken
  <1>7. ASSUME NEW r \in Runners, DropIfCurrent(r) PROVE RunsInv'
    <2>1. r \in Registered /\ pc[r] = "drop" /\ pc'[r] = "exit"
          /\ rkey' = rkey /\ rex' = rex
      BY <1>t, <1>7 DEF DropIfCurrent, Registered, InRun, runVars
    <2> SUFFICES ASSUME NEW s \in Registered' PROVE RunLocals(s)'
      BY DEF RunsInv
    <2>2. s \in Registered /\ s \in Runners /\ RunLocals(s) /\ RunLocals(r)
      BY <1>0, <1>t, <1>7, <2>1 DEF DropIfCurrent, Registered, RunsInv
    <2>3. s # r => pc'[s] = pc[s] /\ outcome'[s] = outcome[s]
      BY <1>t, <1>7, <2>2 DEF DropIfCurrent
    <2>4. CASE ex = rex[r] /\ ShutdownEx
      <3>1. CASE s = r
        <4>1. ex' = None /\ broken' = broken
          BY <2>4 DEF ShutdownEx
        <4> QED
          BY <2>1, <2>2, <3>1, <4>1 DEF RunLocals, TwoDeaths, AnotherDied
      <3>2. CASE s # r
        BY <2>1, <2>2, <2>3, <2>4, <3>2, LocalsOverDrop
      <3> QED
        BY <3>1, <3>2
    <2>5. CASE ex # rex[r] /\ UNCHANGED <<ex, key, lastUsed, exVars>>
      <3>1. UNCHANGED <<ex, key, live, broken>>
        BY <2>5 DEF exVars
      <3>2. CASE s = r
        <4>1. rex[r] # None /\ (ex = None \/ ex > rex[r])
          BY <1>t, <2>1, <2>2, <2>5 DEF RunLocals
        <4> QED
          BY <2>1, <2>2, <3>1, <3>2, <4>1 DEF RunLocals, TwoDeaths, AnotherDied
      <3>3. CASE s # r
        BY <2>1, <2>2, <2>3, <3>1, <3>3, LocalsKept
      <3> QED
        BY <3>2, <3>3
    <2> QED
      BY <1>7, <2>4, <2>5 DEF DropIfCurrent
  <1>8. ASSUME NEW r \in Runners, RunExits(r) PROVE RunsInv'
    <2>1. UNCHANGED <<ex, key, live, broken, rex, rkey, outcome>>
      BY <1>8 DEF RunExits, exVars, runVars
    <2>2. \A s \in Runners : s \in Registered' => s \in Registered /\ pc'[s] = pc[s]
      BY <1>t, <1>8 DEF RunExits, Registered, InRun
    <2> QED
      BY <2>1, <2>2, LocalsOfOthers
  <1>9. ASSUME NEW a \in Admins, AdminCalls(a) \/ TeardownWakes(a) PROVE RunsInv'
    <2>1. \A s \in Runners : pc'[s] = pc[s]
      BY <1>t, <1>9, DisjointThreads
         DEF AdminCalls, Invalidate, Shutdown, TeardownWakes, Teardown, SleepUntilDrained
    <2>2. Registered' = Registered
      BY <2>1 DEF Registered
    <2>3. UNCHANGED <<rex, rkey, outcome>>
      BY <1>9 DEF AdminCalls, Invalidate, Shutdown, TeardownWakes, runVars
    <2>4. inflight = 0 \/ UNCHANGED <<ex, key, live, broken>>
      BY <1>9 DEF AdminCalls, Invalidate, Shutdown, TeardownWakes, Teardown,
                  SleepUntilDrained, poolVars, exVars
    <2> QED
      BY <2>1, <2>2, <2>3, <2>4, LocalsOverDrained, LocalsOfOthers
  <1>10. ASSUME NEW e \in live, WorkerDies(e) PROVE RunsInv'
    <2>1. /\ UNCHANGED <<ex, key, live, rex, rkey, outcome, pc>>
          /\ broken \subseteq broken'
      BY <1>10 DEF WorkerDies, poolVars, runVars
    <2>2. Registered' = Registered
      BY <2>1 DEF Registered
    <2> QED
      BY <1>0, <2>1, <2>2 DEF RunsInv, RunLocals, TwoDeaths, AnotherDied
  <1>11. CASE Tick \/ UNCHANGED vars
    <2>1. UNCHANGED <<ex, key, live, broken, rex, rkey, outcome, pc>>
      BY <1>11 DEF Tick, vars, poolVars, exVars, runVars
    <2> QED
      BY <2>1, LocalsOfOthers DEF Registered
  <1> QED
    BY <1>1, <1>2, <1>3, <1>4, <1>5, <1>6, <1>7, <1>8, <1>9, <1>10, <1>11
       DEF Next, RunnerContinues, Finished

-----------------------------------------------------------------------------
(* Survival of one death, and the theorems.                                *)

\* No step fails a request before a second executor has broken.
LEMMA SurvivalStep == IInv /\ [Next]_vars => OneDeathIsSurvived'
  <1> SUFFICES ASSUME IInv, [Next]_vars PROVE OneDeathIsSurvived'
    OBVIOUS
  <1>0. TypeOK /\ OneDeathIsSurvived
    BY DEF IInv, CountInv
  <1>t. outcome \in [Runners -> Outcomes]
    BY <1>0 DEF TypeOK
  <1>1. CASE outcome' = outcome /\ broken \subseteq broken'
    BY <1>0, <1>1 DEF OneDeathIsSurvived
  <1>2. ASSUME NEW r \in Runners, RunFindsNoPool(r) \/ MapReturns(r)
        PROVE  OneDeathIsSurvived'
    <2>1. broken' = broken /\ outcome'[r] \notin {"broken", "no_executor"}
          /\ \A s \in Runners : s # r => outcome'[s] = outcome[s]
      BY <1>t, <1>2 DEF RunFindsNoPool, MapReturns, exVars
    <2> QED
      BY <1>0, <2>1 DEF OneDeathIsSurvived
  <1>3. ASSUME NEW r \in Runners, RetryFindsNoPool(r) \/ DropIfCurrent(r)
        PROVE  OneDeathIsSurvived'
    <2>1. broken' = broken /\ \A s \in Runners : s # r => outcome'[s] = outcome[s]
      BY <1>t, <1>3 DEF RetryFindsNoPool, DropIfCurrent, ShutdownEx, exVars
    <2>2. RunLocals(r)
      BY <1>3 DEF RetryFindsNoPool, DropIfCurrent, IInv, RunsInv, Registered, InRun
    <2>3. TwoDeaths
      BY <1>3, <2>2 DEF RetryFindsNoPool, DropIfCurrent, RunLocals, TwoDeaths, AnotherDied
    <2> QED
      BY <1>0, <2>1, <2>3 DEF OneDeathIsSurvived, TwoDeaths
  <1>4. ASSUME NEW r \in Runners, NEW k \in Keys, Ensure(r, k)
        PROVE  OneDeathIsSurvived'
    BY <1>1, <1>4 DEF Ensure, SleepUntilDrained, BuildWanted, ReplaceEx, exVars
  <1>5. ASSUME NEW r \in Runners,
               EnsureWakes(r) \/ RunStarts(r) \/ MapBreaks(r) \/ RebuildBroken(r) \/ RunExits(r)
        PROVE  OneDeathIsSurvived'
    BY <1>1, <1>5 DEF EnsureWakes, SleepUntilDrained, BuildWanted, ReplaceEx, RunStarts,
                      MapBreaks, RebuildBroken, RunExits, exVars
  <1>6. ASSUME NEW a \in Admins, AdminCalls(a) \/ TeardownWakes(a)
        PROVE  OneDeathIsSurvived'
    BY <1>1, <1>6 DEF AdminCalls, Invalidate, Shutdown, TeardownWakes, Teardown,
                      SleepUntilDrained, ShutdownEx, exVars
  <1>7. CASE (\E e \in live : WorkerDies(e)) \/ Tick \/ UNCHANGED vars
    BY <1>1, <1>7 DEF WorkerDies, Tick, vars, exVars
  <1> QED
    BY <1>2, <1>3, <1>4, <1>5, <1>6, <1>7 DEF Next, RunnerContinues, Finished

\* The inductive invariant holds at the start.
LEMMA InitInv == Init => IInv
  <1> SUFFICES ASSUME Init PROVE IInv
    OBVIOUS
  <1>1. NoLostWakeup /\ OneExecutor /\ KeyedWhenLive /\ OneDeathIsSurvived
    BY NoneIsNoFailure
       DEF Init, NoLostWakeup, OneExecutor, KeyedWhenLive, OneDeathIsSurvived
  <1>2. DrainersWant /\ RunsInv
    BY DEF Init, DrainersWant, RunsInv, Registered, InRun, Threads
  <1> QED
    BY <1>1, <1>2, CountInit DEF IInv

\* The inductive invariant: the counter and its wakeups, the executor and its
\* key, and what every registered run relies on, hold together.
THEOREM PoolInvariant == Spec => []IInv
  <1>1. IInv /\ [Next]_vars => IInv'
    BY TypeStep, CountStep, WakeupStep, ExecutorStep, WantStep, RunsStep, SurvivalStep
       DEF IInv, CountInv
  <1> QED
    BY InitInv, <1>1, PTL DEF Spec

\* Every field and every local keeps its type.
THEOREM PoolTypes == Spec => []TypeOK
  <1>1. IInv => TypeOK
    BY DEF IInv, CountInv
  <1> QED
    BY <1>1, PoolInvariant, PTL

\* "Teardown waits them out instead of shutting an executor mid-map", for any
\* number of runs, teardowns and worker deaths.
THEOREM DrainIsSafe == Spec => []NeverShutMidMap
  <1>1. IInv => NeverShutMidMap
    BY DEF IInv, RunsInv, RunLocals, Registered, InRun, NeverShutMidMap
  <1> QED
    BY <1>1, PoolInvariant, PTL

\* The in-flight counter nets out on every path through run.
THEOREM CounterIsExact == Spec => []InflightExact
  <1>1. IInv => InflightExact
    BY DEF IInv, CountInv
  <1> QED
    BY <1>1, PoolInvariant, PTL

\* A sleeping teardown always has a run that will notify it.
THEOREM WakeupsAreKept == Spec => []NoLostWakeup
  <1>1. IInv => NoLostWakeup
    BY DEF IInv
  <1> QED
    BY <1>1, PoolInvariant, PTL

\* No worker set outlives its replacement.
THEOREM NoExecutorLeaks == Spec => []OneExecutor
  <1>1. IInv => OneExecutor
    BY DEF IInv
  <1> QED
    BY <1>1, PoolInvariant, PTL

\* Concurrent runs, and every retry of theirs, are runs of one engine.
THEOREM RunsShareTheirKey == Spec => []RegisteredRunsShareKey
  <1>1. IInv => RegisteredRunsShareKey
    BY NoneIsNoValue DEF IInv, RunsInv, RunLocals, RegisteredRunsShareKey
  <1> QED
    BY <1>1, PoolInvariant, PTL

\* The death of one worker set fails no request.
THEOREM OneDeathFailsNobody == Spec => []OneDeathIsSurvived
  <1>1. IInv => OneDeathIsSurvived
    BY DEF IInv
  <1> QED
    BY <1>1, PoolInvariant, PTL

\* A request that fails with BrokenProcessPool leaves a pool that was built
\* after the executor it broke on, or none.
THEOREM BrokenPoolIsDropped == Spec => []NoBrokenPoolKept
  <1>1. IInv => NoBrokenPoolKept
    BY DEF IInv, RunsInv, RunLocals, Registered, InRun, NoBrokenPoolKept
  <1> QED
    BY <1>1, PoolInvariant, PTL
-----------------------------------------------------------------------------
(* The idle sweep.                                                         *)

SweepPlaces == {"asleep", "enter", "recheck", "invalidate"}

\* Where the sweep may be, for a pool whose requests hold the gate: it never
\* waits inside invalidate(), and what it saw at its second look still holds.
SweepInv ==
    /\ sweep \in SweepPlaces /\ sweepNow \in Nat
    /\ pc[Sweeper] = "idle"
    /\ HoldsWriter => \A r \in Runners : pc[r] = "idle"
    /\ sweep = "invalidate" => Due(sweepNow)
    /\ \A r \in Runners : pc[r] = "run" => ex # None \/ TwoDeaths

\* Every step of the swept pool is a step of the pool.
LEMMA SweepIsAdmin == [IdleNext]_idleVars => [Next]_vars
  <1> SUFFICES ASSUME [IdleNext]_idleVars PROVE [Next]_vars
    OBVIOUS
  <1>1. Sweeper \in Admins
    BY SweeperIsAdmin
  <1>2. CASE \E r \in Runners : \E k \in Keys : RequestStarts(r, k)
    BY <1>2 DEF RequestStarts, Next
  <1>3. CASE \E r \in Runners : RunnerContinues(r) /\ UNCHANGED sweepVars
    BY <1>3 DEF Next
  <1>4. CASE \E e \in live : WorkerDies(e) /\ UNCHANGED sweepVars
    BY <1>4 DEF Next
  <1>5. CASE SweepInvalidates
    BY <1>1, <1>5 DEF SweepInvalidates, Next, AdminCalls
  <1>6. CASE \/ SweepStarts \/ SweepEnters \/ SweepRechecks \/ AtRest \/ UNCHANGED idleVars
    BY <1>6 DEF SweepStarts, SweepEnters, SweepRechecks, AtRest, idleVars
  <1> QED
    BY <1>2, <1>3, <1>4, <1>5, <1>6 DEF IdleNext, Sweeps, Next

\* With the writer held nobody is registered.
LEMMA WriterMeansDrained ==
    ASSUME IInv, \A r \in Runners : pc[r] = "idle"
    PROVE  inflight = 0
  <1>1. Registered = {}
    BY DEF Registered, InRun
  <1> QED
    BY <1>1, FS_EmptySet DEF IInv, CountInv, InflightExact

\* A step of the request threads, which hold the gate.
LEMMA RequestSweeps ==
    ASSUME IInv, SweepInv, NEW r \in Runners,
           (\E k \in Keys : Ensure(r, k) /\ ~HoldsWriter) \/ RunnerContinues(r),
           UNCHANGED sweepVars
    PROVE  SweepInv'
  <1>0. TypeOK /\ UNCHANGED <<sweep, sweepNow>> /\ r # Sweeper /\ r \in Threads
    BY SweeperIsAdmin, DisjointThreads DEF IInv, CountInv, sweepVars, Threads
  <1>1. ~HoldsWriter
    BY DEF RunnerContinues, EnsureWakes, RunStarts, RunFindsNoPool, MapReturns, MapBreaks,
           RebuildBroken, RetryFindsNoPool, DropIfCurrent, RunExits, SweepInv
  <1>2. \A t \in Threads \ {r} : pc'[t] = pc[t]
    BY <1>0 DEF Ensure, RunnerContinues, EnsureWakes, SleepUntilDrained, BuildWanted, RunStarts,
           RunFindsNoPool, MapReturns, MapBreaks, RebuildBroken, RetryFindsNoPool,
           DropIfCurrent, RunExits, TypeOK
  <1>3. Sweeper \in Threads \ {r}
    BY <1>0, SweeperIsAdmin DEF Threads
  <1>4. TwoDeaths => TwoDeaths'
    <2>1. broken' = broken
      BY DEF Ensure, RunnerContinues, EnsureWakes, SleepUntilDrained, BuildWanted, RunStarts,
           RunFindsNoPool, MapReturns, MapBreaks, RebuildBroken, RetryFindsNoPool,
           DropIfCurrent, RunExits, ReplaceEx, ShutdownEx, exVars
    <2> QED
      BY <2>1 DEF TwoDeaths
  <1>5. ASSUME NEW s \in Runners, pc'[s] = "run" PROVE ex' # None \/ TwoDeaths'
    <2>1. CASE ex' # None
      BY <2>1
    <2>2. CASE ex' = None /\ ex # None
      <3>1. DropIfCurrent(r) /\ ex = rex[r]
        <4>1. built \in Nat
          BY <1>0 DEF TypeOK
        <4>2. built + 1 # None
          BY <4>1, NoneIsNoValue
        <4> QED
          BY <2>2, <4>2 DEF Ensure, RunnerContinues, EnsureWakes, SleepUntilDrained, BuildWanted,
               RunStarts, RunFindsNoPool, MapReturns, MapBreaks, RebuildBroken,
               RetryFindsNoPool, DropIfCurrent, RunExits, ReplaceEx, poolVars
      <3>2. TwoDeaths
        <4>1. r \in Registered /\ pc[r] = "drop"
          BY <3>1 DEF DropIfCurrent, Registered, InRun
        <4> QED
          BY <4>1 DEF IInv, RunsInv, RunLocals, AnotherDied, TwoDeaths
      <3> QED
        BY <1>4, <3>2
    <2>3. CASE ex' = None /\ ex = None
      <3>1. pc[s] = "run"
        <4>1. CASE s # r
          BY <1>2, <1>5, <4>1 DEF Threads
        <4>2. CASE s = r
          <5>1. built + 1 # None
            BY <1>0, NoneIsNoValue DEF TypeOK
          <5> QED
            BY <1>0, <1>5, <2>3, <4>2, <5>1
               DEF Ensure, RunnerContinues, EnsureWakes, SleepUntilDrained, BuildWanted,
                   RunStarts, RunFindsNoPool, MapReturns, MapBreaks, RebuildBroken,
                   RetryFindsNoPool, DropIfCurrent, RunExits, ReplaceEx, TypeOK
        <4> QED
          BY <4>1, <4>2
      <3> QED
        BY <1>4, <2>3, <3>1 DEF SweepInv
    <2> QED
      BY <2>1, <2>2, <2>3
  <1> QED
    BY <1>0, <1>1, <1>2, <1>3, <1>5 DEF SweepInv, HoldsWriter

\* A pass of the sweep, which holds the writer from its second look on.
LEMMA PassSweeps ==
    ASSUME Gated, IInv, SweepInv, Sweeps
    PROVE  SweepInv'
  <1>0. TypeOK
    BY DEF IInv, CountInv
  <1>1. CASE SweepStarts
    BY <1>0, <1>1 DEF SweepStarts, SweepInv, SweepPlaces, HoldsWriter, vars, TypeOK, TwoDeaths
  <1>2. CASE SweepEnters
    BY <1>2 DEF SweepEnters, SweepInv, SweepPlaces, HoldsWriter, vars, TwoDeaths
  <1>3. CASE SweepRechecks
    BY <1>3 DEF SweepRechecks, SweepInv, SweepPlaces, HoldsWriter, Due, IdleSeconds, vars, TwoDeaths
  <1>4. CASE SweepInvalidates
    <2>1. \A r \in Runners : pc[r] = "idle"
      BY <1>4 DEF SweepInvalidates, SweepInv, HoldsWriter
    <2>2. inflight = 0
      BY <2>1, WriterMeansDrained
    <2>3. pc' \in [Threads -> PCs] /\ \A t \in Threads : pc'[t] = "idle"
      BY <1>0, <1>4, <2>1, <2>2, SweeperIsAdmin
         DEF SweepInvalidates, Invalidate, TeardownWakes, Teardown, SleepUntilDrained, SweepInv,
             Threads, TypeOK, PCs
    <2>4. sweep' = "asleep" /\ sweepNow' = sweepNow
      BY <1>4, <2>3, SweeperIsAdmin DEF SweepInvalidates, Threads
    <2> QED
      BY <2>3, <2>4, SweeperIsAdmin DEF SweepInv, SweepPlaces, HoldsWriter, Threads
  <1> QED
    BY <1>1, <1>2, <1>3, <1>4 DEF Sweeps

LEMMA SweepStep == Gated /\ IInv /\ SweepInv /\ [IdleNext]_idleVars => SweepInv'
  <1> SUFFICES ASSUME Gated, IInv, SweepInv, [IdleNext]_idleVars PROVE SweepInv'
    OBVIOUS
  <1>1. ASSUME NEW r \in Runners, NEW k \in Keys, RequestStarts(r, k) PROVE SweepInv'
    BY <1>1, RequestSweeps DEF RequestStarts
  <1>2. ASSUME NEW r \in Runners, RunnerContinues(r), UNCHANGED sweepVars PROVE SweepInv'
    BY <1>2, RequestSweeps
  <1>3. ASSUME NEW e \in live, WorkerDies(e), UNCHANGED sweepVars PROVE SweepInv'
    <2>1. UNCHANGED <<pc, ex, lastUsed, sweep, sweepNow>> /\ broken \subseteq broken'
      BY <1>3 DEF WorkerDies, poolVars, sweepVars
    <2> QED
      BY <2>1 DEF SweepInv, HoldsWriter, Due, IdleSeconds, TwoDeaths
  <1>4. CASE (Tick /\ UNCHANGED sweepVars) \/ AtRest \/ UNCHANGED idleVars
    <2>1. UNCHANGED <<pc, ex, lastUsed, broken, sweep, sweepNow>>
      BY <1>4 DEF Tick, AtRest, idleVars, vars, poolVars, exVars, sweepVars
    <2> QED
      BY <2>1 DEF SweepInv, HoldsWriter, Due, IdleSeconds, TwoDeaths
  <1> QED
    BY <1>1, <1>2, <1>3, <1>4, PassSweeps DEF IdleNext

LEMMA SweptPool == Gated => (IdleSpec => [](IInv /\ SweepInv))
  <1> SUFFICES ASSUME Gated PROVE IdleSpec => [](IInv /\ SweepInv)
    OBVIOUS
  <1>1. IdleInit => IInv /\ SweepInv
    <2> SUFFICES ASSUME IdleInit PROVE SweepInv
      BY InitInv DEF IdleInit
    <2> QED
      BY SweeperIsAdmin DEF IdleInit, Init, SweepInv, SweepPlaces, HoldsWriter, Threads
  <1>2. IInv /\ [Next]_vars => IInv'
    BY TypeStep, CountStep, WakeupStep, ExecutorStep, WantStep, RunsStep, SurvivalStep
       DEF IInv, CountInv
  <1>3. IInv /\ SweepInv /\ [IdleNext]_idleVars => (IInv /\ SweepInv)'
    BY <1>2, SweepIsAdmin, SweepStep
  <1> QED
    BY <1>1, <1>3, PTL DEF IdleSpec

\* app/idle_unload.py: "a request that arrived while we waited for the lock
\* isn't unloaded out from under itself", for any number of requests, worker
\* deaths and passes, on a pool whose requests hold a permit of the gate.
THEOREM ArrivalsKeepTheirPool == Gated => (IdleSpec => []ArrivalKeepsPool)
  <1> SUFFICES ASSUME Gated PROVE IdleSpec => []ArrivalKeepsPool
    OBVIOUS
  <1>1. SweepInv => ArrivalKeepsPool
    BY DEF SweepInv, ArrivalKeepsPool, TwoDeaths
  <1> QED
    BY <1>1, SweptPool, PTL

\* The window of a pool a sweep shuts down ended before the pass began, though
\* the pass waited for the gate in between.
THEOREM SweepsTakeIdlePools == Gated => (IdleSpec => SweepsOnlyIdlePool)
  <1> SUFFICES ASSUME Gated PROVE IdleSpec => SweepsOnlyIdlePool
    OBVIOUS
  <1>1. IInv /\ SweepInv /\ [IdleNext]_idleVars =>
          [sweep = "invalidate" /\ ex # None /\ ex' = None => lastUsed + Ttl <= sweepNow]_idleVars
    <2> SUFFICES ASSUME IInv, SweepInv, sweep = "invalidate", ex # None
                 PROVE  lastUsed + Ttl <= sweepNow
      OBVIOUS
    <2>1. lastUsed \in Nat \cup {None} /\ Due(sweepNow) /\ sweepNow \in Nat /\ Ttl \in Nat
      BY TtlIsPositive DEF IInv, CountInv, TypeOK, SweepInv
    <2>2. lastUsed # None /\ sweepNow - lastUsed >= Ttl
      BY <2>1 DEF Due, IdleSeconds
    <2> QED
      BY <2>1, <2>2
  <1> QED
    BY <1>1, SweptPool, PTL DEF IdleSpec, SweepsOnlyIdlePool
=============================================================================
