----------------------------- MODULE EnginePool -----------------------------
(***************************************************************************)
(* app/engine_pool.py, class EnginePool: the process-wide owner of one     *)
(* role's ProcessPoolExecutor.  Request threads call ensure(key) and then  *)
(* run(items); administrative threads call invalidate, shutdown and        *)
(* idle_seconds.  One Condition guards the executor, its key and the       *)
(* in-flight counter, and a teardown waits on it until the counter is 0.   *)
(*                                                                         *)
(* A critical section with no wait() inside it is one action.  The model   *)
(* work itself (ex.map) runs outside the lock, so a run is one action per  *)
(* critical section and one per outcome of a map.                          *)
(*                                                                         *)
(* The pool is modelled as the detect role uses it: nothing but its own    *)
(* lock orders the callers.                                                *)
(***************************************************************************)
EXTENDS Integers, FiniteSets

CONSTANTS
    Runners,       \* threads that serve page requests
    Admins,        \* threads that invalidate or shut down the pool
    Names,         \* engine names of the role
    Configs,       \* what a key holds besides the name: (device, workers)
    None,          \* Python's None
    MaxRequests,   \* bound: requests one runner serves
    MaxTeardowns,  \* bound: teardown calls of one admin thread
    MaxBreaks,     \* bound: executors whose workers die
    MaxClock       \* bound: ticks of time.monotonic()

Threads == Runners \cup Admins
Keys == Names \X Configs

ASSUME FiniteThreads == IsFiniteSet(Runners) /\ IsFiniteSet(Admins)
ASSUME DisjointThreads == Runners \cap Admins = {}
ASSUME NoneIsNoValue == None \notin Nat /\ None \notin Keys /\ None \notin Names
ASSUME NoneIsNoFailure == None \notin {"broken", "no_executor"}
ASSUME BoundsAreNat == /\ MaxRequests \in Nat
                       /\ MaxTeardowns \in Nat
                       /\ MaxBreaks \in Nat
                       /\ MaxClock \in Nat

VARIABLES
    \* the pool object
    ex,         \* self._ex: the current executor's id, or None
    key,        \* self._key, or None
    inflight,   \* self._inflight
    lastUsed,   \* self._last_used, or None
    waiting,    \* threads asleep in self._cond.wait()
    \* the executors (concurrent.futures.ProcessPoolExecutor)
    built,      \* executors built so far; their ids are 1..built
    live,       \* executors that have not been shut down
    broken,     \* executors a worker of which has died
    \* the threads
    pc,         \* where each thread is
    want,       \* the key a runner asked ensure for
    rex,        \* run's local ex (ex2 once it retries)
    rkey,       \* run's local key
    outcome,    \* how a runner's last request left the pool
    calls,      \* requests or teardowns a thread has started
    clock       \* time.monotonic()

poolVars == <<ex, key, inflight, lastUsed, waiting>>
exVars == <<built, live, broken>>
runVars == <<rex, rkey>>
vars == <<ex, key, inflight, lastUsed, waiting, built, live, broken,
          pc, want, rex, rkey, outcome, calls, clock>>

\* A run is registered from its first critical section to its finally block.
InRun == {"map", "rebuild", "retry", "drop", "exit"}
PCs == {"idle", "drain", "run"} \cup InRun
Outcomes == {None, "ok", "task_error", "not_built", "broken", "no_executor"}
Registered == {r \in Runners : pc[r] \in InRun}

Init ==
    /\ ex = None /\ key = None /\ inflight = 0 /\ lastUsed = None
    /\ waiting = {}
    /\ built = 0 /\ live = {} /\ broken = {}
    /\ pc = [t \in Threads |-> "idle"]
    /\ want = [r \in Runners |-> None]
    /\ rex = [r \in Runners |-> None]
    /\ rkey = [r \in Runners |-> None]
    /\ outcome = [r \in Runners |-> None]
    /\ calls = [t \in Threads |-> 0]
    /\ clock = 0

-----------------------------------------------------------------------------
(* Lifecycle helpers, called under the lock.                               *)

\* _shutdown_ex_locked: shut the executor down, if there is one, and forget it.
ShutdownEx ==
    /\ \/ ex = None /\ UNCHANGED <<ex, key, lastUsed, live>>
       \/ /\ ex # None
          /\ live' = live \ {ex}
          /\ ex' = None /\ key' = None /\ lastUsed' = None
    /\ UNCHANGED <<built, broken>>

\* Defect: the old executor is forgotten without being shut down.
ReplaceExLeaking(k) ==
    /\ built' = built + 1
    /\ live' = live \cup {built + 1}
    /\ ex' = built + 1 /\ key' = k /\ lastUsed' = clock
    /\ UNCHANGED broken

\* _shutdown_ex_locked followed by _build_locked(k).
ReplaceEx(k) ==
    /\ built' = built + 1
    /\ live' = (live \ {ex}) \cup {built + 1}
    /\ ex' = built + 1 /\ key' = k /\ lastUsed' = clock
    /\ UNCHANGED broken

\* The loop of _teardown_locked: sleep while a run is registered.
SleepUntilDrained(t) ==
    /\ inflight > 0
    /\ waiting' = waiting \cup {t}
    /\ pc' = [pc EXCEPT ![t] = "drain"]
    /\ UNCHANGED <<ex, key, inflight, lastUsed, exVars>>

\* Defect: the drain is skipped when there is no executor to tear down.
BuildWantedWithoutDrain(r, k) ==
    /\ inflight = 0 \/ ex = None
    /\ ReplaceEx(k)
    /\ pc' = [pc EXCEPT ![r] = "run"]
    /\ UNCHANGED <<inflight, waiting>>

\* The rest of ensure once nothing is registered: replace the executor.
\* Nobody looks again whether another thread has built this very key.
BuildWanted(r, k) ==
    /\ inflight = 0
    /\ ReplaceEx(k)
    /\ pc' = [pc EXCEPT ![r] = "run"]
    /\ UNCHANGED <<inflight, waiting>>

-----------------------------------------------------------------------------
(* The request threads: ensure(k), then run(items).                        *)

Ensure(r, k) ==
    /\ pc[r] = "idle"
    /\ calls[r] < MaxRequests
    /\ calls' = [calls EXCEPT ![r] = @ + 1]
    /\ want' = [want EXCEPT ![r] = k]
    /\ \/ /\ ex # None /\ key = k
          /\ pc' = [pc EXCEPT ![r] = "run"]
          /\ UNCHANGED <<poolVars, exVars>>
       \/ /\ ~(ex # None /\ key = k)
          /\ SleepUntilDrained(r) \/ BuildWanted(r, k)
    /\ UNCHANGED <<runVars, outcome, clock>>

\* A drained ensure has been notified and holds the lock again.
EnsureWakes(r) ==
    /\ pc[r] = "drain" /\ r \notin waiting
    /\ SleepUntilDrained(r) \/ BuildWanted(r, want[r])
    /\ UNCHANGED <<want, runVars, outcome, calls, clock>>

\* run's first critical section: snapshot (ex, key) and register.
RunStarts(r) ==
    /\ pc[r] = "run" /\ ex # None
    /\ rex' = [rex EXCEPT ![r] = ex]
    /\ rkey' = [rkey EXCEPT ![r] = key]
    /\ inflight' = inflight + 1
    /\ pc' = [pc EXCEPT ![r] = "map"]
    /\ UNCHANGED <<ex, key, lastUsed, waiting, exVars, want, outcome, calls, clock>>

\* Defect: the check sits inside the try, so the finally block deregisters a
\* run that never registered.
RunFindsNoPoolInTry(r) ==
    /\ pc[r] = "run" /\ ex = None
    /\ outcome' = [outcome EXCEPT ![r] = "not_built"]
    /\ inflight' = inflight - 1
    /\ pc' = [pc EXCEPT ![r] = "idle"]
    /\ UNCHANGED <<ex, key, lastUsed, waiting, exVars, want, runVars, calls, clock>>

\* RuntimeError("... pool not built; call ensure() first")
RunFindsNoPool(r) ==
    /\ pc[r] = "run" /\ ex = None
    /\ outcome' = [outcome EXCEPT ![r] = "not_built"]
    /\ pc' = [pc EXCEPT ![r] = "idle"]
    /\ UNCHANGED <<poolVars, exVars, want, runVars, calls, clock>>

\* ex.map returns, or raises what the engine raised, on the first try or the
\* retry.  No lock is held.
MapReturns(r) ==
    /\ pc[r] \in {"map", "retry"}
    /\ rex[r] \notin broken /\ rex[r] # None
    /\ \E res \in {"ok", "task_error"} : outcome' = [outcome EXCEPT ![r] = res]
    /\ pc' = [pc EXCEPT ![r] = "exit"]
    /\ UNCHANGED <<poolVars, exVars, want, runVars, calls, clock>>

\* BrokenProcessPool out of the first map, or out of the retry.
MapBreaks(r) ==
    /\ pc[r] \in {"map", "retry"}
    /\ rex[r] \in broken
    /\ pc' = [pc EXCEPT ![r] = IF pc[r] = "map" THEN "rebuild" ELSE "drop"]
    /\ UNCHANGED <<poolVars, exVars, want, runVars, outcome, calls, clock>>

\* Defect: the retry goes to the caller's own executor even when another run
\* has already replaced it.
RebuildBrokenStale(r) ==
    /\ pc[r] = "rebuild"
    /\ \/ /\ ex = rex[r] /\ ReplaceEx(rkey[r])
          /\ rex' = [rex EXCEPT ![r] = ex']
       \/ ex # rex[r] /\ UNCHANGED <<ex, key, lastUsed, exVars, rex>>
    /\ pc' = [pc EXCEPT ![r] = "retry"]
    /\ UNCHANGED <<inflight, waiting, want, rkey, outcome, calls, clock>>

\* _rebuild_broken: replace the executor if it is still the one that broke,
\* then go on with whatever the pool holds.  No drain.
RebuildBroken(r) ==
    /\ pc[r] = "rebuild"
    /\ \/ ex = rex[r] /\ ReplaceEx(rkey[r])
       \/ ex # rex[r] /\ UNCHANGED <<ex, key, lastUsed, exVars>>
    /\ rex' = [rex EXCEPT ![r] = ex']
    /\ pc' = [pc EXCEPT ![r] = "retry"]
    /\ UNCHANGED <<inflight, waiting, want, rkey, outcome, calls, clock>>

\* ex2 is None: None.map raises AttributeError.
RetryFindsNoPool(r) ==
    /\ pc[r] = "retry" /\ rex[r] = None
    /\ outcome' = [outcome EXCEPT ![r] = "no_executor"]
    /\ pc' = [pc EXCEPT ![r] = "exit"]
    /\ UNCHANGED <<poolVars, exVars, want, runVars, calls, clock>>

\* Defect: the executor that broke twice stays the current one.
DropNothing(r) ==
    /\ pc[r] = "drop"
    /\ outcome' = [outcome EXCEPT ![r] = "broken"]
    /\ pc' = [pc EXCEPT ![r] = "exit"]
    /\ UNCHANGED <<poolVars, exVars, want, runVars, calls, clock>>

\* _drop_if_current, and BrokenProcessPool is raised again.
DropIfCurrent(r) ==
    /\ pc[r] = "drop"
    /\ \/ ex = rex[r] /\ ShutdownEx
       \/ ex # rex[r] /\ UNCHANGED <<ex, key, lastUsed, exVars>>
    /\ outcome' = [outcome EXCEPT ![r] = "broken"]
    /\ pc' = [pc EXCEPT ![r] = "exit"]
    /\ UNCHANGED <<inflight, waiting, want, runVars, calls, clock>>

\* Defect: notify() instead of notify_all().
RunExitsNotifyingOne(r) ==
    /\ pc[r] = "exit"
    /\ inflight' = inflight - 1
    /\ lastUsed' = clock
    /\ \/ /\ inflight' = 0
          /\ \E t \in waiting : waiting' = waiting \ {t}
       \/ (inflight' > 0 \/ waiting = {}) /\ UNCHANGED waiting
    /\ pc' = [pc EXCEPT ![r] = "idle"]
    /\ UNCHANGED <<ex, key, exVars, want, runVars, outcome, calls, clock>>

\* Defect: the counter is tested before it is decremented.
RunExitsTestingFirst(r) ==
    /\ pc[r] = "exit"
    /\ inflight' = inflight - 1
    /\ lastUsed' = clock
    /\ waiting' = IF inflight = 0 THEN {} ELSE waiting
    /\ pc' = [pc EXCEPT ![r] = "idle"]
    /\ UNCHANGED <<ex, key, exVars, want, runVars, outcome, calls, clock>>

\* The finally block of run: deregister, reset the idle clock, notify_all
\* when this was the last registered run.
RunExits(r) ==
    /\ pc[r] = "exit"
    /\ inflight' = inflight - 1
    /\ lastUsed' = clock
    /\ waiting' = IF inflight' = 0 THEN {} ELSE waiting
    /\ pc' = [pc EXCEPT ![r] = "idle"]
    /\ UNCHANGED <<ex, key, exVars, want, runVars, outcome, calls, clock>>

-----------------------------------------------------------------------------
(* The administrative threads.                                             *)

\* Defect: the executor is shut down without draining.
TeardownAtOnce(a) ==
    /\ ShutdownEx
    /\ pc' = [pc EXCEPT ![a] = "idle"]
    /\ UNCHANGED <<inflight, waiting>>

\* _teardown_locked, entered at the call or resumed after a wait.
Teardown(a) ==
    \/ SleepUntilDrained(a)
    \/ /\ inflight = 0
       /\ ShutdownEx
       /\ pc' = [pc EXCEPT ![a] = "idle"]
       /\ UNCHANGED <<inflight, waiting>>

\* The pool holds an engine that invalidate(name) is about.
Targets(name) == ex # None /\ (name = None \/ key[1] = name)

\* invalidate(name), name = None for any engine: the filter is read once,
\* before the drain.
Invalidate(a, name) ==
    /\ pc[a] = "idle"
    /\ calls[a] < MaxTeardowns
    /\ calls' = [calls EXCEPT ![a] = @ + 1]
    /\ \/ ~Targets(name) /\ UNCHANGED <<pc, poolVars, exVars>>
       \/ Targets(name) /\ Teardown(a)
    /\ UNCHANGED <<want, runVars, outcome, clock>>

\* shutdown(): drains whether or not an executor is live.
Shutdown(a) ==
    /\ pc[a] = "idle"
    /\ calls[a] < MaxTeardowns
    /\ calls' = [calls EXCEPT ![a] = @ + 1]
    /\ Teardown(a)
    /\ UNCHANGED <<want, runVars, outcome, clock>>

TeardownWakes(a) ==
    /\ pc[a] = "drain" /\ a \notin waiting
    /\ Teardown(a)
    /\ UNCHANGED <<want, runVars, outcome, calls, clock>>

\* idle_seconds(now): None when no executor is live.
IdleSeconds(now) ==
    IF ex = None \/ lastUsed = None THEN None ELSE now - lastUsed

-----------------------------------------------------------------------------
(* The environment.                                                        *)

\* A worker of e dies (OOM, a failed initializer): every pending and later
\* map on e raises BrokenProcessPool.
WorkerDies(e) ==
    /\ e \in live \ broken
    /\ Cardinality(broken) < MaxBreaks
    /\ broken' = broken \cup {e}
    /\ UNCHANGED <<poolVars, built, live, pc, want, runVars, outcome, calls, clock>>

Tick ==
    /\ clock < MaxClock
    /\ clock' = clock + 1
    /\ UNCHANGED <<poolVars, exVars, pc, want, runVars, outcome, calls>>

\* Every budget is spent and every thread is back: the only way to stop.
Finished ==
    /\ \A t \in Threads : pc[t] = "idle"
    /\ \A r \in Runners : calls[r] = MaxRequests
    /\ \A a \in Admins : calls[a] = MaxTeardowns
    /\ UNCHANGED vars

\* The steps a thread takes once it has called: they never wait for a call.
RunnerContinues(r) ==
    \/ EnsureWakes(r)
    \/ RunStarts(r)
    \/ RunFindsNoPool(r)
    \/ MapReturns(r)
    \/ MapBreaks(r)
    \/ RebuildBroken(r)
    \/ RetryFindsNoPool(r)
    \/ DropIfCurrent(r)
    \/ RunExits(r)

AdminCalls(a) == Shutdown(a) \/ \E name \in Names \cup {None} : Invalidate(a, name)

Next ==
    \/ \E r \in Runners : (\E k \in Keys : Ensure(r, k)) \/ RunnerContinues(r)
    \/ \E a \in Admins : AdminCalls(a) \/ TeardownWakes(a)
    \/ \E e \in live : WorkerDies(e)
    \/ Tick
    \/ Finished

Spec == Init /\ [][Next]_vars

-----------------------------------------------------------------------------
(* Properties.                                                             *)

\* The types of the pool's fields, of the executors and of the threads' locals.
TypeOK ==
    /\ built \in Nat
    /\ ex \in 1..built \cup {None}
    /\ key \in Keys \cup {None}
    /\ inflight \in Nat
    /\ lastUsed \in Nat \cup {None}
    /\ waiting \subseteq Threads
    /\ live \subseteq 1..built
    /\ broken \subseteq 1..built
    /\ pc \in [Threads -> PCs]
    /\ want \in [Runners -> Keys \cup {None}]
    /\ rex \in [Runners -> 1..built \cup {None}]
    /\ rkey \in [Runners -> Keys \cup {None}]
    /\ outcome \in [Runners -> Outcomes]
    /\ calls \in [Threads -> Nat]
    /\ clock \in Nat

\* "teardown waits them out instead of shutting an executor mid-map": while a
\* run maps, on the first try or the retry, its executor is still up, unless a
\* worker of that executor has died.
NeverShutMidMap ==
    \A r \in Runners :
        pc[r] \in {"map", "retry"} /\ rex[r] # None => rex[r] \in live \cup broken

\* The counter the drain waits on is exactly the number of runs between their
\* first critical section and their finally block, through every failure path.
InflightExact == inflight = Cardinality(Registered)

\* No wakeup is lost: a thread sleeps in wait() only while some run is still
\* registered, and that run's finally block will notify it.
NoLostWakeup == waiting # {} => inflight > 0

\* One set of workers at most holds VRAM: an executor that is no longer the
\* current one, replaced, dropped or torn down, has been shut down.
OneExecutor == live = IF ex = None THEN {} ELSE {ex}

\* While a run is registered the pool can hold no other engine: a rebuild by
\* another run, a drop, and an ensure that queued behind them, all leave the
\* key the run started with (or no executor at all).
RegisteredRunsShareKey ==
    \A r \in Registered : rkey[r] # None /\ (ex # None => key = rkey[r])

\* "rebuild the broken executor once and retry": the death of one executor's
\* workers, however many runs were mapping on it, fails no request.
OneDeathIsSurvived ==
    \A r \in Runners :
        outcome[r] \in {"broken", "no_executor"} =>
            \E d, e \in broken : d # e

\* "if the retry also breaks, drop the pool (next request rebuilds fresh)": a
\* run that is about to raise BrokenProcessPool leaves behind neither the
\* executor that broke nor an older one.
NoBrokenPoolKept ==
    \A r \in Runners :
        pc[r] = "exit" /\ outcome[r] = "broken" => ex = None \/ ex > rex[r]

\* Every call comes back: requests and teardowns, whatever breaks under them.
\* (IdleUnload states the fairness, and tears the pool down when it is idle.)
EveryCallReturns == \A t \in Threads : pc[t] # "idle" ~> pc[t] = "idle"

\* The class docstring calls a caller-side lock unnecessary: what ensure was
\* asked for is what run maps on.
RunsOnEnsuredKey == \A r \in Registered : rkey[r] = want[r]
=============================================================================
