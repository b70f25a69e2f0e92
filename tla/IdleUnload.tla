----------------------------- MODULE IdleUnload -----------------------------
(***************************************************************************)
(* app/idle_unload.py for one worker pool: sweep_loop wakes every 30s,     *)
(* sweep_once reads the clock once, leaves early when nothing is due,      *)
(* takes the writer side of the inference gate and, in a threadpool        *)
(* thread, looks again and calls pool.invalidate().                        *)
(*                                                                         *)
(* Gated = TRUE is the recognize pool: orchestrator.run_page holds a       *)
(* reader permit of the gate around ensure and run, so that a writer       *)
(* excludes them (the gate itself is module InferenceGate).  Gated = FALSE *)
(* is the detect pool, which runs off the gate.                            *)
(***************************************************************************)
EXTENDS EnginePool

CONSTANTS
    Sweeper,   \* the threadpool thread that sweeps
    Ttl,       \* model_idle_unload_minutes, in ticks
    Gated      \* whether requests hold a permit of the inference gate

ASSUME SweeperIsAdmin == Admins = {Sweeper}
ASSUME TtlIsPositive == Ttl \in Nat \ {0}
ASSUME GatedIsBoolean == Gated \in BOOLEAN

VARIABLES
    sweep,     \* where sweep_once is
    sweepNow   \* its argument now

sweepVars == <<sweep, sweepNow>>
idleVars == <<vars, sweepVars>>

\* The sweep is inside "async with state.gpu_gate.writer()".
HoldsWriter == sweep \in {"recheck", "invalidate"}

IdleInit == Init /\ sweep = "asleep" /\ sweepNow = 0

\* Defect: the window's last moment does not count.
DueLater(now) == IdleSeconds(now) # None /\ IdleSeconds(now) > Ttl

\* A pool unused for the whole window is due.
Due(now) == IdleSeconds(now) # None /\ IdleSeconds(now) >= Ttl

\* The read of the clock and the early-out: a pass that finds nothing due
\* changes nothing.
SweepStarts ==
    /\ sweep = "asleep" /\ Due(clock)
    /\ sweepNow' = clock
    /\ sweep' = "enter"
    /\ UNCHANGED vars

\* Defect: the writer side of the gate is not taken.
SweepEntersUngated ==
    /\ sweep = "enter"
    /\ sweep' = "recheck"
    /\ UNCHANGED <<vars, sweepNow>>

\* The gate's writer is granted once no reader is inside.
SweepEnters ==
    /\ sweep = "enter"
    /\ Gated => \A r \in Runners : pc[r] = "idle"
    /\ sweep' = "recheck"
    /\ UNCHANGED <<vars, sweepNow>>

\* Defect: the pass acts on what it saw before it waited for the gate.
SweepTrustsFirstLook ==
    /\ sweep = "recheck"
    /\ sweep' = "invalidate"
    /\ UNCHANGED <<vars, sweepNow>>

\* _unload_idle_locked looks again with the same now; idle_seconds and
\* invalidate take the pool's lock one after the other.
SweepRechecks ==
    /\ sweep = "recheck"
    /\ sweep' = IF Due(sweepNow) THEN "invalidate" ELSE "asleep"
    /\ UNCHANGED <<vars, sweepNow>>

\* pool.invalidate(), up to its return: TeardownWakes is its drain.
SweepInvalidates ==
    /\ sweep = "invalidate"
    /\ Invalidate(Sweeper, None) \/ TeardownWakes(Sweeper)
    /\ sweep' = IF pc'[Sweeper] = "drain" THEN "invalidate" ELSE "asleep"
    /\ UNCHANGED sweepNow

\* A gated request waits for the writer to leave.
RequestStarts(r, k) ==
    /\ Gated => ~HoldsWriter
    /\ Ensure(r, k)
    /\ UNCHANGED sweepVars

Sweeps == SweepStarts \/ SweepEnters \/ SweepRechecks \/ SweepInvalidates

\* Nothing is left to do within the bounds.
AtRest ==
    /\ \A t \in Threads : pc[t] = "idle"
    /\ \A r \in Runners : calls[r] = MaxRequests
    /\ clock = MaxClock /\ sweep = "asleep" /\ ~Due(clock)
    /\ UNCHANGED idleVars

IdleNext ==
    \/ \E r \in Runners : \E k \in Keys : RequestStarts(r, k)
    \/ \E r \in Runners : RunnerContinues(r) /\ UNCHANGED sweepVars
    \/ \E e \in live : WorkerDies(e) /\ UNCHANGED sweepVars
    \/ Tick /\ UNCHANGED sweepVars
    \/ Sweeps
    \/ AtRest

IdleSpec == IdleInit /\ [][IdleNext]_idleVars

\* Threads are scheduled, maps end, time passes and the loop keeps sweeping.
FairIdleSpec ==
    /\ IdleSpec
    /\ \A r \in Runners : WF_idleVars(RunnerContinues(r) /\ UNCHANGED sweepVars)
    /\ WF_idleVars(Tick /\ UNCHANGED sweepVars)
    /\ WF_idleVars(Sweeps)

-----------------------------------------------------------------------------

\* "so a request that arrived while we waited for the lock isn't unloaded out
\* from under itself": no sweep is at work while a gated request is, and whoever
\* has ensured the pool finds it built, unless a run before broke two executors.
ArrivalKeepsPool ==
    \A r \in Runners : pc[r] # "idle" =>
        /\ ~HoldsWriter
        /\ pc[r] = "run" => ex # None \/ \E d, e \in broken : d # e

\* "tears a pool down once it's gone unused for the /admin-configured window":
\* the pool a sweep shuts down was last used a whole window before the sweep.
SweepsOnlyIdlePool ==
    [][sweep = "invalidate" /\ ex # None /\ ex' = None
         => lastUsed + Ttl <= sweepNow]_idleVars

\* A pool nobody uses any more is torn down, so that its device can suspend:
\* unless it is used again, a pool whose window ends within the bounds goes.
ReclaimsIdlePool ==
    (ex # None /\ lastUsed + Ttl <= MaxClock)
        ~> (ex = None \/ lastUsed + Ttl > MaxClock)
=============================================================================
