------------------------------ MODULE AppState ------------------------------
(***************************************************************************)
(* app/state.py, class AppState, with the routes that change it            *)
(* (routes/settings_routes.py, the settings half of routes/admin.py) and   *)
(* the recognize stage that lives by it (orchestrator.run_page).           *)
(*                                                                         *)
(* A synchronous route runs in a threadpool thread; the two routes that    *)
(* take the writer side of the inference gate are coroutines, and one of   *)
(* them saves and drains the pool on the event loop itself, which nothing  *)
(* else uses meanwhile.  Every gate ever built stays in "gates", the last  *)
(* is state.gpu_gate; a gate is what module ReaderWriter promises of it.   *)
(* The recognize pool is its key and its running maps (module EnginePool   *)
(* has the detail).  The process may die anywhere and start again.         *)
(***************************************************************************)
EXTENDS Selection, Sequences, FiniteSets

CONSTANTS
    Routes,      \* threadpool threads that serve synchronous routes
    Coros,       \* set_engine_device and set_recognize_concurrency requests
    Pages,       \* page requests
    MaxCalls,    \* bound: calls one route thread or coroutine serves
    MaxPlans,    \* bound: pages one request task recognizes
    MaxRestarts  \* bound: deaths of the process

Setters == Routes \cup Coros

\* What recognize_pool may be built for.
PoolKeys == [engine : Engines, device : Devices \cup {None}, workers : Nat \ {0}]

ASSUME DisjointTasks == Routes \cap Coros = {} /\ Pages \cap Setters = {}
ASSUME NoneIsNoTask == None \notin Setters
ASSUME NoneIsNoKey == None \notin PoolKeys
ASSUME PagesAreFinite == IsFiniteSet(Pages)
ASSUME AppBoundsAreNat == {MaxCalls, MaxPlans, MaxRestarts} \subseteq Nat

VARIABLES
    sel,       \* state.selection
    file,      \* state.json: <<>> while absent or cut short, or <<selection>>
    lock,      \* self._lock: its holder, or None
    text,      \* what json.dumps returned to each setter
    gates,     \* every InferenceGate built, state.gpu_gate last
    pool,      \* recognize_pool's key, or None
    pc,        \* where each setter is
    arg,       \* the request of each setter
    width,     \* rebuild_gpu_gate's local, per setter
    job,       \* where each page is
    rec,       \* the recognizer of each page's plan
    at,        \* the gate a page or a coroutine asked
    calls,     \* requests each setter or page has begun
    restarts   \* deaths of the process

settingVars == <<sel, file, lock, text>>
setterVars == <<pc, arg, width>>
pageVars == <<job, rec>>
appVars == <<sel, file, lock, text, gates, pool, pc, arg, width,
             job, rec, at, calls, restarts>>

Cur == Len(gates)
NewGate(k) == [width |-> k, readers |-> {}, writer |-> None]
NoRequest == [op |-> "none", engine |-> DefaultEngine, value |-> None]

\* _load: what the file holds, or the defaults if there is none or it is cut
\* short.
Load(f) == IF f = <<>> THEN Defaults ELSE f[1]

\* AppState.__init__ on the file f.
Boot(f) ==
    LET s == Load(f)
    IN  /\ sel' = s /\ file' = f /\ lock' = None
        /\ text' = [t \in Setters |-> None]
        /\ gates' = <<NewGate(WorkersFor(s, s.recognizer))>>
        /\ pool' = None
        /\ pc' = [t \in Setters |-> "idle"]
        /\ arg' = [t \in Setters |-> NoRequest]
        /\ width' = [t \in Setters |-> 0]
        /\ job' = [p \in Pages |-> "idle"]
        /\ rec' = [p \in Pages |-> DefaultEngine]
        /\ at' = [t \in Pages \cup Coros |-> 1]

AppInit ==
    /\ sel = Defaults /\ file = <<>> /\ lock = None
    /\ text = [t \in Setters |-> None]
    /\ gates = <<NewGate(WorkersFor(Defaults, DefaultEngine))>>
    /\ pool = None
    /\ pc = [t \in Setters |-> "idle"]
    /\ arg = [t \in Setters |-> NoRequest]
    /\ width = [t \in Setters |-> 0]
    /\ job = [p \in Pages |-> "idle"]
    /\ rec = [p \in Pages |-> DefaultEngine]
    /\ at = [t \in Pages \cup Coros |-> 1]
    /\ calls = [t \in Setters \cup Pages |-> 0]
    /\ restarts = 0

Saving == {"save", "open", "write"}

\* A coroutine that set_recognize_concurrency has not given back to the loop.
OnLoop(t) ==
    /\ t \in Coros /\ arg[t].op = "workers"
    /\ pc[t] \in Saving \cup {"invalidate", "width", "swap"}
LoopFree == \A t \in Coros : ~OnLoop(t)

Begin(t, op, e, v) ==
    /\ pc[t] = "idle" /\ calls[t] < MaxCalls
    /\ calls' = [calls EXCEPT ![t] = @ + 1]
    /\ arg' = [arg EXCEPT ![t] = [op |-> op, engine |-> e, value |-> v]]

Goto(t, l) == pc' = [pc EXCEPT ![t] = l]
-----------------------------------------------------------------------------
(* Synchronous routes: a check, then a setter that changes the selection   *)
(* outside the lock and saves it.                                          *)

Edit(t, s) ==
    /\ Begin(t, "edit", DefaultEngine, None)
    /\ sel' = s /\ Goto(t, "save")
    /\ UNCHANGED <<file, lock, text, gates, pool, width, pageVars, at, restarts>>

PromptNames == Presets \cup BuiltinPrompts

EditSelection(t) ==
    \/ \E src, dst \in Langs : Edit(t, SetLanguages(sel, src, dst))
    \/ \E n \in Numbers : Edit(t, SetClientConfig(sel, n))
    \/ \E name \in PromptNames : Edit(t, SavePrompt(sel, name))
    \/ \E name \in PromptNames : MayDelete(name) /\ Edit(t, DeletePrompt(sel, name))

\* set_engines and select_prompt read the selection before they change it.
CheckPrompt(t, name) ==
    /\ MaySelect(sel, name)
    /\ Begin(t, "prompt", DefaultEngine, name) /\ Goto(t, "assign")
    /\ UNCHANGED <<settingVars, gates, pool, width, pageVars, at, restarts>>

CheckEngine(t, e) ==
    /\ Begin(t, IF e # sel.recognizer THEN "engines" ELSE "edit", e, None)
    /\ Goto(t, "engine")
    /\ UNCHANGED <<settingVars, gates, pool, width, pageVars, at, restarts>>

Assign(t) ==
    /\ \/ pc[t] = "assign" /\ sel' = SelectPrompt(sel, arg[t].value)
       \/ pc[t] = "engine" /\ sel' = [sel EXCEPT !.recognizer = arg[t].engine]
    /\ Goto(t, "save")
    /\ UNCHANGED <<file, lock, text, gates, pool, arg, width, pageVars, at,
                   calls, restarts>>
-----------------------------------------------------------------------------
(* save, in whichever thread.                                              *)

\* Defect: save does not take the lock.
SaveUnlocked(t) ==
    /\ pc[t] = "save"
    /\ text' = [text EXCEPT ![t] = sel] /\ Goto(t, "open")
    /\ UNCHANGED <<sel, file, lock, gates, pool, arg, width, pageVars, at,
                   calls, restarts>>

\* json.dumps(asdict(self.selection)) under the lock.
SaveDumps(t) ==
    /\ pc[t] = "save" /\ lock = None
    /\ lock' = t /\ text' = [text EXCEPT ![t] = sel] /\ Goto(t, "open")
    /\ UNCHANGED <<sel, file, gates, pool, arg, width, pageVars, at, calls,
                   restarts>>

\* write_text opens the file, which empties it,
SaveOpens(t) ==
    /\ pc[t] = "open" /\ file' = <<>> /\ Goto(t, "write")
    /\ UNCHANGED <<sel, lock, text, gates, pool, arg, width, pageVars, at,
                   calls, restarts>>

\* and writes it.  What comes next is the caller's.
SaveWrites(t) ==
    /\ pc[t] = "write" /\ file' = <<text[t]>> /\ lock' = None
    /\ text' = [text EXCEPT ![t] = None]
    /\ Goto(t, CASE arg[t].op = "engines" -> "width"
                 [] arg[t].op \in {"workers", "device"} -> "invalidate"
                 [] OTHER -> "idle")
    /\ UNCHANGED <<sel, gates, pool, arg, width, pageVars, at, calls, restarts>>

\* rebuild_gpu_gate reads the width, then swaps the gate.
RebuildReads(t) ==
    /\ pc[t] = "width"
    /\ width' = [width EXCEPT ![t] = WorkersFor(sel, sel.recognizer)]
    /\ Goto(t, "swap")
    /\ UNCHANGED <<settingVars, gates, pool, arg, pageVars, at, calls, restarts>>

RebuildSwaps(t) ==
    /\ pc[t] = "swap" /\ gates' = Append(gates, NewGate(width[t]))
    /\ width' = [width EXCEPT ![t] = 0] /\ Goto(t, "idle")
    /\ UNCHANGED <<settingVars, pool, arg, pageVars, at, calls, restarts>>
-----------------------------------------------------------------------------
(* The coroutines set_recognize_concurrency and set_engine_device.         *)

\* A request that changes nothing returns; another asks for the writer side.
CompareSetting(c, op, e, v) ==
    /\ LoopFree
    /\ v # (IF op = "workers" THEN sel.conc[e] ELSE sel.devices[e])
    /\ Begin(c, op, e, v) /\ Goto(c, "enter")
    /\ at' = [at EXCEPT ![c] = Cur]
    /\ UNCHANGED <<settingVars, gates, pool, width, pageVars, restarts>>

Compares(c) ==
    \E e \in Engines :
        \/ \E n \in Numbers : CompareSetting(c, "workers", e, Floored(1, n))
        \/ \E d \in Devices : CompareSetting(c, "device", e, d)
        \/ \E op \in {"workers", "device"} : CompareSetting(c, op, e, None)

\* The drained gate lets the writer in; the setter changes the selection.
WriterEnters(c) ==
    /\ pc[c] = "enter" /\ LoopFree
    /\ gates[at[c]].readers = {} /\ gates[at[c]].writer = None
    /\ gates' = [gates EXCEPT ![at[c]].writer = c]
    /\ sel' = IF arg[c].op = "workers"
                THEN SetWorkers(sel, arg[c].engine, arg[c].value)
                ELSE SetDevice(sel, arg[c].engine, arg[c].value)
    /\ Goto(c, "save")
    /\ UNCHANGED <<file, lock, text, pool, arg, width, pageVars, at, calls,
                   restarts>>

Running == {p \in Pages : job[p] = "running"}
HoldsEngine(e) == pool # None /\ pool.engine = e

\* Defect: the pool is shut down without a drain.
InvalidatesAtOnce(c) ==
    /\ pc[c] = "invalidate"
    /\ pool' = IF HoldsEngine(arg[c].engine) THEN None ELSE pool
    /\ gates' = [gates EXCEPT ![at[c]].writer = None]
    /\ Goto(c, "idle")
    /\ UNCHANGED <<settingVars, arg, width, pageVars, at, calls, restarts>>

\* pool.invalidate(engine), which drains the pool it shuts down; then the
\* writer leaves, and a new size of the active recognizer resizes the gate.
WriterInvalidates(c) ==
    /\ pc[c] = "invalidate"
    /\ HoldsEngine(arg[c].engine) => Running = {}
    /\ pool' = IF HoldsEngine(arg[c].engine) THEN None ELSE pool
    /\ gates' = [gates EXCEPT ![at[c]].writer = None]
    /\ Goto(c, IF arg[c].op = "workers" /\ arg[c].engine = sel.recognizer
                 THEN "width" ELSE "idle")
    /\ UNCHANGED <<settingVars, arg, width, pageVars, at, calls, restarts>>
-----------------------------------------------------------------------------
(* A page, from its plan to the end of its recognize stage.                *)

PageStep(p, from, to) ==
    /\ job[p] = from /\ job' = [job EXCEPT ![p] = to]
    /\ UNCHANGED <<settingVars, setterVars, restarts>>

\* make_plan reads the selection; decoding and detecting follow.
MakePlan(p) ==
    /\ LoopFree /\ calls[p] < MaxPlans
    /\ PageStep(p, "idle", "planned")
    /\ rec' = [rec EXCEPT ![p] = sel.recognizer]
    /\ calls' = [calls EXCEPT ![p] = @ + 1]
    /\ UNCHANGED <<gates, pool, at>>

\* state.gpu_gate is read once, when the page asks for a permit.
ReaderAsks(p) ==
    /\ LoopFree /\ PageStep(p, "planned", "asking")
    /\ at' = [at EXCEPT ![p] = Cur]
    /\ UNCHANGED <<gates, pool, rec, calls>>

ReaderEnters(p) ==
    /\ LoopFree /\ PageStep(p, "asking", "ensure")
    /\ gates[at[p]].writer = None
    /\ Cardinality(gates[at[p]].readers) < gates[at[p]].width
    /\ gates' = [gates EXCEPT ![at[p]].readers = @ \cup {p}]
    /\ UNCHANGED <<pool, rec, at, calls>>

\* ensure: rebuilding for another key drains the pool first.
EnsurePool(p) ==
    LET key == [engine |-> rec[p], device |-> sel.devices[rec[p]],
                workers |-> WorkersFor(sel, rec[p])]
    IN  /\ PageStep(p, "ensure", "run")
        /\ pool # key => Running = {}
        /\ pool' = key
        /\ UNCHANGED <<gates, rec, at, calls>>

\* run fails when the pool is gone.
RunStarts(p) ==
    /\ PageStep(p, "run", IF pool # None THEN "running" ELSE "leave")
    /\ UNCHANGED <<gates, pool, rec, at, calls>>

RunReturns(p) ==
    /\ PageStep(p, "running", "leave")
    /\ UNCHANGED <<gates, pool, rec, at, calls>>

\* Defect: the permit goes back to the gate that is current by now.
ReaderLeavesCurrent(p) ==
    /\ LoopFree /\ PageStep(p, "leave", "idle")
    /\ gates' = [gates EXCEPT ![Cur].readers = @ \ {p}]
    /\ UNCHANGED <<pool, rec, at, calls>>

\* The permit goes back to the gate it came from.
ReaderLeaves(p) ==
    /\ LoopFree /\ PageStep(p, "leave", "idle")
    /\ gates' = [gates EXCEPT ![at[p]].readers = @ \ {p}]
    /\ UNCHANGED <<pool, rec, at, calls>>

\* The process dies, and the next one loads the file as it was left.
Restart ==
    /\ restarts < MaxRestarts /\ restarts' = restarts + 1
    /\ Boot(file)
    /\ UNCHANGED calls
-----------------------------------------------------------------------------
Saves(t) == SaveDumps(t) \/ SaveOpens(t) \/ SaveWrites(t)
Rebuilds(t) == RebuildReads(t) \/ RebuildSwaps(t)
Called(t) == \/ EditSelection(t)
             \/ \E name \in PromptNames : CheckPrompt(t, name)
             \/ \E e \in Engines : CheckEngine(t, e)
RouteContinues(t) == Assign(t) \/ Saves(t) \/ Rebuilds(t)
CoroContinues(c) == WriterEnters(c) \/ Saves(c) \/ WriterInvalidates(c) \/ Rebuilds(c)
PageContinues(p) == \/ ReaderAsks(p) \/ ReaderEnters(p) \/ EnsurePool(p)
                    \/ RunStarts(p) \/ RunReturns(p) \/ ReaderLeaves(p)

AppNext ==
    \/ \E t \in Routes : Called(t) \/ RouteContinues(t)
    \/ \E c \in Coros : Compares(c) \/ CoroContinues(c)
    \/ \E p \in Pages : MakePlan(p) \/ PageContinues(p)
    \/ Restart

AppSpec == AppInit /\ [][AppNext]_appVars

\* Threads are scheduled, the loop runs ready tasks, maps return.
FairAppSpec ==
    /\ AppSpec
    /\ \A t \in Routes : WF_appVars(RouteContinues(t))
    /\ \A c \in Coros : WF_appVars(CoroContinues(c))
    /\ \A p \in Pages : WF_appVars(PageContinues(p))
-----------------------------------------------------------------------------
Inside == {"ensure", "run", "running", "leave"}

\* The types of the selection, the gates and the tasks.
AppTypeOK ==
    /\ sel.recognizer \in Engines /\ sel.translate \in Nat \ {0}
    /\ \A e \in Engines : sel.conc[e] # None => sel.conc[e] \in Nat \ {0}
    /\ Len(file) \in {0, 1} /\ lock \in Setters \cup {None}
    /\ \A g \in 1..Cur : gates[g].width \in Nat \ {0}
    /\ \A t \in Setters :
         pc[t] \in {"idle", "assign", "engine", "enter", "invalidate", "width",
                    "swap"} \cup Saving
    /\ job \in [Pages -> {"idle", "planned", "asking"} \cup Inside]

\* "persisted to a small json so restarts keep the user's choice": whenever no
\* setter is between its change and the end of its save, a restart would load
\* the selection as it stands, whoever saved last.
SettledIsSaved == (\A t \in Setters : pc[t] \notin Saving) => Load(file) = sel

\* "In-flight readers finish on the old gate": across swaps every gate knows
\* exactly the pages inside it, and never more than its permits, of which it
\* has one at least whatever number was posted.
ReadersKeepTheirGate ==
    /\ AppTypeOK
    /\ \A g \in 1..Cur :
         /\ gates[g].readers = {p \in Pages : job[p] \in Inside /\ at[p] = g}
         /\ Cardinality(gates[g].readers) <= gates[g].width

\* "no run is torn down mid-flight": although a writer of one gate does not
\* exclude the readers of another, no running map loses the pool.
NoRunTornDown == Running # {} => pool # None

\* Neither a swap of the gate, a resize to any posted number, a drain nor a
\* restart leaves a page waiting for ever.
EveryPageEnds == \A p \in Pages : job[p] # "idle" ~> job[p] = "idle"

\* "exclusive vs all in-flight inference while we tear the pool down".
WriterExcludesInference ==
    (\E g \in 1..Cur : gates[g].writer # None)
        => \A p \in Pages : job[p] \notin Inside
=============================================================================
