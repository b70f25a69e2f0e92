----------------------------- MODULE EngineHost -----------------------------
(***************************************************************************)
(* What a local engine runs on: the torch build and the weights an install *)
(* leaves on disk, the worker process that loads them and picks a device,  *)
(* the cards such a process opens, and how what a task raises gets home    *)
(* (app/gpus.py, app/engine_pool.py's worker side, scanlation_sdk's        *)
(* device.py and local_engine.py, the weights half of the plugins).        *)
(*                                                                         *)
(* An engine has one worker here; module EnginePool has the executors.  A  *)
(* card sleeps while no process holds a context on it.                     *)
(***************************************************************************)
EXTENDS Naturals, FiniteSets, Sequences

CONSTANTS
    LocalEngines,     \* local engines
    Files,       \* what one engine's weights consist of
    Marker(_),   \* the files is_installed looks for
    Online(_),   \* whether the engine's _load fetches what is missing
    Cards,       \* how many cards are passed through
    Nodes,       \* vendors whose device nodes exist
    CPU,         \* the device "cpu"
    Indices,     \* N of the device settings "cuda:N"
    Absent,      \* what is not there
    MaxPips,     \* bound: packages installed
    MaxBreaks,     \* bound: downloads cut short
    MaxTasks     \* bound: calls of one engine

ASSUME HostBoundsAreNat == {Cards, MaxPips, MaxBreaks, MaxTasks} \subseteq Nat
ASSUME IndicesAreNat == Indices \subseteq Nat
ASSUME OthersAreNoEngines == {"probe", "server"} \cap LocalEngines = {}
ASSUME MarkersAreFiles == \A e \in LocalEngines : Marker(e) \subseteq Files

VARIABLES
    torch,     \* the build in /plugins, or Absent
    imported,  \* the torch module of the server process, or Absent
    picker,    \* list_gpus' cache: <<>>, or <<the number of cards>>
    files,     \* what each engine has on disk
    fetching,  \* engines whose install() runs
    worker,    \* "none", "loading", "ready" per engine
    device,    \* what the worker loaded onto
    opened,    \* processes that hold a context: engines, "probe", "server"
    call,      \* per engine: state, retried, met (what befell it)
    pips, breaks, tasks

diskVars == <<torch, files, fetching, pips, breaks>>
adminVars == <<imported, picker>>
processVars == <<worker, device, call, tasks>>
hostVars == <<diskVars, adminVars, processVars, opened>>

NoCall == [state |-> "none", retried |-> FALSE, met |-> {}]

HostInit ==
    /\ torch = Absent /\ imported = Absent /\ picker = <<>>
    /\ files = [e \in LocalEngines |-> {}] /\ fetching = {}
    /\ worker = [e \in LocalEngines |-> "none"]
    /\ device = [e \in LocalEngines |-> CPU]
    /\ opened = {}
    /\ call = [e \in LocalEngines |-> NoCall]
    /\ pips = 0 /\ breaks = 0 /\ tasks = [e \in LocalEngines |-> 0]
-----------------------------------------------------------------------------
(* Installing: the torch build pip picks, and weights file by file.        *)

\* detect_gpu_vendor
Vendor == CASE Nodes = {} -> Absent
            [] Cardinality(Nodes) > 1 -> "both"
            [] OTHER -> CHOOSE v \in Nodes : TRUE

\* _torch_pip_args: a vendor no wheel index stands for gives the CPU build.
TorchBuild(backend, vendor) ==
    IF backend = "gpu" /\ vendor \in {"amd", "nvidia"} THEN vendor ELSE "cpu"

PipInstalls ==
    /\ pips < MaxPips /\ pips' = pips + 1
    /\ \E backend \in {"cpu", "gpu"}, chosen \in {Absent, "amd", "nvidia"} :
         torch' = TorchBuild(backend, IF chosen = Absent THEN Vendor ELSE chosen)
    /\ UNCHANGED <<files, fetching, breaks, adminVars, processVars, opened>>

IsInstalled(e) == Marker(e) \subseteq files[e]

Installs(e) ==
    /\ e \notin fetching /\ ~IsInstalled(e)
    /\ fetching' = fetching \cup {e}
    /\ UNCHANGED <<torch, files, pips, breaks, adminVars, processVars, opened>>

\* snapshot_download leaves each file whole, in no fixed order.
FileArrives(e) ==
    /\ e \in fetching
    /\ \E f \in Files \ files[e] : files' = [files EXCEPT ![e] = @ \cup {f}]
    /\ fetching' = IF files'[e] = Files THEN fetching \ {e} ELSE fetching
    /\ UNCHANGED <<torch, pips, breaks, adminVars, processVars, opened>>

DownloadCut(e) ==
    /\ e \in fetching /\ breaks < MaxBreaks
    /\ breaks' = breaks + 1 /\ fetching' = fetching \ {e}
    /\ UNCHANGED <<torch, files, pips, adminVars, processVars, opened>>
-----------------------------------------------------------------------------
(* The admin page asks what the host has.                                  *)

\* The cards a process sees that initializes this build.
Seen(build) == IF build \in Nodes THEN Cards ELSE 0

\* get_settings: the cards it was told of, and the build its own process has
\* imported; importing torch opens no card.
Shows(c) ==
    /\ picker' = <<c>>
    /\ imported' = IF imported = Absent THEN torch ELSE imported
    /\ UNCHANGED <<diskVars, processVars>>

ListGpusCached == picker # <<>> /\ Shows(picker[1]) /\ UNCHANGED opened

\* Defect: the server process asks torch itself.
ListGpusHere ==
    /\ picker = <<>> /\ Shows(Seen(torch))
    /\ opened' = IF Seen(torch) > 0 THEN opened \cup {"server"} ELSE opened

\* list_gpus starts a child, which initializes the build it finds,
ListGpus ==
    /\ picker = <<>> /\ "probe" \notin opened
    /\ opened' = opened \cup {"probe"}
    /\ UNCHANGED <<diskVars, adminVars, processVars>>

\* and prints what it sees, or fails or is killed at its time-out; either way
\* the answer is cached.
ProbeEnds ==
    /\ "probe" \in opened /\ opened' = opened \ {"probe"}
    /\ \E n \in {Seen(torch), 0} : Shows(n)
-----------------------------------------------------------------------------
(* A worker: started by a call, loaded once, reaped by the idle sweep.     *)

Call(e) ==
    /\ call[e].state = "none" /\ tasks[e] < MaxTasks
    /\ tasks' = [tasks EXCEPT ![e] = @ + 1]
    /\ call' = [call EXCEPT ![e].state = "waiting"]
    /\ worker' = [worker EXCEPT ![e] = IF @ = "none" THEN "loading" ELSE @]
    /\ UNCHANGED <<diskVars, adminVars, device, opened>>

\* pick_device: only a hint other than CPU asks torch for its cards, and an
\* index out of range is the default card.
PickDevice(hint) ==
    IF hint = CPU \/ Seen(torch) = 0 THEN CPU
    ELSE IF hint < Seen(torch) THEN hint ELSE 0

\* _worker_init: load() at the device setting the pool was built with.  The
\* libraries ask for the cards whichever device the engine wants.
WorkerLoads(e) ==
    /\ worker[e] = "loading" /\ IsInstalled(e)
    /\ files[e] = Files \/ Online(e)
    /\ \E hint \in {CPU} \cup Indices :
         device' = [device EXCEPT ![e] = PickDevice(hint)]
    /\ opened' = IF Seen(torch) > 0 THEN opened \cup {e} ELSE opened
    /\ files' = [files EXCEPT ![e] = Files]
    /\ fetching' = fetching \ {e}
    /\ worker' = [worker EXCEPT ![e] = "ready"]
    /\ UNCHANGED <<torch, pips, breaks, adminVars, call, tasks>>

\* A process that is gone gives its cards back; the pool retries its call once
\* on a new worker.
Gone(e, met) ==
    /\ opened' = opened \ {e} /\ device' = [device EXCEPT ![e] = CPU]
    /\ worker' = [worker EXCEPT ![e] =
                    IF call[e].state = "waiting" /\ ~call[e].retried
                      THEN "loading" ELSE "none"]
    /\ call' = [call EXCEPT ![e] =
                  IF @.state # "waiting" THEN @
                  ELSE [state |-> IF @.retried THEN "broken" ELSE "waiting",
                        retried |-> TRUE, met |-> @.met \cup {met}]]
    /\ UNCHANGED <<diskVars, adminVars, tasks>>

\* The initializer raises when the weights are absent, or cannot be read.
LoadFails(e) ==
    /\ worker[e] = "loading"
    /\ ~IsInstalled(e) \/ (files[e] # Files /\ ~Online(e))
    /\ Gone(e, "load")

WorkerDies(e) == worker[e] = "ready" /\ Gone(e, "death")

TaskReturns(e) ==
    /\ worker[e] = "ready" /\ call[e].state = "waiting"
    /\ call' = [call EXCEPT ![e].state = "answered"]
    /\ UNCHANGED <<diskVars, adminVars, worker, device, tasks, opened>>

\* Defect: every exception is re-raised as it is, and one the parent cannot
\* unpickle breaks the executor.
RaisedAsItIs(kind) == IF kind = "plain" THEN "cause" ELSE "breaks"

\* _sendable: one that does not survive pickling is restated.
Sendable(kind) == IF kind = "plain" THEN "cause" ELSE "restated"

TaskRaises(e) ==
    /\ worker[e] = "ready" /\ call[e].state = "waiting"
    /\ \E kind \in {"plain", "http"} :
         IF Sendable(kind) = "breaks" THEN Gone(e, "raise")
         ELSE /\ call' = [call EXCEPT ![e].state = Sendable(kind),
                                      ![e].met = @ \cup {"raise"}]
              /\ UNCHANGED <<diskVars, adminVars, worker, device, tasks, opened>>

CallReturns(e) ==
    /\ call[e].state \in {"answered", "cause", "restated", "broken"}
    /\ call' = [call EXCEPT ![e] = NoCall]
    /\ UNCHANGED <<diskVars, adminVars, worker, device, tasks, opened>>

\* The idle sweep, or the shutdown of the server, ends the process.
Reaped(e) ==
    /\ worker[e] = "ready" /\ call[e].state = "none" /\ Gone(e, "reaped")
-----------------------------------------------------------------------------
Admin == ListGpusCached \/ ListGpus \/ ProbeEnds
Installing(e) == Installs(e) \/ FileArrives(e) \/ DownloadCut(e)
WorkerProceeds(e) == WorkerLoads(e) \/ LoadFails(e) \/ TaskReturns(e) \/ TaskRaises(e)

HostNext ==
    \/ PipInstalls \/ Admin
    \/ \E e \in LocalEngines : \/ Installing(e) \/ Call(e) \/ WorkerProceeds(e)
                          \/ WorkerDies(e) \/ CallReturns(e) \/ Reaped(e)

\* The probe has a time-out, a load and a task end, and the sweep comes round.
HostFairness ==
    /\ WF_hostVars(ProbeEnds)
    /\ \A e \in LocalEngines : /\ WF_hostVars(WorkerProceeds(e))
                          /\ WF_hostVars(CallReturns(e))
                          /\ WF_hostVars(Reaped(e))
HostSpec == HostInit /\ [][HostNext]_hostVars /\ HostFairness
-----------------------------------------------------------------------------
\* "Only a process that EXITS releases the context": whatever process opened a
\* card, there comes a time when none holds one.
CardsSuspend == opened # {} ~> opened = {}

\* "buries the real cause under a wrong one and throws away a pool": a call
\* whose task raised ends with what was raised, never as a broken pool; and a
\* loaded worker has whole weights, on a card that is there.
CauseIsSeen ==
    \A e \in LocalEngines :
        /\ "raise" \in call[e].met => call[e].state \in {"cause", "restated"}
        /\ worker[e] = "ready" => files[e] = Files
        /\ device[e] # CPU => e \in opened /\ device[e] < Cards
=============================================================================
