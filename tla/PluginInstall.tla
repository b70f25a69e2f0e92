---------------------------- MODULE PluginInstall ----------------------------
(***************************************************************************)
(* app/plugins_install.py over the registry: workers that pip a package    *)
(* into the shared --target, rediscover the entry points and download      *)
(* weights with the process's stdout redirected to their stream.  A worker *)
(* serves a stream (POST /install_plugin_stream/), claimed by name in      *)
(* _installing, or the blocking route, which claims nothing.               *)
(*                                                                         *)
(* The streams' client is web/app.js, enqueueInstall and pumpQueue: a page *)
(* installs one plugin at a time and goes on when its stream ends, well or *)
(* not.  A stream that is cut leaves its worker running.                   *)
(***************************************************************************)
EXTENDS Registry, Sequences

CONSTANTS
    Tabs,       \* admin pages
    Blocking,   \* threads of POST /install_plugins/
    Workers,    \* install threads that streams start
    Catalog,    \* engines the catalog offers
    Broken,     \* engines whose entry point cannot be loaded
    MaxClicks,  \* bound: installs one page or blocking thread asks for
    MaxCuts     \* bound: streams that are cut

Installers == Workers \cup Blocking

ASSUME KnownLoad == Known \cap Broken = {}
ASSUME InstallBoundsAreNat == MaxClicks \in Nat /\ MaxCuts \in Nat
ASSUME NoneIsNoName == None \notin Engines \cup Workers
ASSUME DisjointInstallers == Workers \cap Blocking = {} /\ Callers \cap Installers = {}

VARIABLES
    disk,     \* packages with entry points on the plugins volume
    weights,  \* engines whose weights are there
    claimed,  \* _installing
    stdout,   \* sys.stdout: an installer's sink, or None for the real one
    ipc,      \* where each installer is
    plugin,   \* the engine it installs
    force,    \* whether it pips an engine that is known
    saved,    \* what its redirect_stdout will put back
    queue,    \* installQueue of each page, each with its force
    current,  \* currentInstall of each page, or None
    stream,   \* the worker whose events the page reads, or None
    clicks,   \* installs asked for
    cuts      \* streams cut

volumeVars == <<disk, weights>>
workVars == <<claimed, stdout, ipc, plugin, force, saved>>
tabVars == <<queue, current, stream>>
instVars == <<regVars, volumeVars, workVars, tabVars, clicks, cuts>>

InstStart ==
    /\ RegStart
    /\ disk = Known /\ weights = Known /\ claimed = {} /\ stdout = None
    /\ ipc = [w \in Installers |-> "free"]
    /\ plugin = [w \in Installers |-> None]
    /\ force = [w \in Installers |-> FALSE]
    /\ saved = [w \in Installers |-> None]
    /\ queue = [t \in Tabs |-> <<>>]
    /\ current = [t \in Tabs |-> None]
    /\ stream = [t \in Tabs |-> None]
    /\ cuts = 0

InstInit == InstStart /\ RegInit /\ clicks = [t \in Tabs \cup Blocking |-> 0]

IGoto(w, l) == ipc' = [ipc EXCEPT ![w] = l]
Busy == {w \in Installers : ipc[w] \notin {"free", "ended"}}
-----------------------------------------------------------------------------
(* The page.                                                               *)

\* enqueueInstall: what is installing or queued is not queued twice.  Only an
\* engine whose weights are there is offered for a forced install.
Click(t, e, f) ==
    /\ f => e \in weights
    /\ clicks[t] < MaxClicks /\ clicks' = [clicks EXCEPT ![t] = @ + 1]
    /\ e # current[t] /\ \A i \in 1..Len(queue[t]) : queue[t][i].name # e
    /\ queue' = [queue EXCEPT ![t] = Append(@, [name |-> e, force |-> f])]
    /\ UNCHANGED <<regVars, volumeVars, workVars, current, stream, cuts>>

Begin(w, e, f) ==
    /\ ipc[w] = "free" /\ IGoto(w, "find")
    /\ plugin' = [plugin EXCEPT ![w] = e]
    /\ force' = [force EXCEPT ![w] = f]

\* Defect: the claim is not looked at.
PumpStartsUnclaimed(t, w) ==
    LET next == Head(queue[t]) IN
    /\ current[t] = None /\ queue[t] # <<>>
    /\ queue' = [queue EXCEPT ![t] = Tail(@)]
    /\ current' = [current EXCEPT ![t] = next.name]
    /\ claimed' = claimed \cup {next.name}
    /\ Begin(w, next.name, next.force)
    /\ stream' = [stream EXCEPT ![t] = w]
    /\ UNCHANGED <<regVars, volumeVars, stdout, saved, clicks, cuts>>

\* pumpQueue and streamInstall, up to _begin_install's claim.
PumpStarts(t, w) ==
    LET next == Head(queue[t]) IN
    /\ current[t] = None /\ queue[t] # <<>> /\ next.name \notin claimed
    /\ queue' = [queue EXCEPT ![t] = Tail(@)]
    /\ current' = [current EXCEPT ![t] = next.name]
    /\ claimed' = claimed \cup {next.name}
    /\ Begin(w, next.name, next.force)
    /\ stream' = [stream EXCEPT ![t] = w]
    /\ UNCHANGED <<regVars, volumeVars, stdout, saved, clicks, cuts>>

\* "already installing": the stream is one error event.
PumpRefused(t) ==
    /\ current[t] = None /\ queue[t] # <<>> /\ Head(queue[t]).name \in claimed
    /\ queue' = [queue EXCEPT ![t] = Tail(@)]
    /\ UNCHANGED <<regVars, volumeVars, workVars, current, stream, clicks, cuts>>

\* The sentinel ends the stream.
StreamEnds(t) ==
    /\ current[t] # None /\ ipc[stream[t]] = "ended"
    /\ current' = [current EXCEPT ![t] = None]
    /\ stream' = [stream EXCEPT ![t] = None]
    /\ UNCHANGED <<regVars, volumeVars, workVars, queue, clicks, cuts>>

\* The connection breaks, or the page is loaded again: the worker goes on.
StreamIsCut(t) ==
    /\ current[t] # None /\ cuts < MaxCuts /\ cuts' = cuts + 1
    /\ current' = [current EXCEPT ![t] = None]
    /\ stream' = [stream EXCEPT ![t] = None]
    /\ queue' \in {queue, [queue EXCEPT ![t] = <<>>]}
    /\ UNCHANGED <<regVars, volumeVars, workVars, clicks>>

\* One plugin of POST /install_plugins/.
BlockingStarts(w, e, f) ==
    /\ clicks[w] < MaxClicks /\ clicks' = [clicks EXCEPT ![w] = @ + 1]
    /\ Begin(w, e, f)
    /\ UNCHANGED <<regVars, volumeVars, claimed, stdout, saved, tabVars, cuts>>
-----------------------------------------------------------------------------
(* _run_install.                                                           *)

WorkStep(w, from) ==
    /\ ipc[w] = from
    /\ UNCHANGED <<insts, made, lost, rlock, closing, open, callerVars,
                   unloads, plugin, force, tabVars, clicks, cuts>>

\* find_class, unless forced; an engine outside the catalog is an error.
Finds(w) ==
    /\ WorkStep(w, "find")
    /\ IGoto(w, CASE ~force[w] /\ plugin[w] \in classes -> "weights"
                  [] plugin[w] \in Catalog -> "pip"
                  [] OTHER -> "over")
    /\ UNCHANGED <<classes, volumeVars, claimed, stdout, saved>>

PipEnds(w) ==
    /\ WorkStep(w, "pip")
    /\ \/ disk' = disk \cup {plugin[w]} /\ IGoto(w, "clear")
       \/ disk' = disk /\ IGoto(w, "over")
    /\ UNCHANGED <<classes, weights, claimed, stdout, saved>>

\* rediscover empties the class table, then fills it.
RediscoverClears(w) ==
    /\ WorkStep(w, "clear") /\ classes' = {} /\ IGoto(w, "fill")
    /\ UNCHANGED <<volumeVars, claimed, stdout, saved>>

RediscoverFills(w) ==
    /\ WorkStep(w, "fill") /\ classes' = classes \cup (disk \ Broken)
    /\ IGoto(w, "find2")
    /\ UNCHANGED <<volumeVars, claimed, stdout, saved>>

\* "installed but not discovered" is an error.
FindsAgain(w) ==
    /\ WorkStep(w, "find2")
    /\ IGoto(w, IF plugin[w] \in classes THEN "weights" ELSE "over")
    /\ UNCHANGED <<classes, volumeVars, claimed, stdout, saved>>

\* inst.is_installed(): a stream redirects stdout around the download.
NeedsWeights(w) ==
    /\ WorkStep(w, "weights")
    /\ IF plugin[w] \in weights
         THEN IGoto(w, "over") /\ UNCHANGED <<stdout, saved>>
         ELSE /\ IGoto(w, "download")
              /\ IF w \in Workers
                   THEN saved' = [saved EXCEPT ![w] = stdout] /\ stdout' = w
                   ELSE UNCHANGED <<stdout, saved>>
    /\ UNCHANGED <<classes, volumeVars, claimed>>

\* inst.install() returns or raises; either way the redirect is undone.
DownloadEnds(w) ==
    /\ WorkStep(w, "download") /\ IGoto(w, "over")
    /\ weights' \in {weights, weights \cup {plugin[w]}}
    /\ stdout' = IF w \in Workers THEN saved[w] ELSE stdout
    /\ UNCHANGED <<classes, disk, claimed, saved>>

\* Defect: only an install that succeeds sends the sentinel.
WorkerEndsSilently(w) ==
    /\ WorkStep(w, "over")
    /\ IGoto(w, IF w \in Workers /\ plugin[w] \in weights THEN "ended" ELSE "free")
    /\ claimed' = IF w \in Workers THEN claimed \ {plugin[w]} ELSE claimed
    /\ UNCHANGED <<classes, volumeVars, stdout, saved>>

\* The done or error event, then the claim given back, then the sentinel; a
\* blocking thread returns.
WorkerEnds(w) ==
    /\ WorkStep(w, "over")
    /\ IGoto(w, IF w \in Workers THEN "ended" ELSE "free")
    /\ claimed' = IF w \in Workers THEN claimed \ {plugin[w]} ELSE claimed
    /\ UNCHANGED <<classes, volumeVars, stdout, saved>>

Works(w) ==
    \/ Finds(w) \/ PipEnds(w) \/ RediscoverClears(w) \/ RediscoverFills(w)
    \/ FindsAgain(w) \/ NeedsWeights(w) \/ DownloadEnds(w) \/ WorkerEnds(w)
TabContinues(t) ==
    (\E w \in Workers : PumpStarts(t, w)) \/ PumpRefused(t) \/ StreamEnds(t)

InstNext ==
    \/ RegNext /\ UNCHANGED <<volumeVars, workVars, tabVars, clicks, cuts>>
    \/ \E t \in Tabs : \/ \E e \in Engines, f \in BOOLEAN : Click(t, e, f)
                       \/ TabContinues(t) \/ StreamIsCut(t)
    \/ \E w \in Blocking, e \in Engines, f \in BOOLEAN : BlockingStarts(w, e, f)
    \/ \E w \in Installers : Works(w)

InstSpec == InstInit /\ [][InstNext]_instVars

\* pip and downloads end, threads are scheduled, pages read their streams.
InstFairness ==
    /\ \A w \in Installers : WF_instVars(Works(w))
    /\ \A t \in Tabs : WF_instVars(TabContinues(t))
-----------------------------------------------------------------------------

\* The types of the volume, the workers and the pages.
InstTypeOK ==
    /\ RegTypeOK
    /\ disk \subseteq Engines /\ weights \subseteq Engines
    /\ claimed \subseteq Engines /\ stdout \in Workers \cup {None}
    /\ ipc \in [Installers -> {"free", "find", "pip", "clear", "fill", "find2",
                               "weights", "download", "over", "ended"}]
    /\ \A t \in Tabs : (current[t] = None) <=> (stream[t] = None)

\* "a second click must not start a duplicate concurrent install of the same
\* plugin": whatever pages do, however streams are cut, one worker at most
\* installs a plugin, and GET /get_settings/ names exactly what is installing.
ClaimsAreWorkers ==
    /\ InstTypeOK
    /\ claimed = {plugin[w] : w \in Busy \cap Workers}
    /\ \A v, w \in Busy \cap Workers : plugin[v] = plugin[w] => v = w

\* What a page queued is installed or refused: its queue always drains.
QueueDrains ==
    \A t \in Tabs : (queue[t] # <<>> \/ current[t] # None)
                      ~> (queue[t] = <<>> /\ current[t] = None)
=============================================================================
