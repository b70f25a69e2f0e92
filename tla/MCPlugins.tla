----------------------------- MODULE MCPlugins -----------------------------
(***************************************************************************)
(* TLC instances of what serves and installs engines, two parts that share *)
(* no variable: PluginInstall over Registry, and EngineHost.  Page threads, *)
(* admin pages and blocking threads, all at their bounds, are too many     *)
(* states, so the first part starts with part of each bound used up, in    *)
(* every way that leaves Budget requests between them.                     *)
(***************************************************************************)
EXTENDS PluginInstall, EngineHost, FiniteSetsExt

CONSTANT Budget  \* bound: requests of all threads together

\* The detector looks for its weights, the others for a configuration file,
\* and only manga-ocr's load fetches what it misses.
MCMarker(e) == IF e = "detector" THEN {"config", "weights"} ELSE {"config"}
MCOnline(e) == e = "manga"

VARIABLE part

pluginVars == <<instVars, hostVars, part>>
Installer(A) == part = "installer" /\ A /\ UNCHANGED <<hostVars, part>>
Host(A) == part = "host" /\ A /\ UNCHANGED <<instVars, part>>

Left(done, bound, S) == FoldSet(LAMBDA x, n : n + bound - done[x], 0, S)

Rested == pages = [c \in Callers |-> 0] /\ clicks = [t \in Tabs \cup Blocking |-> 0]

MCInit ==
    /\ InstStart /\ HostInit
    /\ \/ /\ part = "installer"
          /\ pages \in [Callers -> 0..MaxPages]
          /\ clicks \in [Tabs \cup Blocking -> 0..MaxClicks]
          /\ Left(pages, MaxPages, Callers)
               + Left(clicks, MaxClicks, Tabs \cup Blocking) = Budget
       \/ part = "host" /\ Rested

MCNext == Installer(InstNext) \/ Host(HostNext)

\* A part that does not run has nothing enabled that its fairness speaks of.
MCSpec == MCInit /\ [][MCNext]_pluginVars /\ InstFairness /\ HostFairness
=============================================================================
