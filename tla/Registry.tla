------------------------------ MODULE Registry ------------------------------
(***************************************************************************)
(* app/registry.py, class Registry, and the life of what it hands out: the *)
(* HTTP translators of scanlation_sdk/http_engine.py.  A page thread gets  *)
(* its translator while it detects and translates with it much later, when *)
(* a device change (unload_one) may have closed its client, and a plugin   *)
(* install may be rebuilding the class table.  translate_batch answers any *)
(* failure of its one call with a call per text; a call may fail because   *)
(* its client was closed, or for any reason of the backend's.              *)
(*                                                                         *)
(* get has a lock-free fast path; a section under the registry's lock is   *)
(* one action unless it loads or closes.  Local engines live in the worker *)
(* pools, so the table holds translators, and the times of last use, which *)
(* only the sweep of local engines reads, are left out.                    *)
(***************************************************************************)
EXTENDS Integers, FiniteSets

CONSTANTS
    Callers,     \* page threads
    Engines,     \* translator names
    None,        \* Python's None
    Known,       \* engines installed when the process starts
    MaxPages,    \* bound: pages one caller translates
    MaxUnloads   \* bound: device changes that unload an engine

ASSUME KnownEngines == Known \subseteq Engines
ASSUME NoneIsNoInstance == None \notin Engines \X Nat
ASSUME RegistryBoundsAreNat == MaxPages \in Nat /\ MaxUnloads \in Nat

VARIABLES
    classes,   \* self._classes: the engines discovered
    insts,     \* self._instances: an instance <<engine, n>>, or None
    made,      \* instances ever created of each engine
    lost,      \* of those, the ones whose load raised
    rlock,     \* self._lock: whether a load holds it
    closing,   \* the instance an unload is closing, or None
    open,      \* instances with an httpx client that is not closed
    at,        \* where each caller is
    name,      \* the translator of each caller's plan
    mine,      \* the instance each caller got, or None
    pages,     \* pages a caller began
    misses,    \* calls to the backend that its page lost
    unloads    \* instances unload_one has forgotten

tableVars == <<classes, insts, made, lost, rlock, closing>>
callerVars == <<at, name, mine, pages, misses>>
regVars == <<classes, insts, made, lost, rlock, closing, open, at,
             name, mine, pages, misses, unloads>>

\* The process has just started.
RegStart ==
    /\ classes = Known
    /\ insts = [e \in Engines |-> None]
    /\ made = [e \in Engines |-> 0]
    /\ lost = [e \in Engines |-> 0]
    /\ rlock = FALSE /\ closing = None /\ open = {}
    /\ at = [c \in Callers |-> "idle"]
    /\ name = [c \in Callers |-> None]
    /\ mine = [c \in Callers |-> None]
    /\ misses = [c \in Callers |-> 0]
    /\ unloads = 0

RegInit == RegStart /\ pages = [c \in Callers |-> 0]

Goto(c, l) == at' = [at EXCEPT ![c] = l]
Over == {"idle", "unknown", "unloadable", "failed"}  \* the page has its answer
LockIsFree == ~rlock /\ closing = None
-----------------------------------------------------------------------------
(* get.                                                                    *)

\* The lock-free look.
GetFast(c, e) ==
    /\ at[c] \in Over /\ pages[c] < MaxPages
    /\ pages' = [pages EXCEPT ![c] = @ + 1]
    /\ name' = [name EXCEPT ![c] = e]
    /\ mine' = [mine EXCEPT ![c] = insts[e]]
    /\ misses' = [misses EXCEPT ![c] = 0]
    /\ Goto(c, IF insts[e] # None THEN "have" ELSE "lock")
    /\ UNCHANGED <<tableVars, open, unloads>>

\* Another thread loaded it while this one waited for the lock.
GetFindsLoaded(c) ==
    /\ at[c] = "lock" /\ LockIsFree /\ insts[name[c]] # None
    /\ mine' = [mine EXCEPT ![c] = insts[name[c]]]
    /\ Goto(c, "have")
    /\ UNCHANGED <<classes, insts, made, lost, rlock, closing, open, name, pages,
                   misses, unloads>>

\* self._classes[role][name] raises a KeyError.
GetFindsNoClass(c) ==
    /\ at[c] = "lock" /\ LockIsFree
    /\ insts[name[c]] = None /\ name[c] \notin classes
    /\ Goto(c, "unknown")
    /\ UNCHANGED <<tableVars, open, name, mine, pages, misses, unloads>>

\* Defect: the miss is not looked at again under the lock.
GetCreatesBlindly(c) ==
    LET inst == <<name[c], made[name[c]] + 1>> IN
    /\ at[c] = "lock" /\ LockIsFree /\ name[c] \in classes
    /\ rlock' = TRUE
    /\ made' = [made EXCEPT ![name[c]] = @ + 1]
    /\ mine' = [mine EXCEPT ![c] = inst] /\ Goto(c, "load")
    /\ UNCHANGED <<classes, insts, lost, closing, open, name, pages,
                   misses, unloads>>

\* The class is called; its load runs under the lock.
GetCreates(c) ==
    LET inst == <<name[c], made[name[c]] + 1>> IN
    /\ at[c] = "lock" /\ LockIsFree
    /\ insts[name[c]] = None /\ name[c] \in classes
    /\ rlock' = TRUE
    /\ made' = [made EXCEPT ![name[c]] = @ + 1]
    /\ mine' = [mine EXCEPT ![c] = inst] /\ Goto(c, "load")
    /\ UNCHANGED <<classes, insts, lost, closing, open, name, pages,
                   misses, unloads>>

\* load opens the client, and only then is the instance published.
GetPublishes(c) ==
    /\ at[c] = "load"
    /\ open' = open \cup {mine[c]}
    /\ insts' = [insts EXCEPT ![name[c]] = mine[c]]
    /\ rlock' = FALSE /\ Goto(c, "have")
    /\ UNCHANGED <<classes, made, lost, closing, name, mine, pages, misses,
                   unloads>>

\* load raises: the lock is free again, and the next page tries anew.
LoadRaises(c) ==
    /\ at[c] = "load"
    /\ lost' = [lost EXCEPT ![name[c]] = @ + 1]
    /\ rlock' = FALSE /\ Goto(c, "unloadable")
    /\ UNCHANGED <<classes, insts, made, closing, open, name, mine,
                   pages, misses, unloads>>

\* unload_one, under the lock: forget the instance, then close its client.  A
\* request the client has under way is lost.  Without an instance it does
\* nothing.
UnloadOne(e) ==
    LET Cut == {c \in Callers : mine[c] = insts[e] /\ at[c] \in {"batch", "text"}} IN
    /\ LockIsFree /\ insts[e] # None /\ unloads < MaxUnloads
    /\ unloads' = unloads + 1
    /\ insts' = [insts EXCEPT ![e] = None]
    /\ closing' = insts[e]
    /\ open' = open \ {insts[e]}
    /\ at' = [c \in Callers |-> IF c \notin Cut THEN at[c] ELSE
                                IF at[c] = "batch" THEN "batch_cut" ELSE "text_cut"]
    /\ misses' = [c \in Callers |-> IF c \in Cut THEN misses[c] + 1 ELSE misses[c]]
    /\ UNCHANGED <<classes, made, lost, rlock, name, mine, pages>>

\* self._client = None, after close has returned.
UnloadEnds ==
    /\ closing # None /\ closing' = None
    /\ UNCHANGED <<classes, insts, made, lost, rlock, open, callerVars,
                   unloads>>
-----------------------------------------------------------------------------
(* translate_batch with the instance, after the page was recognized.       *)

\* _post opens the client again if it finds none.  A call lasts from there to
\* its answer.
Post(c, from, to) ==
    /\ at[c] = from /\ mine[c] # closing
    /\ open' = open \cup {mine[c]} /\ Goto(c, to)
    /\ UNCHANGED <<tableVars, name, mine, pages, misses, unloads>>

\* Between the two steps of an unload it finds one that is closed.
PostsClosed(c, from, to) ==
    /\ at[c] = from /\ mine[c] = closing /\ Goto(c, to)
    /\ misses' = [misses EXCEPT ![c] = @ + 1]
    /\ UNCHANGED <<tableVars, open, name, mine, pages, unloads>>

\* Defect: a closed client is not opened again.
TextPostsClosed(c) ==
    /\ at[c] = "fallback"
    /\ Goto(c, IF mine[c] \in open THEN "text" ELSE "failed")
    /\ UNCHANGED <<tableVars, open, name, mine, pages, misses, unloads>>

BatchPosts(c) == Post(c, "have", "batch") \/ PostsClosed(c, "have", "batch_cut")
TextPosts(c) == Post(c, "fallback", "text") \/ PostsClosed(c, "fallback", "text_cut")

\* An answer comes back over a client that is open; over one that was closed
\* and opened by another page it may.
Replied(c) ==
    \/ at[c] \in {"batch", "text"}
    \/ at[c] \in {"batch_cut", "text_cut"} /\ mine[c] \in open

\* It was the page's last.
Answered(c) ==
    /\ Replied(c) /\ Goto(c, "idle")
    /\ name' = [name EXCEPT ![c] = None]
    /\ mine' = [mine EXCEPT ![c] = None]
    /\ UNCHANGED <<tableVars, open, pages, misses, unloads>>

\* It was that of one text, and the loop has another.
NextText(c) ==
    /\ Replied(c) /\ at[c] \in {"text", "text_cut"} /\ Goto(c, "fallback")
    /\ UNCHANGED <<tableVars, open, name, mine, pages, misses, unloads>>

\* A call that was not cut fails as well: a time-out, an HTTP error; for the
\* batch also JSON that does not parse or the wrong number of texts.
Fails(c, whole, cut, to) ==
    /\ at[c] \in {whole, cut} /\ Goto(c, to)
    /\ misses' = [misses EXCEPT ![c] = IF at[c] = whole THEN @ + 1 ELSE @]
    /\ UNCHANGED <<tableVars, open, name, mine, pages, unloads>>

\* "ANY failure falls back to a per-text translate() loop"; a failure of the
\* loop is the page's.
BatchFails(c) == Fails(c, "batch", "batch_cut", "fallback")
TextFails(c) == Fails(c, "text", "text_cut", "failed")

CallerContinues(c) ==
    \/ GetFindsLoaded(c) \/ GetFindsNoClass(c)
    \/ GetCreates(c) \/ GetPublishes(c) \/ LoadRaises(c)
    \/ BatchPosts(c) \/ TextPosts(c) \/ Answered(c) \/ NextText(c)
    \/ BatchFails(c) \/ TextFails(c)

RegNext ==
    \/ \E c \in Callers : CallerContinues(c) \/ \E e \in Known : GetFast(c, e)
    \/ \E e \in Engines : UnloadOne(e)
    \/ UnloadEnds

RegSpec == RegInit /\ [][RegNext]_regVars
-----------------------------------------------------------------------------
\* The types of the tables, the instances and the callers.
RegTypeOK ==
    /\ classes \subseteq Engines
    /\ rlock \in BOOLEAN /\ made \in [Engines -> Nat]
    /\ \A e \in Engines : insts[e] # None => insts[e] \in {e} \X (1..made[e])
    /\ at \in [Callers -> {"idle", "lock", "load", "have", "batch",
                 "batch_cut", "fallback", "text", "text_cut", "unknown",
                 "unloadable", "failed"}]

\* "Serializes instance create+load so a key loads exactly once" and "publish
\* only after a successful load": however many pages ask at once, an engine
\* is loaded once, and once more per unload; a load that raised, which the
\* next page repeats, leaves nothing behind, so that whoever finds an instance
\* in the table finds its client open.
LoadsOnce ==
    \A e \in Engines :
        /\ made[e] - lost[e] <= 1 + unloads
        /\ insts[e] # None => insts[e] \in open

\* "ANY failure [...] falls back to a per-text translate() loop": a page is
\* lost to two calls of its own that failed, its batch and a text, never to
\* one.  A client that is closed while the page detects, or between two of
\* its calls, costs it nothing.
OneMissIsSurvived ==
    \A c \in Callers : at[c] = "failed" => misses[c] >= 2
=============================================================================
