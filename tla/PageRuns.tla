------------------------------ MODULE PageRuns ------------------------------
(***************************************************************************)
(* app/orchestrator.py, app/cache.py and routes/run.py: what becomes of a  *)
(* /run_pipeline/ request.  The route serves it from the page cache, joins *)
(* it to a computation of the same page that is in flight, or computes the *)
(* page: detect, recognize, then translate under translate_sem and store.  *)
(*                                                                         *)
(* Coroutines switch at an await only, so a step is what one of them does  *)
(* between two awaits; the cache has a lock of its own and the admin       *)
(* routes run on other threads, between any two steps.  A task is one      *)
(* request.  A computation is named by the task that runs it, and so is    *)
(* its result.  The inference gate around recognize lets every asker in    *)
(* (module InferenceGate) and is left out; so are the worker pools         *)
(* (EnginePool), of which only the failures remain.                        *)
(***************************************************************************)
EXTENDS Integers, Sequences, FiniteSets

CONSTANTS
    Tasks,       \* run_pipeline requests, each made once
    Pages,       \* image md5s
    Plans,       \* RunPlan.cache_key: languages, engines, option hash
    Settings,    \* values of translate_concurrency the admin posts
    None,        \* Python's None
    Failed,      \* an exception, whatever it is
    Refused,     \* the 400 of a missing engine
    MaxClears,   \* bound: times the cache is cleared
    MaxSwaps     \* bound: times translate_sem is replaced

ASSUME FiniteTasks == IsFiniteSet(Tasks)
ASSUME SettingsAreNat == Settings \subseteq Nat
ASSUME OutcomesDiffer ==
    /\ {None, Failed, Refused} \cap Tasks = {}
    /\ None # Failed /\ None # Refused /\ Failed # Refused

Requests == [page : Pages, plan : Plans, force : BOOLEAN, skip : BOOLEAN]
Ids == Pages \X Plans \X BOOLEAN

VARIABLES
    req,        \* each task's request, None until it is made
    pc,         \* where each task is
    joined,     \* the computation a waiter awaits
    future,     \* what a computation's future was resolved with
    answer,     \* what a task's caller got
    inflight,   \* state.inflight: id -> the computation registered for it
    cache,      \* page_runs: key -> the computation whose result it holds
    sems,       \* the translate semaphores, oldest first; the last is current
    sem,        \* the semaphore a task uses
    pageRows,   \* page_stats, committed
    regionRows, \* region_stats, committed
    loose,      \* page rows of the open transaction
    clears,     \* times the cache was cleared
    asked       \* how often it had been when a task asked

statVars == <<pageRows, regionRows, loose>>
semVars == <<sems, sem>>
adminVars == <<clears, asked>>
pageVars == <<req, pc, joined, future, answer, inflight, cache, sems, sem,
              pageRows, regionRows, loose, clears, asked>>

PageInit ==
    /\ req = [t \in Tasks |-> None]
    /\ pc = [t \in Tasks |-> "new"]
    /\ joined = [t \in Tasks |-> None]
    /\ future = [t \in Tasks |-> None]
    /\ answer = [t \in Tasks |-> None]
    /\ inflight = [id \in Ids |-> None]
    /\ cache = [k \in Pages \X Plans |-> None]
    /\ sems = <<[limit |-> 1, users |-> <<>>]>>
    /\ sem = [t \in Tasks |-> 0]
    /\ pageRows = {} /\ regionRows = {} /\ loose = {}
    /\ clears = 0
    /\ asked = [t \in Tasks |-> 0]

Key(q) == <<q.page, q.plan>>

\* Defect: skip_translate is no part of the dedup key.
IdWithoutSkip(q) == <<q.page, q.plan, FALSE>>

\* (md5, *plan.cache_key, skip_translate)
Id(q) == <<q.page, q.plan, q.skip>>

Computing == {t \in Tasks : pc[t] \in {"detect", "recognize", "translate"}}

-----------------------------------------------------------------------------
(* The route: make_plan, the cache probe, the engines, the in-flight map.  *)

HitsCache(q) == ~q.force /\ ~q.skip /\ cache[Key(q)] # None

\* A request is made once, with whatever selection make_plan finds.
Asks(t, q) ==
    /\ pc[t] = "new"
    /\ req' = [req EXCEPT ![t] = q]
    /\ asked' = [asked EXCEPT ![t] = clears]

AnswerAtOnce(t, out) ==
    /\ answer' = [answer EXCEPT ![t] = out]
    /\ pc' = [pc EXCEPT ![t] = "answered"]
    /\ UNCHANGED <<joined, future, inflight, cache, semVars, statVars, clears>>

ServeCached(t, q) ==
    /\ Asks(t, q) /\ HitsCache(q)
    /\ AnswerAtOnce(t, cache[Key(q)])

\* _require: no engine is installed for some role.
Refuse(t, q) ==
    /\ Asks(t, q) /\ ~HitsCache(q)
    /\ AnswerAtOnce(t, Refused)

\* _run_deduped finds a computation of the same id in flight.
Join(t, q) ==
    /\ Asks(t, q) /\ ~HitsCache(q)
    /\ inflight[Id(q)] # None
    /\ joined' = [joined EXCEPT ![t] = inflight[Id(q)]]
    /\ pc' = [pc EXCEPT ![t] = "waiting"]
    /\ UNCHANGED <<future, answer, inflight, cache, semVars, statVars, clears>>

\* The image does not decode: BadImageError, before the first await.
FailToDecode(t, q) ==
    /\ Asks(t, q) /\ ~HitsCache(q)
    /\ inflight[Id(q)] = None
    /\ AnswerAtOnce(t, Failed)

\* The computation registers its future and goes off to detect.
Start(t, q) ==
    /\ Asks(t, q) /\ ~HitsCache(q)
    /\ inflight[Id(q)] = None
    /\ inflight' = [inflight EXCEPT ![Id(q)] = t]
    /\ pc' = [pc EXCEPT ![t] = "detect"]
    /\ UNCHANGED <<joined, future, answer, cache, semVars, statVars, clears>>

-----------------------------------------------------------------------------
(* compute(), and what _run_deduped does with its result or its exception. *)

\* Defect: only a result resolves the future; an exception is just raised.
ResolveResultsOnly(t, out) ==
    /\ future' = [future EXCEPT ![t] = IF out = Failed THEN None ELSE out]
    /\ inflight' = [inflight EXCEPT ![Id(req[t])] = None]
    /\ answer' = [answer EXCEPT ![t] = out]
    /\ pc' = [pc EXCEPT ![t] = "answered"]

\* Defect: the entry is released by a result only.
ResolveKeepingFailures(t, out) ==
    /\ future' = [future EXCEPT ![t] = out]
    /\ inflight' = IF out = Failed THEN inflight
                   ELSE [inflight EXCEPT ![Id(req[t])] = None]
    /\ answer' = [answer EXCEPT ![t] = out]
    /\ pc' = [pc EXCEPT ![t] = "answered"]

\* Resolve the future, release the in-flight entry, return or re-raise.
Resolve(t, out) ==
    /\ future' = [future EXCEPT ![t] = out]
    /\ inflight' = [inflight EXCEPT ![Id(req[t])] = None]
    /\ answer' = [answer EXCEPT ![t] = out]
    /\ pc' = [pc EXCEPT ![t] = "answered"]

\* record_stats commits the page's row and its crops' rows, and with them
\* whatever the shared connection had open.
StatsRecorded(t) ==
    /\ pageRows' = pageRows \cup loose \cup {t}
    /\ regionRows' = regionRows \cup {t}
    /\ loose' = {}

\* It fails on the page's row, or on a crop's: nothing rolls the page's back.
StatsFail(t) ==
    /\ loose' \in {loose, loose \cup {t}}
    /\ UNCHANGED <<pageRows, regionRows>>

\* The same once put_run has committed what was open.
StatsFailAfterCommit(t) ==
    /\ pageRows' = pageRows \cup loose
    /\ loose' \in {{}, {t}}
    /\ UNCHANGED regionRows

DetectReturns(t) ==
    /\ pc[t] = "detect"
    /\ pc' = [pc EXCEPT ![t] = "recognize"]
    /\ UNCHANGED <<req, joined, future, answer, inflight, cache, semVars,
                   statVars, adminVars>>

\* A stage raises: a pool that stays broken, an engine's error.
StageFails(t) ==
    /\ pc[t] \in {"detect", "recognize"}
    /\ Resolve(t, Failed)
    /\ UNCHANGED <<req, joined, cache, semVars, statVars, adminVars>>

\* A full run queues for the semaphore that is current now.
RecognizeReturns(t) ==
    /\ pc[t] = "recognize" /\ ~req[t].skip
    /\ sem' = [sem EXCEPT ![t] = Len(sems)]
    /\ sems' = [sems EXCEPT ![Len(sems)].users = Append(@, t)]
    /\ pc' = [pc EXCEPT ![t] = "translate"]
    /\ UNCHANGED <<req, joined, future, answer, inflight, cache, statVars, adminVars>>

\* Defect: a recognize-only result is cached like any other.
RecognizeOnlyIsCached(t) ==
    /\ pc[t] = "recognize" /\ req[t].skip
    /\ cache' = [cache EXCEPT ![Key(req[t])] = t]
    /\ \/ StatsRecorded(t) /\ Resolve(t, t)
       \/ StatsFail(t) /\ Resolve(t, Failed)
    /\ UNCHANGED <<req, joined, semVars, adminVars>>

\* A recognize-only run ends here, uncached.
RecognizeOnlyReturns(t) ==
    /\ pc[t] = "recognize" /\ req[t].skip
    /\ \/ StatsRecorded(t) /\ Resolve(t, t)
       \/ StatsFail(t) /\ Resolve(t, Failed)
    /\ UNCHANGED <<req, joined, cache, semVars, adminVars>>

\* The semaphore serves its users first come first served.
HasPermit(t) ==
    LET s == sems[sem[t]]
    IN  \E i \in DOMAIN s.users : s.users[i] = t /\ i <= s.limit

Release(t) ==
    /\ sems' = [sems EXCEPT ![sem[t]].users = SelectSeq(@, LAMBDA u : u # t)]
    /\ UNCHANGED sem

\* The translator raises, or put_run does.
TranslateFails(t) ==
    /\ pc[t] = "translate" /\ HasPermit(t)
    /\ Release(t)
    /\ Resolve(t, Failed)
    /\ UNCHANGED <<req, joined, cache, statVars, adminVars>>

\* Defect: the page is not stored.
TranslateReturnsUncached(t) ==
    /\ pc[t] = "translate" /\ HasPermit(t)
    /\ Release(t)
    /\ \/ StatsRecorded(t) /\ Resolve(t, t)
       \/ StatsFailAfterCommit(t) /\ Resolve(t, Failed)
    /\ UNCHANGED <<req, joined, cache, adminVars>>

\* put_run stores the page and commits, so that record_stats starts a
\* transaction of its own; a failure there fails a page that is cached.  No
\* await parts the two.
TranslateReturns(t) ==
    /\ pc[t] = "translate" /\ HasPermit(t)
    /\ Release(t)
    /\ cache' = [cache EXCEPT ![Key(req[t])] = t]
    /\ \/ StatsRecorded(t) /\ Resolve(t, t)
       \/ StatsFailAfterCommit(t) /\ Resolve(t, Failed)
    /\ UNCHANGED <<req, joined, adminVars>>

\* A waiter is given the future's result or exception.
WaiterWakes(t) ==
    /\ pc[t] = "waiting" /\ future[joined[t]] # None
    /\ answer' = [answer EXCEPT ![t] = future[joined[t]]]
    /\ pc' = [pc EXCEPT ![t] = "answered"]
    /\ UNCHANGED <<req, joined, future, inflight, cache, semVars, statVars, adminVars>>

-----------------------------------------------------------------------------
(* The admin routes, on threads of their own.                              *)

\* /clear_cache/: cache.clear() deletes every page and commits.
ClearCache ==
    /\ clears < MaxClears
    /\ clears' = clears + 1
    /\ cache' = [k \in DOMAIN cache |-> None]
    /\ pageRows' = pageRows \cup loose /\ loose' = {}
    /\ UNCHANGED <<req, pc, joined, future, answer, inflight, semVars,
                   regionRows, asked>>

\* /clear_stats/: cache.clear_stats() empties both tables.
ClearStats ==
    /\ pageRows' = {} /\ regionRows' = {} /\ loose' = {}
    /\ UNCHANGED <<req, pc, joined, future, answer, inflight, cache, semVars,
                   adminVars>>

\* /set_client_config/ replaces translate_sem whenever the body names
\* translate_concurrency, changed or not; the limit is at least 1.
SetTranslateConcurrency(n) ==
    /\ Len(sems) <= MaxSwaps
    /\ sems' = Append(sems, [limit |-> IF n < 1 THEN 1 ELSE n, users |-> <<>>])
    /\ UNCHANGED <<req, pc, joined, future, answer, inflight, cache, sem,
                   statVars, adminVars>>

\* Every request has been made and answered.
AllAnswered ==
    /\ \A t \in Tasks : pc[t] = "answered"
    /\ UNCHANGED pageVars

Request(t) ==
    \E q \in Requests :
        \/ ServeCached(t, q)
        \/ Refuse(t, q)
        \/ Join(t, q)
        \/ FailToDecode(t, q)
        \/ Start(t, q)

Proceed(t) ==
    \/ DetectReturns(t)
    \/ StageFails(t)
    \/ RecognizeReturns(t)
    \/ RecognizeOnlyReturns(t)
    \/ TranslateFails(t)
    \/ TranslateReturns(t)
    \/ WaiterWakes(t)

PageNext ==
    \/ \E t \in Tasks : Request(t) \/ Proceed(t)
    \/ ClearCache
    \/ ClearStats
    \/ \E n \in Settings : SetTranslateConcurrency(n)
    \/ AllAnswered

PageSpec == PageInit /\ [][PageNext]_pageVars

\* Every stage returns or raises, and the loop runs whoever is ready; nobody
\* is obliged to ask.
FairPageSpec == PageSpec /\ \A t \in Tasks : WF_pageVars(Proceed(t))

-----------------------------------------------------------------------------

\* "released for the next request": an in-flight entry names a computation
\* that is still running, and every running computation is registered under
\* its own id.  A failed run never answers a later request.
RegisteredWhileComputing ==
    /\ \A t \in Computing : inflight[Id(req[t])] = t
    /\ \A id \in Ids : inflight[id] # None =>
           inflight[id] \in Computing /\ Id(req[inflight[id]]) = id

\* What can be joined is a computation still under way, and whatever a request is
\* answered with, from the cache, by joining or by computing, is a result for its
\* own image, under its own plan, translated exactly when it asked for a
\* translation: "they compute different results".
AnswersFit ==
    /\ RegisteredWhileComputing
    /\ \A t \in Tasks :
         answer[t] \in Tasks =>
             /\ req[answer[t]].page = req[t].page
             /\ req[answer[t]].plan = req[t].plan
             /\ req[answer[t]].skip = req[t].skip

\* "a translation-less result must never shadow a real one": a cached page is
\* translated, and is cached under the page and the plan it was computed for.
CacheHoldsTranslations ==
    \A k \in Pages \X Plans :
        cache[k] # None => Key(req[cache[k]]) = k /\ ~req[cache[k]].skip

\* A page is computed once: two requests, neither of them forced, that both
\* computed and returned a page under one plan had the cache cleared between
\* them.
ComputedOnce ==
    LET Unforced == {t \in Tasks : future[t] = t /\ ~req[t].force /\ ~req[t].skip}
    IN  \A t, u \in Unforced :
            t # u /\ Key(req[t]) = Key(req[u]) => asked[t] # asked[u]

\* "Insert one page row + its per-crop rows in a single transaction"
\* (cache.py:111): a page's row is never committed without its crops'.
PagesHaveCrops == pageRows \subseteq regionRows

\* Every request is answered: a result, an exception or a 400.
EveryRequestAnswered ==
    \A t \in Tasks : pc[t] # "new" ~> pc[t] = "answered"

-----------------------------------------------------------------------------

\* The stages, the semaphores and the statistics hidden, this is the service
\* PageService describes: the computations are the tasks between their first
\* await and their answer.
Service == INSTANCE PageService
               WITH busy <- Computing, waits <- joined, done <- future, store <- cache

\* Whatever the coroutines, the semaphores and the admin's threads do, callers
\* see one computation at a time of what they ask for, and get its result, its
\* exception or the page that was stored, which is a whole one.
ImplementsPageService == Service!ServiceSpec
=============================================================================
