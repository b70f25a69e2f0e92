# Scanlation: verification project

Scanlation is a self-hosted server that detects the text of comic pages,
recognizes it and has it translated, with a browser extension in front of it.
This directory holds TLA+ models of the server, its extension and its tools,
the TLC instances that check them, and TLAPS proofs about them. Paths below
are relative to `packages/scanlation-server/` unless they say otherwise.

## 1. Inventory

| part | state it keeps | operations | who calls it |
|---|---|---|---|
| **engine pool** `app/engine_pool.py` (one for detect, one for recognize) | the executor, its key (name, device, workers), the in-flight counter, the time of last use, one Condition | ensure, run (with one retry), invalidate, shutdown, idle_seconds | threadpool threads of requests; admin routes; the idle sweep; the lifespan |
| **engine processes** `engine_pool.py` worker side, `app/gpus.py`, `scanlation_sdk/device.py`, `local_engine.py` | a loaded engine, an open GPU context | load, task, the GPU probe, exit | pool executors; the settings page |
| **inference gate** `app/state.py:20-61` | K permits, a lock | reader, writer | run_page around recognize; the sweep and the settings routes as writers |
| **idle unload** `app/idle_unload.py` | a loop and the clock it read | sweep_once, sweep_loop | a background task |
| **orchestrator** `app/orchestrator.py`, `routes/run.py` | the in-flight map, one coroutine per request | run_pipeline, run_page, `_run_deduped`, the three stages | the extension, tools |
| **cache and statistics** `app/cache.py` | three SQLite tables on one connection, a lock | get_run, put_run, clear, record_stats, clear_stats, stats_summary | orchestrator; admin routes on other threads |
| **state and selection** `app/state.py:64-330` | the selection (state.json), `translate_sem`, `gpu_gate` | the setters, save, load, rebuild_gpu_gate | settings and admin routes |
| **options** `state.py`, `routes/admin.py`, `scanlation_sdk` schemas | options per role and engine, prompts | set_options, make_plan, the cache key, resolve_options | admin page; requests |
| **registry** `app/registry.py` | loaded engines, last use, entry points | get, unload_one, rediscover | detect stage (translator), plugin install |
| **plugin install** `app/plugins_install.py`, `routes/plugins.py` | the packages being installed, `sys.stdout` | the streamed and the blocking install | the admin page |
| **pipeline, geometry** `app/pipeline.py`, `geometry.py` | none | post-processing, reading order, crops, batches of texts | orchestrator |
| **extension** `/extension/src` | overlays, observers, the toolbar icon | enable, disable, processImage, the injection | the reader of a page |
| **admin page** `web/app.js` | forms, an install queue | posts to the routes | the administrator |
| **cooling benches** `tools/bench_cooling_ab.py`, `bench_translate_sustained.py` | the fan channel, the power cap, a guard thread | sweep, steady, chapters | a user at a shell |
| **compare tool** `tools/compare/` | files of boxes, OCR and translations per page | batch, ocrbatch, translate, consolidate | a user at a shell |
| **run report and its bench** `tools/run_report.py`, `bench_translate_concurrency.py` | a Markdown report | drive, report, parse, bench | a user at a shell |

How they meet. The event loop runs one coroutine per request. Detect and
recognize run in threadpool threads that call `ensure` and `run` of a pool;
recognize alone holds a reader permit of the gate. Translation runs in a
threadpool thread under `translate_sem`, with an HTTP client the registry owns.
Settings routes run in threads or on the loop and change the same selection,
gate, semaphore and pools. The sweep takes the writer side of the gate. An
install rediscovers the registry's classes. The extension and the admin page
meet the server only through its routes; the tools too, or not at all.

What is hard: threads meeting in a pool (a teardown against runs, a worker's
death shared by several runs, the gap between `ensure` and `run`); a gate that
is replaced while pages are inside it; decisions that are stale when they are
acted on (the sweep, the settings routes, the registry's fast path); requests
that share one computation and its failure; a transaction left open; a process
that dies while it saves; an install whose page has gone; answers that come
back into a page that was switched off; hardware to be handed back on every way
out. `PROJECT.json` lists each at its line, with the properties that would
catch it.

What makes each part correct: a pool never shuts an executor under a run, leaks
none, counts its runs exactly, wakes who sleeps and loses no request to one
death; a gate excludes and starves nobody, and gets its own permits back; a
sweep unloads what is idle and nothing else; a request is answered with a
result for what it asked, computed once and cached only if translated; every
text keeps its region; a choice that was made survives a restart; an engine
loads once and an install runs once; a page that is switched off is as it was
found; fan and cap go back; stored answers stay.

## 2. Modules

| module | models | composed with |
|---|---|---|
| `EnginePool` | class EnginePool, its callers and worker deaths | |
| `IdleUnload` | `sweep_once` over one pool, with or without the gate | EXTENDS `EnginePool` |
| `ReaderWriter` | what the gate promises (abstract) | |
| `InferenceGate` | class InferenceGate | refines `ReaderWriter` |
| `PageService` | what the run route promises its callers (abstract) | |
| `PageRuns` | the run route, `_run_deduped`, `run_page`, the cache, `translate_sem`, the open transaction | refines `PageService` |
| `Selection` | the selection and what each setter makes of it | |
| `AppState` | the setters on their threads, state.json, the gates ever built, the recognize stage | EXTENDS `Selection` |
| `RunOptions` | forms, prompts, plans, the cache key, what a backend is asked | |
| `Registry` | get, unload_one and the HTTP clients | |
| `PluginInstall` | installs, streams, the admin page's queue | EXTENDS `Registry` |
| `EngineHost` | weights, torch, worker processes, GPU contexts, the GPU probe | |
| `StableLists` | Python's comprehensions and `sorted` (operators) | |
| `PageGeometry` | post-processing, reading order, crop boxes (operators) | EXTENDS `StableLists` |
| `PagePipeline` | the stages of one page, each with its failure | EXTENDS `PageGeometry` |
| `PageStats` | the statistics tables, their summaries, the occupancy sink | EXTENDS `StableLists` |
| `ContentScript` | content script, background page, mutation observer, the web page | |
| `CoolingBench` | fan, cap, load, guard, every way out | |
| `CompareStore` | the stores of three kinds of pass | |
| `RunReport` | pages over a thread pool, the report, the bench that reads it | |
| `MC*` | TLC instances: values, symmetry, one action constraint | |
| `EnginePoolProofs` | theorems of `EnginePool` and `IdleUnload` | EXTENDS `IdleUnload` |
| `InferenceGateProofs`, `AppStateProofs` | theorems of the module they are named after | each EXTENDS its module |
| `PageRequestProofs` | theorems of `ContentScript` and of `PageRuns` | EXTENDS both |
| `PluginProofs` | theorems of `Registry`, `PluginInstall` and `EngineHost` | EXTENDS `PluginInstall`, `EngineHost` |
| `PipelineProofs` | theorems of `PageGeometry`, `PagePipeline`, `PageStats` and `RunOptions` | EXTENDS the last three, `ListLemmas` |
| `ToolsProofs` | theorems of `CoolingBench`, `CompareStore` and `RunReport` | EXTENDS all three, `ListLemmas` |
| `ListLemmas` | what filters, sorts and concatenations do to lists of any length | EXTENDS `StableLists` |

Operators under a comment that says "Defect" or "A plausible slip" are
wrong versions of the definition that follows them. No specification uses them;
they show that each property notices the mistake it is there for.

### EnginePool

An executor is a number, in the order of construction; `ex` is the current one,
`live` those not shut down, `broken` those with a dead worker. `pc` tells where
a thread is: `idle`, asleep in or returning from the drain (`drain`, with
`waiting` the threads `notify_all` has not woken), between `ensure` and `run`
(`run`), and the places inside `run`. Every critical section of the Condition
without a `wait()` is one action; a section with one is split there, since
`wait()` releases the lock. `ex.map` holds no lock: it is the interval between
`RunStarts` and `MapReturns` or `MapBreaks`. CPython's `Condition.wait()` has no
spurious wakeups, and none is modelled. `Invalidate` reads its name filter
once, before the drain, as the code does; `Ensure` does not compare keys again
after it. `RebuildBroken` gives the retry whatever the pool holds, None included.

### IdleUnload

Each step of the sweep is a step of its own: the early-out on the event loop,
the grant of the writer, the second look (with the *same* `now`), and
`invalidate`, whose drain is EnginePool's. The gate appears only as what it
guarantees, that a writer is inside while no reader is; that is the theorem
`WriterExclusion` of `InferenceGateProofs`. A request of a gated pool holds its
permit from `ensure` to the end of `run`. The run uses `Gated = TRUE`, the
recognize pool. For the detect pool, which no gate guards, `ArrivalKeepsPool`
does not hold (section 7).

### InferenceGate and ReaderWriter

`asyncio.Lock` and `asyncio.Semaphore` serve waiters in order, so the lock is
one queue with its holder in front. Only that holder ever waits for a permit,
so the semaphore needs no queue. A writer's K acquisitions are K steps because
each may suspend. Cancellation is not modelled: a request's task is cancelled
only when the server stops. `AppState` takes entry and exclusion of a gate as
one step each, which the refinement allows, and so both are checked in one run,
as two parts that share no variable.

### PageRuns and PageService

A task is one request, and a computation is named by the task that runs it; so
is its result, which makes "a result for another page" visible. `Request` is
everything up to the first await that suspends: the probe of the cache, the
check for engines, the join or the start. Between them the code awaits nothing
that suspends, which is what makes probe and registration one step. Each stage
may fail. The gate is left out because it delays recognize and does nothing
else to a page. `sems` is the history of `translate_sem`; a task keeps the one
it queued on. `loose` holds the page rows of a transaction that failed between
its two inserts: the connection is shared, so whoever commits next commits them.

`PageService` is the same route without stages, in-flight map, semaphores and
statistics: a request is served from the store, declined, begun, or made to
wait for the one computation of the same image, plan and mode that is under
way; a computation finishes with a page or an exception, which its waiters
share; a whole page is stored in the step that answers with it. The mapping
reads `busy` as the tasks between their first await and their answer. It forbids
what no single invariant of `PageRuns` says: a second computation beside the
first, a waiter given another computation's outcome, a page stored or lost
outside a finish and a clear, a request declined that the store could serve.

### Selection and AppState

A synchronous route is a threadpool thread, and its read, its assignment, its
dump and its write of state.json are separate steps under the locks the code
takes. `set_engine_device` and `set_recognize_concurrency` are coroutines that
compare first, then wait for the writer side of the gate. `rebuild_gpu_gate`
reads the width and swaps the gate in two steps; every gate ever built stays in
`gates`, and a page remembers the one it entered. `Restart` may strike between
any two steps: an `open("w")` that was not followed by its write leaves a file
that does not parse, and `load` answers that with the defaults.

### RunOptions

A form is the options of one engine in one role. A post may leave a value
blank, or give it typed or as the text of a field; `Merged` is what
`set_options` makes of it. `make_plan` fills a plan from the selection and the
request; its key is what the cache compares. A computation is four steps:
`Ensures`, `Recognizes`, `Translates`, and before them the miss; between the
first two another request's `ensure` or a teardown may change the recognize
pool, which the run then takes as it is. `AskedCrops` and `AskedTexts` are what
the backends are sent. `ServedAsConfigured` compares what a page was made with,
cached or not, with what the plan of the request that got it asks: languages,
translator, options and prompt always, the recognizer unless its own request
was overtaken (`swapped`) between `ensure` and `run`. That exception is the
behaviour the run `pool_key` shows; the property says that it is the only one.

### Registry and PluginInstall

An instance is `<<engine, n>>`; `open` are those with an HTTP client. `GetFast`
is the lock-free look; on a miss the class is called and its `load` runs under
the lock, to be published (`GetPublishes`) or to raise (`LoadRaises`), after
which the next page tries anew; `lost` counts those. An unload forgets the
instance and closes its client in one step and sets `_client` to None in the
next; a call that is posted between the two fails. A call under way fails when
its client is closed, or for any reason of the backend's: the batch call also
on a wrong count or bad JSON. The batch translator answers every such failure
with one call per text, for which `http_engine.py` opens a client again; a
failure there is the page's. `misses` counts the calls a page lost, and a page
whose call was cut may still be answered when another page has opened the
client again. An installer is the thread of a stream or of the blocking route.
It looks for the class, pips, clears caches, rediscovers (the class table is
cleared, then filled), downloads weights with `sys.stdout` redirected and puts
stdout back. Only a stream claims its package. A stream that is cut leaves its
worker running.

### EngineHost

What an install leaves on disk, torch build and weights, file by file; what
`is_installed` looks at; the worker that loads, picks a device and raises; how
an exception crosses the process boundary (`restated` if it does not unpickle);
and which processes hold a GPU context. The GPU probe is a process of its own,
whose answer is cached for good.

### StableLists, PageGeometry, PagePipeline, PageStats

Coordinates are integers in units of 1/`Sub` pixel, so rounding is exact.
`PageGeometry` has the algorithms as operators. `PagePipeline` runs one page
through them with a detector, a recognizer in the process or on the pool, a
batch translator that may answer with the wrong number of texts or fail, and
the statistics rows; a text carries the region it was read from, so that a
mix-up shows. `PageStats` has the tables as sets of rows. `RecordStats` inserts
a page and its crops and commits; `RecordFails` is the same call when a crop's
row or the commit raises: what was inserted stays in the open transaction of
the one connection, where every caller reads it, until another caller commits
it, a clear deletes it or a restart drops it. `raised` names such
pages, and `open` those not committed yet; `StatsAddUp` claims that a page has
the crops it counts, and one that raised no more than those. The quantiles are
in exact integers, and the sweep over the workers' busy intervals is the
recursive function `Swept`. `StableLists` gives a sorted list by the rank of each element,
not by an algorithm, so that theorems about it need no induction over lists.

### ContentScript

JavaScript is single-threaded: an action is what runs between two awaits.
`flight` is where `processImage` of an image stands (`direct`, `worker` and
`canvas` are the three ways to fetch it). Mutation records are delivered before
the next task. The page inserts, removes, loads and swaps images whenever it
likes, and the toolbar is clicked at any moment, also before the configuration
has loaded.

`spot` says where the page holds an image (in the document, under a node that
is not, or under none) and how many wrappers are around it there. An image
leaves and returns with its wrapper, or is taken out of it (`PageUnwraps`), in
which case `hull` says where the empty wrapper stands. `ClearAll` puts back
every tracked image whose wrapper has a parent, wherever the page moved either,
and takes the blur from the images `querySelectorAll` finds, those in the
document. So an image that the page holds outside it while translation is
switched off may keep a wrapper and, until its request ends, its blur; `strays`
counts how often that happened to it. `OverlaysFit` says that nothing else is
left: wrappers never exceed the strays, plus one while translation is on.

### CoolingBench, CompareStore, RunReport

`CoolingBench` follows the main thread through `with fan`, `with cap` and
`finally` while an exception unwinds; a signal or a failed write may come at any
step, also between `was_active` and the stop of the unit (`FanNotes`,
`FanStops`). `torn` notes that one came after the hand-over was marked done and
before it was, `adrift` that one came while a loader heats or is drained, which
leaves it running. The guard thread samples, trips, is stopped, or dies of its
log (`GuardDies`): nobody asks whether it lives, and the waits then go by its
last sample (`Shows`). A channel that fancontrol does not drive is taken to be
under a manual duty, the case in which the last writer wins. Temperatures are
levels.
`CompareStore` is one file per kind and page: a pass loads its models one after
the other, merges its results at the end, and may be cut between the `open` and
the write of a file. Every model is one the tool still registers; of others a
write keeps nothing (section 7). `RunReport` keeps texts as sequences over an
alphabet that holds the characters the Markdown table tells apart, so that the
escaping of the report and the parsing of the bench are modelled by what they
do: `Replace` is `str.replace`, a row is read up to the first line separator,
its separators are the bars no backslash precedes, and a row with fewer than
four of them is not read. `texts` are stripped, as the pipeline leaves them
(`TextsAreStripped`). The report opens with the table of the single images'
times, under a heading that the parser takes for a page's (`CaseTimes`); a page
without rows is what it makes of it, and drops. The bounds cell and the number of a row are one character
each.

## 3. Runs and bounds

| run | instance | states | shows |
|---|---|---|---|
| `pool` | 3 runners, 1 admin, 2 engines, 2 deaths, 1 tick | 975 k | `NeverShutMidMap`, `InflightExact`, `NoLostWakeup`, `OneExecutor`, `RegisteredRunsShareKey`, `OneDeathIsSurvived`, `NoBrokenPoolKept` |
| `idle` | 2 runners twice each, gated, window 1 of 2 ticks, 1 death, fairness | 819 k | `ArrivalKeepsPool`, `SweepsOnlyIdlePool`; `ReclaimsIdlePool`, `EveryCallReturns` |
| `pages` | 3 requests, 1 page, 1 plan, 1 clear, 1 swap, fairness | 691 k | `AnswersFit`, `ComputedOnce`; `EveryRequestAnswered`, `ImplementsPageService` |
| `app` | 1 route, 1 coroutine, 2 pages, 2 engines, 1 restart; beside it one gate with 3 readers, 2 writers and K = 2; fairness | 363 k | `SettledIsSaved`, `ReadersKeepTheirGate`, `NoRunTornDown`; `EveryPageEnds`, `ImplementsReaderWriter`, `EveryTaskEnters` |
| `plugins` | 2 callers, 1 unload, any load or call failing, 1 tab, 1 blocking thread, 2 workers, 1 cut; beside it 2 local engines, 1 card, fairness | 766 k | `LoadsOnce`, `OneMissIsSurvived`, `ClaimsAreWorkers`, `CauseIsSeen`; `QueueDrains`, `CardsSuspend` |
| `extension` | 2 images, 4 clicks, 3 page events | 4.92 M | `OverlaysFit`, `NothingSkipped`, `IconFollows` |
| `pipeline` | 3 of 7 detections or 3 quads, 5 kinds of request; 2 statistics pages of 2 regions; 3 busy windows; 2 requests and 1 post | 2.39 M | `RegionsAreRead`, `TextsKeepTheirRegion`, `StatsAddUp`, `ServedAsConfigured` |
| `tools` | 2 loader threads, 1 signal; 2 pages, 2 passes, 1 cut; 3 images, every text of 3 characters | 1.13 M | `HandedBack`, `LoadIsGuarded`, `StoresKeepAnswers`, `ReportKeepsPages`; `EveryToolEnds` |

`app`, `plugins`, `pipeline` and `tools` each check parts that share no
variable: the variable `part` picks one in the initial state, and only its
actions run.

Why these bounds meet the interesting cases. Two runs and one teardown give
every race of a drain; a third runner lets one ensure queue behind another
while a run holds the counter up. Two executors must die for a retry to fail.
The gate's K = 2 is the least that separates a reader's permit from a writer's.
Three requests give a computation, a waiter and a later request; keys are only
compared, and the proofs hold for any number of them. `Settings = {0}` reaches
the clamp of the limit to 1. In `app`, a route and a coroutine save, swap and
tear down against each other and against two pages in two gates; `Numbers`
holds 0, which must be clamped. In `extension` three page events take an image
out and put it back, with one left for its size or the other image, and four
clicks switch off twice. Two statistics pages let one stay open while the other
commits it, or fail beside it. In `plugins` all threads at their bounds are too
many states, so a behaviour starts with part of each bound used up, in every
way that leaves three requests. The detections of `pipeline` hold a
duplicate, a speck, a container, a label that is dropped, two lines one pixel
apart and a box off the page; the quads a tilted one and one of no area.
`MCTexts` has every text of up to three of the characters the report treats
specially.

Runs that end in a violation, each of one statement of the repository:

| run | property | what happens |
|---|---|---|
| `pool_key` | `RunsOnEnsuredKey` | A ensures engine 1, B ensures engine 2, A runs on engine 2. Its page is cached under engine 1. |
| `app_writer` | `WriterExcludesInference` | The gate is replaced while a page is inside the old one; the writer of the new gate gets all its permits at once. |
| `stats_rows` | `PagesHaveCrops` | The insert of a crop's row fails after the page's; the next page's `put_run` commits a page row without its crops. |
| `fan_channel` | `ChannelHandedBack` | A run that fancontrol was not active for ends undisturbed; the thread that holds the duty, which is never stopped, writes it over the restored value. |

`PROJECT.json` quotes the lines each contradicts. That `app_writer` does no harm
to a running map is `NoRunTornDown`: the pool's own drain protects it.

## 4. Fairness

- `FairIdleSpec`: a thread inside a call of the pool goes on when it can, and a
  map ends (in a result, an exception or a broken pool). That is the operating
  system's scheduling and the assumption that an engine's forward terminates.
  Time passes, and `sweep_loop` goes on, which its `while True` with its caught
  exceptions gives. Nobody has to make a request, and no worker has to die.
- `FairGateSpec`: the event loop runs every ready task, and what is done inside
  the gate ends. Weak fairness is enough because the lock and the semaphore are
  first come first served.
- `FairPageSpec`: every stage returns or raises.
- `FairAppSpec`: threads are scheduled, the loop runs ready tasks, maps return.
  No route has to be called and the process need not die.
- `InstFairness`: pip and downloads end, and a page reads its stream until it
  ends. `HostFairness`: the probe has its timeout (`gpus.py`), a load and a task
  end, and the sweep comes round. No install and no call is forced.
- `ContentFairness`: messages and promises settle, a fetch ends. No liveness
  property uses it; the invariants of the extension are about moments when
  nothing is on its way.
- Tools: threads are scheduled, requests time out and every wait of
  `bench_cooling_ab.py` has a deadline; a pass goes on when a model fails.

The number of requests is bounded, so an unending stream of them that starves a
teardown of a pool is outside these checks (section 7).

## 5. Proofs

The eight proof modules hold for any sets of threads, tasks, engines, pages and
images and any values of the bounds; the assumptions are the named ASSUMEs of
the modules (sets finite or disjoint where it matters, None and the failure
values apart from other values, bounds natural numbers, K positive, texts
stripped). TLC evaluates every one of them.

**EnginePoolProofs**: `Spec => []IInv`, from which follow `TypeOK` and all
seven properties of the run `pool`. None of them is inductive alone. The drain
is safe because the counter is exact, so that 0 means that nobody is
registered; but a rebuild skips the drain, so `NeverShutMidMap` needs to know
that every other run on the replaced executor is on a broken one. The invariant
therefore records, per place in `run`, how the run's executor stands to the
pool's: it is the current one, or it is broken, or it is older than the current
one. That executors are numbered in order of construction gives the last two
theorems: a second failure is of a second, younger executor.

The second half of the module is about the sweep, under `Gated`, and rests on
`IInv`. `SweepInv` says that the sweep never waits inside `invalidate` (a writer
is inside, so no request is, so the counter is 0 and the drain is over at once),
that no request is at work while it has the gate, and that the clock it read
still says idle when it shuts the pool down, since nobody can use a pool behind
a writer. `ArrivalsKeepTheirPool` and `SweepsTakeIdlePools` follow. The attempt
corrected `ArrivalKeepsPool`: that whoever ensured the pool finds it built is
false after *two* deaths, whose second rebuild a run has undone (section 7); one
death, which the run allows, did not show it.

**InferenceGateProofs**: `GateInv` adds to the types that the free permits, one
for each reader inside and those the writer at the front of the queue has
collected add up to K, and that a writer without the lock holds none. A writer
that holds K leaves no room for a reader. `GateRefines` maps every step to one
of `ReaderWriter` or to a stutter.

**PageRequestProofs**, the server: `PageInv` adds that a future is resolved by its own
computation and no earlier than the in-flight entry goes, that a waiter waits
for a computation of its own id, and that, between two clears, a plain
computation that returned has left its page in the cache. `ComputedOnce` and
`AnswersFit` follow. `PagesAreServed`
maps every step to one of `PageService` or to a stutter: `PageInv` says that the
in-flight map finds the very computation the service looks for
(`InflightNamesRivals`) and that only a full run comes to translate, and
`NothingEarly`, inductive beside it, that no task has a request or an answer
before its time. That the cache holds translated pages only (`CacheIsTranslated`)
is part of the same invariant.

**AppStateProofs**: `AppInv` is `SettingTypes /\ SaveInv /\ GateInv /\
NoRunTornDown`. `SaveInv` says that one thread at most writes the file, and that
what it writes is the selection unless somebody who changed it since is still
going to save; that is why a lock taken only around dump and write is enough.
`GateInv` gives each gate the pages inside it, so that a release goes to the
gate of the entry. Both hold across `Restart`.

**PluginProofs**: `RegInv` pays for every creation of an engine after the first
with an unload or with a load that raised (`MadePaid`), keeps the client of what
the table holds open (`TableIsOpen`; only the lock's holder is about to publish,
`LoadersLock`), and counts for each place of a page the calls it has lost
(`MissesPaid`: one in the loop, two when it failed). `RegStepInv`
is stated over a frame of steps that leave the instances alone, so that it holds
of the composed specification of `PluginInstall` too; there `Claims` adds that
the claimed packages are those of the streamed workers that run, one each.
`CauseIsSeen` of `EngineHost` is inductive beside its types: the lemma
`DeviceIsThere` says that whatever hint a worker is given, the device it picks
is the CPU or a card that is there.

**PipelineProofs** proves the page for every list of detections, every quad, any
number of texts and whatever a backend answers. The lemmas about lists are in
**ListLemmas** and make no use of the induction theorems: `RanksList` shows that counting what comes
before each element numbers them all, for any total order on a finite set (an
injection of a set onto as many numbers is a bijection); `KeysSort` gets from it
that a stable sort is a permutation with ascending keys, and `PickLists` that a
filter lists what it keeps, in order. `GreedyExists` shows that the greedy pass
has a result, from the least number at which a partial one cannot be extended;
`KeptIsGreedy` then says what `dedup` keeps. `BandsAgree` says that the band,
a median, does not depend on the order of the boxes. For the crops, `NormIsNat`
finds the nearest whole number of a distance, `CropsHaveSides` follows
`deskew_crop` from any quad, `ShrunkFits` shows that the halving loop ends (each
turn makes the width less), and `BoxFits` that the two sides scaled by the root
of cap over area multiply to no more than the cap. `PipeInv` has four parts.
`RegionsInv`: the regions are the kept detections in reading order.
`TextsInv`: the texts are those of the regions, one each, in order, and the
translations so far are those of the first texts that are not blank. `ResultInv`:
the items and the statistics rows, which count up those texts separately, meet.
`SizesInv`: each crop was read at the size its own region gives.
`TextsStayWithTheirRegion` and `RegionsAreAlwaysRead` are two properties of the
run, for all constants. The second says of the cap what the code guarantees: a
crop a side of which is itself longer than the cap stays above it, because no
side shrinks below one pixel; the shipped cap is far above any page's side. In
`RunOptions` a row of the cache was made as a plan with its key asks (`RowsFit`),
the key decides what is asked (`KeyDecides`), and a request between its `ensure`
and its `run` finds its own recognizer, no pool at all, or is `swapped`
(`PoolsFit`).

For the statistics, `StatsInv` says what the tables hold and that they agree: a
crop's row has its page, and a page has as many as it counts, or no more if its
`record_stats` raised. It is inductive because a new id is above every id in use
(`IdsAreNew`, `InsertsAgree`), the ids a restart or a clear frees included.
`StatsAlwaysAddUp` derives the rest of `StatsAddUp` from the types alone, for
tables of any size. Every statistic of a column is a cut point of it
(`StatisticsAreCuts`), cut points ascend (`CutsAscend`), and rounding to one
step keeps their order (`RoundingAscends`). The picker's sum is one over a set,
in an order the library leaves open: `SumsArePages` shows, from a smallest set
for which it fails, that every order gives the number of pages. For the
occupancy sweep, `ActiveRun` says that between two events just those crops run
whose start, and not whose end, was passed; `TallyStep` that each step tallies
the time up to its event; so `SweepTallies` has the last tallies equal to the
time spent at each number of crops, from the first step at which they would not.

**PageRequestProofs**, the content script: what is tracked is finished, and what
is in flight is not (`ImagesFit`), so the overlay an answer draws is the first of
this activation; the wrappers around an image without one are at most its
strays, and so are those around a wrapper it was taken out of (`ImageFits`).
`ScanInv` adds what an observer that is
connected owes: each image it could see is done, under way or has a record
waiting. `IconInv` is about the last report under way: it, or the icon when
there is none, says what the script is, unless an activation has yet to report.

**ToolsProofs**: `CoolInv` says for each place of the main thread what it still
owes: `HandInv`, that fan and cap are as before or their hand-back is still on
the way out, unless `torn`; `GuardInv`, that the guard is joined only after the
loader has ended, unless `adrift`; `LateInv`, that a thread which submitted
after the guard tripped was past its check and goes back to it. What the first
and the last of these say of a run whose guard has died is what the main thread
does, not that somebody samples. `StoreInv` of the compare tool relates the files
to what the pass has read: what it remembers of earlier answers is what the
file said when it began (`PrevInv`), and every file it is past has both
(`WrittenInv`); `TornInv` charges every torn file to a cut.

The run report (`PagesAreKept`) is in two halves. `ReportInv` is about the
threads: what a thread left is a record of its own input, made of what was read
there (`PageRecords`); the list built at the end is those records in input
order; and a job is taken back only when an error is to be raised
(`BenchInv`). The rest is about what is in the records, for texts and lists of
any length. `CellComesBack` shows that the three replacements of `_unescape`
undo `_md_cell`: each replacement turns one coding of the characters into the
next (`SignsComeBack`, `BarsComeBack`, `SlashesComeBack`, each by
`CodingTurns`), because the code of a character never begins, with what may
follow it, an occurrence of the replaced string that is not its own.
`RowSource` shows that the fourth cell of a row is the source's: every bar in a
cell stands behind a backslash, so that the first four separators are those of
the layout, and a line separator in the source cuts the row before the fourth.
`PagesParsed` finds each page's rows between its heading and the next; the
table of the single images' times in front of them is a page without texts,
which is none (`FullSkips`).
`TalliesOf` counts the records; that the median divides them (`MedianDivides`)
follows from a sort being a permutation with ascending values
(`SortedAscends`). The attempt corrected the model: `Replace` was not defined
for every text, the parser took a row that is cut after its source for a whole
one, and `BodiesAreThePages` did not say what comes back of a newline's sign
that stands in the text itself (section 7).

An induction over a text or a list is done as one over numbers, written out: a
statement that fails fails at a least length (`LeastExists`, from the
well-foundedness of the order), and not at the length before. `ReplacesExist`,
`FlattenUnfolds` and `TextInduction` are such lemmas.

Only model-checked, and why:

- liveness (`EveryRequestAnswered`, `EveryTaskEnters`, `EveryPageEnds`,
  `EveryCallReturns`, `ReclaimsIdlePool`, `QueueDrains`, `CardsSuspend`,
  `EveryToolEnds`): the prover has no ENABLED, so no fairness.

Every invariant and every action property of the passing runs is a theorem.

## 6. Not modelled, and why

What an engine computes, the wording of prompts, overlay layout and the admin
page's forms have no property that TLA+ would tell apart. Authentication,
logging and start-up are straight-line code. The remaining benchmarks
(`tools/bench_recognize_*.py` and others) measure: their output is numbers, and
they share no state with the server. The vendored networks and container files
are external. The idle sweep's pass over the registry finds nothing in
production, because every local engine lives in a worker pool. The statistics'
means are floating point; their percentiles are modelled in exact integers. The
single-image commands of the compare tool keep nothing.

Code outside `src/` is modelled by how the code uses it and marked external in
the map: the executors and Condition, asyncio's lock and semaphore, SQLite's
transaction, pip, the browser's messages, `fancontrol`.

## 7. Known behaviours

Met while modelling; the models behave like this too where they reach it.
Four that contradict a statement of the repository have a run in section 3. Of
the others, those below contradict one too, and are only described, because the
behaviour is plain from the lines quoted or lies outside what a module claims:

| where | the statement | what the code does |
|---|---|---|
| `app/pipeline.py:38`, `:50` | "slightly misaligned bubbles still group into the same row" | Rows are fixed bands: two boxes of one line on the two sides of an edge are read as two rows. |
| `tools/bench_cooling_ab.py:286-289`, `:333-337` | `:61` "handed back unconditionally on exit, including on SIGINT/SIGTERM" | `restore` marks itself done first; a signal or a failing write between the mark and the write ends in a hand-over that is never made (`torn`). |
| `tools/bench_cooling_ab.py:894` | "stopping submission" | Nothing stops the loader of a sweep that is interrupted while it heats or drains: it submits until the process ends (`adrift`), after its guard was stopped. |
| `tools/bench_cooling_ab.py:62` | "The power cap is never touched" | `--steady` lowers it. |
| `tools/bench_translate_sustained.py:149-160` | `:14` "The guards below stop the load generator far short of that" | The log is opened, written and flushed without a `try`; an error ends the guard's thread, and nobody asks whether it lives (`GuardDies`). |
| `/extension/src/content.js:288`, `:304` | `:301` "strip any lingering blur here too" | Images that the page holds outside the document at that moment keep a wrapper or their blur (`strays`). |


Server:
- The retry of a run whose executor another run has dropped maps on None
  (`engine_pool.py:345`); the request fails with an AttributeError.
- The detect pool is outside the gate: a sweep can unload it between a
  request's `ensure` and `run` ("pool not built"). After two worker deaths the
  recognize pool can be gone as well for a request between the two: a run that
  fails its retry drops what it rebuilt. A stream of overlapping runs
  that keeps the counter up starves a teardown.
- A computation in flight when the cache is cleared stores its page afterwards.
- A post of the translate limit replaces the semaphore even when it is
  unchanged, so that translations of both run at once.
- `rebuild_gpu_gate` reads the width and swaps in two steps: the later of two
  swaps may carry the older width. `make_plan` reads the selection field by
  field, so a plan can mix two selections.
- A crash between `open` and write of state.json leaves the defaults at the
  next start. `select_prompt` checks, then acts. `save_prompt` accepts
  "default", an override that `delete_prompt` refuses to remove.
- `record_stats` may fail after `put_run`: a 500 for a page that is cached.
- The cache key has the raw options: a default that changes at a restart still
  serves the old pages, and `"1"` and `1` are two keys. Request options are
  keyed by engine name and reach both roles of a dual-role engine.
- A blocking install claims nothing and runs beside a streamed one of the same
  package. While `rediscover` clears and fills the class table, a request may
  not find its engine. `hasattr(cls, "list_models")` (`routes/admin.py:57,148`)
  is true of every engine, since the contract declares the method. The torch
  build in use is not the one a reinstall left.
- manga-ocr's `is_installed` looks at config.json only, so a download that was
  cut counts as installed; its load then fetches the rest, paddle's fails.
- The first answer of `list_gpus` is cached (`gpus.py:39`): a picker that was
  opened before torch was installed shows no card until a restart.

Extension: enabling twice before the configuration loads leaks an observer; an
image that gets its size after it was visited, or loses its wrapper, is not
visited again (`missed`); a fetch has no timeout.

Tools:
- `bench_translate_sustained.py` formats a reading before it tests it for None.
  A failed request ends the sustained and the concurrency bench with a
  traceback.
- A translation of a model that is no longer registered is dropped by the next
  pass that writes its page (`tools/compare/commands.py:692`).
- `ocrbatch` replaces the timings of other devices. `consolidate` stops at a
  torn ocr.json that the other readers tolerate. Crops are rewritten at the
  start of a pass whose texts stay when it is cut, so a page may pair texts with
  other pictures.
- A text with a line separator other than `\n` and `\r` loses its row when the
  bench parses the report. A carriage return comes back as a space, and a text
  that itself holds the report's sign for a newline between two spaces comes back
  with a newline there.

## 8. Plan

Done: the modules above with their runs and theorems. What is left:

- `make_plan` against the setters: which mixes of selections a plan can hold.
