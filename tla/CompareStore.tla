---------------------------- MODULE CompareStore -----------------------------
(***************************************************************************)
(* tools/compare/commands.py: the passes that compare models over a folder *)
(* of pages and accumulate what they produce on disk.  `batch` draws each  *)
(* detector's boxes, `ocrbatch` reads the crops of a reference detector    *)
(* with each recognizer on each device, `translate` translates what one    *)
(* recognizer read.  Every pass is model-outer: a model is loaded once and *)
(* sees every page; what it produced is merged into a file per page at the *)
(* end, and a browser page is made of the files.  Between passes the user  *)
(* may choose another reference detector or language.  A pass may be cut   *)
(* short anywhere.                                                         *)
(*                                                                         *)
(* A result is its number of texts and the devices it was timed on.        *)
(* Timings, drawings and Markdown are left out.                            *)
(***************************************************************************)
EXTENDS Naturals, FiniteSets

CONSTANTS
    Pages,
    Models,      \* [kind -> the adapters of that kind that can run here]
    Heavy,       \* adapters that run only when --only names them
    NeedsGpu,    \* adapters with cpu_ok = False
    ServerSide,  \* adapters whose device is their server's business
    Devices,     \* what _ocr_devices returns: subsets of "cpu", "cuda"
    Questions,   \* reference detectors, or language pairs
    Counts,      \* how many crops a reference detector may find on a page
    Source,      \* translate's --source-engine
    Chars,       \* [text of a page -> its length]
    MaxChars,    \* translate's --max-chars; 0 is off
    MaxPasses,   \* bound: passes
    MaxCuts      \* bound: passes cut short

Kinds == {"batch", "ocr", "translate"}

ASSUME ModelsHaveKinds == DOMAIN Models = Kinds /\ Source \in Models["ocr"]
ASSUME QuestionsAreNamed == Questions # {} /\ Questions \cap {"none", "torn"} = {}
ASSUME SomeDeviceRuns == Devices # {}
ASSUME TextsHaveLengths == \A n \in Counts : 1..n \subseteq DOMAIN Chars
ASSUME StoreBoundsAreNat == {MaxPasses, MaxCuts} \cup Counts \subseteq Nat

VARIABLES
    at,      \* "idle", "load", "pages", "merge", "dump" or "done"
    pass,    \* the command: kind, selection, question, devices, --resume
    size,    \* texts each page has in this pass; 0: the page is skipped
    file,    \* [kind -> [page -> Absent, Torn or what a pass wrote]]
    crops,   \* the pictures of each page's texts: whose, and how many
    panels,  \* the detectors whose drawing of each page is on disk
    prev,    \* what earlier passes found out about each page
    run,     \* what this pass found out
    todo,    \* pairs of a model and a device that are still to be loaded
    model,   \* the pair that is loaded
    rest,    \* pages it still has to see, or files still to be written
    before,  \* the files as this pass found them
    passes,
    cuts

resultVars == <<file, crops, panels, before>>
storeVars == <<at, pass, size, file, crops, panels, prev, run, todo, model, rest,
               before, passes, cuts>>

Nothing == [m \in {} |-> 0]
Absent == [q |-> "none", n |-> 0, by |-> Nothing]
Torn == [Absent EXCEPT !.q = "torn"]
Readable(f) == f \notin {Absent, Torn}
NoPass == [kind |-> "batch", only |-> {}, q |-> "none", devices |-> {}, resume |-> FALSE]

\* What a pass of the source engine alone leaves of each page.
Read(n) == [q |-> CHOOSE q \in Questions : TRUE, n |-> n,
            by |-> [m \in {Source} |-> [n |-> n, on |-> Devices]]]

\* A new folder, or one whose pages the source engine has read.
StoreInit ==
    /\ at = "idle" /\ pass = NoPass /\ size = [p \in Pages |-> 0]
    /\ \E old \in {Absent} \cup {Read(n) : n \in Counts \ {0}} :
         file = [k \in Kinds |-> [p \in Pages |-> IF k = "ocr" THEN old ELSE Absent]]
    /\ crops = [p \in Pages |-> [q |-> file["ocr"][p].q, n |-> file["ocr"][p].n]]
    /\ panels = [p \in Pages |-> {}]
    /\ prev = [p \in Pages |-> Nothing] /\ run = prev
    /\ todo = {} /\ model = <<>> /\ rest = {} /\ before = file["batch"]
    /\ passes = 0 /\ cuts = 0

\* _run_devices: the devices one adapter is run on; none for a server's.
RunDevices(k, m, devices) ==
    IF k # "ocr" \/ m \in ServerSide THEN {"server"}
    ELSE IF m \in NeedsGpu THEN devices \ {"cpu"} ELSE devices

\* _run_available: the adapters of a kind that --only names, or the light ones.
RunAvailable(k, only) ==
    IF only = {} THEN Models[k] \ Heavy ELSE Models[k] \cap only

\* Defect: whatever is on disk is reused.
AnswersAnything(f, q, n) == Readable(f)

\* A file of an earlier pass counts when it answers the same question on as
\* many texts; one that does not parse is passed over.
Answers(f, q, n) == Readable(f) /\ f.q = q /\ f.n = n

\* The texts translate reads on a page: those of the source engine.
SourceTexts(f) == IF Readable(f) /\ Source \in DOMAIN f.by THEN f.by[Source].n ELSE 0

\* Defect: crops that are there are taken to be the right ones.
SavesNewCrops(k, q, n) ==
    crops' = IF k # "ocr" THEN crops
             ELSE [p \in Pages |-> IF crops[p].n > 0 THEN crops[p] ELSE [q |-> q, n |-> n]]

\* What the reference detector finds is cut out before anything is read.
SavesCrops(k, q, n) ==
    crops' = IF k = "ocr" THEN [p \in Pages |-> [q |-> q, n |-> n]] ELSE crops

\* cmd_batch, cmd_ocrbatch or cmd_translate, up to its first model.
Start(k, only, q, devices, n, resume) ==
    LET texts == [p \in Pages |-> CASE k = "ocr" -> n
                                    [] k = "batch" -> 1
                                    [] OTHER -> SourceTexts(file["ocr"][p])]
    IN  /\ at \in {"idle", "done"} /\ passes < MaxPasses
        /\ passes' = passes + 1 /\ at' = "load"
        /\ pass' = [kind |-> k, only |-> only, q |-> q, devices |-> devices,
                    resume |-> resume]
        /\ size' = texts
        /\ prev' = [p \in Pages |->
                      IF k # "batch" /\ Answers(file[k][p], q, texts[p])
                        THEN file[k][p].by ELSE Nothing]
        /\ run' = [p \in Pages |-> Nothing]
        /\ todo' = UNION {{m} \X RunDevices(k, m, devices) : m \in only}
        /\ model' = <<>> /\ rest' = {} /\ before' = file[k]
        /\ SavesCrops(k, q, n)
        /\ UNCHANGED <<file, panels, cuts>>

StartsPass ==
    \E k \in Kinds, resume \in BOOLEAN :
      \E only \in {RunAvailable(k, named) : named \in SUBSET Models[k]},
         q \in Questions, n \in Counts :
        /\ k = "batch" => only # {}
        /\ k # "translate" => ~resume
        /\ k = "batch" => q = CHOOSE x \in Questions : TRUE
        /\ k # "ocr" => n = CHOOSE x \in Counts : TRUE
        /\ Start(k, only, q, Devices, n, resume)

\* The pages a model sees: --resume skips those it has already done.
Unseen(m) == {p \in Pages : size[p] > 0 /\ ~(pass.resume /\ m \in DOMAIN prev[p])}

\* load: once per model and device.
Loads ==
    LET next == CHOOSE t \in todo : TRUE
    IN  /\ at = "load" /\ todo # {}
        /\ todo' = todo \ {next} /\ model' = next
        /\ rest' = Unseen(next[1]) /\ at' = "pages"
        /\ UNCHANGED <<pass, size, resultVars, prev, run, passes, cuts>>

\* A model that cannot be loaded is skipped.
LoadFails ==
    /\ at = "load" /\ todo # {}
    /\ todo' = todo \ {CHOOSE t \in todo : TRUE}
    /\ UNCHANGED <<at, pass, size, resultVars, prev, run, model, rest, passes, cuts>>

\* The group each text of a page is in, by its first text: a text that would make
\* a group longer than MaxChars opens the next.
Chunks(n) ==
    LET chunk[i \in 1..n] ==
          IF i = 1 \/ (MaxChars > 0 /\ chunk[i - 1].chars + Chars[i] > MaxChars)
            THEN [first |-> i, chars |-> Chars[i]]
            ELSE [chunk[i - 1] EXCEPT !.chars = @ + Chars[i]]
    IN  [i \in 1..n |-> chunk[i].first]

\* Defect: the group that is open at the end is left out.
ChunkTextsOpen(n) ==
    LET first == Chunks(n)
    IN  {{i \in 1..n : first[i] = f} : f \in {first[j] : j \in 1..n - 1}}

\* _chunk_texts: a page's texts in groups of at most MaxChars characters, none
\* of them split.
ChunkTexts(n) ==
    LET first == Chunks(n)
    IN  {{i \in 1..n : first[i] = f} : f \in {first[j] : j \in 1..n}}

\* How many texts of a page get an answer: translate asks group by group.
Answered(k, n) == IF k = "translate" THEN Cardinality(UNION ChunkTexts(n)) ELSE n

Put(f, m, r) == [x \in DOMAIN f \cup {m} |-> IF x = m THEN r ELSE f[x]]

\* The next page is answered: a drawing is saved at once, texts are kept for
\* the end; a second device adds its timing to the texts of the first.
PageAnswered ==
    LET p == CHOOSE x \in rest : TRUE
        m == model[1]
        devs == IF m \in DOMAIN run[p] THEN run[p][m].on ELSE {}
    IN  /\ at = "pages" /\ rest # {}
        /\ rest' = rest \ {p}
        /\ run' = [run EXCEPT ![p] =
                     Put(@, m, [n |-> Answered(pass.kind, size[p]),
                                on |-> devs \cup {model[2]}])]
        /\ panels' = IF pass.kind = "batch"
                       THEN [panels EXCEPT ![p] = @ \cup {m}] ELSE panels
        /\ UNCHANGED <<at, pass, size, file, crops, prev, todo, model, before, passes, cuts>>

\* Defect: a model that failed on a page is queued again.
PageFailsRequeued ==
    /\ at = "pages" /\ rest # {}
    /\ rest' = rest \ {CHOOSE x \in rest : TRUE} /\ todo' = todo \cup {model}
    /\ UNCHANGED <<at, pass, size, resultVars, prev, run, model, passes, cuts>>

\* One page that raises does not end the pass.
PageFails ==
    /\ at = "pages" /\ rest # {}
    /\ rest' = rest \ {CHOOSE x \in rest : TRUE}
    /\ UNCHANGED <<at, pass, size, resultVars, prev, run, todo, model, passes, cuts>>

ModelDone ==
    /\ at = "pages" /\ rest = {} /\ at' = "load" /\ model' = <<>>
    /\ UNCHANGED <<pass, size, resultVars, prev, run, todo, rest, passes, cuts>>

\* Defect: the file is what this pass found out.
MergedAfresh(p) == run[p]

\* What a page's file is to say: this pass's results over the earlier ones;
\* the montage, the drawings on disk of the detectors of this pass.
Merged(p) ==
    IF pass.kind = "batch"
      THEN [m \in panels[p] \cap pass.only |-> [n |-> 1, on |-> {"server"}]]
      ELSE [m \in DOMAIN run[p] \cup DOMAIN prev[p] |->
              IF m \in DOMAIN run[p] THEN run[p][m] ELSE prev[p][m]]

\* Defect: every page is written.
MergesAll ==
    /\ at = "load" /\ todo = {} /\ at' = "merge" /\ rest' = Pages
    /\ UNCHANGED <<pass, size, resultVars, prev, run, todo, model, passes, cuts>>

\* Only pages somebody found something out about are written.
Merges ==
    /\ at = "load" /\ todo = {} /\ at' = "merge"
    /\ rest' = {p \in Pages : size[p] > 0 /\ Merged(p) # Nothing}
    /\ UNCHANGED <<pass, size, resultVars, prev, run, todo, model, passes, cuts>>

\* Defect: every file is opened before the first is written.
OpensAll ==
    /\ at = "merge" /\ rest # {} /\ at' = "dump"
    /\ file' = [file EXCEPT ![pass.kind] =
                  [p \in Pages |-> IF p \in rest THEN Torn ELSE @[p]]]
    /\ UNCHANGED <<pass, size, crops, panels, before, prev, run, todo, model, rest, passes, cuts>>

\* write_text empties the file of the next page,
Opens ==
    /\ at = "merge" /\ rest # {} /\ at' = "dump"
    /\ file' = [file EXCEPT ![pass.kind][CHOOSE x \in rest : TRUE] = Torn]
    /\ UNCHANGED <<pass, size, crops, panels, before, prev, run, todo, model, rest, passes, cuts>>

\* and writes it.  Columns come in the registry's order: a model that a later
\* version of it no longer knows is dropped here, but Models is one version's.
Dumps ==
    LET p == CHOOSE x \in rest : TRUE
    IN  /\ at = "dump" /\ at' = "merge"
        /\ rest' = rest \ {p}
        /\ file' = [file EXCEPT ![pass.kind][p] =
                      [q |-> pass.q, n |-> size[p], by |-> Merged(p)]]
        /\ UNCHANGED <<pass, size, crops, panels, before, prev, run, todo, model, passes, cuts>>

Finishes ==
    /\ at = "merge" /\ rest = {} /\ at' = "done"
    /\ prev' = [p \in Pages |-> Nothing]
    /\ UNCHANGED <<pass, size, resultVars, run, todo, model, rest, passes, cuts>>

\* Ctrl+C, a kill, a power cut.
CutShort ==
    /\ at \notin {"idle", "done"} /\ cuts < MaxCuts
    /\ cuts' = cuts + 1 /\ at' = "idle"
    /\ pass' = NoPass /\ size' = [p \in Pages |-> 0]
    /\ prev' = [p \in Pages |-> Nothing] /\ run' = prev'
    /\ todo' = {} /\ model' = <<>> /\ rest' = {}
    /\ UNCHANGED <<resultVars, passes>>

\* What consolidate and translatehtml make of a page's file: a column per
\* model, as many rows as the longest has; boxhtml shows the drawings.
Columns(k, p) ==
    IF k = "batch" THEN panels[p]
    ELSE IF Readable(file[k][p]) THEN DOMAIN file[k][p].by ELSE {}
RowCount(k, p) ==
    IF k = "translate" THEN file[k][p].n
    ELSE LET lens == {file[k][p].by[m].n : m \in Columns(k, p)}
         IN  CHOOSE n \in lens : \A l \in lens : l <= n

PassContinues ==
    \/ Loads \/ LoadFails \/ PageAnswered \/ PageFails \/ ModelDone
    \/ Merges \/ Opens \/ Dumps \/ Finishes
StoreNext == StartsPass \/ PassContinues \/ CutShort

\* Requests time out.
StoreSpec == StoreInit /\ [][StoreNext]_storeVars /\ WF_storeVars(PassContinues)
-----------------------------------------------------------------------------
\* The types of a pass and of the files; a file that parses has results.
StoreTypeOK ==
    /\ at \in {"idle", "load", "pages", "merge", "dump", "done"}
    /\ size \in [Pages -> Nat] /\ rest \subseteq Pages
    /\ \A k \in Kinds, p \in Pages :
         Readable(file[k][p]) =>
           /\ file[k][p].q \in Questions /\ file[k][p].n > 0
           /\ DOMAIN file[k][p].by \in (SUBSET Models[k]) \ {{}}
    /\ \A p \in Pages : DOMAIN run[p] \subseteq pass.only

\* "rows are the shared crops, columns the candidate models": in every file,
\* whichever passes, detectors and failures it comes from, each model has one
\* text per row and was timed somewhere, and after a pass the pictures beside
\* the rows it wrote are those it read.
RowsAlign ==
    /\ \A k \in Kinds \ {"batch"}, p \in Pages :
         \A m \in Columns(k, p) :
           /\ file[k][p].by[m].n = RowCount(k, p) /\ RowCount(k, p) = file[k][p].n
           /\ file[k][p].by[m].on # {}
    /\ at = "done" /\ pass.kind = "ocr" =>
         \A p \in Pages : DOMAIN run[p] # {} =>
           crops[p] = [q |-> file["ocr"][p].q, n |-> file["ocr"][p].n]

\* "Results ACCUMULATE": when a pass ends, a page's file has everything this
\* pass found out and everything the file said before about the same question.
Accumulates ==
    at = "done" =>
      \A p \in Pages :
        LET f == file[pass.kind][p]
            old == IF pass.kind # "batch" /\ Answers(before[p], pass.q, size[p])
                     THEN DOMAIN before[p].by ELSE {}
            due == DOMAIN run[p] \cup (IF size[p] > 0 THEN old ELSE {})
        IN  due # {} => Readable(f) /\ due \subseteq DOMAIN f.by

\* Across passes that fail, merge and are cut short, stored answers keep: each
\* file is well-formed with its rows aligned, a pass that ends has kept what was
\* there, and a pass cut short costs at most the one file it was writing.
StoresKeepAnswers ==
    /\ StoreTypeOK /\ RowsAlign /\ Accumulates
    /\ Cardinality({kp \in Kinds \X Pages : file[kp[1]][kp[2]] = Torn})
         <= cuts + (IF at = "dump" THEN 1 ELSE 0)

\* "one broken model must not kill the run": whatever loads and pages fail,
\* a pass reaches its end, unless it is cut short.
PassEnds == (at = "load") ~> (at \in {"idle", "done"})
=============================================================================
