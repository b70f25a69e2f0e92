----------------------------- MODULE RunOptions -----------------------------
(***************************************************************************)
(* From the admin page's forms to what a backend is asked, and what of it  *)
(* the page cache is keyed by: the options half of app/state.py and        *)
(* routes/admin.py, make_plan, the cache's key, resolve_options and the    *)
(* request bodies of the HTTP plugins.  The detector's options travel as   *)
(* the recognizer's do and are left out.  The recognizer itself is whatever *)
(* the worker pool holds when the crops are run (module EnginePool).       *)
(*                                                                         *)
(* An option is None while its key is absent; a posted value is Blank, or  *)
(* <<how, value>>, typed or as the text of a form field.                   *)
(***************************************************************************)
EXTENDS Naturals, FiniteSets

CONSTANTS
    Engines,     \* engine names
    RolesOf(_),  \* the roles an installed engine serves: {} if it is none
    Chat,        \* translators that speak to a chat-completions server
    Langs,       \* language codes
    Presets,     \* names an admin gives prompts
    PromptTexts, \* texts of prompts
    Numbers,     \* values of the numeric option
    Models,      \* model ids the backends report
    Asks,        \* request options: by engine name, then by option
    Clients,     \* page requests
    None, Blank,
    MaxPosts     \* bound: changes of the settings

Values == {"typed", "text"} \X (Numbers \cup Models \cup PromptTexts)

ASSUME PostsAreNat == MaxPosts \in Nat
ASSUME BlankIsNoValue == Blank \notin Values

\* The schemas' options of one kind stand for all of it: a number with a
\* default, and a model that has none.  system_prompt is in no schema.
Keys == {"model", "number", "system_prompt"}
Roles == {"recognizer", "translator"}
Default == CHOOSE n \in Numbers : TRUE
DefaultPrompt == CHOOSE t \in PromptTexts : TRUE
PromptNames == Presets \cup {"default"}
Schema(role) == IF role = "translator"
                  THEN [k \in {"model", "number"} |->
                          IF k = "number" THEN <<"typed", Default>> ELSE Blank]
                  ELSE [k \in {"number"} |-> <<"typed", Default>>]
NoOptions == [k \in Keys |-> None]

\* opt_key
OptKey(role, e) == <<role, e>>

\* require_role_engine, _require: an engine nobody installed serves no role.
HasEngine(role, e) == e # None /\ role \in RolesOf(e)
Forms == {f \in Roles \X Engines : HasEngine(f[1], f[2])}

VARIABLES
    chosen,   \* selection: the engine of each role, or None
    langs,    \* selection: source and target language
    options,  \* selection.options
    prompts,  \* selection.prompts: texts, None where there is no preset
    active,   \* selection.prompt_active
    posts,    \* changes made
    cached,   \* page_runs: the key of a page and what it was made from
    at,       \* where each request is
    plan,     \* its RunPlan, or None
    loaded,   \* the recognizer of recognize_pool, or None
    swapped,  \* requests whose pool another one's ensure replaced
    read,     \* what a request's crops were read with
    got       \* what the answered page was made with

settings == <<chosen, langs, options, prompts, active, posts>>
requests == <<cached, at, plan, loaded, swapped, read, got>>
optVars == <<settings, requests>>

Started(saved, model) == IF saved THEN [NoOptions EXCEPT !["model"] = model] ELSE NoOptions

\* The environment names the engines of a first run, installed or not; an
\* earlier run may have saved the models of the translators and a prompt.
OptInit ==
    /\ \E model \in {None} \cup ({"typed"} \X Models) :
         options = [k \in {OptKey(r, e) : r \in Roles, e \in Engines} |->
                      Started(k \in {OptKey("translator", e) : e \in Engines}, model)]
    /\ chosen \in [Roles -> Engines \cup {None}]
    /\ langs = <<CHOOSE l \in Langs : TRUE, CHOOSE l \in Langs : TRUE>>
    /\ \E p \in Presets, t \in PromptTexts \cup {None} :
         /\ prompts = [q \in PromptNames |-> IF q = p THEN t ELSE None]
         /\ active \in {"default"} \cup (IF t = None THEN {} ELSE {p})
    /\ posts = 0
    /\ cached = {} /\ loaded = None /\ swapped = {}
    /\ at = [r \in Clients |-> "idle"]
    /\ plan = [r \in Clients |-> None]
    /\ read = [r \in Clients |-> None]
    /\ got = [r \in Clients |-> None]
-----------------------------------------------------------------------------
(* The forms.                                                              *)

Post == posts < MaxPosts /\ posts' = posts + 1 /\ UNCHANGED requests

\* set_options' merge: None and "" remove a key.
Merged(cur, post) == [cur EXCEPT ![post.k] = IF post.v = Blank THEN None ELSE post.v]

\* list_models: what the backend reports, nothing when it cannot be reached.
Reported == {{}, Models}

\* The options a form can post: typed, as text, or blank.
Postable(models) ==
    [k : {"number"}, v : {Blank} \cup ({"typed", "text"} \X Numbers)]
      \cup [k : {"model"}, v : {Blank} \cup ({"typed"} \X models)]
      \cup [k : {"system_prompt"}, v : {Blank} \cup ({"typed"} \X PromptTexts)]

SetOptions(role, e) ==
    /\ Post /\ HasEngine(role, e)
    /\ \E models \in Reported : \E post \in Postable(models) :
         options' = [options EXCEPT ![OptKey(role, e)] = Merged(@, post)]
    /\ UNCHANGED <<chosen, langs, prompts, active>>

SetEngine(role, e) ==
    /\ Post /\ HasEngine(role, e)
    /\ chosen' = [chosen EXCEPT ![role] = e]
    /\ UNCHANGED <<langs, options, prompts, active>>

SetLanguages(src, dst) ==
    /\ Post /\ langs' = <<src, dst>>
    /\ UNCHANGED <<chosen, options, prompts, active>>

SavePrompt(p, t) ==
    /\ Post /\ prompts' = [prompts EXCEPT ![p] = t] /\ active' = p
    /\ UNCHANGED <<chosen, langs, options>>

SelectPrompt(p) ==
    /\ p = "default" \/ prompts[p] # None
    /\ Post /\ active' = p
    /\ UNCHANGED <<chosen, langs, options, prompts>>

DeletePrompt(p) ==
    /\ Post /\ prompts' = [prompts EXCEPT ![p] = None]
    /\ active' = IF active = p THEN "default" ELSE active
    /\ UNCHANGED <<chosen, langs, options>>

\* active_system_prompt: a saved text, of "default" too, before the builtin.
ActivePrompt == IF prompts[active] # None THEN prompts[active] ELSE DefaultPrompt
-----------------------------------------------------------------------------
(* A request's plan, its key and its run.                                  *)

\* options_for: the request's options over the saved ones.
OptionsFor(role, e, ask) ==
    LET saved == options[OptKey(role, e)]
    IN  [k \in Keys |-> IF e \in DOMAIN ask /\ k \in DOMAIN ask[e] THEN ask[e][k]
                        ELSE saved[k]]

\* translator_options: the active prompt's text, unless an option has the key.
TranslatorOptions(e, ask) ==
    LET opts == OptionsFor("translator", e, ask)
    IN  IF opts["system_prompt"] # None THEN opts
        ELSE [opts EXCEPT !["system_prompt"] = <<"typed", ActivePrompt>>]

\* make_plan
Plan(ask) ==
    [engines |-> chosen, langs |-> langs,
     opts |-> [role \in Roles |->
                 LET e == chosen[role]
                 IN  CASE e = None -> NoOptions
                       [] role = "translator" -> TranslatorOptions(e, ask)
                       [] OTHER -> OptionsFor(role, e, ask)]]

\* Defect: the key knows which options were set, not the prompt that runs.
KeyWithoutPrompt(p) ==
    <<p.langs, p.engines, [p.opts EXCEPT !["translator"]["system_prompt"] = None]>>

\* RunPlan.cache_key with opt_hash: the raw options of every role.
CacheKey(p) == <<p.langs, p.engines, p.opts>>

\* resolve_options: blanks become defaults, texts of numbers numbers.
ResolveOptions(role, opts) ==
    [k \in Keys |->
        IF k \notin DOMAIN Schema(role) THEN opts[k]
        ELSE IF opts[k] \in {None, Blank} THEN Schema(role)[k]
        ELSE <<"typed", opts[k][2]>>]

\* The system message: the option, or the default if it is blank or absent.
System(opts) ==
    IF opts["system_prompt"] \in {None, Blank} THEN DefaultPrompt
    ELSE opts["system_prompt"][2]

\* The bodies a translator posts for a text or a batch of them,
OllamaBody(opts) ==
    [model |-> opts["model"], system |-> System(opts), options |-> opts["number"]]
ChatBody(opts) ==
    [model |-> opts["model"], messages |-> <<System(opts)>>, sampling |-> opts["number"]]
TextBody(e, opts) == IF e \in Chat THEN ChatBody(opts) ELSE OllamaBody(opts)

\* and a recognizer for a crop, scaled down to the option's pixels.
CropBody(opts) == [pixels |-> opts["number"]]

\* What the backends are asked for a page's texts and for its crops.
AskedTexts(p) ==
    [engine |-> p.engines["translator"], langs |-> p.langs,
     body |-> TextBody(p.engines["translator"],
                       ResolveOptions("translator", p.opts["translator"]))]
AskedCrops(p) == CropBody(ResolveOptions("recognizer", p.opts["recognizer"]))

\* Nothing is translated without a model.
HasModel(p) == ResolveOptions("translator", p.opts["translator"])["model"] # Blank

Advance(r, to) == at' = [at EXCEPT ![r] = to]

MakePlan(r) ==
    /\ at[r] = "idle" /\ Advance(r, "lookup")
    /\ \E ask \in Asks : plan' = [plan EXCEPT ![r] = Plan(ask)]
    /\ UNCHANGED <<settings, cached, loaded, swapped, read, got>>

\* run_lookup and run_pipeline answer a page the cache has,
CacheHit(r) ==
    /\ at[r] = "lookup" /\ Advance(r, "answered")
    /\ \E row \in cached : row.key = CacheKey(plan[r]) /\ got' = [got EXCEPT ![r] = row.made]
    /\ UNCHANGED <<settings, cached, plan, loaded, swapped, read>>

\* a miss needs an engine in each role, and runs.
CacheMiss(r) ==
    /\ at[r] = "lookup" /\ \A row \in cached : row.key # CacheKey(plan[r])
    /\ Advance(r, IF \A role \in Roles : HasEngine(role, plan[r].engines[role])
                    THEN "ensure" ELSE "refused")
    /\ UNCHANGED <<settings, cached, plan, loaded, swapped, read, got>>

\* Defect: whatever pool there is will do.
EnsuredAny(p) == IF loaded # None THEN loaded ELSE p.engines["recognizer"]

\* recognize_pool.ensure: the plan's recognizer.
Ensured(p) == p.engines["recognizer"]

Ensures(r) ==
    /\ at[r] = "ensure" /\ Advance(r, "recognize")
    /\ loaded' = Ensured(plan[r])
    /\ swapped' = (swapped \ {r}) \cup
                    {c \in Clients \ {r} : at[c] = "recognize" /\ Ensured(plan[c]) # loaded'}
    /\ UNCHANGED <<settings, cached, plan, read, got>>

\* recognize_pool.run takes the pool as it is by now, or raises without one.
Recognizes(r) ==
    /\ at[r] = "recognize"
    /\ IF loaded = None
         THEN Advance(r, "failed") /\ UNCHANGED read
         ELSE /\ Advance(r, "translate")
              /\ read' = [read EXCEPT ![r] =
                            [by |-> loaded, crop |-> AskedCrops(plan[r]), swapped |-> r \in swapped]]
    /\ UNCHANGED <<settings, cached, plan, loaded, swapped, got>>

\* An idle sweep, or an admin's change, tears the pool down.
PoolGoes ==
    /\ loaded # None /\ loaded' = None
    /\ UNCHANGED <<settings, cached, at, plan, swapped, read, got>>

\* Defect: the translation reads the settings as they are by now.
TextsNow(p) == AskedTexts(Plan(<<>>))

\* _translate_sync reads its plan only.
TextsFrom(p) == AskedTexts(p)

\* The texts are translated and the page is stored under the plan's key.
Translates(r) ==
    /\ at[r] = "translate"
    /\ IF ~HasModel(plan[r])
         THEN Advance(r, "failed") /\ UNCHANGED <<cached, got>>
         ELSE LET row == [key |-> CacheKey(plan[r]),
                          made |-> [read |-> read[r], texts |-> TextsFrom(plan[r])]]
              IN  /\ cached' = {old \in cached : old.key # row.key} \cup {row}
                  /\ got' = [got EXCEPT ![r] = row.made] /\ Advance(r, "answered")
    /\ UNCHANGED <<settings, plan, loaded, swapped, read>>

RequestEnds(r) ==
    /\ at[r] \in {"answered", "refused", "failed"} /\ Advance(r, "idle")
    /\ plan' = [plan EXCEPT ![r] = None] /\ got' = [got EXCEPT ![r] = None]
    /\ read' = [read EXCEPT ![r] = None] /\ swapped' = swapped \ {r}
    /\ UNCHANGED <<settings, cached, loaded>>
-----------------------------------------------------------------------------
FormPosted ==
    \/ \E f \in Forms : SetOptions(f[1], f[2]) \/ SetEngine(f[1], f[2])
    \/ \E src, dst \in Langs : SetLanguages(src, dst)
    \/ \E p \in PromptNames : SelectPrompt(p) \/ (\E t \in PromptTexts : SavePrompt(p, t))
    \/ \E p \in Presets \ {"default"} : DeletePrompt(p)

OptNext ==
    \/ FormPosted \/ PoolGoes
    \/ \E r \in Clients : \/ MakePlan(r) \/ CacheHit(r) \/ CacheMiss(r) \/ Ensures(r)
                           \/ Recognizes(r) \/ Translates(r) \/ RequestEnds(r)

OptSpec == OptInit /\ [][OptNext]_optVars
-----------------------------------------------------------------------------
\* What a page made with m owes to the plan p.
MadeAs(m, p) ==
    /\ m.texts = AskedTexts(p) /\ m.read.crop = AskedCrops(p)
    /\ m.read.by = p.engines["recognizer"] \/ m.read.swapped

\* A page, computed or cached, was translated with the languages, the engine,
\* the options and the prompt text of its own plan and read with the plan's
\* options, whatever was posted and whoever ran meanwhile; and by the plan's
\* recognizer, unless another request's ensure came between its own and its run.
ServedAsConfigured == \A r \in Clients : at[r] = "answered" => MadeAs(got[r], plan[r])
=============================================================================
