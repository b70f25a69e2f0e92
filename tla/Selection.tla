------------------------------ MODULE Selection ------------------------------
(***************************************************************************)
(* app/state.py, class Selection and the pure part of AppState's setters   *)
(* and resolvers: what each makes of the selection, a record.  A dict of   *)
(* overrides is a function to values or None, None standing for an absent  *)
(* key.  Also app/prompts.py and the seeds of app/config.py.               *)
(***************************************************************************)
EXTENDS Integers

CONSTANTS
    Engines,       \* engine names; one may serve several roles
    Langs,         \* language codes
    Devices,       \* "cpu", "cuda", "cuda:N"
    Presets,       \* names an admin may give a prompt preset
    Numbers,       \* integers a client may post
    None,          \* Python's None
    DefaultEngine, \* SCANLATION_RECOGNIZER
    DefaultLang,   \* SCANLATION_LANG_SRC, SCANLATION_LANG_DST
    EnvWorkers     \* SCANLATION_RECOGNIZE_CONCURRENCY as it is set

ASSUME DefaultsAreKnown == DefaultEngine \in Engines /\ DefaultLang \in Langs
ASSUME NoneIsNoSetting == None \notin Devices \cup Numbers \cup Int
ASSUME NumbersAreInt == Numbers \subseteq Int /\ EnvWorkers \in Int

\* Defect: the value is kept as it was posted.
Unclamped(floor, n) == n

\* The clamp max(floor, int(value)) of every write path.
Floored(floor, n) == IF n < floor THEN floor ELSE n

\* _env_int: the seed of a setting, None for a setting any integer fits.
EnvInt(n, floor) == IF floor = None THEN n ELSE Floored(floor, n)

DefaultWorkers == EnvInt(EnvWorkers, 1)
BuiltinPrompts == {"default"}

\* Selection(): every field at its default.
Defaults ==
    [recognizer |-> DefaultEngine,
     langs      |-> <<DefaultLang, DefaultLang>>,
     devices    |-> [e \in Engines |-> None],
     conc       |-> [e \in Engines |-> None],
     active     |-> "default",
     prompts    |-> {},
     translate  |-> 1]

SetLanguages(s, src, dst) == [s EXCEPT !.langs = <<src, dst>>]

\* None removes the override.
SetDevice(s, e, d) == [s EXCEPT !.devices[e] = d]

\* None removes the override, an integer is floored at 1.
SetWorkers(s, e, w) ==
    [s EXCEPT !.conc[e] = IF w = None THEN None ELSE Floored(1, w)]

\* Every setting of the behaviour tab is clamped like translate_concurrency.
SetClientConfig(s, n) ==
    IF n = None THEN s ELSE [s EXCEPT !.translate = Floored(1, n)]

SavePrompt(s, name) ==
    [s EXCEPT !.prompts = @ \cup {name}, !.active = name]

SelectPrompt(s, name) == [s EXCEPT !.active = name]

DeletePrompt(s, name) ==
    [s EXCEPT !.prompts = @ \ {name},
              !.active = IF @ = name THEN "default" ELSE @]

\* select_prompt's route refuses a name nobody saved; delete_prompt's a builtin.
MaySelect(s, name) == name \in BuiltinPrompts \cup s.prompts
MayDelete(name) == name \notin BuiltinPrompts

Resolve(override, default) == IF override = None THEN default ELSE override

\* resolve_recognize_concurrency: the pool's size and the gate's width.
WorkersFor(s, e) == Floored(1, Resolve(s.conc[e], DefaultWorkers))
=============================================================================
