--------------------------- MODULE AppStateProofs ---------------------------
(***************************************************************************)
(* The safety of AppState for any routes, coroutines, pages and numbers.   *)
(* The invariant has three parts that disturb each other little: what is   *)
(* being saved (SaveInv), who is inside which gate (GateInv), and the pool *)
(* of running maps (NoRunTornDown).                                        *)
(***************************************************************************)
EXTENDS AppState, FiniteSetTheorems, SequenceTheorems, TLAPS

Selections ==
    [recognizer : Engines, langs : Langs \X Langs,
     devices : [Engines -> Devices \cup {None}],
     conc : [Engines -> (Nat \ {0}) \cup {None}],
     active : PromptNames, prompts : SUBSET PromptNames, translate : Nat \ {0}]

Labels == {"idle", "assign", "engine", "enter", "invalidate", "width", "swap",
           "save", "open", "write"}
Jobs == {"idle", "planned", "asking", "ensure", "run", "running", "leave"}

\* A posted value fits the request that carries it.
Fits(r) ==
    /\ r.op = "workers" => r.value \in Int \cup {None}
    /\ r.op = "device" => r.value \in Devices \cup {None}
    /\ r.op = "prompt" => r.value \in PromptNames

SettingTypes ==
    /\ sel \in Selections
    /\ file \in {<<>>} \cup {<<s>> : s \in Selections}
    /\ text \in [Setters -> Selections \cup {None}]
    /\ pc \in [Setters -> Labels]
    /\ arg = [t \in Setters |-> arg[t]] /\ width \in [Setters -> Nat]
    /\ \A t \in Setters : /\ arg[t].engine \in Engines /\ Fits(arg[t])
                          /\ pc[t] = "swap" => width[t] # 0
                          /\ pc[t] = "assign" => arg[t].op = "prompt"
                          /\ pc[t] = "enter" => arg[t].op \in {"workers", "device"}

\* A setter is about to save, so that what others write does not matter.
Unsaved == \E t \in Setters : pc[t] = "save"
Writing(t) == pc[t] \in {"open", "write"}

\* One thread writes the file; what it writes, or what was written last, is the
\* selection, unless somebody has changed it since and will save it.
SaveInv ==
    /\ lock \in Setters \cup {None}
    /\ \A t \in Setters : Writing(t) =>
         lock = t /\ text[t] \in Selections /\ (text[t] = sel \/ Unsaved)
    /\ (\A t \in Setters : ~Writing(t)) => Load(file) = sel \/ Unsaved

Gates == [width : Nat \ {0}, readers : SUBSET Pages, writer : Setters \cup {None}]

\* Every gate, replaced or not, knows who is inside.
GateInv ==
    /\ gates \in Seq(Gates) /\ Len(gates) >= 1
    /\ at \in [Pages \cup Coros -> 1..Len(gates)]
    /\ job \in [Pages -> Jobs] /\ rec \in [Pages -> Engines]
    /\ \A g \in 1..Len(gates) :
         /\ gates[g].readers = {p \in Pages : job[p] \in Inside /\ at[p] = g}
         /\ Cardinality(gates[g].readers) <= gates[g].width

AppInv == SettingTypes /\ SaveInv /\ GateInv /\ NoRunTornDown
-----------------------------------------------------------------------------
(* The selection.                                                          *)

LEMMA FlooredIsPositive == ASSUME NEW n \in Int PROVE Floored(1, n) \in Nat \ {0}
  BY DEF Floored

LEMMA DefaultsAreSelections == Defaults \in Selections
  BY DefaultsAreKnown DEF Defaults, Selections, PromptNames, BuiltinPrompts

\* resolve_recognize_concurrency gives at least one worker.
LEMMA WorkersArePositive ==
    ASSUME NEW s \in Selections, NEW e \in Engines PROVE WorkersFor(s, e) \in Nat \ {0}
  <1>1. DefaultWorkers \in Int
    BY NumbersAreInt DEF DefaultWorkers, EnvInt, Floored
  <1>2. s.conc[e] \in (Nat \ {0}) \cup {None}
    BY DEF Selections
  <1>3. Resolve(s.conc[e], DefaultWorkers) \in Int
    BY <1>1, <1>2 DEF Resolve
  <1> QED
    BY <1>3, FlooredIsPositive DEF WorkersFor

\* Every setter gives a selection, whatever number is posted.
LEMMA SettersGiveSelections ==
    ASSUME NEW s \in Selections
    PROVE /\ \A src, dst \in Langs : SetLanguages(s, src, dst) \in Selections
          /\ \A n \in Numbers : SetClientConfig(s, n) \in Selections
          /\ \A name \in PromptNames : /\ SavePrompt(s, name) \in Selections
                                       /\ SelectPrompt(s, name) \in Selections
                                       /\ DeletePrompt(s, name) \in Selections
          /\ \A e \in Engines : /\ [s EXCEPT !.recognizer = e] \in Selections
                                /\ \A d \in Devices \cup {None} : SetDevice(s, e, d) \in Selections
                                /\ \A w \in Int \cup {None} : SetWorkers(s, e, w) \in Selections
  <1>1. \A src, dst \in Langs : SetLanguages(s, src, dst) \in Selections
    BY DEF SetLanguages, Selections
  <1>2. ASSUME NEW n \in Numbers PROVE SetClientConfig(s, n) \in Selections
    <2>1. n # None /\ Floored(1, n) \in Nat \ {0}
      BY NumbersAreInt, NoneIsNoSetting, FlooredIsPositive
    <2> QED
      BY <2>1 DEF SetClientConfig, Selections
  <1>3. ASSUME NEW name \in PromptNames
        PROVE /\ SavePrompt(s, name) \in Selections /\ SelectPrompt(s, name) \in Selections
              /\ DeletePrompt(s, name) \in Selections
    BY DEF SavePrompt, SelectPrompt, DeletePrompt, Selections, PromptNames, BuiltinPrompts
  <1>4. ASSUME NEW e \in Engines
        PROVE /\ [s EXCEPT !.recognizer = e] \in Selections
              /\ \A d \in Devices \cup {None} : SetDevice(s, e, d) \in Selections
    BY DEF SetDevice, Selections
  <1>5. ASSUME NEW e \in Engines, NEW w \in Int \cup {None} PROVE SetWorkers(s, e, w) \in Selections
    <2>1. (IF w = None THEN None ELSE Floored(1, w)) \in (Nat \ {0}) \cup {None}
      BY FlooredIsPositive
    <2> QED
      BY <2>1 DEF SetWorkers, Selections
  <1> QED
    BY <1>1, <1>2, <1>3, <1>4, <1>5

LEMMA LoadedIsSelection == SettingTypes => Load(file) \in Selections
  BY DefaultsAreSelections DEF SettingTypes, Load
-----------------------------------------------------------------------------
(* Setters, except while they save.                                        *)

\* A setter that neither is nor comes to be in the middle of a save leaves the
\* saved selection alone, or is about to save the one it changed.
LEMMA MovesKeepSaves ==
    ASSUME SettingTypes, SaveInv, NEW t \in Setters, NEW l,
           pc[t] \notin {"save", "open", "write"}, l \notin {"open", "write"},
           pc' = [pc EXCEPT ![t] = l], UNCHANGED <<file, lock, text>>,
           l = "save" \/ sel' = sel
    PROVE SaveInv'
  <1>1. \A u \in Setters : pc'[u] = IF u = t THEN l ELSE pc[u]
    BY DEF SettingTypes
  <1>2. \A u \in Setters : Writing(u)' <=> Writing(u)
    BY <1>1 DEF Writing
  <1>3. CASE l = "save"
    <2>1. Unsaved'
      BY <1>1, <1>3 DEF Unsaved
    <2> QED
      BY <1>2, <2>1 DEF SaveInv
  <1>4. CASE l # "save" /\ sel' = sel
    <2>1. Unsaved' <=> Unsaved
      BY <1>1, <1>4 DEF Unsaved
    <2>2. Load(file') = Load(file)
      OBVIOUS
    <2> QED
      BY <1>2, <1>4, <2>1, <2>2 DEF SaveInv
  <1> QED
    BY <1>3, <1>4

\* An edit, or the check before one, or the change after the check.
LEMMA CallInv ==
    ASSUME SettingTypes, SaveInv, NEW t \in Setters, Called(t) \/ Assign(t)
    PROVE SettingTypes' /\ SaveInv'
  <1>1. ASSUME NEW s \in Selections, Edit(t, s) PROVE SettingTypes' /\ SaveInv'
    <2>1. SettingTypes'
      BY <1>1, DefaultsAreKnown DEF Edit, Begin, Goto, SettingTypes, Fits, Labels
    <2>2. SaveInv'
      BY <1>1, MovesKeepSaves DEF Edit, Begin, Goto
    <2> QED
      BY <2>1, <2>2
  <1>2. CASE EditSelection(t)
    BY <1>1, <1>2, SettersGiveSelections DEF EditSelection, SettingTypes
  <1>3. ASSUME NEW name \in PromptNames, CheckPrompt(t, name) PROVE SettingTypes' /\ SaveInv'
    <2>1. SettingTypes'
      BY <1>3, DefaultsAreKnown
      DEF CheckPrompt, Begin, Goto, SettingTypes, Fits, Labels, settingVars
    <2>2. SaveInv'
      BY <1>3, MovesKeepSaves DEF CheckPrompt, Begin, Goto, settingVars
    <2> QED
      BY <2>1, <2>2
  <1>4. ASSUME NEW e \in Engines, CheckEngine(t, e) PROVE SettingTypes' /\ SaveInv'
    <2>1. SettingTypes'
      BY <1>4 DEF CheckEngine, Begin, Goto, SettingTypes, Fits, Labels, settingVars
    <2>2. SaveInv'
      BY <1>4, MovesKeepSaves DEF CheckEngine, Begin, Goto, settingVars
    <2> QED
      BY <2>1, <2>2
  <1>5. CASE Assign(t)
    <2>1. sel' \in Selections
      BY <1>5, SettersGiveSelections DEF Assign, SettingTypes, Fits
    <2>2. SettingTypes'
      BY <1>5, <2>1 DEF Assign, Goto, SettingTypes, Labels
    <2>3. SaveInv'
      BY <1>5, MovesKeepSaves DEF Assign, Goto
    <2> QED
      BY <2>2, <2>3
  <1> QED
    BY <1>2, <1>3, <1>4, <1>5 DEF Called

\* rebuild_gpu_gate reads a positive width and uses it.
LEMMA RebuildInv ==
    ASSUME SettingTypes, SaveInv, NEW t \in Setters, Rebuilds(t)
    PROVE SettingTypes' /\ SaveInv'
  <1>1. WorkersFor(sel, sel.recognizer) \in Nat \ {0}
    BY WorkersArePositive DEF SettingTypes, Selections
  <1>2. SettingTypes'
    <2>1. CASE RebuildReads(t)
      BY <1>1, <2>1 DEF RebuildReads, Goto, SettingTypes, Labels, settingVars
    <2>2. CASE RebuildSwaps(t)
      BY <2>2 DEF RebuildSwaps, Goto, SettingTypes, Labels, settingVars
    <2> QED
      BY <2>1, <2>2 DEF Rebuilds
  <1>3. SaveInv'
    <2>1. CASE RebuildReads(t)
      BY <2>1, MovesKeepSaves DEF RebuildReads, Goto, settingVars
    <2>2. CASE RebuildSwaps(t)
      BY <2>2, MovesKeepSaves DEF RebuildSwaps, Goto, settingVars
    <2> QED
      BY <2>1, <2>2 DEF Rebuilds
  <1> QED
    BY <1>2, <1>3

\* The coroutines: the comparison, the setter inside the gate, the end.
LEMMA CoroutineInv ==
    ASSUME SettingTypes, SaveInv, NEW c \in Coros,
           Compares(c) \/ WriterEnters(c) \/ WriterInvalidates(c)
    PROVE SettingTypes' /\ SaveInv'
  <1> USE DEF Setters
  <1>1. ASSUME NEW e \in Engines, NEW op \in {"workers", "device"}, NEW v,
               CompareSetting(c, op, e, v),
               op = "workers" => v \in Int \cup {None},
               op = "device" => v \in Devices \cup {None}
        PROVE SettingTypes' /\ SaveInv'
    <2>1. SettingTypes'
      BY <1>1 DEF CompareSetting, Begin, Goto, SettingTypes, Fits, Labels, settingVars
    <2>2. SaveInv'
      BY <1>1, MovesKeepSaves DEF CompareSetting, Begin, Goto, settingVars
    <2> QED
      BY <2>1, <2>2
  <1>2. CASE Compares(c)
    <2>1. \A n \in Numbers : Floored(1, n) \in Int
      BY NumbersAreInt DEF Floored
    <2> QED
      BY <1>1, <1>2, <2>1 DEF Compares
  <1>3. CASE WriterEnters(c)
    <2>1. sel' \in Selections
      <3>1. pc[c] = "enter" /\ arg[c].engine \in Engines /\ Fits(arg[c])
            /\ arg[c].op \in {"workers", "device"} /\ sel \in Selections
        BY <1>3 DEF WriterEnters, SettingTypes
      <3> QED
        BY <1>3, <3>1, SettersGiveSelections DEF WriterEnters, Fits
    <2>2. SettingTypes'
      BY <1>3, <2>1 DEF WriterEnters, Goto, SettingTypes, Labels
    <2>3. SaveInv'
      BY <1>3, MovesKeepSaves DEF WriterEnters, Goto
    <2> QED
      BY <2>2, <2>3
  <1>4. CASE WriterInvalidates(c)
    <2>1. SettingTypes'
      BY <1>4 DEF WriterInvalidates, Goto, SettingTypes, Labels, settingVars
    <2>2. SaveInv'
      BY <1>4, MovesKeepSaves DEF WriterInvalidates, Goto, settingVars
    <2> QED
      BY <2>1, <2>2
  <1> QED
    BY <1>2, <1>3, <1>4

(* The save itself.                                                        *)
LEMMA SaveStepInv ==
    ASSUME SettingTypes, SaveInv, NEW t \in Setters, Saves(t)
    PROVE SettingTypes' /\ SaveInv'
  <1>1. CASE SaveDumps(t)
    <2>1. SettingTypes'
      BY <1>1 DEF SaveDumps, Goto, SettingTypes, Labels
    <2>2. \A u \in Setters : ~Writing(u)
      BY <1>1, NoneIsNoTask DEF SaveDumps, SaveInv
    <2>3. \A u \in Setters : pc'[u] = IF u = t THEN "open" ELSE pc[u]
      BY <1>1 DEF SaveDumps, Goto, SettingTypes
    <2>4. \A u \in Setters : Writing(u)' <=> u = t
      BY <2>2, <2>3 DEF Writing
    <2>5. lock' = t /\ text'[t] = sel' /\ sel' \in Selections
      BY <1>1 DEF SaveDumps, SettingTypes
    <2> QED
      BY <2>1, <2>4, <2>5 DEF SaveInv
  <1>2. CASE SaveOpens(t)
    <2>1. SettingTypes'
      BY <1>2 DEF SaveOpens, Goto, SettingTypes, Labels
    <2>2. \A u \in Setters : pc'[u] = IF u = t THEN "write" ELSE pc[u]
      BY <1>2 DEF SaveOpens, Goto, SettingTypes
    <2>3. pc[t] = "open" /\ Writing(t) /\ Writing(t)'
      BY <1>2, <2>2 DEF SaveOpens, Writing
    <2>4. (\A u \in Setters : Writing(u)' <=> Writing(u)) /\ (Unsaved' <=> Unsaved)
      BY <2>2, <2>3 DEF Writing, Unsaved
    <2> QED
      BY <1>2, <2>1, <2>3, <2>4 DEF SaveOpens, SaveInv
  <1>3. CASE SaveWrites(t)
    <2> DEFINE l == CASE arg[t].op = "engines" -> "width"
                      [] arg[t].op \in {"workers", "device"} -> "invalidate"
                      [] OTHER -> "idle"
    <2>1. l \in {"width", "invalidate", "idle"}
      OBVIOUS
    <2>2. pc[t] = "write" /\ pc' = [pc EXCEPT ![t] = l]
          /\ file' = <<text[t]>> /\ lock' = None /\ text' = [text EXCEPT ![t] = None]
          /\ UNCHANGED <<sel, arg, width>>
      BY <1>3 DEF SaveWrites, Goto
    <2> HIDE DEF l
    <2>3. Writing(t) /\ text[t] \in Selections /\ (text[t] = sel \/ Unsaved)
          /\ \A u \in Setters : Writing(u) => u = t
      BY <2>2 DEF Writing, SaveInv
    <2>4. SettingTypes'
      BY <2>1, <2>2, <2>3 DEF SettingTypes, Labels
    <2>5. \A u \in Setters : pc'[u] = IF u = t THEN l ELSE pc[u]
      BY <2>2 DEF SettingTypes
    <2>6. (\A u \in Setters : ~Writing(u)') /\ (Unsaved' <=> Unsaved)
      BY <2>1, <2>2, <2>3, <2>5 DEF Writing, Unsaved
    <2>7. Load(file') = text[t]
      BY <2>2 DEF Load
    <2> QED
      BY <2>2, <2>3, <2>4, <2>6, <2>7 DEF SaveInv
  <1> QED
    BY <1>1, <1>2, <1>3 DEF Saves
-----------------------------------------------------------------------------
(* The gates and the pool.                                                 *)

\* One gate changes.
LEMMA OneGateChanges ==
    ASSUME gates \in Seq(Gates), NEW g \in 1..Len(gates), NEW gate \in Gates,
           gates' = [gates EXCEPT ![g] = gate]
    PROVE /\ gates' \in Seq(Gates) /\ Len(gates') = Len(gates)
          /\ \A h \in 1..Len(gates) : gates'[h] = IF h = g THEN gate ELSE gates[h]
  BY ExceptSeq

\* A step that changes one gate's writer, or adds a gate, moves no reader.
LEMMA WriterMovesNoReader ==
    ASSUME GateInv, NEW g \in 1..Len(gates), NEW w \in Setters \cup {None},
           gates' = [gates EXCEPT ![g].writer = w], UNCHANGED <<at, job, rec>>
    PROVE GateInv'
  <1> DEFINE gate == [gates[g] EXCEPT !.writer = w]
  <1>1. gates[g] \in Gates
    BY ElementOfSeq DEF GateInv
  <1>2. gate \in Gates /\ gate.readers = gates[g].readers /\ gate.width = gates[g].width
    BY <1>1 DEF Gates
  <1>3. gates' = [gates EXCEPT ![g] = gate]
    OBVIOUS
  <1> HIDE DEF gate
  <1>4. /\ gates' \in Seq(Gates) /\ Len(gates') = Len(gates)
        /\ \A h \in 1..Len(gates) : gates'[h] = IF h = g THEN gate ELSE gates[h]
    BY <1>2, <1>3, OneGateChanges DEF GateInv
  <1> QED
    BY <1>2, <1>4 DEF GateInv

LEMMA NewGateIsEmpty ==
    ASSUME GateInv, NEW k \in Nat \ {0}, gates' = Append(gates, NewGate(k)),
           UNCHANGED <<at, job, rec>>
    PROVE GateInv'
  <1> DEFINE gate == NewGate(k)
             n == Len(gates)
  <1>1. gate \in Gates /\ gate.readers = {} /\ gate.width = k
    BY DEF NewGate, Gates
  <1> HIDE DEF gate
  <1>2. /\ gates' \in Seq(Gates) /\ Len(gates') = n + 1 /\ n \in Nat
        /\ \A g \in 1..n : gates'[g] = gates[g]
        /\ gates'[n + 1] = gate
    BY <1>1, AppendProperties, LenProperties DEF GateInv, gate
  <1>3. at' \in [Pages \cup Coros -> 1..(n + 1)]
    BY <1>2 DEF GateInv
  <1>4. {p \in Pages : job'[p] \in Inside /\ at'[p] = n + 1} = {}
    BY <1>2 DEF GateInv
  <1>5. Cardinality({}) = 0
    BY FS_EmptySet
  <1>6. \A g \in 1..(n + 1) : g \in 1..n \/ g = n + 1
    BY <1>2
  <1>7. ASSUME NEW g \in 1..(n + 1)
        PROVE /\ gates'[g].readers = {p \in Pages : job'[p] \in Inside /\ at'[p] = g}
              /\ Cardinality(gates'[g].readers) <= gates'[g].width
    <2>1. CASE g \in 1..n
      BY <1>2, <2>1 DEF GateInv
    <2>2. CASE g = n + 1
      <3>1. gates'[g].readers = {} /\ gates'[g].width = k
        BY <1>1, <1>2, <2>2
      <3>2. {p \in Pages : job'[p] \in Inside /\ at'[p] = g} = {}
        BY <1>4, <2>2
      <3> QED
        BY <1>5, <3>1, <3>2
    <2> QED
      BY <1>6, <2>1, <2>2
  <1> QED
    BY <1>2, <1>3, <1>7 DEF GateInv

\* A page that asks, or a page inside that goes on, enters and leaves nothing.
LEMMA StagesKeepGates ==
    ASSUME GateInv, NEW p \in Pages, NEW l \in Jobs, job' = [job EXCEPT ![p] = l],
           (job[p] \in Inside) <=> (l \in Inside),
           at' = at \/ (job[p] \notin Inside /\ at' = [at EXCEPT ![p] = Cur]),
           gates' = gates, rec' \in [Pages -> Engines]
    PROVE GateInv'
  <1>1. at' \in [Pages \cup Coros -> 1..Len(gates)]
    BY DEF GateInv, Cur
  <1>2. job' \in [Pages -> Jobs] /\ \A q \in Pages : job'[q] = IF q = p THEN l ELSE job[q]
    BY DEF GateInv
  <1>3. \A q \in Pages, g \in 1..Len(gates) :
          (job'[q] \in Inside /\ at'[q] = g) <=> (job[q] \in Inside /\ at[q] = g)
    BY <1>2 DEF GateInv
  <1> QED
    BY <1>1, <1>2, <1>3 DEF GateInv

\* A page enters the gate it asked, which has a permit left.
LEMMA EntersOneGate ==
    ASSUME GateInv, NEW p \in Pages, ReaderEnters(p) PROVE GateInv'
  <1> DEFINE g == at[p]
             gate == [gates[g] EXCEPT !.readers = @ \cup {p}]
  <1>1. /\ job[p] = "asking" /\ job' = [job EXCEPT ![p] = "ensure"]
        /\ Cardinality(gates[g].readers) < gates[g].width
        /\ gates' = [gates EXCEPT ![g] = gate] /\ UNCHANGED <<at, rec>>
    BY DEF ReaderEnters, PageStep
  <1>2. g \in 1..Len(gates) /\ gates[g] \in Gates
    BY ElementOfSeq DEF GateInv
  <1>3. /\ gate \in Gates /\ gate.readers = gates[g].readers \cup {p}
        /\ gate.width = gates[g].width /\ gate.width \in Nat
    BY <1>2 DEF Gates
  <1> HIDE DEF gate
  <1>4. /\ gates' \in Seq(Gates) /\ Len(gates') = Len(gates)
        /\ \A h \in 1..Len(gates) : gates'[h] = IF h = g THEN gate ELSE gates[h]
    BY <1>1, <1>2, <1>3, OneGateChanges DEF GateInv
  <1>5. Cardinality(gate.readers) <= gate.width
    <2>1. IsFiniteSet(gates[g].readers)
      BY <1>2, PagesAreFinite, FS_Subset DEF Gates
    <2>2. Cardinality(gates[g].readers) \in Nat
      BY <2>1, FS_CardinalityType
    <2>3. Cardinality(gate.readers) <= Cardinality(gates[g].readers) + 1
      BY <1>3, <2>1, <2>2, FS_AddElement
    <2>4. Cardinality(gate.readers) \in Nat
      BY <1>3, <2>1, FS_AddElement, FS_CardinalityType
    <2> QED
      BY <1>1, <1>3, <2>2, <2>3, <2>4
  <1>6. \A q \in Pages : job'[q] = IF q = p THEN "ensure" ELSE job[q]
    BY <1>1 DEF GateInv
  <1>7. \A h \in 1..Len(gates) :
          gates'[h].readers = {q \in Pages : job'[q] \in Inside /\ at'[q] = h}
    BY <1>1, <1>3, <1>4, <1>6 DEF GateInv, Inside
  <1>8. job' \in [Pages -> Jobs]
    BY <1>1 DEF GateInv, Jobs
  <1> QED
    BY <1>1, <1>4, <1>5, <1>7, <1>8 DEF GateInv

\* And gives its permit back to that gate.
LEMMA LeavesItsGate ==
    ASSUME GateInv, NEW p \in Pages, ReaderLeaves(p) PROVE GateInv'
  <1> DEFINE g == at[p]
             gate == [gates[g] EXCEPT !.readers = @ \ {p}]
  <1>1. /\ job[p] = "leave" /\ job' = [job EXCEPT ![p] = "idle"]
        /\ gates' = [gates EXCEPT ![g] = gate] /\ UNCHANGED <<at, rec>>
    BY DEF ReaderLeaves, PageStep
  <1>2. g \in 1..Len(gates) /\ gates[g] \in Gates
    BY ElementOfSeq DEF GateInv
  <1>3. /\ gate \in Gates /\ gate.readers = gates[g].readers \ {p}
        /\ gate.width = gates[g].width /\ gate.width \in Nat
    BY <1>2 DEF Gates
  <1> HIDE DEF gate
  <1>4. /\ gates' \in Seq(Gates) /\ Len(gates') = Len(gates)
        /\ \A h \in 1..Len(gates) : gates'[h] = IF h = g THEN gate ELSE gates[h]
    BY <1>1, <1>2, <1>3, OneGateChanges DEF GateInv
  <1>5. Cardinality(gate.readers) <= gate.width
    <2>1. IsFiniteSet(gates[g].readers)
      BY <1>2, PagesAreFinite, FS_Subset DEF Gates
    <2>2. /\ Cardinality(gate.readers) <= Cardinality(gates[g].readers)
          /\ Cardinality(gate.readers) \in Nat /\ Cardinality(gates[g].readers) \in Nat
      BY <1>3, <2>1, FS_Subset, FS_CardinalityType
    <2> QED
      BY <1>2, <1>3, <2>2 DEF GateInv
  <1>6. \A q \in Pages : job'[q] = IF q = p THEN "idle" ELSE job[q]
    BY <1>1 DEF GateInv
  <1>7. \A h \in 1..Len(gates) :
          gates'[h].readers = {q \in Pages : job'[q] \in Inside /\ at'[q] = h}
    BY <1>1, <1>3, <1>4, <1>6 DEF GateInv, Inside
  <1>8. job' \in [Pages -> Jobs]
    BY <1>1 DEF GateInv, Jobs
  <1> QED
    BY <1>1, <1>4, <1>5, <1>7, <1>8 DEF GateInv

\* A page's steps: the pool it maps on is there.
LEMMA PageInv ==
    ASSUME AppInv, NEW p \in Pages, MakePlan(p) \/ PageContinues(p) PROVE AppInv'
  <1> USE DEF PageStep
  <1>1. UNCHANGED <<settingVars, setterVars>>
    BY DEF MakePlan, PageContinues, ReaderAsks, ReaderEnters, EnsurePool, RunStarts,
           RunReturns, ReaderLeaves
  <1>2. SettingTypes' /\ SaveInv'
    BY <1>1 DEF AppInv, settingVars, setterVars, SettingTypes, SaveInv, Writing, Unsaved
  <1>3. GateInv'
    <2>1. CASE MakePlan(p) \/ ReaderAsks(p) \/ EnsurePool(p) \/ RunStarts(p) \/ RunReturns(p)
      <3>1. sel.recognizer \in Engines
        BY DEF AppInv, SettingTypes, Selections
      <3>2. rec' \in [Pages -> Engines]
        BY <2>1, <3>1 DEF MakePlan, ReaderAsks, EnsurePool, RunStarts, RunReturns, AppInv, GateInv
      <3>3. \E l \in Jobs : /\ job' = [job EXCEPT ![p] = l]
                            /\ (job[p] \in Inside) <=> (l \in Inside)
        BY <2>1 DEF MakePlan, ReaderAsks, EnsurePool, RunStarts, RunReturns, Jobs, Inside
      <3>4. at' = at \/ (job[p] \notin Inside /\ at' = [at EXCEPT ![p] = Cur])
        BY <2>1 DEF MakePlan, ReaderAsks, EnsurePool, RunStarts, RunReturns, Inside
      <3>5. gates' = gates
        BY <2>1 DEF MakePlan, ReaderAsks, EnsurePool, RunStarts, RunReturns
      <3> QED
        BY <3>2, <3>3, <3>4, <3>5, StagesKeepGates DEF AppInv
    <2> QED
      BY <2>1, EntersOneGate, LeavesItsGate DEF PageContinues, AppInv
  <1>4. NoRunTornDown'
    <2>1. CASE EnsurePool(p)
      <3>1. sel \in Selections /\ rec[p] \in Engines
        BY DEF AppInv, SettingTypes, GateInv
      <3>2. sel.devices[rec[p]] \in Devices \cup {None}
        BY <3>1 DEF Selections
      <3>3. pool' \in PoolKeys
        BY <2>1, <3>1, <3>2, WorkersArePositive DEF EnsurePool, PoolKeys
      <3> QED
        BY <3>3, NoneIsNoKey DEF NoRunTornDown
    <2>2. CASE RunStarts(p)
      BY <2>2 DEF RunStarts, NoRunTornDown, Running, AppInv, GateInv
    <2>3. CASE MakePlan(p) \/ ReaderAsks(p) \/ ReaderEnters(p) \/ RunReturns(p) \/ ReaderLeaves(p)
      <3>1. pool' = pool /\ \E l \in Jobs \ {"running"} : job' = [job EXCEPT ![p] = l]
        BY <2>3 DEF MakePlan, ReaderAsks, ReaderEnters, RunReturns, ReaderLeaves, Jobs
      <3>2. Running' \subseteq Running
        BY <3>1 DEF Running, AppInv, GateInv
      <3> QED
        BY <3>1, <3>2 DEF NoRunTornDown, AppInv
    <2> QED
      BY <2>1, <2>2, <2>3 DEF PageContinues
  <1> QED
    BY <1>2, <1>3, <1>4 DEF AppInv

\* A setter's steps: gates and pool.
LEMMA SetterInv ==
    ASSUME AppInv, NEW t \in Setters,
           \/ Called(t) \/ Assign(t) \/ Saves(t) \/ Rebuilds(t)
           \/ t \in Coros /\ (Compares(t) \/ WriterEnters(t) \/ WriterInvalidates(t))
    PROVE AppInv'
  <1>1. SettingTypes' /\ SaveInv'
    BY CallInv, SaveStepInv, RebuildInv, CoroutineInv DEF AppInv
  <1>2. UNCHANGED <<job, rec>>
    BY DEF Called, EditSelection, Edit, CheckPrompt, CheckEngine, Assign, Saves, SaveDumps,
           SaveOpens, SaveWrites, Rebuilds, RebuildReads, RebuildSwaps, Compares,
           CompareSetting, WriterEnters, WriterInvalidates, pageVars
  <1>3. Running' = Running
    BY <1>2 DEF Running
  <1>4. CASE Called(t) \/ Assign(t) \/ Saves(t) \/ RebuildReads(t)
    <2>1. UNCHANGED <<gates, at, pool>>
      BY <1>4 DEF Called, EditSelection, Edit, CheckPrompt, CheckEngine, Assign, Saves,
                  SaveDumps, SaveOpens, SaveWrites, RebuildReads
    <2> QED
      BY <1>1, <1>2, <1>3, <2>1 DEF AppInv, GateInv, NoRunTornDown
  <1>5. CASE RebuildSwaps(t)
    <2>1. width[t] \in Nat \ {0} /\ gates' = Append(gates, NewGate(width[t]))
          /\ UNCHANGED <<at, pool>>
      BY <1>5 DEF RebuildSwaps, AppInv, SettingTypes
    <2> QED
      BY <1>1, <1>2, <1>3, <2>1, NewGateIsEmpty DEF AppInv, NoRunTornDown
  <1>6. CASE t \in Coros /\ Compares(t)
    <2>1. UNCHANGED <<gates, pool>> /\ at' = [at EXCEPT ![t] = Cur]
      BY <1>6 DEF Compares, CompareSetting
    <2>2. t \notin Pages
      BY DisjointTasks
    <2>3. at' \in [Pages \cup Coros -> 1..Len(gates)] /\ \A p \in Pages : at'[p] = at[p]
      BY <1>6, <2>1, <2>2 DEF AppInv, GateInv, Cur
    <2> QED
      BY <1>1, <1>2, <1>3, <2>1, <2>3 DEF AppInv, GateInv, NoRunTornDown
  <1>7. CASE t \in Coros /\ (WriterEnters(t) \/ WriterInvalidates(t))
    <2>1. at[t] \in 1..Len(gates) /\ at' = at
      BY <1>7 DEF AppInv, GateInv, WriterEnters, WriterInvalidates
    <2>2. \E w \in Setters \cup {None} : gates' = [gates EXCEPT ![at[t]].writer = w]
      BY <1>7 DEF WriterEnters, WriterInvalidates
    <2>3. GateInv'
      BY <1>2, <2>1, <2>2, WriterMovesNoReader DEF AppInv
    <2>4. pool' = pool \/ Running = {}
      BY <1>7 DEF WriterEnters, WriterInvalidates
    <2> QED
      BY <1>1, <1>3, <2>3, <2>4 DEF AppInv, NoRunTornDown
  <1> QED
    BY <1>4, <1>5, <1>6, <1>7 DEF Rebuilds
-----------------------------------------------------------------------------
\* One gate, that nobody has entered.
LEMMA BootedGate ==
    ASSUME NEW k \in Nat \ {0}, gates = <<NewGate(k)>>,
           at = [t \in Pages \cup Coros |-> 1], job = [p \in Pages |-> "idle"],
           rec = [p \in Pages |-> DefaultEngine]
    PROVE GateInv
  <1>1. NewGate(k) \in Gates /\ NewGate(k).readers = {} /\ NewGate(k).width = k
    BY DEF NewGate, Gates
  <1>2. Cardinality({}) = 0
    BY FS_EmptySet
  <1>3. gates \in Seq(Gates) /\ Len(gates) = 1 /\ gates[1] = NewGate(k)
    BY <1>1
  <1>4. \A g \in 1..Len(gates) : g = 1
    BY <1>3
  <1>5. {p \in Pages : job[p] \in Inside /\ at[p] = 1} = {}
    BY DEF Inside
  <1>6. /\ at \in [Pages \cup Coros -> 1..Len(gates)]
        /\ job \in [Pages -> Jobs] /\ rec \in [Pages -> Engines]
    BY <1>3, DefaultsAreKnown DEF Jobs
  <1> QED
    BY <1>1, <1>2, <1>3, <1>4, <1>5, <1>6 DEF GateInv

\* AppState.__init__, on no file and on what a death left.
LEMMA AppInitInv == AppInit => AppInv
  <1> SUFFICES ASSUME AppInit PROVE AppInv
    OBVIOUS
  <1>1. SettingTypes
    BY DefaultsAreSelections, DefaultsAreKnown
    DEF AppInit, SettingTypes, NoRequest, Fits, Labels
  <1>2. SaveInv
    BY DEF AppInit, SaveInv, Writing, Load
  <1>3. GateInv
    <2>1. WorkersFor(Defaults, DefaultEngine) \in Nat \ {0}
      BY DefaultsAreSelections, DefaultsAreKnown, WorkersArePositive
    <2> QED
      BY <2>1, BootedGate DEF AppInit
  <1>4. NoRunTornDown
    BY DEF AppInit, NoRunTornDown, Running
  <1> QED
    BY <1>1, <1>2, <1>3, <1>4 DEF AppInv

LEMMA RestartInv == AppInv /\ Restart => AppInv'
  <1> SUFFICES ASSUME AppInv, Restart PROVE AppInv'
    OBVIOUS
  <1> DEFINE s == Load(file)
  <1>1. s \in Selections
    BY LoadedIsSelection DEF AppInv
  <1>2. /\ sel' = s /\ file' = file /\ lock' = None
        /\ text' = [t \in Setters |-> None]
        /\ gates' = <<NewGate(WorkersFor(s, s.recognizer))>>
        /\ pc' = [t \in Setters |-> "idle"]
        /\ arg' = [t \in Setters |-> NoRequest]
        /\ width' = [t \in Setters |-> 0]
        /\ job' = [p \in Pages |-> "idle"]
        /\ rec' = [p \in Pages |-> DefaultEngine]
        /\ at' = [t \in Pages \cup Coros |-> 1]
    BY DEF Restart, Boot
  <1>3. SettingTypes'
    BY <1>1, <1>2, DefaultsAreKnown DEF AppInv, SettingTypes, NoRequest, Fits, Labels
  <1>4. SaveInv'
    BY <1>2 DEF SaveInv, Writing
  <1>5. GateInv'
    <2>1. WorkersFor(s, s.recognizer) \in Nat \ {0}
      BY <1>1, WorkersArePositive DEF Selections
    <2> QED
      <3>1. (NewGate(WorkersFor(s, s.recognizer))).readers = {}
            /\ (NewGate(WorkersFor(s, s.recognizer))).width = WorkersFor(s, s.recognizer)
            /\ NewGate(WorkersFor(s, s.recognizer)) \in Gates
        BY <2>1 DEF NewGate, Gates
      <3>2. gates' \in Seq(Gates) /\ Len(gates') = 1 /\ gates'[1] = NewGate(WorkersFor(s, s.recognizer))
        BY <1>2, <3>1
      <3>3. \A g \in 1..Len(gates') : g = 1
        BY <3>2
      <3>4. {p \in Pages : job'[p] \in Inside /\ at'[p] = 1} = {} /\ Cardinality({}) = 0
        BY <1>2, FS_EmptySet DEF Inside
      <3>5. /\ at' \in [Pages \cup Coros -> 1..Len(gates')]
            /\ job' \in [Pages -> Jobs] /\ rec' \in [Pages -> Engines]
        BY <1>2, <3>2, DefaultsAreKnown DEF Jobs
      <3>6. ASSUME NEW g \in 1..Len(gates')
            PROVE /\ gates'[g].readers = {p \in Pages : job'[p] \in Inside /\ at'[p] = g}
                  /\ Cardinality(gates'[g].readers) <= gates'[g].width
        <4>1. g = 1 /\ gates'[g].readers = {} /\ gates'[g].width \in Nat
          BY <2>1, <3>1, <3>2, <3>3
        <4>2. {p \in Pages : job'[p] \in Inside /\ at'[p] = g} = {}
          BY <3>4, <4>1
        <4> QED
          BY <3>4, <4>1, <4>2
      <3> QED
        BY <3>2, <3>5, <3>6 DEF GateInv
  <1>6. NoRunTornDown'
    BY <1>2 DEF NoRunTornDown, Running
  <1> QED
    BY <1>3, <1>4, <1>5, <1>6 DEF AppInv

LEMMA AppStepInv == AppInv /\ [AppNext]_appVars => AppInv'
  <1> SUFFICES ASSUME AppInv, [AppNext]_appVars PROVE AppInv'
    OBVIOUS
  <1>1. CASE UNCHANGED appVars
    BY <1>1 DEF appVars, AppInv, SettingTypes, SaveInv, Writing, Unsaved, GateInv,
                NoRunTornDown, Running
  <1>2. ASSUME NEW t \in Routes, Called(t) \/ RouteContinues(t) PROVE AppInv'
    BY <1>2, SetterInv DEF RouteContinues, Setters
  <1>3. ASSUME NEW c \in Coros, Compares(c) \/ CoroContinues(c) PROVE AppInv'
    BY <1>3, SetterInv DEF CoroContinues, Setters
  <1> QED
    BY <1>1, <1>2, <1>3, PageInv, RestartInv DEF AppNext

LEMMA AppInvMeans == AppInv => SettledIsSaved /\ ReadersKeepTheirGate /\ NoRunTornDown
  <1> SUFFICES ASSUME AppInv PROVE SettledIsSaved /\ ReadersKeepTheirGate
    BY DEF AppInv
  <1>1. SettledIsSaved
    BY DEF AppInv, SaveInv, Writing, Unsaved, SettledIsSaved, Saving
  <1>2. AppTypeOK
    <2>1. \A g \in 1..Cur : gates[g].width \in Nat \ {0}
      <3> SUFFICES ASSUME NEW g \in 1..Len(gates) PROVE gates[g].width \in Nat \ {0}
        BY DEF Cur
      <3>1. gates[g] \in Gates
        BY ElementOfSeq DEF AppInv, GateInv
      <3> QED
        BY <3>1 DEF Gates
    <2>2. Len(file) \in {0, 1}
      BY DEF AppInv, SettingTypes
    <2>3. sel.recognizer \in Engines /\ sel.translate \in Nat \ {0}
          /\ \A e \in Engines : sel.conc[e] # None => sel.conc[e] \in Nat \ {0}
      BY DEF AppInv, SettingTypes, Selections
    <2>4. job \in [Pages -> {"idle", "planned", "asking"} \cup Inside]
      BY DEF AppInv, GateInv, Jobs, Inside
    <2>5. \A t \in Setters : pc[t] \in {"idle", "assign", "engine", "enter", "invalidate",
                                       "width", "swap"} \cup Saving
      BY DEF AppInv, SettingTypes, Labels, Saving
    <2> QED
      BY <2>1, <2>2, <2>3, <2>4, <2>5 DEF AppTypeOK, AppInv, SaveInv
  <1> QED
    BY <1>1, <1>2 DEF ReadersKeepTheirGate, AppInv, GateInv, Cur

\* The whole invariant of app/state.py.
THEOREM AppInvariant == AppSpec => []AppInv
  BY AppInitInv, AppStepInv, PTL DEF AppSpec

\* AppState.save: however many threads save at once and wherever the process
\* dies, a selection nobody is about to save is the one in the file.
THEOREM ChoicesAreKept == AppSpec => []SettledIsSaved
  BY AppInvariant, AppInvMeans, PTL

\* InferenceGate.reader: through any number of rebuilds, a permit goes back to
\* the gate it was taken from, and no gate lets in more than its width.
THEOREM PermitsGoHome == AppSpec => []ReadersKeepTheirGate
  BY AppInvariant, AppInvMeans, PTL

\* set_recognize_concurrency and set_engine_device: no running map loses its
\* pool, although the writer of a new gate runs beside readers of the old.
THEOREM RunsKeepTheirPool == AppSpec => []NoRunTornDown
  BY AppInvariant, AppInvMeans, PTL
=============================================================================
