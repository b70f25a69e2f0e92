---------------------------- MODULE PluginProofs -----------------------------
(***************************************************************************)
(* The plugins of the server.  What Registry promises of instances and     *)
(* clients, for any callers and engines; what PluginInstall promises for any *)
(* callers, pages and installers, whose invariant keeps the one of Registry; *)
(* and the cause a request of EngineHost is answered with.  RegFrame says  *)
(* what a step may change besides the registry's own actions, so that the  *)
(* modules that compose it can use RegStepInv.                             *)
(***************************************************************************)
EXTENDS PluginInstall, EngineHost, TLAPS

\* Who loads has the lock, alone, and will publish the instance it made.
LoadersLock ==
    /\ \A c, d \in Callers : at[c] = "load" /\ at[d] = "load" => c = d
    /\ \A c \in Callers : at[c] = "load" =>
         /\ rlock /\ name[c] \in Engines /\ mine[c] # None
         /\ mine[c][1] = name[c]

\* An engine that is neither loaded nor being loaded was created once per
\* unload and once per load that raised, any other at most once more.
MadePaid ==
    \A e \in Engines :
        \/ made[e] <= unloads + lost[e]
        \/ /\ made[e] <= unloads + lost[e] + 1
           /\ insts[e] # None \/ \E c \in Callers : at[c] = "load" /\ name[c] = e

\* What is published is the engine's own, and its client is open.
TableIsOpen ==
    \A e \in Engines : insts[e] # None => insts[e] \in open /\ insts[e][1] = e

\* A page is past its batch call because it lost it, and past the loop because
\* it lost another.
MissesPaid ==
    \A c \in Callers :
        /\ at[c] \in {"batch_cut", "fallback", "text"} => misses[c] >= 1
        /\ at[c] \in {"text_cut", "failed"} => misses[c] >= 2

Labels == {"idle", "lock", "load", "have", "batch", "batch_cut", "fallback",
           "text", "text_cut", "unknown", "unloadable", "failed"}
Instances == (Engines \X Nat) \cup {None}

RegCore ==
    /\ made \in [Engines -> Nat] /\ lost \in [Engines -> Nat]
    /\ unloads \in Nat /\ rlock \in BOOLEAN
    /\ at \in [Callers -> Labels] /\ insts \in [Engines -> Instances]
    /\ name \in [Callers -> Engines \cup {None}]
    /\ mine \in [Callers -> Instances] /\ misses \in [Callers -> Nat]
    /\ \A c \in Callers : at[c] = "lock" => name[c] \in Engines

RegInv == RegCore /\ LoadersLock /\ MadePaid /\ TableIsOpen /\ MissesPaid

\* A step of something else.
RegFrame == UNCHANGED <<insts, made, lost, rlock, open, at, name, mine, misses, unloads>>

-----------------------------------------------------------------------------

\* A process that has just started satisfies the invariant.
LEMMA RegStartInv == RegStart => RegInv
  <1> SUFFICES ASSUME RegStart PROVE RegInv
    OBVIOUS
  <1>1. RegCore
    BY DEF RegStart, RegCore, Instances, Labels
  <1>2. LoadersLock /\ MissesPaid /\ TableIsOpen
    BY DEF RegStart, LoadersLock, MissesPaid, TableIsOpen
  <1>3. MadePaid
    BY DEF RegStart, MadePaid
  <1> QED
    BY <1>1, <1>2, <1>3 DEF RegInv

\* The look without the lock.
LEMMA GetFastInv ==
    ASSUME RegInv, NEW c \in Callers, NEW e \in Engines, GetFast(c, e) PROVE RegInv'
  <1>1. /\ at[c] \in Over /\ at'[c] \in {"have", "lock"}
        /\ name'[c] = e /\ name' \in [Callers -> Engines \cup {None}]
        /\ mine' \in [Callers -> Instances] /\ misses' \in [Callers -> Nat]
        /\ at' \in [Callers -> Labels]
        /\ \A d \in Callers \ {c} : /\ at'[d] = at[d] /\ name'[d] = name[d]
                                     /\ mine'[d] = mine[d] /\ misses'[d] = misses[d]
    BY DEF GetFast, Goto, RegInv, RegCore, Labels
  <1>2. UNCHANGED <<insts, made, lost, rlock, open, unloads>>
    BY DEF GetFast, tableVars
  <1>3. RegCore' /\ MissesPaid' /\ TableIsOpen'
    BY <1>1, <1>2 DEF RegInv, RegCore, MissesPaid, TableIsOpen
  <1>4. LoadersLock'
    BY <1>1, <1>2 DEF RegInv, LoadersLock
  <1>5. MadePaid'
    BY <1>1, <1>2 DEF RegInv, MadePaid, Over
  <1> QED
    BY <1>3, <1>4, <1>5 DEF RegInv

\* What is found under the lock.
LEMMA GetFoundInv ==
    ASSUME RegInv, NEW c \in Callers, GetFindsLoaded(c) \/ GetFindsNoClass(c)
    PROVE RegInv'
  <1>1. /\ at[c] = "lock" /\ at'[c] \in {"have", "unknown"}
        /\ name' = name /\ mine' \in [Callers -> Instances]
        /\ at' \in [Callers -> Labels]
        /\ \A d \in Callers \ {c} : at'[d] = at[d] /\ mine'[d] = mine[d]
    BY DEF GetFindsLoaded, GetFindsNoClass, Goto, RegInv, RegCore, Labels
  <1>2. UNCHANGED <<insts, made, lost, rlock, open, misses, unloads>>
    BY DEF GetFindsLoaded, GetFindsNoClass, tableVars
  <1>3. RegCore' /\ MissesPaid' /\ TableIsOpen'
    BY <1>1, <1>2 DEF RegInv, RegCore, MissesPaid, TableIsOpen
  <1>4. LoadersLock'
    BY <1>1, <1>2 DEF RegInv, LoadersLock
  <1>5. MadePaid'
    BY <1>1, <1>2 DEF RegInv, MadePaid
  <1> QED
    BY <1>3, <1>4, <1>5 DEF RegInv

\* The create finds the engine unloaded: it pays with what emptied the table.
LEMMA GetCreatesInv ==
    ASSUME RegInv, NEW c \in Callers, GetCreates(c) PROVE RegInv'
  <1> DEFINE e == name[c]
  <1>1. e \in Engines /\ ~rlock /\ insts[e] = None /\ at[c] = "lock"
    BY DEF GetCreates, LockIsFree, RegInv, RegCore
  <1>2. \A d \in Callers : at[d] # "load"
    BY <1>1 DEF RegInv, LoadersLock
  <1>3. made[e] <= unloads + lost[e] /\ made[e] \in Nat /\ lost[e] \in Nat
    BY <1>1, <1>2 DEF RegInv, RegCore, MadePaid
  <1>4. <<e, made[e] + 1>> # None /\ <<e, made[e] + 1>>[1] = e
    BY <1>1, <1>3, NoneIsNoInstance
  <1>5. RegCore' /\ MissesPaid' /\ TableIsOpen'
    <2>1. <<e, made[e] + 1>> \in Instances
      BY <1>1, <1>3 DEF Instances
    <2>2. RegCore'
      BY <1>1, <1>3, <2>1 DEF GetCreates, Goto, RegInv, RegCore, Labels
    <2>3. MissesPaid' /\ TableIsOpen'
      BY <1>1 DEF GetCreates, Goto, RegInv, RegCore, MissesPaid, TableIsOpen
    <2> QED
      BY <2>2, <2>3
  <1>6. LoadersLock'
    BY <1>1, <1>2, <1>4 DEF GetCreates, Goto, RegInv, RegCore, LoadersLock
  <1>7. MadePaid'
    BY <1>1, <1>2, <1>3 DEF GetCreates, Goto, RegInv, RegCore, MadePaid
  <1> QED
    BY <1>5, <1>6, <1>7 DEF RegInv

LEMMA GetPublishesInv ==
    ASSUME RegInv, NEW c \in Callers, GetPublishes(c) PROVE RegInv'
  <1>1. /\ at[c] = "load" /\ rlock /\ name[c] \in Engines /\ mine[c] # None
        /\ mine[c][1] = name[c]
    BY DEF GetPublishes, RegInv, LoadersLock
  <1>2. \A d \in Callers : at'[d] = "load" => FALSE
    BY <1>1 DEF GetPublishes, Goto, RegInv, RegCore, LoadersLock
  <1>3. RegCore' /\ MissesPaid' /\ LoadersLock'
    BY <1>1, <1>2 DEF GetPublishes, Goto, RegInv, RegCore, MissesPaid, LoadersLock, Labels
  <1>4. MadePaid'
    BY <1>1 DEF GetPublishes, Goto, RegInv, RegCore, LoadersLock, MadePaid
  <1>5. TableIsOpen'
    BY <1>1 DEF GetPublishes, RegInv, RegCore, TableIsOpen
  <1> QED
    BY <1>3, <1>4, <1>5 DEF RegInv

\* A load that raised pays for its own creation.
LEMMA LoadRaisesInv ==
    ASSUME RegInv, NEW c \in Callers, LoadRaises(c) PROVE RegInv'
  <1> DEFINE e == name[c]
  <1>1. /\ at[c] = "load" /\ e \in Engines /\ lost' = [lost EXCEPT ![e] = @ + 1]
        /\ UNCHANGED <<insts, made, open, name, mine, misses, unloads>>
    BY DEF LoadRaises, RegInv, LoadersLock
  <1>2. /\ rlock' = FALSE /\ at' = [at EXCEPT ![c] = "unloadable"]
        /\ \A d \in Callers : at'[d] # "load"
    BY <1>1 DEF LoadRaises, Goto, RegInv, RegCore, LoadersLock
  <1>3. RegCore' /\ MissesPaid' /\ LoadersLock' /\ TableIsOpen'
    <2>1. lost' \in [Engines -> Nat] /\ at' \in [Callers -> Labels]
      BY <1>1, <1>2 DEF RegInv, RegCore, Labels
    <2>2. \A d \in Callers : at'[d] # "unloadable" => at'[d] = at[d]
      BY <1>2 DEF RegInv, RegCore
    <2>3. RegCore'
      BY <1>1, <1>2, <2>1, <2>2 DEF RegInv, RegCore
    <2>4. MissesPaid'
      BY <1>1, <2>2 DEF RegInv, MissesPaid
    <2>5. LoadersLock' /\ TableIsOpen'
      BY <1>1, <1>2 DEF RegInv, LoadersLock, TableIsOpen
    <2> QED
      BY <2>3, <2>4, <2>5
  <1>4. MadePaid'
    <2> SUFFICES ASSUME NEW f \in Engines
                 PROVE  \/ made[f] <= unloads + lost'[f]
                        \/ made[f] <= unloads + lost'[f] + 1 /\ insts[f] # None
      BY <1>1 DEF MadePaid
    <2>1. made[f] \in Nat /\ lost[f] \in Nat /\ unloads \in Nat
      BY DEF RegInv, RegCore
    <2>2. CASE f = e
      <3>1. lost'[f] = lost[f] + 1
        BY <1>1, <2>2 DEF RegInv, RegCore
      <3> QED
        BY <2>1, <3>1 DEF RegInv, MadePaid
    <2>3. CASE f # e
      <3>1. lost'[f] = lost[f]
        BY <1>1, <2>3 DEF RegInv, RegCore
      <3>2. \A d \in Callers : at[d] = "load" => name[d] # f
        BY <1>1, <2>3 DEF RegInv, LoadersLock
      <3> QED
        BY <3>1, <3>2 DEF RegInv, MadePaid
    <2> QED
      BY <2>2, <2>3
  <1> QED
    BY <1>3, <1>4 DEF RegInv

\* An unload takes an instance from the table and the connection of its pages.
LEMMA UnloadInv ==
    ASSUME RegInv, NEW e \in Engines, UnloadOne(e) PROVE RegInv'
  <1>1. unloads' = unloads + 1 /\ unloads \in Nat /\ ~rlock
    BY DEF UnloadOne, LockIsFree, RegInv, RegCore
  <1>2. \A c \in Callers : at[c] # "load"
    BY <1>1 DEF RegInv, LoadersLock
  <1>3. at' \in [Callers -> Labels] /\ misses' \in [Callers -> Nat]
        /\ \A c \in Callers :
             \/ at'[c] = at[c] /\ misses'[c] = misses[c]
             \/ at[c] = "batch" /\ at'[c] = "batch_cut" /\ misses'[c] = misses[c] + 1
             \/ at[c] = "text" /\ at'[c] = "text_cut" /\ misses'[c] = misses[c] + 1
    BY DEF UnloadOne, RegInv, RegCore, Labels
  <1>4. RegCore'
    <2>1. insts' \in [Engines -> Instances]
      BY DEF UnloadOne, RegInv, RegCore, Instances
    <2>2. \A c \in Callers : at'[c] = "lock" => at[c] = at'[c]
      BY <1>3
    <2> QED
      BY <1>1, <1>3, <2>1, <2>2 DEF UnloadOne, RegInv, RegCore
  <1>5. MissesPaid'
    BY <1>1, <1>3 DEF RegInv, RegCore, MissesPaid
  <1>6. LoadersLock'
    BY <1>2, <1>3 DEF LoadersLock
  <1>7. MadePaid'
    <2> SUFFICES ASSUME NEW f \in Engines PROVE made'[f] <= unloads' + lost'[f]
      BY DEF MadePaid
    <2>1. made'[f] = made[f] /\ made[f] \in Nat /\ lost'[f] = lost[f] /\ lost[f] \in Nat
      BY DEF UnloadOne, RegInv, RegCore
    <2>2. made[f] <= unloads + lost[f] + 1
      BY <1>1, <2>1 DEF RegInv, MadePaid
    <2> QED
      BY <1>1, <2>1, <2>2
  <1>8. TableIsOpen'
    <2> SUFFICES ASSUME NEW f \in Engines, insts'[f] # None
                 PROVE  insts'[f] \in open' /\ insts'[f][1] = f
      BY DEF TableIsOpen
    <2>1. f # e /\ insts'[f] = insts[f]
      BY DEF UnloadOne, RegInv, RegCore
    <2>2. insts[f] \in open /\ insts[f][1] = f /\ insts[e][1] = e
      BY <2>1 DEF UnloadOne, RegInv, TableIsOpen
    <2> QED
      BY <2>1, <2>2 DEF UnloadOne
  <1> QED
    BY <1>4, <1>5, <1>6, <1>7, <1>8 DEF RegInv

\* translate_batch: the table is left alone, and a page comes this far only
\* by the calls it lost.
LEMMA TranslateInv ==
    ASSUME RegInv, NEW c \in Callers,
           \/ BatchPosts(c) \/ TextPosts(c) \/ Answered(c) \/ NextText(c)
           \/ BatchFails(c) \/ TextFails(c)
    PROVE RegInv'
  <1>1. /\ UNCHANGED <<insts, made, lost, rlock, unloads>> /\ open \subseteq open'
        /\ at[c] \in {"have", "fallback", "batch", "batch_cut", "text", "text_cut"}
    BY DEF BatchPosts, TextPosts, Post, PostsClosed, Answered, NextText, Replied,
           BatchFails, TextFails, Fails, tableVars
  <1>2. /\ name' \in [Callers -> Engines \cup {None}] /\ mine' \in [Callers -> Instances]
        /\ \A d \in Callers \ {c} : name'[d] = name[d] /\ mine'[d] = mine[d]
    BY DEF BatchPosts, TextPosts, Post, PostsClosed, Answered, NextText, BatchFails,
           TextFails, Fails, RegInv, RegCore, Instances
  <1>3. PICK l \in Labels \ {"load", "lock"}, n \in Nat :
          /\ at' = [at EXCEPT ![c] = l] /\ misses' = [misses EXCEPT ![c] = n]
          /\ l \in {"batch_cut", "fallback", "text"} => n >= 1
          /\ l \in {"text_cut", "failed"} => n >= 2
    <2> DEFINE Moves(l, n) == /\ at' = [at EXCEPT ![c] = l]
                              /\ misses' = [misses EXCEPT ![c] = n]
    <2>1. /\ misses[c] \in Nat /\ misses = [misses EXCEPT ![c] = misses[c]]
          /\ at[c] \in {"batch_cut", "fallback", "text"} => misses[c] >= 1
          /\ at[c] \in {"text_cut", "failed"} => misses[c] >= 2
      BY DEF RegInv, RegCore, MissesPaid
    <2>2. CASE Post(c, "have", "batch") \/ Post(c, "fallback", "text")
      <3>1. \/ Moves("batch", misses[c])
            \/ Moves("text", misses[c]) /\ at[c] = "fallback"
        BY <2>1, <2>2 DEF Post, Goto
      <3> QED
        BY <2>1, <3>1 DEF Labels
    <2>3. CASE PostsClosed(c, "have", "batch_cut") \/ PostsClosed(c, "fallback", "text_cut")
      <3>1. \/ Moves("batch_cut", misses[c] + 1)
            \/ Moves("text_cut", misses[c] + 1) /\ at[c] = "fallback"
        BY <2>3 DEF PostsClosed, Goto
      <3> QED
        BY <2>1, <3>1 DEF Labels
    <2>4. CASE Answered(c) \/ NextText(c)
      <3>1. \/ Moves("idle", misses[c])
            \/ Moves("fallback", misses[c]) /\ at[c] \in {"text", "text_cut"}
        BY <2>1, <2>4 DEF Answered, NextText, Goto
      <3> QED
        BY <2>1, <3>1 DEF Labels
    <2>5. CASE BatchFails(c) \/ TextFails(c)
      <3>1. \/ Moves("fallback", misses[c] + 1) /\ at[c] = "batch"
            \/ Moves("fallback", misses[c]) /\ at[c] = "batch_cut"
            \/ Moves("failed", misses[c] + 1) /\ at[c] = "text"
            \/ Moves("failed", misses[c]) /\ at[c] = "text_cut"
        BY <2>5 DEF BatchFails, TextFails, Fails, Goto
      <3>2. misses[c] + 1 \in Nat /\ misses[c] + 1 >= 1
            /\ (at[c] = "text" => misses[c] + 1 >= 2)
        BY <2>1
      <3>3. /\ at[c] = "batch_cut" => misses[c] >= 1
            /\ at[c] = "text_cut" => misses[c] >= 2
        BY <2>1
      <3>4. \A n \in Nat : n >= 2 => n >= 1
        OBVIOUS
      <3> HIDE DEF Moves
      <3>5. \E l \in {"fallback", "failed"}, n \in Nat :
               /\ Moves(l, n)
               /\ l = "fallback" => n >= 1
               /\ l = "failed" => n >= 2
        BY <2>1, <3>1, <3>2, <3>3
      <3> USE DEF Moves
      <3> QED
        BY <3>5 DEF Labels
    <2> QED
      BY <2>2, <2>3, <2>4, <2>5 DEF BatchPosts, TextPosts
  <1>4. /\ at' \in [Callers -> Labels] /\ at'[c] = l /\ misses' \in [Callers -> Nat]
        /\ misses'[c] = n
        /\ \A d \in Callers \ {c} : at'[d] = at[d] /\ misses'[d] = misses[d]
    BY <1>3 DEF RegInv, RegCore
  <1>5. RegCore' /\ TableIsOpen'
    BY <1>1, <1>2, <1>3, <1>4 DEF RegInv, RegCore, TableIsOpen
  <1>6. MissesPaid'
    BY <1>3, <1>4 DEF RegInv, MissesPaid
  <1>7. LoadersLock'
    BY <1>1, <1>2, <1>3, <1>4 DEF RegInv, LoadersLock
  <1>8. MadePaid'
    BY <1>1, <1>2, <1>4 DEF RegInv, MadePaid
  <1> QED
    BY <1>5, <1>6, <1>7, <1>8 DEF RegInv

\* Nothing the registry does or leaves to others breaks the invariant.
LEMMA RegStepInv == RegInv /\ (RegNext \/ RegFrame) => RegInv'
  <1> SUFFICES ASSUME RegInv, RegNext \/ RegFrame PROVE RegInv'
    OBVIOUS
  <1>1. ASSUME NEW c \in Callers, CallerContinues(c) PROVE RegInv'
    BY <1>1, GetFoundInv, GetCreatesInv, GetPublishesInv, LoadRaisesInv, TranslateInv
       DEF CallerContinues
  <1>2. ASSUME NEW c \in Callers, NEW e \in Known, GetFast(c, e) PROVE RegInv'
    BY <1>2, GetFastInv, KnownEngines
  <1>3. ASSUME NEW e \in Engines, UnloadOne(e) PROVE RegInv'
    BY <1>3, UnloadInv
  <1>4. CASE RegFrame
    BY <1>4 DEF RegFrame, RegInv, RegCore, LoadersLock, MadePaid, TableIsOpen, MissesPaid
  <1>5. CASE UnloadEnds
    <2>1. RegFrame
      BY <1>5 DEF UnloadEnds, callerVars, RegFrame
    <2> QED
      BY <1>4, <2>1
  <1> QED
    BY <1>1, <1>2, <1>3, <1>4, <1>5 DEF RegNext

\* The invariant in the terms of the first property.
LEMMA LoadsAreFew == RegInv => LoadsOnce
  <1> SUFFICES ASSUME RegInv, NEW e \in Engines
               PROVE  /\ made[e] - lost[e] <= 1 + unloads
                      /\ insts[e] # None => insts[e] \in open
    BY DEF LoadsOnce
  <1>1. made[e] \in Nat /\ lost[e] \in Nat /\ unloads \in Nat
    BY DEF RegInv, RegCore
  <1>2. made[e] <= unloads + lost[e] + 1
    BY <1>1 DEF RegInv, MadePaid
  <1> QED
    BY <1>1, <1>2 DEF RegInv, TableIsOpen

\* A page fails by two lost calls only.
LEMMA FailuresArePaid == RegInv => OneMissIsSurvived
  BY DEF RegInv, RegCore, MissesPaid, OneMissIsSurvived

\* Registry.get: however many pages ask for an engine at once, it is loaded
\* once, and once more after each unload_one, and a load that raises leaves
\* nothing in the table.
THEOREM EnginesLoadOnce == RegSpec => []LoadsOnce
  <1>1. RegInit => RegInv
    BY RegStartInv DEF RegInit
  <1>2. RegInv /\ [RegNext]_regVars => RegInv'
    BY RegStepInv DEF regVars, RegFrame
  <1> QED
    BY <1>1, <1>2, LoadsAreFew, PTL DEF RegSpec

\* translate_batch: a page that fails lost two calls of its own, whatever the
\* backend answered and whenever its client was closed.
THEOREM OneMissHarmsNoPage == RegSpec => []OneMissIsSurvived
  <1>1. RegInit => RegInv
    BY RegStartInv DEF RegInit
  <1>2. RegInv /\ [RegNext]_regVars => RegInv'
    BY RegStepInv DEF regVars, RegFrame
  <1> QED
    BY <1>1, <1>2, FailuresArePaid, PTL DEF RegSpec
-----------------------------------------------------------------------------

\* The types, and the instance that is being loaded.
RegTypes ==
    /\ RegTypeOK
    /\ \A c \in Callers : at[c] = "load" => mine[c] \in {name[c]} \X (1..made[name[c]])

\* A process that has just started satisfies them.
LEMMA RegStartTypes == RegStart => RegTypes
  <1> SUFFICES ASSUME RegStart PROVE RegTypes
    OBVIOUS
  <1>1. rlock \in BOOLEAN /\ classes \subseteq Engines
    BY KnownEngines DEF RegStart
  <1>2. made \in [Engines -> Nat] /\ \A e \in Engines : insts[e] = None
    BY DEF RegStart
  <1>3. at \in [Callers -> Labels] /\ \A c \in Callers : at[c] # "load"
    BY DEF RegStart, Labels
  <1> QED
    BY <1>1, <1>2, <1>3 DEF RegTypes, RegTypeOK, Labels

\* And every step of the registry keeps them: an instance is published with
\* its number, while nobody else can create.
LEMMA RegStepTypes ==
    ASSUME RegInv, RegTypes, RegNext PROVE RegTypes'
  <1> USE DEF Goto, tableVars
  <1>1. ASSUME NEW c \in Callers, NEW e \in Known, GetFast(c, e) PROVE RegTypes'
    BY <1>1, KnownEngines DEF GetFast, Over, RegInv, RegCore, RegTypes, RegTypeOK
  <1>2. ASSUME NEW c \in Callers, GetFindsLoaded(c) \/ GetFindsNoClass(c)
        PROVE RegTypes'
    BY <1>2 DEF GetFindsLoaded, GetFindsNoClass, RegInv, RegCore, RegTypes, RegTypeOK
  <1>3. ASSUME NEW c \in Callers, GetCreates(c) PROVE RegTypes'
    <2> DEFINE e == name[c]
    <2>1. e \in Engines /\ ~rlock /\ at[c] = "lock" /\ made[e] \in Nat
      BY <1>3 DEF GetCreates, LockIsFree, RegInv, RegCore
    <2>2. \A d \in Callers : at[d] # "load"
      BY <2>1 DEF RegInv, LoadersLock
    <2>3. made' \in [Engines -> Nat] /\ made'[e] = made[e] + 1
          /\ \A f \in Engines : made'[f] >= made[f]
      BY <1>3, <2>1 DEF GetCreates, RegInv, RegCore
    <2>4. \A f \in Engines : insts'[f] # None => insts'[f] \in {f} \X (1..made'[f])
      <3> SUFFICES ASSUME NEW f \in Engines, insts[f] # None
                   PROVE insts[f] \in {f} \X (1..made'[f])
        BY <1>3 DEF GetCreates
      <3>1. insts[f] \in {f} \X (1..made[f])
        BY DEF RegTypes, RegTypeOK
      <3>2. 1..made[f] \subseteq 1..made'[f]
        BY <2>3 DEF RegInv, RegCore
      <3> QED
        BY <3>1, <3>2
    <2>5. at' \in [Callers -> Labels] /\ \A d \in Callers \ {c} : at'[d] # "load"
      BY <1>3, <2>2 DEF GetCreates, RegInv, RegCore, Labels
    <2>6. mine'[c] \in {name'[c]} \X (1..made'[name'[c]])
      BY <1>3, <2>1, <2>3 DEF GetCreates, RegInv, RegCore
    <2> QED
      BY <1>3, <2>3, <2>4, <2>5, <2>6 DEF GetCreates, RegTypes, RegTypeOK, Labels
  <1>4. ASSUME NEW c \in Callers, GetPublishes(c) PROVE RegTypes'
    <2>1. at[c] = "load" /\ name[c] \in Engines /\ mine[c] \in {name[c]} \X (1..made[name[c]])
      BY <1>4 DEF GetPublishes, RegInv, LoadersLock, RegTypes
    <2>2. \A e \in Engines : insts'[e] # None => insts'[e] \in {e} \X (1..made'[e])
      BY <1>4, <2>1 DEF GetPublishes, RegInv, RegCore, RegTypes, RegTypeOK
    <2> QED
      BY <1>4, <2>1, <2>2 DEF GetPublishes, RegInv, RegCore, RegTypes, RegTypeOK
  <1>5. ASSUME NEW e \in Engines, UnloadOne(e) PROVE RegTypes'
    <2>1. at' \in [Callers -> Labels]
          /\ \A c \in Callers : at'[c] = "load" => at[c] = "load"
      BY <1>5 DEF UnloadOne, RegInv, RegCore, Labels
    <2> QED
      BY <1>5, <2>1 DEF UnloadOne, RegInv, RegCore, RegTypes, RegTypeOK, Labels
  <1>6. ASSUME NEW c \in Callers,
               \/ BatchPosts(c) \/ TextPosts(c) \/ NextText(c)
               \/ BatchFails(c) \/ TextFails(c) \/ LoadRaises(c)
        PROVE RegTypes'
    <2>1. /\ UNCHANGED <<classes, insts, made, name, mine>> /\ rlock' \in BOOLEAN
          /\ \E l \in Labels \ {"load"} : at' = [at EXCEPT ![c] = l]
      BY <1>6 DEF BatchPosts, TextPosts, Post, PostsClosed, NextText, BatchFails,
                  TextFails, Fails, LoadRaises, RegTypes, RegTypeOK, Labels
    <2>2. at' \in [Callers -> Labels] /\ \A d \in Callers : at'[d] = "load" => at[d] = "load"
      BY <2>1 DEF RegInv, RegCore
    <2> QED
      BY <2>1, <2>2 DEF RegTypes, RegTypeOK, Labels
  <1>7. ASSUME NEW c \in Callers, Answered(c) PROVE RegTypes'
    <2>1. at' = [at EXCEPT ![c] = "idle"]
          /\ \A d \in Callers \ {c} : name'[d] = name[d] /\ mine'[d] = mine[d]
      BY <1>7 DEF Answered
    <2> QED
      BY <1>7, <2>1 DEF Answered, RegInv, RegCore, RegTypes, RegTypeOK
  <1>8. ASSUME UnloadEnds PROVE RegTypes'
    BY <1>8 DEF UnloadEnds, callerVars, RegTypes, RegTypeOK
  <1> QED
    BY <1>1, <1>2, <1>3, <1>4, <1>5, <1>6, <1>7, <1>8 DEF RegNext, CallerContinues
-----------------------------------------------------------------------------
(* Installers and pages: they only touch the class table, and the claims   *)
(* name the streamed installs that run.                                    *)

Sinks == Workers \cup {None}
Places == {"free", "find", "pip", "clear", "fill", "find2", "weights",
           "download", "over", "ended"}
Requests == [name : Engines, force : BOOLEAN]

VolumeTypes ==
    /\ disk \subseteq Engines /\ weights \subseteq Engines
    /\ claimed \subseteq Engines
    /\ stdout \in Sinks /\ saved \in [Installers -> Sinks]

WorkTypes ==
    /\ ipc \in [Installers -> Places]
    /\ plugin \in [Installers -> Engines \cup {None}]
    /\ \A w \in Busy : plugin[w] \in Engines

TabTypes ==
    /\ queue \in [Tabs -> Seq(Requests)]
    /\ current \in [Tabs -> Engines \cup {None}]
    /\ stream \in [Tabs -> Workers \cup {None}]
    /\ \A t \in Tabs : (current[t] = None) <=> (stream[t] = None)

\* A claim belongs to one worker, that runs.
Claims ==
    /\ claimed = {plugin[w] : w \in Busy \cap Workers}
    /\ \A v, w \in Busy \cap Workers : plugin[v] = plugin[w] => v = w

InstTypes == VolumeTypes /\ WorkTypes /\ TabTypes
InstInv == RegInv /\ RegTypes /\ InstTypes /\ Claims
-----------------------------------------------------------------------------
\* A server that has just started, and its pages.
LEMMA InstStartInv == InstStart => InstInv
  <1> SUFFICES ASSUME InstStart PROVE InstInv
    OBVIOUS
  <1>1. RegInv /\ RegTypes
    BY RegStartInv, RegStartTypes DEF InstStart
  <1>2. Busy = {}
    BY DEF InstStart, Busy
  <1>3. VolumeTypes
    BY KnownEngines DEF InstStart, VolumeTypes, Sinks
  <1>4. WorkTypes
    BY <1>2 DEF InstStart, WorkTypes, Places
  <1>5. TabTypes
    BY DEF InstStart, TabTypes
  <1>6. Claims
    BY <1>2 DEF InstStart, Claims
  <1> QED
    BY <1>1, <1>3, <1>4, <1>5, <1>6 DEF InstInv, InstTypes

\* What pages and workers leave of the registry alone.
LEMMA RegistryUntouched ==
    ASSUME RegInv, RegTypes, RegFrame, classes' \subseteq Engines
    PROVE RegInv' /\ RegTypes'
  <1>1. RegInv'
    BY RegStepInv
  <1>2. RegTypes'
    BY DEF RegFrame, RegTypes, RegTypeOK
  <1> QED
    BY <1>1, <1>2

\* An installer that starts: it is busy with the engine, and nothing else is.
LEMMA BeginsBusy ==
    ASSUME WorkTypes, NEW w \in Installers, NEW e \in Engines, NEW f, Begin(w, e, f)
    PROVE /\ WorkTypes' /\ w \notin Busy /\ Busy' = Busy \cup {w} /\ plugin'[w] = e
          /\ \A v \in Busy : plugin'[v] = plugin[v]
  <1>1. /\ ipc[w] = "free" /\ ipc' = [ipc EXCEPT ![w] = "find"]
        /\ plugin' = [plugin EXCEPT ![w] = e]
    BY DEF Begin, IGoto
  <1>2. w \notin Busy /\ Busy' = Busy \cup {w}
    BY <1>1 DEF Busy, WorkTypes
  <1>3. plugin'[w] = e /\ \A v \in Busy : plugin'[v] = plugin[v]
    BY <1>1, <1>2 DEF WorkTypes, Busy
  <1>4. WorkTypes'
    BY <1>1, <1>2, <1>3 DEF WorkTypes, Places
  <1> QED
    BY <1>2, <1>3, <1>4

\* The pages: only PumpStarts claims, for a worker that was free.
LEMMA PageStepInv ==
    ASSUME InstInv, NEW t \in Tabs,
           \/ \E e \in Engines, f \in BOOLEAN : Click(t, e, f)
           \/ TabContinues(t) \/ StreamIsCut(t)
    PROVE InstInv'
  <1>1. RegFrame /\ classes' = classes
    BY DEF Click, TabContinues, PumpStarts, PumpRefused, StreamEnds, StreamIsCut,
           RegFrame, regVars
  <1>2. RegInv' /\ RegTypes'
    BY <1>1, RegistryUntouched DEF InstInv, RegTypes, RegTypeOK
  <1>3. ASSUME UNCHANGED <<volumeVars, workVars>>, TabTypes' PROVE InstInv'
    <2>1. Busy' = Busy
      BY <1>3 DEF workVars, Busy
    <2>2. VolumeTypes' /\ WorkTypes' /\ Claims'
      BY <1>3, <2>1 DEF InstInv, InstTypes, VolumeTypes, WorkTypes, Claims, volumeVars, workVars
    <2> QED
      BY <1>2, <1>3, <2>2 DEF InstInv, InstTypes
  <1>4. ASSUME NEW e \in Engines, NEW f \in BOOLEAN, Click(t, e, f) PROVE InstInv'
    <2>1. [name |-> e, force |-> f] \in Requests
      BY DEF Requests
    <2>2. TabTypes'
      BY <1>4, <2>1 DEF Click, InstInv, InstTypes, TabTypes
    <2> QED
      BY <1>3, <1>4, <2>2 DEF Click
  <1>5. CASE PumpRefused(t)
    <2>1. TabTypes'
      BY <1>5 DEF PumpRefused, InstInv, InstTypes, TabTypes
    <2> QED
      BY <1>3, <1>5, <2>1 DEF PumpRefused
  <1>6. CASE StreamEnds(t)
    <2>1. TabTypes'
      BY <1>6 DEF StreamEnds, InstInv, InstTypes, TabTypes
    <2> QED
      BY <1>3, <1>6, <2>1 DEF StreamEnds
  <1>7. CASE StreamIsCut(t)
    <2>1. queue' \in [Tabs -> Seq(Requests)]
      <3>1. queue \in [Tabs -> Seq(Requests)] /\ <<>> \in Seq(Requests)
        BY DEF InstInv, InstTypes, TabTypes
      <3>2. CASE queue' = queue
        BY <3>1, <3>2
      <3>3. CASE queue' = [queue EXCEPT ![t] = <<>>]
        BY <3>1, <3>3
      <3> QED
        BY <1>7, <3>2, <3>3 DEF StreamIsCut
    <2>2. /\ current' = [current EXCEPT ![t] = None]
          /\ stream' = [stream EXCEPT ![t] = None]
      BY <1>7 DEF StreamIsCut
    <2>3. TabTypes'
      BY <2>1, <2>2 DEF InstInv, InstTypes, TabTypes
    <2> QED
      BY <1>3, <1>7, <2>3 DEF StreamIsCut
  <1>8. ASSUME NEW w \in Workers, PumpStarts(t, w) PROVE InstInv'
    <2> DEFINE next == Head(queue[t])
    <2>1. next \in Requests /\ queue' \in [Tabs -> Seq(Requests)]
      BY <1>8 DEF PumpStarts, InstInv, InstTypes, TabTypes
    <2>2. next.name \in Engines /\ next.name \notin claimed
          /\ Begin(w, next.name, next.force)
      BY <1>8, <2>1 DEF PumpStarts, Requests
    <2>3. /\ WorkTypes' /\ w \notin Busy /\ Busy' = Busy \cup {w}
          /\ plugin'[w] = next.name /\ \A v \in Busy : plugin'[v] = plugin[v]
      BY <2>2, BeginsBusy DEF InstInv, InstTypes, Installers
    <2>4. claimed' = claimed \cup {next.name}
      BY <1>8 DEF PumpStarts
    <2>5. Claims'
      BY <2>2, <2>3, <2>4 DEF InstInv, Claims
    <2>6. VolumeTypes'
      BY <1>8, <2>2, <2>4 DEF PumpStarts, InstInv, InstTypes, VolumeTypes, volumeVars
    <2>7. TabTypes'
      BY <1>8, <2>1, <2>2, NoneIsNoName DEF PumpStarts, InstInv, InstTypes, TabTypes
    <2> QED
      BY <1>2, <2>3, <2>5, <2>6, <2>7 DEF InstInv, InstTypes
  <1> QED
    BY <1>4, <1>5, <1>6, <1>7, <1>8 DEF TabContinues

\* A blocking thread claims nothing and is no worker.
LEMMA BlockingStepInv ==
    ASSUME InstInv, NEW w \in Blocking, NEW e \in Engines, NEW f \in BOOLEAN,
           BlockingStarts(w, e, f)
    PROVE InstInv'
  <1>1. RegInv' /\ RegTypes'
    BY RegistryUntouched DEF BlockingStarts, RegFrame, regVars, InstInv, RegTypes, RegTypeOK
  <1>2. /\ WorkTypes' /\ w \notin Busy /\ Busy' = Busy \cup {w}
        /\ \A v \in Busy : plugin'[v] = plugin[v]
    BY BeginsBusy DEF BlockingStarts, InstInv, InstTypes, Installers
  <1>3. Busy' \cap Workers = Busy \cap Workers
    BY <1>2, DisjointInstallers
  <1>4. claimed' = claimed
    BY DEF BlockingStarts
  <1>5. Claims'
    BY <1>2, <1>3, <1>4 DEF InstInv, Claims
  <1>6. VolumeTypes' /\ TabTypes'
    BY DEF BlockingStarts, InstInv, InstTypes, VolumeTypes, TabTypes, volumeVars, tabVars
  <1> QED
    BY <1>1, <1>2, <1>5, <1>6 DEF InstInv, InstTypes

\* An installer on its way stays busy with its engine and keeps its claim.
LEMMA InstallerContinuesInv ==
    ASSUME InstInv, NEW w \in Installers,
           \/ Finds(w) \/ PipEnds(w) \/ RediscoverClears(w) \/ RediscoverFills(w)
           \/ FindsAgain(w) \/ NeedsWeights(w) \/ DownloadEnds(w)
    PROVE InstInv'
  <1> USE DEF WorkStep
  <1>1. w \in Busy /\ UNCHANGED <<plugin, claimed, tabVars>> /\ RegFrame
    BY DEF Finds, PipEnds, RediscoverClears, RediscoverFills, FindsAgain, NeedsWeights,
           DownloadEnds, Busy, RegFrame, callerVars
  <1>2. \E l \in Places \ {"free", "ended"} : ipc' = [ipc EXCEPT ![w] = l]
    BY DEF Finds, PipEnds, RediscoverClears, RediscoverFills, FindsAgain, NeedsWeights,
           DownloadEnds, IGoto, Places
  <1>3. Busy' = Busy /\ ipc' \in [Installers -> Places]
    BY <1>1, <1>2 DEF Busy, InstInv, InstTypes, WorkTypes
  <1>4. plugin[w] \in Engines
    BY <1>1 DEF InstInv, InstTypes, WorkTypes
  <1>5. classes' \subseteq Engines
    BY <1>4 DEF Finds, PipEnds, RediscoverClears, RediscoverFills, FindsAgain, NeedsWeights,
                DownloadEnds, InstInv, InstTypes, VolumeTypes, RegTypes, RegTypeOK
  <1>6. RegInv' /\ RegTypes'
    BY <1>1, <1>5, RegistryUntouched DEF InstInv
  <1>7. disk' \subseteq Engines /\ weights' \subseteq Engines
    BY <1>4 DEF Finds, PipEnds, RediscoverClears, RediscoverFills, FindsAgain, NeedsWeights,
                DownloadEnds, InstInv, InstTypes, VolumeTypes, volumeVars
  <1>8. stdout' \in Sinks /\ saved' \in [Installers -> Sinks]
    BY DEF Finds, PipEnds, RediscoverClears, RediscoverFills, FindsAgain, NeedsWeights,
           DownloadEnds, InstInv, InstTypes, VolumeTypes, Sinks
  <1>9. VolumeTypes' /\ WorkTypes'
    BY <1>1, <1>3, <1>7, <1>8 DEF InstInv, InstTypes, VolumeTypes, WorkTypes
  <1>10. TabTypes' /\ Claims'
    BY <1>1, <1>3 DEF InstInv, InstTypes, TabTypes, Claims, tabVars
  <1> QED
    BY <1>6, <1>9, <1>10 DEF InstInv, InstTypes

\* A worker that ends gives its own claim back, which is nobody else's.
LEMMA WorkerEndsInv ==
    ASSUME InstInv, NEW w \in Installers, WorkerEnds(w) PROVE InstInv'
  <1> USE DEF WorkStep
  <1>1. /\ w \in Busy /\ UNCHANGED <<plugin, volumeVars, stdout, saved, tabVars>>
        /\ RegFrame /\ classes' = classes
    BY DEF WorkerEnds, Busy, RegFrame, callerVars
  <1>2. \E l \in {"free", "ended"} : ipc' = [ipc EXCEPT ![w] = l]
    BY DEF WorkerEnds, IGoto
  <1>3. Busy' = Busy \ {w} /\ ipc' \in [Installers -> Places]
    BY <1>1, <1>2 DEF Busy, InstInv, InstTypes, WorkTypes, Places
  <1>4. claimed' = IF w \in Workers THEN claimed \ {plugin[w]} ELSE claimed
    BY DEF WorkerEnds
  <1>5. Claims'
    <2>1. CASE w \in Workers
      BY <1>1, <1>3, <1>4, <2>1 DEF InstInv, Claims
    <2>2. CASE w \notin Workers
      <3>1. Busy' \cap Workers = Busy \cap Workers
        BY <1>3, <2>2
      <3> QED
        BY <1>1, <1>4, <2>2, <3>1 DEF InstInv, Claims
    <2> QED
      BY <2>1, <2>2
  <1>6. RegInv' /\ RegTypes'
    BY <1>1, RegistryUntouched DEF InstInv, RegTypes, RegTypeOK
  <1>7. VolumeTypes' /\ WorkTypes' /\ TabTypes'
    BY <1>1, <1>3, <1>4
    DEF InstInv, InstTypes, VolumeTypes, WorkTypes, TabTypes, volumeVars, tabVars
  <1> QED
    BY <1>5, <1>6, <1>7 DEF InstInv, InstTypes

\* Page threads and device changes, beside any install.
LEMMA RegistryStepInv ==
    ASSUME InstInv, RegNext, UNCHANGED <<volumeVars, workVars, tabVars>> PROVE InstInv'
  <1>1. RegInv' /\ RegTypes'
    BY RegStepInv, RegStepTypes DEF InstInv
  <1>2. Busy' = Busy
    BY DEF workVars, Busy
  <1>3. InstTypes' /\ Claims'
    BY <1>2 DEF InstInv, InstTypes, VolumeTypes, WorkTypes, TabTypes, Claims,
                volumeVars, workVars, tabVars
  <1> QED
    BY <1>1, <1>3 DEF InstInv

\* Nothing in the server breaks the invariant.
LEMMA InstStepInv == InstInv /\ [InstNext]_instVars => InstInv'
  <1> SUFFICES ASSUME InstInv, [InstNext]_instVars PROVE InstInv'
    OBVIOUS
  <1>1. CASE RegNext /\ UNCHANGED <<volumeVars, workVars, tabVars, clicks, cuts>>
    BY <1>1, RegistryStepInv
  <1>2. ASSUME NEW w \in Installers, Works(w) PROVE InstInv'
    BY <1>2, InstallerContinuesInv, WorkerEndsInv DEF Works
  <1>3. CASE UNCHANGED instVars
    <2>1. Busy' = Busy
      BY <1>3 DEF instVars, workVars, Busy
    <2>2. RegInv' /\ RegTypes'
      BY <1>3, RegistryUntouched DEF instVars, regVars, RegFrame, InstInv, RegTypes, RegTypeOK
    <2>3. InstTypes' /\ Claims'
      BY <1>3, <2>1 DEF instVars, volumeVars, workVars, tabVars, InstInv, InstTypes,
                        VolumeTypes, WorkTypes, TabTypes, Claims
    <2> QED
      BY <2>2, <2>3 DEF InstInv
  <1> QED
    BY <1>1, <1>2, <1>3, PageStepInv, BlockingStepInv DEF InstNext

\* The invariant in the terms of the two properties.
LEMMA InstInvMeans == InstInv => ClaimsAreWorkers /\ LoadsOnce /\ OneMissIsSurvived
  <1> SUFFICES ASSUME InstInv PROVE ClaimsAreWorkers /\ LoadsOnce /\ OneMissIsSurvived
    OBVIOUS
  <1>1. InstTypeOK
    BY DEF InstInv, InstTypes, VolumeTypes, WorkTypes, TabTypes, RegTypes, InstTypeOK,
           Sinks, Places
  <1>2. ClaimsAreWorkers
    BY <1>1 DEF InstInv, Claims, ClaimsAreWorkers
  <1> QED
    BY <1>2, LoadsAreFew, FailuresArePaid DEF InstInv

\* plugins_install._begin_install and _end_install: a streamed install is
\* claimed while it runs and by nobody else, for any pages, cuts and installers.
THEOREM InstallsAreClaimed == InstSpec => []ClaimsAreWorkers
  <1>1. InstInit => InstInv
    BY InstStartInv DEF InstInit
  <1> QED
    BY <1>1, InstStepInv, InstInvMeans, PTL DEF InstSpec

\* Registry.get beside installs that rediscover its class table: an engine is
\* loaded once, and once more per unload.
THEOREM LoadedOnceBesideInstalls == InstSpec => []LoadsOnce
  <1>1. InstInit => InstInv
    BY InstStartInv DEF InstInit
  <1> QED
    BY <1>1, InstStepInv, InstInvMeans, PTL DEF InstSpec

\* translate_batch beside installs: a page that fails lost two of its calls.
THEOREM MissSurvivedBesideInstalls == InstSpec => []OneMissIsSurvived
  <1>1. InstInit => InstInv
    BY InstStartInv DEF InstInit
  <1> QED
    BY <1>1, InstStepInv, InstInvMeans, PTL DEF InstSpec
-----------------------------------------------------------------------------
(* One engine plugin behind its pool: the calls, the worker and its files.  *)

CallStates == {"none", "waiting", "answered", "cause", "restated", "broken"}

Mishaps == {"load", "death", "raise", "reaped"}
CallRecords == [state : CallStates, retried : BOOLEAN, met : SUBSET Mishaps]

\* What was raised is what the call ends with.
RaisedIsSeen(c) == "raise" \in c.met => c.state \in {"cause", "restated"}

\* The calls, the workers and the weights keep their types.
HostTypes ==
    /\ call \in [LocalEngines -> CallRecords]
    /\ worker \in [LocalEngines -> {"none", "loading", "ready"}]
    /\ device \in [LocalEngines -> {CPU} \cup Nat]
    /\ files \in [LocalEngines -> SUBSET Files]
    /\ opened \subseteq LocalEngines \cup {"probe"}

HostInv == HostTypes /\ CauseIsSeen

\* pick_device answers "cpu", a hint that is in range or the default card.
LEMMA DeviceIsThere ==
    ASSUME NEW hint \in {CPU} \cup Indices
    PROVE  /\ PickDevice(hint) \in {CPU} \cup Nat
           /\ PickDevice(hint) # CPU => PickDevice(hint) < Cards /\ Seen(torch) > 0
  <1>1. Cards \in Nat /\ \A i \in Indices : i \in Nat
    BY HostBoundsAreNat, IndicesAreNat
  <1>2. Seen(torch) \in {Cards, 0}
    BY DEF Seen
  <1>3. CASE hint = CPU \/ Seen(torch) = 0
    BY <1>3 DEF PickDevice
  <1>4. CASE hint \in Indices /\ Seen(torch) = Cards /\ Cards > 0 /\ hint # CPU
    BY <1>1, <1>4 DEF PickDevice
  <1> QED
    BY <1>1, <1>2, <1>3, <1>4

\* A process that goes gives its card back, and no call ends for a reason
\* that was raised.
LEMMA GoneKeeps ==
    ASSUME HostInv, NEW e \in LocalEngines, NEW met \in {"load", "death", "reaped"}, Gone(e, met)
    PROVE  HostInv'
  <1>1. /\ opened' = opened \ {e} /\ device' = [device EXCEPT ![e] = CPU]
        /\ UNCHANGED <<files, fetching>>
    BY DEF Gone, diskVars
  <1>2. \E w \in {"loading", "none"} : worker' = [worker EXCEPT ![e] = w]
    BY DEF Gone
  <1>3. PICK c \in CallRecords : /\ call' = [call EXCEPT ![e] = c]
                                  /\ RaisedIsSeen(c)
    <2>1. call[e] \in CallRecords /\ RaisedIsSeen(call[e])
      BY DEF HostInv, HostTypes, CauseIsSeen, RaisedIsSeen
    <2>2. CASE call[e].state # "waiting"
      BY <2>1, <2>2 DEF Gone, HostInv, HostTypes
    <2>3. CASE call[e].state = "waiting"
      <3>1. call' = [call EXCEPT ![e] =
                       [state |-> IF call[e].retried THEN "broken" ELSE "waiting",
                        retried |-> TRUE, met |-> call[e].met \cup {met}]]
        BY <2>3 DEF Gone
      <3>2. call[e].met \cup {met} \in SUBSET Mishaps /\ "raise" \notin call[e].met \cup {met}
        BY <2>1, <2>3 DEF CallRecords, Mishaps, RaisedIsSeen
      <3>3. [state |-> IF call[e].retried THEN "broken" ELSE "waiting",
             retried |-> TRUE, met |-> call[e].met \cup {met}] \in CallRecords
        BY <3>2 DEF CallRecords, CallStates
      <3> QED
        BY <3>1, <3>2, <3>3 DEF RaisedIsSeen
    <2> QED
      BY <2>2, <2>3
  <1>4. HostTypes'
    BY <1>1, <1>2, <1>3 DEF HostInv, HostTypes
  <1>5. ASSUME NEW d \in LocalEngines
        PROVE  /\ "raise" \in call'[d].met => call'[d].state \in {"cause", "restated"}
               /\ worker'[d] = "ready" => files'[d] = Files
               /\ device'[d] # CPU => d \in opened' /\ device'[d] < Cards
    <2>1. "raise" \in call'[d].met => call'[d].state \in {"cause", "restated"}
      BY <1>3 DEF HostInv, HostTypes, CauseIsSeen, RaisedIsSeen
    <2>2. worker'[d] = "ready" => files'[d] = Files
      BY <1>1, <1>2 DEF HostInv, HostTypes, CauseIsSeen
    <2>3. device'[d] # CPU => d \in opened' /\ device'[d] < Cards
      BY <1>1 DEF HostInv, HostTypes, CauseIsSeen
    <2> QED
      BY <2>1, <2>2, <2>3
  <1> QED
    BY <1>4, <1>5 DEF HostInv, CauseIsSeen

\* Installing adds files only.
LEMMA InstallingKeeps ==
    ASSUME HostInv, PipInstalls \/ \E e \in LocalEngines : Installing(e)
    PROVE  HostInv'
  <1>1. UNCHANGED <<processVars, opened>>
    BY DEF PipInstalls, Installing, Installs, FileArrives, DownloadCut
  <1>2. files' = files \/ \E e \in LocalEngines : \E f \in Files \ files[e] :
                             files' = [files EXCEPT ![e] = @ \cup {f}]
    BY DEF PipInstalls, Installing, Installs, FileArrives, DownloadCut
  <1>3. /\ files' \in [LocalEngines -> SUBSET Files]
        /\ \A d \in LocalEngines : files[d] = Files => files'[d] = Files
    BY <1>2 DEF HostInv, HostTypes
  <1> QED
    BY <1>1, <1>3 DEF processVars, HostInv, HostTypes, CauseIsSeen

\* The admin page starts and ends its probe only.
LEMMA AdminKeeps ==
    ASSUME HostInv, Admin
    PROVE  HostInv'
  <1>1. /\ UNCHANGED <<diskVars, processVars>>
        /\ opened' \in {opened, opened \cup {"probe"}, opened \ {"probe"}}
    BY DEF Admin, ListGpusCached, ListGpus, ProbeEnds, Shows
  <1> QED
    BY <1>1, OthersAreNoEngines DEF diskVars, processVars, HostInv, HostTypes, CauseIsSeen

\* A worker that becomes ready has loaded whole weights onto a card it opened.
LEMMA LoadKeeps ==
    ASSUME HostInv, NEW e \in LocalEngines, WorkerLoads(e)
    PROVE  HostInv'
  <1>1. PICK hint \in {CPU} \cup Indices : device' = [device EXCEPT ![e] = PickDevice(hint)]
    BY DEF WorkerLoads
  <1>2. /\ opened' = (IF Seen(torch) > 0 THEN opened \cup {e} ELSE opened)
        /\ files' = [files EXCEPT ![e] = Files] /\ worker' = [worker EXCEPT ![e] = "ready"]
        /\ call' = call
    BY DEF WorkerLoads
  <1>3. HostTypes'
    BY <1>1, <1>2, DeviceIsThere DEF HostInv, HostTypes
  <1>4. ASSUME NEW d \in LocalEngines, device'[d] # CPU PROVE d \in opened' /\ device'[d] < Cards
    BY <1>1, <1>2, <1>4, DeviceIsThere DEF HostInv, HostTypes, CauseIsSeen
  <1> QED
    BY <1>2, <1>3, <1>4 DEF HostInv, HostTypes, CauseIsSeen

\* Whatever is raised travels home as it is or restated.
LEMMA CallKeeps ==
    ASSUME HostInv, NEW e \in LocalEngines,
           Call(e) \/ TaskReturns(e) \/ TaskRaises(e) \/ CallReturns(e)
    PROVE  HostInv'
  <1>1. UNCHANGED <<files, device, opened>>
    BY DEF Call, TaskReturns, TaskRaises, CallReturns, Gone, Sendable, diskVars
  <1>2. worker' \in [LocalEngines -> {"none", "loading", "ready"}]
        /\ \A d \in LocalEngines : worker'[d] = "ready" => worker[d] = "ready"
    BY DEF Call, TaskReturns, TaskRaises, CallReturns, Sendable, HostInv, HostTypes
  <1>3. PICK c \in CallRecords : call' = [call EXCEPT ![e] = c] /\ RaisedIsSeen(c)
    <2> DEFINE old == call[e]
    <2>1. old \in CallRecords /\ RaisedIsSeen(old) /\ call \in [LocalEngines -> CallRecords]
      BY DEF HostInv, HostTypes, CauseIsSeen, RaisedIsSeen
    <2>2. ASSUME NEW st \in CallStates, call' = [call EXCEPT ![e].state = st],
                 "raise" \in old.met => st \in {"cause", "restated"}
          PROVE  \E c \in CallRecords : call' = [call EXCEPT ![e] = c] /\ RaisedIsSeen(c)
      <3>1. [old EXCEPT !.state = st] \in CallRecords
        BY <2>1 DEF CallRecords
      <3>2. call' = [call EXCEPT ![e] = [old EXCEPT !.state = st]]
        BY <2>2
      <3>3. RaisedIsSeen([old EXCEPT !.state = st])
        BY <2>1, <2>2 DEF RaisedIsSeen, CallRecords
      <3> QED
        BY <3>1, <3>2, <3>3
    <2>3. CASE Call(e) \/ TaskReturns(e)
      <3>1. "raise" \notin old.met
        BY <2>1, <2>3 DEF Call, TaskReturns, RaisedIsSeen
      <3> QED
        BY <2>2, <2>3, <3>1 DEF Call, TaskReturns, CallStates
    <2>4. CASE TaskRaises(e)
      <3>1. PICK kind \in {"plain", "http"} :
              call' = [call EXCEPT ![e].state = Sendable(kind), ![e].met = @ \cup {"raise"}]
        BY <2>4 DEF TaskRaises, Sendable
      <3>2. Sendable(kind) \in {"cause", "restated"}
        BY DEF Sendable
      <3> DEFINE new == [state |-> Sendable(kind), retried |-> old.retried,
                         met |-> old.met \cup {"raise"}]
      <3>3. new \in CallRecords
        BY <2>1, <3>2 DEF CallRecords, CallStates, Mishaps
      <3>4. call'[e] = new /\ \A d \in LocalEngines \ {e} : call'[d] = call[d]
        BY <2>1, <3>1 DEF CallRecords
      <3>5. call' = [call EXCEPT ![e] = new]
        BY <2>1, <3>1, <3>4
      <3>6. RaisedIsSeen(new)
        BY <3>2 DEF RaisedIsSeen
      <3> QED
        BY <3>3, <3>5, <3>6
    <2>5. CASE CallReturns(e)
      <3>1. NoCall \in CallRecords /\ RaisedIsSeen(NoCall)
        BY DEF NoCall, CallRecords, CallStates, RaisedIsSeen
      <3> QED
        BY <2>5, <3>1 DEF CallReturns
    <2> QED
      BY <2>3, <2>4, <2>5
  <1>4. HostTypes'
    BY <1>1, <1>2, <1>3 DEF HostInv, HostTypes
  <1> QED
    BY <1>1, <1>2, <1>3, <1>4 DEF HostInv, HostTypes, CauseIsSeen, RaisedIsSeen

\* scanlation_sdk and the pool's worker side: whatever the engines load, raise
\* and die of, and whatever installs and probes do meanwhile, a call that
\* raised ends with its cause, and a loaded worker has its weights and card.
THEOREM CauseIsAlwaysSeen == HostSpec => []CauseIsSeen
  <1>1. HostInit => HostInv
    <2> SUFFICES ASSUME HostInit PROVE HostInv
      OBVIOUS
    <2>1. HostTypes
      BY DEF HostInit, NoCall, HostTypes, CallRecords, CallStates
    <2> QED
      BY <2>1 DEF HostInit, NoCall, HostInv, CauseIsSeen
  <1>2. HostInv /\ [HostNext]_hostVars => HostInv'
    <2> SUFFICES ASSUME HostInv, [HostNext]_hostVars PROVE HostInv'
      OBVIOUS
    <2>1. CASE UNCHANGED hostVars
      BY <2>1 DEF hostVars, diskVars, processVars, HostInv, HostTypes, CauseIsSeen
    <2>2. ASSUME NEW e \in LocalEngines, LoadFails(e) \/ WorkerDies(e) \/ Reaped(e)
          PROVE  HostInv'
      BY <2>2, GoneKeeps DEF LoadFails, WorkerDies, Reaped
    <2> QED
      BY <2>1, <2>2, InstallingKeeps, AdminKeeps, LoadKeeps, CallKeeps
         DEF HostNext, WorkerProceeds
  <1>3. HostInv => CauseIsSeen
    BY DEF HostInv
  <1> QED
    BY <1>1, <1>2, <1>3, PTL DEF HostSpec
=============================================================================
