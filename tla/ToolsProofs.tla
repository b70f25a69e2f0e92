----------------------------- MODULE ToolsProofs -----------------------------
(***************************************************************************)
(* The tools, for any number of cores, bodies, pages and passes: the fan and *)
(* the cap go back as they were found and no load runs without the guard   *)
(* (CoolingBench); a page's stored answers outlive the passes that follow  *)
(* (CompareStore); the report keeps every page and gives its texts back to *)
(* the bench (RunReport).                                                  *)
(***************************************************************************)
EXTENDS CoolingBench, CompareStore, RunReport, ListLemmas
-----------------------------------------------------------------------------
(* CoolingBench: where the main thread of each script may be.              *)

ChapterPlaces == {"check", "chapter", "map", "drain", "join", "report", "ended"}
FinallyPlaces == {"finally_cap", "finally_cap2", "finally_fan", "finally_fan2"}
LoadPlaces == {"hold", "heat_lo", "heat_hi", "drain", "drain_hi"}
BenchPlaces == {"fan_enter", "fan_stop", "fan_pin", "cap_enter", "next", "settle", "flat", "load", "cool",
                "cap_exit", "cap_exit2", "fan_exit", "fan_exit2", "join", "report", "ended"}
                   \cup LoadPlaces \cup FinallyPlaces

CoolTypes ==
    /\ tool \in Tools
    /\ pc \in IF tool = "chapters" THEN ChapterPlaces ELSE BenchPlaces
    /\ raising \in {"no", "interrupt", "exit"} /\ torn \in BOOLEAN /\ failed \in BOOLEAN
    /\ adrift \in BOOLEAN
    /\ left \in 0..Runs[tool] /\ pages \in 0..Bodies /\ raises \in 0..MaxRaises
    /\ temp \in 0..Ceiling /\ hot \in Nat
    /\ fancontrol \in BOOLEAN /\ wasActive \in BOOLEAN /\ fanDone \in BOOLEAN
    /\ channel \in {"before", "pinned", "curve"} /\ cap \in {"before", "lowered"}
    /\ capKnown \in BOOLEAN /\ capDone \in BOOLEAN
    /\ stopLoad \in BOOLEAN /\ tripped \in BOOLEAN /\ stopGuard \in BOOLEAN
    /\ guard \in {"on", "off", "died"}
    /\ worker \in [Threads -> {"off", "check", "submit", "flight"}]
    /\ late \in [Threads -> Nat]

\* A thread that submitted after the trip is past its last check.
LateInv ==
    \A w \in Threads :
        /\ late[w] <= 1
        /\ late[w] # 0 => tripped /\ worker[w] # "submit"

\* The guard is joined only once the loader is drained, but for a loader that
\* an exception left running.
GuardInv ==
    IF tool = "chapters"
      THEN /\ pc = "drain" => failed \/ raising # "no"
           /\ pc = "check" => ~stopGuard
           /\ ~adrift => /\ pc \notin {"map", "drain", "ended"} => Idle
                         /\ pc \in {"chapter", "map", "drain"} => guard # "off" /\ ~stopGuard
                         /\ Idle \/ (guard # "off" /\ ~stopGuard)
      ELSE ~adrift =>
             /\ pc \notin LoadPlaces => Idle
             /\ pc \notin FinallyPlaces \cup {"report", "ended"} => guard # "off" /\ ~stopGuard

\* What is to be handed back is still known to be due.
HandInv ==
    IF tool = "chapters" THEN cap = "before" /\ ~wasActive
    ELSE /\ pc \in {"fan_enter", "fan_stop"} => ~fanDone
         /\ pc \in {"fan_enter", "fan_stop", "fan_pin", "cap_enter"} => ~capDone
         /\ ~torn =>
              /\ \/ cap = "before" \/ (capKnown /\ ~capDone)
                 \/ pc \in {"cap_exit2", "finally_cap2"}
              /\ \/ (wasActive => fancontrol) \/ ~fanDone
                 \/ pc \in {"fan_exit2", "finally_fan2"}
              /\ pc \in {"finally_fan", "finally_fan2", "report", "ended"} => cap = "before"
              /\ pc \in {"report", "ended"} => (wasActive => fancontrol)

CoolInv == CoolTypes /\ LateInv /\ GuardInv /\ HandInv

\* The with statement, or the finally clause, that follows the measurements.
LEMMA BodyEnds ==
    ASSUME tool \in Tools
    PROVE  BodyEnd = IF tool = "steady" THEN "cap_exit" ELSE IF tool = "sweep" THEN "fan_exit" ELSE "join"
  BY DEF Tools, BodyEnd

\* Taking the fan and the cap.
LEMMA TakeKeeps ==
    ASSUME CoolInv, FanNotes \/ FanStops \/ FanPins \/ CapLowers
    PROVE  CoolInv'
  <1> USE LevelsAreNat, CoolingBoundsAreNat DEF mainVars, fanVars, capVars, loadVars, guardVars,
              ChapterPlaces, BenchPlaces, LoadPlaces, FinallyPlaces
  <1>1. CASE FanStops
    <2> USE <1>1 DEF FanStops, Main
    <2>0. tool # "chapters" /\ pc = "fan_stop" /\ pc' = "fan_pin"
      BY DEF CoolInv, CoolTypes
    <2>1. CoolTypes'
      <3>1. fancontrol' \in BOOLEAN
        BY DEF CoolInv, CoolTypes
      <3>2. UNCHANGED <<tool, raising, raises, torn, adrift, temp, left, wasActive, channel, fanDone,
                        holder, capVars, loadVars, guardVars>>
        OBVIOUS
      <3> HIDE DEF FanStops
      <3> QED
        BY <2>0, <3>1, <3>2 DEF CoolInv, CoolTypes, Tools
    <2>2. LateInv'
      BY <2>0 DEF CoolInv, LateInv, CoolTypes
    <2>3. GuardInv'
      BY <2>0 DEF CoolInv, GuardInv, CoolTypes, Idle
    <2>4. HandInv'
      BY <2>0 DEF CoolInv, HandInv, CoolTypes
    <2> QED
      BY <2>1, <2>2, <2>3, <2>4 DEF CoolInv
  <1>2. CASE FanPins
    <2> USE <1>2 DEF FanPins, Main
    <2>1. CoolTypes'
      BY DEF CoolInv, CoolTypes, Tools
    <2>2. LateInv'
      BY DEF CoolInv, LateInv, CoolTypes
    <2>3. GuardInv'
      BY DEF CoolInv, GuardInv, CoolTypes, Idle
    <2>4. HandInv'
      BY DEF CoolInv, HandInv, CoolTypes
    <2> QED
      BY <2>1, <2>2, <2>3, <2>4 DEF CoolInv
  <1>4. CASE FanNotes
    <2> USE <1>4 DEF FanNotes, Main
    <2>0. tool # "chapters" /\ pc = "fan_enter" /\ pc' = "fan_stop"
      BY DEF CoolInv, CoolTypes
    <2>1. CoolTypes'
      <3>1. wasActive' \in BOOLEAN
        BY DEF CoolInv, CoolTypes
      <3>2. UNCHANGED <<tool, raising, raises, torn, adrift, temp, left, fancontrol, channel, fanDone,
                        holder, capVars, loadVars, guardVars>>
        OBVIOUS
      <3> HIDE DEF FanNotes
      <3> QED
        BY <2>0, <3>1, <3>2 DEF CoolInv, CoolTypes, Tools
    <2>2. LateInv'
      BY <2>0 DEF CoolInv, LateInv, CoolTypes
    <2>3. GuardInv'
      BY <2>0 DEF CoolInv, GuardInv, CoolTypes, Idle
    <2>4. HandInv'
      BY <2>0 DEF CoolInv, HandInv, CoolTypes
    <2> QED
      BY <2>1, <2>2, <2>3, <2>4 DEF CoolInv
  <1>3. CASE CapLowers
    <2> USE <1>3 DEF CapLowers, Main
    <2>1. CoolTypes'
      BY DEF CoolInv, CoolTypes, Tools
    <2>2. LateInv'
      BY DEF CoolInv, LateInv, CoolTypes
    <2>3. GuardInv'
      BY DEF CoolInv, GuardInv, CoolTypes, Idle
    <2>4. HandInv'
      BY DEF CoolInv, HandInv, CoolTypes
    <2> QED
      BY <2>1, <2>2, <2>3, <2>4 DEF CoolInv
  <1> QED
    BY <1>1, <1>2, <1>3, <1>4

\* Reps and holds.
LEMMA MeasureKeeps ==
    ASSUME CoolInv, NextRun \/ Settles \/ LoadStarts \/ Heats \/ Holds \/ Cools
    PROVE  CoolInv'
  <1> USE LevelsAreNat, CoolingBoundsAreNat DEF mainVars, fanVars, capVars, loadVars, guardVars,
              ChapterPlaces, BenchPlaces, LoadPlaces, FinallyPlaces
  <1>1. CASE NextRun
    <2> USE <1>1 DEF NextRun, Main, SetsDuty
    <2>0. /\ tool \in {"sweep", "steady"} /\ pc = "next"
          /\ pc' \in {"cap_exit", "fan_exit", "load", "settle"}
      BY BodyEnds DEF CoolInv, CoolTypes, Tools
    <2>1. CoolTypes'
      BY <2>0 DEF CoolInv, CoolTypes, Tools
    <2>2. LateInv'
      BY <2>0 DEF CoolInv, LateInv, CoolTypes
    <2>3. GuardInv'
      BY <2>0 DEF CoolInv, GuardInv, CoolTypes, Idle
    <2>4. HandInv'
      BY <2>0 DEF CoolInv, HandInv, CoolTypes
    <2> QED
      BY <2>1, <2>2, <2>3, <2>4 DEF CoolInv
  <1>2. CASE Settles
    <2> USE <1>2 DEF Settles, WaitsBelow, Main
    <2>1. CoolTypes'
      BY DEF CoolInv, CoolTypes, Tools
    <2>2. LateInv'
      BY DEF CoolInv, LateInv, CoolTypes
    <2>3. GuardInv'
      BY DEF CoolInv, GuardInv, CoolTypes, Idle
    <2>4. HandInv'
      BY DEF CoolInv, HandInv, CoolTypes
    <2> QED
      BY <2>1, <2>2, <2>3, <2>4 DEF CoolInv
  <1>3. CASE LoadStarts
    <2> USE <1>3 DEF LoadStarts, Main
    <2>0. /\ tool \in {"sweep", "steady"} /\ pc = "load" /\ pc' \in {"hold", "heat_lo"}
          /\ worker' \in [Threads -> {"off", "check", "submit", "flight"}]
      BY DEF CoolInv, CoolTypes, Tools
    <2>1. CoolTypes'
      <3>1. UNCHANGED <<tool, raising, raises, torn, adrift, temp, left, fanVars, capVars, late, pages,
                        failed, guardVars>> /\ stopLoad' \in BOOLEAN
        OBVIOUS
      <3> HIDE DEF LoadStarts
      <3> QED
        BY <2>0, <3>1 DEF CoolInv, CoolTypes, Tools
    <2>2. LateInv'
      BY <2>0 DEF CoolInv, LateInv, CoolTypes
    <2>3. GuardInv'
      BY <2>0 DEF CoolInv, GuardInv, CoolTypes, Idle
    <2>4. HandInv'
      BY <2>0 DEF CoolInv, HandInv, CoolTypes
    <2> QED
      BY <2>1, <2>2, <2>3, <2>4 DEF CoolInv
  <1>4. CASE Heats
    <2> USE <1>4 DEF Heats, WaitsAbove, Main
    <2>1. CoolTypes'
      BY DEF CoolInv, CoolTypes, Tools
    <2>2. LateInv'
      BY DEF CoolInv, LateInv, CoolTypes
    <2>3. GuardInv'
      BY DEF CoolInv, GuardInv, CoolTypes, Idle
    <2>4. HandInv'
      BY DEF CoolInv, HandInv, CoolTypes
    <2> QED
      BY <2>1, <2>2, <2>3, <2>4 DEF CoolInv
  <1>5. CASE Holds
    <2> USE <1>5 DEF Holds, Main
    <2>1. CoolTypes'
      BY DEF CoolInv, CoolTypes, Tools
    <2>2. LateInv'
      BY DEF CoolInv, LateInv, CoolTypes
    <2>3. GuardInv'
      BY DEF CoolInv, GuardInv, CoolTypes, Idle
    <2>4. HandInv'
      BY DEF CoolInv, HandInv, CoolTypes
    <2> QED
      BY <2>1, <2>2, <2>3, <2>4 DEF CoolInv
  <1>6. CASE Cools
    <2> USE <1>6 DEF Cools, Main
    <2>1. CoolTypes'
      BY DEF CoolInv, CoolTypes, Tools
    <2>2. LateInv'
      BY DEF CoolInv, LateInv, CoolTypes
    <2>3. GuardInv'
      BY DEF CoolInv, GuardInv, CoolTypes, Idle
    <2>4. HandInv'
      BY DEF CoolInv, HandInv, CoolTypes
    <2> QED
      BY <2>1, <2>2, <2>3, <2>4 DEF CoolInv
  <1> QED
    BY <1>1, <1>2, <1>3, <1>4, <1>5, <1>6

\* Draining the loader: a drain ends with every thread gone.
LEMMA DrainKeeps ==
    ASSUME CoolInv, DrainStops \/ DrainEnds
    PROVE  CoolInv'
  <1> USE LevelsAreNat, CoolingBoundsAreNat DEF mainVars, fanVars, capVars, loadVars, guardVars,
              ChapterPlaces, BenchPlaces, LoadPlaces, FinallyPlaces
  <1>1. CASE DrainStops
    <2> USE <1>1 DEF DrainStops
    <2>1. CoolTypes'
      BY DEF CoolInv, CoolTypes, Tools
    <2>2. LateInv'
      BY DEF CoolInv, LateInv, CoolTypes
    <2>3. GuardInv'
      BY DEF CoolInv, GuardInv, CoolTypes, Idle
    <2>4. HandInv'
      BY DEF CoolInv, HandInv, CoolTypes
    <2> QED
      BY <2>1, <2>2, <2>3, <2>4 DEF CoolInv
  <1>2. CASE DrainEnds
    <2> USE <1>2 DEF DrainEnds, Main, Drained
    <2>0. /\ tool \in Tools /\ pc \in {"drain", "drain_hi"} /\ Idle
          /\ pc' \in IF tool = "chapters" THEN {"join"} ELSE {"next", "cap_exit", "fan_exit", "cool"}
          /\ UNCHANGED <<tool, raising, raises, torn, adrift, temp, left, fanVars, capVars, loadVars, guardVars>>
      BY BodyEnds DEF CoolInv, CoolTypes, GuardInv, Tools
    <2>1. CoolTypes'
      BY <2>0 DEF CoolInv, CoolTypes, Tools
    <2>2. LateInv'
      BY <2>0 DEF CoolInv, LateInv, CoolTypes
    <2>3. GuardInv'
      BY <2>0 DEF CoolInv, GuardInv, CoolTypes, Idle
    <2>4. HandInv'
      BY <2>0 DEF CoolInv, HandInv, CoolTypes
    <2> QED
      BY <2>1, <2>2, <2>3, <2>4 DEF CoolInv
  <1> QED
    BY <1>1, <1>2

\* Chapters: the guard is on before the first page is sent, and the pool is empty
\* before the chapter ends.
LEMMA ChapterKeeps ==
    ASSUME CoolInv, ChecksStart \/ NextChapter \/ ChapterEnds
    PROVE  CoolInv'
  <1> USE LevelsAreNat, CoolingBoundsAreNat DEF mainVars, fanVars, capVars, loadVars, guardVars,
              ChapterPlaces, BenchPlaces, LoadPlaces, FinallyPlaces
  <1>1. CASE ChecksStart
    <2> USE <1>1 DEF ChecksStart, Main
    <2>0. tool = "chapters" /\ pc = "check" /\ pc' \in {"ended", "chapter"}
      BY DEF CoolInv, CoolTypes
    <2>1. CoolTypes'
      BY <2>0 DEF CoolInv, CoolTypes, Tools
    <2>2. LateInv'
      BY <2>0 DEF CoolInv, LateInv, CoolTypes
    <2>3. GuardInv'
      <3>1. worker' = worker /\ adrift' = adrift /\ stopGuard' = stopGuard
        OBVIOUS
      <3>2. ~adrift => Idle
        BY <2>0 DEF CoolInv, GuardInv
      <3>3. CASE pc' = "ended"
        BY <2>0, <3>1, <3>2, <3>3 DEF GuardInv, Idle
      <3>4. CASE pc' = "chapter"
        BY <2>0, <3>1, <3>2, <3>4 DEF CoolInv, GuardInv, Idle
      <3> QED
        BY <2>0, <3>3, <3>4
    <2>4. HandInv'
      BY <2>0 DEF CoolInv, HandInv, CoolTypes
    <2> QED
      BY <2>1, <2>2, <2>3, <2>4 DEF CoolInv
  <1>2. CASE NextChapter
    <2> USE <1>2 DEF NextChapter, Main
    <2>t. /\ tool = "chapters" /\ pc = "chapter" /\ pc' \in {"join", "map"} /\ tool \in Tools
      BY DEF CoolInv, CoolTypes
    <2>l. Runs[tool] \in Nat /\ Bodies \in Nat
      BY <2>t, CoolingBoundsAreNat
    <2>0. /\ tool = "chapters" /\ pc = "chapter" /\ pc' \in {"join", "map"}
          /\ worker' \in [Threads -> {"off", "check", "submit", "flight"}]
          /\ left' \in 0..Runs[tool] /\ pages' \in 0..Bodies /\ stopLoad' \in BOOLEAN
      <3>1. CASE left = 0 \/ tripped
        BY <2>t, <3>1 DEF CoolInv, CoolTypes
      <3>2. CASE ~(left = 0 \/ tripped)
        <4>1. left' = left - 1 /\ left \in 0..Runs[tool] /\ left # 0
          BY <3>2 DEF CoolInv, CoolTypes
        <4>2. left' \in 0..Runs[tool] /\ Bodies \in 0..Bodies
          BY <2>l, <4>1
        <4>3. pages' = Bodies /\ stopLoad' = FALSE /\ worker' = [w \in Threads |-> "check"]
          BY <3>2
        <4> HIDE DEF NextChapter
        <4> QED
          BY <2>t, <4>2, <4>3
      <3> QED
        BY <3>1, <3>2
    <2>1. CoolTypes'
      BY <2>0 DEF CoolInv, CoolTypes, Tools
    <2>2. LateInv'
      BY <2>0 DEF CoolInv, LateInv, CoolTypes
    <2>3. GuardInv'
      BY <2>0 DEF CoolInv, GuardInv, CoolTypes, Idle
    <2>4. HandInv'
      BY <2>0 DEF CoolInv, HandInv, CoolTypes
    <2> QED
      BY <2>1, <2>2, <2>3, <2>4 DEF CoolInv
  <1>3. CASE ChapterEnds
    <2> USE <1>3 DEF ChapterEnds, Main
    <2>1. CoolTypes'
      BY DEF CoolInv, CoolTypes, Tools
    <2>2. LateInv'
      BY DEF CoolInv, LateInv, CoolTypes
    <2>3. GuardInv'
      BY DEF CoolInv, GuardInv, CoolTypes, Idle
    <2>4. HandInv'
      BY DEF CoolInv, HandInv, CoolTypes
    <2> QED
      BY <2>1, <2>2, <2>3, <2>4 DEF CoolInv
  <1> QED
    BY <1>1, <1>2, <1>3

\* The guard is joined, the result reported.
LEMMA JoinKeeps ==
    ASSUME CoolInv, GuardJoined \/ Reports
    PROVE  CoolInv'
  <1> USE LevelsAreNat, CoolingBoundsAreNat DEF mainVars, fanVars, capVars, loadVars, guardVars,
              ChapterPlaces, BenchPlaces, LoadPlaces, FinallyPlaces
  <1>1. CASE GuardJoined
    <2> USE <1>1 DEF GuardJoined, Main
    <2>1. CoolTypes'
      BY DEF CoolInv, CoolTypes, Tools
    <2>2. LateInv'
      BY DEF CoolInv, LateInv, CoolTypes
    <2>3. GuardInv'
      BY DEF CoolInv, GuardInv, CoolTypes, Idle
    <2>4. HandInv'
      BY DEF CoolInv, HandInv, CoolTypes
    <2> QED
      BY <2>1, <2>2, <2>3, <2>4 DEF CoolInv
  <1>2. CASE Reports
    <2> USE <1>2 DEF Reports, Main
    <2>1. CoolTypes'
      BY DEF CoolInv, CoolTypes, Tools
    <2>2. LateInv'
      BY DEF CoolInv, LateInv, CoolTypes
    <2>3. GuardInv'
      BY DEF CoolInv, GuardInv, CoolTypes, Idle
    <2>4. HandInv'
      BY DEF CoolInv, HandInv, CoolTypes
    <2> QED
      BY <2>1, <2>2, <2>3, <2>4 DEF CoolInv
  <1> QED
    BY <1>1, <1>2

\* Handing back: restore marks itself done before it writes, and writes before the
\* main thread goes on.
LEMMA HandBackKeeps ==
    ASSUME CoolInv, HandsBack
    PROVE  CoolInv'
  <1> USE LevelsAreNat, CoolingBoundsAreNat DEF mainVars, fanVars, capVars, loadVars, guardVars,
              ChapterPlaces, BenchPlaces, LoadPlaces, FinallyPlaces
  <1>1. CASE CapMarks("cap_exit", "cap_exit2", "fan_exit")
    <2> USE <1>1 DEF CapMarks, Main
    <2>1. CoolTypes'
      BY DEF CoolInv, CoolTypes, Tools
    <2>2. LateInv'
      BY DEF CoolInv, LateInv, CoolTypes
    <2>3. GuardInv'
      BY DEF CoolInv, GuardInv, CoolTypes, Idle
    <2>4. HandInv'
      BY DEF CoolInv, HandInv, CoolTypes
    <2> QED
      BY <2>1, <2>2, <2>3, <2>4 DEF CoolInv
  <1>2. CASE CapWrites("cap_exit2", "fan_exit")
    <2> USE <1>2 DEF CapWrites, Main
    <2>1. CoolTypes'
      BY DEF CoolInv, CoolTypes, Tools
    <2>2. LateInv'
      BY DEF CoolInv, LateInv, CoolTypes
    <2>3. GuardInv'
      BY DEF CoolInv, GuardInv, CoolTypes, Idle
    <2>4. HandInv'
      BY DEF CoolInv, HandInv, CoolTypes
    <2> QED
      BY <2>1, <2>2, <2>3, <2>4 DEF CoolInv
  <1>3. CASE FanMarks("fan_exit", "fan_exit2", "join")
    <2> USE <1>3 DEF FanMarks, Main
    <2>1. CoolTypes'
      BY DEF CoolInv, CoolTypes, Tools
    <2>2. LateInv'
      BY DEF CoolInv, LateInv, CoolTypes
    <2>3. GuardInv'
      BY DEF CoolInv, GuardInv, CoolTypes, Idle
    <2>4. HandInv'
      BY DEF CoolInv, HandInv, CoolTypes
    <2> QED
      BY <2>1, <2>2, <2>3, <2>4 DEF CoolInv
  <1>4. CASE FanWrites("fan_exit2", "join")
    <2> USE <1>4 DEF FanWrites, Main
    <2>1. CoolTypes'
      BY DEF CoolInv, CoolTypes, Tools
    <2>2. LateInv'
      BY DEF CoolInv, LateInv, CoolTypes
    <2>3. GuardInv'
      BY DEF CoolInv, GuardInv, CoolTypes, Idle
    <2>4. HandInv'
      BY DEF CoolInv, HandInv, CoolTypes
    <2> QED
      BY <2>1, <2>2, <2>3, <2>4 DEF CoolInv
  <1>5. CASE CapMarks("finally_cap", "finally_cap2", "finally_fan")
    <2> USE <1>5 DEF CapMarks, Main
    <2>1. CoolTypes'
      BY DEF CoolInv, CoolTypes, Tools
    <2>2. LateInv'
      BY DEF CoolInv, LateInv, CoolTypes
    <2>3. GuardInv'
      BY DEF CoolInv, GuardInv, CoolTypes, Idle
    <2>4. HandInv'
      BY DEF CoolInv, HandInv, CoolTypes
    <2> QED
      BY <2>1, <2>2, <2>3, <2>4 DEF CoolInv
  <1>6. CASE FanMarks("finally_fan", "finally_fan2", IF raising = "exit" THEN "ended" ELSE "report")
    <2> USE <1>6 DEF FanMarks, Main
    <2>1. CoolTypes'
      BY DEF CoolInv, CoolTypes, Tools
    <2>2. LateInv'
      BY DEF CoolInv, LateInv, CoolTypes
    <2>3. GuardInv'
      BY DEF CoolInv, GuardInv, CoolTypes, Idle
    <2>4. HandInv'
      BY DEF CoolInv, HandInv, CoolTypes
    <2> QED
      BY <2>1, <2>2, <2>3, <2>4 DEF CoolInv
  <1>7. CASE CapWrites("finally_cap2", "finally_fan")
    <2> USE <1>7 DEF CapWrites, Main
    <2>1. CoolTypes'
      BY DEF CoolInv, CoolTypes, Tools
    <2>2. LateInv'
      BY DEF CoolInv, LateInv, CoolTypes
    <2>3. GuardInv'
      BY DEF CoolInv, GuardInv, CoolTypes, Idle
    <2>4. HandInv'
      BY DEF CoolInv, HandInv, CoolTypes
    <2> QED
      BY <2>1, <2>2, <2>3, <2>4 DEF CoolInv
  <1>8. CASE FanWrites("finally_fan2", IF raising = "exit" THEN "ended" ELSE "report")
    <2> USE <1>8 DEF FanWrites, Main
    <2>1. CoolTypes'
      BY DEF CoolInv, CoolTypes, Tools
    <2>2. LateInv'
      BY DEF CoolInv, LateInv, CoolTypes
    <2>3. GuardInv'
      BY DEF CoolInv, GuardInv, CoolTypes, Idle
    <2>4. HandInv'
      BY DEF CoolInv, HandInv, CoolTypes
    <2> QED
      BY <2>1, <2>2, <2>3, <2>4 DEF CoolInv
  <1> QED
    BY <1>1, <1>2, <1>3, <1>4, <1>5, <1>6, <1>7, <1>8 DEF HandsBack, FinallyMarks

\* The card, fancontrol, the thread that holds the duty, and the guard.
LEMMA MachineKeeps ==
    ASSUME CoolInv, HolderWrites \/ FancontrolWrites \/ JunctionMoves \/ GuardSamples \/ GuardReadsNothing
             \/ GuardDies
    PROVE  CoolInv'
  <1> USE LevelsAreNat, CoolingBoundsAreNat DEF mainVars, fanVars, capVars, loadVars, guardVars,
              ChapterPlaces, BenchPlaces, LoadPlaces, FinallyPlaces
  <1>1. CASE HolderWrites
    <2> USE <1>1 DEF HolderWrites, Alive
    <2>1. CoolTypes'
      BY DEF CoolInv, CoolTypes, Tools
    <2>2. LateInv'
      BY DEF CoolInv, LateInv, CoolTypes
    <2>3. GuardInv'
      BY DEF CoolInv, GuardInv, CoolTypes, Idle
    <2>4. HandInv'
      BY DEF CoolInv, HandInv, CoolTypes
    <2> QED
      BY <2>1, <2>2, <2>3, <2>4 DEF CoolInv
  <1>2. CASE FancontrolWrites
    <2> USE <1>2 DEF FancontrolWrites
    <2>1. CoolTypes'
      BY DEF CoolInv, CoolTypes, Tools
    <2>2. LateInv'
      BY DEF CoolInv, LateInv, CoolTypes
    <2>3. GuardInv'
      BY DEF CoolInv, GuardInv, CoolTypes, Idle
    <2>4. HandInv'
      BY DEF CoolInv, HandInv, CoolTypes
    <2> QED
      BY <2>1, <2>2, <2>3, <2>4 DEF CoolInv
  <1>3. CASE JunctionMoves
    <2> USE <1>3 DEF JunctionMoves, Alive
    <2>1. CoolTypes'
      BY DEF CoolInv, CoolTypes, Tools
    <2>2. LateInv'
      BY DEF CoolInv, LateInv, CoolTypes
    <2>3. GuardInv'
      BY DEF CoolInv, GuardInv, CoolTypes, Idle
    <2>4. HandInv'
      BY DEF CoolInv, HandInv, CoolTypes
    <2> QED
      BY <2>1, <2>2, <2>3, <2>4 DEF CoolInv
  <1>4. CASE GuardSamples
    <2> USE <1>4 DEF GuardSamples, Alive
    <2>1. CoolTypes'
      BY DEF CoolInv, CoolTypes, Tools
    <2>2. LateInv'
      BY DEF CoolInv, LateInv, CoolTypes
    <2>3. GuardInv'
      BY DEF CoolInv, GuardInv, CoolTypes, Idle
    <2>4. HandInv'
      BY DEF CoolInv, HandInv, CoolTypes
    <2> QED
      BY <2>1, <2>2, <2>3, <2>4 DEF CoolInv
  <1>6. CASE GuardDies
    <2> USE <1>6 DEF GuardDies, Alive
    <2>1. CoolTypes'
      BY DEF CoolInv, CoolTypes, Tools
    <2>2. LateInv'
      BY DEF CoolInv, LateInv, CoolTypes
    <2>3. GuardInv'
      BY DEF CoolInv, GuardInv, CoolTypes, Idle
    <2>4. HandInv'
      BY DEF CoolInv, HandInv, CoolTypes
    <2> QED
      BY <2>1, <2>2, <2>3, <2>4 DEF CoolInv
  <1>5. CASE GuardReadsNothing
    <2> USE <1>5 DEF GuardReadsNothing, Alive
    <2>1. CoolTypes'
      BY DEF CoolInv, CoolTypes, Tools
    <2>2. LateInv'
      BY DEF CoolInv, LateInv, CoolTypes
    <2>3. GuardInv'
      BY DEF CoolInv, GuardInv, CoolTypes, Idle
    <2>4. HandInv'
      BY DEF CoolInv, HandInv, CoolTypes
    <2> QED
      BY <2>1, <2>2, <2>3, <2>4 DEF CoolInv
  <1> QED
    BY <1>1, <1>2, <1>3, <1>4, <1>5, <1>6

\* The loader's threads: only a thread that passed its check before the trip
\* submits after it.
LEMMA ThreadKeeps ==
    ASSUME CoolInv, NEW v \in Threads, WorkerChecks(v) \/ WorkerTakes(v) \/ WorkerSubmits(v) \/ RequestEnds(v)
    PROVE  CoolInv'
  <1> USE LevelsAreNat, CoolingBoundsAreNat DEF mainVars, fanVars, capVars, loadVars, guardVars,
              ChapterPlaces, BenchPlaces, LoadPlaces, FinallyPlaces
  <1>1. CASE WorkerChecks(v)
    <2> USE <1>1 DEF WorkerChecks, Alive, GoesOn
    <2>1. CoolTypes'
      BY DEF CoolInv, CoolTypes, Tools
    <2>2. LateInv'
      BY DEF CoolInv, LateInv, CoolTypes
    <2>3. GuardInv'
      BY DEF CoolInv, GuardInv, CoolTypes, Idle
    <2>4. HandInv'
      BY DEF CoolInv, HandInv, CoolTypes
    <2> QED
      BY <2>1, <2>2, <2>3, <2>4 DEF CoolInv
  <1>2. CASE WorkerTakes(v)
    <2> USE <1>2 DEF WorkerTakes, Alive, GoesOn
    <2>1. CoolTypes'
      BY DEF CoolInv, CoolTypes, Tools
    <2>2. LateInv'
      BY DEF CoolInv, LateInv, CoolTypes
    <2>3. GuardInv'
      BY DEF CoolInv, GuardInv, CoolTypes, Idle
    <2>4. HandInv'
      BY DEF CoolInv, HandInv, CoolTypes
    <2> QED
      BY <2>1, <2>2, <2>3, <2>4 DEF CoolInv
  <1>3. CASE WorkerSubmits(v)
    <2> USE <1>3 DEF WorkerSubmits, Alive
    <2>1. CoolTypes'
      BY DEF CoolInv, CoolTypes, Tools
    <2>2. LateInv'
      BY DEF CoolInv, LateInv, CoolTypes
    <2>3. GuardInv'
      BY DEF CoolInv, GuardInv, CoolTypes, Idle
    <2>4. HandInv'
      BY DEF CoolInv, HandInv, CoolTypes
    <2> QED
      BY <2>1, <2>2, <2>3, <2>4 DEF CoolInv
  <1>4. CASE RequestEnds(v)
    <2> USE <1>4 DEF RequestEnds, Alive
    <2>0. /\ worker' \in [Threads -> {"off", "check", "submit", "flight"}]
          /\ failed' \in BOOLEAN
      BY DEF CoolInv, CoolTypes
    <2>1. CoolTypes'
      BY <2>0 DEF CoolInv, CoolTypes, Tools
    <2>2. LateInv'
      BY <2>0 DEF CoolInv, LateInv, CoolTypes
    <2>3. GuardInv'
      BY <2>0 DEF CoolInv, GuardInv, CoolTypes, Idle
    <2>4. HandInv'
      BY <2>0 DEF CoolInv, HandInv, CoolTypes
    <2> QED
      BY <2>1, <2>2, <2>3, <2>4 DEF CoolInv
  <1> QED
    BY <1>1, <1>2, <1>3, <1>4

\* Where an exception goes on, place by place.
LEMMA UnwindsTo ==
    /\ pc \in {"fan_enter", "fan_stop", "fan_pin", "fan_exit", "fan_exit2"} => Unwinds(pc) = "join"
    /\ pc \in {"cap_enter", "cap_exit", "cap_exit2"} => Unwinds(pc) = "fan_exit"
    /\ pc \in {"hold", "map"} => Unwinds(pc) = "drain"
    /\ pc \in {"next", "settle", "flat", "load", "heat_lo", "heat_hi", "drain", "drain_hi",
              "cool", "chapter"} => Unwinds(pc) = BodyEnd
    /\ pc \in {"check", "join", "report", "ended"} \cup FinallyPlaces => Unwinds(pc) = "ended"
  BY DEF Unwinds, FinallyPlaces

\* An exception: it is not raised in a place that hands something back, or the run
\* is torn, nor in one that is to drain the loader, or the loader is adrift; from
\* every other place the main thread goes to the next drain or hand-back due.
LEMMA RaiseKeeps ==
    ASSUME CoolInv, NEW kind \in {"interrupt", "exit"}, Raise(kind)
    PROVE  CoolInv'
  <1> USE LevelsAreNat, CoolingBoundsAreNat DEF mainVars, fanVars, capVars, loadVars, guardVars,
              ChapterPlaces, BenchPlaces, LoadPlaces, FinallyPlaces
  <1>1. /\ tool \in Tools /\ pc # "ended" /\ raises' = raises + 1 /\ raises' \in 0..MaxRaises
        /\ raising' = kind /\ torn' = (torn \/ pc \in Restoring)
        /\ adrift' = (adrift \/ pc \in Loading)
        /\ pc' = IF tool = "chapters" /\ kind = "exit" THEN "ended" ELSE Unwinds(pc)
        /\ UNCHANGED <<tool, left, fanVars, capVars, loadVars, guardVars, temp>>
    BY DEF Raise, CoolInv, CoolTypes
  <1>2. CASE tool = "chapters"
    <2>1. /\ pc \in ChapterPlaces /\ pc' \in {"ended", "drain", "join"}
          /\ pc' = "drain" => pc = "map"
          /\ pc' = "join" => pc \in {"chapter", "drain"}
          /\ ~adrift' => ~adrift /\ pc # "drain"
          /\ torn' \in BOOLEAN /\ adrift' \in BOOLEAN
      BY <1>1, <1>2, UnwindsTo, BodyEnds DEF CoolInv, CoolTypes, Restoring, Loading
    <2>2. CoolTypes'
      BY <1>1, <1>2, <2>1 DEF CoolInv, CoolTypes
    <2>3. LateInv'
      BY <1>1 DEF CoolInv, LateInv
    <2>4. GuardInv'
      BY <1>1, <1>2, <2>1 DEF CoolInv, GuardInv, CoolTypes, Idle
    <2>5. HandInv'
      BY <1>1, <1>2 DEF CoolInv, HandInv
    <2> QED
      BY <2>2, <2>3, <2>4, <2>5 DEF CoolInv
  <1>3. CASE tool # "chapters"
    <2>1. /\ pc \in BenchPlaces /\ pc' \in BenchPlaces
          /\ pc' \in {"join", "fan_exit", "drain", "cap_exit", "ended"}
          /\ pc' = "join" => pc \in {"fan_enter", "fan_stop", "fan_pin", "fan_exit", "fan_exit2"}
          /\ pc' = "ended" <=> pc \in {"join", "report"} \cup FinallyPlaces
          /\ ~torn' => ~torn /\ pc \notin {"cap_exit2", "fan_exit2", "join"} \cup FinallyPlaces
          /\ ~adrift' => ~adrift /\ (pc \in LoadPlaces => pc = "hold" /\ pc' = "drain")
          /\ torn' \in BOOLEAN /\ adrift' \in BOOLEAN
      BY <1>1, <1>3, UnwindsTo, BodyEnds DEF CoolInv, CoolTypes, Restoring, Loading, Tools
    <2>2. CoolTypes'
      BY <1>1, <1>3, <2>1 DEF CoolInv, CoolTypes
    <2>3. LateInv'
      BY <1>1 DEF CoolInv, LateInv
    <2>4. GuardInv'
      BY <1>1, <1>3, <2>1 DEF CoolInv, GuardInv, CoolTypes, Idle
    <2>5. HandInv'
      <3>1. UNCHANGED <<fancontrol, wasActive, fanDone, cap, capKnown, capDone, tool>>
        BY <1>1
      <3>2. CASE torn'
        BY <1>3, <2>1, <3>1, <3>2 DEF HandInv
      <3>3. CASE ~torn'
        <4>1. ~torn /\ pc \notin {"cap_exit2", "fan_exit2", "join"} \cup FinallyPlaces
          BY <2>1, <3>3
        <4>2. /\ cap = "before" \/ (capKnown /\ ~capDone)
              /\ (wasActive => fancontrol) \/ ~fanDone
              /\ pc = "report" => cap = "before" /\ (wasActive => fancontrol)
          BY <1>3, <4>1 DEF CoolInv, HandInv
        <4> QED
          BY <1>3, <2>1, <3>1, <3>3, <4>1, <4>2 DEF HandInv
      <3> QED
        BY <3>2, <3>3
    <2> QED
      BY <2>2, <2>3, <2>4, <2>5 DEF CoolInv
  <1> QED
    BY <1>2, <1>3

LEMMA CoolInvInit == CoolInit => CoolInv
  <1> SUFFICES ASSUME CoolInit PROVE CoolInv
    OBVIOUS
  <1> USE LevelsAreNat, CoolingBoundsAreNat DEF CoolInit
  <1>1. CoolTypes
    <2>1. left \in 0..Runs[tool] /\ pages \in 0..Bodies /\ raises \in 0..MaxRaises /\ temp \in 0..Ceiling
      BY DEF Tools
    <2>2. /\ worker \in [Threads -> {"off", "check", "submit", "flight"}] /\ late \in [Threads -> Nat]
          /\ channel \in {"before", "pinned", "curve"} /\ guard \in {"on", "off"}
          /\ pc \in IF tool = "chapters" THEN ChapterPlaces ELSE BenchPlaces
      BY DEF ChapterPlaces, BenchPlaces
    <2> QED
      BY <2>1, <2>2 DEF CoolTypes
  <1>2. LateInv
    <2> SUFFICES ASSUME NEW w \in Threads
                 PROVE  late[w] <= 1 /\ (late[w] # 0 => tripped /\ worker[w] # "submit")
      BY DEF LateInv
    <2>1. late[w] = 0
      OBVIOUS
    <2> QED
      BY <2>1
  <1>3. GuardInv
    BY DEF GuardInv, Idle, LoadPlaces, FinallyPlaces
  <1>4. HandInv
    BY DEF HandInv
  <1> QED
    BY <1>1, <1>2, <1>3, <1>4 DEF CoolInv

LEMMA CoolInvStep == CoolInv /\ [CoolNext]_coolVars => CoolInv'
  <1> SUFFICES ASSUME CoolInv, [CoolNext]_coolVars PROVE CoolInv'
    OBVIOUS
  <1>1. CASE MainContinues
    BY <1>1, TakeKeeps, MeasureKeeps, DrainKeeps, ChapterKeeps, JoinKeeps, HandBackKeeps
       DEF MainContinues
  <1>2. CASE \E kind \in {"interrupt", "exit"} : Raise(kind)
    BY <1>2, RaiseKeeps
  <1>3. CASE HolderWrites \/ FancontrolWrites \/ JunctionMoves \/ GuardSamples \/ GuardReadsNothing
             \/ GuardDies
    BY <1>3, MachineKeeps
  <1>4. CASE \E w \in Threads : WorkerContinues(w)
    BY <1>4, ThreadKeeps DEF WorkerContinues
  <1>5. CASE UNCHANGED coolVars
    BY <1>5 DEF coolVars, mainVars, fanVars, capVars, loadVars, guardVars, CoolInv, CoolTypes,
                LateInv, GuardInv, HandInv, Idle
  <1> QED
    BY <1>1, <1>2, <1>3, <1>4, <1>5 DEF CoolNext

LEMMA CoolInvAlways == CoolSpec => []CoolInv
  BY CoolInvInit, CoolInvStep, PTL DEF CoolSpec

\* HandedBack: tools/bench_cooling_ab.py gives the fan channel back to fancontrol and
\* the power cap back to the card, whatever number of signals and failed writes ends
\* the run, unless one of them comes between a hand-over's mark and its write.
THEOREM ControlIsHandedBack == CoolSpec => []HandedBack
  <1>1. CoolInv => HandedBack
    BY DEF CoolInv, CoolTypes, HandInv, HandedBack
  <1> QED
    BY <1>1, CoolInvAlways, PTL

\* LoadIsGuarded: the guard is not stopped while the loader or the pool has a
\* thread, unless an exception left it running, and a thread submits once at most
\* after the guard trips.
THEOREM LoadIsAlwaysGuarded == CoolSpec => []LoadIsGuarded
  <1>1. ASSUME CoolInv PROVE LoadIsGuarded
    <2>1. CoolTypeOK
      BY <1>1 DEF CoolInv, CoolTypes, CoolTypeOK
    <2>2. \A w \in Threads : late[w] <= 1
      BY <1>1 DEF CoolInv, LateInv
    <2>3. ASSUME ~Idle, ~adrift
          PROVE  guard # "off" /\ ~stopGuard
      BY <1>1, <2>3 DEF CoolInv, GuardInv, LoadPlaces, FinallyPlaces
    <2> QED
      BY <2>1, <2>2, <2>3 DEF LoadIsGuarded
  <1> QED
    BY <1>1, CoolInvAlways, PTL
-----------------------------------------------------------------------------
(* CompareStore: the stores of the compare tool.                            *)

\* The pages Opens and Dumps still have to write, and the one they write next.
Due(p) == size[p] > 0 /\ Merged(p) # Nothing
NextPage == CHOOSE p \in rest : TRUE

\* What one model read of n texts, on some device.
RowsOf(by, n) == \A m \in DOMAIN by : by[m].n = n /\ by[m].on # {}

\* A file: missing, torn by a pass that was cut short, or answers to a question.
FileOK(k, f) ==
    \/ f \in {Absent, Torn}
    \/ /\ f.q \in Questions /\ f.n \in Nat /\ f.n > 0
       /\ DOMAIN f.by \in (SUBSET Models[k]) \ {{}}
       /\ k # "batch" => RowsOf(f.by, f.n)

TornFiles == {kp \in Kinds \X Pages : file[kp[1]][kp[2]] = Torn}

StoreTypes ==
    /\ at \in {"idle", "load", "pages", "merge", "dump", "done"}
    /\ pass.kind \in Kinds /\ pass.only \subseteq Models[pass.kind]
    /\ at # "idle" => pass.q \in Questions
    /\ size \in [Pages -> Nat] /\ rest \subseteq Pages /\ cuts \in Nat
    /\ file = [k \in Kinds |-> [p \in Pages |-> file[k][p]]]
    /\ crops = [p \in Pages |-> crops[p]]
    /\ panels = [p \in Pages |-> panels[p]]
    /\ run = [p \in Pages |-> run[p]]
    /\ \A k \in Kinds, p \in Pages : FileOK(k, file[k][p])
    /\ \A t \in todo : t[1] \in pass.only

\* What this pass found out, page by page.
RunInv ==
    /\ \A p \in Pages :
         /\ DOMAIN run[p] \subseteq pass.only /\ RowsOf(run[p], size[p])
         /\ DOMAIN run[p] # {} => size[p] > 0
         /\ pass.kind = "batch" => DOMAIN run[p] \subseteq panels[p]
    /\ at = "pages" => model[1] \in pass.only /\ \A p \in rest : size[p] > 0
    /\ at # "idle" /\ pass.kind = "ocr" =>
         \A p \in Pages : crops[p] = [q |-> pass.q, n |-> size[p]]

\* What earlier passes found out, until this one is done.
PrevInv ==
    at \in {"load", "pages", "merge", "dump"} =>
      \A p \in Pages :
        /\ prev[p] = IF pass.kind # "batch" /\ Answers(before[p], pass.q, size[p])
                       THEN before[p].by ELSE Nothing
        /\ DOMAIN prev[p] \subseteq Models[pass.kind] /\ RowsOf(prev[p], size[p])

\* The files that are written say what this pass and the earlier ones found out.
WrittenInv ==
    /\ at \in {"merge", "dump"} =>
         /\ \A p \in rest : Due(p)
         /\ \A p \in Pages \ rest :
              Due(p) => file[pass.kind][p] = [q |-> pass.q, n |-> size[p], by |-> Merged(p)]
    /\ at = "dump" => rest # {} /\ file[pass.kind][NextPage] = Torn
    /\ at = "done" =>
         \A p \in Pages :
           LET f == file[pass.kind][p]
               old == IF pass.kind # "batch" /\ Answers(before[p], pass.q, size[p])
                        THEN DOMAIN before[p].by ELSE {}
               due == DOMAIN run[p] \cup (IF size[p] > 0 THEN old ELSE {})
           IN  due # {} => /\ Readable(f) /\ due \subseteq DOMAIN f.by
                           /\ f.q = pass.q /\ f.n = size[p]

\* A cut costs one file at most.
TornInv ==
    /\ IsFiniteSet(TornFiles)
    /\ Cardinality(TornFiles) <= cuts + (IF at = "dump" THEN 1 ELSE 0)

StoreInv == StoreTypes /\ RunInv /\ PrevInv /\ WrittenInv /\ TornInv
-----------------------------------------------------------------------------
(* The operators.                                                          *)

\* Absent and Torn answer no question.
LEMMA FileIsReadable ==
    ASSUME NEW f, f.q \in Questions
    PROVE  Readable(f)
  BY QuestionsAreNamed DEF Readable, Absent, Torn

LEMMA TornIsNotAbsent == Torn # Absent /\ ~Readable(Torn) /\ ~Readable(Absent)
  BY DEF Readable, Absent, Torn

\* However _chunk_texts groups the texts of a page, every text is in a group.
LEMMA EveryTextIsAsked ==
    ASSUME NEW n \in Nat
    PROVE  UNION ChunkTexts(n) = 1..n
  <1> DEFINE group(f) == {i \in 1..n : Chunks(n)[i] = f}
  <1>1. ChunkTexts(n) = {group(f) : f \in {Chunks(n)[j] : j \in 1..n}}
    BY DEF ChunkTexts
  <1>2. ASSUME NEW i \in 1..n PROVE i \in UNION ChunkTexts(n)
    <2>1. i \in group(Chunks(n)[i]) /\ group(Chunks(n)[i]) \in ChunkTexts(n)
      BY <1>1
    <2> QED
      BY <2>1
  <1>3. ASSUME NEW i \in UNION ChunkTexts(n) PROVE i \in 1..n
    BY <1>1, <1>3
  <1> QED
    BY <1>2, <1>3

\* translate gets an answer per text, as the other passes do.
LEMMA EveryTextIsAnswered ==
    ASSUME NEW k, NEW n \in Nat
    PROVE  Answered(k, n) = n
  <1>1. Cardinality(1..n) = n
    BY FS_Interval
  <1> QED
    BY <1>1, EveryTextIsAsked DEF Answered

\* translate reads as many texts as the recognizer's file has rows.
LEMMA SourceTextsAreRows ==
    ASSUME NEW f, FileOK("ocr", f)
    PROVE  SourceTexts(f) \in Nat
  BY DEF SourceTexts, FileOK, Readable, RowsOf

\* _run_available gives adapters of its kind.
LEMMA AvailableAreModels ==
    ASSUME NEW k, NEW named
    PROVE  RunAvailable(k, named) \subseteq Models[k]
  BY DEF RunAvailable

\* A page nobody found anything out about has an empty merge.
LEMMA MergedDomain ==
    ASSUME NEW p
    PROVE  /\ DOMAIN Merged(p) = IF pass.kind = "batch" THEN panels[p] \cap pass.only
                                 ELSE DOMAIN run[p] \cup DOMAIN prev[p]
           /\ Merged(p) = Nothing <=> DOMAIN Merged(p) = {}
  BY DEF Merged, Nothing

LEMMA NextPageIsDue == rest # {} => NextPage \in rest
  BY DEF NextPage

\* What a write to one page's file leaves of the others.
Writes(p, x) == file' = [file EXCEPT ![pass.kind][p] = x]

LEMMA OneFileWritten ==
    ASSUME StoreTypes, NEW p \in Pages, NEW x, Writes(p, x)
    PROVE  /\ file' = [k \in Kinds |-> [r \in Pages |-> file'[k][r]]]
           /\ \A k \in Kinds, r \in Pages :
                file'[k][r] = IF k = pass.kind /\ r = p THEN x ELSE file[k][r]
  <1>1. pass.kind \in Kinds /\ file = [k \in Kinds |-> [r \in Pages |-> file[k][r]]]
    BY DEF StoreTypes
  <1>2. file' = [k \in Kinds |-> IF k = pass.kind THEN [file[k] EXCEPT ![p] = x] ELSE file[k]]
    BY <1>1 DEF Writes
  <1>3. \A k \in Kinds : file[k] = [r \in Pages |-> file[k][r]]
    BY <1>1
  <1>4. file' = [k \in Kinds |-> [r \in Pages |-> IF k = pass.kind /\ r = p THEN x ELSE file[k][r]]]
    BY <1>2, <1>3
  <1>5. ASSUME NEW k \in Kinds
        PROVE  file'[k] = [r \in Pages |-> IF k = pass.kind /\ r = p THEN x ELSE file[k][r]]
    BY <1>4
  <1>6. ASSUME NEW k \in Kinds
        PROVE  /\ \A r \in Pages :
                    file'[k][r] = IF k = pass.kind /\ r = p THEN x ELSE file[k][r]
               /\ file'[k] = [r \in Pages |-> file'[k][r]]
    <2> DEFINE g == file'[k]
    <2>1. g = [r \in Pages |-> IF k = pass.kind /\ r = p THEN x ELSE file[k][r]]
      BY <1>5
    <2> HIDE DEF g
    <2>2. /\ \A r \in Pages : g[r] = IF k = pass.kind /\ r = p THEN x ELSE file[k][r]
          /\ g = [r \in Pages |-> g[r]]
      BY <2>1
    <2> QED
      BY <2>2 DEF g
  <1>7. file' = [k \in Kinds |-> file'[k]]
    BY <1>4
  <1> QED
    BY <1>6, <1>7
-----------------------------------------------------------------------------
(* The steps.                                                              *)

\* The number of torn files is kept when no file is written.
LEMMA TornKeeps ==
    ASSUME StoreInv, UNCHANGED <<file, cuts>>, at # "dump" \/ at' = "dump"
    PROVE  TornInv'
  <1>1. Cardinality(TornFiles) \in Nat /\ cuts \in Nat
    BY FS_CardinalityType DEF StoreInv, StoreTypes, TornInv
  <1>2. TornFiles' = TornFiles
    BY DEF TornFiles
  <1> QED
    BY <1>1, <1>2 DEF StoreInv, TornInv

LEMMA StartKeeps ==
    ASSUME StoreInv, StartsPass
    PROVE  StoreInv'
  <1>0. PICK k \in Kinds, resume \in BOOLEAN :
          \E named \in SUBSET Models[k], q \in Questions, n \in Counts :
            Start(k, RunAvailable(k, named), q, Devices, n, resume)
    BY DEF StartsPass
  <1>1. PICK named \in SUBSET Models[k], q \in Questions, n \in Counts :
          Start(k, RunAvailable(k, named), q, Devices, n, resume)
    BY <1>0
  <1> DEFINE only == RunAvailable(k, named)
             sizes == [p \in Pages |-> CASE k = "ocr" -> n
                                          [] k = "batch" -> 1
                                          [] OTHER -> SourceTexts(file["ocr"][p])]
  <1>2. /\ at \in {"idle", "done"} /\ at' = "load"
        /\ pass' = [kind |-> k, only |-> only, q |-> q, devices |-> Devices, resume |-> resume]
        /\ size' = sizes
        /\ prev' = [p \in Pages |-> IF k # "batch" /\ Answers(file[k][p], q, sizes[p])
                                     THEN file[k][p].by ELSE Nothing]
        /\ run' = [p \in Pages |-> Nothing]
        /\ todo' = UNION {{m} \X RunDevices(k, m, Devices) : m \in only}
        /\ rest' = {} /\ before' = file[k] /\ SavesCrops(k, q, n)
        /\ UNCHANGED <<file, panels, cuts>>
    BY <1>1 DEF Start
  <1>3. only \subseteq Models[k]
    BY AvailableAreModels
  <1>4. \A p \in Pages : FileOK(k, file[k][p]) /\ FileOK("ocr", file["ocr"][p])
    BY DEF StoreInv, StoreTypes, Kinds
  <1>5. sizes \in [Pages -> Nat]
    <2>1. n \in Nat
      BY StoreBoundsAreNat
    <2>2. \A p \in Pages : SourceTexts(file["ocr"][p]) \in Nat
      BY <1>4, SourceTextsAreRows
    <2>3. \A p \in Pages : (CASE k = "ocr" -> n [] k = "batch" -> 1
                              [] OTHER -> SourceTexts(file["ocr"][p])) \in Nat
      BY <2>1, <2>2, Zenon DEF Kinds
    <2> QED
      BY <2>3
  <1>6. \A t \in todo' : t[1] \in only
    BY <1>2
  <1> HIDE DEF only, sizes
  <1>7. StoreTypes'
    <2>1. /\ pass'.kind = k /\ pass'.only = only /\ pass'.q = q
          /\ run' = [p \in Pages |-> run'[p]] /\ crops' = [p \in Pages |-> crops'[p]]
      BY <1>2 DEF SavesCrops, StoreInv, StoreTypes
    <2> QED
      BY <1>2, <1>3, <1>5, <1>6, <2>1 DEF StoreInv, StoreTypes
  <1>8. RunInv'
    <2>1. \A p \in Pages : run'[p] = Nothing /\ DOMAIN run'[p] = {}
      BY <1>2 DEF Nothing
    <2>2. k = "ocr" => \A p \in Pages : crops'[p] = [q |-> q, n |-> size'[p]]
      BY <1>2 DEF SavesCrops, sizes
    <2> QED
      BY <1>2, <2>1, <2>2 DEF RunInv, RowsOf
  <1>9. PrevInv'
    <2> SUFFICES ASSUME NEW p \in Pages
                 PROVE  /\ prev'[p] = IF pass'.kind # "batch" /\ Answers(before'[p], pass'.q, size'[p])
                                         THEN before'[p].by ELSE Nothing
                        /\ DOMAIN prev'[p] \subseteq Models[pass'.kind] /\ RowsOf(prev'[p], size'[p])
      BY DEF PrevInv, Answers, Readable
    <2>1. prev'[p] = IF k # "batch" /\ Answers(file[k][p], q, sizes[p])
                       THEN file[k][p].by ELSE Nothing
      BY <1>2
    <2>2. DOMAIN prev'[p] \subseteq Models[k] /\ RowsOf(prev'[p], sizes[p])
      BY <1>4, <2>1 DEF FileOK, Answers, Readable, RowsOf, Nothing
    <2> QED
      BY <1>2, <2>1, <2>2
  <1>10. WrittenInv'
    BY <1>2 DEF WrittenInv
  <1>11. TornInv'
    BY <1>2, TornKeeps
  <1> QED
    BY <1>7, <1>8, <1>9, <1>10, <1>11 DEF StoreInv

\* Loading a model, failing to, and leaving it: no file and no answer changes.
LEMMA LoadedKeeps ==
    ASSUME StoreInv, Loads \/ LoadFails \/ PageFails \/ ModelDone
    PROVE  StoreInv'
  <1>1. /\ at \in {"load", "pages"} /\ at' \in {"load", "pages"}
        /\ UNCHANGED <<pass, size, file, crops, panels, before, prev, run, cuts>>
    BY DEF Loads, LoadFails, PageFails, ModelDone, resultVars
  <1>2. /\ \A t \in todo' : t[1] \in pass.only
        /\ rest' \subseteq Pages
        /\ at' = "pages" => model'[1] \in pass.only /\ \A p \in rest' : size[p] > 0
    <2>1. CASE Loads
      BY <2>1 DEF Loads, Unseen, StoreInv, StoreTypes
    <2>2. CASE LoadFails
      BY <2>2 DEF LoadFails, StoreInv, StoreTypes
    <2>3. CASE PageFails
      BY <2>3 DEF PageFails, StoreInv, StoreTypes, RunInv
    <2>4. CASE ModelDone
      BY <2>4 DEF ModelDone, StoreInv, StoreTypes
    <2> QED
      BY <2>1, <2>2, <2>3, <2>4
  <1>3. StoreTypes'
    BY <1>1, <1>2 DEF StoreInv, StoreTypes
  <1>4. RunInv'
    BY <1>1, <1>2 DEF StoreInv, RunInv
  <1>5. PrevInv'
    BY <1>1 DEF StoreInv, PrevInv
  <1>6. WrittenInv'
    BY <1>1 DEF WrittenInv
  <1>7. TornInv'
    BY <1>1, TornKeeps
  <1> QED
    BY <1>3, <1>4, <1>5, <1>6, <1>7 DEF StoreInv

\* A page is answered: as many texts as it has, timed on one device more.
LEMMA AnswerKeeps ==
    ASSUME StoreInv, PageAnswered
    PROVE  StoreInv'
  <1> DEFINE p == NextPage
             m == model[1]
             devs == IF m \in DOMAIN run[p] THEN run[p][m].on ELSE {}
             row == [n |-> Answered(pass.kind, size[p]), on |-> devs \cup {model[2]}]
  <1>1. /\ at = "pages" /\ rest # {} /\ rest' = rest \ {p}
        /\ run' = [run EXCEPT ![p] = Put(@, m, row)]
        /\ panels' = IF pass.kind = "batch" THEN [panels EXCEPT ![p] = @ \cup {m}] ELSE panels
        /\ UNCHANGED <<at, pass, size, file, crops, prev, todo, model, before, cuts>>
    BY DEF PageAnswered, NextPage
  <1>2. p \in rest /\ p \in Pages /\ m \in pass.only /\ size[p] > 0 /\ size[p] \in Nat
    BY <1>1, NextPageIsDue DEF StoreInv, StoreTypes, RunInv
  <1>3. row.n = size[p] /\ row.on # {}
    BY <1>2, EveryTextIsAnswered
  <1> HIDE DEF p, m, row
  <1>4. /\ \A r \in Pages : run'[r] = IF r = p THEN Put(run[p], m, row) ELSE run[r]
        /\ \A r \in Pages : panels[r] \subseteq panels'[r]
        /\ pass.kind = "batch" => m \in panels'[p]
        /\ run' = [r \in Pages |-> run'[r]] /\ panels' = [r \in Pages |-> panels'[r]]
    <2>1. run = [r \in Pages |-> run[r]] /\ panels = [r \in Pages |-> panels[r]]
      BY DEF StoreInv, StoreTypes
    <2>2. \A r \in Pages : run'[r] = IF r = p THEN Put(run[p], m, row) ELSE run[r]
      BY <1>1, <1>2, <2>1
    <2>3. /\ \A r \in Pages : panels[r] \subseteq panels'[r]
          /\ pass.kind = "batch" => m \in panels'[p]
      BY <1>1, <1>2, <2>1
    <2>4. run' = [r \in Pages |-> run'[r]]
      BY <1>1, <2>1
    <2>5. panels' = [r \in Pages |-> panels'[r]]
      BY <1>1, <2>1
    <2> QED
      BY <2>2, <2>3, <2>4, <2>5
  <1>5. /\ DOMAIN Put(run[p], m, row) = DOMAIN run[p] \cup {m}
        /\ RowsOf(run[p], size[p]) => RowsOf(Put(run[p], m, row), size[p])
    BY <1>3 DEF Put, RowsOf
  <1>6. StoreTypes'
    BY <1>1, <1>4 DEF StoreInv, StoreTypes
  <1>7. RunInv'
    <2>1. ASSUME NEW r \in Pages
          PROVE  /\ DOMAIN run'[r] \subseteq pass.only /\ RowsOf(run'[r], size[r])
                 /\ DOMAIN run'[r] # {} => size[r] > 0
                 /\ pass.kind = "batch" => DOMAIN run'[r] \subseteq panels'[r]
      BY <1>2, <1>4, <1>5 DEF StoreInv, RunInv
    <2> QED
      BY <1>1, <2>1 DEF StoreInv, RunInv
  <1>8. PrevInv'
    BY <1>1 DEF StoreInv, PrevInv
  <1>9. WrittenInv'
    BY <1>1 DEF WrittenInv
  <1>10. TornInv'
    BY <1>1, TornKeeps
  <1> QED
    BY <1>6, <1>7, <1>8, <1>9, <1>10 DEF StoreInv

\* What a page's file is to say stays once the last model is done.
LEMMA MergedStays ==
    ASSUME UNCHANGED <<pass, size, panels, run, prev>>
    PROVE  \A p : Merged(p)' = Merged(p) /\ (Due(p)' <=> Due(p))
  BY DEF Merged, Due

\* Every page somebody found something out about is due.
LEMMA MergeKeeps ==
    ASSUME StoreInv, Merges
    PROVE  StoreInv'
  <1>1. /\ at = "load" /\ at' = "merge" /\ rest' = {p \in Pages : Due(p)}
        /\ UNCHANGED <<pass, size, file, crops, panels, before, prev, run, todo, model, cuts>>
    BY DEF Merges, resultVars, Due
  <1>2. StoreTypes'
    BY <1>1 DEF StoreInv, StoreTypes
  <1>3. RunInv'
    BY <1>1 DEF StoreInv, RunInv
  <1>4. PrevInv'
    BY <1>1 DEF StoreInv, PrevInv
  <1>5. WrittenInv'
    BY <1>1, MergedStays DEF WrittenInv
  <1>6. TornInv'
    BY <1>1, TornKeeps
  <1> QED
    BY <1>2, <1>3, <1>4, <1>5, <1>6 DEF StoreInv

\* A file that is opened is torn until it is written.
LEMMA OpenKeeps ==
    ASSUME StoreInv, Opens
    PROVE  StoreInv'
  <1>1. /\ at = "merge" /\ rest # {} /\ at' = "dump"
        /\ file' = [file EXCEPT ![pass.kind][NextPage] = Torn]
        /\ UNCHANGED <<pass, size, crops, panels, before, prev, run, todo, model, rest, cuts>>
    BY DEF Opens, NextPage
  <1>2. NextPage \in rest /\ NextPage \in Pages /\ NextPage' = NextPage /\ pass.kind \in Kinds
    BY <1>1, NextPageIsDue DEF StoreInv, StoreTypes, NextPage
  <1>3. /\ file' = [k \in Kinds |-> [r \in Pages |-> file'[k][r]]]
        /\ \A k \in Kinds, r \in Pages :
             file'[k][r] = IF k = pass.kind /\ r = NextPage THEN Torn ELSE file[k][r]
    <2>1. StoreTypes /\ NextPage \in Pages
      BY <1>2 DEF StoreInv
    <2>2. Writes(NextPage, Torn)
      BY <1>1 DEF Writes
    <2> QED
      BY <2>1, <2>2, OneFileWritten
  <1>4. StoreTypes'
    <2>1. ASSUME NEW k \in Kinds, NEW r \in Pages PROVE FileOK(k, file'[k][r])
      <3>1. CASE k = pass.kind /\ r = NextPage
        <4>1. file'[k][r] = Torn
          BY <1>3, <3>1
        <4> QED
          BY <3>1, <4>1 DEF FileOK
      <3>2. CASE ~(k = pass.kind /\ r = NextPage)
        <4>1. file'[k][r] = file[k][r]
          BY <1>3, <3>2
        <4> QED
          BY <4>1 DEF StoreInv, StoreTypes
      <3> QED
        BY <3>1, <3>2
    <2> QED
      BY <1>1, <1>3, <2>1 DEF StoreInv, StoreTypes
  <1>5. RunInv'
    BY <1>1 DEF StoreInv, RunInv
  <1>6. PrevInv'
    BY <1>1 DEF StoreInv, PrevInv
  <1>7. WrittenInv'
    BY <1>1, <1>2, <1>3, MergedStays DEF StoreInv, WrittenInv
  <1>8. TornInv'
    <2>1. TornFiles' = TornFiles \cup {<<pass.kind, NextPage>>}
      BY <1>2, <1>3 DEF TornFiles
    <2> DEFINE one == <<pass.kind, NextPage>>
    <2>2. IsFiniteSet(TornFiles) /\ Cardinality(TornFiles) \in Nat
      BY FS_CardinalityType DEF StoreInv, TornInv
    <2>9. /\ IsFiniteSet(TornFiles \cup {one})
          /\ Cardinality(TornFiles \cup {one}) =
               IF one \in TornFiles THEN Cardinality(TornFiles) ELSE Cardinality(TornFiles) + 1
      BY <2>2, FS_AddElement
    <2>3. /\ IsFiniteSet(TornFiles') /\ cuts \in Nat
          /\ Cardinality(TornFiles') \in Nat
          /\ Cardinality(TornFiles') <= Cardinality(TornFiles) + 1
      BY <2>1, <2>2, <2>9 DEF StoreInv, StoreTypes
    <2> QED
      BY <1>1, <2>2, <2>3 DEF StoreInv, TornInv
  <1> QED
    BY <1>4, <1>5, <1>6, <1>7, <1>8 DEF StoreInv

\* A file that is written is no longer torn, and says what was merged.
LEMMA DumpKeeps ==
    ASSUME StoreInv, Dumps
    PROVE  StoreInv'
  <1> DEFINE page == [q |-> pass.q, n |-> size[NextPage], by |-> Merged(NextPage)]
  <1>1. /\ at = "dump" /\ at' = "merge" /\ rest' = rest \ {NextPage}
        /\ file' = [file EXCEPT ![pass.kind][NextPage] = page]
        /\ UNCHANGED <<pass, size, crops, panels, before, prev, run, todo, model, cuts>>
    BY DEF Dumps, NextPage
  <1>2. /\ rest # {} /\ NextPage \in rest /\ NextPage \in Pages /\ pass.kind \in Kinds
        /\ pass.q \in Questions /\ Due(NextPage) /\ size[NextPage] \in Nat
    BY <1>1, NextPageIsDue DEF StoreInv, StoreTypes, WrittenInv
  <1>3. /\ file' = [k \in Kinds |-> [r \in Pages |-> file'[k][r]]]
        /\ \A k \in Kinds, r \in Pages :
             file'[k][r] = IF k = pass.kind /\ r = NextPage THEN page ELSE file[k][r]
    <2>1. StoreTypes /\ NextPage \in Pages
      BY <1>2 DEF StoreInv
    <2>2. Writes(NextPage, page)
      BY <1>1 DEF Writes
    <2> HIDE DEF page
    <2> QED
      BY <2>1, <2>2, OneFileWritten
  <1>4. /\ page.q \in Questions /\ page.n \in Nat /\ page.n > 0 /\ page # Torn
        /\ DOMAIN page.by \in (SUBSET Models[pass.kind]) \ {{}}
        /\ pass.kind # "batch" => RowsOf(page.by, page.n)
    <2>1. DOMAIN page.by # {}
      BY <1>2, MergedDomain DEF Due
    <2>2. DOMAIN page.by \subseteq Models[pass.kind]
      BY <1>1, <1>2, MergedDomain DEF StoreInv, StoreTypes, RunInv, PrevInv
    <2>3. pass.kind # "batch" => RowsOf(page.by, page.n)
      BY <1>1, <1>2 DEF StoreInv, RunInv, PrevInv, RowsOf, Merged
    <2>4. page # Torn
      BY <1>2, FileIsReadable, TornIsNotAbsent
    <2>5. page.q \in Questions /\ page.n \in Nat /\ page.n > 0
      BY <1>2 DEF Due
    <2>6. DOMAIN page.by \in (SUBSET Models[pass.kind]) \ {{}}
      BY <2>1, <2>2
    <2> QED
      BY <2>3, <2>4, <2>5, <2>6
  <1> HIDE DEF page
  <1>5. StoreTypes'
    <2>1. ASSUME NEW k \in Kinds, NEW r \in Pages PROVE FileOK(k, file'[k][r])
      <3>1. CASE k = pass.kind /\ r = NextPage
        <4>1. file'[k][r] = page
          BY <1>3, <3>1
        <4> QED
          BY <1>4, <3>1, <4>1 DEF FileOK
      <3>2. CASE ~(k = pass.kind /\ r = NextPage)
        <4>1. file'[k][r] = file[k][r]
          BY <1>3, <3>2
        <4> QED
          BY <4>1 DEF StoreInv, StoreTypes
      <3> QED
        BY <3>1, <3>2
    <2> QED
      BY <1>1, <1>3, <2>1 DEF StoreInv, StoreTypes
  <1>6. RunInv'
    BY <1>1 DEF StoreInv, RunInv
  <1>7. PrevInv'
    BY <1>1 DEF StoreInv, PrevInv
  <1>8. WrittenInv'
    <2>1. ASSUME NEW p \in Pages \ rest', Due(p)
          PROVE  file'[pass.kind][p] = [q |-> pass.q, n |-> size[p], by |-> Merged(p)]
      BY <1>1, <1>2, <1>3, <2>1 DEF StoreInv, WrittenInv, page
    <2> QED
      BY <1>1, <2>1, MergedStays DEF StoreInv, WrittenInv
  <1>9. TornInv'
    <2> DEFINE one == <<pass.kind, NextPage>>
    <2>1. one \in TornFiles
      BY <1>1, <1>2 DEF StoreInv, WrittenInv, TornFiles
    <2>2. TornFiles' = TornFiles \ {one}
      BY <1>2, <1>3, <1>4 DEF TornFiles
    <2>3. IsFiniteSet(TornFiles) /\ Cardinality(TornFiles) \in Nat
      BY FS_CardinalityType DEF StoreInv, TornInv
    <2>4. /\ IsFiniteSet(TornFiles \ {one})
          /\ Cardinality(TornFiles \ {one}) = Cardinality(TornFiles) - 1
      BY <2>1, <2>3, FS_RemoveElement
    <2>5. /\ IsFiniteSet(TornFiles') /\ cuts \in Nat
          /\ Cardinality(TornFiles') = Cardinality(TornFiles) - 1
      BY <2>2, <2>4 DEF StoreInv, StoreTypes
    <2> QED
      BY <1>1, <2>3, <2>5 DEF StoreInv, TornInv
  <1> QED
    BY <1>5, <1>6, <1>7, <1>8, <1>9 DEF StoreInv

\* When the last file is written, every page has all that was due.
LEMMA FinishKeeps ==
    ASSUME StoreInv, Finishes
    PROVE  StoreInv'
  <1>1. /\ at = "merge" /\ rest = {} /\ at' = "done"
        /\ UNCHANGED <<pass, size, file, crops, panels, before, run, todo, model, rest, cuts>>
    BY DEF Finishes, resultVars
  <1>2. StoreTypes'
    BY <1>1 DEF StoreInv, StoreTypes
  <1>3. RunInv'
    BY <1>1 DEF StoreInv, RunInv
  <1>4. PrevInv'
    BY <1>1 DEF PrevInv
  <1>5. WrittenInv'
    <2> SUFFICES ASSUME NEW p \in Pages
                 PROVE  LET f == file[pass.kind][p]
                            old == IF pass.kind # "batch" /\ Answers(before[p], pass.q, size[p])
                                     THEN DOMAIN before[p].by ELSE {}
                            due == DOMAIN run[p] \cup (IF size[p] > 0 THEN old ELSE {})
                        IN  due # {} => /\ Readable(f) /\ due \subseteq DOMAIN f.by
                                        /\ f.q = pass.q /\ f.n = size[p]
      BY <1>1 DEF WrittenInv, Answers, Readable
    <2> DEFINE f == file[pass.kind][p]
               old == IF pass.kind # "batch" /\ Answers(before[p], pass.q, size[p])
                        THEN DOMAIN before[p].by ELSE {}
               due == DOMAIN run[p] \cup (IF size[p] > 0 THEN old ELSE {})
    <2>1. due \subseteq DOMAIN Merged(p)
      <3>1. DOMAIN prev[p] = old
        BY <1>1 DEF StoreInv, PrevInv, Nothing
      <3>2. pass.kind = "batch" => DOMAIN run[p] \subseteq panels[p] \cap pass.only /\ old = {}
        BY DEF StoreInv, RunInv
      <3> QED
        BY <3>1, <3>2, MergedDomain
    <2>2. due # {} => size[p] > 0
      BY DEF StoreInv, RunInv
    <2> HIDE DEF due
    <2>3. due # {} => f = [q |-> pass.q, n |-> size[p], by |-> Merged(p)]
      BY <1>1, <2>1, <2>2, MergedDomain DEF StoreInv, WrittenInv, Due
    <2>4. pass.q \in Questions
      BY <1>1 DEF StoreInv, StoreTypes
    <2>5. due # {} => Readable(f) /\ due \subseteq DOMAIN f.by /\ f.q = pass.q /\ f.n = size[p]
      BY <2>1, <2>3, <2>4, FileIsReadable
    <2> QED
      BY <2>5 DEF due
  <1>6. TornInv'
    BY <1>1, TornKeeps
  <1> QED
    BY <1>2, <1>3, <1>4, <1>5, <1>6 DEF StoreInv

\* A cut while a file is open leaves it torn: one more cut, one more torn file.
LEMMA CutKeeps ==
    ASSUME StoreInv, CutShort
    PROVE  StoreInv'
  <1>1. /\ at # "idle" /\ at' = "idle" /\ cuts' = cuts + 1 /\ pass' = NoPass
        /\ size' = [p \in Pages |-> 0] /\ run' = [p \in Pages |-> Nothing]
        /\ todo' = {} /\ rest' = {}
        /\ UNCHANGED <<file, crops, panels, before>>
    BY DEF CutShort, resultVars
  <1>2. StoreTypes'
    BY <1>1 DEF StoreInv, StoreTypes, NoPass, Kinds
  <1>3. RunInv'
    BY <1>1 DEF RunInv, NoPass, Nothing, RowsOf
  <1>4. PrevInv' /\ WrittenInv'
    BY <1>1 DEF PrevInv, WrittenInv
  <1>5. TornInv'
    <2>1. TornFiles' = TornFiles
      BY <1>1 DEF TornFiles
    <2>2. Cardinality(TornFiles) \in Nat /\ cuts \in Nat
      BY FS_CardinalityType DEF StoreInv, StoreTypes, TornInv
    <2> QED
      BY <1>1, <2>1, <2>2 DEF StoreInv, TornInv
  <1> QED
    BY <1>2, <1>3, <1>4, <1>5 DEF StoreInv

LEMMA StoreInvInit == StoreInit => StoreInv
  <1> SUFFICES ASSUME StoreInit PROVE StoreInv
    OBVIOUS
  <1>1. PICK old \in {Absent} \cup {Read(n) : n \in Counts \ {0}} :
          file = [k \in Kinds |-> [p \in Pages |-> IF k = "ocr" THEN old ELSE Absent]]
    BY DEF StoreInit
  <1>2. FileOK("ocr", old) /\ old # Torn
    <2>1. ASSUME NEW n \in Counts \ {0}, old = Read(n)
          PROVE  /\ old.q \in Questions /\ old.n = n /\ n \in Nat /\ n > 0
                 /\ DOMAIN old.by = {Source} /\ RowsOf(old.by, n)
      BY <2>1, QuestionsAreNamed, SomeDeviceRuns, StoreBoundsAreNat DEF Read, RowsOf
    <2>2. ASSUME NEW n \in Counts \ {0}, old = Read(n)
          PROVE  FileOK("ocr", old) /\ old # Torn
      <3>1. DOMAIN old.by \in (SUBSET Models["ocr"]) \ {{}}
        BY <2>1, <2>2, ModelsHaveKinds
      <3>2. Readable(old)
        BY <2>1, <2>2, FileIsReadable
      <3> QED
        BY <2>1, <2>2, <3>1, <3>2, TornIsNotAbsent DEF FileOK
    <2> QED
      BY <2>2, TornIsNotAbsent DEF FileOK
  <1>3. /\ at = "idle" /\ pass = NoPass /\ size = [p \in Pages |-> 0]
        /\ crops = [p \in Pages |-> [q |-> file["ocr"][p].q, n |-> file["ocr"][p].n]]
        /\ panels = [p \in Pages |-> {}] /\ run = [p \in Pages |-> Nothing]
        /\ todo = {} /\ rest = {} /\ cuts = 0
    BY DEF StoreInit
  <1>4. StoreTypes
    <2>1. \A k \in Kinds, p \in Pages : FileOK(k, file[k][p])
      BY <1>1, <1>2 DEF FileOK
    <2>2. file = [k \in Kinds |-> [p \in Pages |-> file[k][p]]]
      BY <1>1
    <2> QED
      BY <1>3, <2>1, <2>2 DEF StoreTypes, NoPass, Kinds
  <1>5. RunInv
    BY <1>3 DEF RunInv, NoPass, Nothing, RowsOf
  <1>6. PrevInv /\ WrittenInv
    BY <1>3 DEF PrevInv, WrittenInv
  <1>7. TornInv
    <2>1. TornFiles = {}
      BY <1>1, <1>2, TornIsNotAbsent DEF TornFiles
    <2> QED
      BY <1>3, <2>1, FS_EmptySet DEF TornInv
  <1> QED
    BY <1>4, <1>5, <1>6, <1>7 DEF StoreInv

LEMMA StoreInvStep == StoreInv /\ [StoreNext]_storeVars => StoreInv'
  <1> SUFFICES ASSUME StoreInv, [StoreNext]_storeVars PROVE StoreInv'
    OBVIOUS
  <1>1. CASE StoreNext
    BY <1>1, StartKeeps, LoadedKeeps, AnswerKeeps, MergeKeeps, OpenKeeps, DumpKeeps, FinishKeeps,
       CutKeeps DEF StoreNext, PassContinues
  <1>2. CASE UNCHANGED storeVars
    <2>1. UNCHANGED <<at, pass, size, file, crops, panels, before, prev, run, todo, model, rest, cuts>>
      BY <1>2 DEF storeVars
    <2>2. StoreTypes' /\ RunInv' /\ PrevInv'
      BY <2>1 DEF StoreInv, StoreTypes, RunInv, PrevInv
    <2>3. WrittenInv'
      BY <2>1, MergedStays DEF StoreInv, WrittenInv, NextPage
    <2>4. TornInv'
      BY <2>1, TornKeeps
    <2> QED
      BY <2>2, <2>3, <2>4 DEF StoreInv
  <1> QED
    BY <1>1, <1>2

\* StoresKeepAnswers: whatever passes a user of tools/compare runs, and wherever they
\* fail or are cut short, every file has its rows aligned, a pass that ends has kept
\* what its pages' files said, and a cut costs at most the file being written.
THEOREM AnswersAreKept == StoreSpec => []StoresKeepAnswers
  <1>1. ASSUME StoreInv PROVE StoresKeepAnswers
    <2>1. \A k \in Kinds, p \in Pages : FileOK(k, file[k][p])
      BY <1>1 DEF StoreInv, StoreTypes
    <2>2. StoreTypeOK
      BY <1>1, <2>1 DEF StoreInv, StoreTypes, RunInv, StoreTypeOK, FileOK, Readable
    <2>3. ASSUME NEW k \in Kinds \ {"batch"}, NEW p \in Pages, NEW m \in Columns(k, p)
          PROVE  /\ file[k][p].by[m].n = RowCount(k, p) /\ RowCount(k, p) = file[k][p].n
                 /\ file[k][p].by[m].on # {}
      <3> DEFINE f == file[k][p]
      <3>1. Readable(f) /\ m \in DOMAIN f.by
        BY <2>3 DEF Columns
      <3>2. FileOK(k, f)
        BY <2>1
      <3> HIDE DEF f
      <3>3. RowsOf(f.by, f.n) /\ f.n \in Nat
        BY <3>1, <3>2 DEF FileOK, Readable
      <3>4. RowCount(k, p) = f.n
        <4>1. CASE k = "translate"
          BY <4>1 DEF RowCount, f
        <4>2. CASE k # "translate"
          <5>1. Columns(k, p) = DOMAIN f.by
            BY <3>1 DEF Columns, f
          <5>2. {f.by[x].n : x \in Columns(k, p)} = {f.n}
            BY <3>1, <3>3, <5>1 DEF RowsOf
          <5>3. (CHOOSE n \in {f.n} : \A l \in {f.n} : l <= n) = f.n
            BY <3>3
          <5> QED
            BY <4>2, <5>2, <5>3 DEF RowCount, f
        <4> QED
          BY <4>1, <4>2
      <3> QED
        BY <3>1, <3>3, <3>4 DEF RowsOf, f
    <2>4. ASSUME at = "done", pass.kind = "ocr", NEW p \in Pages, DOMAIN run[p] # {}
          PROVE  crops[p] = [q |-> file["ocr"][p].q, n |-> file["ocr"][p].n]
      BY <1>1, <2>4 DEF StoreInv, RunInv, WrittenInv
    <2>5. RowsAlign
      BY <2>3, <2>4 DEF RowsAlign
    <2>6. Accumulates
      BY <1>1 DEF StoreInv, WrittenInv, Accumulates
    <2> QED
      BY <1>1, <2>2, <2>5, <2>6 DEF StoreInv, TornInv, TornFiles, StoresKeepAnswers
  <1> QED
    BY <1>1, StoreInvInit, StoreInvStep, PTL DEF StoreSpec
-----------------------------------------------------------------------------
(* RunReport: replacing in a text.                                         *)

\* t begins with old.
Begins(t, old) == Len(old) <= Len(t) /\ \A k \in 1..Len(old) : t[k] = old[k]

\* f[n] is what the last n characters of t become.
Replaces(t, old, new, m, f) ==
    f = [n \in 0..m |->
           IF n = 0 THEN <<>>
           ELSE IF Len(old) <= n /\ SubSeq(t, Len(t) - n + 1, Len(t) - n + Len(old)) = old
             THEN new \o f[n - Len(old)]
           ELSE <<t[Len(t) - n + 1]>> \o f[n - 1]]

LEMMA ReplacesExist ==
    ASSUME NEW t, NEW old, Len(old) \in Nat \ {0}, NEW new, NEW m \in Nat
    PROVE \E f : Replaces(t, old, new, m, f)
  <1> DEFINE T == {k \in Nat : ~\E f : Replaces(t, old, new, k, f)}
             Old(n) == SubSeq(t, Len(t) - n + 1, Len(t) - n + Len(old)) = old
             Next(f, n) == IF n = 0 THEN <<>>
                           ELSE IF Len(old) <= n /\ Old(n) THEN new \o f[n - Len(old)]
                           ELSE <<t[Len(t) - n + 1]>> \o f[n - 1]
  <1>1. \A k, f : Replaces(t, old, new, k, f) <=> f = [n \in 0..k |-> Next(f, n)]
    BY DEF Replaces
  <1>2. SUFFICES ASSUME T # {} PROVE FALSE
    OBVIOUS
  <1>3. PICK k \in T : \A l \in T : k <= l
    <2>1. T \subseteq Nat
      OBVIOUS
    <2> HIDE DEF T
    <2> QED
      BY <1>2, <2>1, LeastExists
  <1>4. CASE k = 0
    <2> DEFINE f == [n \in 0..0 |-> <<>>]
    <2>1. f = [n \in 0..0 |-> Next(f, n)]
      <3>1. \A n \in 0..0 : n = 0
        OBVIOUS
      <3> QED
        BY <3>1
    <2> HIDE DEF f, Next
    <2> QED
      BY <1>1, <1>3, <1>4, <2>1
  <1>5. CASE k # 0
    <2>1. k \in Nat /\ k - 1 \in Nat /\ k - 1 \notin T
      BY <1>3, <1>5
    <2>2. PICK g : Replaces(t, old, new, k - 1, g)
      BY <2>1
    <2> DEFINE f == [n \in 0..k |-> IF n = k THEN Next(g, k) ELSE g[n]]
    <2>3. \A n \in 0..k - 1 : f[n] = g[n] /\ g[n] = Next(g, n)
      <3>1. \A n \in 0..k - 1 : f[n] = g[n]
        BY <2>1
      <3> HIDE DEF f, Next
      <3>2. g = [n \in 0..k - 1 |-> Next(g, n)]
        BY <1>1, <2>2
      <3>3. \A n \in 0..k - 1 : g[n] = Next(g, n)
        BY <3>2
      <3> QED
        BY <3>1, <3>3
    <2>4. f[k] = Next(g, k) /\ f = [n \in 0..k |-> f[n]]
      BY <2>1
    <2>5. ASSUME NEW n \in 0..k PROVE Next(f, n) = Next(g, n)
      <3> HIDE DEF f
      <3>1. n # 0 => n - 1 \in 0..k - 1
        BY <2>1
      <3>2. n # 0 /\ Len(old) <= n => n - Len(old) \in 0..k - 1
        BY <2>1
      <3> HIDE DEF Old
      <3> QED
        BY <2>3, <3>1, <3>2
    <2>6. \A n \in 0..k : f[n] = Next(f, n)
      <3> HIDE DEF f, Next
      <3>1. \A n \in 0..k : n = k \/ n \in 0..k - 1
        BY <2>1
      <3> QED
        BY <2>3, <2>4, <2>5, <3>1
    <2> HIDE DEF f, Next
    <2>7. f = [n \in 0..k |-> Next(f, n)]
      BY <2>4, <2>6
    <2> QED
      BY <1>1, <1>3, <2>7
  <1> QED
    BY <1>4, <1>5

\* Replace's equation.
LEMMA ReplaceUnfolds ==
    ASSUME NEW t, Len(t) \in Nat, NEW old, Len(old) \in Nat \ {0}, NEW new
    PROVE \E f : Replace(t, old, new) = f[Len(t)] /\ Replaces(t, old, new, Len(t), f)
  <1>1. \E f : Replaces(t, old, new, Len(t), f)
    BY ReplacesExist
  <1> DEFINE f == CHOOSE g : Replaces(t, old, new, Len(t), g)
  <1>2. Replaces(t, old, new, Len(t), f)
    BY <1>1
  <1>3. Replace(t, old, new) = f[Len(t)]
    BY DEF Replace, Replaces
  <1> HIDE DEF f
  <1> QED
    BY <1>2, <1>3

\* What becomes of a text's end is not decided by its beginning.
LEMMA ReplacesTheEnd ==
    ASSUME NEW S, NEW a \in Seq(S), NEW u \in Seq(S), NEW old \in Seq(S), old # <<>>, NEW new,
           NEW f, Replaces(a \o u, old, new, Len(a) + Len(u), f),
           NEW g, Replaces(u, old, new, Len(u), g), NEW n \in 0..Len(u)
    PROVE f[n] = g[n]
  <1> DEFINE t == a \o u
             T == {k \in 0..Len(u) : f[k] # g[k]}
  <1>1. /\ Len(a) \in Nat /\ Len(u) \in Nat /\ Len(old) \in Nat /\ Len(old) > 0
        /\ Len(t) = Len(a) + Len(u)
        /\ \A i \in 1..Len(a) + Len(u) : t[i] = IF i <= Len(a) THEN a[i] ELSE u[i - Len(a)]
    BY EmptySeq, LenProperties, ConcatProperties
  <1>2. ASSUME NEW k \in 1..Len(u)
        PROVE /\ t[Len(t) - k + 1] = u[Len(u) - k + 1]
              /\ Len(old) <= k => SubSeq(t, Len(t) - k + 1, Len(t) - k + Len(old))
                                    = SubSeq(u, Len(u) - k + 1, Len(u) - k + Len(old))
    <2> DEFINE i == Len(t) - k + 1
               j == Len(t) - k + Len(old)
    <2>1. i \in Len(a) + 1..Len(a) + Len(u) /\ i - Len(a) = Len(u) - k + 1
      BY <1>1
    <2>2. Len(old) <= k => /\ j \in Len(a) + 1..Len(a) + Len(u)
                           /\ j - Len(a) = Len(u) - k + Len(old)
      BY <1>1
    <2>3. t[i] = u[i - Len(a)]
      <3>1. i \in 1..Len(a) + Len(u) /\ ~(i <= Len(a))
        BY <1>1, <2>1
      <3> HIDE DEF i, t
      <3> QED
        BY <1>1, <3>1
    <2> HIDE DEF i, j
    <2>4. Len(old) <= k => SubSeq(t, i, j) = SubSeq(u, i - Len(a), j - Len(a))
      BY <2>1, <2>2, SubSeqOfConcat2
    <2> QED
      BY <2>1, <2>2, <2>3, <2>4 DEF i, j
  <1> HIDE DEF t
  <1>3. \A k \in 0..Len(t) : f[k] =
          IF k = 0 THEN <<>>
          ELSE IF Len(old) <= k /\ SubSeq(t, Len(t) - k + 1, Len(t) - k + Len(old)) = old
             THEN new \o f[k - Len(old)]
          ELSE <<t[Len(t) - k + 1]>> \o f[k - 1]
    BY <1>1 DEF Replaces, t
  <1>4. \A k \in 0..Len(u) : g[k] =
          IF k = 0 THEN <<>>
          ELSE IF Len(old) <= k /\ SubSeq(u, Len(u) - k + 1, Len(u) - k + Len(old)) = old
             THEN new \o g[k - Len(old)]
          ELSE <<u[Len(u) - k + 1]>> \o g[k - 1]
    BY DEF Replaces
  <1>5. SUFFICES ASSUME T # {} PROVE FALSE
    OBVIOUS
  <1>6. PICK k \in T : \A l \in T : k <= l
    <2>1. T \subseteq Nat
      BY <1>1
    <2> HIDE DEF T
    <2> QED
      BY <1>5, <2>1, LeastExists
  <1>7. k \in 0..Len(u) /\ k \in 0..Len(t) /\ f[k] # g[k]
    BY <1>1, <1>6
  <1>8. \A l \in 0..Len(u) : l < k => f[l] = g[l]
    BY <1>1, <1>6
  <1>9. CASE k = 0
    BY <1>3, <1>4, <1>7, <1>9
  <1>10. CASE k # 0
    <2>1. k \in 1..Len(u) /\ k - 1 \in 0..Len(u) /\ k - 1 < k
      BY <1>1, <1>7, <1>10
    <2>2. Len(old) <= k => k - Len(old) \in 0..Len(u) /\ k - Len(old) < k
      BY <1>1, <2>1
    <2>3. f[k - 1] = g[k - 1] /\ (Len(old) <= k => f[k - Len(old)] = g[k - Len(old)])
      BY <1>8, <2>1, <2>2
    <2> DEFINE x == SubSeq(t, Len(t) - k + 1, Len(t) - k + Len(old))
               y == SubSeq(u, Len(u) - k + 1, Len(u) - k + Len(old))
               c == t[Len(t) - k + 1]
               d == u[Len(u) - k + 1]
    <2>4. c = d /\ (Len(old) <= k => x = y)
      BY <1>2, <2>1
    <2>5. f[k] = IF Len(old) <= k /\ x = old THEN new \o f[k - Len(old)] ELSE <<c>> \o f[k - 1]
      BY <1>3, <1>7, <1>10
    <2>6. g[k] = IF Len(old) <= k /\ y = old THEN new \o g[k - Len(old)] ELSE <<d>> \o g[k - 1]
      BY <1>4, <1>7, <1>10
    <2> HIDE DEF x, y, c, d
    <2> QED
      BY <1>7, <2>3, <2>4, <2>5, <2>6
  <1> QED
    BY <1>9, <1>10

\* A text that begins with what is to be replaced, and one that does not.
LEMMA ReplaceUnfoldsFirst ==
    ASSUME NEW S, NEW a \in Seq(S), a # <<>>, NEW u \in Seq(S), NEW old \in Seq(S), old # <<>>,
           NEW new
    PROVE /\ ~Begins(a \o u, old) /\ Len(a) = 1
               => Replace(a \o u, old, new) = <<a[1]>> \o Replace(u, old, new)
          /\ a = old => Replace(a \o u, old, new) = new \o Replace(u, old, new)
  <1> DEFINE t == a \o u
             n == Len(t)
  <1>1. /\ Len(a) \in Nat /\ Len(a) > 0 /\ Len(u) \in Nat /\ Len(old) \in Nat \ {0}
        /\ n = Len(a) + Len(u) /\ t \in Seq(S)
        /\ \A i \in 1..n : t[i] = IF i <= Len(a) THEN a[i] ELSE u[i - Len(a)]
    BY EmptySeq, LenProperties, ConcatProperties
  <1>2. Len(a \o u) \in Nat
    BY <1>1
  <1>3. PICK f : /\ Replace(a \o u, old, new) = f[Len(a \o u)]
                 /\ Replaces(a \o u, old, new, Len(a \o u), f)
    BY <1>1, <1>2, ReplaceUnfolds
  <1>4. PICK g : Replace(u, old, new) = g[Len(u)] /\ Replaces(u, old, new, Len(u), g)
    BY <1>1, ReplaceUnfolds
  <1>5. f[Len(u)] = g[Len(u)]
    <2>1. Len(u) \in 0..Len(u)
      BY <1>1
    <2>2. Replaces(a \o u, old, new, Len(a) + Len(u), f)
      BY <1>1, <1>3
    <2> HIDE DEF t, n
    <2> QED
      BY <1>4, <2>1, <2>2, ReplacesTheEnd
  <1>6. f[n] = IF Len(old) <= n /\ SubSeq(t, 1, Len(old)) = old
                 THEN new \o f[n - Len(old)] ELSE <<t[1]>> \o f[n - 1]
    <2>1. n \in 0..n /\ n # 0 /\ n - n = 0 /\ 0 + 1 = 1 /\ 0 + Len(old) = Len(old)
      BY <1>1
    <2>2. f[n] = IF n = 0 THEN <<>>
           ELSE IF Len(old) <= n /\ SubSeq(t, n - n + 1, n - n + Len(old)) = old
             THEN new \o f[n - Len(old)]
           ELSE <<t[n - n + 1]>> \o f[n - 1]
      BY <1>3, <2>1 DEF Replaces
    <2> HIDE DEF t, n
    <2> QED
      BY <2>1, <2>2
  <1>7. Len(old) <= n => (SubSeq(t, 1, Len(old)) = old <=> \A k \in 1..Len(old) : t[k] = old[k])
    <2> DEFINE s == SubSeq(t, 1, Len(old))
    <2> HIDE DEF t, n
    <2>1. SUFFICES ASSUME Len(old) <= n PROVE s = old <=> \A k \in 1..Len(old) : t[k] = old[k]
      OBVIOUS
    <2>2. \A i \in 1..Len(old) : t[i] \in S
      <3>1. \A i \in 1..n : t[i] \in S
        BY <1>1, ElementOfSeq DEF n
      <3> QED
        BY <1>1, <2>1, <3>1
    <2>3. /\ s \in Seq(S) /\ Len(s) = Len(old)
          /\ \A i \in 1..Len(old) : s[i] = t[i]
      <3>1. /\ s \in Seq(S) /\ Len(s) = (IF 1 <= Len(old) THEN Len(old) - 1 + 1 ELSE 0)
            /\ \A i \in 1..Len(old) - 1 + 1 : s[i] = t[1 + i - 1]
        BY <1>1, <2>2, SubSeqProperties
      <3> HIDE DEF s
      <3>2. Len(old) - 1 + 1 = Len(old) /\ \A i \in 1..Len(old) : 1 + i - 1 = i
        BY <1>1
      <3> QED
        BY <1>1, <3>1, <3>2
    <2> HIDE DEF s
    <2> QED
      BY <2>3, SeqEqual
  <1>8. ASSUME ~Begins(a \o u, old), Len(a) = 1
        PROVE Replace(a \o u, old, new) = <<a[1]>> \o Replace(u, old, new)
    <2>1. ~(Len(old) <= n /\ \A k \in 1..Len(old) : t[k] = old[k])
      BY <1>8 DEF Begins
    <2>2. 1 \in 1..n /\ 1 <= Len(a) /\ n - 1 = Len(u)
      BY <1>1, <1>8
    <2>3. t[1] = a[1]
      <3> HIDE DEF t, n
      <3> QED
        BY <1>1, <2>2
    <2>4. f[n] = <<t[1]>> \o f[n - 1]
      <3> HIDE DEF t, n
      <3> QED
        BY <1>6, <1>7, <2>1
    <2> HIDE DEF t
    <2> QED
      BY <1>3, <1>4, <1>5, <2>2, <2>3, <2>4 DEF t
  <1>9. ASSUME a = old PROVE Replace(a \o u, old, new) = new \o Replace(u, old, new)
    <2>1. Len(old) <= n /\ n - Len(old) = Len(u)
      BY <1>1, <1>9
    <2>2. \A k \in 1..Len(old) : k \in 1..n /\ k <= Len(a)
      BY <1>1, <1>9
    <2>3. \A k \in 1..Len(old) : t[k] = old[k]
      <3> HIDE DEF t, n
      <3> QED
        BY <1>1, <1>9, <2>2
    <2>4. f[n] = new \o f[n - Len(old)]
      <3> HIDE DEF t, n
      <3> QED
        BY <1>6, <1>7, <2>1, <2>3
    <2> HIDE DEF t
    <2> QED
      BY <1>3, <1>4, <1>5, <2>1, <2>4 DEF t
  <1> QED
    BY <1>8, <1>9

LEMMA ReplaceEmpty ==
    ASSUME NEW old, Len(old) \in Nat \ {0}, NEW new PROVE Replace(<<>>, old, new) = <<>>
  <1>1. Len(<<>>) = 0
    OBVIOUS
  <1>2. PICK f : Replace(<<>>, old, new) = f[Len(<<>>)] /\ Replaces(<<>>, old, new, Len(<<>>), f)
    BY <1>1, ReplaceUnfolds
  <1>3. f[0] = <<>>
    BY <1>1, <1>2 DEF Replaces
  <1> QED
    BY <1>1, <1>2, <1>3
-----------------------------------------------------------------------------
(* Texts, character by character.                                          *)

\* What holds of the empty text and of a text whenever of its tail.
LEMMA TextInduction ==
    ASSUME NEW S, NEW G \in SUBSET Seq(S), NEW X, <<>> \in G => <<>> \in X,
           \A t \in G : t # <<>> => Tail(t) \in G /\ (Tail(t) \in X => t \in X)
    PROVE G \subseteq X
  <1> DEFINE T == {n \in Nat : \E t \in G : Len(t) = n /\ t \notin X}
  <1>1. SUFFICES ASSUME T # {} PROVE FALSE
    <2>1. \A t \in G : Len(t) \in Nat
      BY LenProperties
    <2> QED
      BY <2>1
  <1>2. PICK n \in T : \A m \in T : n <= m
    <2>1. T \subseteq Nat
      OBVIOUS
    <2> HIDE DEF T
    <2> QED
      BY <1>1, <2>1, LeastExists
  <1>3. PICK t \in G : Len(t) = n /\ t \notin X
    BY <1>2
  <1>4. t # <<>> /\ t \in Seq(S)
    BY <1>3
  <1>5. Tail(t) \in G /\ Tail(t) \notin X
    BY <1>3, <1>4
  <1>6. Len(Tail(t)) \in Nat /\ Len(Tail(t)) < n
    BY <1>3, <1>4, HeadTailProperties, LenProperties
  <1>7. Len(Tail(t)) \in T /\ n \in Nat
    BY <1>5, <1>6
  <1>8. n <= Len(Tail(t))
    <2> HIDE DEF T
    <2> QED
      BY <1>2, <1>7
  <1> QED
    BY <1>6, <1>7, <1>8

LEMMA FirstAndRest ==
    ASSUME NEW S, NEW t \in Seq(S), t # <<>>
    PROVE /\ t[1] \in S /\ Tail(t) \in Seq(S) /\ t = <<t[1]>> \o Tail(t)
          /\ Len(t) \in Nat /\ Len(t) >= 1 /\ Len(Tail(t)) = Len(t) - 1
          /\ \A k \in 1..Len(t) - 1 : Tail(t)[k] = t[k + 1]
  <1>1. Len(t) \in Nat /\ Len(t) >= 1
    BY EmptySeq
  <1>2. 1 \in 1..Len(t)
    BY <1>1
  <1>3. t[1] \in S
    BY <1>2, ElementOfSeq
  <1>4. /\ Tail(t) \in Seq(S) /\ Len(Tail(t)) = Len(t) - 1
        /\ \A k \in 1..Len(t) - 1 : Tail(t)[k] = t[k + 1]
    BY HeadTailProperties
  <1> DEFINE a == <<t[1]>>
             u == Tail(t)
             s == a \o u
  <1>5. a \in Seq(S) /\ Len(a) = 1 /\ a[1] = t[1]
    BY <1>3
  <1>6. /\ s \in Seq(S) /\ Len(s) = 1 + Len(u)
        /\ \A k \in 1..1 + Len(u) : s[k] = IF k <= 1 THEN a[k] ELSE u[k - 1]
    <2>1. \A x, y \in Seq(S) :
             /\ x \o y \in Seq(S) /\ Len(x \o y) = Len(x) + Len(y)
             /\ \A k \in 1..Len(x) + Len(y) : (x \o y)[k] = IF k <= Len(x) THEN x[k] ELSE y[k - Len(x)]
      BY ConcatProperties
    <2>2. u \in Seq(S)
      BY <1>4
    <2> HIDE DEF a, u
    <2>3. /\ a \o u \in Seq(S) /\ Len(a \o u) = Len(a) + Len(u)
          /\ \A k \in 1..Len(a) + Len(u) : (a \o u)[k] = IF k <= Len(a) THEN a[k] ELSE u[k - Len(a)]
      BY <1>5, <2>1, <2>2, Zenon
    <2> HIDE DEF s
    <2> QED
      BY <1>5, <2>3 DEF s
  <1> HIDE DEF a, u, s
  <1>7. Len(s) = Len(t) /\ \A k \in 1..Len(s) : s[k] = t[k]
    <2>1. Len(u) = Len(t) - 1
      BY <1>4 DEF u
    <2>2. Len(s) = Len(t)
      BY <1>1, <1>6, <2>1
    <2>3. ASSUME NEW k \in 1..Len(s) PROVE s[k] = t[k]
      <3>1. s[k] = IF k <= 1 THEN a[k] ELSE u[k - 1]
        BY <1>6
      <3>2. k > 1 => k - 1 \in 1..Len(t) - 1 /\ (k - 1) + 1 = k
        BY <1>1, <2>2
      <3>3. k > 1 => u[k - 1] = t[k]
        BY <1>4, <3>2 DEF u
      <3>4. k \in Nat /\ k >= 1
        BY <2>2, <1>1
      <3> QED
        BY <1>5, <3>1, <3>3, <3>4
    <2> QED
      BY <2>2, <2>3
  <1>8. s = t
    BY <1>6, <1>7, SeqEqual
  <1> QED
    BY <1>1, <1>3, <1>4, <1>8 DEF s, a, u

\* Each character of a text replaced by some characters.
Coding(w) == w \in [Alphabet -> Seq(Alphabet)] /\ \A c \in Alphabet : w[c] # <<>>
Coded(w, t) == FlattenSeq([i \in DOMAIN t |-> w[t[i]]])

LEMMA CodedUnfolds ==
    ASSUME NEW w, Coding(w)
    PROVE /\ Coded(w, <<>>) = <<>>
          /\ \A t \in Seq(Alphabet) : Coded(w, t) \in Seq(Alphabet)
          /\ \A t \in Seq(Alphabet) : t # <<>> => Coded(w, t) = w[t[1]] \o Coded(w, Tail(t))
  <1> DEFINE c(t) == [i \in DOMAIN t |-> w[t[i]]]
  <1>1. \A t \in Seq(Alphabet) : c(t) \in Seq(Seq(Alphabet)) /\ Len(c(t)) = Len(t)
    <2> TAKE t \in Seq(Alphabet)
    <2>1. Len(t) \in Nat /\ DOMAIN t = 1..Len(t) /\ \A i \in 1..Len(t) : t[i] \in Alphabet
      BY LenProperties, ElementOfSeq
    <2>2. \A i \in 1..Len(t) : w[t[i]] \in Seq(Alphabet)
      BY <2>1 DEF Coding
    <2> QED
      BY <2>1, <2>2
  <1>2. Coded(w, <<>>) = <<>>
    <2>1. <<>> \in Seq(Alphabet) /\ Len(<<>>) = 0
      OBVIOUS
    <2>2. c(<<>>) \in Seq(Seq(Alphabet)) /\ Len(c(<<>>)) = 0
      BY <1>1, <2>1
    <2> HIDE DEF c
    <2>3. c(<<>>) = <<>>
      BY <2>2, EmptySeq
    <2>4. FlattenSeq(c(<<>>)) = <<>>
      BY <2>2, <2>3, FlattenUnfolds
    <2> QED
      BY <2>4 DEF Coded, c
  <1>3. \A t \in Seq(Alphabet) : Coded(w, t) \in Seq(Alphabet)
    BY <1>1, FlattenBlocks DEF Coded
  <1>4. ASSUME NEW t \in Seq(Alphabet), t # <<>>
        PROVE Coded(w, t) = w[t[1]] \o Coded(w, Tail(t))
    <2> DEFINE u == Tail(t)
               x == w[t[1]]
    <2>1. /\ t[1] \in Alphabet /\ u \in Seq(Alphabet)
          /\ Len(t) \in Nat /\ Len(t) >= 1 /\ Len(u) = Len(t) - 1
          /\ \A k \in 1..Len(t) - 1 : u[k] = t[k + 1]
      BY <1>4, FirstAndRest
    <2>2. x \in Seq(Alphabet) /\ c(u) \in Seq(Seq(Alphabet)) /\ Len(c(u)) = Len(t) - 1
          /\ c(t) \in Seq(Seq(Alphabet)) /\ Len(c(t)) = Len(t)
      BY <1>1, <2>1 DEF Coding
    <2>3. c(t)[1] = x /\ \A k \in 1..Len(t) - 1 : c(u)[k] = w[u[k]] /\ c(t)[k + 1] = w[t[k + 1]]
      <3>1. DOMAIN t = 1..Len(t) /\ DOMAIN u = 1..Len(t) - 1
        BY <2>1, LenProperties
      <3>2. 1 \in 1..Len(t) /\ \A k \in 1..Len(t) - 1 : k + 1 \in 1..Len(t)
        BY <2>1
      <3> QED
        BY <3>1, <3>2
    <2> DEFINE s == <<x>> \o c(u)
    <2>4. /\ s \in Seq(Seq(Alphabet)) /\ Len(s) = 1 + Len(c(u))
          /\ \A k \in 1..1 + Len(c(u)) : s[k] = IF k <= 1 THEN <<x>>[k] ELSE c(u)[k - 1]
      <3> DEFINE a == <<x>>
      <3>1. a \in Seq(Seq(Alphabet)) /\ Len(a) = 1
        BY <2>2
      <3>0. \A y, z \in Seq(Seq(Alphabet)) :
             /\ y \o z \in Seq(Seq(Alphabet)) /\ Len(y \o z) = Len(y) + Len(z)
             /\ \A k \in 1..Len(y) + Len(z) : (y \o z)[k] = IF k <= Len(y) THEN y[k] ELSE z[k - Len(y)]
        BY ConcatProperties
      <3> HIDE DEF a, c, u
      <3>2. /\ a \o c(u) \in Seq(Seq(Alphabet)) /\ Len(a \o c(u)) = 1 + Len(c(u))
            /\ \A k \in 1..1 + Len(c(u)) : (a \o c(u))[k] = IF k <= 1 THEN a[k] ELSE c(u)[k - 1]
        <4>1. /\ a \o c(u) \in Seq(Seq(Alphabet)) /\ Len(a \o c(u)) = Len(a) + Len(c(u))
              /\ \A k \in 1..Len(a) + Len(c(u)) :
                   (a \o c(u))[k] = IF k <= Len(a) THEN a[k] ELSE c(u)[k - Len(a)]
          BY <2>2, <3>0, <3>1, Zenon
        <4> QED
          BY <3>1, <4>1
      <3> QED
        BY <3>2 DEF a
    <2> HIDE DEF c, u, x, s
    <2>5. Len(s) = Len(c(t)) /\ \A k \in 1..Len(s) : s[k] = c(t)[k]
      <3>1. Len(s) = Len(t)
        BY <2>1, <2>2, <2>4
      <3>2. ASSUME NEW k \in 1..Len(s) PROVE s[k] = c(t)[k]
        <4>1. CASE k = 1
          BY <2>1, <2>2, <2>3, <2>4, <3>1, <4>1
        <4>2. CASE k # 1
          <5>1. k - 1 \in 1..Len(t) - 1 /\ (k - 1) + 1 = k /\ ~(k <= 1) /\ k \in 1..1 + Len(c(u))
            BY <2>1, <2>2, <3>1, <4>2
          <5>2. s[k] = c(u)[k - 1] /\ c(u)[k - 1] = w[u[k - 1]] /\ u[k - 1] = t[k]
            BY <2>1, <2>3, <2>4, <5>1
          <5>3. c(t)[k] = w[t[k]]
            BY <2>3, <5>1
          <5> QED
            BY <5>2, <5>3
        <4> QED
          BY <4>1, <4>2
      <3> QED
        BY <2>2, <3>1, <3>2
    <2>6. c(t) = <<x>> \o c(u)
      <3>1. s = c(t)
        BY <2>2, <2>4, <2>5, SeqEqual
      <3> QED
        BY <3>1 DEF s
    <2>7. FlattenSeq(<<x>> \o c(u)) = x \o FlattenSeq(c(u))
      BY <2>2, FlattenCons
    <2> QED
      BY <2>6, <2>7 DEF Coded, c, u, x
  <1> QED
    BY <1>2, <1>3, <1>4

\* What a replacement makes of the first character's code.
Turns(w, v, old, new, t) ==
    LET a == w[t[1]]
        coda == Coded(w, Tail(t))
    IN  \/ a = old /\ v[t[1]] = new
        \/ /\ v[t[1]] = a /\ ~Begins(a \o coda, old)
           /\ Len(a) = 1 \/ (Len(a) = 2 /\ ~Begins(<<a[2]>> \o coda, old))

\* So it makes another coding of the whole text.
LEMMA CodingTurns ==
    ASSUME NEW w, Coding(w), NEW v, Coding(v), NEW old \in Seq(Alphabet), old # <<>>, NEW new,
           NEW G \in SUBSET Seq(Alphabet),
           \A t \in G : t # <<>> => Tail(t) \in G /\ Turns(w, v, old, new, t)
    PROVE \A t \in G : Replace(Coded(w, t), old, new) = Coded(v, t)
  <1> DEFINE X == {t \in Seq(Alphabet) : Replace(Coded(w, t), old, new) = Coded(v, t)}
  <1>0. \A x, y, z \in Seq(Alphabet) : (x \o y) \o z = x \o (y \o z)
    BY ConcatAssociative
  <1>9. \A x, u \in Seq(Alphabet) : x # <<>> =>
          /\ ~Begins(x \o u, old) /\ Len(x) = 1
               => Replace(x \o u, old, new) = <<x[1]>> \o Replace(u, old, new)
          /\ x = old => Replace(x \o u, old, new) = new \o Replace(u, old, new)
    BY ReplaceUnfoldsFirst
  <1>1. <<>> \in X
    <2>1. Len(old) \in Nat \ {0}
      BY EmptySeq
    <2>2. Coded(w, <<>>) = <<>> /\ Coded(v, <<>>) = <<>> /\ <<>> \in Seq(Alphabet)
      BY CodedUnfolds
    <2>3. Replace(<<>>, old, new) = <<>>
      BY <2>1, ReplaceEmpty
    <2> QED
      BY <2>2, <2>3
  <1>2. ASSUME NEW t \in G, t # <<>>, Tail(t) \in X PROVE t \in X
    <2> DEFINE c == t[1]
               a == w[c]
               coda == Coded(w, Tail(t))
               done == Coded(v, Tail(t))
    <2>1. t \in Seq(Alphabet) /\ c \in Alphabet /\ Tail(t) \in Seq(Alphabet)
      BY <1>2, FirstAndRest
    <2>2. /\ Coded(w, t) = a \o coda /\ Coded(v, t) = v[c] \o done
          /\ coda \in Seq(Alphabet) /\ done \in Seq(Alphabet)
      BY <1>2, <2>1, CodedUnfolds
    <2>3. a \in Seq(Alphabet) /\ a # <<>>
      BY <2>1 DEF Coding
    <2>4. Replace(coda, old, new) = done
      BY <1>2
    <2>5. \A x \in Seq(Alphabet) : x # <<>> =>
             /\ ~Begins(x \o coda, old) /\ Len(x) = 1
                  => Replace(x \o coda, old, new) = <<x[1]>> \o done
             /\ x = old => Replace(x \o coda, old, new) = new \o done
      <3> HIDE DEF coda, done
      <3> QED
        BY <1>9, <2>2, <2>4, Zenon
    <2>6. \/ a = old /\ v[c] = new
          \/ /\ v[c] = a /\ ~Begins(a \o coda, old)
             /\ Len(a) = 1 \/ (Len(a) = 2 /\ ~Begins(<<a[2]>> \o coda, old))
      BY <1>2 DEF Turns
    <2> HIDE DEF c, a, coda, done
    <2>7. CASE a = old /\ v[c] = new
      <3>1. Replace(a \o coda, old, new) = v[c] \o done
        BY <2>3, <2>5, <2>7
      <3> QED
        BY <2>1, <2>2, <3>1
    <2>8. CASE v[c] = a /\ ~Begins(a \o coda, old) /\ Len(a) = 1
      <3>1. a = <<a[1]>>
        <4>1. /\ a[1] \in Alphabet /\ Tail(a) \in Seq(Alphabet) /\ a = <<a[1]>> \o Tail(a)
              /\ Len(Tail(a)) = Len(a) - 1
          BY <2>3, FirstAndRest
        <4>2. Tail(a) = <<>>
          <5>1. Len(Tail(a)) = 0
            BY <2>8, <4>1
          <5>2. \A z \in Seq(Alphabet) : z # <<>> => Len(z) \in Nat \ {0}
            BY EmptySeq
          <5> QED
            BY <4>1, <5>1, <5>2
        <4>3. <<a[1]>> \in Seq(Alphabet)
          BY <4>1
        <4>4. \A x \in Seq(Alphabet) : x \o <<>> = x
          BY ConcatEmptySeq
        <4> QED
          BY <4>1, <4>2, <4>3, <4>4
      <3>2. Replace(a \o coda, old, new) = <<a[1]>> \o done
        BY <2>3, <2>5, <2>8
      <3> QED
        BY <2>1, <2>2, <2>8, <3>1, <3>2
    <2>9. CASE v[c] = a /\ ~Begins(a \o coda, old) /\ Len(a) = 2 /\ ~Begins(<<a[2]>> \o coda, old)
      <3> DEFINE x == <<a[1]>>
                 y == <<a[2]>>
      <3>1. x \in Seq(Alphabet) /\ y \in Seq(Alphabet) /\ Len(x) = 1 /\ Len(y) = 1 /\ x # <<>> /\ y # <<>>
            /\ x[1] = a[1] /\ y[1] = a[2]
        <4>1. 1 \in 1..Len(a) /\ 2 \in 1..Len(a)
          BY <2>9
        <4>2. a[1] \in Alphabet /\ a[2] \in Alphabet
          BY <2>3, <4>1, ElementOfSeq
        <4> QED
          BY <4>2
      <3>2. a = x \o y
        <4>1. a = <<a[1], a[2]>>
          BY <2>3, <2>9
        <4> QED
          BY <4>1
      <3> HIDE DEF x, y
      <3>3. Replace(y \o coda, old, new) = y \o done
        <4>1. ~Begins(y \o coda, old) /\ y = <<y[1]>>
          BY <2>9, <3>1 DEF y
        <4> QED
          BY <2>5, <3>1, <4>1
      <3>4. y \o coda \in Seq(Alphabet)
        BY <2>2, <3>1, ConcatProperties
      <3>5. a \o coda = x \o (y \o coda)
        BY <1>0, <2>2, <3>1, <3>2, Zenon
      <3>6. Replace(x \o (y \o coda), old, new) = <<x[1]>> \o Replace(y \o coda, old, new)
        <4>1. ~Begins(x \o (y \o coda), old)
          BY <2>9, <3>5
        <4> QED
          BY <1>9, <3>1, <3>4, <4>1, Zenon
      <3>7. x \o (y \o done) = a \o done
        BY <1>0, <2>2, <3>1, <3>2, Zenon
      <3>8. <<x[1]>> = x
        BY <3>1 DEF x
      <3>9. Replace(Coded(w, t), old, new) = Coded(v, t)
        BY <2>2, <2>9, <3>3, <3>5, <3>6, <3>7, <3>8
      <3> QED
        BY <2>1, <3>9
    <2> QED
      BY <2>6, <2>7, <2>8, <2>9
  <1>3. G \subseteq X
    <2>1. \A t \in G : t # <<>> => Tail(t) \in G /\ (Tail(t) \in X => t \in X)
      BY <1>2
    <2> HIDE DEF X
    <2> QED
      BY <1>1, <2>1, TextInduction
  <1> QED
    BY <1>3

LEMMA BeginsWith ==
    ASSUME NEW S, NEW x \in Seq(S), x # <<>>, NEW y \in Seq(S), NEW old \in Seq(S), old # <<>>,
           Begins(x \o y, old)
    PROVE /\ x[1] = old[1]
          /\ \A k \in 1..Len(x) : k <= Len(old) => x[k] = old[k]
          /\ Len(x) = 1 => /\ Len(y) >= Len(old) - 1
                           /\ \A k \in 1..Len(old) - 1 : y[k] = old[k + 1]
  <1>1. /\ Len(x) \in Nat /\ Len(x) >= 1 /\ Len(y) \in Nat /\ Len(old) \in Nat /\ Len(old) >= 1
    BY EmptySeq, LenProperties
  <1>2. /\ Len(x \o y) = Len(x) + Len(y)
        /\ \A k \in 1..Len(x) + Len(y) : (x \o y)[k] = IF k <= Len(x) THEN x[k] ELSE y[k - Len(x)]
    BY ConcatProperties
  <1>3. Len(old) <= Len(x) + Len(y) /\ \A k \in 1..Len(old) : (x \o y)[k] = old[k]
    BY <1>2 DEF Begins
  <1>4. x[1] = old[1]
    <2>1. 1 \in 1..Len(x) + Len(y) /\ 1 <= Len(x) /\ 1 \in 1..Len(old)
      BY <1>1
    <2> QED
      BY <1>2, <1>3, <2>1
  <1>5. ASSUME Len(x) = 1, NEW k \in 1..Len(old) - 1 PROVE y[k] = old[k + 1]
    <2>1. k + 1 \in 1..Len(old) /\ k + 1 \in 1..Len(x) + Len(y) /\ ~(k + 1 <= 1) /\ (k + 1) - 1 = k
      BY <1>1, <1>3, <1>5
    <2>2. (x \o y)[k + 1] = IF k + 1 <= Len(x) THEN x[k + 1] ELSE y[(k + 1) - Len(x)]
      BY <1>2, <2>1
    <2> QED
      BY <1>3, <1>5, <2>1, <2>2
  <1>6. Len(x) = 1 => Len(y) >= Len(old) - 1
    BY <1>1, <1>3
  <1>7. ASSUME NEW k \in 1..Len(x), k <= Len(old) PROVE x[k] = old[k]
    <2>1. k \in 1..Len(old) /\ k \in 1..Len(x) + Len(y) /\ k <= Len(x)
      BY <1>1, <1>7
    <2> QED
      BY <1>2, <1>3, <2>1
  <1> QED
    BY <1>4, <1>5, <1>6, <1>7

\* The codings between a cell and its text: as written, then without the signs
\* of newlines, without the escapes of bars, and without those of backslashes.
Cell == [c \in Alphabet |-> Written(c)]
Unsigned == [c \in Alphabet |-> IF c = "nl" THEN <<c>> ELSE Written(c)]
Unbarred == [c \in Alphabet |-> IF c = "nl" \/ c = "bar" THEN <<c>> ELSE Written(c)]
Plain == [c \in Alphabet |-> IF c = "cr" THEN <<"sp">> ELSE <<c>>]

LEMMA ShortLists ==
    ASSUME NEW S, NEW a \in S, NEW b \in S, NEW c \in S
    PROVE /\ <<a>> \in Seq(S) /\ <<a, b>> \in Seq(S) /\ <<a, b, c>> \in Seq(S)
          /\ Len(<<a>>) = 1 /\ Len(<<a, b>>) = 2 /\ Len(<<a, b, c>>) = 3
          /\ <<a>> # <<>> /\ <<a, b>> # <<>> /\ <<a, b, c>> # <<>>
  <1>1. Len(<<a>>) = 1 /\ Len(<<a, b>>) = 2 /\ Len(<<a, b, c>>) = 3 /\ Len(<<>>) = 0
    OBVIOUS
  <1>2. <<a>> \in Seq(S) /\ <<a, b>> \in Seq(S) /\ <<a, b, c>> \in Seq(S)
    OBVIOUS
  <1> QED
    BY <1>1, <1>2

LEMMA CodingsAreCodings == Coding(Cell) /\ Coding(Unsigned) /\ Coding(Unbarred) /\ Coding(Plain)
  <1>0. {"sp", "nl", "cr", "ls", "bar", "bs", "ret"} \subseteq Alphabet
    BY SignsAreCharacters
  <1>1. \A c \in Alphabet : <<c>> \in Seq(Alphabet) /\ <<c>> # <<>>
    BY ShortLists
  <1>2. ASSUME NEW c \in Alphabet PROVE Written(c) \in Seq(Alphabet) /\ Written(c) # <<>>
    <2>1. /\ <<"bs", "bs">> \in Seq(Alphabet) /\ <<"bs", "bar">> \in Seq(Alphabet)
          /\ <<"sp", "ret", "sp">> \in Seq(Alphabet) /\ <<"sp">> \in Seq(Alphabet)
      BY <1>0, ShortLists
    <2>2. /\ <<"bs", "bs">> # <<>> /\ <<"bs", "bar">> # <<>>
          /\ <<"sp", "ret", "sp">> # <<>> /\ <<"sp">> # <<>>
      BY <1>0, ShortLists
    <2>3. \/ Written(c) = <<"bs", "bs">> \/ Written(c) = <<"bs", "bar">>
          \/ Written(c) = <<"sp", "ret", "sp">> \/ Written(c) = <<"sp">> \/ Written(c) = <<c>>
      BY DEF Written
    <2> QED
      BY <1>1, <2>1, <2>2, <2>3
  <1>3. <<"sp">> \in Seq(Alphabet) /\ <<"sp">> # <<>>
    BY <1>0, <1>1
  <1> DEFINE Good(x) == x \in Seq(Alphabet) /\ x # <<>>
  <1>4. \A c \in Alphabet : Good(Cell[c]) /\ Good(Unsigned[c]) /\ Good(Unbarred[c]) /\ Good(Plain[c])
    BY <1>1, <1>2, <1>3 DEF Cell, Unsigned, Unbarred, Plain
  <1>5. /\ Cell = [c \in Alphabet |-> Cell[c]] /\ Unsigned = [c \in Alphabet |-> Unsigned[c]]
        /\ Unbarred = [c \in Alphabet |-> Unbarred[c]] /\ Plain = [c \in Alphabet |-> Plain[c]]
    BY DEF Cell, Unsigned, Unbarred, Plain
  <1> QED
    BY <1>4, <1>5 DEF Coding

LEMMA CodesAre ==
    ASSUME NEW c \in Alphabet
    PROVE /\ c = "bs" => Written(c) = <<"bs", "bs">>
          /\ c = "bar" => Written(c) = <<"bs", "bar">>
          /\ c = "nl" => Written(c) = <<"sp", "ret", "sp">>
          /\ c = "cr" => Written(c) = <<"sp">>
          /\ c \notin {"bs", "bar", "nl", "cr"} => Written(c) = <<c>>
  BY DEF Written

\* A code's first character.
FirstOf(w, t) == w[t[1]][1]

LEMMA ConcatFirst ==
    ASSUME NEW S, NEW a \in Seq(S), a # <<>>, NEW b \in Seq(S)
    PROVE /\ Len(a \o b) >= 1 /\ (a \o b)[1] = a[1]
          /\ Len(a) = 1 => /\ Len(a \o b) = 1 + Len(b)
                           /\ Len(a \o b) > 1 => (a \o b)[2] = b[1]
  <1>1. Len(a) \in Nat /\ Len(a) >= 1 /\ Len(b) \in Nat
    BY EmptySeq, LenProperties
  <1>2. /\ Len(a \o b) = Len(a) + Len(b)
        /\ \A k \in 1..Len(a) + Len(b) : (a \o b)[k] = IF k <= Len(a) THEN a[k] ELSE b[k - Len(a)]
    BY ConcatProperties
  <1> DEFINE d == a \o b
  <1>3. Len(d) = Len(a) + Len(b)
    BY <1>2
  <1>4. \A k \in 1..Len(a) + Len(b) : d[k] = IF k <= Len(a) THEN a[k] ELSE b[k - Len(a)]
    BY <1>2
  <1> HIDE DEF d
  <1>5. Len(d) >= 1 /\ d[1] = a[1]
    BY <1>1, <1>3, <1>4
  <1>6. ASSUME Len(a) = 1 PROVE Len(d) = 1 + Len(b) /\ (Len(d) > 1 => d[2] = b[1])
    <2>1. Len(d) > 1 => 2 \in 1..Len(a) + Len(b) /\ ~(2 <= Len(a)) /\ 2 - Len(a) = 1
      BY <1>1, <1>3, <1>6
    <2> QED
      BY <1>3, <1>4, <1>6, <2>1
  <1> QED
    BY <1>5, <1>6 DEF d

LEMMA CodedFirst ==
    ASSUME NEW w, Coding(w), NEW t \in Seq(Alphabet), t # <<>>
    PROVE /\ Coded(w, t) # <<>> /\ Coded(w, t)[1] = FirstOf(w, t)
          /\ Len(w[t[1]]) = 1 /\ Len(Coded(w, t)) > 1
               => Tail(t) # <<>> /\ Coded(w, t)[2] = FirstOf(w, Tail(t))
  <1>1. t[1] \in Alphabet /\ Tail(t) \in Seq(Alphabet)
    BY FirstAndRest
  <1>2. \A s \in Seq(Alphabet) : Coded(w, s) \in Seq(Alphabet) /\ (s = <<>> => Coded(w, s) = <<>>)
    BY CodedUnfolds
  <1>3. ASSUME NEW s \in Seq(Alphabet), s # <<>>
        PROVE /\ Len(Coded(w, s)) >= 1 /\ Coded(w, s)[1] = FirstOf(w, s)
              /\ Len(w[s[1]]) = 1 => /\ Len(Coded(w, s)) = 1 + Len(Coded(w, Tail(s)))
                                     /\ Len(Coded(w, s)) > 1 => Coded(w, s)[2] = Coded(w, Tail(s))[1]
    <2> DEFINE a == w[s[1]]
               b == Coded(w, Tail(s))
    <2>1. a \in Seq(Alphabet) /\ a # <<>> /\ b \in Seq(Alphabet) /\ Coded(w, s) = a \o b
      BY <1>2, <1>3, FirstAndRest, CodedUnfolds DEF Coding
    <2>0. \A x, y \in Seq(Alphabet) : x # <<>> =>
             /\ Len(x \o y) >= 1 /\ (x \o y)[1] = x[1]
             /\ Len(x) = 1 => /\ Len(x \o y) = 1 + Len(y)
                              /\ Len(x \o y) > 1 => (x \o y)[2] = y[1]
      BY ConcatFirst
    <2>2. FirstOf(w, s) = a[1]
      BY DEF FirstOf
    <2> HIDE DEF a, b
    <2>3. /\ Len(a \o b) >= 1 /\ (a \o b)[1] = a[1]
          /\ Len(a) = 1 => /\ Len(a \o b) = 1 + Len(b)
                           /\ Len(a \o b) > 1 => (a \o b)[2] = b[1]
      BY <2>0, <2>1, Zenon
    <2> QED
      BY <2>1, <2>2, <2>3, Zenon DEF a, b
  <1>4. Coded(w, t) # <<>> /\ Coded(w, t)[1] = FirstOf(w, t)
    <2>1. Len(Coded(w, t)) >= 1
      BY <1>3
    <2>2. Len(<<>>) = 0
      OBVIOUS
    <2> QED
      BY <1>3, <2>1, <2>2
  <1>5. ASSUME Len(w[t[1]]) = 1, Len(Coded(w, t)) > 1
        PROVE Tail(t) # <<>> /\ Coded(w, t)[2] = FirstOf(w, Tail(t))
    <2>1. Len(Coded(w, t)) = 1 + Len(Coded(w, Tail(t))) /\ Coded(w, t)[2] = Coded(w, Tail(t))[1]
      BY <1>3, <1>5
    <2>2. Len(<<>>) = 0
      OBVIOUS
    <2>3. Tail(t) # <<>>
      <3>1. Tail(t) = <<>> => Coded(w, Tail(t)) = <<>>
        BY <1>1, <1>2
      <3>2. Tail(t) = <<>> => Len(Coded(w, Tail(t))) = 0
        BY <2>2, <3>1
      <3> QED
        BY <1>5, <2>1, <3>2
    <2> QED
      BY <1>1, <1>3, <2>1, <2>3
  <1> QED
    BY <1>4, <1>5

\* The first replacement: the signs of newlines.
LEMMA SignsComeBack ==
    ASSUME NEW t \in Seq(Alphabet), ~SignAmidSpaces(t)
    PROVE Replace(Coded(Cell, t), <<"sp", "ret", "sp">>, <<"nl">>) = Coded(Unsigned, t)
  <1> DEFINE G == {s \in Seq(Alphabet) : ~SignAmidSpaces(s)}
             old == <<"sp", "ret", "sp">>
             new == <<"nl">>
  <1>1. Coding(Cell) /\ Coding(Unsigned)
    BY CodingsAreCodings
  <1>2. {"sp", "ret", "nl", "bs", "bar", "cr"} \subseteq Alphabet
    BY SignsAreCharacters
  <1>3. old \in Seq(Alphabet) /\ old # <<>> /\ Len(old) = 3
        /\ old[1] = "sp" /\ old[2] = "ret" /\ old[3] = "sp"
    BY <1>2, ShortLists
  <1> HIDE DEF old
  <1>4. ASSUME NEW s \in G, s # <<>> PROVE Tail(s) \in G
    <2>1. /\ Len(s) \in Nat /\ Len(s) >= 1 /\ Tail(s) \in Seq(Alphabet)
          /\ Len(Tail(s)) = Len(s) - 1 /\ \A k \in 1..Len(s) - 1 : Tail(s)[k] = s[k + 1]
      BY <1>4, FirstAndRest
    <2>2. ASSUME SignAmidSpaces(Tail(s)) PROVE FALSE
      <3> DEFINE u == Tail(s)
      <3>1. PICK i \in 1..Len(s) - 1 - 2 : /\ u[i] \in {"sp", "cr"} /\ u[i + 1] = "ret"
                                           /\ u[i + 2] \in {"sp", "cr", "nl"}
        BY <2>1, <2>2 DEF SignAmidSpaces
      <3>2. i + 1 \in 1..Len(s) - 2 /\ i \in 1..Len(s) - 1 /\ i + 1 \in 1..Len(s) - 1
            /\ i + 2 \in 1..Len(s) - 1 /\ (i + 2) + 1 = (i + 1) + 2
        BY <2>1
      <3>3. u[i] = s[i + 1] /\ u[i + 1] = s[(i + 1) + 1] /\ u[i + 2] = s[(i + 1) + 2]
        BY <2>1, <3>2
      <3>4. SignAmidSpaces(s)
        BY <3>1, <3>2, <3>3 DEF SignAmidSpaces
      <3> QED
        BY <1>4, <3>4
    <2> QED
      BY <2>1, <2>2
  <1>5. ASSUME NEW s \in G, s # <<>> PROVE Turns(Cell, Unsigned, old, new, s)
    <2> DEFINE c == s[1]
               u == Tail(s)
               a == Cell[c]
               coda == Coded(Cell, u)
    <2>1. /\ s \in Seq(Alphabet) /\ c \in Alphabet /\ u \in Seq(Alphabet)
          /\ Len(s) \in Nat /\ Len(s) >= 1 /\ Len(u) = Len(s) - 1
          /\ \A k \in 1..Len(s) - 1 : u[k] = s[k + 1]
      BY <1>5, FirstAndRest
    <2>2. Cell[c] = Written(c) /\ Unsigned[c] = IF c = "nl" THEN <<c>> ELSE Written(c)
      BY <2>1 DEF Cell, Unsigned
    <2>3. coda \in Seq(Alphabet) /\ a \in Seq(Alphabet) /\ a # <<>>
      BY <1>1, <2>1, CodedUnfolds DEF Coding
    <2>4. CASE c = "nl"
      <3>1. a = old /\ Unsigned[c] = new
        BY <2>1, <2>2, <2>4, CodesAre DEF old
      <3> QED
        BY <3>1 DEF Turns
    <2>5. CASE c # "nl"
      <3>0. \A x, y \in Seq(Alphabet) : x # <<>> /\ Begins(x \o y, old) =>
              /\ x[1] = old[1]
              /\ Len(x) = 1 => /\ Len(y) >= Len(old) - 1
                               /\ \A k \in 1..Len(old) - 1 : y[k] = old[k + 1]
        BY <1>3, BeginsWith
      <3>1. \/ c = "bs" /\ a = <<"bs", "bs">>
            \/ c = "bar" /\ a = <<"bs", "bar">>
            \/ c = "cr" /\ a = <<"sp">>
            \/ c \notin {"bs", "bar", "nl", "cr"} /\ a = <<c>>
        BY <2>1, <2>2, <2>5, CodesAre
      <3>2. CASE c \in {"bs", "bar"}
        <4>1. Len(a) = 2 /\ a[1] = "bs" /\ a[2] \in {"bs", "bar"}
          <5>1. a = <<"bs", "bs">> \/ a = <<"bs", "bar">>
            BY <3>1, <3>2
          <5> HIDE DEF a
          <5> QED
            BY <5>1
        <4>2. <<a[2]>> \in Seq(Alphabet) /\ <<a[2]>> # <<>> /\ <<a[2]>>[1] = a[2]
          BY <1>2, <4>1, ShortLists
        <4> HIDE DEF a, coda
        <4>3. ~Begins(a \o coda, old)
          BY <1>3, <2>3, <3>0, <4>1
        <4>4. ~Begins(<<a[2]>> \o coda, old)
          <5> DEFINE b == <<a[2]>>
          <5>1. b \in Seq(Alphabet) /\ b # <<>> /\ b[1] # old[1]
            BY <1>3, <4>1, <4>2
          <5> HIDE DEF b
          <5>2. ~Begins(b \o coda, old)
            BY <2>3, <3>0, <5>1
          <5> QED
            BY <5>2 DEF b
        <4> QED
          BY <2>2, <2>5, <4>1, <4>3, <4>4 DEF Turns, a, coda
      <3>3. CASE c \notin {"bs", "bar"}
        <4>1. Len(a) = 1 /\ a[1] = IF c = "cr" THEN "sp" ELSE c
          <5>1. (c = "cr" /\ a = <<"sp">>) \/ (c # "cr" /\ a = <<c>>)
            BY <3>1, <3>3
          <5> HIDE DEF a, c
          <5> QED
            BY <5>1
        <4>2. ASSUME Begins(a \o coda, old) PROVE FALSE
          <5> HIDE DEF a
          <5>1. a[1] = "sp" /\ Len(coda) >= 2 /\ coda[1] = "ret" /\ coda[2] = "sp"
            <6> HIDE DEF coda
            <6>1. /\ a[1] = old[1] /\ Len(coda) >= Len(old) - 1
                  /\ \A k \in 1..Len(old) - 1 : coda[k] = old[k + 1]
              BY <2>3, <3>0, <4>1, <4>2
            <6>2. 1 \in 1..Len(old) - 1 /\ 2 \in 1..Len(old) - 1 /\ Len(old) - 1 = 2
              BY <1>3
            <6> QED
              BY <1>3, <6>1, <6>2
          <5>2. u # <<>>
            <6>1. Coded(Cell, <<>>) = <<>> /\ Len(<<>>) = 0
              BY <1>1, CodedUnfolds
            <6>2. u = <<>> => coda = <<>>
              BY <6>1
            <6> HIDE DEF u, coda
            <6> QED
              BY <5>1, <6>1, <6>2
          <5>3. Len(u) >= 1 /\ u[1] \in Alphabet /\ Tail(u) \in Seq(Alphabet)
                /\ Len(Tail(u)) = Len(u) - 1 /\ \A k \in 1..Len(u) - 1 : Tail(u)[k] = u[k + 1]
            BY <2>1, <5>2, FirstAndRest
          <5>4. coda[1] = Cell[u[1]][1]
                /\ (Len(Cell[u[1]]) = 1 => Tail(u) # <<>> /\ coda[2] = Cell[Tail(u)[1]][1])
            <6>1. Len(coda) > 1 /\ coda[1] = FirstOf(Cell, u)
              <7>1. coda[1] = FirstOf(Cell, u)
                BY <1>1, <2>1, <5>2, CodedFirst
              <7>2. Len(coda) \in Nat
                BY <2>3, LenProperties
              <7> HIDE DEF coda
              <7> QED
                BY <5>1, <7>1, <7>2
            <6>2. Len(Cell[u[1]]) = 1 => Tail(u) # <<>> /\ coda[2] = FirstOf(Cell, Tail(u))
              BY <1>1, <2>1, <5>2, <6>1, CodedFirst
            <6> QED
              BY <6>1, <6>2 DEF FirstOf
          <5>5. u[1] = "ret" /\ Cell[u[1]] = <<"ret">>
            BY <5>1, <5>3, <5>4, CodesAre DEF Cell
          <5>6. Tail(u) # <<>> /\ Cell[Tail(u)[1]][1] = "sp"
            BY <5>1, <5>4, <5>5
          <5>7. Len(Tail(u)) >= 1 /\ Tail(u)[1] \in Alphabet
            BY <5>3, <5>6, FirstAndRest
          <5>8. Tail(u)[1] \in {"sp", "cr", "nl"}
            BY <5>6, <5>7, CodesAre DEF Cell
          <5>9. Len(s) >= 3 /\ s[2] = u[1] /\ s[3] = Tail(u)[1]
            <6>1. Len(u) >= 2 /\ 1 \in 1..Len(u) - 1 /\ 1 + 1 = 2 /\ 2 + 1 = 3
              BY <2>1, <5>3, <5>7
            <6>2. Tail(u)[1] = u[2] /\ u[2] = s[3] /\ u[1] = s[2]
              BY <2>1, <5>3, <6>1
            <6> QED
              BY <2>1, <6>1, <6>2
          <5>10. s[1] \in {"sp", "cr"}
            BY <4>1, <5>1
          <5>11. SignAmidSpaces(s)
            <6>1. 1 \in 1..Len(s) - 2 /\ 1 + 1 = 2 /\ 1 + 2 = 3
              BY <2>1, <5>9
            <6> QED
              BY <5>5, <5>8, <5>9, <5>10, <6>1 DEF SignAmidSpaces
          <5> QED
            BY <1>5, <5>11
        <4> QED
          BY <2>2, <2>5, <4>1, <4>2 DEF Turns
      <3> QED
        BY <3>2, <3>3
    <2> QED
      BY <2>4, <2>5
  <1>6. t \in G /\ G \in SUBSET Seq(Alphabet)
    OBVIOUS
  <1>7. \A s \in G : Replace(Coded(Cell, s), old, new) = Coded(Unsigned, s)
    <2> HIDE DEF G, new
    <2> QED
      BY <1>1, <1>3, <1>4, <1>5, <1>6, CodingTurns
  <1> QED
    BY <1>6, <1>7 DEF old

\* The second: the escapes of bars.
LEMMA BarsComeBack ==
    ASSUME NEW t \in Seq(Alphabet)
    PROVE Replace(Coded(Unsigned, t), <<"bs", "bar">>, <<"bar">>) = Coded(Unbarred, t)
  <1> DEFINE old == <<"bs", "bar">>
             new == <<"bar">>
             G == Seq(Alphabet)
  <1>1. Coding(Unsigned) /\ Coding(Unbarred)
    BY CodingsAreCodings
  <1>2. {"sp", "ret", "nl", "bs", "bar", "cr"} \subseteq Alphabet
    BY SignsAreCharacters
  <1>3. old \in Seq(Alphabet) /\ old # <<>> /\ Len(old) = 2 /\ old[1] = "bs" /\ old[2] = "bar"
    BY <1>2, ShortLists
  <1>4. \A s \in G : s # <<>> => Tail(s) \in G
    BY FirstAndRest
  <1> HIDE DEF old
  <1>5. ASSUME NEW s \in G, s # <<>> PROVE Turns(Unsigned, Unbarred, old, new, s)
    <2> DEFINE c == s[1]
               u == Tail(s)
               a == Unsigned[c]
               coda == Coded(Unsigned, u)
    <2>1. c \in Alphabet /\ u \in Seq(Alphabet)
      BY <1>5, FirstAndRest
    <2>2. /\ Unsigned[c] = IF c = "nl" THEN <<c>> ELSE Written(c)
          /\ Unbarred[c] = IF c = "nl" \/ c = "bar" THEN <<c>> ELSE Written(c)
      BY <2>1 DEF Unbarred, Unsigned
    <2>3. coda \in Seq(Alphabet) /\ a \in Seq(Alphabet) /\ a # <<>>
      BY <1>1, <2>1, CodedUnfolds DEF Coding
    <2>4. CASE c = "bar"
      <3>1. a = old /\ Unbarred[c] = new
        BY <2>1, <2>2, <2>4, CodesAre DEF old
      <3> QED
        BY <3>1 DEF Turns
    <2>5. CASE c # "bar"
      <3>0. \A x, y \in Seq(Alphabet) : x # <<>> /\ Begins(x \o y, old) =>
              /\ x[1] = old[1]
              /\ \A k \in 1..Len(x) : k <= Len(old) => x[k] = old[k]
              /\ Len(x) = 1 => /\ Len(y) >= Len(old) - 1
                               /\ \A k \in 1..Len(old) - 1 : y[k] = old[k + 1]
        BY <1>3, BeginsWith
      <3>1. Unbarred[c] = a
        BY <2>2, <2>5
      <3>2. \/ c = "bs" /\ a = <<"bs", "bs">>
            \/ c = "cr" /\ a = <<"sp">>
            \/ c \notin {"bs", "cr"} /\ a = <<c>>
        BY <2>1, <2>2, <2>5, CodesAre
      <3>3. CASE c = "bs"
        <4>1. Len(a) = 2 /\ a[2] = "bs"
          <5>1. a = <<"bs", "bs">>
            BY <3>2, <3>3
          <5> HIDE DEF a
          <5> QED
            BY <5>1
        <4> DEFINE b == <<a[2]>>
        <4>2. b \in Seq(Alphabet) /\ b # <<>> /\ Len(b) = 1
          BY <1>2, <4>1, ShortLists
        <4>3. ~Begins(a \o coda, old)
          <5> HIDE DEF a, coda
          <5>1. 2 \in 1..Len(a) /\ 2 <= Len(old)
            BY <1>3, <4>1
          <5> QED
            BY <1>3, <2>3, <3>0, <4>1, <5>1
        <4>4. ASSUME Begins(b \o coda, old) PROVE FALSE
          <5>1. Len(coda) >= 1 /\ coda[1] = "bar"
            <6> HIDE DEF b, coda
            <6>1. Len(coda) >= Len(old) - 1 /\ \A k \in 1..Len(old) - 1 : coda[k] = old[k + 1]
              BY <2>3, <3>0, <4>2, <4>4
            <6>2. Len(old) - 1 = 1 /\ 1 \in 1..Len(old) - 1 /\ 1 + 1 = 2
              BY <1>3
            <6> QED
              BY <1>3, <6>1, <6>2
          <5>2. u # <<>>
            <6>1. Coded(Unsigned, <<>>) = <<>> /\ Len(<<>>) = 0
              BY <1>1, CodedUnfolds
            <6>2. u = <<>> => coda = <<>>
              BY <6>1
            <6> HIDE DEF u, coda
            <6> QED
              BY <5>1, <6>1, <6>2
          <5>3. coda[1] = FirstOf(Unsigned, u) /\ u[1] \in Alphabet
            BY <1>1, <2>1, <5>2, CodedFirst, FirstAndRest
          <5>4. \A d \in Alphabet : Unsigned[d][1] # "bar"
            BY CodesAre DEF Unsigned
          <5> QED
            BY <5>1, <5>3, <5>4 DEF FirstOf
        <4> QED
          BY <3>1, <4>1, <4>3, <4>4 DEF Turns
      <3>4. CASE c # "bs"
        <4>1. Len(a) = 1 /\ a[1] # "bs"
          <5>1. a = <<"sp">> \/ a = <<c>>
            BY <3>2, <3>4
          <5> HIDE DEF a, c
          <5> QED
            BY <3>4, <5>1
        <4>2. ~Begins(a \o coda, old)
          <5> HIDE DEF a, coda
          <5> QED
            BY <1>3, <2>3, <3>0, <4>1
        <4> QED
          BY <3>1, <4>1, <4>2 DEF Turns
      <3> QED
        BY <3>3, <3>4
    <2> QED
      BY <2>4, <2>5
  <1>6. G \in SUBSET Seq(Alphabet) /\ t \in G
    OBVIOUS
  <1>7. \A s \in G : Replace(Coded(Unsigned, s), old, new) = Coded(Unbarred, s)
    <2> HIDE DEF G, new
    <2> QED
      BY <1>1, <1>3, <1>4, <1>5, <1>6, CodingTurns
  <1> QED
    BY <1>6, <1>7 DEF old

\* The third: those of backslashes.
LEMMA SlashesComeBack ==
    ASSUME NEW t \in Seq(Alphabet)
    PROVE Replace(Coded(Unbarred, t), <<"bs", "bs">>, <<"bs">>) = Coded(Plain, t)
  <1> DEFINE old == <<"bs", "bs">>
             new == <<"bs">>
             G == Seq(Alphabet)
  <1>1. Coding(Unbarred) /\ Coding(Plain)
    BY CodingsAreCodings
  <1>2. {"sp", "ret", "nl", "bs", "bar", "cr"} \subseteq Alphabet
    BY SignsAreCharacters
  <1>3. old \in Seq(Alphabet) /\ old # <<>> /\ Len(old) = 2 /\ old[1] = "bs"
    BY <1>2, ShortLists
  <1>4. \A s \in G : s # <<>> => Tail(s) \in G
    BY FirstAndRest
  <1> HIDE DEF old
  <1>5. ASSUME NEW s \in G, s # <<>> PROVE Turns(Unbarred, Plain, old, new, s)
    <2> DEFINE c == s[1]
               u == Tail(s)
               a == Unbarred[c]
               coda == Coded(Unbarred, u)
    <2>1. c \in Alphabet /\ u \in Seq(Alphabet)
      BY <1>5, FirstAndRest
    <2>2. /\ Unbarred[c] = IF c = "nl" \/ c = "bar" THEN <<c>> ELSE Written(c)
          /\ Plain[c] = IF c = "cr" THEN <<"sp">> ELSE <<c>>
      BY <2>1 DEF Unbarred, Plain
    <2>3. coda \in Seq(Alphabet) /\ a \in Seq(Alphabet) /\ a # <<>>
      BY <1>1, <2>1, CodedUnfolds DEF Coding
    <2>4. CASE c = "bs"
      <3>1. a = old /\ Plain[c] = new
        BY <2>1, <2>2, <2>4, CodesAre DEF old
      <3> QED
        BY <3>1 DEF Turns
    <2>5. CASE c # "bs"
      <3>0. \A x, y \in Seq(Alphabet) : x # <<>> /\ Begins(x \o y, old) => x[1] = old[1]
        BY <1>3, BeginsWith
      <3>1. Plain[c] = a /\ (a = <<"sp">> \/ a = <<c>>)
        BY <2>1, <2>2, <2>5, CodesAre
      <3>2. Len(a) = 1 /\ a[1] # "bs"
        <4>1. a = <<"sp">> \/ a = <<c>>
          BY <3>1
        <4> HIDE DEF a, c
        <4> QED
          BY <2>5, <4>1
      <3>3. ~Begins(a \o coda, old)
        <4> HIDE DEF a, coda
        <4> QED
          BY <1>3, <2>3, <3>0, <3>2
      <3> QED
        BY <3>1, <3>2, <3>3 DEF Turns
    <2> QED
      BY <2>4, <2>5
  <1>6. G \in SUBSET Seq(Alphabet) /\ t \in G
    OBVIOUS
  <1>7. \A s \in G : Replace(Coded(Unbarred, s), old, new) = Coded(Plain, s)
    <2> HIDE DEF G, new
    <2> QED
      BY <1>1, <1>3, <1>4, <1>5, <1>6, CodingTurns
  <1> QED
    BY <1>6, <1>7 DEF old

\* What is left is the text, but for carriage returns.
LEMMA PlainIsRead ==
    ASSUME NEW t \in Seq(Alphabet)
    PROVE Coded(Plain, t) = ReadBack(t) /\ ReadBack(t) \in Seq(Alphabet) /\ Len(ReadBack(t)) = Len(t)
  <1> DEFINE X == {s \in Seq(Alphabet) : Coded(Plain, s) = ReadBack(s)}
             G == Seq(Alphabet)
  <1>1. Coding(Plain) /\ "sp" \in Alphabet
    BY CodingsAreCodings, SignsAreCharacters
  <1>2. ASSUME NEW s \in Seq(Alphabet)
        PROVE /\ ReadBack(s) \in Seq(Alphabet) /\ Len(ReadBack(s)) = Len(s)
              /\ \A k \in 1..Len(s) : ReadBack(s)[k] = IF s[k] = "cr" THEN "sp" ELSE s[k]
    <2>1. Len(s) \in Nat /\ DOMAIN s = 1..Len(s) /\ \A k \in 1..Len(s) : s[k] \in Alphabet
      BY LenProperties, ElementOfSeq
    <2> QED
      BY <1>1, <2>1 DEF ReadBack
  <1>3. <<>> \in X
    <2>1. <<>> \in Seq(Alphabet) /\ Len(<<>>) = 0
      OBVIOUS
    <2>2. ReadBack(<<>>) = <<>>
      <3>1. ReadBack(<<>>) \in Seq(Alphabet) /\ Len(ReadBack(<<>>)) = 0
        BY <1>2, <2>1
      <3>2. \A z \in Seq(Alphabet) : z # <<>> => Len(z) \in Nat \ {0}
        BY EmptySeq
      <3> QED
        BY <3>1, <3>2
    <2> QED
      BY <1>1, <2>1, <2>2, CodedUnfolds
  <1>4. ASSUME NEW s \in G, s # <<>>, Tail(s) \in X PROVE s \in X
    <2> DEFINE u == Tail(s)
               x == IF s[1] = "cr" THEN "sp" ELSE s[1]
               a == <<x>>
               r == ReadBack(u)
    <2>1. /\ s[1] \in Alphabet /\ u \in Seq(Alphabet) /\ Len(s) \in Nat /\ Len(s) >= 1
          /\ Len(u) = Len(s) - 1 /\ \A k \in 1..Len(s) - 1 : u[k] = s[k + 1]
      BY <1>4, FirstAndRest
    <2>2. Plain[s[1]] = a
      BY <2>1 DEF Plain
    <2>3. Coded(Plain, s) = a \o r
      BY <1>1, <1>4, <2>2, CodedUnfolds
    <2>4. x \in Alphabet
      BY <1>1, <2>1
    <2>5. a \in Seq(Alphabet) /\ Len(a) = 1 /\ a[1] = x
      BY <2>4, ShortLists
    <2>6. r \in Seq(Alphabet) /\ Len(r) = Len(s) - 1
          /\ \A k \in 1..Len(s) - 1 : r[k] = IF s[k + 1] = "cr" THEN "sp" ELSE s[k + 1]
      <3>1. /\ r \in Seq(Alphabet) /\ Len(r) = Len(u)
            /\ \A k \in 1..Len(u) : r[k] = IF u[k] = "cr" THEN "sp" ELSE u[k]
        BY <1>2, <2>1
      <3> HIDE DEF r, u
      <3> QED
        BY <2>1, <3>1
    <2>7. \A y, z \in Seq(Alphabet) :
             /\ y \o z \in Seq(Alphabet) /\ Len(y \o z) = Len(y) + Len(z)
             /\ \A k \in 1..Len(y) + Len(z) : (y \o z)[k] = IF k <= Len(y) THEN y[k] ELSE z[k - Len(y)]
      BY ConcatProperties
    <2> HIDE DEF a, r
    <2>8. /\ a \o r \in Seq(Alphabet) /\ Len(a \o r) = Len(a) + Len(r)
          /\ \A k \in 1..Len(a) + Len(r) : (a \o r)[k] = IF k <= Len(a) THEN a[k] ELSE r[k - Len(a)]
      BY <2>5, <2>6, <2>7, Zenon
    <2>9. Len(a \o r) = Len(s) /\ \A k \in 1..Len(s) : (a \o r)[k] = IF s[k] = "cr" THEN "sp" ELSE s[k]
      <3> DEFINE d == a \o r
      <3>1. /\ Len(d) = Len(a) + Len(r)
            /\ \A k \in 1..Len(a) + Len(r) : d[k] = IF k <= Len(a) THEN a[k] ELSE r[k - Len(a)]
        BY <2>8
      <3> HIDE DEF d, u
      <3>2. Len(d) = Len(s)
        BY <2>1, <2>5, <2>6, <3>1
      <3>3. ASSUME NEW k \in 1..Len(s) PROVE d[k] = IF s[k] = "cr" THEN "sp" ELSE s[k]
        <4>1. CASE k = 1
          BY <2>1, <2>5, <2>6, <3>1, <4>1
        <4>2. CASE k # 1
          <5>1. k - 1 \in 1..Len(s) - 1 /\ (k - 1) + 1 = k /\ ~(k <= 1) /\ k \in 1..Len(a) + Len(r)
            BY <2>1, <2>5, <2>6, <4>2
          <5>2. d[k] = r[k - 1]
            BY <2>5, <3>1, <5>1
          <5> QED
            BY <2>6, <5>1, <5>2
        <4> QED
          BY <4>1, <4>2
      <3> QED
        BY <3>2, <3>3 DEF d
    <2>10. a \o r = ReadBack(s)
      <3> DEFINE d == a \o r
                 e == ReadBack(s)
      <3>1. d \in Seq(Alphabet) /\ e \in Seq(Alphabet) /\ Len(d) = Len(e)
            /\ \A k \in 1..Len(d) : d[k] = e[k]
        BY <1>2, <1>4, <2>8, <2>9
      <3> HIDE DEF d, e
      <3>2. d = e
        BY <3>1, SeqEqual
      <3> QED
        BY <3>2 DEF d, e
    <2> QED
      BY <1>4, <2>3, <2>10
  <1>5. G \subseteq X
    <2>1. G \in SUBSET Seq(Alphabet) /\ \A s \in G : s # <<>> => Tail(s) \in G /\ (Tail(s) \in X => s \in X)
      BY <1>4, FirstAndRest
    <2> HIDE DEF X, G
    <2> QED
      BY <1>3, <2>1, TextInduction
  <1> QED
    BY <1>2, <1>5
-----------------------------------------------------------------------------
(* Blanks around a text.                                                   *)

\* The greatest of some numbers.
LEMMA GreatestExists ==
    ASSUME NEW n \in Nat, NEW T, T \subseteq 0..n, T # {}
    PROVE \E k \in T : \A m \in T : m <= k
  <1> DEFINE D == {d \in Nat : n - d \in T}
  <1>1. D \subseteq Nat /\ D # {}
    <2>1. PICK m \in T : TRUE
      OBVIOUS
    <2>2. n - m \in Nat /\ n - (n - m) = m
      OBVIOUS
    <2> QED
      BY <2>1, <2>2
  <1>2. PICK d \in D : \A e \in D : d <= e
    <2> HIDE DEF D
    <2> QED
      BY <1>1, LeastExists
  <1>3. n - d \in T /\ d \in Nat
    BY <1>2
  <1>4. ASSUME NEW m \in T PROVE m <= n - d
    <2>1. m \in Int /\ n - m \in Nat /\ n - (n - m) = m
      OBVIOUS
    <2>2. n - m \in D
      BY <2>1
    <2>3. d <= n - m
      <3> HIDE DEF D
      <3> QED
        BY <1>2, <2>2
    <2> QED
      BY <1>3, <2>1, <2>3
  <1> QED
    BY <1>3, <1>4

\* Strip cuts a text to what stands between its first and its last black
\* character.
LEMMA StripCuts ==
    ASSUME NEW S, NEW t \in Seq(S)
    PROVE /\ (\A k \in 1..Len(t) : t[k] \in White) => Strip(t) = <<>>
          /\ \A i, j \in 1..Len(t) :
               /\ t[i] \notin White /\ t[j] \notin White
               /\ \A k \in 1..Len(t) : t[k] \notin White => i <= k /\ k <= j
               => Strip(t) = SubSeq(t, i, j)
          /\ ~(\A k \in 1..Len(t) : t[k] \in White) =>
               \E i, j \in 1..Len(t) :
                 /\ t[i] \notin White /\ t[j] \notin White
                 /\ \A k \in 1..Len(t) : t[k] \notin White => i <= k /\ k <= j
  <1> DEFINE black == {i \in DOMAIN t : t[i] \notin White}
             low == CHOOSE i \in black : \A j \in black : i <= j
             high == CHOOSE i \in black : \A j \in black : i >= j
  <1>1. DOMAIN t = 1..Len(t) /\ Len(t) \in Nat
    BY LenProperties
  <1>2. Strip(t) = IF black = {} THEN <<>> ELSE SubSeq(t, low, high)
    BY DEF Strip
  <1>3. ASSUME NEW i \in 1..Len(t), NEW j \in 1..Len(t), t[i] \notin White, t[j] \notin White,
               \A k \in 1..Len(t) : t[k] \notin White => i <= k /\ k <= j
        PROVE Strip(t) = SubSeq(t, i, j)
    <2>1. i \in black /\ j \in black /\ black \subseteq Nat
      BY <1>1, <1>3
    <2>2. \A k \in black : i <= k /\ j >= k
      BY <1>1, <1>3
    <2> HIDE DEF black
    <2>3. low = i
      <3>1. low \in black /\ \A k \in black : low <= k
        BY <2>1, <2>2
      <3> HIDE DEF low
      <3>2. low <= i /\ i <= low /\ low \in Nat /\ i \in Nat
        BY <2>1, <2>2, <3>1
      <3> QED
        BY <3>2
    <2>4. high = j
      <3>1. high \in black /\ \A k \in black : high >= k
        BY <2>1, <2>2
      <3> HIDE DEF high
      <3>2. high >= j /\ j >= high /\ high \in Nat /\ j \in Nat
        BY <2>1, <2>2, <3>1
      <3> QED
        BY <3>2
    <2> HIDE DEF low, high
    <2> QED
      BY <1>2, <2>1, <2>3, <2>4
  <1>4. ASSUME ~(\A k \in 1..Len(t) : t[k] \in White)
        PROVE \E i, j \in 1..Len(t) :
                 /\ t[i] \notin White /\ t[j] \notin White
                 /\ \A k \in 1..Len(t) : t[k] \notin White => i <= k /\ k <= j
    <2>1. black # {} /\ black \subseteq Nat /\ black \subseteq 0..Len(t)
      BY <1>1, <1>4
    <2>2. \A k \in 1..Len(t) : t[k] \notin White => k \in black
      BY <1>1
    <2>3. \A k \in black : k \in 1..Len(t) /\ t[k] \notin White
      BY <1>1
    <2> HIDE DEF black
    <2>4. PICK i \in black : \A k \in black : i <= k
      BY <2>1, LeastExists
    <2>5. PICK j \in black : \A k \in black : k <= j
      BY <1>1, <2>1, GreatestExists
    <2>6. i \in 1..Len(t) /\ j \in 1..Len(t)
      BY <2>3
    <2> QED
      BY <2>2, <2>3, <2>4, <2>5, <2>6
  <1>5. (\A k \in 1..Len(t) : t[k] \in White) => Strip(t) = <<>>
    <2>1. (\A k \in 1..Len(t) : t[k] \in White) => black = {}
      BY <1>1
    <2> QED
      BY <1>2, <2>1
  <1> QED
    BY <1>3, <1>4, <1>5

\* A stripped text begins and ends black.
LEMMA StrippedEnds ==
    ASSUME NEW S, NEW t \in Seq(S), Strip(t) = t, t # <<>>
    PROVE Len(t) \in Nat /\ Len(t) >= 1 /\ t[1] \notin White /\ t[Len(t)] \notin White
  <1>1. Len(t) \in Nat /\ Len(t) >= 1
    BY EmptySeq, LenProperties
  <1>2. PICK i, j \in 1..Len(t) :
          /\ t[i] \notin White /\ t[j] \notin White
          /\ \A k \in 1..Len(t) : t[k] \notin White => i <= k /\ k <= j
    BY StripCuts
  <1>3. Strip(t) = SubSeq(t, i, j)
    BY <1>2, StripCuts
  <1>4. i <= j /\ i \in Nat /\ j \in Nat
    BY <1>1, <1>2
  <1>5. \A k \in i..j : t[k] \in S
    <2>1. \A k \in i..j : k \in 1..Len(t)
      BY <1>1, <1>4
    <2> QED
      BY <2>1, ElementOfSeq
  <1>6. Len(SubSeq(t, i, j)) = j - i + 1
    <2>1. Len(SubSeq(t, i, j)) = IF i <= j THEN j - i + 1 ELSE 0
      BY <1>4, <1>5, SubSeqProperties
    <2> QED
      BY <1>4, <2>1
  <1>7. Len(t) = j - i + 1
    BY <1>3, <1>6
  <1>8. i = 1 /\ j = Len(t)
    BY <1>1, <1>4, <1>7
  <1> QED
    BY <1>1, <1>2, <1>8

\* A text between two spaces.
Padded(c) == <<"sp">> \o c \o <<"sp">>

LEMMA PaddedIs ==
    ASSUME NEW c \in Seq(Alphabet)
    PROVE /\ Padded(c) \in Seq(Alphabet) /\ Len(Padded(c)) = Len(c) + 2
          /\ Padded(c)[1] = "sp" /\ Padded(c)[Len(c) + 2] = "sp"
          /\ \A k \in 1..Len(c) : Padded(c)[k + 1] = c[k]
  <1> DEFINE a == <<"sp">>
             b == a \o c
             p == b \o a
  <1>1. a \in Seq(Alphabet) /\ Len(a) = 1 /\ a[1] = "sp" /\ Len(c) \in Nat
    BY SignsAreCharacters, ShortLists, LenProperties
  <1>2. \A x, y \in Seq(Alphabet) :
             /\ x \o y \in Seq(Alphabet) /\ Len(x \o y) = Len(x) + Len(y)
             /\ \A k \in 1..Len(x) + Len(y) : (x \o y)[k] = IF k <= Len(x) THEN x[k] ELSE y[k - Len(x)]
    BY ConcatProperties
  <1> HIDE DEF a
  <1>3. /\ b \in Seq(Alphabet) /\ Len(b) = Len(a) + Len(c)
        /\ \A k \in 1..Len(a) + Len(c) : b[k] = IF k <= Len(a) THEN a[k] ELSE c[k - Len(a)]
    BY <1>1, <1>2, Zenon
  <1> HIDE DEF b
  <1>4. /\ p \in Seq(Alphabet) /\ Len(p) = Len(b) + Len(a)
        /\ \A k \in 1..Len(b) + Len(a) : p[k] = IF k <= Len(b) THEN b[k] ELSE a[k - Len(b)]
    BY <1>1, <1>2, <1>3, Zenon
  <1> HIDE DEF p
  <1>5. Len(p) = Len(c) + 2 /\ p[1] = "sp"
    BY <1>1, <1>3, <1>4
  <1>6. p[Len(c) + 2] = "sp"
    <2>1. Len(c) + 2 \in 1..Len(b) + Len(a) /\ ~(Len(c) + 2 <= Len(b)) /\ Len(c) + 2 - Len(b) = 1
      BY <1>1, <1>3
    <2> QED
      BY <1>1, <1>4, <2>1
  <1>7. ASSUME NEW k \in 1..Len(c) PROVE p[k + 1] = c[k]
    <2>1. /\ k + 1 \in 1..Len(b) + Len(a) /\ k + 1 <= Len(b) /\ k + 1 \in 1..Len(a) + Len(c)
          /\ ~(k + 1 <= Len(a)) /\ k + 1 - Len(a) = k
      BY <1>1, <1>3
    <2> QED
      BY <1>3, <1>4, <2>1
  <1>8. Padded(c) = p
    BY DEF Padded, p, a, b
  <1> QED
    BY <1>4, <1>5, <1>6, <1>7, <1>8

LEMMA PaddingIsStripped ==
    ASSUME NEW c \in Seq(Alphabet),
           c # <<>> => c[1] \notin White /\ c[Len(c)] \notin White
    PROVE Strip(Padded(c)) = c
  <1> DEFINE p == Padded(c)
  <1>1. /\ p \in Seq(Alphabet) /\ Len(p) = Len(c) + 2 /\ p[1] = "sp" /\ p[Len(c) + 2] = "sp"
        /\ \A k \in 1..Len(c) : p[k + 1] = c[k]
    BY PaddedIs
  <1> HIDE DEF p
  <1>2. "sp" \in White /\ Len(c) \in Nat
    BY LenProperties DEF White
  <1>3. CASE c = <<>>
    <2>1. Len(c) = 0
      BY <1>3
    <2>2. \A k \in 1..Len(p) : p[k] \in White
      <3>1. \A k \in 1..Len(p) : k = 1 \/ k = Len(c) + 2
        BY <1>1, <2>1
      <3> QED
        BY <1>1, <1>2, <3>1
    <2> QED
      BY <1>1, <1>3, <2>2, StripCuts DEF p
  <1>4. CASE c # <<>>
    <2>1. Len(c) >= 1
      BY <1>4, EmptySeq
    <2> DEFINE j == Len(c) + 1
    <2>2. 2 \in 1..Len(p) /\ j \in 1..Len(p) /\ 1 \in 1..Len(c) /\ Len(c) \in 1..Len(c) /\ 1 + 1 = 2
      BY <1>1, <1>2, <2>1
    <2>3. p[2] \notin White /\ p[j] \notin White
      <3>1. p[2] = c[1] /\ p[j] = c[Len(c)]
        BY <1>1, <2>2
      <3> QED
        BY <1>4, <3>1
    <2>4. \A k \in 1..Len(p) : p[k] \notin White => 2 <= k /\ k <= j
      <3>1. \A k \in 1..Len(p) : k = 1 \/ k = Len(c) + 2 \/ (2 <= k /\ k <= j)
        BY <1>1, <1>2
      <3> QED
        BY <1>1, <1>2, <3>1
    <2> HIDE DEF j
    <2>5. Strip(p) = SubSeq(p, 2, j)
      BY <1>1, <2>2, <2>3, <2>4, StripCuts
    <2> DEFINE s == SubSeq(p, 2, j)
    <2>6. /\ s \in Seq(Alphabet) /\ Len(s) = Len(c) /\ \A i \in 1..Len(c) : s[i] = p[i + 1]
      <3>1. \A k \in 2..j : p[k] \in Alphabet
        <4>1. \A k \in 2..j : k \in 1..Len(p)
          BY <1>1, <1>2 DEF j
        <4> QED
          BY <1>1, <4>1, ElementOfSeq
      <3>2. /\ s \in Seq(Alphabet) /\ Len(s) = (IF 2 <= j THEN j - 2 + 1 ELSE 0)
            /\ \A i \in 1..j - 2 + 1 : s[i] = p[2 + i - 1]
        <4>1. 2 \in Int /\ j \in Int
          BY <1>2 DEF j
        <4> QED
          BY <3>1, <4>1, SubSeqProperties
      <3> HIDE DEF s
      <3>3. j - 2 + 1 = Len(c) /\ 2 <= j /\ \A i \in 1..Len(c) : 2 + i - 1 = i + 1
        BY <1>2, <2>1 DEF j
      <3> QED
        BY <3>2, <3>3
    <2> HIDE DEF s
    <2>7. s = c
      <3>1. \A i \in 1..Len(s) : s[i] = c[i]
        BY <1>1, <2>6
      <3> QED
        BY <2>6, <3>1, SeqEqual
    <2> QED
      BY <2>5, <2>7 DEF s, p
  <1> QED
    BY <1>3, <1>4

\* The last character of a text decides the last of its coding.
LEMMA CodedLast ==
    ASSUME NEW w, Coding(w), NEW t \in Seq(Alphabet), t # <<>>
    PROVE Coded(w, t)[Len(Coded(w, t))] = w[t[Len(t)]][Len(w[t[Len(t)]])]
  <1> DEFINE X == {s \in Seq(Alphabet) : s # <<>> =>
                     Coded(w, s)[Len(Coded(w, s))] = w[s[Len(s)]][Len(w[s[Len(s)]])]}
             G == Seq(Alphabet)
  <1>1. \A s \in Seq(Alphabet) : Coded(w, s) \in Seq(Alphabet) /\ (s = <<>> => Coded(w, s) = <<>>)
    BY CodedUnfolds
  <1>2. ASSUME NEW s \in G, s # <<>>, Tail(s) \in X PROVE s \in X
    <2> DEFINE u == Tail(s)
               a == w[s[1]]
               b == Coded(w, u)
               d == a \o b
    <2>1. /\ s[1] \in Alphabet /\ u \in Seq(Alphabet) /\ Len(s) \in Nat /\ Len(s) >= 1
          /\ Len(u) = Len(s) - 1 /\ \A k \in 1..Len(s) - 1 : u[k] = s[k + 1]
      BY <1>2, FirstAndRest
    <2>2. Coded(w, s) = d /\ a \in Seq(Alphabet) /\ a # <<>> /\ b \in Seq(Alphabet)
      BY <1>1, <1>2, <2>1, CodedUnfolds DEF Coding
    <2>3. Len(a) \in Nat /\ Len(a) >= 1 /\ Len(b) \in Nat /\ (b = <<>> => Len(b) = 0)
      BY <2>2, EmptySeq, LenProperties
    <2>4. u # <<>> => b # <<>> /\ b[Len(b)] = w[u[Len(u)]][Len(w[u[Len(u)]])]
      BY <1>2, <2>1, CodedFirst
    <2>5. u = <<>> => Len(u) = 0 /\ b = <<>>
      BY <1>1, <2>1
    <2>6. \A x, y \in Seq(Alphabet) :
             /\ x \o y \in Seq(Alphabet) /\ Len(x \o y) = Len(x) + Len(y)
             /\ \A k \in 1..Len(x) + Len(y) : (x \o y)[k] = IF k <= Len(x) THEN x[k] ELSE y[k - Len(x)]
      BY ConcatProperties
    <2> HIDE DEF a, b
    <2>7. /\ Len(d) = Len(a) + Len(b)
          /\ \A k \in 1..Len(a) + Len(b) : d[k] = IF k <= Len(a) THEN a[k] ELSE b[k - Len(a)]
      BY <2>2, <2>6, Zenon
    <2> HIDE DEF d
    <2>8. CASE u = <<>>
      <3>1. Len(b) = 0 /\ Len(s) = 1
        BY <2>1, <2>3, <2>5, <2>8
      <3>2. Len(d) = Len(a) /\ Len(a) \in 1..Len(a) + Len(b)
        BY <2>3, <2>7, <3>1
      <3>3. d[Len(d)] = a[Len(a)]
        BY <2>3, <2>7, <3>2
      <3>4. a = w[s[Len(s)]]
        BY <3>1 DEF a
      <3> QED
        BY <1>2, <2>2, <3>3, <3>4
    <2>9. CASE u # <<>>
      <3>1. Len(b) >= 1
        BY <2>2, <2>4, <2>9, EmptySeq
      <3>2. Len(d) \in 1..Len(a) + Len(b) /\ ~(Len(d) <= Len(a)) /\ Len(d) - Len(a) = Len(b)
        BY <2>3, <2>7, <3>1
      <3>3. d[Len(d)] = b[Len(b)]
        BY <2>7, <3>2
      <3>4. Len(u) >= 1
        BY <2>1, <2>9, EmptySeq
      <3>5. u[Len(u)] = s[Len(s)]
        <4> HIDE DEF u
        <4>1. Len(u) \in 1..Len(s) - 1 /\ Len(u) + 1 = Len(s)
          BY <2>1, <3>4
        <4> QED
          BY <2>1, <4>1
      <3> QED
        BY <1>2, <2>2, <2>4, <2>9, <3>3, <3>5
    <2> QED
      BY <2>8, <2>9
  <1>3. G \subseteq X
    <2>1. <<>> \in G => <<>> \in X
      OBVIOUS
    <2>2. G \in SUBSET Seq(Alphabet) /\ \A s \in G : s # <<>> => Tail(s) \in G /\ (Tail(s) \in X => s \in X)
      BY <1>2, FirstAndRest
    <2> HIDE DEF X, G
    <2> QED
      BY <2>1, <2>2, TextInduction
  <1> QED
    BY <1>3

\* "Reverse run_report._md_cell": the three replacements of _unescape, one after
\* the other, undo those of _md_cell in any text, but for carriage returns and
\* for the newline's sign amid spaces.
THEOREM CellComesBack ==
    ASSUME NEW t \in Seq(Alphabet), Strip(t) = t, ~SignAmidSpaces(t)
    PROVE Unescape(Padded(MdCell(t))) = ReadBack(t)
  <1> DEFINE c == Coded(Cell, t)
  <1>1. Coding(Cell)
    BY CodingsAreCodings
  <1>2. \A k \in 1..Len(t) : t[k] \in Alphabet
    BY ElementOfSeq
  <1>3. MdCell(t) = c
    <2>1. DOMAIN t = 1..Len(t)
      BY LenProperties
    <2>2. \A i \in DOMAIN t : Cell[t[i]] = Written(t[i])
      BY <1>2, <2>1 DEF Cell
    <2>3. [i \in DOMAIN t |-> Written(t[i])] = [i \in DOMAIN t |-> Cell[t[i]]]
      BY <2>2
    <2> QED
      BY <2>3 DEF MdCell, Coded
  <1>4. c \in Seq(Alphabet)
    BY <1>1, CodedUnfolds
  <1>5. c # <<>> => c[1] \notin White /\ c[Len(c)] \notin White
    <2>1. CASE t = <<>>
      BY <1>1, <2>1, CodedUnfolds
    <2>2. CASE t # <<>>
      <3>1. Len(t) \in Nat /\ Len(t) >= 1 /\ t[1] \notin White /\ t[Len(t)] \notin White
        BY <2>2, StrippedEnds
      <3>2. 1 \in 1..Len(t) /\ Len(t) \in 1..Len(t)
        BY <3>1
      <3>3. \A d \in Alphabet : d \notin White =>
              /\ Len(Cell[d]) \in 1..2 /\ Cell[d][1] \notin White /\ Cell[d][Len(Cell[d])] \notin White
        <4> TAKE d \in Alphabet
        <4>1. SUFFICES ASSUME d \notin White
                PROVE /\ Len(Written(d)) \in 1..2 /\ Written(d)[1] \notin White
                      /\ Written(d)[Len(Written(d))] \notin White
          BY DEF Cell
        <4>2. \/ Written(d) = <<"bs", "bs">> \/ Written(d) = <<"bs", "bar">>
              \/ Written(d) = <<d>>
          BY <4>1, CodesAre DEF White
        <4>3. "bs" \notin White /\ "bar" \notin White
          BY DEF White
        <4> DEFINE x == Written(d)
        <4> HIDE DEF x
        <4>4. /\ x = <<"bs", "bs">> => Len(x) = 2 /\ x[1] = "bs" /\ x[2] = "bs"
              /\ x = <<"bs", "bar">> => Len(x) = 2 /\ x[1] = "bs" /\ x[2] = "bar"
              /\ x = <<d>> => Len(x) = 1 /\ x[1] = d
          OBVIOUS
        <4>5. Len(x) \in 1..2 /\ x[1] \notin White /\ x[Len(x)] \notin White
          BY <4>1, <4>2, <4>3, <4>4 DEF x
        <4> QED
          BY <4>5 DEF x
      <3>4. c[1] = Cell[t[1]][1]
        BY <1>1, <2>2, CodedFirst DEF FirstOf
      <3>5. c[Len(c)] = Cell[t[Len(t)]][Len(Cell[t[Len(t)]])]
        BY <1>1, <2>2, CodedLast
      <3> QED
        BY <1>2, <3>1, <3>2, <3>3, <3>4, <3>5
    <2> QED
      BY <2>1, <2>2
  <1> HIDE DEF c
  <1>6. Strip(Padded(c)) = c
    BY <1>4, <1>5, PaddingIsStripped
  <1>7. Replace(c, <<"sp", "ret", "sp">>, <<"nl">>) = Coded(Unsigned, t)
    BY SignsComeBack DEF c
  <1>8. Replace(Coded(Unsigned, t), <<"bs", "bar">>, <<"bar">>) = Coded(Unbarred, t)
    BY BarsComeBack
  <1>9. Replace(Coded(Unbarred, t), <<"bs", "bs">>, <<"bs">>) = Coded(Plain, t)
    BY SlashesComeBack
  <1>10. Coded(Plain, t) = ReadBack(t)
    BY PlainIsRead
  <1> QED
    BY <1>3, <1>6, <1>7, <1>8, <1>9, <1>10 DEF Unescape
-----------------------------------------------------------------------------
(* Rows, and where their cells begin and end.                              *)

\* The positions up to b, of which g lists those picked, come first.
LEMMA PickBegins ==
    ASSUME NEW N \in Nat, NEW R \in SUBSET (1..N), NEW b \in Nat, NEW n \in Nat, NEW g \in [1..n -> 1..N],
           \A k, l \in 1..n : k < l => g[k] < g[l],
           {r \in R : r <= b} = {g[k] : k \in 1..n}
    PROVE /\ n <= Cardinality(R) /\ Cardinality(R) \in Nat
          /\ \A s : Len(Pick(s, R)) = Cardinality(R) /\ \A k \in 1..n : Pick(s, R)[k] = s[g[k]]
  <1>1. PICK p : Enumerates(R, p)
    BY PickLists
  <1>2. IsFiniteSet(R) /\ Cardinality(R) \in Nat
    BY PickLists
  <1> DEFINE d == [i \in R |-> {j \in R : j <= i}]
  <1>3. /\ \A i \in R : Cardinality(d[i]) \in 1..Cardinality(R) /\ p[Cardinality(d[i])] = i
        /\ \A s : Pick(s, R) = [k \in 1..Cardinality(R) |-> s[p[k]]]
    BY <1>1 DEF Enumerates, Lists
  <1>4. ASSUME NEW k \in 1..n PROVE k \in 1..Cardinality(R) /\ p[k] = g[k]
    <2> DEFINE h == [l \in 1..k |-> g[l]]
    <2>1. k \in Nat /\ h \in [1..k -> 1..N] /\ \A l, m \in 1..k : l < m => h[l] < h[m]
      OBVIOUS
    <2>2. Cardinality({h[l] : l \in 1..k}) = k
      <3> HIDE DEF h
      <3> QED
        BY <2>1, PickClimbing
    <2>3. g[k] \in R /\ g[k] <= b
      BY <1>4
    <2>4. d[g[k]] = {h[l] : l \in 1..k}
      <3>1. d[g[k]] = {j \in R : j <= g[k]}
        BY <2>3
      <3>2. ASSUME NEW j \in R, j <= g[k] PROVE j \in {h[l] : l \in 1..k}
        <4>1. j \in 1..N /\ g[k] \in 1..N /\ j \in Nat /\ g[k] \in Nat
          OBVIOUS
        <4>2. j \in {g[l] : l \in 1..n}
          <5>1. \A r \in R : r = g[k] => r <= b
            BY <2>3
          <5>2. PICK l \in 1..n : g[l] = g[k]
            OBVIOUS
          <5>3. CASE j = g[k]
            BY <5>3
          <5>4. CASE j # g[k]
            <6>1. j < g[k]
              BY <3>2, <4>1, <5>4
            <6>2. j <= b
              BY <2>3, <3>2, <4>1, <6>1
            <6> QED
              BY <6>2
          <5> QED
            BY <5>3, <5>4
        <4>3. PICK l \in 1..n : j = g[l]
          BY <4>2
        <4>4. ~(k < l)
          BY <3>2, <4>1, <4>3
        <4>5. l \in 1..k
          BY <4>4
        <4> QED
          BY <4>3, <4>5
      <3>3. ASSUME NEW l \in 1..k PROVE h[l] \in R /\ h[l] <= g[k]
        <4>1. l \in 1..n /\ h[l] = g[l]
          OBVIOUS
        <4>2. g[l] \in R
          BY <4>1
        <4>3. l = k \/ l < k
          OBVIOUS
        <4> QED
          BY <4>1, <4>2, <4>3
      <3> HIDE DEF d, h
      <3> QED
        BY <3>1, <3>2, <3>3
    <2> HIDE DEF d
    <2> QED
      BY <1>3, <2>2, <2>3, <2>4
  <1>5. n <= Cardinality(R)
    <2>1. n # 0 => n \in 1..n
      OBVIOUS
    <2> QED
      BY <1>2, <1>4, <2>1
  <1>6. ASSUME NEW s PROVE Len(Pick(s, R)) = Cardinality(R) /\ \A k \in 1..n : Pick(s, R)[k] = s[g[k]]
    <2>1. Pick(s, R) = [k \in 1..Cardinality(R) |-> s[p[k]]]
      BY <1>3
    <2>2. \A k \in 1..n : k \in 1..Cardinality(R) /\ p[k] = g[k]
      BY <1>4
    <2> QED
      BY <1>2, <2>1, <2>2
  <1> QED
    BY <1>2, <1>5, <1>6

\* The part of a row before its first cut.
LEMMA LineBegins ==
    ASSUME NEW S, NEW chars \in Seq(S)
    PROVE \E n \in 0..Len(chars) :
            /\ FirstLine(chars) \in Seq(S) /\ Len(FirstLine(chars)) = n
            /\ \A k \in 1..n : FirstLine(chars)[k] = chars[k] /\ chars[k] # "ls"
            /\ n < Len(chars) => chars[n + 1] = "ls"
  <1> DEFINE I == {i \in 1..Len(chars) : chars[i] = "ls"}
             c == SelectInSeq(chars, LAMBDA d : d = "ls")
  <1>1. Len(chars) \in Nat
    BY LenProperties
  <1>2. c = IF I # {} THEN CHOOSE i \in I : \A j \in I : i <= j ELSE 0
    BY DEF SelectInSeq, Min
  <1>3. FirstLine(chars) = IF c = 0 THEN chars ELSE SubSeq(chars, 1, c - 1)
    BY DEF FirstLine
  <1>4. CASE I = {}
    <2>1. c = 0
      BY <1>2, <1>4
    <2>2. \A k \in 1..Len(chars) : chars[k] # "ls"
      BY <1>4
    <2> HIDE DEF c
    <2>3. FirstLine(chars) = chars /\ Len(chars) \in 0..Len(chars)
      BY <1>1, <1>3, <2>1
    <2> QED
      BY <2>2, <2>3
  <1>5. CASE I # {}
    <2>1. I \subseteq Nat
      BY <1>1
    <2>2. c \in I /\ \A j \in I : c <= j
      <3> HIDE DEF I, c
      <3>1. \E i \in I : \A j \in I : i <= j
        BY <1>5, <2>1, LeastExists
      <3>2. c = CHOOSE i \in I : \A j \in I : i <= j
        BY <1>2, <1>5
      <3> QED
        BY <3>1, <3>2
    <2> HIDE DEF c
    <2>3. c \in 1..Len(chars) /\ chars[c] = "ls" /\ \A k \in 1..Len(chars) : k < c => chars[k] # "ls"
      BY <1>1, <2>2
    <2> DEFINE s == SubSeq(chars, 1, c - 1)
    <2>4. \A k \in 1..c - 1 : k \in 1..Len(chars) /\ k < c
      BY <1>1, <2>3
    <2>5. /\ s \in Seq(S) /\ Len(s) = c - 1 /\ \A k \in 1..c - 1 : s[k] = chars[k]
      <3>1. \A k \in 1..c - 1 : chars[k] \in S
        BY <2>4, ElementOfSeq
      <3>2. c \in Nat /\ c >= 1 /\ 1 \in Int /\ c - 1 \in Int
        BY <1>1, <2>3
      <3>3. /\ s \in Seq(S) /\ Len(s) = (IF 1 <= c - 1 THEN (c - 1) - 1 + 1 ELSE 0)
            /\ \A i \in 1..(c - 1) - 1 + 1 : s[i] = chars[1 + i - 1]
        BY <3>1, <3>2, SubSeqProperties
      <3> HIDE DEF s
      <3>4. (c - 1) - 1 + 1 = c - 1 /\ (IF 1 <= c - 1 THEN c - 1 ELSE 0) = c - 1
            /\ \A i \in 1..c - 1 : 1 + i - 1 = i
        BY <3>2
      <3> QED
        BY <3>3, <3>4
    <2>6. FirstLine(chars) = s
      BY <1>1, <1>3, <2>3
    <2> HIDE DEF s
    <2>7. c - 1 \in 0..Len(chars) /\ (c - 1) + 1 = c
      BY <1>1, <2>3
    <2> QED
      BY <2>3, <2>4, <2>5, <2>6, <2>7
  <1> QED
    BY <1>4, <1>5

\* A row up to the end of its source's cell, of m characters.
Shape(chars, m) ==
    \A k \in 1..Len(chars) :
      /\ k <= 10 => chars[k] # "bs" /\ (chars[k] = "bar" <=> k \in {1, 5, 9})
      /\ k > 10 /\ k <= 10 + m /\ chars[k] = "bar" => chars[k - 1] = "bs"
      /\ k = 11 + m => chars[k] = "sp"
      /\ k = 12 + m => chars[k] = "bar"

\* Its separators.
LEMMA SeparatorsBegin ==
    ASSUME NEW S, NEW chars \in Seq(S), NEW m \in Nat, Shape(chars, m)
    PROVE /\ Separators(chars) \in SUBSET (1..Len(chars)) /\ Len(chars) \in Nat
          /\ Len(chars) >= 12 + m =>
               {r \in Separators(chars) : r <= 12 + m} = {1, 5, 9, 12 + m}
          /\ Len(chars) >= 10 /\ Len(chars) <= 10 + m => Separators(chars) = {1, 5, 9}
  <1> DEFINE R == Separators(chars)
             n == Len(chars)
  <1>1. n \in Nat /\ R = {i \in 1..n : chars[i] = "bar" /\ (i = 1 \/ chars[i - 1] # "bs")}
    BY LenProperties DEF Separators
  <1>2. \A k \in 1..n :
          /\ k <= 10 => chars[k] # "bs" /\ (chars[k] = "bar" <=> k \in {1, 5, 9})
          /\ k > 10 /\ k <= 10 + m /\ chars[k] = "bar" => chars[k - 1] = "bs"
          /\ k = 11 + m => chars[k] = "sp"
          /\ k = 12 + m => chars[k] = "bar"
    BY DEF Shape
  <1> HIDE DEF R, n
  <1>3. ASSUME NEW r \in 1..n, r <= 10 PROVE r \in R <=> r \in {1, 5, 9}
    <2>1. r # 1 => r - 1 \in 1..n /\ r - 1 <= 10
      BY <1>1, <1>3
    <2>2. r # 1 => chars[r - 1] # "bs"
      BY <1>2, <2>1
    <2> QED
      BY <1>1, <1>2, <1>3, <2>2
  <1>4. ASSUME NEW r \in 1..n, r > 10, r <= 11 + m PROVE r \notin R
    <2>1. r # 1 /\ (r <= 10 + m \/ r = 11 + m)
      BY <1>1, <1>4
    <2> QED
      BY <1>1, <1>2, <1>4, <2>1
  <1>5. n >= 12 + m => 12 + m \in R
    <2>1. SUFFICES ASSUME n >= 12 + m PROVE 12 + m \in R
      OBVIOUS
    <2>2. 12 + m \in 1..n /\ 11 + m \in 1..n /\ (12 + m) - 1 = 11 + m
      BY <1>1, <2>1
    <2>3. chars[12 + m] = "bar" /\ chars[(12 + m) - 1] # "bs"
      BY <1>2, <2>2
    <2> QED
      BY <1>1, <2>2, <2>3
  <1>6. ASSUME n >= 12 + m PROVE {r \in R : r <= 12 + m} = {1, 5, 9, 12 + m}
    <2>1. ASSUME NEW r \in R, r <= 12 + m PROVE r \in {1, 5, 9, 12 + m}
      <3>1. r \in 1..n /\ r \in Nat
        BY <1>1
      <3>2. r <= 10 \/ (r > 10 /\ r <= 11 + m) \/ r = 12 + m
        BY <2>1, <3>1
      <3> QED
        BY <1>3, <1>4, <3>1, <3>2
    <2>2. /\ 1 \in 1..n /\ 5 \in 1..n /\ 9 \in 1..n /\ 12 + m \in Nat
          /\ 1 <= 12 + m /\ 5 <= 12 + m /\ 9 <= 12 + m /\ 12 + m <= 12 + m
          /\ 1 <= 10 /\ 5 <= 10 /\ 9 <= 10
      BY <1>1, <1>6
    <2>3. 1 \in R /\ 5 \in R /\ 9 \in R /\ 12 + m \in R
      BY <1>3, <1>5, <1>6, <2>2
    <2> QED
      BY <2>1, <2>2, <2>3
  <1>7. ASSUME n >= 10, n <= 10 + m PROVE R = {1, 5, 9}
    <2>1. ASSUME NEW r \in R PROVE r \in {1, 5, 9}
      <3>1. r \in 1..n /\ r \in Nat /\ (r <= 10 \/ (r > 10 /\ r <= 11 + m))
        BY <1>1, <1>7
      <3> QED
        BY <1>3, <1>4, <3>1
    <2>2. 1 \in 1..n /\ 5 \in 1..n /\ 9 \in 1..n /\ 1 <= 10 /\ 5 <= 10 /\ 9 <= 10
      BY <1>1, <1>7
    <2>3. 1 \in R /\ 5 \in R /\ 9 \in R
      BY <1>3, <2>2
    <2> QED
      BY <2>1, <2>3
  <1>8. R \in SUBSET (1..n)
    BY <1>1
  <1> QED
    BY <1>1, <1>6, <1>7, <1>8 DEF R, n

\* What is read of a row: its source's cell, unless a cut is before that cell's end.
LEMMA SourceRead ==
    ASSUME NEW S, NEW line, line.chars \in Seq(S), NEW m \in Nat, Shape(line.chars, m),
           Len(line.chars) >= 12 + m
    PROVE /\ (\A k \in 1..12 + m : line.chars[k] # "ls")
               => SourceOf(line) = Unescape(SubSeq(line.chars, 10, 11 + m))
          /\ (\A k \in 1..10 : line.chars[k] # "ls") /\ (\E k \in 11..10 + m : line.chars[k] = "ls")
               => SourceOf(line) = <<>>
  <1> DEFINE chars == line.chars
             x == FirstLine(chars)
             R == Separators(x)
             bars == Positions(R)
  <1>1. chars \in Seq(S) /\ Len(chars) \in Nat
    BY LenProperties
  <1> HIDE DEF chars
  <1>2. PICK n \in 0..Len(chars) :
            /\ x \in Seq(S) /\ Len(x) = n
            /\ \A k \in 1..n : x[k] = chars[k] /\ chars[k] # "ls"
            /\ n < Len(chars) => chars[n + 1] = "ls"
    BY <1>1, LineBegins
  <1> HIDE DEF x
  <1>3. Shape(x, m)
    <2>1. \A k \in 1..n : k \in 1..Len(chars)
      BY <1>1
    <2>2. \A k \in 1..n : k > 10 => k - 1 \in 1..n
      BY <1>1
    <2> QED
      BY <1>2, <2>1, <2>2 DEF Shape, chars
  <1>4. /\ R \in SUBSET (1..n) /\ n \in Nat
        /\ n >= 12 + m => {r \in R : r <= 12 + m} = {1, 5, 9, 12 + m}
        /\ n >= 10 /\ n <= 10 + m => R = {1, 5, 9}
    BY <1>2, <1>3, SeparatorsBegin
  <1> HIDE DEF R
  <1>5. SourceOf(line) = IF Len(bars) < 4 THEN <<>> ELSE Unescape(SubSeq(x, bars[3] + 1, bars[4] - 1))
    BY DEF SourceOf, x, chars, R
  <1>6. bars = Pick([i \in R |-> i], R)
    BY DEF Positions
  <1>7. ASSUME \A k \in 1..12 + m : chars[k] # "ls"
        PROVE SourceOf(line) = Unescape(SubSeq(chars, 10, 11 + m))
    <2>1. n >= 12 + m
      <3>1. n < Len(chars) => ~(n + 1 \in 1..12 + m)
        BY <1>2, <1>7
      <3> QED
        BY <1>1, <1>4, <3>1 DEF chars
    <2> DEFINE g == <<1, 5, 9, 12 + m>>
    <2>2. 1 \in 1..n /\ 5 \in 1..n /\ 9 \in 1..n /\ 12 + m \in 1..n
      BY <1>4, <2>1
    <2>3. g \in [1..4 -> 1..n] /\ g[1] = 1 /\ g[2] = 5 /\ g[3] = 9 /\ g[4] = 12 + m
      BY <2>2
    <2> HIDE DEF g
    <2>4. \A k, l \in 1..4 : k < l => g[k] < g[l]
      BY <2>3
    <2>5. {g[k] : k \in 1..4} = {1, 5, 9, 12 + m}
      <3>1. \A k \in 1..4 : k = 1 \/ k = 2 \/ k = 3 \/ k = 4
        OBVIOUS
      <3>2. 1 \in 1..4 /\ 2 \in 1..4 /\ 3 \in 1..4 /\ 4 \in 1..4
        OBVIOUS
      <3> QED
        BY <2>3, <3>1, <3>2
    <2>6. {r \in R : r <= 12 + m} = {g[k] : k \in 1..4} /\ 4 \in Nat /\ 12 + m \in Nat
      <3>1. {r \in R : r <= 12 + m} = {1, 5, 9, 12 + m}
        BY <1>4, <2>1
      <3>2. {r \in R : r <= 12 + m} = {g[k] : k \in 1..4}
        BY <2>5, <3>1, Zenon
      <3>3. 12 + m \in Nat
        OBVIOUS
      <3> QED
        BY <3>2, <3>3
    <2>7. /\ 4 <= Cardinality(R) /\ Cardinality(R) \in Nat
          /\ \A s : Len(Pick(s, R)) = Cardinality(R) /\ \A k \in 1..4 : Pick(s, R)[k] = s[g[k]]
      <3>1. n \in Nat /\ R \in SUBSET (1..n) /\ g \in [1..4 -> 1..n]
        BY <1>4, <2>3
      <3> QED
        BY <2>4, <2>6, <3>1, PickBegins, ZenonT(40)
    <2>8. Len(bars) = Cardinality(R) /\ \A k \in 1..4 : bars[k] = [i \in R |-> i][g[k]]
      BY <1>6, <2>7
    <2>9. 9 \in R /\ 12 + m \in R
      BY <1>4, <2>1
    <2>10. bars[3] = 9 /\ bars[4] = 12 + m /\ ~(Len(bars) < 4)
      <3>1. 3 \in 1..4 /\ 4 \in 1..4
        OBVIOUS
      <3>2. bars[3] = [i \in R |-> i][9] /\ bars[4] = [i \in R |-> i][12 + m]
        BY <2>3, <2>8, <3>1
      <3> QED
        BY <2>7, <2>8, <2>9, <3>2
    <2> HIDE DEF bars
    <2>11. SourceOf(line) = Unescape(SubSeq(x, 10, 11 + m))
      <3>1. bars[3] + 1 = 10 /\ bars[4] - 1 = 11 + m
        BY <2>10
      <3> QED
        BY <1>5, <2>10, <3>1
    <2>12. SubSeq(x, 10, 11 + m) = SubSeq(chars, 10, 11 + m)
      <3>1. \A i \in 1..(11 + m) - 10 + 1 : x[10 + i - 1] = chars[10 + i - 1]
        <4>1. \A i \in 1..(11 + m) - 10 + 1 : 10 + i - 1 \in 1..n
          BY <2>1, <1>4
        <4> QED
          BY <1>2, <4>1
      <3>2. /\ SubSeq(x, 10, 11 + m) = [i \in 1..(11 + m) - 10 + 1 |-> x[10 + i - 1]]
            /\ SubSeq(chars, 10, 11 + m) = [i \in 1..(11 + m) - 10 + 1 |-> chars[10 + i - 1]]
        OBVIOUS
      <3> QED
        BY <3>1, <3>2
    <2> QED
      BY <2>11, <2>12
  <1>8. ASSUME \A k \in 1..10 : chars[k] # "ls", NEW k \in 11..10 + m, chars[k] = "ls"
        PROVE SourceOf(line) = <<>>
    <2>1. n >= 10 /\ n <= 10 + m
      <3>1. n < Len(chars) => ~(n + 1 \in 1..10)
        BY <1>2, <1>8
      <3>2. ~(k \in 1..n)
        BY <1>2, <1>8
      <3> QED
        BY <1>1, <1>4, <3>1, <3>2 DEF chars
    <2>2. R = {1, 5, 9}
      BY <1>4, <2>1
    <2>3. Cardinality(R) = 3
      <3> DEFINE g == <<1, 5, 9>>
      <3>1. 1 \in 1..n /\ 5 \in 1..n /\ 9 \in 1..n
        BY <1>4, <2>1
      <3>2. g \in [1..3 -> 1..n] /\ g[1] = 1 /\ g[2] = 5 /\ g[3] = 9
        BY <3>1
      <3> HIDE DEF g
      <3>3. \A l, h \in 1..3 : l < h => g[l] < g[h]
        BY <3>2
      <3>4. {g[l] : l \in 1..3} = {1, 5, 9}
        <4>1. \A l \in 1..3 : l = 1 \/ l = 2 \/ l = 3
          OBVIOUS
        <4>2. 1 \in 1..3 /\ 2 \in 1..3 /\ 3 \in 1..3
          OBVIOUS
        <4> QED
          BY <3>2, <4>1, <4>2
      <3>5. Cardinality({g[l] : l \in 1..3}) = 3
        BY <1>4, <3>2, <3>3, PickClimbing
      <3> QED
        BY <2>2, <3>4, <3>5
    <2>4. Len(bars) = 3
      <3>1. Len(bars) = Cardinality(R)
        BY <1>6, <2>3 DEF Pick
      <3> QED
        BY <2>3, <3>1
    <2> HIDE DEF bars
    <2> QED
      BY <1>5, <2>4
  <1> QED
    BY <1>7, <1>8 DEF chars

\* A bar of a cell stands behind a backslash, and a cell is cut where its text is.
LEMMA CellMarks ==
    ASSUME NEW t \in Seq(Alphabet)
    PROVE /\ MdCell(t) \in Seq(Alphabet)
          /\ \A k \in 1..Len(MdCell(t)) : MdCell(t)[k] = "bar" => k > 1 /\ MdCell(t)[k - 1] = "bs"
          /\ (\E k \in 1..Len(MdCell(t)) : MdCell(t)[k] = "ls") <=> (\E i \in 1..Len(t) : t[i] = "ls")
  <1> DEFINE s == [i \in DOMAIN t |-> Written(t[i])]
             F == FlattenSeq(s)
  <1>1. Len(t) \in Nat /\ DOMAIN t = 1..Len(t) /\ \A i \in 1..Len(t) : t[i] \in Alphabet
    BY LenProperties, ElementOfSeq
  <1>2. \A c \in Alphabet : Written(c) \in Seq(Alphabet) /\ Len(Written(c)) >= 1
    <2> TAKE c \in Alphabet
    <2>1. Written(c) \in Seq(Alphabet) /\ Written(c) # <<>>
      <3>1. Cell[c] = Written(c) /\ Cell[c] \in Seq(Alphabet) /\ Cell[c] # <<>>
        BY CodingsAreCodings DEF Coding, Cell
      <3> QED
        BY <3>1
    <2> QED
      BY <2>1, EmptySeq
  <1>3. s \in Seq(Seq(Alphabet)) /\ Len(s) = Len(t) /\ \A i \in 1..Len(t) : s[i] = Written(t[i])
    BY <1>1, <1>2
  <1> HIDE DEF s
  <1>4. PICK off : F \in Seq(Alphabet) /\ Blocks(s, F, off)
    BY <1>3, FlattenBlocks
  <1> HIDE DEF F
  <1>14. Covers(s, F, off)
    BY <1>3, <1>4, BlocksCover, Zenon
  <1>5. /\ \A i, k \in 0..Len(s) : i <= k => off[i] <= off[k]
        /\ \A q \in 1..Len(F) : \E i \in 1..Len(s) : \E j \in 1..Len(s[i]) : q = off[i - 1] + j
    BY <1>14 DEF Covers
  <1>6. \A i \in 1..Len(s) : \A j \in 1..Len(s[i]) : F[off[i - 1] + j] = s[i][j]
    BY <1>4 DEF Blocks
  <1>7. \A i \in 1..Len(t) : i \in 0..Len(s) /\ i - 1 \in 0..Len(s) /\ i \in 1..Len(s)
    BY <1>1, <1>3
  <1>8. \A i \in 0..Len(s) : off[i] \in Nat
    BY <1>4 DEF Blocks
  <1>9. \A c \in Alphabet : \A j \in 1..Len(Written(c)) :
          /\ Written(c)[j] = "bar" => j = 2 /\ Written(c)[1] = "bs"
          /\ Written(c)[j] = "ls" => c = "ls"
    <2> TAKE c \in Alphabet
    <2> DEFINE x == Written(c)
    <2>1. /\ c = "bs" => x = <<"bs", "bs">>
          /\ c = "bar" => x = <<"bs", "bar">>
          /\ c = "nl" => x = <<"sp", "ret", "sp">>
          /\ c = "cr" => x = <<"sp">>
          /\ c \notin {"bs", "bar", "nl", "cr"} => x = <<c>>
      BY CodesAre
    <2> HIDE DEF x
    <2>2. \/ x = <<"bs", "bs">> \/ x = <<"bs", "bar">> \/ x = <<"sp", "ret", "sp">> \/ x = <<"sp">>
          \/ c # "bar" /\ x = <<c>>
      BY <2>1
    <2>3. ASSUME NEW j \in 1..Len(x), x[j] = "bar" PROVE j = 2 /\ x[1] = "bs"
      BY <2>2, <2>3
    <2>4. ASSUME NEW j \in 1..Len(x), x[j] = "ls" PROVE c = "ls"
      BY <2>2, <2>4
    <2> QED
      BY <2>3, <2>4 DEF x
  <1>10. ASSUME NEW k \in 1..Len(F), F[k] = "bar" PROVE k > 1 /\ F[k - 1] = "bs"
    <2>1. PICK i \in 1..Len(s) : \E j \in 1..Len(s[i]) : k = off[i - 1] + j
      BY <1>5
    <2>2. PICK j \in 1..Len(s[i]) : k = off[i - 1] + j
      BY <2>1
    <2>3. i \in 1..Len(t) /\ t[i] \in Alphabet /\ s[i] = Written(t[i]) /\ off[i - 1] \in Nat
      BY <1>1, <1>3, <1>7, <1>8
    <2>4. s[i][j] = "bar"
      BY <1>6, <1>10, <2>2
    <2>5. j = 2 /\ s[i][1] = "bs"
      BY <1>9, <2>3, <2>4
    <2>6. 1 \in 1..Len(s[i])
      <3>1. Len(s[i]) \in Nat
        BY <1>2, <2>3, LenProperties
      <3> QED
        BY <2>5, <3>1
    <2>7. F[off[i - 1] + 1] = "bs"
      BY <1>6, <2>5, <2>6
    <2>8. k - 1 = off[i - 1] + 1 /\ k > 1
      BY <2>2, <2>3, <2>5
    <2> QED
      BY <2>7, <2>8
  <1>11. ASSUME NEW k \in 1..Len(F), F[k] = "ls" PROVE \E i \in 1..Len(t) : t[i] = "ls"
    <2>1. PICK i \in 1..Len(s) : \E j \in 1..Len(s[i]) : k = off[i - 1] + j
      BY <1>5
    <2>2. PICK j \in 1..Len(s[i]) : k = off[i - 1] + j
      BY <2>1
    <2>3. i \in 1..Len(t) /\ t[i] \in Alphabet /\ s[i] = Written(t[i])
      BY <1>1, <1>3
    <2>4. s[i][j] = "ls"
      BY <1>6, <1>11, <2>2
    <2> QED
      BY <1>9, <2>3, <2>4
  <1>12. ASSUME NEW i \in 1..Len(t), t[i] = "ls" PROVE \E k \in 1..Len(F) : F[k] = "ls"
    <2>1. i \in 1..Len(s) /\ s[i] = Written("ls") /\ "ls" \in Alphabet /\ i \in 0..Len(s) /\ i - 1 \in 0..Len(s)
      BY <1>1, <1>3, <1>7, <1>12
    <2>2. Written("ls") = <<"ls">>
      BY DEF Written
    <2>3. Len(s[i]) = 1 /\ s[i][1] = "ls" /\ 1 \in 1..Len(s[i])
      <3>1. s[i] = <<"ls">>
        BY <2>1, <2>2
      <3> QED
        BY <3>1
    <2>4. F[off[i - 1] + 1] = "ls"
      BY <1>6, <2>1, <2>3
    <2>5. off[i] = off[i - 1] + 1 /\ off[i] <= off[Len(s)] /\ off[Len(s)] = Len(F)
      <3>1. off[i] = off[i - 1] + Len(s[i]) /\ off[Len(s)] = Len(F)
        BY <1>4, <2>1 DEF Blocks
      <3>2. Len(s) \in 0..Len(s) /\ i <= Len(s)
        BY <1>1, <1>3
      <3>3. off[i] <= off[Len(s)]
        BY <1>5, <2>1, <3>2
      <3> QED
        BY <2>3, <3>1, <3>3
    <2>6. off[i - 1] + 1 \in 1..Len(F)
      <3>1. off[i - 1] \in Nat /\ off[i] \in Nat /\ Len(F) \in Nat
        BY <1>4, <1>8, <2>1, LenProperties
      <3> QED
        BY <2>5, <3>1
    <2> QED
      BY <2>4, <2>6
  <1>13. MdCell(t) = F
    BY DEF MdCell, F, s
  <1> QED
    BY <1>4, <1>10, <1>11, <1>12, <1>13

\* A concatenation of three.
LEMMA ConcatThree ==
    ASSUME NEW S, NEW a \in Seq(S), NEW x \in Seq(S), NEW b \in Seq(S)
    PROVE LET d == a \o x \o b
          IN  /\ d \in Seq(S) /\ Len(d) = Len(a) + Len(x) + Len(b)
              /\ \A k \in 1..Len(a) : d[k] = a[k]
              /\ \A k \in 1..Len(x) : d[Len(a) + k] = x[k]
              /\ \A k \in 1..Len(b) : d[Len(a) + Len(x) + k] = b[k]
  <1> DEFINE c == a \o x
             d == c \o b
  <1>1. Len(a) \in Nat /\ Len(x) \in Nat /\ Len(b) \in Nat
    BY LenProperties
  <1>2. \A y, z \in Seq(S) :
             /\ y \o z \in Seq(S) /\ Len(y \o z) = Len(y) + Len(z)
             /\ \A k \in 1..Len(y) + Len(z) : (y \o z)[k] = IF k <= Len(y) THEN y[k] ELSE z[k - Len(y)]
    BY ConcatProperties
  <1>3. /\ c \in Seq(S) /\ Len(c) = Len(a) + Len(x)
        /\ \A k \in 1..Len(a) + Len(x) : c[k] = IF k <= Len(a) THEN a[k] ELSE x[k - Len(a)]
    BY <1>2, Zenon
  <1> HIDE DEF c
  <1>4. /\ d \in Seq(S) /\ Len(d) = Len(c) + Len(b)
        /\ \A k \in 1..Len(c) + Len(b) : d[k] = IF k <= Len(c) THEN c[k] ELSE b[k - Len(c)]
    BY <1>2, <1>3, Zenon
  <1> HIDE DEF d
  <1>5. ASSUME NEW k \in 1..Len(a) PROVE d[k] = a[k]
    <2>1. k \in 1..Len(c) + Len(b) /\ k <= Len(c) /\ k \in 1..Len(a) + Len(x) /\ k <= Len(a)
      BY <1>1, <1>3
    <2> QED
      BY <1>3, <1>4, <2>1
  <1>6. ASSUME NEW k \in 1..Len(x) PROVE d[Len(a) + k] = x[k]
    <2> DEFINE l == Len(a) + k
    <2>1. /\ l \in 1..Len(c) + Len(b) /\ l <= Len(c) /\ l \in 1..Len(a) + Len(x)
          /\ ~(l <= Len(a)) /\ l - Len(a) = k
      BY <1>1, <1>3
    <2> HIDE DEF l
    <2>2. d[l] = x[k]
      BY <1>3, <1>4, <2>1
    <2> QED
      BY <2>2 DEF l
  <1>7. ASSUME NEW k \in 1..Len(b) PROVE d[Len(a) + Len(x) + k] = b[k]
    <2> DEFINE l == Len(a) + Len(x) + k
    <2>1. l \in 1..Len(c) + Len(b) /\ ~(l <= Len(c)) /\ l - Len(c) = k
      BY <1>1, <1>3
    <2> HIDE DEF l
    <2>2. d[l] = b[k]
      BY <1>4, <2>1
    <2> QED
      BY <2>2 DEF l
  <1>8. d = a \o x \o b
    BY DEF d, c
  <1> QED
    BY <1>1, <1>3, <1>4, <1>5, <1>6, <1>7, <1>8

\* A row's characters up to the end of its source's cell.
LEMMA RowIs ==
    ASSUME NEW src \in Seq(Alphabet), NEW dst \in Seq(Alphabet)
    PROVE LET chars == Row(src, dst).chars
              m == Len(MdCell(src))
          IN  /\ chars \in Seq(Alphabet \cup {"n", "bounds"})
              /\ m \in Nat /\ Len(chars) \in Nat /\ Len(chars) >= 13 + m
              /\ \A k \in 1..10 : chars[k] = <<"bar", "sp", "n", "sp", "bar", "sp", "bounds",
                                               "sp", "bar", "sp">>[k]
              /\ \A k \in 1..m : chars[10 + k] = MdCell(src)[k]
              /\ chars[11 + m] = "sp" /\ chars[12 + m] = "bar"
  <1> DEFINE S == Alphabet \cup {"n", "bounds"}
             sep == <<"sp", "bar", "sp">>
             a == <<"bar", "sp", "n", "sp", "bar", "sp", "bounds", "sp", "bar", "sp">>
             x == MdCell(src)
             y == MdCell(dst)
             e == <<"sp", "bar">>
             d == a \o x \o sep
             r == d \o y \o e
  <1>1. x \in Seq(S) /\ y \in Seq(S) /\ Len(x) \in Nat /\ Len(y) \in Nat
    <2>1. \A z \in Seq(Alphabet) : z \in Seq(S)
      <3> TAKE z \in Seq(Alphabet)
      <3>1. \A i \in 1..Len(z) : z[i] \in S
        BY ElementOfSeq
      <3> QED
        BY <3>1
    <2>2. x \in Seq(Alphabet) /\ y \in Seq(Alphabet)
      BY CellMarks
    <2> HIDE DEF x, y, S
    <2> QED
      BY <2>1, <2>2, LenProperties
  <1>2. "sp" \in S /\ "bar" \in S /\ "n" \in S /\ "bounds" \in S
    BY SignsAreCharacters
  <1> HIDE DEF x, y, S
  <1>4. a \in Seq(S) /\ Len(a) = 10
    BY <1>2
  <1> HIDE DEF a
  <1>5. sep \in Seq(S) /\ Len(sep) = 3 /\ sep[1] = "sp" /\ sep[2] = "bar"
    BY <1>2
  <1>6. e \in Seq(S) /\ Len(e) = 2
    BY <1>2
  <1> HIDE DEF sep, e
  <1>14. \A p, q, o \in Seq(S) :
           /\ p \o q \o o \in Seq(S) /\ Len(p \o q \o o) = Len(p) + Len(q) + Len(o)
           /\ \A k \in 1..Len(p) : (p \o q \o o)[k] = p[k]
           /\ \A k \in 1..Len(q) : (p \o q \o o)[Len(p) + k] = q[k]
           /\ \A k \in 1..Len(o) : (p \o q \o o)[Len(p) + Len(q) + k] = o[k]
    BY ConcatThree
  <1>7. /\ d \in Seq(S) /\ Len(d) = Len(a) + Len(x) + Len(sep)
        /\ \A k \in 1..Len(a) : d[k] = a[k]
        /\ \A k \in 1..Len(x) : d[Len(a) + k] = x[k]
        /\ \A k \in 1..Len(sep) : d[Len(a) + Len(x) + k] = sep[k]
    BY <1>1, <1>4, <1>5, <1>14, Zenon
  <1> HIDE DEF d
  <1>8. /\ r \in Seq(S) /\ Len(r) = Len(d) + Len(y) + Len(e)
        /\ \A k \in 1..Len(d) : r[k] = d[k]
    <2>1. d \in Seq(S) /\ y \in Seq(S) /\ e \in Seq(S)
      BY <1>1, <1>6, <1>7
    <2>2. /\ d \o y \o e \in Seq(S) /\ Len(d \o y \o e) = Len(d) + Len(y) + Len(e)
          /\ \A k \in 1..Len(d) : (d \o y \o e)[k] = d[k]
      BY <1>14, <2>1, Zenon
    <2> QED
      BY <2>2
  <1> HIDE DEF r
  <1>9. \A k \in 1..10 : r[k] = a[k]
    <2>1. \A k \in 1..10 : k \in 1..Len(a) /\ k \in 1..Len(d)
      BY <1>1, <1>4, <1>5, <1>7
    <2> QED
      BY <1>4, <1>7, <1>8, <2>1
  <1>10. \A k \in 1..Len(x) : r[10 + k] = x[k]
    <2>1. \A k \in 1..Len(x) : 10 + k \in 1..Len(d)
      BY <1>1, <1>4, <1>5, <1>7
    <2> QED
      BY <1>4, <1>7, <1>8, <2>1
  <1>11. r[11 + Len(x)] = "sp" /\ r[12 + Len(x)] = "bar"
    <2>1. 11 + Len(x) \in 1..Len(d) /\ 12 + Len(x) \in 1..Len(d)
          /\ 11 + Len(x) = Len(a) + Len(x) + 1 /\ 12 + Len(x) = Len(a) + Len(x) + 2
          /\ 1 \in 1..Len(sep) /\ 2 \in 1..Len(sep)
      BY <1>1, <1>4, <1>5, <1>7
    <2> QED
      BY <1>5, <1>7, <1>8, <2>1
  <1>12. Len(r) \in Nat /\ Len(r) >= 13 + Len(x)
    BY <1>1, <1>4, <1>5, <1>6, <1>7, <1>8
  <1>13. Row(src, dst).chars = r
    BY DEF Row, r, d, a, x, y, sep, e
  <1> QED
    BY <1>1, <1>8, <1>9, <1>10, <1>11, <1>12, <1>13 DEF S, x, a

\* So a row gives its source, unless that is cut.
LEMMA RowSource ==
    ASSUME NEW src \in Seq(Alphabet), NEW dst \in Seq(Alphabet)
    PROVE SourceOf(Row(src, dst)) = IF \E i \in 1..Len(src) : src[i] = "ls" THEN <<>>
                                    ELSE Unescape(Padded(MdCell(src)))
  <1> DEFINE line == Row(src, dst)
             chars == line.chars
             c == MdCell(src)
             m == Len(c)
             S == Alphabet \cup {"n", "bounds"}
             begun == <<"bar", "sp", "n", "sp", "bar", "sp", "bounds", "sp", "bar", "sp">>
  <1>1. /\ chars \in Seq(S) /\ m \in Nat /\ Len(chars) \in Nat /\ Len(chars) >= 13 + m
        /\ \A k \in 1..10 : chars[k] = begun[k]
        /\ \A k \in 1..m : chars[10 + k] = c[k]
        /\ chars[11 + m] = "sp" /\ chars[12 + m] = "bar"
    BY RowIs
  <1>2. /\ c \in Seq(Alphabet)
        /\ \A k \in 1..m : c[k] = "bar" => k > 1 /\ c[k - 1] = "bs"
        /\ (\E k \in 1..m : c[k] = "ls") <=> (\E i \in 1..Len(src) : src[i] = "ls")
    BY CellMarks
  <1>3. \A k \in 1..10 : /\ begun[k] # "bs" /\ begun[k] # "ls"
                         /\ begun[k] = "bar" <=> k \in {1, 5, 9}
    <2> TAKE k \in 1..10
    <2>1. k = 1 \/ k = 2 \/ k = 3 \/ k = 4 \/ k = 5 \/ k = 6 \/ k = 7 \/ k = 8 \/ k = 9 \/ k = 10
      OBVIOUS
    <2>2. /\ begun[1] = "bar" /\ begun[2] = "sp" /\ begun[3] = "n" /\ begun[4] = "sp" /\ begun[5] = "bar"
          /\ begun[6] = "sp" /\ begun[7] = "bounds" /\ begun[8] = "sp" /\ begun[9] = "bar" /\ begun[10] = "sp"
      OBVIOUS
    <2> HIDE DEF begun
    <2> QED
      BY <2>1, <2>2
  <1> HIDE DEF line, c, S, begun
  <1> HIDE DEF m
  <1>4. Shape(chars, m)
    <2>1. ASSUME NEW k \in 1..Len(chars), k <= 10
          PROVE chars[k] # "bs" /\ (chars[k] = "bar" <=> k \in {1, 5, 9})
      <3>1. k \in 1..10
        BY <1>1, <2>1
      <3> QED
        BY <1>1, <1>3, <3>1
    <2>2. ASSUME NEW k \in 1..Len(chars), k > 10, k <= 10 + m, chars[k] = "bar" PROVE chars[k - 1] = "bs"
      <3> DEFINE j == k - 10
      <3>1. j \in 1..m /\ k = 10 + j /\ j \in Int
        BY <1>1, <2>2
      <3> HIDE DEF j
      <3>2. c[j] = "bar"
        BY <1>1, <2>2, <3>1
      <3>3. j > 1 /\ c[j - 1] = "bs"
        BY <1>2, <3>1, <3>2
      <3>4. j - 1 \in 1..m /\ k - 1 = 10 + (j - 1)
        BY <1>1, <3>1, <3>3
      <3> QED
        BY <1>1, <3>3, <3>4
    <2> QED
      BY <1>1, <2>1, <2>2 DEF Shape
  <1>5. Len(chars) >= 12 + m
    BY <1>1
  <1>6. /\ (\A k \in 1..12 + m : chars[k] # "ls")
             => SourceOf(line) = Unescape(SubSeq(chars, 10, 11 + m))
        /\ (\A k \in 1..10 : chars[k] # "ls") /\ (\E k \in 11..10 + m : chars[k] = "ls")
             => SourceOf(line) = <<>>
    BY <1>1, <1>4, <1>5, SourceRead
  <1>7. \A k \in 1..10 : chars[k] # "ls"
    BY <1>1, <1>3
  <1>8. CASE \E i \in 1..Len(src) : src[i] = "ls"
    <2>1. PICK k \in 1..m : c[k] = "ls"
      BY <1>2, <1>8
    <2>2. 10 + k \in 11..10 + m /\ chars[10 + k] = "ls"
      <3>1. 10 + k \in 11..10 + m
        BY <1>1
      <3>2. chars[10 + k] = c[k]
        BY <1>1, Zenon
      <3> QED
        BY <2>1, <3>1, <3>2
    <2> QED
      BY <1>6, <1>7, <1>8, <2>2 DEF line
  <1>9. CASE ~\E i \in 1..Len(src) : src[i] = "ls"
    <2>1. ASSUME NEW k \in 1..12 + m PROVE chars[k] # "ls"
      <3>1. k \in 1..10 \/ (k - 10 \in 1..m /\ k = 10 + (k - 10)) \/ k = 11 + m \/ k = 12 + m
        BY <1>1
      <3>2. ASSUME k - 10 \in 1..m, k = 10 + (k - 10) PROVE chars[k] # "ls"
        <4>1. chars[k] = c[k - 10]
          BY <1>1, <3>2
        <4> QED
          BY <1>2, <1>9, <3>2, <4>1
      <3> QED
        BY <1>1, <1>7, <3>1, <3>2
    <2>2. SourceOf(line) = Unescape(SubSeq(chars, 10, 11 + m))
      BY <1>6, <2>1
    <2> DEFINE s == SubSeq(chars, 10, 11 + m)
               p == Padded(c)
    <2>3. /\ p \in Seq(Alphabet) /\ Len(p) = m + 2 /\ p[1] = "sp" /\ p[m + 2] = "sp"
          /\ \A k \in 1..m : p[k + 1] = c[k]
      BY <1>2, PaddedIs DEF m
    <2>4. /\ s \in Seq(S) /\ Len(s) = m + 2
          /\ \A k \in 1..m + 2 : s[k] = chars[9 + k]
      <3>1. \A k \in 10..11 + m : chars[k] \in S
        <4>1. \A k \in 10..11 + m : k \in 1..Len(chars)
          BY <1>1
        <4> QED
          BY <1>1, <4>1, ElementOfSeq
      <3>2. /\ s \in Seq(S) /\ Len(s) = (IF 10 <= 11 + m THEN (11 + m) - 10 + 1 ELSE 0)
            /\ \A i \in 1..(11 + m) - 10 + 1 : s[i] = chars[10 + i - 1]
        <4>1. 10 \in Int /\ 11 + m \in Int
          BY <1>1
        <4> QED
          BY <3>1, <4>1, SubSeqProperties
      <3> HIDE DEF s
      <3>3. (11 + m) - 10 + 1 = m + 2 /\ 10 <= 11 + m /\ \A i \in 1..m + 2 : 10 + i - 1 = 9 + i
        BY <1>1
      <3> QED
        BY <3>2, <3>3
    <2> HIDE DEF s, p
    <2>5. ASSUME NEW k \in 1..m + 2 PROVE s[k] = p[k]
      <3>1. s[k] = chars[9 + k]
        BY <2>4
      <3>2. CASE k = 1
        <4>1. 9 + k = 10 /\ 10 \in 1..10 /\ begun[10] = "sp"
          BY <3>2 DEF begun
        <4> QED
          BY <1>1, <2>3, <3>1, <3>2, <4>1
      <3>3. CASE k = m + 2
        <4>1. 9 + k = 11 + m
          BY <1>1, <3>3
        <4> QED
          BY <1>1, <2>3, <3>1, <3>3, <4>1
      <3>4. CASE k # 1 /\ k # m + 2
        <4> DEFINE j == k - 1
        <4>1. j \in 1..m /\ 9 + k = 10 + j /\ k = j + 1
          BY <1>1, <3>4
        <4> HIDE DEF j
        <4>2. chars[10 + j] = c[j] /\ p[j + 1] = c[j]
          BY <1>1, <2>3, <4>1
        <4> QED
          BY <3>1, <4>1, <4>2
      <3> QED
        BY <3>2, <3>3, <3>4
    <2>6. s = p
      <3>1. p \in Seq(S)
        <4>1. \A i \in 1..Len(p) : p[i] \in S
          BY <2>3, ElementOfSeq DEF S
        <4> QED
          BY <2>3, <4>1
      <3> QED
        BY <2>3, <2>4, <2>5, <3>1, SeqEqual
    <2> QED
      BY <1>9, <2>2, <2>6 DEF s, p, c, line
  <1> QED
    BY <1>8, <1>9
-----------------------------------------------------------------------------
(* The pages of a report.                                                  *)

LEMMA FunctionsAreLists ==
    ASSUME NEW S, NEW m \in Nat, NEW f \in [1..m -> S]
    PROVE f \in Seq(S) /\ Len(f) = m
  OBVIOUS

\* n headings and the rows below each.
Sheets(L, n, h, rows) ==
    \A i \in 1..n : /\ h[i] \in L /\ ~h[i].row /\ rows[i] \in Seq(L)
                    /\ \A k \in 1..Len(rows[i]) : rows[i][k].row

\* The lines of n sheets, and the texts that are read from them.
SheetLines(n, h, rows) == FlattenSeq([i \in 1..n |-> <<h[i]>> \o rows[i]])
SheetTexts(n, rows) ==
    [i \in 1..n |-> Solid([k \in 1..Len(rows[i]) |-> SourceOf(rows[i][k])])]

\* The rows between a heading and the next are its page's.
LEMMA PagesParsed ==
    ASSUME NEW L, NEW n \in Nat, NEW h, NEW rows, Sheets(L, n, h, rows)
    PROVE ParsePages(SheetLines(n, h, rows)) = Full(SheetTexts(n, rows))
  <1> DEFINE s == [i \in 1..n |-> <<h[i]>> \o rows[i]]
             F == FlattenSeq(s)
  <1>0. \A i \in 1..n : /\ h[i] \in L /\ ~h[i].row /\ rows[i] \in Seq(L)
                        /\ \A k \in 1..Len(rows[i]) : rows[i][k].row
    BY DEF Sheets
  <1>1. ASSUME NEW i \in 1..n
        PROVE /\ Len(rows[i]) \in Nat /\ <<h[i]>> \o rows[i] \in Seq(L)
              /\ Len(<<h[i]>> \o rows[i]) = 1 + Len(rows[i])
              /\ (<<h[i]>> \o rows[i])[1] = h[i]
              /\ \A j \in 1..Len(rows[i]) : (<<h[i]>> \o rows[i])[1 + j] = rows[i][j]
    <2> DEFINE a == <<h[i]>>
               b == rows[i]
               d == a \o b
    <2>1. a \in Seq(L) /\ Len(a) = 1 /\ a[1] = h[i] /\ b \in Seq(L) /\ Len(b) \in Nat
      BY <1>0, ShortLists, LenProperties
    <2>2. \A x, y \in Seq(L) :
             /\ x \o y \in Seq(L) /\ Len(x \o y) = Len(x) + Len(y)
             /\ \A k \in 1..Len(x) + Len(y) : (x \o y)[k] = IF k <= Len(x) THEN x[k] ELSE y[k - Len(x)]
      BY ConcatProperties
    <2> HIDE DEF a, b
    <2>3. /\ d \in Seq(L) /\ Len(d) = Len(a) + Len(b)
          /\ \A k \in 1..Len(a) + Len(b) : d[k] = IF k <= Len(a) THEN a[k] ELSE b[k - Len(a)]
      BY <2>1, <2>2, Zenon
    <2> HIDE DEF d
    <2>4. d[1] = h[i]
      BY <2>1, <2>3
    <2>5. ASSUME NEW j \in 1..Len(b) PROVE d[1 + j] = b[j]
      <3>1. 1 + j \in 1..Len(a) + Len(b) /\ ~(1 + j <= Len(a)) /\ 1 + j - Len(a) = j
        BY <2>1
      <3> QED
        BY <2>3, <3>1
    <2>6. d \in Seq(L) /\ Len(d) = 1 + Len(b)
      BY <2>1, <2>3
    <2> QED
      BY <2>1, <2>4, <2>5, <2>6 DEF d, a, b
  <1>2. s \in Seq(Seq(L)) /\ Len(s) = n
    <2>1. \A i \in 1..n : <<h[i]>> \o rows[i] \in Seq(L)
      BY <1>1
    <2> QED
      BY <2>1
  <1>3. \A i \in 1..n : /\ Len(rows[i]) \in Nat /\ Len(s[i]) = 1 + Len(rows[i]) /\ s[i][1] = h[i]
                        /\ \A j \in 1..Len(rows[i]) : s[i][1 + j] = rows[i][j]
    BY <1>1
  <1> HIDE DEF s
  <1>4. PICK off : F \in Seq(L) /\ Blocks(s, F, off)
    BY <1>2, FlattenBlocks
  <1>5. Covers(s, F, off)
    BY <1>2, <1>4, BlocksCover, Zenon
  <1> HIDE DEF F
  <1>6. /\ \A i, k \in 0..n : i <= k => off[i] <= off[k]
        /\ \A q \in 1..Len(F) : \E i \in 1..n : \E j \in 1..Len(s[i]) : q = off[i - 1] + j
    BY <1>2, <1>5 DEF Covers
  <1>7. /\ off[0] = 0 /\ off[n] = Len(F) /\ Len(F) \in Nat /\ \A i \in 0..n : off[i] \in Nat
        /\ \A i \in 1..n : /\ off[i] = off[i - 1] + Len(s[i])
                           /\ \A j \in 1..Len(s[i]) : F[off[i - 1] + j] = s[i][j]
    <2>1. Len(F) \in Nat
      BY <1>4, LenProperties
    <2> QED
      BY <1>2, <1>4, <2>1 DEF Blocks
  <1>8. ASSUME NEW i \in 1..n
        PROVE /\ i \in 0..n /\ i - 1 \in 0..n /\ off[i - 1] \in Nat /\ off[i] \in Nat
              /\ off[i] = off[i - 1] + 1 + Len(rows[i]) /\ off[i] <= Len(F)
              /\ F[off[i - 1] + 1] = h[i] /\ 1 \in 1..Len(s[i])
              /\ \A j \in 1..Len(rows[i]) : F[off[i - 1] + 1 + j] = rows[i][j]
    <2>1. i \in 0..n /\ i - 1 \in 0..n /\ n \in 0..n /\ i <= n
      OBVIOUS
    <2>2. off[i - 1] \in Nat /\ off[i] \in Nat /\ off[i] <= Len(F)
      BY <1>6, <1>7, <2>1
    <2>3. Len(rows[i]) \in Nat /\ Len(s[i]) = 1 + Len(rows[i]) /\ off[i] = off[i - 1] + Len(s[i])
      BY <1>3, <1>7
    <2>4. 1 \in 1..Len(s[i]) /\ \A j \in 1..Len(rows[i]) : 1 + j \in 1..Len(s[i])
      BY <2>3
    <2>5. F[off[i - 1] + 1] = h[i]
      BY <1>3, <1>7, <2>4
    <2>6. ASSUME NEW j \in 1..Len(rows[i]) PROVE F[off[i - 1] + 1 + j] = rows[i][j]
      <3>1. F[off[i - 1] + (1 + j)] = s[i][1 + j] /\ s[i][1 + j] = rows[i][j]
        BY <1>3, <1>7, <2>4
      <3>2. off[i - 1] + (1 + j) = off[i - 1] + 1 + j
        BY <2>2, <2>3
      <3> QED
        BY <3>1, <3>2
    <2>7. off[i] = off[i - 1] + 1 + Len(rows[i])
      BY <2>2, <2>3
    <2> QED
      BY <2>1, <2>2, <2>4, <2>5, <2>6, <2>7
  <1> DEFINE g == [k \in 1..n |-> off[k - 1] + 1]
             H == {i \in DOMAIN F : ~F[i].row}
             N == Len(F)
  <1>9. g \in [1..n -> 1..N]
    <2>1. ASSUME NEW k \in 1..n PROVE off[k - 1] + 1 \in 1..N
      <3>1. off[k - 1] \in Nat /\ off[k] = off[k - 1] + 1 + Len(rows[k]) /\ off[k] <= Len(F)
        BY <1>8
      <3>2. Len(rows[k]) \in Nat
        BY <1>3
      <3> QED
        BY <1>7, <3>1, <3>2
    <2> QED
      BY <2>1
  <1>10. ASSUME NEW k \in 1..n, NEW l \in 1..n, k < l PROVE g[k] < g[l]
    <2>1. k \in 0..n /\ l - 1 \in 0..n /\ k <= l - 1
      BY <1>10
    <2>2. off[k] <= off[l - 1]
      BY <1>6, <2>1
    <2>3. off[k] = off[k - 1] + 1 + Len(rows[k]) /\ off[k - 1] \in Nat /\ Len(rows[k]) \in Nat
          /\ off[l - 1] \in Nat
      BY <1>3, <1>8
    <2> QED
      BY <2>2, <2>3
  <1>11. H = {g[k] : k \in 1..n}
    <2>1. DOMAIN F = 1..N
      BY <1>4, LenProperties
    <2>2. ASSUME NEW k \in 1..n PROVE g[k] \in H
      <3>1. F[g[k]] = h[k] /\ g[k] \in 1..N /\ ~h[k].row
        BY <1>0, <1>8, <1>9
      <3> QED
        BY <2>1, <3>1
    <2>3. ASSUME NEW q \in H PROVE q \in {g[k] : k \in 1..n}
      <3>1. q \in 1..Len(F) /\ ~F[q].row
        BY <2>1
      <3> HIDE DEF g, H, N
      <3>2. PICK i \in 1..n : \E j \in 1..Len(s[i]) : q = off[i - 1] + j
        BY <1>6, <3>1
      <3>3. PICK j \in 1..Len(s[i]) : q = off[i - 1] + j
        BY <3>2
      <3>4. CASE j = 1
        <4>1. q = g[i]
          BY <3>3, <3>4 DEF g
        <4> QED
          BY <4>1
      <3>5. CASE j # 1
        <4>1. Len(rows[i]) \in Nat /\ Len(s[i]) = 1 + Len(rows[i]) /\ off[i - 1] \in Nat
          BY <1>3, <1>8
        <4>2. j - 1 \in 1..Len(rows[i]) /\ q = off[i - 1] + 1 + (j - 1)
          <5>1. j \in Nat /\ j >= 1 /\ j <= 1 + Len(rows[i])
            BY <4>1
          <5>2. j - 1 \in 1..Len(rows[i])
            BY <3>5, <4>1, <5>1
          <5>3. off[i - 1] + j = off[i - 1] + 1 + (j - 1)
            BY <4>1, <5>1
          <5> QED
            BY <3>3, <5>2, <5>3
        <4>3. F[q] = rows[i][j - 1]
          <5>1. F[off[i - 1] + 1 + (j - 1)] = rows[i][j - 1]
            BY <1>8, <4>2, Zenon
          <5> QED
            BY <4>2, <5>1
        <4>4. rows[i][j - 1].row
          BY <1>0, <4>2, Zenon
        <4> QED
          BY <3>1, <4>3, <4>4
      <3> QED
        BY <3>4, <3>5
    <2> HIDE DEF H, g
    <2> QED
      BY <2>2, <2>3
  <1> DEFINE heads == Positions(H)
  <1>12. heads = g
    <2>1. N \in Nat /\ \A k, l \in 1..n : k < l => g[k] < g[l]
      BY <1>7, <1>10
    <2> HIDE DEF g, H, N
    <2>2. Pick([i \in H |-> i], H) = [k \in 1..n |-> [i \in H |-> i][g[k]]]
      <3>1. \A m \in Nat, M \in Nat : \A f \in [1..m -> 1..M] :
              (\A k, l \in 1..m : k < l => f[k] < f[l])
                => \A t : Pick(t, {f[k] : k \in 1..m}) = [k \in 1..m |-> t[f[k]]]
        BY PickClimbing
      <3>2. \A t : Pick(t, {g[k] : k \in 1..n}) = [k \in 1..n |-> t[g[k]]]
        BY <1>9, <2>1, <3>1, Zenon
      <3> QED
        BY <1>11, <3>2
    <2>3. \A k \in 1..n : [i \in H |-> i][g[k]] = g[k]
      BY <1>11
    <2>4. g = [k \in 1..n |-> g[k]]
      BY <1>9
    <2>5. heads = Pick([i \in H |-> i], H)
      BY DEF Positions
    <2> HIDE DEF heads
    <2> QED
      BY <2>2, <2>3, <2>4, <2>5
  <1> HIDE DEF heads
  <1>13. Len(heads) = n /\ DOMAIN heads = 1..n /\ \A k \in 1..n : heads[k] = off[k - 1] + 1
    <2>1. \A k \in 1..n : g[k] = off[k - 1] + 1
      OBVIOUS
    <2> HIDE DEF g, N
    <2>2. DOMAIN g = 1..n /\ Len(g) = n
      BY <1>9
    <2> QED
      BY <1>12, <2>1, <2>2
  <1> DEFINE End(k) == IF k = Len(heads) THEN Len(F) ELSE heads[k + 1] - 1
             Rows(k) == [j \in 1..End(k) - heads[k] |-> SourceOf(F[heads[k] + j])]
             page(i) == [k \in 1..Len(rows[i]) |-> SourceOf(rows[i][k])]
  <1>14. ParsePages(F) = Full([k \in DOMAIN heads |-> Solid(Rows(k))])
    BY DEF ParsePages, heads
  <1>15. ASSUME NEW k \in 1..n PROVE Rows(k) = page(k)
    <2>1. End(k) = off[k]
      <3>1. CASE k = n
        BY <1>7, <1>13, <3>1
      <3>2. CASE k # n
        <4>1. k + 1 \in 1..n /\ (k + 1) - 1 = k
          BY <3>2
        <4>2. heads[k + 1] = off[k] + 1 /\ off[k] \in Nat
          BY <1>8, <1>13, <4>1
        <4>3. End(k) = heads[k + 1] - 1
          BY <1>13, <3>2
        <4> HIDE DEF End
        <4> QED
          BY <4>2, <4>3
      <3> QED
        BY <3>1, <3>2
    <2> HIDE DEF End
    <2>2. End(k) - heads[k] = Len(rows[k])
      <3>1. off[k] = off[k - 1] + 1 + Len(rows[k]) /\ off[k - 1] \in Nat /\ Len(rows[k]) \in Nat
        BY <1>3, <1>8
      <3> QED
        BY <1>13, <2>1, <3>1
    <2>3. \A j \in 1..Len(rows[k]) : F[heads[k] + j] = rows[k][j]
      <3>1. \A j \in 1..Len(rows[k]) : F[off[k - 1] + 1 + j] = rows[k][j]
        BY <1>8
      <3>2. heads[k] = off[k - 1] + 1
        BY <1>13
      <3> QED
        BY <3>1, <3>2
    <2> QED
      BY <2>2, <2>3
  <1>16. [k \in DOMAIN heads |-> Solid(Rows(k))] = [k \in 1..n |-> Solid(page(k))]
    <2>1. \A k \in 1..n : Solid(Rows(k)) = Solid(page(k))
      BY <1>15
    <2> HIDE DEF Rows, page
    <2> QED
      BY <1>13, <2>1
  <1>17. F = SheetLines(n, h, rows)
    BY DEF F, s, SheetLines
  <1>18. [k \in 1..n |-> Solid(page(k))] = SheetTexts(n, rows)
    BY DEF SheetTexts
  <1> HIDE DEF Rows, page
  <1> QED
    BY <1>14, <1>16, <1>17, <1>18

\* A text with something black is not blank.
LEMMA BlackIsSolid ==
    ASSUME NEW S, NEW t \in Seq(S), NEW k \in 1..Len(t), t[k] \notin White
    PROVE Strip(t) # <<>>
  <1>1. PICK i, j \in 1..Len(t) :
          /\ t[i] \notin White /\ t[j] \notin White
          /\ \A l \in 1..Len(t) : t[l] \notin White => i <= l /\ l <= j
    BY StripCuts
  <1>2. Strip(t) = SubSeq(t, i, j)
    BY <1>1, StripCuts
  <1>3. Len(t) \in Nat /\ i \in Nat /\ j \in Nat /\ i <= j
    BY <1>1, LenProperties
  <1>4. Len(SubSeq(t, i, j)) # 0
    <2>1. \A l \in i..j : l \in 1..Len(t)
      BY <1>1, <1>3
    <2>2. \A l \in i..j : t[l] \in S
      BY <2>1, ElementOfSeq
    <2>3. Len(SubSeq(t, i, j)) = IF i <= j THEN j - i + 1 ELSE 0
      BY <1>3, <2>2, SubSeqProperties
    <2> QED
      BY <1>3, <2>3
  <1> QED
    BY <1>2, <1>4

\* What is kept of a page.
LEMMA PageKept ==
    ASSUME NEW p \in Seq(Seq(Alphabet)), NEW d,
           \A k \in 1..Len(p) : Strip(p[k]) = p[k] /\ ~SignAmidSpaces(p[k]) /\ d[k] \in Seq(Alphabet)
    PROVE Solid([k \in 1..Len(p) |-> SourceOf(Row(p[k], d[k]))]) = Kept(p)
  <1> DEFINE n == Len(p)
             cells == [k \in 1..n |-> SourceOf(Row(p[k], d[k]))]
             back == [k \in 1..n |-> ReadBack(p[k])]
             A == {i \in DOMAIN cells : Strip(cells[i]) # <<>>}
             B == {i \in DOMAIN back : back[i] # <<>> /\ \A k \in DOMAIN back[i] : back[i][k] # "ls"}
  <1>1. n \in Nat /\ DOMAIN p = 1..n /\ \A k \in 1..n : p[k] \in Seq(Alphabet)
    BY LenProperties, ElementOfSeq
  <1>2. ASSUME NEW k \in 1..n
        PROVE /\ k \in A <=> k \in B
              /\ k \in A => cells[k] = back[k]
    <2> DEFINE t == p[k]
               r == ReadBack(t)
    <2>1. t \in Seq(Alphabet) /\ Strip(t) = t /\ ~SignAmidSpaces(t) /\ d[k] \in Seq(Alphabet)
      BY <1>1
    <2> HIDE DEF t
    <2>2. cells[k] = IF \E i \in 1..Len(t) : t[i] = "ls" THEN <<>> ELSE Unescape(Padded(MdCell(t)))
      BY <2>1, RowSource DEF t
    <2>3. Unescape(Padded(MdCell(t))) = r
      BY <2>1, CellComesBack
    <2>4. r \in Seq(Alphabet) /\ Len(r) = Len(t) /\ Len(t) \in Nat
      BY <2>1, PlainIsRead, LenProperties
    <2>5. \A i \in 1..Len(t) : r[i] = IF t[i] = "cr" THEN "sp" ELSE t[i]
      <3>1. DOMAIN t = 1..Len(t)
        BY <2>1, LenProperties
      <3> QED
        BY <3>1 DEF ReadBack
    <2> HIDE DEF r
    <2>6. DOMAIN r = 1..Len(t)
      BY <2>4, LenProperties
    <2>7. (\E i \in 1..Len(t) : t[i] = "ls") <=> \E i \in DOMAIN r : r[i] = "ls"
      BY <2>5, <2>6
    <2>8. Strip(<<>>) = <<>>
      <3>1. <<>> \in Seq(Alphabet) /\ Len(<<>>) = 0
        OBVIOUS
      <3>2. \A i \in 1..Len(<<>>) : <<>>[i] \in White
        BY <3>1
      <3> QED
        BY <3>1, <3>2, StripCuts
    <2>9. r # <<>> => Strip(r) # <<>>
      <3>1. SUFFICES ASSUME r # <<>> PROVE Strip(r) # <<>>
        OBVIOUS
      <3>2. Len(t) # 0
        BY <2>4, <3>1, EmptySeq
      <3>3. t # <<>>
        BY <3>2
      <3>4. t[1] \notin White /\ 1 \in 1..Len(t)
        BY <2>1, <2>4, <3>2, <3>3, StrippedEnds
      <3>5. r[1] = t[1]
        BY <2>5, <3>4 DEF White
      <3> QED
        BY <2>4, <3>4, <3>5, BlackIsSolid
    <2>10. back[k] = r
      BY DEF r, t
    <2>11. k \in A <=> Strip(cells[k]) # <<>>
      OBVIOUS
    <2>12. k \in B <=> back[k] # <<>> /\ \A i \in DOMAIN back[k] : back[k][i] # "ls"
      OBVIOUS
    <2> HIDE DEF cells, back, A, B
    <2> QED
      BY <2>2, <2>3, <2>7, <2>8, <2>9, <2>10, <2>11, <2>12
  <1>3. A = B
    <2>1. A \subseteq 1..n /\ B \subseteq 1..n
      OBVIOUS
    <2> HIDE DEF A, B
    <2> QED
      BY <1>2, <2>1
  <1>4. Solid(cells) = Pick(cells, A)
    BY DEF Solid, Where
  <1>5. Kept(p) = Pick(back, B)
    BY <1>1 DEF Kept, Where
  <1>6. Pick(cells, A) = Pick(back, A)
    <2>1. A \in SUBSET (1..n) /\ \A i \in A : cells[i] = back[i]
      <3>1. A \subseteq 1..n
        OBVIOUS
      <3> HIDE DEF A, cells, back
      <3> QED
        BY <1>2, <3>1
    <2> HIDE DEF A, cells, back
    <2> QED
      BY <1>1, <2>1, PickAgrees
  <1> QED
    BY <1>3, <1>4, <1>5, <1>6

\* A page without texts in front of the others is none.
LEMMA FullSkips ==
    ASSUME NEW n \in Nat, NEW g, DOMAIN g = 1..n, NEW f, DOMAIN f = 1..n + 1,
           f[1] = <<>>, \A i \in 1..n : f[i + 1] = g[i]
    PROVE Full(f) = Full(g)
  <1> DEFINE R == {i \in 1..n : g[i] # <<>>}
             Q == {i \in 1..n + 1 : f[i] # <<>>}
             c == Cardinality(R)
  <1>1. Full(g) = Pick(g, R) /\ Full(f) = Pick(f, Q)
    BY DEF Full, Where
  <1>2. PICK p : Enumerates(R, p)
    BY PickLists
  <1>3. c \in Nat /\ R \subseteq 1..n
    BY PickLists
  <1>4. /\ p \in [1..c -> R] /\ \A i \in R : \E k \in 1..c : p[k] = i
        /\ Pick(g, R) = [k \in 1..c |-> g[p[k]]]
        /\ \A k, l \in 1..c : k < l => p[k] < p[l]
    <2> DEFINE d == [i \in R |-> {j \in R : j <= i}]
    <2>1. /\ Lists(R, d, p) /\ Pick(g, R) = [k \in 1..c |-> g[p[k]]]
          /\ \A k, l \in 1..c : k < l => p[k] < p[l]
      <3> HIDE DEF R
      <3> QED
        BY <1>2 DEF Enumerates
    <2> HIDE DEF R, d
    <2>2. /\ p \in [1..c -> R]
          /\ \A i \in R : Cardinality(d[i]) \in 1..c /\ p[Cardinality(d[i])] = i
      BY <2>1 DEF Lists
    <2> HIDE DEF c
    <2> QED
      BY <2>1, <2>2
  <1> DEFINE b == [k \in 1..c |-> p[k] + 1]
  <1>5. ASSUME NEW k \in 1..c PROVE p[k] \in R /\ p[k] \in 1..n /\ p[k] \in Nat /\ b[k] = p[k] + 1
    BY <1>3, <1>4
  <1>6. b \in [1..c -> 1..n + 1] /\ \A k, l \in 1..c : k < l => b[k] < b[l]
    <2> HIDE DEF R, c
    <2>1. \A k \in 1..c : b[k] \in 1..n + 1
      BY <1>5
    <2>2. ASSUME NEW k \in 1..c, NEW l \in 1..c, k < l PROVE b[k] < b[l]
      BY <1>4, <1>5, <2>2
    <2> QED
      BY <2>1, <2>2
  <1>7. Q = {b[k] : k \in 1..c}
    <2>1. ASSUME NEW i \in Q PROVE i \in {b[k] : k \in 1..c}
      <3>1. i \in 2..n + 1
        OBVIOUS
      <3>2. i - 1 \in 1..n /\ (i - 1) + 1 = i
        BY <3>1
      <3>3. g[i - 1] = f[i]
        BY <3>2
      <3>4. i - 1 \in R
        BY <3>2, <3>3
      <3>5. PICK k \in 1..c : p[k] = i - 1
        BY <1>4, <3>4
      <3>6. b[k] = i
        BY <1>5, <3>2, <3>5
      <3> HIDE DEF b, c, Q, R
      <3> QED
        BY <3>6
    <2>2. ASSUME NEW k \in 1..c PROVE b[k] \in Q
      <3>1. g[p[k]] # <<>> /\ f[p[k] + 1] = g[p[k]]
        BY <1>5
      <3> QED
        BY <1>5, <1>6, <3>1
    <2> HIDE DEF b, c, Q, R
    <2> QED
      BY <2>1, <2>2
  <1>8. Pick(f, Q) = [k \in 1..c |-> f[b[k]]]
    <2> HIDE DEF b, c, Q, R
    <2>1. n + 1 \in Nat
      OBVIOUS
    <2>2. \A m, N \in Nat : \A e \in [1..m -> 1..N] :
             (\A k, l \in 1..m : k < l => e[k] < e[l])
               => \A t : Pick(t, {e[k] : k \in 1..m}) = [k \in 1..m |-> t[e[k]]]
      BY PickClimbing
    <2>3. \A t : Pick(t, {b[k] : k \in 1..c}) = [k \in 1..c |-> t[b[k]]]
      BY <1>3, <1>6, <2>1, <2>2, Zenon
    <2>4. Pick(f, {b[k] : k \in 1..c}) = [k \in 1..c |-> f[b[k]]]
      BY <2>3, Zenon
    <2> QED
      BY <1>7, <2>4, Zenon
  <1>9. \A k \in 1..c : f[b[k]] = g[p[k]]
    BY <1>5
  <1> HIDE DEF b, c, Q, R
  <1> QED
    BY <1>1, <1>4, <1>8, <1>9

LEMMA ListPair ==
    ASSUME NEW S, NEW x \in S, NEW n \in Nat, NEW u \in [1..n -> S]
    PROVE /\ u \in Seq(S) /\ <<x>> \o u = [i \in 1..n + 1 |-> IF i = 1 THEN x ELSE u[i - 1]]
  OBVIOUS

\* What sheets make is a list, and nothing in front of it changes nothing.
LEMMA SheetsList ==
    ASSUME NEW L, NEW n \in Nat, NEW h, NEW rows, Sheets(L, n, h, rows)
    PROVE <<>> \o SheetLines(n, h, rows) = SheetLines(n, h, rows)
  <1> DEFINE u == [i \in 1..n |-> <<h[i]>> \o rows[i]]
  <1>1. \A i \in 1..n : <<h[i]>> \o rows[i] \in Seq(L)
    <2>1. \A y, z \in Seq(L) : y \o z \in Seq(L)
      BY ConcatProperties
    <2>2. \A y \in L : <<y>> \in Seq(L)
      BY ShortLists
    <2> QED
      BY <2>1, <2>2 DEF Sheets
  <1>2. u \in Seq(Seq(L))
    BY <1>1
  <1>3. FlattenSeq(u) \in Seq(L)
    <2> HIDE DEF u
    <2> QED
      BY <1>2, FlattenBlocks DEF Blocks
  <1>4. \A y \in Seq(L) : <<>> \o y = y
    BY ConcatEmptySeq
  <1> HIDE DEF u
  <1> QED
    BY <1>3, <1>4 DEF u, SheetLines

\* A heading with no rows below it is no page.
LEMMA HeadingAlone ==
    ASSUME NEW L, NEW n \in Nat, NEW h, NEW rows, Sheets(L, n, h, rows), NEW x \in L, ~x.row
    PROVE ParsePages(<<x>> \o SheetLines(n, h, rows)) = Full(SheetTexts(n, rows))
  <1> DEFINE u == [i \in 1..n |-> <<h[i]>> \o rows[i]]
             a == [i \in 1..n + 1 |-> IF i = 1 THEN x ELSE h[i - 1]]
             b == [i \in 1..n + 1 |-> IF i = 1 THEN <<>> ELSE rows[i - 1]]
             g == SheetTexts(n, rows)
             f == SheetTexts(n + 1, b)
  <1>1. \A i \in 1..n : /\ h[i] \in L /\ ~h[i].row /\ rows[i] \in Seq(L)
                        /\ \A k \in 1..Len(rows[i]) : rows[i][k].row
    BY DEF Sheets
  <1>2. \A i \in 1..n + 1 : i = 1 \/ (i # 1 /\ i - 1 \in 1..n)
    OBVIOUS
  <1>3. u \in [1..n -> Seq(L)] /\ <<x>> \in Seq(L)
    <2>1. \A i \in 1..n : <<h[i]>> \o rows[i] \in Seq(L)
      <3>1. \A y, z \in Seq(L) : y \o z \in Seq(L)
        BY ConcatProperties
      <3>2. \A y \in L : <<y>> \in Seq(L)
        BY ShortLists
      <3> QED
        BY <1>1, <3>1, <3>2
    <2> QED
      BY <2>1, ShortLists
  <1>4. <<<<x>>>> \o u = [i \in 1..n + 1 |-> IF i = 1 THEN <<x>> ELSE u[i - 1]] /\ u \in Seq(Seq(L))
    <2> HIDE DEF u
    <2> QED
      BY <1>3, ListPair
  <1>5. [i \in 1..n + 1 |-> IF i = 1 THEN <<x>> ELSE u[i - 1]] = [i \in 1..n + 1 |-> <<a[i]>> \o b[i]]
    <2>1. ASSUME NEW i \in 1..n + 1
          PROVE (IF i = 1 THEN <<x>> ELSE u[i - 1]) = <<a[i]>> \o b[i]
      <3>1. CASE i = 1
        <4>1. a[i] = x /\ b[i] = <<>>
          BY <3>1
        <4>2. <<x>> \o <<>> = <<x>>
          BY <1>3, ConcatEmptySeq
        <4> HIDE DEF a, b, u
        <4> QED
          BY <3>1, <4>1, <4>2
      <3>2. CASE i # 1
        <4>1. i - 1 \in 1..n /\ a[i] = h[i - 1] /\ b[i] = rows[i - 1]
          BY <1>2, <3>2
        <4>2. u[i - 1] = <<h[i - 1]>> \o rows[i - 1]
          BY <4>1
        <4> HIDE DEF a, b, u
        <4> QED
          BY <3>2, <4>1, <4>2
      <3> QED
        BY <3>1, <3>2
    <2> HIDE DEF a, b, u
    <2> QED
      BY <2>1
  <1>6. <<x>> \o SheetLines(n, h, rows) = SheetLines(n + 1, a, b)
    <2>1. FlattenSeq(<<<<x>>>> \o u) = <<x>> \o FlattenSeq(u)
      <3> HIDE DEF u
      <3> QED
        BY <1>3, <1>4, FlattenCons
    <2> HIDE DEF a, b, u
    <2> QED
      BY <1>4, <1>5, <2>1 DEF SheetLines, u
  <1>7. Sheets(L, n + 1, a, b)
    <2>1. ASSUME NEW i \in 1..n + 1
          PROVE /\ a[i] \in L /\ ~a[i].row /\ b[i] \in Seq(L)
                /\ \A k \in 1..Len(b[i]) : b[i][k].row
      <3>1. CASE i = 1
        <4>1. a[i] = x /\ b[i] = <<>>
          BY <3>1
        <4> HIDE DEF a, b
        <4> QED
          BY <4>1
      <3>2. CASE i # 1
        <4>1. i - 1 \in 1..n /\ a[i] = h[i - 1] /\ b[i] = rows[i - 1]
          BY <1>2, <3>2
        <4> HIDE DEF a, b
        <4> QED
          BY <1>1, <4>1
      <3> QED
        BY <3>1, <3>2
    <2> HIDE DEF a, b
    <2> QED
      BY <2>1, Zenon DEF Sheets
  <1>8. ParsePages(SheetLines(n + 1, a, b)) = Full(f)
    <2>1. n + 1 \in Nat
      OBVIOUS
    <2> HIDE DEF a, b
    <2> QED
      BY <1>7, <2>1, PagesParsed
  <1>9. Full(f) = Full(g)
    <2>1. f[1] = <<>>
      <3>1. 1 \in 1..n + 1 /\ b[1] = <<>>
        OBVIOUS
      <3>2. Solid(<<>>) = <<>>
        <4>1. Solid(<<>>) = Pick(<<>>, {i \in DOMAIN <<>> : Strip(<<>>[i]) # <<>>})
          BY DEF Solid, Where
        <4>2. {i \in DOMAIN <<>> : Strip(<<>>[i]) # <<>>} = {}
          OBVIOUS
        <4>3. Pick(<<>>, {}) = <<>>
          BY FS_EmptySet DEF Pick
        <4> QED
          BY <4>1, <4>2, <4>3
      <3>3. [k \in 1..Len(b[1]) |-> SourceOf(b[1][k])] = <<>>
        BY <3>1
      <3>4. f[1] = Solid([k \in 1..Len(b[1]) |-> SourceOf(b[1][k])])
        BY <3>1 DEF SheetTexts
      <3> HIDE DEF f, b
      <3> QED
        BY <3>2, <3>3, <3>4
    <2>2. ASSUME NEW i \in 1..n PROVE f[i + 1] = g[i]
      <3>1. i + 1 \in 1..n + 1 /\ (i + 1) - 1 = i /\ i + 1 # 1
        OBVIOUS
      <3>2. b[i + 1] = rows[i]
        BY <3>1
      <3>3. f[i + 1] = Solid([k \in 1..Len(b[i + 1]) |-> SourceOf(b[i + 1][k])])
        <4> HIDE DEF b
        <4> QED
          BY <3>1 DEF SheetTexts
      <3>4. g[i] = Solid([k \in 1..Len(rows[i]) |-> SourceOf(rows[i][k])])
        BY DEF SheetTexts
      <3> HIDE DEF f, g, b
      <3> QED
        BY <3>2, <3>3, <3>4
    <2>3. DOMAIN f = 1..n + 1 /\ DOMAIN g = 1..n
      BY DEF SheetTexts
    <2> HIDE DEF f, g
    <2> QED
      BY <2>1, <2>2, <2>3, FullSkips
  <1> HIDE DEF a, b, u, f
  <1> QED
    BY <1>6, <1>8, <1>9

\* The records of n pages, of which p holds what was read.
Reported(n, rs, p) ==
    \A i \in 1..n :
      /\ p[i] \in Seq(Seq(Alphabet)) /\ \A k \in 1..Len(p[i]) : Strip(p[i][k]) = p[i][k]
      /\ rs[i].ok \in BOOLEAN
      /\ rs[i].regions \in Seq([source : Seq(Alphabet), destination : Seq(Alphabet)])
      /\ rs[i].ok => /\ Len(rs[i].regions) = Len(p[i])
                     /\ \A k \in 1..Len(p[i]) : rs[i].regions[k].source = p[i][k]
      /\ ~rs[i].ok => rs[i].regions = <<>>

\* The report gives the bench the pages it was made of.
LEMMA ReportReadsBack ==
    ASSUME NEW n \in Nat, NEW rs, DOMAIN rs = 1..n, NEW p, Reported(n, rs, p),
           \A i \in 1..n : \A k \in 1..Len(p[i]) : ~SignAmidSpaces(p[i][k])
    PROVE ParsePages(BuildMarkdown(rs))
            = Full([i \in 1..n |-> IF rs[i].ok THEN Kept(p[i]) ELSE <<>>])
  <1> DEFINE h == [i \in 1..n |-> Heading(rs[i])]
             G(i) == rs[i].regions
             rows == [i \in 1..n |-> [k \in DOMAIN G(i) |-> Row(G(i)[k].source, G(i)[k].destination)]]
             F == SheetLines(n, h, rows)
             L == {CasesHeading} \cup {h[i] : i \in 1..n} \cup {Row(a, b) : a \in Seq(Alphabet), b \in Seq(Alphabet)}
             q == [i \in 1..n |-> IF rs[i].ok THEN p[i] ELSE <<>>]
  <1>1. BuildMarkdown(rs) = CaseTimes(rs) \o F
    <2>1. \A i \in 1..n : <<h[i]>> \o rows[i]
            = <<Heading(rs[i])>> \o [k \in DOMAIN G(i) |-> Row(G(i)[k].source, G(i)[k].destination)]
      OBVIOUS
    <2>2. BuildMarkdown(rs) = CaseTimes(rs) \o FlattenSeq([i \in 1..n |->
            <<Heading(rs[i])>> \o [k \in DOMAIN G(i) |-> Row(G(i)[k].source, G(i)[k].destination)]])
      BY DEF BuildMarkdown
    <2> HIDE DEF h, rows
    <2> QED
      BY <2>1, <2>2 DEF SheetLines
  <1>2. ASSUME NEW i \in 1..n PROVE h[i] \in L /\ ~h[i].row
    <2>1. h[i] = Heading(rs[i])
      OBVIOUS
    <2>2. ~Heading(rs[i]).row
      BY DEF Heading
    <2>3. h[i] \in {h[j] : j \in 1..n}
      OBVIOUS
    <2> HIDE DEF h
    <2> QED
      BY <2>1, <2>2, <2>3
  <1>3. ASSUME NEW i \in 1..n
        PROVE /\ Len(G(i)) \in Nat /\ DOMAIN G(i) = 1..Len(G(i)) /\ Len(q[i]) = Len(G(i))
              /\ q[i] \in Seq(Seq(Alphabet))
              /\ \A k \in 1..Len(G(i)) :
                   /\ q[i][k] = G(i)[k].source /\ G(i)[k].destination \in Seq(Alphabet)
                   /\ Strip(q[i][k]) = q[i][k] /\ ~SignAmidSpaces(q[i][k]) /\ q[i][k] \in Seq(Alphabet)
    <2>1. Len(G(i)) \in Nat /\ DOMAIN G(i) = 1..Len(G(i))
          /\ \A k \in 1..Len(G(i)) : G(i)[k].destination \in Seq(Alphabet)
      <3>1. G(i) \in Seq([source : Seq(Alphabet), destination : Seq(Alphabet)])
        BY DEF Reported
      <3> HIDE DEF G
      <3>2. \A k \in 1..Len(G(i)) : G(i)[k] \in [source : Seq(Alphabet), destination : Seq(Alphabet)]
        BY <3>1, ElementOfSeq
      <3> QED
        BY <3>1, <3>2, LenProperties
    <2>2. CASE rs[i].ok
      <3>1. /\ q[i] = p[i] /\ Len(G(i)) = Len(p[i]) /\ p[i] \in Seq(Seq(Alphabet))
            /\ \A k \in 1..Len(p[i]) : G(i)[k].source = p[i][k] /\ Strip(p[i][k]) = p[i][k]
        BY <2>2 DEF Reported
      <3>2. \A k \in 1..Len(p[i]) : p[i][k] \in Seq(Alphabet)
        BY <3>1, ElementOfSeq
      <3> HIDE DEF G, q
      <3> QED
        BY <2>1, <3>1, <3>2
    <2>3. CASE ~rs[i].ok
      <3>1. q[i] = <<>> /\ G(i) = <<>>
        BY <2>3 DEF Reported
      <3>2. Len(<<>>) = 0 /\ <<>> \in Seq(Seq(Alphabet)) /\ \A k \in 1..0 : FALSE
        OBVIOUS
      <3> HIDE DEF G, q
      <3> QED
        BY <2>1, <3>1, <3>2
    <2> QED
      BY <2>2, <2>3
  <1>4. ASSUME NEW i \in 1..n
        PROVE rows[i] = [k \in 1..Len(G(i)) |-> Row(q[i][k], G(i)[k].destination)]
    <2>1. rows[i] = [k \in DOMAIN G(i) |-> Row(G(i)[k].source, G(i)[k].destination)]
      OBVIOUS
    <2> HIDE DEF rows, q, G
    <2> QED
      BY <1>3, <2>1
  <1>5. ASSUME NEW i \in 1..n
        PROVE /\ Len(rows[i]) = Len(G(i))
              /\ rows[i] \in Seq(L) /\ \A k \in 1..Len(rows[i]) : rows[i][k].row
    <2>1. \A k \in 1..Len(G(i)) : /\ Row(q[i][k], G(i)[k].destination) \in L
                                  /\ Row(q[i][k], G(i)[k].destination).row
      <3>1. \A k \in 1..Len(G(i)) : q[i][k] \in Seq(Alphabet) /\ G(i)[k].destination \in Seq(Alphabet)
        BY <1>3
      <3>2. \A a, b : Row(a, b).row
        BY DEF Row
      <3> HIDE DEF G, q, h
      <3> QED
        BY <3>1, <3>2
    <2> DEFINE o == [k \in 1..Len(G(i)) |-> Row(q[i][k], G(i)[k].destination)]
    <2>2. Len(G(i)) \in Nat
      BY <1>3
    <2> HIDE DEF L, G, q, rows
    <2>3. o \in [1..Len(G(i)) -> L] /\ \A k \in 1..Len(G(i)) : o[k].row
      BY <2>1
    <2> HIDE DEF o
    <2>4. o \in Seq(L) /\ Len(o) = Len(G(i))
      BY <2>2, <2>3, FunctionsAreLists
    <2>5. rows[i] = o
      BY <1>4 DEF o
    <2> QED
      BY <2>3, <2>4, <2>5
  <1>6. ParsePages(BuildMarkdown(rs)) = Full(SheetTexts(n, rows))
    <2>1. Sheets(L, n, h, rows)
      <3>1. ASSUME NEW i \in 1..n
            PROVE /\ h[i] \in L /\ ~h[i].row /\ rows[i] \in Seq(L)
                  /\ \A k \in 1..Len(rows[i]) : rows[i][k].row
        <4> HIDE DEF h, rows, L, G
        <4> QED
          BY <1>2, <1>5, Zenon
      <3> HIDE DEF h, rows, L, G
      <3> QED
        BY <3>1, Zenon DEF Sheets
    <2> HIDE DEF h, rows, L, G
    <2>2. CasesHeading \in L /\ ~CasesHeading.row
      BY DEF L, CasesHeading
    <2> HIDE DEF q
    <2>3. CASE CaseTimes(rs) = <<CasesHeading>>
      BY <1>1, <2>1, <2>2, <2>3, HeadingAlone
    <2>4. CASE CaseTimes(rs) = <<>>
      BY <1>1, <2>1, <2>4, PagesParsed, SheetsList
    <2> QED
      BY <2>3, <2>4 DEF CaseTimes
  <1>7. ASSUME NEW i \in 1..n
        PROVE Solid([k \in 1..Len(rows[i]) |-> SourceOf(rows[i][k])])
                = IF rs[i].ok THEN Kept(p[i]) ELSE <<>>
    <2> DEFINE d == [k \in 1..Len(G(i)) |-> G(i)[k].destination]
               m == Len(q[i])
    <2>1. /\ m = Len(G(i)) /\ m \in Nat /\ q[i] \in Seq(Seq(Alphabet))
          /\ \A k \in 1..m : Strip(q[i][k]) = q[i][k] /\ ~SignAmidSpaces(q[i][k]) /\ d[k] \in Seq(Alphabet)
      <3> HIDE DEF q, G
      <3> QED
        BY <1>3
    <2>2. [k \in 1..Len(rows[i]) |-> SourceOf(rows[i][k])] = [k \in 1..m |-> SourceOf(Row(q[i][k], d[k]))]
      <3>1. Len(rows[i]) = m /\ rows[i] = [k \in 1..m |-> Row(q[i][k], G(i)[k].destination)]
        BY <1>4, <1>5, <2>1, SMTT(30)
      <3>2. \A k \in 1..m : rows[i][k] = Row(q[i][k], d[k])
        <4>1. \A k \in 1..m : d[k] = G(i)[k].destination
          BY <2>1
        <4> HIDE DEF rows, q, G, d, m
        <4> QED
          BY <3>1, <4>1
      <3> HIDE DEF rows, q, G, d, m
      <3> QED
        BY <3>1, <3>2
    <2>3. Solid([k \in 1..m |-> SourceOf(Row(q[i][k], d[k]))]) = Kept(q[i])
      <3> HIDE DEF q, d
      <3> QED
        BY <2>1, PageKept
    <2>4. Kept(q[i]) = IF rs[i].ok THEN Kept(p[i]) ELSE <<>>
      <3>1. Kept(<<>>) = <<>>
        <4> DEFINE none == [k \in DOMAIN <<>> |-> ReadBack(<<>>[k])]
                   B == {k \in DOMAIN none : none[k] # <<>> /\ \A l \in DOMAIN none[k] : none[k][l] # "ls"}
        <4>1. DOMAIN <<>> = {}
          OBVIOUS
        <4>2. B = {}
          BY <4>1
        <4>3. Kept(<<>>) = Pick(none, B)
          BY DEF Kept, Where
        <4> HIDE DEF none, B
        <4>4. Pick(none, {}) = <<>>
          BY FS_EmptySet DEF Pick
        <4> QED
          BY <4>2, <4>3, <4>4
      <3>2. q[i] = IF rs[i].ok THEN p[i] ELSE <<>>
        OBVIOUS
      <3> HIDE DEF q
      <3> QED
        BY <3>1, <3>2
    <2> HIDE DEF rows, q, G, d, m
    <2> QED
      BY <2>2, <2>3, <2>4
  <1>8. SheetTexts(n, rows)
          = [i \in 1..n |-> IF rs[i].ok THEN Kept(p[i]) ELSE <<>>]
    <2> HIDE DEF rows
    <2> QED
      BY <1>7 DEF SheetTexts
  <1> QED
    BY <1>6, <1>8
-----------------------------------------------------------------------------
(* The pool, in run_report and in the bench.                               *)

PoolTypes ==
    /\ step \in {"args", "drive", "report", "parse", "bench", "ended"}
    /\ opts \in [force : BOOLEAN, skip : BOOLEAN] /\ texts \in PageTexts
    /\ limit \in Nat /\ jobs \in Nat /\ handed \in 0..jobs
    /\ flight \subseteq 1..handed /\ Cardinality(flight) <= limit
    /\ DOMAIN answered = (1..handed) \ flight
    /\ rounds \in Seq(Nat \ {0})

\* What input i's thread may leave.
PageRecords(i) ==
    {Record(i, FALSE, <<>>, <<>>)}
      \cup {Record(i, TRUE,
                   [k \in DOMAIN texts[i] |->
                      [source |-> texts[i][k],
                       destination |-> IF opts.skip THEN <<>> ELSE texts[i][k]]],
                   timing) : timing \in {<<Costs[i]>>} \cup (IF opts.force THEN {} ELSE {<<>>})}

\* Each record is its own input's, and the report is made of all of them.
DriveInv ==
    /\ step \in {"drive", "report", "parse"} =>
         /\ jobs = Len(Inputs)
         /\ \A i \in DOMAIN answered : answered[i] \in PageRecords(i)
    /\ step \in {"report", "parse"} =>
         /\ handed = jobs /\ flight = {}
         /\ runs = [i \in 1..jobs |-> answered[i]]

\* Each body is sent when its job is handed out, and a job is taken back only
\* when an error is to be raised.
BenchInv ==
    step = "bench" =>
      /\ posted = [k \in 1..Len(bodies) |-> IF k <= handed THEN 1 ELSE 0]
      /\ \A i \in DOMAIN answered : answered[i] \in BOOLEAN
      /\ Len(bodies) \in Nat /\ jobs <= Len(bodies)
      /\ jobs < Len(bodies) => Raised

ReportInv == PoolTypes /\ DriveInv /\ BenchInv

LEMMA LengthIsNat == Len(Inputs) \in Nat /\ Len(Inputs) >= 1 /\ DOMAIN Inputs = 1..Len(Inputs)
  BY InputsAreGiven, EmptySeq, LenProperties

LEMMA ReportInvInit == ReportInit => ReportInv
  <1> SUFFICES ASSUME ReportInit PROVE ReportInv
    OBVIOUS
  <1>1. Cardinality({}) = 0
    BY FS_EmptySet
  <1>2. PoolTypes
    BY <1>1 DEF ReportInit, PoolTypes
  <1>3. DriveInv /\ BenchInv
    BY DEF ReportInit, DriveInv, BenchInv
  <1> QED
    BY <1>2, <1>3 DEF ReportInv

\* The pool when it is opened.
LEMMA PoolOpens ==
    ASSUME NEW n \in Nat, NEW t \in Nat, OpenPool(n, t)
    PROVE /\ limit' \in Nat /\ jobs' \in Nat /\ handed' \in 0..jobs'
          /\ flight' \subseteq 1..handed' /\ Cardinality(flight') <= limit'
          /\ DOMAIN answered' = (1..handed') \ flight' /\ DOMAIN answered' = {}
          /\ jobs' = n /\ handed' = 0
  <1>1. Cardinality({}) = 0
    BY FS_EmptySet
  <1>2. (1..0) \ {} = {} /\ DOMAIN <<>> = {}
    OBVIOUS
  <1> QED
    BY <1>1, <1>2 DEF OpenPool

\* -P has a highest value.
LEMMA SweepTop ==
    \E p \in {Sweep[k] : k \in DOMAIN Sweep} : \A k \in DOMAIN Sweep : Sweep[k] <= p
  <1> DEFINE n == Len(Sweep)
             T == {m \in Nat : m <= n /\ ~\E b \in Nat : \A k \in 1..m : Sweep[k] <= b}
             V == {Sweep[k] : k \in DOMAIN Sweep}
  <1>1. n \in Nat /\ n >= 1 /\ DOMAIN Sweep = 1..n /\ \A k \in 1..n : Sweep[k] \in Nat
    BY SweepIsPositive, EmptySeq, LenProperties, ElementOfSeq
  <1> HIDE DEF n
  <1>2. ASSUME T # {} PROVE FALSE
    <2>1. T \subseteq Nat
      OBVIOUS
    <2>2. PICK m \in T : \A l \in T : m <= l
      <3> HIDE DEF T
      <3> QED
        BY <1>2, <2>1, LeastExists
    <2>3. m \in Nat /\ m <= n /\ ~\E b \in Nat : \A k \in 1..m : Sweep[k] <= b
      BY <2>2
    <2>4. m # 0
      <3>1. \A k \in 1..0 : Sweep[k] <= 0
        OBVIOUS
      <3> QED
        BY <2>3, <3>1
    <2>5. m - 1 \in Nat /\ m - 1 <= n /\ m - 1 \notin T
      <3>1. m - 1 \in Nat /\ m - 1 <= n /\ ~(m <= m - 1)
        BY <1>1, <2>3, <2>4
      <3>2. m - 1 \in T => m <= m - 1
        <4> HIDE DEF T
        <4> QED
          BY <2>2
      <3> HIDE DEF T
      <3> QED
        BY <3>1, <3>2
    <2>6. PICK b \in Nat : \A k \in 1..m - 1 : Sweep[k] <= b
      BY <2>5
    <2>7. Sweep[m] \in Nat
      BY <1>1, <2>3, <2>4
    <2> DEFINE c == IF b <= Sweep[m] THEN Sweep[m] ELSE b
    <2>8. c \in Nat /\ \A k \in 1..m : Sweep[k] <= c
      <3>1. c \in Nat /\ b <= c /\ Sweep[m] <= c
        BY <2>7
      <3> HIDE DEF c
      <3>2. ASSUME NEW k \in 1..m PROVE Sweep[k] <= c
        <4>1. k = m \/ k \in 1..m - 1
          BY <2>3
        <4>2. Sweep[k] \in Nat
          BY <1>1, <2>3
        <4>3. k \in 1..m - 1 => Sweep[k] <= b
          BY <2>6
        <4> QED
          BY <3>1, <4>1, <4>2, <4>3
      <3> QED
        BY <3>1, <3>2
    <2> HIDE DEF c
    <2> QED
      BY <2>3, <2>8
  <1>3. PICK b \in Nat : \A k \in 1..n : Sweep[k] <= b
    <2>1. n \in Nat /\ n <= n /\ n \notin T
      <3>1. n \in Nat /\ n <= n
        BY <1>1
      <3> HIDE DEF T
      <3> QED
        BY <1>2, <3>1
    <2> QED
      BY <2>1
  <1>4. V \subseteq 0..b /\ V # {}
    <2>1. \A k \in DOMAIN Sweep : Sweep[k] \in 0..b
      BY <1>1, <1>3
    <2>2. 1 \in DOMAIN Sweep
      BY <1>1
    <2> QED
      BY <2>1, <2>2
  <1>5. PICK p \in V : \A q \in V : q <= p
    <2> HIDE DEF V
    <2> QED
      BY <1>4, GreatestExists
  <1> QED
    BY <1>5

LEMMA StartsRunKeeps == ReportInv /\ StartsRun => ReportInv'
  <1> SUFFICES ASSUME ReportInv, StartsRun PROVE ReportInv'
    OBVIOUS
  <1>1. /\ step = "args" /\ step' = "drive"
        /\ UNCHANGED <<texts, runs, bodies, rounds>>
    BY DEF StartsRun
  <1>2. PICK req \in Caps, parallel, force, skip \in BOOLEAN :
          OpenPool(Len(Inputs), Concurrency(req, parallel)) /\ opts' = [force |-> force, skip |-> skip]
    BY DEF StartsRun
  <1>3. Concurrency(req, parallel) \in Nat
    <2>1. req \in Seq(Int)
      BY CapsAreNumbers
    <2>2. req # <<>> => req[1] \in Int
      <3>1. req # <<>> => 1 \in 1..Len(req)
        BY <2>1, EmptySeq
      <3> QED
        BY <2>1, <3>1, ElementOfSeq
    <2> QED
      BY <2>2, LengthIsNat DEF Concurrency, Smaller, Larger
  <1>4. /\ limit' \in Nat /\ jobs' \in Nat /\ handed' \in 0..jobs'
        /\ flight' \subseteq 1..handed' /\ Cardinality(flight') <= limit'
        /\ DOMAIN answered' = (1..handed') \ flight' /\ DOMAIN answered' = {}
        /\ jobs' = Len(Inputs)
    BY <1>2, <1>3, LengthIsNat, PoolOpens
  <1>5. opts' \in [force : BOOLEAN, skip : BOOLEAN]
    BY <1>2
  <1>6. PoolTypes'
    BY <1>1, <1>4, <1>5 DEF ReportInv, PoolTypes
  <1>7. DriveInv' /\ BenchInv'
    BY <1>1, <1>4 DEF DriveInv, BenchInv
  <1> QED
    BY <1>6, <1>7 DEF ReportInv

LEMMA PostsKeeps == ReportInv /\ Posts => ReportInv'
  <1> SUFFICES ASSUME ReportInv, Posts PROVE ReportInv'
    OBVIOUS
  <1>1. /\ step \in {"drive", "bench"} /\ handed < jobs /\ Cardinality(flight) < limit
        /\ handed' = handed + 1 /\ flight' = flight \cup {handed + 1}
        /\ posted' = [posted EXCEPT ![handed + 1] = @ + 1]
        /\ UNCHANGED <<step, opts, texts, limit, jobs, answered, runs, bodies, rounds>>
    BY DEF Posts
  <1>2. /\ limit \in Nat /\ jobs \in Nat /\ handed \in 0..jobs /\ flight \subseteq 1..handed
        /\ DOMAIN answered = (1..handed) \ flight
    BY DEF ReportInv, PoolTypes
  <1>3. IsFiniteSet(flight) /\ Cardinality(flight') <= limit'
    <2>1. IsFiniteSet(1..handed)
      BY <1>2, FS_Interval
    <2>2. IsFiniteSet(flight)
      BY <1>2, <2>1, FS_Subset
    <2>3. Cardinality(flight) \in Nat
      BY <2>2, FS_CardinalityType
    <2>4. Cardinality(flight') <= Cardinality(flight) + 1
      BY <1>1, <2>2, <2>3, FS_AddElement
    <2>5. Cardinality(flight') \in Nat
      BY <1>1, <2>2, FS_AddElement, FS_CardinalityType
    <2> QED
      BY <1>1, <1>2, <2>2, <2>3, <2>4, <2>5
  <1>4. handed' \in 0..jobs' /\ flight' \subseteq 1..handed' /\ DOMAIN answered' = (1..handed') \ flight'
    <2>1. handed' \in 0..jobs'
      BY <1>1, <1>2
    <2>2. \A i : i \in 1..handed + 1 <=> i \in 1..handed \/ i = handed + 1
      BY <1>2
    <2>3. handed + 1 \notin 1..handed
      BY <1>2
    <2> QED
      BY <1>1, <1>2, <2>1, <2>2, <2>3
  <1>5. PoolTypes'
    BY <1>1, <1>3, <1>4 DEF ReportInv, PoolTypes
  <1>6. DriveInv'
    <2>1. \A k : PageRecords(k)' = PageRecords(k)
      BY <1>1 DEF PageRecords
    <2> QED
      BY <1>1, <2>1 DEF ReportInv, DriveInv
  <1>7. BenchInv'
    <2>1. SUFFICES ASSUME step = "bench" PROVE BenchInv'
      BY <1>1 DEF BenchInv
    <2>2. /\ posted = [k \in 1..Len(bodies) |-> IF k <= handed THEN 1 ELSE 0]
          /\ Len(bodies) \in Nat /\ jobs <= Len(bodies)
          /\ jobs < Len(bodies) => Raised
          /\ \A i \in DOMAIN answered : answered[i] \in BOOLEAN
      BY <2>1 DEF ReportInv, BenchInv
    <2>3. posted' = [k \in 1..Len(bodies) |-> IF k <= handed + 1 THEN 1 ELSE 0]
      <3>1. handed + 1 \in 1..Len(bodies) /\ ~(handed + 1 <= handed)
        BY <1>1, <1>2, <2>2
      <3>2. posted' = [k \in 1..Len(bodies) |-> IF k = handed + 1 THEN posted[k] + 1 ELSE posted[k]]
        BY <1>1, <2>2, <3>1
      <3>3. \A k \in 1..Len(bodies) :
              (IF k = handed + 1 THEN posted[k] + 1 ELSE posted[k]) = IF k <= handed + 1 THEN 1 ELSE 0
        BY <1>2, <2>2, <3>1
      <3> QED
        BY <3>2, <3>3
    <2>4. Raised' <=> Raised
      BY <1>1 DEF Raised
    <2> QED
      BY <1>1, <2>2, <2>3, <2>4 DEF BenchInv
  <1> QED
    BY <1>5, <1>6, <1>7 DEF ReportInv

\* A thread that ends leaves its own result and no other.
LEMMA EndsKeeps ==
    ASSUME PoolTypes, NEW i, NEW result, Ends(i, result)
    PROVE /\ PoolTypes'
          /\ i \in DOMAIN answered' /\ i \notin DOMAIN answered /\ answered'[i] = result
          /\ \A k \in DOMAIN answered' : k # i => k \in DOMAIN answered /\ answered'[k] = answered[k]
          /\ \A k \in DOMAIN answered : k # i /\ k \in DOMAIN answered' /\ answered'[k] = answered[k]
  <1>1. /\ i \in flight /\ flight' = flight \ {i}
        /\ answered' = [k \in DOMAIN answered \cup {i} |-> IF k = i THEN result ELSE answered[k]]
        /\ UNCHANGED <<step, opts, texts, limit, jobs, handed, runs, bodies, rounds, posted>>
    BY DEF Ends
  <1>2. /\ limit \in Nat /\ jobs \in Nat /\ handed \in 0..jobs /\ flight \subseteq 1..handed
        /\ Cardinality(flight) <= limit /\ DOMAIN answered = (1..handed) \ flight
    BY DEF PoolTypes
  <1>3. Cardinality(flight') <= limit'
    <2>1. IsFiniteSet(1..handed)
      BY <1>2, FS_Interval
    <2>2. IsFiniteSet(flight)
      BY <1>2, <2>1, FS_Subset
    <2>3. Cardinality(flight) \in Nat /\ Cardinality(flight \ {i}) = Cardinality(flight) - 1
      BY <1>1, <2>2, FS_CardinalityType, FS_RemoveElement
    <2> QED
      BY <1>1, <1>2, <2>3
  <1>4. DOMAIN answered' = DOMAIN answered \cup {i}
    BY <1>1
  <1>5. DOMAIN answered' = (1..handed') \ flight' /\ flight' \subseteq 1..handed' /\ i \notin DOMAIN answered
    BY <1>1, <1>2, <1>4
  <1>6. PoolTypes'
    BY <1>1, <1>3, <1>5 DEF PoolTypes
  <1> QED
    BY <1>1, <1>4, <1>5, <1>6

LEMMA PageReturnsKeeps ==
    ASSUME ReportInv, NEW i, PageReturns(i) \/ PageFailsThere(i)
    PROVE ReportInv'
  <1>1. /\ step = "drive" /\ \E r \in PageRecords(i) : Ends(i, r)
    BY DEF PageReturns, PageFailsThere, PageRecords
  <1>2. PICK r \in PageRecords(i) : Ends(i, r)
    BY <1>1
  <1>3. /\ PoolTypes' /\ i \in DOMAIN answered' /\ answered'[i] = r
        /\ \A k \in DOMAIN answered' : k # i => k \in DOMAIN answered /\ answered'[k] = answered[k]
    BY <1>2, EndsKeeps DEF ReportInv
  <1>4. UNCHANGED <<step, opts, texts, jobs>>
    BY <1>2 DEF Ends
  <1>5. \A k : PageRecords(k)' = PageRecords(k)
    BY <1>4 DEF PageRecords
  <1>6. DriveInv'
    <2>1. jobs' = Len(Inputs) /\ step' = "drive"
      BY <1>1, <1>4 DEF ReportInv, DriveInv
    <2>2. ASSUME NEW k \in DOMAIN answered' PROVE answered'[k] \in PageRecords(k)'
      <3>1. \A l \in DOMAIN answered : answered[l] \in PageRecords(l)
        BY <1>1 DEF ReportInv, DriveInv
      <3> QED
        BY <1>2, <1>3, <1>5, <3>1, Zenon
    <2> QED
      BY <2>1, <2>2 DEF DriveInv
  <1>7. BenchInv'
    BY <1>1, <1>4 DEF BenchInv
  <1> QED
    BY <1>3, <1>6, <1>7 DEF ReportInv

LEMMA BodyReturnsKeeps == ASSUME ReportInv, NEW i, BodyReturns(i) PROVE ReportInv'
  <1>1. PICK ok \in BOOLEAN : Ends(i, ok)
    BY DEF BodyReturns
  <1>2. /\ PoolTypes' /\ i \in DOMAIN answered' /\ i \notin DOMAIN answered /\ answered'[i] = ok
        /\ \A k \in DOMAIN answered' : k # i => k \in DOMAIN answered /\ answered'[k] = answered[k]
        /\ \A k \in DOMAIN answered : k # i /\ k \in DOMAIN answered' /\ answered'[k] = answered[k]
    BY <1>1, EndsKeeps DEF ReportInv
  <1>3. step = "bench" /\ UNCHANGED <<step, jobs, handed, runs, bodies, posted>>
    BY <1>1 DEF Ends, BodyReturns
  <1>4. Raised => Raised'
    BY <1>2 DEF Raised
  <1>5. /\ posted = [k \in 1..Len(bodies) |-> IF k <= handed THEN 1 ELSE 0]
        /\ Len(bodies) \in Nat /\ jobs <= Len(bodies)
        /\ jobs < Len(bodies) => Raised
        /\ \A k \in DOMAIN answered : answered[k] \in BOOLEAN
    BY <1>3 DEF ReportInv, BenchInv
  <1>6. \A k \in DOMAIN answered' : answered'[k] \in BOOLEAN
    BY <1>1, <1>2, <1>5
  <1>7. BenchInv'
    BY <1>3, <1>4, <1>5, <1>6 DEF BenchInv
  <1>8. DriveInv'
    BY <1>3 DEF DriveInv
  <1> QED
    BY <1>2, <1>7, <1>8 DEF ReportInv

LEMMA CollectsKeeps == ReportInv /\ Collects => ReportInv'
  <1> SUFFICES ASSUME ReportInv, Collects PROVE ReportInv'
    OBVIOUS
  <1>1. /\ step = "drive" /\ AllIn /\ step' = "report" /\ runs' = [k \in 1..jobs |-> answered[k]]
        /\ UNCHANGED <<opts, texts, limit, jobs, handed, flight, answered, posted, bodies, rounds>>
    BY DEF Collects, poolVars
  <1>2. PoolTypes'
    BY <1>1 DEF ReportInv, PoolTypes
  <1>3. DriveInv' /\ BenchInv'
    <2>1. \A k : PageRecords(k)' = PageRecords(k)
      BY <1>1 DEF PageRecords
    <2> QED
      BY <1>1, <2>1 DEF ReportInv, DriveInv, BenchInv, AllIn
  <1> QED
    BY <1>2, <1>3 DEF ReportInv

LEMMA WritesReportKeeps == ReportInv /\ WritesReport => ReportInv'
  <1> SUFFICES ASSUME ReportInv, WritesReport PROVE ReportInv'
    OBVIOUS
  <1>1. /\ step = "report" /\ step' = "parse"
        /\ UNCHANGED <<opts, texts, limit, jobs, handed, flight, answered, posted, runs, bodies, rounds>>
    BY DEF WritesReport, poolVars
  <1>2. PoolTypes'
    BY <1>1 DEF ReportInv, PoolTypes
  <1>3. DriveInv' /\ BenchInv'
    <2>1. \A k : PageRecords(k)' = PageRecords(k)
      BY <1>1 DEF PageRecords
    <2> QED
      BY <1>1, <2>1 DEF ReportInv, DriveInv, BenchInv
  <1> QED
    BY <1>2, <1>3 DEF ReportInv

LEMMA FullIsList == ASSUME NEW found, NEW m \in Nat, DOMAIN found = 1..m PROVE Len(Full(found)) \in Nat
  <1> DEFINE R == {i \in DOMAIN found : found[i] # <<>>}
  <1>1. R \in SUBSET (1..m)
    OBVIOUS
  <1>2. Full(found) = Pick(found, R)
    BY DEF Full, Where
  <1> HIDE DEF R
  <1>3. Cardinality(R) \in Nat
    BY <1>1, PickLists
  <1>4. Len(Pick(found, R)) = Cardinality(R)
    BY <1>3 DEF Pick
  <1> QED
    BY <1>2, <1>3, <1>4

LEMMA ParsesKeeps == ReportInv /\ Parses => ReportInv'
  <1> SUFFICES ASSUME ReportInv, Parses PROVE ReportInv'
    OBVIOUS
  <1> DEFINE top == CHOOSE p \in {Sweep[k] : k \in DOMAIN Sweep} : \A k \in DOMAIN Sweep : Sweep[k] <= p
             found == ParsePages(BuildMarkdown(runs))
  <1>1. /\ step = "parse" /\ bodies' = found
        /\ step' = IF found = <<>> THEN "ended" ELSE "bench"
        /\ rounds' = IF found = <<>> THEN <<>> ELSE Sweep
        /\ OpenPool(Len(found), top)
        /\ opts' = [force |-> TRUE, skip |-> FALSE] /\ runs' = <<>> /\ UNCHANGED texts
    <2> HIDE DEF found
    <2> QED
      BY DEF Parses, found
  <1>2. top \in Nat
    <2>1. \A k \in DOMAIN Sweep : Sweep[k] \in Nat
      BY SweepIsPositive, ElementOfSeq, LenProperties
    <2>2. top \in {Sweep[k] : k \in DOMAIN Sweep}
      BY SweepTop
    <2> HIDE DEF top
    <2> QED
      BY <2>1, <2>2
  <1>3. Len(found) \in Nat
    BY FullIsList DEF ParsePages
  <1> HIDE DEF top, found
  <1>4. /\ limit' \in Nat /\ jobs' \in Nat /\ handed' \in 0..jobs'
        /\ flight' \subseteq 1..handed' /\ Cardinality(flight') <= limit'
        /\ DOMAIN answered' = (1..handed') \ flight' /\ DOMAIN answered' = {}
        /\ jobs' = Len(found) /\ handed' = 0
    BY <1>1, <1>2, <1>3, PoolOpens
  <1>5. rounds' \in Seq(Nat \ {0})
    BY <1>1, SweepIsPositive
  <1>6. PoolTypes'
    BY <1>1, <1>4, <1>5 DEF ReportInv, PoolTypes
  <1>7. DriveInv'
    BY <1>1 DEF DriveInv
  <1>8. BenchInv'
    <2>1. posted' = [k \in 1..Len(bodies') |-> 0]
      BY <1>1 DEF OpenPool
    <2>2. posted' = [k \in 1..Len(bodies') |-> IF k <= handed' THEN 1 ELSE 0]
      <3>1. \A k \in 1..Len(bodies') : ~(k <= handed')
        BY <1>4
      <3> QED
        BY <2>1, <3>1
    <2> QED
      BY <1>1, <1>3, <1>4, <2>2 DEF BenchInv
  <1> QED
    BY <1>6, <1>7, <1>8 DEF ReportInv

LEMMA CancelsRestKeeps == ReportInv /\ CancelsRest => ReportInv'
  <1> SUFFICES ASSUME ReportInv, CancelsRest PROVE ReportInv'
    OBVIOUS
  <1>1. /\ step = "bench" /\ Raised /\ handed < jobs /\ jobs' = handed
        /\ UNCHANGED <<step, opts, texts, limit, handed, flight, answered, runs,
                       bodies, rounds, posted>>
    BY DEF CancelsRest
  <1>2. PoolTypes'
    BY <1>1 DEF ReportInv, PoolTypes
  <1>3. Raised'
    BY <1>1 DEF Raised
  <1>4. handed \in Nat /\ jobs \in Nat
    BY DEF ReportInv, PoolTypes
  <1>5. DriveInv' /\ BenchInv'
    BY <1>1, <1>3, <1>4 DEF ReportInv, DriveInv, BenchInv
  <1> QED
    BY <1>2, <1>5 DEF ReportInv

LEMMA EndsPassKeeps == ReportInv /\ EndsPass => ReportInv'
  <1> SUFFICES ASSUME ReportInv, EndsPass PROVE ReportInv'
    OBVIOUS
  <1>1. step = "bench" /\ AllIn /\ UNCHANGED <<opts, texts, runs, bodies>>
    BY DEF EndsPass
  <1>2. CASE Raised \/ rounds = <<>>
    <2>1. step' = "ended" /\ UNCHANGED <<limit, jobs, handed, flight, answered, posted, rounds>>
      BY <1>2 DEF EndsPass, poolVars
    <2>2. PoolTypes'
      BY <1>1, <2>1 DEF ReportInv, PoolTypes
    <2>3. DriveInv' /\ BenchInv'
      BY <2>1 DEF DriveInv, BenchInv
    <2> QED
      BY <2>2, <2>3 DEF ReportInv
  <1>3. CASE ~(Raised \/ rounds = <<>>)
    <2>1. OpenPool(Len(bodies), Head(rounds)) /\ rounds' = Tail(rounds) /\ UNCHANGED step
      BY <1>3 DEF EndsPass
    <2>2. Head(rounds) \in Nat /\ Tail(rounds) \in Seq(Nat \ {0})
      BY <1>3, HeadTailProperties DEF ReportInv, PoolTypes
    <2>3. Len(bodies) \in Nat
      BY <1>1 DEF ReportInv, BenchInv
    <2>4. /\ limit' \in Nat /\ jobs' \in Nat /\ handed' \in 0..jobs'
          /\ flight' \subseteq 1..handed' /\ Cardinality(flight') <= limit'
          /\ DOMAIN answered' = (1..handed') \ flight' /\ DOMAIN answered' = {}
          /\ jobs' = Len(bodies) /\ handed' = 0
      BY <2>1, <2>2, <2>3, PoolOpens
    <2>5. PoolTypes'
      BY <1>1, <2>1, <2>2, <2>4 DEF ReportInv, PoolTypes
    <2>6. BenchInv'
      <3>1. posted' = [k \in 1..Len(bodies') |-> 0]
        BY <1>1, <2>1 DEF OpenPool
      <3>2. posted' = [k \in 1..Len(bodies') |-> IF k <= handed' THEN 1 ELSE 0]
        <4>1. \A k \in 1..Len(bodies') : ~(k <= handed')
          BY <2>4
        <4> QED
          BY <3>1, <4>1
      <3> QED
        BY <1>1, <2>3, <2>4, <3>2 DEF BenchInv
    <2>7. DriveInv'
      BY <1>1, <2>1 DEF DriveInv
    <2> QED
      BY <2>5, <2>6, <2>7 DEF ReportInv
  <1> QED
    BY <1>2, <1>3

LEMMA ReportInvStep == ReportInv /\ [ReportNext]_reportVars => ReportInv'
  <1> SUFFICES ASSUME ReportInv, [ReportNext]_reportVars PROVE ReportInv'
    OBVIOUS
  <1>1. CASE ReportNext
    <2>1. \A i : PageReturns(i) \/ PageFailsThere(i) => ReportInv'
      BY PageReturnsKeeps
    <2>2. \A i : BodyReturns(i) => ReportInv'
      BY BodyReturnsKeeps
    <2>3. StartsRun \/ Posts \/ Collects \/ WritesReport \/ Parses \/ CancelsRest \/ EndsPass => ReportInv'
      BY StartsRunKeeps, PostsKeeps, CollectsKeeps, WritesReportKeeps, ParsesKeeps,
         CancelsRestKeeps, EndsPassKeeps
    <2> QED
      BY <1>1, <2>1, <2>2, <2>3, Zenon DEF ReportNext
  <1>2. CASE UNCHANGED reportVars
    <2>1. UNCHANGED <<step, opts, texts, limit, jobs, handed, flight, answered, runs,
                      bodies, rounds, posted>>
      BY <1>2 DEF reportVars
    <2>2. PoolTypes'
      BY <2>1 DEF ReportInv, PoolTypes
    <2>3. DriveInv'
      <3>1. \A k : PageRecords(k)' = PageRecords(k)
        BY <2>1 DEF PageRecords
      <3> QED
        BY <2>1, <3>1 DEF ReportInv, DriveInv
    <2>4. BenchInv'
      BY <2>1 DEF ReportInv, BenchInv, Raised
    <2> QED
      BY <2>2, <2>3, <2>4 DEF ReportInv
  <1> QED
    BY <1>1, <1>2
-----------------------------------------------------------------------------
(* What is counted and timed.                                              *)

\* A set that holds the images of an interval is as large as it, at least.
LEMMA HoldsInterval ==
    ASSUME NEW n \in Nat, NEW p, OneToOne(n, p), NEW S \in SUBSET (1..n),
           NEW a \in 1..n, NEW b \in 1..n, a <= b, \A k \in a..b : p[k] \in S
    PROVE Cardinality(S) \in Nat /\ Cardinality(S) >= b - a + 1
  <1> DEFINE I == a..b
             f == [k \in I |-> p[k]]
  <1>1. IsFiniteSet(I) /\ Cardinality(I) = b - a + 1
    BY FS_Interval
  <1>2. IsFiniteSet(S) /\ Cardinality(S) \in Nat
    <2>1. IsFiniteSet(1..n)
      BY FS_Interval
    <2> QED
      BY <2>1, FS_Subset, FS_CardinalityType
  <1>3. f \in [I -> S]
    OBVIOUS
  <1>4. \A k, l \in I : f[k] = f[l] => k = l
    <2>1. \A k \in I : k \in 1..n
      OBVIOUS
    <2> QED
      BY <2>1 DEF OneToOne
  <1> HIDE DEF f, I
  <1>5. f \in Injection(I, S)
    BY <1>3, <1>4 DEF Injection, IsInjective
  <1>6. Cardinality(I) <= Cardinality(S)
    BY <1>2, <1>5, FS_Injection
  <1> QED
    BY <1>1, <1>2, <1>6

\* _median: no more than half of the values are below it, nor above.
LEMMA MedianDivides ==
    ASSUME NEW m \in Nat, m >= 1, NEW times \in [1..m -> Nat]
    PROVE LET median == TwiceMedian(times)
          IN  /\ 2 * Cardinality({i \in 1..m : 2 * times[i] <= median}) >= m
              /\ 2 * Cardinality({i \in 1..m : 2 * times[i] >= median}) >= m
  <1> DEFINE median == TwiceMedian(times)
             mid == m \div 2
             Low == {i \in 1..m : 2 * times[i] <= median}
             High == {i \in 1..m : 2 * times[i] >= median}
  <1>1. PICK p : /\ OneToOne(m, p) /\ Onto(m, p) /\ Climbs(m, [k \in 1..m |-> times[p[k]]])
                 /\ Sorted(times) = [k \in 1..m |-> times[p[k]]]
    <2>1. times \in [1..m -> Int]
      OBVIOUS
    <2> QED
      BY <2>1, SortedAscends
  <1> DEFINE s == [k \in 1..m |-> times[p[k]]]
  <1>2. \A k \in 1..m : p[k] \in 1..m /\ s[k] = times[p[k]] /\ s[k] \in Nat
    BY <1>1 DEF OneToOne
  <1>3. \A k, l \in 1..m : k <= l => s[k] <= s[l]
    <2>1. \A k, l \in 1..m : k < l => s[k] <= s[l]
      BY <1>1 DEF Climbs
    <2> HIDE DEF s
    <2> QED
      BY <1>2, <2>1
  <1>4. median = IF m % 2 = 1 THEN 2 * s[mid + 1] ELSE s[mid] + s[mid + 1]
    <2>1. Sorted(times) = s /\ Len(s) = m
      BY <1>1
    <2>2. StableSort(times, LAMBDA x, y : x < y) = Sorted(times)
      BY DEF Sorted
    <2> HIDE DEF s
    <2>3. TwiceMedian(times) = IF Len(Sorted(times)) % 2 = 1 THEN 2 * Sorted(times)[Len(Sorted(times)) \div 2 + 1]
                               ELSE Sorted(times)[Len(Sorted(times)) \div 2] + Sorted(times)[Len(Sorted(times)) \div 2 + 1]
      BY <2>2 DEF TwiceMedian
    <2> QED
      BY <2>1, <2>3
  <1>5. mid \in Nat /\ IF m % 2 = 1 THEN m = 2 * mid + 1 ELSE m = 2 * mid
    OBVIOUS
  <1> HIDE DEF s, mid, median
  <1>6. \A k \in 1..mid : k \in 1..m /\ 2 * s[k] <= median
    <2> TAKE k \in 1..mid
    <2>1. k \in 1..m /\ mid \in 1..m /\ s[k] \in Nat /\ s[mid] \in Nat /\ s[k] <= s[mid]
      BY <1>2, <1>3, <1>5
    <2>2. CASE m % 2 = 1
      <3>1. mid + 1 \in 1..m /\ s[mid + 1] \in Nat /\ s[k] <= s[mid + 1] /\ median = 2 * s[mid + 1]
        BY <1>2, <1>3, <1>4, <1>5, <2>1, <2>2
      <3> QED
        BY <2>1, <3>1, SMTT(30)
    <2>3. CASE m % 2 # 1
      <3>1. mid + 1 \in 1..m /\ s[mid + 1] \in Nat /\ s[k] <= s[mid + 1] /\ median = s[mid] + s[mid + 1]
        BY <1>2, <1>3, <1>4, <1>5, <2>1, <2>3
      <3> QED
        BY <2>1, <3>1, SMTT(30)
    <2> QED
      BY <2>2, <2>3
  <1>7. mid + 1 \in 1..m /\ \A k \in (mid + 1)..m : k \in 1..m /\ 2 * s[k] >= median
    <2>1. mid + 1 \in 1..m
      BY <1>5
    <2>2. ASSUME NEW k \in (mid + 1)..m PROVE k \in 1..m /\ 2 * s[k] >= median
      <3>1. k \in 1..m /\ s[k] \in Nat /\ s[mid + 1] \in Nat /\ s[mid + 1] <= s[k]
        BY <1>2, <1>3, <1>5, <2>1
      <3>2. m % 2 # 1 => s[mid] \in Nat /\ s[mid] <= s[k]
        <4>1. m % 2 # 1 => mid \in 1..m /\ mid <= k
          BY <1>5
        <4> QED
          BY <1>2, <1>3, <3>1, <4>1
      <3> QED
        BY <1>4, <3>1, <3>2
    <2> QED
      BY <2>1, <2>2
  <1>8. 2 * Cardinality(High) >= m
    <2>1. \A k \in (mid + 1)..m : p[k] \in High
      BY <1>2, <1>7
    <2>2. High \in SUBSET (1..m)
      OBVIOUS
    <2>3. m \in 1..m /\ mid + 1 <= m
      BY <1>7
    <2> HIDE DEF High
    <2>4. Cardinality(High) \in Nat /\ Cardinality(High) >= m - (mid + 1) + 1
      BY <1>1, <1>7, <2>1, <2>2, <2>3, HoldsInterval
    <2> QED
      BY <1>5, <2>4
  <1>9. 2 * Cardinality(Low) >= m
    <2> DEFINE top == IF m % 2 = 1 THEN mid + 1 ELSE mid
    <2>1. top \in 1..m /\ 1 \in 1..m /\ 1 <= top /\ 2 * top >= m
      BY <1>5
    <2>2. \A k \in 1..top : p[k] \in Low
      <3> TAKE k \in 1..top
      <3>1. k \in 1..m /\ 2 * s[k] <= median
        <4>1. k \in 1..mid \/ (m % 2 = 1 /\ k = mid + 1)
          BY <1>5
        <4>2. m % 2 = 1 => 2 * s[mid + 1] <= median
          BY <1>2, <1>4, <1>7
        <4> QED
          BY <1>6, <1>7, <4>1, <4>2
      <3> QED
        BY <1>2, <3>1
    <2>3. Low \in SUBSET (1..m)
      OBVIOUS
    <2> HIDE DEF Low, top
    <2>4. Cardinality(Low) \in Nat /\ Cardinality(Low) >= top - 1 + 1
      BY <1>1, <2>1, <2>2, <2>3, HoldsInterval
    <2> QED
      BY <2>1, <2>4
  <1> QED
    BY <1>8, <1>9 DEF median

\* What the report's records hold.
Tallied(n, rs) ==
    \A i \in 1..n : /\ rs[i].ok \in BOOLEAN
                    /\ rs[i].timing # <<>> => rs[i].timing[1] \in Nat

\* Each record is counted once, and the median is of the times it holds.
LEMMA TalliesOf ==
    ASSUME NEW n \in Nat, NEW rs, DOMAIN rs = 1..n, Tallied(n, rs)
    PROVE LET agg == Aggregate(rs)
              times == agg.times
              median == TwiceMedian(times)
          IN  /\ agg.ok + agg.failed = n /\ Len(times) <= agg.ok
              /\ (\A i \in 1..n : rs[i].ok => rs[i].timing # <<>>) => Len(times) = agg.ok
              /\ times # <<>> =>
                   /\ 2 * Cardinality({i \in DOMAIN times : 2 * times[i] <= median}) >= Len(times)
                   /\ 2 * Cardinality({i \in DOMAIN times : 2 * times[i] >= median}) >= Len(times)
  <1> DEFINE agg == Aggregate(rs)
             times == agg.times
             A == {i \in 1..n : rs[i].ok}
             B == {i \in 1..n : ~rs[i].ok}
             T == {i \in 1..n : rs[i].ok /\ rs[i].timing # <<>>}
             m == Cardinality(T)
  <1>1. /\ IsFiniteSet(A) /\ IsFiniteSet(B) /\ IsFiniteSet(T)
        /\ Cardinality(A) \in Nat /\ Cardinality(B) \in Nat /\ m \in Nat
    <2>1. IsFiniteSet(1..n) /\ A \in SUBSET (1..n) /\ B \in SUBSET (1..n) /\ T \in SUBSET (1..n)
      BY FS_Interval
    <2> HIDE DEF A, B, T
    <2> QED
      BY <2>1, FS_Subset, FS_CardinalityType
  <1>2. Cardinality(A) + Cardinality(B) = n
    <2>1. A \cup B = 1..n /\ A \cap B = {}
      BY DEF Tallied
    <2>2. Cardinality(1..n) = n /\ Cardinality({}) = 0
      BY FS_Interval, FS_EmptySet
    <2> HIDE DEF A, B
    <2>3. Cardinality(A \cup B) = Cardinality(A) + Cardinality(B) - Cardinality(A \cap B)
      BY <1>1, FS_Union
    <2>4. Cardinality(A \cup B) = n /\ Cardinality(A \cap B) = 0
      BY <2>1, <2>2
    <2> QED
      BY <1>1, <2>3, <2>4
  <1>3. T \in SUBSET A /\ m <= Cardinality(A)
    <2>1. T \in SUBSET A
      OBVIOUS
    <2> HIDE DEF A, T
    <2> QED
      BY <1>1, <2>1, FS_Subset
  <1>4. (\A i \in 1..n : rs[i].ok => rs[i].timing # <<>>) => m = Cardinality(A)
    <2>1. (\A i \in 1..n : rs[i].ok => rs[i].timing # <<>>) => A \subseteq T
      OBVIOUS
    <2> HIDE DEF A, T
    <2>2. (\A i \in 1..n : rs[i].ok => rs[i].timing # <<>>) => A = T
      BY <1>3, <2>1
    <2> QED
      BY <2>2
  <1>5. agg.ok = Cardinality(A) /\ agg.failed = Cardinality(B)
    BY DEF Aggregate
  <1>6. PICK q : Enumerates(T, q)
    <2>1. T \in SUBSET (1..n)
      OBVIOUS
    <2> HIDE DEF T
    <2> QED
      BY <2>1, PickLists
  <1>7. times = [k \in 1..m |-> rs[q[k]].timing[1]]
    <2> DEFINE timed == Pick(rs, T)
    <2>1. times = [k \in DOMAIN timed |-> timed[k].timing[1]]
      BY DEF Aggregate, Where
    <2>2. timed = [k \in 1..m |-> rs[q[k]]]
      BY <1>6, SMTT(30) DEF Enumerates
    <2> HIDE DEF timed, T
    <2> QED
      BY <2>1, <2>2
  <1>8. \A k \in 1..m : q[k] \in T
    BY <1>6 DEF Enumerates, Lists
  <1>9. times \in [1..m -> Nat]
    <2>1. \A k \in 1..m : rs[q[k]].timing[1] \in Nat
      BY <1>8 DEF Tallied
    <2> HIDE DEF T, times
    <2> QED
      BY <1>7, <2>1
  <1>10. Len(times) = m /\ DOMAIN times = 1..m /\ (times # <<>> => m >= 1)
    <2> HIDE DEF times, T
    <2>1. Len(times) = m /\ DOMAIN times = 1..m /\ times \in Seq(Nat)
      BY <1>1, <1>9, FunctionsAreLists
    <2> QED
      BY <1>1, <2>1, EmptySeq
  <1> HIDE DEF times, agg, A, B, T
  <1>11. times # <<>> =>
           /\ 2 * Cardinality({i \in 1..m : 2 * times[i] <= TwiceMedian(times)}) >= m
           /\ 2 * Cardinality({i \in 1..m : 2 * times[i] >= TwiceMedian(times)}) >= m
    BY <1>1, <1>9, <1>10, MedianDivides
  <1>12. /\ agg.ok + agg.failed = n /\ Len(times) <= agg.ok
         /\ (\A i \in 1..n : rs[i].ok => rs[i].timing # <<>>) => Len(times) = agg.ok
    BY <1>2, <1>3, <1>4, <1>5, <1>10
  <1> QED
    BY <1>10, <1>11, <1>12 DEF agg, times

\* The report's records, one for each input.
LEMMA ReportRecords ==
    ASSUME ReportInv, step \in {"report", "parse"}
    PROVE /\ Len(Inputs) \in Nat /\ DOMAIN Inputs = 1..Len(Inputs)
          /\ DOMAIN runs = 1..Len(Inputs) /\ Len(runs) = Len(Inputs)
          /\ \A i \in 1..Len(Inputs) : runs[i] = answered[i] /\ runs[i] \in PageRecords(i)
  <1>1. Len(Inputs) \in Nat /\ DOMAIN Inputs = 1..Len(Inputs)
    BY LengthIsNat
  <1>2. /\ jobs = Len(Inputs) /\ handed = jobs /\ flight = {} /\ runs = [i \in 1..jobs |-> answered[i]]
        /\ \A i \in DOMAIN answered : answered[i] \in PageRecords(i)
    BY DEF ReportInv, DriveInv
  <1>3. DOMAIN answered = 1..Len(Inputs)
    BY <1>2 DEF ReportInv, PoolTypes
  <1>4. DOMAIN runs = 1..Len(Inputs) /\ Len(runs) = Len(Inputs)
    BY <1>1, <1>2
  <1> QED
    BY <1>1, <1>2, <1>3, <1>4

\* What a record holds.
LEMMA PageRecordIs ==
    ASSUME PoolTypes, NEW i \in 1..Len(Inputs), NEW r \in PageRecords(i)
    PROVE /\ r.image = Inputs[i] /\ r.ok \in BOOLEAN
          /\ texts[i] \in Seq(Seq(Alphabet))
          /\ \A k \in 1..Len(texts[i]) : Strip(texts[i][k]) = texts[i][k]
          /\ r.regions \in Seq([source : Seq(Alphabet), destination : Seq(Alphabet)])
          /\ r.ok => /\ Len(r.regions) = Len(texts[i])
                     /\ \A k \in 1..Len(texts[i]) : r.regions[k].source = texts[i][k]
          /\ ~r.ok => r.regions = <<>>
          /\ r.timing # <<>> => r.timing[1] \in Nat
          /\ opts.force /\ r.ok => r.timing # <<>>
  <1> DEFINE t == texts[i]
             C == [source : Seq(Alphabet), destination : Seq(Alphabet)]
             g == [k \in DOMAIN t |-> [source |-> t[k],
                                       destination |-> IF opts.skip THEN <<>> ELSE t[k]]]
  <1>1. /\ t \in Seq(Seq(Alphabet)) /\ \A k \in DOMAIN t : Strip(t[k]) = t[k]
    <2>1. /\ texts \in Seq(Seq(Seq(Alphabet))) /\ DOMAIN texts = DOMAIN Inputs
          /\ \A j \in DOMAIN texts : \A k \in DOMAIN texts[j] : Strip(texts[j][k]) = texts[j][k]
      BY TextsAreStripped DEF PoolTypes
    <2>2. i \in DOMAIN texts
      BY <2>1, LengthIsNat
    <2>3. texts[i] \in Seq(Seq(Alphabet))
      BY <2>1, <2>2, ElementOfSeq, LenProperties
    <2> QED
      BY <2>1, <2>2, <2>3
  <1>2. Len(t) \in Nat /\ DOMAIN t = 1..Len(t) /\ \A k \in 1..Len(t) : t[k] \in Seq(Alphabet)
    BY <1>1, LenProperties, ElementOfSeq
  <1>3. g \in Seq(C) /\ Len(g) = Len(t) /\ \A k \in 1..Len(t) : g[k].source = t[k]
    <2>1. <<>> \in Seq(Alphabet)
      OBVIOUS
    <2>2. g \in [1..Len(t) -> C]
      BY <1>2, <2>1
    <2>3. \A k \in 1..Len(t) : g[k].source = t[k]
      BY <1>2
    <2> HIDE DEF g, C, t
    <2> QED
      BY <1>2, <2>2, <2>3, FunctionsAreLists
  <1>4. <<>> \in Seq(C)
    OBVIOUS
  <1>5. Costs[i] \in Nat /\ <<Costs[i]>> # <<>> /\ <<Costs[i]>>[1] = Costs[i]
    BY CostsAreGiven, LengthIsNat
  <1>6. CASE r = Record(i, FALSE, <<>>, <<>>)
    <2>1. /\ r.image = Inputs[i] /\ r.ok = FALSE /\ r.regions = <<>> /\ r.timing = <<>>
      BY <1>6 DEF Record
    <2> QED
      BY <1>1, <1>2, <1>4, <2>1
  <1>7. CASE \E timing \in {<<Costs[i]>>} \cup (IF opts.force THEN {} ELSE {<<>>}) :
               r = Record(i, TRUE, g, timing)
    <2>1. PICK timing \in {<<Costs[i]>>} \cup (IF opts.force THEN {} ELSE {<<>>}) :
            r = Record(i, TRUE, g, timing)
      BY <1>7
    <2> HIDE DEF g
    <2>2. /\ r.image = Inputs[i] /\ r.ok = TRUE /\ r.regions = g /\ r.timing = timing
      BY <2>1 DEF Record
    <2>3. /\ timing # <<>> => timing[1] \in Nat
          /\ opts.force => timing # <<>>
      BY <1>5, <2>1
    <2> QED
      BY <1>1, <1>2, <1>3, <2>2, <2>3
  <1> QED
    BY <1>6, <1>7 DEF PageRecords

LEMMA ReportInvTypes == ReportInv => ReportTypeOK
  BY DEF ReportInv, PoolTypes, ReportTypeOK

LEMMA ReportInvRecords == ReportInv => RecordsFollowInputs
  <1> SUFFICES ASSUME ReportInv, step \in {"report", "parse"}
               PROVE /\ Len(runs) = Len(Inputs)
                     /\ \A i \in DOMAIN Inputs :
                          /\ runs[i].image = Inputs[i] /\ runs[i] = answered[i]
                          /\ runs[i].ok => Len(runs[i].regions) = Len(texts[i])
    BY DEF RecordsFollowInputs
  <1>1. /\ DOMAIN Inputs = 1..Len(Inputs) /\ Len(runs) = Len(Inputs)
        /\ \A i \in 1..Len(Inputs) : runs[i] = answered[i] /\ runs[i] \in PageRecords(i)
    BY ReportRecords
  <1>2. PoolTypes
    BY DEF ReportInv
  <1>3. \A i \in 1..Len(Inputs) : \A r \in PageRecords(i) :
          r.image = Inputs[i] /\ (r.ok => Len(r.regions) = Len(texts[i]))
    BY <1>2, PageRecordIs
  <1> QED
    BY <1>1, <1>3

LEMMA ReportInvTallies == ReportInv => TalliesAddUp
  <1> SUFFICES ASSUME ReportInv, step = "report" PROVE TalliesAddUp
    BY DEF TalliesAddUp
  <1>1. /\ Len(Inputs) \in Nat /\ DOMAIN runs = 1..Len(Inputs)
        /\ \A i \in 1..Len(Inputs) : runs[i] \in PageRecords(i)
    BY ReportRecords
  <1>2. PoolTypes
    BY DEF ReportInv
  <1>3. \A i \in 1..Len(Inputs) : \A r \in PageRecords(i) :
          /\ r.ok \in BOOLEAN
          /\ r.timing # <<>> => r.timing[1] \in Nat
          /\ opts.force /\ r.ok => r.timing # <<>>
    BY <1>2, PageRecordIs
  <1>4. Tallied(Len(Inputs), runs)
    BY <1>1, <1>3 DEF Tallied
  <1>5. opts.force => \A i \in 1..Len(Inputs) : runs[i].ok => runs[i].timing # <<>>
    BY <1>1, <1>3
  <1> QED
    BY <1>1, <1>4, <1>5, TalliesOf DEF TalliesAddUp

LEMMA ReportInvBodies == ReportInv => BodiesAreThePages
  <1> SUFFICES ASSUME ReportInv PROVE BodiesAreThePages
    OBVIOUS
  <1>1. ASSUME step = "bench"
        PROVE /\ \A k \in DOMAIN posted : posted[k] <= 1
              /\ AllIn /\ ~Raised => \A k \in DOMAIN posted : posted[k] = 1
    <2>1. /\ posted = [k \in 1..Len(bodies) |-> IF k <= handed THEN 1 ELSE 0]
          /\ Len(bodies) \in Nat /\ jobs <= Len(bodies) /\ (jobs < Len(bodies) => Raised)
      BY <1>1 DEF ReportInv, BenchInv
    <2>2. jobs \in Nat /\ handed \in 0..jobs
      BY DEF ReportInv, PoolTypes
    <2>3. AllIn /\ ~Raised => handed = Len(bodies)
      BY <2>1, <2>2 DEF AllIn
    <2> QED
      BY <2>1, <2>2, <2>3
  <1>2. ASSUME step = "parse",
               \A i \in DOMAIN texts : \A k \in DOMAIN texts[i] : ~SignAmidSpaces(texts[i][k])
        PROVE ParsePages(BuildMarkdown(runs))
                = Full([i \in DOMAIN Inputs |-> IF runs[i].ok THEN Kept(texts[i]) ELSE <<>>])
    <2> DEFINE n == Len(Inputs)
    <2>1. /\ n \in Nat /\ DOMAIN Inputs = 1..n /\ DOMAIN runs = 1..n
          /\ \A i \in 1..n : runs[i] \in PageRecords(i)
      BY <1>2, ReportRecords
    <2>2. PoolTypes
      BY DEF ReportInv
    <2>3. \A i \in 1..n : \A r \in PageRecords(i) :
            /\ r.ok \in BOOLEAN
            /\ texts[i] \in Seq(Seq(Alphabet))
            /\ \A k \in 1..Len(texts[i]) : Strip(texts[i][k]) = texts[i][k]
            /\ r.regions \in Seq([source : Seq(Alphabet), destination : Seq(Alphabet)])
            /\ r.ok => /\ Len(r.regions) = Len(texts[i])
                       /\ \A k \in 1..Len(texts[i]) : r.regions[k].source = texts[i][k]
            /\ ~r.ok => r.regions = <<>>
      BY <2>2, PageRecordIs
    <2> HIDE DEF n
    <2>4. Reported(n, runs, texts)
      BY <2>1, <2>3, Zenon DEF Reported
    <2>5. \A i \in 1..n : \A k \in 1..Len(texts[i]) : ~SignAmidSpaces(texts[i][k])
      <3>1. DOMAIN texts = 1..n
        BY <2>1, <2>2, TextsAreStripped DEF PoolTypes
      <3>2. \A i \in 1..n : DOMAIN texts[i] = 1..Len(texts[i])
        <4>1. \A i \in 1..n : texts[i] \in Seq(Seq(Alphabet))
          BY <2>1, <2>3
        <4> QED
          BY <4>1, LenProperties
      <3> QED
        BY <1>2, <3>1, <3>2
    <2> QED
      BY <2>1, <2>4, <2>5, ReportReadsBack
  <1> QED
    BY <1>1, <1>2 DEF BodiesAreThePages

\* "a name-keyed dict would collide (one result lost, another duplicated)" and
\* "the REAL page texts from a run_report markdown": in whatever order the
\* threads end, the report holds each input's own record at its place, its
\* tallies count every record once and its medians divide the times; the bench
\* reads back, page by page, the texts the recognizer read, whatever separators
\* and backslashes they hold, and sends each page once.
THEOREM PagesAreKept == ReportSpec => []ReportKeepsPages
  <1>1. ReportInv => ReportKeepsPages
    BY ReportInvTypes, ReportInvRecords, ReportInvTallies, ReportInvBodies DEF ReportKeepsPages
  <1> QED
    BY <1>1, ReportInvInit, ReportInvStep, PTL DEF ReportSpec
=============================================================================
