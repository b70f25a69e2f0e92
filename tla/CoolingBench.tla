---------------------------- MODULE CoolingBench -----------------------------
(***************************************************************************)
(* tools/bench_cooling_ab.py: a run that takes the fan channel (and, for a *)
(* steady run, the power cap) away from the machine, heats the card with a *)
(* loader, and hands everything back.  The guard thread is that of         *)
(* tools/bench_translate_sustained.py, which sends chapter after chapter   *)
(* through a thread pool and touches neither fan nor cap.  The main thread *)
(* unwinds through `with fan`, `with cap` and `finally`, or through the    *)
(* pool's, when a signal, a failed sysfs write or a failed request raises. *)
(*                                                                         *)
(* A temperature is a level: settled, between, and one level per gate and  *)
(* cut.  Slopes, fits and the printed table are left out.  A channel that  *)
(* fancontrol does not drive is taken to be under a manual duty, the case  *)
(* in which whatever was written last stays: the holder's duty, for it is  *)
(* never told to stop and may write once more after the values are back.   *)
(***************************************************************************)
EXTENDS Naturals

CONSTANTS
    Threads,     \* the loader's threads
    GateLo, GateHi, Cut, CutHard, Ceiling,   \* levels
    Runs,        \* [tool -> reps over all duties, steady duties, or chapters]
    Bodies,      \* pages of a chapter
    MaxRaises    \* bound: signals and failed writes

\* The argument checks of main.
Accepted == Cut < Ceiling /\ CutHard < Ceiling /\ GateHi < Cut

ASSUME LevelsAreNat == {GateLo, GateHi, Cut, CutHard, Ceiling} \subseteq Nat
ASSUME LevelsAccepted == Accepted /\ 0 < GateLo /\ GateLo < GateHi /\ Cut <= CutHard
Tools == {"sweep", "steady", "chapters"}

ASSUME CoolingBoundsAreNat == Runs \in [Tools -> Nat] /\ {Bodies, MaxRaises} \subseteq Nat

VARIABLES
    pc,          \* the main thread
    raising,     \* the exception under way: "no", "interrupt" or "exit"
    raises,      \* exceptions so far
    torn,        \* whether one came as something marked done was being written
    adrift,      \* whether one left the loader running
    tool,        \* "sweep", "steady" (--steady), or "chapters", the other script
    left,        \* reps, duties or chapters to go
    pages,       \* pages of the chapter no thread of the pool has taken
    failed,      \* whether a page of the chapter raised
    fancontrol,  \* whether the fancontrol unit runs
    channel,     \* pwm4: "before", "pinned" or "curve"
    wasActive,   \* FixedFan.was_active
    fanDone,     \* FixedFan.restored
    holder,      \* whether the thread that rewrites the duty runs
    cap,         \* the power cap: "before" or "lowered"
    capKnown,    \* PowerCap.prev was read
    capDone,     \* PowerCap.restored
    stopLoad,    \* Loader.stop
    worker,      \* where each loader thread is
    late,        \* requests each thread submitted after the trip
    guard,       \* the guard thread: "on", "off", or "died"
    stopGuard,   \* Guard.stop_flag
    tripped,     \* Guard.tripped
    hot,         \* consecutive samples at or above the cut
    temp         \* the junction

mainVars == <<pc, raising, raises, torn, adrift, tool, left>>
fanVars == <<fancontrol, channel, wasActive, fanDone, holder>>
capVars == <<cap, capKnown, capDone>>
loadVars == <<stopLoad, worker, late, pages, failed>>
guardVars == <<guard, stopGuard, tripped, hot>>
coolVars == <<mainVars, fanVars, capVars, loadVars, guardVars, temp>>

Idle == \A w \in Threads : worker[w] = "off"

CoolInit ==
    /\ tool \in Tools /\ left = Runs[tool]
    /\ pc = IF tool = "chapters" THEN "check" ELSE "fan_enter"
    /\ raising = "no" /\ raises = 0 /\ torn = FALSE /\ adrift = FALSE
    /\ fancontrol \in BOOLEAN /\ (tool = "chapters" => ~fancontrol)
    /\ channel = IF fancontrol THEN "curve" ELSE "before"
    /\ wasActive = FALSE /\ fanDone = FALSE /\ holder = FALSE
    /\ cap = "before" /\ capKnown = FALSE /\ capDone = FALSE
    /\ stopLoad = FALSE /\ worker = [w \in Threads |-> "off"]
    /\ late = [w \in Threads |-> 0] /\ pages = 0 /\ failed = FALSE
    /\ guard = (IF tool = "chapters" THEN "off" ELSE "on") /\ stopGuard = FALSE /\ tripped = FALSE /\ hot = 0
    /\ temp = 0
-----------------------------------------------------------------------------
(* The main thread, up to the end of the measurements.                     *)

Main(from, to) ==
    /\ pc = from /\ pc' = to
    /\ UNCHANGED <<raising, raises, torn, adrift, tool, temp>>

\* FixedFan.__enter__: note what is there, ...
FanNotes ==
    /\ Main("fan_enter", "fan_stop") /\ wasActive' = fancontrol
    /\ UNCHANGED <<left, fancontrol, channel, fanDone, holder, capVars, loadVars, guardVars>>

\* stop the unit if it runs, ...
FanStops ==
    /\ Main("fan_stop", "fan_pin") /\ fancontrol' = FALSE
    /\ UNCHANGED <<left, channel, wasActive, fanDone, holder, capVars, loadVars, guardVars>>

\* write the duty and start the thread that keeps writing it.
FanPins ==
    /\ Main("fan_pin", IF tool = "steady" THEN "cap_enter" ELSE "next")
    /\ channel' = "pinned" /\ holder' = TRUE
    /\ UNCHANGED <<left, fancontrol, wasActive, fanDone, capVars, loadVars, guardVars>>

\* PowerCap.__enter__ on a wattage in the card's range.
CapLowers ==
    /\ Main("cap_enter", "next")
    /\ capKnown' = TRUE /\ cap' = "lowered"
    /\ UNCHANGED <<left, fanVars, capDone, loadVars, guardVars>>

BodyEnd == [steady |-> "cap_exit", sweep |-> "fan_exit", chapters |-> "join"][tool]

\* The duty is written, and taken whether or not the tachometer settles on it.
SetsDuty == channel' = "pinned"

\* set_duty, then a rep or a steady hold; a latched trip ends the loop.
NextRun ==
    /\ Main("next", IF left = 0 \/ tripped THEN BodyEnd
                    ELSE IF tool = "steady" THEN "load" ELSE "settle")
    /\ left' = IF left = 0 \/ tripped THEN left ELSE left - 1
    /\ SetsDuty
    /\ UNCHANGED <<fancontrol, wasActive, fanDone, holder, capVars, loadVars, guardVars>>

\* What a sample of the junction may read: an idle block reads low.
Readings == {temp, IF temp > 0 THEN temp - 1 ELSE 0}

\* What the samples show; those of a guard that died stay the last for good.
Shows(reached) == reached \/ guard = "died"

\* _wait_below: cold on two samples, or the trip or the deadline.
WaitsBelow ==
    \E to \in {"flat", "next"} :
      /\ to = "flat" => Shows(0 \in Readings) /\ ~tripped
      /\ Main("settle", to)

\* _settle: cold and then flat, or the rep is skipped.
Settles ==
    /\ \/ WaitsBelow
       \/ \E to \in {"load", "next"} : (to = "load" => Shows(0 \in Readings)) /\ Main("flat", to)
    /\ UNCHANGED <<left, fanVars, capVars, loadVars, guardVars>>

\* A new Loader; its threads start.
LoadStarts ==
    /\ Main("load", IF tool = "steady" THEN "hold" ELSE "heat_lo")
    /\ stopLoad' = FALSE /\ worker' = [w \in Threads |-> "check"]
    /\ UNCHANGED <<left, fanVars, capVars, late, pages, failed, guardVars>>

\* Defect: no deadline.
WaitsAboveForEver(from, to, gate) ==
    /\ Shows(temp >= gate) \/ tripped
    /\ Main(from, IF tripped THEN "drain" ELSE to)

\* Defect: a rep that misses its gate returns without draining.
WaitsAboveUndrained(from, to, gate) ==
    \E next \in {to, "next"} :
        /\ next = to => Shows(temp >= gate) /\ ~tripped
        /\ Main(from, next)

\* _wait_above: the gate, the trip or the deadline.
WaitsAbove(from, to, gate) ==
    \E next \in {to, "drain"} :
        /\ next = to => Shows(temp >= gate) /\ ~tripped
        /\ Main(from, next)

Heats ==
    /\ WaitsAbove("heat_lo", "heat_hi", GateLo) \/ WaitsAbove("heat_hi", "drain_hi", GateHi)
    /\ UNCHANGED <<left, fanVars, capVars, loadVars, guardVars>>

\* run_steady's loop: flat for long enough, the trip or the deadline.
Holds ==
    /\ Main("hold", "drain")
    /\ UNCHANGED <<left, fanVars, capVars, loadVars, guardVars>>

\* Loader.drain: stop submitting, and join the threads; no request lasts as
\* long as its deadline.
Drained == stopLoad /\ Idle

DrainStops ==
    /\ pc \in {"drain", "drain_hi"} /\ ~stopLoad
    /\ stopLoad' = TRUE
    /\ UNCHANGED <<mainVars, fanVars, capVars, worker, late, pages, failed, guardVars, temp>>

DrainEnds ==
    /\ Drained
    /\ \/ Main("drain", IF raising = "no" /\ ~failed THEN "next" ELSE BodyEnd)
       \/ Main("drain_hi", "cool")
    /\ UNCHANGED <<left, fanVars, capVars, loadVars, guardVars>>

\* The cooldown of a rep that reached both gates: watched until the end of its
\* window or a trip, and a row either way.
Cools ==
    /\ Main("cool", "next")
    /\ UNCHANGED <<left, fanVars, capVars, loadVars, guardVars>>
-----------------------------------------------------------------------------
(* Chapters.                                                               *)

\* A card that is too hot, or not readable, is not started on; otherwise the
\* guard starts.
ChecksStart ==
    /\ \/ Main("check", "ended") /\ UNCHANGED guard
       \/ temp = 0 /\ Main("check", "chapter") /\ guard' = "on"
    /\ UNCHANGED <<left, fanVars, capVars, loadVars, stopGuard, tripped, hot>>

\* A pool is opened for the pages of the next chapter.
NextChapter ==
    /\ IF left = 0 \/ tripped
         THEN Main("chapter", "join") /\ UNCHANGED <<left, loadVars>>
         ELSE /\ Main("chapter", "map") /\ left' = left - 1 /\ pages' = Bodies
              /\ stopLoad' = FALSE /\ worker' = [w \in Threads |-> "check"]
              /\ UNCHANGED <<late, failed>>
    /\ UNCHANGED <<fanVars, capVars, guardVars>>

\* Defect: the pool is not waited for.
ChapterEndsUnjoined ==
    /\ \/ pages = 0 /\ Idle /\ ~failed /\ Main("map", "chapter")
       \/ failed /\ Main("map", "join")
    /\ UNCHANGED <<left, fanVars, capVars, loadVars, guardVars>>

\* All results are in; the first that raised ends the script.
ChapterEnds ==
    /\ \/ pages = 0 /\ Idle /\ ~failed /\ Main("map", "chapter")
       \/ failed /\ Main("map", "drain")
    /\ UNCHANGED <<left, fanVars, capVars, loadVars, guardVars>>
-----------------------------------------------------------------------------
(* Handing back.                                                           *)

\* restore marks itself done before it acts, and is done once.
CapMarks(from, write, to) ==
    LET due == capKnown /\ ~capDone IN
    /\ Main(from, IF due THEN write ELSE to)
    /\ capDone' = (capDone \/ due)
    /\ UNCHANGED <<left, fanVars, cap, capKnown, loadVars, guardVars>>

CapWrites(from, to) ==
    /\ Main(from, to) /\ cap' = "before"
    /\ UNCHANGED <<left, fanVars, capKnown, capDone, loadVars, guardVars>>

FanMarks(from, write, to) ==
    /\ Main(from, IF fanDone THEN to ELSE write) /\ fanDone' = TRUE
    /\ UNCHANGED <<left, fancontrol, channel, wasActive, holder, capVars,
                   loadVars, guardVars>>

\* The unit is started again, or the values that were read are written: none
\* if the unit was not asked about yet, and goes on.
FanWrites(from, to) ==
    /\ Main(from, to)
    /\ fancontrol' = (fancontrol \/ wasActive)
    /\ channel' = IF fancontrol' THEN channel ELSE "before"
    /\ UNCHANGED <<left, wasActive, fanDone, holder, capVars, loadVars, guardVars>>

\* Defect: `finally` trusts the with statements.
FinallyMarksNothing ==
    /\ Main("finally_cap", IF raising = "exit" THEN "ended" ELSE "report")
    /\ UNCHANGED <<left, fanVars, capVars, loadVars, guardVars>>

FinallyMarks ==
    \/ CapMarks("finally_cap", "finally_cap2", "finally_fan")
    \/ FanMarks("finally_fan", "finally_fan2", IF raising = "exit" THEN "ended" ELSE "report")

\* __exit__ of the cap, of the fan, then the finally clause.
HandsBack ==
    \/ CapMarks("cap_exit", "cap_exit2", "fan_exit")
    \/ CapWrites("cap_exit2", "fan_exit")
    \/ FanMarks("fan_exit", "fan_exit2", "join")
    \/ FanWrites("fan_exit2", "join")
    \/ FinallyMarks
    \/ CapWrites("finally_cap2", "finally_fan")
    \/ FanWrites("finally_fan2", IF raising = "exit" THEN "ended" ELSE "report")

\* stop_flag, and a join that waits for the last sample.
GuardJoined ==
    /\ Main("join", IF tool # "chapters" THEN "finally_cap"
                     ELSE IF failed /\ raising = "no" THEN "ended" ELSE "report")
    /\ stopGuard' = TRUE /\ guard' = "off"
    /\ UNCHANGED <<left, fanVars, capVars, loadVars, tripped, hot>>

\* The result file and the verdict; the process ends and its threads with it.
Reports ==
    /\ Main("report", "ended")
    /\ UNCHANGED <<left, fanVars, capVars, loadVars, guardVars>>

\* Where an exception raised at each point goes on.
Unwinds(at) ==
    CASE at \in {"fan_enter", "fan_stop", "fan_pin", "fan_exit", "fan_exit2"} -> "join"
      [] at \in {"cap_enter", "cap_exit", "cap_exit2"} -> "fan_exit"
      [] at \in {"hold", "map"} -> "drain"
      [] at \in {"next", "settle", "flat", "load", "heat_lo", "heat_hi", "drain",
                 "drain_hi", "cool", "chapter"} -> BodyEnd
      [] OTHER -> "ended"

\* A restore that is marked and not written yet, and the finally clause, are
\* left as they are;
Restoring == {"cap_exit2", "fan_exit2", "join", "finally_cap", "finally_cap2",
              "finally_fan", "finally_fan2"}

\* and so are the threads of a rep, whose drain is in no finally clause, and
\* those of any loader or pool that is being drained.
Loading == {"heat_lo", "heat_hi", "drain", "drain_hi"}

\* SIGINT, SIGTERM, SIGHUP, or a sysfs write or a systemctl stop that fails;
\* the chapters handle SIGINT only.
Raise(kind) ==
    /\ pc # "ended" /\ raises < MaxRaises
    /\ raises' = raises + 1 /\ raising' = kind
    /\ torn' = (torn \/ pc \in Restoring)
    /\ adrift' = (adrift \/ pc \in Loading)
    /\ pc' = IF tool = "chapters" /\ kind = "exit" THEN "ended" ELSE Unwinds(pc)
    /\ UNCHANGED <<tool, left, fanVars, capVars, loadVars, guardVars, temp>>
-----------------------------------------------------------------------------
(* The other threads, and the machine; they end with the process.          *)

Alive == pc # "ended" /\ UNCHANGED mainVars

HolderWrites ==
    /\ Alive /\ holder /\ channel' = "pinned"
    /\ UNCHANGED <<fancontrol, wasActive, fanDone, holder, capVars, loadVars, guardVars, temp>>

FancontrolWrites ==
    /\ fancontrol /\ channel' = "curve"
    /\ UNCHANGED <<mainVars, fancontrol, wasActive, fanDone, holder, capVars,
                   loadVars, guardVars, temp>>

\* Defect: the loader looks at its own flag only.
GoesOnUnguarded == ~stopLoad

\* Loader._worker between two requests, and `post` on a page of a chapter.
GoesOn == ~stopLoad /\ ~tripped

WorkerChecks(w) ==
    /\ Alive /\ tool # "chapters" /\ worker[w] = "check"
    /\ worker' = [worker EXCEPT ![w] = IF GoesOn THEN "submit" ELSE "off"]
    /\ UNCHANGED <<fanVars, capVars, stopLoad, late, pages, failed, guardVars, temp>>

\* A thread of the pool takes a page; one that was taken back, or comes after
\* the trip, is not sent.
WorkerTakes(w) ==
    /\ Alive /\ tool = "chapters" /\ worker[w] = "check"
    /\ IF pages = 0 \/ stopLoad
         THEN worker' = [worker EXCEPT ![w] = "off"] /\ UNCHANGED pages
         ELSE /\ pages' = pages - 1
              /\ worker' = [worker EXCEPT ![w] = IF GoesOn THEN "submit" ELSE "check"]
    /\ UNCHANGED <<fanVars, capVars, stopLoad, late, failed, guardVars, temp>>

WorkerSubmits(w) ==
    /\ Alive /\ worker[w] = "submit"
    /\ worker' = [worker EXCEPT ![w] = "flight"]
    /\ late' = [late EXCEPT ![w] = IF tripped /\ @ < 2 THEN @ + 1 ELSE @]
    /\ UNCHANGED <<fanVars, capVars, stopLoad, pages, failed, guardVars, temp>>

\* The answer, an error or the timeout: all the same to the loader, while a
\* chapter's page raises.
RequestEnds(w) ==
    /\ Alive /\ worker[w] = "flight"
    /\ worker' = [worker EXCEPT ![w] = "check"]
    /\ failed' \in {failed} \cup {tool = "chapters"}
    /\ UNCHANGED <<fanVars, capVars, stopLoad, late, pages, guardVars, temp>>

\* The card: a request heats it by a level at most.
JunctionMoves ==
    /\ Alive
    /\ IF \E w \in Threads : worker[w] = "flight"
         THEN temp < Ceiling /\ temp' = temp + 1
         ELSE temp > 0 /\ temp' = temp - 1
    /\ UNCHANGED <<fanVars, capVars, loadVars, guardVars>>

\* _projected: armed above the gates only.
MayTrend(reading) == reading >= GateHi

\* Guard.run, one sample; `other` stands for the projection and the memory.
GuardSamples ==
    /\ Alive /\ guard = "on" /\ ~stopGuard
    /\ \E reading \in Readings, other \in BOOLEAN :
         /\ hot' = IF tripped THEN hot ELSE IF reading >= Cut THEN hot + 1 ELSE 0
         /\ other => MayTrend(reading)
         /\ tripped' = (tripped \/ reading >= CutHard \/ hot' >= 2 \/ other)
    /\ UNCHANGED <<fanVars, capVars, loadVars, guard, stopGuard, temp>>

\* "A sensor that stops reading is not a reason to keep pushing."
GuardReadsNothing ==
    /\ Alive /\ guard = "on" /\ ~stopGuard /\ tripped' = TRUE
    /\ UNCHANGED <<fanVars, capVars, loadVars, guard, stopGuard, hot, temp>>

\* The log cannot be opened or written: the thread ends, and nobody asks.
GuardDies ==
    /\ Alive /\ guard = "on" /\ guard' = "died"
    /\ UNCHANGED <<fanVars, capVars, loadVars, stopGuard, tripped, hot, temp>>

MainContinues ==
    \/ FanNotes \/ FanStops \/ FanPins \/ CapLowers \/ NextRun \/ Settles \/ LoadStarts
    \/ Heats \/ Holds \/ DrainStops \/ DrainEnds \/ Cools \/ HandsBack \/ GuardJoined
    \/ Reports \/ ChecksStart \/ NextChapter \/ ChapterEnds
WorkerContinues(w) == WorkerChecks(w) \/ WorkerTakes(w) \/ WorkerSubmits(w) \/ RequestEnds(w)

CoolNext ==
    \/ MainContinues
    \/ \E kind \in {"interrupt", "exit"} : Raise(kind)
    \/ HolderWrites \/ FancontrolWrites \/ JunctionMoves
    \/ GuardSamples \/ GuardReadsNothing \/ GuardDies
    \/ \E w \in Threads : WorkerContinues(w)

\* Threads are scheduled, requests time out and fancontrol has its interval.
CoolFairness ==
    /\ WF_coolVars(MainContinues) /\ WF_coolVars(FancontrolWrites)
    /\ \A w \in Threads : WF_coolVars(WorkerContinues(w))

CoolSpec == CoolInit /\ [][CoolNext]_coolVars /\ CoolFairness
-----------------------------------------------------------------------------
\* The types of the threads, the channel and the guard.
CoolTypeOK ==
    /\ raising \in {"no", "interrupt", "exit"} /\ {torn, adrift, failed, fancontrol} \subseteq BOOLEAN
    /\ left \in 0..Runs[tool] /\ pages \in 0..Bodies /\ raises \in 0..MaxRaises
    /\ channel \in {"before", "pinned", "curve"} /\ cap \in {"before", "lowered"}
    /\ worker \in [Threads -> {"off", "check", "submit", "flight"}]
    /\ temp \in 0..Ceiling /\ hot \in Nat

\* "Control is handed back unconditionally on exit, including on SIGINT /
\* SIGTERM": a run that took the channel from fancontrol ends with fancontrol
\* running and the cap as it was, a signal or a failure anywhere up to the
\* hand-over's mark included (after it the code keeps no such promise).
HandedBack ==
    pc = "ended" /\ ~torn => cap = "before" /\ (wasActive => fancontrol)

\* "Control is handed back unconditionally on exit": a run that nothing disturbs
\* leaves a channel that fancontrol did not drive at the duty it had.
ChannelHandedBack == pc = "ended" /\ raises = 0 /\ ~wasActive => channel # "pinned"

\* The main thread never has the guard stopped while the card is loaded, unless
\* an exception left the loader running; and once the guard cuts the load, "No
\* new requests; draining in-flight.": a thread that was past its check submits
\* once, and no more.
LoadIsGuarded ==
    /\ CoolTypeOK
    /\ ~Idle /\ ~adrift => guard # "off" /\ ~stopGuard
    /\ \A w \in Threads : late[w] <= 1

\* Every wait has a deadline, a dead guard's too: the run ends, and a channel it
\* took from fancontrol follows fancontrol's curve from then on.
RunEnds == <>[](pc = "ended" /\ (wasActive /\ ~torn => channel = "curve"))
=============================================================================
