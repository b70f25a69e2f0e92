---------------------------- MODULE ContentScript ----------------------------
(* The browser extension on one tab: the background page that toggles a     *)
(* content script (injecting it on the first activation), the script's      *)
(* enable / disable / processImage coroutines, the mutation observer, and   *)
(* the page that inserts, removes, loads and swaps images meanwhile.  Fetch *)
(* failures are the nondeterministic ends of a request.                     *)
EXTENDS Naturals, Sequences, FiniteSets

CONSTANTS Images,         \* the img / canvas elements of the page
          MaxMessages,    \* bound on toolbar clicks
          MaxPageEvents   \* bound on what the page does to its images

VARIABLES enabled,      \* content.js: the flag
          config,       \* has loadConfig() settled?
          waiting,      \* enable() calls suspended on configReady
          held,         \* is `observer` a connected observer?
          leaked,       \* connected observers no variable refers to
          processed,    \* the WeakSet of finished images
          flight,       \* image -> where its processImage stands
          blurred,      \* images with the scanlation-loading class
          tracked,      \* images with an entry in `tracked`
          spot,         \* image -> where the page holds it, and the wrappers around it
          unwrapped,    \* tracked images the page took out of their wrapper
          hull,         \* where the page holds that wrapper
          strays,       \* image -> times translation went off while it was elsewhere
          records,      \* images in undelivered mutation records
          sized,        \* images whose natural size is at least minImageDim
          missed,       \* images that became eligible behind the script's back
          script,       \* has content.js run in the tab?
          injections,   \* injectContent() calls under way
          inbox,        \* messages to the content script
          reports,      \* "state" messages to the background page
          icon,         \* what the address-bar icon shows
          messages, pageEvents

script_ == <<enabled, config, waiting, held, leaked, processed, flight, blurred,
             tracked, records, missed>>
page == <<spot, unwrapped, hull, strays, sized, pageEvents>>
tab == <<script, injections, inbox, reports, icon, messages>>
contentVars == <<script_, page, tab>>

Stages == {"idle", "direct", "worker", "canvas", "lookup", "pipeline"}

\* in the document, under a node that is not, or under no node at all
Places == {"document", "detached", "alone"}
Spots == [place : Places, wraps : Nat]
NoSpot == [place |-> "alone", wraps |-> 0]

ContentInit ==
  /\ enabled = FALSE /\ config = FALSE /\ waiting = 0
  /\ held = FALSE /\ leaked = 0
  /\ processed = {} /\ flight = [i \in Images |-> "idle"] /\ blurred = {}
  /\ tracked = {} /\ records = {} /\ missed = {}
  /\ \E places \in [Images -> Places] :
       spot = [i \in Images |-> [place |-> places[i], wraps |-> 0]]
  /\ unwrapped = {} /\ hull = [i \in Images |-> NoSpot] /\ strays = [i \in Images |-> 0]
  /\ sized \in SUBSET Images
  /\ script = FALSE /\ injections = 0 /\ inbox = <<>> /\ reports = <<>>
  /\ icon = FALSE /\ messages = 0 /\ pageEvents = 0

attached == {i \in Images : spot[i].place = "document"}

\* parentNode of what stands in a spot
HasParent(s) == s.wraps > 0 \/ s.place # "alone"

\* Where the wrapper of a tracked image stands, the image in it or not.
Outside(i) == IF i \in unwrapped THEN hull[i] ELSE [spot[i] EXCEPT !.wraps = @ - 1]

\* The image has an overlay of this activation.
Overlaid(i) == i \in tracked \ unwrapped

----------------------------------------------------------------------------
\* processImage up to its first await, on every image of a scan
Begins(visited) == {i \in visited : i \notin processed /\ flight[i] = "idle" /\ i \in sized}

Visit(visited) ==
  LET begun == IF enabled THEN Begins(visited) ELSE {} IN
  /\ flight' = [i \in Images |-> IF i \in begun THEN "direct" ELSE flight[i]]
  /\ blurred' = blurred \cup begun
  /\ missed' = missed \ begun

Watched == held \/ leaked > 0

\* imageToBase64 and runPipeline: page fetch, background fetch, canvas; then
\* the cache probe and, unless it hit, the request with the image
NextStages(stage) ==
  CASE stage = "direct" -> {"lookup", "worker"}
    [] stage = "worker" -> {"lookup", "canvas"}
    [] stage = "canvas" -> {"lookup"}
    [] stage = "lookup" -> {"pipeline"}
    [] OTHER -> {}

RequestAdvances(i) ==
  /\ \E next \in NextStages(flight[i]) : flight' = [flight EXCEPT ![i] = next]
  /\ UNCHANGED <<enabled, config, waiting, held, leaked, processed, blurred,
                 tracked, records, missed, page, tab>>

\* Defect: an image whose overlay is drawn is not marked.
MarksNothing(i) == processed

\* applyResult / showError and `processed.add`: without a natural size nothing
\* is drawn but the image counts as done; without a parent wrap() throws
Marks(i) == IF i \in sized /\ ~HasParent(spot[i]) THEN processed ELSE processed \cup {i}

Overlays(i) ==
  /\ processed' = Marks(i)
  /\ IF i \in sized /\ HasParent(spot[i])
       THEN /\ spot' = [spot EXCEPT ![i].wraps = @ + 1]
            /\ tracked' = tracked \cup {i}
            /\ records' = IF Watched /\ i \in attached THEN records \cup {i} ELSE records
       ELSE UNCHANGED <<spot, tracked, records>>

\* Defect: a late answer is drawn all the same.
DropsNone == FALSE

\* the answer or the failure arrives: dropped when the script is off by now
DropsLate == ~enabled

\* Defect: no finally block.
KeepsBlur(i) == blurred

\* the finally block of processImage
Unblurs(i) == blurred \ {i}

\* an answer comes from the probe or the pipeline, a failure (the last way to
\* the bytes, an unreachable server, an error status) from the steps after
RequestEnds(i) ==
  /\ flight[i] \in {"canvas", "lookup", "pipeline"}
  /\ flight' = [flight EXCEPT ![i] = "idle"]
  /\ blurred' = Unblurs(i)
  /\ IF DropsLate THEN UNCHANGED <<processed, spot, tracked, records>> ELSE Overlays(i)
  /\ UNCHANGED <<enabled, config, waiting, held, leaked, missed, unwrapped, hull, strays,
                 sized, pageEvents, tab>>

----------------------------------------------------------------------------
\* enable() and disable()
Enables ==
  /\ enabled' = TRUE
  /\ waiting' = IF enabled THEN waiting ELSE waiting + 1
  /\ UNCHANGED <<config, held, leaked, processed, flight, blurred, tracked,
                 records, missed, spot, unwrapped, hull, strays, reports>>

\* Defect: only an activation is reported.
ReportsActivation(value) == IF value THEN Append(reports, value) ELSE reports

\* reportState
ReportsState(value) == Append(reports, value)

EnableResumes ==
  /\ waiting > 0 /\ config
  /\ waiting' = waiting - 1
  /\ IF enabled
       THEN /\ Visit(attached)
            /\ held' = TRUE
            /\ leaked' = IF held THEN leaked + 1 ELSE leaked
            /\ reports' = ReportsState(TRUE)
       ELSE UNCHANGED <<flight, blurred, missed, held, leaked, reports>>
  /\ UNCHANGED <<enabled, config, processed, tracked, records, page,
                 script, injections, inbox, icon, messages>>

\* Defect: what was translated stays marked.
ForgetsNone == processed

\* the images the next activation need not visit
Forgets == processed \ tracked

\* Every tracked image goes back where its wrapper stands, unless nothing holds
\* the wrapper; querySelectorAll finds the blur of images in the document.
ClearAll ==
  LET restored == {i \in tracked : HasParent(Outside(i))} IN
  /\ spot' = [i \in Images |-> IF i \in restored THEN Outside(i) ELSE spot[i]]
  /\ unwrapped' = {} /\ hull' = [i \in Images |-> NoSpot]
  /\ processed' = Forgets
  /\ tracked' = {}
  /\ blurred' = blurred \ attached
  /\ records' = IF leaked > 0
                  THEN records \cup {i \in restored : Outside(i).place = "document"} ELSE {}

Disables ==
  /\ enabled' = FALSE
  /\ IF enabled
       THEN /\ held' = FALSE /\ ClearAll /\ reports' = ReportsState(FALSE)
            /\ strays' = [i \in Images |-> IF i \in attached THEN strays[i] ELSE strays[i] + 1]
       ELSE UNCHANGED <<held, spot, unwrapped, hull, strays, processed, tracked, blurred,
                        records, reports>>
  /\ UNCHANGED <<config, waiting, leaked, flight, missed>>

\* the onMessage listener takes the next message
ScriptReceives ==
  /\ inbox # <<>>
  /\ inbox' = Tail(inbox)
  /\ IF Head(inbox) = "enable" \/ (Head(inbox) = "toggle" /\ ~enabled)
       THEN Enables ELSE Disables
  /\ UNCHANGED <<sized, pageEvents, script, injections, icon, messages>>

ConfigLoads ==
  /\ script /\ ~config
  /\ config' = TRUE
  /\ UNCHANGED <<enabled, waiting, held, leaked, processed, flight, blurred, tracked,
                 records, missed, page, tab>>

\* the observer's callback is a microtask: it runs before the next event
RecordsDelivered ==
  /\ records # {}
  /\ records' = {}
  /\ Visit(records)
  /\ UNCHANGED <<enabled, config, waiting, held, leaked, processed, tracked, page, tab>>

----------------------------------------------------------------------------
\* the page
PageEvent ==
  /\ pageEvents < MaxPageEvents
  /\ pageEvents' = pageEvents + 1
  /\ UNCHANGED <<enabled, config, waiting, held, leaked, processed, flight, blurred,
                 tracked, strays, tab>>

\* The image, with what is around it.
PageInserts(i) ==
  /\ i \notin attached
  /\ spot' = [spot EXCEPT ![i].place = "document"]
  /\ records' = IF Watched THEN records \cup {i} ELSE records
  /\ PageEvent /\ UNCHANGED <<sized, unwrapped, hull, missed>>

\* The image leaves the document with its wrapper or with a node above.
PageRemoves(i) ==
  /\ i \in attached
  /\ \E place \in Places \ {"document"} : spot' = [spot EXCEPT ![i].place = place]
  /\ PageEvent /\ UNCHANGED <<sized, unwrapped, hull, records, missed>>

\* The image is taken out of its wrapper, which stays or goes.
PageUnwraps(i) ==
  /\ spot[i].wraps > 0
  /\ spot' = [spot EXCEPT ![i] = NoSpot]
  /\ IF Overlaid(i)
       THEN /\ unwrapped' = unwrapped \cup {i} /\ missed' = missed \cup {i}
            /\ \E place \in {spot[i].place, "alone"} :
                 hull' = [hull EXCEPT ![i] = [Outside(i) EXCEPT !.place = place]]
       ELSE UNCHANGED <<unwrapped, hull, missed>>
  /\ PageEvent /\ UNCHANGED <<sized, records>>

ImageLoads(i) ==
  /\ i \notin sized
  /\ sized' = sized \cup {i}
  /\ missed' = IF Overlaid(i) THEN missed ELSE missed \cup {i}
  /\ PageEvent /\ UNCHANGED <<spot, unwrapped, hull, records>>

ImageSwaps(i) ==
  /\ i \in sized
  /\ sized' = sized \ {i}
  /\ PageEvent /\ UNCHANGED <<spot, unwrapped, hull, records, missed>>

----------------------------------------------------------------------------
\* the background page: messageOrInject, from the address bar or the popup
ToolbarClicks(msg) ==
  /\ messages < MaxMessages
  /\ messages' = messages + 1
  /\ IF script THEN inbox' = Append(inbox, msg) /\ UNCHANGED injections
     ELSE /\ injections' = IF msg = "disable" THEN injections ELSE injections + 1
          /\ UNCHANGED inbox
  /\ UNCHANGED <<script_, page, script, reports, icon>>

\* executeScript is done (a second copy returns at once), then "enable" is sent
InjectionEnds ==
  /\ injections > 0
  /\ injections' = injections - 1
  /\ script' = TRUE
  /\ inbox' = Append(inbox, "enable")
  /\ UNCHANGED <<script_, page, reports, icon, messages>>

IconSet ==
  /\ reports # <<>>
  /\ icon' = Head(reports)
  /\ reports' = Tail(reports)
  /\ UNCHANGED <<script_, page, script, injections, inbox, messages>>

ContentNext ==
  \/ RecordsDelivered
  \/ /\ records = {}
     /\ \/ EnableResumes \/ ScriptReceives \/ ConfigLoads \/ InjectionEnds \/ IconSet
        \/ \E msg \in {"toggle", "enable", "disable"} : ToolbarClicks(msg)
        \/ \E i \in Images :
             \/ RequestAdvances(i) \/ RequestEnds(i)
             \/ PageInserts(i) \/ PageRemoves(i) \/ PageUnwraps(i)
             \/ ImageLoads(i) \/ ImageSwaps(i)

\* the page is finite and the browser answers: promises settle, messages and
\* microtasks are delivered, and a fetch ends with an answer or an error
ContentFairness ==
  /\ WF_contentVars(RecordsDelivered) /\ WF_contentVars(EnableResumes)
  /\ WF_contentVars(ScriptReceives) /\ WF_contentVars(ConfigLoads)
  /\ WF_contentVars(IconSet)
  /\ \A i \in Images : WF_contentVars(RequestAdvances(i)) /\ WF_contentVars(RequestEnds(i))

ContentSpec == ContentInit /\ [][ContentNext]_contentVars /\ ContentFairness

----------------------------------------------------------------------------
\* The variables have their types, what is tracked is finished, and only a
\* request in flight blurs an image.
ContentTypeOK ==
  /\ enabled \in BOOLEAN /\ config \in BOOLEAN /\ held \in BOOLEAN
  /\ script \in BOOLEAN /\ icon \in BOOLEAN
  /\ {waiting, leaked, injections, messages, pageEvents} \subseteq Nat
  /\ {processed, blurred, records, sized, missed} \subseteq SUBSET Images
  /\ flight \in [Images -> Stages] /\ strays \in [Images -> Nat]
  /\ {spot, hull} \subseteq [Images -> Spots]
  /\ inbox \in Seq({"toggle", "enable", "disable"}) /\ reports \in Seq(BOOLEAN)
  /\ unwrapped \subseteq tracked /\ tracked \subseteq processed
  /\ \A i \in blurred : flight[i] # "idle"

\* However answers, failures, rescans, the observer's echo of the script's own
\* wrapping and the page's moves of an image or of its wrapper interleave, an
\* image is in one wrapper at most, and while translation is off in none and
\* not blurred, although requests of the last activation still run.  What
\* clearAll does not reach is an image the page holds outside the document:
\* each time translation is switched off meanwhile may leave one wrapper more
\* around it, and its blur until its request ends.
OverlaysFit ==
  /\ ContentTypeOK
  /\ \A i \in Images :
       /\ spot[i].wraps =< strays[i] + 1
       /\ ~enabled => spot[i].wraps =< strays[i]
       /\ ~enabled /\ i \in blurred => strays[i] > 0
  /\ ~enabled => tracked = {}

\* A running script has overlaid, or is working on, every image it can see,
\* except one that gained its size or lost its wrapper behind its back.
NothingSkipped ==
  enabled /\ held /\ waiting = 0 /\ records = {} =>
    \A i \in (attached \cap sized) \ missed : Overlaid(i) \/ flight[i] # "idle"

\* When no message is on its way the address-bar icon shows the script's state.
IconFollows == inbox = <<>> /\ reports = <<>> /\ waiting = 0 => icon = enabled
==============================================================================
