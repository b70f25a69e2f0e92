------------------------- MODULE PageRequestProofs -------------------------
(***************************************************************************)
(* The two ends of a page's request: the extension that sends one for each *)
(* image, and the server's /run_pipeline/ that answers it.                 *)
(*                                                                         *)
(* OverlaysFit for any images, clicks and page: a request runs only on an  *)
(* image that is not finished, so that the overlay it draws is the first,  *)
(* and disabling takes down what was drawn.  NothingSkipped: what a scan   *)
(* passes over is overlaid, in flight, in a record to come or behind the   *)
(* script's back.  IconFollows: the last report is the script's state,     *)
(* unless an activation is about to report.                                *)
(*                                                                         *)
(* What a /run_pipeline/ request may be answered with, for any number of   *)
(* requests, pages and plans.  The semaphores and the statistics play no   *)
(* part in it: a step is seen as one of six shapes on the other variables. *)
(***************************************************************************)
EXTENDS ContentScript, PageRuns, SequenceTheorems, TLAPS
-----------------------------------------------------------------------------
(* The content script.                                                     *)

ImageTypes ==
  /\ enabled \in BOOLEAN /\ held \in BOOLEAN /\ leaked \in Nat
  /\ processed \subseteq Images /\ blurred \subseteq Images /\ tracked \subseteq Images
  /\ records \subseteq Images /\ sized \subseteq Images /\ missed \subseteq Images
  /\ flight \in [Images -> Stages] /\ spot \in [Images -> Spots] /\ hull \in [Images -> Spots]
  /\ strays \in [Images -> Nat]

TabTypes ==
  /\ config \in BOOLEAN /\ script \in BOOLEAN /\ icon \in BOOLEAN
  /\ waiting \in Nat /\ injections \in Nat /\ messages \in Nat /\ pageEvents \in Nat
  /\ inbox \in Seq({"toggle", "enable", "disable"}) /\ reports \in Seq(BOOLEAN)

\* What is tracked is finished, and what is in flight is not; the overlay of
\* this activation is inside the wrappers left by switching off, one for each
\* time the image was elsewhere, wherever the page has put them since.
ImageFits(i) ==
  /\ flight[i] # "idle" => i \notin processed
  /\ i \in blurred => flight[i] # "idle" /\ (enabled \/ strays[i] > 0)
  /\ Overlaid(i) => spot[i].wraps > 0 /\ spot[i].wraps =< strays[i] + 1
  /\ ~Overlaid(i) => spot[i].wraps =< strays[i]
  /\ hull[i].wraps =< strays[i]

ImagesFit ==
  /\ tracked \subseteq processed /\ unwrapped \subseteq tracked
  /\ \A i \in Images : ImageFits(i)
  /\ ~enabled => tracked = {}

ContentInv == ImageTypes /\ TabTypes /\ ImagesFit
-----------------------------------------------------------------------------
\* A scan begins requests on images that are not finished.
LEMMA VisitFits ==
  ASSUME ImageTypes, ImagesFit, NEW visited \in SUBSET Images, Visit(visited),
         UNCHANGED <<enabled, processed, tracked, spot, unwrapped, hull, strays, sized>>,
         held' \in BOOLEAN, leaked' \in Nat, records' \subseteq Images
  PROVE ImageTypes' /\ ImagesFit'
  <1> DEFINE begun == IF enabled THEN Begins(visited) ELSE {}
  <1>1. begun \subseteq Images /\ \A i \in begun : i \notin processed /\ enabled
    BY DEF Begins
  <1>2. /\ flight' = [i \in Images |-> IF i \in begun THEN "direct" ELSE flight[i]]
        /\ blurred' = blurred \cup begun /\ missed' = missed \ begun
    BY DEF Visit
  <1> HIDE DEF begun
  <1>3. ImageTypes'
    BY <1>1, <1>2 DEF ImageTypes, Stages
  <1>4. ASSUME NEW i \in Images PROVE ImageFits(i)'
    <2>1. ImageFits(i)
      BY DEF ImagesFit
    <2>2. Overlaid(i)' <=> Overlaid(i)
      BY DEF Overlaid
    <2> QED
      BY <1>1, <1>2, <2>1, <2>2 DEF ImageFits
  <1> QED
    BY <1>3, <1>4 DEF ImagesFit

\* An answer that is drawn is the first of its image, and finishes it.
LEMMA RequestFits ==
  ASSUME ContentInv, NEW i \in Images, RequestAdvances(i) \/ RequestEnds(i)
  PROVE ContentInv'
  <1>1. CASE RequestAdvances(i)
    <2>1. flight[i] # "idle" /\ flight' \in [Images -> Stages]
          /\ \A j \in Images : flight'[j] # "idle" <=> flight[j] # "idle"
      BY <1>1 DEF RequestAdvances, NextStages, ContentInv, ImageTypes, Stages
    <2> QED
      BY <1>1, <2>1 DEF RequestAdvances, page, tab, ContentInv, ImageTypes, TabTypes, ImagesFit,
                        ImageFits, Overlaid
  <1>2. CASE RequestEnds(i)
    <2>1. /\ flight[i] # "idle" /\ flight' = [flight EXCEPT ![i] = "idle"]
          /\ blurred' = blurred \ {i}
          /\ UNCHANGED <<enabled, config, waiting, held, leaked, missed, unwrapped, hull, strays,
                         sized, pageEvents, tab>>
      BY <1>2 DEF RequestEnds, Unblurs
    <2>2. i \notin processed /\ i \notin tracked /\ spot[i].wraps =< strays[i]
      BY <2>1 DEF ContentInv, ImageTypes, ImagesFit, ImageFits, Overlaid
    <2>3. TabTypes'
      BY <2>1 DEF tab, ContentInv, TabTypes
    <2>4. CASE UNCHANGED <<processed, spot, tracked, records>>
      BY <2>1, <2>3, <2>4 DEF ContentInv, ImageTypes, ImagesFit, ImageFits, Overlaid, Stages
    <2>5. CASE enabled /\ Overlays(i) /\ ~(i \in sized /\ HasParent(spot[i]))
      <3>1. processed \subseteq processed' /\ processed' \subseteq processed \cup {i}
            /\ UNCHANGED <<spot, tracked, records>>
        BY <2>5 DEF Overlays, Marks
      <3> QED
        BY <2>1, <2>3, <3>1 DEF ContentInv, ImageTypes, ImagesFit, ImageFits, Overlaid, Stages
    <2>6. CASE enabled /\ Overlays(i) /\ i \in sized /\ HasParent(spot[i])
      <3>1. /\ processed' = processed \cup {i} /\ tracked' = tracked \cup {i}
            /\ spot' = [spot EXCEPT ![i].wraps = @ + 1]
            /\ records' \subseteq Images
        BY <2>6 DEF Overlays, Marks, ContentInv, ImageTypes
      <3>2. /\ spot' \in [Images -> Spots] /\ spot'[i].wraps = spot[i].wraps + 1
            /\ \A j \in Images \ {i} : spot'[j] = spot[j]
        BY <3>1 DEF ContentInv, ImageTypes, Spots
      <3>3. ImageTypes'
        BY <2>1, <3>1, <3>2 DEF ContentInv, ImageTypes, Stages
      <3>4. ASSUME NEW j \in Images PROVE ImageFits(j)'
        <4>1. ImageFits(j) /\ spot[j].wraps \in Nat /\ strays[j] \in Nat
          BY DEF ContentInv, ImagesFit, ImageTypes, Spots
        <4>2. CASE j = i
          <5>1. Overlaid(j)'
            BY <2>1, <2>2, <3>1, <4>2 DEF ContentInv, ImagesFit, Overlaid
          <5> QED
            BY <2>1, <2>2, <3>1, <3>2, <4>1, <4>2, <5>1 DEF ContentInv, ImageTypes, ImageFits
        <4>3. CASE j # i
          <5>1. Overlaid(j)' <=> Overlaid(j)
            BY <2>1, <3>1, <4>3 DEF Overlaid
          <5> QED
            BY <2>1, <3>1, <3>2, <4>1, <4>3, <5>1 DEF ContentInv, ImageTypes, ImageFits
        <4> QED
          BY <4>2, <4>3
      <3> QED
        BY <2>1, <2>3, <2>6, <3>1, <3>3, <3>4 DEF ContentInv, ImagesFit
    <2> QED
      BY <1>2, <2>4, <2>5, <2>6 DEF RequestEnds, DropsLate, ContentInv, ImageTypes
  <1> QED
    BY <1>1, <1>2

\* The wrapper of a tracked image stands inside those left before.
LEMMA OutsideFits ==
  ASSUME ImageTypes, ImagesFit, NEW i \in tracked
  PROVE Outside(i) \in Spots /\ Outside(i).wraps =< strays[i]
  <1>1. i \in Images /\ spot[i] \in Spots /\ hull[i] \in Spots /\ strays[i] \in Nat /\ ImageFits(i)
    BY DEF ImageTypes, ImagesFit
  <1>2. CASE i \in unwrapped
    BY <1>1, <1>2 DEF Outside, ImageFits
  <1>3. CASE i \notin unwrapped
    <2>1. spot[i].wraps > 0 /\ spot[i].wraps =< strays[i] + 1
      BY <1>1, <1>3 DEF ImageFits, Overlaid
    <2>2. Outside(i) = [spot[i] EXCEPT !.wraps = @ - 1]
      BY <1>3 DEF Outside
    <2> QED
      BY <1>1, <2>1, <2>2 DEF Spots
  <1> QED
    BY <1>2, <1>3

\* Disabling takes every overlay down that hangs somewhere, and every blur in
\* the document.
LEMMA DisablesFits ==
  ASSUME ImageTypes, ImagesFit, reports \in Seq(BOOLEAN), Disables, sized' = sized
  PROVE ImageTypes' /\ ImagesFit' /\ reports' \in Seq(BOOLEAN)
  <1>1. enabled' = FALSE /\ UNCHANGED <<leaked, flight, missed>>
    BY DEF Disables
  <1>2. CASE ~enabled
    BY <1>1, <1>2 DEF Disables, ImageTypes, ImagesFit, ImageFits, Overlaid
  <1>3. CASE enabled
    <2> DEFINE restored == {i \in tracked : HasParent(Outside(i))}
    <2>1. /\ held' = FALSE /\ reports' = Append(reports, FALSE)
          /\ spot' = [i \in Images |-> IF i \in restored THEN Outside(i) ELSE spot[i]]
          /\ unwrapped' = {} /\ hull' = [i \in Images |-> NoSpot] /\ processed' = processed \ tracked
          /\ tracked' = {} /\ blurred' = blurred \ attached
          /\ records' \subseteq records \cup tracked
          /\ strays' = [i \in Images |-> IF i \in attached THEN strays[i] ELSE strays[i] + 1]
      BY <1>3 DEF Disables, ClearAll, ReportsState, Forgets
    <2>2. \A i \in restored : i \in tracked /\ Outside(i) \in Spots /\ Outside(i).wraps =< strays[i]
      BY OutsideFits
    <2>3. \A i \in tracked : HasParent(Outside(i)) => i \in restored
      OBVIOUS
    <2> HIDE DEF restored
    <2>4. NoSpot \in Spots /\ NoSpot.wraps = 0
      BY DEF NoSpot, Spots, Places
    <2>5. ImageTypes'
      <3>1. spot' \in [Images -> Spots]
        BY <2>1, <2>2 DEF ImageTypes
      <3>2. hull' \in [Images -> Spots] /\ strays' \in [Images -> Nat]
        BY <2>1, <2>4 DEF ImageTypes
      <3> QED
        BY <1>1, <2>1, <3>1, <3>2 DEF ImageTypes
    <2>6. ASSUME NEW i \in Images PROVE ImageFits(i)'
      <3>1. /\ ImageFits(i) /\ strays[i] \in Nat /\ spot[i] \in Spots
            /\ strays'[i] = IF i \in attached THEN strays[i] ELSE strays[i] + 1
        BY <2>1 DEF ImageTypes, ImagesFit
      <3>2. flight'[i] # "idle" => i \notin processed'
        BY <1>1, <2>1, <3>1 DEF ImageFits
      <3>3. i \in blurred' => flight'[i] # "idle" /\ strays'[i] > 0
        BY <1>1, <2>1, <3>1 DEF ImageFits
      <3>4. hull'[i].wraps =< strays'[i]
        BY <2>1, <2>4, <3>1
      <3>5. spot'[i].wraps =< strays'[i]
        <4>1. CASE i \in restored
          <5>1. spot'[i] = Outside(i)
            BY <2>1, <4>1
          <5>2. Outside(i).wraps \in Nat /\ Outside(i).wraps =< strays[i]
            BY <2>2, <4>1 DEF Spots
          <5> QED
            BY <3>1, <5>1, <5>2
        <4>2. CASE i \notin restored /\ ~Overlaid(i)
          BY <2>1, <3>1, <4>2 DEF ImageFits, Spots
        <4>3. CASE i \notin restored /\ Overlaid(i)
          <5>1. i \in tracked /\ ~HasParent(Outside(i)) /\ i \notin unwrapped
            BY <2>3, <4>3 DEF Overlaid
          <5>2. Outside(i) = [spot[i] EXCEPT !.wraps = @ - 1]
            BY <5>1 DEF Outside
          <5>3. Outside(i).place = spot[i].place /\ Outside(i).wraps = spot[i].wraps - 1
            BY <3>1, <5>2 DEF Spots
          <5>4. spot[i].place = "alone" /\ spot[i].wraps =< 1 /\ spot[i].wraps \in Nat
            BY <3>1, <5>1, <5>3 DEF HasParent, Spots
          <5>5. i \notin attached
            BY <5>4 DEF attached
          <5> QED
            BY <2>1, <3>1, <4>3, <5>4, <5>5
        <4> QED
          BY <4>1, <4>2, <4>3
      <3>6. ~Overlaid(i)'
        BY <2>1 DEF Overlaid
      <3> QED
        BY <3>2, <3>3, <3>4, <3>5, <3>6 DEF ImageFits
    <2>7. ImagesFit'
      BY <1>1, <2>1, <2>6 DEF ImagesFit
    <2> QED
      BY <2>1, <2>5, <2>7
  <1> QED
    BY <1>2, <1>3 DEF ImageTypes

\* enable, disable and the end of enable's wait.
LEMMA ScriptFits ==
  ASSUME ContentInv, EnableResumes \/ ScriptReceives \/ ConfigLoads \/ RecordsDelivered
  PROVE ContentInv'
  <1>1. CASE EnableResumes
    <2>1. TabTypes'
      <3>1. waiting' \in Nat
        BY <1>1 DEF EnableResumes, ContentInv, TabTypes
      <3>2. Append(reports, TRUE) \in Seq(BOOLEAN)
        BY DEF ContentInv, TabTypes
      <3>3. reports' \in Seq(BOOLEAN)
        BY <1>1, <3>2 DEF EnableResumes, ReportsState, ContentInv, TabTypes
      <3>4. UNCHANGED <<config, pageEvents, script, injections, inbox, icon, messages>>
        BY <1>1 DEF EnableResumes, page
      <3> QED
        BY <3>1, <3>3, <3>4 DEF ContentInv, TabTypes
    <2>2. CASE enabled
      <3>1. /\ Visit(attached) /\ held' = TRUE /\ leaked' = IF held THEN leaked + 1 ELSE leaked
            /\ UNCHANGED <<enabled, processed, tracked, page, records>>
        BY <1>1, <2>2 DEF EnableResumes
      <3>2. attached \in SUBSET Images /\ leaked' \in Nat /\ records' \subseteq Images
        BY <3>1 DEF attached, ContentInv, ImageTypes
      <3> QED
        BY <2>1, <3>1, <3>2, VisitFits DEF page, ContentInv
    <2>3. CASE ~enabled
      BY <1>1, <2>1, <2>3 DEF EnableResumes, page, ContentInv, ImageTypes, ImagesFit, ImageFits, Overlaid
    <2> QED
      BY <2>2, <2>3
  <1>2. CASE ScriptReceives
    <2>1. inbox' \in Seq({"toggle", "enable", "disable"})
      BY <1>2 DEF ScriptReceives, ContentInv, TabTypes
    <2>2. UNCHANGED <<sized, pageEvents, script, injections, icon, messages>>
      BY <1>2 DEF ScriptReceives
    <2>3. CASE Enables
      BY <2>1, <2>2, <2>3 DEF Enables, ContentInv, ImageTypes, TabTypes, ImagesFit, ImageFits, Overlaid
    <2>4. CASE Disables
      <3>1. config' = config /\ waiting' = waiting
        BY <2>4 DEF Disables
      <3> QED
        BY <2>1, <2>2, <2>4, <3>1, DisablesFits DEF ContentInv, TabTypes
    <2> QED
      BY <1>2, <2>3, <2>4 DEF ScriptReceives
  <1>3. CASE ConfigLoads
    BY <1>3 DEF ConfigLoads, page, tab, ContentInv, ImageTypes, TabTypes, ImagesFit, ImageFits, Overlaid
  <1>4. CASE RecordsDelivered
    <2>1. TabTypes'
      BY <1>4 DEF RecordsDelivered, page, tab, ContentInv, TabTypes
    <2>2. /\ records \in SUBSET Images /\ Visit(records) /\ records' = {}
          /\ UNCHANGED <<enabled, processed, tracked, page, held, leaked>>
      BY <1>4 DEF RecordsDelivered, ContentInv, ImageTypes
    <2> QED
      BY <2>1, <2>2, VisitFits DEF page, ContentInv, ImageTypes
  <1> QED
    BY <1>1, <1>2, <1>3, <1>4

\* The page moves, loads and swaps images; no overlay is added.
LEMMA PageFits ==
  ASSUME ContentInv, NEW i \in Images,
         PageInserts(i) \/ PageRemoves(i) \/ PageUnwraps(i) \/ ImageLoads(i) \/ ImageSwaps(i)
  PROVE ContentInv'
  <1>1. /\ UNCHANGED <<enabled, held, leaked, processed, flight, blurred, tracked, strays>>
        /\ TabTypes'
    BY DEF PageInserts, PageRemoves, PageUnwraps, ImageLoads, ImageSwaps, PageEvent, tab,
           ContentInv, TabTypes
  <1>2. ASSUME UNCHANGED <<unwrapped, hull>>, spot' \in [Images -> Spots],
               \A j \in Images : spot'[j].wraps = spot[j].wraps,
               records' \subseteq Images, sized' \subseteq Images, missed' \subseteq Images
        PROVE  ContentInv'
    BY <1>1, <1>2 DEF ContentInv, ImageTypes, ImagesFit, ImageFits, Overlaid
  <1>3. CASE PageInserts(i) \/ PageRemoves(i)
    <2>1. /\ \E place \in Places : spot' = [spot EXCEPT ![i].place = place]
          /\ UNCHANGED <<unwrapped, hull, sized, missed>> /\ records' \subseteq records \cup {i}
      BY <1>3 DEF PageInserts, PageRemoves, Places
    <2>2. spot' \in [Images -> Spots] /\ \A j \in Images : spot'[j].wraps = spot[j].wraps
      BY <2>1 DEF ContentInv, ImageTypes, Spots
    <2> QED
      BY <1>2, <2>1, <2>2 DEF ContentInv, ImageTypes
  <1>4. CASE PageUnwraps(i)
    <2>1. /\ spot' = [spot EXCEPT ![i] = NoSpot] /\ UNCHANGED <<sized, records>>
          /\ NoSpot \in Spots /\ NoSpot.wraps = 0
      BY <1>4 DEF PageUnwraps, NoSpot, Spots, Places
    <2>2. \A j \in Images : strays[j] \in Nat /\ ImageFits(j)
      BY DEF ContentInv, ImageTypes, ImagesFit
    <2>3. CASE Overlaid(i)
      <3>1. PICK place \in {spot[i].place, "alone"} :
                 hull' = [hull EXCEPT ![i] = [Outside(i) EXCEPT !.place = place]]
        BY <1>4, <2>3 DEF PageUnwraps
      <3>2. unwrapped' = unwrapped \cup {i} /\ missed' = missed \cup {i} /\ i \in tracked
        BY <1>4, <2>3 DEF PageUnwraps, Overlaid
      <3>3. Outside(i) \in Spots /\ Outside(i).wraps =< strays[i]
        BY <3>2, OutsideFits DEF ContentInv
      <3>4. place \in Places
        BY <3>1 DEF ContentInv, ImageTypes, Spots, Places
      <3>5. [Outside(i) EXCEPT !.place = place] \in Spots
            /\ [Outside(i) EXCEPT !.place = place].wraps = Outside(i).wraps
        BY <3>3, <3>4 DEF Spots
      <3>6. hull' \in [Images -> Spots] /\ spot' \in [Images -> Spots]
        BY <2>1, <3>1, <3>5 DEF ContentInv, ImageTypes
      <3>7. ImageTypes'
        BY <1>1, <2>1, <3>2, <3>6 DEF ContentInv, ImageTypes
      <3>8. ASSUME NEW j \in Images PROVE ImageFits(j)'
        <4>1. CASE j = i
          <5>1. ~Overlaid(j)' /\ spot'[j] = NoSpot /\ hull'[j].wraps = Outside(i).wraps
            BY <2>1, <3>1, <3>2, <3>5, <4>1 DEF Overlaid, ContentInv, ImageTypes
          <5> QED
            BY <1>1, <2>1, <2>2, <3>3, <4>1, <5>1 DEF ImageFits
        <4>2. CASE j # i
          <5>1. (Overlaid(j)' <=> Overlaid(j)) /\ spot'[j] = spot[j] /\ hull'[j] = hull[j]
            BY <1>1, <2>1, <3>1, <3>2, <4>2 DEF Overlaid, ContentInv, ImageTypes
          <5> QED
            BY <1>1, <2>2, <5>1 DEF ImageFits
        <4> QED
          BY <4>1, <4>2
      <3> QED
        BY <1>1, <3>2, <3>7, <3>8 DEF ContentInv, ImagesFit
    <2>4. CASE ~Overlaid(i)
      <3>1. UNCHANGED <<unwrapped, hull, missed>>
        BY <1>4, <2>4 DEF PageUnwraps
      <3>2. ImageTypes'
        BY <1>1, <2>1, <3>1 DEF ContentInv, ImageTypes
      <3>3. ASSUME NEW j \in Images PROVE ImageFits(j)'
        <4>1. Overlaid(j)' <=> Overlaid(j)
          BY <1>1, <3>1 DEF Overlaid
        <4>2. spot'[j] = IF j = i THEN NoSpot ELSE spot[j]
          BY <2>1 DEF ContentInv, ImageTypes
        <4> QED
          BY <1>1, <2>1, <2>2, <2>4, <3>1, <4>1, <4>2 DEF ImageFits
      <3> QED
        BY <1>1, <3>1, <3>2, <3>3 DEF ContentInv, ImagesFit
    <2> QED
      BY <2>3, <2>4
  <1>5. CASE ImageLoads(i) \/ ImageSwaps(i)
    <2>1. UNCHANGED <<spot, unwrapped, hull, records>> /\ sized' \subseteq Images /\ missed' \subseteq Images
      BY <1>5 DEF ImageLoads, ImageSwaps, ContentInv, ImageTypes
    <2> QED
      BY <1>2, <2>1 DEF ContentInv, ImageTypes
  <1> QED
    BY <1>3, <1>4, <1>5

\* The background page, the injection and the icon leave the script alone.
LEMMA BackgroundFits ==
  ASSUME ContentInv,
         \/ \E msg \in {"toggle", "enable", "disable"} : ToolbarClicks(msg)
         \/ InjectionEnds \/ IconSet
  PROVE ContentInv'
  <1>1. UNCHANGED <<script_, page>>
    BY DEF ToolbarClicks, InjectionEnds, IconSet
  <1>2. ImageTypes' /\ ImagesFit'
    BY <1>1 DEF script_, page, ContentInv, ImageTypes, ImagesFit, ImageFits, Overlaid
  <1>3. TabTypes'
    <2> USE DEF ContentInv, TabTypes, script_, page
    <2>1. ASSUME NEW msg \in {"toggle", "enable", "disable"}, ToolbarClicks(msg) PROVE TabTypes'
      <3>1. Append(inbox, msg) \in Seq({"toggle", "enable", "disable"})
        OBVIOUS
      <3>2. inbox' \in Seq({"toggle", "enable", "disable"})
        BY <2>1, <3>1 DEF ToolbarClicks
      <3>3. injections' \in Nat /\ messages' \in Nat
        BY <2>1 DEF ToolbarClicks
      <3>4. UNCHANGED <<config, waiting, pageEvents, script, reports, icon>>
        BY <2>1 DEF ToolbarClicks
      <3> QED
        BY <3>2, <3>3, <3>4
    <2>2. CASE InjectionEnds
      BY <2>2 DEF InjectionEnds
    <2>3. CASE IconSet
      <3>1. Head(reports) \in BOOLEAN /\ Tail(reports) \in Seq(BOOLEAN)
        BY <2>3 DEF IconSet
      <3> QED
        BY <2>3, <3>1 DEF IconSet
    <2> QED
      BY <2>1, <2>2, <2>3
  <1> QED
    BY <1>2, <1>3 DEF ContentInv

\* A tab before the first click.
LEMMA ContentInitInv == ContentInit => ContentInv
  <1> SUFFICES ASSUME ContentInit PROVE ContentInv
    OBVIOUS
  <1>1. ImageTypes
    <2>1. \A place \in Places : [place |-> place, wraps |-> 0] \in Spots
      BY DEF Spots
    <2>2. NoSpot \in Spots
      BY DEF NoSpot, Spots, Places
    <2> QED
      BY <2>1, <2>2 DEF ContentInit, ImageTypes, Stages
  <1>2. TabTypes
    <2>1. config \in BOOLEAN /\ script \in BOOLEAN /\ icon \in BOOLEAN
      BY DEF ContentInit
    <2>2. /\ waiting \in Nat /\ injections \in Nat /\ messages \in Nat /\ pageEvents \in Nat
          /\ inbox \in Seq({"toggle", "enable", "disable"}) /\ reports \in Seq(BOOLEAN)
      BY DEF ContentInit
    <2> QED
      BY <2>1, <2>2 DEF TabTypes
  <1>3. ImagesFit
    BY DEF ContentInit, ImagesFit, ImageFits, Overlaid, NoSpot
  <1> QED
    BY <1>1, <1>2, <1>3 DEF ContentInv

LEMMA ContentStepInv == ContentInv /\ [ContentNext]_contentVars => ContentInv'
  <1> SUFFICES ASSUME ContentInv, [ContentNext]_contentVars PROVE ContentInv'
    OBVIOUS
  <1>1. CASE UNCHANGED contentVars
    BY <1>1 DEF contentVars, script_, page, tab, ContentInv, ImageTypes, TabTypes, ImagesFit,
                ImageFits, Overlaid
  <1> QED
    BY <1>1, RequestFits, ScriptFits, PageFits, BackgroundFits DEF ContentNext

LEMMA ContentInvMeans == ContentInv => OverlaysFit
  <1> SUFFICES ASSUME ContentInv PROVE OverlaysFit
    OBVIOUS
  <1>1. \A i \in Images : /\ ImageFits(i) /\ strays[i] \in Nat /\ spot[i].wraps \in Nat
    BY DEF ContentInv, ImageTypes, ImagesFit, Spots
  <1>2. \A i \in blurred : flight[i] # "idle"
    BY <1>1 DEF ContentInv, ImageTypes, ImageFits
  <1>3. ContentTypeOK
    BY <1>2 DEF ContentInv, ImageTypes, TabTypes, ImagesFit, ContentTypeOK
  <1>4. ASSUME NEW i \in Images
        PROVE /\ spot[i].wraps =< strays[i] + 1
              /\ ~enabled => spot[i].wraps =< strays[i]
              /\ ~enabled /\ i \in blurred => strays[i] > 0
    <2>1. ~enabled => ~Overlaid(i)
      BY DEF ContentInv, ImagesFit, Overlaid
    <2> QED
      BY <1>1, <2>1 DEF ImageFits
  <1>5. ~enabled => tracked = {}
    BY DEF ContentInv, ImagesFit
  <1> QED
    BY <1>3, <1>4, <1>5 DEF OverlaysFit

\* content.js: however toggles, answers, failures and the page's own moves
\* interleave, an image is in one wrapper at most, and while translation is off
\* in none and not blurred; each time it is switched off while the page holds
\* an image outside the document may leave one wrapper more, and a blur.
THEOREM OverlaysAlwaysFit == ContentSpec => []OverlaysFit
  BY ContentInitInv, ContentStepInv, ContentInvMeans, PTL DEF ContentSpec
-----------------------------------------------------------------------------
(* NothingSkipped *)

\* A finished image without an overlay went by unseen; a connected observer
\* means an active script; and what it can see is done, under way or recorded.
Seen(i) == Overlaid(i) \/ flight[i] # "idle" \/ i \in records

ScanInv ==
  /\ \A i \in Images : i \in processed /\ i \in sized /\ ~Overlaid(i) => i \in missed
  /\ held => enabled
  /\ held => \A i \in Images : i \in attached /\ i \in sized /\ i \notin missed => Seen(i)

\* A scan leaves of what it visits nothing idle but finished images.
LEMMA VisitScans ==
  ASSUME ImageTypes, ImagesFit, ScanInv, enabled, NEW visited \in SUBSET Images, Visit(visited),
         UNCHANGED <<enabled, processed, tracked, spot, unwrapped, sized>>, held' = TRUE,
         held => records \subseteq records' \cup visited,
         held \/ attached \subseteq visited
  PROVE ScanInv'
  <1>1. /\ flight' = [i \in Images |-> IF i \in Begins(visited) THEN "direct" ELSE flight[i]]
        /\ missed' = missed \ Begins(visited)
    BY DEF Visit
  <1>2. \A i \in Begins(visited) : i \notin processed
    BY DEF Begins
  <1>a. attached' = attached /\ \A i \in Images : Overlaid(i)' <=> Overlaid(i)
    BY DEF attached, Overlaid
  <1>3. \A i \in Images : i \in processed /\ i \in sized /\ ~Overlaid(i) => i \in missed'
    BY <1>1, <1>2 DEF ScanInv
  <1>4. ASSUME NEW i \in Images, i \in attached, i \in sized, i \notin missed' PROVE Seen(i)'
    <2>0. Overlaid(i)' <=> Overlaid(i)
      BY <1>a
    <2>1. CASE i \in Begins(visited)
      BY <1>1, <2>1 DEF Seen
    <2>2. CASE i \notin Begins(visited) /\ flight[i] # "idle"
      BY <1>1, <2>2 DEF Seen
    <2>3. CASE i \notin Begins(visited) /\ flight[i] = "idle" /\ i \in processed
      BY <1>3, <1>4, <2>0, <2>3 DEF Seen
    <2>4. CASE i \notin Begins(visited) /\ flight[i] = "idle" /\ i \notin processed
      <3>1. i \notin visited /\ i \notin missed /\ held
        BY <1>1, <1>4, <2>4 DEF Begins
      <3>2. Seen(i)
        BY <1>4, <3>1 DEF ScanInv
      <3> QED
        BY <2>0, <2>4, <3>1, <3>2 DEF Seen
    <2> QED
      BY <2>1, <2>2, <2>3, <2>4
  <1> QED
    BY <1>3, <1>4, <1>a DEF ScanInv

\* A request that ends on an image in view draws its overlay.
LEMMA RequestScans ==
  ASSUME ContentInv, ScanInv, NEW i \in Images, RequestAdvances(i) \/ RequestEnds(i)
  PROVE ScanInv'
  <1>1. CASE RequestAdvances(i)
    <2>1. \A j \in Images : flight'[j] # "idle" <=> flight[j] # "idle"
      BY <1>1 DEF RequestAdvances, NextStages, ContentInv, ImageTypes, Stages
    <2>2. UNCHANGED <<enabled, held, processed, tracked, records, missed, page>>
      BY <1>1 DEF RequestAdvances
    <2> QED
      BY <2>1, <2>2 DEF page, attached, Overlaid, ScanInv, Seen
  <1>2. CASE RequestEnds(i)
    <2>1. /\ flight[i] # "idle" /\ flight' = [flight EXCEPT ![i] = "idle"]
          /\ UNCHANGED <<enabled, held, missed, unwrapped, sized>>
      BY <1>2 DEF RequestEnds
    <2>2. \A j \in Images \ {i} : flight'[j] = flight[j]
      BY <2>1 DEF ContentInv, ImageTypes
    <2>3. i \notin processed /\ i \notin tracked /\ i \notin unwrapped
      BY <2>1 DEF ContentInv, ImageTypes, ImagesFit, ImageFits
    <2>4. CASE ~enabled
      <3>1. UNCHANGED <<processed, tracked>> /\ ~held
        BY <1>2, <2>4 DEF RequestEnds, DropsLate, ScanInv
      <3> QED
        BY <2>1, <3>1 DEF ScanInv, Overlaid
    <2>5. CASE enabled /\ ~(i \in sized /\ HasParent(spot[i]))
      <3>1. /\ UNCHANGED <<spot, tracked, records>>
            /\ processed' = IF i \in sized THEN processed ELSE processed \cup {i}
        BY <1>2, <2>5 DEF RequestEnds, DropsLate, Overlays, Marks
      <3>2. i \in sized => i \notin attached
        BY <2>5 DEF attached, HasParent
      <3> QED
        BY <2>1, <2>2, <2>5, <3>1, <3>2 DEF attached, Overlaid, ScanInv, Seen
    <2>6. CASE enabled /\ i \in sized /\ HasParent(spot[i])
      <3>1. /\ processed' = processed \cup {i} /\ tracked' = tracked \cup {i}
            /\ spot' = [spot EXCEPT ![i].wraps = @ + 1]
            /\ records \subseteq records'
        BY <1>2, <2>6 DEF RequestEnds, DropsLate, Overlays, Marks
      <3>2. attached' = attached
        BY <3>1 DEF attached, ContentInv, ImageTypes, Spots
      <3>3. Overlaid(i)' /\ \A j \in Images \ {i} : Overlaid(j)' <=> Overlaid(j)
        BY <2>1, <2>3, <3>1 DEF Overlaid
      <3> QED
        BY <2>1, <2>2, <3>1, <3>2, <3>3 DEF ScanInv, Seen
    <2> QED
      BY <2>4, <2>5, <2>6 DEF ContentInv, ImageTypes
  <1> QED
    BY <1>1, <1>2

\* An activation scans the page before it watches it; a deactivation stops
\* watching; a record is delivered to a scan.
LEMMA ScriptScans ==
  ASSUME ContentInv, ScanInv,
         EnableResumes \/ ScriptReceives \/ ConfigLoads \/ (records # {} /\ RecordsDelivered)
  PROVE ScanInv'
  <1>1. CASE EnableResumes
    <2>1. CASE enabled
      <3>1. /\ Visit(attached) /\ held' = TRUE
            /\ UNCHANGED <<enabled, processed, tracked, spot, unwrapped, sized, records>>
        BY <1>1, <2>1 DEF EnableResumes, page
      <3>2. attached \in SUBSET Images
        BY DEF attached
      <3> QED
        BY <2>1, <3>1, <3>2, VisitScans DEF ContentInv
    <2>2. CASE ~enabled
      BY <1>1, <2>2 DEF EnableResumes, page, Overlaid, ScanInv
    <2> QED
      BY <2>1, <2>2
  <1>2. CASE ScriptReceives /\ Enables
    BY <1>2 DEF ScriptReceives, Enables, attached, Overlaid, ScanInv, Seen
  <1>3. CASE ScriptReceives /\ Disables
    <2>1. UNCHANGED <<sized, missed>> /\ ~held'
      BY <1>3 DEF ScriptReceives, Disables, ScanInv
    <2>2. ASSUME NEW i \in Images, i \in processed', ~Overlaid(i)' PROVE i \in processed /\ ~Overlaid(i)
      BY <1>3, <2>2 DEF Disables, ClearAll, Forgets, Overlaid
    <2> QED
      BY <2>1, <2>2 DEF ScanInv
  <1>4. CASE ConfigLoads
    BY <1>4 DEF ConfigLoads, page, attached, Overlaid, ScanInv, Seen
  <1>5. CASE RecordsDelivered
    <2>1. /\ records \in SUBSET Images /\ Visit(records) /\ records' = {}
          /\ UNCHANGED <<enabled, processed, tracked, spot, unwrapped, sized, held>>
      BY <1>5 DEF RecordsDelivered, page, ContentInv, ImageTypes
    <2>2. CASE held
      <3>1. enabled /\ held' = TRUE
        BY <2>1, <2>2 DEF ScanInv, ContentInv, ImageTypes
      <3> QED
        BY <2>1, <2>2, <3>1, VisitScans DEF ContentInv
    <2>3. CASE ~held
      <3>1. missed' = missed \ (IF enabled THEN Begins(records) ELSE {})
        BY <2>1 DEF Visit
      <3>2. \A i \in Begins(records) : i \notin processed
        BY DEF Begins
      <3> QED
        BY <2>1, <2>3, <3>1, <3>2 DEF Overlaid, ScanInv
    <2> QED
      BY <2>2, <2>3
  <1> QED
    BY <1>1, <1>2, <1>3, <1>4, <1>5 DEF ScriptReceives

\* An inserted image is recorded; a lost wrapper or a gained size is missed.
LEMMA PageScans ==
  ASSUME ContentInv, ScanInv, NEW i \in Images,
         PageInserts(i) \/ PageRemoves(i) \/ PageUnwraps(i) \/ ImageLoads(i) \/ ImageSwaps(i)
  PROVE ScanInv'
  <1>1. UNCHANGED <<enabled, held, processed, flight, tracked>>
    BY DEF PageInserts, PageRemoves, PageUnwraps, ImageLoads, ImageSwaps, PageEvent
  <1>2. CASE PageInserts(i)
    <2>1. spot' = [spot EXCEPT ![i].place = "document"] /\ UNCHANGED <<sized, unwrapped, missed>>
      BY <1>2 DEF PageInserts
    <2>2. attached' = attached \cup {i} /\ \A j \in Images : Overlaid(j)' <=> Overlaid(j)
      BY <1>1, <2>1 DEF attached, Overlaid, ContentInv, ImageTypes, Spots
    <2>3. records \subseteq records' /\ (held => i \in records')
      BY <1>2 DEF PageInserts, Watched
    <2> QED
      BY <1>1, <2>1, <2>2, <2>3 DEF Seen, ScanInv
  <1>3. CASE PageRemoves(i)
    <2>1. PICK place \in Places \ {"document"} : spot' = [spot EXCEPT ![i].place = place]
      BY <1>3 DEF PageRemoves
    <2>2. UNCHANGED <<sized, unwrapped, records, missed>>
      BY <1>3 DEF PageRemoves
    <2>3. attached' \subseteq attached /\ \A j \in Images : Overlaid(j)' <=> Overlaid(j)
      BY <1>1, <2>1, <2>2 DEF attached, Overlaid, ContentInv, ImageTypes, Spots
    <2> QED
      BY <1>1, <2>2, <2>3 DEF Seen, ScanInv
  <1>4. CASE PageUnwraps(i)
    <2>1. spot' = [spot EXCEPT ![i] = NoSpot] /\ UNCHANGED <<sized, records>>
      BY <1>4 DEF PageUnwraps
    <2>2. attached' \subseteq attached
      BY <2>1 DEF attached, NoSpot, ContentInv, ImageTypes
    <2>3. CASE Overlaid(i)
      <3>1. unwrapped' = unwrapped \cup {i} /\ missed' = missed \cup {i}
        BY <1>4, <2>3 DEF PageUnwraps
      <3>2. \A j \in Images \ {i} : Overlaid(j)' <=> Overlaid(j)
        BY <1>1, <3>1 DEF Overlaid
      <3> QED
        BY <1>1, <2>1, <2>2, <3>1, <3>2 DEF Seen, ScanInv
    <2>4. CASE ~Overlaid(i)
      <3>1. UNCHANGED <<unwrapped, missed>>
        BY <1>4, <2>4 DEF PageUnwraps
      <3>2. \A j \in Images : Overlaid(j)' <=> Overlaid(j)
        BY <1>1, <3>1 DEF Overlaid
      <3> QED
        BY <1>1, <2>1, <2>2, <3>1, <3>2 DEF Seen, ScanInv
    <2> QED
      BY <2>3, <2>4
  <1>5. CASE ImageLoads(i) \/ ImageSwaps(i)
    <2>1. UNCHANGED <<spot, unwrapped, records>>
      BY <1>5 DEF ImageLoads, ImageSwaps
    <2>2. attached' = attached /\ \A j \in Images : Overlaid(j)' <=> Overlaid(j)
      BY <1>1, <2>1 DEF attached, Overlaid
    <2>3. \/ sized' = sized \cup {i} /\ missed' = IF Overlaid(i) THEN missed ELSE missed \cup {i}
          \/ sized' = sized \ {i} /\ missed' = missed
      BY <1>5 DEF ImageLoads, ImageSwaps
    <2> QED
      BY <1>1, <2>1, <2>2, <2>3 DEF Seen, ScanInv
  <1> QED
    BY <1>2, <1>3, <1>4, <1>5

LEMMA ScanStepInv == ContentInv /\ ScanInv /\ [ContentNext]_contentVars => ScanInv'
  <1> SUFFICES ASSUME ContentInv, ScanInv, [ContentNext]_contentVars PROVE ScanInv'
    OBVIOUS
  <1>1. CASE \/ UNCHANGED contentVars \/ InjectionEnds \/ IconSet
             \/ \E msg \in {"toggle", "enable", "disable"} : ToolbarClicks(msg)
    <2>1. UNCHANGED <<script_, page>>
      BY <1>1 DEF ToolbarClicks, InjectionEnds, IconSet, contentVars
    <2> QED
      BY <2>1 DEF script_, page, attached, Overlaid, ScanInv, Seen
  <1>2. CASE RecordsDelivered
    BY <1>2, ScriptScans DEF RecordsDelivered
  <1> QED
    BY <1>1, <1>2, RequestScans, ScriptScans, PageScans DEF ContentNext

\* content.js: whatever the page does to its images between a scan, the
\* observer's records and the answers, a running script has no image in view
\* that it neither overlaid nor works on, but those that changed unseen.
THEOREM NothingIsSkipped == ContentSpec => []NothingSkipped
  <1>1. ContentInit => ScanInv
    BY DEF ContentInit, ScanInv
  <1>2. ContentInv /\ ScanInv => NothingSkipped
    <2> SUFFICES ASSUME ContentInv, ScanInv, held, records = {},
                        NEW i \in (attached \cap sized) \ missed
                 PROVE Overlaid(i) \/ flight[i] # "idle"
      BY DEF NothingSkipped
    <2> QED
      BY DEF attached, ScanInv, Seen
  <1> QED
    BY <1>1, <1>2, ContentInitInv, ContentStepInv, ScanStepInv, PTL DEF ContentSpec
-----------------------------------------------------------------------------
(* IconFollows *)

\* What the icon will show once the reports on their way are in.
Told == IF reports = <<>> THEN icon ELSE reports[Len(reports)]

\* It is the script's state, unless an activation has yet to report.
IconInv == IF enabled THEN Told \/ waiting > 0 ELSE ~Told

LEMMA AppendTold ==
  ASSUME NEW value \in BOOLEAN, reports \in Seq(BOOLEAN), reports' = Append(reports, value)
  PROVE Told' = value
  <1>1. Len(Append(reports, value)) = Len(reports) + 1
        /\ Append(reports, value)[Len(reports) + 1] = value /\ Append(reports, value) # <<>>
    OBVIOUS
  <1> QED
    BY <1>1 DEF Told

\* Taking the first element leaves the last one, if any is left.
LEMMA TailKeepsLast ==
  ASSUME NEW S, NEW s \in Seq(S), s # <<>>
  PROVE \/ Tail(s) = <<>> /\ Head(s) = s[Len(s)]
        \/ Tail(s) # <<>> /\ Tail(s)[Len(Tail(s))] = s[Len(s)]
  <1> DEFINE t == Tail(s)
  <1>1. Head(s) = s[1] /\ Len(<<>>) = 0
    OBVIOUS
  <1>2. /\ Len(s) \in Nat \ {0} /\ t \in Seq(S) /\ Len(t) = Len(s) - 1
        /\ \A i \in 1..Len(t) : t[i] = s[i + 1]
    BY EmptySeq, HeadTailProperties
  <1> HIDE DEF t
  <1>3. CASE t = <<>>
    <2>1. Len(s) = 1
      BY <1>1, <1>2, <1>3
    <2> QED
      BY <1>1, <1>3, <2>1 DEF t
  <1>4. CASE t # <<>>
    <2>1. Len(t) \in Nat \ {0}
      BY <1>2, <1>4, EmptySeq
    <2>2. t[Len(t)] = s[Len(s)]
      BY <1>2, <2>1
    <2> QED
      BY <1>4, <2>2 DEF t
  <1> QED
    BY <1>3, <1>4

LEMMA TailTold ==
  ASSUME reports \in Seq(BOOLEAN), reports # <<>>, reports' = Tail(reports), icon' = Head(reports)
  PROVE Told' = Told
  BY TailKeepsLast, Zenon DEF Told

LEMMA IconStepInv == ContentInv /\ IconInv /\ [ContentNext]_contentVars => IconInv'
  <1> SUFFICES ASSUME ContentInv, IconInv, [ContentNext]_contentVars PROVE IconInv'
    OBVIOUS
  <1> USE DEF ContentInv, ImageTypes, TabTypes
  <1>1. CASE UNCHANGED <<enabled, waiting, reports, icon>>
    BY <1>1 DEF IconInv, Told
  <1>2. CASE EnableResumes
    <2>1. waiting' = waiting - 1 /\ UNCHANGED <<enabled, icon>>
      BY <1>2 DEF EnableResumes
    <2>2. CASE enabled
      <3>1. reports' = Append(reports, TRUE)
        BY <1>2, <2>2 DEF EnableResumes, ReportsState
      <3> QED
        BY <2>1, <2>2, <3>1, AppendTold DEF IconInv
    <2>3. CASE ~enabled
      BY <1>2, <2>1, <2>3 DEF EnableResumes, IconInv, Told
    <2> QED
      BY <2>2, <2>3
  <1>3. CASE ScriptReceives /\ Enables
    BY <1>3 DEF ScriptReceives, Enables, IconInv, Told
  <1>4. CASE ScriptReceives /\ Disables
    <2>1. enabled' = FALSE /\ icon' = icon
      BY <1>4 DEF ScriptReceives, Disables
    <2>2. CASE enabled
      <3>1. reports' = Append(reports, FALSE)
        BY <1>4, <2>2 DEF Disables, ReportsState
      <3> QED
        BY <2>1, <3>1, AppendTold DEF IconInv
    <2>3. CASE ~enabled
      BY <1>4, <2>1, <2>3 DEF Disables, IconInv, Told
    <2> QED
      BY <2>2, <2>3
  <1>5. CASE IconSet
    BY <1>5, TailTold DEF IconSet, script_, IconInv
  <1>6. ASSUME NEW msg \in {"toggle", "enable", "disable"}, ToolbarClicks(msg)
        PROVE UNCHANGED <<enabled, waiting, reports, icon>>
    BY <1>6 DEF ToolbarClicks, script_
  <1>7. CASE RecordsDelivered \/ ConfigLoads \/ InjectionEnds
    BY <1>1, <1>7 DEF RecordsDelivered, ConfigLoads, InjectionEnds, tab, script_
  <1>8. ASSUME NEW i \in Images,
               RequestAdvances(i) \/ RequestEnds(i) \/ PageInserts(i) \/ PageRemoves(i)
               \/ PageUnwraps(i) \/ ImageLoads(i) \/ ImageSwaps(i)
        PROVE UNCHANGED <<enabled, waiting, reports, icon>>
    BY <1>8 DEF RequestAdvances, RequestEnds, PageInserts, PageRemoves, PageUnwraps,
                ImageLoads, ImageSwaps, PageEvent, tab
  <1>9. CASE UNCHANGED contentVars
    BY <1>1, <1>9 DEF contentVars, script_, tab
  <1> QED
    BY <1>1, <1>2, <1>3, <1>4, <1>5, <1>6, <1>7, <1>8, <1>9 DEF ContentNext, ScriptReceives

\* content.js reportState and the background page: however clicks, injections,
\* the wait for the configuration and the reports interleave, the icon of a
\* tab with nothing on its way shows whether translation is on.
THEOREM IconAlwaysFollows == ContentSpec => []IconFollows
  <1>1. ContentInit => IconInv
    BY DEF ContentInit, IconInv, Told
  <1>2. ContentInv /\ IconInv => IconFollows
    BY DEF ContentInv, ImageTypes, TabTypes, IconInv, Told, IconFollows
  <1> QED
    BY <1>1, <1>2, ContentInitInv, ContentStepInv, IconStepInv, PTL DEF ContentSpec
-----------------------------------------------------------------------------
(* The requests of /run_pipeline/.                                         *)

PCs == {"new", "waiting", "detect", "recognize", "translate", "answered"}

\* The types of what the invariant speaks of.
CoreTypes ==
    /\ req \in [Tasks -> Requests \cup {None}]
    /\ pc \in [Tasks -> PCs]
    /\ joined \in [Tasks -> Tasks \cup {None}]
    /\ future \in [Tasks -> Tasks \cup {None, Failed}]
    /\ answer \in [Tasks -> Tasks \cup {None, Failed, Refused}]
    /\ inflight \in [Ids -> Tasks \cup {None}]
    /\ cache \in [Pages \X Plans -> Tasks \cup {None}]
    /\ clears \in Nat
    /\ asked \in [Tasks -> Nat]

\* A task past "new" has made its request, and did so before later clears;
\* only a full run comes to translate.
RequestsMade ==
    \A t \in Tasks :
        /\ pc[t] # "new" => req[t] \in Requests /\ asked[t] <= clears
        /\ pc[t] = "translate" => ~req[t].skip

\* A future is resolved once, by its own task, when that task is answered.
FuturesResolved ==
    \A t \in Tasks :
        /\ future[t] \in {None, t, Failed}
        /\ future[t] # None => pc[t] = "answered"

\* A waiter awaits a computation of its own id, that runs or has resolved.
WaitersFit ==
    \A t \in Tasks :
        pc[t] = "waiting" =>
            /\ joined[t] \in Tasks
            /\ joined[t] \in Computing \/ future[joined[t]] # None
            /\ Id(req[joined[t]]) = Id(req[t])

\* Only a task that has made its request is named by an answer or the cache.
NamesAreKnown ==
    /\ \A t \in Tasks : answer[t] \in Tasks => pc[t] = "answered" /\ pc[answer[t]] # "new"
    /\ \A k \in Pages \X Plans : cache[k] # None => pc[cache[k]] # "new"

\* A full run nobody forced.
Plain(t) == ~req[t].force /\ ~req[t].skip

\* The page of a plain run is cached until a clear, so that no plain run of
\* the page begins before one.
PlainRunsAreCached ==
    \A t \in Tasks :
        future[t] = t /\ Plain(t) =>
            /\ asked[t] = clears => cache[Key(req[t])] # None
            /\ \A u \in (Computing \cup {v \in Tasks : future[v] = v}) \ {t} :
                   Plain(u) /\ Key(req[u]) = Key(req[t]) => asked[u] # asked[t]

\* An answer is a result for the id that was asked for.
AnswersHaveTheirId ==
    \A t \in Tasks : answer[t] \in Tasks => Id(req[answer[t]]) = Id(req[t])

PageInv ==
    /\ CoreTypes
    /\ RequestsMade
    /\ RegisteredWhileComputing
    /\ FuturesResolved
    /\ WaitersFit
    /\ AnswersHaveTheirId
    /\ CacheHoldsTranslations
    /\ NamesAreKnown
    /\ PlainRunsAreCached

-----------------------------------------------------------------------------

\* A request names an id and a key.
LEMMA NamesTyped ==
    ASSUME NEW q \in Requests
    PROVE  Id(q) \in Ids /\ Key(q) \in Pages \X Plans
  BY DEF Requests, Ids, Id, Key

\* Nobody has asked when the process starts.
LEMMA PageInitInv == PageInit => PageInv
  <1> SUFFICES ASSUME PageInit PROVE PageInv
    OBVIOUS
  <1>1. CoreTypes
    BY DEF PageInit, CoreTypes, PCs
  <1>2. RegisteredWhileComputing
    BY DEF PageInit, RegisteredWhileComputing, Computing
  <1>3. RequestsMade /\ FuturesResolved /\ WaitersFit
    BY DEF PageInit, RequestsMade, FuturesResolved, WaitersFit
  <1>4. AnswersHaveTheirId /\ CacheHoldsTranslations /\ NamesAreKnown
    BY OutcomesDiffer DEF PageInit, AnswersHaveTheirId, CacheHoldsTranslations, NamesAreKnown
  <1>5. PlainRunsAreCached
    BY OutcomesDiffer DEF PageInit, PlainRunsAreCached
  <1> QED
    BY <1>1, <1>2, <1>3, <1>4, <1>5 DEF PageInv

-----------------------------------------------------------------------------
(* The shapes of a step.                                                   *)

\* A request answered on the spot: what it gets is a fitting result or none.
LEMMA AnswerAtOnceStep ==
    ASSUME PageInv, NEW t \in Tasks, NEW q \in Requests, Asks(t, q),
           NEW out \in Tasks \cup {Failed, Refused}, AnswerAtOnce(t, out),
           out \in Tasks => pc[out] # "new" /\ Id(req[out]) = Id(q)
    PROVE  PageInv'
  <1>1. CoreTypes /\ pc[t] = "new" /\ out # t
    BY DEF PageInv, Asks
  <1>2. /\ req' = [req EXCEPT ![t] = q] /\ asked' = [asked EXCEPT ![t] = clears]
        /\ answer' = [answer EXCEPT ![t] = out]
        /\ pc' = [pc EXCEPT ![t] = "answered"]
        /\ UNCHANGED <<joined, future, inflight, cache, clears>>
    BY DEF Asks, AnswerAtOnce
  <1>3. \A u \in Tasks : u # t => /\ req'[u] = req[u] /\ pc'[u] = pc[u]
                                  /\ asked'[u] = asked[u] /\ answer'[u] = answer[u]
    BY <1>1, <1>2 DEF CoreTypes
  <1>4. /\ req'[t] = q /\ pc'[t] = "answered" /\ asked'[t] = clears /\ answer'[t] = out
        /\ future[t] = None
    BY <1>1, <1>2, OutcomesDiffer DEF CoreTypes, PageInv, FuturesResolved
  <1>5. CoreTypes'
    BY <1>1, <1>2 DEF CoreTypes, PCs
  <1>6. t \notin Computing /\ Computing' = Computing
    BY <1>1, <1>3, <1>4 DEF Computing
  <1>7. RequestsMade'
    BY <1>1, <1>2, <1>3, <1>4 DEF PageInv, RequestsMade, CoreTypes
  <1>8. RegisteredWhileComputing'
    <2>1. \A u \in Computing : Id(req'[u]) = Id(req[u])
      BY <1>3, <1>6 DEF Computing
    <2> QED
      BY <1>2, <1>6, <2>1 DEF PageInv, RegisteredWhileComputing
  <1>9. FuturesResolved'
    BY <1>2, <1>3, <1>4 DEF PageInv, FuturesResolved
  <1>10. WaitersFit'
    <2> SUFFICES ASSUME NEW u \in Tasks, pc'[u] = "waiting"
                 PROVE  /\ joined'[u] \in Tasks
                        /\ joined'[u] \in Computing' \/ future'[joined'[u]] # None
                        /\ Id(req'[joined'[u]]) = Id(req'[u])
      BY DEF WaitersFit
    <2>1. u # t /\ pc[u] = "waiting"
      BY <1>3, <1>4
    <2>2. /\ joined[u] \in Tasks
          /\ joined[u] \in Computing \/ future[joined[u]] # None
          /\ Id(req[joined[u]]) = Id(req[u])
      BY <2>1 DEF PageInv, WaitersFit
    <2>3. joined[u] # t
      BY <1>4, <1>6, <2>2
    <2> QED
      BY <1>2, <1>3, <1>6, <2>1, <2>2, <2>3
  <1>11. NamesAreKnown'
    BY <1>1, <1>2, <1>3, <1>4 DEF PageInv, NamesAreKnown, CoreTypes
  <1>12. AnswersHaveTheirId'
    <2> SUFFICES ASSUME NEW u \in Tasks, answer'[u] \in Tasks
                 PROVE  Id(req'[answer'[u]]) = Id(req'[u])
      BY DEF AnswersHaveTheirId
    <2>1. CASE u = t
      BY <1>1, <1>3, <1>4, <2>1
    <2>2. CASE u # t
      <3>1. answer'[u] = answer[u] /\ req'[u] = req[u] /\ answer[u] # t
        BY <1>1, <1>3, <2>2 DEF PageInv, NamesAreKnown
      <3> QED
        BY <1>3, <3>1 DEF PageInv, AnswersHaveTheirId
    <2> QED
      BY <2>1, <2>2
  <1>13. CacheHoldsTranslations'
    <2> SUFFICES ASSUME NEW k \in Pages \X Plans, cache'[k] # None
                 PROVE  Key(req'[cache'[k]]) = k /\ ~req'[cache'[k]].skip
      BY DEF CacheHoldsTranslations
    <2>1. cache'[k] = cache[k] /\ cache[k] \in Tasks /\ cache[k] # t
      BY <1>1, <1>2 DEF PageInv, NamesAreKnown, CoreTypes
    <2> QED
      BY <1>3, <2>1 DEF PageInv, CacheHoldsTranslations
  <1>14. PlainRunsAreCached'
    <2>1. \A u \in Computing \cup {v \in Tasks : future[v] = v} :
              u # t /\ req'[u] = req[u] /\ asked'[u] = asked[u]
      BY <1>3, <1>4, <1>6, OutcomesDiffer DEF Computing
    <2> QED
      BY <1>2, <1>6, <2>1 DEF PageInv, PlainRunsAreCached, Plain
  <1> QED
    BY <1>5, <1>7, <1>8, <1>9, <1>10, <1>11, <1>12, <1>13, <1>14 DEF PageInv

\* A request joins a computation of its id.
LEMMA JoinStep ==
    ASSUME PageInv, NEW t \in Tasks, NEW q \in Requests, Join(t, q)
    PROVE  PageInv'
  <1>1. CoreTypes /\ pc[t] = "new" /\ Id(q) \in Ids
    BY NamesTyped DEF PageInv, Join, Asks
  <1>2. /\ req' = [req EXCEPT ![t] = q] /\ asked' = [asked EXCEPT ![t] = clears]
        /\ joined' = [joined EXCEPT ![t] = inflight[Id(q)]]
        /\ pc' = [pc EXCEPT ![t] = "waiting"]
        /\ inflight[Id(q)] # None
        /\ UNCHANGED <<future, answer, inflight, cache, clears>>
    BY DEF Join, Asks
  <1>3. \A u \in Tasks : u # t => /\ req'[u] = req[u] /\ pc'[u] = pc[u]
                                  /\ asked'[u] = asked[u] /\ joined'[u] = joined[u]
    BY <1>1, <1>2 DEF CoreTypes
  <1>4. /\ req'[t] = q /\ pc'[t] = "waiting" /\ asked'[t] = clears
        /\ joined'[t] = inflight[Id(q)] /\ future[t] = None
    BY <1>1, <1>2, OutcomesDiffer DEF CoreTypes, PageInv, FuturesResolved
  <1>5. CoreTypes'
    BY <1>1, <1>2 DEF CoreTypes, PCs
  <1>6. t \notin Computing /\ Computing' = Computing
    BY <1>1, <1>3, <1>4 DEF Computing
  <1>7. RequestsMade'
    BY <1>1, <1>2, <1>3, <1>4 DEF PageInv, RequestsMade, CoreTypes
  <1>8. RegisteredWhileComputing'
    <2>1. \A u \in Computing : Id(req'[u]) = Id(req[u])
      BY <1>3, <1>6 DEF Computing
    <2> QED
      BY <1>2, <1>6, <2>1 DEF PageInv, RegisteredWhileComputing
  <1>9. FuturesResolved'
    BY <1>2, <1>3, <1>4 DEF PageInv, FuturesResolved
  <1>10. WaitersFit'
    <2> SUFFICES ASSUME NEW u \in Tasks, pc'[u] = "waiting"
                 PROVE  /\ joined'[u] \in Tasks
                        /\ joined'[u] \in Computing' \/ future'[joined'[u]] # None
                        /\ Id(req'[joined'[u]]) = Id(req'[u])
      BY DEF WaitersFit
    <2>1. CASE u = t
      <3>1. joined'[t] \in Computing /\ Id(req[joined'[t]]) = Id(q)
        BY <1>1, <1>2, <1>4 DEF PageInv, RegisteredWhileComputing
      <3> QED
        BY <1>3, <1>4, <1>6, <2>1, <3>1 DEF Computing
    <2>2. CASE u # t
      <3>1. /\ joined[u] \in Tasks
            /\ joined[u] \in Computing \/ future[joined[u]] # None
            /\ Id(req[joined[u]]) = Id(req[u])
        BY <1>3, <2>2 DEF PageInv, WaitersFit
      <3>2. joined[u] # t
        BY <1>4, <1>6, <3>1
      <3> QED
        BY <1>2, <1>3, <1>6, <2>2, <3>1, <3>2
    <2> QED
      BY <2>1, <2>2
  <1>11. NamesAreKnown'
    BY <1>1, <1>2, <1>3, <1>4 DEF PageInv, NamesAreKnown, CoreTypes
  <1>12. AnswersHaveTheirId'
    BY <1>1, <1>2, <1>3 DEF PageInv, NamesAreKnown, AnswersHaveTheirId
  <1>13. CacheHoldsTranslations'
    BY <1>1, <1>2, <1>3 DEF PageInv, NamesAreKnown, CacheHoldsTranslations, CoreTypes
  <1>14. PlainRunsAreCached'
    <2>1. \A u \in Computing \cup {v \in Tasks : future[v] = v} :
              u # t /\ req'[u] = req[u] /\ asked'[u] = asked[u]
      BY <1>3, <1>4, <1>6, OutcomesDiffer DEF Computing
    <2> QED
      BY <1>2, <1>6, <2>1 DEF PageInv, PlainRunsAreCached, Plain
  <1> QED
    BY <1>5, <1>7, <1>8, <1>9, <1>10, <1>11, <1>12, <1>13, <1>14 DEF PageInv

\* A computation begins: its page, if it is a plain run, is not cached.
LEMMA StartStep ==
    ASSUME PageInv, NEW t \in Tasks, NEW q \in Requests, Start(t, q)
    PROVE  PageInv'
  <1>1. CoreTypes /\ pc[t] = "new" /\ Id(q) \in Ids /\ Key(q) \in Pages \X Plans
    BY NamesTyped DEF PageInv, Start, Asks
  <1>2. /\ req' = [req EXCEPT ![t] = q] /\ asked' = [asked EXCEPT ![t] = clears]
        /\ inflight' = [inflight EXCEPT ![Id(q)] = t]
        /\ pc' = [pc EXCEPT ![t] = "detect"]
        /\ inflight[Id(q)] = None
        /\ UNCHANGED <<joined, future, answer, cache, clears>>
    BY DEF Start, Asks
  <1>3. \A u \in Tasks : u # t => /\ req'[u] = req[u] /\ pc'[u] = pc[u]
                                  /\ asked'[u] = asked[u]
    BY <1>1, <1>2 DEF CoreTypes
  <1>4. /\ req'[t] = q /\ pc'[t] = "detect" /\ asked'[t] = clears /\ future[t] = None
        /\ t # None
    BY <1>1, <1>2, OutcomesDiffer DEF CoreTypes, PageInv, FuturesResolved
  <1>5. CoreTypes'
    BY <1>1, <1>2 DEF CoreTypes, PCs
  <1>6. t \notin Computing /\ Computing' = Computing \cup {t}
    BY <1>1, <1>3, <1>4 DEF Computing
  <1>7. RequestsMade'
    BY <1>1, <1>2, <1>3, <1>4 DEF PageInv, RequestsMade, CoreTypes
  <1>8. RegisteredWhileComputing'
    <2>1. \A u \in Computing : req'[u] = req[u] /\ Id(req[u]) # Id(q)
      BY <1>2, <1>3, <1>6, OutcomesDiffer DEF Computing, PageInv, RegisteredWhileComputing
    <2>2. \A u \in Computing' : inflight'[Id(req'[u])] = u
      <3> SUFFICES ASSUME NEW u \in Computing' PROVE inflight'[Id(req'[u])] = u
        OBVIOUS
      <3>1. CASE u = t
        BY <1>1, <1>2, <1>4, <3>1 DEF CoreTypes
      <3>2. CASE u # t
        <4>1. u \in Computing /\ inflight[Id(req[u])] = u /\ Id(req[u]) \in Ids
          BY <1>6, <3>2, NamesTyped
             DEF PageInv, RegisteredWhileComputing, RequestsMade, Computing
        <4> QED
          BY <1>1, <1>2, <2>1, <4>1 DEF CoreTypes
      <3> QED
        BY <3>1, <3>2
    <2>3. \A id \in Ids : inflight'[id] # None =>
              inflight'[id] \in Computing' /\ Id(req'[inflight'[id]]) = id
      <3> SUFFICES ASSUME NEW id \in Ids, inflight'[id] # None
                   PROVE  inflight'[id] \in Computing' /\ Id(req'[inflight'[id]]) = id
        OBVIOUS
      <3>1. CASE id = Id(q)
        BY <1>1, <1>2, <1>4, <1>6, <3>1 DEF CoreTypes
      <3>2. CASE id # Id(q)
        <4>1. inflight'[id] = inflight[id]
          BY <1>1, <1>2, <3>2 DEF CoreTypes
        <4>2. inflight[id] \in Computing /\ Id(req[inflight[id]]) = id
          BY <4>1 DEF PageInv, RegisteredWhileComputing
        <4> QED
          BY <1>6, <2>1, <4>1, <4>2
      <3> QED
        BY <3>1, <3>2
    <2> QED
      BY <2>2, <2>3 DEF RegisteredWhileComputing
  <1>9. FuturesResolved'
    BY <1>2, <1>3, <1>4 DEF PageInv, FuturesResolved
  <1>10. WaitersFit'
    <2> SUFFICES ASSUME NEW u \in Tasks, pc'[u] = "waiting"
                 PROVE  /\ joined'[u] \in Tasks
                        /\ joined'[u] \in Computing' \/ future'[joined'[u]] # None
                        /\ Id(req'[joined'[u]]) = Id(req'[u])
      BY DEF WaitersFit
    <2>1. u # t
      BY <1>4
    <2>2. /\ joined[u] \in Tasks
          /\ joined[u] \in Computing \/ future[joined[u]] # None
          /\ Id(req[joined[u]]) = Id(req[u])
      BY <1>3, <2>1 DEF PageInv, WaitersFit
    <2>3. joined[u] # t
      BY <1>4, <1>6, <2>2
    <2> QED
      BY <1>2, <1>3, <1>6, <2>1, <2>2, <2>3
  <1>11. NamesAreKnown'
    BY <1>1, <1>2, <1>3, <1>4 DEF PageInv, NamesAreKnown, CoreTypes
  <1>12. AnswersHaveTheirId'
    BY <1>1, <1>2, <1>3 DEF PageInv, NamesAreKnown, AnswersHaveTheirId
  <1>13. CacheHoldsTranslations'
    BY <1>1, <1>2, <1>3 DEF PageInv, NamesAreKnown, CacheHoldsTranslations, CoreTypes
  <1>14. PlainRunsAreCached'
    <2> SUFFICES ASSUME NEW u \in Tasks, future[u] = u, Plain(u)'
                 PROVE  /\ asked'[u] = clears => cache[Key(req'[u])] # None
                        /\ \A v \in (Computing' \cup {w \in Tasks : future[w] = w}) \ {u} :
                               Plain(v)' /\ Key(req'[v]) = Key(req'[u])
                                   => asked'[v] # asked'[u]
      BY <1>2 DEF PlainRunsAreCached
    <2>1. u # t /\ req'[u] = req[u] /\ asked'[u] = asked[u] /\ Plain(u)
      BY <1>3, <1>4 DEF Plain
    <2>2. asked[u] = clears => cache[Key(req[u])] # None
      BY <2>1 DEF PageInv, PlainRunsAreCached
    <2>3. ASSUME Plain(t)', Key(req'[t]) = Key(req'[u]) PROVE asked'[t] # asked'[u]
      <3>1. cache[Key(q)] = None
        BY <1>4, <2>3 DEF Start, HitsCache, Plain
      <3> QED
        BY <1>4, <2>1, <2>2, <2>3, <3>1
    <2>4. ASSUME NEW v \in (Computing \cup {w \in Tasks : future[w] = w}) \ {u},
                 Plain(v)', Key(req'[v]) = Key(req'[u])
          PROVE  asked'[v] # asked'[u]
      <3>1. v # t /\ v \in Tasks
        BY <1>4, <1>6 DEF Computing
      <3>2. req'[v] = req[v] /\ asked'[v] = asked[v]
        BY <1>3, <3>1
      <3> QED
        BY <2>1, <2>4, <3>2 DEF PageInv, PlainRunsAreCached, Plain
    <2> QED
      BY <1>6, <2>1, <2>2, <2>3, <2>4
  <1> QED
    BY <1>5, <1>7, <1>8, <1>9, <1>10, <1>11, <1>12, <1>13, <1>14 DEF PageInv

\* t's result is stored under its key.
Stored(t) == cache' = [cache EXCEPT ![Key(req[t])] = t]

\* A computation ends: a full run that succeeds has stored its page.
LEMMA ResolveStep ==
    ASSUME PageInv, NEW t \in Computing, NEW out \in {t, Failed}, Resolve(t, out),
           UNCHANGED <<req, joined, clears, asked>>,
           UNCHANGED cache \/ (~req[t].skip /\ Stored(t)),
           out = t /\ ~req[t].skip => Stored(t)
    PROVE  PageInv'
  <1>1. /\ CoreTypes /\ t \in Tasks /\ t # None /\ t # Failed /\ Failed # None
        /\ pc[t] \in {"detect", "recognize", "translate"}
    BY OutcomesDiffer DEF PageInv, Computing
  <1>2. /\ req[t] \in Requests /\ Id(req[t]) \in Ids /\ Key(req[t]) \in Pages \X Plans
        /\ inflight[Id(req[t])] = t /\ future[t] = None
    BY <1>1, NamesTyped
       DEF PageInv, RequestsMade, RegisteredWhileComputing, FuturesResolved
  <1>3. /\ future' = [future EXCEPT ![t] = out]
        /\ inflight' = [inflight EXCEPT ![Id(req[t])] = None]
        /\ answer' = [answer EXCEPT ![t] = out]
        /\ pc' = [pc EXCEPT ![t] = "answered"]
        /\ UNCHANGED <<req, joined, clears, asked>>
    BY DEF Resolve
  <1>4. \A u \in Tasks : u # t => /\ pc'[u] = pc[u] /\ future'[u] = future[u]
                                  /\ answer'[u] = answer[u]
    BY <1>1, <1>3 DEF CoreTypes
  <1>5. pc'[t] = "answered" /\ future'[t] = out /\ answer'[t] = out /\ out # None
    BY <1>1, <1>3 DEF CoreTypes
  <1>6. \A k \in Pages \X Plans :
            \/ cache'[k] = cache[k]
            \/ k = Key(req[t]) /\ ~req[t].skip /\ cache'[k] = t
    BY <1>1, <1>2 DEF Stored, CoreTypes
  <1>7. CoreTypes'
    <2>1. cache' \in [Pages \X Plans -> Tasks \cup {None}]
      BY <1>1, <1>2 DEF Stored, CoreTypes
    <2> QED
      BY <1>1, <1>2, <1>3, <2>1 DEF CoreTypes, PCs
  <1>8. Computing' = Computing \ {t}
    BY <1>1, <1>4, <1>5 DEF Computing
  <1>9. RequestsMade'
    BY <1>1, <1>2, <1>3, <1>4 DEF PageInv, RequestsMade, Computing
  <1>10. RegisteredWhileComputing'
    <2>1. \A u \in Computing' : inflight'[Id(req'[u])] = u
      <3> SUFFICES ASSUME NEW u \in Computing' PROVE inflight'[Id(req[u])] = u
        BY <1>3
      <3>1. u \in Computing /\ u # t /\ inflight[Id(req[u])] = u /\ Id(req[u]) \in Ids
        BY <1>8, NamesTyped DEF PageInv, RegisteredWhileComputing, RequestsMade, Computing
      <3> QED
        BY <1>1, <1>2, <1>3, <3>1 DEF CoreTypes
    <2>2. ASSUME NEW id \in Ids, inflight'[id] # None
          PROVE  inflight'[id] \in Computing' /\ Id(req'[inflight'[id]]) = id
      <3>1. id # Id(req[t]) /\ inflight'[id] = inflight[id]
        BY <1>1, <1>3, <2>2 DEF CoreTypes
      <3>2. inflight[id] \in Computing /\ Id(req[inflight[id]]) = id
        BY <2>2, <3>1 DEF PageInv, RegisteredWhileComputing
      <3> QED
        BY <1>3, <1>8, <3>1, <3>2
    <2> QED
      BY <2>1, <2>2 DEF RegisteredWhileComputing
  <1>11. FuturesResolved'
    BY <1>4, <1>5 DEF PageInv, FuturesResolved
  <1>12. WaitersFit'
    <2> SUFFICES ASSUME NEW u \in Tasks, pc'[u] = "waiting"
                 PROVE  /\ joined[u] \in Tasks
                        /\ joined[u] \in Computing' \/ future'[joined[u]] # None
                        /\ Id(req[joined[u]]) = Id(req[u])
      BY <1>3 DEF WaitersFit
    <2>1. pc[u] = "waiting"
      BY <1>4, <1>5
    <2>2. /\ joined[u] \in Tasks
          /\ joined[u] \in Computing \/ future[joined[u]] # None
          /\ Id(req[joined[u]]) = Id(req[u])
      BY <2>1 DEF PageInv, WaitersFit
    <2> QED
      BY <1>4, <1>5, <1>8, <2>2
  <1>13. NamesAreKnown'
    <2>1. ASSUME NEW u \in Tasks, answer'[u] \in Tasks
          PROVE  pc'[u] = "answered" /\ pc'[answer'[u]] # "new"
      <3>1. CASE u = t
        BY <1>5, <2>1, <3>1, OutcomesDiffer
      <3>2. CASE u # t
        BY <1>4, <1>5, <2>1, <3>2 DEF PageInv, NamesAreKnown
      <3> QED
        BY <3>1, <3>2
    <2>2. ASSUME NEW k \in Pages \X Plans, cache'[k] # None PROVE pc'[cache'[k]] # "new"
      BY <1>1, <1>4, <1>5, <1>6, <2>2 DEF PageInv, NamesAreKnown, CoreTypes
    <2> QED
      BY <2>1, <2>2 DEF NamesAreKnown
  <1>14. AnswersHaveTheirId'
    <2> SUFFICES ASSUME NEW u \in Tasks, answer'[u] \in Tasks
                 PROVE  Id(req[answer'[u]]) = Id(req[u])
      BY <1>3 DEF AnswersHaveTheirId
    <2>1. CASE u = t
      BY <1>5, <2>1, OutcomesDiffer
    <2>2. CASE u # t
      BY <1>4, <2>2 DEF PageInv, AnswersHaveTheirId
    <2> QED
      BY <2>1, <2>2
  <1>15. CacheHoldsTranslations'
    BY <1>3, <1>6 DEF PageInv, CacheHoldsTranslations
  <1>16. PlainRunsAreCached'
    <2> SUFFICES ASSUME NEW u \in Tasks, future'[u] = u, Plain(u)
                 PROVE  /\ asked[u] = clears => cache'[Key(req[u])] # None
                        /\ \A v \in (Computing' \cup {w \in Tasks : future'[w] = w}) \ {u} :
                               Plain(v) /\ Key(req[v]) = Key(req[u])
                                   => asked[v] # asked[u]
      BY <1>3 DEF PlainRunsAreCached, Plain
    <2>1. asked[u] = clears => cache'[Key(req[u])] # None
      <3>1. CASE u = t
        BY <1>1, <1>2, <1>5, <3>1 DEF Stored, Plain, CoreTypes
      <3>2. CASE u # t
        <4>1. future[u] = u /\ (asked[u] = clears => cache[Key(req[u])] # None)
          BY <1>4, <3>2 DEF PageInv, PlainRunsAreCached
        <4>2. Key(req[u]) \in Pages \X Plans
          BY <4>1, OutcomesDiffer, NamesTyped DEF PageInv, FuturesResolved, RequestsMade
        <4> QED
          BY <1>1, <1>6, <4>1, <4>2
      <3> QED
        BY <3>1, <3>2
    <2>2. ASSUME NEW v \in (Computing' \cup {w \in Tasks : future'[w] = w}) \ {u},
                 Plain(v), Key(req[v]) = Key(req[u])
          PROVE  asked[v] # asked[u]
      <3>1. v \in Tasks
        BY DEF Computing
      <3>2. v \in Computing \cup {w \in Tasks : future[w] = w}
        BY <1>4, <1>8, <3>1
      <3>3. CASE u # t
        <4>1. future[u] = u
          BY <1>4, <3>3
        <4> QED
          BY <2>2, <3>2, <4>1 DEF PageInv, PlainRunsAreCached
      <3>4. CASE u = t
        <4>1. Id(req[v]) = Id(req[t])
          <5>1. ~req[v].skip /\ ~req[t].skip
            BY <2>2, <3>4 DEF Plain
          <5>2. req[v].skip = FALSE /\ req[t].skip = FALSE
            <6>1. req[v] \in Requests
              BY <3>1, <3>2, OutcomesDiffer
                 DEF PageInv, RequestsMade, Computing, FuturesResolved
            <6> QED
              BY <1>2, <5>1, <6>1 DEF Requests
          <5> QED
            BY <2>2, <3>4, <5>2 DEF Id, Key
        <4>2. v \notin Computing
          BY <1>2, <2>2, <3>4, <4>1 DEF PageInv, RegisteredWhileComputing
        <4>3. future[v] = v
          BY <3>2, <4>2
        <4> QED
          BY <1>1, <2>2, <3>1, <3>4, <4>3 DEF PageInv, PlainRunsAreCached
      <3> QED
        BY <3>3, <3>4
    <2> QED
      BY <2>1, <2>2
  <1> QED
    BY <1>7, <1>9, <1>10, <1>11, <1>12, <1>13, <1>14, <1>15, <1>16 DEF PageInv

\* A computation goes on to its next stage.
LEMMA MoveStep ==
    ASSUME PageInv, NEW t \in Computing,
           NEW stage \in {"recognize", "translate"}, pc' = [pc EXCEPT ![t] = stage],
           stage = "translate" => ~req[t].skip,
           UNCHANGED <<req, joined, future, answer, inflight, cache, clears, asked>>
    PROVE  PageInv'
  <1>1. CoreTypes /\ t \in Tasks
    BY DEF PageInv, Computing
  <1>2. Computing' = Computing
    BY <1>1 DEF Computing, CoreTypes
  <1>3. \A u \in Tasks : /\ pc'[u] = "new" <=> pc[u] = "new"
                         /\ pc'[u] = "answered" <=> pc[u] = "answered"
                         /\ pc'[u] = "waiting" <=> pc[u] = "waiting"
    BY <1>1 DEF Computing, CoreTypes
  <1>4. CoreTypes'
    BY <1>1 DEF CoreTypes, PCs
  <1>5. RequestsMade'
    BY <1>1, <1>3 DEF PageInv, RequestsMade, CoreTypes
  <1>6. RegisteredWhileComputing' /\ AnswersHaveTheirId' /\ CacheHoldsTranslations'
    BY <1>2 DEF PageInv, RegisteredWhileComputing, AnswersHaveTheirId, CacheHoldsTranslations
  <1>7. NamesAreKnown'
    BY <1>1, <1>3 DEF PageInv, NamesAreKnown, CoreTypes
  <1>8. PlainRunsAreCached'
    BY <1>2 DEF PageInv, PlainRunsAreCached, Plain
  <1>9. FuturesResolved' /\ WaitersFit'
    BY <1>2, <1>3 DEF PageInv, FuturesResolved, WaitersFit
  <1> QED
    BY <1>4, <1>5, <1>6, <1>7, <1>8, <1>9 DEF PageInv

\* A waiter is answered by the computation it awaited, which is of its id.
LEMMA WakeStep ==
    ASSUME PageInv, NEW t \in Tasks, WaiterWakes(t)
    PROVE  PageInv'
  <1>1. /\ CoreTypes /\ pc[t] = "waiting"
        /\ joined[t] \in Tasks /\ Id(req[joined[t]]) = Id(req[t])
        /\ future[joined[t]] \in {joined[t], Failed} /\ pc[joined[t]] = "answered"
    BY DEF PageInv, WaiterWakes, WaitersFit, FuturesResolved
  <1>2. /\ answer' = [answer EXCEPT ![t] = future[joined[t]]]
        /\ pc' = [pc EXCEPT ![t] = "answered"]
        /\ UNCHANGED <<req, joined, future, inflight, cache, clears, asked>>
    BY DEF WaiterWakes, adminVars
  <1>3. \A u \in Tasks : u # t => pc'[u] = pc[u] /\ answer'[u] = answer[u]
    BY <1>1, <1>2 DEF CoreTypes
  <1>4. pc'[t] = "answered" /\ answer'[t] = future[joined[t]]
    BY <1>1, <1>2 DEF CoreTypes
  <1>5. Computing' = Computing
    BY <1>1, <1>3, <1>4 DEF Computing
  <1>6. CoreTypes'
    BY <1>1, <1>2 DEF CoreTypes, PCs
  <1>7. RequestsMade' /\ FuturesResolved' /\ WaitersFit'
    BY <1>1, <1>2, <1>3, <1>4, <1>5
       DEF PageInv, RequestsMade, FuturesResolved, WaitersFit
  <1>8. RegisteredWhileComputing' /\ CacheHoldsTranslations'
    BY <1>2, <1>5 DEF PageInv, RegisteredWhileComputing, CacheHoldsTranslations
  <1>9. AnswersHaveTheirId'
    BY <1>1, <1>2, <1>3, <1>4, OutcomesDiffer DEF PageInv, AnswersHaveTheirId
  <1>10. NamesAreKnown'
    BY <1>1, <1>2, <1>3, <1>4, OutcomesDiffer DEF PageInv, NamesAreKnown, CoreTypes
  <1>11. PlainRunsAreCached'
    BY <1>2, <1>5 DEF PageInv, PlainRunsAreCached, Plain
  <1> QED
    BY <1>6, <1>7, <1>8, <1>9, <1>10, <1>11 DEF PageInv

\* The cache is cleared: whoever asks from now on asks later than anyone.
LEMMA ClearStep ==
    ASSUME PageInv, ClearCache
    PROVE  PageInv'
  <1>1. CoreTypes /\ clears \in Nat
    BY DEF PageInv, CoreTypes
  <1>2. /\ clears' = clears + 1 /\ cache' = [k \in Pages \X Plans |-> None]
        /\ UNCHANGED <<req, pc, joined, future, answer, inflight, asked>>
    BY <1>1 DEF ClearCache, CoreTypes
  <1>3. Computing' = Computing
    BY <1>2 DEF Computing
  <1>4. CoreTypes'
    BY <1>1, <1>2 DEF CoreTypes
  <1>5. RequestsMade'
    BY <1>1, <1>2 DEF PageInv, RequestsMade, CoreTypes
  <1>6. RegisteredWhileComputing' /\ FuturesResolved' /\ WaitersFit' /\ AnswersHaveTheirId'
    BY <1>2, <1>3
       DEF PageInv, RegisteredWhileComputing, FuturesResolved, WaitersFit, AnswersHaveTheirId
  <1>7. CacheHoldsTranslations' /\ NamesAreKnown'
    BY <1>2 DEF PageInv, CacheHoldsTranslations, NamesAreKnown
  <1>8. PlainRunsAreCached'
    <2> SUFFICES ASSUME NEW u \in Tasks, future[u] = u, Plain(u)
                 PROVE  /\ asked[u] # clears + 1
                        /\ \A v \in (Computing \cup {w \in Tasks : future[w] = w}) \ {u} :
                               Plain(v) /\ Key(req[v]) = Key(req[u])
                                   => asked[v] # asked[u]
      BY <1>2, <1>3 DEF PlainRunsAreCached, Plain
    <2>1. asked[u] <= clears /\ asked[u] \in Nat
      BY <1>1, OutcomesDiffer DEF PageInv, RequestsMade, FuturesResolved, CoreTypes
    <2> QED
      BY <1>1, <2>1 DEF PageInv, PlainRunsAreCached
  <1> QED
    BY <1>4, <1>5, <1>6, <1>7, <1>8 DEF PageInv

\* Steps that touch neither requests nor the cache.
LEMMA UnseenStep ==
    ASSUME PageInv,
           UNCHANGED <<req, pc, joined, future, answer, inflight, cache, clears, asked>>
    PROVE  PageInv'
  BY DEF PageInv, CoreTypes, RequestsMade, RegisteredWhileComputing, FuturesResolved,
         WaitersFit, AnswersHaveTheirId, CacheHoldsTranslations, NamesAreKnown,
         PlainRunsAreCached, Plain, Computing

-----------------------------------------------------------------------------

\* Every step has one of the shapes above.
LEMMA PageStep ==
    ASSUME PageInv, [PageNext]_pageVars
    PROVE  PageInv'
  <1> USE DEF semVars, statVars, adminVars
  <1>1. ASSUME NEW t \in Tasks, NEW q \in Requests, ServeCached(t, q)
        PROVE  PageInv'
    <2>1. Key(q) \in Pages \X Plans /\ cache[Key(q)] # None /\ ~q.skip
      BY <1>1, NamesTyped DEF ServeCached, HitsCache
    <2>2. /\ cache[Key(q)] \in Tasks /\ pc[cache[Key(q)]] # "new"
          /\ Key(req[cache[Key(q)]]) = Key(q) /\ ~req[cache[Key(q)]].skip
          /\ req[cache[Key(q)]] \in Requests
      BY <2>1 DEF PageInv, CoreTypes, NamesAreKnown, CacheHoldsTranslations, RequestsMade
    <2>3. req[cache[Key(q)]].skip = q.skip
      BY <2>1, <2>2 DEF Requests
    <2>4. Id(req[cache[Key(q)]]) = Id(q)
      BY <2>2, <2>3 DEF Id, Key
    <2> QED
      BY <1>1, <2>2, <2>4, AnswerAtOnceStep DEF ServeCached
  <1>2. ASSUME NEW t \in Tasks, NEW q \in Requests, Refuse(t, q) \/ FailToDecode(t, q)
        PROVE  PageInv'
    BY <1>2, AnswerAtOnceStep, OutcomesDiffer DEF Refuse, FailToDecode
  <1>3. ASSUME NEW t \in Tasks, NEW q \in Requests, Join(t, q) \/ Start(t, q)
        PROVE  PageInv'
    BY <1>3, JoinStep, StartStep
  <1>4. ASSUME NEW t \in Tasks, DetectReturns(t) \/ RecognizeReturns(t)
        PROVE  PageInv'
    BY <1>4, MoveStep DEF DetectReturns, RecognizeReturns, Computing
  <1>5. ASSUME NEW t \in Tasks, StageFails(t) \/ TranslateFails(t)
        PROVE  PageInv'
    <2>1. /\ t \in Computing /\ Resolve(t, Failed) /\ Failed # t
          /\ UNCHANGED <<req, joined, clears, asked>> /\ UNCHANGED cache
      BY <1>5, OutcomesDiffer DEF StageFails, TranslateFails, Computing
    <2> QED
      BY <2>1, ResolveStep
  <1>6. ASSUME NEW t \in Tasks, RecognizeOnlyReturns(t)
        PROVE  PageInv'
    <2>1. /\ t \in Computing /\ (Resolve(t, t) \/ Resolve(t, Failed)) /\ req[t].skip
          /\ UNCHANGED <<req, joined, clears, asked>> /\ UNCHANGED cache
      BY <1>6 DEF RecognizeOnlyReturns, Computing
    <2> QED
      BY <2>1, ResolveStep
  <1>7. ASSUME NEW t \in Tasks, TranslateReturns(t)
        PROVE  PageInv'
    <2>1. /\ t \in Computing /\ (Resolve(t, t) \/ Resolve(t, Failed))
          /\ UNCHANGED <<req, joined, clears, asked>> /\ Stored(t)
      BY <1>7 DEF TranslateReturns, Computing, Stored
    <2>2. ~req[t].skip
      BY <1>7 DEF TranslateReturns, PageInv, RequestsMade
    <2> QED
      BY <2>1, <2>2, ResolveStep
  <1>8. ASSUME NEW t \in Tasks, WaiterWakes(t) PROVE PageInv'
    BY <1>8, WakeStep
  <1>9. CASE ClearCache
    BY <1>9, ClearStep
  <1>10. CASE ClearStats \/ (\E n \in Settings : SetTranslateConcurrency(n))
    BY <1>10, UnseenStep DEF ClearStats, SetTranslateConcurrency
  <1>11. CASE AllAnswered \/ UNCHANGED pageVars
    BY <1>11, UnseenStep DEF AllAnswered, pageVars
  <1> QED
    BY <1>1, <1>2, <1>3, <1>4, <1>5, <1>6, <1>7, <1>8, <1>9, <1>10, <1>11
       DEF PageNext, Request, Proceed

\* The inductive invariant holds in every reachable state.
THEOREM PageInvariant == PageSpec => []PageInv
  <1>1. PageInit => PageInv
    BY PageInitInv
  <1>2. PageInv /\ [PageNext]_pageVars => PageInv'
    BY PageStep
  <1> QED
    BY <1>1, <1>2, PTL DEF PageSpec

\* state.inflight names exactly the computations that run: each is joined
\* while it runs and released when it ends, by a result or an exception.
THEOREM InflightIsComputing == PageSpec => []RegisteredWhileComputing
  <1>1. PageInv => RegisteredWhileComputing
    BY DEF PageInv
  <1> QED
    BY <1>1, PageInvariant, PTL

\* Whatever run_pipeline answers with was computed for the image, the plan and
\* the mode that were asked for.
THEOREM AnswersAreForTheRequest == PageSpec => []AnswersFit
  <1>1. PageInv => AnswersFit
    BY DEF PageInv, AnswersHaveTheirId, AnswersFit, Id
  <1> QED
    BY <1>1, PageInvariant, PTL

\* page_runs holds translated results only, each under its own key.
THEOREM CacheIsTranslated == PageSpec => []CacheHoldsTranslations
  <1>1. PageInv => CacheHoldsTranslations
    BY DEF PageInv
  <1> QED
    BY <1>1, PageInvariant, PTL

\* Between two clears of the cache no page is computed twice for requests
\* that do not force it.
THEOREM PagesAreComputedOnce == PageSpec => []ComputedOnce
  <1>1. PageInv => ComputedOnce
    <2> SUFFICES ASSUME PageInv,
                        NEW t \in Tasks, future[t] = t, ~req[t].force, ~req[t].skip,
                        NEW u \in Tasks, future[u] = u, ~req[u].force, ~req[u].skip,
                        t # u, Key(req[t]) = Key(req[u])
                 PROVE  asked[t] # asked[u]
      BY DEF ComputedOnce
    <2> QED
      BY DEF PageInv, PlainRunsAreCached, Plain
  <1> QED
    BY <1>1, PageInvariant, PTL

-----------------------------------------------------------------------------
(* The coroutines implement PageService.                                   *)

\* A task asks for nothing before its request, and has no answer until it is
\* answered.
NothingEarly ==
    \A t \in Tasks :
        /\ pc[t] = "new" => req[t] = None
        /\ pc[t] # "answered" => answer[t] = None

\* Every step either leaves a task as it was, makes its request, or answers it.
LEMMA NothingEarlyStep ==
    ASSUME PageInv, NothingEarly, [PageNext]_pageVars
    PROVE  NothingEarly'
  <1> USE DEF semVars, statVars, adminVars
  <1>1. CoreTypes
    BY DEF PageInv
  <1>2. ASSUME NEW t \in Tasks, NEW q \in Requests,
               req' = [req EXCEPT ![t] = q],
               \/ pc' = [pc EXCEPT ![t] = "answered"] /\ (\E out : answer' = [answer EXCEPT ![t] = out])
               \/ (\E s \in {"waiting", "detect"} : pc' = [pc EXCEPT ![t] = s]) /\ answer' = answer,
               pc[t] = "new"
        PROVE  NothingEarly'
    BY <1>1, <1>2 DEF NothingEarly, CoreTypes
  <1>3. ASSUME NEW t \in Tasks, NEW q \in Requests,
               ServeCached(t, q) \/ Refuse(t, q) \/ Join(t, q) \/ FailToDecode(t, q) \/ Start(t, q)
        PROVE  NothingEarly'
    BY <1>2, <1>3 DEF ServeCached, Refuse, Join, FailToDecode, Start, Asks, AnswerAtOnce
  <1>4. ASSUME NEW t \in Tasks, DetectReturns(t) \/ RecognizeReturns(t)
        PROVE  NothingEarly'
    BY <1>1, <1>4 DEF DetectReturns, RecognizeReturns, NothingEarly, CoreTypes
  <1>5. ASSUME NEW t \in Tasks, req' = req, pc' = [pc EXCEPT ![t] = "answered"],
               \E out : answer' = [answer EXCEPT ![t] = out], pc[t] # "new"
        PROVE  NothingEarly'
    BY <1>1, <1>5 DEF NothingEarly, CoreTypes
  <1>6. ASSUME NEW t \in Tasks,
               StageFails(t) \/ RecognizeOnlyReturns(t) \/ TranslateFails(t)
                 \/ TranslateReturns(t) \/ WaiterWakes(t)
        PROVE  NothingEarly'
    BY <1>5, <1>6 DEF StageFails, RecognizeOnlyReturns, TranslateFails, TranslateReturns,
                      WaiterWakes, Resolve
  <1>7. ASSUME UNCHANGED <<req, pc, answer>> PROVE NothingEarly'
    BY <1>7 DEF NothingEarly
  <1>8. CASE \/ ClearCache \/ ClearStats \/ AllAnswered \/ UNCHANGED pageVars
             \/ \E n \in Settings : SetTranslateConcurrency(n)
    BY <1>7, <1>8 DEF ClearCache, ClearStats, AllAnswered, SetTranslateConcurrency, pageVars
  <1> QED
    BY <1>3, <1>4, <1>6, <1>8 DEF PageNext, Request, Proceed

THEOREM NothingIsEarly == PageSpec => []NothingEarly
  <1>1. PageInit => NothingEarly
    BY DEF PageInit, NothingEarly
  <1> QED
    BY <1>1, NothingEarlyStep, PageInvariant, PTL DEF PageSpec

\* The in-flight map finds the computation PageService looks for.
LEMMA InflightNamesRivals ==
    ASSUME RegisteredWhileComputing, NEW q \in Requests
    PROVE  Service!Rivals(q) = {inflight[Id(q)]} \ {None}
  <1>1. Service!Rivals(q) = {u \in Computing : Id(req[u]) = Id(q)}
    BY DEF Service!Rivals, Id
  <1>2. Id(q) \in Ids
    BY NamesTyped
  <1>3. \A u \in Computing : u # None
    BY OutcomesDiffer DEF Computing
  <1> QED
    BY <1>1, <1>2, <1>3 DEF RegisteredWhileComputing

\* Nobody computes or waits when the process starts.
LEMMA ServiceStarts == PageInit => Service!ServiceInit
  BY DEF PageInit, Service!ServiceInit, Computing

\* A request is served, declined, begun or made to wait.
LEMMA RequestIsService ==
    ASSUME PageInv, NothingEarly, NEW t \in Tasks, Request(t)
    PROVE  Service!ServiceNext
  <1> USE DEF semVars, statVars
  <1>1. PICK q \in Requests : \/ ServeCached(t, q) \/ Refuse(t, q) \/ Join(t, q)
                              \/ FailToDecode(t, q) \/ Start(t, q)
    BY DEF Request
  <1>2. CoreTypes /\ q \in Service!Requests
    BY DEF PageInv, Requests, Service!Requests
  <1>3. pc[t] = "new" /\ Service!Asks(t, q)
    BY <1>1 DEF ServeCached, Refuse, Join, FailToDecode, Start, Asks, NothingEarly, Service!Asks
  <1>4. HitsCache(q) <=> Service!Stored(q)
    BY DEF HitsCache, Service!Stored, Key, Service!Key
  <1>5. Service!Rivals(q) = {inflight[Id(q)]} \ {None}
    BY InflightNamesRivals DEF PageInv
  <1>6. ASSUME NEW out, AnswerAtOnce(t, out)
        PROVE  UNCHANGED <<Computing, joined, future, cache>>
    BY <1>2, <1>3, <1>6 DEF AnswerAtOnce, Computing, CoreTypes
  <1>7. CASE ServeCached(t, q)
    <2>1. Service!Serve(t, q)
      BY <1>3, <1>4, <1>6, <1>7 DEF ServeCached, AnswerAtOnce, Service!Serve, Key, Service!Key
    <2> QED
      BY <1>2, <2>1 DEF Service!ServiceNext
  <1>8. CASE Refuse(t, q) \/ FailToDecode(t, q)
    <2>1. Service!Decline(t, q)
      BY <1>3, <1>4, <1>6, <1>8 DEF Refuse, FailToDecode, AnswerAtOnce, Service!Decline
    <2> QED
      BY <1>2, <2>1 DEF Service!ServiceNext
  <1>9. CASE Join(t, q)
    <2>1. Computing' = Computing
      BY <1>2, <1>3, <1>9 DEF Join, Computing, CoreTypes
    <2>2. Service!Wait(t, q)
      BY <1>3, <1>4, <1>5, <1>9, <2>1 DEF Join, Service!Wait
    <2> QED
      BY <1>2, <2>2 DEF Service!ServiceNext
  <1>10. CASE Start(t, q)
    <2>1. Computing' = Computing \cup {t}
      BY <1>2, <1>3, <1>10 DEF Start, Computing, CoreTypes
    <2>2. Service!Begin(t, q)
      BY <1>3, <1>4, <1>5, <1>10, <2>1 DEF Start, Service!Begin
    <2> QED
      BY <1>2, <2>2 DEF Service!ServiceNext
  <1> QED
    BY <1>1, <1>7, <1>8, <1>9, <1>10

\* A computation resolved, stored or not, is a page finished.
LEMMA ResolveIsFinish ==
    ASSUME PageInv, NEW t \in Computing, NEW out \in {t, Failed}, Resolve(t, out),
           UNCHANGED <<req, joined>>,
           \/ ~req[t].skip /\ cache' = [cache EXCEPT ![Key(req[t])] = t]
           \/ (req[t].skip \/ out = Failed) /\ UNCHANGED cache
    PROVE  Service!ServiceNext
  <1>1. CoreTypes /\ t \in Tasks
    BY DEF PageInv, Computing
  <1>2. Computing' = Computing \ {t}
    BY <1>1 DEF Resolve, Computing, CoreTypes
  <1>3. \/ ~req[t].skip /\ Service!Keep(t)
        \/ (req[t].skip \/ out = Failed) /\ UNCHANGED cache
    BY DEF Service!Keep, Key, Service!Key
  <1>4. Service!Finish(t)
    BY <1>2, <1>3 DEF Resolve, Service!Finish
  <1> QED
    BY <1>1, <1>4 DEF Service!ServiceNext

\* What a computation or a waiter does next is a step of the service, or is
\* hidden from it.
LEMMA ProceedIsService ==
    ASSUME PageInv, NothingEarly, NEW t \in Tasks, Proceed(t)
    PROVE  [Service!ServiceNext]_Service!serviceVars
  <1> USE DEF semVars, statVars, adminVars
  <1>1. CoreTypes
    BY DEF PageInv
  <1>2. CASE DetectReturns(t) \/ RecognizeReturns(t)
    <2>1. UNCHANGED Computing
      BY <1>1, <1>2 DEF DetectReturns, RecognizeReturns, Computing, CoreTypes
    <2> QED
      BY <1>2, <2>1 DEF DetectReturns, RecognizeReturns, Service!serviceVars
  <1>3. CASE StageFails(t) \/ TranslateFails(t)
    <2>1. t \in Computing /\ Resolve(t, Failed) /\ UNCHANGED <<req, joined>> /\ UNCHANGED cache
      BY <1>3 DEF StageFails, TranslateFails, Computing
    <2> QED
      BY <2>1, ResolveIsFinish
  <1>4. CASE RecognizeOnlyReturns(t)
    <2>1. /\ t \in Computing /\ (\E out \in {t, Failed} : Resolve(t, out)) /\ req[t].skip
          /\ UNCHANGED <<req, joined>> /\ UNCHANGED cache
      BY <1>4 DEF RecognizeOnlyReturns, Computing
    <2> QED
      BY <2>1, ResolveIsFinish
  <1>5. CASE TranslateReturns(t)
    <2>1. /\ t \in Computing /\ (\E out \in {t, Failed} : Resolve(t, out))
          /\ UNCHANGED <<req, joined>> /\ cache' = [cache EXCEPT ![Key(req[t])] = t]
      BY <1>5 DEF TranslateReturns, Computing
    <2>2. ~req[t].skip
      BY <1>5 DEF TranslateReturns, PageInv, RequestsMade
    <2> QED
      BY <2>1, <2>2, ResolveIsFinish
  <1>6. CASE WaiterWakes(t)
    <2>1. UNCHANGED Computing
      BY <1>1, <1>6 DEF WaiterWakes, Computing, CoreTypes
    <2>2. joined[t] # None /\ answer[t] = None
      BY <1>6, OutcomesDiffer DEF WaiterWakes, PageInv, WaitersFit, NothingEarly
    <2>3. Service!Share(t)
      BY <1>6, <2>1, <2>2 DEF WaiterWakes, Service!Share
    <2> QED
      BY <2>3 DEF Service!ServiceNext
  <1> QED
    BY <1>2, <1>3, <1>4, <1>5, <1>6 DEF Proceed

\* To its callers /run_pipeline/ is the service of PageService: the stages, the
\* semaphores, the in-flight map and the admin's threads leave no other trace.
THEOREM PagesAreServed == PageSpec => ImplementsPageService
  <1> USE DEF semVars, statVars, adminVars
  <1>1. ASSUME PageInv, NothingEarly, [PageNext]_pageVars
        PROVE  [Service!ServiceNext]_Service!serviceVars
    <2>1. ASSUME NEW t \in Tasks, Request(t) \/ Proceed(t)
          PROVE  [Service!ServiceNext]_Service!serviceVars
      BY <1>1, <2>1, RequestIsService, ProceedIsService
    <2>2. CASE ClearCache
      <3>1. cache' = [k \in Pages \X Plans |-> None] /\ UNCHANGED Computing
        BY <1>1, <2>2 DEF ClearCache, PageInv, CoreTypes, Computing
      <3>2. Service!Clear
        BY <2>2, <3>1 DEF ClearCache, Service!Clear
      <3> QED
        BY <3>2 DEF Service!ServiceNext
    <2>3. CASE \/ ClearStats \/ AllAnswered \/ UNCHANGED pageVars
               \/ \E n \in Settings : SetTranslateConcurrency(n)
      BY <2>3 DEF ClearStats, AllAnswered, SetTranslateConcurrency, pageVars,
                  Service!serviceVars, Computing
    <2> QED
      BY <1>1, <2>1, <2>2, <2>3 DEF PageNext
  <1> QED
    BY <1>1, ServiceStarts, PageInvariant, NothingIsEarly, PTL
       DEF PageSpec, ImplementsPageService, Service!ServiceSpec
=============================================================================
