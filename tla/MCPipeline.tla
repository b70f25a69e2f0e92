----------------------------- MODULE MCPipeline -----------------------------
(* Four parts that share no variable, checked in one run: a page through the  *)
(* pipeline, the statistics tables, the occupancy sink, and the options and   *)
(* the cache key of a page.                                                   *)
EXTENDS PagePipeline, PageStats, RunOptions, TLC

\* Two plugins that serve two roles under one name, as llama.cpp does.
MCRolesOf(e) == {"recognizer", "translator"}
MCAsks == {<<>>, "llama.cpp" :> ("number" :> <<"text", 2>>)}

Det(x0, y0, x1, y1, label, score) ==
  [x0 |-> x0, y0 |-> y0, x1 |-> x1, y1 |-> y1, label |-> label, score |-> score]

\* Half pixels on a 40 x 40 page: a bubble's text, its lower-scored double, a
\* speck inside it that scores highest, a neighbour one pixel lower, a taller
\* one level with the first, the bubble's container, and a sliver off the page.
MCDetections == {
  Det(0, 26, 20, 44, "text", 8),  Det(1, 26, 19, 44, "text", 7),
  Det(4, 30, 7, 32, "text", 9),   Det(40, 28, 60, 46, "text", 8),
  Det(30, 10, 41, 60, "free", 6), Det(0, 20, 40, 50, "bubble", 9),
  Det(78, 60, 84, 100, "free", 5) }

\* A tilted quad, a quad of no area, and an upright one.
MCQuads == {
  << <<20, 0>>, <<48, 8>>, <<44, 30>>, <<16, 22>> >>,
  << <<10, 10>>, <<10, 10>>, <<10, 40>>, <<10, 40>> >>,
  << <<4, 4>>, <<24, 4>>, <<24, 20>>, <<4, 20>> >> }

Ask(rtl, skip, shipped, pool, mode, batch, model) ==
  [rtl |-> rtl, skip |-> skip, shipped |-> shipped, pool |-> pool, mode |-> mode,
   batch |-> batch, model |-> model]
MCRequests == {
  Ask(TRUE,  FALSE, TRUE,  TRUE,  "box",  TRUE,  TRUE),
  Ask(FALSE, FALSE, FALSE, FALSE, "pow2", TRUE,  TRUE),
  Ask(FALSE, FALSE, TRUE,  FALSE, "pow2", FALSE, TRUE),
  Ask(TRUE,  TRUE,  TRUE,  TRUE,  "pow2", TRUE,  TRUE),
  Ask(TRUE,  FALSE, FALSE, TRUE,  "box",  TRUE,  FALSE) }

MCWindows == {<<0, 4>>, <<1, 3>>, <<2, 7>>, <<4, 4>>, <<5, 8>>}

----------------------------------------------------------------------------
VARIABLE part

PageSteps == part = "page" /\ Next /\ UNCHANGED << statsVars, optVars, part >>
TableSteps == /\ part = "tables" /\ (RecordStats \/ RecordFails \/ OtherCommits \/ Restart \/ ClearStats)
              /\ UNCHANGED << vars, optVars, part >>
SinkSteps == /\ part = "sink" /\ (SplitOcc \/ ResetOccupancy)
             /\ UNCHANGED << vars, optVars, part >>
OptionSteps == part = "options" /\ OptNext /\ UNCHANGED << vars, statsVars, part >>

MCInit == /\ part \in {"page", "tables", "sink", "options"}
          /\ Init /\ StatsInit /\ OptInit
          /\ part # "page" => page = CHOOSE r \in Requests : TRUE
          /\ part # "options" => chosen = [r \in Roles |-> None]
                              /\ \A k \in DOMAIN options : options[k] = NoOptions
                              /\ \A p \in PromptNames : prompts[p] = None
MCNext == PageSteps \/ TableSteps \/ SinkSteps \/ OptionSteps
MCSpec == MCInit /\ [][MCNext]_<< vars, statsVars, optVars, part >>

\* The page requests of the last part differ in nothing but their names.
MCSymmetry == Permutations(Clients)
=============================================================================
