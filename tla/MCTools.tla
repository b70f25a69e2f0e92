------------------------------ MODULE MCTools -------------------------------
(***************************************************************************)
(* TLC instance of three tools that share nothing, checked in one run: the *)
(* cooling benchmarks, the store of the model comparison, and the report   *)
(* with the bench that reads it back.                                      *)
(***************************************************************************)
EXTENDS CoolingBench, CompareStore, RunReport

CONSTANTS mocr, paddle, gemma, rtdetr

MCRuns == [t \in Tools |-> 2]

MCModels == [batch |-> {rtdetr}, ocr |-> {mocr, paddle}, translate |-> {gemma}]

\* Together the two texts are longer than MaxChars.
MCChars == <<2, 2>>

\* Two images of one name, the second read with another text of it missing.
MCInputs == <<"n1", "n1", "n2">>
MCCosts == <<3, 1, 2>>
MCCaps == {<<>>, <<0>>, <<2>>}
MCSweep == <<1, 2>>

MCAlphabet == {"sp", "nl", "cr", "ls", "bar", "bs", "ret", "a"}

\* Every text of up to three of the characters that are escaped, and some with
\* the others; recognizers strip theirs.
MCTexts ==
    {t \in SeqOf({"a", "bar", "bs", "nl"}, 3) : t = Strip(t)}
      \cup {<<"bs", "ls", "bar">>, <<"a", "sp", "ls", "a">>,
            <<"a", "cr", "nl", "bs">>, <<"bar", "cr", "bar">>, <<"ret", "nl", "ret", "sp", "a">>,
            <<"a", "sp", "ret", "nl", "bs">>, <<"a", "cr", "ret", "bar">>}
MCPageTexts ==
    {<< <<t, <<"a">> >>, <<t>>, << <<>>, <<"a">> >> >> : t \in MCTexts}

VARIABLE part

toolVars == <<coolVars, storeVars, reportVars, part>>

Cooling(A) == part = "cooling" /\ A /\ UNCHANGED <<storeVars, reportVars, part>>
Comparing(A) == part = "comparing" /\ A /\ UNCHANGED <<coolVars, reportVars, part>>
Reporting(A) == part = "reporting" /\ A /\ UNCHANGED <<coolVars, storeVars, part>>

MCInit ==
    /\ part \in {"cooling", "comparing", "reporting"}
    /\ CoolInit /\ (part # "cooling" => tool = "sweep" /\ ~fancontrol)
    /\ StoreInit /\ (part # "comparing" => file["ocr"] = file["batch"])
    /\ ReportInit /\ (part # "reporting" => texts[2] = << <<>> >>)

MCNext == Cooling(CoolNext) \/ Comparing(StoreNext) \/ Reporting(ReportNext)

MCSpec ==
    /\ MCInit /\ [][MCNext]_toolVars
    /\ WF_toolVars(Cooling(MainContinues))
    /\ WF_toolVars(Cooling(FancontrolWrites))
    /\ \A w \in Threads : WF_toolVars(Cooling(WorkerContinues(w)))
    /\ WF_toolVars(Comparing(PassContinues))

\* RunEnds and PassEnds: every wait of bench_cooling_ab.py has a deadline, and a
\* model or a page that fails does not stop a pass of the comparison.
EveryToolEnds == (part = "cooling" => RunEnds) /\ PassEnds
=============================================================================
