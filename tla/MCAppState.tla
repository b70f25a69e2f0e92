----------------------------- MODULE MCAppState -----------------------------
(***************************************************************************)
(* TLC instances of the gate, in two parts: one gate, its permits and its  *)
(* lock (InferenceGate), and the application state that puts another gate  *)
(* in its place and takes entry and exclusion as one step (AppState).      *)
(***************************************************************************)
EXTENDS AppState, InferenceGate

VARIABLE part

mcVars == <<appVars, gateVars, part>>

Changing(A) == part = "state" /\ A /\ UNCHANGED <<gateVars, part>>
Entering(A) == part = "gate" /\ A /\ UNCHANGED <<appVars, part>>

MCInit == part \in {"state", "gate"} /\ AppInit /\ GateInit

MCNext == Changing(AppNext) \/ Entering(GateNext)

MCSpec ==
    /\ MCInit /\ [][MCNext]_mcVars
    /\ \A t \in Routes : WF_mcVars(Changing(RouteContinues(t)))
    /\ \A c \in Coros : WF_mcVars(Changing(CoroContinues(c)))
    /\ \A p \in Pages : WF_mcVars(Changing(PageContinues(p)))
    /\ \A r \in Readers : WF_mcVars(Entering(ReaderSteps(r)))
    /\ \A w \in Writers : WF_mcVars(Entering(WriterSteps(w)))
=============================================================================
