---------------------------- MODULE ReaderWriter ----------------------------
(***************************************************************************)
(* What app/state.py promises of an InferenceGate, in the words of its     *)
(* docstring: up to K readers run at once, and a writer is exclusive       *)
(* against every in-flight reader and every other writer.                  *)
(***************************************************************************)
EXTENDS Integers, FiniteSets

CONSTANTS Readers, Writers, K

VARIABLES
    reading,   \* the readers inside
    writing    \* the writers inside

rwVars == <<reading, writing>>

RWInit == reading = {} /\ writing = {}

EnterRead(r) ==
    /\ r \notin reading
    /\ writing = {} /\ Cardinality(reading) < K
    /\ reading' = reading \cup {r}
    /\ UNCHANGED writing

LeaveRead(r) ==
    /\ r \in reading
    /\ reading' = reading \ {r}
    /\ UNCHANGED writing

EnterWrite(w) ==
    /\ reading = {} /\ writing = {}
    /\ writing' = {w}
    /\ UNCHANGED reading

LeaveWrite(w) ==
    /\ w \in writing
    /\ writing' = writing \ {w}
    /\ UNCHANGED reading

RWNext ==
    \/ \E r \in Readers : EnterRead(r) \/ LeaveRead(r)
    \/ \E w \in Writers : EnterWrite(w) \/ LeaveWrite(w)

RWSpec == RWInit /\ [][RWNext]_rwVars
=============================================================================
