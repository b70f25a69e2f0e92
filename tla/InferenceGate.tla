---------------------------- MODULE InferenceGate ----------------------------
(***************************************************************************)
(* app/state.py, class InferenceGate: a bounded reader/writer gate made of *)
(* an asyncio.Semaphore of K slots and an asyncio.Lock.  A reader holds    *)
(* the lock just long enough to take one slot; a writer holds it while it  *)
(* collects all K slots and until it leaves.                               *)
(*                                                                         *)
(* The event loop runs one task at a time and switches at an await, so a   *)
(* step is what a task does from one await to the next.  Both primitives   *)
(* serve their waiters first come first served, so the lock is the queue   *)
(* of the tasks that asked for it with its holder in front, and only that  *)
(* holder ever waits for a slot.  Tasks come back for ever.                *)
(***************************************************************************)
EXTENDS Integers, Sequences, FiniteSets

CONSTANTS
    Readers,   \* tasks inside "async with gate.reader()"
    Writers,   \* tasks inside "async with gate.writer()"
    K          \* self._k: permits, the recognize pool's size

Tasks == Readers \cup Writers

ASSUME KIsPositive == K \in Nat \ {0}
ASSUME FiniteTasks == IsFiniteSet(Readers) /\ IsFiniteSet(Writers)
ASSUME SidesAreDisjoint == Readers \cap Writers = {}

VARIABLES
    queue,   \* self._writer: its holder, then its waiters in order
    slots,   \* self._slots: the permits left
    held,    \* permits each task holds
    place       \* where each task is

gateVars == <<queue, slots, held, place>>

GateInit ==
    /\ queue = <<>>
    /\ slots = K
    /\ held = [t \in Tasks |-> 0]
    /\ place = [t \in Tasks |-> "out"]

\* t holds self._writer.
HasLock(t) == queue # <<>> /\ Head(queue) = t

\* "async with self._writer" is reached.
Ask(t) ==
    /\ place[t] = "out"
    /\ queue' = Append(queue, t)
    /\ place' = [place EXCEPT ![t] = "asking"]
    /\ UNCHANGED <<slots, held>>

\* Defect: the reader takes its slot without passing the lock.
ReaderBypassesLock(r) ==
    /\ place[r] = "asking" /\ slots > 0
    /\ slots' = slots - 1
    /\ held' = [held EXCEPT ![r] = 1]
    /\ queue' = SelectSeq(queue, LAMBDA t : t # r)
    /\ place' = [place EXCEPT ![r] = "in"]

\* The reader takes its slot and lets go of the lock in the same step.
ReaderTakesSlot(r) ==
    /\ place[r] = "asking" /\ HasLock(r)
    /\ slots > 0
    /\ slots' = slots - 1
    /\ held' = [held EXCEPT ![r] = 1]
    /\ queue' = Tail(queue)
    /\ place' = [place EXCEPT ![r] = "in"]

\* Leaving "async with self._slots" gives the permit back.
ReaderGivesBack(r) ==
    /\ place[r] = "in"
    /\ slots' = slots + 1
    /\ held' = [held EXCEPT ![r] = 0]
    /\ place' = [place EXCEPT ![r] = "out"]
    /\ UNCHANGED queue

\* Defect: the writer is content with one permit.
WriterTakesOneSlot(w) ==
    /\ place[w] = "asking" /\ HasLock(w)
    /\ slots > 0
    /\ slots' = slots - 1
    /\ held' = [held EXCEPT ![w] = @ + 1]
    /\ place' = [place EXCEPT ![w] = "in"]
    /\ UNCHANGED queue

\* One turn of the loop that drains every in-flight reader; the turn that
\* takes the last permit enters.
WriterTakesSlot(w) ==
    /\ place[w] = "asking" /\ HasLock(w)
    /\ slots > 0
    /\ slots' = slots - 1
    /\ held' = [held EXCEPT ![w] = @ + 1]
    /\ place' = IF held'[w] = K THEN [place EXCEPT ![w] = "in"] ELSE place
    /\ UNCHANGED queue

\* The finally block gives back K permits, then the lock.
WriterLeaves(w) ==
    /\ place[w] = "in"
    /\ slots' = slots + K
    /\ held' = [held EXCEPT ![w] = 0]
    /\ queue' = Tail(queue)
    /\ place' = [place EXCEPT ![w] = "out"]

ReaderSteps(r) == ReaderTakesSlot(r) \/ ReaderGivesBack(r)
WriterSteps(w) == WriterTakesSlot(w) \/ WriterLeaves(w)

GateNext ==
    \/ \E t \in Tasks : Ask(t)
    \/ \E r \in Readers : ReaderSteps(r)
    \/ \E w \in Writers : WriterSteps(w)

GateSpec == GateInit /\ [][GateNext]_gateVars

\* The loop runs every ready task and what is done inside the gate ends;
\* nothing obliges a task to ask.
FairGateSpec ==
    /\ GateSpec
    /\ \A r \in Readers : WF_gateVars(ReaderSteps(r))
    /\ \A w \in Writers : WF_gateVars(WriterSteps(w))

-----------------------------------------------------------------------------

\* Permits, the lock's queue and the tasks have the types the code gives them.
GateTypeOK ==
    /\ queue \in Seq(Tasks)
    /\ slots \in 0..K
    /\ held \in [Tasks -> 0..K]
    /\ place \in [Tasks -> {"out", "asking", "in"}]

Reading == {r \in Readers : place[r] = "in"}
Writing == {w \in Writers : place[w] = "in"}

\* "a writer drains all K permits for exclusivity against every in-flight
\* reader", and writers never overlap.
WriterIsExclusive ==
    \A w \in Writing : Reading = {} /\ Writing = {w}

\* "Up to K readers run at once".
AtMostKReaders == Cardinality(Reading) <= K

\* Through it all the gate implements the reader/writer contract.
RW == INSTANCE ReaderWriter WITH reading <- Reading, writing <- Writing
ImplementsReaderWriter == RW!RWSpec

\* No task starves: readers that keep coming cannot hold off a writer, nor
\* writers a reader.
EveryTaskEnters == \A t \in Tasks : place[t] = "asking" ~> place[t] = "in"
=============================================================================
