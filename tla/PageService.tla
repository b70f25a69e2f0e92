---------------------------- MODULE PageService ----------------------------
(***************************************************************************)
(* What /run_pipeline/ promises its callers, without the stages, the       *)
(* semaphores and the registry that keep the promise.  One computation at  *)
(* a time runs for an image under a plan, whole or recognize-only; who     *)
(* asks for the same meanwhile gets what that one comes to.  A whole page  *)
(* is stored before anyone is answered with it, and serves those who do    *)
(* not force another; nothing else is ever stored.                         *)
(***************************************************************************)

CONSTANTS Tasks, Pages, Plans, None, Failed, Refused

VARIABLES
    req,      \* what each task asked for, None until it asks
    answer,   \* what it got
    busy,     \* the tasks that compute a page
    waits,    \* the task whose computation another awaits
    done,     \* what a computation came to
    store     \* the page kept for an image and a plan, by who computed it

serviceVars == <<req, answer, busy, waits, done, store>>

ServiceInit ==
    /\ req = [t \in Tasks |-> None]
    /\ answer = [t \in Tasks |-> None]
    /\ busy = {}
    /\ waits = [t \in Tasks |-> None]
    /\ done = [t \in Tasks |-> None]
    /\ store = [k \in Pages \X Plans |-> None]

Requests == [page : Pages, plan : Plans, force : BOOLEAN, skip : BOOLEAN]

Key(q) == <<q.page, q.plan>>

Asks(t, q) == req[t] = None /\ req' = [req EXCEPT ![t] = q]

Stored(q) == ~q.force /\ ~q.skip /\ store[Key(q)] # None

\* Who is computing what q asks for.
Rivals(q) ==
    {u \in busy : /\ req[u].page = q.page /\ req[u].plan = q.plan
                  /\ req[u].skip = q.skip}

Serve(t, q) ==
    /\ Asks(t, q) /\ Stored(q)
    /\ answer' = [answer EXCEPT ![t] = store[Key(q)]]
    /\ UNCHANGED <<busy, waits, done, store>>

Decline(t, q) ==
    /\ Asks(t, q) /\ ~Stored(q)
    /\ \E out \in {Failed, Refused} : answer' = [answer EXCEPT ![t] = out]
    /\ UNCHANGED <<busy, waits, done, store>>

Begin(t, q) ==
    /\ Asks(t, q) /\ ~Stored(q) /\ Rivals(q) = {}
    /\ busy' = busy \cup {t}
    /\ UNCHANGED <<answer, waits, done, store>>

Wait(t, q) ==
    /\ Asks(t, q) /\ ~Stored(q)
    /\ \E u \in Rivals(q) : waits' = [waits EXCEPT ![t] = u]
    /\ UNCHANGED <<answer, busy, done, store>>

Keep(t) == store' = [store EXCEPT ![Key(req[t])] = t]

\* A page that fails once it is stored stays stored.
Finish(t) ==
    /\ t \in busy
    /\ busy' = busy \ {t}
    /\ \E out \in {t, Failed} :
          /\ answer' = [answer EXCEPT ![t] = out]
          /\ done' = [done EXCEPT ![t] = out]
          /\ \/ ~req[t].skip /\ Keep(t)
             \/ (req[t].skip \/ out = Failed) /\ UNCHANGED store
    /\ UNCHANGED <<req, waits>>

Share(t) ==
    /\ waits[t] # None /\ answer[t] = None
    /\ done[waits[t]] # None
    /\ answer' = [answer EXCEPT ![t] = done[waits[t]]]
    /\ UNCHANGED <<req, busy, waits, done, store>>

Clear ==
    /\ store' = [k \in Pages \X Plans |-> None]
    /\ UNCHANGED <<req, answer, busy, waits, done>>

ServiceNext ==
    \/ \E t \in Tasks, q \in Requests :
           Serve(t, q) \/ Decline(t, q) \/ Begin(t, q) \/ Wait(t, q)
    \/ \E t \in Tasks : Finish(t) \/ Share(t)
    \/ Clear

ServiceSpec == ServiceInit /\ [][ServiceNext]_serviceVars
=============================================================================
