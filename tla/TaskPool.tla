------------------------------ MODULE TaskPool ------------------------------
(***************************************************************************)
(* What the rest of nnd expects of its Executor (src/src/executor.rs): a   *)
(* task that was added is run once, by one of its threads, and in any case *)
(* some day.  symbols_registry.rs and search.rs rely on no more than this; *)
(* in particular not on the order in which tasks are run.                  *)
(***************************************************************************)

CONSTANTS
    Task,           \* closures that may ever be added
    Thread,         \* the threads that run them
    NoTask

VARIABLES
    queued,         \* added and not started
    runs,           \* what each thread runs
    finished        \* their FnOnce has returned

poolVars == <<queued, runs, finished>>

PoolInit ==
    /\ queued = {}
    /\ runs = [w \in Thread |-> NoTask]
    /\ finished = {}

\* Executor::add(): a closure is a new object, so it is added only once.
PoolAdd(t) ==
    /\ t \notin queued \cup finished
    /\ \A w \in Thread : runs[w] # t
    /\ queued' = queued \cup {t}
    /\ UNCHANGED <<runs, finished>>

PoolStart(w, t) ==
    /\ t \in queued
    /\ runs[w] = NoTask
    /\ queued' = queued \ {t}
    /\ runs' = [runs EXCEPT ![w] = t]
    /\ UNCHANGED finished

PoolFinish(w) ==
    /\ runs[w] # NoTask
    /\ runs' = [runs EXCEPT ![w] = NoTask]
    /\ finished' = finished \cup {runs[w]}
    /\ UNCHANGED queued

PoolNext ==
    \/ \E t \in Task : PoolAdd(t)
    \/ \E w \in Thread, t \in Task : PoolStart(w, t)
    \/ \E w \in Thread : PoolFinish(w)

PoolSpec == PoolInit /\ [][PoolNext]_poolVars

\* Whatever was added gets started, and what was started finishes.
PoolFairSpec ==
    /\ PoolSpec
    /\ \A t \in Task : SF_poolVars(\E w \in Thread : PoolStart(w, t))
    /\ \A w \in Thread : WF_poolVars(PoolFinish(w))
=============================================================================
