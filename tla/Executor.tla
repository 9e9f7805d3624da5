------------------------------ MODULE Executor ------------------------------
(***************************************************************************)
(* nnd's thread pool (src/src/executor.rs): a VecDeque of closures behind  *)
(* a mutex, and worker threads that sleep on a condition variable while    *)
(* the queue is empty.                                                     *)
(*                                                                         *)
(* A critical section is one step.  add_boxed() is two: push_back() under  *)
(* the lock, then notify_one() after the lock was released.  Tasks add     *)
(* further tasks, so a worker that runs a task can be the one that adds.   *)
(***************************************************************************)
EXTENDS Naturals, Sequences, FiniteSets

CONSTANTS
    Worker,         \* the threads of the Executor
    Client,         \* other threads that add tasks (the main thread)
    Task,           \* closures that may ever be added
    NoTask

ASSUME WorkerAssumption == IsFiniteSet(Worker) /\ Worker # {}

ASSUME ClientAssumption == IsFiniteSet(Client) /\ Client \cap Worker = {}

ASSUME TaskAssumption == IsFiniteSet(Task) /\ NoTask \notin Task

VARIABLES
    tasks,          \* Shared::tasks
    worker,         \* where each worker is: before the test of the queue,
                    \* in Condvar::wait(), or in the closure
    job,            \* the closure each worker runs
    notify,         \* threads between push_back() and notify_one()
    added,          \* closures that exist already
    finished        \* closures that have returned

vars == <<tasks, worker, job, notify, added, finished>>

TypeOK ==
    /\ tasks \in Seq(Task)
    /\ worker \in [Worker -> {"check", "wait", "run"}]
    /\ job \in [Worker -> Task \cup {NoTask}]
    /\ notify \in SUBSET (Worker \cup Client)
    /\ added \in SUBSET Task
    /\ finished \in SUBSET Task

\* Executor::new(): every worker thread is started.
Init ==
    /\ tasks = <<>>
    /\ worker = [w \in Worker |-> "check"]
    /\ job = [w \in Worker |-> NoTask]
    /\ notify = {}
    /\ added = {} /\ finished = {}

\* Who can call add_boxed(): a client, or a worker from inside a closure.
MayAdd(c) == c \notin notify /\ (c \in Worker => worker[c] = "run")

\* add_boxed(): push_back() under the lock.
Push(c, t) ==
    /\ MayAdd(c)
    /\ t \notin added
    /\ tasks' = Append(tasks, t)
    /\ added' = added \cup {t}
    /\ notify' = notify \cup {c}
    /\ UNCHANGED <<worker, job, finished>>

\* Mutant: the wakeup is forgotten.
Notify_Nobody(c) ==
    /\ c \in notify
    /\ notify' = notify \ {c}
    /\ UNCHANGED <<tasks, worker, job, added, finished>>

\* add_boxed(): notify_one() wakes one of the sleeping workers, if any.
Notify(c) ==
    /\ c \in notify
    /\ notify' = notify \ {c}
    /\ LET asleep == {w \in Worker : worker[w] = "wait"}
       IN  IF asleep = {} THEN UNCHANGED worker
           ELSE \E w \in asleep : worker' = [worker EXCEPT ![w] = "check"]
    /\ UNCHANGED <<tasks, job, added, finished>>

\* worker_thread(): the queue is empty, wait() releases the lock and sleeps.
Wait(w) ==
    /\ worker[w] = "check" /\ tasks = <<>>
    /\ worker' = [worker EXCEPT ![w] = "wait"]
    /\ UNCHANGED <<tasks, job, notify, added, finished>>

\* Condvar::wait() may return without a notification.
SpuriousWakeup(w) ==
    /\ worker[w] = "wait"
    /\ worker' = [worker EXCEPT ![w] = "check"]
    /\ UNCHANGED <<tasks, job, notify, added, finished>>

\* Mutant: the closure stays in the queue.
Take_Peeks(w) ==
    /\ worker[w] = "check" /\ tasks # <<>>
    /\ worker' = [worker EXCEPT ![w] = "run"]
    /\ job' = [job EXCEPT ![w] = Head(tasks)]
    /\ UNCHANGED <<tasks, notify, added, finished>>

\* Mutant: the queue is not tested again after wait().
Take_Unchecked(w) ==
    /\ worker[w] = "check"
    /\ worker' = [worker EXCEPT ![w] = "run"]
    /\ job' = [job EXCEPT ![w] = IF tasks = <<>> THEN NoTask ELSE Head(tasks)]
    /\ tasks' = IF tasks = <<>> THEN <<>> ELSE Tail(tasks)
    /\ UNCHANGED <<notify, added, finished>>

\* worker_thread(): pop_front() under the same lock as the test.
Take(w) ==
    /\ worker[w] = "check" /\ tasks # <<>>
    /\ worker' = [worker EXCEPT ![w] = "run"]
    /\ job' = [job EXCEPT ![w] = Head(tasks)]
    /\ tasks' = Tail(tasks)
    /\ UNCHANGED <<notify, added, finished>>

\* The closure returns.
Finish(w) ==
    /\ worker[w] = "run" /\ w \notin notify
    /\ worker' = [worker EXCEPT ![w] = "check"]
    /\ job' = [job EXCEPT ![w] = NoTask]
    /\ finished' = finished \cup {job[w]}
    /\ UNCHANGED <<tasks, notify, added>>

Next ==
    \/ \E c \in Worker \cup Client : (\E t \in Task : Push(c, t)) \/ Notify(c)
    \/ \E w \in Worker : Wait(w) \/ SpuriousWakeup(w) \/ Take(w) \/ Finish(w)

Spec == Init /\ [][Next]_vars

(***************************************************************************)
(* Properties.                                                             *)
(***************************************************************************)
Asleep == {w \in Worker : worker[w] = "wait"}
Awake == {w \in Worker : worker[w] = "check"}

\* No wakeup is lost or wasted while a worker sleeps: for every queued closure
\* some worker is about to look at the queue, or a notify_one() is still to come.
\* (That notify_one() is called without the lock, and that a worker which comes
\* back from a closure may snatch the task from the one being woken, is harmless.)
WorkConserving == Asleep # {} => Len(tasks) <= Cardinality(notify) + Cardinality(Awake)

Running == {w \in Worker : worker[w] = "run"}

\* A closure is in one place at a time, whoever added it and however the workers
\* race for it: once in the queue, in the hands of one worker, or finished.
OnceEach ==
    /\ finished \subseteq added
    /\ \A i \in DOMAIN tasks :
           /\ tasks[i] \in added \ finished
           /\ \A j \in DOMAIN tasks : tasks[i] = tasks[j] => i = j
           /\ \A w \in Running : job[w] # tasks[i]
    /\ \A w \in Running :
           /\ job[w] \in added \ finished
           /\ \A v \in Running : job[v] = job[w] => v = w
    /\ \A w \in Worker \ Running : job[w] = NoTask

Pool == INSTANCE TaskPool
            WITH queued <- {tasks[i] : i \in DOMAIN tasks},
                 runs <- job,
                 Thread <- Worker

\* A closure that is runnable or returning goes on: threads are scheduled, and
\* the closures nnd adds (symbol loading, search) terminate.
Fairness ==
    /\ \A c \in Worker \cup Client : WF_vars(Notify(c))
    /\ \A w \in Worker : WF_vars(Wait(w) \/ Take(w)) /\ WF_vars(Finish(w))

FairSpec == Spec /\ Fairness

\* The Executor is a TaskPool: every closure that is added is run exactly once,
\* by a worker that runs nothing else, and none is forgotten.
ImplementsPool == Pool!PoolFairSpec
=============================================================================
