-------------------------- MODULE Executor_proofs --------------------------
(***************************************************************************)
(* The thread pool of src/src/executor.rs, for any number of workers,      *)
(* clients and closures: no wakeup is lost, every closure is run at most   *)
(* once, and the Executor implements the safety part of TaskPool.          *)
(***************************************************************************)
EXTENDS Executor, FiniteSetTheorems, TLAPS

(***************************************************************************)
(* Queues.                                                                 *)
(***************************************************************************)

\* push_back(): the queue grows by the closure at its end.
LEMMA PushBack ==
    ASSUME NEW S, NEW q \in Seq(S), NEW x \in S
    PROVE  /\ Append(q, x) \in Seq(S)
           /\ Len(Append(q, x)) = Len(q) + 1
           /\ DOMAIN Append(q, x) = 1..(Len(q) + 1)
           /\ \A i \in DOMAIN q : Append(q, x)[i] = q[i]
           /\ Append(q, x)[Len(q) + 1] = x
           /\ DOMAIN q = 1..Len(q) /\ Len(q) \in Nat
OBVIOUS

\* pop_front(): the queue loses its first closure, the others move up.
LEMMA PopFront ==
    ASSUME NEW S, NEW q \in Seq(S), q # <<>>
    PROVE  /\ Tail(q) \in Seq(S)
           /\ Head(q) \in S /\ Head(q) = q[1]
           /\ Len(q) \in Nat \ {0} /\ Len(Tail(q)) = Len(q) - 1
           /\ DOMAIN q = 1..Len(q)
           /\ DOMAIN Tail(q) = 1..(Len(q) - 1)
           /\ \A i \in 1..(Len(q) - 1) : Tail(q)[i] = q[i + 1]
OBVIOUS

\* A queued closure is a Task.
LEMMA Queued ==
    ASSUME NEW S, NEW q \in Seq(S)
    PROVE  /\ Len(q) \in Nat /\ DOMAIN q = 1..Len(q)
           /\ \A i \in DOMAIN q : q[i] \in S
OBVIOUS

(***************************************************************************)
(* The inductive invariant: the types, and that a closure is in one place  *)
(* (otherwise a worker might return without having run one).               *)
(***************************************************************************)
IInv == TypeOK /\ OnceEach

\* Every step of a worker or a client keeps the types.
LEMMA TypeStep == IInv /\ [Next]_vars => TypeOK'
<1> SUFFICES ASSUME TypeOK, OnceEach, [Next]_vars PROVE TypeOK'
  BY DEF IInv
<1>1. ASSUME NEW c \in Worker \cup Client, NEW t \in Task, Push(c, t)
      PROVE  TypeOK'
  BY <1>1, PushBack DEF TypeOK, Push
<1>2. ASSUME NEW c \in Worker \cup Client, Notify(c) PROVE TypeOK'
  BY <1>2 DEF TypeOK, Notify
<1>3. ASSUME NEW w \in Worker, Wait(w) PROVE TypeOK'
  BY <1>3 DEF TypeOK, Wait
<1>4. ASSUME NEW w \in Worker, SpuriousWakeup(w) PROVE TypeOK'
  BY <1>4 DEF TypeOK, SpuriousWakeup
<1>5. ASSUME NEW w \in Worker, Take(w) PROVE TypeOK'
  BY <1>5, PopFront DEF TypeOK, Take
<1>6. ASSUME NEW w \in Worker, Finish(w) PROVE TypeOK'
  <2>1. job[w] \in Task
    BY <1>6 DEF TypeOK, OnceEach, Finish, Running
  <2> QED
    BY <2>1, <1>6 DEF TypeOK, Finish
<1>7. CASE UNCHANGED vars
  BY <1>7 DEF TypeOK, vars
<1> QED
  BY <1>1, <1>2, <1>3, <1>4, <1>5, <1>6, <1>7 DEF Next

\* No step duplicates a closure: push_back() adds one that exists nowhere else,
\* and only the worker that pops a closure gets hold of it.
LEMMA OnceStep == IInv /\ [Next]_vars => OnceEach'
<1> SUFFICES ASSUME TypeOK, OnceEach, [Next]_vars PROVE OnceEach'
  BY DEF IInv
<1>1. ASSUME NEW c \in Worker \cup Client, NEW t \in Task, Push(c, t)
      PROVE  OnceEach'
  <2>1. /\ tasks' = Append(tasks, t) /\ t \notin added /\ added' = added \cup {t}
        /\ finished' = finished /\ job' = job /\ Running' = Running
    BY <1>1 DEF Push, Running
  <2>2. /\ tasks \in Seq(Task) /\ finished \subseteq added
    BY DEF TypeOK, OnceEach
  <2>3. /\ DOMAIN tasks' = DOMAIN tasks \cup {Len(tasks) + 1}
        /\ Len(tasks) + 1 \notin DOMAIN tasks
        /\ \A i \in DOMAIN tasks : tasks'[i] = tasks[i]
        /\ tasks'[Len(tasks) + 1] = t
    BY <2>1, <2>2, PushBack
  <2> QED
    BY <2>1, <2>2, <2>3 DEF OnceEach
<1>2. ASSUME NEW c \in Worker \cup Client, Notify(c) PROVE OnceEach'
  <2>1. Running' = Running
    BY <1>2 DEF Notify, Running, TypeOK
  <2> QED
    BY <1>2, <2>1 DEF OnceEach, Notify
<1>3. ASSUME NEW w \in Worker, Wait(w) PROVE OnceEach'
  <2>1. Running' = Running
    BY <1>3 DEF Wait, Running, TypeOK
  <2> QED
    BY <1>3, <2>1 DEF OnceEach, Wait
<1>4. ASSUME NEW w \in Worker, SpuriousWakeup(w) PROVE OnceEach'
  <2>1. Running' = Running
    BY <1>4 DEF SpuriousWakeup, Running, TypeOK
  <2> QED
    BY <1>4, <2>1 DEF OnceEach, SpuriousWakeup
<1>5. ASSUME NEW w \in Worker, Take(w) PROVE OnceEach'
  <2>1. /\ Running' = Running \cup {w} /\ w \notin Running
        /\ job'[w] = tasks[1] /\ \A v \in Running : job'[v] = job[v]
        /\ added' = added /\ finished' = finished
    BY <1>5, PopFront DEF Take, Running, TypeOK
  <2>2. /\ 1 \in DOMAIN tasks
        /\ \A i \in DOMAIN tasks' : /\ i + 1 \in DOMAIN tasks /\ i + 1 # 1
                                    /\ tasks'[i] = tasks[i + 1] /\ i \in Int
    BY <1>5, PopFront DEF Take, TypeOK
  <2>3. \A i \in DOMAIN tasks' :
            /\ tasks'[i] \in added \ finished
            /\ \A j \in DOMAIN tasks' : tasks'[i] = tasks'[j] => i = j
            /\ \A v \in Running' : job'[v] # tasks'[i]
    BY <2>1, <2>2 DEF OnceEach
  <2>4. \A v \in Running' :
            /\ job'[v] \in added \ finished
            /\ \A u \in Running' : job'[u] = job'[v] => u = v
    BY <2>1, <2>2 DEF OnceEach
  <2>5. \A v \in Worker \ Running' : job'[v] = NoTask
    BY <1>5, <2>1 DEF Take, TypeOK, OnceEach
  <2> QED
    BY <2>1, <2>3, <2>4, <2>5 DEF OnceEach
<1>6. ASSUME NEW w \in Worker, Finish(w) PROVE OnceEach'
  <2>1. /\ Running' = Running \ {w} /\ w \in Running
        /\ \A v \in Running' : job'[v] = job[v] /\ v \in Running
        /\ added' = added /\ finished' = finished \cup {job[w]} /\ tasks' = tasks
    BY <1>6 DEF Finish, Running, TypeOK
  <2>2. \A v \in Worker \ Running' : job'[v] = NoTask
    BY <1>6, <2>1 DEF Finish, TypeOK, OnceEach
  <2> QED
    BY <2>1, <2>2 DEF OnceEach
<1>7. CASE UNCHANGED vars
  BY <1>7 DEF OnceEach, Running, vars
<1> QED
  BY <1>1, <1>2, <1>3, <1>4, <1>5, <1>6, <1>7 DEF Next

\* The invariant holds initially and is kept.
LEMMA Invariance == Spec => []IInv
<1>1. Init => IInv
  BY DEF Init, IInv, TypeOK, OnceEach, Running
<1>2. IInv /\ [Next]_vars => IInv'
  BY TypeStep, OnceStep DEF IInv
<1> QED
  BY <1>1, <1>2, PTL DEF Spec

\* Type correctness of the Executor.
THEOREM TypeCorrect == Spec => []TypeOK
BY Invariance, PTL DEF IInv

\* A closure that was added is never run twice (executor.rs pops it under the
\* lock under which it saw it).
THEOREM OnceCorrect == Spec => []OnceEach
BY Invariance, PTL DEF IInv

(***************************************************************************)
(* Wakeups.                                                                *)
(***************************************************************************)

\* The sets that are counted are finite, so that their sizes are numbers.
LEMMA Finite ==
    ASSUME TypeOK
    PROVE  /\ IsFiniteSet(notify) /\ Cardinality(notify) \in Nat
           /\ IsFiniteSet(Awake) /\ Cardinality(Awake) \in Nat
           /\ IsFiniteSet(Running) /\ Cardinality(Running) \in Nat
<1>1. IsFiniteSet(Worker \cup Client)
  BY WorkerAssumption, ClientAssumption, FS_Union
<1>2. /\ notify \in SUBSET (Worker \cup Client)
      /\ Awake \in SUBSET Worker /\ Running \in SUBSET Worker
  BY DEF TypeOK, Awake, Running
<1> QED
  BY <1>1, <1>2, WorkerAssumption, FS_Subset, FS_CardinalityType

\* Waking a worker adds it to those that look at the queue.
LEMMA Wakes ==
    ASSUME TypeOK, NEW w \in Worker, worker[w] # "check",
           worker' = [worker EXCEPT ![w] = "check"]
    PROVE  Cardinality(Awake') = Cardinality(Awake) + 1
<1>1. Awake' = Awake \cup {w} /\ w \notin Awake
  BY DEF TypeOK, Awake
<1> QED
  BY <1>1, Finite, FS_AddElement

\* Every step keeps WorkConserving: push_back() is paid for by the notify_one()
\* to come, notify_one() by the worker it wakes, pop_front() by the closure it
\* takes, and a worker falls asleep only when nothing is queued.
LEMMA ConservingStep == TypeOK /\ WorkConserving /\ [Next]_vars => WorkConserving'
<1> SUFFICES ASSUME TypeOK, WorkConserving, [Next]_vars PROVE WorkConserving'
  OBVIOUS
<1>0. Len(tasks) \in Nat
  BY Queued DEF TypeOK
<1>1. ASSUME NEW c \in Worker \cup Client, NEW t \in Task, Push(c, t)
      PROVE  WorkConserving'
  <2>1. Len(tasks') = Len(tasks) + 1
    BY <1>1, PushBack DEF Push, TypeOK
  <2>2. Cardinality(notify') = Cardinality(notify) + 1
    BY <1>1, Finite, FS_AddElement DEF Push, MayAdd
  <2>3. Asleep' = Asleep /\ Awake' = Awake
    BY <1>1 DEF Push, Asleep, Awake
  <2> QED
    BY <2>1, <2>2, <2>3, <1>0, Finite DEF WorkConserving
<1>2. ASSUME NEW c \in Worker \cup Client, Notify(c) PROVE WorkConserving'
  <2>1. Cardinality(notify') = Cardinality(notify) - 1 /\ tasks' = tasks
    BY <1>2, Finite, FS_RemoveElement DEF Notify
  <2>2. CASE Asleep = {}
    <3>1. worker' = worker
      BY <1>2, <2>2 DEF Notify, Asleep
    <3> QED
      BY <2>2, <3>1 DEF WorkConserving, Asleep
  <2>3. CASE Asleep # {}
    <3>1. PICK w \in Asleep : worker' = [worker EXCEPT ![w] = "check"]
      BY <1>2, <2>3 DEF Notify, Asleep
    <3>2. Cardinality(Awake') = Cardinality(Awake) + 1
      BY <3>1, Wakes DEF Asleep
    <3> QED
      BY <2>1, <2>3, <3>2, <1>0, Finite DEF WorkConserving
  <2> QED
    BY <2>2, <2>3
<1>3. ASSUME NEW w \in Worker, Wait(w) PROVE WorkConserving'
  <2>1. Len(tasks') = 0
    BY <1>3 DEF Wait
  <2>2. IsFiniteSet(Awake') /\ notify' = notify
    <3>1. Awake' \in SUBSET Worker
      BY DEF Awake
    <3> QED
      BY <1>3, <3>1, WorkerAssumption, FS_Subset DEF Wait
  <2> QED
    BY <2>1, <2>2, Finite, FS_CardinalityType DEF WorkConserving
<1>4. ASSUME NEW w \in Worker, SpuriousWakeup(w) PROVE WorkConserving'
  <2>1. Cardinality(Awake') = Cardinality(Awake) + 1
    BY <1>4, Wakes DEF SpuriousWakeup
  <2>2. tasks' = tasks /\ notify' = notify /\ Asleep # {}
    BY <1>4 DEF SpuriousWakeup, Asleep
  <2> QED
    BY <2>1, <2>2, <1>0, Finite DEF WorkConserving
<1>5. ASSUME NEW w \in Worker, Take(w) PROVE WorkConserving'
  <2>1. Len(tasks') = Len(tasks) - 1 /\ notify' = notify
    BY <1>5, PopFront DEF Take, TypeOK
  <2>2. Awake' = Awake \ {w} /\ w \in Awake /\ Asleep' = Asleep
    BY <1>5 DEF Take, Awake, Asleep, TypeOK
  <2>3. Cardinality(Awake') = Cardinality(Awake) - 1
    BY <2>2, Finite, FS_RemoveElement
  <2> QED
    BY <2>1, <2>2, <2>3, <1>0, Finite DEF WorkConserving
<1>6. ASSUME NEW w \in Worker, Finish(w) PROVE WorkConserving'
  <2>1. Cardinality(Awake') = Cardinality(Awake) + 1
    BY <1>6, Wakes DEF Finish
  <2>2. tasks' = tasks /\ notify' = notify /\ Asleep' = Asleep
    BY <1>6 DEF Finish, Asleep, TypeOK
  <2> QED
    BY <2>1, <2>2, <1>0, Finite DEF WorkConserving
<1>7. CASE UNCHANGED vars
  BY <1>7 DEF WorkConserving, Asleep, Awake, vars
<1> QED
  BY <1>1, <1>2, <1>3, <1>4, <1>5, <1>6, <1>7 DEF Next

\* No interleaving of add_boxed() and worker_thread() loses a wakeup, although
\* notify_one() is called after the lock was released.
THEOREM ConservingCorrect == Spec => []WorkConserving
<1>1. Init => WorkConserving
  BY DEF Init, WorkConserving, Asleep
<1>2. TypeOK /\ WorkConserving /\ [Next]_vars => WorkConserving'
  BY ConservingStep
<1> QED
  BY <1>1, <1>2, TypeCorrect, PTL DEF Spec

(***************************************************************************)
(* Refinement of TaskPool.                                                 *)
(***************************************************************************)

\* Every step of the Executor is a step of the pool or changes nothing there.
LEMMA PoolStep == IInv /\ [Next]_vars => [Pool!PoolNext]_(Pool!poolVars)
<1> DEFINE Q == {tasks[i] : i \in DOMAIN tasks}
<1> SUFFICES ASSUME TypeOK, OnceEach, [Next]_vars
             PROVE  Pool!PoolNext \/ (Q' = Q /\ job' = job /\ finished' = finished)
  BY DEF IInv, Pool!poolVars
<1>0. /\ Q \subseteq added /\ finished \subseteq added /\ Q \subseteq Task
      /\ \A w \in Worker : job[w] \in added \cup {NoTask}
  BY Queued DEF OnceEach, TypeOK
<1>1. ASSUME NEW c \in Worker \cup Client, NEW t \in Task, Push(c, t)
      PROVE  Pool!PoolAdd(t)
  <2>1. job' = job /\ finished' = finished /\ t \notin added /\ t # NoTask
    BY <1>1, TaskAssumption DEF Push
  <2>2. Q' = Q \cup {t}
    <3>1. tasks' = Append(tasks, t) /\ tasks \in Seq(Task)
      BY <1>1 DEF Push, TypeOK
    <3>2. /\ DOMAIN tasks' = DOMAIN tasks \cup {Len(tasks) + 1}
          /\ \A i \in DOMAIN tasks : tasks'[i] = tasks[i]
          /\ tasks'[Len(tasks) + 1] = t
      BY <3>1, PushBack
    <3> QED
      BY <3>2
  <2> QED
    BY <2>1, <2>2, <1>0 DEF Pool!PoolAdd
<1>2. ASSUME NEW c \in Worker \cup Client, Notify(c)
      PROVE  Q' = Q /\ job' = job /\ finished' = finished
  BY <1>2 DEF Notify
<1>3. ASSUME NEW w \in Worker, Wait(w) \/ SpuriousWakeup(w)
      PROVE  Q' = Q /\ job' = job /\ finished' = finished
  BY <1>3 DEF Wait, SpuriousWakeup
<1>4. ASSUME NEW w \in Worker, Take(w) PROVE \E t \in Task : Pool!PoolStart(w, t)
  <2>0. PICK t \in Task : t = tasks[1]
    BY <1>4, PopFront DEF Take, TypeOK
  <2>1. /\ job' = [job EXCEPT ![w] = t] /\ job[w] = NoTask
        /\ finished' = finished
    BY <1>4, <2>0, PopFront DEF Take, Running, OnceEach, TypeOK
  <2>2. Q' = Q \ {t} /\ t \in Q
    <3>1. /\ 1 \in DOMAIN tasks
          /\ \A i \in DOMAIN tasks' : /\ i + 1 \in DOMAIN tasks /\ i + 1 # 1
                                      /\ tasks'[i] = tasks[i + 1]
          /\ \A i \in DOMAIN tasks : i # 1 => /\ i - 1 \in DOMAIN tasks'
                                              /\ tasks'[i - 1] = tasks[i]
      BY <1>4, PopFront DEF Take, TypeOK
    <3>2. \A i \in DOMAIN tasks : tasks[i] = tasks[1] => i = 1
      BY <3>1 DEF OnceEach
    <3> QED
      BY <2>0, <3>1, <3>2
  <2> QED
    BY <2>1, <2>2 DEF Pool!PoolStart
<1>5. ASSUME NEW w \in Worker, Finish(w) PROVE Pool!PoolFinish(w)
  <2>1. job[w] # NoTask
    BY <1>5, TaskAssumption DEF Finish, OnceEach, Running, TypeOK
  <2> QED
    BY <1>5, <2>1 DEF Finish, Pool!PoolFinish
<1>6. CASE UNCHANGED vars
  BY <1>6 DEF vars
<1>7. ASSUME NEW c \in Worker \cup Client, NEW t \in Task, Push(c, t) PROVE Pool!PoolNext
  BY <1>1, <1>7 DEF Pool!PoolNext
<1>8. ASSUME NEW w \in Worker, Take(w) PROVE Pool!PoolNext
  BY <1>4, <1>8 DEF Pool!PoolNext
<1>9. ASSUME NEW w \in Worker, Finish(w) PROVE Pool!PoolNext
  BY <1>5, <1>9 DEF Pool!PoolNext
<1> QED
  BY <1>7, <1>2, <1>3, <1>8, <1>9, <1>6 DEF Next

\* The Executor implements the pool its users rely on (the safety part; that
\* nothing is forgotten is ConservingCorrect and, with fairness, left to TLC).
THEOREM PoolCorrect == Spec => Pool!PoolSpec
<1>1. Init => Pool!PoolInit
  BY DEF Init, Pool!PoolInit
<1>2. IInv /\ [Next]_vars => [Pool!PoolNext]_(Pool!poolVars)
  BY PoolStep
<1> QED
  BY <1>1, <1>2, Invariance, PTL DEF Spec, Pool!PoolSpec
=============================================================================
