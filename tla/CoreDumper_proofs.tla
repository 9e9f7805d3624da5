------------------------- MODULE CoreDumper_proofs -------------------------
(***************************************************************************)
(* The core dumper leaves the process as it was: CoreDumperRight, for any  *)
(* number of threads and whatever they do, if the tool is not killed where *)
(* nothing can be put back and registers can be set (Ops).                 *)
(***************************************************************************)
EXTENDS CoreDumper, TLAPS

Attaching == {"list", "seize", "interrupt", "wait", "again", "notes"}
Injecting == {"poke", "setregs", "cont", "await", "gotfork", "take"}
Forking == Injecting \cup {"dry", "taken"}
Dumping == {"detach", "dump", "cleanup", "flush"}

Thread == [st : Stops \cup {"none", "run", "dead"}, news : BOOLEAN, pend : BOOLEAN, traced : BOOLEAN]
Process == [mem : Nat, code : {"own", "injected"}, regs : {"own", "syscall", "insyscall", "int3", "lost"},
            child : {"none", "held", "killed", "died"}, copy : Int, settable : BOOLEAN, signals : Nat]

TypeInv ==
    /\ mode \in {"direct", "live", "fork"}
    /\ dpc \in Attaching \cup Forking \cup Dumping \cup {"gone"}
    /\ seen \in SUBSET Tids /\ attached \in SUBSET Tids /\ awaiting \in SUBSET Tids
    /\ toSeize \in SUBSET Tids /\ current \in Tids \cup {0}
    /\ forkState \in BOOLEAN /\ forkedPid \in BOOLEAN
    /\ thread \in [Tids -> Thread]
    /\ process \in Process

\* A process lives as long as its first thread; only a tracer stops a thread,
\* and a thread that was seen exists.
ThreadsKept ==
    /\ thread[1].st # "none"
    /\ ~Alive(1) => \A t \in Tids : ~Alive(t)
    /\ \A t \in Tids : Stopped(t) \/ thread[t].pend => thread[t].traced
    /\ \A t \in seen : thread[t].st # "none"
    /\ dpc = "gone" => \A t \in Tids : ~thread[t].traced

\* Until the tool lets go, it traces exactly what it has seized.
TracesSeized ==
    dpc \in Attaching \cup Forking =>
        \A t \in Tids :
            /\ thread[t].traced => t \in seen \ toSeize
            /\ t \in seen \ toSeize /\ Alive(t) => thread[t].traced /\ t \in attached
            /\ t \in attached => thread[t].traced

\* A thread that is waited for has stopped or will: its interrupt is on the way,
\* or is sent in the next step (`current`).  The others have stopped for good.
Due(t) == thread[t].news \/ (thread[t].st = "run" /\ thread[t].pend)
StopsDue ==
    dpc \in Attaching =>
        /\ toSeize \subseteq seen /\ awaiting \subseteq attached
        /\ dpc \in {"list", "wait", "again", "notes"} => toSeize = {}
        /\ dpc \in {"list", "notes"} => awaiting = {}
        /\ \A t \in attached \ awaiting : thread[t].st \in {"event", "dead"}
        /\ \A t \in awaiting \ {current} : Due(t)
        /\ IF dpc \in {"interrupt", "again"}
           THEN current \in awaiting /\ (thread[current].news \/ thread[current].st = "run")
           ELSE current = 0

\* From the notes on nobody works, until the memory is copied or dumped.
Frozen == \A t \in Tids : t # 1 /\ Alive(t) => Stopped(t)
AllFrozen ==
    /\ dpc \in Forking \cup {"notes"} => Frozen
    /\ dpc \in {"notes", "dry", "poke", "setregs", "cont", "gotfork", "take", "taken"} => (Alive(1) => Stopped(1))
    /\ mode = "direct" /\ dpc = "dump" => Frozen /\ (Alive(1) => Stopped(1))

\* What the hijacked thread is made to do, and how far it is.
Hijack ==
    /\ dpc \in Injecting <=> forkState
    /\ process.settable
    /\ Alive(1) =>
        /\ dpc \notin Injecting \ {"poke"} /\ dpc # "taken" => process.code = "own" /\ process.regs = "own"
        /\ dpc = "setregs" => process.regs = "own"
        /\ dpc = "cont" => process.regs = "syscall"
        /\ dpc = "gotfork" => thread[1].st = "forkstop" /\ process.regs = "insyscall"
        /\ dpc \in {"take", "taken"} => process.regs \in {"syscall", "int3", "own"}
        /\ dpc = "await" => thread[1].traced
        /\ dpc = "await" =>
             \/ thread[1].st = "run" /\ process.regs \in {"syscall", "insyscall"} /\ ~thread[1].news
             \/ thread[1].st = "forkstop" /\ process.regs = "insyscall" /\ thread[1].news
             \/ /\ thread[1].st \in {"signal", "event", "trap"}
                /\ process.regs \in {"syscall", "int3"} /\ thread[1].news
    /\ dpc = "await" => Alive(1) \/ thread[1].news
    /\ dpc = "gone" => process.child # "held"

\* The memory is that of the notes, and so is the copy.
Moment ==
    /\ mode # "live" => dumped \subseteq {noted}
    /\ dpc \in Attaching \cup Forking \cup {"detach"} => dumped = {}
    /\ dpc \in Forking => mode = "fork" /\ process.mem = noted
    /\ dpc = "detach" => mode # "direct"
    /\ forkedPid => mode = "fork"
    /\ mode = "fork" /\ dpc \in {"detach", "dump"} => forkedPid
    /\ mode = "direct" /\ dpc = "dump" => process.mem = noted
    /\ forkedPid => process.copy = noted
    /\ dpc \in Attaching \cup {"dry"} => ~forkedPid
    /\ dpc \in {"await", "gotfork"} /\ process.regs = "insyscall" => process.copy = noted

IInv == TypeInv /\ ThreadsKept /\ TracesSeized /\ StopsDue /\ AllFrozen /\ Hijack /\ Moment

-----------------------------------------------------------------------------
(* Threads and how they change.                                              *)

LEMMA ThreadFacts ==
    ASSUME TypeInv, NEW t \in Tids
    PROVE  /\ thread[t] \in Thread
           /\ thread[t].st \in Stops \cup {"none", "run", "dead"}
           /\ thread[t].news \in BOOLEAN /\ thread[t].pend \in BOOLEAN /\ thread[t].traced \in BOOLEAN
BY DEF TypeInv, Thread

LEMMA SetThread ==
    ASSUME TypeInv, NEW t \in Tids, NEW x \in Thread, thread' = [thread EXCEPT ![t] = x]
    PROVE  /\ thread' \in [Tids -> Thread] /\ thread'[t] = x
           /\ \A u \in Tids : u # t => thread'[u] = thread[u]
BY DEF TypeInv

LEMMA StopAsFacts ==
    ASSUME NEW th \in Thread, NEW kind \in Stops, NEW x, x = StopAs(th, kind)
    PROVE  x \in Thread /\ x.st = kind /\ x.news /\ ~x.pend /\ (x.traced <=> th.traced)
<1>1. x.st = kind /\ x.news = TRUE /\ x.pend = FALSE /\ x.traced = th.traced
  BY DEF StopAs, Thread
<1>2. x \in Thread
  BY DEF StopAs, Thread
<1> QED BY <1>1, <1>2

LEMMA DetachedFacts ==
    ASSUME NEW th \in Thread, NEW x, x = Detached(th)
    PROVE  /\ x \in Thread /\ ~x.news /\ ~x.pend /\ ~x.traced
           /\ x.st = IF th.st \in Stops THEN "run" ELSE th.st
<1>1. /\ x.st = IF th.st \in Stops THEN "run" ELSE th.st
      /\ x.news = FALSE /\ x.pend = FALSE /\ x.traced = FALSE
  BY DEF Detached, Thread
<1>2. x \in Thread
  BY DEF Detached, Thread
<1> QED BY <1>1, <1>2

LEMMA NewThreadFacts ==
    ASSUME NEW x, x = NewThread
    PROVE  x \in Thread /\ x.st = "run" /\ ~x.news /\ ~x.pend /\ ~x.traced
BY DEF NewThread, Thread

LEMMA ProcessFacts ==
    ASSUME TypeInv
    PROVE  /\ process.mem \in Nat /\ process.code \in {"own", "injected"}
           /\ process.regs \in {"own", "syscall", "insyscall", "int3", "lost"}
           /\ process.child \in {"none", "held", "killed", "died"}
           /\ process.settable \in BOOLEAN /\ process.signals \in Nat
BY DEF TypeInv, Process

LEMMA OneIsThread == 1 \in Tids /\ 0 \notin Tids
BY DumperAssumption

\* A thread of the program that runs while the tool injects is the hijacked one.
LEMMA NobodyWorks ==
    ASSUME IInv, NEW t \in Tids, Own(t)
    PROVE  /\ dpc \notin Forking \cup {"notes"} /\ ~(mode = "direct" /\ dpc = "dump")
           /\ Alive(t) /\ Alive(1) /\ ~Stopped(t)
<1>1. Alive(t) /\ ~Stopped(t)
  BY DEF Own, Alive, Stopped, Stops
<1>2. Alive(1)
  BY <1>1 DEF IInv, ThreadsKept
<1>3. dpc # "await"
  BY <1>1, <1>2 DEF IInv, Hijack, Own, AllFrozen, Frozen, Forking, Injecting
<1>4. dpc \notin Forking \cup {"notes"} /\ ~(mode = "direct" /\ dpc = "dump")
  BY <1>1, <1>2, <1>3 DEF IInv, AllFrozen, Frozen, Forking, Injecting
<1> QED BY <1>1, <1>2, <1>4

-----------------------------------------------------------------------------
(* Steps of the process.                                                     *)

\* The memory changes.
LEMMA WorkInv ==
    ASSUME IInv, NEW t \in Tids, Work(t) PROVE IInv'
<1>1. /\ Own(t) /\ UNCHANGED <<toolVars, thread>> /\ process' = [process EXCEPT !.mem = @ + 1]
  BY DEF Work
<1>2. /\ process' \in Process /\ process'.code = process.code /\ process'.regs = process.regs
      /\ process'.child = process.child /\ process'.copy = process.copy
      /\ process'.settable = process.settable
  BY <1>1 DEF IInv, TypeInv, Process
<1>3. dpc \notin Forking \cup {"notes"} /\ ~(mode = "direct" /\ dpc = "dump")
  BY <1>1, NobodyWorks
<1>4. TypeInv'
  BY <1>1, <1>2 DEF IInv, TypeInv, toolVars
<1>5. ThreadsKept' /\ TracesSeized' /\ StopsDue' /\ AllFrozen'
  BY <1>1 DEF IInv, toolVars, ThreadsKept, TracesSeized, StopsDue, Due, AllFrozen, Frozen, Alive, Stopped
<1>6. Hijack'
  BY <1>1, <1>2 DEF IInv, toolVars, Hijack, Alive
<1>7. Moment'
  BY <1>1, <1>2, <1>3 DEF IInv, toolVars, Moment
<1> QED BY <1>4, <1>5, <1>6, <1>7 DEF IInv

\* A thread appears.
LEMMA SpawnInv ==
    ASSUME IInv, NEW t \in Tids, Spawn(t) PROVE IInv'
<1>1. Own(t) /\ UNCHANGED <<toolVars, process>>
  BY DEF Spawn
<1>2. PICK u \in Tids : thread[u].st = "none" /\ thread' = [thread EXCEPT ![u] = NewThread]
  BY DEF Spawn
<1>3. NewThread \in Thread
  BY NewThreadFacts
<1>4. /\ thread' \in [Tids -> Thread] /\ thread'[u] = NewThread
      /\ \A v \in Tids : v # u => thread'[v] = thread[v]
  BY <1>2, <1>3, SetThread DEF IInv
<1>5. thread'[u].st = "run" /\ ~thread'[u].news /\ ~thread'[u].pend /\ ~thread'[u].traced
  BY <1>4, NewThreadFacts
<1>6. /\ dpc \notin Forking \cup {"notes"} /\ ~(mode = "direct" /\ dpc = "dump") /\ Alive(1)
  BY <1>1, NobodyWorks
<1>7. u # 1 /\ thread'[1] = thread[1] /\ u \notin seen
  BY <1>2, <1>4, OneIsThread DEF IInv, ThreadsKept
<1>8. TypeInv'
  BY <1>1, <1>4 DEF IInv, TypeInv, toolVars
<1>9. ThreadsKept'
  <2>1. Alive(1)'
    BY <1>6, <1>7 DEF Alive
  <2>2. \A v \in Tids : (Stopped(v) \/ thread[v].pend => thread[v].traced)'
    BY <1>4, <1>5 DEF IInv, ThreadsKept, Stopped, Stops
  <2> QED BY <1>1, <1>4, <1>5, <1>7, <2>1, <2>2 DEF IInv, ThreadsKept, TypeInv, toolVars
<1>10. TracesSeized'
  <2>1. u \notin attached \/ dpc \notin Attaching \cup Forking
    BY <1>7 DEF IInv, TracesSeized
  <2> QED BY <1>1, <1>4, <1>5, <1>7, <2>1 DEF IInv, TracesSeized, Alive, toolVars
<1>11. StopsDue'
  <2>1. dpc \in Attaching => u \notin attached
    BY <1>7 DEF IInv, TracesSeized
  <2> QED BY <1>1, <1>4, <1>7, <2>1 DEF IInv, TypeInv, StopsDue, Due, toolVars
<1>12. AllFrozen'
  BY <1>1, <1>6 DEF AllFrozen, toolVars, Forking, Injecting
<1>13. Hijack' /\ Moment'
  BY <1>1, <1>7 DEF IInv, Hijack, Moment, Alive, toolVars
<1> QED BY <1>8, <1>9, <1>10, <1>11, <1>12, <1>13 DEF IInv

LEMMA ExitInv ==
    ASSUME IInv, NEW t \in Tids, Exit(t) PROVE IInv'
<1> DEFINE x == [thread[t] EXCEPT !.st = "dead", !.news = thread[t].traced, !.pend = FALSE]
<1>1. Own(t) /\ t # 1 /\ UNCHANGED <<toolVars, process>>
  BY DEF Exit
<1>2. thread' = [thread EXCEPT ![t] = x]
  BY DEF Exit
<1>3. x \in Thread /\ x.st = "dead" /\ x.news = thread[t].traced /\ x.pend = FALSE /\ x.traced = thread[t].traced
  BY ThreadFacts DEF IInv, Thread
<1> HIDE DEF x
<1>4. /\ thread' \in [Tids -> Thread] /\ thread'[t] = x
      /\ \A v \in Tids : v # t => thread'[v] = thread[v]
  BY <1>2, <1>3, SetThread DEF IInv
<1>5. /\ dpc \notin Forking \cup {"notes"} /\ ~(mode = "direct" /\ dpc = "dump") /\ Alive(1)
  BY <1>1, NobodyWorks
<1>6. thread'[1] = thread[1]
  BY <1>1, <1>4, OneIsThread
<1>7. TypeInv'
  BY <1>1, <1>4 DEF IInv, TypeInv, toolVars
<1>8. ThreadsKept'
  <2>1. Alive(1)'
    BY <1>5, <1>6 DEF Alive
  <2>2. \A v \in Tids : (Stopped(v) \/ thread[v].pend => thread[v].traced)'
    BY <1>3, <1>4 DEF IInv, ThreadsKept, Stopped, Stops
  <2>3. \A v \in Tids : thread'[v].traced => thread[v].traced
    BY <1>3, <1>4
  <2> QED BY <1>1, <1>3, <1>4, <1>6, <2>1, <2>2, <2>3 DEF IInv, ThreadsKept, TypeInv, toolVars
<1>9. TracesSeized'
  BY <1>1, <1>3, <1>4 DEF IInv, TracesSeized, Alive, Stops, toolVars
<1>10. StopsDue'
  <2>1. dpc \in Attaching /\ t \in attached => x.news
    BY <1>3 DEF IInv, TracesSeized
  <2>2. dpc \in Attaching => \A v \in attached : v \in Tids /\ (v = t \/ thread'[v] = thread[v])
    BY <1>4 DEF IInv, TypeInv
  <2> QED BY <1>1, <1>3, <1>4, <2>1, <2>2 DEF IInv, StopsDue, Due, toolVars
<1>11. AllFrozen'
  BY <1>1, <1>5 DEF AllFrozen, toolVars, Forking, Injecting
<1>12. Hijack' /\ Moment'
  BY <1>1, <1>6 DEF IInv, Hijack, Moment, Alive, toolVars
<1> QED BY <1>7, <1>8, <1>9, <1>10, <1>11, <1>12 DEF IInv

\* A traced thread stops.
LEMMA StopInv ==
    ASSUME IInv, NEW t \in Tids, NEW kind \in Stops, UNCHANGED toolVars,
           thread[t].st = "run", thread[t].traced, thread' = [thread EXCEPT ![t] = StopAs(@, kind)],
           process' \in Process, process'.mem = process.mem, process'.code = process.code,
           process'.settable = process.settable,
           \/ t # 1 \/ process.regs = "own"
           \/ kind = "forkstop" /\ process'.regs = "insyscall" /\ process'.copy = process.mem
           \/ kind # "forkstop" /\ process'.regs \in {"syscall", "int3"} /\ process'.copy = process.copy,
           t # 1 \/ process.regs = "own" => process' = [process EXCEPT !.signals = process'.signals],
           process'.child = process.child \/ process.regs # "own"
    PROVE  IInv'
<1> DEFINE x == StopAs(thread[t], kind)
<1>1. x \in Thread /\ x.st = kind /\ x.news /\ ~x.pend /\ x.traced
  BY ThreadFacts, StopAsFacts DEF IInv
<1>2. thread' = [thread EXCEPT ![t] = x]
  OBVIOUS
<1> HIDE DEF x
<1>3. /\ thread' \in [Tids -> Thread] /\ thread'[t] = x
      /\ \A v \in Tids : v # t => thread'[v] = thread[v]
  BY <1>1, <1>2, SetThread DEF IInv
<1>4. Alive(t) /\ ~Stopped(t) /\ Alive(1)
  BY DEF IInv, ThreadsKept, Alive, Stopped, Stops
<1>5. \A v \in Tids : (Alive(v)' <=> Alive(v)) /\ (Stopped(v) => Stopped(v)')
                      /\ (thread'[v].traced <=> thread[v].traced)
  BY <1>1, <1>3, <1>4 DEF Alive, Stopped
<1>6. TypeInv'
  BY <1>3 DEF IInv, TypeInv, toolVars
<1>7. ThreadsKept'
  <2>1. \A v \in Tids : (Stopped(v) \/ thread[v].pend => thread[v].traced)'
    BY <1>1, <1>3 DEF IInv, ThreadsKept, Stopped, Stops
  <2>2. \A v \in seen : thread'[v].st # "none"
    BY <1>1, <1>3 DEF IInv, TypeInv, ThreadsKept, Stops
  <2>3. thread'[1].st # "none"
    BY <1>1, <1>3, OneIsThread DEF IInv, TypeInv, ThreadsKept, Stops
  <2>4. Alive(1)'
    BY <1>4, <1>5, OneIsThread
  <2> QED BY <1>5, <2>1, <2>2, <2>3, <2>4 DEF IInv, ThreadsKept, toolVars
<1>8. TracesSeized'
  BY <1>5 DEF IInv, TracesSeized, toolVars
<1>9. StopsDue'
  <2>1. dpc \in Attaching => t \notin attached \ awaiting
    BY DEF IInv, StopsDue
  <2>2. dpc \in Attaching => \A v \in attached : v \in Tids /\ (v = t \/ thread'[v] = thread[v])
    BY <1>3 DEF IInv, TypeInv
  <2> QED BY <1>1, <1>3, <2>1, <2>2 DEF IInv, StopsDue, Due, toolVars
<1>10. AllFrozen'
  BY <1>5, OneIsThread DEF IInv, AllFrozen, Frozen, toolVars
<1>11. Hijack' /\ Moment'
  <2>1. CASE t # 1 \/ process.regs = "own"
    <3>1. /\ process'.regs = process.regs /\ process'.copy = process.copy
          /\ process'.child = process.child /\ process'.code = process.code
      BY <2>1 DEF IInv, TypeInv, Process
    <3>2. Moment'
      BY <3>1 DEF IInv, Moment, toolVars
    <3>3. t = 1 => dpc \notin {"await", "gotfork"}
      BY <1>4, <2>1 DEF IInv, Hijack
    <3>4. t # 1 => thread'[1] = thread[1]
      BY <1>3, OneIsThread
    <3>5. Hijack'
      BY <1>5, <3>1, <3>3, <3>4, OneIsThread DEF IInv, Hijack, toolVars
    <3> QED BY <3>2, <3>5
  <2>2. CASE t = 1 /\ process.regs # "own"
    <3>1. ~Stopped(1) /\ Alive(1) /\ dpc = "await"
      BY <1>4, <2>2 DEF IInv, AllFrozen, Hijack, TypeInv, Forking, Injecting
    <3>2. dpc' = "await" /\ thread'[1] = x /\ process.mem = noted
      BY <1>3, <2>2, <3>1 DEF toolVars, IInv, Moment, Forking, Injecting
    <3>3. Hijack'
      <4>1. x.traced /\ x.news /\ x.st \in Stops
        BY <1>1
      <4>2. \/ x.st = "forkstop" /\ process'.regs = "insyscall"
            \/ x.st \in {"signal", "event", "trap"} /\ process'.regs \in {"syscall", "int3"}
        BY <1>1, <2>2 DEF Stops
      <4>3. forkState' /\ process'.settable
        BY <3>1 DEF IInv, Hijack, Injecting, toolVars
      <4> QED BY <3>2, <4>1, <4>2, <4>3 DEF Hijack, Injecting
    <3>4. Moment'
      BY <2>2, <3>1, <3>2 DEF IInv, Moment, toolVars, Attaching
    <3> QED BY <3>3, <3>4
  <2> QED BY <2>1, <2>2
<1> QED BY <1>6, <1>7, <1>8, <1>9, <1>10, <1>11 DEF IInv


LEMMA HijackedRegs ==
    ASSUME IInv, thread[1].st = "run", process.regs # "own"
    PROVE  /\ dpc = "await" /\ process.regs \in {"syscall", "insyscall"} /\ thread[1].traced
<1>1. Alive(1) /\ ~Stopped(1)
  BY DEF Alive, Stopped, Stops
<1>2. dpc = "await"
  BY <1>1 DEF IInv, AllFrozen, Hijack, TypeInv, Forking, Injecting
<1> QED BY <1>1, <1>2 DEF IInv, Hijack

LEMMA ReturnedRegs ==
    ASSUME IInv, NEW t \in Tids, thread[t].st = "run"
    PROVE  /\ t # 1 \/ process.regs = "own" => Returned(t) = process.regs
           /\ ~(t # 1 \/ process.regs = "own") => Returned(t) \in {"syscall", "int3"}
           /\ Returned(t) \in {"own", "syscall", "insyscall", "int3", "lost"}
BY HijackedRegs, ProcessFacts DEF Returned, IInv

LEMMA SignalInv ==
    ASSUME IInv, NEW t \in Tids, Signal(t) PROVE IInv'
<1>1. /\ thread[t].st = "run" /\ thread[t].traced /\ process.signals > 0
      /\ thread' = [thread EXCEPT ![t] = StopAs(@, "signal")]
      /\ process' = [process EXCEPT !.signals = @ - 1, !.regs = Returned(t)]
      /\ UNCHANGED toolVars
  BY DEF Signal
<1>2. /\ process \in Process /\ process.signals - 1 \in Nat
      /\ Returned(t) \in {"own", "syscall", "insyscall", "int3", "lost"}
  BY <1>1, ReturnedRegs, ProcessFacts DEF IInv, TypeInv
<1>3. /\ process' \in Process /\ process'.mem = process.mem /\ process'.code = process.code
      /\ process'.settable = process.settable /\ process'.copy = process.copy
      /\ process'.child = process.child /\ process'.regs = Returned(t)
  BY <1>1, <1>2 DEF Process
<1>4. t # 1 \/ process.regs = "own" => process' = [process EXCEPT !.signals = process'.signals]
  BY <1>1, <1>2, ReturnedRegs DEF Process
<1>5. "signal" \in Stops /\ "signal" # "forkstop"
  BY DEF Stops
<1>6. t # 1 \/ process.regs = "own" \/ process'.regs \in {"syscall", "int3"}
  BY <1>1, <1>3, ReturnedRegs
<1> QED BY <1>1, <1>3, <1>4, <1>5, <1>6, StopInv

LEMMA InterruptedInv ==
    ASSUME IInv, NEW t \in Tids, Interrupted(t) PROVE IInv'
<1>1. /\ thread[t].st = "run" /\ thread[t].pend
      /\ thread' = [thread EXCEPT ![t] = StopAs(@, "event")]
      /\ process' = [process EXCEPT !.regs = Returned(t)]
      /\ UNCHANGED toolVars
  BY DEF Interrupted
<1>2. /\ process \in Process /\ thread[t].traced
      /\ Returned(t) \in {"own", "syscall", "insyscall", "int3", "lost"}
  BY <1>1, ReturnedRegs DEF IInv, TypeInv, ThreadsKept
<1>3. /\ process' \in Process /\ process'.mem = process.mem /\ process'.code = process.code
      /\ process'.settable = process.settable /\ process'.copy = process.copy
      /\ process'.child = process.child /\ process'.regs = Returned(t)
  BY <1>1, <1>2 DEF Process
<1>4. t # 1 \/ process.regs = "own" => process' = [process EXCEPT !.signals = process'.signals]
  BY <1>1, <1>2, ReturnedRegs DEF Process
<1>5. "event" \in Stops /\ "event" # "forkstop"
  BY DEF Stops
<1>6. t # 1 \/ process.regs = "own" \/ process'.regs \in {"syscall", "int3"}
  BY <1>1, <1>3, ReturnedRegs
<1> QED BY <1>1, <1>2, <1>3, <1>4, <1>5, <1>6, StopInv

LEMMA HijackedInv ==
    ASSUME IInv, Hijacked PROVE IInv'
<1>1. /\ thread[1].st = "run" /\ process.regs \in {"syscall", "insyscall"} /\ UNCHANGED toolVars
  BY DEF Hijacked
<1>2. thread[1].traced /\ process.regs # "own" /\ process \in Process /\ process.mem \in Nat /\ 1 \in Tids
  BY <1>1, HijackedRegs, ProcessFacts, OneIsThread DEF IInv, TypeInv
<1>3. CASE /\ thread' = [thread EXCEPT ![1] = StopAs(@, "forkstop")]
           /\ process' = [process EXCEPT !.regs = "insyscall", !.child = "held", !.copy = process.mem]
  <2>1. /\ process'.mem = process.mem /\ process'.code = process.code
        /\ process'.settable = process.settable /\ process'.copy = process.mem /\ process'.regs = "insyscall"
    BY <1>2, <1>3 DEF Process
  <2>3. process.mem \in Int /\ "insyscall" \in {"own", "syscall", "insyscall", "int3", "lost"}
        /\ "held" \in {"none", "held", "killed", "died"}
    BY <1>2
  <2>4. process' \in Process
    BY <1>2, <1>3, <2>3 DEF Process
  <2>2. "forkstop" \in Stops
    BY DEF Stops
  <2> QED BY <1>1, <1>2, <1>3, <2>1, <2>2, <2>4, StopInv
<1>4. CASE /\ thread' = [thread EXCEPT ![1] = StopAs(@, "trap")]
           /\ process' = [process EXCEPT !.regs = "int3"]
  <2>1. /\ process' \in Process /\ process'.mem = process.mem /\ process'.code = process.code
        /\ process'.settable = process.settable /\ process'.copy = process.copy /\ process'.regs = "int3"
    BY <1>2, <1>4 DEF Process
  <2>2. "trap" \in Stops /\ "trap" # "forkstop"
    BY DEF Stops
  <2> QED BY <1>1, <1>2, <1>4, <2>1, <2>2, StopInv
<1> QED BY <1>3, <1>4 DEF Hijacked

\* Everything dies at once.
LEMMA KilledInv ==
    ASSUME IInv, Killed PROVE IInv'
<1> DEFINE x(t) == [thread[t] EXCEPT !.st = "dead", !.news = @ \/ thread[t].traced, !.pend = FALSE]
<1>1. UNCHANGED <<toolVars, process>> /\ Alive(1)
  BY DEF Killed, ProcessAlive
<1>2. thread' = [t \in Tids |-> IF Alive(t) THEN x(t) ELSE thread[t]]
  BY DEF Killed
<1>3. \A t \in Tids : /\ x(t) \in Thread
                      /\ x(t).st = "dead" /\ x(t).news = (thread[t].news \/ thread[t].traced)
                      /\ x(t).pend = FALSE /\ x(t).traced = thread[t].traced
  <2> TAKE t \in Tids
  <2>1. thread[t] \in Thread /\ (thread[t].news \/ thread[t].traced) \in BOOLEAN
    BY ThreadFacts DEF IInv
  <2> QED BY <2>1 DEF Thread
<1> HIDE DEF x
<1>4. /\ thread' \in [Tids -> Thread]
      /\ \A t \in Tids : /\ Alive(t) => thread'[t] = x(t)
                         /\ ~Alive(t) => thread'[t] = thread[t]
  BY <1>2, <1>3 DEF IInv, TypeInv
<1>5. \A t \in Tids : /\ ~Alive(t)' /\ ~Stopped(t)' /\ (thread'[t].traced <=> thread[t].traced)
                      /\ (Alive(t) => thread'[t].st = "dead")
                      /\ thread'[t].pend => thread[t].pend
                      /\ thread[t].news => thread'[t].news
                      /\ Alive(t) /\ thread[t].traced => thread'[t].news
  BY <1>3, <1>4 DEF Alive, Stopped, Stops
<1>6. TypeInv'
  BY <1>1, <1>4 DEF IInv, TypeInv, toolVars
<1>7. ThreadsKept'
  <2>1. \A t \in Tids : thread[t].st # "none" => thread'[t].st # "none"
    BY <1>4, <1>5
  <2> QED BY <1>1, <1>5, <2>1, OneIsThread DEF IInv, TypeInv, ThreadsKept, toolVars
<1>8. TracesSeized'
  BY <1>1, <1>5 DEF IInv, TracesSeized, toolVars
<1>9. StopsDue'
  <2>1. dpc \in Attaching => \A t \in attached :
            /\ t \in Tids /\ thread[t].traced
            /\ (Alive(t) => thread'[t].st = "dead" /\ thread'[t].news)
            /\ (~Alive(t) => thread'[t] = thread[t])
    BY <1>4, <1>5 DEF IInv, TypeInv, TracesSeized
  <2>2. dpc \in Attaching => \A t \in awaiting : Due(t) => Due(t)'
    BY <2>1 DEF IInv, StopsDue, Due, Alive
  <2>3. dpc \in Attaching => \A t \in attached : thread[t].st \in {"event", "dead"} => thread'[t].st \in {"event", "dead"}
    BY <2>1
  <2>4. dpc \in {"interrupt", "again"} => thread'[current].news \/ thread'[current].st = "run"
    BY <2>1 DEF IInv, StopsDue, Alive, Attaching
  <2> QED BY <1>1, <2>2, <2>3, <2>4 DEF IInv, StopsDue, toolVars
<1>10. AllFrozen'
  BY <1>1, <1>5, OneIsThread DEF IInv, AllFrozen, Frozen, toolVars
<1>11. Hijack'
  <2>1. dpc = "await" => thread'[1].news
    BY <1>1, <1>5, OneIsThread DEF IInv, Hijack
  <2> QED BY <1>1, <1>5, <2>1, OneIsThread DEF IInv, Hijack, toolVars
<1>12. Moment'
  BY <1>1 DEF IInv, Moment, toolVars
<1> QED BY <1>6, <1>7, <1>8, <1>9, <1>10, <1>11, <1>12 DEF IInv

LEMMA ProcessStepInv ==
    ASSUME IInv, ProcessStep PROVE IInv'
BY WorkInv, SpawnInv, ExitInv, SignalInv, InterruptedInv, KilledInv, HijackedInv DEF ProcessStep

-----------------------------------------------------------------------------
(* Ends of the tool.                                                         *)

\* Processes that may be left to themselves.
Good(p) == p \in Process /\ p.settable /\ (Alive(1) => p.code = "own" /\ p.regs = "own")

LEMMA GoneInv ==
    ASSUME IInv, NEW p, Good(p), Gone(p) PROVE IInv'
<1>1. /\ dpc' = "gone" /\ forkState' = FALSE /\ forkedPid' = FALSE
      /\ attached' = {} /\ awaiting' = {} /\ toSeize' = {} /\ current' = 0
      /\ mode' = mode /\ seen' = seen /\ noted' = noted /\ dumped' = dumped
      /\ thread' = [t \in Tids |-> IF thread[t].traced THEN Detached(thread[t]) ELSE thread[t]]
      /\ process' = [p EXCEPT !.child = IF @ = "held" THEN "died" ELSE @]
  BY DEF Gone
<1>2. \A t \in Tids : Detached(thread[t]) \in Thread /\ thread[t] \in Thread
  BY DetachedFacts, ThreadFacts DEF IInv
<1>3. /\ thread' \in [Tids -> Thread]
      /\ \A t \in Tids : /\ thread[t].traced => thread'[t] = Detached(thread[t])
                         /\ ~thread[t].traced => thread'[t] = thread[t]
  BY <1>1, <1>2
<1>4. \A t \in Tids : /\ ~thread'[t].traced /\ ~thread'[t].pend /\ ~Stopped(t)'
                      /\ Alive(t)' <=> Alive(t)
                      /\ thread[t].st # "none" => thread'[t].st # "none"
  <2> TAKE t \in Tids
  <2>1. CASE thread[t].traced
    BY <1>2, <1>3, <2>1, DetachedFacts DEF Alive, Stopped, Stops
  <2>2. CASE ~thread[t].traced
    BY <1>3, <2>2 DEF IInv, ThreadsKept, Alive, Stopped
  <2> QED BY <2>1, <2>2
<1>5. /\ p \in Process /\ p.settable /\ p.child \in {"none", "held", "killed", "died"}
  BY DEF Good, Process
<1>6. /\ process'.settable = p.settable /\ process'.code = p.code /\ process'.regs = p.regs
      /\ process'.child # "held"
  BY <1>1, <1>5 DEF Process
<1>7. process' \in Process
  BY <1>1, <1>5 DEF Process
<1>8. TypeInv'
  BY <1>1, <1>3, <1>7 DEF IInv, TypeInv
<1>9. ThreadsKept'
  BY <1>1, <1>4, OneIsThread DEF IInv, TypeInv, ThreadsKept
<1>10. TracesSeized' /\ StopsDue' /\ AllFrozen'
  BY <1>1 DEF TracesSeized, StopsDue, AllFrozen, Attaching, Forking, Injecting
<1>11. Hijack'
  <2>1. Alive(1)' => process'.code = "own" /\ process'.regs = "own"
    BY <1>4, <1>6, OneIsThread DEF Good
  <2>2. process'.settable
    BY <1>5, <1>6
  <2> QED BY <1>1, <1>6, <2>1, <2>2 DEF Hijack, Injecting
<1>12. Moment'
  BY <1>1 DEF IInv, Moment, Attaching, Forking, Injecting
<1> QED BY <1>8, <1>9, <1>10, <1>11, <1>12 DEF IInv

LEMMA RestoredGood ==
    ASSUME NEW p \in Process, p.settable, p.regs # "insyscall", Stopped(1) PROVE Good(RestoredBy(p))
<1> DEFINE q == [p EXCEPT !.code = "own", !.regs = "own"]
<1>1. RestoredBy(p) = q
  BY DEF RestoredBy, Restorable
<1>2. q \in Process /\ q.settable = p.settable /\ q.code = "own" /\ q.regs = "own"
  BY DEF Process
<1> HIDE DEF q
<1> QED BY <1>1, <1>2 DEF Good

LEMMA CleanupGood ==
    ASSUME NEW p, Good(p), ~forkState PROVE Good(Cleanup(p))
<1> DEFINE q == [p EXCEPT !.child = IF forkedPid /\ @ # "none" THEN "killed" ELSE @]
<1>1. Cleanup(p) = q
  BY DEF Cleanup
<1>2. p \in Process /\ q \in Process /\ q.settable = p.settable /\ q.code = p.code /\ q.regs = p.regs
  BY DEF Process, Good
<1> HIDE DEF q
<1> QED BY <1>1, <1>2 DEF Good

\* Where nothing critical is under way, cleanup() puts everything back.
LEMMA CleanupOwn ==
    ASSUME IInv, ~CriticalPoint PROVE Good(Cleanup(process))
<1>1. process \in Process /\ process.settable /\ (forkState <=> dpc \in Injecting)
  BY DEF IInv, TypeInv, Hijack
<1>2. CASE ~forkState
  <2>1. dpc \notin Injecting /\ dpc # "taken"
    BY <1>1, <1>2 DEF CriticalPoint
  <2>2. Good(process)
    BY <1>1, <2>1 DEF Good, IInv, Hijack
  <2> QED BY <1>2, <2>2, CleanupGood
<1>3. CASE forkState
  <2> DEFINE r == RestoredBy(process)
  <2>1. CASE Stopped(1)
    <3>1. Alive(1)
      BY <2>1 DEF Alive, Stopped
    <3>2. process.regs # "insyscall"
      <4>1. dpc \in Injecting /\ Alive(1)
        BY <1>1, <1>3, <3>1
      <4>2. dpc \notin {"await", "gotfork"} => process.regs \in {"own", "syscall", "int3"}
        BY <4>1 DEF IInv, Hijack, Injecting
      <4> QED BY <2>1, <4>2 DEF CriticalPoint
    <3>3. Good(r)
      BY <1>1, <2>1, <3>2, RestoredGood
    <3> HIDE DEF r
    <3>4. Good([r EXCEPT !.child = IF forkedPid /\ @ # "none" THEN "killed" ELSE @])
      <4> DEFINE q == [r EXCEPT !.child = IF forkedPid /\ @ # "none" THEN "killed" ELSE @]
      <4>1. q \in Process /\ q.settable = r.settable /\ q.code = r.code /\ q.regs = r.regs
        BY <3>3 DEF Process, Good
      <4> HIDE DEF q
      <4>2. Good(q)
        BY <3>3, <4>1 DEF Good
      <4> QED BY <4>2 DEF q
    <3> QED BY <1>3, <3>4 DEF Cleanup, r
  <2>2. CASE ~Stopped(1)
    <3>1. r = process
      BY <2>2 DEF RestoredBy, Restorable
    <3>2. Alive(1) => dpc = "poke"
      BY <1>1, <1>3, <2>2 DEF IInv, AllFrozen, CriticalPoint, Injecting
    <3>3. Good(process)
      BY <1>1, <3>2 DEF Good, IInv, Hijack
    <3> DEFINE q == [process EXCEPT !.child = IF forkedPid /\ @ # "none" THEN "killed" ELSE @]
    <3>4. q \in Process /\ q.settable = process.settable /\ q.code = process.code /\ q.regs = process.regs
      BY <1>1 DEF Process
    <3>5. Cleanup(process) = q
      BY <1>3, <3>1 DEF Cleanup
    <3> HIDE DEF q
    <3> QED BY <3>3, <3>4, <3>5 DEF Good
  <2> QED BY <2>1, <2>2
<1> QED BY <1>1, <1>2, <1>3 DEF IInv, TypeInv

LEMMA FailInv ==
    ASSUME IInv, ~CriticalPoint, Fail PROVE IInv'
BY CleanupOwn, GoneInv DEF Fail

LEMMA FatalSignalInv ==
    ASSUME "critical" \notin Ops, IInv, FatalSignal PROVE IInv'
BY FailInv DEF FatalSignal, Fail

-----------------------------------------------------------------------------
(* Attaching.                                                                *)

LEMMA AttachingFacts ==
    ASSUME IInv, dpc \in Attaching
    PROVE  /\ ~CriticalPoint /\ ~forkState /\ ~forkedPid /\ dumped = {} /\ process.settable
           /\ Alive(1) => process.code = "own" /\ process.regs = "own"
BY DEF IInv, CriticalPoint, Hijack, Moment, Attaching, Injecting

\* While it attaches, the tool changes neither the process nor what it has noted.
LEMMA StillAttaching ==
    ASSUME IInv, dpc \in Attaching, dpc' \in Attaching, process' = process, Alive(1)' => Alive(1), RestUnchanged
    PROVE  Hijack' /\ Moment'
<1>1. ~forkState' /\ ~forkedPid' /\ dumped' = {} /\ process'.settable
  BY AttachingFacts DEF RestUnchanged
<1>2. Alive(1)' => process'.code = "own" /\ process'.regs = "own"
  BY AttachingFacts
<1>3. Hijack'
  BY <1>1, <1>2 DEF Hijack, Attaching, Injecting
<1>4. Moment'
  BY <1>1 DEF Moment, Attaching, Forking, Injecting
<1> QED BY <1>3, <1>4

LEMMA ListThreadsInv ==
    ASSUME IInv, ListThreads PROVE IInv'
<1> DEFINE added == {t \in Tids : Alive(t)} \ seen
<1>1. dpc = "list" /\ dpc \in Attaching
  BY DEF ListThreads, Attaching
<1>2. CASE Fail
  BY <1>1, <1>2, AttachingFacts, FailInv
<1>3. CASE ~Fail
  <2>1. /\ ProcessAlive /\ seen' = seen \cup added /\ toSeize' = added
        /\ dpc' = (IF added = {} THEN "notes" ELSE "seize")
        /\ RestUnchanged /\ UNCHANGED <<attached, awaiting, current, thread, process>>
    BY <1>3 DEF ListThreads, AllListed, Goto
  <2>2. \A t \in Tids : t \in added <=> Alive(t) /\ t \notin seen
    OBVIOUS
  <2>3. added \in SUBSET Tids
    OBVIOUS
  <2> HIDE DEF added
  <2>4. toSeize = {} /\ awaiting = {} /\ current = 0
    BY <1>1 DEF IInv, StopsDue, Attaching
  <2>5. dpc' \in {"notes", "seize"} /\ (dpc' = "notes" => added = {})
    BY <2>1
  <2>6. TypeInv'
    BY <2>1, <2>3, <2>5 DEF IInv, TypeInv, RestUnchanged, Attaching
  <2>7. ThreadsKept'
    <3>1. \A t \in added : thread[t].st # "none"
      BY <2>2, <2>3 DEF Alive, Stops
    <3> QED BY <2>1, <2>5, <3>1 DEF IInv, ThreadsKept, Alive, Stopped
  <2>8. TracesSeized'
    <3>1. \A t \in Tids : t \in seen' \ toSeize' <=> t \in seen \ toSeize
      BY <2>1, <2>2, <2>4
    <3> QED BY <1>1, <2>1, <3>1 DEF IInv, TracesSeized, Alive
  <2>9. StopsDue'
    BY <1>1, <2>1, <2>4, <2>5 DEF IInv, StopsDue, Due
  <2>10. AllFrozen'
    <3>1. dpc' = "notes" => \A t \in Tids : Alive(t) => Stopped(t)
      BY <1>1, <2>2, <2>4, <2>5 DEF IInv, TracesSeized, StopsDue, Alive, Stopped, Stops
    <3> QED BY <2>1, <2>5, <3>1, OneIsThread DEF AllFrozen, Frozen, Forking, Injecting, Alive, Stopped
  <2>11. Hijack' /\ Moment'
    BY <1>1, <2>1, <2>5, StillAttaching DEF Attaching, Alive
  <2> QED BY <2>6, <2>7, <2>8, <2>9, <2>10, <2>11 DEF IInv
<1> QED BY <1>2, <1>3

LEMMA SeizeInv ==
    ASSUME IInv, Seize PROVE IInv'
<1>1. dpc = "seize" /\ dpc \in Attaching /\ current = 0 /\ current \notin Tids
  BY OneIsThread DEF Seize, Attaching, IInv, StopsDue
<1>2. CASE /\ toSeize = {} /\ Goto("wait")
           /\ RestUnchanged /\ UNCHANGED <<seen, attached, awaiting, toSeize, current, thread, process>>
  <2>1. dpc' = "wait"
    BY <1>2 DEF Goto
  <2>2. TypeInv' /\ ThreadsKept' /\ TracesSeized' /\ StopsDue' /\ AllFrozen'
    BY <1>1, <1>2, <2>1 DEF IInv, RestUnchanged, TypeInv, ThreadsKept, TracesSeized, StopsDue, Due,
       AllFrozen, Frozen, Attaching, Forking, Injecting, Alive, Stopped
  <2>3. Hijack' /\ Moment'
    BY <1>1, <1>2, <2>1, StillAttaching DEF Attaching, Alive
  <2> QED BY <2>2, <2>3 DEF IInv
<1>3. CASE Fail
  BY <1>1, <1>3, AttachingFacts, FailInv
<1>4. ASSUME NEW t \in toSeize, Alive(t), thread' = [thread EXCEPT ![t].traced = TRUE],
             attached' = attached \cup {t}, awaiting' = awaiting \cup {t},
             toSeize' = toSeize \ {t}, current' = t, Goto("interrupt"),
             RestUnchanged, UNCHANGED <<seen, process>>
      PROVE  IInv'
  <2> DEFINE x == [thread[t] EXCEPT !.traced = TRUE]
  <2>1. t \in Tids /\ t \in seen /\ t \in toSeize /\ ~thread[t].traced /\ dpc' = "interrupt"
    BY <1>1, <1>4 DEF IInv, TypeInv, StopsDue, TracesSeized, Goto
  <2>2. /\ x \in Thread /\ x.st = thread[t].st /\ x.news = thread[t].news /\ x.pend = thread[t].pend
        /\ x.traced = TRUE
    BY <2>1, ThreadFacts DEF IInv, Thread
  <2>3. thread' = [thread EXCEPT ![t] = x]
    BY <1>4
  <2> HIDE DEF x
  <2>4. /\ thread' \in [Tids -> Thread] /\ thread'[t] = x
        /\ \A v \in Tids : v # t => thread'[v] = thread[v]
    BY <2>1, <2>2, <2>3, SetThread DEF IInv
  <2>5. thread[t].st = "run"
    BY <1>4, <2>1 DEF IInv, ThreadsKept, Alive, Stopped
  <2>6. \A v \in Tids : thread'[v].st = thread[v].st /\ thread'[v].news = thread[v].news /\ thread'[v].pend = thread[v].pend
    BY <2>2, <2>4
  <2>7. TypeInv'
    BY <1>4, <2>1, <2>4 DEF IInv, TypeInv, RestUnchanged, Attaching
  <2>8. ThreadsKept'
    <3>1. \A v \in Tids : (Stopped(v) \/ thread[v].pend => thread[v].traced)'
      BY <2>2, <2>4 DEF IInv, ThreadsKept, Stopped
    <3> QED BY <1>4, <2>1, <2>6, <3>1, OneIsThread DEF IInv, TypeInv, ThreadsKept, Alive
  <2>9. TracesSeized'
    BY <1>1, <1>4, <2>1, <2>2, <2>4 DEF IInv, TracesSeized, Alive
  <2>10. StopsDue'
    <3>1. \A v \in attached : v \in Tids /\ thread'[v].st = thread[v].st
      BY <2>6 DEF IInv, TypeInv
    <3>2. \A v \in awaiting : Due(v)' <=> Due(v)
      BY <2>6 DEF IInv, TypeInv, Due
    <3>3. \A v \in awaiting : Due(v)
      BY <1>1 DEF IInv, TypeInv, StopsDue
    <3>4. thread'[t].st = "run"
      BY <2>1, <2>5, <2>6
    <3> QED BY <1>1, <1>4, <2>1, <3>1, <3>2, <3>3, <3>4 DEF IInv, StopsDue, Attaching
  <2>11. AllFrozen'
    BY <2>1 DEF AllFrozen, Forking, Injecting
  <2>12. Hijack' /\ Moment'
    BY <1>1, <1>4, <2>1, <2>6, OneIsThread, StillAttaching DEF Attaching, Alive
  <2> QED BY <2>7, <2>8, <2>9, <2>10, <2>11, <2>12 DEF IInv
<1> QED BY <1>2, <1>3, <1>4 DEF Seize

LEMMA InterruptInv ==
    ASSUME IInv, Interrupt PROVE IInv'
<1>1. dpc \in {"interrupt", "again"} /\ dpc \in Attaching
  BY DEF Interrupt, Attaching
<1>2. CASE Fail
  BY <1>1, <1>2, AttachingFacts, FailInv
<1>3. CASE ~Fail
  <2> DEFINE x == [thread[current] EXCEPT !.pend = TRUE]
  <2>1. /\ Alive(current) /\ thread' = [thread EXCEPT ![current].pend = TRUE]
        /\ dpc' = (IF dpc = "again" THEN "wait" ELSE "seize") /\ current' = 0
        /\ RestUnchanged /\ UNCHANGED <<seen, attached, awaiting, toSeize, process>>
    BY <1>3 DEF Interrupt, Goto
  <2>2. dpc' \in {"wait", "seize"} /\ (dpc' = "wait" => dpc = "again")
    BY <2>1
  <2>3. /\ current \in awaiting /\ current \in attached /\ current \in Tids
        /\ (thread[current].news \/ thread[current].st = "run") /\ thread[current].traced
    BY <1>1 DEF IInv, TypeInv, StopsDue, TracesSeized, Attaching
  <2>4. /\ x \in Thread /\ x.st = thread[current].st /\ x.news = thread[current].news /\ x.pend = TRUE
        /\ x.traced = thread[current].traced
    BY <2>3, ThreadFacts DEF IInv, Thread
  <2>5. thread' = [thread EXCEPT ![current] = x]
    BY <2>1
  <2> HIDE DEF x
  <2>6. /\ thread' \in [Tids -> Thread] /\ thread'[current] = x
        /\ \A v \in Tids : v # current => thread'[v] = thread[v]
    BY <2>3, <2>4, <2>5, SetThread DEF IInv
  <2>7. \A v \in Tids : thread'[v].st = thread[v].st /\ thread'[v].news = thread[v].news /\ thread'[v].traced = thread[v].traced
    BY <2>4, <2>6
  <2>8. TypeInv'
    BY <2>1, <2>2, <2>6 DEF IInv, TypeInv, RestUnchanged, Attaching
  <2>9. ThreadsKept'
    <3>1. \A v \in Tids : (Stopped(v) \/ thread[v].pend => thread[v].traced)'
      BY <2>3, <2>4, <2>6 DEF IInv, ThreadsKept, Stopped
    <3> QED BY <2>1, <2>2, <2>7, <3>1, OneIsThread DEF IInv, TypeInv, ThreadsKept, Alive
  <2>10. TracesSeized'
    BY <1>1, <2>1, <2>2, <2>7 DEF IInv, TracesSeized, Alive
  <2>11. StopsDue'
    <3>1. \A v \in attached : v \in Tids /\ thread'[v].st = thread[v].st
      BY <2>7 DEF IInv, TypeInv
    <3>2. \A v \in awaiting : Due(v)'
      <4>1. \A v \in awaiting \ {current} : v \in Tids /\ Due(v)
        BY <1>1 DEF IInv, TypeInv, StopsDue
      <4>2. \A v \in Tids : v = current => Due(v)'
        BY <2>3, <2>4, <2>6 DEF Due
      <4>3. \A v \in awaiting \ {current} : Due(v)'
        BY <2>6, <4>1 DEF Due
      <4> QED BY <2>3, <4>2, <4>3
    <3>3. dpc' = "wait" => toSeize = {}
      BY <1>1, <2>2 DEF IInv, StopsDue
    <3> QED BY <1>1, <2>1, <2>2, <3>1, <3>2, <3>3 DEF IInv, StopsDue
  <2>12. AllFrozen'
    BY <2>2 DEF AllFrozen, Forking, Injecting
  <2>13. Hijack' /\ Moment'
    BY <1>1, <2>1, <2>2, <2>7, OneIsThread, StillAttaching DEF Attaching, Alive
  <2> QED BY <2>8, <2>9, <2>10, <2>11, <2>12, <2>13 DEF IInv
<1> QED BY <1>2, <1>3

\* The report of a thread that has stopped for good, or ended.
LEMMA ReportedInv ==
    ASSUME IInv, dpc = "wait", NEW t \in Tids, thread[t].traced, thread[t].news,
           t \notin awaiting \/ Waited(t),
           thread' = [thread EXCEPT ![t].news = FALSE], awaiting' = awaiting \ {t},
           attached' = IF t \in awaiting /\ thread[t].st = "dead" THEN attached \ {t} ELSE attached,
           UNCHANGED <<dpc, current>>, RestUnchanged, UNCHANGED <<seen, toSeize, process>>
    PROVE  IInv'
<1> DEFINE x == [thread[t] EXCEPT !.news = FALSE]
<1>1. /\ x \in Thread /\ x.st = thread[t].st /\ x.news = FALSE /\ x.pend = thread[t].pend
      /\ x.traced = thread[t].traced
  BY ThreadFacts DEF IInv, Thread
<1>2. thread' = [thread EXCEPT ![t] = x]
  OBVIOUS
<1> HIDE DEF x
<1>3. /\ thread' \in [Tids -> Thread] /\ thread'[t] = x
      /\ \A v \in Tids : v # t => thread'[v] = thread[v]
  BY <1>1, <1>2, SetThread DEF IInv
<1>4. \A v \in Tids : thread'[v].st = thread[v].st /\ thread'[v].pend = thread[v].pend /\ thread'[v].traced = thread[v].traced
  BY <1>1, <1>3
<1>5. dpc' = "wait" /\ attached' \subseteq attached /\ dpc \in Attaching /\ dpc' \in Attaching
  BY DEF Attaching
<1>6. TypeInv'
  BY <1>3, <1>5 DEF IInv, TypeInv, RestUnchanged
<1>7. ThreadsKept'
  <2>1. \A v \in Tids : (Stopped(v) \/ thread[v].pend => thread[v].traced)'
    BY <1>4 DEF IInv, ThreadsKept, Stopped
  <2> QED BY <1>4, <1>5, <2>1, OneIsThread DEF IInv, TypeInv, ThreadsKept, Alive
<1>8. TracesSeized'
  <2>1. \A v \in Tids : v \in attached /\ Alive(v) => v \in attached'
    BY DEF Alive, Stops
  <2> QED BY <1>4, <1>5, <2>1 DEF IInv, TracesSeized, Alive
<1>9. StopsDue'
  <2>1. toSeize' = {} /\ current' = 0 /\ awaiting' \subseteq attached'
    BY <1>5 DEF IInv, StopsDue, Attaching
  <2>2. \A v \in awaiting' : Due(v)'
    <3>1. \A v \in awaiting : v \in Tids /\ Due(v)
      BY <1>5, OneIsThread DEF IInv, TypeInv, StopsDue
    <3> QED BY <1>3, <3>1 DEF Due
  <2>3. \A v \in attached' \ awaiting' : thread'[v].st \in {"event", "dead"}
    BY <1>4, <1>5 DEF IInv, TypeInv, StopsDue, Waited
  <2> QED BY <1>5, <2>1, <2>2, <2>3 DEF StopsDue, IInv
<1>10. AllFrozen'
  BY <1>5 DEF AllFrozen, Forking, Injecting
<1>11. Hijack' /\ Moment'
  BY <1>4, <1>5, OneIsThread, StillAttaching DEF Alive
<1> QED BY <1>6, <1>7, <1>8, <1>9, <1>10, <1>11 DEF IInv

\* A thread that stopped for another reason runs on, to be interrupted again.
LEMMA OtherStopInv ==
    ASSUME IInv, dpc = "wait", NEW t \in awaiting, thread[t].traced, ~Waited(t),
           thread' = [thread EXCEPT ![t].news = FALSE, ![t].st = "run"],
           Goto(AfterOtherStop), current' = t, UNCHANGED <<attached, awaiting>>,
           RestUnchanged, UNCHANGED <<seen, toSeize, process>>
    PROVE  IInv'
<1> DEFINE x == [thread[t] EXCEPT !.news = FALSE, !.st = "run"]
<1>1. t \in Tids /\ dpc' = "again" /\ dpc \in Attaching /\ dpc' \in Attaching
  BY DEF IInv, TypeInv, Goto, AfterOtherStop, Attaching
<1>2. /\ x \in Thread /\ x.st = "run" /\ x.news = FALSE /\ x.pend = thread[t].pend
      /\ x.traced = thread[t].traced
  BY <1>1, ThreadFacts DEF IInv, Thread
<1>3. thread' = [thread EXCEPT ![t] = x]
  BY <1>1 DEF IInv, TypeInv
<1> HIDE DEF x
<1>4. /\ thread' \in [Tids -> Thread] /\ thread'[t] = x
      /\ \A v \in Tids : v # t => thread'[v] = thread[v]
  BY <1>1, <1>2, <1>3, SetThread DEF IInv
<1>5. Alive(t) /\ Alive(1)
  <2>1. t \in seen
    BY <1>1 DEF IInv, TracesSeized
  <2>2. Alive(t)
    BY <1>1, <2>1, ThreadFacts DEF IInv, ThreadsKept, Waited, Alive, Stops
  <2> QED BY <1>1, <2>2 DEF IInv, ThreadsKept
<1>6. \A v \in Tids : /\ Alive(v)' <=> Alive(v)
                      /\ thread'[v].traced = thread[v].traced /\ thread'[v].pend = thread[v].pend
                      /\ Stopped(v)' => Stopped(v)
                      /\ thread[v].st # "none" => thread'[v].st # "none"
  BY <1>2, <1>4, <1>5 DEF Alive, Stopped, Stops
<1>7. TypeInv'
  BY <1>1, <1>4 DEF IInv, TypeInv, RestUnchanged
<1>8. ThreadsKept'
  BY <1>1, <1>6, OneIsThread DEF IInv, TypeInv, ThreadsKept
<1>9. TracesSeized'
  BY <1>1, <1>6 DEF IInv, TracesSeized
<1>10. StopsDue'
  <2>1. \A v \in awaiting \ {t} : v \in Tids /\ Due(v)
    BY <1>1, OneIsThread DEF IInv, TypeInv, StopsDue
  <2>2. \A v \in awaiting' \ {current'} : Due(v)'
    BY <1>4, <2>1 DEF Due
  <2>3. \A v \in attached \ awaiting : v \in Tids /\ thread'[v] = thread[v]
    BY <1>4 DEF IInv, TypeInv
  <2>4. toSeize' = {} /\ thread'[current'].st = "run" /\ current' \in awaiting'
    BY <1>1, <1>2, <1>4 DEF IInv, StopsDue
  <2> QED BY <1>1, <2>2, <2>3, <2>4 DEF IInv, StopsDue
<1>11. AllFrozen'
  BY <1>1 DEF AllFrozen, Forking, Injecting
<1>12. Hijack' /\ Moment'
  BY <1>1, <1>6, OneIsThread, StillAttaching
<1> QED BY <1>7, <1>8, <1>9, <1>10, <1>11, <1>12 DEF IInv

LEMMA WaitInv ==
    ASSUME IInv, Wait PROVE IInv'
<1>1. dpc = "wait" /\ RestUnchanged /\ UNCHANGED <<seen, toSeize, process>>
  BY DEF Wait
<1>2. CASE awaiting = {} /\ Goto("list") /\ UNCHANGED <<attached, awaiting, current, thread>>
  <2>1. dpc' = "list" /\ dpc \in Attaching /\ dpc' \in Attaching
    BY <1>1, <1>2 DEF Goto, Attaching
  <2>2. TypeInv' /\ ThreadsKept' /\ TracesSeized' /\ StopsDue' /\ AllFrozen'
    BY <1>1, <1>2, <2>1 DEF IInv, RestUnchanged, TypeInv, ThreadsKept, TracesSeized, StopsDue, Due,
       AllFrozen, Frozen, Forking, Injecting, Alive, Stopped
  <2>3. Hijack' /\ Moment'
    BY <1>1, <1>2, <2>1, StillAttaching DEF Alive
  <2> QED BY <2>2, <2>3 DEF IInv
<1>3. CASE \E t \in Tids :
            /\ awaiting # {} /\ thread[t].traced /\ thread[t].news
            /\ IF t \notin awaiting \/ Waited(t)
               THEN /\ thread' = [thread EXCEPT ![t].news = FALSE]
                    /\ awaiting' = awaiting \ {t}
                    /\ attached' = IF t \in awaiting /\ thread[t].st = "dead" THEN attached \ {t} ELSE attached
                    /\ UNCHANGED <<dpc, current>>
               ELSE /\ thread' = [thread EXCEPT ![t].news = FALSE, ![t].st = "run"]
                    /\ Goto(AfterOtherStop) /\ current' = t
                    /\ UNCHANGED <<attached, awaiting>>
  <2>1. PICK t \in Tids :
            /\ thread[t].traced /\ thread[t].news
            /\ IF t \notin awaiting \/ Waited(t)
               THEN /\ thread' = [thread EXCEPT ![t].news = FALSE]
                    /\ awaiting' = awaiting \ {t}
                    /\ attached' = IF t \in awaiting /\ thread[t].st = "dead" THEN attached \ {t} ELSE attached
                    /\ UNCHANGED <<dpc, current>>
               ELSE /\ thread' = [thread EXCEPT ![t].news = FALSE, ![t].st = "run"]
                    /\ Goto(AfterOtherStop) /\ current' = t
                    /\ UNCHANGED <<attached, awaiting>>
    BY <1>3
  <2>2. CASE t \notin awaiting \/ Waited(t)
    BY <1>1, <2>1, <2>2, ReportedInv
  <2>3. CASE ~(t \notin awaiting \/ Waited(t))
    BY <1>1, <2>1, <2>3, OtherStopInv
  <2> QED BY <2>2, <2>3
<1> QED BY <1>2, <1>3 DEF Wait

LEMMA NotesInv ==
    ASSUME IInv, Notes PROVE IInv'
<1>1. dpc = "notes" /\ dpc \in Attaching
  BY DEF Notes, Attaching
<1>2. CASE Fail
  BY <1>1, <1>2, AttachingFacts, FailInv
<1>3. CASE ~Fail
  <2>1. /\ noted' = process.mem
        /\ dpc' = (IF mode = "fork" THEN "dry" ELSE IF mode = "live" THEN "detach" ELSE "dump")
        /\ UNCHANGED <<mode, seen, attached, awaiting, toSeize, current, forkState, forkedPid, dumped, thread, process>>
    BY <1>3 DEF Notes, Goto
  <2>2. /\ dpc' \in {"dry", "detach", "dump"} /\ (dpc' = "dry" <=> mode = "fork")
        /\ (dpc' = "detach" <=> mode = "live")
    BY <2>1 DEF IInv, TypeInv
  <2>3. ~forkState /\ ~forkedPid /\ dumped = {} /\ process.settable /\ (Alive(1) => process.code = "own" /\ process.regs = "own")
    BY <1>1, AttachingFacts
  <2>4. TypeInv'
    BY <2>1, <2>2 DEF IInv, TypeInv, Forking, Dumping
  <2>5. ThreadsKept' /\ TracesSeized' /\ StopsDue' /\ AllFrozen'
    BY <1>1, <2>1, <2>2 DEF IInv, ThreadsKept, TracesSeized, StopsDue, AllFrozen, Frozen, Attaching, Forking, Injecting, Alive, Stopped
  <2>6. Hijack'
    BY <2>1, <2>2, <2>3 DEF Hijack, Injecting, Alive
  <2>7. Moment'
    BY <2>1, <2>2, <2>3 DEF Moment, Attaching, Forking, Injecting
  <2> QED BY <2>4, <2>5, <2>6, <2>7 DEF IInv
<1> QED BY <1>2, <1>3

-----------------------------------------------------------------------------
(* The fork.                                                                 *)

\* What a step between two points of do_the_fork_nonsense() has to keep.
LEMMA StillForking ==
    ASSUME IInv, dpc \in Forking, dpc' \in Forking, OnlyTool, forkState' \in BOOLEAN, forkedPid' \in BOOLEAN,
           thread' \in [Tids -> Thread], process' \in Process,
           \A v \in Tids : v # 1 => thread'[v] = thread[v],
           Alive(1)' <=> Alive(1), thread'[1].traced <=> thread[1].traced,
           thread'[1].pend => thread[1].pend, thread'[1].st # "none",
           Stopped(1)' => Stopped(1),
           dpc' # "await" => (Alive(1) => Stopped(1)')
    PROVE  TypeInv' /\ ThreadsKept' /\ TracesSeized' /\ StopsDue' /\ AllFrozen'
<1>1. /\ mode' = mode /\ seen' = seen /\ attached' = attached /\ awaiting' = awaiting /\ toSeize' = toSeize
      /\ current' = current
  BY DEF OnlyTool
<1>2. dpc' \notin Attaching /\ dpc' # "gone" /\ dpc' # "dump" /\ dpc' # "notes"
  BY DEF Forking, Injecting, Attaching
<1>3. \A v \in Tids : /\ Alive(v)' <=> Alive(v)
                      /\ thread'[v].traced <=> thread[v].traced
                      /\ thread'[v].pend => thread[v].pend
                      /\ Stopped(v)' => Stopped(v)
                      /\ v # 1 => (Stopped(v)' <=> Stopped(v))
                      /\ thread[v].st # "none" => thread'[v].st # "none"
  BY DEF Alive, Stopped
<1>4. TypeInv'
  BY <1>1 DEF IInv, TypeInv
<1>5. ThreadsKept'
  BY <1>1, <1>2, <1>3, OneIsThread DEF IInv, TypeInv, ThreadsKept
<1>6. TracesSeized'
  BY <1>1, <1>3 DEF IInv, TracesSeized
<1>7. StopsDue'
  BY <1>2 DEF StopsDue
<1>8. AllFrozen'
  BY <1>2, <1>3, OneIsThread DEF IInv, AllFrozen, Frozen
<1> QED BY <1>4, <1>5, <1>6, <1>7, <1>8

LEMMA DryRunInv ==
    ASSUME IInv, DryRun PROVE IInv'
<1>1. dpc = "dry" /\ dpc \in Forking /\ "poke" \in Forking
  BY DEF DryRun, Forking, Injecting
<1>2. CASE Fail
  BY <1>1, <1>2, FailInv DEF CriticalPoint
<1>3. CASE ~Fail
  <2>1. Stopped(1) /\ dpc' = "poke" /\ forkState' = TRUE /\ UNCHANGED <<forkedPid, thread, process>> /\ OnlyTool
    BY <1>3 DEF DryRun, Goto
  <2>2. TypeInv' /\ ThreadsKept' /\ TracesSeized' /\ StopsDue' /\ AllFrozen'
    <3>1. thread' \in [Tids -> Thread] /\ process' \in Process /\ forkedPid' \in BOOLEAN /\ thread'[1].st # "none"
      BY <2>1 DEF IInv, TypeInv, ThreadsKept
    <3>2. (Alive(1)' <=> Alive(1)) /\ (Stopped(1)' <=> Stopped(1))
      BY <2>1 DEF Alive, Stopped
    <3> QED BY <1>1, <2>1, <3>1, <3>2, StillForking
  <2>3. Hijack'
    BY <1>1, <2>1 DEF IInv, Hijack, Injecting, Alive
  <2>4. Moment'
    BY <1>1, <2>1 DEF IInv, Moment, OnlyTool, Attaching, Forking, Injecting
  <2> QED BY <2>2, <2>3, <2>4 DEF IInv
<1> QED BY <1>2, <1>3

\* An error of inject_fork(): the thread is not there any more.
LEMMA InjectFails ==
    ASSUME IInv, dpc \in Injecting, ~Alive(1), dpc' = "take", OnlyTool,
           UNCHANGED <<process, thread, forkState, forkedPid>>
    PROVE  IInv'
<1>1. dpc \in Forking /\ dpc' \in Forking /\ dpc' \in Injecting
  BY DEF Forking, Injecting
<1>2. ~Alive(1)' /\ (Stopped(1)' <=> Stopped(1))
  BY DEF Alive, Stopped
<1>3. TypeInv' /\ ThreadsKept' /\ TracesSeized' /\ StopsDue' /\ AllFrozen'
  <2>1. thread' \in [Tids -> Thread] /\ process' \in Process /\ forkedPid' \in BOOLEAN /\ forkState' \in BOOLEAN
        /\ thread'[1].st # "none"
    BY DEF IInv, TypeInv, ThreadsKept
  <2> QED BY <1>1, <1>2, <2>1, StillForking
<1>4. Hijack'
  BY <1>1, <1>2 DEF IInv, Hijack
<1>5. Moment'
  BY <1>1 DEF IInv, Moment, OnlyTool, Attaching, Forking, Injecting
<1> QED BY <1>3, <1>4, <1>5 DEF IInv

\* Overwriting the code or the registers of the stopped thread.
LEMMA PokeInv ==
    ASSUME IInv, Poke PROVE IInv'
<1>1. dpc = "poke" /\ dpc \in Injecting /\ UNCHANGED <<forkState, forkedPid>> /\ OnlyTool
  BY DEF Poke, Inject, Injecting
<1>2. CASE ~Stopped(1)
  <2>1. ~Alive(1)
    BY <1>1, <1>2 DEF IInv, AllFrozen
  <2> QED BY <1>1, <1>2, <2>1, InjectFails DEF Poke, Inject, Goto
<1>3. CASE Stopped(1)
  <2>1. dpc' = "setregs" /\ process' = [process EXCEPT !.code = "injected"] /\ thread' = thread
    BY <1>3 DEF Poke, Inject, Goto
  <2>2. /\ process' \in Process /\ process'.regs = process.regs /\ process'.settable = process.settable
        /\ process'.mem = process.mem /\ process'.copy = process.copy
    BY <2>1 DEF IInv, TypeInv, Process
  <2>3. Alive(1) /\ Alive(1)' /\ Stopped(1)' /\ dpc' \in Injecting /\ dpc' \in Forking /\ dpc \in Forking
    BY <1>1, <1>3, <2>1 DEF Alive, Stopped, Injecting, Forking
  <2>4. TypeInv' /\ ThreadsKept' /\ TracesSeized' /\ StopsDue' /\ AllFrozen'
    <3>1. thread' \in [Tids -> Thread] /\ forkedPid' \in BOOLEAN /\ forkState' \in BOOLEAN /\ thread'[1].st # "none"
      BY <1>1, <2>1 DEF IInv, TypeInv, ThreadsKept
    <3> QED BY <1>1, <1>3, <2>1, <2>2, <2>3, <3>1, StillForking
  <2>5. Hijack'
    BY <1>1, <2>1, <2>2, <2>3 DEF IInv, Hijack
  <2>6. Moment'
    BY <1>1, <2>1, <2>2 DEF IInv, Moment, OnlyTool, Attaching, Forking, Injecting
  <2> QED BY <2>4, <2>5, <2>6 DEF IInv
<1> QED BY <1>2, <1>3

LEMMA SetRegsInv ==
    ASSUME IInv, SetRegs PROVE IInv'
<1>1. dpc = "setregs" /\ dpc \in Injecting /\ UNCHANGED <<forkState, forkedPid>> /\ OnlyTool
  BY DEF SetRegs, Inject, Injecting
<1>2. CASE ~Stopped(1)
  <2>1. ~Alive(1)
    BY <1>1, <1>2 DEF IInv, AllFrozen
  <2> QED BY <1>1, <1>2, <2>1, InjectFails DEF SetRegs, Inject, Goto
<1>3. CASE Stopped(1)
  <2>1. dpc' = "cont" /\ process' = [process EXCEPT !.regs = "syscall"] /\ thread' = thread
    BY <1>3 DEF SetRegs, Inject, Goto
  <2>2. /\ process' \in Process /\ process'.regs = "syscall" /\ process'.settable = process.settable
        /\ process'.mem = process.mem /\ process'.copy = process.copy
    BY <2>1 DEF IInv, TypeInv, Process
  <2>3. Alive(1) /\ Alive(1)' /\ Stopped(1)' /\ dpc' \in Injecting /\ dpc' \in Forking /\ dpc \in Forking
    BY <1>1, <1>3, <2>1 DEF Alive, Stopped, Injecting, Forking
  <2>4. TypeInv' /\ ThreadsKept' /\ TracesSeized' /\ StopsDue' /\ AllFrozen'
    <3>1. thread' \in [Tids -> Thread] /\ forkedPid' \in BOOLEAN /\ forkState' \in BOOLEAN /\ thread'[1].st # "none"
      BY <1>1, <2>1 DEF IInv, TypeInv, ThreadsKept
    <3> QED BY <1>1, <1>3, <2>1, <2>2, <2>3, <3>1, StillForking
  <2>5. Hijack'
    BY <1>1, <2>1, <2>2, <2>3 DEF IInv, Hijack
  <2>6. Moment'
    BY <1>1, <2>1, <2>2 DEF IInv, Moment, OnlyTool, Attaching, Forking, Injecting
  <2> QED BY <2>4, <2>5, <2>6 DEF IInv
<1> QED BY <1>2, <1>3

\* Resuming it.
LEMMA ResumedInv ==
    ASSUME IInv, dpc \in {"cont", "gotfork"}, Stopped(1), dpc' = "await", thread' = Resumed,
           UNCHANGED <<process, forkState, forkedPid>>, OnlyTool
    PROVE  IInv'
<1> DEFINE x == [thread[1] EXCEPT !.st = "run", !.news = FALSE]
<1>1. /\ x \in Thread /\ x.st = "run" /\ x.news = FALSE /\ x.pend = thread[1].pend /\ x.traced = thread[1].traced
  BY ThreadFacts, OneIsThread DEF IInv, Thread
<1>2. thread' = [thread EXCEPT ![1] = x]
  BY OneIsThread DEF Resumed, IInv, TypeInv
<1> HIDE DEF x
<1>3. /\ thread' \in [Tids -> Thread] /\ thread'[1] = x
      /\ \A v \in Tids : v # 1 => thread'[v] = thread[v]
  BY <1>1, <1>2, SetThread, OneIsThread DEF IInv
<1>4. Alive(1) /\ Alive(1)' /\ ~Stopped(1)' /\ thread[1].traced /\ dpc' \in Injecting /\ dpc' \in Forking /\ dpc \in Forking
      /\ dpc \in Injecting
  BY <1>1, <1>3, OneIsThread DEF IInv, ThreadsKept, Alive, Stopped, Stops, Injecting, Forking
<1>5. TypeInv' /\ ThreadsKept' /\ TracesSeized' /\ StopsDue' /\ AllFrozen'
  <2>1. /\ process' \in Process /\ forkedPid' \in BOOLEAN /\ forkState' \in BOOLEAN /\ thread'[1].st # "none"
        /\ thread'[1].traced /\ (thread'[1].pend => thread[1].pend)
    BY <1>1, <1>3, <1>4 DEF IInv, TypeInv
  <2> QED BY <1>3, <1>4, <2>1, StillForking
<1>6. Hijack'
  <2>1. process'.regs \in {"syscall", "insyscall"} /\ process'.settable /\ forkState'
    BY <1>4 DEF IInv, Hijack
  <2>2. thread'[1].st = "run" /\ ~thread'[1].news /\ thread'[1].traced
    BY <1>1, <1>3, <1>4
  <2> QED BY <1>4, <2>1, <2>2 DEF Hijack
<1>7. Moment'
  BY <1>4 DEF IInv, Hijack, Moment, OnlyTool, Attaching, Forking, Injecting
<1> QED BY <1>5, <1>6, <1>7 DEF IInv

LEMMA ContInv ==
    ASSUME IInv, Cont PROVE IInv'
<1>1. dpc = "cont" /\ dpc \in Injecting /\ UNCHANGED <<forkState, forkedPid>> /\ OnlyTool
  BY DEF Cont, Inject, Injecting
<1>2. CASE ~Stopped(1)
  <2>1. ~Alive(1)
    BY <1>1, <1>2 DEF IInv, AllFrozen
  <2> QED BY <1>1, <1>2, <2>1, InjectFails DEF Cont, Inject, Goto
<1>3. CASE Stopped(1)
  BY <1>1, <1>3, ResumedInv DEF Cont, Inject, Goto
<1> QED BY <1>2, <1>3

LEMMA GotForkInv ==
    ASSUME IInv, GotFork PROVE IInv'
<1>1. dpc = "gotfork" /\ dpc \in Injecting /\ UNCHANGED <<forkState, forkedPid>> /\ OnlyTool
  BY DEF GotFork, Inject, Injecting
<1>2. CASE ~Stopped(1)
  <2>1. ~Alive(1)
    BY <1>1, <1>2 DEF IInv, AllFrozen
  <2> QED BY <1>1, <1>2, <2>1, InjectFails DEF GotFork, Inject, Goto
<1>3. CASE Stopped(1)
  BY <1>1, <1>3, ResumedInv DEF GotFork, Inject, Goto, AfterFork
<1> QED BY <1>2, <1>3

LEMMA AwaitInv ==
    ASSUME IInv, Await PROVE IInv'
<1> DEFINE x == [thread[1] EXCEPT !.news = FALSE]
<1>1. /\ dpc = "await" /\ thread[1].news /\ thread' = [thread EXCEPT ![1] = x]
      /\ UNCHANGED <<forkState, process>> /\ OnlyTool
      /\ \/ thread[1].st = "forkstop" /\ dpc' = "gotfork" /\ forkedPid' = TRUE
         \/ thread[1].st # "forkstop" /\ dpc' = "take" /\ forkedPid' = forkedPid
  BY DEF Await, Goto
<1>2. /\ x \in Thread /\ x.st = thread[1].st /\ x.news = FALSE /\ x.pend = thread[1].pend
      /\ x.traced = thread[1].traced
  BY ThreadFacts, OneIsThread DEF IInv, Thread
<1> HIDE DEF x
<1>3. /\ thread' \in [Tids -> Thread] /\ thread'[1] = x
      /\ \A v \in Tids : v # 1 => thread'[v] = thread[v]
  BY <1>1, <1>2, SetThread, OneIsThread DEF IInv
<1>4. (Alive(1)' <=> Alive(1)) /\ (Stopped(1)' <=> Stopped(1))
  BY <1>2, <1>3 DEF Alive, Stopped
<1>5. dpc \in Injecting /\ dpc' \in Injecting /\ dpc \in Forking /\ dpc' \in Forking /\ dpc' # "await"
  BY <1>1 DEF Injecting, Forking
<1>6. Alive(1) => Stopped(1)
  BY <1>1 DEF IInv, Hijack, Alive, Stopped, Stops
<1>7. TypeInv' /\ ThreadsKept' /\ TracesSeized' /\ StopsDue' /\ AllFrozen'
  <2>1. /\ process' \in Process /\ forkedPid' \in BOOLEAN /\ forkState' \in BOOLEAN /\ thread'[1].st # "none"
        /\ (thread'[1].traced <=> thread[1].traced) /\ (thread'[1].pend => thread[1].pend)
    BY <1>1, <1>2, <1>3 DEF IInv, TypeInv, ThreadsKept
  <2> QED BY <1>1, <1>3, <1>4, <1>5, <1>6, <2>1, StillForking
<1>8. thread[1].st = "forkstop" => Alive(1) /\ process.regs = "insyscall"
  BY <1>1 DEF IInv, Hijack, Alive, Stops
<1>9. Alive(1) /\ thread[1].st # "forkstop" => process.regs \in {"syscall", "int3"}
  BY <1>1 DEF IInv, Hijack
<1>10. Hijack'
  <2>1. thread'[1].st = thread[1].st
    BY <1>2, <1>3
  <2>2. forkState' /\ process'.settable
    BY <1>1, <1>5 DEF IInv, Hijack
  <2> QED BY <1>1, <1>4, <1>5, <1>8, <1>9, <2>1, <2>2 DEF Hijack
<1>11. Moment'
  BY <1>1, <1>5, <1>8 DEF IInv, Moment, OnlyTool, Attaching, Forking, Injecting
<1> QED BY <1>7, <1>10, <1>11 DEF IInv

LEMMA TakeInv ==
    ASSUME IInv, Take PROVE IInv'
<1>1. dpc = "take" /\ dpc' = "taken" /\ forkState' = FALSE /\ UNCHANGED <<forkedPid, thread, process>> /\ OnlyTool
  BY DEF Take, Goto
<1>2. dpc \in Forking /\ dpc' \in Forking /\ dpc' \notin Injecting
  BY <1>1 DEF Injecting, Forking
<1>3. (Alive(1)' <=> Alive(1)) /\ (Stopped(1)' <=> Stopped(1)) /\ (Alive(1) => Stopped(1))
  BY <1>1 DEF Alive, Stopped, IInv, AllFrozen
<1>4. TypeInv' /\ ThreadsKept' /\ TracesSeized' /\ StopsDue' /\ AllFrozen'
  <2>1. /\ thread' \in [Tids -> Thread] /\ process' \in Process /\ forkedPid' \in BOOLEAN /\ forkState' \in BOOLEAN
        /\ thread'[1].st # "none"
    BY <1>1 DEF IInv, TypeInv, ThreadsKept
  <2> QED BY <1>1, <1>2, <1>3, <2>1, StillForking
<1>5. Hijack'
  BY <1>1, <1>2, <1>3 DEF IInv, Hijack
<1>6. Moment'
  BY <1>1 DEF IInv, Moment, OnlyTool, Attaching, Forking, Injecting
<1> QED BY <1>4, <1>5, <1>6 DEF IInv

LEMMA RestoreInv ==
    ASSUME IInv, Restore PROVE IInv'
<1>1. /\ dpc = "taken" /\ ~forkState /\ process \in Process /\ process.settable /\ (Alive(1) => Stopped(1))
      /\ (Stopped(1) => Alive(1))
  BY DEF Restore, IInv, TypeInv, Hijack, Injecting, AllFrozen, Alive, Stopped
<1>2. Good(RestoredBy(process))
  <2>1. CASE Stopped(1)
    BY <1>1, <2>1, RestoredGood DEF IInv, Hijack
  <2>2. CASE ~Stopped(1)
    BY <1>1, <2>2 DEF RestoredBy, Restorable, Good
  <2> QED BY <2>1, <2>2
<1>3. CASE Gone(Cleanup(RestoredBy(process)))
  BY <1>1, <1>2, <1>3, CleanupGood, GoneInv
<1>4. CASE ~Gone(Cleanup(RestoredBy(process)))
  <2>1. /\ Restorable /\ Injected /\ dpc' = "detach" /\ process' = RestoredBy(process)
        /\ UNCHANGED <<forkState, forkedPid, thread>> /\ OnlyTool
    BY <1>4 DEF Restore, Goto
  <2>2. Good(process') /\ forkedPid /\ Alive(1) /\ Stopped(1)
    BY <1>1, <1>2, <2>1 DEF Injected, Restorable
  <2>3. process' \in Process /\ process'.settable /\ process'.code = "own" /\ process'.regs = "own"
    BY <2>2 DEF Good
  <2>4. process'.copy = process.copy
    BY <1>1, <2>1 DEF RestoredBy, Process
  <2>5. TypeInv'
    BY <2>1, <2>3 DEF IInv, TypeInv, OnlyTool, Dumping
  <2>6. ThreadsKept' /\ TracesSeized' /\ StopsDue' /\ AllFrozen'
    BY <2>1 DEF IInv, OnlyTool, ThreadsKept, TracesSeized, StopsDue, AllFrozen, Attaching, Forking, Injecting, Alive, Stopped
  <2>7. Hijack'
    BY <1>1, <2>1, <2>3 DEF Hijack, Injecting
  <2>8. Moment'
    BY <1>1, <2>1, <2>2, <2>4 DEF IInv, Moment, OnlyTool, Attaching, Forking, Injecting
  <2> QED BY <2>5, <2>6, <2>7, <2>8 DEF IInv
<1> QED BY <1>3, <1>4

-----------------------------------------------------------------------------
(* Letting go, and dumping.                                                  *)

LEMMA LetGo ==
    ASSUME IInv, thread' = [t \in Tids |-> IF t \in attached THEN Detached(thread[t]) ELSE thread[t]],
           dpc' # "gone", seen' = seen
    PROVE  /\ thread' \in [Tids -> Thread] /\ ThreadsKept' /\ (Alive(1)' <=> Alive(1))
<1>1. \A t \in Tids : Detached(thread[t]) \in Thread /\ thread[t] \in Thread
  BY DetachedFacts, ThreadFacts DEF IInv
<1>2. /\ thread' \in [Tids -> Thread]
      /\ \A t \in Tids : /\ t \in attached => thread'[t] = Detached(thread[t])
                         /\ t \notin attached => thread'[t] = thread[t]
  BY <1>1
<1>3. \A t \in Tids : /\ (Stopped(t) \/ thread[t].pend => thread[t].traced)'
                      /\ Alive(t)' <=> Alive(t)
                      /\ thread[t].st # "none" => thread'[t].st # "none"
  <2> TAKE t \in Tids
  <2>1. CASE t \in attached
    BY <1>1, <1>2, <2>1, DetachedFacts DEF Alive, Stopped, Stops
  <2>2. CASE t \notin attached
    BY <1>2, <2>2 DEF IInv, ThreadsKept, Alive, Stopped
  <2> QED BY <2>1, <2>2
<1>4. ThreadsKept'
  BY <1>3, OneIsThread DEF IInv, TypeInv, ThreadsKept
<1> QED BY <1>2, <1>3, <1>4, OneIsThread

LEMMA DumpingGood ==
    ASSUME IInv, dpc \in Dumping PROVE Good(process) /\ ~forkState /\ ~CriticalPoint
BY DEF IInv, TypeInv, Hijack, Good, Dumping, Injecting, CriticalPoint

LEMMA DetachPtraceInv ==
    ASSUME IInv, DetachPtrace PROVE IInv'
<1>1. /\ dpc = "detach" /\ dpc' = "dump" /\ attached' = {}
      /\ thread' = [t \in Tids |-> IF t \in attached THEN Detached(thread[t]) ELSE thread[t]]
      /\ UNCHANGED <<mode, seen, awaiting, toSeize, current, forkState, forkedPid, noted, dumped, process>>
  BY DEF DetachPtrace, Goto
<1>2. thread' \in [Tids -> Thread] /\ ThreadsKept' /\ (Alive(1)' <=> Alive(1))
  BY <1>1, LetGo
<1>3. TypeInv'
  BY <1>1, <1>2 DEF IInv, TypeInv, Dumping
<1>4. TracesSeized' /\ StopsDue'
  BY <1>1 DEF TracesSeized, StopsDue, Attaching, Forking, Injecting
<1>5. AllFrozen'
  BY <1>1 DEF IInv, AllFrozen, Moment, Forking, Injecting
<1>6. Hijack'
  BY <1>1, <1>2 DEF IInv, Hijack, Injecting
<1>7. Moment'
  BY <1>1 DEF IInv, Moment, Attaching, Forking, Injecting
<1> QED BY <1>2, <1>3, <1>4, <1>5, <1>6, <1>7 DEF IInv

LEMMA DumpInv ==
    ASSUME IInv, Dump PROVE IInv'
<1>1. dpc = "dump" /\ dpc \in Dumping
  BY DEF Dump, Dumping
<1>2. CASE Fail
  BY <1>1, <1>2, DumpingGood, FailInv
<1>3. CASE ~Fail
  <2>1. /\ dumped' = dumped \cup {IF forkedPid THEN process.copy ELSE process.mem}
        /\ dpc' \in {"dump", "cleanup"}
        /\ UNCHANGED <<mode, seen, attached, awaiting, toSeize, current, forkState, forkedPid, noted, thread, process>>
    BY <1>3 DEF Dump
  <2>2. TypeInv' /\ ThreadsKept'
    BY <1>1, <2>1 DEF IInv, TypeInv, ThreadsKept, Dumping, Alive, Stopped
  <2>3. TracesSeized' /\ StopsDue'
    BY <2>1 DEF TracesSeized, StopsDue, Attaching, Forking, Injecting
  <2>4. AllFrozen'
    BY <1>1, <2>1 DEF IInv, AllFrozen, Frozen, Forking, Injecting, Alive, Stopped
  <2>5. Hijack'
    BY <1>1, <2>1 DEF IInv, Hijack, Injecting, Alive
  <2>6. Moment'
    <3>1. mode # "live" => (IF forkedPid THEN process.copy ELSE process.mem) = noted
      BY <1>1 DEF IInv, TypeInv, Moment
    <3> QED BY <1>1, <2>1, <3>1 DEF IInv, Moment, Attaching, Forking, Injecting
  <2> QED BY <2>2, <2>3, <2>4, <2>5, <2>6 DEF IInv
<1> QED BY <1>2, <1>3

LEMMA FinishInv ==
    ASSUME IInv, Finish PROVE IInv'
<1>1. /\ dpc = "cleanup" /\ dpc' = "flush" /\ attached' = {} /\ process' = Cleanup(process) /\ forkedPid' = FALSE
      /\ thread' = [t \in Tids |-> IF t \in attached THEN Detached(thread[t]) ELSE thread[t]]
      /\ UNCHANGED <<mode, seen, awaiting, toSeize, current, forkState, noted, dumped>>
  BY DEF Finish, Goto
<1>2. thread' \in [Tids -> Thread] /\ ThreadsKept' /\ (Alive(1)' <=> Alive(1))
  BY <1>1, LetGo
<1>3. Good(Cleanup(process)) /\ ~forkState
  BY <1>1, DumpingGood, CleanupGood DEF Dumping
<1>4. TypeInv'
  BY <1>1, <1>2, <1>3 DEF IInv, TypeInv, Dumping, Good
<1>5. TracesSeized' /\ StopsDue' /\ AllFrozen'
  BY <1>1 DEF TracesSeized, StopsDue, AllFrozen, Attaching, Forking, Injecting
<1>6. Hijack'
  BY <1>1, <1>2, <1>3 DEF Hijack, Good, Injecting
<1>7. Moment'
  BY <1>1 DEF IInv, Moment, Attaching, Forking, Injecting
<1> QED BY <1>2, <1>4, <1>5, <1>6, <1>7 DEF IInv

LEMMA FlushInv ==
    ASSUME IInv, Flush PROVE IInv'
BY DumpingGood, GoneInv DEF Flush, Dumping

-----------------------------------------------------------------------------
(* The theorem.                                                              *)

LEMMA InitInv ==
    ASSUME "unsettable" \notin Ops, Init PROVE IInv
<1>1. PICK n \in SUBSET Tids : 1 \in n /\
         thread = [t \in Tids |-> IF t \in n THEN NewThread ELSE [NewThread EXCEPT !.st = "none"]]
  BY DEF Init
<1>2. NewThread \in Thread /\ [NewThread EXCEPT !.st = "none"] \in Thread
  BY DEF NewThread, Thread
<1>3. thread \in [Tids -> Thread]
  BY <1>1, <1>2
<1>4. \A t \in Tids : thread[t] = NewThread \/ thread[t] = [NewThread EXCEPT !.st = "none"]
  BY <1>1
<1>5. \A t \in Tids : ~thread[t].traced /\ ~thread[t].pend /\ ~Stopped(t)
  BY <1>4 DEF NewThread, Stopped, Stops
<1>6. thread[1].st = "run" /\ Alive(1)
  BY <1>1, OneIsThread DEF NewThread, Alive
<1>7. /\ dpc = "list" /\ seen = {} /\ attached = {} /\ awaiting = {} /\ toSeize = {} /\ current = 0
      /\ forkState = FALSE /\ forkedPid = FALSE /\ noted = -1 /\ dumped = {} /\ mode \in {"direct", "live", "fork"}
  BY DEF Init
<1>8. process \in [mem : {0}, code : {"own"}, regs : {"own"}, child : {"none"}, copy : {-1},
                   settable : {TRUE}, signals : {2}]
  BY DEF Init
<1>9. process \in Process
  <2>1. /\ process = [mem |-> process.mem, code |-> process.code, regs |-> process.regs, child |-> process.child,
                      copy |-> process.copy, settable |-> process.settable, signals |-> process.signals]
        /\ process.mem = 0 /\ process.code = "own" /\ process.regs = "own" /\ process.child = "none"
        /\ process.copy = -1 /\ process.settable = TRUE /\ process.signals = 2
    BY <1>8
  <2>2. /\ process.mem \in Nat /\ process.code \in {"own", "injected"}
        /\ process.regs \in {"own", "syscall", "insyscall", "int3", "lost"}
        /\ process.child \in {"none", "held", "killed", "died"} /\ process.copy \in Int /\ process.signals \in Nat
    BY <2>1
  <2>3. process.settable \in BOOLEAN
    BY <2>1
  <2> QED BY <2>1, <2>2, <2>3 DEF Process
<1>10. process.code = "own" /\ process.regs = "own" /\ process.child = "none" /\ process.settable = TRUE
  BY <1>8
<1>11. TypeInv
  BY <1>3, <1>7, <1>9 DEF TypeInv, Attaching
<1>12. ThreadsKept /\ TracesSeized
  BY <1>5, <1>6, <1>7 DEF ThreadsKept, TracesSeized
<1>13. StopsDue /\ AllFrozen
  BY <1>7 DEF StopsDue, AllFrozen, Forking, Injecting
<1>14. Hijack
  BY <1>7, <1>10 DEF Hijack, Injecting
<1>15. Moment
  BY <1>7 DEF Moment, Forking, Injecting
<1> QED BY <1>11, <1>12, <1>13, <1>14, <1>15 DEF IInv

LEMMA StutterInv ==
    ASSUME IInv, UNCHANGED <<toolVars, thread, process>> PROVE IInv'
BY DEF IInv, toolVars, TypeInv, ThreadsKept, TracesSeized, StopsDue, Due, AllFrozen, Frozen, Hijack, Moment,
   Alive, Stopped

LEMMA InvGivesRight ==
    ASSUME IInv PROVE CoreDumperRight
<1>1. ProcessUnharmed
  <2>1. SUFFICES ASSUME dpc = "gone" PROVE
            /\ process.child \in {"none", "killed", "died"}
            /\ ProcessAlive => /\ process.code = "own" /\ process.regs = "own"
                               /\ \A t \in Tids : ~Stopped(t) /\ ~thread[t].traced
    BY DEF ProcessUnharmed
  <2>2. process.child \in {"none", "killed", "died"}
    BY <2>1, ProcessFacts DEF IInv, Hijack
  <2>3. Alive(1) => process.code = "own" /\ process.regs = "own"
    BY <2>1 DEF IInv, Hijack, Injecting
  <2>4. \A t \in Tids : ~Stopped(t) /\ ~thread[t].traced
    BY <2>1 DEF IInv, ThreadsKept
  <2> QED BY <2>2, <2>3, <2>4 DEF ProcessAlive
<1>2. OneMoment
  BY DEF IInv, Moment, OneMoment
<1>3. WaitsForSomething
  <2>1. dpc = "wait" => \A t \in awaiting : Due(t)
    BY OneIsThread DEF IInv, TypeInv, StopsDue, Attaching
  <2>2. dpc = "await" => thread[1].news \/ (thread[1].st = "run" /\ process.regs \in {"syscall", "insyscall"})
    BY DEF IInv, Hijack
  <2> QED BY <2>1, <2>2 DEF WaitsForSomething, Due
<1> QED BY <1>1, <1>2, <1>3 DEF CoreDumperRight

\* However and whenever the core dumper ends - done, failed at any step or
\* killed by a signal - the process goes on with its own code and registers,
\* untraced, and no copy of it is left; a dump is of one moment; and the tool
\* waits only for stops that are due (core_dumper.rs).  Any number of threads,
\* which may be started, end, get signals or be killed at every step.
THEOREM DumperCorrect ==
    ASSUME "critical" \notin Ops, "unsettable" \notin Ops
    PROVE  DumperSpec => []CoreDumperRight
<1>1. Init => IInv
  BY InitInv
<1>2. IInv /\ [DumperNext]_<<toolVars, thread, process>> => IInv'
  <2> SUFFICES ASSUME IInv, [DumperNext]_<<toolVars, thread, process>> PROVE IInv'
    OBVIOUS
  <2>1. CASE UNCHANGED <<toolVars, thread, process>>
    BY <2>1, StutterInv
  <2>2. CASE DumperNext
    BY <2>2, ProcessStepInv, FatalSignalInv, ListThreadsInv, SeizeInv, InterruptInv, WaitInv, NotesInv,
       DryRunInv, PokeInv, SetRegsInv, ContInv, AwaitInv, GotForkInv, TakeInv, RestoreInv,
       DetachPtraceInv, DumpInv, FinishInv, FlushInv DEF DumperNext
  <2> QED BY <2>1, <2>2
<1>3. IInv => CoreDumperRight
  BY InvGivesRight
<1> QED BY <1>1, <1>2, <1>3, PTL DEF DumperSpec
=============================================================================
