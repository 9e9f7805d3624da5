----------------------------- MODULE CoreDumper -----------------------------
(* The tool that writes a core file of a live process (core_dumper.rs).  It   *)
(* stops every thread, notes the registers, and then reads the memory: of the *)
(* stopped process ("direct"), of the process after letting it go ("live"),   *)
(* or of a copy that it makes the process fork ("fork"), by overwriting code  *)
(* and the registers of a thread.  It may be killed by a signal at any time.  *)
EXTENDS Integers, FiniteSets

CONSTANTS
    Tids,           \* threads the process may have; 1 is the process id
    MaxWrites,      \* what the process does to its memory in a behaviour
    Ops             \* "critical": a fatal signal between two steps that cannot be
                    \* undone then; "unsettable": registers that cannot be set

ASSUME DumperAssumption == 1 \in Tids /\ 0 \notin Tids /\ MaxWrites \in Nat

VARIABLES
    mode,
    dpc,            \* where try_dump() is; "gone" after the tool ended
    seen, attached, awaiting, toSeize, current,
    forkState,      \* fork_state: what must be restored is known
    forkedPid,      \* forked_pid: known to the tool
    noted,          \* version of memory when registers were noted, -1 before
    dumped,         \* versions of memory that went into the file
    thread,         \* thread[t]: [st, news, pend, traced, signal]
    process         \* [mem, code, regs, child, copy, settable, signals]

-----------------------------------------------------------------------------
(* The process and what ptrace does to it (external).                        *)
Stops == {"event", "signal", "trap", "forkstop"}
Stopped(t) == thread[t].st \in Stops
Alive(t) == thread[t].st \in Stops \cup {"run"}
ProcessAlive == Alive(1)

NewThread == [st |-> "run", news |-> FALSE, pend |-> FALSE, traced |-> FALSE]
\* a stop of any kind takes the requested interrupt with it
StopAs(th, kind) == [th EXCEPT !.st = kind, !.news = TRUE, !.pend = FALSE]

Init ==
    /\ mode \in {"direct", "live", "fork"}
    /\ dpc = "list"
    /\ seen = {} /\ attached = {} /\ awaiting = {} /\ toSeize = {} /\ current = 0
    /\ forkState = FALSE /\ forkedPid = FALSE /\ noted = -1 /\ dumped = {}
    /\ \E n \in SUBSET Tids : 1 \in n /\
         thread = [t \in Tids |-> IF t \in n THEN NewThread ELSE [NewThread EXCEPT !.st = "none"]]
    /\ process \in [mem : {0}, code : {"own"}, regs : {"own"}, child : {"none"}, copy : {-1},
                    settable : IF "unsettable" \in Ops THEN BOOLEAN ELSE {TRUE}, signals : {2}]

toolVars == <<mode, dpc, seen, attached, awaiting, toSeize, current, forkState, forkedPid, noted, dumped>>

\* A running thread of the program: works, starts another, gets a signal.  The
\* thread that was hijacked does none of these.
Own(t) == thread[t].st = "run" /\ ~(t = 1 /\ process.regs # "own")
Work(t) ==
    /\ Own(t) /\ process.mem < MaxWrites
    /\ process' = [process EXCEPT !.mem = @ + 1]
    /\ UNCHANGED <<toolVars, thread>>
Spawn(t) ==
    /\ Own(t)
    /\ \E u \in Tids : thread[u].st = "none" /\ thread' = [thread EXCEPT ![u] = NewThread]
    /\ UNCHANGED <<toolVars, process>>
Exit(t) ==
    /\ Own(t) /\ t # 1
    /\ thread' = [thread EXCEPT ![t].st = "dead", ![t].news = thread[t].traced, ![t].pend = FALSE]
    /\ UNCHANGED <<toolVars, process>>
\* these two stop a thread on its way back from the system call
Returned(t) == IF t = 1 /\ process.regs = "insyscall" THEN "int3" ELSE process.regs
Signal(t) ==
    /\ thread[t].st = "run" /\ thread[t].traced /\ process.signals > 0
    /\ thread' = [thread EXCEPT ![t] = StopAs(@, "signal")]
    /\ process' = [process EXCEPT !.signals = @ - 1, !.regs = Returned(t)]
    /\ UNCHANGED toolVars
Interrupted(t) ==
    /\ thread[t].st = "run" /\ thread[t].pend
    /\ thread' = [thread EXCEPT ![t] = StopAs(@, "event")]
    /\ process' = [process EXCEPT !.regs = Returned(t)]
    /\ UNCHANGED toolVars
Killed ==
    /\ ProcessAlive
    /\ thread' = [t \in Tids |-> IF Alive(t) THEN [thread[t] EXCEPT !.st = "dead", !.news = @ \/ thread[t].traced, !.pend = FALSE]
                                 ELSE thread[t]]
    /\ UNCHANGED <<toolVars, process>>

\* The hijacked thread: the fork stops it before the system call returns, then
\* it runs into the int3.  A fork may fail.
Hijacked ==
    /\ thread[1].st = "run" /\ process.regs \in {"syscall", "insyscall"} /\ ~thread[1].pend
    /\ \/ /\ process.regs = "syscall"
          /\ thread' = [thread EXCEPT ![1] = StopAs(@, "forkstop")]
          /\ process' = [process EXCEPT !.regs = "insyscall", !.child = "held", !.copy = process.mem]
       \/ /\ thread' = [thread EXCEPT ![1] = StopAs(@, "trap")]
          /\ process' = [process EXCEPT !.regs = "int3"]
    /\ UNCHANGED toolVars

ProcessStep == (\E t \in Tids : Work(t) \/ Spawn(t) \/ Exit(t) \/ Signal(t) \/ Interrupted(t))
               \/ Killed \/ Hijacked

-----------------------------------------------------------------------------
(* Ends of the tool.                                                         *)

\* restore_state_after_fork(): needs the thread stopped.  Registers set before a
\* system call returned are overwritten by its result.
Restorable == Stopped(1)
RestoredBy(p) ==
    IF ~Restorable THEN p
    ELSE [p EXCEPT !.code = "own",
                   !.regs = IF ~p.settable THEN "lost" ELSE IF @ = "insyscall" THEN "lost" ELSE "own"]

\* cleanup(): restore if that is pending, kill the copy.
Cleanup(p) ==
    LET q == IF forkState THEN RestoredBy(p) ELSE p IN
    [q EXCEPT !.child = IF forkedPid /\ @ # "none" THEN "killed" ELSE @]

\* The kernel detaches what a tracer leaves behind.  A copy that is let go runs
\* into the int3 and dies of it.
Detached(th) == [th EXCEPT !.st = IF @ \in Stops THEN "run" ELSE @, !.pend = FALSE, !.traced = FALSE, !.news = FALSE]
Gone(p) ==
    /\ dpc' = "gone"
    /\ thread' = [t \in Tids |-> IF thread[t].traced THEN Detached(thread[t]) ELSE thread[t]]
    /\ process' = [p EXCEPT !.child = IF @ = "held" THEN "died" ELSE @]
    /\ forkState' = FALSE /\ forkedPid' = FALSE
    /\ attached' = {} /\ awaiting' = {} /\ toSeize' = {} /\ current' = 0
    /\ UNCHANGED <<mode, seen, noted, dumped>>

\* try_dump() returns an error: run_core_dumper_tool() cleans up and exits.
Fail == Gone(Cleanup(process))

\* Where the registers and the code cannot be put back: the hijacked thread is
\* running or inside the system call, or fork_state was already taken.
CriticalPoint == \/ dpc \in {"await", "gotfork"} /\ (~Stopped(1) \/ process.regs = "insyscall")
                 \/ dpc = "taken"
\* fatal_signal_handler(), and the panic hook
FatalSignal ==
    /\ dpc # "gone"
    /\ "critical" \in Ops \/ ~CriticalPoint
    /\ Gone(Cleanup(process))

-----------------------------------------------------------------------------
(* try_dump().                                                               *)
Goto(pc) == dpc' = pc
RestUnchanged == UNCHANGED <<mode, forkState, forkedPid, noted, dumped>>

\* list_threads(), until there are no new ones
\* Mutant: one round is enough.
MutantAllListed(added) == attached # {}
AllListed(added) == added = {}
ListThreads ==
    /\ dpc = "list"
    /\ LET added == {t \in Tids : Alive(t)} \ seen IN
       IF ~ProcessAlive THEN Fail
       ELSE IF added = {} /\ attached = {} THEN Fail
       ELSE /\ seen' = seen \cup added /\ toSeize' = added
            /\ Goto(IF AllListed(added) THEN "notes" ELSE "seize")
            /\ RestUnchanged /\ UNCHANGED <<attached, awaiting, current, thread, process>>

Seize ==
    /\ dpc = "seize"
    /\ \/ /\ toSeize = {} /\ Goto("wait")
          /\ RestUnchanged /\ UNCHANGED <<seen, attached, awaiting, toSeize, current, thread, process>>
       \/ \E t \in toSeize :
            \/ ~Alive(t) /\ Fail
            \/ /\ Alive(t)
               /\ thread' = [thread EXCEPT ![t].traced = TRUE]
               /\ attached' = attached \cup {t} /\ awaiting' = awaiting \cup {t}
               /\ toSeize' = toSeize \ {t} /\ current' = t /\ Goto("interrupt")
               /\ RestUnchanged /\ UNCHANGED <<seen, process>>

\* PTRACE_INTERRUPT of a new thread, or again of one that stopped otherwise
Interrupt ==
    /\ dpc \in {"interrupt", "again"}
    /\ IF ~Alive(current) THEN Fail
       ELSE /\ thread' = [thread EXCEPT ![current].pend = TRUE]
            /\ Goto(IF dpc = "again" THEN "wait" ELSE "seize") /\ current' = 0
            /\ RestUnchanged /\ UNCHANGED <<seen, attached, awaiting, toSeize, process>>

Waited(t) == thread[t].st \in {"event", "dead"}
\* Mutant: a thread that stopped for a signal is resumed and waited for.
MutantAfterOtherStop == "wait"
AfterOtherStop == "again"

Wait ==
    /\ dpc = "wait"
    /\ \/ /\ awaiting = {} /\ Goto("list")
          /\ UNCHANGED <<attached, awaiting, current, thread>>
       \/ \E t \in Tids :
            /\ awaiting # {} /\ thread[t].traced /\ thread[t].news
            /\ IF t \notin awaiting \/ Waited(t)
               THEN /\ thread' = [thread EXCEPT ![t].news = FALSE]
                    /\ awaiting' = awaiting \ {t}
                    /\ attached' = IF t \in awaiting /\ thread[t].st = "dead" THEN attached \ {t} ELSE attached
                    /\ UNCHANGED <<dpc, current>>
               ELSE /\ thread' = [thread EXCEPT ![t].news = FALSE, ![t].st = "run"]
                    /\ Goto(AfterOtherStop) /\ current' = t
                    /\ UNCHANGED <<attached, awaiting>>
    /\ RestUnchanged /\ UNCHANGED <<seen, toSeize, process>>

\* prepare_notes() and write_headers(); writing may fail
Notes ==
    /\ dpc = "notes"
    /\ \/ Fail
       \/ /\ \A t \in attached : Stopped(t)
          /\ noted' = process.mem
          /\ Goto(IF mode = "fork" THEN "dry" ELSE IF mode = "live" THEN "detach" ELSE "dump")
          /\ UNCHANGED <<mode, seen, attached, awaiting, toSeize, current, forkState, forkedPid, dumped, thread, process>>

OnlyTool == UNCHANGED <<mode, seen, attached, awaiting, toSeize, current, noted, dumped>>

\* do_the_fork_nonsense(): the practice run restores what is there, and the
\* result of it is true whatever happened
DryRunSucceeds == TRUE
DryRun ==
    /\ dpc = "dry"
    /\ IF Stopped(1) /\ DryRunSucceeds
       THEN Goto("poke") /\ forkState' = TRUE /\ UNCHANGED <<forkedPid, thread, process>> /\ OnlyTool
       ELSE Fail

\* inject_fork(): code, registers, resume.  An error leads to "take".
Inject(from, to, ok, p, th) ==
    /\ dpc = from
    /\ IF ok THEN Goto(to) /\ process' = p /\ thread' = th
       ELSE Goto("take") /\ UNCHANGED <<process, thread>>
    /\ UNCHANGED <<forkState, forkedPid>> /\ OnlyTool
Poke == Inject("poke", "setregs", Stopped(1), [process EXCEPT !.code = "injected"], thread)
SetRegs == Inject("setregs", "cont", Stopped(1), [process EXCEPT !.regs = "syscall"], thread)
Resumed == [thread EXCEPT ![1].st = "run", ![1].news = FALSE]
Cont == Inject("cont", "await", Stopped(1), process, Resumed)

\* Mutant: the registers are restored as soon as the fork is reported.
MutantAfterFork == "take"
AfterFork == "await"

Await ==
    /\ dpc = "await" /\ thread[1].news
    /\ \/ /\ thread[1].st = "forkstop" /\ Goto("gotfork")
          /\ forkedPid' = TRUE
       \/ /\ thread[1].st # "forkstop" /\ Goto("take")
          /\ UNCHANGED forkedPid
    /\ thread' = [thread EXCEPT ![1].news = FALSE]
    /\ UNCHANGED <<forkState, process>> /\ OnlyTool
GotFork == Inject("gotfork", AfterFork, Stopped(1), process, IF AfterFork = "await" THEN Resumed ELSE thread)

\* fork_state.take() and, after a line of output, restore_state_after_fork()
Take ==
    /\ dpc = "take"
    /\ Goto("taken") /\ forkState' = FALSE
    /\ UNCHANGED <<forkedPid, thread, process>> /\ OnlyTool
Injected == forkedPid /\ thread[1].st \in {"trap", "event"}
Restore ==
    /\ dpc = "taken"
    /\ IF Restorable /\ process.settable /\ Injected
       THEN Goto("detach") /\ process' = RestoredBy(process) /\ UNCHANGED <<forkState, forkedPid, thread>> /\ OnlyTool
       ELSE Gone(Cleanup(RestoredBy(process)))

DetachPtrace ==
    /\ dpc = "detach"
    /\ thread' = [t \in Tids |-> IF t \in attached THEN Detached(thread[t]) ELSE thread[t]]
    /\ attached' = {} /\ Goto("dump")
    /\ UNCHANGED <<mode, seen, awaiting, toSeize, current, forkState, forkedPid, noted, dumped, process>>

\* dump_memory_ranges(): parts, each as the memory is then; the copy keeps what
\* the process had when it was made.  Writing may fail.
Dump ==
    /\ dpc = "dump"
    /\ \/ Fail
       \/ /\ dumped' = dumped \cup {IF forkedPid THEN process.copy ELSE process.mem}
          /\ dpc' \in {"dump", "cleanup"}
          /\ UNCHANGED <<mode, seen, attached, awaiting, toSeize, current, forkState, forkedPid, noted, thread, process>>

\* cleanup(), detach_ptrace(), then what is left in the buffer is written
Finish ==
    /\ dpc = "cleanup"
    /\ process' = Cleanup(process) /\ forkedPid' = FALSE
    /\ thread' = [t \in Tids |-> IF t \in attached THEN Detached(thread[t]) ELSE thread[t]]
    /\ attached' = {} /\ Goto("flush")
    /\ UNCHANGED <<mode, seen, awaiting, toSeize, current, forkState, noted, dumped>>
Flush ==
    /\ dpc = "flush"
    /\ Gone(process)

DumperNext ==
    \/ ProcessStep \/ FatalSignal
    \/ ListThreads \/ Seize \/ Interrupt \/ Wait \/ Notes
    \/ DryRun \/ Poke \/ SetRegs \/ Cont \/ Await \/ GotFork \/ Take \/ Restore
    \/ DetachPtrace \/ Dump \/ Finish \/ Flush

DumperSpec == Init /\ [][DumperNext]_<<toolVars, thread, process>>

-----------------------------------------------------------------------------
\* However and whenever the tool ends, the process it was pointed at goes on as
\* it was: its code and the registers of its threads are its own, nobody keeps
\* a thread stopped, and no copy of it is left running or waiting.
ProcessUnharmed ==
    dpc = "gone" => /\ process.child \in {"none", "killed", "died"}
                    /\ ProcessAlive => /\ process.code = "own" /\ process.regs = "own"
                                       /\ \A t \in Tids : ~Stopped(t) /\ ~thread[t].traced

\* Except in live mode, memory and registers are of one moment: no thread ran
\* in between, however many were started while the tool was attaching.
OneMoment ==
    mode # "live" => dumped \subseteq {noted}

\* The tool waits only for what will happen.
WaitsForSomething ==
    /\ dpc = "wait" => \A t \in awaiting :
         thread[t].news \/ (thread[t].st = "run" /\ thread[t].pend)
    /\ dpc = "await" =>
         thread[1].news \/ (thread[1].st = "run" /\ process.regs \in {"syscall", "insyscall"})

CoreDumperRight == ProcessUnharmed /\ OneMoment /\ WaitsForSomething
=============================================================================
