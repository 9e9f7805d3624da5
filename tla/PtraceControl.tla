--------------------------- MODULE PtraceControl ---------------------------
(***************************************************************************)
(* The thread-control plane of nnd's native (ptrace) backend: one debuggee *)
(* process, its kernel threads, and the single-threaded debugger that      *)
(* reaps wait statuses, decides which threads run and when it is safe to   *)
(* rewrite breakpoints (src/src/debugger.rs).                              *)
(*                                                                         *)
(* The kernel half (external code) is modelled from how debugger.rs uses   *)
(* PTRACE_SEIZE, PTRACE_INTERRUPT, PTRACE_CONT, waitpid and the PTRACE_O_  *)
(* TRACE{CLONE,EXEC,EXIT} events.  The debugger half has one action per    *)
(* branch of process_events() and one per user operation.  What a SIGTRAP  *)
(* means (which breakpoint, hit or not, step finished or not) is left open *)
(* here as a choice constrained by the conditions handle_breakpoint_trap() *)
(* and handle_step_stop() test; code bytes and debug registers are the     *)
(* subject of the module Breakpoints.                                      *)
(***************************************************************************)
EXTENDS Naturals, Sequences, FiniteSets

CONSTANTS
    Tids,           \* thread ids that may ever exist
    Main,           \* the id of the main thread: the pid of the debuggee
    Binaries,       \* binaries whose symbols may have to be loaded
    NoTid,          \* "no thread"
    NoBinary,       \* "no binary"
    CursorCanFail,  \* can "run to cursor" name a line without machine code?
    Ops             \* what the debuggee and the user may do in an instance

ASSUME TidsAssumption == Main \in Tids /\ NoTid \notin Tids

ASSUME BinariesAssumption == NoBinary \notin Binaries

ASSUME CursorAssumption == CursorCanFail \in BOOLEAN

ASSUME OpsAssumption ==
    Ops \subseteq {"TRAP", "BENIGN", "FATAL", "group-stop", "kill",
                   "suspend", "step", "cursor", "breakpoint"}

VARIABLES
    \* kernel
    k,              \* k[t]: life-cycle state of kernel thread t
    kev,            \* kev[t]: wait status of t not yet returned by waitpid()
    kmsg,           \* kmsg[t]: PTRACE_GETEVENTMSG, the child of t's last clone
    kint,           \* kint[t]: a STOP trap (PTRACE_INTERRUPT) is pending
    held,           \* held[t]: t is in signal-delivery-stop with a signal
    pastExit,       \* pastExit[t]: t is past its last user instruction
    killed,         \* the thread group received SIGKILL or exit_group()
    boot,           \* "sigstop", "exec", "up": progress of the forked child
    \* struct Debugger
    target,         \* target_state
    threads,        \* keys of `threads`
    anyLive,        \* any_live_tid
    waitSigstop,    \* waiting_for_initial_sigstop
    execFailed,     \* initial_exec_failed
    stopBps,        \* stopping_to_handle_breakpoints
    waitSyms,       \* stopped_until_symbols_are_loaded
    stepping,       \* stepping: stepped thread, keep_other_threads_suspended
    pendingStep,    \* pending_step: thread and where to stop
    deferred,       \* pending_wait_events
    \* struct Thread, by tid
    tstate,         \* state
    sentIntr,       \* sent_interrupt
    waitInit,       \* waiting_for_initial_stop
    exiting,        \* exiting
    pendSig,        \* pending_signal.is_some()
    \* symbols and breakpoints, as far as they stop and resume threads
    loading,        \* binaries whose symbols are still loading
    known,          \* binaries ever added to the SymbolsRegistry
    bp,             \* resolution of one user breakpoint
    \* locals of process_events() and the main loop
    pc,             \* where the debugger thread is
    nontrivial,     \* nontrivial_stop
    initExec,       \* is_initial_exec
    dropCaches,     \* drop_caches
    \* ghost
    faults          \* contract violations observed so far

kvars == <<k, kev, kmsg, kint, held, pastExit, killed, boot>>
pvars == <<target, threads, anyLive, waitSigstop, execFailed, stopBps,
           waitSyms, stepping, pendingStep, deferred>>
tvars == <<tstate, sentIntr, waitInit, exiting, pendSig>>
svars == <<loading, known, bp>>
lvars == <<pc, nontrivial, initExec, dropCaches>>
vars  == <<kvars, pvars, tvars, svars, lvars, faults>>

KStates == {"none", "born", "run", "stop", "zombie", "gone"}
StopEvents == {"SIGSTOP", "STOP", "EXEC", "CLONE", "EXIT", "TRAP",
               "BENIGN", "FATAL"}
Events == StopEvents \cup {"EXITED"}

ProcessStates == {"NoProcess", "Starting", "Exiting", "Running", "Suspended",
                  "Stepping"}
ProcessReady(s) == s \in {"Running", "Suspended", "Stepping"}

NoStep == [tid |-> NoTid, keep |-> FALSE]
NoPending == [tid |-> NoTid, on |-> "none"]

PtraceFaults == {"lost event", "not stopped", "lost signal"}
AssertFaults == {"initial SIGSTOP", "EXEC before SIGSTOP", "suspend failed",
                 "pending step not stepping", "step during step",
                 "no symbols to wait for", "stepping.unwrap()"}

TypeOK ==
    /\ k \in [Tids -> KStates]
    /\ kev \in [Tids -> Events \cup {"none"}]
    /\ kmsg \in [Tids -> Tids]
    /\ kint \in [Tids -> BOOLEAN]
    /\ held \in [Tids -> BOOLEAN]
    /\ pastExit \in [Tids -> BOOLEAN]
    /\ killed \in BOOLEAN
    /\ boot \in {"sigstop", "exec", "up"}
    /\ target \in ProcessStates
    /\ threads \in SUBSET Tids
    /\ anyLive \in Tids
    /\ waitSigstop \in BOOLEAN
    /\ execFailed \in BOOLEAN
    /\ stopBps \in BOOLEAN
    /\ waitSyms \in Binaries \cup {NoBinary}
    /\ stepping \in [tid : Tids \cup {NoTid}, keep : BOOLEAN]
    /\ pendingStep \in [tid : Tids \cup {NoTid}, on : {"none", "exec", "cursor"}]
    /\ deferred \in Seq([tid : Tids, ev : Events])
    /\ tstate \in [Tids -> {"Running", "Suspended"}]
    /\ sentIntr \in [Tids -> BOOLEAN]
    /\ waitInit \in [Tids -> BOOLEAN]
    /\ exiting \in [Tids -> BOOLEAN]
    /\ pendSig \in [Tids -> BOOLEAN]
    /\ loading \in SUBSET Binaries
    /\ known \in SUBSET Binaries
    /\ bp \in {"off", "new", "loading", "failed", "active"}
    /\ pc \in {"idle", "loop", "exec", "handle", "drop"}
    /\ nontrivial \in BOOLEAN
    /\ initExec \in BOOLEAN
    /\ dropCaches \in BOOLEAN
    /\ faults \in SUBSET (PtraceFaults \cup AssertFaults \cup {"patched while running"})

Init ==
    /\ k = [t \in Tids |-> "none"]
    /\ kev = [t \in Tids |-> "none"]
    /\ kmsg = [t \in Tids |-> Main]
    /\ kint = [t \in Tids |-> FALSE]
    /\ held = [t \in Tids |-> FALSE]
    /\ pastExit = [t \in Tids |-> FALSE]
    /\ killed = FALSE
    /\ boot = "sigstop"
    /\ target = "NoProcess"
    /\ threads = {}
    /\ anyLive = Main
    /\ waitSigstop = FALSE
    /\ execFailed = FALSE
    /\ stopBps = FALSE
    /\ waitSyms = NoBinary
    /\ stepping = NoStep
    /\ pendingStep = NoPending
    /\ deferred = <<>>
    /\ tstate = [t \in Tids |-> "Running"]
    /\ sentIntr = [t \in Tids |-> FALSE]
    /\ waitInit = [t \in Tids |-> TRUE]
    /\ exiting = [t \in Tids |-> FALSE]
    /\ pendSig = [t \in Tids |-> FALSE]
    /\ loading = {}
    /\ known = {}
    /\ bp = "off"
    /\ pc = "idle"
    /\ nontrivial = FALSE
    /\ initExec = FALSE
    /\ dropCaches = FALSE
    /\ faults = {}

(***************************************************************************)
(* The kernel.                                                             *)
(***************************************************************************)

\* Thread t may execute instructions of the debuggee.
UserRunning(t) == k[t] = "run" /\ ~pastExit[t]

\* Thread t exists and is still a task the kernel can stop or kill.
Alive(t) == k[t] \in {"born", "run", "stop"}

\* A ptrace-stop with wait status e.  Any trap clears a pending STOP trap.
KStop(t, e) ==
    /\ k' = [k EXCEPT ![t] = "stop"]
    /\ kev' = [kev EXCEPT ![t] = e]
    /\ kint' = [kint EXCEPT ![t] = FALSE]
    /\ held' = [held EXCEPT ![t] = e \in {"BENIGN", "FATAL"}]

\* STOP trap: initial stop of a new thread, PTRACE_INTERRUPT or group-stop.
KernelTrapStop(t) ==
    /\ ~killed
    /\ \/ k[t] = "born"
       \/ UserRunning(t) /\ boot = "up" /\ (kint[t] \/ "group-stop" \in Ops)
    /\ KStop(t, "STOP")
    /\ UNCHANGED <<kmsg, pastExit, killed, boot, pvars, tvars, svars, lvars, faults>>

\* A signal, or the SIGTRAP of a breakpoint or single step.  The kernel takes
\* a pending STOP trap before it dequeues signals.
KernelSignal(t, e) ==
    /\ UserRunning(t) /\ ~killed /\ ~kint[t] /\ boot = "up"
    /\ e \in {"TRAP", "BENIGN", "FATAL"} \cap Ops
    /\ KStop(t, e)
    /\ UNCHANGED <<kmsg, pastExit, killed, boot, pvars, tvars, svars, lvars, faults>>

\* clone(): the parent reports PTRACE_EVENT_CLONE, the child is born with a
\* STOP trap pending; their statuses can be reaped in either order.
KernelClone(t, u) ==
    /\ UserRunning(t) /\ ~killed /\ boot = "up"
    /\ k[u] = "none"
    /\ k' = [k EXCEPT ![t] = "stop", ![u] = "born"]
    /\ kev' = [kev EXCEPT ![t] = "CLONE"]
    /\ kint' = [kint EXCEPT ![t] = FALSE]
    /\ held' = [held EXCEPT ![t] = FALSE]
    /\ kmsg' = [kmsg EXCEPT ![t] = u]
    /\ UNCHANGED <<pastExit, killed, boot, pvars, tvars, svars, lvars, faults>>

\* The forked child stops itself before exec.
KernelSigstop ==
    /\ UserRunning(Main) /\ ~killed /\ boot = "sigstop"
    /\ KStop(Main, "SIGSTOP")
    /\ boot' = "exec"
    /\ UNCHANGED <<kmsg, pastExit, killed, pvars, tvars, svars, lvars, faults>>

\* execve() by the only thread: the initial one or a later one.  (An exec by
\* a multi-threaded process is documented as not implemented in debugger.rs.)
KernelExec ==
    /\ UserRunning(Main) /\ ~killed /\ boot # "sigstop"
    /\ \A u \in Tids \ {Main} : k[u] \in {"none", "gone"}
    /\ KStop(Main, "EXEC")
    /\ boot' = "up"
    /\ UNCHANGED <<kmsg, pastExit, killed, pvars, tvars, svars, lvars, faults>>

\* PTRACE_EVENT_EXIT.  A thread that is killed is first woken from its stop,
\* which discards a status nobody has reaped.
KernelExitStop(t) ==
    /\ ~pastExit[t] /\ boot # "sigstop"
    /\ UserRunning(t) \/ (killed /\ Alive(t))
    /\ KStop(t, "EXIT")
    /\ pastExit' = [pastExit EXCEPT ![t] = TRUE]
    /\ UNCHANGED <<kmsg, killed, boot, pvars, tvars, svars, lvars, faults>>

\* SIGKILL from anyone, exit_group() by a thread, or a fatal signal's default.
KernelKill ==
    /\ "kill" \in Ops
    /\ ~killed /\ \E t \in Tids : Alive(t)
    /\ killed' = TRUE
    /\ UNCHANGED <<k, kev, kmsg, kint, held, pastExit, boot, pvars, tvars, svars, lvars, faults>>

\* The thread dies: after its exit stop, or, if killed, without one.
KernelDie(t) ==
    /\ (k[t] = "run" /\ pastExit[t]) \/ (killed /\ Alive(t))
    /\ k' = [k EXCEPT ![t] = "zombie"]
    /\ kev' = [kev EXCEPT ![t] = "EXITED"]
    /\ kint' = [kint EXCEPT ![t] = FALSE]
    /\ held' = [held EXCEPT ![t] = FALSE]
    /\ UNCHANGED <<kmsg, pastExit, killed, boot, pvars, tvars, svars, lvars, faults>>

\* waitpid(-1, WNOHANG) can return t's status.  The exit of the main thread is
\* withheld until every other thread of the group has been reaped.
Reapable(t) ==
    /\ kev[t] # "none"
    /\ (t = Main /\ kev[t] = "EXITED") =>
           \A u \in Tids \ {Main} : k[u] \in {"none", "gone"}

KernelNext ==
    \/ \E t \in Tids : KernelTrapStop(t)
    \/ \E t \in Tids : \E e \in {"TRAP", "BENIGN", "FATAL"} : KernelSignal(t, e)
    \/ \E t, u \in Tids : KernelClone(t, u)
    \/ KernelSigstop
    \/ KernelExec
    \/ \E t \in Tids : KernelExitStop(t)
    \/ KernelKill
    \/ \E t \in Tids : KernelDie(t)

(***************************************************************************)
(* The decisions of the debugger.                                          *)
(***************************************************************************)

\* Mutant: keep_other_threads_suspended is forgotten.
WantsRun_IgnoresKeep(t) ==
    /\ ~stopBps /\ waitSyms = NoBinary
    /\ target # "Suspended"

\* target_state_for_thread(t) = Running
WantsRun(t) ==
    /\ ~stopBps /\ waitSyms = NoBinary
    /\ \/ target \in {"NoProcess", "Starting", "Exiting", "Running"}
       \/ target = "Stepping" /\ (stepping.tid = t \/ ~stepping.keep)

\* ... and the unwrap() of `stepping` on its way there.
UnwrapFault ==
    IF ~stopBps /\ waitSyms = NoBinary /\ target = "Stepping" /\ stepping = NoStep
    THEN {"stepping.unwrap()"} ELSE {}

\* any_thread_in_state(Running) and the threads that
\* ptrace_interrupt_all_running_threads() asks to stop; ts is the thread state.
RunningIn(ths, ts) == {t \in ths : ts[t] = "Running" /\ ~exiting[t]}

\* Mutant: nothing is picked when no thread is left.
RepickAnyLive_None(ths, ex) ==
    LET live == {t \in ths : ~ex[t]} IN IF live = {} THEN {NoTid} ELSE live

\* Mutant: exiting threads are picked too.
RepickAnyLive_Exiting(ths, ex) == IF ths = {} THEN {Main} ELSE ths

\* What the choice of any_live_tid may be among the threads ths.
RepickAnyLive(ths, ex) ==
    LET live == {t \in ths : ~ex[t]} IN IF live = {} THEN {Main} ELSE live

\* Contracts of PTRACE_CONT on the threads R, when unreaped statuses are kv and
\* pending signals ps: the thread is stopped, its stop was reaped, and a
\* signal is injected exactly if it was intercepted.
ContFaults(kv, ps, R) ==
    {f \in PtraceFaults :
        /\ ~killed
        /\ \E t \in R : CASE f = "lost event"  -> k[t] = "stop" /\ kv[t] # "none"
                          [] f = "not stopped" -> k[t] # "stop"
                          [] f = "lost signal" -> held[t] # ps[t]}

\* Mutant: a resumed thread is not marked as running.
Ptrace_Unmarked(kv, ts, si, ps, I, R, A) ==
    /\ tstate' = ts
    /\ sentIntr' = [t \in Tids |-> si[t] \/ t \in I]
    /\ pendSig' = [t \in Tids |-> ps[t] /\ t \notin R]
    /\ kint' = [t \in Tids |-> kint[t] \/ (t \in I /\ ~si[t] /\ k[t] \in {"run", "stop"})]
    /\ k' = [t \in Tids |-> IF t \in R /\ k[t] = "stop" THEN "run" ELSE k[t]]
    /\ kev' = [t \in Tids |-> IF t \in R /\ k[t] = "stop" THEN "none" ELSE kv[t]]
    /\ held' = [t \in Tids |-> held[t] /\ t \notin R]
    /\ faults' = faults \cup A \cup ContFaults(kv, ps, R)
    /\ UNCHANGED <<kmsg, pastExit, killed, boot>>

\* The ptrace requests of one debugger step: interrupt the threads I, then
\* resume the threads R.  kv, ts, si and ps are kev, tstate, sentIntr and
\* pendSig when the requests are made; A are the faults of the step itself.
Ptrace(kv, ts, si, ps, I, R, A) ==
    /\ tstate' = [t \in Tids |-> IF t \in R THEN "Running" ELSE ts[t]]
    /\ sentIntr' = [t \in Tids |-> si[t] \/ t \in I]
    /\ pendSig' = [t \in Tids |-> ps[t] /\ t \notin R]
    /\ kint' = [t \in Tids |-> kint[t] \/ (t \in I /\ ~si[t] /\ k[t] \in {"run", "stop"})]
    /\ k' = [t \in Tids |-> IF t \in R /\ k[t] = "stop" THEN "run" ELSE k[t]]
    /\ kev' = [t \in Tids |-> IF t \in R /\ k[t] = "stop" THEN "none" ELSE kv[t]]
    /\ held' = [t \in Tids |-> held[t] /\ t \notin R]
    /\ faults' = faults \cup A \cup ContFaults(kv, ps, R)
    /\ UNCHANGED <<kmsg, pastExit, killed, boot>>

\* Requests made outside the handling of a wait status.
PtraceNow(I, R, A) == Ptrace(kev, tstate, sentIntr, pendSig, I, R, A)

\* resume_threads_if_needed(): the suspended threads it resumes.
SuspendedIn(ths, ts) == {t \in ths : ts[t] = "Suspended"}
ResumeSet == {t \in SuspendedIn(threads, tstate) : WantsRun(t)'}

\* handle_breakpoints() rewrites code and debug registers.  It must not do so
\* while a thread can execute the code.
PatchFault == IF \E t \in Tids : UserRunning(t) THEN {"patched while running"} ELSE {}

\* Mutant: the flag is set, nobody is asked to stop.
ArrangeInterrupts_None == {}

\* arrange_handle_breakpoints(): handle_breakpoints() now, or stop everyone first.
ArrangeHandle == stopBps' = (stopBps \/ RunningIn(threads, tstate) # {})
ArrangeInterrupts == IF stopBps THEN {} ELSE RunningIn(threads, tstate)
ArrangeFault ==
    IF ~stopBps /\ RunningIn(threads, tstate) = {} THEN PatchFault ELSE {}

\* Mutant: an earlier choice is kept although that binary is loaded by now.
WaitFor_Stale(ps, b) ==
    IF ~(ps # NoPending \/ b = "loading") \/ loading = {} THEN {waitSyms}
    ELSE IF waitSyms # NoBinary THEN {waitSyms} ELSE loading

\* check_if_we_should_wait_for_symbols_to_load(): the values it may assign when
\* the pending step is ps and the breakpoint b.
NeedSymbols(ps, b) == ps # NoPending \/ b = "loading"
WaitFor(ps, b) ==
    IF ~NeedSymbols(ps, b) \/ loading = {} THEN {NoBinary}
    ELSE IF waitSyms \in loading THEN {waitSyms} ELSE loading
WaitFault(ps, b) ==
    IF NeedSymbols(ps, b) /\ loading = {} THEN {"no symbols to wait for"} ELSE {}

\* determine_locations_for_breakpoint(): a loaded binary has the line, or one
\* that is still loading may have it, or none does.  (A binary counts as loading
\* until both its symbols and its unwind tables are there, so that the answer
\* can be final while `loading` is not empty.)
Resolve(b) ==
    IF b \in {"off", "active"} THEN {b}
    ELSE {"active", "failed"} \cup (IF loading # {} THEN {"loading"} ELSE {})
ResolveStep(ps, mayFail) ==
    CASE ps.on = "none" -> {"none"}
      [] ps.on = "exec" -> {"stop"}
      [] ps.on = "cursor" ->
            {"start"} \cup (IF loading # {} THEN {"wait"} ELSE {})
                      \cup (IF mayFail THEN {"stop"} ELSE {})

(***************************************************************************)
(* try_pending_step_and_activate_breakpoints(), entered with target state  *)
(* tgt, pending step ps and step st; the user breakpoint resolves to b and *)
(* the pending step to s.                                                  *)
(***************************************************************************)
TryPendingStepAs(tgt, ps, st, b, s) ==
    LET arrange == s = "start" \/ (b = "active" /\ bp # "active")
        bad == IF ps # NoPending /\ (tgt # "Stepping" \/ st # NoStep)
               THEN {"pending step not stepping"} ELSE {}
    IN  /\ bp' = b
        /\ target' = IF s = "stop" THEN "Suspended" ELSE tgt
        /\ pendingStep' = IF s \in {"stop", "start"} THEN NoPending ELSE ps
        /\ stepping' = IF s = "start" THEN [tid |-> ps.tid, keep |-> FALSE] ELSE st
        /\ IF arrange THEN ArrangeHandle ELSE UNCHANGED stopBps
        /\ waitSyms' \in WaitFor(pendingStep', b)
        /\ PtraceNow((IF arrange THEN ArrangeInterrupts ELSE {})
                        \cup (IF waitSyms' # NoBinary THEN RunningIn(threads, tstate) ELSE {}),
                     IF waitSyms' = NoBinary THEN ResumeSet ELSE {},
                     bad \cup WaitFault(pendingStep', b) \cup UnwrapFault'
                        \cup (IF arrange THEN ArrangeFault ELSE {}))

TryPendingStep(tgt, ps, st, mayFail) ==
    \E b \in Resolve(bp), s \in ResolveStep(ps, mayFail) : TryPendingStepAs(tgt, ps, st, b, s)

(***************************************************************************)
(* process_events(): one action per branch.                                *)
(***************************************************************************)

\* Only the front of pending_wait_events is looked at, and before waitpid().
FrontReady == deferred # <<>> /\ Head(deferred).tid \in threads

\* The loop takes wait status e of thread t; kev and deferred lose it.
Take(t, e) ==
    /\ pc \in {"idle", "loop"} /\ pc' = "loop"
    /\ target # "NoProcess"
    /\ t \in threads
    /\ \/ /\ FrontReady
          /\ Head(deferred) = [tid |-> t, ev |-> e]
          /\ deferred' = Tail(deferred)
       \/ /\ ~FrontReady
          /\ Reapable(t) /\ kev[t] = e
          /\ UNCHANGED deferred
    /\ UNCHANGED <<svars, dropCaches>>

KevTaken(t) == IF FrontReady THEN kev ELSE [kev EXCEPT ![t] = "none"]

\* The end of a stop's branch: interrupt I, resume the threads in `others`, and
\* resume t itself if forced to or if it should be running.
FinishStop(t, signalled, force, I, others, A) ==
    LET forced == force \/ exiting'[t]
        R == others \cup (IF forced \/ WantsRun(t)' THEN {t} ELSE {})
    IN  Ptrace(KevTaken(t),
               [tstate EXCEPT ![t] = "Suspended"],
               [sentIntr EXCEPT ![t] = FALSE],
               [pendSig EXCEPT ![t] = @ \/ signalled],
               I, R, A \cup (IF forced THEN {} ELSE UnwrapFault'))

\* The status of a thread whose PTRACE_EVENT_CLONE was not seen yet is queued.
DeferEvent(t) ==
    /\ pc \in {"idle", "loop"} /\ pc' = "loop"
    /\ target # "NoProcess"
    /\ t \notin threads /\ ~FrontReady /\ Reapable(t)
    /\ deferred' = Append(deferred, [tid |-> t, ev |-> kev[t]])
    /\ kev' = [kev EXCEPT ![t] = "none"]
    /\ k' = [k EXCEPT ![t] = IF @ = "zombie" THEN "gone" ELSE @]
    /\ UNCHANGED <<kmsg, kint, held, pastExit, killed, boot, target, threads, anyLive,
                   waitSigstop, execFailed, stopBps, waitSyms, stepping, pendingStep,
                   tvars, svars, nontrivial, initExec, dropCaches, faults>>

\* WIFEXITED or WIFSIGNALED: forget the thread (the entry of a tid outside
\* `threads` is kept as Thread::new() makes it).  If it was being stepped, suspend().
HandleExited(t) ==
    /\ Take(t, "EXITED")
    /\ threads' = threads \ {t}
    /\ nontrivial' = TRUE
    /\ anyLive' \in IF t = anyLive THEN RepickAnyLive(threads', exiting) ELSE {anyLive}
    /\ LET suspend == threads' # {} /\ stepping.tid = t
           I == IF suspend THEN RunningIn(threads', tstate) ELSE {}
       IN  /\ target' = IF threads' = {} THEN "NoProcess"
                        ELSE IF suspend THEN "Suspended" ELSE target
           /\ stepping' = IF suspend THEN NoStep ELSE stepping
           /\ pendingStep' = IF suspend THEN NoPending ELSE pendingStep
           /\ waitSyms' = IF suspend THEN NoBinary ELSE waitSyms
           /\ tstate' = [tstate EXCEPT ![t] = "Running"]
           /\ sentIntr' = [u \in Tids |-> u # t /\ (sentIntr[u] \/ u \in I)]
           /\ kint' = [u \in Tids |-> kint[u] \/ (u \in I /\ ~sentIntr[u] /\ k[u] \in {"run", "stop"})]
           /\ faults' = faults \cup (IF suspend /\ target \notin {"Running", "Stepping"}
                                     THEN {"suspend failed"} ELSE {})
    /\ waitInit' = [waitInit EXCEPT ![t] = TRUE]
    /\ exiting' = [exiting EXCEPT ![t] = FALSE]
    /\ pendSig' = [pendSig EXCEPT ![t] = FALSE]
    /\ kev' = KevTaken(t)
    /\ k' = [k EXCEPT ![t] = "gone"]
    /\ UNCHANGED <<kmsg, held, pastExit, killed, boot, waitSigstop, execFailed, stopBps, initExec>>

\* The SIGSTOP the forked child sent itself.
HandleSigstop(t) ==
    /\ Take(t, "SIGSTOP") /\ waitSigstop
    /\ waitSigstop' = FALSE
    /\ waitInit' = [waitInit EXCEPT ![t] = FALSE]
    /\ nontrivial' = TRUE
    /\ UNCHANGED <<target, threads, anyLive, execFailed, stopBps, waitSyms, stepping,
                   pendingStep, exiting, initExec>>
    /\ FinishStop(t, FALSE, TRUE, {}, {},
                  IF waitInit[t] /\ t = Main /\ target = "Starting"
                  THEN {} ELSE {"initial SIGSTOP"})

\* Mutant: the thread is resumed whatever the target state.
HandleEventStop_Resumes(t) ==
    /\ Take(t, "STOP")
    /\ waitInit' = [waitInit EXCEPT ![t] = FALSE]
    /\ nontrivial' = TRUE
    /\ UNCHANGED <<target, threads, anyLive, waitSigstop, execFailed, stopBps, waitSyms,
                   stepping, pendingStep, exiting, initExec>>
    /\ FinishStop(t, FALSE, TRUE, {}, {}, {})

\* PTRACE_EVENT_STOP: new thread, PTRACE_INTERRUPT or group-stop.
HandleEventStop(t) ==
    /\ Take(t, "STOP")
    /\ waitInit' = [waitInit EXCEPT ![t] = FALSE]
    /\ nontrivial' = TRUE
    /\ UNCHANGED <<target, threads, anyLive, waitSigstop, execFailed, stopBps, waitSyms,
                   stepping, pendingStep, exiting, initExec>>
    /\ FinishStop(t, FALSE, FALSE, {}, {}, {})

\* PTRACE_EVENT_EXEC: the initial one makes the process ready.
HandleExec(t) ==
    /\ Take(t, "EXEC")
    /\ initExec' = (initExec \/ target = "Starting")
    /\ target' = IF target = "Starting" THEN "Suspended" ELSE target
    /\ nontrivial' = TRUE
    /\ UNCHANGED <<threads, anyLive, waitSigstop, execFailed, stopBps, waitSyms, stepping,
                   pendingStep, waitInit, exiting>>
    /\ FinishStop(t, FALSE, FALSE, {}, {},
                  IF waitSigstop THEN {"EXEC before SIGSTOP"} ELSE {})

\* Mutant: the child is not inserted.
HandleClone_Forgets(t) ==
    /\ Take(t, "CLONE")
    /\ nontrivial' = TRUE
    /\ UNCHANGED <<target, threads, anyLive, waitSigstop, execFailed, stopBps, waitSyms,
                   stepping, pendingStep, waitInit, exiting, initExec>>
    /\ FinishStop(t, FALSE, FALSE, {}, {}, {})

\* PTRACE_EVENT_CLONE: the child joins `threads`, running.
HandleClone(t) ==
    /\ Take(t, "CLONE")
    /\ threads' = threads \cup {kmsg[t]}
    /\ nontrivial' = TRUE
    /\ UNCHANGED <<target, anyLive, waitSigstop, execFailed, stopBps, waitSyms, stepping,
                   pendingStep, waitInit, exiting, initExec>>
    /\ FinishStop(t, FALSE, FALSE, {}, {}, {})

\* Mutant: an exiting thread is only resumed if the process is.
HandleExit_Waits(t) ==
    /\ Take(t, "EXIT")
    /\ anyLive' \in IF t = anyLive THEN RepickAnyLive(threads, exiting) ELSE {anyLive}
    /\ nontrivial' = TRUE
    /\ UNCHANGED <<target, threads, waitSigstop, execFailed, stopBps, waitSyms, stepping,
                   pendingStep, waitInit, exiting, initExec>>
    /\ FinishStop(t, FALSE, FALSE, {}, {}, {})

\* Mutant: one exiting thread makes the process count as exiting.
HandleExit_First(t) ==
    /\ Take(t, "EXIT")
    /\ exiting' = [exiting EXCEPT ![t] = TRUE]
    /\ anyLive' \in IF t = anyLive THEN RepickAnyLive(threads, exiting') ELSE {anyLive}
    /\ target' = "Exiting" /\ stepping' = NoStep
    /\ nontrivial' = TRUE
    /\ UNCHANGED <<threads, waitSigstop, execFailed, stopBps, waitSyms, pendingStep, waitInit,
                   initExec>>
    /\ FinishStop(t, FALSE, TRUE, {}, {}, {})

\* PTRACE_EVENT_EXIT.
HandleExit(t) ==
    /\ Take(t, "EXIT")
    /\ exiting' = [exiting EXCEPT ![t] = TRUE]
    /\ anyLive' \in IF t = anyLive THEN RepickAnyLive(threads, exiting') ELSE {anyLive}
    /\ LET last == \A u \in threads : exiting'[u]
       IN  /\ target' = IF last THEN "Exiting" ELSE target
           /\ stepping' = IF last THEN NoStep ELSE stepping
           /\ execFailed' = (execFailed \/ (last /\ target = "Starting"))
    /\ nontrivial' = TRUE
    /\ UNCHANGED <<threads, waitSigstop, stopBps, waitSyms, pendingStep, waitInit, initExec>>
    /\ FinishStop(t, FALSE, TRUE, {}, {}, {})

\* SIGTRAP.  swLocation: the location is a software one, or handle_step_stop()
\* added internal breakpoints; relax: handle_step_stop() found that the step may
\* do a syscall, so the other threads must run; refresh: refresh_process_info.
HandleTrapAs(t, outcome, swLocation, relax, refresh) ==
    LET ignore == stepping # NoStep \/ pendingStep # NoPending \/ target = "Suspended"
        mine == stepping # NoStep /\ stepping.tid = t
        hit == outcome # "miss"
        stopAll == \/ hit
                   \/ target = "Running"
                   \/ stepping' # NoStep /\ (~stepping'.keep \/ stepping'.tid # t)
    IN  /\ Take(t, "TRAP")
        /\ outcome = "hit" => ~ignore
        /\ outcome = "step done" => mine
        /\ relax => outcome = "miss" /\ mine /\ stepping.keep
        /\ stopBps' = (stopBps \/ swLocation)
        /\ stepping' = IF hit THEN NoStep
                       ELSE IF relax THEN [stepping EXCEPT !.keep = FALSE] ELSE stepping
        /\ pendingStep' = IF hit THEN NoPending ELSE pendingStep
        /\ target' = IF hit THEN "Suspended" ELSE target
        /\ nontrivial' = (nontrivial \/ hit \/ stopBps' \/ refresh)
        /\ UNCHANGED <<threads, anyLive, waitSigstop, execFailed, waitSyms, waitInit,
                       exiting, initExec>>
        /\ FinishStop(t, FALSE, ~hit /\ ~stopBps',
                      IF (hit \/ stopBps') /\ stopAll
                      THEN RunningIn(threads, [tstate EXCEPT ![t] = "Suspended"]) ELSE {},
                      IF relax THEN {u \in SuspendedIn(threads \ {t}, tstate) : WantsRun(u)'}
                      ELSE {},
                      {})

HandleTrap(t) ==
    \E outcome \in {"hit", "step done", "miss"}, swLocation, relax, refresh \in BOOLEAN :
        HandleTrapAs(t, outcome, swLocation, relax, refresh)

\* Mutant: the step is not cancelled.
HandleFatal_KeepsStep(t) ==
    /\ Take(t, "FATAL")
    /\ target' = "Suspended"
    /\ nontrivial' = TRUE
    /\ UNCHANGED <<threads, anyLive, waitSigstop, execFailed, stopBps, waitSyms, stepping,
                   pendingStep, waitInit, exiting, initExec>>
    /\ FinishStop(t, TRUE, FALSE,
                  RunningIn(threads, [tstate EXCEPT ![t] = "Suspended"]), {}, {})

\* SIGSEGV, SIGABRT, SIGILL, SIGFPE, SIGBUS, SIGSYS: suspend the process.
HandleFatal(t) ==
    /\ Take(t, "FATAL")
    /\ target' = "Suspended"
    /\ stepping' = NoStep
    /\ pendingStep' = NoPending
    /\ nontrivial' = TRUE
    /\ UNCHANGED <<threads, anyLive, waitSigstop, execFailed, stopBps, waitSyms, waitInit,
                   exiting, initExec>>
    /\ FinishStop(t, TRUE, FALSE,
                  RunningIn(threads, [tstate EXCEPT ![t] = "Suspended"]), {}, {})

\* Mutant: the signal is not remembered.
HandleBenign_Drops(t) ==
    /\ Take(t, "BENIGN")
    /\ UNCHANGED <<target, threads, anyLive, waitSigstop, execFailed, stopBps, waitSyms,
                   stepping, pendingStep, waitInit, exiting, nontrivial, initExec>>
    /\ FinishStop(t, FALSE, TRUE, {}, {}, {})

\* Any other signal is passed on at once.
HandleBenign(t) ==
    /\ Take(t, "BENIGN")
    /\ UNCHANGED <<target, threads, anyLive, waitSigstop, execFailed, stopBps, waitSyms,
                   stepping, pendingStep, waitInit, exiting, nontrivial, initExec>>
    /\ FinishStop(t, TRUE, TRUE, {}, {}, {})

\* SIGKILL overtook the stop: a request fails with ESRCH and the branch `continue`s.
HandleEsrch(t, e) ==
    /\ killed /\ e \in {"TRAP", "FATAL", "CLONE"}
    /\ Take(t, e)
    /\ UNCHANGED <<target, threads, anyLive, waitSigstop, execFailed, stopBps, waitSyms,
                   stepping, pendingStep, waitInit, exiting, nontrivial, initExec>>
    /\ Ptrace(KevTaken(t), [tstate EXCEPT ![t] = "Suspended"],
              [sentIntr EXCEPT ![t] = FALSE], [pendSig EXCEPT ![t] = @ \/ e = "FATAL"],
              {}, {}, {})

\* The loop ends (no status left, no process, or it ran for too long).  After a
\* nontrivial stop the maps are re-read, which can reveal new binaries and
\* evict ones that are no longer mapped.
EndLoop ==
    /\ pc = "loop"
    /\ nontrivial' = FALSE /\ initExec' = FALSE
    /\ IF nontrivial /\ ProcessReady(target)
       THEN \E new \in SUBSET (Binaries \ known), evicted \in SUBSET loading :
                /\ known' = known \cup new
                /\ loading' = (loading \ evicted) \cup new
                /\ dropCaches' = (new # {} \/ evicted # {})
                /\ pc' = IF initExec THEN "exec" ELSE "handle"
       ELSE pc' = "idle" /\ UNCHANGED <<known, loading, dropCaches>>
    /\ UNCHANGED <<kvars, pvars, tvars, bp, faults>>

\* After the initial exec the process starts to run or to step.
InitialExecTail ==
    /\ pc = "exec" /\ pc' = "handle"
    /\ TryPendingStep(IF pendingStep # NoPending THEN "Stepping" ELSE "Running",
                      pendingStep, stepping, TRUE)
    /\ UNCHANGED <<threads, anyLive, waitSigstop, execFailed, deferred, waitInit, exiting,
                   loading, known, nontrivial, initExec, dropCaches>>

\* Mutant: breakpoints are handled although somebody still runs.
HandleBreakpointsTail_Hasty ==
    /\ pc = "handle" /\ pc' = IF dropCaches THEN "drop" ELSE "idle"
    /\ UNCHANGED <<threads, anyLive, waitSigstop, execFailed, deferred, waitInit, exiting,
                   svars, nontrivial, initExec, dropCaches, target, waitSyms, stepping,
                   pendingStep>>
    /\ IF stopBps
       THEN stopBps' = FALSE /\ PtraceNow({}, ResumeSet, PatchFault)
       ELSE UNCHANGED <<stopBps, kvars, tstate, sentIntr, pendSig, faults>>

\* Mutant: stopping_to_handle_breakpoints is not reset.
HandleBreakpointsTail_Sticky ==
    /\ pc = "handle" /\ pc' = IF dropCaches THEN "drop" ELSE "idle"
    /\ UNCHANGED <<kvars, pvars, tvars, svars, nontrivial, initExec, dropCaches, faults>>

\* Everyone is stopped: rewrite the breakpoints and let the threads go on.
HandleBreakpointsTail ==
    /\ pc = "handle" /\ pc' = IF dropCaches THEN "drop" ELSE "idle"
    /\ UNCHANGED <<threads, anyLive, waitSigstop, execFailed, deferred, waitInit, exiting,
                   svars, nontrivial, initExec, dropCaches, target, waitSyms, stepping,
                   pendingStep>>
    /\ IF stopBps /\ RunningIn(threads, tstate) = {}
       THEN stopBps' = FALSE /\ PtraceNow({}, ResumeSet, PatchFault \cup UnwrapFault')
       ELSE UNCHANGED <<stopBps, kvars, tstate, sentIntr, pendSig, faults>>

\* Mutant: drop_caches() does not retry what waits for symbols.
DropCaches_NoRetry ==
    /\ pc = "drop" /\ pc' = "idle"
    /\ dropCaches' = FALSE
    /\ UNCHANGED <<kvars, pvars, tvars, svars, nontrivial, initExec, faults>>

\* The main loop calls drop_caches() at once when binaries or symbols changed.
DropCaches ==
    /\ pc = "drop" /\ pc' = "idle"
    /\ dropCaches' = FALSE
    /\ UNCHANGED <<threads, anyLive, waitSigstop, execFailed, deferred, waitInit, exiting,
                   loading, known, nontrivial, initExec>>
    /\ IF ProcessReady(target)
       THEN TryPendingStep(target, pendingStep, stepping, TRUE)
       ELSE UNCHANGED <<kvars, target, stopBps, waitSyms, stepping, pendingStep, tstate,
                        sentIntr, pendSig, bp, faults>>

\* symbols.process_events() applies messages of the loader threads; `done` are
\* the binaries whose loading is now complete.  Always followed by drop_caches().
SymbolsEvent(done) ==
    /\ pc = "idle" /\ pc' = "drop"
    /\ loading # {}
    /\ loading' = loading \ done
    /\ UNCHANGED <<kvars, pvars, tvars, known, bp, nontrivial, initExec, dropCaches, faults>>

HandleEvent(t) ==
    \/ HandleExited(t)
    \/ HandleSigstop(t)
    \/ HandleEventStop(t)
    \/ HandleExec(t)
    \/ HandleClone(t)
    \/ HandleExit(t)
    \/ HandleTrap(t)
    \/ HandleFatal(t)
    \/ HandleBenign(t)
    \/ \E e \in {"TRAP", "FATAL", "CLONE"} : HandleEsrch(t, e)
    \/ DeferEvent(t)

DebuggerNext ==
    \/ \E t \in Tids : HandleEvent(t)
    \/ EndLoop
    \/ InitialExecTail
    \/ HandleBreakpointsTail
    \/ DropCaches

(***************************************************************************)
(* User operations.                                                        *)
(***************************************************************************)

\* start_child(initial_step)
StartChild(on) ==
    /\ pc = "idle" /\ target = "NoProcess"
    /\ k' = [t \in Tids |-> IF t = Main THEN "run" ELSE "none"]
    /\ kev' = [t \in Tids |-> "none"]
    /\ kmsg' = [t \in Tids |-> Main]
    /\ kint' = [t \in Tids |-> FALSE]
    /\ held' = [t \in Tids |-> FALSE]
    /\ pastExit' = [t \in Tids |-> FALSE]
    /\ killed' = FALSE /\ boot' = "sigstop"
    /\ target' = "Starting" /\ threads' = {Main} /\ anyLive' = Main
    /\ waitSigstop' = TRUE /\ execFailed' = FALSE
    /\ stopBps' = FALSE /\ waitSyms' = NoBinary /\ stepping' = NoStep
    /\ pendingStep' = IF on = "none" THEN NoPending ELSE [tid |-> Main, on |-> on]
    /\ deferred' = <<>>
    /\ bp' = IF bp = "off" THEN "off" ELSE "new"
    /\ UNCHANGED <<tvars, loading, known, lvars, faults>>

OnlyControl ==
    UNCHANGED <<threads, anyLive, waitSigstop, execFailed, deferred, waitInit, exiting,
                loading, known, lvars>>

\* Mutant: resuming a stepping process leaves the step in place.
Resume_KeepsStep ==
    /\ pc = "idle"
    /\ \/ target \in {"Suspended", "Stepping"}
       \/ target = "Running" /\ waitSyms # NoBinary
    /\ target' = "Running"
    /\ waitSyms' \in WaitFor(pendingStep, bp)
    /\ UNCHANGED <<stepping, pendingStep, stopBps, bp>> /\ OnlyControl
    /\ PtraceNow({}, ResumeSet, {})

\* resume()
Resume ==
    /\ pc = "idle"
    /\ \/ target \in {"Suspended", "Stepping"}
       \/ target = "Running" /\ waitSyms # NoBinary
    /\ target' = "Running"
    /\ stepping' = IF target = "Stepping" THEN NoStep ELSE stepping
    /\ pendingStep' = IF target = "Stepping" THEN NoPending ELSE pendingStep
    /\ waitSyms' \in WaitFor(pendingStep', bp)
    /\ UNCHANGED <<stopBps, bp>> /\ OnlyControl
    /\ PtraceNow({}, ResumeSet, WaitFault(pendingStep', bp))

\* Mutant: the threads are not interrupted.
Suspend_NoInterrupt ==
    /\ "suspend" \in Ops
    /\ pc = "idle" /\ target \in {"Running", "Stepping"}
    /\ target' = "Suspended"
    /\ stepping' = NoStep /\ pendingStep' = NoPending /\ waitSyms' = NoBinary
    /\ UNCHANGED <<stopBps, bp>> /\ OnlyControl
    /\ PtraceNow({}, {}, {})

\* suspend()
Suspend ==
    /\ "suspend" \in Ops
    /\ pc = "idle" /\ target \in {"Running", "Stepping"}
    /\ target' = "Suspended"
    /\ stepping' = NoStep /\ pendingStep' = NoPending /\ waitSyms' = NoBinary
    /\ UNCHANGED <<stopBps, bp>> /\ OnlyControl
    /\ PtraceNow(RunningIn(threads, tstate), {}, {})

\* step(): keep is keep_other_threads_suspended; newLocations says whether
\* internal breakpoints were added or the thread stands on a software location.
Step(t, keep, newLocations) ==
    /\ "step" \in Ops
    /\ pc = "idle" /\ target = "Suspended"
    /\ t \in threads /\ tstate[t] = "Suspended"
    /\ target' = "Stepping" /\ stepping' = [tid |-> t, keep |-> keep]
    /\ IF newLocations THEN ArrangeHandle ELSE UNCHANGED stopBps
    /\ UNCHANGED <<waitSyms, pendingStep, bp>> /\ OnlyControl
    /\ PtraceNow(IF newLocations THEN ArrangeInterrupts ELSE {},
                 IF keep THEN ResumeSet \cap {t} ELSE ResumeSet,
                 (IF stepping # NoStep THEN {"step during step"} ELSE {})
                     \cup (IF newLocations THEN ArrangeFault ELSE {}))

\* step_to_cursor()
StepToCursor(t) ==
    /\ "cursor" \in Ops
    /\ pc = "idle" /\ ProcessReady(target) /\ t \in threads
    /\ OnlyControl
    /\ TryPendingStep("Stepping", [tid |-> t, on |-> "cursor"], NoStep,
                      CursorCanFail \/ target = "Suspended")

\* activate_breakpoints() for one new or re-enabled breakpoint, which resolves to b.
ActivateBreakpointAs(b) ==
    LET wait == b = "loading" /\ waitSyms = NoBinary
    IN  /\ bp' = b
        /\ IF b = "active" THEN ArrangeHandle ELSE UNCHANGED stopBps
        /\ waitSyms' \in IF wait THEN WaitFor(pendingStep, b) ELSE {waitSyms}
        /\ PtraceNow((IF b = "active" THEN ArrangeInterrupts ELSE {})
                        \cup (IF wait THEN RunningIn(threads, tstate) ELSE {}),
                     {},
                     (IF wait THEN WaitFault(pendingStep, b) ELSE {})
                        \cup (IF b = "active" THEN ArrangeFault ELSE {}))

ActivateBreakpoint == \E b \in Resolve("new") : ActivateBreakpointAs(b)

\* add_breakpoint(), or set_breakpoint_enabled(true)
AddBreakpoint ==
    /\ "breakpoint" \in Ops
    /\ pc = "idle" /\ bp = "off"
    /\ UNCHANGED <<target, stepping, pendingStep>> /\ OnlyControl
    /\ IF ProcessReady(target)
       THEN ActivateBreakpoint
       ELSE bp' = "new" /\ UNCHANGED <<kvars, stopBps, waitSyms, tstate, sentIntr, pendSig, faults>>

\* remove_breakpoint(), or set_breakpoint_enabled(false)
RemoveBreakpoint ==
    /\ pc = "idle" /\ bp # "off"
    /\ bp' = "off"
    /\ UNCHANGED <<kvars, pvars, tvars, loading, known, lvars, faults>>

\* murder()
Murder ==
    /\ "kill" \in Ops
    /\ pc = "idle" /\ ProcessReady(target) /\ ~killed
    /\ killed' = TRUE
    /\ UNCHANGED <<k, kev, kmsg, kint, held, pastExit, boot, pvars, tvars, svars, lvars, faults>>

UserNext ==
    \/ \E on \in {"none", "exec", "cursor"} : StartChild(on)
    \/ Resume
    \/ Suspend
    \/ \E t \in Tids, keep, newLocations \in BOOLEAN : Step(t, keep, newLocations)
    \/ \E t \in Tids : StepToCursor(t)
    \/ AddBreakpoint
    \/ RemoveBreakpoint
    \/ Murder

Next ==
    \/ KernelNext
    \/ DebuggerNext
    \/ \E done \in SUBSET loading : SymbolsEvent(done)
    \/ UserNext

Spec == Init /\ [][Next]_vars

(***************************************************************************)
(* Safety.                                                                 *)
(***************************************************************************)

\* handle_breakpoints() ("All threads must be suspended.") never rewrites code
\* while some thread of the debuggee, known to the debugger or not, can run it.
QuiescentPatching == "patched while running" \notin faults

\* Every PTRACE_CONT goes to a thread that is really stopped, discards no wait
\* status the debugger has not seen, and injects a signal exactly when one was
\* intercepted: no signal of the debuggee is lost, none is invented.
PtraceContract == faults \cap PtraceFaults = {}

\* No assert!, debug_assert! or unwrap() of the control code can fail, and
\* suspend() called from process_events() never returns an error.
AssertionsHold == faults \cap AssertFaults = {}

\* The debugger keeps ptrace's rules and its own.
ContractHolds == PtraceContract /\ AssertionsHold

\* Once the process counts as suspended, no thread can go on executing it: what
\* still runs, and what will be resumed when its status is handled, has a STOP
\* trap pending.
SuspendedStopsThreads ==
    target = "Suspended" /\ pc = "idle" /\ ~killed =>
        \A t \in Tids :
            UserRunning(t) \/ kev[t] \in {"TRAP", "BENIGN"} => kint[t]

\* While one thread is stepped with the others kept suspended, no other thread
\* executes more than what it does before it notices its pending STOP trap.
StepIsolation ==
    target = "Stepping" /\ stepping.keep /\ pc = "idle" =>
        \A t \in Tids \ {stepping.tid} : UserRunning(t) => kint[t]

\* Threads that should be at rest are, or have a STOP trap pending.
HeldThreadsStay == SuspendedStopsThreads /\ StepIsolation

\* While the debugger is stopping all threads to handle breakpoints, somebody is
\* still on the way to a stop that it has yet to see; otherwise nothing would
\* ever call handle_breakpoints() and the debuggee would hang.
StoppingIsInProgress ==
    pc = "idle" /\ stopBps /\ ProcessReady(target) /\ ~killed =>
        LET running == RunningIn(threads, tstate)
        IN  /\ running # {}
            /\ \A t \in running : k[t] = "born" \/ kint[t] \/ kev[t] # "none"
                                    \/ \E i \in DOMAIN deferred : deferred[i].tid = t

\* The process is only kept waiting for a binary whose loading will be reported,
\* so that drop_caches() will be called to resume it.
WaitHasReason ==
    pc = "idle" /\ ProcessReady(target) /\ waitSyms # NoBinary => waitSyms \in loading

\* any_live_tid, used for memory access and PTRACE_POKETEXT, is a live thread.
AnyLiveIsLive ==
    ProcessReady(target) /\ ~killed => anyLive \in threads /\ ~exiting[anyLive]

\* The process is stepping exactly if a step is under way or waits for symbols.
SteppingConsistent ==
    pc = "idle" /\ ProcessReady(target) =>
        (target = "Stepping" <=> stepping # NoStep \/ pendingStep # NoPending)

\* A status is only set aside for a thread whose creation will be reported:
\* pending_wait_events cannot be blocked by an entry that never becomes ready.
DeferredWillAppear ==
    ~killed =>
        \A i \in DOMAIN deferred :
            deferred[i].tid \in threads \/
            \E p \in threads : kmsg[p] = deferred[i].tid /\ kev[p] = "CLONE"

\* What the debugger holds about the process is never stale: the flag, the binary,
\* the thread, the step and the statuses set aside that its next decisions depend on
\* are all real.
ControlConsistent ==
    /\ StoppingIsInProgress
    /\ WaitHasReason
    /\ AnyLiveIsLive
    /\ SteppingConsistent
    /\ DeferredWillAppear

\* Once every thread has announced its exit the process never becomes ready
\* again, whatever late statuses are still to be handled: maps and memory of a
\* vanished pid are not read (comment at the PTRACE_EVENT_EXIT branch).
ExitIsFinal == [][target = "Exiting" => target' \in {"Exiting", "NoProcess"}]_vars

(***************************************************************************)
(* Why breakpoints are only rewritten at rest: what `threads` says agrees  *)
(* with what the kernel does.                                              *)
(***************************************************************************)

\* Whoever can execute the debuggee is in `threads`, marked as running.
RunnersKnown == \A t \in Tids : UserRunning(t) => t \in threads /\ tstate[t] = "Running"

\* A thread marked as exiting, or whose exit stop was reported, is past its
\* last user instruction.
ExitsPast ==
    /\ \A t \in Tids : exiting[t] \/ kev[t] = "EXIT" => pastExit[t]
    /\ \A i \in DOMAIN deferred : deferred[i].ev = "EXIT" => pastExit[deferred[i].tid]

\* The entry of a tid outside `threads` is what Thread::new() makes of it.
FreshOutside == \A t \in Tids \ threads : tstate[t] = "Running" /\ ~exiting[t]

NoProcessNoThreads == target = "NoProcess" => threads = {}

\* A status that waits to be reaped belongs to a thread that is at rest.
StatusAtRest ==
    \A t \in Tids : /\ kev[t] # "none" => k[t] \in {"stop", "zombie"}
                    /\ kev[t] = "EXITED" => k[t] = "zombie"

\* A status set aside belongs to a thread that is not running, and, unless the
\* thread was killed, it is the only status of the stop the thread is still in.
DeferredAtRest ==
    \A i \in DOMAIN deferred :
        LET t == deferred[i].tid
        IN  /\ k[t] \in {"stop", "zombie", "gone"} \/ (k[t] = "run" /\ pastExit[t])
            /\ deferred[i].ev = "EXITED" => k[t] = "gone"
            /\ k[t] = "stop" /\ ~pastExit[t] =>
                  /\ tstate[t] = "Running" /\ kev[t] = "none"
                  /\ \A j \in DOMAIN deferred : deferred[j].tid = t => j = i

\* The debugger's table of threads agrees with the kernel at every step, also
\* between reaping the first status of a thread and hearing of its clone().
ThreadTableAgrees ==
    /\ RunnersKnown
    /\ ExitsPast
    /\ FreshOutside
    /\ NoProcessNoThreads
    /\ StatusAtRest
    /\ DeferredAtRest

(***************************************************************************)
(* Liveness.  Fairness: the main loop keeps calling process_events() while *)
(* there are statuses, and waitpid() does not pass over a waitable thread  *)
(* for ever; the kernel delivers a pending STOP trap, and threads that are *)
(* past their exit stop or killed go on dying; symbol loading terminates.  *)
(* Nothing is assumed of the user or of what the debuggee chooses to do.   *)
(***************************************************************************)
Doomed(t) == (k[t] = "run" /\ pastExit[t]) \/ (killed /\ Alive(t) /\ ~pastExit[t])

Fairness ==
    /\ WF_vars(DebuggerNext)
    /\ \A t \in Tids : SF_vars(HandleEvent(t))
    /\ \A t \in Tids : WF_vars((kint[t] \/ k[t] = "born") /\ KernelTrapStop(t))
    /\ \A t \in Tids : WF_vars(Doomed(t) /\ (KernelDie(t) \/ KernelExitStop(t)))
    /\ SF_vars(\E done \in SUBSET loading : done # {} /\ SymbolsEvent(done))

FairSpec == Spec /\ Fairness

\* After suspend(), a hit or a fatal signal, every thread is eventually seen
\* stopped (or exiting), unless the user moves on or the process is killed first.
SuspendSettles ==
    target = "Suspended" ~>
        \/ target # "Suspended" \/ killed
        \/ \A t \in threads : tstate[t] = "Suspended" \/ exiting[t]

\* Stopping everyone to handle breakpoints ends: the breakpoints are handled or
\* the process goes away.
BreakpointsGetHandled == stopBps ~> (~stopBps \/ ~ProcessReady(target) \/ killed)

\* A thread of a running process does not stay stopped, whatever stopped it: a
\* missed breakpoint, a signal, breakpoints being handled or missing symbols.
RunningResumes ==
    \A t \in Tids :
        (t \in threads /\ target = "Running") ~>
            (t \notin threads \/ target # "Running" \/ killed \/ tstate[t] = "Running")

\* A process that was killed, all of whose threads the debugger knows, is
\* eventually gone: nobody waits for a status that does not come.
KilledProcessEnds ==
    (killed /\ \A t \in Tids : k[t] \notin {"none", "gone"} => t \in threads)
        ~> target = "NoProcess"

\* A status set aside in pending_wait_events is processed at some point.
DeferredGetsHandled ==
    (deferred # <<>> /\ target # "NoProcess") ~> (deferred = <<>> \/ target = "NoProcess")
=============================================================================
