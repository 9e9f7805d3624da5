----------------------- MODULE PtraceControl_proofs -----------------------
(***************************************************************************)
(* Proofs about PtraceControl, for every set of threads and binaries: the  *)
(* types of its state, the agreement of the debugger's thread table with   *)
(* the kernel, that breakpoints are only rewritten while nobody runs, that *)
(* an exit is final, that every ptrace request meets a stopped thread and  *)
(* no assertion of the debugger fails, that a thread waits and steps only  *)
(* for a reason, and, when no cursor fails, that a suspended process holds *)
(* its threads and that the kernel's events match what the table expects.  *)
(***************************************************************************)
EXTENDS PtraceControl, TLAPS

\* The variables that the requests of one debugger step change.
PtraceTypeOK ==
    /\ k \in [Tids -> KStates]
    /\ kev \in [Tids -> Events \cup {"none"}]
    /\ kmsg \in [Tids -> Tids]
    /\ kint \in [Tids -> BOOLEAN]
    /\ held \in [Tids -> BOOLEAN]
    /\ pastExit \in [Tids -> BOOLEAN]
    /\ killed \in BOOLEAN
    /\ boot \in {"sigstop", "exec", "up"}
    /\ tstate \in [Tids -> {"Running", "Suspended"}]
    /\ sentIntr \in [Tids -> BOOLEAN]
    /\ pendSig \in [Tids -> BOOLEAN]
    /\ faults \in SUBSET (PtraceFaults \cup AssertFaults \cup {"patched while running"})

\* Every fault that PTRACE_CONT can raise is one of PtraceFaults.
LEMMA ContFaultsType ==
    ASSUME NEW kv, NEW ps, NEW R
    PROVE  ContFaults(kv, ps, R) \subseteq PtraceFaults
BY DEF ContFaults

\* Well-typed requests leave their variables well typed.
LEMMA PtraceTypes ==
    ASSUME TypeOK,
           NEW kv \in [Tids -> Events \cup {"none"}],
           NEW ts \in [Tids -> {"Running", "Suspended"}],
           NEW si \in [Tids -> BOOLEAN],
           NEW ps \in [Tids -> BOOLEAN],
           NEW I, NEW R,
           NEW A \in SUBSET (PtraceFaults \cup AssertFaults \cup {"patched while running"}),
           Ptrace(kv, ts, si, ps, I, R, A)
    PROVE  PtraceTypeOK'
<1>1. k' \in [Tids -> KStates] /\ kev' \in [Tids -> Events \cup {"none"}]
    BY DEF TypeOK, Ptrace, KStates
<1>2. kmsg' \in [Tids -> Tids] /\ pastExit' \in [Tids -> BOOLEAN] /\ killed' \in BOOLEAN
        /\ boot' \in {"sigstop", "exec", "up"}
    BY DEF TypeOK, Ptrace
<1>3. kint' \in [Tids -> BOOLEAN] /\ held' \in [Tids -> BOOLEAN]
    BY DEF TypeOK, Ptrace
<1>4. /\ tstate' \in [Tids -> {"Running", "Suspended"}]
      /\ sentIntr' \in [Tids -> BOOLEAN] /\ pendSig' \in [Tids -> BOOLEAN]
    BY DEF TypeOK, Ptrace
<1>5. faults' \in SUBSET (PtraceFaults \cup AssertFaults \cup {"patched while running"})
    BY ContFaultsType DEF TypeOK, Ptrace
<1> QED BY <1>1, <1>2, <1>3, <1>4, <1>5 DEF PtraceTypeOK

\* The same for requests outside the handling of a status.
LEMMA PtraceNowTypes ==
    ASSUME TypeOK,
           NEW I, NEW R,
           NEW A \in SUBSET (PtraceFaults \cup AssertFaults \cup {"patched while running"}),
           PtraceNow(I, R, A)
    PROVE  PtraceTypeOK'
BY PtraceTypes DEF PtraceNow, TypeOK

\* The faults that the debugger's own decisions can raise.
LEMMA FaultTypes ==
    /\ PatchFault \subseteq {"patched while running"}
    /\ ArrangeFault \subseteq {"patched while running"}
    /\ UnwrapFault \subseteq AssertFaults
    /\ \A ps, b : WaitFault(ps, b) \subseteq AssertFaults
BY DEF PatchFault, ArrangeFault, UnwrapFault, WaitFault, AssertFaults

\* Handling a stop of t leaves the same variables well typed.
LEMMA FinishStopTypes ==
    ASSUME TypeOK, NEW t \in Tids, NEW signalled \in BOOLEAN, NEW force \in BOOLEAN,
           NEW I, NEW others,
           NEW A \in SUBSET (PtraceFaults \cup AssertFaults),
           FinishStop(t, signalled, force, I, others, A)
    PROVE  PtraceTypeOK'
<1> DEFINE forced == force \/ exiting'[t]
           R == others \cup (IF forced \/ WantsRun(t)' THEN {t} ELSE {})
           B == A \cup (IF forced THEN {} ELSE UnwrapFault')
<1>1. KevTaken(t) \in [Tids -> Events \cup {"none"}]
    BY DEF KevTaken, TypeOK
<1>2. [tstate EXCEPT ![t] = "Suspended"] \in [Tids -> {"Running", "Suspended"}]
    BY DEF TypeOK
<1>3. [sentIntr EXCEPT ![t] = FALSE] \in [Tids -> BOOLEAN]
    BY DEF TypeOK
<1>4. [pendSig EXCEPT ![t] = @ \/ signalled] \in [Tids -> BOOLEAN]
    BY DEF TypeOK
<1>5. UnwrapFault' \subseteq AssertFaults
    BY DEF UnwrapFault, AssertFaults
<1>6. B \in SUBSET (PtraceFaults \cup AssertFaults \cup {"patched while running"})
    BY <1>5
<1>7. Ptrace(KevTaken(t), [tstate EXCEPT ![t] = "Suspended"], [sentIntr EXCEPT ![t] = FALSE],
             [pendSig EXCEPT ![t] = @ \/ signalled], I, R, B)
    BY DEF FinishStop
<1> HIDE DEF R, B
<1> QED BY <1>1, <1>2, <1>3, <1>4, <1>6, <1>7, PtraceTypes

\* The variables that Ptrace() does not change.
ControlTypeOK ==
    /\ target \in ProcessStates
    /\ threads \in SUBSET Tids
    /\ anyLive \in Tids
    /\ waitSigstop \in BOOLEAN
    /\ execFailed \in BOOLEAN
    /\ stopBps \in BOOLEAN
    /\ waitSyms \in Binaries \cup {NoBinary}
    /\ stepping \in [tid : Tids \cup {NoTid}, keep : BOOLEAN]
    /\ pendingStep \in [tid : Tids \cup {NoTid}, on : {"none", "exec", "cursor"}]
    /\ deferred \in Seq([tid : Tids, ev : Events])
    /\ waitInit \in [Tids -> BOOLEAN]
    /\ exiting \in [Tids -> BOOLEAN]
    /\ loading \in SUBSET Binaries
    /\ known \in SUBSET Binaries
    /\ bp \in {"off", "new", "loading", "failed", "active"}
    /\ pc \in {"idle", "loop", "exec", "handle", "drop"}
    /\ nontrivial \in BOOLEAN
    /\ initExec \in BOOLEAN
    /\ dropCaches \in BOOLEAN

\* TypeOK in two halves that few actions disturb together.
LEMMA TypeSplit == TypeOK <=> PtraceTypeOK /\ ControlTypeOK
BY DEF TypeOK, PtraceTypeOK, ControlTypeOK

\* The same of the next state.
LEMMA TypeSplitPrime == TypeOK' <=> PtraceTypeOK' /\ ControlTypeOK'
BY DEF TypeOK, PtraceTypeOK, ControlTypeOK

\* The kernel's own variables.
KernelTypeOK ==
    /\ k \in [Tids -> KStates]
    /\ kev \in [Tids -> Events \cup {"none"}]
    /\ kmsg \in [Tids -> Tids]
    /\ kint \in [Tids -> BOOLEAN]
    /\ held \in [Tids -> BOOLEAN]
    /\ pastExit \in [Tids -> BOOLEAN]
    /\ killed \in BOOLEAN
    /\ boot \in {"sigstop", "exec", "up"}

\* Steps of the kernel.
LEMMA KernelTypes == TypeOK /\ KernelNext => TypeOK'
<1> SUFFICES ASSUME TypeOK, KernelNext PROVE TypeOK'
    OBVIOUS
<1>a. KernelTypeOK
    BY DEF TypeOK, KernelTypeOK
<1>b. KernelTypeOK'
  <2> USE <1>a DEF KernelTypeOK, KStates, Events, StopEvents
  <2>1. ASSUME NEW t \in Tids, KernelTrapStop(t) PROVE KernelTypeOK'
      BY <2>1 DEF KernelTrapStop, KStop
  <2>2. ASSUME NEW t \in Tids, NEW e \in {"TRAP", "BENIGN", "FATAL"}, KernelSignal(t, e)
        PROVE  KernelTypeOK'
      BY <2>2 DEF KernelSignal, KStop
  <2>3. ASSUME NEW t \in Tids, NEW u \in Tids, KernelClone(t, u) PROVE KernelTypeOK'
      BY <2>3 DEF KernelClone
  <2>4. CASE KernelSigstop
      BY <2>4, TidsAssumption DEF KernelSigstop, KStop
  <2>5. CASE KernelExec
      BY <2>5, TidsAssumption DEF KernelExec, KStop
  <2>6. ASSUME NEW t \in Tids, KernelExitStop(t) PROVE KernelTypeOK'
      BY <2>6 DEF KernelExitStop, KStop
  <2>7. CASE KernelKill
      BY <2>7 DEF KernelKill
  <2>8. ASSUME NEW t \in Tids, KernelDie(t) PROVE KernelTypeOK'
      BY <2>8 DEF KernelDie
  <2> QED BY <2>1, <2>2, <2>3, <2>4, <2>5, <2>6, <2>7, <2>8 DEF KernelNext
<1>c. UNCHANGED <<pvars, tvars, svars, lvars, faults>>
    BY DEF KernelNext, KernelTrapStop, KernelSignal, KernelClone, KernelSigstop, KernelExec,
           KernelExitStop, KernelKill, KernelDie
<1>d. ControlTypeOK'
  <2>1. ControlTypeOK
      BY TypeSplit
  <2> QED BY <2>1, <1>c DEF ControlTypeOK, pvars, tvars, svars, lvars
<1>e. PtraceTypeOK'
    BY <1>b, <1>c DEF TypeOK, PtraceTypeOK, KernelTypeOK, tvars
<1> QED BY <1>d, <1>e, TypeSplitPrime

\* Removing the front of a queue, and appending to it.
LEMMA TailProperties ==
    ASSUME NEW S, NEW q \in Seq(S), q # <<>>
    PROVE  /\ Tail(q) \in Seq(S)
           /\ Head(q) = q[1] /\ 1 \in DOMAIN q
           /\ \A i \in DOMAIN Tail(q) : i + 1 \in DOMAIN q /\ Tail(q)[i] = q[i + 1]
                                          /\ i \in Nat
OBVIOUS

\* An element of a sequence is in the set the sequence is over.
LEMMA ElementOf ==
    ASSUME NEW S, NEW q \in Seq(S), NEW i \in DOMAIN q
    PROVE  q[i] \in S
OBVIOUS

\* What Append() does to the elements and to the domain.
LEMMA AppendProperties ==
    ASSUME NEW S, NEW q \in Seq(S), NEW x \in S
    PROVE  /\ Append(q, x) \in Seq(S)
           /\ \A i \in DOMAIN Append(q, x) :
                 (i \in DOMAIN q /\ Append(q, x)[i] = q[i]) \/ (i = Len(q) + 1 /\ Append(q, x)[i] = x)
OBVIOUS

\* What the loop of process_events() takes keeps its variables well typed.
LEMMA TakeTypes ==
    ASSUME TypeOK, NEW t, NEW e, Take(t, e)
    PROVE  /\ t \in Tids
           /\ deferred' \in Seq([tid : Tids, ev : Events])
           /\ loading' \in SUBSET Binaries
           /\ known' \in SUBSET Binaries
           /\ bp' \in {"off", "new", "loading", "failed", "active"}
           /\ pc' \in {"idle", "loop", "exec", "handle", "drop"}
           /\ dropCaches' \in BOOLEAN
<1>1. t \in Tids
    BY DEF TypeOK, Take
<1>2. deferred' \in Seq([tid : Tids, ev : Events])
  <2>1. deferred \in Seq([tid : Tids, ev : Events])
      BY DEF TypeOK
  <2>2. deferred' = deferred \/ (deferred # <<>> /\ deferred' = Tail(deferred))
      BY DEF Take, FrontReady
  <2> QED BY <2>1, <2>2, TailProperties
<1>3. loading' \in SUBSET Binaries /\ known' \in SUBSET Binaries
        /\ bp' \in {"off", "new", "loading", "failed", "active"}
        /\ dropCaches' \in BOOLEAN
    BY DEF TypeOK, Take, svars
<1>4. pc' \in {"idle", "loop", "exec", "handle", "drop"}
    BY DEF Take
<1> QED BY <1>1, <1>2, <1>3, <1>4

\* Facts of this shape the provers do not find unless they are stated.
LEMMA NoFaults ==
    {} \in SUBSET (PtraceFaults \cup AssertFaults) /\ TRUE \in BOOLEAN /\ FALSE \in BOOLEAN
OBVIOUS

\* repick_any_live_tid() picks a thread id.
LEMMA RepickType ==
    ASSUME NEW ths \in SUBSET Tids, NEW ex
    PROVE  RepickAnyLive(ths, ex) \subseteq Tids
BY TidsAssumption DEF RepickAnyLive

\* What most branches of process_events() leave alone stays well typed.
LEMMA ControlKept ==
    ASSUME TypeOK, NEW t, NEW e, Take(t, e),
           UNCHANGED <<anyLive, execFailed, stopBps, waitSyms, stepping, pendingStep, exiting>>,
           target' \in ProcessStates, threads' \in SUBSET Tids, waitSigstop' \in BOOLEAN,
           waitInit' \in [Tids -> BOOLEAN], nontrivial' \in BOOLEAN, initExec' \in BOOLEAN
    PROVE  ControlTypeOK'
<1>1. /\ anyLive' \in Tids /\ execFailed' \in BOOLEAN /\ stopBps' \in BOOLEAN
      /\ waitSyms' \in Binaries \cup {NoBinary}
    BY DEF TypeOK
<1>2. /\ stepping' \in [tid : Tids \cup {NoTid}, keep : BOOLEAN]
      /\ pendingStep' \in [tid : Tids \cup {NoTid}, on : {"none", "exec", "cursor"}]
      /\ exiting' \in [Tids -> BOOLEAN]
    BY DEF TypeOK
<1>3. /\ deferred' \in Seq([tid : Tids, ev : Events])
      /\ loading' \in SUBSET Binaries /\ known' \in SUBSET Binaries
      /\ bp' \in {"off", "new", "loading", "failed", "active"}
      /\ pc' \in {"idle", "loop", "exec", "handle", "drop"}
      /\ dropCaches' \in BOOLEAN
    BY TakeTypes
<1> QED BY <1>1, <1>2, <1>3 DEF ControlTypeOK

\* One lemma per branch of process_events().
LEMMA HandleEventStopTypes ==
    ASSUME TypeOK, NEW t \in Tids, HandleEventStop(t)
    PROVE  TypeOK'
<1>1. Take(t, "STOP") /\ FinishStop(t, FALSE, FALSE, {}, {}, {})
    BY DEF HandleEventStop
<1>2. PtraceTypeOK'
    BY <1>1, FinishStopTypes, NoFaults
<1>3. ControlTypeOK'
  <2>1. ControlTypeOK
      BY TypeSplit
  <2>2. waitInit' \in [Tids -> BOOLEAN]
      BY <2>1 DEF ControlTypeOK, HandleEventStop
  <2>3. nontrivial' \in BOOLEAN
        /\ UNCHANGED <<target, threads, anyLive, waitSigstop, execFailed, stopBps, waitSyms,
                       stepping, pendingStep, exiting, initExec>>
      BY DEF HandleEventStop
  <2>4. target' \in ProcessStates /\ threads' \in SUBSET Tids /\ waitSigstop' \in BOOLEAN
        /\ initExec' \in BOOLEAN
      BY <2>1, <2>3 DEF ControlTypeOK
  <2> QED BY <1>1, <2>2, <2>3, <2>4, ControlKept
<1> QED BY <1>2, <1>3, TypeSplitPrime

\* PTRACE_EVENT_CLONE: handle_events() adds the child to the thread table.
LEMMA HandleCloneTypes ==
    ASSUME TypeOK, NEW t \in Tids, HandleClone(t)
    PROVE  TypeOK'
<1>1. Take(t, "CLONE") /\ FinishStop(t, FALSE, FALSE, {}, {}, {})
    BY DEF HandleClone
<1>2. PtraceTypeOK'
    BY <1>1, FinishStopTypes, NoFaults
<1>3. ControlTypeOK'
  <2>1. ControlTypeOK
      BY TypeSplit
  <2>2. kmsg[t] \in Tids
      BY DEF TypeOK
  <2>3. threads' = threads \cup {kmsg[t]} /\ nontrivial' \in BOOLEAN
        /\ UNCHANGED <<target, anyLive, waitSigstop, execFailed, stopBps, waitSyms,
                       stepping, pendingStep, waitInit, exiting, initExec>>
      BY DEF HandleClone
  <2>4. target' \in ProcessStates /\ threads' \in SUBSET Tids /\ waitSigstop' \in BOOLEAN
        /\ waitInit' \in [Tids -> BOOLEAN] /\ initExec' \in BOOLEAN
      BY <2>1, <2>2, <2>3 DEF ControlTypeOK
  <2> QED BY <1>1, <2>3, <2>4, ControlKept
<1> QED BY <1>2, <1>3, TypeSplitPrime

\* Signals that are passed on.
LEMMA HandleBenignTypes ==
    ASSUME TypeOK, NEW t \in Tids, HandleBenign(t)
    PROVE  TypeOK'
<1>1. Take(t, "BENIGN") /\ FinishStop(t, TRUE, TRUE, {}, {}, {})
    BY DEF HandleBenign
<1>2. PtraceTypeOK'
    BY <1>1, FinishStopTypes, NoFaults
<1>3. ControlTypeOK'
  <2>1. ControlTypeOK
      BY TypeSplit
  <2>2. UNCHANGED <<target, threads, anyLive, waitSigstop, execFailed, stopBps, waitSyms,
                   stepping, pendingStep, waitInit, exiting, nontrivial, initExec>>
      BY DEF HandleBenign
  <2>3. target' \in ProcessStates /\ threads' \in SUBSET Tids /\ waitSigstop' \in BOOLEAN
        /\ waitInit' \in [Tids -> BOOLEAN] /\ nontrivial' \in BOOLEAN /\ initExec' \in BOOLEAN
      BY <2>1, <2>2 DEF ControlTypeOK
  <2> QED BY <1>1, <2>2, <2>3, ControlKept
<1> QED BY <1>2, <1>3, TypeSplitPrime

\* Signals that suspend the process, and the end of the step they cut off.
LEMMA HandleFatalTypes ==
    ASSUME TypeOK, NEW t \in Tids, HandleFatal(t)
    PROVE  TypeOK'
<1>1. Take(t, "FATAL") /\ FinishStop(t, TRUE, FALSE, RunningIn(threads, [tstate EXCEPT ![t] = "Suspended"]), {}, {})
    BY DEF HandleFatal
<1>2. PtraceTypeOK'
    BY <1>1, FinishStopTypes, NoFaults
<1>3. ControlTypeOK'
  <2>1. ControlTypeOK
      BY TypeSplit
  <2> QED BY <1>1, <2>1, TakeTypes DEF ControlTypeOK, HandleFatal, ProcessStates, NoStep, NoPending
<1> QED BY <1>2, <1>3, TypeSplitPrime

\* PTRACE_EVENT_EXEC of the initial exec().
LEMMA HandleExecTypes ==
    ASSUME TypeOK, NEW t \in Tids, HandleExec(t)
    PROVE  TypeOK'
<1>1. Take(t, "EXEC") /\ FinishStop(t, FALSE, FALSE, {}, {}, IF waitSigstop THEN {"EXEC before SIGSTOP"} ELSE {})
    BY DEF HandleExec
<1>2. PtraceTypeOK'
    BY <1>1, FinishStopTypes DEF AssertFaults
<1>3. ControlTypeOK'
  <2>1. ControlTypeOK
      BY TypeSplit
  <2>2. target' \in ProcessStates /\ initExec' \in BOOLEAN
      BY <2>1 DEF ControlTypeOK, HandleExec, ProcessStates
  <2>3. nontrivial' \in BOOLEAN
        /\ UNCHANGED <<threads, anyLive, waitSigstop, execFailed, stopBps, waitSyms,
                       stepping, pendingStep, waitInit, exiting>>
      BY DEF HandleExec
  <2>4. /\ deferred' \in Seq([tid : Tids, ev : Events])
        /\ loading' \in SUBSET Binaries /\ known' \in SUBSET Binaries
        /\ bp' \in {"off", "new", "loading", "failed", "active"}
        /\ pc' \in {"idle", "loop", "exec", "handle", "drop"} /\ dropCaches' \in BOOLEAN
      BY <1>1, TakeTypes
  <2> QED BY <2>1, <2>2, <2>3, <2>4 DEF ControlTypeOK
<1> QED BY <1>2, <1>3, TypeSplitPrime

\* The SIGSTOP the child raises before exec().
LEMMA HandleSigstopTypes ==
    ASSUME TypeOK, NEW t \in Tids, HandleSigstop(t)
    PROVE  TypeOK'
<1>1. Take(t, "SIGSTOP") /\ FinishStop(t, FALSE, TRUE, {}, {},
           IF waitInit[t] /\ t = Main /\ target = "Starting" THEN {} ELSE {"initial SIGSTOP"})
    BY DEF HandleSigstop
<1>2. PtraceTypeOK'
    BY <1>1, FinishStopTypes DEF AssertFaults
<1>3. ControlTypeOK'
  <2>1. ControlTypeOK
      BY TypeSplit
  <2>2. waitInit' \in [Tids -> BOOLEAN]
      BY <2>1 DEF ControlTypeOK, HandleSigstop
  <2>3. waitSigstop' \in BOOLEAN /\ nontrivial' \in BOOLEAN
        /\ UNCHANGED <<target, threads, anyLive, execFailed, stopBps, waitSyms, stepping,
                       pendingStep, exiting, initExec>>
      BY DEF HandleSigstop
  <2>4. /\ deferred' \in Seq([tid : Tids, ev : Events])
        /\ loading' \in SUBSET Binaries /\ known' \in SUBSET Binaries
        /\ bp' \in {"off", "new", "loading", "failed", "active"}
        /\ pc' \in {"idle", "loop", "exec", "handle", "drop"} /\ dropCaches' \in BOOLEAN
      BY <1>1, TakeTypes
  <2> QED BY <2>1, <2>2, <2>3, <2>4 DEF ControlTypeOK
<1> QED BY <1>2, <1>3, TypeSplitPrime

\* PTRACE_EVENT_EXIT: the thread leaves the table.
LEMMA HandleExitTypes ==
    ASSUME TypeOK, NEW t \in Tids, HandleExit(t)
    PROVE  TypeOK'
<1>1. Take(t, "EXIT") /\ FinishStop(t, FALSE, TRUE, {}, {}, {})
    BY DEF HandleExit
<1>2. PtraceTypeOK'
    BY <1>1, FinishStopTypes, NoFaults
<1>3. ControlTypeOK'
  <2>1. ControlTypeOK
      BY TypeSplit
  <2>2. exiting' \in [Tids -> BOOLEAN]
      BY <2>1 DEF ControlTypeOK, HandleExit
  <2>3. anyLive' \in Tids
      BY <2>1, RepickType DEF ControlTypeOK, HandleExit
  <2>4. /\ target' \in ProcessStates
        /\ stepping' \in [tid : Tids \cup {NoTid}, keep : BOOLEAN]
        /\ execFailed' \in BOOLEAN
      BY <2>1 DEF ControlTypeOK, HandleExit, NoStep, ProcessStates
  <2> QED BY <1>1, <2>1, <2>2, <2>3, <2>4, TakeTypes DEF ControlTypeOK, HandleExit
<1> QED BY <1>2, <1>3, TypeSplitPrime

\* waitpid() says that a thread is gone.
LEMMA HandleExitedTypes ==
    ASSUME TypeOK, NEW t \in Tids, HandleExited(t)
    PROVE  TypeOK'
<1>1. Take(t, "EXITED")
    BY DEF HandleExited
<1>2. PtraceTypeOK'
  <2>1. k' \in [Tids -> KStates] /\ kev' \in [Tids -> Events \cup {"none"}]
      BY DEF TypeOK, HandleExited, KevTaken, KStates
  <2>2. kint' \in [Tids -> BOOLEAN] /\ sentIntr' \in [Tids -> BOOLEAN]
      BY DEF TypeOK, HandleExited
  <2>3. tstate' \in [Tids -> {"Running", "Suspended"}] /\ pendSig' \in [Tids -> BOOLEAN]
      BY DEF TypeOK, HandleExited
  <2>4. faults' \in SUBSET (PtraceFaults \cup AssertFaults \cup {"patched while running"})
      BY DEF TypeOK, HandleExited, AssertFaults
  <2> QED BY <2>1, <2>2, <2>3, <2>4 DEF TypeOK, PtraceTypeOK, HandleExited
<1>3. ControlTypeOK'
  <2>1. ControlTypeOK
      BY TypeSplit
  <2>2. threads' \in SUBSET Tids
      BY <2>1 DEF ControlTypeOK, HandleExited
  <2>3. anyLive' \in Tids
      BY <2>1, <2>2, RepickType DEF ControlTypeOK, HandleExited
  <2>4. /\ target' \in ProcessStates
        /\ stepping' \in [tid : Tids \cup {NoTid}, keep : BOOLEAN]
        /\ pendingStep' \in [tid : Tids \cup {NoTid}, on : {"none", "exec", "cursor"}]
        /\ waitSyms' \in Binaries \cup {NoBinary}
      BY <2>1 DEF ControlTypeOK, HandleExited, NoStep, NoPending, ProcessStates
  <2>5. waitInit' \in [Tids -> BOOLEAN] /\ exiting' \in [Tids -> BOOLEAN]
      BY <2>1 DEF ControlTypeOK, HandleExited
  <2> QED BY <1>1, <2>1, <2>2, <2>3, <2>4, <2>5, TakeTypes DEF ControlTypeOK, HandleExited
<1> QED BY <1>2, <1>3, TypeSplitPrime

\* SIGTRAP: a breakpoint or the end of a single step.
LEMMA HandleTrapTypes ==
    ASSUME TypeOK, NEW t \in Tids, HandleTrap(t)
    PROVE  TypeOK'
<1>1. PICK outcome \in {"hit", "step done", "miss"}, swLocation, relax, refresh \in BOOLEAN :
          HandleTrapAs(t, outcome, swLocation, relax, refresh)
    BY DEF HandleTrap
<1>2. PtraceTypeOK'
  <2>1. \E force \in BOOLEAN : \E I, others : FinishStop(t, FALSE, force, I, others, {})
      BY <1>1 DEF HandleTrapAs
  <2> QED BY <2>1, FinishStopTypes, NoFaults
<1>3. ControlTypeOK'
  <2>1. ControlTypeOK
      BY TypeSplit
  <2>2. /\ stepping' \in [tid : Tids \cup {NoTid}, keep : BOOLEAN]
        /\ pendingStep' \in [tid : Tids \cup {NoTid}, on : {"none", "exec", "cursor"}]
        /\ target' \in ProcessStates
      BY <1>1, <2>1 DEF ControlTypeOK, HandleTrapAs, NoStep, NoPending, ProcessStates
  <2>3. stopBps' \in BOOLEAN /\ nontrivial' \in BOOLEAN
      BY <1>1, <2>1 DEF ControlTypeOK, HandleTrapAs
  <2>4. Take(t, "TRAP") /\ UNCHANGED <<threads, anyLive, waitSigstop, execFailed, waitSyms,
                                       waitInit, exiting, initExec>>
      BY <1>1 DEF HandleTrapAs
  <2> QED BY <2>1, <2>2, <2>3, <2>4, TakeTypes DEF ControlTypeOK
<1> QED BY <1>2, <1>3, TypeSplitPrime

\* A ptrace request fails with ESRCH because the thread was killed.
LEMMA HandleEsrchTypes ==
    ASSUME TypeOK, NEW t \in Tids, NEW e, HandleEsrch(t, e)
    PROVE  TypeOK'
<1>1. PtraceTypeOK'
  <2>1. KevTaken(t) \in [Tids -> Events \cup {"none"}]
      BY DEF KevTaken, TypeOK
  <2>2. [tstate EXCEPT ![t] = "Suspended"] \in [Tids -> {"Running", "Suspended"}]
      BY DEF TypeOK
  <2>3. [sentIntr EXCEPT ![t] = FALSE] \in [Tids -> BOOLEAN]
      BY DEF TypeOK
  <2>4. [pendSig EXCEPT ![t] = @ \/ e = "FATAL"] \in [Tids -> BOOLEAN]
      BY DEF TypeOK
  <2>5. Ptrace(KevTaken(t), [tstate EXCEPT ![t] = "Suspended"], [sentIntr EXCEPT ![t] = FALSE],
               [pendSig EXCEPT ![t] = @ \/ e = "FATAL"], {}, {}, {})
      BY DEF HandleEsrch
  <2>6. {} \in SUBSET (PtraceFaults \cup AssertFaults \cup {"patched while running"})
      OBVIOUS
  <2> QED BY <2>1, <2>2, <2>3, <2>4, <2>5, <2>6, PtraceTypes
<1>2. ControlTypeOK'
  <2>1. ControlTypeOK
      BY TypeSplit
  <2>2. Take(t, e) /\ UNCHANGED <<target, threads, anyLive, waitSigstop, execFailed, stopBps, waitSyms,
                                     stepping, pendingStep, waitInit, exiting, nontrivial, initExec>>
      BY DEF HandleEsrch
  <2>3. target' \in ProcessStates /\ threads' \in SUBSET Tids /\ waitSigstop' \in BOOLEAN
        /\ waitInit' \in [Tids -> BOOLEAN] /\ nontrivial' \in BOOLEAN /\ initExec' \in BOOLEAN
      BY <2>1, <2>2 DEF ControlTypeOK
  <2> QED BY <2>2, <2>3, ControlKept
<1> QED BY <1>1, <1>2, TypeSplitPrime

\* A status of a thread not in the table is moved to pending_wait_events.
LEMMA DeferEventTypes ==
    ASSUME TypeOK, NEW t \in Tids, DeferEvent(t)
    PROVE  TypeOK'
<1>1. PtraceTypeOK'
    BY DEF TypeOK, PtraceTypeOK, DeferEvent, KStates, tvars
<1>2. ControlTypeOK'
  <2>1. ControlTypeOK
      BY TypeSplit
  <2>2. [tid |-> t, ev |-> kev[t]] \in [tid : Tids, ev : Events]
    <3>1. kev[t] \in Events \cup {"none"}
        BY DEF TypeOK
    <3>2. kev[t] # "none"
        BY DEF DeferEvent, Reapable
    <3> QED BY <3>1, <3>2
  <2>3. deferred' \in Seq([tid : Tids, ev : Events])
      BY <2>1, <2>2, AppendProperties DEF ControlTypeOK, DeferEvent
  <2>4. UNCHANGED <<target, threads, anyLive, waitSigstop, execFailed, stopBps, waitSyms,
                    stepping, pendingStep, waitInit, exiting, loading, known, bp>>
        /\ UNCHANGED <<nontrivial, initExec, dropCaches>>
        /\ pc' \in {"idle", "loop", "exec", "handle", "drop"}
      BY <2>1 DEF DeferEvent, tvars, svars, ControlTypeOK
  <2> QED BY <2>1, <2>3, <2>4 DEF ControlTypeOK
<1> QED BY <1>1, <1>2, TypeSplitPrime

\* The decisions about breakpoints and symbols keep their variables well typed.
LEMMA WaitForType ==
    ASSUME TypeOK, NEW ps, NEW b
    PROVE  WaitFor(ps, b) \subseteq Binaries \cup {NoBinary}
BY DEF WaitFor, TypeOK

\* What a pending step resolves to is a step or nothing.
LEMMA ResolveType ==
    ASSUME TypeOK, NEW b \in {"off", "new", "loading", "failed", "active"}
    PROVE  Resolve(b) \subseteq {"off", "new", "loading", "failed", "active"}
BY DEF Resolve

\* try_pending_step_and_activate_breakpoints()
LEMMA TryPendingStepTypes ==
    ASSUME TypeOK,
           NEW tgt \in ProcessStates,
           NEW ps \in [tid : Tids \cup {NoTid}, on : {"none", "exec", "cursor"}],
           NEW st \in [tid : Tids \cup {NoTid}, keep : BOOLEAN],
           NEW mayFail,
           TryPendingStep(tgt, ps, st, mayFail)
    PROVE  /\ PtraceTypeOK'
           /\ target' \in ProcessStates
           /\ stopBps' \in BOOLEAN
           /\ waitSyms' \in Binaries \cup {NoBinary}
           /\ stepping' \in [tid : Tids \cup {NoTid}, keep : BOOLEAN]
           /\ pendingStep' \in [tid : Tids \cup {NoTid}, on : {"none", "exec", "cursor"}]
           /\ bp' \in {"off", "new", "loading", "failed", "active"}
<1>1. PICK b \in Resolve(bp), s \in ResolveStep(ps, mayFail) : TryPendingStepAs(tgt, ps, st, b, s)
    BY DEF TryPendingStep
<1>2. bp' \in {"off", "new", "loading", "failed", "active"}
  <2>1. bp \in {"off", "new", "loading", "failed", "active"}
      BY DEF TypeOK
  <2> QED BY <1>1, <2>1, ResolveType DEF TryPendingStepAs
<1>3. /\ target' \in ProcessStates
      /\ stepping' \in [tid : Tids \cup {NoTid}, keep : BOOLEAN]
      /\ pendingStep' \in [tid : Tids \cup {NoTid}, on : {"none", "exec", "cursor"}]
    BY <1>1 DEF TryPendingStepAs, ProcessStates, NoPending
<1>4. stopBps' \in BOOLEAN
    BY <1>1 DEF TryPendingStepAs, ArrangeHandle, TypeOK
<1>5. waitSyms' \in Binaries \cup {NoBinary}
    BY <1>1, WaitForType DEF TryPendingStepAs
<1>6. PtraceTypeOK'
  <2>1. PICK I, R, bad :
            /\ bad \subseteq {"pending step not stepping"}
            /\ PtraceNow(I, R, bad \cup WaitFault(pendingStep', b) \cup UnwrapFault'
                                  \cup (IF s = "start" \/ (b = "active" /\ bp # "active")
                                        THEN ArrangeFault ELSE {}))
      BY <1>1 DEF TryPendingStepAs
  <2>2. UnwrapFault' \subseteq AssertFaults
      BY DEF UnwrapFault, AssertFaults
  <2>3. bad \subseteq AssertFaults
      BY <2>1 DEF AssertFaults
  <2>4. bad \cup WaitFault(pendingStep', b) \cup UnwrapFault'
            \cup (IF s = "start" \/ (b = "active" /\ bp # "active") THEN ArrangeFault ELSE {})
          \in SUBSET (PtraceFaults \cup AssertFaults \cup {"patched while running"})
      BY <2>2, <2>3, FaultTypes
  <2> QED BY <2>1, <2>4, PtraceNowTypes
<1> QED BY <1>2, <1>3, <1>4, <1>5, <1>6

\* The end of process_events() and the main loop.
LEMMA TailTypes ==
    ASSUME TypeOK, EndLoop \/ InitialExecTail \/ HandleBreakpointsTail \/ DropCaches
    PROVE  TypeOK'
<1>a. PtraceTypeOK /\ ControlTypeOK
    BY TypeSplit
<1>1. CASE EndLoop
  <2>1. /\ loading' \in SUBSET Binaries /\ known' \in SUBSET Binaries
        /\ dropCaches' \in BOOLEAN
        /\ pc' \in {"idle", "loop", "exec", "handle", "drop"}
    <3>1. CASE nontrivial /\ ProcessReady(target)
      <4>1. PICK new \in SUBSET (Binaries \ known), evicted \in SUBSET loading :
                /\ known' = known \cup new
                /\ loading' = (loading \ evicted) \cup new
                /\ dropCaches' = (new # {} \/ evicted # {})
                /\ pc' = IF initExec THEN "exec" ELSE "handle"
          BY <1>1, <3>1 DEF EndLoop
      <4> QED BY <1>a, <4>1 DEF ControlTypeOK
    <3>2. CASE ~(nontrivial /\ ProcessReady(target))
        BY <1>1, <1>a, <3>2 DEF EndLoop, ControlTypeOK
    <3> QED BY <3>1, <3>2
  <2>2. /\ nontrivial' = FALSE /\ initExec' = FALSE
        /\ UNCHANGED <<kvars, pvars, tvars, bp, faults>>
      BY <1>1 DEF EndLoop
  <2>5. UNCHANGED <<target, threads, anyLive, waitSigstop, execFailed, stopBps, waitSyms,
                    stepping, pendingStep, deferred>>
        /\ UNCHANGED <<waitInit, exiting>>
      BY <2>2 DEF pvars, tvars
  <2>6. /\ target' \in ProcessStates /\ threads' \in SUBSET Tids /\ anyLive' \in Tids
        /\ waitSigstop' \in BOOLEAN /\ execFailed' \in BOOLEAN /\ stopBps' \in BOOLEAN
        /\ waitSyms' \in Binaries \cup {NoBinary}
      BY <1>a, <2>5 DEF ControlTypeOK
  <2>7. /\ stepping' \in [tid : Tids \cup {NoTid}, keep : BOOLEAN]
        /\ pendingStep' \in [tid : Tids \cup {NoTid}, on : {"none", "exec", "cursor"}]
        /\ deferred' \in Seq([tid : Tids, ev : Events])
        /\ waitInit' \in [Tids -> BOOLEAN] /\ exiting' \in [Tids -> BOOLEAN]
      BY <1>a, <2>5 DEF ControlTypeOK
  <2>3. ControlTypeOK'
      BY <1>a, <2>1, <2>2, <2>6, <2>7 DEF ControlTypeOK
  <2>4. PtraceTypeOK'
      BY <1>a, <2>2 DEF PtraceTypeOK, kvars, tvars
  <2> QED BY <2>3, <2>4, TypeSplitPrime
<1>2. CASE InitialExecTail
  <2>1. (IF pendingStep # NoPending THEN "Stepping" ELSE "Running") \in ProcessStates
      BY DEF ProcessStates
  <2>2. TryPendingStep(IF pendingStep # NoPending THEN "Stepping" ELSE "Running",
                       pendingStep, stepping, TRUE)
      BY <1>2 DEF InitialExecTail
  <2>3. /\ PtraceTypeOK'
        /\ target' \in ProcessStates
        /\ stopBps' \in BOOLEAN
        /\ waitSyms' \in Binaries \cup {NoBinary}
        /\ stepping' \in [tid : Tids \cup {NoTid}, keep : BOOLEAN]
        /\ pendingStep' \in [tid : Tids \cup {NoTid}, on : {"none", "exec", "cursor"}]
        /\ bp' \in {"off", "new", "loading", "failed", "active"}
      BY <1>a, <2>1, <2>2, TryPendingStepTypes DEF ControlTypeOK
  <2>4. ControlTypeOK'
      BY <1>a, <1>2, <2>3 DEF ControlTypeOK, InitialExecTail
  <2> QED BY <2>3, <2>4, TypeSplitPrime
<1>3. CASE HandleBreakpointsTail
  <2>1. ControlTypeOK'
    <3>1. /\ pc' \in {"drop", "idle"}
          /\ UNCHANGED <<threads, anyLive, waitSigstop, execFailed, deferred, waitInit, exiting,
                         svars, nontrivial, initExec, dropCaches, target, waitSyms, stepping,
                         pendingStep>>
        BY <1>3 DEF HandleBreakpointsTail
    <3>2. stopBps' \in BOOLEAN
        BY <1>a, <1>3 DEF HandleBreakpointsTail, ControlTypeOK
    <3>3. pc' \in {"idle", "loop", "exec", "handle", "drop"}
        BY <3>1
    <3> QED BY <1>a, <3>1, <3>2, <3>3 DEF ControlTypeOK, svars
  <2>2. PtraceTypeOK'
    <3>1. CASE stopBps /\ RunningIn(threads, tstate) = {}
      <4>1. PtraceNow({}, ResumeSet, PatchFault \cup UnwrapFault')
          BY <1>3, <3>1 DEF HandleBreakpointsTail
      <4>2. UnwrapFault' \subseteq AssertFaults
          BY DEF UnwrapFault, AssertFaults
      <4> QED BY <4>1, <4>2, FaultTypes, PtraceNowTypes
    <3>2. CASE ~(stopBps /\ RunningIn(threads, tstate) = {})
        BY <1>a, <1>3, <3>2 DEF HandleBreakpointsTail, PtraceTypeOK, kvars
    <3> QED BY <3>1, <3>2
  <2> QED BY <2>1, <2>2, TypeSplitPrime
<1>4. CASE DropCaches
  <2>1. CASE ProcessReady(target)
    <3>1. TryPendingStep(target, pendingStep, stepping, TRUE)
        BY <1>4, <2>1 DEF DropCaches
    <3>2. /\ PtraceTypeOK'
          /\ target' \in ProcessStates
          /\ stopBps' \in BOOLEAN
          /\ waitSyms' \in Binaries \cup {NoBinary}
          /\ stepping' \in [tid : Tids \cup {NoTid}, keep : BOOLEAN]
          /\ pendingStep' \in [tid : Tids \cup {NoTid}, on : {"none", "exec", "cursor"}]
          /\ bp' \in {"off", "new", "loading", "failed", "active"}
        BY <1>a, <3>1, TryPendingStepTypes DEF ControlTypeOK
    <3>3. ControlTypeOK'
        BY <1>a, <1>4, <3>2 DEF ControlTypeOK, DropCaches
    <3> QED BY <3>2, <3>3, TypeSplitPrime
  <2>2. CASE ~ProcessReady(target)
    <3>1. ControlTypeOK'
        BY <1>a, <1>4, <2>2 DEF ControlTypeOK, DropCaches
    <3>2. PtraceTypeOK'
        BY <1>a, <1>4, <2>2 DEF PtraceTypeOK, DropCaches, kvars
    <3> QED BY <3>1, <3>2, TypeSplitPrime
  <2> QED BY <2>1, <2>2
<1> QED BY <1>1, <1>2, <1>3, <1>4

\* Symbols get loaded; drop_caches() retries what waited for them.
LEMMA SymbolsTypes ==
    ASSUME TypeOK, NEW done, SymbolsEvent(done)
    PROVE  TypeOK'
<1>a. PtraceTypeOK /\ ControlTypeOK
    BY TypeSplit
<1>1. ControlTypeOK'
    BY <1>a DEF ControlTypeOK, SymbolsEvent, pvars, tvars
<1>2. PtraceTypeOK'
    BY <1>a DEF PtraceTypeOK, SymbolsEvent, kvars, tvars
<1> QED BY <1>1, <1>2, TypeSplitPrime

\* Operations of the user.
LEMMA StartChildTypes ==
    ASSUME TypeOK, NEW on \in {"none", "exec", "cursor"}, StartChild(on)
    PROVE  TypeOK'
<1>a. PtraceTypeOK /\ ControlTypeOK
    BY TypeSplit
<1>1. PtraceTypeOK'
    BY <1>a, TidsAssumption DEF PtraceTypeOK, StartChild, KStates, Events, StopEvents, tvars
<1>2. ControlTypeOK'
  <2>1. deferred' \in Seq([tid : Tids, ev : Events])
      BY DEF StartChild
  <2>2. /\ pendingStep' \in [tid : Tids \cup {NoTid}, on : {"none", "exec", "cursor"}]
        /\ stepping' \in [tid : Tids \cup {NoTid}, keep : BOOLEAN]
      BY TidsAssumption DEF StartChild, NoPending, NoStep
  <2> QED BY <1>a, <2>1, <2>2, TidsAssumption
          DEF ControlTypeOK, StartChild, ProcessStates, tvars, lvars
<1> QED BY <1>1, <1>2, TypeSplitPrime

\* The operations of the user.
LEMMA UserTypes ==
    ASSUME TypeOK, UserNext
    PROVE  TypeOK'
<1>a. PtraceTypeOK /\ ControlTypeOK
    BY TypeSplit
<1>1. CASE Resume
  <2>1. PtraceTypeOK'
    <3>1. PtraceNow({}, ResumeSet, WaitFault(pendingStep', bp))
        BY <1>1 DEF Resume
    <3> QED BY <3>1, FaultTypes, PtraceNowTypes
  <2>2. waitSyms' \in Binaries \cup {NoBinary}
      BY <1>1, WaitForType DEF Resume
  <2>3. ControlTypeOK'
      BY <1>a, <1>1, <2>2
         DEF ControlTypeOK, Resume, OnlyControl, NoStep, NoPending, ProcessStates, lvars
  <2> QED BY <2>1, <2>3, TypeSplitPrime
<1>2. CASE Suspend
  <2>1. PtraceTypeOK'
    <3>1. PtraceNow(RunningIn(threads, tstate), {}, {})
        BY <1>2 DEF Suspend
    <3>2. {} \in SUBSET (PtraceFaults \cup AssertFaults \cup {"patched while running"})
        OBVIOUS
    <3> QED BY <3>1, <3>2, PtraceNowTypes
  <2>2. ControlTypeOK'
      BY <1>a, <1>2
         DEF ControlTypeOK, Suspend, OnlyControl, NoStep, NoPending, ProcessStates, lvars
  <2> QED BY <2>1, <2>2, TypeSplitPrime
<1>3. ASSUME NEW t \in Tids, NEW keep \in BOOLEAN, NEW newLocations \in BOOLEAN,
             Step(t, keep, newLocations)
      PROVE  TypeOK'
  <2>1. PtraceTypeOK'
    <3>1. PICK I, R, bad : /\ bad \subseteq {"step during step"}
                           /\ PtraceNow(I, R, bad \cup (IF newLocations THEN ArrangeFault ELSE {}))
        BY <1>3 DEF Step
    <3>2. bad \cup (IF newLocations THEN ArrangeFault ELSE {})
            \in SUBSET (PtraceFaults \cup AssertFaults \cup {"patched while running"})
        BY <3>1, FaultTypes DEF AssertFaults
    <3> QED BY <3>1, <3>2, PtraceNowTypes
  <2>2. stopBps' \in BOOLEAN
      BY <1>a, <1>3 DEF ControlTypeOK, Step, ArrangeHandle
  <2>3. stepping' \in [tid : Tids \cup {NoTid}, keep : BOOLEAN] /\ target' \in ProcessStates
      BY <1>3 DEF Step, ProcessStates
  <2>4. UNCHANGED <<waitSyms, pendingStep, bp, threads, anyLive, waitSigstop, execFailed,
                    deferred, waitInit, exiting, loading, known, lvars>>
      BY <1>3 DEF Step, OnlyControl
  <2>5. ControlTypeOK'
      BY <1>a, <2>2, <2>3, <2>4 DEF ControlTypeOK, lvars
  <2> QED BY <2>1, <2>5, TypeSplitPrime
<1>4. ASSUME NEW t \in Tids, StepToCursor(t)
      PROVE  TypeOK'
  <2>1. /\ "Stepping" \in ProcessStates
        /\ [tid |-> t, on |-> "cursor"] \in [tid : Tids \cup {NoTid}, on : {"none", "exec", "cursor"}]
        /\ NoStep \in [tid : Tids \cup {NoTid}, keep : BOOLEAN]
      BY DEF ProcessStates, NoStep
  <2>2. TryPendingStep("Stepping", [tid |-> t, on |-> "cursor"], NoStep,
                       CursorCanFail \/ target = "Suspended")
      BY <1>4 DEF StepToCursor
  <2>3. /\ PtraceTypeOK'
        /\ target' \in ProcessStates
        /\ stopBps' \in BOOLEAN
        /\ waitSyms' \in Binaries \cup {NoBinary}
        /\ stepping' \in [tid : Tids \cup {NoTid}, keep : BOOLEAN]
        /\ pendingStep' \in [tid : Tids \cup {NoTid}, on : {"none", "exec", "cursor"}]
        /\ bp' \in {"off", "new", "loading", "failed", "active"}
      BY <2>1, <2>2, TryPendingStepTypes
  <2>4. ControlTypeOK'
      BY <1>a, <1>4, <2>3 DEF ControlTypeOK, StepToCursor, OnlyControl, lvars
  <2> QED BY <2>3, <2>4, TypeSplitPrime
<1>5. CASE AddBreakpoint
  <2>1. CASE ProcessReady(target)
    <3>1. PICK b \in Resolve("new") : ActivateBreakpointAs(b)
        BY <1>5, <2>1 DEF AddBreakpoint, ActivateBreakpoint
    <3>2. bp' \in {"off", "new", "loading", "failed", "active"}
        BY <3>1, ResolveType DEF ActivateBreakpointAs
    <3>3. stopBps' \in BOOLEAN
        BY <1>a, <3>1 DEF ActivateBreakpointAs, ArrangeHandle, ControlTypeOK
    <3>4. waitSyms' \in Binaries \cup {NoBinary}
        BY <1>a, <3>1, WaitForType DEF ActivateBreakpointAs, ControlTypeOK
    <3>5. PtraceTypeOK'
      <4>1. PICK I, R, W : /\ W = {} \/ W = WaitFault(pendingStep, b)
                           /\ PtraceNow(I, R, W \cup (IF b = "active" THEN ArrangeFault ELSE {}))
          BY <3>1 DEF ActivateBreakpointAs
      <4>2. W \cup (IF b = "active" THEN ArrangeFault ELSE {})
              \in SUBSET (PtraceFaults \cup AssertFaults \cup {"patched while running"})
          BY <4>1, FaultTypes
      <4> QED BY <4>1, <4>2, PtraceNowTypes
    <3>6. ControlTypeOK'
        BY <1>a, <1>5, <3>2, <3>3, <3>4 DEF ControlTypeOK, AddBreakpoint, OnlyControl, lvars
    <3> QED BY <3>5, <3>6, TypeSplitPrime
  <2>2. CASE ~ProcessReady(target)
    <3>1. ControlTypeOK'
        BY <1>a, <1>5, <2>2 DEF ControlTypeOK, AddBreakpoint, OnlyControl, lvars
    <3>2. PtraceTypeOK'
        BY <1>a, <1>5, <2>2 DEF PtraceTypeOK, AddBreakpoint, kvars
    <3> QED BY <3>1, <3>2, TypeSplitPrime
  <2> QED BY <2>1, <2>2
<1>6. CASE RemoveBreakpoint
  <2>1. ControlTypeOK'
      BY <1>a, <1>6 DEF ControlTypeOK, RemoveBreakpoint, pvars, tvars, lvars
  <2>2. PtraceTypeOK'
      BY <1>a, <1>6 DEF PtraceTypeOK, RemoveBreakpoint, kvars, tvars
  <2> QED BY <2>1, <2>2, TypeSplitPrime
<1>7. CASE Murder
  <2>1. ControlTypeOK'
      BY <1>a, <1>7 DEF ControlTypeOK, Murder, pvars, tvars, svars, lvars
  <2>2. PtraceTypeOK'
      BY <1>a, <1>7 DEF PtraceTypeOK, Murder, tvars
  <2> QED BY <2>1, <2>2, TypeSplitPrime
<1> QED BY <1>1, <1>2, <1>3, <1>4, <1>5, <1>6, <1>7, StartChildTypes DEF UserNext

\* Type correctness is inductive.
LEMMA NextTypes == TypeOK /\ [Next]_vars => TypeOK'
<1> SUFFICES ASSUME TypeOK, [Next]_vars PROVE TypeOK'
    OBVIOUS
<1>1. ASSUME NEW t \in Tids, HandleEvent(t) PROVE TypeOK'
    BY <1>1, HandleExitedTypes, HandleSigstopTypes, HandleEventStopTypes, HandleExecTypes,
       HandleCloneTypes, HandleExitTypes, HandleTrapTypes, HandleFatalTypes, HandleBenignTypes,
       HandleEsrchTypes, DeferEventTypes DEF HandleEvent
<1>2. CASE DebuggerNext
    BY <1>1, <1>2, TailTypes DEF DebuggerNext
<1>3. CASE UNCHANGED vars
  <2>1. PtraceTypeOK /\ ControlTypeOK
      BY TypeSplit
  <2>2. UNCHANGED <<kvars, pvars, tvars, svars, lvars, faults>>
      BY <1>3 DEF vars
  <2>3. ControlTypeOK'
      BY <2>1, <2>2 DEF ControlTypeOK, pvars, tvars, svars, lvars
  <2>4. PtraceTypeOK'
      BY <2>1, <2>2 DEF PtraceTypeOK, kvars, tvars
  <2> QED BY <2>3, <2>4, TypeSplitPrime
<1> QED BY <1>2, <1>3, KernelTypes, SymbolsTypes, UserTypes DEF Next

\* It holds initially.
LEMMA InitTypes == Init => TypeOK
<1> SUFFICES ASSUME Init PROVE TypeOK
    OBVIOUS
<1>1. PtraceTypeOK
    BY TidsAssumption DEF Init, PtraceTypeOK, KStates
<1>2. ControlTypeOK
  <2>1. deferred \in Seq([tid : Tids, ev : Events])
      BY DEF Init
  <2> QED BY <2>1, TidsAssumption DEF Init, ControlTypeOK, ProcessStates, NoStep, NoPending
<1> QED BY <1>1, <1>2, TypeSplit

\* Every variable of the debugger and of the kernel stays within its type,
\* whatever the sets of threads and binaries.
THEOREM TypeCorrect == Spec => []TypeOK
BY InitTypes, NextTypes, PTL DEF Spec

(***************************************************************************)
(* The thread table.  ThreadTableAgrees is inductive together with TypeOK: *)
(* a thread is only resumed if it is in `threads` and marked suspended, or *)
(* if its own status is being handled; in both cases no status of the stop *)
(* it leaves is still to come.                                             *)
(***************************************************************************)

\* With nobody marked as running, nobody runs.
LEMMA NobodyRuns ==
    ASSUME TypeOK, ThreadTableAgrees, RunningIn(threads, tstate) = {}
    PROVE  PatchFault = {}
BY DEF TypeOK, ThreadTableAgrees, RunnersKnown, ExitsPast, RunningIn, PatchFault, UserRunning

\* arrange_handle_breakpoints() never patches while somebody runs.
LEMMA NoArrangeFault ==
    ASSUME TypeOK, ThreadTableAgrees
    PROVE  ArrangeFault = {}
BY NobodyRuns DEF ArrangeFault

\* A status set aside names a thread id.
LEMMA DeferredTids ==
    ASSUME TypeOK
    PROVE  \A i \in DOMAIN deferred : deferred[i].tid \in Tids
<1>1. deferred \in Seq([tid : Tids, ev : Events])
    BY DEF TypeOK
<1>2. \A i \in DOMAIN deferred : deferred[i] \in [tid : Tids, ev : Events]
    BY <1>1, ElementOf
<1> QED BY <1>2

\* Resuming suspended threads of the table keeps the agreement.
LEMMA ResumeKeepsTable ==
    ASSUME TypeOK, ThreadTableAgrees,
           NEW I, NEW R \in SUBSET SuspendedIn(threads, tstate), NEW A,
           PtraceNow(I, R, A),
           UNCHANGED <<threads, exiting, deferred>>,
           target' = "NoProcess" => target = "NoProcess"
    PROVE  ThreadTableAgrees'
<1> USE DEF PtraceNow, Ptrace, SuspendedIn
<1>1. RunnersKnown'
    BY DEF TypeOK, ThreadTableAgrees, RunnersKnown, UserRunning
<1>2. ExitsPast'
    BY DEF TypeOK, ThreadTableAgrees, ExitsPast
<1>3. FreshOutside'
    BY DEF TypeOK, ThreadTableAgrees, FreshOutside
<1>4. NoProcessNoThreads'
    BY DEF ThreadTableAgrees, NoProcessNoThreads
<1>5. StatusAtRest'
    BY DEF TypeOK, ThreadTableAgrees, StatusAtRest
<1>6. DeferredAtRest'
  <2>1. \A i \in DOMAIN deferred : deferred[i].tid \in Tids
      BY DeferredTids
  <2>2. k \in [Tids -> KStates] /\ kev \in [Tids -> Events \cup {"none"}]
          /\ tstate \in [Tids -> {"Running", "Suspended"}]
      BY DEF TypeOK
  <2> QED BY <2>1, <2>2 DEF ThreadTableAgrees, DeferredAtRest
<1> QED BY <1>1, <1>2, <1>3, <1>4, <1>5, <1>6 DEF ThreadTableAgrees

\* What taking a status of t from the queue or from waitpid() means for t.
LEMMA TakeFacts ==
    ASSUME TypeOK, ThreadTableAgrees, NEW t \in Tids, NEW e, Take(t, e)
    PROVE  /\ t \in threads
           /\ ~UserRunning(t)
           /\ e = "EXIT" => pastExit[t]
           /\ KevTaken(t) \in [Tids -> Events \cup {"none"}]
           /\ \A u \in Tids : KevTaken(t)[u] = kev[u] \/ (u = t /\ KevTaken(t)[u] = "none")
           /\ \A i \in DOMAIN deferred' : \E j \in DOMAIN deferred : deferred'[i] = deferred[j]
           /\ \A u \in Tids : k[u] = "stop" /\ ~pastExit[u] =>
                 \A i, j \in DOMAIN deferred' :
                     deferred'[i].tid = u /\ deferred'[j].tid = u => i = j
           /\ k[t] = "stop" /\ ~pastExit[t] => \A i \in DOMAIN deferred' : deferred'[i].tid # t
<1>a. deferred \in Seq([tid : Tids, ev : Events]) /\ kev \in [Tids -> Events \cup {"none"}]
    BY DEF TypeOK
<1>b. KevTaken(t) \in [Tids -> Events \cup {"none"}]
    BY <1>a DEF KevTaken
<1>c. \A u \in Tids : KevTaken(t)[u] = kev[u] \/ (u = t /\ KevTaken(t)[u] = "none")
    BY <1>a DEF KevTaken
<1>1. CASE FrontReady
  <2>1. /\ deferred # <<>> /\ Head(deferred) = [tid |-> t, ev |-> e]
        /\ deferred' = Tail(deferred) /\ t \in threads
      BY <1>1 DEF Take, FrontReady
  <2>2. 1 \in DOMAIN deferred /\ deferred[1].tid = t /\ deferred[1].ev = e
      BY <1>a, <2>1, TailProperties
  <2>3. \A i \in DOMAIN deferred' : i + 1 \in DOMAIN deferred /\ deferred'[i] = deferred[i + 1]
                                     /\ i \in Nat
      BY <1>a, <2>1, TailProperties
  <2>4. ~UserRunning(t) /\ (e = "EXIT" => pastExit[t])
      BY <2>2 DEF ThreadTableAgrees, DeferredAtRest, ExitsPast, UserRunning
  <2>5. \A i \in DOMAIN deferred' : i \in Nat /\ i + 1 # 1 /\ DOMAIN deferred' \subseteq Nat
    <3>1. deferred' \in Seq([tid : Tids, ev : Events])
        BY <1>a, <2>1, TailProperties
    <3> QED BY <3>1
  <2>6. ASSUME NEW u \in Tids, k[u] = "stop", ~pastExit[u],
               NEW i \in DOMAIN deferred', NEW j \in DOMAIN deferred',
               deferred'[i].tid = u, deferred'[j].tid = u
        PROVE  i = j
    <3>1. i + 1 = j + 1
        BY <2>6, <2>3 DEF ThreadTableAgrees, DeferredAtRest
    <3> QED BY <3>1, <2>3
  <2>7. ASSUME k[t] = "stop", ~pastExit[t], NEW i \in DOMAIN deferred', deferred'[i].tid = t
        PROVE  FALSE
    <3>1. i + 1 = 1
        BY <2>7, <2>2, <2>3 DEF ThreadTableAgrees, DeferredAtRest
    <3> QED BY <3>1, <2>5
  <2> QED BY <1>b, <1>c, <2>1, <2>3, <2>4, <2>6, <2>7
<1>2. CASE ~FrontReady
  <2>1. /\ t \in threads /\ kev[t] # "none" /\ kev[t] = e /\ deferred' = deferred
      BY <1>2 DEF Take, Reapable
  <2>2. ~UserRunning(t) /\ (e = "EXIT" => pastExit[t])
      BY <2>1 DEF ThreadTableAgrees, StatusAtRest, ExitsPast, UserRunning
  <2>3. \A u \in Tids : k[u] = "stop" /\ ~pastExit[u] =>
           \A i, j \in DOMAIN deferred' : deferred'[i].tid = u /\ deferred'[j].tid = u => i = j
      BY <2>1 DEF ThreadTableAgrees, DeferredAtRest
  <2>4. k[t] = "stop" /\ ~pastExit[t] => \A i \in DOMAIN deferred' : deferred'[i].tid # t
      BY <2>1 DEF ThreadTableAgrees, DeferredAtRest
  <2> QED BY <1>b, <1>c, <2>1, <2>2, <2>3, <2>4
<1> QED BY <1>1, <1>2

\* Handling a status of t, and resuming t or suspended threads of the table,
\* keeps the agreement.
LEMMA StopKeepsTable ==
    ASSUME TypeOK, ThreadTableAgrees, NEW t \in Tids, NEW e, Take(t, e),
           threads \subseteq threads', threads' \subseteq Tids,
           \/ exiting' = exiting
           \/ exiting' = [exiting EXCEPT ![t] = TRUE] /\ pastExit[t],
           target' # "NoProcess",
           NEW si, NEW ps, NEW I, NEW A,
           NEW R \in SUBSET (SuspendedIn(threads \ {t}, tstate) \cup {t}),
           Ptrace(KevTaken(t), [tstate EXCEPT ![t] = "Suspended"], si, ps, I, R, A)
    PROVE  ThreadTableAgrees'
<1>a. /\ t \in threads
      /\ ~UserRunning(t)
      /\ KevTaken(t) \in [Tids -> Events \cup {"none"}]
      /\ \A u \in Tids : KevTaken(t)[u] = kev[u] \/ (u = t /\ KevTaken(t)[u] = "none")
      /\ \A i \in DOMAIN deferred' : \E j \in DOMAIN deferred : deferred'[i] = deferred[j]
      /\ \A u \in Tids : k[u] = "stop" /\ ~pastExit[u] =>
            \A i, j \in DOMAIN deferred' :
                deferred'[i].tid = u /\ deferred'[j].tid = u => i = j
      /\ k[t] = "stop" /\ ~pastExit[t] => \A i \in DOMAIN deferred' : deferred'[i].tid # t
    BY TakeFacts
<1>b. /\ k \in [Tids -> KStates]
      /\ tstate \in [Tids -> {"Running", "Suspended"}]
      /\ exiting \in [Tids -> BOOLEAN] /\ pastExit \in [Tids -> BOOLEAN]
      /\ threads \subseteq Tids
    BY DEF TypeOK
<1>c. /\ tstate' = [u \in Tids |-> IF u \in R THEN "Running"
                                  ELSE [tstate EXCEPT ![t] = "Suspended"][u]]
      /\ k' = [u \in Tids |-> IF u \in R /\ k[u] = "stop" THEN "run" ELSE k[u]]
      /\ kev' = [u \in Tids |-> IF u \in R /\ k[u] = "stop" THEN "none" ELSE KevTaken(t)[u]]
      /\ pastExit' = pastExit
    BY DEF Ptrace
<1>d. \A u \in R : u \in threads /\ (u = t \/ tstate[u] = "Suspended")
    BY <1>a DEF SuspendedIn
<1>1. RunnersKnown'
    BY <1>a, <1>b, <1>c, <1>d DEF ThreadTableAgrees, RunnersKnown, UserRunning
<1>2. ExitsPast'
  <2>1. \A u \in Tids : exiting'[u] \/ kev'[u] = "EXIT" => pastExit'[u]
      BY <1>a, <1>b, <1>c DEF ThreadTableAgrees, ExitsPast
  <2>2. \A i \in DOMAIN deferred' : deferred'[i].ev = "EXIT" => pastExit'[deferred'[i].tid]
      BY <1>a, <1>c DEF ThreadTableAgrees, ExitsPast
  <2> QED BY <2>1, <2>2 DEF ExitsPast
<1>3. FreshOutside'
    BY <1>a, <1>b, <1>c, <1>d DEF ThreadTableAgrees, FreshOutside
<1>4. NoProcessNoThreads'
    BY DEF NoProcessNoThreads
<1>5. StatusAtRest'
    BY <1>a, <1>b, <1>c DEF ThreadTableAgrees, StatusAtRest
<1>6. DeferredAtRest'
  <2> SUFFICES ASSUME NEW i \in DOMAIN deferred'
               PROVE  LET u == deferred'[i].tid
                      IN  /\ \/ k'[u] \in {"stop", "zombie", "gone"}
                             \/ k'[u] = "run" /\ pastExit'[u]
                          /\ deferred'[i].ev = "EXITED" => k'[u] = "gone"
                          /\ k'[u] = "stop" /\ ~pastExit'[u] =>
                                /\ tstate'[u] = "Running" /\ kev'[u] = "none"
                                /\ \A j \in DOMAIN deferred' : deferred'[j].tid = u => j = i
      BY DEF DeferredAtRest
  <2> DEFINE u == deferred'[i].tid
  <2>1. PICK j \in DOMAIN deferred : deferred'[i] = deferred[j]
      BY <1>a
  <2>2. u \in Tids /\ u = deferred[j].tid
      BY <2>1, DeferredTids
  <2>3. /\ k[u] \in {"stop", "zombie", "gone"} \/ (k[u] = "run" /\ pastExit[u])
        /\ deferred'[i].ev = "EXITED" => k[u] = "gone"
        /\ k[u] = "stop" /\ ~pastExit[u] => tstate[u] = "Running" /\ kev[u] = "none"
      BY <2>1, <2>2 DEF ThreadTableAgrees, DeferredAtRest
  <2>4. k[u] = "stop" /\ ~pastExit[u] => u # t /\ u \notin R
      BY <1>a, <1>d, <2>2, <2>3
  <2>5. /\ k'[u] \in {"stop", "zombie", "gone"} \/ (k'[u] = "run" /\ pastExit'[u])
        /\ deferred'[i].ev = "EXITED" => k'[u] = "gone"
      BY <1>c, <2>2, <2>3, <2>4
  <2>6. k'[u] = "stop" /\ ~pastExit'[u] => tstate'[u] = "Running" /\ kev'[u] = "none"
      BY <1>a, <1>b, <1>c, <2>2, <2>3, <2>4
  <2>7. k'[u] = "stop" /\ ~pastExit'[u] =>
            \A l \in DOMAIN deferred' : deferred'[l].tid = u => l = i
      BY <1>a, <1>c, <2>2
  <2> QED BY <2>5, <2>6, <2>7
<1> QED BY <1>1, <1>2, <1>3, <1>4, <1>5, <1>6 DEF ThreadTableAgrees

\* The strengthening under which QuiescentPatching is inductive.
IInv == TypeOK /\ ThreadTableAgrees /\ QuiescentPatching

\* Requests whose own faults are no patching faults keep QuiescentPatching.
LEMMA PtraceQuiescent ==
    ASSUME QuiescentPatching, NEW kv, NEW ts, NEW si, NEW ps, NEW I, NEW R,
           NEW A, "patched while running" \notin A,
           Ptrace(kv, ts, si, ps, I, R, A)
    PROVE  QuiescentPatching'
<1>1. ContFaults(kv, ps, R) \subseteq PtraceFaults
    BY ContFaultsType
<1>2. "patched while running" \notin PtraceFaults
    BY DEF PtraceFaults
<1>3. "patched while running" \notin ContFaults(kv, ps, R)
    BY <1>1, <1>2
<1> QED BY <1>3 DEF Ptrace, QuiescentPatching

\* The end of a stop's branch keeps the strengthened invariant.
LEMMA FinishStopKeeps ==
    ASSUME IInv, NEW t \in Tids, NEW e, Take(t, e),
           threads \subseteq threads', threads' \subseteq Tids,
           \/ exiting' = exiting
           \/ exiting' = [exiting EXCEPT ![t] = TRUE] /\ pastExit[t],
           target' # "NoProcess",
           NEW signalled, NEW force, NEW I,
           NEW others \in SUBSET SuspendedIn(threads \ {t}, tstate),
           NEW A \in SUBSET AssertFaults,
           FinishStop(t, signalled, force, I, others, A)
    PROVE  ThreadTableAgrees' /\ QuiescentPatching'
<1> DEFINE forced == force \/ exiting'[t]
           R == others \cup (IF forced \/ WantsRun(t)' THEN {t} ELSE {})
           B == A \cup (IF forced THEN {} ELSE UnwrapFault')
<1>1. Ptrace(KevTaken(t), [tstate EXCEPT ![t] = "Suspended"], [sentIntr EXCEPT ![t] = FALSE],
             [pendSig EXCEPT ![t] = @ \/ signalled], I, R, B)
    BY DEF FinishStop
<1>2. R \in SUBSET (SuspendedIn(threads \ {t}, tstate) \cup {t})
    OBVIOUS
<1>3. "patched while running" \notin B
  <2>1. UnwrapFault' \subseteq AssertFaults
      BY DEF UnwrapFault, AssertFaults
  <2>2. B \subseteq AssertFaults
      BY <2>1
  <2>3. "patched while running" \notin AssertFaults
      BY DEF AssertFaults
  <2> QED BY <2>2, <2>3
<1> HIDE DEF R, B
<1>4. ThreadTableAgrees'
    BY <1>1, <1>2, StopKeepsTable DEF IInv
<1>5. QuiescentPatching'
    BY <1>1, <1>3, PtraceQuiescent DEF IInv
<1> QED BY <1>4, <1>5

\* Every branch of process_events() for a stopped thread.
LEMMA StopsKeep ==
    ASSUME IInv, NEW t \in Tids,
           \/ HandleSigstop(t) \/ HandleEventStop(t) \/ HandleExec(t) \/ HandleClone(t)
           \/ HandleExit(t) \/ HandleTrap(t) \/ HandleFatal(t) \/ HandleBenign(t)
    PROVE  ThreadTableAgrees' /\ QuiescentPatching'
<1>a. {} \in SUBSET SuspendedIn(threads \ {t}, tstate) /\ {} \in SUBSET AssertFaults
        /\ threads \subseteq Tids
    BY DEF IInv, TypeOK
<1>1. CASE HandleSigstop(t)
  <2>1. /\ Take(t, "SIGSTOP") /\ target' # "NoProcess"
        /\ threads' = threads /\ exiting' = exiting
      BY <1>1 DEF HandleSigstop, Take
  <2>2. PICK A \in SUBSET AssertFaults : FinishStop(t, FALSE, TRUE, {}, {}, A)
      BY <1>1 DEF HandleSigstop, AssertFaults
  <2> QED BY <1>a, <2>1, <2>2, FinishStopKeeps
<1>2. CASE HandleEventStop(t)
  <2>1. /\ Take(t, "STOP") /\ target' # "NoProcess"
        /\ threads' = threads /\ exiting' = exiting
        /\ FinishStop(t, FALSE, FALSE, {}, {}, {})
      BY <1>2 DEF HandleEventStop, Take
  <2> QED BY <1>a, <2>1, FinishStopKeeps
<1>3. CASE HandleExec(t)
  <2>1. /\ Take(t, "EXEC") /\ target' # "NoProcess"
        /\ threads' = threads /\ exiting' = exiting
      BY <1>3 DEF HandleExec, Take
  <2>2. PICK A \in SUBSET AssertFaults : FinishStop(t, FALSE, FALSE, {}, {}, A)
      BY <1>3 DEF HandleExec, AssertFaults
  <2> QED BY <1>a, <2>1, <2>2, FinishStopKeeps
<1>4. CASE HandleClone(t)
  <2>1. /\ Take(t, "CLONE") /\ target' # "NoProcess"
        /\ threads' = threads \cup {kmsg[t]} /\ exiting' = exiting
        /\ FinishStop(t, FALSE, FALSE, {}, {}, {})
      BY <1>4 DEF HandleClone, Take
  <2>2. kmsg[t] \in Tids
      BY DEF IInv, TypeOK
  <2> QED BY <1>a, <2>1, <2>2, FinishStopKeeps
<1>5. CASE HandleExit(t)
  <2>1. /\ Take(t, "EXIT") /\ target' # "NoProcess"
        /\ threads' = threads /\ exiting' = [exiting EXCEPT ![t] = TRUE]
        /\ FinishStop(t, FALSE, TRUE, {}, {}, {})
      BY <1>5 DEF HandleExit, Take
  <2>2. pastExit[t]
      BY <2>1, TakeFacts DEF IInv
  <2> QED BY <1>a, <2>1, <2>2, FinishStopKeeps
<1>6. CASE HandleTrap(t)
  <2>1. PICK outcome \in {"hit", "step done", "miss"}, swLocation, relax, refresh \in BOOLEAN :
            HandleTrapAs(t, outcome, swLocation, relax, refresh)
      BY <1>6 DEF HandleTrap
  <2>2. /\ Take(t, "TRAP") /\ target' # "NoProcess"
        /\ threads' = threads /\ exiting' = exiting
      BY <2>1 DEF HandleTrapAs, Take
  <2> DEFINE others == IF relax THEN {u \in SuspendedIn(threads \ {t}, tstate) : WantsRun(u)'}
                       ELSE {}
  <2>3. PICK force, I : FinishStop(t, FALSE, force, I, others, {})
      BY <2>1 DEF HandleTrapAs
  <2>4. others \in SUBSET SuspendedIn(threads \ {t}, tstate)
      OBVIOUS
  <2> HIDE DEF others
  <2> QED BY <1>a, <2>2, <2>3, <2>4, FinishStopKeeps
<1>7. CASE HandleFatal(t)
  <2>1. /\ Take(t, "FATAL") /\ target' # "NoProcess"
        /\ threads' = threads /\ exiting' = exiting
        /\ FinishStop(t, TRUE, FALSE,
                      RunningIn(threads, [tstate EXCEPT ![t] = "Suspended"]), {}, {})
      BY <1>7 DEF HandleFatal, Take
  <2> QED BY <1>a, <2>1, FinishStopKeeps
<1>8. CASE HandleBenign(t)
  <2>1. /\ Take(t, "BENIGN") /\ target' # "NoProcess"
        /\ threads' = threads /\ exiting' = exiting
        /\ FinishStop(t, TRUE, TRUE, {}, {}, {})
      BY <1>8 DEF HandleBenign, Take
  <2> QED BY <1>a, <2>1, FinishStopKeeps
<1> QED BY <1>1, <1>2, <1>3, <1>4, <1>5, <1>6, <1>7, <1>8

\* Requests outside the handling of a status.
LEMMA PtraceNowKeeps ==
    ASSUME IInv, NEW I, NEW R \in SUBSET SuspendedIn(threads, tstate),
           NEW A, "patched while running" \notin A,
           PtraceNow(I, R, A),
           UNCHANGED <<threads, exiting, deferred>>,
           target' = "NoProcess" => target = "NoProcess"
    PROVE  ThreadTableAgrees' /\ QuiescentPatching'
<1>1. ThreadTableAgrees'
    BY ResumeKeepsTable DEF IInv
<1>2. Ptrace(kev, tstate, sentIntr, pendSig, I, R, A)
    BY DEF PtraceNow
<1>3. QuiescentPatching'
    BY <1>2, PtraceQuiescent DEF IInv
<1> QED BY <1>1, <1>3

\* Steps that touch neither the threads nor the faults.
LEMMA UntouchedKeeps ==
    ASSUME IInv, UNCHANGED <<k, kev, pastExit, threads, deferred, tstate, exiting, faults>>,
           target' = "NoProcess" => target = "NoProcess"
    PROVE  ThreadTableAgrees' /\ QuiescentPatching'
BY DEF IInv, ThreadTableAgrees, RunnersKnown, ExitsPast, FreshOutside, NoProcessNoThreads,
       StatusAtRest, DeferredAtRest, QuiescentPatching, UserRunning

\* Steps of the kernel.  A thread comes to rest, a thread is born, a thread dies.
LEMMA KernelKeeps ==
    ASSUME IInv, KernelNext
    PROVE  ThreadTableAgrees' /\ QuiescentPatching'
<1>a. /\ k \in [Tids -> KStates] /\ kev \in [Tids -> Events \cup {"none"}]
      /\ pastExit \in [Tids -> BOOLEAN] /\ exiting \in [Tids -> BOOLEAN]
      /\ tstate \in [Tids -> {"Running", "Suspended"}]
      /\ Main \in Tids
    BY TidsAssumption DEF IInv, TypeOK
<1>b. UNCHANGED <<target, threads, deferred, tstate, exiting, faults>>
    BY DEF KernelNext, KernelTrapStop, KernelSignal, KernelClone, KernelSigstop, KernelExec,
           KernelExitStop, KernelKill, KernelDie, pvars, tvars
<1>c. \A i \in DOMAIN deferred : deferred[i].tid \in Tids
    BY DeferredTids DEF IInv
<1>d. QuiescentPatching' /\ FreshOutside' /\ NoProcessNoThreads'
    BY <1>b DEF IInv, QuiescentPatching, ThreadTableAgrees, FreshOutside, NoProcessNoThreads
<1>1. ASSUME NEW t \in Tids, NEW e, KStop(t, e), e # "EXITED",
             \/ k[t] = "born" /\ e # "EXIT" /\ pastExit' = pastExit
             \/ UserRunning(t) /\ e # "EXIT" /\ pastExit' = pastExit
             \/ pastExit' = [pastExit EXCEPT ![t] = TRUE] /\ ~pastExit[t] /\ Alive(t)
                    /\ (UserRunning(t) \/ killed)
      PROVE  ThreadTableAgrees'
  <2>1. /\ k' = [k EXCEPT ![t] = "stop"]
        /\ kev' = [kev EXCEPT ![t] = e]
      BY <1>1 DEF KStop
  <2>2. RunnersKnown'
      BY <1>1, <1>a, <1>b, <2>1 DEF IInv, ThreadTableAgrees, RunnersKnown, UserRunning
  <2>3. ExitsPast'
      BY <1>1, <1>a, <1>b, <1>c, <2>1 DEF IInv, ThreadTableAgrees, ExitsPast
  <2>4. StatusAtRest'
      BY <1>1, <1>a, <2>1 DEF IInv, ThreadTableAgrees, StatusAtRest
  <2>5. DeferredAtRest'
      BY <1>1, <1>a, <1>b, <1>c, <2>1
         DEF IInv, ThreadTableAgrees, DeferredAtRest, UserRunning, Alive
  <2> QED BY <1>d, <2>2, <2>3, <2>4, <2>5 DEF ThreadTableAgrees
<1>2. ASSUME NEW t \in Tids, KernelTrapStop(t) PROVE ThreadTableAgrees'
    BY <1>1, <1>2 DEF KernelTrapStop
<1>3. ASSUME NEW t \in Tids, NEW e \in {"TRAP", "BENIGN", "FATAL"}, KernelSignal(t, e)
      PROVE  ThreadTableAgrees'
    BY <1>1, <1>3 DEF KernelSignal
<1>4. CASE KernelSigstop
  <2>1. PICK t \in Tids, e \in Events : /\ KStop(t, e) /\ UserRunning(t) /\ pastExit' = pastExit
                                        /\ e # "EXIT" /\ e # "EXITED"
      BY <1>4, <1>a DEF KernelSigstop, Events, StopEvents
  <2> QED BY <1>1, <1>d, <2>1
<1>5. CASE KernelExec
  <2>1. PICK t \in Tids, e \in Events : /\ KStop(t, e) /\ UserRunning(t) /\ pastExit' = pastExit
                                        /\ e # "EXIT" /\ e # "EXITED"
      BY <1>5, <1>a DEF KernelExec, Events, StopEvents
  <2> QED BY <1>1, <1>d, <2>1
<1>6. ASSUME NEW t \in Tids, KernelExitStop(t) PROVE ThreadTableAgrees'
    BY <1>1, <1>6 DEF KernelExitStop, UserRunning, Alive
<1>7. ASSUME NEW t \in Tids, NEW u \in Tids, KernelClone(t, u) PROVE ThreadTableAgrees'
  <2>1. /\ k' = [k EXCEPT ![t] = "stop", ![u] = "born"]
        /\ kev' = [kev EXCEPT ![t] = "CLONE"]
        /\ pastExit' = pastExit
        /\ UserRunning(t) /\ k[u] = "none" /\ t # u
      BY <1>7 DEF KernelClone, UserRunning
  <2>2. RunnersKnown'
      BY <1>a, <1>b, <2>1 DEF IInv, ThreadTableAgrees, RunnersKnown, UserRunning
  <2>3. ExitsPast'
      BY <1>a, <1>b, <1>c, <2>1 DEF IInv, ThreadTableAgrees, ExitsPast
  <2>4. StatusAtRest'
      BY <1>a, <2>1 DEF IInv, ThreadTableAgrees, StatusAtRest
  <2>5. DeferredAtRest'
      BY <1>a, <1>b, <1>c, <2>1 DEF IInv, ThreadTableAgrees, DeferredAtRest, UserRunning
  <2> QED BY <1>d, <2>2, <2>3, <2>4, <2>5 DEF ThreadTableAgrees
<1>8. CASE KernelKill
    BY <1>8, UntouchedKeeps DEF KernelKill, pvars, tvars
<1>9. ASSUME NEW t \in Tids, KernelDie(t) PROVE ThreadTableAgrees'
  <2>1. /\ k' = [k EXCEPT ![t] = "zombie"]
        /\ kev' = [kev EXCEPT ![t] = "EXITED"]
        /\ pastExit' = pastExit
        /\ (k[t] = "run" /\ pastExit[t]) \/ k[t] \in {"born", "run", "stop"}
      BY <1>9 DEF KernelDie, Alive
  <2>2. RunnersKnown'
      BY <1>a, <1>b, <2>1 DEF IInv, ThreadTableAgrees, RunnersKnown, UserRunning
  <2>3. ExitsPast'
      BY <1>a, <1>b, <1>c, <2>1 DEF IInv, ThreadTableAgrees, ExitsPast
  <2>4. StatusAtRest'
      BY <1>a, <2>1 DEF IInv, ThreadTableAgrees, StatusAtRest
  <2>5. DeferredAtRest'
      BY <1>a, <1>b, <1>c, <2>1 DEF IInv, ThreadTableAgrees, DeferredAtRest
  <2> QED BY <1>d, <2>2, <2>3, <2>4, <2>5 DEF ThreadTableAgrees
<1> QED BY <1>d, <1>2, <1>3, <1>4, <1>5, <1>6, <1>7, <1>8, <1>9 DEF KernelNext

\* A thread is gone.
LEMMA HandleExitedKeeps ==
    ASSUME IInv, NEW t \in Tids, HandleExited(t)
    PROVE  ThreadTableAgrees' /\ QuiescentPatching'
<1>a. Take(t, "EXITED")
    BY DEF HandleExited
<1>b. /\ KevTaken(t) \in [Tids -> Events \cup {"none"}]
      /\ \A u \in Tids : KevTaken(t)[u] = kev[u] \/ (u = t /\ KevTaken(t)[u] = "none")
      /\ \A i \in DOMAIN deferred' : \E j \in DOMAIN deferred : deferred'[i] = deferred[j]
      /\ \A u \in Tids : k[u] = "stop" /\ ~pastExit[u] =>
            \A i, j \in DOMAIN deferred' :
                deferred'[i].tid = u /\ deferred'[j].tid = u => i = j
    BY <1>a, TakeFacts DEF IInv
<1>c. /\ k \in [Tids -> KStates] /\ tstate \in [Tids -> {"Running", "Suspended"}]
      /\ exiting \in [Tids -> BOOLEAN] /\ threads \subseteq Tids
    BY DEF IInv, TypeOK
<1>d. /\ k' = [k EXCEPT ![t] = "gone"] /\ kev' = KevTaken(t)
      /\ threads' = threads \ {t}
      /\ tstate' = [tstate EXCEPT ![t] = "Running"]
      /\ exiting' = [exiting EXCEPT ![t] = FALSE]
      /\ pastExit' = pastExit
      /\ target' = "NoProcess" => threads' = {}
    BY <1>a DEF HandleExited, Take
<1>1. RunnersKnown'
    BY <1>c, <1>d DEF IInv, ThreadTableAgrees, RunnersKnown, UserRunning
<1>2. ExitsPast'
    BY <1>b, <1>c, <1>d DEF IInv, ThreadTableAgrees, ExitsPast
<1>3. FreshOutside'
    BY <1>c, <1>d DEF IInv, ThreadTableAgrees, FreshOutside
<1>4. NoProcessNoThreads'
    BY <1>d DEF NoProcessNoThreads
<1>5. StatusAtRest'
  <2>1. kev'[t] = "none"
    <3>1. CASE FrontReady
      <4>1. deferred # <<>> /\ Head(deferred) = [tid |-> t, ev |-> "EXITED"]
          BY <1>a, <3>1 DEF Take, FrontReady
      <4>2. deferred \in Seq([tid : Tids, ev : Events])
          BY DEF IInv, TypeOK
      <4>3. 1 \in DOMAIN deferred /\ deferred[1].tid = t /\ deferred[1].ev = "EXITED"
          BY <4>1, <4>2, TailProperties
      <4>4. k[t] = "gone"
          BY <4>3 DEF IInv, ThreadTableAgrees, DeferredAtRest
      <4>5. kev[t] = "none"
          BY <4>4 DEF IInv, ThreadTableAgrees, StatusAtRest
      <4> QED BY <1>d, <3>1, <4>5 DEF KevTaken
    <3>2. CASE ~FrontReady
      <4>1. kev' = [kev EXCEPT ![t] = "none"]
          BY <1>d, <3>2 DEF KevTaken
      <4>2. kev \in [Tids -> Events \cup {"none"}]
          BY DEF IInv, TypeOK
      <4> QED BY <4>1, <4>2
    <3> QED BY <3>1, <3>2
  <2> QED BY <1>b, <1>c, <1>d, <2>1 DEF IInv, ThreadTableAgrees, StatusAtRest
<1>6. DeferredAtRest'
  <2>1. \A i \in DOMAIN deferred : deferred[i].tid \in Tids
      BY DeferredTids DEF IInv
  <2> SUFFICES ASSUME NEW i \in DOMAIN deferred'
               PROVE  LET u == deferred'[i].tid
                      IN  /\ \/ k'[u] \in {"stop", "zombie", "gone"}
                             \/ k'[u] = "run" /\ pastExit'[u]
                          /\ deferred'[i].ev = "EXITED" => k'[u] = "gone"
                          /\ k'[u] = "stop" /\ ~pastExit'[u] =>
                                /\ tstate'[u] = "Running" /\ kev'[u] = "none"
                                /\ \A j \in DOMAIN deferred' : deferred'[j].tid = u => j = i
      BY DEF DeferredAtRest
  <2> DEFINE u == deferred'[i].tid
  <2>2. PICK j \in DOMAIN deferred : deferred'[i] = deferred[j]
      BY <1>b
  <2>3. u \in Tids /\ u = deferred[j].tid
      BY <2>1, <2>2
  <2>4. /\ k[u] \in {"stop", "zombie", "gone"} \/ (k[u] = "run" /\ pastExit[u])
        /\ deferred'[i].ev = "EXITED" => k[u] = "gone"
        /\ k[u] = "stop" /\ ~pastExit[u] => tstate[u] = "Running" /\ kev[u] = "none"
      BY <2>2, <2>3 DEF IInv, ThreadTableAgrees, DeferredAtRest
  <2>5. k'[u] = "stop" /\ ~pastExit'[u] => k[u] = "stop" /\ ~pastExit[u]
      BY <1>c, <1>d, <2>3
  <2>6. k'[u] = "stop" /\ ~pastExit'[u] =>
            \A l \in DOMAIN deferred' : deferred'[l].tid = u => l = i
      BY <1>b, <2>3, <2>5
  <2>7. k'[u] = "stop" /\ ~pastExit'[u] => tstate'[u] = "Running" /\ kev'[u] = "none"
      BY <1>b, <1>c, <1>d, <2>3, <2>4, <2>5
  <2> QED BY <1>c, <1>d, <2>3, <2>4, <2>6, <2>7
<1>7. QuiescentPatching'
  <2>1. faults' \subseteq faults \cup {"suspend failed"}
      BY DEF HandleExited
  <2> QED BY <2>1 DEF IInv, QuiescentPatching
<1> QED BY <1>1, <1>2, <1>3, <1>4, <1>5, <1>6, <1>7 DEF ThreadTableAgrees

\* A status is set aside.
LEMMA DeferEventKeeps ==
    ASSUME IInv, NEW t \in Tids, DeferEvent(t)
    PROVE  ThreadTableAgrees' /\ QuiescentPatching'
<1>a. /\ k \in [Tids -> KStates] /\ tstate \in [Tids -> {"Running", "Suspended"}]
      /\ kev \in [Tids -> Events \cup {"none"}]
      /\ exiting \in [Tids -> BOOLEAN] /\ threads \subseteq Tids
      /\ deferred \in Seq([tid : Tids, ev : Events])
    BY DEF IInv, TypeOK
<1>b. /\ k' = [k EXCEPT ![t] = IF @ = "zombie" THEN "gone" ELSE @]
      /\ kev' = [kev EXCEPT ![t] = "none"]
      /\ deferred' = Append(deferred, [tid |-> t, ev |-> kev[t]])
      /\ kev[t] # "none" /\ t \notin threads
      /\ UNCHANGED <<pastExit, target, threads, tstate, exiting, faults>>
    BY DEF DeferEvent, Reapable, tvars
<1>c. [tid |-> t, ev |-> kev[t]] \in [tid : Tids, ev : Events]
    BY <1>a, <1>b
<1>d. /\ \A i \in DOMAIN deferred' :
            \/ i \in DOMAIN deferred /\ deferred'[i] = deferred[i]
            \/ i = Len(deferred) + 1 /\ deferred'[i] = [tid |-> t, ev |-> kev[t]]
      /\ \A i \in DOMAIN deferred : deferred[i].tid \in Tids
    BY <1>a, <1>b, <1>c, AppendProperties, DeferredTids DEF IInv
<1>e. k[t] \in {"stop", "zombie"} /\ (kev[t] = "EXITED" => k[t] = "zombie")
    BY <1>b DEF IInv, ThreadTableAgrees, StatusAtRest
<1>f. k[t] = "stop" /\ ~pastExit[t] => \A i \in DOMAIN deferred : deferred[i].tid # t
    BY <1>b DEF IInv, ThreadTableAgrees, DeferredAtRest
<1>1. RunnersKnown'
    BY <1>a, <1>b DEF IInv, ThreadTableAgrees, RunnersKnown, UserRunning
<1>2. ExitsPast'
    BY <1>a, <1>b, <1>d DEF IInv, ThreadTableAgrees, ExitsPast
<1>3. FreshOutside'
    BY <1>b DEF IInv, ThreadTableAgrees, FreshOutside
<1>4. NoProcessNoThreads'
    BY <1>b DEF IInv, ThreadTableAgrees, NoProcessNoThreads
<1>5. StatusAtRest'
    BY <1>a, <1>b DEF IInv, ThreadTableAgrees, StatusAtRest
<1>6. DeferredAtRest'
  <2> SUFFICES ASSUME NEW i \in DOMAIN deferred'
               PROVE  LET u == deferred'[i].tid
                      IN  /\ \/ k'[u] \in {"stop", "zombie", "gone"}
                             \/ k'[u] = "run" /\ pastExit'[u]
                          /\ deferred'[i].ev = "EXITED" => k'[u] = "gone"
                          /\ k'[u] = "stop" /\ ~pastExit'[u] =>
                                /\ tstate'[u] = "Running" /\ kev'[u] = "none"
                                /\ \A j \in DOMAIN deferred' : deferred'[j].tid = u => j = i
      BY DEF DeferredAtRest
  <2>1. CASE i \in DOMAIN deferred /\ deferred'[i] = deferred[i]
    <3> DEFINE u == deferred[i].tid
    <3>1. u \in Tids /\ i \in DOMAIN deferred
        BY <1>d, <2>1
    <3>2. /\ k[u] \in {"stop", "zombie", "gone"} \/ (k[u] = "run" /\ pastExit[u])
          /\ deferred[i].ev = "EXITED" => k[u] = "gone"
          /\ k[u] = "stop" /\ ~pastExit[u] =>
                /\ tstate[u] = "Running" /\ kev[u] = "none"
                /\ \A j \in DOMAIN deferred : deferred[j].tid = u => j = i
        BY <3>1 DEF IInv, ThreadTableAgrees, DeferredAtRest
    <3>3. k'[u] = "stop" /\ ~pastExit'[u] => k[u] = "stop" /\ ~pastExit[u] /\ u # t
        BY <1>a, <1>b, <1>f, <3>1
    <3>4. k'[u] = "stop" /\ ~pastExit'[u] =>
              \A j \in DOMAIN deferred' : deferred'[j].tid = u => j = i
        BY <1>d, <3>2, <3>3
    <3> QED BY <1>a, <1>b, <2>1, <3>1, <3>2, <3>3, <3>4
  <2>2. CASE i = Len(deferred) + 1 /\ deferred'[i] = [tid |-> t, ev |-> kev[t]]
    <3>1. deferred'[i].tid = t /\ deferred'[i].ev = kev[t]
        BY <2>2
    <3>2. tstate[t] = "Running"
        BY <1>b DEF IInv, ThreadTableAgrees, FreshOutside
    <3>3. k'[t] = "stop" /\ ~pastExit'[t] => k[t] = "stop" /\ ~pastExit[t]
        BY <1>a, <1>b
    <3>4. k'[t] = "stop" /\ ~pastExit'[t] =>
              \A j \in DOMAIN deferred' : deferred'[j].tid = t => j = i
        BY <1>d, <1>f, <2>2, <3>3
    <3> QED BY <1>a, <1>b, <1>e, <3>1, <3>2, <3>4
  <2> QED BY <1>d, <2>1, <2>2
<1>7. QuiescentPatching'
    BY <1>b DEF IInv, QuiescentPatching
<1> QED BY <1>1, <1>2, <1>3, <1>4, <1>5, <1>6, <1>7 DEF ThreadTableAgrees

\* try_pending_step_and_activate_breakpoints(), from wherever it is called.
LEMMA TryPendingStepKeeps ==
    ASSUME IInv, NEW tgt, tgt # "NoProcess", NEW ps, NEW st, NEW mayFail,
           TryPendingStep(tgt, ps, st, mayFail),
           UNCHANGED <<threads, exiting, deferred>>
    PROVE  ThreadTableAgrees' /\ QuiescentPatching'
<1>1. PICK b, s : TryPendingStepAs(tgt, ps, st, b, s)
    BY DEF TryPendingStep
<1>2. PICK I, R, bad :
          /\ bad \subseteq {"pending step not stepping"}
          /\ R = {} \/ R = ResumeSet
          /\ PtraceNow(I, R, bad \cup WaitFault(pendingStep', b) \cup UnwrapFault'
                                \cup (IF s = "start" \/ (b = "active" /\ bp # "active")
                                      THEN ArrangeFault ELSE {}))
    BY <1>1 DEF TryPendingStepAs
<1>3. R \in SUBSET SuspendedIn(threads, tstate)
    BY <1>2 DEF ResumeSet
<1>4. ArrangeFault = {}
    BY NoArrangeFault DEF IInv
<1>5. "patched while running" \notin
          (bad \cup WaitFault(pendingStep', b) \cup UnwrapFault'
              \cup (IF s = "start" \/ (b = "active" /\ bp # "active") THEN ArrangeFault ELSE {}))
    BY <1>2, <1>4 DEF WaitFault, UnwrapFault
<1>6. target' # "NoProcess"
    BY <1>1 DEF TryPendingStepAs
<1> QED BY <1>2, <1>3, <1>5, <1>6, PtraceNowKeeps

\* The end of a handler that may have handled breakpoints keeps the invariant.
LEMMA TailKeeps ==
    ASSUME IInv, EndLoop \/ InitialExecTail \/ HandleBreakpointsTail \/ DropCaches
    PROVE  ThreadTableAgrees' /\ QuiescentPatching'
<1>1. CASE EndLoop
    BY <1>1, UntouchedKeeps DEF EndLoop, kvars, pvars, tvars
<1>2. CASE InitialExecTail
  <2>1. PICK tgt : /\ tgt # "NoProcess"
                   /\ TryPendingStep(tgt, pendingStep, stepping, TRUE)
      BY <1>2 DEF InitialExecTail
  <2>2. UNCHANGED <<threads, exiting, deferred>>
      BY <1>2 DEF InitialExecTail
  <2> QED BY <2>1, <2>2, TryPendingStepKeeps
<1>3. CASE HandleBreakpointsTail
  <2>1. CASE stopBps /\ RunningIn(threads, tstate) = {}
    <3>1. PtraceNow({}, ResumeSet, PatchFault \cup UnwrapFault')
        BY <1>3, <2>1 DEF HandleBreakpointsTail
    <3>2. "patched while running" \notin (PatchFault \cup UnwrapFault')
        BY <2>1, NobodyRuns DEF IInv, UnwrapFault
    <3>3. ResumeSet \in SUBSET SuspendedIn(threads, tstate)
        BY DEF ResumeSet
    <3>4. UNCHANGED <<threads, exiting, deferred, target>>
        BY <1>3 DEF HandleBreakpointsTail
    <3> QED BY <3>1, <3>2, <3>3, <3>4, PtraceNowKeeps
  <2>2. CASE ~(stopBps /\ RunningIn(threads, tstate) = {})
      BY <1>3, <2>2, UntouchedKeeps DEF HandleBreakpointsTail, kvars
  <2> QED BY <2>1, <2>2
<1>4. CASE DropCaches
  <2>1. CASE ProcessReady(target)
    <3>1. TryPendingStep(target, pendingStep, stepping, TRUE) /\ target # "NoProcess"
        BY <1>4, <2>1 DEF DropCaches, ProcessReady
    <3>2. UNCHANGED <<threads, exiting, deferred>>
        BY <1>4 DEF DropCaches
    <3> QED BY <3>1, <3>2, TryPendingStepKeeps
  <2>2. CASE ~ProcessReady(target)
      BY <1>4, <2>2, UntouchedKeeps DEF DropCaches, kvars
  <2> QED BY <2>1, <2>2
<1> QED BY <1>1, <1>2, <1>3, <1>4

\* Starting the debuggee anew.
LEMMA StartChildKeeps ==
    ASSUME IInv, NEW on, StartChild(on)
    PROVE  ThreadTableAgrees' /\ QuiescentPatching'
<1>1. \A t \in Tids : tstate[t] = "Running" /\ ~exiting[t]
    BY DEF IInv, ThreadTableAgrees, NoProcessNoThreads, FreshOutside, StartChild
<1>2. /\ k' = [t \in Tids |-> IF t = Main THEN "run" ELSE "none"]
      /\ kev' = [t \in Tids |-> "none"]
      /\ target' = "Starting" /\ threads' = {Main} /\ deferred' = <<>>
      /\ tstate' = tstate /\ exiting' = exiting /\ faults' = faults
    BY DEF StartChild, tvars
<1>3. DOMAIN deferred' = {}
    BY <1>2
<1>4. RunnersKnown' /\ FreshOutside'
    BY <1>1, <1>2 DEF RunnersKnown, FreshOutside, UserRunning
<1>5. ExitsPast' /\ StatusAtRest'
    BY <1>1, <1>2, <1>3 DEF ExitsPast, StatusAtRest
<1>6. NoProcessNoThreads' /\ DeferredAtRest'
    BY <1>2, <1>3 DEF NoProcessNoThreads, DeferredAtRest
<1>7. QuiescentPatching'
    BY <1>2 DEF IInv, QuiescentPatching
<1> QED BY <1>4, <1>5, <1>6, <1>7 DEF ThreadTableAgrees

\* So do the operations of the user,
LEMMA UserKeeps ==
    ASSUME IInv, UserNext
    PROVE  ThreadTableAgrees' /\ QuiescentPatching'
<1>a. ArrangeFault = {}
    BY NoArrangeFault DEF IInv
<1>b. /\ ResumeSet \in SUBSET SuspendedIn(threads, tstate)
      /\ {} \in SUBSET SuspendedIn(threads, tstate)
    BY DEF ResumeSet
<1>1. CASE Resume
  <2>1. PtraceNow({}, ResumeSet, WaitFault(pendingStep', bp))
      BY <1>1 DEF Resume
  <2>2. "patched while running" \notin WaitFault(pendingStep', bp)
      BY DEF WaitFault
  <2>3. UNCHANGED <<threads, exiting, deferred>> /\ target' # "NoProcess"
      BY <1>1 DEF Resume, OnlyControl
  <2> QED BY <1>b, <2>1, <2>2, <2>3, PtraceNowKeeps
<1>2. CASE Suspend
  <2>1. PtraceNow(RunningIn(threads, tstate), {}, {})
      BY <1>2 DEF Suspend
  <2>2. UNCHANGED <<threads, exiting, deferred>> /\ target' # "NoProcess"
      BY <1>2 DEF Suspend, OnlyControl
  <2>3. "patched while running" \notin {}
      OBVIOUS
  <2> QED BY <1>b, <2>1, <2>2, <2>3, PtraceNowKeeps
<1>3. ASSUME NEW t \in Tids, NEW keep \in BOOLEAN, NEW newLocations \in BOOLEAN,
             Step(t, keep, newLocations)
      PROVE  ThreadTableAgrees' /\ QuiescentPatching'
  <2>1. PICK I, R, bad : /\ bad \subseteq {"step during step"}
                         /\ R \subseteq ResumeSet
                         /\ PtraceNow(I, R, bad \cup (IF newLocations THEN ArrangeFault ELSE {}))
      BY <1>3 DEF Step
  <2>2. "patched while running" \notin (bad \cup (IF newLocations THEN ArrangeFault ELSE {}))
      BY <1>a, <2>1
  <2>3. UNCHANGED <<threads, exiting, deferred>> /\ target' # "NoProcess"
      BY <1>3 DEF Step, OnlyControl
  <2>4. R \in SUBSET SuspendedIn(threads, tstate)
      BY <1>b, <2>1
  <2> QED BY <2>1, <2>2, <2>3, <2>4, PtraceNowKeeps
<1>4. ASSUME NEW t \in Tids, StepToCursor(t)
      PROVE  ThreadTableAgrees' /\ QuiescentPatching'
  <2>1. PICK tgt, ps, st, mayFail : tgt # "NoProcess" /\ TryPendingStep(tgt, ps, st, mayFail)
      BY <1>4 DEF StepToCursor
  <2>2. UNCHANGED <<threads, exiting, deferred>>
      BY <1>4 DEF StepToCursor, OnlyControl
  <2> QED BY <2>1, <2>2, TryPendingStepKeeps
<1>5. CASE AddBreakpoint
  <2>1. CASE ProcessReady(target)
    <3>1. PICK b \in Resolve("new") : ActivateBreakpointAs(b)
        BY <1>5, <2>1 DEF AddBreakpoint, ActivateBreakpoint
    <3>2. PICK I, W : /\ W = {} \/ W = WaitFault(pendingStep, b)
                      /\ PtraceNow(I, {}, W \cup (IF b = "active" THEN ArrangeFault ELSE {}))
        BY <3>1 DEF ActivateBreakpointAs
    <3>3. "patched while running" \notin (W \cup (IF b = "active" THEN ArrangeFault ELSE {}))
        BY <1>a, <3>2 DEF WaitFault
    <3>4. UNCHANGED <<threads, exiting, deferred, target>>
        BY <1>5 DEF AddBreakpoint, OnlyControl
    <3> QED BY <1>b, <3>2, <3>3, <3>4, PtraceNowKeeps
  <2>2. CASE ~ProcessReady(target)
      BY <1>5, <2>2, UntouchedKeeps DEF AddBreakpoint, OnlyControl, kvars
  <2> QED BY <2>1, <2>2
<1>6. CASE RemoveBreakpoint
    BY <1>6, UntouchedKeeps DEF RemoveBreakpoint, kvars, pvars, tvars
<1>7. CASE Murder
    BY <1>7, UntouchedKeeps DEF Murder, pvars, tvars
<1> QED BY <1>1, <1>2, <1>3, <1>4, <1>5, <1>6, <1>7, StartChildKeeps DEF UserNext

\* and the handler of a failed ptrace request.
LEMMA EsrchKeeps ==
    ASSUME IInv, NEW t \in Tids, NEW e, HandleEsrch(t, e)
    PROVE  ThreadTableAgrees' /\ QuiescentPatching'
<1>1. /\ Take(t, e) /\ target' # "NoProcess"
      /\ threads' = threads /\ exiting' = exiting
      /\ Ptrace(KevTaken(t), [tstate EXCEPT ![t] = "Suspended"], [sentIntr EXCEPT ![t] = FALSE],
                [pendSig EXCEPT ![t] = @ \/ e = "FATAL"], {}, {}, {})
    BY DEF HandleEsrch, Take
<1>2. /\ {} \in SUBSET (SuspendedIn(threads \ {t}, tstate) \cup {t})
      /\ "patched while running" \notin {}
      /\ threads \subseteq Tids
    BY DEF IInv, TypeOK
<1>3. ThreadTableAgrees'
    BY <1>1, <1>2, StopKeepsTable DEF IInv
<1>4. QuiescentPatching'
    BY <1>1, <1>2, PtraceQuiescent DEF IInv
<1> QED BY <1>3, <1>4

\* The invariant is inductive.
LEMMA NextKeeps == IInv /\ [Next]_vars => IInv'
<1> SUFFICES ASSUME IInv, [Next]_vars PROVE IInv'
    OBVIOUS
<1>1. TypeOK'
    BY NextTypes DEF IInv
<1>2. ThreadTableAgrees' /\ QuiescentPatching'
  <2>1. ASSUME NEW t \in Tids, HandleEvent(t)
        PROVE  ThreadTableAgrees' /\ QuiescentPatching'
      BY <2>1, HandleExitedKeeps, StopsKeep, EsrchKeeps, DeferEventKeeps DEF HandleEvent
  <2>2. CASE DebuggerNext
      BY <2>1, <2>2, TailKeeps DEF DebuggerNext
  <2>3. ASSUME NEW done, SymbolsEvent(done)
        PROVE  ThreadTableAgrees' /\ QuiescentPatching'
      BY <2>3, UntouchedKeeps DEF SymbolsEvent, kvars, pvars, tvars
  <2>4. CASE UNCHANGED vars
      BY <2>4, UntouchedKeeps DEF vars, kvars, pvars, tvars
  <2> QED BY <2>2, <2>3, <2>4, KernelKeeps, UserKeeps DEF Next
<1> QED BY <1>1, <1>2 DEF IInv

\* It holds initially.
LEMMA InitKeeps == Init => IInv
<1> SUFFICES ASSUME Init PROVE IInv
    OBVIOUS
<1>1. DOMAIN deferred = {}
    BY DEF Init
<1>2. ThreadTableAgrees
    BY <1>1 DEF Init, ThreadTableAgrees, RunnersKnown, ExitsPast, FreshOutside,
                NoProcessNoThreads, StatusAtRest, DeferredAtRest, UserRunning
<1>3. QuiescentPatching
    BY DEF Init, QuiescentPatching
<1> QED BY <1>2, <1>3, InitTypes DEF IInv

\* What `threads` says of a thread agrees with what the kernel does with it, in
\* every state, for any number of threads: nobody executes the debuggee without
\* being in the table as running.
THEOREM TableCorrect == Spec => []ThreadTableAgrees
<1>1. IInv => ThreadTableAgrees
    BY DEF IInv
<1> QED BY <1>1, InitKeeps, NextKeeps, PTL DEF Spec

\* handle_breakpoints() never rewrites code or debug registers while a thread of
\* the debuggee can run, for any number of threads and binaries.
THEOREM PatchingCorrect == Spec => []QuiescentPatching
<1>1. IInv => QuiescentPatching
    BY DEF IInv
<1> QED BY <1>1, InitKeeps, NextKeeps, PTL DEF Spec

(***************************************************************************)
(* The exit of the process is final.  A status that could make an exiting  *)
(* process ready again is that of a thread which has not yet announced its *)
(* exit, and an exiting process has none.                                  *)
(***************************************************************************)

\* The stops of a thread that still executes the debuggee.
LiveEvents == {"TRAP", "FATAL", "BENIGN", "CLONE"}

\* No such stop is left to be reported of a thread past its exit stop, or of one
\* that the debugger has not heard of, which never ran.
EventsInOrder ==
    /\ \A t \in Tids : kev[t] \in LiveEvents => ~pastExit[t]
    /\ \A t \in Tids \ threads : kev[t] \in {"none", "STOP", "EXIT", "EXITED"}
    /\ \A i \in DOMAIN deferred : deferred[i].ev \in {"STOP", "EXIT", "EXITED"}

\* Requests to threads of the table do not bring back a status.
LEMMA RequestsKeepOrder ==
    ASSUME EventsInOrder, NEW kv, NEW ts, NEW si, NEW ps, NEW I, NEW R, NEW A,
           Ptrace(kv, ts, si, ps, I, R, A),
           \A u \in Tids : kv[u] = kev[u] \/ kv[u] = "none",
           threads \subseteq threads',
           \A i \in DOMAIN deferred' : \E j \in DOMAIN deferred : deferred'[i] = deferred[j]
    PROVE  EventsInOrder'
<1>1. \A u \in Tids : kev'[u] = kev[u] \/ kev'[u] = "none"
    BY DEF Ptrace
<1>2. pastExit' = pastExit
    BY DEF Ptrace
<1> QED BY <1>1, <1>2 DEF EventsInOrder, LiveEvents

\* Nor do steps that leave statuses and the table alone.
LEMMA UntouchedKeepOrder ==
    ASSUME EventsInOrder, UNCHANGED <<kev, pastExit, threads, deferred>>
    PROVE  EventsInOrder'
BY DEF EventsInOrder

\* A status of a thread that is resumed is that of a stop, of no other thread.
LEMMA StopKeepOrder ==
    ASSUME IInv, EventsInOrder, NEW t \in Tids, NEW e, Take(t, e), threads \subseteq threads',
           NEW ts, NEW si, NEW ps, NEW I, NEW R, NEW A,
           Ptrace(KevTaken(t), ts, si, ps, I, R, A)
    PROVE  EventsInOrder'
<1>1. /\ \A u \in Tids : KevTaken(t)[u] = kev[u] \/ KevTaken(t)[u] = "none"
      /\ \A i \in DOMAIN deferred' : \E j \in DOMAIN deferred : deferred'[i] = deferred[j]
    BY TakeFacts DEF IInv
<1> QED BY <1>1, RequestsKeepOrder

LEMMA KernelKeepOrder ==
    ASSUME IInv, EventsInOrder, KernelNext
    PROVE  EventsInOrder'
<1>a. /\ kev \in [Tids -> Events \cup {"none"}] /\ pastExit \in [Tids -> BOOLEAN] /\ Main \in Tids
    BY TidsAssumption DEF IInv, TypeOK
<1>b. UNCHANGED <<threads, deferred>>
    BY DEF KernelNext, KernelTrapStop, KernelSignal, KernelClone, KernelSigstop, KernelExec,
           KernelExitStop, KernelKill, KernelDie, pvars, tvars
<1>c. \A t \in Tids : UserRunning(t) => t \in threads /\ ~pastExit[t]
    BY DEF IInv, ThreadTableAgrees, RunnersKnown, UserRunning
<1>1. ASSUME NEW t \in Tids, NEW e, kev' = [kev EXCEPT ![t] = e], pastExit' = pastExit,
             UserRunning(t) \/ e \in {"STOP", "EXITED"}
      PROVE  EventsInOrder'
    BY <1>1, <1>a, <1>b, <1>c DEF EventsInOrder, LiveEvents
<1>2. ASSUME NEW t \in Tids, KernelTrapStop(t) PROVE EventsInOrder'
    BY <1>1, <1>2 DEF KernelTrapStop, KStop
<1>3. ASSUME NEW t \in Tids, NEW e \in {"TRAP", "BENIGN", "FATAL"}, KernelSignal(t, e)
      PROVE  EventsInOrder'
    BY <1>1, <1>3 DEF KernelSignal, KStop
<1>4. ASSUME NEW t \in Tids, NEW u \in Tids, KernelClone(t, u) PROVE EventsInOrder'
    BY <1>1, <1>4 DEF KernelClone
<1>5. CASE KernelSigstop
    BY <1>1, <1>5, <1>a DEF KernelSigstop, KStop
<1>6. CASE KernelExec
    BY <1>1, <1>6, <1>a DEF KernelExec, KStop
<1>7. ASSUME NEW t \in Tids, KernelExitStop(t) PROVE EventsInOrder'
    BY <1>7, <1>a, <1>b DEF KernelExitStop, KStop, EventsInOrder, LiveEvents
<1>8. CASE KernelKill
    BY <1>8, <1>b, UntouchedKeepOrder DEF KernelKill
<1>9. ASSUME NEW t \in Tids, KernelDie(t) PROVE EventsInOrder'
    BY <1>1, <1>9 DEF KernelDie
<1> QED BY <1>2, <1>3, <1>4, <1>5, <1>6, <1>7, <1>8, <1>9 DEF KernelNext

\* A thread that leaves the table has no status left, one whose status is set
\* aside has not run.
LEMMA ExitedKeepOrder ==
    ASSUME IInv, EventsInOrder, NEW t \in Tids, HandleExited(t)
    PROVE  EventsInOrder'
<1>a. /\ Take(t, "EXITED") /\ threads' = threads \ {t} /\ kev' = KevTaken(t) /\ pastExit' = pastExit
    BY DEF HandleExited
<1>b. kev \in [Tids -> Events \cup {"none"}] /\ deferred \in Seq([tid : Tids, ev : Events])
    BY DEF IInv, TypeOK
<1>1. /\ \A u \in Tids : kev'[u] = kev[u] \/ kev'[u] = "none"
      /\ \A i \in DOMAIN deferred' : \E j \in DOMAIN deferred : deferred'[i] = deferred[j]
    BY <1>a, TakeFacts DEF IInv
<1>2. kev'[t] = "none"
  <2>1. CASE FrontReady
    <3>1. deferred # <<>> /\ Head(deferred) = [tid |-> t, ev |-> "EXITED"]
        BY <1>a, <2>1 DEF Take, FrontReady
    <3>2. 1 \in DOMAIN deferred /\ deferred[1] = [tid |-> t, ev |-> "EXITED"]
        BY <1>b, <3>1
    <3>3. k[t] = "gone"
        BY <3>2 DEF IInv, ThreadTableAgrees, DeferredAtRest
    <3>4. kev[t] = "none"
        BY <3>3 DEF IInv, ThreadTableAgrees, StatusAtRest
    <3> QED BY <1>1, <3>4
  <2>2. CASE ~FrontReady
      BY <1>a, <1>b, <2>2 DEF KevTaken
  <2> QED BY <2>1, <2>2
<1> QED BY <1>a, <1>1, <1>2 DEF EventsInOrder, LiveEvents

LEMMA DeferKeepOrder ==
    ASSUME IInv, EventsInOrder, NEW t \in Tids, DeferEvent(t)
    PROVE  EventsInOrder'
<1>a. /\ t \notin threads /\ kev[t] # "none"
      /\ deferred' = Append(deferred, [tid |-> t, ev |-> kev[t]])
      /\ kev' = [kev EXCEPT ![t] = "none"]
      /\ UNCHANGED <<pastExit, threads>>
    BY DEF DeferEvent, Reapable
<1>b. kev \in [Tids -> Events \cup {"none"}] /\ deferred \in Seq([tid : Tids, ev : Events])
    BY DEF IInv, TypeOK
<1>1. kev[t] \in {"STOP", "EXIT", "EXITED"}
    BY <1>a DEF EventsInOrder
<1>2. \A i \in DOMAIN deferred' : \/ i \in DOMAIN deferred /\ deferred'[i] = deferred[i]
                                  \/ deferred'[i].ev = kev[t]
    BY <1>a, <1>b
<1>3. \A u \in Tids : kev'[u] = kev[u] \/ kev'[u] = "none"
    BY <1>a, <1>b
<1> QED BY <1>a, <1>1, <1>2, <1>3 DEF EventsInOrder, LiveEvents

\* An exiting process has no step and no thread that could be doing anything else.
ExitingThroughout ==
    target = "Exiting" => stepping = NoStep /\ \A u \in threads : exiting[u]

\* The tail of the initial exec follows in a process that is ready.
ExecReady == pc = "exec" => ProcessReady(target)

ExitInv == EventsInOrder /\ ExitingThroughout /\ ExecReady

\* What ExitIsFinal says of a step.
ExitStep == target = "Exiting" => target' \in {"Exiting", "NoProcess"}

\* A stop of a thread that still executes the debuggee is not taken while exiting.
LEMMA LiveTaken ==
    ASSUME IInv, ExitInv, NEW t \in Tids, NEW e \in LiveEvents, Take(t, e)
    PROVE  target # "Exiting"
<1>b. deferred \in Seq([tid : Tids, ev : Events])
    BY DEF IInv, TypeOK
<1>1. ~pastExit[t] /\ t \in threads
  <2>1. CASE FrontReady
    <3>1. deferred # <<>> /\ Head(deferred) = [tid |-> t, ev |-> e]
        BY <2>1 DEF Take, FrontReady
    <3>2. 1 \in DOMAIN deferred /\ deferred[1] = [tid |-> t, ev |-> e]
        BY <1>b, <3>1
    <3>3. e \in {"STOP", "EXIT", "EXITED"}
        BY <3>2 DEF ExitInv, EventsInOrder
    <3> QED BY <3>3 DEF LiveEvents
  <2>2. CASE ~FrontReady
      BY <2>2 DEF Take, ExitInv, EventsInOrder
  <2> QED BY <2>1, <2>2
<1>2. ~exiting[t]
    BY <1>1 DEF IInv, ThreadTableAgrees, ExitsPast
<1> QED BY <1>1, <1>2 DEF ExitInv, ExitingThroughout

\* Stops are handled.
LEMMA StopsExit ==
    ASSUME IInv, ExitInv, NEW t \in Tids,
           \/ HandleSigstop(t) \/ HandleEventStop(t) \/ HandleExec(t) \/ HandleClone(t)
           \/ HandleExit(t) \/ HandleTrap(t) \/ HandleFatal(t) \/ HandleBenign(t)
           \/ \E e \in {"TRAP", "FATAL", "CLONE"} : HandleEsrch(t, e)
    PROVE  ExitInv' /\ ExitStep
<1>a. exiting \in [Tids -> BOOLEAN]
    BY DEF IInv, TypeOK
<1>b. EventsInOrder /\ ExitingThroughout
    BY DEF ExitInv
<1>c. ASSUME NEW e, Take(t, e), threads \subseteq threads',
             NEW ts, NEW si, NEW ps, NEW I, NEW R, NEW A,
             Ptrace(KevTaken(t), ts, si, ps, I, R, A)
      PROVE  EventsInOrder' /\ ExecReady'
  <2>1. EventsInOrder'
      BY <1>b, <1>c, StopKeepOrder
  <2> QED BY <1>c, <2>1 DEF Take, ExecReady
<1>d. ASSUME NEW e, Take(t, e), threads \subseteq threads', NEW signalled, NEW force, NEW I, NEW others, NEW A,
             FinishStop(t, signalled, force, I, others, A)
      PROVE  EventsInOrder' /\ ExecReady'
    BY <1>c, <1>d DEF FinishStop
<1>1. CASE HandleSigstop(t)
  <2>1. EventsInOrder' /\ ExecReady'
      BY <1>d, <1>1 DEF HandleSigstop
  <2>2. UNCHANGED <<target, threads, stepping, exiting>>
      BY <1>1 DEF HandleSigstop
  <2> QED BY <1>b, <2>1, <2>2 DEF ExitInv, ExitingThroughout, ExitStep
<1>2. CASE HandleEventStop(t)
  <2>1. EventsInOrder' /\ ExecReady'
      BY <1>d, <1>2 DEF HandleEventStop
  <2>2. UNCHANGED <<target, threads, stepping, exiting>>
      BY <1>2 DEF HandleEventStop
  <2> QED BY <1>b, <2>1, <2>2 DEF ExitInv, ExitingThroughout, ExitStep
<1>3. CASE HandleExec(t)
  <2>1. EventsInOrder' /\ ExecReady'
      BY <1>d, <1>3 DEF HandleExec
  <2>2. /\ UNCHANGED <<threads, stepping, exiting>>
        /\ target' = IF target = "Starting" THEN "Suspended" ELSE target
      BY <1>3 DEF HandleExec
  <2> QED BY <1>b, <2>1, <2>2 DEF ExitInv, ExitingThroughout, ExitStep
<1>4. CASE HandleClone(t)
  <2>1. EventsInOrder' /\ ExecReady'
      BY <1>d, <1>4 DEF HandleClone
  <2>2. target' = target /\ Take(t, "CLONE")
      BY <1>4 DEF HandleClone
  <2>3. target # "Exiting"
      BY <2>2, LiveTaken DEF LiveEvents
  <2> QED BY <2>1, <2>2, <2>3 DEF ExitInv, ExitingThroughout, ExitStep
<1>5. CASE HandleExit(t)
  <2>1. EventsInOrder' /\ ExecReady'
      BY <1>d, <1>5 DEF HandleExit
  <2>2. /\ threads' = threads /\ exiting' = [exiting EXCEPT ![t] = TRUE]
        /\ target' = IF \A u \in threads : exiting'[u] THEN "Exiting" ELSE target
        /\ stepping' = IF \A u \in threads : exiting'[u] THEN NoStep ELSE stepping
      BY <1>5 DEF HandleExit
  <2>3. \A u \in threads : exiting[u] => exiting'[u]
      BY <1>a, <2>2 DEF IInv, TypeOK
  <2> QED BY <1>b, <2>1, <2>2, <2>3 DEF ExitInv, ExitingThroughout, ExitStep
<1>6. CASE HandleTrap(t)
  <2>1. PICK outcome \in {"hit", "step done", "miss"}, swLocation, relax, refresh \in BOOLEAN :
            HandleTrapAs(t, outcome, swLocation, relax, refresh)
      BY <1>6 DEF HandleTrap
  <2>2. EventsInOrder' /\ ExecReady'
      BY <1>d, <2>1 DEF HandleTrapAs
  <2>3. target' \in {target, "Suspended"} /\ Take(t, "TRAP")
      BY <2>1 DEF HandleTrapAs
  <2>4. target # "Exiting"
      BY <2>3, LiveTaken DEF LiveEvents
  <2> QED BY <2>2, <2>3, <2>4 DEF ExitInv, ExitingThroughout, ExitStep
<1>7. CASE HandleFatal(t)
  <2>1. EventsInOrder' /\ ExecReady'
      BY <1>d, <1>7 DEF HandleFatal
  <2>2. target' = "Suspended" /\ Take(t, "FATAL")
      BY <1>7 DEF HandleFatal
  <2>3. target # "Exiting"
      BY <2>2, LiveTaken DEF LiveEvents
  <2> QED BY <2>1, <2>2, <2>3 DEF ExitInv, ExitingThroughout, ExitStep
<1>8. CASE HandleBenign(t)
  <2>1. EventsInOrder' /\ ExecReady'
      BY <1>d, <1>8 DEF HandleBenign
  <2>2. UNCHANGED <<target, threads, stepping, exiting>>
      BY <1>8 DEF HandleBenign
  <2> QED BY <1>b, <2>1, <2>2 DEF ExitInv, ExitingThroughout, ExitStep
<1>9. ASSUME NEW e \in {"TRAP", "FATAL", "CLONE"}, HandleEsrch(t, e) PROVE ExitInv' /\ ExitStep
  <2>1. EventsInOrder' /\ ExecReady'
      BY <1>c, <1>9 DEF HandleEsrch
  <2>2. UNCHANGED <<target, threads, stepping, exiting>>
      BY <1>9 DEF HandleEsrch
  <2> QED BY <1>b, <2>1, <2>2 DEF ExitInv, ExitingThroughout, ExitStep
<1> QED BY <1>1, <1>2, <1>3, <1>4, <1>5, <1>6, <1>7, <1>8, <1>9

\* Threads go away, new ones are heard of too early.
LEMMA ExitedExit ==
    ASSUME IInv, ExitInv, NEW t \in Tids, HandleExited(t) \/ DeferEvent(t)
    PROVE  ExitInv' /\ ExitStep
<1>1. CASE HandleExited(t)
  <2>1. EventsInOrder'
      BY <1>1, ExitedKeepOrder DEF ExitInv
  <2>2. ExecReady'
      BY <1>1 DEF HandleExited, Take, ExecReady
  <2>3. /\ threads' = threads \ {t} /\ exiting' = [exiting EXCEPT ![t] = FALSE]
        /\ \/ target' = "NoProcess"
           \/ target' = "Suspended" /\ stepping.tid = t
           \/ target' = target /\ stepping' = stepping
      BY <1>1 DEF HandleExited
  <2>4. NoStep.tid # t
      BY TidsAssumption DEF NoStep
  <2>5. target = "Exiting" => stepping.tid # t
      BY <2>4 DEF ExitInv, ExitingThroughout
  <2>6. \A u \in threads' : exiting'[u] = exiting[u]
    <3>1. exiting \in [Tids -> BOOLEAN] /\ threads \subseteq Tids
        BY DEF IInv, TypeOK
    <3> QED BY <2>3, <3>1
  <2> QED BY <2>1, <2>2, <2>3, <2>5, <2>6 DEF ExitInv, ExitingThroughout, ExitStep
<1>2. CASE DeferEvent(t)
  <2>1. EventsInOrder'
      BY <1>2, DeferKeepOrder DEF ExitInv
  <2>2. UNCHANGED <<target, threads, stepping, exiting>> /\ pc' = "loop"
      BY <1>2 DEF DeferEvent, tvars
  <2> QED BY <2>1, <2>2 DEF ExitInv, ExitingThroughout, ExecReady, ExitStep
<1> QED BY <1>1, <1>2

\* Requests outside process_events(), made for a process that is ready.
LEMMA ReadyExit ==
    ASSUME ExitInv, NEW I, NEW R, NEW A, PtraceNow(I, R, A), UNCHANGED <<threads, deferred>>,
           target # "Exiting", target' # "Exiting", pc' # "exec"
    PROVE  ExitInv' /\ ExitStep
<1>1. EventsInOrder'
    BY RequestsKeepOrder DEF ExitInv, PtraceNow
<1> QED BY <1>1 DEF ExitInv, ExitingThroughout, ExecReady, ExitStep

LEMMA TryPendingExit ==
    ASSUME ExitInv, NEW tgt, NEW ps, NEW st, NEW mayFail, TryPendingStep(tgt, ps, st, mayFail),
           UNCHANGED <<threads, deferred>>, target # "Exiting", tgt # "Exiting", pc' # "exec"
    PROVE  ExitInv' /\ ExitStep
<1>1. PICK b, s : TryPendingStepAs(tgt, ps, st, b, s)
    BY DEF TryPendingStep
<1>2. \E I, R, A : PtraceNow(I, R, A)
    BY <1>1 DEF TryPendingStepAs
<1>3. target' # "Exiting"
    BY <1>1 DEF TryPendingStepAs
<1> QED BY <1>2, <1>3, ReadyExit

\* Steps that change neither threads nor what is known of them.
LEMMA UntouchedExit ==
    ASSUME ExitInv, UNCHANGED <<kev, pastExit, threads, deferred, target, stepping, exiting>>,
           pc' = "exec" => pc = "exec" \/ ProcessReady(target)
    PROVE  ExitInv' /\ ExitStep
<1>1. EventsInOrder'
    BY UntouchedKeepOrder DEF ExitInv
<1> QED BY <1>1 DEF ExitInv, ExitingThroughout, ExecReady, ExitStep

LEMMA TailExit ==
    ASSUME IInv, ExitInv, EndLoop \/ InitialExecTail \/ HandleBreakpointsTail \/ DropCaches
    PROVE  ExitInv' /\ ExitStep
<1>1. CASE EndLoop
    BY <1>1, UntouchedExit DEF EndLoop, kvars, pvars, tvars
<1>2. CASE InitialExecTail
  <2>1. PICK tgt : /\ tgt # "Exiting"
                   /\ TryPendingStep(tgt, pendingStep, stepping, TRUE)
      BY <1>2 DEF InitialExecTail
  <2>2. UNCHANGED <<threads, deferred>> /\ pc' # "exec" /\ target # "Exiting"
      BY <1>2 DEF InitialExecTail, ExitInv, ExecReady, ProcessReady
  <2> QED BY <2>1, <2>2, TryPendingExit
<1>3. CASE HandleBreakpointsTail
  <2>1. UNCHANGED <<threads, deferred, target, stepping, exiting>> /\ pc' # "exec"
      BY <1>3 DEF HandleBreakpointsTail
  <2>2. CASE stopBps /\ RunningIn(threads, tstate) = {}
    <3>1. PICK A : PtraceNow({}, ResumeSet, A)
        BY <1>3, <2>2 DEF HandleBreakpointsTail
    <3>2. EventsInOrder'
        BY <2>1, <3>1, RequestsKeepOrder DEF ExitInv, PtraceNow
    <3> QED BY <2>1, <3>2 DEF ExitInv, ExitingThroughout, ExecReady, ExitStep
  <2>3. CASE ~(stopBps /\ RunningIn(threads, tstate) = {})
      BY <1>3, <2>1, <2>3, UntouchedExit DEF HandleBreakpointsTail, kvars
  <2> QED BY <2>2, <2>3
<1>4. CASE DropCaches
  <2>1. UNCHANGED <<threads, deferred, exiting>> /\ pc' # "exec"
      BY <1>4 DEF DropCaches
  <2>2. CASE ProcessReady(target)
    <3>1. TryPendingStep(target, pendingStep, stepping, TRUE) /\ target # "Exiting"
        BY <1>4, <2>2 DEF DropCaches, ProcessReady
    <3> QED BY <2>1, <3>1, TryPendingExit
  <2>3. CASE ~ProcessReady(target)
      BY <1>4, <2>1, <2>3, UntouchedExit DEF DropCaches, kvars
  <2> QED BY <2>2, <2>3
<1> QED BY <1>1, <1>2, <1>3, <1>4

LEMMA UserExit ==
    ASSUME IInv, ExitInv, UserNext
    PROVE  ExitInv' /\ ExitStep
<1>1. ASSUME NEW on, StartChild(on) PROVE ExitInv' /\ ExitStep
  <2>1. /\ kev' = [t \in Tids |-> "none"] /\ deferred' = <<>> /\ target = "NoProcess"
        /\ target' = "Starting" /\ pc' = "idle"
      BY <1>1 DEF StartChild, lvars
  <2>2. EventsInOrder'
      BY <2>1 DEF EventsInOrder, LiveEvents
  <2> QED BY <2>1, <2>2 DEF ExitInv, ExitingThroughout, ExecReady, ExitStep
<1>2. CASE Resume
  <2>1. \E I, R, A : PtraceNow(I, R, A)
      BY <1>2 DEF Resume
  <2>2. UNCHANGED <<threads, deferred>> /\ target' # "Exiting" /\ target # "Exiting" /\ pc' # "exec"
      BY <1>2 DEF Resume, OnlyControl, lvars
  <2> QED BY <2>1, <2>2, ReadyExit
<1>3. CASE Suspend
  <2>1. \E I, R, A : PtraceNow(I, R, A)
      BY <1>3 DEF Suspend
  <2>2. UNCHANGED <<threads, deferred>> /\ target' # "Exiting" /\ target # "Exiting" /\ pc' # "exec"
      BY <1>3 DEF Suspend, OnlyControl, lvars
  <2> QED BY <2>1, <2>2, ReadyExit
<1>4. ASSUME NEW t \in Tids, NEW keep \in BOOLEAN, NEW newLocations \in BOOLEAN,
             Step(t, keep, newLocations)
      PROVE  ExitInv' /\ ExitStep
  <2>1. \E I, R, A : PtraceNow(I, R, A)
      BY <1>4 DEF Step
  <2>2. UNCHANGED <<threads, deferred>> /\ target' # "Exiting" /\ target # "Exiting" /\ pc' # "exec"
      BY <1>4 DEF Step, OnlyControl, lvars
  <2> QED BY <2>1, <2>2, ReadyExit
<1>5. ASSUME NEW t \in Tids, StepToCursor(t) PROVE ExitInv' /\ ExitStep
  <2>1. PICK tgt, ps, st, mayFail : tgt # "Exiting" /\ TryPendingStep(tgt, ps, st, mayFail)
      BY <1>5 DEF StepToCursor
  <2>2. UNCHANGED <<threads, deferred>> /\ target # "Exiting" /\ pc' # "exec"
      BY <1>5 DEF StepToCursor, OnlyControl, lvars, ProcessReady
  <2> QED BY <2>1, <2>2, TryPendingExit
<1>6. CASE AddBreakpoint
  <2>1. UNCHANGED <<threads, deferred, exiting, target, stepping>> /\ pc' # "exec"
      BY <1>6 DEF AddBreakpoint, OnlyControl, lvars
  <2>2. CASE ProcessReady(target)
    <3>1. \E I, R, A : PtraceNow(I, R, A)
        BY <1>6, <2>2 DEF AddBreakpoint, ActivateBreakpoint, ActivateBreakpointAs
    <3>2. target # "Exiting"
        BY <2>2 DEF ProcessReady
    <3> QED BY <2>1, <3>1, <3>2, ReadyExit
  <2>3. CASE ~ProcessReady(target)
      BY <1>6, <2>1, <2>3, UntouchedExit DEF AddBreakpoint, kvars
  <2> QED BY <2>2, <2>3
<1>7. CASE RemoveBreakpoint
    BY <1>7, UntouchedExit DEF RemoveBreakpoint, kvars, pvars, tvars, lvars
<1>8. CASE Murder
    BY <1>8, UntouchedExit DEF Murder, pvars, tvars, lvars
<1> QED BY <1>1, <1>2, <1>3, <1>4, <1>5, <1>6, <1>7, <1>8 DEF UserNext

LEMMA NextExit == IInv /\ ExitInv /\ [Next]_vars => ExitInv' /\ (ExitStep \/ UNCHANGED vars)
<1> SUFFICES ASSUME IInv, ExitInv, [Next]_vars PROVE ExitInv' /\ (ExitStep \/ UNCHANGED vars)
    OBVIOUS
<1>1. CASE KernelNext
  <2>1. EventsInOrder'
      BY <1>1, KernelKeepOrder DEF ExitInv
  <2>2. UNCHANGED <<target, threads, stepping, exiting, pc>>
      BY <1>1 DEF KernelNext, KernelTrapStop, KernelSignal, KernelClone, KernelSigstop, KernelExec,
                  KernelExitStop, KernelKill, KernelDie, pvars, tvars, lvars
  <2> QED BY <2>1, <2>2 DEF ExitInv, ExitingThroughout, ExecReady, ExitStep
<1>2. CASE DebuggerNext
  <2>1. ASSUME NEW t \in Tids, HandleEvent(t) PROVE ExitInv' /\ ExitStep
      BY <2>1, StopsExit, ExitedExit DEF HandleEvent
  <2> QED BY <1>2, <2>1, TailExit DEF DebuggerNext
<1>3. ASSUME NEW done, SymbolsEvent(done) PROVE ExitInv' /\ ExitStep
    BY <1>3, UntouchedExit DEF SymbolsEvent, kvars, pvars, tvars
<1>4. CASE UserNext
    BY <1>4, UserExit
<1>5. CASE UNCHANGED vars
    BY <1>5, UntouchedExit DEF vars, kvars, pvars, tvars, lvars
<1> QED BY <1>1, <1>2, <1>3, <1>4, <1>5 DEF Next

\* Once all threads have announced their exit, nothing that is still to be reported
\* or handled, no late breakpoint hit, signal or clone, makes the process ready
\* again, for any number of threads.
THEOREM ExitCorrect == Spec => ExitIsFinal
<1>1. Init => ExitInv
  <2> SUFFICES ASSUME Init PROVE ExitInv
      OBVIOUS
  <2>1. DOMAIN deferred = {}
      BY DEF Init
  <2>2. EventsInOrder
      BY <2>1 DEF Init, EventsInOrder, LiveEvents
  <2> QED BY <2>2 DEF Init, ExitInv, ExitingThroughout, ExecReady
<1>2. IInv /\ ExitInv /\ [Next]_vars => ExitInv'
    BY NextExit
<1>3. IInv /\ ExitInv /\ [Next]_vars => [target = "Exiting" => target' \in {"Exiting", "NoProcess"}]_vars
    BY NextExit DEF ExitStep
<1> QED BY <1>1, <1>2, <1>3, InitKeeps, NextKeeps, PTL DEF Spec, ExitIsFinal

(***************************************************************************)
(* The contract of PTRACE_CONT.  A thread that the debugger resumes is     *)
(* marked as suspended, or its own stop is being handled.  In both cases   *)
(* it is stopped, its status has been reaped, and the debugger remembers a *)
(* signal exactly if the kernel holds one back.                            *)
(***************************************************************************)

\* The strengthening under which PtraceContract is inductive.
StopsAccounted ==
    /\ \A t \in Tids \ threads : ~pendSig[t]
    /\ ~killed =>
         /\ \A t \in Tids :
              /\ tstate[t] = "Running" => ~pendSig[t]
              /\ t \in threads /\ tstate[t] = "Suspended" =>
                    k[t] = "stop" /\ kev[t] = "none" /\ (held[t] <=> pendSig[t])
              /\ k[t] = "stop" /\ kev[t] # "none" => (held[t] <=> kev[t] \in {"BENIGN", "FATAL"})
              /\ k[t] = "zombie" => kev[t] = "EXITED"
              /\ t \notin threads =>
                    /\ kev[t] \in {"none", "STOP"} /\ k[t] # "run"
                    /\ k[t] \in {"none", "born", "stop"} => ~pastExit[t]
         /\ \A i \in DOMAIN deferred :
              LET t == deferred[i].tid
              IN  deferred[i].ev = "STOP" /\ k[t] = "stop" /\ ~pastExit[t] /\ ~held[t]

\* The kinds of faults exclude each other.
LEMMA FaultKinds ==
    /\ \A f \in PtraceFaults : f \notin AssertFaults /\ f # "patched while running"
    /\ \A f \in AssertFaults : f \notin PtraceFaults /\ f # "patched while running"
BY DEF PtraceFaults, AssertFaults

\* Resuming threads that are accounted for breaks no rule of PTRACE_CONT.
LEMMA ContIsClean ==
    ASSUME NEW kv, NEW ps, NEW R,
           ~killed => \A t \in R : k[t] = "stop" /\ kv[t] = "none" /\ held[t] = ps[t]
    PROVE  ContFaults(kv, ps, R) = {}
<1> SUFFICES ASSUME NEW f \in PtraceFaults, ~killed, NEW t \in R,
                    CASE f = "lost event"  -> k[t] = "stop" /\ kv[t] # "none"
                      [] f = "not stopped" -> k[t] # "stop"
                      [] f = "lost signal" -> held[t] # ps[t]
             PROVE  FALSE
    BY DEF ContFaults
<1>1. k[t] = "stop" /\ kv[t] = "none" /\ held[t] = ps[t]
    OBVIOUS
<1>2. f = "lost event" \/ f = "not stopped" \/ f = "lost signal"
    BY DEF PtraceFaults
<1>3. CASE f = "lost event"
    BY <1>1, <1>3
<1>4. CASE f = "not stopped"
    BY <1>1, <1>4
<1>5. CASE f = "lost signal"
    BY <1>1, <1>5
<1> QED BY <1>2, <1>3, <1>4, <1>5

LEMMA CleanKeepsContract ==
    ASSUME PtraceContract, NEW kv, NEW ts, NEW si, NEW ps, NEW I, NEW R, NEW A,
           Ptrace(kv, ts, si, ps, I, R, A), A \cap PtraceFaults = {},
           ContFaults(kv, ps, R) = {}
    PROVE  PtraceContract'
BY DEF Ptrace, PtraceContract

\* Requests outside the handling of a status resume threads marked as suspended.
LEMMA PtraceNowContract ==
    ASSUME IInv, StopsAccounted, PtraceContract,
           NEW I, NEW R \in SUBSET SuspendedIn(threads, tstate), NEW A, A \cap PtraceFaults = {},
           PtraceNow(I, R, A), UNCHANGED <<threads, deferred>>
    PROVE  StopsAccounted' /\ PtraceContract'
<1>a. /\ k \in [Tids -> KStates] /\ kev \in [Tids -> Events \cup {"none"}]
      /\ held \in [Tids -> BOOLEAN] /\ pendSig \in [Tids -> BOOLEAN]
      /\ tstate \in [Tids -> {"Running", "Suspended"}] /\ threads \subseteq Tids
    BY DEF IInv, TypeOK
<1>b. Ptrace(kev, tstate, sentIntr, pendSig, I, R, A)
    BY DEF PtraceNow
<1>c. /\ tstate' = [t \in Tids |-> IF t \in R THEN "Running" ELSE tstate[t]]
      /\ pendSig' = [t \in Tids |-> pendSig[t] /\ t \notin R]
      /\ k' = [t \in Tids |-> IF t \in R /\ k[t] = "stop" THEN "run" ELSE k[t]]
      /\ kev' = [t \in Tids |-> IF t \in R /\ k[t] = "stop" THEN "none" ELSE kev[t]]
      /\ held' = [t \in Tids |-> held[t] /\ t \notin R]
      /\ UNCHANGED <<pastExit, killed>>
    BY <1>b DEF Ptrace
<1>d. \A t \in R : t \in Tids /\ t \in threads /\ tstate[t] = "Suspended"
    BY <1>a DEF SuspendedIn
<1>1. ~killed => \A t \in R : k[t] = "stop" /\ kev[t] = "none" /\ held[t] = pendSig[t]
    BY <1>a, <1>d DEF StopsAccounted
<1>2. PtraceContract'
    BY <1>1, <1>b, ContIsClean, CleanKeepsContract
<1>3. \A t \in Tids \ threads' : ~pendSig'[t]
    BY <1>c DEF StopsAccounted
<1>4. ASSUME ~killed, NEW t \in Tids
      PROVE  /\ tstate'[t] = "Running" => ~pendSig'[t]
             /\ t \in threads' /\ tstate'[t] = "Suspended" =>
                   k'[t] = "stop" /\ kev'[t] = "none" /\ (held'[t] <=> pendSig'[t])
             /\ k'[t] = "stop" /\ kev'[t] # "none" => (held'[t] <=> kev'[t] \in {"BENIGN", "FATAL"})
             /\ k'[t] = "zombie" => kev'[t] = "EXITED"
             /\ t \notin threads' =>
                   /\ kev'[t] \in {"none", "STOP"} /\ k'[t] # "run"
                   /\ k'[t] \in {"none", "born", "stop"} => ~pastExit'[t]
  <2>1. CASE t \in R
      BY <1>a, <1>1, <1>4, <1>c, <1>d, <2>1
  <2>2. CASE t \notin R
      BY <1>4, <1>c, <2>2 DEF StopsAccounted
  <2> QED BY <2>1, <2>2
<1>5. ASSUME ~killed, NEW i \in DOMAIN deferred'
      PROVE  /\ deferred'[i].ev = "STOP" /\ k'[deferred'[i].tid] = "stop"
             /\ ~pastExit'[deferred'[i].tid] /\ ~held'[deferred'[i].tid]
  <2> DEFINE u == deferred[i].tid
  <2>1. u \in Tids /\ i \in DOMAIN deferred
      BY DeferredTids DEF IInv
  <2>2. deferred[i].ev = "STOP" /\ k[u] = "stop" /\ ~pastExit[u] /\ ~held[u]
      BY <1>5, <2>1 DEF StopsAccounted
  <2>3. tstate[u] = "Running"
      BY <2>1, <2>2 DEF IInv, ThreadTableAgrees, DeferredAtRest
  <2>4. u \notin R
      BY <1>d, <2>3
  <2> QED BY <1>c, <2>1, <2>2, <2>4
<1> QED BY <1>2, <1>3, <1>4, <1>5, <1>c DEF StopsAccounted

\* What is known of a thread whose stop is taken.
LEMMA TakenStop ==
    ASSUME IInv, StopsAccounted, NEW t \in Tids, NEW e, Take(t, e), e # "EXITED", ~killed
    PROVE  /\ k[t] = "stop" /\ KevTaken(t)[t] = "none" /\ ~pendSig[t]
           /\ held[t] <=> e \in {"BENIGN", "FATAL"}
<1>a. /\ deferred \in Seq([tid : Tids, ev : Events]) /\ kev \in [Tids -> Events \cup {"none"}]
      /\ tstate \in [Tids -> {"Running", "Suspended"}]
    BY DEF IInv, TypeOK
<1>1. CASE FrontReady
  <2>1. deferred # <<>> /\ Head(deferred) = [tid |-> t, ev |-> e]
      BY <1>1 DEF Take, FrontReady
  <2>2. 1 \in DOMAIN deferred /\ deferred[1].tid = t /\ deferred[1].ev = e
      BY <1>a, <2>1, TailProperties
  <2>3. e = "STOP" /\ k[t] = "stop" /\ ~pastExit[t] /\ ~held[t]
      BY <2>2 DEF StopsAccounted
  <2>4. tstate[t] = "Running" /\ kev[t] = "none"
      BY <2>2, <2>3 DEF IInv, ThreadTableAgrees, DeferredAtRest
  <2>5. ~pendSig[t]
      BY <2>4 DEF StopsAccounted
  <2> QED BY <1>1, <2>3, <2>4, <2>5 DEF KevTaken
<1>2. CASE ~FrontReady
  <2>1. kev[t] = e /\ e # "none" /\ t \in threads
      BY <1>2 DEF Take, Reapable
  <2>2. k[t] = "stop"
      BY <2>1 DEF IInv, ThreadTableAgrees, StatusAtRest, StopsAccounted
  <2>3. tstate[t] = "Running"
      BY <1>a, <2>1 DEF StopsAccounted
  <2>4. KevTaken(t)[t] = "none"
      BY <1>a, <1>2 DEF KevTaken
  <2> QED BY <2>1, <2>2, <2>3, <2>4 DEF StopsAccounted
<1> QED BY <1>1, <1>2

\* Handling a stop of t.
LEMMA StopContract ==
    ASSUME IInv, StopsAccounted, PtraceContract, NEW t \in Tids, NEW e, Take(t, e), e # "EXITED",
           threads \subseteq threads', threads' \subseteq Tids,
           NEW signalled \in BOOLEAN, ~killed => (signalled <=> e \in {"BENIGN", "FATAL"}),
           NEW si, NEW I, NEW A, A \cap PtraceFaults = {},
           NEW R \in SUBSET (SuspendedIn(threads \ {t}, tstate) \cup {t}),
           Ptrace(KevTaken(t), [tstate EXCEPT ![t] = "Suspended"], si,
                  [pendSig EXCEPT ![t] = @ \/ signalled], I, R, A)
    PROVE  StopsAccounted' /\ PtraceContract'
<1> DEFINE ps == [pendSig EXCEPT ![t] = @ \/ signalled]
           ts == [tstate EXCEPT ![t] = "Suspended"]
           kv == KevTaken(t)
<1>a. /\ k \in [Tids -> KStates] /\ kev \in [Tids -> Events \cup {"none"}]
      /\ held \in [Tids -> BOOLEAN] /\ pendSig \in [Tids -> BOOLEAN]
      /\ tstate \in [Tids -> {"Running", "Suspended"}] /\ threads \subseteq Tids
    BY DEF IInv, TypeOK
<1>b. /\ ps \in [Tids -> BOOLEAN] /\ (~killed => (ps[t] <=> pendSig[t] \/ signalled))
      /\ \A u \in Tids : u # t => ps[u] = pendSig[u]
    BY <1>a
<1>c. /\ ts \in [Tids -> {"Running", "Suspended"}] /\ ts[t] = "Suspended"
      /\ \A u \in Tids : u # t => ts[u] = tstate[u]
    BY <1>a
<1>d. /\ t \in threads
      /\ \A u \in Tids : u # t => kv[u] = kev[u]
      /\ \A i \in DOMAIN deferred' : \E j \in DOMAIN deferred : deferred'[i] = deferred[j]
      /\ k[t] = "stop" /\ ~pastExit[t] => \A i \in DOMAIN deferred' : deferred'[i].tid # t
    BY TakeFacts DEF IInv
<1>e. ~killed => /\ k[t] = "stop" /\ kv[t] = "none" /\ ~pendSig[t]
                 /\ held[t] <=> e \in {"BENIGN", "FATAL"}
    BY TakenStop
<1>f. Ptrace(kv, ts, si, ps, I, R, A)
    OBVIOUS
<1> HIDE DEF ps, ts, kv
<1>g. /\ tstate' = [u \in Tids |-> IF u \in R THEN "Running" ELSE ts[u]]
      /\ pendSig' = [u \in Tids |-> ps[u] /\ u \notin R]
      /\ k' = [u \in Tids |-> IF u \in R /\ k[u] = "stop" THEN "run" ELSE k[u]]
      /\ kev' = [u \in Tids |-> IF u \in R /\ k[u] = "stop" THEN "none" ELSE kv[u]]
      /\ held' = [u \in Tids |-> held[u] /\ u \notin R]
      /\ UNCHANGED <<pastExit, killed>>
    BY <1>f DEF Ptrace
<1>h. \A u \in R : u \in Tids /\ u \in threads /\ (u = t \/ tstate[u] = "Suspended")
    BY <1>a, <1>d DEF SuspendedIn
<1>i. ~killed => (held[t] <=> ps[t])
    BY <1>b, <1>e
<1>j. ~killed => \A u \in R : k[u] = "stop" /\ kv[u] = "none" /\ (held[u] <=> ps[u])
    BY <1>b, <1>d, <1>e, <1>h, <1>i DEF StopsAccounted
<1>1. ~killed => \A u \in R : k[u] = "stop" /\ kv[u] = "none" /\ held[u] = ps[u]
    BY <1>a, <1>b, <1>h, <1>j
<1>2. PtraceContract'
    BY <1>1, <1>f, ContIsClean, CleanKeepsContract
<1>3. \A u \in Tids \ threads' : ~pendSig'[u]
    BY <1>b, <1>d, <1>g DEF StopsAccounted
<1>4. ASSUME ~killed, NEW u \in Tids
      PROVE  /\ tstate'[u] = "Running" => ~pendSig'[u]
             /\ u \in threads' /\ tstate'[u] = "Suspended" =>
                   k'[u] = "stop" /\ kev'[u] = "none" /\ (held'[u] <=> pendSig'[u])
             /\ k'[u] = "stop" /\ kev'[u] # "none" => (held'[u] <=> kev'[u] \in {"BENIGN", "FATAL"})
             /\ k'[u] = "zombie" => kev'[u] = "EXITED"
             /\ u \notin threads' =>
                   /\ kev'[u] \in {"none", "STOP"} /\ k'[u] # "run"
                   /\ k'[u] \in {"none", "born", "stop"} => ~pastExit'[u]
  <2>1. CASE u \in R
    <3>1. u \in threads' /\ k'[u] = "run" /\ tstate'[u] = "Running" /\ ~pendSig'[u]
        BY <1>4, <1>g, <1>h, <1>j, <2>1
    <3> QED BY <3>1
  <2>2. CASE u = t /\ u \notin R
    <3>1. /\ u \in threads' /\ k'[u] = "stop" /\ tstate'[u] = "Suspended" /\ kev'[u] = "none"
          /\ held'[u] <=> pendSig'[u]
        BY <1>4, <1>c, <1>d, <1>e, <1>g, <1>i, <2>2
    <3> QED BY <3>1
  <2>3. CASE u # t /\ u \notin R
    <3>1. /\ tstate'[u] = tstate[u] /\ k'[u] = k[u] /\ kev'[u] = kev[u] /\ pastExit'[u] = pastExit[u]
          /\ held'[u] <=> held[u]
          /\ pendSig'[u] <=> pendSig[u]
        BY <1>b, <1>c, <1>d, <1>g, <2>3
    <3>2. u \notin threads => tstate[u] = "Running"
        BY DEF IInv, ThreadTableAgrees, FreshOutside
    <3> QED BY <1>4, <3>1, <3>2 DEF StopsAccounted
  <2> QED BY <2>1, <2>2, <2>3
<1>5. ASSUME ~killed, NEW i \in DOMAIN deferred'
      PROVE  /\ deferred'[i].ev = "STOP" /\ k'[deferred'[i].tid] = "stop"
             /\ ~pastExit'[deferred'[i].tid] /\ ~held'[deferred'[i].tid]
  <2>1. PICK j \in DOMAIN deferred : deferred'[i] = deferred[j]
      BY <1>d
  <2> DEFINE u == deferred[j].tid
  <2>2. u \in Tids /\ deferred'[i].tid = u /\ deferred'[i].ev = deferred[j].ev
      BY <2>1, DeferredTids DEF IInv
  <2>3. deferred[j].ev = "STOP" /\ k[u] = "stop" /\ ~pastExit[u] /\ ~held[u]
      BY <1>5, <2>2 DEF StopsAccounted
  <2>4. tstate[u] = "Running"
      BY <2>2, <2>3 DEF IInv, ThreadTableAgrees, DeferredAtRest
  <2>5. u # t
      BY <1>d, <2>2, <2>3
  <2>6. u \notin R
      BY <1>h, <2>4, <2>5
  <2> QED BY <1>g, <2>2, <2>3, <2>6
<1> QED BY <1>2, <1>3, <1>4, <1>5, <1>g DEF StopsAccounted

\* Steps that touch neither the threads nor the faults.
LEMMA UntouchedContract ==
    ASSUME StopsAccounted, PtraceContract, killed' = killed \/ killed',
           UNCHANGED <<k, kev, held, pastExit, threads, deferred, tstate, pendSig, faults>>
    PROVE  StopsAccounted' /\ PtraceContract'
BY DEF StopsAccounted, PtraceContract

\* Steps of the kernel: a thread that the debugger keeps stopped stays stopped.
LEMMA KernelContract ==
    ASSUME IInv, StopsAccounted, PtraceContract, KernelNext
    PROVE  StopsAccounted' /\ PtraceContract'
<1>a. /\ k \in [Tids -> KStates] /\ kev \in [Tids -> Events \cup {"none"}]
      /\ held \in [Tids -> BOOLEAN] /\ pastExit \in [Tids -> BOOLEAN]
      /\ tstate \in [Tids -> {"Running", "Suspended"}]
      /\ Main \in Tids
    BY TidsAssumption DEF IInv, TypeOK
<1>b. UNCHANGED <<threads, deferred, tstate, pendSig, faults>>
    BY DEF KernelNext, KernelTrapStop, KernelSignal, KernelClone, KernelSigstop, KernelExec,
           KernelExitStop, KernelKill, KernelDie, pvars, tvars
<1>c. \A i \in DOMAIN deferred : deferred[i].tid \in Tids
    BY DeferredTids DEF IInv
<1>d. PtraceContract'
    BY <1>b DEF PtraceContract
<1>e. \A t \in Tids : UserRunning(t) => t \in threads /\ tstate[t] = "Running"
    BY DEF IInv, ThreadTableAgrees, RunnersKnown
<1>0. ASSUME killed' PROVE StopsAccounted'
    BY <1>0, <1>b DEF StopsAccounted
<1>1. ASSUME NEW t \in Tids, NEW e, ~killed, k[t] \in {"born", "run"},
             k' = [k EXCEPT ![t] = "stop"], kev' = [kev EXCEPT ![t] = e],
             held' = [held EXCEPT ![t] = e \in {"BENIGN", "FATAL"}],
             e # "none",
             \/ k[t] = "born" /\ e = "STOP" /\ pastExit' = pastExit
             \/ UserRunning(t) /\ pastExit' = pastExit
             \/ UserRunning(t) /\ pastExit' = [pastExit EXCEPT ![t] = TRUE]
      PROVE  StopsAccounted'
  <2>1. \A u \in Tids : u # t => /\ k'[u] = k[u] /\ kev'[u] = kev[u] /\ held'[u] = held[u]
                                 /\ pastExit'[u] = pastExit[u]
      BY <1>1, <1>a
  <2>2. /\ k'[t] = "stop" /\ kev'[t] = e
        /\ held'[t] <=> e \in {"BENIGN", "FATAL"}
      BY <1>1, <1>a
  <2>3. t \notin threads => e = "STOP" /\ ~pastExit'[t]
      BY <1>1, <1>e DEF StopsAccounted
  <2>4. ~(t \in threads /\ tstate[t] = "Suspended")
      BY <1>1 DEF StopsAccounted
  <2>5. \A i \in DOMAIN deferred : deferred[i].tid # t
      BY <1>1 DEF StopsAccounted
  <2>6. \A u \in Tids :
          /\ tstate'[u] = "Running" => ~pendSig'[u]
          /\ u \in threads' /\ tstate'[u] = "Suspended" =>
                k'[u] = "stop" /\ kev'[u] = "none" /\ (held'[u] <=> pendSig'[u])
          /\ k'[u] = "stop" /\ kev'[u] # "none" => (held'[u] <=> kev'[u] \in {"BENIGN", "FATAL"})
          /\ k'[u] = "zombie" => kev'[u] = "EXITED"
          /\ u \notin threads' =>
                /\ kev'[u] \in {"none", "STOP"} /\ k'[u] # "run"
                /\ k'[u] \in {"none", "born", "stop"} => ~pastExit'[u]
    <3> SUFFICES ASSUME NEW u \in Tids
                 PROVE  /\ tstate'[u] = "Running" => ~pendSig'[u]
                        /\ u \in threads' /\ tstate'[u] = "Suspended" =>
                              k'[u] = "stop" /\ kev'[u] = "none" /\ (held'[u] <=> pendSig'[u])
                        /\ k'[u] = "stop" /\ kev'[u] # "none" =>
                              (held'[u] <=> kev'[u] \in {"BENIGN", "FATAL"})
                        /\ k'[u] = "zombie" => kev'[u] = "EXITED"
                        /\ u \notin threads' =>
                              /\ kev'[u] \in {"none", "STOP"} /\ k'[u] # "run"
                              /\ k'[u] \in {"none", "born", "stop"} => ~pastExit'[u]
        OBVIOUS
    <3>1. CASE u = t
        BY <1>1, <1>b, <2>2, <2>3, <2>4, <3>1 DEF StopsAccounted
    <3>2. CASE u # t
        BY <1>1, <1>b, <2>1, <3>2 DEF StopsAccounted
    <3> QED BY <3>1, <3>2
  <2>7. \A i \in DOMAIN deferred' :
          /\ deferred'[i].ev = "STOP" /\ k'[deferred'[i].tid] = "stop"
          /\ ~pastExit'[deferred'[i].tid] /\ ~held'[deferred'[i].tid]
      BY <1>1, <1>b, <1>c, <2>1, <2>5 DEF StopsAccounted
  <2>8. \A u \in Tids \ threads' : ~pendSig'[u]
      BY <1>b DEF StopsAccounted
  <2> QED BY <2>6, <2>7, <2>8 DEF StopsAccounted
<1>2. ASSUME NEW t \in Tids, KernelTrapStop(t) PROVE StopsAccounted'
    BY <1>1, <1>2 DEF KernelTrapStop, KStop, UserRunning
<1>3. ASSUME NEW t \in Tids, NEW e \in {"TRAP", "BENIGN", "FATAL"}, KernelSignal(t, e)
      PROVE  StopsAccounted'
    BY <1>1, <1>3 DEF KernelSignal, KStop, UserRunning
<1>4. CASE KernelSigstop
    BY <1>1, <1>4, <1>a, <1>d DEF KernelSigstop, KStop, UserRunning
<1>5. CASE KernelExec
    BY <1>1, <1>5, <1>a, <1>d DEF KernelExec, KStop, UserRunning
<1>6. ASSUME NEW t \in Tids, KernelExitStop(t) PROVE StopsAccounted'
  <2>1. CASE killed
      BY <1>0, <1>6, <2>1 DEF KernelExitStop
  <2>2. CASE ~killed
      BY <1>1, <1>6, <2>2 DEF KernelExitStop, KStop, UserRunning
  <2> QED BY <2>1, <2>2
<1>7. ASSUME NEW t \in Tids, NEW u \in Tids, KernelClone(t, u) PROVE StopsAccounted'
  <2>1. /\ k' = [k EXCEPT ![t] = "stop", ![u] = "born"]
        /\ kev' = [kev EXCEPT ![t] = "CLONE"]
        /\ held' = [held EXCEPT ![t] = FALSE]
        /\ pastExit' = pastExit /\ killed' = killed /\ ~killed
        /\ UserRunning(t) /\ k[u] = "none" /\ t # u
      BY <1>7 DEF KernelClone, UserRunning
  <2>2. /\ k'[t] = "stop" /\ kev'[t] = "CLONE" /\ ~held'[t] /\ k'[u] = "born"
        /\ t \in threads /\ tstate[t] = "Running" /\ k[t] = "run"
      BY <1>a, <1>e, <2>1 DEF UserRunning
  <2>3. kev[u] = "none" /\ (u \notin threads => ~pastExit[u])
      BY <1>a, <2>1 DEF IInv, ThreadTableAgrees, StatusAtRest, StopsAccounted
  <2>4. ~(u \in threads /\ tstate[u] = "Suspended")
      BY <2>1 DEF StopsAccounted
  <2>5. \A i \in DOMAIN deferred : deferred[i].tid # t /\ deferred[i].tid # u
      BY <2>1, <2>2 DEF StopsAccounted
  <2>6. \A v \in Tids : v # t => kev'[v] = kev[v] /\ held'[v] = held[v] /\ (v # u => k'[v] = k[v])
      BY <1>a, <2>1
  <2>7. ASSUME NEW v \in Tids
        PROVE  /\ tstate'[v] = "Running" => ~pendSig'[v]
               /\ v \in threads' /\ tstate'[v] = "Suspended" =>
                     k'[v] = "stop" /\ kev'[v] = "none" /\ (held'[v] <=> pendSig'[v])
               /\ k'[v] = "stop" /\ kev'[v] # "none" =>
                     (held'[v] <=> kev'[v] \in {"BENIGN", "FATAL"})
               /\ k'[v] = "zombie" => kev'[v] = "EXITED"
               /\ v \notin threads' =>
                     /\ kev'[v] \in {"none", "STOP"} /\ k'[v] # "run"
                     /\ k'[v] \in {"none", "born", "stop"} => ~pastExit'[v]
    <3>1. CASE v = t
        BY <1>b, <2>1, <2>2, <3>1 DEF StopsAccounted
    <3>2. CASE v = u
        BY <1>b, <2>1, <2>2, <2>3, <2>4, <2>6, <3>2 DEF StopsAccounted
    <3>3. CASE v # t /\ v # u
      <4>1. /\ k'[v] = k[v] /\ kev'[v] = kev[v] /\ held'[v] = held[v] /\ pastExit'[v] = pastExit[v]
            /\ ~killed
          BY <2>1, <2>6, <3>3
      <4> QED BY <1>b, <4>1 DEF StopsAccounted
    <3> QED BY <3>1, <3>2, <3>3
  <2>8. \A i \in DOMAIN deferred' :
          /\ deferred'[i].ev = "STOP" /\ k'[deferred'[i].tid] = "stop"
          /\ ~pastExit'[deferred'[i].tid] /\ ~held'[deferred'[i].tid]
    <3> SUFFICES ASSUME NEW i \in DOMAIN deferred
                 PROVE  /\ deferred[i].ev = "STOP" /\ k'[deferred[i].tid] = "stop"
                        /\ ~pastExit'[deferred[i].tid] /\ ~held'[deferred[i].tid]
        BY <1>b
    <3> DEFINE v == deferred[i].tid
    <3>1. v \in Tids /\ v # t /\ v # u
        BY <1>c, <2>5
    <3>2. k'[v] = k[v] /\ held'[v] = held[v] /\ pastExit'[v] = pastExit[v] /\ ~killed
        BY <2>1, <2>6, <3>1
    <3> QED BY <3>2 DEF StopsAccounted
  <2>9. \A v \in Tids \ threads' : ~pendSig'[v]
      BY <1>b DEF StopsAccounted
  <2> QED BY <2>7, <2>8, <2>9 DEF StopsAccounted
<1>8. CASE KernelKill
    BY <1>0, <1>8, <1>d DEF KernelKill
<1>9. ASSUME NEW t \in Tids, KernelDie(t) PROVE StopsAccounted'
  <2>1. CASE killed
      BY <1>0, <1>9, <2>1 DEF KernelDie
  <2>2. CASE ~killed
    <3>1. /\ k' = [k EXCEPT ![t] = "zombie"] /\ kev' = [kev EXCEPT ![t] = "EXITED"]
          /\ held' = [held EXCEPT ![t] = FALSE] /\ pastExit' = pastExit /\ killed' = killed
          /\ k[t] = "run"
        BY <1>9, <2>2 DEF KernelDie
    <3>2. t \in threads /\ tstate[t] = "Running" /\ \A i \in DOMAIN deferred : deferred[i].tid # t
        BY <1>a, <2>2, <3>1 DEF StopsAccounted
    <3>3. /\ k'[t] = "zombie" /\ kev'[t] = "EXITED"
          /\ \A u \in Tids : u # t => k'[u] = k[u] /\ kev'[u] = kev[u] /\ held'[u] = held[u]
        BY <1>a, <3>1
    <3>4. ASSUME NEW u \in Tids
          PROVE  /\ tstate'[u] = "Running" => ~pendSig'[u]
                 /\ u \in threads' /\ tstate'[u] = "Suspended" =>
                       k'[u] = "stop" /\ kev'[u] = "none" /\ (held'[u] <=> pendSig'[u])
                 /\ k'[u] = "stop" /\ kev'[u] # "none" =>
                       (held'[u] <=> kev'[u] \in {"BENIGN", "FATAL"})
                 /\ k'[u] = "zombie" => kev'[u] = "EXITED"
                 /\ u \notin threads' =>
                       /\ kev'[u] \in {"none", "STOP"} /\ k'[u] # "run"
                       /\ k'[u] \in {"none", "born", "stop"} => ~pastExit'[u]
      <4>1. CASE u = t
          BY <1>b, <2>2, <3>2, <3>3, <4>1 DEF StopsAccounted
      <4>2. CASE u # t
          BY <1>b, <2>2, <3>1, <3>3, <4>2 DEF StopsAccounted
      <4> QED BY <4>1, <4>2
    <3>5. \A i \in DOMAIN deferred' :
            /\ deferred'[i].ev = "STOP" /\ k'[deferred'[i].tid] = "stop"
            /\ ~pastExit'[deferred'[i].tid] /\ ~held'[deferred'[i].tid]
        BY <1>b, <1>c, <2>2, <3>1, <3>2, <3>3 DEF StopsAccounted
    <3>6. \A u \in Tids \ threads' : ~pendSig'[u]
        BY <1>b DEF StopsAccounted
    <3> QED BY <3>4, <3>5, <3>6 DEF StopsAccounted
  <2> QED BY <2>1, <2>2
<1> QED BY <1>d, <1>2, <1>3, <1>4, <1>5, <1>6, <1>7, <1>8, <1>9 DEF KernelNext

\* A thread is gone: it leaves nothing behind.
LEMMA ExitedContract ==
    ASSUME IInv, StopsAccounted, PtraceContract, NEW t \in Tids, HandleExited(t)
    PROVE  StopsAccounted' /\ PtraceContract'
<1>a. /\ Take(t, "EXITED") /\ threads' = threads \ {t} /\ kev' = KevTaken(t)
      /\ k' = [k EXCEPT ![t] = "gone"] /\ pendSig' = [pendSig EXCEPT ![t] = FALSE]
      /\ tstate' = [tstate EXCEPT ![t] = "Running"]
      /\ UNCHANGED <<held, pastExit, killed>>
    BY DEF HandleExited
<1>b. /\ k \in [Tids -> KStates] /\ kev \in [Tids -> Events \cup {"none"}]
      /\ pendSig \in [Tids -> BOOLEAN] /\ threads \subseteq Tids
      /\ tstate \in [Tids -> {"Running", "Suspended"}]
      /\ deferred \in Seq([tid : Tids, ev : Events])
    BY DEF IInv, TypeOK
<1>c. /\ \A u \in Tids : u # t => kev'[u] = kev[u]
      /\ \A i \in DOMAIN deferred' : \E j \in DOMAIN deferred : deferred'[i] = deferred[j]
    BY <1>a, TakeFacts DEF IInv
<1>d. /\ k'[t] = "gone" /\ ~pendSig'[t] /\ tstate'[t] = "Running"
      /\ \A u \in Tids : u # t => k'[u] = k[u] /\ pendSig'[u] = pendSig[u] /\ tstate'[u] = tstate[u]
    BY <1>a, <1>b
<1>1. PtraceContract'
  <2>1. faults' \subseteq faults \cup {"suspend failed"}
      BY DEF HandleExited
  <2>2. "suspend failed" \notin PtraceFaults
      BY DEF PtraceFaults
  <2> QED BY <2>1, <2>2 DEF PtraceContract
<1>2. ~killed => ~FrontReady /\ kev[t] = "EXITED"
  <2>1. ASSUME FrontReady, ~killed PROVE FALSE
    <3>1. deferred # <<>> /\ Head(deferred) = [tid |-> t, ev |-> "EXITED"]
        BY <1>a, <2>1 DEF Take, FrontReady
    <3>2. 1 \in DOMAIN deferred /\ deferred[1] = [tid |-> t, ev |-> "EXITED"]
        BY <1>b, <3>1, TailProperties
    <3> QED BY <2>1, <3>2 DEF StopsAccounted
  <2> QED BY <1>a, <2>1 DEF Take
<1>3. ~killed => kev'[t] = "none" /\ k[t] = "zombie"
    BY <1>a, <1>b, <1>2 DEF KevTaken, IInv, ThreadTableAgrees, StatusAtRest
<1>4. \A u \in Tids \ threads' : ~pendSig'[u]
    BY <1>a, <1>d DEF StopsAccounted
<1>5. ASSUME ~killed, NEW u \in Tids
      PROVE  /\ tstate'[u] = "Running" => ~pendSig'[u]
             /\ u \in threads' /\ tstate'[u] = "Suspended" =>
                   k'[u] = "stop" /\ kev'[u] = "none" /\ (held'[u] <=> pendSig'[u])
             /\ k'[u] = "stop" /\ kev'[u] # "none" => (held'[u] <=> kev'[u] \in {"BENIGN", "FATAL"})
             /\ k'[u] = "zombie" => kev'[u] = "EXITED"
             /\ u \notin threads' =>
                   /\ kev'[u] \in {"none", "STOP"} /\ k'[u] # "run"
                   /\ k'[u] \in {"none", "born", "stop"} => ~pastExit'[u]
  <2>1. CASE u = t
      BY <1>3, <1>5, <1>d, <1>a, <2>1
  <2>2. CASE u # t
      BY <1>5, <1>a, <1>c, <1>d, <2>2 DEF StopsAccounted
  <2> QED BY <2>1, <2>2
<1>6. ASSUME ~killed, NEW i \in DOMAIN deferred'
      PROVE  /\ deferred'[i].ev = "STOP" /\ k'[deferred'[i].tid] = "stop"
             /\ ~pastExit'[deferred'[i].tid] /\ ~held'[deferred'[i].tid]
  <2>1. PICK j \in DOMAIN deferred : deferred'[i] = deferred[j]
      BY <1>c
  <2> DEFINE u == deferred[j].tid
  <2>2. u \in Tids /\ deferred'[i].tid = u /\ deferred'[i].ev = deferred[j].ev
      BY <2>1, DeferredTids DEF IInv
  <2>3. deferred[j].ev = "STOP" /\ k[u] = "stop" /\ ~pastExit[u] /\ ~held[u]
      BY <1>6, <2>2 DEF StopsAccounted
  <2>4. u # t
      BY <1>3, <1>6, <2>3
  <2> QED BY <1>a, <1>d, <2>2, <2>3, <2>4
<1> QED BY <1>a, <1>1, <1>4, <1>5, <1>6 DEF StopsAccounted

\* A status is set aside: unless the process was killed, the first stop of a new thread.
LEMMA DeferContract ==
    ASSUME IInv, StopsAccounted, PtraceContract, NEW t \in Tids, DeferEvent(t)
    PROVE  StopsAccounted' /\ PtraceContract'
<1>a. /\ t \notin threads /\ kev[t] # "none"
      /\ deferred' = Append(deferred, [tid |-> t, ev |-> kev[t]])
      /\ kev' = [kev EXCEPT ![t] = "none"]
      /\ k' = [k EXCEPT ![t] = IF @ = "zombie" THEN "gone" ELSE @]
      /\ UNCHANGED <<held, pastExit, killed, threads, tstate, pendSig, faults>>
    BY DEF DeferEvent, Reapable, tvars
<1>b. /\ k \in [Tids -> KStates] /\ kev \in [Tids -> Events \cup {"none"}]
      /\ deferred \in Seq([tid : Tids, ev : Events])
    BY DEF IInv, TypeOK
<1>c. [tid |-> t, ev |-> kev[t]] \in [tid : Tids, ev : Events]
    BY <1>a, <1>b
<1>d. \A i \in DOMAIN deferred' :
          \/ i \in DOMAIN deferred /\ deferred'[i] = deferred[i]
          \/ deferred'[i].tid = t /\ deferred'[i].ev = kev[t]
    BY <1>a, <1>b, <1>c, AppendProperties
<1>e. \A i \in DOMAIN deferred : deferred[i].tid \in Tids
    BY DeferredTids DEF IInv
<1>f. \A u \in Tids : u # t => k'[u] = k[u] /\ kev'[u] = kev[u]
    BY <1>a, <1>b
<1>1. ~killed => kev[t] = "STOP" /\ k[t] = "stop" /\ ~pastExit[t] /\ ~held[t]
  <2>1. ~killed => kev[t] = "STOP"
      BY <1>a DEF StopsAccounted
  <2>2. ~killed => k[t] = "stop"
      BY <1>a, <2>1 DEF IInv, ThreadTableAgrees, StatusAtRest, StopsAccounted
  <2> QED BY <1>a, <2>1, <2>2 DEF StopsAccounted
<1>2. ~killed => k'[t] = "stop" /\ kev'[t] = "none"
    BY <1>a, <1>b, <1>1
<1>3. ASSUME ~killed, NEW u \in Tids
      PROVE  /\ tstate'[u] = "Running" => ~pendSig'[u]
             /\ u \in threads' /\ tstate'[u] = "Suspended" =>
                   k'[u] = "stop" /\ kev'[u] = "none" /\ (held'[u] <=> pendSig'[u])
             /\ k'[u] = "stop" /\ kev'[u] # "none" => (held'[u] <=> kev'[u] \in {"BENIGN", "FATAL"})
             /\ k'[u] = "zombie" => kev'[u] = "EXITED"
             /\ u \notin threads' =>
                   /\ kev'[u] \in {"none", "STOP"} /\ k'[u] # "run"
                   /\ k'[u] \in {"none", "born", "stop"} => ~pastExit'[u]
  <2>1. CASE u = t
      BY <1>1, <1>2, <1>3, <1>a, <2>1 DEF StopsAccounted
  <2>2. CASE u # t
      BY <1>3, <1>a, <1>f, <2>2 DEF StopsAccounted
  <2> QED BY <2>1, <2>2
<1>4. ASSUME ~killed, NEW i \in DOMAIN deferred'
      PROVE  /\ deferred'[i].ev = "STOP" /\ k'[deferred'[i].tid] = "stop"
             /\ ~pastExit'[deferred'[i].tid] /\ ~held'[deferred'[i].tid]
  <2>1. CASE deferred'[i].tid = t /\ deferred'[i].ev = kev[t]
      BY <1>1, <1>2, <1>4, <1>a, <2>1
  <2>2. CASE i \in DOMAIN deferred /\ deferred'[i] = deferred[i]
    <3>1. /\ deferred[i].ev = "STOP" /\ k[deferred[i].tid] = "stop"
          /\ ~pastExit[deferred[i].tid] /\ ~held[deferred[i].tid] /\ deferred[i].tid \in Tids
        BY <1>4, <1>e, <2>2 DEF StopsAccounted
    <3>2. k'[deferred[i].tid] = "stop"
        BY <1>2, <1>4, <1>f, <3>1
    <3> QED BY <1>a, <2>2, <3>1, <3>2
  <2> QED BY <1>d, <2>1, <2>2
<1>5. \A u \in Tids \ threads' : ~pendSig'[u]
    BY <1>a DEF StopsAccounted
<1> QED BY <1>a, <1>3, <1>4, <1>5 DEF StopsAccounted, PtraceContract

\* What the branches of process_events() for a stopped thread have in common.
LEMMA StopForm ==
    ASSUME IInv, NEW t \in Tids,
           \/ HandleSigstop(t) \/ HandleEventStop(t) \/ HandleExec(t) \/ HandleClone(t)
           \/ HandleExit(t) \/ HandleTrap(t) \/ HandleFatal(t) \/ HandleBenign(t)
    PROVE  \E e \in StopEvents, signalled, force \in BOOLEAN, I \in SUBSET threads,
              others \in SUBSET SuspendedIn(threads \ {t}, tstate), A \in SUBSET AssertFaults :
                /\ Take(t, e) /\ (signalled <=> e \in {"BENIGN", "FATAL"})
                /\ threads \subseteq threads' /\ threads' \subseteq Tids
                /\ FinishStop(t, signalled, force, I, others, A)
<1>a. {} \in SUBSET SuspendedIn(threads \ {t}, tstate) /\ {} \in SUBSET AssertFaults
        /\ threads \subseteq Tids /\ TRUE \in BOOLEAN /\ FALSE \in BOOLEAN /\ {} \in SUBSET threads
        /\ RunningIn(threads, [tstate EXCEPT ![t] = "Suspended"]) \in SUBSET threads
    BY DEF IInv, TypeOK, RunningIn
<1>1. CASE HandleSigstop(t)
  <2>1. Take(t, "SIGSTOP") /\ threads' = threads
      BY <1>1 DEF HandleSigstop, Take
  <2>2. PICK A \in SUBSET AssertFaults : FinishStop(t, FALSE, TRUE, {}, {}, A)
      BY <1>1 DEF HandleSigstop, AssertFaults
  <2> QED BY <1>a, <2>1, <2>2 DEF StopEvents
<1>2. CASE HandleEventStop(t)
  <2>1. /\ Take(t, "STOP") /\ threads' = threads
        /\ FinishStop(t, FALSE, FALSE, {}, {}, {})
      BY <1>2 DEF HandleEventStop, Take
  <2> QED BY <1>a, <2>1 DEF StopEvents
<1>3. CASE HandleExec(t)
  <2>1. Take(t, "EXEC") /\ threads' = threads
      BY <1>3 DEF HandleExec, Take
  <2>2. PICK A \in SUBSET AssertFaults : FinishStop(t, FALSE, FALSE, {}, {}, A)
      BY <1>3 DEF HandleExec, AssertFaults
  <2> QED BY <1>a, <2>1, <2>2 DEF StopEvents
<1>4. CASE HandleClone(t)
  <2>1. /\ Take(t, "CLONE") /\ threads' = threads \cup {kmsg[t]}
        /\ FinishStop(t, FALSE, FALSE, {}, {}, {})
      BY <1>4 DEF HandleClone, Take
  <2>2. kmsg[t] \in Tids
      BY DEF IInv, TypeOK
  <2> QED BY <1>a, <2>1, <2>2 DEF StopEvents
<1>5. CASE HandleExit(t)
  <2>1. /\ Take(t, "EXIT") /\ threads' = threads
        /\ FinishStop(t, FALSE, TRUE, {}, {}, {})
      BY <1>5 DEF HandleExit, Take
  <2> QED BY <1>a, <2>1 DEF StopEvents
<1>6. CASE HandleTrap(t)
  <2>1. PICK outcome \in {"hit", "step done", "miss"}, swLocation, relax, refresh \in BOOLEAN :
            HandleTrapAs(t, outcome, swLocation, relax, refresh)
      BY <1>6 DEF HandleTrap
  <2>2. Take(t, "TRAP") /\ threads' = threads
      BY <2>1 DEF HandleTrapAs, Take
  <2> DEFINE others == IF relax THEN {u \in SuspendedIn(threads \ {t}, tstate) : WantsRun(u)'}
                       ELSE {}
  <2>3. PICK force \in BOOLEAN, I \in SUBSET threads : FinishStop(t, FALSE, force, I, others, {})
      BY <1>a, <2>1 DEF HandleTrapAs, RunningIn
  <2>4. others \in SUBSET SuspendedIn(threads \ {t}, tstate)
      OBVIOUS
  <2> HIDE DEF others
  <2> QED BY <1>a, <2>2, <2>3, <2>4 DEF StopEvents
<1>7. CASE HandleFatal(t)
  <2>1. /\ Take(t, "FATAL") /\ threads' = threads
        /\ FinishStop(t, TRUE, FALSE,
                      RunningIn(threads, [tstate EXCEPT ![t] = "Suspended"]), {}, {})
      BY <1>7 DEF HandleFatal, Take
  <2> QED BY <1>a, <2>1 DEF StopEvents
<1>8. CASE HandleBenign(t)
  <2>1. /\ Take(t, "BENIGN") /\ threads' = threads
        /\ FinishStop(t, TRUE, TRUE, {}, {}, {})
      BY <1>8 DEF HandleBenign, Take
  <2> QED BY <1>a, <2>1 DEF StopEvents
<1> QED BY <1>1, <1>2, <1>3, <1>4, <1>5, <1>6, <1>7, <1>8

LEMMA StopsContract ==
    ASSUME IInv, StopsAccounted, PtraceContract, NEW t \in Tids,
           \/ HandleSigstop(t) \/ HandleEventStop(t) \/ HandleExec(t) \/ HandleClone(t)
           \/ HandleExit(t) \/ HandleTrap(t) \/ HandleFatal(t) \/ HandleBenign(t)
    PROVE  StopsAccounted' /\ PtraceContract'
<1>1. PICK e \in StopEvents, signalled, force \in BOOLEAN, I \in SUBSET threads,
           others \in SUBSET SuspendedIn(threads \ {t}, tstate), A \in SUBSET AssertFaults :
                /\ Take(t, e) /\ (signalled <=> e \in {"BENIGN", "FATAL"})
                /\ threads \subseteq threads' /\ threads' \subseteq Tids
                /\ FinishStop(t, signalled, force, I, others, A)
    BY StopForm
<1> DEFINE forced == force \/ exiting'[t]
           R == others \cup (IF forced \/ WantsRun(t)' THEN {t} ELSE {})
           B == A \cup (IF forced THEN {} ELSE UnwrapFault')
<1>2. Ptrace(KevTaken(t), [tstate EXCEPT ![t] = "Suspended"], [sentIntr EXCEPT ![t] = FALSE],
             [pendSig EXCEPT ![t] = @ \/ signalled], I, R, B)
    BY <1>1 DEF FinishStop
<1>3. R \in SUBSET (SuspendedIn(threads \ {t}, tstate) \cup {t})
    OBVIOUS
<1>4. B \cap PtraceFaults = {}
  <2>1. UnwrapFault' \subseteq AssertFaults
      BY DEF UnwrapFault, AssertFaults
  <2>2. B \subseteq AssertFaults
      BY <2>1
  <2> QED BY <2>2, FaultKinds
<1>5. e # "EXITED"
    BY DEF StopEvents
<1> HIDE DEF R, B
<1> QED BY <1>1, <1>2, <1>3, <1>4, <1>5, StopContract

LEMMA EsrchContract ==
    ASSUME IInv, StopsAccounted, PtraceContract, NEW t \in Tids,
           NEW e \in {"TRAP", "FATAL", "CLONE"}, HandleEsrch(t, e)
    PROVE  StopsAccounted' /\ PtraceContract'
<1>1. /\ Take(t, e) /\ threads' = threads /\ killed /\ e # "EXITED"
      /\ Ptrace(KevTaken(t), [tstate EXCEPT ![t] = "Suspended"], [sentIntr EXCEPT ![t] = FALSE],
                [pendSig EXCEPT ![t] = @ \/ e = "FATAL"], {}, {}, {})
    BY DEF HandleEsrch, Take
<1>2. /\ {} \in SUBSET (SuspendedIn(threads \ {t}, tstate) \cup {t}) /\ {} \cap PtraceFaults = {}
      /\ threads \subseteq Tids /\ (e = "FATAL") \in BOOLEAN
    BY DEF IInv, TypeOK
<1> QED BY <1>1, <1>2, StopContract

\* Faults that are no faults of PTRACE_CONT.
LEMMA OtherFaults ==
    ASSUME NEW A, A \subseteq AssertFaults \cup {"patched while running"}
    PROVE  A \cap PtraceFaults = {}
BY FaultKinds

LEMMA TryPendingContract ==
    ASSUME IInv, StopsAccounted, PtraceContract, NEW tgt, NEW ps, NEW st, NEW mayFail,
           TryPendingStep(tgt, ps, st, mayFail), UNCHANGED <<threads, deferred>>
    PROVE  StopsAccounted' /\ PtraceContract'
<1>1. PICK b, s : TryPendingStepAs(tgt, ps, st, b, s)
    BY DEF TryPendingStep
<1>2. PICK I, R, bad :
          /\ bad \subseteq {"pending step not stepping"}
          /\ R = {} \/ R = ResumeSet
          /\ PtraceNow(I, R, bad \cup WaitFault(pendingStep', b) \cup UnwrapFault'
                                \cup (IF s = "start" \/ (b = "active" /\ bp # "active")
                                      THEN ArrangeFault ELSE {}))
    BY <1>1 DEF TryPendingStepAs
<1>3. R \in SUBSET SuspendedIn(threads, tstate)
    BY <1>2 DEF ResumeSet
<1>4. /\ ArrangeFault = {} /\ WaitFault(pendingStep', b) \subseteq AssertFaults
      /\ UnwrapFault' \subseteq AssertFaults /\ bad \subseteq AssertFaults
    BY <1>2, NoArrangeFault DEF IInv, WaitFault, UnwrapFault, AssertFaults
<1> DEFINE A == bad \cup WaitFault(pendingStep', b) \cup UnwrapFault'
                   \cup (IF s = "start" \/ (b = "active" /\ bp # "active") THEN ArrangeFault ELSE {})
<1>5. A \cap PtraceFaults = {}
  <2>1. A \subseteq AssertFaults \cup {"patched while running"}
      BY <1>4
  <2> QED BY <2>1, OtherFaults
<1>6. PtraceNow(I, R, A)
    BY <1>2
<1> HIDE DEF A
<1> QED BY <1>3, <1>5, <1>6, PtraceNowContract

LEMMA TailContract ==
    ASSUME IInv, StopsAccounted, PtraceContract,
           EndLoop \/ InitialExecTail \/ HandleBreakpointsTail \/ DropCaches
    PROVE  StopsAccounted' /\ PtraceContract'
<1>1. CASE EndLoop
    BY <1>1, UntouchedContract DEF EndLoop, kvars, pvars, tvars
<1>2. CASE InitialExecTail
    BY <1>2, TryPendingContract DEF InitialExecTail
<1>3. CASE HandleBreakpointsTail
  <2>1. CASE stopBps /\ RunningIn(threads, tstate) = {}
    <3>1. PtraceNow({}, ResumeSet, PatchFault \cup UnwrapFault')
        BY <1>3, <2>1 DEF HandleBreakpointsTail
    <3>2. PatchFault \cup UnwrapFault' \subseteq AssertFaults \cup {"patched while running"}
        BY DEF PatchFault, UnwrapFault, AssertFaults
    <3>3. (PatchFault \cup UnwrapFault') \cap PtraceFaults = {}
        BY <3>2, OtherFaults
    <3>4. ResumeSet \in SUBSET SuspendedIn(threads, tstate)
        BY DEF ResumeSet
    <3>5. UNCHANGED <<threads, deferred>>
        BY <1>3 DEF HandleBreakpointsTail
    <3> QED BY <3>1, <3>3, <3>4, <3>5, PtraceNowContract
  <2>2. CASE ~(stopBps /\ RunningIn(threads, tstate) = {})
      BY <1>3, <2>2, UntouchedContract DEF HandleBreakpointsTail, kvars
  <2> QED BY <2>1, <2>2
<1>4. CASE DropCaches
  <2>1. CASE ProcessReady(target)
      BY <1>4, <2>1, TryPendingContract DEF DropCaches
  <2>2. CASE ~ProcessReady(target)
      BY <1>4, <2>2, UntouchedContract DEF DropCaches, kvars
  <2> QED BY <2>1, <2>2
<1> QED BY <1>1, <1>2, <1>3, <1>4

LEMMA UserContract ==
    ASSUME IInv, StopsAccounted, PtraceContract, UserNext
    PROVE  StopsAccounted' /\ PtraceContract'
<1>b. /\ ResumeSet \in SUBSET SuspendedIn(threads, tstate)
      /\ {} \in SUBSET SuspendedIn(threads, tstate)
      /\ ArrangeFault = {}
    BY NoArrangeFault DEF ResumeSet, IInv
<1>1. ASSUME NEW on, StartChild(on) PROVE StopsAccounted' /\ PtraceContract'
  <2>1. \A t \in Tids : t \notin threads /\ tstate[t] = "Running" /\ ~pendSig[t]
      BY <1>1 DEF IInv, ThreadTableAgrees, NoProcessNoThreads, FreshOutside, StartChild, StopsAccounted
  <2>2. /\ k' = [t \in Tids |-> IF t = Main THEN "run" ELSE "none"]
        /\ kev' = [t \in Tids |-> "none"]
        /\ pastExit' = [t \in Tids |-> FALSE]
        /\ threads' = {Main} /\ deferred' = <<>>
        /\ UNCHANGED <<tstate, pendSig, faults>>
      BY <1>1 DEF StartChild, tvars
  <2>3. DOMAIN deferred' = {}
      BY <2>2
  <2> QED BY <2>1, <2>2, <2>3 DEF StopsAccounted, PtraceContract
<1>2. CASE Resume
  <2>1. PtraceNow({}, ResumeSet, WaitFault(pendingStep', bp)) /\ UNCHANGED <<threads, deferred>>
      BY <1>2 DEF Resume, OnlyControl
  <2>2. WaitFault(pendingStep', bp) \subseteq AssertFaults \cup {"patched while running"}
      BY DEF WaitFault, AssertFaults
  <2>3. WaitFault(pendingStep', bp) \cap PtraceFaults = {}
      BY <2>2, OtherFaults
  <2> QED BY <1>b, <2>1, <2>3, PtraceNowContract
<1>3. CASE Suspend
  <2>1. PtraceNow(RunningIn(threads, tstate), {}, {}) /\ UNCHANGED <<threads, deferred>>
      BY <1>3 DEF Suspend, OnlyControl
  <2>2. {} \cap PtraceFaults = {}
      OBVIOUS
  <2> QED BY <1>b, <2>1, <2>2, PtraceNowContract
<1>4. ASSUME NEW t \in Tids, NEW keep \in BOOLEAN, NEW newLocations \in BOOLEAN,
             Step(t, keep, newLocations)
      PROVE  StopsAccounted' /\ PtraceContract'
  <2>1. PICK I, R, bad : /\ bad \subseteq {"step during step"}
                         /\ R \subseteq ResumeSet
                         /\ PtraceNow(I, R, bad \cup (IF newLocations THEN ArrangeFault ELSE {}))
      BY <1>4 DEF Step
  <2>2. bad \cup (IF newLocations THEN ArrangeFault ELSE {})
            \subseteq AssertFaults \cup {"patched while running"}
      BY <1>b, <2>1 DEF AssertFaults
  <2>3. (bad \cup (IF newLocations THEN ArrangeFault ELSE {})) \cap PtraceFaults = {}
      BY <2>2, OtherFaults
  <2>4. UNCHANGED <<threads, deferred>>
      BY <1>4 DEF Step, OnlyControl
  <2>5. R \in SUBSET SuspendedIn(threads, tstate)
      BY <1>b, <2>1
  <2> QED BY <2>1, <2>3, <2>4, <2>5, PtraceNowContract
<1>5. ASSUME NEW t \in Tids, StepToCursor(t) PROVE StopsAccounted' /\ PtraceContract'
  <2>1. PICK tgt, ps, st, mayFail : TryPendingStep(tgt, ps, st, mayFail)
      BY <1>5 DEF StepToCursor
  <2>2. UNCHANGED <<threads, deferred>>
      BY <1>5 DEF StepToCursor, OnlyControl
  <2> QED BY <2>1, <2>2, TryPendingContract
<1>6. CASE AddBreakpoint
  <2>1. CASE ProcessReady(target)
    <3>1. PICK b \in Resolve("new") : ActivateBreakpointAs(b)
        BY <1>6, <2>1 DEF AddBreakpoint, ActivateBreakpoint
    <3>2. PICK I, W : /\ W = {} \/ W = WaitFault(pendingStep, b)
                      /\ PtraceNow(I, {}, W \cup (IF b = "active" THEN ArrangeFault ELSE {}))
        BY <3>1 DEF ActivateBreakpointAs
    <3>3. W \cup (IF b = "active" THEN ArrangeFault ELSE {})
              \subseteq AssertFaults \cup {"patched while running"}
        BY <1>b, <3>2 DEF WaitFault, AssertFaults
    <3>4. (W \cup (IF b = "active" THEN ArrangeFault ELSE {})) \cap PtraceFaults = {}
        BY <3>3, OtherFaults
    <3>5. UNCHANGED <<threads, deferred>>
        BY <1>6 DEF AddBreakpoint, OnlyControl
    <3> QED BY <1>b, <3>2, <3>4, <3>5, PtraceNowContract
  <2>2. CASE ~ProcessReady(target)
      BY <1>6, <2>2, UntouchedContract DEF AddBreakpoint, OnlyControl, kvars
  <2> QED BY <2>1, <2>2
<1>7. CASE RemoveBreakpoint
    BY <1>7, UntouchedContract DEF RemoveBreakpoint, kvars, pvars, tvars
<1>8. CASE Murder
    BY <1>8, UntouchedContract DEF Murder, pvars, tvars
<1> QED BY <1>1, <1>2, <1>3, <1>4, <1>5, <1>6, <1>7, <1>8 DEF UserNext

LEMMA NextContract ==
    IInv /\ StopsAccounted /\ PtraceContract /\ [Next]_vars => StopsAccounted' /\ PtraceContract'
<1> SUFFICES ASSUME IInv, StopsAccounted, PtraceContract, [Next]_vars
             PROVE  StopsAccounted' /\ PtraceContract'
    OBVIOUS
<1>1. ASSUME NEW t \in Tids, HandleEvent(t) PROVE StopsAccounted' /\ PtraceContract'
    BY <1>1, ExitedContract, StopsContract, EsrchContract, DeferContract DEF HandleEvent
<1>2. CASE DebuggerNext
    BY <1>1, <1>2, TailContract DEF DebuggerNext
<1>3. ASSUME NEW done, SymbolsEvent(done) PROVE StopsAccounted' /\ PtraceContract'
    BY <1>3, UntouchedContract DEF SymbolsEvent, kvars, pvars, tvars
<1>4. CASE UNCHANGED vars
    BY <1>4, UntouchedContract DEF vars, kvars, pvars, tvars
<1> QED BY <1>2, <1>3, <1>4, KernelContract, UserContract DEF Next

\* Every PTRACE_CONT goes to a stopped thread whose status was reaped, and injects a
\* signal exactly if one was intercepted, for any number of threads and in any order
\* of stops, clones, signals and exits.
THEOREM RequestsCorrect == Spec => []PtraceContract
<1>1. Init => StopsAccounted /\ PtraceContract
  <2> SUFFICES ASSUME Init PROVE StopsAccounted /\ PtraceContract
      OBVIOUS
  <2>1. DOMAIN deferred = {}
      BY DEF Init
  <2> QED BY <2>1 DEF Init, StopsAccounted, PtraceContract
<1> QED BY <1>1, InitKeeps, NextKeeps, NextContract, PTL DEF Spec

(***************************************************************************)
(* The assertions of the control code, first half: how a process starts.   *)
(* Until its initial exec is reported the main thread is the only one, and *)
(* its statuses come in the order SIGSTOP, exec.                           *)
(***************************************************************************)
StartupInOrder ==
    /\ k[Main] # "born"
    /\ k[Main] = "none" => \A u \in Tids : k[u] = "none"
    /\ Main \notin threads => k[Main] \in {"none", "gone"}
    /\ \A i \in DOMAIN deferred : deferred[i].tid # Main
    /\ boot # "up" => \A u \in Tids : u # Main => k[u] = "none" /\ u \notin threads
    /\ \A t \in Tids \ threads : waitInit[t]
    /\ \A t \in Tids :
          /\ kev[t] \in LiveEvents => boot = "up"
          /\ kev[t] = "SIGSTOP" => t = Main /\ waitInit[t] /\ target = "Starting" /\ boot = "exec"
          /\ kev[t] = "EXEC" => ~waitSigstop
    /\ boot = "sigstop" =>
          /\ k[Main] # "stop"
          /\ k[Main] = "run" => target = "Starting" /\ waitInit[Main] /\ ~pastExit[Main]
    /\ waitSigstop /\ boot # "sigstop" /\ k[Main] \in {"run", "stop"} /\ ~pastExit[Main] =>
          k[Main] = "stop" /\ kev[Main] = "SIGSTOP" /\ tstate[Main] = "Running"

LEMMA UntouchedStartup ==
    ASSUME StartupInOrder,
           UNCHANGED <<k, kev, pastExit, boot, threads, deferred, waitInit, waitSigstop, tstate>>,
           target = "Starting" => target' = "Starting"
    PROVE  StartupInOrder'
BY DEF StartupInOrder

LEMMA PtraceNowStartup ==
    ASSUME IInv, StartupInOrder, NEW I, NEW R \in SUBSET SuspendedIn(threads, tstate), NEW A,
           PtraceNow(I, R, A), UNCHANGED <<threads, deferred, waitInit, waitSigstop>>,
           target = "Starting" => target' = "Starting"
    PROVE  StartupInOrder'
<1>a. Main \in Tids
    BY TidsAssumption
<1>b. /\ \A u \in Tids : k'[u] = k[u] \/ (u \in R /\ k[u] = "stop" /\ k'[u] = "run")
      /\ \A u \in Tids : kev'[u] = kev[u] \/ (u \in R /\ kev'[u] = "none")
      /\ \A u \in Tids : u \notin R => tstate'[u] = tstate[u]
      /\ UNCHANGED <<pastExit, boot>>
    BY DEF PtraceNow, Ptrace
<1>c. \A u \in R : u \in threads /\ tstate[u] = "Suspended"
    BY DEF SuspendedIn
<1>1. /\ k'[Main] # "born"
      /\ k'[Main] = "none" => \A u \in Tids : k'[u] = "none"
      /\ Main \notin threads' => k'[Main] \in {"none", "gone"}
      /\ \A i \in DOMAIN deferred' : deferred'[i].tid # Main
      /\ boot' # "up" => \A u \in Tids : u # Main => k'[u] = "none" /\ u \notin threads'
      /\ \A t \in Tids \ threads' : waitInit'[t]
    BY <1>a, <1>b, <1>c DEF StartupInOrder
<1>2. \A t \in Tids :
          /\ kev'[t] \in LiveEvents => boot' = "up"
          /\ kev'[t] = "SIGSTOP" => t = Main /\ waitInit'[t] /\ target' = "Starting" /\ boot' = "exec"
          /\ kev'[t] = "EXEC" => ~waitSigstop'
    BY <1>b DEF StartupInOrder, LiveEvents
<1>3. boot' = "sigstop" =>
          /\ k'[Main] # "stop"
          /\ k'[Main] = "run" => target' = "Starting" /\ waitInit'[Main] /\ ~pastExit'[Main]
    BY <1>a, <1>b DEF StartupInOrder
<1>4. waitSigstop' /\ boot' # "sigstop" /\ k'[Main] \in {"run", "stop"} /\ ~pastExit'[Main] =>
          k'[Main] = "stop" /\ kev'[Main] = "SIGSTOP" /\ tstate'[Main] = "Running"
    BY <1>a, <1>b, <1>c DEF StartupInOrder
<1> QED BY <1>1, <1>2, <1>3, <1>4 DEF StartupInOrder

\* Before the initial exec is reported, a status can only be that of the main thread.
LEMMA StartupTake ==
    ASSUME IInv, StartupInOrder, NEW t \in Tids, NEW e, Take(t, e), boot # "up"
    PROVE  /\ t = Main /\ kev[t] = e /\ KevTaken(t) = [kev EXCEPT ![t] = "none"]
           /\ k[t] \in {"stop", "zombie"}
<1>1. t = Main
    BY DEF Take, StartupInOrder
<1>2. ~FrontReady
  <2> SUFFICES ASSUME FrontReady PROVE FALSE
      OBVIOUS
  <2>1. deferred # <<>> /\ Head(deferred) = [tid |-> t, ev |-> e]
      BY DEF Take, FrontReady
  <2>2. deferred \in Seq([tid : Tids, ev : Events])
      BY DEF IInv, TypeOK
  <2>3. 1 \in DOMAIN deferred /\ deferred[1].tid = t
      BY <2>1, <2>2, TailProperties
  <2> QED BY <1>1, <2>3 DEF StartupInOrder
<1>3. kev[t] = e /\ kev[t] # "none"
    BY <1>2 DEF Take, Reapable
<1> QED BY <1>1, <1>2, <1>3 DEF KevTaken, IInv, ThreadTableAgrees, StatusAtRest

\* A stop is handled.
LEMMA StopStartup ==
    ASSUME IInv, StartupInOrder, NEW t \in Tids, NEW e, Take(t, e), e # "EXITED",
           threads \subseteq threads', e # "CLONE" => threads' = threads,
           waitInit' = waitInit \/ waitInit' = [waitInit EXCEPT ![t] = FALSE],
           waitSigstop' => waitSigstop, e = "SIGSTOP" => ~waitSigstop',
           NEW ts, NEW si, NEW ps, NEW I, NEW A, NEW R \in SUBSET threads,
           \A u \in Tids : u # t => ts[u] = tstate[u],
           Ptrace(KevTaken(t), ts, si, ps, I, R, A)
    PROVE  StartupInOrder'
<1>a. Main \in Tids /\ kev \in [Tids -> Events \cup {"none"}] /\ waitInit \in [Tids -> BOOLEAN]
    BY TidsAssumption DEF IInv, TypeOK
<1>b. /\ \A u \in Tids : k'[u] = k[u] \/ (u \in R /\ k[u] = "stop" /\ k'[u] = "run")
      /\ \A u \in Tids : kev'[u] = KevTaken(t)[u] \/ kev'[u] = "none"
      /\ UNCHANGED <<pastExit, boot>>
    BY DEF Ptrace
<1>c. /\ t \in threads
      /\ \A u \in Tids : kev'[u] = kev[u] \/ kev'[u] = "none"
      /\ \A i \in DOMAIN deferred' : \E j \in DOMAIN deferred : deferred'[i] = deferred[j]
    BY <1>b, TakeFacts DEF IInv
<1>d. boot # "up" => t = Main /\ kev[t] = e /\ kev'[t] = "none" /\ k[t] \in {"stop", "zombie"}
    BY <1>a, <1>b, StartupTake
<1>e. boot # "up" => threads' = threads
    BY <1>d DEF StartupInOrder, LiveEvents
<1>f. \A u \in Tids : u # t => waitInit'[u] = waitInit[u]
    BY <1>a
<1>1. /\ k'[Main] # "born"
      /\ k'[Main] = "none" => \A u \in Tids : k'[u] = "none"
      /\ Main \notin threads' => k'[Main] \in {"none", "gone"}
    BY <1>a, <1>b DEF StartupInOrder
<1>2. \A i \in DOMAIN deferred' : deferred'[i].tid # Main
    BY <1>c DEF StartupInOrder
<1>3. boot' # "up" => \A u \in Tids : u # Main => k'[u] = "none" /\ u \notin threads'
    BY <1>b, <1>e DEF StartupInOrder
<1>4. \A u \in Tids \ threads' : waitInit'[u]
    BY <1>c, <1>f DEF StartupInOrder
<1>5. \A u \in Tids :
          /\ kev'[u] \in LiveEvents => boot' = "up"
          /\ kev'[u] # "SIGSTOP"
          /\ kev'[u] = "EXEC" => ~waitSigstop'
    BY <1>b, <1>c, <1>d DEF StartupInOrder, LiveEvents
<1>6. boot' = "sigstop" => k'[Main] # "stop" /\ k'[Main] # "run"
    BY <1>a, <1>b, <1>d DEF StartupInOrder
<1>7. ~(waitSigstop' /\ boot' # "sigstop" /\ k'[Main] \in {"run", "stop"} /\ ~pastExit'[Main])
    BY <1>a, <1>b, <1>d DEF StartupInOrder
<1> QED BY <1>1, <1>2, <1>3, <1>4, <1>5, <1>6, <1>7 DEF StartupInOrder

LEMMA FinishStopStartup ==
    ASSUME IInv, StartupInOrder, NEW t \in Tids, NEW e, Take(t, e), e # "EXITED",
           threads \subseteq threads', e # "CLONE" => threads' = threads,
           waitInit' = waitInit \/ waitInit' = [waitInit EXCEPT ![t] = FALSE],
           waitSigstop' => waitSigstop, e = "SIGSTOP" => ~waitSigstop',
           NEW signalled, NEW force, NEW I, NEW others \in SUBSET threads, NEW A,
           FinishStop(t, signalled, force, I, others, A)
    PROVE  StartupInOrder'
<1> DEFINE forced == force \/ exiting'[t]
           R == others \cup (IF forced \/ WantsRun(t)' THEN {t} ELSE {})
           B == A \cup (IF forced THEN {} ELSE UnwrapFault')
           ts == [tstate EXCEPT ![t] = "Suspended"]
           si == [sentIntr EXCEPT ![t] = FALSE]
           ps == [pendSig EXCEPT ![t] = @ \/ signalled]
<1>1. Ptrace(KevTaken(t), ts, si, ps, I, R, B)
    BY DEF FinishStop
<1>2. R \in SUBSET threads
    BY DEF Take
<1>3. \A u \in Tids : u # t => ts[u] = tstate[u]
    BY DEF IInv, TypeOK
<1> HIDE DEF R, B, ts, si, ps
<1> QED BY <1>1, <1>2, <1>3, StopStartup

LEMMA StopsStartup ==
    ASSUME IInv, StartupInOrder, NEW t \in Tids,
           \/ HandleSigstop(t) \/ HandleEventStop(t) \/ HandleExec(t) \/ HandleClone(t)
           \/ HandleExit(t) \/ HandleTrap(t) \/ HandleFatal(t) \/ HandleBenign(t)
           \/ \E e \in {"TRAP", "FATAL", "CLONE"} : HandleEsrch(t, e)
    PROVE  StartupInOrder'
<1>a. {} \in SUBSET threads
    OBVIOUS
<1>1. CASE HandleSigstop(t)
    BY <1>a, <1>1, FinishStopStartup DEF HandleSigstop
<1>2. CASE HandleEventStop(t)
    BY <1>a, <1>2, FinishStopStartup DEF HandleEventStop
<1>3. CASE HandleExec(t)
    BY <1>a, <1>3, FinishStopStartup DEF HandleExec
<1>4. CASE HandleClone(t)
    BY <1>a, <1>4, FinishStopStartup DEF HandleClone
<1>5. CASE HandleExit(t)
    BY <1>a, <1>5, FinishStopStartup DEF HandleExit
<1>6. CASE HandleTrap(t)
  <2>1. PICK outcome \in {"hit", "step done", "miss"}, swLocation, relax, refresh \in BOOLEAN :
            HandleTrapAs(t, outcome, swLocation, relax, refresh)
      BY <1>6 DEF HandleTrap
  <2>2. /\ Take(t, "TRAP") /\ threads' = threads /\ waitInit' = waitInit /\ waitSigstop' = waitSigstop
      BY <2>1 DEF HandleTrapAs
  <2> DEFINE others == IF relax THEN {u \in SuspendedIn(threads \ {t}, tstate) : WantsRun(u)'}
                       ELSE {}
  <2>3. PICK force, I : FinishStop(t, FALSE, force, I, others, {})
      BY <2>1 DEF HandleTrapAs
  <2>4. others \in SUBSET threads
      BY DEF SuspendedIn
  <2> HIDE DEF others
  <2> QED BY <2>2, <2>3, <2>4, FinishStopStartup
<1>7. CASE HandleFatal(t)
    BY <1>a, <1>7, FinishStopStartup DEF HandleFatal
<1>8. CASE HandleBenign(t)
    BY <1>a, <1>8, FinishStopStartup DEF HandleBenign
<1>9. ASSUME NEW e \in {"TRAP", "FATAL", "CLONE"}, HandleEsrch(t, e) PROVE StartupInOrder'
  <2> DEFINE ts == [tstate EXCEPT ![t] = "Suspended"]
  <2>1. \A u \in Tids : u # t => ts[u] = tstate[u]
      BY DEF IInv, TypeOK
  <2>2. \E si, ps : Ptrace(KevTaken(t), ts, si, ps, {}, {}, {})
      BY <1>9 DEF HandleEsrch
  <2>3. /\ Take(t, e) /\ threads' = threads /\ waitInit' = waitInit /\ waitSigstop' = waitSigstop
        /\ e # "EXITED" /\ e # "SIGSTOP"
      BY <1>9 DEF HandleEsrch
  <2> HIDE DEF ts
  <2> QED BY <1>a, <2>1, <2>2, <2>3, StopStartup
<1> QED BY <1>1, <1>2, <1>3, <1>4, <1>5, <1>6, <1>7, <1>8, <1>9

LEMMA ExitedStartup ==
    ASSUME IInv, StartupInOrder, NEW t \in Tids, HandleExited(t)
    PROVE  StartupInOrder'
<1>a. /\ Main \in Tids /\ kev \in [Tids -> Events \cup {"none"}] /\ waitInit \in [Tids -> BOOLEAN]
      /\ k \in [Tids -> KStates] /\ tstate \in [Tids -> {"Running", "Suspended"}]
    BY TidsAssumption DEF IInv, TypeOK
<1>b. /\ Take(t, "EXITED") /\ threads' = threads \ {t} /\ kev' = KevTaken(t)
      /\ k' = [k EXCEPT ![t] = "gone"]
      /\ waitInit' = [waitInit EXCEPT ![t] = TRUE]
      /\ tstate' = [tstate EXCEPT ![t] = "Running"]
      /\ UNCHANGED <<pastExit, boot, waitSigstop>>
    BY DEF HandleExited
<1>c. /\ \A u \in Tids : kev'[u] = kev[u] \/ kev'[u] = "none"
      /\ \A i \in DOMAIN deferred' : \E j \in DOMAIN deferred : deferred'[i] = deferred[j]
      /\ \A u \in Tids : u # t => k'[u] = k[u] /\ waitInit'[u] = waitInit[u] /\ tstate'[u] = tstate[u]
      /\ k'[t] = "gone" /\ waitInit'[t]
    BY <1>a, <1>b, TakeFacts DEF IInv
<1>d. boot # "up" => t = Main /\ kev[t] = "EXITED" /\ kev'[t] = "none"
    BY <1>a, <1>b, StartupTake
<1>e. k[t] # "none"
  <2>1. CASE FrontReady
    <3>1. deferred # <<>> /\ Head(deferred) = [tid |-> t, ev |-> "EXITED"]
        BY <1>b, <2>1 DEF Take, FrontReady
    <3>2. deferred \in Seq([tid : Tids, ev : Events])
        BY DEF IInv, TypeOK
    <3>3. 1 \in DOMAIN deferred /\ deferred[1] = [tid |-> t, ev |-> "EXITED"]
        BY <3>1, <3>2, TailProperties
    <3>4. k[t] = "gone"
        BY <3>3 DEF IInv, ThreadTableAgrees, DeferredAtRest
    <3> QED BY <3>4
  <2>2. CASE ~FrontReady
      BY <1>b, <2>2 DEF Take, Reapable, IInv, ThreadTableAgrees, StatusAtRest
  <2> QED BY <2>1, <2>2
<1>1. /\ k'[Main] # "born"
      /\ k'[Main] = "none" => \A u \in Tids : k'[u] = "none"
      /\ Main \notin threads' => k'[Main] \in {"none", "gone"}
      /\ \A i \in DOMAIN deferred' : deferred'[i].tid # Main
    BY <1>a, <1>b, <1>c, <1>e DEF StartupInOrder
<1>2. /\ boot' # "up" => \A u \in Tids : u # Main => k'[u] = "none" /\ u \notin threads'
      /\ \A u \in Tids \ threads' : waitInit'[u]
    BY <1>b, <1>c, <1>d DEF StartupInOrder
<1>3. \A u \in Tids :
          /\ kev'[u] \in LiveEvents => boot' = "up"
          /\ kev'[u] # "SIGSTOP"
          /\ kev'[u] = "EXEC" => ~waitSigstop'
    BY <1>b, <1>c, <1>d DEF StartupInOrder, LiveEvents
<1>4. boot' # "up" => k'[Main] = "gone"
    BY <1>b, <1>c, <1>d
<1>5. ~(waitSigstop' /\ boot' # "sigstop" /\ k'[Main] \in {"run", "stop"} /\ ~pastExit'[Main])
    BY <1>a, <1>b, <1>c, <1>d, <1>4 DEF StartupInOrder
<1> QED BY <1>1, <1>2, <1>3, <1>4, <1>5 DEF StartupInOrder

LEMMA DeferStartup ==
    ASSUME IInv, StartupInOrder, NEW t \in Tids, DeferEvent(t)
    PROVE  StartupInOrder'
<1>a. /\ Main \in Tids /\ kev \in [Tids -> Events \cup {"none"}] /\ k \in [Tids -> KStates]
      /\ deferred \in Seq([tid : Tids, ev : Events])
    BY TidsAssumption DEF IInv, TypeOK
<1>b. /\ t \notin threads /\ kev[t] # "none"
      /\ deferred' = Append(deferred, [tid |-> t, ev |-> kev[t]])
      /\ kev' = [kev EXCEPT ![t] = "none"]
      /\ k' = [k EXCEPT ![t] = IF @ = "zombie" THEN "gone" ELSE @]
      /\ UNCHANGED <<pastExit, boot, threads, target, waitSigstop, tstate, waitInit>>
    BY DEF DeferEvent, Reapable, tvars
<1>c. k[t] \in {"stop", "zombie"}
    BY <1>b DEF IInv, ThreadTableAgrees, StatusAtRest
<1>d. t # Main /\ boot = "up" /\ k[Main] # "none"
    BY <1>a, <1>b, <1>c DEF StartupInOrder
<1>e. /\ \A u \in Tids : u # t => k'[u] = k[u] /\ kev'[u] = kev[u]
      /\ kev'[t] = "none"
    BY <1>a, <1>b
<1>f. [tid |-> t, ev |-> kev[t]] \in [tid : Tids, ev : Events]
    BY <1>a, <1>b
<1>g. \A i \in DOMAIN deferred' :
          \/ i \in DOMAIN deferred /\ deferred'[i] = deferred[i]
          \/ deferred'[i].tid = t
    BY <1>a, <1>b, <1>f, AppendProperties
<1> QED BY <1>a, <1>b, <1>d, <1>e, <1>g DEF StartupInOrder, LiveEvents

LEMMA KernelStartup ==
    ASSUME IInv, StartupInOrder, KernelNext
    PROVE  StartupInOrder'
<1>a. /\ Main \in Tids /\ kev \in [Tids -> Events \cup {"none"}] /\ k \in [Tids -> KStates]
      /\ pastExit \in [Tids -> BOOLEAN]
    BY TidsAssumption DEF IInv, TypeOK
<1>b. UNCHANGED <<threads, deferred, target, waitSigstop, tstate, waitInit>>
    BY DEF KernelNext, KernelTrapStop, KernelSignal, KernelClone, KernelSigstop, KernelExec,
           KernelExitStop, KernelKill, KernelDie, pvars, tvars
<1>c. UserRunning(Main) => tstate[Main] = "Running" /\ ~pastExit[Main] /\ k[Main] = "run"
    BY <1>a DEF IInv, ThreadTableAgrees, RunnersKnown, UserRunning
\* a thread of a process that is up stops, exits or dies
<1> DEFINE Leaves(t, s, e) ==
             /\ k' = [k EXCEPT ![t] = s] /\ kev' = [kev EXCEPT ![t] = e]
             /\ k[t] \in {"born", "run", "stop"} /\ e \notin {"SIGSTOP", "EXEC"}
             /\ boot' = boot /\ (e \in LiveEvents => boot = "up")
             /\ \/ s = "zombie" /\ pastExit' = pastExit
                \/ pastExit' = [pastExit EXCEPT ![t] = TRUE] /\ boot # "sigstop"
                \/ pastExit' = pastExit /\ boot = "up" /\ (UserRunning(t) \/ k[t] = "born")
                \/ pastExit' = pastExit /\ boot # "up" /\ k[t] = "born"
<1>1. ASSUME NEW t \in Tids, NEW s \in {"stop", "zombie"}, NEW e, Leaves(t, s, e)
      PROVE  StartupInOrder'
  <2>1. /\ k'[t] = s /\ kev'[t] = e
        /\ \A u \in Tids : u # t => k'[u] = k[u] /\ kev'[u] = kev[u] /\ pastExit'[u] = pastExit[u]
      BY <1>1, <1>a
  <2>2. k[t] # "none" /\ (boot # "up" => t = Main) /\ ~(boot # "up" /\ k[t] = "born")
      BY <1>1 DEF StartupInOrder
  <2>3. /\ k'[Main] # "born"
        /\ k'[Main] = "none" => \A u \in Tids : k'[u] = "none"
        /\ Main \notin threads' => k'[Main] \in {"none", "gone"}
        /\ boot' # "up" => \A u \in Tids : u # Main => k'[u] = "none" /\ u \notin threads'
      BY <1>1, <1>a, <1>b, <2>1, <2>2 DEF StartupInOrder
  <2>4. /\ \A i \in DOMAIN deferred' : deferred'[i].tid # Main
        /\ \A u \in Tids \ threads' : waitInit'[u]
      BY <1>b DEF StartupInOrder
  <2>5. \A u \in Tids :
          /\ kev'[u] \in LiveEvents => boot' = "up"
          /\ kev'[u] = "SIGSTOP" => u = Main /\ waitInit'[u] /\ target' = "Starting" /\ boot' = "exec"
          /\ kev'[u] = "EXEC" => ~waitSigstop'
      BY <1>1, <1>b, <2>1 DEF StartupInOrder
  <2>6. boot' = "sigstop" =>
          /\ k'[Main] # "stop"
          /\ k'[Main] = "run" => target' = "Starting" /\ waitInit'[Main] /\ ~pastExit'[Main]
      BY <1>1, <1>a, <1>b, <2>1, <2>2 DEF StartupInOrder
  <2>7. waitSigstop' /\ boot' # "sigstop" /\ k'[Main] \in {"run", "stop"} /\ ~pastExit'[Main] =>
          k'[Main] = "stop" /\ kev'[Main] = "SIGSTOP" /\ tstate'[Main] = "Running"
    <3>1. CASE t # Main
        BY <1>1, <1>a, <1>b, <2>1, <3>1 DEF StartupInOrder
    <3>2. CASE t = Main
      <4>1. CASE s = "zombie"
          BY <2>1, <3>2, <4>1
      <4>2. CASE pastExit' = [pastExit EXCEPT ![t] = TRUE]
          BY <1>a, <3>2, <4>2
      <4>3. CASE boot = "up" /\ (UserRunning(t) \/ k[t] = "born")
          BY <1>c, <3>2, <4>3, <1>b DEF StartupInOrder
      <4> QED BY <1>1, <2>2, <4>1, <4>2, <4>3
    <3> QED BY <3>1, <3>2
  <2> QED BY <2>3, <2>4, <2>5, <2>6, <2>7 DEF StartupInOrder
<1> HIDE DEF Leaves
<1>2. ASSUME NEW t \in Tids, KernelTrapStop(t) PROVE StartupInOrder'
  <2>1. /\ k' = [k EXCEPT ![t] = "stop"] /\ kev' = [kev EXCEPT ![t] = "STOP"]
        /\ pastExit' = pastExit /\ boot' = boot
        /\ k[t] = "born" \/ (UserRunning(t) /\ boot = "up")
      BY <1>2 DEF KernelTrapStop, KStop
  <2>2. k[t] \in {"born", "run", "stop"} /\ "STOP" \notin LiveEvents
      BY <2>1 DEF UserRunning, LiveEvents
  <2>3. \/ boot = "up" /\ (UserRunning(t) \/ k[t] = "born")
        \/ boot # "up" /\ k[t] = "born"
      BY <2>1
  <2>4. Leaves(t, "stop", "STOP")
      BY <2>1, <2>2, <2>3 DEF Leaves
  <2> QED BY <1>1, <2>4
<1>3. ASSUME NEW t \in Tids, NEW e \in {"TRAP", "BENIGN", "FATAL"}, KernelSignal(t, e)
      PROVE  StartupInOrder'
  <2>1. /\ k' = [k EXCEPT ![t] = "stop"] /\ kev' = [kev EXCEPT ![t] = e]
        /\ pastExit' = pastExit /\ boot' = boot /\ UserRunning(t) /\ boot = "up"
      BY <1>3 DEF KernelSignal, KStop
  <2>2. k[t] \in {"born", "run", "stop"}
      BY <2>1 DEF UserRunning
  <2>3. Leaves(t, "stop", e)
      BY <2>1, <2>2 DEF Leaves
  <2> QED BY <1>1, <2>3
<1>4. CASE KernelSigstop
  <2>1. /\ k' = [k EXCEPT ![Main] = "stop"] /\ kev' = [kev EXCEPT ![Main] = "SIGSTOP"]
        /\ pastExit' = pastExit /\ boot' = "exec" /\ boot = "sigstop" /\ UserRunning(Main)
      BY <1>4 DEF KernelSigstop, KStop
  <2>2. /\ k'[Main] = "stop" /\ kev'[Main] = "SIGSTOP" /\ k[Main] = "run" /\ tstate[Main] = "Running"
        /\ \A u \in Tids : u # Main => k'[u] = k[u] /\ kev'[u] = kev[u]
      BY <1>a, <1>c, <2>1
  <2>3. \A u \in Tids :
          /\ kev'[u] \in LiveEvents => boot' = "up"
          /\ kev'[u] = "SIGSTOP" => u = Main /\ waitInit'[u] /\ target' = "Starting" /\ boot' = "exec"
          /\ kev'[u] = "EXEC" => ~waitSigstop'
      BY <1>b, <2>1, <2>2 DEF StartupInOrder, LiveEvents
  <2> QED BY <1>a, <1>b, <2>1, <2>2, <2>3 DEF StartupInOrder
<1>5. CASE KernelExec
  <2>1. /\ k' = [k EXCEPT ![Main] = "stop"] /\ kev' = [kev EXCEPT ![Main] = "EXEC"]
        /\ pastExit' = pastExit /\ boot' = "up" /\ boot # "sigstop" /\ UserRunning(Main)
      BY <1>5 DEF KernelExec, KStop
  <2>2. /\ k'[Main] = "stop" /\ kev'[Main] = "EXEC" /\ k[Main] = "run" /\ ~pastExit[Main]
        /\ \A u \in Tids : u # Main => k'[u] = k[u] /\ kev'[u] = kev[u]
      BY <1>a, <1>c, <2>1
  <2>3. ~waitSigstop
      BY <2>1, <2>2 DEF StartupInOrder
  <2>4. \A u \in Tids :
          /\ kev'[u] \in LiveEvents => boot' = "up"
          /\ kev'[u] # "SIGSTOP"
          /\ kev'[u] = "EXEC" => ~waitSigstop'
      BY <1>b, <2>1, <2>2, <2>3 DEF StartupInOrder, LiveEvents
  <2> QED BY <1>a, <1>b, <2>1, <2>2, <2>3, <2>4 DEF StartupInOrder
<1>6. ASSUME NEW t \in Tids, KernelExitStop(t) PROVE StartupInOrder'
  <2>1. /\ k' = [k EXCEPT ![t] = "stop"] /\ kev' = [kev EXCEPT ![t] = "EXIT"]
        /\ pastExit' = [pastExit EXCEPT ![t] = TRUE] /\ boot' = boot /\ boot # "sigstop"
      BY <1>6 DEF KernelExitStop, KStop
  <2>2. k[t] \in {"born", "run", "stop"} /\ "EXIT" \notin LiveEvents
      BY <1>6 DEF KernelExitStop, UserRunning, Alive, LiveEvents
  <2>3. Leaves(t, "stop", "EXIT")
      BY <2>1, <2>2 DEF Leaves
  <2> QED BY <1>1, <2>3
<1>7. ASSUME NEW t \in Tids, NEW u \in Tids, KernelClone(t, u) PROVE StartupInOrder'
  <2>1. /\ k' = [k EXCEPT ![t] = "stop", ![u] = "born"] /\ kev' = [kev EXCEPT ![t] = "CLONE"]
        /\ pastExit' = pastExit /\ boot' = boot /\ boot = "up"
        /\ UserRunning(t) /\ k[t] = "run" /\ k[u] = "none" /\ t # u
      BY <1>7 DEF KernelClone, UserRunning
  <2>2. u # Main
      BY <2>1 DEF StartupInOrder
  <2>3. /\ k'[t] = "stop" /\ kev'[t] = "CLONE" /\ k'[u] = "born"
        /\ \A v \in Tids : v # t => kev'[v] = kev[v] /\ (v # u => k'[v] = k[v])
      BY <1>a, <2>1
  <2>4. t = Main => ~waitSigstop
      BY <1>c, <2>1 DEF StartupInOrder
  <2>5. \A v \in Tids :
          /\ kev'[v] \in LiveEvents => boot' = "up"
          /\ kev'[v] # "SIGSTOP"
          /\ kev'[v] = "EXEC" => ~waitSigstop'
      BY <1>b, <2>1, <2>3 DEF StartupInOrder
  <2>6. /\ k'[Main] # "born" /\ k'[Main] # "none"
        /\ Main \notin threads' => k'[Main] \in {"none", "gone"}
    <3>1. CASE t = Main
        BY <1>a, <1>b, <2>1, <2>3, <3>1 DEF StartupInOrder
    <3>2. CASE t # Main
        BY <1>a, <1>b, <2>1, <2>2, <2>3, <3>2 DEF StartupInOrder
    <3> QED BY <3>1, <3>2
  <2>7. ~(waitSigstop' /\ boot' # "sigstop" /\ k'[Main] \in {"run", "stop"} /\ ~pastExit'[Main])
    <3>1. CASE t = Main
        BY <1>b, <2>4, <3>1
    <3>2. CASE t # Main
        BY <1>a, <1>b, <2>1, <2>2, <2>3, <3>2 DEF StartupInOrder
    <3> QED BY <3>1, <3>2
  <2> QED BY <1>b, <2>1, <2>5, <2>6, <2>7 DEF StartupInOrder
<1>8. CASE KernelKill
    BY <1>8, <1>b, UntouchedStartup DEF KernelKill
<1>9. ASSUME NEW t \in Tids, KernelDie(t) PROVE StartupInOrder'
  <2>1. /\ k' = [k EXCEPT ![t] = "zombie"] /\ kev' = [kev EXCEPT ![t] = "EXITED"]
        /\ pastExit' = pastExit /\ boot' = boot
      BY <1>9 DEF KernelDie
  <2>2. k[t] \in {"born", "run", "stop"} /\ "EXITED" \notin LiveEvents
      BY <1>9 DEF KernelDie, Alive, LiveEvents
  <2>3. Leaves(t, "zombie", "EXITED")
      BY <2>1, <2>2 DEF Leaves
  <2> QED BY <1>1, <2>3
<1> QED BY <1>2, <1>3, <1>4, <1>5, <1>6, <1>7, <1>8, <1>9 DEF KernelNext

LEMMA StartChildStartup ==
    ASSUME IInv, StartupInOrder, NEW on, StartChild(on)
    PROVE  StartupInOrder'
<1>1. \A t \in Tids : waitInit[t]
    BY DEF IInv, ThreadTableAgrees, NoProcessNoThreads, StartChild, StartupInOrder
<1>2. /\ k' = [t \in Tids |-> IF t = Main THEN "run" ELSE "none"]
      /\ kev' = [t \in Tids |-> "none"] /\ pastExit' = [t \in Tids |-> FALSE]
      /\ target' = "Starting" /\ threads' = {Main} /\ deferred' = <<>> /\ boot' = "sigstop"
      /\ waitInit' = waitInit
    BY DEF StartChild, tvars
<1>3. DOMAIN deferred' = {} /\ Main \in Tids
    BY <1>2, TidsAssumption
<1> QED BY <1>1, <1>2, <1>3 DEF StartupInOrder, LiveEvents

LEMMA TryPendingStartup ==
    ASSUME IInv, StartupInOrder, NEW tgt, NEW ps, NEW st, NEW mayFail, ProcessReady(target),
           TryPendingStep(tgt, ps, st, mayFail), UNCHANGED <<threads, deferred, waitInit, waitSigstop>>
    PROVE  StartupInOrder'
<1>1. PICK b, s : TryPendingStepAs(tgt, ps, st, b, s)
    BY DEF TryPendingStep
<1>2. PICK I, R, A : (R = {} \/ R = ResumeSet) /\ PtraceNow(I, R, A)
    BY <1>1 DEF TryPendingStepAs
<1>3. R \in SUBSET SuspendedIn(threads, tstate) /\ target # "Starting"
    BY <1>2 DEF ResumeSet, ProcessReady
<1> QED BY <1>2, <1>3, PtraceNowStartup

LEMMA TailStartup ==
    ASSUME IInv, ExecReady, StartupInOrder,
           EndLoop \/ InitialExecTail \/ HandleBreakpointsTail \/ DropCaches
    PROVE  StartupInOrder'
<1>1. CASE EndLoop
    BY <1>1, UntouchedStartup DEF EndLoop, kvars, pvars, tvars
<1>2. CASE InitialExecTail
  <2>1. PICK tgt : TryPendingStep(tgt, pendingStep, stepping, TRUE)
      BY <1>2 DEF InitialExecTail
  <2> QED BY <1>2, <2>1, TryPendingStartup DEF InitialExecTail, ExecReady
<1>3. CASE HandleBreakpointsTail
  <2>1. UNCHANGED <<threads, deferred, waitInit, waitSigstop, target>>
      BY <1>3 DEF HandleBreakpointsTail
  <2>2. CASE stopBps /\ RunningIn(threads, tstate) = {}
    <3>1. PICK A : PtraceNow({}, ResumeSet, A)
        BY <1>3, <2>2 DEF HandleBreakpointsTail
    <3>2. ResumeSet \in SUBSET SuspendedIn(threads, tstate)
        BY DEF ResumeSet
    <3> QED BY <2>1, <3>1, <3>2, PtraceNowStartup
  <2>3. CASE ~(stopBps /\ RunningIn(threads, tstate) = {})
      BY <1>3, <2>1, <2>3, UntouchedStartup DEF HandleBreakpointsTail, kvars
  <2> QED BY <2>2, <2>3
<1>4. CASE DropCaches
  <2>1. CASE ProcessReady(target)
      BY <1>4, <2>1, TryPendingStartup DEF DropCaches
  <2>2. CASE ~ProcessReady(target)
      BY <1>4, <2>2, UntouchedStartup DEF DropCaches, kvars
  <2> QED BY <2>1, <2>2
<1> QED BY <1>1, <1>2, <1>3, <1>4

LEMMA UserStartup ==
    ASSUME IInv, StartupInOrder, UserNext
    PROVE  StartupInOrder'
<1>b. /\ ResumeSet \in SUBSET SuspendedIn(threads, tstate)
      /\ {} \in SUBSET SuspendedIn(threads, tstate)
    BY DEF ResumeSet
<1>1. CASE Resume
  <2>1. PICK A : PtraceNow({}, ResumeSet, A)
      BY <1>1 DEF Resume
  <2>2. UNCHANGED <<threads, deferred, waitInit, waitSigstop>> /\ target # "Starting"
      BY <1>1 DEF Resume, OnlyControl
  <2> QED BY <1>b, <2>1, <2>2, PtraceNowStartup
<1>2. CASE Suspend
  <2>1. PICK I : PtraceNow(I, {}, {})
      BY <1>2 DEF Suspend
  <2>2. UNCHANGED <<threads, deferred, waitInit, waitSigstop>> /\ target # "Starting"
      BY <1>2 DEF Suspend, OnlyControl
  <2> QED BY <1>b, <2>1, <2>2, PtraceNowStartup
<1>3. ASSUME NEW t \in Tids, NEW keep \in BOOLEAN, NEW newLocations \in BOOLEAN,
             Step(t, keep, newLocations)
      PROVE  StartupInOrder'
  <2>1. PICK I, R, A : R \subseteq ResumeSet /\ PtraceNow(I, R, A)
      BY <1>3 DEF Step
  <2>2. UNCHANGED <<threads, deferred, waitInit, waitSigstop>> /\ target # "Starting"
      BY <1>3 DEF Step, OnlyControl
  <2>3. R \in SUBSET SuspendedIn(threads, tstate)
      BY <1>b, <2>1
  <2> QED BY <2>1, <2>2, <2>3, PtraceNowStartup
<1>4. ASSUME NEW t \in Tids, StepToCursor(t) PROVE StartupInOrder'
  <2>1. PICK tgt, ps, st, mayFail : TryPendingStep(tgt, ps, st, mayFail)
      BY <1>4 DEF StepToCursor
  <2>2. UNCHANGED <<threads, deferred, waitInit, waitSigstop>> /\ ProcessReady(target)
      BY <1>4 DEF StepToCursor, OnlyControl
  <2> QED BY <2>1, <2>2, TryPendingStartup
<1>5. CASE AddBreakpoint
  <2>1. UNCHANGED <<threads, deferred, waitInit, waitSigstop, target>>
      BY <1>5 DEF AddBreakpoint, OnlyControl
  <2>2. CASE ProcessReady(target)
    <3>1. PICK I, A : PtraceNow(I, {}, A)
        BY <1>5, <2>2 DEF AddBreakpoint, ActivateBreakpoint, ActivateBreakpointAs
    <3> QED BY <1>b, <2>1, <3>1, PtraceNowStartup
  <2>3. CASE ~ProcessReady(target)
      BY <1>5, <2>1, <2>3, UntouchedStartup DEF AddBreakpoint, kvars
  <2> QED BY <2>2, <2>3
<1>6. CASE RemoveBreakpoint
    BY <1>6, UntouchedStartup DEF RemoveBreakpoint, kvars, pvars, tvars
<1>7. CASE Murder
    BY <1>7, UntouchedStartup DEF Murder, pvars, tvars
<1> QED BY <1>1, <1>2, <1>3, <1>4, <1>5, <1>6, <1>7, StartChildStartup DEF UserNext

LEMMA NextStartup == IInv /\ ExitInv /\ StartupInOrder /\ [Next]_vars => StartupInOrder'
<1> SUFFICES ASSUME IInv, ExitInv, StartupInOrder, [Next]_vars PROVE StartupInOrder'
    OBVIOUS
<1>1. ASSUME NEW t \in Tids, HandleEvent(t) PROVE StartupInOrder'
    BY <1>1, ExitedStartup, StopsStartup, DeferStartup DEF HandleEvent
<1>2. CASE DebuggerNext
    BY <1>1, <1>2, TailStartup DEF DebuggerNext, ExitInv
<1>3. ASSUME NEW done, SymbolsEvent(done) PROVE StartupInOrder'
    BY <1>3, UntouchedStartup DEF SymbolsEvent, kvars, pvars, tvars
<1>4. CASE UNCHANGED vars
    BY <1>4, UntouchedStartup DEF vars, kvars, pvars, tvars
<1> QED BY <1>2, <1>3, <1>4, KernelStartup, UserStartup DEF Next

(***************************************************************************)
(* The assertions of the control code, second half: steps.  A step that is *)
(* under way or waits for symbols is only found in a process that counts   *)
(* as stepping, or in one that has not got as far as its initial exec; and *)
(* what waits for symbols waits while there are symbols to come.           *)
(***************************************************************************)

\* The points where nothing found out by the step that led there is left to be done:
\* a change of the loaded binaries is followed by drop_caches() before them.
AtRest == ~initExec /\ (pc \in {"idle", "loop"} \/ (pc = "handle" /\ ~dropCaches))

StepsInOrder ==
    /\ stepping # NoStep => target \in {"Stepping", "NoProcess"}
    /\ IF pendingStep.on = "none" THEN pendingStep = NoPending ELSE pendingStep.tid \in Tids
    /\ pendingStep # NoPending =>
          /\ stepping = NoStep
          /\ \/ target \in {"Stepping", "Starting", "Exiting", "NoProcess"}
             \/ target = "Suspended" /\ (initExec \/ pc = "exec")
    /\ initExec => pc = "loop" /\ nontrivial
    /\ initExec \/ pc = "exec" => target \notin {"Stepping", "Running", "Starting"}
    /\ target = "Stepping" /\ stepping = NoStep => pendingStep # NoPending /\ waitSyms # NoBinary
    /\ target = "Starting" => bp # "loading" /\ waitSyms = NoBinary
    /\ ProcessReady(target) /\ AtRest =>
          /\ NeedSymbols(pendingStep, bp) => loading # {}
          /\ waitSyms # NoBinary => waitSyms \in loading

\* So `stepping` is there whenever target_state_for_thread() unwraps it.
LEMMA NoUnwrapFault == StepsInOrder' => UnwrapFault' = {}
BY DEF StepsInOrder, UnwrapFault

\* Requests made without an assertion failing.
LEMMA PtraceAsserts ==
    ASSUME AssertionsHold, NEW kv, NEW ts, NEW si, NEW ps, NEW I, NEW R, NEW A,
           Ptrace(kv, ts, si, ps, I, R, A), A \cap AssertFaults = {}
    PROVE  AssertionsHold'
<1>1. ContFaults(kv, ps, R) \cap AssertFaults = {}
    BY ContFaultsType, FaultKinds
<1> QED BY <1>1 DEF Ptrace, AssertionsHold

LEMMA FinishStopAsserts ==
    ASSUME AssertionsHold, StepsInOrder', NEW t, NEW signalled, NEW force, NEW I, NEW others,
           FinishStop(t, signalled, force, I, others, {})
    PROVE  AssertionsHold'
<1>1. UnwrapFault' = {}
    BY NoUnwrapFault
<1>2. \E kv, ts, si, ps, R : Ptrace(kv, ts, si, ps, I, R, {})
    BY <1>1 DEF FinishStop
<1> QED BY <1>2, PtraceAsserts

\* What a pending step resolves to.
LEMMA ResolvedStep ==
    ASSUME NEW ps \in [tid : Tids \cup {NoTid}, on : {"none", "exec", "cursor"}], NEW mayFail,
           NEW s \in ResolveStep(ps, mayFail)
    PROVE  /\ s \in {"none", "stop", "start", "wait"}
           /\ s = "none" <=> ps.on = "none"
           /\ s = "wait" => loading # {}
<1>1. CASE ps.on = "none"
  <2>1. ResolveStep(ps, mayFail) = {"none"}
      BY <1>1 DEF ResolveStep
  <2> QED BY <1>1, <2>1
<1>2. CASE ps.on = "exec"
  <2>1. ResolveStep(ps, mayFail) = {"stop"}
      BY <1>2 DEF ResolveStep
  <2> QED BY <1>2, <2>1
<1>3. CASE ps.on = "cursor"
  <2>1. ResolveStep(ps, mayFail) = {"start"} \cup (IF loading # {} THEN {"wait"} ELSE {})
                                     \cup (IF mayFail THEN {"stop"} ELSE {})
      BY <1>3 DEF ResolveStep
  <2> QED BY <1>3, <2>1
<1> QED BY <1>1, <1>2, <1>3

\* try_pending_step_and_activate_breakpoints(), for a step that may be started.
LEMMA TryPendingSteps ==
    ASSUME TypeOK, ThreadTableAgrees, AssertionsHold,
           NEW tgt, ProcessReady(tgt),
           NEW ps \in [tid : Tids \cup {NoTid}, on : {"none", "exec", "cursor"}],
           NEW st \in [tid : Tids \cup {NoTid}, keep : BOOLEAN], NEW mayFail,
           IF ps.on = "none" THEN ps = NoPending ELSE ps.tid \in Tids,
           ps # NoPending => tgt = "Stepping" /\ st = NoStep,
           st # NoStep => tgt = "Stepping",
           tgt = "Stepping" /\ st = NoStep => ps # NoPending,
           TryPendingStep(tgt, ps, st, mayFail),
           UNCHANGED loading, ~initExec', pc' # "exec"
    PROVE  StepsInOrder' /\ AssertionsHold'
<1>1. PICK b \in Resolve(bp), s \in ResolveStep(ps, mayFail) : TryPendingStepAs(tgt, ps, st, b, s)
    BY DEF TryPendingStep
<1>2. /\ bp' = b
      /\ target' = IF s = "stop" THEN "Suspended" ELSE tgt
      /\ pendingStep' = IF s \in {"stop", "start"} THEN NoPending ELSE ps
      /\ stepping' = IF s = "start" THEN [tid |-> ps.tid, keep |-> FALSE] ELSE st
      /\ waitSyms' \in WaitFor(pendingStep', b)
    BY <1>1 DEF TryPendingStepAs
<1>3. /\ s \in {"none", "stop", "start", "wait"}
      /\ s = "none" <=> ps = NoPending
      /\ s = "wait" => loading # {}
    BY <1>1, ResolvedStep DEF NoPending
<1>4. b = "loading" => loading # {}
  <2>1. bp \in {"off", "new", "loading", "failed", "active"}
      BY DEF TypeOK
  <2> QED BY <1>1, <2>1 DEF Resolve
<1>5. NeedSymbols(pendingStep', b) => loading # {}
    BY <1>2, <1>3, <1>4 DEF NeedSymbols
<1>6. waitSyms' # NoBinary => waitSyms' \in loading
    BY <1>2 DEF WaitFor
<1>7. pendingStep' # NoPending => waitSyms' # NoBinary
  <2> SUFFICES ASSUME pendingStep' # NoPending PROVE waitSyms' # NoBinary
      OBVIOUS
  <2>1. NeedSymbols(pendingStep', b) /\ loading # {}
      BY <1>5 DEF NeedSymbols
  <2>2. waitSyms' \in loading
      BY <1>2, <2>1 DEF WaitFor
  <2>3. loading \subseteq Binaries
      BY DEF TypeOK
  <2> QED BY <2>2, <2>3, BinariesAssumption
<1>8. stepping' # NoStep => target' = "Stepping"
    BY <1>2, <1>3
<1>9. pendingStep' # NoPending => stepping' = NoStep /\ target' = "Stepping"
    BY <1>2, <1>3
<1>10. target' = "Stepping" /\ stepping' = NoStep => pendingStep' # NoPending
  <2>1. s = "start" => stepping' # NoStep
    <3> SUFFICES ASSUME s = "start" PROVE stepping' # NoStep
        OBVIOUS
    <3>1. ps.tid \in Tids
        BY <1>3 DEF NoPending
    <3>2. stepping'.tid # NoStep.tid
        BY <1>2, <3>1, TidsAssumption DEF NoStep
    <3> QED BY <3>2
  <2> QED BY <1>2, <1>3, <2>1
<1>11. IF pendingStep'.on = "none" THEN pendingStep' = NoPending ELSE pendingStep'.tid \in Tids
    BY <1>2 DEF NoPending
<1>12. target' # "Starting"
    BY <1>2 DEF ProcessReady
<1>13. StepsInOrder'
    BY <1>2, <1>5, <1>6, <1>7, <1>8, <1>9, <1>10, <1>11, <1>12 DEF StepsInOrder
<1>14. PICK I, R, bad :
          /\ bad = IF ps # NoPending /\ (tgt # "Stepping" \/ st # NoStep)
                   THEN {"pending step not stepping"} ELSE {}
          /\ PtraceNow(I, R, bad \cup WaitFault(pendingStep', b) \cup UnwrapFault'
                                \cup (IF s = "start" \/ (b = "active" /\ bp # "active")
                                      THEN ArrangeFault ELSE {}))
    BY <1>1 DEF TryPendingStepAs
<1>15. bad = {} /\ WaitFault(pendingStep', b) = {} /\ UnwrapFault' = {} /\ ArrangeFault = {}
    BY <1>5, <1>13, <1>14, NoUnwrapFault, NoArrangeFault DEF WaitFault
<1>16. PtraceNow(I, R, {})
    BY <1>14, <1>15
<1>17. AssertionsHold'
    BY <1>16, PtraceAsserts DEF PtraceNow
<1> QED BY <1>13, <1>17

\* Steps of the loop that change nothing but the thread they are about,
LEMMA KeptSteps ==
    ASSUME StepsInOrder, pc \in {"idle", "loop"}, pc' = "loop",
           UNCHANGED <<target, stepping, pendingStep, waitSyms, loading, bp, initExec, dropCaches>>,
           nontrivial => nontrivial'
    PROVE  StepsInOrder'
BY DEF StepsInOrder, AtRest

\* and steps of the loop that suspend the process.
LEMMA SuspendedSteps ==
    ASSUME TypeOK, StepsInOrder, pc \in {"idle", "loop"}, pc' = "loop",
           target' = "Suspended", stepping' = NoStep, pendingStep' = NoPending,
           waitSyms' \in {waitSyms, NoBinary}, target \notin {"Exiting", "NoProcess"},
           UNCHANGED <<loading, bp, initExec, dropCaches>>, nontrivial => nontrivial'
    PROVE  StepsInOrder'
<1>1. NeedSymbols(NoPending, bp) => bp = "loading" /\ NeedSymbols(pendingStep, bp)
    BY DEF NeedSymbols
<1>2. target = "Starting" \/ ProcessReady(target)
    BY DEF TypeOK, ProcessReady, ProcessStates
<1>3. AtRest' => AtRest
    BY DEF AtRest
<1>4. AtRest' => /\ NeedSymbols(NoPending, bp) => loading # {}
                 /\ waitSyms' # NoBinary => waitSyms' \in loading
  <2>1. CASE target = "Starting"
      BY <1>1, <2>1 DEF StepsInOrder
  <2>2. CASE ProcessReady(target)
      BY <1>1, <1>3, <2>2 DEF StepsInOrder
  <2> QED BY <1>2, <2>1, <2>2
<1>5. /\ IF pendingStep'.on = "none" THEN pendingStep' = NoPending ELSE pendingStep'.tid \in Tids
      /\ initExec' => pc' = "loop" /\ nontrivial'
    BY DEF NoPending, StepsInOrder
<1> QED BY <1>4, <1>5 DEF StepsInOrder

\* What a taken status was, for the statuses that the assertions are about.
LEMMA TakenAtStart ==
    ASSUME IInv, ExitInv, StartupInOrder, NEW t \in Tids, NEW e \in {"SIGSTOP", "EXEC"}, Take(t, e)
    PROVE  /\ e = "SIGSTOP" => t = Main /\ waitInit[t] /\ target = "Starting"
           /\ e = "EXEC" => ~waitSigstop
<1>1. ~FrontReady
  <2> SUFFICES ASSUME FrontReady PROVE FALSE
      OBVIOUS
  <2>1. deferred # <<>> /\ Head(deferred) = [tid |-> t, ev |-> e]
      BY DEF Take, FrontReady
  <2>2. deferred \in Seq([tid : Tids, ev : Events])
      BY DEF IInv, TypeOK
  <2>3. 1 \in DOMAIN deferred /\ deferred[1].ev = e
      BY <2>1, <2>2, TailProperties
  <2> QED BY <2>3 DEF ExitInv, EventsInOrder
<1>2. kev[t] = e
    BY <1>1 DEF Take
<1> QED BY <1>2 DEF StartupInOrder

LEMMA StopsSteps ==
    ASSUME IInv, ExitInv, StartupInOrder, StepsInOrder, AssertionsHold, NEW t \in Tids,
           \/ HandleSigstop(t) \/ HandleEventStop(t) \/ HandleExec(t) \/ HandleClone(t)
           \/ HandleExit(t) \/ HandleTrap(t) \/ HandleFatal(t) \/ HandleBenign(t)
           \/ \E e \in {"TRAP", "FATAL", "CLONE"} : HandleEsrch(t, e)
    PROVE  StepsInOrder' /\ AssertionsHold'
<1>a. ASSUME NEW e, Take(t, e)
      PROVE  /\ pc \in {"idle", "loop"} /\ pc' = "loop" /\ UNCHANGED <<loading, bp, dropCaches>>
             /\ target # "NoProcess"
    BY <1>a DEF Take, svars
<1>t. TypeOK
    BY DEF IInv
<1>1. CASE HandleSigstop(t)
  <2>1. /\ Take(t, "SIGSTOP") /\ nontrivial'
        /\ UNCHANGED <<target, stepping, pendingStep, waitSyms, initExec>>
        /\ FinishStop(t, FALSE, TRUE, {}, {},
                  IF waitInit[t] /\ t = Main /\ target = "Starting"
                  THEN {} ELSE {"initial SIGSTOP"})
      BY <1>1 DEF HandleSigstop
  <2>2. StepsInOrder'
      BY <1>a, <2>1, KeptSteps
  <2>3. FinishStop(t, FALSE, TRUE, {}, {}, {})
      BY <2>1, TakenAtStart
  <2> QED BY <2>2, <2>3, FinishStopAsserts
<1>2. CASE HandleEventStop(t)
  <2>1. /\ Take(t, "STOP") /\ nontrivial'
        /\ UNCHANGED <<target, stepping, pendingStep, waitSyms, initExec>>
        /\ FinishStop(t, FALSE, FALSE, {}, {}, {})
      BY <1>2 DEF HandleEventStop
  <2>2. StepsInOrder'
      BY <1>a, <2>1, KeptSteps
  <2> QED BY <2>1, <2>2, FinishStopAsserts
<1>3. CASE HandleExec(t)
  <2>1. /\ Take(t, "EXEC") /\ nontrivial'
        /\ initExec' = (initExec \/ target = "Starting")
        /\ target' = IF target = "Starting" THEN "Suspended" ELSE target
        /\ UNCHANGED <<stepping, pendingStep, waitSyms>>
        /\ FinishStop(t, FALSE, FALSE, {}, {}, IF waitSigstop THEN {"EXEC before SIGSTOP"} ELSE {})
      BY <1>3 DEF HandleExec
  <2>2. FinishStop(t, FALSE, FALSE, {}, {}, {})
      BY <2>1, TakenAtStart
  <2>3. /\ pc \in {"idle", "loop"} /\ pc' = "loop" /\ UNCHANGED <<loading, bp, dropCaches>>
        /\ initExec \in BOOLEAN
      BY <1>a, <1>t, <2>1 DEF TypeOK
  <2>4. StepsInOrder'
    <3>1. CASE target = "Starting"
        BY <2>1, <2>3, <3>1 DEF StepsInOrder, AtRest
    <3>2. CASE target # "Starting"
        BY <2>1, <2>3, <3>2, KeptSteps
    <3> QED BY <3>1, <3>2
  <2> QED BY <2>2, <2>4, FinishStopAsserts
<1>4. CASE HandleClone(t)
  <2>1. /\ Take(t, "CLONE") /\ nontrivial'
        /\ UNCHANGED <<target, stepping, pendingStep, waitSyms, initExec>>
        /\ FinishStop(t, FALSE, FALSE, {}, {}, {})
      BY <1>4 DEF HandleClone
  <2>2. StepsInOrder'
      BY <1>a, <2>1, KeptSteps
  <2> QED BY <2>1, <2>2, FinishStopAsserts
<1>5. CASE HandleExit(t)
  <2>1. /\ Take(t, "EXIT") /\ nontrivial'
        /\ \/ UNCHANGED <<target, stepping>>
           \/ target' = "Exiting" /\ stepping' = NoStep
        /\ UNCHANGED <<pendingStep, waitSyms, initExec>>
        /\ FinishStop(t, FALSE, TRUE, {}, {}, {})
      BY <1>5 DEF HandleExit
  <2>2. /\ pc \in {"idle", "loop"} /\ pc' = "loop" /\ UNCHANGED <<loading, bp, dropCaches>>
      BY <1>a, <2>1
  <2>3. StepsInOrder'
    <3>1. CASE UNCHANGED <<target, stepping>>
        BY <2>1, <2>2, <3>1, KeptSteps
    <3>2. CASE target' = "Exiting" /\ stepping' = NoStep
        BY <2>1, <2>2, <3>2 DEF StepsInOrder, ProcessReady
    <3> QED BY <2>1, <3>1, <3>2
  <2> QED BY <2>1, <2>3, FinishStopAsserts
<1>6. CASE HandleTrap(t)
  <2>1. PICK outcome \in {"hit", "step done", "miss"}, swLocation, relax, refresh \in BOOLEAN :
            HandleTrapAs(t, outcome, swLocation, relax, refresh)
      BY <1>6 DEF HandleTrap
  <2>2. /\ Take(t, "TRAP") /\ (nontrivial => nontrivial')
        /\ UNCHANGED <<waitSyms, initExec>>
        /\ \E force, I, others : FinishStop(t, FALSE, force, I, others, {})
      BY <2>1 DEF HandleTrapAs
  <2>3. /\ pc \in {"idle", "loop"} /\ pc' = "loop" /\ UNCHANGED <<loading, bp, dropCaches>>
        /\ target # "NoProcess"
      BY <1>a, <2>2
  <2>4. target # "Exiting"
      BY <2>2, LiveTaken DEF LiveEvents
  <2>5. StepsInOrder'
    <3>1. CASE outcome # "miss"
      <4>1. target' = "Suspended" /\ stepping' = NoStep /\ pendingStep' = NoPending
          BY <2>1, <3>1 DEF HandleTrapAs
      <4> QED BY <1>t, <2>2, <2>3, <2>4, <4>1, SuspendedSteps
    <3>2. CASE outcome = "miss" /\ ~relax
      <4>1. UNCHANGED <<target, stepping, pendingStep>>
          BY <2>1, <3>2 DEF HandleTrapAs
      <4> QED BY <2>2, <2>3, <4>1, KeptSteps
    <3>3. CASE outcome = "miss" /\ relax
      <4>1. /\ UNCHANGED <<target, pendingStep>> /\ stepping # NoStep /\ stepping.tid = t
            /\ stepping' = [stepping EXCEPT !.keep = FALSE]
          BY <2>1, <3>3 DEF HandleTrapAs
      <4>2. stepping'.tid = t
          BY <1>t, <4>1 DEF TypeOK
      <4>3. NoStep.tid # t
          BY TidsAssumption DEF NoStep
      <4>4. stepping' # NoStep
          BY <4>2, <4>3
      <4> HIDE DEF NoStep
      <4> QED BY <2>2, <2>3, <4>1, <4>4 DEF StepsInOrder, AtRest
    <3> QED BY <3>1, <3>2, <3>3
  <2> QED BY <2>2, <2>5, FinishStopAsserts
<1>7. CASE HandleFatal(t)
  <2>1. /\ Take(t, "FATAL") /\ nontrivial'
        /\ target' = "Suspended" /\ stepping' = NoStep /\ pendingStep' = NoPending
        /\ UNCHANGED <<waitSyms, initExec>>
        /\ \E I : FinishStop(t, TRUE, FALSE, I, {}, {})
      BY <1>7 DEF HandleFatal
  <2>2. target # "Exiting"
      BY <2>1, LiveTaken DEF LiveEvents
  <2>3. StepsInOrder'
      BY <1>a, <1>t, <2>1, <2>2, SuspendedSteps
  <2> QED BY <2>1, <2>3, FinishStopAsserts
<1>8. CASE HandleBenign(t)
  <2>1. /\ Take(t, "BENIGN")
        /\ UNCHANGED <<target, stepping, pendingStep, waitSyms, initExec, nontrivial>>
        /\ FinishStop(t, TRUE, TRUE, {}, {}, {})
      BY <1>8 DEF HandleBenign
  <2>2. StepsInOrder'
      BY <1>a, <2>1, KeptSteps
  <2> QED BY <2>1, <2>2, FinishStopAsserts
<1>9. ASSUME NEW e \in {"TRAP", "FATAL", "CLONE"}, HandleEsrch(t, e)
      PROVE  StepsInOrder' /\ AssertionsHold'
  <2>1. /\ Take(t, e)
        /\ UNCHANGED <<target, stepping, pendingStep, waitSyms, initExec, nontrivial>>
        /\ \E kv, ts, si, ps : Ptrace(kv, ts, si, ps, {}, {}, {})
      BY <1>9 DEF HandleEsrch
  <2>2. StepsInOrder'
      BY <1>a, <2>1, KeptSteps
  <2>3. {} \cap AssertFaults = {}
      OBVIOUS
  <2> QED BY <2>1, <2>2, <2>3, PtraceAsserts
<1> QED BY <1>1, <1>2, <1>3, <1>4, <1>5, <1>6, <1>7, <1>8, <1>9

LEMMA ExitedSteps ==
    ASSUME IInv, StepsInOrder, AssertionsHold, NEW t \in Tids, HandleExited(t) \/ DeferEvent(t)
    PROVE  StepsInOrder' /\ AssertionsHold'
<1>1. CASE HandleExited(t)
  <2> DEFINE suspend == threads' # {} /\ stepping.tid = t
  <2>1. /\ Take(t, "EXITED") /\ nontrivial' /\ UNCHANGED initExec
        /\ target' = IF threads' = {} THEN "NoProcess" ELSE IF suspend THEN "Suspended" ELSE target
        /\ stepping' = IF suspend THEN NoStep ELSE stepping
        /\ pendingStep' = IF suspend THEN NoPending ELSE pendingStep
        /\ waitSyms' = IF suspend THEN NoBinary ELSE waitSyms
        /\ faults' = faults \cup (IF suspend /\ target \notin {"Running", "Stepping"}
                                  THEN {"suspend failed"} ELSE {})
      BY <1>1 DEF HandleExited
  <2>2. /\ pc \in {"idle", "loop"} /\ pc' = "loop" /\ UNCHANGED <<loading, bp, dropCaches>>
        /\ target # "NoProcess" /\ TypeOK
      BY <2>1 DEF Take, svars, IInv
  <2>3. suspend => target = "Stepping"
    <3>1. NoStep.tid # t
        BY TidsAssumption DEF NoStep
    <3> QED BY <2>2, <3>1 DEF StepsInOrder
  <2>4. AssertionsHold'
      BY <2>1, <2>3 DEF AssertionsHold
  <2>5. StepsInOrder'
    <3>1. CASE threads' = {}
        BY <2>1, <2>2, <3>1 DEF StepsInOrder, ProcessReady
    <3>2. CASE suspend
        BY <2>1, <2>2, <2>3, <3>2, SuspendedSteps
    <3>3. CASE threads' # {} /\ ~suspend
        BY <2>1, <2>2, <3>3, KeptSteps
    <3> QED BY <3>1, <3>2, <3>3
  <2> QED BY <2>4, <2>5
<1>2. CASE DeferEvent(t)
  <2>1. /\ pc \in {"idle", "loop"} /\ pc' = "loop" /\ UNCHANGED <<loading, bp, dropCaches, faults>>
        /\ UNCHANGED <<target, stepping, pendingStep, waitSyms, initExec, nontrivial>>
      BY <1>2 DEF DeferEvent, svars
  <2> QED BY <2>1, KeptSteps DEF AssertionsHold
<1> QED BY <1>1, <1>2

LEMMA TailSteps ==
    ASSUME IInv, ExecReady, StepsInOrder, AssertionsHold,
           EndLoop \/ InitialExecTail \/ HandleBreakpointsTail \/ DropCaches
    PROVE  StepsInOrder' /\ AssertionsHold'
<1>t. /\ TypeOK /\ ThreadTableAgrees
      /\ pendingStep \in [tid : Tids \cup {NoTid}, on : {"none", "exec", "cursor"}]
      /\ stepping \in [tid : Tids \cup {NoTid}, keep : BOOLEAN]
    BY DEF IInv, TypeOK
<1>1. CASE EndLoop
  <2>1. /\ pc = "loop" /\ ~initExec' /\ faults' = faults
        /\ UNCHANGED <<target, stepping, pendingStep, waitSyms, bp>>
      BY <1>1 DEF EndLoop, pvars
  <2>2. CASE nontrivial /\ ProcessReady(target)
    <3>1. /\ pc' = IF initExec THEN "exec" ELSE "handle"
          /\ ~dropCaches' => loading' = loading
        BY <1>1, <2>2 DEF EndLoop
    <3>2. StepsInOrder'
      <4>1. CASE initExec
          BY <2>1, <2>2, <3>1, <4>1 DEF StepsInOrder, AtRest, ProcessReady
      <4>2. CASE ~initExec
          BY <2>1, <2>2, <3>1, <4>2 DEF StepsInOrder, AtRest
      <4> QED BY <4>1, <4>2
    <3> QED BY <2>1, <3>2 DEF AssertionsHold
  <2>3. CASE ~(nontrivial /\ ProcessReady(target))
    <3>1. pc' = "idle" /\ UNCHANGED <<loading, dropCaches>>
        BY <1>1, <2>3 DEF EndLoop
    <3>2. StepsInOrder'
        BY <2>1, <2>3, <3>1 DEF StepsInOrder, AtRest, ProcessReady
    <3> QED BY <2>1, <3>2 DEF AssertionsHold
  <2> QED BY <2>2, <2>3
<1>2. CASE InitialExecTail
  <2> DEFINE tgt == IF pendingStep # NoPending THEN "Stepping" ELSE "Running"
  <2>1. /\ pc = "exec" /\ pc' # "exec" /\ UNCHANGED <<loading, initExec>>
        /\ TryPendingStep(tgt, pendingStep, stepping, TRUE)
      BY <1>2 DEF InitialExecTail
  <2>2. ~initExec /\ stepping = NoStep
      BY <2>1 DEF StepsInOrder, ExecReady, ProcessReady
  <2>3. /\ IF pendingStep.on = "none" THEN pendingStep = NoPending ELSE pendingStep.tid \in Tids
        /\ pendingStep # NoPending => tgt = "Stepping"
        /\ tgt = "Stepping" => pendingStep # NoPending
        /\ ProcessReady(tgt)
      BY DEF StepsInOrder, ProcessReady
  <2> HIDE DEF tgt
  <2> QED BY <1>t, <2>1, <2>2, <2>3, TryPendingSteps
<1>3. CASE HandleBreakpointsTail
  <2>1. /\ pc = "handle" /\ pc' = IF dropCaches THEN "drop" ELSE "idle"
        /\ UNCHANGED <<target, stepping, pendingStep, waitSyms, loading, bp, initExec, dropCaches,
                       nontrivial>>
      BY <1>3 DEF HandleBreakpointsTail, svars
  <2>2. StepsInOrder'
      BY <2>1 DEF StepsInOrder, AtRest
  <2>3. AssertionsHold'
    <3>1. CASE stopBps /\ RunningIn(threads, tstate) = {}
      <4>1. PtraceNow({}, ResumeSet, PatchFault \cup UnwrapFault')
          BY <1>3, <3>1 DEF HandleBreakpointsTail
      <4>2. PatchFault = {} /\ UnwrapFault' = {}
          BY <1>t, <2>2, <3>1, NobodyRuns, NoUnwrapFault
      <4>3. PtraceNow({}, ResumeSet, {})
          BY <4>1, <4>2
      <4> QED BY <4>3, PtraceAsserts DEF PtraceNow
    <3>2. CASE ~(stopBps /\ RunningIn(threads, tstate) = {})
        BY <1>3, <3>2 DEF HandleBreakpointsTail, AssertionsHold
    <3> QED BY <3>1, <3>2
  <2> QED BY <2>2, <2>3
<1>4. CASE DropCaches
  <2>1. pc = "drop" /\ pc' = "idle" /\ UNCHANGED <<loading, initExec>>
      BY <1>4 DEF DropCaches
  <2>2. ~initExec
      BY <2>1 DEF StepsInOrder
  <2>3. CASE ProcessReady(target)
    <3>1. TryPendingStep(target, pendingStep, stepping, TRUE)
        BY <1>4, <2>3 DEF DropCaches
    <3>2. /\ IF pendingStep.on = "none" THEN pendingStep = NoPending ELSE pendingStep.tid \in Tids
          /\ pendingStep # NoPending => target = "Stepping" /\ stepping = NoStep
          /\ stepping # NoStep => target = "Stepping"
          /\ target = "Stepping" /\ stepping = NoStep => pendingStep # NoPending
        BY <2>1, <2>2, <2>3 DEF StepsInOrder, ProcessReady
    <3> QED BY <1>t, <2>1, <2>2, <2>3, <3>1, <3>2, TryPendingSteps
  <2>4. CASE ~ProcessReady(target)
    <3>1. UNCHANGED <<target, stepping, pendingStep, waitSyms, bp, faults>>
        BY <1>4, <2>4 DEF DropCaches
    <3>2. StepsInOrder'
        BY <2>1, <2>2, <2>4, <3>1 DEF StepsInOrder
    <3> QED BY <3>1, <3>2 DEF AssertionsHold
  <2> QED BY <2>3, <2>4
<1> QED BY <1>1, <1>2, <1>3, <1>4

\* A step that changes nothing the assertions are about, except for what is loaded
\* before drop_caches().
LEMMA UntouchedSteps ==
    ASSUME StepsInOrder, AssertionsHold,
           \/ UNCHANGED <<pc, loading>>
           \/ pc = "idle" /\ ~initExec /\ pc' = "drop",
           UNCHANGED <<target, stepping, pendingStep, waitSyms, bp, initExec, nontrivial, dropCaches,
                       faults>>
    PROVE  StepsInOrder' /\ AssertionsHold'
<1>1. AtRest' => AtRest /\ UNCHANGED loading
    BY DEF AtRest
<1>2. AssertionsHold'
    BY DEF AssertionsHold
<1> QED BY <1>1, <1>2 DEF StepsInOrder

LEMMA KernelSteps ==
    ASSUME StepsInOrder, AssertionsHold, KernelNext
    PROVE  StepsInOrder' /\ AssertionsHold'
<1>1. UNCHANGED <<pvars, svars, lvars, faults>>
    BY DEF KernelNext, KernelTrapStop, KernelSignal, KernelClone, KernelSigstop, KernelExec,
           KernelExitStop, KernelKill, KernelDie
<1> QED BY <1>1, UntouchedSteps DEF pvars, svars, lvars

LEMMA ResumeSteps ==
    ASSUME TypeOK, StepsInOrder, AssertionsHold, Resume
    PROVE  StepsInOrder' /\ AssertionsHold'
<1>1. /\ pc = "idle" /\ target \in {"Suspended", "Stepping", "Running"} /\ target' = "Running"
      /\ stepping' = IF target = "Stepping" THEN NoStep ELSE stepping
      /\ pendingStep' = IF target = "Stepping" THEN NoPending ELSE pendingStep
      /\ waitSyms' \in WaitFor(pendingStep', bp)
      /\ UNCHANGED <<bp, loading, pc, nontrivial, initExec, dropCaches>>
      /\ PtraceNow({}, ResumeSet, WaitFault(pendingStep', bp))
    BY DEF Resume, OnlyControl, lvars
<1>2. ~initExec /\ stepping' = NoStep /\ pendingStep' = NoPending
    BY <1>1 DEF StepsInOrder
<1>3. NeedSymbols(pendingStep', bp) => loading # {}
  <2>1. NeedSymbols(pendingStep', bp) => NeedSymbols(pendingStep, bp)
      BY <1>2 DEF NeedSymbols
  <2> QED BY <1>1, <1>2, <2>1 DEF StepsInOrder, AtRest, ProcessReady
<1>4. waitSyms' # NoBinary => waitSyms' \in loading
    BY <1>1 DEF WaitFor
<1>5. StepsInOrder'
    BY <1>1, <1>2, <1>3, <1>4 DEF StepsInOrder, NoPending
<1>6. PtraceNow({}, ResumeSet, {})
    BY <1>1, <1>3 DEF WaitFault
<1> QED BY <1>5, <1>6, PtraceAsserts DEF PtraceNow

LEMMA StepSteps ==
    ASSUME TypeOK, ThreadTableAgrees, StepsInOrder, AssertionsHold,
           NEW t \in Tids, NEW keep \in BOOLEAN, NEW newLocations \in BOOLEAN,
           Step(t, keep, newLocations)
    PROVE  StepsInOrder' /\ AssertionsHold'
<1>1. /\ pc = "idle" /\ target = "Suspended" /\ target' = "Stepping"
      /\ stepping' = [tid |-> t, keep |-> keep]
      /\ UNCHANGED <<waitSyms, pendingStep, bp, loading, pc, nontrivial, initExec, dropCaches>>
      /\ \E I, R : PtraceNow(I, R, (IF stepping # NoStep THEN {"step during step"} ELSE {})
                                     \cup (IF newLocations THEN ArrangeFault ELSE {}))
    BY DEF Step, OnlyControl, lvars
<1>2. ~initExec /\ stepping = NoStep /\ pendingStep = NoPending
    BY <1>1 DEF StepsInOrder
<1>3. stepping' # NoStep
  <2>1. stepping'.tid # NoStep.tid
      BY <1>1, TidsAssumption DEF NoStep
  <2> QED BY <2>1
<1>4. StepsInOrder'
    BY <1>1, <1>2, <1>3 DEF StepsInOrder, AtRest, ProcessReady
<1>5. ArrangeFault = {}
    BY NoArrangeFault
<1>6. \E I, R : PtraceNow(I, R, {})
    BY <1>1, <1>2, <1>5
<1> QED BY <1>4, <1>6, PtraceAsserts DEF PtraceNow

LEMMA AddBreakpointSteps ==
    ASSUME TypeOK, ThreadTableAgrees, StepsInOrder, AssertionsHold, AddBreakpoint
    PROVE  StepsInOrder' /\ AssertionsHold'
<1>1. /\ pc = "idle" /\ bp = "off"
      /\ UNCHANGED <<target, stepping, pendingStep, loading, pc, nontrivial, initExec, dropCaches>>
    BY DEF AddBreakpoint, OnlyControl, lvars
<1>2. ~initExec
    BY <1>1 DEF StepsInOrder
<1>3. CASE ProcessReady(target)
  <2>1. PICK b \in Resolve("new") : ActivateBreakpointAs(b)
      BY <1>3 DEF AddBreakpoint, ActivateBreakpoint
  <2> DEFINE wait == b = "loading" /\ waitSyms = NoBinary
  <2>2. /\ bp' = b
        /\ waitSyms' \in IF wait THEN WaitFor(pendingStep, b) ELSE {waitSyms}
        /\ \E I : PtraceNow(I, {}, (IF wait THEN WaitFault(pendingStep, b) ELSE {})
                                     \cup (IF b = "active" THEN ArrangeFault ELSE {}))
      BY <2>1 DEF ActivateBreakpointAs
  <2>3. b = "loading" => loading # {}
      BY <2>1 DEF Resolve
  <2>4. NeedSymbols(pendingStep, b) => loading # {}
      BY <1>1, <1>2, <1>3, <2>3 DEF StepsInOrder, AtRest, NeedSymbols
  <2>5. waitSyms' # NoBinary => waitSyms' \in loading
      BY <1>1, <1>2, <1>3, <2>2 DEF StepsInOrder, AtRest, WaitFor
  <2>6. waitSyms # NoBinary => waitSyms' # NoBinary
      BY <2>2
  <2>7. StepsInOrder'
      BY <1>1, <1>2, <1>3, <2>2, <2>4, <2>5, <2>6 DEF StepsInOrder, ProcessReady
  <2>8. ArrangeFault = {} /\ WaitFault(pendingStep, b) = {}
      BY <2>4, NoArrangeFault DEF WaitFault
  <2>9. \E I : PtraceNow(I, {}, {})
      BY <2>2, <2>8
  <2> QED BY <2>7, <2>9, PtraceAsserts DEF PtraceNow
<1>4. CASE ~ProcessReady(target)
  <2>1. bp' = "new" /\ UNCHANGED <<waitSyms, faults>>
      BY <1>4 DEF AddBreakpoint
  <2> QED BY <1>1, <1>2, <1>4, <2>1 DEF StepsInOrder, AssertionsHold
<1> QED BY <1>3, <1>4

LEMMA UserSteps ==
    ASSUME IInv, StepsInOrder, AssertionsHold, UserNext
    PROVE  StepsInOrder' /\ AssertionsHold'
<1>t. TypeOK /\ ThreadTableAgrees
    BY DEF IInv
<1>1. ASSUME NEW on \in {"none", "exec", "cursor"}, StartChild(on)
      PROVE  StepsInOrder' /\ AssertionsHold'
  <2>1. /\ pc = "idle" /\ target' = "Starting" /\ stepping' = NoStep /\ waitSyms' = NoBinary
        /\ pendingStep' = IF on = "none" THEN NoPending ELSE [tid |-> Main, on |-> on]
        /\ bp' \in {"off", "new"}
        /\ UNCHANGED <<loading, pc, nontrivial, initExec, dropCaches, faults>>
      BY <1>1 DEF StartChild, lvars
  <2>2. ~initExec
      BY <2>1 DEF StepsInOrder
  <2>3. IF pendingStep'.on = "none" THEN pendingStep' = NoPending ELSE pendingStep'.tid \in Tids
      BY <2>1, TidsAssumption DEF NoPending
  <2> QED BY <2>1, <2>2, <2>3 DEF StepsInOrder, AssertionsHold, ProcessReady
<1>2. CASE Suspend
  <2>1. /\ pc = "idle" /\ target \in {"Running", "Stepping"} /\ target' = "Suspended"
        /\ stepping' = NoStep /\ pendingStep' = NoPending /\ waitSyms' = NoBinary
        /\ UNCHANGED <<bp, loading, pc, nontrivial, initExec, dropCaches>>
        /\ \E I : PtraceNow(I, {}, {})
      BY <1>2 DEF Suspend, OnlyControl, lvars
  <2>2. ~initExec
      BY <2>1 DEF StepsInOrder
  <2>3. NeedSymbols(NoPending, bp) => loading # {}
      BY <2>1, <2>2 DEF StepsInOrder, AtRest, ProcessReady, NeedSymbols
  <2>4. StepsInOrder'
      BY <2>1, <2>2, <2>3 DEF StepsInOrder, NoPending
  <2> QED BY <2>1, <2>4, PtraceAsserts DEF PtraceNow
<1>3. ASSUME NEW t \in Tids, StepToCursor(t) PROVE StepsInOrder' /\ AssertionsHold'
  <2> DEFINE ps == [tid |-> t, on |-> "cursor"]
  <2>1. /\ pc = "idle" /\ UNCHANGED <<loading, pc, initExec>>
        /\ \E mayFail : TryPendingStep("Stepping", ps, NoStep, mayFail)
      BY <1>3 DEF StepToCursor, OnlyControl, lvars
  <2>2. ~initExec' /\ pc' # "exec"
      BY <2>1 DEF StepsInOrder
  <2>3. /\ ps \in [tid : Tids \cup {NoTid}, on : {"none", "exec", "cursor"}]
        /\ IF ps.on = "none" THEN ps = NoPending ELSE ps.tid \in Tids
        /\ ps # NoPending
      BY DEF NoPending
  <2>4. NoStep \in [tid : Tids \cup {NoTid}, keep : BOOLEAN] /\ ProcessReady("Stepping")
      BY DEF NoStep, ProcessReady
  <2> HIDE DEF ps
  <2> QED BY <1>t, <2>1, <2>2, <2>3, <2>4, TryPendingSteps
<1>4. CASE RemoveBreakpoint
  <2>1. /\ UNCHANGED <<target, stepping, pendingStep, waitSyms, loading, pc, nontrivial, initExec,
                       dropCaches, faults>>
        /\ bp' = "off"
      BY <1>4 DEF RemoveBreakpoint, pvars, lvars
  <2>2. NeedSymbols(pendingStep, "off") => NeedSymbols(pendingStep, bp)
      BY DEF NeedSymbols
  <2>3. AtRest' = AtRest
      BY <2>1 DEF AtRest
  <2> QED BY <2>1, <2>2, <2>3 DEF StepsInOrder, AssertionsHold
<1>5. CASE Murder
    BY <1>5, UntouchedSteps DEF Murder, pvars, svars, lvars
<1> QED BY <1>t, <1>1, <1>2, <1>3, <1>4, <1>5, ResumeSteps, StepSteps, AddBreakpointSteps DEF UserNext

LEMMA NextSteps ==
    IInv /\ ExitInv /\ StartupInOrder /\ StepsInOrder /\ AssertionsHold /\ [Next]_vars
        => StepsInOrder' /\ AssertionsHold'
<1> SUFFICES ASSUME IInv, ExitInv, StartupInOrder, StepsInOrder, AssertionsHold, [Next]_vars
             PROVE  StepsInOrder' /\ AssertionsHold'
    OBVIOUS
<1>1. ASSUME NEW t \in Tids, HandleEvent(t) PROVE StepsInOrder' /\ AssertionsHold'
    BY <1>1, ExitedSteps, StopsSteps DEF HandleEvent
<1>2. CASE DebuggerNext
    BY <1>1, <1>2, TailSteps DEF DebuggerNext, ExitInv
<1>3. ASSUME NEW done, SymbolsEvent(done) PROVE StepsInOrder' /\ AssertionsHold'
  <2>1. pc = "idle" /\ pc' = "drop" /\ UNCHANGED <<pvars, bp, nontrivial, initExec, dropCaches, faults>>
      BY <1>3 DEF SymbolsEvent
  <2>2. ~initExec
      BY <2>1 DEF StepsInOrder
  <2> QED BY <2>1, <2>2, UntouchedSteps DEF pvars
<1>4. CASE UNCHANGED vars
    BY <1>4, UntouchedSteps DEF vars, pvars, svars, lvars
<1> QED BY <1>2, <1>3, <1>4, KernelSteps, UserSteps DEF Next

\* Nothing is wrong when nnd starts.
LEMMA InitOrdered ==
    Init => ExitInv /\ StopsAccounted /\ PtraceContract /\ StartupInOrder /\ StepsInOrder /\ AssertionsHold
<1> SUFFICES ASSUME Init
             PROVE  ExitInv /\ StopsAccounted /\ PtraceContract /\ StartupInOrder /\ StepsInOrder
                        /\ AssertionsHold
    OBVIOUS
<1>1. DOMAIN deferred = {}
    BY DEF Init
<1>2. ExitInv
    BY <1>1 DEF Init, EventsInOrder, LiveEvents, ExitInv, ExitingThroughout, ExecReady
<1>3. StopsAccounted
    BY <1>1 DEF Init, StopsAccounted
<1>4. StartupInOrder
    BY <1>1, TidsAssumption DEF Init, StartupInOrder, LiveEvents
<1>5. StepsInOrder
    BY DEF Init, StepsInOrder, ProcessReady, NoPending
<1> QED BY <1>2, <1>3, <1>4, <1>5 DEF Init, PtraceContract, AssertionsHold

\* ContractHolds: no PTRACE_CONT goes to a thread that is not stopped, none drops a
\* status or a signal, and no assert!, debug_assert! or unwrap() of the control code
\* of debugger.rs can fail, for any number of threads and binaries.
THEOREM ContractCorrect == Spec => []ContractHolds
<1> DEFINE Inv == /\ IInv /\ ExitInv /\ StopsAccounted /\ PtraceContract /\ StartupInOrder
                  /\ StepsInOrder /\ AssertionsHold
<1>1. Init => Inv
    BY InitKeeps, InitOrdered
<1>2. Inv /\ [Next]_vars => Inv'
    BY NextKeeps, NextExit, NextContract, NextStartup, NextSteps
<1>3. Inv => ContractHolds
    BY DEF ContractHolds
<1> HIDE DEF Inv
<1> QED BY <1>1, <1>2, <1>3, PTL DEF Spec

LEMMA StepsShown == StepsInOrder => WaitHasReason /\ SteppingConsistent
<1> SUFFICES ASSUME StepsInOrder PROVE WaitHasReason /\ SteppingConsistent
    OBVIOUS
<1>1. pc = "idle" => AtRest
    BY DEF StepsInOrder, AtRest
<1>2. WaitHasReason
    BY <1>1 DEF StepsInOrder, WaitHasReason
<1>3. SteppingConsistent
    BY DEF StepsInOrder, SteppingConsistent, ProcessReady
<1> QED BY <1>2, <1>3

\* WaitHasReason: a process kept waiting for symbols waits for a binary whose loading
\* will be reported.  SteppingConsistent: a process counts as stepping exactly if a step
\* is under way or waits for symbols.
THEOREM StepsCorrect == Spec => [](WaitHasReason /\ SteppingConsistent)
<1> DEFINE Inv == /\ IInv /\ ExitInv /\ StartupInOrder /\ StepsInOrder /\ AssertionsHold
<1>1. Init => Inv
    BY InitKeeps, InitOrdered
<1>2. Inv /\ [Next]_vars => Inv'
    BY NextKeeps, NextExit, NextStartup, NextSteps
<1>3. Inv => WaitHasReason /\ SteppingConsistent
    BY StepsShown
<1> HIDE DEF Inv
<1> QED BY <1>1, <1>2, <1>3, PTL DEF Spec

(***************************************************************************)
(* Threads that should be at rest.  HeldThreadsStay speaks of a suspended  *)
(* process and of the other threads of an isolated step; both come about   *)
(* from states in which the same has to hold for other reasons: breakpoints*)
(* are about to be handled, or a step waits for symbols.  In all of them a *)
(* thread that may run, or that will be resumed when its status is handled,*)
(* has a STOP trap pending; and so has any such thread that was sent an    *)
(* interrupt since its last stop, which is why a second one is not sent.   *)
(***************************************************************************)

\* Thread t runs, or is resumed when its status is handled whatever the target state.
MayRun(t) == UserRunning(t) \/ kev[t] \in {"TRAP", "BENIGN"}

\* Thread t should be at rest, or come to rest.
Held(t) ==
    \/ target = "Suspended"
    \/ target = "Stepping" /\ (pendingStep # NoPending \/ (stepping.keep /\ stepping.tid # t))
    \/ stopBps /\ ProcessReady(target)

\* An interrupt that was sent has been neither seen nor lost.
Interrupted == \A t \in Tids : sentIntr[t] => t \in threads /\ tstate[t] = "Running"

\* A trap or a signal is reported of a thread that stands in that stop.
SignalsInOrder ==
    \A t \in Tids : kev[t] \in {"TRAP", "BENIGN"} =>
        t \in threads /\ tstate[t] = "Running" /\ k[t] = "stop" /\ ~pastExit[t]

Halting == \A t \in Tids : MayRun(t) /\ (sentIntr[t] \/ Held(t)) => kint[t]

\* Until its initial exec is handled the main thread is alone, and after that exec it waits.
AloneAtStart ==
    target = "Starting" =>
        /\ \A u \in Tids : u # Main => k[u] = "none"
        /\ boot = "up" =>
              /\ ~UserRunning(Main)
              /\ k[Main] = "stop" /\ ~pastExit[Main] => kev[Main] = "EXEC" /\ tstate[Main] = "Running"

HeldInv == Interrupted /\ SignalsInOrder /\ Halting /\ AloneAtStart

\* Whom ptrace_interrupt_all_running_threads() reaches.
LEMMA MayRunReached ==
    ASSUME IInv, SignalsInOrder, NEW t \in Tids, MayRun(t)
    PROVE  t \in RunningIn(threads, tstate) /\ k[t] \in {"run", "stop"} /\ ~pastExit[t]
<1>1. t \in threads /\ tstate[t] = "Running" /\ k[t] \in {"run", "stop"} /\ ~pastExit[t]
    BY DEF MayRun, SignalsInOrder, IInv, ThreadTableAgrees, RunnersKnown, UserRunning
<1>2. ~exiting[t]
    BY <1>1 DEF IInv, ThreadTableAgrees, ExitsPast
<1> QED BY <1>1, <1>2 DEF RunningIn

\* A thread that target_state_for_thread() wants to run is not one to be held.
LEMMA WantsNotHeld ==
    ASSUME StepsInOrder', NEW t, WantsRun(t)'
    PROVE  ~Held(t)'
BY DEF StepsInOrder, WantsRun, Held

\* Requests outside the handling of a status.
LEMMA PtraceNowHeld ==
    ASSUME IInv, HeldInv, StepsInOrder',
           NEW I \in SUBSET RunningIn(threads, tstate), NEW R \in SUBSET ResumeSet, NEW A,
           PtraceNow(I, R, A), UNCHANGED threads, target' = "Starting" => target = "Starting",
           (\A t \in Tids : Held(t)' => Held(t)) \/ I = RunningIn(threads, tstate)
    PROVE  HeldInv'
<1>a. /\ k \in [Tids -> KStates] /\ kev \in [Tids -> Events \cup {"none"}]
      /\ kint \in [Tids -> BOOLEAN] /\ sentIntr \in [Tids -> BOOLEAN]
      /\ tstate \in [Tids -> {"Running", "Suspended"}] /\ threads \subseteq Tids
    BY DEF IInv, TypeOK
<1>b. /\ tstate' = [t \in Tids |-> IF t \in R THEN "Running" ELSE tstate[t]]
      /\ sentIntr' = [t \in Tids |-> sentIntr[t] \/ t \in I]
      /\ kint' = [t \in Tids |-> kint[t] \/ (t \in I /\ ~sentIntr[t] /\ k[t] \in {"run", "stop"})]
      /\ k' = [t \in Tids |-> IF t \in R /\ k[t] = "stop" THEN "run" ELSE k[t]]
      /\ kev' = [t \in Tids |-> IF t \in R /\ k[t] = "stop" THEN "none" ELSE kev[t]]
      /\ UNCHANGED pastExit
    BY DEF PtraceNow, Ptrace
<1>c. /\ \A t \in R : t \in Tids /\ t \in threads /\ tstate[t] = "Suspended" /\ WantsRun(t)'
      /\ \A t \in I : t \in Tids /\ t \in threads /\ tstate[t] = "Running"
    BY <1>a DEF ResumeSet, SuspendedIn, RunningIn
<1>1. Interrupted'
    BY <1>a, <1>b, <1>c DEF HeldInv, Interrupted
<1>2. SignalsInOrder'
    BY <1>a, <1>b, <1>c DEF HeldInv, SignalsInOrder
<1>3. ASSUME NEW t \in Tids, MayRun(t)', sentIntr'[t] \/ Held(t)' PROVE kint'[t]
  <2>1. CASE t \in R
    <3>1. ~sentIntr'[t]
        BY <1>a, <1>b, <1>c, <2>1 DEF HeldInv, Interrupted
    <3>2. ~Held(t)'
        BY <1>c, <2>1, WantsNotHeld
    <3> QED BY <1>3, <3>1, <3>2
  <2>2. CASE t \notin R
    <3>1. k'[t] = k[t] /\ kev'[t] = kev[t] /\ pastExit'[t] = pastExit[t]
        BY <1>a, <1>b, <2>2
    <3>2. MayRun(t)
        BY <1>3, <3>1 DEF MayRun, UserRunning
    <3>3. t \in RunningIn(threads, tstate) /\ k[t] \in {"run", "stop"}
        BY <3>2, MayRunReached DEF HeldInv
    <3>4. sentIntr[t] \/ Held(t) \/ t \in I
        BY <1>3, <1>b, <3>3
    <3>5. CASE sentIntr[t] \/ Held(t)
        BY <1>b, <3>2, <3>5 DEF HeldInv, Halting
    <3>6. CASE t \in I /\ ~sentIntr[t]
        BY <1>b, <3>3, <3>6
    <3> QED BY <3>4, <3>5, <3>6
  <2> QED BY <2>1, <2>2
<1>4. Halting'
    BY <1>3 DEF Halting
<1>5. AloneAtStart'
  <2> SUFFICES ASSUME target' = "Starting" PROVE AloneAtStart'
      BY DEF AloneAtStart
  <2>1. /\ \A u \in Tids : u # Main => k[u] = "none"
        /\ boot = "up" =>
              /\ ~UserRunning(Main)
              /\ k[Main] = "stop" /\ ~pastExit[Main] => kev[Main] = "EXEC" /\ tstate[Main] = "Running"
      BY DEF HeldInv, AloneAtStart
  <2>2. \A u \in Tids : u # Main => k'[u] = "none"
      BY <1>b, <2>1
  <2>3. CASE boot = "up" /\ k[Main] = "stop" /\ ~pastExit[Main]
    <3>1. Main \notin R
        BY <1>c, <2>1, <2>3
    <3>2. k'[Main] = "stop" /\ kev'[Main] = "EXEC" /\ tstate'[Main] = "Running"
        BY <1>b, <2>1, <2>3, <3>1, TidsAssumption
    <3> QED BY <2>2, <3>2 DEF AloneAtStart, UserRunning
  <2>4. CASE boot = "up" /\ ~(k[Main] = "stop" /\ ~pastExit[Main])
    <3>1. ~UserRunning(Main)' /\ ~(k'[Main] = "stop" /\ ~pastExit'[Main])
        BY <1>b, <2>1, <2>4, TidsAssumption DEF UserRunning
    <3> QED BY <2>2, <3>1 DEF AloneAtStart
  <2>5. CASE boot # "up"
    <3>1. boot' # "up"
        BY <2>5 DEF PtraceNow, Ptrace
    <3> QED BY <2>2, <3>1 DEF AloneAtStart
  <2> QED BY <2>3, <2>4, <2>5
<1> QED BY <1>1, <1>2, <1>4, <1>5 DEF HeldInv

\* Handling a stop of t.
LEMMA FinishStopHeld ==
    ASSUME IInv, HeldInv, StepsInOrder', NEW t \in Tids, NEW e, Take(t, e),
           threads \subseteq threads', exiting'[t] => pastExit[t],
           NEW I \in SUBSET RunningIn(threads, [tstate EXCEPT ![t] = "Suspended"]),
           NEW others \in SUBSET {u \in SuspendedIn(threads \ {t}, tstate) : WantsRun(u)'},
           NEW signalled, NEW force \in BOOLEAN, NEW A,
           FinishStop(t, signalled, force, I, others, A),
           force => pastExit[t] \/ kint[t] \/ ~Held(t)',
           \/ \A u \in Tids : u # t /\ MayRun(u) /\ Held(u)' => Held(u)
           \/ I = RunningIn(threads, [tstate EXCEPT ![t] = "Suspended"])
    PROVE  Interrupted' /\ SignalsInOrder' /\ Halting'
<1> DEFINE ts == [tstate EXCEPT ![t] = "Suspended"]
           si == [sentIntr EXCEPT ![t] = FALSE]
           kv == KevTaken(t)
           forced == force \/ exiting'[t]
           R == others \cup (IF forced \/ WantsRun(t)' THEN {t} ELSE {})
<1>a. /\ k \in [Tids -> KStates] /\ kev \in [Tids -> Events \cup {"none"}]
      /\ kint \in [Tids -> BOOLEAN] /\ sentIntr \in [Tids -> BOOLEAN]
      /\ tstate \in [Tids -> {"Running", "Suspended"}] /\ threads \subseteq Tids
    BY DEF IInv, TypeOK
<1>b. /\ t \in threads /\ ~UserRunning(t)
      /\ \A u \in Tids : u # t => kv[u] = kev[u]
      /\ kv[t] = kev[t] \/ kv[t] = "none"
    BY TakeFacts DEF IInv
<1>c. /\ ts \in [Tids -> {"Running", "Suspended"}] /\ ts[t] = "Suspended"
      /\ \A u \in Tids : u # t => ts[u] = tstate[u]
      /\ si \in [Tids -> BOOLEAN] /\ ~si[t]
      /\ \A u \in Tids : u # t => si[u] = sentIntr[u]
    BY <1>a
<1>d. kv[t] \notin {"TRAP", "BENIGN"}
  <2>1. CASE ~FrontReady
      BY <1>a, <2>1 DEF KevTaken
  <2>2. CASE FrontReady
    <3> SUFFICES ASSUME kev[t] \in {"TRAP", "BENIGN"} PROVE FALSE
        BY <1>b
    <3>1. k[t] = "stop" /\ ~pastExit[t]
        BY DEF HeldInv, SignalsInOrder
    <3>2. deferred # <<>> /\ Head(deferred) = [tid |-> t, ev |-> e]
        BY <2>2 DEF Take, FrontReady
    <3>3. deferred \in Seq([tid : Tids, ev : Events])
        BY DEF IInv, TypeOK
    <3>4. 1 \in DOMAIN deferred /\ deferred[1].tid = t
        BY <3>2, <3>3, TailProperties
    <3> QED BY <3>1, <3>4 DEF IInv, ThreadTableAgrees, DeferredAtRest
  <2> QED BY <2>1, <2>2
<1>e. PICK ps, B : Ptrace(kv, ts, si, ps, I, R, B)
    BY DEF FinishStop
<1>f. /\ t \in R => force \/ pastExit[t] \/ WantsRun(t)'
      /\ \A u \in R : u # t => u \in Tids /\ u \in threads /\ tstate[u] = "Suspended" /\ WantsRun(u)'
    BY <1>a DEF SuspendedIn
<1>g. /\ t \notin I
      /\ \A u \in I : u \in Tids /\ u \in threads /\ tstate[u] = "Running"
    BY <1>a, <1>c DEF RunningIn
<1>h. \A u \in Tids : u # t /\ u \in RunningIn(threads, tstate) => u \in RunningIn(threads, ts)
    BY <1>c DEF RunningIn
<1>i. \/ \A u \in Tids : u # t /\ MayRun(u) /\ Held(u)' => Held(u)
      \/ I = RunningIn(threads, ts)
    OBVIOUS
<1> HIDE DEF ts, si, kv, R
<1>j. /\ tstate' = [u \in Tids |-> IF u \in R THEN "Running" ELSE ts[u]]
      /\ sentIntr' = [u \in Tids |-> si[u] \/ u \in I]
      /\ kint' = [u \in Tids |-> kint[u] \/ (u \in I /\ ~si[u] /\ k[u] \in {"run", "stop"})]
      /\ k' = [u \in Tids |-> IF u \in R /\ k[u] = "stop" THEN "run" ELSE k[u]]
      /\ kev' = [u \in Tids |-> IF u \in R /\ k[u] = "stop" THEN "none" ELSE kv[u]]
      /\ UNCHANGED pastExit
    BY <1>e DEF Ptrace
<1>1. Interrupted'
  <2> SUFFICES ASSUME NEW u \in Tids, sentIntr'[u] PROVE u \in threads' /\ tstate'[u] = "Running"
      BY DEF Interrupted
  <2>1. u # t /\ (sentIntr[u] \/ u \in I)
      BY <1>c, <1>g, <1>j
  <2> QED BY <1>c, <1>g, <1>j, <2>1 DEF HeldInv, Interrupted
<1>2. SignalsInOrder'
  <2> SUFFICES ASSUME NEW u \in Tids, kev'[u] \in {"TRAP", "BENIGN"}
               PROVE  u \in threads' /\ tstate'[u] = "Running" /\ k'[u] = "stop" /\ ~pastExit'[u]
      BY DEF SignalsInOrder
  <2>1. u # t /\ kev[u] = kev'[u]
      BY <1>b, <1>d, <1>j
  <2>2. u \in threads /\ tstate[u] = "Running" /\ k[u] = "stop" /\ ~pastExit[u]
      BY <2>1 DEF HeldInv, SignalsInOrder
  <2>3. u \notin R
      BY <1>f, <2>1, <2>2
  <2> QED BY <1>c, <1>j, <2>1, <2>2, <2>3
<1>3. ASSUME NEW u \in Tids, MayRun(u)', sentIntr'[u] \/ Held(u)' PROVE kint'[u]
  <2>1. CASE u = t
    <3>1. ~sentIntr'[t] /\ kev'[t] \notin {"TRAP", "BENIGN"}
        BY <1>c, <1>d, <1>g, <1>j
    <3>2. UserRunning(t)' /\ Held(t)'
        BY <1>3, <2>1, <3>1 DEF MayRun
    <3>3. t \in R /\ ~pastExit[t]
        BY <1>b, <1>j, <3>2 DEF UserRunning
    <3>4. kint[t]
        BY <1>f, <3>2, <3>3, WantsNotHeld
    <3> QED BY <1>j, <2>1, <3>4
  <2>2. CASE u # t /\ u \in R
    <3>1. ~sentIntr'[u]
        BY <1>a, <1>c, <1>f, <1>g, <1>j, <2>2 DEF HeldInv, Interrupted
    <3>2. ~Held(u)'
        BY <1>f, <2>2, WantsNotHeld
    <3> QED BY <1>3, <3>1, <3>2
  <2>3. CASE u # t /\ u \notin R
    <3>1. k'[u] = k[u] /\ kev'[u] = kev[u] /\ pastExit'[u] = pastExit[u] /\ si[u] = sentIntr[u]
        BY <1>b, <1>c, <1>j, <2>3
    <3>2. MayRun(u)
        BY <1>3, <3>1 DEF MayRun, UserRunning
    <3>3. u \in RunningIn(threads, ts) /\ k[u] \in {"run", "stop"}
        BY <1>h, <2>3, <3>2, MayRunReached DEF HeldInv
    <3>4. sentIntr[u] \/ Held(u) \/ u \in I
        BY <1>3, <1>i, <1>j, <2>3, <3>1, <3>2, <3>3
    <3>5. CASE sentIntr[u] \/ Held(u)
        BY <1>j, <3>2, <3>5 DEF HeldInv, Halting
    <3>6. CASE u \in I /\ ~sentIntr[u]
        BY <1>j, <3>1, <3>3, <3>6
    <3> QED BY <3>4, <3>5, <3>6
  <2> QED BY <2>1, <2>2, <2>3
<1>4. Halting'
    BY <1>3 DEF Halting
<1> QED BY <1>1, <1>2, <1>4

\* A trap or a signal is not found in pending_wait_events.
LEMMA LiveReaped ==
    ASSUME IInv, ExitInv, NEW t \in Tids, NEW e \in LiveEvents, Take(t, e)
    PROVE  ~FrontReady /\ kev[t] = e
<1>1. ~FrontReady
  <2> SUFFICES ASSUME FrontReady PROVE FALSE
      OBVIOUS
  <2>1. deferred # <<>> /\ Head(deferred) = [tid |-> t, ev |-> e]
      BY DEF Take, FrontReady
  <2>2. deferred \in Seq([tid : Tids, ev : Events])
      BY DEF IInv, TypeOK
  <2>3. 1 \in DOMAIN deferred /\ deferred[1].ev = e
      BY <2>1, <2>2, TailProperties
  <2> QED BY <2>3 DEF ExitInv, EventsInOrder, LiveEvents
<1> QED BY <1>1 DEF Take

\* Who is taken while the process is starting.
LEMMA StartTakes ==
    ASSUME IInv, StartupInOrder, HeldInv, target = "Starting", NEW t \in Tids, NEW e, Take(t, e)
    PROVE  t = Main /\ ~FrontReady /\ kev[t] = e /\ k[t] \in {"stop", "zombie"}
<1>1. \A u \in Tids : u # Main => k[u] = "none"
    BY DEF HeldInv, AloneAtStart
<1>2. ~FrontReady
  <2> SUFFICES ASSUME FrontReady PROVE FALSE
      OBVIOUS
  <2>1. deferred # <<>> /\ Head(deferred) = [tid |-> t, ev |-> e]
      BY DEF Take, FrontReady
  <2>2. deferred \in Seq([tid : Tids, ev : Events])
      BY DEF IInv, TypeOK
  <2>3. 1 \in DOMAIN deferred /\ deferred[1].tid = t
      BY <2>1, <2>2, TailProperties
  <2>4. t # Main /\ k[t] # "none"
      BY <2>3 DEF StartupInOrder, IInv, ThreadTableAgrees, DeferredAtRest
  <2> QED BY <1>1, <2>4
<1>3. kev[t] = e /\ kev[t] # "none"
    BY <1>2 DEF Take, Reapable
<1>4. k[t] \in {"stop", "zombie"}
    BY <1>3 DEF IInv, ThreadTableAgrees, StatusAtRest
<1> QED BY <1>1, <1>2, <1>3, <1>4

\* A stop other than that of the initial exec, handled while the process is starting.
LEMMA StopAlone ==
    ASSUME IInv, StartupInOrder, HeldInv, NEW t \in Tids, NEW e, Take(t, e), e # "EXEC",
           target' = "Starting" => target = "Starting",
           NEW ts, NEW si, NEW ps, NEW I, NEW R, NEW A,
           Ptrace(KevTaken(t), ts, si, ps, I, R, A)
    PROVE  AloneAtStart'
<1> SUFFICES ASSUME target' = "Starting" PROVE AloneAtStart'
    BY DEF AloneAtStart
<1>1. t = Main /\ kev[t] = e
    BY StartTakes
<1>2. /\ k' = [u \in Tids |-> IF u \in R /\ k[u] = "stop" THEN "run" ELSE k[u]]
      /\ UNCHANGED <<pastExit, boot>>
    BY DEF Ptrace
<1>3. /\ \A u \in Tids : u # Main => k[u] = "none"
      /\ boot = "up" => ~UserRunning(Main) /\ (k[Main] # "stop" \/ pastExit[Main])
    BY <1>1 DEF HeldInv, AloneAtStart
<1>4. \A u \in Tids : u # Main => k'[u] = "none"
    BY <1>2, <1>3
<1>5. boot = "up" => ~UserRunning(Main)' /\ (k'[Main] # "stop" \/ pastExit'[Main])
    BY <1>1, <1>2, <1>3 DEF UserRunning
<1> QED BY <1>2, <1>4, <1>5 DEF AloneAtStart

\* What is held does not change while the target state does not.
LEMMA HeldKept ==
    ASSUME UNCHANGED <<target, pendingStep, stepping, stopBps>>, NEW t
    PROVE  Held(t)' <=> Held(t)
BY DEF Held

LEMMA HandleTrapHeld ==
    ASSUME IInv, ExitInv, StepsInOrder, StepsInOrder', HeldInv, NEW t \in Tids, HandleTrap(t)
    PROVE  Interrupted' /\ SignalsInOrder' /\ Halting'
<1>1. PICK outcome \in {"hit", "step done", "miss"}, swLocation, relax, refresh \in BOOLEAN :
          HandleTrapAs(t, outcome, swLocation, relax, refresh)
    BY DEF HandleTrap
<1> DEFINE hit == outcome # "miss"
           stopAll == \/ hit
                      \/ target = "Running"
                      \/ stepping' # NoStep /\ (~stepping'.keep \/ stepping'.tid # t)
           force == ~hit /\ ~stopBps'
           Run == RunningIn(threads, [tstate EXCEPT ![t] = "Suspended"])
           I == IF (hit \/ stopBps') /\ stopAll THEN Run ELSE {}
           others == IF relax THEN {u \in SuspendedIn(threads \ {t}, tstate) : WantsRun(u)'} ELSE {}
<1>2. /\ Take(t, "TRAP") /\ UNCHANGED <<threads, exiting>>
      /\ relax => ~hit /\ stepping # NoStep /\ stepping.tid = t /\ stepping.keep
      /\ stopBps' = (stopBps \/ swLocation)
      /\ stepping' = IF hit THEN NoStep
                     ELSE IF relax THEN [stepping EXCEPT !.keep = FALSE] ELSE stepping
      /\ ~hit => UNCHANGED <<target, pendingStep>>
      /\ hit => target' = "Suspended"
      /\ FinishStop(t, FALSE, force, I, others, {})
    BY <1>1 DEF HandleTrapAs
<1>3. kev[t] = "TRAP"
    BY <1>2, LiveReaped DEF LiveEvents
<1>4. stepping \in [tid : Tids \cup {NoTid}, keep : BOOLEAN] /\ stopBps \in BOOLEAN
    BY DEF IInv, TypeOK
<1>5. relax => stepping' = [tid |-> t, keep |-> FALSE]
    BY <1>2, <1>4
<1>6. ASSUME NEW u \in Tids, ~hit, ~stopBps', Held(u)' PROVE Held(u)
  <2>1. ~stopBps
      BY <1>2, <1>6
  <2>2. CASE relax
      BY <1>2, <1>5, <1>6, <2>1, <2>2 DEF Held
  <2>3. CASE ~relax
      BY <1>2, <1>6, <2>1, <2>3 DEF Held
  <2> QED BY <2>2, <2>3
<1>7. force => kint[t] \/ ~Held(t)'
  <2> SUFFICES ASSUME force, Held(t)' PROVE kint[t]
      OBVIOUS
  <2>1. Held(t)
      BY <1>6
  <2> QED BY <1>3, <2>1 DEF HeldInv, Halting, MayRun
<1>8. ASSUME ~((hit \/ stopBps') /\ stopAll), NEW u \in Tids, u # t, Held(u)' PROVE Held(u)
  <2>1. CASE ~stopBps'
      BY <1>6, <1>8, <2>1
  <2>2. CASE stopBps'
    <3>1. ~stopAll /\ ~hit
        BY <1>8, <2>2
    <3>2. ProcessReady(target)
        BY <1>2, <1>8, <3>1 DEF Held, ProcessReady
    <3>3. target = "Suspended" \/ target = "Stepping"
        BY <3>1, <3>2 DEF ProcessReady
    <3>4. CASE target = "Suspended"
        BY <3>4 DEF Held
    <3>5. CASE target = "Stepping"
      <4>1. stepping' = NoStep \/ (stepping'.keep /\ stepping'.tid = t)
          BY <3>1
      <4>2. ~relax
        <5>1. NoStep.tid # t
            BY TidsAssumption DEF NoStep
        <5>2. [tid |-> t, keep |-> FALSE].tid = t /\ [tid |-> t, keep |-> FALSE].keep = FALSE
            OBVIOUS
        <5> SUFFICES ASSUME relax PROVE FALSE
            OBVIOUS
        <5>3. stepping'.tid = t /\ stepping'.keep = FALSE
            BY <1>5, <5>2
        <5> QED BY <4>1, <5>1, <5>3
      <4>3. stepping' = stepping
          BY <1>2, <3>1, <4>2
      <4>4. CASE stepping = NoStep
          BY <3>5, <4>4 DEF StepsInOrder, Held
      <4>5. CASE stepping.keep /\ stepping.tid = t
          BY <1>8, <3>5, <4>5 DEF Held
      <4> QED BY <4>1, <4>3, <4>4, <4>5
    <3> QED BY <3>3, <3>4, <3>5
  <2> QED BY <2>1, <2>2
<1>9. \/ \A u \in Tids : u # t /\ MayRun(u) /\ Held(u)' => Held(u)
      \/ I = Run
  <2>1. CASE (hit \/ stopBps') /\ stopAll
      BY <2>1
  <2>2. CASE ~((hit \/ stopBps') /\ stopAll)
      BY <1>8, <2>2
  <2> QED BY <2>1, <2>2
<1>10. exiting'[t] => pastExit[t]
    BY <1>2 DEF IInv, ThreadTableAgrees, ExitsPast
<1>11. /\ others \in SUBSET {u \in SuspendedIn(threads \ {t}, tstate) : WantsRun(u)'}
       /\ I \in SUBSET Run /\ force \in BOOLEAN /\ threads \subseteq threads'
    BY <1>2
<1> HIDE DEF hit, stopAll, force, I, others
<1> QED BY <1>2, <1>7, <1>9, <1>10, <1>11, FinishStopHeld

LEMMA StopsHeld ==
    ASSUME IInv, ExitInv, StartupInOrder, StepsInOrder, StepsInOrder', HeldInv, NEW t \in Tids,
           \/ HandleSigstop(t) \/ HandleEventStop(t) \/ HandleExec(t) \/ HandleClone(t)
           \/ HandleExit(t) \/ HandleTrap(t) \/ HandleFatal(t) \/ HandleBenign(t)
    PROVE  HeldInv'
<1> DEFINE Run == RunningIn(threads, [tstate EXCEPT ![t] = "Suspended"])
<1>a. /\ {} \in SUBSET {u \in SuspendedIn(threads \ {t}, tstate) : WantsRun(u)'}
      /\ {} \in SUBSET Run /\ Run \in SUBSET Run /\ TRUE \in BOOLEAN /\ FALSE \in BOOLEAN
    OBVIOUS
<1>b. exiting[t] => pastExit[t]
    BY DEF IInv, ThreadTableAgrees, ExitsPast
<1> HIDE DEF Run
<1>f. ASSUME NEW signalled, NEW force, NEW I, NEW others, NEW A,
             FinishStop(t, signalled, force, I, others, A)
      PROVE  \E ts, si, ps, R, B : Ptrace(KevTaken(t), ts, si, ps, I, R, B)
    BY <1>f DEF FinishStop
<1>1. CASE HandleSigstop(t)
  <2>1. PICK A : FinishStop(t, FALSE, TRUE, {}, {}, A)
      BY <1>1 DEF HandleSigstop
  <2>2. Take(t, "SIGSTOP") /\ UNCHANGED <<target, threads, exiting>>
      BY <1>1 DEF HandleSigstop
  <2>3. target = "Starting"
      BY <2>2, TakenAtStart
  <2>4. \A u \in Tids : ~Held(u)'
      BY <2>2, <2>3 DEF Held, ProcessReady
  <2>5. Interrupted' /\ SignalsInOrder' /\ Halting'
      BY <1>a, <1>b, <2>1, <2>2, <2>4, FinishStopHeld DEF Run
  <2>6. AloneAtStart'
      BY <1>f, <2>1, <2>2, StopAlone
  <2> QED BY <2>5, <2>6 DEF HeldInv
<1>2. CASE HandleEventStop(t)
  <2>1. /\ Take(t, "STOP") /\ UNCHANGED <<target, pendingStep, stepping, stopBps, threads, exiting>>
        /\ FinishStop(t, FALSE, FALSE, {}, {}, {})
      BY <1>2 DEF HandleEventStop
  <2>2. \A u \in Tids : Held(u)' => Held(u)
      BY <2>1, HeldKept
  <2>3. Interrupted' /\ SignalsInOrder' /\ Halting'
      BY <1>a, <1>b, <2>1, <2>2, FinishStopHeld DEF Run
  <2>4. AloneAtStart'
      BY <1>f, <2>1, StopAlone
  <2> QED BY <2>3, <2>4 DEF HeldInv
<1>3. CASE HandleExec(t)
  <2>1. PICK A : FinishStop(t, FALSE, FALSE, {}, {}, A)
      BY <1>3 DEF HandleExec
  <2>2. /\ Take(t, "EXEC") /\ UNCHANGED <<pendingStep, stepping, stopBps, threads, exiting>>
        /\ target' = IF target = "Starting" THEN "Suspended" ELSE target
      BY <1>3 DEF HandleExec
  <2>3. \A u \in Tids : u # t /\ MayRun(u) /\ Held(u)' => Held(u)
    <3>1. CASE target = "Starting"
      <4>1. t = Main
          BY <2>2, <3>1, StartTakes
      <4>2. \A u \in Tids : u # Main => ~MayRun(u)
          BY <3>1 DEF HeldInv, AloneAtStart, SignalsInOrder, MayRun, UserRunning
      <4> QED BY <4>1, <4>2
    <3>2. CASE target # "Starting"
        BY <2>2, <3>2, HeldKept
    <3> QED BY <3>1, <3>2
  <2>4. Interrupted' /\ SignalsInOrder' /\ Halting'
      BY <1>a, <1>b, <2>1, <2>2, <2>3, FinishStopHeld DEF Run
  <2>5. AloneAtStart'
      BY <2>2 DEF AloneAtStart
  <2> QED BY <2>4, <2>5 DEF HeldInv
<1>4. CASE HandleClone(t)
  <2>1. /\ Take(t, "CLONE") /\ UNCHANGED <<target, pendingStep, stepping, stopBps, exiting>>
        /\ threads \subseteq threads'
        /\ FinishStop(t, FALSE, FALSE, {}, {}, {})
      BY <1>4 DEF HandleClone
  <2>2. \A u \in Tids : Held(u)' => Held(u)
      BY <2>1, HeldKept
  <2>3. Interrupted' /\ SignalsInOrder' /\ Halting'
      BY <1>a, <1>b, <2>1, <2>2, FinishStopHeld DEF Run
  <2>4. AloneAtStart'
      BY <1>f, <2>1, StopAlone
  <2> QED BY <2>3, <2>4 DEF HeldInv
<1>5. CASE HandleExit(t)
  <2>1. /\ Take(t, "EXIT") /\ UNCHANGED <<pendingStep, stopBps, threads>>
        /\ target' = "Exiting" \/ UNCHANGED <<target, stepping>>
        /\ FinishStop(t, FALSE, TRUE, {}, {}, {})
      BY <1>5 DEF HandleExit
  <2>2. \A u \in Tids : Held(u)' => Held(u)
      BY <2>1 DEF Held, ProcessReady
  <2>3. pastExit[t]
      BY <2>1, TakeFacts DEF IInv
  <2>4. Interrupted' /\ SignalsInOrder' /\ Halting'
      BY <1>a, <2>1, <2>2, <2>3, FinishStopHeld DEF Run
  <2>5. AloneAtStart'
      BY <1>f, <2>1, StopAlone
  <2> QED BY <2>4, <2>5 DEF HeldInv
<1>6. CASE HandleTrap(t)
  <2>1. PICK outcome \in {"hit", "step done", "miss"}, swLocation, relax, refresh \in BOOLEAN :
            HandleTrapAs(t, outcome, swLocation, relax, refresh)
      BY <1>6 DEF HandleTrap
  <2>2. /\ Take(t, "TRAP") /\ target' \in {"Suspended", target}
        /\ \E force, I, others : FinishStop(t, FALSE, force, I, others, {})
      BY <2>1 DEF HandleTrapAs
  <2>3. AloneAtStart'
      BY <1>f, <2>2, StopAlone
  <2> QED BY <1>6, <2>3, HandleTrapHeld DEF HeldInv
<1>7. CASE HandleFatal(t)
  <2>1. /\ Take(t, "FATAL") /\ UNCHANGED <<threads, exiting>> /\ target' = "Suspended"
        /\ FinishStop(t, TRUE, FALSE, Run, {}, {})
      BY <1>7 DEF HandleFatal, Run
  <2>2. Interrupted' /\ SignalsInOrder' /\ Halting'
      BY <1>a, <1>b, <2>1, FinishStopHeld DEF Run
  <2>3. AloneAtStart'
      BY <2>1 DEF AloneAtStart
  <2> QED BY <2>2, <2>3 DEF HeldInv
<1>8. CASE HandleBenign(t)
  <2>1. /\ Take(t, "BENIGN") /\ UNCHANGED <<target, pendingStep, stepping, stopBps, threads, exiting>>
        /\ FinishStop(t, TRUE, TRUE, {}, {}, {})
      BY <1>8 DEF HandleBenign
  <2>2. \A u \in Tids : Held(u)' => Held(u)
      BY <2>1, HeldKept
  <2>3. kev[t] = "BENIGN"
      BY <2>1, LiveReaped DEF LiveEvents
  <2>4. MayRun(t)
      BY <2>3 DEF MayRun
  <2>5. kint[t] \/ ~Held(t)'
      BY <2>2, <2>4 DEF HeldInv, Halting
  <2>6. Interrupted' /\ SignalsInOrder' /\ Halting'
      BY <1>a, <1>b, <2>1, <2>2, <2>5, FinishStopHeld DEF Run
  <2>7. AloneAtStart'
      BY <1>f, <2>1, StopAlone
  <2> QED BY <2>6, <2>7 DEF HeldInv
<1> QED BY <1>1, <1>2, <1>3, <1>4, <1>5, <1>6, <1>7, <1>8

LEMMA EsrchHeld ==
    ASSUME IInv, StartupInOrder, HeldInv, NEW t \in Tids, NEW e \in {"TRAP", "FATAL", "CLONE"},
           HandleEsrch(t, e), ExitInv
    PROVE  HeldInv'
<1>1. /\ Take(t, e) /\ UNCHANGED <<target, pendingStep, stepping, stopBps, threads>>
      /\ \E ps : Ptrace(KevTaken(t), [tstate EXCEPT ![t] = "Suspended"],
                        [sentIntr EXCEPT ![t] = FALSE], ps, {}, {}, {})
    BY DEF HandleEsrch
<1>2. ~FrontReady
    BY <1>1, LiveReaped DEF LiveEvents
<1>3. /\ k \in [Tids -> KStates] /\ kev \in [Tids -> Events \cup {"none"}]
      /\ sentIntr \in [Tids -> BOOLEAN] /\ kint \in [Tids -> BOOLEAN]
      /\ tstate \in [Tids -> {"Running", "Suspended"}]
    BY DEF IInv, TypeOK
<1>4. /\ tstate' = [u \in Tids |-> [tstate EXCEPT ![t] = "Suspended"][u]]
      /\ sentIntr' = [u \in Tids |-> [sentIntr EXCEPT ![t] = FALSE][u] \/ u \in {}]
      /\ kint' = [u \in Tids |-> kint[u] \/ (u \in {} /\ ~[sentIntr EXCEPT ![t] = FALSE][u]
                                               /\ k[u] \in {"run", "stop"})]
      /\ k' = [u \in Tids |-> k[u]]
      /\ kev' = [u \in Tids |-> [kev EXCEPT ![t] = "none"][u]]
      /\ UNCHANGED pastExit
    BY <1>1, <1>2 DEF Ptrace, KevTaken
<1>5. /\ ~sentIntr'[t] /\ kev'[t] = "none"
      /\ \A u \in Tids : k'[u] = k[u] /\ kint'[u] = kint[u]
      /\ \A u \in Tids : u # t => /\ tstate'[u] = tstate[u] /\ sentIntr'[u] = sentIntr[u]
                                  /\ kev'[u] = kev[u]
    BY <1>3, <1>4
<1>6. ~UserRunning(t)
    BY <1>1, TakeFacts DEF IInv
<1>7. Interrupted'
    BY <1>1, <1>5 DEF HeldInv, Interrupted
<1>8. SignalsInOrder'
    BY <1>1, <1>4, <1>5 DEF HeldInv, SignalsInOrder
<1>9. Halting'
  <2> SUFFICES ASSUME NEW u \in Tids, MayRun(u)', sentIntr'[u] \/ Held(u)' PROVE kint'[u]
      BY DEF Halting
  <2>1. u # t
      BY <1>4, <1>5, <1>6 DEF MayRun, UserRunning
  <2>2. MayRun(u) /\ (sentIntr[u] \/ Held(u))
      BY <1>1, <1>4, <1>5, <2>1, HeldKept DEF MayRun, UserRunning
  <2> QED BY <1>5, <2>2 DEF HeldInv, Halting
<1>10. AloneAtStart'
    BY <1>1, StopAlone
<1> QED BY <1>7, <1>8, <1>9, <1>10 DEF HeldInv

LEMMA ExitedHeld ==
    ASSUME IInv, StartupInOrder, StepsInOrder, HeldInv, NEW t \in Tids, HandleExited(t)
    PROVE  HeldInv'
<1> DEFINE suspend == threads' # {} /\ stepping.tid = t
           I == IF suspend THEN RunningIn(threads', tstate) ELSE {}
<1>1. /\ Take(t, "EXITED") /\ threads' = threads \ {t} /\ kev' = KevTaken(t)
      /\ target' = IF threads' = {} THEN "NoProcess" ELSE IF suspend THEN "Suspended" ELSE target
      /\ stepping' = IF suspend THEN NoStep ELSE stepping
      /\ pendingStep' = IF suspend THEN NoPending ELSE pendingStep
      /\ tstate' = [tstate EXCEPT ![t] = "Running"]
      /\ sentIntr' = [u \in Tids |-> u # t /\ (sentIntr[u] \/ u \in I)]
      /\ kint' = [u \in Tids |-> kint[u] \/ (u \in I /\ ~sentIntr[u] /\ k[u] \in {"run", "stop"})]
      /\ k' = [k EXCEPT ![t] = "gone"]
      /\ UNCHANGED <<pastExit, boot, stopBps>>
    BY DEF HandleExited
<1>2. /\ k \in [Tids -> KStates] /\ tstate \in [Tids -> {"Running", "Suspended"}]
      /\ threads \subseteq Tids
    BY DEF IInv, TypeOK
<1>3. /\ k'[t] = "gone" /\ \A u \in Tids : u # t => k'[u] = k[u] /\ tstate'[u] = tstate[u]
    BY <1>1, <1>2
<1>4. /\ ~UserRunning(t) /\ \A u \in Tids : u # t => kev'[u] = kev[u]
      /\ kev'[t] = kev[t] \/ kev'[t] = "none"
    BY <1>1, TakeFacts DEF IInv
<1>5. kev'[t] \notin {"TRAP", "BENIGN"}
  <2>1. CASE FrontReady
    <3>1. deferred # <<>> /\ Head(deferred) = [tid |-> t, ev |-> "EXITED"]
        BY <1>1, <2>1 DEF Take, FrontReady
    <3>2. deferred \in Seq([tid : Tids, ev : Events])
        BY DEF IInv, TypeOK
    <3>3. 1 \in DOMAIN deferred /\ deferred[1].tid = t /\ deferred[1].ev = "EXITED"
        BY <3>1, <3>2, TailProperties
    <3>4. k[t] = "gone"
        BY <3>3 DEF IInv, ThreadTableAgrees, DeferredAtRest
    <3> QED BY <1>4, <3>4 DEF HeldInv, SignalsInOrder
  <2>2. CASE ~FrontReady
      BY <1>1, <1>4, <2>2 DEF Take
  <2> QED BY <2>1, <2>2
<1>6. \A u \in I : u \in Tids /\ u \in threads' /\ tstate[u] = "Running"
    BY <1>1, <1>2 DEF RunningIn
<1>7. Interrupted'
  <2> SUFFICES ASSUME NEW u \in Tids, sentIntr'[u] PROVE u \in threads' /\ tstate'[u] = "Running"
      BY DEF Interrupted
  <2>1. u # t /\ (sentIntr[u] \/ u \in I)
      BY <1>1
  <2>2. u \in threads' /\ tstate[u] = "Running"
    <3>1. CASE sentIntr[u]
        BY <1>1, <2>1, <3>1 DEF HeldInv, Interrupted
    <3>2. CASE u \in I
        BY <1>6, <3>2
    <3> QED BY <2>1, <3>1, <3>2
  <2> QED BY <1>3, <2>1, <2>2
<1>8. SignalsInOrder'
  <2> SUFFICES ASSUME NEW u \in Tids, kev'[u] \in {"TRAP", "BENIGN"}
               PROVE  u \in threads' /\ tstate'[u] = "Running" /\ k'[u] = "stop" /\ ~pastExit'[u]
      BY DEF SignalsInOrder
  <2>1. u # t /\ kev[u] = kev'[u]
      BY <1>4, <1>5
  <2>2. u \in threads /\ tstate[u] = "Running" /\ k[u] = "stop" /\ ~pastExit[u]
      BY <2>1 DEF HeldInv, SignalsInOrder
  <2> QED BY <1>1, <1>3, <2>1, <2>2
<1>9. ASSUME NEW u \in Tids, MayRun(u)', sentIntr'[u] \/ Held(u)' PROVE kint'[u]
  <2>1. u # t
      BY <1>3, <1>5, <1>9 DEF MayRun, UserRunning
  <2>2. MayRun(u)
      BY <1>1, <1>3, <1>4, <1>9, <2>1 DEF MayRun, UserRunning
  <2>3. u \in RunningIn(threads, tstate) /\ k[u] \in {"run", "stop"}
      BY <2>2, MayRunReached DEF HeldInv
  <2>4. CASE suspend
    <3>1. u \in I
        BY <1>1, <2>1, <2>3, <2>4 DEF RunningIn
    <3>2. CASE sentIntr[u]
        BY <1>1, <2>2, <3>2 DEF HeldInv, Halting
    <3>3. CASE ~sentIntr[u]
        BY <1>1, <2>3, <3>1, <3>3
    <3> QED BY <3>2, <3>3
  <2>5. CASE ~suspend
    <3>1. I = {}
        BY <2>5
    <3>2. Held(u)' => Held(u)
      <4>1. target' \in {"NoProcess", target} /\ UNCHANGED <<stepping, pendingStep, stopBps>>
          BY <1>1, <2>5
      <4> HIDE DEF suspend, I
      <4> QED BY <4>1 DEF Held, ProcessReady
    <3>3. sentIntr[u] \/ Held(u)
        BY <1>1, <1>9, <3>1, <3>2
    <3> QED BY <1>1, <2>2, <3>3 DEF HeldInv, Halting
  <2> QED BY <2>4, <2>5
<1>10. Halting'
    BY <1>9 DEF Halting
<1>11. AloneAtStart'
  <2> SUFFICES ASSUME target' = "Starting" PROVE AloneAtStart'
      BY DEF AloneAtStart
  <2>1. target = "Starting"
      BY <1>1
  <2>2. t = Main
      BY <1>1, <2>1, StartTakes
  <2>3. \A u \in Tids : u # Main => k'[u] = "none"
      BY <1>3, <2>1, <2>2 DEF HeldInv, AloneAtStart
  <2> QED BY <1>3, <2>2, <2>3 DEF AloneAtStart, UserRunning
<1> QED BY <1>7, <1>8, <1>10, <1>11 DEF HeldInv

LEMMA DeferHeld ==
    ASSUME IInv, StartupInOrder, HeldInv, NEW t \in Tids, DeferEvent(t)
    PROVE  HeldInv'
<1>1. /\ t \notin threads /\ kev[t] # "none"
      /\ kev' = [kev EXCEPT ![t] = "none"]
      /\ k' = [k EXCEPT ![t] = IF @ = "zombie" THEN "gone" ELSE @]
      /\ UNCHANGED <<kint, pastExit, boot, target, stopBps, stepping, pendingStep, threads,
                     tstate, sentIntr>>
    BY DEF DeferEvent, Reapable, tvars
<1>2. /\ k \in [Tids -> KStates] /\ kev \in [Tids -> Events \cup {"none"}]
    BY DEF IInv, TypeOK
<1>3. /\ kev'[t] = "none" /\ k'[t] # "run"
      /\ \A u \in Tids : u # t => k'[u] = k[u] /\ kev'[u] = kev[u]
  <2>1. k[t] \in {"stop", "zombie"}
      BY <1>1 DEF IInv, ThreadTableAgrees, StatusAtRest
  <2> QED BY <1>1, <1>2, <2>1
<1>4. Interrupted'
    BY <1>1 DEF HeldInv, Interrupted
<1>5. SignalsInOrder'
    BY <1>1, <1>3 DEF HeldInv, SignalsInOrder
<1>6. Halting'
  <2> SUFFICES ASSUME NEW u \in Tids, MayRun(u)', sentIntr'[u] \/ Held(u)' PROVE kint'[u]
      BY DEF Halting
  <2>1. u # t
      BY <1>3 DEF MayRun, UserRunning
  <2>2. MayRun(u) /\ (sentIntr[u] \/ Held(u))
      BY <1>1, <1>3, <2>1, HeldKept DEF MayRun, UserRunning
  <2> QED BY <1>1, <2>2 DEF HeldInv, Halting
<1>7. AloneAtStart'
  <2>1. k[t] # "none"
      BY <1>1 DEF IInv, ThreadTableAgrees, StatusAtRest
  <2>2. t # Main
      BY <1>1, <2>1 DEF StartupInOrder, IInv, ThreadTableAgrees, StatusAtRest
  <2> QED BY <1>1, <2>1, <2>2 DEF HeldInv, AloneAtStart
<1> QED BY <1>4, <1>5, <1>6, <1>7 DEF HeldInv

\* Steps that leave all of this alone.
LEMMA UntouchedHeld ==
    ASSUME HeldInv, UNCHANGED <<k, kev, kint, pastExit, boot, target, threads, stopBps, stepping,
                                pendingStep, tstate, sentIntr>>
    PROVE  HeldInv'
BY DEF HeldInv, Interrupted, SignalsInOrder, Halting, AloneAtStart, MayRun, Held, UserRunning

LEMMA KernelHeld ==
    ASSUME IInv, StartupInOrder, HeldInv, KernelNext
    PROVE  HeldInv'
<1>a. /\ k \in [Tids -> KStates] /\ kev \in [Tids -> Events \cup {"none"}]
      /\ kint \in [Tids -> BOOLEAN] /\ pastExit \in [Tids -> BOOLEAN]
      /\ Main \in Tids
    BY TidsAssumption DEF IInv, TypeOK
<1>b. UNCHANGED <<target, threads, stopBps, stepping, pendingStep, tstate, sentIntr>>
    BY DEF KernelNext, KernelTrapStop, KernelSignal, KernelClone, KernelSigstop, KernelExec,
           KernelExitStop, KernelKill, KernelDie, pvars, tvars
<1>c. Interrupted'
    BY <1>b DEF HeldInv, Interrupted
<1>d. \A t \in Tids : UserRunning(t) => t \in threads /\ tstate[t] = "Running"
    BY DEF IInv, ThreadTableAgrees, RunnersKnown
<1>e. target = "Starting" => /\ \A u \in Tids : u # Main => k[u] = "none"
                             /\ boot = "up" => ~UserRunning(Main)
    BY DEF HeldInv, AloneAtStart
\* A thread t comes to rest or dies, perhaps after another one was born.
<1>1. ASSUME NEW t \in Tids, k'[t] # "run", \A u \in Tids : u # t => kev'[u] = kev[u],
             \A u \in Tids : u # t => kint'[u] = kint[u] /\ pastExit'[u] = pastExit[u],
             \A u \in Tids : u # t => k'[u] = k[u] \/ (k[u] = "none" /\ k'[u] = "born"),
             kev'[t] \in {"TRAP", "BENIGN"} =>
                 UserRunning(t) /\ ~kint[t] /\ k'[t] = "stop" /\ ~pastExit'[t]
      PROVE  SignalsInOrder' /\ Halting'
  <2>1. SignalsInOrder'
    <3> SUFFICES ASSUME NEW u \in Tids, kev'[u] \in {"TRAP", "BENIGN"}
                 PROVE  u \in threads' /\ tstate'[u] = "Running" /\ k'[u] = "stop" /\ ~pastExit'[u]
        BY DEF SignalsInOrder
    <3>1. CASE u = t
        BY <1>1, <1>b, <1>d, <3>1
    <3>2. CASE u # t
      <4>1. u \in threads /\ tstate[u] = "Running" /\ k[u] = "stop" /\ ~pastExit[u]
          BY <1>1, <3>2 DEF HeldInv, SignalsInOrder
      <4> QED BY <1>1, <1>b, <3>2, <4>1
    <3> QED BY <3>1, <3>2
  <2>2. Halting'
    <3> SUFFICES ASSUME NEW u \in Tids, MayRun(u)', sentIntr'[u] \/ Held(u)' PROVE kint'[u]
        BY DEF Halting
    <3>1. sentIntr[u] \/ Held(u)
        BY <1>b, HeldKept
    <3>2. CASE u = t
      <4>1. UserRunning(t) /\ ~kint[t]
          BY <1>1, <3>2 DEF MayRun, UserRunning
      <4> QED BY <3>1, <3>2, <4>1 DEF HeldInv, Halting, MayRun
    <3>3. CASE u # t
      <4>1. MayRun(u)
          BY <1>1, <3>3 DEF MayRun, UserRunning
      <4> QED BY <1>1, <3>1, <3>3, <4>1 DEF HeldInv, Halting
    <3> QED BY <3>2, <3>3
  <2> QED BY <2>1, <2>2
<1>2. ASSUME NEW t \in Tids, NEW e \in Events, KStop(t, e), UNCHANGED <<pastExit, boot>>,
             k[t] = "born" \/ (UserRunning(t) /\ boot = "up"),
             e \in {"TRAP", "BENIGN"} => UserRunning(t) /\ ~kint[t]
      PROVE  HeldInv'
  <2>1. /\ k' = [k EXCEPT ![t] = "stop"] /\ kev' = [kev EXCEPT ![t] = e]
        /\ kint' = [kint EXCEPT ![t] = FALSE]
      BY <1>2 DEF KStop
  <2>2. SignalsInOrder' /\ Halting'
      BY <1>1, <1>2, <1>a, <2>1 DEF UserRunning
  <2>3. target # "Starting"
      BY <1>2, <1>e DEF StartupInOrder, UserRunning
  <2> QED BY <1>b, <1>c, <2>2, <2>3 DEF HeldInv, AloneAtStart
<1>3. ASSUME NEW t \in Tids, KernelTrapStop(t) PROVE HeldInv'
    BY <1>2, <1>3 DEF KernelTrapStop, Events, StopEvents
<1>4. ASSUME NEW t \in Tids, NEW e, KernelSignal(t, e) PROVE HeldInv'
    BY <1>2, <1>4 DEF KernelSignal, Events, StopEvents
<1>5. ASSUME NEW t \in Tids, NEW u \in Tids, KernelClone(t, u) PROVE HeldInv'
  <2>1. /\ UserRunning(t) /\ boot = "up" /\ k[u] = "none"
        /\ k' = [k EXCEPT ![t] = "stop", ![u] = "born"]
        /\ kev' = [kev EXCEPT ![t] = "CLONE"]
        /\ kint' = [kint EXCEPT ![t] = FALSE]
        /\ UNCHANGED <<pastExit, boot>>
      BY <1>5 DEF KernelClone
  <2>2. t # u
      BY <2>1 DEF UserRunning
  <2>3. k'[t] = "stop" /\ k'[u] = "born" /\ \A v \in Tids : v # t /\ v # u => k'[v] = k[v]
      BY <1>a, <2>1, <2>2
  <2>4. SignalsInOrder' /\ Halting'
      BY <1>1, <1>a, <2>1, <2>3
  <2>5. target # "Starting"
      BY <1>e, <2>1 DEF UserRunning
  <2> QED BY <1>b, <1>c, <2>4, <2>5 DEF HeldInv, AloneAtStart
<1>6. CASE KernelSigstop
  <2>1. /\ k' = [k EXCEPT ![Main] = "stop"] /\ kev' = [kev EXCEPT ![Main] = "SIGSTOP"]
        /\ kint' = [kint EXCEPT ![Main] = FALSE]
        /\ UNCHANGED pastExit /\ boot' = "exec"
      BY <1>6 DEF KernelSigstop, KStop
  <2>2. SignalsInOrder' /\ Halting'
      BY <1>1, <1>a, <2>1
  <2>3. AloneAtStart'
      BY <1>a, <1>b, <1>e, <2>1 DEF AloneAtStart
  <2> QED BY <1>c, <2>2, <2>3 DEF HeldInv
<1>7. CASE KernelExec
  <2>1. /\ k' = [k EXCEPT ![Main] = "stop"] /\ kev' = [kev EXCEPT ![Main] = "EXEC"]
        /\ kint' = [kint EXCEPT ![Main] = FALSE] /\ UserRunning(Main)
        /\ UNCHANGED pastExit /\ boot' = "up"
      BY <1>7 DEF KernelExec, KStop
  <2>2. SignalsInOrder' /\ Halting'
      BY <1>1, <1>a, <2>1
  <2>3. AloneAtStart'
      BY <1>a, <1>b, <1>d, <1>e, <2>1 DEF AloneAtStart, UserRunning
  <2> QED BY <1>c, <2>2, <2>3 DEF HeldInv
<1>8. ASSUME NEW t \in Tids, KernelExitStop(t) PROVE HeldInv'
  <2>1. /\ k' = [k EXCEPT ![t] = "stop"] /\ kev' = [kev EXCEPT ![t] = "EXIT"]
        /\ kint' = [kint EXCEPT ![t] = FALSE]
        /\ pastExit' = [pastExit EXCEPT ![t] = TRUE] /\ k[t] # "none" /\ boot' = boot
      BY <1>8 DEF KernelExitStop, KStop, UserRunning, Alive
  <2>2. SignalsInOrder' /\ Halting'
      BY <1>1, <1>a, <2>1
  <2>3. AloneAtStart'
      BY <1>a, <1>b, <1>e, <2>1 DEF AloneAtStart, UserRunning
  <2> QED BY <1>c, <2>2, <2>3 DEF HeldInv
<1>9. CASE KernelKill
    BY <1>9, UntouchedHeld DEF KernelKill, pvars, tvars
<1>10. ASSUME NEW t \in Tids, KernelDie(t) PROVE HeldInv'
  <2>1. /\ k' = [k EXCEPT ![t] = "zombie"] /\ kev' = [kev EXCEPT ![t] = "EXITED"]
        /\ kint' = [kint EXCEPT ![t] = FALSE]
        /\ k[t] # "none" /\ UNCHANGED <<pastExit, boot>>
      BY <1>10 DEF KernelDie, Alive
  <2>2. SignalsInOrder' /\ Halting'
      BY <1>1, <1>a, <2>1
  <2>3. AloneAtStart'
      BY <1>a, <1>b, <1>e, <2>1 DEF AloneAtStart, UserRunning
  <2> QED BY <1>c, <2>2, <2>3 DEF HeldInv
<1> QED BY <1>3, <1>4, <1>5, <1>6, <1>7, <1>8, <1>9, <1>10 DEF KernelNext


\* try_pending_step_and_activate_breakpoints(): a step that is given up was not running
\* anything, and everything is interrupted that has to wait.
LEMMA TryPendingHeld ==
    ASSUME IInv, HeldInv, StepsInOrder', ProcessReady(target), UNCHANGED threads,
           NEW tgt, tgt # "Starting", tgt = "Suspended" => target = "Suspended",
           NEW ps \in [tid : Tids \cup {NoTid}, on : {"none", "exec", "cursor"}],
           IF ps.on = "none" THEN ps = NoPending ELSE ps # NoPending,
           NEW st, NEW mayFail,
           ps.on = "exec" \/ (mayFail /\ ps.on = "cursor") => \A t \in Tids : Held(t),
           tgt = "Stepping" /\ ps = NoPending =>
               \A t \in Tids : st.keep /\ st.tid # t => Held(t),
           TryPendingStep(tgt, ps, st, mayFail)
    PROVE  HeldInv'
<1>1. PICK b \in Resolve(bp), s \in ResolveStep(ps, mayFail) : TryPendingStepAs(tgt, ps, st, b, s)
    BY DEF TryPendingStep
<1> DEFINE Run == RunningIn(threads, tstate)
           arrange == s = "start" \/ (b = "active" /\ bp # "active")
           I == (IF arrange THEN ArrangeInterrupts ELSE {})
                    \cup (IF waitSyms' # NoBinary THEN Run ELSE {})
           R == IF waitSyms' = NoBinary THEN ResumeSet ELSE {}
<1>2. /\ target' = IF s = "stop" THEN "Suspended" ELSE tgt
      /\ pendingStep' = IF s \in {"stop", "start"} THEN NoPending ELSE ps
      /\ stepping' = IF s = "start" THEN [tid |-> ps.tid, keep |-> FALSE] ELSE st
      /\ IF arrange THEN ArrangeHandle ELSE UNCHANGED stopBps
      /\ waitSyms' \in WaitFor(pendingStep', b)
      /\ \E A : PtraceNow(I, R, A)
    BY <1>1 DEF TryPendingStepAs
<1>3. I \in SUBSET Run /\ R \in SUBSET ResumeSet
    BY DEF ArrangeInterrupts
<1>4. target' # "Starting"
    BY <1>2
<1>5. I = Run \/ (waitSyms' = NoBinary /\ stopBps' = stopBps)
  <2>1. CASE waitSyms' # NoBinary
      BY <1>3, <2>1
  <2>2. CASE waitSyms' = NoBinary /\ arrange
      BY <1>2, <2>2 DEF ArrangeInterrupts, ArrangeHandle, IInv, TypeOK
  <2>3. CASE waitSyms' = NoBinary /\ ~arrange
      BY <1>2, <2>3
  <2> QED BY <2>1, <2>2, <2>3
<1> HIDE DEF I, R, arrange
<1>6. ASSUME waitSyms' = NoBinary, stopBps' = stopBps, NEW t \in Tids, Held(t)' PROVE Held(t)
  <2>1. /\ s \in {"none", "stop", "start", "wait"}
        /\ s = "none" <=> ps.on = "none"
        /\ s = "wait" => loading # {}
        /\ s = "stop" => ps.on = "exec" \/ (mayFail /\ ps.on = "cursor")
    <3>1. /\ s \in {"none", "stop", "start", "wait"}
          /\ s = "none" <=> ps.on = "none"
          /\ s = "wait" => loading # {}
        BY <1>1, ResolvedStep
    <3>2. s = "stop" /\ ps.on = "cursor" => mayFail
      <4> SUFFICES ASSUME s = "stop", ps.on = "cursor", ~mayFail PROVE FALSE
          OBVIOUS
      <4>1. ResolveStep(ps, mayFail) = {"start"} \cup (IF loading # {} THEN {"wait"} ELSE {}) \cup {}
          BY DEF ResolveStep
      <4> QED BY <1>1, <4>1
    <3> QED BY <3>1, <3>2
  <2>2. CASE stopBps'
      BY <1>6, <2>2 DEF Held
  <2>3. CASE ~stopBps' /\ s = "stop"
      BY <2>1, <2>3
  <2>4. CASE ~stopBps' /\ s = "none"
      BY <1>2, <1>6, <2>1, <2>4 DEF Held
  <2>5. CASE ~stopBps' /\ s = "start"
    <3>1. [tid |-> ps.tid, keep |-> FALSE].keep = FALSE
        OBVIOUS
    <3>2. stepping'.keep = FALSE
        BY <1>2, <2>5, <3>1
    <3> QED BY <1>2, <1>6, <2>5, <3>2 DEF Held
  <2>6. CASE s = "wait"
    <3>1. NeedSymbols(pendingStep', b) /\ loading # {}
        BY <1>2, <2>1, <2>6 DEF NeedSymbols
    <3>2. NoBinary \notin loading
        BY BinariesAssumption DEF IInv, TypeOK
    <3> QED BY <1>2, <1>6, <3>1, <3>2 DEF WaitFor
  <2> QED BY <2>1, <2>2, <2>3, <2>4, <2>5, <2>6
<1>7. (\A t \in Tids : Held(t)' => Held(t)) \/ I = Run
    BY <1>5, <1>6
<1> QED BY <1>2, <1>3, <1>4, <1>7, PtraceNowHeld

LEMMA TailHeld ==
    ASSUME IInv, ExitInv, StepsInOrder, StepsInOrder', HeldInv,
           EndLoop \/ InitialExecTail \/ HandleBreakpointsTail \/ DropCaches
    PROVE  HeldInv'
<1>a. /\ pendingStep \in [tid : Tids \cup {NoTid}, on : {"none", "exec", "cursor"}]
      /\ IF pendingStep.on = "none" THEN pendingStep = NoPending ELSE pendingStep # NoPending
  <2>1. NoPending.on = "none"
      BY DEF NoPending
  <2> QED BY <2>1 DEF IInv, TypeOK, StepsInOrder
<1>1. CASE EndLoop
    BY <1>1, UntouchedHeld DEF EndLoop, kvars, pvars, tvars
<1>2. CASE InitialExecTail
  <2>1. /\ pc = "exec" /\ UNCHANGED threads
        /\ TryPendingStep(IF pendingStep # NoPending THEN "Stepping" ELSE "Running",
                          pendingStep, stepping, TRUE)
      BY <1>2 DEF InitialExecTail
  <2>2. ProcessReady(target)
      BY <2>1 DEF ExitInv, ExecReady
  <2>3. target = "Suspended"
      BY <2>1, <2>2 DEF StepsInOrder, ProcessReady
  <2>4. \A t \in Tids : Held(t)
      BY <2>3 DEF Held
  <2> QED BY <1>a, <2>1, <2>2, <2>4, TryPendingHeld
<1>3. CASE HandleBreakpointsTail
  <2>1. UNCHANGED <<threads, target, stepping, pendingStep>>
      BY <1>3 DEF HandleBreakpointsTail
  <2>2. CASE stopBps /\ RunningIn(threads, tstate) = {}
    <3>1. stopBps' = FALSE /\ \E A : PtraceNow({}, ResumeSet, A)
        BY <1>3, <2>2 DEF HandleBreakpointsTail
    <3>2. \A t \in Tids : Held(t)' => Held(t)
        BY <2>1, <3>1 DEF Held
    <3> QED BY <2>1, <3>1, <3>2, PtraceNowHeld
  <2>3. CASE ~(stopBps /\ RunningIn(threads, tstate) = {})
    <3>1. UNCHANGED <<stopBps, kvars, tstate, sentIntr>>
        BY <1>3, <2>3 DEF HandleBreakpointsTail
    <3> QED BY <2>1, <3>1, UntouchedHeld DEF kvars
  <2> QED BY <2>2, <2>3
<1>4. CASE DropCaches
  <2>1. pc = "drop" /\ UNCHANGED threads
      BY <1>4 DEF DropCaches
  <2>2. CASE ProcessReady(target)
    <3>1. TryPendingStep(target, pendingStep, stepping, TRUE)
        BY <1>4, <2>2 DEF DropCaches
    <3>2. pendingStep # NoPending => target = "Stepping"
        BY <2>1, <2>2 DEF StepsInOrder, ProcessReady
    <3>3. pendingStep # NoPending => \A t \in Tids : Held(t)
        BY <3>2 DEF Held
    <3>4. target = "Stepping" => \A t \in Tids : stepping.keep /\ stepping.tid # t => Held(t)
        BY DEF Held
    <3>5. target # "Starting"
        BY <2>2 DEF ProcessReady
    <3> QED BY <1>a, <2>1, <2>2, <3>1, <3>3, <3>4, <3>5, TryPendingHeld
  <2>3. CASE ~ProcessReady(target)
    <3>1. UNCHANGED <<kvars, target, stopBps, stepping, pendingStep, tstate, sentIntr>>
        BY <1>4, <2>3 DEF DropCaches
    <3> QED BY <2>1, <3>1, UntouchedHeld DEF kvars
  <2> QED BY <2>2, <2>3
<1> QED BY <1>1, <1>2, <1>3, <1>4

LEMMA AddBreakpointHeld ==
    ASSUME IInv, StepsInOrder', HeldInv, AddBreakpoint
    PROVE  HeldInv'
<1>1. UNCHANGED <<target, stepping, pendingStep, threads>>
    BY DEF AddBreakpoint, OnlyControl
<1>2. CASE ProcessReady(target)
  <2>1. PICK b \in Resolve("new") : ActivateBreakpointAs(b)
      BY <1>2 DEF AddBreakpoint, ActivateBreakpoint
  <2> DEFINE Run == RunningIn(threads, tstate)
             I == (IF b = "active" THEN ArrangeInterrupts ELSE {})
                     \cup (IF b = "loading" /\ waitSyms = NoBinary THEN Run ELSE {})
  <2>2. /\ IF b = "active" THEN ArrangeHandle ELSE UNCHANGED stopBps
        /\ \E A : PtraceNow(I, {}, A)
      BY <2>1 DEF ActivateBreakpointAs
  <2>3. I \in SUBSET Run /\ {} \in SUBSET ResumeSet
      BY DEF ArrangeInterrupts
  <2>4. I = Run \/ stopBps' = stopBps
      BY <2>2, <2>3 DEF ArrangeInterrupts, ArrangeHandle, IInv, TypeOK
  <2>5. (\A t \in Tids : Held(t)' => Held(t)) \/ I = Run
      BY <1>1, <2>4, HeldKept
  <2> HIDE DEF I
  <2> QED BY <1>1, <2>2, <2>3, <2>5, PtraceNowHeld
<1>3. CASE ~ProcessReady(target)
  <2>1. UNCHANGED <<kvars, stopBps, tstate, sentIntr>>
      BY <1>3 DEF AddBreakpoint
  <2> QED BY <1>1, <2>1, UntouchedHeld DEF kvars
<1> QED BY <1>2, <1>3

LEMMA StartChildHeld ==
    ASSUME IInv, HeldInv, NEW on, StartChild(on)
    PROVE  HeldInv'
<1>1. /\ k' = [t \in Tids |-> IF t = Main THEN "run" ELSE "none"]
      /\ kev' = [t \in Tids |-> "none"]
      /\ target = "NoProcess" /\ target' = "Starting" /\ stopBps' = FALSE
      /\ boot' = "sigstop" /\ UNCHANGED sentIntr
    BY DEF StartChild, tvars
<1>2. \A t \in Tids : ~sentIntr[t]
    BY <1>1 DEF HeldInv, Interrupted, IInv, ThreadTableAgrees, NoProcessNoThreads
<1>3. \A t \in Tids : ~Held(t)'
    BY <1>1 DEF Held
<1>4. Interrupted' /\ Halting'
    BY <1>1, <1>2, <1>3 DEF Interrupted, Halting
<1>5. SignalsInOrder'
    BY <1>1 DEF SignalsInOrder
<1>6. AloneAtStart'
    BY <1>1 DEF AloneAtStart
<1> QED BY <1>4, <1>5, <1>6 DEF HeldInv

\* What the user does.  A "run to cursor" that fails at once would leave the other
\* threads running in a suspended process: see the run PtraceCursor.
LEMMA UserHeld ==
    ASSUME ~CursorCanFail, IInv, StepsInOrder, StepsInOrder', HeldInv, UserNext
    PROVE  HeldInv'
<1>1. CASE Resume
  <2>1. /\ pc = "idle" /\ target' = "Running" /\ UNCHANGED <<stopBps, threads>>
        /\ target \in {"Suspended", "Stepping", "Running"}
        /\ \E A : PtraceNow({}, ResumeSet, A)
      BY <1>1 DEF Resume, OnlyControl
  <2>2. \A t \in Tids : Held(t)' => Held(t)
      BY <2>1 DEF Held, ProcessReady
  <2> QED BY <2>1, <2>2, PtraceNowHeld
<1>2. CASE Suspend
  <2>1. /\ target' = "Suspended" /\ UNCHANGED threads
        /\ PtraceNow(RunningIn(threads, tstate), {}, {})
      BY <1>2 DEF Suspend, OnlyControl
  <2> QED BY <2>1, PtraceNowHeld
<1>3. ASSUME NEW t \in Tids, NEW keep \in BOOLEAN, NEW newLocations \in BOOLEAN,
             Step(t, keep, newLocations)
      PROVE  HeldInv'
  <2> DEFINE I == IF newLocations THEN ArrangeInterrupts ELSE {}
             R == IF keep THEN ResumeSet \cap {t} ELSE ResumeSet
  <2>1. /\ target = "Suspended" /\ target' = "Stepping" /\ UNCHANGED threads
        /\ \E A : PtraceNow(I, R, A)
      BY <1>3 DEF Step, OnlyControl
  <2>2. I \in SUBSET RunningIn(threads, tstate) /\ R \in SUBSET ResumeSet
      BY DEF ArrangeInterrupts
  <2>3. \A u \in Tids : Held(u)
      BY <2>1 DEF Held
  <2> HIDE DEF I, R
  <2> QED BY <2>1, <2>2, <2>3, PtraceNowHeld
<1>4. ASSUME NEW t \in Tids, StepToCursor(t) PROVE HeldInv'
  <2> DEFINE ps == [tid |-> t, on |-> "cursor"]
  <2>1. /\ ProcessReady(target) /\ UNCHANGED threads
        /\ TryPendingStep("Stepping", ps, NoStep, CursorCanFail \/ target = "Suspended")
      BY <1>4 DEF StepToCursor, OnlyControl
  <2>2. /\ ps \in [tid : Tids \cup {NoTid}, on : {"none", "exec", "cursor"}]
        /\ ps.on = "cursor" /\ ps # NoPending
      BY DEF NoPending
  <2>3. target = "Suspended" => \A u \in Tids : Held(u)
      BY DEF Held
  <2> HIDE DEF ps
  <2> QED BY <2>1, <2>2, <2>3, TryPendingHeld
<1>5. CASE RemoveBreakpoint
    BY <1>5, UntouchedHeld DEF RemoveBreakpoint, kvars, pvars, tvars
<1>6. CASE Murder
    BY <1>6, UntouchedHeld DEF Murder, pvars, tvars
<1> QED BY <1>1, <1>2, <1>3, <1>4, <1>5, <1>6, StartChildHeld, AddBreakpointHeld DEF UserNext

LEMMA NextHeld ==
    ~CursorCanFail /\ IInv /\ ExitInv /\ StartupInOrder /\ StepsInOrder /\ AssertionsHold /\ HeldInv
        /\ [Next]_vars => HeldInv'
<1> SUFFICES ASSUME ~CursorCanFail, IInv, ExitInv, StartupInOrder, StepsInOrder, AssertionsHold,
                    HeldInv, [Next]_vars
             PROVE  HeldInv'
    OBVIOUS
<1>1. StepsInOrder'
    BY NextSteps
<1>2. ASSUME NEW t \in Tids, HandleEvent(t) PROVE HeldInv'
    BY <1>1, <1>2, ExitedHeld, StopsHeld, EsrchHeld, DeferHeld DEF HandleEvent
<1>3. CASE DebuggerNext
    BY <1>1, <1>2, <1>3, TailHeld DEF DebuggerNext
<1>4. ASSUME NEW done, SymbolsEvent(done) PROVE HeldInv'
    BY <1>4, UntouchedHeld DEF SymbolsEvent, kvars, pvars, tvars
<1>5. CASE UNCHANGED vars
    BY <1>5, UntouchedHeld DEF vars, kvars, pvars, tvars
<1> QED BY <1>1, <1>3, <1>4, <1>5, KernelHeld, UserHeld DEF Next

LEMMA InitHeld == Init => HeldInv
BY DEF Init, HeldInv, Interrupted, SignalsInOrder, Halting, AloneAtStart, MayRun, UserRunning

\* HeldThreadsStay: once a process counts as suspended, or one of its threads is stepped
\* alone, whatever could still execute it has a STOP trap pending.  The assumption is that
\* "run to cursor" names a line with code: without it the claim is false (run PtraceCursor).
THEOREM HeldCorrect == ~CursorCanFail => (Spec => []HeldThreadsStay)
<1> SUFFICES ASSUME ~CursorCanFail PROVE Spec => []HeldThreadsStay
    OBVIOUS
<1> DEFINE Inv == /\ IInv /\ ExitInv /\ StartupInOrder /\ StepsInOrder /\ AssertionsHold
                  /\ HeldInv
<1>1. Init => Inv
    BY InitKeeps, InitOrdered, InitHeld
<1>2. Inv /\ [Next]_vars => Inv'
    BY NextKeeps, NextExit, NextStartup, NextSteps, NextHeld
<1>3. Inv => HeldThreadsStay
    BY DEF HeldInv, Halting, MayRun, Held, HeldThreadsStay, SuspendedStopsThreads, StepIsolation
<1> HIDE DEF Inv
<1> QED BY <1>1, <1>2, <1>3, PTL DEF Spec

(***************************************************************************)
(* Nobody waits for a stop that does not come.  Until the process is       *)
(* killed, every thread of the table exists, a thread marked as running    *)
(* has a status on its way or can still be stopped, a thread outside the   *)
(* table will be announced by its parent, one live thread is known, and    *)
(* while all threads are being stopped one of them has not stopped yet.    *)
(***************************************************************************)

\* What is known of a thread at each stage of its life.
Lives ==
    \A t \in Tids :
        /\ k[t] \in {"none", "born"} => ~pastExit[t]
        /\ pastExit[t] /\ k[t] = "stop" => kev[t] = "EXIT"
        /\ pastExit[t] /\ k[t] \in {"run", "zombie"} => exiting[t]
        /\ k[t] = "zombie" => pastExit[t]
        /\ t \in threads => k[t] \notin {"none", "gone"}
        /\ tstate[t] = "Running" /\ k[t] = "stop" /\ kev[t] = "none" =>
              \E i \in DOMAIN deferred : deferred[i].tid = t

\* A thread the debugger has not heard of is the child of exactly one reported clone().
Births ==
    /\ \A t \in Tids : t \notin threads /\ k[t] \notin {"none", "gone"} =>
          \E p \in threads : kmsg[p] = t /\ kev[p] = "CLONE"
    /\ \A t \in Tids : kev[t] = "CLONE" =>
          /\ kmsg[t] \notin threads /\ k[kmsg[t]] \notin {"none", "gone"}
          /\ \A u \in Tids : kev[u] = "CLONE" /\ kmsg[u] = kmsg[t] => u = t

LiveKnown ==
    target = "Starting" \/ ProcessReady(target) => anyLive \in threads /\ ~exiting[anyLive]

\* Breakpoints wait for threads to stop, and the tail of process_events() will not run.
Stopping ==
    /\ stopBps /\ ProcessReady(target)
    /\ pc \in {"idle", "drop"} \/ (pc = "loop" /\ ~nontrivial)

StillStopping == Stopping => RunningIn(threads, tstate) # {}

LiveInv == ~killed => Lives /\ Births /\ LiveKnown /\ StillStopping

\* Entries of other threads stay in pending_wait_events.
LEMMA TakeKeepsOthers ==
    ASSUME TypeOK, NEW t \in Tids, NEW e, Take(t, e), NEW i \in DOMAIN deferred, deferred[i].tid # t
    PROVE  \E j \in DOMAIN deferred' : deferred'[j] = deferred[i]
<1>1. deferred \in Seq([tid : Tids, ev : Events])
    BY DEF TypeOK
<1>2. CASE FrontReady
  <2>1. /\ deferred # <<>> /\ Head(deferred) = [tid |-> t, ev |-> e]
        /\ deferred' = Tail(deferred)
      BY <1>2 DEF Take, FrontReady
  <2>2. deferred[1].tid = t
      BY <1>1, <2>1, TailProperties
  <2>3. i # 1
      BY <2>2
  <2>4. i - 1 \in DOMAIN deferred' /\ deferred'[i - 1] = deferred[i]
    <3>1. Len(deferred) \in Nat /\ i \in 1..Len(deferred) /\ i \in 2..Len(deferred)
        BY <1>1, <2>3
    <3>2. /\ Len(Tail(deferred)) = Len(deferred) - 1
          /\ \A j \in 1..Len(Tail(deferred)) : Tail(deferred)[j] = deferred[j + 1]
        BY <1>1, <2>1
    <3>3. i - 1 \in 1..Len(Tail(deferred)) /\ (i - 1) + 1 = i
        BY <3>1, <3>2
    <3>4. DOMAIN Tail(deferred) = 1..Len(Tail(deferred))
        BY <1>1, <2>1
    <3> QED BY <2>1, <3>2, <3>3, <3>4
  <2> QED BY <2>4
<1>3. CASE ~FrontReady
    BY <1>3 DEF Take
<1> QED BY <1>2, <1>3

\* Requests outside the handling of a status.
LEMMA PtraceNowLive ==
    ASSUME IInv, StopsAccounted, LiveInv,
           NEW I, NEW R \in SUBSET SuspendedIn(threads, tstate), NEW A, PtraceNow(I, R, A),
           UNCHANGED <<threads, deferred, anyLive, exiting>>,
           target' = "Starting" \/ ProcessReady(target)' => target = "Starting" \/ ProcessReady(target),
           Stopping' => Stopping \/ RunningIn(threads, tstate) # {}
    PROVE  LiveInv'
<1>a. /\ k \in [Tids -> KStates] /\ kev \in [Tids -> Events \cup {"none"}]
      /\ tstate \in [Tids -> {"Running", "Suspended"}] /\ threads \subseteq Tids
      /\ kmsg \in [Tids -> Tids]
    BY DEF IInv, TypeOK
<1>b. /\ tstate' = [t \in Tids |-> IF t \in R THEN "Running" ELSE tstate[t]]
      /\ k' = [t \in Tids |-> IF t \in R /\ k[t] = "stop" THEN "run" ELSE k[t]]
      /\ kev' = [t \in Tids |-> IF t \in R /\ k[t] = "stop" THEN "none" ELSE kev[t]]
      /\ UNCHANGED <<pastExit, kmsg, killed>>
    BY DEF PtraceNow, Ptrace
<1> SUFFICES ASSUME ~killed PROVE Lives' /\ Births' /\ LiveKnown' /\ StillStopping'
    BY <1>b DEF LiveInv
<1>c. Lives /\ Births /\ LiveKnown /\ StillStopping
    BY DEF LiveInv
<1>d. \A t \in R : t \in Tids /\ t \in threads /\ tstate[t] = "Suspended" /\ k[t] = "stop" /\ kev[t] = "none"
    BY <1>a DEF SuspendedIn, StopsAccounted
<1>e. \A t \in Tids : (k'[t] \in {"none", "gone"} <=> k[t] \in {"none", "gone"})
                        /\ (kev'[t] = "CLONE" <=> kev[t] = "CLONE")
    BY <1>a, <1>b, <1>d
<1>1. Lives'
  <2> SUFFICES ASSUME NEW t \in Tids
               PROVE  /\ k'[t] \in {"none", "born"} => ~pastExit'[t]
                      /\ pastExit'[t] /\ k'[t] = "stop" => kev'[t] = "EXIT"
                      /\ pastExit'[t] /\ k'[t] \in {"run", "zombie"} => exiting'[t]
                      /\ k'[t] = "zombie" => pastExit'[t]
                      /\ t \in threads' => k'[t] \notin {"none", "gone"}
                      /\ tstate'[t] = "Running" /\ k'[t] = "stop" /\ kev'[t] = "none" =>
                            \E i \in DOMAIN deferred' : deferred'[i].tid = t
      BY DEF Lives
  <2>1. CASE t \in R
    <3>1. k'[t] = "run" /\ ~pastExit[t]
        BY <1>b, <1>c, <1>d, <2>1 DEF Lives
    <3> QED BY <1>b, <3>1
  <2>2. CASE t \notin R
    <3>1. k'[t] = k[t] /\ kev'[t] = kev[t] /\ tstate'[t] = tstate[t]
        BY <1>b, <2>2
    <3> QED BY <1>b, <1>c, <3>1 DEF Lives
  <2> QED BY <2>1, <2>2
<1>2. Births'
    BY <1>a, <1>b, <1>c, <1>e DEF Births
<1>3. LiveKnown'
    BY <1>c DEF LiveKnown
<1>4. StillStopping'
  <2> SUFFICES ASSUME Stopping' PROVE RunningIn(threads, tstate)' # {}
      BY DEF StillStopping
  <2>1. PICK t \in RunningIn(threads, tstate) : TRUE
      BY <1>c DEF StillStopping
  <2>2. t \in threads /\ tstate'[t] = "Running" /\ ~exiting[t]
      BY <1>a, <1>b, <2>1 DEF RunningIn
  <2> QED BY <2>2 DEF RunningIn
<1> QED BY <1>1, <1>2, <1>3, <1>4

\* Handling a stop of t.
LEMMA FinishStopLive ==
    ASSUME IInv, StopsAccounted, LiveInv, NEW t \in Tids, NEW e, Take(t, e), e # "EXITED",
           NEW ts, NEW si, NEW ps, NEW I, NEW A,
           ts = [tstate EXCEPT ![t] = "Suspended"],
           NEW R \in SUBSET (SuspendedIn(threads \ {t}, tstate) \cup {t}),
           Ptrace(KevTaken(t), ts, si, ps, I, R, A),
           threads' = IF e = "CLONE" THEN threads \cup {kmsg[t]} ELSE threads,
           exiting' = IF e = "EXIT" THEN [exiting EXCEPT ![t] = TRUE] ELSE exiting,
           e = "EXIT" => t \in R,
           LiveKnown => LiveKnown',
           Stopping' => t \in R /\ t \in threads' /\ ~exiting'[t]
    PROVE  LiveInv'
<1> DEFINE kv == KevTaken(t)
<1>a. /\ k \in [Tids -> KStates] /\ kev \in [Tids -> Events \cup {"none"}]
      /\ tstate \in [Tids -> {"Running", "Suspended"}] /\ threads \subseteq Tids
      /\ kmsg \in [Tids -> Tids] /\ exiting \in [Tids -> BOOLEAN]
    BY DEF IInv, TypeOK
<1>b. /\ t \in threads
      /\ \A u \in Tids : u # t => kv[u] = kev[u]
    BY TakeFacts DEF IInv
<1>c. killed' = killed
    BY DEF Ptrace
<1> SUFFICES ASSUME ~killed PROVE Lives' /\ Births' /\ LiveKnown' /\ StillStopping'
    BY <1>c DEF LiveInv
<1>d. Lives /\ Births /\ LiveKnown /\ StillStopping
    BY DEF LiveInv
<1>e. k[t] = "stop" /\ kv[t] = "none"
    BY TakenStop
<1>f. kev[t] = e \/ (kev[t] = "none" /\ e = "STOP" /\ ~pastExit[t])
  <2>1. CASE FrontReady
    <3>1. deferred # <<>> /\ Head(deferred) = [tid |-> t, ev |-> e]
        BY <2>1 DEF Take, FrontReady
    <3>2. deferred \in Seq([tid : Tids, ev : Events])
        BY DEF IInv, TypeOK
    <3>3. 1 \in DOMAIN deferred /\ deferred[1].tid = t /\ deferred[1].ev = e
        BY <3>1, <3>2, TailProperties
    <3>4. e = "STOP" /\ ~pastExit[t]
        BY <3>3 DEF StopsAccounted
    <3>5. kev[t] = "none"
        BY <1>e, <3>3, <3>4 DEF IInv, ThreadTableAgrees, DeferredAtRest
    <3> QED BY <3>4, <3>5
  <2>2. CASE ~FrontReady
      BY <2>2 DEF Take
  <2> QED BY <2>1, <2>2
<1>g. pastExit[t] => e = "EXIT"
    BY <1>d, <1>e, <1>f DEF Lives
<1> HIDE DEF kv
<1>h. /\ tstate' = [u \in Tids |-> IF u \in R THEN "Running" ELSE ts[u]]
      /\ k' = [u \in Tids |-> IF u \in R /\ k[u] = "stop" THEN "run" ELSE k[u]]
      /\ kev' = [u \in Tids |-> IF u \in R /\ k[u] = "stop" THEN "none" ELSE kv[u]]
      /\ UNCHANGED <<pastExit, kmsg>>
    BY DEF Ptrace, kv
<1>i. \A u \in R : u # t => /\ u \in Tids /\ u \in threads /\ tstate[u] = "Suspended"
                            /\ k[u] = "stop" /\ kev[u] = "none"
    BY <1>a DEF SuspendedIn, StopsAccounted
<1>j. /\ ts[t] = "Suspended" /\ \A u \in Tids : u # t => ts[u] = tstate[u]
    BY <1>a
<1>k. \A u \in Tids : /\ k'[u] \in {"none", "gone"} <=> k[u] \in {"none", "gone"}
                      /\ kev'[u] = "CLONE" <=> kev[u] = "CLONE" /\ u # t
    BY <1>a, <1>b, <1>e, <1>h, <1>i
<1>1. Lives'
  <2> SUFFICES ASSUME NEW u \in Tids
               PROVE  /\ k'[u] \in {"none", "born"} => ~pastExit'[u]
                      /\ pastExit'[u] /\ k'[u] = "stop" => kev'[u] = "EXIT"
                      /\ pastExit'[u] /\ k'[u] \in {"run", "zombie"} => exiting'[u]
                      /\ k'[u] = "zombie" => pastExit'[u]
                      /\ u \in threads' => k'[u] \notin {"none", "gone"}
                      /\ tstate'[u] = "Running" /\ k'[u] = "stop" /\ kev'[u] = "none" =>
                            \E i \in DOMAIN deferred' : deferred'[i].tid = u
      BY DEF Lives
  <2>1. CASE u = t /\ t \in R
      BY <1>a, <1>e, <1>g, <1>h, <2>1
  <2>2. CASE u = t /\ t \notin R
      BY <1>a, <1>e, <1>g, <1>h, <1>j, <2>2
  <2>3. CASE u # t /\ u \in R
    <3>1. k'[u] = "run" /\ ~pastExit[u]
        BY <1>d, <1>h, <1>i, <2>3 DEF Lives
    <3> QED BY <1>h, <3>1
  <2>4. CASE u # t /\ u \notin R
    <3>1. k'[u] = k[u] /\ kev'[u] = kev[u] /\ tstate'[u] = tstate[u] /\ exiting'[u] = exiting[u]
        BY <1>a, <1>b, <1>h, <1>j, <2>4
    <3>2. u \in threads' => k[u] \notin {"none", "gone"}
        BY <1>d, <1>f DEF Lives, Births
    <3>3. tstate[u] = "Running" /\ k[u] = "stop" /\ kev[u] = "none" =>
              \E i \in DOMAIN deferred' : deferred'[i].tid = u
      <4> SUFFICES ASSUME tstate[u] = "Running", k[u] = "stop", kev[u] = "none"
                   PROVE  \E i \in DOMAIN deferred' : deferred'[i].tid = u
          OBVIOUS
      <4>1. PICK i \in DOMAIN deferred : deferred[i].tid = u
          BY <1>d DEF Lives
      <4>2. \E j \in DOMAIN deferred' : deferred'[j] = deferred[i]
          BY <2>4, <4>1, TakeKeepsOthers DEF IInv
      <4> QED BY <4>1, <4>2
    <3> QED BY <1>d, <1>h, <3>1, <3>2, <3>3 DEF Lives
  <2> QED BY <2>1, <2>2, <2>3, <2>4
<1>2. Births'
  <2>1. ASSUME NEW u \in Tids, u \notin threads', k'[u] \notin {"none", "gone"}
        PROVE  \E p \in threads' : kmsg'[p] = u /\ kev'[p] = "CLONE"
    <3>1. u \notin threads /\ k[u] \notin {"none", "gone"}
        BY <1>k, <2>1
    <3>2. PICK p \in threads : kmsg[p] = u /\ kev[p] = "CLONE"
        BY <1>d, <3>1 DEF Births
    <3>3. p # t
        BY <1>f, <2>1, <3>2
    <3> QED BY <1>a, <1>h, <1>k, <3>2, <3>3
  <2>2. ASSUME NEW u \in Tids, kev'[u] = "CLONE"
        PROVE  /\ kmsg'[u] \notin threads' /\ k'[kmsg'[u]] \notin {"none", "gone"}
               /\ \A v \in Tids : kev'[v] = "CLONE" /\ kmsg'[v] = kmsg'[u] => v = u
    <3>1. kev[u] = "CLONE" /\ u # t
        BY <1>k, <2>2
    <3>2. /\ kmsg[u] \notin threads /\ k[kmsg[u]] \notin {"none", "gone"}
          /\ \A v \in Tids : kev[v] = "CLONE" /\ kmsg[v] = kmsg[u] => v = u
        BY <1>d, <3>1 DEF Births
    <3>3. kmsg[u] \notin threads'
        BY <1>f, <3>1, <3>2
    <3> QED BY <1>a, <1>h, <1>k, <3>2, <3>3
  <2> QED BY <2>1, <2>2 DEF Births
<1>3. LiveKnown'
    BY <1>d
<1>4. StillStopping'
    BY <1>h DEF StillStopping, RunningIn
<1> QED BY <1>1, <1>2, <1>3, <1>4

LEMMA StopsLive ==
    ASSUME IInv, ExitInv, StopsAccounted, LiveInv, NEW t \in Tids,
           \/ HandleSigstop(t) \/ HandleEventStop(t) \/ HandleExec(t) \/ HandleClone(t)
           \/ HandleExit(t) \/ HandleTrap(t) \/ HandleFatal(t) \/ HandleBenign(t)
    PROVE  LiveInv'
<1> DEFINE ts == [tstate EXCEPT ![t] = "Suspended"]
\* The form in which every branch ends.
<1>a. ASSUME NEW e, Take(t, e), e # "EXITED", NEW force,
             \E signalled, I, A, others :
                 /\ others \in SUBSET SuspendedIn(threads \ {t}, tstate)
                 /\ FinishStop(t, signalled, force, I, others, A),
             threads' = IF e = "CLONE" THEN threads \cup {kmsg[t]} ELSE threads,
             exiting' = IF e = "EXIT" THEN [exiting EXCEPT ![t] = TRUE] ELSE exiting,
             e = "EXIT" => force, LiveKnown => LiveKnown',
             Stopping' => force /\ t \in threads' /\ ~exiting'[t]
      PROVE  LiveInv'
  <2>0. PICK signalled, I, A, others : /\ others \in SUBSET SuspendedIn(threads \ {t}, tstate)
                                       /\ FinishStop(t, signalled, force, I, others, A)
      BY <1>a
  <2> DEFINE R == others \cup (IF force \/ exiting'[t] \/ WantsRun(t)' THEN {t} ELSE {})
  <2>1. \E si, ps, B : Ptrace(KevTaken(t), ts, si, ps, I, R, B)
      BY <2>0 DEF FinishStop
  <2>2. R \in SUBSET (SuspendedIn(threads \ {t}, tstate) \cup {t}) /\ (force => t \in R)
      BY <2>0
  <2> HIDE DEF R
  <2> QED BY <1>a, <2>1, <2>2, FinishStopLive
<1>b. ASSUME NEW force, \E signalled, I, A : FinishStop(t, signalled, force, I, {}, A)
      PROVE  \E signalled, I, A, others :
                 /\ others \in SUBSET SuspendedIn(threads \ {t}, tstate)
                 /\ FinishStop(t, signalled, force, I, others, A)
  <2>1. {} \in SUBSET SuspendedIn(threads \ {t}, tstate)
      OBVIOUS
  <2> QED BY <1>b, <2>1
<1>c. UNCHANGED <<target, anyLive, threads, exiting>> => (LiveKnown => LiveKnown')
    BY DEF LiveKnown
<1>d. nontrivial' /\ pc' = "loop" => ~Stopping'
    BY DEF Stopping
<1> HIDE DEF ts
<1>1. CASE HandleSigstop(t)
  <2>1. /\ Take(t, "SIGSTOP") /\ nontrivial' = TRUE /\ pc' = "loop"
        /\ UNCHANGED <<target, anyLive, threads, exiting>>
        /\ \E A : FinishStop(t, FALSE, TRUE, {}, {}, A)
      BY <1>1 DEF HandleSigstop, Take
  <2>9. \E signalled, I, A, others :
               /\ others \in SUBSET SuspendedIn(threads \ {t}, tstate)
               /\ FinishStop(t, signalled, TRUE, I, others, A)
      BY <1>b, <2>1
  <2>10. /\ threads' = IF "SIGSTOP" = "CLONE" THEN threads \cup {kmsg[t]} ELSE threads
         /\ exiting' = IF "SIGSTOP" = "EXIT" THEN [exiting EXCEPT ![t] = TRUE] ELSE exiting
         /\ ~Stopping'
         /\ LiveKnown => LiveKnown'
      BY <1>c, <1>d, <2>1
  <2> QED BY <1>a, <2>1, <2>9, <2>10
<1>2. CASE HandleEventStop(t)
  <2>1. /\ Take(t, "STOP") /\ nontrivial' = TRUE /\ pc' = "loop"
        /\ UNCHANGED <<target, anyLive, threads, exiting>>
        /\ FinishStop(t, FALSE, FALSE, {}, {}, {})
      BY <1>2 DEF HandleEventStop, Take
  <2>9. \E signalled, I, A, others :
               /\ others \in SUBSET SuspendedIn(threads \ {t}, tstate)
               /\ FinishStop(t, signalled, FALSE, I, others, A)
      BY <1>b, <2>1
  <2>10. /\ threads' = IF "STOP" = "CLONE" THEN threads \cup {kmsg[t]} ELSE threads
         /\ exiting' = IF "STOP" = "EXIT" THEN [exiting EXCEPT ![t] = TRUE] ELSE exiting
         /\ ~Stopping'
         /\ LiveKnown => LiveKnown'
      BY <1>c, <1>d, <2>1
  <2> QED BY <1>a, <2>1, <2>9, <2>10
<1>3. CASE HandleExec(t)
  <2>1. /\ Take(t, "EXEC") /\ nontrivial' = TRUE /\ pc' = "loop"
        /\ UNCHANGED <<anyLive, threads, exiting>>
        /\ target' = IF target = "Starting" THEN "Suspended" ELSE target
        /\ \E A : FinishStop(t, FALSE, FALSE, {}, {}, A)
      BY <1>3 DEF HandleExec, Take
  <2>2. LiveKnown => LiveKnown'
      BY <2>1 DEF LiveKnown
  <2>9. \E signalled, I, A, others :
               /\ others \in SUBSET SuspendedIn(threads \ {t}, tstate)
               /\ FinishStop(t, signalled, FALSE, I, others, A)
      BY <1>b, <2>1
  <2>10. /\ threads' = IF "EXEC" = "CLONE" THEN threads \cup {kmsg[t]} ELSE threads
         /\ exiting' = IF "EXEC" = "EXIT" THEN [exiting EXCEPT ![t] = TRUE] ELSE exiting
         /\ ~Stopping'
         /\ LiveKnown => LiveKnown'
      BY <1>d, <2>1, <2>2
  <2> QED BY <1>a, <2>1, <2>9, <2>10
<1>4. CASE HandleClone(t)
  <2>1. /\ Take(t, "CLONE") /\ nontrivial' = TRUE /\ pc' = "loop"
        /\ UNCHANGED <<target, anyLive, exiting>> /\ threads' = threads \cup {kmsg[t]}
        /\ FinishStop(t, FALSE, FALSE, {}, {}, {})
      BY <1>4 DEF HandleClone, Take
  <2>2. LiveKnown => LiveKnown'
      BY <2>1 DEF LiveKnown
  <2>9. \E signalled, I, A, others :
               /\ others \in SUBSET SuspendedIn(threads \ {t}, tstate)
               /\ FinishStop(t, signalled, FALSE, I, others, A)
      BY <1>b, <2>1
  <2>10. /\ threads' = IF "CLONE" = "CLONE" THEN threads \cup {kmsg[t]} ELSE threads
         /\ exiting' = IF "CLONE" = "EXIT" THEN [exiting EXCEPT ![t] = TRUE] ELSE exiting
         /\ ~Stopping'
         /\ LiveKnown => LiveKnown'
      BY <1>d, <2>1, <2>2
  <2> QED BY <1>a, <2>1, <2>9, <2>10
<1>5. CASE HandleExit(t)
  <2>1. /\ Take(t, "EXIT") /\ nontrivial' = TRUE /\ pc' = "loop"
        /\ UNCHANGED threads /\ exiting' = [exiting EXCEPT ![t] = TRUE]
        /\ anyLive' \in IF t = anyLive THEN RepickAnyLive(threads, exiting') ELSE {anyLive}
        /\ target' = IF \A u \in threads : exiting'[u] THEN "Exiting" ELSE target
        /\ FinishStop(t, FALSE, TRUE, {}, {}, {})
      BY <1>5 DEF HandleExit, Take
  <2>2. LiveKnown => LiveKnown'
    <3> SUFFICES ASSUME LiveKnown, target' = "Starting" \/ ProcessReady(target)'
                 PROVE  anyLive' \in threads' /\ ~exiting'[anyLive']
        BY DEF LiveKnown
    <3>1. target' = target /\ ~(\A u \in threads : exiting'[u])
        BY <2>1 DEF ProcessReady
    <3>2. anyLive \in threads /\ ~exiting[anyLive]
        BY <3>1 DEF LiveKnown
    <3>3. CASE t = anyLive
      <4>1. {u \in threads : ~exiting'[u]} # {}
          BY <3>1
      <4>2. anyLive' \in {u \in threads : ~exiting'[u]}
          BY <2>1, <3>3, <4>1 DEF RepickAnyLive
      <4> QED BY <2>1, <4>2
    <3>4. CASE t # anyLive
      <4>1. threads \subseteq Tids /\ exiting \in [Tids -> BOOLEAN]
          BY DEF IInv, TypeOK
      <4> QED BY <2>1, <3>2, <3>4, <4>1
    <3> QED BY <3>3, <3>4
  <2>9. \E signalled, I, A, others :
               /\ others \in SUBSET SuspendedIn(threads \ {t}, tstate)
               /\ FinishStop(t, signalled, TRUE, I, others, A)
      BY <1>b, <2>1
  <2> QED BY <1>a, <1>d, <2>1, <2>2, <2>9
<1>6. CASE HandleTrap(t)
  <2>1. PICK outcome \in {"hit", "step done", "miss"}, swLocation, relax, refresh \in BOOLEAN :
            HandleTrapAs(t, outcome, swLocation, relax, refresh)
      BY <1>6 DEF HandleTrap
  <2>2. /\ Take(t, "TRAP") /\ target' \in {"Suspended", target} /\ pc' = "loop"
        /\ nontrivial' = (nontrivial \/ outcome # "miss" \/ stopBps' \/ refresh)
        /\ UNCHANGED <<anyLive, threads, exiting>>
        /\ \E signalled, I, A, others :
              /\ others \in SUBSET SuspendedIn(threads \ {t}, tstate)
              /\ FinishStop(t, signalled, outcome = "miss" /\ ~stopBps', I, others, A)
    <3>1. /\ Take(t, "TRAP") /\ target' \in {"Suspended", target} /\ pc' = "loop"
          /\ nontrivial' = (nontrivial \/ outcome # "miss" \/ stopBps' \/ refresh)
          /\ UNCHANGED <<anyLive, threads, exiting>>
        BY <2>1 DEF HandleTrapAs, Take
    <3>2. \E I : FinishStop(t, FALSE, ~(outcome # "miss") /\ ~stopBps', I,
                 IF relax THEN {u \in SuspendedIn(threads \ {t}, tstate) : WantsRun(u)'} ELSE {}, {})
        BY <2>1 DEF HandleTrapAs
    <3>3. (IF relax THEN {u \in SuspendedIn(threads \ {t}, tstate) : WantsRun(u)'} ELSE {})
              \in SUBSET SuspendedIn(threads \ {t}, tstate)
        OBVIOUS
    <3> QED BY <3>1, <3>2, <3>3
  <2>3. ~Stopping'
      BY <2>2 DEF Stopping
  <2>4. target # "Exiting" /\ target # "NoProcess"
      BY <2>2, LiveTaken DEF LiveEvents, Take
  <2>5. LiveKnown => LiveKnown'
      BY <2>2, <2>4 DEF LiveKnown, ProcessReady, ProcessStates, IInv, TypeOK
  <2>7. /\ threads' = IF "TRAP" = "CLONE" THEN threads \cup {kmsg[t]} ELSE threads
        /\ exiting' = IF "TRAP" = "EXIT" THEN [exiting EXCEPT ![t] = TRUE] ELSE exiting
        /\ Take(t, "TRAP") /\ ~Stopping' /\ (LiveKnown => LiveKnown')
        /\ "TRAP" # "EXITED" /\ "TRAP" # "EXIT"
      BY <2>2, <2>3, <2>5
  <2>8. CASE outcome = "miss" /\ ~stopBps'
    <3>1. (outcome = "miss" /\ ~stopBps') = TRUE
        BY <2>8
    <3>2. \E signalled, I, A, others :
              /\ others \in SUBSET SuspendedIn(threads \ {t}, tstate)
              /\ FinishStop(t, signalled, TRUE, I, others, A)
        BY <2>2, <3>1
    <3> QED BY <1>a, <2>7, <3>2
  <2>9. CASE ~(outcome = "miss" /\ ~stopBps')
    <3>1. (outcome = "miss" /\ ~stopBps') = FALSE
        BY <2>9
    <3>2. \E signalled, I, A, others :
              /\ others \in SUBSET SuspendedIn(threads \ {t}, tstate)
              /\ FinishStop(t, signalled, FALSE, I, others, A)
        BY <2>2, <3>1
    <3> QED BY <1>a, <2>7, <3>2
  <2> QED BY <2>8, <2>9
<1>7. CASE HandleFatal(t)
  <2>1. /\ Take(t, "FATAL") /\ nontrivial' = TRUE /\ pc' = "loop"
        /\ UNCHANGED <<anyLive, threads, exiting>>
        /\ \E I : FinishStop(t, TRUE, FALSE, I, {}, {})
      BY <1>7 DEF HandleFatal, Take
  <2>2. target # "Exiting" /\ target # "NoProcess"
      BY <2>1, LiveTaken DEF LiveEvents, Take
  <2>3. LiveKnown => LiveKnown'
      BY <2>1, <2>2 DEF LiveKnown, ProcessReady, ProcessStates, IInv, TypeOK
  <2>9. \E signalled, I, A, others :
               /\ others \in SUBSET SuspendedIn(threads \ {t}, tstate)
               /\ FinishStop(t, signalled, FALSE, I, others, A)
      BY <1>b, <2>1
  <2>10. /\ threads' = IF "FATAL" = "CLONE" THEN threads \cup {kmsg[t]} ELSE threads
         /\ exiting' = IF "FATAL" = "EXIT" THEN [exiting EXCEPT ![t] = TRUE] ELSE exiting
         /\ ~Stopping'
         /\ LiveKnown => LiveKnown'
      BY <1>d, <2>1, <2>3
  <2> QED BY <1>a, <2>1, <2>9, <2>10
<1>8. CASE HandleBenign(t)
  <2>1. /\ Take(t, "BENIGN") /\ UNCHANGED <<target, anyLive, threads, exiting>>
        /\ FinishStop(t, TRUE, TRUE, {}, {}, {})
      BY <1>8 DEF HandleBenign
  <2>2. kev[t] = "BENIGN" /\ t \in threads
      BY <2>1, LiveReaped DEF LiveEvents, Take
  <2>3. ~exiting[t]
      BY <2>2 DEF ExitInv, EventsInOrder, LiveEvents, IInv, ThreadTableAgrees, ExitsPast
  <2>9. \E signalled, I, A, others :
               /\ others \in SUBSET SuspendedIn(threads \ {t}, tstate)
               /\ FinishStop(t, signalled, TRUE, I, others, A)
      BY <1>b, <2>1
  <2>10. /\ threads' = IF "BENIGN" = "CLONE" THEN threads \cup {kmsg[t]} ELSE threads
         /\ exiting' = IF "BENIGN" = "EXIT" THEN [exiting EXCEPT ![t] = TRUE] ELSE exiting
         /\ Stopping' => TRUE /\ t \in threads' /\ ~exiting'[t]
         /\ LiveKnown => LiveKnown'
      BY <1>c, <2>1, <2>2, <2>3
  <2> QED BY <1>a, <2>1, <2>9, <2>10
<1> QED BY <1>1, <1>2, <1>3, <1>4, <1>5, <1>6, <1>7, <1>8

LEMMA ExitedLive ==
    ASSUME IInv, StopsAccounted, StepsInOrder, LiveInv, NEW t \in Tids, HandleExited(t)
    PROVE  LiveInv'
<1>1. /\ Take(t, "EXITED") /\ threads' = threads \ {t} /\ nontrivial' = TRUE /\ pc' = "loop"
      /\ kev' = KevTaken(t) /\ k' = [k EXCEPT ![t] = "gone"]
      /\ tstate' = [tstate EXCEPT ![t] = "Running"]
      /\ exiting' = [exiting EXCEPT ![t] = FALSE]
      /\ anyLive' \in IF t = anyLive THEN RepickAnyLive(threads', exiting) ELSE {anyLive}
      /\ target' = IF threads' = {} THEN "NoProcess"
                   ELSE IF threads' # {} /\ stepping.tid = t THEN "Suspended" ELSE target
      /\ UNCHANGED <<kmsg, pastExit, killed>>
    BY DEF HandleExited, Take
<1>a. /\ k \in [Tids -> KStates] /\ kev \in [Tids -> Events \cup {"none"}]
      /\ tstate \in [Tids -> {"Running", "Suspended"}] /\ threads \subseteq Tids
      /\ kmsg \in [Tids -> Tids] /\ exiting \in [Tids -> BOOLEAN]
      /\ deferred \in Seq([tid : Tids, ev : Events])
    BY DEF IInv, TypeOK
<1> SUFFICES ASSUME ~killed PROVE Lives' /\ Births' /\ LiveKnown' /\ StillStopping'
    BY <1>1 DEF LiveInv
<1>c. Lives /\ Births /\ LiveKnown /\ StillStopping
    BY DEF LiveInv
<1>2. ~FrontReady
  <2> SUFFICES ASSUME FrontReady PROVE FALSE
      OBVIOUS
  <2>1. deferred # <<>> /\ Head(deferred) = [tid |-> t, ev |-> "EXITED"]
      BY <1>1 DEF Take, FrontReady
  <2>2. 1 \in DOMAIN deferred /\ deferred[1].ev = "EXITED"
      BY <1>a, <2>1, TailProperties
  <2> QED BY <2>2 DEF StopsAccounted
<1>3. t \in threads /\ kev[t] = "EXITED" /\ UNCHANGED deferred /\ target # "NoProcess"
    BY <1>1, <1>2 DEF Take
<1>4. k[t] = "zombie"
    BY <1>3 DEF IInv, ThreadTableAgrees, StatusAtRest
<1>5. exiting[t]
    BY <1>4, <1>c DEF Lives
<1>6. /\ kev'[t] = "none" /\ k'[t] = "gone"
      /\ \A u \in Tids : u # t => /\ kev'[u] = kev[u] /\ k'[u] = k[u] /\ tstate'[u] = tstate[u]
                                  /\ exiting'[u] = exiting[u]
    BY <1>1, <1>2, <1>a DEF KevTaken
<1>7. Lives'
  <2> SUFFICES ASSUME NEW u \in Tids
               PROVE  /\ k'[u] \in {"none", "born"} => ~pastExit'[u]
                      /\ pastExit'[u] /\ k'[u] = "stop" => kev'[u] = "EXIT"
                      /\ pastExit'[u] /\ k'[u] \in {"run", "zombie"} => exiting'[u]
                      /\ k'[u] = "zombie" => pastExit'[u]
                      /\ u \in threads' => k'[u] \notin {"none", "gone"}
                      /\ tstate'[u] = "Running" /\ k'[u] = "stop" /\ kev'[u] = "none" =>
                            \E i \in DOMAIN deferred' : deferred'[i].tid = u
      BY DEF Lives
  <2>1. CASE u = t
      BY <1>1, <1>6, <2>1
  <2>2. CASE u # t
    <3>1. /\ kev'[u] = kev[u] /\ k'[u] = k[u] /\ tstate'[u] = tstate[u] /\ exiting'[u] = exiting[u]
          /\ u \in threads' <=> u \in threads
          /\ UNCHANGED <<pastExit, deferred>>
        BY <1>1, <1>3, <1>6, <2>2
    <3> QED BY <1>c, <3>1 DEF Lives
  <2> QED BY <2>1, <2>2
<1>8. Births'
  <2>1. ASSUME NEW u \in Tids, u \notin threads', k'[u] \notin {"none", "gone"}
        PROVE  \E p \in threads' : kmsg'[p] = u /\ kev'[p] = "CLONE"
    <3>1. u # t /\ u \notin threads /\ k[u] \notin {"none", "gone"}
        BY <1>1, <1>6, <2>1
    <3>2. PICK p \in threads : kmsg[p] = u /\ kev[p] = "CLONE"
        BY <1>c, <3>1 DEF Births
    <3>3. p # t
        BY <1>3, <3>2
    <3> QED BY <1>1, <1>6, <1>a, <3>2, <3>3
  <2>2. ASSUME NEW u \in Tids, kev'[u] = "CLONE"
        PROVE  /\ kmsg'[u] \notin threads' /\ k'[kmsg'[u]] \notin {"none", "gone"}
               /\ \A v \in Tids : kev'[v] = "CLONE" /\ kmsg'[v] = kmsg'[u] => v = u
    <3>1. kev[u] = "CLONE" /\ u # t
        BY <1>6, <2>2
    <3>2. /\ kmsg[u] \notin threads /\ k[kmsg[u]] \notin {"none", "gone"} /\ kmsg[u] \in Tids
          /\ \A v \in Tids : kev[v] = "CLONE" /\ kmsg[v] = kmsg[u] => v = u
        BY <1>a, <1>c, <3>1 DEF Births
    <3>3. kmsg[u] # t /\ kmsg[u] \notin threads'
        BY <1>1, <1>3, <3>2
    <3>4. k'[kmsg'[u]] \notin {"none", "gone"}
        BY <1>1, <1>6, <3>2, <3>3
    <3>5. \A v \in Tids : kev'[v] = "CLONE" => kev[v] = "CLONE"
        BY <1>6
    <3> QED BY <1>1, <3>2, <3>3, <3>4, <3>5
  <2> QED BY <2>1, <2>2 DEF Births
<1>9. LiveKnown'
  <2> SUFFICES ASSUME target' = "Starting" \/ ProcessReady(target)'
               PROVE  anyLive' \in threads' /\ ~exiting'[anyLive']
      BY DEF LiveKnown
  <2>1. target = "Starting" \/ ProcessReady(target)
    <3>1. CASE stepping.tid = t
      <4>1. stepping # NoStep
          BY <3>1, TidsAssumption DEF NoStep
      <4> QED BY <1>3, <4>1 DEF StepsInOrder, ProcessReady
    <3>2. CASE stepping.tid # t
      <4>1. target' = target
          BY <1>1, <3>2 DEF ProcessReady
      <4> QED BY <4>1
    <3> QED BY <3>1, <3>2
  <2>2. anyLive \in threads /\ ~exiting[anyLive]
      BY <1>c, <2>1 DEF LiveKnown
  <2>3. anyLive # t /\ anyLive' = anyLive
      BY <1>1, <1>5, <2>2
  <2> QED BY <1>1, <1>6, <1>a, <2>2, <2>3
<1>10. StillStopping'
    BY <1>1 DEF StillStopping, Stopping
<1> QED BY <1>7, <1>8, <1>9, <1>10

LEMMA DeferLive ==
    ASSUME IInv, StopsAccounted, LiveInv, NEW t \in Tids, DeferEvent(t)
    PROVE  LiveInv'
<1>1. /\ pc \in {"idle", "loop"} /\ pc' = "loop" /\ t \notin threads /\ kev[t] # "none"
      /\ deferred' = Append(deferred, [tid |-> t, ev |-> kev[t]])
      /\ kev' = [kev EXCEPT ![t] = "none"]
      /\ k' = [k EXCEPT ![t] = IF @ = "zombie" THEN "gone" ELSE @]
      /\ UNCHANGED <<kmsg, pastExit, killed, target, threads, anyLive, stopBps, tstate, exiting,
                     nontrivial>>
    BY DEF DeferEvent, Reapable, tvars
<1>a. /\ k \in [Tids -> KStates] /\ kev \in [Tids -> Events \cup {"none"}]
      /\ kmsg \in [Tids -> Tids] /\ deferred \in Seq([tid : Tids, ev : Events])
      /\ threads \subseteq Tids
    BY DEF IInv, TypeOK
<1> SUFFICES ASSUME ~killed PROVE Lives' /\ Births' /\ LiveKnown' /\ StillStopping'
    BY <1>1 DEF LiveInv
<1>c. Lives /\ Births /\ LiveKnown /\ StillStopping
    BY DEF LiveInv
<1>2. kev[t] = "STOP" /\ k[t] = "stop" /\ ~pastExit[t]
  <2>1. kev[t] = "STOP"
      BY <1>1 DEF StopsAccounted
  <2>2. k[t] = "stop"
      BY <2>1 DEF StopsAccounted, IInv, ThreadTableAgrees, StatusAtRest
  <2> QED BY <1>1, <2>1, <2>2 DEF StopsAccounted
<1>3. /\ kev'[t] = "none" /\ \A u \in Tids : k'[u] = k[u]
      /\ \A u \in Tids : u # t => kev'[u] = kev[u]
      /\ \A u \in Tids : kev'[u] = "CLONE" <=> kev[u] = "CLONE"
    BY <1>1, <1>2, <1>a
<1>4. /\ \E i \in DOMAIN deferred' : deferred'[i].tid = t
      /\ \A i \in DOMAIN deferred : i \in DOMAIN deferred' /\ deferred'[i] = deferred[i]
  <2> DEFINE x == [tid |-> t, ev |-> kev[t]]
  <2>1. x \in [tid : Tids, ev : Events] /\ x.tid = t
      BY <1>1, <1>a
  <2> HIDE DEF x
  <2>2. /\ Len(deferred) + 1 \in DOMAIN Append(deferred, x)
        /\ Append(deferred, x)[Len(deferred) + 1] = x
        /\ \A i \in DOMAIN deferred : /\ i \in DOMAIN Append(deferred, x)
                                      /\ Append(deferred, x)[i] = deferred[i]
      BY <1>a, <2>1
  <2>3. deferred' = Append(deferred, x)
      BY <1>1 DEF x
  <2> QED BY <2>1, <2>2, <2>3
<1>5. Lives'
  <2> SUFFICES ASSUME NEW u \in Tids
               PROVE  /\ k'[u] \in {"none", "born"} => ~pastExit'[u]
                      /\ pastExit'[u] /\ k'[u] = "stop" => kev'[u] = "EXIT"
                      /\ pastExit'[u] /\ k'[u] \in {"run", "zombie"} => exiting'[u]
                      /\ k'[u] = "zombie" => pastExit'[u]
                      /\ u \in threads' => k'[u] \notin {"none", "gone"}
                      /\ tstate'[u] = "Running" /\ k'[u] = "stop" /\ kev'[u] = "none" =>
                            \E i \in DOMAIN deferred' : deferred'[i].tid = u
      BY DEF Lives
  <2>1. CASE u = t
      BY <1>1, <1>2, <1>3, <1>4, <2>1
  <2>2. CASE u # t
      BY <1>1, <1>3, <1>4, <1>c, <2>2 DEF Lives
  <2> QED BY <2>1, <2>2
<1>6. Births'
    BY <1>1, <1>3, <1>a, <1>c DEF Births
<1>7. LiveKnown'
    BY <1>1, <1>c DEF LiveKnown
<1>8. StillStopping'
    BY <1>1, <1>c DEF StillStopping, Stopping, RunningIn
<1> QED BY <1>5, <1>6, <1>7, <1>8

\* A step that leaves the threads alone and does not make more of the process.
LEMMA UntouchedLive ==
    ASSUME LiveInv, UNCHANGED <<k, kev, kmsg, pastExit, threads, anyLive, deferred, tstate, exiting>>,
           ~killed' => ~killed,
           target' = "Starting" \/ ProcessReady(target)' => target = "Starting" \/ ProcessReady(target),
           Stopping' => Stopping \/ RunningIn(threads, tstate) # {}
    PROVE  LiveInv'
<1> SUFFICES ASSUME ~killed' PROVE Lives' /\ Births' /\ LiveKnown' /\ StillStopping'
    BY DEF LiveInv
<1>1. Lives /\ Births /\ LiveKnown /\ StillStopping
    BY DEF LiveInv
<1>2. Lives' /\ Births'
    BY <1>1 DEF Lives, Births
<1>3. LiveKnown' /\ StillStopping'
    BY <1>1 DEF LiveKnown, StillStopping, RunningIn
<1> QED BY <1>2, <1>3

LEMMA KernelLive ==
    ASSUME IInv, LiveInv, KernelNext
    PROVE  LiveInv'
<1>a. /\ k \in [Tids -> KStates] /\ kev \in [Tids -> Events \cup {"none"}]
      /\ pastExit \in [Tids -> BOOLEAN] /\ kmsg \in [Tids -> Tids]
      /\ threads \subseteq Tids /\ Main \in Tids
    BY TidsAssumption DEF IInv, TypeOK
<1>b. UNCHANGED <<target, threads, anyLive, deferred, stopBps, tstate, exiting, pc, nontrivial>>
    BY DEF KernelNext, KernelTrapStop, KernelSignal, KernelClone, KernelSigstop, KernelExec,
           KernelExitStop, KernelKill, KernelDie, pvars, tvars, lvars
<1>c. ~killed' => ~killed
    BY DEF KernelNext, KernelTrapStop, KernelSignal, KernelClone, KernelSigstop, KernelExec,
           KernelExitStop, KernelKill, KernelDie
<1>d. (LiveKnown => LiveKnown') /\ (StillStopping => StillStopping')
    BY <1>b DEF LiveKnown, StillStopping, Stopping, RunningIn
<1> SUFFICES ASSUME ~killed', ~killed PROVE Lives' /\ Births'
    BY <1>c, <1>d DEF LiveInv
<1>e. Lives /\ Births
    BY DEF LiveInv
<1>f. \A t \in Tids : k[t] \in {"born", "run"} => kev[t] = "none"
    BY DEF IInv, ThreadTableAgrees, StatusAtRest
\* A thread t comes to rest or dies.
<1>1. ASSUME NEW t \in Tids, k[t] \in {"born", "run"}, NEW s \in {"stop", "zombie"}, NEW e \in Events,
             k' = [k EXCEPT ![t] = s], kev' = [kev EXCEPT ![t] = e], e # "CLONE", UNCHANGED kmsg,
             \A u \in Tids : u # t => pastExit'[u] = pastExit[u],
             s = "stop" => (pastExit'[t] => e = "EXIT"),
             s = "zombie" => pastExit'[t] /\ pastExit[t] /\ k[t] = "run"
      PROVE  Lives' /\ Births'
  <2>1. /\ k'[t] = s /\ kev'[t] = e /\ kev[t] = "none" /\ e # "none"
        /\ \A u \in Tids : u # t => k'[u] = k[u] /\ kev'[u] = kev[u]
      BY <1>1, <1>a, <1>f DEF Events, StopEvents
  <2>2. ASSUME NEW u \in Tids
        PROVE  /\ k'[u] \in {"none", "born"} => ~pastExit'[u]
               /\ pastExit'[u] /\ k'[u] = "stop" => kev'[u] = "EXIT"
               /\ pastExit'[u] /\ k'[u] \in {"run", "zombie"} => exiting'[u]
               /\ k'[u] = "zombie" => pastExit'[u]
               /\ u \in threads' => k'[u] \notin {"none", "gone"}
               /\ tstate'[u] = "Running" /\ k'[u] = "stop" /\ kev'[u] = "none" =>
                     \E i \in DOMAIN deferred' : deferred'[i].tid = u
    <3>1. CASE u = t
        BY <1>1, <1>b, <1>e, <2>1, <3>1 DEF Lives
    <3>2. CASE u # t
        BY <1>1, <1>b, <1>e, <2>1, <3>2 DEF Lives
    <3> QED BY <3>1, <3>2
  <2>3. Lives'
      BY <2>2 DEF Lives
  <2>4. \A u \in Tids : /\ k'[u] \in {"none", "gone"} <=> k[u] \in {"none", "gone"}
                        /\ kev'[u] = "CLONE" <=> kev[u] = "CLONE"
      BY <1>1, <2>1
  <2>5. Births'
      BY <1>1, <1>a, <1>b, <1>e, <2>4 DEF Births
  <2> QED BY <2>3, <2>5
<1>2. ASSUME NEW t \in Tids, KernelTrapStop(t) PROVE Lives' /\ Births'
  <2>1. /\ (k[t] = "born" \/ (k[t] = "run" /\ ~pastExit[t])) /\ UNCHANGED <<kmsg, pastExit>>
        /\ k' = [k EXCEPT ![t] = "stop"] /\ kev' = [kev EXCEPT ![t] = "STOP"]
      BY <1>2 DEF KernelTrapStop, KStop, UserRunning
  <2>2. ~pastExit[t] /\ UNCHANGED <<kmsg, pastExit>> /\ k[t] \in {"born", "run"}
      BY <1>2, <1>e, <2>1 DEF Lives, KernelTrapStop
  <2> QED BY <1>1, <2>1, <2>2 DEF Events, StopEvents
<1>3. ASSUME NEW t \in Tids, NEW e \in {"TRAP", "BENIGN", "FATAL"}, KernelSignal(t, e)
      PROVE  Lives' /\ Births'
  <2>1. /\ k[t] = "run" /\ ~pastExit[t] /\ UNCHANGED <<kmsg, pastExit>>
        /\ k' = [k EXCEPT ![t] = "stop"] /\ kev' = [kev EXCEPT ![t] = e]
      BY <1>3 DEF KernelSignal, KStop, UserRunning
  <2>2. e \in Events /\ e # "CLONE"
      BY DEF Events, StopEvents
  <2> QED BY <1>1, <2>1, <2>2
<1>4. ASSUME NEW t \in Tids, NEW u \in Tids, KernelClone(t, u) PROVE Lives' /\ Births'
  <2>1. /\ UserRunning(t) /\ k[u] = "none"
        /\ k' = [k EXCEPT ![t] = "stop", ![u] = "born"]
        /\ kev' = [kev EXCEPT ![t] = "CLONE"]
        /\ kmsg' = [kmsg EXCEPT ![t] = u]
        /\ UNCHANGED pastExit
      BY <1>4 DEF KernelClone
  <2>2. k[t] = "run" /\ ~pastExit[t] /\ t # u /\ kev[t] = "none" /\ t \in threads
      BY <1>f, <2>1 DEF UserRunning, IInv, ThreadTableAgrees, RunnersKnown
  <2>3. /\ k'[t] = "stop" /\ k'[u] = "born" /\ \A v \in Tids : v # t /\ v # u => k'[v] = k[v]
        /\ kev'[t] = "CLONE" /\ \A v \in Tids : v # t => kev'[v] = kev[v]
        /\ kmsg'[t] = u /\ \A v \in Tids : v # t => kmsg'[v] = kmsg[v]
      BY <1>a, <2>1, <2>2
  <2>4. u \notin threads /\ ~pastExit[u] /\ \A v \in Tids : kev[v] = "CLONE" => kmsg[v] # u
      BY <1>e, <2>1 DEF Lives, Births
  <2>5. ASSUME NEW v \in Tids
        PROVE  /\ k'[v] \in {"none", "born"} => ~pastExit'[v]
               /\ pastExit'[v] /\ k'[v] = "stop" => kev'[v] = "EXIT"
               /\ pastExit'[v] /\ k'[v] \in {"run", "zombie"} => exiting'[v]
               /\ k'[v] = "zombie" => pastExit'[v]
               /\ v \in threads' => k'[v] \notin {"none", "gone"}
               /\ tstate'[v] = "Running" /\ k'[v] = "stop" /\ kev'[v] = "none" =>
                     \E i \in DOMAIN deferred' : deferred'[i].tid = v
    <3>1. CASE v = t \/ v = u
        BY <2>1, <2>2, <2>3, <2>4, <3>1
    <3>2. CASE v # t /\ v # u
      <4>1. k'[v] = k[v] /\ kev'[v] = kev[v] /\ pastExit'[v] = pastExit[v]
          BY <2>1, <2>3, <3>2
      <4>2. /\ k[v] \in {"none", "born"} => ~pastExit[v]
            /\ pastExit[v] /\ k[v] = "stop" => kev[v] = "EXIT"
            /\ pastExit[v] /\ k[v] \in {"run", "zombie"} => exiting[v]
            /\ k[v] = "zombie" => pastExit[v]
            /\ v \in threads => k[v] \notin {"none", "gone"}
            /\ tstate[v] = "Running" /\ k[v] = "stop" /\ kev[v] = "none" =>
                  \E i \in DOMAIN deferred : deferred[i].tid = v
          BY <1>e DEF Lives
      <4> QED BY <1>b, <4>1, <4>2
    <3> QED BY <3>1, <3>2
  <2>6. Lives'
      BY <2>5 DEF Lives
  <2>7. ASSUME NEW v \in Tids, v \notin threads', k'[v] \notin {"none", "gone"}
        PROVE  \E p \in threads' : kmsg'[p] = v /\ kev'[p] = "CLONE"
    <3>1. CASE v = u
        BY <1>b, <2>2, <2>3, <3>1
    <3>2. CASE v # u
      <4>1. v # t /\ v \notin threads /\ k[v] \notin {"none", "gone"}
          BY <1>b, <2>2, <2>3, <2>7, <3>2
      <4>2. PICK p \in threads : kmsg[p] = v /\ kev[p] = "CLONE"
          BY <1>e, <4>1 DEF Births
      <4>3. p # t /\ p \in Tids
          BY <1>a, <2>2, <4>2
      <4> QED BY <1>b, <2>3, <4>2, <4>3
    <3> QED BY <3>1, <3>2
  <2>8. ASSUME NEW v \in Tids, kev'[v] = "CLONE"
        PROVE  /\ kmsg'[v] \notin threads' /\ k'[kmsg'[v]] \notin {"none", "gone"}
               /\ \A w \in Tids : kev'[w] = "CLONE" /\ kmsg'[w] = kmsg'[v] => w = v
    <3>1. CASE v = t
        BY <1>b, <2>3, <2>4, <3>1
    <3>2. CASE v # t
      <4>1. /\ kev[v] = "CLONE" /\ kmsg'[v] = kmsg[v] /\ kmsg[v] \in Tids /\ kmsg[v] # u
            /\ kmsg[v] \notin threads /\ k[kmsg[v]] \notin {"none", "gone"}
            /\ \A w \in Tids : kev[w] = "CLONE" /\ kmsg[w] = kmsg[v] => w = v
          BY <1>a, <1>e, <2>3, <2>4, <2>8, <3>2 DEF Births
      <4>2. k'[kmsg[v]] \notin {"none", "gone"}
          BY <2>3, <4>1
      <4>3. ASSUME NEW w \in Tids, kev'[w] = "CLONE", kmsg'[w] = kmsg'[v] PROVE w = v
        <5>1. w # t
            BY <2>3, <4>1, <4>3
        <5> QED BY <2>3, <4>1, <4>3, <5>1
      <4> QED BY <1>b, <4>1, <4>2, <4>3
    <3> QED BY <3>1, <3>2
  <2>9. Births'
      BY <2>7, <2>8 DEF Births
  <2> QED BY <2>6, <2>9
<1>5. CASE KernelSigstop
  <2>1. /\ k[Main] = "run" /\ ~pastExit[Main] /\ UNCHANGED <<kmsg, pastExit>>
        /\ k' = [k EXCEPT ![Main] = "stop"] /\ kev' = [kev EXCEPT ![Main] = "SIGSTOP"]
      BY <1>5 DEF KernelSigstop, KStop, UserRunning
  <2> QED BY <1>1, <1>a, <2>1 DEF Events, StopEvents
<1>6. CASE KernelExec
  <2>1. /\ k[Main] = "run" /\ ~pastExit[Main] /\ UNCHANGED <<kmsg, pastExit>>
        /\ k' = [k EXCEPT ![Main] = "stop"] /\ kev' = [kev EXCEPT ![Main] = "EXEC"]
      BY <1>6 DEF KernelExec, KStop, UserRunning
  <2> QED BY <1>1, <1>a, <2>1 DEF Events, StopEvents
<1>7. ASSUME NEW t \in Tids, KernelExitStop(t) PROVE Lives' /\ Births'
  <2>1. /\ k[t] = "run" /\ UNCHANGED kmsg
        /\ k' = [k EXCEPT ![t] = "stop"] /\ kev' = [kev EXCEPT ![t] = "EXIT"]
        /\ pastExit' = [pastExit EXCEPT ![t] = TRUE]
      BY <1>7 DEF KernelExitStop, KStop, UserRunning
  <2>2. \A u \in Tids : u # t => pastExit'[u] = pastExit[u]
      BY <1>a, <2>1
  <2> QED BY <1>1, <2>1, <2>2 DEF Events, StopEvents
<1>8. CASE KernelKill
    BY <1>8 DEF KernelKill
<1>9. ASSUME NEW t \in Tids, KernelDie(t) PROVE Lives' /\ Births'
  <2>1. /\ k[t] = "run" /\ pastExit[t] /\ UNCHANGED <<kmsg, pastExit>>
        /\ k' = [k EXCEPT ![t] = "zombie"] /\ kev' = [kev EXCEPT ![t] = "EXITED"]
      BY <1>9 DEF KernelDie
  <2> QED BY <1>1, <2>1 DEF Events
<1> QED BY <1>2, <1>3, <1>4, <1>5, <1>6, <1>7, <1>8, <1>9 DEF KernelNext

\* try_pending_step_and_activate_breakpoints()
LEMMA TryPendingLive ==
    ASSUME IInv, StopsAccounted, LiveInv, ProcessReady(target), NEW tgt, NEW ps, NEW st, NEW mayFail,
           TryPendingStep(tgt, ps, st, mayFail), UNCHANGED <<threads, deferred, anyLive, exiting>>,
           pc' \in {"idle", "handle"}, pc' = "idle" => pc \in {"idle", "drop"}
    PROVE  LiveInv'
<1>1. PICK b \in Resolve(bp), s \in ResolveStep(ps, mayFail) : TryPendingStepAs(tgt, ps, st, b, s)
    BY DEF TryPendingStep
<1>2. /\ ArrangeHandle \/ UNCHANGED stopBps
      /\ \E I, A : PtraceNow(I, IF waitSyms' = NoBinary THEN ResumeSet ELSE {}, A)
    BY <1>1 DEF TryPendingStepAs
<1>3. (IF waitSyms' = NoBinary THEN ResumeSet ELSE {}) \in SUBSET SuspendedIn(threads, tstate)
    BY DEF ResumeSet
<1>4. Stopping' => Stopping \/ RunningIn(threads, tstate) # {}
    BY <1>2 DEF Stopping, ArrangeHandle
<1> QED BY <1>2, <1>3, <1>4, PtraceNowLive

LEMMA TailLive ==
    ASSUME IInv, ExitInv, StopsAccounted, LiveInv,
           EndLoop \/ InitialExecTail \/ HandleBreakpointsTail \/ DropCaches
    PROVE  LiveInv'
<1>1. CASE EndLoop
  <2>1. /\ pc = "loop" /\ nontrivial' = FALSE /\ UNCHANGED <<kvars, pvars, tvars>>
        /\ pc' \in {"exec", "handle"} \/ (pc' = "idle" /\ ~(nontrivial /\ ProcessReady(target)))
      BY <1>1 DEF EndLoop
  <2>2. Stopping' => Stopping
      BY <2>1 DEF Stopping, pvars
  <2> QED BY <2>1, <2>2, UntouchedLive DEF kvars, pvars, tvars
<1>2. CASE InitialExecTail
  <2>1. /\ pc = "exec" /\ pc' = "handle" /\ UNCHANGED <<threads, deferred, anyLive, exiting>>
        /\ \E tgt, ps, st, mayFail : TryPendingStep(tgt, ps, st, mayFail)
      BY <1>2 DEF InitialExecTail
  <2>2. ProcessReady(target)
      BY <2>1 DEF ExitInv, ExecReady
  <2> QED BY <2>1, <2>2, TryPendingLive
<1>3. CASE HandleBreakpointsTail
  <2>1. UNCHANGED <<threads, deferred, anyLive, exiting, target>>
      BY <1>3 DEF HandleBreakpointsTail
  <2>2. CASE stopBps /\ RunningIn(threads, tstate) = {}
    <3>1. stopBps' = FALSE /\ \E A : PtraceNow({}, ResumeSet, A)
        BY <1>3, <2>2 DEF HandleBreakpointsTail
    <3>2. ~Stopping' /\ ResumeSet \in SUBSET SuspendedIn(threads, tstate)
        BY <3>1 DEF Stopping, ResumeSet
    <3> QED BY <2>1, <3>1, <3>2, PtraceNowLive
  <2>3. CASE ~(stopBps /\ RunningIn(threads, tstate) = {})
    <3>1. UNCHANGED <<stopBps, kvars, tstate>>
        BY <1>3, <2>3 DEF HandleBreakpointsTail
    <3>2. Stopping' => RunningIn(threads, tstate) # {}
        BY <2>3, <3>1 DEF Stopping
    <3> QED BY <2>1, <3>1, <3>2, UntouchedLive DEF kvars
  <2> QED BY <2>2, <2>3
<1>4. CASE DropCaches
  <2>1. pc = "drop" /\ pc' = "idle" /\ UNCHANGED <<threads, deferred, anyLive, exiting>>
      BY <1>4 DEF DropCaches
  <2>2. CASE ProcessReady(target)
    <3>1. TryPendingStep(target, pendingStep, stepping, TRUE)
        BY <1>4, <2>2 DEF DropCaches
    <3> QED BY <2>1, <2>2, <3>1, TryPendingLive
  <2>3. CASE ~ProcessReady(target)
    <3>1. UNCHANGED <<kvars, target, stopBps, tstate>>
        BY <1>4, <2>3 DEF DropCaches
    <3>2. Stopping' => Stopping
        BY <2>3, <3>1 DEF Stopping
    <3> QED BY <2>1, <3>1, <3>2, UntouchedLive DEF kvars
  <2> QED BY <2>2, <2>3
<1> QED BY <1>1, <1>2, <1>3, <1>4

LEMMA StartChildLive ==
    ASSUME IInv, NEW on, StartChild(on)
    PROVE  LiveInv'
<1>1. /\ k' = [t \in Tids |-> IF t = Main THEN "run" ELSE "none"]
      /\ kev' = [t \in Tids |-> "none"]
      /\ pastExit' = [t \in Tids |-> FALSE]
      /\ target = "NoProcess" /\ target' = "Starting" /\ stopBps' = FALSE
      /\ threads' = {Main} /\ anyLive' = Main /\ UNCHANGED exiting
    BY DEF StartChild, tvars
<1>2. ~exiting[Main]
    BY <1>1, TidsAssumption DEF IInv, ThreadTableAgrees, NoProcessNoThreads, FreshOutside
<1>3. Lives' /\ Births'
    BY <1>1 DEF Lives, Births
<1>4. LiveKnown' /\ StillStopping'
    BY <1>1, <1>2 DEF LiveKnown, StillStopping, Stopping
<1> QED BY <1>3, <1>4 DEF LiveInv

LEMMA UserLive ==
    ASSUME IInv, StopsAccounted, LiveInv, UserNext
    PROVE  LiveInv'
<1>a. ResumeSet \in SUBSET SuspendedIn(threads, tstate) /\ {} \in SUBSET SuspendedIn(threads, tstate)
    BY DEF ResumeSet
<1>1. CASE Resume
  <2>1. /\ target \in {"Suspended", "Stepping", "Running"} /\ pc = "idle"
        /\ UNCHANGED <<threads, deferred, anyLive, exiting, stopBps, pc>>
        /\ \E A : PtraceNow({}, ResumeSet, A)
      BY <1>1 DEF Resume, OnlyControl, lvars
  <2>2. ProcessReady(target) /\ (Stopping' => Stopping)
      BY <2>1 DEF ProcessReady, Stopping
  <2> QED BY <1>a, <2>1, <2>2, PtraceNowLive
<1>2. CASE Suspend
  <2>1. /\ target \in {"Running", "Stepping"} /\ pc = "idle"
        /\ UNCHANGED <<threads, deferred, anyLive, exiting, stopBps, pc>>
        /\ \E I : PtraceNow(I, {}, {})
      BY <1>2 DEF Suspend, OnlyControl, lvars
  <2>2. ProcessReady(target) /\ (Stopping' => Stopping)
      BY <2>1 DEF ProcessReady, Stopping
  <2> QED BY <1>a, <2>1, <2>2, PtraceNowLive
<1>3. ASSUME NEW t \in Tids, NEW keep \in BOOLEAN, NEW newLocations \in BOOLEAN,
             Step(t, keep, newLocations)
      PROVE  LiveInv'
  <2> DEFINE R == IF keep THEN ResumeSet \cap {t} ELSE ResumeSet
  <2>1. /\ target = "Suspended" /\ pc = "idle"
        /\ UNCHANGED <<threads, deferred, anyLive, exiting, pc>>
        /\ ArrangeHandle \/ UNCHANGED stopBps
        /\ \E I, A : PtraceNow(I, R, A)
      BY <1>3 DEF Step, OnlyControl, lvars
  <2>2. R \in SUBSET SuspendedIn(threads, tstate)
      BY <1>a
  <2> HIDE DEF R
  <2>3. ProcessReady(target)
      BY <2>1 DEF ProcessReady
  <2>4. stopBps' => stopBps \/ RunningIn(threads, tstate) # {}
      BY <2>1 DEF ArrangeHandle
  <2>5. Stopping' => Stopping \/ RunningIn(threads, tstate) # {}
      BY <2>1, <2>3, <2>4 DEF Stopping
  <2> QED BY <2>1, <2>2, <2>3, <2>5, PtraceNowLive
<1>4. ASSUME NEW t \in Tids, StepToCursor(t) PROVE LiveInv'
  <2>1. /\ ProcessReady(target) /\ pc = "idle"
        /\ UNCHANGED <<threads, deferred, anyLive, exiting, pc>>
        /\ \E tgt, ps, st, mayFail : TryPendingStep(tgt, ps, st, mayFail)
      BY <1>4 DEF StepToCursor, OnlyControl, lvars
  <2> QED BY <2>1, TryPendingLive
<1>5. CASE AddBreakpoint
  <2>1. /\ pc = "idle" /\ UNCHANGED <<threads, deferred, anyLive, exiting, target, pc>>
      BY <1>5 DEF AddBreakpoint, OnlyControl, lvars
  <2>2. CASE ProcessReady(target)
    <3>1. PICK b \in Resolve("new") : ActivateBreakpointAs(b)
        BY <1>5, <2>2 DEF AddBreakpoint, ActivateBreakpoint
    <3>2. /\ ArrangeHandle \/ UNCHANGED stopBps
          /\ \E I, A : PtraceNow(I, {}, A)
        BY <3>1 DEF ActivateBreakpointAs
    <3>3. Stopping' => Stopping \/ RunningIn(threads, tstate) # {}
        BY <2>1, <2>2, <3>2 DEF Stopping, ArrangeHandle
    <3> QED BY <1>a, <2>1, <2>2, <3>2, <3>3, PtraceNowLive
  <2>3. CASE ~ProcessReady(target)
    <3>1. UNCHANGED <<kvars, stopBps, tstate>>
        BY <1>5, <2>3 DEF AddBreakpoint
    <3>2. Stopping' => Stopping
        BY <2>1, <2>3 DEF Stopping
    <3> QED BY <2>1, <3>1, <3>2, UntouchedLive DEF kvars
  <2> QED BY <2>2, <2>3
<1>6. CASE RemoveBreakpoint
  <2>1. UNCHANGED <<kvars, pvars, tvars, lvars>>
      BY <1>6 DEF RemoveBreakpoint
  <2>2. Stopping' => Stopping
      BY <2>1 DEF Stopping, pvars, lvars
  <2> QED BY <2>1, <2>2, UntouchedLive DEF kvars, pvars, tvars
<1>7. CASE Murder
    BY <1>7 DEF Murder, LiveInv
<1> QED BY <1>1, <1>2, <1>3, <1>4, <1>5, <1>6, <1>7, StartChildLive DEF UserNext

LEMMA NextLive ==
    IInv /\ ExitInv /\ StopsAccounted /\ StepsInOrder /\ LiveInv /\ [Next]_vars => LiveInv'
<1> SUFFICES ASSUME IInv, ExitInv, StopsAccounted, StepsInOrder, LiveInv, [Next]_vars
             PROVE  LiveInv'
    OBVIOUS
<1>1. ASSUME NEW t \in Tids, HandleEvent(t) PROVE LiveInv'
  <2>1. ASSUME NEW e, HandleEsrch(t, e) PROVE LiveInv'
      BY <2>1 DEF HandleEsrch, Ptrace, LiveInv
  <2> QED BY <1>1, <2>1, ExitedLive, StopsLive, DeferLive DEF HandleEvent
<1>2. CASE DebuggerNext
    BY <1>1, <1>2, TailLive DEF DebuggerNext
<1>3. ASSUME NEW done, SymbolsEvent(done) PROVE LiveInv'
  <2>1. pc = "idle" /\ UNCHANGED <<kvars, pvars, tvars>>
      BY <1>3 DEF SymbolsEvent
  <2>2. Stopping' => Stopping
      BY <2>1 DEF Stopping, pvars
  <2> QED BY <2>1, <2>2, UntouchedLive DEF kvars, pvars, tvars
<1>4. CASE UNCHANGED vars
  <2>1. UNCHANGED <<kvars, pvars, tvars, lvars>>
      BY <1>4 DEF vars
  <2>2. Stopping' => Stopping
      BY <2>1 DEF Stopping, pvars, lvars
  <2> QED BY <2>1, <2>2, UntouchedLive DEF kvars, pvars, tvars
<1> QED BY <1>2, <1>3, <1>4, KernelLive, UserLive DEF Next

\* ControlConsistent: stopping all threads makes progress, a process waits only for a binary
\* that is loading, any_live_tid lives, the step the process is in exists, and every status set
\* aside will be handled.  The assumption is the one of HeldCorrect.
THEOREM ControlCorrect == ~CursorCanFail => (Spec => []ControlConsistent)
<1> SUFFICES ASSUME ~CursorCanFail PROVE Spec => []ControlConsistent
    OBVIOUS
<1> DEFINE Inv == /\ IInv /\ ExitInv /\ StopsAccounted /\ PtraceContract /\ StartupInOrder
                  /\ StepsInOrder /\ AssertionsHold /\ HeldInv /\ LiveInv
<1>1. Init => Inv
  <2>1. Init => LiveInv
      BY DEF Init, LiveInv, Lives, Births, LiveKnown, StillStopping, Stopping, ProcessReady
  <2> QED BY <2>1, InitKeeps, InitOrdered, InitHeld
<1>2. Inv /\ [Next]_vars => Inv'
    BY NextKeeps, NextExit, NextContract, NextStartup, NextSteps, NextHeld, NextLive
<1>3. Inv => ControlConsistent
  <2> SUFFICES ASSUME Inv PROVE ControlConsistent
      OBVIOUS
  <2>1. WaitHasReason /\ SteppingConsistent
      BY StepsShown
  <2>2. AnyLiveIsLive
      BY DEF AnyLiveIsLive, LiveInv, LiveKnown
  <2>3. DeferredWillAppear
    <3> SUFFICES ASSUME ~killed, NEW i \in DOMAIN deferred, deferred[i].tid \notin threads
                 PROVE  \E p \in threads : kmsg[p] = deferred[i].tid /\ kev[p] = "CLONE"
        BY DEF DeferredWillAppear
    <3>1. deferred[i].tid \in Tids
        BY DeferredTids DEF IInv
    <3>2. k[deferred[i].tid] = "stop"
        BY DEF StopsAccounted
    <3> QED BY <3>1, <3>2 DEF LiveInv, Births
  <2>4. StoppingIsInProgress
    <3> SUFFICES ASSUME pc = "idle", stopBps, ProcessReady(target), ~killed
                 PROVE  /\ RunningIn(threads, tstate) # {}
                        /\ \A t \in RunningIn(threads, tstate) :
                              k[t] = "born" \/ kint[t] \/ kev[t] # "none"
                                \/ \E i \in DOMAIN deferred : deferred[i].tid = t
        BY DEF StoppingIsInProgress
    <3>1. RunningIn(threads, tstate) # {}
        BY DEF LiveInv, StillStopping, Stopping
    <3>2. ASSUME NEW t \in RunningIn(threads, tstate), k[t] # "born", ~kint[t], kev[t] = "none"
          PROVE  \E i \in DOMAIN deferred : deferred[i].tid = t
      <4>1. t \in threads /\ t \in Tids /\ tstate[t] = "Running" /\ ~exiting[t]
          BY DEF RunningIn, IInv, TypeOK
      <4>2. k[t] \in {"run", "stop", "zombie"}
          BY <3>2, <4>1 DEF LiveInv, Lives, IInv, TypeOK, KStates
      <4>3. k[t] # "zombie"
          BY <3>2, <4>1 DEF StopsAccounted
      <4>4. k[t] # "run"
        <5> SUFFICES ASSUME k[t] = "run" PROVE FALSE
            OBVIOUS
        <5>1. ~pastExit[t]
            BY <4>1 DEF LiveInv, Lives
        <5>2. MayRun(t) /\ Held(t)
            BY <5>1 DEF MayRun, UserRunning, Held
        <5> QED BY <3>2, <4>1, <5>2 DEF HeldInv, Halting
      <4> QED BY <3>2, <4>1, <4>2, <4>3, <4>4 DEF LiveInv, Lives
    <3> QED BY <3>1, <3>2
  <2> QED BY <2>1, <2>2, <2>3, <2>4 DEF ControlConsistent
<1> HIDE DEF Inv
<1> QED BY <1>1, <1>2, <1>3, PTL DEF Spec

=============================================================================
