---------------------------- MODULE Breakpoints ----------------------------
(***************************************************************************)
(* Breakpoints of nnd on x86 (src/src/debugger.rs): locations shared by    *)
(* user breakpoints and steps, int3 bytes, the debug registers of every    *)
(* thread, and the interpretation of SIGTRAP.                              *)
(*                                                                         *)
(* A location is a software breakpoint (int3) unless some thread stands on *)
(* it, then it is a hardware one, which the thread that stands there is to *)
(* ignore once.  handle_breakpoints() converts between the two while all   *)
(* threads are stopped; how they are stopped is the subject of             *)
(* PtraceControl, here reduced to a pending STOP trap per thread.          *)
(*                                                                         *)
(* Not here: int3 instructions of the program itself, and debug registers  *)
(* that reject an address (EINVAL).  Data addresses differ from code       *)
(* addresses, and every breakpoint has one location.                       *)
(***************************************************************************)
EXTENDS Integers, FiniteSets

CONSTANTS
    Tids,           \* threads of the debuggee
    First,          \* the one it starts with
    NumAddrs,       \* code addresses where breakpoints can be
    CodeBps,        \* user breakpoints on instructions
    DataBps,        \* user breakpoints on data, each on its own address
    Conditional,    \* those with a condition
    Where,          \* address of each code breakpoint
    NumSlots,       \* debug registers (4)
    StepKinds,      \* kinds of steps the user does
    NoTid,
    Nothing

ASSUME TidsAssumption == First \in Tids /\ NoTid \notin Tids /\ IsFiniteSet(Tids)

ASSUME BpsAssumption ==
    /\ NumAddrs \in Nat \ {0} /\ NumSlots \in Nat \ {0}
    /\ Where \in [CodeBps -> 1..NumAddrs]
    /\ Conditional \subseteq CodeBps \cup DataBps
    /\ CodeBps \cap DataBps = {}
    /\ (CodeBps \cup DataBps \cup {Nothing}) \cap Int = {}
    /\ (CodeBps \cup DataBps) \cap {"stop", "call", Nothing} = {}
    /\ StepKinds \subseteq {"instr", "range", "cursor"}

Addrs == 1..NumAddrs
Elsewhere == 0      \* any instruction without a breakpoint
Slots == 1..NumSlots

\* StepBreakpointType: after Call and JumpOut the thread is single-stepped.
StepRefs == {"stop", "call"}

VARIABLES
    on,             \* user breakpoints that are enabled and active
    locs,           \* breakpoint_locations: their addresses,
    refs,           \* BreakpointLocation::breakpoints,
    hard,           \* BreakpointLocation::hardware,
    act,            \* BreakpointLocation::active
    int3,           \* addresses where memory holds 0xcc
    slots,          \* hardware_breakpoints
    target,         \* target_state
    stopping,       \* stopping_to_handle_breakpoints
    step,           \* stepping
    \* threads
    run,            \* what the thread does and what the debugger knows of it
    fresh,          \* waiting_for_initial_stop
    intr,           \* a STOP trap is pending in the kernel
    pos,            \* address of the instruction at RIP, or whose int3 was executed
    past,           \* RIP is one byte past pos, after int3
    sig,            \* cause of a SIGTRAP that is queued or was delivered
    dr,             \* what dr0..dr3 and dr7 make the thread stop at
    dr6,            \* which of them did
    rf,             \* resume flag: no instruction breakpoint at pos any more
    single,         \* single_stepping
    ignore          \* ignore_next_hw_breakpoint_hit_at_addr

table == <<on, locs, refs, hard, act, int3, slots>>
control == <<target, stopping, step>>
cpu == <<pos, past, sig, rf>>
vars == <<table, control, run, fresh, intr, cpu, dr, dr6, single, ignore>>

NoStep == [tid |-> NoTid, kind |-> "none", keep |-> FALSE]
Steps == [tid : Tids, kind : StepKinds, keep : BOOLEAN]

\* HardwareBreakpoint::default()
NoSlot == [what |-> Nothing, tid |-> NoTid, pushed |-> FALSE]

\* "run": running; "stop" and "trap": stopped, the status is not reaped yet;
\* "held": ThreadState::Suspended.
TypeOK ==
    /\ on \in SUBSET (CodeBps \cup DataBps)
    /\ locs \in SUBSET Addrs /\ hard \in SUBSET locs /\ act \in SUBSET locs
    /\ refs \in [Addrs -> SUBSET (CodeBps \cup StepRefs)]
    /\ int3 \in SUBSET Addrs
    /\ slots \in [Slots -> [what : Addrs \cup DataBps \cup {Nothing},
                            tid : Tids \cup {NoTid}, pushed : BOOLEAN]]
    /\ target \in {"Suspended", "Running", "Stepping"}
    /\ stopping \in BOOLEAN
    /\ step \in Steps \cup {NoStep}
    /\ run \in [Tids -> {"none", "run", "stop", "trap", "held"}]
    /\ fresh \in SUBSET Tids /\ intr \in SUBSET Tids
    /\ pos \in [Tids -> Addrs \cup {Elsewhere}]
    /\ past \in [Tids -> BOOLEAN]
    /\ sig \in [Tids -> {"none", "int3", "hw", "step"}]
    /\ dr \in [Tids -> [Slots -> Addrs \cup DataBps \cup {Nothing}]]
    /\ dr6 \in [Tids -> SUBSET Slots]
    /\ rf \in [Tids -> BOOLEAN]
    /\ single \in [Tids -> BOOLEAN]
    /\ ignore \in [Tids -> Addrs \cup {Elsewhere}]

\* A process that has just been suspended, with no breakpoint yet.
Init ==
    /\ on = {} /\ locs = {} /\ hard = {} /\ act = {} /\ int3 = {}
    /\ refs = [a \in Addrs |-> {}]
    /\ slots = [s \in Slots |-> NoSlot]
    /\ target = "Suspended" /\ stopping = FALSE /\ step = NoStep
    /\ run = [t \in Tids |-> IF t = First THEN "held" ELSE "none"]
    /\ fresh = {} /\ intr = {}
    /\ pos = [t \in Tids |-> Elsewhere]
    /\ past = [t \in Tids |-> FALSE]
    /\ sig = [t \in Tids |-> "none"]
    /\ dr = [t \in Tids |-> [s \in Slots |-> Nothing]]
    /\ dr6 = [t \in Tids |-> {}]
    /\ rf = [t \in Tids |-> FALSE]
    /\ single = [t \in Tids |-> FALSE]
    /\ ignore = [t \in Tids |-> Elsewhere]

(***************************************************************************)
(* The threads and the kernel.                                             *)
(***************************************************************************)

\* Thread t meets an instruction breakpoint of its debug registers ...
HitHardware(t) ==
    LET hits == {s \in Slots : dr[t][s] = pos[t]}
    IN  /\ run[t] = "run" /\ sig[t] = "none"
        /\ ~rf[t] /\ hits # {}
        /\ dr6' = [dr6 EXCEPT ![t] = hits]
        /\ rf' = [rf EXCEPT ![t] = TRUE]
        /\ sig' = [sig EXCEPT ![t] = "hw"]
        /\ UNCHANGED <<table, control, run, fresh, intr, pos, past, dr, single, ignore>>

\* ... or else executes int3 ...
HitSoftware(t) ==
    /\ run[t] = "run" /\ sig[t] = "none"
    /\ rf[t] \/ \A s \in Slots : dr[t][s] # pos[t]
    /\ pos[t] \in int3
    /\ past' = [past EXCEPT ![t] = TRUE]
    /\ rf' = [rf EXCEPT ![t] = FALSE]
    /\ sig' = [sig EXCEPT ![t] = "int3"]
    /\ UNCHANGED <<table, control, run, fresh, intr, pos, dr, dr6, single, ignore>>

\* ... or else the instruction, which may touch watched data and is followed by
\* a trap if the thread is single-stepped.
Execute(t, to, touched) ==
    /\ run[t] = "run" /\ sig[t] = "none" /\ ~past[t]
    /\ rf[t] \/ \A s \in Slots : dr[t][s] # pos[t]
    /\ pos[t] \notin int3
    /\ touched \subseteq {s \in Slots : dr[t][s] \in DataBps}
    /\ pos' = [pos EXCEPT ![t] = to]
    /\ rf' = [rf EXCEPT ![t] = FALSE]
    /\ dr6' = [dr6 EXCEPT ![t] = touched]
    /\ sig' = [sig EXCEPT ![t] = IF single[t] THEN "step" ELSE IF touched # {} THEN "hw" ELSE "none"]
    /\ UNCHANGED <<table, control, run, fresh, intr, past, dr, single, ignore>>

\* A SIGTRAP is delivered; a STOP trap comes before the signals.
Deliver(t) ==
    /\ run[t] = "run" /\ sig[t] # "none" /\ t \notin intr
    /\ run' = [run EXCEPT ![t] = "trap"]
    /\ UNCHANGED <<table, control, fresh, intr, cpu, dr, dr6, single, ignore>>

StopTrap(t) ==
    /\ run[t] = "run" /\ t \in intr
    /\ run' = [run EXCEPT ![t] = "stop"]
    /\ intr' = intr \ {t}
    /\ UNCHANGED <<table, control, fresh, cpu, dr, dr6, single, ignore>>

\* clone(): the new thread starts with a STOP trap and empty debug registers.
Clone(t, u) ==
    /\ run[t] = "run" /\ sig[t] = "none" /\ run[u] = "none"
    /\ run' = [run EXCEPT ![u] = "stop"]
    /\ fresh' = fresh \cup {u}
    /\ UNCHANGED <<table, control, intr, cpu, dr, dr6, single, ignore>>

(***************************************************************************)
(* Parts of the debugger's operations.                                     *)
(***************************************************************************)

\* any_thread_in_state(Running)
RunningThreads == {t \in Tids : run[t] \in {"run", "stop", "trap"}}

\* What handle_breakpoints() waits for.  Nothing else happens in such a state.
AllHeld == stopping /\ RunningThreads = {}

\* ptrace_interrupt_all_running_threads(): a thread whose STOP trap was taken and
\* not yet reaped has sent_interrupt set.
Interrupt(T) == intr \cup {t \in T : run[t] # "stop" \/ t \in fresh}

\* arrange_handle_breakpoints()
Arrange_NobodyRunning ==
    /\ stopping' = (stopping \/ RunningThreads # {})
    /\ intr' = IF stopping THEN intr ELSE Interrupt(RunningThreads)

Arrange ==
    /\ stopping' = TRUE
    /\ intr' = IF stopping THEN intr ELSE Interrupt(RunningThreads)

\* target_state_for_thread(t) = Running
WantsRun(t) ==
    /\ ~stopping
    /\ \/ target = "Running"
       \/ target = "Stepping" /\ (step.tid = t \/ ~step.keep)

\* resume_thread() of the threads T, of those that were stopped.
ResumeThreads(T) ==
    /\ run' = [t \in Tids |-> IF t \in T THEN "run" ELSE run[t]]
    /\ single' = [t \in Tids |->
                     single[t] \/ (t \in T /\ step'.tid = t /\ step'.kind = "instr")]

\* get_debug_register_values_for_hardware_breakpoint() for all slots
Wanted(hw, t) == [s \in Slots |-> IF hw[s].tid \in {NoTid, t} THEN hw[s].what ELSE Nothing]

\* deactivate_breakpoint_location() of those of the addresses A that are active:
\* what remains of int3 and of the slots.
BytesWithout_Kept(A) == int3

BytesWithout(A) == int3 \ ((A \cap act) \ hard)

SlotsWithout_Kept(A) == slots

SlotsWithout_AddrOnly(A) ==
    [s \in Slots |-> IF slots[s].what \in A \cap act \cap hard
                     THEN [slots[s] EXCEPT !.what = Elsewhere] ELSE slots[s]]

SlotsWithout(A) == [s \in Slots |-> IF slots[s].what \in A \cap act \cap hard THEN NoSlot ELSE slots[s]]

\* The Step references are dropped by cancel_stepping().
RefsWithoutStep_Calls == [a \in Addrs |-> refs[a] \ {"call"}]

RefsWithoutStep == [a \in Addrs |-> refs[a] \ StepRefs]

\* stopped_on_sw_breakpoint: what a SIGTRAP is if it is nothing else.
SoftwareTrap_ByteChecked(t) ==
    sig[t] = "int3" /\ dr6[t] = {} /\ ~single[t] /\ pos[t] \in int3

SoftwareTrap(t) == sig[t] = "int3" /\ dr6[t] = {} /\ ~single[t]

\* A slot as activate_breakpoints() fills it in.
DataSlot(i) == [what |-> i, tid |-> NoTid, pushed |-> FALSE]

\* How many elements of S come before x.
Rank(S, x) == Cardinality({y \in S : y < x})

(***************************************************************************)
(* handle_breakpoints(), and the resumption of the threads after it.       *)
(***************************************************************************)
HandleBreakpoints ==
    LET empty == {a \in locs : refs[a] = {}}
        left == locs \ empty
        stand == {pos[t] : t \in {u \in Tids : run[u] = "held" /\ ~past[u]}}
        soften == (left \cap hard) \ stand
        harden == (left \cap stand) \ hard
        hard1 == ((left \cap hard) \ soften) \cup harden
        act1 == (act \cap left) \ (soften \cup harden)
        slots1 == SlotsWithout(empty \cup soften \cup harden)
        need == hard1 \ act1
        free == {s \in Slots : slots1[s].what = Nothing}
        served(s) == {a \in need : s \in free /\ Rank(need, a) = Rank(free, s)}
        slots2 == [s \in Slots |->
                     IF served(s) = {} THEN slots1[s]
                     ELSE LET a == CHOOSE x \in served(s) : TRUE
                          IN  [what |-> a, pushed |-> FALSE,
                               tid |-> IF refs[a] \cap CodeBps = {} THEN step.tid ELSE NoTid]]
        push == \E s \in Slots : slots2[s].what # Nothing /\ ~slots2[s].pushed
    IN  /\ AllHeld
        /\ locs' = left /\ hard' = hard1
        /\ act' = act1 \cup (left \ hard1) \cup UNION {served(s) : s \in Slots}
        /\ int3' = BytesWithout(empty \cup harden) \cup (left \ hard1)
        /\ slots' = [s \in Slots |-> IF push THEN [slots2[s] EXCEPT !.pushed = TRUE] ELSE slots2[s]]
        /\ dr' = [t \in Tids |-> IF push /\ run[t] = "held" THEN Wanted(slots2, t) ELSE dr[t]]
        /\ ignore' = [t \in Tids |-> IF run[t] = "held" /\ ~past[t] /\ pos[t] \in harden
                                     THEN pos[t] ELSE ignore[t]]
        /\ stopping' = FALSE
        /\ UNCHANGED <<on, refs, target, step>>
        /\ ResumeThreads({t \in Tids : run[t] = "held" /\ WantsRun(t)'})
        /\ UNCHANGED <<fresh, intr, cpu, dr6>>

(***************************************************************************)
(* process_events(): one status.                                           *)
(***************************************************************************)

\* STOP: the end of an interrupt, or the initial stop of a new thread.
HandleStop_NoRegisters(t) ==
    /\ run[t] = "stop"
    /\ fresh' = fresh \ {t}
    /\ UNCHANGED <<table, control, intr, cpu, dr, dr6, ignore>>
    /\ IF WantsRun(t) THEN ResumeThreads({t})
       ELSE run' = [run EXCEPT ![t] = "held"] /\ UNCHANGED single

HandleStop(t) ==
    /\ run[t] = "stop"
    /\ fresh' = fresh \ {t}
    /\ dr' = IF t \in fresh THEN [dr EXCEPT ![t] = Wanted(slots, t)] ELSE dr
    /\ UNCHANGED <<table, control, intr, cpu, dr6, ignore>>
    /\ IF WantsRun(t) THEN ResumeThreads({t})
       ELSE run' = [run EXCEPT ![t] = "held"] /\ UNCHANGED single

(***************************************************************************)
(* SIGTRAP: handle_breakpoint_trap(), and what process_events() makes of   *)
(* its answer.  `truth` is what conditions evaluate to, `done` whether a   *)
(* range step has left its range; when it has but is between statements,   *)
(* handle_step_stop() extends the range by breakpoints r at `grow` and, if  *)
(* there may be syscalls in it (`calls`), lets the other threads run.      *)
(***************************************************************************)
HandleTrapAs(t, truth, done, grow, r, calls) ==
    LET isHw == dr6[t] # {}
        isSw == SoftwareTrap(t)
        at == IF past[t] /\ ~isSw THEN Elsewhere ELSE pos[t]
        spurious == isHw /\ ignore[t] = at /\ at # Elsewhere
        stepped == single[t] /\ sig[t] \in {"step", "int3"} /\ ~spurious
        here == IF at \in locs THEN refs[at] ELSE {}
        lapsed == {at} \cap {a \in locs : refs[a] = {}}
        mine == step # NoStep /\ step.tid = t
        ids == (IF spurious THEN {} ELSE here \cap CodeBps)
                  \cup ({slots[s].what : s \in dr6[t]} \cap DataBps)
        reasons == {i \in ids : /\ step = NoStep /\ target # "Suspended"
                                /\ i \in Conditional => truth}
        ends == /\ reasons = {} /\ mine
                /\ \/ step.kind = "cursor" /\ here \cap StepRefs # {}
                   \/ step.kind = "instr" /\ stepped
                   \/ step.kind = "range" /\ done
        hit == reasons # {} \/ ends
        stop == stopping \/ at \in locs \ hard \/ grow # {}
        keep == step.keep /\ ~calls
        freed == {u \in Tids : calls /\ ~stop /\ step.keep /\ run[u] = "held"}
    IN  /\ run[t] = "trap"
        /\ grow # {} \/ calls => mine /\ step.kind = "range" /\ ~hit
        /\ sig' = [sig EXCEPT ![t] = "none"]
        /\ past' = [past EXCEPT ![t] = @ /\ ~isSw]
        /\ dr' = IF isHw THEN [dr EXCEPT ![t] = Wanted(slots, t)] ELSE dr
        /\ dr6' = [dr6 EXCEPT ![t] = {}]
        /\ ignore' = [ignore EXCEPT ![t] = Elsewhere]
        /\ act' = act \ lapsed /\ int3' = BytesWithout(lapsed) /\ slots' = SlotsWithout(lapsed)
        /\ locs' = locs \cup grow
        /\ refs' = IF hit /\ step # NoStep THEN RefsWithoutStep
                   ELSE [a \in Addrs |-> IF a \in grow THEN refs[a] \cup {r} ELSE refs[a]]
        /\ step' = (IF hit THEN NoStep ELSE [step EXCEPT !.keep = keep])
        /\ target' = IF hit THEN "Suspended" ELSE target
        /\ stopping' = stop
        /\ intr' = IF hit \/ (stop /\ (target = "Running" \/ (step # NoStep /\ ~(keep /\ mine))))
                   THEN Interrupt(RunningThreads \ {t}) ELSE intr
        /\ run' = [u \in Tids |-> IF u = t THEN IF hit \/ stop THEN "held" ELSE "run"
                                  ELSE IF u \in freed THEN "run" ELSE run[u]]
        /\ single' = [single EXCEPT ![t] = \/ mine /\ "call" \in here
                                           \/ r = "call" /\ at \in grow
                                           \/ ~hit /\ ~stop /\ mine /\ step.kind = "instr"]
        /\ UNCHANGED <<on, hard, fresh, pos, rf>>

\* What handle_step_stop() may extend the range of a step by.
Extensions(t) ==
    {[at |-> {}, type |-> "stop", calls |-> FALSE]} \cup
    {e \in [at : SUBSET Addrs, type : StepRefs, calls : BOOLEAN] : step.tid = t /\ step.kind = "range"}

HandleTrap(t) ==
    /\ run[t] = "trap"
    /\ \E truth, done \in BOOLEAN, e \in Extensions(t) :
          HandleTrapAs(t, truth, done, e.at, e.type, e.calls)

(***************************************************************************)
(* The user.                                                               *)
(***************************************************************************)

\* add_breakpoint(), set_breakpoint_enabled(true): activate_breakpoints()
EnableCode(i) ==
    /\ ~AllHeld /\ i \in CodeBps \ on
    /\ on' = on \cup {i}
    /\ locs' = locs \cup {Where[i]}
    /\ refs' = [refs EXCEPT ![Where[i]] = @ \cup {i}]
    /\ Arrange
    /\ UNCHANGED <<hard, act, int3, slots, target, step, run, fresh, cpu, dr, dr6, single, ignore>>

\* A data breakpoint takes its slot right away, if there is one.
EnableData(i) ==
    LET free == {s \in Slots : slots[s].what = Nothing}
    IN  /\ ~AllHeld /\ i \in DataBps \ on
        /\ on' = on \cup {i}
        /\ \E s \in free : Rank(free, s) = 0 /\ slots' = [slots EXCEPT ![s] = DataSlot(i)]
        /\ Arrange
        /\ UNCHANGED <<locs, refs, hard, act, int3, target, step, run, fresh, cpu, dr, dr6, single, ignore>>

\* remove_breakpoint(), set_breakpoint_enabled(false): deactivate_breakpoint().
\* Its location and the debug registers are left for later.
Disable(i) ==
    /\ ~AllHeld /\ i \in on
    /\ on' = on \ {i}
    /\ refs' = [a \in Addrs |-> refs[a] \ {i}]
    /\ slots' = [s \in Slots |-> IF slots[s].what = i THEN NoSlot ELSE slots[s]]
    /\ UNCHANGED <<locs, hard, act, int3, control, run, fresh, intr, cpu, dr, dr6, single, ignore>>

\* resume()
Resume ==
    /\ ~AllHeld /\ target \in {"Suspended", "Stepping"}
    /\ target' = "Running" /\ step' = NoStep
    /\ refs' = IF target = "Stepping" THEN RefsWithoutStep ELSE refs
    /\ UNCHANGED stopping
    /\ ResumeThreads({t \in Tids : run[t] = "held" /\ WantsRun(t)'})
    /\ UNCHANGED <<on, locs, hard, act, int3, slots, fresh, intr, cpu, dr, dr6, ignore>>

\* suspend()
Suspend ==
    /\ ~AllHeld /\ target \in {"Running", "Stepping"}
    /\ target' = "Suspended" /\ step' = NoStep
    /\ refs' = RefsWithoutStep
    /\ intr' = Interrupt(RunningThreads)
    /\ UNCHANGED <<on, locs, hard, act, int3, slots, stopping, run, fresh, cpu, dr, dr6, single, ignore>>

\* step(): breakpoints of type r at the addresses A; a step by one instruction has
\* none and uses PTRACE_SINGLESTEP.
Step(t, kind, keep, A, r) ==
    /\ ~AllHeld /\ target = "Suspended" /\ run[t] = "held"
    /\ kind \in StepKinds \ {"cursor"}
    /\ A = {} <=> kind = "instr"
    /\ target' = "Stepping"
    /\ step' = [tid |-> t, kind |-> kind, keep |-> keep]
    /\ locs' = locs \cup A
    /\ refs' = [a \in Addrs |-> IF a \in A THEN refs[a] \cup {r} ELSE refs[a]]
    /\ IF A # {} \/ (~past[t] /\ pos[t] \in locs \ hard)
       THEN /\ Arrange
            /\ run' = run
            /\ single' = [single EXCEPT ![t] = @ \/ (r = "call" /\ ~past[t] /\ pos[t] \in A)]
       ELSE /\ UNCHANGED <<stopping, intr>>
            /\ ResumeThreads({u \in Tids : run[u] = "held" /\ WantsRun(u)'})
    /\ UNCHANGED <<on, hard, act, int3, slots, fresh, cpu, dr, dr6, ignore>>

\* step_to_cursor()
StepToCursor(t, a) ==
    /\ ~AllHeld /\ "cursor" \in StepKinds /\ run[t] # "none"
    /\ target' = "Stepping"
    /\ step' = [tid |-> t, kind |-> "cursor", keep |-> FALSE]
    /\ locs' = locs \cup {a}
    /\ refs' = [RefsWithoutStep EXCEPT ![a] = @ \cup {"stop"}]
    /\ Arrange
    /\ UNCHANGED <<on, hard, act, int3, slots, run, fresh, cpu, dr, dr6, single, ignore>>

Kernel(t) ==
    \/ HitHardware(t) \/ HitSoftware(t) \/ Deliver(t) \/ StopTrap(t)
    \/ \E to \in Addrs \cup {Elsewhere}, touched \in SUBSET Slots : Execute(t, to, touched)
    \/ \E u \in Tids : Clone(t, u)

User ==
    \/ \E i \in CodeBps : EnableCode(i)
    \/ \E i \in DataBps : EnableData(i)
    \/ \E i \in CodeBps \cup DataBps : Disable(i)
    \/ Resume \/ Suspend
    \/ \E t \in Tids, kind \in StepKinds, keep \in BOOLEAN, A \in SUBSET Addrs, r \in StepRefs :
           Step(t, kind, keep, A, r)
    \/ \E t \in Tids, a \in Addrs : StepToCursor(t, a)

Next ==
    \/ \E t \in Tids : Kernel(t) \/ HandleStop(t) \/ HandleTrap(t)
    \/ HandleBreakpoints
    \/ User

Spec == Init /\ [][Next]_vars

(***************************************************************************)
(* Properties.                                                             *)
(***************************************************************************)

\* The code of the debuggee is what its author compiled, but for the int3 of the
\* active software locations.
CodeIntact == int3 = act \ hard

\* An instruction whose first byte was replaced is neither skipped nor entered in
\* the middle: a thread past an int3 still has its SIGTRAP to be handled.
NoBrokenThread == \A t \in Tids : past[t] => sig[t] = "int3"

\* A hardware location that is active has exactly one slot, and a slot belongs to
\* an active hardware location or to an enabled data breakpoint.
SlotsOwned ==
    /\ \A a \in act \cap hard : Cardinality({s \in Slots : slots[s].what = a}) = 1
    /\ \A i \in on \cap DataBps : Cardinality({s \in Slots : slots[s].what = i}) = 1
    /\ \A s \in Slots : slots[s].what \in (act \cap hard) \cup (on \cap DataBps) \cup {Nothing}

\* What was pushed to the threads is in the debug registers of every thread that
\* executes instructions, those created later included.
SlotsArmed ==
    \A s \in Slots, t \in Tids :
        /\ slots[s].what # Nothing /\ slots[s].pushed
        /\ run[t] # "none" /\ t \notin fresh
        => dr[t][s] = Wanted(slots, t)[s]

\* Address a has a debug register that a step set up for another thread than t.
\* activate_breakpoint_location() leaves an active location as it is, so that a
\* user breakpoint that joins it stays so ("Currently only step breakpoints are
\* thread-specific").
HeldByStep(a, t) == \E s \in Slots : slots[s].what = a /\ slots[s].tid \notin {NoTid, t}

\* Thread t cannot pass an enabled breakpoint unnoticed: int3 or its own debug
\* registers stop it there, or handle_breakpoints() is on its way.  Two exceptions:
\* there was no debug register left, and the location's register is a step's.
EnabledGetsHandled ==
    ~stopping =>
        \A t \in Tids : run[t] # "none" /\ t \notin fresh =>
            /\ \A i \in on \cap CodeBps :
                  \/ Where[i] \in int3 \/ \E s \in Slots : dr[t][s] = Where[i]
                  \/ Where[i] \in hard \ act
                  \/ HeldByStep(Where[i], t)
            /\ \A i \in on \cap DataBps : \E s \in Slots : dr[t][s] = i

\* Breakpoints of a step are gone when the step is: handle_breakpoint_trap() and
\* step() rely on it (unwrap, assert).
StepBreakpointsOwned ==
    step = NoStep => \A a \in Addrs : refs[a] \cap StepRefs = {}

\* Debug registers and breakpoints of a step have exactly the owners they should
\* have, in the table of slots, in the locations and in every thread.
BreakpointsOwned == SlotsOwned /\ SlotsArmed /\ StepBreakpointsOwned

\* No code stays overwritten, and no debug register and no breakpoint of a step is
\* leaked or missing in a thread.
BreakpointsSound == TypeOK /\ CodeIntact /\ BreakpointsOwned
=============================================================================
