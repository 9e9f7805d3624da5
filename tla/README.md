# Verification of nnd

TLA+ models of nnd, a debugger for Linux (Rust, `src/src/*.rs`). TLC checks the
models on small instances; TLAPS proves the central invariants for every value
of the constants.

`PROJECT.json` is the index: components, runs, mutants, the map from definitions
to source lines, findings, hazards and theorems. Line numbers below are of
`src/src/debugger.rs` unless another file is named.

## 1. Inventory of the system

nnd is one process: a main thread that owns all debugger state and multiplexes,
with epoll, the debuggee (SIGCHLD and `waitpid`) or a GDB stub (TCP), symbol
loading (an eventfd), keyboard input and a refresh timer (`main.rs`); and a pool
of worker threads (`executor.rs`) for symbol loading and searches.

| component | state | operations | interacts with | what is hard | correct when |
|---|---|---|---|---|---|
| ptrace thread control | `threads`, `target_state`, `pending_wait_events`, `stopping_to_handle_breakpoints`, `stopped_until_symbols_are_loaded`, `stepping`, `pending_step`; per thread `state`, `sent_interrupt`, `exiting`, `pending_signal` | start, resume, suspend, step, step to cursor, murder; a branch of `process_events()` per kind of stop | kernel, breakpoints, symbols | stops in any order, threads not yet known, interrupts that cross stops, SIGKILL | the table agrees with the kernel; code is patched at rest; no stop or signal is lost; suspending and resuming finish |
| breakpoint machinery | `breakpoint_locations`, `hardware_breakpoints`, int3 bytes, debug registers, `single_stepping` | enable, disable, `handle_breakpoints()`, `handle_breakpoint_trap()` | thread control, steps | SIGTRAPs queued behind other stops, conversion of int3 and register | code is intact but for active int3s; no thread resumes inside an instruction; registers are neither leaked nor shared |
| step engine | `stepping`, its ranges and breakpoints | `step()`, `handle_step_stop()`, `cancel_stepping()` | breakpoints, unwinding, line table | recursion, inlining, exceptions; ranges that grow on the way | it ends where a step that looked at every instruction would; it leaves nothing behind |
| remote GDB target | connection, `resume_in_flight`, stop replies | continue, step, interrupt, breakpoint packets | thread control | late replies, timeouts, a lost connection | a reply is taken for the answer of its request; what is shown is the target's state |
| symbols registry, load scheduler | `binaries`, `LoadScheduler`, message queue, eventfd | register, evict, prepare a stage, run a shard, report, apply | Executor, thread control | an unsafe cell shared by threads, several failures, eviction | exclusive use of the loader; exactly one result; loading ends |
| Executor | queue, condition variable | `add`, `worker_thread` | loading, search | lost wakeups | every closure runs once |
| search | query, a `SearchState` per search | start, cancel, merge, draw | Executor, symbols | cancellation, completion racing with drawing | results are those of the query shown |
| pool of ids | slots with sequence numbers | add, remove, get, clear | breakpoints, layout | stale ids | an id finds its value or nothing |
| saved state, settings | session directories, locks, key bindings file | lock, save, load, reload | UI | crashes between system calls, two debuggers | nothing torn is loaded, nothing saved is lost |
| layout, widgets, terminal | region tree, walls, widget tree of two frames, text fields, input buffer, screen | input of a frame, drawing, save, load | UI | state of one frame applied to the next, cut escape sequences | input arrives once where it was meant; the screen shows what was drawn |
| debugger windows | selected thread and frame, code tabs, watches | frames of the UI | all of the above | threads, symbols and stacks change between frames | the windows show what stopped, and values of the selected frame |
| debug information | line table, functions, inlined calls, types, unwind tables | load in shards, sort, merge, look up | loading, steps, windows | threads sharing a graph, garbage from compilers, sentinels | a lookup finds what the compiler wrote |
| watch expressions | tokens, trees, values | lex, parse, evaluate | windows | bit ranges, widths, precedence | text is read as written; values are those of memory |
| core dumps | threads seized, injected fork(), file | stop, note, fork, write; read | kernel | signals and failures in mid-injection, cut files | the process is left as it was; what is read was there |
| attach, detach, shutdown | `/proc/*/task` scan | seize, detach | thread control, breakpoints | threads created during the scan | no thread missed, none left broken (not modelled) |

The hazards behind the properties are under `hazards`, each at its line.

## 2. Modules

| module | models | composition |
|---|---|---|
| `PtraceControl` | thread control: the kernel's side of ptrace (external), every branch of `process_events()`, the user's operations | leaves the meaning of a SIGTRAP open as a constrained choice; `Breakpoints` fills it in |
| `Breakpoints` | locations, int3, debug registers, SIGTRAP, breakpoints of steps | reduces thread control to a pending STOP trap per thread; that everybody is stopped in `handle_breakpoints()` is proved in `PtraceControl` |
| `StepEngine` | address ranges, internal breakpoints and the end of a step | one thread over small programs |
| `GdbRemote` | the remote backend and an all-stop stub over two FIFO wires | |
| `TaskPool`, `Executor` | abstract pool; queue, mutex, condition variable | `Executor` refines `TaskPool` |
| `SymbolsRegistry`, `Search` | staged loading; search dialogs | both run on a `TaskPool`; `MCLoading` puts them beside the `Executor` |
| `FuzzyMatch` | the vectorised matcher, against a reference definition | scores of `Search` |
| `Pool`, `Sessions` | `pool.rs`; `persistent.rs` | |
| `Layout`, `Walls`, `Autolayout`, `Dispatch`, `TextInput`, `Terminal` | `layout.rs`, `imgui.rs`, `widgets.rs`, `terminal.rs` | with `Pool`, `Sessions` and `Focus` in `MCInterface` |
| `Focus`, `CodeTabs`, `Watches` | windows of `ui.rs` | `Focus` in `MCInterface`, the others in `MCWorkbench` |
| `WatchLexer`, `WatchParser`, `WatchEval`, `Pieces` | `interp.rs`, `expr.rs` | in `MCWorkbench` |
| `LineTable`, `Subfunctions`, `DieWalk`, `FunctionIndex`, `TypesLoader`, `Unwind` | `symbols.rs`, `types.rs`, `unwind.rs` | in `MCWorkbench` |
| `CoreDumper`, `CoreFile` | `core_dumper.rs`, core files of `elf.rs` | in `MCWorkbench` |
| `MC*` | instances for TLC | |
| `*_proofs` | theorems | |

Components that share no state are checked side by side in one run (`MCLoading`,
`MCInterface`, `MCWorkbench`): a variable `which` chooses the one that moves, so
a run is the sum of its parts, and each conjunct of its properties names its
part.

### PtraceControl

Kernel variables (`k`, `kev`, `kmsg`, `kint`, `held`, `pastExit`, `killed`,
`boot`) stand for the kernel's threads; the rest are fields of `Debugger` and
`Thread` and locals of the event loop. One `Handle*` action per branch of
`process_events()` (998-1175), `EndLoop`, `InitialExecTail`,
`HandleBreakpointsTail` and `DropCaches` for what follows the loop, and one
action per user operation. The kernel is modelled from how the code uses it: a
STOP trap is taken before queued signals; any trap consumes a pending STOP trap;
PTRACE_INTERRUPT of a stopped thread stays pending; SIGKILL discards statuses
not yet reaped, and the thread may or may not stop in PTRACE_EVENT_EXIT; the
exit of the main thread is withheld until the others are reaped.

Abstractions: addresses and registers; one user breakpoint (its location may
wait for symbols); the loop's early return is "any time after one event"; other
signals only after the initial exec; exec in a multi-threaded process (marked
as not implemented, 1031) and attaching are left out. Violations of ptrace's
rules, failing assertions and patching while somebody runs are recorded in
`faults`, at the point of the code where they would happen.

### Breakpoints

`locs`, `refs`, `hard` and `act` are the fields of `BreakpointLocation`; `slots`
is `hardware_breakpoints`; `dr`, `dr6`, `rf`, `pos`, `past` are the thread's
registers, with RIP reduced to "at the breakpoint address", "one past its int3",
or elsewhere. `HandleBreakpoints` is the whole of `handle_breakpoints()` with
the resumption after it; `HandleTrapAs` the whole of `handle_breakpoint_trap()`
with what `process_events()` makes of its result.

Abstractions: `StepBreakpointType` is reduced to whether the thread is
single-stepped after a hit; whether a range step is done and which breakpoints
it adds are choices (`StepEngine` has the decisions); every breakpoint has one
location; the program has no int3 of its own; debug registers accept every
address.

### StepEngine, Unwind

A thread executes a function of a few instructions with jumps, calls, recursion,
an inlined call, a catch block and lines; a step is started anywhere. The
reference is a step that looks at every instruction. A throw is a runtime call
of one instruction. Left out: columns and indirect jumps. Three things the code
does on the way keep a step from being the reference, are modelled, and are named
in `Judge`: growing the ranges does not scan the one instruction the thread stands
at (3257-3271), so a call, jump or system call there is missed, and with it the
comment at 3287 that no system call is made while the others are held
(`Unscanned`, `missed`); after that the ranges need not be in order, and the
search of them may miss the one the thread is in (`Misled`); and in code without
unwind information there is no CFA to compare (3192), so that a step goes on
there, except a step into, which ends (`HasCfa`).
`Unwind` runs a program with preludes, epilogues and signal handlers and compares
each stack trace with the true chain of callers; DWARF expressions and the
`dubious` marks are left out. Its second half compares the catch blocks that the
index of ranges and the exception tables give for a step with a direct search.

### GdbRemote

A handler of the debugger is the list `todo` of requests and decisions it still
has to make; between two of them replies, stops, timeouts and the end of the
connection happen. Acks, framing and hex are left out. Operations in `Ops`
switch rare events on. Three of them are left out of the passing run and of the
theorems, because with each the debugger's picture of the target is wrong:
`overlap` (a resume while the guest runs) is the subject of `RemoteOverlap`;
`early` is a resume while breakpoints wait for symbols, after which vCont is sent
with no thread shown as running, so that `handle_breakpoints()` talks to a
running stub; `unsolicited` is a stub that speaks before it is spoken to, whose
packet `wait_reply()` hands to the first request. After a timeout or the end of the
connection (`~InStep`) nothing more is claimed. That a step lets the other threads
go when it meets a system call (3277) is left out.

### Executor, TaskPool, SymbolsRegistry, Search

`Push` and `Notify` are separate because `notify_one()` comes after the unlock.
`TaskPool` knows only pending, running and done. In `SymbolsRegistry`, per
binary: the outcome of `symbols` and `unwind`, `cancel`, `failed`, `stage`,
`tasksLeft`, who holds the `loader`, and where each closure is. What is loaded
is reduced to whether it is; shards may fail in any stage (in the code: the
first two); debuglink and debuginfod decide only whether opening succeeds.
`Search` has a state per search, so that tasks of a cancelled one still run.

### The interface and the workbench

The header of each module says what it takes in and leaves out. In short:
`Layout` (tree of regions, drag and drop, saving), `Walls` (fractions and
cells), `Autolayout` (sizes on one axis with their limits; wrapping, floating,
centring and sizes changed after `add()` left out), `Dispatch` (keys, clicks, focus
and dialogs between frames; the first frame, which returns early and keeps its
input, imgui.rs:1368, left out), `TextInput` (undo, kill ring, line movement by the
lines last drawn; wrapped lines left out), `Terminal` (escape
sequences across reads, incremental drawing), `Focus`, `CodeTabs`, `Watches`
(windows), `WatchLexer`, `WatchParser`, `WatchEval`, `Pieces` (watch
expressions; floats, enums, members, pretty printers left out), `LineTable`,
`Subfunctions`, `DieWalk`, `FunctionIndex`, `TypesLoader` (debug information
without its encoding; attribute decoding, file tables and type sizes left out),
`CoreDumper` (stopping, noting, injecting fork() and restoring), `CoreFile`
(which memory is written and read back; headers and notes as records).

Smaller simplifications: creating the inotify watch cannot fail, and reading the
configuration only fails for lack of a file (persistent.rs:157, 291); the thread
filter does not look at names (ui.rs:3397); `^^x` does not parse (interp.rs:1605);
ranges have both ends and no `entry_pc` (symbols.rs:3440); location lists are not
empty, and variants occur under a variant part (symbols.rs:2305); unwinding through
DWARF never marks a trampoline (unwind.rs:441); the limits of 100000 overlapping
ranges (range_index.rs:25) and of 30 retries of the core dumper (core_dumper.rs:99,
159) are not reached; ptrace() fails with ESRCH only.

## 3. Runs

All passing runs are exhaustive for their constants.

| run | instance | shows |
|---|---|---|
| `PtraceSafety` | 2 threads, 1 binary, all operations and signals | types; patching at rest; table agrees with the kernel; ptrace's contract and no failing assertion; held threads stay; what the debugger waits for is real; exit is final |
| `PtraceLiveness` | 2 threads, 1 binary; SIGKILL in a part of its own | suspending settles, breakpoints get handled, a running process resumes, a killed one whose threads are known ends |
| `Loading` | 3 workers and 5 closures; 1 binary with 3 shards and stages on 3 threads; 3 searches over 2 binaries | no lost wakeup, closures run once, refinement of `TaskPool` with its liveness, loading ends, a complete search is complete and gets shown |
| `SymbolsEviction` | an executable and its recompiled version, 2 shards, 2 threads | exclusive loader, one result that wakes the main thread, errors not masked, what is loaded stays, evicted loaders stop |
| `Breakpoints` | 2 threads with line steps; 1 thread with run to cursor or instruction steps against a data breakpoint and 1 register | `BreakpointsSound`, no broken thread (line steps), enabled breakpoints in force in every thread or about to be, up to the two exceptions of `EnabledGetsHandled` |
| `Remote` | 2 vCPUs, 1 address, wires of 2 packets | belief and target agree, answers belong to their requests, breakpoints get into the stub |
| `Interface` | see the `WITH` clauses of `MCInterface` | layout, walls, widgets, text, dispatch, sessions, ids, the thread and frame in focus after stops, fuzzy matching, terminal |
| `Workbench` | see the `WITH` clauses of `MCWorkbench`; a core dump of 3 threads | windows, steps, watch expressions, debug information, core files; a core dump leaves the process as it was (`CoreDumperRight`) |

Runs that show the code doing something other than a comment of it says
(`findings`):

| run | property | in short |
|---|---|---|
| `PtraceCursor` | `SuspendedStopsThreads` | run to cursor on a line without code while the process runs: `target_state` becomes Suspended and nobody is interrupted |
| `PtraceOrphan` | `DeferredGetsHandled` | SIGKILL discards the PTRACE_EVENT_CLONE that a deferred status waits for |
| `BpQueuedTrap` | `MCNoBrokenThread` | suspended between int3 and its SIGTRAP, then instruction step: RIP stays inside the instruction |
| `RemoteOverlap` | `BeliefSound` | a second vCont while the guest runs: every later answer is one request late |

Other disagreements met while modelling, stated in the modules and excluded from
what the passing runs claim: `LineInfo::subfunction_level()` masks 14 bits where 12 hold
the level (symbols.rs:581, comment 1442; `LineTable!CallLevelKept`); a function
at the end of a section may get no end (symbols.rs:677, comment 275;
`FunctionIndex!EveryFunctionEnds`); a built-in type is not always preferred
(types.rs:1420; `TypesLoader!BuiltinPreferred`) and a typedef's name not always
promoted (types.rs:1394; `TypedefPromoted`); the lost part of a truncated core
reads as zeroes (elf.rs:545, comment near 80; `CoreFile!CutIsNoticed`); the dry
run of `restore_state_after_fork()` cannot fail (core_dumper.rs:386, comment
281), and a fatal signal while the hijacked thread runs, or after
`fork_state.take()`, restores nothing (52, 297). Two keys in one frame of which
the first reorders watches act on the wrong expression (ui.rs:1504); a press,
release and press in one batch loses a later drag (imgui.rs:432); bits below
`bit_offset` are ORed by `append_bits()` (expr.rs:116) and neighbours kept by
`bit_range()` (expr.rs:186); an expression that starts with `{` needs a second
one (interp.rs:1632); a stop of another vCPU during a remote range
step leaves `stepping` set and fails the assertion at 1506; Escape as the last
byte of a full buffer is read as Alt; resizing A, B, A leaves stale cells.

Others are in the passing runs as exceptions that their properties name, each
reached by the run:

* a user breakpoint on a location that is active for a step keeps the step's
  register, armed in the stepping thread only (2735; `HeldByStep`);
* the entry for the end of .text is merged in after that of a function ending
  beyond it, so that `functions` is not sorted and a binary search may miss code
  beyond .text, though it never finds the wrong function (symbols.rs:1790, 655;
  `FunctionIndex!SearchedInOrder`; a `partition_point()` over such a table may
  return either of two places, the argument `late`);
* indexing a pointer is an error where adding to it wraps around, and for elements
  of size 0 (interp.rs:493, 700; `WatchEval!PlacesAgree`);
* values evaluated at a stop are formatted, and unfolded, from live memory when a
  row comes into view while the thread runs (ui.rs:908), where the comment at
  ui.rs:701 speaks of last seen values (`Watches!Live`);
* a remainder with a `min_size` overflows its parent, one with a `max_size` leaves
  room (widgets.rs:1604 with imgui.rs:1040); the panic at imgui.rs:574 looks at the
  widget's own stack flag, not at its parent's; and the assertion in `add()` sees
  the last sibling only (imgui.rs:561), so that early sizes are final for builders
  that add nothing to a stack whose remainder was split (`Autolayout!Disciplined`);
* in a text field a key that moves by lines panics after an edit of the same frame
  that made the text shorter, and in the empty line after a newline at the end of
  the text (widgets.rs:1340; `TextInput!Panic`).

### Bounds

* Two threads allow every pairwise crossing of stops, a parent and its child
  included; what is proved holds for any number. Thread ids are not reused.
  `CursorCanFail` is FALSE except in `PtraceCursor`, which is about that case.
* `MaxBinaries` counts registrations: two suffice for a version and its
  replacement. `MaxQueue` bounds messages waiting for the main thread: at most
  one ELF, one unwind and one symbols message exist per binary, so 3 with one
  binary (`Loading`) cuts off nothing; 1 (`SymbolsEviction`) orders the drains.
* `NumShards`, `LastStage`, `NumThreads` of 3 let a stage be finished by a
  thread other than the one that prepared it, with a third still busy.
* `NumAddrs`, `NumSlots` of 1: a location occupied or not, registers free or
  exhausted (4 in hardware). A thread moves to any address at any step.
* `MaxWire` 2: a stop reply and the answer of a request on the wire at once.
* `MaxStops` of `Focus`, 2 and 1 for two threads: one stops, is shown, and stops
  again while the other waits to be shown.
* `MaxAdds` 4 with two values reuses a slot twice; `MaxEdits` 2 rewrites the
  configuration while a process is between reading and watching it.
* Programs of `StepEngine` and `Unwind`, trees of `DieWalk`, texts of
  `WatchLexer`, tokens of `WatchParser` and graphs of `TypesLoader` are all those
  of a small size over a vocabulary with one representative per case of the code.

`CHECK_DEADLOCK FALSE` appears where the system may stop: a pool with nothing to
do (`Loading`), and inputs that are used up (`Interface`, `Workbench`).

### Fairness

* `PtraceControl`: weak for the debugger's own steps (the main loop calls
  `process_events()` after each SIGCHLD); strong for the status of each thread,
  since the loop reaps any child; weak for a pending STOP trap and for killed
  threads; strong for symbol loading (which `LoadingEnds` shows to end). None
  for user operations, signals or the debuggee's progress.
* `Executor`: weak for `Notify`, `Wait \/ Take` and `Finish`: threads are
  scheduled and closures return. No fairness among workers.
* `SymbolsRegistry`, `Search`: weak for the main thread and for the workers as a
  whole.
* `GdbRemote`: weak for the steps of a handler and for the stub's side of the
  wire; strong for `process_events_remote()`, which the main loop calls again and
  again between what the user does. None for the guest's stops.

## 4. Proofs

| module | theorem | states |
|---|---|---|
| `PtraceControl_proofs` | `TypeCorrect` | `[]TypeOK` |
| | `TableCorrect`, `PatchingCorrect` | `[]ThreadTableAgrees`, `[]QuiescentPatching` |
| | `ExitCorrect` | `ExitIsFinal` (an action property) |
| | `RequestsCorrect`, `ContractCorrect` | `[]PtraceContract`, `[]ContractHolds` |
| | `StepsCorrect` | `[](WaitHasReason /\ SteppingConsistent)` |
| | `HeldCorrect`, `ControlCorrect` | `[]HeldThreadsStay`, `[]ControlConsistent`, if `~CursorCanFail` |
| `Breakpoints_proofs` | `BreakpointsCorrect`, `EnabledIsHandled` | `[]BreakpointsSound`, `[]EnabledGetsHandled` |
| | `LineStepsBreakNoThread` | `[]NoBrokenThread`, if `StepKinds \subseteq {"range"}` |
| `SymbolsRegistry_proofs` | `TypeCorrect`, `LoaderSafety`, `ReportsOnce`, `ErrorsShown` | `[]TypeOK`, `[]LoaderSafe`, `[]ReportedOnce`, `[]ErrorNotMasked` |
| | `LoadedStays`, `EvictionStops` | `LoadedIsFinal`, `EvictedStops` (action properties) |
| `Executor_proofs` | `TypeCorrect`, `OnceCorrect`, `ConservingCorrect` | `[]TypeOK`, `[]OnceEach`, `[]WorkConserving` |
| | `PoolCorrect` | every step of `Executor` is a step of `TaskPool` or a stutter |
| `GdbRemote_proofs` | `BeliefCorrect`, `RemoteCorrect` | `[]BeliefSound`, `[]RemoteAgrees`, if `Ops` has none of `overlap`, `early`, `unsolicited` |
| `Search_proofs` | `SearchCorrect` | `[]SearchExact` |
| `CoreDumper_proofs` | `DumperCorrect` | `[]CoreDumperRight`, if `Ops` has neither `critical` nor `unsettable` |
| `Interface_proofs` | `PoolIsExact`, `SessionsCorrect`, `FocusCorrect` | `[]PoolSound`, `[]SessionsSound`, `[]FocusRight` |

The only assumptions are the named ones on the constants, in the modules that
declare them, and the hypotheses shown in the table. The hypotheses are needed:
without `~CursorCanFail` the run `PtraceCursor`, with instruction steps the run
`BpQueuedTrap`, and with `overlap` the run `RemoteOverlap` has a counterexample;
TLC also finds one with `unsolicited` (to `RemoteAgrees`), with `critical` and with
`unsettable` (to `CoreDumperRight`), and with `early` the inductive invariant fails.

**PtraceControl.** The proof is a tower; each level assumes the ones below it.

1. `IInv == TypeOK /\ ThreadTableAgrees /\ QuiescentPatching`. The debugger
   decides from its own table that nobody runs, so what is needed is that the
   table is right: whoever executes user code is known and Running
   (`RunnersKnown`), what counts as exiting is past its last instruction
   (`ExitsPast`), and a status, reaped or set aside, belongs to a thread at rest
   (`StatusAtRest`, `DeferredAtRest`).
2. `ExitInv`: no stop of a living thread is left to be reported of one past its
   exit stop (`EventsInOrder`), all threads of an exiting process are exiting,
   and the tail of the initial exec finds a ready process.
3. `StopsAccounted`: a thread marked Suspended really stands in a stop whose
   status was reaped, and the debugger remembers a signal exactly if the kernel
   holds one back. That is what makes a PTRACE_CONT legal.
4. `StartupInOrder` and `StepsInOrder`: the statuses of a starting process come
   in the order SIGSTOP, exec; `stepping` and `pending_step` go with the target
   state; and while something needs symbols, symbols are still being loaded. The
   last holds only where no `drop_caches()` is outstanding (`AtRest`). From
   these no assertion and no `unwrap()` can fail.
5. `HeldInv`: a thread that can still run, and that was interrupted or should be
   at rest, has a STOP trap pending (`Halting`). `SuspendedStopsThreads` alone is
   not inductive: the interrupts were sent for another reason (a step, stopping
   for breakpoints) when the target state becomes Suspended, so `Held` covers all
   three reasons, and `sent_interrupt` must not outlive its stop (`Interrupted`).
6. `LiveInv`, of a process not yet killed: each thread outside the table is the
   child of exactly one CLONE still to be reported (`Births`), a thread in a
   reaped stop marked Running has a status set aside (`Lives`), `any_live_tid` is
   live, and while breakpoints wait somebody runs (`StillStopping`).

**Breakpoints.** `EnabledGetsHandled` is about what stops a thread: int3 or its own
registers. `IInv` has instead that the location of an enabled breakpoint is active
or out of registers, and every slot in use pushed (`Placed`). With `CodeIntact` and
`SlotsArmed`, parts of `BreakpointsSound`, and with `DataForAll`, that the slots of
data breakpoints are for all threads, it follows. `IInv` adds that an enabled
breakpoint is among the references of its location (`RefsOn`; otherwise a trap would remove the location under it), and
that there is a step exactly when the target state says so (`StepTarget`; only
then does `resume()` drop the breakpoints of a step). Exactly-one statements
about slots are proved through `OneSlot`, free of cardinalities. For
`NoBrokenThread`, `TrapsUnderstood` relates RIP, the queued SIGTRAP, DR6 and
`single_stepping` of every thread; the run checks it, as `MCNoBrokenThread`, of its
instance with line steps, which is the theorem's case.

**SymbolsRegistry.** The argument is about one binary. Its heart is `Counted`:
`tasks_left` is at least the number of closures of the stage that have yet to
reach `fetch_sub()`, plus one as soon as a closure has failed; so nobody prepares
a stage after a failure, and who prepares is alone (`PreparerAlone`). `OneClaim`
(the swap of `failed`, or taking the loader) gives one report; `OneMessage` and
`OpenedFirst` give `LoadedIsFinal`; `CancelHasCause` says that while a binary is
registered only a failure cancels it.

**GdbRemote.** What the debugger knows of the stub it knows from the order of
packets, so the invariant is about the wires, also in the middle of a handler:
after a vCont exactly one stop reply is to come and nothing is asked before it
(`ResumeUnderWay`); a request is answered before anything else is sent
(`RequestUnderWay`); a resume is in flight exactly if a thread is shown as
running (`ResumesKnown`). On that rest the two views: the registers of a thread
are known or its `g` is still on the list (`RegsFollow`), and a location is
active exactly if it is inserted, but for the one whose `Z` or `z` is being
answered (`InsertedKnown`, `UsedInserted`). `HandlersInOrder` says that a handler
ends in its one local step, for which target state that step is fit, and is what
lets each step be looked at alone. `StepInv` holds as long as no answer was lost
or given up on (`InStep`); the rest always.

**Search.** Every counter of a `SearchState` is the size of a set: `Counted` says
that `tasks_remaining` counts what is `Open` (binaries not split into shards yet
and tasks that have not ended), the totals count the items `Started`, `Searched`
and `Found`, and that the list is a best choice out of `Found`. So when the last
task has counted down nothing is open (`LastIsLast`), and then everything was
searched (`ClosedIsAll`): that needs the shards to partition the items, which is
arithmetic of the division in `FunctionSearcher::search` (`ShardFacts`).
`BestMerge` says that truncating after each chunk loses nothing. Tasks of earlier
searches find theirs cancelled (`OldCancelled`), whatever the main thread does, and
touch no count of the current one.

**CoreDumper.** Whoever the tool has seized it traces, and nobody else
(`TracesSeized`); whoever it waits for has stopped, or has an interrupt on the way
or in the next step (`StopsDue`). A round of `list_threads()` that finds nobody new
therefore finds everybody stopped, and who is stopped starts no thread
(`AllFrozen`): only the hijacked thread runs until the copy exists, so memory,
notes and copy are of one moment (`Moment`). `Hijack` says how far the hijacked
thread is and which registers it has at each step of the injection, also after a
signal or an interrupt that cut in; from it `cleanup()` puts the process back
wherever the tool ends (`CleanupOwn`). The two hypotheses are what the code cannot
help: a fatal signal while the hijacked thread runs, is inside its system call, or
between `fork_state.take()` and the restoring (`CriticalPoint`); and a process
whose registers cannot be set, which the practice run does not notice.

**Executor.** `WorkConserving` says: while a worker sleeps, awake workers and
notifications to come are at least as many as queued closures. With `TypeOK /\
OnceEach` it is inductive; it needs finitely many workers.

**Pool.** That a new id does not revive an old one rests on sequence numbers
that only grow (`SeqnosGrow`), on every entry whose slot moved on being gone, and
on the list of vacant slots having no repetitions.

**Sessions.** No two processes use a directory (`Locked`), what is renamed to
`state` is complete (`Complete`), and a process without events to read has read
the last configuration (`Followed`).

**Focus.** The windows notice a stop only by comparing stop counts, so the
invariant says what a count kept between frames means: it is never ahead of its
thread's (`CountsNoted`); the threads that are new by these counts are exactly
those that stopped with a reason since the last frame (`AlarmsUnseen`); and what
the stack window remembers of a thread is where the user was, unless its count
is old (`FramesWanted`). None of the four parts of `FocusRight` is inductive
without them: a count that ran ahead would hide the next stop. `due`, `alarms`
and `want` are history variables that never look at a count.

Only model-checked:

* liveness and fairness (`PtraceLiveness`, `LoadingEnds`, `SearchIsShown`,
  `EventuallyArmed`, the fairness half of `ImplementsPool`), which are beyond
  this prover;
* algorithms that are recursive or fold over data (`LayoutRight`,
  `WidgetsRight` with fuzzy matching, `TerminalExact`, `Stepping`, `ValuesExact`, `DebugInfo`,
  `WindowsFollow`): what they compute for every input needs induction over data;
* `Types` of `Loading` (the parts of `Executor` and `SymbolsRegistry` are proved in
  their own modules; of `Search`, `TypeInv` in the proof says the same but for the
  bounds by the number of binaries).

## 5. Plan

Done: the modules and proofs above. Next, in order:

1. Attach, detach and shutdown on top of `PtraceControl`: the scan of
   `/proc/pid/task` against clone(); what detaching leaves behind.
2. A record of the breakpoints each thread has run into, to say that a hit is
   neither reported twice nor ignored in place of another
   (`ignore_next_hw_breakpoint_hit_at_addr`).

## 6. Not modelled

* Attach, detach and shutdown of native processes.
* Decoding of ELF, DWARF and unwind tables, disassembly, DWARF expressions and
  pretty printers: large pure functions of file or memory contents. The
  concurrency in which they run is modelled (`SymbolsRegistry`, `TypesLoader`).
* Drawing, tables, highlighting and the windows other than threads, stack, code,
  disassembly and watches; parsing of `/proc`; the pty and signals of the
  terminal; the encoding of the saved state.
* Limits of loops and depths whose only effect is an error message.
