-------------------------- MODULE SymbolsRegistry --------------------------
(***************************************************************************)
(* Loading of debug symbols (src/src/symbols_registry.rs and the stages of *)
(* SymbolsLoader in src/src/symbols.rs).  The main thread registers the    *)
(* binaries it finds in /proc/<pid>/maps and evicts replaced ones; tasks   *)
(* on the Executor open the ELF file, load the unwind tables and drive a   *)
(* SymbolsLoader through stages: one thread prepares a stage, NumShards    *)
(* tasks run it, and whoever finishes last prepares the next one.  Results *)
(* travel back through a queue and an eventfd in the main thread's epoll.  *)
(*                                                                         *)
(* Of the Executor this module uses what TaskPool promises.  What is       *)
(* loaded is reduced to whether it is loading, loaded or failed.           *)
(***************************************************************************)
EXTENDS Naturals, Sequences, FiniteSets

CONSTANTS
    Locators,       \* BinaryLocators: path, inode and special segment
    Paths,
    PathOf,         \* BinaryLocator::path
    MaxBinaries,    \* bound on the binaries ever registered
    MaxQueue,       \* bound on the messages waiting for the main thread
    NumShards,      \* SymbolsLoader::num_shards
    LastStage,      \* the stage at which prepare_stage() returns Ok(false)
    NumThreads,     \* Executor::num_threads
    NoLocator

ASSUME LocatorsAssumption ==
    PathOf \in [Locators -> Paths] /\ IsFiniteSet(Locators) /\ NoLocator \notin Locators

ASSUME SizesAssumption ==
    /\ MaxBinaries \in Nat \ {0} /\ MaxQueue \in Nat \ {0} /\ NumShards \in Nat \ {0}
    /\ NumThreads \in Nat \ {0} /\ LastStage \in Nat \ {0}

Ids == 1..MaxBinaries
Shards == 1..NumShards

\* The closures of one binary: the first one opens the ELF file and starts the
\* LoadScheduler; the others run one shard of one stage.
ElfJob == <<0, 0>>
ShardJobs == (1..(LastStage - 1)) \X Shards
Jobs == {ElfJob} \cup ShardJobs

VARIABLES
    \* SymbolsRegistry, main thread
    count,          \* binaries.len()
    loc,            \* locator of each binary, NoLocator if evicted
    symbols,        \* Binary::symbols by id; "loading" if there is no such binary
    unwind,         \* Binary::unwind by id; likewise
    \* Shared
    msgs,           \* to_main_thread
    wake,           \* wake_main_thread is readable
    main,           \* the main thread is between read() and lock()
    \* SymbolsLoadingStatus and LoadScheduler by id
    cancel,         \* SymbolsLoadingStatus::cancel
    failed,
    stage,
    tasksLeft,
    loader,         \* SyncUnsafeCell<Option<SymbolsLoader>>
    \* Executor
    job,            \* where each closure is
    unwindJob,      \* where the closure that loads the unwind tables is
    \* ghost
    reports,        \* number of calls of LoadScheduler::complete()
    faults          \* panics, and underflow of tasks_left

regVars == <<count, loc, symbols, unwind>>
shared == <<msgs, wake, main>>
sched == <<cancel, failed, stage, tasksLeft, loader>>
vars == <<regVars, shared, sched, job, unwindJob, reports, faults>>

Results == {"ok", "error", "cancelled"}
Messages == [id : Ids, what : {"elf", "symbols", "unwind"}, res : Results]

\* Places in task_load_elf(), LoadScheduler::start(), schedule(), handle_fail(),
\* check_cancellation() and complete().
Places == {"none", "queued", "run", "start", "schedule", "preparing", "fanout", "fail_error",
           "fail_cancelled", "stop_error", "stop_cancelled", "cancelling", "report_ok",
           "report_error", "report_cancelled", "done"}

Outcomes == Results \cup {"loading"}

TypeOK ==
    /\ count \in 0..MaxBinaries
    /\ loc \in [Ids -> Locators \cup {NoLocator}]
    /\ symbols \in [Ids -> Outcomes]
    /\ unwind \in [Ids -> Outcomes]
    /\ msgs \in Seq(Messages)
    /\ wake \in BOOLEAN
    /\ main \in {"poll", "lock", "drain"}
    /\ cancel \in [Ids -> BOOLEAN]
    /\ failed \in [Ids -> BOOLEAN]
    /\ stage \in [Ids -> 0..LastStage]
    /\ tasksLeft \in [Ids -> 0..NumShards]
    /\ loader \in [Ids -> {"none", "some", "taken"}]
    /\ job \in [Ids -> [Jobs -> Places]]
    /\ unwindJob \in [Ids -> {"none", "queued", "done"}]
    /\ reports \in [Ids -> Nat]
    /\ faults \in SUBSET {"loader_is_gone", "tasks_left_underflow", "unexpected_stage"}

Init ==
    /\ count = 0
    /\ loc = [id \in Ids |-> NoLocator]
    /\ symbols = [id \in Ids |-> "loading"]
    /\ unwind = [id \in Ids |-> "loading"]
    /\ msgs = <<>> /\ wake = FALSE /\ main = "poll"
    /\ cancel = [id \in Ids |-> FALSE]
    /\ failed = [id \in Ids |-> FALSE]
    /\ stage = [id \in Ids |-> 0]
    /\ tasksLeft = [id \in Ids |-> 1]
    /\ loader = [id \in Ids |-> "none"]
    /\ job = [id \in Ids |-> [j \in Jobs |-> "none"]]
    /\ unwindJob = [id \in Ids |-> "none"]
    /\ reports = [id \in Ids |-> 0]
    /\ faults = {}

(***************************************************************************)
(* The main thread.                                                        *)
(***************************************************************************)

\* get(id) is Some
Live == {id \in Ids : loc[id] # NoLocator}

\* Binary::symbols_loaded()
SymbolsLoaded(id) == symbols[id] # "loading" /\ unwind[id] # "loading"

\* The mapped files that locator_to_id does not know: add() registers them.
Unknown(maps) == {l \in maps : \A id \in Live : loc[id] # l}

\* do_eviction(): an unmapped binary whose path is now taken by a mapped one.
Evicted(maps) ==
    {id \in Live : loc[id] \notin maps /\ \E l \in maps : PathOf[l] = PathOf[loc[id]]}

\* Mutant: an evicted binary goes on loading.
Refresh_NoCancel(maps) ==
    LET new == Unknown(maps)
        fresh == (count + 1)..(count + Cardinality(new))
        evicted == Evicted(maps)
    IN  /\ main = "poll"
        /\ count + Cardinality(new) <= MaxBinaries
        /\ count' = count + Cardinality(new)
        /\ \E add \in [fresh -> new] :
             /\ {add[id] : id \in fresh} = new
             /\ loc' = [id \in Ids |-> IF id \in evicted THEN NoLocator
                                    ELSE IF id \in fresh THEN add[id] ELSE loc[id]]
        /\ symbols' = [id \in Ids |-> IF id \in evicted THEN "loading" ELSE symbols[id]]
        /\ unwind' = [id \in Ids |-> IF id \in evicted THEN "loading" ELSE unwind[id]]
        /\ job' = [id \in Ids |-> IF id \in fresh THEN [job[id] EXCEPT ![ElfJob] = "queued"]
                                  ELSE job[id]]
        /\ UNCHANGED <<shared, sched, unwindJob, reports, faults>>

(***************************************************************************)
(* refresh_maps_and_binaries_info() and do_eviction(): `maps` are the      *)
(* locators of /proc/<pid>/maps.  New ones are added, which queues their   *)
(* task_load_elf(); an unmapped binary whose path is now taken by a mapped *)
(* one is cancelled and forgotten.  (is_mapped is recomputed here from     *)
(* `maps`; that it is cleared when the process exits has no effect on what *)
(* is loaded.)                                                             *)
(***************************************************************************)
Refresh(maps) ==
    LET new == Unknown(maps)
        fresh == (count + 1)..(count + Cardinality(new))
        evicted == Evicted(maps)
    IN  /\ main = "poll"
        /\ count + Cardinality(new) <= MaxBinaries
        /\ count' = count + Cardinality(new)
        /\ \E add \in [fresh -> new] :
             /\ {add[id] : id \in fresh} = new
             /\ loc' = [id \in Ids |-> IF id \in evicted THEN NoLocator
                                    ELSE IF id \in fresh THEN add[id] ELSE loc[id]]
        /\ symbols' = [id \in Ids |-> IF id \in evicted THEN "loading" ELSE symbols[id]]
        /\ unwind' = [id \in Ids |-> IF id \in evicted THEN "loading" ELSE unwind[id]]
        /\ cancel' = [id \in Ids |-> cancel[id] \/ id \in evicted]
        /\ job' = [id \in Ids |-> IF id \in fresh THEN [job[id] EXCEPT ![ElfJob] = "queued"]
                                  ELSE job[id]]
        /\ UNCHANGED <<shared, failed, stage, tasksLeft, loader, unwindJob, reports, faults>>

\* epoll reports the eventfd; process_events() reads it and then takes the lock.
ReadEvent ==
    /\ main = "poll" /\ wake
    /\ main' = "lock" /\ wake' = FALSE
    /\ UNCHANGED <<regVars, msgs, sched, job, unwindJob, reports, faults>>

LockQueue ==
    /\ main = "lock" /\ main' = "drain"
    /\ UNCHANGED <<regVars, msgs, wake, sched, job, unwindJob, reports, faults>>

\* Mutant: a failure to open the ELF file is not passed on.
ApplyMessage_ElfOnly ==
    /\ main = "drain" /\ msgs # <<>>
    /\ LET m == Head(msgs)
           sets(what) == m.id \in Live /\ m.what = what
       IN  /\ symbols' = IF sets("symbols") THEN [symbols EXCEPT ![m.id] = m.res] ELSE symbols
           /\ unwind' = IF sets("unwind") THEN [unwind EXCEPT ![m.id] = m.res] ELSE unwind
    /\ msgs' = Tail(msgs)
    /\ UNCHANGED <<count, loc, wake, main, sched, job, unwindJob, reports, faults>>

\* Mutant: an error in one part is taken for an error in all.
ApplyMessage_AnyError ==
    /\ main = "drain" /\ msgs # <<>>
    /\ LET m == Head(msgs)
           sets(what) == m.id \in Live /\ (m.what = what \/ m.res = "error")
       IN  /\ symbols' = IF sets("symbols") THEN [symbols EXCEPT ![m.id] = m.res] ELSE symbols
           /\ unwind' = IF sets("unwind") THEN [unwind EXCEPT ![m.id] = m.res] ELSE unwind
    /\ msgs' = Tail(msgs)
    /\ UNCHANGED <<count, loc, wake, main, sched, job, unwindJob, reports, faults>>

\* One message; that of an evicted binary is dropped.
ApplyMessage ==
    /\ main = "drain" /\ msgs # <<>>
    /\ LET m == Head(msgs)
           sets(what) == m.id \in Live /\ (m.what = what \/ (m.what = "elf" /\ m.res = "error"))
       IN  /\ symbols' = IF sets("symbols") THEN [symbols EXCEPT ![m.id] = m.res] ELSE symbols
           /\ unwind' = IF sets("unwind") THEN [unwind EXCEPT ![m.id] = m.res] ELSE unwind
    /\ msgs' = Tail(msgs)
    /\ UNCHANGED <<count, loc, wake, main, sched, job, unwindJob, reports, faults>>

UnlockQueue ==
    /\ main = "drain" /\ msgs = <<>>
    /\ main' = "poll"
    /\ UNCHANGED <<regVars, msgs, wake, sched, job, unwindJob, reports, faults>>

(***************************************************************************)
(* Tasks on the Executor.                                                  *)
(***************************************************************************)
FreeThread ==
    Cardinality({x \in Ids \X Jobs : job[x[1]][x[2]] \notin {"none", "queued", "done"}}) < NumThreads

\* Mutant: the message is queued, the main thread is not woken.
Send_Silent(id, what, res) ==
    /\ main # "drain" /\ Len(msgs) < MaxQueue
    /\ msgs' = Append(msgs, [id |-> id, what |-> what, res |-> res])
    /\ UNCHANGED <<wake, main>>

\* push_back() and EventFD::write() under the lock of to_main_thread.
Send(id, what, res) ==
    /\ main # "drain" /\ Len(msgs) < MaxQueue
    /\ msgs' = Append(msgs, [id |-> id, what |-> what, res |-> res])
    /\ wake' = TRUE
    /\ UNCHANGED main

\* Where a closure handles its failure, tells the others to stop, and calls complete().
FailAt(res) == IF res = "error" THEN "fail_error" ELSE "fail_cancelled"
StopAt(res) == IF res = "error" THEN "stop_error" ELSE "stop_cancelled"
ReportAt(res) ==
    IF res = "ok" THEN "report_ok" ELSE IF res = "error" THEN "report_error" ELSE "report_cancelled"

\* Closure j of binary id, at place p, moves on to place q.
Goto(id, j, p, q) == job[id][j] = p /\ job' = [job EXCEPT ![id][j] = q]

NoLoader(id) == IF loader[id] = "some" THEN {} ELSE {"loader_is_gone"}

\* A thread of the Executor takes the closure.  That of a shard enters run().
StartJob(id, j) ==
    /\ FreeThread
    /\ Goto(id, j, "queued", "run")
    /\ faults' = faults \cup (IF j = ElfJob THEN {} ELSE NoLoader(id))
    /\ UNCHANGED <<regVars, shared, sched, unwindJob, reports>>

\* task_load_elf(): collect the ELF files from all sources and report them; if
\* there are any, add task_load_unwind() and go on to start a LoadScheduler.
OpenElf(id, res) ==
    /\ Goto(id, ElfJob, "run", IF res = "ok" THEN "start" ELSE "done")
    /\ Send(id, "elf", res)
    /\ unwindJob' = [unwindJob EXCEPT ![id] = IF res = "ok" THEN "queued" ELSE @]
    /\ UNCHANGED <<regVars, sched, reports, faults>>

\* LoadScheduler::start(): SymbolsLoader::new() lays out the shards, or fails.
StartLoader(id, ok) ==
    /\ Goto(id, ElfJob, "start", IF ok THEN "schedule" ELSE "fail_error")
    /\ loader' = [loader EXCEPT ![id] = IF ok THEN "some" ELSE @]
    /\ UNCHANGED <<regVars, shared, cancel, failed, stage, tasksLeft, unwindJob, reports, faults>>

\* task_load_unwind(), from start to end: it only touches the ELF files.
LoadUnwind(id, res) ==
    /\ FreeThread
    /\ unwindJob[id] = "queued"
    /\ unwindJob' = [unwindJob EXCEPT ![id] = "done"]
    /\ Send(id, "unwind", res)
    /\ UNCHANGED <<regVars, sched, job, reports, faults>>

\* SymbolsLoader::run() of one shard returns; it notices a cancellation.
RunShard(id, j, res) ==
    /\ j \in ShardJobs
    /\ res = "cancelled" => cancel[id]
    /\ Goto(id, j, "run", IF res = "ok" THEN "schedule" ELSE FailAt(res))
    /\ UNCHANGED <<regVars, shared, sched, unwindJob, reports, faults>>

\* schedule(): fetch_sub() leaves the rest of it to the last closure of the stage,
\* which prepares the next one unless cancelled.  `cancel` is read twice, by
\* schedule() itself and by prepare_stage(); a cancellation may come in between.
ScheduleFrom(id, j, goesOn) ==
    /\ IF goesOn
       THEN /\ stage' = [stage EXCEPT ![id] = IF @ = LastStage THEN @ ELSE @ + 1]
            /\ \E q \in IF cancel[id] THEN {"cancelling", "fail_cancelled"} ELSE {"preparing"} :
                  Goto(id, j, "schedule", q)
            /\ faults' = faults \cup NoLoader(id)
                            \cup (IF stage[id] = LastStage THEN {"unexpected_stage"} ELSE {})
       ELSE /\ Goto(id, j, "schedule", "done")
            /\ faults' = faults \cup (IF tasksLeft[id] = 0 THEN {"tasks_left_underflow"} ELSE {})
            /\ UNCHANGED stage
    /\ tasksLeft' = [tasksLeft EXCEPT ![id] = IF @ = 0 THEN 0 ELSE @ - 1]
    /\ UNCHANGED <<regVars, shared, cancel, failed, loader, unwindJob, reports>>

\* Mutant: off by one, the last but one goes on.
Schedule_Early(id, j) == ScheduleFrom(id, j, tasksLeft[id] <= 2)

Schedule(id, j) == ScheduleFrom(id, j, tasksLeft[id] = 1)

\* Mutant: tasks_left is only set up for the other shards.
Prepared_Short(id, j) ==
    LET last == stage[id] = LastStage
    IN  /\ Goto(id, j, "preparing", IF last THEN "report_ok"
                                    ELSE IF cancel[id] THEN "cancelling" ELSE "fanout")
        /\ loader' = [loader EXCEPT ![id] = IF last THEN "taken" ELSE @]
        /\ tasksLeft' = [tasksLeft EXCEPT ![id] = IF last \/ cancel[id] \/ NumShards = 1 THEN @ ELSE NumShards - 1]
        /\ UNCHANGED <<regVars, shared, cancel, failed, stage, unwindJob, reports, faults>>

\* Mutant: the closure that prepares the stage is counted too.
Prepared_OneMore(id, j) ==
    LET last == stage[id] = LastStage
    IN  /\ Goto(id, j, "preparing", IF last THEN "report_ok"
                                    ELSE IF cancel[id] THEN "cancelling" ELSE "fanout")
        /\ loader' = [loader EXCEPT ![id] = IF last THEN "taken" ELSE @]
        /\ tasksLeft' = [tasksLeft EXCEPT ![id] = IF last \/ cancel[id] THEN @ ELSE NumShards + 1]
        /\ UNCHANGED <<regVars, shared, cancel, failed, stage, unwindJob, reports, faults>>

\* prepare_stage() returns: the result is taken out of the loader, or the tasks
\* of the stage are counted, before the first of them is added.
Prepared(id, j) ==
    LET last == stage[id] = LastStage
    IN  /\ Goto(id, j, "preparing", IF last THEN "report_ok"
                                    ELSE IF cancel[id] THEN "cancelling" ELSE "fanout")
        /\ loader' = [loader EXCEPT ![id] = IF last THEN "taken" ELSE @]
        /\ tasksLeft' = [tasksLeft EXCEPT ![id] = IF last \/ cancel[id] THEN @ ELSE NumShards]
        /\ UNCHANGED <<regVars, shared, cancel, failed, stage, unwindJob, reports, faults>>

\* schedule() adds the task of shard i; the closure returns after the last one.
Fanout(id, j, i) ==
    LET s == <<stage[id], i>>
    IN  /\ job[id][j] = "fanout"
        /\ s \in ShardJobs /\ job[id][s] = "none"
        /\ \A h \in 1..(i - 1) : job[id][<<stage[id], h>>] # "none"
        /\ job' = [job EXCEPT ![id][s] = "queued", ![id][j] = IF i = NumShards THEN "done" ELSE @]
        /\ UNCHANGED <<regVars, shared, sched, unwindJob, reports, faults>>

\* Mutant: everybody is told to stop, `failed` is not claimed.
Fail_Unclaimed(id, j, res) ==
    /\ Goto(id, j, FailAt(res), StopAt(res))
    /\ cancel' = [cancel EXCEPT ![id] = TRUE]
    /\ UNCHANGED <<regVars, shared, failed, stage, tasksLeft, loader, unwindJob, reports, faults>>

\* Mutant: the flag is tested, then set.
Fail_NoSwap(id, j, res) ==
    /\ Goto(id, j, FailAt(res), IF failed[id] THEN "done" ELSE StopAt(res))
    /\ UNCHANGED <<regVars, shared, sched, unwindJob, reports, faults>>

\* handle_fail(): the first to swap `failed` ...
Fail(id, j, res) ==
    /\ Goto(id, j, FailAt(res), IF failed[id] THEN "done" ELSE StopAt(res))
    /\ failed' = [failed EXCEPT ![id] = TRUE]
    /\ UNCHANGED <<regVars, shared, cancel, stage, tasksLeft, loader, unwindJob, reports, faults>>

\* ... tells the others to stop and reports the error.
StopOthers(id, j, res) ==
    /\ Goto(id, j, StopAt(res), ReportAt(res))
    /\ cancel' = [cancel EXCEPT ![id] = TRUE]
    /\ UNCHANGED <<regVars, shared, failed, stage, tasksLeft, loader, unwindJob, reports, faults>>

\* check_cancellation() saw the flag.
Cancelling(id, j) ==
    /\ Goto(id, j, "cancelling", IF failed[id] THEN "done" ELSE "report_cancelled")
    /\ failed' = [failed EXCEPT ![id] = TRUE]
    /\ UNCHANGED <<regVars, shared, cancel, stage, tasksLeft, loader, unwindJob, reports, faults>>

\* complete()
Complete(id, j, res) ==
    /\ Goto(id, j, ReportAt(res), "done")
    /\ Send(id, "symbols", res)
    /\ reports' = [reports EXCEPT ![id] = @ + 1]
    /\ UNCHANGED <<regVars, sched, unwindJob, faults>>

\* The steps of the closure j of binary id once it runs.
JobStep(id, j) ==
    \/ j = ElfJob /\ \E res \in {"ok", "error"} : OpenElf(id, res)
    \/ j = ElfJob /\ \E ok \in BOOLEAN : StartLoader(id, ok)
    \/ \E res \in Results : RunShard(id, j, res)
    \/ Schedule(id, j)
    \/ Prepared(id, j)
    \/ \E i \in Shards : Fanout(id, j, i)
    \/ \E res \in {"error", "cancelled"} : Fail(id, j, res) \/ StopOthers(id, j, res)
    \/ Cancelling(id, j)
    \/ \E res \in Results : Complete(id, j, res)

UnwindStep(id) == \E res \in {"ok", "error"} : LoadUnwind(id, res)

MainStep == ReadEvent \/ LockQueue \/ ApplyMessage \/ UnlockQueue

WorkerStep ==
    \/ \E id \in Ids, j \in Jobs : StartJob(id, j) \/ JobStep(id, j)
    \/ \E id \in Ids : UnwindStep(id)

Next ==
    \/ \E maps \in SUBSET Locators : Refresh(maps)
    \/ MainStep
    \/ WorkerStep

Spec == Init /\ [][Next]_vars

(***************************************************************************)
(* Safety.                                                                 *)
(***************************************************************************)

\* The SyncUnsafeCell is used as the comment on SymbolsLoader demands: while one
\* closure has a &mut to the loader in prepare_stage(), no other closure is in
\* run() or prepare_stage(), or can still enter them before it is done.
LoaderExclusive ==
    \A id \in Ids : \A j \in Jobs :
        job[id][j] = "preparing" =>
            \A i \in Jobs \ {j} :
                job[id][i] \notin {"queued", "run", "start", "schedule", "preparing", "fanout"}

\* Nobody unwraps a loader that was taken or asks it for a stage that does not
\* exist, and tasks_left does not wrap around.
NoFaults == faults = {}

\* The loader is used by one thread at a time while it is prepared, and never after
\* it was taken away.
LoaderSafe == LoaderExclusive /\ NoFaults

\* "Called exactly once": whichever shards fail, and whenever the binary is
\* evicted, complete() is not called twice for a binary.
CompletedOnce == \A id \in Ids : reports[id] <= 1

\* No message is left in the queue while the main thread sleeps in epoll.
MessagesWake == main = "poll" /\ msgs # <<>> => wake

\* One result per binary reaches the main thread, which wakes up for it.
ReportedOnce == CompletedOnce /\ MessagesWake

\* The user is shown why loading failed: the shards that are stopped because one
\* failed do not replace its error by their "cancelled".
ErrorNotMasked == \A id \in Live : symbols[id] # "cancelled"

\* What was loaded stays: symbols that are in use are not replaced or lost while
\* their binary is registered (debugger.rs holds on to what it resolved in them).
LoadedIsFinal ==
    [][\A id \in Live \cap Live' :
          /\ symbols[id] # "loading" => symbols'[id] = symbols[id]
          /\ unwind[id] # "loading" => unwind'[id] = unwind[id]]_vars

\* Eviction cancels: no further stage of an evicted binary is begun, so that
\* several recompilations in a row do not leave loaders competing for the threads.
EvictedStops ==
    [][\A id \in Ids, j \in Jobs :
          /\ id <= count /\ id \notin Live
          /\ job'[id][j] = "preparing"
          => job[id][j] = "preparing"]_vars

(***************************************************************************)
(* Liveness.  Fairness: the main thread handles its events, and the        *)
(* Executor as a whole goes on while it has something to do (TaskPool; no  *)
(* closure waits for another one, so nothing is assumed of their order).   *)
(***************************************************************************)
Fairness == WF_vars(MainStep) /\ WF_vars(WorkerStep)

FairSpec == Spec /\ Fairness

\* A registered binary does not stay "loading": the debugger keeps the process
\* stopped for as long as it does (stopped_until_symbols_are_loaded).
LoadingEnds == \A id \in Ids : (id \in Live) ~> (id \notin Live \/ SymbolsLoaded(id))
=============================================================================
