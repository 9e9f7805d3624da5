----------------------------- MODULE MCLoading -----------------------------
(* The Executor and what runs on it: the loading of symbols, and the search   *)
(* dialogs.  The three are checked side by side, one of them moving in a      *)
(* behaviour; that the Executor is the TaskPool the other two assume is       *)
(* ImplementsPool.                                                            *)
EXTENDS Executor, Search, TLC

CONSTANTS v1, v2, p1, NoLocator     \* a binary, its recompiled version, their path

\* The empty query matches both functions of a binary alike, the other the second.
MCScoreOf ==
    [q \in {"", "b@f"} |-> [i \in 0 .. 1 |-> IF q = "" THEN 0 ELSE IF i = 0 THEN 99 ELSE 1]]

VARIABLES which, count, loc, loaded, unwind, msgs, wake, main, cancel, failed, stage,
    tasksLeft, loader, closures, unwindJob, reports, faults

Symbols == INSTANCE SymbolsRegistry
    WITH Locators <- {v1, v2}, Paths <- {p1}, PathOf <- (v1 :> p1) @@ (v2 :> p1),
         MaxBinaries <- 1, MaxQueue <- 3, NumShards <- 3, LastStage <- 2, NumThreads <- 3,
         symbols <- loaded, job <- closures

symbolsVars == <<count, loc, loaded, unwind, msgs, wake, main, cancel, failed, stage,
                 tasksLeft, loader, closures, unwindJob, reports, faults>>
allVars == <<which, vars, symbolsVars, searchVars>>

MCInit ==
    /\ which \in {"executor", "symbols", "search"}
    /\ Init /\ Symbols!Init /\ SearchInit

MCNext ==
    \/ which = "executor" /\ Next /\ UNCHANGED <<which, symbolsVars, searchVars>>
    \/ which = "symbols" /\ Symbols!Next /\ UNCHANGED <<which, vars, searchVars>>
    \/ which = "search" /\ SearchNext /\ UNCHANGED <<which, vars, symbolsVars>>

\* The fairness of the modules, each where it moves.
MCFairness ==
    /\ \A c \in Worker \cup Client : WF_vars(which = "executor" /\ Notify(c))
    /\ \A w \in Worker : /\ WF_vars(which = "executor" /\ (Wait(w) \/ Take(w)))
                         /\ WF_vars(which = "executor" /\ Finish(w))
    /\ WF_symbolsVars(which = "symbols" /\ Symbols!MainStep)
    /\ WF_symbolsVars(which = "symbols" /\ Symbols!WorkerStep)
    /\ WF_searchVars(which = "search" /\ Main)
    /\ WF_searchVars(which = "search" /\ Work)

MCSpec == MCInit /\ [][MCNext]_allVars /\ MCFairness

\* The variables of the modules keep their types.
Types == TypeOK /\ Symbols!TypeOK /\ SearchTypeOK

\* A registered binary does not stay "loading": its loader reports in the end.
LoadingEnds == Symbols!LoadingEnds
=============================================================================
