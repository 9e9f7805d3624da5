------------------------------- MODULE Search -------------------------------
(***************************************************************************)
(* The fuzzy search dialogs of nnd: SymbolSearcher (src/src/search.rs) on  *)
(* the main thread, file_search_task() and search_task() on the Executor,  *)
(* and SearchDialog (src/src/widgets.rs), which draws the results.         *)
(*                                                                         *)
(* Every search has a SearchState of its own, shared by the main thread    *)
(* and its tasks; here searches[g] is the g-th.  The Executor is taken as  *)
(* TaskPool describes it: tasks run in any order, at most NumThreads at a  *)
(* time.  How an item scores is ScoreOf's (see FuzzyMatch).                *)
(***************************************************************************)
EXTENDS Naturals, Sequences, FiniteSets

CONSTANTS
    Queries,        \* texts of the input field
    WithFile,       \* those with a file name ("query@file")
    Bins,           \* ids of binaries whose symbols may be loaded
    NumItems,       \* functions of a binary
    ScoreOf,        \* ScoreOf[q][i]: smaller is better; NoMatch
    NoMatch,
    NumShards,      \* symbols.shards.len()
    Chunk,          \* items between two callbacks (65536 in the code)
    MaxResults,     \* MAX_RESULTS
    NumThreads,
    MaxSearches     \* bound: searches begun

\* What is assumed of them; NoMatch is usize::MAX.
ASSUME SearchAssumption ==
    /\ IsFiniteSet(Bins) /\ NumItems \in Nat /\ NumShards \in Nat \ {0}
    /\ Chunk \in Nat \ {0} /\ MaxResults \in Nat
    /\ ScoreOf \in [Queries \cup {""} -> [0..(NumItems - 1) -> Nat]]

VARIABLES
    \* main thread
    phase,          \* "poll", or inside SearchDialog::build()
    sched,          \* symbols_idx of the loop in update()
    query,          \* input.text
    seenQuery,      \* seen_query
    symbols,        \* symbols: the binaries searched
    inspected,      \* a key press waits to be handled
    shown,          \* what the last frame showed
    \* shared
    bins,           \* the registry: loading, loaded or failed
    searches,       \* SearchState of every search begun; the last is `state`
    queue,          \* tasks in the Executor
    running,        \* what its threads run: task |-> where it is
    wakeups         \* wake_main_thread

searchVars == <<phase, sched, query, seenQuery, symbols, inspected, shown, bins, searches,
                queue, running, wakeups>>

Cur == Len(searches)
Items == 0..(NumItems - 1)
\* A cancelled search's results are nobody's any more: only `cancel` is kept.
NewState(n) == [cancel |-> FALSE, remaining |-> n, results |-> {}, count |-> 0,
                done |-> 0, total |-> 0, complete |-> n = 0]
Cancel == [searches EXCEPT ![Cur] = [NewState(0) EXCEPT !.cancel = TRUE]]

\* A result is known by the binary's index in `symbols` and its id.
Matches(q, n) == {[idx |-> b, id |-> i] : b \in 1..n, i \in {j \in Items : ScoreOf[q][j] # NoMatch}}

\* sort_and_truncate_results(): which of equal scores stay is left open.
Best(q, all) ==
    {s \in SUBSET all :
        /\ Cardinality(s) = IF Cardinality(all) < MaxResults THEN Cardinality(all)
                            ELSE MaxResults
        /\ \A r \in s, o \in all \ s : ScoreOf[q][r.id] <= ScoreOf[q][o.id]}

SearchInit ==
    /\ phase = "poll" /\ sched = 1
    /\ query = "" /\ seenQuery = ""
    /\ symbols = <<>>
    /\ inspected = TRUE                      \* the dialog has just been opened
    /\ shown = [query |-> "", results |-> {}, complete |-> TRUE]
    /\ bins = [b \in Bins |-> "loading"]
    /\ searches = <<NewState(0)>>
    /\ queue = {} /\ running = <<>>
    /\ wakeups = FALSE

-----------------------------------------------------------------------------
(* SearchDialog::build() and SymbolSearcher::update(), once per frame.     *)

\* The registry is gone through in the order of ids: the i-th smallest is the i-th.
InOrder(S) ==
    [i \in 1..Cardinality(S) |-> CHOOSE b \in S : Cardinality({c \in S : c < b}) = i - 1]
InSymbols(b) == \E i \in 1..Len(symbols) : symbols[i] = b

\* A file search task, or with shard > 0 the search of one shard.
TaskOf(g, q, idx, shard) == [gen |-> g, q |-> q, idx |-> idx, shard |-> shard]
ShardTasks(g, q, idx) == {TaskOf(g, q, idx, s) : s \in 1..NumShards}

\* Mutant: the new search goes on in the state of the old one.
StartSearch_SameState(syms) ==
    /\ searches' = [searches EXCEPT ![Cur].remaining = Len(syms), ![Cur].complete = syms = <<>>]
    /\ phase' = IF syms = <<>> THEN "results" ELSE "schedule"
    /\ sched' = 1

\* The old search is cancelled and a new one begun, in a new SearchState.
StartSearch(syms) ==
    /\ Cur < MaxSearches
    /\ searches' = Append(Cancel, NewState(Len(syms)))
    /\ phase' = IF syms = <<>> THEN "results" ELSE "schedule"
    /\ sched' = 1

Update ==
    /\ phase = "poll" /\ (inspected \/ wakeups)
    /\ wakeups' = FALSE /\ inspected' = FALSE
    /\ symbols' = symbols \o InOrder({b \in Bins : bins[b] = "loaded" /\ ~InSymbols(b)})
    /\ seenQuery' = query
    /\ IF seenQuery = query /\ symbols' = symbols
       THEN phase' = "results" /\ UNCHANGED <<searches, sched>>
       ELSE StartSearch(symbols')
    /\ UNCHANGED <<query, shown, bins, queue, running>>

\* Mutant: tasks_remaining counts binaries, not shards.
AddShards_Uncounted(g, q, idx, rest) ==
    /\ queue' = rest \cup ShardTasks(g, q, idx)
    /\ UNCHANGED searches

\* The end of file_search_task(): one task for every shard.
AddShards(g, q, idx, rest) ==
    /\ searches' = [searches EXCEPT ![g].remaining = @ + NumShards - 1]
    /\ queue' = rest \cup ShardTasks(g, q, idx)

\* The loop of update(); tasks of the first binaries run meanwhile.
Schedule ==
    /\ phase = "schedule"
    /\ IF seenQuery \in WithFile
       THEN queue' = queue \cup {TaskOf(Cur, seenQuery, sched, 0)} /\ UNCHANGED searches
       ELSE AddShards(Cur, seenQuery, sched, queue)
    /\ sched' = sched + 1
    /\ phase' = IF sched = Len(symbols) THEN "results" ELSE phase
    /\ UNCHANGED <<query, seenQuery, symbols, inspected, shown, bins, running, wakeups>>

\* get_results() and the rest of the frame.
Draw ==
    /\ phase = "results"
    /\ phase' = "poll"
    /\ shown' = [query |-> seenQuery, results |-> searches[Cur].results,
                 complete |-> searches[Cur].complete]
    /\ UNCHANGED <<sched, query, seenQuery, symbols, inspected, bins, searches, queue,
                   running, wakeups>>

Type(q) ==
    /\ phase = "poll" /\ q # query /\ Cur < MaxSearches
    /\ query' = q /\ inspected' = TRUE
    /\ UNCHANGED <<phase, sched, seenQuery, symbols, shown, bins, searches, queue, running, wakeups>>

\* The dialog is closed, drop(), and another opened.
Reopen ==
    /\ phase = "poll" /\ Cur + 1 < MaxSearches /\ ~searches[Cur].complete
    /\ searches' = Append(Cancel, NewState(0))
    /\ query' = "" /\ seenQuery' = "" /\ symbols' = <<>>
    /\ shown' = [query |-> "", results |-> {}, complete |-> TRUE]
    /\ inspected' = TRUE
    /\ UNCHANGED <<phase, sched, bins, queue, running, wakeups>>

\* The registry's loaders end; process_events() wakes the main thread.
SymbolsEnd(b) ==
    /\ phase = "poll" /\ bins[b] = "loading" /\ Cur < MaxSearches
    /\ \E how \in {"loaded", "failed"} : bins' = [bins EXCEPT ![b] = how]
    /\ wakeups' = TRUE
    /\ UNCHANGED <<phase, sched, query, seenQuery, symbols, inspected, shown, searches, queue, running>>

-----------------------------------------------------------------------------
(* Tasks.  A search task is at an item of its shard, or "merged" when it   *)
(* has called the callback for the last time, or "completing".             *)

Without(t) == [u \in DOMAIN running \ {t} |-> running[u]]
At(t, pc, item) ==
    [u \in DOMAIN running \cup {t} |-> IF u = t THEN [pc |-> pc, item |-> item] ELSE running[u]]

\* The shard's part of the functions.
First(s) == (NumItems * (s - 1)) \div NumShards
Past(s) == (NumItems * s) \div NumShards

Cancelled(t) == searches[t.gen].cancel

FileSearchTask(t) ==
    /\ t \in queue /\ t.shard = 0 /\ Cardinality(DOMAIN running) < NumThreads
    /\ IF Cancelled(t) THEN queue' = queue \ {t} /\ UNCHANGED searches
       ELSE AddShards(t.gen, t.q, t.idx, queue \ {t})
    /\ UNCHANGED <<phase, sched, query, seenQuery, symbols, inspected, shown, bins, running, wakeups>>

\* search_task() begins; the first callback says how much there is to do.
SearchTask(t) ==
    /\ t \in queue /\ t.shard > 0 /\ Cardinality(DOMAIN running) < NumThreads
    /\ queue' = queue \ {t}
    /\ running' = At(t, "search", First(t.shard))
    /\ searches' = IF Cancelled(t) THEN searches
                   ELSE [searches EXCEPT ![t.gen].total = @ + Past(t.shard) - First(t.shard)]
    /\ UNCHANGED <<phase, sched, query, seenQuery, symbols, inspected, shown, bins, wakeups>>

\* A chunk is searched and handed to the callback, which merges the results.
SearchChunk(t) ==
    LET from == running[t].item
        to == IF from + Chunk < Past(t.shard) THEN from + Chunk ELSE Past(t.shard)
        found == {[idx |-> t.idx, id |-> i] :
                    i \in {j \in from..(to - 1) : ScoreOf[t.q][j] # NoMatch}}
        st == searches[t.gen]
    IN  /\ running[t].pc = "search"
        /\ \/ Cancelled(t) /\ running' = At(t, "merged", from) /\ UNCHANGED searches
           \/ /\ ~Cancelled(t)
              /\ running' = At(t, IF to = Past(t.shard) THEN "merged" ELSE "search", to)
              /\ \E best \in Best(t.q, st.results \cup found) :
                   searches' = [searches EXCEPT ![t.gen] =
                       [st EXCEPT !.results = best, !.count = @ + Cardinality(found),
                                  !.done = @ + to - from]]
        /\ UNCHANGED <<phase, sched, query, seenQuery, symbols, inspected, shown, bins, queue, wakeups>>

\* Mutant: the main thread is woken before `complete` is set.
TaskEnds_WakesFirst(t) ==
    \/ /\ running[t].pc = "merged"
       /\ \/ Cancelled(t) /\ running' = Without(t) /\ UNCHANGED <<searches, wakeups>>
          \/ /\ ~Cancelled(t)
             /\ searches' = [searches EXCEPT ![t.gen].remaining = @ - 1]
             /\ running' = IF searches[t.gen].remaining = 1
                           THEN At(t, "completing", running[t].item) ELSE Without(t)
             /\ wakeups' = (wakeups \/ searches[t.gen].remaining = 1)
    \/ /\ running[t].pc = "completing"
       /\ searches' = [searches EXCEPT ![t.gen].complete = TRUE]
       /\ running' = Without(t)
       /\ UNCHANGED wakeups

\* The last task of a search completes it, then wakes the main thread.
TaskEnds(t) ==
    \/ /\ running[t].pc = "merged"
       /\ \/ Cancelled(t) /\ running' = Without(t) /\ UNCHANGED searches
          \/ /\ ~Cancelled(t)
             /\ searches' = [searches EXCEPT ![t.gen].remaining = @ - 1]
             /\ running' = IF searches[t.gen].remaining = 1
                           THEN At(t, "last", running[t].item) ELSE Without(t)
       /\ UNCHANGED wakeups
    \/ /\ running[t].pc = "last"
       /\ searches' = [searches EXCEPT ![t.gen].complete = TRUE]
       /\ running' = At(t, "completing", running[t].item)
       /\ UNCHANGED wakeups
    \/ /\ running[t].pc = "completing"
       /\ wakeups' = TRUE
       /\ running' = Without(t)
       /\ UNCHANGED searches

Main == Update \/ Schedule \/ Draw

Work ==
    \/ \E t \in queue : FileSearchTask(t) \/ SearchTask(t)
    \/ \E t \in DOMAIN running :
         \/ SearchChunk(t)
         \/ /\ TaskEnds(t)
            /\ UNCHANGED <<phase, sched, query, seenQuery, symbols, inspected, shown, bins, queue>>

Environment ==
    \/ \E q \in Queries : Type(q)
    \/ \E b \in Bins : SymbolsEnd(b)
    \/ Reopen

\* The main loop handles keys and wakeups; the Executor runs what it is given
\* (TaskPool).  Nothing is assumed of the user and of symbol loading.
SearchFairness == WF_searchVars(Main) /\ WF_searchVars(Work)

SearchNext == Main \/ Work \/ Environment
SearchSpec == SearchInit /\ [][SearchNext]_searchVars /\ SearchFairness

-----------------------------------------------------------------------------
SearchTypeOK ==
    /\ phase \in {"poll", "schedule", "results"} /\ sched \in 1..(Cardinality(Bins) + 1)
    /\ query \in Queries \cup {""} /\ seenQuery \in Queries \cup {""}
    /\ symbols \in Seq(Bins)
    /\ \A g \in 1..Cur : searches[g].remaining \in 0..(Cardinality(Bins) * NumShards)
    /\ \A t \in DOMAIN running : running[t] \in [pc : {"search", "merged", "last", "completing"},
                                             item : 0..NumItems]

\* "complete" means complete: by then every shard of every binary was searched
\* for this query, each item once; the best MAX_RESULTS of all matches are in
\* the list and total_results counts all of them, whatever order the tasks ran
\* in and however often the query changed.  Until then the list holds matches
\* of the query it is shown with and of no other (tasks_remaining, cancel).
SearchExact ==
    LET st == searches[Cur] IN
    /\ st.complete =>
         /\ st.results \in Best(seenQuery, Matches(seenQuery, Len(symbols)))
         /\ st.count = Cardinality(Matches(seenQuery, Len(symbols)))
         /\ st.done = st.total
    /\ \A g \in 1..Cur : searches[g].done <= searches[g].total
    /\ \A r \in shown.results : ScoreOf[shown.query][r.id] # NoMatch

\* What the user typed is answered: the dialog comes to show a finished search
\* for it, unless more is typed or the dialog closed.  The last task's wakeup
\* is what makes the main thread draw it (wake_main_thread).
SearchIsShown ==
    \A q \in Queries :
        query = q ~> (query # q \/ (shown.query = q /\ shown.complete))
=============================================================================
