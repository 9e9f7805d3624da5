------------------------------- MODULE Focus --------------------------------
(* What the user looks at: the selected thread (ThreadsWindow), the selected  *)
(* frame of its stack (StackWindow), and the requests to the code windows to  *)
(* show that frame.  Threads stop, run, appear and exit, and symbols load,    *)
(* between two frames of the UI; a frame builds the threads window and then   *)
(* the stack window from whatever the debugger shows at that moment.          *)
EXTENDS Integers, Sequences, FiniteSets

CONSTANTS
    Tids,       \* 1..n, in the order of appearance: a tid is also its thread's idx
    MaxStops,   \* bound on stop_count, for each tid
    ThreadKeys  \* keys of the threads window: of none, up, down, prev, next

ASSUME FocusAssumption == IsFiniteSet(Tids) /\ Tids \subseteq Nat \ {0} /\ 1 \in Tids

VARIABLES
    thr,        \* debugger.threads: tid -> [stops, reason, running, select]
    nextIdx,    \* debugger.next_thread_idx
    loaded,     \* symbols and unwind information are loaded
    cacheKey, cached,        \* ThreadsFilter: the query of the last frame, its answers
    seenStops,               \* ThreadsWindow::seen_stop_counts
    selThread, threadCursor, \* state.selected_thread; the table's cursor
    frames,                  \* StackWindow::threads: tid -> [stops, at]
    told,                    \* StackWindow::seen
    rerequest, selSub,       \* rerequest_scroll; state.selected_subframe
    request,                 \* should_scroll_source/disassembly of the last frame, and
                             \* what the user was owed
    alarms,                  \* history: threads that stopped for a reason, unseen
    due,                     \* history: of those, the ones the last frame owed a switch
    want                     \* history: where the user is in each thread; Fresh when it
                             \* stopped and no frame has shown it since

debuggerVars == <<thr, nextIdx, loaded>>
filterVars   == <<cacheKey, cached>>
windowVars   == <<seenStops, selThread, threadCursor, frames, told, selSub>>
historyVars  == <<alarms, want>>
focusVars    == <<debuggerVars, filterVars, windowVars, rerequest, request, due, historyVars>>

NoTid    == 0
NoReason == -1
Breakpoint == 1      \* of StopReason::priority
Step       == 2
Fresh      == [frame |-> 0, sub |-> 0]
NoRequest  == [asked |-> "none", owed |-> "none"]
Top      == [frame |-> 1, sub |-> 0]

Lesser(a, b)  == IF a < b THEN a ELSE b
Greater(a, b) == IF a > b THEN a ELSE b
Before(n)     == Greater(n - 1, 0)            \* saturating_sub(1)

\* The stack of a thread: for each subframe the number of its frame.  Without
\* symbols the unwinder gets one frame and knows of no inlined functions.
StackTrace(t) ==
    IF t \notin DOMAIN thr \/ (t \in DOMAIN thr /\ thr[t].running) THEN <<>>
    ELSE IF loaded THEN <<1, 1, 2>> ELSE <<1>>

Start(s, f) == CHOOSE i \in DOMAIN s : s[i] = f /\ \A j \in 1..(i - 1) : s[j] # f
End(s, f)   == CHOOSE i \in DOMAIN s : s[i] = f /\ \A j \in (i + 1)..Len(s) : s[j] # f

\* StableSubframeIdx::new and ::subframe_idx; subframe indices count from 0.
StableSubframe(s, idx) ==
    IF s = <<>> THEN Top
    ELSE LET i == Lesser(idx + 1, Len(s))
         IN  [frame |-> s[i], sub |-> i - Start(s, s[i])]
SubframeIdx(at, s) ==
    IF s = <<>> THEN 0
    ELSE LET f == Lesser(at.frame, s[Len(s)])
         IN  Lesser(Start(s, f) + at.sub, End(s, f)) - 1

FocusInit ==
    /\ thr = [t \in {1} |-> [stops |-> 0, reason |-> NoReason, running |-> TRUE, select |-> -1]]
    /\ nextIdx = 2 /\ loaded = FALSE
    /\ cacheKey = "all" /\ cached = <<>>
    /\ seenStops = <<>> /\ selThread = NoTid /\ threadCursor = 0
    /\ frames = <<>> /\ told = [tid |-> NoTid, at |-> Top]
    /\ rerequest = FALSE /\ selSub = 0 /\ request = NoRequest
    /\ alarms = {} /\ due = {} /\ want = [t \in Tids |-> Top]
-----------------------------------------------------------------------------
(* The debugger, between two frames.                                          *)

\* The request was carried out when the frame ended, and what was due was checked.
Between == request' = NoRequest /\ due' = {}

Without(f, t) == [x \in DOMAIN f \ {t} |-> f[x]]

\* A running thread stops and stays stopped, alone or with the others, for a
\* reason of its own or for none; a finished step may name the subframe to show.
Stop ==
    \E t \in DOMAIN thr, r \in {NoReason, Breakpoint, Step} :
      \E s \in IF r = Step THEN {-1, 1} ELSE {-1} :
        /\ thr[t].running /\ thr[t].stops < MaxStops[t]
        /\ thr' = [thr EXCEPT ![t] = [stops |-> @.stops + 1, reason |-> r,
                                      running |-> FALSE, select |-> s]]
        /\ alarms' = IF r = NoReason THEN alarms ELSE alarms \cup {t}
        /\ want' = [want EXCEPT ![t] = Fresh]
        /\ Between /\ UNCHANGED <<nextIdx, loaded, filterVars, windowVars, rerequest>>

ResumeThread ==
    \E t \in DOMAIN thr :
        /\ ~thr[t].running
        /\ thr' = [thr EXCEPT ![t].running = TRUE, ![t].reason = NoReason]
        /\ alarms' = alarms \ {t}
        /\ Between /\ UNCHANGED <<nextIdx, loaded, filterVars, windowVars, rerequest, want>>

NewThread ==
    /\ nextIdx \in Tids
    /\ thr' = [t \in DOMAIN thr \cup {nextIdx} |->
                 IF t = nextIdx
                 THEN [stops |-> 0, reason |-> NoReason, running |-> TRUE, select |-> -1]
                 ELSE thr[t]]
    /\ nextIdx' = nextIdx + 1
    /\ Between /\ UNCHANGED <<loaded, filterVars, windowVars, rerequest, historyVars>>

ExitThread ==
    \E t \in DOMAIN thr :
        /\ thr[t].running
        /\ thr' = Without(thr, t)
        /\ Between /\ UNCHANGED <<nextIdx, loaded, filterVars, windowVars, rerequest, historyVars>>

\* Symbols arrived: the windows drop what they derived from them.
SymbolsLoaded ==
    /\ ~loaded
    /\ loaded' = TRUE
    /\ cached' = <<>>
    /\ rerequest' = TRUE
    /\ Between /\ UNCHANGED <<thr, nextIdx, cacheKey, windowVars, historyVars>>

\* Step-into from a subframe that is not the top one only moves the focus up.
StepIntoSubframe ==
    /\ selThread \in DOMAIN thr /\ selSub # 0
    /\ ~thr[selThread].running /\ thr[selThread].stops < MaxStops[selThread]
    /\ thr' = [thr EXCEPT ![selThread].select = selSub - 1, ![selThread].stops = @ + 1]
    /\ alarms' = IF thr[selThread].reason = NoReason THEN alarms ELSE alarms \cup {selThread}
    /\ want' = [want EXCEPT ![selThread] = Fresh]
    /\ Between /\ UNCHANGED <<nextIdx, loaded, filterVars, windowVars, rerequest>>
-----------------------------------------------------------------------------
(* The threads window.                                                        *)

\* What the query "some" finds is in the stack of every other stop of a thread.
ThreadPasses(t, query) ==
    \/ query = "all"
    \/ StackTrace(t) # <<>> /\ loaded /\ (t + thr[t].stops) % 2 = 0

\* get_filtered_tids: a result is kept until the query changes or the thread
\* stops again; threads that are gone leave the cache.
CachedResult(t, query) ==
    IF cacheKey = query /\ t \in DOMAIN cached /\ cached[t].stops = thr[t].stops
    THEN cached[t]
    ELSE [stops |-> thr[t].stops, pass |-> ThreadPasses(t, query)]
FilteredTids(query) == {t \in DOMAIN thr : CachedResult(t, query).pass}

\* The rows, by idx or by cpu usage (here: the later thread is the busier one).
Rows(tids, byCpu) ==
    LET place(t) == Cardinality({u \in tids : IF byCpu THEN u >= t ELSE u <= t})
    IN  [i \in 1..Cardinality(tids) |-> CHOOSE t \in tids : place(t) = i]

\* Threads with a reason to stop whose stop was not seen; the highest priority
\* wins, in no particular order among equals (the threads are in a HashMap).
Unseen ==
    {t \in DOMAIN thr : /\ thr[t].reason # NoReason
                        /\ ~(t \in DOMAIN seenStops /\ seenStops[t] = thr[t].stops)}
SeenStops ==
    [t \in {u \in DOMAIN thr : u \in DOMAIN seenStops \/ thr[u].reason # NoReason} |->
        IF thr[t].reason # NoReason THEN thr[t].stops ELSE seenStops[t]]
Urgent(ts) == {t \in ts : \A u \in ts : thr[u].reason <= thr[t].reason}

\* TableState::select, list_cursor_navigation and the hotkeys: the cursor after
\* a key, in a table of n rows.
Navigate(cursor, n, k) ==
    LET moved == IF k \in {"up", "prev"} THEN Before(cursor)
                 ELSE IF k \in {"down", "next"} THEN cursor + 1
                 ELSE cursor
    IN  IF n = 0 THEN 0 ELSE Lesser(moved, n - 1)

\* The cursor stays on the selected thread; while that thread does not pass the
\* filter there is no cursor, and the arrow keys find one past the last row.
ThreadCursor(rows, sel, k) ==
    LET here      == {i \in DOMAIN rows : rows[i] = sel}
        elsewhere == sel \in DOMAIN thr /\ here = {} /\ k \notin {"prev", "next"}
        from      == IF here # {} THEN (CHOOSE i \in here : TRUE) - 1
                     ELSE IF elsewhere THEN Len(rows)
                     ELSE threadCursor
        cursor    == Navigate(from, Len(rows), k)
    IN  [cursor |-> cursor,
         tid    |-> IF elsewhere /\ k \notin {"up", "down"} THEN sel
                    ELSE IF cursor < Len(rows) THEN rows[cursor + 1] ELSE NoTid]
-----------------------------------------------------------------------------
(* The stack window, for the selected thread t.                               *)

\* The frame remembered for the thread, or a fresh choice after a stop.
FrameOf(t)  == IF t \in DOMAIN frames THEN frames[t] ELSE [stops |-> 0, at |-> Top]
\* Mutant: only a thread that was never shown counts as newly stopped.
MutantNewStop(t) == t \notin DOMAIN frames
NewStop(t)  == FrameOf(t).stops # thr[t].stops
SubCursor(t) ==
    IF NewStop(t) THEN Greater(thr[t].select, 0)
    ELSE SubframeIdx(FrameOf(t).at, StackTrace(t))

\* StackWindow::threads holds at most twice as many entries as there are threads.
Remember(t, at) ==
    LET all == [u \in DOMAIN frames \cup {t} |->
                  IF u = t THEN [stops |-> thr[t].stops, at |-> at] ELSE frames[u]]
    IN  IF Cardinality(DOMAIN all) > 2 * Cardinality(DOMAIN thr)
        THEN [u \in DOMAIN all \cap DOMAIN thr |-> all[u]]
        ELSE all

\* The focus moved, or was asked to: the code windows must follow.  After symbols
\* were loaded they are only asked to try again if they show an error.
Request(t, at, k) ==
    IF NewStop(t) \/ k # "none" \/ told # [tid |-> t, at |-> at] THEN "follow"
    ELSE IF rerequest THEN "retry" ELSE "none"

StackBuild(t, k) ==
    \E s \in {StackTrace(t)} :
    \E cur \in {Navigate(SubCursor(t), Len(s), k)} :
    \E at \in {StableSubframe(s, cur)} :
        /\ rerequest' = FALSE
        /\ \/ /\ s = <<>>
              /\ selSub' = 0 /\ request' = NoRequest
              /\ UNCHANGED <<told, want>>
              /\ frames' = IF Cardinality(DOMAIN frames) > 2 * Cardinality(DOMAIN thr)
                           THEN [u \in DOMAIN frames \cap DOMAIN thr |-> frames[u]]
                           ELSE frames
           \/ /\ s # <<>>
              /\ selSub' = cur
              /\ frames' = Remember(t, at)
              /\ told' = [tid |-> t, at |-> at]
              /\ LET w == IF want[t] = Fresh THEN Greater(thr[t].select, 0) ELSE SubframeIdx(want[t], s)
                     now == StableSubframe(s, Navigate(w, Len(s), k))
                     owed == IF want[t] = Fresh \/ k # "none" \/ told # [tid |-> t, at |-> now]
                             THEN "follow" ELSE IF rerequest THEN "retry" ELSE "none"
                 IN  /\ want' = [want EXCEPT ![t] = now]
                     /\ request' = [asked |-> Request(t, at, k), owed |-> owed]

\* One frame: the threads window, then the stack window.  k is a key of the
\* first, j a key of the second; the user may have typed a filter or sorted.
Frame ==
    \E k \in ThreadKeys, j \in {"none", "prev", "next"},
       query \in {"all", "some"}, byCpu \in BOOLEAN :
        /\ k = "none" \/ j = "none"
        /\ \E sel \in IF Unseen = {} THEN {selThread} ELSE Urgent(Unseen) :
           \E table \in {ThreadCursor(Rows(FilteredTids(query), byCpu), sel, k)} :
               /\ threadCursor' = table.cursor
               /\ selThread' = table.tid
               /\ StackBuild(table.tid, j)
        /\ seenStops' = SeenStops
        /\ cacheKey' = query
        /\ cached' = [t \in DOMAIN thr |-> CachedResult(t, query)]
        /\ due' = IF k = "none" THEN Urgent({t \in alarms \cap DOMAIN thr : ~thr[t].running})
                  ELSE {}
        /\ alarms' = {}
        /\ UNCHANGED debuggerVars

FocusNext ==
    \/ Stop \/ ResumeThread \/ NewThread \/ ExitThread \/ SymbolsLoaded
    \/ StepIntoSubframe \/ Frame

FocusSpec == FocusInit /\ [][FocusNext]_focusVars
-----------------------------------------------------------------------------
\* A stop with a reason that no frame has shown yet gets the selection, the most
\* urgent one first: the switch is made by stop counts, and must neither miss a
\* thread that ran and stopped again between two frames nor return to one whose
\* stop was shown already.
UrgentStopSelected == due # {} => selThread \in due

\* After a frame the focus is where the user left it in this thread, or where the
\* thread's last stop put it: through switches to other threads, stops nobody
\* looked at, and frames that symbols split into inlined functions.
FocusRemembered ==
    selThread \in DOMAIN thr /\ want[selThread] # Fresh /\ StackTrace(selThread) # <<>>
    /\ selThread = told.tid =>
        want[selThread] = told.at

\* The filter's answers, kept by stop count, are the answers for the threads as
\* they stand, in every thread that is stopped.
FilterCurrent ==
    \A t \in DOMAIN cached \cap DOMAIN thr :
        (cached[t].stops = thr[t].stops /\ ~thr[t].running) =>
            cached[t].pass = ThreadPasses(t, cacheKey)

\* The code windows are told to follow exactly when the focus moved or the user
\* asked, a second stop at the same address included, and only asked to retry,
\* once, when symbols were loaded: never while the user reads elsewhere.
CodeFollows == request.asked = request.owed

\* After stops, exits and frames in any order the windows are on the right thread
\* and frame, and the code windows go along (ThreadsWindow, StackWindow).
FocusRight == UrgentStopSelected /\ FocusRemembered /\ FilterCurrent /\ CodeFollows
=============================================================================
