--------------------------- MODULE MCBreakpoints ---------------------------
(* Instances of Breakpoints for TLC: two threads that race for one address,   *)
(* and one thread with one kind of step, whose breakpoint and a data          *)
(* breakpoint compete for one debug register.                                 *)
EXTENDS Breakpoints, TLC

CONSTANTS b1, d1, t1, t2

MCWhere == [i \in CodeBps |-> 1]

VARIABLE which

\* Steps over lines by two threads.
Threads == INSTANCE Breakpoints WITH DataBps <- {}, Conditional <- {b1}, StepKinds <- {"range"}

\* Run to cursor, and steps by one instruction, by one thread.
Cursor == INSTANCE Breakpoints WITH StepKinds <- {"cursor"}
Instructions == INSTANCE Breakpoints WITH StepKinds <- {"instr"}

MCInit == which \in {"threads", "cursor", "instructions"} /\ Init

MCNext ==
    /\ \/ which = "threads" /\ Threads!Next
       \/ which = "cursor" /\ Cursor!Next /\ run'[t2] = "none"
       \/ which = "instructions" /\ Instructions!Next /\ run'[t2] = "none"
    /\ UNCHANGED which

MCSpec == MCInit /\ [][MCNext]_<<which, vars>>

\* Breakpoints as the cfg instantiates it.
MCBaseSpec == which = "threads" /\ Init /\ [][Next /\ UNCHANGED which]_<<which, vars>>

\* No instruction is skipped or entered in the middle (NoBrokenThread).  Run to
\* cursor and instruction steps, which the other instances take, can break it.
MCNoBrokenThread == which = "threads" => NoBrokenThread
=============================================================================
