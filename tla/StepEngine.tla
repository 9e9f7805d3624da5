----------------------------- MODULE StepEngine -----------------------------
(* Steps by source lines and by instructions.  Debugger::step() turns the     *)
(* selected line into address ranges and a few internal breakpoints (after    *)
(* each range, on jumps out of them, on calls, on the return address, on      *)
(* catch blocks); the thread then runs at full speed, and handle_step_stop()  *)
(* decides at each stop whether the step is complete, or the ranges have to   *)
(* grow because the thread is not on a statement.  Here one thread executes   *)
(* a small function f, at addresses 1..N, which may call itself or g, has     *)
(* perhaps an inlined call and perhaps a catch block, and was called from     *)
(* code without symbols.                                                      *)
EXTENDS Integers, Sequences, FiniteSets, SequencesExt

CONSTANTS
    Flows,      \* for each instruction of f but the last: set of <<flow, target>>
    Tables,     \* line tables of f: <<lines, is_stmt>>; line 0: the entry before goes on
    Shapes,     \* records [inl : <<lo, hi, call line>> or <<>>, pad : catch block or 0,
                \*          g : flow of the first instruction of g,
                \*          bare : those of "g" and "outside" without unwind information]
    MaxDepth,   \* bound on the call depth
    MaxRanges   \* bound on the address ranges of a step

VARIABLES
    prog,       \* [f : instructions, shape : a member of Shapes,
                \*  stmtOnly : the setting steps_stop_only_on_statements]
    pc, calls,  \* the thread: instruction pointer; return addresses, outermost first
    step,       \* StepState, with its breakpoints, or NoStep
    single,     \* Thread::single_stepping
    verdict     \* history: "ok", or what the last step did wrong

stepVars == <<prog, pc, calls, step, single, verdict>>

NoStep     == [kind |-> "none"]
Outside    == 0                       \* the caller of f, and a catch block in it
OutsidePad == -1
N   == Len(prog.f)
G   == N + 1                          \* g has two instructions
End == N + 3                          \* end of the line table
Smallest(S) == CHOOSE x \in S : \A y \in S : x <= y
Largest(S)  == CHOOSE x \in S : \A y \in S : x >= y
-----------------------------------------------------------------------------
(* The program and its debug information.                                     *)

At(a) ==
    IF a \in 1..N THEN prog.f[a]
    ELSE IF a = G THEN [flow |-> prog.shape.g, to |-> 0, line |-> 9, stmt |-> TRUE]
    ELSE [flow |-> "ret", to |-> 0, line |-> 0, stmt |-> TRUE]

\* A throw is a call into the runtime, which is one instruction here.
IsCall(a) == At(a).flow \in {"call", "throw"}

\* Symbols::addr_to_line_iter: the entry at or below an address, and the next ones.
Entries   == {a \in 1..(N + 2) : At(a).line # 0}
Entry(a)  == Largest({e \in Entries : e <= a})
LineOf(a) == IF a = End THEN 0 ELSE At(Entry(a)).line
IsStmt(a) == At(Entry(a)).stmt
Inlined(a) ==
    LET i == prog.shape.inl IN i # <<>> /\ a \in 1..N /\ i[1] <= a /\ a < i[2]

\* The frame at depth d of a stack, and the address that its line comes from.
PseudoAddr(d, p, s) == IF d = Len(s) THEN p ELSE s[d + 1] - 1
FunctionAt(a) == IF a < 1 THEN "outside" ELSE IF a <= N THEN "f" ELSE "g"

\* All subframes, top first, by StackTrace::subframe_identity: cfa, function,
\* inlined level.
Subframes(p, s) ==
    FlattenSeq([k \in 1..(Len(s) + 1) |->
        LET d == Len(s) - k + 1
            a == PseudoAddr(d, p, s)
            whole == <<d, FunctionAt(a), 0>>
        IN  IF Inlined(a) THEN <<<<d, "f", 1>>, whole>> ELSE <<whole>>])

\* An exception goes to the innermost frame of f, if f has a catch block.
Thrown ==
    LET D == {d \in 1..Len(calls) : FunctionAt(PseudoAddr(d, pc, calls)) = "f"}
    IN  IF prog.shape.pad = 0 \/ D = {} THEN <<OutsidePad, <<>>>>
        ELSE <<prog.shape.pad, SubSeq(calls, 1, Largest(D))>>

Successors ==
    LET i == At(pc)
    IN  CASE i.flow \in {"next", "sys"} -> {<<pc + 1, calls>>}
          [] i.flow = "jump"  -> {<<pc + 1, calls>>, <<i.to, calls>>}
          [] i.flow = "call"  -> {<<i.to, Append(calls, pc + 1)>>}
          [] i.flow = "ret"   -> {<<Last(calls), Front(calls)>>}
          [] i.flow = "throw" -> {Thrown}
-----------------------------------------------------------------------------
(* Starting a step.                                                           *)

\* Ranges that cover a set of addresses, overlapping and adjacent ones merged.
RangesOf(A) ==
    LET lows == {a \in A : a - 1 \notin A}
    IN  [i \in 1..Cardinality(lows) |->
            LET lo == CHOOSE a \in lows : Cardinality({b \in lows : b <= a}) = i
            IN  <<lo, Smallest({b \in lo..(End + 1) : b \notin A})>>]

\* Answers of "is it in the ranges": partition_point finds some border of a
\* sequence that may not be sorted.
Found(ranges, a) ==
    {i <= Len(ranges) /\ ranges[i][1] <= a :
        i \in {j \in 1..(Len(ranges) + 1) :
                  /\ j = 1 \/ ranges[j - 1][2] <= a
                  /\ j = Len(ranges) + 1 \/ ranges[j][2] > a}}

\* Addresses of the line, from the entry at gap on.
LineAddrs(gap, line) ==
    LET e == Entry(gap)
    IN  IF LineOf(e) # line THEN {}
        ELSE e..(Smallest({x \in Entries \cup {End} : x > e /\ LineOf(x) # line}) - 1)

\* kind: what the user asked for; level: of the selected subframe, 0 is the
\* function itself.  The line is the one of the call for a subframe that is
\* inlined into.
StartLine(a, level) == IF Inlined(a) /\ level = 0 THEN prog.shape.inl[3] ELSE LineOf(a)

StepAddrs(kind, a, level) ==
    LET line == StartLine(a, level)
        inl  == prog.shape.inl
        body == inl[1]..(inl[2] - 1)
        skip == inl # <<>> /\ FunctionAt(a) = "f" /\ level = 0 /\ inl[3] = line /\ kind = "over"
    IN  IF kind = "out" THEN body
        ELSE UNION {LineAddrs(a, line),
                    IF skip THEN body \cup LineAddrs(inl[2], line) ELSE {}}

\* Step breakpoints in lo..hi-1, as <<type, address>>.
Scan(into, lo, hi, skipFirst, ranges) ==
    LET I == (IF skipFirst THEN lo + 1 ELSE lo)..(hi - 1)
    IN  {<<"after", hi>>}
        \cup {<<"call", i>> : i \in {j \in I : into /\ IsCall(j)}}
        \cup {<<"jump", i>> :
                 i \in {j \in I : At(j).flow = "jump" /\ FALSE \in Found(ranges, At(j).to)}}

MayDoSyscalls(into, lo, hi, skipFirst) ==
    \E i \in (IF skipFirst THEN lo + 1 ELSE lo)..(hi - 1) :
        At(i).flow = "sys" \/ (IsCall(i) /\ ~into)

\* Mutant: no breakpoints on the catch blocks of the callers.
MutantCatches(d, own) == {}

\* Catch blocks in the callers of the frame at depth d, and in the frame itself.
Catches(d, own) ==
    {<<"catch", OutsidePad>>}
    \cup {<<"catch", prog.shape.pad>> :
             x \in {e \in 1..Len(calls) : /\ prog.shape.pad # 0
                                          /\ e < d \/ (own /\ e = d)
                                          /\ FunctionAt(PseudoAddr(e, pc, calls)) = "f"}}

\* "If we're already standing on one of the breakpoints we're adding".
Standing(bps, a) == \E b \in bps : b[2] = a /\ b[1] \in {"call", "jump"}

AfterSyscall == pc > 1 /\ At(pc - 1).flow = "sys"

Begin(s) ==
    /\ step' = [s EXCEPT !.keep = @ /\ ~AfterSyscall]
    /\ single' = (s.each \/ Standing(s.bps, pc))
    /\ verdict' = "ok"
    /\ UNCHANGED <<prog, pc, calls>>

Suspended == step = NoStep /\ calls # <<>>

\* One instruction, or a call over which the thread runs.
StepInstruction(over) ==
    /\ Suspended
    /\ LET i == At(pc)
           o == over /\ IsCall(pc)
           k == ~o /\ i.flow # "sys"
       IN  Begin([kind |-> IF o THEN "over" ELSE "into", each |-> ~o, keep |-> k,
                  depth |-> Len(calls), line |-> 0, stmtOnly |-> FALSE, digest |-> <<>>,
                  ranges |-> IF k /\ ~AfterSyscall THEN <<>> ELSE <<<<pc, pc + 1>>>>,
                  bps |-> IF o THEN {<<"after", pc + 1>>} \cup Catches(Len(calls), TRUE)
                          ELSE {},
                  goal |-> {pc}, skipped |-> {}, missed |-> FALSE])

\* subframe_idx is i - 1.
StepLines(kind, i) ==
    LET sub == Subframes(pc, calls)[i]
        d   == sub[1]
        a   == PseudoAddr(d, pc, calls)
        out == kind = "out" /\ sub[3] = 0
        as  == IF kind = "out" /\ ~out THEN "over" ELSE kind
        A   == IF out THEN {} ELSE StepAddrs(kind, a, sub[3])
        R   == RangesOf(A)
        scans == UNION {Scan(as = "into", R[j][1], R[j][2], FALSE, R) : j \in 1..Len(R)}
    IN  /\ Suspended
        /\ d > 0
        /\ kind = "into" => i = 1
        /\ Begin([kind |-> as, each |-> FALSE, depth |-> d,
                  keep |-> ~out /\ ~\E j \in 1..Len(R) :
                               MayDoSyscalls(as = "into", R[j][1], R[j][2], FALSE),
                  line |-> IF out THEN 0 ELSE StartLine(a, sub[3]),
                  stmtOnly |-> prog.stmtOnly /\ ~out,
                  digest |-> SubSeq(Subframes(pc, calls), i, Len(Subframes(pc, calls))),
                  ranges |-> R,
                  bps |-> {<<"ret", calls[d]>>} \cup scans
                          \cup (IF as = "into" THEN {} ELSE Catches(d, as = "over")),
                  goal |-> A, skipped |-> {}, missed |-> FALSE])
-----------------------------------------------------------------------------
(* Running.                                                                   *)

\* handle_step_stop at address p with stack s, where inRanges is what the
\* search of the ranges said.
StopsOnStatement(p) == IsStmt(p) /\ Entry(p) = p /\ LineOf(p) # step.line

\* Not a statement: from here to the next one the ranges grow.
NextStatement(p) ==
    Smallest({x \in Entries \cup {End} :
                 x > Entry(p) /\ (x = End \/ (IsStmt(x) /\ LineOf(x) # step.line))})

Grown(p) ==
    LET lo == Entry(p)
        hi == NextStatement(p)
        first == IsStmt(lo)
        ranges == Append(step.ranges, <<IF first THEN lo + 1 ELSE lo, hi>>)
        into == step.kind = "into"
    IN  [step EXCEPT !.ranges = ranges,
                     !.bps = @ \cup Scan(into, lo, hi, first, ranges),
                     !.keep = @ /\ ~MayDoSyscalls(into, lo, hi, first),
                     !.skipped = IF first /\ p = lo THEN @ \cup {p} ELSE @]

\* Mutant: a step over a line is complete in a recursive call as well.
MutantCfaDone(s) == Len(s) # step.depth

CfaDone(s) ==
    IF step.kind = "into" THEN Len(s) # step.depth ELSE Len(s) < step.depth

RangesDone(s, inRanges) ==
    /\ ~inRanges
    /\ step.kind = "into" \/ (step.kind = "over" /\ Len(s) = step.depth)

\* get_cfa_for_step: None in code without unwind information.
HasCfa(p) == FunctionAt(p) \notin prog.shape.bare

StepDone(p, s, inRanges) ==
    IF step.kind = "into" /\ step.each THEN (step.ranges = <<>> => single) /\ ~inRanges
    ELSE IF ~HasCfa(p) THEN step.kind = "into"
    ELSE \/ CfaDone(s)
         \/ RangesDone(s, inRanges) /\ (step.stmtOnly => StopsOnStatement(p))

\* determine_subframe_to_select: 0 is None.
SubframeToSelect(p, s) ==
    LET subs == Subframes(p, s)
        n == Len(subs)
        m == Len(step.digest)
        same == {k \in 0..n : /\ k <= m
                              /\ \A j \in 1..k : step.digest[m - j + 1] = subs[n - j + 1]}
        suf == Largest(same)
    IN  IF suf = 0 THEN 0
        ELSE n - (IF step.kind = "into" /\ suf = m /\ suf < n THEN suf + 1 ELSE suf) + 1
-----------------------------------------------------------------------------
(* What the user expects: the step ends after the first instruction after     *)
(* which it may, as if each instruction had been looked at.                   *)

Expected(p, s) ==
    LET left == p \notin step.goal /\ (step.stmtOnly => StopsOnStatement(p))
    IN  CASE step.each          -> TRUE
          [] step.kind = "into" -> Len(s) # step.depth \/ left
          [] step.kind = "over" -> Len(s) < step.depth \/ (Len(s) = step.depth /\ left)
          [] step.kind = "out"  -> Len(s) < step.depth

\* The cursor goes to the innermost of the old subframes that is still there,
\* or to what was called from it by a step into.
ExpectedSubframe(p, s) ==
    LET subs == Subframes(p, s)
        old  == {i \in 1..Len(subs) : \E j \in 1..Len(step.digest) : step.digest[j] = subs[i]}
        i    == Smallest(old)
    IN  IF step.digest = <<>> THEN 0
        ELSE IF step.kind = "into" /\ i > 1 /\ subs[i] = step.digest[1] THEN i - 1 ELSE i

\* The one instruction that growing the ranges does not scan: the thread is back at
\* the start of a statement of the first line.  A call, a jump or a system call there
\* is missed by the step from then on.
Unscanned ==
    pc \in step.skipped /\ At(pc).flow \in {"sys", "call", "throw", "jump"}

\* The ranges are no longer in order after that, and the search of them may miss the
\* one that p is in.
Misled(p, in) ==
    step.skipped # {} /\ ~in /\ \E i \in 1..Len(step.ranges) :
                                  step.ranges[i][1] <= p /\ p < step.ranges[i][2]

\* `missed` excuses a step that goes on, or is alone, for that reason, and Misled one
\* that ends; code without unwind information one that goes on after it returned there.
Judge(now, stopped, p, s, in) ==
    CASE At(pc).flow = "sys" /\ now.keep /\ ~now.missed -> "syscall while other threads are held"
      [] stopped /\ ~Expected(p, s) /\ ~Misled(p, in) -> "early"
      [] ~stopped /\ Expected(p, s) /\ HasCfa(p) /\ ~now.missed -> "late"
      [] stopped /\ SubframeToSelect(p, s) # ExpectedSubframe(p, s) -> "wrong subframe"
      [] OTHER -> "ok"

\* The thread executes an instruction and goes on, or traps; the trap ends the
\* step or is taken as a stop on the way.
Execute ==
    /\ step # NoStep /\ calls # <<>>
    /\ Len(step.ranges) < MaxRanges
    /\ \E n \in Successors : LET p == n[1]
                                 s == n[2]
                                 now == [step EXCEPT !.missed = @ \/ Unscanned]
       IN  /\ Len(s) <= MaxDepth
           /\ pc' = p /\ calls' = s
           /\ IF ~single /\ ~\E b \in step.bps : b[2] = p
              THEN /\ verdict' = Judge(now, FALSE, p, s, TRUE)
                   /\ step' = now
                   /\ UNCHANGED single
              ELSE \E in \in Found(step.ranges, p) :
                   LET done == StepDone(p, s, in)
                       grows == HasCfa(p) /\ RangesDone(s, in) /\ ~step.each
                       next == [(IF grows THEN Grown(p) ELSE step) EXCEPT !.missed = now.missed]
                   IN  /\ verdict' = Judge(now, done, p, s, in)
                       /\ step' = IF done THEN NoStep ELSE next
                       /\ single' = (~done /\ (step.each \/ Standing(next.bps, p)))
           /\ UNCHANGED prog

Init ==
    /\ prog \in {[f |-> [i \in 1..(Len(Flows) + 1) |->
                            [flow |-> IF i > Len(Flows) THEN "ret" ELSE c[i][1],
                             to   |-> IF i > Len(Flows) THEN 0 ELSE c[i][2],
                             line |-> t[1][i], stmt |-> t[2][i]]],
                  shape |-> h, stmtOnly |-> o] :
                    c \in {x \in [1..Len(Flows) -> UNION {Flows[i] : i \in 1..Len(Flows)}] :
                              \A i \in 1..Len(Flows) : x[i] \in Flows[i]},
                    t \in Tables, h \in Shapes, o \in BOOLEAN}
    /\ pc = 1 /\ calls = <<Outside>>
    /\ step = NoStep /\ single = FALSE /\ verdict = "ok"

StepNext ==
    \/ \E over \in BOOLEAN : StepInstruction(over)
    \/ \E kind \in {"into", "over", "out"}, i \in 1..3 :
          i <= Len(Subframes(pc, calls)) /\ StepLines(kind, i)
    \/ Execute

\* A step ends where it should, selects the subframe the user was in, and makes no
\* system call while the other threads are held, but for what Judge excuses: the
\* instruction that handle_step_stop() does not scan, and callers without unwind
\* information, in which a step over or out does not end.
StepEndsRight == verdict = "ok"
=============================================================================
