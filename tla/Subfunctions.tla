---------------------------- MODULE Subfunctions ----------------------------
(* The inlined calls of one function, as finish_function() of symbols.rs     *)
(* turns them from ranges of addresses in any order into levels of nested    *)
(* ranges, and the lookups by address that stack traces, breakpoints and     *)
(* steps use.  The ranges come from DW_TAG_subprogram (subfunction 1, level  *)
(* 0) and DW_TAG_inlined_subroutine and may be garbage: they may overlap or  *)
(* reach beyond the caller's.                                                *)
EXTENDS Integers, Sequences, FiniteSets, SequencesExt, FiniteSetsExt, TLC

CONSTANTS
    Addrs,      \* addresses, an interval of numbers
    RootRanges, \* ranges the function may have: a set of sets of <<from, to>>
    MaxCalls,   \* inlined calls
    MaxLevel    \* the deepest level of a call

VARIABLES
    sfs,        \* FunctionStackEntry::subfunctions with the ranges of each
    result      \* <<>>, then what finish_function() leaves

-----------------------------------------------------------------------------
\* A subfunction: the one that called it, its level and its ranges.
Ranges == {<<a, b>> \in Addrs \X Addrs : a < b}
CodeStart == CHOOSE a \in Addrs : \A b \in Addrs : a <= b
\* what attributes say: also lost relocations, empty and reversed ranges
Raw == Ranges \cup {<<0, CodeStart>>, <<0, 0>>, <<CodeStart + 1, CodeStart + 1>>, <<CodeStart + 2, CodeStart>>}

\* parse_dwarf_ranges(): DW_AT_ranges, or else DW_AT_low_pc and DW_AT_high_pc
ParseDwarfRanges(list, low) ==
    IF list # {} THEN {r \in list : r[2] > CodeStart /\ r[2] > r[1]}
    ELSE {r \in {low} : r[1] # 0 /\ r[2] > r[1]}

Init ==
    /\ \E rs \in RootRanges : sfs = <<[parent |-> 0, level |-> 0, ranges |-> rs]>>
    /\ result = <<>>

\* DW_TAG_inlined_subroutine
InlinedSubroutine ==
    /\ result = <<>> /\ Len(sfs) <= MaxCalls
    /\ \E p \in DOMAIN sfs, r \in Raw, q \in Raw :
         /\ sfs[p].level < MaxLevel
         /\ p >= sfs[Len(sfs)].parent     \* depth first
         /\ q = r \/ q[1] > r[2]         \* low and high, or a list of two
         /\ sfs' = Append(sfs, [parent |-> p, level |-> sfs[p].level + 1,
                                ranges |-> IF q = r THEN ParseDwarfRanges({}, r)
                                           ELSE ParseDwarfRanges({r, q}, r)])
    /\ UNCHANGED result

-----------------------------------------------------------------------------
\* SubfunctionEvent: the two ends of every range.
EventSet ==
    UNION {UNION {{<<r[1], sfs[i].level + 1, i>>, <<r[2], -(sfs[i].level + 1), i>>} :
                  r \in sfs[i].ranges} : i \in DOMAIN sfs}
\* Sorted by address, then ends before starts, inner ends and outer starts
\* first.  The sort is unstable: `flip` is one order or the other of equals.
Sooner(flip, d, e) ==
    \/ d[1] < e[1]
    \/ d[1] = e[1] /\ d[2] < e[2]
    \/ d[1] = e[1] /\ d[2] = e[2] /\ IF flip THEN d[3] > e[3] ELSE d[3] < e[3]

\* Mutant: the starts of ranges come before the ends.
MutantEvents(flip) ==
    SortSeq(FoldSet(LAMBDA e, s : Append(s, e), <<>>, EventSet), LAMBDA d, e :
      Sooner(flip, <<d[1], -d[2], d[3]>>, <<e[1], -e[2], e[3]>>))
Events(flip) ==
    SortSeq(FoldSet(LAMBDA e, s : Append(s, e), <<>>, EventSet),
            LAMBDA d, e : Sooner(flip, d, e))

\* A sweep from low addresses to high ones.
\* stack[l] = <<index in levels[l], ranges open>>; index 1 is level 0
Sweep0 == [stack |-> <<>>, levels |-> [l \in 1..(MaxLevel + 1) |-> <<>>],
           num |-> 0, ends |-> {}, broken |-> FALSE]

RECURSIVE Ancestor(_, _)
Ancestor(i, up) == IF up = 0 THEN i ELSE Ancestor(sfs[i].parent, up - 1)

\* A range starts: open it, and ranges of the callers that have none open.
OpenRange(w, addr, sf, level) ==
    IF level <= Len(w.stack)
    THEN [w EXCEPT !.stack[level][2] = @ + 1]      \* overlapping ranges
    ELSE LET new == (Len(w.stack) + 1)..level IN
         [w EXCEPT
           !.stack = FoldLeft(LAMBDA st, l :
                        IF l \in new
                        THEN Append(st, <<Len(w.levels[l]) + 1, IF l = level THEN 1 ELSE 0>>)
                        ELSE st, @, [l \in 1..level |-> l]),
           !.num = IF level > @ THEN level ELSE @,
           !.levels = [l \in DOMAIN @ |->
                        IF l \in new THEN Append(@[l], <<Ancestor(sf, level - l), addr, addr>>)
                        ELSE @[l]]]

\* A range ends: ranges on top of the stack that nobody holds open end too.
\* Mutant: only the range at the top ends.
MutantCloseRange(w, addr, level) ==
    LET st == [w.stack EXCEPT ![level][2] = @ - 1]
        keep == IF st[Len(st)][2] = 0 THEN Len(st) - 1 ELSE Len(st)
    IN [w EXCEPT
          !.stack = SubSeq(st, 1, keep),
          !.levels = [l \in DOMAIN @ |->
             IF l > keep /\ l <= Len(st) THEN [@[l] EXCEPT ![st[l][1]][3] = addr] ELSE @[l]]]

CloseRange(w, addr, level) ==
    LET st == [w.stack EXCEPT ![level][2] = @ - 1]
        held == {l \in DOMAIN st : st[l][2] # 0}
        keep == IF held = {} THEN 0 ELSE CHOOSE l \in held : \A k \in held : k <= l
    IN [w EXCEPT
          !.stack = SubSeq(st, 1, keep),
          !.levels = [l \in DOMAIN @ |->
             IF l > keep /\ l <= Len(st) THEN [@[l] EXCEPT ![st[l][1]][3] = addr] ELSE @[l]]]

\* The instructions after an inlined call get the line of the call: an entry
\* of addr_to_line, if the sweep does nothing else at this address.
EndEntry(w, v, addr, next) ==
    IF Len(v.stack) < Len(w.stack) /\ next # {} /\ \A a \in next : a > addr
    THEN {<<addr, w.levels[Len(v.stack) + 1][w.stack[Len(v.stack) + 1][1]][1]>>}
    ELSE {}

Step(w, ev, next) ==
    LET addr == ev[1] IN
    IF w.broken THEN w
    ELSE IF ev[2] > 0 THEN OpenRange(w, addr, ev[3], ev[2])
    ELSE IF -ev[2] > Len(w.stack) THEN [w EXCEPT !.broken = TRUE]   \* panics
    ELSE LET v == CloseRange(w, addr, -ev[2])
         IN [v EXCEPT !.ends = @ \cup EndEntry(w, v, addr, next)]

Swept(evs) ==
    FoldLeft(LAMBDA w, i : Step(w, evs[i], IF i < Len(evs) THEN {evs[i + 1][1]} ELSE {}),
             Sweep0, [i \in DOMAIN evs |-> i])

FinishFunction ==
    /\ result = <<>>
    /\ \E flip \in BOOLEAN : \E w \in {Swept(Events(flip))} :
         result' = <<w>>
    /\ UNCHANGED sfs

SubfunctionsNext == InlinedSubroutine \/ FinishFunction

-----------------------------------------------------------------------------
(* Lookups.                                                                  *)
Res == result[1]
\* partition_point() by the end of the range, then a look at its start
AtLevel(addr, l) ==
    LET rs == Res.levels[l]
        i == Cardinality({j \in DOMAIN rs : rs[j][3] <= addr}) + 1
    IN IF i > Len(rs) \/ rs[i][2] > addr THEN 0 ELSE i

\* containing_subfunction_at_level() for the innermost level: <<range, level>>
\* with level 0 if the function has no range there
Containing(addr) ==
    LET gaps == {l \in 1..Res.num : AtLevel(addr, l) = 0}
        depth == IF gaps = {} THEN Res.num ELSE (CHOOSE l \in gaps : \A k \in gaps : l <= k) - 1
    IN IF depth = 0 THEN <<0, 0>> ELSE <<AtLevel(addr, depth), depth>>

\* subfunction_ancestor_at_level(): looks up the start of the range
AncestorAtLevel(range, from, to) ==
    IF from <= to THEN <<range, from>>
    ELSE <<AtLevel(Res.levels[from][range][2], to), to>>

-----------------------------------------------------------------------------
(* What is promised.                                                         *)
In(addr, r) == r[1] <= addr /\ addr < r[2]
Covers(i, addr) == \E r \in sfs[i].ranges : In(addr, r)
\* What a compiler should emit: callees run inside their callers, one at a time.
Proper ==
    /\ \A i \in DOMAIN sfs : \A a \in Addrs :
         Covers(i, a) => i = 1 \/ Covers(sfs[i].parent, a)
    /\ \A i, j \in DOMAIN sfs : \A a \in Addrs :
         Covers(i, a) /\ Covers(j, a) /\ sfs[i].level = sfs[j].level => i = j
    /\ \A i \in DOMAIN sfs : \A q \in sfs[i].ranges, r \in sfs[i].ranges :
         q # r => q[2] < r[1] \/ r[2] < q[1]

\* Whatever the ranges are, the result is well nested: the ranges of a level
\* are sorted and apart, and each lies within one of the level above.
Nested ==
    /\ Res.stack = <<>>
    /\ \A l \in 1..Res.num : \A i \in DOMAIN Res.levels[l] :
         LET r == Res.levels[l][i] IN
         /\ r[2] < r[3]
         /\ i > 1 => Res.levels[l][i - 1][3] <= r[2]
         /\ l > 1 => \E up \in ToSet(Res.levels[l - 1]) : up[2] <= r[2] /\ r[3] <= up[3]

\* No code of a call is lost: an address that a range covers has at least its level.
NothingLost ==
    \A i \in DOMAIN sfs, a \in Addrs : Covers(i, a) => Containing(a)[2] >= sfs[i].level + 1

\* With proper ranges the innermost subfunction at an address is the deepest
\* call there, its ancestors are its callers, and the line of a call is given
\* to what follows it exactly where the caller goes on.
Exact ==
    /\ \A a \in Addrs :
         LET at == {i \in DOMAIN sfs : Covers(i, a)}
             c == Containing(a)
         IN /\ c[2] = Cardinality(at)
            /\ c[2] > 0 => \A l \in 1..c[2] :
                 LET up == AncestorAtLevel(c[1], c[2], l)
                 IN up[1] # 0 /\ sfs[Res.levels[l][up[1]][1]].level = l - 1
                      /\ Res.levels[l][up[1]][1] \in at
    /\ \A e \in Res.ends : e[2] # 1 =>
         ~Covers(e[2], e[1]) /\ Covers(e[2], e[1] - 1) /\ Covers(sfs[e[2]].parent, e[1])
    /\ \A i \in DOMAIN sfs, a \in Addrs :
         (/\ i # 1 /\ Covers(i, a - 1) /\ ~Covers(i, a) /\ Covers(sfs[i].parent, a)
          /\ \A j \in DOMAIN sfs : Covers(j, a) => Covers(j, a - 1))
         => <<a, i>> \in Res.ends

SubfunctionsRight ==
    result # <<>> => ~Res.broken /\ Nested /\ NothingLost /\ (Proper => Exact)
=============================================================================
