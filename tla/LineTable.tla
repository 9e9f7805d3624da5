------------------------------ MODULE LineTable ------------------------------
(* The line tables of symbols.rs: LineInfo with its packed fields, the rows  *)
(* of .debug_line as parse_debug_line() takes them in, the entries that      *)
(* inlined calls add, the sorting and deduplication, and the lookups that    *)
(* breakpoints, steps and the code window use.                               *)
(* A row is read per step.  A sequence of rows covers [first, end) addresses *)
(* in non-decreasing order and no two sequences of the binary overlap, which *)
(* is what parse_debug_line() says it expects of the compiler.               *)
EXTENDS Integers, Sequences, FiniteSets, SequencesExt, TLC

CONSTANTS
    Shards,     \* the loading threads' shards: 1..n
    Addrs,      \* addresses a row may have; 0 is a lost relocation
    Kinds,      \* <<file, line, column, is_stmt>> of a row; file 0 is unknown
    Calls,      \* <<file, line, column, level>> of an inlined call
    MaxRows,    \* rows in all shards
    ColBits, FileBits, LineBits, LevelBits   \* 14, 26, 26, 12 in the code

VARIABLES
    tab,        \* tab[s] = [a2l, l2a : Seq(LineInfo), skip, len, broken]
    rows,       \* rows[s]: what .debug_line says, the rows read so far
    calls,      \* inlined calls read so far: <<shard, entry, end, call>>
    stage       \* "lines", "inlined" or "done"

-----------------------------------------------------------------------------
(* LineInfo: two words.                                                      *)
INLINED == 1
STATEMENT == 2
NO_FILE_IDX == 2^FileBits - 1
SUBFUNCTION_LEVEL_MAX == 2^LevelBits - 1

Least(a, b) == IF a < b THEN a ELSE b

New(addr, file, line, column, flags, level) ==
    << addr * 2^(ColBits + 2) + Least(column, 2^ColBits - 1) * 4 + flags,
       file * 2^(LineBits + LevelBits) + Least(line, 2^LineBits - 1) * 2^LevelBits
         + Least(level, SUBFUNCTION_LEVEL_MAX) >>

Addr(l) == l[1] \div 2^(ColBits + 2)
Column(l) == (l[1] \div 4) % 2^ColBits
Flags(l) == l[1] % 4
File(l) == l[2] \div 2^(LineBits + LevelBits)
Line(l) == (l[2] \div 2^LevelBits) % 2^LineBits
NoFile(l) == File(l) = NO_FILE_IDX
IsInlined(l) == Flags(l) % 2 = INLINED
IsStatement(l) == Flags(l) >= STATEMENT

\* The mask is two bits wider than the field.
SubfunctionLevel(l) == l[2] % 2^(LevelBits + 2)

WithAddrAndFlags(l, addr, flags) ==
    << addr * 2^(ColBits + 2) + Column(l) * 4 + flags, l[2] >>
WithSubfunctionLevel(l, level) ==
    << l[1], l[2] - (l[2] % 2^LevelBits) + Least(level, SUBFUNCTION_LEVEL_MAX) >>
SetLineAndColumnFrom(l, from) ==
    << l[1] + (Column(from) - Column(l)) * 4,
       l[2] + (Line(from) - Line(l)) * 2^LevelBits >>

\* addr_filenone_linebad_inlined(): what addr_to_line is sorted by
SortKey(l) ==
    Addr(l) * 8 + (IF NoFile(l) THEN 4 ELSE 0) + (IF Line(l) = 0 THEN 2 ELSE 0)
      + (IF IsInlined(l) THEN 1 ELSE 0)

\* file_line_column_addr(): what line_to_addr is sorted by
LineKey(l) == << l[2] \div 2^LevelBits, Column(l), Addr(l) >>
Before(a, b) ==
    \/ a[1] < b[1]
    \/ a[1] = b[1] /\ a[2] < b[2]
    \/ a[1] = b[1] /\ a[2] = b[2] /\ a[3] < b[3]

-----------------------------------------------------------------------------
(* parse_debug_line(), one row.                                              *)
RowInfo(r) ==
    IF r.end \/ r.kind[1] = 0
    THEN New(r.addr, NO_FILE_IDX, IF r.end THEN 0 ELSE r.kind[2],
             IF r.end THEN 0 ELSE r.kind[3], 0, SUBFUNCTION_LEVEL_MAX)
    ELSE New(r.addr, r.kind[1], r.kind[2], r.kind[3],
             IF r.kind[4] THEN STATEMENT ELSE 0, SUBFUNCTION_LEVEL_MAX)

\* A row without a line number among good ones of the same file is ignored.
StrayZero(l, prev) ==
    Line(l) = 0 /\ ~NoFile(l) /\ File(l) = File(prev) /\ Line(prev) # 0

Push(t, l) ==
    [t EXCEPT !.l2a = IF NoFile(l) THEN @ ELSE Append(@, l), !.a2l = Append(@, l)]

\* Mutant: of two statements at an address the first one is kept.
MutantSameAddress(t, l) ==
    LET prev == Last(t.a2l) IN
    IF NoFile(prev) THEN Push([t EXCEPT !.a2l = Front(@)], l)
    ELSE LET u == [t EXCEPT !.broken = @ \/ t.l2a = <<>> \/ Addr(Last(t.l2a)) # Addr(l)] IN
         IF NoFile(l) THEN [u EXCEPT !.l2a = Front(@), !.a2l = Append(Front(@), l)]
         ELSE IF IsStatement(l)
         THEN [u EXCEPT !.a2l = Append(Front(@), l)]
         ELSE u

\* Two consecutive rows have the same address: one of them is kept.
SameAddress(t, l) ==
    LET prev == Last(t.a2l) IN
    IF NoFile(prev) THEN Push([t EXCEPT !.a2l = Front(@)], l)
    ELSE LET u == [t EXCEPT !.broken = @ \/ t.l2a = <<>> \/ Addr(Last(t.l2a)) # Addr(l)] IN
         IF NoFile(l) THEN [u EXCEPT !.l2a = Front(@), !.a2l = Append(Front(@), l)]
         ELSE IF IsStatement(prev) => IsStatement(l)
         THEN [u EXCEPT !.l2a = Append(Front(@), l), !.a2l = Append(Front(@), l)]
         ELSE u

TakeRow(t, l) ==
    IF t.a2l # <<>> /\ StrayZero(l, Last(t.a2l)) THEN t
    ELSE IF t.a2l # <<>> /\ Addr(Last(t.a2l)) = Addr(l) THEN SameAddress(t, l)
    ELSE Push(t, l)

ParseRow(t, r) ==
    LET skip == t.skip \/ r.addr = 0 IN
    [(IF skip THEN t ELSE TakeRow(t, RowInfo(r))) EXCEPT !.skip = skip /\ ~r.end]

-----------------------------------------------------------------------------
(* What a compiler emits.                                                    *)
Starts(rs) == {i \in DOMAIN rs : i = 1 \/ rs[i - 1].end}
EndOf(rs, i) ==
    LET js == {j \in i..Len(rs) : rs[j].end} IN
    IF js = {} THEN Len(rs) ELSE CHOOSE j \in js : \A k \in js : j <= k
\* [first row, last row, start address, end address, whether linked in]
SeqsOf(rs) == {<<i, EndOf(rs, i), rs[i].addr, rs[EndOf(rs, i)].addr>> : i \in Starts(rs)}
Kept(rs) == {q \in SeqsOf(rs) : q[3] # 0}
AllKept(rr) == UNION {{<<s, q>> : q \in Kept(rr[s])} : s \in Shards}
Apart(p, q) == p[4] <= q[3] \/ q[4] <= p[3]
WellFormed(rr) ==
    \A x \in AllKept(rr), y \in AllKept(rr) : x # y => Apart(x[2], y[2])
InSequence(rs) == rs # <<>> /\ ~Last(rs).end

ReadRow ==
    /\ stage = "lines"
    /\ \E s \in Shards, a \in Addrs, k \in Kinds, e \in BOOLEAN :
         \E r \in {[addr |-> a, kind |-> k, end |-> e]} :
         /\ \E left \in {MaxRows - FoldSeq(LAMBDA rs, n : n + Len(rs), 0, rows)} :
              left > 0 /\ (e \/ left > Cardinality({x \in Shards \ {s} : InSequence(rows[x])}) + 1)
         /\ \A x \in Shards : x > s => rows[x] = <<>>
         /\ e \/ a = 0 \/ tab[s].skip => k = CHOOSE x \in Kinds : TRUE
         /\ IF InSequence(rows[s]) THEN a >= Last(rows[s]).addr ELSE ~e
         /\ \E rr \in {[rows EXCEPT ![s] = Append(@, r)]} :
              WellFormed(rr) /\ rows' = rr
         /\ tab' = [tab EXCEPT ![s] = ParseRow(@, r)]
    /\ UNCHANGED <<calls, stage>>

-----------------------------------------------------------------------------
(* sort_addr_to_line() and sort_line_to_addr().                              *)
SortedByAddr(s) == SortSeq(s, LAMBDA a, b : SortKey(a) < SortKey(b))
SortedByLine(s) == SortSeq(s, LAMBDA a, b : Before(LineKey(a), LineKey(b)))

Retained(s) ==
    FoldLeft(LAMBDA acc, l :
               IF Addr(l) = Addr(acc.prev) \/ StrayZero(l, acc.prev) THEN acc
               ELSE [prev |-> l, out |-> Append(acc.out, l)],
             [prev |-> New(0, NO_FILE_IDX, 0, 0, 0, 0), out |-> <<>>], s).out
SortAddrToLine(t) == [t EXCEPT !.a2l = Retained(SortedByAddr(@))]

\* run(2): the rows of every unit of the shard were read
LinesRead ==
    /\ stage = "lines"
    /\ \A s \in Shards : ~InSequence(rows[s])
    /\ tab' = [s \in Shards |->
                 LET t == SortAddrToLine(tab[s]) IN [t EXCEPT !.len = Len(t.a2l)]]
    /\ stage' = "inlined"
    /\ UNCHANGED <<rows, calls>>

\* fixup_subfunction_call_line()
FixupSubfunctionCallLine(t, l, addr) ==
    LET i == Cardinality({j \in 1..t.len : Addr(t.a2l[j]) < addr}) IN
    IF Line(l) = 0 /\ ~NoFile(l) /\ i > 0
         /\ File(t.a2l[i]) = File(l) /\ Line(t.a2l[i]) # 0
    THEN SetLineAndColumnFrom(l, t.a2l[i]) ELSE l

\* DW_TAG_inlined_subroutine and the end of its range in finish_function()
InlinedCall ==
    /\ stage = "inlined" /\ calls = {}
    /\ \E s \in Shards, a \in Addrs, b \in Addrs, c \in Calls :
         /\ \E q \in Kept(rows[s]) : q[3] <= a /\ a < b /\ b < q[4]
         /\ \E line \in {New(0, c[1], c[2], c[3], 0, SUBFUNCTION_LEVEL_MAX)} :
              tab' = [tab EXCEPT
                ![s].l2a = Append(@, WithSubfunctionLevel(
                   FixupSubfunctionCallLine(tab[s], WithAddrAndFlags(line, a, INLINED + STATEMENT), a),
                   c[4])),
                ![s].a2l = Append(@, WithAddrAndFlags(
                   FixupSubfunctionCallLine(tab[s], line, a), b, INLINED))]
         /\ calls' = {<<s, a, b, c>>}
    /\ UNCHANGED <<rows, stage>>

Finalize ==
    /\ stage = "inlined"
    /\ tab' = [s \in Shards |->
                 [SortAddrToLine(tab[s]) EXCEPT !.l2a = SortedByLine(@)]]
    /\ stage' = "done"
    /\ UNCHANGED <<rows, calls>>

Init ==
    /\ tab = [s \in Shards |->
                [a2l |-> <<>>, l2a |-> <<>>, skip |-> FALSE, len |-> 0, broken |-> FALSE]]
    /\ rows = [s \in Shards |-> <<>>]
    /\ calls = {}
    /\ stage = "lines"

Next == ReadRow \/ LinesRead \/ InlinedCall \/ Finalize

-----------------------------------------------------------------------------
(* Lookups.                                                                  *)
\* addr_to_line_iter(): each shard's entries from the one at or below addr;
\* the ones that another shard's entry hides are left out.
Below(s, addr) == {i \in DOMAIN tab[s].a2l : Addr(tab[s].a2l[i]) <= addr}
\* Mutant: entries that another shard's entry hides are not left out.
MutantIterSources(addr) ==
    LET start(s) == IF Below(s, addr) = {} THEN 1 ELSE Cardinality(Below(s, addr))
    IN [s \in Shards |->
          IF tab[s].a2l = <<>> THEN <<>> ELSE SubSeq(tab[s].a2l, start(s), Len(tab[s].a2l))]
IterSources(addr) ==
    LET start(s) == IF Below(s, addr) = {} THEN 1 ELSE Cardinality(Below(s, addr))
        firstBelow == {Addr(tab[s].a2l[start(s)]) : s \in {x \in Shards : Below(x, addr) # {}}}
        hidden(s) == \E x \in firstBelow : Addr(tab[s].a2l[start(s)]) < x
    IN [s \in Shards |->
          IF tab[s].a2l = <<>> THEN <<>>
          ELSE SubSeq(tab[s].a2l, IF hidden(s) THEN start(s) + 1 ELSE start(s), Len(tab[s].a2l))]

\* MergeIterator: the head with the least key comes first
FirstOf(src) ==
    LET heads == {Head(src[s]) : s \in {x \in Shards : src[x] # <<>>}}
    IN IF heads = {} THEN <<>>
       ELSE CHOOSE l \in heads : \A m \in heads : SortKey(l) <= SortKey(m)

FindLine(addr) ==
    LET l == FirstOf(IterSources(addr)) IN
    IF l = <<>> \/ Addr(l) > addr \/ NoFile(l) THEN <<>> ELSE l

\* line_to_addrs(): <<"ok", entries>>, <<"next", line>> or <<"none", 0>>
ShardLine(t, file, n, stmts) ==
    LET hits == {i \in DOMAIN t.l2a :
                   /\ File(t.l2a[i]) = file /\ Line(t.l2a[i]) >= n
                   /\ stmts => IsStatement(t.l2a[i])}
    IN IF hits = {} THEN -1 ELSE Line(t.l2a[CHOOSE i \in hits : \A j \in hits : i <= j])
LineToAddrs(file, n, stmts) ==
    LET res == UNION {{l \in ToSet(tab[s].l2a) :
                        /\ File(l) = file /\ Line(l) = n
                        /\ stmts => IsStatement(l)} : s \in Shards}
        mins == {ShardLine(tab[s], file, n, stmts) : s \in Shards} \ {-1}
    IN IF res # {} THEN <<"ok", res>>
       ELSE IF mins = {} THEN <<"none", 0>>
       ELSE <<"next", CHOOSE m \in mins : \A k \in mins : m <= k>>

-----------------------------------------------------------------------------
(* What .debug_line says.                                                    *)
Files == {k[1] : k \in Kinds} \ {0}
RowsAt(s, q, a) == {i \in q[1]..(q[2] - 1) : rows[s][i].addr = a}
GoodRows(s, q) == {i \in q[1]..(q[2] - 1) : rows[s][i].kind[1] # 0 /\ rows[s][i].kind[2] # 0}
SameLine(l, k) == File(l) = k[1] /\ Line(l) = k[2]
\* a sequence without rows of unknown files or without line numbers
Tidy(s, q) == \A i \in q[1]..(q[2] - 1) : i \in GoodRows(s, q)
CallAt(s, b) == {c \in calls : c[1] = s /\ c[3] = b}

\* An instruction inside a sequence of good rows gets the line of the nearest
\* row at or below it: of the rows at that address the last that is a
\* statement, else the last.  An inlined call that ends between two rows gives
\* the instructions after it the line of the call.
RowOf(s, q, a) ==
    LET x == CHOOSE y \in {rows[s][i].addr : i \in q[1]..(q[2] - 1)} :
               y <= a /\ \A i \in q[1]..(q[2] - 1) : rows[s][i].addr <= a => rows[s][i].addr <= y
        at == RowsAt(s, q, x)
        st == {i \in at : rows[s][i].kind[4]}
        best == IF st = {} THEN at ELSE st
    IN rows[s][CHOOSE i \in best : \A j \in best : j <= i]
LinesExact ==
    \A x \in AllKept(rows), a \in Addrs :
      LET s == x[1]
          q == x[2]
          r == RowOf(s, q, a)
          cs == {c \in calls : c[1] = s /\ r.addr < c[3] /\ c[3] <= a}
          l == FindLine(a)
      IN q[3] <= a /\ a < q[4] /\ Tidy(s, q) =>
           /\ l # <<>>
           /\ cs = {} => SameLine(l, r.kind) /\ Addr(l) = r.addr /\ Column(l) = r.kind[3]
                           /\ IsStatement(l) = r.kind[4]
           /\ \A c \in cs : c[4][2] # 0 => SameLine(l, c[4]) /\ Addr(l) = c[3] /\ IsInlined(l)

\* Nothing is known of an address that no sequence covers.
GapsEmpty ==
    \A a \in Addrs : (\A x \in AllKept(rows) : ~(x[2][3] <= a /\ a < x[2][4])) => FindLine(a) = <<>>

\* A breakpoint on a line that has code goes to instructions of that line: the
\* line that is shown when the thread stops there is the line asked for, except
\* at the call of an inlined function.  A line without code is moved to the
\* next one that has some.
Settable(file, n) == UNION {{l \in ToSet(tab[s].l2a) : SameLine(l, <<file, n>>) /\ IsStatement(l)} : s \in Shards}
BreakpointsOnLines ==
    \A f \in Files, n \in 1..(2^LineBits - 1) :
      LET r == LineToAddrs(f, n, TRUE) IN
      /\ r[1] = "ok" => \A l \in r[2] :
           IF IsInlined(l)
           THEN \E c \in calls : Addr(l) = c[2] /\ f = c[4][1] /\ c[4][2] \in {0, n}
           ELSE FindLine(Addr(l)) # <<>> /\ SameLine(FindLine(Addr(l)), <<f, n>>)
      /\ r[1] = "next" => Settable(f, n) = {} /\ r[2] > n /\ LineToAddrs(f, r[2], TRUE)[1] = "ok"
                            /\ \A m \in n..(r[2] - 1) : Settable(f, m) = {}
      /\ r[1] = "none" => \A m \in n..(2^LineBits - 1) : Settable(f, m) = {}

\* Control can stop once per address: no two places of .debug_line at the same
\* instruction are offered for breakpoints.
OneStopPerAddress ==
    \A s \in Shards : \A i, j \in DOMAIN tab[s].l2a :
      LET a == tab[s].l2a[i]
          b == tab[s].l2a[j]
      IN ~IsInlined(a) /\ ~IsInlined(b) /\ Addr(a) = Addr(b) => i = j

LineTableRight ==
    /\ \A s \in Shards : ~tab[s].broken
    /\ stage = "done" => LinesExact /\ GapsEmpty /\ BreakpointsOnLines /\ OneStopPerAddress

\* A breakpoint at the call of an inlined function selects the frame of the
\* caller: the level of the call's entry is the one DW_TAG_inlined_subroutine
\* gave it (comment in parse_debug_line()).
CallLevelKept ==
    \A c \in calls : \A l \in ToSet(tab[c[1]].l2a) :
      IsInlined(l) => SubfunctionLevel(l) = c[4][4]
=============================================================================
