---------------------------- MODULE FunctionIndex ----------------------------
(* The table of functions of a binary in symbols.rs: entries from .debug_info *)
(* (one per address range, the ranges of a function linked in a ring),        *)
(* .symtab and sections, collected by the loading threads, sorted, merged and *)
(* deduplicated by address; and the lookups by address, by name and by the    *)
(* DIE of an inlined function.  A function ends where the next entry starts,  *)
(* so sentinels mark the ends of sections and of the last function.           *)
EXTENDS Integers, Sequences, FiniteSets, SequencesExt, FiniteSetsExt, TLC

CONSTANTS
    NumShards,
    LastAddr,       \* addresses are 1..LastAddr
    Texts,          \* <<start, end>> that the .text section may have
    Names,
    MaxFunctions    \* entries of .debug_info and .symtab together

VARIABLES
    shards,         \* shards[s]: FunctionInfo-s in the order they were found
    maxEnd,         \* max_function_end
    textSection,           \* the .text section
    functions,      \* the final table
    dieToFunction,  \* set of <<die, index in functions>>
    found           \* what was found: <<kind, die, name, ranges>>

-----------------------------------------------------------------------------
FUNCTION_ADDR_MAX == LastAddr + 2
IsAddr(a) == a < FUNCTION_ADDR_MAX
NoDie == 0

Entry(kind, addr, prev, die, name, inlined) ==
    [kind |-> kind, addr |-> addr, prev |-> prev, die |-> die, name |-> name, inlined |-> inlined]
Sentinel(addr) == Entry("sentinel", addr, addr, NoDie, "", FALSE)

NextDie == Cardinality(found) + 1
Room == functions = <<>> /\ Cardinality(found) < MaxFunctions
Ranges == {<<a, b>> \in (1..LastAddr) \X (2..(LastAddr + 1)) : a < b}

\* parse_misc_sections(): .text as a function, and a sentinel at its end
Init ==
    /\ textSection \in Texts
    /\ shards = [s \in 1..NumShards |-> IF s = 1
                   THEN <<Entry("section", textSection[1], textSection[1], NoDie, ".text", FALSE), Sentinel(textSection[2])>>
                   ELSE <<>>]
    /\ maxEnd = 0
    /\ functions = <<>>
    /\ dieToFunction = {}
    /\ found = {}

\* DW_TAG_subprogram with code: an entry for each range.  The ranges of a
\* function are apart and no two functions overlap, except that several may be
\* folded into one piece of code.
ParseSubprogram ==
    /\ Room
    /\ \E s \in 1..NumShards, n \in Names, i \in BOOLEAN, r \in Ranges, q \in Ranges :
         /\ q = r \/ r[2] < q[1]
         /\ \A f \in found : f[1] = "dwarf" =>
              \/ f[4] = {r, q}
              \/ \A x \in f[4], y \in {r, q} : x[2] <= y[1] \/ y[2] <= x[1]
         /\ shards' = [shards EXCEPT ![s] = @ \o
              (IF q = r THEN <<Entry("dwarf", r[1], r[1], NextDie, n, i)>>
               ELSE <<Entry("dwarf", r[1], q[1], NextDie, n, i),
                      Entry("dwarf", q[1], r[1], NextDie, n, i)>>)]
         /\ maxEnd' = Max({maxEnd, r[2], q[2]})
         /\ found' = found \cup {<<"dwarf", NextDie, n, {r, q}>>}
    /\ UNCHANGED <<textSection, functions, dieToFunction>>

\* DW_TAG_subprogram that exists only inlined into others
ParseInlineOnly ==
    /\ Room
    /\ \E s \in 1..NumShards, n \in Names : \E a \in {FUNCTION_ADDR_MAX + NextDie} :
         /\ shards' = [shards EXCEPT ![s] = Append(@, Entry("inline", a, a, NextDie, n, TRUE))]
         /\ found' = found \cup {<<"inline", NextDie, n, {}>>}
    /\ UNCHANGED <<maxEnd, textSection, functions, dieToFunction>>

\* parse_symtab(): sizes are not trusted
ParseSymtab ==
    /\ Room
    /\ \E s \in 1..NumShards, n \in Names, a \in 1..LastAddr :
         /\ shards' = [shards EXCEPT ![s] = Append(@, Entry("symtab", a, a, NoDie, n, FALSE))]
         /\ found' = found \cup {<<"symtab", NextDie, n, {<<a, a + 1>>}>>}
    /\ UNCHANGED <<maxEnd, textSection, functions, dieToFunction>>

-----------------------------------------------------------------------------
\* Mutant: end markers come before functions that start there.
MutantFunctionSortingKey(f) ==
    f.addr * 4 + (IF f.kind = "sentinel" THEN 0 ELSE 2) + (IF f.kind = "symtab" THEN 1 ELSE 0)
FunctionSortingKey(f) ==
    f.addr * 4 + (IF f.kind = "sentinel" THEN 2 ELSE 0) + (IF f.kind = "symtab" THEN 1 ELSE 0)

\* dedup_by_key(addr): of adjacent entries of one address the first is kept.
Deduplicated(fs) ==
    FoldLeft(LAMBDA kept, f :
               IF kept # <<>> /\ Last(kept).addr = f.addr THEN kept ELSE Append(kept, f),
             <<>>, fs)

\* sort_functions().  Neither the sort nor the merge is stable: entries with equal
\* keys come in any order; `flip` is one order or the other.
SortFunctions(s, flip) ==
    Deduplicated(SortSeq(shards[s], LAMBDA a, b :
        \/ FunctionSortingKey(a) < FunctionSortingKey(b)
        \/ /\ FunctionSortingKey(a) = FunctionSortingKey(b)
           /\ IF flip THEN a.die > b.die ELSE a.die < b.die))

\* MergeIterator: the smallest head is taken, whether its source is sorted or not.
RECURSIVE Merged(_, _)
Merged(sources, flip) ==
    LET live == {i \in DOMAIN sources : sources[i] # <<>>}
        key(i) == FunctionSortingKey(Head(sources[i]))
        least == {i \in live : \A j \in live : key(i) <= key(j)}
        src == IF flip THEN Max(least) ELSE Min(least)
    IN  IF live = {} THEN <<>>
        ELSE <<Head(sources[src])>> \o Merged([sources EXCEPT ![src] = Tail(@)], flip)

\* Not sorted if a function ends after .text.
AdditionalFunctions ==
    <<Sentinel(maxEnd)>> \o (IF textSection[2] = maxEnd THEN <<>> ELSE <<Sentinel(textSection[2])>>)

\* INLINED functions are found by their DIE
DieToFunction(fs) == {<<fs[i].die, i>> : i \in {j \in DOMAIN fs : fs[j].inlined}}

DedupFunctions ==
    /\ functions = <<>>
    /\ \E flip \in BOOLEAN :
         \E fs \in {Deduplicated(Merged(
                      [s \in 1..(NumShards + 1) |-> IF s > NumShards THEN AdditionalFunctions
                                                     ELSE SortFunctions(s, flip)], flip))} :
           /\ functions' = fs
           /\ dieToFunction' = DieToFunction(fs)
    /\ UNCHANGED <<shards, maxEnd, textSection, found>>

FunctionIndexNext == ParseSubprogram \/ ParseInlineOnly \/ ParseSymtab \/ DedupFunctions

-----------------------------------------------------------------------------
(* Lookups.  0 stands for an error.                                          *)

\* partition_point(): in a table that is not sorted, the search may end at any
\* place where an entry below a is followed by one that is not; `late` is the last
\* of them or the first.
PartitionPoint(a, late) ==
    LET ends == {n \in 0..Len(functions) :
                    /\ n = 0 \/ functions[n].addr < a
                    /\ n = Len(functions) \/ functions[n + 1].addr >= a}
    IN  IF late THEN Max(ends) ELSE Min(ends)
\* the entry of this address that belongs to the same function, or 0
LinkedTo(idx, a, late) ==
    LET i == PartitionPoint(a, late) + 1 IN
    IF i + 1 > Len(functions) \/ functions[i].addr # a
         \/ functions[i].die # functions[idx].die THEN 0 ELSE i

\* Follow the ring to the first range; it has at most one step per entry.
\* Mutant: the ring is followed one step at most from any entry.
MutantFirstRange(idx, late) ==
    IF functions[idx].prev = functions[idx].addr \/ LinkedTo(idx, functions[idx].prev, late) = 0
    THEN idx ELSE LinkedTo(idx, functions[idx].prev, late)
FirstRange(idx, late) ==
    FoldLeft(LAMBDA i, step :
               IF functions[i].prev >= functions[i].addr \/ LinkedTo(i, functions[i].prev, late) = 0
               THEN i ELSE LinkedTo(i, functions[i].prev, late),
             idx, functions)

AddrToFunction(a, late) ==
    LET n == PartitionPoint(a + 1, late) IN
    IF n = 0 \/ n = Len(functions) THEN 0
    ELSE IF ~IsAddr(functions[n + 1].addr) \/ functions[n].kind = "sentinel" THEN 0
    ELSE FirstRange(n, late)

\* function_addr_ranges(): [ranges, broken]; broken is a panic
AddRange(acc, late) ==
    LET i == acc.at
        end == IF i < Len(functions) THEN functions[i + 1].addr ELSE FUNCTION_ADDR_MAX
        next == LinkedTo(i, functions[i].prev, late)
    IN [ranges |-> acc.ranges \cup {<<functions[i].addr, end>>},
        broken |-> acc.broken \/ functions[i].kind = "sentinel" \/ ~IsAddr(end),
        at |-> IF next = 0 THEN 0
               ELSE IF functions[next].prev >= functions[next].addr THEN 0 ELSE next]
FunctionAddrRanges(idx, late) ==
    FoldLeft(LAMBDA acc, step : IF acc.at = 0 THEN acc ELSE AddRange(acc, late),
             [ranges |-> {}, broken |-> FALSE,
              at |-> IF IsAddr(functions[idx].addr) THEN idx ELSE 0], functions)

\* build_name_to_function_map(): every shard takes a part of the table
PartOf(s) ==
    ((Len(functions) * (s - 1)) \div NumShards + 1)..((Len(functions) * s) \div NumShards)
\* find_nearest_function(): in each part the neighbours of (name, addr)
Nearest(name, addr) ==
    LET named(s) == {i \in PartOf(s) : functions[i].name = name}
        up(s) == {i \in named(s) : functions[i].addr >= addr}
        down(s) == {i \in named(s) : functions[i].addr < addr}
        cands == UNION {(IF up(s) = {} THEN {} ELSE {Min(up(s))})
                        \cup (IF down(s) = {} THEN {} ELSE {Max(down(s))}) : s \in 1..NumShards}
        dist(i) == IF functions[i].addr >= addr THEN functions[i].addr - addr
                   ELSE addr - functions[i].addr
    IN IF cands = {} THEN 0
       ELSE Min({i \in cands : \A j \in cands : dist(i) <= dist(j)})

\* fixup_function_refs(): the function that an inlined call names
CalleeIdx(die) ==
    LET is == {d[2] : d \in {x \in dieToFunction : x[1] = die}} IN IF is = {} THEN 0 ELSE Min(is)

-----------------------------------------------------------------------------
Starts(f) == {r[1] : r \in f[4]}
Dwarf == {f \in found : f[1] = "dwarf"}
\* no other function of .debug_info is folded into this one
Alone(f) == \A g \in Dwarf : g # f => Starts(g) \cap Starts(f) = {}
StartsAt(a) == {i \in DOMAIN functions : functions[i].addr = a}

\* Every search below a is one of a sorted table: the entry of the end of .text that
\* dedup_functions() puts after a function beyond .text is not below a.
SearchedInOrder(a) == maxEnd <= textSection[2] \/ a <= textSection[2]

\* Code described by .debug_info is found under its function wherever it was
\* put: any address of any of the ranges leads to the same entry, and from it
\* to all the ranges (a symbol inside the range takes what follows it).  The
\* start of .text is left out: there .text itself may be kept instead.  Code after
\* .text may not be found, but never under another function.
CodeFound ==
    \A f \in Dwarf : Alone(f) /\ textSection[1] \notin Starts(f) =>
      \A r \in f[4], a \in 1..LastAddr, late \in BOOLEAN :
        LET idx == AddrToFunction(a, late) IN
        (/\ r[1] <= a /\ a < r[2]
         /\ \A i \in DOMAIN functions : r[1] < functions[i].addr => a < functions[i].addr)
        => /\ idx # 0 => functions[idx].die = f[2]
           /\ SearchedInOrder(a + 1) => idx # 0 /\ functions[idx].addr = Min(Starts(f))
           /\ (\A x \in Starts(f) : SearchedInOrder(x)) /\ SearchedInOrder(a + 1) =>
                 {x[1] : x \in FunctionAddrRanges(idx, late).ranges} = Starts(f)

\* Whatever address the lookups are asked for, a function they return ends.
LookupsSafe ==
    \A a \in 1..(LastAddr + 1), late \in BOOLEAN :
      LET idx == AddrToFunction(a, late) IN
      idx # 0 => /\ functions[idx].kind # "sentinel"
                 /\ ~FunctionAddrRanges(idx, late).broken

\* Nothing past the end of the code is taken for a part of the last function.
EndsMarked ==
    \A a \in 1..(LastAddr + 1) :
      (a >= maxEnd /\ a >= textSection[2] /\ \A f \in found : \A r \in f[4] : a >= r[2] \/ f[1] = "symtab")
      /\ (\A f \in found : f[1] = "symtab" => \A r \in f[4] : r[1] < maxEnd \/ r[1] < textSection[2])
      => \A late \in BOOLEAN : AddrToFunction(a, late) = 0

\* A saved position finds the nearest function of its name, in whichever part
\* of the table it is; an inlined call finds its function if it was kept.
NamesFound ==
    \A n \in Names, a \in 1..LastAddr :
      LET i == Nearest(n, a)
          same == {j \in DOMAIN functions : functions[j].name = n}
      IN IF i = 0 THEN same = {}
         ELSE i \in same /\ \A j \in same :
                (functions[j].addr - a) * (functions[j].addr - a)
                  >= (functions[i].addr - a) * (functions[i].addr - a)
CalleesFound ==
    /\ \A d \in 1..MaxFunctions : CalleeIdx(d) # 0 => functions[CalleeIdx(d)].die = d
    /\ \A f \in found : f[1] = "inline" => CalleeIdx(f[2]) # 0

FunctionIndexRight ==
    functions # <<>> => CodeFound /\ LookupsSafe /\ EndsMarked /\ NamesFound /\ CalleesFound

\* Every function that has code has an end: the entry that follows it (comment
\* on FunctionInfo::addr).  The list of functions can be opened at any of them.
EveryFunctionEnds ==
    \A i \in DOMAIN functions :
      functions[i].kind # "sentinel" => ~FunctionAddrRanges(i, FALSE).broken
=============================================================================
