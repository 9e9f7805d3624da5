----------------------------- MODULE TypesLoader -----------------------------
(* Loading and deduplication of types (types.rs).  After the DIEs are read,   *)
(* types refer to each other by DIE offset; declarations are then matched     *)
(* with definitions, and all threads walk the graph of types at once, each    *)
(* from the vertices of its own units, to resolve aliases, merge equal types  *)
(* and replace offsets by pointers.  A thread may take a vertex over from one *)
(* of a lower index, and waits for one of a higher index.  Then names are     *)
(* made unique, and every type gets one.                                      *)
EXTENDS Integers, Sequences, FiniteSets, FiniteSetsExt, SequencesExt, TLC

CONSTANTS
    NumShards,      \* threads; units are dealt to them in turn
    Graphs          \* sequences of <<unit, kind, name, refs, nested types>>; the
                    \* position is the offset, offset 0 is found nowhere.
                    \* Kinds: struct, decl, alias, ptr, mptr, int, char, fn

VARIABLES
    typeStage,      \* 0: match declarations, 1: walk, 2: dedup names, 3: done
    graph,
    vertices,       \* vertices[v]: TypeLoadState
    types,          \* final types, a pointer is an index
    dedupMap,       \* set of <<DedupKey, pointer>>
    walkers,        \* walkers[t]: what is left to do and the stack of the walk
    sent,           \* names: <<name, pointer, unpriority>>; 255: of an alias
    typeNames,      \* sorted_type_names: set of <<name, suffix, pointer>>
    violated        \* an assertion failed

-----------------------------------------------------------------------------
Threads == 1..NumShards
Unit(v) == graph[v][1]
Kind(v) == graph[v][2]
Name(v) == graph[v][3]
Refs(v) == graph[v][4]
Nested(v) == graph[v][5]
ShardOf(v) == (Unit(v) % NumShards) + 1
Builtin(v) == Unit(v) = 0   \* a type of the debugger's own, in the first shard

CanHaveOwnName(kind) == kind \notin {"ptr", "fn"}
IsAlias(v) == vertices[v].alias # 0
Final(v) == vertices[v].ptr # 0
NewType(kind, name, refs, resolved) ==
    [kind |-> kind, name |-> name, refs |-> refs, nested |-> <<>>, resolved |-> resolved]
\* structs, declared or defined, are merged only with structs of the same name
DedupKey(kind, name, refs) == <<kind, IF kind \in {"struct", "decl"} THEN name ELSE "", refs>>

Init ==
    /\ typeStage = 0
    /\ graph \in Graphs
    /\ vertices = [v \in DOMAIN graph |->
                     [ptr |-> 0, waiting |-> 0, cycle |-> FALSE,
                      alias |-> IF Kind(v) = "alias" THEN Refs(v)[1] ELSE 0]]
    /\ types = <<>> /\ dedupMap = {} /\ sent = {} /\ typeNames = {}
    /\ walkers = [t \in Threads |-> [todo |-> <<>>, stack |-> <<>>, call |-> <<>>]]
    /\ violated = FALSE

-----------------------------------------------------------------------------
(* Stage 0: run_match_declarations().                                        *)
Ascending(S) == SortSeq(FoldSet(LAMBDA e, s : Append(s, e), <<>>, S), LAMBDA a, b : a < b)
Named(kind, name) == Ascending({v \in DOMAIN graph : Kind(v) = kind /\ Name(v) = name})

\* Two pointers: `def` only moves forward.  The definition of the own unit that
\* follows the declaration is preferred to one of another unit before it.
\* Mutant: the nearest definition before the declaration.
MutantNearestDef(defs, def, decl) ==
    Max({def} \cup {i \in DOMAIN defs : defs[i] < decl})
NearestDef(defs, def, decl) ==
    LET i == Max({def} \cup {j \in DOMAIN defs : defs[j] < decl}) IN
    IF i < Len(defs) /\ defs[i] < decl /\ Unit(defs[i + 1]) = Unit(decl) THEN i + 1 ELSE i
DefOf(v) ==
    LET defs == Named("struct", Name(v))
        before == SelectSeq(Named("decl", Name(v)), LAMBDA d : d <= v)
    IN IF defs = <<>> THEN 0
       ELSE defs[FoldLeft(LAMBDA def, d : NearestDef(defs, def, d), 1, before)]

\* The next thing that the walk of a thread is after.  An alias has one
\* reference; a pointer to a member function is a pointer to a function.
Wants(f) ==
    IF f.phase = "nested" THEN Nested(f.v)
    ELSE IF f.alias # 0 THEN <<f.alias>>
    ELSE IF Kind(f.v) = "mptr" /\ f.fn THEN <<Refs(f.v)[1]>>
    ELSE Refs(f.v)
Continue(w) ==
    IF w.stack = <<>>
    THEN IF w.todo = <<>> THEN [w EXCEPT !.call = <<>>]
         ELSE [w EXCEPT !.call = <<Head(w.todo), FALSE>>, !.todo = Tail(@)]
    ELSE LET f == Last(w.stack) IN
         IF Len(f.got) = Len(Wants(f)) THEN [w EXCEPT !.call = <<>>]
         ELSE [w EXCEPT !.call = <<Wants(f)[Len(f.got) + 1], f.onCycle>>]
\* dfs() returns `p`, of this kind, to its caller
Deliver(w, p, kind) ==
    IF w.stack = <<>> THEN Continue(w)
    ELSE LET f == Last(w.stack) IN
         Continue([w EXCEPT !.stack = Append(Front(w.stack),
            [f EXCEPT !.got = Append(@, p), !.fn = @ \/ (f.phase = "refs" /\ f.got = <<>> /\ kind = "fn")])])

MatchDeclarations ==
    /\ typeStage = 0
    /\ typeStage' = 1
    /\ vertices' = [v \in DOMAIN graph |->
                      IF Kind(v) = "decl" THEN [vertices[v] EXCEPT !.alias = DefOf(v)] ELSE vertices[v]]
    /\ walkers' = [t \in Threads |-> Continue(
                    [walkers[t] EXCEPT !.todo = Ascending({v \in DOMAIN graph : ShardOf(v) = t})])]
    /\ UNCHANGED <<graph, types, dedupMap, sent, typeNames, violated>>

-----------------------------------------------------------------------------
(* Stage 1: run_dfs().  What dfs() does while it holds the lock of a vertex   *)
(* is one step.                                                              *)

\* lock() gets the lock, or finds the vertex final.
\* Mutant: a vertex on the way of any other thread is waited for.
MutantLockable(v, t) ==
    Final(v) \/ vertices[v].waiting \in {0, t}
Lockable(v, t) ==
    Final(v) \/ vertices[v].waiting <= t

\* Mutant: a vertex on the way of any thread counts as a cycle.
MutantOnOwnStack(v, t) == vertices[v].waiting # 0
OnOwnStack(v, t) == vertices[v].waiting = t

Finalized(v, p, owner) == [vertices[v] EXCEPT !.ptr = p, !.waiting = owner, !.cycle = FALSE]

\* send_dedup_name() at the end of dfs(): a struct without a name is "_"
OwnName(kind, name) == IF name = "" /\ CanHaveOwnName(kind) THEN "_" ELSE name
Message(name, p, unpriority) == IF name = "" THEN {} ELSE {<<name, p, unpriority>>}
Unpriority(v) == IF Builtin(v) THEN 0 ELSE 1

Next_(t, w) == walkers' = [walkers EXCEPT ![t] = w]
Keep == UNCHANGED <<typeStage, graph, typeNames>>

\* find_and_dfs() of an offset that no unit has
VisitNowhere(t) ==
    /\ walkers[t].call[1] = 0
    /\ types' = Append(types, NewType("unknown", "bad", <<>>, TRUE))
    /\ Next_(t, Deliver(walkers[t], Len(types) + 1, "unknown"))
    /\ Keep /\ UNCHANGED <<vertices, dedupMap, sent, violated>>

VisitFinal(t) ==
    /\ walkers[t].call[1] # 0 /\ Final(walkers[t].call[1])
    /\ \E p \in {vertices[walkers[t].call[1]].ptr} : Next_(t, Deliver(walkers[t], p, types[p].kind))
    /\ Keep /\ UNCHANGED <<vertices, types, dedupMap, sent, violated>>

\* aliases that lead to each other: an unknown type
VisitAliasCycle(t, v) ==
    /\ IsAlias(v) /\ vertices[v].cycle /\ vertices[v].waiting = t
    /\ types' = Append(types, NewType("unknown", "alias cycle", <<>>, TRUE))
    /\ vertices' = [vertices EXCEPT ![v] = Finalized(v, Len(types) + 1, 0)]
    /\ Next_(t, Deliver(walkers[t], Len(types) + 1, "unknown"))
    /\ violated' = (violated \/ ~walkers[t].call[2])
    /\ Keep /\ UNCHANGED <<dedupMap, sent>>

\* A vertex that is already on the stack gets its address, to be filled in by
\* the call further up.
VisitCycle(t, v) ==
    /\ ~IsAlias(v) /\ (walkers[t].call[2] \/ OnOwnStack(v, t))
    /\ types' = Append(types, NewType("dummy", "", <<>>, FALSE))
    /\ vertices' = [vertices EXCEPT ![v] = Finalized(v, Len(types) + 1, t)]
    /\ Next_(t, Deliver(walkers[t], Len(types) + 1, "dummy"))
    /\ violated' = (violated \/ vertices[v].cycle)
    /\ Keep /\ UNCHANGED <<dedupMap, sent>>

\* Take the vertex, or take it over, and recurse.  (One without references needs
\* no recursion; the lock is then kept, and nobody sees the difference.)
Enter(t, v) ==
    /\ IF IsAlias(v) THEN ~(vertices[v].cycle /\ vertices[v].waiting = t)
       ELSE ~(walkers[t].call[2] \/ OnOwnStack(v, t))
    /\ \E onCycle \in {walkers[t].call[2] \/ OnOwnStack(v, t)} :
         /\ vertices' = [vertices EXCEPT ![v].waiting = t, ![v].cycle = onCycle]
         /\ Next_(t, Continue([walkers[t] EXCEPT !.stack = Append(@,
              [v |-> v, alias |-> vertices[v].alias, got |-> <<>>, onCycle |-> onCycle,
               phase |-> "refs", fn |-> FALSE, p |-> 0])]))
    /\ Keep /\ UNCHANGED <<types, dedupMap, sent, violated>>

Visit(t) ==
    /\ typeStage = 1 /\ walkers[t].call # <<>>
    /\ \/ VisitNowhere(t)
       \/ VisitFinal(t)
       \/ \E v \in {walkers[t].call[1]} \ {0} :
            /\ ~Final(v) /\ Lockable(v, t)
            /\ VisitAliasCycle(t, v) \/ VisitCycle(t, v) \/ Enter(t, v)

\* Back at a vertex, with what its references became.
Popped(t) == [walkers[t] EXCEPT !.stack = Front(@)]

\* An alias, or `typedef char int8_t`, which becomes a type of its own
FinishAlias(t, f, v) ==
    LET res == f.got[1]
        number == Name(v) = "int8_t" /\ types[res].kind = "char"
        p == IF number THEN Len(types) + 1 ELSE res
    IN /\ f.alias # 0
       /\ IF Final(v)
          THEN /\ Next_(t, Deliver(Popped(t), vertices[v].ptr, types[vertices[v].ptr].kind))
               /\ violated' = (violated \/ vertices[v].waiting # 0 \/ vertices[v].cycle)
               /\ UNCHANGED <<vertices, types, sent>>
          ELSE /\ types' = IF number THEN Append(types, NewType("int", "i8", <<>>, TRUE)) ELSE types
               /\ vertices' = [vertices EXCEPT ![v] = Finalized(v, p, 0)]
               /\ sent' = sent \cup
                    (IF number THEN {<<"i8", p, 1>>}
                     ELSE Message(IF Kind(v) = "decl" THEN "" ELSE Name(v), p, 255))
               /\ Next_(t, Deliver(Popped(t), p, types'[p].kind))
               /\ UNCHANGED violated
       /\ UNCHANGED dedupMap

\* The vertex is done by another thread, or by this one after it was taken over.
FinishObsolete(t, f, v) ==
    /\ f.alias = 0 /\ Final(v) /\ (vertices[v].waiting = 0 \/ vertices[v].waiting > t)
    /\ Next_(t, Deliver(Popped(t), vertices[v].ptr, types[vertices[v].ptr].kind))
    /\ UNCHANGED <<vertices, types, dedupMap, sent, violated>>

\* An equal type is there already.
Equal(key) == {d[2] : d \in {x \in dedupMap : x[1] = key}}
FinishDuplicate(t, f, v, kind) ==
    /\ f.alias = 0 /\ ~Final(v)
    /\ \E p \in Equal(DedupKey(kind, Name(v), f.got)) :
         /\ vertices' = [vertices EXCEPT ![v] = Finalized(v, p, 0)]
         /\ sent' = sent \cup (IF kind = "struct" THEN {} ELSE Message(Name(v), p, Unpriority(v)))
         /\ Next_(t, Deliver(Popped(t), p, kind))
    /\ UNCHANGED <<types, dedupMap, violated>>

\* A new type, or the one that was promised when a cycle was found; then the
\* nested names, which are found but not waited for by anyone.
FinishNew(t, f, v, kind) ==
    LET key == DedupKey(kind, Name(v), f.got)
        p == IF Final(v) THEN vertices[v].ptr ELSE Len(types) + 1
        new == NewType(kind, IF CanHaveOwnName(kind) THEN OwnName(kind, Name(v)) ELSE "", f.got, TRUE)
    IN /\ f.alias = 0
       /\ IF Final(v) THEN vertices[v].waiting # 0 /\ vertices[v].waiting <= t ELSE Equal(key) = {}
       /\ types' = IF Final(v) THEN [types EXCEPT ![p] = new] ELSE Append(types, new)
       /\ dedupMap' = IF Equal(key) = {} THEN dedupMap \cup {<<key, p>>} ELSE dedupMap
       /\ vertices' = [vertices EXCEPT ![v] = Finalized(v, p, 0)]
       /\ violated' = (violated \/ (Final(v) /\ (vertices[v].waiting # t \/ types[p].resolved)))
       /\ IF Nested(v) = <<>>
          THEN /\ Next_(t, Deliver(Popped(t), p, kind))
               /\ sent' = sent \cup Message(OwnName(kind, Name(v)), p, Unpriority(v))
          ELSE /\ Next_(t, Continue([walkers[t] EXCEPT !.stack = Append(Front(@),
                      [f EXCEPT !.phase = "nested", !.got = <<>>, !.p = p])]))
               /\ UNCHANGED sent

FinishNested(t, f, v) ==
    /\ types' = [types EXCEPT ![f.p].nested = f.got]
    /\ sent' = sent \cup Message(OwnName(types[f.p].kind, Name(v)), f.p, Unpriority(v))
    /\ Next_(t, Deliver(Popped(t), f.p, types[f.p].kind))
    /\ UNCHANGED <<vertices, dedupMap, violated>>

Finish(t) ==
    /\ typeStage = 1 /\ walkers[t].call = <<>> /\ walkers[t].stack # <<>>
    /\ \E f \in {Last(walkers[t].stack)} : \E v \in {f.v} :
         \E kind \in {IF Kind(v) = "mptr" /\ f.fn THEN "ptr" ELSE Kind(v)} :
           IF f.phase = "nested" THEN FinishNested(t, f, v)
           ELSE /\ Lockable(v, t)
                /\ \/ FinishAlias(t, f, v)
                   \/ FinishObsolete(t, f, v)
                   \/ FinishDuplicate(t, f, v, kind)
                   \/ FinishNew(t, f, v, kind)
    /\ Keep

Walked(t) == walkers[t].call = <<>> /\ walkers[t].stack = <<>>
WalkEnds ==
    /\ typeStage = 1 /\ \A t \in Threads : Walked(t)
    /\ typeStage' = 2
    /\ UNCHANGED <<graph, vertices, types, dedupMap, walkers, sent, typeNames, violated>>

-----------------------------------------------------------------------------
(* Stages 2 and 3: run_dedup_names(), run_assign_names().                    *)

\* Types of one name are told apart by "#2" etc. in the order of their
\* addresses, which is one or the other.
SuffixedNames(up) ==
    {<<m[1], Cardinality({q \in {x[2] : x \in {y \in sent : y[1] = m[1]}} :
                            IF up THEN q <= m[2] ELSE q >= m[2]}), m[2]>> : m \in sent}
DedupNames ==
    /\ typeStage = 2
    /\ \E up \in BOOLEAN : typeNames' = SuffixedNames(up)
    /\ typeStage' = 3
    /\ UNCHANGED <<graph, vertices, types, dedupMap, walkers, sent, violated>>

\* Each name of a type is sent on with its best priority.
IsAliasName(e) == \A m \in sent : m[1] = e[1] /\ m[2] = e[3] => m[3] = 255
\* The names that the type may end up with: one that is not of an alias first.
\* Mutant: whichever name comes first.
MutantAssignNames(p) == {e \in typeNames : e[3] = p}
AssignNames(p) ==
    LET all == {e \in typeNames : e[3] = p}
        own == {e \in all : ~IsAliasName(e)}
    IN IF own = {} THEN all ELSE own

TypesNext == MatchDeclarations \/ (\E t \in Threads : Visit(t) \/ Finish(t)) \/ WalkEnds \/ DedupNames

-----------------------------------------------------------------------------
Edges(v) == IF IsAlias(v) THEN {vertices[v].alias} ELSE ToSet(Refs(v)) \cup ToSet(Nested(v))
ReachableIn(v) ==
    FoldLeft(LAMBDA S, i : S \cup UNION {Edges(u) : u \in S \ {0}}, Edges(v), graph)
OnCycle(v) == v \in ReachableIn(v)
PtrOf(v) == vertices[v].ptr

\* A declaration stands for a definition of its name if there is one, of its
\* own unit if that has one.
DeclarationsMatched ==
    \A v \in DOMAIN graph : Kind(v) = "decl" =>
      LET defs == {d \in DOMAIN graph : Kind(d) = "struct" /\ Name(d) = Name(v)}
          near == {d \in defs : Unit(d) = Unit(v)}
      IN IF defs = {} THEN ~IsAlias(v)
         ELSE vertices[v].alias \in (IF near # {} THEN near ELSE defs)

\* Threads that wait for each other never all wait.
SomeoneMoves ==
    typeStage = 1 /\ (\E t \in Threads : ~Walked(t)) =>
      \E t \in Threads :
        \/ walkers[t].call # <<>>
           /\ (walkers[t].call[1] = 0 \/ Lockable(walkers[t].call[1], t))
        \/ walkers[t].call = <<>> /\ walkers[t].stack # <<>>
           /\ (Last(walkers[t].stack).phase = "nested" \/ Lockable(Last(walkers[t].stack).v, t))

\* The final types are the types of the program, whoever resolved them: what a
\* type refers to is what became of what it referred to, no address that was
\* promised is left empty, and nobody is left with a vertex taken from it.
Resolved(v) ==
    LET T == types[PtrOf(v)]
        member == Kind(v) = "mptr" /\ types[T.refs[1]].kind = "fn"
        refs == IF member THEN <<Refs(v)[1]>> ELSE Refs(v)
    IN /\ T.resolved
       /\ T.kind = (IF member THEN "ptr" ELSE Kind(v))
       /\ Len(T.refs) = Len(refs)
       /\ \A k \in DOMAIN refs : IF refs[k] = 0 THEN types[T.refs[k]].name = "bad"
                                 ELSE T.refs[k] = PtrOf(refs[k])
       /\ Kind(v) \in {"struct", "decl"} => T.name = OwnName("struct", Name(v))
StructureKept ==
    typeStage > 1 => \A v \in DOMAIN graph :
      /\ Final(v) /\ vertices[v].waiting = 0
      /\ IF ~IsAlias(v) THEN Resolved(v)
         ELSE \/ PtrOf(v) = PtrOf(vertices[v].alias)
              \/ types[PtrOf(v)].name = "i8" /\ types[PtrOf(vertices[v].alias)].kind = "char"
              \/ types[PtrOf(v)].name = "alias cycle"

\* Equal types are one, except those that had to be promised.
EqualAreOne ==
    typeStage > 1 => \A v, w \in DOMAIN graph :
      (/\ Kind(v) = Kind(w) /\ Kind(v) \notin {"alias", "decl"}
       /\ types[PtrOf(v)].refs = types[PtrOf(w)].refs
       /\ types[PtrOf(v)].name = types[PtrOf(w)].name
       /\ ~OnCycle(v) /\ ~OnCycle(w)) => PtrOf(v) = PtrOf(w)

\* A name finds one type; the name that a struct is shown under finds that struct,
\* and is its own rather than an alias if it has one.
NamesLead ==
    typeStage = 3 =>
      /\ \A a, b \in typeNames : (a[1] = b[1] /\ a[2] = b[2]) => a = b
      /\ \A m \in sent : \E e \in typeNames : e[1] = m[1] /\ e[2] = 1
      /\ \A v \in DOMAIN graph : Kind(v) = "struct" =>
           /\ AssignNames(PtrOf(v)) # {}
           /\ \A e \in AssignNames(PtrOf(v)) :
                \E w \in DOMAIN graph :
                   /\ PtrOf(w) = PtrOf(v)
                   /\ \/ Kind(w) = "struct" /\ OwnName("struct", Name(w)) = e[1]
                      \/ Name(v) = "" /\ Kind(w) = "alias" /\ Name(w) = e[1]

TypesRight ==
    /\ ~violated
    /\ typeStage > 0 => DeclarationsMatched
    /\ SomeoneMoves /\ StructureKept /\ EqualAreOne /\ NamesLead

\* "if a struct has no name but has a named typedef, promote the typedef name
\* to struct name" (comment on run_assign_names()).
TypedefPromoted ==
    typeStage = 3 => \A v, w \in DOMAIN graph :
      (Kind(v) = "struct" /\ Name(v) = "" /\ Kind(w) = "alias" /\ Name(w) # "" /\ PtrOf(w) = PtrOf(v))
      => \A e \in AssignNames(PtrOf(v)) : e[1] # "_"

\* "On name collisions, prefer debugger's built-in types over debuggee's types."
\* (comment in name_dedup_unpriority())
BuiltinPreferred ==
    typeStage = 3 => \A v \in DOMAIN graph :
      Builtin(v) /\ Name(v) # "" => <<Name(v), 1, PtrOf(v)>> \in typeNames
=============================================================================
