------------------------------- MODULE DieWalk -------------------------------
(* DwarfLoader::load() of symbols.rs: one unit of .debug_info is read as a   *)
(* flat list of entries (DIEs) in depth-first order, and what encloses the   *)
(* current one is known only from stacks: the main stack has every open DIE, *)
(* with flags that say which of the other stacks (scope names, address       *)
(* ranges, functions, subfunctions, types) the DIE pushed to.                *)
(* Entries are written by the compiler: any tree over a vocabulary of tags.  *)
(* The ranges, names and types of a DIE are its number.  finish_function()'s *)
(* sweep over the ranges is in Subfunctions, line numbers are in LineTable.  *)
EXTENDS Integers, Sequences, FiniteSets, SequencesExt

CONSTANTS
    Vocabularies,   \* set of <<tags, number of DIEs below the unit>>
    MaxLevel        \* SUBFUNCTION_LEVEL_MAX

VARIABLES
    dieTags,
    ld,         \* the DwarfLoader: its stacks, and what it has put out
    dieTree,       \* <<die, tag>> from the unit to the current entry, and whether
                \* the entry is still open: what the list of entries means
    said,       \* what the entries so far say, read off `tree`
    dies        \* number of the last DIE

-----------------------------------------------------------------------------
(* Tags with the attributes that matter:                                     *)
(*   func, decl, inl   DW_TAG_subprogram with ranges; without; without ranges*)
(*                     but with DW_AT_inline                                 *)
(*   call, call0       DW_TAG_inlined_subroutine with and without ranges     *)
(*   block, block0     DW_TAG_lexical_block                                  *)
(*   var, wide, list, param, extern   DW_TAG_variable with an expression; a  *)
(*                     location list beyond the function; one inside it;     *)
(*                     DW_TAG_formal_parameter with a location list; nothing *)
(*   struct, array, typedef, member, static, part, variant, sub, tparam      *)
(*   ns, anon, skip    namespaces; DW_TAG_call_site                          *)
Functions == {"func", "decl", "inl"}
Types == {"struct", "array"}

Top(s) == s[Len(s)]
Cur == Top(ld.main)

\* load(): sentinels, so that no stack is ever empty
Empty ==
    [main |-> <<[die |-> 0, tag |-> "root", has |-> {}, in |-> "none", valid |-> TRUE]>>,
     scope |-> <<<<0, TRUE>>>>, ranges |-> <<{}>>,
     subf |-> <<[idx |-> 0, level |-> 0, vars |-> {}]>>,
     funcs |-> <<>>, types |-> <<>>, name |-> <<>>, skip |-> 0, kids |-> TRUE,
     functions |-> {}, subs |-> {}, locals |-> {}, globals |-> {}, fields |-> {},
     nested |-> {}, named |-> {}, dims |-> {}, fault |-> FALSE]

\* FastStack::push_uninit() marks the DIE on the main stack
Mark(w, what) ==
    [w EXCEPT !.main[Len(w.main)].has = @ \cup {what},
              !.fault = @ \/ what \in Top(w.main).has]
PushRanges(w, rs) == Mark([w EXCEPT !.ranges = Append(@, rs)], "ranges")

\* append_namespace_to_scope_name()
AppendScope(w, s, linkable) ==
    LET u == IF "scope" \in Top(w.main).has
             THEN [w EXCEPT !.scope[Len(w.scope)][2] = @ /\ linkable]
             ELSE Mark([w EXCEPT !.scope = Append(@, <<Len(w.name), Top(@)[2] /\ linkable>>)],
                       "scope")
    IN [u EXCEPT !.name = Append(@, s)]

SetScope(w, in, valid) ==
    [w EXCEPT !.main[Len(w.main)].in = in, !.main[Len(w.main)].valid = valid]
InFunction(w) == Top(w.main).in = "function"
InType(w) == Top(w.main).in = "type" /\ Top(w.main).valid

-----------------------------------------------------------------------------
(* Leaving a DIE.                                                            *)
\* finish_subfunction()
FinishSubfunction(w) ==
    LET top == Top(w.subf)
        f == Top(w.funcs)
    IN IF w.funcs = <<>> \/ top.idx \notin DOMAIN f.subs THEN [w EXCEPT !.fault = TRUE]
       ELSE [w EXCEPT !.subf = Front(@),
                      !.locals = @ \cup {<<f.subs[top.idx][1], v[1], v[2]>> : v \in top.vars}]

\* finish_function(): inline-only functions have no subfunctions
FinishFunction(w) ==
    LET f == Top(w.funcs) IN
    IF w.funcs = <<>> THEN [w EXCEPT !.fault = TRUE]
    ELSE [w EXCEPT !.funcs = Front(@),
                   !.subs = @ \cup {<<f.die, f.subs[i][1], f.subs[i][3],
                       IF f.subs[i][2] = 0 THEN 0 ELSE f.subs[f.subs[i][2]][1]>> : i \in DOMAIN f.subs}]

\* finish_type()
FinishType(w) ==
    [w EXCEPT !.types = Front(@),
              !.nested = @ \cup {<<Top(w.types).die, x>> : x \in Top(w.types).nested}]

\* Mutant: the flags of a variant stay on after it.
MutantUnwind(w, top) ==
    LET has(x) == x \in top.has
        a == IF has("scope")
             THEN [w EXCEPT !.name = SubSeq(@, 1, Top(w.scope)[1]), !.scope = Front(@)] ELSE w
        b == IF has("ranges") THEN [a EXCEPT !.ranges = Front(@)] ELSE a
        c == IF has("subfunction") THEN FinishSubfunction(b) ELSE b
        d == IF has("function") THEN FinishFunction(c) ELSE c
    IN IF has("type") THEN FinishType(d) ELSE d

\* The other stacks follow the flags of the DIE that is left.
Unwind(w, top) ==
    LET has(x) == x \in top.has
        a == IF has("scope")
             THEN [w EXCEPT !.name = SubSeq(@, 1, Top(w.scope)[1]), !.scope = Front(@)] ELSE w
        b == IF has("ranges") THEN [a EXCEPT !.ranges = Front(@)] ELSE a
        c == IF has("subfunction") THEN FinishSubfunction(b) ELSE b
        d == IF has("function") THEN FinishFunction(c) ELSE c
        e == IF has("type") THEN FinishType(d) ELSE d
    IN IF has("variant") THEN [e EXCEPT !.types[Len(e.types)].variant = 0] ELSE e

\* The previous entry had no children, or was the null that ends a list.
Popped(w) ==
    IF w.kids THEN w
    ELSE LET u == [w EXCEPT !.main = Front(@)] IN
         IF w.skip = 0 THEN Unwind(u, Top(w.main))
         ELSE IF Len(u.main) < w.skip THEN [u EXCEPT !.skip = 0] ELSE u

-----------------------------------------------------------------------------
(* Entering a DIE: the arms of load()'s match.                               *)
\* add_variable_locations(): a location list is "wide" if it reaches beyond
\* the ranges of the function at ranges_stack_idx
AddVariable(w, die, loc) ==
    LET top == Top(w.main)
        local == top.in = "function" /\ top.valid
        ranges == IF loc = "var" THEN {<<die, r>> : r \in Top(w.ranges)} ELSE {<<die, -1>>}
        global == IF loc = "var" THEN top.in # "function"
                  ELSE top.in # "function" \/ ~(loc = "param" \/ (loc = "list" /\ top.valid))
        u == IF local THEN [w EXCEPT !.subf[Len(w.subf)].vars = @ \cup ranges] ELSE w
        v == IF w.name = <<>> THEN u ELSE AppendScope(u, die, FALSE)
    IN IF ~global THEN u
       ELSE [v EXCEPT !.globals = @ \cup {<<die, w.name>>},
                      !.types = IF InType(w) THEN [@ EXCEPT ![Len(@)].nested = @ \cup {die}] ELSE @]

Variable(w, die, tag) == IF tag = "extern" THEN w ELSE AddVariable(w, die, tag)

Unit(w, die) == SetScope(PushRanges(w, {die}), "none", Top(w.main).valid)

Namespace(w, die, tag) == AppendScope(w, die, tag = "ns")

Subprogram(w, die, tag) ==
    LET a == SetScope(PushRanges(w, IF tag = "func" THEN {die} ELSE {}), "function", FALSE)
        b == Mark([a EXCEPT !.funcs = Append(@, [die |-> die, subs |-> <<>>,
                                                 rangesIdx |-> Len(a.ranges)]),
                            !.functions = @ \cup {<<die, tag>>}], "function")
        c == SetScope(Mark([b EXCEPT
                 !.funcs[Len(b.funcs)].subs = <<<<die, 0, 0>>>>,
                 !.subf = Append(@, [idx |-> 1, level |-> 0, vars |-> {}])], "subfunction"),
               "function", TRUE)
    IN AppendScope(CASE tag = "decl" -> a [] tag = "inl" -> b [] tag = "func" -> c, die, FALSE)

\* Mutant: a call that is nested too deep stays a valid scope.
MutantInlinedSubroutine(w, die, tag) ==
    LET a == PushRanges(w, IF tag = "call" THEN {die} ELSE {})
        parent == Top(w.subf)
        level == parent.level + 1
        n == Len(Top(w.funcs).subs) + 1
    IN IF ~(InFunction(w) /\ Top(w.main).valid) THEN w
       ELSE IF level >= MaxLevel THEN a
       ELSE Mark([a EXCEPT
              !.funcs[Len(w.funcs)].subs = Append(@, <<die, parent.idx, level>>),
              !.subf = Append(@, [idx |-> n, level |-> level, vars |-> {}])], "subfunction")

InlinedSubroutine(w, die, tag) ==
    LET a == PushRanges(w, IF tag = "call" THEN {die} ELSE {})
        parent == Top(w.subf)
        level == parent.level + 1
        n == Len(Top(w.funcs).subs) + 1
    IN IF ~(InFunction(w) /\ Top(w.main).valid) THEN w
       ELSE IF level >= MaxLevel THEN SetScope(a, "function", FALSE)
       ELSE Mark([a EXCEPT
              !.funcs[Len(w.funcs)].subs = Append(@, <<die, parent.idx, level>>),
              !.subf = Append(@, [idx |-> n, level |-> level, vars |-> {}])], "subfunction")

LexicalBlock(w, die, tag) == IF tag = "block" THEN PushRanges(w, {die}) ELSE w

\* A named type; an alias (typedef) is no scope of its own.
TypeDie(w, die, tag) ==
    LET a == AppendScope(w, die, TRUE)
        n == Len(w.types)
        b == [a EXCEPT !.named = @ \cup {<<die, a.name, Top(a.scope)[2]>>}]
        c == SetScope(Mark([b EXCEPT !.types = Append(@, [die |-> die, tag |-> tag, nested |-> {},
                                          discr |-> FALSE, variant |-> 0, dims |-> 0])], "type"),
               "type", TRUE)
        d == IF tag = "typedef" THEN b ELSE c
        up == w.main[Len(w.main) - 1]
    IN IF up.in = "type" /\ up.valid
       THEN [d EXCEPT !.types[n].nested = @ \cup {die}] ELSE d

\* DW_TAG_member and DW_TAG_inheritance
Field(w, die, tag) ==
    IF ~InType(w) THEN w
    ELSE IF tag = "static" THEN AddVariable(w, die, "var")
    ELSE IF Top(w.types).tag # "struct" THEN w
    ELSE [w EXCEPT !.fields = @ \cup {<<Top(w.types).die, die, Top(w.types).variant>>}]

VariantPart(w) ==
    IF ~InType(w) THEN w ELSE [w EXCEPT !.types[Len(w.types)].discr = TRUE]

Variant(w, die) ==
    IF ~InType(w) \/ ~Top(w.types).discr \/ Top(w.types).variant # 0 THEN w
    ELSE Mark([w EXCEPT !.types[Len(w.types)].variant = die], "variant")

\* The first DW_TAG_subrange_type is the length of the array, a further one
\* that of a new array inside it, which takes its place on the stack.
Subrange(w, die) ==
    IF ~InType(w) \/ Top(w.types).tag # "array" THEN w
    ELSE [w EXCEPT
           !.dims = @ \cup {<<IF Top(w.types).dims = 0 THEN 0 ELSE Top(w.types).die,
                              IF Top(w.types).dims = 0 THEN Top(w.types).die ELSE die, die>>},
           !.types[Len(w.types)].dims = @ + 1,
           !.types[Len(w.types)].die = IF Top(w.types).dims = 0 THEN @ ELSE die]

SkipTree(w) == [w EXCEPT !.skip = Len(w.main)]

TemplateTypeParameter(w, die) ==
    IF ~InType(w) THEN SkipTree(w)
    ELSE [w EXCEPT !.types[Len(w.types)].nested = @ \cup {die}]

Entered(w, die, tag, kids) ==
    LET u == [w EXCEPT !.kids = kids,
                       !.main = Append(@, [die |-> die, tag |-> tag, has |-> {},
                                           in |-> Top(@).in, valid |-> Top(@).valid])]
    IN IF w.skip # 0 THEN u
       ELSE CASE tag = "unit" -> Unit(u, die)
              [] tag \in {"ns", "anon"} -> Namespace(u, die, tag)
              [] tag \in {"var", "wide", "list", "param", "extern"} -> Variable(u, die, tag)
              [] tag \in Functions -> Subprogram(u, die, tag)
              [] tag \in Types \cup {"typedef"} -> TypeDie(u, die, tag)
              [] tag \in {"member", "static"} -> Field(u, die, tag)
              [] tag = "part" -> VariantPart(u)
              [] tag = "variant" -> Variant(u, die)
              [] tag = "sub" -> Subrange(u, die)
              [] tag \in {"block", "block0"} -> LexicalBlock(u, die, tag)
              [] tag \in {"call", "call0"} -> InlinedSubroutine(u, die, tag)
              [] tag = "tparam" -> TemplateTypeParameter(u, die)
              [] tag = "skip" -> SkipTree(u)

-----------------------------------------------------------------------------
(* What the tree means: the place of a DIE is given by its ancestors.        *)
Nearest(p, tags) ==
    LET is == {i \in DOMAIN p : p[i][2] \in tags} IN
    IF is = {} THEN 0 ELSE CHOOSE i \in is : \A j \in is : j <= i
Between(p, i, tags) == {j \in (i + 1)..Len(p) : p[j][2] \in tags}
Ignored(p) == Nearest(p, {"skip"}) # 0
ScopeAt(p) == Nearest(p, Functions \cup Types)
InCode(p) == ScopeAt(p) # 0 /\ p[ScopeAt(p)][2] \in Functions
\* in code that exists and is not nested too deep
Live(p) ==
    /\ InCode(p) /\ p[ScopeAt(p)][2] = "func"
    /\ Cardinality(Between(p, ScopeAt(p), {"call", "call0"})) < MaxLevel
TypeOf(p) == IF ScopeAt(p) # 0 /\ p[ScopeAt(p)][2] \in Types THEN p[ScopeAt(p)][1] ELSE 0
\* the innermost ancestor that says where the code is
RangeOf(p) ==
    LET i == Nearest(p, {"func", "decl", "inl", "block", "call", "call0"}) IN
    IF p[i][2] \in {"func", "block", "call"} THEN {p[i][1]} ELSE {}
\* the innermost call, or the function
CallOf(p) == p[Nearest(p, {"func", "call", "call0"})][1]
Names(p) ==
    LET s == SelectSeq(p, LAMBDA x : x[2] \in {"ns", "anon", "typedef"} \cup Functions \cup Types)
    IN [i \in DOMAIN s |-> s[i][1]]
VariantOf(p) ==
    LET vs == Between(p, Nearest(p, Types), {"variant"}) IN
    IF vs = {} THEN 0 ELSE p[CHOOSE j \in vs : \A k \in vs : j <= k][1]

LocalsOf(p, die, tag) ==
    IF ~Live(p) THEN {}
    ELSE IF tag = "var" THEN {<<CallOf(p), die, r>> : r \in RangeOf(p)}
    ELSE {<<CallOf(p), die, -1>>}
IsGlobal(p, tag) ==
    \/ ~InCode(p)
    \/ tag = "wide"
    \/ tag = "list" /\ ~Live(p)
Means(p, die, tag) ==
    [locals |-> IF tag \in {"var", "wide", "list", "param"} THEN LocalsOf(p, die, tag) ELSE {},
     globals |-> IF (tag \in {"var", "wide", "list", "param"} /\ IsGlobal(p, tag))
                    \/ (tag = "static" /\ TypeOf(p) # 0)
                 THEN {<<die, Names(p)>>} ELSE {},
     fields |-> IF tag = "member" /\ TypeOf(p) # 0 /\ p[ScopeAt(p)][2] = "struct"
                THEN {<<TypeOf(p), die, VariantOf(p)>>} ELSE {},
     named |-> IF tag \in Types \cup {"typedef"}
               THEN {<<die, Append(Names(p), die),
                       \A i \in DOMAIN p : p[i][2] \notin {"anon"} \cup Functions>>} ELSE {},
     subs |-> IF tag = "func" THEN {<<die, die, 0, 0>>}
              ELSE IF tag \in {"call", "call0"} /\ Live(p)
                      /\ Cardinality(Between(p, ScopeAt(p), {"call", "call0"})) + 1 < MaxLevel
              THEN {<<p[ScopeAt(p)][1], die,
                      Cardinality(Between(p, ScopeAt(p), {"call", "call0"})) + 1, CallOf(p)>>}
              ELSE {},
     nested |-> IF /\ TypeOf(p) # 0
                   /\ tag \in Types \cup {"typedef", "var", "wide", "list", "param", "static", "tparam"}
                THEN {<<TypeOf(p), die>>} ELSE {}]
Facts == {"locals", "globals", "fields", "named", "subs", "nested"}

-----------------------------------------------------------------------------
\* tags that compilers give no children
Leaves == {"var", "wide", "list", "param", "extern", "member", "static", "typedef", "sub", "tparam"}
Open == IF dieTree[2] THEN dieTree[1] ELSE Front(dieTree[1])

ReadDie ==
    /\ dies <= dieTags[2] /\ Open # <<>>
    /\ \E tag \in dieTags[1], kids \in BOOLEAN :
         /\ kids => dies < dieTags[2] /\ tag \notin Leaves
         /\ tag = "variant" => Top(Open)[2] = "part"
         /\ Top(Open)[2] = "array" => tag \in {"sub", "member"}
         /\ ld' = Entered(Popped(ld), dies + 1, tag, kids)
         /\ dieTree' = <<Append(Open, <<dies + 1, tag>>), kids>>
         /\ said' = IF Ignored(Open) THEN said
                    ELSE [f \in Facts |-> said[f] \cup Means(Open, dies + 1, tag)[f]]
    /\ dies' = dies + 1
    /\ UNCHANGED dieTags

\* a null entry ends the list of children of the innermost open DIE
ReadNull ==
    /\ Open # <<>>
    /\ ld' = [Popped(ld) EXCEPT !.kids = FALSE]
    /\ dieTree' = <<Open, FALSE>>
    /\ UNCHANGED <<dieTags, said, dies>>

\* the bytes of the unit ran out
UnitEnds ==
    /\ Open = <<>> /\ dieTree[1] # <<>>
    /\ \E w \in {Popped(ld)} : ld' = [w EXCEPT !.kids = TRUE, !.fault = @ \/ Len(w.main) # 1]
    /\ dieTree' = <<<<>>, TRUE>>
    /\ UNCHANGED <<dieTags, said, dies>>

Init ==
    /\ dieTags \in Vocabularies
    /\ ld = Entered(Empty, 1, "unit", TRUE)
    /\ dieTree = <<<<<<1, "unit">>>>, TRUE>>
    /\ said = [f \in Facts |-> {}]
    /\ dies = 1

DieWalkNext == ReadDie \/ ReadNull \/ UnitEnds

-----------------------------------------------------------------------------
\* The stacks never lose step with the tree (a pop too few or too many would
\* show in all later entries), and when the unit ends everything it declares
\* has gone to its place: variables to the innermost call with the ranges of
\* the innermost block, statics to the globals under the right name, fields to
\* the type and the variant that enclose them, calls under their callers.
StackSize(s, what) == Len(s) = Cardinality({i \in DOMAIN ld.main : what \in ld.main[i].has})
DieWalkRight ==
    /\ ~ld.fault
    /\ StackSize(Tail(ld.scope), "scope") /\ StackSize(Tail(ld.ranges), "ranges")
    /\ StackSize(Tail(ld.subf), "subfunction") /\ StackSize(ld.funcs, "function")
    /\ StackSize(ld.types, "type")
    /\ dieTree[1] = <<>> =>
         /\ Len(ld.main) = 1 /\ ld.name = <<>>
         /\ \A f \in Facts : ld[f] = said[f]
         /\ \A d \in ld.dims, e \in ld.dims : d[2] = e[2] => d = e
=============================================================================
