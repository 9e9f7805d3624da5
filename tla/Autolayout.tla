----------------------------- MODULE Autolayout -----------------------------
(* Sizes and positions of widgets along one axis.  A tree is built from the   *)
(* root down; parts of it may be laid out while it is built, because a window *)
(* needs to know its size; the rest is laid out at the end, bottom-up for     *)
(* sizes that depend on children and top-down for the others.                 *)
(* Fractions of the remainder are whole numbers, those of widgets that are    *)
(* not stacked are quarters.  Heights that depend on wrapped lines are left   *)
(* out, and so are positions given by the caller.                             *)
EXTENDS Integers, Sequences, SequencesExt, FiniteSetsExt

CONSTANTS
    RootSize,
    Kinds,          \* widgets to choose from: <<auto, n, stack, min, max>>
    MaxWidgets

VARIABLES
    tree,           \* sequence of widgets, parents first
    phase           \* "build" or "done"

autolayoutVars == <<tree, phase>>

NoMax == 99         \* usize::MAX
Axis(k, p) == [par |-> p, auto |-> k[1], n |-> k[2], stack |-> k[3], min |-> k[4], max |-> k[5],
               known |-> FALSE, size |-> 0, placed |-> FALSE, pos |-> 0]
Clamp(w, size) == Min({Max({size, w.min}), w.max})
Sized(w, size) == [w EXCEPT !.size = Clamp(w, size), !.known = TRUE]
Children(t, p) == SetToSortSeq({i \in 2..Len(t) : t[i].par = p}, <)
SumOver(t, S) == FoldSet(LAMBDA i, a : t[i].size + a, 0, S)

\* try_calculate_simple_size
Simple(w) == w.auto \in {"fixed", "text"}

\* calculate_bottom_up_sizes: the widgets that are visited from root, children first.
RECURSIVE Visited(_, _, _, _)
Visited(t, root, all, i) ==
    \/ i = root
    \/ i > root /\ LET p == t[i].par IN (all \/ (~t[p].known /\ t[p].auto = "children")) /\ Visited(t, root, all, p)

BottomUp(t, root, all) ==
    FoldLeft(LAMBDA u, j :
        LET i    == Len(t) + 1 - j
            kids == {k \in 2..Len(t) : t[k].par = i /\ u[k].known}
        IN  IF u[i].known \/ ~Visited(t, root, all, i) THEN u
            ELSE IF Simple(u[i]) THEN [u EXCEPT ![i] = Sized(@, u[i].n)]
            ELSE IF u[i].auto = "children"
                 THEN [u EXCEPT ![i] = Sized(@, IF u[i].stack THEN SumOver(u, kids) ELSE Max({u[k].size : k \in kids} \cup {0}))]
            ELSE u,
        t, [j \in 1..Len(t) |-> j])

\* ... which must not meet a size that depends on the parent, unless everything is laid out.
BottomUpAllowed(t, root) == \A i \in root..Len(t) : Visited(t, root, FALSE, i) => t[i].known \/ t[i].auto \notin {"parent", "rem"}

\* RemainderFractionHelper: the end of the k-th share when the shares of fs split total.
SumTo(fs, k) == FoldLeft(LAMBDA a, x : a + x, 0, SubSeq(fs, 1, k))
\* Mutant: rounded share by share.
MutantShareEnd(total, fs, k) ==
    LET T == SumTo(fs, Len(fs))
    IN  SumTo([i \in 1..k |-> IF T = 0 THEN 0 ELSE (2 * total * fs[i] + T) \div (2 * T)], k)
ShareEnd(total, fs, k) ==
    LET T == SumTo(fs, Len(fs))
    IN  IF k = 0 THEN 0
        ELSE IF k = Len(fs) THEN total
        ELSE IF T = 0 THEN 0
        ELSE Min({total, (2 * total * SumTo(fs, k) + T) \div (2 * T)})

\* calculate_children_layout
ChildrenLayout(t, p) ==
    LET kids   == Children(t, p)
        parent == t[p].size
        t1     == FoldLeft(LAMBDA u, i :
                     IF u[i].known THEN u
                     ELSE IF u[i].auto = "parent" THEN [u EXCEPT ![i] = Sized(@, parent)]
                     ELSE IF ~t[p].stack THEN [u EXCEPT ![i] = Sized(@, (2 * parent * t[i].n + 4) \div 8)]
                     ELSE u,
                     t, kids)
        rest   == SelectSeq(kids, LAMBDA i : ~t1[i].known)
        fs     == [k \in 1..Len(rest) |-> t1[rest[k]].n]
        fixed  == SumOver(t1, {i \in Range(kids) : t1[i].known})
        total  == IF fixed > parent THEN 0 ELSE parent - fixed
        t2     == FoldLeft(LAMBDA u, k : [u EXCEPT ![rest[k]] = Sized(@, ShareEnd(total, fs, k) - ShareEnd(total, fs, k - 1))],
                           t1, [k \in 1..Len(rest) |-> k])
    IN  FoldLeft(LAMBDA u, k :
            LET before == IF k = 1 \/ ~t[p].stack THEN 0 ELSE u[kids[k - 1]].pos + u[kids[k - 1]].size
            IN  IF u[kids[k]].placed THEN u ELSE [u EXCEPT ![kids[k]] = [@ EXCEPT !.pos = before, !.placed = TRUE]],
            t2, [k \in 1..Len(kids) |-> k])

\* layout_subtree of the root: sizes from the children up, then everything from the parents down.
LayoutSubtree(t) == FoldLeft(LAMBDA u, p : ChildrenLayout(u, p), BottomUp(t, 1, TRUE), [p \in 1..Len(t) |-> p])

\* layout_children while the tree is built.
LayoutChildren(t, p) ==
    LET t1 == BottomUp(t, p, FALSE)
        t2 == FoldLeft(LAMBDA u, i : IF Simple(u[i]) \/ u[i].auto = "children" THEN BottomUp(u, i, FALSE) ELSE u, t1, Children(t, p))
    IN  ChildrenLayout(t2, p)
LayoutAllowed(t, p) ==
    /\ BottomUpAllowed(t, p)
    /\ \A i \in Range(Children(t, p)) : t[i].auto \in {"parent", "rem"} \/ BottomUpAllowed(t, i)

Remainder(w) == w.auto = "rem" /\ w.known

\* Mutant: only the sibling is looked at.
MutantMayAdd(t, p) == LET kids == Children(t, p) IN kids # <<>> => ~Remainder(t[Last(kids)])

\* add: asserts that the sizes of the parent and of the last sibling were not calculated before if
\* they depend on the new widget.
MayAdd(t, p) ==
    /\ ~(t[p].auto = "children" /\ t[p].known)
    /\ LET kids == Children(t, p) IN kids # <<>> => ~Remainder(t[Last(kids)])

\* ... and panics for a remainder with limits that is itself a stack.
Supported(k) == ~(k[1] = "rem" /\ k[3] /\ (k[4] # 0 \/ k[5] # NoMax))

\* What the callers keep to and the assertion, which sees one sibling only, does not check: nothing is
\* added to a stack whose remainder was split.
Disciplined(t, p) == t[p].stack => ~\E i \in Range(Children(t, p)) : Remainder(t[i])

\* ... and calculates its size early if it can.
Added(t, p, k) ==
    LET w == Axis(k, p)
    IN  Append(t, IF w.auto = "fixed" THEN Sized(w, w.n)
                  ELSE IF w.auto = "parent" /\ t[p].known THEN Sized(w, t[p].size) ELSE w)

-----------------------------------------------------------------------------

Init ==
    /\ \E s \in BOOLEAN : tree = <<Sized(Axis(<<"fixed", RootSize, s, 0, NoMax>>, 0), RootSize)>>
    /\ phase = "build"

Add(p, k) ==
    /\ phase = "build" /\ Len(tree) < MaxWidgets
    /\ MayAdd(tree, p) /\ Supported(k) /\ Disciplined(tree, p)
    /\ tree' = Added(tree, p, k)
    /\ UNCHANGED phase

LayOutEarly(p) ==
    /\ phase = "build" /\ LayoutAllowed(tree, p)
    /\ tree' = LayoutChildren(tree, p)
    /\ UNCHANGED phase

EndBuild ==
    /\ phase = "build"
    /\ tree' = LayoutSubtree(tree)
    /\ phase' = "done"

AutolayoutNext ==
    \/ \E p \in 1..Len(tree), k \in Kinds : Add(p, k)
    \/ \E p \in 1..Len(tree) : LayOutEarly(p)
    \/ EndBuild

-----------------------------------------------------------------------------

\* What is calculated while the tree is built is what one pass at the end gives: early answers,
\* which windows act upon, are final.
Forgotten == FoldLeft(LAMBDA t, w : Append(t, [w EXCEPT !.known = FALSE, !.size = 0, !.placed = FALSE, !.pos = 0]),
                      <<tree[1]>>, Tail(tree))
EarlyIsFinal == phase = "done" => tree = LayoutSubtree(Forgotten)

\* Children of a stack follow each other without gap or overlap, those that share the remainder get
\* their fraction up to rounding, within their own limits, and fill the stack: they overflow it only
\* for a min_size, and leave a part of it empty only for a max_size.
Tiled ==
    phase = "done" => \A p \in 1..Len(tree) : tree[p].stack =>
        LET kids  == Children(tree, p)
            rems  == {i \in Range(kids) : tree[i].auto = "rem"}
            sum   == SumOver(tree, Range(kids))
            fixed == sum - SumOver(tree, rems)
            T     == FoldSet(LAMBDA i, a : tree[i].n + a, 0, rems)
            total == Max({0, tree[p].size - fixed})
        IN  /\ \A k \in 1..Len(kids) : tree[kids[k]].pos = SumOver(tree, {kids[j] : j \in 1..(k - 1)})
            /\ rems # {} /\ (\A i \in rems : tree[i].max = NoMax) => sum >= Max({fixed, tree[p].size})
            /\ (\A i \in rems : tree[i].min = 0) => sum <= Max({fixed, tree[p].size})
            /\ \A i \in rems : T > 0 =>
                 \E share \in 0..total :
                    /\ tree[i].size = Clamp(tree[i], share)
                    /\ LET d == share * T - total * tree[i].n IN d < T /\ -d < T

AutolayoutRight == EarlyIsFinal /\ Tiled
=============================================================================
