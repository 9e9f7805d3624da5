------------------------------- MODULE Layout -------------------------------
(***************************************************************************)
(* The window panes of layout.rs: a tree of regions, each a split along an *)
(* axis or a leaf with tabs, kept in a pool of regions with parent and     *)
(* child ids, plus for each window the leaf it is in.  One action is one   *)
(* frame of Layout::build with its user input (a window hotkey, a move to  *)
(* another leaf, a choice of tab, a window dropped somewhere); Restart is  *)
(* save_state() followed by load_state() in the next process.              *)
(*                                                                         *)
(* The operators map a layout record to the next one, as the methods       *)
(* change self.  Region ids are handles the pool never resolves once stale *)
(* (module Pool), so a new one is the least unused number here, and after  *)
(* a frame the regions are renumbered in preorder: layouts that differ in  *)
(* their ids only are one state.                                           *)
(* Sizes and positions are in module Walls, so "the leaf next to this one" *)
(* is any leaf here.                                                       *)
(***************************************************************************)
EXTENDS Integers, Sequences, FiniteSets, SequencesExt

CONSTANTS Columns   \* default_layout(): columns of rows of tabs (windows)

VARIABLES layout,   \* [regions, root, win, active]
          landed    \* ghost: the last drop went where the user asked

layoutVars == <<layout, landed>>

Windows == UNION {ToSet(Columns[c][r]) :
                    <<c, r>> \in {<<c, r>> \in (1 .. 9) \X (1 .. 9) :
                        c \in DOMAIN Columns /\ r \in DOMAIN Columns[c]}}
NoWindow == 0
NoRegion == 0
Axes == {0, 1}

Leaf(parent, tabs, selected) ==
    [parent |-> parent, split |-> FALSE, axis |-> 0, children |-> <<>>,
     tabs |-> tabs, selected |-> selected]
SplitOf(parent, axis, children) ==
    [parent |-> parent, split |-> TRUE, axis |-> axis, children |-> children,
     tabs |-> <<>>, selected |-> 0]

Ids(L) == DOMAIN L.regions
Leaves(L) == {r \in Ids(L) : ~L.regions[r].split}
Fresh(L, n) ==   \* Pool::add, n times
    LET free == {i \in 1 .. Cardinality(Ids(L)) + n : i \notin Ids(L)}
    IN  SubSeq(SetToSortSeq(free, <), 1, n)
Position(s, x) == CHOOSE i \in DOMAIN s : s[i] = x

WithRegions(L, f) == [L EXCEPT !.regions = f]
Without(f, id) == [i \in DOMAIN f \ {id} |-> f[i]]
Reparent(f, ids, p) ==
    [i \in DOMAIN f |-> IF i \in ids THEN [f[i] EXCEPT !.parent = p] ELSE f[i]]

-----------------------------------------------------------------------------
(* simplify_splits: from `id` upwards, dissolve a split with at most one     *)
(* child, or along its parent's axis, into its parent.                       *)

\* Mutant: a split that was emptied is not followed up to its parent.
GoesOnWith_NoParent(children, p) ==
    IF Len(children) = 1 THEN children[1] ELSE NoRegion

\* The region_id of the next iteration.
GoesOnWith(children, p) ==
    CASE Len(children) = 0 -> p
      [] Len(children) = 1 -> children[1]
      [] OTHER -> NoRegion

\* Mutant: only splits with one child are dissolved.
Dissolves_OnlyChild(region, parent) == Len(region.children) <= 1

Dissolves(region, parent) ==
    parent.axis = region.axis \/ Len(region.children) <= 1

DissolveRoot(L, id) ==
    LET only == L.regions[id].children[1]
    IN  [L EXCEPT !.root = only,
                  !.regions = Without(Reparent(L.regions, {only}, NoRegion), id)]

Dissolve(L, id) ==
    LET p == L.regions[id].parent
        kids == L.regions[id].children
        old == L.regions[p].children
        new == ReplaceSubSeqAt(Position(old, id), kids, <<id>>, old)
        hung == Reparent(L.regions, ToSet(kids), p)
    IN  WithRegions(L, Without([hung EXCEPT ![p].children = new], id))

RECURSIVE Simplify(_, _)
Simplify(L, id) ==
    IF id = NoRegion \/ ~L.regions[id].split THEN L
    ELSE IF L.regions[id].parent = NoRegion
    THEN IF Len(L.regions[id].children) = 1 THEN DissolveRoot(L, id) ELSE L
    ELSE IF ~Dissolves(L.regions[id], L.regions[L.regions[id].parent]) THEN L
    ELSE Simplify(Dissolve(L, id),
                  GoesOnWith(L.regions[id].children, L.regions[id].parent))

(* split(): a new split takes the place of region `id`, which becomes its    *)
(* child number `existing` of n.  Returns the layout and the children.       *)
Split(L, id, axis, n, existing) ==
    LET ids == Fresh(L, n)
        new == Head(ids)
        p == L.regions[id].parent
        children == [i \in 1 .. n |-> IF i = existing THEN id
                        ELSE ids[1 + (IF i < existing THEN i ELSE i - 1)]]
        grown == [i \in Ids(L) \union ToSet(ids) |->
                    IF i = new THEN SplitOf(p, axis, children)
                    ELSE IF i \in Ids(L) THEN L.regions[i]
                    ELSE Leaf(new, <<>>, 0)]
        hung == [grown EXCEPT ![id].parent = new]
        linked == IF p = NoRegion THEN hung
                  ELSE [hung EXCEPT ![p].children[Position(L.regions[p].children, id)] = new]
        L1 == [L EXCEPT !.regions = linked, !.root = IF p = NoRegion THEN new ELSE @]
    IN  [layout |-> Simplify(L1, new), children |-> children]

\* remove_leaf()
RemoveLeaf(L, id) ==
    LET p == L.regions[id].parent
        cut == [L.regions EXCEPT ![p].children = SelectSeq(@, LAMBDA c : c # id)]
    IN  Simplify(WithRegions(L, Without(cut, id)), p)

\* new_window() into a leaf
NewWindow(L, leaf, w) ==
    [L EXCEPT !.regions[leaf].tabs = Append(@, w), !.win = [@ EXCEPT ![w] = leaf]]

-----------------------------------------------------------------------------
(* TabsState::apply_action and the tab bar                                   *)

\* Mutant: closing a tab leaves `selected` alone.
Close_KeepsSelected(r, idx) == [r EXCEPT !.tabs = RemoveAt(@, idx + 1)]

\* TabsAction::Close; idx and `selected` count from 0 as in the code.
Close(r, idx) ==
    [r EXCEPT !.tabs = RemoveAt(@, idx + 1),
              !.selected = IF @ > idx THEN @ - 1 ELSE @]

Reorder(r, from, to) ==
    LET new == IF to <= from THEN to ELSE to - 1
        moved == InsertAt(RemoveAt(r.tabs, from + 1), new + 1, r.tabs[from + 1])
        s == IF r.selected > from THEN r.selected - 1 ELSE r.selected
    IN  IF new = from THEN r
        ELSE [r EXCEPT !.tabs = moved,
                       !.selected = IF @ = from THEN new
                                    ELSE IF s >= new THEN s + 1 ELSE s]

\* Tabs::finish clamps the selection of every leaf.
Clamp(r) ==
    IF r.split \/ r.selected < Len(r.tabs) THEN r
    ELSE [r EXCEPT !.selected = IF Len(r.tabs) = 0 THEN 0 ELSE Len(r.tabs) - 1]

Shown(r) == IF r.tabs = <<>> THEN NoWindow ELSE r.tabs[r.selected + 1]

-----------------------------------------------------------------------------
(* relocate_window                                                           *)

Tab(idx) == [kind |-> "tab", idx |-> idx]
Wall(idx) == [kind |-> "wall", idx |-> idx]
Edge(axis, side) == [kind |-> "edge", axis |-> axis, side |-> side]

\* is_window_relocation_pointess()
Pointless(L, w, id, to) ==
    LET from == L.win[w]
        p == L.regions[from].parent
        siblings == L.regions[p].children
        idx == Position(siblings, from) - 1
    IN  /\ Len(L.regions[from].tabs) <= 1
        /\ \/ from = id
           \/ /\ from # id
              /\ p # NoRegion
              /\ \/ /\ to.kind = "wall"
                    /\ id = p
                    /\ to.idx \in {idx, idx + 1}
                 \/ /\ to.kind = "edge"
                    /\ to.axis = L.regions[p].axis
                    /\ LET n == IF to.side = 0 THEN idx + 2 ELSE idx
                       IN  n \in DOMAIN siblings /\ siblings[n] = id

\* The loop over to_simplify.
Cleanup(L, id) ==
    IF id \notin Ids(L) THEN L
    ELSE IF ~L.regions[id].split /\ L.regions[id].tabs = <<>> THEN RemoveLeaf(L, id)
    ELSE Simplify(L, id)

\* Mutant: the leaf left behind is cleaned up before the window lands.
Relocated_CleanupFirst(L, from, new) == Cleanup(L, new)

Relocated(L, from, new) == Cleanup(Cleanup(L, from), new)

AddTab(L, w, id, idx) ==
    LET at == IF idx > Len(L.regions[id].tabs) THEN Len(L.regions[id].tabs) ELSE idx
    IN  [L EXCEPT !.regions[id].tabs = InsertAt(@, at + 1, w),
                  !.regions[id].selected = at,
                  !.win = [@ EXCEPT ![w] = id]]

AddToExistingSplit(L, w, id, idx) ==
    LET new == Fresh(L, 1)[1]
        grown == [i \in Ids(L) \union {new} |->
                    IF i = new THEN Leaf(id, <<w>>, 0) ELSE L.regions[i]]
    IN  [layout |-> [L EXCEPT
            !.regions = [grown EXCEPT ![id].children = InsertAt(@, idx + 1, new)],
            !.win = [@ EXCEPT ![w] = new]],
         new |-> new]

SplitLeaf(L, w, id, axis, side) ==
    LET s == Split(L, id, axis, 2, IF side = 0 THEN 2 ELSE 1)
        new == s.children[side + 1]
    IN  [layout |-> [s.layout EXCEPT !.regions[new].tabs = Append(@, w),
                                     !.win = [@ EXCEPT ![w] = new]],
         new |-> new]

RelocateWindow(L, w, id, to) ==
    LET from == L.win[w]
        idx == Position(L.regions[from].tabs, w) - 1
        L1 == [L EXCEPT !.regions[from] = Close(@, idx)]
        end == Len(L.regions[id].tabs)
    IN  CASE to.kind = "tab" /\ from = id ->
               [L EXCEPT !.regions[id] =
                   Reorder(@, idx, IF to.idx > end THEN end ELSE to.idx)]
          [] to.kind = "tab" /\ from # id -> Cleanup(AddTab(L1, w, id, to.idx), from)
          [] to.kind = "wall" ->
               LET a == AddToExistingSplit(L1, w, id, to.idx)
               IN  Relocated(a.layout, from, a.new)
          [] to.kind = "edge" ->
               LET a == SplitLeaf(L1, w, id, to.axis, to.side)
               IN  Relocated(a.layout, from, a.new)

-----------------------------------------------------------------------------
(* build(), saving and loading                                               *)

\* active_window decides the tab and the leaf at the start of a frame.
Activate(L, w) ==
    LET r == L.win[w]
    IN  [L EXCEPT !.active = w,
                  !.regions[r].selected = Position(L.regions[r].tabs, w) - 1]

\* The tab bars; then the shown window of the active leaf is active.
FinishTabs(L, leaf, tab) ==
    LET clamped == [i \in Ids(L) |-> Clamp(L.regions[i])]
        chosen == [clamped EXCEPT ![leaf].selected = tab]
    IN  [L EXCEPT !.regions = chosen, !.active = Shown(chosen[leaf])]

\* The user's choices in a frame: a window to jump to (`w`, the active one if
\* no hotkey was pressed), the leaf to go to and the tab to select there.
Frame(w, leaf, tab) == FinishTabs(Activate(layout, w), leaf, tab)

\* default_layout()
RECURSIVE FillRows(_, _, _), FillColumns(_, _, _)
FillRow(L, leaf, tabs) == FoldLeft(LAMBDA acc, w : NewWindow(acc, leaf, w), L, tabs)
FillRows(L, leaves, rows) ==
    IF rows = <<>> THEN L
    ELSE FillRows(FillRow(L, Head(leaves), Head(rows)), Tail(leaves), Tail(rows))
FillColumns(L, cols, columns) ==
    IF columns = <<>> THEN L
    ELSE LET rows == Head(columns)
             s == IF Len(rows) = 1 THEN [layout |-> L, children |-> <<Head(cols)>>]
                  ELSE Split(L, Head(cols), 1, Len(rows), 1)
         IN  FillColumns(FillRows(s.layout, s.children, rows), Tail(cols), Tail(columns))

Empty == [regions |-> [i \in {1} |-> Leaf(NoRegion, <<>>, 0)], root |-> 1,
          win |-> [w \in Windows |-> NoRegion], active |-> NoWindow]
DefaultLayout ==
    LET s == Split(Empty, 1, 0, Len(Columns), 1)
        L == FillColumns(s.layout, s.children, Columns)
    IN  Activate(L, Last(Last(Last(Columns))))

\* save_state(): the regions in preorder, by a stack of ids.
RECURSIVE SaveFrom(_, _)
SaveFrom(L, stack) ==
    IF stack = <<>> THEN <<>>
    ELSE LET r == L.regions[Last(stack)]
             rest == Front(stack) \o Reverse(r.children)
         IN  <<[split |-> r.split, axis |-> r.axis, n |-> Len(r.children),
                tabs |-> r.tabs, selected |-> r.selected, active |-> L.active]>>
             \o SaveFrom(L, rest)
Save(L) == SaveFrom(L, <<L.root>>)

\* Mutant: the children are pushed in order, so that the last is read first.
PushOrder_Forward(children) == children

PushOrder(children) == Reverse(children)

\* load_state(): the mirror image, into a fresh layout.
RECURSIVE LoadFrom(_, _, _)
LoadFrom(L, stack, in) ==
    IF stack = <<>> THEN L
    ELSE LET id == Last(stack)
             rec == Head(in)
             p == L.regions[id].parent
             kids == Fresh(L, rec.n)
             grown == [i \in Ids(L) \union ToSet(kids) |->
                         IF i \in Ids(L) THEN L.regions[i] ELSE Leaf(id, <<>>, 0)]
             this == IF rec.split THEN SplitOf(p, rec.axis, kids)
                     ELSE Leaf(p, rec.tabs, rec.selected)
             L1 == [L EXCEPT !.regions = [grown EXCEPT ![id] = this],
                             !.win = [w \in Windows |->
                                        IF w \in ToSet(rec.tabs) THEN id ELSE L.win[w]],
                             !.active = IF rec.active \in ToSet(rec.tabs)
                                        THEN rec.active ELSE @]
         IN  LoadFrom(L1, Front(stack) \o PushOrder(kids), Tail(in))
Load(bytes) == LoadFrom(Empty, <<Empty.root>>, bytes)

-----------------------------------------------------------------------------

\* The windows below a region.
RECURSIVE Below(_, _)
Below(L, id) ==
    ToSet(L.regions[id].tabs)
      \union UNION {Below(L, c) : c \in ToSet(L.regions[id].children)}

\* The neighbour of child `id` of its parent, `d` places on.
Neighbour(L, id, d) ==
    LET siblings == L.regions[L.regions[id].parent].children
    IN  Below(L, siblings[Position(siblings, id) + d])

\* Where the user wants window w: among the tabs of region `id`, on one side
\* of it, or between two neighbours of the split `id`.
Landed(L, M, w, id, to) ==
    LET at == M.win[w]
        along == M.regions[M.regions[at].parent].axis
        others == ToSet(L.regions[id].tabs) \ {w}
        between == L.regions[id].children
    IN  CASE to.kind = "tab"  -> ToSet(M.regions[at].tabs) \ {w} = others
          [] to.kind = "edge" ->
               /\ along = to.axis
               /\ Neighbour(M, at, IF to.side = 0 THEN 1 ELSE -1) = others
          [] to.kind = "wall" ->
               /\ along = L.regions[id].axis
               /\ Neighbour(M, at, -1) \subseteq Below(L, between[to.idx])
               /\ Neighbour(M, at, 1) \subseteq Below(L, between[to.idx + 1])

\* The dropped window shows where it landed, and the leaf it came from shows
\* what it showed.
SelectionKept(L, M, w) ==
    LET from == L.win[w]
        before == Shown(L.regions[from])
    IN  /\ M.win[w] # from => Shown(M.regions[M.win[w]]) = w
        /\ (before # w \/ M.win[w] = from) => Shown(M.regions[from]) = before

RECURSIVE Preorder(_, _)
Preorder(L, id) ==
    FoldLeft(LAMBDA acc, c : acc \o Preorder(L, c), <<id>>, L.regions[id].children)

Renumber(L) ==
    LET order == Preorder(L, L.root)
        new(id) == IF id = NoRegion THEN NoRegion ELSE Position(order, id)
    IN  IF ToSet(order) # Ids(L) THEN L
        ELSE [L EXCEPT
               !.root = 1,
               !.win = [w \in Windows |-> new(L.win[w])],
               !.regions = [n \in DOMAIN order |->
                   [L.regions[order[n]] EXCEPT
                       !.parent = new(@),
                       !.children = [i \in DOMAIN @ |-> new(@[i])]]]]

Init == layout = Renumber(DefaultLayout) /\ landed = TRUE

Look(w, leaf, tab) ==
    /\ layout' = Frame(w, leaf, tab)
    /\ landed' = TRUE

Targets(L) ==
    UNION {
      {<<id, Tab(i)>> : id \in Leaves(L), i \in 0 .. Cardinality(Windows)},
      {<<id, Edge(a, s)>> : id \in Leaves(L), a \in Axes, s \in {0, 1}},
      {<<id, Wall(i)>> : id \in Ids(L) \ Leaves(L), i \in 1 .. Cardinality(Windows)}}

\* The frame in which window w is dropped on target `to` of region `id`.
Drop(w, id, to) ==
    LET here == layout.win[layout.active]
        L == Frame(layout.active, here,
                   Position(layout.regions[here].tabs, layout.active) - 1)
        M == RelocateWindow(L, w, id, to)
    IN  /\ to.kind = "wall" => to.idx < Len(L.regions[id].children)
        /\ to.kind = "tab" => to.idx <= Len(L.regions[id].tabs)
        /\ ~Pointless(L, w, id, to)
        /\ layout' = Renumber(M)
        /\ landed' = (Landed(L, M, w, id, to) /\ SelectionKept(L, M, w))

Restart == layout' = Renumber(Load(Save(layout))) /\ landed' = TRUE

Next ==
    \/ \E w \in Windows, leaf \in Leaves(layout) :
         \E tab \in 0 .. Len(layout.regions[leaf].tabs) - 1 : Look(w, leaf, tab)
    \/ \E w \in Windows, t \in Targets(layout) : Drop(w, t[1], t[2])
    \/ Restart

Spec == Init /\ [][Next]_layoutVars

-----------------------------------------------------------------------------

RECURSIVE Subtree(_, _)
Subtree(L, id) == {id} \union UNION {Subtree(L, c) : c \in ToSet(L.regions[id].children)}

\* Every region hangs in the tree, once, below the parent it names.
RegionsFormTree(L) ==
    /\ L.regions[L.root].parent = NoRegion
    /\ \A r \in Ids(L) : \A i \in DOMAIN L.regions[r].children :
         /\ L.regions[L.regions[r].children[i]].parent = r
         /\ \A j \in DOMAIN L.regions[r].children :
              L.regions[r].children[i] = L.regions[r].children[j] => i = j
    /\ Subtree(L, L.root) = Ids(L)

\* A split has at least two children and none split along its own axis; a
\* leaf shows something.
NothingToSimplify(L) ==
    /\ \A r \in Ids(L) \ Leaves(L) :
         /\ Len(L.regions[r].children) >= 2
         /\ \A c \in ToSet(L.regions[r].children) :
              L.regions[c].split => L.regions[c].axis # L.regions[r].axis
    /\ \A r \in Leaves(L) : L.regions[r].tabs # <<>>

\* Every window is a tab of exactly one leaf, the one it names.
WindowsInLeaves(L) ==
    \A w \in Windows :
        /\ L.win[w] \in Leaves(L)
        /\ \A r \in Leaves(L) :
             Cardinality({i \in DOMAIN L.regions[r].tabs : L.regions[r].tabs[i] = w})
               = IF r = L.win[w] THEN 1 ELSE 0

\* The assertions of build() ("Some invariant checks"), with what
\* simplify_splits() promises: however windows are dragged about, the regions
\* form a tree without redundant splits or empty leaves in which every window
\* appears once, so none is lost.
LayoutSound ==
    /\ RegionsFormTree(layout)
    /\ NothingToSimplify(layout)
    /\ WindowsInLeaves(layout)
    /\ layout.active \in Windows

\* A window that is dropped lands where relocate_window() was asked to put it,
\* whatever splits the leaf it left behind made redundant, and the leaf it
\* came from goes on showing the tab it showed.
DropLands == landed

RECURSIVE Shape(_, _)
Shape(L, id) ==
    LET r == L.regions[id]
    IN  [split |-> r.split, axis |-> r.axis, tabs |-> r.tabs, selected |-> r.selected,
         children |-> [i \in DOMAIN r.children |-> Shape(L, r.children[i])]]

\* A restart brings back the same panes, tabs and active window: load_state()
\* reads what save_state() wrote.
LayoutPersists ==
    LET L == Load(Save(layout))
    IN  Shape(L, L.root) = Shape(layout, layout.root) /\ L.active = layout.active
=============================================================================
