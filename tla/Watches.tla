------------------------------ MODULE Watches -------------------------------
(* The watches window: the list of expressions, the tree of their values that *)
(* is computed as far as it is unfolded, the cursor in it, and the input that *)
(* edits an expression.  A frame first applies the keys to the rows of the    *)
(* frame before, then brings the tree up to date, lays it out, and handles    *)
(* clicks.  An expression is the path to an object of the program; a value is *)
(* known by the stop at which it was read, 0 when it was an error, and Live    *)
(* when a value evaluated at a stop was formatted, or unfolded, from memory   *)
(* of the thread that runs again.  Wrapping, scrolling, registers, search     *)
(* dialogs and data breakpoints are left out.                                 *)
EXTENDS Integers, Sequences, SequencesExt, FiniteSets

CONSTANTS
    LocalsOf,       \* frame of the program -> names of its local variables
    Structs,        \* the variables that have a part, "f"
    Typed,          \* what the user may type as an expression
    MaxIds,         \* bound on expressions made
    MaxStops,       \* bound on stops and changes of the selection
    MaxEvents       \* bound on what happens

VARIABLES
    win,            \* the WatchesWindow
    env,            \* what is selected: at, a number for the stop and the subframe, whether it
                    \* is suspended, and the frame of the program
    eventsLeft,
    wrong           \* what went wrong

watchesVars == <<win, env, eventsLeft, wrong>>

\* The parts of an object of the program; those of <<>> are the local variables.
Parts(text) == IF text = <<>> THEN LocalsOf[env.frame]
               ELSE IF Len(text) = 1 /\ text[1] \in Structs THEN <<"f">> ELSE <<>>

NoInput == [id |-> 0, text |-> <<>>]
Expression(id, text, special) == [id |-> id, text |-> text, special |-> special]
Locals(id)   == Expression(id, <<>>, "locals")
AddWatch(id) == Expression(id, <<"add">>, "add")
IsEditable(e) == e.special \in {"none", "add"}

\* A node of the tree, found by its path of identities: what is formatted of it,
\* collapsed and expanded, the names of its children, and whether its value is Ok.
NewNode(text, special, ok) ==
    [text |-> text, special |-> special, ok |-> ok, shown |-> <<-1, -1>>, kids |-> <<>>]
NoTree == [p \in {} |-> NewNode(<<>>, "none", FALSE)]

Insert(s, i, e) == SubSeq(s, 1, i - 1) \o <<e>> \o SubSeq(s, i, Len(s))
IndexOfRoot(w, path) == IF \E i \in 1..Len(w.roots) : w.roots[i] = path
                        THEN CHOOSE i \in 1..Len(w.roots) : w.roots[i] = path ELSE 0

\* add_watch: before the placeholder, with the cursor on it.
DoAddWatch(w, text) ==
    IF w.nextId > MaxIds THEN w ELSE
    LET n == Len(w.exprs)
        i == IF n > 0 /\ w.exprs[n].special = "add" THEN n ELSE n + 1
    IN  [w EXCEPT !.exprs = Insert(w.exprs, i, Expression(w.nextId, text, "none")),
                  !.path = <<w.nextId>>, !.nextId = @ + 1, !.refresh = TRUE]

\* A watch for the object of a node, if it is one.
MakeExpressionForTreeNode(w, node) == IF node.special = "none" THEN DoAddWatch(w, node.text) ELSE w

\* Mutant: only the expression is removed, as if its row went by itself.
MutantRemoveRow(w, i) == [w EXCEPT !.exprs = RemoveAt(@, i)]

\* Removes an expression and its node, so that no refresh is needed.
RemoveRow(w, i) == [w EXCEPT !.exprs = RemoveAt(@, i), !.roots = RemoveAt(@, i)]

StartEditing(id, e) == [id |-> id, text |-> IF e.special = "add" THEN <<>> ELSE e.text]

\* Enter on an expression that can be edited.
Commit(w, i) ==
    LET v   == [w EXCEPT !.exprs[i].text = w.input.text, !.exprs[i].special = "none",
                         !.path = IF i < Len(w.exprs) THEN <<w.exprs[i + 1].id>> ELSE @]
    IN  IF w.input.text = <<>> THEN RemoveRow(v, i) ELSE [v EXCEPT !.refresh = TRUE]
Enter(w, path, i) ==
    IF w.input # NoInput
    THEN [(IF path = <<w.input.id>> THEN Commit(w, i) ELSE w) EXCEPT !.input = NoInput]
    ELSE [w EXCEPT !.input = StartEditing(path[1], w.exprs[i])]

Reorder(w, i, j) ==
    IF w.exprs[i].special = "none" /\ j \in 1..Len(w.exprs) /\ w.exprs[j].special = "none"
    THEN [w EXCEPT !.exprs[i] = w.exprs[j], !.exprs[j] = w.exprs[i], !.refresh = TRUE]
    ELSE w

\* One key, on the row of the cursor in the rows and the tree of the last frame.
Key(w, key) ==
    IF key = "cancel" THEN [w EXCEPT !.input = NoInput]
    ELSE IF w.idx > Len(w.rows) THEN w
    ELSE LET path == w.rows[w.idx]
             node == w.tree[path]
             i    == IF Len(path) = 1 THEN IndexOfRoot(w, path) ELSE 0
             parent == SubSeq(path, 1, Len(path) - 1)
         IN
         CASE key = "right" -> IF node.special = "add" THEN w ELSE [w EXCEPT !.expanded = @ \cup {path}]
           [] key = "left"  -> [w EXCEPT !.expanded =
                                   @ \ ({path} \cup IF Len(path) > 1 /\ path \notin w.open THEN {parent} ELSE {})]
           [] key = "enter" /\ i > 0 /\ IsEditable(w.exprs[i]) -> Enter(w, path, i)
           [] key = "duplicate" /\ i > 0 ->
                 IF w.exprs[i].special = "none" THEN DoAddWatch(w, w.exprs[i].text) ELSE w
           [] key \in {"enter", "duplicate"} -> MakeExpressionForTreeNode(w, node)
           [] key = "reorder up"   -> IF i > 0 THEN Reorder(w, i, i - 1) ELSE w
           [] key = "reorder down" -> IF i > 0 THEN Reorder(w, i, i + 1) ELSE w
           [] key = "delete" -> IF i = 0 \/ w.exprs[i].special # "none" THEN w
                                ELSE LET v == RemoveRow(w, i)
                                         n == Len(v.exprs)
                                     IN  IF n = 0 THEN v
                                         ELSE [v EXCEPT !.path = <<v.exprs[IF i < n THEN i ELSE n].id>>]
           [] OTHER -> w

Placeholder(w) ==
    IF \E i \in 1..Len(w.exprs) : w.exprs[i].special = "add" THEN w
    ELSE [w EXCEPT !.exprs = Append(@, AddWatch(w.nextId)), !.path = <<w.nextId>>,
                   !.nextId = @ + 1, !.refresh = TRUE]

\* Mutant: the values are taken for good whenever they are computed.
MutantStale(w) == w.seen # <<env.at, env.susp>> /\ ~w.good

\* Whether what is selected is not what the values are of.
Stale(w) == w.seen # <<env.at, env.susp>> /\ (env.susp \/ ~w.good)

\* eval_watches; the old tree goes.  Without a stack there are errors for values.
Refreshed(w) ==
    LET again == w.refresh \/ Stale(w)
        v == [w EXCEPT !.seen = <<env.at, env.susp>>, !.refresh = FALSE]
    IN  IF ~again THEN v
        ELSE [v EXCEPT !.good = env.susp,
                       !.roots = [i \in 1..Len(w.exprs) |-> <<w.exprs[i].id>>],
                       !.tree = [p \in {<<w.exprs[i].id>> : i \in 1..Len(w.exprs)} |->
                                    LET e == CHOOSE e \in Range(w.exprs) : e.id = p[1]
                                    IN  NewNode(e.text, e.special, env.susp)]]

\* Of what time format_value reads the memory.  A special node, or a value that is an
\* error, needs no memory; any other is formatted from memory as it now is, also when
\* the thread runs.
Live == MaxStops + 1
Read(n) == IF env.susp THEN env.at ELSE IF n.special = "none" /\ n.ok THEN Live ELSE 0

\* ensure_node_info: formats the node, and finds its children when it is expanded.
EnsureNodeInfo(tree, path, expanded) ==
    LET n == tree[path]
        i == IF expanded THEN 2 ELSE 1
        kids == IF expanded /\ Read(n) # 0 /\ n.special # "add" THEN Parts(n.text) ELSE <<>>
        children == {Append(path, kids[k]) : k \in 1..Len(kids)}
    IN  IF n.shown[i] # -1 THEN tree
        ELSE [p \in DOMAIN tree \cup children |->
                IF p = path THEN [n EXCEPT !.shown[i] = Read(n), !.kids = IF expanded THEN kids ELSE @]
                ELSE IF p \in children THEN NewNode(Append(n.text, p[Len(p)]), "none", TRUE)
                ELSE tree[p]]

\* do_layout: the rows, depth first; todo is the stack.  Collapsed rows are formatted
\* when they are drawn.
RECURSIVE Layout(_, _, _, _)
Layout(w, tree, todo, rows) ==
    IF todo = <<>> THEN [rows |-> rows, tree |-> tree]
    ELSE LET path == Head(todo)
             open == path \in w.expanded
             t    == EnsureNodeInfo(tree, path, open)
             kids == IF open THEN [k \in 1..Len(t[path].kids) |-> Append(path, t[path].kids[k])] ELSE <<>>
         IN  Layout(w, t, kids \o Tail(todo), Append(rows, path))

LaidOut(w) ==
    LET l == Layout(w, w.tree, w.roots, <<>>)
        on == {r \in 1..Len(l.rows) : IsPrefix(l.rows[r], w.path) /\ l.rows[r] # <<>>}
    IN  [w EXCEPT !.tree = l.tree, !.rows = l.rows, !.open = w.expanded \cap Range(l.rows),
                  !.idx = IF on = {} THEN 1 ELSE CHOOSE r \in on : \A s \in on : s <= r]

\* set_cursor_path_from_node
Cursor(w, idx) == IF w.rows = <<>> THEN w.path ELSE w.rows[idx]

\* The cursor keys, and the cursor's path again.
Moved(w, by) ==
    LET idx == IF w.idx + by \in 1..Len(w.rows) THEN w.idx + by ELSE w.idx
    IN  [w EXCEPT !.idx = idx, !.path = Cursor(w, idx)]

\* build_widgets: clicks on the arrow and on the name of row r.
Clicked(w, click) ==
    LET path == w.rows[click.row] IN
    CASE click.what = "none" \/ click.row > Len(w.rows) -> w
      [] click.what = "arrow" ->
            [w EXCEPT !.expanded = IF path \in w.open THEN @ \ {path}
                                   ELSE IF w.tree[path].special = "add" THEN @ ELSE @ \cup {path}]
      [] click.what = "name" ->
            IF path # w.path THEN [w EXCEPT !.path = path]
            ELSE IF Len(path) = 1 /\ IsEditable(w.exprs[IndexOfRoot(w, path)])
            THEN [Enter([w EXCEPT !.input = NoInput], path, IndexOfRoot(w, path)) EXCEPT !.justStarted = TRUE]
            ELSE w

\* The input is closed when its row is not drawn or the cursor left it.
InputKept(w, focused) ==
    LET built == w.justStarted \/ (focused /\ <<w.input.id>> \in Range(w.rows))
    IN  [w EXCEPT !.justStarted = FALSE,
                  !.input = IF built /\ w.path = <<w.input.id>> THEN @ ELSE NoInput]

Frame(w, keys, by, click, focused) ==
    LET keyed == FoldLeft(Key, [w EXCEPT !.refresh = w.roots = <<>>], keys)
        fresh == Refreshed(Placeholder(keyed))
        seen  == IF focused THEN fresh ELSE [fresh EXCEPT !.input = NoInput]
    IN  InputKept(Clicked(Moved(LaidOut(seen), by), click), focused)

\* What the keys may change: the expression in the row under the cursor, as shown.
Ids(w) == {e.id : e \in Range(w.exprs)}
Wrong(w, v, keys) ==
    LET row == IF w.idx > Len(w.rows) THEN <<0>> ELSE w.rows[w.idx]
        kept == {e \in Range(w.exprs) : e.special = "none" /\ <<e.id>> # row}
        gone == IF keys = <<>> /\ w.path # <<>> /\ w.roots # <<>> /\ v.path # w.path /\ w.path \in Range(v.rows)
                THEN {"the cursor left its row"} ELSE {}
    IN  gone \cup IF \E e \in kept : e \notin Range(v.exprs) THEN {"another row was changed"} ELSE {}

Keys == {"cancel", "right", "left", "enter", "duplicate", "reorder up", "reorder down", "delete"}
\* Keys of one frame.  A key pressed in the same frame after a reordering would act
\* on the expression that took the place of the one under the cursor.
Bursts == {<<k>> : k \in Keys} \cup {<<"delete", "delete">>, <<"duplicate", "delete">>, <<"enter", "left">>,
                                     <<"duplicate", "enter">>, <<"delete", "enter">>, <<"cancel", "reorder up">>}
NoClick == [what |-> "none", row |-> 1]

Spend == eventsLeft > 0 /\ eventsLeft' = eventsLeft - 1

Build(keys, by, click, focused) ==
    /\ win' = Frame(win, keys, by, click, focused)
    /\ win' # win
    /\ wrong' = wrong \cup IF click = NoClick /\ by = 0 THEN Wrong(win, win', keys) ELSE {}
    /\ UNCHANGED env

Redraw == Build(<<>>, 0, NoClick, TRUE) /\ UNCHANGED eventsLeft
PressKeys == Spend /\ \E keys \in Bursts : Build(keys, 0, NoClick, TRUE)
MoveCursor == Spend /\ \E by \in {-1, 1} : Build(<<>>, by, NoClick, TRUE)
Click == Spend /\ \E r \in 1..Len(win.rows), what \in {"arrow", "name"} :
            Build(<<>>, 0, [what |-> what, row |-> r], TRUE)
Blur == win.input # NoInput /\ Spend /\ Build(<<>>, 0, NoClick, FALSE)

TypeText ==
    /\ win.input # NoInput
    /\ Spend
    /\ \E t \in Typed : win' = [win EXCEPT !.input.text = t]
    /\ UNCHANGED <<env, wrong>>

DropCaches ==
    /\ Spend
    /\ win' = [win EXCEPT !.tree = NoTree, !.roots = <<>>, !.rows = <<>>, !.seen = <<-1, FALSE>>]
    /\ UNCHANGED <<env, wrong>>

\* The debugger: the thread runs, stops, or another frame is selected.
Select ==
    /\ Spend
    /\ \/ env.susp /\ env' = [env EXCEPT !.susp = FALSE]
       \/ env.at < MaxStops /\ \E f \in DOMAIN LocalsOf : env' = [at |-> env.at + 1, susp |-> TRUE, frame |-> f]
    /\ UNCHANGED <<win, wrong>>

\* save_state, and load_state in the next session.
SavedTexts(w) == LET s == SelectSeq(w.exprs, LAMBDA e : e.special = "none")
                 IN  [i \in 1..Len(s) |-> s[i].text]
Loaded(texts) ==
    [exprs |-> <<Locals(1)>> \o [i \in 1..Len(texts) |-> Expression(i + 1, texts[i], "none")],
     roots |-> <<>>, tree |-> NoTree, rows |-> <<>>, expanded |-> {<<1>>}, open |-> {}, path |-> <<>>,
     idx |-> 1, input |-> NoInput, justStarted |-> FALSE, refresh |-> FALSE,
     seen |-> <<-1, FALSE>>, good |-> FALSE, nextId |-> Len(texts) + 2]
Restart ==
    /\ Spend
    /\ win.roots # <<>>
    /\ win' = Loaded(SavedTexts(win))
    /\ UNCHANGED <<env, wrong>>

Init ==
    /\ win = Loaded(<<<<"p">>>>)
    /\ env \in [at : {1}, susp : BOOLEAN, frame : DOMAIN LocalsOf]
    /\ eventsLeft = MaxEvents
    /\ wrong = {}

WatchesNext ==
    \/ Redraw
    \/ PressKeys
    \/ MoveCursor
    \/ Click
    \/ Blur
    \/ TypeText
    \/ DropCaches
    \/ Select
    \/ Restart
-----------------------------------------------------------------------------
(* Properties.                                                                *)

Built == win.roots # <<>>
UpToDate == Built /\ win.seen = <<env.at, env.susp>>

\* Between frames the roots of the tree are those of the expressions and in their
\* order, with one placeholder at the end, and an input that is open belongs to
\* the row of the cursor; the values formatted at a stop are all of one, when the
\* thread is suspended everything shown is of the selected stop, and what was
\* formatted while the thread ran belongs to values evaluated at a stop, which are
\* kept, and is gone when it stops again; the rows are the expressions
\* unfolded, the cursor stands on one of them; keys changed no expression but the
\* one whose row was under the cursor when they were pressed, and nothing but the
\* user moved the cursor off a row that is still there.
WatchesRight ==
    /\ wrong = {}
    /\ Built =>
         /\ Len(win.roots) = Len(win.exprs)
         /\ \A i \in 1..Len(win.exprs) :
              /\ win.roots[i] = <<win.exprs[i].id>>
              /\ win.tree[win.roots[i]].text = win.exprs[i].text
              /\ (win.exprs[i].special = "add") = (i = Len(win.exprs))
         /\ win.idx \in 1..Len(win.rows)
         /\ win.input # NoInput => win.path = <<win.input.id>> /\ win.path \in Range(win.roots)
    /\ LET shown == UNION {Range(win.tree[win.rows[r]].shown) : r \in 1..Len(win.rows)}
       IN  /\ Cardinality(shown \ {-1, 0, Live}) <= 1
           /\ Live \in shown => win.good
           /\ UpToDate /\ env.susp =>
                \A r \in 1..Len(win.rows) :
                    win.tree[win.rows[r]].shown[IF win.rows[r] \in win.open THEN 2 ELSE 1] = env.at
=============================================================================
