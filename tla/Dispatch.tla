------------------------------ MODULE Dispatch ------------------------------
(* The immediate-mode interface between two frames: input is dispatched by    *)
(* the tree of the frame on the screen, picked up by the widgets of the next  *)
(* frame that have the same identity, and focus, dialog and tooltip are       *)
(* settled when that one is complete.  The tree is that of two windows with   *)
(* tabs; what they do with a key is what the windows of the debugger do.      *)
(* Positions are a few places of the screen; sizes and drawing are left out.  *)
EXTENDS Integers, Sequences, FiniteSets, SequencesExt

CONSTANT
    Keys,       \* "open" a dialog, "tip", "esc", "x": a character
    Places,     \* of the mouse
    MaxEvents

VARIABLES
    prev,       \* the last frame: ids, drawn, cap (keys), modal, chain (of focus), fresh, hung (a dialog)
    ui,         \* what survives a frame: keys, pos, held, click, dropPos, drag, owner, tip
    inputLeft,
    amiss       \* history: what went wrong in the last frame

dispatchVars == <<prev, ui, inputLeft, amiss>>

Windows == {"A", "B"}
C == [A |-> "cA", B |-> "cB"]       \* the content widget of a window
T == [A |-> "tA", B |-> "tB"]       \* its tabs
I == [A |-> "iA", B |-> "iB"]       \* a table in it
Layers == <<"root", "content", "dialog", "tooltip">>
InOrder == <<"root", "content", "cA", "iA", "eA", "tA", "cB", "iB", "tB", "dialog", "D", "iD", "tooltip", "tip">>
Ids == {"root", "content", "cA", "iA", "eA", "tA", "cB", "iB", "tB", "dialog", "D", "iD", "tooltip", "tip"}
ParentOf == [content |-> "root", dialog |-> "root", tooltip |-> "root", cA |-> "content", tA |-> "content",
             cB |-> "content", tB |-> "content", iA |-> "cA", eA |-> "iA", iB |-> "cB",
             D |-> "dialog", iD |-> "D", tip |-> "tooltip"]
Up(w) == IF w = "root" THEN <<>> ELSE <<ParentOf[w]>>
Ancestry(w) == LET a == Up(w)
                   b == IF a = <<>> THEN <<>> ELSE Up(a[1])
                   c == IF b = <<>> THEN <<>> ELSE Up(b[1])
                   d == IF c = <<>> THEN <<>> ELSE Up(c[1])
               IN  <<w>> \o a \o b \o c \o d

\* Where a widget is, what it wants of the mouse, and what can be dragged out of it.
Covers(w) == CASE w \in {"root", "content", "dialog", "tooltip"} -> Places
               [] w \in {"cA", "iA", "tip"} -> {1} [] w = "eA" -> {} [] w = "tA" -> {2} [] w \in {"cB", "iB"} -> {3}
               [] w = "tB" -> {} [] w = "D" -> Places \ {1} [] w = "iD" -> {3}
Wants(w) == CASE w \in {"cA", "cB"} -> {"CLICK_SUBTREE", "DRAG_IN", "HOVER_SUBTREE"}
              [] w = "iA" -> {"CLICK", "HOVER"} [] w \in {"tA", "tB"} -> {"CLICK", "DRAG_OUT", "DRAG_IN"}
              [] w = "iB" -> {"DRAG_OUT", "CLICK"} [] w = "D" -> {"CLICK"} [] OTHER -> {}
Droppable(w) == w \in {"tA", "tB"}      \* DragWhat::Window; others are NoDrop

None == "none"
NoKeys == [w \in Ids |-> <<>>]
MouseOf(f, w) == IF w \in f.ids THEN Wants(w) \cup (IF w = "dialog" THEN f.modal ELSE {}) ELSE {}

-----------------------------------------------------------------------------
(* buffer_input *)

KeyEvent(u, k) == [u EXCEPT !.keys = Append(@, k)]
FocusEvent(u) == [u EXCEPT !.drag = None]
MoveEvent(u, p) == [u EXCEPT !.pos = p]
PressEvent(u, p) == [u EXCEPT !.click = p, !.pos = p, !.held = TRUE]

\* Mutant: a press and its release in one batch do not end what they start.
MutantReleaseEvent(u, p) ==
    [u EXCEPT !.dropPos = IF u.drag # None THEN p ELSE @, !.pos = p, !.held = FALSE]

ReleaseEvent(u, p) ==
    [u EXCEPT !.dropPos = IF u.drag # None \/ u.click # 0 THEN p ELSE @, !.pos = p, !.held = FALSE]

-----------------------------------------------------------------------------
(* dispatch_input, by the previous frame *)

\* Keys go to the first widget of the focus chain that captures them.
Captures(f, w, k) == w = "content" \/ <<w, k>> \in f.cap
RECURSIVE Deliver(_, _, _, _)
Deliver(f, chain, keys, got) ==
    IF chain = <<>> THEN got
    ELSE LET w    == chain[1]
             mine == SelectSeq(keys, LAMBDA k : Captures(f, w, k))
         IN  Deliver(f, Tail(chain), SelectSeq(keys, LAMBDA k : ~Captures(f, w, k)),
                     [got EXCEPT ![w] = mine])

\* The last widget in drawing order under the cursor that captures the mouse.
FindWidgetAtCursor(f, p) ==
    LET under == {i \in 1..Len(InOrder) :
                    LET w == InOrder[i]
                    IN  /\ w \in f.drawn
                        /\ \A a \in Range(Ancestry(w)) : p \in Covers(a)
                        /\ MouseOf(f, w) # {}}
    IN  IF under = {} THEN None ELSE InOrder[CHOOSE i \in under : \A j \in under : j <= i]

Path(w) == IF w = None THEN <<>> ELSE Ancestry(w)
First(path, S(_)) == LET i == {j \in 1..Len(path) : S(path[j])} IN IF i = {} THEN None ELSE path[CHOOSE j \in i : \A k \in i : j <= k]
Reports(w, evs) == IF w = None THEN {} ELSE {w} \X evs

\* A click goes to the innermost widget that wants it or can be dragged, CLICK_SUBTREE to all around it.
Clicked(f, u) ==
    IF u.click = 0 THEN [drag |-> u.drag, m |-> {}]
    ELSE LET path == Path(FindWidgetAtCursor(f, u.click))
             at   == First(path, LAMBDA w : MouseOf(f, w) \cap {"CLICK", "DRAG_OUT"} # {})
         IN  [drag |-> IF at # None /\ "DRAG_OUT" \in MouseOf(f, at) THEN at ELSE None,
              m |-> (IF at = None THEN {} ELSE Reports(at, MouseOf(f, at) \cap {"CLICK"}))
                    \cup UNION {Reports(w, MouseOf(f, w) \cap {"CLICK_SUBTREE"}) : w \in Range(path)}]

\* Then the drag goes on or ends.
Dragged(f, u, c) ==
    IF c.drag = None \/ c.drag \notin f.ids \/ "DRAG_OUT" \notin MouseOf(f, c.drag) THEN [drag |-> None, m |-> c.m]
    ELSE LET pos  == IF u.dropPos # 0 THEN u.dropPos ELSE u.pos
             into == IF Droppable(c.drag) THEN First(Path(FindWidgetAtCursor(f, pos)), LAMBDA w : "DRAG_IN" \in MouseOf(f, w)) ELSE None
         IN  [drag |-> IF u.dropPos = 0 THEN c.drag ELSE None,
              m |-> c.m \cup Reports(c.drag, {"DRAG_OUT"})
                       \cup Reports(into, {"DRAG_IN"} \cup IF u.dropPos # 0 THEN {"DROP"} ELSE {})]

Hovered(f, u, d) ==
    IF d.drag # None THEN d.m
    ELSE LET path == Path(FindWidgetAtCursor(f, u.pos))
             in   == First(path, LAMBDA w : "HOVER" \in MouseOf(f, w))
         IN  d.m \cup Reports(in, {"HOVER"})
                 \cup UNION {Reports(w, MouseOf(f, w) \cap {"HOVER_SUBTREE"}) : w \in Range(path)}

DispatchInput(f, u) ==
    LET d == Dragged(f, u, Clicked(f, u))
    IN  [keys |-> Deliver(f, f.chain, u.keys, NoKeys), mouse |-> Hovered(f, u, d), drag |-> d.drag]

-----------------------------------------------------------------------------
(* Building a frame *)

RECURSIVE Focus(_, _)
Focus(fc, w) == IF w = "root" THEN fc
                ELSE IF fc[ParentOf[w]] # <<>> THEN fc
                ELSE Focus([fc EXCEPT ![ParentOf[w]] = <<w>>], ParentOf[w])

Multifocus(fc, w) == LET p == ParentOf[w]
                     IN  IF fc[p] = <<>> THEN Focus(fc, w)
                         ELSE IF w \in Range(fc[p]) THEN fc ELSE [fc EXCEPT ![p] = Append(@, w)]

\* relative_focus() to the parent.
RelativeFocus(fc, w) == IF fc[ParentOf[w]] # <<>> THEN fc ELSE [fc EXCEPT ![ParentOf[w]] = <<w>>]

AddWidgets(s, ws) == [s EXCEPT !.ids = @ \cup ws]
Captured(s, w, ks) == [s EXCEPT !.cap = @ \cup ({w} \X ks)]

\* check_tooltip() of a table.
CheckTooltip(s, w, got) ==
    LET pressed == "tip" \in Range(got.keys[w])
        s1 == Captured(s, w, {"tip"})
        s2 == Captured(s1, w, {"esc"})
    IN  IF s.tip \notin {None, w} THEN s1
        ELSE IF s.tip = w /\ pressed THEN s1
        ELSE IF s.tip = w /\ "esc" \in Range(got.keys[w]) THEN s2
        ELSE IF s.tip = w THEN [AddWidgets(s2, {"tip"}) EXCEPT !.tipHung = TRUE]
        ELSE IF pressed THEN [AddWidgets(s1, {"tip"}) EXCEPT !.tip = w, !.tipHung = TRUE]
        ELSE s1

CloseDialog(s) == [s EXCEPT !.owner = None, !.hung = FALSE]

\* check_dialog() and make_dialog_frame() of a window, and the dialog it builds there.
Dialog(s, w, got) ==
    LET mine == s.owner = w \/ (s.owner = None /\ "open" \in Range(got.keys[w]))
        s1   == [Captured(s, "dialog", {"esc"}) EXCEPT !.owner = w, !.modal = {"CLICK"}]
        s2   == [AddWidgets(s1, {"D", "iD"}) EXCEPT !.hung = TRUE, !.fc = Focus(@, "iD")]
        s3   == Captured(s2, "iD", {"x", "open"})
    IN  IF ~mine THEN s
        ELSE IF <<"dialog", "CLICK">> \in got.mouse \/ "esc" \in Range(got.keys["dialog"]) THEN CloseDialog(s1)
        ELSE IF "open" \in Range(got.keys["iD"]) THEN CloseDialog(s3) ELSE s3

\* The layout focuses the content and the tabs of the active window, before the windows are built.
Frames(s, open, active) ==
    LET s1 == AddWidgets(s, {C[v] : v \in open} \cup {T[v] : v \in open})
    IN  IF active \notin open THEN s1 ELSE [s1 EXCEPT !.fc = Multifocus(Multifocus(@, C[active]), T[active])]

WindowBuild(s, v, edit, got) ==
    LET s1 == [AddWidgets(s, {I[v]}) EXCEPT !.fc = Focus(@, I[v])]
        s2 == Captured(CheckTooltip(s1, I[v], got), C[v], {"open"})
        s3 == IF v = "A" /\ edit
              THEN [Captured(AddWidgets(s2, {"eA"}), "eA", {"x"}) EXCEPT !.fc = RelativeFocus(@, "eA")] ELSE s2
    IN  Dialog(s3, C[v], got)

Built(open, active, edit, got) ==
    LET s0 == [ids |-> Range(Layers), fc |-> [w \in Ids |-> <<>>], cap |-> {},
               modal |-> {}, hung |-> FALSE, tipHung |-> FALSE, owner |-> ui.owner, tip |-> ui.tip]
        s1 == Frames(s0, open, active)
        s2 == IF "A" \in open THEN WindowBuild(s1, "A", edit, got) ELSE s1
    IN  IF "B" \in open THEN WindowBuild(s2, "B", edit, got) ELSE s2

-----------------------------------------------------------------------------
(* end_build *)

RECURSIVE Chain(_, _)
Chain(fc, w) == FlattenSeq([i \in 1..Len(fc[w]) |-> Chain(fc, fc[w][i])]) \o <<w>>

\* Mutant: a dialog nobody asked for keeps its owner.
MutantDialogSettled(s) == s
DialogSettled(s) == [s EXCEPT !.owner = IF s.hung THEN @ ELSE None, !.tip = IF s.tipHung THEN @ ELSE None]

RootFocus(s) == [s EXCEPT !.fc["root"] = <<IF s.owner # None THEN "dialog" ELSE "content">>]
TooltipSettled(s, chain) ==
    IF s.tip # None /\ s.tip \notin Range(chain) THEN [s EXCEPT !.tip = None, !.tipHung = FALSE] ELSE s

\* focus_frame_idx - frame_idx, once a new frame has begun: 0 if the widget had focus in the last one.
Carried(f, w, ids) == IF w \in ids /\ w \in f.ids THEN f.fresh[w] - 1 ELSE -1
Checks == {"cA", "iA", "iB"}        \* widgets that call check_focus()

\* determine_focus_chain: redraw if a widget that asked was told something that is no longer true.
\* Mutant: only losing focus counts.
MutantRedraw(old, ids, chain) == \E w \in Checks \cap ids : w \notin Range(chain) /\ old[w] = 0
Redraw(old, ids, chain) ==
    \E w \in Checks \cap ids : IF w \in Range(chain) THEN old[w] < 0 ELSE old[w] = 0

Fresh(old, ids, chain) == [w \in Ids |-> IF w \in Range(chain) THEN 1 ELSE IF old[w] = 0 THEN 0 ELSE -1]
Drawn(s) == s.ids \ ((IF s.hung THEN {} ELSE {"D", "iD"}) \cup (IF s.tipHung THEN {} ELSE {"tip"}))

\* What a user would call wrong with the frame: input that went elsewhere than to what was on the
\* screen, a focus that a widget was told wrongly, a dialog or tooltip without its owner.
Wrong(f, u, got, s, chain, old, redraw) ==
    LET given == {w \in Ids : got.keys[w] # <<>>}
        num(n) == Cardinality({w \in Ids : <<w, n>> \in got.mouse})
    IN  {n \in {"stray key", "lost key", "told wrong", "drag", "drop", "dialog", "tooltip"} :
         CASE n = "stray key"  -> ~(given \subseteq Range(f.chain)) \/ (f.hung /\ \E w \in given : w \notin {"root", "dialog", "D", "iD"})
           [] n = "lost key"   -> ~f.hung /\ f.ids # {} /\ \E k \in Keys :
                                    Cardinality({i \in 1..Len(u.keys) : u.keys[i] = k}) #
                                    Cardinality({<<w, i>> \in Ids \X (1..Len(u.keys)) : i <= Len(got.keys[w]) /\ got.keys[w][i] = k})
           [] n = "told wrong" -> ~redraw /\ \E w \in Checks \cap s.ids : (old[w] = 0) # (w \in Range(chain))
           [] n = "drag"       -> (got.drag # None /\ ~u.held) \/ num("DRAG_OUT") > 1 \/ num("DRAG_IN") > 1
           [] n = "drop"       -> \E w \in Ids : <<w, "DROP">> \in got.mouse /\ (<<w, "DRAG_IN">> \notin got.mouse \/ u.held)
           [] n = "dialog"     -> \/ s.hung # (s.owner # None)
                                  \/ s.hung /\ (s.owner \notin s.ids \/ chain # <<"iD", "D", "dialog", "root">>)
                                  \/ ~s.hung /\ "dialog" \in Range(chain)
           [] n = "tooltip"    -> s.tipHung # (s.tip # None) \/ (s.tipHung /\ (s.tip \notin Range(chain) \/ s.hung))}

Frame(open, active, edit) ==
    \E got \in {DispatchInput(prev, ui)} :
    \E s2 \in {RootFocus(DialogSettled(Built(open, active, edit, got)))} :
    \E chain \in {Chain(s2.fc, "root")} :
    \E s \in {TooltipSettled(s2, chain)}, old \in {[w \in Ids |-> Carried(prev, w, s2.ids)]} :
        /\ prev' = [ids |-> s.ids, drawn |-> Drawn(s), cap |-> s.cap, modal |-> s.modal, chain |-> chain,
                    fresh |-> Fresh(old, s.ids, chain), hung |-> s.hung]
        /\ ui' = [ui EXCEPT !.keys = <<>>, !.click = 0, !.dropPos = 0, !.drag = got.drag, !.owner = s.owner, !.tip = s.tip]
        /\ amiss' = Wrong(prev, ui, got, s, chain, old, Redraw(old, s.ids, chain))
        /\ UNCHANGED inputLeft

\* Input until the next frame.  A press that follows a release in one batch is left out: the code
\* keeps one of each and takes the earlier release for the end of the later drag.
Input(u) == inputLeft > 0 /\ inputLeft' = inputLeft - 1 /\ ui' = u /\ UNCHANGED <<prev, amiss>>

Init ==
    /\ prev = [ids |-> {}, drawn |-> {}, cap |-> {}, modal |-> {}, chain |-> <<>>,
               fresh |-> [w \in Ids |-> -1], hung |-> FALSE]
    /\ ui = [keys |-> <<>>, pos |-> 1, held |-> FALSE, click |-> 0, dropPos |-> 0, drag |-> None, owner |-> None, tip |-> None]
    /\ inputLeft = MaxEvents
    /\ amiss = {}

DispatchNext ==
    \/ \E k \in Keys : Len(ui.keys) < 2 /\ Input(KeyEvent(ui, k))
    \/ \E p \in Places : \/ ~ui.held /\ ui.dropPos = 0 /\ Input(PressEvent(ui, p))
                         \/ ui.held /\ Input(ReleaseEvent(ui, p))
                         \/ p # ui.pos /\ Input(MoveEvent(ui, p))
    \/ Input(FocusEvent(ui))
    \/ \E open \in SUBSET Windows \ {{}} : \E active \in open : \E edit \in BOOLEAN : Frame(open, active, edit)

-----------------------------------------------------------------------------

\* Input reaches only what was on the screen and had focus when it was made, and while no dialog is
\* up none is lost; a widget that asked whether it has focus was told so or is built again; a drag is
\* of one widget and ends with the button; a dialog has focus, and it and a tooltip go with their owner.
DispatchRight == amiss = {}
=============================================================================
