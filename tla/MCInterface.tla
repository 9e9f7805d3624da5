---------------------------- MODULE MCInterface -----------------------------
(* The components around the debugger proper, which share no state: one of   *)
(* them moves in a behaviour. Pool, Sessions and Focus are extended, as      *)
(* theorems are about them; the bounds of the others are those of the WITH   *)
(* clauses.                                                                  *)
EXTENDS Pool, Sessions, Focus

\* Two threads: the first may stop twice, the other once.
StopBounds == <<2, 1>>

VARIABLES
    which, layout, landed, kids, length, followed, W, hay, needle, caseSensitive,
    ptr, answer, tty, inbuf, start, reading, alone, inputDue, exact,
    term, prev, drawing, resized, ti, clipboard, base, keysLeft, lastUi, ui,
    inputLeft, amiss, tree, phase

Windows_ == INSTANCE Layout
    WITH Columns <- <<<<<<1>>, <<2>>>>, <<<<3>>>>>>

Walls_ == INSTANCE Walls
    WITH MaxKids <- 3, FixedSize <- 1, Units <- {4, 8}, MaxLength <- 7

Fuzzy_ == INSTANCE FuzzyMatch
    WITH Widths <- {1, 2}, MaxHay <- 5, MaxNeedle <- 3

Terminal_ == INSTANCE Terminal
    WITH due <- inputDue, BufLen <- 20, MaxBurst <- 3, Plain <- {"a", "uv", "M-a", "F1", "up",
    "M-up", "pgup", "C-up", "mouse", "focus", "unknown"}, Lone <- {"esc", "M-O",
    "M-["}, Widths <- {3, 4}, Styles <- {0, 1}

Text_ == INSTANCE TextInput
    WITH StartText <- <<"a", "nl", "a", " ", "a">>, MaxUndo <- 3, KeepUndo <- 2,
    MaxLen <- 6, MaxKeys <- 4

Dispatch_ == INSTANCE Dispatch
    WITH prev <- lastUi, Keys <- {"open", "tip", "esc", "x"}, Places <- 1..3,
    MaxEvents <- 3

Auto_ == INSTANCE Autolayout
    WITH RootSize <- 5, Kinds <- {<<"fixed", 2, FALSE, 0, 99>>, <<"text", 1,
    TRUE, 0, 99>>, <<"children", 0, TRUE, 0, 4>>, <<"children", 0, FALSE, 2, 99>>,
    <<"parent", 0, TRUE, 0, 99>>, <<"rem", 1, FALSE, 4, 99>>, <<"rem", 1, FALSE, 0,
    1>>, <<"rem", 2, TRUE, 0, 99>>, <<"rem", 2, TRUE, 0, 1>>}, MaxWidgets <- 4

layoutAll == <<layout, landed>>
wallsAll == <<kids, length, followed>>
fuzzyAll == <<W, hay, needle, caseSensitive, ptr, answer>>
inputAll == <<tty, inbuf, start, reading, alone, inputDue, exact>>
screenAll == <<term, prev, drawing, resized>>
textAll == <<ti, clipboard, base, keysLeft>>
dispatchAll == <<lastUi, ui, inputLeft, amiss>>
autoAll == <<tree, phase>>

Components ==
    {"pool", "focus", "layout", "walls", "sessions", "fuzzy", "input", "screen", "text",
    "dispatch", "auto"}

\* The component that moves; the variables of the others are not used.
MCInit ==
    /\ which \in Components
    /\ Init /\ SessionsInit /\ FocusInit
    /\ IF which = "layout" THEN Windows_!Init
       ELSE layout = 0 /\ landed = 0
    /\ IF which = "walls" THEN Walls_!Init
       ELSE kids = 0 /\ length = 0 /\ followed = 0
    /\ IF which = "fuzzy" THEN Fuzzy_!Init
       ELSE W = 0 /\ hay = 0 /\ needle = 0 /\ caseSensitive = 0 /\ ptr = 0 /\ answer = 0
    /\ IF which = "input" THEN Terminal_!InputInit
       ELSE tty = 0 /\ inbuf = 0 /\ start = 0 /\ reading = 0 /\ alone = 0 /\
            inputDue = 0 /\ exact = 0
    /\ IF which = "screen" THEN Terminal_!ScreenInit
       ELSE term = 0 /\ prev = 0 /\ drawing = 0 /\ resized = 0
    /\ IF which = "text" THEN Text_!Init
       ELSE ti = 0 /\ clipboard = 0 /\ base = 0 /\ keysLeft = 0
    /\ IF which = "dispatch" THEN Dispatch_!Init
       ELSE lastUi = 0 /\ ui = 0 /\ inputLeft = 0 /\ amiss = 0
    /\ IF which = "auto" THEN Auto_!Init
       ELSE tree = 0 /\ phase = 0

MCNext ==
    /\ IF which = "pool" THEN Next ELSE UNCHANGED poolVars
    /\ IF which = "focus" THEN FocusNext ELSE UNCHANGED focusVars
    /\ IF which = "layout" THEN Windows_!Next ELSE UNCHANGED layoutAll
    /\ IF which = "walls" THEN Walls_!Next ELSE UNCHANGED wallsAll
    /\ IF which = "sessions" THEN SessionsNext ELSE UNCHANGED sessionsVars
    /\ IF which = "fuzzy" THEN Fuzzy_!Next ELSE UNCHANGED fuzzyAll
    /\ IF which = "input" THEN Terminal_!InputNext ELSE UNCHANGED inputAll
    /\ IF which = "screen" THEN Terminal_!ScreenNext ELSE UNCHANGED screenAll
    /\ IF which = "text" THEN Text_!TextInputNext ELSE UNCHANGED textAll
    /\ IF which = "dispatch" THEN Dispatch_!DispatchNext ELSE UNCHANGED dispatchAll
    /\ IF which = "auto" THEN Auto_!AutolayoutNext ELSE UNCHANGED autoAll
    /\ UNCHANGED which

MCSpec == MCInit /\ [][MCNext]_<<which, poolVars, focusVars, layoutAll,
    wallsAll, sessionsVars, fuzzyAll, inputAll, screenAll, textAll, dispatchAll, autoAll>>

\* The windows are a tree without waste, a dropped window lands where the user
\* pointed, the saved layout is the one restored (Layout), and walls between
\* windows follow the mouse (Walls); widgets get the space their parents
\* have (Autolayout).
LayoutRight ==
    /\ which = "layout" => Windows_!LayoutSound /\ Windows_!DropLands /\ Windows_!LayoutPersists
    /\ which = "walls" => Walls_!WallsSound
    /\ which = "auto" => Auto_!AutolayoutRight

\* What is typed and clicked arrives once, at the widget it was meant for
\* (Dispatch), a text field edits what it shows (TextInput), and what a search
\* box finds is what occurs, and nothing else (FuzzyMatch).
WidgetsRight ==
    /\ which = "dispatch" => Dispatch_!DispatchRight
    /\ which = "text" => Text_!TextInputRight
    /\ which = "fuzzy" => Fuzzy_!FuzzyExact

\* Keys arrive as they were typed, and the terminal shows what was drawn (Terminal).
TerminalExact ==
    /\ which = "input" => Terminal_!InputExact
    /\ which = "screen" => Terminal_!ScreenExact
=============================================================================
