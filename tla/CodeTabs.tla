------------------------------ MODULE CodeTabs ------------------------------
(* The code window and the disassembly window: their tabs, and how each       *)
(* follows the other.  The stack window asks both to show the selected frame; *)
(* moving in one of them makes the other follow ("cascade").  A frame of the  *)
(* UI builds the stack window, then the code window, then the disassembly,    *)
(* whose own requests wait for the next frame.                                *)
EXTENDS Integers, Sequences, FiniteSets

CONSTANTS
    LineAt,     \* function -> sequence of <<file, line>>, by position in it
    MaxEvents   \* bound: keys of the user, stops, changes of the symbols and restarts

VARIABLES
    code,       \* CodeWindow: tabs and the selected one (counted from 1)
    asm,        \* DisassemblyWindow, likewise
    toSource,   \* state.should_scroll_source
    codeSeen,   \* CodeWindow::disassembly_scrolled_to
    asmSeen,    \* DisassemblyWindow::source_scrolled_to
    addr,       \* state.selected_addr: <<function, position>>
    symbols,    \* "loading", "loaded" or "failed"
    stack,      \* <<function, position>> of the selected frame, if there is one
    ask,        \* what the stack window will ask: "follow", "retry" or "none"
    frameTold,  \* history: the frame both windows were last told to show
    pins,       \* history: what the user pinned, in either window
    events,     \* how many of those there were
    quiet       \* history: frames without key or request, up to two

windowVars == <<code, asm, toSource, codeSeen, asmSeen, addr>>
codeTabsVars == <<windowVars, symbols, stack, ask, frameTold, pins, events, quiet>>

Functions == DOMAIN LineAt
Files     == UNION {{LineAt[f][i][1] : i \in DOMAIN LineAt[f]} : f \in Functions}
Nowhere   == <<>>
Nothing   == 0    \* the path of a frame without a line, the function of raw memory

\* Mutant: whoever is scrolled makes the other window follow.
MutantRequest(to, soft, cascade) == [to |-> to, soft |-> soft, cascade |-> TRUE]
Request(to, soft, cascade) == [to |-> to, soft |-> soft, cascade |-> cascade]
NoRequest == Request(Nowhere, FALSE, FALSE)

Tab(what) == [what |-> what, eph |-> TRUE, cur |-> 1, err |-> FALSE]
Count(w)  == Len(w.tabs)
Shown(w)  == IF w.sel \in 1..Count(w) THEN w.tabs[w.sel] ELSE Tab(Nothing)

Init ==
    /\ code = [tabs |-> <<>>, sel |-> 1] /\ asm = [tabs |-> <<>>, sel |-> 1]
    /\ toSource = NoRequest /\ codeSeen = Nowhere /\ asmSeen = Nowhere /\ addr = Nowhere
    /\ symbols = "loading" /\ stack = Nowhere /\ ask = "none"
    /\ frameTold = Nowhere /\ pins = {} /\ events = 0 /\ quiet = 0
-----------------------------------------------------------------------------
(* TabsState and Tabs, for both windows.                                      *)

RemoveAt(s, i)    == SubSeq(s, 1, i - 1) \o SubSeq(s, i + 1, Len(s))
InsertAt(s, i, x) == SubSeq(s, 1, i - 1) \o <<x>> \o SubSeq(s, i, Len(s))

CloseTab(w, i) ==
    [tabs |-> RemoveAt(w.tabs, i), sel |-> IF w.sel > i THEN w.sel - 1 ELSE w.sel]

\* The tab at `from` goes to `to`; the selection stays on its tab.
Reorder(w, from, to) ==
    IF from = to \/ from > Count(w) \/ to > Count(w) THEN w
    ELSE LET left == IF w.sel > from THEN w.sel - 1 ELSE w.sel
         IN  [tabs |-> InsertAt(RemoveAt(w.tabs, from), to, w.tabs[from]),
              sel  |-> IF w.sel = from THEN to ELSE IF left >= to THEN left + 1 ELSE left]

\* Mutant: the selection is left where it was when tabs before it are closed.
MutantCloseExcess(w) ==
    [w EXCEPT !.tabs = SelectSeq(@, LAMBDA t : ~t.eph \/ t = Shown(w))]

\* Of two or more ephemeral tabs only the selected one stays.
CloseExcessEphemeralTabs(w) ==
    LET eph    == {i \in 1..Count(w) : w.tabs[i].eph}
        drop   == IF Cardinality(eph) <= 1 THEN {} ELSE eph \ {w.sel}
        kept   == 1..Count(w) \ drop
        nth(n) == CHOOSE i \in kept : Cardinality({j \in kept : j <= i}) = n
    IN  [tabs |-> [n \in 1..Cardinality(kept) |-> w.tabs[nth(n)]],
         sel  |-> w.sel - Cardinality({i \in drop : i < w.sel})]

\* Tabs::finish: the selection is clamped, then moved by a key.
FinishTabs(w, op) ==
    LET n == Count(w)
        s == IF n = 0 THEN 1 ELSE IF w.sel > n THEN n ELSE w.sel
    IN  [w EXCEPT !.sel = IF op = "next" /\ n > 0 THEN (s % n) + 1 ELSE s]

\* handle_tabs_action: closing an ephemeral tab pins it, if it shows something.
HandleTabsAction(w, op) ==
    LET closed(i) == IF i > Count(w) THEN w
                     ELSE IF w.tabs[i].eph /\ w.tabs[i].what # Nothing
                     THEN [w EXCEPT !.tabs[i].eph = FALSE]
                     ELSE CloseTab(w, i)
    IN  CASE op = "close"  -> closed(w.sel)
          [] op = "middle" -> closed(1)
          [] op = "down"   -> Reorder(w, w.sel, w.sel + 1)
          [] op = "drag"   -> Reorder(w, 1, Count(w))
          [] OTHER         -> w
-----------------------------------------------------------------------------
(* The code window.                                                           *)

SwitchToFile(w, path) ==
    LET at == {i \in 1..Count(w) : w.tabs[i].what = path}
    IN  IF at # {} THEN [w EXCEPT !.sel = CHOOSE i \in at : \A j \in at : i <= j]
        ELSE [tabs |-> Append(w.tabs, Tab(path)), sel |-> Count(w) + 1]

\* A request of one that is only for windows in trouble, or of any window.
Scroll(w, r) ==
    IF r = NoRequest \/ (r.soft /\ Shown(w).what # Nothing) THEN w
    ELSE LET v == SwitchToFile(w, r.to[1])
         IN  IF r.to[1] = Nothing THEN v ELSE [v EXCEPT !.tabs[v.sel].cur = r.to[2]]

\* The instructions of a source line, in the order of their addresses.
AddrsOf(place) ==
    LET at == {a \in Functions \X {1, 2} : LineAt[a[1]][a[2]] = place}
        before(a, b) == a[1] < b[1] \/ (a[1] = b[1] /\ a[2] < b[2])
    IN  [n \in 1..Cardinality(at) |->
            CHOOSE a \in at : Cardinality({b \in at : before(b, a)}) = n - 1]

\* The one among them that is closest to the disassembly's cursor: the cursor's
\* own (or the next one, if the user asks), else one of the same function.
ClosestAddr(addrs, next) ==
    LET own  == {n \in DOMAIN addrs : addrs[n] = addr}
        near == {n \in DOMAIN addrs : addr # Nowhere /\ addrs[n][1] = addr[1]}
    IN  IF own # {} THEN addrs[(((CHOOSE n \in own : TRUE) - 1 + next) % Len(addrs)) + 1]
        ELSE IF near # {} THEN addrs[CHOOSE n \in near : \A m \in near : n <= m]
        ELSE addrs[1]

\* Key of the code window: an operation, and a file or line where it has one.
\* The result: the window, its note of what the disassembly was scrolled to, and
\* the request to the disassembly, `r` being the one of the stack window.
CodeBuild(k, src, r) ==
    LET early    == IF k.op = "open"
                    THEN LET v == SwitchToFile(code, k.what) IN [v EXCEPT !.tabs[v.sel].eph = FALSE]
                    ELSE IF k.op \in {"close", "down"} THEN HandleTabsAction(code, k.op) ELSE code
        suppress == src # NoRequest /\ (src.to[1] = Nothing \/ ~src.cascade)
        w        == FinishTabs(CloseExcessEphemeralTabs(Scroll(early, src)), k.op)
        v        == IF k.op = "move" /\ Count(w) > 0 THEN [w EXCEPT !.tabs[w.sel].cur = k.what] ELSE w
        key      == <<Shown(v).what, Shown(v).cur>>
        next     == IF k.op = "location" THEN 1 ELSE 0
        silent   == key[1] = Nothing \/ (key = codeSeen /\ next = 0)
        addrs    == IF symbols = "loaded" THEN AddrsOf(key) ELSE <<>>
    IN  [win  |-> IF k.op \in {"middle", "drag"} THEN HandleTabsAction(v, k.op) ELSE v,
         seen |-> IF silent THEN codeSeen ELSE key,
         req  |-> IF silent \/ suppress \/ addrs = <<>> THEN r
                  ELSE Request(ClosestAddr(addrs, next), FALSE, FALSE)]
-----------------------------------------------------------------------------
(* The disassembly window.                                                    *)

\* resolve_function_for_tab: a tab whose function cannot be found shows an error
\* until the caches are dropped.
Resolved(t) == [t EXCEPT !.err = @ \/ (t.what # Nothing /\ symbols # "loaded")]
Resolves(t) == t.what # Nothing /\ ~t.err /\ symbols = "loaded"

OpenFunction(w, to) ==
    LET tried == [w EXCEPT !.tabs = [i \in DOMAIN w.tabs |-> Resolved(w.tabs[i])]]
        at    == {i \in 1..Count(w) : Resolves(w.tabs[i]) /\ w.tabs[i].what = to[1]}
    IN  IF to = Nowhere THEN w                          \* symbols are still loading
        ELSE IF to[1] = Nothing THEN [tabs |-> Append(w.tabs, Tab(Nothing)), sel |-> Count(w) + 1]
        ELSE IF at # {} THEN [tried EXCEPT !.sel = CHOOSE i \in at : \A j \in at : i <= j]
        ELSE IF symbols # "loaded" THEN tried           \* the error goes to the log
        ELSE [tabs |-> Append(tried.tabs, Tab(to[1])), sel |-> Count(w) + 1]

\* A retry must not take the user away from a tab: the selection is restored.
FollowRequest(w, r) ==
    LET opened == OpenFunction(w, r.to)
    IN  IF r = NoRequest THEN w
        ELSE IF r.soft /\ Count(w) > 0 THEN [opened EXCEPT !.sel = w.sel]
        ELSE opened

AsmBuild(k, r) ==
    LET early    == IF k.op = "open"
                    THEN LET v == OpenFunction(asm, <<k.what, 1>>)
                         IN  IF symbols = "loaded" THEN [v EXCEPT !.tabs[v.sel].eph = FALSE] ELSE v
                    ELSE IF k.op \in {"close", "down"} THEN HandleTabsAction(asm, k.op) ELSE asm
        req      == IF k.op = "goto" /\ symbols = "loaded" THEN Request(k.what, FALSE, TRUE) ELSE r
        scrolls  == req # NoRequest /\ req.to # Nowhere /\ ~(req.soft /\ Count(early) > 0)
        suppress == req # NoRequest /\ (req.to = Nowhere \/ ~req.cascade)
        w        == FinishTabs(CloseExcessEphemeralTabs(FollowRequest(early, req)), k.op)
        shown    == IF Count(w) = 0 THEN Tab(Nothing) ELSE Resolved(w.tabs[w.sel])
        cur      == IF Resolves(shown) /\ scrolls THEN req.to[2]
                    ELSE IF Resolves(shown) /\ k.op = "move" THEN k.what ELSE shown.cur
        v        == IF Count(w) = 0 THEN w
                    ELSE [w EXCEPT !.tabs[w.sel] = [shown EXCEPT !.cur = cur]]
        key      == IF Resolves(shown) THEN <<shown.what, cur>> ELSE asmSeen
        frame    == IF stack # Nowhere /\ symbols = "loaded" /\ stack[1] # Nothing THEN stack ELSE Nowhere
    IN  [win  |-> IF k.op \in {"middle", "drag"} THEN HandleTabsAction(v, k.op) ELSE v,
         seen |-> key,
         addr |-> IF Resolves(shown) THEN key ELSE frame,
         req  |-> IF key = asmSeen \/ suppress THEN NoRequest
                  ELSE Request(LineAt[key[1]][key[2]], FALSE, FALSE)]
-----------------------------------------------------------------------------
(* Frames, and what happens between them.                                     *)

Lines == {<<Nothing, 1>>} \cup (Functions \X {1, 2})
Idle  == [win |-> "none", op |-> "none"]
Keys ==
    {Idle}
      \cup [win : {"code", "asm"}, op : {"close", "middle", "down", "drag", "next"}]
      \cup [win : {"code", "asm"}, op : {"move"}, what : {1, 2}]
      \cup [win : {"code"}, op : {"location"}]
      \cup [win : {"code"}, op : {"open"}, what : Files]
      \cup [win : {"asm"}, op : {"open"}, what : Functions]
      \cup [win : {"asm"}, op : {"goto"}, what : Lines \ {<<Nothing, 1>>}]

\* What the stack window asks for: the line of the frame, and its instruction.
StackSource(soft) ==
    Request(IF symbols = "loaded" /\ stack[1] # Nothing THEN LineAt[stack[1]][stack[2]]
            ELSE <<Nothing, 1>>, soft, FALSE)
StackAsm(soft) ==
    Request(IF symbols = "loading" THEN Nowhere
            ELSE IF symbols = "failed" THEN <<Nothing, 1>> ELSE stack, soft, FALSE)

Frame ==
    \E k \in Keys :
        LET asks == stack # Nowhere /\ ask # "none"
            soft == ask = "retry"
            src  == IF asks THEN StackSource(soft) ELSE toSource
            tabs(n, w) == {<<n, w.tabs[i].what>> : i \in {j \in 1..Count(w) : ~w.tabs[j].eph}}
        IN  /\ k = Idle \/ events < MaxEvents
            /\ events' = IF k = Idle THEN events ELSE events + 1
            /\ \E c \in {CodeBuild(IF k.win = "code" THEN k ELSE Idle, src, IF asks THEN StackAsm(soft) ELSE NoRequest)} :
               \E a \in {AsmBuild(IF k.win = "asm" THEN k ELSE Idle, c.req)} :
                 /\ code' = c.win /\ codeSeen' = c.seen
                 /\ asm' = a.win /\ asmSeen' = a.seen
                 /\ addr' = a.addr /\ toSource' = a.req
                 /\ pins' = IF k.op \in {"close", "middle", "open"} THEN tabs("code", c.win) \cup tabs("asm", a.win)
                            ELSE pins
            /\ ask' = "none"
            /\ frameTold' = IF k.op \notin {"none", "down", "drag"} THEN Nowhere
                       ELSE IF ~asks \/ soft THEN frameTold
                       ELSE IF symbols = "loaded" THEN stack ELSE Nowhere
            /\ quiet' = IF asks \/ k # Idle THEN 0 ELSE IF quiet < 2 THEN quiet + 1 ELSE 2
            /\ UNCHANGED <<symbols, stack>>

Stop ==
    /\ events < MaxEvents /\ events' = events + 1
    /\ \E p \in Lines : stack' = p
    /\ ask' = "follow"
    /\ quiet' = 0
    /\ UNCHANGED <<windowVars, symbols, frameTold, pins>>

Resume ==
    /\ events < MaxEvents /\ events' = events + 1
    /\ stack # Nowhere
    /\ stack' = Nowhere /\ ask' = "none" /\ frameTold' = Nowhere
    /\ UNCHANGED <<windowVars, symbols, pins, quiet>>

\* Symbols were loaded, could not be, or are loaded anew; caches are dropped.
SymbolsChange ==
    /\ events < MaxEvents /\ events' = events + 1
    /\ \E s \in IF symbols = "loading" THEN {"loaded", "failed"} ELSE {"loading"} : symbols' = s
    /\ asm' = [asm EXCEPT !.tabs = [i \in DOMAIN @ |-> [@[i] EXCEPT !.err = FALSE]]]
    /\ ask' = IF ask = "none" THEN "retry" ELSE ask
    /\ frameTold' = Nowhere /\ quiet' = 0
    /\ UNCHANGED <<code, toSource, codeSeen, asmSeen, addr, stack, pins>>

\* The debugger is left and started again: pinned tabs were saved.
Reopened(w) ==
    LET kept   == {i \in 1..Count(w) : ~w.tabs[i].eph /\ w.tabs[i].what # Nothing}
        nth(n) == CHOOSE i \in kept : Cardinality({j \in kept : j <= i}) = n
    IN  [tabs |-> [n \in 1..Cardinality(kept) |-> [w.tabs[nth(n)] EXCEPT !.err = FALSE]],
         sel  |-> IF w.sel \in kept THEN Cardinality({j \in kept : j <= w.sel}) ELSE 1]
Restart ==
    /\ events < MaxEvents /\ events' = events + 1
    /\ code' = Reopened(code) /\ asm' = Reopened(asm)
    /\ codeSeen' = IF Shown(code').what = Nothing THEN Nowhere
                   ELSE <<Shown(code').what, Shown(code').cur>>
    /\ toSource' = NoRequest /\ asmSeen' = Nowhere /\ addr' = Nowhere
    /\ symbols' = "loading" /\ stack' = Nowhere /\ ask' = "none"
    /\ frameTold' = Nowhere /\ quiet' = 0
    /\ UNCHANGED pins

CodeTabsNext == Frame \/ Stop \/ Resume \/ SymbolsChange \/ Restart
CodeTabsSpec == Init /\ [][CodeTabsNext]_codeTabsVars
-----------------------------------------------------------------------------
\* Once told of a frame, both windows show it, and go on showing it whatever
\* tabs are dragged about and however the windows' own requests to each other
\* cross: neither follows the other away from the frame.
FrameShown ==
    (frameTold # Nowhere /\ ask = "none") =>
        /\ Shown(asm).what = frameTold[1]
        /\ frameTold[1] # Nothing =>
             /\ Shown(asm).cur = frameTold[2]
             /\ <<Shown(code).what, Shown(code).cur>> = LineAt[frameTold[1]][frameTold[2]]

\* The windows stop asking each other: nothing is pending after two frames
\* without key and request.
Settles == quiet = 2 => toSource = NoRequest

\* What the user pinned stays, in every order of requests, and of the tabs that
\* come and go by themselves there is never more than one in a window.
TabsKept ==
    /\ \A p \in pins :
         LET w == IF p[1] = "code" THEN code ELSE asm
         IN  \E i \in 1..Count(w) : w.tabs[i].what = p[2] /\ ~w.tabs[i].eph
    /\ \A w \in {code, asm} : Cardinality({i \in 1..Count(w) : w.tabs[i].eph}) <= 1

CodeTabsRight == FrameShown /\ Settles /\ TabsKept
=============================================================================
