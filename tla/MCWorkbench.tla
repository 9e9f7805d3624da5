---------------------------- MODULE MCWorkbench -----------------------------
(* Windows that follow the debugger and the algorithms behind them, which    *)
(* share no state: one of them moves in a behaviour. The bounds are those of *)
(* the WITH clauses; CoreDumper is extended, as its theorem is about it.     *)
EXTENDS CoreDumper, TLC, Sequences

VARIABLES
    which, code, asm, toSource, codeSeen, asmSeen, addr, symbols, stack, ask,
    frameTold, pins, events, quiet, prog, pc, calls, step, single, verdict,
    blob, bits, goal, panicked, val, count, vocabulary, toks, alphabet, text,
    win, env, eventsLeft, wrong, tab, rows, callRows, stage, sfs, result,
    dieTags, ld, dieTree, said, dies, shards, maxEnd, textSection, functions,
    dieToFunction, found, typeStage, graph, vertices, types, dedupMap, walkers,
    sent, typeNames, violated, cmaps, cwrite, cfile, zeroed, creader, ucode, uentry, ureg, umem, ughost, uleft,
    utrap, uloaded, fdes, rindex, asked

Tabs_ == INSTANCE CodeTabs
    WITH LineAt <- <<<<<<1, 1>>, <<1, 2>>>>, <<<<1, 1>>, <<2, 1>>>>>>, MaxEvents
    <- 5

Steps_ == INSTANCE StepEngine
    WITH Flows <- <<{<<"next", 0>>, <<"sys", 0>>, <<"jump", 3>>, <<"call", 5>>}, {<<"next",
    0>>, <<"call", 1>>, <<"jump", 4>>, <<"sys", 0>>}, {<<"next", 0>>, <<"call",
    5>>, <<"jump", 1>>, <<"jump", 5>>}>>, Tables <- {<<<<1, 0, 2, 0>>, <<TRUE,
    TRUE, TRUE, TRUE>>>>, <<<<1, 2, 1, 3>>, <<TRUE, FALSE, TRUE, TRUE>>>>,
    <<<<1, 5, 2, 3>>, <<TRUE, TRUE, FALSE, TRUE>>>>}, Shapes <- {[inl |-> <<>>,
    pad |-> 0, g |-> "sys", bare |-> {}], [inl |-> <<2, 3, 1>>, pad |-> 4, g |->
    "throw", bare |-> {"outside", "g"}]},
    MaxDepth <- 3, MaxRanges <- 5

Pieces_ == INSTANCE Pieces
    WITH ByteBits <- 3, WordBytes <- 2, Cap <- 3, Sources <- {<<7, 5>>, <<0, 6,
    3, 4>>}, MaxBits <- 10

Eval_ == INSTANCE WatchEval
    WITH ByteBits <- 2, Memory <- <<1, 0, 3, 2, 0, 1, 2, 3, 1, 2, 0, 3>>,
    Variables <- {<<2, "u16">>, <<2, "i8">>, <<4, "*i16">>, <<4, "&u8">>, <<0,
    "S">>, <<0, "[i8]">>}, Literals <- {<<FALSE, 0>>, <<FALSE, 1>>, <<TRUE, 15>>},
    MaxOperators <- 5

Parser_ == INSTANCE WatchParser
    WITH Vocabularies <- {<<{"x", "=", "-", "*", "as", ".", "(", ")"}, 5>>,
    <<{"x", ",", "=", "^", "'x'", "[", "]", ".", "1"}, 5>>, <<{"x", "-", "*",
    "&"}, 6>>, <<{"x", "if", "else", "{", "}"}, 9>>, <<{"x", "struct", "{", "}",
    ":", ","}, 7>>, <<{"x", "let", ":", "=", "*", "[", "]", ";", "1"}, 6>>,
    <<{"fn", "x", "(", ")", ":", "->", "{", "}"}, 8>>, <<{"x", "while", "loop",
    "{", ";", "}", "return"}, 6>>, <<{"x", "for", "in", "{", "}", "type", "(",
    ")"}, 6>>}

Lexer_ == INSTANCE WatchLexer
    WITH Word <- 256, Alphabets <- {<<{"0", "1", "9", ".", "e", "x", "-", "a"},
    5>>, <<{"0", "b", "x", "1", "p", "9"}, 5>>, <<{"<", "=", ">", "-", ".", "&",
    "!"}, 4>>, <<{":", "a", "1", "x", "(", "<", " "}, 5>>, <<{"bq", "dq", "sq",
    "esc", "x", "0", "a"}, 5>>}

Watches_ == INSTANCE Watches
    WITH LocalsOf <- <<<<"p">>, <<"q">>>>, Structs <- {"p"}, Typed <- {<<>>,
    <<"q">>}, MaxIds <- 4, MaxStops <- 2, MaxEvents <- 4

Lines_ == INSTANCE LineTable
    WITH calls <- callRows, Shards <- 1..2, Addrs <- 0..3, Kinds <- {<<1, 1, 0,
    TRUE>>, <<1, 2, 1, FALSE>>, <<2, 2, 1, TRUE>>, <<1, 0, 0, TRUE>>, <<0, 1, 0,
    TRUE>>}, Calls <- {<<1, 3, 0, 0>>, <<1, 0, 0, 1>>}, MaxRows <- 4, ColBits <-
    1, FileBits <- 2, LineBits <- 2, LevelBits <- 2

Inlined_ == INSTANCE Subfunctions
    WITH Addrs <- 1..5, RootRanges <- {{<<1, 5>>}, {<<1, 3>>, <<4, 5>>}},
    MaxCalls <- 3, MaxLevel <- 2

Dies_ == INSTANCE DieWalk
    WITH Vocabularies <- {<<{"func", "decl", "inl", "call", "block", "var",
    "list"}, 4>>, <<{"struct", "member", "part", "variant", "typedef", "func"},
    5>>, <<{"ns", "anon", "struct", "wide", "func", "tparam", "skip", "static",
    "extern"}, 4>>, <<{"array", "sub", "struct", "member"}, 5>>, <<{"func",
    "call", "call0", "var", "param", "block0"}, 5>>}, MaxLevel <- 2

Functions_ == INSTANCE FunctionIndex
    WITH NumShards <- 2, LastAddr <- 4, Texts <- {<<2, 3>>, <<2, 4>>}, Names <- {"f",
    "g"}, MaxFunctions <- 2

Types_ == INSTANCE TypesLoader
    WITH NumShards <- 3, Graphs <- {<<a, b, c, d>> : a \in {<<1, "struct", "A",
    <<2>>, <<>>>>, <<1, "struct", "A", <<2, 3>>, <<>>>>, <<1, "alias", "T",
    <<3>>, <<>>>>, <<1, "decl", "A", <<>>, <<>>>>}, b \in {<<1, "ptr", "",
    <<1>>, <<>>>>, <<1, "ptr", "", <<3>>, <<>>>>, <<1, "alias", "T", <<1>>,
    <<>>>>, <<1, "struct", "A", <<4>>, <<1>>>>, <<1, "char", "c", <<>>, <<>>>>},
    c \in {<<2, "struct", "A", <<4>>, <<>>>>, <<2, "alias", "", <<1>>, <<>>>>,
    <<2, "struct", "", <<2>>, <<>>>>, <<2, "fn", "", <<>>, <<>>>>, <<2, "decl",
    "A", <<>>, <<>>>>, <<2, "decl", "B", <<>>, <<>>>>}, d \in {<<3, "ptr", "", <<3>>, <<>>>>, <<3, "alias",
    "int8_t", <<2>>, <<>>>>, <<0, "int", "T", <<>>, <<>>>>, <<3, "mptr", "",
    <<3, 1>>, <<>>>>, <<2, "struct", "A", <<1, 0>>, <<3>>>>}}

Core_ == INSTANCE CoreFile
    WITH Layouts <- {<<<<2, 2, "exe", "b", 0>>, <<4, 2, "file", "b", 2>>, <<6,
    2, "anon", "", 0>>>>, <<<<2, 4, "file", "b", 0>>, <<6, 2, "guard", "", 0>>,
    <<8, 4, "anon", "", 0>>, <<14, 2, "code", "", 0>>>>, <<<<2, 4, "exe", "b",
    2>>, <<8, 2, "vvar", "", 0>>, <<10, 2, "file", "d", 0>>>>, <<<<4, 2, "anon",
    "", 0>>, <<6, 2, "anon", "", 0>>, <<8, 6, "file", "b", 0>>, <<14, 2, "code",
    "", 0>>>>}, Foreign <- {<<s, t, u>> : s \in {<<1, 0, 2, 2>>, <<5, 2, 4, 4>>,
    <<3, 2, 1, 3>>}, t \in {<<3, 2, 2, 4>>, <<1, 4, 3, 1>>, <<4, 6, 4, 4>>}, u
    \in {<<2, 0, 3, 6>>, <<4, 1, 0, 2>>, <<7, 3, 1, 1>>}}, Page <- 2, BigFile <-
    2, BufferSize <- 3, Chunk <- 2, MaxBad <- 2

Unwind_ == INSTANCE Unwind
    WITH Programs <- {<<<<"start", "binary", <<<<"call", 2>>, <<"halt", 0>>>>>>,
    <<"fp", "binary", <<<<"call", 3>>>>>>, <<"plain", "binary", <<<<"call",
    4>>>>>>, <<"saved", "binary", <<<<"call", 5>>>>>>, <<"fp", "jit", <<<<"nop",
    0>>>>>>, <<"fp", "binary", <<<<"nop", 0>>>>>>, <<"tramp", "binary",
    <<<<"movrax", 0>>, <<"syscall", 0>>>>>>>>, <<<<"start", "binary",
    <<<<"call", 2>>, <<"halt", 0>>>>>>, <<"saved", "binary", <<<<"call", 3>>,
    <<"call", 5>>>>>>, <<"fp", "jit", <<<<"call", 4>>, <<"trap", 0>>>>>>,
    <<"plain", "binary", <<<<"bad", 0>>>>>>, <<"bare", "binary", <<<<"trap",
    0>>>>>>, <<"saved", "binary", <<<<"nop", 0>>>>>>, <<"tramp", "jit",
    <<<<"movrax", 0>>, <<"syscall", 0>>>>>>>>, <<<<"start", "binary",
    <<<<"call", 2>>, <<"halt", 0>>>>>>, <<"plain", "binary", <<<<"call",
    3>>>>>>, <<"fp", "binary", <<<<"call", 2>>>>>>, <<"plain", "binary",
    <<<<"call", 3>>>>>>, <<"nothing", "jit", <<<<"nop", 0>>>>>>, <<"fp",
    "binary", <<>>>>, <<"tramp", "binary", <<<<"movrax", 0>>, <<"syscall",
    0>>>>>>>>}, StackSize <- 24, MaxSignals <- 2, Garbage <- {0, 3, 23},
    LastAddr <- 5, Load <- 10, MaxFdes <- 2, Tables <- {<<<<0, 1, 2, 1>>,
    <<1, 1, 4, 2>>, <<3, 2, 1, 3>>>>, <<<<1, 2, 4, 3>>, <<3, 1, 5, 0>>>>},
    Actions <- <<<<1, 0>>, <<0, 0>>, <<-1, 1>>>>

tabsAll == <<code, asm, toSource, codeSeen, asmSeen, addr, symbols, stack,
    ask, frameTold, pins, events, quiet>>
stepsAll == <<prog, pc, calls, step, single, verdict>>
piecesAll == <<blob, bits, goal, panicked>>
evalAll == <<val, count>>
parserAll == <<vocabulary, toks>>
lexerAll == <<alphabet, text>>
watchesAll == <<win, env, eventsLeft, wrong>>
linesAll == <<tab, rows, callRows, stage>>
inlinedAll == <<sfs, result>>
diesAll == <<dieTags, ld, dieTree, said, dies>>
functionsAll == <<shards, maxEnd, textSection, functions, dieToFunction,
    found>>
typesAll == <<typeStage, graph, vertices, types, dedupMap, walkers, sent,
    typeNames, violated>>
dumperAll == <<mode, dpc, seen, attached, awaiting, toSeize, current,
    forkState, forkedPid, noted, dumped, thread, process>>
coreAll == <<cmaps, cwrite, cfile, zeroed, creader>>
unwindAll == <<ucode, uentry, ureg, umem, ughost, uleft, utrap, uloaded>>
catchAll == <<fdes, rindex, asked>>

Components ==
    {"tabs", "steps", "pieces", "eval", "parser", "lexer", "watches",
    "lines", "inlined", "dies", "functions", "types", "dumper", "core",
    "unwind", "catch"}

\* The component that moves; the variables of the others are not used.
MCInit ==
    /\ which \in Components
    /\ IF which = "tabs" THEN Tabs_!Init
       ELSE code = 0 /\ asm = 0 /\ toSource = 0 /\ codeSeen = 0 /\ asmSeen = 0 /\ addr =
            0 /\ symbols = 0 /\ stack = 0 /\ ask = 0 /\ frameTold = 0 /\ pins = 0 /\
            events = 0 /\ quiet = 0
    /\ IF which = "steps" THEN Steps_!Init
       ELSE prog = 0 /\ pc = 0 /\ calls = 0 /\ step = 0 /\ single = 0 /\ verdict = 0
    /\ IF which = "pieces" THEN Pieces_!Init
       ELSE blob = 0 /\ bits = 0 /\ goal = 0 /\ panicked = 0
    /\ IF which = "eval" THEN Eval_!Init
       ELSE val = 0 /\ count = 0
    /\ IF which = "parser" THEN Parser_!Init
       ELSE vocabulary = 0 /\ toks = 0
    /\ IF which = "lexer" THEN Lexer_!Init
       ELSE alphabet = 0 /\ text = 0
    /\ IF which = "watches" THEN Watches_!Init
       ELSE win = 0 /\ env = 0 /\ eventsLeft = 0 /\ wrong = 0
    /\ IF which = "lines" THEN Lines_!Init
       ELSE tab = 0 /\ rows = 0 /\ callRows = 0 /\ stage = 0
    /\ IF which = "inlined" THEN Inlined_!Init
       ELSE sfs = 0 /\ result = 0
    /\ IF which = "dies" THEN Dies_!Init
       ELSE dieTags = 0 /\ ld = 0 /\ dieTree = 0 /\ said = 0 /\ dies = 0
    /\ IF which = "functions" THEN Functions_!Init
       ELSE shards = 0 /\ maxEnd = 0 /\ textSection = 0 /\ functions = 0 /\
            dieToFunction = 0 /\ found = 0
    /\ IF which = "types" THEN Types_!Init
       ELSE typeStage = 0 /\ graph = 0 /\ vertices = 0 /\ types = 0 /\ dedupMap = 0 /\
            walkers = 0 /\ sent = 0 /\ typeNames = 0 /\ violated = 0
    /\ Init /\ (which = "dumper" \/ (mode = "direct" /\ thread = [t \in Tids |-> NewThread]))
    /\ IF which = "core" THEN Core_!Init
       ELSE cmaps = 0 /\ cwrite = 0 /\ cfile = 0 /\ zeroed = 0 /\ creader = 0
    /\ IF which = "unwind" THEN Unwind_!Init
       ELSE ucode = 0 /\ uentry = 0 /\ ureg = 0 /\ umem = 0 /\ ughost = 0 /\ uleft = 0
            /\ utrap = 0 /\ uloaded = 0
    /\ IF which = "catch" THEN Unwind_!CatchInit
       ELSE fdes = 0 /\ rindex = 0 /\ asked = 0

MCNext ==
    /\ IF which = "tabs" THEN Tabs_!CodeTabsNext ELSE UNCHANGED tabsAll
    /\ IF which = "steps" THEN Steps_!StepNext ELSE UNCHANGED stepsAll
    /\ IF which = "pieces" THEN Pieces_!PiecesNext ELSE UNCHANGED piecesAll
    /\ IF which = "eval" THEN Eval_!EvalNext ELSE UNCHANGED evalAll
    /\ IF which = "parser" THEN Parser_!ParserNext ELSE UNCHANGED parserAll
    /\ IF which = "lexer" THEN Lexer_!LexerNext ELSE UNCHANGED lexerAll
    /\ IF which = "watches" THEN Watches_!WatchesNext ELSE UNCHANGED watchesAll
    /\ IF which = "lines" THEN Lines_!Next ELSE UNCHANGED linesAll
    /\ IF which = "inlined" THEN Inlined_!SubfunctionsNext ELSE UNCHANGED inlinedAll
    /\ IF which = "dies" THEN Dies_!DieWalkNext ELSE UNCHANGED diesAll
    /\ IF which = "functions" THEN Functions_!FunctionIndexNext ELSE UNCHANGED functionsAll
    /\ IF which = "types" THEN Types_!TypesNext ELSE UNCHANGED typesAll
    /\ IF which = "dumper" THEN DumperNext ELSE UNCHANGED dumperAll
    /\ IF which = "core" THEN Core_!CoreFileNext ELSE UNCHANGED coreAll
    /\ IF which = "unwind" THEN Unwind_!UnwindNext ELSE UNCHANGED unwindAll
    /\ IF which = "catch" THEN Unwind_!CatchNext ELSE UNCHANGED catchAll
    /\ UNCHANGED which

MCSpec == MCInit /\ [][MCNext]_<<which, tabsAll, stepsAll,
    piecesAll, evalAll, parserAll, lexerAll, watchesAll, linesAll, inlinedAll,
    diesAll, functionsAll, typesAll, dumperAll, coreAll, unwindAll, catchAll>>

\* The code windows show the selected frame and nobody's tab is lost (CodeTabs);
\* a watch shows the value of its own expression in the selected
\* frame, now (Watches).
WindowsFollow ==
    /\ which = "tabs" => Tabs_!CodeTabsRight
    /\ which = "watches" => Watches_!WatchesRight

\* A step stops where one that looks at every instruction would, selects the
\* right subframe, and makes no system call while other threads are held
\* (StepEngine).
Stepping ==
    /\ which = "steps" => Steps_!StepEndsRight

\* Values of watch expressions are what the program's memory holds and what
\* arithmetic says (Pieces, WatchEval), that memory read from a core file
\* included (CoreFile), and an expression is read as it is written (WatchLexer,
\* WatchParser).
ValuesExact ==
    /\ which = "pieces" => Pieces_!PiecesRight
    /\ which = "eval" => Eval_!EvalRight
    /\ which = "parser" => Parser_!ParserRight
    /\ which = "lexer" => Lexer_!LexerRight
    /\ which = "core" => Core_!CoreFileRight

\* What is known of an address is what the compiler wrote of it, though it was
\* loaded in shards and sorted: its line (LineTable), its function
\* (FunctionIndex), the calls inlined there (Subfunctions), whose scope its
\* variables are in (DieWalk), their types (TypesLoader), its callers and its
\* catch blocks (Unwind).
DebugInfo ==
    /\ which = "lines" => Lines_!LineTableRight
    /\ which = "inlined" => Inlined_!SubfunctionsRight
    /\ which = "dies" => Dies_!DieWalkRight
    /\ which = "functions" => Functions_!FunctionIndexRight
    /\ which = "types" => Types_!TypesRight
    /\ which = "unwind" => Unwind_!UnwindRight
    /\ which = "catch" => Unwind_!CatchBlocksRight
=============================================================================
