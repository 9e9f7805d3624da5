------------------------------ MODULE Terminal ------------------------------
(***************************************************************************)
(* terminal.rs: InputReader, which reads what the terminal sends, and      *)
(* Terminal, which sends it what to show.  They share no state.            *)
(***************************************************************************)
EXTENDS Naturals, Sequences, FiniteSets, SequencesExt

(***************************************************************************)
(* InputReader of terminal.rs: bytes from the terminal are read into a     *)
(* small buffer and cut into key, mouse and focus events.  An escape       *)
(* sequence may be cut by the end of the buffer, and some keys (Escape     *)
(* itself, Alt+O, Alt+[) are prefixes of the sequences of others, so that  *)
(* what a byte means depends on whether anything follows it and whether    *)
(* the buffer had room for it.                                             *)
(*                                                                         *)
(* A byte is a one-letter name: "e" is escape, "5" any digit, "u" the      *)
(* first and "v" the second byte of a two-byte character, "z" a final byte *)
(* of no known sequence.  Sent[k] is what the terminal sends for key k.    *)
(* The keys the user typed and that were not reported yet are `due`.       *)
(***************************************************************************)
CONSTANTS BufLen,    \* buf.len(), 128 in the code
          Plain,     \* keys whose bytes are no prefix of another sequence
          Lone,      \* keys whose bytes are
          MaxBurst   \* bound: keys sent and not reported

VARIABLES tty,     \* bytes sent by the terminal and not read yet
          inbuf,   \* buf[..end], blank where it was consumed
          start,   \* InputReader::start
          reading, \* read() is running
          alone,   \* the unread keys are a lone one
          due,     \* ghost: keys sent and not reported
          exact    \* ghost: every report so far was the key that was due

inputVars == <<tty, inbuf, start, reading, alone, due, exact>>

Sent(k) ==
    CASE k = "a"       -> <<"a">>
      [] k = "uv"      -> <<"u", "v">>
      [] k = "M-a"     -> <<"e", "a">>
      [] k = "F1"      -> <<"e", "O", "P">>
      [] k = "up"      -> <<"e", "[", "A">>
      [] k = "M-up"    -> <<"e", "e", "[", "A">>
      [] k = "pgup"    -> <<"e", "[", "5", "~">>
      [] k = "C-up"    -> <<"e", "[", "5", ";", "5", "A">>
      [] k = "mouse"   -> <<"e", "[", "<", "5", ";", "5", ";", "5", "M">>
      [] k = "focus"   -> <<"e", "[", "I">>
      [] k = "unknown" -> <<"e", "[", "5", "5", "z">>
      [] k = "esc"     -> <<"e">>
      [] k = "M-O"     -> <<"e", "O">>
      [] k = "M-["     -> <<"e", "[">>

-----------------------------------------------------------------------------
(* parse_event.  `b` is the buffer up to `end`, positions count from 1, and  *)
(* a result says which key was recognised, where the next event begins, and  *)
(* whether there was an extra escape in front.                               *)

At(b, i) == IF i <= Len(b) THEN b[i] ELSE "end"
Event(key, next, extra) == [key |-> key, next |-> next, extra |-> extra]
More(extra) == Event("more", 0, extra)    \* Err(true)
Bad(next, extra) == Event("unknown", next, extra)  \* Err(false)

\* Mutant: a sequence cut by the end of the buffer is taken for a lone key.
NothingFollows_FullToo(b, i) == i > Len(b)

\* Nothing follows although there was room: the key is complete.
NothingFollows(b, i) == i > Len(b) /\ Len(b) < BufLen

\* ansi_key_char
Char(b, i, alt, extra) ==
    IF b[i] # "u" THEN Event(IF alt THEN "M-" \o b[i] ELSE b[i], i + 1, extra)
    ELSE IF i + 1 > Len(b) THEN More(extra)
    ELSE IF b[i + 1] = "v" THEN Event("uv", i + 2, extra)
    ELSE Bad(i + 2, extra)

\* parse_ansi_number: the position after the digits.
AfterNumber(b, i) ==
    CHOOSE j \in i .. Len(b) + 1 :
        At(b, j) # "5" /\ \A n \in i .. j - 1 : b[n] = "5"

Mouse(b, i, extra) ==
    LET p == AfterNumber(b, i)
        q == AfterNumber(b, p + 1)
        r == AfterNumber(b, q + 1)
    IN  CASE p > Len(b) -> More(extra)
          [] p <= Len(b) /\ b[p] # ";" -> Bad(p + 1, extra)
          [] p <= Len(b) /\ b[p] = ";" ->
               IF q > Len(b) THEN More(extra)
               ELSE IF b[q] # ";" THEN Bad(q + 1, extra)
               ELSE IF r > Len(b) THEN More(extra)
               ELSE Event("mouse", r + 1, extra)

\* xterm and vt sequences
Csi(b, i, extra) ==
    LET p == AfterNumber(b, i)
        mods == At(b, p) = ";"
        c == IF mods THEN AfterNumber(b, p + 1) ELSE p
    IN  CASE At(b, c) = "end" -> More(extra)
          [] At(b, c) = "~" -> Event("pgup", c + 1, extra)
          [] At(b, c) = "A" -> Event(IF mods THEN "C-up" ELSE "up", c + 1, extra)
          [] OTHER -> Bad(c + 1, extra)

Sequence(b, i, extra) ==
    CASE At(b, i) = "end" -> More(extra)
      [] At(b, i) = "e" -> Event("esc", i, extra)
      [] At(b, i) = "O" ->
           CASE NothingFollows(b, i + 1) -> Event("M-O", i + 1, extra)
             [] ~NothingFollows(b, i + 1) /\ At(b, i + 1) = "end" -> More(extra)
             [] At(b, i + 1) = "P" -> Event("F1", i + 2, extra)
             [] At(b, i + 1) = "A" -> Event("up", i + 2, extra)
             [] OTHER -> Bad(i + 2, extra)
      [] At(b, i) = "[" ->
           CASE NothingFollows(b, i + 1) -> Event("M-[", i + 1, extra)
             [] ~NothingFollows(b, i + 1) /\ At(b, i + 1) = "end" -> More(extra)
             [] At(b, i + 1) = "<" -> Mouse(b, i + 2, extra)
             [] At(b, i + 1) = "I" -> Event("focus", i + 2, extra)
             [] OTHER -> Csi(b, i + 1, extra)
      [] OTHER -> Char(b, i, TRUE, extra)

ParseEvent(b, i) ==
    CASE At(b, i) = "end" -> More(FALSE)
      [] At(b, i) = "e" ->
           CASE NothingFollows(b, i + 1) -> Event("esc", i + 1, FALSE)
             [] At(b, i + 1) = "e" ->
                  IF NothingFollows(b, i + 2)
                  THEN Event("esc", i + 1, FALSE)
                  ELSE Sequence(b, i + 2, TRUE)
             [] OTHER -> Sequence(b, i + 1, FALSE)
      [] OTHER -> Char(b, i, FALSE, FALSE)

\* Mutant: a sequence that is not complete yet keeps the escape it saw.
Reports_EscapeEarly(e) ==
    IF e.extra /\ e.key = "up" THEN <<"M-up">>
    ELSE IF e.extra THEN <<"esc", e.key>>
    ELSE <<e.key>>

\* What read() makes of an extra escape: Alt for some keys, else a key.
Reports(e) ==
    CASE e.key = "more" -> <<>>
      [] e.key = "up" /\ e.extra -> <<"M-up">>
      [] e.key # "more" /\ e.key # "up" /\ e.extra -> <<"esc", e.key>>
      [] OTHER -> <<e.key>>

\* The inner loop of read(): the reports and the new start.
RECURSIVE ParseAll(_, _, _)
ParseAll(b, i, out) ==
    LET e == ParseEvent(b, i)
    IN  IF e.key = "more" THEN [out |-> out \o Reports(e), next |-> i]
        ELSE ParseAll(b, e.next, out \o Reports(e))

-----------------------------------------------------------------------------

InputInit ==
    /\ tty = <<>> /\ inbuf = <<>> /\ start = 0
    /\ reading = FALSE /\ alone = FALSE
    /\ due = <<>> /\ exact = TRUE

\* The terminal sends a key that can be told apart by its bytes, whole,
\* whether or not read() is running or has taken the ones before.
TypeKey(k) ==
    /\ ~alone
    /\ Len(due) < MaxBurst
    /\ tty' = tty \o Sent(k)
    /\ due' = Append(due, k)
    /\ UNCHANGED <<inbuf, start, reading, alone, exact>>

\* A person presses a key that could be the beginning of another one, with
\* nothing else in sight.
TypeLone(k) ==
    /\ tty = <<>> /\ ~reading /\ due = <<>>
    /\ tty' = Sent(k)
    /\ due' = <<k>>
    /\ alone' = TRUE
    /\ UNCHANGED <<inbuf, start, reading, exact>>

ReadBegins ==
    /\ ~reading /\ tty # <<>>
    /\ reading' = TRUE
    /\ UNCHANGED <<tty, inbuf, start, alone, due, exact>>

\* Mutant: the buffer is never moved down.
Compacts_Never == FALSE

Compacts == start * 2 > BufLen

\* One iteration of the outer loop of read().
Iterate ==
    LET base == IF Compacts THEN SubSeq(inbuf, start + 1, Len(inbuf)) ELSE inbuf
        from == IF Compacts THEN 0 ELSE start
        room == BufLen - Len(base)
        n == IF Len(tty) < room THEN Len(tty) ELSE room
        b == base \o SubSeq(tty, 1, n)
        r == ParseAll(b, from + 1, <<>>)
    IN  /\ reading
        /\ IF n = 0
           THEN /\ reading' = FALSE
                /\ inbuf' = base
                /\ start' = from
                /\ alone' = FALSE
                /\ exact' = (exact /\ due = <<>> /\ room > 0)
                /\ UNCHANGED <<tty, due>>
           ELSE /\ inbuf' = [i \in DOMAIN b |-> IF i < r.next THEN "" ELSE b[i]]
                /\ start' = r.next - 1
                /\ tty' = SubSeq(tty, n + 1, Len(tty))
                /\ exact' = (exact /\ IsPrefix(r.out, due))
                /\ due' = SubSeq(due, Len(r.out) + 1, Len(due))
                /\ UNCHANGED <<reading, alone>>

InputNext ==
    \/ \E k \in Plain : TypeKey(k)
    \/ \E k \in Lone : TypeLone(k)
    \/ ReadBegins
    \/ Iterate

InputSpec == InputInit /\ [][InputNext]_inputVars

-----------------------------------------------------------------------------

\* Wherever the end of the buffer cuts the stream, the keys reported are the
\* keys typed, in order, a call of read() that returns has reported all of
\* them, and the buffer always has room for more (the assertion of read()).
\* Escape and the other keys that are prefixes of longer sequences are
\* recognised when nothing follows them.
InputExact == exact

-----------------------------------------------------------------------------
(***************************************************************************)
(* Terminal of terminal.rs: a frame is drawn into a buffer of cells and    *)
(* only the difference to the previous frame is sent to the terminal, as   *)
(* cursor moves, style changes and symbols.  Some symbols are two cells    *)
(* wide; in a buffer such a symbol lives in its first cell and the second  *)
(* holds a space.                                                          *)
(*                                                                         *)
(* Rows are independent of each other, so there is one.  The terminal      *)
(* (external) shows the two halves of a wide symbol as "W" and "half", and *)
(* blanks the other half of a wide symbol when one is overwritten.  Its    *)
(* size may change at any moment, once between two frames: SIGWINCH makes  *)
(* the main loop draw another.  Wide symbols that are partly covered are   *)
(* left out: terminal.rs says they cannot be rendered correctly.           *)
(***************************************************************************)
CONSTANTS Widths,  \* sizes the terminal may have
          Styles   \* 0 is Style::default()

VARIABLES term,     \* what the terminal shows: a sequence of [ch, style]
          prev,     \* Terminal::prev_buffer
          drawing,  \* the buffer between start_frame() and present(), or <<>>
          resized   \* the terminal was resized since the last start_frame()

screenVars == <<term, prev, drawing, resized>>

Cell(ch, style) == [ch |-> ch, style |-> style]
Blank(w) == [i \in 1 .. w |-> Cell(" ", 0)]

\* What resize_and_clear(), fill() and put_text() can leave in a buffer.
Buffers(w) ==
    {b \in [1 .. w -> [ch : {" ", "a", "W"}, style : Styles]] :
        \A i \in 1 .. w : b[i].ch = "W" => i < w /\ b[i + 1] = Cell(" ", b[i].style)}

ExtraWidth(cell) == IF cell.ch = "W" THEN 1 ELSE 0

-----------------------------------------------------------------------------

\* External: the terminal prints a cell at column x.
Broken(t, x) ==   \* the other halves of the wide symbols under column x
    {i \in DOMAIN t : (i = x - 1 /\ t[x].ch = "half") \/ (i = x + 1 /\ t[x].ch = "W")}
Stamp(t, x, cell) ==
    IF x \notin DOMAIN t THEN t
    ELSE [i \in DOMAIN t |->
            IF i = x THEN cell
            ELSE IF i \in Broken(t, x) THEN Cell(" ", t[i].style) ELSE t[i]]
Shows(t, x, cell, style) ==
    LET t1 == Stamp(t, x, Cell(cell.ch, style))
    IN  IF cell.ch = "W" THEN Stamp(t1, x + 1, Cell("half", style)) ELSE t1

\* Mutant: the style is set from the cell the cursor was moved over.
StyleSent_Stale(cell, style) == style

\* The style escape codes turn the terminal's style into the cell's.
StyleSent(cell, style) == cell.style

\* write_range: the terminal, its style and the column after the last symbol.
RECURSIVE WriteRange(_, _, _, _)
WriteRange(b, x, x2, to) ==
    IF x >= x2 THEN [to EXCEPT !.x = x]
    ELSE LET style == StyleSent(b[x], to.style)
         IN  WriteRange(b, x + 1 + ExtraWidth(b[x]), x2,
                        [to EXCEPT !.t = Shows(@, x, b[x], style), !.style = style])

\* Mutant: a wide symbol that ends a range does not move the scan on.
After_Narrow(x, to) == [x |-> x + 1, x1 |-> x + 1]

\* Where the scan goes on after an unchanged cell x that ended a range.
After(x, to) == IF to.x > x THEN [x |-> to.x, x1 |-> to.x] ELSE [x |-> x + 1, x1 |-> x + 1]

\* The loop over a row: x1 is the first changed cell not written yet.
RECURSIVE ScanRow(_, _, _, _, _)
ScanRow(b, old, x1, x, to) ==
    CASE x > Len(b) ->
           IF Len(b) >= x1 THEN WriteRange(b, x1, Len(b) + 1, to) ELSE to
      [] x <= Len(b) /\ b[x] # old[x] -> ScanRow(b, old, x1, x + 1, to)
      [] x <= Len(b) /\ b[x] = old[x] /\ x > x1 ->
           LET w == WriteRange(b, x1, x, to)
               go == After(x, w)
           IN  ScanRow(b, old, go.x1, go.x, w)
      [] OTHER -> ScanRow(b, old, x + 1, x + 1, to)

\* Mutant: a change of size is not noticed.
SameSize_Always(b) == Len(prev) >= Len(b)

SameSize(b) == Len(prev) = Len(b)

\* The effect of prepare_command_buffer's commands on the terminal.
Presented(b) ==
    LET from == [t |-> term, style |-> 0, x |-> 0]
    IN  IF SameSize(b)
        THEN ScanRow(b, prev, 1, 1, from).t
        ELSE WriteRange(b, 1, Len(b) + 1, [from EXCEPT !.t = Blank(Len(term))]).t

-----------------------------------------------------------------------------

ScreenInit ==
    /\ \E w \in Widths : term = Blank(w)
    /\ prev = <<>>
    /\ drawing = <<>>
    /\ resized = TRUE

StartFrame ==
    /\ drawing = <<>>
    /\ drawing' \in Buffers(Len(term))
    /\ resized' = FALSE
    /\ UNCHANGED <<term, prev>>

Present ==
    /\ drawing # <<>>
    /\ term' = Presented(drawing)
    /\ prev' = drawing
    /\ drawing' = <<>>
    /\ UNCHANGED resized

\* The redraw key: clear().
Clear ==
    /\ drawing = <<>>
    /\ term' = Blank(Len(term))
    /\ prev' = <<>>
    /\ resized' = TRUE
    /\ UNCHANGED drawing

\* External: the terminal cuts or extends its row.
Resize(w) ==
    /\ ~resized
    /\ w # Len(term)
    /\ term' = [i \in 1 .. w |-> IF i > Len(term) \/ (i = w /\ term[i].ch = "W")
                                 THEN Cell(" ", 0) ELSE term[i]]
    /\ resized' = TRUE
    /\ UNCHANGED <<prev, drawing>>

ScreenNext ==
    \/ StartFrame
    \/ Present
    \/ Clear
    \/ \E w \in Widths : Resize(w)

ScreenSpec == ScreenInit /\ [][ScreenNext]_screenVars

-----------------------------------------------------------------------------

\* A terminal cell shows a buffer cell.
SameCell(t, c) == t = c \/ (t.ch = "half" /\ c = Cell(" ", t.style))

\* Whatever was on the screen before, after a frame it shows the buffer of that
\* frame, cell by cell, although only the differences were sent; a frame that
\* was drawn for another size is followed by one that repaints everything.
ScreenExact ==
    drawing = <<>> /\ ~resized =>
        /\ Len(term) = Len(prev)
        /\ \A i \in DOMAIN prev : SameCell(term[i], prev[i])
=============================================================================
