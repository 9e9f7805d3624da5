----------------------------- MODULE TextInput ------------------------------
(* The widget that edits a text of several lines: cursor and selection, undo  *)
(* and redo, the clipboard with runs of emacs-style cuts, and movement by     *)
(* lines, for which the lines of the last time it was drawn are used, even if *)
(* keys of the same frame have changed the text since.  Then, and in the empty*)
(* line after a newline at the end of the text, a slice may be out of range:  *)
(* the program panics.  Positions count characters, each a column wide; "nl"  *)
(* is the end of a line, "a" stands for the characters of words.  Wrapped     *)
(* lines, scrolling and the mouse are left out.                               *)
EXTENDS Integers, Sequences, SequencesExt

CONSTANTS
    StartText,
    MaxUndo, KeepUndo,  \* 1000 and 500 in the code
    MaxLen,             \* bound on the text
    MaxKeys             \* bound on keys pressed

VARIABLES
    ti,             \* the TextInput: text, cursor, mark, undo, undoIdx, lines, savedX, killingSpree;
                    \* dead: the program panicked
    clipboard,
    base,           \* the text before the run of cuts, <<>> if it cut nothing at first
    keysLeft

textInputVars == <<ti, clipboard, base, keysLeft>>

Min2(a, b) == IF a < b THEN a ELSE b
Max2(a, b) == IF a > b THEN a ELSE b
NoX == -1

\* Lines of the text as ranges of positions; a line ends after its "nl".
LinesOf(text) ==
    LET ends == {i \in 1..Len(text) : text[i] = "nl"} \cup {Len(text)}
        all  == SetToSortSeq(ends, <) \o IF text # <<>> /\ text[Len(text)] = "nl" THEN <<Len(text)>> ELSE <<>>
    IN  [l \in 1..Len(all) |-> <<IF l = 1 THEN 0 ELSE all[l - 1], all[l]>>]

\* offset_to_coordinates and coordinates_to_offset, in the lines drawn last.
OffsetToCoordinates(t, offset) ==
    IF t.lines = <<>> THEN <<0, 1>>
    ELSE LET after == {l \in 1..Len(t.lines) : t.lines[l][2] > offset}
             i == IF after = {} THEN Len(t.lines) ELSE CHOOSE l \in after : \A k \in after : l <= k
         IN  <<offset - t.lines[i][1], i>>

LineEnd(t, y) == LET end == t.lines[y][2]
                 IN  IF end > 0 /\ t.text[end] = "nl" THEN end - 1 ELSE end

\* Mutant: the end of a line is after its newline.
MutantCoordinatesToOffset(t, x, y) ==
    IF y < 1 THEN 0
    ELSE IF y > Len(t.lines) THEN Len(t.text)
    ELSE Min2(t.lines[y][1] + x, t.lines[y][2])

CoordinatesToOffset(t, x, y) ==
    IF y < 1 THEN 0
    ELSE IF y > Len(t.lines) THEN Len(t.text)
    ELSE Min2(t.lines[y][1] + x, LineEnd(t, y))

\* ... which slices the text by the line, without its newline: the panic.
Unsliceable(t, y) ==
    /\ y \in 1..Len(t.lines)
    /\ t.lines[y][2] <= Len(t.text) => LineEnd(t, y) < t.lines[y][1]

IsWord(c) == c = "a"

\* move_cursor: by a character or over a word.
MoveCursor(t, word, right) ==
    LET n    == Len(t.text)
        in_  == IF right THEN {i \in (t.cursor + 1)..n : IsWord(t.text[i])} ELSE {i \in 1..t.cursor : IsWord(t.text[i])}
        near == IF right THEN CHOOSE i \in in_ : \A j \in in_ : i <= j ELSE CHOOSE i \in in_ : \A j \in in_ : i >= j
        ends == IF right THEN {i \in near..n : i = n \/ ~IsWord(t.text[i + 1])}
                ELSE {i \in 0..(near - 1) : i = 0 \/ ~IsWord(t.text[i])}
        to   == IF ~word THEN IF right THEN Min2(t.cursor + 1, n) ELSE Max2(t.cursor - 1, 0)
                ELSE IF in_ = {} THEN IF right THEN n ELSE t.cursor
                ELSE IF right THEN CHOOSE i \in ends : \A j \in ends : i <= j
                ELSE CHOOSE i \in ends : \A j \in ends : i >= j
    IN  [t EXCEPT !.cursor = to]

SelStart(t) == Min2(t.cursor, t.mark)
SelEnd(t)   == Max2(t.cursor, t.mark)
Selected(t) == SubSeq(t.text, SelStart(t) + 1, SelEnd(t))

\* delete_selection: the text, and the clipboard it leaves.
DeleteSelection(t) ==
    [t EXCEPT !.text = SubSeq(@, 1, SelStart(t)) \o SubSeq(@, SelEnd(t) + 1, Len(@)),
              !.cursor = SelStart(t), !.mark = SelStart(t)]

\* Mutant: what is cut is always appended.
MutantCutTo(t, kill) ==
    IF Selected(t) = <<>> THEN clipboard
    ELSE (IF kill /\ t.killingSpree THEN clipboard ELSE <<>>) \o Selected(t)

CutTo(t, kill) ==
    LET old == IF kill /\ t.killingSpree THEN clipboard ELSE <<>>
    IN  IF Selected(t) = <<>> THEN clipboard
        ELSE IF t.cursor > t.mark THEN old \o Selected(t) ELSE Selected(t) \o old

InsertText(t, s) ==
    LET d == DeleteSelection(t)
        c == d.cursor
    IN  [d EXCEPT !.text = SubSeq(@, 1, c) \o s \o SubSeq(@, c + 1, Len(@)), !.cursor = c + Len(s), !.mark = c + Len(s)]

\* Mutant: an edit leaves the entries that could be redone.
MutantEdited(t, oldCursor) ==
    [t EXCEPT !.undoIdx = @ + 1, !.undo = Append(@, [text |-> t.text, old |-> oldCursor, new |-> t.cursor])]

\* What follows an edit: an entry for undo, in place of those that were undone.
Edited(t, oldCursor) ==
    [t EXCEPT !.undoIdx = @ + 1,
              !.undo = SubSeq(@, 1, t.undoIdx) \o <<[text |-> t.text, old |-> oldCursor, new |-> t.cursor]>>]

\* The list of undo entries is kept short, up to the current one.
Trimmed(t) ==
    LET n == Min2(Len(t.undo) - KeepUndo, t.undoIdx - 1)
    IN  IF Len(t.undo) <= MaxUndo THEN t
        ELSE [t EXCEPT !.undo = SubSeq(@, n + 1, Len(@)), !.undoIdx = @ - n]

Undo(t) == IF t.undoIdx = 1 THEN t
           ELSE LET e == t.undo[t.undoIdx]
                IN  [t EXCEPT !.cursor = e.old, !.mark = e.old, !.undoIdx = @ - 1,
                              !.text = t.undo[t.undoIdx - 1].text]
Redo(t) == IF t.undoIdx = Len(t.undo) THEN t
           ELSE LET e == t.undo[t.undoIdx + 1]
                IN  [t EXCEPT !.cursor = e.new, !.mark = e.new, !.undoIdx = @ + 1, !.text = e.text]

Drop(t) == [t EXCEPT !.mark = t.cursor]

\* Home and end of the line, and a line up or down.
ToColumn(t, x) == [t EXCEPT !.cursor = CoordinatesToOffset(t, x, OffsetToCoordinates(t, t.cursor)[2])]
Vertical(t, dy) ==
    LET pos == OffsetToCoordinates(t, t.cursor)
        x   == IF t.savedX = NoX THEN pos[1] ELSE t.savedX
    IN  [t EXCEPT !.cursor = CoordinatesToOffset(t, x, pos[2] + dy), !.savedX = x]

\* "a" cuts a line to its end, or the "nl" at its end; "u" to its start.
KillLine(t, right) ==
    LET m == Drop(t)
        to == ToColumn(m, IF right THEN MaxLen + 1 ELSE 0)
    IN  IF to.cursor = t.cursor THEN MoveCursor(m, FALSE, right) ELSE to

\* One key: the new state, whether it edits, and whether it is a cut of a run.
Result(t, edits, kill, clip) == [t |-> t, edits |-> edits, kill |-> kill, clip |-> clip]
Deleting(t, word, right, kill) ==
    LET s == IF t.cursor = t.mark THEN MoveCursor(t, word, right) ELSE t
    IN  Result(DeleteSelection(s), TRUE, kill, IF kill THEN CutTo(s, TRUE) ELSE clipboard)
Killing(t, right) == LET s == KillLine(t, right) IN Result(DeleteSelection(s), TRUE, TRUE, CutTo(s, TRUE))

Apply(key) ==
    LET t == [ti EXCEPT !.savedX = IF key \in {"up", "down"} THEN @ ELSE NoX]
        Moves(to) == Result(Drop(to), FALSE, FALSE, clipboard)
    IN
    CASE key \in {"a", " ", "nl"} -> Result(InsertText(t, <<key>>), TRUE, FALSE, clipboard)
      [] key = "undo"   -> Result(Undo(t), FALSE, FALSE, clipboard)
      [] key = "redo"   -> Result(Redo(t), FALSE, FALSE, clipboard)
      [] key = "copy"   -> Result(t, FALSE, FALSE, IF Selected(t) = <<>> THEN clipboard ELSE Selected(t))
      [] key = "cut"    -> IF Selected(t) = <<>> THEN Result(t, FALSE, FALSE, clipboard)
                           ELSE Result(DeleteSelection(t), TRUE, FALSE, CutTo(t, FALSE))
      [] key = "paste"  -> IF clipboard = <<>> THEN Result(t, FALSE, FALSE, clipboard)
                           ELSE Result(InsertText(t, clipboard), TRUE, FALSE, clipboard)
      [] key = "left"   -> Moves(MoveCursor(t, FALSE, FALSE))
      [] key = "word right" -> Moves(MoveCursor(t, TRUE, TRUE))
      [] key = "select right" -> Result(MoveCursor(t, FALSE, TRUE), FALSE, FALSE, clipboard)
      [] key = "select word left" -> Result(MoveCursor(t, TRUE, FALSE), FALSE, FALSE, clipboard)
      [] key = "home"   -> Moves(ToColumn(t, 0))
      [] key = "end"    -> Moves(ToColumn(t, MaxLen + 1))
      [] key = "up"     -> Moves(Vertical(t, -1))
      [] key = "down"   -> Moves(Vertical(t, 1))
      [] key = "backspace" -> Deleting(t, FALSE, FALSE, FALSE)
      [] key = "alt backspace" -> Deleting(t, TRUE, FALSE, TRUE)
      [] key = "alt d"  -> Deleting(t, TRUE, TRUE, TRUE)
      [] key = "ctrl k" -> Killing(t, TRUE)
      [] key = "ctrl u" -> Killing(t, FALSE)

LineKeys == {"home", "end", "up", "down", "ctrl k", "ctrl u"}
Keys == LineKeys \cup {"a", " ", "nl", "undo", "redo", "copy", "cut", "paste", "left", "word right", "select right",
                       "select word left", "backspace", "alt backspace", "alt d"}

\* Whether a key needs a line that cannot be sliced.
Row(t, key) == OffsetToCoordinates(t, t.cursor)[2] + CASE key = "up" -> -1 [] key = "down" -> 1 [] OTHER -> 0
Panics(t, key) == key \in LineKeys /\ Unsliceable(t, Row(t, key))

Panic(key) ==
    /\ keysLeft > 0 /\ ~ti.dead /\ Panics(ti, key)
    /\ ti' = [ti EXCEPT !.dead = TRUE]
    /\ UNCHANGED <<clipboard, base, keysLeft>>

Press(key) ==
    LET r == Apply(key)
    IN  /\ keysLeft > 0 /\ ~ti.dead /\ ~Panics(ti, key)
        /\ Len(r.t.text) <= MaxLen
        /\ ti' = [(IF r.edits THEN Edited(r.t, ti.cursor) ELSE r.t) EXCEPT !.killingSpree = r.kill]
        /\ clipboard' = r.clip
        /\ base' = IF ~r.kill THEN <<>>
                   ELSE IF ti.killingSpree THEN base
                   ELSE IF Len(r.t.text) < Len(ti.text) THEN ti.text ELSE <<>>
        /\ keysLeft' = keysLeft - 1

\* The end of update, after the keys of the frame, and render: the lines of the text.
Render ==
    /\ ~ti.dead
    /\ ti' = [Trimmed(ti) EXCEPT !.lines = LinesOf(ti.text)]
    /\ ti' # ti
    /\ UNCHANGED <<clipboard, base, keysLeft>>

Init ==
    /\ ti = [text |-> StartText, cursor |-> Len(StartText), mark |-> Len(StartText),
             undo |-> <<[text |-> StartText, old |-> Len(StartText), new |-> Len(StartText)]>>, undoIdx |-> 1,
             lines |-> <<>>, savedX |-> NoX, killingSpree |-> FALSE, dead |-> FALSE]
    /\ clipboard = <<>>
    /\ base = <<>>
    /\ keysLeft = MaxKeys

TextInputNext == Render \/ (\E key \in Keys : Press(key)) \/ (\E key \in LineKeys : Panic(key))
-----------------------------------------------------------------------------
(* Properties.                                                                *)

\* The line of the cursor, from the text alone.
Start(text, c) == LET s == {i \in 1..c : text[i] = "nl"} IN IF s = {} THEN 0 ELSE CHOOSE i \in s : \A j \in s : i >= j
End(text, c) == LET s == {i \in (c + 1)..Len(text) : text[i] = "nl"} IN IF s = {} THEN Len(text) ELSE (CHOOSE i \in s : \A j \in s : i <= j) - 1

\* Whatever keys come before the text is drawn again, the cursor and the mark stay
\* within the text; the entry of undo that is current is the text, the cursors it
\* remembers fit the texts they are used with, and a redo takes back an undo; and
\* after a run of cuts the clipboard put back at the cursor restores the text.
\* When the lines are those of the text, home and end find the ends of the cursor's
\* line, and going down and up again leads back to the column (saved_x), except
\* where the code panics.  It panics only when the text got shorter than it was
\* drawn, or ended with a newline when it was.
TextInputRight ==
    LET t == ti IN
    /\ {t.cursor, t.mark} \subseteq 0..Len(t.text)
    /\ t.undoIdx \in 1..Len(t.undo) /\ t.undo[t.undoIdx].text = t.text
    /\ \A i \in 2..Len(t.undo) :
          t.undo[i].old <= Len(t.undo[i - 1].text) /\ t.undo[i].new <= Len(t.undo[i].text)
    /\ t.undoIdx > 1 => Redo(Undo(t)).text = t.text /\ Redo(Undo(t)).undoIdx = t.undoIdx
    /\ t.lines = LinesOf(t.text) =>
          /\ ~Panics(t, "home") => ToColumn(t, 0).cursor = Start(t.text, t.cursor)
          /\ ~Panics(t, "end") => ToColumn(t, MaxLen + 1).cursor = End(t.text, t.cursor)
          /\ LET down == Vertical([t EXCEPT !.savedX = NoX], 1)
             IN  End(t.text, t.cursor) < Len(t.text) /\ ~Panics(t, "down") => Vertical(down, -1).cursor = t.cursor
          /\ \A key \in LineKeys : Panics(t, key) => t.text[Len(t.text)] = "nl"
    /\ t.dead => LET drawn == Last(t.lines) IN drawn[2] > Len(t.text) \/ (0 < drawn[1] /\ drawn[1] = drawn[2])
    /\ t.killingSpree /\ base # <<>> =>
          SubSeq(t.text, 1, t.cursor) \o clipboard \o SubSeq(t.text, t.cursor + 1, Len(t.text)) = base
=============================================================================
