-------------------------------- MODULE Walls --------------------------------
(***************************************************************************)
(* How a split of the layout divides its length among its children         *)
(* (Layout::build_split in layout.rs): fixed-size children and the walls   *)
(* between children take their cells, flexible children share the rest in  *)
(* proportion to relative_size, and dragging a wall with the mouse solves  *)
(* for the sizes that put the wall there.                                  *)
(*                                                                         *)
(* children[i] is between walls i - 1 and i here, walls being numbered     *)
(* from 0 as in the code, where wall i is before children[i].              *)
(***************************************************************************)
EXTENDS Integers, Sequences, SequencesExt, FiniteSetsExt

CONSTANTS MaxKids,   \* bound: children of the split
          FixedSize, \* the fixed_size of a window that has one
          Units,     \* relative sizes a split may start with
          MaxLength  \* bound: cells along the axis

VARIABLES kids,    \* sequence of [fixed, size], as build_split collects them
          length,  \* area.size[axis]
          followed \* ghost: the last drag did what the user asked

wallsVars == <<kids, length, followed>>

Kids == [fixed : {FALSE}, size : Units] \union {[fixed |-> TRUE, size |-> FixedSize]}

\* calculate_cumsum: fixed cells, walls included, and flexible units before wall i.
FixedBefore(k, i) ==
    FoldLeft(LAMBDA acc, c : IF c.fixed THEN acc + c.size ELSE acc, 0, SubSeq(k, 1, i))
      + (IF i = 0 THEN 0 ELSE i - 1)
FlexibleBefore(k, i) ==
    FoldLeft(LAMBDA acc, c : IF c.fixed THEN acc ELSE acc + c.size, 0, SubSeq(k, 1, i))
FixedTotal(k) == FixedBefore(k, Len(k))
FlexibleTotal(k) == FlexibleBefore(k, Len(k))

\* Mutant: the shares are rounded down without the half that centres them.
InnerWall_RoundsDown(k, len, i) ==
    FixedBefore(k, i)
      + ((len - FixedTotal(k)) * FlexibleBefore(k, i)) \div FlexibleTotal(k)

InnerWall(k, len, i) ==
    FixedBefore(k, i)
      + ((len - FixedTotal(k)) * FlexibleBefore(k, i) + FlexibleTotal(k) \div 2)
          \div FlexibleTotal(k)

\* calculate_wall_pos, and the two outer walls.
WallPos(k, len, i) ==
    CASE i = 0 -> -1
      [] i = Len(k) -> len
      [] OTHER -> IF FixedTotal(k) >= len \/ FlexibleBefore(k, i) = 0
                  THEN FixedBefore(k, i)
                  ELSE InnerWall(k, len, i)

Movable(k, len, i) ==
    /\ FixedTotal(k) < len
    /\ FlexibleBefore(k, i) # 0
    /\ FlexibleBefore(k, i) < FlexibleTotal(k)

\* area.size of children[i]
Cells(k, len, i) == LET d == WallPos(k, len, i) - WallPos(k, len, i - 1) - 1
                    IN  IF d < 0 THEN 0 ELSE d

\* Mutant: the neighbours of a dragged wall may shrink to nothing.
Clamp_ToZero(t, lo, hi) == Min({Max({t, lo}), hi})

\* No flexible child is squeezed below one unit.
Clamp(t, lo, hi) == Min({Max({t, lo + 1}), hi - 1})

Prev(k, i) == Max({j \in 1 .. i : ~k[j].fixed})
NextFlexible(k, i) == Min({j \in i + 1 .. Len(k) : ~k[j].fixed})

\* The sizes after wall i is dragged to cell p.
Dragged(k, len, i, p) ==
    LET left == FixedBefore(k, i)
        room == len - FixedTotal(k)
        q == Min({Max({p, left}), room + left})
        a == Prev(k, i)
        b == NextFlexible(k, i)
        before == FlexibleBefore(k, a - 1)
        after == FlexibleBefore(k, b)
        target == Clamp((FlexibleTotal(k) * (q - left)) \div room, before, after)
    IN  [k EXCEPT ![a].size = target - before, ![b].size = after - target]

Init ==
    /\ kids \in UNION {[1 .. n -> Kids] : n \in 2 .. MaxKids}
    /\ length \in 0 .. MaxLength
    /\ followed = TRUE

\* The wall is where the mouse is, unless a neighbour is down to one unit, and
\* the walls beyond the two neighbours stay.
Follows(k, len, i, p, new) ==
    LET a == Prev(k, i)
        b == NextFlexible(k, i)
    IN  /\ \A j \in 0 .. a - 1 : WallPos(new, len, j) = WallPos(k, len, j)
        /\ \A j \in b .. Len(k) : WallPos(new, len, j) = WallPos(k, len, j)
        /\ \/ WallPos(new, len, i) = p
           \/ p < WallPos(new, len, i) /\ new[a].size = 1
           \/ p > WallPos(new, len, i) /\ new[b].size = 1
           \/ p \notin FixedBefore(k, i) .. len - FixedTotal(k) + FixedBefore(k, i)

Drag(i, p) ==
    /\ Movable(kids, length, i)
    /\ p # WallPos(kids, length, i)
    /\ kids' = Dragged(kids, length, i, p)
    /\ followed' = (FlexibleTotal(kids) >= 2 * (length - FixedTotal(kids))
                      => Follows(kids, length, i, p, kids'))
    /\ UNCHANGED length

Resize(len) ==
    /\ length' = len
    /\ followed' = TRUE
    /\ UNCHANGED kids

Next ==
    \/ \E i \in 1 .. Len(kids) - 1, p \in -1 .. MaxLength : Drag(i, p)
    \/ \E len \in 0 .. MaxLength : Resize(len)

Spec == Init /\ [][Next]_wallsVars

-----------------------------------------------------------------------------

\* The children and the walls between them fill the split exactly and do not
\* overlap, and a fixed-size window has its size, whenever the fixed sizes
\* leave room and there is someone to take the rest.
SplitFilled ==
    FixedTotal(kids) < length /\ FlexibleTotal(kids) > 0 =>
        /\ \A i \in 1 .. Len(kids) : WallPos(kids, length, i) > WallPos(kids, length, i - 1)
        /\ \A i \in 1 .. Len(kids) :
             kids[i].fixed => Cells(kids, length, i) = kids[i].size

\* A dragged wall follows the mouse and moves no other wall but those of
\* fixed-size windows beside it; no child is ever squeezed to nothing, which
\* would divide by zero in simplify_splits().
WallFollowsMouse ==
    /\ followed
    /\ \A i \in DOMAIN kids : kids[i].size >= 1

\* Both, for the module's run.
WallsSound == SplitFilled /\ WallFollowsMouse
=============================================================================
