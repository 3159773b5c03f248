------------------------------ MODULE QimmFlow ------------------------------
(***************************************************************************)
(* Where the layouts of a project go on its output                         *)
(* (qimm_layout_project_update, src/qimm/shell/layout.c).                  *)
(*                                                                         *)
(* A layout of the configuration gives a position and a size, or leaves    *)
(* them to the flow: rows from left to right, each below the last.  One    *)
(* step places one layout.                                                 *)
(***************************************************************************)
EXTENDS Integers, Sequences

CONSTANTS
    Width, Height,  \* of the output
    Layouts,        \* what configurations consist of: records of x, y, w, h
    MaxLayouts      \* bound: layouts in a configuration

Layout == [x : Int, y : Int, w : Int, h : Int]

ASSUME SizeAssumption == Width \in Nat /\ Height \in Nat
ASSUME MaxAssumption == MaxLayouts \in Nat
ASSUME LayoutsAssumption == Layouts \subseteq Layout

VARIABLES
    placed,     \* the layouts so far
    dx,         \* right end of the current row
    dy, dy2,    \* its top and bottom
    first       \* the layout the flow goes on from: the last one that gives
                \* a position, or the very first

vars == <<placed, dx, dy, dy2, first>>

Init == placed = <<>> /\ dx = 0 /\ dy = 0 /\ dy2 = 0 /\ first = 1

Larger(a, b) == IF a >= b THEN a ELSE b

\* a negative size is a share of the output
Share(whole, size) == IF size < 0 THEN whole \div (-size) ELSE size

\* where the layout goes before its row is looked at
AtPointer(cl) == [x |-> IF cl.x < 0 THEN dx ELSE cl.x,
                  y |-> IF cl.y < 0 THEN dy ELSE cl.y,
                  w |-> Share(Width, cl.w),
                  h |-> Share(Height, cl.h)]

\* Mutant: the row that follows starts below this layout only.
FitsBelow(l) ==
    /\ l.x + l.w < Width
    /\ placed' = Append(placed, l)
    /\ dx' = l.x + l.w /\ dy' = l.y /\ dy2' = l.y + l.h

\* the layout ends before the right edge: it stays in the row
Fits(l) ==
    /\ l.x + l.w < Width
    /\ placed' = Append(placed, l)
    /\ dx' = l.x + l.w /\ dy' = l.y /\ dy2' = Larger(dy2, l.y + l.h)

\* Mutant: the layout is moved down, but not to the left.
StartsRowRight(l) ==
    /\ l.x + l.w >= Width /\ l.x > 0
    /\ placed' = Append(placed, [l EXCEPT !.y = dy2])
    /\ dx' = l.w /\ dy' = dy2 /\ dy2' = dy2 + l.h

\* it does not, and starts the next row
StartsRow(l) ==
    /\ l.x + l.w >= Width /\ l.x > 0
    /\ placed' = Append(placed, [l EXCEPT !.x = 0, !.y = dy2])
    /\ dx' = l.w /\ dy' = dy2 /\ dy2' = dy2 + l.h

\* it is a row of its own; a position it gives moves the next row up too
FillsRow(cl, l) ==
    /\ l.x + l.w >= Width /\ l.x <= 0
    /\ placed' = Append(placed, l)
    /\ dx' = 0
    /\ dy' = IF cl.y < 0 THEN Larger(dy2, l.y + l.h) ELSE l.y + l.h
    /\ dy2' = dy'

Place(cl) ==
    /\ Len(placed) < MaxLayouts
    /\ LET l == AtPointer(cl) IN Fits(l) \/ StartsRow(l) \/ FillsRow(cl, l)
    /\ first' = IF cl.x < 0 /\ cl.y < 0 THEN first ELSE Len(placed) + 1

Next == \E cl \in Layouts : Place(cl)

Spec == Init /\ [][Next]_vars

-----------------------------------------------------------------------------
(* What must hold.                                                         *)

\* Every layout has a place and a size, and the row lies on the output.
FlowTypeOK ==
    /\ placed \in Seq([x : Nat, y : Nat, w : Nat, h : Nat])
    /\ dx \in Nat /\ dy \in Nat /\ dy2 \in Nat /\ dy <= dy2
    /\ first \in 1..(Len(placed) + 1)

Apart(a, b) == \/ a.x + a.w <= b.x \/ b.x + b.w <= a.x
               \/ a.y + a.h <= b.y \/ b.y + b.h <= a.y

\* Layouts that leave their position to the flow never cover one another, nor
\* the layout with a position that they follow.
FlowApart ==
    \A i, j \in first..Len(placed) : i < j => Apart(placed[i], placed[j])

\* A layout that is no wider than the output is not cut off at its right
\* edge, whatever position is given for it.
WithinWidth ==
    \A i \in 1..Len(placed) :
        placed[i].w <= Width => placed[i].x + placed[i].w <= Width
=============================================================================
