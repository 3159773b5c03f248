--------------------------- MODULE QimmFlow_proofs ---------------------------
(* The properties of QimmFlow, for every output and every configuration.   *)
EXTENDS QimmFlow, TLAPS

Rect == [x : Nat, y : Nat, w : Nat, h : Nat]

\* The parts of a rectangle are numbers.
LEMMA RectNat ==
    ASSUME NEW l \in Rect
    PROVE  l.x \in Nat /\ l.y \in Nat /\ l.w \in Nat /\ l.h \in Nat
  BY DEF Rect

\* Of the layouts of a flow, each ends above the row, or left of its right
\* end, and none ends below the row: this is why what comes next covers none.
Passed(l) == l.y + l.h <= dy2 /\ (l.y + l.h <= dy \/ l.x + l.w <= dx)

FlowInv ==
    /\ FlowTypeOK
    /\ FlowApart
    /\ \A i \in first..Len(placed) : Passed(placed[i])

\* A share of the output is no negative size.
LEMMA ShareNat ==
    ASSUME NEW whole \in Nat, NEW size \in Int
    PROVE  Share(whole, size) \in Nat
  <1>1. CASE size < 0
    <2>1. -size \in Nat /\ -size > 0
      BY <1>1
    <2>2. \A n \in Nat : n > 0 => whole \div n \in Nat
      OBVIOUS
    <2> QED  BY <1>1, <2>1, <2>2 DEF Share
  <1>2. CASE ~(size < 0)
    BY <1>2 DEF Share
  <1> QED  BY <1>1, <1>2

\* Where the pointer puts a layout.
LEMMA AtPointerType ==
    ASSUME FlowTypeOK, NEW cl \in Layouts
    PROVE  /\ AtPointer(cl) \in Rect
           /\ cl.x < 0 => AtPointer(cl).x = dx
           /\ cl.y < 0 => AtPointer(cl).y = dy
  <1>1. cl \in Layout
    BY LayoutsAssumption
  <1>2. Share(Width, cl.w) \in Nat /\ Share(Height, cl.h) \in Nat
    BY <1>1, ShareNat, SizeAssumption DEF Layout
  <1> QED  BY <1>1, <1>2 DEF AtPointer, Layout, FlowTypeOK, Rect

\* What the three ways of placing a layout have in common: where the flow
\* goes on, the layout covers none of it, and what is passed stays passed.
LEMMA Step ==
    ASSUME FlowInv, NEW cl \in Layouts, Place(cl)
    PROVE  \E l \in Rect :
              /\ placed' = Append(placed, l)
              /\ dx' \in Nat /\ dy' \in Nat /\ dy2' \in Nat /\ dy' <= dy2'
              /\ Passed(l)'
              /\ first' = first =>
                    \A i \in first..Len(placed) :
                        Apart(placed[i], l) /\ Passed(placed[i])'
              /\ l.w <= Width => l.x + l.w <= Width
  <1>0. PICK p \in Rect : p = AtPointer(cl)
    BY AtPointerType DEF FlowInv
  <1>1. /\ p \in Rect
        /\ cl.x < 0 => p.x = dx
        /\ cl.y < 0 => p.y = dy
        /\ p.x \in Nat /\ p.y \in Nat /\ p.w \in Nat /\ p.h \in Nat
    BY <1>0, AtPointerType, RectNat DEF FlowInv
  <1>2. /\ dx \in Nat /\ dy \in Nat /\ dy2 \in Nat /\ dy <= dy2
        /\ first \in 1..(Len(placed) + 1) /\ placed \in Seq(Rect)
    BY DEF FlowInv, FlowTypeOK, Rect
  <1>3. Fits(p) \/ StartsRow(p) \/ FillsRow(cl, p)
    BY <1>0 DEF Place
  <1>4. first' = first => (cl.x < 0 /\ cl.y < 0) \/ first = Len(placed) + 1
    BY <1>2 DEF Place
  <1>5. \A i \in first..Len(placed) :
           /\ i \in 1..Len(placed) /\ placed[i] \in Rect /\ Passed(placed[i])
           /\ placed[i].x \in Nat /\ placed[i].y \in Nat
           /\ placed[i].w \in Nat /\ placed[i].h \in Nat
    <2> SUFFICES ASSUME NEW i \in first..Len(placed)
                 PROVE  i \in 1..Len(placed) /\ placed[i] \in Rect
      BY RectNat DEF FlowInv
    <2>1. i \in 1..Len(placed)
      BY <1>2
    <2> QED  BY <1>2, <2>1
  <1>6. CASE Fits(p)
    <2>0. placed' = Append(placed, p) /\ p.x + p.w < Width
      BY <1>6 DEF Fits
    <2>3. dx' = p.x + p.w /\ dy' = p.y /\ dy2' = Larger(dy2, p.y + p.h)
      BY <1>6 DEF Fits
    <2>4. dx' \in Nat /\ dy' \in Nat
      BY <1>1, <2>3
    <2>5. dy2' \in Nat /\ p.y + p.h <= dy2'
      BY <1>1, <1>2, <2>3 DEF Larger
    <2>6. dy' <= dy2'
      BY <1>1, <2>3, <2>4, <2>5
    <2>7. p.x + p.w <= Width
      BY <1>1, <2>0, SizeAssumption
    <2>8. Passed(p)'
      BY <1>1, <2>3, <2>4, <2>5 DEF Passed
    <2>1. /\ placed' = Append(placed, p)
          /\ dx' \in Nat /\ dy' \in Nat /\ dy2' \in Nat /\ dy' <= dy2'
          /\ Passed(p)' /\ p.x + p.w <= Width
      BY <2>0, <2>4, <2>5, <2>6, <2>7, <2>8
    <2>2. ASSUME first' = first, NEW i \in first..Len(placed)
          PROVE  Apart(placed[i], p) /\ Passed(placed[i])'
      <3>1. cl.x < 0 /\ cl.y < 0
        BY <1>2, <1>4, <2>2
      <3>2. placed'[i] = placed[i]
        BY <1>2, <2>1, <2>2
      <3> DEFINE r == placed[i]
      <3>3. /\ r.x \in Nat /\ r.y \in Nat /\ r.w \in Nat /\ r.h \in Nat
            /\ Passed(r)
        BY <1>5, <2>2
      <3>4. p.x = dx /\ p.y = dy
        BY <1>1, <3>1
      <3> HIDE DEF r
      <3>5. Apart(r, p)
        BY <1>1, <1>2, <1>6, <3>3, <3>4 DEF Fits, Passed, Apart
      <3>6. /\ r.y + r.h <= dy2'
            /\ r.y + r.h <= dy' \/ r.x + r.w <= dx'
        <4>1. dx' = dx + p.w /\ dy' = dy /\ dy2' \in Nat /\ dy2 <= dy2'
          BY <1>1, <1>2, <1>6, <3>4 DEF Fits, Larger
        <4>2. r.y + r.h <= dy2'
          BY <1>2, <3>3, <4>1 DEF Passed
        <4>0. dx \in Nat /\ p.w \in Nat /\ r.x \in Nat /\ r.w \in Nat
          BY <1>1, <1>2, <3>3
        <4>3. r.x + r.w <= dx => r.x + r.w <= dx'
          BY <4>0, <4>1
        <4> QED  BY <3>3, <4>1, <4>2, <4>3 DEF Passed
      <3> QED  BY <3>2, <3>5, <3>6 DEF Passed, r
    <2> QED  BY <1>1, <2>1, <2>2
  <1>7. CASE StartsRow(p)
    <2>0. PICK l \in Rect : l = [p EXCEPT !.x = 0, !.y = dy2]
      BY <1>1, <1>2 DEF Rect
    <2>1. /\ placed' = Append(placed, l) /\ l \in Rect
          /\ l.x = 0 /\ l.y = dy2 /\ l.w = p.w /\ l.h = p.h
      BY <1>1, <1>2, <1>7, <2>0 DEF StartsRow, Rect
    <2>4. dx' = p.w /\ dy' = dy2 /\ dy2' = dy2 + p.h
      BY <1>7 DEF StartsRow
    <2>5. dx' \in Nat /\ dy' \in Nat /\ dy2' \in Nat /\ dy2 <= dy2'
      BY <1>1, <1>2, <2>4
    <2>6. Passed(l)'
      BY <1>1, <1>2, <2>1, <2>4 DEF Passed
    <2>7. l.w <= Width => l.x + l.w <= Width
      BY <1>1, <2>1, SizeAssumption
    <2>2. /\ dx' \in Nat /\ dy' \in Nat /\ dy2' \in Nat /\ dy' <= dy2'
          /\ Passed(l)' /\ (l.w <= Width => l.x + l.w <= Width)
      BY <2>4, <2>5, <2>6, <2>7
    <2>3. ASSUME first' = first, NEW i \in first..Len(placed)
          PROVE  Apart(placed[i], l) /\ Passed(placed[i])'
      <3>1. placed'[i] = placed[i]
        BY <1>2, <2>1, <2>3
      <3> DEFINE r == placed[i]
      <3>2. /\ r.x \in Nat /\ r.y \in Nat /\ r.w \in Nat /\ r.h \in Nat
            /\ Passed(r)
        BY <1>5, <2>3
      <3> HIDE DEF r
      <3>3. Apart(r, l)
        BY <1>1, <1>2, <2>1, <3>2 DEF Passed, Apart
      <3>4. r.y + r.h <= dy' /\ r.y + r.h <= dy2'
        <4>1. r.y + r.h <= dy2 /\ r.y + r.h \in Nat
          BY <3>2 DEF Passed
        <4> QED  BY <1>2, <2>4, <2>5, <4>1
      <3> QED  BY <3>1, <3>3, <3>4 DEF Passed, r
    <2> QED  BY <2>1, <2>2, <2>3
  <1>8. CASE FillsRow(cl, p)
    <2>0. placed' = Append(placed, p) /\ p.x = 0
      BY <1>1, <1>8 DEF FillsRow
    <2>3. /\ dx' = 0 /\ dy2' = dy'
          /\ dy' = IF cl.y < 0 THEN Larger(dy2, p.y + p.h) ELSE p.y + p.h
      BY <1>8 DEF FillsRow
    <2>4. dy' \in Nat /\ p.y + p.h <= dy' /\ (cl.y < 0 => dy2 <= dy')
      BY <1>1, <1>2, <2>3 DEF Larger
    <2>5. Passed(p)'
      BY <1>1, <2>3, <2>4 DEF Passed
    <2>6. p.w <= Width => p.x + p.w <= Width
      BY <1>1, <2>0, SizeAssumption
    <2>1. /\ placed' = Append(placed, p)
          /\ dx' \in Nat /\ dy' \in Nat /\ dy2' \in Nat /\ dy' <= dy2'
          /\ Passed(p)' /\ (p.w <= Width => p.x + p.w <= Width)
      BY <2>0, <2>3, <2>4, <2>5, <2>6
    <2>2. ASSUME first' = first, NEW i \in first..Len(placed)
          PROVE  Apart(placed[i], p) /\ Passed(placed[i])'
      <3>1. cl.x < 0 /\ cl.y < 0
        BY <1>2, <1>4, <2>2
      <3>2. placed'[i] = placed[i]
        BY <1>2, <2>1, <2>2
      <3> DEFINE r == placed[i]
      <3>3. /\ r.x \in Nat /\ r.y \in Nat /\ r.w \in Nat /\ r.h \in Nat
            /\ Passed(r)
        BY <1>5, <2>2
      <3>4. p.x = dx /\ p.y = dy
        BY <1>1, <3>1
      <3> HIDE DEF r
      <3>5. Apart(r, p)
        BY <1>1, <1>2, <1>8, <3>3, <3>4 DEF FillsRow, Passed, Apart
      <3>6. /\ r.y + r.h <= dy2'
            /\ r.y + r.h <= dy' \/ r.x + r.w <= dx'
        <4>1. r.y + r.h <= dy2 /\ r.y + r.h \in Nat
          BY <3>3 DEF Passed
        <4> QED  BY <1>2, <2>3, <2>4, <3>1, <4>1
      <3> QED  BY <3>2, <3>5, <3>6 DEF Passed, r
    <2> QED  BY <1>1, <2>1, <2>2
  <1> QED  BY <1>3, <1>6, <1>7, <1>8

\* The layouts of a flow stay apart, and passed, from one step to the next.
LEMMA FlowStep == FlowInv /\ [Next]_vars => FlowInv'
  <1> SUFFICES ASSUME FlowInv, [Next]_vars
               PROVE  FlowInv'
    OBVIOUS
  <1>1. CASE UNCHANGED vars
    BY <1>1 DEF FlowInv, FlowTypeOK, FlowApart, Passed, vars
  <1>2. ASSUME NEW cl \in Layouts, Place(cl)
        PROVE  FlowInv'
    <2>1. PICK l \in Rect :
              /\ placed' = Append(placed, l)
              /\ dx' \in Nat /\ dy' \in Nat /\ dy2' \in Nat /\ dy' <= dy2'
              /\ Passed(l)'
              /\ first' = first =>
                    \A i \in first..Len(placed) :
                        Apart(placed[i], l) /\ Passed(placed[i])'
      BY <1>2, Step
    <2>2. /\ placed \in Seq(Rect) /\ first \in 1..(Len(placed) + 1)
          /\ FlowApart
      BY DEF FlowInv, FlowTypeOK, Rect
    <2>3. /\ placed' \in Seq(Rect) /\ Len(placed') = Len(placed) + 1
          /\ placed'[Len(placed) + 1] = l
          /\ \A i \in 1..Len(placed) : placed'[i] = placed[i]
      BY <2>1, <2>2
    <2>4. first' = first \/ first' = Len(placed) + 1
      BY <1>2 DEF Place
    <2>5. FlowTypeOK'
      <3>1. first' \in 1..(Len(placed') + 1)
        BY <2>2, <2>3, <2>4
      <3> QED  BY <2>1, <2>3, <3>1 DEF FlowTypeOK, Rect
    <2>6. FlowApart'
      <3> SUFFICES ASSUME NEW i \in first'..Len(placed'),
                          NEW j \in first'..Len(placed'), i < j
                   PROVE  Apart(placed'[i], placed'[j])
        BY DEF FlowApart, Apart
      <3>1. first' = first /\ i \in first..Len(placed)
        BY <2>2, <2>3, <2>4
      <3>2. CASE j = Len(placed) + 1
        BY <2>1, <2>2, <2>3, <3>1, <3>2
      <3>3. CASE j \in first..Len(placed)
        BY <2>2, <2>3, <3>1, <3>3 DEF FlowApart
      <3> QED  BY <2>2, <2>3, <3>1, <3>2, <3>3
    <2>7. (\A i \in first..Len(placed) : Passed(placed[i]))'
      <3> SUFFICES ASSUME NEW i \in first'..Len(placed')
                   PROVE  Passed(placed[i])'
        OBVIOUS
      <3>1. CASE i = Len(placed) + 1
        BY <2>1, <2>3, <3>1 DEF Passed
      <3>2. CASE i # Len(placed) + 1
        BY <2>1, <2>2, <2>3, <2>4, <3>2
      <3> QED  BY <3>1, <3>2
    <2> QED  BY <2>5, <2>6, <2>7 DEF FlowInv
  <1> QED  BY <1>1, <1>2 DEF Next

\* No layout is placed at first.
LEMMA FlowStart == Init => FlowInv
  BY DEF Init, FlowInv, FlowTypeOK, FlowApart

\* Every layout has a place and a size, and the pointer is where rows go.
THEOREM FlowTypeCorrect == Spec => []FlowTypeOK
  <1>1. FlowInv => FlowTypeOK
    BY DEF FlowInv
  <1> QED  BY <1>1, FlowStart, FlowStep, PTL DEF Spec

\* Whatever the configuration, the layouts of a flow never cover one another.
THEOREM FlowsApart == Spec => []FlowApart
  <1>1. FlowInv => FlowApart
    BY DEF FlowInv
  <1> QED  BY <1>1, FlowStart, FlowStep, PTL DEF Spec

\* Whatever the configuration, no layout that fits is cut off on the right.
THEOREM NeverCutOff == Spec => []WithinWidth
  <1>1. Init => WithinWidth
    BY DEF Init, WithinWidth
  <1>2. FlowInv /\ WithinWidth /\ [Next]_vars => WithinWidth'
    <2> SUFFICES ASSUME FlowInv, WithinWidth, [Next]_vars
                 PROVE  WithinWidth'
      OBVIOUS
    <2>1. CASE UNCHANGED vars
      BY <2>1 DEF WithinWidth, vars
    <2>2. ASSUME NEW cl \in Layouts, Place(cl)
          PROVE  WithinWidth'
      <3>1. PICK l \in Rect :
                /\ placed' = Append(placed, l)
                /\ l.w <= Width => l.x + l.w <= Width
        BY <2>2, Step
      <3>2. placed \in Seq(Rect)
        BY DEF FlowInv, FlowTypeOK, Rect
      <3>3. /\ Len(placed') = Len(placed) + 1 /\ placed'[Len(placed) + 1] = l
            /\ \A i \in 1..Len(placed) : placed'[i] = placed[i]
        BY <3>1, <3>2
      <3> SUFFICES ASSUME NEW i \in 1..(Len(placed) + 1), placed'[i].w <= Width
                   PROVE  placed'[i].x + placed'[i].w <= Width
        BY <3>3 DEF WithinWidth
      <3>4. CASE i = Len(placed) + 1
        BY <3>1, <3>3, <3>4
      <3>5. CASE i \in 1..Len(placed)
        BY <3>3, <3>5 DEF WithinWidth
      <3> QED  BY <3>2, <3>4, <3>5
    <2> QED  BY <2>1, <2>2 DEF Next
  <1> QED  BY <1>1, <1>2, FlowStart, FlowStep, PTL DEF Spec
=============================================================================
