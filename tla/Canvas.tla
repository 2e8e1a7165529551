------------------------------- MODULE Canvas -------------------------------
(***************************************************************************)
(* framebuffer.rs and the pointer of the interface: what is drawn goes     *)
(* into a buffer in memory, where there is one, and the box around what    *)
(* changed is copied to the screen; the pointer keeps what is beneath it.  *)
(* Pixels are numbers, and the screen may have room for less of each.      *)
(***************************************************************************)
EXTENDS Integers, FiniteSetsExt

CONSTANTS
  Width, Height, Pitch,   \* a row of the screen may be longer than it is wide
  ShadowWidth, ShadowHeight,    \* of the buffer
  Size,                   \* of the pointer
  Edge, Title,            \* its colours
  Draws,                  \* what a widget may draw
  Frames                  \* bound

VARIABLES
  source,    \* whether there is a buffer and a pointer, and how deep the screen is
  code,      \* the buffer, the screen, and the scene that was meant
  walk,      \* the box, the pointer, what is beneath it, the step of the frame
  answers

canvasVars == <<source, code, walk, answers>>

Surfaces == [buffer : BOOLEAN, pointer : BOOLEAN, deep : BOOLEAN]

Columns == 0 .. Width - 1
Rows    == 0 .. Height - 1
Least(a, b) == IF a < b THEN a ELSE b
Most(a, b)  == IF a > b THEN a ELSE b

\* store(): a shallow screen drops the last bit.
Stored(colour) == IF source.deep THEN colour ELSE colour - (colour % 2)

Composited == source.buffer /\ Width <= ShadowWidth /\ Height <= ShadowHeight

Shadow(x, y) == (y * Width) + x
Offset(x, y) == (y * Pitch) + x

Clean == [x0 |-> Width + 1, y0 |-> Height + 1, x1 |-> 0, y1 |-> 0]

\* The mistake of marking where it begins and not where it ends.
MarkCorner(d, x, y, w, h) ==
  [x0 |-> Least(d.x0, x), y0 |-> Least(d.y0, y), x1 |-> Most(d.x1, w), y1 |-> Most(d.y1, h)]

Mark(d, x, y, w, h) ==
  [x0 |-> Least(d.x0, x), y0 |-> Least(d.y0, y), x1 |-> Most(d.x1, x + w), y1 |-> Most(d.y1, y + h)]

(***************************************************************************)
(* A canvas c is a buffer, a screen and a box.                             *)
(***************************************************************************)
Inside(x, y) == x \in Columns /\ y \in Rows

Get(c, x, y) ==
  IF ~Inside(x, y) THEN 0 ELSE IF Composited THEN c.shadow[Shadow(x, y)] ELSE c.screen[Offset(x, y)]

Fill(c, x, y, w, h, colour) ==
  LET right  == Least(x + w, Width)
      bottom == Least(y + h, Height)
      Covers(i, row) == i % row \in x .. right - 1 /\ i \div row \in y .. bottom - 1
  IN IF ~Inside(x, y) \/ w = 0 \/ h = 0 THEN c
     ELSE IF Composited
     THEN [c EXCEPT !.shadow = [i \in DOMAIN @ |-> IF Covers(i, Width) THEN colour ELSE @[i]],
                    !.dirty = Mark(@, x, y, right - x, bottom - y)]
     ELSE [c EXCEPT !.screen = [i \in DOMAIN @ |-> IF Covers(i, Pitch) THEN Stored(colour) ELSE @[i]]]

Set(c, x, y, colour) == Fill(c, x, y, 1, 1, colour)

Outline(c, x, y, w, h, colour) ==
  IF w = 0 \/ h = 0 THEN c
  ELSE LET top    == Fill(c, x, y, w, 1, colour)
           bottom == Fill(top, x, y + h - 1, w, 1, colour)
           left   == Fill(bottom, x, y, 1, h, colour)
       IN Fill(left, x + w - 1, y, 1, h, colour)

Present(c, x, y, w, h) ==
  LET right  == Least(x + w, Width)
      bottom == Least(y + h, Height)
      Copied(o) == o % Pitch \in x .. right - 1 /\ o \div Pitch \in y .. bottom - 1
  IN IF ~Composited \/ w = 0 \/ h = 0 \/ ~Inside(x, y) THEN c
     ELSE [c EXCEPT !.screen = [o \in DOMAIN @ |-> IF Copied(o) THEN Stored(c.shadow[Shadow(o % Pitch, o \div Pitch)])
                                                     ELSE @[o]]]

PresentDamage(c) ==
  LET d == c.dirty
  IN IF d.x0 >= d.x1 \/ d.y0 >= d.y1 THEN [c EXCEPT !.dirty = Clean]
     ELSE [Present(c, d.x0, d.y0, d.x1 - d.x0, d.y1 - d.y0) EXCEPT !.dirty = Clean]

(***************************************************************************)
(* The pointer: a triangle, with an edge.                                  *)
(***************************************************************************)
Shape   == {p \in (0 .. Size - 1) \X (0 .. Size - 1) : p[1] <= p[2] /\ p[2] < Size - (p[1] \div 2)}
OnEdge(p) == p[1] = 0 \/ p[1] = p[2] \/ p[2] + 1 >= Size - (p[1] \div 2)

\* Every pixel of it that is on the screen is set, each to its colour; they are
\* distinct, so that their order does not matter.
Put(c, at, colours) ==
  LET seen  == {<<at[1] + p[1], at[2] + p[2]>> : p \in Shape} \cap (Columns \X Rows)
      Drawn(pixels, row) ==
        [i \in DOMAIN pixels |->
           IF <<i % row, i \div row>> \notin seen THEN pixels[i]
           ELSE IF Composited THEN colours[<<(i % row) - at[1], (i \div row) - at[2]>>]
           ELSE Stored(colours[<<(i % row) - at[1], (i \div row) - at[2]>>])]
      d     == c.dirty
      box   == [x0 |-> Min({d.x0} \cup {q[1] : q \in seen}),     y0 |-> Min({d.y0} \cup {q[2] : q \in seen}),
                x1 |-> Max({d.x1} \cup {q[1] + 1 : q \in seen}), y1 |-> Max({d.y1} \cup {q[2] + 1 : q \in seen})]
  IN IF Composited THEN [c EXCEPT !.shadow = Drawn(@, Width), !.dirty = box]
     ELSE [c EXCEPT !.screen = Drawn(@, Pitch)]

Beneath(c, at) == [p \in Shape |-> Get(c, at[1] + p[1], at[2] + p[2])]

CursorDraw(c, at) == Put(c, at, [p \in Shape |-> IF OnEdge(p) THEN Edge ELSE Title])

CursorErase(c, at, under) == Put(c, at, under)

(***************************************************************************)
(* run(): everything is drawn and presented once; then, frame by frame,    *)
(* the pointer is erased, the widgets that changed are drawn, and the      *)
(* pointer is drawn where it is now.  The pointer may move, and the notice *)
(* of power_off() be drawn, between frames.                                *)
(***************************************************************************)
Background == 1

CanvasInit ==
  /\ code = [shadow |-> [i \in 0 .. Width * Height - 1 |-> 0], screen |-> [o \in 0 .. Pitch * Height - 1 |-> 3],
             dirty |-> Clean]
  /\ walk = [pc |-> "clear", frames |-> 0, x |-> 0, y |-> 0, drawn |-> FALSE, at |-> <<0, 0>>,
             under |-> [p \in Shape |-> 0]]
  /\ answers = [scene |-> [i \in 0 .. Width * Height - 1 |-> 0], stale |-> {}]

At(pc)     == walk.pc = pc
Goes(pc)   == [walk EXCEPT !.pc = pc]
CanvasDone == At("between") /\ walk.frames = Frames

\* The scene is all that was drawn, on a canvas that is only that.
Box(x, y, w, h) == {Shadow(a, b) : a \in Columns \cap (x .. x + w - 1), b \in Rows \cap (y .. y + h - 1)}

Covered(d) ==
  Box(d.x, d.y, d.w, d.h) \ (IF d.kind = "fill" THEN {} ELSE Box(d.x + 1, d.y + 1, d.w - 2, d.h - 2))

Meant(d) == [i \in DOMAIN answers.scene |-> IF i \in Covered(d) THEN d.colour ELSE answers.scene[i]]

Paint(c, d) ==
  IF d.kind = "fill" THEN Fill(c, d.x, d.y, d.w, d.h, d.colour) ELSE Outline(c, d.x, d.y, d.w, d.h, d.colour)

Whole(colour) == [kind |-> "fill", x |-> 0, y |-> 0, w |-> Width, h |-> Height, colour |-> colour]

FirstScreen ==
  /\ At("clear")
  /\ code' = [Present(Paint(code, Whole(Background)), 0, 0, Width, Height) EXCEPT !.dirty = Clean]
  /\ answers' = [answers EXCEPT !.scene = Meant(Whole(Background))]
  /\ walk' = Goes("between")

Move ==
  /\ At("between") /\ walk.frames < Frames
  /\ \E x \in Columns, y \in Rows : walk' = [walk EXCEPT !.x = x, !.y = y, !.pc = "moved"]
  /\ UNCHANGED <<code, answers>>

\* What is painted under the pointer is lost when it is erased.
PatchOf(at) == {Shadow(at[1] + p[1], at[2] + p[2]) : p \in {q \in Shape : Inside(at[1] + q[1], at[2] + q[2])}}

PowerOff ==
  /\ At("moved")
  /\ LET notice == [Whole(Background + 1) EXCEPT !.y = Height - 1, !.h = 1]
     IN /\ code' = PresentDamage(Paint(code, notice))
        /\ answers' = [scene |-> Meant(notice), stale |-> IF walk.drawn THEN PatchOf(walk.at) ELSE {}]
  /\ walk' = Goes("erase")

BeginFrame == At("moved") /\ walk' = Goes("erase") /\ UNCHANGED <<code, answers>>

Erase ==
  /\ At("erase")
  /\ code' = IF source.pointer /\ walk.drawn THEN PresentDamage(CursorErase(code, walk.at, walk.under)) ELSE code
  /\ walk' = [Goes("first") EXCEPT !.drawn = @ /\ ~source.pointer]
  /\ UNCHANGED answers

Widget(now, next) ==
  /\ At(now)
  /\ walk' = Goes(next)
  /\ \/ \E d \in Draws :
          /\ code' = PresentDamage(Paint(code, d))
          /\ answers' = [scene |-> Meant(d), stale |-> answers.stale \ Covered(d)]
     \/ code' = PresentDamage(code) /\ UNCHANGED answers

FirstWidget  == Widget("first", "second")
SecondWidget == Widget("second", "draw")

DrawCursor ==
  /\ At("draw")
  /\ LET at == <<walk.x, walk.y>>
     IN IF source.pointer
        THEN /\ code' = PresentDamage(CursorDraw(code, at))
             /\ walk' = [Goes("between") EXCEPT !.at = at, !.under = Beneath(code, at), !.drawn = TRUE, !.frames = @ + 1]
        ELSE /\ walk' = [Goes("between") EXCEPT !.frames = @ + 1]
             /\ UNCHANGED code
  /\ UNCHANGED answers

CanvasNext ==
  /\ ~CanvasDone
  /\ \/ FirstScreen \/ Move \/ PowerOff \/ BeginFrame \/ Erase \/ FirstWidget \/ SecondWidget \/ DrawCursor
  /\ UNCHANGED source

(***************************************************************************)
(* Between frames the screen is the scene with the pointer over it, but    *)
(* for what was painted under a pointer that was drawn; and nothing but    *)
(* the screen is written.                                                  *)
(***************************************************************************)
ScreenIsTheScene ==
  At("between") =>
    /\ \A x \in Columns, y \in Rows :
         LET p == <<x - walk.at[1], y - walk.at[2]>>
         IN IF walk.drawn /\ p \in Shape
            THEN code.screen[Offset(x, y)] = Stored(IF OnEdge(p) THEN Edge ELSE Title)
            ELSE Shadow(x, y) \notin answers.stale =>
                   code.screen[Offset(x, y)] = Stored(answers.scene[Shadow(x, y)])
    /\ \A o \in DOMAIN code.screen : o % Pitch \notin Columns => code.screen[o] = 3
=============================================================================
