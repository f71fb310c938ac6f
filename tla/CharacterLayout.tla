--------------------------- MODULE CharacterLayout ---------------------------
(***************************************************************************)
(* Where a character stands in its window.  The validator of packs judges  *)
(* the geometry a manifest declares; the runtime parses it again and maps  *)
(* the canvas of the character into the window with one transform, shared  *)
(* by the painter, the input mask and the clicks.  Pure operators.         *)
(*                                                                         *)
(* A geometry is a record: canvas [w, h], content and motion rectangles    *)
(* [x, y, w, h], base and bubble points [x, y], reference height, and hits,*)
(* a sequence of shapes.  None is a part that is missing or no number.     *)
(* Lengths are counted in units of the tolerance both readers know, so one *)
(* unit beyond an edge is tolerated and two are not; window lengths are    *)
(* device-independent pixels.                                              *)
(***************************************************************************)
EXTENDS Integers, Sequences, Functions

CONSTANT None

MaxCanvasSide == 4096
MaxRegions    == 16
MaxPoints     == 32
Tolerance     == 1

Positive(n) == n # None /\ n > 0

\* The shape of a geometry that is declared: a list of regions, and lengths in
\* whole units (a fraction of a unit, and its rounding, is left out).
GeometryTyped(g) ==
  /\ g.motion # None => {g.motion.x, g.motion.y, g.motion.w, g.motion.h} \subseteq Int
  /\ g.reference # None => g.reference \in Int
  /\ DOMAIN g.hits = 1 .. Len(g.hits) /\ Len(g.hits) \in Nat

-----------------------------------------------------------------------------
(* The validator *)

SizeValid(s) == s # None /\ s.w \in 1 .. MaxCanvasSide /\ s.h \in 1 .. MaxCanvasSide

\* Mutant: the far edges are not looked at.
RectStarts(r, canvas) ==
  /\ r # None /\ r.w > 0 /\ r.h > 0
  /\ r.x >= -Tolerance /\ r.y >= -Tolerance

RectValid(r, canvas) ==
  /\ r # None /\ r.w > 0 /\ r.h > 0
  /\ r.x >= -Tolerance /\ r.x + r.w <= canvas.w + Tolerance
  /\ r.y >= -Tolerance /\ r.y + r.h <= canvas.h + Tolerance

PointValid(q, canvas) ==
  q # None /\ q.x \in 0 .. canvas.w + Tolerance /\ q.y \in 0 .. canvas.h + Tolerance

\* The square a circle lies in.
Around(q, radius) == [x |-> q.x - radius, y |-> q.y - radius, w |-> 2 * radius, h |-> 2 * radius]

HitValid(h, canvas) ==
  CASE h.shape = "rect"    -> RectValid(h.rect, canvas)
    [] h.shape = "circle"  -> /\ PointValid(h.center, canvas)
                              /\ Positive(h.radius)
                              /\ RectValid(Around(h.center, h.radius), canvas)
    [] h.shape = "polygon" -> /\ Len(h.points) \in 3 .. MaxPoints
                              /\ \A q \in Range(h.points) : PointValid(q, canvas)
    [] OTHER               -> FALSE

GeometryValid(g) ==
  /\ SizeValid(g.canvas)
  /\ RectValid(g.content, g.canvas) /\ RectValid(g.motion, g.canvas)
  /\ PointValid(g.base, g.canvas) /\ PointValid(g.bubble, g.canvas)
  /\ Positive(g.reference)
  /\ Len(g.hits) <= MaxRegions
  /\ \A h \in Range(g.hits) : HitValid(h, g.canvas)

\* A variant may restate the geometry, on the same canvas.
GeometriesValid(c) ==
  /\ c.geometry # None /\ GeometryValid(c.geometry)
  /\ c.override # None =>
       GeometryValid(c.override) /\ c.override.canvas = c.geometry.canvas

-----------------------------------------------------------------------------
(* The runtime *)

RectParses(r) == r # None /\ r.w > 0 /\ r.h > 0 /\ r.x >= 0 /\ r.y >= 0

EndsInside(r, canvas) ==
  r.x + r.w <= canvas.w + Tolerance /\ r.y + r.h <= canvas.h + Tolerance

OnCanvas(q, canvas) == q.x \in 0 .. canvas.w /\ q.y \in 0 .. canvas.h

\* CharacterGeometry.from_character: otherwise the picture is fitted whole.
Parses(g) ==
  /\ g # None
  /\ g.canvas # None /\ g.canvas.w > 0 /\ g.canvas.h > 0
  /\ RectParses(g.content) /\ EndsInside(g.content, g.canvas)
  /\ RectParses(g.motion) /\ EndsInside(g.motion, g.canvas)
  /\ g.base # None /\ OnCanvas(g.base, g.canvas)
  /\ g.bubble # None /\ OnCanvas(g.bubble, g.canvas)
  /\ Positive(g.reference)

\* A region the runtime can be clicked in; without any it is the whole body.
HitKept(h) ==
  CASE h.shape = "rect"    -> RectParses(h.rect)
    [] h.shape = "circle"  -> h.center # None /\ Positive(h.radius)
    [] h.shape = "polygon" -> Len(h.points) >= 3 /\ None \notin Range(h.points)
    [] OTHER               -> FALSE

\* The places of the regions that are kept.
HitShapes(g) == {i \in DOMAIN g.hits : i <= MaxRegions /\ HitKept(g.hits[i])}

Window    == [w |-> 232, h |-> 236]
Available == [w |-> Window.w - 8, h |-> Window.h - 6]
FootLine  == Window.h - 2

\* Mutant: a wide or tall motion does not make the character smaller.
FullHeight(g) == [num |-> Available.h, den |-> g.reference]

\* One scale: the reference height fills the window, if the motion still fits.
Scale(g) ==
  LET ways == {[num |-> Available.h, den |-> g.reference],
               [num |-> Available.w, den |-> g.motion.w],
               [num |-> Available.h, den |-> g.motion.h]}
  IN CHOOSE s \in ways : \A t \in ways : s.num * t.den <= t.num * s.den

\* How far an interval of the given length is moved to lie within 0 .. size.
Shift(from, length, size) ==
  IF from < 0 THEN -from
  ELSE IF from + length > size THEN size - from - length ELSE 0

\* compute_body_layout: the corner of the mapped canvas, in 1/den pixels.
BodyLayout(g) ==
  LET s  == Scale(g)
      x  == (Window.w \div 2) * s.den - g.base.x * s.num
      y  == FootLine * s.den - g.base.y * s.num
      dx == Shift(x + g.motion.x * s.num, g.motion.w * s.num, Window.w * s.den)
      dy == Shift(y + g.motion.y * s.num, g.motion.h * s.num, Window.h * s.den)
  IN [x |-> x + dx, y |-> y + dy, num |-> s.num, den |-> s.den,
      clamped |-> dx # 0 \/ dy # 0]

\* A rectangle of the canvas in the window.
Mapped(r, l) ==
  [x |-> l.x + r.x * l.num, y |-> l.y + r.y * l.num, w |-> r.w * l.num, h |-> r.h * l.num]

\* The input mask, which also clips the painting.
MotionRect(g) == Mapped(g.motion, BodyLayout(g))
=============================================================================
