----------------------------- MODULE PanelProofs -----------------------------
(***************************************************************************)
(* The two pages of the control panel that hold work in progress: the      *)
(* characters page, which imports a pack, and the notes pane.              *)
(*                                                                         *)
(* The import, for any packs: what is inductive (ImportIInv) says what     *)
(* each frame in the pipe is about and in which order they come, so that   *)
(* a whole answer of a child that ended well is about the pack it          *)
(* inspected.  That the runtime can show what was inspected is proved of   *)
(* the three readers of a manifest, without the import (ReadersAgree).     *)
(*                                                                         *)
(* The notes pane, for any tree of tasks, any limit of drafts and any      *)
(* faults of the store: what is inductive says how the live editor and     *)
(* the kept drafts agree (Sound): a dirty text is the kept draft of its    *)
(* task, unless the drafts were full and the user was warned; a clean      *)
(* editor has no draft beside it; and what is not stored was written in    *)
(* the present generation of the store, which the page itself may not know *)
(* of while its refreshes fail.  Each step is proved Good once: it keeps   *)
(* the invariant and satisfies the three action properties, which the      *)
(* theorems then read off.                                                 *)
(***************************************************************************)
EXTENDS LocalImport, NoteEditor, FiniteSetTheorems, SequenceTheorems,
        WellFoundedInduction, TLAPS

-----------------------------------------------------------------------------
(* The three readers of a manifest *)

\* What it is to be in a range of integers.
LEMMA InRange ==
  ASSUME NEW low \in Int, NEW high \in Int, NEW n \in low .. high
  PROVE  n \in Int /\ low <= n /\ n <= high
  OBVIOUS

\* What the inspection says of one action that a character binds: its loop is
\* shown, is of a kind that is drawn, and every frame of it was decoded.
LEMMA BoundAction ==
  ASSUME NEW p, PackTyped(p), Inspected(p), NEW c \in DOMAIN p.characters,
         NEW s \in DOMAIN p.characters[c].bind
  PROVE  LET action == p.actions[p.characters[c].bind[s]] IN
           /\ p.characters[c].bind[s] \in DOMAIN p.actions
           /\ Drawable(action) /\ Shown(action) = action.loop /\ action.loop # None
           /\ \A id \in FrameAssets(action.loop) : p.assets[id].decodes
           /\ FirstAsset(action.loop) \in FrameAssets(action.loop)
<1> DEFINE ch == p.characters[c]
           id == ch.bind[s]
           action == p.actions[id]
<1>1. ch \in Range(p.characters) /\ id \in Range(ch.bind)  BY DEF Range
<1>2. id \in DOMAIN p.actions
  BY <1>1 DEF Inspected, Validated, ActionsValid, CharacterValid
<1>3. action \in Range(p.actions)  BY <1>2 DEF Range
<1>4. action.loop # None /\ action.loop.type \in DrawableKinds
  BY <1>1 DEF Inspected, Renderable
<1>5. Drawable(action) /\ Shown(action) = action.loop
  BY <1>4 DEF Drawable, Shown
<1>6. id \in UNION {Range(d.bind) : d \in Range(p.characters)}
  BY <1>1
<1>7. \A a \in FrameAssets(action.loop) : p.assets[a].decodes
  <2>1. \A a \in FrameAssets(action.loop) : a \in BodyAssets(p)
    BY <1>6 DEF BodyAssets
  <2> QED  BY <2>1 DEF Inspected, Transparent, Decodes
<1>8. FirstAsset(action.loop) \in FrameAssets(action.loop)
  <2>1. CASE action.loop.type = "static"  BY <2>1 DEF FirstAsset, FrameAssets
  <2>2. CASE action.loop.type # "static"
    <3>1. action.loop.type = "sequence"  BY <1>4, <2>2 DEF DrawableKinds
    <3>2. action.loop \in Stages(action)  BY <1>4 DEF Stages
    <3>3. TimelineValid(p, action)
      BY <1>3 DEF Inspected, Validated, ActionsValid
    <3>4. Len(action.loop.frames) \in 1 .. MaxFramesPerAction
      BY <3>1, <3>2, <3>3 DEF TimelineValid
    <3>5. DOMAIN action.loop.frames = 1 .. Len(action.loop.frames)
      BY <1>3, <1>4, <3>1 DEF PackTyped
    <3>6. 1 \in DOMAIN action.loop.frames
      <4> DEFINE n == Len(action.loop.frames)
      <4>1. n \in 1 .. MaxFramesPerAction  BY <3>4
      <4> HIDE DEF n
      <4>2. n \in Int /\ 1 <= n
        <5>1. MaxFramesPerAction \in Int  BY DEF MaxFramesPerAction
        <5> QED  BY <4>1, <5>1, InRange
      <4>3. 1 \in 1 .. n  BY <4>2
      <4> QED  BY <3>5, <4>3 DEF n
    <3>7. action.loop.frames[1] \in Range(action.loop.frames)  BY <3>6 DEF Range
    <3> QED  BY <3>1, <3>7 DEF FirstAsset, FrameAssets
  <2> QED  BY <2>1, <2>2
<1> QED  BY <1>2, <1>4, <1>5, <1>7, <1>8

\* So the runtime shows the loop, and never has to fall back to another stage.
LEMMA ProfileIsLoop ==
  ASSUME NEW p, PackTyped(p), Inspected(p), NEW c \in DOMAIN p.characters,
         NEW s \in DOMAIN p.characters[c].bind
  PROVE  Profile(p, c, s) = p.actions[p.characters[c].bind[s]].loop
         /\ Profile(p, c, s) # None
  BY BoundAction DEF Profile

\* Every character binds an idle.
LEMMA IdleIsBound ==
  ASSUME NEW p, Inspected(p), NEW c \in DOMAIN p.characters
  PROVE  "core.idle" \in DOMAIN p.characters[c].bind
<1>1. p.characters[c] \in Range(p.characters)  BY DEF Range
<1> QED  BY <1>1 DEF Inspected, Validated, ActionsValid, CharacterValid

\* A list of regions that the validator passes is kept whole.
LEMMA RegionsKept ==
  ASSUME NEW g, GeometryTyped(g), GeometryValid(g), Untolerated(g)
  PROVE  HitShapes(g) = DOMAIN g.hits
<1>1. \A i \in DOMAIN g.hits : i <= MaxRegions
  BY DEF GeometryTyped, GeometryValid, MaxRegions
<1>2. ASSUME NEW i \in DOMAIN g.hits PROVE HitKept(g.hits[i])
  <2> DEFINE h == g.hits[i]
  <2>1. h \in Range(g.hits)  BY DEF Range
  <2>2. HitValid(h, g.canvas)  BY <2>1 DEF GeometryValid
  <2> HIDE DEF h
  <2>3. CASE h.shape = "rect"
    <3>1. RectValid(h.rect, g.canvas)  BY <2>2, <2>3 DEF HitValid
    <3>2. h.rect.x >= 0 /\ h.rect.y >= 0
      BY <2>1, <2>3 DEF Untolerated
    <3>3. RectParses(h.rect)  BY <3>1, <3>2 DEF RectValid, RectParses
    <3> QED  BY <2>3, <3>3 DEF HitKept, h
  <2>4. CASE h.shape = "circle"
    <3>1. PointValid(h.center, g.canvas) /\ Positive(h.radius)
      BY <2>2, <2>4 DEF HitValid
    <3> QED  BY <2>4, <3>1 DEF HitKept, PointValid, h
  <2>5. CASE h.shape = "polygon"
    <3>1. Len(h.points) \in 3 .. MaxPoints
          /\ \A q \in Range(h.points) : PointValid(q, g.canvas)
      BY <2>2, <2>5 DEF HitValid
    <3>2. Len(h.points) >= 3
      <4> DEFINE n == Len(h.points)
      <4>1. n \in 3 .. MaxPoints /\ MaxPoints \in Int  BY <3>1 DEF MaxPoints
      <4> HIDE DEF n
      <4>2. n >= 3  BY <4>1, InRange
      <4> QED  BY <4>2 DEF n
    <3>3. None \notin Range(h.points)  BY <3>1 DEF PointValid
    <3> QED  BY <2>5, <3>2, <3>3 DEF HitKept, h
  <2> QED  BY <2>2, <2>3, <2>4, <2>5 DEF HitValid
<1> QED  BY <1>1, <1>2 DEF HitShapes

\* The scale is one of the three, and no larger than any of them.
LEMMA ScaleIsLeast ==
  ASSUME NEW g, g.reference \in Int, g.motion.w \in Int, g.motion.h \in Int,
         g.reference > 0, g.motion.w > 0, g.motion.h > 0
  PROVE  LET s == Scale(g) IN
           /\ \/ s.num = 230 /\ s.den = g.reference
              \/ s.num = 224 /\ s.den = g.motion.w
              \/ s.num = 230 /\ s.den = g.motion.h
           /\ s.num * g.motion.w <= 224 * s.den
           /\ s.num * g.motion.h <= 230 * s.den
<1> DEFINE a == [num |-> 230, den |-> g.reference]
           b == [num |-> 224, den |-> g.motion.w]
           c == [num |-> 230, den |-> g.motion.h]
           Least(s) == s.num * a.den <= a.num * s.den /\ s.num * b.den <= b.num * s.den
                       /\ s.num * c.den <= c.num * s.den
<1>1. Available.h = 230 /\ Available.w = 224  BY DEF Available, Window
<1>2. Scale(g) = CHOOSE s \in {a, b, c} : \A t \in {a, b, c} : s.num * t.den <= t.num * s.den
  BY <1>1 DEF Scale
<1>3. \A s \in {a, b, c} : Least(s) <=> \A t \in {a, b, c} : s.num * t.den <= t.num * s.den
  OBVIOUS
<1>4. Least(a) \/ Least(b) \/ Least(c)
  OBVIOUS
<1>5. \E s \in {a, b, c} : \A t \in {a, b, c} : s.num * t.den <= t.num * s.den
  BY <1>3, <1>4
<1>6. Scale(g) \in {a, b, c} /\ Least(Scale(g))
  BY <1>2, <1>3, <1>5
<1> QED  BY <1>6

\* An interval that is not longer than the room there is can be moved into it.
LEMMA ShiftFits ==
  ASSUME NEW from \in Int, NEW length \in Int, NEW size \in Int, length <= size, length >= 0
  PROVE  /\ Shift(from, length, size) \in Int
         /\ from + Shift(from, length, size) >= 0
         /\ from + Shift(from, length, size) + length <= size
  BY DEF Shift

\* Whatever the proportions of a character, its motion is in the window.
LEMMA MotionInWindow ==
  ASSUME NEW g, g.reference \in Int, g.reference > 0,
         g.motion.x \in Int, g.motion.y \in Int, g.motion.w \in Int, g.motion.h \in Int,
         g.motion.w > 0, g.motion.h > 0, g.base.x \in Int, g.base.y \in Int
  PROVE  LET m == MotionRect(g)
             l == BodyLayout(g)
         IN /\ m.x >= 0 /\ m.x + m.w <= Window.w * l.den
            /\ m.y >= 0 /\ m.y + m.h <= Window.h * l.den
<1> DEFINE s  == Scale(g)
           x  == (Window.w \div 2) * s.den - g.base.x * s.num
           y  == FootLine * s.den - g.base.y * s.num
           w  == g.motion.w * s.num
           h  == g.motion.h * s.num
           fx == x + g.motion.x * s.num
           fy == y + g.motion.y * s.num
           dx == Shift(fx, w, Window.w * s.den)
           dy == Shift(fy, h, Window.h * s.den)
           m  == MotionRect(g)
           l  == BodyLayout(g)
<1>1. /\ s.num \in Nat /\ s.den \in Nat /\ s.den > 0
      /\ s.num * g.motion.w <= 224 * s.den
      /\ s.num * g.motion.h <= 230 * s.den
  BY ScaleIsLeast
<1>2. Window.w = 232 /\ Window.h = 236 /\ FootLine = 234  BY DEF Window, FootLine
<1> HIDE DEF s
<1>3. x \in Int /\ y \in Int /\ fx \in Int /\ fy \in Int /\ w \in Int /\ h \in Int
  BY <1>1, <1>2
<1>4. w >= 0 /\ h >= 0 /\ w <= Window.w * s.den /\ h <= Window.h * s.den
  <2>1. w = s.num * g.motion.w /\ h = s.num * g.motion.h  BY <1>1
  <2>2. s.num * g.motion.w >= 0 /\ s.num * g.motion.h >= 0  BY <1>1
  <2> QED  BY <1>1, <1>2, <2>1, <2>2
<1>5. Window.w * s.den \in Int /\ Window.h * s.den \in Int  BY <1>1, <1>2
<1>6. /\ l.x = x + dx /\ l.y = y + dy /\ l.num = s.num /\ l.den = s.den
  BY DEF BodyLayout, s
<1>7. /\ m.x = (x + dx) + g.motion.x * s.num /\ m.w = w
      /\ m.y = (y + dy) + g.motion.y * s.num /\ m.h = h
  BY <1>6 DEF MotionRect, Mapped
<1> HIDE DEF l, m
<1>8. dx \in Int /\ fx + dx >= 0 /\ fx + dx + w <= Window.w * s.den
  <2> HIDE DEF fx, w
  <2> QED  BY <1>3, <1>4, <1>5, ShiftFits
<1>9. dy \in Int /\ fy + dy >= 0 /\ fy + dy + h <= Window.h * s.den
  <2> HIDE DEF fy, h
  <2> QED  BY <1>3, <1>4, <1>5, ShiftFits
<1>10. m.x = fx + dx /\ m.y = fy + dy
  <2>1. g.motion.x * s.num \in Int /\ g.motion.y * s.num \in Int  BY <1>1
  <2> HIDE DEF x, y, dx, dy
  <2> QED  BY <1>3, <1>7, <1>8, <1>9, <2>1
<1> HIDE DEF x, y, w, h, fx, fy, dx, dy
<1>11. m.x >= 0 /\ m.x + m.w <= Window.w * l.den
  BY <1>6, <1>7, <1>8, <1>10
<1>12. m.y >= 0 /\ m.y + m.h <= Window.h * l.den
  BY <1>6, <1>7, <1>9, <1>10
<1> QED  BY <1>11, <1>12 DEF l, m

\* A geometry that needs no tolerance is placed as it was declared.
LEMMA GeometryPlaced ==
  ASSUME NEW g, g # None, GeometryTyped(g), GeometryValid(g), Untolerated(g)
  PROVE  Placed(g)
<1>1. /\ SizeValid(g.canvas) /\ RectValid(g.content, g.canvas) /\ RectValid(g.motion, g.canvas)
      /\ PointValid(g.base, g.canvas) /\ PointValid(g.bubble, g.canvas)
      /\ Positive(g.reference)
  BY DEF GeometryValid
<1>2. /\ g.content.x >= 0 /\ g.content.y >= 0 /\ g.motion.x >= 0 /\ g.motion.y >= 0
      /\ OnCanvas(g.base, g.canvas) /\ OnCanvas(g.bubble, g.canvas)
  BY DEF Untolerated
<1>3. g.canvas # None /\ g.canvas.w > 0 /\ g.canvas.h > 0
      /\ g.canvas.w \in Int /\ g.canvas.h \in Int
  <2> DEFINE w == g.canvas.w
             h == g.canvas.h
  <2>1. w \in 1 .. MaxCanvasSide /\ h \in 1 .. MaxCanvasSide /\ g.canvas # None
    BY <1>1 DEF SizeValid
  <2>2. MaxCanvasSide \in Int  BY DEF MaxCanvasSide
  <2> HIDE DEF w, h
  <2>3. w \in Int /\ 1 <= w /\ h \in Int /\ 1 <= h  BY <2>1, <2>2, InRange
  <2>4. w > 0 /\ h > 0  BY <2>3
  <2> QED  BY <2>1, <2>3, <2>4 DEF w, h
<1>4. RectParses(g.content) /\ EndsInside(g.content, g.canvas)
  BY <1>1, <1>2 DEF RectValid, RectParses, EndsInside
<1>5. RectParses(g.motion) /\ EndsInside(g.motion, g.canvas)
  BY <1>1, <1>2 DEF RectValid, RectParses, EndsInside
<1>6. Parses(g)
  BY <1>1, <1>2, <1>3, <1>4, <1>5 DEF Parses, PointValid
<1>7. HitShapes(g) = DOMAIN g.hits  BY RegionsKept
<1>8. /\ g.motion.x \in Int /\ g.motion.y \in Int /\ g.motion.w \in Int /\ g.motion.h \in Int
      /\ g.motion.w > 0 /\ g.motion.h > 0
  BY <1>1 DEF RectValid, GeometryTyped
<1>9. g.reference \in Int /\ g.reference > 0
  BY <1>1 DEF Positive, GeometryTyped
<1>10. g.base.x \in Int /\ g.base.y \in Int
  BY <1>1, <1>3 DEF PointValid, Tolerance
<1> QED  BY <1>6, <1>7, <1>8, <1>9, <1>10, MotionInWindow DEF Placed

\* Every pack the inspector accepts, and not only the ones a run looks at, can
\* be shown by the runtime as it was inspected.
THEOREM ReadersAgree == InstalledCanBeShown
<1> SUFFICES ASSUME NEW name \in Packs, Inspected(Manifest[name])
             PROVE  CanBeShown(Manifest[name])
  BY DEF InstalledCanBeShown, Acceptable, Showable, Accepts
<1> DEFINE p == Manifest[name]
<1>t. PackTyped(p) /\ Inspected(p)  BY PacksAssumption
<1> HIDE DEF p
<1> SUFFICES ASSUME NEW c \in DOMAIN p.characters
             PROVE  /\ FirstFrame(p, c, "core.idle") = VerifiedFrame(p, c)
                    /\ \A s \in KnownCoreSemantics : p.assets[FirstFrame(p, c, s)].decodes
                    /\ Fits(p, {Profile(p, c, "core.idle")}) => Prepared(p, c)
                    /\ "ACT_W002" \notin Warnings(p)
                    /\ Untolerated(p.characters[c].geometry) =>
                         Placed(p.characters[c].geometry)
  BY DEF CanBeShown, p
<1> DEFINE bind == p.characters[c].bind
           idle == Profile(p, c, "core.idle")
<1>1. "core.idle" \in DOMAIN bind  BY <1>t, IdleIsBound
<1>2. idle = p.actions[bind["core.idle"]].loop /\ idle # None
  BY <1>t, <1>1, ProfileIsLoop
<1>3. /\ \A id \in FrameAssets(idle) : p.assets[id].decodes
      /\ FirstAsset(idle) \in FrameAssets(idle)
  BY <1>t, <1>1, <1>2, BoundAction
<1>4. FirstFrame(p, c, "core.idle") = VerifiedFrame(p, c)
  BY <1>2 DEF FirstFrame, VerifiedFrame
<1>5. ASSUME NEW s \in KnownCoreSemantics
      PROVE  p.assets[FirstFrame(p, c, s)].decodes
  <2>1. FirstFrame(p, c, s) \in {FirstAsset(idle)} \/
        (Profile(p, c, s) # None /\ FirstFrame(p, c, s) = FirstAsset(Profile(p, c, s)))
    BY DEF FirstFrame
  <2>2. CASE FirstFrame(p, c, s) = FirstAsset(idle)  BY <1>3, <2>2
  <2>3. CASE Profile(p, c, s) # None /\ FirstFrame(p, c, s) = FirstAsset(Profile(p, c, s))
    <3>1. s \in DOMAIN bind  BY <2>3 DEF Profile
    <3>2. Profile(p, c, s) = p.actions[bind[s]].loop  BY <1>t, <3>1, ProfileIsLoop
    <3> DEFINE loop == Profile(p, c, s)
    <3>3. /\ \A id \in FrameAssets(loop) : p.assets[id].decodes
          /\ FirstAsset(loop) \in FrameAssets(loop)
      BY <1>t, <3>1, <3>2, BoundAction
    <3> QED  BY <2>3, <3>3
  <2> QED  BY <2>1, <2>2, <2>3
<1>6. Fits(p, {idle}) => Prepared(p, c)  BY <1>2, <1>3 DEF Prepared
<1>7. "ACT_W002" \notin Warnings(p)
  <2>1. ASSUME NEW d \in Range(p.characters), NEW s \in DOMAIN d.bind
        PROVE  Drawable(p.actions[d.bind[s]])
    <3>1. PICK e \in DOMAIN p.characters : d = p.characters[e]  BY DEF Range
    <3> QED  BY <1>t, <2>1, <3>1, BoundAction
  <2> QED  BY <2>1 DEF Warnings
<1>8. ASSUME Untolerated(p.characters[c].geometry) PROVE Placed(p.characters[c].geometry)
  <2> DEFINE g == p.characters[c].geometry
  <2>1. p.characters[c] \in Range(p.characters)  BY DEF Range
  <2>2. g # None /\ GeometryValid(g)
    BY <1>t, <2>1 DEF Inspected, Validated, GeometriesValid
  <2>3. GeometryTyped(g)  BY <1>t, <2>1, <2>2 DEF PackTyped
  <2> HIDE DEF g
  <2>4. Untolerated(g)  BY <1>8 DEF g
  <2> QED  BY <2>2, <2>3, <2>4, GeometryPlaced DEF g
<1> QED  BY <1>4, <1>5, <1>6, <1>7, <1>8

-----------------------------------------------------------------------------
(* What is drained from the pipe *)

\* Induction over the naturals, for a set of them.
LEMMA SetInduction ==
  ASSUME NEW T, 0 \in T, \A n \in Nat : n \in T => n + 1 \in T
  PROVE  Nat \subseteq T
<1> DEFINE U == Nat \ T
           R == {p \in Nat \X Nat : p[1] < p[2]}
<1>1. SUFFICES ASSUME U # {} PROVE FALSE
  OBVIOUS
<1>2. IsWellFoundedOn(R, Nat)
  BY NatLessThanWellFounded DEF OpToRel
<1>3. PICK x \in U : \A y \in U : <<y, x>> \notin R
  BY <1>1, <1>2, WFMin
<1>4. x # 0 /\ x - 1 \in Nat /\ x - 1 < x
  BY <1>3
<1>5. x - 1 \in T
  BY <1>3, <1>4
<1> QED  BY <1>3, <1>4, <1>5

\* The function behind Drained: the frames with an index in s, received in order.
Folded(f, n) ==
  f = [s \in SUBSET (1..n) |-> IF s = {} THEN Received
                               ELSE Receive(f[s \ {Max(s)}], pipe[Max(s)])]

LEMMA DrainedIs ==
  ASSUME NEW n, DOMAIN pipe = 1..n
  PROVE  Drained = (CHOOSE f : Folded(f, n))[1..n]
  BY DEF Drained, FoldLeft, MapThenFoldSet, Folded

\* A set of indices that has the last one has it as its maximum.
LEMMA LastIsMax ==
  ASSUME NEW k \in Nat, NEW s \in SUBSET (1 .. k + 1), k + 1 \in s
  PROVE  Max(s) = k + 1 /\ s \ {k + 1} \in SUBSET (1 .. k)
<1>1. \A x \in s : k + 1 >= x /\ x \in Int  OBVIOUS
<1>2. \A x \in s : (\A y \in s : x >= y) => x = k + 1
  <2> SUFFICES ASSUME NEW x \in s, \A y \in s : x >= y PROVE x = k + 1
    OBVIOUS
  <2>1. x >= k + 1 /\ k + 1 >= x /\ x \in Int  BY <1>1
  <2> QED  BY <2>1
<1>3. Max(s) = k + 1  BY <1>1, <1>2 DEF Max
<1>4. \A x \in s : x # k + 1 => x \in 1 .. k  OBVIOUS
<1> QED  BY <1>3, <1>4

\* There is such a function for any number of frames.
LEMMA FoldExists == \A n \in Nat : \E f : Folded(f, n)
<1> DEFINE T == {n \in Nat : \E f : Folded(f, n)}
<1>1. 0 \in T
  <2> DEFINE f == [s \in SUBSET (1 .. 0) |-> Received]
  <2>1. \A s \in SUBSET (1 .. 0) : s = {}  OBVIOUS
  <2>2. f = [s \in SUBSET (1 .. 0) |-> IF s = {} THEN Received
                                       ELSE Receive(f[s \ {Max(s)}], pipe[Max(s)])]
    BY <2>1
  <2>3. Folded(f, 0)  BY <2>2 DEF Folded
  <2> QED  BY <2>3
<1>2. ASSUME NEW k \in Nat, k \in T PROVE k + 1 \in T
  <2> PICK f : Folded(f, k)  BY <1>2
  <2> DEFINE g == [s \in SUBSET (1 .. k + 1) |->
                     IF s = {} THEN Received
                     ELSE IF k + 1 \in s THEN Receive(f[s \ {k + 1}], pipe[k + 1])
                     ELSE f[s]]
  <2>1. f[{}] = Received  BY DEF Folded
  <2>2. \A s \in SUBSET (1 .. k) : s # {} =>
          f[s] = Receive(f[s \ {Max(s)}], pipe[Max(s)])
    BY DEF Folded
  <2>3. \A s \in SUBSET (1 .. k) : s \in SUBSET (1 .. k + 1) /\ k + 1 \notin s
    OBVIOUS
  <2>4. \A s \in SUBSET (1 .. k) : g[s] = f[s]
    BY <2>1, <2>3
  <2>5. ASSUME NEW s \in SUBSET (1 .. k + 1), s # {}
        PROVE  g[s] = Receive(g[s \ {Max(s)}], pipe[Max(s)])
    <3>1. CASE k + 1 \in s
      <4>1. Max(s) = k + 1 /\ s \ {k + 1} \in SUBSET (1 .. k)
        BY <3>1, LastIsMax
      <4>2. g[s] = Receive(f[s \ {k + 1}], pipe[k + 1])  BY <2>5, <3>1
      <4> HIDE DEF g
      <4> QED  BY <2>4, <4>1, <4>2
    <3>2. CASE k + 1 \notin s
      <4>1. \A x \in s : x \in 1 .. k  BY <3>2
      <4>2. s \in SUBSET (1 .. k)  BY <4>1
      <4>3. s \ {Max(s)} \in SUBSET (1 .. k)  BY <4>2
      <4> HIDE DEF g
      <4> QED  BY <2>2, <2>4, <2>5, <4>2, <4>3
    <3> QED  BY <3>1, <3>2
  <2>6. g = [s \in SUBSET (1 .. k + 1) |->
               IF s = {} THEN Received ELSE Receive(g[s \ {Max(s)}], pipe[Max(s)])]
    <3>1. \A s \in SUBSET (1 .. k + 1) :
            g[s] = IF s = {} THEN Received ELSE Receive(g[s \ {Max(s)}], pipe[Max(s)])
      BY <2>5
    <3> QED  BY <3>1
  <2> HIDE DEF g
  <2>7. Folded(g, k + 1)  BY <2>6 DEF Folded
  <2> QED  BY <2>7
<1> HIDE DEF T
<1>3. Nat \subseteq T  BY <1>1, <1>2, SetInduction
<1> QED  BY <1>3 DEF T

\* What every frame of the pipe keeps, all of them keep.
LEMMA DrainedIn ==
  ASSUME NEW R, Received \in R, NEW F, pipe \in Seq(F),
         \A r \in R, f \in F : Receive(r, f) \in R
  PROVE  Drained \in R
<1> DEFINE n == Len(pipe)
           h == CHOOSE f : Folded(f, n)
           T == {k \in Nat : k <= n => \A s \in SUBSET (1 .. k) : h[s] \in R}
<1>1. n \in Nat /\ DOMAIN pipe = 1 .. n /\ \A i \in 1 .. n : pipe[i] \in F
  BY LenProperties, ElementOfSeq
<1>2. Folded(h, n)
  <2>1. \E f : Folded(f, n)  BY <1>1, FoldExists
  <2> QED  BY <2>1
<1> HIDE DEF h
<1>3. h = [s \in SUBSET (1 .. n) |-> IF s = {} THEN Received
                                     ELSE Receive(h[s \ {Max(s)}], pipe[Max(s)])]
  BY <1>2 DEF Folded
<1> HIDE DEF n
<1>4. \A s \in SUBSET (1 .. n) :
        h[s] = IF s = {} THEN Received ELSE Receive(h[s \ {Max(s)}], pipe[Max(s)])
  <2> TAKE s \in SUBSET (1 .. n)
  <2> QED  BY <1>3
<1>5. 0 \in T
  <2>1. \A s \in SUBSET (1 .. 0) : s = {} /\ s \in SUBSET (1 .. n)  OBVIOUS
  <2>2. \A s \in SUBSET (1 .. 0) : h[s] \in R  BY <1>4, <2>1
  <2> QED  BY <2>2
<1>6. ASSUME NEW k \in Nat, k \in T PROVE k + 1 \in T
  <2>1. SUFFICES ASSUME k + 1 <= n, NEW s \in SUBSET (1 .. k + 1) PROVE h[s] \in R
    OBVIOUS
  <2>2. k <= n  BY <1>1, <2>1
  <2>3. \A t \in SUBSET (1 .. k) : h[t] \in R  BY <1>6, <2>2
  <2>4. CASE k + 1 \in s
    <3>1. Max(s) = k + 1 /\ s \ {k + 1} \in SUBSET (1 .. k)  BY <2>4, LastIsMax
    <3>2. s \in SUBSET (1 .. n) /\ k + 1 \in 1 .. n  BY <1>1, <2>1
    <3>3. h[s] = Receive(h[s \ {k + 1}], pipe[k + 1])  BY <1>4, <2>4, <3>1, <3>2
    <3> QED  BY <1>1, <2>3, <3>1, <3>2, <3>3
  <2>5. CASE k + 1 \notin s
    <3>1. s \in SUBSET (1 .. k)  BY <2>5
    <3> QED  BY <2>3, <3>1
  <2> QED  BY <2>4, <2>5
<1> HIDE DEF T
<1>7. n \in T  BY <1>1, <1>5, <1>6, SetInduction
<1>8. h[1 .. n] \in R  BY <1>1, <1>7 DEF T
<1>9. Drained = h[1 .. n]  BY <1>1, DrainedIs DEF h
<1> QED  BY <1>8, <1>9

-----------------------------------------------------------------------------
(* The import of a pack, from the child process to the first-run choice *)

Snapshots == Packs \cup {Torn, None}
Frames    == [kind : {"meta", "chunk", "error"}, pack : Snapshots, size : 1..2]

\* What the inspection found good; metadata names nothing else.
Known      == {p \in Acceptable : p = child.snap}
SentFrames == {f \in Frames : f.kind = "meta" => f.pack \in Known}

Children == [pc : {"none", "inspect", "send", "close", "dead"}, snap : Snapshots,
             sent : 0..2, code : {None, 0, 1}]
Workers  == [st : {"idle", "running", "finished"},
             mode : {None, "manual", "onboarding", "command"}, env : {None} \cup Known,
             got : Seq(Frames), pending : {None} \cup Known, late : BOOLEAN]

\* The two ends of the pipe.  A parent that does not wait has stopped its child
\* and emptied the pipe; before the inspection there is nothing to receive; what
\* was received, and what is held back until the child ends, is its snapshot.
ProcessSound ==
  /\ child \in Children /\ parent \in Workers /\ pipe \in Seq(SentFrames)
  /\ child.pc = "inspect" => child.sent = 0
  /\ child.pc = "send" => child.sent < 2 /\ child.snap \in Known
  /\ parent.st # "running" => pipe = <<>> /\ ~Alive
  /\ parent.st = "running" => child.pc # "none" /\ parent.mode # None
  /\ child.pc \in {"none", "inspect"} =>
       pipe = <<>> /\ parent.env = None /\ parent.pending = None

\* The page, its dialogs and the verdict it was given.  An import of the page
\* ends with it, so it runs only while the page is open.
PageSound ==
  /\ panel \in [open : BOOLEAN, dialog : {None, "file", "confirm", "command"}]
  /\ panel.dialog = "command" => ~panel.open
  /\ panel.dialog = "confirm" => offered # None
  /\ parent.st = "running" /\ parent.mode # "command" => panel.open
  /\ offered # None =>
       /\ parent.st = "finished" /\ offered \in Known
       /\ child.pc = "dead" /\ child.code = 0

\* What was agreed to, installed and recorded.
ChoiceSound ==
  /\ file \in Packs /\ offered \in Packs \cup {None}
  /\ library \subseteq Packs /\ consent \subseteq Packs /\ active \in library \cup {None}
  /\ InstalledByConsent
  /\ parent.mode = "onboarding" => Bundled \in consent
  /\ marker \in [mem : BOOLEAN, disk : BOOLEAN, handled : BOOLEAN]
  /\ marker.disk => marker.mem
  /\ told \in {None, "kept", "asked again", "recorded later"}
  /\ told = "kept" => marker.disk
  /\ told = "asked again" => ~marker.mem

ImportIInv == ProcessSound /\ PageSound /\ ChoiceSound

Stops    == {None, "refused", "invalid"}
Receipts == [env : {None} \cup Known, got : Seq(Frames), stop : Stops]

\* Nothing that was inspected is None.
LEMMA KnownIsPack == Known \subseteq Packs /\ None \notin Known
  BY ImportAssumption DEF Known, Acceptable

\* A frame of this child leaves a receipt for this child's snapshot.
LEMMA ReceiveSound ==
  ASSUME NEW r \in Receipts, NEW f \in SentFrames
  PROVE  Receive(r, f) \in Receipts
<1>1. f \in Frames /\ (f.kind = "meta" => f.pack \in Known)  BY DEF SentFrames
<1>2. CASE r.stop # None  BY <1>2 DEF Receive
<1>3. CASE r.stop = None /\ r.env = None
  <2>1. Receive(r, f) = IF f.kind = "meta" THEN [r EXCEPT !.env = f.pack]
                        ELSE [r EXCEPT !.stop = "refused"]
    BY <1>3 DEF Receive
  <2> QED  BY <1>1, <2>1 DEF Receipts, Stops
<1>4. CASE r.stop = None /\ r.env # None
  <2> DEFINE full == SizeOf(r.got) + f.size > PayloadSize
  <2>1. Receive(r, f) = IF full THEN [r EXCEPT !.stop = "invalid"]
                        ELSE [r EXCEPT !.got = Append(@, f)]
    BY <1>4 DEF Receive
  <2>2. Append(r.got, f) \in Seq(Frames)  BY <1>1, AppendProperties DEF Receipts
  <2> HIDE DEF full
  <2> QED  BY <2>1, <2>2 DEF Receipts, Stops
<1> QED  BY <1>2, <1>3, <1>4

\* What the parent has received so far is such a receipt, and so is what it
\* makes of everything that waits in the pipe.
LEMMA ReceivedSound ==
  ASSUME ProcessSound
  PROVE  Received \in Receipts /\ Received.stop = None /\ Received.env = parent.env
  BY DEF ProcessSound, Workers, Received, Receipts, Stops

LEMMA DrainedSound ==
  ASSUME ProcessSound
  PROVE  Drained \in Receipts
<1>1. pipe \in Seq(SentFrames)  BY DEF ProcessSound
<1> QED  BY <1>1, ReceivedSound, ReceiveSound, DrainedIn

\* With the worker gone the child is gone, and nothing is received any more.
LEMMA OverSound ==
  ASSUME Over, pipe' = <<>>
  PROVE  ProcessSound' /\ parent'.st = "idle" /\ parent'.mode = None
<1>1. parent' = Idle /\ child' = NoChild  BY DEF Over
<1>2. child' \in Children /\ child'.pc = "none"
  BY <1>1 DEF NoChild, Children, Snapshots
<1>3. /\ parent'.st = "idle" /\ parent'.mode = None /\ parent'.env = None
      /\ parent'.pending = None /\ parent' \in Workers'
  BY <1>1, EmptySeq DEF Idle, Workers
<1>4. pipe' \in Seq(SentFrames')  BY EmptySeq
<1>5. ~Alive'  BY <1>2 DEF Alive
<1> QED  BY <1>2, <1>3, <1>4, <1>5 DEF ProcessSound

\* A worker that starts has a new child and an empty pipe.
LEMMA StartSound ==
  ASSUME NEW mode \in {"manual", "onboarding", "command"},
         parent' = Started(mode), child' = FreshChild, pipe' = <<>>
  PROVE  ProcessSound' /\ parent'.st = "running" /\ parent'.mode = mode
<1>1. child' \in Children /\ child'.pc = "inspect" /\ child'.sent = 0
  BY DEF FreshChild, NoChild, Children, Snapshots
<1>2. /\ parent'.st = "running" /\ parent'.mode = mode /\ parent'.env = None
      /\ parent'.pending = None /\ parent' \in Workers'
  BY EmptySeq DEF Started, Idle, Workers
<1>3. pipe' \in Seq(SentFrames')  BY EmptySeq
<1>4. mode # None  BY ImportAssumption
<1> QED  BY <1>1, <1>2, <1>3, <1>4 DEF ProcessSound

\* A child that is stopped, or had ended already, is dead; what it inspected is
\* known all the same.
LEMMA StopSound ==
  ASSUME ProcessSound, child.pc # "none", StopChild
  PROVE  /\ child' \in Children /\ child'.pc = "dead" /\ ~Alive' /\ Known' = Known
         /\ child.pc = "dead" => child' = child
<1>1. child \in Children  BY DEF ProcessSound
<1>2. CASE Alive
  <2>1. child' = [child EXCEPT !.pc = "dead", !.code = 1]
    BY <1>2 DEF StopChild, Dead
  <2>2. child' \in Children /\ child'.pc = "dead" /\ child'.snap = child.snap
    BY <1>1, <2>1 DEF Children
  <2>3. child.pc # "dead"  BY <1>2 DEF Alive
  <2> QED  BY <2>2, <2>3 DEF Alive, Known
<1>3. CASE ~Alive
  <2>1. child' = child  BY <1>3 DEF StopChild
  <2>2. child.pc = "dead"  BY <1>1, <1>3 DEF Alive, Children
  <2> QED  BY <1>1, <1>3, <2>1, <2>2 DEF Alive, Known
<1> QED  BY <1>2, <1>3

\* A verdict sets the state, stops the child and empties the pipe; what the
\* worker received stays what its child inspected.
LEMMA VerdictSound ==
  ASSUME ProcessSound, child.pc # "none", parent' = [parent EXCEPT !.st = "finished"],
         StopChild, pipe' = <<>>
  PROVE  ProcessSound' /\ parent'.st = "finished" /\ parent'.mode = parent.mode
<1>1. /\ child' \in Children /\ child'.pc = "dead" /\ ~Alive' /\ Known' = Known
      /\ child.pc = "dead" => child' = child
  BY StopSound
<1>2. parent' \in Workers' /\ parent'.st = "finished" /\ parent'.mode = parent.mode
  BY <1>1 DEF ProcessSound, Workers
<1>3. pipe' \in Seq(SentFrames')  BY EmptySeq
<1> QED  BY <1>1, <1>2, <1>3 DEF ProcessSound

\* While the parent waits no verdict is offered and no confirmation is open.
LEMMA WaitingIsQuiet ==
  ASSUME ImportIInv, parent.st = "running"
  PROVE  /\ offered = None /\ panel.dialog # "confirm" /\ child.pc # "none"
         /\ ~Alive => child.pc = "dead"
  BY DEF ImportIInv, ProcessSound, Children, PageSound, Alive

-----------------------------------------------------------------------------
(* The steps of the child *)

\* The child looks at one snapshot, and sends nothing of another.
LEMMA ChildSound ==
  ASSUME ImportIInv, Child
  PROVE  ImportIInv'
<1> USE DEF ImportIInv
<1>1. Alive /\ parent.st = "running" /\ offered = None
  <2>1. Alive  BY DEF Child, Inspect, Send, SendFails, Exit, Dies, Alive
  <2>2. parent.st = "running"  BY <2>1 DEF ProcessSound
  <2> QED  BY <2>1, <2>2, WaitingIsQuiet
<1>2. UNCHANGED <<file, parent, panel, offered, shelf, choice>>
  BY DEF Child, Inspect, Send, SendFails, Exit, Dies, ChildStep
<1>3. PageSound' /\ ChoiceSound'
  <2>1. PageSound'  BY <1>1, <1>2 DEF PageSound
  <2>2. ChoiceSound'
    BY <1>2 DEF ChoiceSound, InstalledByConsent, shelf, choice, Accepts
  <2> QED  BY <2>1, <2>2
<1>4. SUFFICES ProcessSound'  BY <1>3
<1>p. child \in Children /\ parent \in Workers /\ pipe \in Seq(SentFrames)
  BY DEF ProcessSound
<1>5. ASSUME NEW next \in Children, next.snap = child.snap, NEW frames \in Seq(SentFrames),
             ChildStep(next, frames), next.pc \in {"send", "close", "dead"},
             next.pc = "send" => next.sent < 2 /\ child.pc = "send"
      PROVE  ProcessSound'
  <2>1. child' = next /\ pipe' = pipe \o frames /\ UNCHANGED parent
    BY <1>5 DEF ChildStep
  <2>2. Known' = Known  BY <1>5, <2>1 DEF Known
  <2>3. SentFrames' = SentFrames /\ Workers' = Workers
    BY <2>2 DEF SentFrames, Workers
  <2>4. pipe' \in Seq(SentFrames)  BY <1>p, <1>5, <2>1, ConcatProperties
  <2>5. next.pc = "send" => child.snap \in Known  BY <1>5 DEF ProcessSound
  <2> QED  BY <1>1, <1>2, <1>p, <1>5, <2>1, <2>2, <2>3, <2>4, <2>5 DEF ProcessSound
<1>e. <<>> \in Seq(SentFrames) /\ <<ErrorFrame>> \in Seq(SentFrames)
  <2>1. ErrorFrame \in SentFrames
    BY DEF ErrorFrame, SentFrames, Frames, Snapshots
  <2> QED  BY <2>1, EmptySeq
<1>6. CASE Inspect
  <2> PICK snap \in {file, Torn} :
        IF Accepts(snap)
        THEN ChildStep([child EXCEPT !.pc = "send", !.snap = snap], <<Meta(snap)>>)
        ELSE ChildStep([child EXCEPT !.pc = "close", !.snap = snap], <<ErrorFrame>>)
    BY <1>6 DEF Inspect
  <2>1. child.pc = "inspect" /\ pipe = <<>> /\ child.sent = 0
        /\ parent.env = None /\ parent.pending = None
    BY <1>6 DEF Inspect, ProcessSound
  <2>2. snap \in Snapshots  BY DEF ChoiceSound, Snapshots
  <2>3. /\ child' \in Children /\ child'.sent = 0 /\ child'.snap = snap
        /\ child'.pc = IF Accepts(snap) THEN "send" ELSE "close"
        /\ pipe' = pipe \o (IF Accepts(snap) THEN <<Meta(snap)>> ELSE <<ErrorFrame>>)
    BY <1>p, <2>1, <2>2 DEF ChildStep, Children
  <2>4. pipe' = IF Accepts(snap) THEN <<Meta(snap)>> ELSE <<ErrorFrame>>
    BY <2>1, <2>3
  <2>5. Accepts(snap) => snap \in Known'  BY <2>3 DEF Accepts, Known
  <2>6. pipe' \in Seq(SentFrames')
    <3>1. ErrorFrame \in SentFrames'
      BY DEF ErrorFrame, SentFrames, Frames, Snapshots
    <3>2. Accepts(snap) => Meta(snap) \in SentFrames'
      BY <2>2, <2>5 DEF Meta, SentFrames, Frames
    <3> QED  BY <2>4, <3>1, <3>2
  <2>7. parent' \in Workers' /\ parent' = parent
    BY <1>p, <1>2, <2>1 DEF Workers
  <2> QED  BY <1>1, <2>1, <2>3, <2>5, <2>6, <2>7 DEF ProcessSound
<1>7. CASE Send
  <2> DEFINE i == child.sent + 1
             next == [child EXCEPT !.sent = i,
                                   !.pc = IF i = Len(ChunkSizes) THEN "close" ELSE "send"]
  <2>1. child.pc = "send" /\ child.sent \in {0, 1} /\ child.snap \in Known
    BY <1>7, <1>p DEF Send, ProcessSound, Children
  <2>2. Len(ChunkSizes) = 2 /\ ChunkSizes[1] = 2 /\ ChunkSizes[2] = 1
    BY DEF ChunkSizes
  <2>3. next \in Children /\ next.snap = child.snap
        /\ next.pc \in {"send", "close", "dead"} /\ (next.pc = "send" => next.sent < 2)
    <3>1. CASE child.sent = 0
      <4> DEFINE mid == [child EXCEPT !.sent = 1]
      <4>1. next = [mid EXCEPT !.pc = "send"]  BY <2>2, <3>1
      <4>2. mid \in Children /\ mid.snap = child.snap /\ mid.sent = 1
        BY <1>p DEF Children
      <4> HIDE DEF next, mid
      <4> QED  BY <4>1, <4>2 DEF Children
    <3>2. CASE child.sent = 1
      <4> DEFINE mid == [child EXCEPT !.sent = 2]
      <4>1. next = [mid EXCEPT !.pc = "close"]  BY <2>2, <3>2
      <4>2. mid \in Children /\ mid.snap = child.snap /\ mid.sent = 2
        BY <1>p DEF Children
      <4> HIDE DEF next, mid
      <4> QED  BY <4>1, <4>2 DEF Children
    <3> QED  BY <2>1, <3>1, <3>2
  <2>4. Chunk(child.snap, i) \in SentFrames
    BY <1>p, <2>1, <2>2 DEF Chunk, SentFrames, Frames, Children
  <2>5. ChildStep(next, <<Chunk(child.snap, i)>>)  BY <1>7 DEF Send
  <2> HIDE DEF next, i
  <2>6. <<Chunk(child.snap, i)>> \in Seq(SentFrames)  BY <2>4
  <2> QED  BY <1>5, <2>1, <2>3, <2>5, <2>6
<1>8. CASE SendFails
  <2> DEFINE next == [child EXCEPT !.pc = "close"]
  <2>1. next \in Children /\ next.snap = child.snap /\ next.pc = "close"
    BY <1>p DEF Children
  <2>2. ChildStep(next, <<ErrorFrame>>)  BY <1>8 DEF SendFails
  <2> HIDE DEF next
  <2> QED  BY <1>5, <1>e, <2>1, <2>2
<1>9. CASE Exit \/ Dies
  <2>1. PICK code \in {0, 1} : ChildStep(Dead(code), <<>>)
    BY <1>9 DEF Exit, Dies
  <2>2. Dead(code) \in Children /\ Dead(code).snap = child.snap /\ Dead(code).pc = "dead"
    BY <1>p DEF Dead, Children
  <2> QED  BY <1>5, <1>e, <2>1, <2>2
<1> QED  BY <1>6, <1>7, <1>8, <1>9 DEF Child

-----------------------------------------------------------------------------
(* The steps of the parent *)

\* What is remembered of the first-run choice is what was told of it, whatever
\* the caller says about a choice that could not be saved.
LEMMA CompleteSound ==
  ASSUME ChoiceSound, NEW success \in {None, "kept"},
         NEW failure \in {None, "asked again", "recorded later"},
         failure = "asked again" => ~marker.mem, Complete(success, failure)
  PROVE  /\ marker' \in [mem : BOOLEAN, disk : BOOLEAN, handled : BOOLEAN]
         /\ marker'.disk => marker'.mem
         /\ told' \in {None, "kept", "asked again", "recorded later"}
         /\ told' = "kept" => marker'.disk
         /\ told' = "asked again" => ~marker'.mem
<1>1. PICK saved \in BOOLEAN :
        /\ marker' = IF saved THEN [mem |-> TRUE, disk |-> TRUE, handled |-> TRUE]
                              ELSE [marker EXCEPT !.handled = TRUE]
        /\ told' = IF saved THEN success ELSE failure
  BY DEF Complete
<1>2. marker \in [mem : BOOLEAN, disk : BOOLEAN, handled : BOOLEAN]
      /\ (marker.disk => marker.mem)
  BY DEF ChoiceSound
<1>3. CASE saved
  <2>1. marker' = [mem |-> TRUE, disk |-> TRUE, handled |-> TRUE] /\ told' = success
    BY <1>1, <1>3
  <2>2. success # "asked again"  BY ImportAssumption
  <2> QED  BY <2>1, <2>2
<1>4. CASE ~saved
  <2>1. marker' = [marker EXCEPT !.handled = TRUE] /\ told' = failure
    BY <1>1, <1>4
  <2>2. failure # "kept"  BY ImportAssumption
  <2> QED  BY <1>2, <2>1, <2>2
<1> QED  BY <1>3, <1>4

\* What is installed adds one pack that was inspected and agreed to.
LEMMA InstallSound ==
  ASSUME ChoiceSound, NEW p \in Known, NEW ok \in BOOLEAN, Install(p, ok),
         consent \subseteq consent', p \in consent'
  PROVE  /\ library' \subseteq Packs /\ library \subseteq library'
         /\ ok => p \in library'
         /\ InstalledByConsent'
<1>1. library' \in {library, library \cup {p}} /\ (ok => p \in library')
  BY DEF Install
<1>2. p \in Packs /\ Accepts(p)  BY KnownIsPack DEF Known, Accepts
<1>3. \A q \in library : Accepts(q) /\ q \in consent /\ q \in Packs
  BY DEF ChoiceSound, InstalledByConsent
<1>4. \A q \in library' : Accepts(q) /\ q \in consent' /\ q \in Packs
  BY <1>1, <1>2, <1>3
<1> QED  BY <1>1, <1>4 DEF InstalledByConsent, Accepts

\* The end of the worker: the page asks, or installs the bundled pack, or the
\* import is over; a result is the snapshot of a child that ended well.
LEMMA FinishSound ==
  ASSUME ImportIInv, parent.st = "running", parent.mode # "command",
         NEW result \in {None} \cup Known,
         result # None => child.pc = "dead" /\ child.code = 0,
         Finish(result), UNCHANGED <<file, consent>>
  PROVE  ImportIInv'
<1> USE DEF ImportIInv
<1>1. offered = None /\ panel.dialog # "confirm" /\ child.pc # "none"
  BY WaitingIsQuiet
<1>2. pipe' = <<>>  BY DEF Finish
<1>3. parent.mode \in {"manual", "onboarding"}
  BY DEF ProcessSound, Workers
<1>4. CASE parent.mode = "manual" /\ result # None
  <2>1. /\ parent' = [parent EXCEPT !.st = "finished"] /\ StopChild
        /\ offered' = result /\ panel' = [panel EXCEPT !.dialog = "confirm"]
        /\ UNCHANGED <<library, active, choice>>
    BY <1>4 DEF Finish
  <2>2. ProcessSound' /\ parent'.st = "finished" /\ parent'.mode = parent.mode
    BY <1>1, <1>2, <2>1, VerdictSound
  <2>3. child' = child /\ Known' = Known
    BY <1>1, <1>4, <2>1, StopSound
  <2>4. result \in Known  BY <1>4
  <2>5. PageSound'
    BY <1>4, <2>1, <2>2, <2>3, <2>4 DEF PageSound
  <2>6. ChoiceSound'
    BY <1>4, <2>1, <2>2, <2>4, KnownIsPack
       DEF ChoiceSound, InstalledByConsent, Accepts, choice
  <2> QED  BY <2>2, <2>5, <2>6
<1>5. CASE parent.mode = "onboarding" /\ result # None
  <2>1. Over /\ ActivateBundled(result) /\ UNCHANGED <<panel, offered>>
    BY <1>4, <1>5 DEF Finish
  <2>2. ProcessSound' /\ parent'.st = "idle" /\ parent'.mode = None
    BY <1>2, <2>1, OverSound
  <2>3. PageSound'  BY <1>1, <2>1, <2>2 DEF PageSound
  <2>4. None \notin {"onboarding", "kept", "asked again", "recorded later"}
    BY ImportAssumption
  <2>5. CASE result # Bundled
    <3>1. UNCHANGED <<library, active, choice>>
      BY <2>1, <2>5 DEF ActivateBundled, IsExpected
    <3> QED  BY <2>1, <2>2, <2>3, <2>4, <3>1
                DEF ChoiceSound, InstalledByConsent, Accepts, choice
  <2>6. CASE result = Bundled
    <3>1. PICK installed \in BOOLEAN, switched \in BOOLEAN :
            /\ Install(result, installed)
            /\ IF installed /\ switched
               THEN active' = result /\ Complete("kept", "recorded later")
               ELSE UNCHANGED <<active, choice>>
      BY <2>1, <2>6 DEF ActivateBundled, IsExpected
    <3>2. result \in Known /\ result \in consent'
      BY <1>5, <2>6 DEF ChoiceSound
    <3>3. /\ library' \subseteq Packs /\ library \subseteq library'
          /\ installed => result \in library'
          /\ InstalledByConsent'
      BY <3>1, <3>2, InstallSound
    <3>4. active' \in library' \cup {None}
      BY <3>1, <3>3 DEF ChoiceSound
    <3>5. /\ marker' \in [mem : BOOLEAN, disk : BOOLEAN, handled : BOOLEAN]
          /\ marker'.disk => marker'.mem
          /\ told' \in {None, "kept", "asked again", "recorded later"}
          /\ told' = "kept" => marker'.disk
          /\ told' = "asked again" => ~marker'.mem
      <4>1. CASE installed /\ switched
        <5>1. Complete("kept", "recorded later")  BY <3>1, <4>1
        <5> QED  BY <5>1, CompleteSound
      <4>2. CASE ~(installed /\ switched)
        <5>1. UNCHANGED choice  BY <3>1, <4>2
        <5> QED  BY <5>1 DEF ChoiceSound, choice
      <4> QED  BY <4>1, <4>2
    <3>6. ChoiceSound'
      BY <2>1, <2>2, <2>4, <3>3, <3>4, <3>5 DEF ChoiceSound
    <3> QED  BY <2>2, <2>3, <3>6
  <2> QED  BY <2>5, <2>6
<1>6. CASE result = None
  <2>1. Over /\ UNCHANGED <<panel, offered, library, active, choice>>
    BY <1>4, <1>5, <1>6 DEF Finish
  <2>2. ProcessSound' /\ parent'.st = "idle" /\ parent'.mode = None
    BY <1>2, <2>1, OverSound
  <2>3. PageSound'  BY <1>1, <2>1, <2>2 DEF PageSound
  <2>4. None # "onboarding"  BY ImportAssumption
  <2>5. ChoiceSound'
    BY <2>1, <2>2, <2>4 DEF ChoiceSound, InstalledByConsent, Accepts, choice
  <2> QED  BY <2>2, <2>3, <2>5
<1> QED  BY <1>3, <1>4, <1>5, <1>6

\* A receipt that is kept is one of this child's, which goes on or has ended.
LEMMA KeepSound ==
  ASSUME ImportIInv, parent.st = "running", child.pc # "inspect",
         NEW r \in Receipts, NEW p \in {None} \cup Known,
         parent' = [parent EXCEPT !.env = r.env, !.got = r.got, !.pending = p],
         pipe' \in Seq(SentFrames),
         UNCHANGED <<file, child, panel, offered, shelf, choice>>
  PROVE  ImportIInv'
<1> USE DEF ImportIInv
<1>1. Known' = Known /\ SentFrames' = SentFrames /\ Workers' = Workers
  BY DEF Known, SentFrames, Workers
<1>2. parent' \in Workers /\ parent'.st = "running" /\ parent'.mode = parent.mode
  BY DEF ProcessSound, Workers, Receipts
<1>3. child.pc # "none"  BY WaitingIsQuiet
<1>4. ProcessSound'  BY <1>1, <1>2, <1>3 DEF ProcessSound, Alive
<1>5. PageSound'  BY <1>1, <1>2 DEF PageSound
<1>6. ChoiceSound'
  BY <1>2 DEF ChoiceSound, InstalledByConsent, Accepts, shelf, choice
<1> QED  BY <1>4, <1>5, <1>6

\* Everything in the pipe is taken; what is whole and bound to its metadata is
\* the snapshot, and is handed on only by a child that ended well.
LEMMA DrainSound ==
  ASSUME ImportIInv, parent.st = "running", parent.mode # "command",
         parent.pending = None, pipe # <<>> \/ ~Alive, Drain, UNCHANGED <<file, consent>>
  PROVE  ImportIInv'
<1> USE DEF ImportIInv
<1> DEFINE r == Drained
<1>1. r \in Receipts  BY DrainedSound
<1>2. child.pc # "none" /\ (~Alive => child.pc = "dead")
  BY WaitingIsQuiet
<1>3. child.pc # "inspect"  BY DEF ProcessSound, Alive
<1> HIDE DEF r
<1>4. CASE r.stop # None \/ (Whole(r) /\ ~Bound(r)) \/ (~Whole(r) /\ ~Alive)
  <2>1. Finish(None)  BY <1>4 DEF Drain, r
  <2> QED  BY <2>1, FinishSound
<1>5. CASE r.stop = None /\ Whole(r) /\ Bound(r)
  <2>1. Content(r) = r.env /\ Content(r) \in Known
    BY <1>1, <1>5 DEF Content, Bound, Whole, Receipts
  <2>2. IF Alive THEN Keep(r, Content(r))
        ELSE Finish(IF EndedWell(child.code) THEN Content(r) ELSE None)
    BY <1>5 DEF Drain, r
  <2>3. CASE Alive
    <3>1. Keep(r, Content(r))  BY <2>2, <2>3
    <3>2. pipe' \in Seq(SentFrames)  BY <3>1, EmptySeq DEF Keep
    <3> QED  BY <1>1, <1>3, <2>1, <3>1, <3>2, KeepSound DEF Keep, shelf, choice
  <2>4. CASE ~Alive
    <3> DEFINE q == IF EndedWell(child.code) THEN Content(r) ELSE None
    <3>1. q \in {None} \cup Known /\ (q # None => child.pc = "dead" /\ child.code = 0)
      BY <1>2, <2>1, <2>4 DEF EndedWell
    <3>2. Finish(q)  BY <2>2, <2>4
    <3> HIDE DEF q
    <3> QED  BY <3>1, <3>2, FinishSound
  <2> QED  BY <2>3, <2>4
<1>6. CASE r.stop = None /\ ~Whole(r) /\ Alive
  <2>1. Keep(r, None)  BY <1>6 DEF Drain, r
  <2>2. pipe' \in Seq(SentFrames)  BY <2>1, EmptySeq DEF Keep
  <2> QED  BY <1>1, <1>3, <2>1, <2>2, KeepSound DEF Keep, shelf, choice
<1> QED  BY <1>4, <1>5, <1>6

\* One firing of the poll timer.
LEMMA PollSound ==
  ASSUME ImportIInv, Poll
  PROVE  ImportIInv'
<1> USE DEF ImportIInv
<1>1. parent.st = "running" /\ parent.mode # "command" /\ UNCHANGED <<file, consent>>
  BY DEF Poll
<1>2. CASE Finish(None)  BY <1>1, <1>2, FinishSound
<1>3. CASE /\ ~parent.late /\ parent.pending # None /\ ~Alive
           /\ Finish(IF EndedWell(child.code) /\ pipe = <<>> THEN parent.pending ELSE None)
  <2> DEFINE q == IF EndedWell(child.code) /\ pipe = <<>> THEN parent.pending ELSE None
  <2>1. child.pc = "dead"  BY <1>1, <1>3, WaitingIsQuiet
  <2>2. q \in {None} \cup Known /\ (q # None => child.pc = "dead" /\ child.code = 0)
    BY <2>1 DEF EndedWell, ProcessSound, Workers
  <2>3. Finish(q)  BY <1>3
  <2> HIDE DEF q
  <2> QED  BY <1>1, <2>2, <2>3, FinishSound
<1>4. CASE ~parent.late /\ parent.pending = None /\ (pipe # <<>> \/ ~Alive) /\ Drain
  BY <1>1, <1>4, DrainSound
<1> QED  BY <1>2, <1>3, <1>4 DEF Poll

\* The command receives one frame at a time and returns what a child sent that
\* ended well, or nothing.
LEMMA WaitSound ==
  ASSUME ImportIInv, Wait
  PROVE  ImportIInv'
<1> USE DEF ImportIInv
<1>1. /\ parent.st = "running" /\ parent.mode = "command"
      /\ UNCHANGED <<file, panel, shelf, choice>>
  BY DEF Wait
<1>2. /\ offered = None /\ panel.dialog # "confirm" /\ child.pc # "none"
      /\ ~Alive => child.pc = "dead"
  BY <1>1, WaitingIsQuiet
<1>3. ASSUME NEW result \in {None} \cup Known, Return(result),
             result # None => child.pc = "dead" /\ child.code = 0
      PROVE  ImportIInv'
  <2>1. /\ parent' = [parent EXCEPT !.st = "finished"] /\ offered' = result
        /\ StopChild /\ pipe' = <<>>
    BY <1>3 DEF Return
  <2>2. ProcessSound' /\ parent'.st = "finished" /\ parent'.mode = parent.mode
    BY <1>2, <2>1, VerdictSound
  <2>3. Known' = Known /\ (child.pc = "dead" => child' = child)
    BY <1>2, <2>1, StopSound
  <2>4. PageSound'  BY <1>1, <1>2, <1>3, <2>1, <2>2, <2>3 DEF PageSound
  <2>5. ChoiceSound'
    BY <1>1, <1>3, <2>1, <2>2, KnownIsPack
       DEF ChoiceSound, InstalledByConsent, Accepts, shelf, choice
  <2> QED  BY <2>2, <2>4, <2>5
<1>4. CASE Return(None)  BY <1>3, <1>4
<1>5. CASE /\ ~parent.late /\ pipe # <<>> /\ ~Whole(Received)
           /\ \E recv \in {Receive(Received, Head(pipe))} :
                IF recv.stop # None
                THEN Return(None)
                ELSE /\ parent' = [parent EXCEPT !.env = recv.env, !.got = recv.got]
                     /\ pipe' = Tail(pipe)
                     /\ UNCHANGED <<child, offered>>
  <2> DEFINE r == Receive(Received, Head(pipe))
  <2>1. Head(pipe) \in SentFrames /\ Tail(pipe) \in Seq(SentFrames)
    BY <1>5, HeadTailProperties DEF ProcessSound
  <2>2. r \in Receipts  BY <2>1, ReceivedSound, ReceiveSound
  <2>3. child.pc # "inspect"  BY <1>5 DEF ProcessSound
  <2>4. Return(None) \/ /\ parent' = [parent EXCEPT !.env = r.env, !.got = r.got]
                        /\ pipe' = Tail(pipe)
                        /\ UNCHANGED <<child, offered>>
    BY <1>5
  <2> HIDE DEF r
  <2>5. CASE /\ parent' = [parent EXCEPT !.env = r.env, !.got = r.got]
             /\ pipe' = Tail(pipe)
             /\ UNCHANGED <<child, offered>>
    <3>1. parent' = [parent EXCEPT !.env = r.env, !.got = r.got, !.pending = parent.pending]
      BY <2>5 DEF ProcessSound, Workers
    <3>2. parent.pending \in {None} \cup Known  BY DEF ProcessSound, Workers
    <3> QED  BY <1>1, <2>1, <2>2, <2>3, <2>5, <3>1, <3>2, KeepSound
  <2> QED  BY <1>4, <2>4, <2>5
<1>6. CASE /\ Whole(Received) /\ ~Alive
           /\ Return(IF EndedWell(child.code) /\ pipe = <<>> /\ Bound(Received)
                     THEN Content(Received) ELSE None)
  <2> DEFINE q == IF EndedWell(child.code) /\ pipe = <<>> /\ Bound(Received)
                  THEN Content(Received) ELSE None
  <2>1. Received \in Receipts /\ Received.env # None
    BY <1>6, ReceivedSound DEF Whole
  <2>2. Bound(Received) => Content(Received) \in Known
    BY <2>1 DEF Bound, Content, Receipts
  <2>3. q \in {None} \cup Known /\ (q # None => child.pc = "dead" /\ child.code = 0)
    BY <1>2, <1>6, <2>2 DEF EndedWell
  <2>4. Return(q)  BY <1>6
  <2> HIDE DEF q
  <2> QED  BY <1>3, <2>3, <2>4
<1> QED  BY <1>4, <1>5, <1>6 DEF Wait

\* The deadline is only noted here.
LEMMA DeadlineSound ==
  ASSUME ImportIInv, DeadlinePasses
  PROVE  ImportIInv'
<1> USE DEF ImportIInv
<1>1. /\ parent.st = "running" /\ parent' = [parent EXCEPT !.late = TRUE]
      /\ UNCHANGED <<file, child, pipe, panel, offered, shelf, choice>>
  BY DEF DeadlinePasses
<1>2. Known' = Known /\ SentFrames' = SentFrames /\ Workers' = Workers
  BY <1>1 DEF Known, SentFrames, Workers
<1>3. /\ parent' \in Workers /\ parent'.st = "running" /\ parent'.mode = parent.mode
      /\ parent'.env = parent.env /\ parent'.pending = parent.pending
  BY <1>1 DEF ProcessSound, Workers
<1>4. ProcessSound'  BY <1>1, <1>2, <1>3 DEF ProcessSound, Alive
<1>5. PageSound'  BY <1>1, <1>2, <1>3 DEF PageSound
<1>6. ChoiceSound'
  BY <1>1, <1>3 DEF ChoiceSound, InstalledByConsent, Accepts, shelf, choice
<1> QED  BY <1>4, <1>5, <1>6

\* The program that was started for the command alone begins and reports.
LEMMA CommandSound ==
  ASSUME ImportIInv, Command
  PROVE  ImportIInv'
<1> USE DEF ImportIInv
<1>1. /\ panel.dialog = "command" /\ parent.st \in {"idle", "finished"} /\ offered' = None
      /\ UNCHANGED <<file, pipe, panel, shelf, choice>>
  BY DEF Command, Desktop
<1>2. pipe' = <<>>  BY <1>1 DEF ProcessSound
<1>3. ProcessSound' /\ parent'.mode # "onboarding"
      /\ (parent'.st = "running" => parent'.mode = "command")
  <2>1. CASE parent.st = "idle"
    <3>1. parent' = Started("command") /\ child' = FreshChild  BY <2>1 DEF Command
    <3> QED  BY <1>2, <3>1, StartSound
  <2>2. CASE parent.st # "idle"
    <3>1. Over  BY <2>2 DEF Command
    <3>2. None # "onboarding"  BY ImportAssumption
    <3> QED  BY <1>2, <3>1, <3>2, OverSound
  <2> QED  BY <2>1, <2>2
<1>4. PageSound'  BY <1>1, <1>3 DEF PageSound
<1>5. ChoiceSound'
  BY <1>1, <1>3 DEF ChoiceSound, InstalledByConsent, Accepts, shelf, choice
<1> QED  BY <1>3, <1>4, <1>5

-----------------------------------------------------------------------------
(* The steps of the page and of the program *)

\* A step that leaves the worker and its child alone, with the page as it may be.
LEMMA ProcessKept ==
  ASSUME ImportIInv, UNCHANGED process
  PROVE  ProcessSound' /\ Known' = Known
<1>1. UNCHANGED <<child, pipe, parent>>  BY DEF process
<1>2. Known' = Known /\ SentFrames' = SentFrames /\ Workers' = Workers
  BY <1>1 DEF Known, SentFrames, Workers
<1> QED  BY <1>1, <1>2 DEF ImportIInv, ProcessSound, Alive

\* The handlers that open, close and answer leave the worker alone, start it
\* for an open page, or end it with the page.
LEMMA PageStepSound ==
  ASSUME ImportIInv, Page
  PROVE  ImportIInv'
<1> USE DEF ImportIInv
<1>n. None \notin {"command", "onboarding", "confirm", "file", "kept", "asked again"}
  BY ImportAssumption
<1>i. parent.st # "running" => pipe = <<>>  BY DEF ProcessSound
<1>1. CASE ChooseFile \/ OpenPanel
  <2>1. /\ UNCHANGED <<file, process, offered, shelf, choice>> /\ panel.dialog = None
        /\ panel' \in {[panel EXCEPT !.open = TRUE], [panel EXCEPT !.dialog = "file"]}
        /\ panel'.dialog = "file" \/ panel'.open
        /\ panel.open => panel'.open
    BY <1>1, <1>n DEF ChooseFile, OpenPanel, PageSound
  <2>2. ProcessSound' /\ Known' = Known  BY <2>1, ProcessKept
  <2>3. PageSound'  BY <1>n, <2>1, <2>2 DEF PageSound, process
  <2>4. ChoiceSound'
    BY <2>1 DEF ChoiceSound, InstalledByConsent, Accepts, process, shelf, choice
  <2> QED  BY <2>2, <2>3, <2>4
<1>2. CASE FileChosen
  <2>1. /\ panel.dialog = "file" /\ panel' = [panel EXCEPT !.dialog = None]
        /\ UNCHANGED <<file, offered, shelf, choice>>
    BY <1>2 DEF FileChosen
  <2>2. CASE UNCHANGED process
    <3>1. ProcessSound' /\ Known' = Known  BY <2>2, ProcessKept
    <3>2. PageSound'  BY <1>n, <2>1, <2>2, <3>1 DEF PageSound, process
    <3>3. ChoiceSound'
      BY <2>1, <2>2 DEF ChoiceSound, InstalledByConsent, Accepts, process, shelf, choice
    <3> QED  BY <3>1, <3>2, <3>3
  <2>3. CASE panel.open /\ parent.st = "idle" /\ Start("manual")
    <3>1. ProcessSound' /\ parent'.st = "running" /\ parent'.mode = "manual"
      BY <2>3, StartSound DEF Start
    <3>2. offered = None  BY <2>3 DEF PageSound
    <3>3. PageSound'  BY <1>n, <2>1, <2>3, <3>1, <3>2 DEF PageSound
    <3>4. ChoiceSound'
      BY <2>1, <3>1 DEF ChoiceSound, InstalledByConsent, Accepts, shelf, choice
    <3> QED  BY <3>1, <3>3, <3>4
  <2> QED  BY <1>2, <2>2, <2>3 DEF FileChosen
<1>3. CASE EnablePreview
  <2>1. /\ panel.open /\ panel.dialog = None /\ parent.st = "idle" /\ Start("onboarding")
        /\ consent' = consent \cup {Bundled}
        /\ UNCHANGED <<file, panel, offered, library, active, choice>>
    BY <1>3 DEF EnablePreview
  <2>2. ProcessSound' /\ parent'.st = "running" /\ parent'.mode = "onboarding"
    BY <2>1, StartSound DEF Start
  <2>3. offered = None  BY <2>1 DEF PageSound
  <2>4. PageSound'  BY <1>n, <2>1, <2>2, <2>3 DEF PageSound
  <2>5. Bundled \in Packs  BY ImportAssumption
  <2>6. InstalledByConsent'
    BY <2>1 DEF ChoiceSound, InstalledByConsent, Accepts
  <2>7. ChoiceSound'  BY <2>1, <2>2, <2>5, <2>6 DEF ChoiceSound, choice
  <2> QED  BY <2>2, <2>4, <2>7
<1>4. CASE KeepOfficial
  <2>1. /\ Complete("kept", "asked again") /\ ~marker.mem
        /\ UNCHANGED <<file, process, panel, offered, shelf>>
    BY <1>4 DEF KeepOfficial, Pending
  <2>2. ProcessSound' /\ Known' = Known  BY <2>1, ProcessKept
  <2>3. PageSound'  BY <2>1, <2>2 DEF PageSound, process
  <2>4. /\ marker' \in [mem : BOOLEAN, disk : BOOLEAN, handled : BOOLEAN]
        /\ marker'.disk => marker'.mem
        /\ told' \in {None, "kept", "asked again", "recorded later"}
        /\ told' = "kept" => marker'.disk
        /\ told' = "asked again" => ~marker'.mem
    BY <2>1, CompleteSound
  <2>5. ChoiceSound'
    BY <2>1, <2>4 DEF ChoiceSound, InstalledByConsent, Accepts, process, shelf
  <2> QED  BY <2>2, <2>3, <2>5
<1>5. CASE Confirmed
  <2>1. /\ panel.dialog = "confirm" /\ panel' = [panel EXCEPT !.dialog = None]
        /\ Over /\ offered' = None /\ UNCHANGED <<file, pipe, active, choice>>
    BY <1>5 DEF Confirmed
  <2>2. offered \in Known /\ parent.st = "finished"
    BY <2>1 DEF PageSound
  <2>3. ProcessSound' /\ parent'.st = "idle" /\ parent'.mode = None
    <3>1. pipe' = <<>>  BY <1>i, <2>1, <2>2
    <3> QED  BY <2>1, <3>1, OverSound
  <2>4. PageSound'  BY <1>n, <2>1, <2>3 DEF PageSound
  <2>5. /\ library' \subseteq Packs /\ library \subseteq library' /\ consent' \subseteq Packs
        /\ InstalledByConsent'
    <3>1. CASE UNCHANGED <<library, consent>>
      BY <3>1 DEF ChoiceSound, InstalledByConsent, Accepts
    <3>2. CASE ~UNCHANGED <<library, consent>>
      <4>1. PICK ok \in BOOLEAN : Install(offered, ok)  BY <1>5, <3>2 DEF Confirmed
      <4>2. consent' = consent \cup {offered}  BY <1>5, <3>2 DEF Confirmed
      <4>3. offered \in Packs  BY <2>2, KnownIsPack
      <4>4. consent \subseteq consent' /\ offered \in consent'  BY <4>2
      <4>5. library' \subseteq Packs /\ library \subseteq library' /\ InstalledByConsent'
        BY <2>2, <4>1, <4>4, InstallSound
      <4> QED  BY <4>2, <4>3, <4>5 DEF ChoiceSound
    <3> QED  BY <3>1, <3>2
  <2>6. ChoiceSound'
    BY <1>n, <2>1, <2>3, <2>5 DEF ChoiceSound, choice
  <2> QED  BY <2>3, <2>4, <2>6
<1>6. CASE SwitchTo
  <2>1. /\ active' \in library \cup {None}
        /\ UNCHANGED <<file, process, panel, offered, library, consent, choice>>
    BY <1>6 DEF SwitchTo
  <2>2. ProcessSound' /\ Known' = Known  BY <2>1, ProcessKept
  <2>3. PageSound'  BY <2>1, <2>2 DEF PageSound, process
  <2>4. ChoiceSound'
    BY <2>1 DEF ChoiceSound, InstalledByConsent, Accepts, process, choice
  <2> QED  BY <2>2, <2>3, <2>4
<1>7. CASE Offer
  <2>1. /\ panel.dialog = None /\ UNCHANGED <<file, process, offered, shelf>>
        /\ \/ Complete(None, None) /\ UNCHANGED panel
           \/ panel' = [panel EXCEPT !.open = TRUE] /\ UNCHANGED choice
    BY <1>7 DEF Offer
  <2>2. ProcessSound' /\ Known' = Known  BY <2>1, ProcessKept
  <2>3. PageSound'
    <3>1. CASE UNCHANGED panel  BY <2>1, <2>2, <3>1 DEF PageSound, process
    <3>2. CASE panel' = [panel EXCEPT !.open = TRUE]
      BY <1>n, <2>1, <2>2, <3>2 DEF PageSound, process
    <3> QED  BY <2>1, <3>1, <3>2
  <2>4. /\ marker' \in [mem : BOOLEAN, disk : BOOLEAN, handled : BOOLEAN]
        /\ marker'.disk => marker'.mem
        /\ told' \in {None, "kept", "asked again", "recorded later"}
        /\ told' = "kept" => marker'.disk
        /\ told' = "asked again" => ~marker'.mem
    <3>1. CASE Complete(None, None)  BY <1>n, <3>1, CompleteSound
    <3>2. CASE UNCHANGED choice  BY <3>2 DEF ChoiceSound, choice
    <3> QED  BY <2>1, <3>1, <3>2
  <2>5. ChoiceSound'
    BY <2>1, <2>4 DEF ChoiceSound, InstalledByConsent, Accepts, process, shelf
  <2> QED  BY <2>2, <2>3, <2>5
<1>8. CASE DisposePage
  <2>1. /\ panel.open /\ panel' = [panel EXCEPT !.open = FALSE]
        /\ UNCHANGED <<file, offered, shelf, choice>>
    BY <1>8 DEF DisposePage
  <2>2. CASE parent.st = "running"
    <3>1. ProcessSound' /\ parent'.st = "idle" /\ parent'.mode = None
      BY <1>8, <2>2, OverSound DEF DisposePage
    <3>2. offered = None /\ panel.dialog # "confirm"  BY <2>2, WaitingIsQuiet
    <3>3. PageSound'  BY <2>1, <3>1, <3>2 DEF PageSound
    <3>4. ChoiceSound'
      BY <1>n, <2>1, <3>1 DEF ChoiceSound, InstalledByConsent, Accepts, shelf, choice
    <3> QED  BY <3>1, <3>3, <3>4
  <2>3. CASE parent.st # "running"
    <3>1. UNCHANGED process  BY <1>8, <2>3 DEF DisposePage
    <3>2. ProcessSound' /\ Known' = Known  BY <3>1, ProcessKept
    <3>3. PageSound'  BY <2>1, <2>3, <3>1, <3>2 DEF PageSound, process
    <3>4. ChoiceSound'
      BY <2>1, <3>1 DEF ChoiceSound, InstalledByConsent, Accepts, process, shelf, choice
    <3> QED  BY <3>2, <3>3, <3>4
  <2> QED  BY <2>2, <2>3
<1> QED  BY <1>1, <1>2, <1>3, <1>4, <1>5, <1>6, <1>7, <1>8 DEF Page

\* Leaving the program writes what it remembers once more.
LEMMA RestartSound ==
  ASSUME ImportIInv, Restart
  PROVE  ImportIInv'
<1> USE DEF ImportIInv
<1>1. PICK disk \in {marker.mem, marker.disk} :
        marker' = [mem |-> disk, disk |-> disk, handled |-> FALSE]
  BY DEF Restart
<1>2. UNCHANGED <<file, process, panel, offered, shelf, told>>  BY DEF Restart
<1>3. ProcessSound' /\ Known' = Known  BY <1>2, ProcessKept
<1>4. PageSound'  BY <1>2, <1>3 DEF PageSound, process
<1>5. /\ marker' \in [mem : BOOLEAN, disk : BOOLEAN, handled : BOOLEAN]
      /\ marker'.disk => marker'.mem
      /\ told = "kept" => marker'.disk
      /\ told = "asked again" => ~marker'.mem
  BY <1>1 DEF ChoiceSound
<1>6. ChoiceSound'
  BY <1>2, <1>5 DEF ChoiceSound, InstalledByConsent, Accepts, process, shelf
<1> QED  BY <1>3, <1>4, <1>6

\* Nothing that was inspected depends on what the file has become.
LEMMA ReplaceSound ==
  ASSUME ImportIInv, Replace \/ UNCHANGED importVars
  PROVE  ImportIInv'
<1> USE DEF ImportIInv
<1>1. UNCHANGED <<process, panel, offered, shelf, choice>> /\ file' \in Packs
  BY ImportAssumption DEF Replace, importVars, process, shelf, choice, ChoiceSound
<1>2. ProcessSound' /\ Known' = Known  BY <1>1, ProcessKept
<1>3. PageSound'  BY <1>1, <1>2 DEF PageSound, process
<1>4. ChoiceSound'
  BY <1>1 DEF ChoiceSound, InstalledByConsent, Accepts, process, shelf, choice
<1> QED  BY <1>2, <1>3, <1>4

-----------------------------------------------------------------------------
\* The program starts with no worker and nothing installed.
LEMMA ImportInitSound == ImportInit => ImportIInv
<1> SUFFICES ASSUME ImportInit PROVE ImportIInv
  OBVIOUS
<1>n. None \notin {"command", "onboarding", "confirm", "kept", "asked again"}
  BY ImportAssumption
<1>1. child \in Children /\ child.pc = "none"
  BY DEF ImportInit, NoChild, Children, Snapshots
<1>2. /\ parent \in Workers /\ parent.st = "idle" /\ parent.mode = None
      /\ parent.env = None /\ parent.pending = None
  BY EmptySeq DEF ImportInit, Idle, Workers
<1>3. pipe \in Seq(SentFrames) /\ pipe = <<>>  BY EmptySeq DEF ImportInit
<1>4. ProcessSound  BY <1>1, <1>2, <1>3 DEF ProcessSound, Alive
<1>5. PageSound
  <2>1. CASE panel = Closed
    <3>1. panel \in [open : BOOLEAN, dialog : {None, "file", "confirm", "command"}]
          /\ panel.dialog = None
      BY <2>1 DEF Closed
    <3> QED  BY <1>n, <1>2, <3>1 DEF ImportInit, PageSound
  <2>2. CASE panel = [open |-> FALSE, dialog |-> "command"]
    BY <1>2, <2>2 DEF ImportInit, PageSound
  <2> QED  BY <2>1, <2>2 DEF ImportInit
<1>6. file \in Packs  BY ImportAssumption DEF ImportInit
<1>7. ChoiceSound
  BY <1>n, <1>2, <1>6 DEF ImportInit, ChoiceSound, InstalledByConsent
<1> QED  BY <1>4, <1>5, <1>7 DEF ImportIInv

LEMMA ImportPreserved == ImportIInv /\ [ImportNext]_importVars => ImportIInv'
  BY ChildSound, PollSound, WaitSound, DeadlineSound, CommandSound, PageStepSound,
     RestartSound, ReplaceSound
     DEF ImportNext

LEMMA ImportInvariant == ImportSpec => []ImportIInv
  BY ImportInitSound, ImportPreserved, PTL DEF ImportSpec

\* The properties follow; that what the inspector accepts can be shown is a
\* statement about Packs and Manifest alone, and holds of them all.
LEMMA ImportImplied ==
  ASSUME ImportIInv
  PROVE  ImportInv
<1> USE DEF ImportIInv
<1>1. child \in Children /\ parent \in Workers  BY DEF ProcessSound
<1>2. ImportTypeOK
  BY <1>1 DEF ImportTypeOK, Children, Workers, Snapshots, PageSound, ChoiceSound
<1>3. OnlyInspected  BY DEF OnlyInspected, PageSound, Known, Accepts
<1>4. NoChildLeft  BY DEF NoChildLeft, ProcessSound, PageSound
<1>5. InstalledByConsent  BY DEF ChoiceSound
<1>6. MarkerAsTold  BY DEF MarkerAsTold, ChoiceSound
<1> QED  BY <1>2, <1>3, <1>4, <1>5, <1>6, ReadersAgree DEF ImportInv

\* For any packs: a verdict is about the bytes the child inspected, what is
\* installed the user agreed to and the runtime can show, no child is left behind,
\* and the first-run choice is kept as it was told, however the child dies, hangs
\* or fails and whatever becomes of the file.
THEOREM ImportHolds == ImportSpec => []ImportInv
<1>1. ImportIInv => ImportInv  BY ImportImplied
<1> QED  BY <1>1, ImportInvariant, PTL

\* A closed page has no import left that could install or switch anything.
LEMMA ClosedIsQuiet ==
  ImportIInv /\ [ImportNext]_importVars => (~panel.open => UNCHANGED <<library, active>>)
<1> SUFFICES ASSUME ImportIInv, [ImportNext]_importVars, ~panel.open
             PROVE  UNCHANGED <<library, active>>
  OBVIOUS
<1>1. CASE Poll
  BY <1>1 DEF Poll, ImportIInv, PageSound
<1>2. CASE Confirmed  BY <1>2 DEF Confirmed
<1>3. CASE SwitchTo \/ ChooseFile \/ FileChosen \/ EnablePreview \/ KeepOfficial
           \/ OpenPanel \/ Offer \/ DisposePage
  BY <1>3 DEF SwitchTo, ChooseFile, FileChosen, EnablePreview, KeepOfficial, OpenPanel,
              Offer, DisposePage, shelf
<1>4. CASE Child
  BY <1>4 DEF Child, Inspect, Send, SendFails, Exit, Dies, ChildStep, shelf
<1>5. CASE Wait \/ DeadlinePasses \/ Command \/ Restart \/ Replace
  BY <1>5 DEF Wait, DeadlinePasses, Command, Restart, Replace, shelf
<1>6. CASE UNCHANGED importVars  BY <1>6 DEF importVars
<1> QED  BY <1>1, <1>2, <1>3, <1>4, <1>5, <1>6 DEF ImportNext, Page

\* Once the page is closed, an import that was under way changes neither the
\* library nor the active character, even from under a dialog.
THEOREM ClosedPageIsQuiet == ImportSpec => QuietAfterClose
  BY ImportInvariant, ClosedIsQuiet, PTL DEF ImportSpec, QuietAfterClose

-----------------------------------------------------------------------------
(* The notes pane *)

USE NoteAssumption, TextAssumption

Editors == [task : Tasks \cup {Null}, loaded : BOOLEAN, dirty : BOOLEAN,
            text : Texts \cup {NoText}, warned : BOOLEAN, timer : BOOLEAN,
            gen : 0..MaxRestores]

\* d are texts kept for generation g of the store, none newer than edit m.
Drafts(d, g, m) ==
  /\ IsFiniteSet(DOMAIN d) /\ Cardinality(DOMAIN d) <= MaxKept
  /\ DOMAIN d \subseteq Tasks
  /\ \A t \in DOMAIN d : d[t] \in Texts /\ d[t].of = t /\ d[t].gen = g /\ d[t].no <= m

\* The editor e agrees with the drafts d; it knows of the generation g, unless
\* reads may fail.
Agrees(e, d, g, m) ==
  /\ e \in Editors /\ (e.gen = g \/ "read" \in Faults)
  /\ e.loaded => e.task \in Tasks /\ e.text \in Texts /\ e.text.of = e.task
  /\ e.dirty => e.loaded /\ e.text.gen = g /\ e.text.no <= m
  /\ e.loaded /\ e.dirty =>
       IF e.task \in DOMAIN d THEN d[e.task] = e.text ELSE e.warned
  /\ e.loaded /\ ~e.dirty => e.task \notin DOMAIN d

Sound(e, d, g, m) == Drafts(d, g, m) /\ Agrees(e, d, g, m)

\* Held, of an editor and drafts.
HeldIn(e, d, t) ==
  IF e.task = t /\ e.loaded /\ e.dirty THEN e.text
  ELSE IF t \in DOMAIN d THEN d[t]
  ELSE NoText

\* A note is of its task.
Notes(n) == /\ n \in [Tasks -> Texts \cup {Unborn, Gone}]
            /\ \A t \in Tasks : n[t] \in Texts => n[t].of = t

\* The types of what the editor does not hold.
Plain ==
  /\ Notes(note) /\ health \in {"open", "degraded"} /\ storeGen \in 0..MaxRestores
  /\ page \in {"closed", "inactive", "active", "ended"} /\ tree \subseteq Tasks
  /\ pending \subseteq {"held", "scheduled"} /\ edits \in 0..MaxEdits
  /\ failed \subseteq Tasks

\* A page that is not there has nothing loaded.
Shut == page \in {"closed", "ended"} => ~ed.loaded

\* The question that is asked, and the tasks a confirmed deletion was told of.
Asked ==
  /\ dialog # Null => page = "active"
  /\ dialog # Null /\ dialog.kind = "restore" => storeGen < MaxRestores
  /\ InWrite => /\ dialog.task \in Tasks /\ dialog.ids \subseteq Tasks
                /\ \A u \in dialog.ids :
                     note[u] # Unborn /\ (u = dialog.task \/ Parent[u] = dialog.task)

\* The inductive invariant.
IInv == Plain /\ Sound(ed, drafts, storeGen, edits) /\ Shut /\ Asked

\* The invariant types the editor and keeps every text with its task.
LEMMA TextsFollow == IInv => TextsInv
<1> SUFFICES ASSUME IInv PROVE TextsInv
  OBVIOUS
<1>1. TypeOK
  BY DEF IInv, Plain, Notes, Sound, Drafts, Agrees, Editors, TypeOK, Range
<1>2. TextsStayWithTheirTask
  BY DEF IInv, Plain, Notes, Sound, Drafts, Agrees, Exists, TextsStayWithTheirTask
<1> QED  BY <1>1, <1>2 DEF TextsInv

\* The absence of a text is none.
LEMMA NoTextApart == NoText \notin Texts
  BY DEF NoText, Texts

\* What is held of a task was written for it, for this generation of the store.
LEMMA HeldTyped ==
  ASSUME NEW e, NEW d, NEW g \in 0..MaxRestores, NEW m \in 0..MaxEdits, Sound(e, d, g, m), NEW t
  PROVE  \/ HeldIn(e, d, t) = NoText
         \/ /\ HeldIn(e, d, t) \in Texts /\ HeldIn(e, d, t).no \in Nat /\ t \in Tasks
            /\ HeldIn(e, d, t).of = t
            /\ HeldIn(e, d, t).gen = g
            /\ HeldIn(e, d, t).no <= m
<1>1. CASE e.task = t /\ e.loaded /\ e.dirty
  BY <1>1 DEF Sound, Agrees, HeldIn, Texts
<1>2. CASE ~(e.task = t /\ e.loaded /\ e.dirty) /\ t \in DOMAIN d
  BY <1>2 DEF Sound, Drafts, HeldIn, Texts
<1>3. CASE ~(e.task = t /\ e.loaded /\ e.dirty) /\ t \notin DOMAIN d
  BY <1>3 DEF HeldIn
<1> QED  BY <1>1, <1>2, <1>3

\* Held, now and in the next state.
LEMMA HeldIs == \A t : Held(t) = HeldIn(ed, drafts, t)
  BY DEF Held, HeldIn

\* The same of the next state.
LEMMA HeldNext == \A t : Held(t)' = HeldIn(ed', drafts', t)
  BY DEF Held, HeldIn

-----------------------------------------------------------------------------
(* Drafts *)
\* Dropping drafts leaves the others.
LEMMA RestrictIs ==
  ASSUME NEW d, NEW S
  PROVE  /\ DOMAIN Restrict(d, DOMAIN d \ S) = DOMAIN d \ S
         /\ \A t \in DOMAIN d \ S : Restrict(d, DOMAIN d \ S)[t] = d[t]
  BY DEF Restrict

\* Dropping all of them leaves none.
LEMMA NoDrafts ==
  ASSUME NEW d, NEW g, NEW m
  PROVE  Drafts(Restrict(d, {}), g, m) /\ DOMAIN Restrict(d, {}) = {}
<1>1. DOMAIN Restrict(d, {}) = {}
  BY DEF Restrict
<1> QED  BY <1>1, FS_EmptySet DEF Drafts

\* Fewer drafts are within the limit.
LEMMA FewerDrafts ==
  ASSUME NEW d, NEW g, NEW m, NEW S, Drafts(d, g, m)
  PROVE  Drafts(Restrict(d, DOMAIN d \ S), g, m)
<1>1. DOMAIN d \ S \in SUBSET DOMAIN d
  OBVIOUS
<1>2. IsFiniteSet(DOMAIN d \ S) /\ Cardinality(DOMAIN d \ S) <= Cardinality(DOMAIN d)
  BY <1>1, FS_Subset DEF Drafts
<1>3. Cardinality(DOMAIN d) \in Nat /\ Cardinality(DOMAIN d \ S) \in Nat
  BY <1>2, FS_CardinalityType DEF Drafts
<1>4. Cardinality(DOMAIN d \ S) <= MaxKept
  BY <1>2, <1>3 DEF Drafts
<1> DEFINE k == Restrict(d, DOMAIN d \ S)
<1>5. DOMAIN k = DOMAIN d \ S /\ \A t \in DOMAIN d \ S : k[t] = d[t]
  BY RestrictIs
<1> HIDE DEF k
<1>6. Drafts(k, g, m)
  BY <1>2, <1>4, <1>5 DEF Drafts
<1> QED  BY <1>6 DEF k

\* f is e, clean when its task is in S.
Cleaned(f, e, S) ==
  /\ f \in Editors /\ f.task = e.task /\ f.loaded = e.loaded /\ f.text = e.text
  /\ f.warned = e.warned /\ f.gen = e.gen /\ (f.dirty <=> e.dirty /\ e.task \notin S)

\* When the texts of S have been stored, their editor is clean and their drafts
\* are gone, and nothing else that is held changes.
LEMMA StoredSound ==
  ASSUME NEW e, NEW d, NEW g, NEW m, NEW S, Sound(e, d, g, m),
         NEW f, Cleaned(f, e, S), NEW k, k = Restrict(d, DOMAIN d \ S)
  PROVE  /\ Sound(f, k, g, m)
         /\ \A t : t \notin S => HeldIn(f, k, t) = HeldIn(e, d, t)
<1>1. Drafts(k, g, m)
  BY FewerDrafts DEF Sound
<1>2. DOMAIN k = DOMAIN d \ S /\ \A t \in DOMAIN d \ S : k[t] = d[t]
  BY DEF Restrict
<1>3. Agrees(f, k, g, m)
  BY <1>2 DEF Sound, Agrees, Cleaned
<1>4. \A t : t \notin S => HeldIn(f, k, t) = HeldIn(e, d, t)
  BY <1>2 DEF HeldIn, Cleaned
<1> QED  BY <1>1, <1>3, <1>4 DEF Sound

\* EditorAfter cleans the editor of a stored text, and only that.
LEMMA EditorAfterIs == ASSUME NEW S, ed \in Editors PROVE Cleaned(EditorAfter(S), ed, S)
  BY DEF EditorAfter, Editors, Cleaned

\* EditorAfter and DraftsAfter leave editor and drafts in agreement.
LEMMA AfterStored ==
  ASSUME NEW g, NEW m, NEW S, Sound(ed, drafts, g, m)
  PROVE  /\ Sound(EditorAfter(S), DraftsAfter(S), g, m)
         /\ \A t : t \notin S => HeldIn(EditorAfter(S), DraftsAfter(S), t) = HeldIn(ed, drafts, t)
<1>1. ed \in Editors
  BY DEF Sound, Agrees
<1> DEFINE f == EditorAfter(S)
           k == DraftsAfter(S)
<1>2. Cleaned(f, ed, S)
  BY <1>1, EditorAfterIs
<1>3. k = Restrict(drafts, DOMAIN drafts \ S)
  BY DEF DraftsAfter
<1> HIDE DEF f, k
<1>4. Sound(f, k, g, m) /\ \A t : t \notin S => HeldIn(f, k, t) = HeldIn(ed, drafts, t)
  BY <1>2, <1>3, StoredSound
<1> QED  BY <1>4 DEF f, k

-----------------------------------------------------------------------------
(* Loading *)
\* Load, of the notes n in a store of health h.
LoadIn(e, d, readable, n, h) ==
  IF e.task = Null \/ e.loaded THEN e
  ELSE IF e.task \in DOMAIN d
       THEN [e EXCEPT !.loaded = TRUE, !.dirty = TRUE, !.text = d[e.task]]
  ELSE IF readable /\ h = "open" /\ n[e.task] \notin {Unborn, Gone}
       THEN [e EXCEPT !.loaded = TRUE, !.dirty = FALSE, !.text = n[e.task]]
  ELSE Fresh(e, e.task)

\* Loading prefers the kept draft; it drops nothing that is held.
LEMMA LoadSound ==
  ASSUME NEW e, NEW d, NEW g, NEW m, NEW n, NEW h, NEW r, Sound(e, d, g, m), Notes(n)
  PROVE  LET f == LoadIn(e, d, r, n, h)
         IN  /\ Sound(f, d, g, m) /\ f.task = e.task /\ f.warned = e.warned /\ f.gen = e.gen
             /\ \A t : HeldIn(f, d, t) = HeldIn(e, d, t)
<1> DEFINE f == LoadIn(e, d, r, n, h)
<1>1. e \in Editors /\ Drafts(d, g, m) /\ (e.gen = g \/ "read" \in Faults)
  BY DEF Sound, Agrees
<1>2. CASE e.task = Null \/ e.loaded
  BY <1>2 DEF LoadIn
<1>3. CASE ~(e.task = Null \/ e.loaded) /\ e.task \in DOMAIN d
  <2>1. f = [e EXCEPT !.loaded = TRUE, !.dirty = TRUE, !.text = d[e.task]]
    BY <1>3 DEF LoadIn
  <2>2. /\ d[e.task] \in Texts
        /\ d[e.task].of = e.task
        /\ d[e.task].gen = g
        /\ d[e.task].no <= m
        /\ e.task \in Tasks
    BY <1>1, <1>3 DEF Drafts
  <2>3. /\ f \in Editors /\ f.task = e.task /\ f.loaded /\ f.dirty /\ f.text = d[e.task]
        /\ f.gen = e.gen /\ f.warned = e.warned
    BY <2>1, <2>2, <1>1 DEF Editors
  <2> HIDE DEF f
  <2>4. Agrees(f, d, g, m)
    BY <1>1, <1>3, <2>2, <2>3 DEF Agrees
  <2>5. \A t : HeldIn(f, d, t) = HeldIn(e, d, t)
    BY <1>3, <2>3 DEF HeldIn
  <2> QED  BY <1>1, <2>3, <2>4, <2>5 DEF Sound, f
<1>4. CASE ~(e.task = Null \/ e.loaded) /\ e.task \notin DOMAIN d
           /\ (r /\ h = "open" /\ n[e.task] \notin {Unborn, Gone})
  <2>1. f = [e EXCEPT !.loaded = TRUE, !.dirty = FALSE, !.text = n[e.task]]
    BY <1>4 DEF LoadIn
  <2>2. e.task \in Tasks
    BY <1>1, <1>4 DEF Editors
  <2>3. n[e.task] \in Texts /\ n[e.task].of = e.task
    BY <1>4, <2>2 DEF Notes
  <2>4. /\ f \in Editors /\ f.task = e.task /\ f.loaded /\ ~f.dirty /\ f.text = n[e.task]
        /\ f.gen = e.gen /\ f.warned = e.warned
    BY <2>1, <2>3, <1>1 DEF Editors
  <2> HIDE DEF f
  <2>5. Agrees(f, d, g, m)
    BY <1>1, <1>4, <2>2, <2>3, <2>4 DEF Agrees
  <2>6. \A t : HeldIn(f, d, t) = HeldIn(e, d, t)
    BY <1>4, <2>4 DEF HeldIn
  <2> QED  BY <1>1, <2>4, <2>5, <2>6 DEF Sound, f
<1>5. CASE ~(e.task = Null \/ e.loaded) /\ e.task \notin DOMAIN d
           /\ ~(r /\ h = "open" /\ n[e.task] \notin {Unborn, Gone})
  <2>1. f = [e EXCEPT !.task = e.task, !.loaded = FALSE, !.dirty = FALSE, !.text = NoText]
    BY <1>5 DEF LoadIn, Fresh
  <2>2. /\ f \in Editors /\ f.task = e.task /\ ~f.loaded /\ ~f.dirty /\ f.gen = e.gen
        /\ f.warned = e.warned
    BY <2>1, <1>1 DEF Editors
  <2> HIDE DEF f
  <2>3. Agrees(f, d, g, m)
    BY <1>1, <2>2 DEF Agrees
  <2>4. \A t : HeldIn(f, d, t) = HeldIn(e, d, t)
    BY <1>5, <2>2 DEF HeldIn
  <2> QED  BY <1>1, <2>2, <2>3, <2>4 DEF Sound, f
<1> QED  BY <1>2, <1>3, <1>4, <1>5

\* An editor with nothing loaded, of any generation.
LEMMA EmptySound ==
  ASSUME NEW e, NEW d, NEW g, NEW m, e \in Editors, ~e.loaded, ~e.dirty,
         e.gen = g \/ "read" \in Faults, Drafts(d, g, m)
  PROVE  Sound(e, d, g, m)
  BY DEF Sound, Agrees

\* What an editor without content looks like.
LEMMA FreshIs ==
  ASSUME NEW e, e \in Editors, NEW t \in Tasks \cup {Null}
  PROVE  /\ Fresh(e, t) \in Editors /\ Fresh(e, t).task = t /\ ~Fresh(e, t).loaded
         /\ ~Fresh(e, t).dirty /\ Fresh(e, t).gen = e.gen
         /\ Bind(e, t) \in Editors /\ Bind(e, t).task = t /\ ~Bind(e, t).loaded
         /\ ~Bind(e, t).dirty /\ Bind(e, t).gen = e.gen
  BY DEF Fresh, Bind, Editors

-----------------------------------------------------------------------------
(* Refreshing *)
\* An editor of an earlier generation starts anew, without drafts.
LEMMA AnewSound ==
  ASSUME NEW e \in Editors, NEW d, Notes(note'), storeGen' \in 0..MaxRestores,
         e.gen # storeGen', Rebuilt(e, d)
  PROVE  Sound(ed', drafts', storeGen', edits') /\ ed'.gen = storeGen'
<1> DEFINE b == [Fresh(e, e.task) EXCEPT !.gen = storeGen', !.timer = FALSE]
<1>1. Drafts(drafts', storeGen', edits') /\ drafts' = DraftsAfterRestore(d)
  BY NoDrafts DEF Rebuilt, Synced, DraftsAfterRestore
<1>2. PICK readable \in Reads : ed' = LoadIn(b, drafts', readable, note', health')
  BY <1>1 DEF Rebuilt, Sync, Load, LoadIn
<1>3. b \in Editors /\ ~b.loaded /\ ~b.dirty /\ b.gen = storeGen'
  <2>1. Fresh(e, e.task) \in Editors /\ ~Fresh(e, e.task).loaded /\ ~Fresh(e, e.task).dirty
    BY FreshIs DEF Editors
  <2> QED  BY <2>1 DEF Editors
<1> HIDE DEF b
<1>4. Sound(b, drafts', storeGen', edits')
  BY <1>1, <1>3, EmptySound
<1> QED  BY <1>2, <1>3, <1>4, LoadSound

\* The editor e learns in this step of a generation it did not know.
Late(e) == e.gen # storeGen' /\ ed'.gen = storeGen'

\* A refresh keeps what is held, unless the page learns of a restore by it.
LEMMA RefreshSound ==
  ASSUME NEW e, NEW d, Notes(note'), storeGen' \in 0..MaxRestores,
         Sound(e, d, storeGen', edits'), Refreshed(e, d)
  PROVE  /\ Sound(ed', drafts', storeGen', edits')
         /\ Late(e) \/ \A t : HeldIn(ed', drafts', t) = HeldIn(e, d, t)
<1>1. CASE Rebuilt(e, d) /\ e.gen = storeGen'
  <2>1. PICK readable \in Reads : ed' = Sync(e, d, readable)
    BY <1>1 DEF Rebuilt
  <2>2. drafts' = d /\ ed' = LoadIn(e, d, readable, note', health')
    BY <1>1, <2>1 DEF Rebuilt, Synced, Sync, Load, LoadIn
  <2> QED  BY <2>2, LoadSound
<1>2. CASE Rebuilt(e, d) /\ e.gen # storeGen'
  <2>1. e \in Editors
    BY DEF Sound, Agrees
  <2> QED  BY <1>2, <2>1, AnewSound DEF Late
<1>3. CASE ed' = e /\ drafts' = d
  BY <1>3
<1> QED  BY <1>1, <1>2, <1>3 DEF Refreshed

\* The page lists tasks.
LEMMA TreeTyped ==
  ASSUME NEW e, NEW d, tree \subseteq Tasks, ShowTree \/ Refreshed(e, d)
  PROVE  tree' \subseteq Tasks
  BY DEF ShowTree, Refreshed, Rebuilt

\* An event of the service keeps what is held, whether the page refreshes now,
\* later or not at all; unless the page learns of a restore by it.
LEMMA EventSound ==
  ASSUME NEW e, NEW d, IInv, Notes(note'), storeGen' = storeGen,
         Sound(e, d, storeGen', edits'), OnEvent(e, d)
  PROVE  /\ Sound(ed', drafts', storeGen', edits')
         /\ Late(e) \/ \A t : HeldIn(ed', drafts', t) = HeldIn(e, d, t)
         /\ tree' \subseteq Tasks /\ pending' \subseteq {"held", "scheduled"}
         /\ page # "active" => ed' = e
<1> USE DEF IInv, Plain
<1>1. CASE page # "active"
  BY <1>1 DEF OnEvent
<1>2. CASE page = "active" /\ InWrite
  BY <1>2 DEF OnEvent
<1>3. CASE page = "active" /\ ~InWrite
  <2>1. Refreshed(e, d) /\ pending' = pending
    BY <1>3 DEF OnEvent
  <2>2. tree' \subseteq Tasks
    BY <2>1, TreeTyped
  <2> QED  BY <1>3, <2>1, <2>2, RefreshSound
<1> QED  BY <1>1, <1>2, <1>3

\* So does a change that may not have happened.
LEMMA EventIfSound ==
  ASSUME NEW e, NEW d, NEW c, IInv, Notes(note'), storeGen' = storeGen,
         Sound(e, d, storeGen', edits'), EventIf(c, e, d)
  PROVE  /\ Sound(ed', drafts', storeGen', edits')
         /\ Late(e) \/ \A t : HeldIn(ed', drafts', t) = HeldIn(e, d, t)
         /\ tree' \subseteq Tasks /\ pending' \subseteq {"held", "scheduled"}
         /\ page # "active" => ed' = e
<1>1. CASE c
  BY <1>1, EventSound DEF EventIf
<1>2. CASE ~c
  BY <1>2 DEF EventIf, IInv, Plain
<1> QED  BY <1>1, <1>2

\* More has been written since.
LEMMA LaterSound ==
  ASSUME NEW e, NEW d, NEW g, NEW m \in 0..MaxEdits, NEW n \in 0..MaxEdits, m <= n,
         Sound(e, d, g, m)
  PROVE  Sound(e, d, g, n)
<1>1. Drafts(d, g, n)
  BY DEF Sound, Drafts, Texts
<1>2. Agrees(e, d, g, n)
  BY DEF Sound, Agrees, Texts
<1> QED  BY <1>1, <1>2 DEF Sound

\* The timer says nothing about the texts.
LEMMA TimerSound ==
  ASSUME NEW e, NEW d, NEW g, NEW m, Sound(e, d, g, m)
  PROVE  LET f == [e EXCEPT !.timer = FALSE]
         IN  Sound(f, d, g, m) /\ \A t : HeldIn(f, d, t) = HeldIn(e, d, t)
<1> DEFINE f == [e EXCEPT !.timer = FALSE]
<1>1. e \in Editors
  BY DEF Sound, Agrees
<1>2. /\ f \in Editors /\ f.task = e.task /\ f.loaded = e.loaded /\ f.text = e.text
      /\ f.warned = e.warned /\ f.gen = e.gen /\ f.dirty = e.dirty
  BY <1>1 DEF Editors
<1> HIDE DEF f
<1> QED  BY <1>2 DEF Sound, Agrees, HeldIn, f

\* The editor of a page that is made or gone.
LEMMA NoEditorIs ==
  ASSUME IInv
  PROVE  NoEditor \in Editors /\ ~NoEditor.loaded /\ ~NoEditor.dirty /\ NoEditor.gen = storeGen
  BY DEF IInv, Plain, NoEditor, Editors

\* An editor that lets go of its content leaves the draft, or had warned.
LEMMA Released ==
  ASSUME NEW e, NEW d, NEW g, NEW m, NEW f, Sound(e, d, g, m), ~f.loaded, NEW t,
         HeldIn(e, d, t) # NoText
  PROVE  \/ HeldIn(f, d, t) = HeldIn(e, d, t)
         \/ e.task = t /\ t \notin DOMAIN d /\ e.warned
  BY DEF Sound, Agrees, HeldIn

-----------------------------------------------------------------------------
(* The steps *)
\* The bodies of the three action properties.
NothingLost ==
  \A t \in Tasks : Held(t) # NoText =>
       \/ note'[t] = Held(t)
       \/ Held(t)' # NoText /\ Held(t)'.no >= Held(t).no
       \/ note'[t] = Gone
       \/ storeGen' # storeGen \/ page' = "ended"
       \/ ed.task = t /\ t \notin DOMAIN drafts /\ ed.warned
       \/ LateSync

AllSaved ==
  page = "active" /\ page' # "active" /\ health = "open" =>
       \/ \A t \in Tasks :
            Held(t) # NoText => note'[t] = Held(t) \/ t \in failed'
       \/ LateSync

NoneCrosses ==
  \A t \in Tasks :
       note'[t] # note[t] /\ note'[t] # Gone /\ storeGen' = storeGen =>
         note'[t].gen = storeGen

\* A step that leaves what is held of t, stores it, or may drop it.
Kept(t) == \/ note'[t] = Held(t)
           \/ HeldIn(ed', drafts', t) = Held(t)
           \/ note'[t] = Gone
           \/ storeGen' # storeGen \/ page' = "ended"
           \/ ed.task = t /\ t \notin DOMAIN drafts /\ ed.warned
           \/ LateSync

\* What is held of a task, in a state of the invariant.
LEMMA HeldNow ==
  ASSUME IInv, NEW t, Held(t) # NoText
  PROVE  /\ Held(t) \in Texts /\ Held(t).no \in Nat /\ t \in Tasks
         /\ Held(t).of = t /\ Held(t).gen = storeGen /\ Held(t).no <= edits
<1>1. /\ storeGen \in 0..MaxRestores
      /\ edits \in 0..MaxEdits
      /\ Sound(ed, drafts, storeGen, edits)
  BY DEF IInv, Plain
<1>2. Held(t) = HeldIn(ed, drafts, t)
  BY HeldIs
<1>3. \/ HeldIn(ed, drafts, t) = NoText
      \/ /\ HeldIn(ed, drafts, t) \in Texts /\ HeldIn(ed, drafts, t).no \in Nat /\ t \in Tasks
         /\ HeldIn(ed, drafts, t).of = t /\ HeldIn(ed, drafts, t).gen = storeGen
         /\ HeldIn(ed, drafts, t).no <= edits
  BY <1>1, HeldTyped
<1> QED  BY <1>2, <1>3

\* A step that keeps each text, in this sense, loses none.
LEMMA KeptIsNotLost ==
  ASSUME IInv, \A t \in Tasks : Held(t) # NoText => Kept(t)
  PROVE  NothingLost
<1> SUFFICES ASSUME NEW t \in Tasks, Held(t) # NoText, HeldIn(ed', drafts', t) = Held(t)
             PROVE  Held(t)' # NoText /\ Held(t)'.no >= Held(t).no
  BY DEF NothingLost, Kept
<1>1. Held(t).no \in Nat
  BY HeldNow
<1> QED  BY <1>1, HeldNext

\* The texts to flush are those that are held: the live one and every draft the
\* live editor does not cover.
LEMMA LiveHeld ==
  ASSUME IInv
  PROVE  /\ Live \subseteq Tasks /\ \A t \in Live : Held(t) # NoText
         /\ ToFlush \subseteq Tasks /\ \A t \in ToFlush : Held(t) # NoText
         /\ \A t \in Tasks : Held(t) # NoText => t \in ToFlush
<1>1. \A t \in Live : t \in Tasks /\ Held(t) = ed.text /\ ed.text \in Texts
  BY DEF IInv, Sound, Agrees, Live, Held
<1>2. \A t \in ToFlush \ Live : t \in Tasks /\ Held(t) = drafts[t] /\ drafts[t] \in Texts
  BY DEF IInv, Sound, Drafts, Agrees, Live, ToFlush, Held
<1>3. ASSUME NEW t \in Tasks, Held(t) # NoText
      PROVE  t \in ToFlush
  <2>1. CASE ed.task = t /\ ed.loaded /\ ed.dirty
    BY <2>1 DEF ToFlush, Live
  <2>2. CASE ~(ed.task = t /\ ed.loaded /\ ed.dirty)
    <3>1. t \in DOMAIN drafts
      BY <1>3, <2>2 DEF Held
    <3>2. ~(ed.loaded /\ ed.task = t)
      BY <2>2, <3>1 DEF IInv, Sound, Agrees
    <3> QED  BY <3>1, <3>2 DEF ToFlush
  <2> QED  BY <2>1, <2>2
<1> QED  BY <1>1, <1>2, <1>3, NoTextApart

\* A save stores what is held of each task it does not refuse, of the present
\* generation.
LEMMA SavedIs ==
  ASSUME IInv, NEW W, W \subseteq Tasks, \A t \in W : Held(t) # NoText, NEW bad, Saved(W, bad)
  PROVE  /\ Notes(note') /\ failed' \subseteq Tasks /\ NoneCrosses
         /\ UNCHANGED <<health, storeGen, edits>>
         /\ \A t \in Stored(W, bad) : note'[t] = Held(t)
         /\ \A t \in Tasks : note[t] # Unborn => note'[t] # Unborn
         /\ Writable => failed' = W \ Stored(W, bad)
         /\ Stored(W, bad) \subseteq W
<1> DEFINE S == Stored(W, bad)
<1>1. S \subseteq W
  BY DEF Stored
<1>2. /\ note' = [t \in Tasks |-> IF t \in S THEN Held(t) ELSE note[t]]
      /\ failed' = W \ S /\ UNCHANGED <<health, storeGen, edits>>
  BY DEF Saved
<1>3. \A t \in W : /\ Held(t) \in Texts /\ Held(t).of = t /\ Held(t).gen = storeGen
  BY HeldNow
<1>4. Notes(note)
  BY DEF IInv, Plain
<1> HIDE DEF S
<1>5. Notes(note')
  BY <1>1, <1>2, <1>3, <1>4 DEF Notes
<1>6. NoneCrosses
  BY <1>1, <1>2, <1>3 DEF NoneCrosses
<1>7. \A t \in Tasks : note[t] # Unborn => note'[t] # Unborn
  BY <1>1, <1>2, <1>3
<1> QED  BY <1>1, <1>2, <1>5, <1>6, <1>7 DEF S

\* What every step is shown to be.
Good == IInv' /\ NothingLost /\ AllSaved /\ NoneCrosses

\* Opening the page loads nothing over a draft.
LEMMA ActivateGood == ASSUME IInv, Activate PROVE Good
<1> DEFINE e == IF page = "closed" THEN NoEditor ELSE ed
<1>1. /\ page' = "active" /\ failed' = {}
      /\ UNCHANGED <<note, health, storeGen, dialog, edits, pending>>
      /\ Refreshed(e, drafts)
  BY DEF Activate, store
<1>2. /\ Notes(note')
      /\ Sound(ed, drafts, storeGen, edits)
      /\ Drafts(drafts, storeGen, edits)
  BY <1>1 DEF IInv, Plain, Sound, Notes
<1>3. /\ Sound(e, drafts, storeGen', edits')
      /\ \A t : HeldIn(e, drafts, t) = HeldIn(ed, drafts, t)
  <2>1. CASE page = "closed"
    <3>1. ~ed.loaded /\ Sound(NoEditor, drafts, storeGen', edits')
      BY <1>1, <1>2, <2>1, NoEditorIs, EmptySound DEF IInv, Shut
    <3> QED  BY <2>1, <3>1, NoEditorIs DEF HeldIn
  <2>2. CASE page # "closed"
    BY <1>1, <1>2, <2>2
  <2> QED  BY <2>1, <2>2
<1>4. /\ Sound(ed', drafts', storeGen', edits')
      /\ Late(e) \/ \A t : HeldIn(ed', drafts', t) = HeldIn(e, drafts, t)
  BY <1>1, <1>2, <1>3, RefreshSound DEF IInv, Plain
<1>5. Late(e) => LateSync
  BY <1>1, NoEditorIs DEF Late, LateSync
<1> HIDE DEF e
<1>6. Plain' /\ Shut' /\ Asked'
  BY <1>1, TreeTyped DEF IInv, Plain, Notes, Shut, Asked, InWrite
<1>7. NothingLost
  BY <1>3, <1>4, <1>5, HeldIs, KeptIsNotLost DEF Kept
<1> QED  BY <1>1, <1>4, <1>6, <1>7 DEF Good, IInv, AllSaved, NoneCrosses

\* Refreshing it neither.
LEMMA RefreshGood == ASSUME IInv, Refresh PROVE Good
<1>1. /\ page' = page
      /\ page = "active"
      /\ failed' = {}
      /\ pending' = pending \ {"scheduled"}
      /\ UNCHANGED <<note, health, storeGen, dialog, edits>> /\ Refreshed(ed, drafts)
  BY DEF Refresh, store
<1>2. Notes(note') /\ Sound(ed, drafts, storeGen', edits')
  BY <1>1 DEF IInv, Plain, Notes
<1>3. /\ Sound(ed', drafts', storeGen', edits')
      /\ LateSync \/ \A t : HeldIn(ed', drafts', t) = HeldIn(ed, drafts, t)
  BY <1>1, <1>2, RefreshSound DEF IInv, Plain, Late, LateSync
<1>4. Plain' /\ Shut' /\ Asked'
  BY <1>1, TreeTyped DEF IInv, Plain, Notes, Shut, Asked, InWrite
<1>5. NothingLost
  BY <1>3, HeldIs, KeptIsNotLost DEF Kept
<1> QED  BY <1>1, <1>3, <1>4, <1>5 DEF Good, IInv, AllSaved, NoneCrosses

\* An editor that turns to another task leaves the draft, or had warned.
LEMMA TurnSound ==
  ASSUME IInv, NEW f, NEW t \in Tasks, NEW r, Notes(note'), UNCHANGED <<storeGen, edits>>,
         Sound(f, drafts', storeGen, edits), ed' = Load(Bind(f, t), drafts', r)
  PROVE  /\ Sound(ed', drafts', storeGen', edits') /\ ed'.gen = f.gen
         /\ \A u : HeldIn(f, drafts', u) # NoText =>
                    \/ HeldIn(ed', drafts', u) = HeldIn(f, drafts', u)
                    \/ f.task = u /\ u \notin DOMAIN drafts' /\ f.warned
<1> DEFINE b == Bind(f, t)
<1>1. b \in Editors /\ ~b.loaded /\ ~b.dirty /\ b.gen = f.gen
  BY FreshIs DEF Sound, Agrees
<1>2. ed' = LoadIn(b, drafts', r, note', health')
  BY DEF Load, LoadIn
<1> HIDE DEF b
<1>3. Sound(b, drafts', storeGen, edits)
  BY <1>1, EmptySound DEF Sound, Agrees
<1>4. /\ Sound(ed', drafts', storeGen, edits) /\ ed'.gen = b.gen
      /\ \A u : HeldIn(ed', drafts', u) = HeldIn(b, drafts', u)
  BY <1>2, <1>3, LoadSound
<1>5. ASSUME NEW u, HeldIn(f, drafts', u) # NoText
      PROVE  \/ HeldIn(ed', drafts', u) = HeldIn(f, drafts', u)
             \/ f.task = u /\ u \notin DOMAIN drafts' /\ f.warned
  BY <1>1, <1>4, <1>5, Released
<1> QED  BY <1>1, <1>4, <1>5

\* Another task is selected: the live text is stored or stays a draft.
LEMMA SelectGood == ASSUME IInv, NEW t \in Tasks, Select(t) PROVE Good
<1>1. PICK bad \in Refused(Live) :
       /\ Saved(Live, bad)
       /\ LET S == Stored(Live, bad)
              e == EditorAfter(S)
              d == DraftsAfter(S)
          IN  \/ /\ S # {} /\ drafts' = Synced(e, d) /\ ShowTree
                 /\ \E readable \in Reads :
                      ed' = Load(Bind(Sync(e, d, readable), t), drafts', readable)
              \/ /\ drafts' = d /\ UNCHANGED tree
                 /\ \E readable \in Reads : ed' = Load(Bind(e, t), d, readable)
  BY DEF Select
<1> DEFINE S == Stored(Live, bad)
           e == EditorAfter(S)
           d == DraftsAfter(S)
<1>2. page' = page /\ page = "active" /\ UNCHANGED <<dialog, pending>> /\ dialog = Null
  BY DEF Select
<1>3. /\ Notes(note') /\ failed' \subseteq Tasks /\ NoneCrosses
      /\ UNCHANGED <<health, storeGen, edits>> /\ \A u \in S : note'[u] = Held(u)
  BY <1>1, SavedIs, LiveHeld
<1>4. DOMAIN d = DOMAIN drafts \ S
  BY RestrictIs DEF DraftsAfter
<1>5. /\ Sound(e, d, storeGen, edits)
      /\ \A u : u \notin S => HeldIn(e, d, u) = HeldIn(ed, drafts, u)
  BY AfterStored DEF IInv
<1>6. e.task = ed.task /\ e.warned = ed.warned /\ e.gen = ed.gen /\ e \in Editors
  BY <1>5 DEF EditorAfter, Sound, Agrees, IInv, Editors
<1>7. tree' \subseteq Tasks
  BY <1>1, TreeTyped DEF IInv, Plain
<1> HIDE DEF e, S, d
<1>8. ASSUME drafts' = d,
             NEW f, Sound(f, d, storeGen, edits), f.task = e.task, f.warned = e.warned,
             \A u : HeldIn(f, d, u) = HeldIn(e, d, u),
             NEW r, ed' = Load(Bind(f, t), d, r)
      PROVE  Sound(ed', drafts', storeGen', edits') /\ \A u \in Tasks : Held(u) # NoText => Kept(u)
  <2>1. /\ Sound(ed', drafts', storeGen', edits')
        /\ \A u : HeldIn(f, d, u) # NoText =>
                   \/ HeldIn(ed', drafts', u) = HeldIn(f, d, u)
                   \/ f.task = u /\ u \notin DOMAIN d /\ f.warned
    BY <1>3, <1>8, TurnSound
  <2>2. ASSUME NEW u \in Tasks, Held(u) # NoText, u \notin S PROVE Kept(u)
    <3>1. HeldIn(f, d, u) = Held(u)
      BY <1>5, <1>8, <2>2, HeldIs
    <3> QED  BY <1>4, <1>6, <1>8, <2>1, <2>2, <3>1 DEF Kept
  <2>3. \A u \in S : Kept(u)
    BY <1>3 DEF Kept
  <2> QED  BY <2>1, <2>2, <2>3
<1>9. CASE drafts' = d /\ \E readable \in Reads : ed' = Load(Bind(e, t), d, readable)
  <2>1. Sound(ed', drafts', storeGen', edits') /\ \A u \in Tasks : Held(u) # NoText => Kept(u)
    BY <1>5, <1>8, <1>9
  <2>2. Plain' /\ Shut' /\ Asked'
    BY <1>2, <1>3, <1>7 DEF IInv, Plain, Shut, Asked, InWrite
  <2> QED  BY <1>2, <1>3, <2>1, <2>2, KeptIsNotLost DEF Good, IInv, AllSaved
<1>10. CASE /\ drafts' = Synced(e, d)
            /\ \E readable \in Reads : ed' = Load(Bind(Sync(e, d, readable), t), drafts', readable)
  <2>1. PICK readable \in Reads : ed' = Load(Bind(Sync(e, d, readable), t), drafts', readable)
    BY <1>10
  <2> DEFINE f == Sync(e, d, readable)
  <2>2. ed' = Load(Bind(f, t), drafts', readable)
    BY <2>1
  <2>3. Sound(ed', drafts', storeGen', edits') /\ \A u \in Tasks : Held(u) # NoText => Kept(u)
    <3>1. CASE e.gen = storeGen
      <4>1. drafts' = d /\ f = LoadIn(e, d, readable, note', health')
        BY <1>3, <1>10, <3>1 DEF Synced, Sync, Load, LoadIn
      <4> HIDE DEF f
      <4>2. /\ Sound(f, d, storeGen, edits) /\ f.task = e.task /\ f.warned = e.warned
            /\ \A u : HeldIn(f, d, u) = HeldIn(e, d, u)
        BY <1>3, <1>5, <4>1, LoadSound
      <4> QED  BY <1>8, <2>2, <4>1, <4>2
    <3>2. CASE e.gen # storeGen
      <4> DEFINE b == [Fresh(e, e.task) EXCEPT !.gen = storeGen', !.timer = FALSE]
      <4>1. Drafts(drafts', storeGen, edits) /\ drafts' = DraftsAfterRestore(d)
        BY <1>3, <1>10, <3>2, NoDrafts DEF Synced, DraftsAfterRestore
      <4>2. f = LoadIn(b, drafts', readable, note', health')
        BY <1>3, <3>2, <4>1 DEF Sync, Load, LoadIn
      <4>3. b \in Editors /\ ~b.loaded /\ ~b.dirty /\ b.gen = storeGen
        <5>1. Fresh(e, e.task) \in Editors /\ ~Fresh(e, e.task).loaded /\ ~Fresh(e, e.task).dirty
          BY <1>6, FreshIs DEF Editors
        <5>2. storeGen' \in 0..MaxRestores /\ storeGen' = storeGen
          BY <1>3 DEF IInv, Plain
        <5> QED  BY <5>1, <5>2 DEF Editors
      <4> HIDE DEF b, f
      <4>4. Sound(f, drafts', storeGen, edits) /\ f.gen = storeGen
        BY <1>3, <4>1, <4>2, <4>3, EmptySound, LoadSound
      <4>5. Sound(ed', drafts', storeGen', edits') /\ ed'.gen = storeGen
        BY <1>3, <2>2, <4>4, TurnSound
      <4>6. LateSync
        BY <1>3, <1>6, <3>2, <4>5 DEF LateSync
      <4> QED  BY <4>5, <4>6 DEF Kept
    <3> QED  BY <3>1, <3>2
  <2>4. Plain' /\ Shut' /\ Asked'
    BY <1>2, <1>3, <1>7 DEF IInv, Plain, Shut, Asked, InWrite
  <2> QED  BY <1>2, <1>3, <2>3, <2>4, KeptIsNotLost DEF Good, IInv, AllSaved
<1>11. \/ /\ drafts' = Synced(e, d)
          /\ \E readable \in Reads : ed' = Load(Bind(Sync(e, d, readable), t), drafts', readable)
       \/ drafts' = d /\ \E readable \in Reads : ed' = Load(Bind(e, t), d, readable)
  BY <1>1 DEF S, e, d
<1> QED  BY <1>9, <1>10, <1>11

\* Keeping a draft: the newer text replaces the older one, and a full set gives
\* none up.
LEMMA KeepIs ==
  ASSUME NEW d, NEW g, NEW m, NEW t \in Tasks, NEW text \in Texts, text.of = t, text.gen = g,
         text.no <= m, Drafts(d, g, m)
  PROVE  /\ Drafts(KeepDraft(d, t, text), g, m)
         /\ \A u : u # t => /\ u \in DOMAIN KeepDraft(d, t, text) <=> u \in DOMAIN d
                            /\ u \in DOMAIN d => KeepDraft(d, t, text)[u] = d[u]
         /\ t \in DOMAIN KeepDraft(d, t, text) => KeepDraft(d, t, text)[t] = text
<1> DEFINE k == [u \in DOMAIN d \cup {t} |-> IF u = t THEN text ELSE d[u]]
<1>1. CASE t \in DOMAIN d \/ Cardinality(DOMAIN d) < MaxKept
  <2>1. KeepDraft(d, t, text) = k
    BY <1>1 DEF KeepDraft
  <2>2. /\ IsFiniteSet(DOMAIN d \cup {t})
        /\ Cardinality(DOMAIN d \cup {t}) = IF t \in DOMAIN d THEN Cardinality(DOMAIN d)
                                            ELSE Cardinality(DOMAIN d) + 1
    BY FS_AddElement DEF Drafts
  <2>3. Cardinality(DOMAIN d) \in Nat
    BY FS_CardinalityType DEF Drafts
  <2>4. DOMAIN k = DOMAIN d \cup {t}
    OBVIOUS
  <2>5. \A u \in DOMAIN d \cup {t} : k[u] = IF u = t THEN text ELSE d[u]
    OBVIOUS
  <2> HIDE DEF k
  <2>6. IsFiniteSet(DOMAIN k) /\ Cardinality(DOMAIN k) <= MaxKept
    BY <1>1, <2>2, <2>3, <2>4 DEF Drafts
  <2>7. Drafts(k, g, m)
    BY <2>4, <2>5, <2>6 DEF Drafts
  <2> QED  BY <2>1, <2>4, <2>5, <2>7
<1>2. CASE ~(t \in DOMAIN d \/ Cardinality(DOMAIN d) < MaxKept)
  BY <1>2 DEF KeepDraft
<1> QED  BY <1>1, <1>2

\* A keystroke: the new text is kept, or the user is warned.
LEMMA TypeGood == ASSUME IInv, Type PROVE Good
<1> DEFINE t    == ed.task
           text == TextOf(t, edits')
<1>1. /\ Writable /\ dialog = Null /\ t # Null /\ ed.loaded
      /\ edits < MaxEdits /\ edits' = edits + 1
      /\ drafts' = KeepDraft(drafts, t, text)
      /\ ed' = [ed EXCEPT !.text = text, !.dirty = TRUE, !.timer = TRUE,
                          !.warned = @ \/ t \notin DOMAIN drafts']
      /\ failed' = {} /\ UNCHANGED <<note, health, storeGen, page, tree, dialog, pending>>
  BY DEF Type, store
<1>2. /\ edits' \in 0..MaxEdits
      /\ edits \in 0..MaxEdits
      /\ edits <= edits'
      /\ storeGen \in 0..MaxRestores
  BY <1>1 DEF IInv, Plain
<1>3. Sound(ed, drafts, storeGen, edits')
  BY <1>2, LaterSound DEF IInv
<1>4. t \in Tasks /\ ed \in Editors
  BY <1>1, <1>3 DEF Sound, Agrees
<1>5. text \in Texts /\ text.of = t /\ text.gen = storeGen /\ text.no = edits'
  BY <1>2, <1>4 DEF TextOf, Texts
<1> HIDE DEF text
<1>6. /\ Drafts(drafts', storeGen, edits')
      /\ \A u : u # t => /\ u \in DOMAIN drafts' <=> u \in DOMAIN drafts
                         /\ u \in DOMAIN drafts => drafts'[u] = drafts[u]
      /\ t \in DOMAIN drafts' => drafts'[t] = text
  <2>1. text.no <= edits' /\ Drafts(drafts, storeGen, edits')
    BY <1>2, <1>3, <1>5 DEF Sound
  <2> QED  BY <1>1, <1>4, <1>5, <2>1, KeepIs
<1>7. /\ ed' \in Editors /\ ed'.task = t /\ ed'.loaded /\ ed'.dirty /\ ed'.text = text
      /\ ed'.gen = ed.gen /\ (ed'.warned <=> ed.warned \/ t \notin DOMAIN drafts')
  BY <1>1, <1>4, <1>5 DEF Editors
<1>8. Sound(ed', drafts', storeGen', edits')
  BY <1>1, <1>2, <1>3, <1>4, <1>5, <1>6, <1>7 DEF Sound, Agrees
<1>9. NothingLost
  <2> SUFFICES ASSUME NEW u \in Tasks, Held(u) # NoText
               PROVE  Held(u)' # NoText /\ Held(u)'.no >= Held(u).no
    BY DEF NothingLost
  <2>1. CASE u = t
    <3>1. Held(u)' = text
      BY <1>7, <2>1 DEF Held
    <3>2. Held(u).no \in Nat /\ Held(u).no <= edits
      BY HeldNow
    <3> QED  BY <1>2, <1>5, <3>1, <3>2, NoTextApart
  <2>2. CASE u # t
    <3>1. Held(u) = drafts[u] /\ u \in DOMAIN drafts
      BY <2>2 DEF Held
    <3>2. Held(u)' = drafts[u]
      BY <1>6, <1>7, <2>2, <3>1 DEF Held
    <3>3. Held(u).no \in Nat
      BY HeldNow
    <3> QED  BY <3>1, <3>2, <3>3
  <2> QED  BY <2>1, <2>2
<1>10. Plain' /\ Shut' /\ Asked'
  BY <1>1, <1>2 DEF IInv, Plain, Notes, Shut, Asked, InWrite, Writable
<1> QED  BY <1>1, <1>8, <1>9, <1>10 DEF Good, IInv, AllSaved, NoneCrosses

\* Storing texts of the page, and telling the page.
LEMMA FlushGood ==
  ASSUME IInv, NEW W, W \subseteq Tasks, \A t \in W : Held(t) # NoText, NEW bad, Saved(W, bad),
         EventIf(Stored(W, bad) # {}, [EditorAfter(Stored(W, bad)) EXCEPT !.timer = FALSE],
                 DraftsAfter(Stored(W, bad))),
         page = "active", page' \in {page, "inactive"}, dialog' = dialog,
         page' # page => (W = ToFlush \/ LateSync) /\ dialog = Null
  PROVE  Good
<1> DEFINE S == Stored(W, bad)
           e == EditorAfter(S)
           d == DraftsAfter(S)
           f == [e EXCEPT !.timer = FALSE]
<1>1. /\ Notes(note') /\ failed' \subseteq Tasks /\ NoneCrosses /\ S \subseteq W
      /\ UNCHANGED <<health, storeGen, edits>> /\ \A t \in S : note'[t] = Held(t)
      /\ \A t \in Tasks : note[t] # Unborn => note'[t] # Unborn
      /\ Writable => failed' = W \ S
  BY SavedIs
<1>2. /\ Sound(e, d, storeGen, edits) /\ e.gen = ed.gen
      /\ \A t : t \notin S => HeldIn(e, d, t) = HeldIn(ed, drafts, t)
  <2>1. Sound(ed, drafts, storeGen, edits) /\ ed \in Editors
    BY DEF IInv, Sound, Agrees
  <2>2. e.gen = ed.gen
    BY <2>1, EditorAfterIs DEF Cleaned
  <2> QED  BY <2>1, <2>2, AfterStored
<1> HIDE DEF S, e, d
<1>3. /\ Sound(f, d, storeGen, edits) /\ f.gen = e.gen
      /\ \A t : HeldIn(f, d, t) = HeldIn(e, d, t)
  <2>1. e \in Editors
    BY <1>2 DEF Sound, Agrees
  <2>2. f.gen = e.gen
    BY <2>1 DEF Editors
  <2> QED  BY <1>2, <2>2, TimerSound
<1>4. EventIf(S # {}, f, d)
  BY DEF S, e, d
<1> HIDE DEF f
<1>5. /\ Sound(ed', drafts', storeGen', edits')
      /\ Late(f) \/ \A t : HeldIn(ed', drafts', t) = HeldIn(f, d, t)
      /\ tree' \subseteq Tasks /\ pending' \subseteq {"held", "scheduled"}
  BY <1>1, <1>3, <1>4, EventIfSound
<1>6. NothingLost
  <2>1. ASSUME NEW t \in Tasks
        PROVE  note'[t] = Held(t) \/ HeldIn(ed', drafts', t) = Held(t) \/ LateSync
    <3>1. CASE t \in S
      BY <1>1, <3>1
    <3>2. CASE Late(f)
      BY <1>1, <1>2, <1>3, <3>2 DEF Late, LateSync
    <3>3. CASE t \notin S /\ ~Late(f)
      BY <1>2, <1>3, <1>5, <3>3, HeldIs
    <3> QED  BY <3>1, <3>2, <3>3
  <2> QED  BY <2>1, KeptIsNotLost DEF Kept
<1>7. AllSaved
  <2> SUFFICES ASSUME page' # "active", health = "open", ~LateSync,
                      NEW t \in Tasks, Held(t) # NoText
               PROVE  note'[t] = Held(t) \/ t \in failed'
    BY DEF AllSaved
  <2>1. t \in W /\ Writable
    BY LiveHeld DEF Writable
  <2> QED  BY <1>1, <2>1
<1>8. Plain' /\ Shut' /\ Asked'
  BY <1>1, <1>5 DEF IInv, Plain, Shut, Asked, InWrite
<1> QED  BY <1>1, <1>5, <1>6, <1>7, <1>8 DEF Good, IInv

\* The timer of the editor, or its save button.
LEMMA FlushNoteGood == ASSUME IInv, FlushNote PROVE Good
<1> DEFINE W == IF Writable THEN Live ELSE {}
<1>1. W \subseteq Tasks /\ \A t \in W : Held(t) # NoText
  BY LiveHeld
<1>2. page = "active" /\ page' = page /\ dialog' = dialog
  BY DEF FlushNote
<1>3. PICK bad \in Refused(W) :
        /\ Saved(W, bad)
        /\ EventIf(Stored(W, bad) # {}, [EditorAfter(Stored(W, bad)) EXCEPT !.timer = FALSE],
                   DraftsAfter(Stored(W, bad)))
  BY DEF FlushNote
<1> HIDE DEF W
<1> QED  BY <1>1, <1>2, <1>3, FlushGood

\* What leaving the page tries is held; it is all of it, unless the page does
\* not know of a restore.
LEMMA TriesHeld ==
  ASSUME IInv, NEW W \in Tries
  PROVE  /\ W \subseteq Tasks /\ \A t \in W : Held(t) # NoText
         /\ W = ToFlush \/ ed.gen # storeGen
  BY LiveHeld DEF Tries

\* Leaving the page flushes everything.
LEMMA DeactivateGood == ASSUME IInv, Deactivate PROVE Good
<1>1. page = "active" /\ page' = "inactive" /\ dialog' = dialog /\ dialog = Null
  BY DEF Deactivate
<1>2. PICK W \in Tries : \E bad : FlushAll(W, bad)
  BY DEF Deactivate
<1>3. PICK bad : FlushAll(W, bad)
  BY <1>2
<1>4. /\ Saved(W, bad)
      /\ EventIf(Stored(W, bad) # {}, [EditorAfter(Stored(W, bad)) EXCEPT !.timer = FALSE],
                 DraftsAfter(Stored(W, bad)))
      /\ W = ToFlush \/ ed'.gen = storeGen
  BY <1>3 DEF FlushAll
<1>5. W = ToFlush \/ LateSync
  BY <1>4, TriesHeld DEF LateSync, Saved
<1> QED  BY <1>1, <1>4, <1>5, TriesHeld, FlushGood

\* Closing the page, or quitting from it: what is not stored leaves the editor.
LEMMA CloseGood ==
  ASSUME IInv, dialog = Null, dialog' = dialog, page' \in {"closed", "ended"}, ed' = NoEditor,
         tree' = {}, pending' = {}, NEW S, Notes(note'), failed' \subseteq Tasks, NoneCrosses,
         UNCHANGED <<health, storeGen, edits>>, \A t \in S : note'[t] = Held(t),
         \/ drafts' = DraftsAfter(S)
         \/ drafts' = Restrict(drafts, {}) /\ (page' = "ended" \/ LateSync),
         page = "active" /\ health = "open" =>
           LateSync \/ \A t \in Tasks : Held(t) # NoText => t \in S \cup failed'
  PROVE  Good
<1>1. /\ NoEditor \in Editors
      /\ ~NoEditor.loaded
      /\ ~NoEditor.dirty
      /\ NoEditor.gen = storeGen
  BY NoEditorIs
<1>2. Sound(ed, drafts, storeGen, edits)
  BY DEF IInv
<1>3. Drafts(drafts', storeGen, edits)
  <2>1. Drafts(drafts, storeGen, edits)
    BY <1>2 DEF Sound
  <2>2. Drafts(DraftsAfter(S), storeGen, edits)
    BY <2>1, FewerDrafts DEF DraftsAfter
  <2> QED  BY <2>2, NoDrafts
<1>4. Sound(ed', drafts', storeGen', edits')
  BY <1>1, <1>3, EmptySound
<1>5. NothingLost
  <2> SUFFICES ASSUME NEW t \in Tasks, Held(t) # NoText, t \notin S, page' # "ended", ~LateSync
               PROVE  Kept(t)
    BY KeptIsNotLost DEF Kept
  <2>1. t \in DOMAIN drafts => t \in DOMAIN drafts' /\ drafts'[t] = drafts[t]
    <3>1. drafts' = DraftsAfter(S)
      OBVIOUS
    <3>2. DraftsAfter(S) = Restrict(drafts, DOMAIN drafts \ S)
      BY DEF DraftsAfter
    <3>3. ASSUME t \in DOMAIN drafts
          PROVE  t \in DOMAIN drafts' /\ drafts'[t] = drafts[t]
      <4>1. t \in DOMAIN drafts \ S
        BY <3>3
      <4> QED  BY <3>1, <3>2, <4>1, RestrictIs
    <3> QED  BY <3>3
  <2>2. \/ HeldIn(NoEditor, drafts, t) = HeldIn(ed, drafts, t)
        \/ ed.task = t /\ t \notin DOMAIN drafts /\ ed.warned
    BY <1>1, <1>2, HeldIs, Released
  <2>3. CASE ed.task = t /\ t \notin DOMAIN drafts /\ ed.warned
    BY <2>3 DEF Kept
  <2>4. CASE HeldIn(NoEditor, drafts, t) = HeldIn(ed, drafts, t)
    <3>1. t \in DOMAIN drafts /\ Held(t) = drafts[t]
      BY <1>1, <2>4, HeldIs DEF HeldIn
    <3>2. HeldIn(ed', drafts', t) = drafts[t]
      BY <1>1, <2>1, <3>1 DEF HeldIn
    <3> QED  BY <3>1, <3>2 DEF Kept
  <2> QED  BY <2>2, <2>3, <2>4
<1>6. AllSaved
  BY DEF AllSaved
<1>7. Plain' /\ Shut' /\ Asked'
  BY <1>1 DEF IInv, Plain, Shut, Asked, InWrite
<1> QED  BY <1>4, <1>5, <1>6, <1>7 DEF Good, IInv

\* Closing the panel: what was refused is a draft still.
LEMMA DisposeGood == ASSUME IInv, Dispose PROVE Good
<1>1. /\ dialog = Null /\ dialog' = dialog /\ page' = "closed" /\ ed' = NoEditor
      /\ tree' = {} /\ pending' = {}
  BY DEF Dispose
<1>2. CASE page = "active"
  <2>1. PICK W \in Tries : \E bad : Saved(W, bad) /\ DraftsLeft(W, bad)
    BY <1>2 DEF Dispose
  <2>2. PICK bad : Saved(W, bad) /\ DraftsLeft(W, bad)
    BY <2>1
  <2>3. storeGen' = storeGen /\ ed'.gen = storeGen
    BY <1>1, <2>2, NoEditorIs DEF Saved
  <2>4. LateSync \/ W = ToFlush
    BY <2>3, TriesHeld DEF LateSync
  <2>5. page = "active" /\ health = "open" =>
          LateSync \/ \A t \in Tasks : Held(t) # NoText => t \in Stored(W, bad) \cup failed'
    BY <2>2, <2>4, LiveHeld, TriesHeld, SavedIs DEF Writable
  <2>6. \/ drafts' = DraftsAfter(Stored(W, bad))
        \/ drafts' = Restrict(drafts, {}) /\ LateSync
    BY <2>2, <2>3 DEF DraftsLeft, DraftsAfterRestore, LateSync
  <2>7. /\ Notes(note') /\ failed' \subseteq Tasks /\ NoneCrosses
        /\ UNCHANGED <<health, storeGen, edits>> /\ \A t \in Stored(W, bad) : note'[t] = Held(t)
    BY <2>2, TriesHeld, SavedIs
  <2> QED  BY <1>1, <2>5, <2>6, <2>7, CloseGood
<1>3. CASE page # "active"
  <2>1. failed' = {} /\ UNCHANGED <<note, health, storeGen, drafts, edits>>
    BY <1>3 DEF Dispose, store
  <2>2. Notes(note') /\ NoneCrosses
    BY <2>1 DEF IInv, Plain, Notes, NoneCrosses
  <2>3. Sound(ed', drafts', storeGen', edits')
    BY <1>1, <2>1, NoEditorIs, EmptySound DEF IInv, Sound
  <2>4. NothingLost
    <3> SUFFICES ASSUME NEW t \in Tasks, Held(t) # NoText PROVE Kept(t)
      BY KeptIsNotLost
    <3>1. \/ HeldIn(NoEditor, drafts, t) = HeldIn(ed, drafts, t)
          \/ ed.task = t /\ t \notin DOMAIN drafts /\ ed.warned
      BY NoEditorIs, HeldIs, Released DEF IInv
    <3> QED  BY <1>1, <2>1, <3>1, HeldIs DEF Kept
  <2>5. Plain' /\ Shut' /\ Asked' /\ AllSaved
    BY <1>1, <1>3, <2>1, <2>2, NoEditorIs DEF IInv, Plain, Shut, Asked, InWrite, AllSaved
  <2> QED  BY <2>2, <2>3, <2>4, <2>5 DEF Good, IInv
<1> QED  BY <1>2, <1>3

\* Leaving the program: what was refused is named in failed.
LEMMA QuitGood == ASSUME IInv, Quit PROVE Good
<1>1. /\ dialog = Null /\ dialog' = dialog /\ page' = "ended" /\ ed' = NoEditor
      /\ tree' = {} /\ pending' = {} /\ drafts' = Restrict(drafts, {})
  BY DEF Quit
<1>2. CASE page = "active"
  <2>1. PICK W \in Tries : \E bad : Saved(W, bad)
    BY <1>2 DEF Quit
  <2>2. PICK bad : Saved(W, bad)
    BY <2>1
  <2>3. LateSync \/ W = ToFlush
    BY <1>1, <2>2, TriesHeld, NoEditorIs DEF LateSync, Saved
  <2>4. page = "active" /\ health = "open" =>
          LateSync \/ \A t \in Tasks : Held(t) # NoText => t \in Stored(W, bad) \cup failed'
    BY <2>2, <2>3, LiveHeld, TriesHeld, SavedIs DEF Writable
  <2>5. /\ Notes(note') /\ failed' \subseteq Tasks /\ NoneCrosses
        /\ UNCHANGED <<health, storeGen, edits>> /\ \A t \in Stored(W, bad) : note'[t] = Held(t)
    BY <2>2, TriesHeld, SavedIs
  <2> QED  BY <1>1, <2>4, <2>5, CloseGood
<1>3. CASE page # "active"
  <2>1. failed' = {} /\ UNCHANGED <<note, health, storeGen, edits>>
    BY <1>3 DEF Quit, store
  <2>2. Notes(note') /\ NoneCrosses
    BY <2>1 DEF IInv, Plain, Notes, NoneCrosses
  <2>3. \A t \in {} : note'[t] = Held(t)
    OBVIOUS
  <2> QED  BY <1>1, <1>3, <2>1, <2>2, <2>3, CloseGood
<1> QED  BY <1>2, <1>3

\* A step that touches neither editor, drafts nor notes.
LEMMA SameGood ==
  ASSUME IInv, UNCHANGED <<note, health, storeGen, page, ed, drafts, edits>>,
         tree' \subseteq Tasks, pending' \subseteq {"held", "scheduled"}, failed' \subseteq Tasks,
         Asked'
  PROVE  Good
<1>1. Plain' /\ Shut' /\ Sound(ed', drafts', storeGen', edits')
  BY DEF IInv, Plain, Notes, Shut
<1>2. NothingLost
  BY HeldIs, KeptIsNotLost DEF Kept
<1> QED  BY <1>1, <1>2 DEF Good, IInv, AllSaved, NoneCrosses

\* The questions, and their cancellation.
LEMMA AskGood == ASSUME IInv, AskDelete \/ AskRestore \/ Cancel PROVE Good
<1> USE DEF IInv, Plain
<1>1. CASE AskDelete
  <2>1. /\ dialog' = [kind |-> "delete", task |-> ed.task, ids |-> Below(ed.task)]
        /\ failed' = {}
        /\ UNCHANGED <<note, health, storeGen, page, tree, ed, drafts, pending, edits>>
        /\ page = "active" /\ ed.task \in Tasks /\ Exists(ed.task)
    BY <1>1 DEF AskDelete, Ask, store, Writable
  <2>2. Below(ed.task) \subseteq Tasks
        /\ \A u \in Below(ed.task) : note[u] # Unborn /\ (u = ed.task \/ Parent[u] = ed.task)
    BY DEF Below, Exists
  <2>3. Asked'
    BY <2>1, <2>2 DEF Asked, InWrite
  <2> QED  BY <2>1, <2>3, SameGood
<1>2. CASE AskRestore
  <2>1. /\ dialog' = [kind |-> "restore", task |-> Null, ids |-> {}]
        /\ failed' = {}
        /\ UNCHANGED <<note, health, storeGen, page, tree, ed, drafts, pending, edits>>
        /\ page = "active" /\ storeGen < MaxRestores
    BY <1>2 DEF AskRestore, Ask, store
  <2>2. Asked'
    BY <2>1 DEF Asked, InWrite
  <2> QED  BY <2>1, <2>2, SameGood
<1>3. CASE Cancel
  <2>1. /\ dialog' = Null /\ pending' \subseteq {"held", "scheduled"}
        /\ failed' = {}
        /\ UNCHANGED <<note, health, storeGen, page, tree, ed, drafts, edits>>
    BY <1>3 DEF Cancel, Scheduled, store
  <2>2. Asked'
    BY <2>1 DEF Asked, InWrite
  <2> QED  BY <2>1, <2>2, SameGood
<1> QED  BY <1>1, <1>2, <1>3

\* A confirmed deletion: the tasks it takes have gone with their texts.
LEMMA DeleteGood == ASSUME IInv, DeleteSubtree PROVE Good
<1> DEFINE ids == dialog.ids
           B   == Below(dialog.task)
<1>1. /\ InWrite /\ note' = [t \in Tasks |-> IF t \in B THEN Gone ELSE note[t]]
      /\ ed' = Forgotten(ed, ids) /\ drafts' = Restrict(drafts, DOMAIN drafts \ ids)
      /\ dialog' = Null /\ pending' = {"scheduled"}
      /\ failed' = {} /\ UNCHANGED <<health, storeGen, page, tree, edits>>
  BY DEF DeleteSubtree, DraftsWithout
<1>2. /\ page = "active" /\ dialog.task \in Tasks /\ ids \subseteq Tasks
      /\ \A u \in ids : note[u] # Unborn /\ (u = dialog.task \/ Parent[u] = dialog.task)
  BY <1>1 DEF IInv, Asked, InWrite
<1>3. \A u \in ids : note'[u] = Gone
  BY <1>1, <1>2 DEF Below, Exists
<1>4. Notes(note') /\ NoneCrosses
  BY <1>1 DEF IInv, Plain, Notes, NoneCrosses
<1> HIDE DEF B, ids
<1>5. Sound(ed, drafts, storeGen, edits) /\ ed \in Editors
  BY DEF IInv, Sound, Agrees
<1>6. /\ Sound(ed', drafts', storeGen, edits)
      /\ \A t : t \notin ids => HeldIn(ed', drafts', t) = HeldIn(ed, drafts, t)
  <2>1. /\ DOMAIN drafts' = DOMAIN drafts \ ids
        /\ \A t \in DOMAIN drafts \ ids : drafts'[t] = drafts[t]
    BY <1>1, RestrictIs
  <2>2. Drafts(drafts', storeGen, edits)
    BY <1>1, <1>5, FewerDrafts DEF Sound
  <2>3. CASE ed.task \in ids
    <3>1. ed' = [Bind(ed, Null) EXCEPT !.timer = FALSE]
      BY <1>1, <2>3 DEF Forgotten
    <3>2. /\ Bind(ed, Null) \in Editors
          /\ Bind(ed, Null).task = Null
          /\ ~Bind(ed, Null).loaded
          /\ ~Bind(ed, Null).dirty /\ Bind(ed, Null).gen = ed.gen
      BY <1>5, FreshIs
    <3>3. ed' \in Editors /\ ~ed'.loaded /\ ~ed'.dirty /\ ed'.gen = ed.gen
      BY <1>5, <3>1, <3>2 DEF Editors, Sound, Agrees
    <3>4. Sound(ed', drafts', storeGen, edits)
      BY <1>5, <2>2, <3>3, EmptySound DEF Sound, Agrees
    <3> QED  BY <2>1, <2>3, <3>3, <3>4 DEF HeldIn
  <2>4. CASE ed.task \notin ids
    <3>1. ed' = ed
      BY <1>1, <2>4 DEF Forgotten
    <3> QED  BY <1>5, <2>1, <2>2, <2>4, <3>1 DEF Sound, Agrees, HeldIn
  <2> QED  BY <2>3, <2>4
<1>7. NothingLost
  BY <1>3, <1>6, HeldIs, KeptIsNotLost DEF Kept
<1>8. Plain' /\ Shut' /\ Asked' /\ AllSaved
  BY <1>1, <1>2, <1>4 DEF IInv, Plain, Shut, Asked, InWrite, AllSaved
<1> QED  BY <1>1, <1>4, <1>6, <1>7, <1>8 DEF Good, IInv

\* The notes of the backup are notes.
LEMMA BackupIs == Notes(Backup)
  BY DEF Notes, Backup, NoText, Texts

\* A restore: nothing typed before it is left to be written after it.
LEMMA RestoreGood == ASSUME IInv, RestoreFromBackup PROVE Good
<1> DEFINE e == [Fresh(ed, ed.task) EXCEPT !.timer = FALSE]
           d == DraftsAfterRestore(drafts)
<1>1. /\ dialog # Null /\ dialog.kind = "restore" /\ dialog' = Null
      /\ storeGen' = storeGen + 1 /\ Refreshed(e, d)
      /\ failed' = {} /\ UNCHANGED <<page, pending, edits>>
  BY DEF RestoreFromBackup
<1>2. Notes(note') /\ health' \in {"open", "degraded"}
  BY BackupIs DEF RestoreFromBackup, RestoreEnds, IInv, Plain, Notes
<1>3. storeGen' \in 0..MaxRestores /\ page = "active" /\ storeGen \in 0..MaxRestores
  BY <1>1 DEF IInv, Plain, Asked
<1>4. ed \in Editors
  BY DEF IInv, Sound, Agrees
<1>5. e \in Editors /\ ~e.loaded /\ ~e.dirty
  <2>1. /\ Fresh(ed, ed.task) \in Editors
        /\ ~Fresh(ed, ed.task).loaded /\ ~Fresh(ed, ed.task).dirty
    BY <1>4, FreshIs DEF Editors
  <2> QED  BY <2>1 DEF Editors
<1>6. Drafts(d, storeGen', edits')
  BY NoDrafts DEF DraftsAfterRestore
<1> HIDE DEF e, d
<1>7. Sound(ed', drafts', storeGen', edits')
  <2>1. CASE e.gen = storeGen' \/ "read" \in Faults
    <3>1. Sound(e, d, storeGen', edits')
      BY <1>5, <1>6, <2>1, EmptySound
    <3> QED  BY <1>1, <1>2, <1>3, <3>1, RefreshSound
  <2>2. CASE ~(e.gen = storeGen' \/ "read" \in Faults)
    <3>1. Rebuilt(e, d)
      BY <1>1, <2>2 DEF Refreshed, ReadFails
    <3> QED  BY <1>2, <1>3, <1>5, <2>2, <3>1, AnewSound
  <2> QED  BY <2>1, <2>2
<1>8. storeGen' # storeGen
  BY <1>1, <1>3
<1>9. NothingLost /\ NoneCrosses /\ AllSaved
  BY <1>1, <1>8 DEF NothingLost, NoneCrosses, AllSaved
<1>10. Plain' /\ Shut' /\ Asked'
  BY <1>1, <1>2, <1>3, TreeTyped DEF IInv, Plain, Shut, Asked, InWrite
<1> QED  BY <1>7, <1>9, <1>10 DEF Good, IInv

\* A request of the endpoint changes the notes; the texts of the page stay.
LEMMA RequestGood ==
  ASSUME IInv, edits' \in 0..MaxEdits, edits <= edits', Notes(note'), NoneCrosses,
         \A u \in Tasks : note[u] # Unborn => note'[u] # Unborn,
         failed' = {}, UNCHANGED <<health, storeGen, page, dialog>>, OnEvent(ed, drafts)
  PROVE  Good
<1>1. Sound(ed, drafts, storeGen', edits')
  <2>1. edits \in 0..MaxEdits /\ Sound(ed, drafts, storeGen, edits)
    BY DEF IInv, Plain
  <2> QED  BY <2>1, LaterSound
<1>2. /\ Sound(ed', drafts', storeGen', edits')
      /\ LateSync \/ \A t : HeldIn(ed', drafts', t) = HeldIn(ed, drafts, t)
      /\ tree' \subseteq Tasks /\ pending' \subseteq {"held", "scheduled"}
      /\ page # "active" => ed' = ed
  BY <1>1, EventSound DEF Late, LateSync
<1>3. NothingLost
  BY <1>2, HeldIs, KeptIsNotLost DEF Kept
<1>4. Plain' /\ Shut' /\ Asked' /\ AllSaved
  BY <1>2 DEF IInv, Plain, Shut, Asked, InWrite, AllSaved
<1> QED  BY <1>2, <1>3, <1>4 DEF Good, IInv

\* The requests of the endpoint.
LEMMA AgentGood ==
  ASSUME IInv, NEW t \in Tasks, AgentNoteSet(t) \/ AgentDelete(t) \/ AddTask(t)
  PROVE  Good
<1>1. /\ failed' = {}
      /\ UNCHANGED <<health, storeGen, page, dialog>>
      /\ OnEvent(ed, drafts)
      /\ edits' \in 0..MaxEdits /\ edits <= edits'
  BY DEF AgentNoteSet, AgentDelete, AddTask, IInv, Plain
<1>2. Notes(note) /\ edits \in 0..MaxEdits /\ storeGen \in 0..MaxRestores
  BY DEF IInv, Plain
<1>3. \A n \in {edits, edits'} : TextOf(t, n) \in Texts /\ TextOf(t, n).of = t
                                 /\ TextOf(t, n).gen = storeGen
  BY <1>1, <1>2 DEF TextOf, Texts
<1>4. \/ \E n \in {edits, edits'} : note' = [note EXCEPT ![t] = TextOf(t, n)]
      \/ note' = [u \in Tasks |-> IF u \in Below(t) THEN Gone ELSE note[u]]
  BY DEF AgentNoteSet, AgentDelete, AddTask
<1>5. /\ Notes(note') /\ NoneCrosses
      /\ \A u \in Tasks : note[u] # Unborn => note'[u] # Unborn
  <2>1. CASE \E n \in {edits, edits'} : note' = [note EXCEPT ![t] = TextOf(t, n)]
    BY <1>2, <1>3, <2>1 DEF Notes, NoneCrosses
  <2>2. CASE note' = [u \in Tasks |-> IF u \in Below(t) THEN Gone ELSE note[u]]
    BY <1>2, <2>2 DEF Notes, NoneCrosses
  <2> QED  BY <1>4, <2>1, <2>2
<1> QED  BY <1>1, <1>5, RequestGood

\* The program starts with nothing held.
LEMMA InitSound == Init => IInv
<1> SUFFICES ASSUME Init PROVE IInv
  OBVIOUS
<1>1. Plain
  BY BackupIs DEF Init, Plain
<1>2. /\ NoEditor \in Editors
      /\ ~NoEditor.loaded
      /\ ~NoEditor.dirty
      /\ NoEditor.gen = storeGen
  BY DEF Init, NoEditor, Editors
<1>3. Drafts(drafts, storeGen, edits)
  <2>1. DOMAIN drafts = {}
    BY DEF Init
  <2> QED  BY <2>1, FS_EmptySet DEF Drafts
<1>4. Sound(ed, drafts, storeGen, edits)
  BY <1>2, <1>3, EmptySound DEF Init
<1>5. Shut /\ Asked
  BY <1>2 DEF Init, Shut, Asked, InWrite
<1> QED  BY <1>1, <1>4, <1>5 DEF IInv

\* Every step is good.
LEMMA NextGood ==
  ASSUME IInv, [Next]_vars
  PROVE  IInv' /\ [NothingLost /\ AllSaved /\ NoneCrosses]_vars
<1>1. CASE Next
  BY <1>1, ActivateGood, RefreshGood, TypeGood, FlushNoteGood, DeactivateGood,
     DisposeGood, QuitGood,
     AskGood, DeleteGood, RestoreGood, SelectGood, AgentGood DEF Next, Good
<1>2. CASE UNCHANGED vars
  <2>1. Good
    BY <1>2, SameGood DEF vars, store, IInv, Plain, Asked, InWrite
  <2> QED  BY <2>1 DEF Good
<1> QED  BY <1>1, <1>2

\* The inductive invariant holds.
THEOREM TextsInvariant == Spec => []IInv
<1>1. IInv /\ [Next]_vars => IInv'
  BY NextGood
<1> QED  BY <1>1, InitSound, PTL DEF Spec

\* The notes pane of the todo page never shows, keeps or stores a text under a
\* task it was not written for, and never keeps more than MaxKept drafts.
THEOREM TextsHold == Spec => []TextsInv
  BY TextsInvariant, TextsFollow, PTL

\* A text the user typed leaves the program only by being stored, by a newer
\* text, with its task, by a restore, at the end of the program, or after the
\* warning that it could not be kept; or when a page whose refreshes have failed
\* since a restore succeeds in one (LateSync).
THEOREM TypedTextKept == Spec => NothingTypedIsLost
<1>1. IInv /\ [Next]_vars => [NothingLost]_vars
  BY NextGood
<1>2. NothingTypedIsLost <=> [][NothingLost]_vars
  BY DEF NothingTypedIsLost, NothingLost
<1> QED  BY <1>1, <1>2, TextsInvariant, PTL DEF Spec

\* Leaving the page, or quitting from it, tries every text that is held: only
\* what the store refused at that moment is left, unless a page whose refreshes
\* have failed since a restore succeeds in one on the way (LateSync).
THEOREM LeavingSaves == Spec => LeavingSavesAll
<1>1. IInv /\ [Next]_vars => [AllSaved]_vars
  BY NextGood
<1>2. LeavingSavesAll <=> [][AllSaved]_vars
  BY DEF LeavingSavesAll, AllSaved
<1> QED  BY <1>1, <1>2, TextsInvariant, PTL DEF Spec

\* Where reads do not fail, the page always knows the generation of the store: a
\* restore is the only occasion on which it drops a text (LateSync never occurs).
THEOREM PageKnowsStore == Spec => []("read" \in Faults \/ ed.gen = storeGen)
<1>1. IInv => "read" \in Faults \/ ed.gen = storeGen
  BY DEF IInv, Sound, Agrees
<1> QED  BY <1>1, TextsInvariant, PTL

\* A text written for the store before a restore never reaches the restored one.
THEOREM RestoreIsClean == Spec => NoTextCrossesRestore
<1>1. IInv /\ [Next]_vars => [NoneCrosses]_vars
  BY NextGood
<1>2. NoTextCrossesRestore <=> [][NoneCrosses]_vars
  BY DEF NoTextCrossesRestore, NoneCrosses
<1> QED  BY <1>1, <1>2, TextsInvariant, PTL DEF Spec

=============================================================================
