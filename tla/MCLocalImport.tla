---------------------------- MODULE MCLocalImport ----------------------------
(***************************************************************************)
(* The packs LocalImport is checked with: a sound pack, a second one, the  *)
(* bundled preview, and packs that differ from the first in one part or in *)
(* two that belong together.  A pack is named by what is different.        *)
(***************************************************************************)
EXTENDS LocalImport

CONSTANTS TornFile

Png == [media |-> "image/png", content |-> "image/png", intact |-> TRUE,
        pixels |-> 6, seconds |-> 0, basis |-> "original", evidence |-> TRUE,
        refs |-> TRUE, official |-> FALSE, decodes |-> TRUE, sizeDeclared |-> TRUE,
        alpha |-> TRUE]
Sound(n) == [Png EXCEPT !.media = "audio/wav", !.content = "audio/wav", !.seconds = n]
Static(a) == [type |-> "static", asset |-> a]
Frame(a)  == [asset |-> a, ms |-> 500]
Sequence(s) == [type |-> "sequence", frames |-> s]

Renderer ==
  [absent  |-> None,
   still   |-> Static("a"),
   other   |-> Static("b"),
   ghost   |-> Static("ghost"),
   layered |-> [type |-> "layered"],
   effect  |-> [type |-> "builtin_effect"],
   video   |-> [type |-> "video"],
   there_and_back |-> Sequence(<<Frame("a"), Frame("b"), Frame("a")>>),
   large   |-> Sequence(<<Frame("b"), Frame("c"), Frame("a")>>),
   nothing |-> Sequence(<<>>),
   fast    |-> Sequence(<<[asset |-> "a", ms |-> 20]>>),
   long    |-> Sequence([i \in 1 .. 301 |-> Frame("a")])]

Asset ==
  [unknown    |-> [Png EXCEPT !.basis = "unknown"],
   stolen     |-> [Png EXCEPT !.basis = "stolen"],
   unlicensed |-> [Png EXCEPT !.basis = "licensed", !.evidence = FALSE],
   changed    |-> [Png EXCEPT !.intact = FALSE],
   broken     |-> [Png EXCEPT !.decodes = FALSE],
   opaque     |-> [Png EXCEPT !.alpha = FALSE],
   resized    |-> [Png EXCEPT !.sizeDeclared = FALSE],
   empty      |-> [Png EXCEPT !.pixels = 0],
   big        |-> [Png EXCEPT !.pixels = 15],
   huge       |-> [Png EXCEPT !.pixels = 17],
   disguised  |-> [Png EXCEPT !.content = "audio/wav"],
   unnamed    |-> [Png EXCEPT !.refs = FALSE],
   claiming   |-> [Png EXCEPT !.basis = "unknown", !.official = TRUE],
   sound      |-> Sound(60),
   tune       |-> Sound(61)]

Canvas    == [w |-> 512, h |-> 512]
Body      == [x |-> 30, y |-> 12, w |-> 452, h |-> 486]
Foot      == [x |-> 256, y |-> 498]
Crown      == [x |-> 256, y |-> 0]
Rectangle(r) == [shape |-> "rect", rect |-> r]
Circle(q, n) == [shape |-> "circle", center |-> q, radius |-> n]
Polygon(s)   == [shape |-> "polygon", points |-> s]
Stature   == [canvas |-> Canvas, content |-> Body, motion |-> Body, base |-> Foot,
              bubble |-> Crown, reference |-> 486, hits |-> <<Rectangle(Body)>>]

Rect ==
  [absent   |-> None,
   empty    |-> [Body EXCEPT !.w = 0],
   whole    |-> [x |-> 0, y |-> 0, w |-> 512, h |-> 512],
   near     |-> [Body EXCEPT !.x = -1],
   before   |-> [Body EXCEPT !.y = -2],
   edge     |-> [Body EXCEPT !.w = 483],
   beyond   |-> [Body EXCEPT !.h = 502],
   slim     |-> [x |-> 250, y |-> 0, w |-> 9, h |-> 512],
   flat     |-> [x |-> 0, y |-> 500, w |-> 512, h |-> 3],
   corner   |-> [x |-> 400, y |-> 8, w |-> 112, h |-> 100]]
Point ==
  [absent   |-> None,
   origin   |-> [x |-> 0, y |-> 0],
   far      |-> [x |-> 512, y |-> 512],
   edge     |-> [x |-> 513, y |-> 0],
   beyond   |-> [x |-> 0, y |-> 514]]
Height == [absent |-> None, zero |-> 0, tiny |-> 3, half |-> 256, giant |-> 5000]
Size   == [absent |-> None, empty |-> [Canvas EXCEPT !.h = 0],
           vast |-> [Canvas EXCEPT !.w = 4097], square |-> Canvas]
Hits ==
  [anywhere |-> <<>>,
   head     |-> <<Circle([x |-> 256, y |-> 100], 100)>>,
   cut      |-> <<Circle([x |-> 256, y |-> 100], 102)>>,
   point    |-> <<Circle([x |-> 256, y |-> 100], 0)>>,
   line     |-> <<Polygon(<<Crown, Foot>>)>>,
   star     |-> <<Polygon(<<Crown, Foot, [x |-> 0, y |-> 512]>>)>>,
   round    |-> <<Polygon([i \in 1 .. 33 |-> Foot])>>,
   outside  |-> <<Rectangle(Body), Rectangle(Rect["beyond"])>>,
   oval     |-> <<[shape |-> "oval"]>>,
   many     |-> [i \in 1 .. 16 |-> Rectangle(Body)],
   more     |-> [i \in 1 .. 17 |-> Rectangle(Body)]]

Statures ==
  {[Stature EXCEPT !.motion = Rect[m], !.base = Point[b], !.reference = Height[h]] :
     m \in DOMAIN Rect, b \in DOMAIN Point, h \in DOMAIN Height}
  \cup {[Stature EXCEPT !.content = Rect[r], !.bubble = Point[b]] :
          r \in DOMAIN Rect, b \in DOMAIN Point}
  \cup {[Stature EXCEPT !.canvas = Size[z]] : z \in DOMAIN Size}
  \cup {[Stature EXCEPT !.hits = Hits[n]] : n \in DOMAIN Hits}

Idler  == [semantic |-> "core.idle", loop |-> Static("a"), enter |-> None,
           exit |-> None, contract |-> None]
Worker == [semantic |-> "core.work", loop |-> Static("b"), enter |-> None,
           exit |-> None, contract |-> None]
Cat    == [bind |-> ("core.idle" :> "idle" @@ "core.work" :> "work"),
           thumbnail |-> "a", contract |-> None, layout |-> None,
           geometry |-> Stature, override |-> None]

Member(path) ==
  [path |-> path, folded |-> path, name |-> "plain", depth |-> 1, directory |-> FALSE,
   link |-> FALSE, method |-> "deflated", size |-> 2, declared |-> 2, ratio |-> 3,
   whole |-> TRUE]
Archive == <<Member("petpack.json"), Member("a"), Member("b"), Member("c"),
             Member("licence")>>

\* What one more member, or the one of b, may be.
Another ==
  [file      |-> Member("extra"),
   folder    |-> [Member("extra") EXCEPT !.directory = TRUE],
   twin      |-> Member("b"),
   namesake  |-> [Member("B") EXCEPT !.folded = "b"]]
Changed ==
  [parent    |-> [Member("b") EXCEPT !.name = "parent"],
   device    |-> [Member("b") EXCEPT !.name = "device"],
   nested    |-> [Member("b") EXCEPT !.depth = 9],
   link      |-> [Member("b") EXCEPT !.link = TRUE],
   exotic    |-> [Member("b") EXCEPT !.method = "lzma"],
   bomb      |-> [Member("b") EXCEPT !.ratio = 101],
   vast      |-> [Member("b") EXCEPT !.size = 101, !.declared = 101],
   wide      |-> [Member("b") EXCEPT !.size = 90, !.declared = 90],
   deceptive |-> [Member("b") EXCEPT !.declared = 1],
   torn      |-> [Member("b") EXCEPT !.whole = FALSE]]

Good == [members |-> Archive, size |-> 2, publisher |-> "community",
         version |-> "1.0.0", pubRef |-> "declared",
         engine |-> [min |-> None, below |-> None], required |-> {}, optional |-> {},
         legal |-> "licence" :> TRUE,
         assets |-> [id \in {"a", "b", "c"} |-> Png],
         actions |-> ("idle" :> Idler @@ "work" :> Worker),
         characters |-> "cat" :> Cat, contracts |-> {"rig"}]

Tunes == <<"s1", "s2", "s3", "s4", "s5", "s6", "s7", "s8", "s9", "s10", "s11">>
WithTunes(n) ==
  [Good EXCEPT !.members = Archive \o [i \in DOMAIN Tunes |-> Member(Tunes[i])],
               !.assets  = [id \in {"a", "b", "c"} \cup Range(Tunes) |->
                              IF id \in Range(Tunes) THEN Sound(n) ELSE Png]]

Sibling ==
  [own    |-> [Cat EXCEPT !.bind = "core.idle" :> "work"],
   shared |-> [Cat EXCEPT !.contract = "rig"],
   lost   |-> [Cat EXCEPT !.contract = "lost"]]

Variation ==
  [good         |-> Good,
   newer        |-> [Good EXCEPT !.version = "1.1.0"],
   preview      |-> [Good EXCEPT !.version = "preview", !.assets["b"].basis = "unknown"],
   reserved     |-> [Good EXCEPT !.publisher = "official"],
   no_manifest  |-> [Good EXCEPT !.members = Tail(Archive)],
   crowded      |-> [Good EXCEPT !.members =
                       Archive \o [i \in 1 .. MaxFileCount |-> Another["folder"]]],
   oversized    |-> [Good EXCEPT !.size = 65],
   old_engine   |-> [Good EXCEPT !.engine = [min |-> 1, below |-> 2]],
   this_engine  |-> [Good EXCEPT !.engine = [min |-> 2, below |-> 3]],
   new_engine   |-> [Good EXCEPT !.engine = [min |-> 3, below |-> None]],
   noisy        |-> WithTunes(55),
   musical      |-> WithTunes(54),
   leaving      |-> [Good EXCEPT !.actions["work"].exit = Renderer["still"]],
   lost_exit    |-> [Good EXCEPT !.actions["work"].exit = Renderer["ghost"]],
   one_action   |-> [Good EXCEPT !.characters["cat"].bind =
                       "core.idle" :> "idle" @@ "core.work" :> "idle"],
   demanding    |-> [Good EXCEPT !.required = {"renderer.layered"}],
   incomplete   |-> [Good EXCEPT !.members = Remove(Archive, Member("c"))],
   bad_licence  |-> [Good EXCEPT !.legal = "licence" :> FALSE],
   anonymous    |-> [Good EXCEPT !.pubRef = "absent"],
   historical   |-> [Good EXCEPT !.pubRef = "absent", !.version = "historical"],
   dangling     |-> [Good EXCEPT !.pubRef = "dangling"],
   dancer       |-> [Good EXCEPT !.actions["work"].semantic = "core.dance"],
   may_dance    |-> [Good EXCEPT !.actions["work"].semantic = "core.dance",
                                 !.optional = {"core.dance"}],
   faceless     |-> [Good EXCEPT !.characters["cat"].thumbnail = "ghost"],
   fancy        |-> [Good EXCEPT !.characters["cat"].layout = "fancy"],
   shapeless    |-> [Good EXCEPT !.characters["cat"].geometry = None],
   restated     |-> [Good EXCEPT !.characters["cat"].override = [Stature EXCEPT !.reference = 9]],
   rescaled     |-> [Good EXCEPT !.characters["cat"].override = [Stature EXCEPT !.canvas.w = 600]],
   no_idle      |-> [Good EXCEPT !.characters["cat"].bind = "core.work" :> "work"],
   no_action    |-> [Good EXCEPT !.characters["cat"].bind = "core.idle" :> "nothing"]]

Names ==
  {<<v>> : v \in DOMAIN Variation}
  \cup ({"idle"} \X (DOMAIN Renderer) \X (DOMAIN Renderer))
  \cup ({"member"} \X (DOMAIN Another \cup DOMAIN Changed))
  \cup ({"stature"} \X Statures)
  \cup ({"work"} \X (DOMAIN Renderer))
  \cup ({"asset"} \X {"a", "b", "c"} \X (DOMAIN Asset))
  \cup ({"family"} \X (DOMAIN Sibling) \X {None, "rig"} \X {"other", "layered"})

Contents ==
  [n \in Names |->
     CASE n[1] = "idle"   -> [Good EXCEPT !.actions["idle"].loop = Renderer[n[2]],
                                          !.actions["idle"].enter = Renderer[n[3]]]
       [] n[1] = "work"   -> [Good EXCEPT !.actions["work"].loop = Renderer[n[2]]]
       [] n[1] = "member" -> [Good EXCEPT !.members =
                               IF n[2] \in DOMAIN Another THEN Append(@, Another[n[2]])
                               ELSE ReplaceAt(@, 3, Changed[n[2]])]
       [] n[1] = "stature" -> [Good EXCEPT !.characters["cat"].geometry = n[2]]
       [] n[1] = "asset"  -> [Good EXCEPT !.assets[n[2]] = Asset[n[3]]]
       [] n[1] = "family" -> [Good EXCEPT !.characters = "cat" :> Cat @@ "kitten" :> Sibling[n[2]],
                                          !.actions["work"].contract = n[3],
                                          !.actions["work"].loop = Renderer[n[4]]]
       [] OTHER           -> Variation[n[1]]]

PreviewPack  == <<"preview">>
FilesThere  == {<<"good">>, <<"preview">>, <<"dangling">>}
=============================================================================
