------------------------------ MODULE VidLayout ------------------------------
(***************************************************************************)
(* Where the tiles of VidMix lie: the arithmetic of source_mix and         *)
(* calc_rows in src/vidmix/vidmix.c, and what vidconv_aspect and vidconv   *)
(* of src/vidconv/vconv.c make of a place.  A picture shows n sources, in  *)
(* the order of the list, in a grid, or, where one has the focus, that one *)
(* large, with the others in a column on its right and a row below it.     *)
(* VidMix says which tiles a picture has, for the few sources of a model;  *)
(* here a picture may show any number of others beside them.               *)
(*                                                                         *)
(* Left out: the pixels, and the rounding of the aspects, which are        *)
(* floating point numbers in the code and fractions here.                  *)
(***************************************************************************)
EXTENDS VidMix, FiniteSets

CONSTANTS
  Layouts,      \* pictures: size, n, which of the n has the focus, if in full
  Frames        \* sizes of the frames that are put into sources

Unset == -1     \* there is no focus; 0: on a source that is not shown

Layout == [w : Nat, h : Nat, n : Nat, focus : Nat \cup {Unset}, full : BOOLEAN]

ASSUME VidLayoutAssumption ==
  /\ Layouts \subseteq Layout /\ \A l \in Layouts : l.focus <= l.n
  /\ Frames \subseteq [w : Nat \ {0}, h : Nat \ {0}]

Least(a, b) == IF a < b THEN a ELSE b

Greatest(a, b) == IF a > b THEN a ELSE b

Rect(x, y, w, h) == [x |-> x, y |-> y, w |-> w, h |-> h]

-----------------------------------------------------------------------------
(* The place of a tile.                                                    *)

(* The first number of rows, and columns, whose grid holds n tiles.        *)
Holds(n) == {r \in 1..n + 1 : n <= r * r}

CalcRows(n) == CHOOSE r \in Holds(n) : \A q \in Holds(n) : r <= q

(* A fault: the one with the focus takes a place of the others.            *)
SharesTight(l) == Greatest(l.n, IF l.full THEN 12 ELSE 6) \div 2

(* How many small tiles a side is long, beside one with the focus.         *)
Shares(l) == Greatest(l.n + 1, IF l.full THEN 12 ELSE 6) \div 2

FocusPlace(l) ==
  LET m == Shares(l)
  IN  Rect(0, 0, (l.w * (m - 1)) \div m, (l.h * (m - 1)) \div m)

(* The column is filled from the top, then the row from the right; who is  *)
(* beyond its end is not drawn.                                            *)
BesidePlaces(l, idx) ==
  LET m == Shares(l)
      w == l.w \div m
      h == l.h \div m
  IN  IF idx < m THEN {Rect(l.w - w, h * idx, w, h)}
      ELSE IF idx < 2 * m - 1 THEN {Rect(w * (2 * m - 2 - idx), l.h - h, w, h)}
      ELSE {}

(* A single tile takes all of it.                                          *)
GridPlace(l, idx) ==
  LET rows == CalcRows(l.n)
      w == l.w \div rows
      h == l.h \div rows
  IN  Rect(w * (idx % rows), h * (idx \div rows), w, h)

(* The index of the i-th one shown: the one with the focus is not counted. *)
Index(l, i) == IF l.focus \in 1..i - 1 THEN i - 2 ELSE i - 1

(* The place of the i-th one, if it has one.  Who has the full focus is    *)
(* drawn before, all over the picture.                                     *)
Places(l, i) ==
  IF l.focus = Unset THEN {GridPlace(l, Index(l, i))}
  ELSE IF i # l.focus THEN BesidePlaces(l, Index(l, i))
  ELSE IF l.full THEN {}
  ELSE {FocusPlace(l)}

-----------------------------------------------------------------------------
(* What is drawn there.                                                    *)

(* vidconv_aspect puts the frame into the middle of its place.             *)
Aspect(r, f) ==
  LET w == Least(r.w, (r.h * f.w) \div f.h)
      h == Least(r.h, (r.w * f.h) \div f.w)
  IN  Rect(r.x + (r.w - w) \div 2, r.y + (r.h - h) \div 2, w, h)

Even(k) == k - (k % 2)

(* A fault: odd places are rounded up.                                     *)
EvenedUp(r) == Rect(r.x + (r.x % 2), r.y + (r.y % 2), Even(r.w), Even(r.h))

(* vidconv draws two pixels at a time, from even places.                   *)
Evened(r) == Rect(Even(r.x), Even(r.y), Even(r.w), Even(r.h))

Drawn(l, i, f) == {Evened(Aspect(r, f)) : r \in Places(l, i)}

-----------------------------------------------------------------------------
(* Properties.                                                             *)

Within(r, l) == r.x + r.w <= l.w /\ r.y + r.h <= l.h

Apart(r, q) ==
  r.x + r.w <= q.x \/ q.x + q.w <= r.x \/ r.y + r.h <= q.y \/ q.y + q.h <= r.y

(* Where the first i drawn of a picture are as they should be.             *)
Fits(l, i) ==
  \A f, g \in Frames : \A r \in Drawn(l, i, f) :
    /\ Within(r, l)
    /\ \A j \in 1..i - 1 : \A q \in Drawn(l, j, g) : Apart(r, q)

(* What the sources and the view of a viewer decide of a layout.           *)
Shape(l) == [n |-> l.n, focus |-> l.focus, full |-> l.full]

Overdrawn == {Shape(l) : l \in {k \in Layouts : \E i \in 1..k.n : ~Fits(k, i)}}

(* Whoever has the full focus is drawn before, all over the picture.       *)
HasNoPlace(l, i) == Places(l, i) = {} /\ ~(l.full /\ i = l.focus)

Unplaced ==
  {Shape(l) : l \in {k \in Layouts : \E i \in 1..k.n : HasNoPlace(k, i)}}

(* How a picture of v may be laid out, with others than Sources in it.     *)
LaidOut(v, shape) ==
  /\ shape.n >= Cardinality(Visible(v))
  /\ shape.full = full[v]
  /\ (shape.focus = Unset) = (focus[v] = None)
  /\ (shape.focus > 0) = (focus[v] \in Visible(v))

(* Whatever the size of the picture, the number of tiles and the aspects   *)
(* of their frames, no thread draws a tile over another one, or out of the *)
(* picture, which vidconv would refuse.                                    *)
TilesApart ==
  \A v \in Sources :
    vpc[v] = "paint" => \A shape \in Overdrawn : ~LaidOut(v, shape)

(* Whoever is to be seen has a place, unless the viewer's focus is on one  *)
(* who is not: then one who is shown may be left without.                  *)
EveryonePlaced ==
  \A v \in Sources :
    vpc[v] = "paint" /\ focus[v] \in Visible(v) \cup {None}
      => \A shape \in Unplaced : ~LaidOut(v, shape)
=============================================================================
