------------------------------- MODULE Anchors -------------------------------
(***************************************************************************)
(* Constraint types and margins of one orientation (model.cpp, constraints). *)
(* A type is written as the pair SplitAnchor gives: the side of the target   *)
(* the start (left, top) of a view is tied to, and the side its end is tied  *)
(* to.  L2R is [start |-> "end", end |-> None], R2L is [start |-> None,      *)
(* end |-> "start"], and L2LxR2R is [start |-> "start", end |-> "end"].      *)
(* A view is placed by a record of its two coordinates.                      *)
(***************************************************************************)
EXTENDS Integers

Sides == {"start", "end"}
None == "none"

RelationalTypes ==
  [start : Sides, end : {None}] \cup [start : {None}, end : Sides]
CenterTypes == [start : Sides, end : Sides]
ConstraintTypes == RelationalTypes \cup CenterTypes

IsRelationalAnchor(type) == type.start = None \/ type.end = None
IsTypeStart(type) == type.start # None

\* L2R and R2L: a side is tied to the opposite side of the target.
IsOpposite(type) == type.start = "end" \/ type.end = "start"

StartMargin(type, src, tgt) == src.start - tgt[type.start]
EndMargin(type, src, tgt) == tgt[type.end] - src.end

RelationalMargin(type, src, tgt) ==
  IF IsTypeStart(type) THEN StartMargin(type, src, tgt) ELSE EndMargin(type, src, tgt)

\* Twice CenterMargin: how far the center of src is right of the center of the
\* two anchors, a half counting as one.  The code doubles it before it is used.
CenterMargin(type, src, l, r) == src.start + src.end - l[type.start] - r[type.end]

-----------------------------------------------------------------------------
\* The renderer (external): where a view whose design is at `own` ends up when
\* its targets are at the places l and r.  A centered view of fixed size gets
\* half of what is free on either side, an odd unit goes to the start when `up`
\* is 1.  The margins of a view centered on one and the same anchor are ignored;
\* `same` says so.

Centered(type, p, s, own, l, r, same, up) ==
  LET width == own.end - own.start
      margins == IF same THEN 0 ELSE p - s
      start == (l[type.start] + r[type.end] + margins - width + up) \div 2
  IN  [start |-> start, end |-> start + width]

Aligned(type, p, s, own, tgt) ==
  LET width == own.end - own.start
      start == IF IsTypeStart(type) THEN tgt[type.start] + p
                                    ELSE tgt[type.end] - s - width
  IN  [start |-> start, end |-> start + width]

Stretched(type, p, s, l, r) ==
  [start |-> l[type.start] + p, end |-> r[type.end] - s]

\* A view centered on one and the same anchor.
OneAnchor(attr) ==
  attr.tgt_primary = attr.tgt_secondary /\ attr.type.start = attr.type.end

\* place gives the targets of attr, own the size of its view.
Rendered(attr, place, own, up) ==
  LET type == attr.type
      p == attr.value_primary
      s == attr.value_secondary
      l == place[attr.tgt_primary]
      r == place[attr.tgt_secondary]
  IN  IF IsRelationalAnchor(type) THEN Aligned(type, p, s, own, l)
      ELSE IF attr.view_size = "MATCH_CONSTRAINT" THEN Stretched(type, p, s, l, r)
      ELSE Centered(type, p, s, own, l, r, OneAnchor(attr), up)
=============================================================================
