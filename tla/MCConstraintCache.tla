-------------------------- MODULE MCConstraintCache --------------------------
(***************************************************************************)
(* Three views in a frame of three units, also partly outside of it; further *)
(* apps are the same screen on wider devices, where a view keeps its place,  *)
(* moves with the right edge or becomes wider.                               *)
(***************************************************************************)
EXTENDS ConstraintCache

At(i, j) == [start |-> i, end |-> j]

Intervals == {At(0, 5), At(1, 2), At(1, 4), At(2, 4), At(3, 5)}

\* A placement is a function from views, 0 first.  Two views vary, the third
\* starts inside the frame or before it.
MCDesigns ==
  {[v \in Views |-> <<At(1, 4), i, j, k>>[v + 1]] :
     i \in Intervals, j \in Intervals, k \in {At(1, 3), At(0, 1)}}

Moved(i, k) == At(i.start + k, i.end + k)
Widened(i, k) == At(i.start, i.end + k)

OnWider(place, first, second, k) ==
  [v \in Views |->
     LET how == <<"wide", first, second, "left">>[v + 1]
     IN  CASE how = "left"  -> place[v]
           [] how = "right" -> Moved(place[v], k)
           [] how = "wide"  -> Widened(place[v], k)]

MCOtherApps(place) ==
  {<<>>,
   <<OnWider(place, "left", "right", 1)>>,
   <<OnWider(place, "right", "left", 2), OnWider(place, "left", "left", 1)>>,
   <<OnWider(place, "wide", "left", 1), OnWider(place, "left", "wide", 1)>>}

\* Probabilities by their order, with ties between types, targets and views.
SideRank(s) == IF s = "start" THEN 1 ELSE IF s = "end" THEN 2 ELSE 0

MCAttrProb(m, a) ==
  CASE m = "aligned"  -> IF IsRelationalAnchor(a.type)
                           THEN 40 + SideRank(a.type.start) - 5 * a.tgt_primary
                           ELSE 9 * SideRank(a.type.start) + 3 * SideRank(a.type.end)
                                  - a.tgt_secondary
    [] m = "centered" -> 4 * SideRank(a.type.start) + 9 * SideRank(a.type.end)
                           + 7 * a.tgt_primary - 2 * a.tgt_secondary
                           - (IF a.view_size = "FIXED" THEN 1 ELSE 0)
    [] m = "close"    -> 5 * SideRank(a.type.end) + 2 * SideRank(a.type.start)
                           + 11 * a.tgt_primary + 3 * a.tgt_secondary
                           - 4 * a.value_primary - 3 * a.value_secondary
=============================================================================
