------------------------- MODULE MCConsistencyRepair -------------------------
(***************************************************************************)
(* Three views that are aligned, stretched or centered, in any acyclic way.  *)
(* The attributes are exact up to what the solver rounds: the center of a    *)
(* view of fixed size may be half a unit low.                                *)
(***************************************************************************)
EXTENDS ConsistencyRepair

At(i, j) == [start |-> i, end |-> j]

\* The designs: touching views, and views with gaps of one or more units.
Design(d, v) == (IF d = 1 THEN <<At(0, 8), At(1, 3), At(3, 4), At(5, 7)>>
                          ELSE <<At(0, 9), At(2, 4), At(1, 2), At(5, 8)>>)[v + 1]

Attr(type, size, p, s, l, r) ==
  [type |-> type, view_size |-> size, value_primary |-> p, value_secondary |-> s,
   tgt_primary |-> l, tgt_secondary |-> r]

Pos(n) == IF n > 0 THEN n ELSE 0

AlignedAttrs(d, v, targets) ==
  {LET m == RelationalMargin(t[1], Design(d, v), Design(d, t[2]))
   IN  Attr(t[1], "FIXED", IF IsTypeStart(t[1]) THEN m ELSE 0,
            IF IsTypeStart(t[1]) THEN 0 ELSE m, t[2], t[2]) :
     t \in {x \in RelationalTypes \X targets :
              RelationalMargin(x[1], Design(d, v), Design(d, x[2])) \in 0 .. 2}}

\* Both margins may be there; only their difference counts.
CenteredAttrs(d, v, pairs, types, more) ==
  {a \in {LET m == CenterMargin(t[1], Design(d, v), Design(d, t[2][1]), Design(d, t[2][2]))
                     + t[3]
          IN  Attr(t[1], "FIXED", Pos(m) + t[4], Pos(-m) + t[4], t[2][1], t[2][2]) :
            t \in types \X pairs \X {-1, 0} \X more} :
     OneAnchor(a) => a.value_primary + a.value_secondary = 0}

Inner == [start |-> "start", end |-> "start"]
Outer == [start |-> "start", end |-> "end"]

HorizontalOf(d, v) ==
  CASE v = 1 -> CenteredAttrs(d, 1, {<<0, 0>>, <<0, 2>>}, {Outer}, {0, 1})
                  \cup AlignedAttrs(d, 1, {0, 3})
    [] v = 2 -> CenteredAttrs(d, 2, {<<1, 0>>, <<1, 1>>}, {Outer}, {0})
                  \cup AlignedAttrs(d, 2, {0, 1})
    [] v = 3 -> CenteredAttrs(d, 3, {<<1, 2>>, <<2, 2>>}, {Inner, Outer}, {0})
                  \cup AlignedAttrs(d, 3, {1, 2})

Horizontals(d) ==
  {a \in {<<x, y, z>> : x \in HorizontalOf(d, 1), y \in HorizontalOf(d, 2),
                        z \in HorizontalOf(d, 3)} : Acyclic(Refs(a))}

\* Vertically: views that hang on the frame, or a chain of centered views.
Verticals ==
  {<<Attr([start |-> "start", end |-> None], "FIXED", 2, 0, 0, 0),
     Attr([start |-> "start", end |-> None], "FIXED", 1, 0, 0, 0),
     Attr([start |-> None, end |-> "end"], "FIXED", 0, 1, 0, 0)>>}
  \cup {<<Attr(Outer, "FIXED", 0, 4, 0, 0),
          Attr(Outer, "MATCH_CONSTRAINT", 1, 7, 0, 0),
          Attr(Outer, "FIXED", 1, 0, 1, 0)>>}

Place(d) == [v \in Views |-> Design(d, v)]

MCInputs ==
  {[app |-> <<h, w>>, place |-> <<Place(d), Place(2)>>, up |-> up] :
     d \in {1}, h \in Horizontals(1), w \in Verticals, up \in {0, 1}}
  \cup
  {[app |-> <<h, w>>, place |-> <<Place(d), Place(2)>>, up |-> up] :
     d \in {2}, h \in Horizontals(2), w \in Verticals, up \in {0, 1}}
=============================================================================
