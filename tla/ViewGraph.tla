------------------------------ MODULE ViewGraph ------------------------------
(***************************************************************************)
(* The view graph of one orientation: every view refers to the targets of   *)
(* the attribute (constraint) it holds in that orientation.  View 0 is the  *)
(* content frame, which never holds an attribute.  A graph is a function    *)
(* from views to the set of their targets, {} for a view without attribute. *)
(*                                                                         *)
(* View::ReferencedNodes and View::IsAnchored (model.cpp) walk this graph   *)
(* recursively with a set of visited views.  Here both are least fixed      *)
(* points, which is what theorems can be proved about; ViewGraphWalk holds  *)
(* the walks as they are coded, and its run compares the two.               *)
(***************************************************************************)
EXTENDS Naturals

CONSTANT NumViews            \* number of views besides the content frame
ASSUME NumViewsAssumption == NumViews \in Nat \ {0}

Root == 0
Views == 0 .. NumViews
SynViews == 1 .. NumViews    \* the views that get attributes
NoView == NumViews + 1       \* a target that is nullptr

Graphs == {g \in [Views -> SUBSET Views] : g[Root] = {}}

Closed(g, S) == \A v \in S : g[v] \subseteq S

\* The views reachable from v, v included.
ReferencedNodes(g, v) ==
  {w \in Views : \A S \in SUBSET Views : v \in S /\ Closed(g, S) => w \in S}

\* A contains the content frame and every view all of whose targets it contains.
Grounding(g, A) ==
  /\ Root \in A
  /\ \A w \in Views : g[w] # {} /\ g[w] \subseteq A => w \in A

\* v is tied to the content frame by every chain of targets it starts.
IsAnchored(g, v) == \A A \in SUBSET Views : Grounding(g, A) => v \in A

\* v would refer to itself if it referred to the views T.
IsCircularRelation(g, v, T) == \E t \in T : v \in ReferencedNodes(g, t)

IsAnchoredWithAttr(g, T) == \A t \in T : IsAnchored(g, t)

\* No view can be reached from one of its own targets.
Acyclic(g) == \A v \in Views : ~IsCircularRelation(g, v, g[v])
=============================================================================
