---------------------------- MODULE ViewGraphWalk ----------------------------
(***************************************************************************)
(* The walks of model.cpp over the view graph as they are coded: recursive, *)
(* with a set of visited views, the primary target before the secondary.    *)
(* The state is one graph, acyclic or not; the walks are pure functions.    *)
(***************************************************************************)
EXTENDS ViewGraph

\* What the levels of n views add up to at most: each is one more than the sum
\* of two others.
MostLevels[n \in 0 .. NumViews] == IF n = 0 THEN 0 ELSE 2 * MostLevels[n - 1] + 1

CONSTANT MaxLevel            \* bound on the values of the solver's anchor variables
ASSUME MaxLevelAssumption == MaxLevel \in Nat /\ MaxLevel >= MostLevels[NumViews]

\* What a view may hold: nothing (two NoView), a relational attribute (no
\* secondary target) or a center attribute.
TargetPairs(v) ==
  {p \in (Views \cup {NoView}) \X (Views \cup {NoView}) :
     v \notin {p[1], p[2]} /\ (p[1] = NoView => p[2] = NoView)}

VARIABLES primary, secondary

wvars == <<primary, secondary>>

HeldRefs == [v \in Views |-> {primary[v], secondary[v]} \ {NoView}]

\* A walk is called for a view, with the views its callers have visited.
Calls == Views \X SUBSET Views

\* Mutant of AnchoredFrom: both targets share one set of visited views.
AnchoredFromShared(walk, v, seen) ==
  LET visited == seen \cup {v} IN
  \/ v = Root
  \/ /\ primary[v] # NoView
     /\ HeldRefs[v] \cap visited = {}
     /\ walk[<<primary[v], visited>>]
     /\ secondary[v] # NoView =>
          walk[<<secondary[v], visited \cup ReferencedNodes(HeldRefs, primary[v])>>]

\* A call of IsAnchored: walk answers the calls it makes.
AnchoredFrom(walk, v, seen) ==
  LET visited == seen \cup {v} IN
  \/ v = Root
  \/ /\ primary[v] # NoView
     /\ HeldRefs[v] \cap visited = {}
     /\ walk[<<primary[v], visited>>]
     \* the secondary target is walked with a visited set of its own
     /\ secondary[v] # NoView => walk[<<secondary[v], {v}>>]

IsAnchoredVisiting[call \in Calls] ==
  AnchoredFrom(IsAnchoredVisiting, call[1], call[2])

\* Mutant of VisitedFrom: the secondary target only if the primary one was
\* visited before.
VisitedFromEither(walk, v, seen) ==
  LET visited == seen \cup {v}
      next == {t \in {primary[v], secondary[v]} \ {NoView} : t \notin visited}
  IN IF next = {} THEN visited
     ELSE walk[<<IF primary[v] \in next THEN primary[v] ELSE secondary[v], visited>>]

\* A call of ReferencedNodesInner: the views visited when it ends, seen by then
\* being those of the callers.
Into(walk, t, visited) ==
  IF t = NoView \/ t \in visited THEN visited ELSE walk[<<t, visited>>]

VisitedFrom(walk, v, seen) ==
  Into(walk, secondary[v], Into(walk, primary[v], seen \cup {v}))

ReferencedNodesInner[call \in Calls] ==
  VisitedFrom(ReferencedNodesInner, call[1], call[2])

\* Mutant of AnchorExprs: without the + 1.
AnchorExprsFlat(level) ==
  /\ level[Root] = 0
  /\ \A v \in SynViews :
       /\ level[v] >= 0
       /\ level[v] = level[primary[v]]
                     + IF secondary[v] = NoView THEN 0 ELSE level[secondary[v]]

\* What the solver-based synthesis asserts instead of walking the graph: an
\* integer per view, 0 for the content frame, positive for the others, and for
\* the attribute a view holds one more than (the sum of) those of its targets.
AnchorExprs(level) ==
  /\ level[Root] = 0
  /\ \A v \in SynViews :
       /\ level[v] > 0
       /\ level[v] = level[primary[v]] + 1
                     + IF secondary[v] = NoView THEN 0 ELSE level[secondary[v]]

-----------------------------------------------------------------------------
WalkInit ==
  \E pairs \in [SynViews -> UNION {TargetPairs(v) : v \in SynViews}] :
    /\ \A v \in SynViews : pairs[v] \in TargetPairs(v)
    /\ primary = [v \in Views |-> IF v = Root THEN NoView ELSE pairs[v][1]]
    /\ secondary = [v \in Views |-> IF v = Root THEN NoView ELSE pairs[v][2]]

\* The walks change nothing.
WalkNext == UNCHANGED wvars

WalkSpec == WalkInit /\ [][WalkNext]_wvars

-----------------------------------------------------------------------------
\* Properties

\* On every graph, cyclic ones included, the walk of ReferencedNodes ends and
\* has visited exactly the views that can be reached: no branch is cut off by
\* the set of visited views that all branches share.
WalkReachesAll ==
  \A v \in Views : ReferencedNodesInner[<<v, {}>>] = ReferencedNodes(HeldRefs, v)

\* On every acyclic graph the walk of IsAnchored says anchored exactly for the
\* views all of whose chains lead to the content frame, also when both targets
\* share views below them.
WalkFindsAnchors ==
  Acyclic(HeldRefs) =>
    \A v \in Views : IsAnchoredVisiting[<<v, {}>>] <=> IsAnchored(HeldRefs, v)

\* When every view holds an attribute, the solver's integers exist exactly when
\* every view is tied to the content frame: the arithmetic of the solver-based
\* synthesis and the walks of the greedy one accept the same graphs.
LevelsMeanAnchored ==
  (\A v \in SynViews : primary[v] # NoView) =>
    ((\E level \in [Views -> 0 .. MaxLevel] : AnchorExprs(level))
       <=> \A v \in Views : IsAnchored(HeldRefs, v))
=============================================================================
