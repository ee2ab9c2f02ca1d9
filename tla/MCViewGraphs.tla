---------------------------- MODULE MCViewGraphs ----------------------------
(***************************************************************************)
(* Three views: the walks on every graph, and the greedy synthesis from      *)
(* small caches with two or three candidates each.  The probabilities        *)
(* interleave the lists, with ties between lists and inside one list.        *)
(***************************************************************************)
EXTENDS LayoutSynthesis, ViewGraphWalk

\* The targets of a candidate of v: one other view (relational) or two
\* (center).  A center attribute with both targets equal is, for the graph, a
\* relational one, and which of two targets is the primary one is irrelevant.
CandidatePairs(v) == {p \in TargetPairs(v) : p[1] < p[2]}

RootPair == <<Root, NoView>>

FreePairs(v) == CandidatePairs(v) \ {RootPair}

Attr(pair, prob) == [primary |-> pair[1], secondary |-> pair[2], prob |-> prob]

\* A list with its content-frame candidate last, with it early, or without it.
ListsOf(v, pr) ==
  {<<Attr(p, pr[1]), Attr(q, pr[2]), Attr(RootPair, pr[3])>> :
     <<p, q>> \in {pq \in FreePairs(v) \X FreePairs(v) : pq[1] # pq[2]}}
  \cup {<<Attr(p, pr[1]), Attr(RootPair, pr[2]), Attr(q, pr[3])>> :
          p, q \in {x \in FreePairs(v) : x[1] = Root}}
  \cup {<<Attr(p, pr[1])>> : p \in FreePairs(v)}

\* Two of the three lists vary, the third is fixed for each choice of prob.
CachesWith(p1, p2, third) ==
  {<<a, b, third>> : a \in ListsOf(1, p1), b \in ListsOf(2, p2)}

FrameCache == [v \in SynViews |-> <<Attr(RootPair, 1)>>]

MCCaches ==
  LET x1 == <<1, NoView>>   x2 == <<2, NoView>>   both == <<1, 2>> IN
  {FrameCache}
  \cup CachesWith(<<5, 3, 1>>, <<4, 3, 2>>, <<Attr(x1, 6), Attr(x2, 2), Attr(RootPair, 2)>>)
  \cup CachesWith(<<5, 3, 1>>, <<5, 3, 2>>, <<Attr(both, 5), Attr(RootPair, 4), Attr(x2, 3)>>)
  \cup CachesWith(<<2, 2, 1>>, <<3, 2, 2>>, <<Attr(both, 2), Attr(x2, 2), Attr(x1, 2)>>)

-----------------------------------------------------------------------------
\* The graph to walk and the cache to start from do not interact: every graph
\* goes with a cache of content-frame candidates, every cache with a graph
\* without targets.
NoTargets == [v \in Views |-> NoView]

MCInit ==
  \/ primary = NoTargets /\ secondary = NoTargets /\ Init
  \/ candidates = FrameCache /\ Init /\ WalkInit

MCNext == Next /\ UNCHANGED wvars

MCSpec == MCInit /\ [][MCNext]_<<vars, wvars>> /\ WF_vars(SkipCandidate \/ ApplyCandidate)
=============================================================================
