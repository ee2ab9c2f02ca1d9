----------------------- MODULE LayoutSynthesisProofs ------------------------
(*****************************************************************************)
(* Safety of the greedy synthesis for any number of views and any candidate  *)
(* lists: type correctness, acyclic references, anchored views left alone,   *)
(* and every view with a content-frame candidate anchored at the end; first  *)
(* the lemmas about the view graph that this rests on: reachability,         *)
(* anchoring, and what happens to both when one view's targets are replaced  *)
(* (View::ApplyAttribute).  At the end, that the recursive walks of model.cpp *)
(* compute this reachability and this anchoring, and that the solver's levels *)
(* exist for the same graphs.                                                *)
(*****************************************************************************)
EXTENDS LayoutSynthesis, ViewGraphWalk, OperatorLemmas

-----------------------------------------------------------------------------
\* The view graph

\* A view is among the views it references.
LEMMA ReferencesSelf ==
  ASSUME NEW g, NEW v \in Views
  PROVE  v \in ReferencedNodes(g, v)
BY DEF ReferencedNodes

\* The targets of a referenced view are referenced.
LEMMA ReferencesClosed ==
  ASSUME NEW g \in [Views -> SUBSET Views], NEW v \in Views
  PROVE  Closed(g, ReferencedNodes(g, v))
BY DEF ReferencedNodes, Closed

\* The referenced views are within every closed set that holds the view.
LEMMA ReferencesLeast ==
  ASSUME NEW g, NEW v, NEW S \in SUBSET Views, v \in S, Closed(g, S)
  PROVE  ReferencedNodes(g, v) \subseteq S
BY DEF ReferencedNodes

\* Reachability is transitive.
LEMMA ReferencesTransitive ==
  ASSUME NEW g \in [Views -> SUBSET Views], NEW v \in Views,
         NEW w \in ReferencedNodes(g, v)
  PROVE  ReferencedNodes(g, w) \subseteq ReferencedNodes(g, v)
<1>1. ReferencedNodes(g, v) \subseteq Views
  BY DEF ReferencedNodes
<1>2. Closed(g, ReferencedNodes(g, v))
  BY ReferencesClosed
<1>3. QED
  BY <1>1, <1>2, ReferencesLeast

\* Nothing but the content frame itself is referenced by the content frame.
LEMMA RootReferencesOnlyItself ==
  ASSUME NEW g \in Graphs
  PROVE  ReferencedNodes(g, Root) = {Root}
<1>1. Root \in Views /\ {Root} \in SUBSET Views
  BY NumViewsAssumption DEF Root, Views
<1>2. Closed(g, {Root})
  BY DEF Closed, Graphs
<1>3. QED
  BY <1>1, <1>2, ReferencesLeast, ReferencesSelf

\* ApplyAttribute keeps the graph acyclic when IsCircularRelation denied it.
LEMMA ReplacementKeepsAcyclic ==
  ASSUME NEW g \in [Views -> SUBSET Views], Acyclic(g),
         NEW v \in Views, NEW T \in SUBSET Views,
         ~IsCircularRelation(g, v, T)
  PROVE  Acyclic([g EXCEPT ![v] = T])
<1> DEFINE h == [g EXCEPT ![v] = T]
           Below == UNION {ReferencedNodes(g, s) : s \in T}
<1>1. h \in [Views -> SUBSET Views] /\ h[v] = T /\ \A u \in Views \ {v} : h[u] = g[u]
  OBVIOUS
<1>2. v \notin Below
  BY DEF IsCircularRelation
<1>3. ASSUME NEW S \in SUBSET Views, Closed(g, S), v \notin S
      PROVE  Closed(h, S)
  BY <1>1, <1>3 DEF Closed
<1>4. ASSUME NEW t \in Views, v \notin ReferencedNodes(g, t)
      PROVE  ReferencedNodes(h, t) \subseteq ReferencedNodes(g, t)
  <2>1. ReferencedNodes(g, t) \in SUBSET Views
    BY DEF ReferencedNodes
  <2>2. Closed(h, ReferencedNodes(g, t))
    BY <1>3, <1>4, <2>1, ReferencesClosed
  <2>3. QED
    BY <2>1, <2>2, ReferencesSelf, ReferencesLeast
<1>5. ASSUME NEW t \in Views
      PROVE  ReferencedNodes(h, t) \subseteq ReferencedNodes(g, t) \cup Below
  <2> DEFINE S == ReferencedNodes(g, t) \cup Below
  <2>1. S \in SUBSET Views
    BY DEF ReferencedNodes
  <2>2. T \subseteq Below
    BY ReferencesSelf
  <2>3. Closed(g, Below) /\ Closed(g, ReferencedNodes(g, t))
    BY ReferencesClosed DEF Closed
  <2>4. Closed(h, S)
    BY <1>1, <2>1, <2>2, <2>3 DEF Closed
  <2>5. t \in S
    BY ReferencesSelf
  <2> HIDE DEF S
  <2>6. ReferencedNodes(h, t) \subseteq S
    BY <2>1, <2>4, <2>5, ReferencesLeast
  <2>7. QED
    BY <2>6 DEF S
<1>6. ASSUME NEW u \in Views, NEW t \in h[u], u \in ReferencedNodes(h, t)
      PROVE  FALSE
  <2>0. t \in Views
    BY <1>1
  <2>1. CASE u = v
    <3>1. t \in T /\ v \notin ReferencedNodes(g, t)
      BY <1>1, <2>1 DEF IsCircularRelation
    <3>2. QED
      BY <1>4, <1>6, <2>0, <2>1, <3>1
  <2>2. CASE u # v
    <3>1. t \in g[u] /\ u \notin ReferencedNodes(g, t)
      BY <1>1, <2>2 DEF Acyclic, IsCircularRelation
    <3>2. v \in ReferencedNodes(g, t)
      BY <1>4, <1>6, <2>0, <3>1
    <3>3. PICK s \in T : u \in ReferencedNodes(g, s)
      BY <1>5, <1>6, <2>0, <3>1
    <3>4. t \in ReferencedNodes(g, s)
      BY <3>1, <3>3, ReferencesClosed DEF Closed
    <3>5. v \in ReferencedNodes(g, s)
      BY <3>2, <3>3, <3>4, ReferencesTransitive
    <3>6. QED
      BY <3>3, <3>5 DEF IsCircularRelation
  <2>3. QED
    BY <2>1, <2>2
<1>7. QED
  BY <1>1, <1>6 DEF Acyclic, IsCircularRelation

-----------------------------------------------------------------------------
\* The anchored views are themselves a grounding: the least one.
LEMMA AnchoredIsGrounding ==
  ASSUME NEW g \in [Views -> SUBSET Views]
  PROVE  Grounding(g, {w \in Views : IsAnchored(g, w)})
<1>1. Root \in Views
  BY NumViewsAssumption DEF Root, Views
<1>2. IsAnchored(g, Root)
  BY DEF IsAnchored, Grounding
<1>3. ASSUME NEW w \in Views, g[w] # {},
             g[w] \subseteq {x \in Views : IsAnchored(g, x)}
      PROVE  IsAnchored(g, w)
  <2>1. ASSUME NEW A \in SUBSET Views, Grounding(g, A)
        PROVE  w \in A
    <3>1. g[w] \subseteq A
      BY <1>3, <2>1 DEF IsAnchored
    <3>2. QED
      BY <1>3, <2>1, <3>1 DEF Grounding
  <2>2. QED
    BY <2>1 DEF IsAnchored
<1>4. QED
  BY <1>1, <1>2, <1>3 DEF Grounding

\* Conversely an anchored view has targets, all of them anchored.
LEMMA AnchoredInversion ==
  ASSUME NEW g \in [Views -> SUBSET Views], NEW v \in Views,
         v # Root, IsAnchored(g, v)
  PROVE  g[v] # {} /\ IsAnchoredWithAttr(g, g[v])
<1> DEFINE A == {w \in Views : IsAnchored(g, w)}
           B == A \ {v}
<1>1. Grounding(g, A)
  BY AnchoredIsGrounding
<1>2. SUFFICES ASSUME ~(g[v] # {} /\ IsAnchoredWithAttr(g, g[v]))
               PROVE  FALSE
  OBVIOUS
<1>3. ~(g[v] # {} /\ g[v] \subseteq A)
  BY <1>2 DEF IsAnchoredWithAttr
<1>4. Grounding(g, B)
  BY <1>1, <1>3 DEF Grounding
<1>5. B \in SUBSET Views /\ v \notin B
  OBVIOUS
<1>6. QED
  BY <1>4, <1>5 DEF IsAnchored

\* Replacing the targets of a view that is not anchored loosens no other view.
LEMMA ReplacementKeepsAnchored ==
  ASSUME NEW g \in [Views -> SUBSET Views], NEW v \in Views,
         NEW T \in SUBSET Views, ~IsAnchored(g, v),
         NEW u \in Views, IsAnchored(g, u)
  PROVE  IsAnchored([g EXCEPT ![v] = T], u)
<1> DEFINE h == [g EXCEPT ![v] = T]
<1>1. h \in [Views -> SUBSET Views] /\ \A w \in Views \ {v} : h[w] = g[w]
  OBVIOUS
<1> HIDE DEF h
<1> SUFFICES ASSUME NEW A \in SUBSET Views, Grounding(h, A)
             PROVE  u \in A
  BY DEF IsAnchored, h
<1> DEFINE B == A \cup {w \in Views : ~IsAnchored(g, w)}
<1>2. ASSUME NEW w \in Views, g[w] # {}, g[w] \subseteq B, w \notin B
      PROVE  FALSE
  <2>1. IsAnchored(g, w) /\ w # v /\ w \notin A
    BY <1>2
  <2>2. w # Root
    BY <2>1 DEF Grounding
  <2>3. IsAnchoredWithAttr(g, g[w])
    BY <2>1, <2>2, AnchoredInversion
  <2>4. g[w] \subseteq A
    BY <1>2, <2>3 DEF IsAnchoredWithAttr
  <2>5. h[w] # {} /\ h[w] \subseteq A
    BY <1>1, <1>2, <2>1, <2>4
  <2>6. QED
    BY <2>1, <2>5 DEF Grounding
<1>3. Grounding(g, B)
  BY <1>2 DEF Grounding
<1>4. B \in SUBSET Views
  OBVIOUS
<1>5. u \in B
  BY <1>3, <1>4 DEF IsAnchored
<1>6. QED
  BY <1>5

\* A view without targets is not anchored.
LEMMA UnattachedNotAnchored ==
  ASSUME NEW g \in [Views -> SUBSET Views], NEW v \in Views,
         v # Root, g[v] = {}
  PROVE  ~IsAnchored(g, v)
BY AnchoredInversion

\* Giving a view anchored targets anchors it.
LEMMA AnchoredTargetsAnchor ==
  ASSUME NEW g \in [Views -> SUBSET Views], NEW v \in Views,
         NEW T \in SUBSET Views, T # {},
         ~IsAnchored(g, v), IsAnchoredWithAttr(g, T)
  PROVE  IsAnchored([g EXCEPT ![v] = T], v)
<1> DEFINE h == [g EXCEPT ![v] = T]
<1>1. h \in [Views -> SUBSET Views] /\ h[v] = T
  OBVIOUS
<1>2. \A t \in T : IsAnchored(h, t)
  BY ReplacementKeepsAnchored DEF IsAnchoredWithAttr
<1>3. Grounding(h, {w \in Views : IsAnchored(h, w)})
  BY <1>1, AnchoredIsGrounding
<1> HIDE DEF h
<1>4. QED
  BY <1>1, <1>2, <1>3 DEF Grounding, h

-----------------------------------------------------------------------------
\* Every non-empty set of naturals has a least element.
LEMMA LeastNatural ==
  ASSUME NEW T \in SUBSET Nat, T # {}
  PROVE  \E x \in T : \A y \in T : x <= y
<1>1. PICK x \in T : \A y \in T : <<y, x>> \notin OpToRel(<, Nat)
  BY NatLessThanWellFounded, WFMin, Zenon
<1>2. \A y \in T : ~(y < x)
  BY <1>1 DEF OpToRel
<1>3. QED
  BY <1>2

\* The candidate at the head of a list is an attribute of the list's view.
LEMMA HeadIsAttribute ==
  ASSUME TypeOK, NEW v \in SynViews, ~Exhausted(v)
  PROVE  /\ top[v] \in 1 .. Len(candidates[v])
         /\ Head1(v) \in Attributes
         /\ v \notin Targets(Head1(v))
<1>1. candidates[v] \in Seq(Attributes) /\ top[v] \in Nat \ {0}
  BY DEF TypeOK, IsCache
<1>2. Len(candidates[v]) \in Nat
  BY <1>1
<1>3. top[v] \in 1 .. Len(candidates[v])
  BY <1>1, <1>2 DEF Exhausted
<1>4. candidates[v][top[v]] \in Attributes
  BY <1>1, <1>3
<1>5. v \notin Targets(candidates[v][top[v]])
  BY <1>3 DEF TypeOK, IsCache
<1>6. QED
  BY <1>3, <1>4, <1>5 DEF Head1

\* The iterator always has a list to stand on.
LEMMA CurrentIsNext ==
  ASSUME TypeOK
  PROVE  Current \in SynViews /\ IsNext(Current)
<1> SUFFICES \E v \in SynViews : IsNext(v)
  BY DEF Current
<1>0. 1 \in SynViews /\ SynViews \subseteq Nat
  BY NumViewsAssumption DEF SynViews
<1>1. CASE \A w \in SynViews : Exhausted(w)
  BY <1>0, <1>1 DEF IsNext
<1>2. CASE ~ \A w \in SynViews : Exhausted(w)
  <2> DEFINE L == {w \in SynViews : ~Exhausted(w)}
             D(w) == MaxProb - Head1(w).prob
  <2>1. \A w \in L : Head1(w).prob \in 0 .. MaxProb
    BY HeadIsAttribute DEF Attributes
  <2>2. \A w \in L : D(w) \in Nat
    BY <2>1, MaxProbAssumption
  <2> DEFINE S == {D(w) : w \in L}
  <2>3. S \in SUBSET Nat /\ S # {}
    BY <1>2, <2>2
  <2> HIDE DEF S
  <2>4. PICK m \in S : \A y \in S : m <= y
    BY <2>3, LeastNatural
  <2> DEFINE M == {w \in L : D(w) = m}
  <2>5. M \in SUBSET Nat /\ M # {}
    BY <1>0, <2>4 DEF S
  <2> HIDE DEF M
  <2>6. PICK v \in M : \A y \in M : v <= y
    BY <2>5, LeastNatural
  <2>7. v \in L /\ D(v) = m /\ v \in Nat
    BY <2>5, <2>6 DEF M
  <2>8. ASSUME NEW w \in L
        PROVE  IF w < v THEN Head1(w).prob < Head1(v).prob
                        ELSE Head1(w).prob <= Head1(v).prob
    <3>1. m <= D(w) /\ w \in Nat
      BY <1>0, <2>4 DEF S
    <3>2. w < v => D(w) # m
      BY <2>6, <2>7, <3>1 DEF M
    <3>3. Head1(v).prob \in Int /\ Head1(w).prob \in Int /\ MaxProb \in Int
      BY <2>1, <2>7, MaxProbAssumption
    <3> HIDE DEF L
    <3>4. QED
      BY <2>7, <3>1, <3>2, <3>3
  <2>9. IsNext(v)
    BY <1>2, <2>7, <2>8 DEF IsNext
  <2>10. QED
    BY <2>7, <2>9
<1>3. QED
  BY <1>1, <1>2

\* The end test holds exactly when all lists are used up.
LEMMA EndExhausted ==
  ASSUME TypeOK
  PROVE  EndMeansExhausted
<1>0. 1 \in SynViews
  BY NumViewsAssumption DEF SynViews
<1>1. Current \in SynViews /\ IsNext(Current)
  BY CurrentIsNext
<1>2. Len(candidates[1]) \in Nat /\ top[1] \in Nat /\ top[1] <= Len(candidates[1]) + 1
  BY <1>0 DEF TypeOK, IsCache
<1>3. ASSUME AtEnd PROVE \A v \in SynViews : Exhausted(v)
  BY <1>1, <1>2, <1>3 DEF AtEnd, IsNext, Exhausted
<1>4. ASSUME \A v \in SynViews : Exhausted(v) PROVE AtEnd
  <2>1. Current = 1
    BY <1>1, <1>4 DEF IsNext
  <2>2. top[1] > Len(candidates[1])
    BY <1>0, <1>4 DEF Exhausted
  <2>3. QED
    BY <1>2, <2>1, <2>2 DEF AtEnd
<1>5. QED
  BY <1>3, <1>4 DEF EndMeansExhausted

-----------------------------------------------------------------------------
\* The attributes of the views form a view graph.
LEMMA RefsIsGraph ==
  ASSUME TypeOK
  PROVE  /\ Refs \in [Views -> SUBSET Views]
         /\ Refs \in Graphs
         /\ \A v \in SynViews : v \in Views /\ v # Root /\ Refs[v] = Targets(attributes[v])
         /\ \A v \in SynViews : HasAttribute(v) <=> Refs[v] # {}
<1>1. SynViews = Views \ {Root} /\ Root \in Views /\ NoView \notin Views
  BY NumViewsAssumption DEF SynViews, Views, Root, NoView
<1>2. \A a \in Attributes : Targets(a) \subseteq Views /\ Targets(a) # {} /\ a # NoAttribute
  BY <1>1 DEF Attributes, Targets, NoAttribute
<1>3. Targets(NoAttribute) = {}
  BY DEF Targets, NoAttribute
<1>4. \A v \in SynViews : attributes[v] \in Attributes \/ attributes[v] = NoAttribute
  BY DEF TypeOK
<1>5. Refs = [v \in Views |-> IF v = Root THEN {} ELSE Targets(attributes[v])]
  BY DEF Refs, RefsOf
<1>6. \A v \in Views : Refs[v] \in SUBSET Views
  BY <1>1, <1>2, <1>3, <1>4, <1>5
<1>7. Refs \in [Views -> SUBSET Views]
  BY <1>5, <1>6
<1>8. \A v \in SynViews : Refs[v] = Targets(attributes[v])
  BY <1>1, <1>5
<1>9. Refs[Root] = {}
  BY <1>1, <1>5
<1>10. QED
  BY <1>1, <1>2, <1>3, <1>4, <1>7, <1>8, <1>9 DEF Graphs, HasAttribute

\* ApplyAttribute replaces the targets of one view in that graph.
LEMMA ApplyingReplaces ==
  ASSUME TypeOK, NEW v \in SynViews, NEW a \in Attributes
  PROVE  /\ RefsOf([attributes EXCEPT ![v] = a]) = [Refs EXCEPT ![v] = Targets(a)]
         /\ Targets(a) \in SUBSET Views
         /\ Targets(a) # {}
<1>1. v \in Views /\ v # Root /\ SynViews = Views \ {Root} /\ NoView \notin Views
  BY NumViewsAssumption DEF SynViews, Views, Root, NoView
<1>2. Targets(a) \in SUBSET Views /\ Targets(a) # {}
  BY <1>1 DEF Attributes, Targets
<1>3. attributes \in [SynViews -> Attributes \cup {NoAttribute}]
  BY DEF TypeOK
<1>4. QED
  BY <1>1, <1>2, <1>3 DEF Refs, RefsOf

\* The current candidate, and the graph it would give, in one place.
LEMMA CurrentCandidate ==
  ASSUME IInv, ~AtEnd
  PROVE  /\ Current \in SynViews
         /\ ~Exhausted(Current)
         /\ top[Current] \in 1 .. Len(candidates[Current])
         /\ Head1(Current) \in Attributes
<1>1. Current \in SynViews /\ IsNext(Current)
  BY CurrentIsNext DEF IInv
<1>2. EndMeansExhausted
  BY EndExhausted DEF IInv
<1>3. ~Exhausted(Current)
  BY <1>1, <1>2 DEF EndMeansExhausted, IsNext
<1>4. QED
  BY <1>1, <1>3, HeadIsAttribute DEF IInv

\* ShouldApplyConstraint never accepts an attribute for an anchored view, and
\* replaces an attribute only by one with anchored targets.
LEMMA AppliedOnlyToLoose ==
  ASSUME IInv, ~AtEnd, ShouldApplyConstraint(Current, Head1(Current))
  PROVE  /\ ~IsAnchored(Refs, Current)
         /\ HasAttribute(Current) =>
              IsAnchoredWithAttr(Refs, Targets(Head1(Current)))
<1> DEFINE v == Current
<1>1. v \in SynViews /\ top[v] \in 1 .. Len(candidates[v]) /\ Head1(v) \in Attributes
  BY CurrentCandidate
<1>2. CASE ~HasAttribute(v)
  BY <1>1, <1>2, RefsIsGraph, UnattachedNotAnchored DEF IInv
<1>3. CASE HasAttribute(v)
  <2>1. attributes[v] \in Attributes
    BY <1>1, <1>3 DEF IInv, TypeOK, HasAttribute
  <2>2. Head1(v).prob <= attributes[v].prob
    BY <1>1, <1>3 DEF IInv, ChosenBeatsRest, Head1
  <2>3. ~(Head1(v).prob > attributes[v].prob)
    BY <1>1, <2>1, <2>2, MaxProbAssumption DEF Attributes
  <2>4. QED
    BY <1>3, <2>3 DEF ShouldApplyConstraint
<1>4. QED
  BY <1>2, <1>3

-----------------------------------------------------------------------------
\* The constructor of the iterator and the views without attributes establish it.
LEMMA InitInvariant == Init => IInv
<1> SUFFICES ASSUME Init PROVE IInv
  OBVIOUS
<1>1. TypeOK
  <2>1. DOMAIN candidates = SynViews /\ IsCache(candidates)
    BY CachesAssumption DEF Init
  <2>2. \A v \in SynViews : Len(candidates[v]) \in Nat
    BY <2>1 DEF IsCache
  <2>3. QED
    BY <2>1, <2>2 DEF Init, TypeOK
<1>2. Refs = [v \in Views |-> {}]
  <2>1. SynViews = Views \ {Root}
    BY NumViewsAssumption DEF SynViews, Views, Root
  <2>2. Targets(NoAttribute) = {}
    BY DEF Targets, NoAttribute
  <2>3. QED
    BY <2>1, <2>2 DEF Init, Refs, RefsOf
<1>3. ReferencesAcyclic
  BY <1>2 DEF ReferencesAcyclic, Acyclic, IsCircularRelation
<1>4. ChosenBeatsRest
  BY DEF Init, ChosenBeatsRest, HasAttribute
<1>5. RootCandidatesDone
  BY DEF Init, RootCandidatesDone
<1>6. QED
  BY <1>1, <1>3, <1>4, <1>5 DEF IInv

\* Passing over a candidate keeps the invariant: one that is relative to the
\* content frame is only passed over when its view is anchored.
LEMMA SkipKeepsInvariant ==
  ASSUME IInv, SkipCandidate
  PROVE  IInv'
<1> DEFINE v == Current
           a == Head1(v)
<1>1. /\ ~AtEnd
      /\ ~ShouldApplyConstraint(v, a)
      /\ top' = [top EXCEPT ![v] = @ + 1]
      /\ candidates' = candidates
      /\ attributes' = attributes
  BY DEF SkipCandidate
<1>2. v \in SynViews /\ top[v] \in 1 .. Len(candidates[v]) /\ a \in Attributes
  BY <1>1, CurrentCandidate
<1>3. TypeOK /\ top \in [SynViews -> Nat \ {0}]
  BY DEF IInv, TypeOK
<1>4. \A w \in SynViews : Len(candidates[w]) \in Nat
  BY DEF IInv, TypeOK, IsCache
<1>5. Refs' = Refs /\ \A w \in SynViews : HasAttribute(w)' <=> HasAttribute(w)
  BY <1>1 DEF Refs, RefsOf, HasAttribute
<1> HIDE DEF v, a
<1>6. \A w \in SynViews : top'[w] = IF w = v THEN top[w] + 1 ELSE top[w]
  BY <1>1, <1>2, <1>3
<1>7. TypeOK'
  <2>1. top' \in [SynViews -> Nat \ {0}]
    BY <1>1, <1>2, <1>3
  <2>2. \A w \in SynViews : top'[w] <= Len(candidates[w]) + 1
    BY <1>2, <1>3, <1>4, <1>6 DEF TypeOK
  <2>3. QED
    BY <1>1, <1>3, <2>1, <2>2 DEF TypeOK, IsCache
<1>8. ReferencesAcyclic'
  BY <1>5 DEF IInv, ReferencesAcyclic
<1>9. ChosenBeatsRest'
  <2> SUFFICES ASSUME NEW w \in SynViews, HasAttribute(w)',
                      NEW i \in top'[w] .. Len(candidates[w])
               PROVE  candidates[w][i].prob <= attributes[w].prob
    BY <1>1 DEF ChosenBeatsRest
  <2>1. i \in top[w] .. Len(candidates[w])
    BY <1>3, <1>4, <1>6
  <2>2. QED
    BY <1>5, <2>1 DEF IInv, ChosenBeatsRest
<1>10. RootCandidatesDone'
  <2> SUFFICES ASSUME NEW w \in SynViews, NEW i \in 1 .. Len(candidates[w]),
                      i < top'[w], Targets(candidates[w][i]) = {Root}
               PROVE  IsAnchored(Refs, w)
    BY <1>1, <1>5 DEF RootCandidatesDone
  <2>1. CASE i < top[w]
    BY <2>1 DEF IInv, RootCandidatesDone
  <2>2. CASE ~(i < top[w])
    <3>1. w = v /\ i = top[w]
      BY <1>3, <1>6, <2>2
    <3>2. Targets(a) = {Root}
      BY <3>1 DEF a, v, Head1
    <3>3. Root \in Views /\ v # Root
      BY <1>2, NumViewsAssumption DEF Views, SynViews, Root
    <3>4. ~IsCircularRelation(Refs, v, Targets(a))
      BY <1>3, <3>2, <3>3, RefsIsGraph, RootReferencesOnlyItself DEF IsCircularRelation
    <3>5. IsAnchoredWithAttr(Refs, Targets(a))
      BY <3>2 DEF IsAnchoredWithAttr, IsAnchored, Grounding
    <3>6. IsAnchored(Refs, v)
      BY <1>1, <3>4, <3>5 DEF ShouldApplyConstraint, v, a
    <3>7. QED
      BY <3>1, <3>6
  <2>3. QED
    BY <2>1, <2>2
<1>11. QED
  BY <1>7, <1>8, <1>9, <1>10 DEF IInv

\* What ApplyCandidate does to the graph.
LEMMA ApplyEffect ==
  ASSUME IInv, ApplyCandidate
  PROVE  /\ RefsOf(attributes') = [Refs EXCEPT ![Current] = Targets(Head1(Current))]
         /\ Refs' = RefsOf(attributes')
         /\ \A w \in SynViews : IsAnchored(Refs, w) => IsAnchored(Refs', w)
         /\ IsAnchoredWithAttr(Refs, Targets(Head1(Current))) =>
              IsAnchored(Refs', Current)
<1> DEFINE v == Current
           a == Head1(v)
<1>1. ~AtEnd /\ ShouldApplyConstraint(v, a) /\ attributes' = [attributes EXCEPT ![v] = a]
  BY DEF ApplyCandidate
<1>2. v \in SynViews /\ a \in Attributes
  BY <1>1, CurrentCandidate
<1>3. TypeOK
  BY DEF IInv
<1>4. ~IsAnchored(Refs, v)
  BY <1>1, AppliedOnlyToLoose
<1>5. Refs' = RefsOf(attributes')
  BY DEF Refs
<1>6. /\ RefsOf(attributes') = [Refs EXCEPT ![v] = Targets(a)]
      /\ Targets(a) \in SUBSET Views /\ Targets(a) # {}
  BY <1>1, <1>2, <1>3, ApplyingReplaces
<1>7. Refs \in [Views -> SUBSET Views] /\ v \in Views /\ \A w \in SynViews : w \in Views
  BY <1>2, <1>3, RefsIsGraph
<1> HIDE DEF v, a
<1>8. \A w \in SynViews : IsAnchored(Refs, w) => IsAnchored(Refs', w)
  <2> SUFFICES ASSUME NEW w \in SynViews, IsAnchored(Refs, w)
               PROVE  IsAnchored(Refs', w)
    OBVIOUS
  <2>1. w \in Views
    BY <1>7
  <2>2. IsAnchored([Refs EXCEPT ![v] = Targets(a)], w)
    BY <1>4, <1>6, <1>7, <2>1, ReplacementKeepsAnchored
  <2>3. QED
    BY <1>5, <1>6, <2>2
<1>9. IsAnchoredWithAttr(Refs, Targets(a)) => IsAnchored(Refs', v)
  BY <1>4, <1>5, <1>6, <1>7, AnchoredTargetsAnchor
<1>10. QED
  BY <1>5, <1>6, <1>8, <1>9 DEF v, a

\* Applying a candidate keeps the invariant.
LEMMA ApplyKeepsInvariant ==
  ASSUME IInv, ApplyCandidate
  PROVE  IInv'
<1> DEFINE v == Current
           a == Head1(v)
           end == IF IsAnchored(RefsOf(attributes'), v)
                  THEN Len(candidates[v]) + 1
                  ELSE top[v] + 1
<1>1. /\ ~AtEnd
      /\ ShouldApplyConstraint(v, a)
      /\ attributes' = [attributes EXCEPT ![v] = a]
      /\ top' = [top EXCEPT ![v] = end]
      /\ candidates' = candidates
  BY DEF ApplyCandidate
<1>2. v \in SynViews /\ top[v] \in 1 .. Len(candidates[v]) /\ a \in Attributes
  BY <1>1, CurrentCandidate
<1>3. TypeOK /\ top \in [SynViews -> Nat \ {0}]
  BY DEF IInv, TypeOK
<1>4. \A w \in SynViews : Len(candidates[w]) \in Nat
  BY DEF IInv, TypeOK, IsCache
<1>5. /\ Refs' = [Refs EXCEPT ![v] = Targets(a)]
      /\ Refs' = RefsOf(attributes')
      /\ \A w \in SynViews : IsAnchored(Refs, w) => IsAnchored(Refs', w)
      /\ IsAnchoredWithAttr(Refs, Targets(a)) => IsAnchored(Refs', v)
  BY ApplyEffect
<1>6. ~IsAnchored(Refs, v)
  BY <1>1, AppliedOnlyToLoose
<1>7. a = candidates[v][top[v]]
  BY DEF Head1
<1>8. ~IsCircularRelation(Refs, v, Targets(a))
  BY <1>1 DEF ShouldApplyConstraint
<1> HIDE DEF v, a
<1>9. end \in {Len(candidates[v]) + 1, top[v] + 1}
      /\ (end # top[v] + 1 => IsAnchored(Refs', v))
  BY <1>5
<1> HIDE DEF end
<1>10. \A w \in SynViews : top'[w] = IF w = v THEN end ELSE top[w]
  BY <1>1, <1>2, <1>3
<1>11. \A w \in SynViews : attributes'[w] = IF w = v THEN a ELSE attributes[w]
  BY <1>1, <1>2, <1>3 DEF TypeOK
<1>12. TypeOK'
  <2>1. end \in Nat \ {0} /\ end <= Len(candidates[v]) + 1
    BY <1>2, <1>4, <1>9
  <2>2. top' \in [SynViews -> Nat \ {0}]
    BY <1>1, <1>3, <2>1
  <2>3. \A w \in SynViews : top'[w] <= Len(candidates[w]) + 1
    BY <1>3, <1>10, <2>1 DEF TypeOK
  <2>4. attributes' \in [SynViews -> Attributes \cup {NoAttribute}]
    BY <1>1, <1>2, <1>3 DEF TypeOK
  <2>5. QED
    BY <1>1, <1>3, <2>2, <2>3, <2>4 DEF TypeOK, IsCache
<1>13. ReferencesAcyclic'
  <2>1. Refs \in [Views -> SUBSET Views] /\ v \in Views
    BY <1>2, <1>3, RefsIsGraph
  <2>2. Targets(a) \in SUBSET Views
    BY <1>2, <1>3, ApplyingReplaces
  <2>3. Acyclic(Refs)
    BY DEF IInv, ReferencesAcyclic
  <2>4. Acyclic([Refs EXCEPT ![v] = Targets(a)])
    BY <1>8, <2>1, <2>2, <2>3, ReplacementKeepsAcyclic
  <2>5. QED
    BY <1>5, <2>4 DEF ReferencesAcyclic
<1>14. ChosenBeatsRest'
  <2> SUFFICES ASSUME NEW w \in SynViews, HasAttribute(w)',
                      NEW i \in top'[w] .. Len(candidates[w])
               PROVE  candidates[w][i].prob <= attributes'[w].prob
    BY <1>1 DEF ChosenBeatsRest
  <2>1. CASE w = v
    <3>1. i \in 1 .. Len(candidates[v]) /\ top[v] < i
      BY <1>2, <1>3, <1>4, <1>9, <1>10, <2>1
    <3>2. IsCache(candidates)
      BY <1>3 DEF TypeOK
    <3>3. candidates[v][top[v]].prob >= candidates[v][i].prob
      BY <1>2, <3>1, <3>2 DEF IsCache
    <3>4. candidates[v][i] \in Attributes
      BY <1>2, <3>1, <3>2 DEF IsCache
    <3>5. candidates[v][i].prob \in Int /\ a.prob \in Int
      BY <1>2, <3>4, MaxProbAssumption DEF Attributes
    <3>6. QED
      BY <1>7, <1>11, <2>1, <3>3, <3>5
  <2>2. CASE w # v
    BY <1>10, <1>11, <2>2 DEF IInv, ChosenBeatsRest, HasAttribute
  <2>3. QED
    BY <2>1, <2>2
<1>15. RootCandidatesDone'
  <2> SUFFICES ASSUME NEW w \in SynViews, NEW i \in 1 .. Len(candidates[w]),
                      i < top'[w], Targets(candidates[w][i]) = {Root}
               PROVE  IsAnchored(Refs', w)
    BY <1>1 DEF RootCandidatesDone
  <2>1. CASE w # v \/ i < top[w]
    BY <1>5, <1>10, <2>1 DEF IInv, RootCandidatesDone
  <2>2. CASE w = v /\ ~(i < top[w])
    <3>1. CASE end # top[v] + 1
      BY <1>9, <2>2, <3>1
    <3>2. CASE end = top[v] + 1
      <4>1. i = top[v]
        BY <1>2, <1>3, <1>10, <2>2, <3>2
      <4>2. Targets(a) = {Root}
        BY <1>7, <2>2, <4>1
      <4>3. IsAnchoredWithAttr(Refs, Targets(a))
        BY <4>2 DEF IsAnchoredWithAttr, IsAnchored, Grounding
      <4>4. QED
        BY <1>5, <2>2, <4>3
    <3>3. QED
      BY <3>1, <3>2
  <2>3. QED
    BY <2>1, <2>2
<1>16. QED
  BY <1>12, <1>13, <1>14, <1>15 DEF IInv

-----------------------------------------------------------------------------
\* The invariant depends on the variables alone.
LEMMA StutterKeepsInvariant ==
  ASSUME IInv, UNCHANGED vars
  PROVE  IInv'
BY DEF vars, IInv, TypeOK, IsCache, ReferencesAcyclic, ChosenBeatsRest,
       RootCandidatesDone, Refs, RefsOf, HasAttribute

\* The invariant holds in every reachable state.
THEOREM Invariance == Spec => []IInv
<1>1. IInv /\ [Next]_vars => IInv'
  <2> SUFFICES ASSUME IInv, [Next]_vars PROVE IInv'
    OBVIOUS
  <2>1. CASE SkipCandidate
    BY <2>1, SkipKeepsInvariant
  <2>2. CASE ApplyCandidate
    BY <2>2, ApplyKeepsInvariant
  <2>3. CASE Terminated
    BY <2>3, StutterKeepsInvariant DEF Terminated
  <2>4. CASE UNCHANGED vars
    BY <2>4, StutterKeepsInvariant
  <2>5. QED
    BY <2>1, <2>2, <2>3, <2>4 DEF Next
<1>2. QED
  BY <1>1, InitInvariant, PTL DEF Spec

\* The types of the synthesis state hold throughout.
THEOREM TypeCorrectness == Spec => []TypeOK
<1>1. IInv => TypeOK
  BY DEF IInv
<1>2. QED
  BY <1>1, Invariance, PTL

\* No view ever refers to itself through its targets, whatever attributes
\* ShouldApplyConstraint accepts and replaces.
THEOREM AcyclicReferences == Spec => []ReferencesAcyclic
<1>1. IInv => ReferencesAcyclic
  BY DEF IInv
<1>2. QED
  BY <1>1, Invariance, PTL

\* The end test of the iterator, which looks at the first list only, holds
\* exactly when the candidates of all views are used up.
THEOREM EndIsExhaustion == Spec => []EndMeansExhausted
<1>1. IInv => EndMeansExhausted
  BY EndExhausted DEF IInv
<1>2. QED
  BY <1>1, Invariance, PTL

\* Synthesize ends with every view that had a content-frame candidate anchored.
THEOREM EndsAnchored == Spec => []AnchoredAtEnd
<1>1. ASSUME IInv, AtEnd, NEW v \in SynViews, RootCandidate(v)
      PROVE  IsAnchored(Refs, v)
  <2>1. Exhausted(v)
    BY <1>1, EndExhausted DEF IInv, EndMeansExhausted
  <2>2. PICK i \in 1 .. Len(candidates[v]) : Targets(candidates[v][i]) = {Root}
    BY <1>1 DEF RootCandidate
  <2>3. top[v] \in Nat /\ Len(candidates[v]) \in Nat
    BY <1>1 DEF IInv, TypeOK, IsCache
  <2>4. i < top[v]
    BY <2>1, <2>3 DEF Exhausted
  <2>5. QED
    BY <1>1, <2>2, <2>4 DEF IInv, RootCandidatesDone
<1>2. IInv => AnchoredAtEnd
  BY <1>1 DEF AnchoredAtEnd
<1>3. QED
  BY <1>2, Invariance, PTL

\* Anchored views keep their attribute and stay anchored.
THEOREM AnchoredStaysAnchored == Spec => AnchoredForGood
<1> DEFINE Kept == \A v \in SynViews : IsAnchored(Refs, v) =>
              /\ attributes'[v] = attributes[v]
              /\ IsAnchored(RefsOf(attributes'), v)
<1>1. ASSUME IInv, ApplyCandidate, NEW v \in SynViews, IsAnchored(Refs, v)
      PROVE  attributes'[v] = attributes[v] /\ IsAnchored(RefsOf(attributes'), v)
  <2>1. Current \in SynViews /\ ~IsAnchored(Refs, Current)
    BY <1>1, CurrentCandidate, AppliedOnlyToLoose DEF ApplyCandidate
  <2>2. attributes'[v] = attributes[v]
    BY <1>1, <2>1 DEF ApplyCandidate, IInv, TypeOK
  <2>3. QED
    BY <1>1, <2>2, ApplyEffect
<1>2. ASSUME attributes' = attributes, NEW v \in SynViews, IsAnchored(Refs, v)
      PROVE  attributes'[v] = attributes[v] /\ IsAnchored(RefsOf(attributes'), v)
  BY <1>2 DEF Refs
<1>3. IInv /\ [Next]_vars => Kept
  <2> SUFFICES ASSUME IInv, [Next]_vars, NEW v \in SynViews, IsAnchored(Refs, v)
               PROVE  attributes'[v] = attributes[v] /\ IsAnchored(RefsOf(attributes'), v)
    OBVIOUS
  <2>1. CASE ApplyCandidate
    BY <1>1, <2>1
  <2>2. CASE SkipCandidate \/ Terminated \/ UNCHANGED vars
    <3>1. attributes' = attributes
      BY <2>2 DEF SkipCandidate, Terminated, vars
    <3>2. QED
      BY <1>2, <3>1
  <2>3. QED
    BY <2>1, <2>2 DEF Next
<1> HIDE DEF Kept
<1>4. Spec => [][Kept]_vars
  BY <1>3, Invariance, PTL DEF Spec
<1>5. QED
  BY <1>4 DEF AnchoredForGood, Kept

\* An attribute is replaced only by one that anchors its view.
THEOREM ReplacementAnchors == Spec => ReplacedOnlyToAnchor
<1> DEFINE Anchoring == \A v \in SynViews :
              HasAttribute(v) /\ attributes'[v] # attributes[v] =>
                IsAnchored(RefsOf(attributes'), v)
<1>1. ASSUME IInv, ApplyCandidate, NEW v \in SynViews,
             HasAttribute(v), attributes'[v] # attributes[v]
      PROVE  IsAnchored(RefsOf(attributes'), v)
  <2>1. v = Current
    BY <1>1, CurrentCandidate DEF ApplyCandidate, IInv, TypeOK
  <2>2. IsAnchoredWithAttr(Refs, Targets(Head1(Current)))
    BY <1>1, <2>1, AppliedOnlyToLoose DEF ApplyCandidate
  <2>3. QED
    BY <1>1, <2>1, <2>2, ApplyEffect
<1>2. IInv /\ [Next]_vars => Anchoring
  BY <1>1 DEF Next, SkipCandidate, Terminated, vars
<1> HIDE DEF Anchoring
<1>3. Spec => [][Anchoring]_vars
  BY <1>2, Invariance, PTL DEF Spec
<1>4. QED
  BY <1>3 DEF ReplacedOnlyToAnchor, Anchoring

-----------------------------------------------------------------------------
\* The candidate the iterator stands on is the most probable of all heads.
LEMMA CurrentIsMostProbable ==
  ASSUME TypeOK, ~AtEnd
  PROVE  /\ Current \in SynViews /\ ~Exhausted(Current)
         /\ \A w \in SynViews : ~Exhausted(w) => Head1(w).prob <= Head1(Current).prob
<1>1. Current \in SynViews /\ IsNext(Current)
  BY CurrentIsNext
<1>2. ~ \A w \in SynViews : Exhausted(w)
  BY EndExhausted DEF EndMeansExhausted
<1>3. ~Exhausted(Current)
  BY <1>1, <1>2 DEF IsNext
<1>4. ASSUME NEW w \in SynViews, ~Exhausted(w)
      PROVE  Head1(w).prob <= Head1(Current).prob
  <2>1. Head1(w).prob \in Nat /\ Head1(Current).prob \in Nat
    BY <1>1, <1>3, <1>4, HeadIsAttribute, MaxProbAssumption DEF Attributes
  <2>2. Head1(w).prob < Head1(Current).prob \/ Head1(w).prob <= Head1(Current).prob
    BY <1>1, <1>2, <1>4 DEF IsNext
  <2>3. QED
    BY <2>1, <2>2
<1>5. QED
  BY <1>1, <1>3, <1>4

\* The iterator yields the candidates of all views by falling probability, also
\* across SetCurrentToEnd: it always stands on the most probable head, and the
\* heads only move on along sorted lists.
THEOREM MergeFalls == Spec => FallingProbability
<1> DEFINE Falls == ~AtEnd /\ ~AtEnd' => Head1(Current)'.prob <= Head1(Current).prob
           OnTop == TypeOK /\ ~AtEnd =>
             /\ Current \in SynViews /\ ~Exhausted(Current)
             /\ \A w \in SynViews : ~Exhausted(w) => Head1(w).prob <= Head1(Current).prob
<1>1. OnTop
  BY CurrentIsMostProbable
<1> HIDE DEF OnTop
<1>2. OnTop'
  BY <1>1, PTL
<1>3. ASSUME TypeOK, TypeOK', [Next]_vars, ~AtEnd, ~AtEnd'
      PROVE  Head1(Current)'.prob <= Head1(Current).prob
  <2> DEFINE w == Current'
  <2>1. w \in SynViews /\ ~(top'[w] > Len(candidates'[w]))
    BY <1>2, <1>3 DEF OnTop, Exhausted
  <2>2. candidates' = candidates
    BY <1>3 DEF Next, SkipCandidate, ApplyCandidate, Terminated, vars
  <2>3. /\ Len(candidates[w]) \in Nat /\ top[w] \in Nat \ {0}
        /\ top'[w] \in Nat \ {0}
    BY <1>3, <2>1 DEF TypeOK, IsCache
  <2>4. top[w] <= top'[w]
    <3>1. CASE SkipCandidate
      BY <2>1, <2>3, <3>1, <1>3 DEF SkipCandidate, TypeOK
    <3>2. CASE ApplyCandidate
      <4>1. top[w] <= Len(candidates[w])  + 1
        BY <1>3, <2>1 DEF TypeOK
      <4>2. top' = [top EXCEPT ![Current] =
               IF IsAnchored(RefsOf(attributes'), Current)
               THEN Len(candidates[Current]) + 1
               ELSE @ + 1]
        BY <3>2 DEF ApplyCandidate
      <4>3. top \in [SynViews -> Nat \ {0}]
        BY <1>3 DEF TypeOK
      <4>4. \/ top'[w] = top[w]
            \/ top'[w] = Len(candidates[w]) + 1
            \/ top'[w] = top[w] + 1
        BY <2>1, <4>2, <4>3
      <4>5. QED
        BY <2>3, <4>1, <4>4
    <3>3. CASE Terminated \/ UNCHANGED vars
      BY <2>3, <3>3 DEF Terminated, vars
    <3>4. QED
      BY <1>3, <3>1, <3>2, <3>3 DEF Next
  <2>5. top'[w] <= Len(candidates[w])
    BY <2>1, <2>2, <2>3
  <2>6. ~Exhausted(w)
    BY <2>3, <2>4, <2>5 DEF Exhausted
  <2>7. Head1(w).prob <= Head1(Current).prob
    BY <1>1, <1>3, <2>1, <2>6 DEF OnTop
  <2>8. Head1(Current)' = candidates[w][top'[w]]
    BY <2>2 DEF Head1
  <2>9. candidates[w][top'[w]].prob <= Head1(w).prob
    <3>1. Head1(w) = candidates[w][top[w]]
      BY DEF Head1
    <3>2. CASE top[w] = top'[w]
      <4>1. Head1(w).prob \in Nat
        BY <1>3, <2>1, <2>6, HeadIsAttribute, MaxProbAssumption DEF Attributes
      <4>2. QED
        BY <3>1, <3>2, <4>1
    <3>3. CASE top[w] < top'[w]
      <4>1. top[w] \in 1 .. Len(candidates[w]) /\ top'[w] \in 1 .. Len(candidates[w])
        BY <2>3, <2>4, <2>5
      <4>2. IsCache(candidates)
        BY <1>3 DEF TypeOK
      <4>3. candidates[w][top[w]].prob >= candidates[w][top'[w]].prob
        BY <2>1, <3>3, <4>1, <4>2 DEF IsCache
      <4>4. /\ candidates[w][top[w]].prob \in Nat
            /\ candidates[w][top'[w]].prob \in Nat
        <5>1. candidates[w] \in Seq(Attributes)
          BY <2>1, <4>2 DEF IsCache
        <5>2. candidates[w][top[w]] \in Attributes /\ candidates[w][top'[w]] \in Attributes
          BY <4>1, <5>1
        <5>3. QED
          BY <5>2, MaxProbAssumption DEF Attributes
      <4>5. QED
        BY <3>1, <4>3, <4>4
    <3>4. QED
      BY <2>3, <2>4, <3>2, <3>3
  <2>10. /\ Head1(w).prob \in Nat /\ Head1(Current).prob \in Nat
         /\ candidates[w][top'[w]].prob \in Nat
    <3>1. Current \in SynViews /\ ~Exhausted(Current)
      BY <1>1, <1>3 DEF OnTop
    <3>2. top'[w] \in 1 .. Len(candidates[w]) /\ IsCache(candidates)
      BY <1>3, <2>3, <2>5 DEF TypeOK
    <3>3. candidates[w][top'[w]] \in Attributes
      BY <2>1, <3>2 DEF IsCache
    <3>4. QED
      BY <1>3, <2>1, <2>6, <3>1, <3>3, HeadIsAttribute, MaxProbAssumption DEF Attributes
  <2>11. QED
    BY <2>7, <2>8, <2>9, <2>10
<1>4. TypeOK /\ TypeOK' /\ [Next]_vars => Falls
  BY <1>3
<1> HIDE DEF Falls
<1>5. Spec => [][Falls]_vars
  BY <1>4, TypeCorrectness, PTL DEF Spec
<1>6. QED
  BY <1>5 DEF FallingProbability, Falls

-----------------------------------------------------------------------------
\* The walks over the view graph as they are coded

\* What a view of the walks' graph holds.
WalkTypes ==
  /\ primary \in [Views -> Views \cup {NoView}]
  /\ secondary \in [Views -> Views \cup {NoView}]
  /\ primary[Root] = NoView /\ secondary[Root] = NoView
  /\ \A v \in Views : primary[v] = NoView => secondary[v] = NoView

\* What a call of ReferencedNodesInner for v leaves in the set of visited views.
VisitsAll(visited, v, seen) ==
  /\ visited \in SUBSET Views /\ seen \cup {v} \subseteq visited
  /\ \A x \in visited \ seen : HeldRefs[x] \subseteq visited
  /\ visited \subseteq seen \cup ReferencedNodes(HeldRefs, v)

\* What is left to visit then.
Unvisited(v, seen) == Views \ (seen \cup {v})

\* There are finitely many views.
LEMMA FiniteViews == IsFiniteSet(Views) /\ Cardinality(Views) \in Nat
<1>1. 0 \in Int /\ NumViews \in Int
  BY NumViewsAssumption
<1> QED
  BY <1>1, FS_Interval, FS_CardinalityType DEF Views

\* The attributes make a graph: every view refers to what it holds.
LEMMA HeldIsGraph ==
  ASSUME WalkTypes
  PROVE  /\ HeldRefs \in Graphs /\ HeldRefs \in [Views -> SUBSET Views]
         /\ \A v \in Views : HeldRefs[v] = {primary[v], secondary[v]} \ {NoView}
<1>1. \A v \in Views : HeldRefs[v] = {primary[v], secondary[v]} \ {NoView}
  BY DEF HeldRefs
<1>2. HeldRefs \in [Views -> SUBSET Views]
  BY DEF WalkTypes, HeldRefs
<1>3. Root \in Views
  BY NumViewsAssumption DEF Root, Views
<1> QED
  BY <1>1, <1>2, <1>3 DEF WalkTypes, Graphs

\* The targets of a view are referenced, and so is what they reference.
LEMMA TargetsReferenced ==
  ASSUME NEW g \in [Views -> SUBSET Views], NEW v \in Views, NEW t \in g[v]
  PROVE  t \in Views /\ t \in ReferencedNodes(g, v)
         /\ ReferencedNodes(g, t) \subseteq ReferencedNodes(g, v)
<1>1. t \in ReferencedNodes(g, v)
  BY ReferencesSelf, ReferencesClosed DEF Closed
<1> QED
  BY <1>1, ReferencesTransitive

\* One target, entered unless it was visited.
LEMMA IntoVisits ==
  ASSUME WalkTypes, NEW walk, NEW v \in Views, NEW t \in {primary[v], secondary[v]},
         NEW visited \in SUBSET Views,
         t # NoView /\ t \notin visited => VisitsAll(walk[<<t, visited>>], t, visited)
  PROVE  /\ Into(walk, t, visited) \in SUBSET Views
         /\ visited \subseteq Into(walk, t, visited)
         /\ {t} \ {NoView} \subseteq Into(walk, t, visited)
         /\ \A x \in Into(walk, t, visited) \ visited : 
              HeldRefs[x] \subseteq Into(walk, t, visited)
         /\ Into(walk, t, visited) \subseteq visited \cup ReferencedNodes(HeldRefs, v)
<1>1. CASE t = NoView \/ t \in visited
  BY <1>1 DEF Into
<1>2. CASE t # NoView /\ t \notin visited
  <2>1. t \in HeldRefs[v]
    BY <1>2, HeldIsGraph
  <2>2. ReferencedNodes(HeldRefs, t) \subseteq ReferencedNodes(HeldRefs, v)
    BY <2>1, HeldIsGraph, TargetsReferenced
  <2>3. Into(walk, t, visited) = walk[<<t, visited>>]
    BY <1>2 DEF Into
  <2> QED
    BY <1>2, <2>2, <2>3 DEF VisitsAll
<1> QED
  BY <1>1, <1>2

\* A call visits all if the calls it makes do.
LEMMA CallVisitsAll ==
  ASSUME WalkTypes, NEW walk, NEW v \in Views, NEW seen \in SUBSET Views,
         \A t \in Views, visited \in SUBSET Views :
           seen \cup {v} \subseteq visited /\ t \notin visited
             => VisitsAll(walk[<<t, visited>>], t, visited)
  PROVE  VisitsAll(VisitedFrom(walk, v, seen), v, seen)
<1> DEFINE own == seen \cup {v}
           one == Into(walk, primary[v], own)
           both == Into(walk, secondary[v], one)
<1>1. own \in SUBSET Views /\ primary[v] \in Views \cup {NoView} /\ secondary[v] \in Views \cup {NoView}
  BY DEF WalkTypes
<1>2. primary[v] # NoView /\ primary[v] \notin own 
        => VisitsAll(walk[<<primary[v], own>>], primary[v], own)
  BY <1>1
<1>3. /\ one \in SUBSET Views /\ own \subseteq one
      /\ {primary[v]} \ {NoView} \subseteq one
      /\ \A x \in one \ own : HeldRefs[x] \subseteq one
      /\ one \subseteq own \cup ReferencedNodes(HeldRefs, v)
  <2> HIDE DEF own
  <2> QED
    BY <1>1, <1>2, IntoVisits
<1> HIDE DEF one
<1>4. secondary[v] # NoView /\ secondary[v] \notin one
        => VisitsAll(walk[<<secondary[v], one>>], secondary[v], one)
  BY <1>1, <1>3
<1>5. /\ both \in SUBSET Views /\ one \subseteq both
      /\ {secondary[v]} \ {NoView} \subseteq both
      /\ \A x \in both \ one : HeldRefs[x] \subseteq both
      /\ both \subseteq one \cup ReferencedNodes(HeldRefs, v)
  BY <1>1, <1>3, <1>4, IntoVisits
<1>6. VisitedFrom(walk, v, seen) = both
  BY DEF VisitedFrom, one
<1> HIDE DEF both
<1>7. HeldRefs[v] \subseteq both
  BY <1>3, <1>5, HeldIsGraph
<1>8. v \in ReferencedNodes(HeldRefs, v)
  BY ReferencesSelf
<1> QED
  BY <1>3, <1>5, <1>6, <1>7, <1>8 DEF VisitsAll

\* The recursion ends: a target is entered only when it was not visited, and
\* every call visits its own view, so fewer views are left.
LEMMA FewerUnvisited ==
  ASSUME NEW v \in Views, NEW seen \in SUBSET Views, NEW t \in Views,
         NEW visited \in SUBSET Views, seen \cup {v} \subseteq visited, t \notin visited
  PROVE  Cardinality(Unvisited(t, visited)) < Cardinality(Unvisited(v, seen))
<1>1. IsFiniteSet(Unvisited(v, seen))
  BY FiniteViews, FS_Subset DEF Unvisited
<1> QED
  BY <1>1, SmallerCardinality DEF Unvisited

\* ReferencedNodesInner is the function its body describes.
LEMMA VisitedUnfolds ==
  ASSUME WalkTypes
  PROVE  \A v \in Views, seen \in SUBSET Views :
           ReferencedNodesInner[<<v, seen>>] = VisitedFrom(ReferencedNodesInner, v, seen)
<1> DEFINE T == [c \in Calls |-> {W \in SUBSET Views : VisitsAll(W, c[1], c[2])}]
           m == [c \in Calls |-> Cardinality(Unvisited(c[1], c[2]))]
           N == Cardinality(Views)
           F == ValuesIn(Calls, T)
           step == [p \in F \X Calls |-> VisitedFrom(p[1], p[2][1], p[2][2])]
<1>1. \A c \in Calls : T[c] # {}
  <2> SUFFICES ASSUME NEW c \in Calls PROVE \E W \in SUBSET Views : VisitsAll(W, c[1], c[2])
    OBVIOUS
  <2> DEFINE W == c[2] \cup ReferencedNodes(HeldRefs, c[1])
  <2>1. c[1] \in Views /\ c[2] \in SUBSET Views
    BY DEF Calls
  <2>2. Closed(HeldRefs, ReferencedNodes(HeldRefs, c[1])) /\ c[1] \in ReferencedNodes(HeldRefs, c[1])
    BY <2>1, HeldIsGraph, ReferencesClosed, ReferencesSelf
  <2>3. W \in SUBSET Views
    BY <2>1 DEF ReferencedNodes
  <2>4. VisitsAll(W, c[1], c[2])
    BY <2>1, <2>2, <2>3 DEF VisitsAll, Closed
  <2> QED
    BY <2>3, <2>4
<1>2. N \in Nat /\ \A c \in Calls : m[c] \in 0 .. N
  <2> SUFFICES ASSUME NEW c \in Calls
               PROVE  Cardinality(Unvisited(c[1], c[2])) \in 0 .. Cardinality(Views)
    BY FiniteViews
  <2>1. Unvisited(c[1], c[2]) \in SUBSET Views
    BY DEF Unvisited
  <2>2. /\ Cardinality(Unvisited(c[1], c[2])) <= Cardinality(Views)
        /\ Cardinality(Unvisited(c[1], c[2])) \in Nat
    BY <2>1, FiniteViews, FS_Subset, FS_CardinalityType
  <2> QED
    BY <2>2, FiniteViews
<1>3. \A f \in F, c \in Calls : step[<<f, c>>] = VisitedFrom(f, c[1], c[2])
  OBVIOUS
<1>4. \A f \in F : \A t \in Views, visited \in SUBSET Views : 
        VisitsAll(f[<<t, visited>>], t, visited)
  <2> SUFFICES ASSUME NEW f \in F, NEW t \in Views, NEW visited \in SUBSET Views
               PROVE  VisitsAll(f[<<t, visited>>], t, visited)
    OBVIOUS
  <2>1. <<t, visited>> \in Calls
    BY DEF Calls
  <2>2. f[<<t, visited>>] \in T[<<t, visited>>]
    BY <2>1 DEF ValuesIn
  <2> QED
    BY <2>1, <2>2
<1>5. \A f \in F, c \in Calls : step[<<f, c>>] \in T[c]
  <2> SUFFICES ASSUME NEW f \in F, NEW c \in Calls
               PROVE  VisitsAll(VisitedFrom(f, c[1], c[2]), c[1], c[2])
    BY <1>3 DEF VisitsAll
  <2>1. c[1] \in Views /\ c[2] \in SUBSET Views
    BY DEF Calls
  <2> QED
    BY <1>4, <2>1, CallVisitsAll
<1>6. ASSUME NEW f \in F, NEW g \in F, NEW c \in Calls,
             \A d \in Calls : m[d] < m[c] => f[d] = g[d]
      PROVE  step[<<f, c>>] = step[<<g, c>>]
  <2> DEFINE v == c[1]
             seen == c[2]
             own == seen \cup {v}
  <2>1. v \in Views /\ seen \in SUBSET Views /\ own \in SUBSET Views
    BY DEF Calls
  <2>2. ASSUME NEW t \in Views \cup {NoView}, NEW visited \in SUBSET Views, own \subseteq visited
        PROVE  Into(f, t, visited) = Into(g, t, visited)
    <3>1. CASE t = NoView \/ t \in visited
      BY <3>1 DEF Into
    <3>2. CASE t # NoView /\ t \notin visited
      <4> DEFINE d == <<t, visited>>
      <4>1. d \in Calls /\ d[1] = t /\ d[2] = visited
        BY <3>2 DEF Calls
      <4>2. m[d] < m[c]
        BY <2>1, <2>2, <3>2, <4>1, FewerUnvisited
      <4> HIDE DEF m, d
      <4>3. f[d] = g[d]
        BY <1>6, <4>1, <4>2
      <4> QED
        BY <3>2, <4>3 DEF Into, d
    <3> QED
      BY <3>1, <3>2
  <2>3. primary[v] \in Views \cup {NoView} /\ secondary[v] \in Views \cup {NoView}
    BY <2>1 DEF WalkTypes
  <2>4. Into(f, primary[v], own) = Into(g, primary[v], own)
    BY <2>1, <2>2, <2>3
  <2>5. /\ Into(f, primary[v], own) \in SUBSET Views
        /\ own \subseteq Into(f, primary[v], own)
    <3>1. primary[v] # NoView /\ primary[v] \notin own
            => VisitsAll(f[<<primary[v], own>>], primary[v], own)
      BY <1>4, <2>1, <2>3
    <3> HIDE DEF own, v
    <3> QED
      BY <2>1, <3>1, IntoVisits
  <2>6. Into(f, secondary[v], Into(f, primary[v], own)) = Into(g, secondary[v], Into(f, primary[v], own))
    <3> HIDE DEF own, v
    <3> QED
      BY <2>2, <2>3, <2>5
  <2> QED
    BY <1>3, <2>4, <2>6 DEF VisitedFrom
<1>7. PICK f \in F : \A c \in Calls : f[c] = step[<<f, c>>]
  <2>1. Recurses(Calls, T, m, N, step)
    BY <1>1, <1>2, <1>5, <1>6, Zenon DEF Recurses
  <2> HIDE DEF T, m, N, step, F
  <2>2. PICK R, k, n, s : R = T /\ k = m /\ n = N /\ s = step
    OBVIOUS
  <2>3. \E f \in ValuesIn(Calls, R) : \A c \in Calls : f[c] = s[<<f, c>>]
    <3>1. Recurses(Calls, R, k, n, s)
      BY <2>1, <2>2, Zenon
    <3> HIDE DEF F
    <3> QED
      BY <3>1, RecursionExists
  <2> QED
    BY <2>2, <2>3 DEF F
<1>8. f = [c \in Calls |-> VisitedFrom(f, c[1], c[2])]
  <2>1. \A c \in Calls : f[c] = VisitedFrom(f, c[1], c[2])
    BY <1>3, <1>7
  <2>2. f = [c \in Calls |-> f[c]]
    BY <1>7 DEF ValuesIn
  <2> QED
    BY <2>1, <2>2
<1>9. ReferencedNodesInner = [c \in Calls |-> VisitedFrom(ReferencedNodesInner, c[1], c[2])]
  BY <1>8 DEF ReferencedNodesInner
<1>10. ASSUME NEW v \in Views, NEW seen \in SUBSET Views
       PROVE  ReferencedNodesInner[<<v, seen>>] = VisitedFrom(ReferencedNodesInner, v, seen)
  <2> DEFINE c == <<v, seen>>
  <2>1. c \in Calls /\ c[1] = v /\ c[2] = seen
    BY DEF Calls
  <2> HIDE DEF c
  <2>2. ReferencedNodesInner[c] = VisitedFrom(ReferencedNodesInner, c[1], c[2])
    BY <1>9, <2>1
  <2> QED
    BY <2>1, <2>2 DEF c
<1> QED
  BY <1>10

\* Every call visits all the views that can be reached without the ones visited
\* before, and no other.
LEMMA WalkVisitsAll ==
  ASSUME WalkTypes, NEW v \in Views, NEW seen \in SUBSET Views
  PROVE  VisitsAll(ReferencedNodesInner[<<v, seen>>], v, seen)
<1> DEFINE Holds(s) == \A w \in Views, a \in SUBSET Views :
             Unvisited(w, a) \subseteq s => VisitsAll(ReferencedNodesInner[<<w, a>>], w, a)
           G == {s \in SUBSET Views : Holds(s)}
<1>1. ASSUME NEW s \in SUBSET Views, \A x \in s : s \ {x} \in G
      PROVE  s \in G
  <2> SUFFICES ASSUME NEW w \in Views, NEW a \in SUBSET Views, Unvisited(w, a) \subseteq s
               PROVE  VisitsAll(ReferencedNodesInner[<<w, a>>], w, a)
    OBVIOUS
  <2>1. ASSUME NEW t \in Views, NEW visited \in SUBSET Views,
               a \cup {w} \subseteq visited, t \notin visited
        PROVE  VisitsAll(ReferencedNodesInner[<<t, visited>>], t, visited)
    <3>1. t \in s /\ Unvisited(t, visited) \subseteq s \ {t}
      BY <2>1 DEF Unvisited
    <3>2. Holds(s \ {t})
      BY <1>1, <3>1
    <3> QED
      BY <3>1, <3>2
  <2>2. VisitsAll(VisitedFrom(ReferencedNodesInner, w, a), w, a)
    BY <2>1, CallVisitsAll
  <2> QED
    BY <2>2, VisitedUnfolds
<1>2. PICK H : H = G
  OBVIOUS
<1>3. H = SUBSET Views
  <2>1. H \in SUBSET SUBSET Views
    BY <1>2
  <2>2. \A s \in SUBSET Views : (\A x \in s : s \ {x} \in H) => s \in H
    BY <1>1, <1>2, Zenon
  <2> QED
    BY <2>1, <2>2, FiniteViews, SubsetInduction, Zenon
<1>4. Holds(Views)
  BY <1>2, <1>3
<1> QED
  BY <1>4 DEF Unvisited

\* With no view visited before, these are the views that can be reached.
LEMMA WalkIsReachability == WalkTypes => WalkReachesAll
<1> SUFFICES ASSUME WalkTypes, NEW v \in Views
             PROVE  ReferencedNodesInner[<<v, {}>>] = ReferencedNodes(HeldRefs, v)
  BY DEF WalkReachesAll
<1> DEFINE W == ReferencedNodesInner[<<v, {}>>]
<1>1. VisitsAll(W, v, {})
  BY WalkVisitsAll
<1> HIDE DEF W
<1>2. Closed(HeldRefs, W) /\ v \in W /\ W \in SUBSET Views
  BY <1>1 DEF VisitsAll, Closed
<1>3. ReferencedNodes(HeldRefs, v) \subseteq W
  BY <1>2, ReferencesLeast
<1> QED
  BY <1>1, <1>3 DEF VisitsAll, W

-----------------------------------------------------------------------------
\* The walk of IsAnchored

\* In an acyclic graph a target references fewer views.
LEMMA FewerReferenced ==
  ASSUME NEW g \in [Views -> SUBSET Views], Acyclic(g), NEW v \in Views, NEW t \in g[v]
  PROVE  /\ t \in Views /\ ReferencedNodes(g, t) \subseteq ReferencedNodes(g, v) \ {v}
         /\ Cardinality(ReferencedNodes(g, t)) < Cardinality(ReferencedNodes(g, v))
<1>1. t \in Views /\ ReferencedNodes(g, t) \subseteq ReferencedNodes(g, v)
  BY TargetsReferenced
<1>2. v \notin ReferencedNodes(g, t)
  BY DEF Acyclic, IsCircularRelation
<1>3. v \in ReferencedNodes(g, v)
  BY ReferencesSelf
<1>4. IsFiniteSet(ReferencedNodes(g, v))
  BY FiniteViews, FS_Subset DEF ReferencedNodes
<1> HIDE DEF ReferencedNodes
<1> QED
  BY <1>1, <1>2, <1>3, <1>4, SmallerCardinality

\* What a view holds, in an acyclic graph.
LEMMA HeldTargets ==
  ASSUME WalkTypes, Acyclic(HeldRefs), NEW v \in Views
  PROVE  /\ v = Root => primary[v] = NoView
         /\ primary[v] # NoView => primary[v] \in HeldRefs[v]
         /\ secondary[v] # NoView => secondary[v] \in HeldRefs[v]
         /\ primary[v] = NoView => HeldRefs[v] = {}
BY HeldIsGraph DEF WalkTypes

\* IsAnchoredVisiting is the function its body describes, when the graph is
\* acyclic: the targets then reference fewer views.
LEMMA AnchoredUnfolds ==
  ASSUME WalkTypes, Acyclic(HeldRefs)
  PROVE  \A v \in Views, seen \in SUBSET Views :
           IsAnchoredVisiting[<<v, seen>>] = AnchoredFrom(IsAnchoredVisiting, v, seen)
<1> DEFINE T == [c \in Calls |-> BOOLEAN]
           m == [c \in Calls |-> Cardinality(ReferencedNodes(HeldRefs, c[1]))]
           N == Cardinality(Views)
           F == ValuesIn(Calls, T)
           step == [p \in F \X Calls |-> AnchoredFrom(p[1], p[2][1], p[2][2])]
<1>1. N \in Nat /\ \A c \in Calls : T[c] # {} /\ m[c] \in 0 .. N
  <2> SUFFICES ASSUME NEW c \in Calls
               PROVE  Cardinality(ReferencedNodes(HeldRefs, c[1])) \in 0 .. Cardinality(Views)
    BY FiniteViews
  <2>1. ReferencedNodes(HeldRefs, c[1]) \in SUBSET Views
    BY DEF ReferencedNodes
  <2>2. /\ Cardinality(ReferencedNodes(HeldRefs, c[1])) <= Cardinality(Views)
        /\ Cardinality(ReferencedNodes(HeldRefs, c[1])) \in Nat
    BY <2>1, FiniteViews, FS_Subset, FS_CardinalityType
  <2> QED
    BY <2>2, FiniteViews
<1>2. \A f \in F, c \in Calls : step[<<f, c>>] = AnchoredFrom(f, c[1], c[2])
  OBVIOUS
<1>3. \A f \in F, c \in Calls : step[<<f, c>>] \in T[c]
  <2> SUFFICES ASSUME NEW f \in F, NEW c \in Calls
               PROVE  AnchoredFrom(f, c[1], c[2]) \in BOOLEAN
    BY <1>2
  <2> QED
    BY DEF AnchoredFrom
<1>4. ASSUME NEW f \in F, NEW g \in F, NEW c \in Calls,
             \A d \in Calls : m[d] < m[c] => f[d] = g[d]
      PROVE  step[<<f, c>>] = step[<<g, c>>]
  <2> DEFINE v == c[1]
             seen == c[2]
  <2>1. v \in Views /\ seen \in SUBSET Views
    BY DEF Calls
  <2>2. ASSUME NEW t \in HeldRefs[v], NEW visited \in SUBSET Views
        PROVE  f[<<t, visited>>] = g[<<t, visited>>]
    <3> DEFINE d == <<t, visited>>
    <3>1. t \in Views /\ Cardinality(ReferencedNodes(HeldRefs, t))
                           < Cardinality(ReferencedNodes(HeldRefs, v))
      BY <2>1, HeldIsGraph, FewerReferenced
    <3>2. d \in Calls /\ d[1] = t
      BY <3>1 DEF Calls
    <3>3. m[d] < m[c]
      BY <3>1, <3>2
    <3> HIDE DEF m, d
    <3>4. f[d] = g[d]
      BY <1>4, <3>2, <3>3
    <3> QED
      BY <3>4 DEF d
  <2>3. primary[v] # NoView => f[<<primary[v], seen \cup {v}>>] = g[<<primary[v], seen \cup {v}>>]
    BY <2>1, <2>2, HeldTargets
  <2>4. secondary[v] # NoView => f[<<secondary[v], {v}>>] = g[<<secondary[v], {v}>>]
    BY <2>1, <2>2, HeldTargets
  <2>5. AnchoredFrom(f, v, seen) = AnchoredFrom(g, v, seen)
    <3> HIDE DEF v, seen
    <3> QED
      BY <2>3, <2>4, Zenon DEF AnchoredFrom
  <2> QED
    BY <1>2, <2>5
<1>5. PICK f \in F : \A c \in Calls : f[c] = step[<<f, c>>]
  <2>1. Recurses(Calls, T, m, N, step)
    BY <1>1, <1>3, <1>4, Zenon DEF Recurses
  <2> HIDE DEF T, m, N, step, F
  <2>2. PICK R, k, n, s : R = T /\ k = m /\ n = N /\ s = step
    OBVIOUS
  <2>3. \E f \in ValuesIn(Calls, R) : \A c \in Calls : f[c] = s[<<f, c>>]
    <3>1. Recurses(Calls, R, k, n, s)
      BY <2>1, <2>2, Zenon
    <3> QED
      BY <3>1, RecursionExists
  <2> QED
    BY <2>2, <2>3 DEF F
<1>6. f = [c \in Calls |-> AnchoredFrom(f, c[1], c[2])]
  <2>1. \A c \in Calls : f[c] = AnchoredFrom(f, c[1], c[2])
    BY <1>2, <1>5
  <2>2. f = [c \in Calls |-> f[c]]
    BY <1>5 DEF ValuesIn
  <2> QED
    BY <2>1, <2>2
<1>7. IsAnchoredVisiting = [c \in Calls |-> AnchoredFrom(IsAnchoredVisiting, c[1], c[2])]
  BY <1>6 DEF IsAnchoredVisiting
<1>8. ASSUME NEW v \in Views, NEW seen \in SUBSET Views
      PROVE  IsAnchoredVisiting[<<v, seen>>] = AnchoredFrom(IsAnchoredVisiting, v, seen)
  <2> DEFINE c == <<v, seen>>
  <2>1. c \in Calls /\ c[1] = v /\ c[2] = seen
    BY DEF Calls
  <2> HIDE DEF c
  <2>2. IsAnchoredVisiting[c] = AnchoredFrom(IsAnchoredVisiting, c[1], c[2])
    BY <1>7, <2>1
  <2> QED
    BY <2>1, <2>2 DEF c
<1> QED
  BY <1>8

\* A view is anchored when it is the content frame or holds targets that all are.
LEMMA AnchoredByTargets ==
  ASSUME NEW g \in [Views -> SUBSET Views], NEW v \in Views
  PROVE  IsAnchored(g, v) <=> (v = Root \/ (g[v] # {} /\ \A t \in g[v] : IsAnchored(g, t)))
<1>1. v = Root => IsAnchored(g, v)
  BY DEF IsAnchored, Grounding
<1>2. Grounding(g, {w \in Views : IsAnchored(g, w)})
  BY AnchoredIsGrounding
<1>3. g[v] # {} /\ (\A t \in g[v] : IsAnchored(g, t)) => IsAnchored(g, v)
  BY <1>2 DEF Grounding
<1>4. v # Root /\ IsAnchored(g, v) => g[v] # {} /\ \A t \in g[v] : IsAnchored(g, t)
  BY AnchoredInversion DEF IsAnchoredWithAttr
<1> QED
  BY <1>1, <1>3, <1>4

\* In an acyclic graph no visited view cuts the walk short: a view's callers are
\* not among those it references.
LEMMA WalkAnchors ==
  ASSUME WalkTypes, Acyclic(HeldRefs), NEW v \in Views, NEW seen \in SUBSET Views,
         seen \cap ReferencedNodes(HeldRefs, v) = {}
  PROVE  IsAnchoredVisiting[<<v, seen>>] <=> IsAnchored(HeldRefs, v)
<1> DEFINE Holds(s) == \A w \in Views, a \in SUBSET Views :
             /\ ReferencedNodes(HeldRefs, w) \subseteq s
             /\ a \cap ReferencedNodes(HeldRefs, w) = {}
             => (IsAnchoredVisiting[<<w, a>>] <=> IsAnchored(HeldRefs, w))
           G == {s \in SUBSET Views : Holds(s)}
<1>1. ASSUME NEW s \in SUBSET Views, \A x \in s : s \ {x} \in G
      PROVE  s \in G
  <2> SUFFICES ASSUME NEW w \in Views, NEW a \in SUBSET Views,
                      ReferencedNodes(HeldRefs, w) \subseteq s,
                      a \cap ReferencedNodes(HeldRefs, w) = {}
               PROVE  IsAnchoredVisiting[<<w, a>>] <=> IsAnchored(HeldRefs, w)
    OBVIOUS
  <2>1. w \in ReferencedNodes(HeldRefs, w)
    BY ReferencesSelf
  <2>2. Holds(s \ {w})
    BY <1>1, <2>1
  <2>3. ASSUME NEW t \in HeldRefs[w], NEW visited \in SUBSET Views, visited \subseteq a \cup {w}
        PROVE  IsAnchoredVisiting[<<t, visited>>] <=> IsAnchored(HeldRefs, t)
    <3>1. t \in Views /\ ReferencedNodes(HeldRefs, t) \subseteq ReferencedNodes(HeldRefs, w) \ {w}
      BY HeldIsGraph, FewerReferenced
    <3>2. visited \cap ReferencedNodes(HeldRefs, t) = {}
      BY <2>3, <3>1
    <3> QED
      BY <2>2, <3>1, <3>2
  <2>4. HeldRefs[w] \cap (a \cup {w}) = {}
    <3> SUFFICES ASSUME NEW t \in HeldRefs[w] PROVE t \notin a \cup {w}
      OBVIOUS
    <3>1. t \in ReferencedNodes(HeldRefs, w) /\ t \in Views
      BY HeldIsGraph, TargetsReferenced
    <3>2. t \in ReferencedNodes(HeldRefs, t)
      BY <3>1, ReferencesSelf
    <3>3. ReferencedNodes(HeldRefs, t) \subseteq ReferencedNodes(HeldRefs, w) \ {w}
      BY HeldIsGraph, FewerReferenced
    <3> QED
      BY <3>1, <3>2, <3>3
  <2>5. AnchoredFrom(IsAnchoredVisiting, w, a) <=>
          (w = Root \/ (HeldRefs[w] # {} /\ \A t \in HeldRefs[w] : IsAnchored(HeldRefs, t)))
    <3>1. primary[w] # NoView => 
            (IsAnchoredVisiting[<<primary[w], a \cup {w}>>] <=> IsAnchored(HeldRefs, primary[w]))
      BY <2>3, HeldTargets
    <3>2. secondary[w] # NoView => 
            (IsAnchoredVisiting[<<secondary[w], {w}>>] <=> IsAnchored(HeldRefs, secondary[w]))
      BY <2>3, HeldTargets
    <3>3. /\ HeldRefs[w] # {} <=> primary[w] # NoView
          /\ primary[w] # NoView => primary[w] \in HeldRefs[w]
          /\ secondary[w] # NoView => secondary[w] \in HeldRefs[w]
          /\ \A t \in HeldRefs[w] : t # NoView /\ (t = primary[w] \/ t = secondary[w])
      BY HeldTargets, HeldIsGraph
    <3>4. AnchoredFrom(IsAnchoredVisiting, w, a) <=>
            \/ w = Root
            \/ /\ primary[w] # NoView /\ IsAnchored(HeldRefs, primary[w])
               /\ secondary[w] # NoView => IsAnchored(HeldRefs, secondary[w])
      BY <2>4, <3>1, <3>2, Zenon DEF AnchoredFrom
    <3> QED
      BY <3>3, <3>4, Zenon
  <2>6. IsAnchored(HeldRefs, w) <=>
          (w = Root \/ (HeldRefs[w] # {} /\ \A t \in HeldRefs[w] : IsAnchored(HeldRefs, t)))
    BY HeldIsGraph, AnchoredByTargets, Zenon
  <2>7. IsAnchoredVisiting[<<w, a>>] = AnchoredFrom(IsAnchoredVisiting, w, a)
    BY AnchoredUnfolds
  <2> QED
    BY <2>5, <2>6, <2>7, Zenon
<1>2. PICK H : H = G
  OBVIOUS
<1>3. H = SUBSET Views
  <2>1. H \in SUBSET SUBSET Views
    BY <1>2
  <2>2. \A s \in SUBSET Views : (\A x \in s : s \ {x} \in H) => s \in H
    BY <1>1, <1>2, Zenon
  <2> QED
    BY <2>1, <2>2, FiniteViews, SubsetInduction, Zenon
<1>4. Holds(Views)
  BY <1>2, <1>3
<1>5. ReferencedNodes(HeldRefs, v) \subseteq Views
  BY DEF ReferencedNodes
<1> QED
  BY <1>4, <1>5

\* With no view visited before, no condition on the callers is left.
LEMMA WalkIsAnchoring == WalkTypes => WalkFindsAnchors
<1> SUFFICES ASSUME WalkTypes, Acyclic(HeldRefs), NEW v \in Views
             PROVE  IsAnchoredVisiting[<<v, {}>>] <=> IsAnchored(HeldRefs, v)
  BY Zenon DEF WalkFindsAnchors
<1> QED
  BY WalkAnchors

-----------------------------------------------------------------------------
\* The levels

\* MostLevels is the function its body describes.
LEMMA MostLevelsUnfolds ==
  /\ \A n \in 0 .. NumViews : MostLevels[n] \in Nat
  /\ \A n \in 0 .. NumViews :
       MostLevels[n] = IF n = 0 THEN 0 ELSE 2 * MostLevels[n - 1] + 1
<1> DEFINE D == 0 .. NumViews
           T == [n \in D |-> Nat]
           m == [n \in D |-> n]
           N == NumViews
           F == ValuesIn(D, T)
           step == [p \in F \X D |-> IF p[2] = 0 THEN 0 ELSE 2 * p[1][p[2] - 1] + 1]
<1>1. N \in Nat /\ \A n \in D : T[n] # {} /\ m[n] \in 0 .. N
  BY NumViewsAssumption
<1>2. \A f \in F, n \in D : step[<<f, n>>] = IF n = 0 THEN 0 ELSE 2 * f[n - 1] + 1
  OBVIOUS
<1>3. \A f \in F, n \in D : f[n] \in Nat
  BY DEF ValuesIn
<1>4. \A n \in D : n # 0 => n - 1 \in D /\ n - 1 < n
  BY NumViewsAssumption
<1>5. \A f \in F, n \in D : step[<<f, n>>] \in T[n]
  <2> SUFFICES ASSUME NEW f \in F, NEW n \in D
               PROVE  (IF n = 0 THEN 0 ELSE 2 * f[n - 1] + 1) \in Nat
    BY <1>2
  <2>1. n # 0 => f[n - 1] \in Nat
    BY <1>3, <1>4
  <2> HIDE DEF F, D
  <2> QED
    BY <2>1
<1>6. ASSUME NEW f \in F, NEW g \in F, NEW n \in D,
             \A k \in D : m[k] < m[n] => f[k] = g[k]
      PROVE  step[<<f, n>>] = step[<<g, n>>]
  <2>1. n # 0 => f[n - 1] = g[n - 1]
    BY <1>4, <1>6
  <2> QED
    BY <1>2, <2>1
<1>7. PICK f \in F : \A n \in D : f[n] = step[<<f, n>>]
  <2>1. Recurses(D, T, m, N, step)
    BY <1>1, <1>5, <1>6, Zenon DEF Recurses
  <2> HIDE DEF T, m, N, step, F, D
  <2> QED
    BY <2>1, RecursionExists DEF F
<1>8. f = [n \in D |-> IF n = 0 THEN 0 ELSE 2 * f[n - 1] + 1]
  <2>1. f = [n \in D |-> f[n]]
    BY DEF ValuesIn
  <2> QED
    BY <1>2, <1>7, <2>1
<1>9. MostLevels = [n \in D |-> IF n = 0 THEN 0 ELSE 2 * MostLevels[n - 1] + 1]
  BY <1>8 DEF MostLevels
<1>10. \A n \in D : MostLevels[n] = IF n = 0 THEN 0 ELSE 2 * MostLevels[n - 1] + 1
  BY <1>9
<1> DEFINE G == {n \in Nat : n \in D => MostLevels[n] \in Nat}
<1>11. 0 \in G
  BY <1>10
<1>12. \A n \in G : n + 1 \in G
  <2> SUFFICES ASSUME NEW n \in G, n + 1 \in D PROVE MostLevels[n + 1] \in Nat
    OBVIOUS
  <2>1. n \in D /\ n + 1 # 0 /\ (n + 1) - 1 = n
    BY NumViewsAssumption
  <2>2. MostLevels[n] \in Nat /\ MostLevels[n + 1] = 2 * MostLevels[n] + 1
    BY <1>10, <2>1
  <2> QED
    BY <2>2
<1>13. G = Nat
  <2> HIDE DEF G
  <2>1. G \in SUBSET Nat
    BY DEF G
  <2> QED
    BY <1>11, <1>12, <2>1, NatSetInduction
<1> QED
  BY <1>10, <1>13, NumViewsAssumption

\* Levels put a view above its targets: the view of the least level outside a
\* grounded set would belong to it.
LEMMA LevelsAnchor ==
  ASSUME WalkTypes, \A v \in SynViews : primary[v] # NoView,
         NEW level \in [Views -> Nat], AnchorExprs(level), NEW w \in Views
  PROVE  IsAnchored(HeldRefs, w)
<1> SUFFICES ASSUME NEW A \in SUBSET Views, Grounding(HeldRefs, A)
             PROVE  w \in A
  BY DEF IsAnchored
<1> DEFINE G == {n \in Nat : \A v \in Views : level[v] <= n => v \in A}
<1>1. \A v \in Views : v = Root \/ v \in SynViews
  BY NumViewsAssumption DEF Views, SynViews, Root
<1>2. Root \in A
  BY DEF Grounding
<1>3. 0 \in G
  <2> SUFFICES ASSUME NEW v \in Views, level[v] <= 0 PROVE v \in A
    OBVIOUS
  <2> QED
    BY <1>1, <1>2 DEF AnchorExprs
<1>4. \A n \in G : n + 1 \in G
  <2> SUFFICES ASSUME NEW n \in G, NEW v \in Views, level[v] <= n + 1, v \in SynViews
               PROVE  v \in A
    BY <1>1, <1>2
  <2>1. primary[v] \in Views /\ (secondary[v] \in Views \/ secondary[v] = NoView)
    BY DEF WalkTypes
  <2>2. level[v] = level[primary[v]] + 1
                     + IF secondary[v] = NoView THEN 0 ELSE level[secondary[v]]
    BY DEF AnchorExprs
  <2>3. level[primary[v]] \in Nat /\ (secondary[v] # NoView => level[secondary[v]] \in Nat)
    BY <2>1
  <2>4. level[primary[v]] <= n
    BY <2>2, <2>3
  <2>5. secondary[v] # NoView => level[secondary[v]] <= n
    BY <2>2, <2>3
  <2>6. HeldRefs[v] \subseteq A /\ HeldRefs[v] # {}
    BY <2>1, <2>4, <2>5, HeldIsGraph
  <2> QED
    BY <2>6 DEF Grounding
<1>5. G = Nat
  <2> HIDE DEF G
  <2>1. G \in SUBSET Nat
    BY DEF G
  <2> QED
    BY <1>3, <1>4, <2>1, NatSetInduction
<1>6. level[w] \in G
  BY <1>5
<1> QED
  BY <1>6

\* Levels for some of the views, closed under targets, none above most.
LevelsFor(A, level, most) ==
  /\ Root \in A /\ level[Root] = 0
  /\ \A v \in Views : level[v] \in Nat /\ level[v] <= most
  /\ \A v \in A \ {Root} :
       /\ primary[v] \in A /\ secondary[v] \in A \cup {NoView}
       /\ level[v] = level[primary[v]] + 1
                     + IF secondary[v] = NoView THEN 0 ELSE level[secondary[v]]

\* The next view to get a level holds targets that have one.
LEMMA NextLevel ==
  ASSUME WalkTypes, NEW A \in SUBSET Views, NEW level \in [Views -> Nat], NEW most \in Nat,
         LevelsFor(A, level, most),
         NEW w \in Views, w \notin A, HeldRefs[w] # {}, HeldRefs[w] \subseteq A
  PROVE  \E next \in [Views -> Nat] : LevelsFor(A \cup {w}, next, 2 * most + 1)
<1> DEFINE p == primary[w]
           s == secondary[w]
           l == level[p] + 1 + IF s = NoView THEN 0 ELSE level[s]
           next == [level EXCEPT ![w] = l]
<1>1. p \in A /\ (s \in A \/ s = NoView)
  BY HeldIsGraph DEF WalkTypes
<1>2. level[p] \in Nat /\ level[p] <= most /\ (s # NoView => level[s] \in Nat /\ level[s] <= most)
  BY <1>1 DEF LevelsFor
<1>3. l \in Nat /\ l <= 2 * most + 1 /\ most <= 2 * most + 1
  <2> HIDE DEF p, s
  <2>1. CASE s = NoView
    BY <1>2, <2>1
  <2>2. CASE s # NoView
    BY <1>2, <2>2
  <2> QED
    BY <2>1, <2>2
<1> HIDE DEF l
<1>4. next \in [Views -> Nat] /\ next[w] = l /\ \A v \in Views : v # w => next[v] = level[v]
  BY <1>3
<1> HIDE DEF next
<1>5. \A v \in Views : next[v] \in Nat /\ next[v] <= 2 * most + 1
  BY <1>3, <1>4 DEF LevelsFor
<1>6. w # Root /\ Root \in Views
  BY NumViewsAssumption DEF LevelsFor, Root, Views
<1>7. Root \in A \cup {w} /\ next[Root] = 0
  BY <1>4, <1>6 DEF LevelsFor
<1>8. NoView \notin Views
  BY NumViewsAssumption DEF NoView, Views
<1>9. ASSUME NEW v \in (A \cup {w}) \ {Root}
      PROVE  /\ primary[v] \in A \cup {w} /\ secondary[v] \in (A \cup {w}) \cup {NoView}
             /\ next[v] = next[primary[v]] + 1
                     + IF secondary[v] = NoView THEN 0 ELSE next[secondary[v]]
  <2>1. CASE v = w
    <3>1. next[p] = level[p] /\ (s # NoView => next[s] = level[s])
      BY <1>1, <1>4
    <3> QED
      BY <1>1, <1>4, <2>1, <3>1 DEF l
  <2>2. CASE v # w
    <3>1. /\ primary[v] \in A /\ secondary[v] \in A \cup {NoView}
          /\ level[v] = level[primary[v]] + 1
                     + IF secondary[v] = NoView THEN 0 ELSE level[secondary[v]]
      BY <2>2 DEF LevelsFor
    <3>2. /\ next[v] = level[v] /\ next[primary[v]] = level[primary[v]]
          /\ secondary[v] # NoView => next[secondary[v]] = level[secondary[v]]
      BY <1>4, <2>2, <3>1
    <3> QED
      BY <3>1, <3>2
  <2> QED
    BY <2>1, <2>2
<1>10. LevelsFor(A \cup {w}, next, 2 * most + 1)
  BY <1>5, <1>7, <1>9 DEF LevelsFor
<1> QED
  BY <1>4, <1>10

\* Anchored views get levels one after the other.
LEMMA AnchoredLevels ==
  ASSUME WalkTypes, \A v \in Views : IsAnchored(HeldRefs, v)
  PROVE  \E level \in [Views -> Nat] : LevelsFor(Views, level, MostLevels[NumViews])
<1> DEFINE Reached(k) == \E A \in SUBSET Views, level \in [Views -> Nat] :
             Cardinality(A) = k + 1 /\ LevelsFor(A, level, MostLevels[k])
           G == {k \in Nat : k <= NumViews => Reached(k)}
<1>0. NumViews \in Nat /\ NumViews # 0 /\ Root \in Views /\ NoView \notin Views
  BY NumViewsAssumption DEF Root, Views, NoView
<1>1. 0 \in G
  <2> DEFINE level == [v \in Views |-> 0]
  <2>1. Cardinality({Root}) = 0 + 1
    BY FS_Singleton
  <2>2. MostLevels[0] = 0
    BY <1>0, MostLevelsUnfolds
  <2>3. LevelsFor({Root}, level, MostLevels[0])
    BY <1>0, <2>2 DEF LevelsFor
  <2>4. level \in [Views -> Nat] /\ {Root} \in SUBSET Views
    BY <1>0
  <2> HIDE DEF level
  <2>5. Reached(0)
    BY <2>1, <2>3, <2>4
  <2> QED
    BY <2>5
<1>2. \A k \in G : k + 1 \in G
  <2> SUFFICES ASSUME NEW k \in G, k + 1 <= NumViews PROVE Reached(k + 1)
    OBVIOUS
  <2>1. k \in Nat /\ Reached(k)
    BY <1>0
  <2> PICK A \in SUBSET Views, level \in [Views -> Nat] :
          Cardinality(A) = k + 1 /\ LevelsFor(A, level, MostLevels[k])
    BY <2>1
  <2>2. Cardinality(Views) = NumViews + 1
    <3>1. 0 \in Int /\ NumViews \in Int
      BY <1>0
    <3> QED
      BY <1>0, <3>1, FS_Interval DEF Views
  <2>3. A # Views
    BY <1>0, <2>1, <2>2
  <2>4. PICK w \in Views : w \notin A /\ HeldRefs[w] # {} /\ HeldRefs[w] \subseteq A
    <3>1. ~Grounding(HeldRefs, A)
      BY <2>3 DEF IsAnchored
    <3> QED
      BY <3>1 DEF Grounding, LevelsFor
  <2>5. /\ k \in 0 .. NumViews /\ k + 1 \in 0 .. NumViews
        /\ k + 1 # 0 /\ (k + 1) - 1 = k
    BY <1>0, <2>1
  <2>6. MostLevels[k] \in Nat /\ MostLevels[k + 1] = 2 * MostLevels[k] + 1
    BY <2>5, MostLevelsUnfolds
  <2>7. \E next \in [Views -> Nat] : LevelsFor(A \cup {w}, next, 2 * MostLevels[k] + 1)
    BY <2>4, <2>6, NextLevel
  <2>8. Cardinality(A \cup {w}) = (k + 1) + 1
    BY <2>1, <2>4, FiniteViews, FS_Subset, FS_AddElement
  <2> QED
    BY <2>6, <2>7, <2>8
<1>3. G = Nat
  <2> HIDE DEF G
  <2>1. G \in SUBSET Nat
    BY DEF G
  <2> QED
    BY <1>1, <1>2, <2>1, NatSetInduction
<1>4. Reached(NumViews)
  <2>1. NumViews \in G
    BY <1>0, <1>3
  <2> QED
    BY <1>0, <2>1
<1>5. PICK A \in SUBSET Views, level \in [Views -> Nat] :
        Cardinality(A) = NumViews + 1 /\ LevelsFor(A, level, MostLevels[NumViews])
  BY <1>4
<1>6. A = Views
  <2>1. Cardinality(Views) = NumViews + 1
    <3>1. 0 \in Int /\ NumViews \in Int
      BY <1>0
    <3> QED
      BY <1>0, <3>1, FS_Interval DEF Views
  <2> SUFFICES ASSUME NEW v \in Views, v \notin A PROVE FALSE
    OBVIOUS
  <2>2. Cardinality(A) < Cardinality(Views)
    BY FiniteViews, SmallerCardinality
  <2> QED
    BY <1>0, <1>5, <2>1, <2>2
<1> QED
  BY <1>5, <1>6

\* Both directions: levels exist when every view is anchored and, being positive,
\* only then.
LEMMA WalkLevels == WalkTypes => LevelsMeanAnchored
<1> SUFFICES ASSUME WalkTypes, \A v \in SynViews : primary[v] # NoView
             PROVE  (\E level \in [Views -> 0 .. MaxLevel] : AnchorExprs(level))
                      <=> \A v \in Views : IsAnchored(HeldRefs, v)
  BY DEF LevelsMeanAnchored
<1>1. ASSUME NEW level \in [Views -> 0 .. MaxLevel], AnchorExprs(level), NEW v \in Views
      PROVE  IsAnchored(HeldRefs, v)
  <2>1. level \in [Views -> Nat]
    BY MaxLevelAssumption
  <2> QED
    BY <1>1, <2>1, LevelsAnchor
<1>2. ASSUME \A v \in Views : IsAnchored(HeldRefs, v)
      PROVE  \E level \in [Views -> 0 .. MaxLevel] : AnchorExprs(level)
  <2>1. PICK level \in [Views -> Nat] : LevelsFor(Views, level, MostLevels[NumViews])
    BY <1>2, AnchoredLevels
  <2>2. /\ NumViews \in 0 .. NumViews /\ \A v \in SynViews : v \in Views \ {Root}
        /\ NoView \notin Views
    BY NumViewsAssumption DEF SynViews, Views, Root, NoView
  <2>3. MostLevels[NumViews] \in Nat
    BY <2>2, MostLevelsUnfolds
  <2>4. \A v \in Views : level[v] \in 0 .. MaxLevel
    BY <2>1, <2>3, MaxLevelAssumption DEF LevelsFor
  <2>5. level \in [Views -> 0 .. MaxLevel]
    BY <2>4
  <2>6. ASSUME NEW v \in SynViews
        PROVE  /\ level[v] > 0
               /\ level[v] = level[primary[v]] + 1
                     + IF secondary[v] = NoView THEN 0 ELSE level[secondary[v]]
    <3>1. /\ primary[v] \in Views /\ secondary[v] \in Views \cup {NoView}
          /\ level[v] = level[primary[v]] + 1
                     + IF secondary[v] = NoView THEN 0 ELSE level[secondary[v]]
      BY <2>1, <2>2 DEF LevelsFor
    <3>2. level[primary[v]] \in Nat /\ (secondary[v] # NoView => level[secondary[v]] \in Nat)
      BY <3>1
    <3> QED
      BY <3>1, <3>2
  <2>7. AnchorExprs(level)
    BY <2>1, <2>6 DEF AnchorExprs, LevelsFor
  <2> QED
    BY <2>5, <2>7
<1> QED
  BY <1>1, <1>2

-----------------------------------------------------------------------------
\* The theorems of the walks

\* The run starts with such a graph and the walks change nothing.
LEMMA WalkTypesHold == WalkSpec => []WalkTypes
<1>1. WalkInit => WalkTypes
  <2> SUFFICES ASSUME WalkInit PROVE WalkTypes
    OBVIOUS
  <2>1. PICK pairs \in [SynViews -> UNION {TargetPairs(v) : v \in SynViews}] :
          /\ \A v \in SynViews : pairs[v] \in TargetPairs(v)
          /\ primary = [v \in Views |-> IF v = Root THEN NoView ELSE pairs[v][1]]
          /\ secondary = [v \in Views |-> IF v = Root THEN NoView ELSE pairs[v][2]]
    BY DEF WalkInit
  <2>2. Root \in Views /\ \A v \in Views : v # Root => v \in SynViews
    BY NumViewsAssumption DEF Root, Views, SynViews
  <2>3. \A v \in SynViews : /\ pairs[v][1] \in Views \cup {NoView}
                            /\ pairs[v][2] \in Views \cup {NoView}
                            /\ pairs[v][1] = NoView => pairs[v][2] = NoView
    BY <2>1 DEF TargetPairs
  <2> QED
    BY <2>1, <2>2, <2>3 DEF WalkTypes
<1>2. WalkTypes /\ [WalkNext]_wvars => WalkTypes'
  BY DEF WalkTypes, WalkNext, wvars
<1> QED
  BY <1>1, <1>2, PTL DEF WalkSpec

\* View::ReferencedNodesInner (model.cpp) ends on every graph, cyclic ones included,
\* and has visited exactly the views that can be reached.
THEOREM WalksReachAll == WalkSpec => []WalkReachesAll
BY WalkTypesHold, WalkIsReachability, PTL

\* View::IsAnchored (model.cpp) is right on every acyclic graph, which is what
\* the greedy synthesis keeps (AcyclicReferences).
THEOREM WalksFindAnchors == WalkSpec => []WalkFindsAnchors
BY WalkTypesHold, WalkIsAnchoring, PTL

\* The anchor variables of z3inference have a solution exactly for the graphs in
\* which every view is anchored.
THEOREM LevelsAgree == WalkSpec => []LevelsMeanAnchored
BY WalkTypesHold, WalkLevels, PTL
=============================================================================
