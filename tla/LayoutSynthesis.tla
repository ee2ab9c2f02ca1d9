--------------------------- MODULE LayoutSynthesis ---------------------------
(***************************************************************************)
(* LayoutSynthesis::Synthesize (model/synthesis.h) for one orientation: the *)
(* greedy baseline that gives every view one attribute.  It visits the      *)
(* candidate attributes of all views by falling probability, through the    *)
(* MultiSortedIterator over the ConstraintCache, and applies an attribute   *)
(* when ShouldApplyConstraint says so.  The two orientations share no state *)
(* (attributes is keyed by orientation), so the module models either.       *)
(***************************************************************************)
EXTENDS ViewGraph, Sequences

CONSTANT MaxProb             \* probabilities by their order only: 0 .. MaxProb
ASSUME MaxProbAssumption == MaxProb \in Nat

Attributes ==
  [primary : Views, secondary : Views \cup {NoView}, prob : 0 .. MaxProb]

NoAttribute == [primary |-> NoView, secondary |-> NoView, prob |-> 0]

Targets(attr) == {attr.primary, attr.secondary} \ {NoView}

\* What the constructor of ConstraintCache leaves in candidate_attrs_: for
\* each view a non-empty list of attributes of that view, none of which refers
\* to the view itself, sorted by falling probability.
IsCache(cache) ==
  \A v \in SynViews :
    /\ cache[v] \in Seq(Attributes)
    /\ cache[v] # <<>>
    /\ \A i \in 1 .. Len(cache[v]) : v \notin Targets(cache[v][i])
    /\ \A i, j \in 1 .. Len(cache[v]) :
         i < j => cache[v][i].prob >= cache[v][j].prob

CONSTANT Caches              \* the caches a synthesis may start from
ASSUME CachesAssumption ==
  \A cache \in Caches : DOMAIN cache = SynViews /\ IsCache(cache)

VARIABLES
  candidates,                \* candidate_attrs_, never changed after Init
  top,                       \* MultiSortedIterator::top_, from 1
  attributes                 \* View::attributes at this orientation

vars == <<candidates, top, attributes>>

-----------------------------------------------------------------------------
\* The iterator

Exhausted(v) == top[v] > Len(candidates[v])

Head1(v) == candidates[v][top[v]]

\* SetNext: the non-exhausted list with the most probable head, the first of
\* them on a tie, and the first list when all are exhausted.
IsNext(v) ==
  IF \A w \in SynViews : Exhausted(w)
  THEN v = 1
  ELSE /\ ~Exhausted(v)
       /\ \A w \in SynViews : ~Exhausted(w) =>
            IF w < v THEN Head1(w).prob < Head1(v).prob
                     ELSE Head1(w).prob <= Head1(v).prob

Current == CHOOSE v \in SynViews : IsNext(v)

\* operator== with the end iterator, which stands at the end of the first list
AtEnd == Current = 1 /\ top[1] = Len(candidates[1]) + 1

-----------------------------------------------------------------------------
\* The views

RefsOf(attrs) == [v \in Views |-> IF v = Root THEN {} ELSE Targets(attrs[v])]

Refs == RefsOf(attributes)

HasAttribute(v) == attributes[v] # NoAttribute

\* Mutants of ShouldApplyConstraint: without the circular test; without the
\* case that anchors; with that case for attributes that loosen, too.
AppliesCircular(v, attr) ==
  \/ ~HasAttribute(v)
  \/ ~IsAnchored(Refs, v) /\ IsAnchoredWithAttr(Refs, Targets(attr))

AppliesMoreProbable(v, attr) ==
  /\ ~IsCircularRelation(Refs, v, Targets(attr))
  /\ HasAttribute(v) => attr.prob > attributes[v].prob

AppliesLoosening(v, attr) ==
  /\ ~IsCircularRelation(Refs, v, Targets(attr))
  /\ \/ ~HasAttribute(v)
     \/ IsAnchored(Refs, v) # IsAnchoredWithAttr(Refs, Targets(attr))

ShouldApplyConstraint(v, attr) ==
  /\ ~IsCircularRelation(Refs, v, Targets(attr))
  /\ \/ ~HasAttribute(v)
     \/ /\ IsAnchored(Refs, v) = IsAnchoredWithAttr(Refs, Targets(attr))
        /\ attr.prob > attributes[v].prob
     \/ /\ IsAnchored(Refs, v) # IsAnchoredWithAttr(Refs, Targets(attr))
        /\ IsAnchoredWithAttr(Refs, Targets(attr))

-----------------------------------------------------------------------------
Init ==
  /\ candidates \in Caches
  /\ top = [v \in SynViews |-> 1]
  /\ attributes = [v \in SynViews |-> NoAttribute]

\* Mutant of SkipCandidate: continue without it++.
SkipWithoutAdvance ==
  /\ ~AtEnd
  /\ ~ShouldApplyConstraint(Current, Head1(Current))
  /\ UNCHANGED vars

\* it++ after a candidate that is not applied
SkipCandidate ==
  /\ ~AtEnd
  /\ ~ShouldApplyConstraint(Current, Head1(Current))
  /\ top' = [top EXCEPT ![Current] = @ + 1]
  /\ UNCHANGED <<candidates, attributes>>

\* ApplyAttribute; if that anchors the view, SetCurrentToEnd; then it++
ApplyCandidate ==
  /\ ~AtEnd
  /\ ShouldApplyConstraint(Current, Head1(Current))
  /\ attributes' = [attributes EXCEPT ![Current] = Head1(Current)]
  /\ top' = [top EXCEPT ![Current] =
               IF IsAnchored(RefsOf(attributes'), Current)
               THEN Len(candidates[Current]) + 1
               ELSE @ + 1]
  /\ UNCHANGED candidates

Terminated == AtEnd /\ UNCHANGED vars

Next == SkipCandidate \/ ApplyCandidate \/ Terminated

\* Synthesize is one sequential loop, so its steps are weakly fair.
Spec == Init /\ [][Next]_vars /\ WF_vars(SkipCandidate \/ ApplyCandidate)

-----------------------------------------------------------------------------
\* Properties

\* The types of the synthesis state: candidates stay a cache, the iterator
\* stays within one past the end of each list.
TypeOK ==
  /\ DOMAIN candidates = SynViews /\ IsCache(candidates)
  /\ top \in [SynViews -> Nat \ {0}]
  /\ \A v \in SynViews : top[v] <= Len(candidates[v]) + 1
  /\ attributes \in [SynViews -> Attributes \cup {NoAttribute}]

\* No view ever refers to itself through its targets, although attributes are
\* replaced while other views already refer to their owner: the walks of
\* IsAnchored and ReferencedNodes and the layout solver rely on it.
ReferencesAcyclic == Acyclic(Refs)

\* Once the attributes of a view tie it to the content frame, neither its own
\* attribute changes any more nor do those below it loosen it again.
AnchoredForGood ==
  [][\A v \in SynViews : IsAnchored(Refs, v) =>
       /\ attributes'[v] = attributes[v]
       /\ IsAnchored(RefsOf(attributes'), v)]_vars

\* An attribute gives way only to one that anchors its view: the branch of
\* ShouldApplyConstraint that compares probabilities never replaces anything,
\* because the iterator yields the candidates of a view by falling probability.
ReplacedOnlyToAnchor ==
  [][\A v \in SynViews : HasAttribute(v) /\ attributes'[v] # attributes[v] =>
       IsAnchored(RefsOf(attributes'), v)]_vars

RootCandidate(v) ==
  \E i \in 1 .. Len(candidates[v]) : Targets(candidates[v][i]) = {Root}

\* When the loop ends every view that had a candidate relative to the content
\* frame is anchored, whatever was applied to it before.  The centering
\* generators give every view such a candidate; only the filter over several
\* apps can take it away.
AnchoredAtEnd ==
  AtEnd => \A v \in SynViews : RootCandidate(v) => IsAnchored(Refs, v)

\* The iterator yields attributes by falling probability across all views,
\* also after the rest of an anchored view's list was skipped.
FallingProbability ==
  [][~AtEnd /\ ~AtEnd' => Head1(Current)'.prob <= Head1(Current).prob]_vars

\* The end test, which looks at the first list only, holds exactly when every
\* candidate list is used up: no view's candidates are left unvisited.
EndMeansExhausted == AtEnd <=> \A v \in SynViews : Exhausted(v)

\* The inductive invariant behind the properties above: besides the types and
\* the acyclic references, no candidate still to be visited beats the applied
\* attribute of its view, and a view whose content-frame candidate was visited
\* is anchored.
ChosenBeatsRest ==
  \A v \in SynViews : HasAttribute(v) =>
    \A i \in top[v] .. Len(candidates[v]) :
      candidates[v][i].prob <= attributes[v].prob

RootCandidatesDone ==
  \A v \in SynViews : \A i \in 1 .. Len(candidates[v]) :
    i < top[v] /\ Targets(candidates[v][i]) = {Root} => IsAnchored(Refs, v)

IInv == TypeOK /\ ReferencesAcyclic /\ ChosenBeatsRest /\ RootCandidatesDone

\* The loop comes to its end.
Terminates == <>AtEnd
=============================================================================
