--------------------------- MODULE ConstraintCache ---------------------------
(***************************************************************************)
(* The ConstraintCache of one orientation (model/synthesis.h): the candidate *)
(* attributes ConstraintGenerator derives from the designed places of the    *)
(* views, filtered by further apps if the caller has any, and the targets    *)
(* that InitializePrune allows each view to refer to.                        *)
(* std::sort is not stable, so that the candidates of one view with equal    *)
(* probability may come in any order; candidate_attrs_ is therefore kept as  *)
(* a set per view, and the iteration takes any of the most probable ones.    *)
(***************************************************************************)
EXTENDS ViewGraph, Anchors, Sequences, SequencesExt

CONSTANTS
  Designs,                   \* placements of the views, by view
  OtherApps(_),              \* the further apps a design may come with
  Models,                    \* probability models
  AttrProb(_, _)             \* the probability a model gives to an attribute

Places == [start : Int, end : Int]
Placements == [Views -> Places]

ASSUME PlacementsAssumption ==
  /\ Designs \subseteq Placements
  /\ \A place \in Designs : OtherApps(place) \subseteq Seq(Placements)

VARIABLES
  views,                     \* the placement of the views
  apps,                      \* the placements in the further apps
  model,
  pc,
  view, app,                 \* where the two loops of the constructor stand
  attrs, matches,            \* the locals of InitializeBaseConstraints
  candidate_attrs_,
  pending,                   \* what InitializePrune has not visited yet
  allowed_targets            \* pairs of a view and a view it may refer to

inputs == <<views, apps, model>>
loops == <<view, app, attrs, matches, candidate_attrs_>>
prune == <<pending, allowed_targets>>
vars == <<inputs, pc, loops, prune>>

-----------------------------------------------------------------------------
\* ConstraintGenerator

Attribute(type, view_size, p, s, src, primary, secondary) ==
  [type |-> type, view_size |-> view_size, value_primary |-> p,
   value_secondary |-> s, src |-> src,
   tgt_primary |-> primary, tgt_secondary |-> secondary]

GenFixedSizeRelational(place, src) ==
  {LET type == x[1]
       margin == RelationalMargin(type, place[src], place[x[2]])
   IN  Attribute(type, "FIXED", IF IsTypeStart(type) THEN margin ELSE 0,
                 IF IsTypeStart(type) THEN 0 ELSE margin, src, x[2], NoView) :
     x \in {y \in RelationalTypes \X (Views \ {src}) :
              /\ ~(y[2] = Root /\ IsOpposite(y[1]))
              /\ RelationalMargin(y[1], place[src], place[y[2]]) >= 0}}

TargetPairs(src) == (Views \ {src}) \X (Views \ {src})

\* Mutant of GenFixedSizeCentering: centers on one anchor keep their margin.
CenteringWithMargin(place, src) ==
  {LET margin == CenterMargin(x[1], place[src], place[x[2][1]], place[x[2][2]])
   IN  Attribute(x[1], "FIXED", IF margin > 0 THEN margin ELSE 0,
                 IF margin < 0 THEN -margin ELSE 0, src, x[2][1], x[2][2]) :
     x \in CenterTypes \X TargetPairs(src)}

\* The renderer ignores the margin when both anchors are the same.
GenFixedSizeCentering(place, src) ==
  {LET margin == CenterMargin(x[1], place[src], place[x[2][1]], place[x[2][2]])
   IN  Attribute(x[1], "FIXED", IF margin > 0 THEN margin ELSE 0,
                 IF margin < 0 THEN -margin ELSE 0, src, x[2][1], x[2][2]) :
     x \in {y \in CenterTypes \X TargetPairs(src) :
              \/ y[2][1] # y[2][2]
              \/ y[1].start # y[1].end
              \/ CenterMargin(y[1], place[src], place[y[2][1]], place[y[2][2]]) = 0}}

GenMatchConstraintCentering(place, src) ==
  {Attribute(x[1], "MATCH_CONSTRAINT",
             StartMargin(x[1], place[src], place[x[2][1]]),
             EndMargin(x[1], place[src], place[x[2][2]]), src, x[2][1], x[2][2]) :
     x \in {y \in CenterTypes \X TargetPairs(src) :
              /\ StartMargin(y[1], place[src], place[y[2][1]]) >= 0
              /\ EndMargin(y[1], place[src], place[y[2][2]]) >= 0}}

GenAttributesForApp(place, src) ==
  GenFixedSizeRelational(place, src) \cup GenFixedSizeCentering(place, src)
    \cup GenMatchConstraintCentering(place, src)

-----------------------------------------------------------------------------
\* The constructor

Init ==
  /\ views \in Designs
  /\ apps \in OtherApps(views)
  /\ model \in Models
  /\ pc = "generate"
  /\ view = 1 /\ app = 1
  /\ attrs = <<>> /\ matches = <<>>
  /\ candidate_attrs_ = [v \in SynViews |-> {}]
  /\ pending = [v \in SynViews |-> {}]
  /\ allowed_targets = {}

Generate ==
  /\ pc = "generate"
  /\ view <= NumViews
  /\ attrs' = FoldSet(LAMBDA a, s : Append(s, a), <<>>, GenAttributesForApp(views, view))
  /\ matches' = [i \in DOMAIN attrs' |-> TRUE]
  /\ app' = 1
  /\ pc' = "filter"
  /\ UNCHANGED <<inputs, view, candidate_attrs_, prune>>

\* matches keeps the numbering of the attributes as they were generated, attrs
\* is renumbered by every app that drops some.
StillMatches(m, list, fitting) ==
  [i \in DOMAIN m |-> m[i] /\ (i \in DOMAIN list => list[i] \in fitting)]

Chosen(list, m) ==
  FoldLeftDomain(LAMBDA kept, i : IF m[i] THEN Append(kept, list[i]) ELSE kept, <<>>, list)

FilterByApp ==
  /\ pc = "filter"
  /\ app <= Len(apps)
  /\ matches' = StillMatches(matches, attrs, GenAttributesForApp(apps[app], view))
  /\ attrs' = Chosen(attrs, matches')
  /\ app' = app + 1
  /\ UNCHANGED <<inputs, pc, view, candidate_attrs_, prune>>

\* CHECK(!attrs.empty()) aborts the program.
Emplace ==
  /\ pc = "filter"
  /\ app > Len(apps)
  /\ IF attrs = <<>>
       THEN pc' = "aborted" /\ UNCHANGED <<view, candidate_attrs_>>
       ELSE /\ pc' = "generate"
            /\ candidate_attrs_' = [candidate_attrs_ EXCEPT ![view] = ToSet(attrs)]
            /\ view' = view + 1
  /\ UNCHANGED <<inputs, app, attrs, matches, prune>>

BeginPrune ==
  /\ pc = "generate"
  /\ view > NumViews
  /\ pc' = "prune"
  /\ pending' = candidate_attrs_
  /\ UNCHANGED <<inputs, loops, allowed_targets>>

Probability(a) == AttrProb(model, a)

\* Mutant of IsNext: one list after the other.
NextInLists(a) ==
  /\ a \in pending[a.src]
  /\ \A v \in SynViews : \A b \in pending[v] :
       /\ v >= a.src
       /\ v = a.src => Probability(b) <= Probability(a)

\* MultiSortedIterator: a most probable attribute, of the first such view.
IsNext(a) ==
  /\ a \in pending[a.src]
  /\ \A v \in SynViews : \A b \in pending[v] :
       /\ Probability(b) <= Probability(a)
       /\ v < a.src => Probability(b) < Probability(a)

Targets(a) == {a.tgt_primary, a.tgt_secondary} \ {NoView}

Towards(a) == {a.src} \X Targets(a)
Backwards(a) == Targets(a) \X {a.src}

\* Mutant of Visit: one free target of a center attribute is enough.
VisitEitherFree(a) ==
  /\ pc = "prune"
  /\ IsNext(a)
  /\ pending' = [pending EXCEPT ![a.src] = @ \ {a}]
  /\ allowed_targets' =
       IF Backwards(a) \subseteq allowed_targets
         THEN allowed_targets
         ELSE allowed_targets \cup Towards(a)
  /\ UNCHANGED <<inputs, pc, loops>>

Visit(a) ==
  /\ pc = "prune"
  /\ IsNext(a)
  /\ pending' = [pending EXCEPT ![a.src] = @ \ {a}]
  /\ allowed_targets' =
       IF Backwards(a) \cap allowed_targets = {}
         THEN allowed_targets \cup Towards(a)
         ELSE allowed_targets
  /\ UNCHANGED <<inputs, pc, loops>>

EndPrune ==
  /\ pc = "prune"
  /\ \A v \in SynViews : pending[v] = {}
  /\ pc' = "ready"
  /\ UNCHANGED <<inputs, loops, prune>>

Finished == pc \in {"ready", "aborted"} /\ UNCHANGED vars

Next ==
  \/ Generate
  \/ FilterByApp
  \/ Emplace
  \/ BeginPrune
  \/ \E v \in SynViews : \E a \in pending[v] : Visit(a)
  \/ EndPrune
  \/ Finished

Spec == Init /\ [][Next]_vars

-----------------------------------------------------------------------------
\* What AttrScorer::IsAllowed answers to the solver-based synthesis.

\* Mutant of IsValid: nothing is centered in the content frame.
ValidOffFrame(a) ==
  IF IsRelationalAnchor(a.type)
    THEN ~(a.tgt_primary = Root /\ IsOpposite(a.type))
    ELSE Targets(a) # {Root}

IsValid(a) ==
  IF IsRelationalAnchor(a.type)
    THEN ~(a.tgt_primary = Root /\ IsOpposite(a.type))
    ELSE /\ ~(/\ a.type.start = "end" /\ a.type.end = "start"
              /\ a.tgt_primary = a.tgt_secondary)
         /\ ~(/\ Targets(a) = {Root}
              /\ a.type.start = a.type.end)

IsAllowed(a) == IsValid(a) /\ Towards(a) \subseteq allowed_targets

-----------------------------------------------------------------------------
\* Every candidate reproduces the design: with its targets where they were
\* designed the renderer puts the view where it was designed, in the app and in
\* every further app.  The margins are computed by ConstraintGenerator from
\* doubled centers, the filter works on two lists with two numberings.
\* A view of fixed size is taken to have the size it has in the app at hand; the
\* filter compares attributes, not sizes.
RendersIn(a, place) ==
  \A up \in {0, 1} : Rendered(a, place, place[a.src], up) = place[a.src]

CandidatesRender ==
  \A v \in SynViews : \A a \in candidate_attrs_[v] :
    /\ RendersIn(a, views)
    /\ \A k \in DOMAIN apps : RendersIn(a, apps[k])

\* No two views are allowed to refer to each other, whatever the order in which
\* equally probable attributes come out of the sort.
NotBothWays ==
  \A v, w \in Views : <<v, w>> \in allowed_targets => <<w, v>> \notin allowed_targets

\* The direction between two views is the one of the more probable attribute:
\* a view is not allowed to refer to w when w has a relational attribute to it
\* that is more probable than everything it has to offer towards w.
ProbabilityDecides ==
  pc = "ready" =>
    \A pair \in allowed_targets :
      \A b \in UNION {candidate_attrs_[v] : v \in SynViews} :
        /\ IsRelationalAnchor(b.type)
        /\ b.src = pair[2]
        /\ b.tgt_primary = pair[1]
        => \E a \in candidate_attrs_[pair[1]] :
             pair[2] \in Targets(a) /\ Probability(a) >= Probability(b)

\* Pruning and IsValid leave the solver something for every view of an app that
\* comes alone, and the constructor's CHECK only fails for further apps.
AlwaysAllowed ==
  apps = <<>> =>
    /\ pc # "aborted"
    /\ pc = "ready" => \A v \in SynViews : \E a \in candidate_attrs_[v] : IsAllowed(a)
=============================================================================
