-------------------------- MODULE ConsistencyRepair --------------------------
(***************************************************************************)
(* TryFixInconsistencies and NormalizeMargins (model/syn_helper.cpp), called *)
(* one after the other on every synthesized app.  The solver takes a center  *)
(* that is half a unit low for right, and the renderer may put such a view   *)
(* one unit off its design.  The first function moves such views by their    *)
(* margin, the second drops margins of one unit that make no difference.     *)
(* An app is a function from orientations to the attributes of its views;    *)
(* each call of the layout server is one step.                               *)
(***************************************************************************)
EXTENDS ViewGraph, Anchors, FiniteSets

Orientations == 1 .. 2       \* horizontal, vertical
Attributes == [type : ConstraintTypes, view_size : {"FIXED", "MATCH_CONSTRAINT"},
               value_primary : Nat, value_secondary : Nat,
               tgt_primary : Views, tgt_secondary : Views]
Apps == [Orientations -> [SynViews -> Attributes]]

\* What the solver has asserted of an attribute, own being the place its view is
\* designed at: it is exact, but round_real2int also gives 0 for a center half a
\* unit low.  The renderer ignores the margins of a view centered on one anchor.
SatisfiesConstraint(attr, place, own) ==
  LET type == attr.type
      p == attr.value_primary
      s == attr.value_secondary
      l == place[attr.tgt_primary]
      r == place[attr.tgt_secondary]
  IN  IF IsRelationalAnchor(type)
        THEN RelationalMargin(type, own, l) = IF IsTypeStart(type) THEN p ELSE s
      ELSE IF attr.view_size = "MATCH_CONSTRAINT"
        THEN p = StartMargin(type, own, l) /\ s = EndMargin(type, own, r)
      ELSE /\ p - s - CenterMargin(type, own, l, r) \in {-1, 0}
           /\ OneAnchor(attr) => p = 0 /\ s = 0

\* What the synthesis may hand over: an app with acyclic references, where its
\* views are designed, and how its renderer rounds.  The secondary target of a
\* relational attribute is its primary one.  The margins are below 10000, where
\* GetMargins reads them as the solver chose them; larger ones it reads as 0.
CONSTANT Inputs
Refs(attributes) ==
  [v \in Views |-> IF v = Root THEN {}
     ELSE {attributes[v].tgt_primary, attributes[v].tgt_secondary}]
ASSUME InputsAssumption ==
  \A input \in Inputs :
    /\ input.app \in Apps
    /\ input.place \in [Orientations -> [Views -> [start : Int, end : Int]]]
    /\ input.up \in {0, 1}
    /\ \A o \in Orientations :
         /\ Acyclic(Refs(input.app[o]))
         /\ \A v \in SynViews :
              SatisfiesConstraint(input.app[o][v], input.place[o], input.place[o][v])

VARIABLES
  input,
  ref_app,                   \* the app of the caller
  app,                       \* the working copy
  pc,
  o,                         \* the orientation of the loop
  view_ids,                  \* the views the loop still has to deal with
  resolved_ids,
  fixed                      \* what TryFixInconsistencies returned

vars == <<input, ref_app, app, pc, o, view_ids, resolved_ids, fixed>>

-----------------------------------------------------------------------------
\* The layout server: as the references are acyclic, the places of the targets
\* give the place of every view.
Layout(attributes, place, up) ==
  LET where[v \in Views] ==
        IF v = Root THEN place[v] ELSE Rendered(attributes[v], where, place[v], up)
  IN  where

rendered(a, or) == Layout(a[or], input.place[or], input.up)

FindNonMatchingViews(a, or) ==
  LET now == rendered(a, or) IN {v \in Views : now[v] # input.place[or][v]}

AppMatch(a) == \A or \in Orientations : FindNonMatchingViews(a, or) = {}

IsIndependent(v, or, ids) ==
  ReferencedNodes(Refs(input.app[or]), v) \cap ids = {v}

-----------------------------------------------------------------------------
\* TryFixInconsistencies

Begin ==
  /\ pc = "fix"
  /\ app' = ref_app
  /\ IF AppMatch(ref_app)
       THEN fixed' = TRUE /\ pc' = "normalize" /\ UNCHANGED <<o, view_ids>>
       ELSE /\ pc' = "fixing" /\ o' = 1
            /\ view_ids' = FindNonMatchingViews(ref_app, 1)
            /\ UNCHANGED fixed
  /\ UNCHANGED <<input, ref_app, resolved_ids>>

\* Mutant of TryFixNode: the margin grows by the difference.
MoveAway(attr, diff) ==
  IF attr.value_primary = 0 /\ attr.value_secondary > 0
    THEN [attr EXCEPT !.value_secondary = @ + diff]
    ELSE attr

TryFixNode(attr, diff) ==
  IF attr.value_primary = 0 /\ attr.value_secondary > 0
    THEN [attr EXCEPT !.value_secondary = @ - diff]
    ELSE attr

\* How far each view has to move.
Diff == LET now == rendered(app, o)
        IN  [v \in SynViews |-> input.place[o][v].start - now[v].start]

\* A round changes the views that are one unit off by their own fault only.
FixedApp ==
  LET diff == Diff
      toFix == {v \in view_ids : diff[v] \in {-1, 1} /\ IsIndependent(v, o, view_ids)}
  IN  [app EXCEPT ![o] = [v \in SynViews |->
         IF v \in toFix THEN TryFixNode(app[o][v], diff[v]) ELSE app[o][v]]]

\* Mutant of FixRound: it goes on as long as a view is wrong.
FixRoundAgain ==
  /\ pc = "fixing"
  /\ view_ids # {}
  /\ app' = FixedApp
  /\ view_ids' = FindNonMatchingViews(app', o)
  /\ UNCHANGED <<input, ref_app, o, resolved_ids, fixed, pc>>

FixRound ==
  /\ pc = "fixing"
  /\ view_ids # {}
  /\ app' = FixedApp
  /\ LET cview_ids == FindNonMatchingViews(app', o) IN
       IF Cardinality(cview_ids) = Cardinality(view_ids)
         THEN fixed' = FALSE /\ pc' = "normalize" /\ UNCHANGED view_ids
         ELSE view_ids' = cview_ids /\ UNCHANGED <<fixed, pc>>
  /\ UNCHANGED <<input, ref_app, o, resolved_ids>>

FixOrientationDone ==
  /\ pc = "fixing"
  /\ view_ids = {}
  /\ IF o = 1
       THEN /\ o' = 2 /\ view_ids' = FindNonMatchingViews(app, 2)
            /\ UNCHANGED <<ref_app, fixed, pc>>
       ELSE /\ ref_app' = app /\ fixed' = TRUE /\ pc' = "normalize"
            /\ UNCHANGED <<o, view_ids>>
  /\ UNCHANGED <<input, app, resolved_ids>>

-----------------------------------------------------------------------------
\* NormalizeMargins

FindUnnormalizedAttributes(a, or, resolved) ==
  {v \in SynViews \ resolved :
     a[or][v].value_primary + a[or][v].value_secondary = 1}

BeginNormalize ==
  /\ pc = "normalize"
  /\ IF /\ \E or \in Orientations : FindUnnormalizedAttributes(ref_app, or, {}) # {}
        /\ AppMatch(ref_app)
       THEN /\ app' = ref_app /\ pc' = "normalizing" /\ o' = 1
            /\ view_ids' = FindUnnormalizedAttributes(ref_app, 1, {})
            /\ resolved_ids' = {}
       ELSE pc' = "done" /\ UNCHANGED <<app, o, view_ids, resolved_ids>>
  /\ UNCHANGED <<input, ref_app, fixed>>

Independent == {v \in view_ids : IsIndependent(v, o, view_ids)}

\* The first independent view, if there is one, is tried without its margin.
Tried == {v \in Independent : \A w \in Independent : v <= w}

Normalized ==
  LET tried == Tried
  IN  [app EXCEPT ![o] = [v \in SynViews |->
         IF v \in tried THEN [app[o][v] EXCEPT !.value_primary = 0, !.value_secondary = 0]
                        ELSE app[o][v]]]

\* Mutant of NormalizeRound: the working copy keeps what made a difference.
KeptOnFailure ==
  /\ pc = "normalizing"
  /\ view_ids # {}
  /\ resolved_ids' = resolved_ids \cup Tried
  /\ app' = Normalized
  /\ ref_app' = Normalized
  /\ view_ids' = FindUnnormalizedAttributes(app', o, resolved_ids')
  /\ UNCHANGED <<input, pc, o, fixed>>

NormalizeRound ==
  /\ pc = "normalizing"
  /\ view_ids # {}
  /\ resolved_ids' = resolved_ids \cup Tried
  /\ IF AppMatch(Normalized)
       THEN app' = Normalized /\ ref_app' = Normalized
       ELSE app' = ref_app /\ UNCHANGED ref_app
  /\ view_ids' = FindUnnormalizedAttributes(app', o, resolved_ids')
  /\ UNCHANGED <<input, pc, o, fixed>>

NormalizeOrientationDone ==
  /\ pc = "normalizing"
  /\ view_ids = {}
  /\ IF o = 1
       THEN /\ o' = 2 /\ resolved_ids' = {}
            /\ view_ids' = FindUnnormalizedAttributes(app, 2, {})
            /\ UNCHANGED pc
       ELSE pc' = "done" /\ UNCHANGED <<o, resolved_ids, view_ids>>
  /\ UNCHANGED <<input, ref_app, app, fixed>>

-----------------------------------------------------------------------------
Init ==
  /\ input \in Inputs
  /\ ref_app = input.app /\ app = input.app
  /\ pc = "fix" /\ o = 1
  /\ view_ids = {} /\ resolved_ids = {}
  /\ fixed = FALSE

Done == pc = "done" /\ UNCHANGED vars

Step ==
  \/ Begin \/ FixRound \/ FixOrientationDone
  \/ BeginNormalize \/ NormalizeRound \/ NormalizeOrientationDone

Next == Step \/ Done

\* One thread runs the two functions; the server answers every request.
Spec == Init /\ [][Next]_vars /\ WF_vars(Step)

-----------------------------------------------------------------------------
\* TryFixInconsistencies only claims success for an app that is rendered as it
\* was designed in both orientations, and NormalizeMargins, which edits that app
\* in place, never gives this up again.
SuccessIsRendered == pc \in {"normalize", "normalizing", "done"} /\ fixed => AppMatch(ref_app)

\* A view that is off by its own fault and can be moved by its margin.
Movable(a, or, v) ==
  a[or][v].value_primary = 0 /\ a[or][v].value_secondary > 0

\* The repair gives up only if some view that is not rendered where it was
\* designed has no margin to move it by: stopping when a round leaves as many
\* views wrong as it found never stops short, and no order of rounds is needed.
GivesUpForReason ==
  pc = "done" /\ ~fixed =>
    \E or \in Orientations : \E v \in FindNonMatchingViews(input.app, or) :
      ~Movable(input.app, or, v)

\* Both loops end: the repair goes on while the number of wrong views changes,
\* which must not alternate, the normalization while a view has a unit margin,
\* although views depend on each other and some need theirs.
Terminates == <>(pc = "done")
=============================================================================
