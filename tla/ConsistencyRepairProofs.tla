---------------------- MODULE ConsistencyRepairProofs ----------------------
(***************************************************************************)
(* That TryFixInconsistencies claims no success it has not reached, whatever *)
(* the layout server answers: this uses of the server only that its answer   *)
(* for one orientation depends on the attributes of this orientation.  And   *)
(* that it gives up only for a reason, which rests on how views are laid out *)
(* and on what the solver asserts of them.                                   *)
(***************************************************************************)
EXTENDS ConsistencyRepair, OperatorLemmas

\* The loop over the orientations knows which views are wrong in the one it is
\* at, and that it left none behind.
LoopInv ==
  pc = "fixing" =>
    /\ view_ids = FindNonMatchingViews(app, o)
    /\ o = 2 => FindNonMatchingViews(app, 1) = {}

\* Both apps have both orientations.
DomainInv ==
  /\ o \in Orientations
  /\ Orientations \subseteq DOMAIN app
  /\ Orientations \subseteq DOMAIN ref_app

\* The inductive invariant behind SuccessIsRendered.
RepairInv == DomainInv /\ LoopInv /\ SuccessIsRendered

-----------------------------------------------------------------------------
\* Which views are wrong in an orientation only depends on its attributes.
LEMMA OwnOrientationOnly ==
  ASSUME NEW a, NEW b, NEW or, a[or] = b[or]
  PROVE  FindNonMatchingViews(a, or) = FindNonMatchingViews(b, or)
  BY DEF FindNonMatchingViews, rendered

\* An app matches when no view of either orientation is wrong.
LEMMA MatchIsBoth ==
  ASSUME NEW a
  PROVE  AppMatch(a) <=> /\ FindNonMatchingViews(a, 1) = {}
                         /\ FindNonMatchingViews(a, 2) = {}
  BY SMT DEF AppMatch, Orientations

\* A round edits one orientation of the app.
LEMMA FixedAppKeepsOther ==
  ASSUME DomainInv
  PROVE  /\ DOMAIN FixedApp = DOMAIN app
         /\ o = 2 => FixedApp[1] = app[1]
  BY SMT DEF FixedApp, DomainInv, Orientations

\* Initially no loop runs and no success is claimed.
LEMMA InitEstablishes == Init => RepairInv
<1> SUFFICES ASSUME Init PROVE RepairInv
  OBVIOUS
<1>1. input.app \in Apps
  BY InputsAssumption DEF Init
<1>2. DOMAIN input.app = Orientations
  BY <1>1 DEF Apps
<1>3. DomainInv
  BY <1>2, SMT DEF Init, DomainInv, Orientations
<1>4. LoopInv /\ SuccessIsRendered
  BY DEF Init, LoopInv, SuccessIsRendered
<1> QED
  BY <1>3, <1>4 DEF RepairInv

\* Every step keeps the invariant.
LEMMA StepPreserves == RepairInv /\ [Next]_vars => RepairInv'
<1> SUFFICES ASSUME RepairInv, [Next]_vars PROVE RepairInv'
  OBVIOUS
<1> USE DEF RepairInv
<1>1. CASE Begin
  <2>1. /\ app' = ref_app /\ ref_app' = ref_app /\ input' = input
        /\ o' = o \/ o' = 1
    BY <1>1 DEF Begin
  <2>2. DomainInv'
    BY <2>1, SMT DEF DomainInv, Orientations
  <2>3. CASE AppMatch(ref_app)
    <3>1. pc' = "normalize"
      BY <1>1, <2>3 DEF Begin
    <3>2. AppMatch(ref_app)'
      BY <2>1, <2>3 DEF AppMatch, FindNonMatchingViews, rendered
    <3> QED
      BY <2>2, <3>1, <3>2 DEF LoopInv, SuccessIsRendered
  <2>4. CASE ~AppMatch(ref_app)
    <3>1. /\ pc' = "fixing" /\ o' = 1
          /\ view_ids' = FindNonMatchingViews(ref_app, 1)
      BY <1>1, <2>4 DEF Begin
    <3>2. view_ids' = FindNonMatchingViews(app, o)'
      BY <2>1, <3>1 DEF FindNonMatchingViews, rendered
    <3> QED
      BY <2>2, <3>1, <3>2 DEF LoopInv, SuccessIsRendered
  <2> QED
    BY <2>3, <2>4
<1>2. CASE FixRound
  <2>1. /\ pc = "fixing"
        /\ app' = FixedApp /\ ref_app' = ref_app /\ input' = input /\ o' = o
    BY <1>2 DEF FixRound
  <2>2. DomainInv'
    BY <2>1, FixedAppKeepsOther, SMT DEF DomainInv
  <2>3. CASE Cardinality(FindNonMatchingViews(app', o)) = Cardinality(view_ids)
    <3>1. fixed' = FALSE /\ pc' = "normalize"
      BY <1>2, <2>3 DEF FixRound
    <3> QED
      BY <2>2, <3>1 DEF LoopInv, SuccessIsRendered
  <2>4. CASE Cardinality(FindNonMatchingViews(app', o)) # Cardinality(view_ids)
    <3>1. view_ids' = FindNonMatchingViews(app', o) /\ pc' = "fixing"
      BY <1>2, <2>1, <2>4 DEF FixRound
    <3>2. view_ids' = FindNonMatchingViews(app, o)'
      BY <2>1, <3>1 DEF FindNonMatchingViews, rendered
    <3>3. o = 2 => FindNonMatchingViews(app', 1) = {}
      BY <2>1, FixedAppKeepsOther, OwnOrientationOnly DEF LoopInv
    <3>4. o' = 2 => FindNonMatchingViews(app, 1)' = {}
      BY <2>1, <3>3 DEF FindNonMatchingViews, rendered
    <3> QED
      BY <2>2, <3>1, <3>2, <3>4 DEF LoopInv, SuccessIsRendered
  <2> QED
    BY <2>3, <2>4
<1>3. CASE FixOrientationDone
  <2>1. /\ pc = "fixing" /\ view_ids = {}
        /\ input' = input /\ app' = app
    BY <1>3 DEF FixOrientationDone
  <2>2. CASE o = 1
    <3>1. /\ o' = 2 /\ view_ids' = FindNonMatchingViews(app, 2)
          /\ ref_app' = ref_app /\ pc' = pc
      BY <1>3, <2>2 DEF FixOrientationDone
    <3>2. FindNonMatchingViews(app, 1) = {}
      BY <2>1, <2>2 DEF LoopInv
    <3>3. /\ FindNonMatchingViews(app, 1)' = {}
          /\ view_ids' = FindNonMatchingViews(app, o)'
      BY <2>1, <3>1, <3>2 DEF FindNonMatchingViews, rendered
    <3>4. DomainInv'
      BY <2>1, <3>1, SMT DEF DomainInv, Orientations
    <3> QED
      BY <2>1, <3>1, <3>3, <3>4 DEF LoopInv, SuccessIsRendered
  <2>3. CASE o # 1
    <3>1. o = 2
      BY <2>3, SMT DEF DomainInv, Orientations
    <3>2. ref_app' = app /\ pc' = "normalize" /\ o' = o
      BY <1>3, <2>3 DEF FixOrientationDone
    <3>3. FindNonMatchingViews(app, 1) = {} /\ FindNonMatchingViews(app, 2) = {}
      BY <2>1, <3>1 DEF LoopInv
    <3>4. AppMatch(app)
      BY <3>3, MatchIsBoth
    <3>5. AppMatch(ref_app)'
      BY <2>1, <3>2, <3>4 DEF AppMatch, FindNonMatchingViews, rendered
    <3>6. DomainInv'
      BY <2>1, <3>2 DEF DomainInv
    <3> QED
      BY <3>2, <3>5, <3>6 DEF LoopInv, SuccessIsRendered
  <2> QED
    BY <2>2, <2>3
<1>4. CASE BeginNormalize
  <2>1. /\ pc = "normalize" /\ ref_app' = ref_app /\ input' = input /\ fixed' = fixed
        /\ pc' \in {"normalizing", "done"}
        /\ app' = ref_app \/ app' = app
        /\ o' = 1 \/ o' = o
    BY <1>4 DEF BeginNormalize
  <2>2. DomainInv'
    BY <2>1, SMT DEF DomainInv, Orientations
  <2>3. fixed => AppMatch(ref_app)
    BY <2>1 DEF SuccessIsRendered
  <2>4. fixed' => AppMatch(ref_app)'
    BY <2>1, <2>3 DEF AppMatch, FindNonMatchingViews, rendered
  <2> QED
    BY <2>1, <2>2, <2>4 DEF LoopInv, SuccessIsRendered
<1>5. CASE NormalizeRound
  <2>1. pc = "normalizing" /\ input' = input /\ pc' = pc /\ o' = o /\ fixed' = fixed
    BY <1>5 DEF NormalizeRound
  <2>2. DOMAIN Normalized = DOMAIN app
    BY DEF Normalized
  <2>3. fixed => AppMatch(ref_app)
    BY <2>1 DEF SuccessIsRendered
  <2>4. CASE AppMatch(Normalized)
    <3>1. app' = Normalized /\ ref_app' = Normalized
      BY <1>5, <2>4 DEF NormalizeRound
    <3>2. AppMatch(ref_app)'
      BY <2>1, <2>4, <3>1 DEF AppMatch, FindNonMatchingViews, rendered
    <3>3. DomainInv'
      BY <2>1, <2>2, <3>1 DEF DomainInv
    <3> QED
      BY <2>1, <3>2, <3>3 DEF LoopInv, SuccessIsRendered
  <2>5. CASE ~AppMatch(Normalized)
    <3>1. app' = ref_app /\ ref_app' = ref_app
      BY <1>5, <2>5 DEF NormalizeRound
    <3>2. fixed' => AppMatch(ref_app)'
      BY <2>1, <2>3, <3>1 DEF AppMatch, FindNonMatchingViews, rendered
    <3>3. DomainInv'
      BY <2>1, <3>1 DEF DomainInv
    <3> QED
      BY <2>1, <3>2, <3>3 DEF LoopInv, SuccessIsRendered
  <2> QED
    BY <2>4, <2>5
<1>6. CASE NormalizeOrientationDone
  <2>1. /\ pc = "normalizing" /\ ref_app' = ref_app /\ input' = input /\ fixed' = fixed
        /\ app' = app /\ pc' \in {"normalizing", "done"} /\ (o' = 2 \/ o' = o)
    BY <1>6 DEF NormalizeOrientationDone
  <2>2. fixed => AppMatch(ref_app)
    BY <2>1 DEF SuccessIsRendered
  <2>3. fixed' => AppMatch(ref_app)'
    BY <2>1, <2>2 DEF AppMatch, FindNonMatchingViews, rendered
  <2>4. DomainInv'
    BY <2>1, SMT DEF DomainInv, Orientations
  <2> QED
    BY <2>1, <2>3, <2>4 DEF LoopInv, SuccessIsRendered
<1>7. CASE UNCHANGED vars
  BY <1>7 DEF vars, DomainInv, LoopInv, SuccessIsRendered, AppMatch,
              FindNonMatchingViews, rendered
<1> QED
  BY <1>1, <1>2, <1>3, <1>4, <1>5, <1>6, <1>7 DEF Next, Step, Done

-----------------------------------------------------------------------------
\* An app that TryFixInconsistencies reports as consistent is rendered as it was
\* designed, in both orientations, and NormalizeMargins leaves it so: for every
\* number of views, every layout server and every app.
THEOREM RepairIsHonest == Spec => []SuccessIsRendered
<1>1. Init => RepairInv
  BY InitEstablishes
<1>2. RepairInv /\ [Next]_vars => RepairInv'
  BY StepPreserves
<1>3. RepairInv => SuccessIsRendered
  BY DEF RepairInv
<1> QED
  BY <1>1, <1>2, <1>3, PTL DEF Spec

-----------------------------------------------------------------------------
\* How one view is laid out

\* Where a view can be.
Spots == [start : Int, end : Int]

\* Neither side of x is beyond that of y.
Low(x, y) == x.start <= y.start /\ x.end <= y.end

\* b is a, or a with a smaller margin at the end.
Released(a, b) ==
  /\ b.type = a.type /\ b.view_size = a.view_size
  /\ b.tgt_primary = a.tgt_primary /\ b.tgt_secondary = a.tgt_secondary
  /\ b.value_primary = a.value_primary /\ b.value_secondary <= a.value_secondary

\* The three kinds of constraint types.
LEMMA KindsOfTypes ==
  ASSUME NEW type \in ConstraintTypes
  PROVE  \/ IsRelationalAnchor(type) /\ IsTypeStart(type) /\ type.start \in Sides
         \/ IsRelationalAnchor(type) /\ ~IsTypeStart(type) /\ type.end \in Sides
         \/ ~IsRelationalAnchor(type) /\ type.start \in Sides /\ type.end \in Sides
BY DEF ConstraintTypes, RelationalTypes, CenterTypes, Sides, None, IsRelationalAnchor, IsTypeStart

\* The sides of a spot.
LEMMA SidesOfSpots ==
  ASSUME NEW x \in Spots, NEW y \in Spots, NEW side \in Sides
  PROVE  /\ x[side] \in Int /\ y[side] \in Int
         /\ Low(x, y) => x[side] <= y[side]
BY DEF Spots, Sides, Low

\* Halving, rounding down, keeps the order.
LEMMA HalvesFall ==
  ASSUME NEW m \in Int, NEW n \in Int, m <= n
  PROVE  m \div 2 \in Int /\ n \div 2 \in Int /\ m \div 2 <= n \div 2
OBVIOUS

\* A view follows its targets, and moves right when a margin at its end shrinks.
LEMMA RenderedRises ==
  ASSUME NEW a \in Attributes, NEW b \in Attributes, Released(a, b),
         NEW p, NEW q, NEW own \in Spots, NEW up \in {0, 1},
         p[a.tgt_primary] \in Spots, q[a.tgt_primary] \in Spots,
         p[a.tgt_secondary] \in Spots, q[a.tgt_secondary] \in Spots,
         Low(p[a.tgt_primary], q[a.tgt_primary]), Low(p[a.tgt_secondary], q[a.tgt_secondary])
  PROVE  /\ Rendered(a, p, own, up) \in Spots /\ Rendered(b, q, own, up) \in Spots
         /\ Low(Rendered(a, p, own, up), Rendered(b, q, own, up))
<1> DEFINE type == a.type
           v == a.value_primary
           s == a.value_secondary
           t == b.value_secondary
           l == p[a.tgt_primary]
           r == p[a.tgt_secondary]
           k == q[a.tgt_primary]
           m == q[a.tgt_secondary]
           width == own.end - own.start
<1>1. /\ type \in ConstraintTypes /\ v \in Nat /\ s \in Nat /\ t \in Nat /\ t <= s
      /\ b.type = type /\ b.value_primary = v /\ b.view_size = a.view_size
      /\ b.tgt_primary = a.tgt_primary /\ b.tgt_secondary = a.tgt_secondary
  BY DEF Attributes, Released
<1>2. width \in Int /\ own.start \in Int /\ own.end \in Int
  BY DEF Spots
<1>3. /\ l \in Spots /\ r \in Spots /\ k \in Spots /\ m \in Spots
      /\ Low(l, k) /\ Low(r, m)
  OBVIOUS
<1>4. OneAnchor(b) = OneAnchor(a)
  BY <1>1 DEF OneAnchor
<1>5. CASE IsRelationalAnchor(type) /\ IsTypeStart(type) /\ type.start \in Sides
  <2>1. Rendered(a, p, own, up) = [start |-> l[type.start] + v, end |-> l[type.start] + v + width]
    BY <1>5 DEF Rendered, Aligned
  <2>2. Rendered(b, q, own, up) = [start |-> k[type.start] + v, end |-> k[type.start] + v + width]
    BY <1>1, <1>5 DEF Rendered, Aligned
  <2>3. l[type.start] \in Int /\ k[type.start] \in Int /\ l[type.start] <= k[type.start]
    BY <1>3, <1>5, SidesOfSpots
  <2> HIDE DEF type, v, l, k, width
  <2> QED
    BY <1>1, <1>2, <2>1, <2>2, <2>3 DEF Spots, Low
<1>6. CASE IsRelationalAnchor(type) /\ ~IsTypeStart(type) /\ type.end \in Sides
  <2>1. Rendered(a, p, own, up)
          = [start |-> l[type.end] - s - width, end |-> l[type.end] - s - width + width]
    BY <1>6 DEF Rendered, Aligned
  <2>2. Rendered(b, q, own, up)
          = [start |-> k[type.end] - t - width, end |-> k[type.end] - t - width + width]
    BY <1>1, <1>6 DEF Rendered, Aligned
  <2>3. l[type.end] \in Int /\ k[type.end] \in Int /\ l[type.end] <= k[type.end]
    BY <1>3, <1>6, SidesOfSpots
  <2> HIDE DEF type, s, t, l, k, width
  <2> QED
    BY <1>1, <1>2, <2>1, <2>2, <2>3 DEF Spots, Low
<1>7. CASE ~IsRelationalAnchor(type) /\ type.start \in Sides /\ type.end \in Sides
  <2>1. /\ l[type.start] \in Int /\ k[type.start] \in Int /\ l[type.start] <= k[type.start]
        /\ r[type.end] \in Int /\ m[type.end] \in Int /\ r[type.end] <= m[type.end]
    BY <1>3, <1>7, SidesOfSpots
  <2>2. CASE a.view_size = "MATCH_CONSTRAINT"
    <3>1. Rendered(a, p, own, up) = [start |-> l[type.start] + v, end |-> r[type.end] - s]
      BY <1>7, <2>2 DEF Rendered, Stretched
    <3>2. Rendered(b, q, own, up) = [start |-> k[type.start] + v, end |-> m[type.end] - t]
      BY <1>1, <1>7, <2>2 DEF Rendered, Stretched
    <3> HIDE DEF type, v, s, t, l, k, r, m
    <3> QED
      BY <1>1, <2>1, <3>1, <3>2 DEF Spots, Low
  <2>3. CASE a.view_size # "MATCH_CONSTRAINT"
    <3> DEFINE same == OneAnchor(a)
               x == l[type.start] + r[type.end] + (IF same THEN 0 ELSE v - s) - width + up
               y == k[type.start] + m[type.end] + (IF same THEN 0 ELSE v - t) - width + up
    <3>1. Rendered(a, p, own, up) = [start |-> x \div 2, end |-> x \div 2 + width]
      BY <1>7, <2>3, Zenon DEF Rendered, Centered
    <3>2. Rendered(b, q, own, up) = [start |-> y \div 2, end |-> y \div 2 + width]
      BY <1>1, <1>4, <1>7, <2>3, Zenon DEF Rendered, Centered
    <3>3. x \in Int /\ y \in Int /\ x <= y
      <4> HIDE DEF type, v, s, t, l, k, r, m, width, same
      <4> QED
        BY <1>1, <1>2, <2>1
    <3> HIDE DEF x, y, width
    <3>4. x \div 2 \in Int /\ y \div 2 \in Int /\ x \div 2 <= y \div 2
      BY <3>3, HalvesFall
    <3> QED
      BY <1>2, <3>1, <3>2, <3>4 DEF Spots, Low
  <2> QED
    BY <2>2, <2>3
<1> QED
  BY <1>1, <1>5, <1>6, <1>7, KindsOfTypes

\* Half a unit disappears, or costs one, depending on how the renderer rounds.
LEMMA HalfUnit ==
  ASSUME NEW n \in Int, NEW up \in {0, 1}
  PROVE  /\ (n + n + up) \div 2 = n
         /\ (n + n - 1 + up) \div 2 \in {n, n - 1}
OBVIOUS

\* With its targets in place, a view is in place or, centered, one unit low; then
\* one unit less of its margin, unless there is none, puts it in place.
LEMMA RenderedAtDesign ==
  ASSUME NEW a \in Attributes, NEW place, NEW own \in Spots, NEW up \in {0, 1},
         place[a.tgt_primary] \in Spots, place[a.tgt_secondary] \in Spots,
         SatisfiesConstraint(a, place, own)
  PROVE  /\ Rendered(a, place, own, up) \in Spots
         /\ Low(Rendered(a, place, own, up), own)
         /\ Rendered(a, place, own, up) # own =>
              Rendered(a, place, own, up).start = own.start - 1
         /\ Rendered(a, place, own, up) # own /\ a.value_primary = 0 /\ a.value_secondary > 0 =>
              LET b == [a EXCEPT !.value_secondary = @ - 1]
              IN  /\ b \in Attributes /\ Released(a, b)
                  /\ SatisfiesConstraint(b, place, own)
                  /\ Rendered(b, place, own, up) = own
<1> DEFINE type == a.type
           p == a.value_primary
           s == a.value_secondary
           l == place[a.tgt_primary]
           r == place[a.tgt_secondary]
           width == own.end - own.start
           b == [a EXCEPT !.value_secondary = @ - 1]
<1>1. type \in ConstraintTypes /\ p \in Nat /\ s \in Nat
  BY DEF Attributes
<1>2. /\ own.start \in Int /\ own.end \in Int /\ own = [start |-> own.start, end |-> own.end]
      /\ l \in Spots /\ r \in Spots
  BY DEF Spots
<1>3. CASE IsRelationalAnchor(type) /\ IsTypeStart(type) /\ type.start \in Sides
  <2>1. Rendered(a, place, own, up) = [start |-> l[type.start] + p, end |-> l[type.start] + p + width]
    BY <1>3 DEF Rendered, Aligned
  <2>2. own.start - l[type.start] = p
    BY <1>3 DEF SatisfiesConstraint, RelationalMargin, StartMargin
  <2>3. l[type.start] \in Int
    BY <1>2, <1>3, SidesOfSpots
  <2>4. l[type.start] + p = own.start
    BY <1>1, <1>2, <2>2, <2>3
  <2>5. Rendered(a, place, own, up) = own
    BY <1>2, <2>1, <2>4
  <2> QED
    BY <1>2, <2>5 DEF Low
<1>4. CASE IsRelationalAnchor(type) /\ ~IsTypeStart(type) /\ type.end \in Sides
  <2>1. Rendered(a, place, own, up)
          = [start |-> l[type.end] - s - width, end |-> l[type.end] - s - width + width]
    BY <1>4 DEF Rendered, Aligned
  <2>2. l[type.end] - own.end = s
    BY <1>4 DEF SatisfiesConstraint, RelationalMargin, EndMargin
  <2>3. l[type.end] \in Int
    BY <1>2, <1>4, SidesOfSpots
  <2>4. l[type.end] - s - width = own.start /\ l[type.end] - s - width + width = own.end
    BY <1>1, <1>2, <2>2, <2>3
  <2>5. Rendered(a, place, own, up) = own
    BY <1>2, <2>1, <2>4
  <2> QED
    BY <1>2, <2>5 DEF Low
<1>5. CASE ~IsRelationalAnchor(type) /\ type.start \in Sides /\ type.end \in Sides
  <2>1. l[type.start] \in Int /\ r[type.end] \in Int
    BY <1>2, <1>5, SidesOfSpots
  <2>2. CASE a.view_size = "MATCH_CONSTRAINT"
    <3>1. Rendered(a, place, own, up) = [start |-> l[type.start] + p, end |-> r[type.end] - s]
      BY <1>5, <2>2 DEF Rendered, Stretched
    <3>2. p = own.start - l[type.start] /\ s = r[type.end] - own.end
      BY <1>5, <2>2 DEF SatisfiesConstraint, StartMargin, EndMargin
    <3>3. l[type.start] + p = own.start /\ r[type.end] - s = own.end
      BY <1>1, <1>2, <2>1, <3>2
    <3>4. Rendered(a, place, own, up) = own
      BY <1>2, <3>1, <3>3
    <3> QED
      BY <1>2, <3>4 DEF Low
  <2>3. CASE a.view_size # "MATCH_CONSTRAINT"
    <3> DEFINE same == OneAnchor(a)
               margins == IF same THEN 0 ELSE p - s
               error == p - s - (own.start + own.end - l[type.start] - r[type.end])
               x == l[type.start] + r[type.end] + margins - width + up
    <3>1. Rendered(a, place, own, up) = [start |-> x \div 2, end |-> x \div 2 + width]
      BY <1>5, <2>3, Zenon DEF Rendered, Centered
    <3>2. error \in {-1, 0} /\ (same => p = 0 /\ s = 0)
      BY <1>5, <2>3 DEF SatisfiesConstraint, CenterMargin
    <3>3. x = own.start + own.start + error + up
      <4> HIDE DEF type, p, s, l, r, same
      <4> QED
        BY <1>1, <1>2, <2>1, <3>2
    <3>4. \/ x \div 2 = own.start
          \/ error = -1 /\ x \div 2 = own.start - 1
      <4> HIDE DEF x, error
      <4>1. CASE error = 0
        <5>1. x = own.start + own.start + up
          BY <1>2, <3>3, <4>1
        <5> QED
          BY <1>2, <5>1, HalfUnit
      <4>2. CASE error = -1
        <5>1. x = own.start + own.start - 1 + up
          BY <1>2, <3>3, <4>2
        <5> QED
          BY <1>2, <4>2, <5>1, HalfUnit
      <4> QED
        BY <3>2, <4>1, <4>2
    <3>5. CASE x \div 2 = own.start
      <4>1. x \div 2 + width = own.end
        BY <1>2, <3>5
      <4>2. Rendered(a, place, own, up) = own
        BY <1>2, <3>1, <3>5, <4>1
      <4> QED
        BY <1>2, <4>2 DEF Low
    <3>6. CASE error = -1 /\ x \div 2 = own.start - 1
      <4>1. Rendered(a, place, own, up) = [start |-> own.start - 1, end |-> own.end - 1]
        <5> HIDE DEF x
        <5>1. x \div 2 + width = own.end - 1
          BY <1>2, <3>6
        <5> QED
          BY <3>1, <3>6, <5>1
      <4>2. /\ Rendered(a, place, own, up) \in Spots
            /\ Low(Rendered(a, place, own, up), own)
            /\ Rendered(a, place, own, up).start = own.start - 1
        BY <1>2, <4>1 DEF Spots, Low
      <4>3. ASSUME p = 0, s > 0
            PROVE  /\ b \in Attributes /\ Released(a, b)
                   /\ SatisfiesConstraint(b, place, own)
                   /\ Rendered(b, place, own, up) = own
        <5>1. s - 1 \in Nat /\ ~same
          BY <1>1, <3>2, <4>3
        <5>2. /\ b \in Attributes /\ b.type = type /\ b.view_size = a.view_size
              /\ b.value_primary = p /\ b.value_secondary = s - 1
              /\ b.tgt_primary = a.tgt_primary /\ b.tgt_secondary = a.tgt_secondary
          BY <5>1 DEF Attributes
        <5>3. Released(a, b)
          BY <1>1, <5>2 DEF Released
        <5>4. ~OneAnchor(b)
          BY <5>1, <5>2 DEF OneAnchor
        <5> HIDE DEF b
        <5>5. p - (s - 1) - (own.start + own.end - l[type.start] - r[type.end]) = 0
          <6> HIDE DEF p, s, l, r, type
          <6> QED
            BY <1>1, <1>2, <2>1, <3>6
        <5>6. SatisfiesConstraint(b, place, own)
          BY <1>5, <2>3, <5>2, <5>4, <5>5 DEF SatisfiesConstraint, CenterMargin
        <5> DEFINE y == l[type.start] + r[type.end] + (p - (s - 1)) - width + up
        <5>7. Rendered(b, place, own, up) = [start |-> y \div 2, end |-> y \div 2 + width]
          BY <1>5, <2>3, <5>2, <5>4, Zenon DEF Rendered, Centered
        <5>8. y = own.start + own.start + up
          <6> HIDE DEF p, s, l, r, type
          <6> QED
            BY <1>1, <1>2, <2>1, <5>5
        <5> HIDE DEF y
        <5>9. y \div 2 = own.start
          BY <1>2, <5>8, HalfUnit
        <5>10. y \div 2 + width = own.end
          BY <1>2, <5>9
        <5>11. Rendered(b, place, own, up) = own
          BY <1>2, <5>7, <5>9, <5>10
        <5> QED
          BY <5>2, <5>3, <5>6, <5>11
      <4> QED
        BY <4>2, <4>3
    <3> QED
      BY <3>4, <3>5, <3>6
  <2> QED
    BY <2>2, <2>3
<1> QED
  BY <1>1, <1>3, <1>4, <1>5, KindsOfTypes

-----------------------------------------------------------------------------
\* How all views are laid out

\* What a layout needs.
CanLayOut(attributes, place, up) ==
  /\ attributes \in [SynViews -> Attributes] /\ place \in [Views -> Spots] /\ up \in {0, 1}
  /\ Acyclic(Refs(attributes))

\* There are finitely many views.
LEMMA ViewsAreFinite == IsFiniteSet(Views)
<1>1. 0 \in Int /\ NumViews \in Int
  BY NumViewsAssumption
<1> QED
  BY <1>1, FS_Interval DEF Views

\* The references are a finite loopless graph, in which a view refers to the
\* targets of its attribute.
LEMMA RefsAreLoopless ==
  ASSUME NEW attributes \in [SynViews -> Attributes]
  PROVE  /\ Refs(attributes) \in [Views -> SUBSET Views]
         /\ Acyclic(Refs(attributes)) => Loopless(Views, Refs(attributes))
         /\ \A v \in Views : v = Root \/ v \in SynViews
         /\ \A v \in SynViews : v \in Views /\ v # Root
         /\ \A v \in SynViews :
              /\ attributes[v].tgt_primary \in Views /\ attributes[v].tgt_secondary \in Views
              /\ Refs(attributes)[v] = {attributes[v].tgt_primary, attributes[v].tgt_secondary}
<1>1. /\ \A v \in Views : v = Root \/ v \in SynViews
      /\ \A v \in SynViews : v \in Views /\ v # Root
  BY NumViewsAssumption DEF Views, SynViews, Root
<1>2. \A v \in SynViews : attributes[v].tgt_primary \in Views /\ attributes[v].tgt_secondary \in Views
  BY DEF Attributes
<1>3. /\ Refs(attributes) \in [Views -> SUBSET Views]
      /\ \A v \in SynViews : Refs(attributes)[v] =
                               {attributes[v].tgt_primary, attributes[v].tgt_secondary}
  BY <1>1, <1>2 DEF Refs
<1> DEFINE g == Refs(attributes)
<1>4. \A v \in Views : ReferencedNodes(g, v) = ReachableIn(Views, g, v)
  BY DEF ReferencedNodes, ReachableIn, Closed
<1>5. Acyclic(g) => Loopless(Views, g)
  <2> HIDE DEF g
  <2> SUFFICES ASSUME Acyclic(g), NEW v \in Views, NEW t \in g[v]
               PROVE  v \notin ReachableIn(Views, g, t)
    BY DEF Loopless
  <2>1. t \in Views
    BY <1>3 DEF g
  <2> QED
    BY <1>4, <2>1 DEF Acyclic, IsCircularRelation
<1> QED
  BY <1>1, <1>2, <1>3, <1>5

\* The layout server's answer: as references are acyclic, every view has a place.
LEMMA LayoutUnfolds ==
  ASSUME NEW attributes, NEW place, NEW up, CanLayOut(attributes, place, up)
  PROVE  LET now == Layout(attributes, place, up)
         IN  /\ now \in [Views -> Spots] /\ now[Root] = place[Root]
             /\ \A v \in SynViews : now[v] = Rendered(attributes[v], now, place[v], up)
<1> DEFINE g == Refs(attributes)
           Body(f, v) == IF v = Root THEN place[v] ELSE Rendered(attributes[v], f, place[v], up)
           step == [x \in [Views -> Spots] \X Views |-> Body(x[1], x[2])]
<1>1. /\ attributes \in [SynViews -> Attributes] /\ place \in [Views -> Spots] /\ up \in {0, 1}
      /\ Acyclic(g)
  BY DEF CanLayOut
<1>2. /\ g \in [Views -> SUBSET Views] /\ Loopless(Views, g) /\ IsFiniteSet(Views)
      /\ \A v \in Views : v = Root \/ v \in SynViews
      /\ \A v \in SynViews : v \in Views /\ v # Root
      /\ \A v \in SynViews :
              /\ attributes[v].tgt_primary \in Views /\ attributes[v].tgt_secondary \in Views
              /\ g[v] = {attributes[v].tgt_primary, attributes[v].tgt_secondary}
  BY <1>1, RefsAreLoopless, ViewsAreFinite
<1> HIDE DEF g
<1>3. \A f \in [Views -> Spots], v \in Views : step[<<f, v>>] = Body(f, v)
  OBVIOUS
<1>4. ASSUME NEW f \in [Views -> Spots], NEW v \in Views PROVE Body(f, v) \in Spots
  <2>1. CASE v = Root
    BY <1>1, <2>1
  <2>2. CASE v # Root
    <3>1. /\ v \in SynViews /\ attributes[v] \in Attributes /\ place[v] \in Spots
          /\ f[attributes[v].tgt_primary] \in Spots /\ f[attributes[v].tgt_secondary] \in Spots
      BY <1>1, <1>2, <2>2
    <3>2. Released(attributes[v], attributes[v])
      BY <3>1 DEF Released, Attributes
    <3>3. \A x \in Spots : Low(x, x)
      BY DEF Spots, Low
    <3>4. Rendered(attributes[v], f, place[v], up) \in Spots
      BY <1>1, <3>1, <3>2, <3>3, RenderedRises
    <3> QED
      BY <2>2, <3>4
  <2> QED
    BY <2>1, <2>2
<1>5. ASSUME NEW f \in [Views -> Spots], NEW h \in [Views -> Spots], NEW v \in Views,
             \A t \in g[v] : f[t] = h[t]
      PROVE  Body(f, v) = Body(h, v)
  <2>1. CASE v = Root
    BY <2>1
  <2>2. CASE v # Root
    <3>1. /\ f[attributes[v].tgt_primary] = h[attributes[v].tgt_primary]
          /\ f[attributes[v].tgt_secondary] = h[attributes[v].tgt_secondary]
      BY <1>2, <1>5, <2>2
    <3>2. Rendered(attributes[v], f, place[v], up) = Rendered(attributes[v], h, place[v], up)
      BY <3>1, Zenon DEF Rendered
    <3> QED
      BY <2>2, <3>2
  <2> QED
    BY <2>1, <2>2
<1>6. PICK f \in [Views -> Spots] : \A v \in Views : f[v] = step[<<f, v>>]
  <2>1. Spots # {}
    <3>1. [start |-> 0, end |-> 0] \in Spots
      BY DEF Spots
    <3> QED
      BY <3>1
  <2>2. \A k \in [Views -> Spots] : \A v \in Views : step[<<k, v>>] \in Spots
    BY <1>3, <1>4
  <2>3. \A k, h \in [Views -> Spots] : \A v \in Views :
           (\A t \in g[v] : k[t] = h[t]) => step[<<k, v>>] = step[<<h, v>>]
    BY <1>3, <1>5
  <2> HIDE DEF step
  <2>4. PICK s : s = step
    OBVIOUS
  <2>5. PICK G : G = g
    OBVIOUS
  <2>6. /\ \A k \in [Views -> Spots] : \A v \in Views : s[<<k, v>>] \in Spots
        /\ \A k, h \in [Views -> Spots] : \A v \in Views :
             (\A t \in G[v] : k[t] = h[t]) => s[<<k, v>>] = s[<<h, v>>]
    BY <2>2, <2>3, <2>4, <2>5
  <2>7. G \in [Views -> SUBSET Views] /\ Loopless(Views, G)
    BY <1>2, <2>5
  <2>8. \E k \in [Views -> Spots] : \A v \in Views : k[v] = s[<<k, v>>]
    <3>1. RecursesAlong(Views, G, Spots, s)
      BY <1>2, <2>1, <2>6, <2>7, Zenon DEF RecursesAlong
    <3> QED
      BY <3>1, LooplessRecursion
  <2> QED
    BY <2>4, <2>8
<1>7. f = [v \in Views |-> Body(f, v)]
  <2>1. \A v \in Views : f[v] = Body(f, v)
    BY <1>3, <1>6
  <2>2. f = [v \in Views |-> f[v]]
    OBVIOUS
  <2> HIDE DEF Body, step
  <2> QED
    BY <2>1, <2>2
<1> DEFINE now == Layout(attributes, place, up)
<1>8. now = CHOOSE w : w = [v \in Views |-> Body(w, v)]
  BY DEF Layout
<1>9. now = [v \in Views |-> Body(now, v)]
  <2> HIDE DEF Body, now
  <2> QED
    BY <1>7, <1>8
<1> HIDE DEF now
<1>10. Root \in Views
  BY NumViewsAssumption DEF Root, Views
<1>11. now[Root] = place[Root]
  BY <1>9, <1>10
<1>12. \A v \in SynViews : now[v] = Rendered(attributes[v], now, place[v], up)
  BY <1>2, <1>9
\* every solution has its values in Spots
<1> DEFINE S == {v \in Views : now[v] \in Spots}
<1>13. ASSUME NEW v \in Views, g[v] \subseteq S PROVE v \in S
  <2>1. CASE v = Root
    BY <1>1, <1>11, <2>1
  <2>2. CASE v # Root
    <3>1. /\ v \in SynViews /\ attributes[v] \in Attributes /\ place[v] \in Spots
          /\ now[attributes[v].tgt_primary] \in Spots /\ now[attributes[v].tgt_secondary] \in Spots
      BY <1>1, <1>2, <1>13, <2>2
    <3>2. Released(attributes[v], attributes[v])
      BY <3>1 DEF Released, Attributes
    <3>3. \A x \in Spots : Low(x, x)
      BY DEF Spots, Low
    <3>4. Rendered(attributes[v], now, place[v], up) \in Spots
      BY <1>1, <3>1, <3>2, <3>3, RenderedRises
    <3> QED
      BY <1>12, <3>1, <3>4
  <2> QED
    BY <2>1, <2>2
<1>14. S = Views
  <2> HIDE DEF S
  <2>1. S \in SUBSET Views
    BY DEF S
  <2>2. PICK G, W : G = g /\ W = S
    OBVIOUS
  <2>3. \A v \in Views : G[v] \subseteq W => v \in W
    BY <1>13, <2>2
  <2>4. W = Views
    BY <1>2, <2>1, <2>2, <2>3, LooplessInduction
  <2> QED
    BY <2>2, <2>4
<1>15. now \in [Views -> Spots]
  <2>1. now = [v \in Views |-> now[v]]
    <3> HIDE DEF Body
    <3>1. now = [v \in Views |-> Body(now, v)] /\ \A v \in Views : now[v] = Body(now, v)
      BY <1>9
    <3> QED
      BY <3>1
  <2> QED
    BY <1>14, <2>1
<1> QED
  BY <1>11, <1>12, <1>15 DEF now

\* The part of RenderedAtDesign that needs no margin.
LEMMA OneUnitLow ==
  ASSUME NEW a \in Attributes, NEW place, NEW own \in Spots, NEW up \in {0, 1},
         place[a.tgt_primary] \in Spots, place[a.tgt_secondary] \in Spots,
         SatisfiesConstraint(a, place, own), Rendered(a, place, own, up) # own
  PROVE  Rendered(a, place, own, up).start = own.start - 1
BY RenderedAtDesign

\* Low is a partial order.
LEMMA LowIsOrder ==
  /\ \A x \in Spots : Low(x, x)
  /\ \A x, y, z \in Spots : Low(x, y) /\ Low(y, z) => Low(x, z)
  /\ \A x, y \in Spots : Low(x, y) /\ Low(y, x) => x = y
<1>1. /\ \A x \in Spots : Low(x, x)
      /\ \A x, y, z \in Spots : Low(x, y) /\ Low(y, z) => Low(x, z)
  BY DEF Spots, Low
<1>2. ASSUME NEW x \in Spots, NEW y \in Spots, Low(x, y), Low(y, x) PROVE x = y
  <2>1. x.start = y.start /\ x.end = y.end
    BY <1>2 DEF Spots, Low
  <2>2. x = [start |-> x.start, end |-> x.end] /\ y = [start |-> y.start, end |-> y.end]
    BY DEF Spots
  <2> QED
    BY <2>1, <2>2
<1> QED
  BY <1>1, <1>2

\* Attributes as the solver asserts them put no view beyond its design: a view
\* that follows others is put no further than one that follows their designs.
LEMMA LayoutIsLow ==
  ASSUME NEW a, NEW place, NEW up, CanLayOut(a, place, up),
         \A v \in SynViews : SatisfiesConstraint(a[v], place, place[v])
  PROVE  \A v \in Views : Low(Layout(a, place, up)[v], place[v])
<1> DEFINE now == Layout(a, place, up)
           g == Refs(a)
           S == {v \in Views : Low(now[v], place[v])}
<1>1. /\ a \in [SynViews -> Attributes] /\ place \in [Views -> Spots] /\ up \in {0, 1}
      /\ Acyclic(g)
  BY DEF CanLayOut
<1>2. /\ g \in [Views -> SUBSET Views] /\ Loopless(Views, g) /\ IsFiniteSet(Views)
      /\ \A v \in Views : v = Root \/ v \in SynViews
      /\ \A v \in SynViews : /\ a[v].tgt_primary \in Views /\ a[v].tgt_secondary \in Views
                             /\ g[v] = {a[v].tgt_primary, a[v].tgt_secondary}
  BY <1>1, RefsAreLoopless, ViewsAreFinite
<1>3. /\ now \in [Views -> Spots] /\ now[Root] = place[Root]
      /\ \A v \in SynViews : now[v] = Rendered(a[v], now, place[v], up)
  BY LayoutUnfolds
<1> HIDE DEF now, g
<1>4. ASSUME NEW v \in Views, g[v] \subseteq S PROVE v \in S
  <2>1. CASE v = Root
    BY <1>1, <1>3, <2>1, LowIsOrder
  <2>2. CASE v # Root
    <3> DEFINE p == a[v].tgt_primary
               s == a[v].tgt_secondary
    <3>1. v \in SynViews /\ a[v] \in Attributes /\ p \in S /\ s \in S
      BY <1>1, <1>2, <1>4, <2>2
    <3>2. /\ now[p] \in Spots /\ now[s] \in Spots /\ place[p] \in Spots /\ place[s] \in Spots
          /\ place[v] \in Spots /\ now[v] \in Spots
          /\ Low(now[p], place[p]) /\ Low(now[s], place[s])
      BY <1>1, <1>3, <3>1
    <3>3. Released(a[v], a[v])
      BY <3>1 DEF Released, Attributes
    <3>4. /\ Rendered(a[v], place, place[v], up) \in Spots
          /\ Low(Rendered(a[v], now, place[v], up), Rendered(a[v], place, place[v], up))
      BY <1>1, <3>1, <3>2, <3>3, RenderedRises
    <3>5. Low(Rendered(a[v], place, place[v], up), place[v])
      BY <1>1, <3>1, <3>2, RenderedAtDesign
    <3> QED
      BY <1>3, <3>1, <3>2, <3>4, <3>5, LowIsOrder
  <2> QED
    BY <2>1, <2>2
<1>5. S = Views
  <2> HIDE DEF S
  <2>1. S \in SUBSET Views
    BY DEF S
  <2> QED
    BY <1>2, <1>4, <2>1, LooplessInduction
<1> QED
  BY <1>5 DEF now

\* Smaller margins at the end move no view to the left.
LEMMA LayoutRises ==
  ASSUME NEW a, NEW b, NEW place, NEW up, CanLayOut(a, place, up), CanLayOut(b, place, up),
         \A v \in SynViews : Released(a[v], b[v])
  PROVE  \A v \in Views : Low(Layout(a, place, up)[v], Layout(b, place, up)[v])
<1> DEFINE now == Layout(a, place, up)
           next == Layout(b, place, up)
           g == Refs(a)
           S == {v \in Views : Low(now[v], next[v])}
<1>1. /\ a \in [SynViews -> Attributes] /\ place \in [Views -> Spots] /\ up \in {0, 1}
      /\ b \in [SynViews -> Attributes] /\ Acyclic(g)
  BY DEF CanLayOut
<1>2. /\ g \in [Views -> SUBSET Views] /\ Loopless(Views, g) /\ IsFiniteSet(Views)
      /\ \A v \in Views : v = Root \/ v \in SynViews
      /\ \A v \in SynViews : /\ a[v].tgt_primary \in Views /\ a[v].tgt_secondary \in Views
                             /\ g[v] = {a[v].tgt_primary, a[v].tgt_secondary}
  BY <1>1, RefsAreLoopless, ViewsAreFinite
<1>3. /\ now \in [Views -> Spots] /\ now[Root] = place[Root]
      /\ \A v \in SynViews : now[v] = Rendered(a[v], now, place[v], up)
  BY LayoutUnfolds
<1>4. /\ next \in [Views -> Spots] /\ next[Root] = place[Root]
      /\ \A v \in SynViews : next[v] = Rendered(b[v], next, place[v], up)
  BY LayoutUnfolds
<1> HIDE DEF now, next, g
<1>5. ASSUME NEW v \in Views, g[v] \subseteq S PROVE v \in S
  <2>1. CASE v = Root
    BY <1>1, <1>3, <1>4, <2>1, LowIsOrder
  <2>2. CASE v # Root
    <3> DEFINE p == a[v].tgt_primary
               s == a[v].tgt_secondary
    <3>1. v \in SynViews /\ a[v] \in Attributes /\ b[v] \in Attributes /\ p \in S /\ s \in S
      BY <1>1, <1>2, <1>5, <2>2
    <3>2. /\ now[p] \in Spots /\ now[s] \in Spots /\ next[p] \in Spots /\ next[s] \in Spots
          /\ place[v] \in Spots /\ Low(now[p], next[p]) /\ Low(now[s], next[s])
      BY <1>1, <1>3, <1>4, <3>1
    <3>3. Low(Rendered(a[v], now, place[v], up), Rendered(b[v], next, place[v], up))
      BY <1>1, <3>1, <3>2, RenderedRises
    <3> QED
      BY <1>3, <1>4, <3>1, <3>3
  <2> QED
    BY <2>1, <2>2
<1>6. S = Views
  <2> HIDE DEF S
  <2>1. S \in SUBSET Views
    BY DEF S
  <2> QED
    BY <1>2, <1>5, <2>1, LooplessInduction
<1> QED
  BY <1>6 DEF now, next

-----------------------------------------------------------------------------
\* The rounds

\* What the rounds have made of the attributes of an orientation: the solver's
\* constraints hold, and what was changed puts its view where it is designed.
Tuned(orig, a, place, up) ==
  /\ CanLayOut(a, place, up) /\ Refs(a) = Refs(orig)
  /\ \A v \in SynViews :
       /\ SatisfiesConstraint(a[v], place, place[v])
       /\ a[v] = orig[v] \/ Rendered(a[v], place, place[v], up) = place[v]

\* The views that are not where they are designed.
Off(a, place, up) == {v \in Views : Layout(a, place, up)[v] # place[v]}

\* Those of ids that refer, over any number of views, to no other one of ids.
OwnFault(orig, ids) == {v \in ids : ReferencedNodes(Refs(orig), v) \cap ids = {v}}

\* What FixRound makes of the attributes of its orientation.
Round(orig, a, place, up) ==
  LET now == Layout(a, place, up)
      ids == Off(a, place, up)
      diff == [v \in SynViews |-> place[v].start - now[v].start]
      toFix == {v \in ids : diff[v] \in {-1, 1} /\ v \in OwnFault(orig, ids)}
  IN  [v \in SynViews |-> IF v \in toFix THEN TryFixNode(a[v], diff[v]) ELSE a[v]]

\* The targets of a view that is off by its own fault are in place, so it is one
\* unit low, and no round has changed it.
LEMMA OwnFaultIsHalf ==
  ASSUME NEW orig, NEW a, NEW place, NEW up, Tuned(orig, a, place, up),
         NEW v \in OwnFault(orig, Off(a, place, up))
  PROVE  /\ v \in SynViews /\ a[v] = orig[v]
         /\ \A t \in Refs(a)[v] : t \in Views /\ t \notin Off(a, place, up)
         /\ Rendered(a[v], place, place[v], up) # place[v]
         /\ place[v].start - Layout(a, place, up)[v].start = 1
<1> DEFINE now == Layout(a, place, up)
           ids == Off(a, place, up)
           g == Refs(a)
           p == a[v].tgt_primary
           s == a[v].tgt_secondary
<1>1. /\ CanLayOut(a, place, up) /\ g = Refs(orig)
      /\ \A w \in SynViews :
           /\ SatisfiesConstraint(a[w], place, place[w])
           /\ a[w] = orig[w] \/ Rendered(a[w], place, place[w], up) = place[w]
  BY DEF Tuned
<1>2. /\ a \in [SynViews -> Attributes] /\ place \in [Views -> Spots] /\ up \in {0, 1}
      /\ Acyclic(g)
  BY <1>1 DEF CanLayOut
<1>3. /\ g \in [Views -> SUBSET Views] /\ Loopless(Views, g)
      /\ \A w \in Views : w = Root \/ w \in SynViews
      /\ \A w \in SynViews : /\ a[w].tgt_primary \in Views /\ a[w].tgt_secondary \in Views
                             /\ g[w] = {a[w].tgt_primary, a[w].tgt_secondary}
  BY <1>2, RefsAreLoopless
<1>4. /\ now \in [Views -> Spots] /\ now[Root] = place[Root]
      /\ \A w \in SynViews : now[w] = Rendered(a[w], now, place[w], up)
  BY <1>1, LayoutUnfolds
<1>5. v \in Views /\ now[v] # place[v] /\ ReferencedNodes(g, v) \cap ids = {v}
  BY <1>1 DEF OwnFault, Off
<1> HIDE DEF now, g
<1>6. v \in SynViews
  BY <1>3, <1>4, <1>5
<1>7. ASSUME NEW t \in g[v] PROVE t \in Views /\ t \notin ids
  <2>1. /\ t \in Views /\ t \in ReachableIn(Views, g, v)
        /\ ReachableIn(Views, g, t) \subseteq ReachableIn(Views, g, v) \ {v}
    BY <1>3, <1>5, LessIsReached
  <2>2. t \in ReachableIn(Views, g, t)
    BY <2>1 DEF ReachableIn
  <2>3. t # v /\ t \in ReferencedNodes(g, v)
    BY <2>1, <2>2 DEF ReachableIn, ReferencedNodes, Closed
  <2> HIDE DEF ids
  <2> QED
    BY <1>5, <2>1, <2>3
<1>8. now[p] = place[p] /\ now[s] = place[s] /\ p \in Views /\ s \in Views
  BY <1>3, <1>6, <1>7 DEF Off, now
<1>9. Rendered(a[v], now, place[v], up) = Rendered(a[v], place, place[v], up)
  BY <1>8, Zenon DEF Rendered
<1>10. now[v] = Rendered(a[v], place, place[v], up)
  BY <1>4, <1>6, <1>9
<1>11. now[v].start = place[v].start - 1
  <2>1. a[v] \in Attributes /\ place[v] \in Spots /\ place[p] \in Spots /\ place[s] \in Spots
    BY <1>2, <1>5, <1>6, <1>8
  <2>2. Rendered(a[v], place, place[v], up).start = place[v].start - 1
    <3>1. /\ SatisfiesConstraint(a[v], place, place[v]) /\ up \in {0, 1}
          /\ Rendered(a[v], place, place[v], up) # place[v]
      BY <1>1, <1>2, <1>5, <1>6, <1>10
    <3> QED
      BY <2>1, <3>1, OneUnitLow
  <2> QED
    BY <1>10, <2>2
<1>12. place[v].start - now[v].start = 1
  BY <1>2, <1>5, <1>11 DEF Spots
<1> QED
  BY <1>1, <1>5, <1>6, <1>7, <1>10, <1>12 DEF now, g

\* A round changes only views that it puts in place.
LEMMA RoundChanges ==
  ASSUME NEW orig, NEW a, NEW place, NEW up, Tuned(orig, a, place, up), NEW v \in SynViews
  PROVE  LET b == Round(orig, a, place, up)
         IN  /\ b[v] \in Attributes /\ Released(a[v], b[v])
             /\ SatisfiesConstraint(b[v], place, place[v])
             /\ b[v] = a[v] \/ Rendered(b[v], place, place[v], up) = place[v]
             /\ v \in OwnFault(orig, Off(a, place, up))
                  /\ a[v].value_primary = 0 /\ a[v].value_secondary > 0 =>
                  Rendered(b[v], place, place[v], up) = place[v]
<1> DEFINE now == Layout(a, place, up)
           ids == Off(a, place, up)
           diff == [w \in SynViews |-> place[w].start - now[w].start]
           toFix == {w \in ids : diff[w] \in {-1, 1} /\ w \in OwnFault(orig, ids)}
           b == Round(orig, a, place, up)
<1>1. a[v] \in Attributes /\ SatisfiesConstraint(a[v], place, place[v])
  BY DEF Tuned, CanLayOut
<1>2. Released(a[v], a[v])
  BY <1>1 DEF Released, Attributes
<1>3. b[v] = IF v \in toFix THEN TryFixNode(a[v], diff[v]) ELSE a[v]
  BY DEF Round
<1>4. CASE v \in OwnFault(orig, ids)
  <2>1. diff[v] = 1 /\ Rendered(a[v], place, place[v], up) # place[v]
    BY <1>4, OwnFaultIsHalf
  <2>2. v \in toFix
    BY <1>4, <2>1 DEF OwnFault
  <2>3. b[v] = TryFixNode(a[v], 1)
    BY <1>3, <2>1, <2>2
  <2> HIDE DEF b, diff, toFix
  <2>4. CASE a[v].value_primary = 0 /\ a[v].value_secondary > 0
    <3>1. b[v] = [a[v] EXCEPT !.value_secondary = @ - 1]
      BY <2>3, <2>4 DEF TryFixNode
    <3>2. /\ a[v].tgt_primary \in Views /\ a[v].tgt_secondary \in Views
          /\ place \in [Views -> Spots] /\ up \in {0, 1} /\ v \in Views
      BY <1>1, NumViewsAssumption DEF Tuned, CanLayOut, Attributes, Views, SynViews
    <3>3. /\ place[a[v].tgt_primary] \in Spots /\ place[a[v].tgt_secondary] \in Spots
          /\ place[v] \in Spots
      BY <3>2
    <3>4. LET c == [a[v] EXCEPT !.value_secondary = @ - 1]
          IN  /\ c \in Attributes /\ Released(a[v], c)
              /\ SatisfiesConstraint(c, place, place[v])
              /\ Rendered(c, place, place[v], up) = place[v]
      BY <1>1, <2>1, <2>4, <3>2, <3>3, RenderedAtDesign
    <3> QED
      BY <3>1, <3>4 DEF b
  <2>5. CASE ~(a[v].value_primary = 0 /\ a[v].value_secondary > 0)
    <3>1. b[v] = a[v]
      BY <2>3, <2>5 DEF TryFixNode
    <3> QED
      BY <1>1, <1>2, <2>5, <3>1 DEF b
  <2> QED
    BY <2>4, <2>5 DEF b
<1>5. CASE v \notin OwnFault(orig, ids)
  <2>1. b[v] = a[v]
    BY <1>3, <1>5
  <2> HIDE DEF b
  <2> QED
    BY <1>1, <1>2, <1>5, <2>1 DEF b
<1> QED
  BY <1>4, <1>5

\* A round leaves what was in place there, and makes no difference only if a view
\* is off whose attribute has no margin to give.
LEMMA RoundHelps ==
  ASSUME NEW orig, NEW a, NEW place, NEW up, Tuned(orig, a, place, up)
  PROVE  LET b == Round(orig, a, place, up)
         IN  /\ Tuned(orig, b, place, up)
             /\ Off(b, place, up) \subseteq Off(a, place, up)
             /\ Off(a, place, up) # {} /\ Off(b, place, up) = Off(a, place, up) =>
                  \E v \in Off(a, place, up) :
                    v \in SynViews /\ ~(orig[v].value_primary = 0 /\ orig[v].value_secondary > 0)
<1> DEFINE b == Round(orig, a, place, up)
           now == Layout(a, place, up)
           next == Layout(b, place, up)
           g == Refs(a)
<1>1. /\ CanLayOut(a, place, up) /\ g = Refs(orig)
      /\ a \in [SynViews -> Attributes] /\ place \in [Views -> Spots] /\ up \in {0, 1}
      /\ Acyclic(g)
      /\ \A w \in SynViews : a[w] = orig[w] \/ Rendered(a[w], place, place[w], up) = place[w]
  BY DEF Tuned, CanLayOut
<1>2. \A v \in SynViews :
        /\ b[v] \in Attributes /\ Released(a[v], b[v])
        /\ SatisfiesConstraint(b[v], place, place[v])
        /\ b[v] = a[v] \/ Rendered(b[v], place, place[v], up) = place[v]
        /\ v \in OwnFault(orig, Off(a, place, up))
             /\ a[v].value_primary = 0 /\ a[v].value_secondary > 0 =>
             Rendered(b[v], place, place[v], up) = place[v]
  BY RoundChanges
<1>3. b \in [SynViews -> Attributes]
  <2>1. b = [v \in SynViews |-> b[v]]
    BY DEF Round
  <2> HIDE DEF b
  <2> QED
    BY <1>2, <2>1
<1> HIDE DEF b
<1>4. Refs(b) = g
  <2>1. \A v \in Views : v = Root \/ v \in SynViews
    BY <1>1, RefsAreLoopless
  <2> QED
    BY <1>2, <2>1 DEF Refs, Released
<1>5. Tuned(orig, b, place, up) /\ CanLayOut(b, place, up)
  BY <1>1, <1>2, <1>3, <1>4 DEF Tuned, CanLayOut
<1>6. /\ now \in [Views -> Spots] /\ next \in [Views -> Spots] /\ next[Root] = place[Root]
      /\ \A v \in SynViews : next[v] = Rendered(b[v], next, place[v], up)
  BY <1>1, <1>5, LayoutUnfolds
<1>7. \A v \in Views : Low(now[v], next[v]) /\ Low(next[v], place[v])
  BY <1>1, <1>2, <1>5, LayoutRises, LayoutIsLow
<1> HIDE DEF now, next, g
<1>8. ASSUME NEW v \in Views, now[v] = place[v] PROVE next[v] = place[v]
  BY <1>1, <1>6, <1>7, <1>8, LowIsOrder
<1>9. Off(b, place, up) \subseteq Off(a, place, up)
  BY <1>8 DEF Off, now, next
<1>10. ASSUME Off(a, place, up) # {}, Off(b, place, up) = Off(a, place, up)
       PROVE  \E v \in Off(a, place, up) :
                v \in SynViews /\ ~(orig[v].value_primary = 0 /\ orig[v].value_secondary > 0)
  <2> DEFINE ids == Off(a, place, up)
  <2>1. /\ g \in [Views -> SUBSET Views] /\ Loopless(Views, g) /\ IsFiniteSet(Views)
        /\ \A w \in SynViews : g[w] = {a[w].tgt_primary, a[w].tgt_secondary}
    BY <1>1, RefsAreLoopless, ViewsAreFinite DEF g
  <2>2. ids \in SUBSET Views /\ ids # {}
    BY <1>10 DEF Off
  <2> HIDE DEF ids
  <2>3. PICK v \in ids : ReachableIn(Views, g, v) \cap ids = {v}
    BY <2>1, <2>2, LowestInSet
  <2>4. v \in OwnFault(orig, ids)
    <3>1. ReachableIn(Views, g, v) = ReferencedNodes(g, v)
      BY DEF ReachableIn, ReferencedNodes, Closed
    <3> QED
      BY <1>1, <2>3, <3>1 DEF OwnFault
  <2>5. /\ v \in SynViews /\ a[v] = orig[v] /\ \A t \in g[v] : t \in Views /\ t \notin ids
    BY <2>4, OwnFaultIsHalf DEF ids, g
  <2>6. SUFFICES ASSUME orig[v].value_primary = 0, orig[v].value_secondary > 0 PROVE FALSE
    BY <2>3, <2>5 DEF ids
  <2>7. Rendered(b[v], place, place[v], up) = place[v]
    BY <1>2, <2>4, <2>5, <2>6 DEF ids
  <2>8. /\ next[b[v].tgt_primary] = place[b[v].tgt_primary]
        /\ next[b[v].tgt_secondary] = place[b[v].tgt_secondary]
    <3>1. /\ b[v].tgt_primary = a[v].tgt_primary /\ b[v].tgt_secondary = a[v].tgt_secondary
          /\ g[v] = {a[v].tgt_primary, a[v].tgt_secondary}
      BY <1>2, <2>1, <2>5 DEF Released
    <3>2. \A t \in g[v] : t \in Views /\ now[t] = place[t]
      BY <2>5 DEF ids, Off, now
    <3>3. \A t \in g[v] : next[t] = place[t]
      BY <1>8, <3>2
    <3> QED
      BY <3>1, <3>3
  <2>9. Rendered(b[v], next, place[v], up) = Rendered(b[v], place, place[v], up)
    BY <2>8, Zenon DEF Rendered
  <2>10. next[v] = place[v]
    BY <1>6, <2>5, <2>7, <2>9
  <2>11. v \notin Off(b, place, up)
    BY <2>10 DEF Off, next
  <2> QED
    BY <1>10, <2>3, <2>11 DEF ids
<1> QED
  BY <1>5, <1>9, <1>10 DEF b

-----------------------------------------------------------------------------
\* A view is off in the input that its margin cannot move.
Reason ==
  \E or \in Orientations : \E v \in FindNonMatchingViews(input.app, or) :
    ~Movable(input.app, or, v)

\* The loop starts from the input, works on one orientation after the other, and
\* deals with views only that were off in the input.
ReasonInv ==
  /\ input \in Inputs
  /\ pc = "fix" => ref_app = input.app /\ ~fixed
  /\ pc = "fixing" =>
       /\ \A or \in Orientations :
            Tuned(input.app[or], app[or], input.place[or], input.up)
       /\ o = 1 => app[2] = input.app[2]
       /\ view_ids \subseteq FindNonMatchingViews(input.app, o)
  /\ pc \in {"normalize", "normalizing", "done"} /\ ~fixed => Reason

\* Before the first round nothing is changed.
LEMMA InputsAreTuned ==
  ASSUME NEW i \in Inputs, NEW or \in Orientations
  PROVE  Tuned(i.app[or], i.app[or], i.place[or], i.up)
<1>1. /\ i.app \in Apps /\ i.place \in [Orientations -> [Views -> Spots]] /\ i.up \in {0, 1}
      /\ Acyclic(Refs(i.app[or]))
      /\ \A v \in SynViews :
           SatisfiesConstraint(i.app[or][v], i.place[or], i.place[or][v])
  BY InputsAssumption DEF Spots
<1>2. i.app[or] \in [SynViews -> Attributes] /\ i.place[or] \in [Views -> Spots]
  BY <1>1 DEF Apps
<1> QED
  BY <1>1, <1>2 DEF Tuned, CanLayOut

\* The views that do not match are those that are off.
LEMMA WrongIsOff ==
  ASSUME NEW a, NEW or
  PROVE  FindNonMatchingViews(a, or) = Off(a[or], input.place[or], input.up)
BY DEF FindNonMatchingViews, rendered, Off

\* A round of the loop is a round of its orientation.
LEMMA FixedAppIsRound ==
  ASSUME RepairInv, pc = "fixing"
  PROVE  /\ FixedApp[o] = Round(input.app[o], app[o], input.place[o], input.up)
         /\ \A or \in Orientations : or # o => FixedApp[or] = app[or]
<1> DEFINE toFix == {v \in view_ids : Diff[v] \in {-1, 1} /\ IsIndependent(v, o, view_ids)}
           next == [v \in SynViews |->
                      IF v \in toFix THEN TryFixNode(app[o][v], Diff[v]) ELSE app[o][v]]
<1>1. o \in Orientations /\ Orientations \subseteq DOMAIN app
  BY DEF RepairInv, DomainInv
<1>2. view_ids = Off(app[o], input.place[o], input.up)
  BY WrongIsOff DEF RepairInv, LoopInv
<1>3. FixedApp = [app EXCEPT ![o] = next]
  BY Zenon DEF FixedApp
<1>4. next = Round(input.app[o], app[o], input.place[o], input.up)
  BY <1>2, Zenon DEF Round, OwnFault, Diff, rendered, IsIndependent
<1> HIDE DEF next
<1> QED
  BY <1>1, <1>3, <1>4

\* A round makes progress or stops for a reason.
LEMMA RoundKeepsReason ==
  ASSUME RepairInv, ReasonInv, FixRound
  PROVE  ReasonInv'
<1>1. PICK orig, a, place, up, b :
        /\ orig = input.app[o] /\ a = app[o] /\ place = input.place[o] /\ up = input.up
        /\ b = FixedApp[o]
  OBVIOUS
<1>2. o \in Orientations /\ pc = "fixing" /\ view_ids # {}
  BY DEF RepairInv, DomainInv, FixRound
<1>3. Tuned(orig, a, place, up)
  BY <1>1, <1>2 DEF ReasonInv
<1>4. b = Round(orig, a, place, up) /\ \A or \in Orientations : or # o => FixedApp[or] = app[or]
  BY <1>1, <1>2, FixedAppIsRound
<1>5. /\ Tuned(orig, b, place, up) /\ Off(b, place, up) \subseteq Off(a, place, up)
      /\ Off(a, place, up) # {} /\ Off(b, place, up) = Off(a, place, up) =>
                  \E v \in Off(a, place, up) :
                    v \in SynViews /\ ~(orig[v].value_primary = 0 /\ orig[v].value_secondary > 0)
  BY <1>3, <1>4, RoundHelps
<1>6. /\ view_ids = Off(a, place, up)
      /\ FindNonMatchingViews(FixedApp, o) = Off(b, place, up)
  BY <1>1, <1>2, WrongIsOff DEF RepairInv, LoopInv
<1>7. view_ids \subseteq FindNonMatchingViews(input.app, o)
  BY <1>2 DEF ReasonInv
<1>8. /\ app' = FixedApp /\ input' = input /\ o' = o /\ ref_app' = ref_app
      /\ FindNonMatchingViews(input.app, o)' = FindNonMatchingViews(input.app, o)
  <2>1. app' = FixedApp /\ input' = input /\ o' = o /\ ref_app' = ref_app
    BY DEF FixRound
  <2>2. FindNonMatchingViews(input.app, o)' = FindNonMatchingViews(input.app, o)
    BY <2>1 DEF FindNonMatchingViews, rendered
  <2> QED
    BY <2>1, <2>2
<1>9. CASE Cardinality(Off(b, place, up)) = Cardinality(view_ids)
  <2>1. Off(b, place, up) = Off(a, place, up)
    <3>1. IsFiniteSet(Off(a, place, up))
      BY ViewsAreFinite, FS_Subset DEF Off
    <3> QED
      BY <1>5, <1>6, <1>9, <3>1, FS_Subset
  <2>2. PICK v \in view_ids : ~(orig[v].value_primary = 0 /\ orig[v].value_secondary > 0)
    BY <1>2, <1>5, <1>6, <2>1
  <2>3. Reason
    BY <1>1, <1>2, <1>7, <2>2 DEF Reason, Movable
  <2>4. Reason'
    BY <1>8, <2>3 DEF Reason, FindNonMatchingViews, rendered, Movable
  <2>5. pc' = "normalize"
    BY <1>6, <1>8, <1>9 DEF FixRound
  <2>6. input' \in Inputs
    BY <1>8 DEF ReasonInv
  <2> QED
    BY <2>4, <2>5, <2>6 DEF ReasonInv
<1>10. CASE Cardinality(Off(b, place, up)) # Cardinality(view_ids)
  <2>1. /\ view_ids' = Off(b, place, up) /\ pc' = "fixing" /\ fixed' = fixed
    BY <1>2, <1>6, <1>8, <1>10 DEF FixRound
  <2>2. \A or \in Orientations :
          Tuned(input.app[or], FixedApp[or], input.place[or], input.up)
    BY <1>1, <1>2, <1>4, <1>5 DEF ReasonInv
  <2>3. o = 1 => FixedApp[2] = input.app[2]
    BY <1>2, <1>4 DEF ReasonInv, Orientations
  <2>4. view_ids' \subseteq FindNonMatchingViews(input.app, o)'
    BY <1>5, <1>6, <1>7, <1>8, <2>1
  <2>5. input' \in Inputs
    BY <1>8 DEF ReasonInv
  <2>6. (view_ids \subseteq FindNonMatchingViews(input.app, o))'
    BY <2>4
  <2> QED
    BY <1>8, <2>1, <2>2, <2>3, <2>5, <2>6 DEF ReasonInv
<1> QED
  BY <1>9, <1>10

\* Every step keeps the reason.
LEMMA StepKeepsReason == RepairInv /\ ReasonInv /\ [Next]_vars => ReasonInv'
<1> SUFFICES ASSUME RepairInv, ReasonInv, [Next]_vars PROVE ReasonInv'
  OBVIOUS
<1>1. CASE Begin
  <2>1. /\ input' = input /\ pc = "fix" /\ app' = ref_app /\ ref_app' = ref_app
        /\ ref_app = input.app /\ input \in Inputs
    BY <1>1 DEF Begin, ReasonInv
  <2>2. CASE AppMatch(ref_app)
    <3>1. fixed' /\ pc' = "normalize"
      BY <1>1, <2>2 DEF Begin
    <3> QED
      BY <2>1, <3>1 DEF ReasonInv
  <2>3. CASE ~AppMatch(ref_app)
    <3>1. /\ pc' = "fixing" /\ o' = 1
          /\ view_ids' = FindNonMatchingViews(ref_app, 1)
      BY <1>1, <2>3 DEF Begin
    <3>2. (view_ids \subseteq FindNonMatchingViews(input.app, o))'
      BY <2>1, <3>1 DEF FindNonMatchingViews, rendered
    <3>3. \A or \in Orientations :
            Tuned(input.app[or], input.app[or], input.place[or], input.up)
      <4>1. PICK i : i = input
        OBVIOUS
      <4> QED
        BY <2>1, <4>1, InputsAreTuned
    <3> QED
      BY <2>1, <3>1, <3>2, <3>3 DEF ReasonInv
  <2> QED
    BY <2>2, <2>3
<1>2. CASE FixRound
  BY <1>2, RoundKeepsReason
<1>3. CASE FixOrientationDone
  <2>1. /\ pc = "fixing" /\ input' = input /\ app' = app /\ input \in Inputs
        /\ \A or \in Orientations :
            Tuned(input.app[or], app[or], input.place[or], input.up)
    BY <1>3 DEF FixOrientationDone, ReasonInv
  <2>2. CASE o = 1
    <3>1. /\ pc' = "fixing" /\ o' = 2 /\ view_ids' = FindNonMatchingViews(app, 2)
          /\ app[2] = input.app[2]
      BY <1>3, <2>1, <2>2 DEF FixOrientationDone, ReasonInv
    <3>2. (view_ids \subseteq FindNonMatchingViews(input.app, o))'
      BY <2>1, <3>1 DEF FindNonMatchingViews, rendered
    <3> QED
      BY <2>1, <3>1, <3>2 DEF ReasonInv
  <2>3. CASE o # 1
    <3>1. fixed' /\ pc' = "normalize"
      BY <1>3, <2>3 DEF FixOrientationDone
    <3> QED
      BY <2>1, <3>1 DEF ReasonInv
  <2> QED
    BY <2>2, <2>3
<1>4. CASE BeginNormalize \/ NormalizeRound \/ NormalizeOrientationDone
  <2>1. /\ input' = input /\ fixed' = fixed
        /\ pc \in {"normalize", "normalizing", "done"}
        /\ pc' \in {"normalize", "normalizing", "done"}
    BY <1>4 DEF BeginNormalize, NormalizeRound, NormalizeOrientationDone
  <2>2. Reason' <=> Reason
    BY <2>1 DEF Reason, FindNonMatchingViews, rendered, Movable
  <2> QED
    BY <2>1, <2>2 DEF ReasonInv
<1>5. CASE UNCHANGED vars
  <2>1. Reason' <=> Reason
    BY <1>5 DEF vars, Reason, FindNonMatchingViews, rendered, Movable
  <2> QED
    BY <1>5, <2>1 DEF vars, ReasonInv, FindNonMatchingViews, rendered
<1> QED
  BY <1>1, <1>2, <1>3, <1>4, <1>5 DEF Next, Step, Done

\* TryFixInconsistencies gives up only when a view is off that has no margin to
\* move it by, for every number of views and every app that satisfies what the
\* solver asserted: comparing the number of wrong views before and after a round,
\* as the code does, misses no progress.
THEOREM GivingUpHasReason == Spec => []GivesUpForReason
<1>1. Init => RepairInv /\ ReasonInv
  <2>1. Init => ReasonInv
    BY DEF Init, ReasonInv
  <2> QED
    BY <2>1, InitEstablishes
<1>2. (RepairInv /\ ReasonInv) /\ [Next]_vars => (RepairInv /\ ReasonInv)'
  BY StepPreserves, StepKeepsReason
<1>3. RepairInv /\ ReasonInv => GivesUpForReason
  BY DEF ReasonInv, Reason, GivesUpForReason
<1> QED
  BY <1>1, <1>2, <1>3, PTL DEF Spec
=============================================================================
