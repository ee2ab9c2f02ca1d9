----------------------- MODULE ConstraintCacheProofs -----------------------
(***************************************************************************)
(* The invariants of the ConstraintCache, for any number of views, any       *)
(* placement of them in the integers, any number of further apps and any     *)
(* probability model.                                                        *)
(*                                                                         *)
(* CacheInv is inductive.  It relates the two loops of the constructor to    *)
(* what the generator offers (TypeInv, FilterInv, AloneInv) and the pruning  *)
(* to the attributes it has visited and those it has still to visit          *)
(* (PruneInv, DirectionInv, FrameInv).  The geometry, that a generated       *)
(* attribute renders its view where it was designed, is in the lemmas        *)
(* RelationalFits, CenteringFits and MatchConstraintFits.                    *)
(***************************************************************************)
EXTENDS ConstraintCache, OperatorLemmas

\* The attribute that ties both sides of a view to the same sides of the
\* content frame is always generated, is valid, and refers to the frame only.
SpansFrame(place, v) ==
  LET type == [start |-> "start", end |-> "end"]
      margin == CenterMargin(type, place[v], place[Root], place[Root])
  IN  Attribute(type, "FIXED", IF margin > 0 THEN margin ELSE 0,
                IF margin < 0 THEN -margin ELSE 0, v, Root, Root)

\* What an attribute of a view that survived the first k further apps is.
Fitting(v, k) ==
  {a \in GenAttributesForApp(views, v) :
     \A j \in 1 .. k : a \in GenAttributesForApp(apps[j], v)}

\* Where the loops stand; what is kept of a view fits all the apps.
TypeInv ==
  /\ views \in Placements /\ apps \in Seq(Placements)
  /\ pc \in {"generate", "filter", "prune", "ready", "aborted"}
  /\ view \in 1 .. NumViews + 1
  /\ pc = "filter" => view \in SynViews
  /\ pc \in {"prune", "ready"} => view = NumViews + 1
  /\ candidate_attrs_ \in [SynViews -> SUBSET UNION {Fitting(v, Len(apps)) : v \in SynViews}]
  /\ \A v \in SynViews : candidate_attrs_[v] \subseteq Fitting(v, Len(apps))

\* The filter: what is left fits the apps it has gone through, whatever became
\* of the numbering; an attribute's number never exceeds those in matches.
FilterInv ==
  pc = "filter" =>
    /\ app \in 1 .. Len(apps) + 1
    /\ attrs \in Seq(Fitting(view, app - 1))
    /\ DOMAIN attrs \subseteq DOMAIN matches
    /\ apps = <<>> => ToSet(attrs) = GenAttributesForApp(views, view)

\* An app that comes alone keeps everything it was offered.
AloneInv ==
  apps = <<>> =>
    /\ pc # "aborted"
    /\ \A v \in SynViews : v < view => candidate_attrs_[v] = GenAttributesForApp(views, v)

\* Nothing is allowed before the pruning begins; pending are candidates.
PruneInv ==
  /\ pc \notin {"prune", "ready"} =>
       allowed_targets = {} /\ \A v \in SynViews : pending[v] = {}
  /\ pending \in [SynViews -> SUBSET UNION {Fitting(v, Len(apps)) : v \in SynViews}]
  /\ \A v \in SynViews : pending[v] \subseteq candidate_attrs_[v]
  /\ allowed_targets \subseteq SynViews \X Views
  /\ pc = "ready" => \A v \in SynViews : pending[v] = {}

\* An allowed pair comes from a visited attribute that was at least as probable
\* as any relational attribute in the other direction, and a visited relational
\* attribute has decided the direction between its two views.
DirectionInv ==
  /\ NotBothWays
  /\ \A v \in SynViews : \A w \in Views : <<v, w>> \in allowed_targets =>
       \A u \in SynViews : \A b \in candidate_attrs_[u] :
         IsRelationalAnchor(b.type) /\ b.src = w /\ b.tgt_primary = v
           => \E a \in candidate_attrs_[v] : w \in Targets(a) /\ Probability(a) >= Probability(b)
  /\ pc \in {"prune", "ready"} =>
       \A v \in SynViews : \A b \in candidate_attrs_[v] \ pending[v] :
         IsRelationalAnchor(b.type) =>
           \/ <<v, b.tgt_primary>> \in allowed_targets
           \/ <<b.tgt_primary, v>> \in allowed_targets

\* Once the attribute that spans the content frame is visited, its view may
\* refer to the frame: nothing in the frame refers back.
FrameInv ==
  apps = <<>> /\ pc \in {"prune", "ready"} =>
    \A v \in SynViews :
      SpansFrame(views, v) \notin pending[v] => <<v, Root>> \in allowed_targets

\* The inductive invariant.
CacheInv == TypeInv /\ FilterInv /\ AloneInv /\ PruneInv /\ DirectionInv /\ FrameInv
-----------------------------------------------------------------------------

\* There are finitely many anchor types.
LEMMA TypesAreFinite == IsFiniteSet(RelationalTypes) /\ IsFiniteSet(CenterTypes)
<1>1. IsFiniteSet(Sides) /\ IsFiniteSet({None})
  <2>1. IsFiniteSet({"start"} \cup {"end"})
    BY FS_Singleton, FS_AddElement
  <2>2. {"start"} \cup {"end"} = Sides
    BY DEF Sides
  <2> QED
    BY <2>1, <2>2, FS_Singleton
<1>2. ASSUME NEW A, NEW B, IsFiniteSet(A), IsFiniteSet(B)
      PROVE  IsFiniteSet([start : A, end : B])
  <2> DEFINE f == [p \in A \X B |-> [start |-> p[1], end |-> p[2]]]
  <2>1. IsFiniteSet(A \X B)
    BY <1>2, FS_Product
  <2>2. f \in Surjection(A \X B, [start : A, end : B])
    <3>1. f \in [A \X B -> [start : A, end : B]]
      OBVIOUS
    <3>2. \A t \in [start : A, end : B] : \E s \in A \X B : f[s] = t
      <4> SUFFICES ASSUME NEW t \in [start : A, end : B]
                   PROVE  \E s \in A \X B : f[s] = t
        OBVIOUS
      <4>1. <<t.start, t.end>> \in A \X B /\ f[<<t.start, t.end>>] = t
        OBVIOUS
      <4> QED
        BY <4>1
    <3> QED
      BY <3>1, <3>2 DEF Surjection
  <2> QED
    BY <2>1, <2>2, FS_Surjection
<1> QED
  BY <1>1, <1>2, FS_Union DEF RelationalTypes, CenterTypes

\* The values of a function on a finite set.
LEMMA ImageIsFinite ==
  ASSUME NEW D, IsFiniteSet(D), NEW f
  PROVE  IsFiniteSet({f[x] : x \in D})
<1> DEFINE T == {f[x] : x \in D}
           g == [x \in D |-> f[x]]
<1>1. g \in Surjection(D, T)
  BY DEF Surjection
<1> QED
  BY <1>1, FS_Surjection

\* There are finitely many views.
LEMMA ViewsAreFinite == IsFiniteSet(Views)
<1>1. 0 \in Int /\ NumViews \in Int
  BY NumViewsAssumption
<1> QED
  BY <1>1, FS_Interval DEF Views

\* The generator offers finitely many attributes, so that the list Generate folds
\* them into holds each of them.
LEMMA AttributesAreFinite ==
  ASSUME NEW place \in Placements, NEW src \in SynViews
  PROVE  IsFiniteSet(GenAttributesForApp(place, src))
<1>1. IsFiniteSet(Views \ {src})
  BY ViewsAreFinite, FS_RemoveElement
<1>2. /\ IsFiniteSet(RelationalTypes \X (Views \ {src}))
      /\ IsFiniteSet(CenterTypes \X TargetPairs(src))
  BY <1>1, TypesAreFinite, FS_Product DEF TargetPairs
<1>3. IsFiniteSet(GenFixedSizeRelational(place, src))
  <2> DEFINE D == {y \in RelationalTypes \X (Views \ {src}) :
                     /\ ~(y[2] = Root /\ IsOpposite(y[1]))
                     /\ RelationalMargin(y[1], place[src], place[y[2]]) >= 0}
             f == [x \in D |->
                     LET type == x[1]
                         margin == RelationalMargin(type, place[src], place[x[2]])
                     IN  Attribute(type, "FIXED", IF IsTypeStart(type) THEN margin ELSE 0,
                           IF IsTypeStart(type) THEN 0 ELSE margin, src, x[2], NoView)]
  <2>1. IsFiniteSet(D)
    BY <1>2, FS_Subset
  <2>2. GenFixedSizeRelational(place, src) = {f[x] : x \in D}
    BY DEF GenFixedSizeRelational
  <2> HIDE DEF D, f
  <2> QED
    BY <2>1, <2>2, ImageIsFinite
<1>4. IsFiniteSet(GenFixedSizeCentering(place, src))
  <2> DEFINE D == {y \in CenterTypes \X TargetPairs(src) :
              \/ y[2][1] # y[2][2]
              \/ y[1].start # y[1].end
              \/ CenterMargin(y[1], place[src], place[y[2][1]], place[y[2][2]]) = 0}
             f == [x \in D |->
   LET margin == CenterMargin(x[1], place[src], place[x[2][1]], place[x[2][2]])
   IN  Attribute(x[1], "FIXED", IF margin > 0 THEN margin ELSE 0,
                 IF margin < 0 THEN -margin ELSE 0, src, x[2][1], x[2][2])]
  <2>1. IsFiniteSet(D)
    BY <1>2, FS_Subset
  <2>2. GenFixedSizeCentering(place, src) = {f[x] : x \in D}
    BY DEF GenFixedSizeCentering
  <2> HIDE DEF D, f
  <2> QED
    BY <2>1, <2>2, ImageIsFinite
<1>5. IsFiniteSet(GenMatchConstraintCentering(place, src))
  <2> DEFINE D == {y \in CenterTypes \X TargetPairs(src) :
              /\ StartMargin(y[1], place[src], place[y[2][1]]) >= 0
              /\ EndMargin(y[1], place[src], place[y[2][2]]) >= 0}
             f == [x \in D |->
                     Attribute(x[1], "MATCH_CONSTRAINT",
             StartMargin(x[1], place[src], place[x[2][1]]),
             EndMargin(x[1], place[src], place[x[2][2]]), src, x[2][1], x[2][2])]
  <2>1. IsFiniteSet(D)
    BY <1>2, FS_Subset
  <2>2. GenMatchConstraintCentering(place, src) = {f[x] : x \in D}
    BY DEF GenMatchConstraintCentering
  <2> HIDE DEF D, f
  <2> QED
    BY <2>1, <2>2, ImageIsFinite
<1> QED
  BY <1>3, <1>4, <1>5, FS_Union DEF GenAttributesForApp

\* Half of twice a number, and of one more, is the number.
LEMMA HalfOfDouble ==
  ASSUME NEW n \in Int, NEW up \in {0, 1}
  PROVE  (n + n + up) \div 2 = n
OBVIOUS

\* What an attribute of the generator looks like, and where it puts its view.
LEMMA RelationalFits ==
  ASSUME NEW place \in Placements, NEW src \in SynViews,
         NEW a \in GenFixedSizeRelational(place, src)
  PROVE  /\ a.src = src /\ IsRelationalAnchor(a.type)
         /\ a.tgt_primary \in Views \ {src} /\ a.tgt_secondary = NoView
         /\ RendersIn(a, place)
<1>1. PICK x \in RelationalTypes \X (Views \ {src}) :
        a = LET type == x[1]
                margin == RelationalMargin(type, place[src], place[x[2]])
            IN  Attribute(type, "FIXED", IF IsTypeStart(type) THEN margin ELSE 0,
                  IF IsTypeStart(type) THEN 0 ELSE margin, src, x[2], NoView)
  BY DEF GenFixedSizeRelational
<1> DEFINE type == x[1]
           tgt == x[2]
<1>2. type \in RelationalTypes /\ tgt \in Views \ {src} /\ src \in Views
  BY NumViewsAssumption DEF Views, SynViews
<1>3. place[src] \in Places /\ place[tgt] \in Places
  BY <1>2 DEF Placements
<1> DEFINE margin == RelationalMargin(type, place[src], place[tgt])
<1>4. a = Attribute(type, "FIXED", IF IsTypeStart(type) THEN margin ELSE 0,
                  IF IsTypeStart(type) THEN 0 ELSE margin, src, tgt, NoView)
  BY <1>1, Zenon
<1> HIDE DEF type, tgt
<1>5. IsRelationalAnchor(type)
  BY <1>2 DEF RelationalTypes, IsRelationalAnchor, None, Sides
<1>6. ASSUME NEW up \in {0, 1}
      PROVE  Rendered(a, place, place[a.src], up) = place[a.src]
  <2> DEFINE own == place[src]
             l == place[tgt]
  <2>1. own \in Places /\ l \in Places
    BY <1>3
  <2>2. Rendered(a, place, place[a.src], up)
          = Aligned(type, IF IsTypeStart(type) THEN margin ELSE 0,
                    IF IsTypeStart(type) THEN 0 ELSE margin, own, l)
    BY <1>4, <1>5 DEF Rendered, Attribute
  <2>3. a.src = src
    BY <1>4 DEF Attribute
  <2>4. Aligned(type, IF IsTypeStart(type) THEN margin ELSE 0,
                    IF IsTypeStart(type) THEN 0 ELSE margin, own, l) = own
    <3> HIDE DEF own, l
    <3>1. CASE IsTypeStart(type)
      <4>1. type.start \in {"start", "end"} /\ l[type.start] \in Int
        BY <1>2, <2>1, <3>1 DEF RelationalTypes, IsTypeStart, None, Sides, Places
      <4> QED
        BY <2>1, <3>1, <4>1 DEF Aligned, RelationalMargin, StartMargin, Places, own, l
    <3>2. CASE ~IsTypeStart(type)
      <4>1. type.end \in {"start", "end"} /\ l[type.end] \in Int
        BY <1>2, <2>1, <3>2 DEF RelationalTypes, IsTypeStart, None, Sides, Places
      <4> QED
        BY <2>1, <3>2, <4>1 DEF Aligned, RelationalMargin, EndMargin, Places, own, l
    <3> QED
      BY <3>1, <3>2
  <2> QED
    BY <2>2, <2>3, <2>4
<1>7. /\ a.src = src /\ a.type = type
      /\ a.tgt_primary = tgt /\ a.tgt_secondary = NoView
  BY <1>4 DEF Attribute
<1> QED
  BY <1>2, <1>5, <1>6, <1>7 DEF RendersIn

\* The sides a center attribute ties its view to have coordinates.
LEMMA SidesOfPlaces ==
  ASSUME NEW type \in CenterTypes, NEW l \in Places, NEW r \in Places
  PROVE  /\ ~IsRelationalAnchor(type)
         /\ l[type.start] \in Int /\ r[type.end] \in Int
<1>1. type.start \in {"start", "end"} /\ type.end \in {"start", "end"}
  BY DEF CenterTypes, Sides
<1> QED
  BY <1>1 DEF IsRelationalAnchor, None, Places

\* A center attribute with a fixed size keeps its view in place: half of the
\* doubled center is exact, whichever way the renderer rounds.
LEMMA CenteringFits ==
  ASSUME NEW place \in Placements, NEW src \in SynViews,
         NEW a \in GenFixedSizeCentering(place, src)
  PROVE  /\ a.src = src /\ ~IsRelationalAnchor(a.type)
         /\ {a.tgt_primary, a.tgt_secondary} \subseteq Views \ {src}
         /\ RendersIn(a, place)
<1>1. PICK x \in CenterTypes \X TargetPairs(src) :
        /\ a = LET margin == CenterMargin(x[1], place[src], place[x[2][1]], place[x[2][2]])
               IN  Attribute(x[1], "FIXED", IF margin > 0 THEN margin ELSE 0,
                             IF margin < 0 THEN -margin ELSE 0, src, x[2][1], x[2][2])
        /\ \/ x[2][1] # x[2][2]
           \/ x[1].start # x[1].end
           \/ CenterMargin(x[1], place[src], place[x[2][1]], place[x[2][2]]) = 0
  BY DEF GenFixedSizeCentering
<1> DEFINE type == x[1]
           p == x[2][1]
           s == x[2][2]
           own == place[src]
           l == place[p]
           r == place[s]
           margin == CenterMargin(type, own, l, r)
<1>2. type \in CenterTypes /\ p \in Views \ {src} /\ s \in Views \ {src} /\ src \in Views
  BY NumViewsAssumption DEF Views, SynViews, TargetPairs
<1>3. own \in Places /\ l \in Places /\ r \in Places
  BY <1>2 DEF Placements
<1>4. a = Attribute(type, "FIXED", IF margin > 0 THEN margin ELSE 0,
                    IF margin < 0 THEN -margin ELSE 0, src, p, s)
  BY <1>1, Zenon
<1>5. p # s \/ type.start # type.end \/ margin = 0
  BY <1>1, Zenon
<1> DEFINE same == p = s /\ type.start = type.end
           before == IF margin > 0 THEN margin ELSE 0
           after == IF margin < 0 THEN -margin ELSE 0
<1>6. ~IsRelationalAnchor(type) /\ l[type.start] \in Int /\ r[type.end] \in Int
  BY <1>2, <1>3, SidesOfPlaces
<1>7. margin = own.start + own.end - l[type.start] - r[type.end]
  BY DEF CenterMargin
<1> HIDE DEF type, p, s
<1>8. ASSUME NEW up \in {0, 1}
      PROVE  Rendered(a, place, place[a.src], up) = place[a.src]
  <2>1. a.src = src
    BY <1>4 DEF Attribute
  <2>2. Rendered(a, place, place[a.src], up)
          = Centered(type, before, after, own, l, r, same, up)
    BY <1>4, <1>6 DEF Rendered, OneAnchor, Attribute
  <2> HIDE DEF own, l, r
  <2>3. own.start \in Int /\ own.end \in Int /\ own = [start |-> own.start, end |-> own.end]
    BY <1>3 DEF Places
  <2>4. margin \in Int
    BY <1>6, <1>7, <2>3
  <2> HIDE DEF margin
  <2> DEFINE free == l[type.start] + r[type.end] + (IF same THEN 0 ELSE before - after)
                       - (own.end - own.start) + up
  <2>5. free = own.start + own.start + up
    <3>1. (IF same THEN 0 ELSE before - after) = margin
      <4>1. before - after = margin
        BY <2>4
      <4>2. same => margin = 0
        BY <1>5
      <4> QED
        BY <4>1, <4>2
    <3> HIDE DEF same, before, after
    <3> QED
      BY <1>6, <1>7, <2>3, <2>4, <3>1
  <2>6. Centered(type, before, after, own, l, r, same, up)
          = [start |-> free \div 2, end |-> free \div 2 + (own.end - own.start)]
    BY Zenon DEF Centered
  <2>7. free \div 2 = own.start
    <3> HIDE DEF free
    <3> QED
      BY <2>3, <2>5, HalfOfDouble
  <2> HIDE DEF free, before, after, same
  <2>8. free \div 2 + (own.end - own.start) = own.end
    BY <2>3, <2>7
  <2>9. Centered(type, before, after, own, l, r, same, up) = own
    BY <2>3, <2>6, <2>7, <2>8, Zenon
  <2> QED
    BY <2>1, <2>2, <2>9, Zenon DEF own
<1>9. /\ a.src = src /\ a.type = type
      /\ a.tgt_primary = p /\ a.tgt_secondary = s
  BY <1>4 DEF Attribute
<1> QED
  BY <1>2, <1>6, <1>8, <1>9 DEF RendersIn

\* A center attribute that stretches its view keeps both sides in place.
LEMMA MatchConstraintFits ==
  ASSUME NEW place \in Placements, NEW src \in SynViews,
         NEW a \in GenMatchConstraintCentering(place, src)
  PROVE  /\ a.src = src /\ ~IsRelationalAnchor(a.type)
         /\ {a.tgt_primary, a.tgt_secondary} \subseteq Views \ {src}
         /\ RendersIn(a, place)
<1>1. PICK x \in CenterTypes \X TargetPairs(src) :
        a = Attribute(x[1], "MATCH_CONSTRAINT",
             StartMargin(x[1], place[src], place[x[2][1]]),
             EndMargin(x[1], place[src], place[x[2][2]]), src, x[2][1], x[2][2])
  BY DEF GenMatchConstraintCentering
<1> DEFINE type == x[1]
           p == x[2][1]
           s == x[2][2]
           own == place[src]
           l == place[p]
           r == place[s]
<1>2. type \in CenterTypes /\ p \in Views \ {src} /\ s \in Views \ {src} /\ src \in Views
  BY NumViewsAssumption DEF Views, SynViews, TargetPairs
<1>3. own \in Places /\ l \in Places /\ r \in Places
  BY <1>2 DEF Placements
<1>4. a = Attribute(type, "MATCH_CONSTRAINT", StartMargin(type, own, l),
                    EndMargin(type, own, r), src, p, s)
  BY <1>1, Zenon
<1>6. ~IsRelationalAnchor(type) /\ l[type.start] \in Int /\ r[type.end] \in Int
  BY <1>2, <1>3, SidesOfPlaces
<1> HIDE DEF type, p, s
<1>8. ASSUME NEW up \in {0, 1}
      PROVE  Rendered(a, place, place[a.src], up) = place[a.src]
  <2>1. a.src = src
    BY <1>4 DEF Attribute
  <2>2. Rendered(a, place, place[a.src], up)
          = Stretched(type, StartMargin(type, own, l), EndMargin(type, own, r), l, r)
    BY <1>4, <1>6 DEF Rendered, Attribute
  <2> HIDE DEF own, l, r
  <2>3. own.start \in Int /\ own.end \in Int /\ own = [start |-> own.start, end |-> own.end]
    BY <1>3 DEF Places
  <2>4. Stretched(type, StartMargin(type, own, l), EndMargin(type, own, r), l, r) = own
    BY <1>6, <2>3 DEF Stretched, StartMargin, EndMargin
  <2> QED
    BY <2>1, <2>2, <2>4, Zenon DEF own
<1>9. /\ a.src = src /\ a.type = type
      /\ a.tgt_primary = p /\ a.tgt_secondary = s
  BY <1>4 DEF Attribute
<1> QED
  BY <1>2, <1>6, <1>8, <1>9 DEF RendersIn

\* So does whatever the generator offers.
LEMMA AttributesFit ==
  ASSUME NEW place \in Placements, NEW src \in SynViews,
         NEW a \in GenAttributesForApp(place, src)
  PROVE  /\ a.src = src /\ RendersIn(a, place)
         /\ Targets(a) \subseteq Views \ {src} /\ Targets(a) # {}
         /\ IsRelationalAnchor(a.type) => Targets(a) = {a.tgt_primary}
<1>1. NoView \notin Views
  BY NumViewsAssumption DEF NoView, Views
<1>2. CASE a \in GenFixedSizeRelational(place, src)
  BY <1>1, <1>2, RelationalFits DEF Targets
<1>3. CASE a \in GenFixedSizeCentering(place, src)
  BY <1>1, <1>3, CenteringFits DEF Targets
<1>4. CASE a \in GenMatchConstraintCentering(place, src)
  BY <1>1, <1>4, MatchConstraintFits DEF Targets
<1> QED
  BY <1>2, <1>3, <1>4 DEF GenAttributesForApp

\* The generator always offers the attribute that spans the content frame.
LEMMA FrameIsOffered ==
  ASSUME NEW place \in Placements, NEW v \in SynViews
  PROVE  /\ SpansFrame(place, v) \in GenAttributesForApp(place, v)
         /\ SpansFrame(place, v).src = v
         /\ Targets(SpansFrame(place, v)) = {Root}
         /\ IsValid(SpansFrame(place, v))
<1> DEFINE type == [start |-> "start", end |-> "end"]
           x == <<type, <<Root, Root>>>>
           a == SpansFrame(place, v)
<1>1. x \in CenterTypes \X TargetPairs(v) /\ type.start # type.end
  BY NumViewsAssumption DEF CenterTypes, TargetPairs, Sides, Views, SynViews, Root
<1>2. a = LET margin == CenterMargin(x[1], place[v], place[x[2][1]], place[x[2][2]])
          IN  Attribute(x[1], "FIXED", IF margin > 0 THEN margin ELSE 0,
                        IF margin < 0 THEN -margin ELSE 0, v, x[2][1], x[2][2])
  BY DEF SpansFrame
<1>3. a \in GenFixedSizeCentering(place, v)
  <2>1. x[1].start # x[1].end
    BY <1>1
  <2> HIDE DEF x, a
  <2> QED
    BY <1>1, <1>2, <2>1 DEF GenFixedSizeCentering
<1>4. /\ a.src = v /\ a.type = type
      /\ a.tgt_primary = Root /\ a.tgt_secondary = Root
  BY DEF SpansFrame, Attribute
<1>5. NoView # Root
  BY NumViewsAssumption DEF NoView, Root
<1>6. Targets(a) = {Root}
  BY <1>4, <1>5 DEF Targets
<1>7. IsValid(a)
  <2> HIDE DEF a
  <2> QED
    BY <1>4 DEF IsValid, IsRelationalAnchor, None
<1> QED
  BY <1>3, <1>4, <1>6, <1>7 DEF GenAttributesForApp

\* The constructor starts within the invariant.
LEMMA InitEstablishes == Init => CacheInv
<1> SUFFICES ASSUME Init PROVE CacheInv
  OBVIOUS
<1>1. views \in Placements /\ apps \in Seq(Placements)
  BY PlacementsAssumption DEF Init
<1>2. TypeInv
  BY <1>1, NumViewsAssumption DEF Init, TypeInv, SynViews
<1>3. AloneInv
  BY DEF Init, AloneInv, SynViews
<1>4. PruneInv /\ FilterInv /\ FrameInv
  BY DEF Init, PruneInv, FilterInv, FrameInv
<1>5. DirectionInv
  BY DEF Init, DirectionInv, NotBothWays
<1> QED
  BY <1>2, <1>3, <1>4, <1>5 DEF CacheInv

\* Generate lists exactly what the generator offers.
LEMMA GeneratePreserves == CacheInv /\ Generate => CacheInv'
<1> SUFFICES ASSUME CacheInv, Generate PROVE CacheInv'
  OBVIOUS
<1> USE DEF CacheInv
<1>1. /\ UNCHANGED <<views, apps, model, view, candidate_attrs_, pending, allowed_targets>>
      /\ pc = "generate" /\ pc' = "filter" /\ app' = 1 /\ view <= NumViews
      /\ matches' = [i \in DOMAIN attrs' |-> TRUE]
  BY DEF Generate, inputs, prune
<1>2. view \in SynViews
  BY <1>1, NumViewsAssumption DEF TypeInv, SynViews
<1>3. attrs' \in Seq(GenAttributesForApp(views, view))
      /\ ToSet(attrs') = GenAttributesForApp(views, view)
  <2>1. IsFiniteSet(GenAttributesForApp(views, view))
    BY <1>2, AttributesAreFinite DEF TypeInv
  <2>2. attrs' = FoldSet(LAMBDA a, s : Append(s, a), <<>>, GenAttributesForApp(views, view))
    BY DEF Generate
  <2> QED
    BY <2>1, <2>2, AppendAll
<1>4. TypeInv'
  BY <1>1, <1>2 DEF TypeInv, Fitting
<1>5. FilterInv'
  <2>1. Fitting(view, 0) = GenAttributesForApp(views, view)
    BY DEF Fitting
  <2>2. (Fitting(view, app - 1))' = Fitting(view, 0)
    BY <1>1 DEF Fitting
  <2>3. Len(apps) \in Nat
    BY DEF TypeInv
  <2> QED
    BY <1>1, <1>3, <2>1, <2>2, <2>3 DEF FilterInv
<1>6. AloneInv'
  BY <1>1 DEF AloneInv
<1>7. PruneInv' /\ FrameInv'
  BY <1>1 DEF PruneInv, Fitting, FrameInv
<1>8. DirectionInv'
  BY <1>1 DEF DirectionInv, NotBothWays, Probability
<1> QED
  BY <1>4, <1>5, <1>6, <1>7, <1>8

\* What Chosen keeps.
LEMMA ChosenMatch ==
  ASSUME NEW X, NEW list \in Seq(X), NEW m
  PROVE  /\ Chosen(list, m) \in Seq(X) /\ Len(Chosen(list, m)) <= Len(list)
         /\ ToSet(Chosen(list, m)) = {list[i] : i \in {j \in DOMAIN list : m[j]}}
<1>1. /\ DOMAIN list = 1 .. Len(list) /\ Len(list) \in Nat
      /\ \A i \in DOMAIN list : list[i] \in X
  OBVIOUS
<1>2. \A x \in DOMAIN list, q \in Seq(X) : Append(q, list[x]) \in Seq(X)
  BY <1>1
<1>3. IsFiniteSet(DOMAIN list)
  BY <1>1, FS_Interval
<1> DEFINE ix == [i \in DOMAIN list |-> i]
           D == DOMAIN ix
           Of(s) == {list[i] : i \in {j \in s : m[j]}}
           pick == [s \in SUBSET D |-> Max(s)]
           step == [p \in D \X Seq(X) |->
                      IF m[p[1]] THEN Append(p[2], list[p[1]]) ELSE p[2]]
           Body(it) == [s \in SUBSET D |->
                          IF s = {} THEN <<>>
                          ELSE IF m[ix[Max(s)]]
                               THEN Append(it[s \ {Max(s)}], list[ix[Max(s)]])
                               ELSE it[s \ {Max(s)}]]
           iter == CHOOSE it : it = Body(it)
<1>4. D = 1 .. Len(list) /\ Len(list) \in Nat /\ \A i \in D : ix[i] = i /\ list[i] \in X
  <2>1. D = DOMAIN list
    BY Zenon
  <2>3. \A i \in DOMAIN list : ix[i] = i
    BY Zenon
  <2> HIDE DEF D, ix
  <2> QED
    BY <2>1, <1>1, <2>3
<1>5. IsFiniteSet(D)
  <2>1. D = DOMAIN list
    BY Zenon
  <2> QED
    BY <2>1, <1>3, Zenon
<1>6. \A s \in SUBSET D : s # {} => Max(s) \in s
  BY <1>4, MaxIsElement
<1>7. \A s \in SUBSET D : pick[s] = Max(s)
  OBVIOUS
<1>8. step \in [D \X Seq(X) -> Seq(X)]
  <2>2. D = DOMAIN list
    BY Zenon
  <2> HIDE DEF D
  <2>1. \A x \in D, q \in Seq(X) : Append(q, list[x]) \in Seq(X)
    BY <1>2, <2>2, Zenon
  <2> QED
    BY <2>1
<1>9. \A x \in D, q \in Seq(X) : step[x, q] = IF m[x] THEN Append(q, list[x]) ELSE q
  OBVIOUS
<1>10. <<>> \in Seq(X)
  OBVIOUS
<1>11. Chosen(list, m) = iter[D]
  BY DEF Chosen, FoldLeftDomain, FoldLeft, MapThenFoldSet
<1> HIDE DEF D, ix
<1>12. PICK f \in [SUBSET D -> Seq(X)] : Folded(SUBSET D, <<>>, pick, step, f)
  <2>1. \A s \in SUBSET D : s # {} => pick[s] \in s
    BY <1>6, <1>7
  <2> HIDE DEF pick, step
  <2> QED
    BY <2>1, <1>5, <1>8, <1>10, FoldExists, Zenon
<1> HIDE DEF pick, step
<1>13. f = Body(f)
  <2>1. \A s \in SUBSET D : f[s] = Body(f)[s]
    <3> SUFFICES ASSUME NEW s \in SUBSET D, s # {}
                 PROVE  f[s] = IF m[ix[Max(s)]]
                               THEN Append(f[s \ {Max(s)}], list[ix[Max(s)]])
                               ELSE f[s \ {Max(s)}]
      BY <1>12 DEF Folded
    <3> DEFINE x == Max(s)
    <3>1. x \in D /\ pick[s] = x /\ f[s \ {x}] \in Seq(X) /\ ix[x] = x
      BY <1>4, <1>6, <1>7
    <3> HIDE DEF x
    <3>2. f[s] = IF m[x] THEN Append(f[s \ {x}], list[x]) ELSE f[s \ {x}]
      BY <3>1, <1>9, <1>12 DEF Folded
    <3> QED
      BY <3>1, <3>2 DEF x
  <2> QED
    BY <2>1
<1>14. iter = Body(iter)
  <2> HIDE DEF Body
  <2> QED
    BY <1>13
<1> DEFINE G == {s \in SUBSET D : /\ iter[s] \in Seq(X) /\ Len(iter[s]) <= Cardinality(s)
                                 /\ ToSet(iter[s]) = Of(s)}
<1>15. \A s \in SUBSET D : (\A x \in s : s \ {x} \in G) => s \in G
  <2> SUFFICES ASSUME NEW s \in SUBSET D, \A x \in s : s \ {x} \in G
               PROVE  s \in G
    OBVIOUS
  <2>1. CASE s = {}
    <3>1. iter[s] = <<>>
      <4> HIDE DEF iter
      <4> QED
        BY <1>14, <2>1
    <3>2. Of(s) = {}
      BY <2>1
    <3>3. Len(iter[s]) <= Cardinality(s)
      <4> HIDE DEF iter
      <4>1. Len(<<>>) = 0 /\ Cardinality(s) = 0
        BY <2>1, FS_EmptySet
      <4> QED
        BY <3>1, <4>1
    <3> HIDE DEF iter, Of
    <3> QED
      BY <3>1, <3>2, <3>3, <2>1, <1>10, ToSetEmpty, Zenon
  <2>2. CASE s # {}
    <3> DEFINE x == Max(s)
               q == iter[s \ {x}]
    <3>1. x \in s /\ ix[x] = x /\ list[x] \in X
      BY <2>2, <1>4, <1>6
    <3>2. iter[s] = IF m[x] THEN Append(q, list[x]) ELSE q
      <4> HIDE DEF iter
      <4>1. iter[s] = Body(iter)[s]
        BY <1>14
      <4>2. Body(iter)[s] = IF m[ix[x]] THEN Append(q, list[ix[x]]) ELSE q
        BY <2>2
      <4> QED
        BY <4>1, <4>2, <3>1
    <3> HIDE DEF iter
    <3>3. q \in Seq(X) /\ ToSet(q) = Of(s \ {x}) /\ Len(q) <= Cardinality(s \ {x})
      BY <3>1
    <3>6. /\ IsFiniteSet(s) /\ Cardinality(s \ {x}) = Cardinality(s) - 1
          /\ Cardinality(s) \in Nat
      BY <1>5, <3>1, FS_Subset, FS_RemoveElement, FS_CardinalityType
    <3> HIDE DEF x, q
    <3>4. /\ Append(q, list[x]) \in Seq(X)
          /\ ToSet(Append(q, list[x])) = ToSet(q) \cup {list[x]}
      <4> DEFINE e == list[x]
      <4>1. q \in Seq(X) /\ e \in X
        BY <3>1, <3>3
      <4> HIDE DEF e
      <4>2. Append(q, e) \in Seq(X) /\ ToSet(Append(q, e)) = ToSet(q) \cup {e}
        BY <4>1, ToSetAppend
      <4> QED
        BY <4>2 DEF e
    <3>5. Of(s) = IF m[x] THEN Of(s \ {x}) \cup {list[x]} ELSE Of(s \ {x})
      BY <3>1
    <3> HIDE DEF Of
    <3>7. iter[s] \in Seq(X) /\ ToSet(iter[s]) = Of(s)
      BY <3>2, <3>3, <3>4, <3>5
    <3>8. Len(iter[s]) <= Cardinality(s)
      <4>1. Len(q) \in Nat /\ Len(Append(q, list[x])) = Len(q) + 1
        BY <3>1, <3>3
      <4>2. CASE m[x]
        BY <3>2, <3>3, <3>6, <4>1, <4>2
      <4>3. CASE ~m[x]
        BY <3>2, <3>3, <3>6, <4>1, <4>3
      <4> QED
        BY <4>2, <4>3
    <3> QED
      BY <3>7, <3>8
  <2> QED
    BY <2>1, <2>2
<1>16. G = SUBSET D
  <2>1. G \in SUBSET SUBSET D
    OBVIOUS
  <2> HIDE DEF G
  <2> QED
    BY <1>5, <1>15, <2>1, SubsetInduction, Zenon
<1>17. iter[D] \in Seq(X) /\ ToSet(iter[D]) = Of(D) /\ Len(iter[D]) <= Cardinality(D)
  <2> HIDE DEF iter
  <2> QED
    BY <1>16
<1>18. Cardinality(D) = Len(list)
  BY <1>4, FS_Interval
<1>19. D = DOMAIN list
  BY DEF D, ix
<1> HIDE DEF iter
<1> QED
  BY <1>11, <1>17, <1>19, <1>18, Zenon

\* An app filters by position, in lists numbered differently, and what it keeps
\* still fits that app.
LEMMA FilterPreserves == CacheInv /\ FilterByApp => CacheInv'
<1> SUFFICES ASSUME CacheInv, FilterByApp PROVE CacheInv'
  OBVIOUS
<1> USE DEF CacheInv
<1>1. /\ UNCHANGED <<views, apps, model, view, candidate_attrs_, pending, allowed_targets, pc>>
      /\ pc = "filter" /\ app <= Len(apps) /\ app' = app + 1
      /\ matches' = StillMatches(matches, attrs, GenAttributesForApp(apps[app], view))
      /\ attrs' = Chosen(attrs, matches')
  BY DEF FilterByApp, inputs, prune
<1>2. /\ view \in SynViews /\ Len(apps) \in Nat /\ app \in 1 .. Len(apps)
      /\ attrs \in Seq(Fitting(view, app - 1)) /\ DOMAIN attrs \subseteq DOMAIN matches
  BY <1>1 DEF TypeInv, FilterInv
<1>3. /\ attrs' \in Seq(Fitting(view, app - 1)) /\ Len(attrs') <= Len(attrs)
      /\ ToSet(attrs') = {attrs[i] : i \in {j \in DOMAIN attrs : matches'[j]}}
  <2>1. PICK m : m = matches'
    OBVIOUS
  <2>2. PICK X : X = Fitting(view, app - 1)
    OBVIOUS
  <2>3. attrs \in Seq(X)
    BY <1>2, <2>2
  <2>4. /\ Chosen(attrs, m) \in Seq(X) /\ Len(Chosen(attrs, m)) <= Len(attrs)
        /\ ToSet(Chosen(attrs, m)) = {attrs[i] : i \in {j \in DOMAIN attrs : m[j]}}
    BY <2>3, ChosenMatch
  <2> QED
    BY <1>1, <2>1, <2>2, <2>4, Zenon
<1>4. \A i \in DOMAIN attrs : matches'[i] => attrs[i] \in GenAttributesForApp(apps[app], view)
  BY <1>1, <1>2 DEF StillMatches
<1>5. ToSet(attrs') \subseteq Fitting(view, app)
  <2> SUFFICES ASSUME NEW a \in ToSet(attrs') PROVE a \in Fitting(view, app)
    OBVIOUS
  <2>1. PICK i \in DOMAIN attrs : a = attrs[i] /\ matches'[i]
    BY <1>3
  <2>2. a \in Fitting(view, app - 1)
    BY <1>2, <2>1
  <2>3. a \in GenAttributesForApp(apps[app], view)
    BY <1>4, <2>1
  <2>4. \A j \in 1 .. app : j \in 1 .. app - 1 \/ j = app
    BY <1>2
  <2> QED
    BY <2>2, <2>3, <2>4 DEF Fitting
<1>6. attrs' \in Seq(Fitting(view, app))
  <2> DEFINE q == attrs'
  <2>1. q \in Seq(Fitting(view, app - 1)) /\ \A i \in DOMAIN q : q[i] \in Fitting(view, app)
    BY <1>3, <1>5 DEF ToSet
  <2> HIDE DEF q
  <2>2. q \in Seq(Fitting(view, app))
    BY <2>1
  <2> QED
    BY <2>2 DEF q
<1>7. DOMAIN attrs' \subseteq DOMAIN matches'
  <2>1. DOMAIN matches' = DOMAIN matches
    BY <1>1 DEF StillMatches
  <2>2. DOMAIN attrs' \subseteq DOMAIN attrs
    BY <1>2, <1>3
  <2> QED
    BY <1>2, <2>1, <2>2
<1>8. FilterInv'
  <2>1. (Fitting(view, app - 1))' = Fitting(view, app)
    BY <1>1, <1>2 DEF Fitting
  <2>2. apps # <<>>
    BY <1>2
  <2> QED
    BY <1>1, <1>2, <1>6, <1>7, <2>1, <2>2 DEF FilterInv
<1>9. TypeInv'
  BY <1>1 DEF TypeInv, Fitting
<1>10. AloneInv'
  BY <1>1 DEF AloneInv
<1>11. PruneInv' /\ FrameInv'
  BY <1>1 DEF PruneInv, Fitting, FrameInv
<1>12. DirectionInv'
  BY <1>1 DEF DirectionInv, NotBothWays, Probability
<1> QED
  BY <1>8, <1>9, <1>10, <1>11, <1>12

\* What has gone through every app becomes the candidates of the view.
LEMMA EmplacePreserves == CacheInv /\ Emplace => CacheInv'
<1> SUFFICES ASSUME CacheInv, Emplace PROVE CacheInv'
  OBVIOUS
<1> USE DEF CacheInv
<1>1. /\ UNCHANGED <<views, apps, model, app, attrs, matches, pending, allowed_targets>>
      /\ pc = "filter" /\ app > Len(apps)
  BY DEF Emplace, inputs, prune
<1>2. /\ view \in SynViews /\ Len(apps) \in Nat /\ app = Len(apps) + 1
      /\ attrs \in Seq(Fitting(view, Len(apps)))
  BY <1>1 DEF TypeInv, FilterInv
<1>3. PruneInv' /\ FrameInv' /\ FilterInv'
  <2>1. pc' \in {"aborted", "generate"}
    BY DEF Emplace
  <2>2. \A v \in SynViews : pending[v] = {}
    BY <1>1 DEF PruneInv
  <2> QED
    BY <1>1, <2>1, <2>2 DEF PruneInv, Fitting, FrameInv, FilterInv
<1>4. CASE attrs = <<>>
  <2>1. pc' = "aborted" /\ UNCHANGED <<view, candidate_attrs_>>
    BY <1>4 DEF Emplace
  <2>2. TypeInv'
    BY <1>1, <2>1 DEF TypeInv, Fitting
  <2>3. apps # <<>>
    <3> SUFFICES ASSUME apps = <<>> PROVE FALSE
      OBVIOUS
    <3>1. ToSet(attrs) = GenAttributesForApp(views, view)
      BY <1>1 DEF FilterInv
    <3>2. ToSet(attrs) = {}
      BY <1>4, ToSetEmpty
    <3> QED
      <4>1. SpansFrame(views, view) \in GenAttributesForApp(views, view)
        BY <1>2, FrameIsOffered DEF TypeInv
      <4> QED
        BY <3>1, <3>2, <4>1
  <2>4. AloneInv'
    BY <1>1, <2>3 DEF AloneInv
  <2>5. DirectionInv'
    BY <1>1, <2>1 DEF DirectionInv, NotBothWays, Probability
  <2> QED
    BY <1>3, <2>2, <2>4, <2>5
<1>5. CASE attrs # <<>>
  <2>1. /\ pc' = "generate" /\ view' = view + 1
        /\ candidate_attrs_' = [candidate_attrs_ EXCEPT ![view] = ToSet(attrs)]
    BY <1>5 DEF Emplace
  <2>2. ToSet(attrs) \subseteq Fitting(view, Len(apps))
    BY <1>2 DEF ToSet
  <2>3. TypeInv'
    <3>1. Fitting(view, Len(apps))
            \subseteq UNION {Fitting(v, Len(apps)) : v \in SynViews}
      BY <1>2
    <3>2. /\ candidate_attrs_' \in [SynViews -> SUBSET UNION {Fitting(v, Len(apps)) : v \in SynViews}]
          /\ \A v \in SynViews : candidate_attrs_'[v] \subseteq Fitting(v, Len(apps))
      BY <1>2, <2>1, <2>2, <3>1 DEF TypeInv
    <3>3. view' \in 1 .. NumViews + 1
      BY <1>2, <2>1, NumViewsAssumption DEF SynViews
    <3>4. /\ (UNION {Fitting(v, Len(apps)) : v \in SynViews})'
               = UNION {Fitting(v, Len(apps)) : v \in SynViews}
          /\ \A v \in SynViews : Fitting(v, Len(apps))' = Fitting(v, Len(apps))
      BY <1>1 DEF Fitting
    <3> QED
      BY <1>1, <2>1, <3>2, <3>3, <3>4 DEF TypeInv
  <2>4. AloneInv'
    <3> SUFFICES ASSUME apps = <<>>, NEW v \in SynViews, v < view + 1
                 PROVE  candidate_attrs_'[v] = GenAttributesForApp(views, v)
      BY <1>1, <2>1 DEF AloneInv
    <3>1. CASE v = view
      BY <1>1, <2>1, <3>1 DEF FilterInv, TypeInv
    <3>2. CASE v # view
      <4>1. v < view
        BY <1>2, <3>2, NumViewsAssumption DEF SynViews
      <4> QED
        BY <2>1, <3>2, <4>1 DEF AloneInv, TypeInv
    <3> QED
      BY <3>1, <3>2
  <2>5. DirectionInv'
    <3>1. allowed_targets = {}
      BY <1>1 DEF PruneInv
    <3> QED
      BY <1>1, <2>1, <3>1 DEF DirectionInv, NotBothWays
  <2> QED
    BY <1>3, <2>3, <2>4, <2>5
<1> QED
  BY <1>4, <1>5

\* Every candidate has still to be visited.
LEMMA BeginPrunePreserves == CacheInv /\ BeginPrune => CacheInv'
<1> SUFFICES ASSUME CacheInv, BeginPrune PROVE CacheInv'
  OBVIOUS
<1> USE DEF CacheInv
<1>1. /\ UNCHANGED <<views, apps, model, view, app, attrs, matches, candidate_attrs_,
                     allowed_targets>>
      /\ pc = "generate" /\ view > NumViews /\ pc' = "prune" /\ pending' = candidate_attrs_
  BY DEF BeginPrune, inputs, loops
<1>2. view = NumViews + 1
  BY <1>1, NumViewsAssumption DEF TypeInv
<1>3. TypeInv'
  BY <1>1, <1>2 DEF TypeInv, Fitting
<1>4. FilterInv' /\ AloneInv'
  BY <1>1 DEF FilterInv, AloneInv
<1>5. PruneInv'
  BY <1>1 DEF PruneInv, TypeInv, Fitting
<1>6. DirectionInv'
  <2>1. allowed_targets = {}
    BY <1>1 DEF PruneInv
  <2> QED
    BY <1>1, <2>1 DEF DirectionInv, NotBothWays
<1>7. FrameInv'
  <2> SUFFICES ASSUME apps = <<>>, NEW v \in SynViews
               PROVE  SpansFrame(views, v) \in candidate_attrs_[v]
    BY <1>1 DEF FrameInv
  <2>1. v < view
    BY <1>2, NumViewsAssumption DEF SynViews
  <2> QED
    BY <2>1, FrameIsOffered DEF AloneInv, TypeInv
<1> QED
  BY <1>3, <1>4, <1>5, <1>6, <1>7

\* A candidate belongs to its view and refers to others.
LEMMA CandidatesFit ==
  ASSUME TypeInv, NEW v \in SynViews, NEW a \in candidate_attrs_[v]
  PROVE  /\ a.src = v /\ Targets(a) \subseteq Views \ {v}
         /\ IsRelationalAnchor(a.type) => Targets(a) = {a.tgt_primary}
<1>1. a \in GenAttributesForApp(views, v) /\ views \in Placements
  BY DEF TypeInv, Fitting
<1> QED
  BY <1>1, AttributesFit

\* A visit decides the direction between a view and its targets.
LEMMA VisitPreserves ==
  ASSUME CacheInv, NEW v \in SynViews, NEW a \in pending[v], Visit(a)
  PROVE  CacheInv'
<1> USE DEF CacheInv
<1>1. /\ UNCHANGED <<views, apps, model, pc, view, app, attrs, matches, candidate_attrs_>>
      /\ pc = "prune" /\ IsNext(a)
      /\ pending' = [pending EXCEPT ![a.src] = @ \ {a}]
  BY DEF Visit, inputs, loops
<1>2. /\ a \in candidate_attrs_[v] /\ a.src = v /\ Targets(a) \subseteq Views \ {v}
      /\ IsRelationalAnchor(a.type) => Targets(a) = {a.tgt_primary}
  BY CandidatesFit DEF PruneInv
<1>3. /\ pending'[v] = pending[v] \ {a}
      /\ \A u \in SynViews : pending'[u] \subseteq pending[u] /\ (u # v => pending'[u] = pending[u])
      /\ pending' \in [SynViews -> SUBSET UNION {Fitting(u, Len(apps)) : u \in SynViews}]
  BY <1>1, <1>2 DEF PruneInv
<1>4. \/ /\ Backwards(a) \cap allowed_targets = {}
         /\ allowed_targets' = allowed_targets \cup Towards(a)
      \/ /\ Backwards(a) \cap allowed_targets # {}
         /\ allowed_targets' = allowed_targets
  BY DEF Visit
<1>5. /\ allowed_targets \subseteq allowed_targets'
      /\ \A x, y : <<x, y>> \in allowed_targets' =>
           \/ <<x, y>> \in allowed_targets
           \/ /\ x = v /\ y \in Targets(a)
              /\ \A t \in Targets(a) : <<t, v>> \notin allowed_targets
      /\ allowed_targets' \subseteq SynViews \X Views
  BY <1>2, <1>4 DEF Towards, Backwards, PruneInv
<1>6. TypeInv' /\ FilterInv' /\ AloneInv'
  BY <1>1 DEF TypeInv, FilterInv, AloneInv, Fitting
<1>7. PruneInv'
  BY <1>1, <1>3, <1>5 DEF PruneInv, Fitting
<1>8. NotBothWays'
  <2> SUFFICES ASSUME NEW x \in Views, NEW y \in Views,
                      <<x, y>> \in allowed_targets', <<y, x>> \in allowed_targets'
               PROVE  FALSE
    BY DEF NotBothWays
  <2>1. ~(<<x, y>> \in allowed_targets /\ <<y, x>> \in allowed_targets)
    BY DEF DirectionInv, NotBothWays
  <2> QED
    BY <1>2, <1>5, <2>1
<1>9. ASSUME NEW x \in SynViews, NEW y \in Views, <<x, y>> \in allowed_targets',
             NEW u \in SynViews, NEW b \in candidate_attrs_[u],
             IsRelationalAnchor(b.type), b.src = y, b.tgt_primary = x
      PROVE  \E c \in candidate_attrs_[x] : y \in Targets(c) /\ Probability(c) >= Probability(b)
  <2>1. CASE <<x, y>> \in allowed_targets
    BY <1>9, <2>1 DEF DirectionInv
  <2>2. CASE <<x, y>> \notin allowed_targets
    <3>1. x = v /\ y \in Targets(a) /\ <<y, v>> \notin allowed_targets
      BY <1>5, <1>9, <2>2
    <3>2. u = y
      BY <1>9, CandidatesFit
    <3>3. b \in pending[u]
      BY <1>1, <1>9, <2>2, <3>1, <3>2 DEF DirectionInv
    <3>4. Probability(b) <= Probability(a)
      BY <1>1, <3>3 DEF IsNext
    <3>5. Probability(a) >= Probability(b)
      BY <3>4
    <3> QED
      BY <1>2, <3>1, <3>5
  <2> QED
    BY <2>1, <2>2
<1>10. ASSUME NEW u \in SynViews, NEW b \in candidate_attrs_[u] \ pending'[u],
              IsRelationalAnchor(b.type)
       PROVE  \/ <<u, b.tgt_primary>> \in allowed_targets'
              \/ <<b.tgt_primary, u>> \in allowed_targets'
  <2>1. CASE b \notin pending[u]
    BY <1>1, <1>5, <1>10, <2>1 DEF DirectionInv
  <2>2. CASE b \in pending[u]
    <3>1. b = a /\ u = v
      BY <1>3, <2>2
    <3>2. Targets(a) = {a.tgt_primary}
      BY <1>2, <1>10, <3>1
    <3> QED
      BY <1>2, <1>4, <3>1, <3>2 DEF Towards, Backwards
  <2> QED
    BY <2>1, <2>2
<1>11. DirectionInv'
  <2>1. \A c : Probability(c)' = Probability(c)
    BY <1>1 DEF Probability
  <2> QED
    BY <1>1, <1>8, <1>9, <1>10, <2>1 DEF DirectionInv
<1>12. FrameInv'
  <2> SUFFICES ASSUME apps = <<>>, NEW u \in SynViews, SpansFrame(views, u) \notin pending'[u]
               PROVE  <<u, Root>> \in allowed_targets'
    BY <1>1 DEF FrameInv
  <2>1. CASE SpansFrame(views, u) \notin pending[u]
    BY <1>1, <1>5, <2>1 DEF FrameInv
  <2>2. CASE SpansFrame(views, u) \in pending[u]
    <3>1. a = SpansFrame(views, u) /\ u = v
      BY <1>3, <2>2
    <3>2. Targets(a) = {Root}
      BY <3>1, FrameIsOffered DEF TypeInv
    <3>3. Root \notin SynViews
      BY DEF Root, SynViews
    <3>4. Backwards(a) \cap allowed_targets = {}
      BY <1>2, <3>2, <3>3 DEF Backwards, PruneInv
    <3> QED
      BY <1>2, <1>4, <3>1, <3>2, <3>4 DEF Towards
  <2> QED
    BY <2>1, <2>2
<1> QED
  BY <1>6, <1>7, <1>11, <1>12

\* Nothing is left to visit.
LEMMA EndPrunePreserves == CacheInv /\ EndPrune => CacheInv'
<1> SUFFICES ASSUME CacheInv, EndPrune PROVE CacheInv'
  OBVIOUS
<1> USE DEF CacheInv
<1>1. /\ UNCHANGED <<views, apps, model, view, app, attrs, matches, candidate_attrs_,
                     pending, allowed_targets>>
      /\ pc = "prune" /\ pc' = "ready"
  BY DEF EndPrune, inputs, loops, prune
<1>4. \A v \in SynViews : pending[v] = {}
  BY DEF EndPrune
<1>2. TypeInv' /\ FilterInv' /\ AloneInv' /\ PruneInv' /\ FrameInv'
  BY <1>1, <1>4 DEF TypeInv, FilterInv, AloneInv, PruneInv, FrameInv, Fitting
<1>3. DirectionInv'
  <2>1. \A c : Probability(c)' = Probability(c)
    BY <1>1 DEF Probability
  <2> QED
    BY <1>1, <2>1 DEF DirectionInv, NotBothWays
<1> QED
  BY <1>2, <1>3

\* Nothing changes.
LEMMA StutterPreserves == CacheInv /\ UNCHANGED vars => CacheInv'
<1> SUFFICES ASSUME CacheInv, UNCHANGED vars PROVE CacheInv'
  OBVIOUS
<1> USE DEF CacheInv
<1>1. UNCHANGED <<views, apps, model, pc, view, app, attrs, matches, candidate_attrs_,
                  pending, allowed_targets>>
  BY DEF vars, inputs, loops, prune
<1>2. TypeInv' /\ FilterInv' /\ AloneInv' /\ PruneInv' /\ FrameInv'
  BY <1>1 DEF TypeInv, FilterInv, AloneInv, PruneInv, FrameInv, Fitting
<1>3. DirectionInv'
  <2>1. \A c : Probability(c)' = Probability(c)
    BY <1>1 DEF Probability
  <2> QED
    BY <1>1, <2>1 DEF DirectionInv, NotBothWays
<1> QED
  BY <1>2, <1>3

\* The invariant holds in every state.
LEMMA CacheInvariant == Spec => []CacheInv
<1>1. CacheInv /\ [Next]_vars => CacheInv'
  BY GeneratePreserves, FilterPreserves, EmplacePreserves, BeginPrunePreserves,
     VisitPreserves, EndPrunePreserves, StutterPreserves DEF Next, Finished
<1> QED
  BY InitEstablishes, <1>1, PTL DEF Spec

\* Every candidate puts its view where it was designed in every app (see
\* CandidatesRender), for all placements in the integers.
THEOREM CandidatesFitTheDesign == Spec => []CandidatesRender
<1>1. CacheInv => CandidatesRender
  <2> SUFFICES ASSUME TypeInv, NEW v \in SynViews, NEW a \in candidate_attrs_[v]
               PROVE  /\ RendersIn(a, views)
                      /\ \A k \in DOMAIN apps : RendersIn(a, apps[k])
    BY DEF CacheInv, CandidatesRender
  <2>1. /\ a \in GenAttributesForApp(views, v) /\ views \in Placements
        /\ \A k \in DOMAIN apps : /\ a \in GenAttributesForApp(apps[k], v)
                                  /\ apps[k] \in Placements
    BY DEF TypeInv, Fitting
  <2> QED
    BY <2>1, AttributesFit
<1> QED
  BY CacheInvariant, <1>1, PTL

\* No two views may refer to each other (see NotBothWays), for every model and
\* every order of equally probable attributes.
THEOREM OneDirection == Spec => []NotBothWays
<1>1. CacheInv => NotBothWays
  BY DEF CacheInv, DirectionInv
<1> QED
  BY CacheInvariant, <1>1, PTL

\* The more probable attribute decides the direction (see ProbabilityDecides).
THEOREM DirectionIsProbable == Spec => []ProbabilityDecides
<1>1. CacheInv => ProbabilityDecides
  <2> SUFFICES ASSUME CacheInv, NEW pair \in allowed_targets, NEW u \in SynViews,
                      NEW b \in candidate_attrs_[u], IsRelationalAnchor(b.type),
                      b.src = pair[2], b.tgt_primary = pair[1]
               PROVE  \E a \in candidate_attrs_[pair[1]] :
                        pair[2] \in Targets(a) /\ Probability(a) >= Probability(b)
    BY DEF ProbabilityDecides
  <2>1. /\ pair[1] \in SynViews /\ pair[2] \in Views
        /\ <<pair[1], pair[2]>> \in allowed_targets
    BY DEF CacheInv, PruneInv
  <2> QED
    BY <2>1 DEF CacheInv, DirectionInv
<1> QED
  BY CacheInvariant, <1>1, PTL

\* The solver has a valid, allowed attribute for every view of an app that comes
\* alone (see AlwaysAllowed): the one that spans the content frame, which no
\* pruning takes away.
THEOREM SomethingIsAllowed == Spec => []AlwaysAllowed
<1>1. CacheInv => AlwaysAllowed
  <2> SUFFICES ASSUME CacheInv, apps = <<>>
               PROVE  /\ pc # "aborted"
                      /\ pc = "ready" =>
                           \A v \in SynViews : \E a \in candidate_attrs_[v] : IsAllowed(a)
    BY DEF AlwaysAllowed
  <2>1. ASSUME pc = "ready", NEW v \in SynViews
        PROVE  \E a \in candidate_attrs_[v] : IsAllowed(a)
    <3> DEFINE a == SpansFrame(views, v)
    <3>1. v < view
      BY <2>1, NumViewsAssumption DEF CacheInv, TypeInv, SynViews
    <3>2. /\ a \in candidate_attrs_[v] /\ a.src = v
          /\ Targets(a) = {Root} /\ IsValid(a)
      BY <3>1, FrameIsOffered DEF CacheInv, TypeInv, AloneInv
    <3>3. <<v, Root>> \in allowed_targets
      BY <2>1 DEF CacheInv, PruneInv, FrameInv
    <3>4. Towards(a) \subseteq allowed_targets
      BY <3>2, <3>3 DEF Towards
    <3> QED
      BY <3>2, <3>4 DEF IsAllowed
  <2> QED
    BY <2>1 DEF CacheInv, AloneInv
<1> QED
  BY CacheInvariant, <1>1, PTL
============================================================================
