------------------------- MODULE DeviceQueryProofs --------------------------
(*****************************************************************************)
(* The two loops around the device queries, for every number of views,       *)
(* devices and candidates, and whatever coordinates the solver chooses.      *)
(* The refinement of an app view by view leaves every view with a place; it  *)
(* moves no view but the last one and those that count as open for a         *)
(* coordinate -1; and its candidates move the last view when no other one    *)
(* is open, as always in the data generation.  The feedback loop keeps       *)
(* every correction and corrects enough, whatever the queries answer: of     *)
(* the fallback, which works on gen_apps itself, the proof uses only that a  *)
(* query places the views without a fixed position.                          *)
(*****************************************************************************)
EXTENDS IterativeSynthesis, UserFeedback, OperatorLemmas

-----------------------------------------------------------------------------
\* Refinement, view by view

\* Apps with n views, each with one of the places.
AppsOf(n, P) == [RefinementDevices -> [1 .. n -> P]]

\* The apps have the same number of views on all devices, and an iteration
\* leaves no view without a place.
ShapeInv ==
  /\ View \in 0 .. NumViews
  /\ cur_device_apps \in AppsOf(View, Places \cup {Unset})
  /\ ipc \in {"selected", "next", "done"} => cur_device_apps \in AppsOf(View, Places)
  /\ all_candidate_device_apps \in Seq(AppsOf(View, Places))
  /\ ipc = "next" => all_candidate_device_apps = <<>>
  /\ known_apps \in AppsOf(NumViews, Places \ AtMinusOne)

\* The apps agree on the views before the last one that are settled.
SameSettled(a, b) ==
  \A d \in RefinementDevices : \A v \in 1 .. View - 1 :
    <<d, v>> \notin empty_view_indices => a[d][v] = b[d][v]

\* In an iteration the last view is open, and of the others those that are not
\* settled; the candidates, all of them blocked, agree with the app on the rest.
QueryInv ==
  ipc \in {"query", "predict"} =>
    /\ View >= 1
    /\ empty_view_indices \subseteq RefinementDevices \X (1 .. View)
    /\ \A d \in RefinementDevices : <<d, View>> \in empty_view_indices
    /\ \A d \in RefinementDevices : \A v \in 1 .. View - 1 :
         <<d, v>> \notin empty_view_indices => HasFixedPosition(cur_device_apps[d][v])
    /\ \A i \in DOMAIN all_candidate_device_apps :
         /\ SameSettled(all_candidate_device_apps[i], cur_device_apps)
         /\ PlacesOf(all_candidate_device_apps[i]) \in blocking_views
    /\ generate_data => EarlierSettled

\* While data is generated, the app is the beginning of the true layout.
KnownInv ==
  generate_data =>
    \A d \in RefinementDevices : \A v \in 1 .. View :
      v < View \/ ipc \in {"selected", "next"} => cur_device_apps[d][v] = known_apps[d][v]

-----------------------------------------------------------------------------
\* Apps and their places

LEMMA FunctionIsSeq ==
  ASSUME NEW n \in Nat, NEW P, NEW s \in [1 .. n -> P]
  PROVE  s \in Seq(P) /\ Len(s) = n
<1>1. s \in Seq(P)
  BY SeqDef
<1>2. Len(s) \in Nat /\ DOMAIN s = 1 .. Len(s) /\ DOMAIN s = 1 .. n
  BY <1>1, LenProperties
<1> QED
  BY <1>1, <1>2, SMT

\* The number of views of the current apps.
LEMMA ViewOf ==
  ASSUME NEW n \in Nat, NEW P, cur_device_apps \in AppsOf(n, P)
  PROVE  View = n
<1>1. (CHOOSE d \in RefinementDevices : TRUE) \in RefinementDevices
  BY IterativeAssumption
<1>2. cur_device_apps[CHOOSE d \in RefinementDevices : TRUE] \in [1 .. n -> P]
  BY <1>1 DEF AppsOf
<1> QED
  BY <1>2, FunctionIsSeq DEF View

LEMMA ViewOfNext ==
  ASSUME NEW n \in Nat, NEW P, cur_device_apps' \in AppsOf(n, P)
  PROVE  View' = n
<1>1. (CHOOSE d \in RefinementDevices : TRUE) \in RefinementDevices
  BY IterativeAssumption
<1>2. cur_device_apps'[CHOOSE d \in RefinementDevices : TRUE] \in [1 .. n -> P]
  BY <1>1 DEF AppsOf
<1> QED
  BY <1>2, FunctionIsSeq DEF View

\* A query completes the apps, and moves no view with a fixed position.
LEMMA PlacedCompletes ==
  ASSUME NEW n \in Nat, NEW a \in AppsOf(n, Places \cup {Unset}), NEW b \in Placed(a)
  PROVE  /\ b \in AppsOf(n, Places)
         /\ \A d \in RefinementDevices : \A v \in 1 .. n :
              HasFixedPosition(a[d][v]) => b[d][v] = a[d][v]
<1>1. PICK places \in [OpenSlots(a) -> Places] : b = WithPlaces(a, places)
  BY DEF Placed
<1>2. \A d \in RefinementDevices : \A v \in 1 .. n :
        <<d, v>> \in OpenSlots(a) <=> ~HasFixedPosition(a[d][v])
  <2> SUFFICES ASSUME NEW d \in RefinementDevices, NEW v \in 1 .. n
               PROVE  <<d, v>> \in OpenSlots(a) <=> ~HasFixedPosition(a[d][v])
    OBVIOUS
  <2>1. <<d, v>> \in {d} \X DOMAIN a[d] /\ d \in DOMAIN a
    BY DEF AppsOf
  <2>2. <<d, v>> \in Slots(a)
    BY <2>1 DEF Slots
  <2> QED
    BY <2>2, SMT DEF OpenSlots
<1>3. b = [d \in RefinementDevices |-> [v \in 1 .. n |->
            IF <<d, v>> \in OpenSlots(a) THEN places[<<d, v>>] ELSE a[d][v]]]
  BY <1>1 DEF WithPlaces, AppsOf
<1>4. \A d \in RefinementDevices : \A v \in 1 .. n : b[d][v] \in Places
  <2> SUFFICES ASSUME NEW d \in RefinementDevices, NEW v \in 1 .. n
               PROVE  b[d][v] \in Places
    OBVIOUS
  <2>1. CASE <<d, v>> \in OpenSlots(a)
    BY <1>1, <1>3, <2>1
  <2>2. CASE HasFixedPosition(a[d][v])
    <3>1. a[d][v] \in Places \cup {Unset} /\ a[d][v] # Unset
      BY <2>2 DEF HasFixedPosition, AppsOf
    <3> QED
      BY <1>2, <1>3, <2>2, <3>1
  <2> QED
    BY <1>2, <2>1, <2>2
<1>5. b \in [RefinementDevices -> [1 .. n -> Places]]
  BY <1>3, <1>4
<1> QED
  BY <1>2, <1>3, <1>5 DEF AppsOf

\* The reset takes the places of the collected views and of no other.
LEMMA ResetOnlyCollected ==
  ASSUME ShapeInv
  PROVE  /\ ResetViews \in AppsOf(View, Places \cup {Unset})
         /\ \A d \in RefinementDevices : \A v \in 1 .. View :
              <<d, v>> \notin empty_view_indices => ResetViews[d][v] = cur_device_apps[d][v]
<1> DEFINE none == [s \in empty_view_indices |-> Unset]
<1>1. View \in Nat /\ cur_device_apps \in AppsOf(View, Places \cup {Unset})
  BY IterativeAssumption DEF ShapeInv
<1>2. ResetViews = [d \in RefinementDevices |-> [v \in 1 .. View |->
        IF <<d, v>> \in DOMAIN none THEN none[<<d, v>>] ELSE cur_device_apps[d][v]]]
  <2>1. ResetViews = WithPlaces(cur_device_apps, none)
    BY DEF ResetViews
  <2> QED
    BY <1>1, <2>1 DEF WithPlaces, AppsOf
<1>3. \A d \in RefinementDevices : \A v \in 1 .. View :
        /\ <<d, v>> \in empty_view_indices => none[<<d, v>>] = Unset
        /\ cur_device_apps[d][v] \in Places \cup {Unset}
  BY <1>1 DEF AppsOf
<1>4. ResetViews \in [RefinementDevices -> [1 .. View -> Places \cup {Unset}]]
  BY <1>2, <1>3
<1> QED
  BY <1>2, <1>4 DEF AppsOf

LEMMA SubSeqOfKnown ==
  ASSUME ShapeInv
  PROVE  LET a == [d \in RefinementDevices |-> SubSeq(known_apps[d], 1, View)] IN
         /\ a \in AppsOf(View, Places)
         /\ \A d \in RefinementDevices : \A v \in 1 .. View : a[d][v] = known_apps[d][v]
<1> DEFINE a == [d \in RefinementDevices |-> SubSeq(known_apps[d], 1, View)]
<1>1. ASSUME NEW d \in RefinementDevices
      PROVE  /\ a[d] \in [1 .. View -> Places]
             /\ \A v \in 1 .. View : a[d][v] = known_apps[d][v]
  <2>1. View \in Nat /\ View <= NumViews /\ NumViews \in Nat
    BY IterativeAssumption DEF ShapeInv
  <2>2. known_apps[d] \in [1 .. NumViews -> Places]
    BY DEF ShapeInv, AppsOf
  <2>3. \A v \in 1 .. View : known_apps[d][v] \in Places
    BY <2>1, <2>2
  <2>4. /\ a[d] \in Seq(Places)
        /\ Len(a[d]) = IF 1 <= View THEN View - 1 + 1 ELSE 0
        /\ \A v \in 1 .. View - 1 + 1 : a[d][v] = known_apps[d][1 + v - 1]
    BY <2>1, <2>3, SubSeqProperties
  <2>5. Len(a[d]) = View
    BY <2>1, <2>4
  <2>6. a[d] \in [1 .. Len(a[d]) -> Places]
    BY <2>4, LenProperties
  <2>7. \A v \in 1 .. View : v \in 1 .. View - 1 + 1 /\ 1 + v - 1 = v
    BY <2>1
  <2> HIDE DEF a
  <2> QED
    BY <2>4, <2>5, <2>6, <2>7
<1> QED
  BY <1>1 DEF AppsOf

LEMMA AppendUnset ==
  ASSUME NEW n \in Nat, NEW a \in AppsOf(n, Places \cup {Unset})
  PROVE  LET b == [d \in RefinementDevices |-> Append(a[d], Unset)] IN
         /\ b \in AppsOf(n + 1, Places \cup {Unset})
         /\ \A d \in RefinementDevices :
              /\ b[d][n + 1] = Unset
              /\ \A v \in 1 .. n : b[d][v] = a[d][v]
<1> DEFINE b == [d \in RefinementDevices |-> Append(a[d], Unset)]
<1>1. ASSUME NEW d \in RefinementDevices
      PROVE  /\ b[d] \in [1 .. n + 1 -> Places \cup {Unset}]
             /\ b[d][n + 1] = Unset
             /\ \A v \in 1 .. n : b[d][v] = a[d][v]
  <2>1. a[d] \in Seq(Places \cup {Unset}) /\ Len(a[d]) = n
    BY FunctionIsSeq DEF AppsOf
  <2>2. /\ Append(a[d], Unset) \in Seq(Places \cup {Unset})
        /\ Len(Append(a[d], Unset)) = n + 1
        /\ Append(a[d], Unset)[n + 1] = Unset
        /\ \A v \in 1 .. n : Append(a[d], Unset)[v] = a[d][v]
    BY <2>1, AppendProperties
  <2> QED
    BY <2>2, LenProperties
<1> QED
  BY <1>1 DEF AppsOf

-----------------------------------------------------------------------------
\* The shape of the apps

LEMMA ShapeInit == IterativeInit => ShapeInv
<1> SUFFICES ASSUME IterativeInit PROVE ShapeInv
  OBVIOUS
<1>1. \A P : cur_device_apps \in AppsOf(0, P)
  BY EmptySeq, LenProperties DEF IterativeInit, AppsOf
<1>2. View = 0
  BY <1>1, ViewOf
<1>3. all_candidate_device_apps \in Seq(AppsOf(View, Places))
  BY EmptySeq DEF IterativeInit
<1> QED
  BY <1>1, <1>2, <1>3, IterativeAssumption DEF ShapeInv, IterativeInit, AppsOf

\* A step that keeps the number of views.
LEMMA ShapeKept ==
  ASSUME ShapeInv,
         cur_device_apps' \in AppsOf(View, Places \cup {Unset}),
         ipc' \in {"selected", "next", "done"} => cur_device_apps' \in AppsOf(View, Places),
         all_candidate_device_apps' \in Seq(AppsOf(View, Places)),
         ipc' = "next" => all_candidate_device_apps' = <<>>,
         UNCHANGED known_apps
  PROVE  ShapeInv' /\ View' = View
<1>1. View' = View
  BY ViewOfNext, IterativeAssumption DEF ShapeInv
<1> QED
  BY <1>1 DEF ShapeInv

LEMMA Complete ==
  ASSUME NEW n, NEW a \in AppsOf(n, Places)
  PROVE  a \in AppsOf(n, Places \cup {Unset})
  BY DEF AppsOf

LEMMA CandidateShape ==
  ASSUME ShapeInv, Candidate
  PROVE  ShapeInv' /\ View' = View
<1>1. PICK solution \in Placed(ResetViews) :
        /\ cur_device_apps' = solution
        /\ all_candidate_device_apps' = Append(all_candidate_device_apps, solution)
  BY DEF Candidate
<1>2. View \in Nat
  BY IterativeAssumption DEF ShapeInv
<1>3. cur_device_apps' \in AppsOf(View, Places)
  BY <1>1, <1>2, ResetOnlyCollected, PlacedCompletes
<1>4. all_candidate_device_apps' \in Seq(AppsOf(View, Places))
  BY <1>1, <1>3, AppendProperties DEF ShapeInv
<1>5. ipc' # "next" /\ UNCHANGED known_apps
  BY DEF Candidate
<1> QED
  BY <1>3, <1>4, <1>5, Complete, ShapeKept

LEMMA NextViewShape ==
  ASSUME ShapeInv, NextView
  PROVE  /\ ShapeInv'
         /\ View' = View + 1
         /\ \A d \in RefinementDevices :
              /\ cur_device_apps'[d][View + 1] = Unset
              /\ \A v \in 1 .. View : cur_device_apps'[d][v] = cur_device_apps[d][v]
<1>1. View \in Nat /\ cur_device_apps \in AppsOf(View, Places \cup {Unset})
  BY IterativeAssumption DEF ShapeInv
<1>2. /\ cur_device_apps' \in AppsOf(View + 1, Places \cup {Unset})
      /\ \A d \in RefinementDevices :
           /\ cur_device_apps'[d][View + 1] = Unset
           /\ \A v \in 1 .. View : cur_device_apps'[d][v] = cur_device_apps[d][v]
  BY <1>1, AppendUnset DEF NextView
<1>3. View' = View + 1
  BY <1>1, <1>2, ViewOfNext
<1>4. View' \in 0 .. NumViews
  BY <1>1, <1>3, IterativeAssumption DEF NextView
<1>5. /\ all_candidate_device_apps' = <<>> /\ ipc' = "query"
      /\ UNCHANGED known_apps
  BY DEF NextView, ShapeInv
<1>6. all_candidate_device_apps' \in Seq(AppsOf(View', Places))
  BY <1>5, EmptySeq
<1> QED
  BY <1>2, <1>3, <1>4, <1>5, <1>6 DEF ShapeInv

LEMMA PredictShape ==
  ASSUME ShapeInv, Predict
  PROVE  ShapeInv' /\ View' = View
<1>1. cur_device_apps' \in AppsOf(View, Places)
  <2>1. CASE generate_data
    BY <2>1, SubSeqOfKnown DEF Predict
  <2>2. CASE ~generate_data
    <3>1. PICK i \in DOMAIN all_candidate_device_apps :
            cur_device_apps' = all_candidate_device_apps[i]
      BY <2>2 DEF Predict, Range
    <3> QED
      BY <3>1, LenProperties, ElementOfSeq DEF ShapeInv
  <2> QED
    BY <2>1, <2>2
<1>2. ipc' = "selected" /\ UNCHANGED <<known_apps, all_candidate_device_apps>>
  BY DEF Predict
<1> QED
  BY <1>1, <1>2, Complete, ShapeKept DEF ShapeInv

LEMMA NoCandidateShape ==
  ASSUME ShapeInv, NoCandidate
  PROVE  ShapeInv' /\ View' = View
<1>1. cur_device_apps' \in AppsOf(View, Places \cup {Unset})
  BY ResetOnlyCollected DEF NoCandidate
<1>2. /\ ipc' \in {"failed", "predict"}
      /\ UNCHANGED <<known_apps, all_candidate_device_apps>>
  BY DEF NoCandidate
<1> QED
  BY <1>1, <1>2, ShapeKept DEF ShapeInv

LEMMA IterCbShape ==
  ASSUME ShapeInv, IterCb
  PROVE  ShapeInv' /\ View' = View
<1>1. /\ ipc = "selected" /\ all_candidate_device_apps' = <<>>
      /\ UNCHANGED <<known_apps, cur_device_apps>>
  BY DEF IterCb
<1>2. all_candidate_device_apps' \in Seq(AppsOf(View, Places))
  BY <1>1, EmptySeq
<1> QED
  BY <1>1, <1>2, ShapeKept DEF ShapeInv

\* The last query starts from apps that are complete, and keeps them.
LEMMA FinalQueryShape ==
  ASSUME ShapeInv, FinalQuery
  PROVE  ShapeInv' /\ View' = View
<1>1. View \in Nat
  BY IterativeAssumption DEF ShapeInv
<1>2. /\ ipc = "next"
      /\ UNCHANGED <<known_apps, all_candidate_device_apps>>
  BY DEF FinalQuery
<1>3. CASE ipc' = "done" /\ cur_device_apps' \in Placed(cur_device_apps)
  <2>1. cur_device_apps' \in AppsOf(View, Places)
    BY <1>1, <1>3, PlacedCompletes DEF ShapeInv
  <2> QED
    BY <1>2, <1>3, <2>1, Complete, ShapeKept DEF ShapeInv
<1>4. CASE ipc' = "failed" /\ UNCHANGED cur_device_apps
  BY <1>2, <1>4, ShapeKept DEF ShapeInv
<1> QED
  BY <1>3, <1>4 DEF FinalQuery

LEMMA ShapeStep == ShapeInv /\ [IterativeNext]_ivars => ShapeInv'
<1> SUFFICES ASSUME ShapeInv, [IterativeNext]_ivars PROVE ShapeInv'
  OBVIOUS
<1>1. CASE UNCHANGED ivars
  BY <1>1 DEF ivars, ShapeInv, View
<1> QED
  BY <1>1, NextViewShape, CandidateShape, NoCandidateShape, PredictShape, IterCbShape,
     FinalQueryShape DEF IterativeNext

LEMMA ShapeInvariant == IterativeSpec => []ShapeInv
<1> QED
  BY ShapeInit, ShapeStep, PTL DEF IterativeSpec

\* After an iteration every view has a place on every device, also when the
\* iteration ended with a query that failed (SynthesizeLayoutIterative).
THEOREM IterationsAreComplete == IterativeSpec => []IterationsComplete
<1>1. ShapeInv => IterationsComplete
  <2> SUFFICES ASSUME ShapeInv, ipc \in {"selected", "next", "done"},
                      NEW d \in RefinementDevices
               PROVE  Unset \notin Range(cur_device_apps[d])
    BY DEF IterationsComplete
  <2>1. cur_device_apps[d] \in [1 .. View -> Places]
    BY DEF ShapeInv, AppsOf
  <2> QED
    BY <2>1, PlacesAssumption DEF Range
<1> QED
  BY <1>1, ShapeInvariant, PTL

-----------------------------------------------------------------------------
\* The order of the views

ViewsStay ==
  \A d \in RefinementDevices : \A v \in DOMAIN cur_device_apps[d] :
    Settled(d, v) => cur_device_apps'[d][v] = cur_device_apps[d][v]

OrderInv == QueryInv /\ KnownInv /\ LastViewMovesIfSettled

LEMMA ViewsOf ==
  ASSUME ShapeInv
  PROVE  /\ View \in Nat
         /\ \A d \in RefinementDevices : DOMAIN cur_device_apps[d] = 1 .. View
  BY IterativeAssumption DEF ShapeInv, AppsOf

\* Between two candidates of an iteration, no settled view is reset.
LEMMA ResetKeepsSettled ==
  ASSUME ShapeInv, QueryInv, ipc = "query",
         NEW d \in RefinementDevices, NEW v \in 1 .. View - 1,
         <<d, v>> \notin empty_view_indices
  PROVE  /\ ResetViews[d][v] = cur_device_apps[d][v]
         /\ HasFixedPosition(ResetViews[d][v])
<1>1. View \in Nat /\ v \in 1 .. View
  BY ViewsOf
<1>2. HasFixedPosition(cur_device_apps[d][v])
  BY DEF QueryInv
<1> QED
  BY <1>1, <1>2, ResetOnlyCollected

\* Which views an iteration is to place does not change in it.
LEMMA SettledSame ==
  ASSUME View' = View, empty_view_indices' = empty_view_indices
  PROVE  /\ EarlierSettled' <=> EarlierSettled
         /\ \A a, b : SameSettled(a, b)' <=> SameSettled(a, b)
BY DEF EarlierSettled, SameSettled

LEMMA SlotsOf ==
  ASSUME NEW n, NEW P, NEW a \in [RefinementDevices -> [1 .. n -> P]]
  PROVE  Slots(a) = RefinementDevices \X (1 .. n)
<1>1. DOMAIN a = RefinementDevices /\ \A d \in RefinementDevices : DOMAIN a[d] = 1 .. n
  OBVIOUS
<1>2. \A s : s \in Slots(a) <=> \E d \in RefinementDevices : s \in {d} \X (1 .. n)
  BY <1>1, Zenon DEF Slots
<1>3. \A s : s \in RefinementDevices \X (1 .. n) <=>
             \E d \in RefinementDevices : s \in {d} \X (1 .. n)
  BY SMT
<1> QED
  BY <1>2, <1>3, Zenon

\* A new view is open, and the ones before it unless they have a fixed position.
LEMMA NextViewOrder ==
  ASSUME ShapeInv, OrderInv, NextView
  PROVE  OrderInv' /\ ViewsStay
<1>1. /\ View \in Nat /\ View' = View + 1 /\ ipc = "next" /\ ipc' = "query"
      /\ \A d \in RefinementDevices :
           /\ cur_device_apps'[d][View + 1] = Unset
           /\ \A v \in 1 .. View : cur_device_apps'[d][v] = cur_device_apps[d][v]
  BY NextViewShape, ViewsOf DEF NextView
<1>2. cur_device_apps' \in [RefinementDevices -> [1 .. View + 1 -> Places \cup {Unset}]]
  BY <1>1, NextViewShape DEF ShapeInv, AppsOf
<1>3. all_candidate_device_apps' = <<>>
  BY <1>1 DEF NextView, ShapeInv
<1>4. KnownInv'
  <2>1. UNCHANGED <<known_apps, generate_data>>
    BY DEF NextView
  <2> SUFFICES ASSUME generate_data, NEW d \in RefinementDevices, NEW v \in 1 .. View + 1,
                      v < View + 1
               PROVE  cur_device_apps'[d][v] = known_apps[d][v]
    BY <1>1, <2>1 DEF KnownInv
  <2>2. v \in 1 .. View
    BY <1>1
  <2> QED
    BY <1>1, <2>2 DEF OrderInv, KnownInv
<1>5. QueryInv'
  <2>1. Slots(cur_device_apps') = RefinementDevices \X (1 .. View + 1)
    BY <1>2, SlotsOf
  <2>2. empty_view_indices' = OpenSlots(cur_device_apps')
    BY DEF NextView
  <2>3. \A d \in RefinementDevices : \A v \in 1 .. View + 1 :
          <<d, v>> \in empty_view_indices' <=> ~HasFixedPosition(cur_device_apps'[d][v])
    BY <2>1, <2>2 DEF OpenSlots
  <2>4. empty_view_indices' \subseteq RefinementDevices \X (1 .. View + 1)
    BY <2>1, <2>2 DEF OpenSlots
  <2>5. \A d \in RefinementDevices : <<d, View + 1>> \in empty_view_indices'
    <3>1. View + 1 \in 1 .. View + 1
      BY <1>1
    <3>2. ~HasFixedPosition(Unset)
      BY DEF HasFixedPosition
    <3> QED
      BY <1>1, <2>3, <3>1, <3>2
  <2>6. ASSUME generate_data' PROVE EarlierSettled'
    <3> SUFFICES ASSUME NEW d \in RefinementDevices, NEW v \in 1 .. View
                 PROVE  <<d, v>> \notin empty_view_indices'
      <4>1. \A v \in 1 .. View' - 1 : v \in 1 .. View
        BY <1>1
      <4> QED
        BY <4>1, Zenon DEF EarlierSettled
    <3>1. v \in 1 .. View + 1 /\ v < View + 1 /\ View + 1 <= NumViews /\ v \in 1 .. NumViews
      BY <1>1, IterativeAssumption, NextViewShape DEF ShapeInv
    <3>2. cur_device_apps'[d][v] = known_apps[d][v]
      BY <1>1, <1>4, <2>6, <3>1 DEF KnownInv, NextView
    <3>3. known_apps[d][v] \in Places \ AtMinusOne
      BY <3>1 DEF ShapeInv, AppsOf
    <3>4. HasFixedPosition(known_apps[d][v])
      BY <3>3, PlacesAssumption DEF HasFixedPosition
    <3> QED
      BY <2>3, <3>1, <3>2, <3>4
  <2>7. DOMAIN all_candidate_device_apps' = {}
    BY <1>3
  <2>8. \A d \in RefinementDevices : \A v \in 1 .. View' - 1 :
          <<d, v>> \notin empty_view_indices' => HasFixedPosition(cur_device_apps'[d][v])
    BY <1>1, <2>3
  <2> QED
    BY <1>1, <2>4, <2>5, <2>6, <2>7, <2>8 DEF QueryInv
<1>6. LastViewMovesIfSettled'
  BY <1>3 DEF LastViewMovesIfSettled, LastViewMoves
<1>7. ViewsStay
  BY <1>1, ViewsOf DEF ViewsStay
<1> QED
  BY <1>4, <1>5, <1>6, <1>7 DEF OrderInv

LEMMA CandidateOrder ==
  ASSUME ShapeInv, OrderInv, Candidate
  PROVE  OrderInv' /\ ViewsStay
<1>1. PICK solution \in Placed(ResetViews) :
        /\ PlacesOf(solution) \notin blocking_views
        /\ cur_device_apps' = solution
        /\ blocking_views' = blocking_views \cup {PlacesOf(solution)}
        /\ all_candidate_device_apps' = Append(all_candidate_device_apps, solution)
  BY DEF Candidate
<1> DEFINE cands == all_candidate_device_apps
           n == Len(cands)
<1>2. /\ ipc = "query" /\ View \in Nat /\ View' = View /\ View >= 1
      /\ ipc' \in {"selected", "query", "predict"} /\ (ipc' = "selected" => ~generate_data)
      /\ empty_view_indices \subseteq RefinementDevices \X (1 .. View)
      /\ \A d \in RefinementDevices : <<d, View>> \in empty_view_indices
      /\ generate_data => EarlierSettled
      /\ UNCHANGED <<known_apps, generate_data, empty_view_indices>>
  BY CandidateShape, ViewsOf DEF Candidate, OrderInv, QueryInv
<1>3. \A d \in RefinementDevices : \A v \in 1 .. View - 1 :
        <<d, v>> \notin empty_view_indices =>
          solution[d][v] = cur_device_apps[d][v] /\ HasFixedPosition(solution[d][v])
  <2> SUFFICES ASSUME NEW d \in RefinementDevices, NEW v \in 1 .. View - 1,
                      <<d, v>> \notin empty_view_indices
               PROVE  solution[d][v] = cur_device_apps[d][v] /\ HasFixedPosition(solution[d][v])
    OBVIOUS
  <2>1. /\ ResetViews[d][v] = cur_device_apps[d][v]
        /\ HasFixedPosition(ResetViews[d][v])
    BY <1>2, ResetKeepsSettled DEF OrderInv
  <2>2. v \in 1 .. View
    BY <1>2
  <2>3. solution[d][v] = ResetViews[d][v]
    BY <1>2, <2>1, <2>2, ResetOnlyCollected, PlacedCompletes
  <2> QED
    BY <2>1, <2>3
<1>4. /\ n \in Nat /\ DOMAIN cands = 1 .. n /\ DOMAIN cands' = 1 .. n + 1
      /\ cands'[n + 1] = solution
      /\ \A i \in 1 .. n : cands'[i] = cands[i]
  <2>1. solution \in AppsOf(View, Places)
    BY <1>1, <1>2, ResetOnlyCollected, PlacedCompletes
  <2> QED
    BY <1>1, <2>1, AppendProperties, LenProperties DEF ShapeInv
<1>5. \A i \in 1 .. n : /\ SameSettled(cands[i], cur_device_apps)
                        /\ PlacesOf(cands[i]) \in blocking_views
  BY <1>2, <1>4 DEF OrderInv, QueryInv
<1>6. QueryInv'
  <2>1. \A i \in 1 .. n + 1 : SameSettled(cands'[i], solution)
    BY <1>3, <1>4, <1>5 DEF SameSettled
  <2>2. \A i \in 1 .. n + 1 : PlacesOf(cands'[i]) \in blocking_views'
    BY <1>1, <1>4, <1>5
  <2>3. \A i \in 1 .. n + 1 : PlacesOf(cands[i])' \in blocking_views'
    BY <1>2, <2>2 DEF PlacesOf
  <2>4. \A i \in 1 .. n + 1 : SameSettled(cands[i], cur_device_apps)'
    BY <1>1, <1>2, <2>1 DEF SameSettled
  <2>5. generate_data' => EarlierSettled'
    BY <1>2, SettledSame
  <2>6. \A d \in RefinementDevices : \A v \in 1 .. View' - 1 :
          <<d, v>> \notin empty_view_indices' => HasFixedPosition(cur_device_apps'[d][v])
    BY <1>1, <1>2, <1>3
  <2> QED
    BY <1>2, <1>4, <2>3, <2>4, <2>5, <2>6 DEF QueryInv
<1>7. KnownInv'
  <2> SUFFICES ASSUME generate_data, NEW d \in RefinementDevices, NEW v \in 1 .. View, v < View
               PROVE  solution[d][v] = known_apps[d][v]
    BY <1>1, <1>2 DEF KnownInv
  <2>1. v \in 1 .. View - 1
    BY <1>2
  <2>2. <<d, v>> \notin empty_view_indices
    BY <1>2, <2>1 DEF EarlierSettled
  <2> QED
    BY <1>3, <2>1, <2>2 DEF OrderInv, KnownInv
<1>8. LastViewMovesIfSettled'
  <2> SUFFICES ASSUME EarlierSettled
               PROVE  LastViewMoves'
    BY <1>2, SettledSame DEF LastViewMovesIfSettled
  <2>1. ASSUME NEW i \in 1 .. n
        PROVE  \E d \in RefinementDevices : cands[i][d][View] # solution[d][View]
    <3>1. PlacesOf(cands[i]) # PlacesOf(solution)
      BY <1>1, <1>5
    <3>2. PICK s \in empty_view_indices : cands[i][s[1]][s[2]] # solution[s[1]][s[2]]
      BY <3>1 DEF PlacesOf
    <3>3. s[1] \in RefinementDevices /\ s[2] \in 1 .. View /\ s = <<s[1], s[2]>>
      BY <1>2
    <3>4. s[2] \notin 1 .. View - 1
      BY <3>3 DEF EarlierSettled
    <3>5. s[2] = View
      BY <1>2, <3>3, <3>4
    <3> QED
      BY <3>2, <3>3, <3>5
  <2>2. ASSUME NEW i \in 1 .. n + 1, NEW j \in 1 .. n + 1, i < j
        PROVE  \E d \in RefinementDevices : cands'[i][d][View] # cands'[j][d][View]
    <3>1. i \in 1 .. n
      BY <1>4, <2>2
    <3>2. CASE j = n + 1
      BY <1>4, <2>1, <3>1, <3>2
    <3>3. CASE j \in 1 .. n
      BY <1>4, <2>2, <3>1, <3>3 DEF OrderInv, LastViewMovesIfSettled, LastViewMoves
    <3> QED
      BY <1>4, <3>2, <3>3
  <2> QED
    BY <1>2, <1>4, <2>2 DEF LastViewMoves
<1>9. ViewsStay
  <2> SUFFICES ASSUME NEW d \in RefinementDevices, NEW v \in 1 .. View,
                      <<d, v>> \notin empty_view_indices
               PROVE  solution[d][v] = cur_device_apps[d][v]
    BY <1>1, <1>2, ViewsOf DEF ViewsStay, Settled
  <2>1. v # View
    BY <1>2
  <2>2. v \in 1 .. View - 1
    BY <1>2, <2>1
  <2> QED
    BY <1>3, <2>2
<1> QED
  BY <1>6, <1>7, <1>8, <1>9 DEF OrderInv

LEMMA NoCandidateOrder ==
  ASSUME ShapeInv, OrderInv, NoCandidate
  PROVE  OrderInv' /\ ViewsStay
<1>1. /\ ipc = "query" /\ View \in Nat /\ View' = View
      /\ ipc' \in {"failed", "predict"} /\ cur_device_apps' = ResetViews
      /\ UNCHANGED <<known_apps, generate_data, empty_view_indices, blocking_views,
                     all_candidate_device_apps>>
  BY NoCandidateShape, ViewsOf DEF NoCandidate
<1>2. \A d \in RefinementDevices : \A v \in 1 .. View - 1 :
        <<d, v>> \notin empty_view_indices =>
          /\ cur_device_apps'[d][v] = cur_device_apps[d][v]
          /\ HasFixedPosition(cur_device_apps'[d][v])
  BY <1>1, ResetKeepsSettled DEF OrderInv
<1>3. QueryInv'
  <2>2. /\ View >= 1
        /\ empty_view_indices \subseteq RefinementDevices \X (1 .. View)
        /\ \A d \in RefinementDevices : <<d, View>> \in empty_view_indices
        /\ \A i \in DOMAIN all_candidate_device_apps :
             /\ SameSettled(all_candidate_device_apps[i], cur_device_apps)
             /\ PlacesOf(all_candidate_device_apps[i]) \in blocking_views
        /\ generate_data => EarlierSettled
    BY <1>1 DEF OrderInv, QueryInv
  <2>3. \A i \in DOMAIN all_candidate_device_apps :
             /\ SameSettled(all_candidate_device_apps[i], cur_device_apps)'
             /\ PlacesOf(all_candidate_device_apps[i])' \in blocking_views'
    BY <1>1, <1>2, <2>2 DEF SameSettled, PlacesOf
  <2>4. generate_data' => EarlierSettled'
    BY <1>1, <2>2, SettledSame
  <2> QED
    BY <1>1, <1>2, <2>2, <2>3, <2>4 DEF QueryInv
<1>4. KnownInv'
  <2> SUFFICES ASSUME generate_data, NEW d \in RefinementDevices, NEW v \in 1 .. View, v < View
               PROVE  cur_device_apps'[d][v] = known_apps[d][v]
    BY <1>1 DEF KnownInv
  <2>1. v \in 1 .. View - 1
    BY <1>1
  <2>2. <<d, v>> \notin empty_view_indices
    BY <1>1, <2>1 DEF OrderInv, QueryInv, EarlierSettled
  <2> QED
    BY <1>2, <2>1, <2>2 DEF OrderInv, KnownInv
<1>5. LastViewMovesIfSettled'
  BY <1>1, SettledSame DEF OrderInv, LastViewMovesIfSettled, LastViewMoves
<1>6. ViewsStay
  <2> SUFFICES ASSUME NEW d \in RefinementDevices, NEW v \in 1 .. View,
                      <<d, v>> \notin empty_view_indices
               PROVE  cur_device_apps'[d][v] = cur_device_apps[d][v]
    BY <1>1, ViewsOf DEF ViewsStay, Settled
  <2>1. v # View
    BY <1>1 DEF OrderInv, QueryInv
  <2>2. v \in 1 .. View - 1
    BY <1>1, <2>1
  <2> QED
    BY <1>2, <2>2
<1> QED
  BY <1>3, <1>4, <1>5, <1>6 DEF OrderInv

LEMMA PredictOrder ==
  ASSUME ShapeInv, OrderInv, Predict
  PROVE  OrderInv' /\ ViewsStay
<1>1. /\ ipc = "predict" /\ ipc' = "selected" /\ View \in Nat /\ View' = View
      /\ UNCHANGED <<known_apps, generate_data, empty_view_indices, all_candidate_device_apps>>
  BY PredictShape, ViewsOf DEF Predict
<1>2. ASSUME generate_data, NEW d \in RefinementDevices, NEW v \in 1 .. View
      PROVE  cur_device_apps'[d][v] = known_apps[d][v]
  BY <1>2, SubSeqOfKnown DEF Predict
<1>3. ASSUME NEW d \in RefinementDevices, NEW v \in 1 .. View - 1,
             <<d, v>> \notin empty_view_indices
      PROVE  cur_device_apps'[d][v] = cur_device_apps[d][v]
  <2>1. CASE generate_data
    <3>1. v \in 1 .. View /\ v < View
      BY <1>1
    <3> QED
      BY <1>2, <2>1, <3>1 DEF OrderInv, KnownInv
  <2>2. CASE ~generate_data
    <3>1. PICK i \in DOMAIN all_candidate_device_apps :
            cur_device_apps' = all_candidate_device_apps[i]
      BY <2>2 DEF Predict, Range
    <3> QED
      BY <1>1, <1>3, <3>1 DEF OrderInv, QueryInv, SameSettled
  <2> QED
    BY <2>1, <2>2
<1>4. QueryInv'
  BY <1>1 DEF QueryInv
<1>5. KnownInv'
  BY <1>1, <1>2 DEF KnownInv
<1>6. LastViewMovesIfSettled'
  BY <1>1, SettledSame DEF OrderInv, LastViewMovesIfSettled, LastViewMoves
<1>7. ViewsStay
  <2> SUFFICES ASSUME NEW d \in RefinementDevices, NEW v \in 1 .. View,
                      <<d, v>> \notin empty_view_indices
               PROVE  cur_device_apps'[d][v] = cur_device_apps[d][v]
    BY <1>1, ViewsOf DEF ViewsStay, Settled
  <2>1. v # View
    BY <1>1 DEF OrderInv, QueryInv
  <2>2. v \in 1 .. View - 1
    BY <1>1, <2>1
  <2> QED
    BY <1>3, <2>2
<1> QED
  BY <1>4, <1>5, <1>6, <1>7 DEF OrderInv

LEMMA IterCbOrder ==
  ASSUME ShapeInv, OrderInv, IterCb
  PROVE  OrderInv' /\ ViewsStay
<1>1. /\ ipc = "selected" /\ ipc' = "next" /\ View' = View
      /\ all_candidate_device_apps' = <<>>
      /\ UNCHANGED <<cur_device_apps, known_apps, generate_data>>
  BY IterCbShape DEF IterCb
<1>2. QueryInv' /\ LastViewMovesIfSettled'
  BY <1>1 DEF QueryInv, LastViewMovesIfSettled, LastViewMoves
<1>3. KnownInv' /\ ViewsStay
  BY <1>1 DEF OrderInv, KnownInv, ViewsStay
<1> QED
  BY <1>2, <1>3 DEF OrderInv

\* The last query moves no view with a fixed position, and in the data generation
\* all of them have one.
LEMMA FinalQueryOrder ==
  ASSUME ShapeInv, OrderInv, FinalQuery
  PROVE  OrderInv' /\ ViewsStay
<1>1. /\ ipc = "next" /\ ipc' \in {"done", "failed"} /\ View \in Nat /\ View' = View
      /\ UNCHANGED <<known_apps, generate_data, all_candidate_device_apps>>
  BY FinalQueryShape, ViewsOf DEF FinalQuery
<1>2. \A d \in RefinementDevices : \A v \in 1 .. View :
        HasFixedPosition(cur_device_apps[d][v]) =>
          cur_device_apps'[d][v] = cur_device_apps[d][v]
  <2>1. CASE cur_device_apps' \in Placed(cur_device_apps)
    <3>1. cur_device_apps \in AppsOf(View, Places \cup {Unset})
      BY DEF ShapeInv
    <3> QED
      BY <1>1, <2>1, <3>1, PlacedCompletes
  <2>2. CASE UNCHANGED cur_device_apps
    BY <2>2
  <2> QED
    BY <2>1, <2>2 DEF FinalQuery
<1>3. QueryInv' /\ LastViewMovesIfSettled'
  <2>1. all_candidate_device_apps' = <<>>
    BY <1>1 DEF ShapeInv
  <2> QED
    BY <1>1, <2>1 DEF QueryInv, LastViewMovesIfSettled, LastViewMoves
<1>4. KnownInv'
  <2> SUFFICES ASSUME generate_data, NEW d \in RefinementDevices, NEW v \in 1 .. View
               PROVE  cur_device_apps'[d][v] = known_apps[d][v]
    BY <1>1 DEF KnownInv
  <2>1. cur_device_apps[d][v] = known_apps[d][v]
    BY <1>1 DEF OrderInv, KnownInv
  <2>2. v \in 1 .. NumViews
    BY <1>1, IterativeAssumption DEF ShapeInv
  <2>3. known_apps[d][v] \in Places \ AtMinusOne
    BY <2>2 DEF ShapeInv, AppsOf
  <2>4. HasFixedPosition(cur_device_apps[d][v])
    BY <2>1, <2>3, PlacesAssumption DEF HasFixedPosition
  <2> QED
    BY <1>2, <2>1, <2>4
<1>5. ViewsStay
  BY <1>1, <1>2, ViewsOf DEF ViewsStay, Settled
<1> QED
  BY <1>3, <1>4, <1>5 DEF OrderInv

LEMMA OrderInit == IterativeInit => OrderInv
<1> SUFFICES ASSUME IterativeInit PROVE OrderInv
  OBVIOUS
<1>1. View = 0
  BY ViewOf, EmptySeq, LenProperties DEF IterativeInit, AppsOf
<1> QED
  BY <1>1 DEF IterativeInit, OrderInv, QueryInv, KnownInv, LastViewMovesIfSettled, LastViewMoves

LEMMA OrderStep == ShapeInv /\ OrderInv /\ [IterativeNext]_ivars => OrderInv' /\ [ViewsStay]_ivars
<1> SUFFICES ASSUME ShapeInv, OrderInv, [IterativeNext]_ivars
             PROVE  OrderInv' /\ [ViewsStay]_ivars
  OBVIOUS
<1>1. CASE UNCHANGED ivars
  <2>1. View' = View /\ empty_view_indices' = empty_view_indices
    BY <1>1 DEF ivars, View
  <2>2. QueryInv'
    <3>1. ASSUME NEW i \in DOMAIN all_candidate_device_apps
          PROVE  PlacesOf(all_candidate_device_apps[i])' = PlacesOf(all_candidate_device_apps[i])
      BY <1>1 DEF ivars, PlacesOf
    <3> QED
      BY <1>1, <2>1, <3>1, SettledSame DEF ivars, OrderInv, QueryInv, SameSettled
  <2>3. KnownInv' /\ LastViewMovesIfSettled'
    BY <1>1, <2>1, SettledSame DEF ivars, OrderInv, KnownInv, LastViewMovesIfSettled, LastViewMoves
  <2> QED
    BY <2>2, <2>3, <1>1 DEF OrderInv
<1> QED
  BY <1>1, NextViewOrder, CandidateOrder, NoCandidateOrder, PredictOrder, IterCbOrder,
     FinalQueryOrder DEF IterativeNext

-----------------------------------------------------------------------------
\* "The last view has a new position, different to all the previous ones"
\* (nogis_iterative.cpp:55-56): always in the data generation, and in the other
\* loop as long as no view before the last one was placed at a coordinate -1.
THEOREM LastViewIsNew == IterativeSpec => []LastViewMovesIfSettled
<1>1. OrderInv => LastViewMovesIfSettled
  BY DEF OrderInv
<1> QED
  BY <1>1, OrderInit, OrderStep, ShapeInvariant, PTL DEF IterativeSpec

\* No step touches a view that had a place without a coordinate -1 when the last
\* view was added: not the reset between the candidates, the prediction or the
\* last query.
THEOREM SettledViewsAreKept == IterativeSpec => SettledViewsStay
<1>1. SettledViewsStay <=> [][ViewsStay]_ivars
  BY PTL DEF SettledViewsStay, ViewsStay
<1> QED
  BY <1>1, OrderInit, OrderStep, ShapeInvariant, PTL DEF IterativeSpec

-----------------------------------------------------------------------------
\* User feedback

AppsInv ==
  /\ apps \in [Devices -> [Views -> Places \ AtMinusOne]]
  /\ gen_apps \in [Devices -> [Views -> Places \cup {Unset}]]
  /\ per_device_fixed_views \in [Devices -> SUBSET Views]

\* A layout that is there is one of the layouts, and there is none while the
\* fallback is asked.
ResInv ==
  /\ {res, last_success} \subseteq Layouts \cup {NoLayout}
  /\ fpc \in {"repair", "compare"} => res \in Layouts
  /\ fpc = "fallback" => res = NoLayout

\* The loop ends without a failure only when no view is left to be corrected.
EndInv ==
  fpc = "ended" /\ res # NoLayout =>
    res \in Layouts /\ \A d \in Devices : NotInSpec(res, d) = {}

FeedbackInv == AppsInv /\ ResInv /\ EndInv /\ FeedbackKept

-----------------------------------------------------------------------------
\* A query leaves a view with a fixed position where it is.
LEMMA PlacedKeepsFixed ==
  ASSUME NEW a \in [Devices -> [Views -> Places \cup {Unset}]],
         NEW b \in Placed(a)
  PROVE  /\ b \in [Devices -> [Views -> Places \cup {Unset}]]
         /\ \A d \in Devices : \A v \in Views :
              HasFixedPosition(a[d][v]) => b[d][v] = a[d][v]
<1>1. PICK places \in [OpenSlots(a) -> Places] : b = WithPlaces(a, places)
  BY DEF Placed
<1>2. b = [d \in Devices |->
             [v \in Views |->
                IF <<d, v>> \in OpenSlots(a) THEN places[<<d, v>>] ELSE a[d][v]]]
  BY <1>1 DEF WithPlaces
<1>3. \A d \in Devices : \A v \in Views :
        b[d][v] = IF <<d, v>> \in OpenSlots(a) THEN places[<<d, v>>] ELSE a[d][v]
  BY <1>2
<1>4. \A d \in Devices : \A v \in Views :
        <<d, v>> \in OpenSlots(a) => ~HasFixedPosition(a[d][v])
  BY SMT DEF OpenSlots
<1>5. \A d \in Devices : \A v \in Views : b[d][v] \in Places \cup {Unset}
  BY <1>1, <1>3
<1> QED
  BY <1>2, <1>3, <1>4, <1>5

\* So the fallback moves no view that the user has corrected.
LEMMA FallbackKeepsCorrections ==
  ASSUME AppsInv, FeedbackKept, gen_apps' \in Placed(gen_apps),
         UNCHANGED <<apps, per_device_fixed_views>>
  PROVE  AppsInv' /\ FeedbackKept'
<1>1. AppsInv'
  BY PlacedKeepsFixed DEF AppsInv
<1>2. ASSUME NEW d \in Devices, NEW v \in per_device_fixed_views[d]
      PROVE  gen_apps'[d][v] = apps[d][v]
  <2>1. v \in Views
    BY DEF AppsInv
  <2>2. gen_apps[d][v] = apps[d][v] /\ apps[d][v] \in Places \ AtMinusOne
    BY <2>1 DEF AppsInv, FeedbackKept
  <2>3. HasFixedPosition(gen_apps[d][v])
    BY <2>2, PlacesAssumption DEF HasFixedPosition
  <2> QED
    BY <2>1, <2>2, <2>3, PlacedKeepsFixed DEF AppsInv
<1> QED
  BY <1>1, <1>2 DEF FeedbackKept

\* A correction is kept at first, and disturbs no other.
LEMMA CorrectionIsKept ==
  ASSUME AppsInv, FeedbackKept, NEW d \in Devices, NEW v \in Views, Correct(d, v),
         per_device_fixed_views' = [per_device_fixed_views EXCEPT ![d] = @ \cup {v}],
         UNCHANGED apps
  PROVE  AppsInv' /\ FeedbackKept'
<1>1. gen_apps' = [gen_apps EXCEPT ![d][v] = apps[d][v]]
  BY DEF Correct
<1>2. \A e \in Devices : \A w \in Views :
        gen_apps'[e][w] = IF e = d /\ w = v THEN apps[d][v] ELSE gen_apps[e][w]
  BY <1>1 DEF AppsInv
<1>3. AppsInv'
  BY <1>1 DEF AppsInv
<1>4. ASSUME NEW e \in Devices, NEW w \in per_device_fixed_views'[e]
      PROVE  gen_apps'[e][w] = apps[e][w]
  <2>1. w \in Views
    BY <1>3 DEF AppsInv
  <2>2. (e = d /\ w = v) \/ w \in per_device_fixed_views[e]
    BY DEF AppsInv
  <2> QED
    BY <1>2, <2>1, <2>2 DEF FeedbackKept
<1> QED
  BY <1>3, <1>4 DEF FeedbackKept

LEMMA FeedbackInitInv == FeedbackInit => FeedbackInv
<1> SUFFICES ASSUME FeedbackInit PROVE FeedbackInv
  OBVIOUS
<1>1. AppsInv /\ FeedbackKept
  BY DEF FeedbackInit, AppsInv, FeedbackKept
<1>2. ResInv /\ EndInv
  BY DEF FeedbackInit, ResInv, EndInv
<1> QED
  BY <1>1, <1>2 DEF FeedbackInv

\* Every step keeps the invariant.
LEMMA FeedbackStep == FeedbackInv /\ [FeedbackNext]_fvars => FeedbackInv'
<1> SUFFICES ASSUME FeedbackInv, [FeedbackNext]_fvars PROVE FeedbackInv'
  OBVIOUS
<1> USE DEF FeedbackInv
<1>1. CASE Synthesize
  <2>1. AppsInv' /\ FeedbackKept'
    BY <1>1 DEF Synthesize, AppsInv, FeedbackKept
  <2>2. ResInv'
    BY <1>1 DEF Synthesize, ResInv
  <2>3. EndInv'
    BY <1>1 DEF Synthesize, EndInv
  <2> QED
    BY <2>1, <2>2, <2>3
<1>2. CASE Fallback
  <2>1. AppsInv' /\ FeedbackKept'
    <3>1. CASE gen_apps' \in Placed(gen_apps)
      BY <1>2, <3>1, FallbackKeepsCorrections DEF Fallback
    <3>2. CASE UNCHANGED gen_apps
      BY <1>2, <3>2 DEF Fallback, AppsInv, FeedbackKept
    <3> QED
      BY <1>2, <3>1, <3>2 DEF Fallback
  <2>2. ResInv'
    BY <1>2 DEF Fallback, ResInv
  <2>3. EndInv'
    BY <1>2 DEF Fallback, ResInv, EndInv
  <2> QED
    BY <2>1, <2>2, <2>3
<1>3. CASE Repair
  <2>1. AppsInv' /\ FeedbackKept'
    BY <1>3 DEF Repair, AppsInv, FeedbackKept
  <2>2. ResInv' /\ EndInv'
    BY <1>3 DEF Repair, ResInv, EndInv
  <2> QED
    BY <2>1, <2>2
<1>4. CASE AddInconsistentViewToSpec
  <2> DEFINE wrong == {d \in Devices : NotInSpec(res, d) # {}}
             d == Min(wrong)
             v == Min(NotInSpec(res, d))
  <2>1. res \in Layouts
    BY <1>4 DEF AddInconsistentViewToSpec, ResInv
  <2>2. CASE wrong = {}
    <3>1. AppsInv' /\ FeedbackKept'
      BY <1>4, <2>2 DEF AddInconsistentViewToSpec, AppsInv, FeedbackKept
    <3>2. ResInv'
      BY <1>4, <2>1, <2>2 DEF AddInconsistentViewToSpec, ResInv
    <3>3. EndInv'
      <4>1. UNCHANGED <<apps, res, per_device_fixed_views>>
        BY <1>4, <2>2 DEF AddInconsistentViewToSpec
      <4>2. \A e \in Devices : NotInSpec(res, e) = {}
        BY <2>2
      <4> QED
        BY <4>1, <4>2, <2>1 DEF EndInv, NotInSpec, FindNonEqualViews
    <3> QED
      BY <3>1, <3>2, <3>3
  <2>3. CASE wrong # {}
    <3> wrong \in SUBSET Nat
      BY FeedbackAssumption, SMT DEF Devices
    <3>1. d \in wrong
      BY <2>3, MinIsElement
    <3>2. v \in NotInSpec(res, d)
      BY <3>1, FeedbackAssumption, MinIsElement DEF NotInSpec, FindNonEqualViews
    <3>3. d \in Devices /\ v \in Views
      BY <3>1, <3>2 DEF NotInSpec, FindNonEqualViews
    <3>4. /\ Correct(d, v)
          /\ per_device_fixed_views' = [per_device_fixed_views EXCEPT ![d] = @ \cup {v}]
          /\ fpc' = "synthesize"
          /\ UNCHANGED <<apps, res, last_success>>
      BY <1>4, <2>3 DEF AddInconsistentViewToSpec
    <3>5. AppsInv' /\ FeedbackKept'
      BY <3>3, <3>4, CorrectionIsKept
    <3>6. ResInv' /\ EndInv'
      BY <2>1, <3>4 DEF ResInv, EndInv
    <3> QED
      BY <3>5, <3>6
  <2> QED
    BY <2>2, <2>3
<1>5. CASE LastFallback
  <2>1. AppsInv' /\ FeedbackKept'
    <3>1. CASE gen_apps' \in Placed(gen_apps)
      BY <1>5, <3>1, FallbackKeepsCorrections DEF LastFallback
    <3>2. CASE UNCHANGED gen_apps
      BY <1>5, <3>2 DEF LastFallback, AppsInv, FeedbackKept
    <3> QED
      BY <1>5, <3>1, <3>2 DEF LastFallback
  <2>2. ResInv' /\ EndInv'
    BY <1>5 DEF LastFallback, ResInv, EndInv, NotInSpec, FindNonEqualViews
  <2> QED
    BY <2>1, <2>2
<1>6. CASE Count
  <2>1. AppsInv' /\ FeedbackKept'
    BY <1>6 DEF Count, AppsInv, FeedbackKept
  <2>2. ResInv' /\ EndInv'
    BY <1>6 DEF Count, ResInv, EndInv
  <2> QED
    BY <2>1, <2>2
<1>7. CASE UNCHANGED fvars
  BY <1>7 DEF fvars, AppsInv, ResInv, EndInv, FeedbackKept, NotInSpec, FindNonEqualViews
<1> QED
  BY <1>1, <1>2, <1>3, <1>4, <1>5, <1>6, <1>7 DEF FeedbackNext

\* A layout with no view left to be corrected, that honours the corrections
\* made, has every view in its place.
LEMMA EndIsEnough == FeedbackInv => CorrectionsSuffice
<1> SUFFICES ASSUME FeedbackInv, fpc = "ended", res # NoLayout,
                    \A d \in Devices : \A v \in per_device_fixed_views[d] :
                      res[d][v] = apps[d][v]
             PROVE  res = apps
  BY DEF CorrectionsSuffice
<1>1. res \in Layouts /\ \A d \in Devices : NotInSpec(res, d) = {}
  BY DEF FeedbackInv, EndInv
<1>2. \A d \in Devices : \A v \in Views : res[d][v] = apps[d][v]
  BY <1>1 DEF NotInSpec, FindNonEqualViews
<1>3. /\ res \in [Devices -> [Views -> RenderedPlaces]]
      /\ apps \in [Devices -> [Views -> Places]]
  BY <1>1 DEF Layouts, FeedbackInv, AppsInv
<1> QED
  BY <1>2, <1>3

-----------------------------------------------------------------------------
LEMMA FeedbackInvariant == FeedbackSpec => []FeedbackInv
<1> QED
  BY FeedbackInitInv, FeedbackStep, PTL DEF FeedbackSpec

\* What the user has corrected stays corrected through all rounds, whichever
\* synthesizer ran (UserFeedbackSynthesis::Synthesize).
THEOREM CorrectionsAreKept == FeedbackSpec => []FeedbackKept
<1>1. FeedbackInv => FeedbackKept
  BY DEF FeedbackInv
<1> QED
  BY <1>1, FeedbackInvariant, PTL

\* When the loop ends without a failure, a layout that honours the corrections
\* is the one the user wants on every device.
THEOREM FeedbackSuffices == FeedbackSpec => []CorrectionsSuffice
<1> QED
  BY EndIsEnough, FeedbackInvariant, PTL
=============================================================================
