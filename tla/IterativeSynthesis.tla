------------------------- MODULE IterativeSynthesis -------------------------
(***************************************************************************)
(* SynthesizeLayoutIterative with the callbacks of nogis_iterative.cpp and   *)
(* iterative_dataset_gen.cpp: the views are added one by one, each time the  *)
(* solver is asked for several candidates that differ in the place of the    *)
(* new view, and one of them, or the known layout, is kept.                  *)
(***************************************************************************)
EXTENDS DeviceQuery

CONSTANTS
  NumViews,                  \* views besides the content frame
  RefinementDevices,         \* the devices whose apps are refined
  MaxCandidates              \* FLAGS_max_candidates

ASSUME IterativeAssumption ==
  /\ NumViews \in Nat \ {0}
  /\ RefinementDevices # {}
  /\ MaxCandidates \in Nat \ {0}

VARIABLES
  ipc,
  known_apps,                \* the true layout: on each device its views' places
  generate_data,             \* predict_cb returns the true layout, not a candidate
  cur_device_apps,
  empty_view_indices,        \* BlockingConstraintsHelper
  blocking_views,
  num_candidates,
  all_candidate_device_apps  \* what candidate_cb collected in this iteration

ivars == <<ipc, known_apps, generate_data, cur_device_apps, empty_view_indices,
           blocking_views, num_candidates, all_candidate_device_apps>>

-----------------------------------------------------------------------------
\* The view that was added last.
View == Len(cur_device_apps[CHOOSE d \in RefinementDevices : TRUE])

ResetViews ==
  WithPlaces(cur_device_apps, [s \in empty_view_indices |-> Unset])

PlacesOf(device_apps) == [s \in empty_view_indices |-> device_apps[s[1]][s[2]]]

IterativeInit ==
  /\ ipc = "next"
  /\ known_apps \in [RefinementDevices -> [1 .. NumViews -> Places \ AtMinusOne]]
  /\ generate_data \in BOOLEAN
  /\ cur_device_apps = [d \in RefinementDevices |-> <<>>]
  /\ empty_view_indices = {}
  /\ blocking_views = {}
  /\ num_candidates = 0
  /\ all_candidate_device_apps = <<>>

\* The next view joins every app, without a place (EmptyApp), and the helper
\* collects what is to be placed.
NextView ==
  /\ ipc = "next" /\ View < NumViews
  /\ cur_device_apps' = [d \in RefinementDevices |-> Append(cur_device_apps[d], Unset)]
  /\ empty_view_indices' = OpenSlots(cur_device_apps')
  /\ blocking_views' = {}
  /\ num_candidates' = 0
  /\ ipc' = "query"
  /\ UNCHANGED <<known_apps, generate_data, all_candidate_device_apps>>

\* Mutant of Candidate: the solution is not blocked.
CandidateUnblocked ==
  /\ ipc = "query"
  /\ \E solution \in Placed(ResetViews) :
       /\ PlacesOf(solution) \notin blocking_views
       /\ cur_device_apps' = solution
       /\ all_candidate_device_apps' = Append(all_candidate_device_apps, solution)
  /\ num_candidates' = num_candidates + 1
  /\ \/ ipc' = "selected" /\ ~generate_data
     \/ ipc' = IF num_candidates' < MaxCandidates THEN "query" ELSE "predict"
  /\ UNCHANGED <<known_apps, generate_data, empty_view_indices, blocking_views>>

\* The query finds a solution that none before it equals; candidate_cb selects
\* it (it may when no data is generated) or asks for more.
Candidate ==
  /\ ipc = "query"
  /\ \E solution \in Placed(ResetViews) :
       /\ PlacesOf(solution) \notin blocking_views
       /\ cur_device_apps' = solution
       /\ blocking_views' = blocking_views \cup {PlacesOf(solution)}
       /\ all_candidate_device_apps' = Append(all_candidate_device_apps, solution)
  /\ num_candidates' = num_candidates + 1
  /\ \/ ipc' = "selected" /\ ~generate_data
     \/ ipc' = IF num_candidates' < MaxCandidates THEN "query" ELSE "predict"
  /\ UNCHANGED <<known_apps, generate_data, empty_view_indices>>

\* There is no other solution, or the solver gives up: the views stay reset.
\* Without any candidate the whole synthesis fails.
NoCandidate ==
  /\ ipc = "query"
  /\ cur_device_apps' = ResetViews
  /\ ipc' = IF num_candidates = 0 THEN "failed" ELSE "predict"
  /\ UNCHANGED <<known_apps, generate_data, empty_view_indices, blocking_views,
                 num_candidates, all_candidate_device_apps>>

\* Mutant of Predict: the apps of the query that ended the iteration are kept.
PredictNothing ==
  /\ ipc = "predict"
  /\ UNCHANGED cur_device_apps
  /\ ipc' = "selected"
  /\ UNCHANGED <<known_apps, generate_data, empty_view_indices, blocking_views,
                 num_candidates, all_candidate_device_apps>>

\* predict_cb: the first views of the true layout, or the candidate with the
\* best score.
Predict ==
  /\ ipc = "predict"
  /\ IF generate_data
       THEN cur_device_apps' =
              [d \in RefinementDevices |-> SubSeq(known_apps[d], 1, View)]
       ELSE cur_device_apps' \in Range(all_candidate_device_apps)
  /\ ipc' = "selected"
  /\ UNCHANGED <<known_apps, generate_data, empty_view_indices, blocking_views,
                 num_candidates, all_candidate_device_apps>>

\* iter_cb: the next iteration collects its own candidates.
IterCb ==
  /\ ipc = "selected"
  /\ all_candidate_device_apps' = <<>>
  /\ ipc' = "next"
  /\ UNCHANGED <<known_apps, generate_data, cur_device_apps, empty_view_indices,
                 blocking_views, num_candidates>>

\* All views are there: one more query, with every place given, for the result.
\* Nothing is reset or blocked here.
FinalQuery ==
  /\ ipc = "next" /\ View = NumViews
  /\ \/ ipc' = "done" /\ cur_device_apps' \in Placed(cur_device_apps)
     \/ ipc' = "failed" /\ UNCHANGED cur_device_apps
  /\ UNCHANGED <<known_apps, generate_data, empty_view_indices, blocking_views,
                 num_candidates, all_candidate_device_apps>>

IterativeNext ==
  NextView \/ Candidate \/ NoCandidate \/ Predict \/ IterCb \/ FinalQuery

IterativeSpec == IterativeInit /\ [][IterativeNext]_ivars

-----------------------------------------------------------------------------
\* Properties

\* No query of this iteration (at "next": the last query) is to place this view:
\* when the last view was added it had a place without a coordinate -1.
Settled(d, v) ==
  IF ipc = "next" THEN HasFixedPosition(cur_device_apps[d][v])
                  ELSE <<d, v>> \notin empty_view_indices

\* Whatever is offered, selected or predicted for the last view, the settled views
\* keep the places that were chosen for them: the reset between the candidates,
\* the choice of one of them, the true layout and the last query touch none.
SettledViewsStay ==
  [][\A d \in RefinementDevices : \A v \in DOMAIN cur_device_apps[d] :
       Settled(d, v) => cur_device_apps'[d][v] = cur_device_apps[d][v]]_ivars

\* "Each time this callback is invoked, the last view has a new position,
\* different to all the previous ones" (nogis_iterative.cpp:55-56): two
\* candidates of an iteration place the last view differently on some device.
LastViewMoves ==
  \A i, j \in DOMAIN all_candidate_device_apps :
    i < j => \E d \in RefinementDevices :
               all_candidate_device_apps[i][d][View] # all_candidate_device_apps[j][d][View]

\* That is so as long as the views before the last one are settled, and always in
\* the data generation, where they are the beginning of the true layout.
EarlierSettled ==
  \A d \in RefinementDevices : \A v \in 1 .. View - 1 : <<d, v>> \notin empty_view_indices

LastViewMovesIfSettled == generate_data \/ EarlierSettled => LastViewMoves

\* What the oracle, the next iteration and the last query are handed is
\* complete: after an iteration every view has a place on every device, also
\* when the iteration ended with a query that failed and left its views reset.
IterationsComplete ==
  ipc \in {"selected", "next", "done"} =>
    \A d \in RefinementDevices : Unset \notin Range(cur_device_apps[d])
=============================================================================
