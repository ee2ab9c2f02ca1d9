---------------------------- MODULE UserFeedback ----------------------------
(***************************************************************************)
(* UserFeedbackSynthesis::Synthesize (datasets/dataset_util.cpp): after each *)
(* synthesis the first view that is rendered in a wrong place and was not    *)
(* corrected yet is given its true place, as a user would do, and the        *)
(* synthesis runs again.  A layout stands for what the layout server makes   *)
(* of it: a place for every view on every device, which need not be the      *)
(* place the solver computed.                                                *)
(***************************************************************************)
EXTENDS DeviceQuery, FiniteSetsExt

CONSTANTS
  Views,                     \* the views besides the content frame, 1 .. n
  RenderedPlaces,            \* where the layout server may put a view
  NumDevices,
  BaseSynFallback,           \* FLAGS_base_syn_fallback
  FixInconsistencies         \* FLAGS_fix_inconsistencies

ASSUME FeedbackAssumption ==
  /\ Views \subseteq Nat
  /\ NumDevices \in Nat
  /\ {BaseSynFallback, FixInconsistencies} \subseteq BOOLEAN

Devices == 1 .. NumDevices
Layouts == [Devices -> [Views -> RenderedPlaces]]
NoLayout == <<>>

VARIABLES
  fpc,
  apps,                      \* where the views are on each device
  gen_apps,                  \* what the synthesis is told about them
  per_device_fixed_views,
  res,                       \* the layout of the last synthesis, or NoLayout
  last_success,              \* the layout of the last one that succeeded, or NoLayout
  fixed_views                \* the views counted as fixed by the user

fvars == <<fpc, apps, gen_apps, per_device_fixed_views, res, last_success, fixed_views>>

-----------------------------------------------------------------------------
FindNonEqualViews(layout, d) == {v \in Views : layout[d][v] # apps[d][v]}

\* The wrong views of a device nobody was told about.
NotInSpec(layout, d) == FindNonEqualViews(layout, d) \ per_device_fixed_views[d]

NumInconsistentViewsNotInSpec(layout) ==
  SumFunctionOnSet([d \in Devices |-> Cardinality(NotInSpec(layout, d))], Devices)

\* All places known ("Expects view to have concrete positions"), none given.
FeedbackInit ==
  /\ fpc = "synthesize"
  /\ apps \in [Devices -> [Views -> Places \ AtMinusOne]]
  /\ gen_apps = [d \in Devices |-> [v \in Views |-> Unset]]
  /\ per_device_fixed_views = [d \in Devices |-> {}]
  /\ res = NoLayout
  /\ last_success = NoLayout
  /\ fixed_views = 0

\* base_synthesizer works on a copy of gen_apps.
Synthesize ==
  /\ fpc = "synthesize"
  /\ \/ /\ res' \in Layouts
        /\ last_success' = res'
        /\ fpc' = IF FixInconsistencies THEN "repair" ELSE "compare"
     \/ /\ res' = NoLayout
        /\ fpc' = IF BaseSynFallback THEN "fallback" ELSE "ended"
        /\ UNCHANGED last_success
  /\ UNCHANGED <<apps, gen_apps, per_device_fixed_views, fixed_views>>

\* fallback_synthesizer works on gen_apps itself: a success leaves every view
\* placed there.
Fallback ==
  /\ fpc = "fallback"
  /\ \/ /\ res' \in Layouts
        /\ last_success' = res'
        /\ gen_apps' \in Placed(gen_apps)
        /\ fpc' = IF FixInconsistencies THEN "repair" ELSE "compare"
     \/ /\ fpc' = "ended"
        /\ UNCHANGED <<res, last_success, gen_apps>>
  /\ UNCHANGED <<apps, per_device_fixed_views, fixed_views>>

\* TryFixInconsistencies and NormalizeMargins: see ConsistencyRepair.
Repair ==
  /\ fpc = "repair"
  /\ res' \in Layouts
  /\ fpc' = "compare"
  /\ UNCHANGED <<apps, gen_apps, per_device_fixed_views, last_success, fixed_views>>

Correct(d, v) == gen_apps' = [gen_apps EXCEPT ![d][v] = apps[d][v]]

\* Mutant of AddInconsistentViewToSpec: the last device is not looked at.
AddExceptLastDevice ==
  /\ fpc = "compare"
  /\ LET wrong == {d \in Devices \ {NumDevices} : NotInSpec(res, d) # {}}
     IN  IF wrong = {}
           THEN fpc' = "ended" /\ UNCHANGED <<gen_apps, per_device_fixed_views>>
           ELSE LET d == Min(wrong)  v == Min(NotInSpec(res, d)) IN
                /\ Correct(d, v)
                /\ per_device_fixed_views' = [per_device_fixed_views EXCEPT ![d] = @ \cup {v}]
                /\ fpc' = "synthesize"
  /\ UNCHANGED <<apps, res, last_success, fixed_views>>

\* Mutant of AddInconsistentViewToSpec: the view is not remembered.
AddForgetting ==
  /\ fpc = "compare"
  /\ LET wrong == {d \in Devices : NotInSpec(res, d) # {}}
     IN  IF wrong = {}
           THEN fpc' = "ended" /\ UNCHANGED gen_apps
           ELSE Correct(Min(wrong), Min(NotInSpec(res, Min(wrong)))) /\ fpc' = "synthesize"
  /\ UNCHANGED <<apps, per_device_fixed_views, res, last_success, fixed_views>>

\* The first view of the first device that is wrong and was not told.
AddInconsistentViewToSpec ==
  /\ fpc = "compare"
  /\ LET wrong == {d \in Devices : NotInSpec(res, d) # {}}
     IN  IF wrong = {}
           THEN fpc' = "ended" /\ UNCHANGED <<gen_apps, per_device_fixed_views>>
           ELSE LET d == Min(wrong)  v == Min(NotInSpec(res, d)) IN
                /\ Correct(d, v)
                /\ per_device_fixed_views' = [per_device_fixed_views EXCEPT ![d] = @ \cup {v}]
                /\ fpc' = "synthesize"
  /\ UNCHANGED <<apps, res, last_success, fixed_views>>

\* When nothing ever succeeded the fallback is asked once more, and the program
\* is aborted unless it succeeds now.
LastFallback ==
  /\ fpc = "ended" /\ last_success = NoLayout
  /\ \/ /\ last_success' \in Layouts
        /\ gen_apps' \in Placed(gen_apps)
        /\ UNCHANGED fpc
     \/ /\ fpc' = "aborted"
        /\ UNCHANGED <<last_success, gen_apps>>
  /\ UNCHANGED <<apps, per_device_fixed_views, res, fixed_views>>

\* A failure in the loop falls back on the last success, as it was before its
\* repair.
Count ==
  /\ fpc = "ended" /\ last_success # NoLayout
  /\ res' = IF res = NoLayout THEN last_success ELSE res
  /\ fixed_views' = NumInconsistentViewsNotInSpec(res')
       + SumFunctionOnSet([d \in Devices |-> Cardinality(per_device_fixed_views[d])], Devices)
  /\ fpc' = "done"
  /\ UNCHANGED <<apps, gen_apps, per_device_fixed_views, last_success>>

FeedbackNext ==
  Synthesize \/ Fallback \/ Repair \/ AddInconsistentViewToSpec \/ LastFallback \/ Count

FeedbackSpec == FeedbackInit /\ [][FeedbackNext]_fvars

-----------------------------------------------------------------------------
\* Properties

\* What the user has corrected stays as the user wants it, through all rounds:
\* the fallback, which places views in gen_apps itself, moves none of them.
FeedbackKept ==
  \A d \in Devices : \A v \in per_device_fixed_views[d] : gen_apps[d][v] = apps[d][v]

\* Correcting one view at a time is enough: when the loop was not ended by a
\* failure and the layout honours all corrections, it is the one the user wants
\* on every device.
CorrectionsSuffice ==
  fpc = "ended" /\ res # NoLayout =>
    \/ \E d \in Devices : \E v \in per_device_fixed_views[d] : res[d][v] # apps[d][v]
    \/ res = apps
=============================================================================
