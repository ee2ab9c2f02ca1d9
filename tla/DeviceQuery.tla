----------------------------- MODULE DeviceQuery -----------------------------
(***************************************************************************)
(* What one query of the solver-based synthesis                             *)
(* (SynthesizeMultiDeviceProbSingleQuery) does to the apps of its devices:   *)
(* it places the views that have no fixed position and leaves the others.    *)
(* A view's place on a device is one value that stands for its four          *)
(* coordinates.  No coordinate is marked as absent: -1 means that, and is    *)
(* also a place a view can have.                                             *)
(***************************************************************************)
EXTENDS Naturals, FiniteSets, Sequences, Functions

CONSTANTS
  Places,                    \* the places a solution may give to a view
  AtMinusOne,                \* those of them with a coordinate -1
  Unset                      \* all four coordinates -1

ASSUME PlacesAssumption ==
  /\ AtMinusOne \subseteq Places
  /\ Unset \notin Places

HasFixedPosition(place) == place # Unset /\ place \notin AtMinusOne

Slots(device_apps) ==
  UNION {{d} \X (DOMAIN device_apps[d]) : d \in DOMAIN device_apps}

OpenSlots(device_apps) ==
  {s \in Slots(device_apps) : ~HasFixedPosition(device_apps[s[1]][s[2]])}

\* device_apps with the given places for some of its views.
WithPlaces(device_apps, places) ==
  [d \in DOMAIN device_apps |->
     [v \in DOMAIN device_apps[d] |->
        IF <<d, v>> \in DOMAIN places THEN places[<<d, v>>] ELSE device_apps[d][v]]]

\* Mutant of Placed: the positions of all views are taken from the model.
PlacedAll(device_apps) ==
  {WithPlaces(device_apps, places) : places \in [Slots(device_apps) -> Places]}

\* What a query that succeeds may leave behind.
Placed(device_apps) ==
  {WithPlaces(device_apps, places) : places \in [OpenSlots(device_apps) -> Places]}
=============================================================================
