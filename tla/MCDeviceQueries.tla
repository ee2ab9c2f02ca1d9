--------------------------- MODULE MCDeviceQueries ---------------------------
(***************************************************************************)
(* The two loops around the queries of the synthesis that place views on     *)
(* devices: nogis_iterative refines an app view by view, inferui_baseline    *)
(* with user feedback.  An execution is a run of one of the two programs;    *)
(* the two share no state.                                                   *)
(***************************************************************************)
EXTENDS IterativeSynthesis, UserFeedback

CONSTANTS Programs, p1, p2, minus, unset, d1

VARIABLE program

AllPlaces == {p1, p2, minus}
OtherPlaces == {p1, p2}

vars == <<program, ivars, fvars>>

\* The program that does not run stays as it starts, with one of its inputs.  The
\* feedback loop only compares the places of a view, so that p1 stands for its true
\* place wherever that is.
Init ==
  /\ program \in Programs
  /\ IterativeInit
  /\ FeedbackInit
  /\ program # "nogis_iterative" =>
       /\ known_apps = [d \in RefinementDevices |-> [v \in 1 .. NumViews |-> p1]]
       /\ generate_data = TRUE
  /\ apps = [d \in Devices |-> [v \in Views |-> p1]]

Next ==
  \/ program = "nogis_iterative" /\ IterativeNext /\ UNCHANGED <<program, fvars>>
  \/ program = "inferui_baseline" /\ FeedbackNext /\ UNCHANGED <<program, ivars>>

Spec == Init /\ [][Next]_vars /\ WF_vars(Next)

\* Both loops end: the candidates of an iteration are bounded, and no view is
\* corrected twice.
LoopsEnd == <>(ipc \in {"done", "failed"} \/ fpc \in {"done", "aborted"})
=============================================================================
